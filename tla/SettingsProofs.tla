--------------------------- MODULE SettingsProofs ---------------------------
(***************************************************************************)
(* Proofs about the Settings, for any number of processes and any set of   *)
(* command lines.  The inductive invariant says what each process's copy   *)
(* has to do with the file, which is all that its decisions rest on.       *)
(***************************************************************************)
EXTENDS Settings, TLAPS

(* What a process's command line and stage say about what it has to do. *)
Lines ==
    \A p \in Process :
        /\ todo[p] \subseteq command[p].values
        /\ command[p] \in ConfigLine /\ command[p].key = "Repositories" =>
              command[p].values \subseteq Repository
        /\ stage[p] \in {"load", "install", "remove"} => command[p] \in PackageLine
        /\ stage[p] = "install" => Installs(p)

(* A copy is as old as the process at most. *)
Copies ==
    \A p \in Running :
        /\ copy[p].installed \subseteq seen[p]
        /\ Allows(copy[p]) => p \in allowed

(* A process that runs alone has the file's content. *)
AloneCopy == alone => \A p \in Running : Running = {p} /\ copy[p] = file

(* A process that is about to write defaults is the only one there is. *)
FirstRun ==
    ~raced => \A p \in Running :
        stage[p] = "constructed" /\ Lacking(copy[p]) # {} =>
            Running = {p} /\ copy[p] = file

(* What an installation has yet to record is what is not recorded. *)
Pending ==
    \A p \in Process :
        /\ /\ stage[p] \in {"constructed", "parsed", "load", "execute"}
           /\ command[p] \in PackageLine
           => todo[p] = command[p].values
        /\ stage[p] = "install" =>
              command[p].values \cap Loaded(p) \subseteq todo[p] \cup seen[p]

IInv ==
    /\ TypeOK
    /\ Lines
    /\ Copies
    /\ AloneCopy
    /\ FirstRun
    /\ KeysAreIndependent
    /\ RepositoriesKept
    /\ BuildsystemAllowed
    /\ Pending

-----------------------------------------------------------------------------
USE DEF vars

(* A command line is one of config or one about packages. *)
LEMMA LineNames ==
    /\ \A c \in ConfigLine : c.name = "config" /\ c.values \subseteq Argument
    /\ \A c \in PackageLine :
           /\ c.name # "config" /\ c.values \subseteq Package
           /\ c.repository \in Repository \cup {None}
    /\ ConfigLine \cap PackageLine = {}
BY DEF ConfigLine, PackageLine

LEMMA IdleLine == Idle \in ConfigLine /\ Idle.values = {}
BY DEF Idle, ConfigLine, Operation, KnownKeys

LEMMA NoFileType == NoFile \in File /\ NoFile.installed = {}
<1>1. Unset \in ScalarValue
  BY DEF ScalarValue
<1>2. [k \in Scalar |-> Unset] \in [Scalar -> ScalarValue]
  BY <1>1
<1> QED
  BY <1>2 DEF NoFile, File

(* Lines survives a step that changes no command line and only shrinks     *)
(* what is to be done, if it leads nobody to a stage not his own.          *)
LEMMA LinesStep ==
    ASSUME Lines, command' = command,
           \A q \in Process : todo'[q] \subseteq todo[q],
           \A q \in Process :
               \/ stage'[q] = stage[q]
               \/ /\ stage'[q] \in {"load", "install", "remove"} => command[q] \in PackageLine
                  /\ stage'[q] = "install" => Installs(q)
    PROVE  Lines'
BY DEF Lines, Installs

(* What the operations of ConfigurationHandler and InstalledPackages write *)
(* is a settings file.                                                     *)
LEMMA SyncTypes ==
    ASSUME TypeOK, NEW p \in Process, NEW new \in File, Sync(p, new)
    PROVE  /\ file' \in File /\ copy' \in [Process -> File]
           /\ seen' \in [Process -> SUBSET Package] /\ allowed' \subseteq Process
<1>1. new.installed \subseteq Package
  BY DEF File
<1> QED
  BY <1>1 DEF TypeOK, Sync, Running

LEMMA WrittenTypes ==
    ASSUME NEW f \in File
    PROVE  /\ \A k \in Scalar, v \in ScalarValue : WithScalar(f, k, v) \in File
           /\ \A urls \in [Repository -> Nat] : WithRepositories(f, urls) \in File
           /\ \A q \in Process, x \in Package : WithRecord(f, q, x) \in File
           /\ \A x \in Package : WithoutRecord(f, x) \in File
<1>1. ASSUME NEW k \in Scalar, NEW v \in ScalarValue PROVE WithScalar(f, k, v) \in File
  <2>1. [f.scalars EXCEPT ![k] = v] \in [Scalar -> ScalarValue]
    BY DEF File
  <2> QED
    BY <2>1 DEF File, WithScalar
<1>2. ASSUME NEW urls \in [Repository -> Nat] PROVE WithRepositories(f, urls) \in File
  BY DEF File, WithRepositories
<1>3. ASSUME NEW q \in Process, NEW x \in Package PROVE WithRecord(f, q, x) \in File
  BY DEF File, WithRecord
<1>4. ASSUME NEW x \in Package PROVE WithoutRecord(f, x) \in File
  BY DEF File, WithoutRecord
<1> QED
  BY <1>1, <1>2, <1>3, <1>4

LEMMA IInvConstruct ==
    ASSUME IInv, NEW p \in Process, NEW c \in Command, Construct(p, c)
    PROVE  IInv'
<1> USE DEF Construct
<1>1. TypeOK'
  <2>1. command' \in [Process -> ConfigLine \cup PackageLine]
    BY SettingsAssumption DEF IInv, TypeOK
  <2>2. todo' \in [Process -> SUBSET (Argument \cup Package)]
    BY LineNames, SettingsAssumption DEF IInv, TypeOK
  <2>3. seen' \in [Process -> SUBSET Package]
    BY DEF IInv, TypeOK, File
  <2> QED
    BY <2>1, <2>2, <2>3, SettingsAssumption DEF IInv, TypeOK
<1>2. Lines'
  <2>1. c \in ConfigLine /\ c.key = "Repositories" => c.values \subseteq Repository
    BY LineNames, SettingsAssumption
  <2> QED
    BY <2>1 DEF IInv, TypeOK, Lines, Installs
<1>3. Copies'
  BY DEF IInv, TypeOK, Running, Copies
<1>4. AloneCopy'
  BY DEF IInv, TypeOK, Running, AloneCopy
<1>5. FirstRun'
  <2> SUFFICES ASSUME ~raced', NEW q \in Running', stage'[q] = "constructed",
                      Lacking(copy'[q]) # {}
               PROVE  Running' = {q} /\ copy'[q] = file'
    BY DEF FirstRun
  <2>1. ~raced /\ \A r \in Running : Lacking(file) = {} /\ Lacking(copy[r]) = {}
    OBVIOUS
  <2>2. p \notin Running /\ Running' = Running \cup {p}
    BY DEF IInv, TypeOK, Running
  <2>3. q = p
    <3>1. q # p => q \in Running /\ copy'[q] = copy[q]
      BY <2>2 DEF IInv, TypeOK
    <3> QED
      BY <2>1, <3>1
  <2>4. copy'[p] = file /\ file' = file
    BY DEF IInv, TypeOK
  <2>5. Running = {}
    BY <2>1, <2>3, <2>4
  <2> QED
    BY <2>2, <2>3, <2>4, <2>5
<1>6. KeysAreIndependent'
  BY DEF IInv, TypeOK, KeysAreIndependent
<1>7. RepositoriesKept'
  BY DEF IInv, TypeOK, RepositoriesKept
<1>8. BuildsystemAllowed'
  BY DEF IInv, TypeOK, BuildsystemAllowed
<1>9. Pending'
  BY DEF IInv, TypeOK, Pending, Loaded
<1> QED
  BY <1>1, <1>2, <1>3, <1>4, <1>5, <1>6, <1>7, <1>8, <1>9 DEF IInv

LEMMA IInvSetupDefaults ==
    ASSUME IInv, NEW p \in Process, SetupDefaults(p)
    PROVE  IInv'
<1> USE DEF SetupDefaults, Sync, MissingDefaults, RepositoryUrls, Listed
<1>1. TypeOK'
  <2>1. MissingDefaults(file, p) \in File
    <3> DEFINE g == [k \in Scalar |->
                       IF k \in Lacking(copy[p]) THEN Default[k] ELSE file.scalars[k]]
    <3>1. g \in [Scalar -> ScalarValue]
      <4>1. \A k \in Scalar : Default[k] \in ScalarValue
        BY SettingsAssumption DEF ScalarValue
      <4>2. file.scalars \in [Scalar -> ScalarValue]
        BY DEF IInv, TypeOK, File
      <4>3. \A k \in Scalar :
                (IF k \in Lacking(copy[p]) THEN Default[k] ELSE file.scalars[k])
                    \in ScalarValue
        BY <4>1, <4>2
      <4> QED
        BY <4>3
    <3>2. MissingDefaults(file, p) = [file EXCEPT !.scalars = g]
      BY DEF MissingDefaults
    <3> HIDE DEF g
    <3> QED
      BY <3>1, <3>2 DEF IInv, TypeOK, File
  <2> HIDE DEF MissingDefaults
  <2>2. /\ file' \in File /\ copy' \in [Process -> File]
        /\ seen' \in [Process -> SUBSET Package] /\ allowed' \subseteq Process
    BY <2>1, SyncTypes DEF IInv
  <2>3. sources' \in [Process -> SUBSET Repository]
    BY DEF IInv, TypeOK
  <2> QED
    BY <2>2, <2>3 DEF IInv, TypeOK
<1>2. Lines'
  <2>1. command' = command
    OBVIOUS
  <2>2. \A q \in Process : todo'[q] \subseteq todo[q]
    BY DEF IInv, TypeOK
  <2>3. \A q \in Process : stage'[q] = stage[q]
          \/ /\ stage'[q] \in {"load", "install", "remove"} => command[q] \in PackageLine
             /\ stage'[q] = "install" => Installs(q)
    BY DEF IInv, TypeOK, Lines
  <2> QED
    BY <2>1, <2>2, <2>3, LinesStep DEF IInv
<1>3. AloneCopy'
  BY DEF IInv, TypeOK, Running, AloneCopy
<1>4. FirstRun'
  <2> SUFFICES ASSUME ~raced, NEW q \in Running, q # p, stage[q] = "constructed",
                      Lacking(copy[q]) # {}
               PROVE  FALSE
    BY DEF IInv, TypeOK, FirstRun, Running
  <2> QED
    BY DEF IInv, TypeOK, FirstRun, Running
<1>5. KeysAreIndependent'
  <2>1. file'.installed = file.installed
    BY DEF IInv, TypeOK
  <2>2. ASSUME ~raced, NEW k \in Scalar, chosen[k] # Unset
        PROVE  file'.scalars[k] = chosen[k]
    <3>1. file.scalars[k] = chosen[k]
      BY <2>2 DEF IInv, TypeOK, KeysAreIndependent
    <3>2. k \notin Lacking(copy[p])
      BY <2>2, <3>1 DEF IInv, TypeOK, FirstRun, Lacking, Running
    <3> QED
      BY <3>1, <3>2 DEF IInv, TypeOK
  <2> QED
    BY <2>1, <2>2 DEF IInv, TypeOK, KeysAreIndependent
<1>6. Pending'
  BY DEF IInv, TypeOK, Pending, Loaded
<1>7. Copies'
  BY DEF IInv, TypeOK, Copies, Running
<1>8. RepositoriesKept' /\ BuildsystemAllowed'
  BY DEF IInv, TypeOK, RepositoriesKept, BuildsystemAllowed
<1> QED
  BY <1>1, <1>2, <1>3, <1>4, <1>5, <1>6, <1>7, <1>8 DEF IInv

LEMMA IInvPreMetadataLoad ==
    ASSUME IInv, NEW p \in Process, PreMetadataLoad(p)
    PROVE  IInv'
<1> USE DEF PreMetadataLoad, Refused, NeedMetadata
<1>1. TypeOK'
  <2>1. temporary' \in [Process -> Repository \cup {None}]
    BY LineNames DEF IInv, TypeOK
  <2> QED
    BY <2>1 DEF IInv, TypeOK
<1>2. Lines'
  <2>1. command' = command
    OBVIOUS
  <2>2. \A q \in Process : todo'[q] \subseteq todo[q]
    BY DEF IInv, TypeOK
  <2>3. \A q \in Process : stage'[q] = stage[q]
          \/ /\ stage'[q] \in {"load", "install", "remove"} => command[q] \in PackageLine
             /\ stage'[q] = "install" => Installs(q)
    BY LineNames DEF IInv, TypeOK, Lines
  <2> QED
    BY <2>1, <2>2, <2>3, LinesStep DEF IInv
<1>3. BuildsystemAllowed'
  <2>1. command[p].name = "buildsystem" => p \in allowed
    BY DEF IInv, TypeOK, Copies, Running
  <2> QED
    BY <2>1 DEF IInv, TypeOK, BuildsystemAllowed
<1>4. Pending'
  BY DEF IInv, TypeOK, Pending, Loaded
<1>5. Copies' /\ AloneCopy' /\ FirstRun'
  BY DEF IInv, TypeOK, Copies, AloneCopy, FirstRun, Running
<1>6. KeysAreIndependent' /\ RepositoriesKept'
  BY DEF IInv, TypeOK, KeysAreIndependent, RepositoriesKept
<1> QED
  BY <1>1, <1>2, <1>3, <1>4, <1>5, <1>6 DEF IInv

LEMMA IInvLoadMetadata ==
    ASSUME IInv, NEW p \in Process, LoadMetadata(p)
    PROVE  IInv'
<1> USE DEF LoadMetadata
<1>1. Lines'
  <2>1. command' = command
    OBVIOUS
  <2>2. \A q \in Process : todo'[q] \subseteq todo[q]
    BY DEF IInv, TypeOK
  <2>3. \A q \in Process : stage'[q] = stage[q]
          \/ /\ stage'[q] \in {"load", "install", "remove"} => command[q] \in PackageLine
             /\ stage'[q] = "install" => Installs(q)
    BY DEF IInv, TypeOK, Lines
  <2> QED
    BY <2>1, <2>2, <2>3, LinesStep DEF IInv
<1>2. Pending'
  BY DEF IInv, TypeOK, Pending, Loaded
<1>3. TypeOK' /\ KeysAreIndependent' /\ RepositoriesKept' /\ BuildsystemAllowed'
  BY DEF IInv, TypeOK, KeysAreIndependent, RepositoriesKept, BuildsystemAllowed
<1>4. Copies' /\ AloneCopy' /\ FirstRun'
  BY DEF IInv, TypeOK, Copies, AloneCopy, FirstRun, Running
<1> QED
  BY <1>1, <1>2, <1>3, <1>4 DEF IInv

LEMMA IInvUninitialized ==
    ASSUME IInv, NEW p \in Process, NEW op \in Operation, Uninitialized(p, op)
    PROVE  IInv'
<1> USE DEF Uninitialized
<1>1. command[p] \in ConfigLine
  BY LineNames DEF IInv, TypeOK
<1>2. /\ command'[p] \in ConfigLine /\ command'[p].key = command[p].key
      /\ command'[p].values = command[p].values
  BY <1>1 DEF IInv, TypeOK, ConfigLine
<1>3. \A q \in Process \ {p} : command'[q] = command[q]
  BY DEF IInv, TypeOK
<1>4. TypeOK'
  BY <1>2 DEF IInv, TypeOK
<1>5. Lines'
  BY <1>1, <1>2, <1>3 DEF IInv, TypeOK, Lines, Installs
<1>6. Pending'
  BY <1>1, <1>2, <1>3, LineNames DEF IInv, TypeOK, Pending, Loaded
<1>7. Copies' /\ AloneCopy' /\ FirstRun'
  BY DEF IInv, TypeOK, Copies, AloneCopy, FirstRun, Running
<1>8. KeysAreIndependent' /\ RepositoriesKept' /\ BuildsystemAllowed'
  BY DEF IInv, TypeOK, KeysAreIndependent, RepositoriesKept, BuildsystemAllowed
<1> QED
  BY <1>4, <1>5, <1>6, <1>7, <1>8 DEF IInv

LEMMA IInvConfigSet ==
    ASSUME IInv, NEW p \in Process, NEW v \in todo[p], ConfigSet(p, v)
    PROVE  IInv'
<1> USE DEF ConfigSet, Executes, Supported, KnownKeys, Sync, WithScalar
<1>1. TypeOK'
  <2>1. CASE v \in Values[command[p].key]
    <3>1. command[p].key \in Scalar /\ v \in ScalarValue
      BY <2>1 DEF ScalarValue
    <3>2. WithScalar(file, command[p].key, v) \in File
      BY <3>1, WrittenTypes DEF IInv, TypeOK
    <3> HIDE DEF WithScalar
    <3>3. /\ file' \in File /\ copy' \in [Process -> File]
          /\ seen' \in [Process -> SUBSET Package] /\ allowed' \subseteq Process
      BY <2>1, <3>2, SyncTypes DEF IInv
    <3> QED
      BY <2>1, <3>1, <3>3 DEF IInv, TypeOK
  <2>2. CASE v \notin Values[command[p].key]
    BY <2>2 DEF IInv, TypeOK
  <2> QED
    BY <2>1, <2>2
<1>2. Lines'
  <2>1. command' = command
    OBVIOUS
  <2>2. \A q \in Process : todo'[q] \subseteq todo[q]
    BY DEF IInv, TypeOK
  <2>3. \A q \in Process : stage'[q] = stage[q]
    BY DEF IInv, TypeOK, Lines
  <2> QED
    BY <2>1, <2>2, <2>3, LinesStep DEF IInv
<1>3. Copies'
  <2>1. CASE v \in Values[command[p].key]
    <3>1. Running' = Running
      BY DEF Running
    <3>2. copy'[p] = file' /\ \A q \in Process \ {p} : copy'[q] = copy[q]
      BY <2>1 DEF IInv, TypeOK
    <3>3. \A q \in Running : seen'[q] = seen[q] \cup file'.installed
      BY <2>1 DEF Running
    <3>4. allowed' = allowed \cup {q \in Running : Allows(file')}
      BY <2>1
    <3> HIDE DEF Sync, ConfigSet
    <3> QED
      BY <3>1, <3>2, <3>3, <3>4 DEF IInv, TypeOK, Copies, Running
  <2>2. CASE v \notin Values[command[p].key]
    BY <2>2 DEF IInv, TypeOK, Copies, Running
  <2> QED
    BY <2>1, <2>2
<1>4. AloneCopy'
  BY DEF IInv, TypeOK, Running, AloneCopy
<1>5. FirstRun'
  BY DEF IInv, TypeOK, Running, FirstRun
<1>6. KeysAreIndependent'
  <2>1. CASE v \in Values[command[p].key]
    <3>1. command[p].key \in Scalar
      OBVIOUS
    <3>2. /\ file'.installed = file.installed
          /\ file'.scalars = [file.scalars EXCEPT ![command[p].key] = v]
      BY <2>1 DEF IInv, TypeOK, File
    <3> QED
      BY <2>1, <3>1, <3>2 DEF IInv, TypeOK, File, KeysAreIndependent
  <2>2. CASE v \notin Values[command[p].key]
    BY <2>2 DEF IInv, TypeOK, KeysAreIndependent
  <2> QED
    BY <2>1, <2>2
<1>7. RepositoriesKept'
  <2>1. file'.repositories = file.repositories
    BY DEF IInv, TypeOK, File
  <2> QED
    BY <2>1 DEF IInv, TypeOK, RepositoriesKept, Listed
<1>8. Pending'
  <2>1. command[p] \notin PackageLine /\ stage[p] # "install"
    BY LineNames
  <2>2. \A q \in Process : seen[q] \subseteq seen'[q]
    BY DEF IInv, TypeOK
  <2>3. \A q \in Process \ {p} : todo'[q] = todo[q]
    BY DEF IInv, TypeOK
  <2> QED
    BY <2>1, <2>2, <2>3 DEF IInv, TypeOK, Pending, Loaded
<1>9. BuildsystemAllowed'
  BY DEF IInv, TypeOK, BuildsystemAllowed
<1> QED
  BY <1>1, <1>2, <1>3, <1>4, <1>5, <1>6, <1>7, <1>8, <1>9 DEF IInv

LEMMA IInvAddRepositoryUrl ==
    ASSUME IInv, NEW p \in Process, NEW v \in todo[p], AddRepositoryUrl(p, v)
    PROVE  IInv'
<1> USE DEF AddRepositoryUrl, Executes, Supported, KnownKeys, Sync, WithRepositories
<1>1. TypeOK'
  <2>1. v \in Repository
    BY LineNames DEF IInv, TypeOK, Lines
  <2>2. [copy[p].repositories EXCEPT ![v] = @ + 1] \in [Repository -> Nat]
    <3>1. copy[p].repositories \in [Repository -> Nat]
      BY DEF IInv, TypeOK, File
    <3> QED
      BY <2>1, <3>1
  <2>3. WithRepositories(file, [copy[p].repositories EXCEPT ![v] = @ + 1]) \in File
    BY <2>2, WrittenTypes DEF IInv, TypeOK
  <2> HIDE DEF WithRepositories, AllRemoved
  <2>4. /\ file' \in File /\ copy' \in [Process -> File]
        /\ seen' \in [Process -> SUBSET Package] /\ allowed' \subseteq Process
    BY <2>3, SyncTypes DEF IInv
  <2> QED
    BY <2>1, <2>4 DEF IInv, TypeOK
<1>2. Lines'
  <2>1. command' = command
    OBVIOUS
  <2>2. \A q \in Process : todo'[q] \subseteq todo[q]
    BY DEF IInv, TypeOK
  <2>3. \A q \in Process : stage'[q] = stage[q]
    BY DEF IInv, TypeOK, Lines
  <2> QED
    BY <2>1, <2>2, <2>3, LinesStep DEF IInv
<1>3. AloneCopy'
  BY DEF IInv, TypeOK, Running, AloneCopy
<1>4. RepositoriesKept'
  <2> SUFFICES ASSUME alone PROVE Listed(file') = wanted'
    BY DEF RepositoriesKept
  <2>1. v \in Repository
    BY LineNames DEF IInv, TypeOK, Lines
  <2>2. copy[p].repositories = file.repositories
    BY DEF IInv, TypeOK, AloneCopy, Running
  <2>3. /\ file'.repositories = [file.repositories EXCEPT ![v] = @ + 1]
        /\ file.repositories \in [Repository -> Nat]
    BY <2>2 DEF IInv, TypeOK, File
  <2>4. Listed(file') = Listed(file) \cup {v}
    BY <2>1, <2>3 DEF Listed
  <2> QED
    BY <2>4 DEF IInv, TypeOK, RepositoriesKept
<1>5. Pending'
  <2>1. command[p] \notin PackageLine /\ stage[p] # "install"
    BY LineNames
  <2>2. \A q \in Process : seen[q] \subseteq seen'[q]
    BY DEF IInv, TypeOK
  <2>3. \A q \in Process \ {p} : todo'[q] = todo[q]
    BY DEF IInv, TypeOK
  <2> QED
    BY <2>1, <2>2, <2>3 DEF IInv, TypeOK, Pending, Loaded
<1>6. Copies' /\ FirstRun'
  BY DEF IInv, TypeOK, Copies, FirstRun, Running
<1>7. KeysAreIndependent' /\ BuildsystemAllowed'
  BY DEF IInv, TypeOK, KeysAreIndependent, BuildsystemAllowed
<1> QED
  BY <1>1, <1>2, <1>3, <1>4, <1>5, <1>6, <1>7 DEF IInv

LEMMA IInvRemoveRepositoryUrl ==
    ASSUME IInv, NEW p \in Process, NEW v \in todo[p], RemoveRepositoryUrl(p, v)
    PROVE  IInv'
<1> USE DEF RemoveRepositoryUrl, Executes, Supported, KnownKeys, Sync, WithRepositories,
            AllRemoved
<1>1. TypeOK'
  BY DEF IInv, TypeOK, Running, File
<1>2. Lines'
  <2>1. command' = command
    OBVIOUS
  <2>2. \A q \in Process : todo'[q] \subseteq todo[q]
    BY DEF IInv, TypeOK
  <2>3. \A q \in Process : stage'[q] = stage[q]
    BY DEF IInv, TypeOK, Lines
  <2> QED
    BY <2>1, <2>2, <2>3, LinesStep DEF IInv
<1>3. AloneCopy'
  BY DEF IInv, TypeOK, Running, AloneCopy
<1>4. RepositoriesKept'
  <2> SUFFICES ASSUME alone PROVE Listed(file') = wanted'
    BY DEF RepositoriesKept
  <2>1. v \in Repository
    BY LineNames DEF IInv, TypeOK, Lines
  <2>2. copy[p].repositories = file.repositories
    BY DEF IInv, TypeOK, AloneCopy, Running
  <2>3. /\ file'.repositories = [file.repositories EXCEPT ![v] = 0]
        /\ file.repositories \in [Repository -> Nat]
    BY <2>2 DEF IInv, TypeOK, File
  <2>4. Listed(file') = Listed(file) \ {v}
    BY <2>1, <2>3 DEF Listed
  <2> QED
    BY <2>4 DEF IInv, TypeOK, RepositoriesKept
<1>5. Pending'
  <2>1. command[p] \notin PackageLine /\ stage[p] # "install"
    BY LineNames
  <2>2. \A q \in Process : seen[q] \subseteq seen'[q]
    BY DEF IInv, TypeOK
  <2>3. \A q \in Process \ {p} : todo'[q] = todo[q]
    BY DEF IInv, TypeOK
  <2> QED
    BY <2>1, <2>2, <2>3 DEF IInv, TypeOK, Pending, Loaded
<1>6. Copies' /\ FirstRun'
  BY DEF IInv, TypeOK, Copies, FirstRun, Running
<1>7. KeysAreIndependent' /\ BuildsystemAllowed'
  BY DEF IInv, TypeOK, KeysAreIndependent, BuildsystemAllowed
<1> QED
  BY <1>1, <1>2, <1>3, <1>4, <1>5, <1>6, <1>7 DEF IInv

LEMMA IInvConstructPackageList ==
    ASSUME IInv, NEW p \in Process, ConstructPackageList(p)
    PROVE  IInv'
<1> USE DEF ConstructPackageList, Installs, Installable
<1>1. Lines'
  BY LineNames DEF IInv, TypeOK, Lines
<1>2. Pending'
  <2>1. command[p] \in PackageLine
    BY LineNames DEF IInv, TypeOK
  <2>2. todo[p] = command[p].values /\ copy[p].installed \subseteq seen[p]
    BY <2>1 DEF IInv, TypeOK, Pending, Copies, Running
  <2> QED
    BY <2>1, <2>2 DEF IInv, TypeOK, Pending, Loaded
<1>3. TypeOK' /\ KeysAreIndependent' /\ RepositoriesKept' /\ BuildsystemAllowed'
  BY DEF IInv, TypeOK, KeysAreIndependent, RepositoriesKept, BuildsystemAllowed
<1>4. Copies' /\ AloneCopy' /\ FirstRun'
  BY DEF IInv, TypeOK, Copies, AloneCopy, FirstRun, Running
<1> QED
  BY <1>1, <1>2, <1>3, <1>4 DEF IInv

LEMMA IInvRemovalList ==
    ASSUME IInv, NEW p \in Process, RemovalList(p)
    PROVE  IInv'
<1> USE DEF RemovalList, Removable
<1>1. Lines'
  <2>1. command' = command
    OBVIOUS
  <2>2. \A q \in Process : todo'[q] \subseteq todo[q]
    BY DEF IInv, TypeOK
  <2>3. \A q \in Process : stage'[q] = stage[q]
          \/ /\ stage'[q] \in {"load", "install", "remove"} => command[q] \in PackageLine
             /\ stage'[q] = "install" => Installs(q)
    BY LineNames DEF IInv, TypeOK, Lines
  <2> QED
    BY <2>1, <2>2, <2>3, LinesStep DEF IInv
<1>2. Pending'
  BY DEF IInv, TypeOK, Pending, Loaded
<1>3. TypeOK' /\ KeysAreIndependent' /\ RepositoriesKept' /\ BuildsystemAllowed'
  BY DEF IInv, TypeOK, KeysAreIndependent, RepositoriesKept, BuildsystemAllowed
<1>4. Copies' /\ AloneCopy' /\ FirstRun'
  BY DEF IInv, TypeOK, Copies, AloneCopy, FirstRun, Running
<1> QED
  BY <1>1, <1>2, <1>3, <1>4 DEF IInv

LEMMA IInvSetPackageInstalled ==
    ASSUME IInv, NEW p \in Process, NEW v \in todo[p], SetPackageInstalled(p, v)
    PROVE  IInv'
<1> USE DEF SetPackageInstalled, Sync, WithRecord
<1>1. TypeOK'
  <2>1. v \in Package
    BY LineNames DEF IInv, TypeOK, Lines
  <2>2. WithRecord(file, p, v) \in File
    BY <2>1, WrittenTypes DEF IInv, TypeOK
  <2> HIDE DEF WithRecord
  <2>3. /\ file' \in File /\ copy' \in [Process -> File]
        /\ seen' \in [Process -> SUBSET Package] /\ allowed' \subseteq Process
    BY <2>2, SyncTypes DEF IInv
  <2> QED
    BY <2>1, <2>3 DEF IInv, TypeOK
<1>2. Lines'
  <2>1. command' = command
    OBVIOUS
  <2>2. \A q \in Process : todo'[q] \subseteq todo[q]
    BY DEF IInv, TypeOK
  <2>3. \A q \in Process : stage'[q] = stage[q]
    BY DEF IInv, TypeOK, Lines
  <2> QED
    BY <2>1, <2>2, <2>3, LinesStep DEF IInv
<1>3. AloneCopy'
  BY DEF IInv, TypeOK, Running, AloneCopy
<1>4. RepositoriesKept'
  BY DEF IInv, TypeOK, RepositoriesKept, Listed
<1>5. Pending'
  BY DEF IInv, TypeOK, Running, Pending, Loaded
<1>6. Copies' /\ FirstRun'
  BY DEF IInv, TypeOK, Copies, FirstRun, Running
<1>7. KeysAreIndependent' /\ BuildsystemAllowed'
  BY DEF IInv, TypeOK, KeysAreIndependent, BuildsystemAllowed
<1> QED
  BY <1>1, <1>2, <1>3, <1>4, <1>5, <1>6, <1>7 DEF IInv

LEMMA IInvSetPackageUninstalled ==
    ASSUME IInv, NEW p \in Process, NEW v \in todo[p], SetPackageUninstalled(p, v)
    PROVE  IInv'
<1> USE DEF SetPackageUninstalled, Sync, WithoutRecord
<1>1. TypeOK'
  BY DEF IInv, TypeOK, Running, File
<1>2. Lines'
  <2>1. command' = command
    OBVIOUS
  <2>2. \A q \in Process : todo'[q] \subseteq todo[q]
    BY DEF IInv, TypeOK
  <2>3. \A q \in Process : stage'[q] = stage[q]
    BY DEF IInv, TypeOK, Lines
  <2> QED
    BY <2>1, <2>2, <2>3, LinesStep DEF IInv
<1>3. AloneCopy'
  BY DEF IInv, TypeOK, Running, AloneCopy
<1>4. RepositoriesKept'
  BY DEF IInv, TypeOK, RepositoriesKept, Listed
<1>5. Pending'
  BY DEF IInv, TypeOK, Pending, Loaded
<1>6. Copies' /\ FirstRun'
  BY DEF IInv, TypeOK, Copies, FirstRun, Running
<1>7. KeysAreIndependent' /\ BuildsystemAllowed'
  BY DEF IInv, TypeOK, KeysAreIndependent, BuildsystemAllowed
<1> QED
  BY <1>1, <1>2, <1>3, <1>4, <1>5, <1>6, <1>7 DEF IInv

LEMMA IInvUpdateRequest ==
    ASSUME IInv, NEW p \in Process, UpdateRequest(p)
    PROVE  IInv'
<1> USE DEF UpdateRequest, Sync
<1>1. TypeOK'
  BY DEF IInv, TypeOK, Running, File
<1>2. Lines'
  <2>1. command' = command
    OBVIOUS
  <2>2. \A q \in Process : todo'[q] \subseteq todo[q]
    BY DEF IInv, TypeOK
  <2>3. \A q \in Process : stage'[q] = stage[q]
    BY DEF IInv, TypeOK, Lines
  <2> QED
    BY <2>1, <2>2, <2>3, LinesStep DEF IInv
<1>3. Pending'
  BY DEF IInv, TypeOK, Pending, Loaded
<1>4. Copies' /\ AloneCopy' /\ FirstRun'
  BY DEF IInv, TypeOK, Copies, AloneCopy, FirstRun, Running
<1>5. KeysAreIndependent' /\ RepositoriesKept' /\ BuildsystemAllowed'
  BY DEF IInv, TypeOK, KeysAreIndependent, RepositoriesKept, BuildsystemAllowed
<1> QED
  BY <1>1, <1>2, <1>3, <1>4, <1>5 DEF IInv

LEMMA IInvEnd ==
    ASSUME IInv, NEW p \in Process, NEW code \in {0, 1}, p \in Running, End(p, code)
    PROVE  IInv'
<1> USE DEF End, Idle, NoFile
<1>1. TypeOK'
  <2>1. /\ copy' \in [Process -> File]
        /\ command' \in [Process -> ConfigLine \cup PackageLine]
    BY NoFileType, IdleLine DEF IInv, TypeOK
  <2> QED
    BY <2>1 DEF IInv, TypeOK
<1>2. Lines'
  <2> HIDE DEF Idle
  <2>1. /\ command'[p] = Idle /\ todo'[p] = {} /\ stage'[p] = "off"
        /\ \A q \in Process \ {p} :
               command'[q] = command[q] /\ todo'[q] = todo[q] /\ stage'[q] = stage[q]
    BY DEF IInv, TypeOK
  <2> QED
    BY <2>1, IdleLine DEF IInv, TypeOK, Lines, Installs
<1>3. Copies'
  BY DEF IInv, TypeOK, Running, Copies
<1>4. AloneCopy'
  BY DEF IInv, TypeOK, Running, AloneCopy
<1>5. FirstRun'
  BY DEF IInv, TypeOK, Running, FirstRun
<1>6. BuildsystemAllowed'
  BY DEF IInv, TypeOK, BuildsystemAllowed
<1>7. Pending'
  BY DEF IInv, TypeOK, Pending, Loaded
<1>8. KeysAreIndependent' /\ RepositoriesKept'
  BY DEF IInv, TypeOK, KeysAreIndependent, RepositoriesKept
<1> QED
  BY <1>1, <1>2, <1>3, <1>4, <1>5, <1>6, <1>7, <1>8 DEF IInv

-----------------------------------------------------------------------------
LEMMA IInvInit == Init => IInv
<1> SUFFICES ASSUME Init PROVE IInv
  OBVIOUS
<1> USE DEF Init
<1>1. TypeOK
  <2>1. /\ file \in File /\ copy \in [Process -> File]
        /\ command \in [Process -> ConfigLine \cup PackageLine]
    BY NoFileType, IdleLine
  <2>2. chosen \in [Scalar -> ScalarValue]
    BY DEF ScalarValue
  <2>3. alone \in BOOLEAN /\ raced \in BOOLEAN
    OBVIOUS
  <2> QED
    BY <2>1, <2>2, <2>3, SettingsAssumption DEF TypeOK
<1>2. Running = {}
  BY DEF Running
<1>3. Lines /\ Pending
  BY IdleLine DEF Lines, Pending, Installs
<1>4. Copies /\ AloneCopy /\ FirstRun
  BY <1>2 DEF Copies, AloneCopy, FirstRun
<1>5. KeysAreIndependent
  BY NoFileType DEF KeysAreIndependent
<1>6. RepositoriesKept
  BY DEF RepositoriesKept, Listed, NoFile
<1>7. BuildsystemAllowed
  BY DEF BuildsystemAllowed
<1> QED
  BY <1>1, <1>3, <1>4, <1>5, <1>6, <1>7 DEF IInv

LEMMA IInvStutter == IInv /\ UNCHANGED vars => IInv'
BY DEF IInv, TypeOK, Lines, Copies, AloneCopy, FirstRun, KeysAreIndependent,
       RepositoriesKept, BuildsystemAllowed, Pending, Running, Allows, Lacking, Listed,
       Loaded, Installs

(* A process ends when it is done, fails, or is killed. *)
Ends(p) ==
    \/ BuildsystemRefused(p) \/ LoadFails(p) \/ ConfigFails(p) \/ ConfigRead(p)
    \/ ConfigDies(p) \/ ConfigDone(p) \/ CommandFails(p) \/ CommandDone(p) \/ Killed(p)

LEMMA EndsIsEnd ==
    ASSUME NEW p \in Process, Ends(p)
    PROVE  p \in Running /\ \E code \in {0, 1} : End(p, code)
BY DEF Ends, BuildsystemRefused, LoadFails, ConfigFails, ConfigRead, ConfigDies, ConfigDone,
       CommandFails, CommandDone, Killed, Executes, Running

LEMMA IInvNext == IInv /\ [Next]_vars => IInv'
<1> SUFFICES ASSUME IInv, [Next]_vars PROVE IInv'
  OBVIOUS
<1>1. CASE UNCHANGED vars
  BY <1>1, IInvStutter
<1>2. ASSUME NEW p \in Process, NEW c \in Command, Construct(p, c) PROVE IInv'
  BY <1>2, IInvConstruct
<1>3. ASSUME NEW p \in Process,
             \/ SetupDefaults(p) \/ PreMetadataLoad(p) \/ LoadMetadata(p)
             \/ ConstructPackageList(p) \/ RemovalList(p) \/ UpdateRequest(p)
      PROVE  IInv'
  BY <1>3, IInvSetupDefaults, IInvPreMetadataLoad, IInvLoadMetadata,
     IInvConstructPackageList, IInvRemovalList, IInvUpdateRequest
<1>4. ASSUME NEW p \in Process, NEW op \in {"read", "set", "add", "delete", "other"},
             Uninitialized(p, op)
      PROVE  IInv'
  BY <1>4, IInvUninitialized DEF Operation
<1>5. ASSUME NEW p \in Process, NEW v \in todo[p],
             \/ ConfigSet(p, v) \/ AddRepositoryUrl(p, v) \/ RemoveRepositoryUrl(p, v)
             \/ SetPackageInstalled(p, v) \/ SetPackageUninstalled(p, v)
      PROVE  IInv'
  BY <1>5, IInvConfigSet, IInvAddRepositoryUrl, IInvRemoveRepositoryUrl,
     IInvSetPackageInstalled, IInvSetPackageUninstalled
<1>6. ASSUME NEW p \in Process, Ends(p) PROVE IInv'
  BY <1>6, EndsIsEnd, IInvEnd
<1> QED
  BY <1>1, <1>2, <1>3, <1>4, <1>5, <1>6 DEF Next, Ends

(* Whatever processes run, and however they take turns, the invariant       *)
(* holds.                                                                   *)
THEOREM SettingsInvariance == Spec => []IInv
BY IInvInit, IInvNext, PTL DEF Spec

(* The settings file and every copy of it stay well formed. *)
THEOREM SettingsTypeCorrect == Spec => []TypeOK
<1>1. IInv => TypeOK
  BY DEF IInv
<1> QED
  BY <1>1, SettingsInvariance, PTL

(* No process undoes what another wrote under a different key: sync reads   *)
(* the file before it writes.                                               *)
THEOREM KeysIndependent == Spec => []KeysAreIndependent
<1>1. IInv => KeysAreIndependent
  BY DEF IInv
<1> QED
  BY <1>1, SettingsInvariance, PTL

(* Commands that run one after the other lose no repository and bring back  *)
(* none, addRepositoryUrl's duplicates included.                            *)
THEOREM RepositoriesSurvive == Spec => []RepositoriesKept
<1>1. IInv => RepositoriesKept
  BY DEF IInv
<1> QED
  BY <1>1, SettingsInvariance, PTL

(* A build system installs only if installing was allowed since it started. *)
THEOREM BuildsystemConsent == Spec => []BuildsystemAllowed
<1>1. IInv => BuildsystemAllowed
  BY DEF IInv
<1> QED
  BY <1>1, SettingsInvariance, PTL

(* From the stage of installing a process ends with 0 in one way: nothing   *)
(* is left to be done.                                                      *)
LEMMA InstallEndsDone ==
    ASSUME IInv, Next, NEW p \in Process, stage[p] = "install", stage'[p] = "off", exit' = 0
    PROVE  todo[p] = {}
<1>1. stage[p] # stage'[p]
  OBVIOUS
<1>2. \A q \in Process : Ends(q) /\ q # p => stage'[p] = stage[p]
  BY EndsIsEnd DEF End, IInv, TypeOK
<1>3. Ends(p) => todo[p] = {}
  BY DEF Ends, BuildsystemRefused, LoadFails, ConfigFails, ConfigRead, ConfigDies,
         ConfigDone, CommandFails, CommandDone, Killed, Executes, End
<1>4. ASSUME NEW q \in Process,
             \/ \E c \in Command : Construct(q, c)
             \/ SetupDefaults(q) \/ PreMetadataLoad(q) \/ LoadMetadata(q)
             \/ \E op \in {"read", "set", "add", "delete", "other"} : Uninitialized(q, op)
             \/ \E v \in todo[q] :
                    \/ ConfigSet(q, v) \/ AddRepositoryUrl(q, v) \/ RemoveRepositoryUrl(q, v)
                    \/ SetPackageInstalled(q, v) \/ SetPackageUninstalled(q, v)
             \/ ConstructPackageList(q) \/ RemovalList(q) \/ UpdateRequest(q)
      PROVE  stage'[p] # "off"
  BY <1>4 DEF IInv, TypeOK, Construct, SetupDefaults, PreMetadataLoad, LoadMetadata,
              Uninitialized, ConfigSet, AddRepositoryUrl, RemoveRepositoryUrl,
              SetPackageInstalled, SetPackageUninstalled, ConstructPackageList,
              RemovalList, UpdateRequest
<1> QED
  BY <1>1, <1>2, <1>3, <1>4 DEF Next, Ends

(* An installation that ends with 0 has recorded what it was asked for and  *)
(* could find, whatever other processes wrote meanwhile.                    *)
THEOREM InstallsSucceed == Spec => InstallSucceeds
<1> DEFINE A ==
    \A p \in Process :
        stage[p] = "install" /\ stage'[p] = "off" /\ exit' = 0 =>
            \A x \in command[p].values \cap Loaded(p) : x \in seen[p]
<1>1. IInv /\ [Next]_vars => [A]_vars
  <2> SUFFICES ASSUME IInv, Next, NEW p \in Process, stage[p] = "install",
                      stage'[p] = "off", exit' = 0,
                      NEW x \in command[p].values \cap Loaded(p)
               PROVE  x \in seen[p]
    OBVIOUS
  <2>1. todo[p] = {}
    BY InstallEndsDone
  <2> QED
    BY <2>1 DEF IInv, Pending
<1> QED
  BY <1>1, SettingsInvariance, PTL DEF InstallSucceeds, Spec

=============================================================================

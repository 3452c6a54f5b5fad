------------------------------ MODULE Settings ------------------------------
(***************************************************************************)
(* soqute's settings, and the commands of the processes that share them.   *)
(* ConfigurationHandler and InstalledPackages keep everything in one       *)
(* QSettings.  A process reads the file when it starts and works on its    *)
(* copy; every write is followed by sync, which reads the file again, puts *)
(* the key just written over what is there and writes the result (under    *)
(* QSettings' lock: one step).  The copy is as old as the last sync.       *)
(*                                                                         *)
(* A command runs from main to its exit code.  What its metadata holds and *)
(* how packages are installed is left to other modules: a repository       *)
(* offers packages, an installation may fail, a process may be killed; the *)
(* packages a command line names are all it selects, dependencies and all. *)
(* Repositories are listed in no order, but as often as they were added.   *)
(***************************************************************************)
EXTENDS Naturals

CONSTANTS
    Process,
    Repository,
    Package,
    None,           \* no repository
    Scalar,         \* keys of one value; AllowBuildSystemInstall is one
    Values,         \* the values config accepts for each of them
    Default,        \* the values of setupDefaults
    Unset,          \* the value of a key that is not in the file
    Argument,       \* what config is given for values
    Command,        \* command lines
    Offers,         \* the packages in a repository's metadata
    MaxRuns         \* bound: processes started

KnownKeys == Scalar \cup {"Repositories"}
Operation == {"set", "read", "add", "delete", "list", "none", "other"}
ConfigLine ==
    [name : {"config"}, op : Operation, key : KnownKeys \cup {"all", "unknown"},
     values : SUBSET Argument]
PackageLine ==
    [name : {"install", "remove", "buildsystem"}, repository : Repository \cup {None},
     values : SUBSET Package]

ASSUME SettingsAssumption ==
    /\ "AllowBuildSystemInstall" \in Scalar
    /\ {"Repositories", "all", "unknown"} \cap Scalar = {}
    /\ \A k \in Scalar : Default[k] \in Values[k] /\ Unset \notin Values[k]
    /\ Values["AllowBuildSystemInstall"] = BOOLEAN
    /\ Default["AllowBuildSystemInstall"] = FALSE
    /\ None \notin Repository
    /\ Offers \in [Repository -> SUBSET Package]
    /\ \A c \in Command :
           \/ c \in PackageLine
           \/ c \in ConfigLine /\ (c.key = "Repositories" => c.values \subseteq Repository)
    /\ MaxRuns \in Nat

VARIABLES
    file,           \* the settings file
    copy,           \* each process's m_settings
    stage,          \* off, constructed, parsed, load, execute, install, remove
    command,        \* its command line
    todo,           \* the values or packages the command has not come to
    sources,        \* the loader's repository list
    temporary,      \* m_temporaryExtraRepository
    posted,         \* the processes with a QEvent::UpdateRequest under way
    exit,           \* the exit code of the last process, until one starts
    runs,           \* processes started
    wanted,         \* history: repositories added and not deleted since
    chosen,         \* history: the values last set
    recorded,       \* history: packages recorded and not unrecorded since
    alone,          \* history: no two processes ran at a time
    raced,          \* history: nor did one that read a file without defaults
    seen,           \* history: packages recorded since a process started
    allowed         \* history: processes since whose start installing was allowed

processVars == <<copy, stage, command, todo, sources, temporary, posted, exit>>
historyVars == <<wanted, chosen, recorded, alone, raced, seen, allowed>>
vars == <<file, copy, stage, command, todo, sources, temporary, posted, exit, runs,
          wanted, chosen, recorded, alone, raced, seen, allowed>>

ScalarValue == (UNION {Values[k] : k \in Scalar}) \cup {Unset}
File == [scalars : [Scalar -> ScalarValue], repositories : [Repository -> Nat],
         installed : SUBSET Package]

TypeOK ==
    /\ file \in File
    /\ copy \in [Process -> File]
    /\ stage \in [Process ->
           {"off", "constructed", "parsed", "load", "execute", "install", "remove"}]
    /\ command \in [Process -> ConfigLine \cup PackageLine]
    /\ todo \in [Process -> SUBSET (Argument \cup Package)]
    /\ sources \in [Process -> SUBSET Repository]
    /\ temporary \in [Process -> Repository \cup {None}]
    /\ posted \subseteq Process
    /\ exit \in {0, 1}
    /\ runs \in 0..MaxRuns
    /\ wanted \subseteq Repository
    /\ chosen \in [Scalar -> ScalarValue]
    /\ recorded \subseteq Package
    /\ alone \in BOOLEAN /\ raced \in BOOLEAN
    /\ seen \in [Process -> SUBSET Package]
    /\ allowed \subseteq Process

NoFile == [scalars |-> [k \in Scalar |-> Unset], repositories |-> [r \in Repository |-> 0],
           installed |-> {}]
Idle == [name |-> "config", op |-> "read", key |-> "Repositories", values |-> {}]

Init ==
    /\ file = NoFile
    /\ copy = [p \in Process |-> NoFile]
    /\ stage = [p \in Process |-> "off"]
    /\ command = [p \in Process |-> Idle]
    /\ todo = [p \in Process |-> {}]
    /\ sources = [p \in Process |-> {}]
    /\ temporary = [p \in Process |-> None]
    /\ posted = {}
    /\ exit = 0
    /\ runs = 0
    /\ wanted = {} /\ recorded = {} /\ allowed = {}
    /\ chosen = [k \in Scalar |-> Unset]
    /\ alone = TRUE /\ raced = FALSE
    /\ seen = [p \in Process |-> {}]

Running == {p \in Process : stage[p] # "off"}
Allows(f) == f.scalars["AllowBuildSystemInstall"] = TRUE
Lacking(f) == {k \in Scalar : f.scalars[k] = Unset}
Listed(f) == {r \in Repository : f.repositories[r] > 0}

-----------------------------------------------------------------------------
(* QSettings *)

(* sync: the file becomes new, and so does the copy. *)
Sync(p, new) ==
    /\ file' = new
    /\ copy' = [copy EXCEPT ![p] = new]
    /\ seen' = [q \in Process |->
                   IF q \in Running THEN seen[q] \cup new.installed ELSE seen[q]]
    /\ allowed' = allowed \cup {q \in Running : Allows(new)}

(* What setValue and sync make of the file: the one key is written. *)
WithScalar(f, k, v) == [f EXCEPT !.scalars[k] = v]
WithRepositories(f, urls) == [f EXCEPT !.repositories = urls]
StaleRecord(f, p, x) == [copy[p] EXCEPT !.installed = @ \cup {x}]   \* faulty: the copy
WithRecord(f, p, x) == [f EXCEPT !.installed = @ \cup {x}]
WithoutRecord(f, x) == [f EXCEPT !.installed = @ \ {x}]

(* The event that setValue posts reads the file again. *)
UpdateRequest(p) ==
    /\ p \in posted
    /\ stage[p] \in {"load", "install", "remove"}
    /\ Sync(p, file)
    /\ posted' = posted \ {p}
    /\ UNCHANGED <<stage, command, todo, sources, temporary, exit, runs, wanted, chosen,
                   recorded, alone, raced>>

-----------------------------------------------------------------------------
(* A process's way to its command *)

Construct(p, c) ==
    /\ stage[p] = "off" /\ runs < MaxRuns
    /\ runs' = runs + 1
    /\ stage' = [stage EXCEPT ![p] = "constructed"]
    /\ command' = [command EXCEPT ![p] = c]
    /\ todo' = [todo EXCEPT ![p] = c.values]
    /\ copy' = [copy EXCEPT ![p] = file]
    /\ exit' = 0
    /\ alone' = (alone /\ Running = {})
    /\ raced' = (raced \/ \E q \in Running : Lacking(file) # {} \/ Lacking(copy[q]) # {})
    /\ seen' = [seen EXCEPT ![p] = file.installed]
    /\ allowed' = IF Allows(file) THEN allowed \cup {p} ELSE allowed
    /\ UNCHANGED <<file, sources, temporary, posted, wanted, chosen, recorded>>

End(p, code) ==
    /\ stage' = [stage EXCEPT ![p] = "off"]
    /\ exit' = code
    /\ copy' = [copy EXCEPT ![p] = NoFile]
    /\ command' = [command EXCEPT ![p] = Idle]
    /\ todo' = [todo EXCEPT ![p] = {}]
    /\ sources' = [sources EXCEPT ![p] = {}]
    /\ temporary' = [temporary EXCEPT ![p] = None]
    /\ posted' = posted \ {p}
    /\ seen' = [seen EXCEPT ![p] = {}]
    /\ allowed' = allowed \ {p}
    /\ UNCHANGED <<file, runs, wanted, chosen, recorded, alone, raced>>

EvenIfEmpty(f, t) == Listed(f) \cup {t}    \* faulty: t may be no repository
RepositoryUrls(f, t) == Listed(f) \cup ({t} \ {None})

(* setupDefaults writes the keys the copy has not got, then main gives the *)
(* repositories to the loader.                                             *)
MissingDefaults(f, p) ==
    [f EXCEPT !.scalars =
        [k \in Scalar |-> IF k \in Lacking(copy[p]) THEN Default[k] ELSE @[k]]]

SetupDefaults(p) ==
    /\ stage[p] = "constructed"
    /\ Sync(p, MissingDefaults(file, p))
    /\ posted' = IF Lacking(copy[p]) # {} THEN posted \cup {p} ELSE posted
    /\ sources' = [sources EXCEPT ![p] = RepositoryUrls(copy'[p], temporary[p])]
    /\ stage' = [stage EXCEPT ![p] = "parsed"]
    /\ UNCHANGED <<command, todo, temporary, exit, runs, wanted, chosen, recorded, alone,
                   raced>>

NeverRefused(p) == FALSE    \* faulty: anybody's build may install
Refused(p) == command[p].name = "buildsystem" /\ ~Allows(copy[p])

(* The explicit exit code of preMetadataLoad, 2, does not reach main. *)
BuildsystemRefused(p) ==
    /\ stage[p] = "parsed" /\ Refused(p)
    /\ End(p, 1)

NeedMetadata(c) == c.name # "config"

PreMetadataLoad(p) ==
    /\ stage[p] = "parsed" /\ ~Refused(p)
    /\ temporary' = [temporary EXCEPT ![p] =
           IF command[p].name = "buildsystem" THEN command[p].repository ELSE None]
    /\ stage' = [stage EXCEPT ![p] = IF NeedMetadata(command[p]) THEN "load" ELSE "execute"]
    /\ UNCHANGED <<file, copy, command, todo, sources, posted, exit, runs, wanted, chosen,
                   recorded, alone, raced, seen, allowed>>

LoadMetadata(p) ==
    /\ stage[p] = "load"
    /\ stage' = [stage EXCEPT ![p] = "execute"]
    /\ UNCHANGED <<file, copy, command, todo, sources, temporary, posted, exit, runs,
                   wanted, chosen, recorded, alone, raced, seen, allowed>>

LoadFails(p) == stage[p] = "load" /\ End(p, 1)

-----------------------------------------------------------------------------
(* config *)

Supported(key) == IF key = "Repositories" THEN {"read", "add", "delete"} ELSE {"read", "set"}

Executes(p, op) ==
    /\ stage[p] = "execute" /\ command[p].name = "config"
    /\ command[p].op = op
    /\ command[p].key \in KnownKeys /\ op \in Supported(command[p].key)

(* No option is given: the operation is not initialized, and any. *)
Uninitialized(p, op) ==
    /\ stage[p] = "execute" /\ command[p].name = "config" /\ command[p].op = "none"
    /\ command' = [command EXCEPT ![p].op = op]
    /\ UNCHANGED <<file, copy, stage, todo, sources, temporary, posted, exit, runs, wanted,
                   chosen, recorded, alone, raced, seen, allowed>>

(* The keys are listed, or one setting is read, or all of them. *)
Reads(p) ==
    \/ Executes(p, "read")
    \/ command[p].op = "read" /\ command[p].key = "all"
    \/ command[p].op = "list"

ConfigFails(p) ==
    /\ stage[p] = "execute" /\ command[p].name = "config" /\ command[p].op # "none"
    /\ ~Reads(p) /\ ~Executes(p, command[p].op)
    /\ End(p, 1)

ConfigRead(p) ==
    /\ stage[p] = "execute" /\ command[p].name = "config"
    /\ Reads(p)
    /\ End(p, 0)

(* The end of a command that set or changed something. *)
ConfigDone(p) ==
    /\ \/ Executes(p, "add")
       \/ Executes(p, "delete") /\ command[p].values # {}
       \/ Executes(p, "set") /\ command[p].values # {}
    /\ todo[p] = {}
    /\ End(p, 0)

(* first() of an empty list: values are asked for only with the key. *)
ConfigDies(p) ==
    /\ Executes(p, "delete") \/ Executes(p, "set")
    /\ command[p].values = {}
    /\ End(p, 1)

(* The first value is set; one the setting does not accept changes nothing. *)
ConfigSet(p, v) ==
    LET k == command[p].key
    IN  /\ Executes(p, "set") /\ v \in todo[p]
        /\ IF v \in Values[k]
           THEN /\ Sync(p, WithScalar(file, k, v))
                /\ posted' = posted \cup {p}
                /\ chosen' = [chosen EXCEPT ![k] = v]
           ELSE UNCHANGED <<file, copy, posted, chosen, seen, allowed>>
        /\ todo' = [todo EXCEPT ![p] = {}]
        /\ UNCHANGED <<stage, command, sources, temporary, exit, runs, wanted, recorded,
                       alone, raced>>

(* addRepositoryUrl saves prevValue, not the list without duplicates. *)
AddRepositoryUrl(p, url) ==
    /\ Executes(p, "add") /\ url \in todo[p]
    /\ Sync(p, WithRepositories(file, [copy[p].repositories EXCEPT ![url] = @ + 1]))
    /\ todo' = [todo EXCEPT ![p] = @ \ {url}]
    /\ posted' = posted \cup {p}
    /\ wanted' = wanted \cup {url}
    /\ UNCHANGED <<stage, command, sources, temporary, exit, runs, chosen, recorded, alone,
                   raced>>

FirstRemoved(urls, url) ==    \* faulty: a duplicate stays
    [urls EXCEPT ![url] = IF @ > 0 THEN @ - 1 ELSE 0]
AllRemoved(urls, url) == [urls EXCEPT ![url] = 0]

RemoveRepositoryUrl(p, url) ==
    /\ Executes(p, "delete") /\ url \in todo[p]
    /\ Sync(p, WithRepositories(file, AllRemoved(copy[p].repositories, url)))
    /\ todo' = [todo EXCEPT ![p] = @ \ {url}]
    /\ posted' = posted \cup {p}
    /\ wanted' = wanted \ {url}
    /\ UNCHANGED <<stage, command, sources, temporary, exit, runs, chosen, recorded, alone,
                   raced>>

-----------------------------------------------------------------------------
(* install, buildsystem and remove *)

Loaded(p) == UNION {Offers[r] : r \in sources[p]}

Installs(p) == command[p].name \in {"install", "buildsystem"}

OfOneRepository(p) ==    \* faulty: the others are not searched
    IF sources[p] = {} THEN {} ELSE Offers[CHOOSE r \in sources[p] : TRUE] \ copy[p].installed
Installable(p) == Loaded(p) \ copy[p].installed
Removable(p) == Loaded(p) \cap copy[p].installed

(* Arguments that name no package, or an installed one, are left out. *)
ConstructPackageList(p) ==
    /\ stage[p] = "execute"
    /\ Installs(p) /\ RepositoryUrls(copy[p], temporary[p]) # {}
    /\ todo' = [todo EXCEPT ![p] = @ \cap Installable(p)]
    /\ stage' = [stage EXCEPT ![p] = "install"]
    /\ UNCHANGED <<file, copy, command, sources, temporary, posted, exit, runs, wanted,
                   chosen, recorded, alone, raced, seen, allowed>>

RemovalList(p) ==
    /\ stage[p] = "execute" /\ command[p].name = "remove"
    /\ todo' = [todo EXCEPT ![p] = @ \cap Removable(p)]
    /\ stage' = [stage EXCEPT ![p] = "remove"]
    /\ UNCHANGED <<file, copy, command, sources, temporary, posted, exit, runs, wanted,
                   chosen, recorded, alone, raced, seen, allowed>>

(* No repositories, no directory, the user's refusal, an installation that *)
(* fails.                                                                  *)
CommandFails(p) ==
    /\ \/ stage[p] = "execute" /\ command[p].name # "config"
       \/ stage[p] \in {"install", "remove"} /\ todo[p] # {}
    /\ End(p, 1)

SetPackageInstalled(p, package) ==
    /\ stage[p] = "install" /\ package \in todo[p]
    /\ Sync(p, WithRecord(file, p, package))
    /\ todo' = [todo EXCEPT ![p] = @ \ {package}]
    /\ posted' = posted \cup {p}
    /\ recorded' = recorded \cup {package}
    /\ UNCHANGED <<stage, command, sources, temporary, exit, runs, wanted, chosen, alone,
                   raced>>

SetPackageUninstalled(p, package) ==
    /\ stage[p] = "remove" /\ package \in todo[p]
    /\ Sync(p, WithoutRecord(file, package))
    /\ todo' = [todo EXCEPT ![p] = @ \ {package}]
    /\ posted' = posted \cup {p}
    /\ recorded' = recorded \ {package}
    /\ UNCHANGED <<stage, command, sources, temporary, exit, runs, wanted, chosen, alone,
                   raced>>

CommandDone(p) == stage[p] \in {"install", "remove"} /\ todo[p] = {} /\ End(p, 0)

Killed(p) == stage[p] # "off" /\ End(p, 1)

Next ==
    \E p \in Process :
        \/ \E c \in Command : Construct(p, c)
        \/ SetupDefaults(p)
        \/ BuildsystemRefused(p) \/ PreMetadataLoad(p)
        \/ LoadMetadata(p) \/ LoadFails(p)
        \/ \E op \in {"read", "set", "add", "delete", "other"} : Uninitialized(p, op)
        \/ ConfigFails(p) \/ ConfigRead(p) \/ ConfigDies(p) \/ ConfigDone(p)
        \/ \E v \in todo[p] :
               \/ ConfigSet(p, v)
               \/ AddRepositoryUrl(p, v)
               \/ RemoveRepositoryUrl(p, v)
               \/ SetPackageInstalled(p, v)
               \/ SetPackageUninstalled(p, v)
        \/ ConstructPackageList(p) \/ RemovalList(p) \/ CommandFails(p)
        \/ CommandDone(p)
        \/ UpdateRequest(p) \/ Killed(p)

Spec == Init /\ [][Next]_vars

-----------------------------------------------------------------------------
(* Processes that write different keys do not undo each other's writes,     *)
(* whatever their copies hold: the records are those that were made and not *)
(* withdrawn (setPackageInstalled writes a key of its own), and a value is  *)
(* the one last set, unless a process that found no file was at work.       *)
KeysAreIndependent ==
    /\ file.installed = recorded
    /\ raced \/ \A k \in Scalar : chosen[k] # Unset => file.scalars[k] = chosen[k]

(* Commands one after the other leave the repositories that were added and  *)
(* not deleted, the ones added more than once included (addRepositoryUrl,   *)
(* removeRepositoryUrl).  Two at a time write the list from their copies.   *)
RepositoriesKept == alone => Listed(file) = wanted

(* A build system's command comes to its installation only if installing    *)
(* was allowed at some time since it started (preMetadataLoadImplementation *)
(* reads the copy), and not by a default.                                   *)
BuildsystemAllowed ==
    \A p \in Process :
        command[p].name = "buildsystem" /\ stage[p] \in {"load", "execute", "install"} =>
            p \in allowed

(* An installation that exits with 0 leaves every package it was asked for  *)
(* and could find recorded, or another process withdrew the record while it *)
(* ran (constructPackageList reads the copy, m_pkgs is what it lacks).      *)
InstallSucceeds ==
    [][\A p \in Process :
           stage[p] = "install" /\ stage'[p] = "off" /\ exit' = 0 =>
               \A x \in command[p].values \cap Loaded(p) : x \in seen[p]]_vars
=============================================================================

------------------------- MODULE PackageStoreProofs -------------------------
(***************************************************************************)
(* Proofs about the PackageStore, for every set of packages, whatever      *)
(* directories they install into and whatever they need.  The inductive    *)
(* invariant IInv adds to the safety properties what a command that is on  *)
(* its way has done so far: what is left of its script is what is missing  *)
(* from the tree, and what is left of its list is what is missing from the *)
(* records.                                                                *)
(***************************************************************************)
EXTENDS PackageStore, TLAPS

InScript == stage \in {"copy", "wipe", "merge", "clear"}

Stages ==
    /\ command = "none" =>
          stage = "ended" /\ package = None /\ queue = {} /\ dirs = <<>> /\ ~errors /\ ~isDone
    /\ command # "none" => package \in Package /\ package \notin queue
    /\ command = "install" => stage # "ended" /\ ~isDone
    /\ command = "remove" => stage \in {"begin", "copy", "ended"}
    /\ stage \in {"wipe", "merge", "clear"} => dirs # <<>>
    /\ stage \in {"begin", "save", "record"} => ~errors /\ dirs = <<>>
    /\ InScript => ToSet(dirs) \subseteq ToSet(DirsOf[package])

ScriptSaved == stage = "record" => package \in scripts \cup lossy

(* What the script has not come to is all that is missing of the package. *)
Installing ==
    command = "install" =>
        /\ (queue \cup {package}) \cap recorded = {}
        /\ package \notin lossy /\ ~errors =>
              /\ stage # "begin" =>
                    \A d \in OwnDirs(package) : d \in ToSet(dirs) \/ <<d, package>> \in tree
              /\ stage \in {"wipe", "merge"} => <<EntryOf[Head(dirs)], package>> \in temp
              /\ stage = "clear" => <<Head(dirs), package>> \in tree

NoFiles(p) == \A d \in ToSet(DirsOf[p]) : <<d, p>> \in Named => <<d, p>> \notin tree

(* What was asked for is removed, is the package the Remover is at, or is  *)
(* in the queue; nothing else needs it.                                    *)
Removing ==
    command = "remove" =>
        /\ \A p \in asked, q \in recorded : p \in Needs[q] => q \in asked
        /\ \A p \in asked \ (queue \cup {package}) : p \notin recorded /\ NoFiles(p)
        /\ stage = "copy" /\ ~errors =>
              \A d \in ToSet(DirsOf[package]) :
                  <<d, package>> \in Named => d \in ToSet(dirs) \/ <<d, package>> \notin tree
        /\ isDone => /\ stage = "ended" /\ ~errors /\ queue = {}
                     /\ package \notin recorded /\ NoFiles(package)
        /\ stage = "ended" => isDone \/ interrupted
        /\ stage # "ended" => package \in recorded
        /\ stage = "copy" => package \in begun
        /\ queue \subseteq recorded
        /\ asked \subseteq Package /\ queue \cup {package} \subseteq asked

(* What installed packages need is installed, is about to be, or is being *)
(* removed together with them.                                            *)
Closing ==
    ~interrupted =>
        \A p \in recorded \cup (IF command = "install" THEN queue \cup {package} ELSE {}) :
            Needs[p] \subseteq recorded
                \cup (IF command = "install" THEN queue \cup {package} ELSE {})
                \cup (IF command = "remove" THEN asked ELSE {})

TempIsOwn ==
    ~interrupted /\ ~errors =>
        temp \subseteq IF stage \in {"wipe", "merge", "clear"}
                       THEN {<<EntryOf[Head(dirs)], package>>} ELSE {}

IInv ==
    /\ TypeOK
    /\ Stages
    /\ ScriptSaved
    /\ RecordedIsRemovable
    /\ Installing
    /\ RecordedIsComplete
    /\ Removing
    /\ Closing
    /\ TempIsOwn
    /\ NoForeignFiles

-----------------------------------------------------------------------------
(* What is left of a script after its first directory. *)
LEMMA HeadTail ==
    ASSUME NEW S, NEW s \in Seq(S), s # <<>>
    PROVE  /\ Head(s) \in S
           /\ Tail(s) \in Seq(S)
           /\ ToSet(s) = {Head(s)} \cup ToSet(Tail(s))
<1>1. /\ Len(s) \in Nat /\ Len(s) > 0
      /\ Head(s) = s[1] /\ Tail(s) \in Seq(S) /\ Len(Tail(s)) = Len(s) - 1
      /\ DOMAIN Tail(s) = 1..(Len(s) - 1)
      /\ \A i \in 1..(Len(s) - 1) : Tail(s)[i] = s[i + 1]
  OBVIOUS
<1>2. ToSet(Tail(s)) \subseteq ToSet(s) /\ Head(s) \in ToSet(s) /\ Head(s) \in S
  BY <1>1 DEF ToSet
<1>3. ASSUME NEW x \in ToSet(s), x # Head(s) PROVE x \in ToSet(Tail(s))
  <2>1. PICK i \in 1..Len(s) : x = s[i]
    BY <1>1 DEF ToSet
  <2>2. i - 1 \in 1..(Len(s) - 1) /\ Tail(s)[i - 1] = x
    BY <1>1, <1>3, <2>1
  <2> QED
    BY <1>1, <2>2 DEF ToSet
<1> QED
  BY <1>1, <1>2, <1>3

LEMMA EmptyToSet == ToSet(<<>>) = {}
BY DEF ToSet

USE DEF vars, storeVars, commandVars, historyVars

(* A directory of the package that is being installed is no other package's *)
(* own: removing it leaves every recorded package's own files.              *)
LEMMA WipeKeepsComplete ==
    ASSUME IInv, command = "install", InScript, dirs # <<>>,
           tree' \in {tree, {t \in tree : t[1] # Head(dirs)}},
           UNCHANGED <<recorded, begun, lossy>>
    PROVE  RecordedIsComplete'
<1> SUFFICES ASSUME NEW q \in recorded \ (begun \cup lossy), NEW d \in OwnDirs(q)
             PROVE  <<d, q>> \in tree'
  BY DEF RecordedIsComplete, OwnDirs
<1>1. <<d, q>> \in tree
  BY DEF IInv, RecordedIsComplete
<1>2. package \in Package \ {q}
  BY DEF IInv, Stages, Installing
<1>3. Head(dirs) \in ToSet(DirsOf[package])
  BY HeadTail DEF IInv, TypeOK, Stages
<1>4. d # Head(dirs)
  BY <1>2, <1>3 DEF OwnDirs
<1> QED
  BY <1>1, <1>4

LEMMA IInvStartInstall ==
    ASSUME IInv, NEW p \in Package, StartInstall(p) PROVE IInv'
<1> USE DEF StartInstall, PostFirst, Post, InstallList
<1>1. TypeOK'
  BY PackageStoreAssumption DEF IInv, TypeOK
<1>2. Stages'
  BY PackageStoreAssumption DEF IInv, Stages, InScript
<1>3. Closing'
  BY PackageStoreAssumption DEF IInv, Closing
<1>4. TempIsOwn'
  BY DEF IInv, Stages, TempIsOwn
<1>5. ScriptSaved' /\ RecordedIsRemovable' /\ Installing' /\ RecordedIsComplete' /\
      Removing' /\ NoForeignFiles'
  BY DEF IInv, ScriptSaved, RecordedIsRemovable, Installing, RecordedIsComplete,
         Removing, NoForeignFiles
<1> QED
  BY <1>1, <1>2, <1>3, <1>4, <1>5 DEF IInv

LEMMA IInvBeginInstall == IInv /\ BeginInstall => IInv'
<1> SUFFICES ASSUME IInv, BeginInstall PROVE IInv'
  OBVIOUS
<1> USE DEF BeginInstall, RunScript
<1>1. TypeOK'
  BY PackageStoreAssumption DEF IInv, TypeOK, Stages
<1>2. Installing'
  BY DEF IInv, Installing, OwnDirs
<1>3. TempIsOwn'
  BY DEF IInv, Stages, TempIsOwn
<1>4. NoForeignFiles'
  BY DEF IInv, Stages, NoForeignFiles
<1>5. Stages' /\ ScriptSaved' /\ RecordedIsRemovable' /\ RecordedIsComplete' /\
      Removing' /\ Closing'
  BY DEF IInv, Stages, ScriptSaved, RecordedIsRemovable, RecordedIsComplete, Removing,
         Closing
<1> QED
  BY <1>1, <1>2, <1>3, <1>4, <1>5 DEF IInv

LEMMA IInvCopyEntry == IInv /\ CopyEntry => IInv'
<1> SUFFICES ASSUME IInv, CopyEntry PROVE IInv'
  OBVIOUS
<1> USE DEF CopyEntry, At
<1>0. dirs # <<>> =>
          /\ Head(dirs) \in Dir /\ Tail(dirs) \in Seq(Dir)
          /\ ToSet(dirs) = {Head(dirs)} \cup ToSet(Tail(dirs))
  BY HeadTail DEF IInv, TypeOK
<1>1. TypeOK'
  BY <1>0, PackageStoreAssumption DEF IInv, TypeOK, Stages
<1>2. Stages'
  BY DEF IInv, Stages, InScript
<1>3. ScriptSaved' /\ RecordedIsRemovable' /\ Installing' /\ RecordedIsComplete' /\
      Removing' /\ Closing' /\ TempIsOwn' /\ NoForeignFiles'
  BY DEF IInv, ScriptSaved, RecordedIsRemovable, Installing, RecordedIsComplete,
         Removing, Closing, TempIsOwn, NoForeignFiles
<1> QED
  BY <1>1, <1>2, <1>3 DEF IInv

LEMMA IInvWipeDestination == IInv /\ WipeDestination => IInv'
<1> SUFFICES ASSUME IInv, WipeDestination PROVE IInv'
  OBVIOUS
<1> USE DEF WipeDestination, At
<1>0. dirs # <<>> =>
          /\ Head(dirs) \in Dir /\ Tail(dirs) \in Seq(Dir)
          /\ ToSet(dirs) = {Head(dirs)} \cup ToSet(Tail(dirs))
  BY HeadTail DEF IInv, TypeOK
<1>1. Stages'
  BY DEF IInv, Stages, InScript
<1>2. Installing'
  BY <1>0 DEF IInv, Stages, Installing
<1>3. RecordedIsComplete'
  BY WipeKeepsComplete DEF InScript, IInv, Stages, At
<1>4. TypeOK' /\ ScriptSaved' /\ RecordedIsRemovable' /\ Removing' /\ Closing' /\
      TempIsOwn' /\ NoForeignFiles'
  BY DEF IInv, TypeOK, ScriptSaved, RecordedIsRemovable, Removing, Closing, TempIsOwn,
         NoForeignFiles
<1> QED
  BY <1>1, <1>2, <1>3, <1>4 DEF IInv

LEMMA IInvMergeEntry == IInv /\ MergeEntry => IInv'
<1> SUFFICES ASSUME IInv, MergeEntry PROVE IInv'
  OBVIOUS
<1> USE DEF MergeEntry, At, Merged
<1>0. dirs # <<>> =>
          /\ Head(dirs) \in Dir /\ Tail(dirs) \in Seq(Dir)
          /\ ToSet(dirs) = {Head(dirs)} \cup ToSet(Tail(dirs))
  BY HeadTail DEF IInv, TypeOK
<1>1. TypeOK'
  BY DEF IInv, TypeOK, Stages
<1>2. Stages'
  BY DEF IInv, Stages, InScript
<1>3. Installing'
  <2> DEFINE h == Head(dirs)
  <2>1. tree \subseteq tree'
    OBVIOUS
  <2>2. ASSUME <<EntryOf[h], package>> \in temp PROVE <<h, package>> \in tree'
    <3>1. <<EntryOf[h], package>>[1] = EntryOf[h] /\ <<EntryOf[h], package>>[2] = package
      OBVIOUS
    <3> QED
      BY <2>2, <3>1
  <2> QED
    BY <2>1, <2>2 DEF IInv, Installing, OwnDirs
<1>4. NoForeignFiles'
  <2> SUFFICES ASSUME ~interrupted, ~errors, NEW t \in tree'
               PROVE  t[1] \in ToSet(DirsOf[t[2]])
    BY DEF NoForeignFiles
  <2>1. CASE t \in tree
    BY <2>1 DEF IInv, NoForeignFiles
  <2>2. CASE t \notin tree
    <3>1. PICK u \in temp : t = <<Head(dirs), u[2]>>
      BY <2>2
    <3>2. u[2] = package
      BY DEF IInv, TempIsOwn
    <3> QED
      BY <1>0, <3>1, <3>2 DEF IInv, Stages, InScript
  <2> QED
    BY <2>1, <2>2
<1>5. ScriptSaved' /\ RecordedIsRemovable' /\ RecordedIsComplete' /\ Removing' /\
      Closing' /\ TempIsOwn'
  BY DEF IInv, ScriptSaved, RecordedIsRemovable, RecordedIsComplete, Removing, Closing,
         TempIsOwn
<1> QED
  BY <1>1, <1>2, <1>3, <1>4, <1>5 DEF IInv

LEMMA IInvEntryInstalled == IInv /\ EntryInstalled => IInv'
<1> SUFFICES ASSUME IInv, EntryInstalled PROVE IInv'
  OBVIOUS
<1> USE DEF EntryInstalled, At, ClearEntry
<1>0. dirs # <<>> =>
          /\ Head(dirs) \in Dir /\ Tail(dirs) \in Seq(Dir)
          /\ ToSet(dirs) = {Head(dirs)} \cup ToSet(Tail(dirs))
  BY HeadTail DEF IInv, TypeOK
<1>1. TypeOK'
  BY DEF IInv, TypeOK, Stages
<1>2. Stages'
  BY <1>0 DEF IInv, Stages, InScript
<1>3. Installing'
  BY <1>0 DEF IInv, Stages, Installing
<1>4. ScriptSaved' /\ RecordedIsRemovable' /\ RecordedIsComplete' /\ Removing' /\
      Closing' /\ TempIsOwn' /\ NoForeignFiles'
  BY DEF IInv, ScriptSaved, RecordedIsRemovable, RecordedIsComplete, Removing, Closing,
         TempIsOwn, NoForeignFiles
<1> QED
  BY <1>1, <1>2, <1>3, <1>4 DEF IInv

LEMMA IInvEntryError == IInv /\ EntryError => IInv'
<1> SUFFICES ASSUME IInv, EntryError PROVE IInv'
  OBVIOUS
<1> USE DEF EntryError, At, EntryFails
<1>0. dirs # <<>> =>
          /\ Head(dirs) \in Dir /\ Tail(dirs) \in Seq(Dir)
          /\ ToSet(dirs) = {Head(dirs)} \cup ToSet(Tail(dirs))
  BY HeadTail DEF IInv, TypeOK
<1>1. TypeOK'
  BY DEF IInv, TypeOK, Stages
<1>2. Stages'
  BY <1>0 DEF IInv, Stages, InScript
<1>3. RecordedIsComplete'
  BY WipeKeepsComplete DEF InScript, IInv, Stages, At
<1>4. ScriptSaved' /\ RecordedIsRemovable' /\ Installing' /\ Removing' /\ Closing' /\
      TempIsOwn' /\ NoForeignFiles'
  BY DEF IInv, ScriptSaved, RecordedIsRemovable, Installing, Removing, Closing,
         TempIsOwn, NoForeignFiles
<1> QED
  BY <1>1, <1>2, <1>3, <1>4 DEF IInv

LEMMA IInvInstallScriptEnds == IInv /\ InstallScriptEnds => IInv'
<1> SUFFICES ASSUME IInv, InstallScriptEnds PROVE IInv'
  OBVIOUS
<1> USE DEF InstallScriptEnds, At, ScriptSucceeded, ScriptDone
<1>1. Stages'
  BY DEF IInv, Stages, InScript
<1>2. TypeOK' /\ ScriptSaved' /\ RecordedIsRemovable' /\ Installing' /\
      RecordedIsComplete' /\ Removing' /\ Closing' /\ TempIsOwn' /\ NoForeignFiles'
  BY DEF IInv, TypeOK, ScriptSaved, RecordedIsRemovable, Installing,
         RecordedIsComplete, Removing, Closing, TempIsOwn, NoForeignFiles
<1> QED
  BY <1>1, <1>2 DEF IInv

LEMMA IInvInstallFails == IInv /\ InstallFails => IInv'
<1> SUFFICES ASSUME IInv, InstallFails PROVE IInv'
  OBVIOUS
<1> USE DEF InstallFails, At, ScriptSucceeded, CommandGone
<1>1. TypeOK'
  BY DEF IInv, TypeOK, Stages
<1>2. Stages'
  BY DEF IInv, Stages, InScript
<1>3. ScriptSaved' /\ RecordedIsRemovable' /\ Installing' /\ RecordedIsComplete' /\
      Removing' /\ Closing' /\ TempIsOwn' /\ NoForeignFiles'
  BY DEF IInv, ScriptSaved, RecordedIsRemovable, Installing, RecordedIsComplete,
         Removing, Closing, TempIsOwn, NoForeignFiles
<1> QED
  BY <1>1, <1>2, <1>3 DEF IInv

LEMMA IInvSaveRemovalScript == IInv /\ SaveRemovalScript => IInv'
<1> SUFFICES ASSUME IInv, SaveRemovalScript PROVE IInv'
  OBVIOUS
<1> USE DEF SaveRemovalScript, At
<1>1. TypeOK'
  BY DEF IInv, TypeOK, Stages
<1>2. Stages'
  BY DEF IInv, Stages, InScript
<1>3. ScriptSaved' /\ RecordedIsRemovable' /\ Installing' /\ RecordedIsComplete' /\
      Removing' /\ Closing' /\ TempIsOwn' /\ NoForeignFiles'
  BY DEF IInv, ScriptSaved, RecordedIsRemovable, Installing, RecordedIsComplete,
         Removing, Closing, TempIsOwn, NoForeignFiles
<1> QED
  BY <1>1, <1>2, <1>3 DEF IInv

LEMMA IInvRecordInstalled == IInv /\ RecordInstalled => IInv'
<1> SUFFICES ASSUME IInv, RecordInstalled PROVE IInv'
  OBVIOUS
<1> USE DEF RecordInstalled, At, CommandGone, PostFirst, Post
<1>1. TypeOK'
  <2>1. CASE queue = {}
    BY <2>1 DEF IInv, TypeOK, Stages
  <2>2. CASE queue # {}
    BY <2>2 DEF IInv, TypeOK, Stages
  <2> QED
    BY <2>1, <2>2
<1>2. Stages'
  BY DEF IInv, TypeOK, Stages, InScript
<1>3. RecordedIsRemovable'
  <2>1. CASE queue = {}
    BY <2>1 DEF IInv, ScriptSaved, RecordedIsRemovable
  <2>2. CASE queue # {}
    BY <2>2 DEF IInv, ScriptSaved, RecordedIsRemovable
  <2> QED
    BY <2>1, <2>2
<1>4. Installing'
  BY DEF IInv, Stages, Installing
<1>5. RecordedIsComplete'
  <2>1. CASE queue = {}
    BY <2>1, EmptyToSet DEF IInv, Stages, Installing, RecordedIsComplete, OwnDirs
  <2>2. CASE queue # {}
    BY <2>2, EmptyToSet DEF IInv, Stages, Installing, RecordedIsComplete, OwnDirs
  <2> QED
    BY <2>1, <2>2
<1>6. TempIsOwn'
  BY DEF IInv, Stages, TempIsOwn
<1>7. NoForeignFiles'
  BY DEF IInv, Stages, NoForeignFiles
<1>8. ScriptSaved' /\ Removing' /\ Closing'
  BY DEF IInv, ScriptSaved, Removing, Closing
<1> QED
  BY <1>1, <1>2, <1>3, <1>4, <1>5, <1>6, <1>7, <1>8 DEF IInv

LEMMA IInvStartRemove ==
    ASSUME IInv, NEW p \in Package, StartRemove(p) PROVE IInv'
<1> USE DEF StartRemove, Post, Dependents
<1>1. Stages'
  BY PackageStoreAssumption DEF IInv, Stages, InScript
<1>2. Removing'
  BY PackageStoreAssumption DEF IInv, TypeOK, Stages, Removing
<1>3. TempIsOwn'
  BY DEF IInv, Stages, TempIsOwn
<1>4. TypeOK' /\ ScriptSaved' /\ RecordedIsRemovable' /\ Installing' /\
      RecordedIsComplete' /\ Closing' /\ NoForeignFiles'
  BY DEF IInv, TypeOK, ScriptSaved, RecordedIsRemovable, Installing,
         RecordedIsComplete, Closing, NoForeignFiles
<1> QED
  BY <1>1, <1>2, <1>3, <1>4 DEF IInv

LEMMA IInvBeginRemove == IInv /\ BeginRemove => IInv'
<1> SUFFICES ASSUME IInv, BeginRemove PROVE IInv'
  OBVIOUS
<1> USE DEF BeginRemove, RunScript
<1>1. TypeOK'
  BY PackageStoreAssumption DEF IInv, TypeOK, Stages
<1>2. Removing'
  BY DEF IInv, Removing, NoFiles
<1>3. TempIsOwn'
  BY DEF IInv, Stages, TempIsOwn
<1>4. NoForeignFiles'
  BY DEF IInv, Stages, NoForeignFiles
<1>5. Stages' /\ ScriptSaved' /\ RecordedIsRemovable' /\ Installing' /\
      RecordedIsComplete' /\ Closing'
  BY DEF IInv, Stages, ScriptSaved, RecordedIsRemovable, Installing,
         RecordedIsComplete, Closing
<1> QED
  BY <1>1, <1>2, <1>3, <1>4, <1>5 DEF IInv

LEMMA IInvRemoveFiles == IInv /\ RemoveFiles => IInv'
<1> SUFFICES ASSUME IInv, RemoveFiles PROVE IInv'
  OBVIOUS
<1> USE DEF RemoveFiles, At
<1>0. dirs # <<>> =>
          /\ Head(dirs) \in Dir /\ Tail(dirs) \in Seq(Dir)
          /\ ToSet(dirs) = {Head(dirs)} \cup ToSet(Tail(dirs))
  BY HeadTail DEF IInv, TypeOK
<1>1. Stages'
  BY <1>0 DEF IInv, Stages, InScript
<1>2. RecordedIsComplete'
  <2>1. package \in begun
    BY DEF IInv, Removing
  <2> QED
    BY <2>1 DEF IInv, RecordedIsComplete, OwnDirs
<1>3. Removing'
  BY <1>0 DEF IInv, Removing, NoFiles
<1>4. TypeOK' /\ ScriptSaved' /\ RecordedIsRemovable' /\ Installing' /\ Closing' /\
      TempIsOwn' /\ NoForeignFiles'
  BY DEF IInv, TypeOK, ScriptSaved, RecordedIsRemovable, Installing, Closing,
         TempIsOwn, NoForeignFiles
<1> QED
  BY <1>1, <1>2, <1>3, <1>4 DEF IInv

LEMMA IInvRemoveFilesError == IInv /\ RemoveFilesError => IInv'
<1> SUFFICES ASSUME IInv, RemoveFilesError PROVE IInv'
  OBVIOUS
<1> USE DEF RemoveFilesError, At, EntryFails
<1>0. dirs # <<>> =>
          /\ Head(dirs) \in Dir /\ Tail(dirs) \in Seq(Dir)
          /\ ToSet(dirs) = {Head(dirs)} \cup ToSet(Tail(dirs))
  BY HeadTail DEF IInv, TypeOK
<1>1. TypeOK'
  BY <1>0 DEF IInv, TypeOK
<1>2. Stages'
  BY <1>0 DEF IInv, Stages, InScript
<1>3. Removing'
  BY DEF IInv, Removing, NoFiles
<1>4. ScriptSaved' /\ RecordedIsRemovable' /\ Installing' /\ RecordedIsComplete' /\
      Closing' /\ TempIsOwn' /\ NoForeignFiles'
  BY DEF IInv, ScriptSaved, RecordedIsRemovable, Installing, RecordedIsComplete,
         Closing, TempIsOwn, NoForeignFiles
<1> QED
  BY <1>1, <1>2, <1>3, <1>4 DEF IInv

LEMMA IInvRemoveFails == IInv /\ RemoveFails => IInv'
<1> SUFFICES ASSUME IInv, RemoveFails PROVE IInv'
  OBVIOUS
<1> USE DEF RemoveFails, At, ScriptSucceeded
<1>1. Stages'
  BY DEF IInv, Stages, InScript
<1>2. Removing'
  BY DEF IInv, Removing, NoFiles
<1>3. TypeOK' /\ ScriptSaved' /\ RecordedIsRemovable' /\ Installing' /\
      RecordedIsComplete' /\ Closing' /\ TempIsOwn' /\ NoForeignFiles'
  BY DEF IInv, TypeOK, ScriptSaved, RecordedIsRemovable, Installing,
         RecordedIsComplete, Closing, TempIsOwn, NoForeignFiles
<1> QED
  BY <1>1, <1>2, <1>3 DEF IInv

LEMMA IInvRecordRemoved == IInv /\ RecordRemoved => IInv'
<1> SUFFICES ASSUME IInv, RecordRemoved PROVE IInv'
  OBVIOUS
<1> USE DEF RecordRemoved, At, ScriptSucceeded, FinishRemover, Post
<1>1. TypeOK'
  <2>1. CASE queue = {}
    BY <2>1 DEF IInv, TypeOK, Stages
  <2>2. CASE queue # {}
    BY <2>2 DEF IInv, TypeOK, Stages
  <2> QED
    BY <2>1, <2>2
<1>2. Stages'
  <2>1. CASE queue = {}
    BY <2>1 DEF IInv, TypeOK, Stages, InScript
  <2>2. CASE queue # {}
    BY <2>2 DEF IInv, TypeOK, Stages, InScript
  <2> QED
    BY <2>1, <2>2
<1>3. Removing'
  <2>1. NoFiles(package)
    BY EmptyToSet DEF IInv, Removing, NoFiles
  <2>2. CASE queue = {}
    BY <2>2, <2>1 DEF IInv, TypeOK, Stages, Removing, NoFiles
  <2>3. CASE queue # {}
    BY <2>3, <2>1 DEF IInv, TypeOK, Stages, Removing, NoFiles
  <2> QED
    BY <2>2, <2>3
<1>4. Closing'
  <2>1. CASE queue = {}
    BY <2>1 DEF IInv, Stages, Removing, Closing
  <2>2. CASE queue # {}
    BY <2>2 DEF IInv, Stages, Removing, Closing
  <2> QED
    BY <2>1, <2>2
<1>5. ScriptSaved' /\ RecordedIsRemovable' /\ Installing' /\ RecordedIsComplete' /\
      TempIsOwn' /\ NoForeignFiles'
  BY DEF IInv, ScriptSaved, RecordedIsRemovable, Installing, RecordedIsComplete,
         TempIsOwn, NoForeignFiles
<1> QED
  BY <1>1, <1>2, <1>3, <1>4, <1>5 DEF IInv

LEMMA IInvRemoveCommandEnds == IInv /\ RemoveCommandEnds => IInv'
<1> SUFFICES ASSUME IInv, RemoveCommandEnds PROVE IInv'
  OBVIOUS
<1> USE DEF RemoveCommandEnds, CommandGone
<1>1. TypeOK'
  <2>1. dirs' = <<>> /\ errors' \in BOOLEAN /\ isDone' \in BOOLEAN /\ isSuccess' \in BOOLEAN
    BY DEF IInv, TypeOK
  <2> QED
    BY <2>1 DEF IInv, TypeOK
<1>2. Stages'
  BY DEF IInv, Stages, InScript
<1>3. Closing'
  BY DEF IInv, Removing, TempIsOwn, Closing
<1>4. TempIsOwn'
  BY DEF IInv, Removing, TempIsOwn
<1>5. NoForeignFiles'
  BY DEF IInv, Removing, TempIsOwn, NoForeignFiles
<1>6. ScriptSaved' /\ RecordedIsRemovable' /\ Installing' /\ RecordedIsComplete' /\
      Removing'
  BY DEF IInv, ScriptSaved, RecordedIsRemovable, Installing, RecordedIsComplete,
         Removing
<1> QED
  BY <1>1, <1>2, <1>3, <1>4, <1>5, <1>6 DEF IInv

LEMMA IInvCrash == IInv /\ Crash => IInv'
<1> SUFFICES ASSUME IInv, Crash PROVE IInv'
  OBVIOUS
<1> USE DEF Crash, CommandGone
<1>1. TypeOK'
  <2>1. dirs' = <<>> /\ errors' \in BOOLEAN /\ isDone' \in BOOLEAN /\ isSuccess' \in BOOLEAN
    BY DEF IInv, TypeOK
  <2> QED
    BY <2>1 DEF IInv, TypeOK
<1>2. Stages'
  BY DEF IInv, Stages, InScript
<1>3. ScriptSaved' /\ RecordedIsRemovable' /\ Installing' /\ RecordedIsComplete' /\
      Removing' /\ Closing' /\ TempIsOwn' /\ NoForeignFiles'
  BY DEF IInv, ScriptSaved, RecordedIsRemovable, Installing, RecordedIsComplete,
         Removing, Closing, TempIsOwn, NoForeignFiles
<1> QED
  BY <1>1, <1>2, <1>3 DEF IInv

-----------------------------------------------------------------------------
LEMMA IInvInit == Init => IInv
<1> SUFFICES ASSUME Init PROVE IInv
  OBVIOUS
<1> USE DEF Init
<1>1. TypeOK
  <2>1. dirs \in Seq(Dir)
    OBVIOUS
  <2>2. errors \in BOOLEAN /\ isDone \in BOOLEAN /\ isSuccess \in BOOLEAN
        /\ interrupted \in BOOLEAN
    BY Zenon
  <2> QED
    BY <2>1, <2>2 DEF TypeOK
<1>2. Stages /\ ScriptSaved /\ RecordedIsRemovable /\ Installing /\ Removing
  BY DEF Stages, InScript, ScriptSaved, RecordedIsRemovable, Installing, Removing
<1>3. RecordedIsComplete /\ Closing /\ TempIsOwn /\ NoForeignFiles
  BY DEF RecordedIsComplete, Closing, TempIsOwn, NoForeignFiles
<1> QED
  BY <1>1, <1>2, <1>3 DEF IInv

LEMMA IInvStutter == IInv /\ UNCHANGED vars => IInv'
<1> SUFFICES ASSUME IInv, UNCHANGED vars PROVE IInv'
  OBVIOUS
<1>1. TypeOK' /\ Stages' /\ ScriptSaved' /\ RecordedIsRemovable' /\ Installing'
  BY DEF IInv, TypeOK, Stages, InScript, ScriptSaved, RecordedIsRemovable, Installing,
         OwnDirs
<1>2. RecordedIsComplete' /\ Removing'
  BY DEF IInv, RecordedIsComplete, Removing, NoFiles
<1>3. Closing' /\ TempIsOwn' /\ NoForeignFiles'
  BY DEF IInv, Closing, TempIsOwn, NoForeignFiles
<1> QED
  BY <1>1, <1>2, <1>3 DEF IInv

LEMMA IInvNext == IInv /\ [Next]_vars => IInv'
<1> SUFFICES ASSUME IInv, [Next]_vars PROVE IInv'
  OBVIOUS
<1>1. CASE \E p \in Package : StartInstall(p) \/ StartRemove(p)
  BY <1>1, IInvStartInstall, IInvStartRemove
<1>2. CASE CommandStep
  BY <1>2, IInvBeginInstall, IInvCopyEntry, IInvWipeDestination, IInvMergeEntry,
     IInvEntryInstalled, IInvEntryError, IInvInstallScriptEnds, IInvInstallFails,
     IInvSaveRemovalScript, IInvRecordInstalled, IInvBeginRemove, IInvRemoveFiles,
     IInvRemoveFilesError, IInvRemoveFails, IInvRecordRemoved, IInvRemoveCommandEnds
  DEF CommandStep
<1>3. CASE Crash
  BY <1>3, IInvCrash
<1>4. CASE UNCHANGED vars
  BY <1>4, IInvStutter
<1> QED
  BY <1>1, <1>2, <1>3, <1>4 DEF Next

-----------------------------------------------------------------------------
(* The inductive invariant holds: commands that run one after the other,   *)
(* each of which may fail or die at any step, keep tree, scripts and       *)
(* records in step with what is left of the command.                       *)
THEOREM StoreInvariance == Spec => []IInv
<1>1. Init => IInv
  BY IInvInit
<1>2. IInv /\ [Next]_vars => IInv'
  BY IInvNext
<1> QED
  BY <1>1, <1>2, PTL DEF Spec

(* Every variable keeps its type. *)
THEOREM StoreTypeCorrect == Spec => []TypeOK
<1>1. IInv => TypeOK
  BY DEF IInv
<1> QED
  BY <1>1, StoreInvariance, PTL

(* A recorded package's own files are in the tree, however many commands   *)
(* were cut short by errors of JSInstaller::install or by the process's    *)
(* death: setPackageInstalled comes last, and nothing else removes them.   *)
THEOREM RecordsComplete == Spec => []RecordedIsComplete
<1>1. IInv => RecordedIsComplete
  BY DEF IInv
<1> QED
  BY <1>1, StoreInvariance, PTL

(* A recorded package has its removal script, so that removing it again    *)
(* can finish what a removal left undone.                                  *)
THEOREM RecordsRemovable == Spec => []RecordedIsRemovable
<1>1. IInv => RecordedIsRemovable
  BY DEF IInv
<1> QED
  BY <1>1, StoreInvariance, PTL

(* Unless a command was cut short, what installed packages need is         *)
(* installed: though neither installing in the order of names nor removing *)
(* before the dependents keeps that up on the way (Closing says how).      *)
THEOREM RecordsClosed == Spec => []ClosedUnlessInterrupted
<1>1. IInv => ClosedUnlessInterrupted
  BY DEF IInv, Closing, ClosedUnlessInterrupted
<1> QED
  BY <1>1, StoreInvariance, PTL

(* Files of one package get into another's directories only by way of the  *)
(* temporary directory, when a command left them there.                    *)
THEOREM FilesAreOwn == Spec => []NoForeignFiles
<1>1. IInv => NoForeignFiles
  BY DEF IInv
<1> QED
  BY <1>1, StoreInvariance, PTL

(* A Remover that is done has removed the records of all it was asked for, *)
(* and their files as far as their removal scripts name them by their own  *)
(* names, and nothing that is installed needs them.                        *)
THEOREM RemovalComplete == Spec => []RemovalIsComplete
<1>1. IInv => RemovalIsComplete
  <2> SUFFICES ASSUME IInv, isDone, NEW p \in asked
               PROVE  /\ p \notin recorded
                      /\ NoFiles(p)
                      /\ \A q \in recorded : p \notin Needs[q]
    BY DEF RemovalIsComplete, NoFiles
  <2>1. command = "remove"
    BY DEF IInv, TypeOK, Stages
  <2>2. \A x \in asked : x \notin recorded /\ NoFiles(x)
    BY <2>1 DEF IInv, Removing
  <2> QED
    BY <2>1, <2>2 DEF IInv, Removing
<1> QED
  BY <1>1, StoreInvariance, PTL
=============================================================================

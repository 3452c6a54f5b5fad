---------------------------- MODULE PackageStore ----------------------------
(***************************************************************************)
(* What soqute keeps of installed packages: the installation tree, the     *)
(* removal scripts, the records of InstalledPackages, and the directory    *)
(* that archive entries pass through on their way into the tree.  Install  *)
(* and remove commands run one after the other; each changes the store in  *)
(* many small steps, any of which may be the last one of its process.      *)
(*                                                                         *)
(* An archive holds directories, and its scripts install and remove those  *)
(* as the Packager and the tests write them: install.js installs each      *)
(* directory, remove.js removes the package's own files, each by its name. *)
(* The Packager has remove.js name a pattern as it stands, which is no     *)
(* file's name: what the pattern stands for stays, without an error.       *)
(*                                                                         *)
(* A package's files of one directory are all there or all missing, but    *)
(* for those that only a pattern names: a removal leaves them behind.      *)
(*                                                                         *)
(* Dependencies name an exact version and are of the package's platform,   *)
(* as the Packager writes them: only those does the reverse calculation    *)
(* find.  Other dependencies are in module Commands.                       *)
(***************************************************************************)
EXTENDS Naturals, Sequences, SequencesExt

CONSTANTS
    Package,
    Rank,           \* the packages' places in the order of their names
    Needs,          \* recursiveDependencies of a package
    Dir,            \* directories of the tree
    DirsOf,         \* the directories install.js installs, in order
    Entry,          \* names of directories in archives
    EntryOf,        \* the archive's name of a directory of the tree
    Named,          \* <<d, p>>: remove.js names all that p installs in d, no
                    \* file only by a pattern
    None,
    DiskFails       \* whether reading, writing and removing may fail

ASSUME PackageStoreAssumption ==
    /\ Rank \in [Package -> Nat]
    /\ Needs \in [Package -> SUBSET Package]
    /\ \A p \in Package : p \notin Needs[p]
    /\ \A p \in Package, q \in Package : q \in Needs[p] => Needs[q] \subseteq Needs[p]
    /\ DirsOf \in [Package -> Seq(Dir)]
    /\ EntryOf \in [Dir -> Entry]
    /\ Named \subseteq Dir \X Package
    /\ None \notin Package
    /\ DiskFails \in BOOLEAN

VARIABLES
    tree,       \* <<d, p>>: files of p's archive are in directory d
    temp,       \* <<e, p>>: files of p's archive are in <temp>/soqute/tmp/e
    scripts,    \* the packages with a removal script
    recorded,   \* the packages isPackageInstalled
    command,    \* none, install, remove
    queue,      \* the packages the command has not come to
    package,    \* the one it is at: the event is posted, or its script runs
    dirs,       \* the directories its script has yet to deal with
    stage,      \* of the package: begin, copy, wipe, merge, clear, save, record;
                \* ended: no event is left to arrive
    errors,     \* m_errors is not empty
    isDone,     \* of the Remover
    isSuccess,  \* of the Remover
    lossy,      \* history: packages a copy or rename silently failed for
    begun,      \* history: packages whose removal was begun, not recorded
    asked,      \* history: what the remove command is to remove
    interrupted \* history: a command died or failed on the way

storeVars   == <<tree, temp, scripts, recorded>>
commandVars == <<command, queue, package, dirs, stage, errors, isDone, isSuccess>>
historyVars == <<lossy, begun, asked, interrupted>>
vars == <<tree, temp, scripts, recorded, command, queue, package, dirs, stage,
          errors, isDone, isSuccess, lossy, begun, asked, interrupted>>

TypeOK ==
    /\ tree \subseteq Dir \X Package
    /\ temp \subseteq Entry \X Package
    /\ scripts \subseteq Package
    /\ recorded \subseteq Package
    /\ command \in {"none", "install", "remove"}
    /\ queue \subseteq Package
    /\ package \in Package \cup {None}
    /\ dirs \in Seq(Dir)
    /\ stage \in {"begin", "copy", "wipe", "merge", "clear", "save", "record", "ended"}
    /\ errors \in BOOLEAN
    /\ isDone \in BOOLEAN
    /\ isSuccess \in BOOLEAN
    /\ lossy \subseteq Package
    /\ begun \subseteq Package
    /\ asked \subseteq Package
    /\ interrupted \in BOOLEAN

Init ==
    /\ tree = {}
    /\ temp = {}
    /\ scripts = {}
    /\ recorded = {}
    /\ command = "none"
    /\ queue = {}
    /\ package = None
    /\ dirs = <<>>
    /\ stage = "ended"
    /\ errors = FALSE
    /\ isDone = FALSE
    /\ isSuccess = TRUE
    /\ lossy = {}
    /\ begun = {}
    /\ asked = {}
    /\ interrupted = FALSE

-----------------------------------------------------------------------------
(* The process is gone, with what it had yet to do. *)
CommandGone ==
    /\ command' = "none"
    /\ queue' = {}
    /\ package' = None
    /\ dirs' = <<>>
    /\ stage' = "ended"
    /\ errors' = FALSE
    /\ isDone' = FALSE
    /\ isSuccess' = TRUE
    /\ asked' = {}

At(cmd, s) == command = cmd /\ stage = s

(* The event for package p is posted; the rest has to wait. *)
Post(p, rest) ==
    /\ package' = p
    /\ queue' = rest
    /\ stage' = "begin"

(* m_errors is cleared and the script of the package starts. *)
RunScript ==
    /\ stage = "begin"
    /\ dirs' = DirsOf[package]
    /\ stage' = "copy"
    /\ errors' = FALSE

(* constructPackageList: what was asked for and all it needs, without what *)
(* is installed.                                                           *)
RequestedOnly(p) == {p} \ recorded    \* faulty
InstallList(p) == ({p} \cup Needs[p]) \ recorded

(* The list is in the order of the names: cleanPackagePointerList. *)
PostFirst(list) ==
    \E p \in list : (\A q \in list : Rank[p] <= Rank[q]) /\ Post(p, list \ {p})

(* For an argument that gives the version and the platform of an installed *)
(* package nothing is done; any other gets what is missing of the list.    *)
StartInstall(p) ==
    /\ command = "none"
    /\ command' = "install"
    /\ PostFirst(InstallList(p))
    /\ UNCHANGED <<storeVars, dirs, errors, isDone, isSuccess, historyVars>>

(* JSInstaller::install as far as the script. *)
BeginInstall ==
    /\ command = "install"
    /\ RunScript
    /\ UNCHANGED <<storeVars, command, queue, package, isDone, isSuccess, historyVars>>

(* The script goes on after an error, which FileSystem only takes down: an *)
(* entry that failed is left as it is, and the next one is installed.      *)
EntryFails ==
    /\ DiskFails
    /\ errors' = TRUE
    /\ dirs' = Tail(dirs)
    /\ stage' = "copy"

(* installArchiveEntry: the entry is copied out of the archive, next to    *)
(* what an earlier entry of that name left there.  KArchive does not tell  *)
(* of a file it could not write.                                           *)
CopyEntry ==
    /\ At("install", "copy")
    /\ dirs # <<>>
    /\ \/ /\ temp' = temp \cup {<<EntryOf[Head(dirs)], package>>}
          /\ UNCHANGED lossy
       \/ /\ DiskFails
          /\ lossy' = lossy \cup {package}
          /\ UNCHANGED temp
    /\ stage' = "wipe"
    /\ UNCHANGED <<tree, scripts, recorded, command, queue, package, dirs, errors,
                   isDone, isSuccess, begun, asked, interrupted>>

(* An existing destination is removed, whoever's files it holds. *)
WipeDestination ==
    /\ At("install", "wipe")
    /\ tree' = {t \in tree : t[1] # Head(dirs)}
    /\ stage' = "merge"
    /\ UNCHANGED <<temp, scripts, recorded, command, queue, package, dirs, errors,
                   isDone, isSuccess, historyVars>>

(* mergeDirectoryInto: everything under the entry's name goes to the directory. *)
MergedUnderEntry(e) == {t \in temp : t[1] = e}    \* faulty: into the archive's name
Merged(e) == {<<Head(dirs), t[2]>> : t \in {u \in temp : u[1] = e}}

MergeEntry ==
    /\ At("install", "merge")
    /\ tree' = tree \cup Merged(EntryOf[Head(dirs)])
    /\ stage' = "clear"
    /\ UNCHANGED <<temp, scripts, recorded, command, queue, package, dirs, errors,
                   isDone, isSuccess, historyVars>>

LeaveEntry == UNCHANGED temp    \* faulty: the temporary directory is kept
ClearEntry == temp' = {t \in temp : t[1] # EntryOf[Head(dirs)]}

EntryInstalled ==
    /\ At("install", "clear")
    /\ ClearEntry
    /\ dirs' = Tail(dirs)
    /\ stage' = "copy"
    /\ UNCHANGED <<tree, scripts, recorded, command, queue, package, errors, isDone,
                   isSuccess, historyVars>>

(* Removing the destination, merging or clearing up failed half way. *)
EntryError ==
    /\ \E s \in {"wipe", "merge", "clear"} : At("install", s)
    /\ EntryFails
    /\ \/ stage = "wipe" /\ tree' \in {tree, {t \in tree : t[1] # Head(dirs)}}
       \/ stage # "wipe" /\ UNCHANGED tree
    /\ UNCHANGED <<temp, scripts, recorded, command, queue, package, isDone, isSuccess,
                   historyVars>>

ErrorsIgnored == TRUE    \* faulty: m_errors cleared after the script
ScriptSucceeded == ~errors

NothingToSave == stage' = "record"    \* faulty
ScriptDone == stage' = "save"

InstallScriptEnds ==
    /\ At("install", "copy")
    /\ dirs = <<>>
    /\ ScriptSucceeded
    /\ ScriptDone
    /\ UNCHANGED <<storeVars, command, queue, package, dirs, errors, isDone, isSuccess,
                   historyVars>>

(* Any of install's error exits, before or after the script, ends the job, *)
(* and with it the command.                                                *)
InstallFails ==
    /\ \/ At("install", "copy") /\ dirs = <<>> /\ ~ScriptSucceeded
       \/ At("install", "begin") /\ DiskFails
       \/ At("install", "save") /\ DiskFails
    /\ CommandGone
    /\ interrupted' = TRUE
    /\ UNCHANGED <<storeVars, lossy, begun>>

(* remove.js becomes the removal script, unless there is one already.  *)
(* Neither the copy nor the rename is checked.                         *)
SaveRemovalScript ==
    /\ At("install", "save")
    /\ \/ /\ scripts' = scripts \cup {package}
          /\ UNCHANGED lossy
       \/ /\ DiskFails
          /\ lossy' = lossy \cup {package}
          /\ UNCHANGED scripts
    /\ stage' = "record"
    /\ UNCHANGED <<tree, temp, recorded, command, queue, package, dirs, errors, isDone,
                   isSuccess, begun, asked, interrupted>>

(* setPackageInstalled, and the next package or the end of the command. *)
RecordInstalled ==
    /\ At("install", "record")
    /\ recorded' = recorded \cup {package}
    /\ IF queue = {}
       THEN CommandGone
       ELSE /\ PostFirst(queue)
            /\ UNCHANGED <<command, dirs, errors, isDone, isSuccess, asked>>
    /\ UNCHANGED <<tree, temp, scripts, lossy, begun, interrupted>>

-----------------------------------------------------------------------------
(* DependencyCalculator, Reverse: what is installed and needs the package. *)
NoDependents(p) == {}    \* faulty
Dependents(p) == {q \in recorded : p \in Needs[q]}

(* The Remover is given the package, and then its dependents. *)
StartRemove(p) ==
    /\ command = "none"
    /\ p \in recorded
    /\ command' = "remove"
    /\ Post(p, Dependents(p))
    /\ asked' = {p} \cup Dependents(p)
    /\ UNCHANGED <<storeVars, dirs, errors, isDone, isSuccess, lossy, begun, interrupted>>

(* JSInstaller::remove with a removal script that can be read. *)
BeginRemove ==
    /\ command = "remove"
    /\ package \in scripts
    /\ RunScript
    /\ begun' = begun \cup {package}
    /\ UNCHANGED <<storeVars, command, queue, package, isDone, isSuccess, lossy, asked,
                   interrupted>>

(* FileSystem.remove in the script: names of which there is no file, be they *)
(* of files that are gone already or patterns, which the Packager writes to  *)
(* the script as they are (Packager/main.cpp:206-212), are fine, and no file *)
(* that is there for a pattern is looked for.                                *)
RemoveFiles ==
    /\ At("remove", "copy")
    /\ dirs # <<>>
    /\ tree' = tree \ (Named \cap {<<Head(dirs), package>>})
    /\ dirs' = Tail(dirs)
    /\ UNCHANGED <<temp, scripts, recorded, command, queue, package, stage, errors,
                   isDone, isSuccess, historyVars>>

RemoveFilesError ==
    /\ At("remove", "copy")
    /\ dirs # <<>>
    /\ EntryFails
    /\ isSuccess' = FALSE
    /\ UNCHANGED <<storeVars, command, queue, package, isDone, historyVars>>

(* The removal script is missing or ended with errors: exit() is called on *)
(* the JSInstaller thread, which the Remover never started.                *)
RemoveFails ==
    /\ \/ At("remove", "begin") /\ (package \notin scripts \/ DiskFails)
       \/ At("remove", "copy") /\ dirs = <<>> /\ ~ScriptSucceeded
    /\ stage' = "ended"
    /\ isSuccess' = FALSE
    /\ interrupted' = TRUE
    /\ UNCHANGED <<storeVars, command, queue, package, dirs, errors, isDone, lossy, begun,
                   asked>>

WaitForFinished == UNCHANGED isDone    \* faulty: of a thread that never ran
FinishRemover == isDone' = TRUE

(* removePackageEnd: setPackageUninstalled, and the next package or the    *)
(* final clean-up of empty directories, which may fail too.                *)
RecordRemoved ==
    /\ At("remove", "copy")
    /\ dirs = <<>>
    /\ ScriptSucceeded
    /\ recorded' = recorded \ {package}
    /\ begun' = begun \ {package}
    /\ \/ /\ queue = {}
          /\ stage' = "ended"
          /\ FinishRemover
          /\ isSuccess' \in IF DiskFails THEN BOOLEAN ELSE {TRUE}
          /\ UNCHANGED <<queue, package>>
       \/ /\ \E p \in queue : Post(p, queue \ {p})
          /\ UNCHANGED <<isDone, isSuccess>>
    /\ UNCHANGED <<tree, temp, scripts, command, dirs, errors, lossy, asked, interrupted>>

(* The remove command leaves its loop. *)
RemoveCommandEnds ==
    /\ command = "remove"
    /\ isDone
    /\ CommandGone
    /\ UNCHANGED <<storeVars, lossy, begun, interrupted>>

(* The process dies, or is killed. *)
Crash ==
    /\ command # "none"
    /\ CommandGone
    /\ interrupted' = TRUE
    /\ UNCHANGED <<storeVars, lossy, begun>>

CommandStep ==
    \/ BeginInstall
    \/ CopyEntry
    \/ WipeDestination
    \/ MergeEntry
    \/ EntryInstalled
    \/ EntryError
    \/ InstallScriptEnds
    \/ InstallFails
    \/ SaveRemovalScript
    \/ RecordInstalled
    \/ BeginRemove
    \/ RemoveFiles
    \/ RemoveFilesError
    \/ RemoveFails
    \/ RecordRemoved
    \/ RemoveCommandEnds

Next ==
    \/ \E p \in Package : StartInstall(p) \/ StartRemove(p)
    \/ CommandStep
    \/ Crash

(* A command that runs goes on; nobody has to start one. *)
Spec == Init /\ [][Next]_vars /\ WF_vars(CommandStep)

-----------------------------------------------------------------------------
(* The directories that only p installs. *)
OwnDirs(p) ==
    {d \in ToSet(DirsOf[p]) : \A q \in Package \ {p} : d \notin ToSet(DirsOf[q])}

(* A package is recorded as installed only while its files are in the tree *)
(* (those of directories it shares with no other package), wherever        *)
(* commands died or failed in between: unless its removal was begun, or a  *)
(* copy failed without a word.                                             *)
RecordedIsComplete ==
    \A p \in recorded \ (begun \cup lossy) : \A d \in OwnDirs(p) : <<d, p>> \in tree

(* A recorded package can be removed, even after a removal that was cut    *)
(* short: its removal script is there before the record, and stays.        *)
RecordedIsRemovable == recorded \ lossy \subseteq scripts

(* When no command runs, an installed package has all it needs, in spite   *)
(* of the alphabetical order of installation and of dependencies being     *)
(* removed before their dependents; unless a command did not get through.  *)
ClosedUnlessInterrupted ==
    command = "none" /\ ~interrupted => \A p \in recorded : Needs[p] \subseteq recorded

(* A package's files turn up only in its own directories, unless a command *)
(* that died or failed left them where archive entries pass through.       *)
NoForeignFiles ==
    ~interrupted /\ ~errors => \A t \in tree : t[1] \in ToSet(DirsOf[t[2]])

(* When the Remover is done, what it was asked to remove is not recorded,  *)
(* nothing of it is in the tree but, in directories of which its remove.js *)
(* names files only by a pattern, what the pattern stands for, and nothing *)
(* installed needs it.                                                     *)
RemovalIsComplete ==
    isDone => \A p \in asked :
                  /\ p \notin recorded
                  /\ \A d \in ToSet(DirsOf[p]) : <<d, p>> \in Named => <<d, p>> \notin tree
                  /\ \A q \in recorded : p \notin Needs[q]

(* A removal that meets no error ends, although the thread whose end would *)
(* finish the Remover is never started.                                    *)
RemovalEndsUnlessError ==
    command = "remove" ~> command # "remove" \/ ~isSuccess

(* After a command that got through without an error the tree holds the    *)
(* files of every installed package.  It does not hold for packages that   *)
(* install into the same directory.                                        *)
TreeIsUnion ==
    command = "none" /\ ~interrupted /\ lossy = {} =>
        \A p \in recorded : \A d \in ToSet(DirsOf[p]) : <<d, p>> \in tree
=============================================================================

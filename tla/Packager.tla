-------------------------------- MODULE Packager --------------------------------
(***************************************************************************)
(* The Packager: it collects what belongs to each module of a Qt build,    *)
(* makes archives of it with the scripts that install and remove it, and   *)
(* puts them and their metadata on the server, where soqute may read them  *)
(* at any time.  It is run again and again, in a directory that keeps what *)
(* earlier runs have left there, or in a new one; a run may die anywhere,  *)
(* and hardly any of its steps is looked at for whether it went well.      *)
(*                                                                         *)
(* Modules are taken in some fixed order.  The scripts are written anew    *)
(* before every archive and depend on the tables only: they have no state. *)
(***************************************************************************)
EXTENDS GetFiles, Integers, Sequences

CONSTANTS
    Module,         \* the modules of the tables that are packaged
    Version,        \* the versions, of one platform
    Qt,             \* the items that the build of a version has of a module
    MaxRuns,        \* bound
    MaxFaults       \* bound

ASSUME PackagerAssumption ==
    /\ Module \subseteq modules
    /\ Qt \in [Version -> [Module -> SUBSET UNION {ItemsOf(m) : m \in Module}]]
    /\ \A v \in Version, m \in Module : Qt[v][m] \subseteq ItemsOf(m)
    /\ MaxRuns \in Nat /\ MaxFaults \in Nat

VARIABLES
    asserts,        \* whether Q_ASSERT evaluates what it asserts
    pc,             \* what the run does next; "idle": there is no run
    version,
    todo,           \* modules, or archives, it has yet to come to
    stage,          \* what is in the directory of each module, and its version
    local, server,  \* the archives here and there: what is in each
    meta, serverMeta,  \* meta.json here and there: the versions it lists
    faulty,         \* ghost: something went wrong in this run
    faults,
    used,           \* ghost: the versions that were run in this directory
    harmed,         \* ghost: archives that a run failed to put on the server
    finished,       \* ghost: the version whose run ended, with nothing gone wrong
    runs

vars == <<asserts, pc, version, todo, stage, local, server, meta, serverMeta,
          faulty, faults, used, harmed, finished, runs>>

Archive == Module \X Version

(* A file that is not there, that cannot be parsed, and one that can.      *)
NoFile == [there |-> FALSE, whole |-> FALSE, list |-> <<>>]
Torn == [there |-> TRUE, whole |-> FALSE, list |-> <<>>]
Listing(list) == [there |-> TRUE, whole |-> TRUE, list |-> list]

Empty == [m \in Module |-> {}]

Init ==
    /\ asserts \in BOOLEAN
    /\ pc = "idle" /\ version \in Version /\ todo = {}
    /\ stage = Empty /\ local = <<>> /\ server = <<>>
    /\ meta = NoFile /\ serverMeta = NoFile
    /\ faulty = FALSE /\ faults = 0 /\ used = {} /\ harmed = {} /\ finished = {}
    /\ runs = 0

First(set) == CHOOSE x \in set : TRUE

(* An archive that is new, or made anew. *)
With(archives, a, x) == [b \in DOMAIN archives \cup {a} |-> IF b = a THEN x ELSE archives[b]]

(* Whether a step goes well; if not, this is a faulty run. *)
Goes(well) ==
    IF well THEN UNCHANGED <<faulty, faults>>
    ELSE faults < MaxFaults /\ faults' = faults + 1 /\ faulty' = TRUE

Run(v) ==
    /\ pc = "idle" /\ runs < MaxRuns
    /\ pc' = "copy" /\ version' = v /\ todo' = Module
    /\ faulty' = FALSE /\ used' = used \cup {v} /\ finished' = {}
    /\ runs' = runs + 1
    /\ UNCHANGED <<asserts, faults, stage, local, server, meta, serverMeta, harmed>>

Stop ==
    /\ pc' = "idle" /\ todo' = {}
    /\ UNCHANGED <<asserts, version, used, runs>>

-----------------------------------------------------------------------------
\* faulty: it looks for the archive that it would make
FaultyAlreadyThere(m) == <<m, version>> \in DOMAIN local

(* The check for an archive that is there already looks for a name that    *)
(* archives do not have.                                                   *)
AlreadyThere(m) == <<m>> \in DOMAIN local

(* copyFiles: QFile::copy leaves a file that is there already.             *)
Copied(old, new) == old \cup {i \in new : \A j \in old : j[1] # i[1]}

(* What can be copied: the directory of a nested file is never made.       *)
Copyable(v, m) == {<<i, v>> : i \in {j \in Qt[v][m] : j[2] # "nested"}}

(* A copy that fails is not noticed. *)
CopyFiles(lost) ==
    LET m == First(todo)
    IN  /\ pc = "copy" /\ todo # {}
        /\ lost \subseteq Copyable(version, m)
        /\ Goes(lost = {})
        /\ IF AlreadyThere(m) THEN todo' = todo \ {m} /\ UNCHANGED <<pc, stage>>
           ELSE /\ stage' = [stage EXCEPT ![m] = Copied(@, Copyable(version, m) \ lost)]
                /\ pc' = "scripts" /\ UNCHANGED todo
        /\ UNCHANGED <<asserts, version, local, server, meta, serverMeta, used,
                       harmed, finished, runs>>

(* install.js, remove.js: the run ends if one cannot be opened. *)
WriteScripts ==
    /\ pc = "scripts"
    /\ pc' = "archive"
    /\ UNCHANGED <<asserts, version, todo, stage, local, server, meta, serverMeta, faulty, faults, used,
                   harmed, finished, runs>>

ScriptsFail ==
    /\ pc = "scripts"
    /\ Goes(FALSE) /\ Stop
    /\ UNCHANGED <<stage, local, server, meta, serverMeta, harmed, finished>>

(* The archive is opened for reading and writing: what it holds already    *)
(* stays in it, unless it is there again.  Directories that hold nothing   *)
(* are not added.                                                          *)
MakeArchive(whole) ==
    LET m == First(todo)
        a == <<m, version>>
        old == IF a \in DOMAIN local THEN local[a].items ELSE {}
        items == {i \in old : \A j \in stage[m] : j[1] # i[1]} \cup stage[m]
    IN  /\ pc = "archive"
        /\ Goes(whole)
        /\ local' = With(local, a, [items |-> IF whole THEN items ELSE {}, whole |-> whole])
        /\ todo' = todo \ {m} /\ pc' = "copy"
        /\ UNCHANGED <<asserts, version, stage, server, meta, serverMeta, used, harmed, finished,
                       runs>>

(* Neither opening nor writing meta.json is checked. *)
WriteMeta(whole) ==
    /\ pc = "copy" /\ todo = {}
    /\ Goes(whole)
    /\ meta' = IF whole THEN Listing(<<version>>) ELSE Torn
    /\ todo' = DOMAIN local /\ pc' = "upload"
    /\ UNCHANGED <<asserts, version, stage, local, server, serverMeta, used, harmed,
                   finished, runs>>

-----------------------------------------------------------------------------
(* Every archive of the directory goes to the server. *)
RemoveOld ==
    LET a == First(todo)
    IN  /\ pc = "upload" /\ todo # {}
        /\ server' = [b \in DOMAIN server \ {a} |-> server[b]]
        /\ harmed' = harmed \cup {a}
        /\ pc' = "replace"
        /\ UNCHANGED <<asserts, version, todo, stage, local, meta, serverMeta, faulty, faults, used,
                       finished, runs>>

CopyNew(well) ==
    LET a == First(todo)
    IN  /\ pc = "replace"
        /\ Goes(well)
        /\ server' = IF well THEN With(server, a, local[a]) ELSE server
        /\ harmed' = IF well THEN harmed \ {a} ELSE harmed
        /\ todo' = todo \ {a} /\ pc' = "upload"
        /\ UNCHANGED <<asserts, version, stage, local, meta, serverMeta, used, finished, runs>>

End ==
    /\ pc' = "idle" /\ todo' = {}
    /\ finished' = IF faulty' THEN {} ELSE {version}
    /\ UNCHANGED <<asserts, version, stage, local, server, meta, used, harmed, runs>>

\* faulty: the metadata may come before the archives
FaultyPublishing == pc = "upload"

Publishing == pc = "upload" /\ todo = {}

(* The server has no meta.json: it gets this one. *)
CopyMeta(well) ==
    /\ Publishing /\ ~serverMeta.there
    /\ Goes(well)
    /\ serverMeta' = IF well THEN meta ELSE serverMeta
    /\ End

(* It has one: opening the files is asserted, and happens in a build with  *)
(* assertions only.  Without, nothing is read and nothing is written.      *)
LeaveMeta ==
    /\ Publishing /\ serverMeta.there /\ ~asserts
    /\ UNCHANGED <<faulty, faults, serverMeta>>
    /\ End

\* faulty: what was listed is not read before the file is truncated
FaultyAppended == Listing(meta.list)

(* What cannot be parsed is an empty list.  The old list is read through   *)
(* ReadOnly | Truncate (main.cpp:297).  That something is left to be read  *)
(* rests on Qt's file engine for Unix, which is not part of this code: it  *)
(* truncates only what it opens for writing.  With one that took the flag  *)
(* by its word, this would be FaultyAppended.                              *)
Appended == Listing(serverMeta.list \o meta.list)

AppendMeta(whole) ==
    /\ Publishing /\ serverMeta.there /\ asserts
    /\ Goes(whole)
    /\ serverMeta' = IF whole THEN Appended ELSE Torn
    /\ End

-----------------------------------------------------------------------------
(* The process dies; the step it was at may have been done in part, as one *)
(* that failed.                                                            *)
Crash ==
    /\ pc # "idle"
    /\ Goes(FALSE) /\ Stop
    /\ UNCHANGED <<stage, local, server, meta, serverMeta, harmed, finished>>

(* The next run is in another directory. *)
NewDirectory ==
    /\ pc = "idle" /\ used # {} /\ runs < MaxRuns
    /\ stage' = Empty /\ local' = <<>> /\ meta' = NoFile
    /\ used' = {} /\ finished' = {}
    /\ UNCHANGED <<asserts, pc, version, todo, server, serverMeta, faulty, faults, harmed, runs>>

Next ==
    \/ \E v \in Version : Run(v)
    \/ \E i \in UNION {ItemsOf(m) : m \in Module}, all \in BOOLEAN :
            CopyFiles(IF all THEN {} ELSE {<<i, version>>})
    \/ WriteScripts
    \/ ScriptsFail
    \/ \E whole \in BOOLEAN : MakeArchive(whole)
    \/ \E whole \in BOOLEAN : WriteMeta(whole)
    \/ RemoveOld
    \/ \E well \in BOOLEAN : CopyNew(well)
    \/ \E well \in BOOLEAN : CopyMeta(well)
    \/ LeaveMeta
    \/ \E whole \in BOOLEAN : AppendMeta(whole)
    \/ Crash
    \/ NewDirectory

Spec == Init /\ [][Next]_vars

-----------------------------------------------------------------------------
listed == {serverMeta.list[k] : k \in 1..Len(serverMeta.list)}

(* Whatever the metadata on the server lists at any time can be fetched,   *)
(* but for an archive that is just being replaced, and those that a run    *)
(* removed and then failed to copy.                                        *)
ListedIsThere == \A v \in listed, m \in Module : <<m, v>> \in DOMAIN server \cup harmed

(* A run in which nothing goes wrong makes up for whatever earlier runs    *)
(* failed to do: everything that can be copied is on the server, though it *)
(* may be of another version that was packaged in the same directory, and  *)
(* it is listed if there is a list that may grow.                          *)
FinishedIsComplete ==
    \A v \in finished :
        /\ \A m \in Module :
               /\ <<m, v>> \in DOMAIN server /\ server[<<m, v>>].whole
               /\ \A i \in Copyable(v, m) :
                      \E u \in used : <<i[1], u>> \in server[<<m, v>>].items
               /\ used = {v} => server[<<m, v>>].items = Copyable(v, m)
        /\ asserts => v \in listed

(* What is listed stays listed, as long as the file stays whole.           *)
StaysListed ==
    [][serverMeta'.whole => listed \subseteq listed']_vars

(* A package that is listed can be installed: the archive has a directory  *)
(* for each group that its script installs, and what it depends on is      *)
(* listed, too.                                                            *)
IsInstallable ==
    \A v \in finished \cap listed, m \in Module :
        /\ \A g \in GroupsOf(m) : \E i \in server[<<m, v>>].items : i[1][1] = g
        /\ dependencies(m) \subseteq Module
=============================================================================

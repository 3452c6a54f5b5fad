---------------------------- MODULE PackagerProofs ----------------------------
(***************************************************************************)
(* Proofs about the Packager, for any modules of the tables, any versions  *)
(* and any build.  What the server lists can be fetched because a run only *)
(* lists the version whose archives it has made, and uploads what it has.  *)
(***************************************************************************)
EXTENDS Packager, TLAPS

Item == UNION {ItemsOf(m) : m \in Module}

Building == {"copy", "scripts", "archive"}
Uploading == {"upload", "replace"}

(* The versions that a meta.json lists. *)
Entries(list) == {list[k] : k \in 1..Len(list)}

TypeOK ==
    /\ asserts \in BOOLEAN /\ faulty \in BOOLEAN
    /\ pc \in {"idle"} \cup Building \cup Uploading
    /\ version \in Version
    /\ todo \subseteq IF pc \in Uploading THEN DOMAIN local ELSE Module
    /\ pc \in {"scripts", "archive", "replace"} => todo # {}
    /\ DOMAIN local \subseteq Archive /\ DOMAIN server \subseteq Archive
    /\ serverMeta \in [there : BOOLEAN, whole : BOOLEAN, list : Seq(Version)]
    /\ ~serverMeta.there => serverMeta.list = <<>>
    /\ meta \in {NoFile, Torn} \cup {Listing(<<v>>) : v \in Version}

(* The archives of the modules that a run is done with have been made, and *)
(* so have those of the version that meta.json names.                      *)
Collected ==
    /\ pc \in Building => \A m \in Module \ todo : <<m, version>> \in DOMAIN local
    /\ \A v \in Version, m \in Module : meta = Listing(<<v>>) => <<m, v>> \in DOMAIN local

(* What an upload is done with is on the server, unless it failed. *)
Uploaded ==
    /\ pc \in Uploading => DOMAIN local \ todo \subseteq DOMAIN server \cup harmed
    /\ pc = "replace" => First(todo) \in harmed

IInv ==
    /\ TypeOK
    /\ Collected
    /\ Uploaded
    /\ ListedIsThere

-----------------------------------------------------------------------------
USE DEF vars

LEMMA FirstIsIn == ASSUME NEW S, S # {} PROVE First(S) \in S
BY DEF First

(* There are no archives of the name that is looked for. *)
LEMMA NeverThere ==
    ASSUME DOMAIN local \subseteq Archive, NEW m
    PROVE  ~AlreadyThere(m)
BY DEF AlreadyThere, Archive

LEMMA ListingIsNew ==
    ASSUME NEW v, NEW w
    PROVE  /\ Listing(<<v>>) # NoFile /\ Listing(<<v>>) # Torn
           /\ Listing(<<v>>) = Listing(<<w>>) => v = w
           /\ Listing(<<v>>).list = <<v>>
BY DEF Listing, NoFile, Torn

LEMMA InitOK == Init => IInv
<1> SUFFICES ASSUME Init PROVE IInv
  OBVIOUS
<1>1. serverMeta \in [there : BOOLEAN, whole : BOOLEAN, list : Seq(Version)]
  BY DEF Init, NoFile
<1>0. DOMAIN local = {} /\ DOMAIN server = {}
  BY DEF Init
<1>2. TypeOK
  <2>1. todo \subseteq IF pc \in Uploading THEN DOMAIN local ELSE Module
    BY DEF Init, Uploading
  <2>2. ~serverMeta.there => serverMeta.list = <<>>
    BY DEF Init, NoFile
  <2>3. meta \in {NoFile, Torn} \cup {Listing(<<v>>) : v \in Version}
    BY DEF Init
  <2>4. DOMAIN local \subseteq Archive /\ DOMAIN server \subseteq Archive
    BY <1>0
  <2> QED
    BY <1>1, <2>1, <2>2, <2>3, <2>4 DEF Init, TypeOK
<1>3. Collected
  BY ListingIsNew DEF Init, Collected, Building
<1>4. Uploaded /\ ListedIsThere
  BY DEF Init, Uploaded, Uploading, ListedIsThere, listed, NoFile
<1> QED
  BY <1>2, <1>3, <1>4 DEF IInv

-----------------------------------------------------------------------------
(* One lemma for each action. *)

LEMMA RunOK == ASSUME IInv, NEW v \in Version, Run(v) PROVE IInv'
BY DEF Run, IInv, TypeOK, Collected, Uploaded, ListedIsThere, listed, Building, Uploading

LEMMA CopyFilesOK == ASSUME IInv, NEW lost, CopyFiles(lost) PROVE IInv'
<1>1. ~AlreadyThere(First(todo))
  BY NeverThere DEF IInv, TypeOK
<1>2. pc = "copy" /\ pc' = "scripts" /\ faulty' \in BOOLEAN
  BY <1>1 DEF CopyFiles, Goes, IInv, TypeOK
<1>3. UNCHANGED <<asserts, version, todo, local, server, meta, serverMeta, harmed>> /\ todo # {}
  BY <1>1 DEF CopyFiles
<1> QED
  BY <1>2, <1>3 DEF IInv, TypeOK, Collected, Uploaded, ListedIsThere, listed, Building, Uploading

LEMMA WriteScriptsOK == ASSUME IInv, WriteScripts PROVE IInv'
BY DEF WriteScripts, IInv, TypeOK, Collected, Uploaded, ListedIsThere, listed, Building, Uploading

LEMMA StopOK ==
    ASSUME IInv, Stop, faulty' \in BOOLEAN, UNCHANGED <<local, server, meta, serverMeta, harmed>>
    PROVE  IInv'
BY DEF Stop, IInv, TypeOK, Collected, Uploaded, ListedIsThere, listed, Building, Uploading

LEMMA ScriptsFailOK == ASSUME IInv, ScriptsFail PROVE IInv'
BY StopOK DEF ScriptsFail, Goes

LEMMA CrashOK == ASSUME IInv, Crash PROVE IInv'
BY StopOK DEF Crash, Goes

LEMMA MakeArchiveOK == ASSUME IInv, NEW whole \in BOOLEAN, MakeArchive(whole) PROVE IInv'
<1> DEFINE a == <<First(todo), version>>
<1>1. todo # {} /\ First(todo) \in Module
  BY FirstIsIn DEF MakeArchive, IInv, TypeOK, Uploading
<1>2. DOMAIN local' = DOMAIN local \cup {a}
  BY DEF MakeArchive, With
<1>3. pc' = "copy" /\ pc = "archive" /\ todo' = todo \ {First(todo)} /\ faulty' \in BOOLEAN
  BY DEF MakeArchive, Goes, IInv, TypeOK
<1>4. UNCHANGED <<asserts, version, server, meta, serverMeta, harmed>>
  BY DEF MakeArchive
<1>5. TypeOK'
  BY <1>1, <1>2, <1>3, <1>4 DEF IInv, TypeOK, Building, Uploading, Archive
<1>6. Collected'
  BY <1>2, <1>3, <1>4 DEF IInv, Collected, Building
<1> QED
  BY <1>3, <1>4, <1>5, <1>6 DEF IInv, Uploaded, Uploading, ListedIsThere, listed

LEMMA WriteMetaOK == ASSUME IInv, NEW whole \in BOOLEAN, WriteMeta(whole) PROVE IInv'
<1>1. pc = "copy" /\ todo = {} /\ todo' = DOMAIN local /\ pc' = "upload" /\ faulty' \in BOOLEAN
  BY DEF WriteMeta, Goes, IInv, TypeOK
<1>2. UNCHANGED <<asserts, version, local, server, serverMeta, harmed>>
  BY DEF WriteMeta
<1>3. meta' = Listing(<<version>>) \/ meta' = Torn
  BY DEF WriteMeta
<1>4. TypeOK'
  <2>1. meta' \in {NoFile, Torn} \cup {Listing(<<v>>) : v \in Version}
    BY <1>3 DEF IInv, TypeOK
  <2> QED
    BY <1>1, <1>2, <2>1 DEF IInv, TypeOK, Building, Uploading, NoFile, Torn, Listing
<1>5. Collected'
  BY <1>1, <1>2, <1>3, ListingIsNew DEF IInv, Collected, Building
<1> QED
  BY <1>1, <1>2, <1>4, <1>5 DEF IInv, Uploaded, Uploading, ListedIsThere, listed

LEMMA RemoveOldOK == ASSUME IInv, RemoveOld PROVE IInv'
<1>1. First(todo) \in todo
  BY FirstIsIn DEF RemoveOld
<1>2. DOMAIN server' = DOMAIN server \ {First(todo)} /\ harmed' = harmed \cup {First(todo)}
  BY DEF RemoveOld
<1>3. /\ pc = "upload" /\ pc' = "replace" /\ todo # {}
      /\ UNCHANGED <<asserts, version, todo, local, meta, serverMeta, faulty>>
  BY DEF RemoveOld
<1> QED
  BY <1>1, <1>2, <1>3 DEF IInv, TypeOK, Collected, Uploaded, ListedIsThere, listed, Building, Uploading

LEMMA CopyNewOK == ASSUME IInv, NEW well \in BOOLEAN, CopyNew(well) PROVE IInv'
<1>1. First(todo) \in todo /\ First(todo) \in DOMAIN local
  BY FirstIsIn DEF CopyNew, IInv, TypeOK, Uploading
<1>2. \/ DOMAIN server' = DOMAIN server \cup {First(todo)} /\ harmed' = harmed \ {First(todo)}
      \/ UNCHANGED <<server, harmed>>
  BY DEF CopyNew, With
<1>3. /\ pc = "replace" /\ pc' = "upload" /\ todo' = todo \ {First(todo)} /\ faulty' \in BOOLEAN
      /\ UNCHANGED <<asserts, version, local, meta, serverMeta>>
  BY DEF CopyNew, Goes, IInv, TypeOK
<1> QED
  BY <1>1, <1>2, <1>3 DEF IInv, TypeOK, Collected, Uploaded, ListedIsThere, listed, Building, Uploading

LEMMA TornIsAFile ==
    /\ NoFile \in [there : BOOLEAN, whole : BOOLEAN, list : Seq(Version)]
    /\ Torn \in [there : BOOLEAN, whole : BOOLEAN, list : Seq(Version)]
<1>1. <<>> \in Seq(Version)
  OBVIOUS
<1> QED
  BY <1>1 DEF NoFile, Torn

(* A meta.json of a run is a file like the server's, and lists only what   *)
(* there are archives of.                                                  *)
LEMMA MetaIsAFile ==
    ASSUME IInv
    PROVE  /\ meta \in [there : BOOLEAN, whole : BOOLEAN, list : Seq(Version)]
           /\ ~meta.there => meta.list = <<>>
           /\ \A v \in Entries(meta.list), m \in Module : <<m, v>> \in DOMAIN local
<1>1. CASE meta \in {NoFile, Torn}
  <2>1. meta.list = <<>>
    BY <1>1 DEF NoFile, Torn
  <2>2. Entries(meta.list) = {}
    BY <2>1 DEF Entries
  <2>3. /\ NoFile \in [there : BOOLEAN, whole : BOOLEAN, list : Seq(Version)]
        /\ Torn \in [there : BOOLEAN, whole : BOOLEAN, list : Seq(Version)]
    BY TornIsAFile
  <2> QED
    BY <1>1, <2>1, <2>2, <2>3
<1>2. ASSUME NEW v \in Version, meta = Listing(<<v>>)
      PROVE  /\ meta \in [there : BOOLEAN, whole : BOOLEAN, list : Seq(Version)]
             /\ meta.there
             /\ \A w \in Entries(meta.list), m \in Module : <<m, w>> \in DOMAIN local
  <2>1. meta.list = <<v>> /\ Entries(meta.list) = {v}
    BY <1>2 DEF Listing, Entries
  <2> QED
    BY <1>2, <2>1 DEF Listing, IInv, Collected
<1> QED
  BY <1>1, <1>2 DEF IInv, TypeOK

(* When a run comes to the metadata, all its archives have been uploaded,  *)
(* so that what it may add to the server's list is there.                  *)
LEMMA PublishingOK ==
    ASSUME IInv, Publishing, End, UNCHANGED serverMeta \/ Entries(serverMeta'.list) \subseteq
                                       Entries(serverMeta.list) \cup Entries(meta.list),
           faulty' \in BOOLEAN,
           serverMeta' \in [there : BOOLEAN, whole : BOOLEAN, list : Seq(Version)],
           ~serverMeta'.there => serverMeta'.list = <<>>
    PROVE  IInv'
<1>1. /\ pc = "upload" /\ todo = {} /\ pc' = "idle" /\ todo' = {}
      /\ UNCHANGED <<asserts, version, local, server, meta, harmed>>
  BY DEF Publishing, End
<1>2. TypeOK'
  BY <1>1 DEF IInv, TypeOK, Building, Uploading
<1>3. Collected' /\ Uploaded'
  BY <1>1 DEF IInv, Collected, Uploaded, Building, Uploading
<1>4. ListedIsThere'
  <2>1. \A v \in Entries(meta.list), m \in Module : <<m, v>> \in DOMAIN server \cup harmed
    BY <1>1, MetaIsAFile DEF IInv, Uploaded, Uploading
  <2>2. \A v \in Entries(serverMeta.list), m \in Module : <<m, v>> \in DOMAIN server \cup harmed
    BY DEF IInv, ListedIsThere, listed, Entries
  <2>3. listed' \subseteq Entries(serverMeta.list) \cup Entries(meta.list)
    BY DEF listed, Entries
  <2> QED
    BY <1>1, <2>1, <2>2, <2>3 DEF ListedIsThere
<1> QED
  BY <1>2, <1>3, <1>4 DEF IInv

LEMMA CopyMetaOK == ASSUME IInv, NEW well \in BOOLEAN, CopyMeta(well) PROVE IInv'
<1>1. Publishing /\ End /\ faulty' \in BOOLEAN /\ (serverMeta' = meta \/ serverMeta' = serverMeta)
  BY DEF CopyMeta, Goes, IInv, TypeOK
<1>2. UNCHANGED serverMeta \/ Entries(serverMeta'.list) \subseteq Entries(serverMeta.list) \cup Entries(meta.list)
  BY <1>1
<1>3. /\ serverMeta' \in [there : BOOLEAN, whole : BOOLEAN, list : Seq(Version)]
      /\ ~serverMeta'.there => serverMeta'.list = <<>>
  BY <1>1, MetaIsAFile DEF IInv, TypeOK
<1> QED
  BY <1>1, <1>2, <1>3, PublishingOK

LEMMA LeaveMetaOK == ASSUME IInv, LeaveMeta PROVE IInv'
BY PublishingOK DEF LeaveMeta, IInv, TypeOK

LEMMA EntriesOfBoth ==
    ASSUME NEW s \in Seq(Version), NEW t \in Seq(Version)
    PROVE  Entries(s \o t) = Entries(s) \cup Entries(t)
<1>1. Entries(s \o t) \subseteq Entries(s) \cup Entries(t)
  BY DEF Entries
<1>2. Entries(s) \subseteq Entries(s \o t)
  BY DEF Entries
<1>3. ASSUME NEW k \in 1..Len(t) PROVE t[k] \in Entries(s \o t)
  <2>1. Len(s) + k \in 1..Len(s \o t) /\ (s \o t)[Len(s) + k] = t[k]
    OBVIOUS
  <2> QED
    BY <2>1 DEF Entries
<1> QED
  BY <1>1, <1>2, <1>3 DEF Entries

LEMMA ListOf == ASSUME NEW list PROVE Listing(list).list = list
BY DEF Listing

LEMMA AppendMetaOK == ASSUME IInv, NEW whole \in BOOLEAN, AppendMeta(whole) PROVE IInv'
<1>1. /\ Publishing /\ End /\ faulty' \in BOOLEAN
      /\ serverMeta' = Listing(serverMeta.list \o meta.list) \/ serverMeta' = Torn
  BY DEF AppendMeta, Appended, Goes, IInv, TypeOK
<1>2. serverMeta.list \in Seq(Version) /\ meta.list \in Seq(Version)
  BY MetaIsAFile DEF IInv, TypeOK
<1>3. \/ serverMeta'.list = serverMeta.list \o meta.list
      \/ serverMeta'.list = <<>>
  <2>1. Torn.list = <<>>
    BY DEF Torn
  <2> QED
    BY <1>1, <2>1, ListOf
<1>4. Entries(serverMeta'.list) \subseteq Entries(serverMeta.list) \cup Entries(meta.list)
  <2>1. CASE serverMeta'.list = <<>>
    BY <2>1 DEF Entries
  <2>2. CASE serverMeta'.list = serverMeta.list \o meta.list
    BY <1>2, <2>2, EntriesOfBoth
  <2> QED
    BY <1>3, <2>1, <2>2
<1>5. serverMeta' \in [there : BOOLEAN, whole : BOOLEAN, list : Seq(Version)] /\ serverMeta'.there
  <2>1. CASE serverMeta' = Torn
    BY <2>1, TornIsAFile DEF Torn
  <2>2. CASE serverMeta' = Listing(serverMeta.list \o meta.list)
    <3>1. serverMeta.list \o meta.list \in Seq(Version)
      BY <1>2
    <3> QED
      BY <2>2, <3>1 DEF Listing
  <2> QED
    BY <1>1, <2>1, <2>2
<1> QED
  BY <1>1, <1>4, <1>5, PublishingOK

LEMMA NewDirectoryOK == ASSUME IInv, NewDirectory PROVE IInv'
<1>1. /\ pc = "idle" /\ DOMAIN local' = {} /\ meta' = NoFile
      /\ UNCHANGED <<asserts, pc, version, todo, server, serverMeta, faulty, harmed>>
  BY DEF NewDirectory
<1>2. TypeOK'
  BY <1>1 DEF IInv, TypeOK, Building, Uploading
<1>3. Collected' /\ Uploaded' /\ ListedIsThere'
  BY <1>1, ListingIsNew DEF IInv, Collected, Uploaded, ListedIsThere, listed, Building, Uploading
<1> QED
  BY <1>2, <1>3 DEF IInv

LEMMA StepOK == IInv /\ [Next]_vars => IInv'
<1> SUFFICES ASSUME IInv, [Next]_vars PROVE IInv'
  OBVIOUS
<1>1. CASE \E v \in Version : Run(v)
  BY <1>1, RunOK
<1>2. CASE \E lost : CopyFiles(lost)
  BY <1>2, CopyFilesOK
<1>3. CASE WriteScripts \/ ScriptsFail \/ Crash
  BY <1>3, WriteScriptsOK, ScriptsFailOK, CrashOK
<1>4. CASE \E whole \in BOOLEAN : MakeArchive(whole) \/ WriteMeta(whole)
  BY <1>4, MakeArchiveOK, WriteMetaOK
<1>5. CASE RemoveOld \/ \E well \in BOOLEAN : CopyNew(well)
  BY <1>5, RemoveOldOK, CopyNewOK
<1>6. CASE LeaveMeta \/ \E well \in BOOLEAN : CopyMeta(well) \/ AppendMeta(well)
  BY <1>6, LeaveMetaOK, CopyMetaOK, AppendMetaOK
<1>7. CASE NewDirectory
  BY <1>7, NewDirectoryOK
<1>8. CASE UNCHANGED vars
  BY <1>8 DEF IInv, TypeOK, Collected, Uploaded, ListedIsThere, listed
<1> QED
  BY <1>1, <1>2, <1>3, <1>4, <1>5, <1>6, <1>7, <1>8 DEF Next

-----------------------------------------------------------------------------
(* The invariant that the others follow from: the modules that a run is    *)
(* done with have archives, and what it has uploaded is on the server, or  *)
(* among those known to have failed (Packager/main.cpp:173-310).           *)
THEOREM Invariance == Spec => []IInv
BY InitOK, StepOK, PTL DEF Spec

(* A run only works on modules of the tables and archives that it has, and *)
(* the server's metadata is a list of versions that were packaged.         *)
THEOREM TypeCorrect == Spec => []TypeOK
<1>1. IInv => TypeOK
  BY DEF IInv
<1> QED
  BY <1>1, Invariance, PTL

(* Whatever the metadata on the server lists at any time can be fetched,   *)
(* however many runs failed or died: but for the archives that they        *)
(* removed and did not replace, which is what copying without a check      *)
(* costs (main.cpp:283-289).                                               *)
THEOREM Listed == Spec => []ListedIsThere
<1>1. IInv => ListedIsThere
  BY DEF IInv
<1> QED
  BY <1>1, Invariance, PTL

LEMMA StayStep == ASSUME IInv, [Next]_vars, serverMeta'.whole PROVE listed \subseteq listed'
<1>1. CASE UNCHANGED serverMeta
  BY <1>1 DEF listed
<1>2. CASE \E well \in BOOLEAN : CopyMeta(well)
  <2>1. UNCHANGED serverMeta \/ serverMeta.list = <<>>
    BY <1>2 DEF CopyMeta, IInv, TypeOK
  <2> QED
    BY <2>1 DEF listed
<1>3. CASE \E whole \in BOOLEAN : AppendMeta(whole)
  <2>1. serverMeta' = Listing(serverMeta.list \o meta.list)
    BY <1>3 DEF AppendMeta, Appended, Torn
  <2>2. serverMeta.list \in Seq(Version) /\ meta.list \in Seq(Version)
    BY MetaIsAFile DEF IInv, TypeOK
  <2>3. serverMeta'.list = serverMeta.list \o meta.list
    BY <2>1, ListOf
  <2>4. listed = Entries(serverMeta.list) /\ listed' = Entries(serverMeta'.list)
    BY DEF listed, Entries
  <2> QED
    BY <2>2, <2>3, <2>4, EntriesOfBoth
<1>4. CASE (\E v \in Version : Run(v)) \/ \E lost : CopyFiles(lost)
  BY <1>1, <1>4 DEF Run, CopyFiles
<1>5. CASE WriteScripts \/ ScriptsFail \/ Crash \/ RemoveOld \/ LeaveMeta \/ NewDirectory
  BY <1>1, <1>5 DEF WriteScripts, ScriptsFail, Crash, RemoveOld, LeaveMeta, NewDirectory
<1>6. CASE \E well \in BOOLEAN : MakeArchive(well) \/ WriteMeta(well) \/ CopyNew(well)
  BY <1>1, <1>6 DEF MakeArchive, WriteMeta, CopyNew
<1>7. CASE UNCHANGED vars
  BY <1>1, <1>7
<1> QED
  BY <1>2, <1>3, <1>4, <1>5, <1>6, <1>7 DEF Next

(* The metadata only grows while it can be parsed: a run that appends to   *)
(* it keeps what was listed (main.cpp:296-310), and one that copies it     *)
(* only does so where there was none (:291-294).                           *)
THEOREM Stays == Spec => StaysListed
<1>1. IInv /\ [Next]_vars => [serverMeta'.whole => listed \subseteq listed']_vars
  BY StayStep
<1> QED
  BY <1>1, Invariance, PTL DEF Spec, StaysListed

-----------------------------------------------------------------------------
(* A run in which nothing goes wrong: what its steps have done so far, each *)
(* part of it for as long as a later step needs it.                        *)

(* What a run may find in this directory of a module: what the versions    *)
(* that were run here have of it.                                          *)
Known(m) == UNION {Copyable(u, m) : u \in used}

(* All that can be copied of a module is there, of some version.           *)
Covers(items, m) == \A i \in Copyable(version, m) : \E u \in used : <<i[1], u>> \in items

(* A run is of a version that was run, and none is finished before its end. *)
Running == pc # "idle" => finished = {} /\ version \in used

Staged ==
    /\ stage = [m \in Module |-> stage[m]]
    /\ \A m \in Module : stage[m] \subseteq Known(m)
    /\ pc \in {"scripts", "archive"} /\ ~faulty => Covers(stage[First(todo)], First(todo))

Made(m) ==
    LET a == <<m, version>>
    IN  a \in DOMAIN local /\ local[a].whole /\ Covers(local[a].items, m)

Archived ==
    /\ \A m \in Module, v \in Version :
           <<m, v>> \in DOMAIN local => local[<<m, v>>].items \subseteq Known(m)
    /\ pc \in Building /\ ~faulty => \A m \in Module \ todo : Made(m)
    /\ pc \in Uploading /\ ~faulty => \A m \in Module : Made(m)

(* What an upload that has gone well so far leaves on the server. *)
Sent ==
    pc \in Uploading /\ ~faulty =>
        /\ meta = Listing(<<version>>)
        /\ \A a \in DOMAIN local \ todo : a \in DOMAIN server /\ server[a] = local[a]

FInv ==
    /\ Running
    /\ Staged
    /\ Archived
    /\ Sent
    /\ FinishedIsComplete

LEMMA ItemsThere ==
    ASSUME NEW m
    PROVE  /\ \A j \in Known(m) : \E u \in used : j = <<j[1], u>>
           /\ \A v : \A i \in Copyable(v, m) : i = <<i[1], v>>
           /\ \A v \in used : Copyable(v, m) \subseteq Known(m)
<1>1. ASSUME NEW v, NEW i \in Copyable(v, m) PROVE i = <<i[1], v>>
  BY DEF Copyable
<1>2. \A j \in Known(m) : \E u \in used : j \in Copyable(u, m)
  BY DEF Known
<1>3. \A v \in used : Copyable(v, m) \subseteq Known(m)
  BY DEF Known
<1> QED
  BY <1>1, <1>2, <1>3

(* What is in the way of a copy is the same thing of another version. *)
LEMMA CopiedCovers ==
    ASSUME version \in used, NEW m, NEW old, old \subseteq Known(m)
    PROVE  Covers(Copied(old, Copyable(version, m)), m)
<1> DEFINE all == Copied(old, Copyable(version, m))
<1>1. ASSUME NEW i \in Copyable(version, m) PROVE \E u \in used : <<i[1], u>> \in all
  <2>1. CASE \E j \in old : j[1] = i[1]
    <3>1. PICK j \in old : j[1] = i[1]
      BY <2>1
    <3>2. PICK u \in used : j = <<j[1], u>>
      BY ItemsThere
    <3> QED
      BY <3>1, <3>2 DEF Copied
  <2>2. CASE \A j \in old : j[1] # i[1]
    <3>1. i \in all /\ i = <<i[1], version>>
      BY <1>1, <2>2, ItemsThere DEF Copied
    <3> QED
      BY <3>1
  <2> QED
    BY <2>1, <2>2
<1> QED
  BY <1>1 DEF Covers

LEMMA MoreCovers ==
    ASSUME NEW m, NEW S, NEW T, S \subseteq T, Covers(S, m)
    PROVE  Covers(T, m)
BY DEF Covers

(* In steps that leave the directory, its versions and the archives alone. *)
LEMMA SameRun ==
    ASSUME UNCHANGED <<version, used>>
    PROVE  /\ \A m : Known(m)' = Known(m)
           /\ \A m, items : Covers(items, m)' <=> Covers(items, m)
BY DEF Known, Covers

LEMMA RunInitOK == Init => FInv
BY DEF Init, FInv, Running, Staged, Archived, Sent, FinishedIsComplete, Empty, Building, Uploading

LEMMA FRunOK == ASSUME IInv, FInv, NEW v \in Version, Run(v) PROVE FInv'
<1> USE DEF Run
<1>1. \A m : Known(m) \subseteq Known(m)'
  BY DEF Known
<1>2. Staged'
  BY <1>1 DEF FInv, Staged
<1>3. Archived'
  BY <1>1 DEF FInv, Archived, Building, Uploading
<1> QED
  BY <1>2, <1>3 DEF FInv, Running, Sent, FinishedIsComplete, Uploading

LEMMA FCopyFilesOK == ASSUME IInv, FInv, NEW lost, CopyFiles(lost) PROVE FInv'
<1> DEFINE m == First(todo)
<1>1. ~AlreadyThere(m)
  BY NeverThere DEF IInv, TypeOK
<1>2. /\ pc = "copy" /\ pc' = "scripts" /\ todo # {} /\ lost \subseteq Copyable(version, m)
      /\ stage' = [stage EXCEPT ![m] = Copied(@, Copyable(version, m) \ lost)]
      /\ ~faulty' => lost = {} /\ ~faulty
      /\ UNCHANGED <<asserts, version, todo, local, used, finished>>
  BY <1>1 DEF CopyFiles, Goes
<1>3. m \in Module /\ version \in used
  BY <1>2, FirstIsIn DEF IInv, TypeOK, Uploading, FInv, Running
<1>4. \A n \in Module : stage'[n] = IF n = m THEN Copied(stage[m], Copyable(version, m) \ lost)
                                     ELSE stage[n]
  BY <1>2 DEF FInv, Staged
<1>5. Staged'
  <2>1. Copied(stage[m], Copyable(version, m) \ lost) \subseteq Known(m)
    BY <1>3, ItemsThere DEF Copied, FInv, Staged
  <2>2. ASSUME ~faulty' PROVE Covers(stage'[m], m)
    <3>1. Covers(Copied(stage[m], Copyable(version, m)), m)
      BY <1>3, CopiedCovers DEF FInv, Staged
    <3>2. stage'[m] = Copied(stage[m], Copyable(version, m))
      BY <1>2, <1>3, <1>4, <2>2
    <3> QED
      BY <3>1, <3>2
  <2>3. stage' = [n \in Module |-> stage'[n]]
    BY <1>2, <1>3 DEF FInv, Staged
  <2>4. \A n \in Module : stage'[n] \subseteq Known(n)
    BY <1>4, <2>1 DEF FInv, Staged
  <2> QED
    BY <1>2, <2>2, <2>3, <2>4, SameRun DEF Staged
<1>6. Archived'
  BY <1>2, SameRun DEF FInv, Archived, Made, Building, Uploading
<1> QED
  BY <1>2, <1>5, <1>6 DEF FInv, Running, Sent, FinishedIsComplete, Uploading

LEMMA FWriteScriptsOK == ASSUME IInv, FInv, WriteScripts PROVE FInv'
<1> USE DEF WriteScripts
<1>1. Staged'
  BY SameRun DEF FInv, Staged
<1>2. Archived'
  BY SameRun DEF FInv, Archived, Made, Building, Uploading
<1> QED
  BY <1>1, <1>2 DEF FInv, Running, Sent, FinishedIsComplete, Uploading

LEMMA FStopOK ==
    ASSUME IInv, FInv, pc # "idle", Stop, UNCHANGED <<stage, local, finished>>
    PROVE  FInv'
<1> USE DEF Stop
<1>1. Staged'
  BY SameRun DEF FInv, Staged
<1>2. Archived'
  BY SameRun DEF FInv, Archived, Building, Uploading
<1> QED
  BY <1>1, <1>2 DEF FInv, Running, Sent, FinishedIsComplete, Uploading

LEMMA FMakeArchiveOK ==
    ASSUME IInv, FInv, NEW whole \in BOOLEAN, MakeArchive(whole) PROVE FInv'
<1> DEFINE m == First(todo)
           a == <<m, version>>
           old == IF a \in DOMAIN local THEN local[a].items ELSE {}
           items == {i \in old : \A j \in stage[m] : j[1] # i[1]} \cup stage[m]
           new == [items |-> IF whole THEN items ELSE {}, whole |-> whole]
<1>1. /\ pc = "archive" /\ pc' = "copy" /\ todo' = todo \ {m}
      /\ local' = With(local, a, new)
      /\ ~faulty' => whole /\ ~faulty
      /\ UNCHANGED <<asserts, version, stage, used, finished>>
  BY DEF MakeArchive, Goes
<1>2. todo # {} /\ m \in Module /\ version \in Version
  BY <1>1, FirstIsIn DEF IInv, TypeOK, Uploading
<1>3. DOMAIN local' = DOMAIN local \cup {a}
  BY <1>1 DEF With
<1>4. \A b \in DOMAIN local' : local'[b] = IF b = a THEN new ELSE local[b]
  BY <1>1 DEF With
<1>5. new.items \subseteq Known(m) /\ new.whole = whole
  <2>1. old \subseteq Known(m) /\ stage[m] \subseteq Known(m)
    BY <1>2 DEF FInv, Archived, Staged
  <2> QED
    BY <2>1
<1>6. ASSUME ~faulty' PROVE Covers(new.items, m)
  <2>1. stage[m] \subseteq new.items
    BY <1>1, <1>6
  <2> QED
    BY <1>1, <1>6, <2>1, MoreCovers DEF FInv, Staged
<1>7. Archived'
  <2>1. ASSUME NEW n \in Module, NEW v \in Version, <<n, v>> \in DOMAIN local'
        PROVE  local'[<<n, v>>].items \subseteq Known(n)
    BY <1>3, <1>4, <1>5, <2>1 DEF FInv, Archived
  <2>2. ASSUME ~faulty', NEW n \in Module \ todo'
        PROVE  /\ <<n, version>> \in DOMAIN local' /\ local'[<<n, version>>].whole
               /\ Covers(local'[<<n, version>>].items, n)
    <3>1. CASE n = m
      BY <1>1, <1>3, <1>4, <1>5, <1>6, <2>2, <3>1
    <3>2. CASE n # m
      <4>1. Made(n)
        BY <1>1, <2>2, <3>2 DEF FInv, Archived, Building
      <4> QED
        BY <1>3, <1>4, <3>2, <4>1 DEF Made
    <3> QED
      BY <3>1, <3>2
  <2> QED
    BY <1>1, <2>1, <2>2, SameRun DEF Archived, Made, Uploading
<1>8. Staged'
  BY <1>1, SameRun DEF FInv, Staged
<1> QED
  BY <1>1, <1>7, <1>8 DEF FInv, Running, Sent, FinishedIsComplete, Uploading

LEMMA FWriteMetaOK == ASSUME IInv, FInv, NEW whole \in BOOLEAN, WriteMeta(whole) PROVE FInv'
<1>1. /\ pc = "copy" /\ todo = {} /\ pc' = "upload" /\ todo' = DOMAIN local
      /\ ~faulty' => whole /\ ~faulty /\ meta' = Listing(<<version>>)
      /\ UNCHANGED <<asserts, version, stage, local, used, finished>>
  BY DEF WriteMeta, Goes
<1>2. Staged'
  BY <1>1, SameRun DEF FInv, Staged
<1>3. Archived'
  BY <1>1, SameRun DEF FInv, Archived, Made, Building, Uploading
<1>4. Sent'
  BY <1>1 DEF Sent
<1> QED
  BY <1>1, <1>2, <1>3, <1>4 DEF FInv, Running, FinishedIsComplete

LEMMA FRemoveOldOK == ASSUME IInv, FInv, RemoveOld PROVE FInv'
<1>1. /\ pc = "upload" /\ pc' = "replace" /\ First(todo) \in todo
      /\ server' = [b \in DOMAIN server \ {First(todo)} |-> server[b]]
      /\ UNCHANGED <<asserts, version, todo, stage, local, meta, faulty, used, finished>>
  BY FirstIsIn DEF RemoveOld
<1>2. Staged'
  BY <1>1, SameRun DEF FInv, Staged
<1>3. Archived'
  BY <1>1, SameRun DEF FInv, Archived, Made, Building, Uploading
<1>4. Sent'
  BY <1>1 DEF FInv, Sent, Uploading
<1> QED
  BY <1>1, <1>2, <1>3, <1>4 DEF FInv, Running, FinishedIsComplete

LEMMA FCopyNewOK == ASSUME IInv, FInv, NEW well \in BOOLEAN, CopyNew(well) PROVE FInv'
<1> DEFINE a == First(todo)
<1>1. /\ pc = "replace" /\ pc' = "upload" /\ todo' = todo \ {a}
      /\ ~faulty' => well /\ ~faulty /\ server' = With(server, a, local[a])
      /\ UNCHANGED <<asserts, version, stage, local, meta, used, finished>>
  BY DEF CopyNew, Goes
<1>2. Staged'
  BY <1>1, SameRun DEF FInv, Staged
<1>3. Archived'
  BY <1>1, SameRun DEF FInv, Archived, Made, Building, Uploading
<1>4. Sent'
  BY <1>1 DEF FInv, Sent, Uploading, With
<1> QED
  BY <1>1, <1>2, <1>3, <1>4 DEF FInv, Running, FinishedIsComplete

(* The end of a run in which nothing went wrong.                           *)
LEMMA FEndOK ==
    ASSUME IInv, FInv, Publishing, End, ~faulty' => ~faulty,
           ~faulty' /\ asserts => version \in listed'
    PROVE  FInv'
<1>1. /\ pc = "upload" /\ todo = {} /\ pc' = "idle"
      /\ finished' = IF faulty' THEN {} ELSE {version}
      /\ UNCHANGED <<asserts, version, stage, local, server, meta, used>>
  BY DEF Publishing, End
<1>2. Staged'
  BY <1>1, SameRun DEF FInv, Staged
<1>3. Archived'
  BY <1>1, SameRun DEF FInv, Archived, Building, Uploading
<1>4. FinishedIsComplete'
  <2>1. SUFFICES ASSUME ~faulty', NEW m \in Module
                 PROVE  LET a == <<m, version>>
                        IN  /\ a \in DOMAIN server /\ server[a].whole
                            /\ Covers(server[a].items, m)
                            /\ used = {version} => server[a].items = Copyable(version, m)
    BY <1>1 DEF FinishedIsComplete, Covers, Copyable
  <2>2. Made(m) /\ <<m, version>> \in DOMAIN server /\ server[<<m, version>>] = local[<<m, version>>]
    BY <1>1, <2>1 DEF FInv, Archived, Sent, Uploading, Made
  <2>3. ASSUME used = {version} PROVE server[<<m, version>>].items = Copyable(version, m)
    <3> DEFINE there == server[<<m, version>>].items
    <3>1. there \subseteq Known(m) /\ Known(m) = Copyable(version, m)
      BY <2>2, <2>3 DEF IInv, TypeOK, FInv, Archived, Known, Made
    <3>2. ASSUME NEW i \in Copyable(version, m) PROVE i \in there
      BY <2>2, <2>3, ItemsThere DEF Made, Covers
    <3> QED
      BY <3>1, <3>2
  <2> QED
    BY <2>2, <2>3 DEF Made
<1> QED
  BY <1>1, <1>2, <1>3, <1>4 DEF FInv, Running, Sent, Uploading

LEMMA FPublishOK ==
    ASSUME IInv, FInv, LeaveMeta \/ \E well \in BOOLEAN : CopyMeta(well) \/ AppendMeta(well)
    PROVE  FInv'
<1>1. Publishing /\ End /\ (~faulty' => ~faulty)
  BY DEF LeaveMeta, CopyMeta, AppendMeta, Goes
<1>2. ASSUME ~faulty', asserts PROVE version \in listed'
  <2>1. meta = Listing(<<version>>) /\ version \in Version
    BY <1>1, <1>2 DEF FInv, Sent, Publishing, Uploading, IInv, TypeOK
  <2>2. meta.list = <<version>> /\ version \in Entries(meta.list)
    BY <2>1, ListOf DEF Entries
  <2>3. CASE \E well \in BOOLEAN : CopyMeta(well)
    <3>1. serverMeta' = meta
      BY <1>2, <2>3 DEF CopyMeta, Goes
    <3> QED
      BY <2>2, <3>1 DEF listed, Entries
  <2>4. CASE \E whole \in BOOLEAN : AppendMeta(whole)
    <3>1. serverMeta'.list = serverMeta.list \o meta.list
      BY <1>2, <2>4, ListOf DEF AppendMeta, Goes, Appended
    <3>2. serverMeta.list \in Seq(Version) /\ meta.list \in Seq(Version)
      BY MetaIsAFile DEF IInv, TypeOK
    <3>3. listed' = Entries(serverMeta.list \o meta.list)
      BY <3>1 DEF listed, Entries
    <3> QED
      BY <2>2, <3>2, <3>3, EntriesOfBoth
  <2> QED
    BY <1>2, <2>3, <2>4 DEF LeaveMeta
<1> QED
  BY <1>1, <1>2, FEndOK

LEMMA FNewDirectoryOK == ASSUME IInv, FInv, NewDirectory PROVE FInv'
<1> USE DEF NewDirectory
<1>1. Staged'
  BY DEF Staged, Empty
<1>2. Archived'
  BY DEF Archived, Building, Uploading
<1> QED
  BY <1>1, <1>2 DEF Running, FInv, Sent, FinishedIsComplete, Uploading

LEMMA FStutterOK == ASSUME IInv, FInv, UNCHANGED vars PROVE FInv'
<1>1. Staged'
  BY SameRun DEF FInv, Staged
<1>2. Archived'
  BY SameRun DEF FInv, Archived, Made
<1>3. FinishedIsComplete'
  BY DEF FInv, FinishedIsComplete, listed
<1> QED
  BY <1>1, <1>2, <1>3 DEF FInv, Running, Sent

LEMMA FStepOK == IInv /\ FInv /\ [Next]_vars => FInv'
<1> SUFFICES ASSUME IInv, FInv, [Next]_vars PROVE FInv'
  OBVIOUS
<1>1. CASE \E v \in Version : Run(v)
  BY <1>1, FRunOK
<1>2. CASE \E lost : CopyFiles(lost)
  BY <1>2, FCopyFilesOK
<1>3. CASE WriteScripts
  BY <1>3, FWriteScriptsOK
<1>4. CASE ScriptsFail \/ Crash
  BY <1>4, FStopOK DEF ScriptsFail, Crash
<1>5. CASE \E whole \in BOOLEAN : MakeArchive(whole) \/ WriteMeta(whole)
  BY <1>5, FMakeArchiveOK, FWriteMetaOK
<1>6. CASE RemoveOld \/ \E well \in BOOLEAN : CopyNew(well)
  BY <1>6, FRemoveOldOK, FCopyNewOK
<1>7. CASE LeaveMeta \/ \E well \in BOOLEAN : CopyMeta(well) \/ AppendMeta(well)
  BY <1>7, FPublishOK
<1>8. CASE NewDirectory
  BY <1>8, FNewDirectoryOK
<1>9. CASE UNCHANGED vars
  BY <1>9, FStutterOK
<1> QED
  BY <1>1, <1>2, <1>3, <1>4, <1>5, <1>6, <1>7, <1>8, <1>9 DEF Next

(* A run in which nothing went wrong leaves everything that can be copied  *)
(* on the server, whatever earlier runs left behind: what an earlier run   *)
(* copied stands in for what QFile::copy then leaves alone, what the       *)
(* archive held already is replaced or added to, and every archive is      *)
(* uploaded again (Packager/main.cpp:173-310).                             *)
THEOREM Finished == Spec => []FinishedIsComplete
<1>1. FInv => FinishedIsComplete
  BY DEF FInv
<1> QED
  BY <1>1, RunInitOK, FStepOK, Invariance, PTL DEF Spec
=============================================================================

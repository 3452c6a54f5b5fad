-------------------------- MODULE LoadMetadataProofs --------------------------
(***************************************************************************)
(* Proofs about the loading of metadata, for any repositories, any lists   *)
(* of them and any clock.  The invariant has three parts that are about    *)
(* different things: what the counter of requests counts, how old what is  *)
(* in the files is compared to what index and entries say of it, and what  *)
(* a clean-up may find missing.                                            *)
(***************************************************************************)
EXTENDS LoadMetadata, FiniteSetTheorems, TLAPS

SavedRequest == [request : DOMAIN urls, updated : Nat]

(* What has not been parsed yet. *)
Outstanding ==
    localfiles \cup unanswered \cup (IF pc = "save" THEN {saving.request} ELSE {})

(* The counter counts replies to come, and the one whose data is being     *)
(* saved; the loader is done when there are none.                          *)
Counts ==
    /\ pc \in {"idle", "clean", "request"} =>
           /\ localfiles = {} /\ unanswered = {} /\ saving = None /\ numRequests = 0
           /\ parsed = {} /\ ~isDone /\ isSuccess
    /\ pc = "parse" =>
           /\ localfiles \cap unanswered = {} /\ saving = None /\ ~isDone
           /\ numRequests = Cardinality(unanswered)
    /\ pc = "loop" =>
           /\ localfiles = {} /\ saving = None
           /\ numRequests = Cardinality(unanswered)
           /\ isDone <=> numRequests = 0
    /\ pc = "save" =>
           /\ localfiles = {} /\ saving \in SavedRequest /\ ~isDone
           /\ saving.request \notin unanswered
           /\ numRequests = Cardinality(unanswered) + 1

(* Unless something failed, the rest has been parsed. *)
Loads ==
    pc \in {"parse", "loop", "save"} /\ isSuccess =>
        /\ {x.request : x \in parsed} = DOMAIN urls \ Outstanding
        /\ \A x \in parsed : x.data.good

(* A file has its own repository's data, which is not older than the index *)
(* and the process's copy of it say.                                       *)
NotOlder(times) ==
    \A k \in Key : times[k] # None =>
        /\ times[k] <= now
        /\ NamesDistinct /\ HasFile(k) => times[k] <= files[FileOf[k]].time

Dated ==
    /\ NotOlder(index) /\ NotOlder(entries)
    /\ NamesDistinct => \A k \in Key : HasFile(k) => EntryUrl[files[FileOf[k]].url] = k

(* What is going to be parsed is valid now. *)
ToParse ==
    /\ pc = "parse" => \A i \in localfiles : Valid(urls[i], now)
    /\ pc = "save" =>
           LET data == files[FileOf[EntryUrl[urls[saving.request]]]]
           IN  /\ data \in Data /\ data.url = urls[saving.request]
               /\ data.time = now /\ saving.updated = now

(* Entries have files, and so do those of the index, but while it is being *)
(* cleaned up.                                                             *)
Whole ==
    NamesDistinct /\ ~interrupted =>
        /\ \A k \in Key : HasEntry(k) => HasFile(k)
        /\ pc # "clean" => ~Broken

IInv ==
    /\ TypeOK
    /\ Counts
    /\ Loads
    /\ Dated
    /\ ToParse
    /\ Whole
    /\ ParsesFreshData

-----------------------------------------------------------------------------
USE DEF vars, cacheVars, processVars

LEMMA UrlsOK ==
    ASSUME TypeOK
    PROVE  /\ DOMAIN urls \subseteq Nat /\ IsFiniteSet(DOMAIN urls)
           /\ \A i \in DOMAIN urls :
                  urls[i] \in Url /\ urls[i] \in Key /\ EntryUrl[urls[i]] \in Key
           /\ \A S \in SUBSET DOMAIN urls : IsFiniteSet(S) /\ Cardinality(S) \in Nat
<1>0. <<>> \in Seq(Url)
  OBVIOUS
<1>1. urls \in Seq(Url)
  <2>1. CASE urls = <<>>
    BY <1>0, <2>1
  <2>2. CASE urls \in RepositoryLists
    BY <2>2, LoadMetadataAssumption
  <2> QED
    BY <2>1, <2>2 DEF TypeOK
<1>2. DOMAIN urls = 1..Len(urls) /\ Len(urls) \in Nat
  BY <1>1
<1>3. IsFiniteSet(DOMAIN urls)
  BY <1>2, FS_Interval
<1>4. \A S \in SUBSET DOMAIN urls : IsFiniteSet(S) /\ Cardinality(S) \in Nat
  BY <1>3, FS_Subset, FS_CardinalityType
<1>5. \A i \in DOMAIN urls : urls[i] \in Url
  BY <1>1
<1> QED
  BY <1>2, <1>3, <1>4, <1>5, CacheAssumption

LEMMA FilesOK ==
    ASSUME TypeOK, NEW k \in Key
    PROVE  /\ FileOf[k] \in File
           /\ HasFile(k) => files[FileOf[k]] \in Data
BY CacheAssumption DEF TypeOK, CacheTypeOK, HasFile

LEMMA InitOK == Init => IInv
<1> SUFFICES ASSUME Init PROVE IInv
  OBVIOUS
<1>1. TypeOK
  <2>1. CacheTypeOK
    BY DEF Init, CacheInit, CacheTypeOK
  <2>2. now \in 0..MaxTime
    BY LoadMetadataAssumption DEF Init
  <2>3. urls \in RepositoryLists \cup {<<>>}
    BY DEF Init
  <2> QED
    BY <2>1, <2>2, <2>3 DEF Init, TypeOK
<1>2. Counts /\ Loads /\ ToParse
  BY DEF Init, Counts, Loads, ToParse
<1>3. \A k \in Key : index[k] = None /\ entries[k] = None /\ files[FileOf[k]] = None
  BY CacheAssumption DEF Init, CacheInit
<1>4. Dated /\ Whole
  BY <1>3 DEF Dated, NotOlder, HasFile, Whole, HasEntry, Broken
<1>5. ParsesFreshData
  BY DEF Init, ParsesFreshData
<1> QED
  BY <1>1, <1>2, <1>4, <1>5 DEF IInv

-----------------------------------------------------------------------------
(* One lemma for each action. *)

LEMMA StartOK ==
    ASSUME IInv, NEW list \in RepositoryLists, NEW refresh \in BOOLEAN, Start(list, refresh)
    PROVE  IInv'
<1> USE DEF Start, ReadCacheFile
<1>1. TypeOK'
  BY DEF IInv, TypeOK, CacheTypeOK, Counts
<1>2. Counts' /\ Loads' /\ ToParse'
  BY DEF IInv, Counts, Loads, ToParse
<1>3. Dated' /\ Whole'
  BY DEF IInv, Dated, NotOlder, Whole, HasFile, HasEntry, Broken
<1>4. ParsesFreshData'
  BY DEF IInv, Counts, ParsesFreshData
<1> QED
  BY <1>1, <1>2, <1>3, <1>4 DEF IInv

LEMMA PurgeEntryOK == ASSUME IInv, NEW k \in Key, PurgeEntry(k) PROVE IInv'
<1> USE DEF PurgeEntry, RemoveEntry
<1>1. TypeOK'
  BY FilesOK DEF IInv, TypeOK, CacheTypeOK
<1>2. Counts' /\ Loads' /\ ToParse'
  BY DEF IInv, Counts, Loads, ToParse, SavedRequest, Outstanding
<1>3. \A j \in Key : files'[FileOf[j]] = None \/ files'[FileOf[j]] = files[FileOf[j]]
  BY FilesOK DEF IInv, TypeOK, CacheTypeOK
<1>4. \A j \in Key : entries'[j] = IF j = k THEN None ELSE entries[j]
  BY DEF IInv, TypeOK, CacheTypeOK
<1>5. Dated'
  BY <1>3, <1>4 DEF IInv, Dated, NotOlder, HasFile
<1>6. NamesDistinct => \A j \in Key : files'[FileOf[j]] = IF j = k THEN None ELSE files[FileOf[j]]
  BY FilesOK DEF IInv, TypeOK, CacheTypeOK, NamesDistinct
<1>7. Whole'
  BY <1>4, <1>6 DEF IInv, Whole, HasFile, HasEntry
<1>8. ParsesFreshData'
  BY DEF IInv, ParsesFreshData
<1> QED
  BY <1>1, <1>2, <1>5, <1>7, <1>8 DEF IInv

LEMMA PurgeFileOK == ASSUME IInv, NEW f \in File, PurgeFile(f) PROVE IInv'
<1> USE DEF PurgeFile, RemoveFile
<1>1. TypeOK'
  BY DEF IInv, TypeOK, CacheTypeOK
<1>2. Counts' /\ Loads' /\ ToParse'
  BY DEF IInv, Counts, Loads, ToParse, SavedRequest, Outstanding
<1>3. \A j \in Key : files'[FileOf[j]] = IF FileOf[j] = f THEN None ELSE files[FileOf[j]]
  BY FilesOK DEF IInv, TypeOK, CacheTypeOK
<1>4. Dated'
  BY <1>3 DEF IInv, Dated, NotOlder, HasFile
<1>5. Whole'
  BY <1>3 DEF IInv, Whole, HasFile, HasEntry, UnknownFiles
<1>6. ParsesFreshData'
  BY DEF IInv, ParsesFreshData
<1> QED
  BY <1>1, <1>2, <1>4, <1>5, <1>6 DEF IInv

LEMMA CleanFailsOK == ASSUME IInv, CleanFails PROVE IInv'
<1> USE DEF CleanFails
<1>1. TypeOK'
  BY DEF IInv, TypeOK, CacheTypeOK
<1>2. Counts' /\ Loads' /\ ToParse'
  BY FS_EmptySet DEF IInv, Counts, Loads, ToParse, Outstanding
<1>3. Dated' /\ Whole'
  BY DEF IInv, Dated, NotOlder, Whole, HasFile, HasEntry, Broken
<1>4. ParsesFreshData'
  BY DEF IInv, ParsesFreshData
<1> QED
  BY <1>1, <1>2, <1>3, <1>4 DEF IInv

LEMMA CleanedOK == ASSUME IInv, Cleaned PROVE IInv'
<1> USE DEF Cleaned, ForgetMissing, WriteCacheFile
<1>1. TypeOK'
  BY DEF IInv, TypeOK, CacheTypeOK
<1>2. Counts' /\ Loads' /\ ToParse'
  BY DEF IInv, Counts, Loads, ToParse, SavedRequest, Outstanding
<1>3. \A k \in Key : entries'[k] = index'[k] /\ entries'[k] = IF HasFile(k) THEN entries[k] ELSE None
  OBVIOUS
<1>4. Dated' /\ Whole'
  BY <1>3 DEF IInv, Dated, NotOlder, Whole, HasFile, HasEntry, Broken
<1>5. ParsesFreshData'
  BY DEF IInv, ParsesFreshData
<1> QED
  BY <1>1, <1>2, <1>4, <1>5 DEF IInv

LEMMA CreateRequestsOK == ASSUME IInv, CreateRequests PROVE IInv'
<1> USE DEF CreateRequests, Counted, Requests
<1>1. unanswered' \subseteq DOMAIN urls /\ numRequests' = Cardinality(unanswered')
  OBVIOUS
<1>2. numRequests' \in Nat
  BY <1>1, UrlsOK DEF IInv
<1>3. TypeOK'
  BY <1>1, <1>2 DEF IInv, TypeOK, CacheTypeOK
<1>4. Counts'
  BY <1>1 DEF IInv, Counts
<1>5. Loads'
  BY <1>1 DEF IInv, Counts, Loads, Outstanding
<1>6. ToParse'
  BY DEF ToParse, Valid, HasEntry
<1>7. Dated' /\ Whole'
  BY DEF IInv, Dated, NotOlder, Whole, HasFile, HasEntry, Broken
<1>8. ParsesFreshData'
  BY DEF IInv, ParsesFreshData
<1> QED
  BY <1>3, <1>4, <1>5, <1>6, <1>7, <1>8 DEF IInv

LEMMA ParseLocalOK == ASSUME IInv, NEW i \in localfiles, ParseLocal(i) PROVE IInv'
<1> DEFINE data == files[FileOf[urls[i]]]
           new == [request |-> i, data |-> data, at |-> now]
<1> USE DEF ParseLocal
<1>1. i \in DOMAIN urls /\ i \in Nat /\ now \in Nat
  BY UrlsOK, LoadMetadataAssumption DEF IInv, TypeOK
<1>2. urls[i] \in Url /\ urls[i] \in Key
  BY <1>1, UrlsOK DEF IInv
<1>3. Valid(urls[i], now)
  BY DEF IInv, ToParse
<1>4. CASE data # None /\ parsed' = parsed \cup {new} /\ isSuccess' = (isSuccess /\ data.good)
  <2>1. HasFile(urls[i]) /\ data \in Data
    BY <1>2, <1>4, FilesOK DEF IInv, HasFile
  <2>2. new \in Parsed
    BY <1>1, <2>1 DEF Parsed
  <2>3. TypeOK'
    BY <1>4, <2>1, <2>2 DEF IInv, TypeOK, CacheTypeOK, Data
  <2>4. Counts' /\ ToParse'
    BY DEF IInv, Counts, ToParse, Valid, HasEntry
  <2>5. Loads'
    <3>1. SUFFICES ASSUME isSuccess' PROVE Loads'
      BY DEF Loads
    <3>2. isSuccess /\ data.good
      BY <1>4, <3>1
    <3>3. {x.request : x \in parsed} = DOMAIN urls \ (localfiles \cup unanswered)
      BY <3>2 DEF IInv, Loads, Outstanding
    <3>4. {x.request : x \in parsed'} = {x.request : x \in parsed} \cup {i}
      <4>1. new.request = i /\ new \in parsed' /\ \A x \in parsed' : x \in parsed \/ x = new
        BY <1>4
      <4>2. parsed \subseteq parsed'
        BY <1>4
      <4> HIDE DEF new
      <4> QED
        BY <4>1, <4>2
    <3>5. i \notin unanswered
      BY DEF IInv, Counts
    <3>6. Outstanding' = (localfiles \ {i}) \cup unanswered
      BY DEF Outstanding
    <3>7. {x.request : x \in parsed'} = DOMAIN urls' \ Outstanding'
      BY <1>1, <3>3, <3>4, <3>5, <3>6
    <3>8. \A x \in parsed' : x.data.good
      BY <1>4, <3>2 DEF IInv, Loads
    <3> QED
      BY <3>7, <3>8 DEF Loads
  <2>6. Dated' /\ Whole'
    BY DEF IInv, Dated, NotOlder, Whole, HasFile, HasEntry, Broken
  <2>7. ParsesFreshData'
    <3>1. SUFFICES ASSUME NamesDistinct PROVE data.url = urls[i] /\ data.time + Day >= now
      BY <1>4 DEF IInv, ParsesFreshData, NamesDistinct
    <3>2. EntryUrl[data.url] = urls[i] /\ data.url \in Url
      BY <2>1, <1>2, <3>1 DEF IInv, Dated, Data
    <3>3. entries[urls[i]] # None /\ entries[urls[i]] + Day >= now
      BY <1>3 DEF Valid, HasEntry
    <3>4. entries[urls[i]] \in Nat /\ data.time \in Nat
      BY <1>2, <2>1, <3>3 DEF IInv, TypeOK, CacheTypeOK, Data
    <3>5. entries[urls[i]] <= data.time
      BY <1>2, <2>1, <3>1, <3>3 DEF IInv, Dated, NotOlder
    <3> QED
      BY <1>1, <1>2, <3>1, <3>2, <3>3, <3>4, <3>5, CacheAssumption DEF NamesDistinct
  <2> QED
    BY <2>3, <2>4, <2>5, <2>6, <2>7 DEF IInv
<1>5. CASE isSuccess' = FALSE /\ UNCHANGED parsed
  <2>1. TypeOK'
    BY <1>5 DEF IInv, TypeOK, CacheTypeOK
  <2>2. Counts' /\ Loads' /\ ToParse'
    BY <1>5 DEF IInv, Counts, Loads, ToParse, Valid, HasEntry
  <2>3. Dated' /\ Whole' /\ ParsesFreshData'
    BY <1>5 DEF IInv, Dated, NotOlder, Whole, HasFile, HasEntry, Broken, ParsesFreshData
  <2> QED
    BY <2>1, <2>2, <2>3 DEF IInv
<1> QED
  BY <1>4, <1>5 DEF Parse

LEMMA AwaitRepliesOK == ASSUME IInv, AwaitReplies PROVE IInv'
<1> USE DEF AwaitReplies
<1>1. TypeOK'
  BY DEF IInv, TypeOK, CacheTypeOK
<1>2. Counts' /\ Loads' /\ ToParse'
  BY DEF IInv, Counts, Loads, ToParse, Outstanding
<1>3. Dated' /\ Whole' /\ ParsesFreshData'
  BY DEF IInv, Dated, NotOlder, Whole, HasFile, HasEntry, Broken, ParsesFreshData
<1> QED
  BY <1>1, <1>2, <1>3 DEF IInv

(* Of a reply that came there is one less to come. *)
LEMMA OneLess ==
    ASSUME IInv, NEW i \in unanswered
    PROVE  /\ Cardinality(unanswered \ {i}) = Cardinality(unanswered) - 1
           /\ Cardinality(unanswered \ {i}) \in Nat
           /\ Cardinality(unanswered) \in Nat
<1>1. unanswered \subseteq DOMAIN urls /\ unanswered \ {i} \subseteq DOMAIN urls
  BY DEF IInv, TypeOK
<1>2. IsFiniteSet(unanswered)
  BY <1>1, UrlsOK DEF IInv
<1>3. Cardinality(unanswered \ {i}) = Cardinality(unanswered) - 1
  BY <1>2, FS_RemoveElement
<1> QED
  BY <1>1, <1>3, UrlsOK DEF IInv

LEMMA ReplyFailsOK == ASSUME IInv, NEW i \in unanswered, ReplyFails(i) PROVE IInv'
<1> USE DEF ReplyFails, Reported, Answered
<1>1. numRequests = Cardinality(unanswered) /\ localfiles = {} /\ saving = None
  BY DEF IInv, Counts
<1>2. numRequests' = Cardinality(unanswered') /\ numRequests' \in Nat
  BY <1>1, OneLess
<1>3. TypeOK'
  BY <1>2 DEF IInv, TypeOK, CacheTypeOK
<1>4. Counts' /\ Loads' /\ ToParse'
  BY <1>1, <1>2 DEF Counts, Loads, ToParse
<1>5. Dated' /\ Whole' /\ ParsesFreshData'
  BY DEF IInv, Dated, NotOlder, Whole, HasFile, HasEntry, Broken, ParsesFreshData
<1> QED
  BY <1>3, <1>4, <1>5 DEF IInv

LEMMA ReplySavedOK ==
    ASSUME IInv, NEW i \in unanswered, NEW good \in BOOLEAN, ReplySaved(i, good)
    PROVE  IInv'
<1> DEFINE data == [url |-> urls[i], time |-> now, good |-> good]
           k == EntryUrl[urls[i]]
<1> USE DEF ReplySaved, WriteData
<1>1. i \in DOMAIN urls /\ urls[i] \in Url /\ k \in Key /\ now \in Nat
  BY UrlsOK, LoadMetadataAssumption DEF IInv, TypeOK
<1>2. data \in Data /\ data # None
  BY <1>1, NoneIsNoData DEF Data
<1>3. FileOf[k] \in File /\ files'[FileOf[k]] = data
  BY <1>1, FilesOK DEF IInv, TypeOK, CacheTypeOK
<1>4. \A j \in Key : files'[FileOf[j]] = IF FileOf[j] = FileOf[k] THEN data ELSE files[FileOf[j]]
  BY FilesOK DEF IInv, TypeOK, CacheTypeOK
<1>5. TypeOK'
  <2>1. CacheTypeOK'
    BY <1>2 DEF IInv, TypeOK, CacheTypeOK
  <2>2. saving' \in [request : DOMAIN urls', updated : Nat]
    BY <1>1
  <2> QED
    BY <2>1, <2>2 DEF IInv, TypeOK
<1>6. Counts'
  <2>1. numRequests = Cardinality(unanswered) /\ localfiles = {} /\ (isDone <=> numRequests = 0)
    BY DEF IInv, Counts
  <2>2. Cardinality(unanswered') = Cardinality(unanswered) - 1 /\ Cardinality(unanswered') \in Nat
    BY OneLess
  <2>3. numRequests' = Cardinality(unanswered') + 1 /\ ~isDone'
    BY <2>1, <2>2, OneLess DEF IInv, TypeOK
  <2> QED
    BY <1>1, <2>1, <2>3 DEF Counts, SavedRequest
<1>7. Loads'
  <2>1. Outstanding' = Outstanding
    BY DEF Outstanding
  <2> QED
    BY <2>1 DEF IInv, Loads
<1>8. ToParse'
  BY <1>2, <1>3 DEF ToParse
<1>9. Dated'
  <2>1. NotOlder(index)' /\ NotOlder(entries)'
    <3>1. ASSUME NEW times \in {index, entries}, NEW j \in Key, times[j] # None
          PROVE  times[j] <= now /\ (NamesDistinct /\ files'[FileOf[j]] # None
                                      => times[j] <= files'[FileOf[j]].time)
      BY <1>2, <1>4, <3>1 DEF IInv, Dated, NotOlder, HasFile
    <3> QED
      BY <3>1 DEF NotOlder, HasFile, NamesDistinct
  <2>2. ASSUME NamesDistinct, NEW j \in Key, files'[FileOf[j]] # None
        PROVE  EntryUrl[files'[FileOf[j]].url] = j
    BY <1>1, <1>2, <1>4, <2>2 DEF IInv, Dated, HasFile, NamesDistinct
  <2> QED
    BY <2>1, <2>2 DEF Dated, HasFile, NamesDistinct
<1>10. \A j \in Key : HasFile(j) => files'[FileOf[j]] # None
  BY <1>2, <1>4 DEF HasFile
<1>11. Whole'
  BY <1>10 DEF IInv, Whole, HasFile, HasEntry, Broken, NamesDistinct
<1>12. ParsesFreshData'
  BY DEF IInv, ParsesFreshData, NamesDistinct
<1> QED
  BY <1>5, <1>6, <1>7, <1>8, <1>9, <1>11, <1>12 DEF IInv

LEMMA EntrySavedOK == ASSUME IInv, EntrySaved PROVE IInv'
<1> DEFINE i == saving.request
           k == EntryUrl[urls[i]]
           data == files[FileOf[k]]
           new == [request |-> i, data |-> data, at |-> now]
<1> USE DEF EntrySaved, SetEntry, WriteCacheFile, Answered
<1>1. /\ i \in DOMAIN urls /\ i \in Nat /\ i \notin unanswered /\ now \in Nat
      /\ urls[i] \in Url /\ k \in Key /\ saving.updated = now
      /\ numRequests = Cardinality(unanswered) + 1 /\ localfiles = {}
  <2>1. saving \in SavedRequest /\ saving.updated = now
    BY DEF IInv, Counts, ToParse
  <2>2. i \in DOMAIN urls
    BY <2>1 DEF SavedRequest
  <2> QED
    BY <2>1, <2>2, UrlsOK, LoadMetadataAssumption DEF IInv, Counts, TypeOK
<1>2. data \in Data /\ data.url = urls[i] /\ data.time = now /\ HasFile(k)
  BY NoneIsNoData DEF IInv, ToParse, HasFile
<1>3. Cardinality(unanswered) \in Nat
  BY UrlsOK DEF IInv, TypeOK
<1>4. numRequests' = Cardinality(unanswered') /\ numRequests' \in Nat
  BY <1>1, <1>3
<1>5. \A j \in Key : /\ entries'[j] = IF j = k THEN now ELSE entries[j]
                    /\ index'[j] = entries'[j]
  BY <1>1 DEF IInv, TypeOK, CacheTypeOK
<1>6. parsed' \subseteq parsed \cup {new}
  BY DEF Parse
<1>7. new \in Parsed
  BY <1>1, <1>2 DEF Parsed
<1>8. TypeOK'
  <2>1. CacheTypeOK'
    BY <1>1 DEF IInv, TypeOK, CacheTypeOK
  <2>2. parsed' \subseteq Parsed
    BY <1>6, <1>7 DEF IInv, TypeOK
  <2>3. isSuccess' \in BOOLEAN
    BY <1>2 DEF Parse, Data, IInv, TypeOK
  <2> QED
    BY <1>4, <2>1, <2>2, <2>3 DEF IInv, TypeOK
<1>9. Counts' /\ ToParse'
  BY <1>1, <1>4 DEF Counts, ToParse
<1>10. Loads'
  <2>1. SUFFICES ASSUME isSuccess' PROVE Loads'
    BY DEF Loads
  <2>2. isSuccess /\ data.good /\ parsed' = parsed \cup {new}
    BY <2>1 DEF Parse
  <2>3. {x.request : x \in parsed} = DOMAIN urls \ (unanswered \cup {i})
    BY <1>1, <2>2 DEF IInv, Loads, Outstanding
  <2>4. {x.request : x \in parsed'} = {x.request : x \in parsed} \cup {i}
    <3>1. new.request = i /\ new \in parsed' /\ \A x \in parsed' : x \in parsed \/ x = new
      BY <2>2
    <3>2. parsed \subseteq parsed'
      BY <2>2
    <3> HIDE DEF new
    <3> QED
      BY <3>1, <3>2
  <2>5. Outstanding' = unanswered
    BY <1>1 DEF Outstanding
  <2>6. {x.request : x \in parsed'} = DOMAIN urls' \ Outstanding'
    BY <1>1, <2>3, <2>4, <2>5
  <2>7. \A x \in parsed' : x.data.good
    BY <2>2 DEF IInv, Loads
  <2> QED
    BY <2>6, <2>7 DEF Loads
<1>11. Dated'
  BY <1>1, <1>2, <1>5 DEF IInv, Dated, NotOlder, HasFile, NamesDistinct
<1>12. Whole'
  BY <1>2, <1>5 DEF IInv, Whole, HasFile, HasEntry, Broken, NamesDistinct
<1>13. ParsesFreshData'
  <2>1. data.url = urls[i] /\ data.time + Day >= now
    BY <1>1, <1>2, CacheAssumption
  <2> QED
    BY <1>6, <2>1 DEF IInv, ParsesFreshData, NamesDistinct
<1> QED
  BY <1>8, <1>9, <1>10, <1>11, <1>12, <1>13 DEF IInv

LEMMA IndexNotWrittenOK == ASSUME IInv, IndexNotWritten PROVE IInv'
<1> DEFINE i == saving.request
           k == EntryUrl[urls[i]]
<1> USE DEF IndexNotWritten, SetEntry, Answered
<1>1. /\ i \in DOMAIN urls /\ now \in Nat /\ k \in Key /\ saving.updated = now
      /\ numRequests = Cardinality(unanswered) + 1 /\ localfiles = {}
  <2>1. saving \in SavedRequest /\ saving.updated = now
    BY DEF IInv, Counts, ToParse
  <2>2. i \in DOMAIN urls
    BY <2>1 DEF SavedRequest
  <2> QED
    BY <2>1, <2>2, UrlsOK, LoadMetadataAssumption DEF IInv, Counts, TypeOK
<1>2. files[FileOf[k]].time = now /\ HasFile(k)
  BY NoneIsNoData DEF IInv, ToParse, HasFile
<1>3. numRequests' = Cardinality(unanswered') /\ numRequests' \in Nat
  BY <1>1, UrlsOK DEF IInv, TypeOK
<1>4. \A j \in Key : entries'[j] = IF j = k THEN now ELSE entries[j]
  BY <1>1 DEF IInv, TypeOK, CacheTypeOK
<1>5. TypeOK'
  BY <1>1, <1>3 DEF IInv, TypeOK, CacheTypeOK
<1>6. Counts' /\ Loads' /\ ToParse'
  BY <1>1, <1>3 DEF Counts, Loads, ToParse
<1>7. Dated'
  BY <1>1, <1>2, <1>4 DEF IInv, Dated, NotOlder, HasFile, NamesDistinct
<1>8. Whole'
  BY <1>2, <1>4 DEF IInv, Whole, HasFile, HasEntry, Broken, NamesDistinct
<1>9. ParsesFreshData'
  BY DEF IInv, ParsesFreshData, NamesDistinct
<1> QED
  BY <1>5, <1>6, <1>7, <1>8, <1>9 DEF IInv

(* The end of a process, whichever way it ends. *)
LEMMA GoneOK ==
    ASSUME IInv, Gone, interrupted' \in BOOLEAN,
           NamesDistinct /\ ~interrupted' => ~Broken
    PROVE  IInv'
<1> USE DEF Gone
<1>1. TypeOK'
  <2>1. CacheTypeOK'
    BY DEF IInv, TypeOK, CacheTypeOK
  <2> QED
    BY <2>1 DEF IInv, TypeOK
<1>2. Counts' /\ Loads' /\ ToParse' /\ ParsesFreshData'
  BY DEF Counts, Loads, ToParse, ParsesFreshData
<1>3. \A k \in Key : entries'[k] = None /\ (HasFile(k)' <=> HasFile(k))
  BY DEF HasFile
<1>4. Broken' <=> Broken
  BY DEF Broken, HasFile
<1>5. Dated'
  BY <1>3 DEF IInv, Dated, NotOlder, NamesDistinct, HasFile
<1>6. Whole'
  BY <1>3, <1>4 DEF Whole, HasEntry, NamesDistinct
<1> QED
  BY <1>1, <1>2, <1>5, <1>6 DEF IInv

LEMMA TickOK == ASSUME IInv, Tick PROVE IInv'
<1> USE DEF Tick
<1>1. now \in Nat /\ now + 1 \in 0..MaxTime
  BY LoadMetadataAssumption DEF IInv, TypeOK
<1>2. TypeOK'
  BY <1>1 DEF IInv, TypeOK, CacheTypeOK
<1>3. Counts' /\ Loads' /\ ToParse'
  BY DEF IInv, Counts, Loads, ToParse, Outstanding
<1>4. Dated'
  BY <1>1 DEF IInv, TypeOK, CacheTypeOK, Dated, NotOlder, HasFile, NamesDistinct
<1>5. Whole' /\ ParsesFreshData'
  BY DEF IInv, Whole, HasFile, HasEntry, Broken, NamesDistinct, ParsesFreshData
<1> QED
  BY <1>2, <1>3, <1>4, <1>5 DEF IInv

LEMMA StutterOK == ASSUME IInv, UNCHANGED vars PROVE IInv'
<1>1. TypeOK'
  BY DEF IInv, TypeOK, CacheTypeOK
<1>2. Counts' /\ Loads' /\ ToParse'
  BY DEF IInv, Counts, Loads, ToParse, Outstanding, SavedRequest, Valid, HasEntry
<1>3. Dated' /\ Whole' /\ ParsesFreshData'
  BY DEF IInv, Dated, NotOlder, Whole, HasFile, HasEntry, Broken, NamesDistinct, ParsesFreshData
<1> QED
  BY <1>1, <1>2, <1>3 DEF IInv

LEMMA StepOK == IInv /\ [Next]_vars => IInv'
<1> SUFFICES ASSUME IInv, [Next]_vars PROVE IInv'
  OBVIOUS
<1>1. CASE \E list \in RepositoryLists, refresh \in BOOLEAN : Start(list, refresh)
  BY <1>1, StartOK
<1>2. CASE \E k \in Key : PurgeEntry(k)
  BY <1>2, PurgeEntryOK
<1>3. CASE \E f \in File : PurgeFile(f)
  BY <1>3, PurgeFileOK
<1>4. CASE CleanFails
  BY <1>4, CleanFailsOK
<1>5. CASE Cleaned
  BY <1>5, CleanedOK
<1>6. CASE CreateRequests
  BY <1>6, CreateRequestsOK
<1>7. CASE \E i \in localfiles : ParseLocal(i)
  BY <1>7, ParseLocalOK
<1>8. CASE AwaitReplies
  BY <1>8, AwaitRepliesOK
<1>9. CASE EntrySaved
  BY <1>9, EntrySavedOK
<1>10. CASE IndexNotWritten
  BY <1>10, IndexNotWrittenOK
<1>11. CASE CommandGoesOn
  <2>1. Gone /\ interrupted' \in BOOLEAN
    BY <1>11 DEF CommandGoesOn, IInv, TypeOK
  <2>2. NamesDistinct /\ ~interrupted' => ~Broken
    BY <1>11 DEF CommandGoesOn, IInv, Whole
  <2> QED
    BY <2>1, <2>2, GoneOK
<1>12. CASE NetworkStep
  <2>1. CASE \E i \in unanswered : ReplyFails(i)
    BY <2>1, ReplyFailsOK
  <2>2. CASE \E i \in unanswered : \E good \in BOOLEAN : ReplySaved(i, good)
    BY <2>2, ReplySavedOK
  <2> QED
    BY <1>12, <2>1, <2>2 DEF NetworkStep
<1>13. CASE Crash
  <2>1. Gone /\ interrupted' \in BOOLEAN
    BY <1>13 DEF Crash, IInv, TypeOK
  <2>2. NamesDistinct /\ ~interrupted' => ~Broken
    BY <1>13 DEF Crash
  <2> QED
    BY <2>1, <2>2, GoneOK
<1>14. CASE Tick
  BY <1>14, TickOK
<1>15. CASE UNCHANGED vars
  BY <1>15, StutterOK
<1> QED
  BY <1>1, <1>2, <1>3, <1>4, <1>5, <1>6, <1>7, <1>8, <1>9, <1>10, <1>11, <1>12, <1>13,
     <1>14, <1>15 DEF Next, MainStep

-----------------------------------------------------------------------------
(* The invariant holds in every reachable state, however often processes   *)
(* die, repositories come and go and requests fail.                        *)
THEOREM LoaderInvariance == Spec => []IInv
<1> QED
  BY InitOK, StepOK, PTL DEF Spec

(* The loader's state and the cache on disk keep their types. *)
THEOREM LoaderTypeCorrect == Spec => []TypeOK
<1>1. IInv => TypeOK
  BY DEF IInv
<1> QED
  BY <1>1, LoaderInvariance, PTL

(* Whatever is parsed is the repository's own metadata and at most a day   *)
(* old: networkFinished writes the data before the entry, and the entry is *)
(* never newer than the file.                                              *)
THEOREM FreshData == Spec => []ParsesFreshData
<1>1. IInv => ParsesFreshData
  BY DEF IInv
<1> QED
  BY <1>1, LoaderInvariance, PTL

(* m_numRequests reaches zero exactly with the last reply. *)
THEOREM DoneWhenAnswered == Spec => []DoneMeansAnswered
<1>1. ASSUME IInv, isDone PROVE unanswered = {} /\ saving = None
  <2>1. pc = "loop" /\ numRequests = 0
    BY <1>1 DEF IInv, TypeOK, Counts
  <2>2. IsFiniteSet(unanswered)
    BY <1>1, UrlsOK DEF IInv, TypeOK
  <2> QED
    BY <1>1, <2>1, <2>2, FS_EmptySet DEF IInv, Counts
<1>2. IInv => DoneMeansAnswered
  BY <1>1 DEF DoneMeansAnswered
<1> QED
  BY <1>2, LoaderInvariance, PTL

(* A successful load has parsed every configured repository. *)
THEOREM SuccessLoaded == Spec => []SuccessLoadsAll
<1>1. ASSUME IInv, isDone, isSuccess
      PROVE  {x.request : x \in parsed} = DOMAIN urls /\ \A x \in parsed : x.data.good
  <2>1. pc = "loop" /\ numRequests = 0
    BY <1>1 DEF IInv, TypeOK, Counts
  <2>2. IsFiniteSet(unanswered)
    BY <1>1, UrlsOK DEF IInv, TypeOK
  <2>3. Outstanding = {}
    BY <1>1, <2>1, <2>2, FS_EmptySet DEF IInv, Counts, Outstanding
  <2> QED
    BY <1>1, <2>1, <2>3 DEF IInv, Loads
<1>2. IInv => SuccessLoadsAll
  BY <1>1 DEF SuccessLoadsAll
<1> QED
  BY <1>2, LoaderInvariance, PTL

(* cleanCache cannot fail on a missing file unless an earlier one was cut  *)
(* short between removing files and writing the index.                     *)
THEOREM CleanInterrupted == Spec => []CleanFailsOnlyAfterInterruption
<1>1. IInv => CleanFailsOnlyAfterInterruption
  BY DEF IInv, Whole, CleanFailsOnlyAfterInterruption, Purgeable
<1> QED
  BY <1>1, LoaderInvariance, PTL

(* No clean-up removes the file of an entry whose repository is configured. *)
THEOREM KeepsListed == Spec => CleanKeepsListed
<1> DEFINE Keeps == NamesDistinct /\ pc = "clean" =>
                        \A u \in ToSet(urls) :
                            HasEntry(u) => files'[FileOf[u]] = files[FileOf[u]]
<1>1. ASSUME IInv, Next, NamesDistinct, pc = "clean", NEW u \in ToSet(urls), HasEntry(u)
      PROVE  files'[FileOf[u]] = files[FileOf[u]]
  <2>1. u \in Key
    BY <1>1, UrlsOK DEF IInv, ToSet
  <2>2. CASE \E k \in Key : PurgeEntry(k)
    <3>1. PICK k \in Key : PurgeEntry(k)
      BY <2>2
    <3>2. k # u
      BY <1>1, <3>1 DEF PurgeEntry, Purgeable
    <3>3. FileOf[k] # FileOf[u]
      BY <1>1, <2>1, <3>2 DEF NamesDistinct
    <3> QED
      BY <1>1, <2>1, <3>1, <3>3, FilesOK DEF PurgeEntry, RemoveEntry, IInv, TypeOK, CacheTypeOK
  <2>3. CASE \E f \in File : PurgeFile(f)
    <3>1. PICK f \in File : PurgeFile(f)
      BY <2>3
    <3>2. FileOf[u] # f
      BY <1>1, <2>1, <3>1 DEF PurgeFile, UnknownFiles
    <3> QED
      BY <1>1, <2>1, <3>1, <3>2, FilesOK DEF PurgeFile, RemoveFile, IInv, TypeOK, CacheTypeOK
  <2>4. CASE UNCHANGED files
    BY <2>4
  <2>5. (\E k \in Key : PurgeEntry(k)) \/ (\E f \in File : PurgeFile(f)) \/ UNCHANGED files
    BY <1>1 DEF Next, MainStep, NetworkStep, Start, CleanFails, Cleaned, CreateRequests,
                ParseLocal, AwaitReplies, EntrySaved, IndexNotWritten, CommandGoesOn,
                ReplyFails, ReplySaved, Crash, Gone, Tick
  <2> QED
    BY <2>2, <2>3, <2>4, <2>5
<1>2. IInv /\ [Next]_vars => [Keeps]_vars
  BY <1>1
<1> QED
  BY <1>2, LoaderInvariance, PTL DEF Spec, CleanKeepsListed
=============================================================================

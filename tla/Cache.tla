-------------------------------- MODULE Cache --------------------------------
(***************************************************************************)
(* The cache of repository metadata: one *.cache file per repository and   *)
(* an index, .cache.json, of when each was updated.  A process works on a  *)
(* copy of the index in memory; files and index are each replaced          *)
(* atomically (QSaveFile), but not together.                               *)
(***************************************************************************)
EXTENDS Naturals, Sequences, FiniteSets, SequencesExt

CONSTANTS
    Url,        \* repositories that can be configured
    Key,        \* urls of cache entries
    EntryUrl,   \* the url addEntry stores a repository under
    File,       \* names of *.cache files
    FileOf,     \* host and path of the url: where the entry's data is
    Day,        \* how long an entry stays valid
    None        \* no such file, no such entry

ASSUME CacheAssumption ==
    /\ Url \subseteq Key
    /\ EntryUrl \in [Url -> Key]
    /\ FileOf \in [Key -> File]
    /\ Day \in Nat
    /\ None \notin Nat

(* What a file holds: the metadata of a repository, as it was at some time, *)
(* which parses or does not.                                                *)
Data == [url : Url, time : Nat, good : BOOLEAN]

ASSUME NoneIsNoData == None \notin Data

VARIABLES
    files,      \* the *.cache files
    index,      \* .cache.json: for each entry when it was updated
    entries     \* m_entries: the process's copy of the index

cacheVars == <<files, index, entries>>

CacheTypeOK ==
    /\ files \in [File -> Data \cup {None}]
    /\ index \in [Key -> Nat \cup {None}]
    /\ entries \in [Key -> Nat \cup {None}]

CacheInit ==
    /\ files = [f \in File |-> None]
    /\ index = [k \in Key |-> None]
    /\ entries = index

-----------------------------------------------------------------------------
HasEntry(k) == entries[k] # None
HasFile(k) == files[FileOf[k]] # None

ReadCacheFile == entries' = index

WriteCacheFile == index' = entries'

(* cleanCache: entries of other repositories; the file is removed before   *)
(* the entry, and the index is written at the very end.                    *)
Purgeable(in) == {k \in Key : HasEntry(k) /\ k \notin ToSet(in)}

KeepEntry(k) ==    \* faulty
    /\ files' = [files EXCEPT ![FileOf[k]] = None]
    /\ UNCHANGED <<index, entries>>
RemoveEntry(k) ==
    /\ files' = [files EXCEPT ![FileOf[k]] = None]
    /\ entries' = [entries EXCEPT ![k] = None]
    /\ UNCHANGED index

(* Files no entry knows of. *)
AllFiles == {f \in File : files[f] # None}    \* faulty: found is not looked at
UnknownFiles ==
    {f \in File : files[f] # None /\ \A k \in Key : HasEntry(k) => FileOf[k] # f}

RemoveFile(f) ==
    /\ files' = [files EXCEPT ![f] = None]
    /\ UNCHANGED <<index, entries>>

(* Entries whose file is not there any more. *)
ForgetMissing ==
    entries' = [k \in Key |-> IF HasFile(k) THEN entries[k] ELSE None]

(* getStaleUrls and createRequests: a url is requested unless its entry is *)
(* valid, and then the entry's file is read instead.                       *)
ValidADayLonger(u, now) == HasEntry(u) /\ entries[u] + Day + 1 >= now    \* faulty
Valid(u, now) == HasEntry(u) /\ entries[u] + Day >= now

Requests(in, refreshAll, now) ==
    {i \in DOMAIN in : refreshAll \/ ~Valid(in[i], now)}

(* addEntry: the data first, the index afterwards. *)
WriteData(u, data) ==
    /\ files' = [files EXCEPT ![FileOf[EntryUrl[u]]] = data]
    /\ UNCHANGED <<index, entries>>

SetEntry(u, updated) == entries' = [entries EXCEPT ![EntryUrl[u]] = updated]
==============================================================================

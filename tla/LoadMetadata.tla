---------------------------- MODULE LoadMetadata ----------------------------
(***************************************************************************)
(* Loading the metadata of the configured repositories, as every command   *)
(* of soqute does when it starts: the cache is cleaned of what is not      *)
(* configured any more, valid entries are parsed from their files, the     *)
(* rest is requested, and each reply is saved and parsed as it arrives.    *)
(*                                                                         *)
(* A behaviour is a series of processes, one at a time.  Each may die      *)
(* between any two writes; what a process leaves on disk is the next one's *)
(* cache.  Between processes the configuration changes and time passes.    *)
(***************************************************************************)
EXTENDS Cache

CONSTANTS
    RepositoryLists,    \* the lists that get configured (duplicates happen)
    MaxTime,            \* bound: the clock stops there
    DiskFails           \* whether the file system may refuse a write or removal

ASSUME LoadMetadataAssumption ==
    /\ RepositoryLists \subseteq Seq(Url)
    /\ MaxTime \in Nat
    /\ DiskFails \in BOOLEAN

VARIABLES
    now,
    pc,             \* idle (no process), clean, request, parse, loop, save
    urls,           \* m_urls
    refreshAll,     \* the update command
    localfiles,     \* the indices in urls whose file is still to be parsed
    unanswered,     \* the indices in urls whose request has no reply yet
    saving,         \* the request whose data is written and index entry is not
    numRequests,    \* m_numRequests
    parsed,         \* history: what PackageList::parse was given, and when
    isDone,
    isSuccess,
    interrupted     \* history: a clean-up removed files and not their entries

processVars == <<urls, refreshAll, localfiles, unanswered, saving, numRequests,
                 parsed, isDone, isSuccess>>
vars == <<files, index, entries, now, pc, urls, refreshAll, localfiles, unanswered,
          saving, numRequests, parsed, isDone, isSuccess, interrupted>>

Parsed == [request : Nat, data : Data, at : Nat]

TypeOK ==
    /\ CacheTypeOK
    /\ now \in 0..MaxTime
    /\ pc \in {"idle", "clean", "request", "parse", "loop", "save"}
    /\ urls \in RepositoryLists \cup {<<>>}
    /\ refreshAll \in BOOLEAN
    /\ localfiles \subseteq DOMAIN urls
    /\ unanswered \subseteq DOMAIN urls
    /\ saving \in [request : DOMAIN urls, updated : Nat] \cup {None}
    /\ numRequests \in Nat
    /\ parsed \subseteq Parsed
    /\ isDone \in BOOLEAN
    /\ isSuccess \in BOOLEAN
    /\ interrupted \in BOOLEAN

Init ==
    /\ CacheInit
    /\ now = 0
    /\ pc = "idle"
    /\ urls = <<>>
    /\ refreshAll = FALSE
    /\ localfiles = {}
    /\ unanswered = {}
    /\ saving = None
    /\ numRequests = 0
    /\ parsed = {}
    /\ isDone = FALSE
    /\ isSuccess = TRUE
    /\ interrupted = FALSE

(* An entry of the index whose file is gone. *)
Broken == \E k \in Key : index[k] # None /\ ~HasFile(k)

-----------------------------------------------------------------------------
(* A process starts: the Cache is constructed, the list of repositories is *)
(* set and loadMetadata is called.                                         *)
Start(list, refresh) ==
    /\ pc = "idle"
    /\ pc' = "clean"
    /\ urls' = list
    /\ refreshAll' = refresh
    /\ ReadCacheFile
    /\ UNCHANGED <<files, index, now, localfiles, unanswered, saving, numRequests,
                   parsed, isDone, isSuccess, interrupted>>

PurgeEntry(k) ==
    /\ pc = "clean"
    /\ k \in Purgeable(urls)
    /\ HasFile(k)
    /\ RemoveEntry(k)
    /\ UNCHANGED <<now, pc, processVars, interrupted>>

PurgeFile(f) ==
    /\ pc = "clean"
    /\ Purgeable(urls) = {}
    /\ f \in UnknownFiles
    /\ RemoveFile(f)
    /\ UNCHANGED <<now, pc, processVars, interrupted>>

(* A file that is not there cannot be removed: cleanCache throws, loading  *)
(* is over, and the index is not written.                                  *)
CleanFails ==
    /\ pc = "clean"
    /\ DiskFails \/ \E k \in Purgeable(urls) : ~HasFile(k)
    /\ isSuccess' = FALSE
    /\ isDone' = TRUE
    /\ pc' = "loop"
    /\ interrupted' = (interrupted \/ Broken)
    /\ UNCHANGED <<cacheVars, now, urls, refreshAll, localfiles, unanswered, saving,
                   numRequests, parsed>>

Cleaned ==
    /\ pc = "clean"
    /\ Purgeable(urls) = {}
    /\ UnknownFiles = {}
    /\ ForgetMissing
    /\ WriteCacheFile
    /\ pc' = "request"
    /\ UNCHANGED <<files, now, processVars, interrupted>>

Counted == Requests(urls, refreshAll, now)

CreateRequests ==
    /\ pc = "request"
    /\ unanswered' = Requests(urls, refreshAll, now)
    /\ localfiles' = DOMAIN urls \ unanswered'
    /\ numRequests' = Cardinality(Counted)
    /\ pc' = "parse"
    /\ UNCHANGED <<cacheVars, now, urls, refreshAll, saving, parsed, isDone,
                   isSuccess, interrupted>>

-----------------------------------------------------------------------------
(* PackageList::parse(FS::read(filename)), for the i-th repository: either *)
(* may report an error.                                                    *)
Parse(i, k) ==
    LET data == files[FileOf[k]] IN
    \/ /\ data # None
       /\ parsed' = parsed \cup {[request |-> i, data |-> data, at |-> now]}
       /\ isSuccess' = (isSuccess /\ data.good)
    \/ /\ DiskFails \/ data = None
       /\ isSuccess' = FALSE
       /\ UNCHANGED parsed

ParseLocal(i) ==
    /\ pc = "parse"
    /\ i \in localfiles
    /\ \A j \in localfiles : i <= j
    /\ Parse(i, urls[i])
    /\ localfiles' = localfiles \ {i}
    /\ UNCHANGED <<cacheVars, now, pc, urls, refreshAll, unanswered, saving,
                   numRequests, isDone, interrupted>>

(* With nothing requested, loadMetadata is done before it returns. *)
AwaitReplies ==
    /\ pc = "parse"
    /\ localfiles = {}
    /\ isDone' = (numRequests = 0)
    /\ pc' = "loop"
    /\ UNCHANGED <<cacheVars, now, urls, refreshAll, localfiles, unanswered, saving,
                   numRequests, parsed, isSuccess, interrupted>>

-----------------------------------------------------------------------------
(* The end of networkFinished. *)
AnsweredUnlessFailed ==    \* faulty: returns early on an error
    IF isSuccess'
    THEN numRequests' = numRequests - 1 /\ isDone' = (numRequests' = 0)
    ELSE UNCHANGED <<numRequests, isDone>>
Answered == numRequests' = numRequests - 1 /\ isDone' = (numRequests' = 0)

(* networkError, then networkFinished of a failed reply; or addEntry could *)
(* not write the data.                                                     *)
NotReported == UNCHANGED isSuccess    \* faulty: networkError not connected
Reported == isSuccess' = FALSE

ReplyFails(i) ==
    /\ pc = "loop"
    /\ i \in unanswered
    /\ unanswered' = unanswered \ {i}
    /\ Reported
    /\ Answered
    /\ UNCHANGED <<cacheVars, now, pc, urls, refreshAll, localfiles, saving, parsed,
                   interrupted>>

(* networkFinished as far as addEntry's first write. *)
ReplySaved(i, good) ==
    /\ pc = "loop"
    /\ i \in unanswered
    /\ WriteData(urls[i], [url |-> urls[i], time |-> now, good |-> good])
    /\ unanswered' = unanswered \ {i}
    /\ saving' = [request |-> i, updated |-> now]
    /\ pc' = "save"
    /\ UNCHANGED <<now, urls, refreshAll, localfiles, numRequests, parsed, isDone,
                   isSuccess, interrupted>>

(* The rest of networkFinished: the entry, the index, and the parser. *)
EntrySaved ==
    /\ pc = "save"
    /\ SetEntry(urls[saving.request], saving.updated)
    /\ WriteCacheFile
    /\ Parse(saving.request, EntryUrl[urls[saving.request]])
    /\ saving' = None
    /\ Answered
    /\ pc' = "loop"
    /\ UNCHANGED <<files, now, urls, refreshAll, localfiles, unanswered, interrupted>>

IndexNotWritten ==
    /\ pc = "save"
    /\ DiskFails
    /\ SetEntry(urls[saving.request], saving.updated)
    /\ saving' = None
    /\ isSuccess' = FALSE
    /\ Answered
    /\ pc' = "loop"
    /\ UNCHANGED <<files, index, now, urls, refreshAll, localfiles, unanswered, parsed,
                   interrupted>>

-----------------------------------------------------------------------------
(* The process's memory is gone; a new one starts from Actor's and the     *)
(* counter's initial values.                                               *)
Gone ==
    /\ pc' = "idle"
    /\ urls' = <<>>
    /\ refreshAll' = FALSE
    /\ localfiles' = {}
    /\ unanswered' = {}
    /\ saving' = None
    /\ numRequests' = 0
    /\ parsed' = {}
    /\ isDone' = FALSE
    /\ isSuccess' = TRUE
    /\ entries' = [k \in Key |-> None]
    /\ UNCHANGED <<files, index, now>>

(* main leaves its loop; the rest of the command does not touch the cache. *)
CommandGoesOn ==
    /\ pc = "loop"
    /\ isDone
    /\ Gone
    /\ UNCHANGED interrupted

Crash ==
    /\ pc # "idle"
    /\ interrupted' = (interrupted \/ Broken)
    /\ Gone

(* Time passes between processes and while replies are waited for; no      *)
(* handler takes so long that it would matter to a Day.                    *)
Tick ==
    /\ pc \in {"idle", "loop"}
    /\ now < MaxTime
    /\ now' = now + 1
    /\ UNCHANGED <<cacheVars, pc, processVars, interrupted>>

MainStep ==
    \/ \E k \in Key : PurgeEntry(k)
    \/ \E f \in File : PurgeFile(f)
    \/ CleanFails
    \/ Cleaned
    \/ CreateRequests
    \/ \E i \in localfiles : ParseLocal(i)
    \/ AwaitReplies
    \/ EntrySaved
    \/ IndexNotWritten
    \/ CommandGoesOn

NetworkStep ==
    \E i \in unanswered :
        ReplyFails(i) \/ \E good \in BOOLEAN : ReplySaved(i, good)

Next ==
    \/ \E list \in RepositoryLists, refresh \in BOOLEAN : Start(list, refresh)
    \/ MainStep
    \/ NetworkStep
    \/ Crash
    \/ Tick

(* A started process goes on.  Nothing is assumed of the network, of the   *)
(* user or of the clock.                                                   *)
Spec == Init /\ [][Next]_vars /\ WF_vars(MainStep)

-----------------------------------------------------------------------------
(* No two repositories share a cache file: the name of the file has the    *)
(* host and the path of the url, and not its scheme, port or query.  Nor   *)
(* is a repository configured under the url of another one's entry.        *)
NamesDistinct ==
    /\ \A j, k \in Key : FileOf[j] = FileOf[k] => j = k
    /\ \A u, v \in Url : EntryUrl[u] = v => u = v

(* Whatever is parsed for a repository is that repository's own metadata,  *)
(* not more than a day old, whenever processes died or writes failed: the  *)
(* data is on disk before the index says so.                               *)
ParsesFreshData ==
    NamesDistinct =>
        \A r \in parsed :
            /\ r.data.url = urls[r.request]
            /\ r.data.time + Day >= r.at

(* Loading is done only when no reply is outstanding or half saved: the    *)
(* counter and the replies cannot get out of step.                         *)
DoneMeansAnswered == isDone => unanswered = {} /\ saving = None

(* When loading succeeds the metadata of every configured repository has   *)
(* been parsed without an error, once for each time it is configured.      *)
SuccessLoadsAll ==
    isDone /\ isSuccess =>
        /\ {r.request : r \in parsed} = DOMAIN urls
        /\ \A r \in parsed : r.data.good

(* cleanCache finds an entry to purge whose file is gone only after an     *)
(* earlier clean-up was cut short between a file and the index.            *)
CleanFailsOnlyAfterInterruption ==
    /\ NamesDistinct
    /\ pc = "clean"
    /\ \E k \in Purgeable(urls) : ~HasFile(k)
    => interrupted

(* Cleaning the cache leaves the data of configured repositories alone. *)
CleanKeepsListed ==
    [][NamesDistinct /\ pc = "clean" =>
          \A u \in ToSet(urls) :
              HasEntry(u) => files'[FileOf[u]] = files[FileOf[u]]]_vars

(* Every load ends, as long as the network answers every request. *)
LoadEnds == []<>(unanswered = {}) => (pc # "idle" ~> pc = "idle")

(* Once the cache has been cleaned no entry is left without its file, which *)
(* is what cleanCache's last loop says it does.  It does not hold: the loop *)
(* is never reached when the entry is of a repository that is not           *)
(* configured any more.                                                     *)
CleanForgetsMissing == pc = "loop" /\ isDone => ~Broken
=============================================================================

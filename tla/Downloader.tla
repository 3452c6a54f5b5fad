----------------------------- MODULE Downloader -----------------------------
(***************************************************************************)
(* One installation job: InstallCommandBase::installPackages constructs a  *)
(* Downloader for an ordered list of packages, calls downloadAndInstall()  *)
(* and then spins the Qt event loop until the Downloader is done.          *)
(*                                                                         *)
(* Two threads take part.  The MAIN thread runs every slot: the body of    *)
(* downloadAndInstall, QNetworkAccessManager's finished/sslErrors/         *)
(* authenticationRequired slots, the queued install slot of the            *)
(* JSInstaller (the JSInstaller object lives in the main thread although   *)
(* it is a QThread) and the queued finish slot.  The WORKER thread only    *)
(* runs the installer's event loop, and its end posts a finish event.      *)
(*                                                                         *)
(* The two loops that iterate over a QList while elements are removed from *)
(* it (the empty-url filter, abortNetworkRequests with its re-entrant      *)
(* networkDone) are one action per iteration.  QList::removeAll shifts the *)
(* elements left and lowers the end, while a range-for keeps the end it    *)
(* read at the start: the slots past the new end (stale) are still read.   *)
(***************************************************************************)
EXTENDS Naturals, Sequences, SequencesExt

CONSTANTS
    Package,        \* the packages a job can name (pointers: no duplicates)
    File,           \* names under <temp>/soqute/archives
    Jobs,           \* the lists a command may hand to the Downloader
    HasUrl,         \* packages with a non-empty url
    LocalUrl,       \* packages whose url is file:// (abort does not finish them)
    FileOf,         \* last component of the package's url
    Authenticates,  \* what AbstractAuthenticator::authenticate answers
    NoPackage       \* no install event is posted / nothing of this job in the file

Injective(s) == \A i, j \in DOMAIN s : s[i] = s[j] => i = j

ASSUME DownloaderAssumption ==
    /\ HasUrl \subseteq Package
    /\ LocalUrl \subseteq HasUrl
    /\ FileOf \in [HasUrl -> File]
    /\ Authenticates \in BOOLEAN
    /\ NoPackage \notin Package
    /\ Jobs \subseteq Seq(Package)
    /\ \A job \in Jobs : Injective(job)

VARIABLES
    job,            \* the list the command computed (never changes)
    toDownload,     \* m_packagesToDownload
    requested,      \* history: the packages get() was called for, in order
    unarrived,      \* m_unarrivedReplies, a reply named by its package
    refused,        \* replies that can only fail (TLS or credentials refused)
    arrived,        \* the keys of m_packagesToInstall
    archive,        \* each file of the archive directory: whose archive, and whole?
    cutShort,       \* history: a full disk cut an archive short that counts as saved
    installed,      \* packages recorded by setPackageInstalled, in order
    installEvent,   \* the posted installPackage(package, file) call
    worker,         \* the installer thread: running, exiting, finished
    finishEvent,    \* the posted finished -> finish call
    isDone,         \* Actor::m_isDone
    isSuccess,      \* Actor::m_isSuccess
    main,           \* what the main thread executes: filter, abort, loop
    cursor,         \* the range-for's position in the list it iterates over
    stale,          \* the slots between the list's end and the range-for's
    command         \* running, returned, threw, crashed

jobVars     == <<job, toDownload, requested>>
networkVars == <<unarrived, refused, arrived, archive, cutShort>>
installVars == <<installed, installEvent, worker, finishEvent>>
actorVars   == <<isDone, isSuccess>>
loopVars    == <<main, cursor, stale>>
vars == <<job, toDownload, requested, unarrived, refused, arrived, archive,
          cutShort, installed, installEvent, worker, finishEvent, isDone,
          isSuccess, main, cursor, stale, command>>

(* What a file of the archive directory holds: all or the beginning of an  *)
(* archive this job saved, or what was there before (of = NoPackage).      *)
Saved == [of : Package \cup {NoPackage}, whole : BOOLEAN]

TypeOK ==
    /\ job \in Jobs
    /\ toDownload \in Seq(Package)
    /\ requested \in Seq(Package)
    /\ unarrived \in Seq(Package)
    /\ refused \subseteq Package
    /\ arrived \subseteq Package
    /\ archive \in [File -> Saved]
    /\ cutShort \in BOOLEAN
    /\ installed \in Seq(Package)
    /\ installEvent \in Package \cup {NoPackage}
    /\ worker \in {"running", "exiting", "finished"}
    /\ finishEvent \in BOOLEAN
    /\ isDone \in BOOLEAN
    /\ isSuccess \in BOOLEAN
    /\ main \in {"filter", "abort", "loop"}
    /\ cursor \in Nat \ {0}
    /\ stale \in Seq(Package)
    /\ command \in {"running", "returned", "threw", "crashed"}

-----------------------------------------------------------------------------
(* The constructor started the worker; downloadAndInstall() was called and *)
(* is about to filter its list.  Nothing of the job is installed: the      *)
(* command removed the installed packages from it.  The archive directory  *)
(* is shared by all jobs and never cleaned: a file may hold what an earlier *)
(* job left, which nothing says is whole.                                  *)
Init ==
    /\ job \in Jobs
    /\ toDownload = job
    /\ requested = <<>>
    /\ unarrived = <<>>
    /\ refused = {}
    /\ arrived = {}
    /\ archive = [f \in File |-> [of |-> NoPackage, whole |-> FALSE]]
    /\ cutShort = FALSE
    /\ installed = <<>>
    /\ installEvent = NoPackage
    /\ worker = "running"
    /\ finishEvent = FALSE
    /\ isDone = FALSE
    /\ isSuccess = TRUE
    /\ main = "filter"
    /\ cursor = 1
    /\ stale = <<>>
    /\ command = "running"

(* The command destroys the Downloader, and with it every posted event, *)
(* when it leaves its loop.                                             *)
Running(control) == command = "running" /\ main = control

(* A range-for over a list reads the slot at its cursor until it reaches   *)
(* the end it read at the start; removeAll shifts the elements after the   *)
(* removed one and leaves the last slot as it was, past the list's end.    *)
Slots(list) == list \o stale
Iterating(list) == cursor <= Len(Slots(list))
Slot(list) == Slots(list)[cursor]

Advance == cursor' = cursor + 1

LeaveAtZero == main' = "loop" /\ cursor' = 0 /\ stale' = <<>>    \* faulty
LeaveLoop == main' = "loop" /\ cursor' = 1 /\ stale' = <<>>

-----------------------------------------------------------------------------
(* One iteration of `for (package : m_packagesToDownload)`: a package     *)
(* without url is removed from the list the loop is iterating over.       *)
FilterKeeps ==
    /\ Running("filter")
    /\ Iterating(toDownload)
    /\ Slot(toDownload) \in HasUrl \/ Slot(toDownload) \notin ToSet(toDownload)
    /\ Advance
    /\ UNCHANGED <<jobVars, networkVars, installVars, actorVars, main, stale, command>>

FilterRemoves(i) ==
    /\ Running("filter")
    /\ Iterating(toDownload)
    /\ toDownload[i] = Slot(toDownload)
    /\ toDownload[i] \notin HasUrl
    /\ toDownload' = RemoveAt(toDownload, i)
    /\ stale' = <<toDownload[Len(toDownload)]>> \o stale
    /\ Advance
    /\ UNCHANGED <<job, requested, networkVars, installVars, actorVars, main, command>>

(* NothingToDo: the function returns, and no event is left to arrive. *)
NothingToDo ==
    /\ Running("filter")
    /\ ~Iterating(toDownload)
    /\ toDownload = <<>>
    /\ LeaveLoop
    /\ UNCHANGED <<jobVars, networkVars, installVars, actorVars, command>>

(* FetchingPackages: one get() for each package left in the list. *)
ToFetch == toDownload

FetchPackages ==
    /\ Running("filter")
    /\ ~Iterating(toDownload)
    /\ toDownload # <<>>
    /\ requested' = ToFetch
    /\ unarrived' = ToFetch
    /\ LeaveLoop
    /\ UNCHANGED <<job, toDownload, refused, arrived, archive, cutShort, installVars,
                   actorVars, command>>

-----------------------------------------------------------------------------
(* The network refuses a reply before it finishes it.  Neither TLS errors *)
(* nor a refused login end the request here, but both count as errors,    *)
(* and the reply that follows is an error.                                *)
Refuse(p) ==
    /\ Running("loop")
    /\ p \in (ToSet(unarrived) \cap HasUrl) \ (LocalUrl \cup refused)
    /\ isSuccess' = FALSE
    /\ refused' = refused \cup {p}
    /\ UNCHANGED <<jobVars, unarrived, arrived, archive, cutShort, installVars, isDone,
                   loopVars, command>>

SslErrors(p) == Refuse(p)
AuthenticationNeeded(p) == ~Authenticates /\ Refuse(p)

(* Where networkDone saves the archive of p. *)
SharedArchiveFile(p) == FileOf[CHOOSE q \in HasUrl : TRUE]    \* faulty
ArchiveFile(p) == FileOf[p]

(* takeFirst, and a queued call of JSInstaller::install. *)
InstallLastPackage ==    \* faulty: takeLast
    installEvent' = Last(toDownload) /\ toDownload' = Front(toDownload)
InstallNextPackage ==
    installEvent' = Head(toDownload) /\ toDownload' = Tail(toDownload)

(* The end of networkDone: after the last reply the installation starts, *)
(* or, if anything failed before, the Downloader is done.                *)
AfterReplyAlwaysInstalls ==    \* faulty: isSuccess not asked
    IF unarrived' = <<>>
    THEN InstallNextPackage /\ UNCHANGED isDone
    ELSE UNCHANGED <<toDownload, installEvent, isDone>>

AfterReplyNotWaiting ==    \* faulty: done at the first error
    IF isSuccess'
    THEN AfterReplyAlwaysInstalls
    ELSE isDone' = TRUE /\ UNCHANGED <<toDownload, installEvent>>

AfterReply ==
    \/ /\ unarrived' # <<>>
       /\ UNCHANGED <<toDownload, installEvent, isDone>>
    \/ /\ unarrived' = <<>>
       /\ isSuccess'
       /\ InstallNextPackage
       /\ UNCHANGED isDone
    \/ /\ unarrived' = <<>>
       /\ ~isSuccess'
       /\ isDone' = TRUE
       /\ UNCHANGED <<toDownload, installEvent>>

(* networkDone of an error reply. *)
NetworkError(i) ==
    /\ unarrived' = RemoveAt(unarrived, i)
    /\ isSuccess' = FALSE
    /\ AfterReply
    /\ UNCHANGED <<arrived, archive, cutShort, loopVars>>

(* saveToFile truncates the file, writes and closes it, and returns true   *)
(* whatever write and close return: with a full disk the file keeps only   *)
(* the beginning of the archive.                                           *)
SaveToFile(p) ==
    \/ /\ archive' = [archive EXCEPT ![ArchiveFile(p)] = [of |-> p, whole |-> TRUE]]
       /\ UNCHANGED cutShort
    \/ /\ archive' = [archive EXCEPT ![ArchiveFile(p)] = [of |-> p, whole |-> FALSE]]
       /\ cutShort' = TRUE

(* networkDone of a received archive whose file could be opened: it counts *)
(* as saved.                                                               *)
ReceivedArchive(i) ==
    LET p == unarrived[i] IN
    /\ p \in HasUrl \ refused
    /\ unarrived' = RemoveAt(unarrived, i)
    /\ SaveToFile(p)
    /\ arrived' = arrived \cup {p}
    /\ UNCHANGED <<isSuccess, loopVars>>
    /\ AfterReply

(* networkDone of a received archive whose file cannot be opened: the other *)
(* requests are aborted, from inside the handler.                           *)
ArchiveSaveError(i) ==
    /\ unarrived[i] \in HasUrl \ refused
    /\ unarrived' = RemoveAt(unarrived, i)
    /\ isSuccess' = FALSE
    /\ main' = "abort"
    /\ UNCHANGED <<toDownload, arrived, archive, cutShort, installEvent, isDone, cursor,
                   stale>>

NetworkDone(i) ==
    /\ Running("loop")
    /\ NetworkError(i) \/ ReceivedArchive(i) \/ ArchiveSaveError(i)
    /\ UNCHANGED <<job, requested, refused, installed, worker, finishEvent, command>>

(* One iteration of abortNetworkRequests.  Aborting an HTTP reply emits    *)
(* finished at once: networkDone runs inside the loop, with an error, and  *)
(* takes the reply out of the list being iterated over.                    *)
AbortReply(i) ==
    /\ Running("abort")
    /\ Iterating(unarrived)
    /\ unarrived[i] = Slot(unarrived)
    /\ unarrived[i] \notin LocalUrl
    /\ unarrived' = RemoveAt(unarrived, i)
    /\ stale' = <<unarrived[Len(unarrived)]>> \o stale
    /\ isSuccess' = FALSE
    /\ isDone' = (isDone \/ unarrived' = <<>>)
    /\ Advance
    /\ UNCHANGED <<jobVars, refused, arrived, archive, cutShort, installVars, main, command>>

(* A file:// reply whose finished signal is posted already, or a reply that *)
(* was aborted before, is left alone.                                       *)
AbortSkips ==
    /\ Running("abort")
    /\ Iterating(unarrived)
    /\ Slot(unarrived) \in LocalUrl \/ Slot(unarrived) \notin ToSet(unarrived)
    /\ Advance
    /\ UNCHANGED <<jobVars, networkVars, installVars, actorVars, main, stale, command>>

(* The rest of the outer networkDone. *)
AbortDone ==
    /\ Running("abort")
    /\ ~Iterating(unarrived)
    /\ LeaveLoop
    /\ isDone' = (isDone \/ unarrived = <<>>)
    /\ UNCHANGED <<jobVars, networkVars, installVars, isSuccess, command>>

-----------------------------------------------------------------------------
(* QThread::finished is connected to finish, through the event queue. *)
FinishNotConnected == UNCHANGED finishEvent    \* faulty
PostFinish == finishEvent' = TRUE

(* After the last package: the worker is stopped and waited for. *)
QuitAndWait == worker' = "finished" /\ PostFinish

(* JSInstaller::install ran to its end: installPackageEnd records the      *)
(* package and posts the next one, or stops the worker and finishes.       *)
Installed ==
    /\ Running("loop")
    /\ installEvent \in arrived
    /\ installed' = Append(installed, installEvent)
    /\ \/ /\ toDownload # <<>>
          /\ InstallNextPackage
          /\ UNCHANGED <<worker, finishEvent, isDone>>
       \/ /\ toDownload = <<>>
          /\ installEvent' = NoPackage
          /\ QuitAndWait
          /\ isDone' = TRUE
          /\ UNCHANGED toDownload
    /\ UNCHANGED <<job, requested, networkVars, isSuccess, loopVars, command>>

(* One of install's error exits: a bad archive, no install.js, a script    *)
(* error, a directory that cannot be created.  The worker is told to exit. *)
GoOn == toDownload # <<>> /\ InstallNextPackage /\ UNCHANGED worker    \* faulty
GiveUp == installEvent' = NoPackage /\ worker' = "exiting" /\ UNCHANGED toDownload

InstallError ==
    /\ Running("loop")
    /\ installEvent # NoPackage
    /\ isSuccess' = FALSE
    /\ GiveUp
    /\ UNCHANGED <<job, requested, networkVars, installed, finishEvent, isDone,
                   loopVars, command>>

(* An archive without remove.js: install calls copyTo on a null entry after *)
(* the script has run.                                                      *)
InstallCrashes ==
    /\ Running("loop")
    /\ installEvent \in arrived
    /\ command' = "crashed"
    /\ UNCHANGED <<jobVars, networkVars, installVars, actorVars, loopVars>>

(* The worker's event loop returns. *)
WorkerEnds ==
    /\ command = "running"
    /\ worker = "exiting"
    /\ worker' = "finished"
    /\ PostFinish
    /\ UNCHANGED <<jobVars, networkVars, installed, installEvent, actorVars,
                   loopVars, command>>

Finish ==
    /\ Running("loop")
    /\ finishEvent
    /\ finishEvent' = FALSE
    /\ isDone' = TRUE
    /\ UNCHANGED <<jobVars, networkVars, installed, installEvent, worker,
                   isSuccess, loopVars, command>>

(* The command leaves `while (!downloader.isDone())`, and throws unless the *)
(* Downloader succeeded.                                                    *)
CommandEnds ==
    /\ Running("loop")
    /\ isDone
    /\ command' = IF isSuccess THEN "returned" ELSE "threw"
    /\ UNCHANGED <<jobVars, networkVars, installVars, actorVars, loopVars>>

-----------------------------------------------------------------------------
MainStep ==
    \/ FilterKeeps
    \/ \E i \in DOMAIN toDownload : FilterRemoves(i)
    \/ NothingToDo
    \/ FetchPackages
    \/ AbortSkips
    \/ \E i \in DOMAIN unarrived : AbortReply(i)
    \/ AbortDone
    \/ Installed
    \/ InstallError
    \/ InstallCrashes
    \/ Finish
    \/ CommandEnds

NetworkStep ==
    \/ \E i \in DOMAIN unarrived : NetworkDone(i)
    \/ \E p \in Package : SslErrors(p) \/ AuthenticationNeeded(p)

Next == MainStep \/ NetworkStep \/ WorkerEnds

(* The event loop is polled until the Downloader is done, so that the main *)
(* thread's loops go on and every posted event is delivered; the operating *)
(* system runs the worker.  Nothing is assumed of the network: no request  *)
(* has a timeout.                                                          *)
Fairness == WF_vars(MainStep) /\ WF_vars(WorkerEnds)

Spec == Init /\ [][Next]_vars /\ Fairness

-----------------------------------------------------------------------------
(* Installation begins only when every archive of the job has arrived and  *)
(* saveToFile said it saved it (which a full disk does not stop it from    *)
(* saying): networkDone starts it from the last reply, and only if no      *)
(* handler of any reply reported an error.                                 *)
InstallsOnlyCompleteDownloads ==
    (installed # <<>> \/ installEvent # NoPackage) =>
        /\ unarrived = <<>>
        /\ arrived = ToSet(requested)

(* The Downloader calls itself done only when no request is outstanding,   *)
(* so that the command never destroys it under a reply, although finish()  *)
(* is reached from networkDone, from networkDone nested in an abort loop,  *)
(* from the last installPackageEnd and from the worker's end.              *)
DoneMeansAnswered == isDone => unarrived = <<>>

(* s has elements of list, in the order that list has them, none of them   *)
(* more often than there.                                                  *)
InOrderOf(s, list) ==
    /\ ToSet(s) \subseteq ToSet(list)
    /\ \A i, j \in DOMAIN s : i < j =>
           \E k, l \in DOMAIN list : k < l /\ list[k] = s[i] /\ list[l] = s[j]

(* A job that ends without an exception has recorded exactly the packages  *)
(* of the job that have an url, in the job's order.                        *)
SuccessIsComplete ==
    isDone /\ isSuccess =>
        /\ ToSet(installed) = ToSet(job) \cap HasUrl
        /\ InOrderOf(installed, job)

(* The installer's worker thread outlives the job only when the download   *)
(* failed before anything was installed; otherwise it has ended before the *)
(* job is done.                                                            *)
WorkerEndsFirst ==
    isDone => \/ worker = "finished"
              \/ worker = "running" /\ installed = <<>> /\ ~isSuccess

(* Once anything has failed nothing more is recorded as installed, and the *)
(* failure is never forgotten.                                             *)
FailureIsFinal ==
    [][~isSuccess => /\ UNCHANGED installed
                     /\ ~isSuccess']_vars

(* A package is recorded only while the file it was installed from holds   *)
(* an archive this job fetched, never what an earlier job left there: its  *)
(* own archive, or that of another package of the job whose url ends in    *)
(* the same name and that came later; and all of it, unless a write of     *)
(* this job met a full disk, which nobody was told of.                     *)
OwnArchive ==
    [][\A p \in ToSet(installed') \ ToSet(installed) :
          LET held == archive[ArchiveFile(p)] IN
          /\ held.of \in arrived
          /\ FileOf[held.of] = FileOf[p]
          /\ held.whole \/ cutShort]_vars

(* A job with something to fetch ends once the network has answered (or    *)
(* the process has died): no interleaving of replies, aborts, installation *)
(* errors and the worker's end leaves the command in its loop.             *)
EndsOnceAnswered ==
    ToSet(job) \cap HasUrl # {} /\ <>[](unarrived = <<>>)
        => <>(command # "running")

-----------------------------------------------------------------------------
(* The promise the Downloader keeps. *)
Phase ==
    IF ~isSuccess \/ command = "crashed" THEN "failed"
    ELSE IF isDone THEN "succeeded"
    ELSE IF installEvent # NoPackage THEN "installing"
    ELSE IF requested = <<>> THEN "planning"
    ELSE "fetching"

Promise == INSTANCE InstallJob WITH plan <- requested, phase <- Phase

(* Every step of the Downloader is a step of an InstallJob or none. *)
KeepsPromise == Promise!Spec
=============================================================================

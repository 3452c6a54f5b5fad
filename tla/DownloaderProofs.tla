-------------------------- MODULE DownloaderProofs --------------------------
(***************************************************************************)
(* Proofs about the Downloader, for every set of packages and every list   *)
(* of jobs.  IInv is the inductive invariant: it says, for each phase of a *)
(* job (before the requests, while replies are outstanding, while packages *)
(* are installed, after the worker was stopped), what the other parts of   *)
(* the state are.                                                          *)
(***************************************************************************)
EXTENDS Downloader, SequenceTheorems, TLAPS

BeforeRequests ==
    /\ main = "filter" => requested = <<>>
    /\ requested = <<>> =>
          /\ unarrived = <<>> /\ arrived = {}
          /\ installed = <<>> /\ installEvent = NoPackage
          /\ ~isDone /\ isSuccess
          /\ worker = "running" /\ ~finishEvent
          /\ main # "abort"
          /\ main = "loop" => toDownload = <<>>

WhileFetching ==
    /\ unarrived # <<>> \/ main = "abort" =>
          /\ toDownload = requested
          /\ installed = <<>> /\ installEvent = NoPackage
          /\ worker = "running" /\ ~finishEvent
    /\ main = "abort" => ~isSuccess
    /\ isSuccess => arrived \cup ToSet(unarrived) = ToSet(requested)

WhileInstalling ==
    installEvent # NoPackage =>
        /\ unarrived = <<>> /\ main = "loop"
        /\ isSuccess /\ ~isDone
        /\ worker = "running" /\ ~finishEvent
        /\ requested = installed \o <<installEvent>> \o toDownload

AfterWorker ==
    /\ finishEvent => worker = "finished"
    /\ worker # "running" =>
          /\ unarrived = <<>> /\ main = "loop"
          /\ installEvent = NoPackage
          /\ isSuccess => isDone /\ worker = "finished"

SuccessInstallsRequest == isDone /\ isSuccess => installed = requested

IInv ==
    /\ TypeOK
    /\ BeforeRequests
    /\ WhileFetching
    /\ WhileInstalling
    /\ AfterWorker
    /\ SuccessInstallsRequest
    /\ InstallsOnlyCompleteDownloads
    /\ DoneMeansAnswered
    /\ WorkerEndsFirst

-----------------------------------------------------------------------------
(* Removing the i-th element of a list moves up those behind it, *)
LEMMA RemoveAtElements ==
    ASSUME NEW S, NEW s \in Seq(S), NEW i \in DOMAIN s
    PROVE  /\ RemoveAt(s, i) \in Seq(S) /\ Len(RemoveAt(s, i)) = Len(s) - 1
           /\ \A j \in 1..(Len(s) - 1) : RemoveAt(s, i)[j] = IF j < i THEN s[j] ELSE s[j + 1]
<1> DEFINE r == RemoveAt(s, i)
           a == SubSeq(s, 1, i - 1)
           b == SubSeq(s, i + 1, Len(s))
<1>1. /\ i \in 1..Len(s) /\ Len(s) \in Nat
  OBVIOUS
<1>2. /\ a \in Seq(S) /\ Len(a) = i - 1
      /\ \A j \in 1..(i - 1) : a[j] = s[j]
  BY <1>1
<1>3. /\ b \in Seq(S) /\ Len(b) = Len(s) - i
      /\ \A j \in 1..(Len(s) - i) : b[j] = s[i + j]
  BY <1>1
<1>4. /\ r \in Seq(S) /\ Len(r) = Len(s) - 1
      /\ \A j \in 1..(Len(s) - 1) : r[j] = IF j < i THEN s[j] ELSE s[j + 1]
  <2>1. r = a \o b
    BY DEF RemoveAt
  <2> HIDE DEF r, a, b
  <2>0. /\ a \o b \in Seq(S) /\ Len(a \o b) = Len(a) + Len(b)
        /\ \A j \in 1..(Len(a) + Len(b)) :
              (a \o b)[j] = IF j <= Len(a) THEN a[j] ELSE b[j - Len(a)]
    BY <1>2, <1>3, ConcatProperties
  <2>2. r \in Seq(S) /\ Len(r) = Len(a) + Len(b)
    BY <2>0, <2>1
  <2>3. ASSUME NEW j \in 1..(Len(s) - 1)
        PROVE  r[j] = IF j < i THEN s[j] ELSE s[j + 1]
    <3>1. r[j] = IF j <= Len(a) THEN a[j] ELSE b[j - Len(a)]
      <4>1. j \in 1..(Len(a) + Len(b))
        BY <1>1, <1>2, <1>3
      <4> QED
        BY <2>0, <2>1, <4>1
    <3>2. CASE j < i
      BY <1>1, <1>2, <3>1, <3>2
    <3>3. CASE j >= i
      <4>1. j - (i - 1) \in 1..(Len(s) - i) /\ i + (j - (i - 1)) = j + 1
        BY <1>1, <3>3
      <4> DEFINE k == j - (i - 1)
      <4>2. k \in 1..(Len(s) - i) /\ i + k = j + 1
        BY <4>1
      <4>3. r[j] = b[k]
        BY <1>1, <1>2, <3>1, <3>3
      <4> HIDE DEF k
      <4>4. b[k] = s[j + 1]
        BY <1>3, <4>2
      <4> QED
        BY <1>1, <3>3, <4>3, <4>4
    <3> QED
      BY <1>1, <3>2, <3>3
  <2> QED
    BY <1>1, <1>2, <1>3, <2>2, <2>3
<1> QED
  BY <1>4

(* and leaves a list of the other elements. *)
LEMMA RemoveAtProperties ==
    ASSUME NEW S, NEW s \in Seq(S), NEW i \in DOMAIN s
    PROVE  /\ RemoveAt(s, i) \in Seq(S)
           /\ ToSet(RemoveAt(s, i)) \cup {s[i]} = ToSet(s)
<1> DEFINE r == RemoveAt(s, i)
<1>1. /\ i \in 1..Len(s) /\ Len(s) \in Nat
  OBVIOUS
<1>4. /\ r \in Seq(S) /\ Len(r) = Len(s) - 1
      /\ \A j \in 1..(Len(s) - 1) : r[j] = IF j < i THEN s[j] ELSE s[j + 1]
  BY RemoveAtElements
<1> HIDE DEF r
<1>5. ASSUME NEW x \in ToSet(s), x # s[i] PROVE x \in ToSet(r)
  <2>1. PICK k \in 1..Len(s) : x = s[k]
    BY <1>5 DEF ToSet
  <2>2. CASE k < i
    <3>1. k \in 1..(Len(s) - 1) /\ r[k] = x
      BY <1>1, <1>4, <2>1, <2>2
    <3> QED
      BY <1>4, <3>1 DEF ToSet
  <2>3. CASE k > i
    <3>1. k - 1 \in 1..(Len(s) - 1) /\ r[k - 1] = x
      BY <1>1, <1>4, <2>1, <2>3
    <3> QED
      BY <1>4, <3>1 DEF ToSet
  <2> QED
    BY <1>1, <1>5, <2>1, <2>2, <2>3
<1>6. ASSUME NEW x \in ToSet(r) PROVE x \in ToSet(s)
  <2>1. PICK k \in 1..(Len(s) - 1) : x = r[k]
    BY <1>4, <1>6 DEF ToSet
  <2>2. x = s[k] \/ x = s[k + 1]
    BY <1>4, <2>1
  <2> QED
    BY <1>1, <2>1, <2>2 DEF ToSet
<1>7. s[i] \in ToSet(s)
  BY <1>1 DEF ToSet
<1> QED
  BY <1>4, <1>5, <1>6, <1>7 DEF r
-----------------------------------------------------------------------------
USE DEF vars, jobVars, networkVars, installVars, actorVars, loopVars

LEMMA InitIInv == Init => IInv
<1> SUFFICES ASSUME Init PROVE IInv
  OBVIOUS
<1>1. TypeOK
  <2>1. job \in Seq(Package) /\ <<>> \in Seq(Package)
    BY DownloaderAssumption DEF Init
  <2>2. archive \in [File -> Saved] /\ cutShort \in BOOLEAN
    BY DEF Init, Saved
  <2>3. toDownload \in Seq(Package) /\ requested \in Seq(Package) /\ unarrived \in Seq(Package)
        /\ installed \in Seq(Package) /\ stale \in Seq(Package)
    BY <2>1 DEF Init
  <2>4. /\ refused \subseteq Package /\ arrived \subseteq Package
        /\ cursor \in Nat \ {0} /\ installEvent \in Package \cup {NoPackage}
    BY DEF Init
  <2>5. isDone \in BOOLEAN /\ isSuccess \in BOOLEAN /\ finishEvent \in BOOLEAN
    BY Zenon DEF Init
  <2>6. /\ main \in {"filter", "abort", "loop"}
        /\ worker \in {"running", "exiting", "finished"}
        /\ command \in {"running", "returned", "threw", "crashed"}
        /\ job \in Jobs
    BY DEF Init
  <2> QED
    BY <2>2, <2>3, <2>4, <2>5, <2>6 DEF TypeOK
<1>2. BeforeRequests
  BY DEF Init, BeforeRequests
<1>3. WhileFetching
  BY DEF Init, WhileFetching, ToSet
<1> QED
  BY <1>1, <1>2, <1>3 DEF Init, IInv, WhileInstalling, AfterWorker, SuccessInstallsRequest,
     InstallsOnlyCompleteDownloads, DoneMeansAnswered, WorkerEndsFirst

LEMMA IInvFilterKeeps == IInv /\ FilterKeeps => IInv'
BY DownloaderAssumption, SMT DEF FilterKeeps, Advance, Running, IInv, TypeOK, BeforeRequests, WhileFetching, WhileInstalling, AfterWorker, SuccessInstallsRequest, InstallsOnlyCompleteDownloads, DoneMeansAnswered, WorkerEndsFirst

LEMMA IInvFilterRemoves ==
    ASSUME IInv, NEW i \in DOMAIN toDownload, FilterRemoves(i) PROVE IInv'
<1>1. TypeOK'
  <2>1. RemoveAt(toDownload, i) \in Seq(Package)
    BY RemoveAtProperties DEF IInv, TypeOK
  <2>2. toDownload[Len(toDownload)] \in Package
    BY DEF IInv, TypeOK
  <2>3. stale' \in Seq(Package)
    BY <2>2 DEF FilterRemoves, IInv, TypeOK
  <2> QED
    BY <2>1, <2>3 DEF FilterRemoves, Advance, IInv, TypeOK
<1>2. /\ main = "filter"
      /\ UNCHANGED <<job, requested, networkVars, installVars, actorVars, main, command>>
  BY DEF FilterRemoves, Running
<1>3. requested = <<>>
  BY <1>2 DEF IInv, BeforeRequests
<1>4. BeforeRequests' /\ WhileFetching' /\ WhileInstalling' /\ AfterWorker'
  BY <1>2, <1>3 DEF IInv, BeforeRequests, WhileFetching, WhileInstalling, AfterWorker, ToSet
<1> QED
  BY <1>1, <1>2, <1>4 DEF IInv, SuccessInstallsRequest, InstallsOnlyCompleteDownloads,
     DoneMeansAnswered, WorkerEndsFirst, ToSet

LEMMA IInvNothingToDo == IInv /\ NothingToDo => IInv'
BY DownloaderAssumption, SMT DEF NothingToDo, LeaveLoop, Running, IInv, TypeOK, BeforeRequests, WhileFetching, WhileInstalling, AfterWorker, SuccessInstallsRequest, InstallsOnlyCompleteDownloads, DoneMeansAnswered, WorkerEndsFirst

LEMMA IInvFetchPackages == IInv /\ FetchPackages => IInv'
BY DownloaderAssumption, SMT DEF FetchPackages, ToFetch, LeaveLoop, Running, IInv, TypeOK, BeforeRequests, WhileFetching, WhileInstalling, AfterWorker, SuccessInstallsRequest, InstallsOnlyCompleteDownloads, DoneMeansAnswered, WorkerEndsFirst

LEMMA IInvAbortSkips == IInv /\ AbortSkips => IInv'
BY DownloaderAssumption, SMT DEF AbortSkips, Advance, Running, IInv, TypeOK, BeforeRequests, WhileFetching, WhileInstalling, AfterWorker, SuccessInstallsRequest, InstallsOnlyCompleteDownloads, DoneMeansAnswered, WorkerEndsFirst

LEMMA IInvAbortReply ==
    ASSUME IInv, NEW i \in DOMAIN unarrived, AbortReply(i) PROVE IInv'
<1>1. /\ main = "abort" /\ unarrived # <<>> /\ ~isSuccess /\ ~isDone
      /\ installed = <<>> /\ installEvent = NoPackage /\ requested # <<>>
      /\ worker = "running" /\ ~finishEvent
  BY DEF AbortReply, Running, IInv, TypeOK, BeforeRequests, WhileFetching, DoneMeansAnswered
<1>2. /\ UNCHANGED <<job, toDownload, requested, refused, arrived, archive, cutShort,
                     installed, installEvent, worker, finishEvent, main, command>>
      /\ isSuccess' = FALSE
      /\ isDone' => unarrived' = <<>>
  BY <1>1 DEF AbortReply
<1>3. TypeOK'
  <2>1. unarrived' \in Seq(Package)
    BY RemoveAtProperties DEF AbortReply, IInv, TypeOK
  <2>2. unarrived[Len(unarrived)] \in Package
    BY DEF IInv, TypeOK
  <2>3. stale' \in Seq(Package)
    BY <2>2 DEF AbortReply, IInv, TypeOK
  <2>4. cursor' \in Nat \ {0} /\ isDone' \in BOOLEAN
    BY DEF AbortReply, Advance, IInv, TypeOK
  <2> QED
    BY <1>2, <2>1, <2>3, <2>4 DEF IInv, TypeOK
<1>4. BeforeRequests' /\ WhileFetching'
  BY <1>1, <1>2 DEF IInv, BeforeRequests, WhileFetching
<1> QED
  BY <1>1, <1>2, <1>3, <1>4 DEF IInv, WhileInstalling, AfterWorker, SuccessInstallsRequest,
     InstallsOnlyCompleteDownloads, DoneMeansAnswered, WorkerEndsFirst

LEMMA IInvAbortDone == IInv /\ AbortDone => IInv'
BY DownloaderAssumption, SMT DEF AbortDone, LeaveLoop, Running, IInv, TypeOK, BeforeRequests, WhileFetching, WhileInstalling, AfterWorker, SuccessInstallsRequest, InstallsOnlyCompleteDownloads, DoneMeansAnswered, WorkerEndsFirst

LEMMA IInvInstalled == IInv /\ Installed => IInv'
<1> SUFFICES ASSUME IInv, Installed PROVE IInv'
  OBVIOUS
<1> USE DEF Installed, Running
<1>1. /\ installEvent \in Package /\ installEvent # NoPackage
      /\ unarrived = <<>> /\ isSuccess /\ ~isDone /\ requested # <<>>
      /\ worker = "running" /\ ~finishEvent
      /\ requested = installed \o <<installEvent>> \o toDownload
      /\ arrived = ToSet(requested)
  BY DownloaderAssumption DEF IInv, TypeOK, BeforeRequests, WhileInstalling,
     InstallsOnlyCompleteDownloads
<1>2. /\ installed \in Seq(Package) /\ toDownload \in Seq(Package)
      /\ installed' = installed \o <<installEvent>>
      /\ installed' \in Seq(Package)
  BY <1>1 DEF IInv, TypeOK
<1>3. UNCHANGED <<job, requested, unarrived, refused, arrived, archive, cutShort,
                  isSuccess, main, cursor, stale, command>> /\ main = "loop"
  OBVIOUS
<1>4. CASE toDownload # <<>>
  <2>1. /\ installEvent' = Head(toDownload) /\ toDownload' = Tail(toDownload)
        /\ UNCHANGED <<worker, finishEvent, isDone>>
    BY <1>4 DEF InstallNextPackage
  <2>2. /\ Head(toDownload) \in Package /\ Tail(toDownload) \in Seq(Package)
        /\ toDownload = <<Head(toDownload)>> \o Tail(toDownload)
    BY <1>2, <1>4
  <2>3. TypeOK'
    BY <1>2, <1>3, <2>1, <2>2 DEF IInv, TypeOK
  <2>4. requested' = installed' \o <<installEvent'>> \o toDownload'
    <3>1. requested = installed' \o (<<Head(toDownload)>> \o Tail(toDownload))
      BY <1>1, <1>2, <2>2
    <3>2. <<Head(toDownload)>> \in Seq(Package)
      BY <2>2
    <3>3. requested = (installed' \o <<Head(toDownload)>>) \o Tail(toDownload)
      BY <1>2, <2>2, <3>1, <3>2, ConcatAssociative
    <3> QED
      BY <1>3, <2>1, <3>3
  <2>5. BeforeRequests' /\ WhileFetching'
    BY <1>1, <1>3, <2>1 DEF IInv, BeforeRequests, WhileFetching, ToSet
  <2>6. WhileInstalling' /\ AfterWorker'
    <3>1. /\ unarrived' = <<>> /\ main' = "loop" /\ isSuccess' /\ ~isDone'
          /\ worker' = "running" /\ ~finishEvent'
      BY <1>1, <1>3, <2>1
    <3> QED
      BY <2>4, <3>1 DEF WhileInstalling, AfterWorker
  <2>7. InstallsOnlyCompleteDownloads'
    BY <1>1, <1>3 DEF InstallsOnlyCompleteDownloads, ToSet
  <2> QED
    BY <1>1, <1>3, <2>1, <2>3, <2>5, <2>6, <2>7 DEF IInv, SuccessInstallsRequest,
       DoneMeansAnswered, WorkerEndsFirst
<1>5. CASE toDownload = <<>>
  <2>1. /\ installEvent' = NoPackage /\ worker' = "finished" /\ finishEvent' = TRUE
        /\ isDone' = TRUE /\ UNCHANGED toDownload
    BY <1>5 DEF QuitAndWait, PostFinish
  <2>2. TypeOK'
    BY <1>2, <1>3, <2>1 DEF IInv, TypeOK
  <2>3. requested' = installed'
    BY <1>1, <1>2, <1>3, <1>5
  <2>4. BeforeRequests' /\ WhileFetching'
    BY <1>1, <1>3, <2>1 DEF IInv, BeforeRequests, WhileFetching, ToSet
  <2>5. WhileInstalling' /\ AfterWorker'
    BY <1>1, <1>3, <2>1 DEF WhileInstalling, AfterWorker
  <2>6. InstallsOnlyCompleteDownloads'
    BY <1>1, <1>3 DEF InstallsOnlyCompleteDownloads, ToSet
  <2> QED
    BY <1>1, <1>3, <2>1, <2>2, <2>3, <2>4, <2>5, <2>6 DEF IInv, SuccessInstallsRequest,
       DoneMeansAnswered, WorkerEndsFirst
<1> QED
  BY <1>4, <1>5

LEMMA IInvInstallError == IInv /\ InstallError => IInv'
<1> SUFFICES ASSUME IInv, InstallError PROVE IInv'
  OBVIOUS
<1> USE DEF InstallError, GiveUp, Running
<1>1. TypeOK'
  BY DEF IInv, TypeOK
<1>2. BeforeRequests' /\ WhileFetching'
  BY DEF IInv, BeforeRequests, WhileFetching, WhileInstalling, ToSet
<1>3. WhileInstalling' /\ AfterWorker'
  BY DEF IInv, TypeOK, WhileInstalling, AfterWorker
<1>4. InstallsOnlyCompleteDownloads'
  BY DEF IInv, InstallsOnlyCompleteDownloads, ToSet
<1> QED
  BY <1>1, <1>2, <1>3, <1>4 DEF IInv, WhileInstalling, SuccessInstallsRequest,
     DoneMeansAnswered, WorkerEndsFirst

LEMMA IInvInstallCrashes == IInv /\ InstallCrashes => IInv'
<1> SUFFICES ASSUME IInv, InstallCrashes PROVE IInv'
  OBVIOUS
<1> USE DEF InstallCrashes, Running
<1>1. TypeOK'
  BY DownloaderAssumption DEF IInv, TypeOK
<1>2. BeforeRequests' /\ WhileFetching'
  BY DEF IInv, BeforeRequests, WhileFetching, WhileInstalling, ToSet
<1>3. WhileInstalling' /\ AfterWorker'
  BY DEF IInv, TypeOK, WhileInstalling, AfterWorker
<1>4. InstallsOnlyCompleteDownloads'
  BY DEF IInv, InstallsOnlyCompleteDownloads, ToSet
<1> QED
  BY <1>1, <1>2, <1>3, <1>4 DEF IInv, WhileInstalling, SuccessInstallsRequest,
     DoneMeansAnswered, WorkerEndsFirst

LEMMA IInvFinish == IInv /\ Finish => IInv'
<1> SUFFICES ASSUME IInv, Finish PROVE IInv'
  OBVIOUS
<1> USE DEF Finish, Running
<1>1. TypeOK'
  BY DEF IInv, TypeOK
<1>2. worker = "finished" /\ requested # <<>>
  BY DEF IInv, AfterWorker, BeforeRequests
<1>3. BeforeRequests' /\ WhileFetching'
  BY <1>2 DEF IInv, BeforeRequests, WhileFetching, ToSet
<1>4. WhileInstalling' /\ AfterWorker'
  BY <1>2 DEF IInv, WhileInstalling, AfterWorker
<1>5. InstallsOnlyCompleteDownloads'
  BY DEF IInv, InstallsOnlyCompleteDownloads, ToSet
<1> QED
  BY <1>1, <1>2, <1>3, <1>4, <1>5 DEF IInv, AfterWorker, SuccessInstallsRequest,
     DoneMeansAnswered, WorkerEndsFirst

LEMMA IInvCommandEnds == IInv /\ CommandEnds => IInv'
BY DownloaderAssumption, SMT DEF CommandEnds, Running, IInv, TypeOK, BeforeRequests, WhileFetching, WhileInstalling, AfterWorker, SuccessInstallsRequest, InstallsOnlyCompleteDownloads, DoneMeansAnswered, WorkerEndsFirst

LEMMA IInvWorkerEnds == IInv /\ WorkerEnds => IInv'
BY DownloaderAssumption, SMT DEF WorkerEnds, PostFinish, Running, IInv, TypeOK, BeforeRequests, WhileFetching, WhileInstalling, AfterWorker, SuccessInstallsRequest, InstallsOnlyCompleteDownloads, DoneMeansAnswered, WorkerEndsFirst

LEMMA IInvRefuse == ASSUME IInv, NEW p \in Package, Refuse(p) PROVE IInv'
<1> USE DEF Refuse, Running
<1>1. /\ unarrived # <<>> /\ ~isDone /\ requested # <<>>
      /\ installed = <<>> /\ installEvent = NoPackage
      /\ worker = "running" /\ ~finishEvent
  BY DEF IInv, TypeOK, ToSet, BeforeRequests, WhileFetching, DoneMeansAnswered
<1>2. TypeOK'
  BY DEF IInv, TypeOK
<1>3. BeforeRequests' /\ WhileFetching'
  BY <1>1 DEF IInv, BeforeRequests, WhileFetching
<1> QED
  BY <1>1, <1>2, <1>3 DEF IInv, WhileInstalling, AfterWorker, SuccessInstallsRequest,
     InstallsOnlyCompleteDownloads, DoneMeansAnswered, WorkerEndsFirst

-----------------------------------------------------------------------------
(* The three outcomes of networkDone.  Facts about the state the handler is *)
(* called in, then about the state it leaves.                               *)
LEMMA NetworkDoneBefore ==
    ASSUME IInv, NEW i \in DOMAIN unarrived, NetworkDone(i)
    PROVE  /\ main = "loop" /\ command = "running"
           /\ unarrived \in Seq(Package) /\ unarrived # <<>> /\ unarrived[i] \in Package
           /\ toDownload = requested /\ toDownload \in Seq(Package) /\ toDownload # <<>>
           /\ installed = <<>> /\ installEvent = NoPackage
           /\ worker = "running" /\ ~finishEvent /\ ~isDone
           /\ isSuccess => arrived \cup ToSet(unarrived) = ToSet(requested)
BY DEF NetworkDone, Running, IInv, TypeOK, BeforeRequests, WhileFetching, DoneMeansAnswered

(* Whatever the outcome, the rest of the state is as this lemma says. *)
LEMMA NetworkDoneKeeps ==
    ASSUME NEW i \in DOMAIN unarrived, NetworkDone(i)
    PROVE  UNCHANGED <<job, requested, refused, installed, worker, finishEvent, command>>
BY DEF NetworkDone

(* A handler that did not report an error leaves the Downloader waiting, or *)
(* starts the installation; one that did leaves it waiting or done.         *)
LEMMA IInvAfterReply ==
    ASSUME IInv, NEW i \in DOMAIN unarrived, NetworkDone(i),
           AfterReply, UNCHANGED loopVars,
           unarrived' \in Seq(Package), isSuccess' \in BOOLEAN,
           arrived' \subseteq Package, archive' \in [File -> Saved] /\ cutShort' \in BOOLEAN,
           isSuccess' => arrived' \cup ToSet(unarrived') = ToSet(requested)
    PROVE  IInv'
<1>1. /\ main = "loop" /\ command = "running"
      /\ unarrived # <<>>
      /\ toDownload = requested /\ toDownload \in Seq(Package) /\ toDownload # <<>>
      /\ installed = <<>> /\ installEvent = NoPackage
      /\ worker = "running" /\ ~finishEvent /\ ~isDone
  BY NetworkDoneBefore
<1>2. /\ job' = job /\ requested' = requested /\ refused' = refused /\ installed' = <<>>
      /\ worker' = "running" /\ ~finishEvent' /\ finishEvent' = finishEvent
      /\ command' = command /\ main' = "loop" /\ cursor' = cursor /\ stale' = stale
  BY <1>1, NetworkDoneKeeps
<1>3. CASE unarrived' # <<>> /\ UNCHANGED <<toDownload, installEvent, isDone>>
  <2>1. TypeOK'
    BY <1>1, <1>2, <1>3 DEF IInv, TypeOK
  <2>2. BeforeRequests' /\ WhileFetching'
    BY <1>1, <1>2, <1>3 DEF BeforeRequests, WhileFetching
  <2> QED
    BY <1>1, <1>2, <1>3, <2>1, <2>2 DEF IInv, WhileInstalling, AfterWorker,
       SuccessInstallsRequest, InstallsOnlyCompleteDownloads, DoneMeansAnswered, WorkerEndsFirst
<1>4. CASE unarrived' = <<>> /\ isSuccess' /\ InstallNextPackage /\ UNCHANGED isDone
  <2>1. /\ installEvent' = Head(toDownload) /\ toDownload' = Tail(toDownload)
        /\ isDone' = FALSE
    BY <1>1, <1>4 DEF IInv, TypeOK, InstallNextPackage
  <2>2. /\ Head(toDownload) \in Package /\ Tail(toDownload) \in Seq(Package)
        /\ toDownload = <<>> \o <<Head(toDownload)>> \o Tail(toDownload)
    BY <1>1
  <2>3. TypeOK'
    BY <1>2, <1>4, <2>1, <2>2 DEF IInv, TypeOK
  <2>4. arrived' = ToSet(requested')
    BY <1>2, <1>4 DEF ToSet
  <2>5. requested' = installed' \o <<installEvent'>> \o toDownload'
    BY <1>1, <1>2, <2>1, <2>2
  <2>6. BeforeRequests' /\ WhileFetching'
    BY <1>1, <1>2, <1>4, <2>4 DEF BeforeRequests, WhileFetching, ToSet
  <2>7. WhileInstalling' /\ AfterWorker'
    BY <1>2, <1>4, <2>1, <2>5 DEF WhileInstalling, AfterWorker
  <2> QED
    BY <1>2, <1>4, <2>1, <2>3, <2>4, <2>6, <2>7 DEF IInv, SuccessInstallsRequest,
       InstallsOnlyCompleteDownloads, DoneMeansAnswered, WorkerEndsFirst
<1>5. CASE /\ unarrived' = <<>> /\ ~isSuccess' /\ isDone' = TRUE
           /\ UNCHANGED <<toDownload, installEvent>>
  <2>1. TypeOK'
    BY <1>1, <1>2, <1>5 DEF IInv, TypeOK
  <2>2. BeforeRequests' /\ WhileFetching'
    BY <1>1, <1>2, <1>5 DEF BeforeRequests, WhileFetching
  <2> QED
    BY <1>1, <1>2, <1>5, <2>1, <2>2 DEF IInv, WhileInstalling, AfterWorker,
       SuccessInstallsRequest, InstallsOnlyCompleteDownloads, DoneMeansAnswered, WorkerEndsFirst
<1> QED
  BY <1>3, <1>4, <1>5 DEF AfterReply

LEMMA IInvNetworkDone ==
    ASSUME IInv, NEW i \in DOMAIN unarrived, NetworkDone(i) PROVE IInv'
<1>1. /\ RemoveAt(unarrived, i) \in Seq(Package)
      /\ ToSet(RemoveAt(unarrived, i)) \cup {unarrived[i]} = ToSet(unarrived)
  BY NetworkDoneBefore, RemoveAtProperties
<1>2. CASE NetworkError(i)
  <2>1. /\ arrived' \subseteq Package /\ archive' \in [File -> Saved] /\ cutShort' \in BOOLEAN
        /\ isSuccess' = FALSE /\ unarrived' \in Seq(Package)
    BY <1>1, <1>2 DEF NetworkError, IInv, TypeOK
  <2> QED
    BY <1>2, <2>1, IInvAfterReply DEF NetworkError
<1>3. CASE ReceivedArchive(i)
  <2>1. /\ unarrived[i] \in Package /\ unarrived[i] \in HasUrl
        /\ unarrived' = RemoveAt(unarrived, i)
        /\ arrived' = arrived \cup {unarrived[i]}
        /\ isSuccess' = isSuccess
    BY <1>3, NetworkDoneBefore DEF ReceivedArchive
  <2>2. arrived' \subseteq Package /\ isSuccess' \in BOOLEAN
    BY <2>1 DEF IInv, TypeOK
  <2>3. archive' \in [File -> Saved] /\ cutShort' \in BOOLEAN
    <3>1. /\ archive \in [File -> Saved] /\ cutShort \in BOOLEAN
          /\ SaveToFile(unarrived[i])
      BY <1>3 DEF ReceivedArchive, IInv, TypeOK
    <3>2. FileOf[unarrived[i]] \in File
      BY <2>1, DownloaderAssumption
    <3> DEFINE u == unarrived[i]
    <3>3. \A whole \in BOOLEAN :
              [archive EXCEPT ![FileOf[u]] = [of |-> u, whole |-> whole]] \in [File -> Saved]
      BY <2>1, <3>1, <3>2 DEF Saved
    <3> QED
      BY <3>1, <3>3 DEF SaveToFile, ArchiveFile
  <2>4. isSuccess' => arrived' \cup ToSet(unarrived') = ToSet(requested)
    <3>1. isSuccess => arrived \cup ToSet(unarrived) = ToSet(requested)
      BY NetworkDoneBefore
    <3>2. arrived' \cup ToSet(unarrived') = arrived \cup ToSet(unarrived)
      BY <1>1, <2>1 DEF ToSet
    <3> QED
      BY <2>1, <3>1, <3>2
  <2> QED
    BY <1>1, <1>3, <2>1, <2>2, <2>3, <2>4, IInvAfterReply DEF ReceivedArchive
<1>4. CASE ArchiveSaveError(i)
  <2>1. /\ unarrived' \in Seq(Package) /\ ~isSuccess' /\ isSuccess' \in BOOLEAN /\ main' = "abort"
        /\ UNCHANGED <<toDownload, arrived, archive, cutShort, installEvent, isDone, cursor,
                       stale>>
    BY <1>1, <1>4 DEF ArchiveSaveError
  <2>2. /\ toDownload = requested /\ toDownload # <<>>
        /\ installed = <<>> /\ installEvent = NoPackage
        /\ worker = "running" /\ ~finishEvent /\ ~isDone
    BY NetworkDoneBefore
  <2>3. /\ job' = job /\ requested' = requested /\ refused' = refused /\ installed' = <<>>
        /\ worker' = "running" /\ ~finishEvent' /\ finishEvent' = finishEvent
        /\ command' = command
    BY <2>2, NetworkDoneKeeps
  <2>4. TypeOK'
    BY <2>1, <2>2, <2>3 DEF IInv, TypeOK
  <2>5. BeforeRequests' /\ WhileFetching'
    BY <2>1, <2>2, <2>3 DEF BeforeRequests, WhileFetching
  <2> QED
    BY <2>1, <2>2, <2>3, <2>4, <2>5 DEF IInv, WhileInstalling, AfterWorker,
       SuccessInstallsRequest, InstallsOnlyCompleteDownloads, DoneMeansAnswered, WorkerEndsFirst
<1> QED
  BY <1>2, <1>3, <1>4 DEF NetworkDone

-----------------------------------------------------------------------------
LEMMA IInvNext == IInv /\ [Next]_vars => IInv'
<1> SUFFICES ASSUME IInv, [Next]_vars PROVE IInv'
  OBVIOUS
<1>1. CASE MainStep
  BY <1>1, IInvFilterKeeps, IInvFilterRemoves, IInvNothingToDo, IInvFetchPackages,
     IInvAbortSkips, IInvAbortReply, IInvAbortDone, IInvInstalled, IInvInstallError,
     IInvInstallCrashes, IInvFinish, IInvCommandEnds DEF MainStep
<1>2. CASE NetworkStep
  BY <1>2, IInvNetworkDone, IInvRefuse DEF NetworkStep, SslErrors, AuthenticationNeeded
<1>3. CASE WorkerEnds
  BY <1>3, IInvWorkerEnds
<1>4. CASE UNCHANGED vars
  BY <1>4 DEF IInv, TypeOK, BeforeRequests, WhileFetching, WhileInstalling, AfterWorker,
     SuccessInstallsRequest, InstallsOnlyCompleteDownloads, DoneMeansAnswered,
     WorkerEndsFirst, ToSet
<1> QED
  BY <1>1, <1>2, <1>3, <1>4 DEF Next

(* The inductive invariant holds in every reachable state. *)
THEOREM Invariance == Spec => []IInv
<1>1. Init => IInv
  BY InitIInv
<1>2. IInv /\ [Next]_vars => IInv'
  BY IInvNext
<1> QED
  BY <1>1, <1>2, PTL DEF Spec

(* Every variable of the Downloader keeps its type. *)
THEOREM TypeCorrect == Spec => []TypeOK
<1>1. IInv => TypeOK
  BY DEF IInv
<1> QED
  BY <1>1, Invariance, PTL

(* networkDone starts the installation only of a complete download. *)
THEOREM CompleteDownloads == Spec => []InstallsOnlyCompleteDownloads
<1>1. IInv => InstallsOnlyCompleteDownloads
  BY DEF IInv
<1> QED
  BY <1>1, Invariance, PTL

(* The Downloader is not done while a request is outstanding. *)
THEOREM DoneAnswered == Spec => []DoneMeansAnswered
<1>1. IInv => DoneMeansAnswered
  BY DEF IInv
<1> QED
  BY <1>1, Invariance, PTL

(* The worker thread outlives the job only after a failed download. *)
THEOREM WorkerEnded == Spec => []WorkerEndsFirst
<1>1. IInv => WorkerEndsFirst
  BY DEF IInv
<1> QED
  BY <1>1, Invariance, PTL

(* A job that is done without an error installed what it requested. *)
THEOREM SuccessIsRequest == Spec => []SuccessInstallsRequest
<1>1. IInv => SuccessInstallsRequest
  BY DEF IInv
<1> QED
  BY <1>1, Invariance, PTL

-----------------------------------------------------------------------------
(* Nothing is recorded after a failure, which is never forgotten. *)
LEMMA FailureStep == IInv /\ [Next]_vars /\ ~isSuccess => UNCHANGED installed /\ ~isSuccess'
<1> SUFFICES ASSUME IInv, [Next]_vars, ~isSuccess PROVE UNCHANGED installed /\ ~isSuccess'
  OBVIOUS
<1>1. installEvent = NoPackage
  BY DEF IInv, WhileInstalling
<1>2. ~Installed
  BY <1>1, DownloaderAssumption DEF Installed, IInv, TypeOK
<1>3. ~InstallError
  BY <1>1 DEF InstallError
<1>4. CASE MainStep
  BY <1>2, <1>3, <1>4 DEF MainStep, FilterKeeps, FilterRemoves, NothingToDo, FetchPackages,
     AbortSkips, AbortReply, AbortDone, InstallCrashes, Finish, CommandEnds
<1>5. CASE NetworkStep
  BY <1>5 DEF NetworkStep, NetworkDone, NetworkError, ReceivedArchive, ArchiveSaveError,
     SslErrors, AuthenticationNeeded, Refuse
<1>6. CASE WorkerEnds
  BY <1>6 DEF WorkerEnds
<1> QED
  BY <1>4, <1>5, <1>6 DEF Next

THEOREM FailureFinal == Spec => FailureIsFinal
<1>1. IInv /\ [Next]_vars => [~isSuccess => UNCHANGED installed /\ ~isSuccess']_vars
  BY FailureStep
<1> QED
  BY <1>1, Invariance, PTL DEF Spec, FailureIsFinal

-----------------------------------------------------------------------------
(* What is left of the job after the range-for that removes packages, with *)
(* its skipped elements and stale slots, is not just what has an url; but   *)
(* nothing with an url is lost, nothing changes places, and what has no url *)
(* cannot arrive.                                                          *)
LeftOf(s) == InOrderOf(s, job) /\ ToSet(job) \cap HasUrl \subseteq ToSet(s)

(* The file that an arrived package is installed from holds what this job  *)
(* fetched, for the package or for one with the same file name.            *)
HoldsArrived(p) ==
    /\ archive[FileOf[p]].of \in arrived
    /\ FileOf[archive[FileOf[p]].of] = FileOf[p]
    /\ archive[FileOf[p]].whole \/ cutShort

Kept ==
    /\ main = "filter" => LeftOf(toDownload)
    /\ requested # <<>> => LeftOf(requested)
    /\ arrived \subseteq HasUrl
    /\ \A p \in arrived : HoldsArrived(p)

LEMMA RemoveAtInOrder ==
    ASSUME NEW S, NEW list, NEW s \in Seq(S), NEW i \in DOMAIN s, InOrderOf(s, list)
    PROVE  InOrderOf(RemoveAt(s, i), list)
<1> DEFINE r == RemoveAt(s, i)
<1>1. /\ r \in Seq(S) /\ Len(r) = Len(s) - 1
      /\ \A j \in 1..(Len(s) - 1) : r[j] = IF j < i THEN s[j] ELSE s[j + 1]
  BY RemoveAtElements
<1>2. ToSet(r) \subseteq ToSet(list)
  BY RemoveAtProperties DEF InOrderOf
<1> HIDE DEF r
<1>3. ASSUME NEW j \in DOMAIN r, NEW k \in DOMAIN r, j < k
      PROVE  \E m, n \in DOMAIN s : m < n /\ s[m] = r[j] /\ s[n] = r[k]
  <2>1. j \in 1..(Len(s) - 1) /\ k \in 1..(Len(s) - 1)
    BY <1>1, <1>3
  <2> DEFINE m == IF j < i THEN j ELSE j + 1
             n == IF k < i THEN k ELSE k + 1
  <2>2. m \in DOMAIN s /\ n \in DOMAIN s /\ m < n /\ s[m] = r[j] /\ s[n] = r[k]
    BY <1>1, <1>3, <2>1
  <2> QED
    BY <2>2
<1>4. InOrderOf(r, list)
  BY <1>2, <1>3 DEF InOrderOf
<1> QED
  BY <1>4 DEF r

LEMMA KeptInit == Init => Kept
<1> SUFFICES ASSUME Init PROVE Kept
  OBVIOUS
<1>1. job \in Seq(Package) /\ toDownload = job
  BY DownloaderAssumption DEF Init
<1>2. InOrderOf(job, job)
  BY <1>1 DEF InOrderOf
<1> QED
  BY <1>1, <1>2 DEF Init, Kept, LeftOf

LEMMA KeptArrived ==
    ASSUME IInv, Kept, NEW i \in DOMAIN unarrived, ReceivedArchive(i)
    PROVE  /\ arrived' \subseteq HasUrl
           /\ \A p \in arrived' : HoldsArrived(p)'
<1> DEFINE u == unarrived[i]
<1>1. u \in HasUrl /\ arrived' = arrived \cup {u}
  BY DEF ReceivedArchive
<1>2. FileOf[u] \in File /\ archive \in [File -> Saved]
  BY <1>1, DownloaderAssumption DEF IInv, TypeOK
<1>3. /\ archive'[FileOf[u]].of = u
      /\ archive'[FileOf[u]].whole \/ cutShort'
      /\ cutShort => cutShort'
      /\ \A f \in File \ {FileOf[u]} : archive'[f] = archive[f]
  <2> DEFINE Saves(whole) ==
                 archive' = [archive EXCEPT ![FileOf[u]] = [of |-> u, whole |-> whole]]
  <2>1. \/ Saves(TRUE) /\ UNCHANGED cutShort
        \/ Saves(FALSE) /\ cutShort' = TRUE
    BY DEF ReceivedArchive, SaveToFile, ArchiveFile
  <2> HIDE DEF u
  <2>2. CASE Saves(TRUE) /\ UNCHANGED cutShort
    BY <1>2, <2>2
  <2>3. CASE Saves(FALSE) /\ cutShort' = TRUE
    BY <1>2, <2>3
  <2> QED
    BY <2>1, <2>2, <2>3
<1> HIDE DEF u
<1>4. ASSUME NEW p \in arrived' PROVE HoldsArrived(p)'
  <2>1. p \in HasUrl /\ FileOf[p] \in File
    BY <1>1, <1>4, DownloaderAssumption DEF Kept
  <2>2. CASE FileOf[p] = FileOf[u]
    BY <1>1, <1>3, <2>2 DEF HoldsArrived
  <2>3. CASE FileOf[p] # FileOf[u]
    <3>1. p \in arrived /\ archive'[FileOf[p]] = archive[FileOf[p]]
      BY <1>1, <1>3, <1>4, <2>1, <2>3
    <3>2. HoldsArrived(p)
      BY <3>1 DEF Kept
    <3> QED
      BY <1>1, <1>3, <3>1, <3>2 DEF HoldsArrived
  <2> QED
    BY <2>2, <2>3
<1>5. arrived' \subseteq HasUrl
  BY <1>1 DEF Kept
<1> QED
  BY <1>4, <1>5

LEMMA KeptNext == IInv /\ Kept /\ [Next]_vars => Kept'
<1> SUFFICES ASSUME IInv, Kept, [Next]_vars PROVE Kept'
  OBVIOUS
<1>1. ASSUME NEW i \in DOMAIN toDownload, FilterRemoves(i) PROVE Kept'
  <2>1. LeftOf(toDownload) /\ toDownload \in Seq(Package) /\ toDownload[i] \notin HasUrl
    BY <1>1 DEF FilterRemoves, Running, Kept, IInv, TypeOK
  <2>2. InOrderOf(RemoveAt(toDownload, i), job)
    BY <2>1, RemoveAtInOrder DEF LeftOf
  <2>3. ToSet(RemoveAt(toDownload, i)) \cup {toDownload[i]} = ToSet(toDownload)
    BY <2>1, RemoveAtProperties
  <2>4. LeftOf(RemoveAt(toDownload, i))
    BY <2>1, <2>2, <2>3 DEF LeftOf
  <2>5. /\ toDownload' = RemoveAt(toDownload, i)
        /\ UNCHANGED <<job, requested, arrived, archive, cutShort, main>>
    BY <1>1 DEF FilterRemoves
  <2> QED
    BY <2>4, <2>5 DEF Kept, LeftOf, HoldsArrived
<1>2. CASE FetchPackages
  <2>1. /\ main = "filter" /\ main' = "loop" /\ requested' = toDownload
        /\ UNCHANGED <<job, arrived, archive, cutShort>>
    BY <1>2 DEF FetchPackages, Running, ToFetch, LeaveLoop
  <2> QED
    BY <2>1 DEF Kept, LeftOf, HoldsArrived
<1>3. ASSUME NEW i \in DOMAIN unarrived, NetworkDone(i) PROVE Kept'
  <2>1. UNCHANGED <<job, requested>> /\ main' # "filter"
    BY <1>3 DEF NetworkDone, Running, NetworkError, ReceivedArchive, ArchiveSaveError
  <2>2. CASE ReceivedArchive(i)
    BY <2>1, <2>2, KeptArrived DEF Kept, LeftOf
  <2>3. CASE UNCHANGED <<arrived, archive, cutShort>>
    BY <2>1, <2>3 DEF Kept, LeftOf, HoldsArrived
  <2> QED
    BY <1>3, <2>2, <2>3 DEF NetworkDone, NetworkError, ArchiveSaveError
<1>4. CASE /\ UNCHANGED <<job, requested, arrived, archive, cutShort>>
           /\ main' = "filter" => UNCHANGED <<main, toDownload>>
  BY <1>4 DEF Kept, LeftOf, HoldsArrived
<1>5. CASE \/ FilterKeeps \/ NothingToDo \/ AbortSkips \/ AbortDone \/ Installed \/ InstallError
           \/ InstallCrashes \/ Finish \/ CommandEnds \/ WorkerEnds \/ UNCHANGED vars
  BY <1>4, <1>5 DEF FilterKeeps, NothingToDo, AbortSkips, AbortDone, Installed, InstallError,
     GiveUp, InstallCrashes, Finish, CommandEnds, WorkerEnds, LeaveLoop, Running
<1>6. CASE \/ \E i \in DOMAIN unarrived : AbortReply(i)
           \/ \E p \in Package : SslErrors(p) \/ AuthenticationNeeded(p)
  BY <1>4, <1>6 DEF AbortReply, SslErrors, AuthenticationNeeded, Refuse, Running
<1> QED
  BY <1>1, <1>2, <1>3, <1>5, <1>6 DEF Next, MainStep, NetworkStep

(* No package with an url gets lost, none without one is recorded, and     *)
(* packages keep the order of the job, although the loop that removes the  *)
(* packages without url skips some of them: the requests of those fail.    *)
THEOREM Complete == Spec => []SuccessIsComplete
<1>1. ASSUME IInv, Kept, isDone, isSuccess
      PROVE  ToSet(installed) = ToSet(job) \cap HasUrl /\ InOrderOf(installed, job)
  <2>1. installed = requested /\ requested # <<>>
    BY <1>1 DEF IInv, SuccessInstallsRequest, BeforeRequests
  <2>2. LeftOf(requested)
    BY <1>1, <2>1 DEF Kept
  <2>3. ToSet(requested) \subseteq HasUrl
    BY <1>1, <2>1 DEF IInv, InstallsOnlyCompleteDownloads, Kept
  <2> QED
    BY <2>1, <2>2, <2>3 DEF LeftOf, InOrderOf
<1>2. IInv /\ Kept => SuccessIsComplete
  BY <1>1 DEF SuccessIsComplete
<1> QED
  BY <1>2, KeptInit, KeptNext, Invariance, PTL DEF Spec

(* A package is installed from what this job fetched for it, or for another *)
(* package with the same file name, wherever the disk is full.              *)
THEOREM OwnArchives == Spec => OwnArchive
<1> DEFINE Own == \A p \in ToSet(installed') \ ToSet(installed) :
                      LET held == archive[ArchiveFile(p)] IN
                      /\ held.of \in arrived
                      /\ FileOf[held.of] = FileOf[p]
                      /\ held.whole \/ cutShort
<1>1. ASSUME IInv, Kept, [Next]_vars, NEW p \in ToSet(installed') \ ToSet(installed)
      PROVE  HoldsArrived(p)
  <2>1. CASE UNCHANGED installed
    BY <1>1, <2>1
  <2>2. CASE Installed
    <3>1. installed' = Append(installed, installEvent) /\ installEvent \in arrived
      BY <2>2 DEF Installed
    <3>2. installed \in Seq(Package) /\ installEvent \in Package
      BY <1>1, <3>1 DEF IInv, TypeOK
    <3>3. ToSet(installed') = ToSet(installed) \cup {installEvent}
      BY <3>1, <3>2 DEF ToSet
    <3> QED
      BY <1>1, <3>1, <3>3 DEF Kept
  <2>3. Installed \/ UNCHANGED installed
    BY <1>1 DEF Next, MainStep, NetworkStep, FilterKeeps, FilterRemoves, NothingToDo,
       FetchPackages, AbortSkips, AbortReply, AbortDone, InstallError, InstallCrashes, Finish,
       CommandEnds, NetworkDone, SslErrors, AuthenticationNeeded, Refuse, WorkerEnds
  <2> QED
    BY <2>1, <2>2, <2>3
<1>2. IInv /\ Kept /\ [Next]_vars => [Own]_vars
  BY <1>1 DEF HoldsArrived, ArchiveFile
<1> QED
  BY <1>2, KeptInit, KeptNext, Invariance, PTL DEF Spec, OwnArchive

-----------------------------------------------------------------------------
(* The Downloader implements the InstallJob: a step that does not change   *)
(* the plan, the installed packages or the phase is a stutter.             *)
LEMMA PromiseInit == Init => Promise!Init
BY DEF Init, Promise!Init, Phase

LEMMA PhaseInstalled ==
    ASSUME IInv, Installed PROVE Promise!InstallNext
<1> USE DEF Installed, Running
<1>1. /\ installEvent \in Package /\ installEvent # NoPackage
      /\ isSuccess /\ ~isDone /\ command = "running" /\ requested # <<>>
      /\ requested = installed \o <<installEvent>> \o toDownload
      /\ installed \in Seq(Package) /\ toDownload \in Seq(Package)
      /\ requested \in Seq(Package)
  BY DownloaderAssumption DEF IInv, TypeOK, BeforeRequests, WhileInstalling
<1>2. /\ installed' = Append(installed, installEvent)
      /\ UNCHANGED <<requested, isSuccess, command>>
  OBVIOUS
<1>3. Phase = "installing"
  BY <1>1 DEF Phase
<1>4. /\ Len(requested) = Len(installed) + 1 + Len(toDownload)
      /\ requested[Len(installed) + 1] = installEvent
  BY <1>1
<1>5. Len(installed') = Len(installed) + 1
  BY <1>1, <1>2
<1>6. CASE toDownload # <<>>
  <2>1. installEvent' = Head(toDownload) /\ isDone' = isDone
    BY <1>6 DEF InstallNextPackage
  <2>2. installEvent' # NoPackage /\ Len(toDownload) > 0
    BY <1>1, <1>6, <2>1, DownloaderAssumption
  <2>3. Phase' = "installing"
    BY <1>1, <1>2, <2>1, <2>2 DEF Phase
  <2> QED
    BY <1>1, <1>2, <1>3, <1>4, <1>5, <2>2, <2>3 DEF Promise!InstallNext
<1>7. CASE toDownload = <<>>
  <2>1. isDone' = TRUE
    BY <1>7
  <2>2. Phase' = "succeeded"
    BY <1>1, <1>2, <2>1 DEF Phase
  <2>3. Len(toDownload) = 0
    BY <1>7
  <2> QED
    BY <1>1, <1>2, <1>3, <1>4, <1>5, <2>2, <2>3 DEF Promise!InstallNext
<1> QED
  BY <1>6, <1>7

LEMMA PhaseNetworkDone ==
    ASSUME IInv, NEW i \in DOMAIN unarrived, NetworkDone(i)
    PROVE  Promise!StartInstalling \/ Promise!Fail \/ UNCHANGED <<requested, installed, Phase>>
<1>1. /\ toDownload = requested /\ toDownload \in Seq(Package) /\ toDownload # <<>>
      /\ installEvent = NoPackage /\ ~isDone /\ command = "running"
  BY NetworkDoneBefore
<1>2. UNCHANGED <<requested, installed, command>>
  BY NetworkDoneKeeps
<1>3. Phase = IF isSuccess THEN "fetching" ELSE "failed"
  BY <1>1 DEF Phase
<1>4. CASE ~isSuccess'
  <2>1. Phase' = "failed"
    BY <1>4 DEF Phase
  <2> QED
    BY <1>2, <1>3, <2>1 DEF Promise!Fail
<1>5. CASE isSuccess'
  <2>1. isSuccess /\ AfterReply
    BY <1>5 DEF NetworkDone, NetworkError, ReceivedArchive, ArchiveSaveError
  <2>2. CASE UNCHANGED <<toDownload, installEvent, isDone>>
    <3>1. Phase' = "fetching"
      BY <1>1, <1>2, <1>5, <2>2 DEF Phase
    <3> QED
      BY <1>2, <1>3, <2>1, <3>1
  <2>3. CASE InstallNextPackage /\ UNCHANGED isDone
    <3>1. installEvent' # NoPackage
      BY <1>1, <2>3, DownloaderAssumption DEF InstallNextPackage
    <3>2. Phase' = "installing"
      BY <1>1, <1>2, <1>5, <2>3, <3>1 DEF Phase
    <3> QED
      BY <1>2, <1>3, <2>1, <3>2 DEF Promise!StartInstalling
  <2> QED
    BY <1>5, <2>1, <2>2, <2>3 DEF AfterReply
<1> QED
  BY <1>4, <1>5

LEMMA PromiseNext == IInv /\ IInv' /\ [Next]_vars => [Promise!Next]_(Promise!jobVars)
<1> SUFFICES ASSUME IInv, IInv', [Next]_vars PROVE Promise!Next \/ UNCHANGED Promise!jobVars
  OBVIOUS
<1> USE DEF Promise!jobVars
<1>1. ASSUME UNCHANGED <<requested, installed, isSuccess, command, isDone, installEvent>>
      PROVE  UNCHANGED Promise!jobVars
  BY <1>1 DEF Phase
<1>2. CASE \/ FilterKeeps \/ \E i \in DOMAIN toDownload : FilterRemoves(i)
           \/ NothingToDo \/ AbortSkips \/ WorkerEnds \/ UNCHANGED vars
  BY <1>1, <1>2 DEF FilterKeeps, FilterRemoves, NothingToDo, AbortSkips, WorkerEnds
<1>3. CASE FetchPackages
  <2>1. /\ requested = <<>> /\ requested' = toDownload /\ toDownload # <<>>
        /\ toDownload \in Seq(Package)
        /\ isSuccess /\ ~isDone /\ command = "running" /\ installEvent = NoPackage
        /\ UNCHANGED <<installed, isSuccess, isDone, command, installEvent>>
    BY <1>3 DEF FetchPackages, ToFetch, Running, IInv, TypeOK, BeforeRequests
  <2>2. Phase = "planning" /\ Phase' = "fetching"
    BY <2>1 DEF Phase
  <2> QED
    BY <2>1, <2>2 DEF Promise!Next, Promise!Settle
<1>4. CASE \/ \E i \in DOMAIN unarrived : AbortReply(i)
           \/ AbortDone \/ Finish
  <2>1. UNCHANGED <<requested, installed>> /\ command = "running"
    BY <1>4 DEF AbortReply, AbortDone, Finish, Running
  <2>2. CASE ~isSuccess
    <3>1. ~isSuccess'
      BY <1>4, <2>2 DEF AbortReply, AbortDone, Finish
    <3> QED
      BY <2>1, <2>2, <3>1 DEF Phase
  <2>3. CASE isSuccess
    <3>1. Finish /\ isDone /\ isDone' /\ isSuccess'
      BY <1>4, <2>3 DEF AbortReply, AbortDone, Finish, Running, IInv, WhileFetching, AfterWorker
    <3> QED
      BY <2>1, <2>3, <3>1 DEF Phase, Finish
  <2> QED
    BY <2>2, <2>3
<1>5. CASE Installed
  BY <1>5, PhaseInstalled DEF Promise!Next
<1>6. CASE InstallError \/ InstallCrashes
  <2>1. /\ installEvent # NoPackage /\ isSuccess /\ ~isDone /\ command = "running"
        /\ UNCHANGED <<requested, installed>>
        /\ ~isSuccess' \/ command' = "crashed"
    BY <1>6, DownloaderAssumption DEF InstallError, InstallCrashes, Running, IInv, TypeOK,
       WhileInstalling
  <2>2. Phase = "installing" /\ Phase' = "failed"
    BY <2>1 DEF Phase
  <2> QED
    BY <2>1, <2>2 DEF Promise!Next, Promise!Fail
<1>7. CASE CommandEnds
  <2>1. /\ command = "running" /\ command' # "crashed"
        /\ UNCHANGED <<requested, installed, isSuccess, isDone, installEvent>>
    BY <1>7 DEF CommandEnds, Running
  <2> QED
    BY <2>1 DEF Phase
<1>8. CASE \E i \in DOMAIN unarrived : NetworkDone(i)
  BY <1>8, PhaseNetworkDone DEF Promise!Next
<1>9. CASE \E p \in Package : Refuse(p)
  <2>1. /\ unarrived # <<>> /\ command = "running"
        /\ UNCHANGED <<requested, installed>> /\ ~isSuccess'
    BY <1>9 DEF Refuse, Running, IInv, TypeOK, ToSet
  <2>2. ~isDone /\ installEvent = NoPackage /\ requested # <<>>
    BY <2>1 DEF IInv, DoneMeansAnswered, WhileFetching, BeforeRequests
  <2>3. Phase' = "failed" /\ Phase \in {"fetching", "failed"}
    BY <2>1, <2>2 DEF Phase
  <2> QED
    BY <2>1, <2>3 DEF Promise!Next, Promise!Fail
<1> QED
  BY <1>2, <1>3, <1>4, <1>5, <1>6, <1>7, <1>8, <1>9
     DEF Next, MainStep, NetworkStep, SslErrors, AuthenticationNeeded

(* The Downloader keeps the promise of an InstallJob, whatever the network *)
(* and the installation scripts do.                                        *)
THEOREM Implementation == Spec => KeepsPromise
<1>1. Init => Promise!Init
  BY PromiseInit
<1>2. IInv /\ IInv' /\ [Next]_vars => [Promise!Next]_(Promise!jobVars)
  BY PromiseNext
<1> QED
  BY <1>1, <1>2, Invariance, PTL DEF Spec, KeepsPromise, Promise!Spec

=============================================================================

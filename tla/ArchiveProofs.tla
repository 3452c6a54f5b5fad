---------------------------- MODULE ArchiveProofs ----------------------------
(***************************************************************************)
(* Proofs about the sessions of an archive, for any format, any contents,  *)
(* any number of sessions and writes, and a disk that fills and empties    *)
(* whenever it may: an archive that is opened for writing only is replaced *)
(* as a whole or not at all; what is read of the numbers in a 7-zip header *)
(* is what was written; and the entries of tar and zip files stay where    *)
(* their directory says they are.                                          *)
(***************************************************************************)
EXTENDS Archive, SevenZipHeader, SequenceTheorems, FiniteSetTheorems, WellFoundedInduction, TLAPS

(* Which device a session works on, and when. *)
Device ==
    /\ mode \in {"closed", "R", "W", "RW"}
    /\ device \in {"none", "save", "temp", "file"}
    /\ stage \in {"idle", "write", "central", "writeback"}
    /\ mode = "closed" => device = "none" /\ stage = "idle"
    /\ mode = "W" => device \in {"save", "none"}
    /\ device = "save" => mode = "W"
    /\ stage = "central" => device # "none"
    /\ stage = "writeback" => mode = "RW"

(* The save file knows of every write that it did not take. *)
ErrorKept == mode = "W" /\ device = "save" /\ lost => saveError

IInv == Device /\ ErrorKept

USE DEF vars, sessionVars, boundVars, historyVars

-----------------------------------------------------------------------------
LEMMA InitOK == Init => IInv
BY DEF Init, IInv, Device, ErrorKept

LEMMA OpenOK == ASSUME IInv, Open PROVE IInv'
<1> USE DEF CanOpen, OpenWith
<1>1. CASE OpenWriteOnly
  BY <1>1 DEF OpenWriteOnly, IInv, Device, ErrorKept
<1>2. CASE \E m \in {"R", "RW"} : OpenFile(m)
  BY <1>2 DEF OpenFile, IInv, Device, ErrorKept
<1>3. CASE \E m \in {"R", "RW"} : OpenTemp(m)
  <2>1. PICK m \in {"R", "RW"} : OpenTemp(m)
    BY <1>3
  <2>2. mode' = m /\ device' = "temp" /\ UNCHANGED stage /\ mode = "closed"
    BY <2>1 DEF OpenTemp
  <2> QED
    BY <2>2 DEF IInv, Device, ErrorKept
<1> QED
  BY <1>1, <1>2, <1>3 DEF Open

(* The steps that write an entry to a device, and a link in memory. *)
LEMMA WriteOK ==
    ASSUME IInv,
           \/ \E path \in WritePath, kind \in Kind, size \in Size :
                 BeginWrite(path, kind, size) \/ WriteInMemory(path, kind, size)
           \/ \E kind \in Kind : RefuseWrite(kind)
           \/ WriteCell \/ WriteFails \/ FinishWrite \/ PaddingFails
           \/ \E path \in Path : ReadEntry(path)
    PROVE  IInv'
<1> USE DEF CanWrite
<1>1. CASE \E path \in WritePath, kind \in Kind, size \in Size : BeginWrite(path, kind, size)
  <2>1. /\ stage = "idle" /\ stage' = "write" /\ mode \in {"W", "RW"}
        /\ UNCHANGED <<mode, device, saveError, lost>>
    BY <1>1 DEF BeginWrite
  <2> QED
    BY <2>1 DEF IInv, Device, ErrorKept
<1>2. CASE \E path \in WritePath, kind \in Kind, size \in Size : WriteInMemory(path, kind, size)
  <2>1. UNCHANGED <<mode, device, stage, saveError, lost>>
    BY <1>2 DEF WriteInMemory
  <2> QED
    BY <2>1 DEF IInv, Device, ErrorKept
<1>3. CASE \E kind \in Kind : RefuseWrite(kind)
  <2>1. /\ stage = "idle" /\ UNCHANGED <<mode, stage, saveError, lost>>
        /\ device' = device \/ (device = "save" /\ device' = "none")
    BY <1>3 DEF RefuseWrite, Abort
  <2> QED
    BY <2>1 DEF IInv, Device, ErrorKept
<1>4. CASE WriteCell
  <2>1. UNCHANGED <<mode, device, stage, saveError, lost>>
    BY <1>4 DEF WriteCell
  <2> QED
    BY <2>1 DEF IInv, Device, ErrorKept
<1>5. CASE WriteFails \/ PaddingFails
  <2>1. /\ stage = "write" /\ stage' \in {"write", "idle"} /\ UNCHANGED mode
        /\ saveError' = (saveError \/ device = "save")
        /\ device' = device \/ (device = "save" /\ device' = "none")
    BY <1>5 DEF WriteFails, PaddingFails, Abort
  <2> QED
    BY <2>1 DEF IInv, Device, ErrorKept
<1>6. CASE FinishWrite
  <2>1. stage' = "idle" /\ stage = "write" /\ UNCHANGED <<mode, device, saveError, lost>>
    BY <1>6 DEF FinishWrite
  <2> QED
    BY <2>1 DEF IInv, Device, ErrorKept
<1>7. CASE \E path \in Path : ReadEntry(path)
  <2>1. UNCHANGED <<mode, device, stage, saveError, lost>>
    BY <1>7 DEF ReadEntry
  <2> QED
    BY <2>1 DEF IInv, Device, ErrorKept
<1> QED
  BY <1>1, <1>2, <1>3, <1>4, <1>5, <1>6, <1>7

LEMMA GoneOK == ASSUME Gone PROVE IInv'
BY DEF Gone, SessionOver, IInv, Device, ErrorKept

LEMMA CloseOK == ASSUME IInv, Close PROVE IInv'
<1>1. CASE CloseWithoutWriting \/ CloseSaveFile \/ EndWriteBack \/ CentralFails \/ EndCentral
  BY <1>1, GoneOK DEF CloseWithoutWriting, CloseSaveFile, EndWriteBack, CentralFails, EndCentral
<1>2. CASE BeginWriteBack
  <2>1. mode = "RW" /\ stage' = "writeback" /\ UNCHANGED <<mode, device, saveError, lost>>
    BY <1>2 DEF BeginWriteBack
  <2> QED
    BY <2>1 DEF IInv, Device, ErrorKept
<1>3. CASE WriteBackCell
  <2>1. mode = "RW" /\ UNCHANGED <<mode, device, stage>>
    BY <1>3 DEF WriteBackCell, IInv, Device
  <2> QED
    BY <2>1 DEF IInv, Device, ErrorKept
<1>4. CASE BeginCentral \/ BeginIndex
  <2>1. /\ mode \in {"W", "RW"} /\ device # "none" /\ stage' = "central"
        /\ UNCHANGED <<mode, device, saveError, lost>>
    BY <1>4 DEF BeginCentral, BeginIndex
  <2> QED
    BY <2>1 DEF IInv, Device, ErrorKept
<1>5. CASE CentralCell
  <2>1. UNCHANGED <<mode, device, stage, saveError, lost>>
    BY <1>5 DEF CentralCell
  <2> QED
    BY <2>1 DEF IInv, Device, ErrorKept
<1>6. CASE IndexFails
  <2>1. UNCHANGED <<mode, device, stage>> /\ saveError' = (saveError \/ device = "save")
    BY <1>6 DEF IndexFails
  <2> QED
    BY <2>1 DEF IInv, Device, ErrorKept
<1> QED
  BY <1>1, <1>2, <1>3, <1>4, <1>5, <1>6 DEF Close

LEMMA StepOK == IInv /\ [Next]_vars => IInv'
<1> SUFFICES ASSUME IInv, [Next]_vars PROVE IInv'
  OBVIOUS
<1>1. CASE Crash
  BY <1>1, GoneOK DEF Crash
<1>2. CASE DiskChanges
  BY <1>2 DEF DiskChanges, IInv, Device, ErrorKept
<1>3. CASE UNCHANGED vars
  BY <1>3 DEF IInv, Device, ErrorKept
<1> QED
  BY <1>1, <1>2, <1>3, OpenOK, WriteOK, CloseOK DEF Next

(* Which device a session works on, and that its save file knows of every  *)
(* write that was not taken (KArchive::open, prepareDevice, abortWriting   *)
(* and close, and what the formats do in between).                         *)
THEOREM DeviceInvariance == Spec => []IInv
BY InitOK, StepOK, PTL DEF Spec

-----------------------------------------------------------------------------
(* The steps of a session for writing only do not touch the archive, but   *)
(* the one that commits.                                                   *)
LEMMA CommitsAtOnce ==
    ASSUME IInv, Next, mode = "W", file' # file
    PROVE  /\ mode' = "closed" /\ ~lost
           /\ \/ file' = work
              \/ full /\ \E n \in 0..Len(work) : file' = SubSeq(work, 1, n)
<1>1. device # "file" /\ stage # "writeback"
  BY DEF IInv, Device
<1>2. CASE Commit /\ Gone /\ device = "save"
  <2>1. mode' = "closed" /\ ~lost
    BY <1>2 DEF Commit, NotSaved, Gone, SessionOver, IInv, ErrorKept
  <2>2. Saved(work) \/ Torn
    BY <1>2 DEF Commit, NotSaved
  <2>3. Saved(work) => file' = work
    BY DEF Saved
  <2>4. Torn => full /\ \E n \in 0..Len(work) : file' = SubSeq(work, 1, n)
    BY DEF Torn
  <2> QED
    BY <2>1, <2>2, <2>3, <2>4
<1>3. CASE Open
  BY <1>3 DEF Open, OpenWriteOnly, OpenFile, OpenTemp, CanOpen
<1>4. CASE \E path \in WritePath, kind \in Kind, size \in Size :
              BeginWrite(path, kind, size) \/ WriteInMemory(path, kind, size)
  <2>1. UNCHANGED file
    BY <1>4 DEF BeginWrite, WriteInMemory
  <2> QED
    BY <2>1
<1>5. CASE \/ \E kind \in Kind : RefuseWrite(kind)
           \/ \E path \in Path : ReadEntry(path)
  <2>1. UNCHANGED file
    BY <1>5 DEF RefuseWrite, ReadEntry
  <2> QED
    BY <2>1
<1>6. CASE WriteCell \/ CentralCell
  <2>1. UNCHANGED file
    BY <1>1, <1>6 DEF WriteCell, CentralCell, Put
  <2> QED
    BY <2>1
<1>7. CASE WriteFails \/ FinishWrite \/ PaddingFails \/ IndexFails \/ BeginIndex \/ DiskChanges
  <2>1. UNCHANGED file
    BY <1>7 DEF WriteFails, FinishWrite, PaddingFails, IndexFails, BeginIndex, DiskChanges
  <2> QED
    BY <2>1
<1>8. CASE CloseWithoutWriting \/ CentralFails \/ Crash
  BY <1>8 DEF CloseWithoutWriting, CentralFails, Crash, NotSaved
<1>9. CASE BeginWriteBack \/ WriteBackCell \/ EndWriteBack
  BY <1>1, <1>9 DEF BeginWriteBack, WriteBackCell, EndWriteBack
<1>10. CASE BeginCentral
  BY <1>1, <1>10 DEF BeginCentral
<1>11. CASE CloseSaveFile
  BY <1>2, <1>11 DEF CloseSaveFile
<1>12. CASE EndCentral
  <2>1. device = "save"
    BY <1>12 DEF EndCentral, IInv, Device
  <2> QED
    BY <1>2, <1>12, <2>1 DEF EndCentral
<1> QED
  BY <1>3, <1>4, <1>5, <1>6, <1>7, <1>8, <1>9, <1>10, <1>11, <1>12 DEF Next, Close

(* An archive opened for writing only stays what it was until it is        *)
(* closed, and then is replaced in one step by contents of which every     *)
(* write was taken, or, with a full disk at the commit, by their           *)
(* beginning: whatever the format writes, QSaveFile remembers the first    *)
(* error, and an aborted session is never committed; but what the commit   *)
(* itself still has to write is not looked at.                             *)
THEOREM Atomic == Spec => WriteOnlyIsAtomic
<1>1. IInv /\ [Next]_vars
        => [mode = "W" /\ file' # file =>
               /\ mode' = "closed" /\ ~lost
               /\ \/ file' = work
                  \/ full /\ \E n \in 0..Len(work) : file' = SubSeq(work, 1, n)]_vars
  BY CommitsAtOnce
<1> QED
  BY <1>1, DeviceInvariance, PTL DEF Spec, WriteOnlyIsAtomic

-----------------------------------------------------------------------------
(* The numbers in the header of a 7-zip archive: what readNumber makes of  *)
(* what writeNumber has written, for all numbers and wherever they are in  *)
(* the header.                                                             *)
Wide == [1..8 -> 0..255]

(* i bytes follow the first one if the rest fits into it, and there is no  *)
(* more.                                                                   *)
FollowedBy(n, i) ==
    /\ n[i + 1] < 2^(7 - i)
    /\ \A k \in (i + 2)..8 : n[k] = 0

LEMMA FollowIsLeast ==
    ASSUME NEW n \in Wide, NEW m \in 0..7, FollowedBy(n, m)
    PROVE  /\ Follow(n) \in 0..m
           /\ FollowedBy(n, Follow(n))
<1> DEFINE fitting == {i \in 0..7 : FollowedBy(n, i)}
<1>1. Follow(n) = IF fitting = {} THEN 8 ELSE Min(fitting)
  BY DEF Follow, FollowedBy
<1>2. m \in fitting /\ fitting \subseteq 0..7
  OBVIOUS
<1> HIDE DEF fitting
<1>3. \E x \in fitting : \A y \in fitting : x <= y
  <2>1. CASE 0 \in fitting
    BY <1>2, <2>1
  <2>2. CASE 0 \notin fitting /\ 1 \in fitting
    BY <1>2, <2>2
  <2>3. CASE 0 \notin fitting /\ 1 \notin fitting /\ 2 \in fitting
    BY <1>2, <2>3
  <2>4. CASE (\A i \in 0..2 : i \notin fitting) /\ 3 \in fitting
    BY <1>2, <2>4
  <2>5. CASE (\A i \in 0..3 : i \notin fitting) /\ 4 \in fitting
    BY <1>2, <2>5
  <2>6. CASE (\A i \in 0..4 : i \notin fitting) /\ 5 \in fitting
    BY <1>2, <2>6
  <2>7. CASE (\A i \in 0..5 : i \notin fitting) /\ 6 \in fitting
    BY <1>2, <2>7
  <2>8. CASE (\A i \in 0..6 : i \notin fitting)
    BY <1>2, <2>8
  <2> QED
    BY <2>1, <2>2, <2>3, <2>4, <2>5, <2>6, <2>7, <2>8
<1>4. Min(fitting) \in fitting /\ \A y \in fitting : Min(fitting) <= y
  BY <1>3 DEF Min
<1>5. Follow(n) = Min(fitting)
  BY <1>1, <1>2
<1>6. Follow(n) \in fitting /\ Follow(n) <= m
  BY <1>2, <1>4, <1>5
<1> QED
  BY <1>2, <1>6 DEF fitting

(* The powers of two that occur for up to four bytes that follow.          *)
LEMMA Powers ==
    /\ 2^8 = 256 /\ 2^7 = 128 /\ 2^6 = 64 /\ 2^5 = 32 /\ 2^4 = 16
    /\ 2^3 = 8 /\ 2^2 = 4 /\ 2^1 = 2
OBVIOUS

LEMMA OnesAre ==
    /\ Ones(0) = 0 /\ Ones(1) = 128 /\ Ones(2) = 192 /\ Ones(3) = 224
    /\ Ones(4) = 240 /\ Ones(5) = 248 /\ Ones(6) = 252 /\ Ones(7) = 254
BY Powers DEF Ones

(* A first byte that says how many follow. *)
Says(first, i) ==
    /\ first \in Ones(i)..(Ones(i + 1) - 1)
    /\ Ones(i) \in 0..240
    /\ Ones(i + 1) \in 0..248
    /\ Max({k \in 0..7 : first >= Ones(k)}) = i

LEMMA FirstByte ==
    ASSUME NEW n \in Wide, NEW i \in 0..4, FollowedBy(n, i)
    PROVE  Says(Ones(i) + n[i + 1], i)
<1> DEFINE first == Ones(i) + n[i + 1]
           S == {k \in 0..7 : first >= Ones(k)}
<1>1. n[i + 1] \in 0..255
  BY DEF Wide
<1>2. n[i + 1] < 2^(7 - i)
  BY DEF FollowedBy
<1>3. /\ Ones(i) + n[i + 1] \in Ones(i)..(Ones(i + 1) - 1)
      /\ Ones(i) \in 0..240
      /\ Ones(i + 1) \in 0..248
  <2>1. CASE i = 0
    BY <1>1, <1>2, <2>1, OnesAre, Powers
  <2>2. CASE i = 1
    BY <1>1, <1>2, <2>2, OnesAre, Powers
  <2>3. CASE i = 2
    BY <1>1, <1>2, <2>3, OnesAre, Powers
  <2>4. CASE i = 3
    BY <1>1, <1>2, <2>4, OnesAre, Powers
  <2>5. CASE i = 4
    BY <1>1, <1>2, <2>5, OnesAre, Powers
  <2> QED
    BY <2>1, <2>2, <2>3, <2>4, <2>5
<1>4. \A k \in 0..7 : (k <= i => Ones(k) <= Ones(i)) /\ (k > i => Ones(k) >= Ones(i + 1))
  BY OnesAre
<1>5. \A k \in 0..7 : Ones(k) \in Int
  BY OnesAre
<1>6. i \in S /\ \A k \in S : k <= i
  <2>1. first \in Int /\ first >= Ones(i) /\ first < Ones(i + 1)
    BY <1>3
  <2> HIDE DEF first
  <2>2. i \in S
    BY <2>1
  <2>3. \A k \in S : k <= i
    BY <1>3, <1>4, <1>5, <2>1
  <2> QED
    BY <2>2, <2>3
<1>7. Max(S) = i
  <2>1. S \subseteq Int
    OBVIOUS
  <2> HIDE DEF S
  <2>2. \A y \in S : i >= y
    BY <1>6, <2>1
  <2>3. Max(S) \in S /\ \A y \in S : Max(S) >= y
    BY <1>6, <2>2 DEF Max
  <2>4. Max(S) >= i /\ i >= Max(S)
    BY <1>6, <2>2, <2>3
  <2>5. Max(S) \in Int
    BY <2>1, <2>3
  <2>6. i \in Int
    OBVIOUS
  <2> QED
    BY <2>4, <2>5, <2>6
<1> QED
  BY <1>3, <1>7 DEF Says

LEMMA FirstDigits ==
    ASSUME NEW n \in Wide, NEW i \in 0..4
    PROVE  /\ SubSeq(n, 1, i) \in Seq(Int)
           /\ Len(SubSeq(n, 1, i)) = i
           /\ \A k \in 1..i : SubSeq(n, 1, i)[k] = n[k]
<1>1. \A k \in 1..i : n[k] \in Int
  BY DEF Wide
<1>2. /\ SubSeq(n, 1, i) \in Seq(Int)
      /\ Len(SubSeq(n, 1, i)) = IF 1 <= i THEN i - 1 + 1 ELSE 0
      /\ \A k \in 1..(i - 1 + 1) : SubSeq(n, 1, i)[k] = n[1 + k - 1]
  BY <1>1, SubSeqProperties, 1 \in Int, i \in Int
<1>3. \A k \in 1..i : 1 + k - 1 = k /\ k \in 1..(i - 1 + 1)
  OBVIOUS
<1> QED
  BY <1>2, <1>3

(* The bytes that are written for a number. *)
LEMMA WrittenDigits ==
    ASSUME NEW n \in Wide, Follow(n) \in 0..4, FollowedBy(n, Follow(n))
    PROVE  /\ WriteDigits(n) \in Seq(Int)
           /\ Len(WriteDigits(n)) = Follow(n) + 1
           /\ WriteDigits(n)[1] = Ones(Follow(n)) + n[Follow(n) + 1]
           /\ \A k \in 1..Follow(n) : WriteDigits(n)[k + 1] = n[k]
<1> DEFINE i == Follow(n)
           first == Ones(i) + n[i + 1]
           rest == SubSeq(n, 1, i)
<1>1. WriteDigits(n) = <<first>> \o rest
  BY DEF WriteDigits
<1>2. /\ rest \in Seq(Int)
      /\ Len(rest) = i
      /\ \A k \in 1..i : rest[k] = n[k]
  BY FirstDigits
<1>3. first \in Int
  <2>1. Says(first, i)
    BY FirstByte
  <2> HIDE DEF first, i
  <2> QED
    BY <2>1 DEF Says
<1> HIDE DEF first, rest
<1>4. <<first>> \in Seq(Int) /\ Len(<<first>>) = 1 /\ <<first>>[1] = first
  BY <1>3
<1>5. /\ <<first>> \o rest \in Seq(Int)
      /\ Len(<<first>> \o rest) = 1 + i
      /\ \A k \in 1..(1 + i) : (<<first>> \o rest)[k] =
             IF k <= 1 THEN <<first>>[k] ELSE rest[k - 1]
  BY <1>2, <1>4, ConcatProperties
<1> HIDE DEF i
<1>6. \A k \in 1..i : (<<first>> \o rest)[k + 1] = rest[k]
  <2>1. TAKE k \in 1..i
  <2>2. i \in 0..4
    BY DEF i
  <2>3. k + 1 \in 1..(1 + i) /\ ~(k + 1 <= 1) /\ (k + 1) - 1 = k
    BY <2>2
  <2> QED
    BY <1>5, <2>3
<1>7. i \in 0..4 /\ (<<first>> \o rest)[1] = first
  <2>1. i \in 0..4 /\ 1 \in 1..(1 + i)
    BY DEF i
  <2> QED
    BY <1>4, <1>5, <2>1
<1> QED
  BY <1>1, <1>2, <1>5, <1>6, <1>7 DEF first, i

(* readNumber, where such a number is in the header. *)
LEMMA DigitsReadBack ==
    ASSUME NEW n \in Wide, Follow(n) \in 0..4, FollowedBy(n, Follow(n)), n[4] < 128,
           NEW b, NEW at \in Nat,
           \A k \in 1..(Follow(n) + 1) : b[at + k - 1] = WriteDigits(n)[k]
    PROVE  ReadDigits(b, at) = [value |-> n, next |-> at + Follow(n) + 1]
<1> DEFINE i == Follow(n)
<1>1. b[at] = Ones(i) + n[i + 1]
  BY WrittenDigits
<1>2. \A k \in 1..i : b[at + k] = n[k]
  <2>1. TAKE k \in 1..i
  <2>2. k + 1 \in 1..(i + 1) /\ at + (k + 1) - 1 = at + k
    OBVIOUS
  <2>3. b[at + k] = WriteDigits(n)[k + 1]
    BY <2>2
  <2> QED
    BY <2>3, WrittenDigits
<1>3. n[i + 1] \in 0..255 /\ \A k \in 1..8 : n[k] \in 0..255
  BY DEF Wide
<1>4. /\ b[at] \in Ones(i)..(Ones(i + 1) - 1) /\ Ones(i) \in 0..240 /\ Ones(i + 1) \in 0..248
      /\ Max({k \in 0..7 : b[at] >= Ones(k)}) = i
  <2>1. Says(Ones(i) + n[i + 1], i)
    BY FirstByte
  <2> HIDE DEF i
  <2> QED
    BY <1>1, <2>1 DEF Says
<1>5. b[at] # 255
  BY <1>4
<1>6. ~(i >= 4 /\ b[at + 4] >= 128)
  BY <1>2, <1>3
<1>7. b[at] - Ones(i) = n[i + 1]
  <2> HIDE DEF i
  <2>1. Ones(i) \in Int /\ n[i + 1] \in Int
    BY <1>3, <1>4
  <2> QED
    BY <1>1, <2>1
<1>8. \A k \in (i + 2)..8 : n[k] = 0
  BY DEF FollowedBy
<1> DEFINE Digit(k) == IF (i >= 4 /\ b[at + 4] >= 128) /\ k > 4 THEN 255
                       ELSE IF k <= i THEN b[at + k]
                       ELSE IF k = i + 1 THEN b[at] - Ones(i)
                       ELSE 0
<1>9. \A k \in 1..8 : Digit(k) = n[k]
  BY <1>2, <1>6, <1>7, <1>8
<1>10. ReadDigits(b, at) = [value |-> IF i > 4 THEN GarbledDigits ELSE [k \in 1..8 |-> Digit(k)],
                            next |-> at + i + 1]
  BY <1>4, <1>5 DEF ReadDigits
<1>11. n = [k \in 1..8 |-> n[k]]
  BY DEF Wide
<1> HIDE DEF Digit
<1>12. [k \in 1..8 |-> Digit(k)] = n
  BY <1>9, <1>11
<1> QED
  BY <1>10, <1>12

-----------------------------------------------------------------------------
LEMMA NumberKept == HeaderSpec => [](number \in Wide)
<1>1. HeaderInit => number \in Wide
  BY SevenZipHeaderAssumption DEF HeaderInit, Wide
<1>2. number \in Wide /\ [HeaderNext]_headerVars => (number \in Wide)'
  BY DEF HeaderNext, AddItem, headerVars
<1> QED
  BY <1>1, <1>2, PTL DEF HeaderSpec

(* Each number that writeNumber writes in up to five bytes, the highest    *)
(* bit of the fourth not set, is what readNumber reads.                    *)
THEOREM Numbers == HeaderSpec => []NumbersReadBack
<1>1. ASSUME number \in Wide PROVE NumbersReadBack
  <2> SUFFICES ASSUME number[4] < 128, Follow(number) <= 4
               PROVE  ReadDigits(WriteDigits(number), 1)
                          = [value |-> number, next |-> Follow(number) + 2]
    BY DEF NumbersReadBack
  <2> DEFINE fitting == {i \in 0..7 : FollowedBy(number, i)}
  <2>1. fitting # {}
    <3>1. fitting = {} => Follow(number) = 8
      BY DEF Follow, FollowedBy
    <3> QED
      BY <3>1
  <2>2. PICK m \in 0..7 : FollowedBy(number, m)
    BY <2>1
  <2>3. Follow(number) \in 0..m /\ FollowedBy(number, Follow(number))
    BY <1>1, <2>2, FollowIsLeast
  <2>4. Follow(number) \in 0..4
    BY <2>3
  <2>5. \A k \in 1..(Follow(number) + 1) : WriteDigits(number)[1 + k - 1] = WriteDigits(number)[k]
    BY <2>4
  <2>6. ReadDigits(WriteDigits(number), 1) = [value |-> number, next |-> 1 + Follow(number) + 1]
    BY <1>1, <2>3, <2>4, <2>5, DigitsReadBack
  <2> QED
    BY <2>4, <2>6
<1> QED
  BY <1>1, NumberKept, PTL

(* The numbers of the header are ints: lengths, sizes and counts.  Each    *)
(* one is read as it was written, wherever it is.                          *)
THEOREM IntsReadBack ==
    ASSUME NEW n \in Nat, n < 2147483648, NEW b, NEW at \in Nat,
           \A k \in DOMAIN WriteNumber(n) : b[at + k - 1] = WriteNumber(n)[k]
    PROVE  ReadNumber(b, at) = [value |-> n, next |-> at + Len(WriteNumber(n))]
<1> DEFINE d == Digits(n)
<1>1. /\ d[1] = n % 256 /\ d[2] = (n \div 256) % 256
      /\ d[3] = (n \div 65536) % 256 /\ d[4] = (n \div 16777216) % 256
      /\ \A k \in 5..8 : d[k] = 0
  <2>1. 256^0 = 1 /\ 256^1 = 256 /\ 256^2 = 65536 /\ 256^3 = 16777216
    BY SMT
  <2>2. \A k \in 1..8 : d[k] = IF k < 5 THEN (n \div 256^(k - 1)) % 256 ELSE 0
    BY SMT DEF Digits
  <2>3. d[1] = (n \div 256^0) % 256 /\ d[2] = (n \div 256^1) % 256
           /\ d[3] = (n \div 256^2) % 256 /\ d[4] = (n \div 256^3) % 256
    BY SMT, <2>2
  <2>4. n \div 1 = n
    BY SMT
  <2>5. \A k \in 5..8 : d[k] = 0
    BY SMT, <2>2
  <2> QED
    BY SMT, <2>1, <2>3, <2>4, <2>5
<1>2. d[1] \in 0..255 /\ d[2] \in 0..255 /\ d[3] \in 0..255 /\ d[4] \in 0..127
  BY SMT, <1>1
<1>3. d \in Wide
  <2>1. DOMAIN d = 1..8 /\ d = [k \in 1..8 |-> d[k]]
    BY SMT DEF Digits
  <2>2. \A k \in 1..8 : d[k] \in 0..255
    BY SMT, <1>1, <1>2
  <2> HIDE DEF d
  <2> QED
    BY SMT, <2>1, <2>2 DEF Wide
<1>4. d[1] + 256 * d[2] + 65536 * d[3] + 16777216 * d[4] = n
  BY SMT, <1>1
<1> HIDE DEF d
<1>5. FollowedBy(d, 4)
  BY SMT, <1>1, Powers DEF FollowedBy
<1>6. Follow(d) \in 0..4 /\ FollowedBy(d, Follow(d))
  BY SMT, <1>3, <1>5, FollowIsLeast
<1>7. WriteNumber(n) = WriteDigits(d)
  BY SMT DEF WriteNumber, d
<1>8. Len(WriteDigits(d)) = Follow(d) + 1 /\ DOMAIN WriteDigits(d) = 1..(Follow(d) + 1)
  BY SMT, <1>3, <1>6, WrittenDigits
<1>9. \A k \in 1..(Follow(d) + 1) : b[at + k - 1] = WriteDigits(d)[k]
  BY SMT, <1>7, <1>8
<1>10. d[4] < 128
  BY SMT, <1>2
<1>11. ReadDigits(b, at) = [value |-> d, next |-> at + Follow(d) + 1]
  BY SMT, <1>3, <1>6, <1>9, <1>10, DigitsReadBack
<1>12. NumberOf(d) = n
  BY SMT, <1>1, <1>2, <1>4 DEF NumberOf
<1>13. ReadNumber(b, at) = [value |-> n, next |-> at + Follow(d) + 1]
  BY SMT, <1>11, <1>12 DEF ReadNumber
<1> QED
  BY SMT, <1>6, <1>7, <1>8, <1>13

-----------------------------------------------------------------------------
(* Functions that are defined for all lengths up to some are what their    *)
(* definitions say.                                                        *)

Below == {ss \in Nat \X Nat : ss[1] < ss[2]}

(* Each set of natural numbers has a least element. *)
LEMMA Least ==
    ASSUME NEW T, T \subseteq Nat, T # {}
    PROVE  \E x \in T : \A y \in T : x <= y
<1>1. IsWellFoundedOn(Below, Nat)
  BY NatLessThanWellFounded DEF OpToRel, Below
<1>2. PICK x \in T : \A y \in T : <<y, x>> \notin Below
  BY <1>1, WFMin
<1>3. \A y \in T : ~(y < x)
  BY <1>2 DEF Below
<1> QED
  BY <1>2, <1>3

(* Induction up to a number, for a set. *)
LEMMA UpTo ==
    ASSUME NEW L \in Nat, NEW P, 0 \in P, \A n \in 1..L : n - 1 \in P => n \in P
    PROVE  \A n \in 0..L : n \in P
<1> DEFINE T == {n \in 0..L : n \notin P}
<1>1. SUFFICES ASSUME T # {} PROVE FALSE
  OBVIOUS
<1>2. PICK x \in T : \A y \in T : x <= y
  <2>1. T \subseteq Nat
    OBVIOUS
  <2> QED
    BY <1>1, <2>1, Least
<1>3. x \in 1..L /\ x - 1 \in 0..L /\ x - 1 \notin T
  BY <1>2
<1> QED
  BY <1>2, <1>3

-----------------------------------------------------------------------------
(* The elements of a sequence at some places. *)
LEMMA OnlyIs ==
    ASSUME NEW s, NEW places, Len(s) \in Nat
    PROVE  \E f : /\ Only(s, places) = f[Len(s)]
                  /\ f[0] = <<>>
                  /\ \A n \in 1..Len(s) : f[n] = IF n \in places THEN Append(f[n - 1], s[n]) ELSE f[n - 1]
<1> DEFINE L == Len(s)
<1>0. L \in Nat
  OBVIOUS
<1> HIDE DEF L
<1> DEFINE Is(f, k) == f = [n \in 0..k |-> IF n = 0 THEN <<>> ELSE IF n \in places THEN Append(f[n - 1], s[n]) ELSE f[n - 1]]
           P == {k \in 0..L : \E f : Is(f, k)}
<1>1. 0 \in P
  <2> DEFINE f == [n \in 0..0 |-> <<>>]
  <2>1. Is(f, 0)
    OBVIOUS
  <2> HIDE DEF f, Is
  <2> QED
    BY <1>0, <2>1
<1>2. ASSUME NEW k \in 1..L, k - 1 \in P PROVE k \in P
  <2>1. PICK f : Is(f, k - 1)
    BY <1>2
  <2> DEFINE h == [n \in 0..k |-> IF n = 0 THEN <<>> ELSE IF n \in places THEN Append(f[n - 1], s[n]) ELSE f[n - 1]]
  <2>2. \A n \in 1..k : h[n - 1] = f[n - 1]
    <3>1. TAKE n \in 1..k
    <3>2. n - 1 \in 0..k /\ n - 1 \in 0..(k - 1)
      OBVIOUS
    <3>3. h[n - 1] = IF n - 1 = 0 THEN <<>> ELSE IF n - 1 \in places THEN Append(f[(n - 1) - 1], s[n - 1]) ELSE f[(n - 1) - 1]
      BY <3>2
    <3> QED
      BY <2>1, <3>2, <3>3
  <2>3. Is(h, k)
    <3>1. \A n \in 0..k : n # 0 => n \in 1..k
      OBVIOUS
    <3> QED
      BY <2>2, <3>1
  <2> HIDE DEF h, Is
  <2> QED
    BY <2>3
<1>3. \A k \in 0..L : k \in P
  <2> HIDE DEF P
  <2> QED
    BY <1>0, <1>1, <1>2, UpTo
<1>4. \E f : Is(f, L)
  <2> HIDE DEF Is
  <2> QED
    BY <1>0, <1>3
<1> DEFINE f == CHOOSE f : Is(f, L)
<1>5. Is(f, L)
  <2> HIDE DEF Is
  <2> QED
    BY <1>4
<1>6. Only(s, places) = f[Len(s)]
  BY DEF Only, L
<1> HIDE DEF f
<1>7. f[0] = <<>>
  BY <1>0, <1>5
<1>8. \A n \in 1..L : f[n] = IF n \in places THEN Append(f[n - 1], s[n]) ELSE f[n - 1]
  <2>1. TAKE n \in 1..L
  <2>2. n \in 0..L /\ n # 0
    BY <1>0
  <2> QED
    BY <1>5, <2>2
<1> QED
  BY <1>6, <1>7, <1>8 DEF L


(* The directories above an entry. *)
LEMMA FindOrCreateIs ==
    ASSUME NEW tree0, NEW path, Len(path) \in Nat
    PROVE  \E f : /\ FindOrCreate(tree0, path) = f[Len(path)]
                  /\ f[0] = tree0
                  /\ \A n \in 1..Len(path) : f[n] = WithDir(f[n - 1], SubSeq(path, 1, n))
<1> DEFINE L == Len(path)
<1>0. L \in Nat
  OBVIOUS
<1> HIDE DEF L
<1> DEFINE Is(f, k) == f = [n \in 0..k |-> IF n = 0 THEN tree0 ELSE WithDir(f[n - 1], SubSeq(path, 1, n))]
           P == {k \in 0..L : \E f : Is(f, k)}
<1>1. 0 \in P
  <2> DEFINE f == [n \in 0..0 |-> tree0]
  <2>1. Is(f, 0)
    OBVIOUS
  <2> HIDE DEF f, Is
  <2> QED
    BY <1>0, <2>1
<1>2. ASSUME NEW k \in 1..L, k - 1 \in P PROVE k \in P
  <2>1. PICK f : Is(f, k - 1)
    BY <1>2
  <2> DEFINE h == [n \in 0..k |-> IF n = 0 THEN tree0 ELSE WithDir(f[n - 1], SubSeq(path, 1, n))]
  <2>2. \A n \in 1..k : h[n - 1] = f[n - 1]
    <3>1. TAKE n \in 1..k
    <3>2. n - 1 \in 0..k /\ n - 1 \in 0..(k - 1)
      OBVIOUS
    <3>3. h[n - 1] = IF n - 1 = 0 THEN tree0 ELSE WithDir(f[(n - 1) - 1], SubSeq(path, 1, n - 1))
      BY <3>2
    <3> QED
      BY <2>1, <3>2, <3>3
  <2>3. Is(h, k)
    <3>1. \A n \in 0..k : n # 0 => n \in 1..k
      OBVIOUS
    <3> QED
      BY <2>2, <3>1
  <2> HIDE DEF h, Is
  <2> QED
    BY <2>3
<1>3. \A k \in 0..L : k \in P
  <2> HIDE DEF P
  <2> QED
    BY <1>0, <1>1, <1>2, UpTo
<1>4. \E f : Is(f, L)
  <2> HIDE DEF Is
  <2> QED
    BY <1>0, <1>3
<1> DEFINE f == CHOOSE f : Is(f, L)
<1>5. Is(f, L)
  <2> HIDE DEF Is
  <2> QED
    BY <1>4
<1>6. FindOrCreate(tree0, path) = f[Len(path)]
  BY DEF FindOrCreate, L
<1> HIDE DEF f
<1>7. f[0] = tree0
  BY <1>0, <1>5
<1>8. \A n \in 1..L : f[n] = WithDir(f[n - 1], SubSeq(path, 1, n))
  <2>1. TAKE n \in 1..L
  <2>2. n \in 0..L /\ n # 0
    BY <1>0
  <2> QED
    BY <1>5, <2>2
<1> QED
  BY <1>6, <1>7, <1>8 DEF L


(* The directory of a tar file. *)
LEMMA TarTreeIs ==
    ASSUME NEW entries, Len(entries) \in Nat
    PROVE  \E f : /\ TarTree(entries) = f[Len(entries)]
                  /\ f[0] = EmptyTree
                  /\ \A n \in 1..Len(entries) : f[n] = Insert(f[n - 1], entries[n][1], entries[n][2])
<1> DEFINE L == Len(entries)
<1>0. L \in Nat
  OBVIOUS
<1> HIDE DEF L
<1> DEFINE Is(f, k) == f = [n \in 0..k |-> IF n = 0 THEN EmptyTree ELSE Insert(f[n - 1], entries[n][1], entries[n][2])]
           P == {k \in 0..L : \E f : Is(f, k)}
<1>1. 0 \in P
  <2> DEFINE f == [n \in 0..0 |-> EmptyTree]
  <2>1. Is(f, 0)
    OBVIOUS
  <2> HIDE DEF f, Is
  <2> QED
    BY <1>0, <2>1
<1>2. ASSUME NEW k \in 1..L, k - 1 \in P PROVE k \in P
  <2>1. PICK f : Is(f, k - 1)
    BY <1>2
  <2> DEFINE h == [n \in 0..k |-> IF n = 0 THEN EmptyTree ELSE Insert(f[n - 1], entries[n][1], entries[n][2])]
  <2>2. \A n \in 1..k : h[n - 1] = f[n - 1]
    <3>1. TAKE n \in 1..k
    <3>2. n - 1 \in 0..k /\ n - 1 \in 0..(k - 1)
      OBVIOUS
    <3>3. h[n - 1] = IF n - 1 = 0 THEN EmptyTree ELSE Insert(f[(n - 1) - 1], entries[n - 1][1], entries[n - 1][2])
      BY <3>2
    <3> QED
      BY <2>1, <3>2, <3>3
  <2>3. Is(h, k)
    <3>1. \A n \in 0..k : n # 0 => n \in 1..k
      OBVIOUS
    <3> QED
      BY <2>2, <3>1
  <2> HIDE DEF h, Is
  <2> QED
    BY <2>3
<1>3. \A k \in 0..L : k \in P
  <2> HIDE DEF P
  <2> QED
    BY <1>0, <1>1, <1>2, UpTo
<1>4. \E f : Is(f, L)
  <2> HIDE DEF Is
  <2> QED
    BY <1>0, <1>3
<1> DEFINE f == CHOOSE f : Is(f, L)
<1>5. Is(f, L)
  <2> HIDE DEF Is
  <2> QED
    BY <1>4
<1>6. TarTree(entries) = f[Len(entries)]
  BY DEF TarTree, L
<1> HIDE DEF f
<1>7. f[0] = EmptyTree
  BY <1>0, <1>5
<1>8. \A n \in 1..L : f[n] = Insert(f[n - 1], entries[n][1], entries[n][2])
  <2>1. TAKE n \in 1..L
  <2>2. n \in 0..L /\ n # 0
    BY <1>0
  <2> QED
    BY <1>5, <2>2
<1> QED
  BY <1>6, <1>7, <1>8 DEF L


(* The directory of a zip file. *)
LEMMA ZipTreeIs ==
    ASSUME NEW files, Len(files) \in Nat
    PROVE  \E f : /\ ZipTree(files) = f[Len(files)]
                  /\ f[0] = EmptyTree
                  /\ \A n \in 1..Len(files) : f[n] = WithFile(f[n - 1], files[n])
<1> DEFINE L == Len(files)
<1>0. L \in Nat
  OBVIOUS
<1> HIDE DEF L
<1> DEFINE Is(f, k) == f = [n \in 0..k |-> IF n = 0 THEN EmptyTree ELSE WithFile(f[n - 1], files[n])]
           P == {k \in 0..L : \E f : Is(f, k)}
<1>1. 0 \in P
  <2> DEFINE f == [n \in 0..0 |-> EmptyTree]
  <2>1. Is(f, 0)
    OBVIOUS
  <2> HIDE DEF f, Is
  <2> QED
    BY <1>0, <2>1
<1>2. ASSUME NEW k \in 1..L, k - 1 \in P PROVE k \in P
  <2>1. PICK f : Is(f, k - 1)
    BY <1>2
  <2> DEFINE h == [n \in 0..k |-> IF n = 0 THEN EmptyTree ELSE WithFile(f[n - 1], files[n])]
  <2>2. \A n \in 1..k : h[n - 1] = f[n - 1]
    <3>1. TAKE n \in 1..k
    <3>2. n - 1 \in 0..k /\ n - 1 \in 0..(k - 1)
      OBVIOUS
    <3>3. h[n - 1] = IF n - 1 = 0 THEN EmptyTree ELSE WithFile(f[(n - 1) - 1], files[n - 1])
      BY <3>2
    <3> QED
      BY <2>1, <3>2, <3>3
  <2>3. Is(h, k)
    <3>1. \A n \in 0..k : n # 0 => n \in 1..k
      OBVIOUS
    <3> QED
      BY <2>2, <3>1
  <2> HIDE DEF h, Is
  <2> QED
    BY <2>3
<1>3. \A k \in 0..L : k \in P
  <2> HIDE DEF P
  <2> QED
    BY <1>0, <1>1, <1>2, UpTo
<1>4. \E f : Is(f, L)
  <2> HIDE DEF Is
  <2> QED
    BY <1>0, <1>3
<1> DEFINE f == CHOOSE f : Is(f, L)
<1>5. Is(f, L)
  <2> HIDE DEF Is
  <2> QED
    BY <1>4
<1>6. ZipTree(files) = f[Len(files)]
  BY DEF ZipTree, L
<1> HIDE DEF f
<1>7. f[0] = EmptyTree
  BY <1>0, <1>5
<1>8. \A n \in 1..L : f[n] = WithFile(f[n - 1], files[n])
  <2>1. TAKE n \in 1..L
  <2>2. n \in 0..L /\ n # 0
    BY <1>0
  <2> QED
    BY <1>5, <2>2
<1> QED
  BY <1>6, <1>7, <1>8 DEF L


(* The sizes in the local headers of a zip file. *)
LEMMA FillInIs ==
    ASSUME NEW cells, NEW files, Len(files) \in Nat
    PROVE  \E f : /\ FillIn(cells, files) = f[Len(files)]
                  /\ f[0] = cells
                  /\ \A n \in 1..Len(files) : f[n] = Fill(f[n - 1], files[n])
<1> DEFINE L == Len(files)
<1>0. L \in Nat
  OBVIOUS
<1> HIDE DEF L
<1> DEFINE Is(f, k) == f = [n \in 0..k |-> IF n = 0 THEN cells ELSE Fill(f[n - 1], files[n])]
           P == {k \in 0..L : \E f : Is(f, k)}
<1>1. 0 \in P
  <2> DEFINE f == [n \in 0..0 |-> cells]
  <2>1. Is(f, 0)
    OBVIOUS
  <2> HIDE DEF f, Is
  <2> QED
    BY <1>0, <2>1
<1>2. ASSUME NEW k \in 1..L, k - 1 \in P PROVE k \in P
  <2>1. PICK f : Is(f, k - 1)
    BY <1>2
  <2> DEFINE h == [n \in 0..k |-> IF n = 0 THEN cells ELSE Fill(f[n - 1], files[n])]
  <2>2. \A n \in 1..k : h[n - 1] = f[n - 1]
    <3>1. TAKE n \in 1..k
    <3>2. n - 1 \in 0..k /\ n - 1 \in 0..(k - 1)
      OBVIOUS
    <3>3. h[n - 1] = IF n - 1 = 0 THEN cells ELSE Fill(f[(n - 1) - 1], files[n - 1])
      BY <3>2
    <3> QED
      BY <2>1, <3>2, <3>3
  <2>3. Is(h, k)
    <3>1. \A n \in 0..k : n # 0 => n \in 1..k
      OBVIOUS
    <3> QED
      BY <2>2, <3>1
  <2> HIDE DEF h, Is
  <2> QED
    BY <2>3
<1>3. \A k \in 0..L : k \in P
  <2> HIDE DEF P
  <2> QED
    BY <1>0, <1>1, <1>2, UpTo
<1>4. \E f : Is(f, L)
  <2> HIDE DEF Is
  <2> QED
    BY <1>0, <1>3
<1> DEFINE f == CHOOSE f : Is(f, L)
<1>5. Is(f, L)
  <2> HIDE DEF Is
  <2> QED
    BY <1>4
<1>6. FillIn(cells, files) = f[Len(files)]
  BY DEF FillIn, L
<1> HIDE DEF f
<1>7. f[0] = cells
  BY <1>0, <1>5
<1>8. \A n \in 1..L : f[n] = Fill(f[n - 1], files[n])
  <2>1. TAKE n \in 1..L
  <2>2. n \in 0..L /\ n # 0
    BY <1>0
  <2> QED
    BY <1>5, <2>2
<1> QED
  BY <1>6, <1>7, <1>8 DEF L

-----------------------------------------------------------------------------
(* Sequences, and the directory: entries whose data is before a place.     *)

LEMMA SeqElement ==
    ASSUME NEW S, NEW s \in Seq(S)
    PROVE  /\ Len(s) \in Nat /\ DOMAIN s = 1..Len(s)
           /\ \A i \in DOMAIN s : s[i] \in S
           /\ \A i \in 1..Len(s) : s[i] \in S
OBVIOUS

LEMMA CellId ==
    ASSUME NEW c \in Cell
    PROVE  /\ c.what \in What /\ c.path \in Path \cup {<<>>} /\ c.kind \in Kind /\ c.id \in Nat
           /\ c.size \in Nat \cup {-1} /\ c.start \in Nat
BY DEF Cell

(* What is taken from a sequence is in it. *)
LEMMA OnlyTakes ==
    ASSUME NEW s, Len(s) \in Nat, NEW places, NEW S, \A n \in 1..Len(s) : n \in places => s[n] \in S
    PROVE  Only(s, places) \in Seq(S)
<1> DEFINE L == Len(s)
<1>0. L \in Nat
  OBVIOUS
<1>1. PICK f : /\ Only(s, places) = f[L]
               /\ f[0] = <<>>
               /\ \A n \in 1..L : f[n] = IF n \in places THEN Append(f[n - 1], s[n]) ELSE f[n - 1]
  BY OnlyIs
<1>2. \A n \in 1..L : n \in places => s[n] \in S
  OBVIOUS
<1> HIDE DEF L
<1> DEFINE P == {n \in 0..L : f[n] \in Seq(S)}
<1>3. 0 \in P
  <2>1. <<>> \in Seq(S)
    OBVIOUS
  <2>2. f[0] \in Seq(S)
    BY <1>1, <2>1
  <2> QED
    BY <1>0, <2>2
<1>4. ASSUME NEW n \in 1..L, n - 1 \in P PROVE n \in P
  <2>1. f[n - 1] \in Seq(S) /\ n \in 0..L
    BY <1>0, <1>4
  <2>2. f[n] \in Seq(S)
    <3>1. CASE n \in places
      <4>1. s[n] \in S /\ f[n] = Append(f[n - 1], s[n])
        BY <1>1, <1>2, <3>1
      <4> QED
        BY <2>1, <4>1, AppendProperties
    <3>2. CASE n \notin places
      BY <1>1, <2>1, <3>2
    <3> QED
      BY <3>1, <3>2
  <2> QED
    BY <2>1, <2>2
<1>5. \A n \in 0..L : n \in P
  <2> HIDE DEF P
  <2> QED
    BY <1>0, <1>3, <1>4, UpTo
<1> QED
  BY <1>0, <1>1, <1>5

-----------------------------------------------------------------------------
(* Entries whose data is before a place. *)
GoodEntry(cells, to, e) ==
    e.kind = "file" => /\ e.pos \in Nat /\ e.size \in Nat
                       /\ e.size = 0 \/ (e.pos + e.size <= to /\ HasData(cells, e.pos, e.size))

GoodTree(cells, to, t) == \A p \in DOMAIN t : GoodEntry(cells, to, t[p])

LEMMA NoEntries == ASSUME NEW cells, NEW to PROVE GoodTree(cells, to, EmptyTree)
BY DEF GoodTree, EmptyTree

LEMMA DirIsGood == ASSUME NEW cells, NEW to PROVE GoodEntry(cells, to, DirEntry)
BY DEF GoodEntry, DirEntry

LEMMA AddKeeps ==
    ASSUME NEW cells, NEW to, NEW t, GoodTree(cells, to, t), NEW p, NEW e, GoodEntry(cells, to, e)
    PROVE  GoodTree(cells, to, AddEntry(t, p, e)) /\ p \in DOMAIN AddEntry(t, p, e) /\ AddEntry(t, p, e)[p] = e
<1>1. \A q \in DOMAIN AddEntry(t, p, e) :
         q = p \/ (q \in DOMAIN t /\ AddEntry(t, p, e)[q] = t[q])
  BY DEF AddEntry
<1>2. p \in DOMAIN AddEntry(t, p, e) /\ AddEntry(t, p, e)[p] = e
  BY DEF AddEntry
<1> QED
  BY <1>1, <1>2 DEF GoodTree

LEMMA WithDirKeeps ==
    ASSUME NEW cells, NEW to, NEW t, GoodTree(cells, to, t), NEW p
    PROVE  GoodTree(cells, to, WithDir(t, p))
BY AddKeeps, DirIsGood DEF WithDir

LEMMA FindOrCreateKeeps ==
    ASSUME NEW cells, NEW to, NEW t, GoodTree(cells, to, t), NEW p, Len(p) \in Nat
    PROVE  GoodTree(cells, to, FindOrCreate(t, p))
<1> DEFINE L == Len(p)
<1>0. L \in Nat
  OBVIOUS
<1>1. PICK f : /\ FindOrCreate(t, p) = f[L]
               /\ f[0] = t
               /\ \A n \in 1..L : f[n] = WithDir(f[n - 1], SubSeq(p, 1, n))
  BY FindOrCreateIs
<1> HIDE DEF L
<1> DEFINE P == {n \in 0..L : GoodTree(cells, to, f[n])}
<1>2. 0 \in P
  BY <1>0, <1>1
<1>3. ASSUME NEW n \in 1..L, n - 1 \in P PROVE n \in P
  <2>1. GoodTree(cells, to, f[n - 1]) /\ n \in 0..L
    BY <1>0, <1>3
  <2>2. GoodTree(cells, to, f[n])
    BY <1>1, <2>1, WithDirKeeps
  <2> QED
    BY <2>1, <2>2
<1>4. \A n \in 0..L : n \in P
  <2> HIDE DEF P
  <2> QED
    BY <1>0, <1>2, <1>3, UpTo
<1> QED
  BY <1>0, <1>1, <1>4

LEMMA FrontHasLength ==
    ASSUME NEW p \in Seq(Name)
    PROVE  Len(Front(p)) \in Nat
BY SubSeqProperties DEF Front

LEMMA InsertKeeps ==
    ASSUME NEW cells, NEW to, NEW t, GoodTree(cells, to, t), NEW p \in Seq(Name),
           NEW e, GoodEntry(cells, to, e)
    PROVE  GoodTree(cells, to, Insert(t, p, e)) /\ p \in DOMAIN Insert(t, p, e) /\ Insert(t, p, e)[p] = e
<1>1. GoodTree(cells, to, FindOrCreate(t, Front(p)))
  BY FrontHasLength, FindOrCreateKeeps
<1> QED
  BY <1>1, AddKeeps DEF Insert

(* What an entry with its data in its place reads. *)
LEMMA NotGarbled ==
    ASSUME NEW cells \in Seq(Cell), NEW to, NEW e, e.kind = "file", GoodEntry(cells, to, e)
    PROVE  DataAt(cells, e) # Garbled
<1> DEFINE range == (e.pos + 1)..(e.pos + e.size)
           ids == {cells[i].id : i \in range \cap DOMAIN cells}
<1>1. e.pos \in Nat /\ e.size \in Nat
  BY DEF GoodEntry
<1>2. CASE range = {}
  BY <1>2 DEF DataAt, Empty, Garbled
<1>3. CASE range # {}
  <2> DEFINE id0 == cells[e.pos + 1].id
  <2>1. e.size # 0
    BY <1>1, <1>3
  <2>2. HasData(cells, e.pos, e.size)
    BY <2>1 DEF GoodEntry
  <2>3. \A i \in range : i \in DOMAIN cells /\ cells[i] = Data(id0, i - e.pos)
    <3>1. TAKE i \in range
    <3>2. i - e.pos \in 1..e.size /\ e.pos + (i - e.pos) = i
      BY <1>1
    <3> QED
      BY <2>2, <3>2 DEF HasData
  <2>4. \A i \in range : i \in DOMAIN cells /\ cells[i].id = id0
    BY <2>3 DEF Data, Mark
  <2>5. e.pos + 1 \in range
    BY <1>1, <2>1
  <2>6. id0 \in Nat
    <3>1. e.pos + 1 \in DOMAIN cells
      BY <2>4, <2>5
    <3>2. cells[e.pos + 1] \in Cell
      BY <3>1, SeqElement
    <3> QED
      BY <3>2, CellId
  <2>7. ids = {id0}
    BY <2>4, <2>5
  <2>8. Cardinality(ids) = 1
    BY <2>7, FS_Singleton
  <2>9. \A i \in range : cells[i] = Data(cells[i].id, i - e.pos)
    BY <2>3, <2>4
  <2>10. range \subseteq DOMAIN cells
    BY <2>4
  <2>11. DataAt(cells, e) = CHOOSE id \in ids : TRUE
    <3> HIDE DEF id0
    <3> QED
      BY <1>3, <2>8, <2>9, <2>10 DEF DataAt
  <2>12. DataAt(cells, e) = id0
    BY <2>7, <2>11
  <2> QED
    BY <2>6, <2>12 DEF Garbled
<1> QED
  BY <1>2, <1>3

-----------------------------------------------------------------------------
(* What a write to the device leaves as it was.                            *)

(* The longer of two lengths. *)
LEMMA MaxOfTwo ==
    ASSUME NEW a \in Int, NEW b \in Int
    PROVE  Max({a, b}) = IF a >= b THEN a ELSE b
<1> DEFINE m == IF a >= b THEN a ELSE b
<1>1. m \in {a, b} /\ \A y \in {a, b} : m >= y
  OBVIOUS
<1>2. \A x \in {a, b} : (\A y \in {a, b} : x >= y) => x = m
  OBVIOUS
<1> HIDE DEF m
<1>3. Max({a, b}) \in {a, b} /\ \A y \in {a, b} : Max({a, b}) >= y
  BY <1>1 DEF Max
<1>4. Max({a, b}) = m
  BY <1>2, <1>3
<1> QED
  BY <1>4 DEF m

LEMMA ZeroCell == Mark("zero") \in Cell /\ Mark("zero").what = "zero"
BY DEF Mark, Cell, What, Kind

(* A cell that is written is where it is written, and no other changes. *)
IsPutAt(d, c, at, x) ==
    /\ d \in Seq(Cell) /\ Len(d) = (IF Len(c) >= at + 1 THEN Len(c) ELSE at + 1)
    /\ d[at + 1] = x
    /\ \A i \in 1..Len(c) : i # at + 1 => d[i] = c[i]
    /\ \A i \in 1..Len(d) : i > Len(c) /\ i # at + 1 => d[i] = Mark("zero")

LEMMA PutAtDoes ==
    ASSUME NEW c \in Seq(Cell), NEW at \in Nat, NEW x \in Cell
    PROVE  IsPutAt(PutAt(c, at, x), c, at, x)
<1> DEFINE L == Len(c)
           N == IF L >= at + 1 THEN L ELSE at + 1
           new == [i \in 1..N |-> IF i = at + 1 THEN x ELSE IF i > L THEN Mark("zero") ELSE c[i]]
<1>0. L \in Nat /\ \A i \in 1..L : c[i] \in Cell
  BY SeqElement
<1>1. PutAt(c, at, x) = new
  <2>1. Max({L, at + 1}) = N
    BY <1>0, MaxOfTwo
  <2> QED
    BY <2>1 DEF PutAt
<1> HIDE DEF L
<1>2. N \in Nat /\ at + 1 \in 1..N /\ \A i \in 1..L : i \in 1..N
  BY <1>0
<1> HIDE DEF N
<1>3. \A i \in 1..N : new[i] \in Cell
  <2>1. TAKE i \in 1..N
  <2>2. i > L \/ i \in 1..L
    BY <1>0, <1>2
  <2> QED
    BY <1>0, <2>2, ZeroCell
<1>4. new \in Seq(Cell) /\ Len(new) = N
  <2>1. new = [i \in 1..N |-> new[i]]
    OBVIOUS
  <2> QED
    BY <1>2, <1>3, IsASeq
<1>5. new[at + 1] = x /\ \A i \in 1..L : i # at + 1 => new[i] = c[i]
  BY <1>0, <1>2
<1>6. \A i \in 1..N : i > L /\ i # at + 1 => new[i] = Mark("zero")
  OBVIOUS
<1> HIDE DEF new
<1>7. IsPutAt(new, c, at, x)
  BY <1>4, <1>5, <1>6 DEF IsPutAt, L, N
<1> QED
  BY <1>1, <1>7

LEMMA PutAtOK ==
    ASSUME NEW c \in Seq(Cell), NEW at \in Nat, NEW x \in Cell
    PROVE  /\ PutAt(c, at, x) \in Seq(Cell)
           /\ Len(PutAt(c, at, x)) = IF Len(c) >= at + 1 THEN Len(c) ELSE at + 1
           /\ PutAt(c, at, x)[at + 1] = x
           /\ \A i \in 1..Len(c) : i # at + 1 => PutAt(c, at, x)[i] = c[i]
           /\ \A i \in 1..Len(PutAt(c, at, x)) :
                 i > Len(c) /\ i # at + 1 => PutAt(c, at, x)[i] = Mark("zero")
<1> DEFINE d == PutAt(c, at, x)
<1>1. IsPutAt(d, c, at, x)
  BY PutAtDoes
<1> HIDE DEF d
<1>2. /\ d \in Seq(Cell) /\ Len(d) = IF Len(c) >= at + 1 THEN Len(c) ELSE at + 1
      /\ d[at + 1] = x
      /\ \A i \in 1..Len(c) : i # at + 1 => d[i] = c[i]
      /\ \A i \in 1..Len(d) : i > Len(c) /\ i # at + 1 => d[i] = Mark("zero")
  BY <1>1 DEF IsPutAt
<1> QED
  BY <1>2 DEF d

LEMMA PutAtEnd ==
    ASSUME NEW c \in Seq(Cell), NEW x \in Cell
    PROVE  PutAt(c, Len(c), x) = Append(c, x)
<1> DEFINE p == PutAt(c, Len(c), x)
           a == Append(c, x)
           L == Len(c)
<1>1. L \in Nat
  OBVIOUS
<1>3. /\ a \in Seq(Cell) /\ Len(a) = L + 1 /\ a[L + 1] = x
      /\ \A i \in 1..L : a[i] = c[i]
  BY AppendProperties
<1>2. /\ p \in Seq(Cell) /\ Len(p) = L + 1 /\ p[L + 1] = x
      /\ \A i \in 1..L : p[i] = c[i]
  <2>1. /\ p \in Seq(Cell) /\ p[L + 1] = x
        /\ Len(p) = IF L >= L + 1 THEN L ELSE L + 1
        /\ \A i \in 1..L : i # L + 1 => p[i] = c[i]
    <3>1. IsPutAt(p, c, L, x)
      BY <1>1, PutAtDoes
    <3> HIDE DEF p
    <3> QED
      BY <3>1 DEF IsPutAt
  <2> HIDE DEF p, L
  <2> QED
    BY <1>1, <2>1
<1> HIDE DEF p, a, L
<1>4. \A i \in 1..Len(p) : p[i] = a[i]
  BY <1>1, <1>2, <1>3
<1>5. p = a
  BY <1>2, <1>3, <1>4, SeqEqual
<1> QED
  BY <1>5 DEF p, a

(* Cells before a place keep what they are, and their data. *)
Agrees(c, d, to) ==
    /\ Len(c) >= to /\ Len(d) >= to
    /\ \A i \in 1..to : /\ d[i].what = c[i].what
                        /\ c[i].what # "local" => d[i] = c[i]

LEMMA DataIs ==
    ASSUME NEW id, NEW part
    PROVE  Data(id, part).what = "data" /\ Data(id, part).id = id
BY DEF Data, Mark

LEMMA DataAgrees ==
    ASSUME NEW c \in Seq(Cell), NEW d \in Seq(Cell), NEW to \in Nat, Agrees(c, d, to),
           NEW at \in Nat, NEW size \in Nat, at + size <= to, HasData(c, at, size)
    PROVE  HasData(d, at, size)
<1>1. \A k \in 1..size : at + k \in DOMAIN d /\ d[at + k] = c[at + k]
  <2>1. TAKE k \in 1..size
  <2>2. at + k \in 1..to
    OBVIOUS
  <2>3. c[at + k].what # "local"
    BY DataIs DEF HasData
  <2>4. Len(d) \in Nat /\ DOMAIN d = 1..Len(d) /\ Len(d) >= to
    BY DEF Agrees
  <2> QED
    BY <2>2, <2>3, <2>4 DEF Agrees
<1>2. \A k \in 1..size : d[at + k] = Data(c[at + 1].id, k)
  BY <1>1 DEF HasData
<1>3. size # 0 => d[at + 1] = c[at + 1]
  <2>1. size # 0 => 1 \in 1..size
    OBVIOUS
  <2> QED
    BY <1>1, <2>1
<1>4. \A k \in 1..size : d[at + k] = Data(d[at + 1].id, k)
  BY <1>2, <1>3
<1> QED
  BY <1>1, <1>4 DEF HasData

LEMMA TreeAgrees ==
    ASSUME NEW c \in Seq(Cell), NEW d \in Seq(Cell), NEW to \in Nat, Agrees(c, d, to),
           NEW later \in Nat, to <= later,
           NEW t, GoodTree(c, to, t)
    PROVE  GoodTree(d, later, t)
<1> SUFFICES ASSUME NEW p \in DOMAIN t PROVE GoodEntry(d, later, t[p])
  BY DEF GoodTree
<1> DEFINE e == t[p]
<1>1. GoodEntry(c, to, e)
  BY DEF GoodTree
<1> HIDE DEF e
<1>2. ASSUME e.kind = "file" /\ e.size # 0 PROVE GoodEntry(d, later, e)
  <2>1. e.pos \in Nat /\ e.size \in Nat /\ e.pos + e.size <= to /\ HasData(c, e.pos, e.size)
    BY <1>1, <1>2 DEF GoodEntry
  <2>2. HasData(d, e.pos, e.size)
    BY <2>1, DataAgrees
  <2> QED
    BY <2>1, <2>2 DEF GoodEntry
<1>3. ASSUME e.kind # "file" \/ e.size = 0 PROVE GoodEntry(d, later, e)
  BY <1>1, <1>3 DEF GoodEntry
<1>4. GoodEntry(d, later, e)
  BY <1>2, <1>3
<1> QED
  BY <1>4 DEF e

LEMMA AgreesItself ==
    ASSUME NEW c \in Seq(Cell), NEW to \in Nat, to <= Len(c)
    PROVE  Agrees(c, c, to)
BY DEF Agrees

LEMMA GrowsTree ==
    ASSUME NEW c, NEW to \in Nat, NEW later \in Nat, to <= later, NEW t, GoodTree(c, to, t)
    PROVE  GoodTree(c, later, t)
<1> SUFFICES ASSUME NEW p \in DOMAIN t PROVE GoodEntry(c, later, t[p])
  BY DEF GoodTree
<1> DEFINE e == t[p]
<1>1. GoodEntry(c, to, e)
  BY DEF GoodTree
<1> HIDE DEF e
<1>2. GoodEntry(c, later, e)
  BY <1>1 DEF GoodEntry
<1> QED
  BY <1>2 DEF e

LEMMA PutAtAgrees ==
    ASSUME NEW c \in Seq(Cell), NEW at \in Nat, NEW x \in Cell, NEW to \in Nat, to <= at, to <= Len(c)
    PROVE  Agrees(c, PutAt(c, at, x), to)
<1> DEFINE d == PutAt(c, at, x)
           L == Len(c)
<1>1. d \in Seq(Cell) /\ Len(d) = (IF L >= at + 1 THEN L ELSE at + 1)
  BY PutAtOK
<1>2. \A i \in 1..L : i # at + 1 => d[i] = c[i]
  BY PutAtOK
<1>3. L \in Nat /\ to <= L
  OBVIOUS
<1> HIDE DEF d, L
<1>4. \A i \in 1..to : d[i] = c[i]
  <2>1. TAKE i \in 1..to
  <2>2. i \in 1..L /\ i # at + 1
    BY <1>3
  <2> QED
    BY <1>2, <2>2
<1>5. Len(d) >= to
  BY <1>1, <1>3
<1> QED
  BY <1>3, <1>4, <1>5 DEF Agrees, L, d

-----------------------------------------------------------------------------
(* A tar file: the loop that reads it, and what it finds.                  *)

(* One turn of the loop that reads a tar file. *)
TarStep(cells, g, from) ==
    LET At(p, w) == p < Len(cells) /\ cells[p + 1].what = w
        Entry(at, path) ==
                  LET cell == cells[at + 1]
                      rest == g[at + 1 + cell.size]
                  IN  [rest EXCEPT !.entries =
                          <<<<path, EntryOfHeader(path, cell, at + 1)>>>> \o @]
    IN  CASE from >= Len(cells) -> [ok |-> TRUE, entries |-> <<>>, end |-> from]
          [] At(from, "zero") -> [ok |-> TRUE, entries |-> <<>>, end |-> from + 1]
          [] At(from, "header") -> Entry(from, cells[from + 1].path)
          [] At(from, "longlink") ->
                IF At(from + 2, "header") THEN Entry(from + 2, cells[from + 2].path)
                ELSE g[Min({from + 2, Len(cells)})]
          [] OTHER -> [ok |-> FALSE, entries |-> <<>>, end |-> 0]

IsTarScan(cells, g) == g = [from \in Nat |-> TarStep(cells, g, from)]

LEMMA TarScanChooses ==
    ASSUME NEW cells
    PROVE  TarScan(cells) = (CHOOSE g : IsTarScan(cells, g))[0]
BY DEF TarScan, IsTarScan, TarStep

TarEntry(rest, path, cell, at) ==
    [rest EXCEPT !.entries = <<<<path, EntryOfHeader(path, cell, at)>>>> \o @]

LEMMA TarEnds ==
    ASSUME NEW cells, Len(cells) \in Nat, NEW g, NEW at \in Nat, at >= Len(cells)
    PROVE  TarStep(cells, g, at) = [ok |-> TRUE, entries |-> <<>>, end |-> at]
<1>1. ~(at < Len(cells))
  OBVIOUS
<1> QED
  BY <1>1 DEF TarStep

LEMMA TarZero ==
    ASSUME NEW cells, Len(cells) \in Nat, NEW g, NEW at \in Nat, at < Len(cells), cells[at + 1].what = "zero"
    PROVE  TarStep(cells, g, at) = [ok |-> TRUE, entries |-> <<>>, end |-> at + 1]
BY DEF TarStep

LEMMA TarHeader ==
    ASSUME NEW cells, Len(cells) \in Nat, NEW g, NEW at \in Nat, at < Len(cells), cells[at + 1].what = "header"
    PROVE  TarStep(cells, g, at) =
             TarEntry(g[at + 1 + cells[at + 1].size], cells[at + 1].path, cells[at + 1], at + 1)
<1> DEFINE rest == g[at + 1 + cells[at + 1].size]
<1>1. ~(at >= Len(cells)) /\ cells[at + 1].what # "zero"
  OBVIOUS
<1>2. TarStep(cells, g, at) =
        [rest EXCEPT !.entries = <<<<cells[at + 1].path, EntryOfHeader(cells[at + 1].path, cells[at + 1], at + 1)>>>> \o @]
  BY <1>1 DEF TarStep
<1> QED
  BY <1>2 DEF TarEntry

LEMMA TarLongLink ==
    ASSUME NEW cells, Len(cells) \in Nat, NEW g, NEW at \in Nat, at + 2 < Len(cells),
           cells[at + 1].what = "longlink", cells[at + 2 + 1].what = "header"
    PROVE  TarStep(cells, g, at) =
             TarEntry(g[at + 2 + 1 + cells[at + 2 + 1].size], cells[at + 2].path, cells[at + 2 + 1], at + 2 + 1)
<1> DEFINE rest == g[at + 2 + 1 + cells[at + 2 + 1].size]
<1>1. ~(at >= Len(cells)) /\ at < Len(cells)
  OBVIOUS
<1>2. TarStep(cells, g, at) =
        [rest EXCEPT !.entries =
           <<<<cells[at + 2].path, EntryOfHeader(cells[at + 2].path, cells[at + 2 + 1], at + 2 + 1)>>>> \o @]
  BY <1>1 DEF TarStep
<1> QED
  BY <1>2 DEF TarEntry

LEMMA TarOther ==
    ASSUME NEW cells, Len(cells) \in Nat, NEW g, NEW at \in Nat, at < Len(cells),
           cells[at + 1].what \notin {"zero", "header", "longlink"}
    PROVE  TarStep(cells, g, at) = [ok |-> FALSE, entries |-> <<>>, end |-> 0]
<1>1. ~(at >= Len(cells)) /\ at < Len(cells)
  OBVIOUS
<1> QED
  BY <1>1 DEF TarStep

LEMMA TarNext ==
    ASSUME NEW cells \in Seq(Cell), TarWhole(cells), NEW at \in Nat, at < Len(cells),
           cells[at + 1].what = "header"
    PROVE  /\ cells[at + 1].size \in Nat
           /\ at + 1 + cells[at + 1].size \in Nat
           /\ at + 1 + cells[at + 1].size <= Len(cells)
           /\ at + 1 + cells[at + 1].size < Len(cells) => cells[at + 1 + cells[at + 1].size + 1].what \in TarStart
           /\ HasData(cells, at + 1, cells[at + 1].size)
<1> DEFINE i == at + 1
           size == cells[i].size
           L == Len(cells)
<1>1. L \in Nat /\ i \in DOMAIN cells /\ cells[i].what = "header" /\ i \in Nat
  OBVIOUS
<1>2. size \in Nat \cup {-1}
  BY <1>1, SeqElement, CellId
<1>3. /\ i + size \in i..L /\ (i + size < L => cells[i + size + 1].what \in TarStart)
      /\ HasData(cells, i, size)
  BY <1>1 DEF TarWhole
<1> HIDE DEF size, L
<1>4. size \in Nat
  BY <1>1, <1>2, <1>3
<1> QED
  BY <1>1, <1>3, <1>4 DEF size, L

LEMMA TarLong ==
    ASSUME NEW cells \in Seq(Cell), TarWhole(cells), NEW at \in Nat, at < Len(cells),
           cells[at + 1].what = "longlink"
    PROVE  at + 2 < Len(cells) /\ cells[at + 2 + 1].what = "header"
<1>1. at + 1 \in DOMAIN cells
  OBVIOUS
<1>2. at + 1 + 2 <= Len(cells) /\ cells[at + 1 + 2].what = "header"
  BY <1>1 DEF TarWhole
<1>3. at + 1 + 2 = at + 2 + 1
  OBVIOUS
<1>4. Len(cells) \in Nat
  OBVIOUS
<1> QED
  BY <1>2, <1>3, <1>4

(* A turn depends on the turns further on. *)
LEMMA TarDepends ==
    ASSUME NEW cells \in Seq(Cell), TarWhole(cells), NEW g, NEW h, NEW at \in Nat,
           \A q \in Nat : q > at => g[q] = h[q]
    PROVE  TarStep(cells, g, at) = TarStep(cells, h, at)
<1> DEFINE L == Len(cells)
<1>0. L \in Nat
  OBVIOUS
<1>1. CASE at >= L
  BY <1>0, <1>1, TarEnds
<1>2. CASE at < L /\ cells[at + 1].what = "zero"
  BY <1>0, <1>2, TarZero
<1>3. CASE at < L /\ cells[at + 1].what = "header"
  <2> DEFINE next == at + 1 + cells[at + 1].size
  <2>1. next \in Nat /\ next > at
    BY <1>3, TarNext
  <2>2. g[next] = h[next]
    <3> HIDE DEF next
    <3> QED
      BY <2>1
  <2> QED
    BY <1>0, <1>3, <2>2, TarHeader
<1>4. CASE at < L /\ cells[at + 1].what = "longlink"
  <2> DEFINE there == at + 2
             next == there + 1 + cells[there + 1].size
  <2>1. at + 2 < L /\ cells[at + 2 + 1].what = "header"
    BY <1>4, TarLong
  <2>2. there \in Nat /\ there > at
    OBVIOUS
  <2>3. cells[there + 1].size \in Nat /\ next \in Nat
    BY <2>1, <2>2, TarNext
  <2>4. next > at
    BY <2>2, <2>3
  <2>5. g[next] = h[next]
    <3> HIDE DEF next
    <3> QED
      BY <2>3, <2>4
  <2> QED
    BY <1>0, <1>4, <2>1, <2>5, TarLongLink
<1>5. CASE at < L /\ cells[at + 1].what \notin {"zero", "header", "longlink"}
  BY <1>0, <1>5, TarOther
<1> QED
  BY <1>0, <1>1, <1>2, <1>3, <1>4, <1>5

LEMMA TarScanExists ==
    ASSUME NEW cells \in Seq(Cell), TarWhole(cells)
    PROVE  \E g : TarScan(cells) = g[0] /\ \A at \in Nat : g[at] = TarStep(cells, g, at)
<1> DEFINE L == Len(cells)
<1>0. L \in Nat
  OBVIOUS
<1> DEFINE From(g, k) == \A at \in Nat : at + k >= L => g[at] = TarStep(cells, g, at)
           P == {k \in 0..L : \E g : g = [at \in Nat |-> g[at]] /\ From(g, k)}
<1>1. 0 \in P
  <2> DEFINE g == [at \in Nat |-> [ok |-> TRUE, entries |-> <<>>, end |-> at]]
  <2>1. \A at \in Nat : at + 0 >= L => g[at] = TarStep(cells, g, at)
    <3>1. TAKE at \in Nat
    <3>2. HAVE at + 0 >= L
    <3>3. TarStep(cells, g, at) = [ok |-> TRUE, entries |-> <<>>, end |-> at]
      <4> HIDE DEF g
      <4>1. at >= L
        BY <1>0, <3>2
      <4> QED
        BY <1>0, <4>1, TarEnds
    <3> QED
      BY <3>3
  <2>2. g = [at \in Nat |-> g[at]]
    OBVIOUS
  <2> HIDE DEF g
  <2> QED
    BY <1>0, <2>1, <2>2
<1>2. ASSUME NEW k \in 1..L, k - 1 \in P PROVE k \in P
  <2>1. PICK g : g = [at \in Nat |-> g[at]] /\ From(g, k - 1)
    BY <1>2
  <2> DEFINE h == [at \in Nat |-> TarStep(cells, g, at)]
  <2>2. \A at \in Nat : h[at] = TarStep(cells, g, at)
    OBVIOUS
  <2>3. h = [at \in Nat |-> h[at]]
    OBVIOUS
  <2> HIDE DEF h
  <2>4. \A at \in Nat : at + k >= L => h[at] = TarStep(cells, h, at)
    <3>1. TAKE at \in Nat
    <3>2. HAVE at + k >= L
    <3>3. \A q \in Nat : q > at => g[q] = h[q]
      <4>1. TAKE q \in Nat
      <4>2. HAVE q > at
      <4>3. q + (k - 1) >= L
        BY <1>0, <3>2, <4>2
      <4> QED
        BY <2>1, <2>2, <4>3
    <3>4. TarStep(cells, g, at) = TarStep(cells, h, at)
      BY <3>3, TarDepends
    <3> QED
      BY <2>2, <3>4
  <2> QED
    BY <1>0, <2>3, <2>4
<1>3. \A k \in 0..L : k \in P
  <2> HIDE DEF P
  <2> QED
    BY <1>0, <1>1, <1>2, UpTo
<1>4. PICK g0 : g0 = [at \in Nat |-> g0[at]] /\ From(g0, L)
  <2>1. L \in P
    <3> HIDE DEF P
    <3> QED
      BY <1>0, <1>3
  <2> HIDE DEF From
  <2> QED
    BY <2>1
<1>5. \A at \in Nat : g0[at] = TarStep(cells, g0, at)
  BY <1>0, <1>4
<1>6. IsTarScan(cells, g0)
  BY <1>4, <1>5 DEF IsTarScan
<1> DEFINE g == CHOOSE g : IsTarScan(cells, g)
<1>7. IsTarScan(cells, g)
  BY <1>6
<1>8. TarScan(cells) = g[0]
  BY TarScanChooses
<1> HIDE DEF g
<1>9. \A at \in Nat : g[at] = TarStep(cells, g, at)
  BY <1>7 DEF IsTarScan
<1> QED
  BY <1>8, <1>9

-----------------------------------------------------------------------------
SomePath == Path \cup {<<>>}

LEMMA PathIsSeq == SomePath \subseteq Seq(Name)
<1>1. \A p \in Path : p \in Seq(Name)
  <2>1. TAKE p \in Path
  <2>2. PICK n \in 1..2 : p \in [1..n -> Name]
    BY DEF Path
  <2> QED
    BY <2>2
<1>2. <<>> \in Seq(Name)
  OBVIOUS
<1> QED
  BY <1>1, <1>2 DEF SomePath

NoZero(cells) == \A i \in DOMAIN cells : cells[i].what # "zero"
NoMark(cells, to) == \A i \in 1..to : cells[i].what # "zero"

(* What the loop gives: entries whose data is before the place where it    *)
(* stopped, which is the end if there is no end mark.                      *)
Entry == [kind : Kind, pos : Int, size : Int, id : Int]
Pairs(cells, to) == SomePath \X {e \in Entry : GoodEntry(cells, to, e)}

GoodScan(cells, s, at) ==
    /\ s \in [ok : BOOLEAN, entries : Seq(Pairs(cells, s.end)), end : Nat]
    /\ at <= s.end /\ s.end <= Len(cells)
    /\ NoMark(cells, s.end) => s.end = Len(cells)

LEMMA EndIsGood ==
    ASSUME NEW cells, NEW at \in Nat, NEW to \in Nat, at <= to, to <= Len(cells),
           NoMark(cells, to) => to = Len(cells)
    PROVE  GoodScan(cells, [ok |-> TRUE, entries |-> <<>>, end |-> to], at)
<1> DEFINE s == [ok |-> TRUE, entries |-> <<>>, end |-> to]
<1>1. <<>> \in Seq(Pairs(cells, to))
  OBVIOUS
<1>2. s.end = to
  OBVIOUS
<1>3. s \in [ok : BOOLEAN, entries : Seq(Pairs(cells, to)), end : Nat]
  BY <1>1
<1> HIDE DEF s
<1>4. GoodScan(cells, s, at)
  BY <1>2, <1>3 DEF GoodScan
<1> QED
  BY <1>4 DEF s

LEMMA EntryIsGood ==
    ASSUME NEW cells, NEW rest, NEW next \in Nat, GoodScan(cells, rest, next),
           NEW path \in SomePath, NEW cell \in Cell, cell.size \in Nat, NEW at \in Nat,
           at + cell.size = next, HasData(cells, at, cell.size),
           NEW from \in Nat, from <= at
    PROVE  GoodScan(cells, TarEntry(rest, path, cell, at), from)
<1> DEFINE to == rest.end
           e == EntryOfHeader(path, cell, at)
           s == TarEntry(rest, path, cell, at)
<1>0. rest \in [ok : BOOLEAN, entries : Seq(Pairs(cells, to)), end : Nat] /\ to \in Nat /\ next <= to /\ to <= Len(cells)
  BY DEF GoodScan
<1>1. e \in Entry /\ GoodEntry(cells, to, e)
  <2>1. cell.kind \in Kind /\ cell.id \in Nat
    BY CellId
  <2>2. CASE cell.kind = "dir"
    BY <2>2, DirIsGood DEF EntryOfHeader, DirEntry, Entry, Kind
  <2>3. CASE cell.kind # "dir"
    <3>1. e = [kind |-> cell.kind, pos |-> at, size |-> cell.size, id |-> cell.id]
      BY <2>3 DEF EntryOfHeader, FileEntry
    <3>2. e \in Entry /\ e.pos = at /\ e.size = cell.size
      BY <2>1, <3>1 DEF Entry
    <3>3. at + cell.size <= to
      BY <1>0
    <3> HIDE DEF e
    <3> QED
      BY <3>2, <3>3 DEF GoodEntry
  <2> QED
    BY <2>2, <2>3
<1>2. <<path, e>> \in Pairs(cells, to)
  BY <1>1 DEF Pairs
<1> DEFINE one == <<path, e>>
<1> HIDE DEF e
<1>3. s = [rest EXCEPT !.entries = <<one>> \o rest.entries]
  BY DEF TarEntry, e
<1> HIDE DEF one
<1>4. <<one>> \o rest.entries \in Seq(Pairs(cells, to))
  <2>1. <<one>> \in Seq(Pairs(cells, to))
    BY <1>2 DEF one
  <2>2. rest.entries \in Seq(Pairs(cells, to))
    BY <1>0
  <2> QED
    BY <2>1, <2>2, ConcatProperties
<1>5. s.end = to /\ s \in [ok : BOOLEAN, entries : Seq(Pairs(cells, to)), end : Nat]
  BY <1>0, <1>3, <1>4
<1>6. from <= to
  BY <1>0
<1>7. NoMark(cells, to) => to = Len(cells)
  BY DEF GoodScan
<1> HIDE DEF s
<1>8. GoodScan(cells, s, from)
  BY <1>0, <1>5, <1>6, <1>7 DEF GoodScan
<1> QED
  BY <1>8 DEF s

(* The loop goes from header to header. *)
LEMMA TarScanOK ==
    ASSUME NEW cells \in Seq(Cell), TarWhole(cells)
    PROVE  GoodScan(cells, TarScan(cells), 0)
<1> DEFINE L == Len(cells)
<1>0. L \in Nat /\ DOMAIN cells = 1..L /\ Len(cells) = L
  OBVIOUS
<1> HIDE DEF L
<1>1. PICK g : TarScan(cells) = g[0] /\ \A at \in Nat : g[at] = TarStep(cells, g, at)
  BY TarScanExists
<1> DEFINE Stands(at) == at <= L /\ (at < L => cells[at + 1].what \in TarStart)
           P == {k \in 0..L : \A at \in Nat : at + k >= L /\ Stands(at) => GoodScan(cells, g[at], at)}
<1>2. \A at \in Nat : at = L => GoodScan(cells, g[at], at)
  <2>1. TAKE at \in Nat
  <2>2. HAVE at = L
  <2>3. g[at] = [ok |-> TRUE, entries |-> <<>>, end |-> at]
    <3>1. at >= Len(cells)
      BY <1>0, <2>2
    <3>2. TarStep(cells, g, at) = [ok |-> TRUE, entries |-> <<>>, end |-> at]
      BY <1>0, <3>1, TarEnds
    <3> QED
      BY <1>1, <3>2
  <2>4. at <= at /\ at <= Len(cells) /\ at = Len(cells)
    BY <1>0, <2>2
  <2> QED
    BY <2>3, <2>4, EndIsGood
<1>3. 0 \in P
  <2>1. \A at \in Nat : at + 0 >= L /\ at <= L => at = L
    BY <1>0
  <2>2. \A at \in Nat : at + 0 >= L /\ Stands(at) => GoodScan(cells, g[at], at)
    BY <1>2, <2>1
  <2> QED
    BY <1>0, <2>2
<1>4. ASSUME NEW k \in 1..L, k - 1 \in P PROVE k \in P
  <2> SUFFICES ASSUME NEW at \in Nat, at + k >= L, Stands(at), at < L PROVE GoodScan(cells, g[at], at)
    <3>1. ASSUME NEW at \in Nat, at + k >= L, Stands(at),
                 at < L => GoodScan(cells, g[at], at)
          PROVE  GoodScan(cells, g[at], at)
      <4>1. at < L \/ at = L
        BY <1>0, <3>1
      <4> QED
        BY <1>2, <3>1, <4>1
    <3>2. k \in 0..L
      BY <1>0
    <3> HIDE DEF Stands
    <3> QED
      BY <3>1, <3>2
  <2>1. \A q \in Nat : q > at /\ Stands(q) => GoodScan(cells, g[q], q)
    <3>1. TAKE q \in Nat
    <3>2. HAVE q > at /\ Stands(q)
    <3>3. q + (k - 1) >= L
      BY <1>0, <3>2
    <3> QED
      BY <1>4, <3>2, <3>3
  <2>2. cells[at + 1].what \in TarStart /\ at + 1 \in DOMAIN cells
    BY <1>0
  <2>3. ASSUME NEW h \in Nat, h >= at, h < L, cells[h + 1].what = "header", NEW path \in SomePath
        PROVE  GoodScan(cells, TarEntry(g[h + 1 + cells[h + 1].size], path, cells[h + 1], h + 1), at)
    <3> DEFINE size == cells[h + 1].size
               next == h + 1 + size
    <3>1. size \in Nat /\ next \in Nat /\ next <= L /\ (next < L => cells[next + 1].what \in TarStart)
          /\ HasData(cells, h + 1, size)
      BY <1>0, <2>3, TarNext
    <3>2. cells[h + 1] \in Cell /\ h + 1 \in Nat
      <4>1. h + 1 \in DOMAIN cells
        BY <1>0, <2>3
      <4> QED
        BY <4>1, SeqElement
    <3>3. next > at /\ at <= h + 1 /\ (h + 1) + size = next
      BY <2>3, <3>1
    <3> HIDE DEF next
    <3>4. GoodScan(cells, g[next], next)
      BY <2>1, <3>1, <3>3
    <3>5. GoodScan(cells, TarEntry(g[next], path, cells[h + 1], h + 1), at)
      BY <3>1, <3>2, <3>3, <3>4, EntryIsGood
    <3> QED
      BY <3>5 DEF next
  <2>4. CASE cells[at + 1].what = "zero"
    <3>1. TarStep(cells, g, at) = [ok |-> TRUE, entries |-> <<>>, end |-> at + 1]
      BY <1>0, <2>4, TarZero
    <3>2. ~NoMark(cells, at + 1)
      BY <2>4 DEF NoMark
    <3>3. at + 1 \in Nat /\ at <= at + 1 /\ at + 1 <= L
      BY <1>0
    <3>4. GoodScan(cells, [ok |-> TRUE, entries |-> <<>>, end |-> at + 1], at)
      BY <1>0, <3>2, <3>3, EndIsGood
    <3> QED
      BY <1>1, <3>1, <3>4
  <2>5. CASE cells[at + 1].what = "header"
    <3>1. cells[at + 1].path \in SomePath
      BY <2>2, SeqElement, CellId DEF SomePath
    <3>2. TarStep(cells, g, at) =
            TarEntry(g[at + 1 + cells[at + 1].size], cells[at + 1].path, cells[at + 1], at + 1)
      BY <1>0, <2>5, TarHeader
    <3>3. at >= at
      OBVIOUS
    <3>4. GoodScan(cells, TarEntry(g[at + 1 + cells[at + 1].size], cells[at + 1].path, cells[at + 1], at + 1), at)
      BY <2>3, <2>5, <3>1, <3>3
    <3> QED
      BY <1>1, <3>2, <3>4
  <2>6. CASE cells[at + 1].what = "longlink"
    <3>1. at + 2 < L /\ cells[at + 2 + 1].what = "header"
      BY <1>0, <2>6, TarLong
    <3>2. at + 2 \in DOMAIN cells
      BY <1>0, <3>1
    <3>3. cells[at + 2].path \in SomePath
      BY <3>2, SeqElement, CellId DEF SomePath
    <3>4. TarStep(cells, g, at) =
            TarEntry(g[at + 2 + 1 + cells[at + 2 + 1].size], cells[at + 2].path, cells[at + 2 + 1], at + 2 + 1)
      BY <1>0, <2>6, <3>1, TarLongLink
    <3>5. at + 2 \in Nat /\ at + 2 >= at
      OBVIOUS
    <3>6. GoodScan(cells, TarEntry(g[at + 2 + 1 + cells[at + 2 + 1].size], cells[at + 2].path, cells[at + 2 + 1], at + 2 + 1), at)
      BY <2>3, <3>1, <3>3, <3>5
    <3> QED
      BY <1>1, <3>4, <3>6
  <2> QED
    BY <2>2, <2>4, <2>5, <2>6 DEF TarStart
<1>5. L \in P
  <2> HIDE DEF P
  <2> QED
    BY <1>0, <1>3, <1>4, UpTo
<1>6. Stands(0)
  <2>1. 0 < L => 0 + 1 \in 1..L /\ cells # <<>>
    BY <1>0
  <2> QED
    BY <1>0, <2>1 DEF TarWhole
<1>7. 0 + L >= L /\ 0 \in Nat
  BY <1>0
<1>8. GoodScan(cells, g[0], 0)
  BY <1>5, <1>6, <1>7
<1> QED
  BY <1>1, <1>8

LEMMA TarTreeOK ==
    ASSUME NEW cells, NEW to, NEW entries \in Seq(Pairs(cells, to))
    PROVE  GoodTree(cells, to, TarTree(entries))
<1> DEFINE L == Len(entries)
<1>0. L \in Nat
  OBVIOUS
<1>1. PICK f : /\ TarTree(entries) = f[L]
               /\ f[0] = EmptyTree
               /\ \A n \in 1..L : f[n] = Insert(f[n - 1], entries[n][1], entries[n][2])
  BY <1>0, TarTreeIs
<1>2. \A n \in 1..L : entries[n][1] \in Seq(Name) /\ GoodEntry(cells, to, entries[n][2])
  <2>1. TAKE n \in 1..L
  <2>2. entries[n] \in Pairs(cells, to)
    BY SeqElement
  <2> QED
    BY <2>2, PathIsSeq DEF Pairs
<1> HIDE DEF L
<1> DEFINE P == {n \in 0..L : GoodTree(cells, to, f[n])}
<1>3. 0 \in P
  BY <1>0, <1>1, NoEntries
<1>4. ASSUME NEW n \in 1..L, n - 1 \in P PROVE n \in P
  <2>1. GoodTree(cells, to, f[n - 1]) /\ n \in 0..L
    BY <1>0, <1>4
  <2>2. GoodTree(cells, to, f[n])
    BY <1>1, <1>2, <2>1, InsertKeeps
  <2> QED
    BY <2>1, <2>2
<1>5. \A n \in 0..L : n \in P
  <2> HIDE DEF P
  <2> QED
    BY <1>0, <1>3, <1>4, UpTo
<1> QED
  BY <1>0, <1>1, <1>5

(* Opening a tar file that is whole. *)
LEMMA TarOpened ==
    ASSUME format = "tar", NEW cells \in Seq(Cell), TarWhole(cells)
    PROVE  /\ Opened(cells).end \in Nat /\ Opened(cells).end <= Len(cells)
           /\ Opened(cells).pos = Opened(cells).end
           /\ Opened(cells).list = <<>>
           /\ GoodTree(cells, Opened(cells).end, Opened(cells).tree)
           /\ NoMark(cells, Opened(cells).end) => Opened(cells).end = Len(cells)
<1> DEFINE scan == TarScan(cells)
<1>1. Opened(cells) = [ok |-> scan.ok, tree |-> TarTree(scan.entries), list |-> <<>>,
                       end |-> scan.end, pos |-> scan.end, data |-> cells]
  BY DEF Opened
<1>2. GoodScan(cells, scan, 0)
  BY TarScanOK
<1> HIDE DEF scan
<1>3. scan.entries \in Seq(Pairs(cells, scan.end)) /\ scan.end \in Nat /\ scan.end <= Len(cells)
      /\ (NoMark(cells, scan.end) => scan.end = Len(cells))
  BY <1>2 DEF GoodScan
<1>4. GoodTree(cells, scan.end, TarTree(scan.entries))
  BY <1>3, TarTreeOK
<1> QED
  BY <1>1, <1>3, <1>4

-----------------------------------------------------------------------------
(* What is left to be written, as cells.                                   *)

CellsOf(w) == [i \in 1..Len(w) |-> w[i].cell]

DeviceWrite == [cell : Cell, otherwise : {"ignore", "fail", "abort"}]

Joins(c, a, b) ==
    /\ Len(c) = Len(a) + Len(b)
    /\ \A i \in 1..Len(a) : c[i] = a[i]
    /\ \A i \in 1..Len(b) : c[Len(a) + i] = b[i]

LEMMA Joined ==
    ASSUME NEW S, NEW a \in Seq(S), NEW b \in Seq(S)
    PROVE  a \o b \in Seq(S) /\ Joins(a \o b, a, b)
<1>1. /\ a \o b \in Seq(S) /\ Len(a \o b) = Len(a) + Len(b)
      /\ \A i \in 1..(Len(a) + Len(b)) : (a \o b)[i] = IF i <= Len(a) THEN a[i] ELSE b[i - Len(a)]
  BY ConcatProperties
<1> DEFINE n == Len(a)
           m == Len(b)
           c == a \o b
<1>2. n \in Nat /\ m \in Nat
  OBVIOUS
<1>3. \A i \in 1..(n + m) : c[i] = IF i <= n THEN a[i] ELSE b[i - n]
  BY <1>1
<1> HIDE DEF n, m, c
<1>4. \A i \in 1..n : c[i] = a[i]
  BY <1>2, <1>3
<1>5. \A i \in 1..m : c[n + i] = b[i]
  <2>1. TAKE i \in 1..m
  <2>2. n + i \in 1..(n + m) /\ ~(n + i <= n) /\ (n + i) - n = i
    BY <1>2
  <2> QED
    BY <1>3, <2>2
<1> QED
  BY <1>1, <1>4, <1>5 DEF n, m, c, Joins

LEMMA WritesOK ==
    ASSUME NEW c \in Seq(Cell), NEW o \in {"ignore", "fail", "abort"}
    PROVE  Writes(c, o) \in Seq(DeviceWrite) /\ CellsOf(Writes(c, o)) = c /\ Len(Writes(c, o)) = Len(c)
           /\ \A i \in 1..Len(c) : Writes(c, o)[i].otherwise = o /\ Writes(c, o)[i].cell = c[i]
<1> DEFINE w == Writes(c, o)
           L == Len(c)
<1>0. L \in Nat /\ (\A i \in 1..L : c[i] \in Cell) /\ c = [i \in 1..L |-> c[i]]
  BY SeqElement
<1>1. w = [i \in 1..L |-> [cell |-> c[i], otherwise |-> o]]
  BY DEF Writes
<1> HIDE DEF w, L
<1>2. \A i \in 1..L : w[i] \in DeviceWrite /\ w[i].otherwise = o /\ w[i].cell = c[i]
  BY <1>0, <1>1 DEF DeviceWrite
<1>3. w \in Seq(DeviceWrite) /\ Len(w) = L
  <2>1. w = [i \in 1..L |-> w[i]]
    BY <1>1
  <2> QED
    BY <1>0, <1>2, <2>1, IsASeq
<1>4. CellsOf(w) = c
  BY <1>0, <1>2, <1>3 DEF CellsOf
<1> QED
  BY <1>2, <1>3, <1>4 DEF w, L

LEMMA CellsOfOK ==
    ASSUME NEW w \in Seq(DeviceWrite)
    PROVE  CellsOf(w) \in Seq(Cell) /\ Len(CellsOf(w)) = Len(w) /\ \A i \in 1..Len(w) : CellsOf(w)[i] = w[i].cell
<1>1. \A i \in 1..Len(w) : w[i].cell \in Cell
  <2>1. TAKE i \in 1..Len(w)
  <2>2. w[i] \in DeviceWrite
    BY SeqElement
  <2> QED
    BY <2>2 DEF DeviceWrite
<1>2. Len(w) \in Nat
  OBVIOUS
<1> QED
  BY <1>1, <1>2, IsASeq DEF CellsOf

LEMMA CellsOfBoth ==
    ASSUME NEW a \in Seq(DeviceWrite), NEW b \in Seq(DeviceWrite)
    PROVE  CellsOf(a \o b) = CellsOf(a) \o CellsOf(b)
<1> DEFINE n == Len(a)
           m == Len(b)
           x == CellsOf(a \o b)
           y == CellsOf(a) \o CellsOf(b)
<1>1. n \in Nat /\ m \in Nat
  OBVIOUS
<1>2. a \o b \in Seq(DeviceWrite) /\ Len(a \o b) = n + m
      /\ (\A i \in 1..n : (a \o b)[i] = a[i]) /\ (\A i \in 1..m : (a \o b)[n + i] = b[i])
  BY Joined DEF Joins
<1>3. x \in Seq(Cell) /\ Len(x) = n + m /\ \A i \in 1..(n + m) : x[i] = (a \o b)[i].cell
  BY <1>2, CellsOfOK
<1>4. y \in Seq(Cell) /\ Len(y) = n + m
      /\ (\A i \in 1..n : y[i] = CellsOf(a)[i]) /\ (\A i \in 1..m : y[n + i] = CellsOf(b)[i])
  <2> DEFINE A == CellsOf(a)
             B == CellsOf(b)
  <2>1. A \in Seq(Cell) /\ B \in Seq(Cell) /\ Len(A) = n /\ Len(B) = m
    BY CellsOfOK
  <2>2. y = A \o B
    OBVIOUS
  <2> HIDE DEF A, B, y, n, m
  <2>3. A \o B \in Seq(Cell) /\ Joins(A \o B, A, B)
    BY <2>1, Joined
  <2>4. y \in Seq(Cell) /\ Len(y) = n + m /\ (\A i \in 1..n : y[i] = A[i]) /\ (\A i \in 1..m : y[n + i] = B[i])
    BY <2>1, <2>2, <2>3 DEF Joins
  <2> QED
    BY <2>4 DEF A, B
<1>5. (\A i \in 1..n : CellsOf(a)[i] = a[i].cell) /\ (\A i \in 1..m : CellsOf(b)[i] = b[i].cell)
  BY CellsOfOK
<1> HIDE DEF n, m, x, y
<1>6. \A i \in 1..(n + m) : x[i] = y[i]
  <2>1. TAKE i \in 1..(n + m)
  <2>2. CASE i \in 1..n
    BY <1>2, <1>3, <1>4, <1>5, <2>2
  <2>3. CASE i \notin 1..n
    <3> DEFINE k == i - n
    <3>1. k \in 1..m /\ n + k = i
      BY <1>1, <2>3
    <3> HIDE DEF k
    <3>2. (a \o b)[i] = b[k] /\ y[i] = CellsOf(b)[k] /\ CellsOf(b)[k] = b[k].cell
      BY <1>2, <1>4, <1>5, <3>1
    <3> QED
      BY <1>3, <3>2
  <2> QED
    BY <2>2, <2>3
<1>7. x = y
  BY <1>3, <1>4, <1>6, SeqEqual
<1> QED
  BY <1>7 DEF x, y

LEMMA TailOfWrites ==
    ASSUME NEW w \in Seq(DeviceWrite), w # <<>>
    PROVE  /\ Tail(w) \in Seq(DeviceWrite) /\ Head(w) \in DeviceWrite /\ Head(w) = w[1]
           /\ Len(w) >= 1 /\ Len(Tail(w)) = Len(w) - 1
           /\ \A i \in 1..(Len(w) - 1) : Tail(w)[i] = w[i + 1]
           /\ CellsOf(w) = <<Head(w).cell>> \o CellsOf(Tail(w))
<1> DEFINE n == Len(w)
           t == Tail(w)
           x == CellsOf(w)
           y == <<Head(w).cell>> \o CellsOf(t)
<1>1. n \in Nat /\ n >= 1 /\ Head(w) = w[1]
  OBVIOUS
<1>2. t \in Seq(DeviceWrite) /\ Len(t) = n - 1 /\ \A i \in 1..(n - 1) : t[i] = w[i + 1]
  BY HeadTailProperties
<1>3. Head(w) \in DeviceWrite
  BY <1>1, SeqElement
<1>4. x \in Seq(Cell) /\ Len(x) = n /\ \A i \in 1..n : x[i] = w[i].cell
  BY CellsOfOK
<1>5. CellsOf(t) \in Seq(Cell) /\ Len(CellsOf(t)) = n - 1 /\ \A i \in 1..(n - 1) : CellsOf(t)[i] = t[i].cell
  BY <1>2, CellsOfOK
<1>6. y \in Seq(Cell) /\ Len(y) = 1 + (n - 1) /\ y[1] = Head(w).cell
      /\ \A i \in 1..(n - 1) : y[1 + i] = CellsOf(t)[i]
  <2> DEFINE one == <<Head(w).cell>>
  <2>1. one \in Seq(Cell) /\ Len(one) = 1 /\ one[1] = Head(w).cell
    BY <1>3 DEF DeviceWrite
  <2> HIDE DEF one
  <2> DEFINE B == CellsOf(t)
  <2>3. y = one \o B
    BY DEF one
  <2>4. B \in Seq(Cell) /\ Len(B) = n - 1
    BY <1>5
  <2> HIDE DEF y, B, n
  <2>2. one \o B \in Seq(Cell) /\ Joins(one \o B, one, B)
    BY <2>4, <2>1, Joined
  <2>5. y \in Seq(Cell) /\ Len(y) = 1 + (n - 1) /\ y[1] = Head(w).cell
        /\ \A i \in 1..(n - 1) : y[1 + i] = B[i]
    BY <2>1, <2>2, <2>3, <2>4 DEF Joins
  <2> QED
    BY <2>5 DEF B
<1>7. \A i \in 1..n : x[i] = y[i]
  <2> HIDE DEF n, t, x, y
  <2>1. TAKE i \in 1..n
  <2>2. CASE i = 1
    BY <1>1, <1>4, <1>6, <2>2
  <2>3. CASE i # 1
    <3> DEFINE j == i - 1
    <3>1. j \in 1..(n - 1) /\ 1 + j = i /\ j + 1 = i
      BY <1>1, <2>3
    <3> HIDE DEF j
    <3>2. y[i] = CellsOf(t)[j]
      BY <1>6, <3>1
    <3>3. CellsOf(t)[j] = t[j].cell /\ t[j] = w[i]
      BY <1>2, <1>5, <3>1
    <3> QED
      BY <1>4, <3>2, <3>3
  <2> QED
    BY <2>2, <2>3
<1> HIDE DEF n, t, x, y
<1>8. Len(y) = n
  BY <1>1, <1>6
<1>9. x = y
  BY <1>4, <1>6, <1>7, <1>8, SeqEqual
<1> QED
  BY <1>1, <1>2, <1>3, <1>9 DEF n, t, x, y

LEMMA DataCell ==
    ASSUME NEW id \in Nat, NEW part \in Nat
    PROVE  Data(id, part) \in Cell
BY DEF Data, Mark, Cell, What, Kind

LEMMA DataCellsOK ==
    ASSUME NEW id \in Nat, NEW size \in Nat
    PROVE  /\ DataCells(id, size) \in Seq(Cell) /\ Len(DataCells(id, size)) = size
           /\ \A i \in 1..size : DataCells(id, size)[i] = Data(id, i)
<1>1. \A i \in 1..size : Data(id, i) \in Cell
  BY DataCell
<1> QED
  BY <1>1, IsASeq DEF DataCells

-----------------------------------------------------------------------------
(* The entries of a tar file, one behind the other.                        *)

(* An entry of a tar file: its header, with a name of its own if the path  *)
(* is long, and its data.                                                  *)
TarCells(path, kind, id, size) ==
    LongLink(path) \o (<<Header(path, kind, id, size)>> \o DataCells(id, size))

LEMMA MarkCell ==
    ASSUME NEW w \in What
    PROVE  Mark(w) \in Cell /\ Mark(w).what = w
BY DEF Mark, Cell, Kind

LEMMA LongLinkOK ==
    ASSUME NEW path \in Path
    PROVE  /\ LongLink(path) \in Seq(Cell)
           /\ \/ LongLink(path) = <<>> /\ Len(LongLink(path)) = 0
              \/ Len(LongLink(path)) = 2 /\ LongLink(path)[1].what = "longlink" /\ LongLink(path)[2].what = "name"
<1> DEFINE a == Mark("longlink")
           b == [Mark("name") EXCEPT !.path = path]
<1>1. a \in Cell /\ a.what = "longlink"
  BY MarkCell DEF What
<1>2. b \in Cell /\ b.what = "name"
  BY DEF Mark, Cell, What, Kind
<1>3. LongLink(path) = IF path \in LongPath THEN <<a, b>> ELSE <<>>
  BY DEF LongLink
<1> HIDE DEF a, b
<1>4. <<a, b>> \in Seq(Cell) /\ Len(<<a, b>>) = 2 /\ <<a, b>>[1] = a /\ <<a, b>>[2] = b
  BY <1>1, <1>2
<1>6. <<>> \in Seq(Cell) /\ Len(<<>>) = 0
  OBVIOUS
<1> QED
  BY <1>1, <1>2, <1>3, <1>4, <1>6

LEMMA HeaderOK ==
    ASSUME ArchiveAssumption, NEW path \in Path, NEW kind \in Kind, NEW id \in Nat, NEW size \in Nat
    PROVE  Header(path, kind, id, size) \in Cell /\ Header(path, kind, id, size).what = "header"
           /\ Header(path, kind, id, size).size = size
BY DEF Header, Cell, What, ArchiveAssumption

IsTarEntry(t, k, h, id, size) ==
    /\ k \in {0, 2} /\ k \in Nat
    /\ Len(t) = k + 1 + size
    /\ k = 2 => t[1].what = "longlink" /\ t[2].what = "name"
    /\ t[k + 1] = h
    /\ \A i \in 1..size : t[k + 1 + i] = Data(id, i)

LEMMA TarCellsOK ==
    ASSUME ArchiveAssumption, NEW path \in Path, NEW kind \in Kind, NEW id \in Nat, NEW size \in Nat
    PROVE  /\ TarCells(path, kind, id, size) \in Seq(Cell)
           /\ \E k : IsTarEntry(TarCells(path, kind, id, size), k, Header(path, kind, id, size), id, size)
<1> DEFINE ll == LongLink(path)
           h == Header(path, kind, id, size)
           d == DataCells(id, size)
           hd == <<h>> \o d
           c == ll \o hd
           k == Len(ll)
<1>1. /\ ll \in Seq(Cell)
      /\ \/ k = 0
         \/ k = 2 /\ ll[1].what = "longlink" /\ ll[2].what = "name"
  BY LongLinkOK
<1>2. h \in Cell /\ h.what = "header" /\ h.size = size
  BY HeaderOK
<1>3. d \in Seq(Cell) /\ Len(d) = size /\ \A i \in 1..size : d[i] = Data(id, i)
  BY DataCellsOK
<1> DEFINE one == <<h>>
<1>4. one \in Seq(Cell) /\ Len(one) = 1 /\ one[1] = h
  BY <1>2
<1>5. hd = one \o d /\ c = ll \o hd /\ TarCells(path, kind, id, size) = c /\ Len(ll) = k
  BY DEF TarCells
<1> HIDE DEF ll, h, d, one, hd, c, k
<1>6. hd \in Seq(Cell) /\ Len(hd) = 1 + size /\ hd[1] = h /\ \A i \in 1..size : hd[1 + i] = d[i]
  <2>1. one \o d \in Seq(Cell) /\ Joins(one \o d, one, d)
    BY <1>3, <1>4, Joined
  <2> QED
    BY <1>3, <1>4, <1>5, <2>1 DEF Joins
<1>7. c \in Seq(Cell) /\ Len(c) = k + (1 + size) /\ (\A i \in 1..k : c[i] = ll[i])
      /\ \A i \in 1..(1 + size) : c[k + i] = hd[i]
  <2>1. ll \o hd \in Seq(Cell) /\ Joins(ll \o hd, ll, hd)
    BY <1>1, <1>6, Joined
  <2> QED
    BY <1>5, <1>6, <2>1 DEF Joins
<1>8. c[k + 1] = h
  BY <1>6, <1>7
<1>9. \A i \in 1..size : c[k + 1 + i] = Data(id, i)
  <2>1. TAKE i \in 1..size
  <2>2. 1 + i \in 1..(1 + size) /\ k + (1 + i) = k + 1 + i
    BY <1>1
  <2>3. c[k + (1 + i)] = hd[1 + i]
    BY <1>7, <2>2
  <2> QED
    BY <1>3, <1>6, <2>2, <2>3
<1>10. k = 2 => c[1].what = "longlink" /\ c[2].what = "name"
  BY <1>1, <1>7
<1>12. Len(c) = k + 1 + size /\ k \in {0, 2} /\ k \in Nat
  BY <1>1, <1>7
<1>13. IsTarEntry(c, k, h, id, size)
  BY <1>8, <1>9, <1>10, <1>12 DEF IsTarEntry
<1> QED
  BY <1>5, <1>7, <1>13 DEF h

(* A tar file that is added to is whole when the entry is. *)
LEMMA TarGrows ==
    ASSUME ArchiveAssumption, NEW path \in Path, NEW kind \in Kind, NEW id \in Nat, NEW size \in Nat,
           NEW c \in Seq(Cell), TarWhole(c)
    PROVE  TarWhole(c \o TarCells(path, kind, id, size))
<1> DEFINE t == TarCells(path, kind, id, size)
           h == Header(path, kind, id, size)
           n == Len(c)
           new == c \o t
<1>0. n \in Nat /\ DOMAIN c = 1..n /\ Len(c) = n
  OBVIOUS
<1>1. t \in Seq(Cell) /\ h.what = "header" /\ h.size = size
  <2>1. t \in Seq(Cell)
    BY TarCellsOK
  <2>2. h \in Cell /\ h.what = "header" /\ h.size = size
    BY HeaderOK
  <2> QED
    BY <2>1, <2>2
<1>12. PICK k : IsTarEntry(t, k, h, id, size)
  BY TarCellsOK
<1>2. /\ k \in {0, 2} /\ k \in Nat
      /\ Len(t) = k + 1 + size
      /\ k = 2 => t[1].what = "longlink" /\ t[2].what = "name"
      /\ t[k + 1] = h
      /\ \A i \in 1..size : t[k + 1 + i] = Data(id, i)
  BY <1>12 DEF IsTarEntry
<1>3. new \in Seq(Cell) /\ Joins(new, c, t)
  BY <1>1, Joined
<1> HIDE DEF t, h, n, new
<1>4. /\ Len(new) = n + (k + 1 + size) /\ DOMAIN new = 1..(n + (k + 1 + size))
      /\ \A i \in 1..n : new[i] = c[i]
      /\ \A i \in 1..(k + 1 + size) : new[n + i] = t[i]
  BY <1>0, <1>2, <1>3, SeqElement DEF Joins
<1>5. new[n + k + 1] = h /\ \A i \in 1..size : new[n + k + 1 + i] = Data(id, i)
  <2>1. k + 1 \in 1..(k + 1 + size) /\ n + (k + 1) = n + k + 1
    BY <1>0, <1>2
  <2>2. new[n + k + 1] = h
    BY <1>2, <1>4, <2>1
  <2>3. ASSUME NEW i \in 1..size PROVE new[n + k + 1 + i] = Data(id, i)
    <3>1. k + 1 + i \in 1..(k + 1 + size) /\ n + (k + 1 + i) = n + k + 1 + i
      BY <1>0, <1>2
    <3>2. new[n + (k + 1 + i)] = t[k + 1 + i]
      BY <1>4, <3>1
    <3> QED
      BY <1>2, <3>1, <3>2
  <2> QED
    BY <2>2, <2>3
<1>6. k = 2 => new[n + 1].what = "longlink" /\ new[n + 2].what = "name"
  <2>1. k = 2 => 1 \in 1..(k + 1 + size) /\ 2 \in 1..(k + 1 + size)
    OBVIOUS
  <2> QED
    BY <1>2, <1>4, <2>1
<1>7. new[n + 1].what \in TarStart
  <2>1. k = 0 => n + k + 1 = n + 1
    BY <1>0
  <2> QED
    BY <1>1, <1>2, <1>5, <1>6, <2>1 DEF TarStart
<1>8. new[1].what \in TarStart
  <2>1. CASE n = 0
    BY <1>7, <2>1
  <2>2. CASE n # 0
    <3>1. 1 \in 1..n
      BY <1>0, <2>2
    <3>2. c # <<>>
      BY <1>0, <2>2 DEF n
    <3> QED
      BY <1>4, <3>1, <3>2 DEF TarWhole
  <2> QED
    BY <2>1, <2>2
<1>9. ASSUME NEW i \in DOMAIN new, new[i].what = "header"
      PROVE  /\ i + new[i].size \in i..Len(new)
             /\ i + new[i].size < Len(new) => new[i + new[i].size + 1].what \in TarStart
             /\ HasData(new, i, new[i].size)
  <2>1. CASE i \in 1..n
    <3> DEFINE s == c[i].size
               next == i + s
    <3>1. new[i] = c[i]
      BY <1>4, <2>1
    <3>2. next \in i..n /\ (next < n => c[next + 1].what \in TarStart) /\ HasData(c, i, s)
      BY <1>0, <1>9, <2>1, <3>1 DEF TarWhole
    <3>3. s \in Nat
      <4>1. s \in Nat \cup {-1}
        BY <1>0, <2>1, SeqElement, CellId
      <4> HIDE DEF s
      <4> QED
        BY <1>0, <2>1, <3>2, <4>1
    <3> HIDE DEF s
    <3>4. next <= n
      BY <1>0, <2>1, <3>2, <3>3
    <3>5. new[next + 1].what \in TarStart
      <4>1. CASE next < n
        <5>1. next + 1 \in 1..n
          BY <1>0, <2>1, <3>3, <4>1
        <5> QED
          BY <1>4, <3>2, <4>1, <5>1
      <4>2. CASE next = n
        BY <1>7, <4>2
      <4>3. next < n \/ next = n
        <5>1. next \in Int /\ n \in Nat
          BY <1>0, <2>1, <3>3
        <5> HIDE DEF next, n
        <5> QED
          BY <3>4, <5>1
      <4> QED
        BY <4>1, <4>2, <4>3
    <3>6. HasData(new, i, s)
      <4>1. Agrees(c, new, n)
        <5>1. Len(new) >= n
          BY <1>0, <1>2, <1>4
        <5> QED
          BY <1>0, <1>4, <5>1 DEF Agrees
      <4>2. i \in Nat /\ i + s <= n
        BY <2>1, <3>4
      <4> QED
        BY <1>0, <1>3, <3>2, <3>3, <4>1, <4>2, DataAgrees
    <3>7. next \in i..Len(new)
      BY <1>0, <1>2, <1>4, <2>1, <3>3, <3>4
    <3> QED
      BY <3>1, <3>5, <3>6, <3>7 DEF s
  <2>2. CASE i = n + k + 1
    <3>1. new[i].size = size
      BY <1>1, <1>5, <2>2
    <3>2. i + size = Len(new) /\ i \in Nat
      <4>1. n + k + 1 \in Nat /\ n + k + 1 + size = n + (k + 1 + size)
        BY <1>0, <1>2
      <4> QED
        BY <1>4, <2>2, <4>1
    <3>3. HasData(new, i, size)
      <4>1. \A j \in 1..size : i + j \in DOMAIN new /\ new[i + j] = Data(id, j)
        <5>1. TAKE j \in 1..size
        <5>2. i + j \in DOMAIN new
          BY <1>0, <1>2, <1>4, <2>2
        <5> QED
          BY <1>5, <2>2, <5>2
      <4>2. size # 0 => new[i + 1].id = id
        <5>1. size # 0 => 1 \in 1..size
          OBVIOUS
        <5> QED
          BY <4>1, <5>1, DataIs
      <4>3. \A j \in 1..size : new[i + j] = Data(new[i + 1].id, j)
        BY <4>1, <4>2
      <4> QED
        BY <4>1, <4>3 DEF HasData
    <3>4. Len(new) \in Nat /\ i <= Len(new)
      BY <3>2
    <3> QED
      BY <3>1, <3>2, <3>3, <3>4
  <2>3. CASE i \notin 1..n /\ i # n + k + 1
    <3>1. i \in 1..(n + (k + 1 + size))
      BY <1>4
    <3>2. CASE i < n + k + 1
      <4>1. k = 2 /\ (i = n + 1 \/ i = n + 2)
        BY <1>0, <1>2, <2>3, <3>1, <3>2
      <4> QED
        BY <1>6, <1>9, <4>1
    <3>3. CASE i > n + k + 1
      <4> DEFINE j == i - (n + k + 1)
      <4>1. j \in 1..size /\ i = n + k + 1 + j
        BY <1>0, <1>2, <3>1, <3>3
      <4> HIDE DEF j
      <4>2. new[i] = Data(id, j)
        BY <1>5, <4>1
      <4> QED
        BY <1>9, <4>2, DataIs
    <3> QED
      BY <1>0, <1>2, <2>3, <3>1, <3>2, <3>3
  <2> QED
    BY <2>1, <2>2, <2>3
<1>10. ASSUME NEW i \in DOMAIN new, new[i].what = "longlink"
       PROVE  i + 2 <= Len(new) /\ new[i + 2].what = "header"
  <2>1. CASE i \in 1..n
    <3>1. i + 2 <= n /\ c[i + 2].what = "header"
      BY <1>0, <1>4, <1>10, <2>1 DEF TarWhole
    <3>2. i + 2 \in 1..n
      BY <1>0, <2>1, <3>1
    <3>3. i + 2 <= Len(new)
      BY <1>0, <1>2, <1>4, <2>1, <3>1
    <3> QED
      BY <1>4, <3>1, <3>2, <3>3
  <2>2. CASE k = 2 /\ i = n + 1
    <3>1. i + 2 = n + k + 1 /\ i + 2 <= Len(new)
      BY <1>0, <1>4, <2>2
    <3> QED
      BY <1>1, <1>5, <3>1
  <2>3. CASE i \notin 1..n /\ ~(k = 2 /\ i = n + 1)
    <3>1. i \in 1..(n + (k + 1 + size))
      BY <1>4
    <3>2. CASE i = n + k + 1
      BY <1>1, <1>5, <1>10, <3>2
    <3>3. CASE i > n + k + 1
      <4> DEFINE j == i - (n + k + 1)
      <4>1. j \in 1..size /\ i = n + k + 1 + j
        BY <1>0, <1>2, <3>1, <3>3
      <4> HIDE DEF j
      <4>2. new[i] = Data(id, j)
        BY <1>5, <4>1
      <4> QED
        BY <1>10, <4>2, DataIs
    <3>4. CASE i < n + k + 1
      <4>1. k = 2 /\ i = n + 2
        BY <1>0, <1>2, <2>3, <3>1, <3>4
      <4> QED
        BY <1>6, <1>10, <4>1
    <3> QED
      BY <1>0, <1>2, <3>1, <3>2, <3>3, <3>4
  <2> QED
    BY <2>1, <2>2, <2>3
<1>11. TarWhole(new)
  BY <1>8, <1>9, <1>10 DEF TarWhole
<1> QED
  BY <1>11 DEF new, t

-----------------------------------------------------------------------------
(* The inductive invariant of sessions with tar files.                     *)

LogEntry == [path : Path, kind : Kind, id : Nat]

(* A session whose file is one that KArchive answers for, or that does not *)
(* look at the file.                                                       *)
Live == mode # "closed" /\ (settled \/ mode = "W")

Shut == mode = "closed" => tree = EmptyTree /\ todo = <<>> /\ ~touched

TarDisk ==
    settled => /\ saved \in Seq(LogEntry)
               /\ ~touched /\ file # NoFile => file \in Seq(Cell) /\ TarWhole(file)

TarPlace ==
    /\ device # "file" /\ stage # "central" /\ (stage # "idle" => mode \in {"W", "RW"})
    /\ IF stage = "writeback" THEN touched ELSE ~touched

TarTypes ==
    /\ work \in Seq(Cell) /\ log \in Seq(LogEntry) /\ todo \in Seq(DeviceWrite)
    /\ pos \in Nat /\ end \in Nat

(* Entries are before tarEnd, and nothing is written there. *)
TarEntries ==
    /\ GoodTree(work, end, tree)
    /\ mode = "W" => tree = EmptyTree /\ end = 0
    /\ stage = "write" => pos >= end
    /\ end <= Len(work) /\ (stage = "write" \/ mode = "W" => pos <= Len(work))

(* A session that has written nothing leaves the file what it was. *)
TarLogged ==
    mode # "W" /\ stage # "writeback" =>
        /\ Len(log) >= Len(saved)
        /\ Len(log) = Len(saved) => log = saved /\ work = Cells /\ stage = "idle"

(* Without an end mark entries are added at the end of the file. *)
TarAtEnd ==
    NoMark(work, end) =>
        /\ stage = "idle" => TarWhole(work) /\ (IF mode = "W" THEN pos = Len(work) ELSE end = Len(work))
        /\ stage = "write" => pos = Len(work) /\ TarWhole(work \o CellsOf(todo))

TarBack ==
    stage = "writeback" =>
        /\ file \in Seq(Cell)
        /\ log = saved \/ NoZero(work) => TarWhole(work) /\ file \o CellsOf(todo) = work

TarLive == TarTypes /\ TarEntries /\ (~lost => TarLogged /\ TarAtEnd /\ TarBack)

TarInv == format = "tar" => TarDisk /\ Shut /\ TarPlace /\ (Live => TarLive)

-----------------------------------------------------------------------------
LEMMA NothingIsWhole == <<>> \in Seq(Cell) /\ Len(<<>>) = 0 /\ TarWhole(<<>>)
BY DEF TarWhole

LEMMA TarInit ==
    ASSUME ArchiveAssumption, Init
    PROVE  TarInv
<1> SUFFICES ASSUME format = "tar" PROVE TarInv
  BY DEF TarInv
<1>1. mode = "closed" /\ tree = EmptyTree /\ todo = <<>> /\ ~touched /\ device = "none" /\ stage = "idle"
  BY DEF Init
<1>2. TarDisk
  <2>1. CASE file = NoFile /\ saved = <<>>
    BY <2>1 DEF TarDisk
  <2>2. CASE \E f \in Foreign : f.format \in Format /\ format = f.format /\ file = f.cells /\ saved = f.log
    <3>1. PICK f \in Foreign : format = f.format /\ file = f.cells /\ saved = f.log
      BY <2>2
    <3>2. f.cells \in Seq(Cell) /\ f.log \in Seq(LogEntry) /\ TarWhole(f.cells)
      BY <3>1 DEF ArchiveAssumption, LogEntry
    <3> QED
      BY <3>1, <3>2 DEF TarDisk
  <2> QED
    BY <2>1, <2>2 DEF Init
<1> QED
  BY <1>1, <1>2 DEF TarInv, Shut, TarPlace, Live

LEMMA TarOpenW ==
    ASSUME format = "tar", TarInv, IInv, OpenWriteOnly
    PROVE  TarInv'
<1>1. /\ mode = "closed" /\ mode' = "W" /\ device' = "save" /\ stage = "idle" /\ tree' = EmptyTree
      /\ end' = 0 /\ pos' = 0 /\ work' = <<>> /\ log' = <<>> /\ touched' = FALSE
      /\ UNCHANGED <<format, file, stage, todo, saved, settled>>
  BY DEF OpenWriteOnly, CanOpen, OpenWith, Fresh, IInv, Device
<1>2. TarDisk' /\ Shut' /\ TarPlace'
  BY <1>1 DEF TarInv, TarDisk, Shut, TarPlace
<1>3. todo = <<>>
  BY <1>1 DEF TarInv, Shut
<1>4. TarTypes'
  <2>1. <<>> \in Seq(Cell) /\ <<>> \in Seq(LogEntry) /\ <<>> \in Seq(DeviceWrite)
    OBVIOUS
  <2> QED
    BY <1>1, <1>3, <2>1 DEF TarTypes
<1>5. TarEntries'
  BY <1>1, NoEntries, NothingIsWhole DEF TarEntries
<1>6. TarLogged' /\ TarAtEnd' /\ TarBack'
  BY <1>1, NothingIsWhole DEF TarLogged, TarAtEnd, TarBack
<1> QED
  BY <1>2, <1>4, <1>5, <1>6 DEF TarInv, TarLive

LEMMA TarOpenTemp ==
    ASSUME format = "tar", TarInv, IInv, NEW m \in {"R", "RW"}, OpenTemp(m)
    PROVE  TarInv'
<1>1. PICK n \in 0..Len(Cells) :
         /\ (file # NoFile /\ n = Len(Cells)) \/ file = NoFile \/ full
         /\ work' = SubSeq(Cells, 1, n)
         /\ OpenWith(m, "temp", IF file # NoFile /\ n = Len(Cells) THEN Opened(SubSeq(Cells, 1, n))
                                ELSE [Fresh EXCEPT !.pos = n])
         /\ lost' = (n < Len(Cells))
  BY DEF OpenTemp
<1> DEFINE ok == file # NoFile /\ n = Len(Cells)
           o == IF ok THEN Opened(SubSeq(Cells, 1, n)) ELSE [Fresh EXCEPT !.pos = n]
<1>2. /\ mode = "closed" /\ mode' = m /\ device' = "temp" /\ stage = "idle" /\ tree' = o.tree
      /\ end' = o.end /\ pos' = o.pos /\ log' = saved /\ touched' = FALSE
      /\ UNCHANGED <<format, file, stage, todo, saved, settled>>
  BY <1>1 DEF OpenTemp, CanOpen, OpenWith, IInv, Device
<1>3. TarDisk' /\ Shut' /\ TarPlace'
  BY <1>2 DEF TarInv, TarDisk, Shut, TarPlace
<1>4. todo = <<>> /\ ~touched
  BY <1>2 DEF TarInv, Shut
<1>5. ASSUME settled PROVE TarLive'
  <2>1. saved \in Seq(LogEntry) /\ Cells \in Seq(Cell) /\ TarWhole(Cells)
    <3>1. CASE file = NoFile
      BY <1>4, <1>5, <3>1, NothingIsWhole DEF TarInv, TarDisk, Cells
    <3>2. CASE file # NoFile
      BY <1>4, <1>5, <3>2 DEF TarInv, TarDisk, Cells
    <3> QED
      BY <3>1, <3>2
  <2>2. Cells' = Cells
    BY <1>2 DEF Cells
  <2>3. n \in Nat /\ Len(Cells) \in Nat
    BY <2>1
  <2>4. ok => SubSeq(Cells, 1, n) = Cells
    BY <2>1, SubSeqFull
  <2>5. work' \in Seq(Cell)
    BY <1>1, <2>1, <2>3, SubSeqProperties
  <2>6. <<>> \in Seq(DeviceWrite)
    OBVIOUS
  <2>7. CASE ok
    <3>1. work' = Cells /\ o = Opened(Cells)
      BY <1>1, <2>4, <2>7
    <3> HIDE DEF o
    <3>2. /\ o.end \in Nat /\ o.end <= Len(Cells) /\ o.pos = o.end
          /\ GoodTree(Cells, o.end, o.tree)
          /\ NoMark(Cells, o.end) => o.end = Len(Cells)
      BY <2>1, <3>1, TarOpened
    <3>3. TarTypes'
      BY <1>2, <1>4, <2>1, <2>5, <2>6, <3>2 DEF TarTypes
    <3>4. TarEntries'
      BY <1>2, <3>1, <3>2 DEF TarEntries
    <3>5. TarLogged'
      BY <1>2, <2>1, <2>2, <3>1 DEF TarLogged
    <3>6. TarAtEnd' /\ TarBack'
      BY <1>2, <2>1, <3>1, <3>2 DEF TarAtEnd, TarBack
    <3> QED
      BY <3>3, <3>4, <3>5, <3>6 DEF TarLive
  <2>8. CASE ~ok
    <3>1. o.tree = EmptyTree /\ o.end = 0 /\ o.pos = n
      BY <2>8 DEF Fresh
    <3> HIDE DEF o
    <3>2. TarTypes'
      BY <1>2, <1>4, <2>1, <2>3, <2>5, <2>6, <3>1 DEF TarTypes
    <3>3. TarEntries'
      <4>1. Len(work') \in Nat
        BY <2>5
      <4>2. 0 <= Len(work')
        BY <4>1
      <4> QED
        BY <1>2, <3>1, <4>2, NoEntries DEF TarEntries
    <3>4. ~lost' => file = NoFile /\ n = 0
      <4>1. ~lost' => n = Len(Cells)
        <5>1. n <= Len(Cells)
          BY <2>3
        <5>2. ~lost' => ~(n < Len(Cells))
          BY <1>1
        <5> QED
          BY <2>3, <5>1, <5>2
      <4>2. file = NoFile => Len(Cells) = 0
        BY NothingIsWhole DEF Cells
      <4> QED
        BY <2>8, <4>1, <4>2
    <3>5. ASSUME ~lost' PROVE TarLogged' /\ TarAtEnd' /\ TarBack'
      <4>1. Cells = <<>> /\ Cells' = <<>>
        BY <2>2, <3>4, <3>5 DEF Cells
      <4>2. work' = <<>>
        BY <1>1, <3>4, <3>5, <4>1, SubSeqEmpty
      <4>3. TarLogged'
        BY <1>2, <2>1, <4>1, <4>2 DEF TarLogged
      <4>4. TarAtEnd' /\ TarBack'
        BY <1>2, <3>1, <4>2, NothingIsWhole DEF TarAtEnd, TarBack
      <4> QED
        BY <4>3, <4>4
    <3> QED
      BY <3>2, <3>3, <3>5 DEF TarLive
  <2> QED
    BY <2>7, <2>8
<1>6. Live' => settled
  BY <1>2 DEF Live
<1> QED
  BY <1>3, <1>5, <1>6 DEF TarInv

LEMMA KindIs ==
    ASSUME NEW kind \in Kind
    PROVE  kind = "file" \/ kind = "link" \/ kind = "dir"
BY DEF Kind

(* The writes of an entry put the cells of an entry. *)
LEMMA TarWritesOK ==
    ASSUME ArchiveAssumption,
           NEW e, e.path \in Path, e.kind \in Kind, e.id \in Nat, e.size \in Nat,
           e.kind # "file" => e.size = 0
    PROVE  TarWrites(e) \in Seq(DeviceWrite)
           /\ CellsOf(TarWrites(e)) = TarCells(e.path, e.kind, e.id, e.size)
<1> DEFINE path == e.path
           kind == e.kind
           id == e.id
           size == e.size
<1>0. /\ path \in Path /\ kind \in Kind /\ id \in Nat /\ size \in Nat /\ (kind # "file" => size = 0)
      /\ e.path = path /\ e.kind = kind /\ e.id = id /\ e.size = size
  OBVIOUS
<1> HIDE DEF path, kind, id, size
<1> DEFINE ll == LongLink(path)
           h == <<Header(path, kind, id, size)>>
           d == DataCells(id, size)
           w1 == Writes(ll, "ignore")
           o == IF kind = "dir" THEN "ignore" ELSE IF kind = "link" THEN "fail" ELSE "abort"
           w2 == Writes(h, o)
           w3 == Writes(d, "abort")
           rest == IF kind = "file" THEN w2 \o w3 ELSE w2
<1>1. TarWrites(e) = w1 \o rest
  <2>2. CASE kind = "file"
    BY <1>0, <2>2 DEF TarWrites
  <2>3. CASE kind = "link"
    BY <1>0, <2>3 DEF TarWrites
  <2>4. CASE kind = "dir"
    BY <1>0, <2>4 DEF TarWrites
  <2> QED
    BY <1>0, <2>2, <2>3, <2>4, KindIs
<1>2. ll \in Seq(Cell) /\ d \in Seq(Cell) /\ h \in Seq(Cell) /\ o \in {"ignore", "fail", "abort"}
  <2>1. Header(path, kind, id, size) \in Cell
    BY <1>0, HeaderOK
  <2> QED
    BY <1>0, <2>1, LongLinkOK, DataCellsOK
<1>3. kind # "file" => d = <<>>
  <2>1. kind # "file" => size = 0
    BY <1>0
  <2>2. d \in Seq(Cell) /\ Len(d) = size
    BY <1>0, DataCellsOK
  <2> HIDE DEF d
  <2> QED
    BY <2>1, <2>2
<1>4. TarCells(path, kind, id, size) = ll \o (h \o d)
  BY DEF TarCells
<1> HIDE DEF ll, h, d, o
<1>5. /\ w1 \in Seq(DeviceWrite) /\ CellsOf(w1) = ll
      /\ w2 \in Seq(DeviceWrite) /\ CellsOf(w2) = h
      /\ w3 \in Seq(DeviceWrite) /\ CellsOf(w3) = d
  BY <1>2, WritesOK
<1> HIDE DEF w1, w2, w3
<1>6. w2 \o w3 \in Seq(DeviceWrite) /\ CellsOf(w2 \o w3) = h \o d
  BY <1>5, CellsOfBoth, ConcatProperties
<1>7. rest \in Seq(DeviceWrite) /\ CellsOf(rest) = h \o d
  <2>1. CASE kind = "file"
    BY <1>6, <2>1
  <2>2. CASE kind # "file"
    <3>1. h \o d = h
      BY <1>2, <1>3, <2>2
    <3> QED
      BY <1>5, <2>2, <3>1
  <2> QED
    BY <2>1, <2>2
<1> HIDE DEF rest
<1>8. w1 \o rest \in Seq(DeviceWrite) /\ CellsOf(w1 \o rest) = ll \o (h \o d)
  BY <1>5, <1>7, CellsOfBoth, ConcatProperties
<1> QED
  BY <1>0, <1>1, <1>4, <1>8

LEMMA TarBegins ==
    ASSUME ArchiveAssumption, format = "tar", TarInv, IInv, writes \in Nat,
           NEW path \in WritePath, NEW kind \in Kind, NEW size \in Size, BeginWrite(path, kind, size)
    PROVE  TarInv'
<1> DEFINE id == writes + 1
           s == SizeOf(kind, size)
           e == [path |-> path, kind |-> kind, id |-> id, size |-> s]
           entry == [path |-> path, kind |-> kind, id |-> Contents(e)]
<1>1. /\ mode \in {"W", "RW"} /\ stage = "idle" /\ stage' = "write"
      /\ todo' = TarWrites(e) /\ pos' = (IF mode = "RW" THEN end ELSE pos)
      /\ log' = Append(log, entry)
      /\ UNCHANGED <<format, file, mode, device, work, tree, end, saved, settled, lost, touched>>
  BY DEF BeginWrite, CanWrite
<1>2. path \in Path /\ size \in Nat /\ id \in Nat
  BY DEF ArchiveAssumption
<1>3. s \in Nat /\ (kind # "file" => s = 0)
  BY <1>2 DEF SizeOf
<1>4. entry \in LogEntry
  <2>1. Contents(e) \in Nat
    BY <1>2 DEF Contents, Empty
  <2> QED
    BY <1>2, <2>1 DEF LogEntry
<1> HIDE DEF id, s, entry
<1>9. e.path = path /\ e.kind = kind /\ e.id = id /\ e.size = s
  OBVIOUS
<1> HIDE DEF e
<1>5. TarWrites(e) \in Seq(DeviceWrite) /\ CellsOf(TarWrites(e)) = TarCells(path, kind, id, s)
  BY <1>2, <1>3, <1>9, TarWritesOK
<1>6. TarDisk' /\ Shut' /\ TarPlace'
  BY <1>1 DEF TarInv, TarDisk, Shut, TarPlace
<1>7. ASSUME Live PROVE TarLive'
  <2>1. TarTypes /\ TarEntries /\ (~lost => TarLogged /\ TarAtEnd /\ TarBack)
    BY <1>7 DEF TarInv, TarLive
  <2>2. pos' \in Nat /\ pos' >= end
    BY <1>1, <2>1 DEF TarTypes, TarEntries
  <2>3. TarTypes'
    BY <1>1, <1>4, <1>5, <2>1, <2>2, AppendProperties DEF TarTypes
  <2>4. TarEntries'
    <3>1. pos' <= Len(work)
      BY <1>1, <2>1 DEF TarEntries
    <3> QED
      BY <1>1, <2>1, <2>2, <3>1 DEF TarEntries
  <2>5. ASSUME ~lost PROVE TarLogged' /\ TarAtEnd' /\ TarBack'
    <3>1. TarLogged'
      <4>1. log \in Seq(LogEntry)
        BY <2>1 DEF TarTypes
      <4>2. Len(log') = Len(log) + 1 /\ Len(log) \in Nat
        BY <1>1, <1>4, <4>1, AppendProperties
      <4>3. CASE mode = "W"
        BY <1>1, <4>3 DEF TarLogged
      <4>4. CASE mode # "W"
        <5>1. settled
          BY <1>7, <4>4 DEF Live
        <5>2. saved \in Seq(LogEntry)
          BY <5>1 DEF TarInv, TarDisk
        <5>3. Len(log) >= Len(saved)
          BY <1>1, <2>1, <2>5, <4>4 DEF TarLogged
        <5>4. Len(saved) \in Nat
          BY <5>2
        <5>5. Len(log') >= Len(saved) /\ Len(log') # Len(saved)
          BY <4>2, <5>3, <5>4
        <5> QED
          BY <1>1, <5>5 DEF TarLogged
      <4> QED
        BY <4>3, <4>4
    <3>2. TarAtEnd'
      <4> SUFFICES ASSUME NoMark(work, end)
                   PROVE  /\ pos' = Len(work) /\ TarWhole(work \o CellsOf(todo'))
        BY <1>1 DEF TarAtEnd
      <4>1. TarWhole(work) /\ (IF mode = "W" THEN pos = Len(work) ELSE end = Len(work))
        BY <1>1, <2>1, <2>5 DEF TarAtEnd
      <4>2. work \in Seq(Cell)
        BY <2>1 DEF TarTypes
      <4>3. TarWhole(work \o TarCells(path, kind, id, s))
        BY <1>2, <1>3, <4>1, <4>2, TarGrows
      <4> QED
        BY <1>1, <1>5, <4>1, <4>3
    <3>3. TarBack'
      BY <1>1 DEF TarBack
    <3> QED
      BY <3>1, <3>2, <3>3
  <2> QED
    BY <1>1, <2>3, <2>4, <2>5 DEF TarLive
<1>8. Live' => Live
  BY <1>1 DEF Live
<1> QED
  BY <1>6, <1>7, <1>8 DEF TarInv

-----------------------------------------------------------------------------
LEMMA AppendIsWhole ==
    ASSUME NEW c \in Seq(Cell), NEW w \in Seq(DeviceWrite), w # <<>>
    PROVE  /\ Append(c, Head(w).cell) \in Seq(Cell)
           /\ Append(c, Head(w).cell) \o CellsOf(Tail(w)) = c \o CellsOf(w)
           /\ Len(Append(c, Head(w).cell)) = Len(c) + 1
           /\ \A i \in 1..Len(c) : Append(c, Head(w).cell)[i] = c[i]
           /\ Head(w).cell \in Cell /\ Tail(w) \in Seq(DeviceWrite)
<1> DEFINE x == Head(w).cell
           one == <<x>>
           t == CellsOf(Tail(w))
<1>1. /\ Tail(w) \in Seq(DeviceWrite) /\ Head(w) \in DeviceWrite
      /\ CellsOf(w) = one \o t
  BY TailOfWrites
<1>2. x \in Cell
  BY <1>1 DEF DeviceWrite
<1>3. one \in Seq(Cell) /\ Len(one) = 1
  BY <1>2
<1>4. t \in Seq(Cell)
  BY <1>1, CellsOfOK
<1> HIDE DEF x, t
<1>5. Append(c, x) = c \o one /\ Append(c, x) \in Seq(Cell) /\ Len(Append(c, x)) = Len(c) + 1
      /\ \A i \in 1..Len(c) : Append(c, x)[i] = c[i]
  BY <1>2, AppendProperties, AppendIsConcat
<1> HIDE DEF one
<1>6. (c \o one) \o t = c \o (one \o t)
  BY <1>3, <1>4, ConcatAssociative
<1> QED
  BY <1>1, <1>2, <1>5, <1>6 DEF x, t

LEMMA TarPuts ==
    ASSUME format = "tar", TarInv, IInv, WriteCell
    PROVE  TarInv'
<1> DEFINE x == Head(todo).cell
<1>1. /\ stage = "write" /\ todo # <<>> /\ todo' = Tail(todo) /\ pos' = pos + 1
      /\ UNCHANGED <<format, mode, device, tree, end, stage, saved, log, settled, lost>>
      /\ device # "file" => work' = PutAt(work, pos, x) /\ UNCHANGED <<file, touched>>
  BY DEF WriteCell, Put
<1>2. device # "file"
  BY DEF TarInv, TarPlace
<1>3. TarDisk' /\ Shut' /\ TarPlace'
  <2>1. mode # "closed"
    BY <1>1 DEF IInv, Device
  <2> QED
    BY <1>1, <1>2, <2>1 DEF TarInv, TarDisk, Shut, TarPlace
<1>4. ASSUME Live PROVE TarLive'
  <2>1. TarTypes /\ TarEntries /\ (~lost => TarLogged /\ TarAtEnd /\ TarBack)
    BY <1>4 DEF TarInv, TarLive
  <2>2. /\ work \in Seq(Cell) /\ todo \in Seq(DeviceWrite) /\ pos \in Nat /\ end \in Nat
        /\ end <= pos /\ pos <= Len(work) /\ end <= Len(work)
    BY <1>1, <2>1 DEF TarTypes, TarEntries
  <2>3. x \in Cell /\ Tail(todo) \in Seq(DeviceWrite)
    BY <1>1, <2>2, AppendIsWhole
  <2> HIDE DEF x
  <2>4. work' \in Seq(Cell)
    BY <1>1, <1>2, <2>2, <2>3, PutAtOK
  <2>5. TarTypes'
    BY <1>1, <2>1, <2>2, <2>3, <2>4 DEF TarTypes
  <2>6. TarEntries'
    <3>1. GoodTree(work', end, tree)
      <4>1. Agrees(work, work', end)
        BY <1>1, <1>2, <2>2, <2>3, PutAtAgrees
      <4>2. GoodTree(work, end, tree)
        BY <2>1 DEF TarEntries
      <4> QED
        BY <2>2, <2>4, <4>1, <4>2, TreeAgrees
    <3>2. end <= Len(work') /\ pos + 1 <= Len(work')
      <4> DEFINE n == Len(work)
                 m == Len(work')
      <4>0. Len(PutAt(work, pos, x)) = IF n >= pos + 1 THEN n ELSE pos + 1
        BY <2>2, <2>3, PutAtOK
      <4>1. n \in Nat /\ m = IF n >= pos + 1 THEN n ELSE pos + 1
        BY <1>1, <1>2, <2>2, <4>0
      <4>2. end <= n
        BY <2>2
      <4> HIDE DEF n, m
      <4>3. end <= m /\ pos + 1 <= m
        BY <2>2, <4>1, <4>2
      <4> QED
        BY <4>3 DEF m
    <3>3. pos + 1 >= end
      BY <2>2
    <3> QED
      BY <1>1, <2>1, <3>1, <3>2, <3>3 DEF TarEntries
  <2>7. ASSUME ~lost PROVE TarLogged' /\ TarAtEnd' /\ TarBack'
    <3>1. TarLogged'
      <4> SUFFICES ASSUME mode # "W" PROVE Len(log) >= Len(saved) /\ Len(log) # Len(saved)
        BY <1>1 DEF TarLogged
      <4> QED
        BY <1>1, <2>1, <2>7 DEF TarLogged
    <3>2. TarAtEnd'
      <4> SUFFICES ASSUME NoMark(work', end)
                   PROVE  pos' = Len(work') /\ TarWhole(work' \o CellsOf(todo'))
        BY <1>1 DEF TarAtEnd
      <4>1. NoMark(work, end)
        <5>1. Agrees(work, work', end)
          BY <1>1, <1>2, <2>2, <2>3, PutAtAgrees
        <5> QED
          BY <5>1 DEF Agrees, NoMark
      <4>2. pos = Len(work) /\ TarWhole(work \o CellsOf(todo))
        BY <1>1, <2>1, <2>7, <4>1 DEF TarAtEnd
      <4>3. work' = Append(work, x)
        BY <1>1, <1>2, <2>2, <2>3, <4>2, PutAtEnd
      <4>4. /\ Append(work, x) \o CellsOf(Tail(todo)) = work \o CellsOf(todo)
            /\ Len(Append(work, x)) = Len(work) + 1
        BY <1>1, <2>2, <4>2, AppendIsWhole DEF x
      <4> QED
        BY <1>1, <4>2, <4>3, <4>4
    <3>3. TarBack'
      BY <1>1 DEF TarBack
    <3> QED
      BY <3>1, <3>2, <3>3
  <2> QED
    BY <1>1, <2>5, <2>6, <2>7 DEF TarLive
<1>5. Live' => Live
  BY <1>1 DEF Live
<1> QED
  BY <1>3, <1>4, <1>5 DEF TarInv

-----------------------------------------------------------------------------
LEMMA TarFails ==
    ASSUME format = "tar", TarInv, IInv, WriteFails
    PROVE  TarInv'
<1>1. /\ stage = "write" /\ todo # <<>> /\ lost' = TRUE
      /\ UNCHANGED <<format, file, mode, work, pos, tree, saved, log, settled, touched>>
      /\ device' \in {device, "none"} /\ stage' \in {"write", "idle"}
      /\ todo' = Tail(todo) \/ todo' = <<>>
      /\ end' = end \/ (end' = pos /\ mode = "RW")
  BY DEF WriteFails, Abort, EndAfterFailure
<1>2. mode # "closed"
  BY <1>1 DEF IInv, Device
<1>3. TarDisk' /\ Shut' /\ TarPlace'
  BY <1>1, <1>2 DEF TarInv, TarDisk, Shut, TarPlace
<1>4. ASSUME Live PROVE TarLive'
  <2>1. TarTypes /\ TarEntries
    BY <1>4 DEF TarInv, TarLive
  <2>2. todo' \in Seq(DeviceWrite)
    <3>1. Tail(todo) \in Seq(DeviceWrite)
      BY <1>1, <2>1, TailOfWrites DEF TarTypes
    <3>2. <<>> \in Seq(DeviceWrite)
      OBVIOUS
    <3> QED
      BY <1>1, <3>1, <3>2
  <2>3. TarTypes'
    BY <1>1, <2>1, <2>2 DEF TarTypes
  <2>4. end \in Nat /\ pos \in Nat /\ end' \in Nat /\ end <= end' /\ end' <= pos /\ pos <= Len(work)
        /\ GoodTree(work, end, tree) /\ (mode = "W" => end' = end /\ tree = EmptyTree /\ end = 0)
    BY <1>1, <2>1 DEF TarTypes, TarEntries
  <2>5. GoodTree(work, end', tree)
    BY <2>4, GrowsTree
  <2>6. end' <= Len(work)
    <3> DEFINE n == Len(work)
    <3>1. n \in Nat
      BY <2>1 DEF TarTypes
    <3> HIDE DEF n
    <3>2. end' <= n
      BY <2>4, <3>1 DEF n
    <3> QED
      BY <3>2 DEF n
  <2>7. TarEntries'
    BY <1>1, <2>4, <2>5, <2>6 DEF TarEntries
  <2> QED
    BY <1>1, <2>3, <2>7 DEF TarLive
<1>5. Live' => Live
  BY <1>1 DEF Live
<1> QED
  BY <1>3, <1>4, <1>5 DEF TarInv

LEMMA TarFinishes ==
    ASSUME format = "tar", TarInv, IInv, FinishWrite \/ PaddingFails
    PROVE  TarInv'
<1>1. /\ stage = "write" /\ todo = <<>> /\ stage' = "idle"
      /\ end' = (IF mode = "RW" THEN pos ELSE end)
      /\ lost' = lost \/ lost' = TRUE
      /\ UNCHANGED <<format, file, mode, device, work, pos, tree, todo, saved, log, settled, touched>>
  BY DEF FinishWrite, PaddingFails, FinishTar, FinishZip, historyVars
<1>2. mode \in {"W", "RW"}
  BY <1>1 DEF TarInv, TarPlace
<1>3. TarDisk' /\ Shut' /\ TarPlace'
  BY <1>1, <1>2 DEF TarInv, TarDisk, Shut, TarPlace
<1>4. ASSUME Live PROVE TarLive'
  <2>1. TarTypes /\ TarEntries /\ (~lost => TarLogged /\ TarAtEnd /\ TarBack)
    BY <1>4 DEF TarInv, TarLive
  <2>2. end \in Nat /\ pos \in Nat /\ end' \in Nat /\ end <= end' /\ end' <= pos /\ pos <= Len(work)
        /\ GoodTree(work, end, tree) /\ (mode = "W" => tree = EmptyTree /\ end = 0)
        /\ work \in Seq(Cell)
    BY <1>1, <2>1 DEF TarTypes, TarEntries
  <2>3. TarTypes'
    BY <1>1, <2>1, <2>2 DEF TarTypes
  <2>4. GoodTree(work, end', tree)
    BY <2>2, GrowsTree
  <2>5. end' <= Len(work)
    <3> DEFINE n == Len(work)
    <3>1. n \in Nat /\ pos <= n
      BY <2>2
    <3> HIDE DEF n
    <3>2. end' <= n
      BY <2>2, <3>1
    <3> QED
      BY <3>2 DEF n
  <2>6. TarEntries'
    BY <1>1, <2>2, <2>4, <2>5 DEF TarEntries
  <2>7. ASSUME ~lost' PROVE TarLogged' /\ TarAtEnd' /\ TarBack'
    <3>1. ~lost /\ TarLogged /\ TarAtEnd
      BY <1>1, <2>1, <2>7
    <3>2. TarLogged'
      BY <1>1, <3>1 DEF TarLogged, Cells
    <3>3. TarAtEnd'
      <4> SUFFICES ASSUME NoMark(work, end')
                   PROVE  TarWhole(work) /\ (IF mode = "W" THEN pos = Len(work) ELSE end' = Len(work))
        BY <1>1 DEF TarAtEnd
      <4>1. NoMark(work, end)
        <5>1. \A i \in 1..end : i \in 1..end'
          BY <2>2
        <5> QED
          BY <5>1 DEF NoMark
      <4>2. pos = Len(work) /\ TarWhole(work \o CellsOf(todo))
        BY <1>1, <3>1, <4>1 DEF TarAtEnd
      <4>3. CellsOf(todo) = <<>>
        BY <1>1 DEF CellsOf
      <4>4. work \o <<>> = work
        BY <2>2
      <4>5. mode # "W" => mode = "RW"
        BY <1>2
      <4> QED
        BY <1>1, <4>2, <4>3, <4>4, <4>5
    <3>4. TarBack'
      BY <1>1 DEF TarBack
    <3> QED
      BY <3>2, <3>3, <3>4
  <2> QED
    BY <1>1, <2>3, <2>6, <2>7 DEF TarLive
<1>5. Live' => Live
  BY <1>1 DEF Live
<1> QED
  BY <1>3, <1>4, <1>5 DEF TarInv

LEMMA TarReads ==
    ASSUME format = "tar", TarInv, IInv, NEW path \in Path, ReadEntry(path)
    PROVE  TarInv'
<1>1. /\ mode # "closed" /\ stage = "idle" /\ Has(tree, path) /\ tree[path].kind = "file"
      /\ pos' = tree[path].pos + (IF mode = "W" THEN 0 ELSE tree[path].size)
      /\ UNCHANGED <<format, file, mode, device, work, tree, end, stage, todo, saved, log, settled, lost, touched>>
  BY DEF ReadEntry
<1>2. TarDisk' /\ Shut' /\ TarPlace'
  BY <1>1 DEF TarInv, TarDisk, Shut, TarPlace
<1>3. ASSUME Live PROVE TarLive'
  <2>1. TarTypes /\ TarEntries /\ (~lost => TarLogged /\ TarAtEnd /\ TarBack)
    BY <1>3 DEF TarInv, TarLive
  <2>2. path \in DOMAIN tree /\ mode # "W"
    BY <1>1, <2>1 DEF TarEntries, Has, EmptyTree
  <2>3. GoodEntry(work, end, tree[path])
    BY <2>1, <2>2 DEF TarEntries, GoodTree
  <2>4. pos' \in Nat
    BY <1>1, <2>2, <2>3 DEF GoodEntry
  <2>5. TarTypes' /\ TarEntries'
    BY <1>1, <2>1, <2>2, <2>4 DEF TarTypes, TarEntries
  <2>6. ASSUME ~lost PROVE TarLogged' /\ TarAtEnd' /\ TarBack'
    BY <1>1, <2>1, <2>2, <2>6 DEF TarLogged, TarAtEnd, TarBack, Cells
  <2> QED
    BY <1>1, <2>5, <2>6 DEF TarLive
<1>4. Live' => Live
  BY <1>1 DEF Live
<1> QED
  BY <1>2, <1>3, <1>4 DEF TarInv

LEMMA GoneIsShut ==
    ASSUME Gone
    PROVE  /\ mode' = "closed" /\ tree' = EmptyTree /\ todo' = <<>> /\ touched' = FALSE
           /\ device' = "none" /\ stage' = "idle" /\ format' = format
           /\ Shut' /\ ~Live' /\ TarPlace'
BY DEF Gone, SessionOver, Shut, Live, TarPlace

LEMMA TarNotSaved ==
    ASSUME format = "tar", TarInv, NotSaved, Gone
    PROVE  TarInv'
<1>1. TarDisk'
  BY GoneIsShut DEF NotSaved, TarInv, TarDisk
<1> QED
  BY <1>1, GoneIsShut DEF TarInv

LEMMA TarTorn ==
    ASSUME format = "tar", TarInv, Torn, Gone
    PROVE  TarInv'
<1>1. TarDisk'
  BY DEF Torn, TarDisk
<1> QED
  BY <1>1, GoneIsShut DEF TarInv

(* What is saved is whole, if the archive answers for it. *)
LEMMA TarSaved ==
    ASSUME format = "tar", TarInv, mode # "closed", NEW contents, Saved(contents), Gone,
           Live /\ Answers => contents \in Seq(Cell) /\ TarWhole(contents)
    PROVE  TarInv'
<1>1. file' = contents /\ saved' = log /\ (settled' => Live /\ Answers)
  BY DEF Saved, Live
<1>2. Live => log \in Seq(LogEntry)
  BY DEF TarInv, TarLive, TarTypes
<1>3. TarDisk'
  BY <1>1, <1>2 DEF TarDisk
<1> QED
  BY <1>3, GoneIsShut DEF TarInv

LEMMA TarAnswers ==
    ASSUME format = "tar", Answers
    PROVE  ~lost /\ ((mode = "RW" /\ log = saved) \/ NoZero(work))
BY DEF Answers, NoZero

LEMMA TarCloses ==
    ASSUME format = "tar", TarInv, IInv, CloseSaveFile
    PROVE  TarInv'
<1>1. mode # "closed" /\ stage = "idle" /\ device = "save" /\ Commit /\ Gone
  BY DEF CloseSaveFile, Closing
<1>2. CASE saveError
  BY <1>1, <1>2, TarNotSaved DEF Commit
<1>3. CASE Torn
  BY <1>1, <1>3, TarTorn
<1>4. CASE Saved(work)
  <2>2. ASSUME Live, Answers PROVE work \in Seq(Cell) /\ TarWhole(work)
    <3>1. mode = "W"
      BY <1>1 DEF IInv, Device
    <3>2. ~lost
      BY <2>2, TarAnswers
    <3>3. TarTypes /\ TarEntries /\ TarAtEnd
      BY <2>2, <3>2 DEF TarInv, TarLive
    <3>4. end = 0
      BY <3>1, <3>3 DEF TarEntries
    <3>5. NoMark(work, end)
      BY <3>4 DEF NoMark
    <3> QED
      BY <1>1, <3>3, <3>5 DEF TarAtEnd, TarTypes
  <2> QED
    BY <1>1, <1>4, <2>2, TarSaved
<1> QED
  BY <1>1, <1>2, <1>3, <1>4 DEF Commit

LEMMA TarBeginsBack ==
    ASSUME format = "tar", TarInv, IInv, BeginWriteBack
    PROVE  TarInv'
<1>1. /\ mode = "RW" /\ stage = "idle" /\ stage' = "writeback" /\ file' = <<>> /\ touched' = TRUE
      /\ todo' = Writes(work, "ignore")
      /\ UNCHANGED <<format, mode, device, work, pos, tree, end, saved, log, settled, lost>>
  BY DEF BeginWriteBack, Closing, sessionVars, boundVars
<1>2. TarDisk' /\ Shut' /\ TarPlace'
  BY <1>1 DEF TarInv, TarDisk, Shut, TarPlace
<1>3. ASSUME Live PROVE TarLive'
  <2>1. TarTypes /\ TarEntries /\ (~lost => TarLogged /\ TarAtEnd)
    BY <1>3 DEF TarInv, TarLive
  <2>2. work \in Seq(Cell) /\ log \in Seq(LogEntry)
    BY <2>1 DEF TarTypes
  <2>3. Writes(work, "ignore") \in Seq(DeviceWrite) /\ CellsOf(Writes(work, "ignore")) = work
    BY <2>2, WritesOK
  <2>4. TarTypes' /\ TarEntries'
    BY <1>1, <2>1, <2>3 DEF TarTypes, TarEntries
  <2>5. ASSUME ~lost PROVE TarLogged' /\ TarAtEnd' /\ TarBack'
    <3>1. TarLogged' /\ TarAtEnd'
      BY <1>1 DEF TarLogged, TarAtEnd
    <3>2. ASSUME log = saved \/ NoZero(work) PROVE TarWhole(work)
      <4>1. CASE log = saved
        <5>1. settled /\ ~touched
          BY <1>1, <1>3 DEF Live, TarInv, TarPlace
        <5>2. work = Cells
          BY <1>1, <2>1, <2>5, <4>1 DEF TarLogged
        <5>3. CASE file = NoFile
          BY <5>2, <5>3, NothingIsWhole DEF Cells
        <5>4. CASE file # NoFile
          BY <5>1, <5>2, <5>4 DEF Cells, TarInv, TarDisk
        <5> QED
          BY <5>3, <5>4
      <4>2. CASE NoZero(work)
        <5>1. NoMark(work, end)
          <6> DEFINE n == Len(work)
          <6>1. n \in Nat /\ DOMAIN work = 1..n /\ end <= n /\ end \in Nat
            BY <2>1, <2>2 DEF TarEntries, TarTypes
          <6> HIDE DEF n
          <6>2. \A i \in 1..end : i \in DOMAIN work
            BY <6>1
          <6> QED
            BY <4>2, <6>2 DEF NoMark, NoZero
        <5> QED
          BY <1>1, <2>1, <2>5, <5>1 DEF TarAtEnd
      <4> QED
        BY <3>2, <4>1, <4>2
    <3>3. <<>> \in Seq(Cell) /\ <<>> \o work = work
      BY <2>2
    <3>4. TarBack'
      BY <1>1, <2>3, <3>2, <3>3 DEF TarBack
    <3> QED
      BY <3>1, <3>4
  <2> QED
    BY <1>1, <2>4, <2>5 DEF TarLive
<1>4. Live' => Live
  BY <1>1 DEF Live
<1> QED
  BY <1>2, <1>3, <1>4 DEF TarInv

LEMMA TarPutsBack ==
    ASSUME format = "tar", TarInv, IInv, WriteBackCell
    PROVE  TarInv'
<1>1. /\ stage = "writeback" /\ todo # <<>> /\ todo' = Tail(todo) /\ lost' = (lost \/ full)
      /\ IF full \/ lost THEN UNCHANGED file ELSE file' = Append(file, Head(todo).cell)
      /\ UNCHANGED <<format, mode, device, work, pos, tree, end, stage, saved, log, settled, touched>>
  BY DEF WriteBackCell, sessionVars, boundVars
<1>2. mode = "RW"
  BY <1>1 DEF IInv, Device
<1>3. ASSUME Live PROVE TarLive'
  <2>1. TarTypes /\ TarEntries /\ (~lost => TarBack)
    BY <1>3 DEF TarInv, TarLive
  <2>2. todo \in Seq(DeviceWrite) /\ Tail(todo) \in Seq(DeviceWrite)
    BY <1>1, <2>1, TailOfWrites DEF TarTypes
  <2>3. TarTypes' /\ TarEntries'
    BY <1>1, <1>2, <2>1, <2>2 DEF TarTypes, TarEntries
  <2>4. ASSUME ~lost' PROVE TarLogged' /\ TarAtEnd' /\ TarBack'
    <3>1. ~lost /\ ~full /\ file' = Append(file, Head(todo).cell)
      BY <1>1, <2>4
    <3>2. file \in Seq(Cell) /\ (log = saved \/ NoZero(work) => TarWhole(work) /\ file \o CellsOf(todo) = work)
      BY <1>1, <2>1, <3>1 DEF TarBack
    <3>3. file' \in Seq(Cell) /\ file' \o CellsOf(todo') = file \o CellsOf(todo)
      BY <1>1, <2>2, <3>1, <3>2, AppendIsWhole
    <3>4. TarBack'
      BY <1>1, <3>2, <3>3 DEF TarBack
    <3>5. TarLogged' /\ TarAtEnd'
      BY <1>1 DEF TarLogged, TarAtEnd
    <3> QED
      BY <3>4, <3>5
  <2> QED
    BY <2>3, <2>4 DEF TarLive
<1>4. Live' => Live
  BY <1>1 DEF Live
<1>5. TarDisk' /\ Shut' /\ TarPlace'
  BY <1>1, <1>2 DEF TarInv, TarDisk, Shut, TarPlace
<1> QED
  BY <1>3, <1>4, <1>5 DEF TarInv

LEMMA TarEndsBack ==
    ASSUME format = "tar", TarInv, IInv, EndWriteBack
    PROVE  TarInv'
<1>1. stage = "writeback" /\ todo = <<>> /\ Saved(file) /\ Gone
  BY DEF EndWriteBack
<1>2. mode = "RW"
  BY <1>1 DEF IInv, Device
<1>3. ASSUME Live, Answers PROVE file \in Seq(Cell) /\ TarWhole(file)
  <2>1. ~lost /\ (log = saved \/ NoZero(work))
    BY <1>3, TarAnswers
  <2>2. TarBack
    BY <1>3, <2>1 DEF TarInv, TarLive
  <2>3. file \in Seq(Cell) /\ TarWhole(work) /\ file \o CellsOf(todo) = work
    BY <1>1, <2>1, <2>2 DEF TarBack
  <2>4. CellsOf(todo) = <<>>
    BY <1>1 DEF CellsOf
  <2>5. file \o <<>> = file
    BY <2>3
  <2> QED
    BY <2>3, <2>4, <2>5
<1> QED
  BY <1>1, <1>2, <1>3, TarSaved

-----------------------------------------------------------------------------
LEMMA TarStays ==
    ASSUME format = "tar", TarInv, UNCHANGED <<format, file, sessionVars, stage, op, todo, boundVars, historyVars>>
    PROVE  TarInv'
<1>1. /\ TarDisk' = TarDisk /\ Shut' = Shut /\ TarPlace' = TarPlace /\ Live' = Live
      /\ TarTypes' = TarTypes /\ TarEntries' = TarEntries /\ lost' = lost /\ format' = format
  BY DEF sessionVars, boundVars, historyVars, TarDisk, Shut, TarPlace, Live, TarTypes, TarEntries
<1>2. TarLogged' = TarLogged /\ TarAtEnd' = TarAtEnd /\ TarBack' = TarBack
  BY DEF sessionVars, boundVars, historyVars, TarLogged, TarAtEnd, TarBack, Cells
<1> QED
  BY <1>1, <1>2 DEF TarInv, TarLive

LEMMA FormatStays == [Next]_vars => format' = format
<1>1. ASSUME Open PROVE format' = format
  BY <1>1 DEF Open, OpenWriteOnly, OpenFile, OpenTemp
<1>2. ASSUME NEW path \in WritePath, NEW kind \in Kind, NEW size \in Size,
             BeginWrite(path, kind, size) \/ WriteInMemory(path, kind, size)
      PROVE  format' = format
  BY <1>2 DEF BeginWrite, WriteInMemory
<1>3. ASSUME NEW kind \in Kind, RefuseWrite(kind) PROVE format' = format
  BY <1>3 DEF RefuseWrite
<1>4. ASSUME WriteCell \/ WriteFails \/ FinishWrite \/ PaddingFails PROVE format' = format
  BY <1>4 DEF WriteCell, WriteFails, FinishWrite, PaddingFails
<1>5. ASSUME NEW path \in Path, ReadEntry(path) PROVE format' = format
  BY <1>5 DEF ReadEntry
<1>6. ASSUME Close PROVE format' = format
  BY <1>6 DEF Close, CloseWithoutWriting, CloseSaveFile, BeginWriteBack, WriteBackCell, EndWriteBack,
              BeginCentral, BeginIndex, CentralCell, CentralFails, IndexFails, EndCentral, Gone
<1>7. ASSUME Crash \/ DiskChanges PROVE format' = format
  BY <1>7 DEF Crash, DiskChanges, Gone
<1> QED
  BY <1>1, <1>2, <1>3, <1>4, <1>5, <1>6, <1>7 DEF Next, vars

LEMMA CountStep == writes \in Nat /\ [Next]_vars => writes' \in Nat
<1> SUFFICES ASSUME writes \in Nat, [Next]_vars PROVE writes' = writes \/ writes' = writes + 1
  OBVIOUS
<1> USE DEF boundVars, historyVars, sessionVars
<1>1. ASSUME Open PROVE writes' = writes
  BY <1>1 DEF Open, OpenWriteOnly, OpenFile, OpenTemp
<1>2. ASSUME NEW path \in WritePath, NEW kind \in Kind, NEW size \in Size,
             BeginWrite(path, kind, size) \/ WriteInMemory(path, kind, size)
      PROVE  writes' = writes + 1
  BY <1>2 DEF BeginWrite, WriteInMemory
<1>3. ASSUME NEW kind \in Kind, RefuseWrite(kind) PROVE writes' = writes + 1
  BY <1>3 DEF RefuseWrite
<1>4. ASSUME WriteCell \/ WriteFails \/ FinishWrite \/ PaddingFails PROVE writes' = writes
  BY <1>4 DEF WriteCell, WriteFails, FinishWrite, PaddingFails
<1>5. ASSUME NEW path \in Path, ReadEntry(path) PROVE writes' = writes
  BY <1>5 DEF ReadEntry
<1>6. ASSUME Close PROVE writes' = writes
  BY <1>6 DEF Close, CloseWithoutWriting, CloseSaveFile, BeginWriteBack, WriteBackCell, EndWriteBack,
              BeginCentral, BeginIndex, CentralCell, CentralFails, IndexFails, EndCentral, Gone
<1>7. ASSUME Crash \/ DiskChanges PROVE writes' = writes
  BY <1>7 DEF Crash, DiskChanges, Gone
<1> QED
  BY <1>1, <1>2, <1>3, <1>4, <1>5, <1>6, <1>7 DEF Next, vars

LEMMA TarKept ==
    ASSUME format = "tar", IInv, writes \in Nat, TarInv, Next
    PROVE  TarInv'
<1>0. ArchiveAssumption
  BY ArchiveAssumption
<1>1. ASSUME Open PROVE TarInv'
  BY <1>1, TarOpenW, TarOpenTemp DEF Open, OpenFile
<1>2. ASSUME NEW path \in WritePath, NEW kind \in Kind, NEW size \in Size,
             BeginWrite(path, kind, size) \/ WriteInMemory(path, kind, size)
      PROVE  TarInv'
  BY <1>0, <1>2, TarBegins DEF WriteInMemory
<1>3. ASSUME NEW kind \in Kind, RefuseWrite(kind) PROVE TarInv'
  BY <1>3 DEF RefuseWrite
<1>4. ASSUME WriteCell \/ WriteFails \/ FinishWrite \/ PaddingFails PROVE TarInv'
  BY <1>4, TarPuts, TarFails, TarFinishes
<1>5. ASSUME NEW path \in Path, ReadEntry(path) PROVE TarInv'
  BY <1>5, TarReads
<1>6. ASSUME Close PROVE TarInv'
  <2>1. stage # "central"
    BY DEF TarInv, TarPlace
  <2>2. CASE CloseWithoutWriting
    BY <2>2, TarNotSaved DEF CloseWithoutWriting
  <2>3. CASE CentralFails
    BY <2>1, <2>3 DEF CentralFails
  <2>4. CASE BeginCentral \/ BeginIndex
    BY <2>4 DEF BeginCentral, BeginIndex
  <2>5. CASE CentralCell \/ IndexFails \/ EndCentral
    BY <2>1, <2>5 DEF CentralCell, IndexFails, EndCentral
  <2> QED
    BY <1>6, <2>2, <2>3, <2>4, <2>5, TarCloses, TarBeginsBack, TarPutsBack, TarEndsBack DEF Close
<1>7. ASSUME Crash PROVE TarInv'
  BY <1>7, TarNotSaved DEF Crash
<1>8. ASSUME DiskChanges PROVE TarInv'
  BY <1>8, TarStays DEF DiskChanges
<1> HIDE DEF TarInv
<1> QED
  BY <1>1, <1>2, <1>3, <1>4, <1>5, <1>6, <1>7, <1>8, Zenon DEF Next

LEMMA TarNextOK ==
    format = "tar" /\ IInv /\ writes \in Nat /\ TarInv /\ [Next]_vars => TarInv'
<1>1. format = "tar" /\ TarInv /\ UNCHANGED vars => TarInv'
  BY TarStays DEF vars
<1>2. format = "tar" /\ IInv /\ writes \in Nat /\ TarInv /\ Next => TarInv'
  BY TarKept
<1> QED
  BY <1>1, <1>2

-----------------------------------------------------------------------------
(* A zip file: the loop that reads it, and what it finds.                  *)

(* Where the next cell of some kind is. *)
LEMMA NextOfOK ==
    ASSUME NEW c \in Seq(Cell), NEW from \in Nat, NEW whats
    PROVE  \/ NextOf(c, from, whats) = -1 /\ \A i \in (from + 1)..Len(c) : c[i].what \notin whats
           \/ /\ NextOf(c, from, whats) \in from..(Len(c) - 1)
              /\ c[NextOf(c, from, whats) + 1].what \in whats
              /\ \A i \in (from + 1)..NextOf(c, from, whats) : c[i].what \notin whats
<1> DEFINE L == Len(c)
           there == {i \in (from + 1)..L : c[i].what \in whats}
           n == NextOf(c, from, whats)
<1>0. L \in Nat
  OBVIOUS
<1>1. CASE there = {}
  BY <1>1 DEF NextOf
<1>2. CASE there # {}
  <2>1. n = Min(there) - 1
    BY <1>2 DEF NextOf
  <2>2. there \subseteq Nat
    BY <1>0
  <2> HIDE DEF n
  <2>3. Min(there) \in there /\ \A y \in there : Min(there) <= y
    <3> HIDE DEF there
    <3>1. \E x \in there : \A y \in there : x <= y
      BY <1>2, <2>2, Least
    <3> QED
      BY <3>1 DEF Min
  <2> DEFINE m == Min(there)
  <2>4. m \in (from + 1)..L /\ c[m].what \in whats
    BY <2>3
  <2>5. \A i \in (from + 1)..(m - 1) : c[i].what \notin whats
    <3>1. TAKE i \in (from + 1)..(m - 1)
    <3>2. i \in (from + 1)..L /\ ~(m <= i)
      BY <1>0, <2>4
    <3> QED
      BY <2>3, <3>2
  <2> HIDE DEF m, L, there
  <2>6. n = m - 1
    BY <2>1 DEF m
  <2>7. n \in from..(L - 1) /\ n + 1 = m
    BY <1>0, <2>4, <2>6
  <2> QED
    BY <2>4, <2>5, <2>6, <2>7 DEF L, n
<1> QED
  BY <1>1, <1>2

(* The loop goes on further on, or not at all. *)
LEMMA AfterIsFurther ==
    ASSUME NEW c \in Seq(Cell), NEW at \in Nat, at < Len(c)
    PROVE  AfterLocal(c, at) \in Int /\ (AfterLocal(c, at) = -1 \/ AfterLocal(c, at) > at)
<1> DEFINE size == c[at + 1].size
           n == NextOf(c, at + 1, {"local", "central"})
<1>1. size \in Nat \cup {-1}
  <2>1. at + 1 \in DOMAIN c
    OBVIOUS
  <2> QED
    BY <2>1, SeqElement, CellId
<1>2. n = -1 \/ n \in (at + 1)..(Len(c) - 1)
  <2> HIDE DEF n
  <2>1. at + 1 \in Nat
    OBVIOUS
  <2> QED
    BY <2>1, NextOfOK DEF n
<1>3. AfterLocal(c, at) = n \/ (size # -1 /\ AfterLocal(c, at) = at + 1 + size)
  BY DEF AfterLocal, Unknown
<1> HIDE DEF size, n
<1> QED
  BY <1>1, <1>2, <1>3

-----------------------------------------------------------------------------
(* One turn of the loop that reads a zip file. *)
ZipTurn(c, g, at) ==
    IF at < 0 \/ at >= Len(c) THEN Stop(FALSE, Len(c))
    ELSE IF c[at + 1].what = "local" THEN Met(at, g[AfterLocal(c, at)])
    ELSE IF c[at + 1].what = "central" THEN Met(at, g[at + 1])
    ELSE Stop(c[at + 1].what = "endsig", at + 1)

IsZipLoop(c, g) == g = [at \in Int |-> ZipTurn(c, g, at)]

LEMMA HeadersChooses ==
    ASSUME NEW c
    PROVE  Headers(c) = (CHOOSE g : IsZipLoop(c, g))[FirstHeader(c)]
BY DEF Headers, IsZipLoop, ZipTurn

(* A turn depends on the turns further on. *)
LEMMA ZipTurnDepends ==
    ASSUME NEW c \in Seq(Cell), NEW g, NEW h, NEW at \in Int,
           \A q \in Int : q < 0 \/ q > at => g[q] = h[q]
    PROVE  ZipTurn(c, g, at) = ZipTurn(c, h, at)
<1>1. CASE at < 0 \/ at >= Len(c)
  BY <1>1 DEF ZipTurn
<1>2. CASE ~(at < 0 \/ at >= Len(c))
  <2>1. at \in Nat /\ at < Len(c)
    BY <1>2
  <2> DEFINE next == AfterLocal(c, at)
  <2>2. next \in Int /\ (next < 0 \/ next > at)
    BY <2>1, AfterIsFurther
  <2> HIDE DEF next
  <2>3. g[next] = h[next] /\ g[at + 1] = h[at + 1]
    BY <2>2
  <2> QED
    BY <1>2, <2>3 DEF ZipTurn, next
<1> QED
  BY <1>1, <1>2

LEMMA HeadersExist ==
    ASSUME NEW c \in Seq(Cell)
    PROVE  \E g : Headers(c) = g[FirstHeader(c)] /\ \A at \in Int : g[at] = ZipTurn(c, g, at)
<1> DEFINE L == Len(c)
<1>0. L \in Nat
  OBVIOUS
<1> DEFINE From(g, k) == \A at \in Int : at < 0 \/ at + k >= L => g[at] = ZipTurn(c, g, at)
           P == {k \in 0..L : \E g : g = [at \in Int |-> g[at]] /\ From(g, k)}
<1>1. 0 \in P
  <2> DEFINE g == [at \in Int |-> Stop(FALSE, L)]
  <2>1. \A at \in Int : at < 0 \/ at + 0 >= L => g[at] = ZipTurn(c, g, at)
    <3>1. TAKE at \in Int
    <3>2. HAVE at < 0 \/ at + 0 >= L
    <3>3. at < 0 \/ at >= L
      BY <1>0, <3>2
    <3>4. ZipTurn(c, g, at) = Stop(FALSE, L)
      <4> HIDE DEF g
      <4> QED
        BY <3>3 DEF ZipTurn
    <3> QED
      BY <3>4
  <2>2. g = [at \in Int |-> g[at]]
    OBVIOUS
  <2> HIDE DEF g
  <2> QED
    BY <1>0, <2>1, <2>2
<1>2. ASSUME NEW k \in 1..L, k - 1 \in P PROVE k \in P
  <2>1. PICK g : g = [at \in Int |-> g[at]] /\ From(g, k - 1)
    BY <1>2
  <2> DEFINE h == [at \in Int |-> ZipTurn(c, g, at)]
  <2>2. \A at \in Int : h[at] = ZipTurn(c, g, at)
    OBVIOUS
  <2>3. h = [at \in Int |-> h[at]]
    OBVIOUS
  <2> HIDE DEF h
  <2>4. \A at \in Int : at < 0 \/ at + k >= L => h[at] = ZipTurn(c, h, at)
    <3>1. TAKE at \in Int
    <3>2. HAVE at < 0 \/ at + k >= L
    <3>3. \A q \in Int : q < 0 \/ (q > at /\ ~(at < 0)) => g[q] = h[q]
      <4>1. TAKE q \in Int
      <4>2. HAVE q < 0 \/ (q > at /\ ~(at < 0))
      <4>3. q < 0 \/ q + (k - 1) >= L
        BY <1>0, <3>2, <4>2
      <4> QED
        BY <2>1, <2>2, <4>3
    <3>4. ZipTurn(c, g, at) = ZipTurn(c, h, at)
      <4>1. CASE at < 0
        BY <4>1 DEF ZipTurn
      <4>2. CASE ~(at < 0)
        BY <3>3, <4>2, ZipTurnDepends
      <4> QED
        BY <4>1, <4>2
    <3> QED
      BY <2>2, <3>4
  <2> QED
    BY <1>0, <2>3, <2>4
<1>3. \A k \in 0..L : k \in P
  <2> HIDE DEF P
  <2> QED
    BY <1>0, <1>1, <1>2, UpTo
<1>4. PICK g0 : g0 = [at \in Int |-> g0[at]] /\ From(g0, L)
  BY <1>0, <1>3
<1>5. \A at \in Int : g0[at] = ZipTurn(c, g0, at)
  <2>1. TAKE at \in Int
  <2>2. at < 0 \/ at + L >= L
    BY <1>0
  <2> QED
    BY <1>4, <2>2
<1>6. IsZipLoop(c, g0)
  BY <1>4, <1>5 DEF IsZipLoop
<1> DEFINE g == CHOOSE g : IsZipLoop(c, g)
<1>7. IsZipLoop(c, g)
  BY <1>6
<1>8. Headers(c) = g[FirstHeader(c)]
  BY HeadersChooses
<1> HIDE DEF g
<1>9. \A at \in Int : g[at] = ZipTurn(c, g, at)
  BY <1>7 DEF IsZipLoop
<1> QED
  BY <1>8, <1>9

-----------------------------------------------------------------------------
(* What the loop gives from a place behind the local headers on. *)
StopsBehind(c, to, h) ==
    h \in [ok : BOOLEAN, at : Seq(0..(Len(c) - 1)), pos : (to + 1)..Len(c)]

(* And before it: the first central header it meets is the first there is. *)
Leads(c, to, h) ==
    /\ StopsBehind(c, to, h)
    /\ \E m \in 1..Len(h.at) : /\ h.at[m] = to
                               /\ \A k \in 1..(m - 1) : c[h.at[k] + 1].what # "central"

LEMMA MetIs ==
    ASSUME NEW c \in Seq(Cell), NEW to \in Nat, NEW h, StopsBehind(c, to, h), NEW from \in 0..(Len(c) - 1)
    PROVE  /\ StopsBehind(c, to, Met(from, h))
           /\ Len(Met(from, h).at) = Len(h.at) + 1 /\ Len(h.at) \in Nat
           /\ Met(from, h).at[1] = from
           /\ \A k \in 1..Len(h.at) : Met(from, h).at[k + 1] = h.at[k]
<1> DEFINE S == 0..(Len(c) - 1)
           one == <<from>>
           a == h.at
           new == one \o a
<1>1. h \in [ok : BOOLEAN, at : Seq(S), pos : (to + 1)..Len(c)] /\ from \in S
  BY DEF StopsBehind
<1> HIDE DEF S
<1>2. a \in Seq(S)
  BY <1>1
<1>3. one \in Seq(S) /\ Len(one) = 1 /\ one[1] = from
  BY <1>1
<1>4. Met(from, h) = [h EXCEPT !.at = new]
  BY DEF Met
<1> HIDE DEF one, a
<1>5. new \in Seq(S) /\ Joins(new, one, a)
  BY <1>2, <1>3, Joined
<1>6. new \in Seq(S) /\ Len(new) = Len(a) + 1 /\ new[1] = from /\ \A k \in 1..Len(a) : new[k + 1] = a[k]
  <2> DEFINE n == Len(a)
  <2>1. n \in Nat
    BY <1>2
  <2> HIDE DEF new, n
  <2>2. Len(new) = 1 + n /\ (\A i \in 1..1 : new[i] = one[i]) /\ \A i \in 1..n : new[1 + i] = a[i]
    BY <1>3, <1>5 DEF Joins, n
  <2> QED
    BY <1>3, <1>5, <2>1, <2>2 DEF n
<1> HIDE DEF new
<1>7. Met(from, h) \in [ok : BOOLEAN, at : Seq(S), pos : (to + 1)..Len(c)] /\ Met(from, h).at = new
  BY <1>1, <1>4, <1>6
<1> QED
  BY <1>2, <1>6, <1>7 DEF StopsBehind, S, a

LEMMA StopIs ==
    ASSUME NEW c \in Seq(Cell), NEW to \in Nat, NEW at \in (to + 1)..Len(c), NEW ok \in BOOLEAN
    PROVE  StopsBehind(c, to, Stop(ok, at))
<1>1. <<>> \in Seq(0..(Len(c) - 1))
  OBVIOUS
<1> QED
  BY <1>1 DEF StopsBehind, Stop

IsLoop(c, g) == \A at \in Int : g[at] = ZipTurn(c, g, at)

LEMMA TurnIs ==
    ASSUME NEW c \in Seq(Cell), NEW g, IsLoop(c, g), NEW at \in Nat, at < Len(c)
    PROVE  /\ c[at + 1].what = "local" => g[at] = Met(at, g[AfterLocal(c, at)])
           /\ c[at + 1].what = "central" => g[at] = Met(at, g[at + 1])
           /\ c[at + 1].what \notin {"local", "central"} => g[at] = Stop(c[at + 1].what = "endsig", at + 1)
<1>1. g[at] = ZipTurn(c, g, at) /\ ~(at < 0 \/ at >= Len(c))
  BY DEF IsLoop
<1> QED
  BY <1>1 DEF ZipTurn

LEMMA LoopBehind ==
    ASSUME NEW c \in Seq(Cell), NEW g, IsLoop(c, g), NEW to \in Nat, to < Len(c)
    PROVE  \A at \in Int : at < 0 \/ at > to => StopsBehind(c, to, g[at])
<1> DEFINE L == Len(c)
           P == {k \in 0..L : \A at \in Int : at < 0 \/ (at > to /\ at + k >= L) => StopsBehind(c, to, g[at])}
<1>0. L \in Nat
  OBVIOUS
<1>1. ASSUME NEW at \in Int, at < 0 \/ at >= L PROVE StopsBehind(c, to, g[at])
  <2>1. g[at] = Stop(FALSE, L)
    BY <1>1 DEF IsLoop, ZipTurn
  <2>2. L \in (to + 1)..L
    BY <1>0
  <2> QED
    BY <2>1, <2>2, StopIs
<1>2. 0 \in P
  BY <1>0, <1>1
<1>3. ASSUME NEW k \in 1..L, k - 1 \in P PROVE k \in P
  <2>1. ASSUME NEW at \in Int, at > to, at + k >= L, at < L PROVE StopsBehind(c, to, g[at])
    <3>1. at \in Nat /\ at \in 0..(L - 1) /\ at + 1 \in (to + 1)..L
      BY <1>0, <2>1
    <3>2. ASSUME NEW q \in Int, q < 0 \/ q > at PROVE StopsBehind(c, to, g[q])
      BY <1>3, <2>1, <3>2
    <3>3. StopsBehind(c, to, g[AfterLocal(c, at)]) /\ StopsBehind(c, to, g[at + 1])
      <4> DEFINE next == AfterLocal(c, at)
      <4>1. next \in Int /\ (next < 0 \/ next > at)
        BY <2>1, <3>1, AfterIsFurther
      <4> HIDE DEF next
      <4>2. StopsBehind(c, to, g[next]) /\ StopsBehind(c, to, g[at + 1])
        BY <3>2, <4>1
      <4> QED
        BY <4>2 DEF next
    <3>4. StopsBehind(c, to, Met(at, g[AfterLocal(c, at)])) /\ StopsBehind(c, to, Met(at, g[at + 1]))
      BY <3>1, <3>3, MetIs
    <3>5. StopsBehind(c, to, Stop(c[at + 1].what = "endsig", at + 1))
      BY <3>1, StopIs
    <3> QED
      BY <2>1, <3>1, <3>4, <3>5, TurnIs
  <2>2. \A at \in Int : at < 0 \/ (at > to /\ at + k >= L) => StopsBehind(c, to, g[at])
    BY <1>0, <1>1, <2>1
  <2> QED
    BY <2>2
<1>4. \A k \in 0..L : k \in P
  <2> HIDE DEF P
  <2> QED
    BY <1>0, <1>2, <1>3, UpTo
<1> QED
  BY <1>0, <1>4

-----------------------------------------------------------------------------
(* From a local header the loop gets to the next, and to the first central *)
(* header after the last.                                                  *)
LEMMA AfterLocalIs ==
    ASSUME NEW c \in Seq(Cell), NEW to \in Nat, LocalsEnd(c, to), to < Len(c), c[to + 1].what = "central",
           NEW at \in Nat, at < to, c[at + 1].what = "local"
    PROVE  /\ AfterLocal(c, at) \in (at + 1)..to
           /\ AfterLocal(c, at) = to \/ c[AfterLocal(c, at) + 1].what = "local"
<1> DEFINE size == c[at + 1].size
           n == NextOf(c, at + 1, {"local", "central"})
           i == at + 1
           L == Len(c)
<1>0. i \in 1..to /\ i \in Nat /\ L \in Nat /\ to < L
  OBVIOUS
<1>1. \A k \in 1..to : c[k].what \in {"local", "data"}
  BY DEF LocalsEnd
<1>2. CASE size = -1 \/ size > L
  <2>1. AfterLocal(c, at) = n
    BY <1>2 DEF AfterLocal, Unknown
  <2>2. \/ n = -1 /\ \A k \in (i + 1)..L : c[k].what \notin {"local", "central"}
        \/ /\ n \in i..(L - 1) /\ c[n + 1].what \in {"local", "central"}
           /\ \A k \in (i + 1)..n : c[k].what \notin {"local", "central"}
    BY <1>0, NextOfOK
  <2> HIDE DEF n, i, L
  <2>3. n \in i..to /\ c[n + 1].what \in {"local", "central"}
    <3>1. n # -1
      <4>1. to + 1 \in (i + 1)..L
        BY <1>0
      <4>2. c[to + 1].what \in {"local", "central"}
        OBVIOUS
      <4>3. ~(n \in i..(L - 1)) \/ n # -1
        BY <1>0
      <4> QED
        BY <2>2, <4>1, <4>2, <4>3
    <3>2. n \in i..(L - 1) /\ c[n + 1].what \in {"local", "central"}
      BY <2>2, <3>1
    <3>3. ~(n > to)
      <4> SUFFICES ASSUME n > to PROVE FALSE
        OBVIOUS
      <4>1. to + 1 \in (i + 1)..n
        BY <1>0, <3>2
      <4> QED
        BY <2>2, <3>1, <4>1
    <3> QED
      BY <1>0, <3>2, <3>3
  <2>4. n = to \/ n + 1 \in 1..to
    BY <1>0, <2>3
  <2>5. n = to \/ c[n + 1].what = "local"
    BY <1>1, <2>3, <2>4
  <2> QED
    BY <2>1, <2>3, <2>5 DEF i
<1>3. CASE ~(size = -1 \/ size > L)
  <2>1. AfterLocal(c, at) = at + 1 + size
    BY <1>3 DEF AfterLocal, Unknown
  <2>2. FitsBefore(c, to, i, c[i].size)
    BY <1>0, <1>3 DEF LocalsEnd, Unknown
  <2>3. size \in Nat /\ i + size <= to /\ (i + size < to => c[i + size + 1].what = "local")
    BY <2>2 DEF FitsBefore
  <2> HIDE DEF size, L
  <2>4. at + 1 + size \in (at + 1)..to /\ (at + 1 + size = to \/ at + 1 + size < to)
    BY <2>3
  <2> QED
    BY <2>1, <2>3, <2>4
<1> QED
  BY <1>2, <1>3

LEMMA MetLeads ==
    ASSUME NEW c \in Seq(Cell), NEW to \in Nat, NEW h, Leads(c, to, h), NEW from \in 0..(Len(c) - 1),
           c[from + 1].what # "central"
    PROVE  Leads(c, to, Met(from, h))
<1> DEFINE x == Met(from, h)
<1>1. StopsBehind(c, to, h)
  BY DEF Leads
<1>2. /\ StopsBehind(c, to, x) /\ Len(x.at) = Len(h.at) + 1 /\ Len(h.at) \in Nat
      /\ x.at[1] = from /\ \A k \in 1..Len(h.at) : x.at[k + 1] = h.at[k]
  BY <1>1, MetIs
<1>3. PICK m \in 1..Len(h.at) : h.at[m] = to /\ \A k \in 1..(m - 1) : c[h.at[k] + 1].what # "central"
  BY DEF Leads
<1> HIDE DEF x
<1>4. m + 1 \in 1..Len(x.at) /\ x.at[m + 1] = to
  BY <1>2, <1>3
<1>5. \A k \in 1..((m + 1) - 1) : c[x.at[k] + 1].what # "central"
  <2>1. TAKE k \in 1..((m + 1) - 1)
  <2>2. CASE k = 1
    BY <1>2, <2>2
  <2>3. CASE k # 1
    <3> DEFINE n == Len(h.at)
    <3>0. n \in Nat /\ m \in 1..n
      BY <1>2, <1>3
    <3> HIDE DEF n
    <3>1. k - 1 \in 1..(m - 1) /\ k - 1 \in 1..n /\ (k - 1) + 1 = k
      BY <3>0, <2>3
    <3> QED
      BY <1>2, <1>3, <3>1 DEF n
  <2> QED
    BY <2>2, <2>3
<1>6. Leads(c, to, x)
  BY <1>2, <1>4, <1>5 DEF Leads
<1> QED
  BY <1>6 DEF x

LEMMA LoopLeads ==
    ASSUME NEW c \in Seq(Cell), NEW g, IsLoop(c, g), NEW to \in Nat, LocalsEnd(c, to), to < Len(c),
           c[to + 1].what = "central"
    PROVE  \A at \in 0..to : at = to \/ c[at + 1].what = "local" => Leads(c, to, g[at])
<1> DEFINE P == {k \in 0..to : \A at \in 0..to :
                    at + k >= to /\ (at = to \/ c[at + 1].what = "local") => Leads(c, to, g[at])}
<1>0. to \in 0..(Len(c) - 1) /\ Len(c) \in Nat
  OBVIOUS
<1>1. Leads(c, to, g[to])
  <2>1. g[to] = Met(to, g[to + 1])
    BY TurnIs
  <2>2. StopsBehind(c, to, g[to + 1])
    BY LoopBehind
  <2> DEFINE x == Met(to, g[to + 1])
  <2>3. /\ StopsBehind(c, to, x) /\ x.at[1] = to
        /\ Len(x.at) = Len(g[to + 1].at) + 1 /\ Len(g[to + 1].at) \in Nat
    BY <1>0, <2>2, MetIs
  <2> HIDE DEF x
  <2>4. 1 \in 1..Len(x.at)
    BY <2>3
  <2>5. \A k \in 1..(1 - 1) : c[x.at[k] + 1].what # "central"
    OBVIOUS
  <2>6. Leads(c, to, x)
    BY <2>3, <2>4, <2>5 DEF Leads
  <2> QED
    BY <2>1, <2>6 DEF x
<1>2. 0 \in P
  BY <1>1
<1>3. ASSUME NEW k \in 1..to, k - 1 \in P PROVE k \in P
  <2>1. ASSUME NEW at \in 0..to, at + k >= to, at # to, c[at + 1].what = "local" PROVE Leads(c, to, g[at])
    <3> DEFINE next == AfterLocal(c, at)
    <3>1. at \in Nat /\ at < to /\ at < Len(c) /\ at \in 0..(Len(c) - 1)
      BY <1>0, <2>1
    <3>2. next \in (at + 1)..to /\ (next = to \/ c[next + 1].what = "local")
      BY <2>1, <3>1, AfterLocalIs
    <3>3. g[at] = Met(at, g[next])
      BY <2>1, <3>1, TurnIs
    <3> HIDE DEF next
    <3>4. next \in 0..to /\ next + (k - 1) >= to
      BY <2>1, <3>1, <3>2
    <3>5. Leads(c, to, g[next])
      BY <1>3, <3>2, <3>4
    <3>6. Leads(c, to, Met(at, g[next]))
      BY <2>1, <3>1, <3>5, MetLeads
    <3> QED
      BY <3>3, <3>6
  <2>2. \A at \in 0..to : at + k >= to /\ (at = to \/ c[at + 1].what = "local") => Leads(c, to, g[at])
    BY <1>1, <2>1
  <2> QED
    BY <2>2
<1>4. \A k \in 0..to : k \in P
  <2> HIDE DEF P
  <2> QED
    BY <1>2, <1>3, UpTo
<1>5. \A at \in 0..to : at + to >= to
  OBVIOUS
<1>6. to \in P
  BY <1>4
<1> QED
  BY <1>5, <1>6

-----------------------------------------------------------------------------
ListEntry == [path : SomePath, kind : Kind, id : Nat, size : Nat, start : Nat]

(* What is in the list, or an index, with its data before a place. *)
InPlace(c, to) == {e \in ListEntry : IsInPlace(c, to, e)}

(* Of a file, a place depends only on these. *)
LEMMA SamePlace ==
    ASSUME NEW c, NEW to, NEW e, IsInPlace(c, to, e),
           NEW f, f.kind = e.kind, f.size = e.size, f.start = e.start
    PROVE  IsInPlace(c, to, f)
BY DEF IsInPlace

LEMMA PlaceIs ==
    ASSUME NEW c, NEW to, NEW e, IsInPlace(c, to, e)
    PROVE  /\ e.start \in Nat /\ e.start < to /\ c[e.start + 1].what = "local"
           /\ e.size \in Nat /\ e.start + 1 + e.size <= to
           /\ e.start + 1 + e.size < to => c[e.start + 1 + e.size + 1].what = "local"
           /\ e.kind = "file" => HasData(c, e.start + 1, e.size)
BY DEF IsInPlace, FitsBefore

LEMMA GuessIs ==
    ASSUME NEW c \in Seq(Cell), NEW at
    PROVE  GuessedLink(c, at) \in Nat
<1>1. at + 2 \in DOMAIN c => c[at + 2].id \in Nat
  BY SeqElement, CellId
<1> QED
  BY <1>1 DEF GuessedLink, NoLink

LEMMA FileAtIs ==
    ASSUME NEW c \in Seq(Cell), NEW to \in Nat, LocalsEnd(c, to),
           NEW at \in Seq(0..(Len(c) - 1)), NEW n \in 1..Len(at), c[at[n] + 1].what = "central"
    PROVE  FileAt(c, at, n) \in InPlace(c, to)
<1> DEFINE i == at[n] + 1
           cell == c[i]
           file0 == FileAt(c, at, n)
           locals == {m \in 1..(n - 1) : /\ c[at[m] + 1].what = "local"
                                         /\ SameName(c[at[m] + 1], cell.path, cell.kind)}
           target == IF locals = {} THEN NoLink ELSE GuessedLink(c, at[Max(locals)])
           id0 == IF cell.kind = "link" THEN target ELSE cell.id
<1>1. i \in DOMAIN c
  <2>1. at[n] \in 0..(Len(c) - 1)
    OBVIOUS
  <2>2. Len(c) \in Nat /\ DOMAIN c = 1..Len(c)
    OBVIOUS
  <2> QED
    BY <2>1, <2>2
<1>2. cell.path \in SomePath /\ cell.kind \in Kind /\ cell.id \in Nat
  BY <1>1, SeqElement, CellId DEF SomePath
<1>3. target \in Nat
  <2>1. NoLink \in Nat
    BY DEF NoLink
  <2> QED
    BY <2>1, GuessIs
<1>4. IsInPlace(c, to, cell)
  BY <1>1 DEF LocalsEnd
<1>5. cell.size \in Nat /\ cell.start \in Nat
  BY <1>4, PlaceIs
<1>6. file0 = [path |-> cell.path, kind |-> cell.kind, size |-> cell.size, start |-> cell.start, id |-> id0]
  BY DEF FileAt
<1> HIDE DEF cell, target, file0
<1>7. id0 \in Nat
  BY <1>2, <1>3
<1> HIDE DEF id0
<1>8. file0 \in ListEntry
  BY <1>2, <1>5, <1>6, <1>7 DEF ListEntry
<1>9. file0.kind = cell.kind /\ file0.size = cell.size /\ file0.start = cell.start
  BY <1>6
<1>10. IsInPlace(c, to, file0)
  BY <1>4, <1>9, SamePlace
<1> QED
  BY <1>8, <1>10 DEF InPlace, file0

-----------------------------------------------------------------------------
LEMMA WithFileKeeps ==
    ASSUME NEW c, NEW to, NEW t, GoodTree(c, to, t), NEW f \in InPlace(c, to)
    PROVE  GoodTree(c, to, WithFile(t, f))
<1>1. f \in ListEntry /\ IsInPlace(c, to, f)
  BY DEF InPlace
<1>2. f.path \in Seq(Name)
  BY <1>1, PathIsSeq DEF ListEntry
<1>3. GoodTree(c, to, Insert(t, f.path, DirEntry))
  BY <1>2, DirIsGood, InsertKeeps
<1> DEFINE e == FileEntry(f.kind, f.start + 1, f.size, f.id)
<1>4. e.kind = f.kind /\ e.pos = f.start + 1 /\ e.size = f.size
  BY DEF FileEntry
<1> HIDE DEF e
<1>5. GoodEntry(c, to, e)
  <2>1. /\ f.start \in Nat /\ f.size \in Nat /\ f.start + 1 + f.size <= to
        /\ f.kind = "file" => HasData(c, f.start + 1, f.size)
    BY <1>1, PlaceIs
  <2>2. e.pos \in Nat /\ e.size \in Nat /\ e.pos + e.size <= to
    BY <1>4, <2>1
  <2>3. e.kind = "file" => HasData(c, e.pos, e.size)
    BY <1>4, <2>1
  <2> QED
    BY <2>2, <2>3 DEF GoodEntry
<1>6. GoodTree(c, to, Insert(t, f.path, e))
  BY <1>2, <1>5, InsertKeeps
<1> QED
  BY <1>3, <1>6 DEF WithFile, e

LEMMA ZipTreeOK ==
    ASSUME NEW c, NEW to, NEW files \in Seq(InPlace(c, to))
    PROVE  GoodTree(c, to, ZipTree(files))
<1> DEFINE L == Len(files)
<1>0. L \in Nat /\ \A n \in 1..L : files[n] \in InPlace(c, to)
  OBVIOUS
<1>1. PICK f : /\ ZipTree(files) = f[L]
               /\ f[0] = EmptyTree
               /\ \A n \in 1..L : f[n] = WithFile(f[n - 1], files[n])
  BY <1>0, ZipTreeIs
<1> HIDE DEF L
<1> DEFINE P == {n \in 0..L : GoodTree(c, to, f[n])}
<1>2. 0 \in P
  BY <1>0, <1>1, NoEntries
<1>3. ASSUME NEW n \in 1..L, n - 1 \in P PROVE n \in P
  <2>1. GoodTree(c, to, f[n - 1]) /\ n \in 0..L
    BY <1>0, <1>3
  <2>2. GoodTree(c, to, f[n])
    BY <1>0, <1>1, <2>1, WithFileKeeps
  <2> QED
    BY <2>1, <2>2
<1>4. \A n \in 0..L : n \in P
  <2> HIDE DEF P
  <2> QED
    BY <1>0, <1>2, <1>3, UpTo
<1> QED
  BY <1>0, <1>1, <1>4

LEMMA OnlyOf ==
    ASSUME NEW S, NEW s \in Seq(S), NEW places
    PROVE  Only(s, places) \in Seq(S)
<1>1. Len(s) \in Nat /\ \A n \in 1..Len(s) : n \in places => s[n] \in S
  OBVIOUS
<1> QED
  BY <1>1, OnlyTakes

-----------------------------------------------------------------------------
(* Where opening leaves the device. *)
PastEnd(c, to, at) == CentralsAt(c, to) /\ (IF c = <<>> THEN at = 0 ELSE at > to)

OpenedWell(c, to, scan) ==
    /\ scan.offset = to /\ scan.pos \in Nat /\ PastEnd(c, to, scan.pos)
    /\ scan.list \in Seq(InPlace(c, to))

(* The headers of a file, when there is an index. *)
LEMMA HeadersLead ==
    ASSUME NEW c \in Seq(Cell), NEW to \in Nat, LocalsEnd(c, to), to < Len(c), c[to + 1].what = "central"
    PROVE  Leads(c, to, Headers(c))
<1>1. PICK g : Headers(c) = g[FirstHeader(c)] /\ \A at \in Int : g[at] = ZipTurn(c, g, at)
  BY HeadersExist
<1>2. IsLoop(c, g)
  BY <1>1 DEF IsLoop
<1>3. \A at \in 0..to : at = to \/ c[at + 1].what = "local" => Leads(c, to, g[at])
  BY <1>2, LoopLeads
<1>4. to > 0 => c[1].what = "local"
  BY DEF LocalsEnd
<1>5. 0 \in 0..to /\ (0 = to \/ c[0 + 1].what = "local")
  BY <1>4
<1>6. c # <<>> /\ (c[1].what = "local" \/ c[1].what = "central")
  <2>1. Len(c) # 0
    OBVIOUS
  <2> QED
    BY <1>4, <2>1
<1>7. FirstHeader(c) = 0
  BY <1>6 DEF FirstHeader
<1> QED
  BY <1>1, <1>3, <1>5, <1>7

LEMMA NoHeaders ==
    ASSUME NEW c \in Seq(Cell), c = <<>> \/ c[1].what = "endsig"
    PROVE  Headers(c).at = <<>> /\ Headers(c).pos = (IF c = <<>> THEN 0 ELSE 1)
<1>1. PICK g : Headers(c) = g[FirstHeader(c)] /\ \A at \in Int : g[at] = ZipTurn(c, g, at)
  BY HeadersExist
<1>2. FirstHeader(c) = 0
  BY DEF FirstHeader
<1>3. Headers(c) = ZipTurn(c, g, 0)
  BY <1>1, <1>2
<1>4. CASE c = <<>>
  <2>1. Len(c) = 0 /\ 0 >= Len(c)
    BY <1>4
  <2> QED
    BY <1>3, <1>4, <2>1 DEF ZipTurn, Stop
<1>5. CASE c # <<>>
  <2>1. ~(0 < 0 \/ 0 >= Len(c)) /\ c[0 + 1].what = "endsig"
    BY <1>5
  <2> QED
    BY <1>3, <1>5, <2>1 DEF ZipTurn, Stop
<1> QED
  BY <1>4, <1>5

LEMMA ZipScanOK ==
    ASSUME NEW c \in Seq(Cell), NEW to \in Nat, LocalsEnd(c, to), CentralsAt(c, to)
    PROVE  OpenedWell(c, to, ZipScan(c))
<1> DEFINE h == Headers(c)
           files == [n \in DOMAIN h.at |-> FileAt(c, h.at, n)]
           centrals == {n \in DOMAIN h.at : c[h.at[n] + 1].what = "central"}
           scan == [ok |-> h.ok, pos |-> h.pos, list |-> Only(files, centrals),
                    offset |-> IF centrals = {} THEN 0 ELSE h.at[Min(centrals)]]
<1>1. ZipScan(c) = scan
  BY DEF ZipScan
<1>2. ASSUME to < Len(c), c[to + 1].what = "central" PROVE OpenedWell(c, to, scan)
  <2>1. Leads(c, to, h)
    BY <1>2, HeadersLead
  <2>2. h \in [ok : BOOLEAN, at : Seq(0..(Len(c) - 1)), pos : (to + 1)..Len(c)]
    BY <2>1 DEF Leads, StopsBehind
  <2> DEFINE a == h.at
  <2>3. a \in Seq(0..(Len(c) - 1)) /\ h.pos \in (to + 1)..Len(c) /\ DOMAIN a = 1..Len(a) /\ Len(a) \in Nat
    BY <2>2
  <2>4. PICK m \in 1..Len(a) : a[m] = to /\ \A k \in 1..(m - 1) : c[a[k] + 1].what # "central"
    BY <2>1 DEF Leads
  <2> HIDE DEF h
  <2>5. m \in centrals /\ \A k \in centrals : m <= k
    <3>1. m \in centrals
      BY <1>2, <2>3, <2>4
    <3>2. ASSUME NEW k \in centrals PROVE m <= k
      <4>1. k \in 1..Len(a) /\ c[a[k] + 1].what = "central"
        BY <2>3
      <4>2. k \notin 1..(m - 1)
        BY <2>4, <4>1
      <4> QED
        BY <2>3, <4>1, <4>2
    <3> QED
      BY <3>1, <3>2
  <2>6. centrals \subseteq 1..Len(a)
    BY <2>3
  <2>7. \A n \in 1..Len(a) : n \in centrals => files[n] \in InPlace(c, to)
    <3>1. TAKE n \in 1..Len(a)
    <3>2. HAVE n \in centrals
    <3>3. files[n] = FileAt(c, a, n)
      BY <2>3
    <3>4. FileAt(c, a, n) \in InPlace(c, to)
      BY <2>3, <3>2, FileAtIs
    <3> QED
      BY <3>3, <3>4
  <2>8. Len(files) = Len(a)
    BY <2>3
  <2> HIDE DEF files, centrals, a
  <2>9. Min(centrals) = m
    <3>1. \A x \in centrals : (\A y \in centrals : x <= y) => x = m
      <4>1. TAKE x \in centrals
      <4>2. HAVE \A y \in centrals : x <= y
      <4>3. x \in 1..Len(a) /\ x <= m /\ m <= x
        BY <2>5, <2>6, <4>2
      <4> QED
        BY <2>3, <4>3
    <3>2. Min(centrals) \in centrals /\ \A y \in centrals : Min(centrals) <= y
      BY <2>5 DEF Min
    <3> QED
      BY <3>1, <3>2
  <2>10. Only(files, centrals) \in Seq(InPlace(c, to))
    BY <2>3, <2>7, <2>8, OnlyTakes
  <2>11. c # <<>> /\ h.pos \in Nat /\ h.pos > to
    BY <1>2, <2>3
  <2>12. scan.pos = h.pos /\ scan.list = Only(files, centrals) /\ scan.offset = to
    BY <2>4, <2>5, <2>9 DEF a
  <2> HIDE DEF scan
  <2> QED
    BY <2>10, <2>11, <2>12 DEF OpenedWell, PastEnd
<1>3. ASSUME c = <<>> \/ (to = 0 /\ c[1].what = "endsig") PROVE OpenedWell(c, to, scan)
  <2>1. h.at = <<>> /\ h.pos = (IF c = <<>> THEN 0 ELSE 1)
    BY <1>3, NoHeaders
  <2>2. to = 0
    BY <1>3 DEF LocalsEnd
  <2> HIDE DEF h
  <2>3. centrals = {} /\ Len(files) = 0
    BY <2>1
  <2> HIDE DEF files, centrals
  <2>4. Only(files, centrals) \in Seq(InPlace(c, to))
    <3>1. \A n \in 1..Len(files) : n \in centrals => files[n] \in InPlace(c, to)
      BY <2>3
    <3> QED
      BY <2>3, <3>1, OnlyTakes
  <2>5. scan.pos = h.pos /\ scan.list = Only(files, centrals) /\ scan.offset = 0
    BY <2>3
  <2> HIDE DEF scan
  <2> QED
    BY <2>1, <2>2, <2>4, <2>5 DEF OpenedWell, PastEnd
<1> QED
  BY <1>1, <1>2, <1>3 DEF CentralsAt

-----------------------------------------------------------------------------
(* What keeps the local headers and the data of a zip file in order.       *)

LEMMA AgreesThen ==
    ASSUME NEW c, NEW d, NEW e, NEW to \in Nat, Agrees(c, d, to), Agrees(d, e, to)
    PROVE  Agrees(c, e, to)
BY DEF Agrees

LEMMA AgreesPlace ==
    ASSUME NEW c \in Seq(Cell), NEW d \in Seq(Cell), NEW to \in Nat, Agrees(c, d, to),
           NEW e, IsInPlace(c, to, e)
    PROVE  IsInPlace(d, to, e)
<1> DEFINE at == e.start
           size == e.size
<1>1. /\ at \in Nat /\ at < to /\ c[at + 1].what = "local"
      /\ size \in Nat /\ at + 1 + size <= to
      /\ at + 1 + size < to => c[at + 1 + size + 1].what = "local"
      /\ e.kind = "file" => HasData(c, at + 1, size)
  BY PlaceIs
<1>2. e.kind = "file" => HasData(d, at + 1, size)
  <2> HIDE DEF at, size
  <2>1. at + 1 \in Nat
    BY <1>1
  <2> QED
    BY <1>1, <2>1, DataAgrees
<1>3. \A i \in 1..to : d[i].what = c[i].what
  BY DEF Agrees
<1>4. d[at + 1].what = "local" /\ (at + 1 + size < to => d[at + 1 + size + 1].what = "local")
  <2> HIDE DEF at, size
  <2>1. at + 1 \in 1..to /\ (at + 1 + size < to => at + 1 + size + 1 \in 1..to)
    BY <1>1
  <2> QED
    BY <1>1, <1>3, <2>1
<1> QED
  BY <1>1, <1>2, <1>4 DEF IsInPlace, FitsBefore

LEMMA FitsAgrees ==
    ASSUME NEW c, NEW d, NEW to \in Nat, Agrees(c, d, to),
           NEW i \in Nat, NEW size, FitsBefore(c, to, i, size)
    PROVE  FitsBefore(d, to, i, size)
<1>1. size \in Nat /\ i + size <= to /\ (i + size < to => c[i + size + 1].what = "local")
  BY DEF FitsBefore
<1>2. i + size < to => d[i + size + 1].what = c[i + size + 1].what
  <2>1. i + size < to => i + size + 1 \in 1..to
    BY <1>1
  <2> QED
    BY <2>1 DEF Agrees
<1> QED
  BY <1>1, <1>2 DEF FitsBefore

LEMMA LocalsAgree ==
    ASSUME NEW c \in Seq(Cell), NEW d \in Seq(Cell), NEW to \in Nat, LocalsEnd(c, to), Agrees(c, d, to),
           \A i \in 1..to : d[i].what = "local" /\ d[i].size # Unknown => FitsBefore(c, to, i, d[i].size),
           \A i \in DOMAIN d : d[i].what = "central" => i > to /\ IsInPlace(c, to, d[i])
    PROVE  LocalsEnd(d, to)
<1>1. to \in 0..Len(d)
  <2>1. Len(d) \in Nat /\ Len(d) >= to
    BY DEF Agrees
  <2> QED
    BY <2>1
<1>2. to > 0 => d[1].what = "local"
  <2>1. to > 0 => 1 \in 1..to
    OBVIOUS
  <2> QED
    BY <2>1 DEF Agrees, LocalsEnd
<1>3. \A i \in 1..to : d[i].what \in {"local", "data"}
  BY DEF Agrees, LocalsEnd
<1>4. \A i \in 1..to : d[i].what = "local" /\ d[i].size # Unknown => FitsBefore(d, to, i, d[i].size)
  <2>1. TAKE i \in 1..to
  <2>2. HAVE d[i].what = "local" /\ d[i].size # Unknown
  <2>3. i \in Nat /\ FitsBefore(c, to, i, d[i].size)
    BY <2>2
  <2> QED
    BY <2>3, FitsAgrees
<1>5. \A i \in DOMAIN d : d[i].what = "central" => i > to /\ IsInPlace(d, to, d[i])
  <2>1. TAKE i \in DOMAIN d
  <2>2. HAVE d[i].what = "central"
  <2>3. i > to /\ IsInPlace(c, to, d[i])
    BY <2>2
  <2> QED
    BY <2>3, AgreesPlace
<1> QED
  BY <1>1, <1>2, <1>3, <1>4, <1>5 DEF LocalsEnd

(* A central header, or anything else, behind the entries. *)
LEMMA LocalsPut ==
    ASSUME NEW c \in Seq(Cell), NEW to \in Nat, LocalsEnd(c, to), NEW at \in Nat, at >= to,
           NEW x \in Cell, x.what = "central" => IsInPlace(c, to, x)
    PROVE  LocalsEnd(PutAt(c, at, x), to)
<1> DEFINE d == PutAt(c, at, x)
           L == Len(c)
<1>1. /\ d \in Seq(Cell) /\ d[at + 1] = x
      /\ \A i \in 1..L : i # at + 1 => d[i] = c[i]
      /\ \A i \in 1..Len(d) : i > L /\ i # at + 1 => d[i] = Mark("zero")
  <2>1. IsPutAt(d, c, at, x)
    BY PutAtDoes
  <2> HIDE DEF d
  <2> QED
    BY <2>1 DEF IsPutAt
<1>2. L \in Nat /\ to <= L /\ DOMAIN c = 1..L
  BY DEF LocalsEnd
<1>3. Agrees(c, d, to)
  BY <1>2, PutAtAgrees
<1> HIDE DEF d, L
<1>4. \A i \in 1..to : d[i] = c[i]
  <2>1. TAKE i \in 1..to
  <2>2. i \in 1..L /\ i # at + 1
    BY <1>2
  <2> QED
    BY <1>1, <2>2
<1>5. \A i \in 1..to : d[i].what = "local" /\ d[i].size # Unknown => FitsBefore(c, to, i, d[i].size)
  BY <1>4 DEF LocalsEnd
<1>6. ASSUME NEW i \in DOMAIN d, d[i].what = "central" PROVE i > to /\ IsInPlace(c, to, d[i])
  <2>0. i \in 1..Len(d) /\ i \in Nat
    BY <1>1
  <2>1. CASE i = at + 1
    BY <1>1, <1>6, <2>1
  <2>2. CASE i # at + 1 /\ i \in 1..L
    BY <1>1, <1>2, <1>6, <2>2 DEF LocalsEnd
  <2>3. CASE i # at + 1 /\ i \notin 1..L
    <3>1. d[i] = Mark("zero")
      BY <1>1, <1>2, <2>0, <2>3
    <3> QED
      BY <1>6, <3>1, ZeroCell
  <2> QED
    BY <2>1, <2>2, <2>3
<1>7. LocalsEnd(d, to)
  BY <1>1, <1>3, <1>5, <1>6, LocalsAgree
<1> QED
  BY <1>7 DEF d

LEMMA GrowsFits ==
    ASSUME NEW c, NEW to \in Nat, NEW later \in Nat, to <= later, to < later => c[to + 1].what = "local",
           NEW i \in Nat, NEW size, FitsBefore(c, to, i, size)
    PROVE  FitsBefore(c, later, i, size)
<1>1. size \in Nat /\ i + size <= to /\ (i + size < to => c[i + size + 1].what = "local")
  BY DEF FitsBefore
<1>2. i + size = to => c[i + size + 1] = c[to + 1]
  OBVIOUS
<1>3. i + size < later => c[i + size + 1].what = "local"
  BY <1>1, <1>2
<1> QED
  BY <1>1, <1>3 DEF FitsBefore

LEMMA GrowsPlace ==
    ASSUME NEW c, NEW to \in Nat, NEW later \in Nat, to <= later, to < later => c[to + 1].what = "local",
           NEW e, IsInPlace(c, to, e)
    PROVE  IsInPlace(c, later, e)
<1>1. e.start \in Nat /\ e.start < to /\ c[e.start + 1].what = "local"
      /\ FitsBefore(c, to, e.start + 1, e.size) /\ (e.kind = "file" => HasData(c, e.start + 1, e.size))
  BY DEF IsInPlace
<1>2. e.start + 1 \in Nat /\ e.start < later
  BY <1>1
<1>3. FitsBefore(c, later, e.start + 1, e.size)
  BY <1>1, <1>2, GrowsFits
<1> QED
  BY <1>1, <1>2, <1>3 DEF IsInPlace

(* An entry is added: a local header without a size, and data. *)
LEMMA LocalsGrow ==
    ASSUME NEW c \in Seq(Cell), NEW to \in Nat, LocalsEnd(c, to), NEW later \in Nat, to < later, later <= Len(c),
           c[to + 1].what = "local", c[to + 1].size = Unknown,
           \A i \in (to + 2)..later : c[i].what = "data"
    PROVE  LocalsEnd(c, later)
<1>1. later \in 0..Len(c)
  OBVIOUS
<1>2. c[1].what = "local"
  <2>1. to > 0 => c[1].what = "local"
    BY DEF LocalsEnd
  <2>2. to = 0 => c[1] = c[to + 1]
    OBVIOUS
  <2> QED
    BY <2>1, <2>2
<1>3. \A i \in 1..later : i \in 1..to \/ i = to + 1 \/ i \in (to + 2)..later
  OBVIOUS
<1>4. \A i \in 1..later : c[i].what \in {"local", "data"}
  BY <1>3 DEF LocalsEnd
<1>5. ASSUME NEW i \in 1..later, c[i].what = "local", c[i].size # Unknown
      PROVE  FitsBefore(c, later, i, c[i].size)
  <2>1. i \in 1..to
    BY <1>3, <1>5
  <2>2. FitsBefore(c, to, i, c[i].size) /\ i \in Nat
    BY <1>5, <2>1 DEF LocalsEnd
  <2> QED
    BY <2>2, GrowsFits
<1>6. ASSUME NEW i \in DOMAIN c, c[i].what = "central"
      PROVE  i > later /\ IsInPlace(c, later, c[i])
  <2>1. IsInPlace(c, to, c[i])
    BY <1>6 DEF LocalsEnd
  <2>2. IsInPlace(c, later, c[i])
    BY <2>1, GrowsPlace
  <2>3. i \notin 1..later
    BY <1>4, <1>6
  <2>4. i \in Nat \ {0}
    OBVIOUS
  <2> QED
    BY <2>2, <2>3, <2>4
<1> QED
  BY <1>1, <1>2, <1>4, <1>5, <1>6 DEF LocalsEnd

-----------------------------------------------------------------------------
(* Filling in the size of a file. *)
LEMMA SizeFilled ==
    ASSUME NEW c \in Seq(Cell), NEW at \in DOMAIN c, NEW size \in Nat, c[at].what = "local"
    PROVE  LET d == [c EXCEPT ![at].size = size]
           IN  /\ d \in Seq(Cell) /\ Len(d) = Len(c) /\ DOMAIN d = DOMAIN c
               /\ d[at].what = "local" /\ d[at].size = size
               /\ \A i \in DOMAIN c : i # at => d[i] = c[i]
<1> DEFINE x == [c[at] EXCEPT !.size = size]
           d == [c EXCEPT ![at].size = size]
<1>1. c[at] \in Cell
  BY SeqElement
<1>2. x \in Cell /\ x.what = "local" /\ x.size = size
  BY <1>1 DEF Cell
<1>3. d = [c EXCEPT ![at] = x]
  OBVIOUS
<1> HIDE DEF x, d
<1>4. /\ d \in Seq(Cell) /\ Len(d) = Len(c) /\ DOMAIN d = DOMAIN c
      /\ d[at] = x /\ \A i \in DOMAIN c : i # at => d[i] = c[i]
  <2>1. at \in 1..Len(c)
    OBVIOUS
  <2> QED
    BY <1>2, <1>3, <2>1, ExceptSeq
<1> QED
  BY <1>2, <1>4 DEF d

Filled(c, d, to) ==
    /\ d \in Seq(Cell) /\ Len(d) = Len(c) /\ LocalsEnd(d, to) /\ Agrees(c, d, to)
    /\ \A i \in (to + 1)..Len(c) : d[i] = c[i]

LEMMA FillOK ==
    ASSUME NEW c \in Seq(Cell), NEW to \in Nat, LocalsEnd(c, to), NEW e \in InPlace(c, to)
    PROVE  Filled(c, Fill(c, e), to)
<1> DEFINE at == e.start + 1
           d == Fill(c, e)
           size == e.size
<1>1. /\ at \in 1..to /\ c[at].what = "local" /\ size \in Nat /\ FitsBefore(c, to, at, size)
  <2>1. IsInPlace(c, to, e)
    BY DEF InPlace
  <2>2. e.start \in Nat /\ e.start < to /\ c[e.start + 1].what = "local" /\ FitsBefore(c, to, e.start + 1, e.size)
    BY <2>1 DEF IsInPlace
  <2> QED
    BY <2>2 DEF FitsBefore
<1>2. DOMAIN c = 1..Len(c) /\ Len(c) \in Nat /\ to <= Len(c)
  BY DEF LocalsEnd
<1>3. at \in DOMAIN c
  BY <1>1, <1>2
<1>4. d = [c EXCEPT ![at].size = size]
  BY <1>1, <1>3 DEF Fill
<1> HIDE DEF at, size, d
<1>5. /\ d \in Seq(Cell) /\ Len(d) = Len(c) /\ DOMAIN d = DOMAIN c
      /\ d[at].what = "local" /\ d[at].size = size
      /\ \A i \in DOMAIN c : i # at => d[i] = c[i]
  BY <1>1, <1>3, <1>4, SizeFilled
<1>6. \A i \in 1..to : i \in DOMAIN c
  BY <1>2
<1>7. Agrees(c, d, to)
  <2>1. \A i \in 1..to : d[i].what = c[i].what /\ (c[i].what # "local" => d[i] = c[i])
    BY <1>1, <1>5, <1>6
  <2> QED
    BY <1>2, <1>5, <2>1 DEF Agrees
<1>8. \A i \in 1..to : d[i].what = "local" /\ d[i].size # Unknown => FitsBefore(c, to, i, d[i].size)
  <2>1. TAKE i \in 1..to
  <2>2. CASE i = at
    BY <1>1, <1>5, <2>2
  <2>3. CASE i # at
    BY <1>5, <1>6, <2>3 DEF LocalsEnd
  <2> QED
    BY <2>2, <2>3
<1>9. \A i \in DOMAIN d : d[i].what = "central" => i > to /\ IsInPlace(c, to, d[i])
  <2>1. TAKE i \in DOMAIN d
  <2>2. HAVE d[i].what = "central"
  <2>3. i # at /\ i \in DOMAIN c
    BY <1>5, <2>2
  <2> QED
    BY <1>5, <2>2, <2>3 DEF LocalsEnd
<1>10. LocalsEnd(d, to)
  BY <1>5, <1>7, <1>8, <1>9, LocalsAgree
<1>11. \A i \in (to + 1)..Len(c) : d[i] = c[i]
  <2>1. TAKE i \in (to + 1)..Len(c)
  <2>2. i \in DOMAIN c /\ i # at
    BY <1>1, <1>2
  <2> QED
    BY <1>5, <2>2
<1>12. Filled(c, d, to)
  BY <1>5, <1>7, <1>10, <1>11 DEF Filled
<1> QED
  BY <1>12 DEF d

LEMMA FillInOK ==
    ASSUME NEW c \in Seq(Cell), NEW to \in Nat, LocalsEnd(c, to), NEW files \in Seq(InPlace(c, to))
    PROVE  Filled(c, FillIn(c, files), to)
<1> DEFINE L == Len(files)
<1>0. L \in Nat /\ \A n \in 1..L : files[n] \in InPlace(c, to)
  OBVIOUS
<1>1. PICK f : /\ FillIn(c, files) = f[L]
               /\ f[0] = c
               /\ \A n \in 1..L : f[n] = Fill(f[n - 1], files[n])
  <2>1. Len(files) \in Nat
    OBVIOUS
  <2> QED
    BY <2>1, FillInIs
<1> HIDE DEF L
<1> DEFINE P == {n \in 0..L : Filled(c, f[n], to)}
<1>2. 0 \in P
  <2>1. to <= Len(c)
    BY DEF LocalsEnd
  <2>2. Filled(c, c, to)
    BY <2>1, AgreesItself DEF Filled
  <2> QED
    BY <1>0, <1>1, <2>2
<1>3. ASSUME NEW n \in 1..L, n - 1 \in P PROVE n \in P
  <2> DEFINE d == f[n - 1]
             e == files[n]
  <2>1. Filled(c, d, to) /\ n \in 0..L /\ e \in InPlace(c, to) /\ f[n] = Fill(d, e)
    BY <1>0, <1>1, <1>3
  <2> HIDE DEF d, e
  <2>2. /\ d \in Seq(Cell) /\ Len(d) = Len(c) /\ LocalsEnd(d, to) /\ Agrees(c, d, to)
        /\ \A i \in (to + 1)..Len(c) : d[i] = c[i]
    BY <2>1 DEF Filled
  <2>3. e \in InPlace(d, to)
    BY <2>1, <2>2, AgreesPlace DEF InPlace
  <2>4. Filled(d, Fill(d, e), to)
    BY <2>2, <2>3, FillOK
  <2> DEFINE x == Fill(d, e)
  <2> HIDE DEF x
  <2>5. /\ x \in Seq(Cell) /\ Len(x) = Len(d) /\ LocalsEnd(x, to) /\ Agrees(d, x, to)
        /\ \A i \in (to + 1)..Len(d) : x[i] = d[i]
    BY <2>4 DEF Filled, x
  <2>6. Agrees(c, x, to)
    BY <2>2, <2>5, AgreesThen
  <2>7. Filled(c, x, to)
    BY <2>2, <2>5, <2>6 DEF Filled
  <2> QED
    BY <2>1, <2>7 DEF x
<1>4. \A n \in 0..L : n \in P
  <2> HIDE DEF P
  <2> QED
    BY <1>0, <1>2, <1>3, UpTo
<1> QED
  BY <1>0, <1>1, <1>4

-----------------------------------------------------------------------------
(* After a write that failed an entry may have no header, at the end. *)
Placed(c, to, e) == e.start <= to /\ (e.start < to => c[e.start + 1].what = "local")

FilledSomehow(c, d, to) == d \in Seq(Cell) /\ Agrees(c, d, to)

LEMMA FillSomehow ==
    ASSUME NEW c \in Seq(Cell), NEW to \in Nat, to <= Len(c), NEW e \in ListEntry, Placed(c, to, e)
    PROVE  FilledSomehow(c, Fill(c, e), to)
<1> DEFINE at == e.start + 1
           d == Fill(c, e)
           size == e.size
<1>1. at \in Nat /\ at >= 1 /\ e.start \in Nat /\ size \in Nat
  BY DEF ListEntry
<1>2. CASE at \in DOMAIN c /\ c[at].what = "local"
  <2>1. d = [c EXCEPT ![at].size = size]
    BY <1>2 DEF Fill
  <2> HIDE DEF at, size, d
  <2>2. /\ d \in Seq(Cell) /\ Len(d) = Len(c) /\ DOMAIN d = DOMAIN c
        /\ d[at].what = "local" /\ \A i \in DOMAIN c : i # at => d[i] = c[i]
    BY <1>1, <1>2, <2>1, SizeFilled
  <2>3. \A i \in 1..to : i \in DOMAIN c
    OBVIOUS
  <2>4. \A i \in 1..to : d[i].what = c[i].what /\ (c[i].what # "local" => d[i] = c[i])
    BY <1>2, <2>2, <2>3
  <2>5. Agrees(c, d, to)
    BY <2>2, <2>4 DEF Agrees
  <2> QED
    BY <2>2, <2>5 DEF FilledSomehow, d
<1>3. CASE ~(at \in DOMAIN c /\ c[at].what = "local")
  <2>1. d = PutAt(c, e.start, Mark("zero"))
    BY <1>3 DEF Fill
  <2>2. e.start >= to
    <3>1. e.start < to => at \in DOMAIN c /\ c[at].what = "local"
      BY <1>1 DEF Placed
    <3> QED
      BY <1>1, <1>3, <3>1
  <2>3. PutAt(c, e.start, Mark("zero")) \in Seq(Cell)
    BY <1>1, ZeroCell, PutAtOK
  <2>4. Agrees(c, PutAt(c, e.start, Mark("zero")), to)
    BY <1>1, <2>2, ZeroCell, PutAtAgrees
  <2> QED
    BY <2>1, <2>3, <2>4 DEF FilledSomehow
<1> QED
  BY <1>2, <1>3

LEMMA FillInSomehow ==
    ASSUME NEW c \in Seq(Cell), NEW to \in Nat, to <= Len(c), NEW files \in Seq(ListEntry),
           \A n \in 1..Len(files) : Placed(c, to, files[n])
    PROVE  FilledSomehow(c, FillIn(c, files), to)
<1> DEFINE L == Len(files)
<1>0. L \in Nat /\ \A n \in 1..L : files[n] \in ListEntry /\ Placed(c, to, files[n])
  OBVIOUS
<1>1. PICK f : /\ FillIn(c, files) = f[L]
               /\ f[0] = c
               /\ \A n \in 1..L : f[n] = Fill(f[n - 1], files[n])
  BY <1>0, FillInIs
<1> HIDE DEF L
<1> DEFINE P == {n \in 0..L : FilledSomehow(c, f[n], to)}
<1>2. 0 \in P
  BY <1>0, <1>1, AgreesItself DEF FilledSomehow
<1>3. ASSUME NEW n \in 1..L, n - 1 \in P PROVE n \in P
  <2> DEFINE d == f[n - 1]
             e == files[n]
  <2>1. FilledSomehow(c, d, to) /\ n \in 0..L /\ e \in ListEntry /\ Placed(c, to, e) /\ f[n] = Fill(d, e)
    BY <1>0, <1>1, <1>3
  <2> HIDE DEF d, e
  <2>2. d \in Seq(Cell) /\ Agrees(c, d, to) /\ to <= Len(d)
    BY <2>1 DEF FilledSomehow, Agrees
  <2>3. Placed(d, to, e)
    <3>1. e.start \in Nat
      BY <2>1 DEF ListEntry
    <3>2. e.start < to => e.start + 1 \in 1..to
      BY <3>1
    <3> QED
      BY <2>1, <2>2, <3>2 DEF Placed, Agrees
  <2>4. FilledSomehow(d, Fill(d, e), to)
    BY <2>1, <2>2, <2>3, FillSomehow
  <2>5. FilledSomehow(c, Fill(d, e), to)
    BY <2>2, <2>4, AgreesThen DEF FilledSomehow
  <2> QED
    BY <2>1, <2>5
<1>4. \A n \in 0..L : n \in P
  <2> HIDE DEF P
  <2> QED
    BY <1>0, <1>2, <1>3, UpTo
<1> QED
  BY <1>0, <1>1, <1>4

-----------------------------------------------------------------------------
(* An entry of a zip file, and how far it is written.                      *)

OpEntry == [path : Path, kind : Kind, id : Nat, size : Nat]

(* The cells of an entry. *)
ZipCells(e) == <<Local(e.path, e.kind, e.id)>> \o DataCells(e.id, e.size)

IsZipEntry(a, e) ==
    /\ a \in Seq(Cell) /\ Len(a) = e.size + 1
    /\ a[1] = Local(e.path, e.kind, e.id)
    /\ \A i \in 1..e.size : a[i + 1] = Data(e.id, i)

LEMMA LocalIs ==
    ASSUME NEW path \in Path, NEW kind \in Kind, NEW id \in Nat
    PROVE  /\ Local(path, kind, id) \in Cell
           /\ Local(path, kind, id).what = "local" /\ Local(path, kind, id).size = Unknown
BY DEF Local, Cell, What, Unknown

LEMMA ZipCellsOK ==
    ASSUME NEW e \in OpEntry
    PROVE  IsZipEntry(ZipCells(e), e)
<1> DEFINE one == <<Local(e.path, e.kind, e.id)>>
           d == DataCells(e.id, e.size)
           a == ZipCells(e)
           n == e.size
<1>1. e.path \in Path /\ e.kind \in Kind /\ e.id \in Nat /\ n \in Nat
  BY DEF OpEntry
<1>2. one \in Seq(Cell) /\ Len(one) = 1 /\ one[1] = Local(e.path, e.kind, e.id)
  BY <1>1, LocalIs
<1>3. d \in Seq(Cell) /\ Len(d) = n /\ \A i \in 1..n : d[i] = Data(e.id, i)
  BY <1>1, DataCellsOK
<1>4. a = one \o d
  BY DEF ZipCells
<1> HIDE DEF one, d, a, n
<1>5. a \in Seq(Cell) /\ Joins(a, one, d)
  BY <1>2, <1>3, <1>4, Joined
<1>6. Len(a) = 1 + n /\ (\A i \in 1..1 : a[i] = one[i]) /\ \A i \in 1..n : a[1 + i] = d[i]
  BY <1>2, <1>3, <1>5 DEF Joins
<1>7. \A i \in 1..n : a[i + 1] = Data(e.id, i)
  <2>1. TAKE i \in 1..n
  <2>2. a[1 + i] = d[i] /\ d[i] = Data(e.id, i) /\ 1 + i = i + 1
    BY <1>3, <1>6
  <2> QED
    BY <2>2
<1>8. Len(a) = n + 1
  BY <1>1, <1>6
<1>9. a[1] = Local(e.path, e.kind, e.id)
  BY <1>2, <1>6
<1> QED
  BY <1>5, <1>7, <1>8, <1>9 DEF IsZipEntry, a, n

(* Its writes. *)
WritesOf(w, a) ==
    /\ w \in Seq(DeviceWrite) /\ Len(w) = Len(a) /\ w # <<>> /\ w[1].otherwise # "ignore"
    /\ \A i \in 1..Len(a) : w[i].cell = a[i]

LEMMA ZipWritesOK ==
    ASSUME NEW e \in OpEntry, NEW heldBack \in BOOLEAN
    PROVE  WritesOf(ZipWrites(e, heldBack), ZipCells(e))
<1> DEFINE one == <<Local(e.path, e.kind, e.id)>>
           d == DataCells(e.id, e.size)
           a == ZipCells(e)
           o == IF heldBack THEN "ignore" ELSE "fail"
           w == ZipWrites(e, heldBack)
           n == e.size
<1>1. e.path \in Path /\ e.kind \in Kind /\ e.id \in Nat /\ n \in Nat
  BY DEF OpEntry
<1>2. one \in Seq(Cell) /\ Len(one) = 1
  BY <1>1, LocalIs
<1>3. d \in Seq(Cell) /\ Len(d) = n
  BY <1>1, DataCellsOK
<1>4. a \in Seq(Cell) /\ Len(a) = n + 1
  BY ZipCellsOK DEF IsZipEntry
<1>5. a = one \o d
  BY DEF ZipCells
<1>6. CASE e.kind = "link"
  <2>1. w = Writes(a, "fail")
    BY <1>6 DEF ZipWrites, ZipCells
  <2> HIDE DEF a, w, n
  <2>2. Writes(a, "fail") \in Seq(DeviceWrite) /\ Len(Writes(a, "fail")) = Len(a)
        /\ \A i \in 1..Len(a) : Writes(a, "fail")[i].otherwise = "fail" /\ Writes(a, "fail")[i].cell = a[i]
    BY <1>4, WritesOK
  <2>3. 1 \in 1..Len(a)
    BY <1>1, <1>4 DEF n
  <2>4. w # <<>> /\ w[1].otherwise # "ignore"
    <3>1. Len(w) # 0
      BY <2>1, <2>2, <2>3, <1>4
    <3>2. w # <<>>
      BY <3>1
    <3> QED
      BY <2>1, <2>2, <2>3, <3>2
  <2>5. WritesOf(w, a)
    BY <2>1, <2>2, <2>4 DEF WritesOf
  <2> QED
    BY <2>5 DEF w, a
<1>7. CASE e.kind # "link"
  <2> DEFINE w1 == Writes(one, "abort")
             w2 == Writes(d, o)
  <2>1. w = w1 \o w2
    BY <1>7 DEF ZipWrites
  <2>2. /\ w1 \in Seq(DeviceWrite) /\ CellsOf(w1) = one /\ Len(w1) = 1
        /\ w1[1].otherwise = "abort"
    <3> HIDE DEF one
    <3>1. /\ w1 \in Seq(DeviceWrite) /\ CellsOf(w1) = one /\ Len(w1) = Len(one)
          /\ \A i \in 1..Len(one) : w1[i].otherwise = "abort" /\ w1[i].cell = one[i]
      BY <1>2, WritesOK
    <3> QED
      BY <1>2, <3>1
  <2>3. w2 \in Seq(DeviceWrite) /\ CellsOf(w2) = d /\ Len(w2) = n
    <3> HIDE DEF d, n
    <3> QED
      BY <1>3, WritesOK
  <2> HIDE DEF w1, w2, w, one, d, a, o, n
  <2>4. w \in Seq(DeviceWrite) /\ Joins(w, w1, w2) /\ CellsOf(w) = a
    BY <1>5, <2>1, <2>2, <2>3, Joined, CellsOfBoth
  <2>5. Len(w) = n + 1 /\ w[1] = w1[1]
    BY <1>1, <2>2, <2>3, <2>4 DEF Joins
  <2>6. \A i \in 1..Len(w) : CellsOf(w)[i] = w[i].cell
    BY <2>4, CellsOfOK
  <2>7. \A i \in 1..Len(a) : w[i].cell = a[i]
    BY <1>4, <2>4, <2>5, <2>6
  <2>8. w # <<>>
    <3>1. Len(w) # 0
      BY <1>1, <2>5
    <3> QED
      BY <3>1
  <2>9. WritesOf(w, a)
    BY <1>4, <2>2, <2>4, <2>5, <2>7, <2>8 DEF WritesOf
  <2> QED
    BY <2>9 DEF w, a
<1> QED
  BY <1>6, <1>7

-----------------------------------------------------------------------------
(* An entry of which the device has taken some cells, and is to take the   *)
(* last ones.                                                              *)
Underway(c, from, at, left, a) ==
    /\ from <= at
    /\ (at - from) + Len(left) <= Len(a)
    /\ \A i \in 1..(at - from) : from + i \in DOMAIN c /\ c[from + i] = a[i]
    /\ \A i \in 1..Len(left) : left[i].cell = a[Len(a) - Len(left) + i]

InStep(from, at, left, a) == (at - from) + Len(left) = Len(a)

LEMMA BeginsUnderway ==
    ASSUME NEW c, NEW from \in Nat, NEW a \in Seq(Cell), NEW w, WritesOf(w, a)
    PROVE  Underway(c, from, from, w, a) /\ InStep(from, from, w, a)
<1> DEFINE n == Len(a)
<1>1. n \in Nat /\ Len(w) = n /\ \A i \in 1..n : w[i].cell = a[i]
  BY DEF WritesOf
<1> HIDE DEF n
<1>2. \A i \in 1..n : w[i].cell = a[n - n + i]
  <2>1. TAKE i \in 1..n
  <2>2. n - n + i = i
    BY <1>1
  <2> QED
    BY <1>1, <2>2
<1>3. (from - from) + n = n /\ \A i \in 1..(from - from) : FALSE
  BY <1>1
<1> QED
  BY <1>1, <1>2, <1>3 DEF Underway, InStep, n

LEMMA SkipsUnderway ==
    ASSUME NEW c, NEW from \in Nat, NEW at \in Nat, NEW a \in Seq(Cell),
           NEW w \in Seq(DeviceWrite), w # <<>>, Underway(c, from, at, w, a)
    PROVE  Underway(c, from, at, Tail(w), a)
<1> DEFINE n == Len(a)
           m == Len(w)
           t == Tail(w)
<1>1. n \in Nat /\ m \in Nat /\ m >= 1 /\ Len(t) = m - 1 /\ \A i \in 1..(m - 1) : t[i] = w[i + 1]
  BY TailOfWrites
<1>2. /\ from <= at /\ (at - from) + m <= n
      /\ \A i \in 1..(at - from) : from + i \in DOMAIN c /\ c[from + i] = a[i]
      /\ \A i \in 1..m : w[i].cell = a[n - m + i]
  BY DEF Underway
<1> HIDE DEF n, m, t
<1>3. \A i \in 1..(m - 1) : t[i].cell = a[n - (m - 1) + i]
  <2>1. TAKE i \in 1..(m - 1)
  <2>2. i + 1 \in 1..m /\ n - m + (i + 1) = n - (m - 1) + i
    BY <1>1
  <2> QED
    BY <1>1, <1>2, <2>2
<1>4. (at - from) + (m - 1) <= n
  BY <1>1, <1>2
<1>5. Underway(c, from, at, t, a)
  BY <1>1, <1>2, <1>3, <1>4 DEF Underway, n
<1> QED
  BY <1>5 DEF t

LEMMA PutsUnderway ==
    ASSUME NEW c \in Seq(Cell), NEW from \in Nat, NEW at \in Nat, NEW a \in Seq(Cell),
           NEW w \in Seq(DeviceWrite), w # <<>>, Underway(c, from, at, w, a), InStep(from, at, w, a)
    PROVE  /\ Underway(PutAt(c, at, Head(w).cell), from, at + 1, Tail(w), a)
           /\ InStep(from, at + 1, Tail(w), a)
           /\ Head(w).cell \in Cell /\ \E i \in 1..Len(a) : Head(w).cell = a[i]
<1> DEFINE n == Len(a)
           m == Len(w)
           t == Tail(w)
           x == Head(w).cell
           L == Len(c)
           d == PutAt(c, at, x)
<1>1. /\ n \in Nat /\ m \in Nat /\ m >= 1 /\ Len(t) = m - 1 /\ \A i \in 1..(m - 1) : t[i] = w[i + 1]
      /\ Head(w) = w[1] /\ x \in Cell
  <2>1. /\ m >= 1 /\ Len(t) = m - 1 /\ \A i \in 1..(m - 1) : t[i] = w[i + 1]
        /\ Head(w) = w[1] /\ Head(w) \in DeviceWrite
    BY TailOfWrites
  <2>2. n \in Nat /\ m \in Nat
    OBVIOUS
  <2>3. x \in Cell
    BY <2>1 DEF DeviceWrite
  <2> QED
    BY <2>1, <2>2, <2>3
<1>2. /\ from <= at /\ (at - from) + m = n
      /\ \A i \in 1..(at - from) : from + i \in DOMAIN c /\ c[from + i] = a[i]
      /\ \A i \in 1..m : w[i].cell = a[n - m + i]
  BY DEF Underway, InStep
<1>3. x = a[(at - from) + 1]
  <2> HIDE DEF n, m, t, x
  <2>1. 1 \in 1..m /\ n - m + 1 = (at - from) + 1
    BY <1>1, <1>2
  <2>2. x = w[1].cell
    BY <1>1 DEF x
  <2> QED
    BY <1>2, <2>1, <2>2
<1>4. /\ L \in Nat /\ DOMAIN c = 1..L
      /\ d \in Seq(Cell) /\ Len(d) = (IF L >= at + 1 THEN L ELSE at + 1) /\ DOMAIN d = 1..Len(d)
      /\ d[at + 1] = x /\ \A i \in 1..L : i # at + 1 => d[i] = c[i]
  <2>1. L \in Nat /\ DOMAIN c = 1..L
    OBVIOUS
  <2> HIDE DEF x
  <2>2. /\ d \in Seq(Cell) /\ Len(d) = (IF Len(c) >= at + 1 THEN Len(c) ELSE at + 1)
        /\ d[at + 1] = x /\ \A i \in 1..Len(c) : i # at + 1 => d[i] = c[i]
    <3>1. x \in Cell
      BY <1>1
    <3>2. IsPutAt(PutAt(c, at, x), c, at, x)
      BY <3>1, PutAtDoes
    <3>3. IsPutAt(d, c, at, x)
      BY <3>2 DEF d
    <3> HIDE DEF d
    <3> QED
      BY <3>3 DEF IsPutAt
  <2> HIDE DEF d
  <2>3. DOMAIN d = 1..Len(d)
    BY <2>2
  <2> QED
    BY <2>1, <2>2, <2>3
<1> HIDE DEF n, m, t, x, L, d
<1>5. \A i \in 1..((at + 1) - from) : from + i \in DOMAIN d /\ d[from + i] = a[i]
  <2>1. TAKE i \in 1..((at + 1) - from)
  <2>2. CASE i = (at - from) + 1
    <3>1. from + i = at + 1 /\ at + 1 \in 1..Len(d)
      BY <1>2, <1>4, <2>2
    <3> QED
      BY <1>3, <1>4, <2>2, <3>1
  <2>3. CASE i # (at - from) + 1
    <3>1. i \in 1..(at - from) /\ from + i # at + 1
      BY <1>2, <2>3
    <3>2. from + i \in 1..L
      BY <1>2, <1>4, <3>1
    <3>3. from + i \in 1..Len(d)
      BY <1>4, <3>2
    <3> QED
      BY <1>2, <1>4, <3>1, <3>2, <3>3
  <2> QED
    BY <2>2, <2>3
<1>6. \A i \in 1..(m - 1) : t[i].cell = a[n - (m - 1) + i]
  <2>1. TAKE i \in 1..(m - 1)
  <2>2. i + 1 \in 1..m /\ n - m + (i + 1) = n - (m - 1) + i
    BY <1>1
  <2> QED
    BY <1>1, <1>2, <2>2
<1>7. from <= at + 1 /\ ((at + 1) - from) + (m - 1) = n
  BY <1>1, <1>2
<1>8. Underway(d, from, at + 1, t, a) /\ InStep(from, at + 1, t, a)
  BY <1>1, <1>5, <1>6, <1>7 DEF Underway, InStep, n
<1>9. (at - from) + 1 \in 1..n
  BY <1>1, <1>2
<1> QED
  BY <1>1, <1>3, <1>8, <1>9 DEF d, t, x, n

(* An entry of which the device has something. *)
Added(c, from, to) ==
    /\ from < to /\ to <= Len(c)
    /\ c[from + 1].what = "local" /\ c[from + 1].size = Unknown
    /\ \A i \in (from + 2)..to : c[i].what = "data"
    /\ HasData(c, from + 1, to - from - 1)

LEMMA DoneUnderway ==
    ASSUME NEW c \in Seq(Cell), NEW from \in Nat, NEW at \in Nat, from < at, NEW w, Len(w) \in Nat,
           NEW e \in OpEntry, Underway(c, from, at, w, ZipCells(e))
    PROVE  Added(c, from, at)
<1> DEFINE a == ZipCells(e)
           n == e.size
           j == at - from
<1>1. n \in Nat /\ e.path \in Path /\ e.kind \in Kind /\ e.id \in Nat
  BY DEF OpEntry
<1>2. Len(a) = n + 1 /\ a[1] = Local(e.path, e.kind, e.id) /\ \A i \in 1..n : a[i + 1] = Data(e.id, i)
  BY ZipCellsOK DEF IsZipEntry
<1>3. j + Len(w) <= Len(a) /\ \A i \in 1..j : from + i \in DOMAIN c /\ c[from + i] = a[i]
  BY DEF Underway
<1>4. j \in Nat /\ j >= 1 /\ at = from + j
  OBVIOUS
<1> HIDE DEF a, n, j
<1>5. j <= n + 1
  BY <1>1, <1>2, <1>3, <1>4
<1>6. c[from + 1] = Local(e.path, e.kind, e.id)
  BY <1>2, <1>3, <1>4
<1>7. \A k \in 1..(j - 1) : from + 1 + k \in DOMAIN c /\ c[from + 1 + k] = Data(e.id, k)
  <2>1. TAKE k \in 1..(j - 1)
  <2>2. k + 1 \in 1..j /\ k \in 1..n /\ from + (k + 1) = from + 1 + k
    BY <1>1, <1>4, <1>5
  <2> QED
    BY <1>2, <1>3, <2>2
<1>8. HasData(c, from + 1, j - 1)
  <2>1. \A k \in 1..(j - 1) : c[from + 1 + 1].id = e.id
    <3>1. TAKE k \in 1..(j - 1)
    <3>2. 1 \in 1..(j - 1)
      BY <1>4
    <3>3. c[from + 1 + 1] = Data(e.id, 1)
      BY <1>7, <3>2
    <3> QED
      BY <3>3, DataIs
  <2> QED
    BY <1>7, <2>1 DEF HasData
<1>9. \A i \in (from + 2)..at : c[i].what = "data"
  <2>1. TAKE i \in (from + 2)..at
  <2> DEFINE k == i - from - 1
  <2>2. k \in 1..(j - 1) /\ from + 1 + k = i
    BY <1>4
  <2> HIDE DEF k
  <2> QED
    BY <1>7, <2>2, DataIs
<1>10. at <= Len(c)
  <2>1. from + j \in DOMAIN c
    BY <1>3, <1>4
  <2> QED
    BY <1>4, <2>1
<1>11. at - from - 1 = j - 1
  BY <1>4
<1>12. c[from + 1].what = "local" /\ c[from + 1].size = Unknown
  BY <1>1, <1>6, LocalIs
<1> QED
  BY <1>8, <1>9, <1>10, <1>11, <1>12 DEF Added

-----------------------------------------------------------------------------
(* The inductive invariant of sessions with zip files.                     *)

ZipDisk ==
    settled => /\ saved \in Seq(LogEntry)
               /\ ~touched /\ file # NoFile => file \in Seq(Cell) /\ ZipWhole(file)

ZipPlace ==
    /\ device # "temp" /\ stage # "writeback" /\ (stage # "idle" => mode \in {"W", "RW"})
    /\ mode \in {"R", "RW"} => device = "file"

ZipTypes ==
    /\ OnDevice \in Seq(Cell) /\ (device = "file" => file # NoFile) /\ log \in Seq(LogEntry) /\ todo \in Seq(DeviceWrite)
    /\ list \in Seq(ListEntry) /\ (stage = "write" => op \in OpEntry)
    /\ pos \in Nat /\ end \in Nat /\ end <= Len(OnDevice)

(* Entries are before the index, and nothing is written there; but the     *)
(* index is written where the device happens to be.                        *)
ZipEntries ==
    /\ stage = "central" => moved \/ GoodTree(OnDevice, end, tree)
    /\ stage # "central" => GoodTree(OnDevice, end, tree)
    /\ ~moved => pos >= end
    /\ stage = "write" => ~moved

ZipListed == stage # "central" => \A n \in 1..Len(list) : Placed(OnDevice, end, list[n])

(* The entry that is written is the last in the list. *)
ZipWriting ==
    stage = "write" =>
        /\ list # <<>> /\ list[Len(list)].start = end
        /\ Underway(OnDevice, end, pos, todo, ZipCells(op))
        /\ InStep(end, pos, todo, ZipCells(op)) \/ (full /\ lost /\ pos > end)
        /\ pos = end => todo # <<>> /\ todo[1].otherwise # "ignore"
        /\ op.kind # "dir" => op.path \in DOMAIN tree /\ tree[op.path] = FileEntry("file", end + 1, 0, op.id)

(* While no write has failed, the entries are all there is before the      *)
(* index, and all that is listed is there.                                 *)
ZipWritten ==
    stage # "central" =>
        /\ LocalsEnd(OnDevice, end)
        /\ \A n \in 1..Len(list) : n < Len(list) \/ stage # "write" => IsInPlace(OnDevice, end, list[n])
        /\ stage = "idle" /\ ~moved => PastEnd(OnDevice, end, pos) \/ (pos = end /\ list # <<>>)

(* The index goes right behind them. *)
IndexGoes(c, to, at, left) ==
    \/ to < Len(c) /\ c[to + 1].what = "central" /\ at > to
    \/ at = to /\ left # <<>> /\ left[1].cell.what = "central"
    \/ /\ to = 0 /\ NoCentral(c)
       /\ \A i \in 1..Len(left) : left[i].cell.what # "central"
       /\ IF c = <<>> THEN at = 0 /\ (left # <<>> => left[1].cell.what = "endsig")
          ELSE c[1].what = "endsig" /\ at >= 1

ZipIndex ==
    stage = "central" /\ ~moved =>
        /\ LocalsEnd(OnDevice, end)
        /\ \A i \in 1..Len(todo) : todo[i].cell.what = "central" => IsInPlace(OnDevice, end, todo[i].cell)
        /\ IndexGoes(OnDevice, end, pos, todo)

ZipLive == ZipTypes /\ ZipEntries /\ ZipListed /\ ZipWriting /\ (~lost => ZipWritten /\ ZipIndex)

ZipInv == format = "zip" => ZipDisk /\ Shut /\ ZipPlace /\ (Live => ZipLive)

-----------------------------------------------------------------------------
LEMMA NothingIsZip ==
    <<>> \in Seq(Cell) /\ Len(<<>>) = 0 /\ LocalsEnd(<<>>, 0) /\ CentralsAt(<<>>, 0) /\ PastEnd(<<>>, 0, 0)
BY DEF LocalsEnd, CentralsAt, PastEnd

LEMMA ZipInit ==
    ASSUME ArchiveAssumption, Init
    PROVE  ZipInv
<1> SUFFICES ASSUME format = "zip" PROVE ZipDisk /\ Shut /\ ZipPlace /\ (Live => ZipLive)
  BY DEF ZipInv
<1>1. mode = "closed" /\ device = "none" /\ stage = "idle" /\ tree = EmptyTree /\ todo = <<>> /\ touched = FALSE
  BY DEF Init
<1>2. ZipDisk
  <2>1. CASE file = NoFile /\ saved = <<>>
    <3>1. <<>> \in Seq(LogEntry)
      OBVIOUS
    <3> QED
      BY <2>1, <3>1 DEF ZipDisk
  <2>2. CASE \E f \in Foreign : format = f.format /\ file = f.cells /\ saved = f.log
    BY <2>2 DEF ArchiveAssumption, ZipDisk, LogEntry
  <2> QED
    BY <2>1, <2>2 DEF Init
<1> QED
  BY <1>1, <1>2 DEF Shut, ZipPlace, Live

LEMMA ZipOpenW ==
    ASSUME format = "zip", ZipInv, IInv, OpenWriteOnly
    PROVE  ZipInv'
<1>1. /\ mode = "closed" /\ mode' = "W" /\ device' = "save" /\ stage = "idle" /\ tree' = EmptyTree
      /\ end' = 0 /\ pos' = 0 /\ work' = <<>> /\ log' = <<>> /\ touched' = FALSE /\ list' = <<>> /\ moved' = FALSE
      /\ UNCHANGED <<format, file, stage, todo, saved, settled>>
  BY DEF OpenWriteOnly, CanOpen, OpenWith, Fresh, IInv, Device
<1>2. ~touched /\ todo = <<>>
  BY <1>1 DEF ZipInv, Shut
<1>3. ZipDisk' /\ Shut' /\ ZipPlace'
  BY <1>1, <1>2 DEF ZipInv, ZipDisk, Shut, ZipPlace
<1>4. OnDevice' = <<>>
  BY <1>1 DEF OnDevice
<1>5. <<>> \in Seq(LogEntry) /\ <<>> \in Seq(DeviceWrite) /\ <<>> \in Seq(ListEntry) /\ Len(<<>>) = 0
  OBVIOUS
<1>6. ZipTypes'
  BY <1>1, <1>2, <1>4, <1>5, NothingIsZip DEF ZipTypes
<1>7. ZipEntries' /\ ZipListed' /\ ZipWriting' /\ ZipIndex'
  BY <1>1, <1>4, <1>5, NoEntries DEF ZipEntries, ZipListed, ZipWriting, ZipIndex
<1>8. ZipWritten'
  BY <1>1, <1>4, <1>5, NothingIsZip DEF ZipWritten
<1> QED
  BY <1>3, <1>6, <1>7, <1>8 DEF ZipInv, ZipLive

LEMMA OpenedZip ==
    ASSUME NEW c, format = "zip"
    PROVE  /\ Opened(c).tree = ZipTree(ZipScan(c).list) /\ Opened(c).list = FileList(ZipScan(c).list)
           /\ Opened(c).end = ZipScan(c).offset /\ Opened(c).pos = ZipScan(c).pos
BY DEF Opened

LEMMA ZipOpenFile ==
    ASSUME ArchiveAssumption, format = "zip", ZipInv, IInv, NEW m \in {"R", "RW"}, OpenFile(m)
    PROVE  ZipInv'
<1> DEFINE c == Cells
<1>1. /\ mode = "closed" /\ mode' = m /\ device' = "file" /\ stage = "idle"
      /\ tree' = Opened(c).tree /\ list' = Opened(c).list /\ end' = Opened(c).end /\ pos' = Opened(c).pos
      /\ moved' = FALSE /\ file' = c /\ touched' = (file = NoFile) /\ log' = saved
      /\ UNCHANGED <<format, stage, todo, saved, settled>>
  BY DEF OpenFile, CanOpen, OpenWith, IInv, Device
<1>2. ~touched /\ todo = <<>> /\ ZipDisk
  BY <1>1 DEF ZipInv, Shut
<1>3. <<>> # NoFile
  BY NothingIsZip DEF ArchiveAssumption
<1>4. c # NoFile /\ (file # NoFile => c = file) /\ (file = NoFile => c = <<>>)
  BY <1>3 DEF Cells
<1> HIDE DEF c
<1>5. ZipDisk' /\ Shut' /\ ZipPlace'
  BY <1>1, <1>2, <1>4 DEF ZipDisk, Shut, ZipPlace
<1>6. OnDevice' = c
  BY <1>1, <1>4 DEF OnDevice, Cells
<1>7. ASSUME settled PROVE ZipLive'
  <2>1. saved \in Seq(LogEntry) /\ c \in Seq(Cell) /\ ZipWhole(c)
    <3>1. CASE file = NoFile
      <4>1. 0 \in 0..Len(<<>>)
        BY NothingIsZip
      <4>2. ZipWhole(<<>>)
        BY <4>1, NothingIsZip DEF ZipWhole
      <4> QED
        BY <1>2, <1>4, <1>7, <3>1, <4>2, NothingIsZip DEF ZipDisk
    <3>2. CASE file # NoFile
      BY <1>2, <1>4, <1>7, <3>2 DEF ZipDisk
    <3> QED
      BY <3>1, <3>2
  <2>2. PICK to \in 0..Len(c) : LocalsEnd(c, to) /\ CentralsAt(c, to)
    BY <2>1 DEF ZipWhole
  <2>3. to \in Nat /\ to <= Len(c)
    BY <2>1
  <2> DEFINE scan == ZipScan(c)
  <2>4. scan.offset = to /\ scan.pos \in Nat /\ PastEnd(c, to, scan.pos) /\ scan.list \in Seq(InPlace(c, to))
    BY <2>1, <2>2, <2>3, ZipScanOK DEF OpenedWell
  <2>5. tree' = ZipTree(scan.list) /\ list' = FileList(scan.list) /\ end' = to /\ pos' = scan.pos
    BY <1>1, <2>4, OpenedZip
  <2> HIDE DEF scan
  <2>6. GoodTree(c, to, ZipTree(scan.list))
    BY <2>4, ZipTreeOK
  <2>7. list' \in Seq(InPlace(c, to))
    BY <2>4, <2>5, OnlyOf DEF FileList
  <2>8. /\ list' \in Seq(ListEntry)
        /\ \A n \in 1..Len(list') : IsInPlace(c, to, list'[n]) /\ Placed(c, to, list'[n])
    <3>1. InPlace(c, to) \subseteq ListEntry
      BY DEF InPlace
    <3>2. \A n \in 1..Len(list') : IsInPlace(c, to, list'[n])
      BY <2>7, SeqElement DEF InPlace
    <3>3. \A n \in 1..Len(list') : Placed(c, to, list'[n])
      BY <2>3, <3>2, PlaceIs DEF Placed
    <3> QED
      BY <2>7, <3>1, <3>2, <3>3
  <2>9. pos' >= to
    <3>1. c = <<>> => to = 0
      BY <2>3
    <3> QED
      BY <2>3, <2>4, <2>5, <3>1 DEF PastEnd
  <2>10. ZipTypes'
    <3>1. <<>> \in Seq(DeviceWrite)
      OBVIOUS
    <3> QED
      BY <1>1, <1>2, <1>4, <1>6, <2>1, <2>3, <2>4, <2>5, <2>8, <3>1 DEF ZipTypes
  <2>11. ZipEntries' /\ ZipListed' /\ ZipWriting' /\ ZipIndex'
    BY <1>1, <1>6, <2>5, <2>6, <2>8, <2>9 DEF ZipEntries, ZipListed, ZipWriting, ZipIndex
  <2>12. ZipWritten'
    BY <1>1, <1>6, <2>2, <2>4, <2>5, <2>8 DEF ZipWritten
  <2> QED
    BY <2>10, <2>11, <2>12 DEF ZipLive
<1>8. Live' => settled
  BY <1>1 DEF Live
<1> QED
  BY <1>5, <1>7, <1>8 DEF ZipInv

-----------------------------------------------------------------------------
(* A list with one more element. *)
LEMMA AppendIs ==
    ASSUME NEW S, NEW s \in Seq(S), NEW x \in S
    PROVE  /\ Append(s, x) \in Seq(S) /\ Len(Append(s, x)) = Len(s) + 1 /\ Len(s) \in Nat
           /\ Append(s, x)[Len(s) + 1] = x /\ \A n \in 1..Len(s) : Append(s, x)[n] = s[n]
           /\ \A n \in 1..(Len(s) + 1) : n \in 1..Len(s) \/ n = Len(s) + 1
           /\ Append(s, x) # <<>>
<1>1. Len(s) \in Nat
  OBVIOUS
<1>2. /\ Append(s, x) \in Seq(S) /\ Len(Append(s, x)) = Len(s) + 1
      /\ Append(s, x)[Len(s) + 1] = x /\ \A n \in 1..Len(s) : Append(s, x)[n] = s[n]
  BY AppendProperties
<1>3. \A n \in 1..(Len(s) + 1) : n \in 1..Len(s) \/ n = Len(s) + 1
  <2> DEFINE L == Len(s)
  <2>1. L \in Nat
    BY <1>1
  <2> HIDE DEF L
  <2>2. \A n \in 1..(L + 1) : n \in 1..L \/ n = L + 1
    BY <2>1
  <2> QED
    BY <2>2 DEF L
<1>4. Append(s, x) # <<>>
  <2> DEFINE a == Append(s, x)
  <2>1. Len(a) = Len(s) + 1
    BY <1>2
  <2> HIDE DEF a
  <2>2. a # <<>>
    BY <1>1, <2>1
  <2> QED
    BY <2>2 DEF a
<1> QED
  BY <1>1, <1>2, <1>3, <1>4

LEMMA ZipBegins ==
    ASSUME ArchiveAssumption, format = "zip", ZipInv, IInv, writes \in Nat,
           NEW path \in WritePath, NEW kind \in Kind, NEW size \in Size, BeginWrite(path, kind, size)
    PROVE  ZipInv'
<1> DEFINE id == writes + 1
           s == SizeOf(kind, size)
           e == [path |-> path, kind |-> kind, id |-> id, size |-> s]
           entry == [path |-> path, kind |-> kind, id |-> Contents(e)]
           without == WithoutName(list, path, kind)
           new == FileOf(path, kind, id, end)
           dirs == FindOrCreate(tree, path)
           with == Insert(tree, path, FileEntry("file", end + 1, 0, id))
           D == OnDevice
<1>1. /\ mode \in {"W", "RW"} /\ stage = "idle" /\ stage' = "write" /\ op' = e /\ moved' = FALSE
      /\ pos' = end /\ list' = Append(without, new)
      /\ tree' = (IF kind = "dir" THEN dirs ELSE with)
      /\ log' = Append(log, entry)
      /\ UNCHANGED <<format, file, mode, device, work, end, saved, settled, lost, touched>>
  BY DEF BeginWrite, CanWrite, ZipPrepare
<1>2. PICK heldBack \in BOOLEAN : todo' = ZipWrites(e, heldBack)
  BY DEF BeginWrite
<1>3. path \in Path /\ size \in Nat /\ id \in Nat
  BY DEF ArchiveAssumption
<1>4. s \in Nat
  BY <1>3 DEF SizeOf
<1>5. entry \in LogEntry
  <2>1. Contents(e) \in Nat
    BY <1>3 DEF Contents, Empty
  <2> QED
    BY <1>3, <2>1 DEF LogEntry
<1>6. e \in OpEntry /\ e.path = path /\ e.kind = kind /\ e.id = id
  BY <1>3, <1>4 DEF OpEntry
<1> HIDE DEF id, s, entry, e
<1>7. WritesOf(todo', ZipCells(e)) /\ ZipCells(e) \in Seq(Cell)
  BY <1>2, <1>6, ZipWritesOK, ZipCellsOK DEF IsZipEntry
<1>8. ZipDisk' /\ Shut' /\ ZipPlace'
  BY <1>1 DEF ZipInv, ZipDisk, Shut, ZipPlace
<1>9. D' = D
  BY <1>1 DEF OnDevice, Cells
<1> HIDE DEF D, without, new, dirs, with
<1>10. ASSUME Live PROVE ZipLive'
  <2>1. ZipTypes /\ ZipEntries /\ ZipListed /\ (~lost => ZipWritten)
    BY <1>10 DEF ZipInv, ZipLive
  <2>2. /\ D \in Seq(Cell) /\ log \in Seq(LogEntry) /\ list \in Seq(ListEntry)
        /\ end \in Nat /\ end <= Len(D) /\ GoodTree(D, end, tree)
        /\ (device = "file" => file # NoFile)
        /\ \A n \in 1..Len(list) : Placed(D, end, list[n])
    BY <1>1, <2>1 DEF ZipTypes, ZipEntries, ZipListed, D
  <2>3. new \in ListEntry /\ new.start = end
    BY <1>3, <2>2 DEF new, FileOf, ListEntry, SomePath
  <2>4. without \in Seq({x \in ListEntry : Placed(D, end, x)})
    <3>1. \A n \in 1..Len(list) : list[n] \in {x \in ListEntry : Placed(D, end, x)}
      BY <2>2, SeqElement
    <3>2. Len(list) \in Nat
      BY <2>2
    <3> QED
      BY <3>1, <3>2, OnlyTakes DEF without, WithoutName
  <2>5. Placed(D, end, new)
    BY <2>2, <2>3 DEF Placed
  <2>6. list' \in Seq({x \in ListEntry : Placed(D, end, x)})
    BY <1>1, <2>3, <2>4, <2>5, AppendProperties
  <2>7. list' \in Seq(ListEntry) /\ (\A n \in 1..Len(list') : Placed(D, end, list'[n]))
    <3>1. {x \in ListEntry : Placed(D, end, x)} \subseteq ListEntry
      OBVIOUS
    <3> QED
      BY <2>6, <3>1
  <2>8. list' # <<>> /\ list'[Len(list')] = new /\ Len(list') = Len(without) + 1
        /\ \A n \in 1..Len(list') : n < Len(list') => n \in 1..Len(without) /\ list'[n] = without[n]
    <3>1. without \in Seq(ListEntry)
      <4>1. {x \in ListEntry : Placed(D, end, x)} \subseteq ListEntry
        OBVIOUS
      <4> QED
        BY <2>4, <4>1
    <3> DEFINE n0 == Len(without)
    <3>2. /\ Len(list') = n0 + 1 /\ n0 \in Nat /\ list'[n0 + 1] = new /\ list' # <<>>
          /\ \A n \in 1..n0 : list'[n] = without[n]
      BY <1>1, <2>3, <3>1, AppendIs
    <3> HIDE DEF n0
    <3>3. \A n \in 1..(n0 + 1) : n < n0 + 1 => n \in 1..n0
      BY <3>2
    <3> QED
      BY <3>2, <3>3 DEF n0
  <2>9. ZipTypes'
    <3>1. log' \in Seq(LogEntry)
      BY <1>1, <1>5, <2>2, AppendProperties
    <3>2. todo' \in Seq(DeviceWrite)
      BY <1>7 DEF WritesOf
    <3> QED
      BY <1>1, <1>6, <1>9, <2>2, <2>7, <3>1, <3>2 DEF ZipTypes, D
  <2>10. GoodTree(D, end, tree') /\ (kind # "dir" => path \in DOMAIN tree' /\ tree'[path] = FileEntry("file", end + 1, 0, id))
    <3>1. path \in Seq(Name)
      BY <1>3, PathIsSeq DEF SomePath
    <3>2. GoodTree(D, end, dirs)
      BY <2>2, <3>1, FindOrCreateKeeps DEF dirs
    <3> DEFINE fe == FileEntry("file", end + 1, 0, id)
    <3>3. GoodEntry(D, end, fe)
      BY <2>2 DEF GoodEntry, FileEntry
    <3> HIDE DEF fe
    <3>4. GoodTree(D, end, Insert(tree, path, fe)) /\ path \in DOMAIN Insert(tree, path, fe) /\ Insert(tree, path, fe)[path] = fe
      BY <2>2, <3>1, <3>3, InsertKeeps
    <3>5. with = Insert(tree, path, fe)
      BY DEF with, fe
    <3>6. CASE kind = "dir"
      BY <1>1, <3>2, <3>6
    <3>7. CASE kind # "dir"
      BY <1>1, <3>4, <3>5, <3>7 DEF fe
    <3> QED
      BY <3>6, <3>7
  <2>11. ZipEntries' /\ ZipListed'
    BY <1>1, <1>9, <2>2, <2>7, <2>10 DEF ZipEntries, ZipListed, D
  <2>12. ZipWriting'
    <3>1. Underway(D, end, end, todo', ZipCells(e)) /\ InStep(end, end, todo', ZipCells(e))
      BY <1>7, <2>2, BeginsUnderway
    <3>2. todo' # <<>> /\ todo'[1].otherwise # "ignore"
      BY <1>7 DEF WritesOf
    <3> QED
      BY <1>1, <1>6, <1>9, <2>3, <2>8, <2>10, <3>1, <3>2 DEF ZipWriting, D
  <2>13. ASSUME ~lost PROVE ZipWritten' /\ ZipIndex'
    <3>1. LocalsEnd(D, end) /\ \A n \in 1..Len(list) : IsInPlace(D, end, list[n])
      BY <1>1, <2>1, <2>13 DEF ZipWritten, D
    <3>2. without \in Seq({x \in ListEntry : IsInPlace(D, end, x)})
      <4>1. \A n \in 1..Len(list) : list[n] \in {x \in ListEntry : IsInPlace(D, end, x)}
        BY <2>2, <3>1, SeqElement
      <4>2. Len(list) \in Nat
        BY <2>2
      <4> QED
        BY <4>1, <4>2, OnlyTakes DEF without, WithoutName
    <3>3. \A n \in 1..Len(without) : IsInPlace(D, end, without[n])
      BY <3>2, SeqElement
    <3>4. \A n \in 1..Len(list') : n < Len(list') => IsInPlace(D, end, list'[n])
      BY <2>8, <3>3
    <3> QED
      BY <1>1, <1>9, <3>1, <3>4 DEF ZipWritten, ZipIndex, D
  <2> QED
    BY <1>1, <2>9, <2>11, <2>12, <2>13 DEF ZipLive
<1>11. Live' => Live
  BY <1>1 DEF Live
<1> QED
  BY <1>8, <1>10, <1>11 DEF ZipInv

-----------------------------------------------------------------------------
(* A write to the device. *)
LEMMA ZipPut ==
    ASSUME ArchiveAssumption, format = "zip", ZipInv, IInv, mode # "closed", NEW x \in Cell, Put(x),
           UNCHANGED <<format, mode, device, stage, saved, settled>>,
           Live => ZipTypes
    PROVE  /\ ZipDisk' /\ Shut' /\ ZipPlace' /\ pos' = pos + 1
           /\ Live => OnDevice' = PutAt(OnDevice, pos, x) /\ (device' = "file" => file' # NoFile)
<1>1. CASE device = "file"
  <2>1. file' = PutAt(file, pos, x) /\ touched' = TRUE /\ pos' = pos + 1
    BY <1>1 DEF Put
  <2>2. mode \in {"R", "RW"}
    BY <1>1 DEF IInv, Device
  <2>3. ZipDisk' /\ Shut'
    BY <2>1 DEF ZipInv, ZipDisk, Shut
  <2>4. ASSUME Live PROVE file' # NoFile /\ OnDevice' = PutAt(OnDevice, pos, x)
    <3>1. OnDevice = file /\ OnDevice \in Seq(Cell) /\ pos \in Nat
      BY <1>1, <2>4 DEF OnDevice, Cells, ZipTypes
    <3>2. PutAt(file, pos, x) \in Seq(Cell)
      BY <3>1, PutAtOK
    <3>3. file' # NoFile
      BY <2>1, <3>2 DEF ArchiveAssumption
    <3> QED
      BY <1>1, <2>1, <3>1, <3>3 DEF OnDevice, Cells
  <2> QED
    BY <2>1, <2>3, <2>4 DEF ZipInv, ZipPlace
<1>2. CASE device # "file"
  <2>1. work' = PutAt(work, pos, x) /\ UNCHANGED <<file, touched>> /\ pos' = pos + 1
    BY <1>2 DEF Put
  <2> QED
    BY <1>2, <2>1 DEF ZipInv, ZipDisk, Shut, ZipPlace, OnDevice
<1> QED
  BY <1>1, <1>2

-----------------------------------------------------------------------------
LEMMA PlacedAgrees ==
    ASSUME NEW c, NEW d, NEW to \in Nat, Agrees(c, d, to), NEW e, e.start \in Nat, Placed(c, to, e)
    PROVE  Placed(d, to, e)
<1>1. e.start < to => e.start + 1 \in 1..to
  OBVIOUS
<1> QED
  BY <1>1 DEF Placed, Agrees

LEMMA StartIs ==
    ASSUME NEW s \in Seq(ListEntry)
    PROVE  Len(s) \in Nat /\ \A n \in 1..Len(s) : s[n] \in ListEntry /\ s[n].start \in Nat /\ s[n].size \in Nat
<1>1. \A n \in 1..Len(s) : s[n] \in ListEntry
  BY SeqElement
<1> QED
  BY <1>1 DEF ListEntry

LEMMA ZipPuts ==
    ASSUME ArchiveAssumption, format = "zip", ZipInv, IInv, WriteCell
    PROVE  ZipInv'
<1> DEFINE x == Head(todo).cell
           D == OnDevice
           a == ZipCells(op)
<1>1. /\ stage = "write" /\ todo # <<>> /\ ~full /\ Put(x) /\ todo' = Tail(todo)
      /\ UNCHANGED <<format, mode, device, tree, list, end, stage, op, full, saved, log, settled, lost, moved>>
  BY DEF WriteCell
<1>2. mode # "closed"
  BY <1>1 DEF IInv, Device
<1>3. Live => ZipTypes /\ ZipEntries /\ ZipListed /\ ZipWriting /\ (~lost => ZipWritten)
  BY DEF ZipInv, ZipLive
<1>4. Live => todo \in Seq(DeviceWrite) /\ op \in OpEntry
  BY <1>1, <1>3 DEF ZipTypes
<1>6. ASSUME ~Live PROVE ZipInv'
  <2>1. ZipDisk'
    BY <1>1, <1>2, <1>6 DEF Live, ZipDisk
  <2>2. Shut' /\ ZipPlace'
    BY <1>1, <1>2 DEF Shut, ZipInv, ZipPlace
  <2>3. ~Live'
    BY <1>1, <1>6 DEF Live
  <2> QED
    BY <2>1, <2>2, <2>3 DEF ZipInv
<1>7. ASSUME Live PROVE ZipInv'
  <2>1. x \in Cell
    BY <1>1, <1>4, <1>7, TailOfWrites DEF DeviceWrite
  <2> HIDE DEF x
  <2>2. ZipDisk' /\ Shut' /\ ZipPlace' /\ pos' = pos + 1
        /\ OnDevice' = PutAt(D, pos, x) /\ (device' = "file" => file' # NoFile)
    BY <1>1, <1>2, <1>3, <1>7, <2>1, ZipPut
  <2> DEFINE d == PutAt(D, pos, x)
  <2>3. /\ D \in Seq(Cell) /\ todo \in Seq(DeviceWrite) /\ list \in Seq(ListEntry) /\ op \in OpEntry
        /\ pos \in Nat /\ end \in Nat /\ end <= Len(D) /\ log \in Seq(LogEntry)
        /\ GoodTree(D, end, tree) /\ pos >= end /\ ~moved
        /\ \A n \in 1..Len(list) : Placed(D, end, list[n])
    BY <1>1, <1>3, <1>7 DEF ZipTypes, ZipEntries, ZipListed
  <2>4. /\ list # <<>> /\ list[Len(list)].start = end
        /\ Underway(D, end, pos, todo, a) /\ InStep(end, pos, todo, a)
        /\ op.kind # "dir" => op.path \in DOMAIN tree /\ tree[op.path] = FileEntry("file", end + 1, 0, op.id)
    BY <1>1, <1>3, <1>7 DEF ZipWriting
  <2>5. IsZipEntry(a, op)
    BY <2>3, ZipCellsOK
  <2> HIDE DEF D, a, d
  <2>6. /\ Underway(PutAt(D, pos, Head(todo).cell), end, pos + 1, Tail(todo), a)
        /\ InStep(end, pos + 1, Tail(todo), a)
        /\ \E i \in 1..Len(a) : Head(todo).cell = a[i]
    BY <1>1, <2>3, <2>4, <2>5, PutsUnderway DEF IsZipEntry
  <2>7. x.what # "central"
    <3>1. PICK i \in 1..Len(a) : x = a[i]
      BY <2>6 DEF x
    <3>2. op.size \in Nat /\ op.path \in Path /\ op.kind \in Kind /\ op.id \in Nat
      BY <2>3 DEF OpEntry
    <3>3. Len(a) = op.size + 1 /\ a[1] = Local(op.path, op.kind, op.id)
          /\ \A k \in 1..op.size : a[k + 1] = Data(op.id, k)
      BY <2>5 DEF IsZipEntry
    <3>4. CASE i = 1
      BY <3>1, <3>2, <3>3, <3>4, LocalIs
    <3>5. CASE i # 1
      <4>1. i - 1 \in 1..op.size /\ (i - 1) + 1 = i
        BY <3>2, <3>3, <3>5
      <4>2. x = Data(op.id, i - 1)
        BY <3>1, <3>3, <4>1
      <4> QED
        BY <4>2, DataIs
    <3> QED
      BY <3>4, <3>5
  <2>8. Agrees(D, d, end)
    BY <2>1, <2>3, PutAtAgrees DEF d
  <2>9. d \in Seq(Cell)
    BY <2>1, <2>3, PutAtOK DEF d
  <2>10. OnDevice' = d
    BY <2>2 DEF d
  <2>11. Tail(todo) \in Seq(DeviceWrite)
    BY <1>1, <2>3, TailOfWrites
  <2>12. ZipTypes'
    <3>1. end <= Len(d)
      BY <2>8 DEF Agrees
    <3> QED
      BY <1>1, <2>2, <2>3, <2>9, <2>10, <2>11, <3>1 DEF ZipTypes
  <2>13. ZipEntries'
    <3>1. GoodTree(d, end, tree)
      BY <2>3, <2>8, <2>9, TreeAgrees
    <3>2. pos + 1 >= end
      BY <2>3
    <3> QED
      BY <1>1, <2>2, <2>3, <2>10, <3>1, <3>2 DEF ZipEntries
  <2>14. ZipListed'
    <3>1. \A n \in 1..Len(list) : Placed(d, end, list[n])
      BY <2>3, <2>8, PlacedAgrees, StartIs
    <3> QED
      BY <1>1, <2>10, <3>1 DEF ZipListed
  <2>15. ZipWriting'
    <3>1. pos + 1 # end
      BY <2>3
    <3>2. Underway(d, end, pos + 1, Tail(todo), a)
      BY <2>6 DEF d, x
    <3>3. ZipCells(op)' = a
      BY <1>1 DEF a
    <3> QED
      BY <1>1, <2>2, <2>4, <2>6, <2>10, <3>1, <3>2, <3>3 DEF ZipWriting
  <2>16. ASSUME ~lost PROVE ZipWritten' /\ ZipIndex'
    <3>1. /\ LocalsEnd(D, end)
          /\ \A n \in 1..Len(list) : n < Len(list) => IsInPlace(D, end, list[n])
      BY <1>1, <1>3, <1>7, <2>16 DEF ZipWritten, D
    <3>2. LocalsEnd(d, end)
      BY <2>1, <2>3, <2>7, <3>1, LocalsPut DEF d
    <3>3. \A n \in 1..Len(list) : n < Len(list) => IsInPlace(d, end, list[n])
      BY <2>3, <2>8, <2>9, <3>1, AgreesPlace
    <3> QED
      BY <1>1, <2>10, <3>2, <3>3 DEF ZipWritten, ZipIndex
  <2>17. ZipLive'
    BY <1>1, <2>12, <2>13, <2>14, <2>15, <2>16 DEF ZipLive
  <2> QED
    BY <2>2, <2>17 DEF ZipInv
<1> QED
  BY <1>6, <1>7

-----------------------------------------------------------------------------
LEMMA ZipFails ==
    ASSUME format = "zip", ZipInv, IInv, WriteFails
    PROVE  ZipInv'
<1> DEFINE D == OnDevice
           a == ZipCells(op)
<1>1. /\ stage = "write" /\ todo # <<>> /\ full /\ lost' = TRUE
      /\ UNCHANGED <<format, file, mode, work, pos, tree, list, full, saved, log, settled, moved, touched>>
      /\ end' = end
      /\ \/ /\ Head(todo).otherwise = "ignore" /\ todo' = Tail(todo)
            /\ UNCHANGED <<device, stage, op>>
         \/ /\ device' = device \/ (device = "save" /\ device' = "none")
            /\ todo' = <<>> /\ stage' = "idle"
  BY DEF WriteFails, Abort, EndAfterFailure
<1>2. mode # "closed" /\ (device = "save" => mode = "W")
  BY <1>1 DEF IInv, Device
<1>3. ZipDisk' /\ Shut' /\ ZipPlace'
  BY <1>1, <1>2 DEF ZipInv, ZipDisk, Shut, ZipPlace
<1>4. D' = D /\ (device' = "file" => device = "file")
  BY <1>1 DEF OnDevice, Cells
<1>5. ASSUME Live PROVE ZipLive'
  <2>1. ZipTypes /\ ZipEntries /\ ZipListed /\ ZipWriting
    BY <1>5 DEF ZipInv, ZipLive
  <2>2. /\ D \in Seq(Cell) /\ todo \in Seq(DeviceWrite) /\ list \in Seq(ListEntry) /\ op \in OpEntry
        /\ pos \in Nat /\ end \in Nat /\ end <= Len(D) /\ log \in Seq(LogEntry)
        /\ GoodTree(D, end, tree) /\ pos >= end /\ ~moved
        /\ (device = "file" => file # NoFile)
        /\ \A n \in 1..Len(list) : Placed(D, end, list[n])
    BY <1>1, <2>1 DEF ZipTypes, ZipEntries, ZipListed
  <2>3. /\ list # <<>> /\ list[Len(list)].start = end
        /\ Underway(D, end, pos, todo, a)
        /\ pos = end => todo[1].otherwise # "ignore"
        /\ op.kind # "dir" => op.path \in DOMAIN tree /\ tree[op.path] = FileEntry("file", end + 1, 0, op.id)
    BY <1>1, <2>1 DEF ZipWriting
  <2>4. a \in Seq(Cell)
    BY <2>2, ZipCellsOK DEF IsZipEntry
  <2> HIDE DEF D, a
  <2>5. Tail(todo) \in Seq(DeviceWrite) /\ Head(todo) = todo[1]
    BY <1>1, <2>2, TailOfWrites
  <2>6. ZipTypes'
    <3>1. <<>> \in Seq(DeviceWrite)
      OBVIOUS
    <3>2. todo' \in Seq(DeviceWrite)
      BY <1>1, <2>5, <3>1
    <3>3. stage' = "write" => op' = op
      BY <1>1
    <3> QED
      BY <1>1, <1>4, <2>2, <3>2, <3>3 DEF ZipTypes, D
  <2>7. ZipEntries' /\ ZipListed'
    <3>1. stage' # "central"
      BY <1>1
    <3> QED
      BY <1>1, <1>4, <2>2, <3>1 DEF ZipEntries, ZipListed, D
  <2>8. ZipWriting'
    <3> SUFFICES ASSUME stage' = "write" PROVE ZipWriting'
      BY DEF ZipWriting
    <3>1. Head(todo).otherwise = "ignore" /\ todo' = Tail(todo) /\ op' = op
      BY <1>1
    <3>2. pos > end
      BY <2>2, <2>3, <2>5, <3>1
    <3>3. Underway(D, end, pos, Tail(todo), a)
      BY <1>1, <2>2, <2>3, <2>4, SkipsUnderway
    <3>4. ZipCells(op)' = a
      BY <3>1 DEF a
    <3>5. pos # end
      BY <2>2, <3>2
    <3> QED
      BY <1>1, <1>4, <2>3, <3>1, <3>2, <3>3, <3>4, <3>5 DEF ZipWriting, D
  <2> QED
    BY <1>1, <2>6, <2>7, <2>8 DEF ZipLive
<1>6. Live' => Live
  BY <1>1 DEF Live
<1> QED
  BY <1>3, <1>5, <1>6 DEF ZipInv

LEMMA ZipReads ==
    ASSUME format = "zip", ZipInv, IInv, NEW path \in Path, ReadEntry(path)
    PROVE  ZipInv'
<1>1. /\ mode # "closed" /\ stage = "idle" /\ Has(tree, path) /\ tree[path].kind = "file"
      /\ pos' = tree[path].pos + (IF mode = "W" THEN 0 ELSE tree[path].size)
      /\ moved' = TRUE
      /\ UNCHANGED <<format, file, mode, device, work, tree, list, end, stage, op, todo, full, saved, log, settled, lost, touched>>
  BY DEF ReadEntry
<1>2. ZipDisk' /\ Shut' /\ ZipPlace'
  BY <1>1 DEF ZipInv, ZipDisk, Shut, ZipPlace
<1>3. OnDevice' = OnDevice
  BY <1>1 DEF OnDevice, Cells
<1>4. ASSUME Live PROVE ZipLive'
  <2>1. ZipTypes /\ ZipEntries /\ ZipListed /\ (~lost => ZipWritten)
    BY <1>4 DEF ZipInv, ZipLive
  <2>2. GoodEntry(OnDevice, end, tree[path])
    BY <1>1, <2>1 DEF ZipEntries, GoodTree, Has
  <2>3. pos' \in Nat
    BY <1>1, <2>2 DEF GoodEntry
  <2>4. ZipTypes'
    BY <1>1, <1>3, <2>1, <2>3 DEF ZipTypes
  <2>5. ZipEntries' /\ ZipListed' /\ ZipWriting'
    BY <1>1, <1>3, <2>1 DEF ZipEntries, ZipListed, ZipWriting
  <2>6. ASSUME ~lost PROVE ZipWritten' /\ ZipIndex'
    BY <1>1, <1>3, <2>1, <2>6 DEF ZipWritten, ZipIndex
  <2> QED
    BY <1>1, <2>4, <2>5, <2>6 DEF ZipLive
<1>5. Live' => Live
  BY <1>1 DEF Live
<1> QED
  BY <1>2, <1>4, <1>5 DEF ZipInv

-----------------------------------------------------------------------------
LEMMA PlacedGrows ==
    ASSUME NEW c, NEW from \in Nat, NEW to \in Nat, from <= to, from < to => c[from + 1].what = "local",
           NEW e, e.start \in Nat, Placed(c, from, e)
    PROVE  Placed(c, to, e)
<1>1. e.start < from \/ e.start = from
  BY DEF Placed
<1> QED
  BY <1>1 DEF Placed

(* The last file of the list gets its size. *)
LEMMA LastSized ==
    ASSUME NEW s \in Seq(ListEntry), s # <<>>, NEW size \in Nat
    PROVE  LET t == [s EXCEPT ![Len(s)].size = size]
           IN  /\ t \in Seq(ListEntry) /\ Len(t) = Len(s) /\ Len(s) \in Nat \ {0}
               /\ t[Len(s)].size = size /\ t[Len(s)].start = s[Len(s)].start /\ t[Len(s)].kind = s[Len(s)].kind
               /\ \A n \in 1..Len(s) : n # Len(s) => t[n] = s[n]
<1> DEFINE n == Len(s)
           x == [s[n] EXCEPT !.size = size]
           t == [s EXCEPT ![n].size = size]
<1>1. n \in Nat \ {0}
  OBVIOUS
<1> HIDE DEF n
<1>2. n \in 1..n
  BY <1>1
<1>3. s[n] \in ListEntry
  BY <1>2, SeqElement DEF n
<1>4. x \in ListEntry /\ x.size = size /\ x.start = s[n].start /\ x.kind = s[n].kind
  BY <1>3 DEF ListEntry
<1>5. t = [s EXCEPT ![n] = x]
  OBVIOUS
<1> HIDE DEF x, t
<1>6. t \in Seq(ListEntry) /\ Len(t) = n /\ t[n] = x /\ \A i \in 1..n : i # n => t[i] = s[i]
  BY <1>2, <1>4, <1>5, ExceptSeq DEF n
<1> QED
  BY <1>1, <1>4, <1>6 DEF t, n

LEMMA ZipFinishes ==
    ASSUME format = "zip", ZipInv, IInv, FinishWrite
    PROVE  ZipInv'
<1> DEFINE D == OnDevice
           n == Len(list)
           size == pos - list[n].start - 1
<1>1. /\ stage = "write" /\ todo = <<>> /\ stage' = "idle" /\ end' = pos
      /\ list' = [list EXCEPT ![n].size = size]
      /\ tree' = (IF op.kind = "dir" THEN tree ELSE [tree EXCEPT ![op.path].size = size])
      /\ UNCHANGED <<format, file, mode, device, work, pos, todo, full, saved, log, settled, lost, moved, touched>>
  BY DEF FinishWrite, FinishZip, FinishTar, historyVars
<1>2. mode # "closed"
  BY <1>1 DEF IInv, Device
<1>3. ZipDisk' /\ Shut' /\ ZipPlace'
  BY <1>1, <1>2 DEF ZipInv, ZipDisk, Shut, ZipPlace
<1>4. D' = D
  BY <1>1 DEF OnDevice, Cells
<1>5. ASSUME Live PROVE ZipLive'
  <2>1. ZipTypes /\ ZipEntries /\ ZipListed /\ ZipWriting /\ (~lost => ZipWritten)
    BY <1>5 DEF ZipInv, ZipLive
  <2>2. /\ D \in Seq(Cell) /\ list \in Seq(ListEntry) /\ op \in OpEntry /\ todo \in Seq(DeviceWrite)
        /\ pos \in Nat /\ end \in Nat /\ end <= Len(D) /\ log \in Seq(LogEntry)
        /\ GoodTree(D, end, tree) /\ pos >= end /\ ~moved
        /\ (device = "file" => file # NoFile)
        /\ \A i \in 1..Len(list) : Placed(D, end, list[i])
    BY <1>1, <2>1 DEF ZipTypes, ZipEntries, ZipListed
  <2>3. /\ list # <<>> /\ list[n].start = end
        /\ Underway(D, end, pos, todo, ZipCells(op))
        /\ pos # end
        /\ op.kind # "dir" => op.path \in DOMAIN tree /\ tree[op.path] = FileEntry("file", end + 1, 0, op.id)
    BY <1>1, <2>1 DEF ZipWriting
  <2>4. end < pos /\ size = pos - end - 1 /\ size \in Nat
    BY <2>2, <2>3
  <2> HIDE DEF D
  <2>5. Added(D, end, pos)
    <3>1. Len(todo) \in Nat
      BY <2>2
    <3> QED
      BY <2>2, <2>3, <2>4, <3>1, DoneUnderway
  <2>6. /\ pos <= Len(D) /\ D[end + 1].what = "local" /\ D[end + 1].size = Unknown
        /\ \A i \in (end + 2)..pos : D[i].what = "data"
        /\ HasData(D, end + 1, size)
    BY <2>4, <2>5 DEF Added
  <2> HIDE DEF size
  <2>7. /\ list' \in Seq(ListEntry) /\ Len(list') = n /\ n \in Nat \ {0}
        /\ list'[n].size = size /\ list'[n].start = end
        /\ \A i \in 1..n : i # n => list'[i] = list[i]
    BY <1>1, <2>2, <2>3, <2>4, LastSized
  <2> HIDE DEF n
  <2>8. list' # <<>>
    <3>1. Len(list') # 0
      BY <2>7
    <3> QED
      BY <3>1
  <2>9. \A i \in 1..n : list[i].start \in Nat /\ Placed(D, end, list[i])
    BY <2>2, StartIs DEF n
  <2>10. GoodTree(D, pos, tree')
    <3>1. GoodTree(D, pos, tree)
      BY <2>2, <2>4, GrowsTree
    <3>2. CASE op.kind = "dir"
      BY <1>1, <3>1, <3>2
    <3>3. CASE op.kind # "dir"
      <4> DEFINE t == [tree EXCEPT ![op.path].size = size]
      <4>1. t[op.path].kind = "file" /\ t[op.path].pos = end + 1 /\ t[op.path].size = size
            /\ DOMAIN t = DOMAIN tree /\ \A p \in DOMAIN tree : p # op.path => t[p] = tree[p]
        BY <2>3, <3>3 DEF FileEntry
      <4> HIDE DEF t
      <4>2. end + 1 \in Nat /\ end + 1 + size <= pos
        BY <2>2, <2>4
      <4>3. GoodEntry(D, pos, t[op.path])
        BY <2>4, <2>6, <4>1, <4>2 DEF GoodEntry
      <4>4. GoodTree(D, pos, t)
        BY <3>1, <4>1, <4>3 DEF GoodTree
      <4> QED
        BY <1>1, <3>3, <4>4 DEF t
    <3> QED
      BY <3>2, <3>3
  <2>11. ZipTypes'
    BY <1>1, <1>4, <2>2, <2>6, <2>7 DEF ZipTypes, D
  <2>12. ZipEntries'
    <3>1. pos >= pos
      BY <2>2
    <3> QED
      BY <1>1, <1>4, <2>10, <3>1 DEF ZipEntries, D
  <2>13. ZipListed'
    <3>1. ASSUME NEW i \in 1..n PROVE Placed(D, pos, list'[i])
      <4>1. CASE i = n
        <5>1. list'[i].start = end
          BY <2>7, <4>1
        <5> QED
          BY <2>2, <2>4, <2>6, <5>1 DEF Placed
      <4>2. CASE i # n
        <5>1. list'[i] = list[i]
          BY <2>7, <4>2
        <5>2. end <= pos
          BY <2>2, <2>4
        <5>3. Placed(D, pos, list[i])
          BY <2>2, <2>6, <2>9, <5>2, PlacedGrows
        <5> QED
          BY <5>1, <5>3
      <4> QED
        BY <4>1, <4>2
    <3> QED
      BY <1>1, <1>4, <2>7, <3>1 DEF ZipListed, D
  <2>14. ASSUME ~lost PROVE ZipWritten'
    <3>1. LocalsEnd(D, end) /\ \A i \in 1..n : i < n => IsInPlace(D, end, list[i])
      BY <1>1, <2>1, <2>14 DEF ZipWritten, D, n
    <3>2. LocalsEnd(D, pos)
      BY <2>2, <2>4, <2>6, <3>1, LocalsGrow
    <3>3. ASSUME NEW i \in 1..n PROVE IsInPlace(D, pos, list'[i])
      <4>1. CASE i = n
        <5>1. list'[i].start = end /\ list'[i].size = size
          BY <2>7, <4>1
        <5>2. FitsBefore(D, pos, end + 1, size)
          <6>1. end + 1 + size = pos
            BY <2>2, <2>4
          <6> QED
            BY <2>2, <2>4, <6>1 DEF FitsBefore
        <5> QED
          BY <2>2, <2>4, <2>6, <5>1, <5>2 DEF IsInPlace
      <4>2. CASE i # n
        <5>1. list'[i] = list[i] /\ i < n
          BY <2>7, <4>2
        <5>2. end <= pos /\ IsInPlace(D, end, list[i])
          BY <2>2, <2>4, <3>1, <5>1
        <5>3. IsInPlace(D, pos, list[i])
          BY <2>2, <2>6, <5>2, GrowsPlace
        <5> QED
          BY <5>1, <5>3
      <4> QED
        BY <4>1, <4>2
    <3> QED
      BY <1>1, <1>4, <2>7, <2>8, <3>2, <3>3 DEF ZipWritten, D
  <2>15. ZipWriting' /\ ZipIndex'
    BY <1>1 DEF ZipWriting, ZipIndex
  <2> QED
    BY <1>1, <2>11, <2>12, <2>13, <2>14, <2>15 DEF ZipLive
<1>6. Live' => Live
  BY <1>1 DEF Live
<1> QED
  BY <1>3, <1>5, <1>6 DEF ZipInv

-----------------------------------------------------------------------------
(* The index of a zip file.                                                *)

(* What closeArchive writes for a list. *)
IsIndexOf(w, s) ==
    /\ w \in Seq(DeviceWrite) /\ w # <<>>
    /\ \A i \in 1..Len(s) : i \in 1..Len(w) /\ w[i].cell = Central(s[i])
    /\ \A i \in 1..Len(w) : i \in 1..Len(s) \/ w[i].cell.what \in {"endsig", "endrest"}
    /\ s = <<>> => w[1].cell.what = "endsig"

LEMMA CentralIs ==
    ASSUME NEW e \in ListEntry
    PROVE  /\ Central(e) \in Cell /\ Central(e).what = "central"
           /\ Central(e).kind = e.kind /\ Central(e).size = e.size /\ Central(e).start = e.start
BY DEF Central, ListEntry, Cell, What, SomePath

LEMMA IndexIs ==
    ASSUME NEW s \in Seq(ListEntry)
    PROVE  IsIndexOf(Writes([i \in 1..Len(s) |-> Central(s[i])] \o EndRecord, "fail"), s)
<1> DEFINE n == Len(s)
           a == [i \in 1..n |-> Central(s[i])]
           c == a \o EndRecord
           w == Writes(c, "fail")
<1>1. n \in Nat /\ (n = 0 <=> s = <<>>)
  OBVIOUS
<1>2. a \in Seq(Cell) /\ Len(a) = n
  <2>1. \A i \in 1..n : Central(s[i]) \in Cell
    BY SeqElement, CentralIs
  <2> HIDE DEF n
  <2> QED
    BY <1>1, <2>1
<1>3. EndRecord \in Seq(Cell) /\ Len(EndRecord) = 2
      /\ EndRecord[1].what = "endsig" /\ EndRecord[2].what = "endrest"
  <2>1. Mark("endsig") \in Cell /\ Mark("endsig").what = "endsig"
        /\ Mark("endrest") \in Cell /\ Mark("endrest").what = "endrest"
    BY MarkCell DEF What
  <2> QED
    BY <2>1 DEF EndRecord
<1>4. \A i \in 1..n : a[i] = Central(s[i])
  OBVIOUS
<1> HIDE DEF n, a
<1>5. c \in Seq(Cell) /\ Joins(c, a, EndRecord)
  BY <1>2, <1>3, Joined
<1> HIDE DEF c
<1>6. /\ Len(c) = n + 2 /\ \A i \in 1..n : c[i] = Central(s[i])
      /\ c[n + 1].what = "endsig" /\ c[n + 2].what = "endrest"
  <2>1. /\ Len(c) = n + 2 /\ (\A i \in 1..n : c[i] = a[i]) /\ \A i \in 1..2 : c[n + i] = EndRecord[i]
    BY <1>2, <1>3, <1>5 DEF Joins
  <2>2. c[n + 1] = EndRecord[1] /\ c[n + 2] = EndRecord[2]
    BY <2>1
  <2> QED
    BY <1>3, <1>4, <2>1, <2>2
<1>7. /\ w \in Seq(DeviceWrite) /\ Len(w) = Len(c)
      /\ \A i \in 1..Len(c) : w[i].cell = c[i]
  BY <1>5, WritesOK
<1> HIDE DEF w
<1>8. /\ Len(w) = n + 2 /\ \A i \in 1..(n + 2) : w[i].cell = c[i]
  BY <1>6, <1>7
<1>9. w # <<>>
  <2>1. Len(w) # 0
    BY <1>1, <1>8
  <2> QED
    BY <2>1
<1>10. \A i \in 1..n : i \in 1..Len(w) /\ w[i].cell = Central(s[i])
  <2>1. \A i \in 1..n : i \in 1..(n + 2)
    BY <1>1
  <2> QED
    BY <1>6, <1>8, <2>1
<1>11. \A i \in 1..Len(w) : i \in 1..n \/ w[i].cell.what \in {"endsig", "endrest"}
  <2>1. \A i \in 1..(n + 2) : i \in 1..n \/ i = n + 1 \/ i = n + 2
    BY <1>1
  <2> QED
    BY <1>6, <1>8, <2>1
<1>12. n = 0 => w[1].cell.what = "endsig"
  <2>1. 1 \in 1..(n + 2) /\ (n = 0 => n + 1 = 1)
    BY <1>1
  <2> QED
    BY <1>6, <1>8, <2>1
<1>13. IsIndexOf(w, s)
  BY <1>1, <1>7, <1>9, <1>10, <1>11, <1>12 DEF IsIndexOf, n
<1> QED
  BY <1>13 DEF w, c, a, n

(* Before the index is written, it is known where it goes. *)
LEMMA IndexBegins ==
    ASSUME NEW c \in Seq(Cell), NEW to \in Nat, LocalsEnd(c, to), NEW at \in Nat,
           NEW s \in Seq(ListEntry), \A n \in 1..Len(s) : IsInPlace(c, to, s[n]),
           PastEnd(c, to, at) \/ (at = to /\ s # <<>>),
           NEW d, Filled(c, d, to), NEW w, IsIndexOf(w, s)
    PROVE  /\ LocalsEnd(d, to) /\ IndexGoes(d, to, at, w)
           /\ \A i \in 1..Len(w) : w[i].cell.what = "central" => IsInPlace(d, to, w[i].cell)
<1> DEFINE L == Len(c)
           n == Len(s)
<1>1. /\ d \in Seq(Cell) /\ Len(d) = L /\ LocalsEnd(d, to) /\ Agrees(c, d, to)
      /\ \A i \in (to + 1)..L : d[i] = c[i]
      /\ L \in Nat /\ to <= L /\ (L = 0 <=> c = <<>>) /\ (L = 0 <=> d = <<>>)
      /\ DOMAIN c = 1..L /\ DOMAIN d = 1..L
  BY DEF Filled, LocalsEnd
<1>2. /\ n \in Nat /\ (n = 0 <=> s = <<>>) /\ \A i \in 1..n : s[i] \in ListEntry
  BY SeqElement
<1>3. /\ w # <<>>
      /\ \A i \in 1..n : i \in 1..Len(w) /\ w[i].cell = Central(s[i])
      /\ \A i \in 1..Len(w) : i \in 1..n \/ w[i].cell.what \in {"endsig", "endrest"}
      /\ n = 0 => w[1].cell.what = "endsig"
  BY <1>2 DEF IsIndexOf
<1>4. \A i \in 1..n : IsInPlace(c, to, s[i])
  OBVIOUS
<1> HIDE DEF L, n
<1>5. \A i \in 1..Len(w) : w[i].cell.what = "central" => IsInPlace(d, to, w[i].cell)
  <2>1. ASSUME NEW i \in 1..Len(w), w[i].cell.what = "central" PROVE IsInPlace(d, to, w[i].cell)
    <3>1. i \in 1..n
      BY <1>3, <2>1
    <3>2. w[i].cell = Central(s[i]) /\ IsInPlace(d, to, s[i]) /\ s[i] \in ListEntry
      BY <1>1, <1>2, <1>3, <1>4, <3>1, AgreesPlace
    <3> QED
      BY <3>2, CentralIs, SamePlace
  <2> QED
    BY <2>1
<1>6. n # 0 => w[1].cell.what = "central"
  <2>1. n # 0 => 1 \in 1..n
    BY <1>2
  <2> QED
    BY <1>2, <1>3, <2>1, CentralIs
<1>7. CASE at = to /\ n # 0
  BY <1>1, <1>3, <1>5, <1>6, <1>7 DEF IndexGoes
<1>8. CASE ~(at = to /\ n # 0)
  <2>1. CentralsAt(c, to) /\ (IF c = <<>> THEN at = 0 ELSE at > to)
    BY <1>2, <1>8 DEF PastEnd
  <2>2. CASE c = <<>>
    <3>1. to = 0 /\ at = 0 /\ n = 0 /\ d = <<>>
      BY <1>1, <1>8, <2>1, <2>2
    <3>2. NoCentral(d)
      BY <3>1 DEF NoCentral
    <3>3. \A i \in 1..Len(w) : w[i].cell.what # "central"
      BY <1>3, <3>1
    <3> QED
      BY <1>1, <1>3, <1>5, <3>1, <3>2, <3>3 DEF IndexGoes
  <2>3. CASE c # <<>> /\ to < L /\ c[to + 1].what = "central"
    <3>1. to + 1 \in (to + 1)..L
      BY <1>1, <2>3
    <3>2. d[to + 1] = c[to + 1] /\ at > to
      BY <1>1, <2>1, <2>3, <3>1
    <3> QED
      BY <1>1, <1>5, <2>3, <3>2 DEF IndexGoes
  <2>4. CASE c # <<>> /\ to = 0 /\ c[1].what = "endsig" /\ NoCentral(c)
    <3>1. n = 0
      <4>1. n # 0 => 1 \in 1..n
        BY <1>2
      <4>2. n # 0 => s[1].start \in Nat /\ s[1].start < to
        BY <1>4, <4>1, PlaceIs
      <4> QED
        BY <2>4, <4>2
    <3>2. \A i \in 1..L : d[i] = c[i]
      <4>1. \A i \in 1..L : i \in (to + 1)..L
        BY <1>1, <2>4
      <4> QED
        BY <1>1, <4>1
    <3>3. NoCentral(d) /\ d # <<>> /\ d[1].what = "endsig" /\ at >= 1
      <4>1. 1 \in 1..L
        BY <1>1, <2>4
      <4> QED
        BY <1>1, <2>1, <2>4, <3>2, <4>1 DEF NoCentral
    <3>4. \A i \in 1..Len(w) : w[i].cell.what # "central"
      BY <1>3, <3>1
    <3> QED
      BY <1>1, <1>5, <2>4, <3>3, <3>4 DEF IndexGoes
  <2> QED
    BY <2>1, <2>2, <2>3, <2>4 DEF CentralsAt, L
<1> QED
  BY <1>7, <1>8

-----------------------------------------------------------------------------
LEMMA ZipBeginsIndex ==
    ASSUME ArchiveAssumption, format = "zip", ZipInv, IInv, BeginCentral
    PROVE  ZipInv'
<1> DEFINE D == OnDevice
           d == FillIn(D, list)
<1>1. /\ mode \in {"W", "RW"} /\ stage = "idle" /\ stage' = "central" /\ device # "none"
      /\ todo' = Writes([i \in 1..Len(list) |-> Central(list[i])] \o EndRecord, "fail")
      /\ touched' = (device = "file" \/ touched)
      /\ UNCHANGED <<format, mode, device, pos, tree, list, end, op, full, saved, log, settled, lost, moved>>
  BY DEF BeginCentral, Closing
<1>2. IF device = "file" THEN file' = FillIn(Cells, list) /\ UNCHANGED work
      ELSE work' = FillIn(work, list) /\ UNCHANGED file
  BY DEF BeginCentral
<1>3. ZipDisk' /\ Shut' /\ ZipPlace'
  BY <1>1, <1>2 DEF ZipInv, ZipDisk, Shut, ZipPlace
<1>4. ASSUME Live PROVE ZipLive'
  <2>1. ZipTypes /\ ZipEntries /\ ZipListed /\ (~lost => ZipWritten)
    BY <1>4 DEF ZipInv, ZipLive
  <2>2. /\ D \in Seq(Cell) /\ list \in Seq(ListEntry)
        /\ pos \in Nat /\ end \in Nat /\ end <= Len(D) /\ log \in Seq(LogEntry)
        /\ GoodTree(D, end, tree) /\ (~moved => pos >= end)
        /\ (device = "file" => file # NoFile)
        /\ \A n \in 1..Len(list) : Placed(D, end, list[n])
    BY <1>1, <2>1 DEF ZipTypes, ZipEntries, ZipListed
  <2>3. device = "file" => D = Cells
    BY DEF OnDevice
  <2>4. device # "file" => D = work
    BY DEF OnDevice
  <2> HIDE DEF D
  <2>5. FilledSomehow(D, d, end)
    BY <2>2, FillInSomehow
  <2> HIDE DEF d
  <2>6. d \in Seq(Cell) /\ Agrees(D, d, end) /\ end <= Len(d)
    BY <2>5 DEF FilledSomehow, Agrees
  <2>7. OnDevice' = d /\ (device' = "file" => file' # NoFile)
    <3>1. CASE device = "file"
      <4>1. file' = d
        BY <1>2, <2>3, <3>1 DEF d
      <4>2. file' # NoFile
        BY <2>6, <4>1 DEF ArchiveAssumption
      <4> QED
        BY <1>1, <3>1, <4>1, <4>2 DEF OnDevice, Cells
    <3>2. CASE device # "file"
      <4>1. work' = d
        BY <1>2, <2>4, <3>2 DEF d
      <4> QED
        BY <1>1, <3>2, <4>1 DEF OnDevice
    <3> QED
      BY <3>1, <3>2
  <2>8. IsIndexOf(todo', list)
    BY <1>1, <2>2, IndexIs
  <2>9. ZipTypes'
    <3>1. todo' \in Seq(DeviceWrite)
      BY <2>8 DEF IsIndexOf
    <3> QED
      BY <1>1, <2>2, <2>6, <2>7, <3>1 DEF ZipTypes
  <2>10. ZipEntries' /\ ZipListed' /\ ZipWriting'
    <3>1. end <= end
      BY <2>2
    <3>2. GoodTree(d, end, tree)
      BY <2>2, <2>6, <3>1, TreeAgrees
    <3> QED
      BY <1>1, <2>2, <2>7, <3>2 DEF ZipEntries, ZipListed, ZipWriting
  <2>11. ASSUME ~lost PROVE ZipWritten' /\ ZipIndex'
    <3> SUFFICES ASSUME ~moved PROVE ZipIndex'
      BY <1>1 DEF ZipWritten, ZipIndex
    <3>1. /\ LocalsEnd(D, end)
          /\ \A n \in 1..Len(list) : IsInPlace(D, end, list[n])
          /\ PastEnd(D, end, pos) \/ (pos = end /\ list # <<>>)
      BY <1>1, <2>1, <2>11 DEF ZipWritten, D
    <3>2. list \in Seq(InPlace(D, end))
      <4> DEFINE n == Len(list)
      <4>1. n \in Nat /\ \A i \in 1..n : list[i] \in InPlace(D, end)
        BY <2>2, <3>1, SeqElement DEF InPlace
      <4>2. list = [i \in 1..n |-> list[i]]
        BY <2>2
      <4> HIDE DEF n
      <4> QED
        BY <4>1, <4>2, IsASeq
    <3>3. Filled(D, d, end)
      BY <2>2, <3>1, <3>2, FillInOK DEF d
    <3> DEFINE w == todo'
    <3>4. IsIndexOf(w, list)
      BY <2>8
    <3> HIDE DEF w
    <3>5. /\ LocalsEnd(d, end) /\ IndexGoes(d, end, pos, w)
          /\ \A i \in 1..Len(w) : w[i].cell.what = "central" => IsInPlace(d, end, w[i].cell)
      BY <2>2, <3>1, <3>3, <3>4, IndexBegins
    <3> QED
      BY <1>1, <2>7, <3>5 DEF ZipIndex, w
  <2> QED
    BY <1>1, <2>9, <2>10, <2>11 DEF ZipLive
<1>5. Live' => Live
  BY <1>1 DEF Live
<1> QED
  BY <1>3, <1>4, <1>5 DEF ZipInv

-----------------------------------------------------------------------------
LEMMA IndexGoesOn ==
    ASSUME NEW c \in Seq(Cell), NEW to \in Nat, to <= Len(c), NEW at \in Nat, at >= to,
           NEW w \in Seq(DeviceWrite), w # <<>>, IndexGoes(c, to, at, w)
    PROVE  IndexGoes(PutAt(c, at, Head(w).cell), to, at + 1, Tail(w))
<1> DEFINE x == Head(w).cell
           d == PutAt(c, at, x)
           L == Len(c)
           t == Tail(w)
           m == Len(w)
<1>1. /\ x \in Cell /\ x = w[1].cell /\ Len(t) = m - 1 /\ m \in Nat /\ m >= 1
      /\ \A i \in 1..(m - 1) : t[i] = w[i + 1]
  <2>1. /\ m >= 1 /\ Len(t) = m - 1 /\ \A i \in 1..(m - 1) : t[i] = w[i + 1]
        /\ Head(w) = w[1] /\ Head(w) \in DeviceWrite
    BY TailOfWrites
  <2>2. m \in Nat
    OBVIOUS
  <2>3. x \in Cell
    BY <2>1 DEF DeviceWrite
  <2> QED
    BY <2>1, <2>2, <2>3
<1> HIDE DEF x, t
<1>2. /\ d \in Seq(Cell) /\ Len(d) = (IF L >= at + 1 THEN L ELSE at + 1)
      /\ d[at + 1] = x
      /\ \A i \in 1..L : i # at + 1 => d[i] = c[i]
      /\ \A i \in 1..Len(d) : i > L /\ i # at + 1 => d[i] = Mark("zero")
  <2>1. x \in Cell
    BY <1>1
  <2>2. IsPutAt(PutAt(c, at, x), c, at, x)
    BY <2>1, PutAtDoes
  <2>3. IsPutAt(d, c, at, x)
    BY <2>2 DEF d
  <2> HIDE DEF d
  <2> QED
    BY <2>3 DEF IsPutAt, L
<1>3. L \in Nat /\ DOMAIN c = 1..L /\ (L = 0 <=> c = <<>>) /\ to <= L
  OBVIOUS
<1> HIDE DEF m, d, L
<1>4. Len(d) \in Nat /\ Len(d) >= at + 1 /\ Len(d) >= L /\ DOMAIN d = 1..Len(d) /\ d # <<>>
  <2>1. Len(d) >= at + 1 /\ Len(d) >= L /\ Len(d) \in Nat
    BY <1>2, <1>3
  <2>2. Len(d) # 0
    BY <2>1
  <2> QED
    BY <1>2, <2>1, <2>2
<1>5. CASE to < L /\ c[to + 1].what = "central" /\ at > to
  <2>1. to + 1 \in 1..L /\ to + 1 # at + 1 /\ to < Len(d) /\ at + 1 > to
    BY <1>3, <1>4, <1>5
  <2>2. d[to + 1].what = "central"
    BY <1>2, <1>5, <2>1
  <2>3. IndexGoes(d, to, at + 1, t)
    BY <2>1, <2>2 DEF IndexGoes
  <2> QED
    BY <2>3 DEF d, x, t
<1>6. CASE at = to /\ w[1].cell.what = "central"
  <2>1. d[to + 1].what = "central" /\ to < Len(d) /\ at + 1 > to
    BY <1>1, <1>2, <1>4, <1>6
  <2>2. IndexGoes(d, to, at + 1, t)
    BY <2>1 DEF IndexGoes
  <2> QED
    BY <2>2 DEF d, x, t
<1>7. CASE /\ to = 0 /\ NoCentral(c)
           /\ \A i \in 1..m : w[i].cell.what # "central"
           /\ IF c = <<>> THEN at = 0 /\ w[1].cell.what = "endsig"
              ELSE c[1].what = "endsig" /\ at >= 1
  <2>1. x.what # "central"
    <3>1. 1 \in 1..m
      BY <1>1
    <3> QED
      BY <1>1, <1>7, <3>1
  <2>2. \A i \in 1..(m - 1) : t[i].cell.what # "central"
    <3>1. \A i \in 1..(m - 1) : i + 1 \in 1..m
      BY <1>1
    <3> QED
      BY <1>1, <1>7, <3>1
  <2>3. NoCentral(d)
    <3>1. ASSUME NEW i \in 1..Len(d) PROVE d[i].what # "central"
      <4>1. i = at + 1 \/ (i # at + 1 /\ i \in 1..L) \/ (i # at + 1 /\ i > L)
        BY <1>3, <1>4
      <4>2. CASE i = at + 1
        BY <1>2, <2>1, <4>2
      <4>3. CASE i # at + 1 /\ i \in 1..L
        BY <1>2, <1>3, <1>7, <4>3 DEF NoCentral
      <4>4. CASE i # at + 1 /\ i > L
        BY <1>2, <4>4, ZeroCell
      <4> QED
        BY <4>1, <4>2, <4>3, <4>4
    <3> QED
      BY <1>4, <3>1 DEF NoCentral
  <2>4. d[1].what = "endsig"
    <3>1. CASE c = <<>>
      <4>1. at + 1 = 1
        BY <1>7, <3>1
      <4> QED
        BY <1>1, <1>2, <1>7, <3>1, <4>1
    <3>2. CASE c # <<>>
      <4>1. 1 \in 1..L /\ 1 # at + 1
        BY <1>3, <1>7, <3>2
      <4> QED
        BY <1>2, <1>7, <3>2, <4>1
    <3> QED
      BY <3>1, <3>2
  <2>5. at + 1 >= 1
    OBVIOUS
  <2>6. IndexGoes(d, to, at + 1, t)
    BY <1>1, <1>4, <1>7, <2>2, <2>3, <2>4, <2>5 DEF IndexGoes
  <2> QED
    BY <2>6 DEF d, x, t
<1> QED
  BY <1>5, <1>6, <1>7 DEF IndexGoes, L, m

LEMMA ZipPutsIndex ==
    ASSUME ArchiveAssumption, format = "zip", ZipInv, IInv, CentralCell
    PROVE  ZipInv'
<1> DEFINE x == Head(todo).cell
           D == OnDevice
<1>1. /\ stage = "central" /\ todo # <<>> /\ ~full /\ Put(x) /\ todo' = Tail(todo)
      /\ UNCHANGED <<format, mode, device, tree, list, end, stage, op, full, saved, log, settled, lost, moved>>
  BY DEF CentralCell
<1>2. mode # "closed"
  BY <1>1 DEF IInv, Device
<1>3. Live => ZipTypes /\ ZipEntries /\ (~lost => ZipIndex)
  BY DEF ZipInv, ZipLive
<1>4. ASSUME ~Live PROVE ZipInv'
  <2>1. ZipDisk'
    BY <1>1, <1>2, <1>4 DEF Live, ZipDisk
  <2>2. Shut' /\ ZipPlace'
    BY <1>1, <1>2 DEF Shut, ZipInv, ZipPlace
  <2>3. ~Live'
    BY <1>1, <1>4 DEF Live
  <2> QED
    BY <2>1, <2>2, <2>3 DEF ZipInv
<1>5. ASSUME Live PROVE ZipInv'
  <2>1. x \in Cell /\ Tail(todo) \in Seq(DeviceWrite) /\ x = todo[1].cell
        /\ todo \in Seq(DeviceWrite) /\ Len(Tail(todo)) = Len(todo) - 1
        /\ \A i \in 1..(Len(todo) - 1) : Tail(todo)[i] = todo[i + 1]
    BY <1>1, <1>3, <1>5, TailOfWrites DEF DeviceWrite, ZipTypes
  <2> HIDE DEF x
  <2>2. ZipDisk' /\ Shut' /\ ZipPlace' /\ pos' = pos + 1
        /\ OnDevice' = PutAt(D, pos, x) /\ (device' = "file" => file' # NoFile)
    BY <1>1, <1>2, <1>3, <1>5, <2>1, ZipPut
  <2> DEFINE d == PutAt(D, pos, x)
  <2>3. /\ D \in Seq(Cell) /\ list \in Seq(ListEntry)
        /\ pos \in Nat /\ end \in Nat /\ end <= Len(D) /\ log \in Seq(LogEntry)
        /\ (~moved => GoodTree(D, end, tree) /\ pos >= end)
    BY <1>1, <1>3, <1>5 DEF ZipTypes, ZipEntries
  <2> HIDE DEF D, d
  <2>4. d \in Seq(Cell) /\ end <= Len(d)
    <3>1. d \in Seq(Cell) /\ Len(d) = (IF Len(D) >= pos + 1 THEN Len(D) ELSE pos + 1)
      <4>1. x \in Cell /\ D \in Seq(Cell) /\ pos \in Nat
        BY <2>1, <2>3
      <4> QED
        BY <4>1, PutAtOK DEF d
    <3> DEFINE L == Len(D)
    <3>2. L \in Nat /\ end <= L
      BY <2>3
    <3> HIDE DEF L
    <3>3. end <= IF L >= pos + 1 THEN L ELSE pos + 1
      BY <2>3, <3>2
    <3> QED
      BY <3>1, <3>3 DEF L
  <2>5. OnDevice' = d
    BY <2>2 DEF d
  <2>6. ZipTypes'
    BY <1>1, <2>1, <2>2, <2>3, <2>4, <2>5 DEF ZipTypes
  <2>7. ZipEntries'
    <3>1. CASE moved
      BY <1>1, <3>1 DEF ZipEntries
    <3>2. CASE ~moved
      <4>1. pos >= end /\ GoodTree(D, end, tree) /\ end <= end
        BY <2>3, <3>2
      <4>2. Agrees(D, d, end)
        BY <2>1, <2>3, <4>1, PutAtAgrees DEF d
      <4>3. GoodTree(d, end, tree)
        BY <2>3, <2>4, <4>1, <4>2, TreeAgrees
      <4>4. pos + 1 >= end
        BY <2>3, <4>1
      <4> QED
        BY <1>1, <2>2, <2>5, <4>3, <4>4 DEF ZipEntries
    <3> QED
      BY <3>1, <3>2
  <2>8. ASSUME ~lost PROVE ZipIndex'
    <3> SUFFICES ASSUME ~moved PROVE ZipIndex'
      BY <1>1 DEF ZipIndex
    <3>1. pos >= end
      BY <2>3
    <3>2. /\ LocalsEnd(D, end) /\ IndexGoes(D, end, pos, todo)
          /\ \A i \in 1..Len(todo) : todo[i].cell.what = "central" => IsInPlace(D, end, todo[i].cell)
      BY <1>1, <1>3, <1>5, <2>8 DEF ZipIndex, D
    <3> DEFINE m == Len(todo)
    <3>3. m \in Nat /\ m >= 1
      BY <1>1, <2>1
    <3>4. x.what = "central" => IsInPlace(D, end, x)
      <4> HIDE DEF m
      <4>1. 1 \in 1..m
        BY <3>3
      <4> QED
        BY <2>1, <3>2, <4>1 DEF m
    <3>5. LocalsEnd(d, end)
      BY <2>1, <2>3, <3>1, <3>2, <3>4, LocalsPut DEF d
    <3>6. Agrees(D, d, end)
      BY <2>1, <2>3, <3>1, PutAtAgrees DEF d
    <3>7. \A i \in 1..Len(Tail(todo)) : Tail(todo)[i].cell.what = "central" => IsInPlace(d, end, Tail(todo)[i].cell)
      <4>1. ASSUME NEW i \in 1..(m - 1), Tail(todo)[i].cell.what = "central"
            PROVE  IsInPlace(d, end, Tail(todo)[i].cell)
        <5>1. Tail(todo)[i] = todo[i + 1]
          BY <2>1
        <5> HIDE DEF m
        <5>2. i + 1 \in 1..m
          BY <3>3
        <5>3. IsInPlace(D, end, todo[i + 1].cell)
          BY <3>2, <4>1, <5>1, <5>2 DEF m
        <5>4. IsInPlace(d, end, todo[i + 1].cell)
          BY <2>3, <2>4, <3>6, <5>3, AgreesPlace
        <5> QED
          BY <5>1, <5>4
      <4> QED
        BY <2>1, <4>1
    <3>8. IndexGoes(d, end, pos + 1, Tail(todo))
      BY <1>1, <2>1, <2>3, <3>1, <3>2, IndexGoesOn DEF d, x
    <3> QED
      BY <1>1, <2>2, <2>5, <3>5, <3>7, <3>8 DEF ZipIndex
  <2>9. ZipListed' /\ ZipWriting' /\ ZipWritten'
    BY <1>1 DEF ZipListed, ZipWriting, ZipWritten
  <2>10. ZipLive'
    BY <1>1, <2>6, <2>7, <2>8, <2>9 DEF ZipLive
  <2> QED
    BY <2>2, <2>10 DEF ZipInv
<1> QED
  BY <1>4, <1>5

-----------------------------------------------------------------------------
LEMMA ZipIndexFails ==
    ASSUME format = "zip", ZipInv, IInv, IndexFails
    PROVE  ZipInv'
<1>1. /\ stage = "central" /\ todo # <<>> /\ todo' = Tail(todo) /\ lost' = TRUE
      /\ UNCHANGED <<format, file, mode, device, work, pos, tree, list, end, stage, op, full, saved, log, settled, moved, touched>>
  BY DEF IndexFails
<1>2. mode # "closed"
  BY <1>1 DEF IInv, Device
<1>3. ZipDisk' /\ Shut' /\ ZipPlace'
  BY <1>1, <1>2 DEF ZipInv, ZipDisk, Shut, ZipPlace
<1>4. OnDevice' = OnDevice
  BY <1>1 DEF OnDevice, Cells
<1>5. ASSUME Live PROVE ZipLive'
  <2>1. ZipTypes /\ ZipEntries
    BY <1>5 DEF ZipInv, ZipLive
  <2>2. Tail(todo) \in Seq(DeviceWrite)
    BY <1>1, <2>1, TailOfWrites DEF ZipTypes
  <2>3. ZipTypes' /\ ZipEntries' /\ ZipListed' /\ ZipWriting'
    BY <1>1, <1>4, <2>1, <2>2 DEF ZipTypes, ZipEntries, ZipListed, ZipWriting
  <2> QED
    BY <1>1, <2>3 DEF ZipLive
<1>6. Live' => Live
  BY <1>1 DEF Live
<1> QED
  BY <1>3, <1>5, <1>6 DEF ZipInv

LEMMA GoneIsPlaced == ASSUME Gone PROVE ZipPlace'
BY DEF Gone, SessionOver, ZipPlace

LEMMA ZipNotSaved ==
    ASSUME format = "zip", ZipInv, NotSaved, Gone
    PROVE  ZipInv'
<1>1. ZipDisk'
  BY GoneIsShut DEF NotSaved, ZipInv, ZipDisk
<1> QED
  BY <1>1, GoneIsShut, GoneIsPlaced DEF ZipInv

LEMMA ZipTorn ==
    ASSUME format = "zip", ZipInv, Torn, Gone
    PROVE  ZipInv'
<1>1. ZipDisk'
  BY DEF Torn, ZipDisk
<1> QED
  BY <1>1, GoneIsShut, GoneIsPlaced DEF ZipInv

(* What is saved is whole, if the archive answers for it. *)
LEMMA ZipSaved ==
    ASSUME format = "zip", ZipInv, mode # "closed", NEW contents, Saved(contents), Gone,
           Live /\ Answers => contents \in Seq(Cell) /\ ZipWhole(contents)
    PROVE  ZipInv'
<1>1. file' = contents /\ saved' = log /\ (settled' => Live /\ Answers)
  BY DEF Saved, Live
<1>2. Live => log \in Seq(LogEntry)
  BY DEF ZipInv, ZipLive, ZipTypes
<1>3. ZipDisk'
  BY <1>1, <1>2 DEF ZipDisk
<1> QED
  BY <1>3, GoneIsShut, GoneIsPlaced DEF ZipInv

LEMMA ZipAnswers == ASSUME format = "zip", Answers PROVE ~lost /\ ~moved
BY DEF Answers

LEMMA IndexIsThere ==
    ASSUME NEW c, NEW to, NEW at, IndexGoes(c, to, at, <<>>)
    PROVE  CentralsAt(c, to)
BY DEF IndexGoes, CentralsAt

LEMMA ZipEnds ==
    ASSUME format = "zip", ZipInv, IInv, EndCentral
    PROVE  ZipInv'
<1>1. stage = "central" /\ todo = <<>> /\ Gone
      /\ IF device = "save" THEN Commit ELSE Saved(file)
  BY DEF EndCentral
<1>2. mode # "closed" /\ device \in {"save", "file"}
  BY <1>1 DEF IInv, Device, ZipInv, ZipPlace
<1>3. ASSUME Live, Answers PROVE OnDevice \in Seq(Cell) /\ ZipWhole(OnDevice) /\ (device = "file" => file # NoFile)
  <2>1. ZipTypes /\ ZipIndex /\ ~moved
    BY <1>3, ZipAnswers DEF ZipInv, ZipLive
  <2>2. LocalsEnd(OnDevice, end) /\ IndexGoes(OnDevice, end, pos, <<>>)
    BY <1>1, <2>1 DEF ZipIndex
  <2>3. CentralsAt(OnDevice, end)
    BY <2>2, IndexIsThere
  <2>4. end \in 0..Len(OnDevice)
    BY <2>2 DEF LocalsEnd
  <2> QED
    BY <2>1, <2>2, <2>3, <2>4 DEF ZipTypes, ZipWhole
<1>4. CASE device = "save"
  <2>1. OnDevice = work
    BY <1>4 DEF OnDevice
  <2>2. CASE saveError
    BY <1>1, <1>4, <2>2, ZipNotSaved DEF Commit
  <2>3. CASE Torn
    BY <1>1, <2>3, ZipTorn
  <2>4. CASE Saved(work)
    BY <1>1, <1>2, <1>3, <2>1, <2>4, ZipSaved
  <2> QED
    BY <1>1, <1>4, <2>2, <2>3, <2>4 DEF Commit
<1>5. CASE device = "file"
  <2>1. Saved(file)
    BY <1>1, <1>5
  <2>2. ASSUME Live, Answers PROVE file \in Seq(Cell) /\ ZipWhole(file)
    <3>1. OnDevice = file
      BY <1>3, <1>5, <2>2 DEF OnDevice, Cells
    <3> QED
      BY <1>3, <2>2, <3>1
  <2> QED
    BY <1>1, <1>2, <2>1, <2>2, ZipSaved
<1> QED
  BY <1>2, <1>4, <1>5

LEMMA ZipStays ==
    ASSUME format = "zip", ZipInv, UNCHANGED <<format, file, sessionVars, stage, op, todo, boundVars, historyVars>>,
           full => full' \/ stage = "idle"
    PROVE  ZipInv'
<1>1. OnDevice' = OnDevice
  BY DEF sessionVars, OnDevice, Cells
<1>2. /\ ZipDisk' = ZipDisk /\ Shut' = Shut /\ ZipPlace' = ZipPlace /\ Live' = Live
      /\ lost' = lost /\ format' = format
  BY DEF sessionVars, boundVars, historyVars, ZipDisk, Shut, ZipPlace, Live
<1>3. ZipTypes' = ZipTypes /\ ZipEntries' = ZipEntries /\ ZipListed' = ZipListed
  BY <1>1 DEF sessionVars, boundVars, historyVars, ZipTypes, ZipEntries, ZipListed
<1>4. ZipWritten' = ZipWritten /\ ZipIndex' = ZipIndex
  BY <1>1 DEF sessionVars, boundVars, historyVars, ZipWritten, ZipIndex
<1>5. ZipWriting => ZipWriting'
  <2>1. CASE stage = "idle"
    BY <2>1 DEF sessionVars, ZipWriting
  <2>2. CASE full => full'
    BY <1>1, <2>2 DEF sessionVars, boundVars, historyVars, ZipWriting
  <2> QED
    BY <2>1, <2>2
<1> QED
  BY <1>2, <1>3, <1>4, <1>5 DEF ZipInv, ZipLive

LEMMA ZipKept ==
    ASSUME format = "zip", IInv, writes \in Nat, ZipInv, Next
    PROVE  ZipInv'
<1>0. ArchiveAssumption
  BY ArchiveAssumption
<1>1. ASSUME Open PROVE ZipInv'
  <2>1. CASE OpenWriteOnly
    BY <2>1, ZipOpenW
  <2>2. ASSUME NEW m \in {"R", "RW"}, OpenFile(m) PROVE ZipInv'
    BY <1>0, <2>2, ZipOpenFile
  <2>3. ASSUME NEW m \in {"R", "RW"}, OpenTemp(m) PROVE ZipInv'
    BY <2>3 DEF OpenTemp
  <2> HIDE DEF ZipInv
  <2> QED
    BY <1>1, <2>1, <2>2, <2>3 DEF Open
<1>2. ASSUME NEW path \in WritePath, NEW kind \in Kind, NEW size \in Size,
             BeginWrite(path, kind, size) \/ WriteInMemory(path, kind, size)
      PROVE  ZipInv'
  BY <1>0, <1>2, ZipBegins DEF WriteInMemory
<1>3. ASSUME NEW kind \in Kind, RefuseWrite(kind) PROVE ZipInv'
  BY <1>3 DEF RefuseWrite
<1>4. ASSUME WriteCell \/ WriteFails \/ FinishWrite \/ PaddingFails PROVE ZipInv'
  <2>1. ~PaddingFails
    BY DEF PaddingFails, FinishTar
  <2> QED
    BY <1>0, <1>4, <2>1, ZipPuts, ZipFails, ZipFinishes
<1>5. ASSUME NEW path \in Path, ReadEntry(path) PROVE ZipInv'
  BY <1>5, ZipReads
<1>6. ASSUME Close PROVE ZipInv'
  <2>1. stage # "writeback"
    BY DEF ZipInv, ZipPlace
  <2>2. CASE CloseWithoutWriting
    BY <2>2, ZipNotSaved DEF CloseWithoutWriting
  <2>3. CASE CentralFails
    BY <2>3, ZipNotSaved DEF CentralFails
  <2>4. ~CloseSaveFile /\ ~BeginWriteBack /\ ~WriteBackCell /\ ~EndWriteBack /\ ~BeginIndex
    BY <2>1 DEF CloseSaveFile, BeginWriteBack, WriteBackCell, EndWriteBack, BeginIndex
  <2>5. CASE BeginCentral
    BY <1>0, <2>5, ZipBeginsIndex
  <2>6. CASE CentralCell
    BY <1>0, <2>6, ZipPutsIndex
  <2> QED
    BY <1>6, <2>2, <2>3, <2>4, <2>5, <2>6, ZipIndexFails, ZipEnds DEF Close
<1>7. ASSUME Crash PROVE ZipInv'
  BY <1>7, ZipNotSaved DEF Crash
<1>8. ASSUME DiskChanges PROVE ZipInv'
  BY <1>8, ZipStays DEF DiskChanges
<1> HIDE DEF ZipInv
<1> QED
  BY <1>1, <1>2, <1>3, <1>4, <1>5, <1>6, <1>7, <1>8, Zenon DEF Next

LEMMA ZipNextOK ==
    format = "zip" /\ IInv /\ writes \in Nat /\ ZipInv /\ [Next]_vars => ZipInv'
<1>1. format = "zip" /\ ZipInv /\ UNCHANGED vars => ZipInv'
  BY ZipStays DEF vars
<1>2. format = "zip" /\ IInv /\ writes \in Nat /\ ZipInv /\ Next => ZipInv'
  BY ZipKept
<1> QED
  BY <1>1, <1>2

-----------------------------------------------------------------------------
(* Sessions with either.                                                   *)

(* The format of an archive stays what it is, so that each step is one of  *)
(* a format's own.                                                         *)
PlacesInv == IInv /\ writes \in Nat /\ TarInv /\ ZipInv

LEMMA PlacesInit == Init => PlacesInv
<1>1. ArchiveAssumption
  BY ArchiveAssumption
<1>2. Init => writes \in Nat
  BY DEF Init
<1> QED
  BY <1>1, <1>2, InitOK, TarInit, ZipInit DEF PlacesInv

LEMMA PlacesStep == PlacesInv /\ [Next]_vars => PlacesInv'
<1> SUFFICES ASSUME PlacesInv, [Next]_vars PROVE PlacesInv'
  OBVIOUS
<1>1. IInv /\ writes \in Nat /\ TarInv /\ ZipInv
  BY DEF PlacesInv
<1>2. format' = format
  BY FormatStays
<1>3. IInv' /\ writes' \in Nat
  BY <1>1, StepOK, CountStep
<1>4. TarInv'
  <2>1. CASE format = "tar"
    BY <1>1, <2>1, TarNextOK
  <2>2. CASE format # "tar"
    BY <1>2, <2>2 DEF TarInv
  <2> QED
    BY <2>1, <2>2
<1>5. ZipInv'
  <2>1. CASE format = "zip"
    BY <1>1, <2>1, ZipNextOK
  <2>2. CASE format # "zip"
    BY <1>2, <2>2 DEF ZipInv
  <2> QED
    BY <2>1, <2>2
<1> QED
  BY <1>3, <1>4, <1>5 DEF PlacesInv

LEMMA PlacesEntries == PlacesInv => EntriesInPlace
<1> SUFFICES ASSUME PlacesInv, format \in {"tar", "zip"}, settled, stage = "central" => ~moved,
                    NEW path \in DOMAIN tree, tree[path].kind = "file"
             PROVE  DataAt(OnDevice, tree[path]) # Garbled
  BY DEF EntriesInPlace
<1>1. mode # "closed"
  <2>1. mode = "closed" => tree = EmptyTree
    BY DEF PlacesInv, TarInv, ZipInv, Shut
  <2>2. DOMAIN EmptyTree = {}
    BY DEF EmptyTree
  <2> QED
    BY <2>1, <2>2
<1>2. Live
  BY <1>1 DEF Live
<1>3. OnDevice \in Seq(Cell) /\ GoodTree(OnDevice, end, tree)
  <2>1. CASE format = "tar"
    <3>1. TarPlace /\ TarTypes /\ TarEntries
      BY <1>2, <2>1 DEF PlacesInv, TarInv, TarLive
    <3>2. OnDevice = work
      BY <3>1 DEF TarPlace, OnDevice
    <3> QED
      BY <3>1, <3>2 DEF TarTypes, TarEntries
  <2>2. CASE format = "zip"
    <3>1. ZipTypes /\ ZipEntries
      BY <1>2, <2>2 DEF PlacesInv, ZipInv, ZipLive
    <3> QED
      BY <3>1 DEF ZipTypes, ZipEntries
  <2> QED
    BY <2>1, <2>2
<1>4. GoodEntry(OnDevice, end, tree[path])
  BY <1>3 DEF GoodTree
<1> QED
  BY <1>3, <1>4, NotGarbled

(* In any number of sessions with tar and zip files, of which some may be  *)
(* other programs' work, and with a disk that may fill up in the middle of *)
(* an entry, every file that the directory of an open archive shows has    *)
(* all of one write's data where the directory says it is: KTar and KZip   *)
(* add entries only behind tarEnd and m_offset, KZip::closeArchive fills   *)
(* in sizes only in local headers and puts the index behind the last       *)
(* entry, and what openArchive makes of a file that was closed so is where *)
(* it is said to be.                                                       *)
THEOREM EntriesStay == Spec => []EntriesInPlace
<1>1. Init => PlacesInv
  BY PlacesInit
<1>2. PlacesInv /\ [Next]_vars => PlacesInv'
  BY PlacesStep
<1>3. PlacesInv => EntriesInPlace
  BY PlacesEntries
<1> QED
  BY <1>1, <1>2, <1>3, PTL DEF Spec
=============================================================================

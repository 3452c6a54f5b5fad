-------------------------------- MODULE Devices --------------------------------
(***************************************************************************)
(* A compressed file, as KTar uses it: it is written through a compression *)
(* device over a save file, and read through one over the file, in one     *)
(* session after the other.  The reader is fillTempFile, which reads until *)
(* it is told that there is no more, or anyone who seeks.                  *)
(***************************************************************************)
EXTENDS CompressionDevice

CONSTANTS
    Cells,          \* what is written, in this order
    InitialFile,    \* files there may be before
    WriteKind, ReadKind,
    DiskRoom,       \* how much of a new file may fit on the disk
    WriteSize, ReadSize, SeekPos,
    MaxSessions     \* bound

(* KNoneFilter is only read, and no data means to finish. *)
ASSUME DevicesAssumption ==
    /\ \A f \in InitialFile \cup {Cells} : f \in Seq(ToSet(f))
    /\ ToSet(Cells) \cap Mark = {}
    /\ WriteKind \subseteq Kind \ {"none"} /\ ReadKind \subseteq Kind
    /\ \A n \in DiskRoom \cup WriteSize \cup ReadSize \cup SeekPos : n \in Nat
    /\ 0 \notin WriteSize \cup ReadSize

VARIABLES
    file,           \* the file
    phase,          \* the session: "none", "writing", "closing", "reading"
    w, save,        \* the compression device and the save file
    written,        \* ghost: what the writer has written, all of it
    r,              \* the compression device of the reader
    total,          \* ghost: what has been read since the start
    outcome,        \* fillTempFile: "none", "filled", "failed"
    strayed,        \* ghost: the reader has been elsewhere since the start
    sessions

vars == <<file, phase, w, save, written, r, total, outcome, strayed, sessions>>
writerVars == <<w, save, written>>
readerVars == <<r, total, outcome, strayed>>

NoWriter == OpenFilter("none", FALSE)
NoSave == OpenSave(0)
NoReader == OpenReader("none")

Init ==
    /\ file \in InitialFile
    /\ phase = "none"
    /\ w = NoWriter /\ save = NoSave /\ written = <<>>
    /\ r = NoReader /\ total = <<>> /\ outcome = "none" /\ strayed = FALSE
    /\ sessions = 0

-----------------------------------------------------------------------------
(* KTar::createDevice. *)
OpenToWrite(kind, lazy, room) ==
    /\ phase = "none" /\ sessions < MaxSessions
    /\ phase' = "writing" /\ sessions' = sessions + 1
    /\ w' = OpenFilter(kind, lazy)
    /\ save' = OpenSave(room)
    /\ written' = <<>>
    /\ UNCHANGED <<file, readerVars>>

WriterGone ==
    /\ phase' = "none"
    /\ w' = NoWriter /\ save' = NoSave /\ written' = <<>>

(* KArchive::writeData gives up after a write that fails; what writes to   *)
(* the device itself goes on.                                              *)
Write(n, givesUp) ==
    LET data == SubSeq(Cells, Len(written) + 1, Len(written) + n)
        write == WriteData(w, save, data, FALSE)
    IN  /\ phase = "writing"
        /\ Len(written) + n <= Len(Cells)
        /\ IF givesUp
           THEN write.written # n /\ WriterGone
           ELSE /\ w' = write.w /\ save' = write.save
                /\ written' = written \o data
                /\ UNCHANGED phase
        /\ UNCHANGED <<file, readerVars, sessions>>

(* KCompressionDevice::close. *)
CloseDevice ==
    /\ phase = "writing"
    /\ phase' = "closing"
    /\ LET write == WriteData(w, save, <<>>, TRUE)
       IN  w' = write.w /\ save' = write.save
    /\ UNCHANGED <<file, written, readerVars, sessions>>

(* KArchive::close. *)
CommitSave(renamed) ==
    /\ phase = "closing"
    /\ file' = Commit(save, file, renamed).file
    /\ WriterGone
    /\ UNCHANGED <<readerVars, sessions>>

(* Room on the disk is made by someone else; the process dies. *)
DiskFreed ==
    /\ phase \in {"writing", "closing"} /\ save.room = 0
    /\ save' = [save EXCEPT !.room = Len(Cells) + Cap]
    /\ UNCHANGED <<file, phase, w, written, readerVars, sessions>>

Crash ==
    /\ phase \in {"writing", "closing"}
    /\ WriterGone
    /\ UNCHANGED <<file, readerVars, sessions>>

-----------------------------------------------------------------------------
OpenToRead(kind) ==
    /\ phase = "none" /\ sessions < MaxSessions
    /\ phase' = "reading" /\ sessions' = sessions + 1
    /\ r' = OpenReader(kind)
    /\ total' = <<>> /\ outcome' = "none" /\ strayed' = FALSE
    /\ UNCHANGED <<file, writerVars>>

(* A turn of the loop of fillTempFile. *)
Read(n) ==
    LET read == QRead(r, file, n, FALSE)
    IN  /\ phase = "reading" /\ outcome = "none"
        /\ IF AtEnd(r, file) THEN outcome' = "filled" /\ UNCHANGED <<r, total>>
           ELSE /\ r' = read.r
                /\ total' = total \o read.data
                /\ outcome' = CASE read.n < 0 -> "failed" [] read.n = 0 -> "filled" [] read.n > 0 -> "none"
        /\ UNCHANGED <<file, phase, strayed, writerVars, sessions>>

(* Seeking to the start; somewhere else. *)
ReadAgain ==
    /\ phase = "reading" /\ r.pos # 0
    /\ r' = Seek(r, file, 0).r
    /\ total' = <<>> /\ outcome' = "none" /\ strayed' = FALSE
    /\ UNCHANGED <<file, phase, writerVars, sessions>>

SeekTo(pos) ==
    LET seek == Seek(r, file, pos)
    IN  /\ phase = "reading" /\ outcome = "none" /\ pos # r.pos
        /\ r' = seek.r /\ strayed' = TRUE
        /\ outcome' = IF seek.ok THEN "none" ELSE "failed"
        /\ UNCHANGED <<file, phase, total, writerVars, sessions>>

CloseReader ==
    /\ phase = "reading"
    /\ phase' = "none"
    /\ r' = NoReader /\ total' = <<>> /\ outcome' = "none" /\ strayed' = FALSE
    /\ UNCHANGED <<file, writerVars, sessions>>

Next ==
    \/ \E kind \in WriteKind, lazy \in BOOLEAN, room \in DiskRoom : OpenToWrite(kind, lazy, room)
    \/ \E n \in WriteSize, givesUp \in BOOLEAN : Write(n, givesUp)
    \/ CloseDevice
    \/ \E renamed \in BOOLEAN : CommitSave(renamed)
    \/ DiskFreed
    \/ Crash
    \/ \E kind \in ReadKind : OpenToRead(kind)
    \/ \E n \in ReadSize : Read(n)
    \/ ReadAgain
    \/ \E pos \in SeekPos : SeekTo(pos)
    \/ CloseReader

Spec == Init /\ [][Next]_vars

-----------------------------------------------------------------------------
(* What there is to be read in a file by a device of a kind: the data of a *)
(* whole file of its format, with or without something behind it; of a     *)
(* file that is not gzip, all that is there.                               *)
EndMark(kind) == IF kind = "gzip" THEN "length" ELSE "end"

WholeLength(kind) ==
    LET Ends == {n \in 1..Len(file) : file[n] = EndMark(kind)}
    IN  IF Ends = {} THEN 0 ELSE Min(Ends)

CellsOf(f) ==
    LET picked[n \in 0..Len(f)] ==
          IF n = 0 THEN <<>>
          ELSE IF f[n] \in Mark THEN picked[n - 1] ELSE Append(picked[n - 1], f[n])
    IN  picked[Len(f)]

IsWhole(kind) ==
    LET whole == SubSeq(file, 1, WholeLength(kind))
    IN  kind # "none" /\ whole # <<>> /\ whole = Encoded(kind, CellsOf(whole))

Readable(kind) ==
    CASE kind = "none" \/ (kind = "gzip" /\ (file = <<>> \/ file[1] # "header")) -> file
      [] IsWhole(kind) -> CellsOf(SubSeq(file, 1, WholeLength(kind)))
      [] OTHER -> CellsOf(file)

TypeOK ==
    /\ phase \in {"none", "writing", "closing", "reading"}
    /\ ToSet(file) \subseteq ToSet(Cells) \cup Mark \cup UNION {ToSet(f) : f \in InitialFile}
    /\ Len(w.buffer) <= Cap /\ Len(save.held) <= Held /\ save.room >= 0
    /\ Len(r.in) <= Cap /\ Len(r.qbuffer) <= QCap
    /\ outcome \in {"none", "filled", "failed"}
    /\ sessions \in 0..MaxSessions

(* What a reader has been given since it was at the start is what there is *)
(* to be read, in order, however much it asked for at a time, whatever is  *)
(* wrong with the file and wherever it was before it went to the start.    *)
ReadsInOrder ==
    phase = "reading" /\ ~strayed => Len(total) = r.pos /\ IsPrefix(total, Readable(r.kind))

(* The end is the end of the data: a device that says so has given all of  *)
(* it, and a reader of a whole file does not take anything else for it.    *)
EndIsTheEnd ==
    phase = "reading" /\ ~strayed =>
        /\ AtEnd(r, file) => total = Readable(r.kind)
        /\ outcome = "filled" /\ IsWhole(r.kind) => total = Readable(r.kind)
        /\ IsWhole(r.kind) => outcome # "failed"

(* KArchive writes to a new file that takes the place of the old one, and  *)
(* what is there is all of what one of the writers has written, unless a   *)
(* save file was closed whose last data the disk had no room for.          *)
Saved == INSTANCE AtomicFile
    WITH Payload <- {SubSeq(Cells, 1, n) : n \in 0..Len(Cells)} \cup {CellsOf(f) : f \in InitialFile},
         content <- CellsOf(file),
         draft <- IF phase \in {"writing", "closing"} THEN <<written>> ELSE <<>>,
         fits <- Len(save.held) <= save.room

SavesAtomically == Saved!AtomicSpec
=============================================================================

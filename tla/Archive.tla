------------------------------- MODULE Archive -------------------------------
(***************************************************************************)
(* KArchive: one archive file, and the sessions in which programs open it, *)
(* read and write entries and close it.  What a format does is in modules  *)
(* TarFormat, ZipFormat, ArFormat and SevenZipFormat; here is when it is   *)
(* done, to which device, and what becomes of the file when the disk is    *)
(* full or the process dies.                                               *)
(*                                                                         *)
(* A file opened for writing only is a save file: it takes the place of    *)
(* the archive when it is committed (module SaveFile), all of it or, if    *)
(* the disk has become full, without what was still in memory.  A tar file *)
(* opened for reading is unpacked into a temporary file, and written back when it *)
(* is closed if it was opened for writing, too.  Other formats work on the *)
(* archive itself.                                                         *)
(*                                                                         *)
(* Every session has an archive object of its own, made with the name of   *)
(* the file.  A device that cannot take a write takes nothing of it.       *)
(***************************************************************************)
EXTENDS TarFormat, ZipFormat, ArFormat, SevenZipFormat

CONSTANTS
    NoFile,
    Format,         \* the formats there are: tar, zip, 7z, ar
    Foreign,        \* archives other programs made: records of format, cells, log
    WritePath,      \* paths that are written to
    Size,           \* and how many cells of data
    MaxWrites,      \* bound: writes of entries
    MaxSessions,    \* bound: sessions
    DiskFills,      \* whether the disk may be full
    Held            \* how many cells of a save file may still be in memory

(* What other programs made is whole. *)
ASSUME ArchiveAssumption ==
    /\ NoFile \notin Seq(Cell)
    /\ WritePath \subseteq Path /\ CutPath \in Path /\ Size \subseteq Nat /\ Held \in Nat
    /\ \A f \in Foreign :
          f.format \in {"tar", "zip"} =>
              /\ f.cells \in Seq(Cell)
              /\ f.log \in Seq([path : Path, kind : Kind, id : Nat])
              /\ f.format = "tar" => TarWhole(f.cells)
              /\ f.format = "zip" => ZipWhole(f.cells)

VARIABLES
    format,
    file,           \* the cells of the archive file, or NoFile
    mode,           \* closed, R, W, RW
    device,         \* none: the session's was aborted; save, temp, file
    work,           \* what is in the save file or the temporary file
    pos,            \* of the device
    tree,           \* rootDir
    list,           \* m_fileList
    end,            \* tarEnd, m_offset
    dirList,
    outData,        \* of a 7z archive
    saveError,      \* of the save file
    stage,          \* idle, write, central, writeback
    op,             \* the entry that is being written
    todo,           \* the writes to the device that are left to do
    full,           \* the disk is
    sessions,       \* bound: sessions so far
    writes,         \* bound: and writes
    saved,          \* history: what was written to the file, in order
    log,            \* history: the same, with what this session wrote
    settled,        \* history: and nothing it does not answer for befell the file
    lost,           \* history: a write failed in this session
    moved,          \* history: the device was read from since the last write
    touched         \* history: this session has changed the file

sessionVars == <<mode, device, work, pos, tree, list, end, dirList, outData,
                 saveError>>
boundVars   == <<sessions, writes>>
historyVars == <<saved, log, settled, lost, moved, touched>>
vars == <<format, file, sessionVars, stage, op, todo, full, boundVars, historyVars>>

NoOp == [path |-> <<>>, kind |-> "file", id |-> 0, size |-> 0]

TypeOK ==
    /\ format \in Format
    /\ file = NoFile \/ \A i \in DOMAIN file : file[i].what \in What
    /\ mode \in {"closed", "R", "W", "RW"}
    /\ device \in {"none", "save", "temp", "file"}
    /\ \A i \in DOMAIN work : work[i].what \in What
    /\ \A i \in DOMAIN outData : outData[i].what = "data"
    /\ pos \in Nat /\ end \in Nat
    /\ DOMAIN tree \subseteq Path
    /\ \A p \in DOMAIN tree : Len(p) = 2 => IsDir(tree, Front(p))
    /\ \A i \in DOMAIN list : Central(list[i]) \in Cell
    /\ dirList \subseteq Path
    /\ saveError \in BOOLEAN /\ full \in BOOLEAN
    /\ stage \in {"idle", "write", "central", "writeback"}
    /\ stage # "write" => op = NoOp
    /\ stage # "idle" => mode \in {"W", "RW"}
    /\ device = "save" => mode = "W"
    /\ mode = "closed" => stage = "idle"

Init ==
    /\ \/ /\ format \in Format \ {"ar"}
          /\ file = NoFile
          /\ saved = <<>>
       \/ \E f \in Foreign : f.format \in Format /\ format = f.format /\ file = f.cells /\ saved = f.log
    /\ mode = "closed"
    /\ device = "none"
    /\ work = <<>>
    /\ pos = 0
    /\ tree = EmptyTree
    /\ list = <<>>
    /\ end = 0
    /\ dirList = {}
    /\ outData = <<>>
    /\ saveError = FALSE
    /\ stage = "idle"
    /\ op = NoOp
    /\ todo = <<>>
    /\ full = FALSE
    /\ sessions = 0
    /\ writes = 0
    /\ log = <<>>
    /\ settled = TRUE
    /\ lost = FALSE
    /\ moved = FALSE
    /\ touched = FALSE

-----------------------------------------------------------------------------
Cells == IF file = NoFile THEN <<>> ELSE file
OnDevice == IF device = "file" THEN Cells ELSE work

(* What openArchive makes of the cells of a device: what it returns, the   *)
(* directory, the list, the place to write to, where it stopped, and where *)
(* the entries have their data.                                            *)
Opened(cells) ==
    CASE format = "tar" ->
            LET scan == TarScan(cells)
            IN  [ok |-> scan.ok, tree |-> TarTree(scan.entries), list |-> <<>>,
                 end |-> scan.end, pos |-> scan.end, data |-> cells]
      [] format = "zip" ->
            LET scan == ZipScan(cells)
            IN  [ok |-> scan.ok, tree |-> ZipTree(scan.list), list |-> FileList(scan.list),
                 end |-> scan.offset, pos |-> scan.pos, data |-> cells]
      [] format = "ar" ->
            LET scan == ArScan(cells)
            IN  [ok |-> scan.ok, tree |-> ArTree(scan.entries), list |-> <<>>,
                 end |-> 0, pos |-> Len(cells), data |-> cells]
      [] format = "7z" ->
            LET scan == SevenScan(cells)
            IN  [ok |-> scan.ok, tree |-> SevenTree(scan.items, scan.outData), list |-> <<>>,
                 end |-> 0, pos |-> Len(cells), data |-> scan.outData]

Fresh == [tree |-> EmptyTree, list |-> <<>>, end |-> 0, pos |-> 0, data |-> <<>>]

OpenWith(m, d, o) ==
    /\ mode' = m
    /\ device' = d
    /\ tree' = o.tree
    /\ list' = o.list
    /\ end' = o.end
    /\ pos' = o.pos
    /\ dirList' = {}
    /\ outData' = IF format = "7z" THEN o.data ELSE <<>>
    /\ saveError' = FALSE
    /\ sessions' = sessions + 1
    /\ moved' = FALSE

CanOpen == mode = "closed" /\ sessions < MaxSessions

OpenWriteOnly ==
    /\ CanOpen
    /\ OpenWith("W", "save", Fresh)
    /\ work' = <<>>
    /\ log' = <<>>
    /\ lost' = FALSE
    /\ touched' = FALSE
    /\ UNCHANGED <<format, file, stage, op, todo, full, writes, saved, settled>>

(* The file itself, which is made if it is opened to be written to.  When  *)
(* open returns false the archive is open all the same, for the mode was   *)
(* set before.                                                             *)
OpenFile(m) ==
    /\ CanOpen
    /\ format # "tar"
    /\ m = "RW" \/ file # NoFile
    /\ OpenWith(m, "file", Opened(Cells))
    /\ file' = Cells
    /\ touched' = (file = NoFile)
    /\ lost' = FALSE
    /\ log' = saved
    /\ UNCHANGED <<format, work, stage, op, todo, full, writes, saved, settled>>

(* fillTempFile: there may be nothing to unpack, and the disk may be full. *)
OpenTemp(m) ==
    /\ CanOpen
    /\ format = "tar"
    /\ \E n \in 0..Len(Cells) :
          LET filled == SubSeq(Cells, 1, n)
              ok == file # NoFile /\ n = Len(Cells)
          IN  /\ ok \/ file = NoFile \/ full
              /\ work' = filled
              /\ OpenWith(m, "temp",
                    IF ok THEN Opened(filled) ELSE [Fresh EXCEPT !.pos = n])
              /\ lost' = (n < Len(Cells))
    /\ log' = saved
    /\ touched' = FALSE
    /\ UNCHANGED <<format, file, stage, op, todo, full, writes, saved, settled>>

Open == OpenWriteOnly \/ \E m \in {"R", "RW"} : OpenFile(m) \/ OpenTemp(m)

-----------------------------------------------------------------------------
(* Writing an entry is a sequence of writes to the device, each with what  *)
(* it means when the device does not take it: nothing (ignore), that the   *)
(* entry is given up (fail), or the whole archive, too (abort).            *)
Writes(cells, otherwise) == [i \in 1..Len(cells) |-> [cell |-> cells[i], otherwise |-> otherwise]]
Nothing(otherwise) == <<[cell |-> Mark("zero"), otherwise |-> otherwise]>>
(* KTar::doPrepareWriting, KArchive::writeData and the padding, whose last *)
(* cell is the data's; doWriteDir and doWriteSymLink.                      *)
TarWrites(e) ==
    LET header == <<Header(e.path, e.kind, e.id, e.size)>>
    IN  Writes(LongLink(e.path), "ignore") \o
        CASE e.kind = "dir"  -> Writes(header, "ignore")
          [] e.kind = "link" -> Writes(header, "fail")
          [] e.kind = "file" -> Writes(header, "abort") \o Writes(DataCells(e.id, e.size), "abort")

(* KZip: what the compression holds back is written when the entry is      *)
(* finished, and that is not checked.                                      *)
ZipWrites(e, heldBack) ==
    LET local == <<Local(e.path, e.kind, e.id)>>
    IN  IF e.kind = "link"
        THEN Writes(local \o DataCells(e.id, e.size), "fail")
        ELSE Writes(local, "abort")
                \o Writes(DataCells(e.id, e.size), IF heldBack THEN "ignore" ELSE "fail")

(* Faulty: the device is not taken to the end of the entries. *)
FaultyZipPrepare(e) ==
    /\ UNCHANGED pos
    /\ list' = Append(WithoutName(list, e.path, e.kind), FileOf(e.path, e.kind, e.id, pos))
    /\ tree' = IF e.kind = "dir" THEN FindOrCreate(tree, e.path)
               ELSE Insert(tree, e.path, FileEntry("file", pos + 1, 0, e.id))

(* Only files of zip archives are entered in the directory and the list.   *)
(* A directory's entry has no name, so that only its path is made.         *)
ZipPrepare(e) ==
    /\ pos' = end
    /\ list' = Append(WithoutName(list, e.path, e.kind), FileOf(e.path, e.kind, e.id, end))
    /\ tree' = IF e.kind = "dir" THEN FindOrCreate(tree, e.path)
               ELSE Insert(tree, e.path, FileEntry("file", end + 1, 0, e.id))

CanWrite == mode \in {"W", "RW"} /\ stage = "idle" /\ device # "none" /\ writes < MaxWrites

SizeOf(kind, size) == IF kind = "file" THEN size ELSE IF kind = "link" /\ format = "zip" THEN 1 ELSE 0

Contents(e) == IF e.kind = "file" /\ e.size = 0 THEN Empty ELSE e.id

(* writeFile, addLocalFile, writeDir, writeSymLink. *)
BeginWrite(path, kind, size) ==
    LET e == [path |-> path, kind |-> kind, id |-> writes + 1, size |-> SizeOf(kind, size)]
    IN  /\ CanWrite
        /\ format \in {"tar", "zip"}
        /\ ~(format = "tar" /\ kind = "dir" /\ path \in dirList)
        /\ stage' = "write"
        /\ op' = e
        /\ moved' = FALSE
        /\ \/ /\ format = "tar"
              /\ todo' = TarWrites(e)
              /\ pos' = IF mode = "RW" THEN end ELSE pos
              /\ UNCHANGED <<tree, list>>
           \/ /\ format = "zip"
              /\ \E heldBack \in BOOLEAN : todo' = ZipWrites(e, heldBack)
              /\ ZipPrepare(e)
        /\ writes' = writes + 1
        /\ log' = Append(log, [path |-> path, kind |-> kind, id |-> Contents(e)])
        /\ UNCHANGED <<format, file, mode, device, work, end, dirList, outData, saveError, full, sessions,
                       saved, settled, lost, touched>>

(* Entries of a 7z archive are written to memory.  A file that is there    *)
(* already is refused; if it has no data the process dies.                 *)
WriteInMemory(path, kind, size) ==
    LET e == [path |-> path, kind |-> kind, id |-> writes + 1, size |-> SizeOf(kind, size)]
    IN  /\ CanWrite
        /\ format = "7z"
        /\ \E chunked \in BOOLEAN :
              LET with == WithEntry(tree, outData, e, chunked)
              IN  /\ with.ok \/ e.size > 0
                  /\ tree' = with.tree
                  /\ outData' = with.outData
                  /\ log' = IF with.ok
                            THEN Append(log, [path |-> path, kind |-> kind, id |-> Contents(e)])
                            ELSE log
        /\ writes' = writes + 1
        /\ UNCHANGED <<format, file, mode, device, work, pos, list, end, dirList, saveError, stage,
                       op, todo, full, sessions, saved, settled, lost, moved, touched>>

(* abortWriting: only a save file is given up. *)
Abort == device' = IF device = "save" THEN "none" ELSE device

(* An ar archive refuses every entry; a file's refusal aborts. *)
RefuseWrite(kind) ==
    /\ CanWrite
    /\ format = "ar"
    /\ IF kind = "file" THEN Abort ELSE UNCHANGED device
    /\ writes' = writes + 1
    /\ UNCHANGED <<format, file, mode, work, pos, tree, list, end, dirList, outData, saveError, stage, op,
                   todo, full, sessions, historyVars>>

Put(cell) ==
    /\ IF device = "file"
       THEN file' = PutAt(file, pos, cell) /\ touched' = TRUE /\ UNCHANGED work
       ELSE work' = PutAt(work, pos, cell) /\ UNCHANGED <<file, touched>>
    /\ pos' = pos + 1

(* One write to the device, which takes it, ... *)
WriteCell ==
    /\ stage = "write"
    /\ todo # <<>>
    /\ ~full
    /\ Put(Head(todo).cell)
    /\ todo' = Tail(todo)
    /\ UNCHANGED <<format, mode, device, tree, list, end, dirList, outData, saveError, stage, op, full,
                   boundVars, saved, log, settled, lost, moved>>

(* A link's position is recorded whether or not its header was written. *)
EndAfterFailure == IF format = "tar" /\ op.kind = "link" /\ mode = "RW" THEN pos ELSE end

(* ... or not. *)
WriteFails ==
    /\ stage = "write"
    /\ todo # <<>>
    /\ full
    /\ saveError' = (saveError \/ device = "save")
    /\ \/ /\ Head(todo).otherwise = "ignore"
          /\ todo' = Tail(todo)
          /\ UNCHANGED <<device, stage, op, end>>
       \/ /\ Head(todo).otherwise \in {"fail", "abort"}
          /\ IF Head(todo).otherwise = "abort" THEN Abort ELSE UNCHANGED device
          /\ todo' = <<>>
          /\ stage' = "idle"
          /\ op' = NoOp
          /\ end' = EndAfterFailure
    /\ lost' = TRUE
    /\ UNCHANGED <<format, file, mode, work, pos, tree, list, dirList, outData, full, boundVars,
                   saved, log, settled, moved, touched>>

(* doFinishWriting, and the end of doWriteDir and doWriteSymLink. *)
FinishTar ==
    /\ format = "tar"
    /\ end' = IF mode = "RW" THEN pos ELSE end
    /\ dirList' = IF op.kind = "dir" THEN dirList \cup {op.path} ELSE dirList
    /\ UNCHANGED <<tree, list>>

FinishZip ==
    LET n == Len(list)
        size == pos - list[n].start - 1
    IN  /\ format = "zip"
        /\ end' = pos
        /\ list' = [list EXCEPT ![n].size = size]
        /\ tree' = IF op.kind = "dir" THEN tree ELSE [tree EXCEPT ![op.path].size = size]
        /\ UNCHANGED dirList

FinishWrite ==
    /\ stage = "write"
    /\ todo = <<>>
    /\ FinishTar \/ FinishZip
    /\ stage' = "idle"
    /\ op' = NoOp
    /\ UNCHANGED <<format, file, mode, device, work, pos, outData, saveError, todo, full,
                   boundVars, historyVars>>

(* The padding of a tar file's last block is not taken. *)
PaddingFails ==
    /\ stage = "write"
    /\ todo = <<>>
    /\ full
    /\ op.kind = "file" /\ op.size > 0
    /\ FinishTar
    /\ saveError' = (saveError \/ device = "save")
    /\ stage' = "idle"
    /\ op' = NoOp
    /\ lost' = TRUE
    /\ UNCHANGED <<format, file, mode, device, work, pos, outData, todo, full, boundVars,
                   saved, log, settled, moved, touched>>

(* KArchiveFile::data and copyTo: the device is left behind the data; one  *)
(* that is only for writing is moved to it, and reads nothing.  A 7z       *)
(* archive's entries are read from memory.                                 *)
ReadEntry(path) ==
    /\ mode # "closed" /\ stage = "idle" /\ device # "none"
    /\ format # "7z"
    /\ Has(tree, path) /\ tree[path].kind = "file"
    /\ pos' = tree[path].pos + (IF mode = "W" THEN 0 ELSE tree[path].size)
    /\ moved' = TRUE
    /\ UNCHANGED <<format, file, mode, device, work, tree, list, end, dirList, outData, saveError, stage, op,
                   todo, full, boundVars, saved, log, settled, lost, touched>>

-----------------------------------------------------------------------------
(* The object is gone, or may be opened again. *)
SessionOver ==
    /\ mode' = "closed"
    /\ device' = "none"
    /\ work' = <<>>
    /\ pos' = 0
    /\ tree' = EmptyTree
    /\ list' = <<>>
    /\ end' = 0
    /\ dirList' = {}
    /\ outData' = <<>>
    /\ saveError' = FALSE
    /\ stage' = "idle"
    /\ op' = NoOp
    /\ todo' = <<>>
    /\ log' = <<>>
    /\ lost' = FALSE
    /\ moved' = FALSE
    /\ touched' = FALSE

(* Write j hides what write i has written: an entry of the same name, or a *)
(* file in the way.  A directory hides what was written to it before, but  *)
(* not in a zip archive.                                                   *)
Hides(l, j, i) ==
    /\ i < j
    /\ \/ l[j].path = l[i].path
       \/ IsAbove(l[i].path, l[j].path)
       \/ IsAbove(l[j].path, l[i].path) /\ (format # "zip" \/ l[j].kind # "dir")

(* The archive answers for a session that wrote nothing or lost nothing.   *)
(* What is added behind a tar file's end mark is not seen; and what is     *)
(* read after the last write is where a zip file's index goes.  In a 7z    *)
(* archive nothing may be written over, and no file may be empty.          *)
Answers ==
    \/ mode = "RW" /\ log = saved /\ ~lost /\ ~moved
    \/ /\ ~lost
       /\ format = "tar" => \A i \in DOMAIN work : work[i].what # "zero"
       /\ format = "zip" => ~moved
       /\ format = "7z" =>
             \A i, j \in DOMAIN log : ~Hides(log, j, i) /\ log[i].id # Empty

(* close returned true, and the file has what was written to it. *)
Saved(contents) ==
    /\ file' = contents
    /\ saved' = log
    /\ settled' = ((settled \/ mode = "W") /\ Answers)

NotSaved ==
    /\ UNCHANGED <<file, saved>>
    /\ settled' = (settled /\ ~touched)

Closing == mode # "closed" /\ stage = "idle"

Gone == SessionOver /\ UNCHANGED <<format, full, boundVars>>

(* Nothing is left to be written: an archive opened for reading, one whose *)
(* writing was aborted, and ar archives.                                   *)
CloseWithoutWriting ==
    /\ Closing
    /\ device = "none" \/ mode = "R" \/ (format = "ar" /\ mode = "RW")
    /\ NotSaved
    /\ Gone

(* QSaveFile::commit closes the temporary file, which writes what is still *)
(* in memory, and looks at nothing before it renames it: with a full disk  *)
(* the end of the new archive is missing.  (Of a zip file that was read    *)
(* from while it was written the index may be in the middle; what is then  *)
(* behind it is taken as missing, too.)                                    *)
Torn ==
    /\ full
    /\ \E n \in 0..(Len(work) - 1) : n + Held >= Len(work) /\ file' = SubSeq(work, 1, n)
    /\ saved' = log
    /\ settled' = FALSE

FaultyCommit == Saved(work)         \* faulty: commits after a failed write

Commit ==
    \/ saveError /\ NotSaved
    \/ ~saveError /\ (Saved(work) \/ Torn)

CloseSaveFile ==
    /\ Closing
    /\ device = "save"
    /\ format \in {"tar", "ar"}
    /\ Commit
    /\ Gone

(* writeBackTempFile empties the archive first. *)
BeginWriteBack ==
    /\ Closing
    /\ format = "tar" /\ mode = "RW"
    /\ file' = <<>>
    /\ touched' = TRUE
    /\ stage' = "writeback"
    /\ todo' = Writes(work, "ignore")
    /\ UNCHANGED <<format, sessionVars, op, full, boundVars, saved, log, settled, lost, moved>>

(* After a write that failed the compressed data makes no sense. *)
WriteBackCell ==
    /\ stage = "writeback"
    /\ todo # <<>>
    /\ IF full \/ lost THEN UNCHANGED file ELSE file' = Append(file, Head(todo).cell)
    /\ lost' = (lost \/ full)
    /\ todo' = Tail(todo)
    /\ UNCHANGED <<format, sessionVars, stage, op, full, boundVars, saved, log, settled,
                   moved, touched>>

EndWriteBack ==
    /\ stage = "writeback"
    /\ todo = <<>>
    /\ Saved(file)
    /\ Gone

(* KZip::closeArchive: the sizes go where the local headers are, the       *)
(* central headers where the device happens to be.                         *)
BeginCentral ==
    /\ Closing
    /\ format = "zip" /\ mode \in {"W", "RW"} /\ device # "none"
    /\ IF device = "file"
       THEN file' = FillIn(Cells, list) /\ UNCHANGED work
       ELSE work' = FillIn(work, list) /\ UNCHANGED file
    /\ touched' = (device = "file" \/ touched)
    /\ stage' = "central"
    /\ todo' = Writes([i \in 1..Len(list) |-> Central(list[i])] \o EndRecord, "fail")
    /\ UNCHANGED <<format, mode, device, pos, tree, list, end, dirList, outData, saveError, op, full,
                   boundVars, saved, log, settled, lost, moved>>

(* K7Zip::closeArchive writes over the archive and checks nothing. *)
BeginIndex ==
    /\ Closing
    /\ format = "7z" /\ mode \in {"W", "RW"} /\ device # "none"
    /\ stage' = "central"
    /\ pos' = 0
    /\ todo' = Writes(SevenCells(tree, outData), "ignore")
    /\ UNCHANGED <<format, file, mode, device, work, tree, list, end, dirList, outData, saveError,
                   op, full, boundVars, historyVars>>

CentralCell ==
    /\ stage = "central"
    /\ todo # <<>>
    /\ ~full
    /\ Put(Head(todo).cell)
    /\ todo' = Tail(todo)
    /\ UNCHANGED <<format, mode, device, tree, list, end, dirList, outData, saveError, stage, op, full,
                   boundVars, saved, log, settled, lost, moved>>

CentralFails ==
    /\ stage = "central"
    /\ todo # <<>>
    /\ full
    /\ Head(todo).otherwise = "fail"
    /\ NotSaved
    /\ Gone

IndexFails ==
    /\ stage = "central"
    /\ todo # <<>>
    /\ full
    /\ Head(todo).otherwise = "ignore"
    /\ todo' = Tail(todo)
    /\ saveError' = (saveError \/ device = "save")
    /\ lost' = TRUE
    /\ UNCHANGED <<format, file, mode, device, work, pos, tree, list, end, dirList, outData, stage,
                   op, full, boundVars, saved, log, settled, moved, touched>>

EndCentral ==
    /\ stage = "central"
    /\ todo = <<>>
    /\ IF device = "save" THEN Commit ELSE Saved(file)
    /\ Gone

Close ==
    \/ CloseWithoutWriting \/ CloseSaveFile
    \/ BeginWriteBack \/ WriteBackCell \/ EndWriteBack
    \/ BeginCentral \/ BeginIndex \/ CentralCell \/ CentralFails \/ IndexFails \/ EndCentral

(* The process dies, for one because it writes to an aborted archive. *)
Crash ==
    /\ mode # "closed"
    /\ NotSaved
    /\ Gone

-----------------------------------------------------------------------------
(* Room is not made while an entry is written, or the archive closed. *)
DiskChanges ==
    /\ DiskFills
    /\ full' = ~full
    /\ full => stage = "idle"
    /\ UNCHANGED <<format, file, sessionVars, stage, op, todo, boundVars, historyVars>>

Next ==
    \/ Open
    \/ \E path \in WritePath, kind \in Kind, size \in Size :
          BeginWrite(path, kind, size) \/ WriteInMemory(path, kind, size)
    \/ \E kind \in Kind : RefuseWrite(kind)
    \/ WriteCell \/ WriteFails \/ FinishWrite \/ PaddingFails
    \/ \E path \in Path : ReadEntry(path)
    \/ Close
    \/ Crash
    \/ DiskChanges

Spec == Init /\ [][Next]_vars

-----------------------------------------------------------------------------
(* The directories of a zip archive are forgotten when it is added to. *)
HidesForGood(l, j, i) == Hides(l, j, i) /\ ~(format = "zip" /\ l[j].kind = "dir")

IsOf(item, w) == item[1] = w.path /\ item[2] = w.kind

Content == CopyTo(Opened(Cells).tree, Opened(Cells).data)

ReadsBackAs(l) ==
    /\ Cells # <<>> => Opened(Cells).ok
    /\ \A i \in DOMAIN l :
          (l[i].kind # "dir" /\ \A j \in DOMAIN l : ~Hides(l, j, i))
             => <<l[i].path, l[i].kind, l[i].id>> \in Content
    /\ \A item \in Content :
          \E i \in DOMAIN l : IsOf(item, l[i]) /\ \A j \in DOMAIN l : ~HidesForGood(l, j, i)

(* What is written to an archive, in any number of sessions, is what       *)
(* extracting it gives: every file and link that nothing later hides, with *)
(* the data it was given, and nothing else; as long as the archive answers *)
(* for what is in it (Answers) and its commit was not torn (Torn).         *)
ReadsBack == mode = "closed" /\ settled /\ file # NoFile => ReadsBackAs(saved)

(* While an archive is written to, the entries that its directory shows    *)
(* still have their data where the directory says: what is added goes to   *)
(* places no entry uses.                                                   *)
EntriesInPlace ==
    format \in {"tar", "zip"} /\ settled /\ (stage = "central" => ~moved)
        => \A path \in DOMAIN tree :
              tree[path].kind = "file" => DataAt(OnDevice, tree[path]) # Garbled

(* An archive opened for writing only stays what it was until it is        *)
(* closed, and then is replaced in one step, by contents of which every    *)
(* write was taken: by all of them; or, if the disk is full when the save  *)
(* file is committed, by their beginning.                                  *)
WriteOnlyIsAtomic ==
    [][mode = "W" /\ file' # file =>
          /\ mode' = "closed" /\ ~lost
          /\ \/ file' = work
             \/ full /\ \E n \in 0..Len(work) : file' = SubSeq(work, 1, n)]_vars
=============================================================================

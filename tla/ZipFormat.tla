------------------------------ MODULE ZipFormat ------------------------------
(***************************************************************************)
(* KZip: a local header and the data of every entry, then a central header *)
(* for each of them and an end record.  The sizes are not known when a     *)
(* local header is written: they are filled in when the archive is closed. *)
(* Opening goes through the local headers, too, since the length of an     *)
(* extra field and the target of a link are only there.                    *)
(*                                                                         *)
(* Compressing data does not change its length here, and no data looks     *)
(* like a header.                                                          *)
(***************************************************************************)
EXTENDS ArchiveTree

Unknown == -1       \* the size in a local header that was not filled in

(* doPrepareWriting.  A directory is an entry whose name ends with "/". *)
Local(path, kind, id) ==
    [what |-> "local", path |-> path, kind |-> kind, id |-> id, size |-> Unknown, start |-> 0]

(* An element of m_fileList, a KZipFileEntry. *)
FileOf(path, kind, id, start) ==
    [path |-> path, kind |-> kind, id |-> id, size |-> 0, start |-> start]

Central(file) ==
    [what |-> "central", path |-> file.path, kind |-> file.kind, id |-> file.id,
     size |-> file.size, start |-> file.start]

EndRecord == <<Mark("endsig"), Mark("endrest")>>

(* Files that have the name of what is to be written leave the list; their *)
(* data stays.                                                             *)
SameName(file, path, kind) == file.path = path /\ (file.kind = "dir") = (kind = "dir")
WithoutName(list, path, kind) ==
    Only(list, {n \in DOMAIN list : ~SameName(list[n], path, kind)})

(* closeArchive fills in what it knows by now, wherever the header is. *)
Fill(cells, file) ==
    LET at == file.start + 1
    IN  IF at \in DOMAIN cells /\ cells[at].what = "local"
        THEN [cells EXCEPT ![at].size = file.size]
        ELSE PutAt(cells, file.start, Mark("zero"))

FillIn(cells, list) ==
    LET filled[n \in 0..Len(list)] == IF n = 0 THEN cells ELSE Fill(filled[n - 1], list[n])
    IN  filled[Len(list)]

-----------------------------------------------------------------------------
(* openArchive: where the next header is after the local header at pos.  A *)
(* size larger than the device is not believed.                            *)
AfterLocal(cells, pos) ==
    LET size == cells[pos + 1].size
    IN  IF size = Unknown \/ size > Len(cells)
        THEN NextOf(cells, pos + 1, {"local", "central"})
        ELSE pos + 1 + size

NoLink == 0

(* What a local header tells of a link of its name. *)
GuessedLink(cells, pos) ==
    IF cells[pos + 1].kind = "link" /\ cells[pos + 1].size > 0 /\ pos + 2 \in DOMAIN cells
    THEN cells[pos + 2].id ELSE NoLink

(* What a file starts with is skipped. *)
FirstHeader(cells) ==
    IF cells = <<>> \/ cells[1].what \in {"endsig", "local", "central"} THEN 0
    ELSE NextOf(cells, 0, {"local"})

(* Where the loop over the headers ends, and a header met before that. *)
Stop(ok, pos) == [ok |-> ok, at |-> <<>>, pos |-> pos]
Met(pos, rest) == [rest EXCEPT !.at = <<pos>> \o @]

(* The loop of openArchive, from pos on: the headers it met, whether it    *)
(* got to an end record, and where it stopped.                             *)
Headers(cells) ==
    LET Scan[pos \in Int] ==
          IF pos < 0 \/ pos >= Len(cells) THEN Stop(FALSE, Len(cells))
          ELSE IF cells[pos + 1].what = "local" THEN Met(pos, Scan[AfterLocal(cells, pos)])
          ELSE IF cells[pos + 1].what = "central" THEN Met(pos, Scan[pos + 1])
          ELSE Stop(cells[pos + 1].what = "endsig", pos + 1)
    IN  Scan[FirstHeader(cells)]

(* What a central header tells, and the target of a link from the local    *)
(* header of that name that was met last.                                  *)
FileAt(cells, at, n) ==
    LET cell == cells[at[n] + 1]
        locals == {m \in 1..(n - 1) : /\ cells[at[m] + 1].what = "local"
                                      /\ SameName(cells[at[m] + 1], cell.path, cell.kind)}
        target == IF locals = {} THEN NoLink ELSE GuessedLink(cells, at[Max(locals)])
    IN  [path |-> cell.path, kind |-> cell.kind, size |-> cell.size, start |-> cell.start,
         id |-> IF cell.kind = "link" THEN target ELSE cell.id]

ZipScan(cells) ==
    LET headers == Headers(cells)
        files == [n \in DOMAIN headers.at |-> FileAt(cells, headers.at, n)]
        centrals == {n \in DOMAIN headers.at : cells[headers.at[n] + 1].what = "central"}
    IN  [ok |-> headers.ok, pos |-> headers.pos,
         list |-> Only(files, centrals),
         offset |-> IF centrals = {} THEN 0 ELSE headers.at[Min(centrals)]]

(* A file with local headers and data in its first cells, then a central   *)
(* header, all of which tell where there is a local header, and its data.  *)
FitsBefore(cells, end, at, size) ==
    /\ size \in Nat /\ at + size <= end
    /\ at + size < end => cells[at + size + 1].what = "local"

IsInPlace(cells, end, file) ==
    /\ file.start \in Nat /\ file.start < end
    /\ cells[file.start + 1].what = "local"
    /\ FitsBefore(cells, end, file.start + 1, file.size)
    /\ file.kind = "file" => HasData(cells, file.start + 1, file.size)

LocalsEnd(cells, end) ==
    /\ end \in 0..Len(cells)
    /\ end > 0 => cells[1].what = "local"
    /\ \A i \in 1..end :
          /\ cells[i].what \in {"local", "data"}
          /\ cells[i].what = "local" /\ cells[i].size # Unknown
                => FitsBefore(cells, end, i, cells[i].size)
    /\ \A i \in DOMAIN cells :
          cells[i].what = "central" => i > end /\ IsInPlace(cells, end, cells[i])

NoCentral(cells) == \A i \in DOMAIN cells : cells[i].what # "central"

CentralsAt(cells, end) ==
    \/ cells = <<>>
    \/ end < Len(cells) /\ cells[end + 1].what = "central"
    \/ end = 0 /\ cells # <<>> /\ cells[1].what = "endsig" /\ NoCentral(cells)

ZipWhole(cells) == \E end \in 0..Len(cells) : LocalsEnd(cells, end) /\ CentralsAt(cells, end)

(* A directory that is there already is not added again. *)
WithFile(tree, file) ==
    IF file.kind = "dir"
    THEN IF IsDir(tree, file.path) THEN tree ELSE Insert(tree, file.path, DirEntry)
    ELSE Insert(tree, file.path, FileEntry(file.kind, file.start + 1, file.size, file.id))

ZipTree(list) ==
    LET tree[n \in 0..Len(list)] == IF n = 0 THEN EmptyTree ELSE WithFile(tree[n - 1], list[n])
    IN  tree[Len(list)]

(* Directories are not put in the list that closeArchive writes. *)
FileList(list) == Only(list, {n \in DOMAIN list : list[n].kind # "dir"})
=============================================================================

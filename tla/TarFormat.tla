------------------------------ MODULE TarFormat ------------------------------
(***************************************************************************)
(* KTar: a header block for every entry, then its data.  A name of more    *)
(* than 99 characters is written as an entry of its own in front of the    *)
(* header, which holds the first 99.  There is no index: opening reads     *)
(* every header, and the place where it stopped is where entries are       *)
(* added.                                                                  *)
(***************************************************************************)
EXTENDS ArchiveTree

CONSTANTS
    LongPath,       \* paths of more than 99 characters
    CutPath         \* what such a path is cut to

(* fillBuffer; the checksum is right and the magic is there. *)
Header(path, kind, id, size) ==
    [what |-> "header", path |-> IF path \in LongPath THEN CutPath ELSE path,
     kind |-> kind, id |-> id, size |-> size, start |-> 0]

FaultyLongLink(path) == <<>>        \* faulty: the name is cut

LongLink(path) ==
    IF path \in LongPath THEN <<Mark("longlink"), [Mark("name") EXCEPT !.path = path]>> ELSE <<>>

-----------------------------------------------------------------------------
EntryOfHeader(path, cell, pos) ==
    IF cell.kind = "dir" THEN DirEntry
    ELSE FileEntry(cell.kind, pos, cell.size, cell.id)

(* readHeader and the loop of openArchive, from position pos on: whether   *)
(* it came to an end, the entries it met, and tarEnd.  A block of zeros    *)
(* ends the archive and is before tarEnd.                                  *)
TarScan(cells) ==
    LET At(pos, w) == pos < Len(cells) /\ cells[pos + 1].what = w
        Scan[pos \in Nat] ==
            LET Entry(at, path) ==
                  LET cell == cells[at + 1]
                      rest == Scan[at + 1 + cell.size]
                  IN  [rest EXCEPT !.entries =
                          <<<<path, EntryOfHeader(path, cell, at + 1)>>>> \o @]
            IN  CASE pos >= Len(cells) -> [ok |-> TRUE, entries |-> <<>>, end |-> pos]
                  [] At(pos, "zero") -> [ok |-> TRUE, entries |-> <<>>, end |-> pos + 1]
                  [] At(pos, "header") -> Entry(pos, cells[pos + 1].path)
                  [] At(pos, "longlink") ->
                        IF At(pos + 2, "header") THEN Entry(pos + 2, cells[pos + 2].path)
                        ELSE Scan[Min({pos + 2, Len(cells)})]
                  [] OTHER -> [ok |-> FALSE, entries |-> <<>>, end |-> 0]
    IN  Scan[0]

(* A file whose headers are where they are looked for, with their data.    *)
TarStart == {"header", "longlink", "zero"}

TarWhole(cells) ==
    /\ cells # <<>> => cells[1].what \in TarStart
    /\ \A i \in DOMAIN cells :
          LET next == i + cells[i].size
          IN  /\ cells[i].what = "header" =>
                    /\ next \in i..Len(cells)
                    /\ next < Len(cells) => cells[next + 1].what \in TarStart
                    /\ HasData(cells, i, cells[i].size)
              /\ cells[i].what = "longlink" => i + 2 <= Len(cells) /\ cells[i + 2].what = "header"

TarTree(entries) ==
    LET tree[n \in 0..Len(entries)] ==
          IF n = 0 THEN EmptyTree ELSE Insert(tree[n - 1], entries[n][1], entries[n][2])
    IN  tree[Len(entries)]
=============================================================================

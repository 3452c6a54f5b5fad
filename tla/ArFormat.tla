------------------------------- MODULE ArFormat -------------------------------
(***************************************************************************)
(* KAr, which only reads: a magic number, then a header and the data of    *)
(* every member, all in the root.  The names that do not fit a header are  *)
(* in a member of their own, and such a header refers to it.               *)
(***************************************************************************)
EXTENDS ArchiveTree

Member(path, id, size) ==
    [what |-> "member", path |-> path, kind |-> "file", id |-> id, size |-> size, start |-> 0]
Ref(path, id, size) == [Member(path, id, size) EXCEPT !.what = "ref"]

(* Where the header after the one at pos is: padding is part of the data. *)
AfterMember(cells, pos) == pos + 1 + cells[pos + 1].size

(* openArchive: whether it returned true, and the entries it met.  A       *)
(* header that is cut off is the end, and not an error; a reference needs  *)
(* the table to be read before.                                            *)
ArScan(cells) ==
    LET Scan[pos \in 0..(Len(cells) + 9), named \in BOOLEAN] ==
          IF pos >= Len(cells) THEN [ok |-> TRUE, entries |-> <<>>]
          ELSE LET cell == cells[pos + 1]
                   rest == Scan[AfterMember(cells, pos), named \/ cell.what = "names"]
                   entry == <<cell.path, FileEntry("file", pos + 1, cell.size, cell.id)>>
               IN  CASE cell.what \in {"names", "symbols"} -> rest
                     [] cell.what = "member" \/ (cell.what = "ref" /\ named) ->
                          [rest EXCEPT !.entries = <<entry>> \o @]
                     [] OTHER -> [ok |-> FALSE, entries |-> <<>>]
    IN  IF Len(cells) > 0 /\ cells[1].what = "magic"
        THEN Scan[1, FALSE] ELSE [ok |-> FALSE, entries |-> <<>>]

ArTree(entries) == FoldLeft(LAMBDA tree, e : AddEntry(tree, e[1], e[2]), EmptyTree, entries)
=============================================================================

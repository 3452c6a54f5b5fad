----------------------------- MODULE ArchiveTree -----------------------------
(***************************************************************************)
(* What the archive formats of KArchive have in common: the directory that *)
(* openArchive builds, the device under it, and copyTo, which writes a     *)
(* directory out.                                                          *)
(*                                                                         *)
(* A device holds cells: a block of a tar file, or a record or a piece of  *)
(* data of the other formats.  Positions count cells, from 0.  A directory *)
(* tree maps paths, which are sequences of names, to entries; the root is  *)
(* not among them.                                                         *)
(***************************************************************************)
EXTENDS Integers, Sequences, SequencesExt, FiniteSetsExt

CONSTANT Name

Path == UNION {[1..n -> Name] : n \in 1..2}

Kind == {"file", "link", "dir"}

(* The contents of a file, or the target of a link, is told by the number  *)
(* of the write that put it there.                                         *)
Empty == 0
Garbled == -1

What == {"zero", "header", "longlink", "name", "data",              \* tar
         "local", "central", "endsig", "endrest",                   \* zip
         "start", "packed", "index",                                \* 7z
         "magic", "symbols", "names", "member", "ref"}              \* ar

Cell == [what : What, path : Path \cup {<<>>}, kind : Kind, id : Nat,
         size : Nat \cup {-1}, start : Nat]

(* A cell that only its kind matters of. *)
Mark(w) == [what |-> w, path |-> <<>>, kind |-> "file", id |-> 0, size |-> 0, start |-> 0]

Data(id, part) == [Mark("data") EXCEPT !.id = id, !.size = part]

(* What is written past the end leaves zeros before it. *)
PutAt(cells, pos, cell) ==
    [i \in 1..Max({Len(cells), pos + 1}) |->
        IF i = pos + 1 THEN cell ELSE IF i > Len(cells) THEN Mark("zero") ELSE cells[i]]

(* The first position, from pos on, of a cell of one of the kinds; -1 if   *)
(* the device ends before.                                                 *)
NextOf(cells, pos, whats) ==
    LET there == {i \in (pos + 1)..Len(cells) : cells[i].what \in whats}
    IN  IF there = {} THEN -1 ELSE Min(there) - 1

(* The elements of a sequence at some of its places, in order. *)
Only(s, places) ==
    LET only[n \in 0..Len(s)] ==
          IF n = 0 THEN <<>>
          ELSE IF n \in places THEN Append(only[n - 1], s[n])
          ELSE only[n - 1]
    IN  only[Len(s)]

-----------------------------------------------------------------------------
DirEntry == [kind |-> "dir", pos |-> -1, size |-> 0, id |-> 0]
FileEntry(kind, pos, size, id) == [kind |-> kind, pos |-> pos, size |-> size, id |-> id]

EmptyTree == <<>>

IsAbove(above, path) == IsStrictPrefix(above, path)

Has(tree, path) == path \in DOMAIN tree
IsDir(tree, path) == Has(tree, path) /\ tree[path].kind = "dir"

(* QHash::insert: an entry of the same name is replaced, and with it all   *)
(* that it held.                                                           *)
AddEntry(tree, path, entry) ==
    [p \in {q \in DOMAIN tree : ~IsPrefix(path, q)} \cup {path} |->
        IF p = path THEN entry ELSE tree[p]]

WithDir(tree, path) == IF IsDir(tree, path) THEN tree ELSE AddEntry(tree, path, DirEntry)

(* Only what is missing is created; a file in the way is replaced. *)
FindOrCreate(tree, path) ==
    LET made[n \in 0..Len(path)] ==
          IF n = 0 THEN tree ELSE WithDir(made[n - 1], SubSeq(path, 1, n))
    IN  made[Len(path)]

(* The container of an entry is there, or made, before the entry. *)
Insert(tree, path, entry) == AddEntry(FindOrCreate(tree, Front(path)), path, entry)

-----------------------------------------------------------------------------
(* What reading an entry's range of the device gives: one write's data, or *)
(* something else.                                                         *)
DataAt(cells, entry) ==
    LET range == (entry.pos + 1)..(entry.pos + entry.size)
        ids == {cells[i].id : i \in range \cap DOMAIN cells}
    IN  IF range = {} THEN Empty
        ELSE IF
           /\ range \subseteq DOMAIN cells
           /\ Cardinality(ids) = 1
           /\ \A i \in range : cells[i] = Data(cells[i].id, i - entry.pos)
        THEN CHOOSE id \in ids : TRUE
        ELSE Garbled

(* A place where all of one write's data is. *)
HasData(cells, pos, size) ==
    \A k \in 1..size : /\ pos + k \in DOMAIN cells
                       /\ cells[pos + k] = Data(cells[pos + 1].id, k)

(* copyTo finds a file's directory by the file's position on the device,   *)
(* under which every other file with that position is written as well.     *)
CopyTo(tree, cells) ==
    LET files == {p \in DOMAIN tree : tree[p].kind = "file"}
        links == {p \in DOMAIN tree : tree[p].kind = "link"}
        FileToDir(pos) == Front(CHOOSE p \in files : tree[p].pos = pos)
    IN  {<<FileToDir(tree[p].pos) \o <<Last(p)>>, "file", DataAt(cells, tree[p])>> : p \in files}
            \cup {<<p, "link", tree[p].id>> : p \in links}
=============================================================================

---------------------------- MODULE SevenZipFormat ----------------------------
(***************************************************************************)
(* K7Zip: all data is in memory, one piece after the other, and the whole  *)
(* archive is written when it is closed: a start header, the compressed    *)
(* data and an index.  The start header has the checksum of the index, and *)
(* the index the length of the data and its checksum; here a checksum is   *)
(* what it is computed from.                                               *)
(***************************************************************************)
EXTENDS ArchiveTree

CONSTANT Chunk      \* how much of a file addLocalFile reads at a time

Start(index)    == [what |-> "start", index |-> index]
Packed(outData) == [what |-> "packed", outData |-> outData]

(* writeHeader: unpackSize is what the data is said to unpack to. *)
Index(items, unpackSize, outData) ==
    [what |-> "index", items |-> items, unpackSize |-> unpackSize, outData |-> outData]

DataCells(id, n) == [i \in 1..n |-> Data(id, i)]

-----------------------------------------------------------------------------
(* readAndDecodePackedStreams: nothing if the checksum over unpackSize     *)
(* bytes is not the one in the index.                                      *)
Decoded(cells) ==
    LET index == cells[3]
    IN  IF /\ cells[2].what = "packed"
           /\ cells[2].outData = index.outData
           /\ Len(index.outData) = index.unpackSize
        THEN index.outData ELSE <<>>

SevenItem(path, entry) ==
    [path |-> path, kind |-> entry.kind,
     size |-> IF entry.kind = "link" THEN 1 ELSE entry.size]

(* The end of openArchive: entries that are not directories take their     *)
(* data in turn.  A link whose target is not there is an empty file.       *)
SevenEntry(item, pos, outData) ==
    IF item.kind = "link" /\ pos + 1 \in DOMAIN outData
    THEN FileEntry("link", 0, 0, outData[pos + 1].id)
    ELSE IF item.kind = "link" THEN FileEntry("file", 0, 0, Empty)
    ELSE FileEntry("file", pos, item.size, Empty)

SevenTree(items, outData) ==
    LET Add(at, item) ==
          IF item.kind = "dir"
          THEN [at EXCEPT !.tree = IF IsDir(@, item.path) THEN @ ELSE Insert(@, item.path, DirEntry)]
          ELSE [tree |-> Insert(at.tree, item.path, SevenEntry(item, at.pos, outData)),
                pos |-> at.pos + item.size]
    IN  FoldLeft(Add, [tree |-> EmptyTree, pos |-> 0], items).tree

SevenScan(cells) ==
    IF /\ Len(cells) > 2
       /\ cells[1].what = "start"
       /\ cells[3] = cells[1].index
    THEN [ok |-> TRUE, items |-> cells[3].items, outData |-> Decoded(cells)]
    ELSE [ok |-> FALSE, items |-> <<>>, outData |-> <<>>]

-----------------------------------------------------------------------------
(* doPrepareWriting and writeData: the first chunk is appended, and every  *)
(* other one inserted where the entry starts.                              *)
InChunks(id, size) ==
    LET pieces == [n \in 1..((size + Chunk - 1) \div Chunk) |->
                      SubSeq(DataCells(id, size), (n - 1) * Chunk + 1, Min({n * Chunk, size}))]
    IN  FoldLeft(LAMBDA written, piece : piece \o written, <<>>, pieces)

(* The directory and the data with a new entry; only a link or a directory *)
(* takes the place of what is there.                                       *)
WithEntry(tree, outData, e, chunked) ==
    LET data == IF e.kind = "link" THEN DataCells(e.id, 1)
                ELSE IF chunked THEN InChunks(e.id, e.size)
                ELSE DataCells(e.id, e.size)
        entry == CASE e.kind = "dir" -> DirEntry
                   [] e.kind = "link" -> FileEntry("link", 0, 0, e.id)
                   [] e.kind = "file" -> FileEntry("file", Len(outData), e.size, e.id)
        parent == FindOrCreate(tree, Front(e.path))
    IN  IF e.kind = "file" /\ Has(parent, e.path)
        THEN [ok |-> FALSE, tree |-> parent, outData |-> outData]
        ELSE [ok |-> TRUE, tree |-> AddEntry(parent, e.path, entry),
              outData |-> IF e.kind = "dir" THEN outData ELSE outData \o data]

(* closeArchive: createItemsFromEntities collects the data of the entries  *)
(* there are, but the length it is said to have was taken before.          *)
SevenCells(tree, outData) ==
    LET paths == SetToSeq(DOMAIN tree)
        DataOf(entry) ==
          CASE entry.kind = "dir" -> <<>>
            [] entry.kind = "link" -> DataCells(entry.id, 1)
            [] entry.kind = "file" ->
                 SubSeq(outData, entry.pos + 1, Min({entry.pos + entry.size, Len(outData)}))
        collected == FlattenSeq([n \in 1..Len(paths) |-> DataOf(tree[paths[n]])])
        index == Index([n \in 1..Len(paths) |-> SevenItem(paths[n], tree[paths[n]])],
                       Len(outData), collected)
    IN  <<Start(index), Packed(collected), index>>
=============================================================================

---------------------------- MODULE SevenZipHeader ----------------------------
(***************************************************************************)
(* K7Zip: the header of an archive, byte for byte, as writeHeader writes   *)
(* it and openArchive reads it.  What is to be written is a list of items, *)
(* which grows here one by one: every list is written and read.            *)
(*                                                                         *)
(* Names have one character; checksums and times are zeros.  The data is   *)
(* in one folder, which has one coder, as closeArchive makes it.           *)
(***************************************************************************)
EXTENDS Integers, Sequences, SequencesExt, FiniteSetsExt

CONSTANTS
    Item,           \* kinds and sizes of what may be in an archive
    FewItem,        \* the same, for long lists
    MaxVaried,      \* bound: a list with more is long
    MaxItems,       \* bound: items
    WideNumber      \* numbers to be written: eight bytes, the lowest first

ASSUME SevenZipHeaderAssumption == WideNumber \subseteq [1..8 -> 0..255]

VARIABLES
    items,          \* fileInfos and unpackSizes
    number

headerVars == <<items, number>>

ItemKind == {"file", "link", "empty", "dir"}
HasStream(item) == item.kind \in {"file", "link"}

(* The values of HeaderType that are written. *)
Type ==
    [End |-> 0, Header |-> 1, MainStreamsInfo |-> 4, FilesInfo |-> 5, PackInfo |-> 6,
     UnpackInfo |-> 7, SubStreamsInfo |-> 8, Size |-> 9, CRC |-> 10, Folder |-> 11,
     CodersUnpackSize |-> 12, NumUnpackStream |-> 13, EmptyStream |-> 14, EmptyFile |-> 15,
     Name |-> 17, MTime |-> 20, Attributes |-> 21]

-----------------------------------------------------------------------------
(* writeNumber: as many ones as bytes follow, then the highest bits.       *)
Follow(n) ==
    LET Fits(i) == /\ n[i + 1] < 2^(7 - i)
                   /\ \A k \in (i + 2)..8 : n[k] = 0
        fitting == {i \in 0..7 : Fits(i)}
    IN  IF fitting = {} THEN 8 ELSE Min(fitting)

Ones(i) == 256 - 2^(8 - i)

WriteDigits(n) ==
    LET i == Follow(n)
    IN  <<IF i = 8 THEN 255 ELSE Ones(i) + n[i + 1]>> \o SubSeq(n, 1, i)

Digits(n) == [k \in 1..8 |-> IF k < 5 THEN (n \div 256^(k - 1)) % 256 ELSE 0]
WriteNumber(n) == WriteDigits(Digits(n))

(* readNumber: the fourth byte that follows is shifted as an int, so that  *)
(* its sign is extended; what a fifth one does is not defined.             *)
GarbledDigits == [k \in 1..8 |-> -1]

\* faulty: the bits of the first byte are dropped if others follow
FaultyReadDigits(b, at) ==
    LET i == IF b[at] = 255 THEN 8 ELSE Max({k \in 0..7 : b[at] >= Ones(k)})
    IN  [value |-> [k \in 1..8 |-> IF k <= i THEN b[at + k] ELSE IF i = 0 /\ k = 1 THEN b[at] ELSE 0],
         next |-> at + i + 1]

ReadDigits(b, at) ==
    LET i == IF b[at] = 255 THEN 8 ELSE Max({k \in 0..7 : b[at] >= Ones(k)})
        negative == i >= 4 /\ b[at + 4] >= 128
        Digit(k) == IF negative /\ k > 4 THEN 255
                    ELSE IF k <= i THEN b[at + k]
                    ELSE IF k = i + 1 THEN b[at] - Ones(i)
                    ELSE 0
    IN  [value |-> IF i > 4 THEN GarbledDigits ELSE [k \in 1..8 |-> Digit(k)], next |-> at + i + 1]

NumberOf(d) ==
    IF (\A k \in 5..8 : d[k] = 0) /\ d[4] < 128
    THEN d[1] + 256 * d[2] + 65536 * d[3] + 16777216 * d[4] ELSE -1

ReadNumber(b, at) ==
    LET Number(digits) == [value |-> NumberOf(digits.value), next |-> digits.next]
    IN  Number(ReadDigits(b, at))

ReadNumbers(b, at, count) ==
    LET With(so, read) == [values |-> Append(so.values, read.value), next |-> read.next]
    IN  FoldLeft(LAMBDA so, k : With(so, ReadNumber(b, so.next)),
                 [values |-> <<>>, next |-> at], [k \in 1..count |-> k])

(* Behind as many bytes as a number says. *)
Behind(size) == size.next + size.value

-----------------------------------------------------------------------------
BytesFor(n) == (n + 7) \div 8

WriteBools(v) ==
    LET Bit(k, j) == LET i == 8 * (k - 1) + j
                     IN  IF i <= Len(v) /\ v[i] THEN 2^(8 - j) ELSE 0
    IN  [k \in 1..BytesFor(Len(v)) |-> MapThenSumSet(LAMBDA j : Bit(k, j), 1..8)]

ReadBools(b, at, count) ==
    [i \in 1..count |-> (b[at + (i - 1) \div 8] \div 2^(7 - ((i - 1) % 8))) % 2 = 1]

(* readBoolVector2: which are defined, and where the next thing is. *)
ReadDefined(b, at, count) ==
    IF b[at] = 0
    THEN [value |-> ReadBools(b, at + 1, count), next |-> at + 1 + BytesFor(count)]
    ELSE [value |-> [i \in 1..count |-> TRUE], next |-> at + 1]

AfterDigests(b, at, count) ==
    LET defined == ReadDefined(b, at, count)
    IN  defined.next + 4 * Cardinality({i \in 1..count : defined.value[i]})

Zeros(n) == [k \in 1..n |-> 0]

(* A number of records of the same size, all of which are defined. *)
WriteAll(type, records, size) ==
    <<type>> \o WriteNumber(Len(records) * size + 2) \o <<1, 0>> \o FlattenSeq(records)

-----------------------------------------------------------------------------
Streams(list) == SelectSeq(list, HasStream)
Sizes(list) == [n \in 1..Len(Streams(list)) |-> Streams(list)[n].size]
Total(sizes) == FoldLeft(LAMBDA x, y : x + y, 0, sizes)

(* writePackInfo, writeUnpackInfo with writeFolder, writeSubStreamsInfo. *)
WritePackInfo(packSize) ==
    <<Type.PackInfo>> \o WriteNumber(0) \o WriteNumber(1) \o <<Type.Size>> \o WriteNumber(packSize) \o <<Type.End>>

WriteFolder == WriteNumber(1) \o <<33, 33>> \o WriteNumber(1) \o <<0>>

WriteUnpackInfo(unpackSize) ==
    <<Type.UnpackInfo, Type.Folder>> \o WriteNumber(1) \o <<0>> \o WriteFolder
        \o <<Type.CodersUnpackSize>> \o WriteNumber(unpackSize)
        \o <<Type.CRC, 1>> \o Zeros(4) \o <<Type.End>>

(* The size of the last stream is what is left of the folder's. *)
WriteSubStreamsInfo(sizes) ==
    <<Type.SubStreamsInfo>>
        \o (IF Len(sizes) # 1 THEN <<Type.NumUnpackStream>> \o WriteNumber(Len(sizes)) ELSE <<>>)
        \o (IF Len(sizes) > 1
            THEN <<Type.Size>> \o FlattenSeq([n \in 1..(Len(sizes) - 1) |-> WriteNumber(sizes[n])])
            ELSE <<>>)
        \o <<Type.End>>

(* An attribute for Windows, the mark of the extension, and the mode. *)
Attributes(kind) ==
    CASE kind = "dir" -> <<16, 128, 237, 65>>
      [] kind = "link" -> <<32, 128, 237, 161>>
      [] OTHER -> <<32, 128, 164, 129>>

\* faulty: the second vector has a bit for every item
FaultyWriteEmpty(list) ==
    LET Vector(type, v) == <<type>> \o WriteNumber(BytesFor(Len(v))) \o WriteBools(v)
    IN  IF \A i \in DOMAIN list : HasStream(list[i]) THEN <<>>
        ELSE Vector(Type.EmptyStream, [i \in DOMAIN list |-> ~HasStream(list[i])])
                \o Vector(Type.EmptyFile, [i \in DOMAIN list |-> list[i].kind = "empty"])

(* The vectors of what has no stream, and of which of these are files. *)
WriteEmpty(list) ==
    LET n == Len(list)
        empty == SelectSeq(list, LAMBDA item : ~HasStream(item))
        emptyStream == [i \in 1..n |-> ~HasStream(list[i])]
        emptyFile == [i \in 1..Len(empty) |-> empty[i].kind # "dir"]
        Vector(type, v) == <<type>> \o WriteNumber(BytesFor(Len(v))) \o WriteBools(v)
    IN  IF empty = <<>> THEN <<>>
        ELSE Vector(Type.EmptyStream, emptyStream)
                \o IF \E i \in DOMAIN emptyFile : emptyFile[i]
                   THEN Vector(Type.EmptyFile, emptyFile) ELSE <<>>

WriteNames(list) ==
    <<Type.Name>> \o WriteNumber(4 * Len(list) + 1) \o <<0>>
        \o FlattenSeq([i \in 1..Len(list) |-> <<96 + i, 0, 0, 0>>])

(* writeHeader. *)
Written(list) ==
    <<Type.Header, Type.MainStreamsInfo>>
        \o WritePackInfo(Total(Sizes(list))) \o WriteUnpackInfo(Total(Sizes(list)))
        \o WriteSubStreamsInfo(Sizes(list)) \o <<Type.End>>
        \o IF list = <<>> THEN <<Type.End>>
           ELSE <<Type.FilesInfo>> \o WriteNumber(Len(list))
                    \o WriteEmpty(list)
                    \o WriteNames(list)
                    \o WriteAll(Type.MTime, [i \in 1..Len(list) |-> Zeros(8)], 8)
                    \o WriteAll(Type.Attributes, [i \in 1..Len(list) |-> Attributes(list[i].kind)], 4)
                    \o <<Type.End, Type.End>>

-----------------------------------------------------------------------------
(* findAttribute: behind the byte that says so; everything else has a size *)
(* and is skipped.  Behind the last byte if it is not there.               *)
FindAttribute(b, at, type) ==
    LET Find[i \in 1..(Len(b) + 1)] ==
          IF i > Len(b) \/ b[i] = Type.End THEN Len(b) + 1
          ELSE IF b[i] = type THEN i + 1
          ELSE Find[Behind(ReadNumber(b, i + 1))]
    IN  Find[at]

(* The loops that end readPackInfo and readUnpackInfo. *)
AfterEnd(b, at, count) ==
    LET Find[i \in 1..(Len(b) + 1)] ==
          IF b[i] = Type.End THEN i + 1
          ELSE IF b[i] = Type.CRC THEN Find[AfterDigests(b, i + 1, count)]
          ELSE Find[Behind(ReadNumber(b, i + 1))]
    IN  Find[at]

(* Each of these is behind its type, and tells what is behind it. *)
ReadPackInfo(b, at) ==
    LET SizesOf(count) == ReadNumbers(b, FindAttribute(b, count.next, Type.Size), count.value)
        After(count) == AfterEnd(b, SizesOf(count).next, count.value)
    IN  After(ReadNumber(b, ReadNumber(b, at).next))

(* folderItem, of a coder that has one stream in and one out. *)
AfterFolder(b, at) == Behind(ReadNumber(b, at + 2 + (b[at + 1] % 16)))

ReadUnpackInfo(b, at) ==
    LET UnpackSize(folders) ==
          ReadNumber(b, FindAttribute(b, AfterFolder(b, folders.next + 1), Type.CodersUnpackSize))
        With(folders, size) == [unpackSize |-> size.value, next |-> AfterEnd(b, size.next, folders.value)]
        Of(folders) == With(folders, UnpackSize(folders))
    IN  Of(ReadNumber(b, FindAttribute(b, at, Type.Folder)))

ReadSubStreamsInfo(b, at, unpackSize) ==
    LET count == IF b[at] = Type.NumUnpackStream THEN ReadNumber(b, at + 1)
                 ELSE [value |-> 1, next |-> at]
        SizesOf(streams) ==
          IF b[streams.next] = Type.Size THEN ReadNumbers(b, streams.next + 1, streams.value - 1)
          ELSE [values |-> <<>>, next |-> streams.next]
        With(streams, sizes) ==
          [unpackSizes |-> sizes.values \o IF streams.value = 0 THEN <<>>
                                           ELSE <<unpackSize - Total(sizes.values)>>,
           next |-> AfterEnd(b, sizes.next, streams.value)]
        Of(streams) == With(streams, SizesOf(streams))
    IN  Of(count)

(* readMainStreamsInfo, of the parts in the order in which they are written. *)
ReadMainStreamsInfo(b, at) ==
    LET With(unpackAt, unpack, sub) ==
          [ok |-> b[at] = Type.PackInfo /\ b[unpackAt] = Type.UnpackInfo
                    /\ b[unpack.next] = Type.SubStreamsInfo /\ b[sub.next] = Type.End,
           unpackSizes |-> sub.unpackSizes, next |-> sub.next + 1]
        WithUnpack(unpackAt, unpack) ==
          With(unpackAt, unpack, ReadSubStreamsInfo(b, unpack.next + 1, unpack.unpackSize))
        WithPack(unpackAt) == WithUnpack(unpackAt, ReadUnpackInfo(b, unpackAt + 1))
    IN  WithPack(ReadPackInfo(b, at + 1))

(* The loop of openArchive over the records of the files: where the data   *)
(* of each kind of record is, and how long it is said to be.               *)
Records(b, at) ==
    LET Read[i \in 1..Len(b)] ==
          IF b[i] = Type.End THEN {}
          ELSE LET Record(size) ==
                     {[type |-> b[i], at |-> size.next, size |-> size.value]} \cup Read[Behind(size)]
               IN  Record(ReadNumber(b, i + 1))
    IN  Read[at]

(* The length that a record of so many items must have; the version that   *)
(* is written asks for it to be right.                                     *)
RecordSize(b, record, count, empties) ==
    LET AllDefined(size) == IF b[record.at] = 1 THEN 2 + size * count ELSE -1
    IN  CASE record.type = Type.EmptyStream -> BytesFor(count)
          [] record.type = Type.EmptyFile -> BytesFor(empties)
          [] record.type = Type.Name -> 1 + 4 * count
          [] record.type = Type.MTime -> AllDefined(8)
          [] record.type = Type.Attributes -> AllDefined(4)

(* The vector of a record; without one nothing is in it. *)
VectorOf(b, records, type, n) ==
    LET there == {r \in records : r.type = type}
    IN  IF there = {} THEN [i \in 1..n |-> FALSE] ELSE ReadBools(b, (CHOOSE r \in there : TRUE).at, n)

(* The end of openArchive: what each item is, and the size of its data. *)
ItemsFrom(b, records, unpackSizes, emptyStream) ==
    LET count == Len(emptyStream)
        Empties(i) == Cardinality({k \in 1..i : emptyStream[k]})
        IsFile(i) == VectorOf(b, records, Type.EmptyFile, Empties(count))[Empties(i)]
        attributesAt == (CHOOSE r \in records : r.type = Type.Attributes).at + 2
        IsLink(i) == b[attributesAt + 4 * i - 1] \div 16 = 10
        ItemAt(i) ==
          IF emptyStream[i] THEN [kind |-> IF IsFile(i) THEN "empty" ELSE "dir", size |-> 0]
          ELSE [kind |-> IF IsLink(i) THEN "link" ELSE "file",
                size |-> unpackSizes[i - Empties(i)]]
    IN  [ok |-> \A r \in records : r.size = RecordSize(b, r, count, Empties(count)),
         items |-> [i \in 1..count |-> ItemAt(i)]]

ReadItems(b, at, unpackSizes) ==
    LET Of(records, count) ==
          ItemsFrom(b, records, unpackSizes, VectorOf(b, records, Type.EmptyStream, count))
        Counted(count) == Of(Records(b, count.next), count.value)
    IN  Counted(ReadNumber(b, at))

(* openArchive. *)
Read(b) ==
    LET ReadFiles(streams) ==
          IF ~(b[1] = Type.Header /\ b[2] = Type.MainStreamsInfo /\ streams.ok)
          THEN [ok |-> FALSE, items |-> <<>>]
          ELSE IF b[streams.next] = Type.End THEN [ok |-> TRUE, items |-> <<>>]
          ELSE ReadItems(b, streams.next + 1, streams.unpackSizes)
    IN  ReadFiles(ReadMainStreamsInfo(b, 3))

-----------------------------------------------------------------------------
HeaderTypeOK ==
    /\ items \in Seq(Item)
    /\ Len(items) <= MaxItems
    /\ number \in [1..8 -> 0..255]
    /\ ToSet(Written(items)) \subseteq 0..255

HeaderInit == items = <<>> /\ number \in WideNumber

(* createItemsFromEntities. *)
AddItem(item) ==
    /\ number = Digits(0)
    /\ Len(items) < MaxItems
    /\ Len(items) < MaxVaried \/ item \in FewItem
    /\ items' = Append(items, item)
    /\ UNCHANGED number

HeaderNext == \E item \in Item : AddItem(item)

HeaderSpec == HeaderInit /\ [][HeaderNext]_headerVars

-----------------------------------------------------------------------------
(* Whatever is in an archive, what is read from its header is what was     *)
(* written to it, and every record has the length it says it has.          *)
HeaderReadsBack == Read(Written(items)) = [ok |-> TRUE, items |-> items]

(* A number of any length is read as it was written, but for those that    *)
(* the bytes that are shifted do not fit: with the highest bit of the      *)
(* fourth byte set, or of 36 bits and more.                                *)
NumbersReadBack ==
    number[4] < 128 /\ Follow(number) <= 4
        => ReadDigits(WriteDigits(number), 1) = [value |-> number, next |-> Follow(number) + 2]
=============================================================================

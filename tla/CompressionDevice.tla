--------------------------- MODULE CompressionDevice ---------------------------
(***************************************************************************)
(* KCompressionDevice with its filters, as operators: what it writes to    *)
(* the save file beneath it, and what it reads from a file.                *)
(*                                                                         *)
(* A compressed file is a sequence of cells, each compressed to one, with  *)
(* the marks of its format around them.  The compression libraries take    *)
(* and give what there is room for; they keep what they took until they    *)
(* are told to finish ("lazy") or give it at once.                         *)
(***************************************************************************)
EXTENDS SaveFile, SequencesExt, FiniteSetsExt

CONSTANTS
    Cap,            \* BUFFER_SIZE
    QCap            \* QIODevice's own buffer

ASSUME CompressionDeviceAssumption == Cap \in Nat /\ Cap >= 3 /\ QCap \in Nat /\ QCap >= Cap

(* "raw" is gzip without its header, for zip archives. *)
Kind == {"gzip", "raw", "xz", "bzip2", "none"}

Mark == {"header", "magic", "end", "crc", "length", "bad"}
Footer == <<"crc", "length">>

Encoded(kind, payload) ==
    CASE kind = "gzip" -> <<"header">> \o payload \o <<"end">> \o Footer
      [] kind = "raw" -> payload \o <<"end">>
      [] kind \in {"xz", "bzip2"} -> <<"magic">> \o payload \o <<"end">>
      [] kind = "none" -> payload

(* A loop: at most so many turns. *)
Iterate(Step(_), x, times) ==
    LET turn[k \in 0..times] ==
          IF k = 0 THEN x
          ELSE LET last == turn[k - 1] IN IF last.stop THEN last ELSE Step(last)
    IN  turn[times]

-----------------------------------------------------------------------------
(* A device that is open for writing. *)
OpenFilter(kind, lazy) ==
    [kind |-> kind, lazy |-> lazy, result |-> "Ok", needHeader |-> kind # "raw",
     headerWritten |-> FALSE, footerWritten |-> FALSE, stuck |-> FALSE, ended |-> FALSE,
     pending |-> IF kind \in {"xz", "bzip2"} THEN <<"magic">> ELSE <<>>,
     buffer |-> <<>>]

Room(w) == Cap - Len(w.buffer)

(* What the library gives of what it has and what comes in. *)
Deflate(w, in, finish) ==
    LET all == w.pending \o in \o IF finish /\ ~w.ended THEN <<"end">> ELSE <<>>
        n == IF w.lazy /\ ~finish THEN 0 ELSE Min({Len(all), Room(w)})
        left == SubSeq(all, n + 1, Len(all))
        untaken == IF finish \/ w.lazy THEN 0 ELSE Min({Len(in), Len(left)})
    IN  [w |-> [w EXCEPT !.buffer = @ \o SubSeq(all, 1, n),
                         !.pending = SubSeq(left, 1, Len(left) - untaken),
                         !.ended = finish],
         in |-> SubSeq(in, Len(in) - untaken + 1, Len(in)),
         status |-> IF Room(w) = 0 THEN "NoProgress"
                    ELSE IF finish /\ left = <<>> THEN "StreamEnd" ELSE "Ok"]

(* What each filter makes of a library that could do nothing. *)
NoProgress(w) ==
    CASE w.kind \in {"gzip", "raw"} -> "End"
      [] w.kind = "xz" -> IF w.stuck THEN "Error" ELSE "Ok"
      [] w.kind = "bzip2" -> "Error"

FooterFits(w) == Room(w) >= Len(Footer)

(* The footer has to wait for the next pass if it does not fit. *)
AddFooter(w, deflated) ==
    LET result == CASE deflated.status = "Ok" -> "Ok"
                    [] deflated.status = "StreamEnd" -> "End"
                    [] deflated.status = "NoProgress" -> NoProgress(w)
        now == [deflated.w EXCEPT !.result = result, !.stuck = deflated.status = "NoProgress"]
        footer == deflated.status = "StreamEnd" /\ w.headerWritten /\ ~w.footerWritten
        footed == IF ~footer THEN now
                  ELSE IF FooterFits(now)
                  THEN [now EXCEPT !.buffer = @ \o Footer, !.footerWritten = TRUE]
                  ELSE [now EXCEPT !.result = "Ok"]
    IN  [w |-> footed, in |-> deflated.in]

(* compress. *)
Compress(w, in, finish) == AddFooter(w, Deflate(w, in, finish))

(* The loop of writeData goes on with what compress has left. *)
AfterCompress(x, step) ==
    LET result == step.w.result
        written == IF step.in = <<>> \/ result = "End" THEN x.size - Len(step.in) ELSE x.written
        next == [x EXCEPT !.w = step.w, !.in = step.in, !.written = written,
                          !.stop = result = "End" \/ (written = x.size /\ ~x.finish)]
        flush == Room(step.w) = 0 \/ result = "End" \/ x.finish
        write == SaveWrite(x.save, step.w.buffer)
    IN  IF result = "Error" THEN [x EXCEPT !.w = step.w, !.stop = TRUE]
        ELSE IF ~flush THEN next
        ELSE IF write.written # Len(step.w.buffer)
        THEN [next EXCEPT !.save = write.save, !.written = 0, !.stop = TRUE]
        ELSE [next EXCEPT !.save = write.save, !.w.buffer = <<>>]

WritePass(x) == AfterCompress(x, Compress(x.w, x.in, x.finish))

(* writeData: no data means to finish. *)
WriteData(w, save, data, finish) ==
    LET headed == IF finish \/ ~w.needHeader THEN w
                  ELSE [w EXCEPT !.needHeader = FALSE,
                                 !.headerWritten = w.kind = "gzip",
                                 !.buffer = IF w.kind = "gzip" THEN @ \o <<"header">> ELSE @]
        start == [w |-> headed, save |-> save, in |-> data, size |-> Len(data), written |-> 0,
                  finish |-> finish, stop |-> FALSE]
    IN  IF w.result # "Ok" THEN [start EXCEPT !.w = w]
        ELSE Iterate(WritePass, start, Len(data) + Len(w.pending) + Cap + 4)

-----------------------------------------------------------------------------
(* A device that is open for reading: at is the position in the file,      *)
(* pos and qbuffer are QIODevice's.                                        *)
OpenReader(kind) ==
    [kind |-> kind, at |-> 0, in |-> <<>>, result |-> "Ok", needHeader |-> kind # "raw",
     compressed |-> TRUE, stage |-> IF kind = "raw" THEN "body" ELSE "head",
     pos |-> 0, qbuffer |-> <<>>]

(* What the library makes of one cell; it stops where there is no room.    *)
Inflate(x) ==
    LET cell == Head(x.r.in)
        taken == [x EXCEPT !.r.in = Tail(@)]
        Opening == IF x.r.kind = "gzip" THEN "header" ELSE "magic"
    IN  IF x.r.in = <<>> \/ (x.r.stage = "body" /\ cell \notin Mark /\ x.room = 0)
        THEN [x EXCEPT !.stop = TRUE]
        ELSE IF x.r.stage = "head" /\ cell = Opening THEN [taken EXCEPT !.r.stage = "body"]
        ELSE IF x.r.stage = "body" /\ cell \notin Mark
        THEN [taken EXCEPT !.out = Append(@, cell), !.room = @ - 1]
        ELSE IF x.r.stage = "body" /\ cell = "end" /\ x.r.kind = "gzip"
        THEN [taken EXCEPT !.r.stage = "crc"]
        ELSE IF x.r.stage = "crc" /\ cell = "crc" THEN [taken EXCEPT !.r.stage = "length"]
        ELSE [taken EXCEPT !.stop = TRUE,
                           !.r.result = IF \/ x.r.stage = "body" /\ cell = "end"
                                           \/ x.r.stage = "length" /\ cell = "length"
                                        THEN "End" ELSE "Error"]

(* What is not compressed is given as it is; the filter that does nothing  *)
(* is at its end when it has given what is in the buffer.                  *)
UncompressNone(r) == [r |-> [r EXCEPT !.in = <<>>, !.result = "End"], out |-> r.in]

UncompressNoop(r, room) ==
    LET n == Min({Len(r.in), room})
    IN  [r |-> [r EXCEPT !.in = SubSeq(@, n + 1, Len(@))], out |-> SubSeq(r.in, 1, n)]

Uncompress(r, room) ==
    CASE r.kind = "none" -> UncompressNone(r)
      [] r.kind # "none" /\ ~r.compressed -> UncompressNoop(r, room)
      [] OTHER -> Iterate(Inflate, [r |-> r, out |-> <<>>, room |-> room, stop |-> FALSE],
                          Len(r.in) + 1)

(* readHeader of the gzip filter. *)
LooksCompressed(r) == r.kind # "gzip" \/ r.in[1] = "header"

(* An empty input buffer is filled from the file; the first one shows      *)
(* whether the data is compressed.                                         *)
Fill(r, file) ==
    LET size == Min({Cap, Len(file) - r.at})
    IN  IF r.in # <<>> THEN r
        ELSE [r EXCEPT !.in = SubSeq(file, r.at + 1, r.at + size), !.at = @ + size]

ReadHeader(r) ==
    IF r.needHeader THEN [r EXCEPT !.needHeader = FALSE, !.compressed = LooksCompressed(r)]
    ELSE r

(* The loop of readData goes on with what uncompress has given.  Data that *)
(* is to be ignored goes to the beginning of the output again and again.   *)
AfterUncompress(x, step) ==
    LET received == x.received + Len(step.out)
        data == IF x.ignore THEN step.out \o SubSeq(x.data, Len(step.out) + 1, Len(x.data))
                ELSE x.data \o step.out
        room == IF ~x.ignore \/ x.size - received < x.outSize THEN x.size - received ELSE x.room
    IN  IF step.r.result = "Error" THEN [x EXCEPT !.r = step.r, !.stop = TRUE]
        ELSE [x EXCEPT !.r = step.r, !.received = received, !.data = data, !.room = room,
                       !.stop = step.r.result = "End" \/ received = x.size]

Decode(x, input) ==
    IF input.in = <<>> THEN [x EXCEPT !.stop = TRUE]
    ELSE AfterUncompress(x, Uncompress(ReadHeader(input), x.room))

ReadPass(x) == Decode(x, Fill(x.r, x.file))

ReadData(r, file, size, ignore) ==
    LET outSize == IF ignore THEN Min({size, 3 * Cap}) ELSE size
        start == [r |-> r, file |-> file, size |-> size, ignore |-> ignore, outSize |-> outSize,
                  room |-> outSize, received |-> 0, data |-> <<>>, stop |-> FALSE]
        Given(end) == [k \in 1..end.received |-> IF k <= Len(end.data) THEN end.data[k] ELSE "bad"]
        Answer(end) == [r |-> end.r, n |-> end.received, data |-> Given(end)]
    IN  CASE r.result = "End" -> [r |-> r, n |-> 0, data |-> <<>>]
          [] r.result = "Error" -> [r |-> r, n |-> -1, data |-> <<>>]
          [] r.result = "Ok" -> Answer(Iterate(ReadPass, start, Len(file) + 2))

(* QIODevice::read: what is in its buffer comes first; a small read then   *)
(* fills the buffer, a large one goes past it.                             *)
Answered(r, size, queue, device) ==
    LET n == Min({size, Len(queue)})
    IN  [r |-> [device.r EXCEPT !.qbuffer = SubSeq(queue, n + 1, Len(queue)), !.pos = r.pos + n],
         n |-> IF n = 0 /\ device.n < 0 THEN -1 ELSE n,
         data |-> SubSeq(queue, 1, n)]

QRead(r, file, size, ignore) ==
    LET kept == Min({size, Len(r.qbuffer)})
        rest == size - kept
        Behind(device) == Answered(r, size, SubSeq(r.qbuffer, 1, kept) \o device.data, device)
    IN  IF rest = 0 THEN Answered(r, size, r.qbuffer, [r |-> r, n |-> 0])
        ELSE Behind(ReadData(r, file, IF rest < QCap THEN QCap ELSE rest, ignore))

\* faulty: QIODevice is not told
FaultyRewind(r) ==
    [r EXCEPT !.result = "Ok", !.needHeader = r.kind # "raw", !.in = <<>>, !.at = 0,
              !.stage = IF r.kind = "raw" THEN "body" ELSE "head"]

(* seek(0), with the filter's reset. *)
Rewind(r) ==
    [r EXCEPT !.result = "Ok", !.needHeader = r.kind # "raw", !.in = <<>>, !.at = 0,
              !.stage = IF r.kind = "raw" THEN "body" ELSE "head", !.pos = 0, !.qbuffer = <<>>]

(* seek: to go back it reads as many cells as are between, less than none; *)
(* to go on it starts from the beginning and reads as many as are asked.   *)
Seek(r, file, pos) ==
    LET skipped == QRead(Rewind(r), file, pos, TRUE)
    IN  CASE r.pos = pos -> [r |-> r, ok |-> TRUE]
          [] r.pos # pos /\ pos = 0 -> [r |-> Rewind(r), ok |-> TRUE]
          [] r.pos > pos /\ pos # 0 -> [r |-> r, ok |-> pos - r.pos = -1]
          [] r.pos < pos -> [r |-> [skipped.r EXCEPT !.pos = pos], ok |-> skipped.n = pos]

\* faulty: what QIODevice has read ahead is left out
FaultyAtEnd(r, file) == r.result = "End" /\ r.at = Len(file)

AtEnd(r, file) == r.result = "End" /\ r.qbuffer = <<>> /\ r.at = Len(file)
=============================================================================

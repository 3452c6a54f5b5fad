------------------------------- MODULE SaveFile -------------------------------
(***************************************************************************)
(* QSaveFile: what is written goes to a temporary file, which takes the    *)
(* place of the old one when it is committed.  A save file is a record; a  *)
(* cell is a byte or more of a file.                                       *)
(***************************************************************************)
EXTENDS Integers, Sequences

CONSTANT
    Held            \* how much the temporary file keeps in memory

ASSUME SaveFileAssumption == Held \in Nat

(* open: room is what the disk has left.                                   *)
OpenSave(room) == [file |-> <<>>, held |-> <<>>, room |-> room, error |-> FALSE]

-----------------------------------------------------------------------------
(* The temporary file is a QFile.  The disk takes what it has room for.    *)
Store(save, data) ==
    LET n == IF Len(data) <= save.room THEN Len(data) ELSE save.room
    IN  [save EXCEPT !.file = @ \o SubSeq(data, 1, n), !.room = @ - n]

Flush(save) == [Store(save, save.held) EXCEPT !.held = <<>>]

(* What cannot be kept in memory makes what is there go to the disk first. *)
TempWrite(save, data) ==
    LET flushed == Flush(save)
        stored == Store(flushed, data)
    IN  IF Len(save.held) + Len(data) <= Held
        THEN [save |-> [save EXCEPT !.held = @ \o data], written |-> Len(data)]
        ELSE IF Len(save.held) > save.room
        THEN [save |-> flushed, written |-> -1]
        ELSE IF Len(data) <= Held
        THEN [save |-> [flushed EXCEPT !.held = data], written |-> Len(data)]
        ELSE [save |-> stored, written |-> Len(stored.file) - Len(flushed.file)]

-----------------------------------------------------------------------------
\* faulty: only a write that takes nothing is an error
FaultySaveWrite(save, data) ==
    LET write == TempWrite(save, data)
    IN  [write EXCEPT !.save.error = @ \/ write.written < 0]

(* writeData: an error is remembered. *)
SaveWrite(save, data) ==
    LET write == TempWrite(save, data)
    IN  [write EXCEPT !.save.error = @ \/ write.written # Len(data)]

(* commit: it tells whether the new file took the place of the old one.    *)
(* Closing the temporary file writes what was kept, and nothing looks at   *)
(* how that went.                                                          *)
Commit(save, old, renamed) ==
    IF save.error \/ ~renamed
    THEN [ok |-> FALSE, file |-> old]
    ELSE [ok |-> TRUE, file |-> Flush(save).file]
=============================================================================

------------------------------ MODULE AtomicFile ------------------------------
(***************************************************************************)
(* What a save file promises: whatever happens while a file is written,    *)
(* what is in its place is the old file, or all of the new one; or the     *)
(* beginning of it, if what was still in memory did not fit on the disk.   *)
(***************************************************************************)
EXTENDS Integers, Sequences

CONSTANT
    Payload         \* what a file may hold

VARIABLES
    content,        \* what the file holds
    draft,          \* what has been written to the new one, if there is one
    fits            \* what is still in memory has room on the disk

None == <<>>

AtomicInit == content \in Payload /\ draft = None

Begin == draft = None /\ draft' = <<(<<>>)>> /\ UNCHANGED content

Extend ==
    /\ draft # None
    /\ \E new \in Payload : /\ Len(new) > Len(draft[1])
                            /\ SubSeq(new, 1, Len(draft[1])) = draft[1]
                            /\ draft' = <<new>>
    /\ UNCHANGED content

Replace == draft # None /\ fits /\ content' = draft[1] /\ draft' = None

Tear ==
    /\ draft # None /\ ~fits
    /\ \E n \in 0..Len(draft[1]) : content' = SubSeq(draft[1], 1, n)
    /\ draft' = None

Discard == draft # None /\ draft' = None /\ UNCHANGED content

AtomicNext == Begin \/ Extend \/ Replace \/ Tear \/ Discard

AtomicSpec == AtomicInit /\ [][AtomicNext]_<<content, draft>>
=============================================================================

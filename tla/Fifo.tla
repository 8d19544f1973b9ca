-------------------------------- MODULE Fifo --------------------------------
(***************************************************************************)
(* What a queue in memory shared with a device promises: items are         *)
(* received in the order they were sent, none is lost, none comes twice.   *)
(* The items are numbered in the order of sending.                         *)
(***************************************************************************)
EXTENDS Naturals, Sequences

VARIABLES
    sent,       \* how many items have been sent
    received    \* the items received, in order

Init == sent = 0 /\ received = <<>>

Send == sent' = sent + 1 /\ UNCHANGED received

Receive ==
    /\ Len(received) < sent
    /\ received' = Append(received, Len(received) + 1)
    /\ UNCHANGED sent

Next == Send \/ Receive

Spec == Init /\ [][Next]_<<sent, received>>
=============================================================================

------------------------------ MODULE LossyFifo -----------------------------
(***************************************************************************)
(* What ECP promises to the protocol above it: upper layer PDUs, numbered  *)
(* in the order in which they are submitted, are delivered in that order   *)
(* and at most once; some may be lost.  A receiver that is restarted       *)
(* starts anew.                                                            *)
(***************************************************************************)
EXTENDS Naturals, Sequences

VARIABLES
    submitted,  \* number of PDUs submitted by the sending side
    delivered   \* PDUs delivered since the receiving side was started

Init == submitted = 0 /\ delivered = <<>>

Submit == submitted' = submitted + 1 /\ UNCHANGED delivered

Deliver(p) ==
    /\ \A i \in DOMAIN delivered : delivered[i] < p
    /\ delivered' = Append(delivered, p)
    /\ UNCHANGED submitted

Restart == delivered' = <<>> /\ UNCHANGED submitted

Next ==
    \/ Submit
    \/ \E p \in 1..submitted : Deliver(p)
    \/ Restart

Spec == Init /\ [][Next]_<<submitted, delivered>>
=============================================================================

--------------------------- MODULE TransmitBudget ---------------------------
(***************************************************************************)
(* The transmissions of the LLDP agents of a port, without timers and      *)
(* state machines: a leaky bucket per agent.  An LLDPDU adds one to the    *)
(* bucket and must find room in it, a second takes one out, and            *)
(* initialising an agent empties its bucket.                               *)
(***************************************************************************)
EXTENDS Naturals

CONSTANTS Agents, Max

VARIABLE bucket

Init == bucket = [a \in Agents |-> 0]

Send(a) ==
    /\ bucket[a] < Max
    /\ bucket' = [bucket EXCEPT ![a] = bucket[a] + 1]

Drain(a) ==
    /\ bucket[a] > 0
    /\ bucket' = [bucket EXCEPT ![a] = bucket[a] - 1]

Empty(as) == bucket' = [a \in Agents |-> IF a \in as THEN 0 ELSE bucket[a]]

Next ==
    \/ \E a \in Agents : Send(a) \/ Drain(a)
    \/ \E as \in SUBSET Agents : Empty(as)

Spec == Init /\ [][Next]_bucket
=============================================================================

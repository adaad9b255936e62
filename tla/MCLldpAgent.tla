---------------------------- MODULE MCLldpAgent -----------------------------
(* The LLDP agents of one port on small instances.                         *)
EXTENDS LldpAgent

CONSTANTS a1, a2, n1, n2

OneAgent == <<a1>>
TwoAgents == <<a1, a2>>

NoFrames == {}

Frame(n, t, g, q) ==
    [chassis |-> n, portid |-> n, ttl |-> t, good |-> g, qaz |-> q]

\* Two neighbours, and frames that fail validation at each of the TLVs.
TwoNeighbours ==
    {Frame(n1, 2, 4, FALSE), Frame(n1, 0, 4, FALSE), Frame(n2, 1, 4, TRUE),
     Frame(n2, 0, 4, FALSE), Frame(n2, 2, 1, FALSE), Frame(n2, 2, 2, FALSE),
     Frame(n2, 2, 3, FALSE)}

\* Three of them and the shutdown of the first, for the run with fairness.
MixedFrames == {Frame(n1, 1, 4, TRUE), Frame(n1, 0, 4, FALSE),
                Frame(n2, 1, 4, FALSE), Frame(n2, 1, 3, FALSE)}
=============================================================================

------------------------------ MODULE MCEvb22 -------------------------------
(* The EVB TLV on small instances.                                          *)
EXTENDS Evb22

Config(m, t, w) ==
    [tx |-> TRUE, mode |-> m, rte |-> t, rwd |-> w, gid |-> TRUE,
     rrreq |-> TRUE, rrcap |-> TRUE]

\* A station, and a bridge that has the larger exponent of ECP or leaves it to
\* the commands to raise it.  The wait of exponent 5 does not fit in an int of
\* 8 bits.
Crossed == {Config("station", 2, 5),
            Config("bridge", 5, 2), Config("bridge", 2, 2)}
=============================================================================

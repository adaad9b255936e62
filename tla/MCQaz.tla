------------------------------- MODULE MCQaz --------------------------------
(* Instances of Qaz for TLC.                                                 *)
EXTENDS Qaz, TLC

CONSTANTS n1, n2, v1, v2

Plain(v, willing) ==
    [ets |-> v, rec |-> v, etsW |-> willing, pfc |-> v, pfcW |-> willing,
     apps |-> {}, txRec |-> TRUE, txPfc |-> TRUE, txApp |-> FALSE,
     dcb |-> TRUE, adm |-> FALSE]

\* Both are willing; the second lists its applications.
MCCapable == {{n2}, {n1, n2}}
MCStart == (n1 :> Plain(v1, TRUE)) @@ (n2 :> [Plain(v2, TRUE) EXCEPT !.txApp = TRUE])

=============================================================================

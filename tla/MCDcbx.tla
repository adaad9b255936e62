------------------------------- MODULE MCDcbx -------------------------------
(* Instances of Dcbx for TLC.                                                *)
EXTENDS Dcbx, TLC

CONSTANTS n1, n2

On(w, c) == [adv |-> TRUE, en |-> TRUE, will |-> w, cfg |-> c]

\* One end is willing and the other is not.
MCStart == (n1 :> On(TRUE, "d")) @@ (n2 :> On(FALSE, "b"))
MCSettings ==
    {On(FALSE, "a"), [On(TRUE, "b") EXCEPT !.en = FALSE],
     [On(TRUE, "b") EXCEPT !.adv = FALSE]}
MCRefused == {}
MCMaxVersion == (n1 :> 0) @@ (n2 :> 0)

=============================================================================

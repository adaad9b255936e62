------------------------------- MODULE MCCtrl -------------------------------
(***************************************************************************)
(* Instance of Ctrl, two clients of root: a vdptool at its prompt, where   *)
(* -W may be typed, or a dcbtool at its prompt, whose events come without  *)
(* a module id, with an lldptool command; or two vdptool commands, with -W *)
(* or not.                                                                 *)
(***************************************************************************)
EXTENDS Ctrl, TLC

CONSTANTS c1, c2

Prompt(tool) == [tool |-> tool, shot |-> FALSE]
Command(tool) == [tool |-> tool, shot |-> TRUE]

MCStarted == {(c1 :> Prompt("vdptool")) @@ (c2 :> Command("lldptool")),
              (c1 :> Prompt("dcbtool")) @@ (c2 :> Command("lldptool")),
              (c1 :> Command("vdptool")) @@ (c2 :> Command("vdptool"))}
=============================================================================

------------------------------ MODULE MCHookIO ------------------------------
(* Instances of HookIO for TLC. *)
EXTENDS HookIO

CONSTANTS w1, w2, c1, c2

OnTwo == c1 :> w1 @@ c2 :> w2
=============================================================================

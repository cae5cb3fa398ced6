----------------------------- MODULE MCEpoller ------------------------------
(* Instances of Epoller for TLC. *)
EXTENDS Epoller
=============================================================================

------------------------------- MODULE MCRpc --------------------------------
(* An instance of Rpc: bytes of base 16, lengths of two bytes, one name that *)
(* is shorter than the shortest message and one that could be its length.   *)
EXTENDS Rpc, TLC

CONSTANTS A, B

Names == A :> <<6>> @@ B :> <<6, 7, 6>>
Bytes == {<<>>, <<0>>, <<1>>}
Replies == A :> [type |-> B, payload |-> <<>>] @@ B :> [type |-> A, payload |-> <<1>>]
=============================================================================

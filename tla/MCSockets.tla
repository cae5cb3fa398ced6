----------------------------- MODULE MCSockets ------------------------------
EXTENDS Sockets, TLC
MCTimeouts == {-1, 1500}            \* none, and no whole number of seconds
CoSymmetry == Permutations(Cos)
=============================================================================

------------------------------- MODULE MCChat -------------------------------
EXTENDS Chat

CONSTANTS r1, r2

TwoMessages == 1..2
Symmetric == Permutations(Conns) \cup Permutations(ClientIds)
                \cup Permutations(Requests)
=============================================================================

----------------------------- MODULE MCSessions -----------------------------
EXTENDS Sessions, TLC

Symmetric == Permutations(Handlers)
=============================================================================

--------------------------- MODULE MCVerification ---------------------------
EXTENDS Verification, TLC

CONSTANTS f1, f2, f3

ThreeKinds(f) == CASE f = f1 -> "front" [] f = f2 -> "back" [] f = f3 -> "cover"
Symmetric == Permutations(Tasks)
=============================================================================

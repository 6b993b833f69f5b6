--------------------------- MODULE MCRegistration ---------------------------
EXTENDS Registration, TLC

PlacesSymmetry ==
    Permutations(Users) \cup Permutations(Handlers) \cup Permutations(RequestIds)
OverlapSymmetry == Permutations(Handlers) \cup Permutations(Schedulers)
=============================================================================

---------------------------- MODULE MCMembership ----------------------------
EXTENDS Membership

CONSTANTS p1, p2

(* The second registration of a user is in another partition.              *)
TwoPartitions ==
    [r \in Users \X Attempts |-> IF r[2] = 1 THEN p1 ELSE p2]
=============================================================================

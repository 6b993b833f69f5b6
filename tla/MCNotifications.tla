-------------------------- MODULE MCNotifications ---------------------------
EXTENDS Notifications

CONSTANTS p1, created, decided, organizer, student

(* A registration and the decision on it.                                  *)
Both == {created, decided}
Kind == [e \in Both |-> IF e = created THEN "created" ELSE "approved"]
Registrant == [e \in Both |-> student]
OnePartition == [e \in Both |-> p1]
=============================================================================

------------------------------ MODULE Admission ------------------------------
(***************************************************************************)
(* What the registration service promises of one activity, whatever the    *)
(* rows, requests and scheduled jobs that bring it about: a place is given *)
(* at most once per user at a time and never beyond the capacity, a pass   *)
(* goes with a confirmed place only, and a pass admits once.               *)
(***************************************************************************)
EXTENDS Integers, FiniteSets

CONSTANTS Claims,    \* every claim to a place that may ever be made
          Claimant(_),  \* the user who makes it
          Capacity

VARIABLES place,  \* what became of each claim
          pass    \* and of the pass that goes with it

Held == {c \in Claims : place[c] \in {"reserved", "confirmed"}}

Init ==
    /\ place = [c \in Claims |-> "unclaimed"]
    /\ pass = [c \in Claims |-> "none"]

MayClaim(c) ==
    /\ place[c] = "unclaimed"
    /\ Cardinality(Held) < Capacity
    /\ \A d \in Held : Claimant(d) # Claimant(c)

Reserve(c) ==
    /\ MayClaim(c)
    /\ place' = [place EXCEPT ![c] = "reserved"]
    /\ UNCHANGED pass

(* A reserved place is confirmed, or a free one given at once.             *)
Confirm(c) ==
    /\ place[c] = "reserved" \/ MayClaim(c)
    /\ place' = [place EXCEPT ![c] = "confirmed"]
    /\ pass' = [pass EXCEPT ![c] = "valid"]

(* The place is free again; a pass not used by now is worth nothing.       *)
Release(c) ==
    /\ c \in Held
    /\ place' = [place EXCEPT ![c] = "released"]
    /\ pass' = [pass EXCEPT ![c] = IF @ = "valid" THEN "void" ELSE @]

Redeem(c) ==
    /\ pass[c] = "valid"
    /\ pass' = [pass EXCEPT ![c] = "redeemed"]
    /\ UNCHANGED place

Lapse(c) ==
    /\ pass[c] = "valid"
    /\ pass' = [pass EXCEPT ![c] = "void"]
    /\ UNCHANGED place

Next == \E c \in Claims :
    Reserve(c) \/ Confirm(c) \/ Release(c) \/ Redeem(c) \/ Lapse(c)

Spec == Init /\ [][Next]_<<place, pass>>
=============================================================================

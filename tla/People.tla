------------------------------- MODULE People -------------------------------
(***************************************************************************)
(* Whom the workers that read the events of one activity act upon.         *)
(***************************************************************************)
CONSTANTS
    Users,     \* who may register; the organizer may as well
    Organizer  \* of the activity

ASSUME PeopleAssumption == Organizer \in Users
=============================================================================

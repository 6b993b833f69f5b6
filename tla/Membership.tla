----------------------------- MODULE Membership -----------------------------
(***************************************************************************)
(* The chat membership worker: a consumer group that keeps the members of  *)
(* an activity's chat group in step with the registrations of the activity.*)
(* An approved registration joins, one that is cancelled, rejected or      *)
(* expired leaves; nobody compares versions, so the last event handled for *)
(* a user decides.                                                         *)
(*                                                                         *)
(* The registrations here are those of module Registration as their events *)
(* show them, and the relay stores the events in the order they happened.  *)
(* The partition of an event is that of its registration, not its user's.  *)
(***************************************************************************)
EXTENDS ConsumerGroup, People, Sequences

CONSTANTS
    MaxAttempts,          \* bound: registrations of one user
    RequireApproval,      \* of the activity
    RegistrationPartition \* partition of each user's n-th registration

Attempts == 1..MaxAttempts

ASSUME MembershipAssumption ==
    /\ MaxAttempts \in Nat \ {0}
    /\ RequireApproval \in BOOLEAN
    /\ RegistrationPartition \in [Users \X Attempts -> Partitions]

VARIABLES
    attempts,     \* number of registrations of each user
    registration, \* status of each user's latest registration
    stream,       \* the events stored in each partition, in offset order
    group,        \* the activity has a chat group
    membership,   \* status of each user's row in chat_group_members
    role,         \* role in that row
    overlap,      \* a partition was given away with records of it in hand
    crossed       \* users with a decision stored beside an open one that is
                  \* in another partition, until a decision finds none open

world == <<attempts, registration, stream>>
chat == <<group, membership, role>>
excuses == <<overlap, crossed>>
mvars == <<vars, world, chat, excuses>>

Undecided == {"pending", "approved"}
Outcomes == {"rejected", "expired", "cancelled"}
Statuses == {"none"} \cup Undecided \cup Outcomes
EventsOfUsers == [user : Users, kind : {"created", "approved"} \cup Outcomes]

MembershipTypeOK ==
    /\ TypeOK
    /\ attempts \in [Users -> 0..MaxAttempts]
    /\ registration \in [Users -> Statuses]
    /\ stream \in [Partitions -> Seq(EventsOfUsers)]
    /\ \A p \in Partitions : Len(stream[p]) = log[p]
    /\ group \in BOOLEAN
    /\ membership \in [Users -> {"none", "active", "left"}]
    /\ role \in [Users -> {"member", "owner"}]
    /\ overlap \in BOOLEAN
    /\ crossed \subseteq Users

(* Publishing creates the group with its owner; activities published before*)
(* groups existed have none.                                               *)
MembershipInit ==
    /\ Init
    /\ attempts = [u \in Users |-> 0]
    /\ registration = [u \in Users |-> "none"]
    /\ stream = [p \in Partitions |-> << >>]
    /\ group \in BOOLEAN
    /\ membership = [u \in Users |->
                        IF group /\ u = Organizer THEN "active" ELSE "none"]
    /\ role = [u \in Users |->
                  IF group /\ u = Organizer THEN "owner" ELSE "member"]
    /\ overlap = FALSE
    /\ crossed = {}

-----------------------------------------------------------------------------
(* What happens to registrations, and the events that say so.              *)

Decisions == {"approved"} \cup Outcomes

Decides(u, p, i) == stream[p][i].user = u /\ stream[p][i].kind \in Decisions

(* Decisions about u in partition p that the group has not committed.      *)
OpenIn(u, p) == {i \in committed[p] + 1..log[p] : Decides(u, p, i)}

StoreEvent(u, kind) ==
    LET p == RegistrationPartition[<<u, attempts'[u]>>]
        open == {q \in Partitions : OpenIn(u, q) # {}}
    IN /\ Produce(p)
       /\ stream' = [stream EXCEPT ![p] =
                         Append(@, [user |-> u, kind |-> kind])]
       /\ crossed' = IF kind = "created" \/ open = {p} THEN crossed
                     ELSE IF open = {} THEN crossed \ {u}
                     ELSE crossed \cup {u}

Register(u) ==
    /\ registration[u] \notin Undecided /\ attempts[u] < MaxAttempts
    /\ attempts' = [attempts EXCEPT ![u] = @ + 1]
    /\ registration' = [registration EXCEPT ![u] =
                           IF RequireApproval THEN "pending" ELSE "approved"]
    /\ StoreEvent(u, "created")
    /\ UNCHANGED <<chat, overlap>>

Decide(u, outcome) ==
    /\ outcome \in {"approved", "rejected", "expired"}
    /\ registration[u] = "pending"
    /\ registration' = [registration EXCEPT ![u] = outcome]
    /\ UNCHANGED <<attempts, chat, overlap>>
    /\ StoreEvent(u, outcome)

CancelRegistration(u) ==
    /\ registration[u] \in Undecided
    /\ registration' = [registration EXCEPT ![u] = "cancelled"]
    /\ UNCHANGED <<attempts, chat, overlap>>
    /\ StoreEvent(u, "cancelled")

-----------------------------------------------------------------------------
(* The handler.                                                            *)

EventOf(m, p) == stream[p][next[m][p] + 1]

chatMembershipActionForBug(kind) ==  \* a cancelled registration is forgotten
    CASE kind = "approved" -> "join"
      [] kind \in {"rejected", "expired"} -> "leave"
      [] OTHER -> "ignore"

chatMembershipActionFor(kind) ==
    CASE kind = "approved" -> "join"
      [] kind \in Outcomes -> "leave"
      [] OTHER -> "ignore"

(* CreateGroupWithOwner: both rows in one transaction, if there is none.   *)
WithOwner(f, value) ==
    IF group THEN f ELSE [f EXCEPT ![Organizer] = value]

JoinedRoleBug(u) ==  \* the upsert assigns role as well
    [WithOwner(role, "owner") EXCEPT ![u] = "member"]

(* The upsert of JoinGroup assigns status, never role.                     *)
JoinedRole(u) == WithOwner(role, "owner")

JoinGroup(u) ==
    /\ group' = TRUE
    /\ membership' = [WithOwner(membership, "active") EXCEPT ![u] = "active"]
    /\ role' = JoinedRole(u)

LeaveGroup(u) ==
    /\ membership' = IF group /\ membership[u] = "active"
                       THEN [membership EXCEPT ![u] = "left"]
                       ELSE membership
    /\ UNCHANGED <<group, role>>

HandleMembershipEvent(m, p) ==
    LET e == EventOf(m, p)
        action == chatMembershipActionFor(e.kind)
    IN /\ action = "join" => JoinGroup(e.user)
       /\ action = "leave" => LeaveGroup(e.user)
       /\ action = "ignore" => UNCHANGED chat

HandleMembership(m, p) ==
    /\ Handle(m, p)
    /\ HandleMembershipEvent(m, p)
    /\ UNCHANGED <<world, excuses>>

(* The handler fails after some of its transactions: all of them with the  *)
(* answer lost, or the group was created and the join did not happen.      *)
HandleFails(m, p) ==
    /\ handling[m] = NoPartition /\ next[m][p] < end[m][p]
    /\ \/ HandleMembershipEvent(m, p)
       \/ /\ chatMembershipActionFor(EventOf(m, p).kind) = "join"
          /\ group' = TRUE
          /\ membership' = WithOwner(membership, "active")
          /\ role' = WithOwner(role, "owner")
    /\ Stop(m)
    /\ UNCHANGED <<world, excuses>>

ChatQuiet == UNCHANGED <<world, chat, excuses>>

(* The member, or another that believes to own the partition, still has    *)
(* records of it from before.                                              *)
InHand(m, p) ==
    \/ next[m][p] < end[m][p]
    \/ \E k \in Members \ {m} : p \in mine[k] \/ next[k][p] < end[k][p]

AssignPartition(m, p) ==
    /\ Assign(m, p)
    /\ overlap' = (overlap \/ InHand(m, p))
    /\ UNCHANGED <<world, chat, crossed>>

WorkerStep(m) ==
    \/ Start(m) /\ ChatQuiet
    \/ Poll(m) /\ ChatQuiet
    \/ \E p \in Partitions : HandleMembership(m, p)
    \/ Commit(m) /\ ChatQuiet

MembershipNext ==
    \/ \E u \in Users :
          \/ Register(u)
          \/ \E outcome \in {"approved", "rejected", "expired"} :
                Decide(u, outcome)
          \/ CancelRegistration(u)
    \/ \E m \in Members :
          \/ WorkerStep(m)
          \/ Stop(m) /\ ChatQuiet
          \/ \E p \in Partitions :
                \/ HandleFails(m, p)
                \/ AssignPartition(m, p)
                \/ Revoke(m, p) /\ ChatQuiet

MembershipSpec == MembershipInit /\ [][MembershipNext]_mvars

FairMembershipSpec ==
    /\ MembershipSpec
    /\ \A m \in Members : WF_mvars(WorkerStep(m))
    /\ \A p \in Partitions :
          WF_mvars(/\ \A m \in Members : p \notin mine[m]
                   /\ \E m \in Members : AssignPartition(m, p))

-----------------------------------------------------------------------------
(* Everything stored is handled and committed, and nobody is about to      *)
(* handle any of it again.                                                 *)
CaughtUp ==
    \A p \in Partitions :
        /\ committed[p] = log[p]
        /\ \A m \in Members : /\ next[m][p] = end[m][p]
                              /\ p \in mine[m] => position[m][p] = log[p]

Registrants == Users \ {Organizer}

(* The domain document: exactly the approved users are in the group, once  *)
(* the worker has caught up. They are not: an approval of a user's new     *)
(* registration may be handled before the cancellation of the old one, if  *)
(* the two registrations have different partitions.                        *)
MembersAreApproved ==
    CaughtUp => \A u \in Registrants :
        membership[u] = "active" <=> registration[u] = "approved"

(* They are, through crashes, failed handlers and replays and with any     *)
(* partitions, except for users with such a crossing, as long as approval  *)
(* is needed and no partition changed hands with records in hand.          *)
MembersFollow ==
    RequireApproval /\ ~overlap /\ CaughtUp =>
        \A u \in Registrants \ crossed :
            membership[u] = "active" <=> registration[u] = "approved"

(* The group has its owner from the start, and keeps it as owner when the  *)
(* organizer registers for the activity too and joins once more.           *)
GroupHasOwner == group => role[Organizer] = "owner"

(* Liveness, under the same conditions: whoever stays approved becomes and *)
(* stays a member, and whoever gives up the place for good leaves for good.*)
MembershipSettles ==
    [](RequireApproval /\ ~overlap) => \A u \in Registrants :
        /\ <>[](registration[u] = "approved" /\ u \notin crossed) =>
              <>[](membership[u] = "active")
        /\ <>[](registration[u] \in Outcomes /\ u \notin crossed) =>
              <>[](membership[u] # "active")
=============================================================================

---------------------------- MODULE Registration ----------------------------
(***************************************************************************)
(* Registrations, tickets and check-ins of one published activity.         *)
(*                                                                         *)
(* The MySQL rows are the state; every HTTP request is a handler that      *)
(* first READS rows outside any transaction and later COMMITS one          *)
(* transaction, so everything between its steps can interleave with the    *)
(* other handlers and with the scheduler every server instance runs.       *)
(* A commit is atomic: its guards are the WHERE clauses and unique keys    *)
(* the transaction meets, and a guard that fails rolls all of it back.     *)
(***************************************************************************)
EXTENDS Integers, FiniteSets

CONSTANTS
    Users,           \* registrants
    MaxAttempts,     \* bound: registration rows one user may ever create
    MaxParticipants, \* activities.max_participants
    Handlers,        \* bound: requests in flight at once
    Schedulers,      \* server instances (or overlapping ticks of one)
    BatchLimit,      \* LIMIT of the scheduler's two list queries (200)
    RequestIds,      \* client_request_id values of check-in requests
    RegisterStart, RegisterEnd, ActivityStart, ActivityEnd,
    ApprovalWindow,  \* registrationApprovalWindow, 48h
    LeadTime,        \* ticketValidLeadTime, 1h
    Horizon          \* bound: the clock stops there

(* validateForm and validActivityWindow accepted the activity.             *)
ASSUME RegistrationAssumption ==
    /\ IsFiniteSet(Users)
    /\ MaxAttempts \in Nat
    /\ MaxParticipants \in Nat \ {0}
    /\ BatchLimit \in Nat \ {0}
    /\ {RegisterStart, RegisterEnd, ActivityStart, ActivityEnd,
        ApprovalWindow, LeadTime, Horizon} \subseteq Nat
    /\ RegisterStart < RegisterEnd
    /\ RegisterEnd <= ActivityStart
    /\ ActivityStart < ActivityEnd

(* A registration row is named by its user and the how-manieth it is of    *)
(* that user; the ticket of a registration has the registration's name,    *)
(* since tickets.registration_id is a unique key.                          *)
Rows == Users \X (1..MaxAttempts)
Owner(r) == r[1]

ActivityStatus == {"published", "ongoing", "finished", "cancelled"}
RegistrationStatus ==
    {"pending", "approved", "rejected", "cancelled", "expired"}
TicketStatus == {"unused", "used", "expired", "voided"}
Active == {"pending", "approved"}  \* active_flag = 1
NoDeadline == -1                   \* expires_at IS NULL

EventType ==
    {"registration.created", "registration.approved", "registration.rejected",
     "registration.cancelled", "registration.expired",
     "ticket.created", "ticket.voided", "ticket.used", "ticket.expired"}

VARIABLES
    now,             \* wall clock of the servers
    activityStatus,  \* activities.status
    requireApproval, \* activities.require_approval, fixed once published
    pendingCount,    \* activities.pending_participant_count
    approvedCount,   \* activities.approved_participant_count
    status,          \* activity_registrations.status, "none": no such row
    expiresAt,       \* activity_registrations.expires_at
    ticket,          \* tickets.status, "none": no such row
    checkIns,        \* check_ins rows
    outbox,          \* outbox_events rows of registrations and tickets
    replies,         \* <<request id, row>> of check-ins reported to a client
    handler,         \* what each request in flight has read
    scheduler        \* what each scheduler run is working on

rows == <<activityStatus, pendingCount, approvedCount, status, expiresAt,
          ticket, checkIns, outbox>>
vars == <<now, requireApproval, rows, replies, handler, scheduler>>

Idle == [op |-> "idle"]
HandlerState ==
    {Idle}
    \cup [op : {"register", "registerReady"}, user : Users,
          approved : BOOLEAN, deadline : Nat \cup {NoDeadline}]
    \cup [op : {"cancel"}, row : Rows, from : Active]
    \cup [op : {"cancelReady"}, row : Rows, from : Active, void : BOOLEAN]
    \cup [op : {"approve", "reject"}, row : Rows]
    \cup [op : {"checkIn"}, row : Rows, request : RequestIds]
    \cup [op : {"checkInRetry"}, request : RequestIds]
    \cup [op : {"cancelActivity"}, from : {"published", "ongoing"}]

RunState == [step : {"idle", "list", "expire", "close"},
             todo : SUBSET Rows]

TypeOK ==
    /\ now \in Nat
    /\ activityStatus \in ActivityStatus
    /\ requireApproval \in BOOLEAN
    /\ pendingCount \in Nat
    /\ approvedCount \in Nat
    /\ status \in [Rows -> RegistrationStatus \cup {"none"}]
    /\ expiresAt \in [Rows -> Nat \cup {NoDeadline}]
    /\ ticket \in [Rows -> TicketStatus \cup {"none"}]
    /\ checkIns \subseteq [row : Rows, request : RequestIds]
    /\ outbox \subseteq EventType \X Rows
    /\ replies \subseteq RequestIds \X Rows
    /\ handler \in [Handlers -> HandlerState]
    /\ scheduler \in [Schedulers -> RunState]

(* The activity has just been published: transition() of the activity      *)
(* service committed, nobody can have registered before.                   *)
Init ==
    /\ now = 0
    /\ activityStatus = "published"
    /\ requireApproval \in BOOLEAN
    /\ pendingCount = 0
    /\ approvedCount = 0
    /\ status = [r \in Rows |-> "none"]
    /\ expiresAt = [r \in Rows |-> NoDeadline]
    /\ ticket = [r \in Rows |-> "none"]
    /\ checkIns = {}
    /\ outbox = {}
    /\ replies = {}
    /\ handler = [h \in Handlers |-> Idle]
    /\ scheduler = [s \in Schedulers |-> [step |-> "idle", todo |-> {}]]

-----------------------------------------------------------------------------
(* Pieces the transactions are made of.                                    *)

AtMost(a, b) == IF a <= b THEN a ELSE b
Clamped(n) == IF n > 0 THEN n ELSE 0  \* GREATEST(n, 0)

(* The definitions named ...Bug are faulty variants that the project's      *)
(* mutation runs put in place of the definition after them.                *)

SlotFreeBug == approvedCount < MaxParticipants  \* reserved slots forgotten

(* The guard of adjustParticipantCounters.                                 *)
SlotFree == approvedCount + pendingCount < MaxParticipants

(* adjustParticipantCounters.                                              *)
AdjustCounters(pendingDelta, approvedDelta) ==
    /\ pendingCount' = Clamped(pendingCount + pendingDelta)
    /\ approvedCount' = Clamped(approvedCount + approvedDelta)

(* FindActive.                                                             *)
HasActive(u) == \E r \in Rows : Owner(r) = u /\ status[r] \in Active

KeyFreeBug(u) == TRUE  \* no unique index behind the check

(* The unique key uk_active_registration when a row is inserted.           *)
KeyFree(u) == ~HasActive(u)

(* INSERT creates a row of its own for every attempt of a user.            *)
IsNextRow(r) ==
    /\ status[r] = "none"
    /\ r[2] > 1 => status[<<r[1], r[2] - 1>>] # "none"

StillInBug(r, from) == status[r] \in Active  \* guarded by active_flag

(* WHERE id = ? AND status = ? of the registration transition.             *)
StillIn(r, from) == status[r] = from

TicketUsableBug(r) == ticket[r] # "none"  \* WHERE id = ?

(* UPDATE tickets ... WHERE id = ? AND status = unused: rows affected.     *)
TicketUsable(r) == ticket[r] = "unused"

Emit(types, r) == outbox' = outbox \cup (types \X {r})

Read(h, state) ==
    /\ handler[h] = Idle
    /\ handler' = [handler EXCEPT ![h] = state]
    /\ UNCHANGED <<now, requireApproval, rows, replies, scheduler>>

Finish(h) ==
    /\ handler' = [handler EXCEPT ![h] = Idle]
    /\ UNCHANGED <<now, requireApproval, scheduler>>

(* A transaction whose guard failed: rolled back, 409 or 500 to the client *)
Rollback(h) == Finish(h) /\ UNCHANGED <<rows, replies>>

-----------------------------------------------------------------------------
(* POST /activities/:id/registrations                                      *)

Registerable ==
    /\ activityStatus \in {"published", "ongoing"}
    /\ RegisterStart <= now
    /\ now <= RegisterEnd

(* approvalDeadline: a pending row never outlives the activity's start.    *)
ApprovalDeadline == AtMost(now + ApprovalWindow, ActivityStart)

(* The activity is read and its status and window checked. Whether the     *)
(* user meets the activity's requirements is not modelled: one who does    *)
(* not is a handler that gives up.                                         *)
RegisterRead(h, u) ==
    /\ Registerable
    /\ Read(h, [op |-> "register", user |-> u, approved |-> ~requireApproval,
                deadline |-> IF requireApproval THEN ApprovalDeadline
                                                ELSE NoDeadline])

(* FindActive, a second read.                                              *)
RegisterCheck(h) ==
    /\ handler[h].op = "register"
    /\ IF HasActive(handler[h].user)
         THEN Rollback(h)
         ELSE /\ handler' = [handler EXCEPT ![h].op = "registerReady"]
              /\ UNCHANGED <<now, requireApproval, rows, replies, scheduler>>

(* The transaction: the guarded counter update takes the slot, the insert  *)
(* meets the unique key, an approved row gets its ticket at once.          *)
Insert(r, approved, deadline) ==
    /\ AdjustCounters(IF approved THEN 0 ELSE 1, IF approved THEN 1 ELSE 0)
    /\ status' = [status EXCEPT ![r] =
                    IF approved THEN "approved" ELSE "pending"]
    /\ expiresAt' = [expiresAt EXCEPT ![r] = deadline]
    /\ ticket' = IF approved THEN [ticket EXCEPT ![r] = "unused"] ELSE ticket
    /\ Emit({"registration.created"}
              \cup (IF approved THEN {"ticket.created"} ELSE {}), r)

RegisterCommit(h) ==
    /\ handler[h].op = "registerReady"
    /\ \/ /\ SlotFree /\ KeyFree(handler[h].user)
          /\ \E r \in Rows :
                /\ Owner(r) = handler[h].user /\ IsNextRow(r)
                /\ Insert(r, handler[h].approved, handler[h].deadline)
          /\ Finish(h)
          /\ UNCHANGED <<activityStatus, checkIns, replies>>
       \/ /\ ~(SlotFree /\ KeyFree(handler[h].user))
          /\ Rollback(h)

-----------------------------------------------------------------------------
(* The repository's Transition transaction: a guarded status update and    *)
(* everything that goes with it.                                           *)

Move(r, to, pendingDelta, approvedDelta) ==
    /\ status' = [status EXCEPT ![r] = to]
    /\ AdjustCounters(pendingDelta, approvedDelta)
    /\ UNCHANGED <<activityStatus, expiresAt, checkIns>>

VoidTicketBug(r) == ticket' = [ticket EXCEPT ![r] = "voided"]

(* The guarded ticket update of a cancellation: no error, and no effect,   *)
(* when somebody else closed the ticket since it was read.                 *)
VoidTicket(r) ==
    ticket' = IF TicketUsable(r) THEN [ticket EXCEPT ![r] = "voided"]
                                 ELSE ticket

(* DELETE of the caller's own registration. The row is read first, ...     *)
CancelRead(h, r) ==
    /\ status[r] \in Active
    /\ Read(h, [op |-> "cancel", row |-> r, from |-> status[r]])

(* ... then its ticket: only one seen unused will be voided ...            *)
CancelReadTicket(h) ==
    /\ handler[h].op = "cancel"
    /\ LET r == handler[h].row IN
       handler' = [handler EXCEPT ![h] =
                     [op |-> "cancelReady", row |-> r,
                      from |-> handler[h].from, void |-> TicketUsable(r)]]
    /\ UNCHANGED <<now, requireApproval, rows, replies, scheduler>>

CancelEvents(void) ==
    {"registration.cancelled"} \cup IF void THEN {"ticket.voided"} ELSE {}

(* ... and the transaction releases the slot the row held when read.       *)
CancelCommit(h) ==
    /\ handler[h].op = "cancelReady"
    /\ LET r == handler[h].row
           from == handler[h].from
           void == handler[h].void
       IN \/ /\ StillIn(r, from)
             /\ Move(r, "cancelled", IF from = "pending" THEN -1 ELSE 0,
                                     IF from = "approved" THEN -1 ELSE 0)
             /\ IF void THEN VoidTicket(r) ELSE UNCHANGED ticket
             /\ Emit(CancelEvents(void), r)
             /\ Finish(h)
             /\ UNCHANGED replies
          \/ ~StillIn(r, from) /\ Rollback(h)

(* Approve and Reject of the organizer or an administrator. Neither the    *)
(* activity's status nor the deadline of the row is looked at.             *)
ReviewRead(h, r, op) ==
    /\ status[r] = "pending"
    /\ Read(h, [op |-> op, row |-> r])

ApproveCommit(h) ==
    /\ handler[h].op = "approve"
    /\ LET r == handler[h].row IN
       \/ /\ StillIn(r, "pending") /\ ticket[r] = "none"
          /\ Move(r, "approved", -1, 1)
          /\ ticket' = [ticket EXCEPT ![r] = "unused"]
          /\ Emit({"registration.approved", "ticket.created"}, r)
          /\ Finish(h)
          /\ UNCHANGED replies
       \/ ~(StillIn(r, "pending") /\ ticket[r] = "none") /\ Rollback(h)

RejectCommit(h) ==
    /\ handler[h].op = "reject"
    /\ LET r == handler[h].row IN
       \/ /\ StillIn(r, "pending")
          /\ Move(r, "rejected", -1, 0)
          /\ Emit({"registration.rejected"}, r)
          /\ Finish(h)
          /\ UNCHANGED <<ticket, replies>>
       \/ ~StillIn(r, "pending") /\ Rollback(h)

-----------------------------------------------------------------------------
(* POST /check-ins                                                         *)

Recorded(q) == {c \in checkIns : c.request = q}
Reply(q, r) == replies' = replies \cup {<<q, r>>}

(* checkInAllowed, with both ends of the validity window included.         *)
CheckInAllowed(r) ==
    /\ TicketUsable(r)
    /\ activityStatus # "cancelled"
    /\ ActivityStart - LeadTime <= now
    /\ now <= ActivityEnd

(* A request id seen before is answered with its record, whatever ticket   *)
(* the replay names.                                                       *)
CheckInReplay(h, q) ==
    /\ handler[h] = Idle
    /\ \E c \in Recorded(q) : Reply(q, c.row)
    /\ UNCHANGED <<now, requireApproval, rows, handler, scheduler>>

(* No record: ticket and activity are read. Reading them together loses    *)
(* nothing, a ticket that is not unused never becomes so again.            *)
CheckInRead(h, r, q) ==
    /\ Recorded(q) = {}
    /\ CheckInAllowed(r)
    /\ Read(h, [op |-> "checkIn", row |-> r, request |-> q])

CheckInUniqueBug(r, q) == ~\E c \in checkIns : c.row = r

(* The unique keys ticket_id and client_request_id of check_ins.           *)
CheckInUnique(r, q) ==
    ~\E c \in checkIns : c.row = r \/ c.request = q

CheckInCommit(h) ==
    /\ handler[h].op = "checkIn"
    /\ LET r == handler[h].row
           q == handler[h].request
       IN \/ /\ TicketUsable(r) /\ CheckInUnique(r, q)
             /\ ticket' = [ticket EXCEPT ![r] = "used"]
             /\ checkIns' = checkIns \cup {[row |-> r, request |-> q]}
             /\ Emit({"ticket.used"}, r)
             /\ Reply(q, r)
             /\ Finish(h)
             /\ UNCHANGED <<activityStatus, pendingCount, approvedCount,
                            status, expiresAt>>
          \/ /\ ~(TicketUsable(r) /\ CheckInUnique(r, q))
             /\ handler' = [handler EXCEPT ![h] =
                              [op |-> "checkInRetry", request |-> q]]
             /\ UNCHANGED <<now, requireApproval, rows, replies, scheduler>>

(* After a failed transaction the request id is looked up once more: a     *)
(* concurrent replay that won is reported as this request's own success.   *)
CheckInRetry(h) ==
    /\ handler[h].op = "checkInRetry"
    /\ LET q == handler[h].request IN
       IF Recorded(q) = {} THEN UNCHANGED replies
                           ELSE \E c \in Recorded(q) : Reply(q, c.row)
    /\ Finish(h)
    /\ UNCHANGED rows

-----------------------------------------------------------------------------
(* POST /activities/:id/cancel. Registrations and tickets are left alone;  *)
(* the activity's own events and its chat group are of module Activity.    *)

CancelActivityRead(h) ==
    /\ activityStatus \in {"published", "ongoing"}
    /\ Read(h, [op |-> "cancelActivity", from |-> activityStatus])

CancelActivityCommit(h) ==
    /\ handler[h].op = "cancelActivity"
    /\ activityStatus' = IF activityStatus = handler[h].from
                           THEN "cancelled" ELSE activityStatus
    /\ Finish(h)
    /\ UNCHANGED <<pendingCount, approvedCount, status, expiresAt, ticket,
                   checkIns, outbox, replies>>

(* Any handler may end without its transaction: a check that fails, a lost *)
(* connection, a crash of its instance.                                    *)
GiveUp(h) ==
    /\ handler[h] # Idle
    /\ Rollback(h)

-----------------------------------------------------------------------------
(* The scheduler of startActivityScheduler.                                *)

Goto(s, step, todo) ==
    /\ scheduler' = [scheduler EXCEPT ![s] = [step |-> step, todo |-> todo]]
    /\ UNCHANGED <<now, requireApproval, replies, handler>>

(* nextTimedStatus, which SyncStatuses applies in one transaction. The     *)
(* scheduler only logs that it failed and goes on.                         *)
NextTimedStatus ==
    IF activityStatus \in {"published", "ongoing"} /\ ActivityEnd <= now
      THEN "finished"
    ELSE IF activityStatus = "published" /\ ActivityStart <= now
      THEN "ongoing"
    ELSE activityStatus

SyncStatuses(s) ==
    /\ scheduler[s].step = "idle"
    /\ activityStatus' \in {NextTimedStatus, activityStatus}
    /\ Goto(s, "list", {})
    /\ UNCHANGED <<pendingCount, approvedCount, status, expiresAt, ticket,
                   checkIns, outbox>>

(* ORDER BY key LIMIT BatchLimit.                                          *)
Batches(S, key) ==
    {T \in SUBSET S :
        /\ Cardinality(T) = AtMost(BatchLimit, Cardinality(S))
        /\ \A x \in T, y \in S \ T : key[x] <= key[y]}

OverduePendingBug ==  \* joined with the activities still open
    {r \in Rows : /\ status[r] = "pending"
                  /\ expiresAt[r] # NoDeadline /\ expiresAt[r] <= now
                  /\ activityStatus # "cancelled"}

OverduePending ==
    {r \in Rows : /\ status[r] = "pending"
                  /\ expiresAt[r] # NoDeadline /\ expiresAt[r] <= now}

OverdueTicketsBug ==
    {r \in Rows : /\ ticket[r] = "unused" /\ ActivityEnd <= now
                  /\ activityStatus # "cancelled"}

(* valid_end_at of every ticket is the end of the activity.                *)
OverdueTickets == {r \in Rows : ticket[r] = "unused" /\ ActivityEnd <= now}

(* ListExpiredPending.                                                     *)
ListPending(s) ==
    /\ scheduler[s].step = "list"
    /\ \E batch \in Batches(OverduePending, expiresAt) :
          Goto(s, "expire", batch)
    /\ UNCHANGED rows

(* One transaction for each listed row; a row decided meanwhile is skipped.*)
ExpirePending(s, r) ==
    /\ scheduler[s].step = "expire" /\ r \in scheduler[s].todo
    /\ \/ /\ StillIn(r, "pending")
          /\ Move(r, "expired", -1, 0)
          /\ Emit({"registration.expired"}, r)
          /\ UNCHANGED ticket
       \/ ~StillIn(r, "pending") /\ UNCHANGED rows
    /\ Goto(s, "expire", scheduler[s].todo \ {r})

(* ListExpiredUnused, once ExpirePending returned: finished or with an     *)
(* error, which abandons the rest of its list.                             *)
ListTickets(s) ==
    /\ scheduler[s].step = "expire" /\ scheduler[s].todo = {}
    /\ \E batch \in Batches(OverdueTickets, [r \in Rows |-> ActivityEnd]) :
          Goto(s, "close", batch)
    /\ UNCHANGED rows

ExpireTicket(s, r) ==
    /\ scheduler[s].step = "close" /\ r \in scheduler[s].todo
    /\ \/ /\ TicketUsable(r)
          /\ ticket' = [ticket EXCEPT ![r] = "expired"]
          /\ Emit({"ticket.expired"}, r)
          /\ UNCHANGED <<activityStatus, pendingCount, approvedCount, status,
                         expiresAt, checkIns>>
       \/ ~TicketUsable(r) /\ UNCHANGED rows
    /\ Goto(s, "close", scheduler[s].todo \ {r})

EndRun(s) ==
    /\ scheduler[s].step = "close" /\ scheduler[s].todo = {}
    /\ Goto(s, "idle", {})
    /\ UNCHANGED rows

(* An error ends the job it hits and leaves the rest of its list, or all   *)
(* of it when the query itself failed.                                     *)
AbandonBatch(s) ==
    /\ \/ scheduler[s].step = "list" /\ Goto(s, "expire", {})
       \/ scheduler[s].todo # {} /\ Goto(s, scheduler[s].step, {})
    /\ UNCHANGED rows

(* The instance crashes, or its 30 s run out.                              *)
Crash(s) ==
    /\ scheduler[s].step # "idle"
    /\ Goto(s, "idle", {})
    /\ UNCHANGED rows

Tick ==
    /\ now < Horizon
    /\ now' = now + 1
    /\ UNCHANGED <<requireApproval, rows, replies, handler, scheduler>>

-----------------------------------------------------------------------------
HandlerStep(h) ==
    \/ \E u \in Users : RegisterRead(h, u)
    \/ RegisterCheck(h)
    \/ RegisterCommit(h)
    \/ \E r \in Rows : CancelRead(h, r)
    \/ CancelReadTicket(h)
    \/ CancelCommit(h)
    \/ \E r \in Rows, op \in {"approve", "reject"} : ReviewRead(h, r, op)
    \/ ApproveCommit(h)
    \/ RejectCommit(h)
    \/ \E q \in RequestIds : CheckInReplay(h, q)
    \/ \E r \in Rows, q \in RequestIds : CheckInRead(h, r, q)
    \/ CheckInCommit(h)
    \/ CheckInRetry(h)
    \/ CancelActivityRead(h)
    \/ CancelActivityCommit(h)
    \/ GiveUp(h)

SchedulerStep(s) ==
    \/ SyncStatuses(s)
    \/ ListPending(s)
    \/ \E r \in Rows : ExpirePending(s, r)
    \/ ListTickets(s)
    \/ \E r \in Rows : ExpireTicket(s, r)
    \/ EndRun(s)
    \/ AbandonBatch(s)
    \/ Crash(s)

Next ==
    \/ \E h \in Handlers : HandlerStep(h)
    \/ \E s \in Schedulers : SchedulerStep(s)
    \/ Tick

Spec == Init /\ [][Next]_vars

-----------------------------------------------------------------------------
(* Safety                                                                  *)

Rowset(S) == {r \in Rows : status[r] \in S}

(* The two participant counters the capacity guard and the activity page   *)
(* read are exactly the rows they count: no transition, however it races,  *)
(* releases a slot twice or forgets one.                                   *)
CountersMatchRows ==
    /\ pendingCount = Cardinality(Rowset({"pending"}))
    /\ approvedCount = Cardinality(Rowset({"approved"}))

(* The rows themselves, not the counters, never exceed the capacity.       *)
NoOverbooking == Cardinality(Rowset(Active)) <= MaxParticipants

(* uk_active_registration: a user holds one active registration at most.   *)
OneActiveRow ==
    \A r, t \in Rowset(Active) : Owner(r) = Owner(t) => r = t

(* A ticket that still admits belongs to an approved registration, and an  *)
(* approved registration was given its ticket: no cancellation leaves one  *)
(* behind, although it decides what to void from an earlier read.          *)
TicketsFollowRows ==
    \A r \in Rows :
        /\ ticket[r] = "unused" => status[r] = "approved"
        /\ status[r] = "approved" => ticket[r] # "none"
        /\ ticket[r] = "voided" => status[r] = "cancelled"
        /\ status[r] = "none" => ticket[r] = "none"

(* What a cancellation still in flight decided from its earlier reads stays*)
(* right: a row seen approved has a ticket, and a ticket seen no longer    *)
(* unused, which it will not void, is never unused again.                  *)
PlansHold ==
    \A h \in Handlers :
        /\ handler[h].op \in {"cancel", "cancelReady"}
        /\ handler[h].from = "approved"
        =>
        /\ ticket[handler[h].row] # "none"
        /\ handler[h].op = "cancelReady" /\ ~handler[h].void =>
              ticket[handler[h].row] # "unused"

(* A ticket is used exactly when one check-in records it, and no request   *)
(* id stands for two check-ins.                                            *)
UsedOnce ==
    /\ \A r \in Rows :
          ticket[r] = "used" <=> \E c \in checkIns : c.row = r
    /\ \A c, d \in checkIns :
          c.row = d.row \/ c.request = d.request => c = d

(* Idempotency as the operator sees it: all successes reported for one     *)
(* request id, first answer, replay or lost race, are of one and the same  *)
(* check-in, and that one is committed.                                    *)
RepliesAgree ==
    /\ \A x, y \in replies : x[1] = y[1] => x = y
    /\ \A x \in replies : [row |-> x[2], request |-> x[1]] \in checkIns

(* The outbox tells the story of the rows: an event is there exactly if    *)
(* the row has made the change it reports. For "ticket.voided" only one    *)
(* direction holds: a cancellation announces it from its earlier read of   *)
(* the ticket, even if the ticket was used or expired in between.          *)
OutboxTellsRows ==
    \A r \in Rows :
        /\ <<"registration.created", r>> \in outbox <=> status[r] # "none"
        /\ <<"registration.rejected", r>> \in outbox <=> status[r] = "rejected"
        /\ <<"registration.cancelled", r>> \in outbox <=> status[r] = "cancelled"
        /\ <<"registration.expired", r>> \in outbox <=> status[r] = "expired"
        /\ <<"registration.approved", r>> \in outbox =>
              status[r] \in {"approved", "cancelled"}
        /\ <<"ticket.created", r>> \in outbox <=> ticket[r] # "none"
        /\ <<"ticket.used", r>> \in outbox <=> ticket[r] = "used"
        /\ <<"ticket.expired", r>> \in outbox <=> ticket[r] = "expired"
        /\ ticket[r] = "voided" => <<"ticket.voided", r>> \in outbox

(* rejected, cancelled and expired registrations and used, expired and     *)
(* voided tickets are final, also for a handler that read an earlier state.*)
FinalStaysFinal ==
    [][\A r \in Rows :
        /\ status[r] \notin Active \cup {"none"} => status'[r] = status[r]
        /\ ticket[r] \in {"used", "expired", "voided"} =>
              ticket'[r] = ticket[r]]_vars

-----------------------------------------------------------------------------
(* Refinement: every transaction is one step of Admission, and nothing     *)
(* else that a handler or the scheduler does can be seen there.            *)

PlaceOf == [r \in Rows |->
    CASE status[r] = "none" -> "unclaimed"
      [] status[r] = "pending" -> "reserved"
      [] status[r] = "approved" -> "confirmed"
      [] OTHER -> "released"]

PassOf == [r \in Rows |->
    CASE ticket[r] = "none" -> "none"
      [] ticket[r] = "unused" -> "valid"
      [] ticket[r] = "used" -> "redeemed"
      [] OTHER -> "void"]

Promise == INSTANCE Admission
    WITH Claims <- Rows, Claimant <- Owner, Capacity <- MaxParticipants,
         place <- PlaceOf, pass <- PassOf

(* The rows and tickets behave as Admission promises: no double booking, no*)
(* place above the capacity, no pass without a confirmed place, and a pass *)
(* redeemed once.                                                          *)
KeepsPromise == Promise!Spec

-----------------------------------------------------------------------------
(* Liveness                                                                *)

(* Time passes and the job of a server instance is started again and       *)
(* again; an error or a crash may hit any run of it, but not the same      *)
(* statement in every run.                                                 *)
SchedulerFairness(s) ==
    /\ WF_vars(SyncStatuses(s))
    /\ SF_vars(ListPending(s))
    /\ SF_vars(ListTickets(s))
    /\ WF_vars(EndRun(s))
    /\ \A r \in Rows : SF_vars(ExpirePending(s, r)) /\ SF_vars(ExpireTicket(s, r))

FairSpec ==
    /\ Spec
    /\ WF_vars(Tick)
    /\ \A s \in Schedulers : SchedulerFairness(s)

(* No pending registration keeps its slot for ever: somebody decides, or   *)
(* the scheduler expires it, however many rows are overdue.                *)
PendingIsDecided == \A r \in Rows : status[r] = "pending" ~> status[r] # "pending"

(* No ticket stays redeemable for ever.                                    *)
TicketsAreClosed == \A r \in Rows : ticket[r] = "unused" ~> ticket[r] # "unused"

=============================================================================

------------------------- MODULE RegistrationProofs -------------------------
(***************************************************************************)
(* Proofs about Registration, for any number of users, handlers and        *)
(* scheduler instances, any capacity and any time windows.                 *)
(***************************************************************************)
EXTENDS Registration, FiniteSetTheorems, TLAPS

-----------------------------------------------------------------------------
(* Counting rows.                                                          *)

(* Only finitely many registrations are ever made.                         *)
LEMMA RowsFinite == IsFiniteSet(Rows)
<1>1. IsFiniteSet(1..MaxAttempts)
  BY RegistrationAssumption, FS_Interval
<1> QED
  BY <1>1, RegistrationAssumption, FS_Product DEF Rows

(* Any set of registrations can be counted.                                *)
LEMMA RowsetFinite ==
  ASSUME NEW P, P \subseteq Rows
  PROVE  IsFiniteSet(P) /\ Cardinality(P) \in Nat
  BY RowsFinite, FS_Subset, FS_CardinalityType

(* How one row's change of status changes the number of rows in a status.  *)
LEMMA CountAfterMove ==
  ASSUME NEW f \in [Rows -> RegistrationStatus \cup {"none"}],
         NEW r \in Rows, NEW to \in RegistrationStatus, NEW v
  PROVE  LET old == Cardinality({x \in Rows : f[x] \in {v}})
             new == Cardinality({x \in Rows : [f EXCEPT ![r] = to][x] \in {v}})
         IN  /\ old \in Nat
             /\ f[r] # v /\ to = v => new = old + 1
             /\ f[r] = v /\ to # v => new = old - 1 /\ old > 0
             /\ (f[r] = v <=> to = v) => new = old
<1> DEFINE Old == {x \in Rows : f[x] \in {v}}
           New == {x \in Rows : [f EXCEPT ![r] = to][x] \in {v}}
<1>1. IsFiniteSet(Old) /\ Cardinality(Old) \in Nat
  BY RowsetFinite
<1>2. CASE f[r] # v /\ to = v
  <2>1. New = Old \cup {r}  BY <1>2
  <2>2. r \notin Old  BY <1>2
  <2> HIDE DEF Old, New
  <2>3. Cardinality(New) = Cardinality(Old) + 1
    BY <1>1, <2>1, <2>2, FS_AddElement
  <2> QED  BY <1>1, <1>2, <2>3 DEF Old, New
<1>3. CASE f[r] = v /\ to # v
  <2>1. New = Old \ {r}  BY <1>3
  <2>2. r \in Old  BY <1>3
  <2>3. IsFiniteSet(New) /\ Cardinality(New) \in Nat
    BY RowsetFinite
  <2> HIDE DEF Old, New
  <2>4. Cardinality(New) = Cardinality(Old) - 1
    BY <1>1, <2>1, <2>2, FS_RemoveElement
  <2> QED  BY <1>1, <1>3, <2>3, <2>4 DEF Old, New
<1>4. CASE f[r] = v <=> to = v
  <2>1. New = Old  BY <1>4
  <2> HIDE DEF Old, New
  <2> QED  BY <1>1, <1>4, <2>1 DEF Old, New
<1> QED  BY <1>2, <1>3, <1>4

-----------------------------------------------------------------------------
(* Types.                                                                  *)

(* What a handler in each of its stages holds.                             *)
LEMMA HandlerHolds ==
  ASSUME TypeOK, NEW h \in Handlers
  PROVE  /\ handler[h].op \in {"register", "registerReady"} =>
              /\ handler[h] \in [op : {"register", "registerReady"},
                                 user : Users, approved : BOOLEAN,
                                 deadline : Nat \cup {NoDeadline}]
         /\ handler[h].op = "cancel" =>
              handler[h] \in [op : {"cancel"}, row : Rows, from : Active]
         /\ handler[h].op = "cancelReady" =>
              handler[h] \in [op : {"cancelReady"}, row : Rows,
                              from : Active, void : BOOLEAN]
         /\ handler[h].op \in {"approve", "reject"} =>
              handler[h] \in [op : {"approve", "reject"}, row : Rows]
         /\ handler[h].op = "checkIn" =>
              handler[h] \in [op : {"checkIn"}, row : Rows,
                              request : RequestIds]
         /\ handler[h].op = "checkInRetry" =>
              handler[h] \in [op : {"checkInRetry"}, request : RequestIds]
         /\ handler[h].op = "cancelActivity" =>
              handler[h] \in [op : {"cancelActivity"},
                              from : {"published", "ongoing"}]
<1>1. handler[h] \in HandlerState  BY DEF TypeOK
<1> QED  BY <1>1 DEF HandlerState, Idle

(* The counters stay natural numbers whatever is added to them.            *)
LEMMA CountersTyped ==
  ASSUME TypeOK, NEW d \in Int, NEW e \in Int, AdjustCounters(d, e)
  PROVE  pendingCount' \in Nat /\ approvedCount' \in Nat
  BY DEF TypeOK, AdjustCounters, Clamped

(* A batch consists of overdue rows.                                       *)
LEMMA BatchSubset ==
  ASSUME NEW S, NEW key, NEW T \in Batches(S, key)
  PROVE  T \subseteq S
  BY DEF Batches

(* Every state a run can reach is well-typed: rows, counters, and what the *)
(* requests and the scheduler remember.                                    *)
LEMMA TypeInit == Init => TypeOK
  BY DEF Init, TypeOK, ActivityStatus, HandlerState, RunState

LEMMA TypeStep == TypeOK /\ [Next]_vars => TypeOK'
<1> SUFFICES ASSUME TypeOK, [Next]_vars
             PROVE  TypeOK'
  OBVIOUS
<1> USE DEF TypeOK
<1>1. ASSUME NEW h \in Handlers, HandlerStep(h)
      PROVE  TypeOK'
  <2> DEFINE state == handler[h]
  <2>a. ASSUME NEW new \in HandlerState, handler' = [handler EXCEPT ![h] = new]
        PROVE  handler' \in [Handlers -> HandlerState]
    BY <2>a
  <2>b. ASSUME handler' = [handler EXCEPT ![h] = Idle]
        PROVE  handler' \in [Handlers -> HandlerState]
    <3>1. Idle \in HandlerState  BY DEF HandlerState
    <3> QED  BY <3>1, <2>b, <2>a
  <2>1. CASE \E u \in Users : RegisterRead(h, u)
    <3> PICK u \in Users : RegisterRead(h, u)  BY <2>1
    <3> DEFINE new == [op |-> "register", user |-> u,
                       approved |-> ~requireApproval,
                       deadline |-> IF requireApproval THEN ApprovalDeadline
                                                       ELSE NoDeadline]
    <3>1. ApprovalDeadline \in Nat
      BY RegistrationAssumption DEF ApprovalDeadline, AtMost
    <3>2. new \in HandlerState  BY <3>1 DEF HandlerState
    <3> QED  BY <3>2, <2>a DEF RegisterRead, Read, rows
  <2>2. CASE RegisterCheck(h)
    <3>1. CASE HasActive(handler[h].user)
      BY <2>2, <3>1, <2>b DEF RegisterCheck, Rollback, Finish, rows
    <3>2. CASE ~HasActive(handler[h].user)
      <4>1. [handler[h] EXCEPT !.op = "registerReady"] \in HandlerState
        BY <2>2, HandlerHolds DEF RegisterCheck, HandlerState
      <4> QED  BY <2>2, <3>2, <4>1 DEF RegisterCheck, rows
    <3> QED  BY <3>1, <3>2
  <2>3. CASE RegisterCommit(h)
    <3>1. CASE Rollback(h)
      BY <3>1, <2>b DEF Rollback, Finish, rows
    <3>2. ASSUME NEW r \in Rows,
                 Insert(r, handler[h].approved, handler[h].deadline),
                 Finish(h), UNCHANGED <<activityStatus, checkIns, replies>>
          PROVE  TypeOK'
      <4>1. handler[h].deadline \in Nat \cup {NoDeadline}
        BY <2>3, HandlerHolds DEF RegisterCommit
      <4>2. pendingCount' \in Nat /\ approvedCount' \in Nat
        BY <3>2, CountersTyped DEF Insert
      <4>3. /\ status' \in [Rows -> RegistrationStatus \cup {"none"}]
            /\ ticket' \in [Rows -> TicketStatus \cup {"none"}]
            /\ outbox' \subseteq EventType \X Rows
        BY <3>2 DEF Insert, Emit, RegistrationStatus, TicketStatus, EventType
      <4> QED  BY <3>2, <4>1, <4>2, <4>3, <2>b DEF Finish, Insert
    <3> QED  BY <2>3, <3>1, <3>2 DEF RegisterCommit
  <2>4. CASE \E r \in Rows : CancelRead(h, r)
    <3> PICK r \in Rows : CancelRead(h, r)  BY <2>4
    <3>1. [op |-> "cancel", row |-> r, from |-> status[r]] \in HandlerState
      BY DEF CancelRead, HandlerState
    <3> QED  BY <3>1, <2>a DEF CancelRead, Read, rows
  <2>5. CASE CancelReadTicket(h)
    <3>1. [op |-> "cancelReady", row |-> state.row, from |-> state.from,
           void |-> TicketUsable(state.row)] \in HandlerState
      BY <2>5, HandlerHolds DEF CancelReadTicket, HandlerState, TicketUsable
    <3> QED  BY <2>5, <3>1, <2>a DEF CancelReadTicket, rows
  <2>6. CASE CancelCommit(h)
    <3>1. CASE Rollback(h)
      BY <3>1, <2>b DEF Rollback, Finish, rows
    <3>2. CASE ~Rollback(h)
      <4>1. state.row \in Rows  BY <2>6, HandlerHolds DEF CancelCommit
      <4>2. pendingCount' \in Nat /\ approvedCount' \in Nat
        BY <2>6, <3>2, CountersTyped DEF CancelCommit, Move
      <4>3. /\ status' \in [Rows -> RegistrationStatus \cup {"none"}]
            /\ ticket' \in [Rows -> TicketStatus \cup {"none"}]
            /\ outbox' \subseteq EventType \X Rows
        BY <2>6, <3>2, <4>1 DEF CancelCommit, Move, Emit, CancelEvents,
           VoidTicket, RegistrationStatus, TicketStatus, EventType
      <4> QED  BY <2>6, <3>2, <4>2, <4>3, <2>b DEF CancelCommit, Move, Finish
    <3> QED  BY <3>1, <3>2
  <2>7. CASE \E r \in Rows, op \in {"approve", "reject"} : ReviewRead(h, r, op)
    <3> PICK r \in Rows, op \in {"approve", "reject"} : ReviewRead(h, r, op)
      BY <2>7
    <3>1. [op |-> op, row |-> r] \in HandlerState  BY DEF HandlerState
    <3> QED  BY <3>1, <2>a DEF ReviewRead, Read, rows
  <2>8. CASE ApproveCommit(h)
    <3>1. CASE Rollback(h)
      BY <3>1, <2>b DEF Rollback, Finish, rows
    <3>2. CASE ~Rollback(h)
      <4>1. state.row \in Rows  BY <2>8, HandlerHolds DEF ApproveCommit
      <4>2. pendingCount' \in Nat /\ approvedCount' \in Nat
        BY <2>8, <3>2, CountersTyped DEF ApproveCommit, Move
      <4>3. /\ status' \in [Rows -> RegistrationStatus \cup {"none"}]
            /\ ticket' \in [Rows -> TicketStatus \cup {"none"}]
            /\ outbox' \subseteq EventType \X Rows
        BY <2>8, <3>2, <4>1 DEF ApproveCommit, Move, Emit, RegistrationStatus,
           TicketStatus, EventType
      <4> QED  BY <2>8, <3>2, <4>2, <4>3, <2>b DEF ApproveCommit, Move, Finish
    <3> QED  BY <3>1, <3>2
  <2>9. CASE RejectCommit(h)
    <3>1. CASE Rollback(h)
      BY <3>1, <2>b DEF Rollback, Finish, rows
    <3>2. CASE ~Rollback(h)
      <4>1. state.row \in Rows  BY <2>9, HandlerHolds DEF RejectCommit
      <4>2. pendingCount' \in Nat /\ approvedCount' \in Nat
        BY <2>9, <3>2, CountersTyped DEF RejectCommit, Move
      <4>3. /\ status' \in [Rows -> RegistrationStatus \cup {"none"}]
            /\ outbox' \subseteq EventType \X Rows
        BY <2>9, <3>2, <4>1 DEF RejectCommit, Move, Emit, RegistrationStatus,
           EventType
      <4> QED  BY <2>9, <3>2, <4>2, <4>3, <2>b DEF RejectCommit, Move, Finish
    <3> QED  BY <3>1, <3>2
  <2>10. CASE \E q \in RequestIds : CheckInReplay(h, q)
    BY <2>10 DEF CheckInReplay, Reply, Recorded, rows
  <2>11. CASE \E r \in Rows, q \in RequestIds : CheckInRead(h, r, q)
    <3> PICK r \in Rows, q \in RequestIds : CheckInRead(h, r, q)  BY <2>11
    <3>1. [op |-> "checkIn", row |-> r, request |-> q] \in HandlerState
      BY DEF HandlerState
    <3> QED  BY <3>1, <2>a DEF CheckInRead, Read, rows
  <2>12. CASE CheckInCommit(h)
    <3> DEFINE retry == [op |-> "checkInRetry", request |-> state.request]
    <3>1. state.row \in Rows /\ state.request \in RequestIds
      BY <2>12, HandlerHolds DEF CheckInCommit
    <3>2. retry \in HandlerState  BY <3>1 DEF HandlerState
    <3>3. CASE handler' = [handler EXCEPT ![h] = retry]
               /\ UNCHANGED <<now, requireApproval, rows, replies, scheduler>>
      BY <3>2, <3>3, <2>a DEF rows
    <3>4. CASE Finish(h)
               /\ ticket' = [ticket EXCEPT ![state.row] = "used"]
               /\ checkIns' = checkIns
                     \cup {[row |-> state.row, request |-> state.request]}
               /\ Emit({"ticket.used"}, state.row)
               /\ Reply(state.request, state.row)
               /\ UNCHANGED <<activityStatus, pendingCount, approvedCount,
                              status, expiresAt>>
      BY <3>1, <3>4, <2>b DEF Finish, Emit, Reply, TicketStatus, EventType
    <3> QED  BY <2>12, <3>3, <3>4 DEF CheckInCommit
  <2>13. CASE CheckInRetry(h)
    <3>1. state.request \in RequestIds
      BY <2>13, HandlerHolds DEF CheckInRetry
    <3>2. replies' \subseteq RequestIds \X Rows
      BY <2>13, <3>1 DEF CheckInRetry, Reply, Recorded
    <3> QED  BY <2>13, <3>2, <2>b DEF CheckInRetry, Finish, rows
  <2>14. CASE CancelActivityRead(h)
    <3>1. [op |-> "cancelActivity", from |-> activityStatus] \in HandlerState
      BY <2>14 DEF CancelActivityRead, HandlerState
    <3> QED  BY <2>14, <3>1, <2>a DEF CancelActivityRead, Read, rows
  <2>15. CASE CancelActivityCommit(h)
    BY <2>15, <2>b DEF CancelActivityCommit, Finish, ActivityStatus
  <2>16. CASE GiveUp(h)
    BY <2>16, <2>b DEF GiveUp, Rollback, Finish, rows
  <2> QED
    BY <1>1, <2>1, <2>2, <2>3, <2>4, <2>5, <2>6, <2>7, <2>8, <2>9, <2>10,
       <2>11, <2>12, <2>13, <2>14, <2>15, <2>16 DEF HandlerStep
<1>2. ASSUME NEW s \in Schedulers, SchedulerStep(s)
      PROVE  TypeOK'
  <2>a. ASSUME NEW step \in {"idle", "list", "expire", "close"},
               NEW todo \in SUBSET Rows, Goto(s, step, todo)
        PROVE  /\ scheduler' \in [Schedulers -> RunState]
               /\ UNCHANGED <<now, requireApproval, replies, handler>>
    <3>1. [step |-> step, todo |-> todo] \in RunState  BY DEF RunState
    <3> QED  BY <2>a, <3>1 DEF Goto
  <2>b. /\ scheduler[s].todo \in SUBSET Rows
        /\ scheduler[s].step \in {"idle", "list", "expire", "close"}
    BY DEF RunState
  <2>1. CASE SyncStatuses(s)
    <3>1. activityStatus' \in ActivityStatus
      BY <2>1 DEF SyncStatuses, NextTimedStatus, ActivityStatus
    <3> QED  BY <2>1, <2>a, <3>1 DEF SyncStatuses
  <2>2. CASE ListPending(s)
    <3> PICK batch \in Batches(OverduePending, expiresAt) :
          Goto(s, "expire", batch)
      BY <2>2 DEF ListPending
    <3>1. batch \in SUBSET Rows  BY BatchSubset DEF OverduePending
    <3> QED  BY <2>2, <2>a, <3>1 DEF ListPending, rows
  <2>3. ASSUME NEW r \in Rows, ExpirePending(s, r)
        PROVE  TypeOK'
    <3>1. scheduler[s].todo \ {r} \in SUBSET Rows  BY <2>b
    <3>2. CASE UNCHANGED rows
      BY <2>3, <3>1, <3>2, <2>a DEF ExpirePending, rows
    <3>3. CASE Move(r, "expired", -1, 0) /\ Emit({"registration.expired"}, r)
               /\ UNCHANGED ticket
      <4>1. pendingCount' \in Nat /\ approvedCount' \in Nat
        BY <3>3, CountersTyped DEF Move
      <4>2. /\ status' \in [Rows -> RegistrationStatus \cup {"none"}]
            /\ outbox' \subseteq EventType \X Rows
        BY <3>3 DEF Move, Emit, RegistrationStatus, EventType
      <4> QED  BY <2>3, <3>1, <3>3, <4>1, <4>2, <2>a DEF ExpirePending, Move
    <3> QED  BY <2>3, <3>2, <3>3 DEF ExpirePending
  <2>4. CASE ListTickets(s)
    <3> PICK batch \in Batches(OverdueTickets, [r \in Rows |-> ActivityEnd]) :
          Goto(s, "close", batch)
      BY <2>4 DEF ListTickets
    <3>1. batch \in SUBSET Rows  BY BatchSubset DEF OverdueTickets
    <3> QED  BY <2>4, <2>a, <3>1 DEF ListTickets, rows
  <2>5. ASSUME NEW r \in Rows, ExpireTicket(s, r)
        PROVE  TypeOK'
    <3>1. scheduler[s].todo \ {r} \in SUBSET Rows  BY <2>b
    <3>2. CASE UNCHANGED rows
      BY <2>5, <3>1, <3>2, <2>a DEF ExpireTicket, rows
    <3>3. CASE /\ ticket' = [ticket EXCEPT ![r] = "expired"]
               /\ Emit({"ticket.expired"}, r)
               /\ UNCHANGED <<activityStatus, pendingCount, approvedCount,
                              status, expiresAt, checkIns>>
      BY <2>5, <3>1, <3>3, <2>a
      DEF ExpireTicket, Emit, TicketStatus, EventType
    <3> QED  BY <2>5, <3>2, <3>3 DEF ExpireTicket
  <2>6. CASE EndRun(s)
    BY <2>6, <2>a DEF EndRun, rows
  <2>7. CASE AbandonBatch(s)
    BY <2>7, <2>a, <2>b DEF AbandonBatch, rows
  <2>8. CASE Crash(s)
    BY <2>8, <2>a DEF Crash, rows
  <2> QED
    BY <1>2, <2>1, <2>2, <2>3, <2>4, <2>5, <2>6, <2>7, <2>8 DEF SchedulerStep
<1>3. CASE Tick
  BY <1>3 DEF Tick, rows
<1>4. CASE UNCHANGED vars
  BY <1>4 DEF vars, rows
<1> QED  BY <1>1, <1>2, <1>3, <1>4 DEF Next

(* Type correctness of the whole system.                                   *)
THEOREM TypeCorrect == Spec => []TypeOK
<1> QED  BY TypeInit, TypeStep, PTL DEF Spec

-----------------------------------------------------------------------------
(* Capacity: counters, rows and the unique key.                            *)

Places == CountersMatchRows /\ NoOverbooking /\ OneActiveRow

(* The same for the statuses of the registrations.                         *)
LEMMA StatusCount ==
  ASSUME TypeOK, NEW r \in Rows, NEW to \in RegistrationStatus, NEW v,
         status' = [status EXCEPT ![r] = to]
  PROVE  /\ Cardinality(Rowset({v})) \in Nat
         /\ status[r] # v /\ to = v =>
              Cardinality(Rowset({v}))' = Cardinality(Rowset({v})) + 1
         /\ status[r] = v /\ to # v =>
              /\ Cardinality(Rowset({v}))' = Cardinality(Rowset({v})) - 1
              /\ Cardinality(Rowset({v})) > 0
         /\ (status[r] = v <=> to = v) =>
              Cardinality(Rowset({v}))' = Cardinality(Rowset({v}))
<1>1. status \in [Rows -> RegistrationStatus \cup {"none"}]
  BY DEF TypeOK
<1>2. Rowset({v}) = {x \in Rows : status[x] \in {v}}
  BY DEF Rowset
<1>3. Rowset({v})' = {x \in Rows : [status EXCEPT ![r] = to][x] \in {v}}
  BY DEF Rowset
<1>4. LET old == Cardinality({x \in Rows : status[x] \in {v}})
          new == Cardinality({x \in Rows : [status EXCEPT ![r] = to][x] \in {v}})
      IN  /\ old \in Nat
          /\ status[r] # v /\ to = v => new = old + 1
          /\ status[r] = v /\ to # v => new = old - 1 /\ old > 0
          /\ (status[r] = v <=> to = v) => new = old
  BY <1>1, CountAfterMove
<1> QED  BY <1>2, <1>3, <1>4

(* Pending and approved rows together are the active ones.                 *)
LEMMA ActiveCount ==
  ASSUME NEW f
  PROVE  Cardinality({x \in Rows : f[x] \in Active})
           = Cardinality({x \in Rows : f[x] \in {"pending"}})
             + Cardinality({x \in Rows : f[x] \in {"approved"}})
<1> DEFINE A == {x \in Rows : f[x] \in Active}
           B == {x \in Rows : f[x] \in {"pending"}}
           C == {x \in Rows : f[x] \in {"approved"}}
<1>1. A = B \cup C /\ B \cap C = {}  BY DEF Active
<1>2. IsFiniteSet(B) /\ IsFiniteSet(C)  BY RowsetFinite
<1>3. Cardinality(B) \in Nat /\ Cardinality(C) \in Nat  BY RowsetFinite
<1> HIDE DEF A, B, C
<1>4. Cardinality(A) = Cardinality(B) + Cardinality(C)
  BY <1>1, <1>2, <1>3, FS_Union, FS_EmptySet
<1> QED  BY <1>4 DEF A, B, C

(* With exact counters the capacity is a bound on their sum.               *)
LEMMA CapacityByCounters ==
  ASSUME CountersMatchRows
  PROVE  /\ NoOverbooking <=> pendingCount + approvedCount <= MaxParticipants
         /\ Cardinality(Rowset(Active)) = pendingCount + approvedCount
<1>1. Cardinality(Rowset(Active))
        = Cardinality(Rowset({"pending"})) + Cardinality(Rowset({"approved"}))
  BY ActiveCount DEF Rowset
<1> QED  BY <1>1 DEF CountersMatchRows, NoOverbooking

LEMMA CapacityByCountersNext ==
  ASSUME CountersMatchRows'
  PROVE  NoOverbooking' <=> pendingCount' + approvedCount' <= MaxParticipants
<1>1. Cardinality(Rowset(Active))'
        = Cardinality(Rowset({"pending"}))' + Cardinality(Rowset({"approved"}))'
  BY ActiveCount DEF Rowset
<1> QED  BY <1>1 DEF CountersMatchRows, NoOverbooking

(* A new row takes the slot the guard found free, and its key was free.    *)
LEMMA PlacesAfterInsert ==
  ASSUME TypeOK, Places, NEW r \in Rows, NEW approved \in BOOLEAN, NEW deadline,
         SlotFree, KeyFree(Owner(r)), IsNextRow(r),
         Insert(r, approved, deadline)
  PROVE  Places'
<1> DEFINE to == IF approved THEN "approved" ELSE "pending"
<1>1. /\ to \in RegistrationStatus
      /\ status \in [Rows -> RegistrationStatus \cup {"none"}]
      /\ status' = [status EXCEPT ![r] = to]
      /\ status[r] = "none"
  BY DEF RegistrationStatus, TypeOK, Insert, IsNextRow
<1>2. CountersMatchRows'
  <2>1. Cardinality(Rowset({"pending"}))'
          = IF approved THEN Cardinality(Rowset({"pending"}))
                        ELSE Cardinality(Rowset({"pending"})) + 1
    <3>1. CASE approved
      BY <1>1, <3>1, StatusCount
    <3>2. CASE ~approved
      BY <1>1, <3>2, StatusCount
    <3> QED  BY <3>1, <3>2
  <2>2. Cardinality(Rowset({"approved"}))'
          = IF approved THEN Cardinality(Rowset({"approved"})) + 1
                        ELSE Cardinality(Rowset({"approved"}))
    <3>1. CASE approved
      BY <1>1, <3>1, StatusCount
    <3>2. CASE ~approved
      BY <1>1, <3>2, StatusCount
    <3> QED  BY <3>1, <3>2
  <2> QED
    BY <2>1, <2>2
    DEF Places, CountersMatchRows, Insert, AdjustCounters, Clamped, TypeOK
<1>3. NoOverbooking'
  <2>1. pendingCount' + approvedCount' <= MaxParticipants
    BY RegistrationAssumption
    DEF SlotFree, Insert, AdjustCounters, Clamped, TypeOK
  <2> QED  BY <1>2, <2>1, CapacityByCountersNext
<1>4. OneActiveRow'
  <2>1. \A t \in Rowset(Active)' : t = r \/ t \in Rowset(Active)
    BY <1>1 DEF Rowset
  <2>2. \A t \in Rowset(Active) : Owner(t) # Owner(r)
    BY DEF Rowset, KeyFree, HasActive
  <2> QED  BY <2>1, <2>2 DEF Places, OneActiveRow
<1> QED  BY <1>2, <1>3, <1>4 DEF Places

(* A guarded transition adjusts the counters by what it does to the row.   *)
LEMMA PlacesAfterMove ==
  ASSUME TypeOK, Places, NEW r \in Rows, NEW from \in Active, StillIn(r, from),
         NEW to \in RegistrationStatus, to # "pending", to # from,
         Move(r, to, IF from = "pending" THEN -1 ELSE 0,
              IF to = "approved" THEN 1
              ELSE IF from = "approved" THEN -1 ELSE 0)
  PROVE  Places'
<1>1. /\ status \in [Rows -> RegistrationStatus \cup {"none"}]
      /\ status' = [status EXCEPT ![r] = to]
      /\ status[r] = from
  BY DEF TypeOK, Move, StillIn
<1>f. from = "pending" \/ from = "approved"
  BY DEF Active
<1>2. /\ Cardinality(Rowset({"pending"}))'
           = Cardinality(Rowset({"pending"})) + IF from = "pending" THEN -1 ELSE 0
      /\ from = "pending" => Cardinality(Rowset({"pending"})) > 0
  <2> DEFINE old == Cardinality(Rowset({"pending"}))
             new == Cardinality(Rowset({"pending"}))'
  <2>1. /\ old \in Nat
        /\ from = "pending" => new = old - 1 /\ old > 0
        /\ from # "pending" => new = old
    BY <1>1, StatusCount
  <2> HIDE DEF old, new
  <2>2. /\ new = old + IF from = "pending" THEN -1 ELSE 0
        /\ from = "pending" => old > 0
    BY <2>1
  <2> QED  BY <2>2 DEF old, new
<1>3. /\ Cardinality(Rowset({"approved"}))'
           = Cardinality(Rowset({"approved"}))
             + IF to = "approved" THEN 1
               ELSE IF from = "approved" THEN -1 ELSE 0
      /\ from = "approved" => Cardinality(Rowset({"approved"})) > 0
  <2> DEFINE old == Cardinality(Rowset({"approved"}))
             new == Cardinality(Rowset({"approved"}))'
  <2>1. /\ old \in Nat
        /\ to = "approved" => new = old + 1 /\ from = "pending"
        /\ from = "approved" => new = old - 1 /\ old > 0
        /\ to # "approved" /\ from # "approved" => new = old
    BY <1>1, <1>f, StatusCount
  <2> HIDE DEF old, new
  <2>2. /\ new = old + IF to = "approved" THEN 1
                       ELSE IF from = "approved" THEN -1 ELSE 0
        /\ from = "approved" => old > 0
    BY <2>1
  <2> QED  BY <2>2 DEF old, new
<1>4. CountersMatchRows'
  BY <1>2, <1>3
  DEF Places, CountersMatchRows, Move, AdjustCounters, Clamped, TypeOK, Active
<1>5. NoOverbooking'
  <2>1. pendingCount + approvedCount <= MaxParticipants
    BY CapacityByCounters DEF Places
  <2>2. pendingCount' + approvedCount' <= MaxParticipants
    BY <1>2, <1>3, <2>1, RegistrationAssumption
    DEF Places, CountersMatchRows, Move, AdjustCounters, Clamped, TypeOK, Active
  <2> QED  BY <1>4, <2>2, CapacityByCountersNext
<1>6. OneActiveRow'
  <2>1. Rowset(Active)' \subseteq Rowset(Active)
    BY <1>1 DEF Rowset
  <2> QED  BY <2>1 DEF Places, OneActiveRow
<1> QED  BY <1>4, <1>5, <1>6 DEF Places

(* Only statuses and counters matter for the places.                       *)
LEMMA PlacesFrame ==
  ASSUME Places, UNCHANGED <<status, pendingCount, approvedCount>>
  PROVE  Places'
  BY DEF Places, CountersMatchRows, NoOverbooking, OneActiveRow, Rowset

LEMMA PlacesInit == Init => Places
<1> SUFFICES ASSUME Init  PROVE Places
  OBVIOUS
<1>1. \A S : "none" \notin S => Rowset(S) = {}
  BY DEF Init, Rowset
<1>2. /\ Rowset({"pending"}) = {}
      /\ Rowset({"approved"}) = {}
      /\ Rowset(Active) = {}
  BY <1>1 DEF Active
<1> QED
  BY <1>2, FS_EmptySet, RegistrationAssumption
  DEF Init, Places, CountersMatchRows, NoOverbooking, OneActiveRow

LEMMA PlacesStep == TypeOK /\ Places /\ [Next]_vars => Places'
<1> SUFFICES ASSUME TypeOK, Places, [Next]_vars
             PROVE  Places'
  OBVIOUS
<1>a. UNCHANGED rows => UNCHANGED <<status, pendingCount, approvedCount>>
  BY DEF rows
<1>1. ASSUME NEW h \in Handlers, HandlerStep(h)
      PROVE  Places'
  <2>1. ASSUME NEW u \in Users, RegisterRead(h, u)
        PROVE  Places'
    BY <2>1, <1>a, PlacesFrame DEF RegisterRead, Read
  <2>2. CASE RegisterCheck(h)
    BY <2>2, <1>a, PlacesFrame DEF RegisterCheck, Rollback
  <2>3. CASE RegisterCommit(h)
    <3>1. CASE Rollback(h)
      BY <3>1, <1>a, PlacesFrame DEF Rollback
    <3>2. CASE ~Rollback(h)
      <4>1. SlotFree /\ KeyFree(handler[h].user)
        BY <2>3, <3>2 DEF RegisterCommit
      <4>2. PICK r \in Rows :
              /\ Owner(r) = handler[h].user /\ IsNextRow(r)
              /\ Insert(r, handler[h].approved, handler[h].deadline)
        BY <2>3, <3>2 DEF RegisterCommit
      <4>3. handler[h].approved \in BOOLEAN
        BY <2>3, HandlerHolds DEF RegisterCommit
      <4> QED  BY <4>1, <4>2, <4>3, PlacesAfterInsert
    <3> QED  BY <3>1, <3>2
  <2>4. ASSUME NEW r \in Rows, CancelRead(h, r)
        PROVE  Places'
    BY <2>4, <1>a, PlacesFrame DEF CancelRead, Read
  <2>5. CASE CancelReadTicket(h)
    BY <2>5, <1>a, PlacesFrame DEF CancelReadTicket
  <2>6. CASE CancelCommit(h)
    <3>1. CASE Rollback(h)
      BY <3>1, <1>a, PlacesFrame DEF Rollback
    <3>2. CASE ~Rollback(h)
      <4>1. handler[h].row \in Rows /\ handler[h].from \in Active
        BY <2>6, HandlerHolds DEF CancelCommit
      <4> QED
        BY <2>6, <3>2, <4>1, PlacesAfterMove
        DEF CancelCommit, RegistrationStatus, Active
    <3> QED  BY <3>1, <3>2
  <2>7. ASSUME NEW r \in Rows, NEW op, ReviewRead(h, r, op)
        PROVE  Places'
    BY <2>7, <1>a, PlacesFrame DEF ReviewRead, Read
  <2>8. CASE ApproveCommit(h)
    <3>1. CASE Rollback(h)
      BY <3>1, <1>a, PlacesFrame DEF Rollback
    <3>2. CASE ~Rollback(h)
      <4>1. handler[h].row \in Rows
        BY <2>8, HandlerHolds DEF ApproveCommit
      <4> QED
        BY <2>8, <3>2, <4>1, PlacesAfterMove
        DEF ApproveCommit, RegistrationStatus, Active
    <3> QED  BY <3>1, <3>2
  <2>9. CASE RejectCommit(h)
    <3>1. CASE Rollback(h)
      BY <3>1, <1>a, PlacesFrame DEF Rollback
    <3>2. CASE ~Rollback(h)
      <4>1. handler[h].row \in Rows
        BY <2>9, HandlerHolds DEF RejectCommit
      <4> QED
        BY <2>9, <3>2, <4>1, PlacesAfterMove
        DEF RejectCommit, RegistrationStatus, Active
    <3> QED  BY <3>1, <3>2
  <2>10. ASSUME NEW q \in RequestIds, CheckInReplay(h, q)
         PROVE  Places'
    BY <2>10, <1>a, PlacesFrame DEF CheckInReplay
  <2>11. ASSUME NEW r \in Rows, NEW q \in RequestIds, CheckInRead(h, r, q)
         PROVE  Places'
    BY <2>11, <1>a, PlacesFrame DEF CheckInRead, Read
  <2>12. CASE CheckInCommit(h)
    BY <2>12, <1>a, PlacesFrame DEF CheckInCommit
  <2>13. CASE CheckInRetry(h)
    BY <2>13, <1>a, PlacesFrame DEF CheckInRetry
  <2>14. CASE CancelActivityRead(h)
    BY <2>14, <1>a, PlacesFrame DEF CancelActivityRead, Read
  <2>15. CASE CancelActivityCommit(h)
    BY <2>15, PlacesFrame DEF CancelActivityCommit
  <2>16. CASE GiveUp(h)
    BY <2>16, <1>a, PlacesFrame DEF GiveUp, Rollback
  <2> QED
    BY <1>1, <2>1, <2>2, <2>3, <2>4, <2>5, <2>6, <2>7, <2>8, <2>9, <2>10,
       <2>11, <2>12, <2>13, <2>14, <2>15, <2>16 DEF HandlerStep
<1>2. ASSUME NEW s \in Schedulers, SchedulerStep(s)
      PROVE  Places'
  <2>1. CASE SyncStatuses(s)
    BY <2>1, PlacesFrame DEF SyncStatuses
  <2>2. ASSUME NEW r \in Rows, ExpirePending(s, r)
        PROVE  Places'
    <3>1. CASE UNCHANGED rows
      BY <3>1, <1>a, PlacesFrame
    <3>2. CASE ~UNCHANGED rows
      BY <2>2, <3>2, PlacesAfterMove
      DEF ExpirePending, RegistrationStatus, Active
    <3> QED  BY <3>1, <3>2
  <2>3. ASSUME NEW r \in Rows, ExpireTicket(s, r)
        PROVE  Places'
    BY <2>3, <1>a, PlacesFrame DEF ExpireTicket
  <2>4. CASE ListPending(s) \/ ListTickets(s) \/ EndRun(s)
             \/ AbandonBatch(s) \/ Crash(s)
    BY <2>4, <1>a, PlacesFrame
    DEF ListPending, ListTickets, EndRun, AbandonBatch, Crash
  <2> QED  BY <1>2, <2>1, <2>2, <2>3, <2>4 DEF SchedulerStep
<1>3. CASE Tick
  BY <1>3, <1>a, PlacesFrame DEF Tick
<1>4. CASE UNCHANGED vars
  BY <1>4, <1>a, PlacesFrame DEF vars
<1> QED  BY <1>1, <1>2, <1>3, <1>4 DEF Next

LEMMA PlacesAlways == Spec => []Places
<1> QED  BY TypeInit, TypeStep, PlacesInit, PlacesStep, PTL DEF Spec

(* The counters are exact, however requests and scheduler runs of any      *)
(* number of instances interleave.                                         *)
THEOREM CountersCorrect == Spec => []CountersMatchRows
<1>1. Places => CountersMatchRows  BY DEF Places
<1> QED  BY <1>1, PlacesAlways, PTL

(* The capacity is never exceeded by the rows themselves: it follows from  *)
(* the guard on the counters because these are exact.                      *)
THEOREM PlacesCorrect == Spec => []NoOverbooking
<1>1. Places => NoOverbooking  BY DEF Places
<1> QED  BY <1>1, PlacesAlways, PTL

(* Nobody ever holds two active registrations.                             *)
THEOREM OneActiveCorrect == Spec => []OneActiveRow
<1>1. Places => OneActiveRow  BY DEF Places
<1> QED  BY <1>1, PlacesAlways, PTL

-----------------------------------------------------------------------------
(* What any step does to the rows and their tickets, whoever takes it.     *)

FreeFor(r) == status[r] = "none" /\ SlotFree /\ KeyFree(Owner(r))

Applied(r) ==
  /\ FreeFor(r)
  /\ status' = [status EXCEPT ![r] = "pending"]
  /\ UNCHANGED ticket

Admitted(r) ==
  /\ FreeFor(r) \/ status[r] = "pending"
  /\ ticket[r] = "none"
  /\ status' = [status EXCEPT ![r] = "approved"]
  /\ ticket' = [ticket EXCEPT ![r] = "unused"]

Dropped(r) ==
  /\ status[r] \in Active
  /\ \E to \in {"rejected", "cancelled", "expired"} :
        /\ status' = [status EXCEPT ![r] = to]
        /\ ticket[r] = "unused" => to = "cancelled"
  /\ ticket' = [ticket EXCEPT ![r] =
                  IF ticket[r] = "unused" THEN "voided" ELSE ticket[r]]

Closed(r) ==
  /\ ticket[r] = "unused"
  /\ \E to \in {"used", "expired"} : ticket' = [ticket EXCEPT ![r] = to]
  /\ UNCHANGED status

Quiet == UNCHANGED <<status, ticket>>

Effect == Quiet \/ \E r \in Rows : Applied(r) \/ Admitted(r) \/ Dropped(r)
                                     \/ Closed(r)

(* A request or a scheduler run never does anything else, because the      *)
(* guard of its transaction looks again at what it had read before.        *)
LEMMA EveryEffect ==
  TypeOK /\ TicketsFollowRows /\ PlansHold /\ [Next]_vars => Effect
<1> SUFFICES ASSUME TypeOK, TicketsFollowRows, PlansHold, [Next]_vars
             PROVE  Effect
  OBVIOUS
<1>a. UNCHANGED rows => Effect
  BY DEF rows, Effect, Quiet
<1>b. /\ status \in [Rows -> RegistrationStatus \cup {"none"}]
      /\ ticket \in [Rows -> TicketStatus \cup {"none"}]
  BY DEF TypeOK
<1>c. ASSUME NEW r \in Rows, ticket[r] # "unused", UNCHANGED ticket
      PROVE  ticket' = [ticket EXCEPT ![r] =
                          IF ticket[r] = "unused" THEN "voided" ELSE ticket[r]]
  BY <1>b, <1>c
<1>1. ASSUME NEW h \in Handlers, HandlerStep(h)
      PROVE  Effect
  <2> DEFINE row == handler[h].row
  <2>1. ASSUME NEW u \in Users, RegisterRead(h, u)
        PROVE  Effect
    BY <2>1, <1>a DEF RegisterRead, Read
  <2>2. CASE RegisterCheck(h)
    BY <2>2, <1>a DEF RegisterCheck, Rollback
  <2>3. CASE RegisterCommit(h)
    <3>1. CASE Rollback(h)
      BY <3>1, <1>a DEF Rollback
    <3>2. CASE ~Rollback(h)
      <4>1. SlotFree /\ KeyFree(handler[h].user)
        BY <2>3, <3>2 DEF RegisterCommit
      <4>2. PICK r \in Rows :
              /\ Owner(r) = handler[h].user /\ IsNextRow(r)
              /\ Insert(r, handler[h].approved, handler[h].deadline)
        BY <2>3, <3>2 DEF RegisterCommit
      <4>3. FreeFor(r) /\ ticket[r] = "none"
        BY <4>1, <4>2 DEF FreeFor, IsNextRow, TicketsFollowRows
      <4>4. Applied(r) \/ Admitted(r)
        BY <4>2, <4>3 DEF Insert, Applied, Admitted
      <4> QED  BY <4>4 DEF Effect
    <3> QED  BY <3>1, <3>2
  <2>4. ASSUME NEW r \in Rows, CancelRead(h, r)
        PROVE  Effect
    BY <2>4, <1>a DEF CancelRead, Read
  <2>5. CASE CancelReadTicket(h)
    BY <2>5, <1>a DEF CancelReadTicket
  <2>6. CASE CancelCommit(h)
    <3>1. CASE Rollback(h)
      BY <3>1, <1>a DEF Rollback
    <3>2. CASE ~Rollback(h)
      <4>1. row \in Rows /\ handler[h].from \in Active
        BY <2>6, HandlerHolds DEF CancelCommit
      <4>2. /\ status[row] = handler[h].from
            /\ status' = [status EXCEPT ![row] = "cancelled"]
        BY <2>6, <3>2 DEF CancelCommit, StillIn, Move
      <4>3. CASE handler[h].void
        <5>1. ticket' = [ticket EXCEPT ![row] =
                IF ticket[row] = "unused" THEN "voided" ELSE ticket[row]]
          BY <2>6, <3>2, <4>1, <4>3, <1>b
          DEF CancelCommit, VoidTicket, TicketUsable
        <5>2. Dropped(row)  BY <4>1, <4>2, <5>1 DEF Dropped
        <5> QED  BY <4>1, <5>2 DEF Effect
      <4>4. CASE ~handler[h].void
        <5>1. ticket[row] # "unused"
          BY <2>6, <4>1, <4>2, <4>4
          DEF CancelCommit, PlansHold, TicketsFollowRows, Active
        <5>2. UNCHANGED ticket
          BY <2>6, <3>2, <4>4 DEF CancelCommit
        <5>3. Dropped(row)  BY <4>1, <4>2, <5>1, <5>2, <1>c DEF Dropped
        <5> QED  BY <4>1, <5>3 DEF Effect
      <4> QED  BY <4>3, <4>4
    <3> QED  BY <3>1, <3>2
  <2>7. ASSUME NEW r \in Rows, NEW op, ReviewRead(h, r, op)
        PROVE  Effect
    BY <2>7, <1>a DEF ReviewRead, Read
  <2>8. CASE ApproveCommit(h)
    <3>1. CASE Rollback(h)
      BY <3>1, <1>a DEF Rollback
    <3>2. CASE ~Rollback(h)
      <4>1. row \in Rows
        BY <2>8, HandlerHolds DEF ApproveCommit
      <4>2. Admitted(row)
        BY <2>8, <3>2 DEF ApproveCommit, StillIn, Move, Admitted
      <4> QED  BY <4>1, <4>2 DEF Effect
    <3> QED  BY <3>1, <3>2
  <2>9. CASE RejectCommit(h)
    <3>1. CASE Rollback(h)
      BY <3>1, <1>a DEF Rollback
    <3>2. CASE ~Rollback(h)
      <4>1. row \in Rows
        BY <2>9, HandlerHolds DEF RejectCommit
      <4>2. status[row] = "pending" /\ UNCHANGED ticket
            /\ status' = [status EXCEPT ![row] = "rejected"]
        BY <2>9, <3>2 DEF RejectCommit, StillIn, Move
      <4>3. Dropped(row)
        BY <4>1, <4>2, <1>c DEF Dropped, TicketsFollowRows, Active
      <4> QED  BY <4>1, <4>3 DEF Effect
    <3> QED  BY <3>1, <3>2
  <2>10. ASSUME NEW q \in RequestIds, CheckInReplay(h, q)
         PROVE  Effect
    BY <2>10, <1>a DEF CheckInReplay
  <2>11. ASSUME NEW r \in Rows, NEW q \in RequestIds, CheckInRead(h, r, q)
         PROVE  Effect
    BY <2>11, <1>a DEF CheckInRead, Read
  <2>12. CASE CheckInCommit(h)
    <3>1. CASE UNCHANGED rows
      BY <3>1, <1>a
    <3>2. CASE ~UNCHANGED rows
      <4>1. row \in Rows
        BY <2>12, HandlerHolds DEF CheckInCommit
      <4>2. Closed(row)
        BY <2>12, <3>2 DEF CheckInCommit, TicketUsable, Closed
      <4> QED  BY <4>1, <4>2 DEF Effect
    <3> QED  BY <3>1, <3>2
  <2>13. CASE CheckInRetry(h)
    BY <2>13, <1>a DEF CheckInRetry
  <2>14. CASE CancelActivityRead(h)
    BY <2>14, <1>a DEF CancelActivityRead, Read
  <2>15. CASE CancelActivityCommit(h)
    BY <2>15 DEF CancelActivityCommit, Effect, Quiet
  <2>16. CASE GiveUp(h)
    BY <2>16, <1>a DEF GiveUp, Rollback
  <2> QED
    BY <1>1, <2>1, <2>2, <2>3, <2>4, <2>5, <2>6, <2>7, <2>8, <2>9, <2>10,
       <2>11, <2>12, <2>13, <2>14, <2>15, <2>16 DEF HandlerStep
<1>2. ASSUME NEW s \in Schedulers, SchedulerStep(s)
      PROVE  Effect
  <2>1. CASE SyncStatuses(s)
    BY <2>1 DEF SyncStatuses, Effect, Quiet
  <2>2. ASSUME NEW r \in Rows, ExpirePending(s, r)
        PROVE  Effect
    <3>1. CASE UNCHANGED rows
      BY <3>1, <1>a
    <3>2. CASE ~UNCHANGED rows
      <4>1. status[r] = "pending" /\ UNCHANGED ticket
            /\ status' = [status EXCEPT ![r] = "expired"]
        BY <2>2, <3>2 DEF ExpirePending, StillIn, Move
      <4>2. Dropped(r)
        BY <4>1, <1>c DEF Dropped, TicketsFollowRows, Active
      <4> QED  BY <4>2 DEF Effect
    <3> QED  BY <3>1, <3>2
  <2>3. ASSUME NEW r \in Rows, ExpireTicket(s, r)
        PROVE  Effect
    <3>1. CASE UNCHANGED rows
      BY <3>1, <1>a
    <3>2. CASE ~UNCHANGED rows
      <4>1. Closed(r)
        BY <2>3, <3>2 DEF ExpireTicket, TicketUsable, Closed
      <4> QED  BY <4>1 DEF Effect
    <3> QED  BY <3>1, <3>2
  <2>4. CASE ListPending(s) \/ ListTickets(s) \/ EndRun(s)
             \/ AbandonBatch(s) \/ Crash(s)
    BY <2>4, <1>a DEF ListPending, ListTickets, EndRun, AbandonBatch, Crash
  <2> QED  BY <1>2, <2>1, <2>2, <2>3, <2>4 DEF SchedulerStep
<1>3. CASE Tick
  BY <1>3, <1>a DEF Tick
<1>4. CASE UNCHANGED vars
  BY <1>4, <1>a DEF vars
<1> QED  BY <1>1, <1>2, <1>3, <1>4 DEF Next

-----------------------------------------------------------------------------
(* Tickets.                                                                *)

Tickets == TicketsFollowRows /\ PlansHold

Onward ==
  \A r \in Rows :
    /\ status[r] \notin Active \cup {"none"} => status'[r] = status[r]
    /\ ticket[r] \in {"used", "expired", "voided"} => ticket'[r] = ticket[r]
    /\ ticket[r] # "none" => ticket'[r] # "none"

LEMMA EffectIsOnward ==
  ASSUME TypeOK, Effect
  PROVE  Onward
<1>1. /\ status \in [Rows -> RegistrationStatus \cup {"none"}]
      /\ ticket \in [Rows -> TicketStatus \cup {"none"}]
  BY DEF TypeOK
<1>2. CASE Quiet
  BY <1>2 DEF Quiet, Onward
<1>3. ASSUME NEW r \in Rows, Applied(r) \/ Admitted(r)
      PROVE  Onward
  BY <1>1, <1>3 DEF Applied, Admitted, FreeFor, Onward, Active
<1>4. ASSUME NEW r \in Rows, Dropped(r)
      PROVE  Onward
  BY <1>1, <1>4 DEF Dropped, Onward
<1>5. ASSUME NEW r \in Rows, Closed(r)
      PROVE  Onward
  BY <1>1, <1>5 DEF Closed, Onward
<1> QED  BY <1>2, <1>3, <1>4, <1>5 DEF Effect

LEMMA EffectKeepsTickets ==
  ASSUME TypeOK, TicketsFollowRows, Effect
  PROVE  TicketsFollowRows'
<1>1. /\ status \in [Rows -> RegistrationStatus \cup {"none"}]
      /\ ticket \in [Rows -> TicketStatus \cup {"none"}]
  BY DEF TypeOK
<1>2. CASE Quiet
  BY <1>2 DEF Quiet, TicketsFollowRows
<1>3. ASSUME NEW r \in Rows, Applied(r)
      PROVE  TicketsFollowRows'
  BY <1>1, <1>3 DEF Applied, FreeFor, TicketsFollowRows
<1>4. ASSUME NEW r \in Rows, Admitted(r)
      PROVE  TicketsFollowRows'
  BY <1>1, <1>4 DEF Admitted, TicketsFollowRows
<1>5. ASSUME NEW r \in Rows, Dropped(r)
      PROVE  TicketsFollowRows'
  BY <1>1, <1>5 DEF Dropped, TicketsFollowRows, Active
<1>6. ASSUME NEW r \in Rows, Closed(r)
      PROVE  TicketsFollowRows'
  BY <1>1, <1>6 DEF Closed, TicketsFollowRows
<1> QED  BY <1>2, <1>3, <1>4, <1>5, <1>6 DEF Effect

(* Handlers that do not start or advance a cancellation keep every plan.   *)
LEMMA PlansFrame ==
  ASSUME TypeOK, PlansHold, Onward,
         \A g \in Handlers : handler'[g] = handler[g]
                             \/ handler'[g].op \notin {"cancel", "cancelReady"}
  PROVE  PlansHold'
<1> SUFFICES ASSUME NEW g \in Handlers,
                    handler'[g].op \in {"cancel", "cancelReady"},
                    handler'[g].from = "approved"
             PROVE  /\ ticket'[handler'[g].row] # "none"
                    /\ handler'[g].op = "cancelReady" /\ ~handler'[g].void =>
                         ticket'[handler'[g].row] # "unused"
  BY DEF PlansHold
<1>1. handler'[g] = handler[g]
  OBVIOUS
<1>2. handler[g].row \in Rows
  BY <1>1, HandlerHolds
<1>3. ticket[handler[g].row] \in TicketStatus \cup {"none"}
  BY <1>2 DEF TypeOK
<1> QED  BY <1>1, <1>2, <1>3 DEF PlansHold, Onward, TicketStatus

LEMMA PlansStep ==
  TypeOK /\ Tickets /\ [Next]_vars => PlansHold'
<1> SUFFICES ASSUME TypeOK, Tickets, [Next]_vars
             PROVE  PlansHold'
  OBVIOUS
<1>a. Onward /\ PlansHold /\ TicketsFollowRows
  BY EveryEffect, EffectIsOnward DEF Tickets
<1>b. handler \in [Handlers -> HandlerState]
  BY DEF TypeOK
<1>1. ASSUME NEW h \in Handlers, HandlerStep(h)
      PROVE  PlansHold'
  <2>a. ASSUME NEW new, handler' = [handler EXCEPT ![h] = new],
               new.op \notin {"cancel", "cancelReady"}
        PROVE  PlansHold'
    <3>1. \A g \in Handlers : handler'[g] = handler[g]
                              \/ handler'[g].op \notin {"cancel", "cancelReady"}
      BY <2>a, <1>b
    <3> QED  BY <3>1, <1>a, PlansFrame
  <2>b. ASSUME Finish(h)
        PROVE  PlansHold'
    <3>1. Idle.op \notin {"cancel", "cancelReady"}  BY DEF Idle
    <3> QED  BY <2>b, <3>1, <2>a DEF Finish
  <2>c. ASSUME UNCHANGED handler
        PROVE  PlansHold'
    BY <2>c, <1>a, PlansFrame
  <2>1. ASSUME NEW u \in Users, RegisterRead(h, u)
        PROVE  PlansHold'
    <3> DEFINE new == [op |-> "register", user |-> u,
                       approved |-> ~requireApproval,
                       deadline |-> IF requireApproval THEN ApprovalDeadline
                                                       ELSE NoDeadline]
    <3>1. new.op = "register"
      OBVIOUS
    <3>2. handler' = [handler EXCEPT ![h] = new]
      BY <2>1 DEF RegisterRead, Read
    <3> HIDE DEF new
    <3> QED  BY <3>1, <3>2, <2>a
  <2>2. CASE RegisterCheck(h)
    <3>1. CASE Finish(h)
      BY <3>1, <2>b
    <3>2. CASE handler' = [handler EXCEPT ![h].op = "registerReady"]
      <4>1. handler[h] \in [op : {"register", "registerReady"}, user : Users,
                            approved : BOOLEAN, deadline : Nat \cup {NoDeadline}]
        BY <2>2, HandlerHolds DEF RegisterCheck
      <4>2. [handler[h] EXCEPT !.op = "registerReady"].op = "registerReady"
        BY <4>1
      <4> QED  BY <3>2, <4>2, <2>a
    <3> QED  BY <2>2, <3>1, <3>2 DEF RegisterCheck, Rollback
  <2>3. CASE RegisterCommit(h)
    BY <2>3, <2>b DEF RegisterCommit, Rollback
  <2>4. ASSUME NEW r \in Rows, CancelRead(h, r)
        PROVE  PlansHold'
    <3>1. /\ UNCHANGED ticket
          /\ handler' = [handler EXCEPT ![h] =
                           [op |-> "cancel", row |-> r, from |-> status[r]]]
      BY <2>4 DEF CancelRead, Read, rows
    <3>2. status[r] = "approved" => ticket[r] # "none"
      BY <1>a DEF TicketsFollowRows
    <3> QED  BY <3>1, <3>2, <1>a, <1>b DEF PlansHold
  <2>5. CASE CancelReadTicket(h)
    <3>1. /\ UNCHANGED ticket
          /\ handler[h].op = "cancel"
          /\ handler' = [handler EXCEPT ![h] =
               [op |-> "cancelReady", row |-> handler[h].row,
                from |-> handler[h].from,
                void |-> ticket[handler[h].row] = "unused"]]
      BY <2>5 DEF CancelReadTicket, TicketUsable, rows
    <3> QED  BY <3>1, <1>a, <1>b DEF PlansHold
  <2>6. CASE CancelCommit(h)
    BY <2>6, <2>b DEF CancelCommit, Rollback
  <2>7. ASSUME NEW r \in Rows, NEW op \in {"approve", "reject"},
               ReviewRead(h, r, op)
        PROVE  PlansHold'
    BY <2>7, <2>a DEF ReviewRead, Read
  <2>8. CASE ApproveCommit(h)
    BY <2>8, <2>b DEF ApproveCommit, Rollback
  <2>9. CASE RejectCommit(h)
    BY <2>9, <2>b DEF RejectCommit, Rollback
  <2>10. ASSUME NEW q \in RequestIds, CheckInReplay(h, q)
         PROVE  PlansHold'
    BY <2>10, <2>c DEF CheckInReplay
  <2>11. ASSUME NEW r \in Rows, NEW q \in RequestIds, CheckInRead(h, r, q)
         PROVE  PlansHold'
    BY <2>11, <2>a DEF CheckInRead, Read
  <2>12. CASE CheckInCommit(h)
    BY <2>12, <2>a, <2>b DEF CheckInCommit
  <2>13. CASE CheckInRetry(h)
    BY <2>13, <2>b DEF CheckInRetry
  <2>14. CASE CancelActivityRead(h)
    BY <2>14, <2>a DEF CancelActivityRead, Read
  <2>15. CASE CancelActivityCommit(h)
    BY <2>15, <2>b DEF CancelActivityCommit
  <2>16. CASE GiveUp(h)
    BY <2>16, <2>b DEF GiveUp, Rollback
  <2> QED
    BY <1>1, <2>1, <2>2, <2>3, <2>4, <2>5, <2>6, <2>7, <2>8, <2>9, <2>10,
       <2>11, <2>12, <2>13, <2>14, <2>15, <2>16 DEF HandlerStep
<1>2. ASSUME UNCHANGED handler
      PROVE  PlansHold'
  BY <1>2, <1>a, PlansFrame
<1>3. CASE Tick \/ UNCHANGED vars
  BY <1>3, <1>2 DEF Tick, vars
<1>4. ASSUME NEW s \in Schedulers, SchedulerStep(s)
      PROVE  PlansHold'
  BY <1>4, <1>2
  DEF SchedulerStep, SyncStatuses, ListPending, ExpirePending, ListTickets,
      ExpireTicket, EndRun, AbandonBatch, Crash, Goto
<1> QED  BY <1>1, <1>3, <1>4 DEF Next

LEMMA TicketsInit == Init => Tickets
  BY DEF Init, Tickets, TicketsFollowRows, PlansHold, Idle

LEMMA TicketsStep == TypeOK /\ Tickets /\ [Next]_vars => Tickets'
  BY EveryEffect, EffectKeepsTickets, PlansStep DEF Tickets

(* A ticket that admits belongs to an approved registration and every      *)
(* approved registration has one; a cancellation in flight never misses a  *)
(* ticket it would have to void.                                           *)
THEOREM TicketsCorrect == Spec => [](TicketsFollowRows /\ PlansHold)
<1> QED
  BY TypeInit, TypeStep, TicketsInit, TicketsStep, PTL DEF Spec, Tickets

(* Whoever read an earlier state cannot bring a decided registration or a  *)
(* closed ticket back.                                                     *)
THEOREM FinalIsFinal == Spec => FinalStaysFinal
<1> DEFINE Step == \A r \in Rows :
             /\ status[r] \notin Active \cup {"none"} => status'[r] = status[r]
             /\ ticket[r] \in {"used", "expired", "voided"} =>
                  ticket'[r] = ticket[r]
<1>1. TypeOK /\ Tickets /\ [Next]_vars => [Step]_vars
  BY EveryEffect, EffectIsOnward DEF Tickets, Onward
<1> QED
  BY <1>1, TypeInit, TypeStep, TicketsInit, TicketsStep, PTL
  DEF Spec, FinalStaysFinal

-----------------------------------------------------------------------------
(* Check-ins.                                                              *)

CheckedIn == UsedOnce /\ RepliesAgree

Recording(x) == [row |-> x[2], request |-> x[1]]

(* Two successes reported for one request are one if each is recorded.     *)
LEMMA RepliesFromRecords ==
  ASSUME NEW reported \in SUBSET (RequestIds \X Rows), NEW records,
         \A c, d \in records : c.row = d.row \/ c.request = d.request => c = d,
         \A x \in reported : Recording(x) \in records
  PROVE  \A x, y \in reported : x[1] = y[1] => x = y
<1> SUFFICES ASSUME NEW x \in reported, NEW y \in reported, x[1] = y[1]
             PROVE  x = y
  OBVIOUS
<1>1. Recording(x) = Recording(y)
  BY DEF Recording
<1>2. x[2] = y[2]
  BY <1>1 DEF Recording
<1> QED  BY <1>2

(* What all but a committing check-in do: leave the records alone, use no  *)
(* ticket, and report at most what is recorded.                            *)
NoCheckIn ==
  /\ UNCHANGED checkIns
  /\ \A r \in Rows : ticket'[r] = "used" <=> ticket[r] = "used"
  /\ \A x \in replies' : x \in replies \/ Recording(x) \in checkIns

LEMMA CheckedInFrame ==
  ASSUME TypeOK', CheckedIn, NoCheckIn
  PROVE  CheckedIn'
<1>1. UsedOnce'
  BY DEF CheckedIn, NoCheckIn, UsedOnce
<1>2. \A x \in replies' : Recording(x) \in checkIns'
  BY DEF CheckedIn, NoCheckIn, RepliesAgree, Recording
<1>3. \A x, y \in replies' : x[1] = y[1] => x = y
  BY <1>1, <1>2, RepliesFromRecords DEF TypeOK, UsedOnce
<1> QED  BY <1>1, <1>2, <1>3 DEF CheckedIn, RepliesAgree, Recording

(* A reply looked up by request id is what the record says.                *)
LEMMA LookedUp ==
  ASSUME TypeOK, NEW q \in RequestIds, NEW c \in Recorded(q), Reply(q, c.row)
  PROVE  \A x \in replies' : x \in replies \/ Recording(x) \in checkIns
<1>1. c \in checkIns /\ c = [row |-> c.row, request |-> q]
  BY DEF TypeOK, Recorded
<1> QED  BY <1>1 DEF Reply, Recording

LEMMA CheckedInInit == Init => CheckedIn
  BY DEF Init, CheckedIn, UsedOnce, RepliesAgree

LEMMA CheckedInStep ==
  TypeOK /\ TypeOK' /\ Tickets /\ CheckedIn /\ [Next]_vars => CheckedIn'
<1> SUFFICES ASSUME TypeOK, TypeOK', Tickets, CheckedIn, [Next]_vars
             PROVE  CheckedIn'
  OBVIOUS
<1>a. ASSUME UNCHANGED <<checkIns, replies, ticket>>
      PROVE  CheckedIn'
  BY <1>a, CheckedInFrame DEF NoCheckIn
<1>b. UNCHANGED rows => UNCHANGED <<checkIns, ticket>>
  BY DEF rows
<1>c. ASSUME NEW r \in Rows, NEW new, ticket' = [ticket EXCEPT ![r] = new],
             ticket[r] # "used", new # "used", UNCHANGED <<checkIns, replies>>
      PROVE  CheckedIn'
  BY <1>c, CheckedInFrame DEF NoCheckIn, TypeOK
<1>1. ASSUME NEW h \in Handlers, HandlerStep(h)
      PROVE  CheckedIn'
  <2> DEFINE row == handler[h].row
             request == handler[h].request
  <2>1. ASSUME NEW u \in Users, RegisterRead(h, u)
        PROVE  CheckedIn'
    BY <2>1, <1>a, <1>b DEF RegisterRead, Read
  <2>2. CASE RegisterCheck(h)
    BY <2>2, <1>a, <1>b DEF RegisterCheck, Rollback
  <2>3. CASE RegisterCommit(h)
    <3>1. CASE Rollback(h)
      BY <3>1, <1>a, <1>b DEF Rollback
    <3>2. CASE ~Rollback(h)
      <4>1. PICK r \in Rows :
              IsNextRow(r) /\ Insert(r, handler[h].approved, handler[h].deadline)
        BY <2>3, <3>2 DEF RegisterCommit
      <4>2. ticket[r] # "used"
        BY <4>1 DEF IsNextRow, Tickets, TicketsFollowRows
      <4>3. UNCHANGED <<checkIns, replies>>
        BY <2>3, <3>2 DEF RegisterCommit
      <4> QED  BY <4>1, <4>2, <4>3, <1>a, <1>c DEF Insert
    <3> QED  BY <3>1, <3>2
  <2>4. ASSUME NEW r \in Rows, CancelRead(h, r)
        PROVE  CheckedIn'
    BY <2>4, <1>a, <1>b DEF CancelRead, Read
  <2>5. CASE CancelReadTicket(h)
    BY <2>5, <1>a, <1>b DEF CancelReadTicket
  <2>6. CASE CancelCommit(h)
    <3>1. CASE Rollback(h)
      BY <3>1, <1>a, <1>b DEF Rollback
    <3>2. CASE ~Rollback(h)
      <4>1. row \in Rows
        BY <2>6, HandlerHolds DEF CancelCommit
      <4>2. /\ UNCHANGED <<checkIns, replies>>
            /\ \/ UNCHANGED ticket
               \/ /\ ticket[row] = "unused"
                  /\ ticket' = [ticket EXCEPT ![row] = "voided"]
        BY <2>6, <3>2 DEF CancelCommit, Move, VoidTicket, TicketUsable
      <4> QED  BY <4>1, <4>2, <1>a, <1>c
    <3> QED  BY <3>1, <3>2
  <2>7. ASSUME NEW r \in Rows, NEW op, ReviewRead(h, r, op)
        PROVE  CheckedIn'
    BY <2>7, <1>a, <1>b DEF ReviewRead, Read
  <2>8. CASE ApproveCommit(h)
    <3>1. CASE Rollback(h)
      BY <3>1, <1>a, <1>b DEF Rollback
    <3>2. CASE ~Rollback(h)
      <4>1. row \in Rows
        BY <2>8, HandlerHolds DEF ApproveCommit
      <4> QED  BY <2>8, <3>2, <4>1, <1>c DEF ApproveCommit, Move
    <3> QED  BY <3>1, <3>2
  <2>9. CASE RejectCommit(h)
    BY <2>9, <1>a, <1>b DEF RejectCommit, Rollback, Move
  <2>10. ASSUME NEW q \in RequestIds, CheckInReplay(h, q)
         PROVE  CheckedIn'
    <3>1. \A x \in replies' : x \in replies \/ Recording(x) \in checkIns
      BY <2>10, LookedUp DEF CheckInReplay
    <3> QED  BY <2>10, <3>1, <1>b, CheckedInFrame DEF CheckInReplay, NoCheckIn
  <2>11. ASSUME NEW r \in Rows, NEW q \in RequestIds, CheckInRead(h, r, q)
         PROVE  CheckedIn'
    BY <2>11, <1>a, <1>b DEF CheckInRead, Read
  <2>12. CASE CheckInCommit(h)
    <3>1. CASE UNCHANGED <<rows, replies>>
      BY <3>1, <1>a, <1>b
    <3>2. CASE ~UNCHANGED <<rows, replies>>
      <4> DEFINE new == [row |-> row, request |-> request]
      <4>1. row \in Rows /\ request \in RequestIds
        BY <2>12, HandlerHolds DEF CheckInCommit
      <4>2. /\ ticket[row] = "unused"
            /\ \A c \in checkIns : c.row # row /\ c.request # request
            /\ ticket' = [ticket EXCEPT ![row] = "used"]
            /\ checkIns' = checkIns \cup {new}
            /\ replies' = replies \cup {<<request, row>>}
        BY <2>12, <3>2
        DEF CheckInCommit, TicketUsable, CheckInUnique, Reply
      <4>3. new.row = row /\ new.request = request
        OBVIOUS
      <4> HIDE DEF new
      <4>4. \A r \in Rows : ticket'[r] = "used" <=> \E c \in checkIns' : c.row = r
        BY <4>1, <4>2, <4>3 DEF TypeOK, CheckedIn, UsedOnce
      <4>5. \A c, d \in checkIns' :
              c.row = d.row \/ c.request = d.request => c = d
        BY <4>2, <4>3 DEF CheckedIn, UsedOnce
      <4>6. \A x \in replies' : Recording(x) \in checkIns'
        <5>1. \A x \in replies : Recording(x) \in checkIns'
          BY <4>2 DEF CheckedIn, RepliesAgree, Recording
        <5>2. Recording(<<request, row>>) \in checkIns'
          BY <4>2 DEF Recording, new
        <5> QED  BY <4>2, <5>1, <5>2
      <4>7. \A x, y \in replies' : x[1] = y[1] => x = y
        BY <4>5, <4>6, RepliesFromRecords DEF TypeOK
      <4> QED
        BY <4>4, <4>5, <4>6, <4>7
        DEF CheckedIn, UsedOnce, RepliesAgree, Recording
    <3> QED  BY <3>1, <3>2
  <2>13. CASE CheckInRetry(h)
    <3>1. request \in RequestIds
      BY <2>13, HandlerHolds DEF CheckInRetry
    <3>2. \A x \in replies' : x \in replies \/ Recording(x) \in checkIns
      BY <2>13, <3>1, LookedUp DEF CheckInRetry
    <3> QED  BY <2>13, <3>2, <1>b, CheckedInFrame DEF CheckInRetry, NoCheckIn
  <2>14. CASE CancelActivityRead(h)
    BY <2>14, <1>a, <1>b DEF CancelActivityRead, Read
  <2>15. CASE CancelActivityCommit(h)
    BY <2>15, <1>a DEF CancelActivityCommit
  <2>16. CASE GiveUp(h)
    BY <2>16, <1>a, <1>b DEF GiveUp, Rollback
  <2> QED
    BY <1>1, <2>1, <2>2, <2>3, <2>4, <2>5, <2>6, <2>7, <2>8, <2>9, <2>10,
       <2>11, <2>12, <2>13, <2>14, <2>15, <2>16 DEF HandlerStep
<1>2. ASSUME NEW s \in Schedulers, SchedulerStep(s)
      PROVE  CheckedIn'
  <2>1. CASE SyncStatuses(s)
    BY <2>1, <1>a DEF SyncStatuses, Goto
  <2>2. ASSUME NEW r \in Rows, ExpirePending(s, r)
        PROVE  CheckedIn'
    BY <2>2, <1>a, <1>b DEF ExpirePending, Move, Goto
  <2>3. ASSUME NEW r \in Rows, ExpireTicket(s, r)
        PROVE  CheckedIn'
    BY <2>3, <1>a, <1>b, <1>c DEF ExpireTicket, TicketUsable, Goto
  <2>4. CASE ListPending(s) \/ ListTickets(s) \/ EndRun(s)
             \/ AbandonBatch(s) \/ Crash(s)
    BY <2>4, <1>a, <1>b
    DEF ListPending, ListTickets, EndRun, AbandonBatch, Crash, Goto
  <2> QED  BY <1>2, <2>1, <2>2, <2>3, <2>4 DEF SchedulerStep
<1>3. CASE Tick
  BY <1>3, <1>a, <1>b DEF Tick
<1>4. CASE UNCHANGED vars
  BY <1>4, <1>a, <1>b DEF vars
<1> QED  BY <1>1, <1>2, <1>3, <1>4 DEF Next

LEMMA CheckedInAlways == Spec => []CheckedIn
<1> QED
  BY TypeInit, TypeStep, TicketsInit, TicketsStep, CheckedInInit, CheckedInStep,
     PTL DEF Spec

(* A ticket admits once: it is used exactly if one check-in records it, and*)
(* no request id stands for two of them.                                   *)
THEOREM CheckInCorrect == Spec => []UsedOnce
<1>1. CheckedIn => UsedOnce  BY DEF CheckedIn
<1> QED  BY <1>1, CheckedInAlways, PTL

(* Every success reported for a request id, replayed or raced for, is of   *)
(* the one check-in that is committed.                                     *)
THEOREM RepliesCorrect == Spec => []RepliesAgree
<1>1. CheckedIn => RepliesAgree  BY DEF CheckedIn
<1> QED  BY <1>1, CheckedInAlways, PTL

-----------------------------------------------------------------------------
(* Events.                                                                 *)

EventsOf(r) == {e \in EventType : <<e, r>> \in outbox}

(* What the events E of a row say if its status is st and its ticket's tk. *)
Tells(E, st, tk) ==
  /\ "registration.created" \in E <=> st # "none"
  /\ "registration.rejected" \in E <=> st = "rejected"
  /\ "registration.cancelled" \in E <=> st = "cancelled"
  /\ "registration.expired" \in E <=> st = "expired"
  /\ "registration.approved" \in E => st \in {"approved", "cancelled"}
  /\ "ticket.created" \in E <=> tk # "none"
  /\ "ticket.used" \in E <=> tk = "used"
  /\ "ticket.expired" \in E <=> tk = "expired"
  /\ tk = "voided" => "ticket.voided" \in E

Told(r) == Tells(EventsOf(r), status[r], ticket[r])

LEMMA OutboxByRow == OutboxTellsRows <=> \A r \in Rows : Told(r)
<1>1. \A r \in Rows, e \in EventType : e \in EventsOf(r) <=> <<e, r>> \in outbox
  BY DEF EventsOf
<1> QED  BY <1>1 DEF OutboxTellsRows, Told, Tells, EventType

(* A transaction on one row adds its events to that row's and to no other's*)
LEMMA Emitted ==
  ASSUME NEW r, NEW types, types \subseteq EventType, Emit(types, r)
  PROVE  /\ EventsOf(r)' = EventsOf(r) \cup types
         /\ \A t : t # r => EventsOf(t)' = EventsOf(t)
  BY DEF Emit, EventsOf

(* It leaves the outbox right if it tells what became of its row.          *)
LEMMA ToldAfter ==
  ASSUME OutboxTellsRows, NEW r \in Rows,
         NEW types, types \subseteq EventType, Emit(types, r),
         status \in [Rows -> RegistrationStatus \cup {"none"}],
         ticket \in [Rows -> TicketStatus \cup {"none"}],
         NEW st, status' = [status EXCEPT ![r] = st],
         NEW tk, ticket' = [ticket EXCEPT ![r] = tk],
         \A E : Tells(E, status[r], ticket[r]) => Tells(E \cup types, st, tk)
  PROVE  OutboxTellsRows'
<1>1. Told(r)'
  <2>1. Told(r)  BY OutboxByRow
  <2>2. status'[r] = st /\ ticket'[r] = tk  OBVIOUS
  <2> QED  BY <2>1, <2>2, Emitted DEF Told
<1>2. ASSUME NEW t \in Rows, t # r
      PROVE  Told(t)'
  <2>1. Told(t)  BY OutboxByRow
  <2>2. status'[t] = status[t] /\ ticket'[t] = ticket[t]  BY <1>2
  <2>3. EventsOf(t)' = EventsOf(t)  BY <1>2, Emitted
  <2> QED  BY <2>1, <2>2, <2>3 DEF Told
<1>3. \A t \in Rows : Told(t)'
  BY <1>1, <1>2
<1>4. SUFFICES ASSUME NEW t \in Rows
               PROVE  \A e \in EventType :
                         e \in EventsOf(t)' <=> <<e, t>> \in outbox'
  BY <1>3 DEF OutboxTellsRows, Told, Tells, EventType
<1> QED  BY DEF EventsOf

LEMMA StoryInit == Init => OutboxTellsRows
  BY DEF Init, OutboxTellsRows

LEMMA StoryStep ==
  TypeOK /\ Tickets /\ OutboxTellsRows /\ [Next]_vars => OutboxTellsRows'
<1> SUFFICES ASSUME TypeOK, Tickets, OutboxTellsRows, [Next]_vars
             PROVE  OutboxTellsRows'
  OBVIOUS
<1>a. ASSUME UNCHANGED <<status, ticket, outbox>>
      PROVE  OutboxTellsRows'
  BY <1>a DEF OutboxTellsRows
<1>b. UNCHANGED rows => UNCHANGED <<status, ticket, outbox>>
  BY DEF rows
<1>c. /\ status \in [Rows -> RegistrationStatus \cup {"none"}]
      /\ ticket \in [Rows -> TicketStatus \cup {"none"}]
  BY DEF TypeOK
<1>d. ASSUME NEW r \in Rows, UNCHANGED ticket
      PROVE  ticket' = [ticket EXCEPT ![r] = ticket[r]]
  BY <1>c, <1>d
<1>e. ASSUME NEW r \in Rows, UNCHANGED status
      PROVE  status' = [status EXCEPT ![r] = status[r]]
  BY <1>c, <1>e
<1>1. ASSUME NEW h \in Handlers, HandlerStep(h)
      PROVE  OutboxTellsRows'
  <2> DEFINE row == handler[h].row
  <2>1. ASSUME NEW u \in Users, RegisterRead(h, u)
        PROVE  OutboxTellsRows'
    BY <2>1, <1>a, <1>b DEF RegisterRead, Read
  <2>2. CASE RegisterCheck(h)
    BY <2>2, <1>a, <1>b DEF RegisterCheck, Rollback
  <2>3. CASE RegisterCommit(h)
    <3>1. CASE Rollback(h)
      BY <3>1, <1>a, <1>b DEF Rollback
    <3>2. CASE ~Rollback(h)
      <4>1. PICK r \in Rows :
              IsNextRow(r) /\ Insert(r, handler[h].approved, handler[h].deadline)
        BY <2>3, <3>2 DEF RegisterCommit
      <4>2. PICK yes \in BOOLEAN : yes = handler[h].approved
        BY <2>3, HandlerHolds DEF RegisterCommit
      <4> DEFINE types == {"registration.created"}
                            \cup (IF yes THEN {"ticket.created"} ELSE {})
                 st == IF yes THEN "approved" ELSE "pending"
                 tk == IF yes THEN "unused" ELSE ticket[r]
      <4>3. status[r] = "none" /\ ticket[r] = "none"
        BY <4>1 DEF IsNextRow, Tickets, TicketsFollowRows
      <4>4. /\ Emit(types, r) /\ types \subseteq EventType
            /\ status' = [status EXCEPT ![r] = st]
            /\ ticket' = [ticket EXCEPT ![r] = tk]
        BY <4>1, <4>2, <1>d DEF Insert, EventType
      <4>5. \A E : Tells(E, "none", "none") => Tells(E \cup types, st, tk)
        BY <4>3 DEF Tells
      <4> HIDE DEF types, st, tk
      <4> QED  BY <4>3, <4>4, <4>5, <1>c, ToldAfter
    <3> QED  BY <3>1, <3>2
  <2>4. ASSUME NEW r \in Rows, CancelRead(h, r)
        PROVE  OutboxTellsRows'
    BY <2>4, <1>a, <1>b DEF CancelRead, Read
  <2>5. CASE CancelReadTicket(h)
    BY <2>5, <1>a, <1>b DEF CancelReadTicket
  <2>6. CASE CancelCommit(h)
    <3>1. CASE Rollback(h)
      BY <3>1, <1>a, <1>b DEF Rollback
    <3>2. CASE ~Rollback(h)
      <4>1. PICK r \in Rows : r = row /\ status[r] \in Active
        BY <2>6, <3>2, HandlerHolds DEF CancelCommit, StillIn
      <4>2. PICK void \in BOOLEAN : void = handler[h].void
        BY <2>6, HandlerHolds DEF CancelCommit
      <4>3. /\ status' = [status EXCEPT ![r] = "cancelled"]
            /\ IF void THEN VoidTicket(r) ELSE UNCHANGED ticket
            /\ Emit(CancelEvents(void), r)
        BY <2>6, <3>2, <4>1, <4>2 DEF CancelCommit, Move
      <4> DEFINE types == CancelEvents(void)
                 tk == IF void /\ ticket[r] = "unused" THEN "voided"
                                                       ELSE ticket[r]
      <4>4. ticket' = [ticket EXCEPT ![r] = tk] /\ types \subseteq EventType
        BY <4>3, <1>d DEF VoidTicket, TicketUsable, CancelEvents, EventType
      <4>5. \A E : Tells(E, status[r], ticket[r])
                     => Tells(E \cup types, "cancelled", tk)
        BY <4>1 DEF Tells, CancelEvents, Active
      <4> HIDE DEF types, tk
      <4> QED  BY <4>3, <4>4, <4>5, <1>c, ToldAfter DEF types
    <3> QED  BY <3>1, <3>2
  <2>7. ASSUME NEW r \in Rows, NEW op, ReviewRead(h, r, op)
        PROVE  OutboxTellsRows'
    BY <2>7, <1>a, <1>b DEF ReviewRead, Read
  <2>8. CASE ApproveCommit(h)
    <3>1. CASE Rollback(h)
      BY <3>1, <1>a, <1>b DEF Rollback
    <3>2. CASE ~Rollback(h)
      <4>1. PICK r \in Rows :
              /\ status[r] = "pending" /\ ticket[r] = "none"
              /\ status' = [status EXCEPT ![r] = "approved"]
              /\ ticket' = [ticket EXCEPT ![r] = "unused"]
              /\ Emit({"registration.approved", "ticket.created"}, r)
        BY <2>8, <3>2, HandlerHolds DEF ApproveCommit, StillIn, Move
      <4>2. \A E : Tells(E, status[r], ticket[r])
                     => Tells(E \cup {"registration.approved", "ticket.created"}, "approved", "unused")
        BY <4>1 DEF Tells
      <4> QED  BY <4>1, <4>2, <1>c, <1>d, <1>e, ToldAfter DEF EventType
    <3> QED  BY <3>1, <3>2
  <2>9. CASE RejectCommit(h)
    <3>1. CASE Rollback(h)
      BY <3>1, <1>a, <1>b DEF Rollback
    <3>2. CASE ~Rollback(h)
      <4>1. PICK r \in Rows :
              /\ status[r] = "pending" /\ UNCHANGED ticket
              /\ status' = [status EXCEPT ![r] = "rejected"]
              /\ Emit({"registration.rejected"}, r)
        BY <2>9, <3>2, HandlerHolds DEF RejectCommit, StillIn, Move
      <4>2. \A E : Tells(E, status[r], ticket[r])
                     => Tells(E \cup {"registration.rejected"}, "rejected", ticket[r])
        BY <4>1 DEF Tells
      <4> QED  BY <4>1, <4>2, <1>c, <1>d, <1>e, ToldAfter DEF EventType
    <3> QED  BY <3>1, <3>2
  <2>10. ASSUME NEW q \in RequestIds, CheckInReplay(h, q)
         PROVE  OutboxTellsRows'
    BY <2>10, <1>a, <1>b DEF CheckInReplay
  <2>11. ASSUME NEW r \in Rows, NEW q \in RequestIds, CheckInRead(h, r, q)
         PROVE  OutboxTellsRows'
    BY <2>11, <1>a, <1>b DEF CheckInRead, Read
  <2>12. CASE CheckInCommit(h)
    <3>1. CASE UNCHANGED rows
      BY <3>1, <1>a, <1>b
    <3>2. CASE ~UNCHANGED rows
      <4>1. PICK r \in Rows :
              /\ ticket[r] = "unused" /\ UNCHANGED status
              /\ ticket' = [ticket EXCEPT ![r] = "used"]
              /\ Emit({"ticket.used"}, r)
        BY <2>12, <3>2, HandlerHolds DEF CheckInCommit, TicketUsable
      <4>2. \A E : Tells(E, status[r], ticket[r])
                     => Tells(E \cup {"ticket.used"}, status[r], "used")
        BY <4>1 DEF Tells
      <4> QED  BY <4>1, <4>2, <1>c, <1>d, <1>e, ToldAfter DEF EventType
    <3> QED  BY <3>1, <3>2
  <2>13. CASE CheckInRetry(h)
    BY <2>13, <1>a, <1>b DEF CheckInRetry
  <2>14. CASE CancelActivityRead(h)
    BY <2>14, <1>a, <1>b DEF CancelActivityRead, Read
  <2>15. CASE CancelActivityCommit(h)
    BY <2>15, <1>a DEF CancelActivityCommit
  <2>16. CASE GiveUp(h)
    BY <2>16, <1>a, <1>b DEF GiveUp, Rollback
  <2> QED
    BY <1>1, <2>1, <2>2, <2>3, <2>4, <2>5, <2>6, <2>7, <2>8, <2>9, <2>10,
       <2>11, <2>12, <2>13, <2>14, <2>15, <2>16 DEF HandlerStep
<1>2. ASSUME NEW s \in Schedulers, SchedulerStep(s)
      PROVE  OutboxTellsRows'
  <2>1. CASE SyncStatuses(s)
    BY <2>1, <1>a DEF SyncStatuses
  <2>2. ASSUME NEW r \in Rows, ExpirePending(s, r)
        PROVE  OutboxTellsRows'
    <3>1. CASE UNCHANGED rows
      BY <3>1, <1>a, <1>b
    <3>2. CASE ~UNCHANGED rows
      <4>1. /\ status[r] = "pending" /\ UNCHANGED ticket
            /\ status' = [status EXCEPT ![r] = "expired"]
            /\ Emit({"registration.expired"}, r)
        BY <2>2, <3>2 DEF ExpirePending, StillIn, Move
      <4>2. \A E : Tells(E, status[r], ticket[r])
                     => Tells(E \cup {"registration.expired"}, "expired", ticket[r])
        BY <4>1 DEF Tells
      <4> QED  BY <4>1, <4>2, <1>c, <1>d, <1>e, ToldAfter DEF EventType
    <3> QED  BY <3>1, <3>2
  <2>3. ASSUME NEW r \in Rows, ExpireTicket(s, r)
        PROVE  OutboxTellsRows'
    <3>1. CASE UNCHANGED rows
      BY <3>1, <1>a, <1>b
    <3>2. CASE ~UNCHANGED rows
      <4>1. /\ ticket[r] = "unused" /\ UNCHANGED status
            /\ ticket' = [ticket EXCEPT ![r] = "expired"]
            /\ Emit({"ticket.expired"}, r)
        BY <2>3, <3>2 DEF ExpireTicket, TicketUsable
      <4>2. \A E : Tells(E, status[r], ticket[r])
                     => Tells(E \cup {"ticket.expired"}, status[r], "expired")
        BY <4>1 DEF Tells
      <4> QED  BY <4>1, <4>2, <1>c, <1>d, <1>e, ToldAfter DEF EventType
    <3> QED  BY <3>1, <3>2
  <2>4. CASE ListPending(s) \/ ListTickets(s) \/ EndRun(s)
             \/ AbandonBatch(s) \/ Crash(s)
    BY <2>4, <1>a, <1>b
    DEF ListPending, ListTickets, EndRun, AbandonBatch, Crash
  <2> QED  BY <1>2, <2>1, <2>2, <2>3, <2>4 DEF SchedulerStep
<1>3. CASE Tick
  BY <1>3, <1>a, <1>b DEF Tick
<1>4. CASE UNCHANGED vars
  BY <1>4, <1>a, <1>b DEF vars
<1> QED  BY <1>1, <1>2, <1>3, <1>4 DEF Next

(* The outbox says of every registration and ticket what became of it and  *)
(* nothing that did not: consumers who read nothing but the events can     *)
(* follow the rows. It rests on PlansHold: a cancellation that announces no*)
(* voided ticket has none to void.                                         *)
THEOREM OutboxCorrect == Spec => []OutboxTellsRows
<1> QED
  BY TypeInit, TypeStep, TicketsInit, TicketsStep, StoryInit, StoryStep, PTL
  DEF Spec

-----------------------------------------------------------------------------
(* Refinement.                                                             *)

LEMMA PromiseInit == Init => Promise!Init
  BY DEF Init, Promise!Init, PlaceOf, PassOf

(* A slot the counter guard found free is a place Admission may give.      *)
LEMMA MayClaimWhenFree ==
  ASSUME TypeOK, Places, NEW r \in Rows, FreeFor(r)
  PROVE  Promise!MayClaim(r)
<1>1. Promise!Held = Rowset(Active)
  BY DEF TypeOK, RegistrationStatus, Promise!Held, PlaceOf, Rowset, Active
<1>2. Cardinality(Rowset(Active)) < MaxParticipants
  BY CapacityByCounters DEF FreeFor, SlotFree, Places, TypeOK
<1>3. \A t \in Rowset(Active) : Owner(t) # Owner(r)
  BY DEF FreeFor, KeyFree, HasActive, Rowset
<1>4. PlaceOf[r] = "unclaimed"
  BY DEF PlaceOf, FreeFor
<1>5. Promise!Cardinality(Promise!Held) = Cardinality(Promise!Held)
  BY DEF Promise!Cardinality, Cardinality
<1> QED  BY <1>1, <1>2, <1>3, <1>4, <1>5 DEF Promise!MayClaim

LEMMA PromiseStep ==
  ASSUME TypeOK, Places, Effect
  PROVE  [Promise!Next]_<<PlaceOf, PassOf>>
<1>a. /\ status \in [Rows -> RegistrationStatus \cup {"none"}]
      /\ ticket \in [Rows -> TicketStatus \cup {"none"}]
  BY DEF TypeOK
<1>1. CASE Quiet
  BY <1>1 DEF Quiet, PlaceOf, PassOf
<1>2. ASSUME NEW r \in Rows, Applied(r)
      PROVE  Promise!Reserve(r)
  <2>1. Promise!MayClaim(r)
    BY <1>2, MayClaimWhenFree DEF Applied
  <2>2. PlaceOf' = [PlaceOf EXCEPT ![r] = "reserved"] /\ PassOf' = PassOf
    BY <1>a, <1>2 DEF Applied, PlaceOf, PassOf
  <2> QED  BY <2>1, <2>2 DEF Promise!Reserve
<1>3. ASSUME NEW r \in Rows, Admitted(r)
      PROVE  Promise!Confirm(r)
  <2>1. PlaceOf[r] = "reserved" \/ Promise!MayClaim(r)
    BY <1>3, MayClaimWhenFree DEF Admitted, PlaceOf
  <2>2. /\ PlaceOf' = [PlaceOf EXCEPT ![r] = "confirmed"]
        /\ PassOf' = [PassOf EXCEPT ![r] = "valid"]
    BY <1>a, <1>3 DEF Admitted, PlaceOf, PassOf
  <2> QED  BY <2>1, <2>2 DEF Promise!Confirm
<1>4. ASSUME NEW r \in Rows, Dropped(r)
      PROVE  Promise!Release(r)
  <2>1. r \in Promise!Held
    BY <1>4 DEF Dropped, Promise!Held, PlaceOf, Active
  <2>2. PlaceOf' = [PlaceOf EXCEPT ![r] = "released"]
    BY <1>a, <1>4 DEF Dropped, PlaceOf
  <2>3. PassOf' = [PassOf EXCEPT ![r] =
                     IF PassOf[r] = "valid" THEN "void" ELSE PassOf[r]]
    BY <1>a, <1>4 DEF Dropped, PassOf, TicketStatus
  <2> QED  BY <2>1, <2>2, <2>3 DEF Promise!Release
<1>5. ASSUME NEW r \in Rows, Closed(r)
      PROVE  Promise!Redeem(r) \/ Promise!Lapse(r)
  <2>1. PassOf[r] = "valid" /\ PlaceOf' = PlaceOf
    BY <1>5 DEF Closed, PassOf, PlaceOf
  <2>2. \/ PassOf' = [PassOf EXCEPT ![r] = "redeemed"]
        \/ PassOf' = [PassOf EXCEPT ![r] = "void"]
    BY <1>a, <1>5 DEF Closed, PassOf
  <2> QED  BY <2>1, <2>2 DEF Promise!Redeem, Promise!Lapse
<1> QED  BY <1>1, <1>2, <1>3, <1>4, <1>5 DEF Effect, Promise!Next

(* The rows and tickets of any instance, under any interleaving, behave as *)
(* Admission promises.                                                     *)
THEOREM ImplementsAdmission == Spec => KeepsPromise
<1>1. TypeOK /\ Places /\ Tickets /\ [Next]_vars
        => [Promise!Next]_<<PlaceOf, PassOf>>
  BY EveryEffect, PromiseStep DEF Tickets
<1> QED
  BY <1>1, TypeInit, TypeStep, PlacesInit, PlacesStep, TicketsInit, TicketsStep,
     PromiseInit, PTL DEF Spec, KeepsPromise, Promise!Spec
=============================================================================

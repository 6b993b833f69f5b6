--------------------------- MODULE ActivityProofs ---------------------------
(***************************************************************************)
(* Proofs about Activity, for any forms and files, any number of requests  *)
(* in flight and of scheduler instances, and any times.                    *)
(***************************************************************************)
EXTENDS Activity, TLAPS

(* Before the activity is created nothing is: no log, no event, no group,  *)
(* nobody who read it.                                                     *)
Unborn ==
    ~Exists =>
        /\ outbox = <<>> /\ log = <<>> /\ group = "none"
        /\ \A h \in Handlers : handler[h] = Idle
        /\ \A s \in Schedulers : scheduler[s] = Idle

(* A request carries a row on which its change was legal when it read it.  *)
HandlerSaw ==
    \A h \in Handlers :
        /\ handler[h].op = "created" => handler[h].seen.status = "draft"
        /\ handler[h].op \in {"detach", "attach", "update"} =>
              handler[h].seen.status \in Editable
        /\ handler[h].op = "transition" =>
              handler[h].seen.status \in Accepted(handler[h].to)

(* A sync run takes what was open on, and never back.                      *)
SchedulerSaw ==
    \A s \in Schedulers :
        scheduler[s].op = "sync" =>
            \/ scheduler[s].seen.status = "published"
            \/ /\ scheduler[s].seen.status = "ongoing"
               /\ scheduler[s].to = "finished"

(* The inductive invariant.                                                *)
Inductive ==
    /\ TypeOK
    /\ Unborn
    /\ HandlerSaw
    /\ SchedulerSaw
    /\ VersionTellsRow
    /\ GroupFollowsStatus

-----------------------------------------------------------------------------
(* What a request in each of its stages holds.                             *)
LEMMA HandlerHolds ==
  ASSUME TypeOK, NEW h \in Handlers
  PROVE  /\ handler[h].op = "created" =>
              handler[h] \in [op : {"created"}, seen : RowState,
                              submit : BOOLEAN]
         /\ handler[h].op \in {"detach", "attach", "update"} =>
              handler[h] \in [op : {"detach", "attach", "update"},
                              seen : RowState, form : Forms]
         /\ handler[h].op = "transition" =>
              handler[h] \in [op : {"transition"}, seen : RowState,
                              to : Targets]
         /\ handler[h].op \in {"created", "detach", "attach", "update",
                               "transition"} => handler[h] # Idle
         /\ handler[h] # Idle =>
              handler[h].op \in {"created", "detach", "attach", "update",
                                 "transition"}
<1>1. handler[h] \in HandlerState  BY DEF TypeOK
<1> QED  BY <1>1 DEF HandlerState, Idle

LEMMA SchedulerHolds ==
  ASSUME TypeOK, NEW s \in Schedulers, scheduler[s] # Idle
  PROVE  /\ scheduler[s] \in [op : {"sync"}, seen : RowState,
                              to : {"ongoing", "finished"}]
         /\ scheduler[s].op = "sync"
  BY DEF TypeOK, SchedulerState

(* An existing row has a status, a version and a form.                     *)
LEMMA RowHolds ==
  ASSUME TypeOK, Exists
  PROVE  row \in RowState
  BY DEF TypeOK, Exists

(* Whoever has read the activity has read an existing one.                 *)
LEMMA ReadersExist ==
  ASSUME Unborn
  PROVE  /\ \A h \in Handlers : handler[h] # Idle => Exists
         /\ \A s \in Schedulers : scheduler[s] # Idle => Exists
  BY DEF Unborn

(* A log or an outbox that gets one more entry remains one.                *)
LEMMA AppendTyped ==
  ASSUME NEW T, NEW list \in Seq(T), NEW entry \in T
  PROVE  Append(list, entry) \in Seq(T)
  OBVIOUS

(* A row whose status and version change remains a row.                    *)
LEMMA MovedRow ==
  ASSUME NEW r \in RowState, NEW st \in Statuses, NEW v \in Nat
  PROVE  /\ [r EXCEPT !.status = st, !.version = v] \in RowState
         /\ [r EXCEPT !.status = st, !.version = v].status = st
         /\ [r EXCEPT !.status = st, !.version = v].version = v
         /\ [r EXCEPT !.status = st, !.version = v].form = r.form
  BY DEF RowState

(* Every timed move is legal: published goes on to ongoing or finished,    *)
(* ongoing to finished.                                                    *)
LEMMA TimedMoves ==
  ASSUME NEW st \in Statuses, NextTimedStatus(st) # st
  PROVE  /\ NextTimedStatus(st) \in {"ongoing", "finished"}
         /\ \/ st = "published"
            \/ st = "ongoing" /\ NextTimedStatus(st) = "finished"
  BY DEF NextTimedStatus, Statuses

-----------------------------------------------------------------------------
LEMMA InductiveInit == Init => Inductive
  BY DEF Init, Inductive, TypeOK, Unborn, HandlerSaw, SchedulerSaw,
         VersionTellsRow, GroupFollowsStatus, Exists, HandlerState,
         SchedulerState, Idle, NoRow

(* Types.                                                                  *)
LEMMA TypeStep == Inductive /\ [Next]_vars => TypeOK'
<1> SUFFICES ASSUME Inductive, [Next]_vars
             PROVE  TypeOK'
  OBVIOUS
<1> USE DEF Inductive
<1>0. TypeOK /\ Unborn  OBVIOUS
<1>1. ASSUME NEW h \in Handlers, HandlerStep(h)
      PROVE  TypeOK'
  <2> USE <1>0, HandlerHolds, RowHolds DEF TypeOK
  <2>0. ASSUME NEW state \in HandlerState, Goto(h, state)
        PROVE  /\ handler' \in [Handlers -> HandlerState]
               /\ now' = now /\ scheduler' = scheduler
    BY <2>0 DEF Goto
  <2>i. Idle \in HandlerState
    BY DEF HandlerState
  <2>t. ASSUME NEW type, NEW st \in Statuses, NEW v \in Nat,
               Tell(type, st, v),
               type \in {"activity.created", "activity.updated",
                         "activity.status_changed", "activity.published",
                         "activity.cancelled"}
        PROVE  outbox' \in Seq(EventState)
    BY <2>t DEF Tell, EventState
  <2>1. ASSUME NEW form \in Forms, NEW submit \in BOOLEAN,
               Create(h, form, submit)
        PROVE  TypeOK'
    <3>1. row' \in RowState
      BY <2>1 DEF Create, RowState, Statuses
    <3>2. [op |-> "created", seen |-> row', submit |-> submit] \in HandlerState
      BY <3>1 DEF HandlerState
    <3>3. outbox' \in Seq(EventState)
      BY <2>1, <2>t DEF Create, Statuses
    <3>4. /\ handler' \in [Handlers -> HandlerState]
          /\ now' = now /\ scheduler' = scheduler
      BY <2>1, <2>0, <3>2 DEF Create
    <3> QED  BY <2>1, <3>1, <3>3, <3>4 DEF Create
  <2>2. ASSUME CreateReference(h)
        PROVE  TypeOK'
    <3>1. handler[h] \in [op : {"created"}, seen : RowState, submit : BOOLEAN]
      BY <2>2 DEF CreateReference
    <3>2. [op |-> "transition", seen |-> handler[h].seen,
           to |-> "pending_review"] \in HandlerState
      BY <3>1 DEF HandlerState, Targets
    <3>3. /\ handler' \in [Handlers -> HandlerState]
          /\ now' = now /\ scheduler' = scheduler
      BY <2>2, <2>0, <2>i, <3>2 DEF CreateReference
    <3>4. references' \subseteq Files
      BY <2>2, <3>1 DEF CreateReference, RowState, Forms
    <3> QED  BY <2>2, <3>3, <3>4 DEF CreateReference
  <2>3. ASSUME NEW form \in Forms, UpdateRead(h, form)
        PROVE  TypeOK'
    <3>1. [op |-> "detach", seen |-> row, form |-> form] \in HandlerState
      BY <2>3 DEF UpdateRead, HandlerState
    <3> QED  BY <2>3, <2>0, <3>1 DEF UpdateRead, Read, db
  <2>4. ASSUME UpdateDetach(h)
        PROVE  TypeOK'
    <3>1. handler[h] \in [op : {"detach", "attach", "update"},
                          seen : RowState, form : Forms]
      BY <2>4 DEF UpdateDetach
    <3>2. [handler[h] EXCEPT !.op = "attach"] \in HandlerState
      BY <3>1 DEF HandlerState
    <3>3. references' \subseteq Files
      BY <2>4 DEF UpdateDetach
    <3> QED  BY <2>4, <2>0, <3>2, <3>3 DEF UpdateDetach
  <2>5. ASSUME UpdateAttach(h)
        PROVE  TypeOK'
    <3>1. handler[h] \in [op : {"detach", "attach", "update"},
                          seen : RowState, form : Forms]
      BY <2>5 DEF UpdateAttach
    <3>2. [handler[h] EXCEPT !.op = "update"] \in HandlerState
      BY <3>1 DEF HandlerState
    <3>3. references' \subseteq Files
      BY <2>5, <3>1 DEF UpdateAttach, Forms
    <3> QED  BY <2>5, <2>0, <3>2, <3>3 DEF UpdateAttach
  <2>6. ASSUME UpdateCommit(h)
        PROVE  TypeOK'
    <3>1. handler[h] \in [op : {"detach", "attach", "update"},
                          seen : RowState, form : Forms]
      BY <2>6 DEF UpdateCommit
    <3>2. CASE Rollback(h)
      BY <3>2, <2>0, <2>i DEF Rollback, db
    <3>3. CASE ~Rollback(h)
      <4>1. row \in RowState
        BY <2>6, <3>3 DEF UpdateCommit, MayChange
      <4>2. row' \in RowState
        BY <2>6, <3>1, <3>3, <4>1 DEF UpdateCommit, RowState, Statuses
      <4>3. <<"rejected", "draft">> \in Statuses \X Statuses
        BY DEF Statuses
      <4>4. log' \in Seq(Statuses \X Statuses)
        <5>1. log' = log \/ log' = Append(log, <<"rejected", "draft">>)
          BY <2>6, <3>3 DEF UpdateCommit
        <5>2. log \in Seq(Statuses \X Statuses)
          BY <1>0
        <5>3. Append(log, <<"rejected", "draft">>) \in Seq(Statuses \X Statuses)
          BY <4>3, <5>2, AppendTyped
        <5> QED  BY <5>1, <5>2, <5>3
      <4>5. outbox' \in Seq(EventState)
        BY <2>6, <2>t, <3>1, <3>3 DEF UpdateCommit, RowState
      <4>6. Goto(h, Idle) /\ UNCHANGED <<group, references>>
        BY <2>6, <3>3 DEF UpdateCommit
      <4> QED  BY <2>0, <2>i, <4>2, <4>4, <4>5, <4>6
    <3> QED  BY <3>2, <3>3
  <2>7. ASSUME NEW to \in Targets, TransitionRead(h, to)
        PROVE  TypeOK'
    <3>1. [op |-> "transition", seen |-> row, to |-> to] \in HandlerState
      BY <2>7 DEF TransitionRead, HandlerState
    <3> QED  BY <2>7, <2>0, <3>1 DEF TransitionRead, Read, db
  <2>8. ASSUME TransitionCommit(h)
        PROVE  TypeOK'
    <3>1. handler[h] \in [op : {"transition"}, seen : RowState, to : Targets]
      BY <2>8 DEF TransitionCommit
    <3>2. CASE Rollback(h)
      BY <3>2, <2>0, <2>i DEF Rollback, db
    <3>3. CASE ~Rollback(h)
      <4>1. row \in RowState
        BY <2>8, <3>3 DEF TransitionCommit, MayChange
      <4>2. row' \in RowState
        <5>1. row' = [row EXCEPT !.status = handler[h].to,
                                 !.version = row.version + 1]
          BY <2>8, <3>3 DEF TransitionCommit, NextVersion
        <5>2. handler[h].to \in Statuses /\ row.version + 1 \in Nat
          BY <3>1, <4>1 DEF RowState, Statuses, Targets
        <5> QED  BY <4>1, <5>1, <5>2, MovedRow
      <4>3. <<handler[h].seen.status, handler[h].to>> \in Statuses \X Statuses
        BY <3>1 DEF RowState, Statuses, Targets
      <4>4. log' \in Seq(Statuses \X Statuses)
        <5>1. log' = Append(log, <<handler[h].seen.status, handler[h].to>>)
          BY <2>8, <3>3 DEF TransitionCommit
        <5>2. log \in Seq(Statuses \X Statuses)
          BY <1>0
        <5> QED  BY <4>3, <5>1, <5>2, AppendTyped
      <4>5. outbox' \in Seq(EventState)
        <5>1. handler[h].to \in Statuses
          BY <3>1 DEF Statuses, Targets
        <5>2. handler[h].seen.version + 1 \in Nat
          BY <3>1 DEF RowState
        <5> QED  BY <2>8, <2>t, <3>3, <5>1, <5>2 DEF TransitionCommit, EventType
      <4>6. group' \in {"none", "active", "dissolved"}
        BY <2>8, <3>3 DEF TransitionCommit
      <4>7. Goto(h, Idle) /\ UNCHANGED references
        BY <2>8, <3>3 DEF TransitionCommit
      <4> QED  BY <2>0, <2>i, <4>2, <4>4, <4>5, <4>6, <4>7
    <3> QED  BY <3>2, <3>3
  <2>9. ASSUME GiveUp(h)
        PROVE  TypeOK'
    BY <2>9, <2>0, <2>i DEF GiveUp, Rollback, db
  <2> QED
    BY <1>1, <2>1, <2>2, <2>3, <2>4, <2>5, <2>6, <2>7, <2>8, <2>9
    DEF HandlerStep
<1>2. ASSUME NEW s \in Schedulers, SchedulerStep(s)
      PROVE  TypeOK'
  <2> USE <1>0, RowHolds DEF TypeOK
  <2>0. ASSUME NEW state \in SchedulerState, Schedule(s, state)
        PROVE  /\ scheduler' \in [Schedulers -> SchedulerState]
               /\ now' = now /\ handler' = handler
    BY <2>0 DEF Schedule
  <2>i. Idle \in SchedulerState
    BY DEF SchedulerState
  <2>1. CASE SyncRead(s)
    <3>1. row \in RowState /\ row.status \in Statuses
      BY <2>1 DEF SyncRead, RowState
    <3>2. [op |-> "sync", seen |-> row, to |-> NextTimedStatus(row.status)]
            \in SchedulerState
      BY <2>1, <3>1, TimedMoves DEF SyncRead, SchedulerState
    <3> QED  BY <2>0, <2>1, <3>2 DEF SyncRead, db
  <2>2. CASE SyncCommit(s)
    <3>1. /\ scheduler[s] \in [op : {"sync"}, seen : RowState,
                               to : {"ongoing", "finished"}]
          /\ row \in RowState
      BY <2>2, SchedulerHolds, ReadersExist DEF SyncCommit
    <3>2. row' \in {NoRow} \cup RowState
      <4>1. \/ row' = row
            \/ row' = [row EXCEPT !.status = scheduler[s].to,
                                  !.version = row.version + 1]
        BY <2>2 DEF SyncCommit, db
      <4>2. scheduler[s].to \in Statuses /\ row.version + 1 \in Nat
        BY <3>1 DEF RowState, Statuses
      <4>3. [row EXCEPT !.status = scheduler[s].to,
                        !.version = row.version + 1] \in RowState
        BY <3>1, <4>2, MovedRow
      <4> QED  BY <3>1, <4>1, <4>3
    <3>3. log' \in Seq(Statuses \X Statuses)
      <4>1. <<scheduler[s].seen.status, scheduler[s].to>>
              \in Statuses \X Statuses
        BY <3>1 DEF RowState, Statuses
      <4>2. \/ log' = log
            \/ log' = Append(log, <<scheduler[s].seen.status,
                                    scheduler[s].to>>)
        BY <2>2 DEF SyncCommit, db
      <4>3. log \in Seq(Statuses \X Statuses)
        BY <1>0
      <4> QED  BY <4>1, <4>2, <4>3, AppendTyped
    <3>4. outbox' \in Seq(EventState)
      <4>1. [type |-> "activity.status_changed", status |-> scheduler[s].to,
             version |-> scheduler[s].seen.version + 1] \in EventState
        BY <3>1 DEF EventState, RowState, Statuses
      <4>2. \/ outbox' = outbox
            \/ outbox' = Append(outbox,
                   [type |-> "activity.status_changed",
                    status |-> scheduler[s].to,
                    version |-> scheduler[s].seen.version + 1])
        BY <2>2 DEF SyncCommit, Tell, db
      <4> QED  BY <4>1, <4>2, AppendTyped
    <3>5. UNCHANGED <<group, references>> /\ Schedule(s, Idle)
      BY <2>2 DEF SyncCommit, db
    <3> QED  BY <2>0, <2>i, <3>2, <3>3, <3>4, <3>5
  <2>3. CASE SyncFail(s)
    BY <2>0, <2>i, <2>3 DEF SyncFail, db
  <2> QED  BY <1>2, <2>1, <2>2, <2>3 DEF SchedulerStep
<1>3. CASE Tick
  BY <1>0, <1>3 DEF Tick, TypeOK, db
<1>4. CASE UNCHANGED vars
  BY <1>0, <1>4 DEF TypeOK, vars, db
<1> QED  BY <1>1, <1>2, <1>3, <1>4 DEF Next

-----------------------------------------------------------------------------
(* What a step can do to the stored activity: nothing, ...                 *)
Kept == UNCHANGED <<row, group, log, outbox>>

(* ... create it, ...                                                      *)
Born ==
    /\ ~Exists /\ Exists'
    /\ row'.status = "draft" /\ row'.version = 0
    /\ \E event \in EventState : outbox' = Append(outbox, event)
    /\ UNCHANGED <<group, log>>

(* ... change an existing row, announcing it by one event: ...             *)
Changed ==
    /\ Exists /\ Exists'
    /\ row'.version = row.version + 1
    /\ \E event \in EventState : outbox' = Append(outbox, event)

(* ... edit it, ...                                                        *)
Edited ==
    /\ Changed
    /\ row.status \in Editable /\ row'.status = "draft"
    /\ group' = group
    /\ log' = IF row.status = "rejected"
                THEN Append(log, <<"rejected", "draft">>) ELSE log

(* ... or take it from one status to another.                              *)
Legal(from, to) ==
    /\ from \in Accepted(to) \/ to \in {"ongoing", "finished"}
    /\ to \in {"ongoing", "finished"} =>
          from = "published" \/ (from = "ongoing" /\ to = "finished")

Moved ==
    /\ Changed
    /\ row'.status \in Targets \cup {"ongoing", "finished"}
    /\ row'.form = row.form
    /\ Legal(row.status, row'.status)
    /\ row'.status = "published" => group = "none"
    /\ group' = CASE row'.status = "published" -> "active"
                  [] row'.status = "cancelled" /\ group # "none" -> "dissolved"
                  [] OTHER -> group
    /\ log' = Append(log, <<row.status, row'.status>>)

(* A commit of a request either rolls back or is the change it is meant    *)
(* to be: an edit's version guard makes the row read the row replaced.     *)
LEMMA UpdateEffect ==
  ASSUME Inductive, NEW h \in Handlers, UpdateCommit(h)
  PROVE  Kept \/ Edited
<1> DEFINE seen == handler[h].seen
<1>0. TypeOK  BY DEF Inductive
<1>1. CASE Rollback(h)
  BY <1>1 DEF Rollback, Kept, db
<1>2. CASE ~Rollback(h)
  <2>1. /\ row.version = seen.version /\ Exists
        /\ row' = [form |-> handler[h].form,
                   status |-> IF seen.status = "rejected" THEN "draft"
                                                          ELSE row.status,
                   version |-> seen.version + 1]
        /\ log' = IF seen.status = "rejected"
                    THEN Append(log, <<"rejected", "draft">>) ELSE log
        /\ outbox' = Append(outbox, [type |-> "activity.updated",
                                     status |-> seen.status,
                                     version |-> seen.version + 1])
        /\ group' = group
    BY <1>2 DEF UpdateCommit, SameVersion, MayChange, Tell
  <2>2. /\ handler[h] \in [op : {"detach", "attach", "update"},
                            seen : RowState, form : Forms]
        /\ handler[h] # Idle
    BY <1>0, HandlerHolds DEF UpdateCommit
  <2>3. seen = row
    BY <2>1, <2>2 DEF Inductive, VersionTellsRow
  <2>4. row.status \in Editable
    BY <2>3 DEF Inductive, HandlerSaw, UpdateCommit
  <2>5. row' \in RowState /\ row'.status = "draft"
    BY <2>1, <2>2, <2>3, <2>4 DEF RowState, Editable, Statuses
  <2>6. Exists'
    BY <2>1 DEF Exists, NoRow
  <2>7. [type |-> "activity.updated", status |-> seen.status,
         version |-> seen.version + 1] \in EventState
    BY <2>2 DEF EventState, RowState
  <2> QED  BY <2>1, <2>3, <2>4, <2>5, <2>6, <2>7 DEF Edited, Changed
<1> QED  BY <1>1, <1>2

LEMMA TransitionEffect ==
  ASSUME Inductive, NEW h \in Handlers, TransitionCommit(h)
  PROVE  Kept \/ Moved
<1> DEFINE seen == handler[h].seen
           to == handler[h].to
<1>0. TypeOK  BY DEF Inductive
<1>1. CASE Rollback(h)
  BY <1>1 DEF Rollback, Kept, db
<1>2. CASE ~Rollback(h)
  <2>1. /\ row.status = seen.status /\ Exists
        /\ to = "published" => group = "none"
        /\ row' = [row EXCEPT !.status = to, !.version = row.version + 1]
        /\ group' = CASE to = "published" -> "active"
                      [] to = "cancelled" /\ group # "none" -> "dissolved"
                      [] OTHER -> group
        /\ log' = Append(log, <<seen.status, to>>)
        /\ outbox' = Append(outbox, [type |-> EventType(to), status |-> to,
                                     version |-> seen.version + 1])
    BY <1>2 DEF TransitionCommit, SameStatus, NextVersion, MayChange, Tell
  <2>2. handler[h] \in [op : {"transition"}, seen : RowState, to : Targets]
    BY <1>0, HandlerHolds DEF TransitionCommit
  <2>3. row \in RowState
    BY <1>0, <2>1, RowHolds
  <2>4. to \in Targets /\ to \in Statuses /\ row.version + 1 \in Nat
    BY <2>2, <2>3 DEF Targets, Statuses, RowState
  <2>5. /\ row' \in RowState /\ row'.status = to
        /\ row'.version = row.version + 1 /\ row'.form = row.form
    BY <2>1, <2>3, <2>4 DEF RowState
  <2>6. row.status \in Accepted(to)
    BY <2>1 DEF Inductive, HandlerSaw, TransitionCommit
  <2>7. Exists'
    BY <2>5 DEF Exists, NoRow, RowState
  <2>8. [type |-> EventType(to), status |-> to, version |-> seen.version + 1]
          \in EventState
    <3>1. seen.version + 1 \in Nat  BY <2>2 DEF RowState
    <3> QED  BY <2>4, <3>1 DEF EventState, EventType
  <2>9. to \notin {"ongoing", "finished"}
    BY <2>4 DEF Targets
  <2> QED
    BY <2>1, <2>4, <2>5, <2>6, <2>7, <2>8, <2>9 DEF Moved, Changed, Legal
<1> QED  BY <1>1, <1>2

LEMMA SyncEffect ==
  ASSUME Inductive, NEW s \in Schedulers, SyncCommit(s)
  PROVE  Kept \/ Moved
<1> DEFINE seen == scheduler[s].seen
           to == scheduler[s].to
<1>0. TypeOK /\ Unborn /\ SchedulerSaw  BY DEF Inductive
<1>1. CASE UNCHANGED db
  BY <1>1 DEF Kept, db
<1>2. CASE ~UNCHANGED db
  <2>1. /\ row.status = seen.status
        /\ row' = [row EXCEPT !.status = to, !.version = row.version + 1]
        /\ log' = Append(log, <<seen.status, to>>)
        /\ outbox' = Append(outbox, [type |-> "activity.status_changed",
                                     status |-> to,
                                     version |-> seen.version + 1])
        /\ group' = group
    BY <1>2 DEF SyncCommit, SameStatus, Tell
  <2>2. /\ scheduler[s] # Idle /\ Exists
        /\ scheduler[s] \in [op : {"sync"}, seen : RowState,
                              to : {"ongoing", "finished"}]
        /\ scheduler[s].op = "sync"
    BY <1>0, SchedulerHolds, ReadersExist DEF SyncCommit
  <2>3. row \in RowState
    BY <1>0, <2>2, RowHolds
  <2>4. to \in {"ongoing", "finished"} /\ to \in Statuses
        /\ row.version + 1 \in Nat
    BY <2>2, <2>3 DEF Statuses, RowState
  <2>5. /\ row' \in RowState /\ row'.status = to
        /\ row'.version = row.version + 1 /\ row'.form = row.form
    BY <2>1, <2>3, <2>4 DEF RowState
  <2>6. Legal(row.status, to)
    BY <1>0, <2>1, <2>2, <2>4 DEF SchedulerSaw, Legal
  <2>7. Exists'
    BY <2>5 DEF Exists, NoRow, RowState
  <2>8. [type |-> "activity.status_changed", status |-> to,
         version |-> seen.version + 1] \in EventState
    BY <2>2, <2>4 DEF EventState, RowState
  <2>9. to # "published" /\ to # "cancelled"
    BY <2>4
  <2> QED
    BY <2>1, <2>2, <2>4, <2>5, <2>6, <2>7, <2>8, <2>9 DEF Moved, Changed
<1> QED  BY <1>1, <1>2

(* Every step is one of these.                                             *)
LEMMA EveryEffect ==
  ASSUME Inductive, [Next]_vars
  PROVE  Kept \/ Born \/ Edited \/ Moved
<1>1. ASSUME NEW h \in Handlers, HandlerStep(h)
      PROVE  Kept \/ Born \/ Edited \/ Moved
  <2>1. ASSUME NEW form \in Forms, NEW submit \in BOOLEAN,
               Create(h, form, submit)
        PROVE  Born
    <3>1. [type |-> "activity.created", status |-> "draft", version |-> 1]
            \in EventState
      BY DEF EventState, Statuses
    <3> QED  BY <2>1, <3>1 DEF Create, Born, Exists, NoRow, Tell
  <2>2. CASE \/ CreateReference(h) \/ UpdateDetach(h) \/ UpdateAttach(h)
             \/ GiveUp(h)
             \/ \E form \in Forms : UpdateRead(h, form)
             \/ \E to \in Targets : TransitionRead(h, to)
    BY <2>2 DEF CreateReference, UpdateDetach, UpdateAttach, GiveUp, Rollback,
                UpdateRead, TransitionRead, Read, Kept, db
  <2> QED
    BY <1>1, <2>1, <2>2, UpdateEffect, TransitionEffect DEF HandlerStep
<1>2. ASSUME NEW s \in Schedulers, SchedulerStep(s)
      PROVE  Kept \/ Born \/ Edited \/ Moved
  BY <1>2, SyncEffect DEF SchedulerStep, SyncRead, SyncFail, Kept, db
<1>3. CASE Tick \/ UNCHANGED vars
  BY <1>3 DEF Tick, vars, Kept, db
<1> QED  BY <1>1, <1>2, <1>3 DEF Next

-----------------------------------------------------------------------------
(* What a step can do to what a request remembers: forget it, keep the row *)
(* it has read, or read the row as it now is. A transition is remembered   *)
(* together with a legal source.                                           *)
LEMMA EveryReader ==
  ASSUME Inductive, [Next]_vars, NEW k \in Handlers
  PROVE  \/ handler'[k] = Idle
         \/ /\ handler'[k] # Idle /\ handler[k] # Idle
            /\ handler'[k].seen = handler[k].seen
         \/ /\ handler'[k] # Idle /\ Exists'
            /\ handler'[k].seen = row'
<1> DEFINE Reader == \/ handler'[k] = Idle
                     \/ /\ handler'[k] # Idle /\ handler[k] # Idle
                        /\ handler'[k].seen = handler[k].seen
                     \/ /\ handler'[k] # Idle /\ Exists'
                        /\ handler'[k].seen = row'
<1>0. /\ TypeOK
      /\ handler \in [Handlers -> HandlerState]
      /\ handler'[k] = handler[k] => Reader
  BY DEF Inductive, TypeOK
<1>1. ASSUME NEW h \in Handlers, HandlerStep(h)
      PROVE  Reader
  <2>0. ASSUME NEW state, Goto(h, state), h = k
        PROVE  handler'[k] = state
    BY <1>0, <2>0 DEF Goto
  <2>n. ASSUME NEW state, Goto(h, state), h # k
        PROVE  Reader
    BY <1>0, <2>n DEF Goto
  <2>1. ASSUME NEW form \in Forms, NEW submit \in BOOLEAN,
               Create(h, form, submit)
        PROVE  Reader
    BY <2>0, <2>n, <2>1 DEF Create, Exists, NoRow, Idle
  <2>2. ASSUME CreateReference(h)
        PROVE  Reader
    <3>1. handler[h] # Idle  BY <1>0, <2>2, HandlerHolds DEF CreateReference
    <3> QED  BY <2>0, <2>n, <2>2, <3>1 DEF CreateReference, Idle
  <2>3. ASSUME NEW form \in Forms, UpdateRead(h, form)
        PROVE  Reader
    BY <2>0, <2>n, <2>3 DEF UpdateRead, Read, Exists, Idle, db
  <2>4. ASSUME UpdateDetach(h) \/ UpdateAttach(h)
        PROVE  Reader
    <3>1. handler[h] \in [op : {"detach", "attach", "update"},
                          seen : RowState, form : Forms]
      BY <1>0, <2>4, HandlerHolds DEF UpdateDetach, UpdateAttach
    <3>2. ASSUME NEW op \in {"attach", "update"}
          PROVE  /\ [handler[h] EXCEPT !.op = op].seen = handler[h].seen
                 /\ [handler[h] EXCEPT !.op = op] # Idle
                 /\ handler[h] # Idle
      BY <3>1 DEF Idle
    <3> QED  BY <2>0, <2>n, <2>4, <3>2 DEF UpdateDetach, UpdateAttach
  <2>5. ASSUME NEW to \in Targets, TransitionRead(h, to)
        PROVE  Reader
    BY <2>0, <2>n, <2>5 DEF TransitionRead, Read, Exists, Idle, db
  <2>6. ASSUME UpdateCommit(h) \/ TransitionCommit(h) \/ GiveUp(h)
        PROVE  Reader
    BY <2>0, <2>n, <2>6 DEF UpdateCommit, TransitionCommit, GiveUp, Rollback
  <2> QED
    BY <1>1, <2>1, <2>2, <2>3, <2>4, <2>5, <2>6 DEF HandlerStep
<1>2. CASE UNCHANGED handler
  BY <1>0, <1>2
<1> QED
  BY <1>1, <1>2 DEF Next, SchedulerStep, SyncRead, SyncCommit, SyncFail,
     Schedule, Tick, vars

(* A row once there stays.                                                 *)
LEMMA ExistsForEver ==
  ASSUME Inductive, [Next]_vars, Exists
  PROVE  Exists'
  BY EveryEffect DEF Kept, Born, Edited, Moved, Changed, Exists

LEMMA VersionStep == Inductive /\ [Next]_vars => VersionTellsRow'
<1> SUFFICES ASSUME Inductive, [Next]_vars, NEW h \in Handlers,
                    handler'[h] # Idle
             PROVE  /\ handler'[h].seen.version <= row'.version
                    /\ handler'[h].seen.version = row'.version =>
                          handler'[h].seen = row'
  BY DEF VersionTellsRow
<1>0. TypeOK' /\ TypeOK /\ Unborn
  BY TypeStep DEF Inductive
<1>1. CASE Exists' /\ handler'[h].seen = row'
  <2>1. row' \in RowState
    BY <1>0, <1>1 DEF TypeOK, Exists
  <2> QED  BY <1>1, <2>1 DEF RowState
<1>2. CASE handler[h] # Idle /\ handler'[h].seen = handler[h].seen
  <2>1. Exists /\ row \in RowState /\ handler[h].seen \in RowState
    BY <1>0, <1>2, ReadersExist, RowHolds, HandlerHolds
  <2>2. /\ handler[h].seen.version <= row.version
        /\ handler[h].seen.version = row.version => handler[h].seen = row
    BY <1>2 DEF Inductive, VersionTellsRow
  <2>3. row' = row \/ row'.version = row.version + 1
    BY <2>1, EveryEffect DEF Kept, Born, Edited, Moved, Changed
  <2>4. row.version \in Nat /\ handler[h].seen.version \in Nat
    BY <2>1 DEF RowState
  <2> QED  BY <1>2, <2>2, <2>3, <2>4
<1> QED  BY <1>1, <1>2, EveryReader

LEMMA GroupStep == Inductive /\ [Next]_vars => GroupFollowsStatus'
<1> SUFFICES ASSUME Inductive, [Next]_vars
             PROVE  GroupFollowsStatus'
  OBVIOUS
<1>0. TypeOK /\ Unborn /\ GroupFollowsStatus
  BY DEF Inductive
<1>1. CASE Kept
  BY <1>0, <1>1 DEF Kept, GroupFollowsStatus, Exists
<1>2. CASE Born
  BY <1>0, <1>2 DEF Born, Unborn, GroupFollowsStatus
<1>3. CASE Edited
  BY <1>0, <1>3 DEF Edited, Changed, Editable, GroupFollowsStatus, TypeOK
<1>4. CASE Moved
  <2>1. /\ Exists /\ row \in RowState /\ row.status \in Statuses
        /\ group \in {"none", "active", "dissolved"}
    BY <1>0, <1>4, RowHolds DEF Moved, Changed, RowState, TypeOK
  <2>2. CASE row'.status = "published"
    BY <2>1, <2>2, <1>4 DEF Moved, GroupFollowsStatus
  <2>3. CASE row'.status = "cancelled"
    <3>1. group' = IF group # "none" THEN "dissolved" ELSE group
      BY <1>4, <2>3 DEF Moved
    <3> QED  BY <2>1, <2>3, <3>1 DEF GroupFollowsStatus
  <2>4. CASE row'.status \in {"pending_review", "rejected", "draft"}
    <3>1. group' = group
      BY <1>4, <2>4 DEF Moved
    <3>2. row.status \in {"draft", "rejected", "pending_review"}
      BY <1>4, <2>4 DEF Moved, Legal, Accepted, Editable
    <3> QED  BY <1>0, <2>1, <2>4, <3>1, <3>2 DEF GroupFollowsStatus
  <2>5. CASE row'.status \in {"ongoing", "finished"}
    <3>1. group' = group
      BY <1>4, <2>5 DEF Moved
    <3>2. row.status \in {"published", "ongoing"}
      BY <1>4, <2>5 DEF Moved, Legal
    <3> QED  BY <1>0, <2>1, <2>5, <3>1, <3>2 DEF GroupFollowsStatus
  <2> QED  BY <1>4, <2>2, <2>3, <2>4, <2>5 DEF Moved, Targets
<1> QED  BY <1>1, <1>2, <1>3, <1>4, EveryEffect

LEMMA UnbornStep == Inductive /\ [Next]_vars => Unborn'
<1> SUFFICES ASSUME Inductive, [Next]_vars, ~Exists'
             PROVE  /\ outbox' = <<>> /\ log' = <<>> /\ group' = "none"
                    /\ \A h \in Handlers : handler'[h] = Idle
                    /\ \A s \in Schedulers : scheduler'[s] = Idle
  BY DEF Unborn
<1>0. TypeOK /\ Unborn /\ ~Exists
  BY ExistsForEver DEF Inductive
<1>1. Kept
  BY EveryEffect DEF Born, Edited, Moved, Changed
<1>2. \A h \in Handlers : handler'[h] = Idle
  BY <1>0, EveryReader DEF Unborn
<1>3. scheduler' = scheduler
  <2>1. ASSUME NEW s \in Schedulers, SchedulerStep(s)
        PROVE  FALSE
    BY <1>0, <2>1 DEF SchedulerStep, SyncRead, SyncCommit, SyncFail, Unborn
  <2>2. ASSUME NEW h \in Handlers, HandlerStep(h)
        PROVE  scheduler' = scheduler
    BY <2>2 DEF HandlerStep, Create, CreateReference, UpdateRead,
         UpdateDetach, UpdateAttach, UpdateCommit, TransitionRead,
         TransitionCommit, GiveUp, Read, Rollback, Goto
  <2> QED  BY <2>1, <2>2 DEF Next, Tick, vars
<1> QED  BY <1>0, <1>1, <1>2, <1>3 DEF Unborn, Kept

(* What a request remembers was legal when it read the row, and stays so.  *)
LEMMA HandlerSawStep == Inductive /\ [Next]_vars => HandlerSaw'
<1> SUFFICES ASSUME Inductive, [Next]_vars, NEW k \in Handlers
             PROVE  HandlerSaw!(k)'
  BY DEF HandlerSaw
<1>0. /\ TypeOK /\ HandlerSaw!(k)
      /\ handler \in [Handlers -> HandlerState]
      /\ handler'[k] = handler[k] => HandlerSaw!(k)'
  BY DEF Inductive, TypeOK, HandlerSaw
<1>1. ASSUME NEW h \in Handlers, HandlerStep(h)
      PROVE  HandlerSaw!(k)'
  <2>0. ASSUME NEW state, Goto(h, state), h = k
        PROVE  handler'[k] = state
    BY <1>0, <2>0 DEF Goto
  <2>n. ASSUME NEW state, Goto(h, state), h # k
        PROVE  HandlerSaw!(k)'
    BY <1>0, <2>n DEF Goto
  <2>i. ASSUME handler'[k] = Idle
        PROVE  HandlerSaw!(k)'
    BY <2>i DEF Idle
  <2>1. ASSUME NEW form \in Forms, NEW submit \in BOOLEAN,
               Create(h, form, submit)
        PROVE  HandlerSaw!(k)'
    BY <2>0, <2>n, <2>1 DEF Create
  <2>2. ASSUME CreateReference(h)
        PROVE  HandlerSaw!(k)'
    <3>1. "draft" \in Accepted("pending_review")
      BY DEF Accepted, Editable
    <3> QED  BY <1>0, <2>0, <2>n, <2>i, <2>2, <3>1 DEF CreateReference
  <2>3. ASSUME NEW form \in Forms, UpdateRead(h, form)
        PROVE  HandlerSaw!(k)'
    BY <2>0, <2>n, <2>3 DEF UpdateRead, Read
  <2>4. ASSUME UpdateDetach(h) \/ UpdateAttach(h)
        PROVE  HandlerSaw!(k)'
    <3>1. handler[h] \in [op : {"detach", "attach", "update"},
                          seen : RowState, form : Forms]
      BY <1>0, <2>4, HandlerHolds DEF UpdateDetach, UpdateAttach
    <3>2. ASSUME NEW op \in {"attach", "update"}
          PROVE  /\ [handler[h] EXCEPT !.op = op].seen = handler[h].seen
                 /\ [handler[h] EXCEPT !.op = op].op = op
      BY <3>1
    <3> QED
      BY <1>0, <2>0, <2>n, <2>4, <3>1, <3>2 DEF UpdateDetach, UpdateAttach
  <2>5. ASSUME NEW to \in Targets, TransitionRead(h, to)
        PROVE  HandlerSaw!(k)'
    BY <2>0, <2>n, <2>5 DEF TransitionRead, Read
  <2>6. ASSUME UpdateCommit(h) \/ TransitionCommit(h) \/ GiveUp(h)
        PROVE  HandlerSaw!(k)'
    BY <2>0, <2>n, <2>i, <2>6
    DEF UpdateCommit, TransitionCommit, GiveUp, Rollback
  <2> QED
    BY <1>1, <2>1, <2>2, <2>3, <2>4, <2>5, <2>6 DEF HandlerStep
<1>2. CASE UNCHANGED handler
  BY <1>0, <1>2
<1> QED
  BY <1>1, <1>2 DEF Next, SchedulerStep, SyncRead, SyncCommit, SyncFail,
     Schedule, Tick, vars

LEMMA SchedulerSawStep == Inductive /\ [Next]_vars => SchedulerSaw'
<1> SUFFICES ASSUME Inductive, [Next]_vars
             PROVE  SchedulerSaw'
  OBVIOUS
<1>0. /\ TypeOK /\ SchedulerSaw
      /\ scheduler \in [Schedulers -> SchedulerState]
  BY DEF Inductive, TypeOK
<1>1. ASSUME NEW s \in Schedulers, SyncRead(s)
      PROVE  SchedulerSaw'
  <2>1. row \in RowState /\ row.status \in Statuses
    BY <1>0, <1>1, RowHolds DEF SyncRead, RowState
  <2>2. \/ row.status = "published"
        \/ row.status = "ongoing" /\ NextTimedStatus(row.status) = "finished"
    BY <1>1, <2>1, TimedMoves DEF SyncRead
  <2> QED  BY <1>0, <1>1, <2>2 DEF SyncRead, Schedule, SchedulerSaw
<1>2. ASSUME NEW s \in Schedulers, Schedule(s, Idle)
      PROVE  SchedulerSaw'
  BY <1>0, <1>2 DEF Schedule, SchedulerSaw, Idle
<1>3. CASE UNCHANGED scheduler
  BY <1>0, <1>3 DEF SchedulerSaw
<1>4. ASSUME NEW h \in Handlers, HandlerStep(h)
      PROVE  UNCHANGED scheduler
  BY <1>4 DEF HandlerStep, Create, CreateReference, UpdateRead, UpdateDetach,
     UpdateAttach, UpdateCommit, TransitionRead, TransitionCommit, GiveUp,
     Read, Rollback, Goto
<1> QED
  BY <1>1, <1>2, <1>3, <1>4 DEF Next, SchedulerStep, SyncCommit, SyncFail,
     Tick, vars

LEMMA InductiveStep == Inductive /\ [Next]_vars => Inductive'
  BY TypeStep, UnbornStep, HandlerSawStep, SchedulerSawStep, VersionStep,
     GroupStep DEF Inductive

LEMMA AlwaysInductive == Spec => []Inductive
  BY InductiveInit, InductiveStep, PTL DEF Spec

-----------------------------------------------------------------------------
(* The status log.                                                         *)

(* A log that goes on where it ended is still unbroken.                    *)
Unbroken(moves) == \A i \in 1..Len(moves) - 1 : moves[i][2] = moves[i + 1][1]
LastStatus(moves) == IF moves = <<>> THEN "draft" ELSE moves[Len(moves)][2]

LEMMA UnbrokenAppend ==
  ASSUME NEW moves \in Seq(Statuses \X Statuses), Unbroken(moves),
         NEW to \in Statuses, NEW from \in Statuses, LastStatus(moves) = from,
         moves = <<>> => from = "draft"
  PROVE  /\ Unbroken(Append(moves, <<from, to>>))
         /\ LastStatus(Append(moves, <<from, to>>)) = to
<1> DEFINE longer == Append(moves, <<from, to>>)
<1>1. /\ Len(moves) \in Nat /\ Len(longer) = Len(moves) + 1
      /\ \A i \in 1..Len(moves) : longer[i] = moves[i]
      /\ longer[Len(longer)] = <<from, to>>
      /\ longer # <<>>
      /\ moves # <<>> => Len(moves) > 0
      /\ moves = <<>> => Len(moves) = 0
  OBVIOUS
<1> HIDE DEF longer
<1>2. ASSUME NEW i \in 1..Len(longer) - 1
      PROVE  longer[i][2] = longer[i + 1][1]
  <2>1. CASE i = Len(moves)
    <3>1. moves # <<>>  BY <1>1, <1>2, <2>1
    <3>2. longer[i][2] = from
      BY <1>1, <1>2, <2>1, <3>1 DEF LastStatus
    <3> QED  BY <1>1, <2>1, <3>2
  <2>2. CASE i # Len(moves)
    <3>1. i \in 1..Len(moves) - 1 /\ i + 1 \in 1..Len(moves)
      BY <1>1, <1>2, <2>2
    <3> QED  BY <1>1, <3>1 DEF Unbroken
  <2> QED  BY <2>1, <2>2
<1>3. Unbroken(longer) /\ LastStatus(longer) = to
  BY <1>1, <1>2 DEF Unbroken, LastStatus
<1> QED  BY <1>3 DEF longer

LEMMA HistoryInit == Init => HistoryIsComplete
  BY DEF Init, HistoryIsComplete, Exists

LEMMA HistoryStep ==
  Inductive /\ HistoryIsComplete /\ [Next]_vars => HistoryIsComplete'
<1> SUFFICES ASSUME Inductive, HistoryIsComplete, [Next]_vars, Exists'
             PROVE  /\ Len(outbox') = row'.version + 1
                    /\ Unbroken(log')
                    /\ row'.status = LastStatus(log')
  BY DEF HistoryIsComplete, Unbroken, LastStatus
<1>0. /\ outbox \in Seq(EventState) /\ log \in Seq(Statuses \X Statuses)
      /\ TypeOK /\ Unborn /\ TypeOK'
  BY TypeStep DEF Inductive, TypeOK
<1>1. Exists => /\ Len(outbox) = row.version + 1
                /\ Unbroken(log)
                /\ row.status = LastStatus(log)
                /\ row.status \in Statuses
                /\ row.version \in Nat
  BY <1>0, RowHolds DEF HistoryIsComplete, Unbroken, LastStatus, RowState
<1>2. CASE Kept
  BY <1>1, <1>2 DEF Kept, Exists
<1>3. CASE Born
  <2>1. outbox = <<>> /\ log = <<>>
    BY <1>0, <1>3 DEF Born, Unborn
  <2>2. Len(outbox') = 1
    BY <1>3, <2>1 DEF Born
  <2> QED  BY <1>3, <2>1, <2>2 DEF Born, Unbroken, LastStatus
<1>4. ASSUME Changed
      PROVE  Len(outbox') = row'.version + 1
  BY <1>0, <1>1, <1>4 DEF Changed
<1>5. row'.status \in Statuses
  BY <1>0 DEF TypeOK, Exists, RowState
<1>6. Exists /\ log = <<>> => row.status = "draft"
  BY <1>1 DEF LastStatus
<1>7. CASE Edited
  <2>1. CASE row.status = "rejected"
    <3>1. log' = Append(log, <<row.status, row'.status>>)
      BY <1>7, <2>1 DEF Edited
    <3>2. Exists /\ Changed
      BY <1>7 DEF Edited, Changed
    <3>3. Len(outbox') = row'.version + 1
      BY <1>4, <3>2
    <3>4. Unbroken(log') /\ LastStatus(log') = row'.status
      BY <1>0, <1>1, <1>5, <1>6, <3>1, <3>2, UnbrokenAppend
    <3> QED  BY <3>3, <3>4
  <2>2. CASE row.status # "rejected"
    <3>1. Exists /\ Changed /\ log' = log /\ row'.status = row.status
      BY <1>7, <2>2 DEF Edited, Changed, Editable
    <3>2. Len(outbox') = row'.version + 1
      BY <1>4, <3>1
    <3>3. Unbroken(log') /\ LastStatus(log') = LastStatus(log)
      BY <1>1, <3>1
    <3> QED  BY <1>1, <3>1, <3>2, <3>3
  <2> QED  BY <2>1, <2>2
<1>8. CASE Moved
  BY <1>0, <1>1, <1>4, <1>5, <1>6, <1>8, UnbrokenAppend DEF Moved, Changed
<1> QED  BY <1>2, <1>3, <1>7, <1>8, EveryEffect

-----------------------------------------------------------------------------
(* The activity, its log, its events and what requests remember are always *)
(* well-typed.                                                             *)
THEOREM TypeCorrect == Spec => []TypeOK
<1>1. Inductive => TypeOK  BY DEF Inductive
<1> QED  BY <1>1, AlwaysInductive, PTL

(* Whoever finds the version he read finds the row he read.                *)
THEOREM VersionCorrect == Spec => []VersionTellsRow
<1>1. Inductive => VersionTellsRow  BY DEF Inductive
<1> QED  BY <1>1, AlwaysInductive, PTL

(* The chat group is there exactly while the activity is public.           *)
THEOREM GroupCorrect == Spec => []GroupFollowsStatus
<1>1. Inductive => GroupFollowsStatus  BY DEF Inductive
<1> QED  BY <1>1, AlwaysInductive, PTL

(* Every change of the row is in the outbox, every status in the log.      *)
THEOREM HistoryCorrect == Spec => []HistoryIsComplete
  BY HistoryInit, HistoryStep, AlwaysInductive, PTL DEF Spec

(* No interleaving of requests edits what is under review or public.       *)
THEOREM FormCorrect == Spec => FormIsFrozen
<1>1. Inductive /\ [Next]_vars =>
        [Exists /\ row'.form # row.form =>
            row.status \in Editable /\ row'.status = "draft"]_vars
  BY EveryEffect DEF Kept, Born, Edited, Moved
<1> QED  BY <1>1, AlwaysInductive, PTL DEF Spec, FormIsFrozen

(* No interleaving of requests and schedulers makes an illegal move.       *)
THEOREM MovesCorrect == Spec => OnlyLegalMoves
<1> DEFINE Lawful ==
      Exists /\ row'.status # row.status =>
        /\ row'.status = "published" => row.status = "pending_review"
        /\ row.status \in {"published", "ongoing"} =>
              row'.status \in {"ongoing", "finished", "cancelled"}
        /\ row.status \notin {"finished", "cancelled"}
<1>1. ASSUME Inductive, [Next]_vars
      PROVE  Lawful
  <2>1. CASE Kept \/ Born
    BY <2>1 DEF Kept, Born
  <2>2. CASE Edited
    BY <2>2 DEF Edited, Editable
  <2>3. CASE Moved
    <3>1. /\ row'.status \in Targets \cup {"ongoing", "finished"}
          /\ Legal(row.status, row'.status)
      BY <2>3 DEF Moved
    <3>2. CASE row'.status \in {"ongoing", "finished"}
      BY <3>1, <3>2 DEF Legal
    <3>3. CASE row'.status \notin {"ongoing", "finished"}
      <4>1. row.status \in Accepted(row'.status) /\ row'.status \in Targets
        BY <3>1, <3>3 DEF Legal
      <4> QED  BY <4>1 DEF Accepted, Editable, Targets
    <3> QED  BY <3>2, <3>3
  <2> QED  BY <1>1, <2>1, <2>2, <2>3, EveryEffect
<1>2. Inductive /\ [Next]_vars => [Lawful]_vars
  BY <1>1
<1> QED  BY <1>2, AlwaysInductive, PTL DEF Spec, OnlyLegalMoves
=============================================================================

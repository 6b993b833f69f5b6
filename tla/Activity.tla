------------------------------ MODULE Activity ------------------------------
(***************************************************************************)
(* The life of one activity: its row, its chat group, its cover's file     *)
(* reference, its status log and the events announcing all that.           *)
(*                                                                         *)
(* Handlers of the organizer and of administrators read the row first and  *)
(* change it in a later transaction. An edit is guarded by the version of  *)
(* the row that was read, a transition only by its status, and the         *)
(* scheduler of every instance moves the activity on as time passes.       *)
(***************************************************************************)
EXTENDS Integers, Sequences, FiniteSets

CONSTANTS
    Texts,       \* everything an activity form says, but for the cover
    Files,       \* files that may be the cover
    Handlers,    \* bound: requests in flight at once
    Schedulers,  \* server instances (or overlapping ticks of one)
    Start, End,  \* activity_start_at, activity_end_at, the same in all forms
    MaxVersion,  \* bound: changes of the row by requests
    Horizon      \* bound: the clock stops there

ASSUME ActivityAssumption ==
    /\ {Start, End, MaxVersion, Horizon} \subseteq Nat
    /\ Start < End  \* validActivityWindow

Statuses == {"draft", "pending_review", "published", "ongoing", "finished",
             "rejected", "cancelled"}
NoFile == "no file"
Forms == [text : Texts, cover : Files \cup {NoFile}]

VARIABLES
    now,         \* wall clock of the servers
    row,         \* the activities row: status, version and form
    group,       \* status of the chat group, "none": no such row
    references,  \* file_references rows of this activity's cover
    log,         \* activity_status_logs, in the order of insertion
    outbox,      \* outbox_events of the activity, in the order of insertion
    handler,     \* what each request in flight has read
    scheduler    \* the row each scheduler run has read, and where it takes it

db == <<row, group, references, log, outbox>>
vars == <<now, db, handler, scheduler>>

NoRow == [status |-> "none"]
RowState == [status : Statuses, version : Nat, form : Forms]

Targets == {"pending_review", "cancelled", "published", "rejected", "draft"}

Idle == [op |-> "idle"]
HandlerState ==
    {Idle}
    \cup [op : {"created"}, seen : RowState, submit : BOOLEAN]
    \cup [op : {"detach", "attach", "update"}, seen : RowState, form : Forms]
    \cup [op : {"transition"}, seen : RowState, to : Targets]

SchedulerState ==
    {Idle} \cup [op : {"sync"}, seen : RowState, to : {"ongoing", "finished"}]

EventState ==
    [type : {"activity.created", "activity.updated", "activity.status_changed",
             "activity.published", "activity.cancelled"},
     status : Statuses, version : Nat]

TypeOK ==
    /\ now \in Nat
    /\ row \in {NoRow} \cup RowState
    /\ group \in {"none", "active", "dissolved"}
    /\ references \subseteq Files
    /\ log \in Seq(Statuses \X Statuses)
    /\ outbox \in Seq(EventState)
    /\ handler \in [Handlers -> HandlerState]
    /\ scheduler \in [Schedulers -> SchedulerState]

Init ==
    /\ now = 0
    /\ row = NoRow
    /\ group = "none"
    /\ references = {}
    /\ log = <<>>
    /\ outbox = <<>>
    /\ handler = [h \in Handlers |-> Idle]
    /\ scheduler = [s \in Schedulers |-> Idle]

-----------------------------------------------------------------------------
(* Pieces of the handlers. The definitions named ...Bug are faulty variants*)
(* that mutation runs put in place of the definition after them.           *)

Exists == row # NoRow

(* The bound of the model: requests stop at MaxVersion, time does not.     *)
MayChange == Exists /\ row.version < MaxVersion

Editable == {"draft", "rejected"}  \* isEditableActivityStatus

(* The statuses a request to go to a status accepts: Submit,               *)
(* canCancelActivity and canReviewActivity.                                *)
Accepted(to) ==
    CASE to = "pending_review" -> Editable
      [] to = "cancelled" ->
            {"draft", "pending_review", "published", "ongoing"}
      [] OTHER -> {"pending_review"}

EventType(to) ==
    CASE to = "published" -> "activity.published"
      [] to = "cancelled" -> "activity.cancelled"
      [] OTHER -> "activity.status_changed"

Tell(type, status, version) ==
    outbox' = Append(outbox, [type |-> type, status |-> status,
                              version |-> version])

Goto(h, state) ==
    /\ handler' = [handler EXCEPT ![h] = state]
    /\ UNCHANGED <<now, scheduler>>

Read(h, state) ==
    /\ handler[h] = Idle
    /\ Goto(h, state)
    /\ UNCHANGED db

-----------------------------------------------------------------------------
(* POST /activities: the draft is created in a transaction of its own, ... *)
Create(h, form, submit) ==
    /\ handler[h] = Idle
    /\ ~Exists
    /\ row' = [status |-> "draft", version |-> 0, form |-> form]
    /\ Tell("activity.created", "draft", 1)
    /\ Goto(h, [op |-> "created", seen |-> row', submit |-> submit])
    /\ UNCHANGED <<group, references, log>>

(* ... then its cover is referenced, an error being ignored, and only then *)
(* is it submitted, unless the organizer asked for a draft.                *)
CreateReference(h) ==
    /\ handler[h].op = "created"
    /\ LET seen == handler[h].seen IN
       /\ references' \in {references,
                           references \cup ({seen.form.cover} \ {NoFile})}
       /\ Goto(h, IF handler[h].submit
                    THEN [op |-> "transition", seen |-> seen,
                          to |-> "pending_review"]
                    ELSE Idle)
    /\ UNCHANGED <<row, group, log, outbox>>

-----------------------------------------------------------------------------
(* PUT /activities/:id                                                     *)
UpdateRead(h, form) ==
    /\ Exists /\ row.status \in Editable
    /\ Read(h, [op |-> "detach", seen |-> row, form |-> form])

(* The reference to a cover that is replaced goes, and the one to the new  *)
(* cover comes, before the transaction and whatever becomes of it; errors  *)
(* of both statements are ignored.                                         *)
UpdateDetach(h) ==
    /\ handler[h].op = "detach"
    /\ LET old == handler[h].seen.form.cover IN
       references' \in {references} \cup
           IF old # handler[h].form.cover THEN {references \ {old}} ELSE {}
    /\ Goto(h, [handler[h] EXCEPT !.op = "attach"])
    /\ UNCHANGED <<row, group, log, outbox>>

UpdateAttach(h) ==
    /\ handler[h].op = "attach"
    /\ references' \in
          {references, references \cup ({handler[h].form.cover} \ {NoFile})}
    /\ Goto(h, [handler[h] EXCEPT !.op = "update"])
    /\ UNCHANGED <<row, group, log, outbox>>

SameVersionBug(seen) == row.status \in Editable  \* WHERE status IN (...)

(* WHERE id = ? AND version = ?                                            *)
SameVersion(seen) == row.version = seen.version

(* A transaction whose guard failed: nothing of it remains.                *)
Rollback(h) == Goto(h, Idle) /\ UNCHANGED db

(* An edit of a rejected activity makes it a draft again; the event still  *)
(* has the status that was read.                                           *)
UpdateCommit(h) ==
    /\ handler[h].op = "update"
    /\ LET seen == handler[h].seen
           rejected == seen.status = "rejected"
       IN \/ /\ SameVersion(seen) /\ MayChange
             /\ row' = [form |-> handler[h].form,
                        status |-> IF rejected THEN "draft" ELSE row.status,
                        version |-> seen.version + 1]
             /\ log' = IF rejected THEN Append(log, <<"rejected", "draft">>)
                                   ELSE log
             /\ Tell("activity.updated", seen.status, seen.version + 1)
             /\ Goto(h, Idle)
             /\ UNCHANGED <<group, references>>
          \/ ~SameVersion(seen) /\ Rollback(h)

-----------------------------------------------------------------------------
(* Submit, Cancel, Approve, Reject and SendBack: a read ...                *)
TransitionRead(h, to) ==
    /\ Exists /\ row.status \in Accepted(to)
    /\ Read(h, [op |-> "transition", seen |-> row, to |-> to])

SameStatusBug(seen) == TRUE  \* WHERE id = ?

(* WHERE id = ? AND status = ?                                             *)
SameStatus(seen) == row.status = seen.status

NextVersionBug(seen) == seen.version + 1  \* computed from what was read

(* gorm.Expr("version + 1"), whatever version was read.                    *)
NextVersion(seen) == row.version + 1

(* ... and the transaction: publishing creates the group, which the unique *)
(* key on the activity allows once, cancelling dissolves it if there is    *)
(* one.                                                                    *)
TransitionCommit(h) ==
    /\ handler[h].op = "transition"
    /\ LET seen == handler[h].seen
           to == handler[h].to
           applies == SameStatus(seen) /\ (to = "published" => group = "none")
       IN \/ /\ applies /\ MayChange
             /\ row' = [row EXCEPT !.status = to,
                                   !.version = NextVersion(seen)]
             /\ group' = CASE to = "published" -> "active"
                           [] to = "cancelled" /\ group # "none" -> "dissolved"
                           [] OTHER -> group
             /\ log' = Append(log, <<seen.status, to>>)
             /\ Tell(EventType(to), to, seen.version + 1)
             /\ Goto(h, Idle)
             /\ UNCHANGED references
          \/ ~applies /\ Rollback(h)

(* A check that fails, a lost connection, a crash of the instance; what    *)
(* the handler did before remains.                                         *)
GiveUp(h) == handler[h] # Idle /\ Rollback(h)

-----------------------------------------------------------------------------
(* The scheduler.                                                          *)

NextTimedStatusBug(status) ==  \* candidates with status = published only
    IF status = "published" /\ Start <= now THEN "ongoing" ELSE status

(* nextTimedStatus                                                         *)
NextTimedStatus(status) ==
    IF status \in {"published", "ongoing"} /\ End <= now THEN "finished"
    ELSE IF status = "published" /\ Start <= now THEN "ongoing"
    ELSE status

Schedule(s, state) ==
    /\ scheduler' = [scheduler EXCEPT ![s] = state]
    /\ UNCHANGED <<now, handler>>

(* SyncStatuses lists its candidates from a snapshot ...                   *)
SyncRead(s) ==
    /\ scheduler[s] = Idle
    /\ Exists /\ NextTimedStatus(row.status) # row.status
    /\ Schedule(s, [op |-> "sync", seen |-> row,
                    to |-> NextTimedStatus(row.status)])
    /\ UNCHANGED db

(* ... and moves each on that still has the status it saw.                 *)
SyncCommit(s) ==
    /\ scheduler[s] # Idle
    /\ LET seen == scheduler[s].seen
           to == scheduler[s].to
       IN \/ /\ SameStatus(seen)
             /\ row' = [row EXCEPT !.status = to, !.version = @ + 1]
             /\ log' = Append(log, <<seen.status, to>>)
             /\ Tell("activity.status_changed", to, seen.version + 1)
             /\ UNCHANGED <<group, references>>
          \/ ~SameStatus(seen) /\ UNCHANGED db
    /\ Schedule(s, Idle)

(* The transaction fails or the instance crashes.                          *)
SyncFail(s) ==
    /\ scheduler[s] # Idle
    /\ Schedule(s, Idle)
    /\ UNCHANGED db

Tick ==
    /\ now < Horizon
    /\ now' = now + 1
    /\ UNCHANGED <<db, handler, scheduler>>

-----------------------------------------------------------------------------
HandlerStep(h) ==
    \/ \E form \in Forms, submit \in BOOLEAN : Create(h, form, submit)
    \/ CreateReference(h)
    \/ \E form \in Forms : UpdateRead(h, form)
    \/ UpdateDetach(h)
    \/ UpdateAttach(h)
    \/ UpdateCommit(h)
    \/ \E to \in Targets : TransitionRead(h, to)
    \/ TransitionCommit(h)
    \/ GiveUp(h)

SchedulerStep(s) == SyncRead(s) \/ SyncCommit(s) \/ SyncFail(s)

Next ==
    \/ \E h \in Handlers : HandlerStep(h)
    \/ \E s \in Schedulers : SchedulerStep(s)
    \/ Tick

Spec == Init /\ [][Next]_vars

-----------------------------------------------------------------------------
(* Safety                                                                  *)

(* The optimistic lock is worth its name: whoever finds the version he read*)
(* finds the status and the form he read, although transitions never look  *)
(* at the version they replace.                                            *)
VersionTellsRow ==
    \A h \in Handlers :
        handler[h] # Idle =>
            /\ handler[h].seen.version <= row.version
            /\ handler[h].seen.version = row.version => handler[h].seen = row

(* The group exists from the publication on, once, and is dissolved if and *)
(* only if the activity was cancelled after it.                            *)
GroupFollowsStatus ==
    /\ Exists /\ row.status \in {"published", "ongoing", "finished"} =>
          group = "active"
    /\ group = "active" =>
          row.status \in {"published", "ongoing", "finished"}
    /\ group = "dissolved" => row.status = "cancelled"

(* The status log is the unbroken history of the status, and every change  *)
(* of the row was announced by one event.                                  *)
HistoryIsComplete ==
    Exists =>
        /\ Len(outbox) = row.version + 1
        /\ \A i \in 1..Len(log) - 1 : log[i][2] = log[i + 1][1]
        /\ row.status = IF log = <<>> THEN "draft" ELSE log[Len(log)][2]

(* What is under review or public is not edited, whatever an editor had    *)
(* read before it was submitted.                                           *)
FormIsFrozen ==
    [][Exists /\ row'.form # row.form =>
        row.status \in Editable /\ row'.status = "draft"]_vars

(* Nothing is published but from review, nothing public is hidden again    *)
(* except by cancelling it, and the end is the end.                        *)
OnlyLegalMoves ==
    [][Exists /\ row'.status # row.status =>
        /\ row'.status = "published" => row.status = "pending_review"
        /\ row.status \in {"published", "ongoing"} =>
              row'.status \in {"ongoing", "finished", "cancelled"}
        /\ row.status \notin {"finished", "cancelled"}]_vars

-----------------------------------------------------------------------------
(* Liveness                                                                *)

(* Time passes and the sync job is tried again and again; some of its runs *)
(* may fail.                                                               *)
FairSpec ==
    /\ Spec
    /\ WF_vars(Tick)
    /\ \A s \in Schedulers : WF_vars(SyncRead(s)) /\ SF_vars(SyncCommit(s))

(* A published activity does not stay open for ever.                       *)
PublishedEnds ==
    Exists /\ row.status = "published" ~>
        row.status \in {"finished", "cancelled"}

=============================================================================

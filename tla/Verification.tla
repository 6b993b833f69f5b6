---------------------------- MODULE Verification ----------------------------
(***************************************************************************)
(* The student verification of one user: its row, the events that record   *)
(* its history, and the two images it uses, which their owner may try to   *)
(* delete or use elsewhere at any time (module Files).                     *)
(***************************************************************************)
EXTENDS Files, Sequences, SequencesExt

VARIABLES
    seen,    \* the status each request read
    status,  \* of the user's verification, "initialized" when there is none
    events   \* student_verification_events, and verification events stored

application == <<seen, status, events>>
vars == <<filesVars, application>>

Stages == {"new", "look", "remove", "drop", "unref", "ref", "write",
           "create", "front", "back", "confirm", "cancel", "done"}

Statuses == {"initialized", "pending_confirm", "manual_review", "cancelled"}

TaskRecord == [at : Stages, use : Uses,
               old : Files \cup {NoFile}, file : Files \cup {NoFile}]

VerificationTypeOK ==
    /\ objects \subseteq Files /\ rows \subseteq Files
    /\ refs \subseteq Files \X Uses
    /\ holder \in [Uses -> Files \cup {NoFile}]
    /\ upload \in [Files -> {"new", "put", "done"}]
    /\ task \in [Tasks -> TaskRecord]
    /\ stale \subseteq Tasks /\ unsafe \subseteq Files
    /\ disturbed \subseteq Uses
    /\ seen \in [Tasks -> Statuses] /\ status \in Statuses
    /\ events \in Seq([from : Statuses, to : Statuses])

Init ==
    /\ FilesInit
    /\ seen = [t \in Tasks |-> "initialized"]
    /\ status = "initialized" /\ events = << >>

-----------------------------------------------------------------------------
(* Submit finds no verification and both files; Create stores the row, the *)
(* event and the outbox event together.                                    *)

Submit(t, front, back) ==
    /\ task[t].at = "new" /\ status = "initialized"
    /\ {front, back} \subseteq rows
    /\ Biz(front) = "front" /\ Biz(back) = "back"
    /\ task' = [task EXCEPT ![t] = [at |-> "create", use |-> "front",
                                    old |-> back, file |-> front]]
    /\ UNCHANGED <<store, use, application>>

TakenBug == FALSE  \* user_id is not unique

Taken == status # "initialized"

Create(t) ==
    /\ ~Taken
    /\ Goes(t, "create", "front")
    /\ status' = "pending_confirm"
    /\ events' = Append(events, [from |-> "initialized",
                                 to |-> "pending_confirm"])
    /\ holder' = [holder EXCEPT !["front"] = task[t].file,
                                !["back"] = task[t].old]
    /\ UNCHANGED <<store, refs, stale, unsafe, disturbed, seen>>

ReferFront(t) ==
    /\ Goes(t, "front", "back")
    /\ Refer(task[t].file, "front")
    /\ UNCHANGED <<store, holder, stale, application>>

ReferBack(t) ==
    /\ Goes(t, "back", "done")
    /\ Refer(task[t].old, "back")
    /\ UNCHANGED <<store, holder, stale, application>>

SubmitFails(t) ==
    /\ task[t].at \in {"front", "back"}
    /\ Ends(t)
    /\ disturbed' = disturbed \cup {"front", "back"}
    /\ UNCHANGED <<store, refs, holder, stale, unsafe, application>>

-----------------------------------------------------------------------------
(* Confirm and Cancel check the status they read; Transition checks none.  *)

Confirm(t) ==
    /\ status = "pending_confirm" /\ Goes(t, "new", "confirm")
    /\ seen' = [seen EXCEPT ![t] = status]
    /\ UNCHANGED <<store, use, status, events>>

Cancel(t) ==
    /\ status \in {"pending_confirm", "manual_review"}
    /\ Goes(t, "new", "cancel")
    /\ seen' = [seen EXCEPT ![t] = status]
    /\ UNCHANGED <<store, use, status, events>>

Transition(t, to) ==
    /\ Ends(t)
    /\ status' = to
    /\ events' = Append(events, [from |-> seen[t], to |-> to])
    /\ UNCHANGED <<store, use, seen>>

Decide(t) ==
    \/ task[t].at = "confirm" /\ Transition(t, "manual_review")
    \/ task[t].at = "cancel" /\ Transition(t, "cancelled")

Next ==
    \/ FilesNext /\ UNCHANGED application
    \/ \E t \in Tasks :
          \/ TaskFails(t) /\ UNCHANGED application
          \/ \E front, back \in Files : Submit(t, front, back)
          \/ Create(t) \/ ReferFront(t) \/ ReferBack(t) \/ SubmitFails(t)
          \/ Confirm(t) \/ Cancel(t) \/ Decide(t)

Spec == Init /\ [][Next]_vars

-----------------------------------------------------------------------------
Referring(u) ==
    {t \in Tasks : task[t].at \in {"front", "back"} /\ u \in {"front", "back"}}

(* Between requests the references name the files in use and no others,    *)
(* unless a call failed or two requests replaced one file together         *)
(* (user.go Update, activity.go Update, verification.go Submit).           *)
ReferencesFollowUse ==
    \A u \in Uses \ disturbed :
        Replacing(u) \cup Referring(u) = {} =>
            {f \in Files : <<f, u>> \in refs} = {holder[u]} \ {NoFile}

(* The history of a verification begins with its only submission, ends in  *)
(* its status, and no change claims to come from a status that it never    *)
(* had, however many requests submit, confirm and cancel at a time         *)
(* (verification.go Submit, Confirm, Cancel).                              *)
HistoryTellsStatus ==
    /\ status = IF events = << >> THEN "initialized" ELSE Last(events).to
    /\ \A i \in DOMAIN events :
          /\ events[i].from = "initialized" <=> i = 1
          /\ i > 1 => \E j \in 1..i - 1 : events[j].to = events[i].from

(* The domain document: a cancelled verification stays cancelled. It does  *)
(* not: a confirmation that read it before moves it on to the review.      *)
CancelledIsFinal == [][status = "cancelled" => status' = "cancelled"]_vars
=============================================================================

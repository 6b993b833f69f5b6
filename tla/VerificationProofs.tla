------------------------- MODULE VerificationProofs -------------------------
(***************************************************************************)
(* Proofs about Files and Verification, for any files, biz types and       *)
(* number of requests.                                                     *)
(***************************************************************************)
EXTENDS Verification, TLAPS

(* A row is created last by an upload, so nothing it undoes has a row.     *)
RowsAreUploaded == \A f \in rows : upload[f] = "done"

Deleting(t, f) == task[t].at \in {"remove", "drop"} /\ task[t].file = f

(* A reference written in time: the file is there and no Delete is past    *)
(* its look at the references.                                             *)
ReferencesProtect ==
    \A f \in Files, u \in Uses :
        <<f, u>> \in refs /\ f \notin unsafe =>
            f \in rows \cap objects /\ \A t \in Tasks : ~Deleting(t, f)

(* What a request has read of the status, the application has been.        *)
SeenWasTold ==
    \A t \in Tasks :
        task[t].at \in {"confirm", "cancel"} =>
            \E j \in DOMAIN events : events[j].to = seen[t]

EventsLeadOn == \A j \in DOMAIN events : events[j].to # "initialized"

FilesInvariant == VerificationTypeOK /\ RowsAreUploaded /\ ReferencesProtect

HistoryInvariant ==
    /\ VerificationTypeOK
    /\ SeenWasTold /\ EventsLeadOn /\ HistoryTellsStatus

-----------------------------------------------------------------------------
LEMMA TypeInit == Init => VerificationTypeOK
<1>1. NewTask \in TaskRecord
  BY DEF NewTask, TaskRecord, Stages, Uses
<1> QED  BY <1>1 DEF Init, FilesInit, VerificationTypeOK, Statuses

(* A request goes on.                                                      *)
LEMMA TaskMoves ==
  ASSUME VerificationTypeOK, NEW t \in Tasks, NEW to \in Stages,
         task' = [task EXCEPT ![t].at = to]
  PROVE  /\ task' \in [Tasks -> TaskRecord]
         /\ task'[t].at = to /\ task'[t].file = task[t].file
         /\ task'[t].old = task[t].old /\ task'[t].use = task[t].use
         /\ \A s \in Tasks \ {t} : task'[s] = task[s]
         /\ to \notin {"remove", "drop"} \/ task[t].at = "remove" =>
               \A s \in Tasks, g \in Files : Deleting(s, g)' => Deleting(s, g)
<1>1. task \in [Tasks -> TaskRecord] /\ task[t] \in TaskRecord
  BY DEF VerificationTypeOK
<1>2. /\ task' \in [Tasks -> TaskRecord] \/ task'[t] \notin TaskRecord
      /\ task'[t] = [task[t] EXCEPT !.at = to]
      /\ \A s \in Tasks \ {t} : task'[s] = task[s]
  BY <1>1
<1>3. /\ [task[t] EXCEPT !.at = to] \in TaskRecord
      /\ [task[t] EXCEPT !.at = to].at = to
      /\ [task[t] EXCEPT !.at = to].file = task[t].file
      /\ [task[t] EXCEPT !.at = to].old = task[t].old
      /\ [task[t] EXCEPT !.at = to].use = task[t].use
  BY <1>1 DEF TaskRecord
<1> QED  BY <1>2, <1>3 DEF Deleting

(* A request begins.                                                       *)
LEMMA TaskBegins ==
  ASSUME VerificationTypeOK, NEW t \in Tasks, NEW r \in TaskRecord,
         task' = [task EXCEPT ![t] = r]
  PROVE  task' \in [Tasks -> TaskRecord]
BY DEF VerificationTypeOK

LEMMA EventAppended ==
  ASSUME VerificationTypeOK, NEW from \in Statuses, NEW to \in Statuses,
         events' = Append(events, [from |-> from, to |-> to])
  PROVE  events' \in Seq([from : Statuses, to : Statuses])
<1>1. [from |-> from, to |-> to] \in [from : Statuses, to : Statuses]
  OBVIOUS
<1> QED  BY <1>1 DEF VerificationTypeOK

LEMMA TypeStep == VerificationTypeOK /\ [Next]_vars => VerificationTypeOK'
<1> SUFFICES ASSUME VerificationTypeOK, [Next]_vars
             PROVE  VerificationTypeOK'
  OBVIOUS
<1> USE DEF VerificationTypeOK
<1>a. \A t \in Tasks : /\ task[t].use \in Uses
                       /\ task[t].old \in Files \cup {NoFile}
                       /\ task[t].file \in Files \cup {NoFile}
  <2>1. \A t \in Tasks : task[t] \in TaskRecord
    OBVIOUS
  <2> QED  BY <2>1 DEF TaskRecord
<1>1. ASSUME FilesNext, UNCHANGED application PROVE VerificationTypeOK'
  <2> USE <1>1 DEF application
  <2>1. ASSUME NEW f \in Files, PutObject(f) \/ CreateRow(f)
        PROVE  VerificationTypeOK'
    BY <2>1 DEF PutObject, CreateRow, use
  <2>2. ASSUME NEW t \in Tasks, NEW f \in Files, FindByUUID(t, f)
        PROVE  VerificationTypeOK'
    <3>2. [at |-> "look", use |-> "avatar", old |-> NoFile, file |-> f]
             \in TaskRecord
      BY DEF TaskRecord, Stages, Uses
    <3>3. task' \in [Tasks -> TaskRecord]
      BY <2>2, <3>2, TaskBegins DEF FindByUUID
    <3> QED  BY <2>2, <3>3 DEF FindByUUID, store, use
  <2>3. ASSUME NEW t \in Tasks,
               LookForReferences(t) \/ RemoveObject(t) \/ SoftDelete(t)
        PROVE  VerificationTypeOK'
    <3>1. task' \in [Tasks -> TaskRecord]
      BY <2>3, TaskMoves DEF LookForReferences, RemoveObject, SoftDelete,
                             Goes, Stages
    <3> QED  BY <2>3, <3>1 DEF LookForReferences, RemoveObject, SoftDelete,
                               store, use
  <2>4. ASSUME NEW t \in Tasks, NEW u \in {"avatar", "cover"},
               NEW f \in Files \cup {NoFile}, Find(t, u, f)
        PROVE  VerificationTypeOK'
    <3>1. [at |-> "unref", use |-> u, old |-> holder[u], file |-> f]
             \in TaskRecord
      BY DEF TaskRecord, Stages, Uses
    <3>2. task' \in [Tasks -> TaskRecord]
      BY <2>4, <3>1, TaskBegins DEF Find
    <3> QED  BY <2>4, <3>2 DEF Find, store, Uses
  <2>5. ASSUME NEW t \in Tasks,
               RemoveReference(t) \/ AddReference(t) \/ UpdateHolder(t)
        PROVE  VerificationTypeOK'
    <3>1. task' \in [Tasks -> TaskRecord]
      BY <2>5, TaskMoves DEF RemoveReference, AddReference, UpdateHolder, Goes,
                             Stages
    <3>2. CASE RemoveReference(t)
      BY <1>a, <3>1, <3>2 DEF RemoveReference, WithoutOld, store
    <3>3. CASE AddReference(t)
      BY <1>a, <3>1, <3>3 DEF AddReference, Refer, store
    <3>4. CASE UpdateHolder(t)
      BY <1>a, <3>1, <3>4 DEF UpdateHolder, Replacing, store
    <3> QED  BY <2>5, <3>2, <3>3, <3>4
  <2> QED  BY <1>1, <2>1, <2>2, <2>3, <2>4, <2>5 DEF FilesNext
<1>2. ASSUME NEW t \in Tasks,
             \/ TaskFails(t) /\ UNCHANGED application
             \/ SubmitFails(t)
      PROVE  VerificationTypeOK'
  <2>1. task' \in [Tasks -> TaskRecord]
    BY <1>2, TaskMoves DEF TaskFails, SubmitFails, Ends, Stages
  <2> QED  BY <1>a, <1>2, <2>1 DEF TaskFails, SubmitFails, store, application,
                                   Uses
<1>3. ASSUME NEW t \in Tasks, NEW front \in Files, NEW back \in Files,
             Submit(t, front, back)
      PROVE  VerificationTypeOK'
  <2>1. [at |-> "create", use |-> "front", old |-> back, file |-> front]
           \in TaskRecord
    BY DEF TaskRecord, Stages, Uses
  <2>2. task' \in [Tasks -> TaskRecord]
    BY <1>3, <2>1, TaskBegins DEF Submit
  <2> QED  BY <1>3, <2>2 DEF Submit, store, use, application
<1>4. ASSUME NEW t \in Tasks, Create(t) PROVE VerificationTypeOK'
  <2>1. task' \in [Tasks -> TaskRecord]
    BY <1>4, TaskMoves DEF Create, Goes, Stages
  <2>2. events' \in Seq([from : Statuses, to : Statuses])
    BY <1>4, EventAppended DEF Create, Statuses
  <2>3. holder' \in [Uses -> Files \cup {NoFile}]
    BY <1>a, <1>4 DEF Create
  <2> QED  BY <1>4, <2>1, <2>2, <2>3 DEF Create, store, Statuses
<1>5. ASSUME NEW t \in Tasks, ReferFront(t) \/ ReferBack(t)
      PROVE  VerificationTypeOK'
  <2>1. task' \in [Tasks -> TaskRecord]
    BY <1>5, TaskMoves DEF ReferFront, ReferBack, Goes, Stages
  <2>2. PICK f \in Files \cup {NoFile}, u \in Uses : Refer(f, u)
    BY <1>a, <1>5 DEF ReferFront, ReferBack, Uses
  <2>3. UNCHANGED <<store, holder, stale, application>>
    BY <1>5 DEF ReferFront, ReferBack
  <2>4. /\ refs' \subseteq Files \X Uses /\ unsafe' \subseteq Files
        /\ disturbed' \subseteq Uses
    BY <2>2 DEF Refer
  <2> QED  BY <2>1, <2>3, <2>4 DEF store, application
<1>6. ASSUME NEW t \in Tasks, Confirm(t) \/ Cancel(t)
      PROVE  VerificationTypeOK'
  <2>1. task' \in [Tasks -> TaskRecord]
    BY <1>6, TaskMoves DEF Confirm, Cancel, Goes, Stages
  <2> QED  BY <1>6, <2>1 DEF Confirm, Cancel, store, use
<1>7. ASSUME NEW t \in Tasks, Decide(t) PROVE VerificationTypeOK'
  <2>1. task' \in [Tasks -> TaskRecord]
    BY <1>7, TaskMoves DEF Decide, Transition, Ends, Stages
  <2>2. events' \in Seq([from : Statuses, to : Statuses])
    BY <1>7, EventAppended DEF Decide, Transition, Statuses
  <2> QED  BY <1>7, <2>1, <2>2 DEF Decide, Transition, store, use, Statuses
<1>8. CASE UNCHANGED vars
  BY <1>8 DEF vars, filesVars, store, use, application
<1> QED  BY <1>1, <1>2, <1>3, <1>4, <1>5, <1>6, <1>7, <1>8 DEF Next

(* Every variable of the verification and of the files of one user is      *)
(* always well-typed.                                                      *)
THEOREM TypeCorrect == Spec => []VerificationTypeOK
BY TypeInit, TypeStep, PTL DEF Spec

-----------------------------------------------------------------------------
(* Files.                                                                  *)

LEMMA FilesInit0 == Init => FilesInvariant
BY TypeInit DEF Init, FilesInit, FilesInvariant, RowsAreUploaded,
                ReferencesProtect

(* A step that deletes nothing and lets no Delete past its look.           *)
LEMMA NothingDeleted ==
  ASSUME FilesInvariant,
         rows' = rows, objects' = objects, upload' = upload,
         refs' \subseteq refs, unsafe' = unsafe,
         \A s \in Tasks, f \in Files : Deleting(s, f)' => Deleting(s, f)
  PROVE  RowsAreUploaded' /\ ReferencesProtect'
BY DEF FilesInvariant, RowsAreUploaded, ReferencesProtect

(* A reference that is added is unsafe, or its file is there and in no     *)
(* Delete's hands.                                                         *)
LEMMA ReferProtects ==
  ASSUME FilesInvariant, NEW f \in Files \cup {NoFile}, NEW u \in Uses,
         Refer(f, u),
         rows' = rows, objects' = objects, upload' = upload,
         \A s \in Tasks, g \in Files : Deleting(s, g)' => Deleting(s, g)
  PROVE  RowsAreUploaded' /\ ReferencesProtect'
<1>1. RowsAreUploaded'
  BY DEF FilesInvariant, RowsAreUploaded
<1>2. ASSUME NEW g \in Files, NEW v \in Uses,
             <<g, v>> \in refs', g \notin unsafe'
      PROVE  g \in rows \cap objects /\ \A t \in Tasks : ~Deleting(t, g)
  <2>1. g \notin unsafe
    BY <1>2 DEF Refer
  <2>2. CASE <<g, v>> \in refs
    BY <2>1, <2>2 DEF FilesInvariant, ReferencesProtect
  <2>3. CASE <<g, v>> \notin refs
    <3>1. g = f /\ f # NoFile
      BY <1>2, <2>3 DEF Refer
    <3>2. ~(\/ g \notin rows \cap objects
            \/ \E t \in Tasks : /\ task[t].file = g
                                /\ task[t].at \in {"remove", "drop"})
      BY <1>2, <2>3, <3>1 DEF Refer
    <3> QED  BY <3>2 DEF Deleting
  <2> QED  BY <2>2, <2>3
<1> QED  BY <1>1, <1>2 DEF ReferencesProtect

LEMMA FilesStep == FilesInvariant /\ [Next]_vars => FilesInvariant'
<1> SUFFICES ASSUME FilesInvariant, [Next]_vars
             PROVE  RowsAreUploaded' /\ ReferencesProtect'
  BY TypeStep DEF FilesInvariant
<1> USE DEF FilesInvariant, VerificationTypeOK
<1>1. ASSUME NEW f \in Files, PutObject(f) \/ CreateRow(f)
      PROVE  RowsAreUploaded' /\ ReferencesProtect'
  <2>1. RowsAreUploaded'
    BY <1>1 DEF PutObject, CreateRow, RowsAreUploaded
  <2>2. refs' = refs /\ unsafe' = unsafe /\ task' = task
    BY <1>1 DEF PutObject, CreateRow, use
  <2>3. \A g \in rows \cap objects : g \in (rows \cap objects)'
    BY <1>1 DEF PutObject, CreateRow, RowsAreUploaded
  <2> QED  BY <2>1, <2>2, <2>3 DEF ReferencesProtect, Deleting
<1>2. ASSUME NEW t \in Tasks, NEW f \in Files, FindByUUID(t, f)
      PROVE  RowsAreUploaded' /\ ReferencesProtect'
  <2>1. \A s \in Tasks, g \in Files : Deleting(s, g)' => Deleting(s, g)
    BY <1>2 DEF FindByUUID, NewTask, Deleting
  <2> QED  BY <1>2, <2>1, NothingDeleted DEF FindByUUID, store, use
<1>3. ASSUME NEW t \in Tasks, LookForReferences(t)
      PROVE  RowsAreUploaded' /\ ReferencesProtect'
  <2>1. UNCHANGED <<store, use>>
    BY <1>3 DEF LookForReferences
  <2>2. \A s \in Tasks, g \in Files :
            Deleting(s, g)' => Deleting(s, g) \/ ~IsReferenced(g)
    <3>1. CASE IsReferenced(task[t].file)
      BY <1>3, <3>1, TaskMoves DEF LookForReferences, Goes, Stages
    <3>2. CASE ~IsReferenced(task[t].file)
      <4>1. /\ task'[t].file = task[t].file
            /\ \A s \in Tasks \ {t} : task'[s] = task[s]
        BY <1>3, <3>2, TaskMoves DEF LookForReferences, Goes, Stages
      <4> QED  BY <3>2, <4>1 DEF Deleting
    <3> QED  BY <3>1, <3>2
  <2> QED  BY <2>1, <2>2 DEF store, use, RowsAreUploaded, ReferencesProtect,
                             IsReferenced
<1>4. ASSUME NEW t \in Tasks, RemoveObject(t) \/ SoftDelete(t)
      PROVE  RowsAreUploaded' /\ ReferencesProtect'
  <2>1. RowsAreUploaded' /\ UNCHANGED use
    BY <1>4 DEF RemoveObject, SoftDelete, RowsAreUploaded
  <2>2. \A s \in Tasks, g \in Files : Deleting(s, g)' => Deleting(s, g)
    BY <1>4, TaskMoves DEF RemoveObject, SoftDelete, Goes, Stages
  <2>3. \A g \in rows \cap objects :
            g \in (rows \cap objects)' \/ Deleting(t, g)
    BY <1>4 DEF RemoveObject, SoftDelete, Goes, Deleting
  <2> QED  BY <2>1, <2>2, <2>3 DEF use, ReferencesProtect
<1>5. ASSUME NEW t \in Tasks, NEW u \in {"avatar", "cover"},
             NEW f \in Files \cup {NoFile}, Find(t, u, f)
      PROVE  RowsAreUploaded' /\ ReferencesProtect'
  <2>1. \A s \in Tasks, g \in Files : Deleting(s, g)' => Deleting(s, g)
    BY <1>5 DEF Find, Deleting
  <2> QED  BY <1>5, <2>1, NothingDeleted DEF Find, store
<1>6. ASSUME NEW t \in Tasks, RemoveReference(t) \/ UpdateHolder(t)
      PROVE  RowsAreUploaded' /\ ReferencesProtect'
  <2>1. \A s \in Tasks, g \in Files : Deleting(s, g)' => Deleting(s, g)
    BY <1>6, TaskMoves DEF RemoveReference, UpdateHolder, Goes, Stages
  <2>2. refs' \subseteq refs /\ unsafe' = unsafe /\ UNCHANGED store
    BY <1>6 DEF RemoveReference, UpdateHolder, WithoutOld
  <2> QED  BY <2>1, <2>2, NothingDeleted DEF store
<1>7. ASSUME NEW t \in Tasks,
             AddReference(t) \/ ReferFront(t) \/ ReferBack(t)
      PROVE  RowsAreUploaded' /\ ReferencesProtect'
  <2>1. \A s \in Tasks, g \in Files : Deleting(s, g)' => Deleting(s, g)
    BY <1>7, TaskMoves DEF AddReference, ReferFront, ReferBack, Goes, Stages
  <2>2. \E f \in Files \cup {NoFile}, u \in Uses : Refer(f, u)
    <3>1. task[t] \in TaskRecord
      OBVIOUS
    <3>2. /\ task[t].use \in Uses
          /\ task[t].old \in Files \cup {NoFile}
          /\ task[t].file \in Files \cup {NoFile}
      BY <3>1 DEF TaskRecord
    <3> QED  BY <1>7, <3>2 DEF AddReference, ReferFront, ReferBack, Uses
  <2>3. UNCHANGED store
    BY <1>7 DEF AddReference, ReferFront, ReferBack
  <2> QED  BY <2>1, <2>2, <2>3, ReferProtects DEF store
<1>8. ASSUME NEW t \in Tasks,
             \/ TaskFails(t) \/ SubmitFails(t) \/ Create(t)
             \/ Confirm(t) \/ Cancel(t) \/ Decide(t)
             \/ \E front, back \in Files : Submit(t, front, back)
      PROVE  RowsAreUploaded' /\ ReferencesProtect'
  <2>1. \E at \in Stages \ {"remove", "drop"} :
           task'[t].at = at /\ \A s \in Tasks \ {t} : task'[s] = task[s]
    <3>1. CASE \E front, back \in Files : Submit(t, front, back)
      BY <3>1 DEF Submit, Stages
    <3>2. CASE ~\E front, back \in Files : Submit(t, front, back)
      <4>1. PICK at \in Stages \ {"remove", "drop"} :
               task' = [task EXCEPT ![t].at = at]
        BY <1>8, <3>2 DEF TaskFails, SubmitFails, Create, Confirm, Cancel,
                          Decide, Transition, Ends, Goes, Stages
      <4> QED  BY <4>1, TaskMoves
    <3> QED  BY <3>1, <3>2
  <2>3. \A s \in Tasks, g \in Files : Deleting(s, g)' => Deleting(s, g)
    BY <2>1 DEF Deleting
  <2>2. refs' = refs /\ unsafe' = unsafe /\ UNCHANGED store
    BY <1>8 DEF TaskFails, SubmitFails, Create, Confirm, Cancel, Decide,
                Transition, Submit, use
  <2> QED  BY <2>2, <2>3, NothingDeleted DEF store
<1>9. CASE UNCHANGED vars
  BY <1>9 DEF vars, filesVars, store, use, RowsAreUploaded,
              ReferencesProtect, Deleting
<1> QED  BY <1>1, <1>2, <1>3, <1>4, <1>5, <1>6, <1>7, <1>8, <1>9
         DEF Next, FilesNext

(* FilesInUseExist: a file in use, whose reference was written before any  *)
(* Delete had looked for references, is never lost, whatever uploads,      *)
(* replacements and deletions do at a time and wherever they fail.         *)
THEOREM FilesCorrect == Spec => []FilesInUseExist
<1>1. FilesInvariant => FilesInUseExist
  <2> SUFFICES ASSUME FilesInvariant, NEW u \in Uses,
                      <<holder[u], u>> \in refs, holder[u] \notin unsafe
               PROVE  holder[u] \in rows \cap objects
    BY DEF FilesInUseExist
  <2>1. holder[u] \in Files
    BY DEF FilesInvariant, VerificationTypeOK
  <2> QED  BY <2>1 DEF FilesInvariant, ReferencesProtect
<1> QED  BY <1>1, FilesInit0, FilesStep, PTL DEF Spec

-----------------------------------------------------------------------------
(* The history of the verification.                                        *)

LEMMA HistoryInit == Init => HistoryInvariant
BY TypeInit DEF Init, FilesInit, HistoryInvariant, SeenWasTold, EventsLeadOn,
                HistoryTellsStatus, NewTask

(* An event that begins the history, or comes from a status it has had,    *)
(* continues it.                                                           *)
LEMMA HistoryGrows ==
  ASSUME HistoryInvariant, NEW from \in Statuses,
         NEW to \in Statuses \ {"initialized"},
         \/ from = "initialized" /\ events = << >>
         \/ \E j \in DOMAIN events : events[j].to = from,
         events' = Append(events, [from |-> from, to |-> to]), status' = to
  PROVE  /\ EventsLeadOn' /\ HistoryTellsStatus'
         /\ \A j \in DOMAIN events :
               j \in DOMAIN events' /\ events'[j] = events[j]
<1> DEFINE n == Len(events) + 1
<1>1. /\ events \in Seq([from : Statuses, to : Statuses])
      /\ Len(events) \in Nat /\ DOMAIN events = 1..Len(events)
  BY DEF HistoryInvariant, VerificationTypeOK
<1>2. /\ Len(events') = n /\ DOMAIN events' = 1..n
      /\ events'[n] = [from |-> from, to |-> to]
      /\ \A j \in DOMAIN events : events'[j] = events[j]
  BY <1>1
<1>3. EventsLeadOn'
  BY <1>1, <1>2 DEF EventsLeadOn, HistoryInvariant
<1>4. status' = IF events' = << >> THEN "initialized" ELSE Last(events').to
  BY <1>2 DEF Last
<1>5. ASSUME NEW i \in DOMAIN events'
      PROVE  /\ events'[i].from = "initialized" <=> i = 1
             /\ i > 1 => \E j \in 1..i - 1 : events'[j].to = events'[i].from
  <2>1. CASE i \in DOMAIN events
    <3>1. \A j \in 1..i - 1 : events'[j] = events[j]
      BY <1>1, <1>2, <2>1
    <3> QED  BY <1>2, <2>1, <3>1 DEF HistoryInvariant, HistoryTellsStatus
  <2>2. CASE i = n /\ events = << >>
    BY <1>1, <1>2, <2>2
  <2>3. CASE i = n /\ events # << >>
    <3>1. PICK j \in DOMAIN events : events[j].to = from
      BY <2>3
    <3>2. from # "initialized" /\ n > 1 /\ j \in 1..n - 1
      BY <1>1, <3>1 DEF HistoryInvariant, EventsLeadOn
    <3> QED  BY <1>2, <2>3, <3>1, <3>2
  <2> QED  BY <1>1, <1>2, <1>5, <2>1, <2>2, <2>3
<1>6. HistoryTellsStatus'
  BY <1>4, <1>5 DEF HistoryTellsStatus
<1> QED  BY <1>1, <1>2, <1>3, <1>6

LEMMA StatusWasTold ==
  ASSUME HistoryInvariant
  PROVE  IF status = "initialized" THEN events = << >>
         ELSE \E j \in DOMAIN events : events[j].to = status
<1>1. /\ Len(events) \in Nat /\ DOMAIN events = 1..Len(events)
      /\ events = << >> <=> Len(events) = 0
  BY DEF HistoryInvariant, VerificationTypeOK
<1>2. events # << >> => /\ Len(events) \in DOMAIN events
                        /\ events[Len(events)].to = status
  BY <1>1 DEF HistoryInvariant, HistoryTellsStatus, Last
<1> QED  BY <1>2 DEF HistoryInvariant, HistoryTellsStatus, EventsLeadOn

LEMMA HistoryStep == HistoryInvariant /\ [Next]_vars => HistoryInvariant'
<1> SUFFICES ASSUME HistoryInvariant, [Next]_vars
             PROVE  SeenWasTold' /\ EventsLeadOn' /\ HistoryTellsStatus'
  BY TypeStep DEF HistoryInvariant
<1>0. VerificationTypeOK
  BY DEF HistoryInvariant
<1>1. ASSUME UNCHANGED application,
             \A t \in Tasks : task'[t].at \in {"confirm", "cancel"} =>
                                  task[t].at = task'[t].at
      PROVE  SeenWasTold' /\ EventsLeadOn' /\ HistoryTellsStatus'
  BY <1>1 DEF application, HistoryInvariant, SeenWasTold, EventsLeadOn,
              HistoryTellsStatus
<1>2. ASSUME FilesNext, UNCHANGED application
      PROVE  SeenWasTold' /\ EventsLeadOn' /\ HistoryTellsStatus'
  <2>1. \A t \in Tasks : task'[t].at \in {"confirm", "cancel"} =>
                            task[t].at = task'[t].at
    <3>1. CASE \E f \in Files : PutObject(f) \/ CreateRow(f)
      BY <3>1 DEF PutObject, CreateRow
    <3>2. ASSUME NEW t \in Tasks,
                 \/ \E f \in Files : FindByUUID(t, f)
                 \/ \E u \in {"avatar", "cover"}, f \in Files \cup {NoFile} :
                       Find(t, u, f)
          PROVE  task'[t].at \in {"look", "unref"} /\
                 \A s \in Tasks \ {t} : task'[s] = task[s]
      BY <1>0, <3>2 DEF FindByUUID, NewTask, Find, VerificationTypeOK
    <3>3. ASSUME NEW t \in Tasks,
                 \/ LookForReferences(t) \/ RemoveObject(t) \/ SoftDelete(t)
                 \/ RemoveReference(t) \/ AddReference(t) \/ UpdateHolder(t)
          PROVE  task'[t].at \notin {"confirm", "cancel"} /\
                 \A s \in Tasks \ {t} : task'[s] = task[s]
      <4>1. PICK to \in Stages \ {"confirm", "cancel"} :
               task' = [task EXCEPT ![t].at = to]
        BY <3>3 DEF LookForReferences, RemoveObject, SoftDelete,
                    RemoveReference, AddReference, UpdateHolder, Goes, Stages
      <4> QED  BY <1>0, <4>1, TaskMoves
    <3> QED  BY <1>2, <3>1, <3>2, <3>3 DEF FilesNext
  <2> QED  BY <1>1, <1>2, <2>1
<1>3. ASSUME NEW t \in Tasks,
             \/ TaskFails(t) /\ UNCHANGED application
             \/ \E front, back \in Files : Submit(t, front, back)
             \/ ReferFront(t) \/ ReferBack(t) \/ SubmitFails(t)
      PROVE  SeenWasTold' /\ EventsLeadOn' /\ HistoryTellsStatus'
  <2>1. UNCHANGED application
    BY <1>3 DEF Submit, ReferFront, ReferBack, SubmitFails
  <2>2. \A s \in Tasks : task'[s].at \in {"confirm", "cancel"} =>
                            task[s].at = task'[s].at
    <3>1. CASE \E front, back \in Files : Submit(t, front, back)
      BY <1>0, <3>1 DEF Submit, VerificationTypeOK
    <3>2. CASE ~\E front, back \in Files : Submit(t, front, back)
      <4>1. PICK to \in Stages \ {"confirm", "cancel"} :
               task' = [task EXCEPT ![t].at = to]
        BY <1>3, <3>2 DEF TaskFails, ReferFront, ReferBack, SubmitFails, Ends,
                          Goes, Stages
      <4> QED  BY <1>0, <4>1, TaskMoves
    <3> QED  BY <3>1, <3>2
  <2> QED  BY <1>1, <2>1, <2>2
<1>4. ASSUME NEW t \in Tasks, Create(t)
      PROVE  SeenWasTold' /\ EventsLeadOn' /\ HistoryTellsStatus'
  <2>1. events = << >>
    BY <1>4, StatusWasTold DEF Create, Taken
  <2>2. /\ EventsLeadOn' /\ HistoryTellsStatus'
        /\ \A j \in DOMAIN events :
              j \in DOMAIN events' /\ events'[j] = events[j]
    BY <1>4, <2>1, HistoryGrows DEF Create, Statuses
  <2>3. \A s \in Tasks : task'[s].at \in {"confirm", "cancel"} =>
                            task[s].at = task'[s].at
    BY <1>0, <1>4, TaskMoves DEF Create, Goes, Stages
  <2>4. seen' = seen
    BY <1>4 DEF Create
  <2> QED  BY <2>2, <2>3, <2>4 DEF SeenWasTold, HistoryInvariant
<1>5. ASSUME NEW t \in Tasks, Confirm(t) \/ Cancel(t)
      PROVE  SeenWasTold' /\ EventsLeadOn' /\ HistoryTellsStatus'
  <2>1. UNCHANGED <<status, events>> /\ status # "initialized"
    BY <1>5 DEF Confirm, Cancel
  <2>2. EventsLeadOn' /\ HistoryTellsStatus'
    BY <2>1 DEF HistoryInvariant, EventsLeadOn, HistoryTellsStatus
  <2>3. ASSUME NEW s \in Tasks, task'[s].at \in {"confirm", "cancel"}
        PROVE  \/ s = t /\ seen'[s] = status
               \/ task[s].at = task'[s].at /\ seen'[s] = seen[s]
    <3>1. \A v \in Tasks \ {t} : task'[v] = task[v]
      BY <1>0, <1>5, TaskMoves DEF Confirm, Cancel, Goes, Stages
    <3> QED  BY <1>0, <1>5, <2>3, <3>1 DEF Confirm, Cancel, VerificationTypeOK
  <2> QED  BY <2>1, <2>2, <2>3, StatusWasTold DEF SeenWasTold,
                                                  HistoryInvariant
<1>6. ASSUME NEW t \in Tasks, Decide(t)
      PROVE  SeenWasTold' /\ EventsLeadOn' /\ HistoryTellsStatus'
  <2>1. PICK to \in {"manual_review", "cancelled"} :
           Transition(t, to) /\ task[t].at \in {"confirm", "cancel"}
    BY <1>6 DEF Decide
  <2>2. seen[t] \in Statuses /\ \E j \in DOMAIN events : events[j].to = seen[t]
    BY <1>0, <2>1 DEF HistoryInvariant, SeenWasTold, VerificationTypeOK
  <2>3. /\ EventsLeadOn' /\ HistoryTellsStatus'
        /\ \A j \in DOMAIN events :
              j \in DOMAIN events' /\ events'[j] = events[j]
    BY <2>1, <2>2, HistoryGrows DEF Transition, Statuses
  <2>4. seen' = seen /\ \A s \in Tasks :
           task'[s].at \in {"confirm", "cancel"} => task[s].at = task'[s].at
    BY <1>0, <2>1, TaskMoves DEF Transition, Ends, Stages
  <2> QED  BY <2>3, <2>4 DEF SeenWasTold, HistoryInvariant
<1>7. CASE UNCHANGED vars
  BY <1>1, <1>7 DEF vars, filesVars
<1> QED  BY <1>2, <1>3, <1>4, <1>5, <1>6, <1>7 DEF Next

(* HistoryTellsStatus: for any number of requests the history begins with  *)
(* the only submission, ends in the status of the row, and comes from no   *)
(* status the application never had.                                       *)
THEOREM HistoryCorrect == Spec => []HistoryTellsStatus
<1>1. HistoryInvariant => HistoryTellsStatus
  BY DEF HistoryInvariant
<1> QED  BY <1>1, HistoryInit, HistoryStep, PTL DEF Spec

-----------------------------------------------------------------------------
(* References and use.                                                     *)

RefsOf(u) == {f \in Files : <<f, u>> \in refs}
InUse(u) == {holder[u]} \ {NoFile}

(* A replacement at work is alone, began from the file in use, and has     *)
(* left the references as far as it has come.                              *)
ReplacedInOrder(u) ==
    /\ \A s, t \in Replacing(u) : s = t
    /\ \A t \in Replacing(u) :
          /\ u \in {"avatar", "cover"}
          /\ task[t].old = holder[u]
          /\ task[t].at = "unref" => RefsOf(u) = InUse(u)
          /\ task[t].at = "ref" =>
                RefsOf(u) = IF task[t].old = task[t].file THEN InUse(u) ELSE {}
          /\ task[t].at = "write" => RefsOf(u) = {task[t].file} \ {NoFile}
    /\ Replacing(u) \cup Referring(u) = {} => RefsOf(u) = InUse(u)

Refers(t) == task[t].at \in {"front", "back"}
Replaces(t) == task[t].at \in {"unref", "ref", "write"}

(* One submission refers, after its row, to the files the row names.       *)
SubmittedInOrder ==
    /\ \A s, t \in Tasks : Refers(s) /\ Refers(t) => s = t
    /\ status = "initialized" =>
          /\ \A t \in Tasks : ~Refers(t)
          /\ \A u \in {"front", "back"} : RefsOf(u) = {} /\ holder[u] = NoFile
    /\ \A t \in Tasks :
          /\ Refers(t) => /\ task[t].old = holder["back"]
                          /\ "back" \notin disturbed => RefsOf("back") = {}
          /\ task[t].at = "front" =>
                /\ task[t].file = holder["front"]
                /\ "front" \notin disturbed => RefsOf("front") = {}
          /\ task[t].at = "back" /\ "front" \notin disturbed =>
                RefsOf("front") = InUse("front")
          /\ Replaces(t) => task[t].use \in {"avatar", "cover"}

ReferencesInvariant ==
    /\ VerificationTypeOK /\ SubmittedInOrder
    /\ \A u \in Uses \ disturbed : ReplacedInOrder(u)

LEMMA ReferencesInit == Init => ReferencesInvariant
<1> SUFFICES ASSUME Init PROVE ReferencesInvariant
  OBVIOUS
<1>1. \A t \in Tasks : task[t].at = "new"
  BY DEF Init, FilesInit, NewTask
<1>2. \A u \in Uses : RefsOf(u) = {} /\ holder[u] = NoFile
  BY DEF Init, FilesInit, RefsOf
<1>3. \A u \in Uses : Replacing(u) = {} /\ InUse(u) = {}
  BY <1>1, <1>2 DEF Replacing, InUse
<1>4. SubmittedInOrder
  BY <1>1, <1>2 DEF SubmittedInOrder, Refers, Replaces, Uses
<1> QED  BY <1>2, <1>3, <1>4, TypeInit DEF ReferencesInvariant, ReplacedInOrder

(* A use that a step leaves alone.                                         *)
LEMMA UseKept ==
  ASSUME NEW u \in Uses, ReplacedInOrder(u), NEW t \in Tasks,
         \A s \in Tasks \ {t} : task'[s] = task[s],
         t \in Replacing(u)' \/ t \in Replacing(u) => task'[t] = task[t],
         Refers(t)' <=> Refers(t),
         RefsOf(u)' = RefsOf(u), holder'[u] = holder[u]
  PROVE  ReplacedInOrder(u)'
<1>1. Replacing(u)' = Replacing(u)
  BY DEF Replacing
<1>2. \A s \in Replacing(u) : task'[s] = task[s]
  BY DEF Replacing
<1>3. Referring(u)' = Referring(u)
  BY DEF Referring, Refers
<1> QED  BY <1>1, <1>2, <1>3 DEF ReplacedInOrder, InUse

(* The submission, where a step leaves it alone.                           *)
LEMMA SubmissionKept ==
  ASSUME SubmittedInOrder, NEW t \in Tasks,
         \A s \in Tasks \ {t} : task'[s] = task[s],
         ~Refers(t), ~Refers(t)',
         Replaces(t)' => task'[t].use \in {"avatar", "cover"},
         status' = status \/ status' # "initialized",
         disturbed \subseteq disturbed',
         \A u \in {"front", "back"} :
             RefsOf(u)' = RefsOf(u) /\ holder'[u] = holder[u]
  PROVE  SubmittedInOrder'
<1>1. \A s \in Tasks : Refers(s)' => Refers(s) /\ task'[s] = task[s]
  BY DEF Refers
<1>2. \A s \in Tasks : Replaces(s)' => task'[s].use \in {"avatar", "cover"}
  BY DEF SubmittedInOrder, Replaces
<1> QED  BY <1>1, <1>2 DEF SubmittedInOrder, InUse, Refers

(* A request that neither replaces nor refers, before or after the step.   *)
LEMMA ApartFromReferences ==
  ASSUME ReferencesInvariant, NEW t \in Tasks,
         \A s \in Tasks \ {t} : task'[s] = task[s],
         ~Refers(t), ~Refers(t)', ~Replaces(t), ~Replaces(t)',
         status' = status \/ status' # "initialized",
         disturbed \subseteq disturbed',
         refs' = refs, holder' = holder
  PROVE  /\ SubmittedInOrder'
         /\ \A u \in Uses \ disturbed' : ReplacedInOrder(u)'
<1>1. \A u \in Uses : RefsOf(u)' = RefsOf(u) /\ holder'[u] = holder[u]
  BY DEF RefsOf
<1>2. SubmittedInOrder'
  BY <1>1, SubmissionKept DEF ReferencesInvariant, Uses
<1>3. ASSUME NEW u \in Uses \ disturbed' PROVE ReplacedInOrder(u)'
  <2>1. t \notin Replacing(u) /\ t \notin Replacing(u)'
    BY DEF Replacing, Replaces
  <2>2. ReplacedInOrder(u)
    BY DEF ReferencesInvariant
  <2> QED  BY <1>1, <2>1, <2>2, UseKept
<1> QED  BY <1>2, <1>3

(* A replacement's step: what it does to the use it replaces is shown      *)
(* apart, nothing else changes.                                            *)
LEMMA ApartFromReplaced ==
  ASSUME ReferencesInvariant, NEW t \in Tasks, NEW v \in {"avatar", "cover"},
         \A s \in Tasks \ {t} : task'[s] = task[s],
         ~Refers(t), ~Refers(t)',
         Replaces(t) => task[t].use = v, Replaces(t)' => task'[t].use = v,
         status' = status, disturbed \subseteq disturbed',
         \A u \in Uses \ {v} : RefsOf(u)' = RefsOf(u) /\ holder'[u] = holder[u],
         v \notin disturbed' => ReplacedInOrder(v)'
  PROVE  /\ SubmittedInOrder'
         /\ \A u \in Uses \ disturbed' : ReplacedInOrder(u)'
<1>1. SubmittedInOrder'
  BY SubmissionKept DEF ReferencesInvariant, Uses
<1>2. ASSUME NEW u \in Uses \ disturbed', u # v PROVE ReplacedInOrder(u)'
  <2>1. t \notin Replacing(u) /\ t \notin Replacing(u)'
    BY <1>2 DEF Replacing, Replaces
  <2>2. ReplacedInOrder(u)
    BY DEF ReferencesInvariant
  <2> QED  BY <1>2, <2>1, <2>2, UseKept
<1> QED  BY <1>1, <1>2

(* The files in use, told of one use.                                      *)
LEMMA RefsTyped ==
  ASSUME VerificationTypeOK, NEW u \in Uses
  PROVE  holder[u] \in Files \cup {NoFile} /\ InUse(u) \subseteq Files
BY DEF VerificationTypeOK, InUse

(* A replacement that goes on, fails or ends.                              *)
LEMMA ReplacementMoves ==
  ASSUME ReferencesInvariant, NEW t \in Tasks, Replaces(t),
         UNCHANGED <<status>>,
         \/ RemoveReference(t) \/ AddReference(t) \/ UpdateHolder(t)
         \/ TaskFails(t)
  PROVE  /\ SubmittedInOrder'
         /\ \A u \in Uses \ disturbed' : ReplacedInOrder(u)'
<1>0. VerificationTypeOK
  BY DEF ReferencesInvariant
<1>v. PICK v \in {"avatar", "cover"} : v = task[t].use
  BY DEF ReferencesInvariant, SubmittedInOrder
<1>1. v \in Uses /\ task[t].file \in Files \cup {NoFile}
  <2>1. task[t] \in TaskRecord
    BY <1>0 DEF VerificationTypeOK
  <2> QED  BY <2>1 DEF TaskRecord, Uses
<1>2. PICK to \in {"ref", "write", "done"} :
         task' = [task EXCEPT ![t].at = to]
  BY DEF RemoveReference, AddReference, UpdateHolder, TaskFails, Goes, Ends
<1>3. /\ task'[t].at = to /\ task'[t].file = task[t].file
      /\ task'[t].old = task[t].old /\ task'[t].use = v
      /\ \A s \in Tasks \ {t} : task'[s] = task[s]
  BY <1>0, <1>v, <1>2, TaskMoves DEF Stages
<1>4. ~Refers(t) /\ ~Refers(t)'
  BY <1>2, <1>3 DEF Refers, Replaces
<1>5. disturbed \subseteq disturbed'
  BY DEF RemoveReference, AddReference, Refer, UpdateHolder, TaskFails
<1>6. \A u \in Uses \ {v} : RefsOf(u)' = RefsOf(u) /\ holder'[u] = holder[u]
  BY <1>0, <1>v DEF RemoveReference, WithoutOld, AddReference, Refer, UpdateHolder,
              TaskFails, RefsOf, VerificationTypeOK
<1>7. ASSUME v \notin disturbed' PROVE ReplacedInOrder(v)'
  <2>1. ReplacedInOrder(v) /\ t \in Replacing(v)
    BY <1>v, <1>1, <1>5, <1>7 DEF ReferencesInvariant, Replacing, Replaces
  <2>2. /\ Replacing(v) = {t} /\ task[t].old = holder[v]
        /\ Referring(v)' = {}
    <3>1. Referring(v)' = {}
      BY <1>1 DEF Referring
    <3>2. task[t].old = holder[v] /\ \A s \in Replacing(v) : s = t
      BY <2>1 DEF ReplacedInOrder
    <3> QED  BY <2>1, <3>1, <3>2
  <2>3. Replacing(v)' = IF to = "done" THEN {} ELSE {t}
    BY <1>v, <1>2, <1>3, <2>2 DEF Replacing
  <2>4. CASE RemoveReference(t)
    <3>1. task[t].at = "unref" /\ refs' = WithoutOld(t) /\ holder' = holder
      BY <1>v, <1>7, <2>4 DEF RemoveReference, Goes
    <3>2. to = "ref"
      BY <1>0, <1>3, <2>4 DEF RemoveReference, Goes, VerificationTypeOK
    <3>3. RefsOf(v) = InUse(v)
      BY <2>1, <3>1 DEF ReplacedInOrder
    <3>4. RefsOf(v)' = IF task[t].old = task[t].file THEN InUse(v) ELSE {}
      <4>1. CASE task[t].old = task[t].file
        BY <1>v, <3>1, <3>3, <4>1 DEF RefsOf, WithoutOld
      <4>2. CASE task[t].old # task[t].file
        <5>1. \A f \in Files : <<f, v>> \in refs => f = task[t].old
          BY <2>2, <3>3 DEF RefsOf, InUse
        <5>2. \A f \in Files : <<f, v>> \notin refs'
          BY <1>v, <3>1, <4>2, <5>1 DEF WithoutOld
        <5> QED  BY <4>2, <5>2 DEF RefsOf
      <4> QED  BY <4>1, <4>2
    <3> QED  BY <1>1, <1>3, <2>2, <2>3, <3>1, <3>2, <3>4 DEF ReplacedInOrder,
                                                              InUse
  <2>5. CASE AddReference(t)
    <3>1. /\ task[t].at = "ref" /\ holder' = holder
          /\ refs' = refs \cup {<<g, v>> : g \in {task[t].file} \ {NoFile}}
      BY <1>v, <1>7, <2>5 DEF AddReference, Goes, Refer
    <3>2. to = "write"
      BY <1>0, <1>3, <2>5 DEF AddReference, Goes, VerificationTypeOK
    <3>3. RefsOf(v) \subseteq {task[t].file} \ {NoFile}
      BY <2>1, <2>2, <3>1 DEF ReplacedInOrder, InUse
    <3>4. RefsOf(v)' = {task[t].file} \ {NoFile}
      <4>1. \A f \in Files :
               <<f, v>> \in refs' <=> f \in {task[t].file} \ {NoFile}
        BY <3>1, <3>3 DEF RefsOf
      <4> QED  BY <1>1, <4>1 DEF RefsOf
    <3> QED  BY <1>1, <1>3, <2>2, <2>3, <3>1, <3>2, <3>4 DEF ReplacedInOrder
  <2>6. CASE UpdateHolder(t)
    <3>1. /\ task[t].at = "write" /\ RefsOf(v)' = RefsOf(v)
          /\ holder'[v] = task[t].file
      BY <1>0, <1>v, <1>1, <2>6 DEF UpdateHolder, Goes, RefsOf, VerificationTypeOK
    <3>2. to = "done"
      BY <1>0, <1>3, <2>6 DEF UpdateHolder, Goes, VerificationTypeOK
    <3>3. RefsOf(v)' = InUse(v)'
      BY <2>1, <3>1 DEF ReplacedInOrder, InUse
    <3>4. Replacing(v)' = {}
      BY <2>3, <3>2
    <3> QED  BY <3>3, <3>4 DEF ReplacedInOrder
  <2>7. CASE TaskFails(t)
    <3>1. task[t].at = "unref"
      BY <1>v, <1>7, <2>7 DEF TaskFails, Replaces
    <3>2. RefsOf(v)' = InUse(v)'
      <4>1. RefsOf(v) = InUse(v)
        BY <2>1, <3>1 DEF ReplacedInOrder
      <4> QED  BY <2>7, <4>1 DEF TaskFails, RefsOf, InUse
    <3>3. to = "done"
      BY <1>0, <1>3, <2>7 DEF TaskFails, Ends, VerificationTypeOK
    <3>4. Replacing(v)' = {}
      BY <2>3, <3>3
    <3> QED  BY <3>2, <3>4 DEF ReplacedInOrder
  <2> QED  BY <2>4, <2>5, <2>6, <2>7
<1> QED  BY <1>v, <1>3, <1>4, <1>5, <1>6, <1>7, ApartFromReplaced

(* A submission that refers to its files after its row, or fails to.       *)
LEMMA SubmissionMoves ==
  ASSUME ReferencesInvariant, NEW t \in Tasks,
         ReferFront(t) \/ ReferBack(t) \/ SubmitFails(t)
  PROVE  /\ SubmittedInOrder'
         /\ \A u \in Uses \ disturbed' : ReplacedInOrder(u)'
<1>0. VerificationTypeOK /\ SubmittedInOrder
  BY DEF ReferencesInvariant
<1>1. PICK to \in {"back", "done"} : task' = [task EXCEPT ![t].at = to]
  BY DEF ReferFront, ReferBack, SubmitFails, Goes, Ends
<1>2. /\ task'[t].at = to /\ task'[t].file = task[t].file
      /\ task'[t].old = task[t].old
      /\ \A s \in Tasks \ {t} : task'[s] = task[s]
  BY <1>0, <1>1, TaskMoves DEF Stages
<1>3. UNCHANGED <<holder, status>> /\ disturbed \subseteq disturbed'
  BY DEF ReferFront, ReferBack, SubmitFails, Refer, application
<1>4. /\ Refers(t) /\ ~Replaces(t) /\ ~Replaces(t)'
      /\ \A s \in Tasks \ {t} : ~Refers(s) /\ ~Refers(s)'
  BY <1>0, <1>2 DEF ReferFront, ReferBack, SubmitFails, Goes, Refers,
                    Replaces, SubmittedInOrder
<1>5. status # "initialized"
  BY <1>0, <1>4 DEF SubmittedInOrder
<1>6. \A s \in Tasks : Replaces(s)' => /\ Replaces(s)
                                       /\ task'[s].use = task[s].use
  BY <1>2, <1>4 DEF Replaces
<1>7. \A u \in {"avatar", "cover"} : RefsOf(u)' = RefsOf(u)
  BY DEF ReferFront, ReferBack, SubmitFails, Refer, RefsOf
<1>8. ASSUME NEW u \in {"avatar", "cover"}, u \notin disturbed'
      PROVE  ReplacedInOrder(u)'
  <2>1. ReplacedInOrder(u)
    BY <1>3, <1>8 DEF ReferencesInvariant, Uses
  <2>2. Replacing(u)' = Replacing(u) /\ t \notin Replacing(u)
    BY <1>2, <1>4 DEF Replacing, Replaces
  <2>3. \A s \in Replacing(u) : task'[s] = task[s]
    BY <1>2, <2>2 DEF Replacing
  <2>4. Referring(u)' = Referring(u)
    BY <1>8 DEF Referring
  <2> QED  BY <1>3, <1>7, <2>1, <2>2, <2>3, <2>4 DEF ReplacedInOrder, InUse
<1>9. /\ task[t].file \in Files \cup {NoFile}
      /\ task[t].old \in Files \cup {NoFile}
  <2>1. task[t] \in TaskRecord
    BY <1>0 DEF VerificationTypeOK
  <2> QED  BY <2>1 DEF TaskRecord
<1>10. ASSUME NEW u \in {"front", "back"} PROVE Replacing(u)' = {}
  BY <1>0, <1>6, <1>10 DEF SubmittedInOrder, Replacing, Replaces
<1>11. CASE ReferFront(t)
  <2>1. /\ task[t].at = "front" /\ task'[t].at = "back"
        /\ Refer(task[t].file, "front")
    BY <1>0, <1>11 DEF ReferFront, Goes, VerificationTypeOK
  <2>2. /\ task[t].file = holder["front"] /\ task[t].old = holder["back"]
        /\ "front" \notin disturbed => RefsOf("front") = {}
        /\ "back" \notin disturbed => RefsOf("back") = {}
    BY <1>0, <1>4, <2>1 DEF SubmittedInOrder
  <2>3. RefsOf("back")' = RefsOf("back")
    BY <2>1 DEF Refer, RefsOf
  <2>4. "front" \notin disturbed' => RefsOf("front")' = InUse("front")'
    <3>1. SUFFICES ASSUME "front" \notin disturbed'
                   PROVE  \A f \in Files : <<f, "front">> \in refs' <=>
                                              f \in InUse("front")
      BY <1>3, <1>9, <2>2 DEF RefsOf, InUse
    <3>2. refs' = refs \cup {<<g, "front">> : g \in {task[t].file} \ {NoFile}}
      BY <2>1, <3>1 DEF Refer
    <3> QED  BY <1>3, <2>2, <3>1, <3>2 DEF RefsOf, InUse
  <2>5. SubmittedInOrder'
    <3>1. \A s \in Tasks : Refers(s)' => s = t
      BY <1>4
    <3>2. \A s \in Tasks : Replaces(s)' =>
              task'[s].use \in {"avatar", "cover"}
      BY <1>0, <1>6 DEF SubmittedInOrder
    <3>3. /\ task'[t].old = holder'["back"]
          /\ "back" \notin disturbed' => RefsOf("back")' = {}
      BY <1>2, <1>3, <2>2, <2>3
    <3> QED  BY <1>3, <1>5, <2>1, <2>4, <3>1, <3>2, <3>3
             DEF SubmittedInOrder, Refers
  <2>6. ASSUME NEW u \in {"front", "back"} PROVE ReplacedInOrder(u)'
    <3>1. t \in Referring(u)'
      BY <2>1, <2>6 DEF Referring
    <3> QED  BY <1>10, <3>1 DEF ReplacedInOrder
  <2> QED  BY <1>8, <2>5, <2>6 DEF Uses
<1>12. CASE ReferBack(t)
  <2>1. /\ task[t].at = "back" /\ task'[t].at = "done"
        /\ Refer(task[t].old, "back")
    BY <1>0, <1>12 DEF ReferBack, Goes, VerificationTypeOK
  <2>2. /\ task[t].old = holder["back"]
        /\ "back" \notin disturbed => RefsOf("back") = {}
        /\ "front" \notin disturbed => RefsOf("front") = InUse("front")
    BY <1>0, <1>4, <2>1 DEF SubmittedInOrder
  <2>3. RefsOf("front")' = RefsOf("front")
    BY <2>1 DEF Refer, RefsOf
  <2>4. "back" \notin disturbed' => RefsOf("back")' = InUse("back")'
    <3>1. SUFFICES ASSUME "back" \notin disturbed'
                   PROVE  \A f \in Files : <<f, "back">> \in refs' <=>
                                              f \in InUse("back")
      BY <1>3, <1>9, <2>2 DEF RefsOf, InUse
    <3>2. refs' = refs \cup {<<g, "back">> : g \in {task[t].old} \ {NoFile}}
      BY <2>1, <3>1 DEF Refer
    <3> QED  BY <1>3, <2>2, <3>1, <3>2 DEF RefsOf, InUse
  <2>5. \A s \in Tasks : ~Refers(s)'
    BY <1>4, <2>1 DEF Refers
  <2>6. SubmittedInOrder'
    BY <1>0, <1>3, <1>5, <1>6, <2>5 DEF SubmittedInOrder, Refers
  <2>7. ASSUME NEW u \in {"front", "back"}, u \notin disturbed'
        PROVE  ReplacedInOrder(u)'
    <3>1. RefsOf(u)' = InUse(u)'
      BY <1>3, <2>2, <2>3, <2>4, <2>7 DEF InUse
    <3> QED  BY <1>10, <3>1 DEF ReplacedInOrder
  <2> QED  BY <1>8, <2>6, <2>7 DEF Uses
<1>13. CASE SubmitFails(t)
  <2>1. task'[t].at = "done" /\ {"front", "back"} \subseteq disturbed'
    BY <1>0, <1>13 DEF SubmitFails, Ends, VerificationTypeOK
  <2>2. \A s \in Tasks : ~Refers(s)'
    BY <1>4, <2>1 DEF Refers
  <2>3. SubmittedInOrder'
    BY <1>0, <1>3, <1>5, <1>6, <2>2 DEF SubmittedInOrder, Refers
  <2> QED  BY <1>8, <2>1, <2>3 DEF Uses
<1> QED  BY <1>11, <1>12, <1>13

LEMMA ReferencesStep == ReferencesInvariant /\ [Next]_vars => ReferencesInvariant'
<1> DEFINE Goal == /\ SubmittedInOrder'
                   /\ \A u \in Uses \ disturbed' : ReplacedInOrder(u)'
<1> SUFFICES ASSUME ReferencesInvariant, [Next]_vars PROVE Goal
  BY TypeStep DEF ReferencesInvariant
<1>0. VerificationTypeOK
  BY DEF ReferencesInvariant
<1>1. CASE UNCHANGED <<task, use, status>>
  BY <1>1 DEF use, ReferencesInvariant, SubmittedInOrder, ReplacedInOrder,
              Replacing, Referring, Refers, Replaces, RefsOf, InUse
<1>2. ASSUME NEW t \in Tasks, UNCHANGED <<use, status>>,
             \/ \E f \in Files : FindByUUID(t, f)
             \/ \E front, back \in Files : Submit(t, front, back)
      PROVE  Goal
  <2>1. /\ task[t].at = "new" /\ task'[t].at \in {"look", "create"}
        /\ \A s \in Tasks \ {t} : task'[s] = task[s]
    BY <1>0, <1>2 DEF FindByUUID, Submit, VerificationTypeOK
  <2> QED  BY <1>2, <2>1, ApartFromReferences DEF use, Refers, Replaces
<1>3. ASSUME NEW t \in Tasks, ~Replaces(t),
             status' = status \/ status' # "initialized",
             \/ LookForReferences(t) \/ RemoveObject(t) \/ SoftDelete(t)
             \/ Confirm(t) \/ Cancel(t) \/ Decide(t) \/ TaskFails(t)
      PROVE  Goal
  <2>1. PICK to \in {"remove", "drop", "confirm", "cancel", "done"} :
           task' = [task EXCEPT ![t].at = to]
    BY <1>3 DEF LookForReferences, RemoveObject, SoftDelete, Confirm, Cancel,
                Decide, Transition, TaskFails, Goes, Ends
  <2>2. ~Refers(t)
    BY <1>3 DEF LookForReferences, RemoveObject, SoftDelete, Confirm, Cancel,
                Decide, TaskFails, Goes, Refers
  <2>3. /\ \A s \in Tasks \ {t} : task'[s] = task[s]
        /\ ~Refers(t)' /\ ~Replaces(t)'
    BY <1>0, <2>1, TaskMoves DEF Stages, Refers, Replaces
  <2>4. UNCHANGED <<refs, holder>> /\ disturbed \subseteq disturbed'
    BY <1>3 DEF LookForReferences, RemoveObject, SoftDelete, Confirm, Cancel,
                Decide, Transition, TaskFails, use
  <2> QED  BY <1>3, <2>2, <2>3, <2>4, ApartFromReferences
<1>4. ASSUME NEW t \in Tasks, NEW u \in {"avatar", "cover"},
             NEW f \in Files \cup {NoFile}, Find(t, u, f), status' = status
      PROVE  Goal
  <2>1. /\ task[t].at = "new"
        /\ task'[t] = [at |-> "unref", use |-> u, old |-> holder[u], file |-> f]
        /\ \A s \in Tasks \ {t} : task'[s] = task[s]
        /\ UNCHANGED <<refs, holder>>
    BY <1>0, <1>4 DEF Find, VerificationTypeOK
  <2>2. ASSUME u \notin disturbed' PROVE ReplacedInOrder(u)'
    <3>1. Replacing(u) = {} /\ u \notin disturbed
      BY <1>4, <2>2 DEF Find
    <3>2. Replacing(u)' = {t} /\ Referring(u) = {}
      BY <2>1, <3>1 DEF Replacing, Referring
    <3>3. RefsOf(u) = InUse(u)
      BY <3>1, <3>2 DEF ReferencesInvariant, ReplacedInOrder, Uses
    <3> QED  BY <2>1, <3>2, <3>3 DEF ReplacedInOrder, RefsOf, InUse
  <2>3. /\ disturbed \subseteq disturbed'
        /\ \A w \in Uses : RefsOf(w)' = RefsOf(w) /\ holder'[w] = holder[w]
    BY <1>4, <2>1 DEF Find, RefsOf
  <2>4. ~Refers(t) /\ ~Refers(t)' /\ ~Replaces(t) /\ task'[t].use = u
    BY <2>1 DEF Refers, Replaces
  <2> QED  BY <1>4, <2>1, <2>2, <2>3, <2>4, ApartFromReplaced
<1>5. ASSUME NEW t \in Tasks, status' = status, Replaces(t),
             \/ RemoveReference(t) \/ AddReference(t) \/ UpdateHolder(t)
             \/ TaskFails(t)
      PROVE  Goal
  BY <1>5, ReplacementMoves
<1>6. ASSUME NEW t \in Tasks, Create(t) PROVE Goal
  <2>1. /\ task[t].at = "create" /\ task'[t].at = "front"
        /\ task'[t].file = task[t].file /\ task'[t].old = task[t].old
        /\ \A s \in Tasks \ {t} : task'[s] = task[s]
    BY <1>0, <1>6, TaskMoves DEF Create, Goes, Stages
  <2>2. /\ \A s \in Tasks : ~Refers(s)
        /\ \A u \in {"front", "back"} : RefsOf(u) = {}
    BY <1>6 DEF Create, Taken, ReferencesInvariant, SubmittedInOrder
  <2>3. /\ holder'["front"] = task[t].file /\ holder'["back"] = task[t].old
        /\ holder'["avatar"] = holder["avatar"]
        /\ holder'["cover"] = holder["cover"]
        /\ status' # "initialized" /\ UNCHANGED <<refs, disturbed>>
    BY <1>0, <1>6 DEF Create, VerificationTypeOK, Uses
  <2>4. /\ \A s \in Tasks : Refers(s)' <=> s = t
        /\ \A s \in Tasks : Replaces(s)' => Replaces(s) /\ s # t
        /\ \A u \in {"front", "back"} : RefsOf(u)' = {}
    BY <2>1, <2>2, <2>3 DEF Refers, Replaces, RefsOf
  <2>5. SubmittedInOrder'
    <3>1. \A s \in Tasks : Replaces(s)' =>
              task'[s].use \in {"avatar", "cover"}
      BY <2>1, <2>4 DEF ReferencesInvariant, SubmittedInOrder
    <3>2. /\ task'[t].old = holder'["back"]
          /\ task'[t].file = holder'["front"]
      BY <2>1, <2>3
    <3> QED  BY <2>1, <2>3, <2>4, <3>1, <3>2 DEF SubmittedInOrder, Refers
  <2>6. ASSUME NEW u \in {"front", "back"} PROVE ReplacedInOrder(u)'
    <3>1. Replacing(u)' = {}
      BY <2>5, <2>6 DEF SubmittedInOrder, Replacing, Replaces
    <3>2. t \in Referring(u)'
      BY <2>1, <2>6 DEF Referring
    <3> QED  BY <3>1, <3>2 DEF ReplacedInOrder
  <2>7. ASSUME NEW u \in {"avatar", "cover"}, u \notin disturbed'
        PROVE  ReplacedInOrder(u)'
    <3>1. ReplacedInOrder(u)
      BY <2>3, <2>7 DEF ReferencesInvariant, Uses
    <3>2. Replacing(u)' = Replacing(u)
      BY <2>1 DEF Replacing
    <3>3. \A s \in Replacing(u) : task'[s] = task[s]
      BY <2>1 DEF Replacing
    <3>4. Referring(u)' = Referring(u)
      BY <2>7 DEF Referring
    <3>5. RefsOf(u)' = RefsOf(u) /\ holder'[u] = holder[u]
      BY <2>3 DEF RefsOf
    <3> QED  BY <3>1, <3>2, <3>3, <3>4, <3>5 DEF ReplacedInOrder, InUse
  <2> QED  BY <2>5, <2>6, <2>7 DEF Uses
<1>7. ASSUME NEW t \in Tasks,
             ReferFront(t) \/ ReferBack(t) \/ SubmitFails(t)
      PROVE  Goal
  BY <1>7, SubmissionMoves
<1>8. CASE \E f \in Files :
              (PutObject(f) \/ CreateRow(f)) /\ UNCHANGED application
  BY <1>1, <1>8 DEF PutObject, CreateRow, application
<1>9. ASSUME FilesNext, UNCHANGED application PROVE Goal
  <2>1. status' = status
    BY <1>9 DEF application
  <2>2. ASSUME NEW t \in Tasks,
               RemoveReference(t) \/ AddReference(t) \/ UpdateHolder(t)
        PROVE  Replaces(t)
    BY <2>2 DEF RemoveReference, AddReference, UpdateHolder, Goes, Replaces
  <2>3. ASSUME NEW t \in Tasks,
               LookForReferences(t) \/ RemoveObject(t) \/ SoftDelete(t)
        PROVE  ~Replaces(t)
    BY <2>3 DEF LookForReferences, RemoveObject, SoftDelete, Goes, Replaces
  <2>4. \A t \in Tasks, f \in Files : FindByUUID(t, f) => UNCHANGED use
    BY DEF FindByUUID
  <2> QED  BY <1>2, <1>3, <1>4, <1>5, <1>8, <1>9, <2>1, <2>2, <2>3, <2>4
           DEF FilesNext
<1>10. ASSUME NEW t \in Tasks, Confirm(t) \/ Cancel(t) \/ Decide(t)
       PROVE  Goal
  <2>1. ~Replaces(t) /\ (status' = status \/ status' # "initialized")
    BY <1>10 DEF Confirm, Cancel, Decide, Transition, Goes, Replaces
  <2> QED  BY <1>3, <1>10, <2>1
<1>11. ASSUME NEW t \in Tasks, TaskFails(t), UNCHANGED application PROVE Goal
  BY <1>3, <1>5, <1>11 DEF application
<1>12. ASSUME NEW t \in Tasks, NEW front \in Files, NEW back \in Files,
              Submit(t, front, back)
       PROVE  Goal
  BY <1>2, <1>12 DEF Submit, application
<1>13. CASE UNCHANGED vars
  BY <1>1, <1>13 DEF vars, filesVars, application
<1> QED  BY <1>6, <1>7, <1>9, <1>10, <1>11, <1>12, <1>13 DEF Next

(* ReferencesFollowUse: for any number of requests the references of a     *)
(* file agree with its use once nobody is at work on it, unless a call     *)
(* failed or two requests replaced one file together.                      *)
THEOREM ReferencesCorrect == Spec => []ReferencesFollowUse
<1>1. ReferencesInvariant => ReferencesFollowUse
  BY DEF ReferencesInvariant, ReferencesFollowUse, ReplacedInOrder, RefsOf,
         InUse
<1> QED  BY <1>1, ReferencesInit, ReferencesStep, PTL DEF Spec
=============================================================================

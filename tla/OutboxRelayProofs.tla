------------------------- MODULE OutboxRelayProofs -------------------------
(***************************************************************************)
(* Proofs about OutboxRelay, for any events, keys and partitions, any      *)
(* number of relays and crashes, and any batch size.                       *)
(***************************************************************************)
EXTENDS OutboxRelay, FiniteSetTheorems, TLAPS

(* How the columns of a row fit together: a parked row, and no other, has  *)
(* used up its attempts.                                                   *)
RowsConsistent ==
    \A e \in Events :
        /\ status[e] \in {"none", "pending"} =>
              attempts[e] = 0 /\ retry[e] = "due"
        /\ status[e] = "sent" => retry[e] = "due"
        /\ status[e] = "failed" =>
              (retry[e] = "never" <=> attempts[e] = MaxAttempts)

(* The client has results outstanding for claimed rows only.               *)
OpenIsClaimed == \A r \in Relays : relay[r].open \subseteq relay[r].batch

(* The inductive invariant.                                                *)
Inductive == TypeOK /\ RowsConsistent /\ OpenIsClaimed /\ ClaimsAreExclusive

-----------------------------------------------------------------------------
LEMMA InductiveInit == Init => Inductive
<1> SUFFICES ASSUME Init PROVE Inductive
  OBVIOUS
<1>1. /\ MaxAttempts \in Nat /\ MaxAttempts > 0 /\ MaxCrashes \in Nat
  BY OutboxAssumption
<1>2. Idle \in RelayState
  BY DEF Idle, RelayState
<1>3. TypeOK
  BY <1>1, <1>2 DEF Init, TypeOK
<1>4. RowsConsistent /\ OpenIsClaimed /\ ClaimsAreExclusive
  BY DEF Init, RowsConsistent, OpenIsClaimed, ClaimsAreExclusive, Idle
<1> QED  BY <1>3, <1>4 DEF Inductive

(* What the actions of one run do to its record.                           *)
LEMMA RelayHolds ==
  ASSUME TypeOK, NEW r \in Relays
  PROVE  /\ relay[r] \in RelayState
         /\ \A s \in Relays, state \in RelayState :
              [relay EXCEPT ![r] = state][s] =
                IF s = r THEN state ELSE relay[s]
  BY DEF TypeOK

(* A list of results that gets one more remains one.                       *)
LEMMA AppendTyped ==
  ASSUME NEW T, NEW list \in Seq(T), NEW entry \in T
  PROVE  Append(list, entry) \in Seq(T)
  OBVIOUS

(* A step of a run that leaves the rows alone and its claim as it was.     *)
LEMMA SameClaims ==
  ASSUME Inductive, UNCHANGED <<status, attempts, retry>>,
         \A r \in Relays : relay'[r].batch \subseteq relay[r].batch
  PROVE  ClaimsAreExclusive' /\ RowsConsistent'
  BY DEF Inductive, ClaimsAreExclusive, RowsConsistent, Deliverable

LEMMA ClaimStep ==
  ASSUME Inductive, NEW r \in Relays, Claim(r)
  PROVE  Inductive'
<1> DEFINE free == {e \in Events : Deliverable(e) /\ ~Locked(e)}
           batch == {e \in free : Position(e, free) <= BatchSize}
           claim == [Idle EXCEPT !.batch = batch, !.open = batch]
<1>0. TypeOK /\ RowsConsistent /\ OpenIsClaimed /\ ClaimsAreExclusive
  BY DEF Inductive
<1>1. /\ relay' = [relay EXCEPT ![r] = claim]
      /\ UNCHANGED <<status, attempts, retry, log, crashes>>
  BY DEF Claim
<1>3. batch \subseteq Events /\ batch \subseteq free
  OBVIOUS
<1>4. \A e \in batch : Deliverable(e) /\ ~Locked(e)
  OBVIOUS
<1> HIDE DEF batch, free
<1>2. claim.batch = batch /\ claim.open = batch
  BY DEF Idle
<1>5. claim \in RelayState
  <2>1. Idle \in RelayState
    BY DEF Idle, RelayState
  <2> QED  BY <1>3, <2>1 DEF RelayState
<1>6. /\ relay'[r] = claim
      /\ \A s \in Relays : s # r => relay'[s] = relay[s]
  BY <1>0, <1>1 DEF TypeOK
<1>7. TypeOK'
  BY <1>0, <1>1, <1>5 DEF TypeOK
<1>8. RowsConsistent'
  BY <1>0, <1>1 DEF RowsConsistent
<1>9. OpenIsClaimed'
  BY <1>0, <1>2, <1>6 DEF OpenIsClaimed
<1>10. \A e \in batch : attempts[e] < MaxAttempts
  <2> TAKE e \in batch
  <2>1. e \in Events /\ Deliverable(e)
    BY <1>3, <1>4
  <2>2. attempts[e] \in 0..MaxAttempts
    BY <1>0, <2>1 DEF TypeOK
  <2>3. attempts[e] # MaxAttempts
    BY <1>0, <2>1, OutboxAssumption DEF RowsConsistent, Deliverable
  <2> QED  BY <2>2, <2>3, OutboxAssumption
<1>11. \A s \in Relays : s # r => relay'[s].batch \cap batch = {}
  BY <1>4, <1>6 DEF Locked
<1>12. relay'[r].batch = batch
  BY <1>2, <1>6
<1>13. \A e : Deliverable(e)' <=> Deliverable(e)
  BY <1>1 DEF Deliverable
<1>14. ClaimsAreExclusive'
  <2>1. ASSUME NEW s \in Relays, NEW t \in Relays, s # t
        PROVE  relay'[s].batch \cap relay'[t].batch = {}
    BY <1>0, <1>6, <1>11, <1>12, <2>1 DEF ClaimsAreExclusive
  <2>2. ASSUME NEW s \in Relays, NEW e \in relay'[s].batch
        PROVE  Deliverable(e)' /\ attempts'[e] < MaxAttempts
    BY <1>0, <1>1, <1>4, <1>6, <1>10, <1>12, <1>13, <2>2
    DEF ClaimsAreExclusive
  <2> QED  BY <2>1, <2>2 DEF ClaimsAreExclusive
<1> QED  BY <1>7, <1>8, <1>9, <1>14 DEF Inductive

LEMMA PublishStep ==
  ASSUME Inductive, NEW r \in Relays, NEW e \in Events,
         Store(r, e) \/ \E ok \in BOOLEAN : Finish(r, e, ok)
  PROVE  Inductive'
<1>0. TypeOK /\ OpenIsClaimed /\ relay[r] \in RelayState
  BY RelayHolds DEF Inductive
<1>1. CASE Store(r, e)
  <2>1. relay' = [relay EXCEPT ![r].stored = relay[r].stored \cup {e}]
    BY <1>1 DEF Store
  <2>2. [relay[r] EXCEPT !.stored = relay[r].stored \cup {e}] \in RelayState
    BY <1>0 DEF RelayState
  <2>3. log' \in [Partitions -> SUBSET Events]
    <3>1. Place(e) \in Partitions
      BY OutboxAssumption DEF Place
    <3> QED  BY <1>0, <1>1, <3>1 DEF Store, TypeOK
  <2>4. UNCHANGED <<status, attempts, retry, crashes>>
    BY <1>1 DEF Store
  <2>5. TypeOK'
    BY <1>0, <2>1, <2>2, <2>3, <2>4 DEF TypeOK
  <2>6. \A s \in Relays : /\ relay'[s].batch = relay[s].batch
                          /\ relay'[s].open = relay[s].open
    BY <1>0, <2>1 DEF TypeOK, RelayState
  <2> QED
    BY <1>0, <2>4, <2>5, <2>6, SameClaims DEF Inductive, OpenIsClaimed
<1>2. ASSUME NEW ok \in BOOLEAN, Finish(r, e, ok)
      PROVE  Inductive'
  <2>1. relay' = [relay EXCEPT ![r].open = relay[r].open \ {e},
                               ![r].results = Append(relay[r].results, ok)]
    BY <1>2 DEF Finish
  <2>2. [relay[r] EXCEPT !.open = relay[r].open \ {e},
                         !.results = Append(relay[r].results, ok)]
          \in RelayState
    <3>1. Append(relay[r].results, ok) \in Seq(BOOLEAN)
      BY <1>0, <1>2, AppendTyped DEF RelayState
    <3> QED  BY <1>0, <3>1 DEF RelayState
  <2>3. UNCHANGED <<status, attempts, retry, log, crashes>>
    BY <1>2 DEF Finish
  <2>4. TypeOK'
    BY <1>0, <2>1, <2>2, <2>3 DEF TypeOK
  <2>5. \A s \in Relays : /\ relay'[s].batch = relay[s].batch
                          /\ relay'[s].open \subseteq relay[s].open
    BY <1>0, <2>1 DEF TypeOK, RelayState
  <2> QED
    BY <1>0, <2>3, <2>4, <2>5, SameClaims DEF Inductive, OpenIsClaimed
<1> QED  BY <1>1, <1>2

LEMMA RecordStep ==
  ASSUME Inductive, NEW r \in Relays, Record(r)
  PROVE  Inductive'
<1> DEFINE batch == relay[r].batch
<1>0. TypeOK /\ RowsConsistent /\ OpenIsClaimed /\ ClaimsAreExclusive
  BY DEF Inductive
<1>1. /\ relay' = [relay EXCEPT ![r] = Idle]
      /\ UNCHANGED <<log, crashes>>
  BY DEF Record
<1>2. /\ relay'[r] = Idle
      /\ \A s \in Relays : s # r => relay'[s] = relay[s]
  BY <1>0, <1>1 DEF TypeOK
<1>3. Idle \in RelayState /\ Idle.batch = {} /\ Idle.open = {}
  BY DEF Idle, RelayState
<1>4. \A e \in batch : attempts[e] < MaxAttempts /\ Deliverable(e)
  BY <1>0 DEF ClaimsAreExclusive
<1>5. MaxAttempts \in Nat
  BY OutboxAssumption
<1>6. ASSUME NEW e \in Events
      PROVE  \/ /\ e \notin batch
                /\ <<status[e], attempts[e], retry[e]>>' =
                      <<status[e], attempts[e], retry[e]>>
             \/ /\ e \in batch
                /\ status'[e] = "sent"
                /\ attempts'[e] = attempts[e] /\ retry'[e] = retry[e]
             \/ /\ e \in batch
                /\ status'[e] = "failed" /\ attempts'[e] = attempts[e] + 1
                /\ retry'[e] = NextRetry(attempts[e] + 1)
  BY DEF Record
<1>7. ASSUME NEW e \in Events
      PROVE  /\ status'[e] \in {"none", "pending", "failed", "sent"}
             /\ attempts'[e] \in 0..MaxAttempts
             /\ retry'[e] \in {"due", "later", "never"}
  <2>1. /\ status[e] \in {"none", "pending", "failed", "sent"}
        /\ attempts[e] \in 0..MaxAttempts
        /\ retry[e] \in {"due", "later", "never"}
    BY <1>0 DEF TypeOK
  <2> QED  BY <1>4, <1>5, <1>6, <2>1 DEF NextRetry
<1>8. TypeOK'
  <2>1. /\ status' = [e \in Events |-> status'[e]]
        /\ attempts' = [e \in Events |-> attempts'[e]]
        /\ retry' = [e \in Events |-> retry'[e]]
    BY DEF Record
  <2> QED  BY <1>0, <1>1, <1>3, <1>7, <2>1 DEF TypeOK
<1>9. RowsConsistent'
  <2> SUFFICES ASSUME NEW e \in Events
               PROVE  /\ status'[e] \in {"none", "pending"} =>
                            attempts'[e] = 0 /\ retry'[e] = "due"
                      /\ status'[e] = "sent" => retry'[e] = "due"
                      /\ status'[e] = "failed" =>
                            (retry'[e] = "never" <=>
                               attempts'[e] = MaxAttempts)
    BY DEF RowsConsistent
  <2>1. attempts[e] \in 0..MaxAttempts
    BY <1>0 DEF TypeOK
  <2> QED
    BY <1>0, <1>4, <1>5, <1>6, <2>1 DEF RowsConsistent, NextRetry, Deliverable
<1>10. OpenIsClaimed'
  BY <1>0, <1>2, <1>3 DEF OpenIsClaimed
<1>11. ClaimsAreExclusive'
  <2>1. ASSUME NEW s \in Relays, NEW t \in Relays, s # t
        PROVE  relay'[s].batch \cap relay'[t].batch = {}
    BY <1>0, <1>2, <1>3, <2>1 DEF ClaimsAreExclusive
  <2>2. ASSUME NEW s \in Relays, NEW e \in relay'[s].batch
        PROVE  Deliverable(e)' /\ attempts'[e] < MaxAttempts
    <3>1. s # r /\ e \in relay[s].batch
      BY <1>2, <1>3, <2>2
    <3>2. e \in Events /\ e \notin batch
      BY <1>0, <3>1 DEF ClaimsAreExclusive, TypeOK, RelayState
    <3>3. <<status[e], attempts[e], retry[e]>>' =
            <<status[e], attempts[e], retry[e]>>
      BY <1>6, <3>2
    <3> QED  BY <1>0, <3>1, <3>3 DEF ClaimsAreExclusive, Deliverable
  <2> QED  BY <2>1, <2>2 DEF ClaimsAreExclusive
<1> QED  BY <1>8, <1>9, <1>10, <1>11 DEF Inductive

LEMMA CrashStep ==
  ASSUME Inductive, NEW r \in Relays, Crash(r)
  PROVE  Inductive'
<1>0. TypeOK /\ OpenIsClaimed
  BY DEF Inductive
<1>1. /\ relay' = [relay EXCEPT ![r] = Idle]
      /\ UNCHANGED <<status, attempts, retry, log>>
      /\ crashes' \in 0..MaxCrashes
  BY <1>0, OutboxAssumption DEF Crash, TypeOK
<1>2. Idle \in RelayState /\ Idle.batch = {} /\ Idle.open = {}
  BY DEF Idle, RelayState
<1>3. \A s \in Relays : /\ relay'[s].batch \subseteq relay[s].batch
                        /\ relay'[s].open \subseteq relay'[s].batch
  BY <1>0, <1>1, <1>2 DEF TypeOK, OpenIsClaimed
<1>4. TypeOK'
  BY <1>0, <1>1, <1>2 DEF TypeOK
<1> QED  BY <1>1, <1>3, <1>4, SameClaims DEF Inductive, OpenIsClaimed

(* A change of a row no run has claimed.                                   *)
LEMMA UnclaimedStep ==
  ASSUME Inductive, NEW e \in Events, Enqueue(e) \/ BackoffEnds(e)
  PROVE  Inductive'
<1>0. TypeOK /\ RowsConsistent /\ OpenIsClaimed /\ ClaimsAreExclusive
  BY DEF Inductive
<1>1. UNCHANGED <<attempts, log, relay, crashes>>
  BY DEF Enqueue, BackoffEnds
<1>2. /\ status'[e] = IF Enqueue(e) THEN "pending" ELSE status[e]
      /\ retry'[e] = "due"
      /\ \A x \in Events : x # e => status'[x] = status[x] /\ retry'[x] = retry[x]
  BY <1>0 DEF Enqueue, BackoffEnds, TypeOK, RowsConsistent
<1>3. TypeOK'
  BY <1>0, <1>1 DEF Enqueue, BackoffEnds, TypeOK
<1>4. /\ Enqueue(e) => status[e] = "none"
      /\ ~Enqueue(e) => retry[e] = "later" /\ status[e] = "failed"
  BY <1>0 DEF Enqueue, BackoffEnds, RowsConsistent, TypeOK
<1>5. RowsConsistent'
  BY <1>0, <1>1, <1>2, <1>4 DEF RowsConsistent
<1>6. ClaimsAreExclusive'
  <2>1. ASSUME NEW r \in Relays, NEW x \in relay[r].batch
        PROVE  x \in Events /\ x # e
    BY <1>0, <1>4 DEF ClaimsAreExclusive, Deliverable, TypeOK, RelayState
  <2> QED
    BY <1>0, <1>1, <1>2, <2>1 DEF ClaimsAreExclusive, Deliverable
<1> QED  BY <1>0, <1>1, <1>3, <1>5, <1>6 DEF Inductive, OpenIsClaimed

LEMMA InductiveStep == Inductive /\ [Next]_vars => Inductive'
<1> SUFFICES ASSUME Inductive, [Next]_vars
             PROVE  Inductive'
  OBVIOUS
<1>1. CASE UNCHANGED vars
  BY <1>1 DEF vars, Inductive, TypeOK, RowsConsistent, OpenIsClaimed,
     ClaimsAreExclusive, Deliverable
<1> QED
  BY <1>1, ClaimStep, PublishStep, RecordStep, CrashStep, UnclaimedStep
  DEF Next, RelayStep

LEMMA AlwaysInductive == Spec => []Inductive
  BY InductiveInit, InductiveStep, PTL DEF Spec

-----------------------------------------------------------------------------
(* Rows, partitions and runs are always well-typed; no row is tried more   *)
(* often than outboxMaxAttempts.                                           *)
THEOREM TypeCorrect == Spec => []TypeOK
<1>1. Inductive => TypeOK  BY DEF Inductive
<1> QED  BY <1>1, AlwaysInductive, PTL

(* Parallel relays never publish one event in two runs at a time.          *)
THEOREM ClaimsCorrect == Spec => []ClaimsAreExclusive
<1>1. Inductive => ClaimsAreExclusive  BY DEF Inductive
<1> QED  BY <1>1, AlwaysInductive, PTL

(* Sent and parked events are left alone for good.                         *)
THEOREM SettledCorrect == Spec => SettledStays
<1> DEFINE Alone ==
      \A e \in Events : Settled(e) =>
        /\ status[e] = "failed" => attempts[e] = MaxAttempts
        /\ <<status[e], attempts[e], retry[e]>>' =
              <<status[e], attempts[e], retry[e]>>
        /\ \A r \in Relays : e \notin relay'[r].batch
<1>1. ASSUME Inductive, Inductive', [Next]_vars
      PROVE  Alone
  <2> SUFFICES ASSUME NEW e \in Events, Settled(e)
               PROVE  /\ status[e] = "failed" => attempts[e] = MaxAttempts
                      /\ <<status[e], attempts[e], retry[e]>>' =
                            <<status[e], attempts[e], retry[e]>>
                      /\ \A r \in Relays : e \notin relay'[r].batch
    OBVIOUS
  <2>0. TypeOK /\ RowsConsistent /\ ClaimsAreExclusive /\ ClaimsAreExclusive'
    BY <1>1 DEF Inductive
  <2>1. status[e] = "failed" => attempts[e] = MaxAttempts
    BY <2>0 DEF Settled, Parked, RowsConsistent
  <2>2. ~Deliverable(e) /\ retry[e] # "later" /\ status[e] # "none"
    BY <2>0 DEF Settled, Parked, Deliverable, RowsConsistent
  <2>3. \A r \in Relays : e \notin relay[r].batch
    BY <2>0, <2>2, Zenon DEF ClaimsAreExclusive
  <2>4. <<status[e], attempts[e], retry[e]>>' =
          <<status[e], attempts[e], retry[e]>>
    <3>1. ASSUME NEW x \in Events, Enqueue(x) \/ BackoffEnds(x)
          PROVE  <<status[e], attempts[e], retry[e]>>' =
                    <<status[e], attempts[e], retry[e]>>
      BY <2>0, <2>2, <3>1 DEF Enqueue, BackoffEnds, TypeOK
    <3>2. ASSUME NEW r \in Relays, Record(r)
          PROVE  <<status[e], attempts[e], retry[e]>>' =
                    <<status[e], attempts[e], retry[e]>>
      BY <2>3, <3>2 DEF Record
    <3> QED
      BY <1>1, <3>1, <3>2, Zenon
      DEF Next, RelayStep, Claim, Store, Finish, Crash, vars
  <2>5. ~Deliverable(e)'
    BY <2>2, <2>4 DEF Deliverable
  <2>6. \A r \in Relays : e \notin relay'[r].batch
    BY <2>0, <2>5 DEF ClaimsAreExclusive
  <2> QED  BY <2>1, <2>4, <2>6
<1>2. Inductive /\ Inductive' /\ [Next]_vars => [Alone]_vars
  BY <1>1
<1> QED  BY <1>2, AlwaysInductive, PTL DEF Spec, SettledStays

-----------------------------------------------------------------------------
(* What is marked as sent is stored.                                       *)

(* Rows the client has a result for.                                       *)
Closed(run) == run.batch \ run.open

Acknowledged(run) == \A i \in DOMAIN run.results : run.results[i]

OnePartition(run) == \A e, f \in run.batch : Place(e) = Place(f)

(* Of one partition the results come in by the order of the batch, so that *)
(* the i-th is that of the i-th row.                                       *)
InOrder(run) ==
    /\ \A x \in Closed(run), y \in run.open : x < y
    /\ \A e \in Closed(run) :
          run.results[Position(e, run.batch)] => e \in run.stored

(* There is a result for each row that is closed, in some order.           *)
ResultsFit(run) ==
    /\ IsFiniteSet(Closed(run))
    /\ Len(run.results) = Cardinality(Closed(run))
    /\ Acknowledged(run) => Closed(run) \subseteq run.stored
    /\ OnePartition(run) => InOrder(run)

AllFit == \A r \in Relays : ResultsFit(relay[r])

(* What a run believes stored is.                                          *)
RunsAreRight ==
    \A r \in Relays : \A e \in relay[r].stored :
        e \in Events /\ e \in log[Place(e)]

SentInductive == AllFit /\ RunsAreRight

LEMMA EmptyRun ==
  /\ Closed(Idle) = {} /\ Idle.open = {} /\ Idle.stored = {}
  /\ Len(Idle.results) = 0 /\ Idle.batch = {}
  BY DEF Closed, Idle

(* The rows up to one of a batch are finitely many.                        *)
LEMMA PositionCounts ==
  ASSUME NEW S, S \subseteq Nat, NEW e \in S
  PROVE  /\ IsFiniteSet({x \in S : x <= e})
         /\ Position(e, S) \in Nat \ {0}
<1> DEFINE upTo == {x \in S : x <= e}
<1>0. e \in Nat /\ \A x \in S : x \in Nat
  OBVIOUS
<1>a. \A x \in Nat : x <= e => x \in 0..e
  BY <1>0
<1>b. IsFiniteSet(0..e)
  BY <1>0, FS_Interval
<1>1. upTo \subseteq 0..e /\ IsFiniteSet(0..e)
  BY <1>0, <1>a, <1>b
<1>2. IsFiniteSet(upTo)
  BY <1>1, FS_Subset
<1>3. e \in upTo
  OBVIOUS
<1> HIDE DEF upTo
<1>4. Cardinality(upTo) \in Nat \ {0}
  BY <1>2, <1>3, FS_CardinalityType, FS_EmptySet
<1> QED  BY <1>2, <1>4 DEF Position, upTo

(* A row of the run that has a result has one of the results so far.       *)
LEMMA PositionOfClosed ==
  ASSUME NEW run, run.batch \subseteq Nat, run.open \subseteq run.batch,
         \A x \in Closed(run), y \in run.open : x < y,
         IsFiniteSet(Closed(run)), NEW e \in Closed(run)
  PROVE  Position(e, run.batch) \in 1..Cardinality(Closed(run))
<1> DEFINE upTo == {x \in run.batch : x <= e}
<1>1. upTo \subseteq Closed(run)
  <2>1. ASSUME NEW x \in run.batch, x <= e
        PROVE  x \notin run.open
    <3>1. x \in run.open => e < x /\ x \in Nat /\ e \in Nat
      BY DEF Closed
    <3> QED  BY <2>1, <3>1
  <2> QED  BY <2>1 DEF Closed
<1>2. Cardinality(upTo) <= Cardinality(Closed(run))
  BY <1>1, FS_Subset
<1>3. Position(e, run.batch) \in Nat \ {0}
  BY PositionCounts DEF Closed
<1>4. Cardinality(Closed(run)) \in Nat
  BY FS_CardinalityType
<1> QED  BY <1>2, <1>3, <1>4 DEF Position

LEMMA LogGrows ==
  ASSUME TypeOK, NEW e \in Events, log' = [log EXCEPT ![Place(e)] = @ \cup {e}]
  PROVE  /\ \A p \in Partitions : log[p] \subseteq log'[p]
         /\ e \in log'[Place(e)]
<1>1. Place(e) \in Partitions
  BY OutboxAssumption DEF Place
<1> QED  BY <1>1 DEF TypeOK

(* Whatever the broker stores, and of whatever row the client hears next.  *)
LEMMA StoringFits ==
  ASSUME NEW run \in RelayState, NEW e, ResultsFit(run)
  PROVE  ResultsFit([run EXCEPT !.stored = @ \cup {e}])
<1> DEFINE new == [run EXCEPT !.stored = @ \cup {e}]
<1>1. /\ new.batch = run.batch /\ new.open = run.open
      /\ new.results = run.results /\ run.stored \subseteq new.stored
  BY DEF RelayState
<1> HIDE DEF new
<1>2. /\ Closed(new) = Closed(run) /\ OnePartition(new) = OnePartition(run)
      /\ Acknowledged(new) = Acknowledged(run)
  BY <1>1 DEF Closed, OnePartition, Acknowledged
<1>3. InOrder(run) => InOrder(new)
  BY <1>1, <1>2 DEF InOrder
<1>4. ResultsFit(new)
  BY <1>1, <1>2, <1>3 DEF ResultsFit
<1> QED  BY <1>4 DEF new

LEMMA AnsweringFits ==
  ASSUME NEW run \in RelayState, NEW e \in run.open, NEW ok \in BOOLEAN,
         run.open \subseteq run.batch,
         FirstOf(e, run.open), ok => e \in run.stored, ResultsFit(run)
  PROVE  ResultsFit([run EXCEPT !.open = @ \ {e}, !.results = Append(@, ok)])
<1> DEFINE new == [run EXCEPT !.open = @ \ {e}, !.results = Append(@, ok)]
<1>1. /\ new.batch = run.batch /\ new.open = run.open \ {e}
      /\ new.results = Append(run.results, ok) /\ new.stored = run.stored
  BY DEF RelayState
<1>2. /\ run.batch \subseteq Nat /\ run.results \in Seq(BOOLEAN)
      /\ run.open \subseteq run.batch
  BY OutboxAssumption DEF RelayState
<1> HIDE DEF new
<1>3. Closed(new) = Closed(run) \cup {e} /\ e \notin Closed(run)
  BY <1>1, <1>2 DEF Closed
<1>4. /\ IsFiniteSet(Closed(run)) /\ Cardinality(Closed(run)) \in Nat
      /\ Len(run.results) = Cardinality(Closed(run))
  BY FS_CardinalityType DEF ResultsFit
<1>5. /\ IsFiniteSet(Closed(new))
      /\ Cardinality(Closed(new)) = Cardinality(Closed(run)) + 1
  BY <1>3, <1>4, FS_AddElement
<1>6. Len(new.results) = Cardinality(Closed(new))
  BY <1>1, <1>2, <1>4, <1>5
<1>7. ASSUME Acknowledged(new)
      PROVE  Closed(new) \subseteq new.stored
  <2>1. /\ new.results[Len(run.results) + 1] = ok
        /\ \A i \in DOMAIN run.results : new.results[i] = run.results[i]
        /\ DOMAIN new.results = 1..(Len(run.results) + 1)
        /\ DOMAIN run.results = 1..Len(run.results)
    BY <1>1, <1>2
  <2>2. ok /\ Acknowledged(run)
    BY <1>4, <1>7, <2>1 DEF Acknowledged
  <2> QED  BY <1>1, <1>3, <2>2 DEF ResultsFit
<1>8. ASSUME OnePartition(new)
      PROVE  InOrder(new)
  <2>1. InOrder(run) /\ \A x, y \in run.batch : Place(x) = Place(y)
    BY <1>1, <1>8 DEF OnePartition, ResultsFit
  <2>2. \A y \in run.open : y # e => e < y
    BY <1>2, <2>1 DEF FirstOf
  <2>3. \A x \in Closed(run), y \in run.open : x < y
    BY <2>1 DEF InOrder
  <2>4. \A x \in Closed(new), y \in new.open : x < y
    BY <1>1, <1>3, <2>2, <2>3
  <2>5. Position(e, run.batch) = Cardinality(Closed(run)) + 1
    <3>1. {x \in run.batch : x <= e} = Closed(run) \cup {e}
      <4>1. ASSUME NEW x \in Closed(run)
            PROVE  x \in run.batch /\ x <= e
        BY <1>2, <2>3 DEF Closed
      <4>2. ASSUME NEW x \in run.batch, x <= e, x \notin Closed(run)
            PROVE  x = e
        BY <1>2, <2>2, <4>2 DEF Closed
      <4>3. e \in run.batch /\ e <= e
        BY <1>2
      <4> QED  BY <4>1, <4>2, <4>3
    <3> QED  BY <1>3, <1>5, <3>1 DEF Position
  <2>6. ASSUME NEW x \in Closed(new), new.results[Position(x, new.batch)]
        PROVE  x \in new.stored
    <3>1. CASE x = e
      <4>1. new.results[Position(e, new.batch)] = ok
        BY <1>1, <1>2, <1>4, <2>5
      <4> QED  BY <1>1, <2>6, <3>1, <4>1
    <3>2. CASE x # e
      <4>1. x \in Closed(run)
        BY <1>3, <3>2
      <4>2. Position(x, run.batch) \in 1..Cardinality(Closed(run))
        BY <1>2, <1>4, <2>3, <4>1, PositionOfClosed
      <4>3. new.results[Position(x, new.batch)] =
              run.results[Position(x, run.batch)]
        BY <1>1, <1>2, <1>4, <4>2
      <4> QED  BY <1>1, <2>1, <2>6, <4>1, <4>3 DEF InOrder
    <3> QED  BY <3>1, <3>2
  <2> QED  BY <2>4, <2>6 DEF InOrder
<1>9. ResultsFit(new)
  BY <1>5, <1>6, <1>7, <1>8 DEF ResultsFit
<1> QED  BY <1>9 DEF new

LEMMA FreshRunFits ==
  ASSUME NEW run, run.open = run.batch, run.results = << >>
  PROVE  ResultsFit(run)
<1>1. Closed(run) = {}
  BY DEF Closed
<1> QED  BY <1>1, FS_EmptySet DEF ResultsFit, InOrder

LEMMA SentInit == Init => SentInductive
<1> SUFFICES ASSUME Init PROVE SentInductive
  OBVIOUS
<1>1. AllFit
  BY FreshRunFits DEF Init, Idle, AllFit
<1>2. RunsAreRight
  BY EmptyRun DEF Init, RunsAreRight
<1> QED  BY <1>1, <1>2 DEF SentInductive

LEMMA SentStep ==
  ASSUME Inductive, SentInductive, [Next]_vars
  PROVE  SentInductive'
<1>0. /\ TypeOK /\ OpenIsClaimed /\ RunsAreRight
      /\ \A r \in Relays : relay[r] \in RelayState /\ ResultsFit(relay[r])
  BY DEF Inductive, SentInductive, TypeOK, AllFit
<1>a. ASSUME NEW r \in Relays, NEW new, relay' = [relay EXCEPT ![r] = new],
             ResultsFit(new)
      PROVE  AllFit'
  <2>1. \A s \in Relays : ResultsFit(relay'[s])
    BY <1>0, <1>a DEF TypeOK
  <2> QED
    BY <2>1 DEF AllFit, ResultsFit, InOrder, Acknowledged, OnePartition, Closed
<1>b. ASSUME UNCHANGED relay
      PROVE  AllFit'
  BY <1>b DEF SentInductive, AllFit, ResultsFit, InOrder, Acknowledged,
     OnePartition, Closed
<1>c. ASSUME UNCHANGED log,
             \A r \in Relays : relay'[r].stored \subseteq relay[r].stored
      PROVE  RunsAreRight'
  BY <1>0, <1>c DEF RunsAreRight
<1>1. ASSUME NEW e \in Events, Enqueue(e) \/ BackoffEnds(e)
      PROVE  SentInductive'
  <2>1. UNCHANGED <<log, relay>>
    BY <1>1 DEF Enqueue, BackoffEnds
  <2> QED  BY <1>b, <1>c, <2>1 DEF SentInductive
<1>2. ASSUME NEW r \in Relays, Claim(r)
      PROVE  SentInductive'
  <2>1. PICK batch : relay' = [relay EXCEPT ![r] =
                                [Idle EXCEPT !.batch = batch, !.open = batch]]
    BY <1>2 DEF Claim
  <2> DEFINE new == [Idle EXCEPT !.batch = batch, !.open = batch]
  <2>2. /\ new.open = new.batch /\ new.results = << >> /\ new.stored = {}
    BY DEF Idle
  <2>3. UNCHANGED log
    BY <1>2 DEF Claim
  <2> HIDE DEF new
  <2>4. AllFit'
    BY <1>a, <2>1, <2>2, FreshRunFits DEF new
  <2>5. \A s \in Relays : relay'[s].stored \subseteq relay[s].stored
    BY <1>0, <2>1, <2>2 DEF TypeOK, new
  <2> QED  BY <1>c, <2>3, <2>4, <2>5 DEF SentInductive
<1>3. ASSUME NEW r \in Relays, NEW e \in Events, Store(r, e)
      PROVE  SentInductive'
  <2>1. /\ relay' = [relay EXCEPT ![r] = [relay[r] EXCEPT !.stored = @ \cup {e}]]
        /\ log' = [log EXCEPT ![Place(e)] = @ \cup {e}]
    BY <1>3 DEF Store
  <2>2. AllFit'
    BY <1>0, <1>a, <2>1, StoringFits
  <2>3. \A p \in Partitions : log[p] \subseteq log'[p]
    BY <1>0, <2>1, LogGrows
  <2>4. \A x \in Events : Place(x) \in Partitions
    BY OutboxAssumption DEF Place
  <2>5. \A s \in Relays : relay'[s].stored \subseteq relay[s].stored \cup {e}
    BY <1>0, <2>1 DEF TypeOK, RelayState
  <2>6. RunsAreRight'
    <3> SUFFICES ASSUME NEW s \in Relays, NEW x \in relay'[s].stored
                 PROVE  x \in Events /\ x \in log'[Place(x)]
      BY DEF RunsAreRight
    <3>1. CASE x = e
      BY <1>0, <2>1, <3>1, LogGrows
    <3>2. CASE x # e
      BY <1>0, <2>3, <2>4, <2>5, <3>2 DEF RunsAreRight
    <3> QED  BY <3>1, <3>2
  <2> QED  BY <2>2, <2>6 DEF SentInductive
<1>4. ASSUME NEW r \in Relays, NEW e \in Events, NEW ok \in BOOLEAN,
             Finish(r, e, ok)
      PROVE  SentInductive'
  <2> DEFINE new == [relay[r] EXCEPT !.open = @ \ {e}, !.results = Append(@, ok)]
  <2>1. /\ relay' = [relay EXCEPT ![r] = new] /\ UNCHANGED log
        /\ e \in relay[r].open /\ FirstOf(e, relay[r].open)
        /\ ok => e \in relay[r].stored
    BY <1>4 DEF Finish
  <2>2. ResultsFit(new)
    BY <1>0, <2>1, AnsweringFits DEF OpenIsClaimed
  <2>3. new.stored = relay[r].stored
    BY <1>0 DEF RelayState
  <2> HIDE DEF new
  <2>4. \A s \in Relays : relay'[s].stored \subseteq relay[s].stored
    BY <1>0, <2>1, <2>3 DEF TypeOK
  <2> QED  BY <1>a, <1>c, <2>1, <2>2, <2>4 DEF SentInductive
<1>5. ASSUME NEW r \in Relays, Record(r) \/ Crash(r)
      PROVE  SentInductive'
  <2>1. relay' = [relay EXCEPT ![r] = Idle] /\ UNCHANGED log
    BY <1>5 DEF Record, Crash
  <2>2. ResultsFit(Idle)
    BY FreshRunFits DEF Idle
  <2>3. \A s \in Relays : relay'[s].stored \subseteq relay[s].stored
    BY <1>0, <2>1, EmptyRun DEF TypeOK
  <2> QED  BY <1>a, <1>c, <2>1, <2>2, <2>3 DEF SentInductive
<1>6. CASE UNCHANGED vars
  BY <1>6, <1>b, <1>c DEF vars, SentInductive
<1> QED
  BY <1>1, <1>2, <1>3, <1>4, <1>5, <1>6 DEF Next, RelayStep

(* At least once, for any events, keys and partitions and batches of any   *)
(* mixture: a run marks a row as sent only if it is in Kafka, whoever else *)
(* runs, crashes or loses an acknowledgement, except in a run with a failed*)
(* result among rows of several partitions (ResultsMatchInput).            *)
THEOREM SentCorrect == Spec => SentMeansStored
<1> DEFINE Marked(r, e) ==
      status'[e] = "sent" => e \in log[Place(e)] \/ Garbled(r)
<1>1. ASSUME Inductive, SentInductive, [Next]_vars,
             NEW r \in Relays, NEW e \in relay[r].batch
      PROVE  Marked(r, e)
  <2>0. /\ TypeOK /\ ClaimsAreExclusive /\ RunsAreRight
        /\ relay[r] \in RelayState /\ ResultsFit(relay[r])
    BY <1>1 DEF Inductive, SentInductive, TypeOK, AllFit
  <2>1. e \in Events /\ status[e] # "sent"
    BY <1>1, <2>0 DEF ClaimsAreExclusive, Deliverable, RelayState
  <2>2. ASSUME NEW x \in Events, Enqueue(x) \/ BackoffEnds(x)
        PROVE  status'[e] # "sent"
    BY <2>0, <2>1, <2>2 DEF Enqueue, BackoffEnds, TypeOK
  <2>3. ASSUME NEW s \in Relays, s # r, Record(s)
        PROVE  status'[e] # "sent"
    <3>1. e \notin relay[s].batch
      BY <1>1, <2>0, <2>3 DEF ClaimsAreExclusive
    <3> QED  BY <2>1, <2>3, <3>1 DEF Record
  <2>4. ASSUME Record(r), status'[e] = "sent", ~Garbled(r)
        PROVE  e \in log[Place(e)]
    <3>1. Published(r, e) /\ e \in Closed(relay[r])
      BY <2>1, <2>4 DEF Record, Closed
    <3>2. CASE Acknowledged(relay[r])
      BY <2>0, <3>1, <3>2 DEF ResultsFit, RunsAreRight
    <3>3. CASE OnePartition(relay[r])
      BY <2>0, <3>1, <3>3 DEF ResultsFit, InOrder, Published, RunsAreRight
    <3> QED  BY <2>4, <3>2, <3>3 DEF Garbled, Acknowledged, OnePartition
  <2> QED
    BY <1>1, <2>1, <2>2, <2>3, <2>4
    DEF Next, RelayStep, Claim, Store, Finish, Crash, vars
<1>2. Inductive /\ SentInductive /\ [Next]_vars =>
          [\A r \in Relays : \A e \in relay[r].batch : Marked(r, e)]_vars
  BY <1>1
<1> QED
  BY <1>2, AlwaysInductive, SentInit, SentStep, PTL DEF Spec, SentMeansStored
=============================================================================

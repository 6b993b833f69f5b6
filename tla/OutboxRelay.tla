---------------------------- MODULE OutboxRelay ----------------------------
(***************************************************************************)
(* The relay that carries outbox_events to Kafka.                          *)
(*                                                                         *)
(* Every server instance runs it on a timer. A run claims a batch of rows  *)
(* with SELECT ... FOR UPDATE SKIP LOCKED, publishes it while it holds the *)
(* locks, and records what became of each row before it commits. A crash   *)
(* releases the locks and forgets the outcome, not what the broker stored. *)
(***************************************************************************)
EXTENDS Integers, Sequences, FiniteSets

CONSTANTS
    Events,       \* outbox rows, numbered by their auto-increment ids
    Keys,         \* partition keys: the entities the events are about
    KeyOf,        \* the key of each event
    Partitions,   \* partitions of the topics
    PartitionOf,  \* the partition a key hashes to
    Relays,       \* server instances (or overlapping ticks of one)
    BatchSize,    \* outboxBatchSize
    MaxAttempts,  \* outboxMaxAttempts
    MaxCrashes    \* bound: runs that crash or lose the database

ASSUME OutboxAssumption ==
    /\ Events \subseteq Nat
    /\ KeyOf \in [Events -> Keys]
    /\ PartitionOf \in [Keys -> Partitions]
    /\ {BatchSize, MaxAttempts} \subseteq Nat \ {0}
    /\ MaxCrashes \in Nat

VARIABLES
    status,    \* status of each row, "none": not yet inserted
    attempts,  \* retry_count
    retry,     \* next_retry_at: over (or none set), ahead, or never again
    log,       \* the events stored in each partition
    relay,     \* what each run has claimed and heard from the broker
    crashes    \* runs that were cut off

vars == <<status, attempts, retry, log, relay, crashes>>

Idle == [batch |-> {}, stored |-> {}, open |-> {}, results |-> <<>>]

RelayState ==
    [batch   : SUBSET Events,  \* claimed rows, in the order of their ids
     stored  : SUBSET Events,  \* those the broker has stored in this run
     open    : SUBSET Events,  \* those the client has no result for yet
     results : Seq(BOOLEAN)]   \* results as they came in, TRUE: acknowledged

TypeOK ==
    /\ status \in [Events -> {"none", "pending", "failed", "sent"}]
    /\ attempts \in [Events -> 0..MaxAttempts]
    /\ retry \in [Events -> {"due", "later", "never"}]
    /\ log \in [Partitions -> SUBSET Events]
    /\ relay \in [Relays -> RelayState]
    /\ crashes \in 0..MaxCrashes

Init ==
    /\ status = [e \in Events |-> "none"]
    /\ attempts = [e \in Events |-> 0]
    /\ retry = [e \in Events |-> "due"]
    /\ log = [p \in Partitions |-> {}]
    /\ relay = [r \in Relays |-> Idle]
    /\ crashes = 0

-----------------------------------------------------------------------------
Running(r) == relay[r] # Idle
Place(e) == PartitionOf[KeyOf[e]]

(* The i-th row of a batch is the one with i ids up to its own.            *)
Position(e, batch) == Cardinality({x \in batch : x <= e})

(* A business transaction commits an event. Transactions about one entity  *)
(* follow each other, those about different ones commit in any order.      *)
Enqueue(e) ==
    /\ status[e] = "none"
    /\ \A x \in Events :
          x < e /\ KeyOf[x] = KeyOf[e] => status[x] # "none"
    /\ status' = [status EXCEPT ![e] = "pending"]
    /\ UNCHANGED <<attempts, retry, log, relay, crashes>>

(* The definitions named ...Bug are faulty variants that mutation runs put *)
(* in place of the definition after them.                                  *)

DeliverableOnceBug(e) ==  \* failed rows forgotten
    status[e] = "pending" /\ retry[e] = "due"

(* The WHERE clause of the claim: pending and due, or failed with a next   *)
(* attempt that is due.                                                    *)
Deliverable(e) == status[e] \in {"pending", "failed"} /\ retry[e] = "due"

LockedBug(e) == FALSE  \* no FOR UPDATE

Locked(e) == \E r \in Relays : e \in relay[r].batch

Claim(r) ==
    LET free == {e \in Events : Deliverable(e) /\ ~Locked(e)}
        batch == {e \in free : Position(e, free) <= BatchSize}
    IN /\ ~Running(r)
       /\ batch # {}
       /\ relay' = [relay EXCEPT ![r] = [Idle EXCEPT !.batch = batch,
                                                     !.open = batch]]
       /\ UNCHANGED <<status, attempts, retry, log, crashes>>

-----------------------------------------------------------------------------
(* ProduceSync of the client library. Records of one partition are stored, *)
(* and their results come in, in the order they were handed over; between  *)
(* partitions there is no order, and the results are collected as they     *)
(* come in.                                                                *)
FirstOf(e, set) == \A x \in set : x < e => Place(x) # Place(e)

Store(r, e) ==
    LET missing == relay[r].open \ relay[r].stored
    IN /\ e \in missing /\ FirstOf(e, missing)
       /\ log' = [log EXCEPT ![Place(e)] = @ \cup {e}]
       /\ relay' = [relay EXCEPT ![r].stored = @ \cup {e}]
       /\ UNCHANGED <<status, attempts, retry, crashes>>

(* A stored record may fail all the same: the acknowledgement is lost or   *)
(* comes after the publish timeout.                                        *)
Finish(r, e, acknowledged) ==
    /\ e \in relay[r].open /\ FirstOf(e, relay[r].open)
    /\ acknowledged => e \in relay[r].stored
    /\ relay' = [relay EXCEPT ![r].open = @ \ {e},
                              ![r].results = Append(@, acknowledged)]
    /\ UNCHANGED <<status, attempts, retry, log, crashes>>

-----------------------------------------------------------------------------
PublishedBug(r, e) ==  \* one nil error and the batch is taken for sent
    \E i \in 1..Len(relay[r].results) : relay[r].results[i]

(* Publish and publishBatch pair the i-th result with the i-th row.        *)
Published(r, e) ==
    relay[r].results[Position(e, relay[r].batch)]

(* nextRetryAt                                                             *)
NextRetry(n) == IF n >= MaxAttempts THEN "never" ELSE "later"

(* Every row of the batch is marked, and the transaction commits.          *)
Record(r) ==
    /\ Running(r) /\ relay[r].open = {}
    /\ LET batch == relay[r].batch
           Failed(e) == e \in batch /\ ~Published(r, e)
       IN /\ status' = [e \in Events |->
                          IF e \notin batch THEN status[e]
                          ELSE IF Failed(e) THEN "failed" ELSE "sent"]
          /\ attempts' = [e \in Events |->
                            IF Failed(e) THEN attempts[e] + 1 ELSE attempts[e]]
          /\ retry' = [e \in Events |->
                         IF Failed(e) THEN NextRetry(attempts[e] + 1)
                                      ELSE retry[e]]
    /\ relay' = [relay EXCEPT ![r] = Idle]
    /\ UNCHANGED <<log, crashes>>

(* The instance crashes, a statement fails or the 30 seconds of the tick   *)
(* are over: the transaction is rolled back.                               *)
Crash(r) ==
    /\ Running(r) /\ crashes < MaxCrashes
    /\ relay' = [relay EXCEPT ![r] = Idle]
    /\ crashes' = crashes + 1
    /\ UNCHANGED <<status, attempts, retry, log>>

(* next_retry_at comes.                                                    *)
BackoffEnds(e) ==
    /\ retry[e] = "later"
    /\ retry' = [retry EXCEPT ![e] = "due"]
    /\ UNCHANGED <<status, attempts, log, relay, crashes>>

RelayStep(r) ==
    \/ Claim(r)
    \/ \E e \in Events : Store(r, e)
    \/ \E e \in Events, ok \in BOOLEAN : Finish(r, e, ok)
    \/ Record(r)

Next ==
    \/ \E e \in Events : Enqueue(e) \/ BackoffEnds(e)
    \/ \E r \in Relays : RelayStep(r) \/ Crash(r)

Spec == Init /\ [][Next]_vars

(* The timer starts run after run and runs do not hang: every call they    *)
(* make has a timeout.                                                     *)
FairSpec ==
    /\ Spec
    /\ \A r \in Relays : WF_vars(RelayStep(r))
    /\ \A e \in Events : WF_vars(BackoffEnds(e))

-----------------------------------------------------------------------------
(* Safety                                                                  *)

(* Parked: out of attempts, kept for the operators.                        *)
Parked(e) == status[e] = "failed" /\ retry[e] = "never"
Settled(e) == status[e] = "sent" \/ Parked(e)

(* Parallel instances publish disjoint batches, and what a run has claimed *)
(* is unsettled and stays so until it records it: no other run changed the *)
(* rows under it.                                                          *)
ClaimsAreExclusive ==
    /\ \A r, s \in Relays : r # s => relay[r].batch \cap relay[s].batch = {}
    /\ \A r \in Relays : \A e \in relay[r].batch :
          Deliverable(e) /\ attempts[e] < MaxAttempts

(* A row that is sent is not published again, one that is parked has used  *)
(* up all its attempts, and neither changes any more.                      *)
SettledStays ==
    [][\A e \in Events : Settled(e) =>
        /\ status[e] = "failed" => attempts[e] = MaxAttempts
        /\ <<status[e], attempts[e], retry[e]>>' =
              <<status[e], attempts[e], retry[e]>>
        /\ \A r \in Relays : e \notin relay'[r].batch]_vars

(* The results of a run may stand for other rows than those they are read  *)
(* for: one of them is a failure and its batch went to several partitions. *)
Garbled(r) ==
    /\ \E i \in DOMAIN relay[r].results : ~relay[r].results[i]
    /\ \E e, f \in relay[r].batch : Place(e) # Place(f)

(* At least once: a run marks a row as sent only if the row is in Kafka,   *)
(* whatever else was published, lost or cut off at the same time, unless   *)
(* the order of its results garbled them (ResultsMatchInput).              *)
SentMeansStored ==
    [][\A r \in Relays : \A e \in relay[r].batch :
        status'[e] = "sent" => e \in log[Place(e)] \/ Garbled(r)]_vars

(* Liveness: no event is forgotten. It is marked as sent or parked.        *)
EventsAreSettled ==
    \A e \in Events : status[e] = "pending" ~> Settled(e)

-----------------------------------------------------------------------------
(* Statements of comments and documents that the code does not keep.       *)

(* kafka.go: the order of the results matches the input. They are the      *)
(* results in the order of completion, so that an event that failed is     *)
(* taken for published, and lost, when one of another partition was faster.*)
ResultsMatchInput ==
    \A r \in Relays : \A e \in relay[r].batch :
        relay[r].open = {} /\ Published(r, e) => e \in relay[r].stored
=============================================================================

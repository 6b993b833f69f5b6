--------------------------- MODULE ConsumerGroup ---------------------------
(***************************************************************************)
(* One Kafka consumer group of the server: every instance runs a loop that *)
(* polls records, hands them to a handler one by one and commits the offset*)
(* of each after its handler returned. Any failure ends the loop; it starts*)
(* again five seconds later from what the group has committed.             *)
(*                                                                         *)
(* The coordinator may take a partition from a member that is still at     *)
(* work on records it has polled: two members then handle and commit       *)
(* records of one partition at the same time.                              *)
(***************************************************************************)
EXTENDS Integers, FiniteSets

CONSTANTS
    Partitions,  \* partitions of the subscribed topics
    Members,     \* loops of the group, one per server instance
    MaxRecords,  \* bound: records per partition
    MaxFailures  \* bound: loops that fail, crash or are fenced

NoPartition == "none"

ASSUME ConsumerAssumption ==
    /\ {MaxRecords, MaxFailures} \subseteq Nat
    /\ NoPartition \notin Partitions

VARIABLES
    log,        \* number of records stored in each partition
    committed,  \* the group's offset of each partition
    handled,    \* offsets whose handler returned without an error, ever
    running,    \* members whose loop is running
    mine,       \* partitions each member believes to be its own
    position,   \* offset from which a member fetches next
    next, end,  \* polled and not yet handled: offsets next .. end - 1
    handling,   \* the partition whose record next is handled, not committed
    failures    \* failures so far

broker == <<log, committed>>
member == <<running, mine, position, next, end, handling>>
vars == <<broker, handled, member, failures>>

Offsets == [Partitions -> Nat]

TypeOK ==
    /\ log \in [Partitions -> 0..MaxRecords]
    /\ committed \in Offsets
    /\ handled \in [Partitions -> SUBSET Nat]
    /\ running \subseteq Members
    /\ mine \in [Members -> SUBSET Partitions]
    /\ position \in [Members -> Offsets]
    /\ next \in [Members -> Offsets]
    /\ end \in [Members -> Offsets]
    /\ handling \in [Members -> Partitions \cup {NoPartition}]
    /\ failures \in 0..MaxFailures

NoOffsets == [p \in Partitions |-> 0]

Init ==
    /\ log = NoOffsets
    /\ committed = NoOffsets
    /\ handled = [p \in Partitions |-> {}]
    /\ running = {}
    /\ mine = [m \in Members |-> {}]
    /\ position = [m \in Members |-> NoOffsets]
    /\ next = [m \in Members |-> NoOffsets]
    /\ end = [m \in Members |-> NoOffsets]
    /\ handling = [m \in Members |-> NoPartition]
    /\ failures = 0

-----------------------------------------------------------------------------
(* The broker and the coordinator of the group.                            *)

Produce(p) ==
    /\ log[p] < MaxRecords
    /\ log' = [log EXCEPT ![p] = @ + 1]
    /\ UNCHANGED <<committed, handled, member, failures>>

(* The definitions named ...Bug are faulty variants that mutation runs put *)
(* in place of the definition after them.                                  *)

StartOffsetBug(p) ==  \* ConsumeResetOffset(AtEnd), nothing committed yet
    IF committed[p] = 0 THEN log[p] ELSE committed[p]

(* A group that has committed nothing starts at the beginning.             *)
StartOffset(p) == committed[p]

Assign(m, p) ==
    /\ m \in running /\ p \notin mine[m]
    /\ mine' = [mine EXCEPT ![m] = @ \cup {p}]
    /\ position' = [position EXCEPT ![m][p] = StartOffset(p)]
    /\ UNCHANGED <<broker, handled, running, next, end, handling, failures>>

(* A member loses a partition, not what it has polled of it.               *)
Revoke(m, p) ==
    /\ p \in mine[m] /\ failures < MaxFailures
    /\ mine' = [mine EXCEPT ![m] = @ \ {p}]
    /\ failures' = failures + 1
    /\ UNCHANGED <<broker, handled, running, position, next, end, handling>>

-----------------------------------------------------------------------------
(* The loop.                                                               *)

Start(m) ==
    /\ m \notin running
    /\ running' = running \cup {m}
    /\ UNCHANGED <<broker, handled, mine, position, next, end, handling,
                   failures>>

(* PollFetches returns some records of some of the member's partitions,    *)
(* after all it returned before have been handled and committed.           *)
Poll(m) ==
    /\ m \in running /\ handling[m] = NoPartition
    /\ \A p \in Partitions : next[m][p] = end[m][p]
    /\ \E to \in [Partitions -> 0..MaxRecords] :
          /\ \A p \in Partitions :
                IF p \in mine[m] /\ position[m][p] <= log[p]
                  THEN to[p] \in position[m][p]..log[p]
                  ELSE to[p] = position[m][p]
          /\ to # position[m]
          /\ end' = [end EXCEPT ![m] = to]
          /\ position' = [position EXCEPT ![m] = to]
    /\ next' = [next EXCEPT ![m] = position[m]]
    /\ UNCHANGED <<broker, handled, running, mine, handling, failures>>

(* The handler returns nil.                                                *)
Handle(m, p) ==
    /\ handling[m] = NoPartition /\ next[m][p] < end[m][p]
    /\ handled' = [handled EXCEPT ![p] = @ \cup {next[m][p]}]
    /\ handling' = [handling EXCEPT ![m] = p]
    /\ UNCHANGED <<broker, running, mine, position, next, end, failures>>

CommitOffsetBug(m, p) == end[m][p]  \* all that was polled

(* The offset after the record's.                                          *)
CommitOffset(m, p) == next[m][p] + 1

(* Kafka accepts the offset of any live member, also of one that no longer *)
(* owns the partition, and also one below the committed offset.            *)
Commit(m) ==
    LET p == handling[m]
    IN /\ p # NoPartition
       /\ committed' = [committed EXCEPT ![p] = CommitOffset(m, p)]
       /\ next' = [next EXCEPT ![m][p] = @ + 1]
       /\ handling' = [handling EXCEPT ![m] = NoPartition]
       /\ UNCHANGED <<log, handled, running, mine, position, end, failures>>

(* The loop ends: a handler, a poll or a commit failed, or the instance    *)
(* crashed. A commit that failed may have reached the broker.              *)
Stop(m) ==
    /\ m \in running /\ failures < MaxFailures
    /\ \/ committed' = committed
       \/ /\ handling[m] # NoPartition
          /\ committed' = [committed EXCEPT ![handling[m]] =
                                CommitOffset(m, handling[m])]
    /\ running' = running \ {m}
    /\ mine' = [mine EXCEPT ![m] = {}]
    /\ position' = [position EXCEPT ![m] = NoOffsets]
    /\ next' = [next EXCEPT ![m] = NoOffsets]
    /\ end' = [end EXCEPT ![m] = NoOffsets]
    /\ handling' = [handling EXCEPT ![m] = NoPartition]
    /\ failures' = failures + 1
    /\ UNCHANGED <<log, handled>>

MemberStep(m) ==
    \/ Start(m)
    \/ Poll(m)
    \/ \E p \in Partitions : Handle(m, p)
    \/ Commit(m)

Next ==
    \/ \E p \in Partitions : Produce(p)
    \/ \E m \in Members :
          \/ MemberStep(m)
          \/ Stop(m)
          \/ \E p \in Partitions : Assign(m, p) \/ Revoke(m, p)

Spec == Init /\ [][Next]_vars

-----------------------------------------------------------------------------
(* Safety                                                                  *)

Below(n) == 0..n - 1

(* No record is skipped: whatever the group has committed was handled,     *)
(* whoever handled it, and however commits of two members overtake each    *)
(* other.                                                                  *)
CommittedIsHandled ==
    \A p \in Partitions : Below(committed[p]) \subseteq handled[p]

(* A record is handled for the first time after all before it: replays     *)
(* repeat the past, they do not leave gaps.                                *)
HandledInOrder ==
    [][\A p \in Partitions : \A n \in handled'[p] \ handled[p] :
          Below(n) \subseteq handled[p]]_vars
=============================================================================

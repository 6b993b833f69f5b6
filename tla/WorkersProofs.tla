--------------------------- MODULE WorkersProofs ---------------------------
(***************************************************************************)
(* Proofs about the consumer groups: about ConsumerGroup itself, for any   *)
(* number of partitions, members, records and failures, and about the two  *)
(* workers built on it, Notifications and Membership. What is known of the *)
(* group is taken over: a worker's steps are steps of the group.           *)
(***************************************************************************)
EXTENDS Notifications, Membership, TLAPS

(* What a member has polled joins what was handled without a gap: all      *)
(* below next is handled, all below position is handled or polled.         *)
NoGaps ==
    \A m \in Members, p \in Partitions :
        /\ next[m][p] <= end[m][p]
        /\ Below(next[m][p]) \subseteq handled[p]
        /\ Below(position[m][p]) \subseteq
              handled[p] \cup next[m][p]..end[m][p] - 1
        /\ handling[m] = p =>
              next[m][p] < end[m][p] /\ next[m][p] \in handled[p]

(* The inductive invariant.                                                *)
Inductive == TypeOK /\ CommittedIsHandled /\ NoGaps

-----------------------------------------------------------------------------
LEMMA InductiveInit == Init => Inductive
  BY ConsumerAssumption
  DEF Init, Inductive, TypeOK, CommittedIsHandled, NoGaps, NoOffsets, Offsets,
      Below

(* Changing one offset of one member leaves offsets.                       *)
LEMMA OffsetsTyped ==
  ASSUME NEW f \in [Members -> Offsets], NEW m \in Members
  PROVE  /\ \A p \in Partitions, n \in Nat :
               [f EXCEPT ![m][p] = n] \in [Members -> Offsets]
         /\ \A g \in Offsets : [f EXCEPT ![m] = g] \in [Members -> Offsets]
         /\ NoOffsets \in Offsets
         /\ \A p \in Partitions : f[m][p] \in Nat
  BY DEF Offsets, NoOffsets

LEMMA TypeStep == TypeOK /\ [Next]_vars => TypeOK'
<1> SUFFICES ASSUME TypeOK, [Next]_vars
             PROVE  TypeOK'
  OBVIOUS
<1> USE ConsumerAssumption DEF TypeOK
<1>1. ASSUME NEW p \in Partitions, Produce(p)
      PROVE  TypeOK'
  BY <1>1 DEF Produce, member
<1>2. ASSUME NEW m \in Members, NEW p \in Partitions, Assign(m, p)
      PROVE  TypeOK'
  <2>1. StartOffset(p) \in Nat
    BY DEF StartOffset, Offsets
  <2>2. position' \in [Members -> Offsets]
    BY <1>2, <2>1, OffsetsTyped DEF Assign
  <2> QED  BY <1>2, <2>2 DEF Assign, broker
<1>3. ASSUME NEW m \in Members, NEW p \in Partitions, Revoke(m, p)
      PROVE  TypeOK'
  BY <1>3 DEF Revoke, broker
<1>4. ASSUME NEW m \in Members, Start(m)
      PROVE  TypeOK'
  BY <1>4 DEF Start, broker
<1>5. ASSUME NEW m \in Members, Poll(m)
      PROVE  TypeOK'
  <2>1. PICK to \in [Partitions -> 0..MaxRecords] :
               /\ end' = [end EXCEPT ![m] = to]
               /\ position' = [position EXCEPT ![m] = to]
    BY <1>5 DEF Poll
  <2>2. to \in Offsets /\ position[m] \in Offsets
    BY DEF Offsets
  <2>3. /\ end' \in [Members -> Offsets]
        /\ position' \in [Members -> Offsets]
    BY <2>1, <2>2, OffsetsTyped
  <2>4. next' \in [Members -> Offsets]
    BY <1>5, <2>2, OffsetsTyped DEF Poll
  <2> QED  BY <1>5, <2>3, <2>4 DEF Poll, broker
<1>6. ASSUME NEW m \in Members, NEW p \in Partitions, Handle(m, p)
      PROVE  TypeOK'
  <2>1. next[m][p] \in Nat
    BY OffsetsTyped
  <2> QED  BY <1>6, <2>1 DEF Handle, broker
<1>7. ASSUME NEW m \in Members, Commit(m)
      PROVE  TypeOK'
  <2>1. handling[m] \in Partitions
    BY <1>7 DEF Commit
  <2>2. next[m][handling[m]] + 1 \in Nat
    BY <2>1, OffsetsTyped
  <2>3. committed' \in Offsets
    BY <1>7, <2>1, <2>2 DEF Commit, CommitOffset, Offsets
  <2>4. next' \in [Members -> Offsets]
    BY <1>7, <2>1, <2>2, OffsetsTyped DEF Commit
  <2> QED  BY <1>7, <2>3, <2>4 DEF Commit
<1>8. ASSUME NEW m \in Members, Stop(m)
      PROVE  TypeOK'
  <2>1. committed' \in Offsets
    <3>1. handling[m] \in Partitions =>
            next[m][handling[m]] + 1 \in Nat
      BY OffsetsTyped
    <3> QED  BY <1>8, <3>1 DEF Stop, CommitOffset, Offsets
  <2>2. /\ position' \in [Members -> Offsets]
        /\ next' \in [Members -> Offsets]
        /\ end' \in [Members -> Offsets]
    BY <1>8, OffsetsTyped DEF Stop
  <2>3. failures' \in 0..MaxFailures
    BY <1>8 DEF Stop
  <2> QED  BY <1>8, <2>1, <2>2, <2>3 DEF Stop
<1>9. CASE UNCHANGED vars
  BY <1>9 DEF vars, broker, member
<1> QED
  BY <1>1, <1>2, <1>3, <1>4, <1>5, <1>6, <1>7, <1>8, <1>9
  DEF Next, MemberStep

(* The offset a member commits has everything below it handled.            *)
LEMMA CommitCovers ==
  ASSUME Inductive, NEW m \in Members, handling[m] # NoPartition
  PROVE  /\ handling[m] \in Partitions
         /\ CommitOffset(m, handling[m]) \in Nat
         /\ Below(CommitOffset(m, handling[m])) \subseteq handled[handling[m]]
<1> DEFINE p == handling[m]
           n == next[m][p]
<1>1. p \in Partitions
  BY DEF Inductive, TypeOK
<1>2. n \in Nat /\ Below(n) \subseteq handled[p] /\ n \in handled[p]
  BY <1>1, OffsetsTyped DEF Inductive, TypeOK, NoGaps
<1>3. Below(n + 1) \subseteq Below(n) \cup {n}
  BY <1>2 DEF Below
<1> QED  BY <1>1, <1>2, <1>3 DEF CommitOffset

LEMMA CommittedStep ==
  Inductive /\ [Next]_vars => CommittedIsHandled'
<1> SUFFICES ASSUME Inductive, [Next]_vars
             PROVE  CommittedIsHandled'
  OBVIOUS
<1>0. TypeOK /\ CommittedIsHandled
  BY DEF Inductive
<1>1. ASSUME UNCHANGED committed,
             \A p \in Partitions : handled[p] \subseteq handled'[p]
      PROVE  CommittedIsHandled'
  BY <1>0, <1>1 DEF CommittedIsHandled
<1>2. ASSUME NEW m \in Members, handling[m] # NoPartition,
             committed' = [committed EXCEPT ![handling[m]] =
                              CommitOffset(m, handling[m])],
             handled' = handled
      PROVE  CommittedIsHandled'
  BY <1>0, <1>2, CommitCovers DEF CommittedIsHandled, TypeOK, Offsets
<1>3. ASSUME NEW m \in Members, NEW p \in Partitions, Handle(m, p)
      PROVE  CommittedIsHandled'
  BY <1>0, <1>1, <1>3 DEF Handle, broker, TypeOK
<1>4. ASSUME NEW m \in Members, Commit(m) \/ Stop(m)
      PROVE  CommittedIsHandled'
  BY <1>1, <1>2, <1>4 DEF Commit, Stop
<1>5. ASSUME UNCHANGED <<committed, handled>>
      PROVE  CommittedIsHandled'
  BY <1>1, <1>5
<1> QED
  BY <1>3, <1>4, <1>5 DEF Next, MemberStep, Produce, Assign, Revoke, Start,
     Poll, vars, broker, member

(* What NoGaps says of one member and one partition.                       *)
NoGap(m, p) ==
    /\ next[m][p] <= end[m][p]
    /\ Below(next[m][p]) \subseteq handled[p]
    /\ Below(position[m][p]) \subseteq
          handled[p] \cup next[m][p]..end[m][p] - 1
    /\ handling[m] = p =>
          next[m][p] < end[m][p] /\ next[m][p] \in handled[p]

(* More handled records never make a gap.                                  *)
LEMMA GapsOnlyClose ==
  ASSUME Inductive, NEW m \in Members, NEW p \in Partitions,
         UNCHANGED <<next[m][p], end[m][p], position[m][p]>>,
         handled[p] \subseteq handled'[p],
         handling'[m] = p => handling[m] = p
  PROVE  NoGap(m, p)'
<1>1. NoGap(m, p)
  BY DEF Inductive, NoGaps, NoGap
<1> QED  BY <1>1 DEF NoGap

LEMMA NoGapsStep == Inductive /\ [Next]_vars => NoGaps'
<1> SUFFICES ASSUME Inductive, [Next]_vars,
                    NEW m \in Members, NEW p \in Partitions
             PROVE  NoGap(m, p)'
  BY DEF NoGaps, NoGap
<1> USE ConsumerAssumption
<1>0. /\ TypeOK /\ TypeOK' /\ CommittedIsHandled /\ NoGap(m, p)
      /\ next[m][p] \in Nat /\ end[m][p] \in Nat /\ position[m][p] \in Nat
      /\ committed[p] \in Nat
  BY TypeStep, OffsetsTyped DEF Inductive, NoGaps, NoGap, TypeOK, Offsets
<1>1. ASSUME UNCHANGED <<handled, next, end, handling>>,
             NEW k \in Members, NEW q \in Partitions, Assign(k, q)
      PROVE  NoGap(m, p)'
  <2>1. CASE k = m /\ q = p
    <3>1. position'[m][p] = committed[p]
      BY <1>0, <1>1, <2>1 DEF Assign, StartOffset, TypeOK, Offsets
    <3> QED  BY <1>0, <1>1, <3>1 DEF NoGap, CommittedIsHandled
  <2>2. CASE ~(k = m /\ q = p)
    <3>1. position'[m][p] = position[m][p]
      BY <1>0, <1>1, <2>2 DEF Assign, TypeOK, Offsets
    <3> QED  BY <1>1, <3>1, GapsOnlyClose
  <2> QED  BY <2>1, <2>2
<1>2. ASSUME NEW k \in Members, Poll(k)
      PROVE  NoGap(m, p)'
  <2>1. CASE k = m
    <3>1. PICK to \in [Partitions -> 0..MaxRecords] :
            /\ \A q \in Partitions :
                  IF q \in mine[m] /\ position[m][q] <= log[q]
                    THEN to[q] \in position[m][q]..log[q]
                    ELSE to[q] = position[m][q]
            /\ end' = [end EXCEPT ![m] = to]
            /\ position' = [position EXCEPT ![m] = to]
      BY <1>2, <2>1 DEF Poll
    <3>2. log[p] \in Nat /\ to[p] \in Nat /\ position[m][p] <= to[p]
      BY <1>0, <3>1 DEF TypeOK
    <3>3. /\ end'[m][p] = to[p] /\ position'[m][p] = to[p]
          /\ next'[m][p] = position[m][p]
          /\ handled' = handled /\ handling'[m] = NoPartition
      BY <1>0, <1>2, <2>1, <3>1 DEF Poll, TypeOK
    <3>4. next[m][p] = end[m][p]
      BY <1>2, <2>1 DEF Poll
    <3>5. Below(position[m][p]) \subseteq handled[p]
      BY <1>0, <3>4 DEF NoGap
    <3>6. Below(to[p]) \subseteq
            Below(position[m][p]) \cup position[m][p]..to[p] - 1
      BY <1>0, <3>2 DEF Below
    <3> QED  BY <3>2, <3>3, <3>5, <3>6 DEF NoGap
  <2>2. CASE k # m
    <3>1. UNCHANGED <<next[m][p], end[m][p], position[m][p]>>
      BY <1>0, <1>2, <2>2 DEF Poll, TypeOK
    <3> QED  BY <1>2, <3>1, GapsOnlyClose DEF Poll
  <2> QED  BY <2>1, <2>2
<1>3. ASSUME NEW k \in Members, NEW q \in Partitions, Handle(k, q)
      PROVE  NoGap(m, p)'
  <2>1. handled[p] \subseteq handled'[p] /\ UNCHANGED <<next, end, position>>
    BY <1>0, <1>3 DEF Handle, TypeOK
  <2>2. CASE k = m /\ q = p
    <3>1. next[m][p] < end[m][p] /\ next[m][p] \in handled'[p]
      BY <1>0, <1>3, <2>2 DEF Handle, TypeOK
    <3> QED  BY <1>0, <2>1, <3>1 DEF NoGap
  <2>3. CASE ~(k = m /\ q = p)
    <3>1. handling'[m] = p => handling[m] = p
      BY <1>0, <1>3, <2>3 DEF Handle, TypeOK
    <3> QED  BY <2>1, <3>1, GapsOnlyClose
  <2> QED  BY <2>2, <2>3
<1>4. ASSUME NEW k \in Members, Commit(k)
      PROVE  NoGap(m, p)'
  <2>1. UNCHANGED <<handled, end, position>>
    BY <1>4 DEF Commit
  <2>2. CASE k = m /\ handling[m] = p
    <3>1. /\ next'[m][p] = next[m][p] + 1
          /\ handling'[m] = NoPartition
      BY <1>0, <1>4, <2>2 DEF Commit, TypeOK, Offsets
    <3>2. next[m][p] < end[m][p] /\ next[m][p] \in handled[p]
      BY <1>0, <2>2 DEF NoGap
    <3>3. Below(next[m][p] + 1) \subseteq Below(next[m][p]) \cup {next[m][p]}
      BY <1>0 DEF Below
    <3>4. next[m][p]..end[m][p] - 1 \subseteq
            {next[m][p]} \cup next[m][p] + 1..end[m][p] - 1
      BY <1>0
    <3>5. next[m][p] + 1 <= end[m][p]
      BY <1>0, <3>2
    <3> QED  BY <1>0, <2>1, <3>1, <3>2, <3>3, <3>4, <3>5 DEF NoGap
  <2>3. CASE ~(k = m /\ handling[m] = p)
    <3>1. /\ next'[m][p] = next[m][p]
          /\ handling'[m] = p => handling[m] = p
      BY <1>0, <1>4, <2>3 DEF Commit, TypeOK, Offsets
    <3> QED  BY <2>1, <3>1, GapsOnlyClose
  <2> QED  BY <2>2, <2>3
<1>5. ASSUME NEW k \in Members, Stop(k)
      PROVE  NoGap(m, p)'
  <2>1. CASE k = m
    <3>1. /\ next'[m][p] = 0 /\ end'[m][p] = 0 /\ position'[m][p] = 0
          /\ handling'[m] = NoPartition
      BY <1>0, <1>5, <2>1 DEF Stop, TypeOK, NoOffsets
    <3>2. Below(0) = {}
      BY DEF Below
    <3> QED  BY <3>1, <3>2 DEF NoGap
  <2>2. CASE k # m
    <3>1. UNCHANGED <<next[m][p], end[m][p], position[m][p], handled>>
      BY <1>0, <1>5, <2>2 DEF Stop, TypeOK
    <3>2. handling'[m] = handling[m]
      BY <1>0, <1>5, <2>2 DEF Stop, TypeOK
    <3> QED  BY <3>1, <3>2, GapsOnlyClose
  <2> QED  BY <2>1, <2>2
<1>6. ASSUME UNCHANGED <<handled, next, end, position, handling>>
      PROVE  NoGap(m, p)'
  BY <1>6, GapsOnlyClose
<1> QED
  BY <1>1, <1>2, <1>3, <1>4, <1>5, <1>6 DEF Next, MemberStep, Produce,
     Assign, Revoke, Start, vars, broker, member

(* Nobody polls or commits what is not in the log.                         *)
InLog ==
    \A p \in Partitions :
        /\ committed[p] <= log[p]
        /\ \A m \in Members : position[m][p] <= log[p] /\ end[m][p] <= log[p]

LEMMA InLogStep == Inductive /\ InLog /\ [Next]_vars => InLog'
<1> SUFFICES ASSUME Inductive, InLog, [Next]_vars
             PROVE  InLog'
  OBVIOUS
<1> USE ConsumerAssumption
<1>0. /\ log \in [Partitions -> Nat] /\ committed \in Offsets
      /\ \A m \in Members : /\ position[m] \in Offsets
                            /\ next[m] \in Offsets /\ end[m] \in Offsets
      /\ position \in [Members -> Offsets] /\ end \in [Members -> Offsets]
  BY DEF Inductive, TypeOK
<1>1. ASSUME NEW p \in Partitions, Produce(p)
      PROVE  InLog'
  BY <1>0, <1>1 DEF Produce, member, InLog, Offsets
<1>2. ASSUME NEW m \in Members, NEW p \in Partitions, Assign(m, p)
      PROVE  InLog'
  <2>1. \A k \in Members, q \in Partitions :
            position'[k][q] = IF k = m /\ q = p THEN committed[p]
                                                ELSE position[k][q]
    BY <1>0, <1>2 DEF Assign, StartOffset, Offsets
  <2> QED  BY <1>0, <1>2, <2>1 DEF Assign, broker, InLog
<1>3. ASSUME NEW m \in Members, NEW p \in Partitions,
             Revoke(m, p) \/ Handle(m, p)
      PROVE  InLog'
  BY <1>3 DEF Revoke, Handle, broker, InLog
<1>9. ASSUME NEW m \in Members, Start(m)
      PROVE  InLog'
  BY <1>9 DEF Start, broker, InLog
<1>4. ASSUME NEW m \in Members, Poll(m)
      PROVE  InLog'
  <2>1. PICK to \in [Partitions -> 0..MaxRecords] :
           /\ \A p \in Partitions :
                 IF p \in mine[m] /\ position[m][p] <= log[p]
                   THEN to[p] \in position[m][p]..log[p]
                   ELSE to[p] = position[m][p]
           /\ end' = [end EXCEPT ![m] = to]
           /\ position' = [position EXCEPT ![m] = to]
    BY <1>4 DEF Poll
  <2>2. \A p \in Partitions : to[p] <= log[p]
    BY <1>0, <2>1 DEF InLog, Offsets
  <2>3. log' = log /\ committed' = committed
    BY <1>4 DEF Poll, broker
  <2> QED  BY <1>0, <2>1, <2>2, <2>3 DEF InLog
<1>5. ASSUME NEW m \in Members, handling[m] # NoPartition
      PROVE  /\ handling[m] \in Partitions
             /\ CommitOffset(m, handling[m]) <= log[handling[m]]
  <2>1. handling[m] \in Partitions
    BY <1>5 DEF Inductive, TypeOK
  <2>2. next[m][handling[m]] < end[m][handling[m]]
    BY <2>1 DEF Inductive, NoGaps
  <2> QED  BY <1>0, <2>1, <2>2 DEF InLog, CommitOffset, Offsets
<1>6. ASSUME NEW m \in Members, Commit(m)
      PROVE  InLog'
  BY <1>0, <1>5, <1>6 DEF Commit, InLog, Offsets
<1>7. ASSUME NEW m \in Members, Stop(m)
      PROVE  InLog'
  <2>1. \A p \in Partitions : committed'[p] <= log[p]
    BY <1>0, <1>5, <1>7 DEF Stop, InLog, Offsets
  <2>2. \A k \in Members, p \in Partitions :
           position'[k][p] <= log[p] /\ end'[k][p] <= log[p]
    BY <1>0, <1>7 DEF Stop, InLog, NoOffsets
  <2> QED  BY <1>7, <2>1, <2>2 DEF Stop, InLog
<1>8. CASE UNCHANGED vars
  BY <1>8 DEF vars, broker, member, InLog
<1> QED
  BY <1>1, <1>2, <1>3, <1>4, <1>6, <1>7, <1>8, <1>9 DEF Next, MemberStep

LEMMA InductiveStep == Inductive /\ [Next]_vars => Inductive'
  BY TypeStep, CommittedStep, NoGapsStep DEF Inductive

LEMMA AlwaysInductive == Spec => []Inductive
  BY InductiveInit, InductiveStep, PTL DEF Spec

LEMMA AlwaysInLog == Spec => [](Inductive /\ InLog)
<1>1. Init => InLog
  BY ConsumerAssumption DEF Init, InLog, NoOffsets
<1> QED  BY <1>1, AlwaysInductive, InLogStep, PTL DEF Spec

-----------------------------------------------------------------------------
(* Offsets stay natural numbers, buffers and assignments well-typed.       *)
THEOREM TypeCorrect == Spec => []TypeOK
<1>1. Inductive => TypeOK  BY DEF Inductive
<1> QED  BY <1>1, AlwaysInductive, PTL

(* Whatever rebalances, crashes and overtaking commits happen, the group   *)
(* has committed nothing that was not handled.                             *)
THEOREM NothingSkipped == Spec => []CommittedIsHandled
<1>1. Inductive => CommittedIsHandled  BY DEF Inductive
<1> QED  BY <1>1, AlwaysInductive, PTL

(* A record is handled for the first time after all before it.             *)
THEOREM FirstInOrder == Spec => HandledInOrder
<1> DEFINE Order == \A p \in Partitions : \A n \in handled'[p] \ handled[p] :
                      Below(n) \subseteq handled[p]
<1>1. ASSUME Inductive, [Next]_vars
      PROVE  Order
  <2>0. TypeOK /\ NoGaps  BY <1>1 DEF Inductive
  <2>1. ASSUME NEW k \in Members, NEW q \in Partitions, Handle(k, q)
        PROVE  Order
    <3>1. \A p \in Partitions : \A n \in handled'[p] \ handled[p] :
            p = q /\ n = next[k][q]
      BY <2>0, <2>1 DEF Handle, TypeOK
    <3>2. Below(next[k][q]) \subseteq handled[q]
      BY <2>0 DEF NoGaps
    <3> QED  BY <3>1, <3>2
  <2>2. ASSUME UNCHANGED handled
        PROVE  Order
    BY <2>2
  <2> QED
    BY <1>1, <2>1, <2>2 DEF Next, MemberStep, Produce, Assign, Revoke, Start,
       Poll, Commit, Stop, vars
<1>2. Inductive /\ [Next]_vars => [Order]_vars
  BY <1>1
<1> QED  BY <1>2, AlwaysInductive, PTL DEF Spec, HandledInOrder

-----------------------------------------------------------------------------
(* The notification worker.                                                *)

(* The uuid is unique and tells event and recipient; the hints count rows. *)
KeysTellRows ==
    /\ \A n1, n2 \in notifications : n1.uuid = n2.uuid => n1 = n2
    /\ \A n \in notifications :
          n.uuid = <<n.event, n.to>> /\ n.to \in Recipients(n.event)
    /\ \A e \in Events :
          /\ NotificationsOf(e) = {} => hints[e] = 0
          /\ NotificationsOf(e) # {} => hints[e] = 1

Told(e) ==
    \A u \in Recipients(e) : \E n \in notifications : n.event = e /\ n.to = u

(* Whatever was handled is in the log, and its recipient was told.         *)
HandledIsTold ==
    \A p \in Partitions : \A n \in handled[p] :
        n < log[p] /\ Told(RecordAt(p, n))

NotificationsInductive ==
    /\ Inductive
    /\ NotificationsTypeOK
    /\ InLog
    /\ KeysTellRows
    /\ HandledIsTold

-----------------------------------------------------------------------------
(* The worker is a consumer group that does something with its records.    *)
LEMMA StepIsGroupStep == [NotificationsNext]_nvars => [Next]_vars
<1> SUFFICES ASSUME [NotificationsNext]_nvars
             PROVE  [Next]_vars
  OBVIOUS
<1>1. ASSUME NEW e \in Events, ProduceEvent(e)
      PROVE  Next
  BY <1>1, NotificationsAssumption DEF ProduceEvent, Next
<1>2. ASSUME NEW u \in Users, MarkRead(u)
      PROVE  UNCHANGED vars
  BY <1>2 DEF MarkRead
<1>3. ASSUME NEW m \in Members, NotifierStep(m)
      PROVE  Next
  BY <1>3 DEF NotifierStep, Notify, MemberStep, Next
<1>4. ASSUME NEW m \in Members, Stop(m)
      PROVE  Next
  BY <1>4 DEF Next
<1>5. ASSUME NEW m \in Members, NEW p \in Partitions,
             Assign(m, p) \/ Revoke(m, p)
      PROVE  Next
  BY <1>5 DEF Next
<1>6. UNCHANGED nvars => UNCHANGED vars
  BY DEF nvars
<1> QED
  BY <1>1, <1>2, <1>3, <1>4, <1>5, <1>6
  DEF NotificationsNext, NotifyUnanswered

(* A safety property proved of the group holds of the worker.              *)
LEMMA IsGroup == NotificationsSpec => Spec
<1>1. NotificationsInit => Init  BY DEF NotificationsInit
<1> QED  BY <1>1, StepIsGroupStep, PTL DEF NotificationsSpec, Spec

LEMMA OneRecipient ==
  ASSUME NEW e \in Events
  PROVE  /\ Recipients(e) \subseteq Users
         /\ \A u, v \in Recipients(e) : u = v
  BY NotificationsAssumption DEF Recipients, Kinds

(* What Create does to rows that tell event and recipient in their uuid.   *)
LEMMA Creates ==
  ASSUME NotificationsTypeOK, KeysTellRows,
         NEW e \in Events, NEW u \in Recipients(e), NEW m,
         Create(Notification(e, u, m))
  PROVE  /\ notifications' \subseteq NotificationRows
         /\ hints' \in [Events -> Nat]
         /\ notifications \subseteq notifications'
         /\ KeysTellRows'
         /\ \E n \in notifications' : n.event = e /\ n.to = u
<1> DEFINE row == Notification(e, u, m)
<1>0. /\ row \in NotificationRows /\ row.uuid = <<e, u>>
      /\ row.event = e /\ row.to = u
  BY OneRecipient
  DEF Notification, NotificationKey, NotificationRows
<1>1. CASE Stored(row)
  <2>1. UNCHANGED <<notifications, hints>>
    BY <1>1 DEF Create
  <2>2. PICK n \in notifications : n.uuid = <<e, u>>
    BY <1>0, <1>1 DEF Stored
  <2>3. n.event = e /\ n.to = u
    BY <2>2 DEF KeysTellRows, NotificationsTypeOK, NotificationRows
  <2> QED
    BY <2>1, <2>3 DEF NotificationsTypeOK, KeysTellRows, NotificationsOf
<1>2. CASE ~Stored(row)
  <2>1. /\ notifications' = notifications \cup {row}
        /\ hints' = [hints EXCEPT ![e] = @ + 1]
    BY <1>0, <1>2 DEF Create
  <2>2. NotificationsOf(e) = {}
    <3>1. SUFFICES ASSUME NEW n \in notifications, n.event = e
                   PROVE  FALSE
      BY DEF NotificationsOf
    <3>2. n.to = u /\ n.uuid = <<e, u>>
      BY <3>1, OneRecipient DEF KeysTellRows
    <3> QED  BY <1>0, <1>2, <3>2 DEF Stored
  <2>3. hints[e] = 0 /\ hints \in [Events -> Nat]
    BY <2>2 DEF KeysTellRows, NotificationsTypeOK
  <2>4. \A d \in Events : (NotificationsOf(d))' =
            IF d = e THEN NotificationsOf(d) \cup {row} ELSE NotificationsOf(d)
    BY <1>0, <2>1 DEF NotificationsOf
  <2>5. \A n1, n2 \in notifications' : n1.uuid = n2.uuid => n1 = n2
    BY <1>2, <2>1 DEF Stored, KeysTellRows
  <2>6. KeysTellRows'
    BY <1>0, <2>1, <2>2, <2>3, <2>4, <2>5 DEF KeysTellRows, Recipients
  <2> QED
    BY <1>0, <2>1, <2>3, <2>6 DEF NotificationsTypeOK
<1> QED  BY <1>1, <1>2

(* HandleEvent tells the recipient of the record it is given.              *)
LEMMA HandlerTells ==
  ASSUME NotificationsTypeOK, InLog, KeysTellRows,
         NEW m \in Members, NEW p \in Partitions,
         next[m][p] < end[m][p], HandleEvent(m, p)
  PROVE  /\ next[m][p] < log[p]
         /\ RecordAt(p, next[m][p]) \in Events
         /\ notifications' \subseteq NotificationRows
         /\ hints' \in [Events -> Nat]
         /\ notifications \subseteq notifications'
         /\ KeysTellRows'
         /\ \A u \in Recipients(RecordAt(p, next[m][p])) :
               \E n \in notifications' :
                   n.event = RecordAt(p, next[m][p]) /\ n.to = u
<1> DEFINE e == RecordAt(p, next[m][p])
<1>1. next[m][p] \in Nat /\ end[m][p] \in Nat /\ log[p] \in Nat
  BY ConsumerAssumption DEF NotificationsTypeOK, TypeOK, Offsets
<1>2. next[m][p] < log[p]
  BY <1>1 DEF InLog
<1>3. e \in Events
  BY <1>1, <1>2 DEF NotificationsTypeOK, RecordAt
<1>4. content' = content
  BY DEF HandleEvent
<1>5. CASE Recipients(e) = {}
  <2>1. UNCHANGED <<notifications, hints>>
    BY <1>5 DEF HandleEvent
  <2> QED
    BY <1>2, <1>3, <1>5, <2>1
    DEF NotificationsTypeOK, KeysTellRows, NotificationsOf
<1>6. CASE Recipients(e) # {}
  <2>1. PICK u \in Recipients(e) : Create(Notification(e, u, m))
    BY <1>6 DEF HandleEvent
  <2>2. /\ notifications' \subseteq NotificationRows
        /\ hints' \in [Events -> Nat]
        /\ notifications \subseteq notifications'
        /\ KeysTellRows'
        /\ \E n \in notifications' : n.event = e /\ n.to = u
    <3> HIDE DEF e
    <3> QED  BY <1>3, <2>1, Creates, Zenon
  <2>3. \A v \in Recipients(e) : v = u
    BY <1>3, <2>1, OneRecipient
  <2> QED  BY <1>2, <1>3, <2>2, <2>3
<1> QED  BY <1>5, <1>6

(* A relay that stores one more event moves no record that is there.       *)
LEMMA Appends ==
  ASSUME NotificationsTypeOK, NEW e \in Events, ProduceEvent(e)
  PROVE  /\ content' \in [Partitions -> Seq(Events)]
         /\ \A p \in Partitions : Len(content'[p]) = log'[p]
         /\ \A p \in Partitions : /\ log[p] <= log'[p]
                                 /\ \A n \in Nat : n < log[p] =>
                                        RecordAt(p, n)' = RecordAt(p, n)
<1> DEFINE q == PartitionOf[e]
<1>1. q \in Partitions  BY NotificationsAssumption
<1>2. /\ content \in [Partitions -> Seq(Events)]
      /\ \A p \in Partitions : Len(content[p]) = log[p]
      /\ log \in [Partitions -> Nat]
  BY ConsumerAssumption DEF NotificationsTypeOK, TypeOK
<1>3. /\ content' = [content EXCEPT ![q] = Append(@, e)]
      /\ log' = [log EXCEPT ![q] = @ + 1]
  BY DEF ProduceEvent, Produce
<1>4. Append(content[q], e) \in Seq(Events)
      /\ Len(Append(content[q], e)) = Len(content[q]) + 1
      /\ \A i \in 1..Len(content[q]) : Append(content[q], e)[i] = content[q][i]
  BY <1>1, <1>2
<1>5. \A p \in Partitions : content'[p] = IF p = q THEN Append(content[q], e)
                                                 ELSE content[p]
  BY <1>2, <1>3
<1>6. \A p \in Partitions : log'[p] = IF p = q THEN log[q] + 1 ELSE log[p]
  BY <1>2, <1>3
<1>7. content' \in [Partitions -> Seq(Events)]
  BY <1>1, <1>2, <1>3, <1>4
<1>8. ASSUME NEW p \in Partitions
      PROVE  Len(content'[p]) = log'[p] /\ log[p] <= log'[p]
  <2>1. CASE p = q
    <3>1. content'[p] = Append(content[q], e) /\ log'[p] = log[q] + 1
      BY <1>5, <1>6, <2>1
    <3>2. Len(content[q]) = log[q] /\ log[p] = log[q] /\ log[q] \in Nat
      BY <1>1, <1>2, <2>1
    <3> HIDE DEF q
    <3> QED  BY <1>4, <3>1, <3>2
  <2>2. CASE p # q
    BY <1>2, <1>5, <1>6, <2>2
  <2> QED  BY <2>1, <2>2
<1>9. ASSUME NEW p \in Partitions, NEW n \in Nat, n < log[p]
      PROVE  content'[p][n + 1] = content[p][n + 1]
  <2>1. n + 1 \in 1..Len(content[p])
    BY <1>2, <1>9
  <2> QED  BY <1>4, <1>5, <2>1
<1> QED  BY <1>7, <1>8, <1>9 DEF RecordAt

LEMMA RowsTyped ==
  ASSUME NotificationsTypeOK, KeysTellRows, NEW u \in Users, MarkRead(u)
  PROVE  /\ notifications' \subseteq NotificationRows
         /\ KeysTellRows'
         /\ \A n \in notifications : \E row \in notifications' :
               /\ row.uuid = n.uuid /\ row.event = n.event /\ row.to = n.to
               /\ n.read => row.read
<1>1. PICK ids \in SUBSET notifications :
         notifications' = (notifications \ ids) \cup {Seen(n) : n \in ids}
  BY DEF MarkRead
<1>2. \A n \in notifications :
         /\ Seen(n) \in NotificationRows
         /\ Seen(n).uuid = n.uuid /\ Seen(n).event = n.event
         /\ Seen(n).to = n.to /\ Seen(n).read
  BY DEF NotificationsTypeOK, NotificationRows, Seen
<1>3. notifications' \subseteq NotificationRows
  BY <1>1, <1>2 DEF NotificationsTypeOK
<1>4. \A row \in notifications' : \E n \in notifications :
         row.uuid = n.uuid /\ row.event = n.event /\ row.to = n.to
  BY <1>1, <1>2
<1>5. \A n \in notifications : \E row \in notifications' :
         /\ row.uuid = n.uuid /\ row.event = n.event /\ row.to = n.to
         /\ n.read => row.read
  BY <1>1, <1>2
<1>6. \A e \in Events : (NotificationsOf(e))' = {} <=> NotificationsOf(e) = {}
  BY <1>4, <1>5 DEF NotificationsOf
<1>7. hints' = hints
  BY DEF MarkRead
<1>9. \A n1, n2 \in notifications' : n1.uuid = n2.uuid => n1 = n2
  <2>1. SUFFICES ASSUME NEW n1 \in notifications', NEW n2 \in notifications',
                        n1.uuid = n2.uuid
                 PROVE  n1 = n2
    OBVIOUS
  <2>2. \A a, b \in notifications : a.uuid = b.uuid => a = b
    BY DEF KeysTellRows
  <2>3. n1 \in notifications \ ids \/ \E n \in ids : n1 = Seen(n)
    BY <1>1
  <2>4. n2 \in notifications \ ids \/ \E n \in ids : n2 = Seen(n)
    BY <1>1
  <2> QED  BY <1>2, <2>1, <2>2, <2>3, <2>4
<1>8. KeysTellRows'
  BY <1>4, <1>6, <1>7, <1>9 DEF KeysTellRows
<1> QED  BY <1>3, <1>5, <1>8

-----------------------------------------------------------------------------
LEMMA RowsStep ==
  ASSUME NotificationsInductive, [NotificationsNext]_nvars
  PROVE  /\ NotificationsTypeOK' /\ KeysTellRows'
         /\ \A n \in notifications : \E row \in notifications' :
               /\ row.uuid = n.uuid /\ row.event = n.event /\ row.to = n.to
               /\ n.read => row.read
         /\ \A p \in Partitions : /\ log[p] <= log'[p]
                                 /\ \A n \in Nat : n < log[p] =>
                                        RecordAt(p, n)' = RecordAt(p, n)
<1> DEFINE Kept == \A n \in notifications : \E row \in notifications' :
                      /\ row.uuid = n.uuid /\ row.event = n.event
                      /\ row.to = n.to
                      /\ n.read => row.read
           Grown == \A p \in Partitions :
                      /\ log[p] <= log'[p]
                      /\ \A n \in Nat : n < log[p] =>
                            RecordAt(p, n)' = RecordAt(p, n)
<1>1. TypeOK'
  BY StepIsGroupStep, TypeStep DEF NotificationsInductive, Inductive
<1>2. NotificationsTypeOK /\ InLog /\ KeysTellRows
  BY DEF NotificationsInductive
<1>3. log \in [Partitions -> Nat]
  BY <1>2, ConsumerAssumption DEF NotificationsTypeOK, TypeOK
<1>4. ASSUME UNCHANGED <<log, content>>
      PROVE  /\ content' \in [Partitions -> Seq(Events)]
             /\ \A p \in Partitions : Len(content'[p]) = log'[p]
             /\ Grown
  BY <1>2, <1>3, <1>4 DEF NotificationsTypeOK, RecordAt
<1>5. ASSUME UNCHANGED <<notifications, hints>>
      PROVE  /\ notifications' \subseteq NotificationRows
             /\ hints' \in [Events -> Nat]
             /\ KeysTellRows' /\ Kept
  BY <1>2, <1>5 DEF NotificationsTypeOK, KeysTellRows, NotificationsOf
<1>6. ASSUME NEW e \in Events, ProduceEvent(e)
      PROVE  NotificationsTypeOK' /\ KeysTellRows' /\ Kept /\ Grown
  <2>1. UNCHANGED <<notifications, hints>>
    BY <1>6 DEF ProduceEvent
  <2> QED  BY <1>1, <1>2, <1>5, <1>6, <2>1, Appends DEF NotificationsTypeOK
<1>7. ASSUME NEW u \in Users, MarkRead(u)
      PROVE  NotificationsTypeOK' /\ KeysTellRows' /\ Kept /\ Grown
  <2>1. UNCHANGED <<log, content, hints>>
    BY <1>7 DEF MarkRead, vars, broker
  <2> QED
    BY <1>1, <1>2, <1>4, <1>7, <2>1, RowsTyped DEF NotificationsTypeOK
<1>8. ASSUME NEW m \in Members, NEW p \in Partitions,
             next[m][p] < end[m][p], HandleEvent(m, p), log' = log
      PROVE  NotificationsTypeOK' /\ KeysTellRows' /\ Kept /\ Grown
  <2>1. UNCHANGED <<log, content>>
    BY <1>8 DEF HandleEvent
  <2>2. /\ notifications' \subseteq NotificationRows
        /\ hints' \in [Events -> Nat]
        /\ notifications \subseteq notifications'
        /\ KeysTellRows'
    BY <1>2, <1>8, HandlerTells
  <2> QED  BY <1>1, <1>4, <2>1, <2>2 DEF NotificationsTypeOK
<1>9. ASSUME NEW m \in Members, NEW p \in Partitions,
             Notify(m, p) \/ NotifyUnanswered(m, p)
      PROVE  NotificationsTypeOK' /\ KeysTellRows' /\ Kept /\ Grown
  BY <1>8, <1>9 DEF Notify, Handle, NotifyUnanswered, Stop, broker
<1>10. ASSUME Quiet, log' = log
       PROVE  NotificationsTypeOK' /\ KeysTellRows' /\ Kept /\ Grown
  BY <1>1, <1>4, <1>5, <1>10 DEF Quiet, NotificationsTypeOK
<1>11. ASSUME NEW m \in Members, NEW p \in Partitions,
              Assign(m, p) \/ Revoke(m, p)
       PROVE  log' = log
  BY <1>11 DEF Assign, Revoke, broker
<1>12. ASSUME NEW m \in Members, Start(m) \/ Poll(m) \/ Commit(m) \/ Stop(m)
       PROVE  log' = log
  BY <1>12 DEF Start, Poll, Commit, Stop, broker
<1>13. ASSUME UNCHANGED nvars
       PROVE  NotificationsTypeOK' /\ KeysTellRows' /\ Kept /\ Grown
  BY <1>10, <1>13 DEF nvars, vars, broker, Quiet
<1> DEFINE Goal == NotificationsTypeOK' /\ KeysTellRows' /\ Kept /\ Grown
<1> HIDE DEF Kept, Grown
<1>14. ASSUME NEW m \in Members, NotifierStep(m)
       PROVE  Goal
  BY <1>9, <1>10, <1>12, <1>14 DEF NotifierStep
<1>15. ASSUME NEW m \in Members, NEW p \in Partitions,
              \/ NotifyUnanswered(m, p)
              \/ Assign(m, p) /\ Quiet
              \/ Revoke(m, p) /\ Quiet
       PROVE  Goal
  BY <1>9, <1>10, <1>11, <1>15
<1>16. ASSUME NEW m \in Members, Stop(m) /\ Quiet
       PROVE  Goal
  BY <1>10, <1>12, <1>16
<1>17. NotificationsNext => Goal
  <2> HIDE DEF Goal
  <2>1. \A e \in Events : ProduceEvent(e) => Goal
    BY <1>6 DEF Goal
  <2>2. \A u \in Users : MarkRead(u) => Goal
    BY <1>7 DEF Goal
  <2> QED  BY <2>1, <2>2, <1>14, <1>15, <1>16, Zenon DEF NotificationsNext
<1>18. Goal
  BY <1>13, <1>17
<1> QED  BY <1>18 DEF Goal, Kept, Grown

(* A record below the old end of its partition stays told about.           *)
LEMMA ToldStays ==
  ASSUME NotificationsInductive, [NotificationsNext]_nvars,
         NEW p \in Partitions, NEW n \in handled[p]
  PROVE  n < log'[p] /\ Told(RecordAt(p, n))'
<1>1. n \in Nat /\ n < log[p] /\ Told(RecordAt(p, n))
  BY DEF NotificationsInductive, HandledIsTold, Inductive, TypeOK
<1>2. log[p] \in Nat /\ log'[p] \in Nat
  BY RowsStep, ConsumerAssumption
  DEF NotificationsInductive, NotificationsTypeOK, TypeOK
<1>3. log[p] <= log'[p] /\ RecordAt(p, n)' = RecordAt(p, n)
  BY <1>1, RowsStep
<1>4. Told(RecordAt(p, n))'
  BY <1>1, <1>3, RowsStep DEF Told
<1> QED  BY <1>1, <1>2, <1>3, <1>4

LEMMA ToldStep ==
  ASSUME NotificationsInductive, [NotificationsNext]_nvars
  PROVE  HandledIsTold'
<1>1. SUFFICES ASSUME NEW p \in Partitions, NEW n \in handled'[p],
                      n \notin handled[p]
               PROVE  n < log'[p] /\ Told(RecordAt(p, n))'
  BY ToldStays DEF HandledIsTold
<1>2. handled \in [Partitions -> SUBSET Nat]
  BY DEF NotificationsInductive, NotificationsTypeOK, TypeOK
<1>3. PICK m \in Members : Notify(m, p) /\ n = next[m][p]
  <2>1. handled' # handled
    BY <1>1
  <2>2. ASSUME NEW m \in Members, NEW q \in Partitions, Notify(m, q)
        PROVE  q = p /\ n = next[m][p]
    BY <1>1, <1>2, <2>2 DEF Notify, Handle
  <2>3. NotificationsNext
    BY <2>1 DEF nvars, vars
  <2>4. PICK m \in Members : NotifierStep(m)
    BY <2>1, <2>3
    DEF NotificationsNext, ProduceEvent, Produce, MarkRead, vars, Stop,
        NotifyUnanswered, Assign, Revoke
  <2>5. PICK q \in Partitions : Notify(m, q)
    BY <2>1, <2>4 DEF NotifierStep, Start, Poll, Commit
  <2> QED  BY <2>2, <2>5
<1>4. /\ n < log[p]
      /\ \A u \in Recipients(RecordAt(p, n)) :
            \E row \in notifications' :
               row.event = RecordAt(p, n) /\ row.to = u
  BY <1>3, HandlerTells DEF NotificationsInductive, Notify, Handle
<1>5. UNCHANGED <<log, content>>
  BY <1>3 DEF Notify, Handle, broker, HandleEvent
<1> QED  BY <1>4, <1>5 DEF Told, RecordAt

LEMMA NotificationsInitIsInductive == NotificationsInit => NotificationsInductive
<1> SUFFICES ASSUME NotificationsInit
             PROVE  NotificationsInductive
  OBVIOUS
<1>1. Inductive  BY InductiveInit DEF NotificationsInit
<1>2. NotificationsTypeOK
  BY <1>1 DEF NotificationsInit, NotificationsTypeOK, Inductive, Init, NoOffsets
<1>3. InLog
  BY DEF NotificationsInit, Init, InLog, NoOffsets
<1>4. KeysTellRows
  BY DEF NotificationsInit, KeysTellRows, NotificationsOf
<1>5. HandledIsTold
  BY DEF NotificationsInit, Init, HandledIsTold
<1> QED  BY <1>1, <1>2, <1>3, <1>4, <1>5 DEF NotificationsInductive

LEMMA AlwaysNotificationsInductive ==
  NotificationsSpec => []NotificationsInductive
<1>1. ASSUME NotificationsInductive, [NotificationsNext]_nvars
      PROVE  NotificationsInductive'
  <2>1. Inductive'
    BY <1>1, StepIsGroupStep, TypeStep, CommittedStep, NoGapsStep
    DEF NotificationsInductive, Inductive
  <2>2. InLog'
    BY <1>1, StepIsGroupStep, InLogStep DEF NotificationsInductive
  <2> QED
    BY <1>1, <2>1, <2>2, RowsStep, ToldStep DEF NotificationsInductive
<1> QED
  BY <1>1, NotificationsInitIsInductive, PTL DEF NotificationsSpec

-----------------------------------------------------------------------------
(* The notification worker is a consumer group: what is proved of the group*)
(* holds of the worker.                                                    *)
THEOREM WorkerIsGroup == NotificationsSpec => Spec
  BY IsGroup

(* At most one row and one hint per event and recipient, for any number of *)
(* repetitions by relay and group and any members.                         *)
THEOREM OnceCorrect == NotificationsSpec => []NotifiedOnce
<1>1. NotificationsInductive => NotifiedOnce
  <2> SUFFICES ASSUME NotificationsInductive
               PROVE  NotifiedOnce
    OBVIOUS
  <2>1. /\ \A e \in Events : /\ NotificationsOf(e) = {} => hints[e] = 0
                             /\ NotificationsOf(e) # {} => hints[e] = 1
        /\ notifications \subseteq NotificationRows
    BY DEF NotificationsInductive, KeysTellRows, NotificationsTypeOK
  <2>2. \A n1, n2 \in notifications :
           n1.event = n2.event /\ n1.to = n2.to => n1 = n2
    BY DEF NotificationsInductive, KeysTellRows
  <2> QED
    BY <2>1, <2>2 DEF NotifiedOnce
<1> QED  BY <1>1, AlwaysNotificationsInductive, PTL

(* Nobody is forgotten: what is committed was told.                        *)
THEOREM CommittedIsTold == NotificationsSpec => []CommittedIsNotified
<1>1. NotificationsInductive => CommittedIsNotified
  BY DEF NotificationsInductive, Inductive, CommittedIsHandled, HandledIsTold,
         Told, CommittedIsNotified
<1> QED  BY <1>1, AlwaysNotificationsInductive, PTL

(* A notification that was read never shows up unread again.               *)
THEOREM ReadCorrect == NotificationsSpec => ReadStaysRead
<1>1. NotificationsInductive /\ [NotificationsNext]_nvars =>
        [\A n \in notifications : \E row \in notifications' :
            row.uuid = n.uuid /\ (n.read => row.read)]_nvars
  BY RowsStep
<1> QED
  BY <1>1, AlwaysNotificationsInductive, PTL
  DEF NotificationsSpec, ReadStaysRead

-----------------------------------------------------------------------------
(* The membership worker.                                                  *)

(* Whoever has a registration has made one, members have a group, and the  *)
(* organizer's row, once there, is the owner's.                            *)
RowsTogether ==
    /\ \A u \in Users : registration[u] # "none" => attempts[u] # 0
    /\ \A u \in Users : membership[u] = "active" => group
    /\ GroupHasOwner

MembershipInductive ==
    Inductive /\ InLog /\ MembershipTypeOK /\ RowsTogether

LEMMA MembershipInitIsInductive ==
  MembershipInit => MembershipTypeOK /\ RowsTogether
<1> SUFFICES ASSUME MembershipInit
             PROVE  MembershipTypeOK /\ RowsTogether
  OBVIOUS
<1>1. TypeOK
  BY InductiveInit DEF MembershipInit, Inductive
<1>2. \A p \in Partitions : stream[p] = << >> /\ log[p] = 0
  BY DEF MembershipInit, Init, NoOffsets
<1>3. stream \in [Partitions -> Seq(EventsOfUsers)]
  BY <1>2 DEF MembershipInit
<1>4. \A p \in Partitions : Len(stream[p]) = log[p]
  BY <1>2
<1>5. /\ attempts \in [Users -> 0..MaxAttempts]
      /\ registration \in [Users -> Statuses]
  BY MembershipAssumption DEF MembershipInit, Statuses
<1>6. /\ group \in BOOLEAN /\ overlap \in BOOLEAN /\ crossed \subseteq Users
      /\ membership \in [Users -> {"none", "active", "left"}]
      /\ role \in [Users -> {"member", "owner"}]
  BY DEF MembershipInit
<1>7. RowsTogether
  BY PeopleAssumption DEF MembershipInit, RowsTogether, GroupHasOwner
<1> QED
  BY <1>1, <1>3, <1>4, <1>5, <1>6, <1>7 DEF MembershipTypeOK

(* A change of a registration stores one event at the end of one partition *)
LEMMA StoresEvent ==
  ASSUME MembershipTypeOK, NEW u \in Users, NEW kind, attempts'[u] \in Attempts,
         kind \in {"created", "approved"} \cup Outcomes, StoreEvent(u, kind)
  PROVE  LET p == RegistrationPartition[<<u, attempts'[u]>>]
             e == [user |-> u, kind |-> kind]
         IN /\ Produce(p) /\ p \in Partitions /\ e \in EventsOfUsers
            /\ log[p] \in Nat /\ log'[p] = log[p] + 1
            /\ stream'[p] = Append(stream[p], e)
            /\ \A q \in Partitions : q # p =>
                  stream'[q] = stream[q] /\ log'[q] = log[q]
            /\ stream' \in [Partitions -> Seq(EventsOfUsers)]
            /\ \A q \in Partitions : Len(stream'[q]) = log'[q]
            /\ crossed' \subseteq Users
<1> DEFINE p == RegistrationPartition[<<u, attempts'[u]>>]
           e == [user |-> u, kind |-> kind]
<1>1. p \in Partitions /\ e \in EventsOfUsers
  BY MembershipAssumption DEF EventsOfUsers
<1>2. Produce(p) /\ stream' = [stream EXCEPT ![p] = Append(@, e)]
  BY DEF StoreEvent
<1>3. /\ stream \in [Partitions -> Seq(EventsOfUsers)]
      /\ \A q \in Partitions : Len(stream[q]) = log[q]
      /\ log \in [Partitions -> Nat]
  BY ConsumerAssumption DEF MembershipTypeOK, TypeOK
<1> HIDE DEF p, e
<1>4. /\ log[p] \in Nat /\ log'[p] = log[p] + 1
      /\ stream'[p] = Append(stream[p], e)
      /\ \A q \in Partitions : q # p =>
            stream'[q] = stream[q] /\ log'[q] = log[q]
  BY <1>1, <1>2, <1>3 DEF Produce
<1>5. Append(stream[p], e) \in Seq(EventsOfUsers)
  BY <1>1, <1>3
<1>6. stream' \in [Partitions -> Seq(EventsOfUsers)]
  BY <1>1, <1>2, <1>3, <1>5
<1>7. Len(stream'[p]) = log'[p]
  BY <1>1, <1>3, <1>4
<1>8. \A q \in Partitions : Len(stream'[q]) = log'[q]
  BY <1>3, <1>4, <1>7
<1>9. /\ Produce(p) /\ p \in Partitions /\ e \in EventsOfUsers
      /\ log[p] \in Nat /\ log'[p] = log[p] + 1
      /\ stream'[p] = Append(stream[p], e)
      /\ \A q \in Partitions : q # p =>
            stream'[q] = stream[q] /\ log'[q] = log[q]
      /\ stream' \in [Partitions -> Seq(EventsOfUsers)]
      /\ \A q \in Partitions : Len(stream'[q]) = log'[q]
  BY <1>1, <1>2, <1>4, <1>6, <1>8
<1>10. crossed' \subseteq Users
  <2>1. crossed \subseteq Users
    BY DEF MembershipTypeOK
  <2>2. crossed' \in {crossed, crossed \ {u}, crossed \cup {u}}
    BY DEF StoreEvent
  <2> QED  BY <2>1, <2>2
<1> QED  BY <1>9, <1>10 DEF p, e

(* Of a registration that changes, an attempt has been made.               *)
Changes(u, kind) ==
    \/ Register(u) /\ kind = "created"
    \/ Decide(u, kind) /\ kind \in {"approved", "rejected", "expired"}
    \/ CancelRegistration(u) /\ kind = "cancelled"

LEMMA ChangeStores ==
  ASSUME MembershipInductive, NEW u \in Users, NEW kind, Changes(u, kind)
  PROVE  /\ attempts' \in [Users -> 0..MaxAttempts] /\ attempts'[u] \in Attempts
         /\ registration' \in [Users -> Statuses]
         /\ \A v \in Users : v # u => /\ attempts'[v] = attempts[v]
                                     /\ registration'[v] = registration[v]
         /\ kind \in {"created", "approved"} \cup Outcomes
         /\ StoreEvent(u, kind) /\ UNCHANGED <<chat, overlap>>
<1>0. /\ attempts \in [Users -> 0..MaxAttempts] /\ MaxAttempts \in Nat
      /\ registration \in [Users -> Statuses]
      /\ registration[u] # "none" => attempts[u] # 0
  BY MembershipAssumption DEF MembershipInductive, MembershipTypeOK, RowsTogether
<1>1. CASE Register(u) /\ kind = "created"
  BY <1>0, <1>1 DEF Register, Attempts, Statuses, Undecided
<1>2. CASE Decide(u, kind) /\ kind \in {"approved", "rejected", "expired"}
  BY <1>0, <1>2 DEF Decide, Attempts, Statuses, Undecided, Outcomes
<1>3. CASE CancelRegistration(u) /\ kind = "cancelled"
  BY <1>0, <1>3 DEF CancelRegistration, Attempts, Statuses, Undecided, Outcomes
<1> QED  BY <1>1, <1>2, <1>3 DEF Changes

(* What a step of the worker itself leaves alone.                          *)
MembershipWork ==
    \E m \in Members :
        \/ WorkerStep(m)
        \/ Stop(m) /\ ChatQuiet
        \/ \E p \in Partitions :
              \/ HandleFails(m, p)
              \/ AssignPartition(m, p)
              \/ Revoke(m, p) /\ ChatQuiet

LEMMA MembershipSteps ==
  [MembershipNext]_mvars =>
     \/ \E u \in Users, kind \in {"created", "approved"} \cup Outcomes : Changes(u, kind)
     \/ MembershipWork
     \/ UNCHANGED mvars
BY DEF MembershipNext, MembershipWork, Changes, Outcomes

LEMMA WorkIsGroupStep ==
  ASSUME MembershipWork
  PROVE  Next /\ UNCHANGED <<world, log>>
BY DEF MembershipWork, WorkerStep, HandleMembership, HandleFails, AssignPartition,
   ChatQuiet, MemberStep, Next, Start, Poll, Handle, Commit, Stop, Assign, Revoke,
   broker

LEMMA MembershipStepIsGroupStep ==
  ASSUME MembershipInductive, [MembershipNext]_mvars
  PROVE  [Next]_vars
<1>1. ASSUME NEW u \in Users, NEW kind, Changes(u, kind)
      PROVE  Next
  BY <1>1, ChangeStores, StoresEvent DEF MembershipInductive, Next
<1> QED  BY <1>1, MembershipSteps, WorkIsGroupStep DEF mvars

(* What the handler may do to the rows of the chat group.                  *)
LEMMA HandlerKeepsRows ==
  ASSUME MembershipInductive,
         NEW m \in Members, NEW p \in Partitions, next[m][p] < end[m][p],
         \/ HandleMembershipEvent(m, p)
         \/ /\ group' = TRUE
            /\ membership' = WithOwner(membership, "active")
            /\ role' = WithOwner(role, "owner")
  PROVE  /\ group' \in BOOLEAN
         /\ membership' \in [Users -> {"none", "active", "left"}]
         /\ role' \in [Users -> {"member", "owner"}]
         /\ \A u \in Users : membership'[u] = "active" => group'
         /\ GroupHasOwner'
         /\ EventOf(m, p) \in EventsOfUsers
<1>0. /\ group \in BOOLEAN /\ Organizer \in Users
      /\ membership \in [Users -> {"none", "active", "left"}]
      /\ role \in [Users -> {"member", "owner"}]
      /\ \A u \in Users : membership[u] = "active" => group
      /\ GroupHasOwner
  BY PeopleAssumption DEF MembershipInductive, MembershipTypeOK, RowsTogether
<1>1. EventOf(m, p) \in EventsOfUsers
  <2>1. next[m][p] + 1 \in 1..Len(stream[p]) /\ stream[p] \in Seq(EventsOfUsers)
    <3>1. /\ next[m][p] \in Nat /\ end[m][p] \in Nat /\ log[p] \in Nat
          /\ end[m][p] <= log[p] /\ Len(stream[p]) = log[p]
      BY ConsumerAssumption
      DEF MembershipInductive, MembershipTypeOK, TypeOK, Offsets, InLog
    <3>2. stream[p] \in Seq(EventsOfUsers)
      BY DEF MembershipInductive, MembershipTypeOK
    <3> QED  BY <3>1, <3>2
  <2> QED  BY <2>1 DEF EventOf
<1>3. /\ WithOwner(membership, "active") \in [Users -> {"none", "active", "left"}]
      /\ WithOwner(role, "owner") \in [Users -> {"member", "owner"}]
      /\ WithOwner(role, "owner")[Organizer] = "owner"
  BY <1>0 DEF WithOwner, GroupHasOwner
<1>4. CASE /\ group' = TRUE
           /\ membership' = WithOwner(membership, "active")
           /\ role' = WithOwner(role, "owner")
  BY <1>1, <1>3, <1>4 DEF GroupHasOwner
<1>5. CASE HandleMembershipEvent(m, p)
  <2> DEFINE u == EventOf(m, p).user
  <2>1. u \in Users
    BY <1>1 DEF EventsOfUsers
  <2>2. CASE JoinGroup(u)
    BY <1>1, <1>3, <2>1, <2>2 DEF JoinGroup, JoinedRole, GroupHasOwner
  <2>3. CASE LeaveGroup(u)
    BY <1>0, <1>1, <2>1, <2>3 DEF LeaveGroup, GroupHasOwner
  <2>4. CASE UNCHANGED chat
    BY <1>0, <1>1, <2>4 DEF chat, GroupHasOwner
  <2>5. chatMembershipActionFor(EventOf(m, p).kind) \in {"join", "leave", "ignore"}
    BY DEF chatMembershipActionFor
  <2> QED  BY <1>5, <2>2, <2>3, <2>4, <2>5 DEF HandleMembershipEvent
<1> QED  BY <1>4, <1>5

LEMMA MembershipInductiveStep ==
  MembershipInductive /\ [MembershipNext]_mvars => MembershipInductive'
<1> SUFFICES ASSUME MembershipInductive, [MembershipNext]_mvars
             PROVE  MembershipInductive'
  OBVIOUS
<1>1. Inductive' /\ InLog'
  BY MembershipStepIsGroupStep, InductiveStep, InLogStep DEF MembershipInductive
<1>2. TypeOK'
  BY <1>1 DEF Inductive
<1>3. ASSUME NEW u \in Users, NEW kind, Changes(u, kind)
      PROVE  MembershipTypeOK' /\ RowsTogether'
  <2>1. /\ stream' \in [Partitions -> Seq(EventsOfUsers)]
        /\ \A q \in Partitions : Len(stream'[q]) = log'[q]
        /\ crossed' \subseteq Users
    BY <1>3, ChangeStores, StoresEvent DEF MembershipInductive
  <2>2. /\ attempts' \in [Users -> 0..MaxAttempts] /\ attempts'[u] \in Attempts
        /\ registration' \in [Users -> Statuses]
        /\ \A v \in Users : v # u => /\ attempts'[v] = attempts[v]
                                    /\ registration'[v] = registration[v]
        /\ UNCHANGED <<chat, overlap>>
    BY <1>3, ChangeStores
  <2>3. MembershipTypeOK'
    BY <1>2, <2>1, <2>2 DEF MembershipTypeOK, MembershipInductive, chat
  <2> QED
    BY <2>2, <2>3 DEF RowsTogether, MembershipInductive, chat, GroupHasOwner, Attempts
<1>4. ASSUME UNCHANGED <<world, log>>,
             /\ group' \in BOOLEAN
             /\ membership' \in [Users -> {"none", "active", "left"}]
             /\ role' \in [Users -> {"member", "owner"}]
             /\ \A u \in Users : membership'[u] = "active" => group'
             /\ GroupHasOwner',
             overlap' \in BOOLEAN, crossed' \subseteq Users
      PROVE  MembershipTypeOK' /\ RowsTogether'
  BY <1>2, <1>4 DEF MembershipTypeOK, MembershipInductive, RowsTogether, world
<1>5. ASSUME UNCHANGED <<world, log, chat>>,
             overlap' \in BOOLEAN, crossed' \subseteq Users
      PROVE  MembershipTypeOK' /\ RowsTogether'
  BY <1>2, <1>5 DEF MembershipTypeOK, MembershipInductive, RowsTogether, world,
     chat, GroupHasOwner
<1>6. overlap \in BOOLEAN /\ crossed \subseteq Users
  BY DEF MembershipInductive, MembershipTypeOK
<1>7. ASSUME MembershipWork
      PROVE  MembershipTypeOK' /\ RowsTogether'
  <2>0. UNCHANGED <<world, log>>
    BY <1>7, WorkIsGroupStep
  <2>1. ASSUME NEW m \in Members, NEW p \in Partitions,
               HandleMembership(m, p) \/ HandleFails(m, p)
        PROVE  MembershipTypeOK' /\ RowsTogether'
    <3>1. next[m][p] < end[m][p] /\ UNCHANGED <<overlap, crossed>>
      BY <2>1 DEF HandleMembership, HandleFails, Handle, excuses
    <3>2. \/ HandleMembershipEvent(m, p)
          \/ /\ group' = TRUE
             /\ membership' = WithOwner(membership, "active")
             /\ role' = WithOwner(role, "owner")
      BY <2>1 DEF HandleMembership, HandleFails
    <3> QED  BY <1>4, <1>6, <2>0, <3>1, <3>2, HandlerKeepsRows
  <2>2. ASSUME NEW m \in Members, NEW p \in Partitions, AssignPartition(m, p)
        PROVE  MembershipTypeOK' /\ RowsTogether'
    <3>1. overlap' \in BOOLEAN /\ crossed' \subseteq Users
      BY <1>6, <2>2 DEF AssignPartition
    <3> QED  BY <1>5, <2>0, <2>2, <3>1 DEF AssignPartition
  <2>3. ASSUME ChatQuiet
        PROVE  MembershipTypeOK' /\ RowsTogether'
    BY <1>5, <1>6, <2>0, <2>3 DEF ChatQuiet, excuses
  <2>4. \/ ChatQuiet
        \/ \E m \in Members, p \in Partitions :
              \/ HandleMembership(m, p)
              \/ HandleFails(m, p)
              \/ AssignPartition(m, p)
    BY <1>7 DEF MembershipWork, WorkerStep
  <2> QED  BY <2>1, <2>2, <2>3, <2>4
<1>8. ASSUME UNCHANGED mvars
      PROVE  MembershipTypeOK' /\ RowsTogether'
  <2>1. UNCHANGED <<world, log, chat, overlap, crossed>>
    BY <1>8 DEF mvars, vars, broker, excuses
  <2> QED  BY <1>5, <1>6, <2>1
<1>9. MembershipTypeOK' /\ RowsTogether'
  BY <1>3, <1>7, <1>8, MembershipSteps
<1> QED  BY <1>1, <1>9 DEF MembershipInductive

LEMMA AlwaysMembershipInductive == MembershipSpec => []MembershipInductive
<1>1. MembershipInit => MembershipInductive
  <2>1. Init => InLog
    BY ConsumerAssumption DEF Init, InLog, NoOffsets
  <2> QED
    BY <2>1, MembershipInitIsInductive, InductiveInit
    DEF MembershipInit, MembershipInductive
<1> QED  BY <1>1, MembershipInductiveStep, PTL DEF MembershipSpec
-----------------------------------------------------------------------------
(* While no partition was given away with records of it in hand.           *)

Holds(m, p) == p \in mine[m] \/ next[m][p] < end[m][p]

OneHolder ==
    \A m, k \in Members, p \in Partitions : Holds(m, p) /\ Holds(k, p) => m = k

(* The holder goes on where the group has committed.                       *)
AtOffset ==
    \A m \in Members, p \in Partitions :
        /\ next[m][p] < end[m][p] => next[m][p] = committed[p]
        /\ p \in mine[m] => position[m][p] = IF next[m][p] < end[m][p]
                                               THEN end[m][p] ELSE committed[p]

InOrder == OneHolder /\ AtOffset

(* What one member knows of one partition.                                 *)
Right(m, p) ==
    /\ next[m][p] < end[m][p] => next[m][p] = committed[p]
    /\ p \in mine[m] => position[m][p] = IF next[m][p] < end[m][p]
                                           THEN end[m][p] ELSE committed[p]

(* A member that is not at work on a partition does not mind its offset.   *)
LEMMA OthersStayRight ==
  ASSUME InOrder, NEW m \in Members, NEW p \in Partitions,
         UNCHANGED <<next[m][p], end[m][p]>>,
         p \in mine'[m] => p \in mine[m] /\ position'[m][p] = position[m][p],
         \/ committed'[p] = committed[p]
         \/ \E k \in Members \ {m} : Holds(k, p)
  PROVE  Right(m, p)' /\ (Holds(m, p)' => Holds(m, p))
BY DEF InOrder, OneHolder, AtOffset, Right, Holds

LEMMA InOrderSteps ==
  ASSUME InOrder,
         \A m \in Members, p \in Partitions : Right(m, p)',
         \A m \in Members, p \in Partitions :
            Holds(m, p)' => \/ Holds(m, p)
                            \/ \A k \in Members \ {m} : ~Holds(k, p)'
  PROVE  InOrder'
<1>1. AtOffset'
  BY DEF AtOffset, Right
<1>2. OneHolder'
  <2> SUFFICES ASSUME NEW m \in Members, NEW k \in Members, NEW p \in Partitions,
                      Holds(m, p)', Holds(k, p)', m # k
               PROVE  FALSE
    BY DEF OneHolder, Holds
  <2> QED  BY DEF InOrder, OneHolder
<1> QED  BY <1>1, <1>2 DEF InOrder

(* The holder has handled one more record and its offset is committed.     *)
LEMMA HandlingHolds ==
  ASSUME Inductive, InOrder, NEW m \in Members, handling[m] # NoPartition
  PROVE  /\ handling[m] \in Partitions
         /\ Holds(m, handling[m])
         /\ next[m][handling[m]] = committed[handling[m]]
         /\ CommitOffset(m, handling[m]) = committed[handling[m]] + 1
BY DEF Inductive, TypeOK, NoGaps, InOrder, AtOffset, Holds, CommitOffset

LEMMA InOrderStep ==
  ASSUME Inductive, InLog, InOrder, [Next]_vars,
         \A m \in Members, p \in Partitions : Assign(m, p) => ~InHand(m, p)
  PROVE  InOrder'
<1> USE ConsumerAssumption
<1>0. /\ log \in [Partitions -> Nat] /\ committed \in [Partitions -> Nat]
      /\ mine \in [Members -> SUBSET Partitions]
      /\ handling \in [Members -> Partitions \cup {NoPartition}]
      /\ position \in [Members -> Offsets] /\ next \in [Members -> Offsets]
      /\ end \in [Members -> Offsets]
      /\ \A m \in Members, p \in Partitions :
            /\ next[m][p] \in Nat /\ end[m][p] \in Nat /\ position[m][p] \in Nat
            /\ next[m][p] <= end[m][p]
  BY DEF Inductive, TypeOK, Offsets, NoGaps
<1>1. \A m \in Members, p \in Partitions : Right(m, p)
  BY DEF InOrder, AtOffset, Right
<1>2. ASSUME NEW m \in Members, NEW p \in Partitions, Assign(m, p)
      PROVE  InOrder'
  <2>1. ~InHand(m, p)
    BY <1>2
  <2>2. /\ UNCHANGED <<next, end, committed>>
        /\ \A k \in Members : k # m => mine'[k] = mine[k] /\ position'[k] = position[k]
        /\ mine'[m] = mine[m] \cup {p} /\ position'[m][p] = committed[p]
        /\ \A q \in Partitions : q # p => position'[m][q] = position[m][q]
    BY <1>0, <1>2 DEF Assign, StartOffset, broker, Offsets
  <2>3. ~(next[m][p] < end[m][p]) /\ \A k \in Members \ {m} : ~Holds(k, p)
    BY <2>1 DEF InHand, Holds
  <2>4. \A k \in Members, q \in Partitions : Right(k, q)'
    BY <1>1, <2>2, <2>3 DEF Right
  <2>5. \A k \in Members, q \in Partitions : ~(k = m /\ q = p) =>
            (Holds(k, q)' <=> Holds(k, q))
    BY <2>2 DEF Holds
  <2>6. \A k \in Members, q \in Partitions :
            Holds(k, q)' => Holds(k, q) \/ \A j \in Members \ {k} : ~Holds(j, q)'
    BY <2>3, <2>5
  <2> QED  BY <2>4, <2>6, InOrderSteps
<1>3. ASSUME NEW m \in Members, NEW p \in Partitions, Revoke(m, p)
      PROVE  InOrder'
  <2>1. UNCHANGED <<next, end, committed, position>>
    BY <1>3 DEF Revoke, broker
  <2>2. \A k \in Members : mine'[k] \subseteq mine[k]
    BY <1>0, <1>3 DEF Revoke
  <2>3. \A k \in Members, q \in Partitions :
            Right(k, q)' /\ (Holds(k, q)' => Holds(k, q))
    BY <1>1, <2>1, <2>2 DEF Right, Holds
  <2> QED  BY <2>3, InOrderSteps
<1>4. ASSUME UNCHANGED <<mine, position, next, end, committed>>
      PROVE  InOrder'
  BY <1>4 DEF InOrder, OneHolder, AtOffset, Holds
<1>5. ASSUME NEW m \in Members, Poll(m)
      PROVE  InOrder'
  <2>1. PICK to \in [Partitions -> 0..MaxRecords] :
           /\ \A p \in Partitions :
                 IF p \in mine[m] /\ position[m][p] <= log[p]
                   THEN to[p] \in position[m][p]..log[p]
                   ELSE to[p] = position[m][p]
           /\ end' = [end EXCEPT ![m] = to]
           /\ position' = [position EXCEPT ![m] = to]
    BY <1>5 DEF Poll
  <2>2. UNCHANGED <<mine, committed>>
    BY <1>5 DEF Poll, broker
  <2>3. \A k \in Members : k # m => /\ next'[k] = next[k] /\ end'[k] = end[k]
                                    /\ position'[k] = position[k]
    BY <1>0, <1>5, <2>1 DEF Poll
  <2>4. /\ next'[m] = position[m] /\ end'[m] = to /\ position'[m] = to
        /\ \A p \in Partitions : next[m][p] = end[m][p]
    BY <1>0, <1>5, <2>1 DEF Poll
  <2>5. \A p \in Partitions : /\ position[m][p] <= to[p]
                              /\ p \notin mine[m] => to[p] = position[m][p]
                              /\ to[p] \in Nat
    BY <1>0, <2>1 DEF InLog
  <2>6. \A p \in Partitions : p \in mine[m] => position[m][p] = committed[p]
    BY <1>0, <1>1, <2>4 DEF Right
  <2>7. \A p \in Partitions : Right(m, p)' /\ (Holds(m, p)' => Holds(m, p))
    <3> SUFFICES ASSUME NEW p \in Partitions
                 PROVE  Right(m, p)' /\ (Holds(m, p)' => Holds(m, p))
      OBVIOUS
    <3>1. next'[m][p] = position[m][p] /\ end'[m][p] = to[p] /\ position'[m][p] = to[p]
      BY <2>4
    <3>2. /\ mine'[m] = mine[m] /\ committed'[p] = committed[p]
          /\ position[m][p] <= to[p] /\ position[m][p] \in Nat /\ to[p] \in Nat
      BY <1>0, <2>2, <2>5
    <3>3. CASE p \in mine[m]
      <4>1. position[m][p] = committed[p]
        BY <2>6, <3>3
      <4> QED  BY <3>1, <3>2, <3>3, <4>1 DEF Right, Holds
    <3>4. CASE p \notin mine[m]
      <4>1. to[p] = position[m][p]
        BY <2>5, <3>4
      <4> QED  BY <3>1, <3>2, <3>4, <4>1 DEF Right, Holds
    <3> QED  BY <3>3, <3>4
  <2>8. \A k \in Members, p \in Partitions : k # m =>
            Right(k, p)' /\ (Holds(k, p)' => Holds(k, p))
    BY <1>1, <2>2, <2>3 DEF Right, Holds
  <2> QED  BY <2>7, <2>8, InOrderSteps
<1>6. ASSUME NEW m \in Members, Commit(m)
      PROVE  InOrder'
  <2>0. PICK p \in Partitions : handling[m] = p
    BY <1>6, HandlingHolds DEF Commit
  <2>1. /\ p \in Partitions /\ Holds(m, p)
        /\ next[m][p] = committed[p] /\ CommitOffset(m, p) = committed[p] + 1
        /\ next[m][p] < end[m][p]
    BY <1>6, <2>0, HandlingHolds DEF Commit, Inductive, NoGaps
  <2>2. /\ committed' = [committed EXCEPT ![p] = CommitOffset(m, p)]
        /\ next' = [next EXCEPT ![m][p] = @ + 1]
        /\ UNCHANGED <<mine, position, end>>
    BY <1>6, <2>0 DEF Commit
  <2>3. /\ committed'[p] = committed[p] + 1
        /\ \A q \in Partitions : q # p => committed'[q] = committed[q]
        /\ next'[m][p] = committed[p] + 1
        /\ \A q \in Partitions : q # p => next'[m][q] = next[m][q]
        /\ \A k \in Members : k # m => next'[k] = next[k]
    BY <1>0, <2>1, <2>2 DEF Offsets
  <2>4. Right(m, p)' /\ (Holds(m, p)' => Holds(m, p))
    <3>1. p \in mine[m] => position[m][p] = end[m][p]
      BY <1>1, <2>1 DEF Right
    <3>2. next[m][p] \in Nat /\ end[m][p] \in Nat /\ next[m][p] + 1 <= end[m][p]
      BY <1>0, <2>1
    <3>3. /\ mine'[m] = mine[m] /\ position'[m][p] = position[m][p]
          /\ end'[m][p] = end[m][p] /\ next'[m][p] = next[m][p] + 1
          /\ committed'[p] = next[m][p] + 1
      BY <2>1, <2>2, <2>3
    <3> QED  BY <2>1, <3>1, <3>2, <3>3 DEF Right, Holds
  <2>5. \A k \in Members, q \in Partitions : ~(k = m /\ q = p) =>
            Right(k, q)' /\ (Holds(k, q)' => Holds(k, q))
    <3> SUFFICES ASSUME NEW k \in Members, NEW q \in Partitions, ~(k = m /\ q = p)
                 PROVE  Right(k, q)' /\ (Holds(k, q)' => Holds(k, q))
      OBVIOUS
    <3>1. UNCHANGED <<next[k][q], end[k][q]>>
      BY <2>2, <2>3
    <3>2. committed'[q] = committed[q] \/ \E j \in Members \ {k} : Holds(j, q)
      BY <2>1, <2>3
    <3> QED  BY <2>2, <3>1, <3>2, OthersStayRight
  <2> QED  BY <2>4, <2>5, InOrderSteps
<1>7. ASSUME NEW m \in Members, Stop(m)
      PROVE  InOrder'
  <2>1. /\ mine'[m] = {}
        /\ \A p \in Partitions : next'[m][p] = 0 /\ end'[m][p] = 0
        /\ \A k \in Members : k # m => /\ next'[k] = next[k] /\ end'[k] = end[k]
                                       /\ position'[k] = position[k] /\ mine'[k] = mine[k]
    BY <1>0, <1>7 DEF Stop, NoOffsets
  <2>2. \A p \in Partitions : committed'[p] = committed[p] \/ Holds(m, p)
    BY <1>0, <1>7, HandlingHolds DEF Stop
  <2>3. \A p \in Partitions : Right(m, p)' /\ ~Holds(m, p)'
    BY <2>1 DEF Right, Holds
  <2>4. \A k \in Members, p \in Partitions : k # m =>
            Right(k, p)' /\ (Holds(k, p)' => Holds(k, p))
    <3> SUFFICES ASSUME NEW k \in Members, NEW p \in Partitions, k # m
                 PROVE  Right(k, p)' /\ (Holds(k, p)' => Holds(k, p))
      OBVIOUS
    <3>1. committed'[p] = committed[p] \/ \E j \in Members \ {k} : Holds(j, p)
      BY <2>2
    <3> QED  BY <2>1, <3>1, OthersStayRight
  <2>5. /\ \A k \in Members, p \in Partitions : Right(k, p)'
        /\ \A k \in Members, p \in Partitions : Holds(k, p)' => Holds(k, p)
    BY <2>3, <2>4
  <2> QED  BY <2>5, InOrderSteps
<1> QED
  BY <1>2, <1>3, <1>4, <1>5, <1>6, <1>7 DEF Next, MemberStep, Produce, Start, Handle,
     vars, broker, member
-----------------------------------------------------------------------------
(* What the decisions that are not committed say, and that the members     *)
(* follow them.                                                            *)

Current(p) == committed[p] + 1
AtWork(p) == \E m \in Members : handling[m] = p

IsMember(u) == membership[u] = "active"
IsApproved(u) == registration[u] = "approved"
Approves(p, i) == stream[p][i].kind = "approved"

(* No decision of u is beside an open one in another partition.            *)
OneSide(u) ==
    \A p, q \in Partitions : OpenIn(u, p) # {} /\ OpenIn(u, q) # {} => p = q

(* The last open decision is what the registration says.                   *)
LastIsRow(u) ==
    \A p \in Partitions : \A i \in OpenIn(u, p) :
        (\A j \in OpenIn(u, p) : j <= i) => (Approves(p, i) <=> IsApproved(u))

(* With none open, the row of the group is.                                *)
AtRest(u) ==
    (\A p \in Partitions : OpenIn(u, p) = {}) => (IsMember(u) <=> IsApproved(u))

(* A decision that has been handled and not committed is what the row says.*)
CurrentIsFollowed(u) ==
    \A p \in Partitions :
        AtWork(p) /\ Current(p) \in OpenIn(u, p) =>
            (IsMember(u) <=> Approves(p, Current(p)))

Follows(u) == OneSide(u) /\ LastIsRow(u) /\ AtRest(u) /\ CurrentIsFollowed(u)

MembersAtOffset == \A u \in Registrants \ crossed : Follows(u)

History == ~overlap => InOrder /\ MembersAtOffset

(* Nothing that is about u changes.                                        *)
LEMMA FollowsFrame ==
  ASSUME NEW u, Follows(u),
         IsMember(u)' <=> IsMember(u), IsApproved(u)' <=> IsApproved(u),
         \A p \in Partitions :
            /\ OpenIn(u, p)' = OpenIn(u, p) /\ committed'[p] = committed[p]
            /\ \A i \in OpenIn(u, p) : stream'[p][i] = stream[p][i]
            /\ AtWork(p)' /\ Current(p) \in OpenIn(u, p) => AtWork(p)
  PROVE  Follows(u)'
<1>1. OneSide(u)'
  BY DEF Follows, OneSide
<1>2. LastIsRow(u)'
  BY DEF Follows, LastIsRow, Approves
<1>3. AtRest(u)'
  BY DEF Follows, AtRest
<1>4. CurrentIsFollowed(u)'
  BY DEF Follows, CurrentIsFollowed, Current, Approves
<1> QED  BY <1>1, <1>2, <1>3, <1>4 DEF Follows

(* What a change of a registration makes of the open decisions.            *)
LEMMA ChangeOpens ==
  ASSUME MembershipInductive, NEW v \in Users, NEW kind, Changes(v, kind),
         NEW p \in Partitions, p = RegistrationPartition[<<v, attempts'[v]>>]
  PROVE  /\ \A q \in Partitions : \A u : \A i \in OpenIn(u, q) :
               stream'[q][i] = stream[q][i] /\ i \in 1..log[q]
         /\ \A q \in Partitions : \A u :
               OpenIn(u, q)' = IF q = p /\ u = v /\ kind \in Decisions
                                 THEN OpenIn(u, q) \cup {log[p] + 1}
                                 ELSE OpenIn(u, q)
         /\ stream'[p][log[p] + 1].kind = kind
         /\ log[p] \in Nat
<1> DEFINE e == [user |-> v, kind |-> kind]
<1>1. /\ stream \in [Partitions -> Seq(EventsOfUsers)]
      /\ \A q \in Partitions : /\ Len(stream[q]) = log[q] /\ log[q] \in Nat
                               /\ committed[q] \in Nat /\ committed[q] <= log[q]
  BY ConsumerAssumption
  DEF MembershipInductive, MembershipTypeOK, TypeOK, Offsets, InLog
<1>2. /\ attempts'[v] \in Attempts
      /\ kind \in {"created", "approved"} \cup Outcomes /\ StoreEvent(v, kind)
  BY ChangeStores
<1>3. /\ log'[p] = log[p] + 1 /\ stream'[p] = Append(stream[p], e)
      /\ \A q \in Partitions : q # p =>
            stream'[q] = stream[q] /\ log'[q] = log[q]
      /\ committed' = committed
  BY <1>2, StoresEvent DEF MembershipInductive, Produce
<1>4. e.user = v /\ e.kind = kind
  OBVIOUS
<1> HIDE DEF e
<1>5. /\ \A i \in 1..log[p] : stream'[p][i] = stream[p][i]
      /\ stream'[p][log[p] + 1] = e
  BY <1>1, <1>3
<1>6. \A q \in Partitions : \A i \in 1..log[q] : stream'[q][i] = stream[q][i]
  BY <1>3, <1>5
<1>7. \A q \in Partitions : \A u : \A i \in OpenIn(u, q) :
          i \in 1..log[q]
  BY <1>1 DEF OpenIn
<1>8. ASSUME NEW u, NEW q \in Partitions, q # p
      PROVE  OpenIn(u, q)' = OpenIn(u, q)
  BY <1>3, <1>8 DEF OpenIn, Decides
<1>9. ASSUME NEW u
      PROVE  OpenIn(u, p)' = IF u = v /\ kind \in Decisions
                               THEN OpenIn(u, p) \cup {log[p] + 1}
                               ELSE OpenIn(u, p)
  <2>1. \A i : i \in committed'[p] + 1..log'[p] <=>
                 i \in committed[p] + 1..log[p] \/ i = log[p] + 1
    BY <1>1, <1>3
  <2>2. \A i \in committed[p] + 1..log[p] : Decides(u, p, i)' <=> Decides(u, p, i)
    <3>1. \A i \in committed[p] + 1..log[p] : i \in 1..log[p]
      BY <1>1
    <3> QED  BY <1>6, <3>1 DEF Decides
  <2>3. \A i : i = log[p] + 1 =>
            (Decides(u, p, i)' <=> u = v /\ kind \in Decisions)
    BY <1>1, <1>3, <1>4, <1>5 DEF Decides
  <2> QED  BY <2>1, <2>2, <2>3 DEF OpenIn
<1> QED  BY <1>1, <1>4, <1>5, <1>6, <1>7, <1>8, <1>9

LEMMA ChangeTells ==
  ASSUME RequireApproval, NEW v \in Users, NEW kind, Changes(v, kind),
         registration \in [Users -> Statuses]
  PROVE  IsApproved(v)' <=> \/ kind = "approved"
                            \/ kind = "created" /\ IsApproved(v)
<1>1. CASE Register(v) /\ kind = "created"
  BY <1>1 DEF Register, Undecided, IsApproved
<1>2. CASE Decide(v, kind)
  BY <1>2 DEF Decide, IsApproved
<1>3. CASE CancelRegistration(v) /\ kind = "cancelled"
  BY <1>3 DEF CancelRegistration, IsApproved
<1> QED  BY <1>1, <1>2, <1>3 DEF Changes

(* A decision of u follows the open ones in its partition, or there are    *)
(* none, or u has crossed.                                                 *)
LEMMA ChangeFollows ==
  ASSUME RequireApproval, MembershipInductive, InOrder, MembersAtOffset,
         NEW v \in Users, NEW kind, Changes(v, kind)
  PROVE  MembersAtOffset'
<1>1. PICK p \in Partitions : p = RegistrationPartition[<<v, attempts'[v]>>]
  BY ChangeStores, StoresEvent DEF MembershipInductive
<1>2. /\ UNCHANGED <<membership, committed, handling>>
      /\ registration \in [Users -> Statuses]
      /\ \A u \in Users : u # v => registration'[u] = registration[u]
      /\ kind \in {"created", "approved"} \cup Outcomes /\ StoreEvent(v, kind)
  BY ChangeStores, StoresEvent
  DEF MembershipInductive, MembershipTypeOK, Produce, member, chat
<1>3. /\ \A q \in Partitions : AtWork(q)' <=> AtWork(q)
      /\ \A q \in Partitions : Current(q)' = Current(q)
      /\ \A u : IsMember(u)' <=> IsMember(u)
  BY <1>2 DEF AtWork, Current, IsMember
<1>4. SUFFICES ASSUME NEW u \in Registrants, u \notin crossed'
               PROVE  Follows(u)'
  BY DEF MembersAtOffset
<1>5. u \in Users
  BY DEF Registrants
<1>6. ASSUME u \notin crossed, u # v \/ kind = "created"
      PROVE  Follows(u)'
  <2>1. Follows(u)
    BY <1>6 DEF MembersAtOffset
  <2>2. IsApproved(u)' <=> IsApproved(u)
    BY <1>2, <1>5, <1>6, ChangeTells DEF IsApproved
  <2>3. kind = "created" => kind \notin Decisions
    BY DEF Decisions, Outcomes
  <2>4. \A q \in Partitions :
          /\ OpenIn(u, q)' = OpenIn(u, q)
          /\ \A i \in OpenIn(u, q) : stream'[q][i] = stream[q][i]
    BY <1>1, <1>6, <2>3, ChangeOpens
  <2> QED  BY <1>2, <1>3, <2>1, <2>2, <2>4, FollowsFrame
<1>7. CASE u # v \/ kind = "created"
  <2>1. u \notin crossed
    BY <1>2, <1>4, <1>7 DEF StoreEvent
  <2> QED  BY <1>6, <1>7, <2>1
<1>8. CASE u = v /\ kind # "created"
  <2>0. PICK n : n = log[p] + 1
    OBVIOUS
  <2>1. /\ kind \in Decisions /\ (IsApproved(u)' <=> kind = "approved")
    BY <1>2, <1>8, ChangeTells DEF Decisions, IsApproved
  <2>2. \A q \in Partitions : q # p => OpenIn(u, q) = {}
    BY <1>1, <1>2, <1>4, <1>5, <1>8 DEF StoreEvent
  <2>3. /\ OpenIn(u, p)' = OpenIn(u, p) \cup {n}
        /\ \A q \in Partitions : q # p => OpenIn(u, q)' = {}
        /\ \A i \in OpenIn(u, p) : stream'[p][i] = stream[p][i] /\ i \in 1..log[p]
        /\ (Approves(p, n)' <=> kind = "approved")
        /\ log[p] \in Nat
    BY <1>1, <1>8, <2>0, <2>1, <2>2, ChangeOpens DEF Approves
  <2>4. OneSide(u)'
    BY <2>3 DEF OneSide
  <2>5. LastIsRow(u)'
    <3> SUFFICES ASSUME NEW i \in OpenIn(u, p)',
                        \A j \in OpenIn(u, p)' : j <= i
                 PROVE  Approves(p, i)' <=> IsApproved(u)'
      BY <2>3 DEF LastIsRow
    <3>1. n <= i /\ (i = n \/ i \in 1..log[p])
      BY <2>3
    <3>2. i = n
      BY <2>0, <2>3, <3>1
    <3> QED  BY <2>1, <2>3, <3>2
  <2>6. AtRest(u)'
    BY <2>3 DEF AtRest
  <2>7. CurrentIsFollowed(u)'
    <3> SUFFICES ASSUME AtWork(p), Current(p) \in OpenIn(u, p)'
                 PROVE  IsMember(u) <=> Approves(p, Current(p))'
      BY <1>3, <2>3 DEF CurrentIsFollowed
    <3>1. Current(p) \in OpenIn(u, p)
      <4>1. PICK m \in Members : handling[m] = p
        BY DEF AtWork
      <4>2. /\ next[m][p] < end[m][p] /\ end[m][p] <= log[p]
            /\ next[m][p] = committed[p] /\ end[m][p] \in Nat
            /\ committed[p] \in Nat
        BY <4>1 DEF MembershipInductive, Inductive, TypeOK, Offsets, NoGaps, InLog,
           InOrder, AtOffset
      <4> QED  BY <2>0, <2>3, <4>2 DEF Current
    <3>2. Approves(p, Current(p))' <=> Approves(p, Current(p))
      BY <1>3, <2>3, <3>1 DEF Approves
    <3>3. u \notin crossed \/ OpenIn(u, p) = {}
      BY <1>1, <1>2, <1>4, <1>8, <2>2 DEF StoreEvent
    <3>4. Follows(u)
      BY <3>1, <3>3 DEF MembersAtOffset
    <3> QED  BY <3>1, <3>2, <3>4 DEF Follows, CurrentIsFollowed
  <2> QED  BY <2>4, <2>5, <2>6, <2>7 DEF Follows
<1> QED  BY <1>7, <1>8

(* The handler of a record makes the rows of registrants what it says, if  *)
(* it is an open decision about them, and touches no other registrant.     *)
LEMMA HandlerDecides ==
  ASSUME MembershipInductive, InOrder,
         NEW m \in Members, NEW p \in Partitions, next[m][p] < end[m][p],
         HandleMembershipEvent(m, p), NEW u \in Registrants
  PROVE  /\ Current(p) \in OpenIn(u, p) => (IsMember(u)' <=> Approves(p, Current(p)))
         /\ Current(p) \notin OpenIn(u, p) => (IsMember(u)' <=> IsMember(u))
<1> DEFINE e == EventOf(m, p)
<1>1. /\ e = stream[p][Current(p)] /\ e \in EventsOfUsers
      /\ Current(p) \in committed[p] + 1..log[p]
  <2>1. /\ next[m][p] \in Nat /\ end[m][p] \in Nat /\ log[p] \in Nat
        /\ committed[p] \in Nat /\ end[m][p] <= log[p]
        /\ Len(stream[p]) = log[p] /\ stream[p] \in Seq(EventsOfUsers)
    BY ConsumerAssumption
    DEF MembershipInductive, MembershipTypeOK, TypeOK, Offsets, InLog
  <2>2. next[m][p] = committed[p]
    BY DEF InOrder, AtOffset
  <2>3. Current(p) \in 1..Len(stream[p]) /\ Current(p) \in committed[p] + 1..log[p]
    BY <2>1, <2>2 DEF Current
  <2> QED  BY <2>1, <2>2, <2>3 DEF EventOf, Current
<1>2. /\ e.user \in Users /\ e.kind \in {"created", "approved"} \cup Outcomes
      /\ u \in Users /\ u # Organizer
  BY <1>1 DEF EventsOfUsers, Registrants
<1>3. /\ membership \in [Users -> {"none", "active", "left"}]
      /\ \A v \in Users : membership[v] = "active" => group
  BY DEF MembershipInductive, MembershipTypeOK, RowsTogether
<1>4. /\ e.kind = "approved" => JoinGroup(e.user)
      /\ e.kind \in Outcomes => LeaveGroup(e.user)
      /\ e.kind = "created" => UNCHANGED chat
  BY <1>2 DEF HandleMembershipEvent, chatMembershipActionFor, Outcomes
<1>5. Current(p) \in OpenIn(u, p) <=> e.user = u /\ e.kind \in Decisions
  BY <1>1 DEF OpenIn, Decides
<1>6. Approves(p, Current(p)) <=> e.kind = "approved"
  BY <1>1 DEF Approves
<1> HIDE DEF e
<1>7. u # e.user => membership'[u] = membership[u]
  BY <1>2, <1>3, <1>4 DEF JoinGroup, LeaveGroup, WithOwner, chat
<1>8. u = e.user =>
        /\ e.kind = "approved" => membership'[u] = "active"
        /\ e.kind \in Outcomes => membership'[u] # "active"
        /\ e.kind = "created" => membership'[u] = membership[u]
  BY <1>2, <1>3, <1>4 DEF JoinGroup, LeaveGroup, WithOwner, chat
<1>9. e.kind \in Decisions <=> e.kind # "created"
  BY <1>2 DEF Decisions, Outcomes
<1> QED
  BY <1>2, <1>5, <1>6, <1>7, <1>8, <1>9 DEF IsMember, Decisions, Outcomes

(* So the members follow a handler, also one that fails after it was done: *)
(* an open decision about u that is in another partition there is not.     *)
LEMMA HandledFollows ==
  ASSUME NEW p \in Partitions, NEW u \in Registrants, Follows(u),
         Current(p) \in OpenIn(u, p) => (IsMember(u)' <=> Approves(p, Current(p))),
         Current(p) \notin OpenIn(u, p) => (IsMember(u)' <=> IsMember(u)),
         UNCHANGED <<registration, committed, log, stream>>,
         \A q \in Partitions : AtWork(q)' => AtWork(q) \/ q = p
  PROVE  Follows(u)'
<1>1. \A q \in Partitions : OpenIn(u, q)' = OpenIn(u, q)
  BY DEF OpenIn, Decides
<1>2. OneSide(u)' /\ LastIsRow(u)'
  BY <1>1 DEF Follows, OneSide, LastIsRow, Approves, IsApproved
<1>3. AtRest(u)'
  BY <1>1 DEF Follows, AtRest, IsApproved
<1>4. CurrentIsFollowed(u)'
  <2> SUFFICES ASSUME NEW q \in Partitions, AtWork(q)',
                      Current(q) \in OpenIn(u, q)
               PROVE  IsMember(u)' <=> Approves(q, Current(q))
    BY <1>1 DEF CurrentIsFollowed, Current, Approves
  <2>1. CASE q # p
    <3>1. IsMember(u) <=> Approves(q, Current(q))
      BY <2>1 DEF Follows, CurrentIsFollowed
    <3>2. Current(p) \notin OpenIn(u, p)
      BY <2>1 DEF Follows, OneSide
    <3> QED  BY <3>1, <3>2
  <2> QED  BY <2>1
<1> QED  BY <1>2, <1>3, <1>4 DEF Follows

(* A commit closes the decision that the row of its user follows.          *)
LEMMA CommittedFollows ==
  ASSUME MembershipInductive, NEW p \in Partitions, AtWork(p), ~AtWork(p)',
         \A q \in Partitions : AtWork(q)' => AtWork(q),
         \A q \in Partitions : committed'[q] = IF q = p THEN committed[p] + 1
                                                        ELSE committed[q],
         UNCHANGED <<registration, membership, log, stream>>,
         NEW u \in Registrants, Follows(u)
  PROVE  Follows(u)'
<1>1. committed[p] \in Nat /\ log[p] \in Nat
  BY DEF MembershipInductive, MembershipTypeOK, TypeOK, Offsets
<1>2. /\ OpenIn(u, p)' = OpenIn(u, p) \ {Current(p)}
      /\ \A q \in Partitions : q # p => OpenIn(u, q)' = OpenIn(u, q)
      /\ \A i \in OpenIn(u, p) : Current(p) <= i
  BY <1>1 DEF OpenIn, Decides, Current
<1>3. OneSide(u)'
  BY <1>2 DEF Follows, OneSide
<1>4. LastIsRow(u)'
  <2> SUFFICES ASSUME NEW q \in Partitions, NEW i \in OpenIn(u, q)',
                      \A j \in OpenIn(u, q)' : j <= i
               PROVE  Approves(q, i) <=> IsApproved(u)
    BY DEF LastIsRow, Approves, IsApproved
  <2>1. i \in OpenIn(u, q)
    BY <1>2
  <2>2. \A j \in OpenIn(u, q) : j <= i
    BY <1>2, <2>1
  <2> QED  BY <2>1, <2>2 DEF Follows, LastIsRow
<1>5. AtRest(u)'
  <2> SUFFICES ASSUME \A q \in Partitions : OpenIn(u, q)' = {}
               PROVE  IsMember(u) <=> IsApproved(u)
    BY DEF AtRest, IsMember, IsApproved
  <2>1. CASE Current(p) \notin OpenIn(u, p)
    BY <1>2, <2>1 DEF Follows, AtRest
  <2>2. CASE Current(p) \in OpenIn(u, p)
    <3>1. \A j \in OpenIn(u, p) : j = Current(p)
      BY <1>2
    <3>2. Current(p) <= Current(p)
      BY <1>1 DEF Current
    <3>3. Approves(p, Current(p)) <=> IsApproved(u)
      BY <2>2, <3>1, <3>2 DEF Follows, LastIsRow
    <3> QED  BY <2>2, <3>3 DEF Follows, CurrentIsFollowed
  <2> QED  BY <2>1, <2>2
<1>6. CurrentIsFollowed(u)'
  <2> SUFFICES ASSUME NEW q \in Partitions, q # p, AtWork(q)',
                      Current(q)' \in OpenIn(u, q)'
               PROVE  IsMember(u) <=> Approves(q, Current(q))
    BY DEF CurrentIsFollowed, Current, Approves, IsMember
  <2>1. Current(q)' = Current(q)
    BY DEF Current
  <2> QED  BY <1>2, <2>1 DEF Follows, CurrentIsFollowed
<1> QED  BY <1>3, <1>4, <1>5, <1>6 DEF Follows

(* Stopping and committing, the group's offset moves past the record that  *)
(* the holder has handled.                                                 *)
LEMMA OffsetFollows ==
  ASSUME MembershipInductive, InOrder, MembersAtOffset,
         NEW m \in Members, handling[m] # NoPartition,
         committed' = [committed EXCEPT ![handling[m]] = CommitOffset(m, handling[m])],
         UNCHANGED <<registration, membership, log, stream, crossed>>,
         \A k \in Members : handling'[k] = IF k = m THEN NoPartition ELSE handling[k]
  PROVE  MembersAtOffset'
<1>1. PICK p \in Partitions :
         /\ handling[m] = p /\ Holds(m, p) /\ CommitOffset(m, p) = committed[p] + 1
  BY HandlingHolds DEF MembershipInductive
<1>2. \A q \in Partitions : committed'[q] = IF q = p THEN committed[p] + 1
                                                     ELSE committed[q]
  BY <1>1 DEF MembershipInductive, MembershipTypeOK, TypeOK, Offsets
<1>3. \A k \in Members : k # m => handling[k] # p
  BY <1>1, HandlingHolds, ConsumerAssumption
  DEF InOrder, OneHolder, MembershipInductive
<1>4. /\ AtWork(p) /\ ~AtWork(p)'
      /\ \A q \in Partitions : AtWork(q)' => AtWork(q)
  BY <1>1, <1>3, ConsumerAssumption DEF AtWork
<1> QED  BY <1>2, <1>4, CommittedFollows DEF MembersAtOffset

LEMMA FollowStep ==
  ASSUME RequireApproval, MembershipInductive, InOrder, MembersAtOffset,
         [MembershipNext]_mvars
  PROVE  MembersAtOffset'
<1>0. /\ handling \in [Members -> Partitions \cup {NoPartition}]
      /\ NoPartition \notin Partitions
  BY ConsumerAssumption DEF MembershipInductive, MembershipTypeOK, TypeOK
<1>1. ASSUME UNCHANGED <<registration, committed, log, stream, crossed>>,
             \A q \in Partitions : AtWork(q)' => AtWork(q),
             \A u \in Registrants : IsMember(u)' <=> IsMember(u)
      PROVE  MembersAtOffset'
  <2> SUFFICES ASSUME NEW u \in Registrants \ crossed
               PROVE  Follows(u)'
    BY <1>1 DEF MembersAtOffset
  <2>1. /\ Follows(u) /\ (IsMember(u)' <=> IsMember(u))
        /\ (IsApproved(u)' <=> IsApproved(u))
    BY <1>1 DEF MembersAtOffset, IsApproved
  <2>2. \A q \in Partitions : OpenIn(u, q)' = OpenIn(u, q)
    BY <1>1 DEF OpenIn, Decides
  <2> QED  BY <1>1, <2>1, <2>2, FollowsFrame
<1>2. ASSUME NEW v \in Users, NEW kind, Changes(v, kind)
      PROVE  MembersAtOffset'
  BY <1>2, ChangeFollows
<1>3. ASSUME NEW m \in Members, NEW p \in Partitions, HandleMembershipEvent(m, p),
             next[m][p] < end[m][p],
             UNCHANGED <<registration, committed, log, stream, crossed>>,
             \A q \in Partitions : AtWork(q)' => AtWork(q) \/ q = p
      PROVE  MembersAtOffset'
  <2> SUFFICES ASSUME NEW u \in Registrants \ crossed
               PROVE  Follows(u)'
    BY <1>3 DEF MembersAtOffset
  <2>1. Follows(u)
    BY DEF MembersAtOffset
  <2> QED  BY <1>3, <2>1, HandlerDecides, HandledFollows
<1>4. ASSUME NEW m \in Members, NEW p \in Partitions, HandleMembership(m, p)
      PROVE  MembersAtOffset'
  <2>1. \A q \in Partitions : AtWork(q)' => AtWork(q) \/ q = p
    BY <1>0, <1>4 DEF HandleMembership, Handle, AtWork
  <2> QED
    BY <1>3, <1>4, <2>1 DEF HandleMembership, Handle, broker, world, excuses
<1>5. ASSUME NEW m \in Members, NEW p \in Partitions, HandleFails(m, p)
      PROVE  MembersAtOffset'
  <2>1. /\ next[m][p] < end[m][p]
        /\ UNCHANGED <<registration, committed, log, stream, crossed>>
        /\ \A q \in Partitions : AtWork(q)' => AtWork(q)
    BY <1>0, <1>5 DEF HandleFails, Stop, world, excuses, AtWork
  <2>2. CASE HandleMembershipEvent(m, p)
    BY <1>3, <2>1, <2>2
  <2>3. CASE membership' = WithOwner(membership, "active")
    <3>1. \A u \in Registrants : membership'[u] = membership[u]
      BY <2>3 DEF WithOwner, Registrants, MembershipInductive, MembershipTypeOK
    <3> QED  BY <1>1, <2>1, <3>1 DEF IsMember
  <2> QED  BY <1>5, <2>2, <2>3 DEF HandleFails
<1>6. ASSUME NEW m \in Members, Commit(m) \/ Stop(m), ChatQuiet
      PROVE  MembersAtOffset'
  <2>1. \A k \in Members : handling'[k] = IF k = m THEN NoPartition ELSE handling[k]
    BY <1>0, <1>6 DEF Commit, Stop
  <2>2. UNCHANGED <<registration, membership, log, stream, crossed>>
    BY <1>6 DEF Commit, Stop, ChatQuiet, world, chat, excuses
  <2>3. \/ committed' = committed
        \/ /\ handling[m] # NoPartition
           /\ committed' = [committed EXCEPT ![handling[m]] =
                                CommitOffset(m, handling[m])]
    BY <1>6 DEF Commit, Stop
  <2>4. CASE committed' = committed
    <3>1. \A q \in Partitions : AtWork(q)' => AtWork(q)
      BY <1>0, <2>1 DEF AtWork
    <3> QED  BY <1>1, <2>2, <2>4, <3>1 DEF IsMember
  <2> QED  BY <2>1, <2>2, <2>3, <2>4, OffsetFollows
<1>7. ASSUME NEW m \in Members, NEW p \in Partitions,
             \/ Start(m) /\ ChatQuiet
             \/ Poll(m) /\ ChatQuiet
             \/ AssignPartition(m, p)
             \/ Revoke(m, p) /\ ChatQuiet
      PROVE  MembersAtOffset'
  <2>1. UNCHANGED <<registration, membership, stream, crossed>>
    BY <1>7 DEF ChatQuiet, AssignPartition, chat, world, excuses
  <2>2. UNCHANGED <<committed, log, handling>>
    BY <1>7 DEF Start, Poll, AssignPartition, Assign, Revoke, broker
  <2> QED  BY <1>1, <2>1, <2>2 DEF AtWork, IsMember
<1>8. ASSUME NEW m \in Members, (Start(m) \/ Poll(m)) /\ ChatQuiet
      PROVE  MembersAtOffset'
  <2>1. UNCHANGED <<registration, membership, stream, crossed, committed, log, handling>>
    BY <1>8 DEF ChatQuiet, chat, world, excuses, Start, Poll, broker
  <2> QED  BY <1>1, <2>1 DEF AtWork, IsMember
<1>9. ASSUME UNCHANGED mvars
      PROVE  MembersAtOffset'
  <2>1. UNCHANGED <<registration, membership, stream, crossed, committed, log, handling>>
    BY <1>9 DEF mvars, vars, broker, member, world, chat, excuses
  <2> QED  BY <1>1, <2>1 DEF AtWork, IsMember
<1>10. ASSUME MembershipWork
       PROVE  MembersAtOffset'
  <2>1. PICK m \in Members :
          \/ \E p \in Partitions :
                \/ HandleMembership(m, p)
                \/ HandleFails(m, p)
                \/ AssignPartition(m, p)
                \/ Revoke(m, p) /\ ChatQuiet
          \/ (Commit(m) \/ Stop(m)) /\ ChatQuiet
          \/ (Start(m) \/ Poll(m)) /\ ChatQuiet
    BY <1>10 DEF MembershipWork, WorkerStep
  <2> QED  BY <1>4, <1>5, <1>6, <1>7, <1>8, <2>1
<1> QED  BY <1>2, <1>9, <1>10, MembershipSteps

(* Once given away with records in hand, a partition stays in the history; *)
(* until then each record is handled by one member and in order.           *)
LEMMA HistoryStep ==
  ASSUME RequireApproval, MembershipInductive, History, [MembershipNext]_mvars
  PROVE  History'
<1>1. ASSUME ~overlap'
      PROVE  InOrder' /\ MembersAtOffset'
  <2>1. ~overlap
    <3>1. ASSUME NEW u \in Users, NEW kind, Changes(u, kind)
          PROVE  overlap' = overlap
      BY <3>1, ChangeStores
    <3>2. MembershipWork => (overlap' = overlap \/ overlap' = TRUE \/ ~overlap)
      BY DEF MembershipWork, WorkerStep, HandleMembership, HandleFails,
         AssignPartition, ChatQuiet, excuses
    <3> QED  BY <1>1, <3>1, <3>2, MembershipSteps DEF mvars, excuses
  <2>2. \A m \in Members, p \in Partitions : Assign(m, p) => ~InHand(m, p)
    <3>1. SUFFICES ASSUME NEW m \in Members, NEW p \in Partitions, Assign(m, p)
                   PROVE  ~InHand(m, p)
      OBVIOUS
    <3>2. mine \in [Members -> SUBSET Partitions]
      BY DEF MembershipInductive, Inductive, TypeOK
    <3>3. p \notin mine[m] /\ p \in mine'[m]
      BY <3>1, <3>2 DEF Assign
    <3>4. ASSUME NEW k \in Members, NEW q \in Partitions, AssignPartition(k, q)
          PROVE  ~InHand(m, p)
      <4>1. k = m /\ q = p
        BY <3>2, <3>3, <3>4 DEF AssignPartition, Assign
      <4> QED  BY <1>1, <3>4, <4>1 DEF AssignPartition
    <3>5. ASSUME mine' = mine \/ \E k \in Members, q \in Partitions :
                                    \/ mine' = [mine EXCEPT ![k] = {}]
                                    \/ mine' = [mine EXCEPT ![k] = @ \ {q}]
          PROVE  FALSE
      BY <3>2, <3>3, <3>5
    <3>6. ASSUME NEW u \in Users, NEW kind, Changes(u, kind)
          PROVE  mine' = mine
      BY <3>6, ChangeStores, StoresEvent DEF MembershipInductive, Produce, member
    <3>7. ASSUME MembershipWork
          PROVE  ~InHand(m, p)
      <4>1. PICK k \in Members :
              \/ WorkerStep(k)
              \/ Stop(k) /\ ChatQuiet
              \/ \E q \in Partitions :
                    \/ HandleFails(k, q)
                    \/ AssignPartition(k, q)
                    \/ Revoke(k, q) /\ ChatQuiet
        BY <3>7 DEF MembershipWork
      <4>2. ASSUME Stop(k) \/ \E q \in Partitions : HandleFails(k, q)
            PROVE  mine' = [mine EXCEPT ![k] = {}]
        BY <4>2 DEF Stop, HandleFails
      <4>3. ASSUME NEW q \in Partitions, Revoke(k, q)
            PROVE  mine' = [mine EXCEPT ![k] = @ \ {q}]
        BY <4>3 DEF Revoke
      <4>4. WorkerStep(k) => mine' = mine
        BY DEF WorkerStep, Start, Poll, HandleMembership, Handle, Commit
      <4> QED  BY <3>4, <3>5, <4>1, <4>2, <4>3, <4>4
    <3> QED
      BY <3>5, <3>6, <3>7, MembershipSteps DEF mvars, vars, member
  <2> QED
    BY <2>1, <2>2, MembershipStepIsGroupStep, InOrderStep, FollowStep
    DEF History, MembershipInductive
<1> QED  BY <1>1 DEF History

-----------------------------------------------------------------------------
(* The membership worker is a consumer group as well.                      *)
THEOREM MembershipIsGroup == MembershipSpec => Spec
<1>1. MembershipInit => Init
  BY DEF MembershipInit
<1> QED
  BY <1>1, MembershipStepIsGroupStep, AlwaysMembershipInductive, PTL
  DEF MembershipSpec, Spec

(* An activity's group has its owner from the first to the last state,     *)
(* whatever events are handled how often and in which order.               *)
THEOREM OwnerCorrect == MembershipSpec => []GroupHasOwner
<1>1. MembershipInductive => GroupHasOwner
  BY DEF MembershipInductive, RowsTogether
<1> QED  BY <1>1, AlwaysMembershipInductive, PTL

(* Where approval is needed, the members are exactly the approved whenever *)
(* the worker has caught up: through any crashes, failed handlers, lost    *)
(* answers and replays, with any number of members and any partition for   *)
(* each registration. Excepted are users whose decision was stored while   *)
(* an earlier one was open in another partition, and runs in which a       *)
(* partition changed hands with records in hand.                           *)
THEOREM MembersCorrect == MembershipSpec => []MembersFollow
<1>1. MembershipInit => History
  <2> SUFFICES ASSUME MembershipInit
               PROVE  History
    OBVIOUS
  <2>1. /\ \A p \in Partitions : log[p] = 0 /\ committed[p] = 0
        /\ \A u \in Users : registration[u] = "none"
        /\ \A m \in Members : handling[m] = NoPartition
    BY DEF MembershipInit, Init, NoOffsets
  <2>2. InOrder
    BY DEF MembershipInit, Init, NoOffsets, InOrder, OneHolder, AtOffset, Holds
  <2>3. MembersAtOffset
    <3>1. SUFFICES ASSUME NEW u \in Registrants
                   PROVE  Follows(u)
      BY DEF MembersAtOffset
    <3>2. \A p \in Partitions : OpenIn(u, p) = {} /\ ~AtWork(p)
      BY <2>1, ConsumerAssumption DEF OpenIn, AtWork
    <3>3. ~IsMember(u) /\ ~IsApproved(u)
      BY <2>1 DEF MembershipInit, Registrants, IsMember, IsApproved
    <3> QED
      BY <3>2, <3>3 DEF Follows, OneSide, LastIsRow, AtRest, CurrentIsFollowed
  <2> QED  BY <2>2, <2>3 DEF History
<1>2. MembershipInductive /\ History => MembersFollow
  <2> SUFFICES ASSUME MembershipInductive, History, ~overlap, CaughtUp,
                      NEW u \in Registrants \ crossed
               PROVE  membership[u] = "active" <=> registration[u] = "approved"
    BY DEF MembersFollow
  <2>1. \A p \in Partitions : OpenIn(u, p) = {}
    <3>1. \A p \in Partitions : committed[p] = log[p] /\ log[p] \in Nat
      BY ConsumerAssumption
      DEF CaughtUp, MembershipInductive, MembershipTypeOK, TypeOK
    <3> QED  BY <3>1 DEF OpenIn
  <2> QED
    BY <2>1 DEF History, MembersAtOffset, Follows, AtRest, IsMember, IsApproved
<1>3. RequireApproval /\ MembershipInductive /\ History /\ [MembershipNext]_mvars
        => History'
  BY HistoryStep
<1>4. CASE RequireApproval
  BY <1>1, <1>2, <1>3, <1>4, AlwaysMembershipInductive, PTL DEF MembershipSpec
<1>5. CASE ~RequireApproval
  <2>1. MembersFollow
    BY <1>5 DEF MembersFollow
  <2> QED  BY <2>1, PTL
<1> QED  BY <1>4, <1>5
=============================================================================

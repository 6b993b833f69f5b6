----------------------------- MODULE ChatProofs -----------------------------
(***************************************************************************)
(* Proofs about Chat, for any number of requests, client message ids and   *)
(* connections.                                                            *)
(***************************************************************************)
EXTENDS Chat, FiniteSetTheorems, WellFoundedInduction, TLAPS

Places == {"new", "insert", "commit", "publish", "failed", "acked"}

SendingTypeOK ==
    /\ at \in [Requests -> Places]
    /\ key \in [Requests -> ClientIds \cup {NoId}]
    /\ id \in [Requests -> Nat]
    /\ nextId \in Nat \ {0}
    /\ stored \in [Messages -> ClientIds \cup {NoId}]

(* Requests that have taken an id, or will never.                          *)
Past == {r \in Requests : at[r] \notin {"new", "insert"}}

(* Each id has been taken by a request of its own.                         *)
IdsAreCounted == nextId <= Cardinality(Past) + 1

(* A request about to commit holds an id that is below the counter, nobody *)
(* else's and not stored yet.                                              *)
IdsAreOwn ==
    /\ \A m \in Messages : m >= nextId => stored[m] = NoId
    /\ \A r \in Requests :
          at[r] = "commit" => /\ id[r] \in Messages /\ id[r] < nextId
                              /\ stored[id[r]] = NoId
    /\ \A r, s \in Requests :
          at[r] = "commit" /\ at[s] = "commit" /\ id[r] = id[s] => r = s

KeysAreChosen ==
    \A r \in Requests :
        at[r] \in {"insert", "commit", "publish", "acked"} =>
            key[r] \in ClientIds

Answerable(r) == id[r] \in Rows /\ stored[id[r]] = key[r]

RowsAreUnique == \A m, n \in Rows : stored[m] = stored[n] => m = n

SendingInvariant ==
    /\ SendingTypeOK
    /\ IdsAreCounted /\ IdsAreOwn /\ KeysAreChosen /\ RowsAreUnique
    /\ \A r \in Requests : at[r] \in {"publish", "acked"} => Answerable(r)

-----------------------------------------------------------------------------
(* A request that takes an id finds one left.                              *)
LEMMA IdsSuffice ==
  ASSUME SendingInvariant, NEW r \in Requests, at[r] = "insert"
  PROVE  nextId \in Messages
<1> DEFINE all == Past \cup {r}
<1>1. IsFiniteSet(Requests) /\ Past \subseteq Requests /\ r \notin Past
  BY ChatAssumption DEF Past
<1>2. IsFiniteSet(Past) /\ Cardinality(Past) \in Nat
  BY <1>1, FS_Subset, FS_CardinalityType
<1>3. Cardinality(all) = Cardinality(Past) + 1
  BY <1>1, <1>2, FS_AddElement
<1>4. Cardinality(all) <= Cardinality(Requests)
      /\ Cardinality(Requests) \in Nat
  BY <1>1, FS_Subset, FS_CardinalityType
<1> HIDE DEF all
<1> QED  BY <1>2, <1>3, <1>4, ChatAssumption
         DEF SendingInvariant, SendingTypeOK, IdsAreCounted

(* Requests only move on, and the counter with one of them.                *)
LEMMA CountKept ==
  ASSUME SendingInvariant, at' \in [Requests -> Places], Past \subseteq Past',
         \/ nextId' = nextId
         \/ nextId' = nextId + 1 /\ Past' # Past
  PROVE  IdsAreCounted'
<1>1. IsFiniteSet(Requests) /\ Past' \subseteq Requests
  BY ChatAssumption DEF Past
<1>2. IsFiniteSet(Past') /\ Cardinality(Past') \in Nat
  BY <1>1, FS_Subset, FS_CardinalityType
<1>3. IsFiniteSet(Past) /\ Cardinality(Past) \in Nat
      /\ Cardinality(Past) <= Cardinality(Past')
  BY <1>2, FS_Subset, FS_CardinalityType
<1>4. Past' # Past => Cardinality(Past) # Cardinality(Past')
  BY <1>2, FS_Subset
<1> QED  BY <1>2, <1>3, <1>4 DEF SendingInvariant, SendingTypeOK, IdsAreCounted

LEMMA SendingInit == Init => SendingInvariant
<1> SUFFICES ASSUME Init PROVE SendingInvariant
  OBVIOUS
<1>1. Rows = {}
  BY DEF Init, Rows
<1>2. Past = {}
  BY DEF Init, Past
<1>3. IdsAreCounted
  BY <1>2, FS_EmptySet DEF Init, IdsAreCounted
<1> QED  BY <1>1, <1>3 DEF Init, SendingInvariant, SendingTypeOK, Places,
                           IdsAreOwn, KeysAreChosen, RowsAreUnique

LEMMA SendingStep == SendingInvariant /\ [Next]_vars => SendingInvariant'
<1> SUFFICES ASSUME SendingInvariant, [Next]_vars PROVE SendingInvariant'
  OBVIOUS
<1> USE DEF SendingInvariant
<1>0. NoId \notin ClientIds /\ Messages \subseteq Nat
  BY ChatAssumption
<1>1. CASE UNCHANGED sending
  BY <1>1 DEF sending, SendingTypeOK, IdsAreCounted, Past, IdsAreOwn,
              KeysAreChosen, RowsAreUnique, Answerable, Rows
<1>2. ASSUME NEW r \in Requests, NEW k \in ClientIds, MessageCheck(r, k)
      PROVE  SendingInvariant'
  <2>1. PICK where \in {"insert", "acked"}, m \in Nat :
           /\ at[r] = "new" /\ key' = [key EXCEPT ![r] = k]
           /\ at' = [at EXCEPT ![r] = where] /\ id' = [id EXCEPT ![r] = m]
           /\ where = "acked" => m \in Messages /\ stored[m] = k
           /\ UNCHANGED <<nextId, stored>>
    <3>1. CASE FindMessageByClientID(k) = {}
      <4>1. id' = [id EXCEPT ![r] = id[r]] /\ id[r] \in Nat
        BY <1>2, <3>1 DEF MessageCheck, SendingTypeOK
      <4> QED  BY <1>2, <3>1, <4>1 DEF MessageCheck
    <3>2. CASE FindMessageByClientID(k) # {}
      BY <1>0, <1>2, <3>2 DEF MessageCheck, FindMessageByClientID
    <3> QED  BY <3>1, <3>2
  <2>2. SendingTypeOK'
    BY <2>1 DEF SendingTypeOK, Places
  <2>3. IdsAreCounted'
    BY <2>1, <2>2, CountKept DEF SendingTypeOK, Past
  <2>4. IdsAreOwn' /\ KeysAreChosen' /\ RowsAreUnique'
    BY <2>1 DEF SendingTypeOK, IdsAreOwn, KeysAreChosen, RowsAreUnique, Rows
  <2>5. ASSUME NEW s \in Requests, at'[s] \in {"publish", "acked"}
        PROVE  Answerable(s)'
    BY <1>0, <2>1, <2>5 DEF SendingTypeOK, Answerable, Rows
  <2> QED  BY <2>2, <2>3, <2>4, <2>5
<1>3. ASSUME NEW r \in Requests, TakeId(r) PROVE SendingInvariant'
  <2>1. /\ at[r] = "insert" /\ at' = [at EXCEPT ![r] = "commit"]
        /\ id' = [id EXCEPT ![r] = nextId] /\ nextId' = nextId + 1
        /\ UNCHANGED <<key, stored>>
    BY <1>3 DEF TakeId
  <2>2. nextId \in Messages
    BY <2>1, IdsSuffice
  <2>3. SendingTypeOK'
    BY <2>1 DEF SendingTypeOK, Places
  <2>4. Past \subseteq Past' /\ r \in Past' \ Past
    BY <2>1 DEF SendingTypeOK, Past
  <2>5. IdsAreCounted'
    BY <2>1, <2>3, <2>4, CountKept DEF SendingTypeOK
  <2>6. IdsAreOwn'
    BY <1>0, <2>1, <2>2 DEF SendingTypeOK, IdsAreOwn
  <2>7. KeysAreChosen' /\ RowsAreUnique'
    BY <2>1 DEF SendingTypeOK, KeysAreChosen, RowsAreUnique, Rows
  <2>8. ASSUME NEW s \in Requests, at'[s] \in {"publish", "acked"}
        PROVE  Answerable(s)'
    BY <2>1, <2>8 DEF SendingTypeOK, Answerable, Rows
  <2> QED  BY <2>3, <2>5, <2>6, <2>7, <2>8
<1>4. ASSUME NEW r \in Requests, CreateMessage(r) PROVE SendingInvariant'
  <2>1. /\ at[r] = "commit" /\ id[r] \in Messages /\ stored[id[r]] = NoId
        /\ key[r] \in ClientIds
    BY <1>4 DEF CreateMessage, IdsAreOwn, KeysAreChosen
  <2>2. CASE Duplicate(key[r]) = {}
    <3>1. PICK where \in {"publish", "failed"} :
             /\ at' = [at EXCEPT ![r] = where]
             /\ stored' = [stored EXCEPT ![id[r]] = key[r]]
             /\ UNCHANGED <<key, id, nextId>>
      BY <1>4, <2>2 DEF CreateMessage
    <3>2. \A m \in Messages : stored[m] # key[r]
      BY <2>2 DEF Duplicate, FindMessageByClientID
    <3>3. SendingTypeOK'
      BY <2>1, <3>1 DEF SendingTypeOK, Places
    <3>4. IdsAreCounted'
      BY <2>1, <3>1, <3>3, CountKept DEF SendingTypeOK, Past
    <3>5. IdsAreOwn'
      BY <1>0, <2>1, <3>1 DEF SendingTypeOK, IdsAreOwn
    <3>6. KeysAreChosen'
      BY <2>1, <3>1 DEF SendingTypeOK, KeysAreChosen
    <3>7. Rows' = Rows \cup {id[r]} /\ stored'[id[r]] = key[r]
          /\ \A m \in Rows : stored'[m] = stored[m]
      BY <1>0, <2>1, <3>1 DEF SendingTypeOK, Rows
    <3>8. RowsAreUnique'
      BY <3>2, <3>7 DEF RowsAreUnique, Rows
    <3>9. ASSUME NEW s \in Requests, at'[s] \in {"publish", "acked"}
          PROVE  Answerable(s)'
      BY <2>1, <3>1, <3>7, <3>9 DEF SendingTypeOK, Answerable
    <3> QED  BY <3>3, <3>4, <3>5, <3>6, <3>8, <3>9
  <2>3. CASE Duplicate(key[r]) # {}
    <3>1. PICK m \in Messages :
             /\ stored[m] = key[r] /\ at' = [at EXCEPT ![r] = "acked"]
             /\ id' = [id EXCEPT ![r] = m]
             /\ UNCHANGED <<key, stored, nextId>>
      BY <1>4, <2>3 DEF CreateMessage, FindMessageByClientID
    <3>2. SendingTypeOK'
      BY <1>0, <3>1 DEF SendingTypeOK, Places
    <3>3. IdsAreCounted'
      BY <2>1, <3>1, <3>2, CountKept DEF SendingTypeOK, Past
    <3>4. IdsAreOwn' /\ KeysAreChosen' /\ RowsAreUnique'
      BY <2>1, <3>1 DEF SendingTypeOK, IdsAreOwn, KeysAreChosen,
                        RowsAreUnique, Rows
    <3>5. ASSUME NEW s \in Requests, at'[s] \in {"publish", "acked"}
          PROVE  Answerable(s)'
      BY <1>0, <2>1, <3>1, <3>5 DEF SendingTypeOK, Answerable, Rows
    <3> QED  BY <3>2, <3>3, <3>4, <3>5
  <2> QED  BY <2>2, <2>3
<1>5. ASSUME NEW r \in Requests, PublishMessage(r) \/ RequestFails(r)
      PROVE  SendingInvariant'
  <2>1. PICK where \in {"acked", "failed"} :
           /\ at[r] \in {"insert", "commit", "publish"}
           /\ where = "acked" => at[r] = "publish"
           /\ at' = [at EXCEPT ![r] = where]
           /\ UNCHANGED <<key, id, nextId, stored>>
    BY <1>5 DEF PublishMessage, RequestFails
  <2>2. SendingTypeOK'
    BY <2>1 DEF SendingTypeOK, Places
  <2>3. IdsAreCounted'
    BY <2>1, <2>2, CountKept DEF SendingTypeOK, Past
  <2>4. IdsAreOwn' /\ KeysAreChosen' /\ RowsAreUnique'
    BY <2>1 DEF SendingTypeOK, IdsAreOwn, KeysAreChosen, RowsAreUnique, Rows
  <2>5. ASSUME NEW s \in Requests, at'[s] \in {"publish", "acked"}
        PROVE  Answerable(s)'
    BY <2>1, <2>5 DEF SendingTypeOK, Answerable, Rows
  <2> QED  BY <2>2, <2>3, <2>4, <2>5
<1>6. ASSUME NEW c \in Conns,
             \/ Connect(c) \/ Receive(c)
             \/ /\ Same
                /\ \/ HandleStep(c) \/ SubscribeRooms(c, member)
                   \/ Deliver(c) \/ DeliverToUser(c) \/ PeerGone(c)
      PROVE  SendingInvariant'
  BY <1>1, <1>6 DEF Connect, Receive, Same
<1>7. CASE \/ Shutdown /\ Same
           \/ HandleEvent \/ HandleAgain \/ DeliverHint
           \/ Pull \/ MembershipChanges
           \/ \E m \in Messages : MarkRead(m) \/ UpdateLastRead(m)
  BY <1>1, <1>7 DEF Same, HandleEvent, HandleAgain, DeliverHint, Pull,
                    MembershipChanges, MarkRead, UpdateLastRead
<1>8. CASE UNCHANGED vars
  BY <1>1, <1>8 DEF vars
<1> QED  BY <1>2, <1>3, <1>4, <1>5, <1>6, <1>7, <1>8 DEF Next, SendMessage

(* RetriesMeetTheirRow: however many requests carry a client message id    *)
(* and wherever they meet, it has one row, and every acknowledgement names *)
(* that row.                                                               *)
THEOREM RetriesCorrect == Spec => []RetriesMeetTheirRow
<1>1. SendingInvariant => RetriesMeetTheirRow
  BY DEF SendingInvariant, RowsAreUnique, Answerable, RetriesMeetTheirRow
<1> QED  BY <1>1, SendingInit, SendingStep, PTL DEF Spec

-----------------------------------------------------------------------------
(* Messages among the frames of a queue, and their ranks among themselves. *)

MessagesIn(q) == {i \in 1..Len(q) : q[i] \in Messages}
Rank(q, i) == Cardinality({j \in MessagesIn(q) : j <= i})

Frames == Messages \cup {Reply}

LEMMA RanksTyped ==
  ASSUME NEW q \in Seq(Frames)
  PROVE  /\ IsFiniteSet(MessagesIn(q)) /\ Cardinality(MessagesIn(q)) \in Nat
         /\ \A i \in MessagesIn(q) :
              Rank(q, i) \in 1..Cardinality(MessagesIn(q))
         /\ \A i : Rank(q, i) \in Nat
<1>1. Len(q) \in Nat /\ IsFiniteSet(1..Len(q))
      /\ MessagesIn(q) \subseteq 1..Len(q)
  BY FS_Interval DEF MessagesIn
<1>2. IsFiniteSet(MessagesIn(q)) /\ Cardinality(MessagesIn(q)) \in Nat
  BY <1>1, FS_Subset, FS_CardinalityType
<1>3. ASSUME NEW i
      PROVE  /\ Rank(q, i) \in Nat /\ Rank(q, i) <= Cardinality(MessagesIn(q))
             /\ i \in MessagesIn(q) => Rank(q, i) # 0
  <2> DEFINE S == {j \in MessagesIn(q) : j <= i}
  <2>1. /\ IsFiniteSet(S) /\ Cardinality(S) \in Nat
        /\ Cardinality(S) <= Cardinality(MessagesIn(q))
    BY <1>2, FS_Subset, FS_CardinalityType
  <2>2. i \in MessagesIn(q) => i \in S
    BY <1>1
  <2>3. S # {} => Cardinality(S) # 0
    BY <2>1, FS_EmptySet
  <2> QED  BY <2>1, <2>2, <2>3 DEF Rank
<1> QED  BY <1>2, <1>3

LEMMA AppendRanks ==
  ASSUME NEW q \in Seq(Frames), NEW f \in Frames, NEW r, r = Append(q, f)
  PROVE  /\ r \in Seq(Frames)
         /\ f \notin Messages => MessagesIn(r) = MessagesIn(q)
         /\ f \in Messages =>
               /\ MessagesIn(r) = MessagesIn(q) \cup {Len(q) + 1}
               /\ Cardinality(MessagesIn(r)) = Cardinality(MessagesIn(q)) + 1
               /\ Rank(r, Len(q) + 1) = Cardinality(MessagesIn(q)) + 1
               /\ r[Len(q) + 1] = f
<1>1. /\ Len(q) \in Nat /\ r \in Seq(Frames) /\ Len(r) = Len(q) + 1
      /\ r[Len(q) + 1] = f /\ \A i \in 1..Len(q) : r[i] = q[i]
  OBVIOUS
<1>2. MessagesIn(r) = IF f \in Messages THEN MessagesIn(q) \cup {Len(q) + 1}
                                        ELSE MessagesIn(q)
  <2>1. \A i : i \in 1..Len(r) <=> i \in 1..Len(q) \/ i = Len(q) + 1
    BY <1>1
  <2> QED  BY <1>1, <2>1 DEF MessagesIn
<1>3. \A i \in MessagesIn(q) : i \in 1..Len(q)
  BY DEF MessagesIn
<1>4. IsFiniteSet(MessagesIn(q)) /\ Len(q) + 1 \notin MessagesIn(q)
  BY <1>1, <1>3, RanksTyped
<1>5. f \in Messages =>
          Cardinality(MessagesIn(r)) = Cardinality(MessagesIn(q)) + 1
  <2>1. Cardinality(MessagesIn(q) \cup {Len(q) + 1}) =
            Cardinality(MessagesIn(q)) + 1
    BY <1>4, FS_AddElement
  <2> QED  BY <1>2, <2>1
<1>6. f \in Messages => {j \in MessagesIn(r) : j <= Len(q) + 1} = MessagesIn(r)
  BY <1>1, <1>2, <1>3
<1>7. f \in Messages => Rank(r, Len(q) + 1) = Cardinality(MessagesIn(q)) + 1
  BY <1>5, <1>6 DEF Rank
<1> QED  BY <1>1, <1>2, <1>5, <1>7

LEMMA AppendKeepsRanks ==
  ASSUME NEW q \in Seq(Frames), NEW f \in Frames, NEW i \in MessagesIn(q)
  PROVE  /\ Append(q, f)[i] = q[i]
         /\ Rank(Append(q, f), i) = Rank(q, i)
<1> DEFINE r == Append(q, f)
<1>1. /\ Len(q) \in Nat /\ i \in 1..Len(q) /\ r[i] = q[i]
  BY DEF MessagesIn
<1>2. MessagesIn(r) \in {MessagesIn(q), MessagesIn(q) \cup {Len(q) + 1}}
  <2> HIDE DEF r
  <2>1. r = Append(q, f)
    BY DEF r
  <2> QED  BY <2>1, AppendRanks
<1> HIDE DEF r
<1>3. {j \in MessagesIn(r) : j <= i} = {j \in MessagesIn(q) : j <= i}
  BY <1>1, <1>2
<1>4. r[i] = q[i] /\ Rank(r, i) = Rank(q, i)
  BY <1>1, <1>3 DEF Rank
<1> QED  BY <1>4 DEF r

(* Counting from one less changes no number of elements.                   *)
LEMMA Shifted ==
  ASSUME NEW S \in SUBSET Nat, IsFiniteSet(S)
  PROVE  LET T == {i \in Nat : i + 1 \in S}
         IN IsFiniteSet(T) /\ Cardinality(T) = Cardinality(S \ {0})
<1> DEFINE T == {i \in Nat : i + 1 \in S}
           f == [x \in S \ {0} |-> x - 1]
<1>1. IsFiniteSet(S \ {0})
  BY FS_Subset
<1>2. f \in [S \ {0} -> T]
  OBVIOUS
<1>3. \A x, y \in S \ {0} : f[x] = f[y] => x = y
  OBVIOUS
<1>4. \A t \in T : t + 1 \in S \ {0} /\ f[t + 1] = t
  OBVIOUS
<1>5. f \in Bijection(S \ {0}, T)
  <2>1. \A t \in T : \E x \in S \ {0} : f[x] = t
    BY <1>4
  <2> HIDE DEF f, T
  <2> QED  BY <1>2, <1>3, <2>1 DEF Bijection, Injection, Surjection,
       IsInjective
<1> HIDE DEF f, T
<1>6. ExistsBijection(S \ {0}, T)
  BY <1>5 DEF ExistsBijection
<1>7. IsFiniteSet(T) /\ Cardinality(T) = Cardinality(S \ {0})
  BY <1>1, <1>6, FS_Bijection
<1> QED  BY <1>7 DEF T

LEMMA TailMessages ==
  ASSUME NEW q \in Seq(Frames), q # << >>, NEW r, r = Tail(q)
  PROVE  /\ MessagesIn(r) = {i \in Nat : i + 1 \in MessagesIn(q) \ {1}}
         /\ 1 \in MessagesIn(q) <=> q[1] \in Messages
<1>1. /\ Len(q) \in Nat \ {0} /\ Len(r) = Len(q) - 1
      /\ \A i \in 1..Len(r) : r[i] = q[i + 1]
  OBVIOUS
<1>2. MessagesIn(r) = {i \in Nat : i + 1 \in MessagesIn(q) \ {1}}
  <2>1. \A i : i \in 1..Len(r) <=> i \in Nat /\ i + 1 \in 1..Len(q)
            /\ i + 1 # 1
    BY <1>1
  <2> QED  BY <1>1, <2>1 DEF MessagesIn
<1> QED  BY <1>1, <1>2 DEF MessagesIn

(* Some messages of a queue, seen from the queue without its head.         *)
LEMMA TailCounts ==
  ASSUME NEW q \in Seq(Frames), NEW S \in SUBSET MessagesIn(q)
  PROVE  Cardinality({i \in Nat : i + 1 \in S \ {1}}) =
            Cardinality(S) - (IF 1 \in S THEN 1 ELSE 0)
<1>1. IsFiniteSet(MessagesIn(q)) /\ MessagesIn(q) \subseteq Nat
      /\ 0 \notin MessagesIn(q)
  BY RanksTyped DEF MessagesIn
<1>2. IsFiniteSet(S) /\ IsFiniteSet(S \ {1}) /\ (S \ {1}) \ {0} = S \ {1}
      /\ S \ {1} \in SUBSET Nat /\ Cardinality(S) \in Nat
  BY <1>1, FS_Subset, FS_CardinalityType
<1>3. Cardinality({i \in Nat : i + 1 \in S \ {1}}) = Cardinality(S \ {1})
  BY <1>2, Shifted
<1>4. CASE 1 \in S
  <2>1. Cardinality(S \ {1}) = Cardinality(S) - 1
    BY <1>2, <1>4, FS_RemoveElement
  <2> QED  BY <1>3, <1>4, <2>1
<1>5. CASE 1 \notin S
  <2>1. Cardinality(S \ {1}) = Cardinality(S)
    BY <1>2, <1>5, FS_RemoveElement
  <2> QED  BY <1>2, <1>3, <1>5, <2>1
<1> QED  BY <1>4, <1>5

LEMMA TailRanks ==
  ASSUME NEW q \in Seq(Frames), q # << >>, NEW r, r = Tail(q)
  PROVE  /\ Cardinality(MessagesIn(r)) =
               Cardinality(MessagesIn(q)) - IF q[1] \in Messages THEN 1 ELSE 0
         /\ q[1] \in Messages => 1 \in MessagesIn(q) /\ Rank(q, 1) = 1
<1>1. Cardinality(MessagesIn(r)) =
         Cardinality(MessagesIn(q)) - IF q[1] \in Messages THEN 1 ELSE 0
  <2>1. MessagesIn(r) = {i \in Nat : i + 1 \in MessagesIn(q) \ {1}}
    BY TailMessages
  <2>2. 1 \in MessagesIn(q) <=> q[1] \in Messages
    BY TailMessages
  <2>3. Cardinality(MessagesIn(r)) =
           Cardinality(MessagesIn(q)) - IF 1 \in MessagesIn(q) THEN 1 ELSE 0
    BY <2>1, TailCounts
  <2> QED  BY <2>2, <2>3
<1>2. q[1] \in Messages => 1 \in MessagesIn(q) /\ Rank(q, 1) = 1
  <2>1. \A j \in MessagesIn(q) : j \in Nat /\ j # 0
    BY DEF MessagesIn
  <2>2. 1 \in MessagesIn(q) => {j \in MessagesIn(q) : j <= 1} = {1}
    BY <2>1
  <2>3. Cardinality({1}) = 1
    BY FS_Singleton
  <2>4. 1 \in MessagesIn(q) => Rank(q, 1) = 1
    BY <2>2, <2>3 DEF Rank
  <2> QED  BY <2>4, TailMessages
<1> QED  BY <1>1, <1>2

LEMMA TailKeepsRanks ==
  ASSUME NEW q \in Seq(Frames), q # << >>, NEW r, r = Tail(q),
         NEW i \in MessagesIn(r)
  PROVE  /\ i + 1 \in MessagesIn(q) /\ r[i] = q[i + 1]
         /\ Rank(r, i) = Rank(q, i + 1) - IF q[1] \in Messages THEN 1 ELSE 0
<1> DEFINE S == {j \in MessagesIn(q) : j <= i + 1}
<1>1. MessagesIn(r) = {j \in Nat : j + 1 \in MessagesIn(q) \ {1}}
  BY TailMessages
<1>2. i + 1 \in MessagesIn(q) /\ i \in Nat
  BY <1>1
<1>3. {j \in MessagesIn(r) : j <= i} = {j \in Nat : j + 1 \in S \ {1}}
  BY <1>1, <1>2
<1>4. 1 \in S <=> q[1] \in Messages
  BY <1>2, TailMessages
<1>5. Rank(r, i) = Cardinality(S) - IF q[1] \in Messages THEN 1 ELSE 0
  BY <1>3, <1>4, TailCounts DEF Rank
<1>6. r[i] = q[i + 1]
  BY DEF MessagesIn
<1> QED  BY <1>2, <1>5, <1>6 DEF Rank

-----------------------------------------------------------------------------
(* The streams of the hub.                                                 *)

Outside == {"new", "register", "rooms", "join"}
Inside == {"welcome", "serving", "unregister"}

HubInvariant ==
    /\ stage \in [Conns -> Stages]
    /\ queue \in [Conns -> Seq(Frames)]
    /\ written \in [Conns -> Seq(Messages)]
    /\ sent \in Seq(Messages)
    /\ since \in [Conns -> Nat]
    /\ \A c \in Conns : since[c] <= Len(sent)
    /\ topic \in Seq(Messages) /\ position \in 0..Len(topic)
    /\ room \subseteq {c \in Conns : stage[c] \in Inside}
    /\ targets \subseteq {c \in Conns : stage[c] \notin Outside}
    /\ targets # {} => Len(sent) # 0 /\ frame = sent[Len(sent)]
    /\ \A c \in Conns : stage[c] \in Outside =>
          written[c] = << >> /\ MessagesIn(queue[c]) = {}

(* How many of the messages that were sent a connection has been offered.  *)
Due(c) == Len(sent) - IF c \in targets THEN 1 ELSE 0

Whole(c) ==
    /\ since[c] + Len(written[c]) + Cardinality(MessagesIn(queue[c])) = Due(c)
    /\ \A i \in 1..Len(written[c]) : sent[since[c] + i] = written[c][i]
    /\ \A i \in MessagesIn(queue[c]) :
          sent[since[c] + Len(written[c]) + Rank(queue[c], i)] = queue[c][i]

StreamsInvariant == HubInvariant /\ \A c \in room \ done : Whole(c)

(* The steps of the server, sorted by what they do to the streams.         *)
QueuesReply(k) ==
    /\ SendRaw(k, Reply)
    /\ UNCHANGED <<conns, room, since, written, frame, targets, sent, topic,
                   position>>
    /\ \/ Goes(k, "welcome", "serving")
       \/ UNCHANGED stage

LeavesStreams ==
    /\ UNCHANGED <<since, written, frame, targets, sent, topic, position>>
    /\ room' \subseteq room /\ done \subseteq done'
    /\ \A c \in Conns :
          c \in room' \/ stage[c] \in Outside => queue'[c] = queue[c]
    /\ queue' \in [Conns -> Seq(Frames)]
    /\ \/ UNCHANGED stage
       \/ \E c \in Conns :
             \/ Goes(c, "new", "register") \/ Goes(c, "new", "gone")
             \/ Goes(c, "register", "rooms")
             \/ Goes(c, "rooms", "join") \/ Goes(c, "rooms", "welcome")
             \/ Goes(c, "serving", "unregister")
             \/ Goes(c, "unregister", "gone") /\ c \notin room'

(* Elsewhere the topic only gets longer, and the consumer may go back.     *)
TopicGrows ==
    /\ topic' \in Seq(Messages) /\ position' \in 0..Len(topic')
    /\ Len(topic) <= Len(topic') /\ position' <= position
    /\ \A i \in 1..Len(topic) : topic'[i] = topic[i]

LEMMA StreamSteps ==
  ASSUME HubInvariant, SendingInvariant, [Next]_vars
  PROVE  \/ LeavesStreams
         \/ \E c \in Conns :
               \/ QueuesReply(c)
               \/ Join(c) /\ UNCHANGED <<topic, position>>
               \/ Deliver(c) /\ UNCHANGED <<topic, position>>
               \/ /\ WriteLoop(c) /\ UNCHANGED <<topic, position>>
                  /\ known' = known \cup ToSet(written'[c])
         \/ HandleEvent
         \/ UNCHANGED hubVars /\ TopicGrows
<1>0. /\ queue \in [Conns -> Seq(Frames)] /\ << >> \in Seq(Frames)
      /\ topic \in Seq(Messages) /\ position \in 0..Len(topic)
      /\ room \subseteq {c \in Conns : stage[c] \in Inside}
  BY DEF HubInvariant
<1>1. ASSUME NEW c \in Conns,
             \/ Connect(c)
             \/ /\ Same
                /\ \/ Register(c) \/ ReadPayloads(c)
                   \/ SubscribeRooms(c, member) \/ PeerGone(c)
      PROVE  LeavesStreams
  BY <1>0, <1>1 DEF Connect, Authenticate, Register, ReadPayloads,
       SubscribeRooms,
     PeerGone, LeavesStreams, Same, delivering, streams, broadcast
<1>2. ASSUME NEW c \in Conns, Unregister(c), Same
      PROVE  LeavesStreams
  <2>1. /\ Goes(c, "unregister", "gone") /\ room' = room \ {c}
        /\ stage[c] = "unregister"
        /\ queue' = [queue EXCEPT ![c] = << >>]
        /\ UNCHANGED <<since, written, done, broadcast, topic, position>>
    BY <1>2 DEF Unregister, Same, delivering, Goes
  <2>2. /\ queue' \in [Conns -> Seq(Frames)]
        /\ \A k \in Conns : k # c => queue'[k] = queue[k]
    BY <1>0, <2>1
  <2>3. "unregister" \notin Outside /\ c \notin room'
    BY <2>1 DEF Outside
  <2> QED  BY <2>1, <2>2, <2>3 DEF LeavesStreams, broadcast
<1>3. ASSUME NEW c \in Conns, SendAuthSuccess(c) \/ HandleFrame(c)
             \/ DeliverToUser(c), Same
      PROVE  QueuesReply(c)
  BY <1>3 DEF SendAuthSuccess, HandleFrame, DeliverToUser, QueuesReply, Same,
       delivering,
     broadcast
<1>4. ASSUME NEW c \in Conns, Join(c) \/ Deliver(c), Same
      PROVE  (Join(c) \/ Deliver(c)) /\ UNCHANGED <<topic, position>>
  BY <1>4 DEF Same, delivering
<1>5. ASSUME NEW c \in Conns, Receive(c)
      PROVE  /\ WriteLoop(c) /\ UNCHANGED <<topic, position>>
             /\ known' = known \cup ToSet(written'[c])
  BY <1>5 DEF Receive, delivering
<1>6. ASSUME (Shutdown /\ Same) \/ DeliverHint
      PROVE  LeavesStreams
  BY <1>0, <1>6 DEF Shutdown, DeliverHint, CopyUserTargets, LeavesStreams,
       Same, delivering,
     broadcast, streams
<1>7. ASSUME \/ HandleAgain \/ Pull \/ MembershipChanges
             \/ \E m \in Messages : MarkRead(m) \/ UpdateLastRead(m)
             \/ UNCHANGED vars
             \/ \E r \in Requests : SendMessage(r) \/ RequestFails(r)
      PROVE  UNCHANGED hubVars /\ TopicGrows
  <2>1. CASE HandleAgain
    BY <1>0, <2>1 DEF HandleAgain, TopicGrows
  <2>2. CASE Pull \/ MembershipChanges \/ UNCHANGED vars
    BY <1>0, <2>2 DEF Pull, MembershipChanges, vars, delivering, TopicGrows
  <2>4. ASSUME NEW m \in Messages, MarkRead(m) \/ UpdateLastRead(m)
        PROVE  UNCHANGED hubVars /\ TopicGrows
    <3>1. UNCHANGED <<hubVars, delivering>>
      BY <2>4 DEF MarkRead, UpdateLastRead
    <3> QED  BY <1>0, <3>1 DEF delivering, TopicGrows
  <2>3. ASSUME NEW r \in Requests, PublishMessage(r)
        PROVE  UNCHANGED hubVars /\ TopicGrows
    <3>1. id[r] \in Messages
      BY <2>3 DEF PublishMessage, SendingInvariant, Answerable, Rows
    <3>2. Append(topic, id[r]) \in Seq(Messages)
          /\ Len(Append(topic, id[r])) = Len(topic) + 1
      BY <1>0, <3>1
    <3>3. /\ topic' \in {topic, Append(topic, id[r])}
          /\ UNCHANGED <<hubVars, position>>
      BY <2>3 DEF PublishMessage
    <3>4. \A i \in 1..Len(topic) : topic'[i] = topic[i]
      BY <1>0, <3>3
    <3>5. topic' \in Seq(Messages) /\ Len(topic) <= Len(topic')
      BY <1>0, <3>2, <3>3
    <3> QED  BY <1>0, <3>3, <3>4, <3>5 DEF TopicGrows
  <2>5. ASSUME NEW r \in Requests, RequestFails(r)
               \/ (SendMessage(r) /\ ~PublishMessage(r))
        PROVE  UNCHANGED hubVars /\ TopicGrows
    BY <1>0, <2>5 DEF RequestFails, SendMessage, MessageCheck, TakeId,
         CreateMessage, delivering, TopicGrows
  <2> QED  BY <1>7, <2>1, <2>2, <2>3, <2>4, <2>5 DEF SendMessage
<1> QED
  BY <1>1, <1>2, <1>3, <1>4, <1>5, <1>6, <1>7 DEF Next, HandleStep

-----------------------------------------------------------------------------
LEMMA FrameTyped ==
  ASSUME HubInvariant
  PROVE  /\ Reply \in Frames /\ Reply \notin Messages
         /\ Messages \subseteq Frames
         /\ targets # {} => frame \in Messages
         /\ Len(sent) \in Nat
         /\ \A c \in Conns : Len(written[c]) \in Nat
BY HubAssumption DEF HubInvariant, Frames

(* What SendRaw does to the queues.                                        *)
LEMMA SendRawDoes ==
  ASSUME HubInvariant, NEW k \in Conns, NEW f \in Frames, SendRaw(k, f)
  PROVE  /\ queue' \in [Conns -> Seq(Frames)]
         /\ done \subseteq done'
         /\ \A c \in Conns : c # k => queue'[c] = queue[c]
         /\ k \notin done' => queue'[k] = Append(queue[k], f)
         /\ queue'[k] \in {queue[k], Append(queue[k], f)}
<1>1. queue \in [Conns -> Seq(Frames)] /\ Append(queue[k], f) \in Seq(Frames)
  BY DEF HubInvariant
<1> QED  BY <1>1 DEF SendRaw

(* No frame without a message makes messages.                              *)
LEMMA RepliesAreNone ==
  ASSUME HubInvariant, NEW k \in Conns, NEW r, r = Append(queue[k], Reply)
  PROVE  /\ MessagesIn(r) = MessagesIn(queue[k])
         /\ \A i \in MessagesIn(r) : /\ r[i] = queue[k][i]
                                      /\ Rank(r, i) = Rank(queue[k], i)
<1>1. queue[k] \in Seq(Frames)
  BY DEF HubInvariant
<1>2. Reply \in Frames /\ Reply \notin Messages
  BY FrameTyped
<1>3. \A i \in MessagesIn(queue[k]) : r[i] = queue[k][i]
          /\ Rank(r, i) = Rank(queue[k], i)
  BY <1>1, <1>2, AppendKeepsRanks
<1>4. MessagesIn(r) = MessagesIn(queue[k])
  BY <1>1, <1>2, AppendRanks
<1> QED  BY <1>3, <1>4

LEMMA HubInvariantStep ==
  ASSUME HubInvariant, SendingInvariant, [Next]_vars
  PROVE  HubInvariant'
<1> USE DEF HubInvariant
<1>0. Outside \cap Inside = {}
  BY DEF Outside, Inside
<1>1. CASE LeavesStreams
  <2>1. /\ UNCHANGED <<since, written, frame, targets, sent, topic, position>>
        /\ room' \subseteq room
        /\ queue' \in [Conns -> Seq(Frames)]
        /\ \A c \in Conns :
              c \in room' \/ stage[c] \in Outside => queue'[c] = queue[c]
    BY <1>1 DEF LeavesStreams
  <2>2. \/ UNCHANGED stage
        \/ \E c \in Conns, to \in Stages :
              /\ stage' = [stage EXCEPT ![c] = to]
              /\ to \in Outside => stage[c] \in Outside
              /\ to \notin Inside => c \notin room'
    <3>1. \A c \in Conns : c \in room' =>
              stage[c] \in {"welcome", "serving", "unregister"}
      BY <2>1 DEF Inside
    <3> QED
      BY <1>1, <3>1 DEF LeavesStreams, Goes, Stages, Outside, Inside
  <2>3. stage' \in [Conns -> Stages]
    BY <2>2
  <2>4. \A c \in Conns : stage'[c] \in Outside => stage[c] \in Outside
    BY <2>2
  <2>5. \A c \in room' : stage'[c] \in Inside
    BY <2>1, <2>2
  <2> QED  BY <2>1, <2>3, <2>4, <2>5
<1>2. ASSUME NEW k \in Conns, QueuesReply(k)
      PROVE  HubInvariant'
  <2>1. /\ UNCHANGED <<since, written, frame, targets, sent, topic,
                       position, room>>
        /\ queue' \in [Conns -> Seq(Frames)]
        /\ \A c \in Conns : MessagesIn(queue'[c]) = MessagesIn(queue[c])
    <3>1. UNCHANGED <<since, written, frame, targets, sent, topic,
                       position, room>>
      BY <1>2 DEF QueuesReply
    <3>2. /\ queue' \in [Conns -> Seq(Frames)]
          /\ \A c \in Conns : queue'[c] \in {queue[c], Append(queue[c], Reply)}
      BY <1>2, SendRawDoes, FrameTyped DEF QueuesReply
    <3> QED  BY <3>1, <3>2, RepliesAreNone
  <2>2. /\ stage' \in [Conns -> Stages]
        /\ \A c \in Conns : stage'[c] \in Outside => stage[c] \in Outside
        /\ \A c \in Conns : stage[c] \in Inside => stage'[c] \in Inside
    BY <1>2 DEF QueuesReply, Goes, Stages, Outside, Inside
  <2> QED  BY <2>1, <2>2
<1>3. ASSUME NEW k \in Conns, Join(k), UNCHANGED <<topic, position>>
      PROVE  HubInvariant'
  <2>1. /\ Goes(k, "join", "welcome") /\ room' = room \cup {k}
        /\ since' = [since EXCEPT ![k] = Len(sent)]
        /\ UNCHANGED <<queue, written, frame, targets, sent>>
    BY <1>3 DEF Join, streams, broadcast
  <2>2. /\ stage' \in [Conns -> Stages]
        /\ \A c \in Conns : stage'[c] \in Outside => stage[c] \in Outside
        /\ \A c \in room' : stage'[c] \in Inside
    BY <2>1 DEF Goes, Stages, Outside, Inside
  <2>3. since' \in [Conns -> Nat] /\ \A c \in Conns : since'[c] <= Len(sent)
    BY <2>1, FrameTyped
  <2> QED  BY <1>3, <2>1, <2>2, <2>3
<1>4. ASSUME NEW k \in Conns, Deliver(k), UNCHANGED <<topic, position>>
      PROVE  HubInvariant'
  <2>1. /\ k \in targets /\ SendRaw(k, frame) /\ targets' = targets \ {k}
        /\ UNCHANGED <<stage, conns, room, since, written, frame, sent>>
    BY <1>4 DEF Deliver
  <2>2. /\ queue' \in [Conns -> Seq(Frames)]
        /\ \A c \in Conns : c # k => queue'[c] = queue[c]
    BY <2>1, SendRawDoes, FrameTyped
  <2> QED  BY <1>4, <2>1, <2>2
<1>5. ASSUME NEW k \in Conns, WriteLoop(k), UNCHANGED <<topic, position>>
      PROVE  HubInvariant'
  <2>1. /\ UNCHANGED <<stage, conns, room, since, frame, targets, sent>>
        /\ queue[k] # << >>
    BY <1>5 DEF WriteLoop, broadcast
  <2>2. \/ UNCHANGED <<queue, written>>
        \/ /\ queue' = [queue EXCEPT ![k] = Tail(@)]
           /\ written' = IF Head(queue[k]) = Reply THEN written
                         ELSE [written EXCEPT ![k] =
                                      Append(@, Head(queue[k]))]
    BY <1>5 DEF WriteLoop
  <2>3. queue[k] \in Seq(Frames)
    OBVIOUS
  <2>4. Head(queue[k]) \in Frames /\ Head(queue[k]) = queue[k][1]
        /\ Tail(queue[k]) \in Seq(Frames)
    BY <2>1, <2>3
  <2>5. queue' \in [Conns -> Seq(Frames)]
    BY <2>2, <2>4
  <2>6. written' \in [Conns -> Seq(Messages)]
    <3>1. Head(queue[k]) # Reply => Head(queue[k]) \in Messages
      BY <2>4 DEF Frames
    <3>2. Head(queue[k]) # Reply =>
              Append(written[k], Head(queue[k])) \in Seq(Messages)
      BY <3>1
    <3> QED  BY <2>2, <3>2
  <2>7. \A c \in Conns : stage[c] \in Outside => written'[c] = << >>
            /\ MessagesIn(queue'[c]) = {}
    <3>1. SUFFICES ASSUME stage[k] \in Outside
                   PROVE  written'[k] = << >> /\ MessagesIn(queue'[k]) = {}
      BY <2>2
    <3>2. MessagesIn(queue[k]) = {} /\ 1 \in 1..Len(queue[k])
      BY <2>1, <2>3, <3>1
    <3>3. queue[k][1] \notin Messages
      BY <3>2 DEF MessagesIn
    <3>4. Head(queue[k]) = Reply
      BY <2>4, <3>3 DEF Frames
    <3>5. PICK r : r = Tail(queue[k])
      OBVIOUS
    <3>6. MessagesIn(r) = {i \in Nat : i + 1 \in MessagesIn(queue[k]) \ {1}}
      BY <2>1, <2>3, <3>5, TailMessages
    <3>7. MessagesIn(r) = {}
      BY <3>2, <3>6
    <3> QED  BY <2>2, <3>1, <3>2, <3>4, <3>5, <3>7
  <2> QED  BY <1>5, <2>1, <2>5, <2>6, <2>7
<1>6. ASSUME HandleEvent
      PROVE  HubInvariant'
  <2>1. /\ position < Len(topic) /\ position' = position + 1 /\ topic' = topic
        /\ CopyTargets(topic[position + 1])
    BY <1>6 DEF HandleEvent
  <2>2. topic[position + 1] \in Messages /\ position' \in 0..Len(topic)
    <3>1. position + 1 \in 1..Len(topic)
      BY <2>1
    <3> QED  BY <2>1, <3>1
  <2>3. /\ targets = {} /\ frame' = topic[position + 1] /\ targets' = room
        /\ sent' = Append(sent, topic[position + 1])
        /\ UNCHANGED <<stage, conns, room, since, queue, written>>
    BY <2>1 DEF CopyTargets, streams
  <2>4. /\ sent' \in Seq(Messages) /\ Len(sent') = Len(sent) + 1
        /\ sent'[Len(sent')] = frame'
    BY <2>2, <2>3
  <2>5. \A c \in Conns : since'[c] <= Len(sent')
    BY <2>3, <2>4, FrameTyped
  <2> QED  BY <1>0, <2>1, <2>2, <2>3, <2>4, <2>5
<1>7. CASE UNCHANGED hubVars /\ TopicGrows
  BY <1>7 DEF hubVars, streams, broadcast, TopicGrows
<1> QED  BY <1>1, <1>2, <1>3, <1>4, <1>5, <1>6, <1>7, StreamSteps

-----------------------------------------------------------------------------
(* The numbers that Whole speaks of.                                       *)
LEMMA WholeTyped ==
  ASSUME HubInvariant, NEW c \in Conns
  PROVE  /\ since[c] \in Nat /\ Len(written[c]) \in Nat /\ Len(sent) \in Nat
         /\ Cardinality(MessagesIn(queue[c])) \in Nat
         /\ queue[c] \in Seq(Frames) /\ written[c] \in Seq(Messages)
         /\ \A i \in MessagesIn(queue[c]) :
               Rank(queue[c], i) \in 1..Cardinality(MessagesIn(queue[c]))
         /\ Due(c) <= Len(sent) /\ Due(c) \in Int
<1>1. queue[c] \in Seq(Frames) /\ written[c] \in Seq(Messages)
      /\ sent \in Seq(Messages)
      /\ since[c] \in Nat
  BY DEF HubInvariant
<1>2. Due(c) <= Len(sent) /\ Due(c) \in Int
  BY <1>1 DEF Due
<1> QED  BY <1>1, <1>2, RanksTyped

(* A connection whose queue, history and due messages stay is as whole as  *)
(* before, also while more is sent.                                        *)
LEMMA WholeStays ==
  ASSUME HubInvariant, NEW c \in Conns, Whole(c),
         UNCHANGED <<queue[c], written[c], since[c]>>,
         Due(c)' = Due(c),
         \A i \in 1..Len(sent) : sent'[i] = sent[i]
  PROVE  Whole(c)'
<1>1. \A i \in 1..Len(written[c]) : since[c] + i \in 1..Len(sent)
  BY WholeTyped DEF Whole
<1>2. \A i \in MessagesIn(queue[c]) :
         since[c] + Len(written[c]) + Rank(queue[c], i) \in 1..Len(sent)
  <2>1. SUFFICES ASSUME NEW i \in MessagesIn(queue[c])
                 PROVE  since[c] + Len(written[c]) + Rank(queue[c], i)
                          \in 1..Len(sent)
    OBVIOUS
  <2>2. PICK n : n = Rank(queue[c], i)
    OBVIOUS
  <2>3. n \in 1..Cardinality(MessagesIn(queue[c]))
    BY <2>2, WholeTyped
  <2>4. since[c] + Len(written[c]) + n \in 1..Len(sent)
    BY <2>3, WholeTyped DEF Whole
  <2> QED  BY <2>2, <2>4
<1>3. PICK q, w, s : q = queue[c] /\ w = written[c] /\ s = since[c]
  OBVIOUS
<1>4. q = queue'[c] /\ w = written'[c] /\ s = since'[c]
  BY <1>3
<1> QED  BY <1>1, <1>2, <1>3, <1>4 DEF Whole

LEMMA ReplyKeepsWhole ==
  ASSUME HubInvariant, NEW c \in Conns, Whole(c),
         queue'[c] = Append(queue[c], Reply),
         UNCHANGED <<written, since, sent, targets>>
  PROVE  Whole(c)'
<1>1. PICK q : q = queue'[c]
  OBVIOUS
<1>2. /\ MessagesIn(q) = MessagesIn(queue[c])
      /\ \A i \in MessagesIn(q) : /\ q[i] = queue[c][i]
                                   /\ Rank(q, i) = Rank(queue[c], i)
  BY <1>1, RepliesAreNone
<1>3. Due(c)' = Due(c)
  BY DEF Due
<1> QED  BY <1>1, <1>2, <1>3 DEF Whole

LEMMA OneMore ==
  ASSUME NEW a \in Nat, NEW b \in Nat, NEW n \in Nat, NEW t \in Nat,
         a + b + n = t - 1
  PROVE  a + b + (n + 1) = t
  OBVIOUS

LEMMA DeliveryKeepsWhole ==
  ASSUME HubInvariant, NEW c \in Conns, Whole(c), c \in targets,
         queue'[c] = Append(queue[c], frame), targets' = targets \ {c},
         UNCHANGED <<written, since, sent>>
  PROVE  Whole(c)'
<1>1. PICK q, r : q = queue[c] /\ r = queue'[c]
  OBVIOUS
<1>2. /\ q \in Seq(Frames) /\ frame \in Messages /\ frame \in Frames
      /\ frame = sent[Len(sent)] /\ r = Append(q, frame)
  BY <1>1, FrameTyped, WholeTyped DEF HubInvariant
<1>3. /\ MessagesIn(r) = MessagesIn(q) \cup {Len(q) + 1}
      /\ Cardinality(MessagesIn(r)) = Cardinality(MessagesIn(q)) + 1
      /\ Rank(r, Len(q) + 1) = Cardinality(MessagesIn(q)) + 1
      /\ r[Len(q) + 1] = frame
  BY <1>2, AppendRanks
<1>4. \A i \in MessagesIn(q) : r[i] = q[i] /\ Rank(r, i) = Rank(q, i)
  BY <1>2, AppendKeepsRanks
<1>5. Due(c) = Len(sent) - 1 /\ Due(c)' = Len(sent) /\ Len(sent) \in Nat
  BY FrameTyped DEF Due
<1>6. /\ since[c] \in Nat /\ Len(written[c]) \in Nat
      /\ Cardinality(MessagesIn(q)) \in Nat
      /\ since[c] + Len(written[c]) + Cardinality(MessagesIn(q)) =
          Len(sent) - 1
  BY <1>1, <1>5, WholeTyped DEF Whole
<1>7. since[c] + Len(written[c]) + (Cardinality(MessagesIn(q)) + 1) = Len(sent)
  <2>1. PICK a, b, n, t : /\ a = since[c] /\ b = Len(written[c])
                          /\ n = Cardinality(MessagesIn(q)) /\ t = Len(sent)
    OBVIOUS
  <2>2. a \in Nat /\ b \in Nat /\ n \in Nat /\ t \in Nat
    BY <1>5, <1>6, <2>1
  <2>3. a + b + n = t - 1
    BY <1>6, <2>1
  <2>4. a + b + (n + 1) = t
    BY <2>2, <2>3, OneMore
  <2> QED  BY <2>1, <2>4
<1>8. sent[since[c] + Len(written[c]) + Rank(r, Len(q) + 1)] = r[Len(q) + 1]
  BY <1>2, <1>3, <1>7
<1>9. \A i \in MessagesIn(r) : sent[since[c] + Len(written[c]) + Rank(r, i)] =
          r[i]
  BY <1>1, <1>3, <1>4, <1>8 DEF Whole
<1>10. since[c] + Len(written[c]) + Cardinality(MessagesIn(r)) = Len(sent)
  BY <1>3, <1>7
<1> QED  BY <1>1, <1>5, <1>9, <1>10 DEF Whole

LEMMA WritingKeepsWhole ==
  ASSUME HubInvariant, NEW c \in Conns, Whole(c), queue[c] # << >>,
         queue'[c] = Tail(queue[c]),
         written'[c] = IF Head(queue[c]) = Reply THEN written[c]
                       ELSE Append(written[c], Head(queue[c])),
         UNCHANGED <<since, sent, targets>>
  PROVE  Whole(c)'
<1>1. PICK q, r, w, v : /\ q = queue[c] /\ r = queue'[c]
                        /\ w = written[c] /\ v = written'[c]
  OBVIOUS
<1>2. q \in Seq(Frames) /\ q # << >> /\ r = Tail(q) /\ w \in Seq(Messages)
  BY <1>1, WholeTyped
<1>3. PICK k : k = IF q[1] \in Messages THEN 1 ELSE 0
  OBVIOUS
<1>4. /\ Cardinality(MessagesIn(r)) = Cardinality(MessagesIn(q)) - k
      /\ k = 1 => 1 \in MessagesIn(q) /\ Rank(q, 1) = 1
      /\ k \in {0, 1}
  <2>1. /\ Cardinality(MessagesIn(r)) =
              Cardinality(MessagesIn(q)) - IF q[1] \in Messages THEN 1 ELSE 0
        /\ q[1] \in Messages => 1 \in MessagesIn(q) /\ Rank(q, 1) = 1
    BY <1>2, TailRanks
  <2> QED  BY <1>3, <2>1
<1>5. Head(q) = q[1] /\ (Head(q) = Reply <=> q[1] \notin Messages)
  BY <1>2, HubAssumption DEF Frames
<1>6. /\ Len(v) = Len(w) + k
      /\ \A i \in 1..Len(w) : v[i] = w[i]
      /\ k = 1 => v[Len(w) + 1] = q[1]
  <2>1. CASE q[1] \in Messages
    <3>1. v = Append(w, q[1]) /\ k = 1
      BY <1>1, <1>3, <1>5, <2>1
    <3> QED  BY <1>2, <3>1
  <2>2. CASE q[1] \notin Messages
    <3>1. v = w /\ k = 0
      BY <1>1, <1>3, <1>5, <2>2
    <3> QED  BY <1>2, <3>1
  <2> QED  BY <2>1, <2>2
<1>7. since[c] \in Nat /\ Len(w) \in Nat /\ Cardinality(MessagesIn(q)) \in Nat
  BY <1>1, WholeTyped
<1>8. /\ since[c] + Len(w) + Cardinality(MessagesIn(q)) = Due(c)
      /\ \A i \in 1..Len(w) : sent[since[c] + i] = w[i]
      /\ \A i \in MessagesIn(q) : sent[since[c] + Len(w) + Rank(q, i)] = q[i]
  BY <1>1 DEF Whole
<1>9. Due(c)' = Due(c)
  BY DEF Due
<1>10. since[c] + Len(v) + Cardinality(MessagesIn(r)) = Due(c)
  <2>1. PICK n : n = Cardinality(MessagesIn(q))
    OBVIOUS
  <2>2. since[c] + (Len(w) + k) + (n - k) = since[c] + Len(w) + n
    BY <1>4, <1>7, <2>1
  <2> QED  BY <1>4, <1>6, <1>8, <2>1, <2>2
<1>11. \A i \in 1..Len(v) : sent[since[c] + i] = v[i]
  <2>1. k = 1 => sent[since[c] + (Len(w) + 1)] = v[Len(w) + 1]
    <3>1. since[c] + Len(w) + 1 = since[c] + (Len(w) + 1)
      BY <1>7
    <3>2. k = 1 => sent[since[c] + Len(w) + 1] = q[1]
      BY <1>4, <1>8
    <3> QED  BY <1>6, <3>1, <3>2
  <2>2. \A i \in 1..Len(v) : i \in 1..Len(w) \/ (k = 1 /\ i = Len(w) + 1)
    BY <1>4, <1>6, <1>7
  <2> QED  BY <1>6, <1>8, <2>1, <2>2
<1>12. \A i \in MessagesIn(r) : sent[since[c] + Len(v) + Rank(r, i)] = r[i]
  <2>1. SUFFICES ASSUME NEW i \in MessagesIn(r)
                 PROVE  sent[since[c] + Len(v) + Rank(r, i)] = r[i]
    OBVIOUS
  <2>2. /\ i + 1 \in MessagesIn(q) /\ r[i] = q[i + 1]
        /\ Rank(r, i) = Rank(q, i + 1) - k
    BY <1>2, <1>3, TailKeepsRanks
  <2>3. PICK n : n = Rank(q, i + 1)
    OBVIOUS
  <2>4. n \in Nat
    BY <1>2, <2>3, RanksTyped
  <2>5. since[c] + (Len(w) + k) + (n - k) = since[c] + Len(w) + n
    BY <1>4, <1>7, <2>4
  <2> QED  BY <1>6, <1>8, <2>2, <2>3, <2>5
<1> QED  BY <1>1, <1>9, <1>10, <1>11, <1>12 DEF Whole

-----------------------------------------------------------------------------
LEMMA StreamsStep ==
  ASSUME StreamsInvariant, SendingInvariant, [Next]_vars
  PROVE  StreamsInvariant'
<1>0. HubInvariant /\ HubInvariant' /\ room \subseteq Conns
  BY HubInvariantStep DEF StreamsInvariant, HubInvariant
<1> SUFFICES ASSUME NEW c \in room', c \notin done'
             PROVE  Whole(c)'
  BY <1>0 DEF StreamsInvariant
<1>1. c \in Conns
  BY <1>0 DEF HubInvariant
<1>2. c \in room \ done => Whole(c)
  BY DEF StreamsInvariant
<1>3. CASE LeavesStreams
  <2>1. /\ c \in room \ done /\ Due(c)' = Due(c)
        /\ UNCHANGED <<queue[c], written[c], since[c]>> /\ sent' = sent
    BY <1>1, <1>3 DEF LeavesStreams, Due
  <2> QED  BY <1>0, <1>1, <1>2, <2>1, WholeStays
<1>4. ASSUME UNCHANGED <<written, since, room, frame, sent>>,
             NEW k \in Conns, NEW f \in Frames, SendRaw(k, f),
             \/ f = Reply /\ targets' = targets
             \/ k \in targets /\ f = frame /\ targets' = targets \ {k}
      PROVE  Whole(c)'
  <2>1. /\ c \in room \ done
        /\ c # k => queue'[c] = queue[c]
        /\ c = k => queue'[c] = Append(queue[c], f)
    BY <1>0, <1>1, <1>4, SendRawDoes
  <2>2. CASE c # k
    <3>1. Due(c)' = Due(c)
      BY <1>4, <2>2 DEF Due
    <3> QED  BY <1>0, <1>1, <1>2, <1>4, <2>1, <2>2, <3>1, WholeStays
  <2>3. CASE c = k /\ f = Reply /\ targets' = targets
    BY <1>0, <1>1, <1>2, <1>4, <2>1, <2>3, ReplyKeepsWhole
  <2>4. CASE c = k /\ k \in targets /\ f = frame /\ targets' = targets \ {k}
    BY <1>0, <1>1, <1>2, <1>4, <2>1, <2>4, DeliveryKeepsWhole
  <2> QED  BY <1>4, <2>2, <2>3, <2>4
<1>5. ASSUME NEW k \in Conns, QueuesReply(k)
      PROVE  Whole(c)'
  BY <1>0, <1>4, <1>5, FrameTyped DEF QueuesReply
<1>6. ASSUME NEW k \in Conns, Deliver(k)
      PROVE  Whole(c)'
  <2>1. frame \in Frames /\ k \in targets
    BY <1>0, <1>6, FrameTyped DEF Deliver
  <2> QED  BY <1>4, <1>6, <2>1 DEF Deliver
<1>7. ASSUME NEW k \in Conns, Join(k)
      PROVE  Whole(c)'
  <2>1. /\ stage[k] \in Outside /\ room' = room \cup {k}
        /\ since' = [since EXCEPT ![k] = Len(sent)]
        /\ UNCHANGED <<queue, written, done, sent, targets>>
    BY <1>7 DEF Join, Goes, streams, broadcast, Outside
  <2>2. CASE c = k
    <3>1. /\ written[c] = << >> /\ MessagesIn(queue[c]) = {}
          /\ since'[c] = Len(sent) /\ c \notin targets
      BY <1>0, <1>1, <2>1, <2>2 DEF HubInvariant
    <3>2. PICK q, w, s : q = queue'[c] /\ w = written'[c] /\ s = since'[c]
      OBVIOUS
    <3>3. /\ w = << >> /\ MessagesIn(q) = {} /\ s = Len(sent)
          /\ Due(c)' = Len(sent)
          /\ Cardinality(MessagesIn(q)) = 0 /\ Len(w) = 0 /\ Len(sent) \in Nat
      <4>1. Cardinality({}) = 0
        BY FS_EmptySet
      <4>2. Due(c)' = Len(sent) /\ Len(sent) \in Nat
        BY <1>0, <2>1, <3>1, FrameTyped DEF Due
      <4> QED  BY <2>1, <3>1, <3>2, <4>1, <4>2
    <3>4. s + Len(w) + Cardinality(MessagesIn(q)) = Due(c)'
      BY <3>3
    <3> QED  BY <3>2, <3>3, <3>4 DEF Whole
  <2>3. CASE c # k
    <3>1. c \in room \ done /\ since'[c] = since[c] /\ Due(c)' = Due(c)
      BY <1>0, <1>1, <2>1, <2>3 DEF HubInvariant, Due
    <3> QED  BY <1>0, <1>1, <1>2, <2>1, <3>1, WholeStays
  <2> QED  BY <2>2, <2>3
<1>8. ASSUME NEW k \in Conns, WriteLoop(k)
      PROVE  Whole(c)'
  <2>1. /\ UNCHANGED <<room, since, targets, sent>> /\ done \subseteq done'
        /\ queue[k] # << >>
        /\ \/ k \in done' /\ UNCHANGED <<queue, written>>
           \/ /\ queue' = [queue EXCEPT ![k] = Tail(@)]
              /\ written' = IF Head(queue[k]) = Reply THEN written
                            ELSE [written EXCEPT ![k] =
                                      Append(@, Head(queue[k]))]
    BY <1>8 DEF WriteLoop, broadcast
  <2>2. c \in room \ done /\ Due(c)' = Due(c)
    BY <2>1 DEF Due
  <2>3. queue \in [Conns -> Seq(Frames)]
        /\ written \in [Conns -> Seq(Messages)]
    BY <1>0 DEF HubInvariant
  <2>4. CASE c = k
    <3>1. /\ queue'[c] = Tail(queue[c])
          /\ written'[c] = IF Head(queue[c]) = Reply THEN written[c]
                           ELSE Append(written[c], Head(queue[c]))
      BY <1>1, <2>1, <2>3, <2>4
    <3> QED  BY <1>0, <1>1, <1>2, <2>1, <2>2, <2>4, <3>1, WritingKeepsWhole
  <2>5. CASE c # k
    <3>1. UNCHANGED <<queue[c], written[c]>>
      BY <1>1, <2>1, <2>3, <2>5
    <3> QED  BY <1>0, <1>1, <1>2, <2>1, <2>2, <3>1, WholeStays
  <2> QED  BY <2>4, <2>5
<1>9. ASSUME HandleEvent
      PROVE  Whole(c)'
  <2>1. PICK m : CopyTargets(m)
    BY <1>9 DEF HandleEvent
  <2>2. /\ targets = {} /\ targets' = room /\ sent' = Append(sent, m)
        /\ UNCHANGED <<room, done, queue, written, since>>
    BY <2>1 DEF CopyTargets, streams
  <2>3. sent \in Seq(Messages) /\ sent' \in Seq(Messages)
    BY <1>0 DEF HubInvariant
  <2>4. /\ Len(sent) \in Nat /\ Len(sent') = Len(sent) + 1
        /\ \A i \in 1..Len(sent) : sent'[i] = sent[i]
    BY <2>2, <2>3
  <2>5. Due(c)' = Due(c)
    BY <2>2, <2>4 DEF Due
  <2> QED  BY <1>0, <1>1, <1>2, <2>2, <2>4, <2>5, WholeStays
<1>10. CASE UNCHANGED hubVars
  <2>1. /\ UNCHANGED <<room, done, queue, written, since, sent, targets>>
        /\ c \in room \ done /\ Due(c)' = Due(c)
    BY <1>10 DEF hubVars, streams, broadcast, Due
  <2> QED  BY <1>0, <1>1, <1>2, <2>1, WholeStays
<1> QED
  BY <1>0, <1>3, <1>5, <1>6, <1>7, <1>8, <1>9, <1>10, StreamSteps

LEMMA StreamsInit == Init => StreamsInvariant
<1> SUFFICES ASSUME Init PROVE StreamsInvariant
  OBVIOUS
<1>1. \A c \in Conns : MessagesIn(queue[c]) = {}
  BY DEF Init, HubInit, MessagesIn
<1> QED
  BY <1>1 DEF Init, HubInit, StreamsInvariant, HubInvariant, Stages

(* A connection's stream has no hole, for any queue size and any number of *)
(* connections, broadcasts and closes: it has written or queued all it was *)
(* offered since it joined, in order.                                      *)
THEOREM StreamsCorrect == Spec => []OpenStreamsAreWhole
<1>1. StreamsInvariant => OpenStreamsAreWhole
  <2> SUFFICES ASSUME StreamsInvariant, NEW c \in room \ done
               PROVE  LET count == Len(written[c])
                          rank(i) == Cardinality({j \in Queued(c) : j <= i})
                      IN /\ Len(Offered(c)) = count + Cardinality(Queued(c))
                         /\ \A i \in 1..count : Offered(c)[i] = written[c][i]
                         /\ \A i \in Queued(c) : Offered(c)[count + rank(i)] =
                             queue[c][i]
    BY DEF OpenStreamsAreWhole
  <2>1. c \in Conns /\ Whole(c) /\ HubInvariant
    BY DEF StreamsInvariant, HubInvariant
  <2>2. Queued(c) = MessagesIn(queue[c])
    BY DEF Queued, MessagesIn
  <2>3. \A i : Cardinality({j \in Queued(c) : j <= i}) = Rank(queue[c], i)
    BY <2>2 DEF Rank
  <2>4. Offered(c) = SubSeq(sent, since[c] + 1, Due(c))
    BY DEF Offered, Due
  <2>5. PICK s, w, n, d, k : /\ s = since[c] /\ w = Len(written[c])
                             /\ d = Due(c)
                             /\ n = Cardinality(MessagesIn(queue[c]))
                             /\ k = Len(sent)
    OBVIOUS
  <2>6. /\ s \in Nat /\ w \in Nat /\ n \in Nat /\ d \in Int /\ k \in Nat
        /\ d <= k
        /\ s + w + n = d /\ sent \in Seq(Messages)
    BY <2>1, <2>5, WholeTyped DEF Whole, HubInvariant
  <2>7. /\ Len(Offered(c)) = w + n
        /\ \A i \in 1..w + n : Offered(c)[i] = sent[s + i]
    <3>1. Offered(c) = SubSeq(sent, s + 1, d) /\ s + 1 \in Nat /\ d \in Nat
          /\ k = Len(sent)
      BY <2>4, <2>5, <2>6
    <3>2. /\ Len(SubSeq(sent, s + 1, d)) = d - s
          /\ \A i \in 1..d - s : SubSeq(sent, s + 1, d)[i] =
              sent[s + 1 + i - 1]
      <4>1. d - (s + 1) + 1 = d - s /\ s <= d /\ d <= k
        BY <2>6
      <4>2. s + 1 <= d + 1 /\ \A i \in s + 1..d : i \in 1..k
        BY <2>6
      <4>3. Len(SubSeq(sent, s + 1, d)) = d - s
        BY <2>6, <3>1, <4>1, <4>2
      <4>4. ASSUME NEW i \in 1..d - s
            PROVE  SubSeq(sent, s + 1, d)[i] = sent[s + 1 + i - 1]
        BY <2>6, <3>1, <4>1, <4>2
      <4> QED  BY <4>3, <4>4
    <3>3. d - s = w + n /\ \A i \in 1..w + n : s + 1 + i - 1 = s + i
      BY <2>6
    <3> QED  BY <3>1, <3>2, <3>3
  <2>8. \A i \in 1..w : Offered(c)[i] = written[c][i]
    <3>1. \A i \in 1..w : i \in 1..w + n
      BY <2>6
    <3> QED  BY <2>1, <2>5, <2>7, <3>1 DEF Whole
  <2>9. \A i \in MessagesIn(queue[c]) : Offered(c)[w + Rank(queue[c], i)] =
            queue[c][i]
    <3>1. SUFFICES ASSUME NEW i \in MessagesIn(queue[c])
                   PROVE  Offered(c)[w + Rank(queue[c], i)] = queue[c][i]
      OBVIOUS
    <3>2. PICK r : r = Rank(queue[c], i)
      OBVIOUS
    <3>3. r \in 1..n
      BY <2>1, <2>5, <3>2, WholeTyped
    <3>4. w + r \in 1..w + n /\ s + (w + r) = s + w + r
      BY <2>6, <3>3
    <3>5. sent[s + w + r] = queue[c][i]
      BY <2>1, <2>5, <3>2 DEF Whole
    <3> QED  BY <2>7, <3>2, <3>4, <3>5
  <2> QED  BY <2>2, <2>3, <2>5, <2>7, <2>8, <2>9
<1> QED  BY <1>1, StreamsInit, StreamsStep, SendingInit, SendingStep,
     PTL DEF Spec

-----------------------------------------------------------------------------
(* What the reader knows, and what is on its way to it.                    *)

LEMMA GreatestIsThere ==
  ASSUME NEW n \in Nat, NEW S \in SUBSET (0..n), S # {}
  PROVE  Max(S) \in S /\ \A y \in S : Max(S) >= y
<1> DEFINE bounds == {b \in Nat : \A y \in S : y <= b}
<1>1. n \in bounds
  OBVIOUS
<1> HIDE DEF bounds
<1>2. PICK x \in bounds : \A y \in bounds : <<y, x>> \notin OpToRel(<, Nat)
  <2>1. bounds \subseteq Nat /\ bounds # {}
    BY <1>1 DEF bounds
  <2> QED  BY <2>1, NatLessThanWellFounded, WFMin
<1>3. \A y \in bounds : ~(y < x)
  <2>1. bounds \subseteq Nat
    BY DEF bounds
  <2> QED  BY <1>2, <2>1 DEF OpToRel
<1>4. x \in Nat /\ \A y \in S : y \in Nat /\ y <= x
  BY DEF bounds
<1>5. x \in S
  <2>1. SUFFICES ASSUME x \notin S
                 PROVE  FALSE
    OBVIOUS
  <2>2. PICK z \in S : TRUE
    OBVIOUS
  <2>3. z \in Nat /\ z <= x /\ z # x
    BY <1>4, <2>1
  <2>4. x - 1 \in Nat /\ x - 1 < x
    BY <1>4, <2>3
  <2>5. ASSUME NEW y \in S
        PROVE  y <= x - 1
    <3>1. y \in Nat /\ y <= x /\ y # x
      BY <1>4, <2>1
    <3> QED  BY <1>4, <3>1
  <2>6. x - 1 \in bounds
    BY <2>4, <2>5 DEF bounds
  <2> QED  BY <1>3, <2>4, <2>6
<1> QED  BY <1>4, <1>5 DEF Max

-----------------------------------------------------------------------------
OnItsWay(c, m) ==
    \/ \E i \in position + 1..Len(topic) : topic[i] = m
    \/ \E i \in 1..Len(queue[c]) : queue[c][i] = m
    \/ c \in targets /\ frame = m

ReadingTypeOK ==
    /\ known \subseteq Messages /\ cursor \in Nat
    /\ 1..cursor \ known \subseteq passed
    /\ pulled \subseteq {c \in Conns : stage[c] \notin Outside}
    /\ \A i \in 1..Len(topic) : topic[i] \in Rows

Excused == known \cup Unpublished \cup skipped \cup passed

ReadersInvariant ==
    /\ ReadingTypeOK
    /\ \A c \in (room \ done) \cap pulled, m \in Rows :
          m \in Excused \/ OnItsWay(c, m)

(* A connection that has passed the point where it joins does not go back. *)
LEMMA StagesAdvance ==
  ASSUME HubInvariant, SendingInvariant, [Next]_vars, NEW c \in Conns,
         stage'[c] \in Outside
  PROVE  stage[c] \in Outside
<1>0. stage \in [Conns -> Stages]
  BY DEF HubInvariant
<1>1. CASE LeavesStreams
  BY <1>0, <1>1 DEF LeavesStreams, Goes, Outside
<1>2. ASSUME NEW k \in Conns, QueuesReply(k) \/ Join(k)
      PROVE  stage[c] \in Outside
  BY <1>0, <1>2 DEF QueuesReply, Join, Goes, Outside
<1>3. ASSUME NEW k \in Conns, Deliver(k) \/ WriteLoop(k)
      PROVE  stage[c] \in Outside
  BY <1>3 DEF Deliver, WriteLoop
<1>4. CASE HandleEvent
  BY <1>4 DEF HandleEvent, CopyTargets
<1>5. CASE UNCHANGED hubVars
  BY <1>5 DEF hubVars
<1> QED  BY <1>1, <1>2, <1>3, <1>4, <1>5, StreamSteps

(* Rows stay, and only rows are published.                                 *)
LEMMA RowsStay ==
  ASSUME SendingInvariant, [Next]_vars
  PROVE  /\ Rows \subseteq Rows'
         /\ \/ UNCHANGED topic
            \/ \E r \in Requests : PublishMessage(r) /\ id[r] \in Rows
<1> USE DEF SendingInvariant
<1>1. ASSUME NEW r \in Requests, CreateMessage(r)
      PROVE  Rows \subseteq Rows' /\ UNCHANGED topic
  BY <1>1, ChatAssumption DEF CreateMessage, Rows, IdsAreOwn, KeysAreChosen,
     SendingTypeOK, delivering
<1>2. ASSUME NEW r \in Requests, PublishMessage(r)
      PROVE  Rows \subseteq Rows' /\ id[r] \in Rows
  BY <1>2 DEF PublishMessage, Answerable, Rows
<1>3. ASSUME NEW r \in Requests,
             \/ \E k \in ClientIds : MessageCheck(r, k)
             \/ TakeId(r) \/ RequestFails(r)
      PROVE  Rows \subseteq Rows' /\ UNCHANGED topic
  BY <1>3 DEF MessageCheck, TakeId, RequestFails, Rows, delivering
<1>4. ASSUME NEW c \in Conns, Connect(c) \/ Receive(c)
      PROVE  Rows \subseteq Rows' /\ UNCHANGED topic
  BY <1>4 DEF Connect, Receive, Rows, sending, delivering
<1>5. CASE Same \/ UNCHANGED vars
  BY <1>5 DEF Same, vars, Rows, sending, delivering
<1>6. CASE \/ HandleEvent \/ HandleAgain \/ DeliverHint \/ Pull
           \/ MembershipChanges
           \/ \E m \in Messages : MarkRead(m) \/ UpdateLastRead(m)
  BY <1>6 DEF HandleEvent, HandleAgain, DeliverHint, Pull, MembershipChanges,
     MarkRead, UpdateLastRead, Rows, sending, delivering
<1> QED  BY <1>1, <1>2, <1>3, <1>4, <1>5, <1>6 DEF Next, SendMessage

(* What the steps do to what the reader knows.                             *)
LEMMA ReadingSteps ==
  ASSUME [Next]_vars
  PROVE  \/ UNCHANGED <<known, cursor, pulled, skipped, passed>>
         \/ \E c \in Conns : Connect(c) \/ Receive(c)
         \/ Pull
<1>1. ASSUME NEW r \in Requests, SendMessage(r) \/ RequestFails(r)
      PROVE  UNCHANGED <<known, cursor, pulled, skipped, passed>>
  BY <1>1 DEF SendMessage, MessageCheck, TakeId, CreateMessage,
     PublishMessage, RequestFails, reading
<1>2. CASE Same \/ UNCHANGED vars
  BY <1>2 DEF Same, vars, reading
<1>3. CASE \/ HandleEvent \/ HandleAgain \/ DeliverHint
           \/ MembershipChanges
           \/ \E m \in Messages : MarkRead(m) \/ UpdateLastRead(m)
  BY <1>3 DEF HandleEvent, HandleAgain, DeliverHint, MembershipChanges,
     MarkRead, UpdateLastRead, reading
<1> QED  BY <1>1, <1>2, <1>3 DEF Next

LEMMA ReadingTypeStep ==
  ASSUME HubInvariant, SendingInvariant, ReadingTypeOK, [Next]_vars
  PROVE  ReadingTypeOK'
<1> USE DEF ReadingTypeOK
<1>1. /\ known' \subseteq Messages /\ cursor' \in Nat
      /\ 1..cursor' \ known' \subseteq passed'
  <2>1. CASE UNCHANGED <<known, cursor, pulled, skipped, passed>>
    BY <2>1
  <2>2. ASSUME NEW c \in Conns, Connect(c)
        PROVE  <1>1!:
    <3>1. cursor' = MaxOf(known) /\ known' = known
          /\ passed' = passed \cup (1..cursor' \ known)
      BY <2>2 DEF Connect
    <3>2. MaxOf(known) \in Nat
      <4>1. CASE known = {}
        BY <4>1 DEF MaxOf
      <4>2. CASE known # {}
        <5>1. PICK n \in Nat : n = Cardinality(Requests)
          BY ChatAssumption, FS_CardinalityType
        <5>2. known \in SUBSET (0..n)
          BY <5>1, ChatAssumption
        <5>3. Max(known) \in known
          BY <4>2, <5>2, GreatestIsThere
        <5>4. MaxOf(known) = Max(known)
          BY <4>2 DEF MaxOf
        <5>5. \A i \in known : i \in Nat
          BY <5>2
        <5> QED  BY <5>3, <5>4, <5>5
      <4> QED  BY <4>1, <4>2
    <3> QED  BY <3>1, <3>2
  <2>3. ASSUME NEW c \in Conns, Receive(c)
        PROVE  <1>1!:
    <3>1. written'[c] \in Seq(Messages)
      BY HubInvariantStep DEF HubInvariant
    <3>2. ToSet(written'[c]) \subseteq Messages
      BY <3>1 DEF ToSet
    <3> QED  BY <2>3, <3>2 DEF Receive
  <2>4. CASE Pull
    <3>1. Newest(Missing(cursor)) \subseteq Messages
      BY DEF Newest, Missing, Rows
    <3> QED  BY <2>4, <3>1 DEF Pull
  <2> QED  BY <2>1, <2>2, <2>3, <2>4, ReadingSteps
<1>2. pulled' \subseteq {c \in Conns : stage'[c] \notin Outside}
  <2>1. pulled' \subseteq {c \in Conns : stage[c] \notin Outside}
    <3>1. CASE UNCHANGED pulled
      BY <3>1
    <3>2. CASE Pull
      BY <3>2 DEF Pull, HubInvariant, Inside, Outside
    <3>3. ASSUME NEW c \in Conns, Connect(c) \/ Receive(c)
          PROVE  UNCHANGED pulled
      BY <3>3 DEF Connect, Receive
    <3> QED  BY <3>1, <3>2, <3>3, ReadingSteps
  <2> QED  BY <2>1, StagesAdvance
<1>3. \A i \in 1..Len(topic') : topic'[i] \in Rows'
  <2>1. Rows \subseteq Rows' /\ topic \in Seq(Messages)
    BY RowsStay DEF HubInvariant
  <2>2. CASE UNCHANGED topic
    BY <2>1, <2>2
  <2>3. ASSUME NEW r \in Requests, PublishMessage(r), id[r] \in Rows
        PROVE  <1>3!:
    <3>1. topic' \in {topic, Append(topic, id[r])}
      BY <2>3 DEF PublishMessage
    <3> QED  BY <2>1, <2>3, <3>1
  <2> QED  BY <2>2, <2>3, RowsStay
<1> QED  BY <1>1, <1>2, <1>3

-----------------------------------------------------------------------------
(* A message on its way to an open connection stays on its way until the   *)
(* reader has it.                                                          *)
LEMMA StaysOnItsWay ==
  ASSUME HubInvariant, SendingInvariant, [Next]_vars,
         NEW c \in Conns, c \in room' \ done', NEW m \in Messages,
         OnItsWay(c, m)
  PROVE  OnItsWay(c, m)' \/ m \in known'
<1>0. /\ queue[c] \in Seq(Frames) /\ topic \in Seq(Messages)
      /\ position \in Nat /\ position <= Len(topic)
      /\ room \subseteq Conns
  BY DEF HubInvariant
<1> DEFINE Ahead == \E i \in position + 1..Len(topic) : topic[i] = m
           InQueue(q) == \E i \in 1..Len(q) : q[i] = m
<1>1. Ahead \/ InQueue(queue[c]) \/ (c \in targets /\ frame = m)
  BY DEF OnItsWay
<1>2. (Ahead' \/ InQueue(queue'[c]) \/ (c \in targets' /\ frame' = m))
         => OnItsWay(c, m)'
  BY DEF OnItsWay
<1>3. ASSUME NEW f \in Frames, queue'[c] \in {queue[c], Append(queue[c], f)},
             InQueue(queue[c])
      PROVE  InQueue(queue'[c])
  BY <1>0, <1>3
<1>4. CASE LeavesStreams
  <2>1. queue'[c] = queue[c] /\ UNCHANGED <<frame, targets, topic, position>>
    BY <1>4 DEF LeavesStreams
  <2> QED  BY <1>1, <1>2, <2>1
<1>5. ASSUME NEW k \in Conns, QueuesReply(k)
      PROVE  OnItsWay(c, m)'
  <2>1. UNCHANGED <<frame, targets, topic, position>>
        /\ SendRaw(k, Reply) /\ Reply \in Frames
    BY <1>5, FrameTyped DEF QueuesReply
  <2>2. queue'[c] \in {queue[c], Append(queue[c], Reply)}
    BY <2>1, SendRawDoes
  <2> QED  BY <1>1, <1>2, <1>3, <2>1, <2>2
<1>6. ASSUME NEW k \in Conns, Join(k), UNCHANGED <<topic, position>>
      PROVE  OnItsWay(c, m)'
  BY <1>1, <1>2, <1>6 DEF Join, streams, broadcast
<1>7. ASSUME NEW k \in Conns, Deliver(k), UNCHANGED <<topic, position>>
      PROVE  OnItsWay(c, m)'
  <2>1. /\ k \in targets /\ SendRaw(k, frame) /\ frame \in Frames
        /\ targets' = targets \ {k} /\ UNCHANGED frame
    BY <1>7, FrameTyped DEF Deliver
  <2>2. /\ c # k => queue'[c] = queue[c]
        /\ c = k => queue'[c] = Append(queue[c], frame)
    BY <2>1, SendRawDoes
  <2>3. CASE Ahead
    BY <1>2, <1>7, <2>3
  <2>4. CASE InQueue(queue[c])
    BY <1>2, <1>3, <2>1, <2>2, <2>4
  <2>5. CASE c \in targets /\ frame = m
    <3>1. CASE c = k
      <4>1. /\ Len(queue'[c]) = Len(queue[c]) + 1
            /\ queue'[c][Len(queue'[c])] = m /\ Len(queue[c]) \in Nat
        BY <1>0, <2>1, <2>2, <2>5, <3>1
      <4> QED  BY <1>2, <4>1
    <3>2. CASE c # k
      BY <1>2, <2>1, <2>5, <3>2
    <3> QED  BY <3>1, <3>2
  <2> QED  BY <1>1, <2>3, <2>4, <2>5
<1>8. ASSUME NEW k \in Conns, WriteLoop(k), UNCHANGED <<topic, position>>,
             known' = known \cup ToSet(written'[k])
      PROVE  OnItsWay(c, m)' \/ m \in known'
  <2>1. UNCHANGED <<frame, targets>> /\ queue[k] # << >>
        /\ queue \in [Conns -> Seq(Frames)]
        /\ written \in [Conns -> Seq(Messages)]
    BY <1>8 DEF WriteLoop, broadcast, HubInvariant
  <2>2. CASE UNCHANGED queue
    BY <1>1, <1>2, <1>8, <2>1, <2>2
  <2>3. CASE c # k /\ queue' = [queue EXCEPT ![k] = Tail(@)]
    BY <1>1, <1>2, <1>8, <2>1, <2>3
  <2>4. CASE /\ c = k /\ queue' = [queue EXCEPT ![k] = Tail(@)]
             /\ written' = IF Head(queue[k]) = Reply THEN written
                           ELSE [written EXCEPT ![k] =
                                      Append(@, Head(queue[k]))]
    <3>1. CASE Ahead \/ (c \in targets /\ frame = m)
      BY <1>2, <1>8, <2>1, <3>1
    <3>2. ASSUME NEW i \in 1..Len(queue[c]), queue[c][i] = m
          PROVE  OnItsWay(c, m)' \/ m \in known'
      <4>1. CASE i = 1
        <5>1. Head(queue[k]) = m /\ m # Reply
          BY <1>0, <2>1, <2>4, <3>2, <4>1, HubAssumption
        <5>2. written'[c] = Append(written[c], m)
              /\ written[c] \in Seq(Messages)
          BY <2>1, <2>4, <5>1
        <5>3. m \in ToSet(written'[c])
          <6>1. PICK w : w = written'[c]
            OBVIOUS
          <6>2. Len(w) \in DOMAIN w /\ w[Len(w)] = m
            BY <5>2, <6>1
          <6> QED  BY <6>1, <6>2 DEF ToSet
        <5> QED  BY <1>8, <2>4, <5>3
      <4>2. CASE i # 1
        <5>1. queue'[c] = Tail(queue[c]) /\ queue[c] # << >>
          BY <2>1, <2>4
        <5>2. /\ i - 1 \in 1..Len(Tail(queue[c]))
              /\ Tail(queue[c])[i - 1] = queue[c][i]
          BY <1>0, <3>2, <4>2, <5>1
        <5> QED  BY <1>2, <3>2, <5>1, <5>2
      <4> QED  BY <4>1, <4>2
    <3> QED  BY <1>1, <3>1, <3>2
  <2> QED  BY <1>8, <2>2, <2>3, <2>4 DEF WriteLoop
<1>9. CASE HandleEvent
  <2>1. /\ targets = {} /\ topic' = topic /\ position' = position + 1
        /\ frame' = topic[position + 1] /\ targets' = room
        /\ UNCHANGED <<room, queue>>
    BY <1>9 DEF HandleEvent, CopyTargets, streams
  <2>2. CASE Ahead
    <3>1. PICK i \in position + 1..Len(topic) : topic[i] = m
      BY <2>2
    <3>2. CASE i = position + 1
      BY <1>2, <2>1, <3>1, <3>2
    <3>3. CASE i # position + 1
      <4>1. i \in position' + 1..Len(topic')
        BY <1>0, <2>1, <3>3
      <4> QED  BY <1>2, <2>1, <3>1, <4>1
    <3> QED  BY <3>2, <3>3
  <2>3. CASE InQueue(queue[c])
    BY <1>2, <2>1, <2>3
  <2> QED  BY <1>1, <2>1, <2>2, <2>3
<1>10. CASE UNCHANGED hubVars /\ TopicGrows
  <2>1. CASE Ahead
    <3>1. PICK i \in position + 1..Len(topic) : topic[i] = m
      BY <2>1
    <3>2. /\ position' \in Nat /\ position' <= position
          /\ Len(topic') \in Nat /\ Len(topic) <= Len(topic')
          /\ i \in 1..Len(topic) /\ topic'[i] = topic[i]
      BY <1>0, <1>10, <3>1 DEF TopicGrows
    <3>3. PICK j, p, q, k, n : /\ p = position' /\ q = position
                               /\ k = Len(topic)
                               /\ n = Len(topic') /\ j = i
      OBVIOUS
    <3>4. p \in Nat /\ q \in Nat /\ p <= q /\ n \in Nat /\ k <= n
      BY <1>0, <3>2, <3>3
    <3>5. j \in 1..k /\ k \in Nat /\ j \in q + 1..k
      BY <1>0, <3>1, <3>2, <3>3
    <3>6. j \in p + 1..n
      BY <3>4, <3>5
    <3>7. i \in position' + 1..Len(topic')
      BY <3>3, <3>6
    <3> QED  BY <1>2, <3>1, <3>2, <3>7
  <2> QED  BY <1>1, <1>2, <1>10, <2>1 DEF hubVars, streams, broadcast
<1> QED  BY <1>4, <1>5, <1>6, <1>7, <1>8, <1>9, <1>10, StreamSteps

(* A message of a new row, or one not yet published, stays out of the topic*)
(* or enters it ahead of the consumer.                                     *)
LEMMA NewOnesAreOnTheirWay ==
  ASSUME HubInvariant, SendingInvariant, ReadingTypeOK, [Next]_vars,
         NEW c \in Conns, NEW m \in Rows', m \notin Rows \/ m \in Unpublished
  PROVE  m \in Unpublished' \/ OnItsWay(c, m)'
<1>0. topic \in Seq(Messages) /\ position \in Nat /\ position <= Len(topic)
  BY DEF HubInvariant
<1>1. \A i \in 1..Len(topic) : topic[i] # m
  <2>1. ASSUME NEW i \in 1..Len(topic)
        PROVE  topic[i] \in Rows /\ topic[i] \in ToSet(topic)
    BY <1>0 DEF ReadingTypeOK, ToSet
  <2> QED  BY <2>1 DEF Unpublished, Published
<1>2. CASE UNCHANGED topic
  <2>1. m \notin ToSet(topic')
    BY <1>0, <1>1, <1>2 DEF ToSet
  <2> QED  BY <2>1 DEF Unpublished, Published
<1>3. ASSUME NEW r \in Requests, PublishMessage(r),
             topic' = Append(topic, id[r]),
             id[r] \in Messages
      PROVE  m \in Unpublished' \/ OnItsWay(c, m)'
  <2>1. /\ Len(topic') = Len(topic) + 1 /\ Len(topic) \in Nat
        /\ topic'[Len(topic')] = id[r]
        /\ \A i \in 1..Len(topic) : topic'[i] = topic[i]
    BY <1>0, <1>3
  <2>2. CASE m = id[r]
    <3>1. position' = position
      BY <1>3 DEF PublishMessage
    <3>2. Len(topic') \in position' + 1..Len(topic')
      BY <1>0, <2>1, <3>1
    <3> QED  BY <2>1, <2>2, <3>2 DEF OnItsWay
  <2>3. CASE m # id[r]
    <3>1. \A i \in 1..Len(topic') : topic'[i] # m
      BY <1>1, <2>1, <2>3
    <3>2. topic' \in Seq(Messages)
      BY <1>0, <1>3
    <3>3. m \notin ToSet(topic')
      BY <3>1, <3>2 DEF ToSet
    <3> QED  BY <3>3 DEF Unpublished, Published
  <2> QED  BY <2>2, <2>3
<1> QED  BY <1>2, <1>3, RowsStay DEF PublishMessage, Rows

(* A connection in the room was there before, unless it joins.             *)
LEMMA RoomKept ==
  ASSUME HubInvariant, SendingInvariant, [Next]_vars, NEW c \in Conns,
         c \in room' \ done', stage[c] \notin Outside
  PROVE  c \in room \ done
<1>1. ASSUME NEW k \in Conns, QueuesReply(k)
      PROVE  room' = room /\ done \subseteq done'
  <2>1. SendRaw(k, Reply) /\ room' = room
    BY <1>1 DEF QueuesReply
  <2> QED  BY <2>1, SendRawDoes, FrameTyped
<1>2. ASSUME NEW k \in Conns, Deliver(k)
      PROVE  room' = room /\ done \subseteq done'
  <2>1. SendRaw(k, frame) /\ frame \in Frames /\ room' = room
    BY <1>2, FrameTyped DEF Deliver
  <2> QED  BY <2>1, SendRawDoes
<1>3. ASSUME NEW k \in Conns, WriteLoop(k)
      PROVE  room' = room /\ done \subseteq done'
  BY <1>3 DEF WriteLoop
<1>4. ASSUME NEW k \in Conns, Join(k)
      PROVE  c \in room \ done
  BY <1>4 DEF Join, Goes, Outside, streams
<1>5. CASE LeavesStreams
  BY <1>5 DEF LeavesStreams
<1>6. CASE HandleEvent \/ UNCHANGED hubVars
  BY <1>6 DEF HandleEvent, CopyTargets, hubVars, streams
<1> QED  BY <1>1, <1>2, <1>3, <1>4, <1>5, <1>6, StreamSteps

-----------------------------------------------------------------------------
LEMMA ReadersStep ==
  ASSUME HubInvariant, SendingInvariant, ReadersInvariant, [Next]_vars
  PROVE  ReadersInvariant'
<1>0. ReadingTypeOK /\ ReadingTypeOK'
  BY ReadingTypeStep DEF ReadersInvariant
<1>1. SUFFICES ASSUME NEW c \in Conns, NEW m \in Messages,
                      c \in (room' \ done') \cap pulled', m \in Rows'
               PROVE  m \in Excused' \/ OnItsWay(c, m)'
  <2>1. (room' \ done') \cap pulled' \subseteq Conns
        /\ Rows' \subseteq Messages
    BY <1>0 DEF ReadingTypeOK, Rows
  <2> QED  BY <1>0, <2>1 DEF ReadersInvariant
<1>2. CASE Pull
  <2>1. /\ known' = known \cup Newest(Missing(cursor))
        /\ skipped' = skipped \cup (Missing(cursor) \ Newest(Missing(cursor)))
        /\ UNCHANGED <<passed, stored, cursor>>
    BY <1>2 DEF Pull, sending
  <2>2. m \in Rows /\ m \in Nat \ {0} /\ cursor \in Nat
    BY <1>0, <1>1, <2>1, ChatAssumption DEF Rows, ReadingTypeOK
  <2>3. CASE m > cursor
    <3>1. m \in Missing(cursor)
      BY <2>2, <2>3 DEF Missing
    <3> QED  BY <2>1, <3>1 DEF Excused
  <2>4. CASE m <= cursor
    <3>1. m \in 1..cursor
      BY <2>2, <2>4
    <3> QED  BY <1>0, <2>1, <3>1 DEF ReadingTypeOK, Excused
  <2> QED  BY <2>2, <2>3, <2>4
<1>3. CASE ~Pull
  <2>1. /\ known \subseteq known' /\ skipped \subseteq skipped'
        /\ passed \subseteq passed' /\ pulled' = pulled
    BY <1>3, ReadingSteps DEF Connect, Receive
  <2>2. c \in room \ done
    <3>1. stage[c] \notin Outside
      BY <1>0, <1>1, <2>1 DEF ReadingTypeOK
    <3> QED  BY <1>1, <3>1, RoomKept
  <2>3. CASE m \notin Rows \/ m \in Unpublished
    BY <1>0, <1>1, <2>3, NewOnesAreOnTheirWay DEF Excused
  <2>4. CASE m \in Rows /\ m \in known \cup skipped \cup passed
    BY <2>1, <2>4 DEF Excused
  <2>5. CASE OnItsWay(c, m)
    BY <1>1, <2>5, StaysOnItsWay DEF Excused
  <2> QED  BY <1>1, <2>1, <2>2, <2>3, <2>4, <2>5 DEF ReadersInvariant, Excused
<1> QED  BY <1>2, <1>3

LEMMA ReadersInit == Init => ReadersInvariant
BY DEF Init, HubInit, ReadersInvariant, ReadingTypeOK, Rows

(* ReadersMissOnlyTheKnownGaps: for any page limit and queue size, and     *)
(* however requests, connections, pulls and the consumer interleave, a     *)
(* joined reader to whom all that was stored in the topic has been written *)
(* can lack a message only for one of the three reasons the property names.*)
THEOREM ReadersCorrect == Spec => []ReadersMissOnlyTheKnownGaps
<1>1. HubInvariant /\ ReadersInvariant => ReadersMissOnlyTheKnownGaps
  <2> SUFFICES ASSUME HubInvariant, ReadersInvariant,
                      NEW c \in (room \ done) \cap pulled,
                      targets = {}, position = Len(topic), Queued(c) = {},
                      NEW m \in Rows
               PROVE  m \in Excused
    BY DEF ReadersMissOnlyTheKnownGaps, Excused
  <2>1. position + 1..Len(topic) = {}
    BY DEF HubInvariant
  <2>2. \A i \in 1..Len(queue[c]) : queue[c][i] # m
    BY DEF Queued, Rows
  <2> QED  BY <2>1, <2>2 DEF ReadersInvariant, OnItsWay
<1>2. Init => HubInvariant
  BY StreamsInit DEF StreamsInvariant
<1>3. SendingInvariant /\ HubInvariant /\ [Next]_vars => HubInvariant'
  BY HubInvariantStep
<1>4. SendingInvariant /\ HubInvariant /\ ReadersInvariant /\ [Next]_vars
        => ReadersInvariant'
  BY ReadersStep
<1> QED
  BY <1>1, <1>2, <1>3, <1>4, SendingInit, SendingStep, ReadersInit,
       PTL DEF Spec
=============================================================================

-------------------------------- MODULE Chat --------------------------------
(***************************************************************************)
(* The messages of one chat group: the requests that store and publish     *)
(* them, the delivery consumer of one instance with its live connections   *)
(* (module Hub), and a reader who receives frames, pulls what was missed   *)
(* by HTTP and marks messages as read. The ids of messages are those MySQL *)
(* counts up when an insert begins; the row is there when it commits.      *)
(***************************************************************************)
EXTENDS Hub, FiniteSetsExt

CONSTANTS
    Requests,      \* send_message frames ever sent, all by one sender
    ClientIds,     \* client_message_id values in them
    PageLimit,     \* LIMIT of a pull
    MaxWork,       \* bound: connections opened, messages inserted, records
                   \*        handled again and hints in all
    NoId

ASSUME ChatAssumption ==
    /\ IsFiniteSet(Requests)
    /\ Messages = 1..Cardinality(Requests)
    /\ NoId \notin ClientIds
    /\ {PageLimit, MaxWork} \subseteq Nat

VARIABLES
    at,        \* where SendMessage is for each request
    key,       \* the client message id of each request
    id,        \* the row a request inserts, and answers in the end
    nextId,    \* AUTO_INCREMENT of chat_messages
    stored,    \* client message id of each committed row, NoId when none
    topic,     \* chat events stored in the group's partition, in order
    position,  \* how many of them the delivery consumer has handled
    repeats,   \* records handled again after a failed commit
    hints,     \* records about the reader that the other consumer handled
    member,    \* the reader is an active member of the group
    lastRead,  \* last_read_message_id of the reader's membership, 0 for NULL
    marking,   \* messages whose mark_read is under way
    known,     \* messages the reader has received or pulled
    cursor,    \* the newest of them when the reader last connected
    pulled,    \* history: connections since whose joining the reader, being a
               \*          member, has pulled
    skipped,   \* history: messages a pull left out for its page limit
    passed     \* history: ids below the cursor the reader did not have when it
               \*          connected

sending == <<at, key, id, nextId, stored>>
delivering == <<topic, position, repeats, hints>>
reading == <<member, lastRead, marking, known, cursor, pulled,
             skipped, passed>>
vars == <<hubVars, sending, delivering, reading>>

Rows == {m \in Messages : stored[m] # NoId}

TypeOK ==
    /\ HubTypeOK
    /\ at \in [Requests -> {"new", "insert", "commit", "publish", "failed",
                            "acked"}]
    /\ key \in [Requests -> ClientIds \cup {NoId}]
    /\ id \in [Requests -> Messages \cup {0}]
    /\ nextId \in 1..Cardinality(Requests) + 1
    /\ \A m \in Messages : stored[m] \in ClientIds \cup {NoId}
    /\ topic \in Seq(Rows) /\ position <= Len(topic)
    /\ lastRead \in Rows \cup {0} /\ cursor \in known \cup {0}
    /\ marking \cup known \cup skipped \subseteq Rows
    /\ pulled \subseteq Conns /\ passed \subseteq Messages

Init ==
    /\ HubInit
    /\ at = [r \in Requests |-> "new"]
    /\ key = [r \in Requests |-> NoId] /\ id = [r \in Requests |-> 0]
    /\ nextId = 1 /\ stored = [m \in Messages |-> NoId]
    /\ topic = << >> /\ position = 0 /\ repeats = 0 /\ hints = 0
    /\ member \in BOOLEAN
    /\ lastRead = 0 /\ marking = {}
    /\ known = {} /\ cursor = 0 /\ pulled = {} /\ skipped = {} /\ passed = {}

-----------------------------------------------------------------------------
(* SendMessage.                                                            *)

FindMessageByClientID(k) == {m \in Messages : stored[m] = k}

MessageCheck(r, k) ==
    /\ at[r] = "new"
    /\ key' = [key EXCEPT ![r] = k]
    /\ IF FindMessageByClientID(k) = {}
         THEN at' = [at EXCEPT ![r] = "insert"] /\ UNCHANGED id
         ELSE /\ at' = [at EXCEPT ![r] = "acked"]
              /\ \E m \in FindMessageByClientID(k) : id' = [id EXCEPT ![r] = m]
    /\ UNCHANGED <<hubVars, nextId, stored, delivering, reading>>

Work == Cardinality({c \in Conns : stage[c] # "new"}) + nextId - 1
        + repeats + hints

TakeId(r) ==
    /\ at[r] = "insert" /\ Work < MaxWork
    /\ at' = [at EXCEPT ![r] = "commit"]
    /\ id' = [id EXCEPT ![r] = nextId] /\ nextId' = nextId + 1
    /\ UNCHANGED <<hubVars, key, stored, delivering, reading>>

DuplicateBug(k) == {}  \* no unique key

(* The unique key on sender and client message id.                         *)
Duplicate(k) == FindMessageByClientID(k)

(* A duplicate is answered with the row that won. What comes after the     *)
(* commit may fail: then the client has no answer and nothing is published.*)
CreateMessage(r) ==
    /\ at[r] = "commit"
    /\ IF Duplicate(key[r]) = {}
         THEN /\ stored' = [stored EXCEPT ![id[r]] = key[r]]
              /\ at' \in {[at EXCEPT ![r] = "publish"],
                          [at EXCEPT ![r] = "failed"]}
              /\ UNCHANGED id
         ELSE /\ \E m \in FindMessageByClientID(key[r]) :
                    id' = [id EXCEPT ![r] = m]
              /\ at' = [at EXCEPT ![r] = "acked"]
              /\ UNCHANGED stored
    /\ UNCHANGED <<hubVars, key, nextId, delivering, reading>>

(* A failure to publish is only logged, and the message acknowledged.      *)
PublishMessage(r) ==
    /\ at[r] = "publish"
    /\ topic' \in {topic, Append(topic, id[r])}
    /\ at' = [at EXCEPT ![r] = "acked"]
    /\ UNCHANGED <<hubVars, key, id, nextId, stored, position, repeats,
                   hints, reading>>

RequestFails(r) ==
    /\ at[r] \in {"insert", "commit", "publish"}
    /\ at' = [at EXCEPT ![r] = "failed"]
    /\ UNCHANGED <<hubVars, key, id, nextId, stored, delivering, reading>>

SendMessage(r) ==
    \/ \E k \in ClientIds : MessageCheck(r, k)
    \/ TakeId(r) \/ CreateMessage(r) \/ PublishMessage(r)

-----------------------------------------------------------------------------
(* ChatDeliveryConsumer.HandleEvent: one goroutine, one record at a time.  *)

HandleEvent ==
    /\ position < Len(topic)
    /\ CopyTargets(topic[position + 1])
    /\ position' = position + 1
    /\ UNCHANGED <<sending, topic, repeats, hints, reading>>

(* The commit of a record failed: the consumer starts again before it.     *)
HandleAgain ==
    /\ targets = {} /\ position > 0 /\ Work < MaxWork
    /\ position' = position - 1 /\ repeats' = repeats + 1
    /\ UNCHANGED <<hubVars, sending, topic, hints, reading>>

(* RealtimeDeliveryConsumer.HandleEvent: another goroutine sends a frame   *)
(* about a notification, registration or verification of the reader.       *)
DeliverHint ==
    /\ Work < MaxWork
    /\ CopyUserTargets
    /\ hints' = hints + 1
    /\ UNCHANGED <<sending, topic, position, repeats, reading>>

-----------------------------------------------------------------------------
(* The reader.                                                             *)

Receive(c) ==
    /\ WriteLoop(c)
    /\ known' = known \cup ToSet(written'[c])
    /\ UNCHANGED <<sending, delivering, member, lastRead, marking, cursor,
                   pulled, skipped, passed>>

MaxOf(S) == IF S = {} THEN 0 ELSE Max(S)

(* ORDER BY id DESC LIMIT.                                                 *)
Newest(S) == {m \in S : Cardinality({n \in S : n > m}) < PageLimit}

MissingBug(after) == {m \in Rows : m > after + 1}  \* one message is passed over

Missing(after) == {m \in Rows : m > after}

(* Messages, Offline: after_id is the newest message the reader held before*)
(* frames of the connection mixed with it.                                 *)
Pull ==
    LET missing == Missing(cursor)
    IN /\ member
       /\ known' = known \cup Newest(missing)
       /\ skipped' = skipped \cup (missing \ Newest(missing))
       /\ pulled' = pulled \cup (room \ done)
       /\ UNCHANGED <<hubVars, sending, delivering, member, lastRead,
                      marking, cursor, passed>>

(* MarkRead looks the member and the message up, then moves the pointer.   *)
MarkRead(m) ==
    /\ member /\ m \in known
    /\ marking' = marking \cup {m}
    /\ UNCHANGED <<hubVars, sending, delivering, member, lastRead, known,
                   cursor, pulled, skipped, passed>>

UpdateLastRead(m) ==
    /\ m \in marking
    /\ lastRead' = Max({lastRead, m}) /\ marking' = marking \ {m}
    /\ UNCHANGED <<hubVars, sending, delivering, member, known, cursor,
                   pulled, skipped, passed>>

(* The membership worker.                                                  *)
MembershipChanges ==
    /\ member' = ~member
    /\ UNCHANGED <<hubVars, sending, delivering, lastRead, marking, known,
                   cursor, pulled, skipped, passed>>

Connect(c) ==
    /\ Work < MaxWork
    /\ Authenticate(c)
    /\ cursor' = MaxOf(known)
    /\ passed' = passed \cup (1..cursor' \ known)
    /\ UNCHANGED <<sending, delivering, member, lastRead, marking, known,
                   pulled, skipped>>

Same == UNCHANGED <<sending, delivering, reading>>

Next ==
    \/ \E r \in Requests : SendMessage(r) \/ RequestFails(r)
    \/ \E c \in Conns :
          \/ Connect(c)
          \/ HandleStep(c) /\ Same
          \/ SubscribeRooms(c, member) /\ Same
          \/ Deliver(c) /\ Same
          \/ DeliverToUser(c) /\ Same
          \/ PeerGone(c) /\ Same
          \/ Receive(c)
    \/ Shutdown /\ Same
    \/ HandleEvent \/ HandleAgain \/ DeliverHint
    \/ Pull
    \/ \E m \in Messages : MarkRead(m) \/ UpdateLastRead(m)
    \/ MembershipChanges

Spec == Init /\ [][Next]_vars

-----------------------------------------------------------------------------
(* A retry of a message is answered with the row the first attempt stored, *)
(* at whatever point the two meet: there is one row for a client message   *)
(* id and every acknowledgement of it names that row (chat.go SendMessage).*)
RetriesMeetTheirRow ==
    /\ \A m, n \in Rows : stored[m] = stored[n] => m = n
    /\ \A r \in Requests :
          at[r] = "acked" => id[r] \in Rows /\ stored[id[r]] = key[r]

Published(m) == m \in ToSet(topic)

(* Messages whose publication is still under way or has failed.            *)
Unpublished == {m \in Rows : ~Published(m)}

(* A member whose open connection has joined the room, who has pulled      *)
(* since and to whom everything stored in the topic has been written, can  *)
(* lack a message only if it was never published, was left out of a page   *)
(* that was full, or has an id below that of a message the reader already  *)
(* had when it connected: it was committed later, or reached the reader's  *)
(* earlier connection in no other way either (chat.go Offline,             *)
(* SubscribeRooms, publishMessage).                                        *)
ReadersMissOnlyTheKnownGaps ==
    \A c \in (room \ done) \cap pulled :
        targets = {} /\ position = Len(topic) /\ Queued(c) = {}
          => Rows \ known \subseteq Unpublished \cup skipped \cup passed
=============================================================================

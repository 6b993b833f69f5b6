-------------------------------- MODULE Hub --------------------------------
(***************************************************************************)
(* The live WebSocket connections of one server instance, for one chat     *)
(* group: the goroutine that serves a connection, its bounded queue and    *)
(* writer, the rooms of the hub, and the broadcaster that copies a room    *)
(* under the lock and then queues the frame to one connection after the    *)
(* other. A full queue closes its connection.                              *)
(***************************************************************************)
EXTENDS Integers, Sequences, FiniteSets, SequencesExt

CONSTANTS
    Conns,     \* connections ever opened, all of one user
    QueueSize, \* writeQueueSize (64)
    Messages,  \* what frames carry
    Reply      \* any other frame: auth_success, pong, ack, error, a hint

ASSUME HubAssumption ==
    /\ IsFiniteSet(Conns)
    /\ QueueSize \in Nat \ {0}
    /\ Reply \notin Messages

VARIABLES
    stage,   \* where Handle is for each connection
    done,    \* connections that have been closed
    conns,   \* Hub.conns, and Hub.byUser of the user
    room,    \* Hub.byGroup of the group
    queue,   \* the frames each connection has queued
    written, \* history: messages written to each connection, in order
    frame,   \* the message being broadcast
    targets, \* connections it has not been offered to yet
    hinted,  \* connections the user's frame at hand has not been offered to
    sent,    \* history: messages broadcast to the group, in order
    since    \* history: how many of them were before a connection joined

streams == <<queue, written, done>>
broadcast == <<frame, targets, hinted, sent>>
hubVars == <<stage, conns, room, since, streams, broadcast>>

Stages == {"new", "register", "rooms", "join", "welcome", "serving",
           "unregister", "gone"}

HubTypeOK ==
    /\ stage \in [Conns -> Stages]
    /\ done \subseteq Conns /\ targets \cup hinted \subseteq Conns
    /\ room \subseteq conns /\ conns \subseteq Conns
    /\ \A c \in Conns : /\ queue[c] \in Seq(Messages \cup {Reply})
                        /\ Len(queue[c]) <= QueueSize
                        /\ since[c] <= Len(sent)

HubInit ==
    /\ stage = [c \in Conns |-> "new"]
    /\ done = {} /\ conns = {} /\ room = {}
    /\ queue = [c \in Conns |-> << >>]
    /\ written = [c \in Conns |-> << >>]
    /\ frame = Reply /\ targets = {} /\ hinted = {} /\ sent = << >>
    /\ since = [c \in Conns |-> 0]

Goes(c, from, to) == stage[c] = from /\ stage' = [stage EXCEPT ![c] = to]

-----------------------------------------------------------------------------
(* The queue of a connection.                                              *)

SendRawBug(c, f) ==  \* a frame that does not fit is forgotten
    IF Len(queue[c]) < QueueSize
      THEN queue' = [queue EXCEPT ![c] = Append(@, f)] /\ UNCHANGED done
      ELSE UNCHANGED <<queue, done>>

(* SendRaw, whose callers close the connection when it answers false.      *)
SendRaw(c, f) ==
    IF c \notin done /\ Len(queue[c]) < QueueSize
      THEN queue' = [queue EXCEPT ![c] = Append(@, f)] /\ UNCHANGED done
      ELSE done' = done \cup {c} /\ UNCHANGED queue

(* The writer writes one frame, or fails or times out and closes.          *)
WriteLoop(c) ==
    /\ c \notin done /\ queue[c] # << >>
    /\ \/ /\ queue' = [queue EXCEPT ![c] = Tail(@)]
          /\ written' = IF Head(queue[c]) = Reply THEN written
                        ELSE [written EXCEPT ![c] = Append(@, Head(queue[c]))]
          /\ UNCHANGED done
       \/ done' = done \cup {c} /\ UNCHANGED <<queue, written>>
    /\ UNCHANGED <<stage, conns, room, since, broadcast>>

(* The peer goes away, or says nothing for two heartbeats.                 *)
PeerGone(c) ==
    /\ c \notin done /\ stage[c] # "gone"
    /\ done' = done \cup {c}
    /\ UNCHANGED <<stage, conns, room, since, queue, written, broadcast>>

(* The server stops: every registered connection is closed.                *)
Shutdown ==
    /\ conns \ done # {}
    /\ done' = done \cup conns
    /\ UNCHANGED <<stage, conns, room, since, queue, written, broadcast>>

-----------------------------------------------------------------------------
(* WebSocketHandler.Handle.                                                *)

Authenticate(c) ==
    /\ \/ Goes(c, "new", "register") /\ UNCHANGED done
       \/ Goes(c, "new", "gone") /\ done' = done \cup {c}
    /\ UNCHANGED <<conns, room, since, queue, written, broadcast>>

Register(c) ==
    /\ Goes(c, "register", "rooms")
    /\ conns' = conns \cup {c}
    /\ UNCHANGED <<room, since, streams, broadcast>>

(* MyGroups: a member's rooms are joined; an error means none.             *)
SubscribeRooms(c, member) ==
    /\ \/ member /\ Goes(c, "rooms", "join")
       \/ Goes(c, "rooms", "welcome")
    /\ UNCHANGED <<conns, room, since, streams, broadcast>>

Join(c) ==
    /\ Goes(c, "join", "welcome")
    /\ room' = room \cup {c}
    /\ since' = [since EXCEPT ![c] = Len(sent)]
    /\ UNCHANGED <<conns, streams, broadcast>>

SendAuthSuccess(c) ==
    /\ Goes(c, "welcome", "serving")
    /\ SendRaw(c, Reply)
    /\ UNCHANGED <<conns, room, since, written, broadcast>>

(* A ping, a message, a read mark: pong, ack or error is queued.           *)
HandleFrame(c) ==
    /\ stage[c] = "serving"
    /\ SendRaw(c, Reply)
    /\ UNCHANGED <<stage, conns, room, since, written, broadcast>>

(* The read loop ends with the connection.                                 *)
ReadPayloads(c) ==
    /\ c \in done
    /\ Goes(c, "serving", "unregister")
    /\ UNCHANGED <<conns, room, since, streams, broadcast>>

(* The handler returns; nothing reads the queue any more.                  *)
Unregister(c) ==
    /\ Goes(c, "unregister", "gone")
    /\ conns' = conns \ {c} /\ room' = room \ {c}
    /\ queue' = [queue EXCEPT ![c] = << >>]
    /\ UNCHANGED <<since, written, done, broadcast>>

-----------------------------------------------------------------------------
(* DeliverToGroup: the room is copied under the lock, the frame queued     *)
(* after it.                                                               *)

CopyTargets(m) ==
    /\ targets = {}
    /\ frame' = m /\ targets' = room
    /\ sent' = Append(sent, m)
    /\ UNCHANGED <<stage, conns, room, since, streams, hinted>>

Deliver(c) ==
    /\ c \in targets
    /\ SendRaw(c, frame)
    /\ targets' = targets \ {c}
    /\ UNCHANGED <<stage, conns, room, since, written, frame, hinted, sent>>

(* DeliverToUser, by the consumer of the user's business events.           *)
CopyUserTargets ==
    /\ hinted = {} /\ conns # {}
    /\ hinted' = conns
    /\ UNCHANGED <<stage, conns, room, since, streams, frame, targets, sent>>

DeliverToUser(c) ==
    /\ c \in hinted
    /\ SendRaw(c, Reply)
    /\ hinted' = hinted \ {c}
    /\ UNCHANGED <<stage, conns, room, since, written, frame, targets, sent>>

HandleStep(c) ==
    \/ Register(c) \/ Join(c) \/ SendAuthSuccess(c) \/ HandleFrame(c)
    \/ ReadPayloads(c) \/ Unregister(c)

-----------------------------------------------------------------------------
(* Where messages are in the queue of a connection.                        *)
Queued(c) == {i \in 1..Len(queue[c]) : queue[c][i] \in Messages}

(* Broadcasts a connection has been offered since it joined.               *)
Offered(c) == SubSeq(sent, since[c] + 1,
                     Len(sent) - IF c \in targets THEN 1 ELSE 0)

(* A connection in the room that has not been closed has written or queued *)
(* exactly what was broadcast since it joined, in that order: the frame at *)
(* hand is the only one it may still lack, and a peer that is too slow is  *)
(* closed instead of being left with a hole (hub.go deliver).              *)
OpenStreamsAreWhole ==
    \A c \in room \ done :
        LET count == Len(written[c])
            rank(i) == Cardinality({j \in Queued(c) : j <= i})
        IN /\ Len(Offered(c)) = count + Cardinality(Queued(c))
           /\ \A i \in 1..count : Offered(c)[i] = written[c][i]
           /\ \A i \in Queued(c) : Offered(c)[count + rank(i)] = queue[c][i]
=============================================================================

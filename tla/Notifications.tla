---------------------------- MODULE Notifications ---------------------------
(***************************************************************************)
(* The notification worker: a consumer group that turns registration events*)
(* into rows of notifications, each with an outbox row that hints the live *)
(* connections of its recipient. The relay may store an event twice, and   *)
(* the group may hand out a record again after a failure or a rebalance,   *)
(* also to two members at once; the uuid of a notification is derived from *)
(* the event and the recipient, and the insert ignores one that exists.    *)
(***************************************************************************)
EXTENDS ConsumerGroup, People, Sequences

CONSTANTS
    Events,     \* events of the outbox
    KindOf,     \* event type of each event
    UserOf,     \* the registrant of each event
    PartitionOf \* partition of each event's key

Kinds == {"created", "approved", "rejected", "expired", "cancelled"}

ASSUME NotificationsAssumption ==
    /\ KindOf \in [Events -> Kinds]
    /\ UserOf \in [Events -> Users]
    /\ PartitionOf \in [Events -> Partitions]

VARIABLES
    content,       \* the events stored in each partition, in offset order
    notifications, \* rows of notifications
    hints          \* number of realtime.notification_created rows per event

nvars == <<vars, content, notifications, hints>>

-----------------------------------------------------------------------------
(* Who is told about an event; other types are skipped.                    *)
Recipients(e) ==
    {u \in Users :
        \/ KindOf[e] = "created" /\ u = Organizer
        \/ KindOf[e] \in {"approved", "rejected", "expired"} /\ u = UserOf[e]}

RecordAt(p, n) == content[p][n + 1]

NotificationKeyBug(e, u, m) == <<e, u, m>>  \* not derived from the event alone

(* notificationKey: event and recipient, whoever handles the record.       *)
NotificationKey(e, u, m) == <<e, u>>

Notification(e, u, m) ==
    [uuid |-> NotificationKey(e, u, m), event |-> e, to |-> u, read |-> FALSE]

NotificationRows ==
    [uuid : Events \X Users, event : Events, to : Users, read : BOOLEAN]

NotificationsTypeOK ==
    /\ TypeOK
    /\ content \in [Partitions -> Seq(Events)]
    /\ \A p \in Partitions : Len(content[p]) = log[p]
    /\ notifications \subseteq NotificationRows
    /\ hints \in [Events -> Nat]

NotificationsInit ==
    /\ Init
    /\ content = [p \in Partitions |-> << >>]
    /\ notifications = {}
    /\ hints = [e \in Events |-> 0]

-----------------------------------------------------------------------------
Stored(n) == \E old \in notifications : old.uuid = n.uuid

(* One transaction: insert unless the uuid exists, and only then the hint. *)
Create(n) ==
    IF Stored(n)
      THEN UNCHANGED <<notifications, hints>>
      ELSE /\ notifications' = notifications \cup {n}
           /\ hints' = [hints EXCEPT ![n.event] = @ + 1]

(* HandleEvent for the record that member m is about to handle.            *)
HandleEvent(m, p) ==
    LET e == RecordAt(p, next[m][p])
    IN /\ IF Recipients(e) = {}
            THEN UNCHANGED <<notifications, hints>>
            ELSE \E u \in Recipients(e) : Create(Notification(e, u, m))
       /\ UNCHANGED content

(* The relay stores an event, perhaps one it has stored before.            *)
ProduceEvent(e) ==
    /\ Produce(PartitionOf[e])
    /\ content' = [content EXCEPT ![PartitionOf[e]] = Append(@, e)]
    /\ UNCHANGED <<notifications, hints>>

Notify(m, p) == Handle(m, p) /\ HandleEvent(m, p)

(* The transaction committed but its answer was lost, or the instance      *)
(* crashed right after it: the record counts as failed and comes again.    *)
NotifyUnanswered(m, p) ==
    /\ handling[m] = NoPartition /\ next[m][p] < end[m][p]
    /\ HandleEvent(m, p)
    /\ Stop(m)

Seen(n) == [uuid |-> n.uuid, event |-> n.event, to |-> n.to, read |-> TRUE]

(* MarkRead names some rows of one user, MarkAllRead has them all.         *)
MarkRead(u) ==
    /\ \E ids \in SUBSET {n \in notifications : n.to = u /\ ~n.read} :
          /\ ids # {}
          /\ notifications' = (notifications \ ids) \cup {Seen(n) : n \in ids}
    /\ UNCHANGED <<vars, content, hints>>

Quiet == UNCHANGED <<content, notifications, hints>>

NotifierStep(m) ==
    \/ Start(m) /\ Quiet
    \/ Poll(m) /\ Quiet
    \/ \E p \in Partitions : Notify(m, p)
    \/ Commit(m) /\ Quiet

NotificationsNext ==
    \/ \E e \in Events : ProduceEvent(e)
    \/ \E u \in Users : MarkRead(u)
    \/ \E m \in Members :
          \/ NotifierStep(m)
          \/ Stop(m) /\ Quiet
          \/ \E p \in Partitions :
                \/ NotifyUnanswered(m, p)
                \/ Assign(m, p) /\ Quiet
                \/ Revoke(m, p) /\ Quiet

NotificationsSpec == NotificationsInit /\ [][NotificationsNext]_nvars

FairNotificationsSpec ==
    /\ NotificationsSpec
    /\ \A m \in Members : WF_nvars(NotifierStep(m))
    /\ \A p \in Partitions :
          WF_nvars(/\ \A m \in Members : p \notin mine[m]
                   /\ \E m \in Members : Assign(m, p) /\ Quiet)

-----------------------------------------------------------------------------
NotificationsOf(e) == {n \in notifications : n.event = e}

(* A recipient is told once about an event, and its connections are hinted *)
(* once, however often relay and group repeat the event and whoever        *)
(* handles it: as many hints as rows, and no two rows for one recipient.   *)
NotifiedOnce ==
    /\ \A n1, n2 \in notifications :
          n1.event = n2.event /\ n1.to = n2.to => n1 = n2
    /\ \A e \in Events : (hints[e] > 0) <=> (NotificationsOf(e) # {})
    /\ \A e \in Events : hints[e] \in {0, 1}

(* What the group has committed will not be handed out again after a       *)
(* restart, so whoever had to hear of it has been told.                    *)
CommittedIsNotified ==
    \A p \in Partitions : \A n \in Below(committed[p]) :
        \A u \in Recipients(RecordAt(p, n)) :
            \E row \in notifications : row.event = RecordAt(p, n) /\ row.to = u

(* A notification never disappears, and one the user has read never shows  *)
(* up unread again because its event is handled once more.                 *)
ReadStaysRead ==
    [][\A n \in notifications : \E row \in notifications' :
          row.uuid = n.uuid /\ (n.read => row.read)]_nvars

(* Liveness: an event that Kafka has stored reaches its recipient.         *)
EventsAreNotified ==
    \A e \in Events :
        (Recipients(e) # {} /\ \E n \in Below(log[PartitionOf[e]]) :
                                  RecordAt(PartitionOf[e], n) = e)
        ~> (NotificationsOf(e) # {})
=============================================================================

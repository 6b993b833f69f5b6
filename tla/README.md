# CampusHub in TLA+

A verification project for the CampusHub backend (`src/backend`): TLA+ modules
of its core logic, TLC runs over small instances and TLAPS proofs for every
instance.

CampusHub is a Go server for campus activities. Organizers create activities,
administrators review them, students register, receive tickets and are checked
in. State is in MySQL; every business transaction also stores events in an
outbox table that a relay carries to Kafka, from where consumers maintain chat
groups, notifications, the search index and WebSocket deliveries. Sessions,
codes and presence are in Redis. Any number of server instances run the same
HTTP handlers, timers and consumers at the same time.

## Inventory

| Component | State | Operations | Talks to |
|---|---|---|---|
| Registration, review, expiry (`service/registration*.go`, `repository/registration.go`) | `activity_registrations`, the two counters of `activities` | Register, Cancel, Approve, Reject, ExpirePending | tickets, outbox, activities |
| Tickets, check-in (`service/checkin.go`, `repository/{ticket,checkin}.go`) | `tickets`, `check_ins` | CheckIn, ExpireTickets | registrations, outbox |
| Activity lifecycle (`service/activity.go`, `repository/activity.go`) | `activities`, status log, tags, cover reference | Create, Update, Submit, Review, Cancel, SyncStatuses | chat groups, outbox, files |
| Outbox relay (`service/outbox_relay.go`, `repository/outbox.go`) | `outbox_events` | PublishBatch on a timer | Kafka |
| Kafka consumer loop (`platform/kafka/consumer.go`, `cmd/server/main.go`) | group offsets | poll, handle, commit, restart | every consumer |
| Chat membership consumer | `chat_groups`, `chat_group_members` | join, leave | registration events |
| Notification consumer and service | `notifications` | create once per event and user, mark read | all topics |
| Chat service | `chat_messages`, read pointers | SendMessage, MarkRead, history | Kafka, hub |
| WebSocket hub, connections, handler | maps of connections and rooms, a queue of 64 frames per connection | Register, Unregister, Join, Deliver, Shutdown | chat, presence, delivery consumers |
| Presence | Redis sets and flags | Connected, Disconnected | hub |
| Accounts, sessions, codes | `users`, refresh tokens and counters in Redis | Register, Login, Refresh, Logout, codes | mail |
| Student verification | `student_verifications`, its events | Submit, Confirm, Cancel | files, outbox |
| Files | `files`, `file_references`, object storage | UploadImage, Delete, references | activities, users, verification |
| Search index, reindex | Elasticsearch documents, alias | HandleEvent, Rebuild, SwitchAlias | activity events |
| HTTP handlers, router, middleware, configuration, health, migrations | none of their own | | |

What is hard about it:

* **Read, then write.** A handler reads rows outside any transaction and later
  commits one transaction. Correctness rests on the `WHERE` clauses of its
  updates and on unique keys, never on what was read. (`Registration`,
  `Activity`, `Verification`, `Files`.)
* **Many instances.** Timers start on every instance and may overlap with
  themselves: expiry, ticket expiry, status sync, the relay.
* **Several calls that belong together.** The relay publishes before it
  commits, the consumers handle before they commit, file references are moved
  outside the transactions, a session is three Redis commands and a counter
  two, reindexing is a scan, a switch and another scan. Any of these may stop in
  between. (`OutboxRelay`, `ConsumerGroup`, `Files`, `Sessions`, `SearchIndex`.)
* **At-least-once delivery and order.** Retries, rebalances and rewinds make
  records repeat; retried events overtake others.
* **Queues with a limit.** Batches of 200 rows, 64 frames per connection, pages
  of messages, a maximal number of attempts.

What makes each component correct: places are neither overbooked nor lost and a
ticket admits once (registrations and check-in); a version names one content of
the row, what is under review is not edited, the group and the history follow
the status (activities); an event is published by one relay at a time and is
not marked as sent unless it was stored (outbox); a committed offset covers
handled records only and all records are handled (consumers); the members of
a group are the approved participants (membership); one message per client id,
and an open connection without holes (chat, hub); a session that can be renewed
can be revoked, and what was revoked stays so (accounts); the history of an
application has one beginning and no invented steps (verification); references
tell which files are in use, and those are there (files); the index follows the
rows (search).

## Modules

| Module | Models | Proofs |
|---|---|---|
| `Admission` | abstract specification: what registrations and tickets promise | refined by `Registration` |
| `Registration` (`MCRegistration`) | registrations, tickets, check-ins of one activity | `RegistrationProofs` |
| `Activity` | the life of one activity | `ActivityProofs` |
| `OutboxRelay` (`MCOutboxRelay`) | outbox rows to Kafka partitions | `OutboxRelayProofs` |
| `ConsumerGroup` | the poll, handle, commit loop of a consumer group | `WorkersProofs` |
| `Notifications` (`MCNotifications`) | `ConsumerGroup` with the notification handler and the users who read their notifications | `WorkersProofs` |
| `Membership` (`MCMembership`) | `ConsumerGroup` with the chat membership handler and the registrations whose events it gets | `WorkersProofs` |
| `People` | the users and the organizer both workers act upon (constants only) | |
| `Hub` | WebSocket connections of an instance: the handler, bounded queues, rooms, broadcasts | `ChatProofs` |
| `Chat` (`MCChat`) | `Hub` with the requests that send messages, the delivery consumer, and a reader who receives, pulls and marks | `ChatProofs` |
| `EmailCodes` | mailed codes and the counters with a lifetime, in Redis | `SessionsProofs` |
| `Sessions` (`MCSessions`) | `EmailCodes` with the refresh tokens of one account and the requests that issue and revoke them | `SessionsProofs` |
| `Files` | uploaded files, their references, and the avatar and the cover that use them | `VerificationProofs` |
| `Verification` (`MCVerification`) | `Files` with the student verification of one user, which uses two more | `VerificationProofs` |
| `SearchIndex` (`MCSearchIndex`) | rows and their events, the servers that index them, the reindex command | `SearchIndexProofs` |

In all of them the stored rows are variables; what a request or a job run has
read so far is a record in a function `handler` or `scheduler` (`relay`,
`next`/`end`/`handling`). Each read outside a transaction is an action, each
transaction is an action, and `GiveUp`, `Crash`, `SyncFail` and `Stop` are the failed
query, the lost client, the timeout and the dead process. A transaction is one
step because its guards are evaluated by the statements that write (the
rows those lock), and because a guard that fails rolls everything back.
Definitions whose name ends in `Bug` are faulty variants of the definition
that follows them; the mutants of `PROJECT.json` put them in its place to
show that the properties notice.

### Registration and Admission

A row is `<<user, n>>`, the user's nth registration; its ticket has the same
name because `tickets.registration_id` is unique. `RegisterRead`, `RegisterCheck`,
`RegisterCommit` are the three parts of `RegistrationService.Register`: reading
the activity, `FindActive`, the transaction (capacity in the `UPDATE`, unique
key over `active_flag`, ticket and events when no approval is needed).
`CancelRead`/`CancelReadTicket`/`CancelCommit`, `ReviewRead` with
`ApproveCommit`/`RejectCommit`, `CheckInReplay`/`CheckInRead`/`CheckInCommit`/`CheckInRetry` and
`CancelActivityRead`/`CancelActivityCommit` are the other requests. The scheduler's run
goes through `SyncStatuses`, `ListPending`, `ExpirePending`, `ListTickets`, `ExpireTicket`
and `EndRun`, and may stop in between. `now` is the clock of all servers; the
windows of the activity are constants.

Admission sees a claim to a place (unclaimed, reserved, confirmed, released) and
a pass (none, valid, redeemed, void). It promises that places are bounded,
claimants hold one at a time, and passes are for confirmed places and are redeemed
at most once. The refinement mapping is `PlaceOf` and `PassOf`.

### Activity

One activity: its row (status, version, form), the chat group, the cover's file
reference, the status log and the events. A form is a text and a cover, which is
what the properties tell apart. `UpdateRead`, `UpdateDetach`, `UpdateAttach`, `UpdateCommit` are the
four steps of Update (its reference changes are not in the transaction); all
status changes of requests are `TransitionRead` and `TransitionCommit`; `SyncRead`
and `SyncCommit` the timer.

### OutboxRelay

Rows are numbered as they were inserted. `Claim` is the `SKIP LOCKED` select,
`Store` the broker's storing of one event (the partitions are sets: no property speaks of their order), `Finish` the client's getting a result for one
event, `Record` the updates and the commit, `Crash` the end of a run before its
commit (the locks go, the broker keeps what it stored). `ProduceSync` of franz-go is external:
that it appends results in the order of completion is an assumption about that library, and so is
that a broker stores nothing for an event after its client was told of a failure;
a failed result may belong to a stored event (a lost acknowledgement).

### ConsumerGroup

`Start`, `Poll`, `Handle`, `Commit`, `Stop` are the loop in `Consumer.Run` and
`runConsumer`. The coordinator (`Assign`, `Revoke`) is external: it may give a
partition to a second member while the first is still working on records it
polled, and the commit of the first is accepted. Handlers are abstract here: a
handler returned without an error or it did not. The two modules below extend this
one and say what the handler does and what the records are; no run checks
`ConsumerGroup` alone.

### Notifications

`Notify` is `Handle` together with `HandleEvent`: one transaction that inserts a row
unless its uuid exists, and with the row an outbox event that hints the
connections of the recipient. `NotifyUnanswered` is a transaction that
committed while its handler failed. `ProduceEvent` lets the relay store any event
any number of times. `MarkRead` covers `MarkRead` and `MarkAllRead`.
The texts of the notifications are left out.

### Membership

`Register`, `Decide`, `CancelRegistration` are what the rest of the system does to
the registrations of one activity, as far as their events tell; module `Registration`
has the same moves in detail. `HandleMembership` and `HandleFails` are the
handler's success and its failures half-way, `findOrCreateGroup` included. Events are keyed
by the registration, so each registration of a user may have a partition of its own
(`RegistrationPartition`). Two history variables say where the order of events is lost: `overlap` notes whether
a partition was ever given to a member while records of it were in hand; `crossed` are the users with a
decision that was stored while an earlier one of theirs was uncommitted in another partition, until
a later decision finds none uncommitted.

### Hub and Chat

`Hub` follows one goroutine per connection through `Handle`: `Authenticate`,
`Register`, `SubscribeRooms`, `Join`, `SendAuthSuccess`, `HandleFrame` until the
connection is `done`, then `ReadPayloads` (the loop ends) and `Unregister`.
`SendRaw` queues a frame or, when the queue is full, has its caller close the
connection; `WriteLoop` is the writer. `CopyTargets` is a broadcast's copy of the
room under the lock, `Deliver` its `SendRaw` to one connection after another, so
connections join, leave and close while a frame is on its way; `CopyUserTargets`
and `DeliverToUser` are the same for frames to a user. Frames that are not
messages (`auth_success`, pong, ack, error, hints) are one value, `Reply`: they
take room in the queue.

`Chat` adds `SendMessage` as `MessageCheck` (the lookup by client id), `TakeId`
(MySQL hands out the id when the insert begins), `CreateMessage` (commit, or the
unique key's refusal and the second lookup) and `PublishMessage`; the delivery
consumer (`HandleEvent`, `HandleAgain` after a lost commit); and a reader with the
ids it knows, who pulls with the newest id it held when it connected.
The histories `skipped` (rows that the limit of a page left out) and `passed` (ids below the
cursor that the reader did not have when it connected) name the known gaps of a pull; `pulled` are
the connections whose reader has pulled.

### EmailCodes and Sessions

Every Redis command is a step, also those of a pipeline, which is not atomic;
only the MULTI that uses up a code is one step. Every request may end between
two commands (`EndRequest`), and where the code drops an error the model goes on
without the effect. Tokens are numbered as they are set and live equally
long, so they expire in that order; `due` is the token the listing set lives as
long as. `Members`, `DelTokens`, `DelSet` are `RevokeAll`; `SetToken`, `AddToken`, `RenewSet`
are `issueTokens`. `torn` are tokens whose listing fell between another
revocation's SMEMBERS and DEL.

### Files and Verification

A request is a record `task` with the step it is at, the file, what uses it and the
file used before. `Find`, `RemoveReference`, `AddReference`, `UpdateHolder` are the
update of a profile (avatar) or an activity (cover, whose UPDATE asks for the version read);
`FindByUUID`, `LookForReferences`, `RemoveObject`, `SoftDelete` are `Delete`;
`Submit`, `Create`, `ReferFront`, `ReferBack` submit a verification, `Confirm`, `Cancel`
and `Decide` move it on from the status they read. Every call may fail or be the last of
its request. `unsafe` are files that were referenced when a `Delete` had already
looked, or when they were gone in part; `disturbed` are users of a file whose references a
failed call or two replacements at once may have left wrong.

### SearchIndex

A row is its version in the code's numbering (0 when it is created), a document the versions its
row and its tags were read at. `ExternalVersion` is the version that `Index` sends, 1 for version 0 too, and
`Accepts` compares what was sent. No activity is public before version 2: it is created as a draft, submitted
and approved. A server runs `EnsureActivityIndex`, then its consumer: `HandleEvent` reads the
row, `ReadTags` the tags, `IndexDocument` writes with `external_gte` and commits,
and a write that is refused (`IndexRefused`) is tried again with what is read then.
The reindex command is `JobStart`, the scan (`ListForSearchRebuild`, `IndexRow`), `Check`,
`SwitchAlias` and the scan once more, up to `Compensated`; it ends at the first refused write
(`IndexRowRefused`) or failed call. Elasticsearch is external: a write to an alias of
two indices is refused, a write to a name that is nothing makes an index of that
name (`Alias`). Different servers may hold different events of one activity at a time,
which is more than the partitions of the topic allow and keeps Kafka out of the module.

## Runs

| Run | Question | Bounds |
|---|---|---|
| `registration_places` | no overbooking, one check-in per ticket, all successes of a request id agree, and everything implements `Admission` | 3 users, 1 attempt each, 2 places, 1 request id, 2 requests at once, 1 scheduler, clock to the start of the activity |
| `registration_overlap` | one active row per user, counters, tickets and events tell the rows, final is final, with overlapping scheduler runs | 1 user, 2 attempts, 2 places, 2 requests, 2 schedulers, batches of 2, clock to the end |
| `registration_liveness` | pending rows are decided, tickets closed | 2 users, 1 request, batches of one row |
| `activity_life` | versions, group, history, frozen forms, legal moves; published activities end | 2 requests, 1 scheduler, 2 forms (with and without cover), 4 versions |
| `relay` | exclusive claims, sent means stored, every event is sent or parked | 2 relays, 3 events of 2 keys and 2 partitions, batches of 2, 2 attempts, 1 crash |
| `notifications` | told once, told before committed, every event reaches its recipient | 2 members, 1 partition, 2 events in 3 records, 1 failure |
| `membership` | the members are the approved users, the group keeps its owner, members settle | student and organizer, 2 attempts each, in 2 partitions of 3 events, 1 failure, 1 member |
| `chat` | no hole in an open connection, a retry meets its row, readers lack only what the known gaps leave out | 2 send requests with 2 client ids, 2 connections with queues of 2, pages of 1, 3 events of connecting, inserting, repeating and hinting in all (`MaxWork`) |
| `sessions` | what can be renewed can be revoked, what was revoked stays so, failures are limited, counters end | 2 requests at once, 2 tokens or codes in all, limits of 1 |
| `files` | files in use exist, references follow the use, the history tells the status | 3 files of 3 kinds, 3 requests |
| `search` | the index follows the rows, Search shows the public ones, events are indexed | 2 activities, 2 servers, 2 indices, versions up to 3, 4 changes, reindex runs and faults in all (`MaxWork`) |

One more run, `result_order`, ends in a violation: it checks what `kafka.go:94` says, that results are in the order
of the input (`ResultsMatchInput`). An event that failed counts as published because another partition answered first.

Three more statements of comments and documents, which the code does not keep, are definitions that no run checks,
stated beside the weaker property that holds. TLC refutes each within seconds when it is added to the configuration:

| Statement | Add to | What happens |
|---|---|---|
| `NewerIsKept`: an older read cannot overwrite a newer state in the index | `SearchIndex.cfg` | versions 0 and 1 are sent as the same external version, so the draft that a slow server read replaces the first change |
| `MembersAreApproved`: whoever is approved is in the group | `Membership.cfg` | the cancellation of the first registration is handled after the approval of the second one; with `RequireApproval = FALSE`, the only event, `registration.created`, is ignored by the worker |
| `CancelledIsFinal`: nothing follows a cancellation | `Files.cfg` | a confirmation that read the row before moves it on |

Why these are enough to meet the interesting cases: the hazards are races
of two actors over one row, so two requests, and a scheduler besides, that each hold
something stale are the smallest instance with all of them; two places for three users make
capacity bite, the place of the one who cancels is the other's chance, and two
tickets for one request id are what `uk_check_in_request` is there for; a
second attempt meets the unique key (with a second place free, so that only the key
can stop it) and the ticket of a first attempt; batches of one row make the jobs' limit bite. Three
events make a batch of one or of two partitions and leave one for the other relay, which may also claim
what the first one put back; any attempt may fail, and a relay may crash in between. One partition is what two members fight over, with one failure
(`Stop`, `Revoke` and the failed handlers draw from the same budget) a
partition changes hands once and the first member's commit comes last; three
records for two events repeat one of them. Three events in a partition are a registration that is
approved and cancelled, while the other partition has the user's next registration and its decision. Two send requests are an
attempt and its retry, or two messages that commit in the other order than their
ids; a queue of two frames is full after the greeting and one message, a page of one message leaves the other
out. Two requests and two tokens are a rotation against a revocation, or one pipeline
inside another. Three files of three kinds are a cover and the two sides of a card, each of which may
become the avatar as well; the third request deletes while two replace. Four pieces of
work in `search` are, for instance, two changes, a reindex run and a crash, so that a
doubled alias, an index of the alias's name and a second scan that stops early are all
reached. The proofs cover all values of the constants for the safety properties (see there).

`MaxAttempts` of a user, `MaxVersion`, `Horizon`, `MaxCrashes`, `MaxFailures`,
`MaxRecords`, `MaxTokens`, `MaxCodes`, `MaxCount` and `MaxWork` only bound the state space; the
last four are spent by several kinds of steps together, because each kind alone is
harmless and their combinations matter. The attempts of an event, the queue, the
page and the limits of logins, tries and mails are the code's own limits, made smaller. Symmetry sets are used in
`registration_places`, `registration_overlap`, `chat`, `sessions` and `files`, which check no liveness. Deadlock
detection is off where there is nothing left to do: once an activity is over (or has reached `MaxVersion`), the outbox is empty,
all records are handled, or the requests, connections and budgets of an instance are spent.

### What the code does not keep

Departures from the documents, comments or plain expectations that the modules
contain, and that their properties therefore leave room for:

*Registrations and activities.* `ticket.voided` is announced for a ticket that was
checked in after the cancellation had read it (`repository/outbox.go:18` has events commit
together with the rows they describe). An approval publishes a form that was edited
and submitted again after the approving request had read it (transitions test
the status, not the version). A participant may cancel after the check-in, and the
place is given to somebody else. Tickets of a cancelled activity are not
voided but expire. A registration or check-in that read the activity before its
end commits after it. The status takes edges (`pending_review` to `cancelled`,
`rejected` to `pending_review`, `published` to `finished`) the documented diagram does not
have. The creation and the first change of an activity are both announced as
version 1. A retried event is published after its successors.

*Groups.* A user who cancels, registers again and is approved can end up outside the group: the two
registrations have different keys, and the older event may be handled last
(`03-业务领域设计.md:348`, `12-Kafka 设计.md:224`; `MembersAreApproved`). `MembersFollow` makes an exception
for such users (`crossed`) and for no others. A user of an activity without approval never joins its group, since only
`registration.created` and ticket events are stored, which the worker ignores
(`03-业务领域设计.md:347` has them join at once). An organizer who registers for
the own activity and cancels is marked as having left the group, as its owner. A
member that lost its partition can handle a stale approval after the new one handled the
cancellation (`overlap` in `Membership`).

*Chat.* A pull with `after_id` answers the newest messages after it, up to the limit,
and no cursor leads to the ones left out (`service/chat.go:136-137` speaks of paging forward). Ids
commit out of order, so a pull may pass over a message that appears later with a lower id.
A client that asks for what follows the newest id it holds, after live frames arrived,
misses what came before them. A message whose publication failed, or whose request
died after the commit, is published by no retry. The lookup by client message id ignores the
group. A connection keeps the rooms of the moment it authenticated, also of groups its user
left. Image messages need a file of type `chat_image`, which no upload produces.

*Accounts.* A Refresh that took its token before a revocation began issues a pair after it, which
the revocation does not end (`15-安全设计.md:45-48`). A session whose SADD falls between another revocation's SMEMBERS and DEL
is not listed and escapes later revocations as well. A lost EXPIRE leaves a counter
for ever, and its address is refused for ever once the limit is reached. Two requests can use one code; an
INCR that fails is a try that is not counted; using up a code may delete a newer one.

*Files and verification.* A stored cover or avatar can lose its reference, since the references are
changed before the row and their errors are dropped, and a file without reference can be deleted
while in use (`09-数据库设计.md:655`). A file can be attached after `Delete` has found it unreferenced, or when
its object is gone and its row is not. Rows of files are deleted, in spite of the name
`SoftDelete`: the model has a plain time where gorm wants its `DeletedAt`. A Confirm that read the row before a
Cancel committed revives the cancelled application (`03-业务领域设计.md:331` lets nothing follow
it; `CancelledIsFinal`).

*Search.* The index may keep an activity as it was created after its first change, when a server that read it before
writes last: both contents are sent as version 1 (`elasticsearch.go:181-184` and `activity_search_indexer.go:63-66`
rule this out; `NewerIsKept`). The activity is a draft in both, so Search does not show
it. A consumer that writes a newer version during the second scan makes that scan stop, and the rows
after it keep what the first scan read. A server that found no alias may add the first index
after a reindex has switched the alias; with two indices behind it the alias takes no write. A first write without an alias
makes an index of its name, which no reindex can replace. Views, counters and renamed organizers or categories
change no version and store no event, so their copies in documents go stale.

## Fairness

Requests are never fair: users need not act, and every request may be cut off.
The clock ticks. Timers start again and again (`main.go` starts them with a
cron), so the jobs' steps are weakly fair; a statement that fails or a crash may
hit a run, but not the same statement in every run, so listing, expiring and
committing are strongly fair. Relay runs and consumer loops have timeouts and restarts, so they are
weakly fair, the coordinator assigns a partition nobody has, and a backoff ends. A server of `SearchIndex` keeps taking its next step (it is
started again, and so is its consumer); faults and crashes are bounded, the reindex command and the organizers are not fair. What may fail for ever (the broker's
answers) stays unfair: an event that always fails is parked. A record that its handler can never process
blocks its consumer for ever; `EventsAreNotified` and `MembershipSettles` say nothing about that case, since the
failures of their runs are bounded. `EventsAreIndexed` says that again and again all events are indexed or the
alias names two indices, the state in which consumers retry in vain.

## Proofs

Assumptions: only the named ASSUMEs of the modules (finitely many users, positive
capacity and batches, windows in order, a key and a partition for each event, `NoPartition` is none of the partitions, finitely many requests, connections and activities,
queues and pages of at least one, message ids counted from 1, an organizer who is a user). No theorem has a hypothesis of its own.

* `RegistrationProofs`. `TypeCorrect` first. `CountersCorrect`, `PlacesCorrect` and
  `OneActiveCorrect` share one argument: the counters
  are a cardinality of rows, so the inductive invariant is `Places` (counters
  exact, rows within capacity, one active row per user): a transition guarded by
  the old status moves one row between two sets (`CountAfterMove`), and capacity
  of rows follows from the capacity of the counters. `TicketsCorrect` needs `PlansHold`:
  what a cancellation in flight has read about a ticket can only have become
  more final. `CheckInCorrect` and `RepliesCorrect` are one invariant, `CheckedIn`: the check-ins, the
  used tickets and the answers given are kept in step by the one transaction that writes the first two.
  `OutboxCorrect` says row by row what its events tell (`Tells`); it rests on
  `PlansHold`, since the events of a cancellation follow what was read of the ticket.
  `EveryEffect` says what any step does to rows and tickets; from it follow `FinalIsFinal` and,
  step by step, `ImplementsAdmission`.
* `ActivityProofs`. The inductive invariant `Inductive` adds to the types what each
  request and sync run in flight has seen: an earlier version, and if the
  version is still the same, exactly the row. That is why a guard on the status alone
  may bump the version. `EveryEffect` reduces all steps to Kept, Born, Edited, Moved.
* `OutboxRelayProofs`. `RowsConsistent` (a row's status, attempts and retry agree)
  and `OpenIsClaimed` make `ClaimsAreExclusive` inductive; `SettledCorrect` follows.
  `SentCorrect`: as long as a batch goes to one partition, results come in the
  order of the batch (as many as there are closed rows, the i-th for the i-th row); as long as no result
  is a failure, their order does not matter; in both cases a run marks only rows it has stored. What is left, a failure
  in a batch of several partitions, is what the property excepts (`Garbled`).
* `WorkersProofs`, about the group. `NoGaps`: what any member has polled, even one
  that lost the partition, starts at or below a handled prefix. So commits that move
  the offset back are harmless, and nothing is skipped.
* `WorkersProofs`, about `Notifications`. `WorkerIsGroup`: every step of the worker is one of the
  group or leaves the group alone, so the theorems about consumer groups carry over.
  The inductive invariant adds that polled records exist (`InLog`), that the uuid of a row
  tells event and recipient and hints count rows (`KeysTellRows`), and that what was handled
  has a row (`HandledIsTold`). With `NoGaps` this gives `CommittedIsTold`;
  `OnceCorrect` rests on the derived uuid alone, whatever the broker and the
  group repeat; `ReadCorrect` is an action property of every step.
* `WorkersProofs`, about `Membership`. `MembershipIsGroup` takes the group over in the same way.
  `OwnerCorrect` holds in every setting. For `MembersCorrect`, as long as no partition changed hands
  with records in hand, one member holds a partition and works at its committed offset (`OneHolder`,
  `AtOffset`), so records are handled in order and none is handled again once it is committed. Then the decisions about a user
  that are not committed (`OpenIn`) tell everything: unless the user has crossed they are in one partition
  (`OneSide`), the last of them is what the registration says (`LastIsRow`), one that has been handled is what the
  row of the group says (`CurrentIsFollowed`), and with none left the row says what the registration says
  (`AtRest`). A commit closes the first of them, a change of the registration appends a last one. Approval is
  needed because nothing else makes an event that the worker acts on; without it the property says nothing.
* `ChatProofs`. Requests about to commit hold ids of their own that no row has yet (`IdsAreOwn`);
  that an id is left for each of them is a count of the requests that are past the insert
  (`IdsAreCounted`). With the unique key this gives `RetriesCorrect`. For `StreamsCorrect`, `Whole` places every message of a queue by its rank among the
  messages there: what was written, and then what is queued, are the consecutive broadcasts since the connection
  joined, up to the one it is still a target of. `StreamSteps` sorts all steps by what they do to the streams, so that
  the case of a full queue is one case: the connection is done and promises no more. `ReadersCorrect` adds
  that a row the reader of an open connection lacks is on its way (`OnItsWay`: in the rest of the topic, in the
  broadcast under way, or in the queue), or has one of the known excuses (`Excused`).
* `SearchIndexProofs`. Nothing that a server or a scan has read, or an index holds, is ahead of the row, and a
  document's tags are no older than its version (`DocsBehind`, `HandsBehind`, `BatchBehind`). So a write that
  `external_gte` lets through never replaces a newer external version. `IndexIsFresh`: where the
  alias names one index and is healthy, the index has the external version of the row (`SameVersion`) or the event of its
  last change is still to come. From version 2 on that is the version itself. What a reindex makes of this is
  followed through its second scan (`ScanMakesFresh`: rows the scan is past are fresh, the others are still
  ahead of it or in its page); before there is an index no event can have been handled (`NothingHandled`).
  `IndexCorrect` and `SearchCorrect` follow.
* `SessionsProofs`. `SessionsInvariant` says whose a token is until the client has it
  (`TokensAreOwn`), that the set outlives the tokens that count (`SetOutlivesTokens`), and what a
  revocation under way has still to cut (`RevocationReaches`): read from the set or torn out of
  it, and deleted before the set is. `ListedCorrect` and `EndedCorrect` follow for
  any number of requests, wherever a pipeline is cut. For `FailuresCorrect` the failures counted
  and the guesses at work (`Guessing`) are limited together; `CountersCorrect` follows each EXPIRE.
* `VerificationProofs`. A reference that is not `unsafe` protects its file from every `Delete` past its look
  (`ReferencesProtect`), which is inductive because a `Delete` passes only when there is no reference:
  `FilesCorrect`. `HistoryCorrect` needs that what a request has read of the status is in
  the history (`SeenWasTold`). `ReferencesCorrect` follows the references through every stage: where nothing
  is disturbed a replacement is alone, began from the file in use, and leaves what its stage says
  (`ReplacedInOrder`); one submission refers, to the files its row names (`SubmittedInOrder`).

Every invariant and action property of a passing run is stated by one of these theorems. Only model-checked
are the liveness properties (`PendingIsDecided`, `TicketsAreClosed`, `PublishedEnds`, `EventsAreSettled`,
`EventsAreNotified`, `MembershipSettles`, `EventsAreIndexed`), since the provers do not handle liveness under
fairness, and `ResultsMatchInput` and the other statements that are not kept. The cases a property excepts (`Garbled`, `overlap`, `crossed`,
`healthy`, `torn`, `unsafe`, `disturbed`) are part of the property, in its run and in its theorem alike.

## Not modelled, and the plan

Left out for good: HTTP decoding and views, configuration, wrappers of clients,
migrations as a process, scripts, list queries; row locks inside a transaction (the
database breaks lock cycles by rolling one transaction back, which is a failed
request here); the malformed records consumers skip; presence, whose flags nothing reads; categories and
tags, which nothing but their one replacing transaction changes; the registration of an account, one insert behind a unique key.

Next, in this order:

1. Composition: `Registration`'s events through relay and consumers as an
   abstract at-least-once channel that both ends implement; it would let `Membership`
   see events that the relay's retries have overtaken.
2. The abstract specification's own consequences: from `Admission` alone, that a redeemed pass had a
   confirmed place and that places stay bounded, so that the promise reads without the detail.
3. Chat with two instances, each with its own hub and consumer group, and a sender whose group changes.

---------------------------- MODULE SearchIndex ----------------------------
(***************************************************************************)
(* The search index of activities: MySQL rows whose every change stores an *)
(* event, the servers that write the rows an event is about to the read    *)
(* alias of Elasticsearch, and the reindex command, which builds another   *)
(* index, moves the alias to it and scans the rows once more.              *)
(***************************************************************************)
EXTENDS Integers, Sequences, FiniteSets, FiniteSetsExt

CONSTANTS
    Activities,  \* ids of activities, in the order of the scan
    Servers,     \* each starts once more after a crash; one consumer each
    Indices,     \* physical indices
    FirstIndex,  \* the one a server creates
    Alias,       \* an index with the alias's own name, made by a first write
    BatchSize,   \* rows of a page of the scan
    Public,      \* versions at which a row is published, ongoing or finished:
                 \* it is created as a draft and submitted before that
    MaxVersion,  \* bound: the last version of a row
    MaxWork      \* bound: changes of all rows, runs of the reindex command,
                 \*        failed calls, lost commits and crashes in all

ASSUME SearchAssumption ==
    /\ Activities \subseteq Nat \ {0} /\ IsFiniteSet(Activities)
    /\ FirstIndex \in Indices /\ Alias \notin Indices
    /\ BatchSize \in Nat \ {0}
    /\ {MaxVersion, MaxWork} \subseteq Nat
    /\ Public \subseteq 2..MaxVersion

VARIABLES
    version,  \* of each row, which stands for its content
    pending,  \* versions whose event the consumers have not committed
    docs,     \* what each index holds of each activity
    alias,    \* the indices the read alias names
    server,   \* where each server is
    hand,     \* the event and the document it has in hand
    job,      \* the reindex command
    runs,     \* how often it was started
    healthy,  \* no switch is waiting for a scan that ended well
    faults    \* failed calls, lost commits and crashes so far

rows == <<version, pending>>
elastic == <<docs, alias, healthy>>
reindex == <<job, runs>>
vars == <<rows, elastic, server, hand, reindex, faults>>

Targets == Indices \cup {Alias}
NoRow == -1  \* the version where there is no row; the first one has 0
Created == {a \in Activities : version[a] # NoRow}
None == [version |-> NoRow, tags |-> NoRow]
NoEvent == [activity |-> 0, event |-> 0, doc |-> None]
NoJob == [stage |-> "off", target |-> Alias, after |-> 0, batch |-> {},
          count |-> 0]

SearchTypeOK ==
    /\ \A a \in Activities :
          /\ version[a] \in NoRow..MaxVersion
          /\ pending[a] \subseteq 0..version[a]
          /\ \A i \in Targets : docs[i][a] \in [version : NoRow..version[a],
                                               tags : NoRow..version[a]]
    /\ alias \subseteq Targets
    /\ server \in [Servers -> {"start", "add", "idle", "tags", "index"}]
    /\ job.stage \in {"off", "build", "check", "switch", "compensate"}
    /\ healthy \in BOOLEAN /\ faults + runs <= MaxWork

Init ==
    /\ version = [a \in Activities |-> NoRow]
    /\ pending = [a \in Activities |-> {}]
    /\ docs = [i \in Targets |-> [a \in Activities |-> None]]
    /\ alias = {} /\ healthy = TRUE
    /\ server = [s \in Servers |-> "start"]
    /\ hand = [s \in Servers |-> NoEvent]
    /\ job = NoJob /\ runs = 0 /\ faults = 0

MoreWork ==
    MapThenSumSet(LAMBDA a : version[a] + 1, Activities) + runs + faults
        < MaxWork

Fault == MoreWork /\ faults' = faults + 1

(* Create makes version 0. Update, Transition and SyncStatuses: the version*)
(* goes up and an event is stored in the same transaction, tags are        *)
(* replaced in it.                                                         *)
Change(a) ==
    /\ version[a] < MaxVersion /\ MoreWork
    /\ version' = [version EXCEPT ![a] = @ + 1]
    /\ pending' = [pending EXCEPT ![a] = @ \cup {version[a] + 1}]
    /\ UNCHANGED <<elastic, server, hand, reindex, faults>>

-----------------------------------------------------------------------------
(* Elasticsearch.                                                          *)

(* Index sends version 0 as 1: the content at creation and the one after   *)
(* the first change have the same external version.                        *)
ExternalVersion(v) == IF v = 0 THEN 1 ELSE v

AcceptsBug(i, a, doc) == TRUE  \* no external version

AcceptsOnceBug(i, a, doc) ==  \* version_type=external
    ExternalVersion(docs[i][a].version) < ExternalVersion(doc.version)

(* version_type=external_gte.                                              *)
Accepts(i, a, doc) ==
    ExternalVersion(docs[i][a].version) <= ExternalVersion(doc.version)

(* A write to the alias goes to its only index; without an alias it makes  *)
(* an index of that name, with two of them it is refused.                  *)
Resolve == IF alias = {} THEN {Alias} ELSE alias

Writes(i, a, doc) ==
    /\ Accepts(i, a, doc)
    /\ docs' = [docs EXCEPT ![i][a] = doc]

WritesToAlias(a, doc) ==
    /\ Cardinality(Resolve) = 1
    /\ \E i \in Resolve : Writes(i, a, doc)
    /\ alias' = Resolve

-----------------------------------------------------------------------------
(* A server: EnsureActivityIndex, then the consumer of activity events.    *)

Goes(s, to) == server' = [server EXCEPT ![s] = to]

(* The alias is looked up; an index named like it is not one. Any failure  *)
(* is only logged.                                                         *)
EnsureActivityIndex(s) ==
    /\ server[s] = "start"
    /\ \/ alias \in {{}, {Alias}} /\ Goes(s, "add") /\ UNCHANGED faults
       \/ alias \notin {{}, {Alias}} /\ Goes(s, "idle") /\ UNCHANGED faults
       \/ Fault /\ Goes(s, "idle")
    /\ UNCHANGED <<rows, elastic, hand, reindex>>

AddAlias(s) ==
    /\ server[s] = "add" /\ Goes(s, "idle")
    /\ \/ alias' = (IF alias = {Alias} THEN alias ELSE alias \cup {FirstIndex})
          /\ UNCHANGED faults
       \/ Fault /\ UNCHANGED alias
    /\ UNCHANGED <<rows, docs, healthy, hand, reindex>>

(* HandleEvent reads the activity, later its tags, and writes both.        *)
HandleEvent(s, a) ==
    /\ server[s] = "idle" /\ pending[a] # {}
    /\ hand' = [hand EXCEPT ![s] =
                  [activity |-> a, event |-> Min(pending[a]),
                   doc |-> [version |-> version[a], tags |-> NoRow]]]
    /\ Goes(s, "tags")
    /\ UNCHANGED <<rows, elastic, reindex, faults>>

ReadTags(s) ==
    /\ server[s] = "tags" /\ Goes(s, "index")
    /\ hand' = [hand EXCEPT ![s].doc.tags = version[hand[s].activity]]
    /\ UNCHANGED <<rows, elastic, reindex, faults>>

(* The record is committed after the write; the commit may be lost.        *)
IndexDocument(s) ==
    LET h == hand[s]
    IN /\ server[s] = "index"
       /\ WritesToAlias(h.activity, h.doc)
       /\ Goes(s, "idle") /\ hand' = [hand EXCEPT ![s] = NoEvent]
       /\ \/ /\ pending' = [pending EXCEPT ![h.activity] = @ \ {h.event}]
             /\ UNCHANGED faults
          \/ Fault /\ UNCHANGED pending
       /\ UNCHANGED <<version, healthy, reindex>>

HandleAgain(s) ==
    /\ Goes(s, "idle") /\ hand' = [hand EXCEPT ![s] = NoEvent]
    /\ UNCHANGED <<rows, elastic, reindex>>

(* The write is refused, a call fails: the consumer stops, and reads the   *)
(* record again.                                                           *)
IndexRefused(s) ==
    /\ server[s] = "index"
    /\ \/ Cardinality(Resolve) # 1
       \/ \E i \in Resolve : ~Accepts(i, hand[s].activity, hand[s].doc)
    /\ HandleAgain(s) /\ UNCHANGED faults

HandleFails(s) ==
    /\ server[s] \in {"tags", "index"}
    /\ Fault /\ HandleAgain(s)

Crash(s) ==
    /\ server[s] # "start" /\ Fault
    /\ Goes(s, "start") /\ hand' = [hand EXCEPT ![s] = NoEvent]
    /\ UNCHANGED <<rows, elastic, reindex>>

-----------------------------------------------------------------------------
(* The reindex command.                                                    *)

JobStart(t) ==
    /\ job.stage = "off" /\ MoreWork
    /\ job' = [NoJob EXCEPT !.stage = "build", !.target = t]
    /\ runs' = runs + 1
    /\ UNCHANGED <<rows, elastic, server, hand, faults>>

Scanning == job.stage \in {"build", "compensate"}

(* The next page: rows are read together and written one after the other.  *)
ListForSearchRebuild ==
    LET rest == {a \in Created : a > job.after}
        page == {a \in rest :
                    Cardinality({b \in rest : b < a}) < BatchSize}
    IN /\ Scanning /\ job.batch = {} /\ page # {}
       /\ job' = [job EXCEPT !.after = Max(page),
                             !.batch = {<<a, version[a]>> : a \in page}]
       /\ UNCHANGED <<rows, elastic, server, hand, runs, faults>>

First(batch) == CHOOSE p \in batch : \A q \in batch : p[1] <= q[1]

Document(p) == [version |-> p[2], tags |-> version[p[1]]]

IndexRow ==
    LET p == First(job.batch)
    IN /\ Scanning /\ job.batch # {}
       /\ IF job.stage = "build"
            THEN Writes(job.target, p[1], Document(p)) /\ UNCHANGED alias
            ELSE WritesToAlias(p[1], Document(p))
       /\ job' = [job EXCEPT !.batch = @ \ {p}, !.count = @ + 1]
       /\ UNCHANGED <<rows, healthy, server, hand, runs, faults>>

ScanEnds ==
    /\ job.batch = {}
    /\ {a \in Created : a > job.after} = {}

Built ==
    /\ job.stage = "build" /\ ScanEnds
    /\ job' = [job EXCEPT !.stage = "check"]
    /\ UNCHANGED <<rows, elastic, server, hand, runs, faults>>

(* Count and HasDocument.                                                  *)
Check ==
    LET held == {a \in Activities : docs[job.target][a] # None}
    IN /\ job.stage = "check"
       /\ job' = IF Cardinality(held) = job.count
                   THEN [job EXCEPT !.stage = "switch"] ELSE NoJob
       /\ UNCHANGED <<rows, elastic, server, hand, runs, faults>>

SwitchAlias ==
    /\ job.stage = "switch"
    /\ IF alias = {Alias}
         THEN job' = NoJob /\ UNCHANGED <<alias, healthy>>
         ELSE /\ alias' = {job.target}
              /\ healthy' = (healthy /\ alias = alias')
              /\ job' = [job EXCEPT !.stage = "compensate", !.after = 0]
    /\ UNCHANGED <<rows, docs, server, hand, runs, faults>>

CompensatedBug ==  \* the second scan is left out
    /\ job.stage = "compensate"
    /\ job' = NoJob /\ healthy' = TRUE
    /\ UNCHANGED <<rows, docs, alias, server, hand, runs, faults>>

Compensated ==
    /\ job.stage = "compensate" /\ ScanEnds
    /\ job' = NoJob /\ healthy' = TRUE
    /\ UNCHANGED <<rows, docs, alias, server, hand, runs, faults>>

(* The first refused write ends the command, wherever it is; so does any   *)
(* call that fails.                                                        *)
IndexRowRefused ==
    LET p == First(job.batch)
    IN /\ Scanning /\ job.batch # {}
       /\ \/ job.stage = "build" /\ ~Accepts(job.target, p[1], Document(p))
          \/ /\ job.stage = "compensate"
             /\ \/ Cardinality(Resolve) # 1
                \/ \E i \in Resolve : ~Accepts(i, p[1], Document(p))
       /\ job' = NoJob
       /\ UNCHANGED <<rows, elastic, server, hand, runs, faults>>

JobFails ==
    /\ job.stage # "off" /\ Fault
    /\ job' = NoJob
    /\ UNCHANGED <<rows, elastic, server, hand, runs>>

-----------------------------------------------------------------------------
PublicRows == {a \in Activities : version[a] \in Public}

SearchBug ==  \* documents that are not public are found too
    LET found == {a \in Activities : \E i \in alias : docs[i][a] # None}
    IN IF found # {} THEN found ELSE PublicRows

(* ActivityService.Search: rows of the documents that are public, or those *)
(* MySQL finds when there are none.                                        *)
Search ==
    LET found == {a \in Activities : \E i \in alias : docs[i][a].version \in Public}
    IN IF found # {} THEN found ELSE PublicRows

-----------------------------------------------------------------------------
ServerStep(s) ==
    \/ EnsureActivityIndex(s) \/ AddAlias(s)
    \/ \E a \in Activities : HandleEvent(s, a)
    \/ ReadTags(s) \/ IndexDocument(s) \/ IndexRefused(s)

Next ==
    \/ \E a \in Activities : Change(a)
    \/ \E s \in Servers : ServerStep(s) \/ HandleFails(s) \/ Crash(s)
    \/ \E t \in Indices : JobStart(t)
    \/ ListForSearchRebuild \/ IndexRow \/ Built \/ Check \/ SwitchAlias
    \/ Compensated \/ IndexRowRefused \/ JobFails

Spec == Init /\ [][Next]_vars /\ \A s \in Servers : WF_vars(ServerStep(s))

-----------------------------------------------------------------------------
Current(a) == [version |-> version[a], tags |-> version[a]]

Settled(a) == a \in Created /\ pending[a] = {}

Follows(doc, a) ==
    /\ ExternalVersion(doc.version) = ExternalVersion(version[a])
    /\ version[a] > 1 => doc = Current(a)

(* Once the events of an activity are handled the index behind the alias   *)
(* holds its row and its tags as they are, whatever was in flight, as long *)
(* as no switch is without its second scan. After the first change of the  *)
(* row it may still hold the row as it was created (NewerIsKept); nothing  *)
(* older than that, and no row that was changed again, is ever left behind *)
(* (activity_search_indexer.go HandleEvent, Rebuild; cmd/reindex run).     *)
IndexFollowsRows ==
    healthy /\ Cardinality(alias) = 1 =>
        \A a \in Activities, i \in alias : Settled(a) => Follows(docs[i][a], a)

(* Search shows an activity whose events are handled if and only if it is  *)
(* public, although rows are not looked at again (activity.go Search).     *)
SearchShowsPublicRows ==
    healthy /\ Cardinality(alias) <= 1 =>
        \A a \in Activities : Settled(a) => (a \in Search <=> a \in PublicRows)

(* Every event is indexed in the end, except while two indices share the   *)
(* alias and it takes no write.                                            *)
EventsAreIndexed ==
    []<>(Cardinality(alias) > 1 \/ \A a \in Activities : pending[a] = {})

-----------------------------------------------------------------------------
(* Statements of comments that the code does not keep.                     *)

(* elasticsearch.go Index: an older Kafka record cannot overwrite a newer  *)
(* state. What was read of a row when it was created can overwrite what it *)
(* is after its first change, since both are sent as version 1.            *)
NewerIsKept ==
    [][\A i \in Targets, a \in Activities :
          docs[i][a].version <= docs'[i][a].version]_vars
=============================================================================

------------------------- MODULE SearchIndexProofs -------------------------
(***************************************************************************)
(* Proofs about SearchIndex, for any number of activities, servers and     *)
(* indices, any size of a page, and whatever fails.                        *)
(***************************************************************************)
EXTENDS SearchIndex, FiniteSetTheorems, WellFoundedInduction, TLAPS

Versions == {n \in Int : NoRow <= n}

Documents == [version : Versions, tags : Versions]

USE DEF Versions, NoRow

Jobs == [stage : {"off", "build", "check", "switch", "compensate"},
         target : Targets, after : Nat, batch : SUBSET (Activities \X Nat),
         count : Nat]

SearchTypes ==
    /\ version \in [Activities -> Versions]
    /\ pending \in [Activities -> SUBSET Nat]
    /\ docs \in [Targets -> [Activities -> Documents]]
    /\ alias \subseteq Targets /\ IsFiniteSet(alias)
    /\ server \in [Servers -> {"start", "add", "idle", "tags", "index"}]
    /\ hand \in [Servers -> [activity : Activities \cup {0}, event : Nat,
                             doc : Documents]]
    /\ job \in Jobs
    /\ healthy \in BOOLEAN

(* Versions only grow, so whatever was read of a row, and whatever an index*)
(* holds of it, is not ahead of the row.                                   *)
EventsOfRows == \A a \in Activities : \A e \in pending[a] : e <= version[a]

Behind(doc, a) == doc.version <= doc.tags /\ doc.tags <= version[a]

DocsBehind == \A i \in Targets, a \in Activities : Behind(docs[i][a], a)

HandsBehind ==
    \A s \in Servers :
        /\ server[s] \in {"tags", "index"} =>
              /\ hand[s].activity \in Activities
              /\ hand[s].event <= hand[s].doc.version
              /\ hand[s].doc.version <= version[hand[s].activity]
        /\ server[s] = "index" => Behind(hand[s].doc, hand[s].activity)

BatchBehind == \A p \in job.batch : p[2] <= version[p[1]]

(* The last change of a row is in the index, or its event is still to come.*)
(* The index tells versions apart as it stores them.                       *)
SameVersion(i, a) ==
    ExternalVersion(docs[i][a].version) = ExternalVersion(version[a])

Fresh(i, a) == version[a] \in pending[a] \/ SameVersion(i, a)

(* Without an index no event can have been handled.                        *)
NothingHandled ==
    alias = {} => \A a \in Activities :
                      version[a] = NoRow \/ version[a] \in pending[a]

IndexIsFresh ==
    \A i \in Targets, a \in Activities :
        alias = {i} /\ healthy => Fresh(i, a)

(* The second scan makes the rest of the index fresh.                      *)
ScanMakesFresh ==
    \A i \in Targets, a \in Activities :
        alias = {i} /\ job.stage = "compensate" =>
            \/ Fresh(i, a)
            \/ a > job.after
            \/ <<a, version[a]>> \in job.batch

SearchInvariant ==
    /\ SearchTypes
    /\ EventsOfRows /\ DocsBehind /\ HandsBehind /\ BatchBehind
    /\ NothingHandled /\ IndexIsFresh /\ ScanMakesFresh

-----------------------------------------------------------------------------
(* Least and greatest elements, and what the scan makes of them.           *)

LEMMA LeastIsThere ==
  ASSUME NEW S \in SUBSET Nat, S # {}
  PROVE  \E x \in S : \A y \in S : x <= y
<1>1. PICK x \in S : \A y \in S : <<y, x>> \notin OpToRel(<, Nat)
  BY NatLessThanWellFounded, WFMin
<1>2. \A y \in S : ~(y < x)
  BY <1>1 DEF OpToRel
<1> QED  BY <1>2

LEMMA GreatestOfFinite ==
  ASSUME NEW S \in SUBSET Nat, S # {}, IsFiniteSet(S)
  PROVE  \E x \in S : \A y \in S : y <= x
<1> DEFINE tops == {T \in SUBSET S :
                      T # {} /\ ~ \E x \in T : \A y \in T : y <= x}
           sizes == {Cardinality(T) : T \in tops}
<1>1. SUFFICES ASSUME tops # {}
               PROVE  FALSE
  OBVIOUS
<1>2. \A T \in SUBSET S : IsFiniteSet(T) /\ Cardinality(T) \in Nat
  BY FS_Subset, FS_CardinalityType
<1>3. sizes \in SUBSET Nat /\ sizes # {}
  BY <1>1, <1>2
<1> HIDE DEF sizes
<1>4. PICK n \in sizes : \A k \in sizes : n <= k
  BY <1>3, LeastIsThere
<1>5. PICK T \in tops : n = Cardinality(T)
  BY <1>4 DEF sizes
<1>6. PICK x \in T : TRUE
  OBVIOUS
<1>7. PICK U : U = T \ {x}
  OBVIOUS
<1>8. Cardinality(U) = Cardinality(T) - 1
  <2>1. /\ IsFiniteSet(T \ {x})
        /\ Cardinality(T \ {x}) =
              IF x \in T THEN Cardinality(T) - 1 ELSE Cardinality(T)
    BY <1>2, FS_RemoveElement
  <2> QED  BY <1>6, <1>7, <2>1
<1>9. U \notin tops
  <2>1. SUFFICES ASSUME U \in tops
                 PROVE  FALSE
    OBVIOUS
  <2>2. Cardinality(U) \in sizes
    BY <2>1 DEF sizes
  <2>3. n <= Cardinality(U) /\ n \in Nat /\ Cardinality(U) = n - 1
    BY <1>3, <1>4, <1>5, <1>8, <2>2
  <2> QED  BY <2>3
<1>10. \E z \in T : \A y \in T : y <= z
  <2>1. CASE U = {}
    BY <1>6, <1>7, <2>1
  <2>2. CASE U # {}
    <3>1. PICK u \in U : \A y \in U : y <= u
      BY <1>7, <1>9, <2>2
    <3>2. x \in Nat /\ u \in Nat /\ u \in T /\ \A y \in T : y = x \/ y \in U
      BY <1>7
    <3>3. CASE x <= u
      BY <3>1, <3>2, <3>3
    <3>4. CASE u <= x
      <4>1. \A y \in U : y \in Nat /\ y <= u
        BY <1>7, <3>1
      <4>2. \A y \in T : y <= x
        BY <3>2, <3>4, <4>1
      <4> QED  BY <4>2
    <3> QED  BY <3>2, <3>3, <3>4
  <2> QED  BY <2>1, <2>2
<1> QED  BY <1>10

LEMMA MinIsThere ==
  ASSUME NEW S \in SUBSET Nat, S # {}
  PROVE  Min(S) \in S
BY LeastIsThere DEF Min

LEMMA MaxIsThere ==
  ASSUME NEW S \in SUBSET Nat, S # {}, IsFiniteSet(S)
  PROVE  Max(S) \in S
<1>1. PICK x \in S : \A y \in S : y <= x
  BY GreatestOfFinite
<1>2. \A y \in S : x >= y
  BY <1>1
<1> QED  BY <1>2 DEF Max

LEMMA FirstIsThere ==
  ASSUME SearchInvariant, job.batch # {}
  PROVE  /\ First(job.batch) \in job.batch
         /\ First(job.batch) \in Activities \X Nat
<1>1. job.batch \in SUBSET (Activities \X Nat) /\ Activities \subseteq Nat
  BY SearchAssumption DEF SearchInvariant, SearchTypes, Jobs
<1> DEFINE S == {p[1] : p \in job.batch}
<1>2. S \in SUBSET Nat /\ S # {}
  BY <1>1
<1> HIDE DEF S
<1>3. PICK x \in S : \A y \in S : x <= y
  BY <1>2, LeastIsThere
<1>4. PICK p \in job.batch : x = p[1]
  BY DEF S
<1>5. \A q \in job.batch : p[1] <= q[1]
  BY <1>3, <1>4 DEF S
<1>6. First(job.batch) \in job.batch
  BY <1>5 DEF First
<1> QED  BY <1>1, <1>6

-----------------------------------------------------------------------------
(* What a write does.                                                      *)

(* Elasticsearch tells versions apart in their order, but not 0 from 1.    *)
LEMMA ExternalGrows ==
  ASSUME NEW v \in Versions, NEW w \in Versions, v <= w
  PROVE  /\ ExternalVersion(v) \in Versions
         /\ ExternalVersion(w) \in Versions
         /\ ExternalVersion(v) <= ExternalVersion(w)
BY DEF ExternalVersion

LEMMA Written ==
  ASSUME SearchInvariant, version' = version,
         NEW i \in Targets, NEW a \in Activities, NEW doc \in Documents,
         Writes(i, a, doc), Behind(doc, a)
  PROVE  /\ docs' \in [Targets -> [Activities -> Documents]]
         /\ docs'[i][a] = doc
         /\ DocsBehind'
         /\ SameVersion(i, a) =>
               ExternalVersion(doc.version) = ExternalVersion(version[a])
         /\ \A j \in Targets, b \in Activities :
               SameVersion(j, b) => SameVersion(j, b)'
<1>1. docs \in [Targets -> [Activities -> Documents]]
      /\ version \in [Activities -> Versions] /\ DocsBehind
  BY DEF SearchInvariant, SearchTypes
<1>2. /\ docs' = [docs EXCEPT ![i][a] = doc]
      /\ ExternalVersion(docs[i][a].version) <= ExternalVersion(doc.version)
  BY DEF Writes, Accepts
<1>3. /\ docs'[i][a] = doc
      /\ \A j \in Targets, b \in Activities :
            j # i \/ b # a => docs'[j][b] = docs[j][b]
      /\ docs' \in [Targets -> [Activities -> Documents]]
  BY <1>1, <1>2
<1>4. DocsBehind'
  BY <1>1, <1>3 DEF DocsBehind, Behind
<1>5. SameVersion(i, a) =>
          ExternalVersion(doc.version) = ExternalVersion(version[a])
  <2>1. /\ docs[i][a].version \in Versions /\ version[a] \in Versions
        /\ doc.version \in Versions /\ doc.tags \in Versions
    BY <1>1 DEF Documents
  <2>2. /\ ExternalVersion(doc.version) <= ExternalVersion(version[a])
        /\ ExternalVersion(doc.version) \in Versions
        /\ ExternalVersion(version[a]) \in Versions
    BY <2>1, ExternalGrows DEF Behind
  <2> QED  BY <1>2, <2>2 DEF SameVersion
<1>6. ASSUME NEW j \in Targets, NEW b \in Activities, SameVersion(j, b)
      PROVE  SameVersion(j, b)'
  <2>1. CASE j = i /\ b = a
    BY <1>3, <1>5, <1>6, <2>1 DEF SameVersion
  <2>2. CASE ~(j = i /\ b = a)
    BY <1>3, <1>6, <2>2 DEF SameVersion
  <2> QED  BY <2>1, <2>2
<1> QED  BY <1>3, <1>4, <1>5, <1>6

LEMMA WrittenToAlias ==
  ASSUME SearchInvariant, NEW a \in Activities, NEW doc, WritesToAlias(a, doc)
  PROVE  \E i \in Targets : /\ Writes(i, a, doc)
                            /\ alias' = {i} /\ alias \in {{}, {i}}
<1>1. alias \subseteq Targets /\ IsFiniteSet(alias) /\ Alias \in Targets
  BY DEF SearchInvariant, SearchTypes, Targets
<1>2. IsFiniteSet(Resolve) /\ Resolve \subseteq Targets
  BY <1>1, FS_Singleton DEF Resolve
<1>3. Cardinality(Resolve) = 1 /\ alias' = Resolve
      /\ \E i \in Resolve : Writes(i, a, doc)
  BY DEF WritesToAlias
<1>4. PICK i : Resolve = {i}
  BY <1>2, <1>3, FS_Singleton
<1>5. Writes(i, a, doc) /\ i \in Targets /\ alias' = {i}
  BY <1>2, <1>3, <1>4
<1>6. alias \in {{}, {i}}
  BY <1>4 DEF Resolve
<1> QED  BY <1>5, <1>6

(* A write that brings a row up to date, or leaves its event to come, keeps*)
(* the indices fresh.                                                      *)
LEMMA WriteKeepsFresh ==
  ASSUME SearchInvariant, version' = version, NEW i \in Targets,
         NEW j \in Targets, NEW b \in Activities,
         NEW a \in Activities, NEW doc \in Documents,
         Writes(i, a, doc), Behind(doc, a),
         pending'[b] = pending[b],
         Fresh(j, b)
  PROVE  Fresh(j, b)'
<1>1. SameVersion(j, b) => SameVersion(j, b)'
  BY Written
<1> QED  BY <1>1 DEF Fresh, SameVersion

(* A row that is not there is not in an index either.                      *)
LEMMA RowsUnwrittenAreFresh ==
  ASSUME SearchInvariant, NEW i \in Targets, NEW a \in Activities,
         version[a] = NoRow
  PROVE  Fresh(i, a)
<1>1. /\ docs[i][a].version <= docs[i][a].tags /\ docs[i][a].tags <= version[a]
      /\ docs[i][a] \in Documents /\ version[a] \in Versions
  BY DEF SearchInvariant, SearchTypes, DocsBehind, Behind
<1>2. docs[i][a].version \in Versions /\ docs[i][a].tags \in Versions
  BY <1>1 DEF Documents
<1>3. docs[i][a].version = version[a]
  BY <1>1, <1>2
<1> QED  BY <1>3 DEF Fresh, SameVersion

LEMMA NothingHandledIsFresh ==
  ASSUME SearchInvariant, alias = {}
  PROVE  \A i \in Targets, a \in Activities : Fresh(i, a)
<1>1. \A a \in Activities : version[a] \in Versions
  BY DEF SearchInvariant, SearchTypes
<1> QED  BY <1>1, RowsUnwrittenAreFresh
         DEF SearchInvariant, NothingHandled, Fresh, SameVersion

-----------------------------------------------------------------------------
(* The rows and the servers.                                               *)

LEMMA ChangeKeeps ==
  ASSUME SearchInvariant, NEW a \in Activities, Change(a)
  PROVE  SearchInvariant'
<1> USE DEF SearchInvariant, SearchTypes
<1>1. /\ version' = [version EXCEPT ![a] = version[a] + 1]
      /\ pending' = [pending EXCEPT ![a] = pending[a] \cup {version[a] + 1}]
      /\ UNCHANGED <<docs, alias, healthy, server, hand, job>>
  BY DEF Change, elastic, reindex
<1>2. /\ version[a] \in Versions
      /\ version'[a] = version[a] + 1
      /\ pending'[a] = pending[a] \cup {version[a] + 1}
      /\ \A b \in Activities : b # a => version'[b] = version[b]
                                        /\ pending'[b] = pending[b]
      /\ \A b \in Activities : version[b] \in Versions /\ version'[b] \in Versions
                               /\ version[b] <= version'[b]
  BY <1>1
<1>3. SearchTypes'
  BY <1>1, <1>2
<1>4. EventsOfRows'
  BY <1>1, <1>2 DEF EventsOfRows
<1>5. \A b \in Activities, doc \in Documents :
          Behind(doc, b) => Behind(doc, b)'
  BY <1>2 DEF Behind, Documents
<1>6. DocsBehind'
  <2>1. \A i \in Targets, b \in Activities : docs[i][b] \in Documents
    OBVIOUS
  <2> QED  BY <1>1, <1>5, <2>1 DEF DocsBehind, Behind
<1>7. HandsBehind'
  <2>1. SUFFICES ASSUME NEW s \in Servers, server[s] \in {"tags", "index"}
                 PROVE  /\ hand[s].activity \in Activities
                        /\ hand[s].event <= hand[s].doc.version
                        /\ hand[s].doc.version <= version'[hand[s].activity]
                        /\ server[s] = "index" =>
                              /\ hand[s].doc.version <= hand[s].doc.tags
                              /\ hand[s].doc.tags <= version'[hand[s].activity]
    BY <1>1 DEF HandsBehind, Behind
  <2>2. /\ hand[s].activity \in Activities
        /\ hand[s].event <= hand[s].doc.version
        /\ hand[s].doc.version <= version[hand[s].activity]
        /\ server[s] = "index" =>
              /\ hand[s].doc.version <= hand[s].doc.tags
              /\ hand[s].doc.tags <= version[hand[s].activity]
    BY <2>1 DEF HandsBehind, Behind
  <2>3. hand[s].doc.version \in Versions /\ hand[s].doc.tags \in Versions
    BY DEF Documents
  <2> QED  BY <1>2, <2>2, <2>3
<1>8. BatchBehind'
  <2>1. \A p \in job.batch : p[1] \in Activities /\ p[2] \in Nat
    BY DEF Jobs
  <2> QED  BY <1>1, <1>2, <2>1 DEF BatchBehind
<1>9. \A i \in Targets, b \in Activities : Fresh(i, b) => Fresh(i, b)'
  BY <1>1, <1>2 DEF Fresh, SameVersion
<1>10. NothingHandled' /\ IndexIsFresh'
  BY <1>1, <1>2, <1>9 DEF NothingHandled, IndexIsFresh
<1>11. ScanMakesFresh'
  <2>1. SUFFICES ASSUME NEW i \in Targets, NEW b \in Activities,
                        alias = {i}, job.stage = "compensate", ~Fresh(i, b)'
                 PROVE  b > job.after \/ <<b, version'[b]>> \in job.batch
    BY <1>1 DEF ScanMakesFresh
  <2>2. b # a
    BY <1>1, <1>2, <2>1 DEF Fresh, SameVersion
  <2> QED  BY <1>2, <1>9, <2>1, <2>2 DEF ScanMakesFresh
<1> QED  BY <1>3, <1>4, <1>6, <1>7, <1>8, <1>10, <1>11

(* What a server does without a record in hand, and how it loses one.      *)
LEMMA ServerKeeps ==
  ASSUME SearchInvariant, NEW s \in Servers,
         \/ EnsureActivityIndex(s) \/ IndexRefused(s)
         \/ HandleFails(s) \/ Crash(s)
  PROVE  SearchInvariant'
<1> USE DEF SearchInvariant, SearchTypes
<1>1. PICK to \in {"start", "add", "idle"} :
         /\ server' = [server EXCEPT ![s] = to]
         /\ hand' \in {hand, [hand EXCEPT ![s] = NoEvent]}
         /\ UNCHANGED <<version, pending, docs, alias, healthy, job>>
  BY DEF EnsureActivityIndex, IndexRefused, HandleFails, Crash, HandleAgain,
         Goes, rows, elastic, reindex
<1>2. NoEvent \in [activity : Activities \cup {0}, event : Nat,
                   doc : Documents]
  BY DEF NoEvent, None, Documents
<1>3. SearchTypes'
  BY <1>1, <1>2
<1>4. EventsOfRows' /\ DocsBehind' /\ BatchBehind'
  BY <1>1 DEF EventsOfRows, DocsBehind, BatchBehind, Behind
<1>5. HandsBehind'
  BY <1>1 DEF HandsBehind, Behind
<1>6. NothingHandled' /\ IndexIsFresh' /\ ScanMakesFresh'
  BY <1>1 DEF NothingHandled, IndexIsFresh, ScanMakesFresh, Fresh, SameVersion
<1> QED  BY <1>3, <1>4, <1>5, <1>6

LEMMA AddAliasKeeps ==
  ASSUME SearchInvariant, NEW s \in Servers, AddAlias(s)
  PROVE  SearchInvariant'
<1> USE DEF SearchInvariant, SearchTypes
<1>1. /\ server' = [server EXCEPT ![s] = "idle"]
      /\ alias' \in {alias, alias \cup {FirstIndex}}
      /\ UNCHANGED <<version, pending, docs, healthy, hand, job>>
  BY DEF AddAlias, Goes, rows, reindex
<1>2. FirstIndex \in Targets /\ IsFiniteSet(alias \cup {FirstIndex})
  BY SearchAssumption, FS_AddElement DEF Targets
<1>3. SearchTypes'
  BY <1>1, <1>2
<1>4. EventsOfRows' /\ DocsBehind' /\ BatchBehind'
  BY <1>1 DEF EventsOfRows, DocsBehind, BatchBehind, Behind
<1>5. HandsBehind'
  BY <1>1 DEF HandsBehind, Behind
<1>6. \A i \in Targets : alias' = {i} => alias = {i} \/ alias = {}
  BY <1>1
<1>7. alias = {} => \A i \in Targets, a \in Activities : Fresh(i, a)
  BY NothingHandledIsFresh
<1>8. \A i \in Targets, a \in Activities : Fresh(i, a) => Fresh(i, a)'
  BY <1>1 DEF Fresh, SameVersion
<1>9. NothingHandled'
  BY <1>1 DEF NothingHandled
<1>10. IndexIsFresh' /\ ScanMakesFresh'
  BY <1>1, <1>6, <1>7, <1>8 DEF IndexIsFresh, ScanMakesFresh
<1> QED  BY <1>3, <1>4, <1>5, <1>9, <1>10

LEMMA HandleEventKeeps ==
  ASSUME SearchInvariant, NEW s \in Servers, NEW a \in Activities,
         HandleEvent(s, a)
  PROVE  SearchInvariant'
<1> USE DEF SearchInvariant, SearchTypes
<1>1. PICK e, h :
         /\ e = Min(pending[a]) /\ pending[a] # {}
         /\ h = [activity |-> a, event |-> e,
                 doc |-> [version |-> version[a], tags |-> NoRow]]
         /\ server' = [server EXCEPT ![s] = "tags"]
         /\ hand' = [hand EXCEPT ![s] = h]
         /\ UNCHANGED <<version, pending, docs, alias, healthy, job>>
  BY DEF HandleEvent, Goes, rows, elastic, reindex
<1>2. e \in pending[a] /\ e \in Nat /\ version[a] \in Versions
  BY <1>1, MinIsThere
<1>3. e <= version[a]
  BY <1>2 DEF EventsOfRows
<1>4. h \in [activity : Activities \cup {0}, event : Nat, doc : Documents]
  BY <1>1, <1>2 DEF Documents
<1>5. SearchTypes'
  BY <1>1, <1>4
<1>6. EventsOfRows' /\ DocsBehind' /\ BatchBehind'
  BY <1>1 DEF EventsOfRows, DocsBehind, BatchBehind, Behind
<1>7. HandsBehind'
  <2>1. hand'[s] = h /\ server'[s] = "tags"
    BY <1>1
  <2>2. \A k \in Servers : k # s => /\ hand'[k] = hand[k]
                                    /\ server'[k] = server[k]
    BY <1>1
  <2>3. h.activity \in Activities /\ h.event <= h.doc.version
        /\ h.doc.version <= version[h.activity]
    BY <1>1, <1>2, <1>3
  <2> QED  BY <1>1, <2>1, <2>2, <2>3 DEF HandsBehind, Behind
<1>8. NothingHandled' /\ IndexIsFresh' /\ ScanMakesFresh'
  BY <1>1 DEF NothingHandled, IndexIsFresh, ScanMakesFresh, Fresh, SameVersion
<1> QED  BY <1>5, <1>6, <1>7, <1>8

LEMMA ReadTagsKeeps ==
  ASSUME SearchInvariant, NEW s \in Servers, ReadTags(s)
  PROVE  SearchInvariant'
<1> USE DEF SearchInvariant, SearchTypes
<1>1. /\ server[s] = "tags" /\ server' = [server EXCEPT ![s] = "index"]
      /\ hand' = [hand EXCEPT ![s].doc.tags = version[hand[s].activity]]
      /\ UNCHANGED <<version, pending, docs, alias, healthy, job>>
  BY DEF ReadTags, Goes, rows, elastic, reindex
<1>2. PICK h, a : h = hand[s] /\ a = h.activity
  OBVIOUS
<1>3. /\ h \in [activity : Activities \cup {0}, event : Nat, doc : Documents]
      /\ a \in Activities /\ h.event <= h.doc.version
      /\ h.doc.version <= version[a] /\ version[a] \in Versions
  BY <1>1, <1>2 DEF HandsBehind
<1>4. PICK d, g : /\ d = [h.doc EXCEPT !.tags = version[a]]
                  /\ g = [h EXCEPT !.doc = d]
  OBVIOUS
<1>5. /\ g \in [activity : Activities \cup {0}, event : Nat, doc : Documents]
      /\ g.activity = a /\ g.event = h.event
      /\ g.doc.version = h.doc.version /\ g.doc.tags = version[a]
  <2>1. h.doc \in Documents
    BY <1>3
  <2>2. d \in Documents /\ d.version = h.doc.version /\ d.tags = version[a]
    BY <1>3, <1>4, <2>1 DEF Documents
  <2> QED  BY <1>2, <1>3, <1>4, <2>2
<1>6. hand' = [hand EXCEPT ![s] = g]
  BY <1>1, <1>2, <1>4
<1>7. SearchTypes'
  BY <1>1, <1>5, <1>6
<1>8. EventsOfRows' /\ DocsBehind' /\ BatchBehind'
  BY <1>1 DEF EventsOfRows, DocsBehind, BatchBehind, Behind
<1>9. HandsBehind'
  <2>1. hand'[s] = g
    BY <1>6
  <2>2. \A k \in Servers : k # s => /\ hand'[k] = hand[k]
                                    /\ server'[k] = server[k]
    BY <1>1, <1>6
  <2>3. version[a] <= version[a]
    BY <1>3
  <2> QED  BY <1>1, <1>2, <1>3, <1>5, <2>1, <2>2, <2>3 DEF HandsBehind, Behind
<1>10. NothingHandled' /\ IndexIsFresh' /\ ScanMakesFresh'
  BY <1>1 DEF NothingHandled, IndexIsFresh, ScanMakesFresh, Fresh, SameVersion
<1> QED  BY <1>7, <1>8, <1>9, <1>10

-----------------------------------------------------------------------------
LEMMA IndexDocumentKeeps ==
  ASSUME SearchInvariant, NEW s \in Servers, IndexDocument(s)
  PROVE  SearchInvariant'
<1> USE DEF SearchInvariant, SearchTypes
<1>1. PICK h, a : h = hand[s] /\ a = h.activity
  OBVIOUS
<1>2. /\ server[s] = "index"
      /\ WritesToAlias(a, h.doc)
      /\ server' = [server EXCEPT ![s] = "idle"]
      /\ hand' = [hand EXCEPT ![s] = NoEvent]
      /\ \/ pending' = [pending EXCEPT ![a] = @ \ {h.event}]
         \/ pending' = pending
      /\ UNCHANGED <<version, healthy, job>>
  BY <1>1 DEF IndexDocument, Goes, reindex
<1>3. /\ a \in Activities /\ h.event <= h.doc.version
      /\ h.doc.version <= version[a] /\ Behind(h.doc, a)
      /\ h.doc \in Documents /\ h.event \in Nat
  BY <1>1, <1>2 DEF HandsBehind
<1>4. PICK i \in Targets : /\ Writes(i, a, h.doc)
                           /\ alias' = {i} /\ alias \in {{}, {i}}
  BY <1>2, <1>3, WrittenToAlias
<1>5. /\ docs' \in [Targets -> [Activities -> Documents]]
      /\ docs'[i][a] = h.doc /\ DocsBehind'
      /\ \A j \in Targets, b \in Activities :
            SameVersion(j, b) => SameVersion(j, b)'
  BY <1>2, <1>3, <1>4, Written
<1>6. NoEvent \in [activity : Activities \cup {0}, event : Nat,
                   doc : Documents]
  BY DEF NoEvent, None, Documents
<1>7. SearchTypes'
  <2>1. alias' \subseteq Targets /\ IsFiniteSet(alias')
    BY <1>4, FS_Singleton
  <2>2. pending' \in [Activities -> SUBSET Nat]
    BY <1>2
  <2>3. hand' \in [Servers -> [activity : Activities \cup {0}, event : Nat,
                               doc : Documents]]
    BY <1>2, <1>6
  <2> QED  BY <1>2, <1>5, <2>1, <2>2, <2>3
<1>8. EventsOfRows' /\ BatchBehind'
  BY <1>2 DEF EventsOfRows, BatchBehind
<1>9. HandsBehind'
  BY <1>2 DEF HandsBehind, Behind
<1>10. NothingHandled'
  BY <1>4 DEF NothingHandled
<1>11. ASSUME NEW b \in Activities, Fresh(i, b)
       PROVE  Fresh(i, b)'
  <2>1. CASE SameVersion(i, b)
    BY <1>2, <1>5, <2>1 DEF Fresh, SameVersion
  <2>2. CASE version[b] \in pending[b] /\ version[b] \in pending'[b]
    BY <1>2, <2>2 DEF Fresh, SameVersion
  <2>3. CASE version[b] \in pending[b] /\ version[b] \notin pending'[b]
    <3>1. b = a /\ version[a] = h.event
      BY <1>2, <2>3
    <3>2. h.doc.version \in Versions /\ version[a] \in Versions
      BY <1>3 DEF Documents
    <3>3. PICK v, e, w : v = h.doc.version /\ e = h.event /\ w = version[a]
      OBVIOUS
    <3>4. v \in Versions /\ w \in Versions /\ e \in Nat /\ e <= v /\ v <= w /\ w = e
      BY <1>3, <3>1, <3>2, <3>3
    <3>5. v = w
      BY <3>4
    <3>6. h.doc.version = version[a]
      BY <3>3, <3>5, Zenon
    <3> QED  BY <1>2, <1>5, <3>1, <3>6 DEF Fresh, SameVersion
  <2> QED  BY <1>11, <2>1, <2>2, <2>3 DEF Fresh, SameVersion
<1>12. alias = {} => \A b \in Activities : Fresh(i, b)
  BY NothingHandledIsFresh
<1>13. IndexIsFresh' /\ ScanMakesFresh'
  BY <1>2, <1>4, <1>11, <1>12 DEF IndexIsFresh, ScanMakesFresh
<1> QED  BY <1>5, <1>7, <1>8, <1>9, <1>10, <1>13

-----------------------------------------------------------------------------
(* The reindex command.                                                    *)

(* Steps that neither read rows nor write documents.                       *)
LEMMA JobKeeps ==
  ASSUME SearchInvariant,
         \/ \E t \in Indices : JobStart(t)
         \/ Built \/ Check \/ IndexRowRefused \/ JobFails
  PROVE  SearchInvariant'
<1> USE DEF SearchInvariant, SearchTypes
<1>1. UNCHANGED <<version, pending, docs, alias, healthy, server, hand>>
  BY DEF JobStart, Built, Check, IndexRowRefused, JobFails, rows, elastic
<1>2. NoJob \in Jobs /\ NoJob.batch = {} /\ NoJob.stage = "off"
  BY DEF NoJob, Jobs, Targets
<1>3. /\ job' \in Jobs /\ job'.batch \in {{}, job.batch}
      /\ job'.stage # "compensate"
  <2>1. ASSUME NEW t \in Indices, JobStart(t)
        PROVE  <1>3!:
    <3>1. job' = [NoJob EXCEPT !.stage = "build", !.target = t]
      BY <2>1 DEF JobStart
    <3> QED  BY <1>2, <3>1 DEF Jobs, Targets
  <2>2. CASE Built
    BY <2>2 DEF Built, Jobs
  <2>3. CASE Check
    <3>1. job' \in {NoJob, [job EXCEPT !.stage = "switch"]}
      BY <2>3 DEF Check
    <3> QED  BY <1>2, <3>1 DEF Jobs
  <2>4. CASE IndexRowRefused \/ JobFails
    BY <1>2, <2>4 DEF IndexRowRefused, JobFails
  <2> QED  BY <2>1, <2>2, <2>3, <2>4
<1>4. SearchTypes'
  BY <1>1, <1>3
<1>5. /\ EventsOfRows' /\ DocsBehind' /\ HandsBehind' /\ BatchBehind'
      /\ NothingHandled' /\ IndexIsFresh' /\ ScanMakesFresh'
  BY <1>1, <1>3 DEF EventsOfRows, DocsBehind, HandsBehind, BatchBehind,
     Behind, NothingHandled, IndexIsFresh, ScanMakesFresh, Fresh, SameVersion
<1> QED  BY <1>4, <1>5

LEMMA ListKeeps ==
  ASSUME SearchInvariant, ListForSearchRebuild
  PROVE  SearchInvariant'
<1> USE DEF SearchInvariant, SearchTypes
<1>1. PICK rest, page :
         /\ rest = {a \in Created : a > job.after}
         /\ page = {a \in rest : Cardinality({b \in rest : b < a}) < BatchSize}
         /\ job.batch = {} /\ page # {}
         /\ job' = [job EXCEPT !.after = Max(page),
                               !.batch = {<<a, version[a]>> : a \in page}]
         /\ UNCHANGED <<version, pending, docs, alias, healthy, server, hand>>
  BY DEF ListForSearchRebuild, rows, elastic
<1>2. /\ page \subseteq rest /\ rest \subseteq Activities
      /\ Activities \subseteq Nat /\ IsFiniteSet(rest) /\ IsFiniteSet(page)
  <2>1. /\ page \subseteq rest /\ rest \subseteq Activities
        /\ Activities \subseteq Nat /\ IsFiniteSet(Activities)
    BY <1>1, SearchAssumption DEF Created
  <2> QED  BY <2>1, FS_Subset
<1>3. PICK m : m = Max(page)
  OBVIOUS
<1>4. m \in page /\ m \in Nat
  BY <1>1, <1>2, <1>3, MaxIsThere
<1>5. /\ job' \in Jobs /\ job'.stage = job.stage /\ job'.after = m
      /\ job'.batch = {<<a, version[a]>> : a \in page}
  <2>1. \A a \in page : a \in Activities /\ version[a] \in Nat
    BY <1>1, <1>2 DEF Created
  <2>2. {<<a, version[a]>> : a \in page} \in SUBSET (Activities \X Nat)
    BY <2>1
  <2> QED  BY <1>1, <1>3, <1>4, <2>2 DEF Jobs
<1>6. ASSUME NEW a \in rest, a <= m
      PROVE  a \in page
  <2>1. PICK A, M : A = {b \in rest : b < a} /\ M = {b \in rest : b < m}
    OBVIOUS
  <2>2. A \subseteq M /\ IsFiniteSet(M)
    <3>1. \A b \in rest : b \in Nat
      BY <1>2
    <3>2. A \subseteq M
      BY <1>4, <1>6, <2>1, <3>1
    <3>3. M \subseteq rest
      BY <2>1
    <3> QED  BY <1>2, <3>2, <3>3, FS_Subset
  <2>3. /\ Cardinality(A) \in Nat /\ Cardinality(M) \in Nat
        /\ Cardinality(A) <= Cardinality(M)
    BY <2>2, FS_Subset, FS_CardinalityType
  <2>4. Cardinality(M) < BatchSize /\ BatchSize \in Nat
    BY <1>1, <1>4, <2>1, SearchAssumption
  <2>5. Cardinality(A) < BatchSize
    BY <2>3, <2>4
  <2> QED  BY <1>1, <2>1, <2>5
<1>7. SearchTypes'
  BY <1>1, <1>5
<1>8. /\ EventsOfRows' /\ DocsBehind' /\ HandsBehind'
      /\ NothingHandled' /\ IndexIsFresh'
  BY <1>1 DEF EventsOfRows, DocsBehind, HandsBehind, Behind, NothingHandled,
     IndexIsFresh, Fresh, SameVersion
<1>9. BatchBehind'
  <2>1. \A a \in page : version[a] \in Versions
    BY <1>2
  <2>2. SUFFICES ASSUME NEW p \in job'.batch
                 PROVE  p[2] <= version[p[1]]
    BY <1>1 DEF BatchBehind
  <2>3. PICK a \in page : p = <<a, version[a]>>
    BY <1>5
  <2>4. p[1] = a /\ p[2] = version[a] /\ version[a] <= version[a]
    BY <2>1, <2>3
  <2> QED  BY <2>4
<1>10. ScanMakesFresh'
  <2>1. SUFFICES ASSUME NEW i \in Targets, NEW a \in Activities,
                        alias = {i}, job.stage = "compensate",
                        ~Fresh(i, a), ~(a > m)
                 PROVE  <<a, version[a]>> \in job'.batch
    BY <1>1, <1>5 DEF ScanMakesFresh, Fresh, SameVersion
  <2>2. a > job.after
    BY <1>1, <2>1 DEF ScanMakesFresh
  <2>3. version[a] # NoRow
    BY <2>1, RowsUnwrittenAreFresh
  <2>4. a \in rest /\ a <= m
    BY <1>1, <1>2, <1>4, <2>1, <2>2, <2>3 DEF Created
  <2> QED  BY <1>5, <1>6, <2>4
<1> QED  BY <1>7, <1>8, <1>9, <1>10

LEMMA IndexRowKeeps ==
  ASSUME SearchInvariant, IndexRow
  PROVE  SearchInvariant'
<1> USE DEF SearchInvariant, SearchTypes
<1>1. PICK p, doc : p = First(job.batch) /\ doc = Document(p)
  OBVIOUS
<1>2. /\ Scanning /\ job.batch # {}
      /\ IF job.stage = "build"
           THEN Writes(job.target, p[1], doc) /\ UNCHANGED alias
           ELSE WritesToAlias(p[1], doc)
      /\ job' = [job EXCEPT !.batch = @ \ {p}, !.count = @ + 1]
      /\ UNCHANGED <<version, pending, healthy, server, hand>>
  BY <1>1 DEF IndexRow, rows
<1>3. p \in job.batch /\ p \in Activities \X Nat
  BY <1>1, <1>2, FirstIsThere
<1>4. PICK a, n : a = p[1] /\ n = p[2]
  OBVIOUS
<1>5. /\ a \in Activities /\ n \in Nat /\ n <= version[a] /\ p = <<a, n>>
      /\ version[a] \in Versions
  BY <1>3, <1>4 DEF BatchBehind
<1>6. doc \in Documents /\ Behind(doc, a) /\ doc.version = n
  BY <1>1, <1>4, <1>5 DEF Document, Documents, Behind
<1>7. PICK i \in Targets :
         /\ Writes(i, a, doc)
         /\ \/ job.stage = "build" /\ alias' = alias
            \/ job.stage # "build" /\ alias' = {i} /\ alias \in {{}, {i}}
  <2>1. job.target \in Targets
    BY DEF Jobs
  <2>2. CASE job.stage = "build"
    BY <1>2, <1>4, <2>1, <2>2
  <2>3. CASE job.stage # "build"
    BY <1>2, <1>4, <1>5, <2>3, WrittenToAlias
  <2> QED  BY <2>2, <2>3
<1>8. /\ docs' \in [Targets -> [Activities -> Documents]]
      /\ docs'[i][a] = doc /\ DocsBehind'
  BY <1>2, <1>5, <1>6, <1>7, Written
<1>9. job' \in Jobs /\ job'.stage = job.stage /\ job'.after = job.after
      /\ job'.batch = job.batch \ {p}
  <2>1. job.batch \ {p} \in SUBSET (Activities \X Nat) /\ job.count + 1 \in Nat
    BY DEF Jobs
  <2> QED  BY <1>2, <2>1 DEF Jobs
<1>10. SearchTypes'
  <2>1. alias' \subseteq Targets /\ IsFiniteSet(alias')
    <3>1. IsFiniteSet({i}) /\ {i} \subseteq Targets
      BY FS_Singleton
    <3> QED  BY <1>7, <3>1
  <2> QED  BY <1>2, <1>8, <1>9, <2>1
<1>11. EventsOfRows' /\ HandsBehind' /\ BatchBehind'
  BY <1>2, <1>9 DEF EventsOfRows, HandsBehind, Behind, BatchBehind
<1>12. ASSUME NEW j \in Targets, NEW b \in Activities, Fresh(j, b)
       PROVE  Fresh(j, b)'
  BY <1>2, <1>5, <1>6, <1>7, <1>12, WriteKeepsFresh
<1>13. NothingHandled'
  BY <1>2, <1>7 DEF NothingHandled
<1>14. alias = {} => \A j \in Targets, b \in Activities : Fresh(j, b)
  BY NothingHandledIsFresh
<1>15. IndexIsFresh'
  BY <1>2, <1>7, <1>12, <1>14 DEF IndexIsFresh
<1>16. ScanMakesFresh'
  <2>1. SUFFICES ASSUME NEW j \in Targets, NEW b \in Activities,
                        alias' = {j}, job'.stage = "compensate",
                        ~Fresh(j, b)', ~(b > job'.after)
                 PROVE  <<b, version'[b]>> \in job'.batch
    BY DEF ScanMakesFresh
  <2>2. job.stage = "compensate" /\ j = i /\ alias = {j} /\ ~Fresh(j, b)
    BY <1>7, <1>9, <1>12, <1>14, <2>1
  <2>3. <<b, version[b]>> \in job.batch
    BY <1>9, <2>1, <2>2 DEF ScanMakesFresh
  <2>4. <<b, version[b]>> # p
    <3>1. SUFFICES ASSUME <<b, version[b]>> = p
                   PROVE  FALSE
      OBVIOUS
    <3>2. b = a /\ version[a] = n
      BY <1>5, <3>1
    <3> QED  BY <1>2, <1>6, <1>8, <2>1, <2>2, <3>2 DEF Fresh, SameVersion
  <2> QED  BY <1>2, <1>9, <2>3, <2>4
<1> QED  BY <1>8, <1>10, <1>11, <1>13, <1>15, <1>16

LEMMA SwitchKeeps ==
  ASSUME SearchInvariant, SwitchAlias
  PROVE  SearchInvariant'
<1> USE DEF SearchInvariant, SearchTypes
<1>1. /\ UNCHANGED <<version, pending, docs, server, hand>>
      /\ \/ job' = NoJob /\ UNCHANGED <<alias, healthy>>
         \/ /\ alias' = {job.target}
            /\ healthy' = (healthy /\ alias = alias')
            /\ job' = [job EXCEPT !.stage = "compensate", !.after = 0]
  BY DEF SwitchAlias, rows
<1>2. NoJob \in Jobs /\ NoJob.batch = {} /\ NoJob.stage = "off"
  BY DEF NoJob, Jobs, Targets
<1>3. CASE job' = NoJob /\ UNCHANGED <<alias, healthy>>
  BY <1>1, <1>2, <1>3 DEF EventsOfRows, DocsBehind, HandsBehind, BatchBehind,
     Behind, NothingHandled, IndexIsFresh, ScanMakesFresh, Fresh, SameVersion
<1>4. CASE /\ alias' = {job.target}
           /\ healthy' = (healthy /\ alias = alias')
           /\ job' = [job EXCEPT !.stage = "compensate", !.after = 0]
  <2>1. /\ job' \in Jobs /\ job'.batch = job.batch /\ job'.after = 0
        /\ job.target \in Targets
    BY <1>4 DEF Jobs
  <2>2. SearchTypes'
    <3>1. IsFiniteSet(alias') /\ alias' \subseteq Targets
      BY <1>4, <2>1, FS_Singleton
    <3>2. healthy' \in BOOLEAN
      BY <1>4
    <3> QED  BY <1>1, <2>1, <3>1, <3>2
  <2>3. EventsOfRows' /\ DocsBehind' /\ HandsBehind' /\ BatchBehind'
    BY <1>1, <2>1 DEF EventsOfRows, DocsBehind, HandsBehind, BatchBehind,
       Behind
  <2>4. NothingHandled'
    BY <1>4 DEF NothingHandled
  <2>5. IndexIsFresh'
    BY <1>1, <1>4 DEF IndexIsFresh, Fresh, SameVersion
  <2>6. ScanMakesFresh'
    <3>1. \A a \in Activities : a > 0
      BY SearchAssumption
    <3> QED  BY <2>1, <3>1 DEF ScanMakesFresh
  <2> QED  BY <2>2, <2>3, <2>4, <2>5, <2>6
<1> QED  BY <1>1, <1>3, <1>4

LEMMA CompensatedKeeps ==
  ASSUME SearchInvariant, Compensated
  PROVE  SearchInvariant'
<1> USE DEF SearchInvariant, SearchTypes
<1>1. /\ job.stage = "compensate" /\ job.batch = {}
      /\ {a \in Created : a > job.after} = {}
      /\ job' = NoJob /\ healthy' = TRUE
      /\ UNCHANGED <<version, pending, docs, alias, server, hand>>
  BY DEF Compensated, ScanEnds, rows
<1>2. NoJob \in Jobs /\ NoJob.batch = {} /\ NoJob.stage = "off"
  BY DEF NoJob, Jobs, Targets
<1>3. SearchTypes'
  BY <1>1, <1>2
<1>4. /\ EventsOfRows' /\ DocsBehind' /\ HandsBehind' /\ BatchBehind'
      /\ NothingHandled' /\ ScanMakesFresh'
  BY <1>1, <1>2 DEF EventsOfRows, DocsBehind, HandsBehind, BatchBehind,
     Behind, NothingHandled, ScanMakesFresh
<1>5. ASSUME NEW i \in Targets, NEW a \in Activities, alias = {i}
      PROVE  Fresh(i, a)
  <2>1. CASE version[a] # NoRow
    BY <1>1, <1>5, <2>1 DEF ScanMakesFresh, Created
  <2>2. CASE version[a] = NoRow
    BY <2>2, RowsUnwrittenAreFresh
  <2> QED  BY <2>1, <2>2
<1>6. IndexIsFresh'
  BY <1>1, <1>5 DEF IndexIsFresh, Fresh, SameVersion
<1> QED  BY <1>3, <1>4, <1>6

-----------------------------------------------------------------------------
LEMMA SearchStep == SearchInvariant /\ [Next]_vars => SearchInvariant'
<1> SUFFICES ASSUME SearchInvariant, [Next]_vars PROVE SearchInvariant'
  OBVIOUS
<1>1. CASE UNCHANGED vars
  BY <1>1 DEF vars, rows, elastic, reindex, SearchInvariant, SearchTypes,
     EventsOfRows, DocsBehind, HandsBehind, BatchBehind, Behind,
     NothingHandled, IndexIsFresh, ScanMakesFresh, Fresh, SameVersion
<1>2. ASSUME NEW s \in Servers, ServerStep(s)
      PROVE  SearchInvariant'
  BY <1>2, ServerKeeps, AddAliasKeeps, HandleEventKeeps, ReadTagsKeeps,
     IndexDocumentKeeps DEF ServerStep
<1>3. ASSUME NEW s \in Servers, HandleFails(s) \/ Crash(s)
      PROVE  SearchInvariant'
  BY <1>3, ServerKeeps
<1> QED
  BY <1>1, <1>2, <1>3, ChangeKeeps, JobKeeps, ListKeeps, IndexRowKeeps,
     SwitchKeeps, CompensatedKeeps DEF Next

LEMMA SearchInit == Init => SearchInvariant
<1> SUFFICES ASSUME Init PROVE SearchInvariant
  OBVIOUS
<1>1. None \in Documents /\ None.version = NoRow /\ None.tags = NoRow
  BY DEF None, Documents
<1>2. NoEvent \in [activity : Activities \cup {0}, event : Nat,
                   doc : Documents]
  BY <1>1 DEF NoEvent
<1>3. NoJob \in Jobs /\ NoJob.batch = {} /\ NoJob.stage = "off"
  BY DEF NoJob, Jobs, Targets
<1>4. SearchTypes
  BY <1>1, <1>2, <1>3, FS_EmptySet DEF Init, SearchTypes
<1>5. DocsBehind
  <2>1. ASSUME NEW i \in Targets, NEW a \in Activities
        PROVE  docs[i][a] = None /\ version[a] = NoRow
    BY DEF Init
  <2> QED  BY <1>1, <2>1 DEF DocsBehind, Behind
<1>6. /\ EventsOfRows /\ HandsBehind /\ BatchBehind
      /\ NothingHandled /\ IndexIsFresh /\ ScanMakesFresh
  BY <1>3 DEF Init, EventsOfRows, HandsBehind, BatchBehind, NothingHandled,
     IndexIsFresh, ScanMakesFresh
<1> QED  BY <1>4, <1>5, <1>6 DEF SearchInvariant

(* An index behind the alias whose events are handled is current, but for  *)
(* the first change of the row: its document is not ahead of the row, nor  *)
(* its version before that of its tags.                                    *)
LEMMA FreshIsCurrent ==
  ASSUME SearchInvariant, NEW i \in Targets, NEW a \in Activities,
         Fresh(i, a), Settled(a)
  PROVE  /\ Follows(docs[i][a], a)
         /\ docs[i][a].version \in Public <=> version[a] \in Public
<1>1. /\ docs[i][a] \in Documents
      /\ docs[i][a].version <= docs[i][a].tags
      /\ docs[i][a].tags <= version[a]
  BY DEF SearchInvariant, SearchTypes, DocsBehind, Behind
<1>2. /\ docs[i][a].version \in Versions /\ docs[i][a].tags \in Versions
      /\ version[a] \in Nat
  BY <1>1 DEF SearchInvariant, SearchTypes, Documents, Settled, Created
<1>3. ExternalVersion(docs[i][a].version) = ExternalVersion(version[a])
  <2>1. version[a] \notin pending[a]
    BY DEF Settled
  <2> QED  BY <2>1 DEF Fresh, SameVersion
<1>4. \/ docs[i][a].version = version[a]
      \/ docs[i][a].version \in {0, 1} /\ version[a] \in {0, 1}
  BY <1>2, <1>3 DEF ExternalVersion
<1>5. version[a] > 1 => docs[i][a] = Current(a)
  <2>1. SUFFICES ASSUME version[a] > 1
                 PROVE  docs[i][a] = Current(a)
    OBVIOUS
  <2>2. docs[i][a].version = version[a] /\ docs[i][a].tags = version[a]
    BY <1>1, <1>2, <1>4, <2>1
  <2> QED  BY <1>1, <2>2 DEF Documents, Current
<1>6. docs[i][a].version \in Public <=> version[a] \in Public
  <2>1. 0 \notin Public /\ 1 \notin Public
    BY SearchAssumption
  <2> QED  BY <1>4, <2>1
<1> QED  BY <1>3, <1>5, <1>6 DEF Follows

(* IndexFollowsRows: for any number of activities, servers and indices and *)
(* whatever fails, once the events of an activity are handled the index    *)
(* behind the alias holds its row and tags as they are, or as they were at *)
(* creation while it was changed once only, unless a switch is without its *)
(* second scan.                                                            *)
THEOREM IndexCorrect == Spec => []IndexFollowsRows
<1>1. SearchInvariant => IndexFollowsRows
  <2> SUFFICES ASSUME SearchInvariant, healthy, Cardinality(alias) = 1,
                      NEW a \in Activities, NEW i \in alias, Settled(a)
               PROVE  Follows(docs[i][a], a)
    BY DEF IndexFollowsRows
  <2>1. alias = {i} /\ i \in Targets
    BY FS_Singleton DEF SearchInvariant, SearchTypes
  <2>2. Fresh(i, a)
    BY <2>1 DEF SearchInvariant, IndexIsFresh
  <2> QED  BY <2>1, <2>2, FreshIsCurrent
<1> QED  BY <1>1, SearchInit, SearchStep, PTL DEF Spec

(* SearchShowsPublicRows: under the same condition a search, which trusts  *)
(* the index for what is public, shows a settled activity if and only if   *)
(* its row is public: a row is not public before its second change, so the *)
(* two versions the index cannot tell apart are both hidden.               *)
THEOREM SearchCorrect == Spec => []SearchShowsPublicRows
<1>1. SearchInvariant => SearchShowsPublicRows
  <2> SUFFICES ASSUME SearchInvariant, healthy, Cardinality(alias) <= 1,
                      NEW a \in Activities, Settled(a)
               PROVE  a \in Search <=> a \in PublicRows
    BY DEF SearchShowsPublicRows
  <2>1. CASE alias = {}
    BY <2>1 DEF Search
  <2>2. CASE alias # {}
    <3>1. IsFiniteSet(alias) /\ Cardinality(alias) \in Nat
          /\ Cardinality(alias) # 0
      BY <2>2, FS_CardinalityType, FS_EmptySet DEF SearchInvariant, SearchTypes
    <3>2. Cardinality(alias) = 1
      BY <3>1
    <3>3. PICK i : alias = {i}
      BY <3>1, <3>2, FS_Singleton
    <3>4. i \in Targets /\ Fresh(i, a)
      BY <3>3 DEF SearchInvariant, SearchTypes, IndexIsFresh
    <3>5. docs[i][a].version \in Public <=> version[a] \in Public
      BY <3>4, FreshIsCurrent
    <3> QED  BY <3>3, <3>5 DEF Search, PublicRows
  <2> QED  BY <2>1, <2>2
<1> QED  BY <1>1, SearchInit, SearchStep, PTL DEF Spec
=============================================================================

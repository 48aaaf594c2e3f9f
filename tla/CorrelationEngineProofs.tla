----------------------- MODULE CorrelationEngineProofs ----------------------
(***************************************************************************)
(* CorrelationEngine, proved for any observations, any table bounds, any   *)
(* windows and any clock: the two tables stay bounded and consistent, a    *)
(* finding is raised only on growth and called deterministic only on       *)
(* evidence, and the least recently seen targets are forgotten first.      *)
(***************************************************************************)
EXTENDS CorrelationEngine, SequenceTheorems, FiniteSetTheorems, TLAPS

SourceIds == {o.source_id : o \in Observations}
Paths     == {o.file_path : o \in Observations} \union {None}
Hashes    == {o.sha256 : o \in Observations} \union {None}

SourceState == [confidence : 0..100, deterministic : BOOLEAN, last_seen : Nat]
SourceTable == UNION {[D -> SourceState] : D \in SUBSET SourceIds}

ActiveState ==
  [last_seen           : Nat,
   sources             : {t \in SourceTable : IsFiniteSet(DOMAIN t)},
   file_path           : Paths,
   sha256              : Hashes,
   last_reported_score : 0..100,
   last_reported_level : ThreatLevel]

\* A finding as far as the engine itself is concerned.
FindingOK(f) == f.id \in Nat /\ f.risk_score \in 0..100 /\ f.level \in ThreatLevel

\* Every entry of the cache is an ActiveState and remembers the level of the
\* score it remembers.
ActiveOK ==
  /\ active = [k \in DOMAIN active |-> active[k]]
  /\ IsFiniteSet(DOMAIN active)
  /\ Cardinality(DOMAIN active) <= MAX_ACTIVE_KEYS
  /\ \A k \in DOMAIN active :
       /\ active[k] \in ActiveState
       /\ active[k].last_reported_level = level_for(active[k].last_reported_score)

\* Whoever counts as deterministic in the cache was seen to be.
EvidenceRemembered ==
  \A k \in DOMAIN active : any_source_deterministic(active[k].sources) => k \in detSeen

\* The history is a sequence of findings with consecutive ids.
HistoryOK ==
  /\ findings = [i \in 1..Len(findings) |-> findings[i]]
  /\ Len(findings) \in 0..MAX_FINDINGS
  /\ \A i \in 1..Len(findings) : FindingOK(findings[i])
  /\ FindingIdsConsecutive

CorrInv ==
  /\ now \in Nat
  /\ next_finding_id \in Nat \ {0}
  /\ detSeen \subseteq DOMAIN active
  /\ ActiveOK
  /\ EvidenceRemembered
  /\ HistoryOK

-----------------------------------------------------------------------------
(* Operators of the model.                                                 *)

\* Rounding half of a percentage up.
LEMMA PointsNatural == \A c \in 0..100 : Points(c) \in 0..50
BY DEF Points

\* The score of a finite table of sources is a number up to 100.
LEMMA ScoreInRange ==
  ASSUME NEW t \in SourceTable, IsFiniteSet(DOMAIN t)
  PROVE  score_for(t) \in 0..100
<1>1. \A s \in DOMAIN t : t[s].confidence \in 0..100
  BY DEF SourceTable, SourceState
<1>2. \A s \in DOMAIN t : Points(t[s].confidence) \in 0..50
  BY <1>1, PointsNatural
<1> DEFINE Few == 1..50
           D   == DOMAIN t
<1>3. ScorePoints(t) \subseteq D \X Few
  <2> SUFFICES ASSUME NEW s \in DOMAIN t, NEW p \in {s} \X (1..Points(t[s].confidence))
               PROVE  p \in D \X Few
    BY DEF ScorePoints
  <2>1. PICK n \in 1..Points(t[s].confidence) : p = <<s, n>>
    OBVIOUS
  <2>2. n \in Few /\ s \in D
    BY <1>2
  <2> HIDE DEF Few, D
  <2> QED
    BY <2>1, <2>2
<1>4. IsFiniteSet(Few)
  <2>1. 1 \in Int /\ 50 \in Int
    OBVIOUS
  <2> QED
    BY <2>1, FS_Interval, Zenon
<1>5. IsFiniteSet(ScorePoints(t))
  <2>1. IsFiniteSet(D)
    OBVIOUS
  <2> HIDE DEF Few, D
  <2>2. IsFiniteSet(D \X Few)
    BY <1>4, <2>1, FS_Product
  <2> QED
    BY <1>3, <2>2, FS_Subset
<1>6. Cardinality(ScorePoints(t)) \in Nat
  BY <1>5, FS_CardinalityType
<1> QED
  BY <1>6 DEF score_for

\* The level is defined for every score and grows with it.
LEMMA LevelOfScore ==
  ASSUME NEW a \in 0..100, NEW b \in 0..100
  PROVE  /\ level_for(a) \in ThreatLevel
         /\ a <= b => level_for(a) <= level_for(b)
BY DEF level_for, ThreatLevel, SAFE, LOW, MEDIUM, HIGH, CRITICAL

\* push_back with a bound: the newest is last, the others keep their order
\* and at most the oldest one is gone.
LEMMA PushEffect ==
  ASSUME NEW log, log = [i \in 1..Len(log) |-> log[i]], NEW bound \in Nat \ {0},
         Len(log) \in 0..bound, NEW x
  PROVE  LET new == PushBounded(log, x, bound)
         IN  /\ new = [i \in 1..Len(new) |-> new[i]]
             /\ Len(new) \in 1..bound
             /\ Len(new) \in {Len(log), Len(log) + 1}
             /\ new[Len(new)] = x
             /\ \A i \in 1..(Len(new) - 1) : new[i] = log[i + Len(log) + 1 - Len(new)]
<1> DEFINE S == {log[i] : i \in 1..Len(log)} \union {x}
           long == Append(log, x)
<1>1. log \in Seq(S)
  <2>1. \A i \in 1..Len(log) : log[i] \in S
    OBVIOUS
  <2> QED
    BY <2>1, IsASeq
<1>2. /\ long \in Seq(S)
      /\ Len(long) = Len(log) + 1
      /\ \A i \in 1..Len(log) : long[i] = log[i]
      /\ long[Len(long)] = x
  BY <1>1, AppendProperties
<1>3. CASE Len(long) > bound
  <2>1. PushBounded(log, x, bound) = Tail(long) /\ Len(log) = bound
    BY <1>2, <1>3 DEF PushBounded
  <2> HIDE DEF long, S
  <2>2. /\ Tail(long) \in Seq(S)
        /\ Len(Tail(long)) = Len(long) - 1
        /\ \A i \in 1..Len(Tail(long)) : Tail(long)[i] = long[i + 1]
    BY <1>2, HeadTailProperties
  <2>3. Tail(long) = [i \in 1..Len(Tail(long)) |-> Tail(long)[i]]
    BY <2>2, LenProperties
  <2> QED
    BY <1>2, <2>1, <2>2, <2>3
<1>4. CASE ~(Len(long) > bound)
  <2>1. PushBounded(log, x, bound) = long
    BY <1>4 DEF PushBounded
  <2> HIDE DEF long, S
  <2>2. long = [i \in 1..Len(long) |-> long[i]]
    BY <1>2, LenProperties
  <2>3. Len(long) \in 1..bound
    BY <1>2, <1>4
  <2>4. \A i \in 1..(Len(long) - 1) : long[i] = log[i + Len(log) + 1 - Len(long)]
    BY <1>2
  <2> QED
    BY <1>2, <2>1, <2>2, <2>3, <2>4
<1> QED
  BY <1>3, <1>4

\* A fresh entry is well formed.
LEMMA EmptyStateOK ==
  /\ EmptyState \in ActiveState
  /\ EmptyState.last_reported_level = level_for(EmptyState.last_reported_score)
  /\ ~any_source_deterministic(EmptyState.sources)
<1>1. <<>> \in SourceTable /\ DOMAIN <<>> = {}
  <2>1. <<>> \in [{} -> SourceState]
    OBVIOUS
  <2> QED
    BY <2>1 DEF SourceTable
<1>2. IsFiniteSet({})
  BY FS_EmptySet
<1>3. EmptyState \in ActiveState
  BY <1>1, <1>2 DEF EmptyState, ActiveState, Paths, Hashes, ThreatLevel, SAFE, CRITICAL
<1> QED
  BY <1>1, <1>3 DEF EmptyState, any_source_deterministic, level_for, SAFE

\* Taking an observation in keeps an entry well formed, leaves what was last
\* reported alone and adds no deterministic source but the observation's own.
LEMMA AbsorbOK ==
  ASSUME now \in Nat, NEW e \in ActiveState, NEW o \in Observations, o.wellFormed
  PROVE  /\ Absorb(e, o) \in ActiveState
         /\ Absorb(e, o).last_reported_score = e.last_reported_score
         /\ Absorb(e, o).last_reported_level = e.last_reported_level
         /\ any_source_deterministic(Absorb(e, o).sources) =>
              o.deterministic \/ any_source_deterministic(e.sources)
<1> DEFINE spoke == [confidence |-> o.confidence, deterministic |-> o.deterministic, last_seen |-> now]
           tab   == Put(e.sources, o.source_id, spoke)
<1>1. spoke \in SourceState
  BY ObservationConstants DEF SourceState
<1>2. PICK D \in SUBSET SourceIds : e.sources \in [D -> SourceState] /\ IsFiniteSet(D)
  BY DEF ActiveState, SourceTable
<1>3. o.source_id \in SourceIds
  BY DEF SourceIds
<1>4. tab \in [D \union {o.source_id} -> SourceState]
  <2> HIDE DEF spoke
  <2> QED
    BY <1>1, <1>2 DEF Put
<1>5. IsFiniteSet(D \union {o.source_id})
  BY <1>2, FS_AddElement
<1>6. tab \in {t \in SourceTable : IsFiniteSet(DOMAIN t)}
  <2> HIDE DEF tab
  <2>1. D \union {o.source_id} \in SUBSET SourceIds
    BY <1>2, <1>3
  <2>2. tab \in SourceTable
    BY <1>4, <2>1 DEF SourceTable
  <2> QED
    BY <1>4, <1>5, <2>2
<1>7. o.file_path \in Paths /\ o.sha256 \in Hashes
  BY DEF Paths, Hashes
<1>8. Absorb(e, o) = [e EXCEPT !.last_seen = now, !.sources = tab,
                               !.file_path = IF @ = None THEN o.file_path ELSE @,
                               !.sha256    = IF @ = None THEN o.sha256 ELSE @]
  BY DEF Absorb
<1>9. Absorb(e, o) \in ActiveState /\ Absorb(e, o).sources = tab
  <2> HIDE DEF tab
  <2> QED
    BY <1>6, <1>7, <1>8 DEF ActiveState
<1>10. any_source_deterministic(tab) => o.deterministic \/ any_source_deterministic(e.sources)
  BY <1>2 DEF any_source_deterministic, Put
<1> QED
  BY <1>8, <1>9, <1>10 DEF ActiveState

\* Expiry and eviction: what stays is a part of what is not expired, leaves
\* room for the key, keeps the key's own entry, and nothing that stays was
\* seen before something that was evicted.
LEMMA ResidentsOK ==
  ASSUME ActiveOK, NEW key, NEW R \in Residents(key)
  PROVE  /\ R \subseteq Unexpired
         /\ R \subseteq DOMAIN active
         /\ key \in R <=> key \in Unexpired
         /\ IsFiniteSet(R \union {key})
         /\ Cardinality(R \union {key}) <= MAX_ACTIVE_KEYS
         /\ \A gone \in Unexpired \ R, kept \in R : active[gone].last_seen <= active[kept].last_seen
<1>1. Unexpired \subseteq DOMAIN active
  BY DEF Unexpired
<1>2. IsFiniteSet(Unexpired) /\ Cardinality(Unexpired) <= Cardinality(DOMAIN active)
  BY <1>1, FS_Subset DEF ActiveOK
<1>3. Cardinality(Unexpired) \in Nat /\ Cardinality(DOMAIN active) \in Nat
  BY <1>2, FS_CardinalityType DEF ActiveOK
<1>4. Cardinality(Unexpired) <= MAX_ACTIVE_KEYS
  BY <1>2, <1>3, CorrelationConstants DEF ActiveOK
<1>5. CASE key \in Unexpired
  <2>1. R = Unexpired /\ R \union {key} = Unexpired
    BY <1>5 DEF Residents
  <2> QED
    BY <1>1, <1>2, <1>4, <1>5, <2>1
<1>6. CASE key \notin Unexpired
  <2>1. R \in AfterEviction(Unexpired)
    BY <1>6 DEF Residents
  <2>2. CASE Cardinality(Unexpired) < MAX_ACTIVE_KEYS
    <3>1. R = Unexpired
      BY <2>1, <2>2 DEF AfterEviction
    <3>2. IsFiniteSet(R \union {key}) /\ Cardinality(R \union {key}) = Cardinality(R) + 1
      BY <1>2, <1>6, <3>1, FS_AddElement
    <3> QED
      BY <1>1, <1>3, <1>6, <2>2, <3>1, <3>2, CorrelationConstants
  <2>3. CASE ~(Cardinality(Unexpired) < MAX_ACTIVE_KEYS)
    <3>1. PICK k \in Unexpired : /\ R = Unexpired \ {k}
                                 /\ \A y \in Unexpired : active[k].last_seen <= active[y].last_seen
      BY <2>1, <2>3 DEF AfterEviction
    <3>2. IsFiniteSet(R) /\ Cardinality(R) = Cardinality(Unexpired) - 1
      BY <1>2, <3>1, FS_RemoveElement
    <3>3. IsFiniteSet(R \union {key}) /\ Cardinality(R \union {key}) = Cardinality(R) + 1
      BY <1>6, <3>1, <3>2, FS_AddElement
    <3>4. Cardinality(R \union {key}) <= MAX_ACTIVE_KEYS
      BY <1>3, <1>4, <3>2, <3>3
    <3>5. R \subseteq Unexpired /\ key \notin R
      BY <1>6, <3>1
    <3>6. \A gone \in Unexpired \ R, kept \in R : active[gone].last_seen <= active[kept].last_seen
      BY <3>1
    <3> QED
      BY <1>1, <1>6, <3>3, <3>4, <3>5, <3>6
  <2> QED
    BY <2>2, <2>3
<1> QED
  BY <1>5, <1>6

\* The entry ingest() works on.
LEMMA EntryOK ==
  ASSUME CorrInv, NEW key, NEW R \in Residents(key)
  PROVE  /\ Entry(R, key) \in ActiveState
         /\ Entry(R, key).last_reported_level = level_for(Entry(R, key).last_reported_score)
         /\ any_source_deterministic(Entry(R, key).sources) => key \in detSeen \intersect R
<1>1. CASE key \in R
  <2>1. key \in DOMAIN active /\ Entry(R, key) = active[key]
    BY <1>1, ResidentsOK DEF CorrInv, Entry
  <2> QED
    BY <1>1, <2>1 DEF CorrInv, ActiveOK, EvidenceRemembered
<1>2. CASE key \notin R
  BY <1>2, EmptyStateOK DEF Entry
<1> QED
  BY <1>1, <1>2

-----------------------------------------------------------------------------
(* The inductive invariant.                                                *)

\* Storing a well-formed entry under its key, among the keys that stay.
LEMMA StoreOK ==
  ASSUME CorrInv, NEW o, NEW key, NEW R \in Residents(key), NEW e \in ActiveState,
         e.last_reported_level = level_for(e.last_reported_score),
         any_source_deterministic(e.sources) => o.deterministic \/ key \in detSeen \intersect R,
         active' = Put(Only(active, R), key, e),
         detSeen' = DetSeenAfter(R, key, o)
  PROVE  ActiveOK' /\ EvidenceRemembered' /\ detSeen' \subseteq DOMAIN active'
<1>1. /\ R \subseteq DOMAIN active
      /\ IsFiniteSet(R \union {key})
      /\ Cardinality(R \union {key}) <= MAX_ACTIVE_KEYS
  BY ResidentsOK DEF CorrInv
<1>2. /\ DOMAIN active' = R \union {key}
      /\ active' = [k \in DOMAIN active' |-> active'[k]]
      /\ active'[key] = e
      /\ \A k \in R \ {key} : active'[k] = active[k]
  BY DEF Put, Only
<1>3. ASSUME NEW k \in DOMAIN active'
      PROVE  /\ active'[k] \in ActiveState
             /\ active'[k].last_reported_level = level_for(active'[k].last_reported_score)
             /\ any_source_deterministic(active'[k].sources) => k \in detSeen'
  <2>1. CASE k = key
    BY <1>2, <2>1 DEF DetSeenAfter
  <2>2. CASE k # key
    <3>1. k \in R /\ k \in DOMAIN active /\ active'[k] = active[k]
      BY <1>1, <1>2, <1>3, <2>2
    <3> QED
      BY <3>1 DEF CorrInv, ActiveOK, EvidenceRemembered, DetSeenAfter
  <2> QED
    BY <2>1, <2>2
<1>4. ActiveOK'
  BY <1>1, <1>2, <1>3 DEF ActiveOK
<1>5. EvidenceRemembered'
  BY <1>3 DEF EvidenceRemembered
<1>6. detSeen' \subseteq DOMAIN active'
  BY <1>1, <1>2 DEF DetSeenAfter, CorrInv
<1> QED
  BY <1>4, <1>5, <1>6

\* The initial state.
LEMMA CorrInvInit == CorrInit => CorrInv
<1> SUFFICES ASSUME CorrInit PROVE CorrInv
  OBVIOUS
<1>1. ActiveOK /\ EvidenceRemembered
  <2>1. active = <<>> /\ DOMAIN active = {} /\ IsFiniteSet({}) /\ Cardinality({}) = 0
    BY FS_EmptySet DEF CorrInit
  <2> QED
    BY <2>1, CorrelationConstants DEF ActiveOK, EvidenceRemembered
<1>2. HistoryOK
  BY CorrelationConstants DEF CorrInit, HistoryOK, FindingIdsConsecutive
<1> QED
  BY <1>1, <1>2 DEF CorrInit, CorrInv

\* A duplicate report: only the expired entries go.
LEMMA DuplicateStep ==
  ASSUME CorrInv, NEW o \in Observations, IngestDuplicate(o)
  PROVE  CorrInv'
<1>1. Unexpired \subseteq DOMAIN active
  BY DEF Unexpired
<1>2. /\ DOMAIN active' = Unexpired
      /\ active' = [k \in DOMAIN active' |-> active'[k]]
      /\ \A k \in Unexpired : active'[k] = active[k]
      /\ detSeen' = detSeen \intersect Unexpired
      /\ UNCHANGED <<findings, next_finding_id, now>>
  BY DEF IngestDuplicate, Only
<1>3. IsFiniteSet(Unexpired) /\ Cardinality(Unexpired) <= MAX_ACTIVE_KEYS
  <2>1. IsFiniteSet(Unexpired) /\ Cardinality(Unexpired) <= Cardinality(DOMAIN active)
    BY <1>1, FS_Subset DEF CorrInv, ActiveOK
  <2>2. Cardinality(Unexpired) \in Nat /\ Cardinality(DOMAIN active) \in Nat
    BY <2>1, FS_CardinalityType DEF CorrInv, ActiveOK
  <2> QED
    BY <2>1, <2>2, CorrelationConstants DEF CorrInv, ActiveOK
<1>4. ActiveOK' /\ EvidenceRemembered' /\ detSeen' \subseteq DOMAIN active'
  BY <1>1, <1>2, <1>3 DEF CorrInv, ActiveOK, EvidenceRemembered
<1>5. HistoryOK'
  BY <1>2 DEF CorrInv, HistoryOK, FindingIdsConsecutive
<1> QED
  BY <1>2, <1>4, <1>5 DEF CorrInv

\* The three facts about the entry that both remaining outcomes store.
LEMMA AbsorbedEntry ==
  ASSUME CorrInv, NEW o \in Observations, o.wellFormed, NEW R \in Residents(correlation_key(o))
  PROVE  LET key   == correlation_key(o)
             state == Absorb(Entry(R, key), o)
         IN  /\ state \in ActiveState
             /\ state.last_reported_level = level_for(state.last_reported_score)
             /\ any_source_deterministic(state.sources) => o.deterministic \/ key \in detSeen \intersect R
             /\ state.last_reported_score = Entry(R, key).last_reported_score
             /\ score_for(state.sources) \in 0..100
<1> DEFINE key   == correlation_key(o)
           state == Absorb(Entry(R, key), o)
<1>1. /\ Entry(R, key) \in ActiveState
      /\ Entry(R, key).last_reported_level = level_for(Entry(R, key).last_reported_score)
      /\ any_source_deterministic(Entry(R, key).sources) => key \in detSeen \intersect R
  BY EntryOK
<1>2. /\ state \in ActiveState
      /\ state.last_reported_score = Entry(R, key).last_reported_score
      /\ state.last_reported_level = Entry(R, key).last_reported_level
      /\ any_source_deterministic(state.sources) =>
           o.deterministic \/ any_source_deterministic(Entry(R, key).sources)
  BY <1>1, AbsorbOK DEF CorrInv
<1>3. state.sources \in SourceTable /\ IsFiniteSet(DOMAIN state.sources)
  BY <1>2 DEF ActiveState
<1>4. score_for(state.sources) \in 0..100
  BY <1>3, ScoreInRange
<1> QED
  BY <1>1, <1>2, <1>4

\* A report that does not grow the score.
LEMMA QuietStep ==
  ASSUME CorrInv, NEW o \in Observations, IngestQuietly(o)
  PROVE  CorrInv'
<1> DEFINE key == correlation_key(o)
<1>1. PICK R \in Residents(key) :
        /\ active' = Put(Only(active, R), key, Absorb(Entry(R, key), o))
        /\ detSeen' = DetSeenAfter(R, key, o)
  BY DEF IngestQuietly
<1>2. o.wellFormed /\ UNCHANGED <<findings, next_finding_id, now>>
  BY DEF IngestQuietly
<1>3. ActiveOK' /\ EvidenceRemembered' /\ detSeen' \subseteq DOMAIN active'
  BY <1>1, <1>2, AbsorbedEntry, StoreOK
<1>4. HistoryOK'
  BY <1>2 DEF CorrInv, HistoryOK, FindingIdsConsecutive
<1> QED
  BY <1>2, <1>3, <1>4 DEF CorrInv

\* The last element of the new history is the finding that was pushed.
LEMMA FindingStored ==
  ASSUME CorrInv, NEW f, findings' = PushBounded(findings, f, MAX_FINDINGS)
  PROVE  /\ findings' = [i \in 1..Len(findings') |-> findings'[i]]
         /\ Len(findings') \in 1..MAX_FINDINGS
         /\ Raised = f
         /\ \A i \in 1..(Len(findings') - 1) :
              /\ i + Len(findings) + 1 - Len(findings') \in 1..Len(findings)
              /\ findings'[i] = findings[i + Len(findings) + 1 - Len(findings')]
<1>1. /\ findings = [i \in 1..Len(findings) |-> findings[i]]
      /\ Len(findings) \in 0..MAX_FINDINGS
      /\ MAX_FINDINGS \in Nat \ {0}
  BY CorrelationConstants DEF CorrInv, HistoryOK
<1>2. /\ findings' = [i \in 1..Len(findings') |-> findings'[i]]
      /\ Len(findings') \in 1..MAX_FINDINGS
      /\ Len(findings') \in {Len(findings), Len(findings) + 1}
      /\ findings'[Len(findings')] = f
      /\ \A i \in 1..(Len(findings') - 1) : findings'[i] = findings[i + Len(findings) + 1 - Len(findings')]
  BY <1>1, PushEffect
<1>3. \A i \in 1..(Len(findings') - 1) : i + Len(findings) + 1 - Len(findings') \in 1..Len(findings)
  <2> DEFINE m == Len(findings)
             n == Len(findings')
  <2>1. m \in Nat /\ n \in Nat /\ (n = m \/ n = m + 1)
    <3>1. m \in 0..MAX_FINDINGS /\ n \in 1..MAX_FINDINGS /\ n \in {m, m + 1}
      BY <1>1, <1>2
    <3> HIDE DEF m, n
    <3> QED
      BY <3>1, CorrelationConstants
  <2> HIDE DEF m, n
  <2>2. \A i \in 1..(n - 1) : i + m + 1 - n \in 1..m
    BY <2>1
  <2> QED
    BY <2>2 DEF m, n
<1> QED
  BY <1>2, <1>3 DEF Raised

\* What a step that raises a finding does, in one place.
LEMMA FindingEffect ==
  ASSUME CorrInv, NEW o \in Observations, IngestFinding(o)
  PROVE  \E R \in Residents(correlation_key(o)) :
           LET key   == correlation_key(o)
               state == Absorb(Entry(R, key), o)
           IN  /\ Grows(state)
               /\ active' = Put(Only(active, R), key, Reported(state))
               /\ detSeen' = DetSeenAfter(R, key, o)
               /\ findings' = PushBounded(findings, FindingOf(key, state), MAX_FINDINGS)
               /\ Raised = FindingOf(key, state)
<1>1. PICK R \in Residents(correlation_key(o)) :
        LET key   == correlation_key(o)
            state == Absorb(Entry(R, key), o)
        IN  /\ Grows(state)
            /\ active' = Put(Only(active, R), key, Reported(state))
            /\ detSeen' = DetSeenAfter(R, key, o)
            /\ findings' = PushBounded(findings, FindingOf(key, state), MAX_FINDINGS)
  BY DEF IngestFinding
<1>2. Raised = FindingOf(correlation_key(o), Absorb(Entry(R, correlation_key(o)), o))
  BY <1>1, FindingStored
<1> QED
  BY <1>1, <1>2

\* A report that grows the score: the entry remembers it, the history gets
\* one more finding with the next id.
LEMMA FindingStep ==
  ASSUME CorrInv, NEW o \in Observations, IngestFinding(o)
  PROVE  CorrInv'
<1> DEFINE key == correlation_key(o)
<1>1. PICK R \in Residents(key) :
        LET state == Absorb(Entry(R, key), o)
        IN  /\ active' = Put(Only(active, R), key, Reported(state))
            /\ detSeen' = DetSeenAfter(R, key, o)
            /\ findings' = PushBounded(findings, FindingOf(key, state), MAX_FINDINGS)
            /\ Raised = FindingOf(key, state)
  BY FindingEffect
<1> DEFINE state == Absorb(Entry(R, key), o)
           score == score_for(state.sources)
<1>2. o.wellFormed /\ next_finding_id' = next_finding_id + 1 /\ now' = now
  BY DEF IngestFinding
<1>3. /\ state \in ActiveState
      /\ any_source_deterministic(state.sources) => o.deterministic \/ key \in detSeen \intersect R
      /\ score \in 0..100
  BY <1>2, AbsorbedEntry
<1>4. level_for(score) \in ThreatLevel
  BY <1>3, LevelOfScore
<1>5. /\ Reported(state) = [state EXCEPT !.last_reported_score = score,
                                          !.last_reported_level = level_for(score)]
  BY DEF Reported
<1>6. /\ Reported(state) \in ActiveState
      /\ Reported(state).last_reported_level = level_for(Reported(state).last_reported_score)
      /\ Reported(state).sources = state.sources
  <2> HIDE DEF state, score
  <2> QED
    BY <1>3, <1>4, <1>5 DEF ActiveState
<1>7. ActiveOK' /\ EvidenceRemembered' /\ detSeen' \subseteq DOMAIN active'
  BY <1>1, <1>3, <1>6, StoreOK
<1>8. FindingOK(FindingOf(key, state)) /\ FindingOf(key, state).id = next_finding_id
  BY <1>3, <1>4 DEF FindingOf, FindingOK, CorrInv
<1>9. HistoryOK'
  <2>1. /\ findings' = [i \in 1..Len(findings') |-> findings'[i]]
        /\ Len(findings') \in 1..MAX_FINDINGS
        /\ findings'[Len(findings')] = FindingOf(key, state)
        /\ \A i \in 1..(Len(findings') - 1) :
             /\ i + Len(findings) + 1 - Len(findings') \in 1..Len(findings)
             /\ findings'[i] = findings[i + Len(findings) + 1 - Len(findings')]
    BY <1>1, FindingStored DEF Raised
  <2> HIDE DEF state, score, key
  <2>2. DOMAIN findings' = 1..Len(findings') /\ DOMAIN findings = 1..Len(findings)
    BY <2>1 DEF CorrInv, HistoryOK
  <2>3. MAX_FINDINGS \in Nat /\ Len(findings') \in Nat /\ Len(findings) \in Nat /\ next_finding_id \in Nat
    BY <2>1, CorrelationConstants DEF CorrInv, HistoryOK
  <2>4. \A i \in 1..Len(findings) :
          FindingOK(findings[i]) /\ findings[i].id = next_finding_id - 1 - (Len(findings) - i)
    BY <2>2 DEF CorrInv, HistoryOK, FindingIdsConsecutive
  <2>5. ASSUME NEW i \in 1..Len(findings')
        PROVE  /\ FindingOK(findings'[i])
               /\ findings'[i].id = next_finding_id' - 1 - (Len(findings') - i)
    <3>1. CASE i = Len(findings')
      BY <1>2, <1>8, <2>1, <2>3, <3>1
    <3>2. CASE i # Len(findings')
      <4> DEFINE j == i + Len(findings) + 1 - Len(findings')
      <4>1. i \in 1..(Len(findings') - 1)
        BY <2>3, <2>5, <3>2
      <4>2. j \in 1..Len(findings) /\ findings'[i] = findings[j]
        BY <2>1, <4>1
      <4>3. FindingOK(findings[j]) /\ findings[j].id = next_finding_id - 1 - (Len(findings) - j)
        BY <2>4, <4>2
      <4> QED
        BY <1>2, <2>3, <4>2, <4>3
    <3> QED
      BY <3>1, <3>2
  <2> QED
    BY <2>1, <2>2, <2>3, <2>5 DEF HistoryOK, FindingIdsConsecutive
<1> QED
  BY <1>2, <1>7, <1>9 DEF CorrInv

\* Every step keeps the invariant: one case per outcome of ingest() and the
\* two clock changes.
LEMMA CorrInvStep == CorrInv /\ [CorrNext]_corrVars => CorrInv'
<1> SUFFICES ASSUME CorrInv, [CorrNext]_corrVars PROVE CorrInv'
  OBVIOUS
<1>1. ASSUME NEW o \in Observations, ingest(o) PROVE CorrInv'
  <2>1. CASE IngestInvalid(o)
    BY <2>1 DEF IngestInvalid, corrVars, CorrInv, ActiveOK, EvidenceRemembered, HistoryOK,
                FindingIdsConsecutive
  <2> QED
    BY <1>1, <2>1, DuplicateStep, QuietStep, FindingStep DEF ingest
<1>2. ASSUME now' \in Nat, UNCHANGED <<active, findings, next_finding_id, detSeen>> PROVE CorrInv'
  BY <1>2 DEF CorrInv, ActiveOK, EvidenceRemembered, HistoryOK, FindingIdsConsecutive
<1>3. CASE ClockAdvances \/ ClockSetBack
  BY <1>2, <1>3 DEF ClockAdvances, ClockSetBack, CorrInv
<1>4. CASE UNCHANGED corrVars
  BY <1>2, <1>4 DEF corrVars, CorrInv
<1> QED
  BY <1>1, <1>3, <1>4 DEF CorrNext

\* The invariant holds in every reachable state.
THEOREM CorrelationInvariant == CorrSpec => []CorrInv
BY CorrInvInit, CorrInvStep, PTL DEF CorrSpec

\* The cache and the history of findings are bounded, typed and agree with
\* each other, for every mix of reports, expiries, evictions and clock changes.
THEOREM CorrelationIsConsistent == CorrSpec => []CorrelationConsistent
<1>1. CorrInv => CorrelationConsistent
  <2> SUFFICES ASSUME CorrInv PROVE CorrelationConsistent
    OBVIOUS
  <2>1. DOMAIN findings = 1..Len(findings)
    BY DEF CorrInv, HistoryOK
  <2>2. CorrTypeOK
    BY <2>1 DEF CorrTypeOK, CorrInv, ActiveOK, ActiveState, HistoryOK, FindingOK
  <2>3. TablesBounded
    BY CorrelationConstants DEF TablesBounded, CorrInv, ActiveOK, HistoryOK
  <2> QED
    BY <2>2, <2>3 DEF CorrelationConsistent, CorrInv, ActiveOK, HistoryOK, ReportedLevelMatchesScore
<1> QED
  BY <1>1, CorrelationInvariant, PTL

-----------------------------------------------------------------------------
(* What a step may do.                                                     *)

\* Only a report that grows its target's score raises a finding.
LEMMA OnlyGrowthRaises ==
  ASSUME CorrInv, [CorrNext]_corrVars, RaisesFinding
  PROVE  \E o \in Observations : IngestFinding(o)
BY DEF CorrNext, corrVars, RaisesFinding, ingest, IngestInvalid, IngestDuplicate, IngestQuietly,
       ClockAdvances, ClockSetBack

\* As long as a target stays in the cache every further finding on it carries
\* a strictly higher score and no lower level.
LEMMA GrowthStep ==
  ASSUME CorrInv, [CorrNext]_corrVars, RaisesFinding, Raised.correlation_key \in Unexpired
  PROVE  LET before == active[Raised.correlation_key]
         IN  /\ Raised.risk_score > before.last_reported_score
             /\ Raised.level >= before.last_reported_level
<1>1. PICK o \in Observations : IngestFinding(o)
  BY OnlyGrowthRaises
<1> DEFINE key == correlation_key(o)
<1>2. PICK R \in Residents(key) : /\ Grows(Absorb(Entry(R, key), o))
                                  /\ Raised = FindingOf(key, Absorb(Entry(R, key), o))
  BY <1>1, FindingEffect
<1> DEFINE state == Absorb(Entry(R, key), o)
           score == score_for(state.sources)
           last  == active[key].last_reported_score
<1>3. /\ Raised.correlation_key = key
      /\ Raised.risk_score = score
      /\ Raised.level = level_for(score)
  BY <1>2 DEF FindingOf
<1>4. Entry(R, key) = active[key] /\ key \in DOMAIN active
  BY <1>3, ResidentsOK DEF Entry, CorrInv, Unexpired
<1>5. o.wellFormed
  BY <1>1 DEF IngestFinding
<1>6. /\ state \in ActiveState
      /\ state.last_reported_level = level_for(state.last_reported_score)
      /\ state.last_reported_score = last
      /\ score \in 0..100
  BY <1>4, <1>5, AbsorbedEntry
<1>7. /\ last \in 0..100
      /\ active[key].last_reported_level = level_for(last)
  BY <1>4 DEF CorrInv, ActiveOK, ActiveState
<1>8. ~(score <= last /\ level_for(score) <= level_for(last))
  BY <1>2, <1>6 DEF Grows
<1> HIDE DEF state, score, last, key
<1>9. /\ level_for(score) \in ThreatLevel /\ level_for(last) \in ThreatLevel
      /\ score <= last => level_for(score) <= level_for(last)
      /\ last <= score => level_for(last) <= level_for(score)
  BY <1>6, <1>7, LevelOfScore
<1>10. score > last /\ level_for(score) >= level_for(last)
  <2>1. \A l \in ThreatLevel : l \in Int
    BY DEF ThreatLevel, SAFE, CRITICAL
  <2> QED
    BY <1>6, <1>7, <1>8, <1>9, <2>1
<1> QED
  BY <1>3, <1>7, <1>10 DEF last

\* A finding that claims an exact match rests on an exact check of its target.
LEMMA EvidenceStep ==
  ASSUME CorrInv, [CorrNext]_corrVars, RaisesFinding, Raised.deterministic_signature
  PROVE  Raised.correlation_key \in detSeen'
<1>1. PICK o \in Observations : IngestFinding(o)
  BY OnlyGrowthRaises
<1> DEFINE key == correlation_key(o)
<1>2. PICK R \in Residents(key) : /\ detSeen' = DetSeenAfter(R, key, o)
                                  /\ Raised = FindingOf(key, Absorb(Entry(R, key), o))
  BY <1>1, FindingEffect
<1>3. /\ Raised.correlation_key = key
      /\ any_source_deterministic(Absorb(Entry(R, key), o).sources)
  BY <1>2 DEF FindingOf
<1>4. o.deterministic \/ key \in detSeen \intersect R
  BY <1>1, <1>3, AbsorbedEntry DEF IngestFinding
<1> QED
  BY <1>2, <1>3, <1>4 DEF DetSeenAfter

\* A finding is raised only on growth, and called deterministic only on
\* evidence the cache has not forgotten.
THEOREM FindingsAreEarned == CorrSpec => FindingsEarned
<1>1. CorrInv /\ [CorrNext]_corrVars =>
        [RaisesFinding /\ Raised.correlation_key \in Unexpired =>
           LET before == active[Raised.correlation_key]
           IN  /\ Raised.risk_score > before.last_reported_score
               /\ Raised.level >= before.last_reported_level]_corrVars
  BY GrowthStep
<1>2. CorrInv /\ [CorrNext]_corrVars =>
        [RaisesFinding /\ Raised.deterministic_signature =>
           Raised.correlation_key \in detSeen']_corrVars
  BY EvidenceStep
<1> QED
  BY <1>1, <1>2, CorrelationInvariant, PTL
     DEF CorrSpec, FindingsEarned, FindingsStrictlyGrow, DeterministicNeedsEvidence

\* An expired entry was seen before every entry that is not expired.
LEMMA ExpiredIsOlder ==
  ASSUME CorrInv, NEW gone \in DOMAIN active \ Unexpired, NEW kept \in Unexpired
  PROVE  active[gone].last_seen <= active[kept].last_seen
<1>1. /\ active[gone].last_seen \in Nat
      /\ active[kept].last_seen \in Nat
      /\ now \in Nat /\ FindingWindow \in Nat
  BY CorrelationConstants DEF CorrInv, ActiveOK, ActiveState, Unexpired
<1> QED
  BY <1>1 DEF Unexpired

\* Expiry and eviction together drop no target while one that was seen
\* earlier stays.
LEMMA ForgettingStep ==
  ASSUME CorrInv, [CorrNext]_corrVars,
         NEW gone \in DOMAIN active \ DOMAIN active',
         NEW kept \in Unexpired \intersect DOMAIN active'
  PROVE  active[gone].last_seen <= active[kept].last_seen
<1>1. CASE \E o \in Observations : IngestDuplicate(o)
  <2>1. DOMAIN active' = Unexpired
    BY <1>1 DEF IngestDuplicate, Only
  <2> QED
    BY <2>1, ExpiredIsOlder
<1>2. ASSUME NEW key, NEW R \in Residents(key), NEW e, active' = Put(Only(active, R), key, e)
      PROVE  active[gone].last_seen <= active[kept].last_seen
  <2>1. DOMAIN active' = R \union {key}
    BY <1>2 DEF Put, Only
  <2>2. /\ key \in R <=> key \in Unexpired
        /\ \A g \in Unexpired \ R, k \in R : active[g].last_seen <= active[k].last_seen
    BY ResidentsOK DEF CorrInv
  <2>3. gone \notin R /\ kept \in R
    BY <2>1, <2>2
  <2> QED
    BY <2>2, <2>3, ExpiredIsOlder
<1>3. CASE \E o \in Observations : IngestQuietly(o) \/ IngestFinding(o)
  BY <1>2, <1>3 DEF IngestQuietly, IngestFinding
<1>4. CASE UNCHANGED active
  BY <1>4
<1> QED
  BY <1>1, <1>3, <1>4 DEF CorrNext, ingest, IngestInvalid, ClockAdvances, ClockSetBack, corrVars

\* The least recently seen targets are forgotten first.
THEOREM ForgettingIsFair == CorrSpec => ForgetsOldestFirst
<1>1. CorrInv /\ [CorrNext]_corrVars =>
        [\A gone \in DOMAIN active \ DOMAIN active' :
           \A kept \in Unexpired \intersect DOMAIN active' :
             active[gone].last_seen <= active[kept].last_seen]_corrVars
  BY ForgettingStep
<1> QED
  BY <1>1, CorrelationInvariant, PTL DEF CorrSpec, ForgetsOldestFirst
=============================================================================

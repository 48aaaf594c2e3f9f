------------------------- MODULE CorrelationEngine --------------------------
(***************************************************************************)
(* Per-target risk accumulation.  Observations of one target (its          *)
(* correlation key) are collected per source; a finding is raised when the *)
(* score of a target grows.  Time is the system clock, which may be set    *)
(* back: the code guards every subtraction for that.                       *)
(***************************************************************************)
EXTENDS PolicyEngine, Integers, Sequences, FiniteSets, TLC

CONSTANTS Observations,     \* what the sensors can report
          Norm,             \* Norm[name]: lower case, forward slashes
          MAX_ACTIVE_KEYS,
          MAX_FINDINGS,
          DUPLICATE_WINDOW, \* clock units
          FindingWindow,    \* policy.finding_window, same units
          MaxTime,          \* bound on the clock
          MaxFindingId      \* bound on the findings raised

ASSUME CorrelationConstants ==
  /\ MAX_ACTIVE_KEYS \in Nat \ {0}
  /\ MAX_FINDINGS \in Nat \ {0}
  /\ DUPLICATE_WINDOW \in Nat
  /\ FindingWindow \in Nat
  /\ MaxTime \in Nat
  /\ MaxFindingId \in Nat

\* is_valid(): a confidence lies between 0 and 1, here in hundredths.
ASSUME ObservationConstants ==
  \A o \in Observations :
    o.wellFormed => o.confidence \in 0..100 /\ o.deterministic \in BOOLEAN

VARIABLES now,              \* std::chrono::system_clock
          active,           \* active_: correlation key -> ActiveState
          findings,         \* findings_, oldest first
          next_finding_id,  \* next_finding_id_
          detSeen           \* history: keys whose current entry took in a
                            \* deterministic observation

corrVars == <<now, active, findings, next_finding_id, detSeen>>

-----------------------------------------------------------------------------
(* The strongest identity names the target; the kind is part of the key.   *)

identity(o) ==
  CASE o.sha256 # None                         -> <<Norm[o.sha256]>>
    [] o.sha256 = None /\ o.file_path # None   -> <<Norm[o.file_path]>>
    [] /\ o.sha256 = None
       /\ o.file_path = None
       /\ o.process_id # 0                     -> <<"pid:", o.process_id>>
    [] OTHER                                   -> <<Norm[o.process_name]>>

correlation_key(o) == <<o.kind>> \o identity(o)

\* lround(confidence * 50.0) for a confidence given in hundredths.
Points(confidence) == (confidence + 1) \div 2

\* The points of every source, told apart: the sum of the loop is their number.
ScorePoints(sources) ==
  UNION {{s} \X (1..Points(sources[s].confidence)) : s \in DOMAIN sources}

score_for(sources) ==
  LET total == Cardinality(ScorePoints(sources))
      bonus == IF Cardinality(DOMAIN sources) >= 2 THEN 20 ELSE 0
  IN  IF total + bonus < 100 THEN total + bonus ELSE 100

any_source_deterministic(sources) ==
  \E s \in DOMAIN sources : sources[s].deterministic

level_for(score) ==
  CASE score >= 90                -> CRITICAL
    [] score >= 75 /\ score < 90  -> HIGH
    [] score >= 50 /\ score < 75  -> MEDIUM
    [] score >= 25 /\ score < 50  -> LOW
    [] OTHER                      -> SAFE

-----------------------------------------------------------------------------
EmptyState == [last_seen           |-> 0,
               sources             |-> <<>>,
               file_path           |-> None,
               sha256              |-> None,
               last_reported_score |-> 0,
               last_reported_level |-> SAFE]

Only(f, S) == [x \in S |-> f[x]]

\* The map f with k bound to v.
Put(f, k, v) == [x \in DOMAIN f \union {k} |-> IF x = k THEN v ELSE f[x]]

\* expire(now): the keys that stay.
Unexpired ==
  {k \in DOMAIN active : ~(/\ now >= active[k].last_seen
                           /\ now - active[k].last_seen > FindingWindow)}

\* Faults: a full table is not trimmed; the newest key goes instead of the oldest.
AfterEvictionSkipped(S) == {S}

AfterEvictionNewest(S) ==
  IF Cardinality(S) < MAX_ACTIVE_KEYS
  THEN {S}
  ELSE {S \ {k} : k \in {x \in S : \A y \in S : active[x].last_seen >= active[y].last_seen}}

\* evict_oldest_locked(): what is left of the keys S once there is room for
\* one more; ties are broken by hash order.
AfterEviction(S) ==
  IF Cardinality(S) < MAX_ACTIVE_KEYS
  THEN {S}
  ELSE {S \ {k} : k \in {x \in S : \A y \in S : active[x].last_seen <= active[y].last_seen}}

\* The sets of keys that can be resident when the entry of key is looked up.
Residents(key) == IF key \in Unexpired THEN {Unexpired} ELSE AfterEviction(Unexpired)

\* The same source spoke about the same target less than a window ago.
Duplicate(state, o) ==
  /\ o.source_id \in DOMAIN state.sources
  /\ now >= state.sources[o.source_id].last_seen
  /\ now - state.sources[o.source_id].last_seen < DUPLICATE_WINDOW

\* The entry with the observation taken in, before scoring.
Absorb(state, o) ==
  [state EXCEPT
     !.last_seen = now,
     !.sources   = Put(@, o.source_id, [confidence    |-> o.confidence,
                                        deterministic |-> o.deterministic,
                                        last_seen     |-> now]),
     !.file_path = IF @ = None THEN o.file_path ELSE @,
     !.sha256    = IF @ = None THEN o.sha256 ELSE @]

\* Fault: any change of the score is reported.
GrowsOnChange(state) == score_for(state.sources) # state.last_reported_score

\* The score or the severity of the entry exceeds what was last reported.
Grows(state) ==
  LET score == score_for(state.sources)
  IN  ~(/\ score <= state.last_reported_score
        /\ level_for(score) <= state.last_reported_level)

Reported(state) ==
  LET score == score_for(state.sources)
  IN  [state EXCEPT !.last_reported_score = score,
                    !.last_reported_level = level_for(score)]

FindingOf(key, state) ==
  LET score == score_for(state.sources)
  IN  [id                      |-> next_finding_id,
       timestamp               |-> now,
       level                   |-> level_for(score),
       risk_score              |-> score,
       deterministic_signature |-> any_source_deterministic(state.sources),
       correlation_key         |-> key,
       file_path               |-> state.file_path,
       sha256                  |-> state.sha256,
       contributing_sources    |-> DOMAIN state.sources]

\* push_back, then pop_front beyond the bound.
PushBounded(log, x, bound) ==
  LET longer == Append(log, x)
  IN  IF Len(longer) > bound THEN Tail(longer) ELSE longer

-----------------------------------------------------------------------------
CorrInit ==
  /\ now = 0
  /\ active = <<>>
  /\ findings = <<>>
  /\ next_finding_id = 1
  /\ detSeen = {}

\* The entry of the key of o as ingest() finds or creates it among the keys R.
Entry(R, key) == IF key \in R THEN active[key] ELSE EmptyState

DetSeenAfter(R, key, o) ==
  (detSeen \intersect R) \union (IF o.deterministic THEN {key} ELSE {})

IngestDuplicate(o) ==
  LET key == correlation_key(o)
  IN  /\ o.wellFormed
      /\ key \in Unexpired
      /\ Duplicate(active[key], o)
      /\ active' = Only(active, Unexpired)
      /\ detSeen' = detSeen \intersect Unexpired
      /\ UNCHANGED <<findings, next_finding_id, now>>

IngestQuietly(o) ==
  LET key == correlation_key(o)
  IN  /\ o.wellFormed
      /\ \E R \in Residents(key) :
           LET state == Absorb(Entry(R, key), o)
           IN  /\ ~Duplicate(Entry(R, key), o)
               /\ ~Grows(state)
               /\ active' = Put(Only(active, R), key, state)
               /\ detSeen' = DetSeenAfter(R, key, o)
      /\ UNCHANGED <<findings, next_finding_id, now>>

IngestFinding(o) ==
  LET key == correlation_key(o)
  IN  /\ next_finding_id <= MaxFindingId
      /\ o.wellFormed
      /\ \E R \in Residents(key) :
           LET state == Absorb(Entry(R, key), o)
           IN  /\ ~Duplicate(Entry(R, key), o)
               /\ Grows(state)
               /\ active' = Put(Only(active, R), key, Reported(state))
               /\ findings' = PushBounded(findings, FindingOf(key, state), MAX_FINDINGS)
               /\ detSeen' = DetSeenAfter(R, key, o)
      /\ next_finding_id' = next_finding_id + 1
      /\ UNCHANGED now

\* ingest() returns at once when the observation is not valid.
IngestInvalid(o) ==
  /\ ~o.wellFormed
  /\ UNCHANGED corrVars

ingest(o) ==
  \/ IngestInvalid(o)
  \/ IngestDuplicate(o)
  \/ IngestQuietly(o)
  \/ IngestFinding(o)

\* The system clock advances, or is set back by a time correction.
ClockAdvances ==
  /\ now < MaxTime
  /\ now' = now + 1
  /\ UNCHANGED <<active, findings, next_finding_id, detSeen>>

ClockSetBack ==
  /\ now > 0
  /\ now' = now - 1
  /\ UNCHANGED <<active, findings, next_finding_id, detSeen>>

CorrNext ==
  \/ \E o \in Observations : ingest(o)
  \/ ClockAdvances
  \/ ClockSetBack

CorrSpec == CorrInit /\ [][CorrNext]_corrVars

-----------------------------------------------------------------------------
(* Properties.                                                             *)

\* Type invariant.
CorrTypeOK ==
  /\ now \in Nat
  /\ next_finding_id \in Nat \ {0}
  /\ detSeen \subseteq DOMAIN active
  /\ \A k \in DOMAIN active :
       /\ active[k].last_seen \in Nat
       /\ active[k].last_reported_score \in 0..100
       /\ active[k].last_reported_level \in ThreatLevel
  /\ \A i \in DOMAIN findings :
       /\ findings[i].id \in Nat
       /\ findings[i].risk_score \in 0..100
       /\ findings[i].level \in ThreatLevel

\* The correlation cache and the finding history never exceed their bounds,
\* whatever mix of targets the sensors report (evict_oldest_locked, pop_front).
TablesBounded ==
  /\ Cardinality(DOMAIN active) <= MAX_ACTIVE_KEYS
  /\ Len(findings) <= MAX_FINDINGS

\* The level remembered for a target is the level of the score remembered for
\* it, so ingest()'s two-part growth test reduces to the score.
ReportedLevelMatchesScore ==
  \A k \in DOMAIN active :
    active[k].last_reported_level = level_for(active[k].last_reported_score)

\* Finding ids are handed out without gaps and the history keeps them in
\* order, so a finding id names one finding for good.
FindingIdsConsecutive ==
  \A i \in DOMAIN findings :
    findings[i].id = next_finding_id - 1 - (Len(findings) - i)

\* The two tables agree with themselves and with each other in every order of
\* reports, expiries, evictions and clock changes.
CorrelationConsistent ==
  CorrTypeOK /\ TablesBounded /\ ReportedLevelMatchesScore /\ FindingIdsConsecutive

\* The finding a step raised.
Raised == findings'[Len(findings')]

RaisesFinding == next_finding_id' # next_finding_id

\* "emits one SecurityFinding only when its score or severity increases": as
\* long as a target stays in the cache, every further finding on it carries a
\* strictly higher score and no lower level.
FindingsStrictlyGrow ==
  [][RaisesFinding /\ Raised.correlation_key \in Unexpired =>
       LET before == active[Raised.correlation_key]
       IN  /\ Raised.risk_score > before.last_reported_score
           /\ Raised.level >= before.last_reported_level]_corrVars

\* Expiry and eviction together forget the least recently seen targets first:
\* no target is dropped while one that was seen earlier is kept.
ForgetsOldestFirst ==
  [][\A gone \in DOMAIN active \ DOMAIN active' :
       \A kept \in Unexpired \intersect DOMAIN active' :
         active[gone].last_seen <= active[kept].last_seen]_corrVars

\* A finding is marked deterministic_signature only if an exact check reported
\* its target since the target entered the cache.
DeterministicNeedsEvidence ==
  [][RaisesFinding /\ Raised.deterministic_signature =>
       Raised.correlation_key \in detSeen']_corrVars

\* ingest() raises a finding only when it has grown, and calls it
\* deterministic only on evidence that it has not forgotten.
FindingsEarned == FindingsStrictlyGrow /\ DeterministicNeedsEvidence
=============================================================================

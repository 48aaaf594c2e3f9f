---------------------------- MODULE PolicyEngine ----------------------------
(***************************************************************************)
(* The pure decision layer: which finding becomes a quarantine candidate.  *)
(* A path is an opaque name; Protected is the set of names that start with *)
(* a protected prefix once case and slashes are folded.                    *)
(***************************************************************************)
EXTENDS Naturals

CONSTANTS CriticalThreshold,  \* policy.critical_threshold
          Protected           \* spellings that match policy.protected_path_prefixes

SAFE     == 0
LOW      == 1
MEDIUM   == 2
HIGH     == 3
CRITICAL == 4

ThreatLevel == SAFE..CRITICAL

\* The empty string: no path, no hash.
None == ""

is_protected_path(path) == path \in Protected

\* TRUE iff decide() answers QUARANTINE_CANDIDATE.
decide(finding) ==
  /\ finding.deterministic_signature
  /\ finding.level = CRITICAL
  /\ finding.risk_score >= CriticalThreshold
  /\ finding.file_path # None
  /\ ~is_protected_path(finding.file_path)

\* The candidate built from a finding that decide() lets through.
candidate_for(finding) ==
  [finding_id      |-> finding.id,
   approval_state  |-> "PENDING_APPROVAL",
   target_path     |-> finding.file_path,
   expected_sha256 |-> finding.sha256]
=============================================================================

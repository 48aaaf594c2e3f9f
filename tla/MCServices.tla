----------------------------- MODULE MCServices -----------------------------
(* The threads and processes around the engines, on small instances: the    *)
(* pool and the scanner that uses it, the pipe to the user interface, the   *)
(* webhook, the service process, the stored policy, and the engines with a  *)
(* thread that serves or repairs.  They share no state here: focus says     *)
(* which of them moves in a behaviour, the others keep their first state.   *)
EXTENDS FileInspection, ZrgpEngine, ThreadPool, DeepScanner, ServiceProcess,
        WebhookEngine, PolicyStore

VARIABLE focus

MCPsPolicy(t, w, p) == [threshold |-> t, window |-> w, prefixes |-> p]
MCPsDefault == MCPsPolicy(80, 15, << <<"w">>, <<"p", "f">> >>)
MCPsPolicies == {MCPsDefault, MCPsPolicy(0, 1441, <<>>), MCPsPolicy(100, 1440, << <<"p", "f">> >>)}
MCPsForeign == {PsNumber("critical_threshold", 101), PsNumber("finding_window_minutes", 0), PsPath(<<>>), PsCorrupt}

MCAtContents ==
  {[header |-> "near", size |-> "small", signed |-> TRUE],
   [header |-> "near", size |-> "huge", signed |-> TRUE],
   [header |-> "far", size |-> "large", signed |-> TRUE],
   [header |-> "near", size |-> "large", signed |-> FALSE],
   [header |-> "broken", size |-> "small", signed |-> FALSE]}

Focuses ==
  {"sandbox", "zrgp", "pool", "scanner", "ipc", "webhook", "service",
   "policy", "artifact"}

Init ==
  /\ focus \in Focuses
  /\ SbInit
  /\ ZgInit
  /\ PoolInit
  /\ DsInit
  /\ IpInit
  /\ WhInit
  /\ SmInit
  /\ PsInit
  /\ AtInit

\* The part that is looked at takes a step, and only that part.
Turn(parts) ==
  /\ focus \in parts /\ UNCHANGED focus
  /\ IF parts = {"sandbox"} THEN TRUE ELSE UNCHANGED sbVars
  /\ IF parts = {"zrgp"} THEN TRUE ELSE UNCHANGED zgVars
  /\ IF parts = {"pool"} THEN TRUE ELSE UNCHANGED poolVars
  /\ IF parts = {"scanner"} THEN TRUE ELSE UNCHANGED dsVars
  /\ IF parts = {"ipc"} THEN TRUE ELSE UNCHANGED ipVars
  /\ IF parts = {"webhook"} THEN TRUE ELSE UNCHANGED whVars
  /\ IF parts = {"service"} THEN TRUE ELSE UNCHANGED smVars
  /\ IF parts = {"policy"} THEN TRUE ELSE UNCHANGED psVars
  /\ IF parts = {"artifact"} THEN TRUE ELSE UNCHANGED atVars

Next ==
  \/ Turn({"sandbox"}) /\ SbStep
  \/ Turn({"zrgp"}) /\ ZgNext
  \/ Turn({"pool"}) /\ PoolNext
  \/ Turn({"scanner"}) /\ DsNext
  \/ Turn({"ipc"}) /\ IpNext
  \/ Turn({"webhook"}) /\ WhNext
  \/ Turn({"service"}) /\ SmNext
  \/ Turn({"policy"}) /\ PsNext
  \/ Turn({"artifact"}) /\ AtNext

vars ==
  <<focus, sbVars, zgVars, poolVars, dsVars, ipVars, whVars, smVars,
    psVars, atVars>>

\* Only the part that is looked at moves.  The threads of the pool run from the
\* start, so its fairness is asked for in its own behaviours only; the fairness
\* of the other parts asks for nothing before a call has begun.
Fairness ==
  /\ focus = "pool" => PoolFairness
  /\ DsFair
  /\ IpFair
  /\ WhFair

Spec == Init /\ [][Next]_vars /\ Fairness

-----------------------------------------------------------------------------

\* A scan whose monitor thread was created ends, and start_scan(), cancel_scan()
\* and the body of the scanner's destructor return.
ScanCallsReturn ==
  DsScanEnds /\ DsCallReturns
=============================================================================

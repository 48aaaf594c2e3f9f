-------------------------- MODULE SecurityPipeline --------------------------
(***************************************************************************)
(* The threads around the bus: sensors publish, one worker drains the bus  *)
(* through correlation and policy, the owning thread starts and stops the  *)
(* pipeline, an operator decides about candidates.  A step is what happens *)
(* between two lock acquisitions or atomic accesses.                       *)
(***************************************************************************)
EXTENDS CorrelationEngine, TelemetryBus

CONSTANTS Producers,        \* threads that call publish()
          MAX_CANDIDATES,
          MaxPublished      \* bound on the publish() calls

ASSUME PipelineConstants ==
  /\ Capacity \in Nat
  /\ MAX_CANDIDATES \in Nat \ {0}
  /\ MaxPublished \in Nat

VARIABLES running,          \* running_
          ownerPc,          \* where start() or stop() is in the owning thread
          workerPc,         \* where worker_loop() is
          inHand,           \* the observation (or finding) the worker holds
          producerPc,       \* producer -> where publish() is
          published,        \* number of publish() calls begun
          candidates,       \* candidates_, oldest first
          handled           \* history: observations process() is done with

threadVars == <<running, ownerPc, workerPc, inHand, producerPc, published>>
pipeVars   == <<busVars, corrVars, threadVars, candidates, handled>>

\* Nothing in the worker's hand.
Nothing == <<>>

PipeInit ==
  /\ BusInit
  /\ CorrInit
  /\ running = FALSE
  /\ ownerPc = "idle"
  /\ workerPc = "none"
  /\ inHand = Nothing
  /\ producerPc = [p \in Producers |-> "idle"]
  /\ published = 0
  /\ candidates = <<>>
  /\ handled = 0

-----------------------------------------------------------------------------
(* start() and stop(), both called from the owning thread.                 *)

StartExchange ==
  /\ ownerPc = "idle"
  /\ ~running
  /\ running' = TRUE
  /\ ownerPc' = "start_check"
  /\ UNCHANGED <<busVars, corrVars, workerPc, inHand, producerPc, published, candidates, handled>>

\* A closed bus or a failing thread creation leaves the pipeline stopped.
StartFails ==
  /\ ownerPc = "start_check"
  /\ running' = FALSE
  /\ ownerPc' = "idle"
  /\ UNCHANGED <<busVars, corrVars, workerPc, inHand, producerPc, published, candidates, handled>>

StartSpawns ==
  /\ ownerPc = "start_check"
  /\ ~closed
  /\ workerPc' = "wait"
  /\ ownerPc' = "idle"
  /\ UNCHANGED <<busVars, corrVars, running, inHand, producerPc, published, candidates, handled>>

\* Fault: stop() joins without closing the bus.
StopExchangeNoClose ==
  /\ ownerPc = "idle"
  /\ running
  /\ running' = FALSE
  /\ ownerPc' = "stop_join"
  /\ UNCHANGED <<busVars, corrVars, workerPc, inHand, producerPc, published, candidates, handled>>

StopExchange ==
  /\ ownerPc = "idle"
  /\ running
  /\ running' = FALSE
  /\ ownerPc' = "stop_close"
  /\ UNCHANGED <<busVars, corrVars, workerPc, inHand, producerPc, published, candidates, handled>>

StopClose ==
  /\ ownerPc = "stop_close"
  /\ BusClose
  /\ ownerPc' = "stop_join"
  /\ UNCHANGED <<corrVars, running, workerPc, inHand, producerPc, published, candidates, handled>>

\* Fault: stop() does not wait for the worker.
StopJoinDetaches ==
  /\ ownerPc = "stop_join"
  /\ ownerPc' = "idle"
  /\ UNCHANGED <<busVars, corrVars, running, workerPc, inHand, producerPc, published, candidates, handled>>

StopJoin ==
  /\ ownerPc = "stop_join"
  /\ workerPc \in {"none", "exited"}
  /\ ownerPc' = "idle"
  /\ UNCHANGED <<busVars, corrVars, running, workerPc, inHand, producerPc, published, candidates, handled>>

-----------------------------------------------------------------------------
(* publish(): the running_ test and the bus operation are two steps.       *)

PublishCheck(p) ==
  /\ producerPc[p] = "idle"
  /\ published < MaxPublished
  /\ running
  /\ producerPc' = [producerPc EXCEPT ![p] = "publishing"]
  /\ published' = published + 1
  /\ UNCHANGED <<busVars, corrVars, running, ownerPc, workerPc, inHand, candidates, handled>>

PublishEnqueue(p, o) ==
  /\ producerPc[p] = "publishing"
  /\ BusPublish(o)
  /\ producerPc' = [producerPc EXCEPT ![p] = "idle"]
  /\ UNCHANGED <<corrVars, running, ownerPc, workerPc, inHand, published, candidates, handled>>

-----------------------------------------------------------------------------
(* worker_loop() and process().                                            *)

WorkerPops ==
  /\ workerPc = "wait"
  /\ PopHead
  /\ inHand' = <<Head(queue)>>
  /\ workerPc' = "process"
  /\ UNCHANGED <<corrVars, running, ownerPc, producerPc, published, candidates, handled>>

\* wait_pop() came back empty-handed: timeout, or the bus is closed.
WorkerTimesOut ==
  /\ workerPc = "wait"
  /\ PopNothing
  /\ workerPc' = "check_closed"
  /\ UNCHANGED <<corrVars, running, ownerPc, inHand, producerPc, published, candidates, handled>>

\* Fault: the first empty wait ends the worker.
WorkerChecksClosedNot ==
  /\ workerPc = "check_closed"
  /\ workerPc' = "exited"
  /\ UNCHANGED <<busVars, corrVars, running, ownerPc, inHand, producerPc, published, candidates, handled>>

WorkerChecksClosed ==
  /\ workerPc = "check_closed"
  /\ workerPc' = IF closed THEN "exited" ELSE "wait"
  /\ UNCHANGED <<busVars, corrVars, running, ownerPc, inHand, producerPc, published, candidates, handled>>

\* Fault: every finding becomes a candidate.
WorkerProcessesUnfiltered ==
  /\ workerPc = "process"
  /\ ingest(inHand[1])
  /\ IF RaisesFinding
     THEN /\ workerPc' = "push"
          /\ inHand' = <<Raised>>
          /\ UNCHANGED handled
     ELSE /\ workerPc' = "wait"
          /\ inHand' = Nothing
          /\ handled' = handled + 1
  /\ UNCHANGED <<busVars, running, ownerPc, producerPc, published, candidates>>

\* process(): correlate; a finding the policy lets through becomes a candidate
\* in a step of its own, under the candidate lock.
WorkerProcesses ==
  /\ workerPc = "process"
  /\ ingest(inHand[1])
  /\ IF RaisesFinding /\ decide(Raised)
     THEN /\ workerPc' = "push"
          /\ inHand' = <<Raised>>
          /\ UNCHANGED handled
     ELSE /\ workerPc' = "wait"
          /\ inHand' = Nothing
          /\ handled' = handled + 1
  /\ UNCHANGED <<busVars, running, ownerPc, producerPc, published, candidates>>

WorkerPushesCandidate ==
  /\ workerPc = "push"
  /\ candidates' = PushBounded(candidates, candidate_for(inHand[1]), MAX_CANDIDATES)
  /\ inHand' = Nothing
  /\ workerPc' = "wait"
  /\ handled' = handled + 1
  /\ UNCHANGED <<busVars, corrVars, running, ownerPc, producerPc, published>>

WorkerStep ==
  \/ WorkerPops
  \/ WorkerTimesOut
  \/ WorkerChecksClosed
  \/ WorkerProcesses
  \/ WorkerPushesCandidate

-----------------------------------------------------------------------------
(* transition_candidate(): the first candidate with the id, and only from  *)
(* PENDING_APPROVAL; the other outcomes change nothing.                    *)

First(id) ==
  LET hits == {i \in DOMAIN candidates : candidates[i].finding_id = id}
  IN  {i \in hits : \A j \in hits : i <= j}

\* Fault: a decision can be overturned.
transition_candidateAlways(id, target) ==
  \E i \in First(id) : candidates' = [candidates EXCEPT ![i].approval_state = target]

transition_candidate(id, target) ==
  \E i \in First(id) :
    /\ candidates[i].approval_state = "PENDING_APPROVAL"
    /\ candidates' = [candidates EXCEPT ![i].approval_state = target]

approve_candidate(id) ==
  /\ transition_candidate(id, "APPROVED")
  /\ UNCHANGED <<busVars, corrVars, threadVars, handled>>

reject_candidate(id) ==
  /\ transition_candidate(id, "REJECTED")
  /\ UNCHANGED <<busVars, corrVars, threadVars, handled>>

ClockStep ==
  /\ ClockAdvances \/ ClockSetBack
  /\ UNCHANGED <<busVars, threadVars, candidates, handled>>

-----------------------------------------------------------------------------
PipeNext ==
  \/ StartExchange \/ StartFails \/ StartSpawns
  \/ StopExchange \/ StopClose \/ StopJoin
  \/ \E p \in Producers : PublishCheck(p)
  \/ \E p \in Producers, o \in Observations : PublishEnqueue(p, o)
  \/ WorkerStep
  \/ \E id \in 1..MaxFindingId : approve_candidate(id) \/ reject_candidate(id)
  \/ ClockStep

PipeSpec == PipeInit /\ [][PipeNext]_pipeVars

\* The operating system runs the worker, and the owner once it is inside stop().
PipeFairness ==
  /\ WF_pipeVars(WorkerStep)
  /\ WF_pipeVars(StopClose)
  /\ WF_pipeVars(StopJoin)

FairPipeSpec == PipeSpec /\ PipeFairness

-----------------------------------------------------------------------------
(* Properties.                                                             *)

\* Type invariant.
PipeTypeOK ==
  /\ BusTypeOK(Observations)
  /\ running \in BOOLEAN
  /\ ownerPc \in {"idle", "start_check", "stop_close", "stop_join"}
  /\ workerPc \in {"none", "wait", "check_closed", "process", "push", "exited"}
  /\ producerPc \in [Producers -> {"idle", "publishing"}]
  /\ published \in Nat
  /\ handled \in Nat
  /\ Len(inHand) = IF workerPc \in {"process", "push"} THEN 1 ELSE 0
  /\ \A i \in DOMAIN candidates :
       candidates[i].approval_state \in {"PENDING_APPROVAL", "APPROVED", "REJECTED"}

\* Nothing the bus accepted disappears between publish() and process(): it is
\* queued, in the worker's hand, or done.
AcceptedAccounted ==
  metrics.accepted = handled + Len(inHand) + Len(queue)

\* The bus never holds more than its capacity, although producers test
\* running_ and enqueue in separate steps.
QueueWithinCapacity == Len(queue) <= capacity

\* At most one worker drains the bus, and it is alive exactly while someone
\* will still join it: once stop() has returned, no worker is running.
StoppedMeansJoined ==
  (ownerPc = "idle" /\ ~running) => workerPc \in {"none", "exited"}

\* Whatever the producers, the worker and the owner do between each other's
\* steps, the queue is bounded, nothing in it is lost and stop() leaves no
\* thread behind.
PipelineSafe == AcceptedAccounted /\ QueueWithinCapacity /\ StoppedMeansJoined

\* A candidate repeats the target and the hash of a finding that the policy
\* lets through (as long as the history still holds that finding).
CandidatesJustified ==
  \A i \in DOMAIN candidates, j \in DOMAIN findings :
    candidates[i].finding_id = findings[j].id =>
      /\ decide(findings[j])
      /\ candidates[i].target_path = findings[j].file_path
      /\ candidates[i].expected_sha256 = findings[j].sha256

\* The candidates shown to the user are well formed and come from findings.
CandidatesSound == PipeTypeOK /\ CandidatesJustified

\* A candidate id names one candidate for good: whatever the worker appends
\* and evicts, a new candidate has a larger id than every earlier one, so the
\* first match of find_candidate() and transition_candidate() is the only one.
CandidateIdsNeverReused ==
  [][workerPc = "push" /\ workerPc' = "wait" =>
       \A i \in DOMAIN candidates :
         candidates'[Len(candidates')].finding_id > candidates[i].finding_id]_pipeVars

\* approve/reject: no step takes back or overturns a decision about a
\* candidate, not even while the worker appends and evicts candidates.
DecisionsAreFinal ==
  [][\A i \in DOMAIN candidates :
       candidates[i].approval_state # "PENDING_APPROVAL" =>
         \A j \in DOMAIN candidates' :
           candidates'[j].finding_id = candidates[i].finding_id =>
             candidates'[j] = candidates[i]]_pipeVars

\* A decision stays with the candidate it was made about.
DecisionsKept == CandidateIdsNeverReused /\ DecisionsAreFinal

\* "drains accepted items": once stop() has joined the worker the bus is empty.
DrainedOnStop ==
  workerPc = "exited" => queue = <<>>

\* stop() returns: close() wakes the worker and the worker comes to an end.
StopReturns == (ownerPc \in {"stop_close", "stop_join"}) ~> (ownerPc = "idle")

\* With a worker alive, every accepted observation is eventually handled
\* unless the pipeline is being stopped.
BacklogServed ==
  \A n \in 1..MaxPublished :
    (metrics.accepted >= n /\ workerPc # "none") ~> (handled >= n \/ closed)

\* The threads implement the sequential intake.
Backlog == (IF workerPc = "push" THEN <<>> ELSE inHand) \o queue

Intake == INSTANCE ObservationIntake
            WITH Bound <- capacity + 1, Reports <- Observations,
                 backlog <- Backlog, open <- ~closed

ImplementsIntake == Intake!IntakeSpec
=============================================================================

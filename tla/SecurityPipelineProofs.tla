----------------------- MODULE SecurityPipelineProofs -----------------------
(***************************************************************************)
(* SecurityPipeline, proved for any number of producers, any capacity and  *)
(* any observations: no accepted observation is lost on its way to         *)
(* process(), the bus stays within its capacity, stop() leaves no worker   *)
(* behind, and the threads together implement ObservationIntake.           *)
(***************************************************************************)
EXTENDS SecurityPipeline, CorrelationEngineProofs

\* What the worker holds fits where it is in its loop.
HandFits ==
  /\ workerPc = "process" => \E o \in Observations : inHand = <<o>>
  /\ workerPc = "push" => \E f : inHand = <<f>>
  /\ workerPc \notin {"process", "push"} => inHand = <<>>

\* Where the threads are.
ThreadsOK ==
  /\ BusTypeOK(Observations)
  /\ running \in BOOLEAN
  /\ ownerPc \in {"idle", "start_check", "stop_close", "stop_join"}
  /\ workerPc \in {"none", "wait", "check_closed", "process", "push", "exited"}
  /\ handled \in Nat

\* There is a worker only between a start() that spawned it and a stop() that
\* joined it; in particular start() never replaces a live worker.
WorkerWithinRun ==
  (ownerPc = "idle" /\ ~running) \/ ownerPc = "start_check" => workerPc \in {"none", "exited"}

\* start() and stop() hold running_ as they set it.
OwnerKnowsRunning ==
  /\ ownerPc = "start_check" => running
  /\ ownerPc \in {"stop_close", "stop_join"} => ~running

PipeInv ==
  /\ ThreadsOK
  /\ HandFits
  /\ AcceptedAccounted
  /\ QueueWithinCapacity
  /\ WorkerWithinRun
  /\ OwnerKnowsRunning

-----------------------------------------------------------------------------
(* The bus.                                                                *)

\* The constructor never makes a bus that can hold nothing.
LEMMA CapacityPositive == capacity \in Nat /\ capacity >= 1
BY PipelineConstants DEF capacity

\* publish() accepts exactly one observation or leaves the queue alone, and
\* accepts only below the capacity, on an open bus, what is well formed.
LEMMA PublishEffect ==
  ASSUME BusTypeOK(Observations), NEW o \in Observations, BusPublish(o)
  PROVE  /\ BusTypeOK(Observations)'
         /\ \/ /\ ~closed
               /\ o.wellFormed
               /\ Len(queue) < capacity
               /\ queue' = Append(queue, o)
               /\ metrics'.accepted = metrics.accepted + 1
            \/ /\ queue' = queue
               /\ metrics'.accepted = metrics.accepted
         /\ closed' = closed
<1>1. CASE PublishResult(o) = "ACCEPTED"
  <2>1. ~closed /\ o.wellFormed /\ ~(Len(queue) >= capacity)
    BY <1>1 DEF PublishResult
  <2>2. Len(queue) < capacity
    BY <2>1, CapacityPositive, LenProperties DEF BusTypeOK
  <2>3. queue' = Append(queue, o) /\ metrics' = [metrics EXCEPT !["accepted"] = @ + 1]
    BY <1>1 DEF BusPublish, Count
  <2>4. closed' = closed
    BY DEF BusPublish
  <2>5. BusTypeOK(Observations)'
    BY <2>3, <2>4, AppendProperties DEF BusTypeOK
  <2> QED
    BY <2>1, <2>2, <2>3, <2>4, <2>5 DEF BusTypeOK
<1>2. CASE PublishResult(o) # "ACCEPTED"
  <2>1. queue' = queue /\ closed' = closed
    BY <1>2 DEF BusPublish
  <2>2. \E f \in {"dropped_full", "rejected_invalid", "rejected_closed"} :
          metrics' = [metrics EXCEPT ![f] = @ + 1]
    BY <1>2 DEF BusPublish, Count
  <2>3. metrics'.accepted = metrics.accepted
    BY <2>2 DEF BusTypeOK
  <2>4. BusTypeOK(Observations)'
    BY <2>1, <2>2 DEF BusTypeOK
  <2> QED
    BY <2>1, <2>3, <2>4
<1> QED
  BY <1>1, <1>2

\* wait_pop() takes the head and leaves the rest.
LEMMA PopEffect ==
  ASSUME BusTypeOK(Observations), PopHead
  PROVE  /\ BusTypeOK(Observations)'
         /\ Head(queue) \in Observations
         /\ Len(queue) = Len(queue') + 1
         /\ queue' = Tail(queue)
         /\ UNCHANGED <<closed, metrics>>
BY HeadTailProperties, LenProperties DEF BusTypeOK, PopHead

-----------------------------------------------------------------------------
\* The initial state.
LEMMA PipeInvInit == PipeInit => PipeInv
<1> SUFFICES ASSUME PipeInit PROVE PipeInv
  OBVIOUS
<1> USE DEF PipeInit, BusInit, NoMetrics, Nothing
<1>1. ThreadsOK
  <2>1. queue \in Seq(Observations)
    BY EmptySeq
  <2>2. metrics \in [{"accepted", "dropped_full", "rejected_invalid", "rejected_closed"} -> Nat]
    OBVIOUS
  <2> QED
    BY <2>1, <2>2 DEF ThreadsOK, BusTypeOK
<1>2. HandFits
  BY DEF HandFits
<1>3. AcceptedAccounted
  BY DEF AcceptedAccounted
<1>4. QueueWithinCapacity
  BY CapacityPositive DEF QueueWithinCapacity
<1>5. WorkerWithinRun /\ OwnerKnowsRunning
  BY DEF WorkerWithinRun, OwnerKnowsRunning
<1> QED
  BY <1>1, <1>2, <1>3, <1>4, <1>5 DEF PipeInv

\* Every step keeps the invariant: one case per thread and step.
LEMMA PipeInvStep == PipeInv /\ [PipeNext]_pipeVars => PipeInv'
<1> SUFFICES ASSUME PipeInv, [PipeNext]_pipeVars PROVE PipeInv'
  OBVIOUS
<1> USE DEF PipeInv
<1>1. ASSUME StartExchange \/ StartFails \/ StopExchange PROVE PipeInv'
  BY <1>1 DEF StartExchange, StartFails, StopExchange, busVars, ThreadsOK, BusTypeOK, HandFits,
              AcceptedAccounted, QueueWithinCapacity, capacity, WorkerWithinRun, OwnerKnowsRunning
<1>2. ASSUME StartSpawns PROVE PipeInv'
  <2>1. workerPc \in {"none", "exited"} /\ running
    BY <1>2 DEF StartSpawns, WorkerWithinRun, OwnerKnowsRunning
  <2> QED
    BY <1>2, <2>1 DEF StartSpawns, busVars, ThreadsOK, BusTypeOK, HandFits,
       AcceptedAccounted, QueueWithinCapacity, capacity, WorkerWithinRun, OwnerKnowsRunning
<1>3. ASSUME StopClose PROVE PipeInv'
  <2>1. UNCHANGED <<queue, metrics, running, workerPc, inHand, handled>>
    BY <1>3 DEF StopClose, BusClose
  <2>2. closed' = TRUE /\ ownerPc = "stop_close" /\ ownerPc' = "stop_join"
    BY <1>3 DEF StopClose, BusClose
  <2>3. ThreadsOK'
    BY <2>1, <2>2 DEF ThreadsOK, BusTypeOK
  <2> QED
    BY <2>1, <2>2, <2>3 DEF HandFits, AcceptedAccounted, QueueWithinCapacity, capacity,
                            WorkerWithinRun, OwnerKnowsRunning
<1>4. ASSUME StopJoin PROVE PipeInv'
  BY <1>4 DEF StopJoin, busVars, ThreadsOK, BusTypeOK, HandFits,
               AcceptedAccounted, QueueWithinCapacity, capacity, WorkerWithinRun, OwnerKnowsRunning
<1>5. ASSUME NEW p \in Producers, PublishCheck(p) PROVE PipeInv'
  BY <1>5 DEF PublishCheck, busVars, ThreadsOK, BusTypeOK, HandFits,
              AcceptedAccounted, QueueWithinCapacity, capacity, WorkerWithinRun, OwnerKnowsRunning
<1>6. ASSUME NEW p \in Producers, NEW o \in Observations, PublishEnqueue(p, o) PROVE PipeInv'
  <2> DEFINE Rest == <<corrVars, running, ownerPc, workerPc, inHand, published, candidates, handled>>
  <2>1. BusPublish(o) /\ UNCHANGED Rest
    BY <1>6 DEF PublishEnqueue
  <2>2. BusTypeOK(Observations)
    BY DEF ThreadsOK
  <2>3. BusTypeOK(Observations)'
    BY <2>1, <2>2, PublishEffect
  <2>4. ThreadsOK'
    BY <2>1, <2>3 DEF ThreadsOK
  <2>5. HandFits' /\ WorkerWithinRun' /\ OwnerKnowsRunning'
    BY <2>1 DEF HandFits, WorkerWithinRun, OwnerKnowsRunning
  <2>6. \/ queue' = Append(queue, o) /\ Len(queue) < capacity /\ metrics'.accepted = metrics.accepted + 1
        \/ queue' = queue /\ metrics'.accepted = metrics.accepted
    BY <2>1, <2>2, PublishEffect
  <2>7. \/ Len(queue') = Len(queue) + 1 /\ Len(queue) < capacity /\ metrics'.accepted = metrics.accepted + 1
        \/ Len(queue') = Len(queue) /\ metrics'.accepted = metrics.accepted
    BY <2>2, <2>6, AppendProperties DEF BusTypeOK
  <2>8. Len(queue) \in Nat /\ Len(inHand) \in Nat /\ handled \in Nat
    BY <2>2, LenProperties DEF BusTypeOK, ThreadsOK, HandFits
  <2>9. AcceptedAccounted'
    BY <2>1, <2>7, <2>8 DEF AcceptedAccounted
  <2>10. QueueWithinCapacity'
    BY <2>7, <2>8, CapacityPositive DEF QueueWithinCapacity, capacity
  <2> QED
    BY <2>4, <2>5, <2>9, <2>10
<1>7. ASSUME WorkerPops PROVE PipeInv'
  <2>1. /\ BusTypeOK(Observations)'
        /\ Head(queue) \in Observations
        /\ Len(queue) = Len(queue') + 1
        /\ UNCHANGED <<closed, metrics>>
    BY <1>7, PopEffect DEF WorkerPops, ThreadsOK
  <2>2. inHand = <<>> /\ inHand' = <<Head(queue)>> /\ workerPc' = "process"
    BY <1>7 DEF WorkerPops, HandFits
  <2>3. ThreadsOK'
    BY <1>7, <2>1, <2>2 DEF WorkerPops, ThreadsOK
  <2>4. HandFits'
    BY <2>1, <2>2 DEF HandFits
  <2>5. Len(inHand) = 0 /\ Len(inHand') = 1
    BY <2>2
  <2>6. Len(queue') \in Nat
    BY <2>1, LenProperties DEF BusTypeOK
  <2>7. AcceptedAccounted'
    BY <1>7, <2>1, <2>5, <2>6 DEF WorkerPops, AcceptedAccounted, ThreadsOK
  <2>8. QueueWithinCapacity'
    BY <2>1, <2>6, CapacityPositive DEF QueueWithinCapacity, capacity
  <2>9. WorkerWithinRun' /\ OwnerKnowsRunning'
    BY <1>7 DEF WorkerPops, WorkerWithinRun, OwnerKnowsRunning
  <2> QED
    BY <2>3, <2>4, <2>7, <2>8, <2>9
<1>8. ASSUME WorkerTimesOut \/ WorkerChecksClosed PROVE PipeInv'
  BY <1>8 DEF WorkerTimesOut, WorkerChecksClosed, PopNothing, busVars, ThreadsOK, BusTypeOK, HandFits,
              AcceptedAccounted, QueueWithinCapacity, capacity, WorkerWithinRun, OwnerKnowsRunning
<1>9. ASSUME WorkerProcesses PROVE PipeInv'
  <2>1. Len(inHand) = 1
    BY <1>9 DEF WorkerProcesses, HandFits
  <2>2. UNCHANGED <<queue, closed, metrics, running, ownerPc>>
    BY <1>9 DEF WorkerProcesses, busVars
  <2>3. CASE workerPc' = "push" /\ inHand' = <<Raised>> /\ handled' = handled
    BY <1>9, <2>1, <2>2, <2>3 DEF WorkerProcesses, ThreadsOK, BusTypeOK, HandFits,
       AcceptedAccounted, QueueWithinCapacity, capacity, WorkerWithinRun, OwnerKnowsRunning
  <2>4. CASE workerPc' = "wait" /\ inHand' = <<>> /\ handled' = handled + 1
    BY <1>9, <2>1, <2>2, <2>4, LenProperties DEF WorkerProcesses, ThreadsOK, BusTypeOK, HandFits,
       AcceptedAccounted, QueueWithinCapacity, capacity, WorkerWithinRun, OwnerKnowsRunning
  <2> QED
    BY <1>9, <2>3, <2>4 DEF WorkerProcesses, Nothing
<1>10. ASSUME WorkerPushesCandidate PROVE PipeInv'
  <2>1. Len(inHand) = 1
    BY <1>10 DEF WorkerPushesCandidate, HandFits
  <2> QED
    BY <1>10, <2>1, LenProperties DEF WorkerPushesCandidate, Nothing, busVars, ThreadsOK, BusTypeOK,
       HandFits, AcceptedAccounted, QueueWithinCapacity, capacity, WorkerWithinRun, OwnerKnowsRunning
<1>11. ASSUME NEW id, approve_candidate(id) \/ reject_candidate(id) PROVE PipeInv'
  BY <1>11 DEF approve_candidate, reject_candidate, busVars, threadVars, ThreadsOK, BusTypeOK, HandFits,
              AcceptedAccounted, QueueWithinCapacity, capacity, WorkerWithinRun, OwnerKnowsRunning
<1>12. ASSUME ClockStep \/ UNCHANGED pipeVars PROVE PipeInv'
  BY <1>12 DEF ClockStep, pipeVars, busVars, threadVars, ThreadsOK, BusTypeOK, HandFits,
               AcceptedAccounted, QueueWithinCapacity, capacity, WorkerWithinRun, OwnerKnowsRunning
<1> QED
  BY <1>1, <1>2, <1>3, <1>4, <1>5, <1>6, <1>7, <1>8, <1>9, <1>10, <1>11, <1>12
     DEF PipeNext, WorkerStep

\* The invariant holds in every reachable state.
THEOREM PipelineInvariant == PipeSpec => []PipeInv
BY PipeInvInit, PipeInvStep, PTL DEF PipeSpec

\* Every accepted observation is queued, in the worker's hand or done.
THEOREM NothingLost == PipeSpec => []AcceptedAccounted
<1>1. PipeInv => AcceptedAccounted
  BY DEF PipeInv
<1> QED
  BY <1>1, PipelineInvariant, PTL

\* The bus holds at most capacity observations.
THEOREM CapacityKept == PipeSpec => []QueueWithinCapacity
<1>1. PipeInv => QueueWithinCapacity
  BY DEF PipeInv
<1> QED
  BY <1>1, PipelineInvariant, PTL

\* When stop() has returned, or start() was never called, no worker runs.
THEOREM StopJoinsWorker == PipeSpec => []StoppedMeansJoined
<1>1. PipeInv => StoppedMeansJoined
  BY DEF PipeInv, WorkerWithinRun, StoppedMeansJoined
<1> QED
  BY <1>1, PipelineInvariant, PTL

-----------------------------------------------------------------------------
(* The threads implement the sequential intake: an accepted publish() is   *)
(* Accept, process() is Handle, close() is Shut, all else is invisible.    *)

\* A step that leaves the queue, the bus and the observation in hand alone is
\* invisible.
LEMMA InvisibleStep ==
  ASSUME queue' = queue, closed' = closed, inHand' = inHand, workerPc' = workerPc
  PROVE  UNCHANGED Intake!intakeVars
BY DEF Intake!intakeVars, Backlog

\* The worker's hand goes in front of the queue.
LEMMA BacklogWithHand ==
  ASSUME PipeInv
  PROVE  /\ workerPc = "process" => /\ Backlog = <<inHand[1]>> \o queue
                                     /\ inHand[1] \in Observations
         /\ workerPc # "process" => Backlog = queue
         /\ Backlog \in Seq(Observations)
         /\ Len(Backlog) <= Len(queue) + 1
<1>1. queue \in Seq(Observations)
  BY DEF PipeInv, ThreadsOK, BusTypeOK
<1>2. CASE workerPc = "process"
  <2>1. PICK o \in Observations : inHand = <<o>>
    BY <1>2 DEF PipeInv, HandFits
  <2>2. inHand \in Seq(Observations) /\ Len(inHand) = 1 /\ inHand[1] = o
    BY <2>1
  <2>3. Backlog = inHand \o queue
    BY <1>2 DEF Backlog
  <2>4. Backlog \in Seq(Observations) /\ Len(Backlog) = 1 + Len(queue)
    BY ZenonT(30), <1>1, <2>2, <2>3, ConcatProperties
  <2> QED
    BY <1>1, <1>2, <2>1, <2>2, <2>3, <2>4, LenProperties
<1>3. CASE workerPc # "process"
  <2>1. Backlog = <<>> \o queue
    BY <1>3 DEF Backlog, PipeInv, HandFits
  <2>2. Backlog = queue
    BY <1>1, <2>1, ConcatEmptySeq
  <2> QED
    BY <1>1, <1>3, <2>2, LenProperties
<1> QED
  BY <1>2, <1>3

\* The initial states map to the initial state of the intake.
LEMMA IntakeStarts == PipeInit => Intake!IntakeInit
BY ConcatEmptySeq, EmptySeq DEF PipeInit, BusInit, Nothing, Backlog, Intake!IntakeInit

\* Every step maps to a step of the intake or to a stutter.
LEMMA IntakeStep ==
  PipeInv /\ PipeInv' /\ [PipeNext]_pipeVars => [Intake!IntakeNext]_(Intake!intakeVars)
<1> SUFFICES ASSUME PipeInv, PipeInv', [PipeNext]_pipeVars
             PROVE  Intake!IntakeNext \/ UNCHANGED Intake!intakeVars
  OBVIOUS
<1>1. ASSUME StartExchange \/ StartFails \/ StopExchange \/ StopJoin
      PROVE  UNCHANGED Intake!intakeVars
  BY <1>1, InvisibleStep DEF StartExchange, StartFails, StopExchange, StopJoin, busVars
<1>2. ASSUME StartSpawns PROVE UNCHANGED Intake!intakeVars
  <2>1. queue' = queue /\ closed' = closed /\ workerPc # "process" /\ workerPc' # "process"
    BY <1>2 DEF StartSpawns, busVars, PipeInv, WorkerWithinRun
  <2>2. Backlog = queue /\ Backlog' = queue'
    BY <2>1, BacklogWithHand DEF PipeInv, ThreadsOK, BusTypeOK, HandFits, Backlog
  <2> QED
    BY <2>1, <2>2 DEF Intake!intakeVars
<1>3. ASSUME StopClose PROVE Intake!Shut
  <2>1. queue' = queue /\ inHand' = inHand /\ workerPc' = workerPc /\ closed' = TRUE
    BY <1>3 DEF StopClose, BusClose
  <2> QED
    BY <2>1 DEF Intake!Shut, Backlog
<1>4. ASSUME NEW p \in Producers, PublishCheck(p) PROVE UNCHANGED Intake!intakeVars
  BY <1>4, InvisibleStep DEF PublishCheck, busVars
<1>5. ASSUME NEW p \in Producers, NEW o \in Observations, PublishEnqueue(p, o)
      PROVE  Intake!Accept(o) \/ UNCHANGED Intake!intakeVars
  <2>1. BusPublish(o) /\ inHand' = inHand /\ workerPc' = workerPc
    BY <1>5 DEF PublishEnqueue
  <2>2. BusTypeOK(Observations)
    BY DEF PipeInv, ThreadsOK
  <2>3. CASE /\ ~closed
             /\ o.wellFormed
             /\ Len(queue) < capacity
             /\ queue' = Append(queue, o)
             /\ closed' = closed
    <3>1. queue \in Seq(Observations) /\ Len(queue) \in Nat
      BY <2>2, LenProperties DEF BusTypeOK
    <3>2. Len(Backlog) < capacity + 1
      BY <2>3, <3>1, BacklogWithHand, LenProperties, CapacityPositive
    <3>3. Backlog' = Append(Backlog, o)
      <4> DEFINE hand == IF workerPc = "push" THEN <<>> ELSE inHand
      <4>1. hand \in Seq(Observations)
        <5>1. CASE workerPc = "process"
          <6>1. PICK r \in Observations : inHand = <<r>>
            BY <5>1 DEF PipeInv, HandFits
          <6> QED
            BY <5>1, <6>1
        <5>2. CASE workerPc # "process"
          <6>1. hand = <<>>
            BY <5>2 DEF PipeInv, HandFits
          <6> QED
            BY <6>1, EmptySeq
        <5> QED
          BY <5>1, <5>2
      <4>2. Backlog = hand \o queue /\ Backlog' = hand \o Append(queue, o)
        BY <2>1, <2>3 DEF Backlog
      <4> HIDE DEF hand
      <4>3. Append(queue, o) = queue \o <<o>> /\ <<o>> \in Seq(Observations)
        BY <3>1, AppendIsConcat
      <4>4. hand \o (queue \o <<o>>) = (hand \o queue) \o <<o>>
        BY <3>1, <4>1, <4>3, ConcatAssociative
      <4>5. Append(Backlog, o) = Backlog \o <<o>>
        BY BacklogWithHand, AppendIsConcat
      <4> QED
        BY <4>2, <4>3, <4>4, <4>5
    <3> QED
      BY <2>3, <3>2, <3>3 DEF Intake!Accept
  <2>4. CASE queue' = queue /\ closed' = closed
    BY <2>1, <2>4, InvisibleStep
  <2> QED
    BY <2>1, <2>2, <2>3, <2>4, PublishEffect
<1>6. ASSUME WorkerPops PROVE UNCHANGED Intake!intakeVars
  <2>1. queue # <<>> /\ queue' = Tail(queue) /\ closed' = closed
    BY <1>6 DEF WorkerPops, PopHead
  <2>2. workerPc = "wait" /\ workerPc' = "process" /\ inHand' = <<Head(queue)>>
    BY <1>6 DEF WorkerPops
  <2>3. queue \in Seq(Observations)
    BY DEF PipeInv, ThreadsOK, BusTypeOK
  <2>4. Backlog = queue
    BY <2>2, BacklogWithHand
  <2>5. Backlog' = <<Head(queue)>> \o Tail(queue)
    BY <2>1, <2>2 DEF Backlog
  <2>6. <<Head(queue)>> \o Tail(queue) = queue
    BY <2>1, <2>3, HeadTailProperties
  <2> QED
    BY <2>1, <2>4, <2>5, <2>6 DEF Intake!intakeVars
<1>7. ASSUME WorkerTimesOut \/ WorkerChecksClosed PROVE UNCHANGED Intake!intakeVars
  <2>1. queue' = queue /\ closed' = closed /\ inHand' = inHand
    BY <1>7 DEF WorkerTimesOut, WorkerChecksClosed, PopNothing, busVars
  <2>2. workerPc # "push" /\ workerPc' # "push"
    BY <1>7 DEF WorkerTimesOut, WorkerChecksClosed
  <2> QED
    BY <2>1, <2>2 DEF Intake!intakeVars, Backlog
<1>8. ASSUME WorkerProcesses PROVE Intake!Handle
  <2>1. workerPc = "process" /\ queue' = queue /\ closed' = closed
    BY <1>8 DEF WorkerProcesses, busVars
  <2>2. workerPc' = "push" \/ (workerPc' = "wait" /\ inHand' = <<>>)
    BY <1>8 DEF WorkerProcesses, Nothing
  <2>3. queue \in Seq(Observations)
    BY DEF PipeInv, ThreadsOK, BusTypeOK
  <2>4. Backlog' = <<>> \o queue
    BY <2>1, <2>2 DEF Backlog
  <2>5. Backlog' = queue
    BY <2>3, <2>4, ConcatEmptySeq
  <2>6. Backlog = <<inHand[1]>> \o queue /\ inHand[1] \in Observations
    BY <2>1, BacklogWithHand
  <2>7. Backlog # <<>> /\ Tail(Backlog) = queue
    <3>1. <<inHand[1]>> \in Seq(Observations) /\ Len(<<inHand[1]>>) = 1
      BY <2>6
    <3>2. Backlog \in Seq(Observations) /\ Len(Backlog) = 1 + Len(queue)
      BY <2>3, <2>6, <3>1, ConcatProperties
    <3>3. \A i \in 1..Len(queue) : Backlog[i + 1] = queue[i]
      BY <2>3, <2>6, <3>1, ConcatProperties, LenProperties
    <3>4. Backlog # <<>>
      BY <2>3, <3>2, LenProperties
    <3>5. /\ Tail(Backlog) \in Seq(Observations)
          /\ Len(Tail(Backlog)) = Len(Backlog) - 1
          /\ \A i \in 1..Len(Tail(Backlog)) : Tail(Backlog)[i] = Backlog[i + 1]
      BY <3>2, <3>4, HeadTailProperties
    <3> QED
      BY <2>3, <3>2, <3>3, <3>4, <3>5, SeqEqual, LenProperties
  <2> QED
    BY <2>1, <2>5, <2>7 DEF Intake!Handle
<1>9. ASSUME WorkerPushesCandidate PROVE UNCHANGED Intake!intakeVars
  BY <1>9 DEF WorkerPushesCandidate, Nothing, busVars, Intake!intakeVars, Backlog
<1>10. ASSUME NEW id, approve_candidate(id) \/ reject_candidate(id)
       PROVE  UNCHANGED Intake!intakeVars
  BY <1>10, InvisibleStep DEF approve_candidate, reject_candidate, busVars, threadVars
<1>11. ASSUME ClockStep \/ UNCHANGED pipeVars PROVE UNCHANGED Intake!intakeVars
  BY <1>11, InvisibleStep DEF ClockStep, pipeVars, busVars, threadVars
<1> QED
  BY <1>1, <1>2, <1>3, <1>4, <1>5, <1>6, <1>7, <1>8, <1>9, <1>10, <1>11
     DEF PipeNext, WorkerStep, Intake!IntakeNext

\* The threaded pipeline implements the sequential intake: sensors cannot tell
\* the two apart, whatever the interleaving.
THEOREM PipelineImplementsIntake == PipeSpec => ImplementsIntake
<1>1. PipeSpec => []PipeInv
  BY PipelineInvariant
<1> QED
  BY <1>1, IntakeStarts, IntakeStep, PTL DEF PipeSpec, ImplementsIntake, Intake!IntakeSpec

\* The pipeline is safe for every capacity, set of producers and observations.
THEOREM PipelineIsSafe == PipeSpec => []PipelineSafe
BY NothingLost, CapacityKept, StopJoinsWorker, PTL DEF PipelineSafe

-----------------------------------------------------------------------------
(* The candidates.  Each remembers its finding's id; the ids of the list   *)
(* grow, and the finding in the worker's hand is newer than all of them.   *)

CandidateOK(c) ==
  /\ c = [finding_id      |-> c.finding_id,
          approval_state  |-> c.approval_state,
          target_path     |-> c.target_path,
          expected_sha256 |-> c.expected_sha256]
  /\ c.finding_id \in Nat
  /\ c.approval_state \in {"PENDING_APPROVAL", "APPROVED", "REJECTED"}

CandidatesOK ==
  /\ candidates = [i \in 1..Len(candidates) |-> candidates[i]]
  /\ Len(candidates) \in 0..MAX_CANDIDATES
  /\ \A i \in 1..Len(candidates) :
       CandidateOK(candidates[i]) /\ candidates[i].finding_id < next_finding_id
  /\ \A i, j \in 1..Len(candidates) : i < j => candidates[i].finding_id < candidates[j].finding_id

\* Between ingest() and the push only the worker itself could raise another
\* finding, so what it holds is still the newest one.
HandIsLatest ==
  workerPc = "push" =>
    /\ Len(findings) >= 1
    /\ inHand[1] = findings[Len(findings)]
    /\ decide(inHand[1])
    /\ \A i \in 1..Len(candidates) : candidates[i].finding_id < inHand[1].id

ProducersOK == producerPc \in [Producers -> {"idle", "publishing"}] /\ published \in Nat

CandInv ==
  /\ CorrInv
  /\ ProducersOK
  /\ CandidatesOK
  /\ HandIsLatest
  /\ CandidatesJustified

\* The initial state.
LEMMA CandInvInit == PipeInit => CandInv
<1> SUFFICES ASSUME PipeInit PROVE CandInv
  OBVIOUS
<1>1. CorrInv
  BY CorrInvInit DEF PipeInit
<1>2. Len(candidates) = 0 /\ candidates = <<>> /\ workerPc = "none"
  BY DEF PipeInit
<1> QED
  BY <1>1, <1>2, PipelineConstants
     DEF PipeInit, CandInv, ProducersOK, CandidatesOK, HandIsLatest, CandidatesJustified

\* To correlation, a step of the pipeline is one of its own steps.
LEMMA PipeStepCorrelates == PipeInv /\ [PipeNext]_pipeVars => [CorrNext]_corrVars
<1> SUFFICES ASSUME PipeInv, [PipeNext]_pipeVars PROVE CorrNext \/ UNCHANGED corrVars
  OBVIOUS
<1>1. CASE WorkerProcesses
  <2>1. inHand[1] \in Observations
    BY <1>1 DEF WorkerProcesses, PipeInv, HandFits
  <2> QED
    BY <1>1, <2>1 DEF WorkerProcesses, CorrNext
<1>2. CASE ClockStep
  BY <1>2 DEF ClockStep, CorrNext
<1> QED
  BY <1>1, <1>2 DEF PipeNext, WorkerStep, StartExchange, StartFails, StartSpawns, StopExchange,
     StopClose, StopJoin, PublishCheck, PublishEnqueue, WorkerPops, WorkerTimesOut, WorkerChecksClosed,
     WorkerPushesCandidate, approve_candidate, reject_candidate, pipeVars

\* The steps that touch neither the candidates nor the history nor the hand
\* of a worker about to push.
LEMMA QuietPipeStep ==
  ASSUME CandInv, CorrInv', ProducersOK', UNCHANGED <<candidates, findings, next_finding_id>>,
         workerPc' = "push" => workerPc = "push" /\ inHand' = inHand
  PROVE  CandInv'
<1>1. CandidatesOK' /\ CandidatesJustified'
  BY DEF CandInv, CandidatesOK, CandidatesJustified
<1>2. HandIsLatest'
  BY DEF CandInv, HandIsLatest
<1> QED
  BY <1>1, <1>2 DEF CandInv

\* The ids of the history name one finding each, the last one the newest.
LEMMA HistoryIds ==
  ASSUME CorrInv
  PROVE  /\ DOMAIN findings = 1..Len(findings)
         /\ Len(findings) \in Nat
         /\ next_finding_id \in Nat
         /\ \A j \in 1..Len(findings) : findings[j].id = next_finding_id - 1 - (Len(findings) - j)
<1>1. DOMAIN findings = 1..Len(findings) /\ FindingIdsConsecutive
  BY DEF CorrInv, HistoryOK
<1>2. Len(findings) \in 0..MAX_FINDINGS /\ next_finding_id \in Nat
  BY DEF CorrInv, HistoryOK
<1> QED
  BY <1>1, <1>2, CorrelationConstants DEF FindingIdsConsecutive

\* process(): a new finding is newer than every candidate.
LEMMA ProcessKeepsCandidates ==
  ASSUME PipeInv, CandInv, CorrInv', WorkerProcesses
  PROVE  CandInv'
<1>1. UNCHANGED <<candidates, producerPc, published>>
  BY DEF WorkerProcesses
<1>2. ProducersOK'
  BY <1>1 DEF CandInv, ProducersOK
<1>3. CASE ~RaisesFinding
  <2>1. workerPc' = "wait"
    BY <1>3 DEF WorkerProcesses
  <2>2. UNCHANGED <<findings, next_finding_id>>
    BY <1>3 DEF WorkerProcesses, RaisesFinding, ingest, IngestInvalid, IngestDuplicate, IngestQuietly,
                IngestFinding, corrVars, CandInv, CorrInv
  <2> QED
    BY <1>1, <1>2, <2>1, <2>2, QuietPipeStep
<1>4. CASE RaisesFinding
  <2>1. inHand[1] \in Observations
    BY DEF WorkerProcesses, PipeInv, HandFits
  <2>2. IngestFinding(inHand[1])
    BY <1>4 DEF WorkerProcesses, RaisesFinding, ingest, IngestInvalid, IngestDuplicate, IngestQuietly,
                corrVars
  <2>3. next_finding_id' = next_finding_id + 1
    BY <2>2 DEF IngestFinding
  <2>4. PICK f : findings' = PushBounded(findings, f, MAX_FINDINGS)
    BY <2>2 DEF IngestFinding
  <2>5. /\ Len(findings') \in 1..MAX_FINDINGS
        /\ \A j \in 1..(Len(findings') - 1) :
             /\ j + Len(findings) + 1 - Len(findings') \in 1..Len(findings)
             /\ findings'[j] = findings[j + Len(findings) + 1 - Len(findings')]
    BY <2>4, FindingStored DEF CandInv
  <2>6. /\ DOMAIN findings' = 1..Len(findings') /\ DOMAIN findings = 1..Len(findings)
        /\ Len(findings') \in Nat /\ Len(findings) \in Nat
        /\ next_finding_id \in Nat
        /\ findings'[Len(findings')].id = next_finding_id
    <3>1. /\ DOMAIN findings = 1..Len(findings) /\ Len(findings) \in Nat /\ next_finding_id \in Nat
      BY HistoryIds DEF CandInv
    <3>2. /\ DOMAIN findings' = 1..Len(findings') /\ Len(findings') \in Nat
          /\ \A j \in 1..Len(findings') : findings'[j].id = next_finding_id' - 1 - (Len(findings') - j)
      BY CorrelationConstants DEF CorrInv, HistoryOK, FindingIdsConsecutive
    <3>3. Len(findings') \in 1..Len(findings')
      BY <2>5, <3>2
    <3> QED
      BY <2>3, <3>1, <3>2, <3>3
  <2>7. CandidatesOK'
    BY <1>1, <2>3, <2>6 DEF CandInv, CandidatesOK, CandidateOK
  <2>8. HandIsLatest'
    <3> SUFFICES ASSUME workerPc' = "push" PROVE HandIsLatest'
      BY DEF HandIsLatest
    <3>1. decide(Raised) /\ inHand' = <<Raised>>
      BY DEF WorkerProcesses
    <3>2. inHand'[1] = findings'[Len(findings')]
      BY <3>1 DEF Raised
    <3>3. decide(inHand'[1])
      BY <3>1
    <3>4. \A i \in 1..Len(candidates') : candidates'[i].finding_id < inHand'[1].id
      BY <1>1, <2>6, <3>2 DEF CandInv, CandidatesOK
    <3>5. decide(inHand[1])'
      BY <3>3 DEF decide, is_protected_path
    <3> QED
      BY <2>5, <2>6, <3>2, <3>4, <3>5 DEF HandIsLatest
  <2>9. CandidatesJustified'
    <3> SUFFICES ASSUME NEW i \in DOMAIN candidates, NEW j \in DOMAIN findings',
                        candidates[i].finding_id = findings'[j].id
                 PROVE  /\ decide(findings'[j])
                        /\ candidates[i].target_path = findings'[j].file_path
                        /\ candidates[i].expected_sha256 = findings'[j].sha256
      BY <1>1 DEF CandidatesJustified, decide, is_protected_path
    <3>1. i \in 1..Len(candidates)
      BY DEF CandInv, CandidatesOK
    <3>2. candidates[i].finding_id < next_finding_id /\ candidates[i].finding_id \in Nat
      BY <3>1 DEF CandInv, CandidatesOK, CandidateOK
    <3>3. j \in 1..(Len(findings') - 1)
      BY <2>6, <3>2
    <3>4. PICK n \in DOMAIN findings : findings'[j] = findings[n]
      BY <2>5, <2>6, <3>3
    <3> QED
      BY <3>4 DEF CandInv, CandidatesJustified
  <2> QED
    BY <1>2, <2>7, <2>8, <2>9 DEF CandInv
<1> QED
  BY <1>3, <1>4

\* The new list, before anything is known of the new candidate.
LEMMA CandidateStored ==
  ASSUME CandInv, NEW c, candidates' = PushBounded(candidates, c, MAX_CANDIDATES)
  PROVE  /\ candidates' = [i \in 1..Len(candidates') |-> candidates'[i]]
         /\ Len(candidates') \in 1..MAX_CANDIDATES
         /\ Len(candidates') \in {Len(candidates), Len(candidates) + 1}
         /\ candidates'[Len(candidates')] = c
         /\ \A i \in 1..(Len(candidates') - 1) :
              candidates'[i] = candidates[i + Len(candidates) + 1 - Len(candidates')]
<1>1. /\ candidates = [i \in 1..Len(candidates) |-> candidates[i]]
      /\ Len(candidates) \in 0..MAX_CANDIDATES
      /\ MAX_CANDIDATES \in Nat \ {0}
  BY PipelineConstants DEF CandInv, CandidatesOK
<1> QED
  BY <1>1, PushEffect

\* What the push does to the list: the new candidate comes last and is newer
\* than every other, the others keep their order and at most one is dropped.
LEMMA PushedCandidate ==
  ASSUME PipeInv, CandInv, WorkerPushesCandidate
  PROVE  LET c   == candidate_for(inHand[1])
             off == Len(candidates) + 1 - Len(candidates')
         IN  /\ candidates' = [i \in 1..Len(candidates') |-> candidates'[i]]
             /\ Len(candidates') \in 1..MAX_CANDIDATES
             /\ Len(candidates') \in Nat /\ Len(candidates) \in Nat
             /\ candidates'[Len(candidates')] = c
             /\ CandidateOK(c) /\ c.approval_state = "PENDING_APPROVAL"
             /\ c.finding_id = inHand[1].id /\ c.finding_id < next_finding_id
             /\ \A i \in 1..Len(candidates) : candidates[i].finding_id < c.finding_id
             /\ off \in {0, 1}
             /\ \A i \in 1..(Len(candidates') - 1) :
                  i + off \in 1..Len(candidates) /\ candidates'[i] = candidates[i + off]
<1> DEFINE c == candidate_for(inHand[1])
           m == Len(candidates)
           n == Len(candidates')
<1>1. candidates' = PushBounded(candidates, c, MAX_CANDIDATES) /\ workerPc = "push"
  BY DEF WorkerPushesCandidate
<1>2. /\ candidates = [i \in 1..m |-> candidates[i]]
      /\ m \in 0..MAX_CANDIDATES
      /\ MAX_CANDIDATES \in Nat \ {0}
  BY PipelineConstants DEF CandInv, CandidatesOK
<1>3. /\ candidates' = [i \in 1..n |-> candidates'[i]]
      /\ n \in 1..MAX_CANDIDATES
      /\ n \in {m, m + 1}
      /\ candidates'[n] = c
      /\ \A i \in 1..(n - 1) : candidates'[i] = candidates[i + m + 1 - n]
  BY <1>1, CandidateStored
<1>4. /\ inHand[1].id \in Nat /\ inHand[1].id < next_finding_id
      /\ \A i \in 1..m : candidates[i].finding_id < inHand[1].id
  <2>1. /\ Len(findings) >= 1 /\ inHand[1] = findings[Len(findings)]
        /\ \A i \in 1..m : candidates[i].finding_id < inHand[1].id
    BY <1>1 DEF CandInv, HandIsLatest
  <2>2. /\ Len(findings) \in Nat /\ next_finding_id \in Nat
        /\ \A j \in 1..Len(findings) : findings[j].id = next_finding_id - 1 - (Len(findings) - j)
    BY HistoryIds DEF CandInv
  <2>3. Len(findings) \in 1..Len(findings)
    BY <2>1, <2>2
  <2>4. inHand[1].id \in Nat
    BY <2>1, <2>3 DEF CandInv, CorrInv, HistoryOK, FindingOK
  <2> QED
    BY <2>1, <2>2, <2>3, <2>4
<1>5. c = [finding_id |-> inHand[1].id, approval_state |-> "PENDING_APPROVAL",
           target_path |-> inHand[1].file_path, expected_sha256 |-> inHand[1].sha256]
  BY DEF candidate_for
<1>6. CandidateOK(c) /\ c.approval_state = "PENDING_APPROVAL" /\ c.finding_id = inHand[1].id
  BY <1>4, <1>5 DEF CandidateOK
<1>7. m \in Nat /\ n \in Nat /\ m + 1 - n \in {0, 1}
  <2>1. m \in 0..MAX_CANDIDATES /\ n \in 1..MAX_CANDIDATES /\ n \in {m, m + 1}
    BY <1>2, <1>3
  <2> HIDE DEF m, n
  <2> QED
    BY <2>1, PipelineConstants
<1>8. \A i \in 1..(n - 1) : i + (m + 1 - n) \in 1..m /\ i + (m + 1 - n) = i + m + 1 - n
  <2> HIDE DEF m, n
  <2> QED
    BY <1>7
<1>9. \A i \in 1..(n - 1) : i + (m + 1 - n) \in 1..m /\ candidates'[i] = candidates[i + (m + 1 - n)]
  <2> HIDE DEF m, n
  <2> QED
    BY <1>3, <1>8
<1> QED
  BY <1>3, <1>4, <1>6, <1>7, <1>9

\* The push keeps the candidates sorted and justified.
LEMMA PushKeepsCandidates ==
  ASSUME PipeInv, CandInv, CorrInv', WorkerPushesCandidate
  PROVE  CandInv'
<1> DEFINE c   == candidate_for(inHand[1])
           m   == Len(candidates)
           n   == Len(candidates')
           off == m + 1 - n
<1>1. UNCHANGED <<findings, next_finding_id, producerPc, published>> /\ workerPc' = "wait" /\ workerPc = "push"
  BY DEF WorkerPushesCandidate, corrVars
<1>2. /\ candidates' = [i \in 1..n |-> candidates'[i]]
      /\ n \in 1..MAX_CANDIDATES
      /\ n \in Nat /\ m \in Nat
      /\ candidates'[n] = c
      /\ CandidateOK(c)
      /\ c.finding_id = inHand[1].id /\ c.finding_id < next_finding_id
      /\ \A i \in 1..m : candidates[i].finding_id < c.finding_id
      /\ off \in {0, 1}
      /\ \A i \in 1..(n - 1) : i + off \in 1..m /\ candidates'[i] = candidates[i + off]
  BY PushedCandidate
<1>3. /\ \A i \in 1..m : CandidateOK(candidates[i]) /\ candidates[i].finding_id < next_finding_id
      /\ \A i, j \in 1..m : i < j => candidates[i].finding_id < candidates[j].finding_id
  BY DEF CandInv, CandidatesOK
<1>4. c = [finding_id |-> inHand[1].id, approval_state |-> "PENDING_APPROVAL",
           target_path |-> inHand[1].file_path, expected_sha256 |-> inHand[1].sha256]
  BY DEF candidate_for
<1>5. CandidatesOK'
  <2> HIDE DEF m, n, off
  <2>1. \A i \in 1..n : CandidateOK(candidates'[i]) /\ candidates'[i].finding_id < next_finding_id
    <3> TAKE i \in 1..n
    <3>1. CASE i = n
      BY <1>2, <3>1
    <3>2. CASE i # n
      <4>1. i \in 1..(n - 1)
        BY <1>2, <3>2
      <4> QED
        BY <1>2, <1>3, <4>1
    <3> QED
      BY <3>1, <3>2
  <2>2. \A i, j \in 1..n : i < j => candidates'[i].finding_id < candidates'[j].finding_id
    <3> SUFFICES ASSUME NEW i \in 1..n, NEW j \in 1..n, i < j
                 PROVE  candidates'[i].finding_id < candidates'[j].finding_id
      OBVIOUS
    <3>0. i \in 1..(n - 1)
      BY <1>2
    <3>1. i + off \in 1..m /\ candidates'[i] = candidates[i + off]
      BY <1>2, <3>0
    <3>2. CASE j = n
      BY <1>2, <3>1, <3>2
    <3>3. CASE j # n
      <4>0. j \in 1..(n - 1)
        BY <1>2, <3>3
      <4>1. j + off \in 1..m /\ candidates'[j] = candidates[j + off]
        BY <1>2, <4>0
      <4>2. i + off < j + off
        BY <1>2
      <4> QED
        BY <1>3, <3>1, <4>1, <4>2
    <3> QED
      BY <3>2, <3>3
  <2>3. n \in 0..MAX_CANDIDATES
    BY <1>2
  <2> QED
    BY <1>1, <1>2, <2>1, <2>2, <2>3 DEF n, CandidatesOK, CandidateOK
<1>6. CandidatesJustified'
  <2> SUFFICES ASSUME NEW i \in DOMAIN candidates', NEW j \in DOMAIN findings,
                      candidates'[i].finding_id = findings[j].id
               PROVE  /\ decide(findings[j])
                      /\ candidates'[i].target_path = findings[j].file_path
                      /\ candidates'[i].expected_sha256 = findings[j].sha256
    BY <1>1 DEF CandidatesJustified, decide, is_protected_path
  <2> HIDE DEF m, n, off
  <2>1. i \in 1..n
    BY <1>2
  <2>2. CASE i = n
    <3>1. /\ decide(inHand[1]) /\ inHand[1] = findings[Len(findings)] /\ Len(findings) >= 1
      BY <1>1 DEF CandInv, HandIsLatest
    <3>2. /\ j \in 1..Len(findings) /\ Len(findings) \in Nat /\ next_finding_id \in Nat
          /\ \A k \in 1..Len(findings) : findings[k].id = next_finding_id - 1 - (Len(findings) - k)
      BY HistoryIds DEF CandInv
    <3>3. findings[j].id = inHand[1].id
      BY <1>2, <2>2
    <3>4. j = Len(findings)
      BY <3>1, <3>2, <3>3
    <3>5. candidates'[i].target_path = inHand[1].file_path /\ candidates'[i].expected_sha256 = inHand[1].sha256
      BY <1>2, <1>4, <2>2
    <3> QED
      BY <3>1, <3>4, <3>5
  <2>3. CASE i # n
    <3>0. i \in 1..(n - 1)
      BY <1>2, <2>1, <2>3
    <3>1. i + off \in 1..m /\ candidates'[i] = candidates[i + off]
      BY <1>2, <3>0
    <3>2. i + off \in DOMAIN candidates
      BY <3>1 DEF m, CandInv, CandidatesOK
    <3> QED
      BY <3>1, <3>2 DEF CandInv, CandidatesJustified
  <2> QED
    BY <2>2, <2>3
<1>7. ProducersOK' /\ HandIsLatest'
  BY <1>1 DEF CandInv, ProducersOK, HandIsLatest
<1> QED
  BY <1>5, <1>6, <1>7 DEF CandInv

\* A decision changes the state of one pending candidate and nothing else.
LEMMA TransitionEffect ==
  ASSUME CandInv, NEW id, NEW target \in {"APPROVED", "REJECTED"}, transition_candidate(id, target)
  PROVE  \E d \in 1..Len(candidates) :
           /\ candidates[d].approval_state = "PENDING_APPROVAL"
           /\ Len(candidates') = Len(candidates)
           /\ candidates' = [i \in 1..Len(candidates') |-> candidates'[i]]
           /\ \A i \in 1..Len(candidates) : i # d => candidates'[i] = candidates[i]
           /\ CandidateOK(candidates'[d])
           /\ candidates'[d].finding_id = candidates[d].finding_id
           /\ candidates'[d].target_path = candidates[d].target_path
           /\ candidates'[d].expected_sha256 = candidates[d].expected_sha256
<1>1. candidates = [i \in 1..Len(candidates) |-> candidates[i]] /\ Len(candidates) \in Nat
  BY PipelineConstants DEF CandInv, CandidatesOK
<1>2. DOMAIN candidates = 1..Len(candidates)
  BY <1>1
<1>3. PICK d \in 1..Len(candidates) :
        /\ candidates[d].approval_state = "PENDING_APPROVAL"
        /\ candidates' = [candidates EXCEPT ![d].approval_state = target]
  BY <1>2 DEF transition_candidate, First
<1>4. CandidateOK(candidates[d])
  BY <1>3 DEF CandInv, CandidatesOK
<1>5. /\ DOMAIN candidates' = 1..Len(candidates)
      /\ candidates' = [i \in 1..Len(candidates) |-> candidates'[i]]
      /\ \A i \in 1..Len(candidates) : i # d => candidates'[i] = candidates[i]
      /\ candidates'[d] = [candidates[d] EXCEPT !.approval_state = target]
  BY <1>1, <1>2, <1>3
<1>6. Len(candidates') = Len(candidates)
  BY <1>1, <1>5
<1>7. candidates'[d] = [finding_id      |-> candidates[d].finding_id,
                        approval_state  |-> target,
                        target_path     |-> candidates[d].target_path,
                        expected_sha256 |-> candidates[d].expected_sha256]
  BY <1>4, <1>5 DEF CandidateOK
<1>8. CandidateOK(candidates'[d])
  BY <1>4, <1>7 DEF CandidateOK
<1> QED
  BY <1>3, <1>5, <1>6, <1>7, <1>8

\* The operator's decision (approve_candidate, reject_candidate) changes the
\* state of one candidate and keeps the list justified.
LEMMA DecisionKeepsCandidates ==
  ASSUME CandInv, CorrInv', NEW id, approve_candidate(id) \/ reject_candidate(id)
  PROVE  CandInv'
<1>1. UNCHANGED <<findings, next_finding_id, producerPc, published, workerPc, inHand>>
  BY DEF approve_candidate, reject_candidate, corrVars, threadVars
<1>2. PICK d \in 1..Len(candidates) :
        /\ Len(candidates') = Len(candidates)
        /\ candidates' = [i \in 1..Len(candidates') |-> candidates'[i]]
        /\ \A i \in 1..Len(candidates) : i # d => candidates'[i] = candidates[i]
        /\ CandidateOK(candidates'[d])
        /\ candidates'[d].finding_id = candidates[d].finding_id
        /\ candidates'[d].target_path = candidates[d].target_path
        /\ candidates'[d].expected_sha256 = candidates[d].expected_sha256
  <2>1. \E target \in {"APPROVED", "REJECTED"} : transition_candidate(id, target)
    BY DEF approve_candidate, reject_candidate
  <2> QED
    BY <2>1, TransitionEffect
<1>3. /\ \A i \in 1..Len(candidates) : CandidateOK(candidates[i])
                                       /\ candidates[i].finding_id < next_finding_id
      /\ \A i, j \in 1..Len(candidates) : i < j => candidates[i].finding_id < candidates[j].finding_id
      /\ Len(candidates) \in 0..MAX_CANDIDATES
      /\ DOMAIN candidates = 1..Len(candidates)
  BY DEF CandInv, CandidatesOK
<1>4. \A i \in 1..Len(candidates) :
        /\ CandidateOK(candidates'[i])
        /\ candidates'[i].finding_id = candidates[i].finding_id
        /\ candidates'[i].target_path = candidates[i].target_path
        /\ candidates'[i].expected_sha256 = candidates[i].expected_sha256
  BY <1>2, <1>3
<1>5. CandidatesOK'
  BY <1>1, <1>2, <1>3, <1>4 DEF CandidatesOK, CandidateOK
<1>6. CandidatesJustified'
  <2>1. DOMAIN candidates' = 1..Len(candidates)
    BY <1>2
  <2> QED
    BY <1>1, <1>3, <1>4, <2>1 DEF CandInv, CandidatesJustified, decide, is_protected_path
<1>7. HandIsLatest'
  BY <1>1, <1>2, <1>4 DEF CandInv, HandIsLatest, decide, is_protected_path
<1>8. ProducersOK'
  BY <1>1 DEF CandInv, ProducersOK
<1> QED
  BY <1>5, <1>6, <1>7, <1>8 DEF CandInv

\* Every step keeps the candidates sorted and justified.
LEMMA CandInvStep == PipeInv /\ CandInv /\ [PipeNext]_pipeVars => CandInv'
<1> SUFFICES ASSUME PipeInv, CandInv, [PipeNext]_pipeVars PROVE CandInv'
  OBVIOUS
<1>1. CorrInv'
  BY PipeStepCorrelates, CorrInvStep DEF CandInv
<1>2. CASE StartExchange \/ StartFails \/ StartSpawns \/ StopExchange \/ StopClose \/ StopJoin
  <2>1. ProducersOK' /\ UNCHANGED <<candidates, findings, next_finding_id, inHand>>
    BY <1>2 DEF StartExchange, StartFails, StartSpawns, StopExchange, StopClose, StopJoin, corrVars,
                CandInv, ProducersOK
  <2>2. workerPc' = "push" => workerPc = "push"
    BY <1>2 DEF StartExchange, StartFails, StartSpawns, StopExchange, StopClose, StopJoin
  <2> QED
    BY <1>1, <2>1, <2>2, QuietPipeStep
<1>3. ASSUME NEW p \in Producers, PublishCheck(p) PROVE CandInv'
  <2>1. /\ ProducersOK'
        /\ UNCHANGED <<candidates, findings, next_finding_id, inHand, workerPc>>
    BY <1>3 DEF PublishCheck, corrVars, CandInv, ProducersOK
  <2> QED
    BY <1>1, <2>1, QuietPipeStep
<1>4. ASSUME NEW p \in Producers, NEW o \in Observations, PublishEnqueue(p, o) PROVE CandInv'
  <2>1. /\ ProducersOK'
        /\ UNCHANGED <<candidates, findings, next_finding_id, inHand, workerPc>>
    BY <1>4 DEF PublishEnqueue, corrVars, CandInv, ProducersOK
  <2> QED
    BY <1>1, <2>1, QuietPipeStep
<1>5. CASE WorkerPops \/ WorkerTimesOut \/ WorkerChecksClosed
  <2>1. ProducersOK' /\ UNCHANGED <<candidates, findings, next_finding_id>> /\ workerPc' # "push"
    BY <1>5 DEF WorkerPops, WorkerTimesOut, WorkerChecksClosed, corrVars, CandInv, ProducersOK
  <2> QED
    BY <1>1, <2>1, QuietPipeStep
<1>6. CASE WorkerProcesses
  BY <1>1, <1>6, ProcessKeepsCandidates
<1>7. CASE WorkerPushesCandidate
  BY <1>1, <1>7, PushKeepsCandidates
<1>8. ASSUME NEW id, approve_candidate(id) \/ reject_candidate(id) PROVE CandInv'
  BY <1>1, <1>8, DecisionKeepsCandidates
<1>9. CASE ClockStep
  <2>1. /\ ProducersOK'
        /\ UNCHANGED <<candidates, findings, next_finding_id, inHand, workerPc>>
    BY <1>9 DEF ClockStep, ClockAdvances, ClockSetBack, threadVars, CandInv, ProducersOK
  <2> QED
    BY <1>1, <2>1, QuietPipeStep
<1>10. CASE UNCHANGED pipeVars
  <2>1. /\ ProducersOK'
        /\ UNCHANGED <<candidates, findings, next_finding_id, inHand, workerPc>>
    BY <1>10 DEF pipeVars, threadVars, corrVars, CandInv, ProducersOK
  <2> QED
    BY <1>1, <2>1, QuietPipeStep
<1> QED
  BY <1>2, <1>3, <1>4, <1>5, <1>6, <1>7, <1>8, <1>9, <1>10 DEF PipeNext, WorkerStep

\* The candidates are sorted and justified in every reachable state.
THEOREM CandidateInvariant == PipeSpec => [](PipeInv /\ CandInv)
BY CandInvInit, CandInvStep, PipelineInvariant, PTL DEF PipeSpec

\* Every candidate shown to the user is well formed and repeats the target
\* and the hash of a finding that the policy lets through.
THEOREM CandidatesAreSound == PipeSpec => []CandidatesSound
<1>1. PipeInv /\ CandInv => CandidatesSound
  <2> SUFFICES ASSUME PipeInv, CandInv PROVE CandidatesSound
    OBVIOUS
  <2>1. Len(inHand) = IF workerPc \in {"process", "push"} THEN 1 ELSE 0
    BY DEF PipeInv, HandFits, ThreadsOK
  <2>2. \A i \in DOMAIN candidates :
          candidates[i].approval_state \in {"PENDING_APPROVAL", "APPROVED", "REJECTED"}
    BY DEF CandInv, CandidatesOK, CandidateOK
  <2> QED
    BY <2>1, <2>2 DEF CandidatesSound, PipeTypeOK, PipeInv, ThreadsOK, CandInv, ProducersOK
<1> QED
  BY <1>1, CandidateInvariant, PTL

\* A new candidate is newer than every earlier one.
LEMMA PushIsNewest ==
  ASSUME PipeInv, CandInv, [PipeNext]_pipeVars, workerPc = "push", workerPc' = "wait",
         NEW i \in DOMAIN candidates
  PROVE  candidates'[Len(candidates')].finding_id > candidates[i].finding_id
<1>1. WorkerPushesCandidate
  <2>1. ~StartSpawns
    BY DEF StartSpawns, PipeInv, WorkerWithinRun
  <2> QED
    BY <2>1 DEF PipeNext, WorkerStep, StartExchange, StartFails, StopExchange, StopClose, StopJoin, PublishCheck,
      PublishEnqueue, WorkerPops, WorkerTimesOut, WorkerChecksClosed, WorkerProcesses, approve_candidate,
      reject_candidate, ClockStep, threadVars, pipeVars
<1>2. i \in 1..Len(candidates) /\ candidates[i].finding_id \in Nat
  BY DEF CandInv, CandidatesOK, CandidateOK
<1>3. /\ candidates'[Len(candidates')].finding_id \in Nat
      /\ candidates[i].finding_id < candidates'[Len(candidates')].finding_id
  BY <1>1, <1>2, PushedCandidate DEF CandidateOK
<1> QED
  BY <1>2, <1>3

\* A decided candidate is found unchanged, under its id, after every step.
LEMMA DecidedStays ==
  ASSUME PipeInv, CandInv, [PipeNext]_pipeVars,
         NEW i \in DOMAIN candidates, candidates[i].approval_state # "PENDING_APPROVAL",
         NEW j \in DOMAIN candidates', candidates'[j].finding_id = candidates[i].finding_id
  PROVE  candidates'[j] = candidates[i]
<1>1. /\ i \in 1..Len(candidates) /\ DOMAIN candidates = 1..Len(candidates) /\ Len(candidates) \in Nat
      /\ \A a \in 1..Len(candidates) : candidates[a].finding_id \in Nat
      /\ \A a, b \in 1..Len(candidates) : a < b => candidates[a].finding_id < candidates[b].finding_id
  BY PipelineConstants DEF CandInv, CandidatesOK, CandidateOK
<1>2. \A a, b \in 1..Len(candidates) : candidates[a].finding_id = candidates[b].finding_id => a = b
  <2> TAKE a, b \in 1..Len(candidates)
  <2>1. a < b \/ b < a \/ a = b
    BY <1>1
  <2>2. candidates[a].finding_id \in Nat /\ candidates[b].finding_id \in Nat
    BY <1>1
  <2>3. (a < b => candidates[a].finding_id < candidates[b].finding_id)
        /\ (b < a => candidates[b].finding_id < candidates[a].finding_id)
    BY <1>1
  <2> QED
    BY <2>1, <2>2, <2>3
<1>3. CASE UNCHANGED candidates
  BY <1>1, <1>2, <1>3
<1>4. CASE WorkerPushesCandidate
  <2> DEFINE n   == Len(candidates')
             off == Len(candidates) + 1 - n
  <2>1. /\ candidates' = [k \in 1..n |-> candidates'[k]]
        /\ n \in Nat
        /\ \A k \in 1..Len(candidates) : candidates[k].finding_id < candidates'[n].finding_id
        /\ \A k \in 1..(n - 1) : k + off \in 1..Len(candidates) /\ candidates'[k] = candidates[k + off]
    BY <1>4, PushedCandidate
  <2>2. j \in 1..n
    BY <2>1
  <2>3. j # n
    BY <1>1, <2>1
  <2>4. j \in 1..(n - 1)
    <3> HIDE DEF n
    <3> QED
      BY <2>1, <2>2, <2>3
  <2>5. j + off \in 1..Len(candidates) /\ candidates'[j] = candidates[j + off]
    BY <2>1, <2>4
  <2> QED
    BY <1>1, <1>2, <2>5
<1>5. ASSUME NEW id, approve_candidate(id) \/ reject_candidate(id) PROVE candidates'[j] = candidates[i]
  <2>1. \E target \in {"APPROVED", "REJECTED"} : transition_candidate(id, target)
    BY <1>5 DEF approve_candidate, reject_candidate
  <2>2. PICK d \in 1..Len(candidates) :
          /\ candidates[d].approval_state = "PENDING_APPROVAL"
          /\ Len(candidates') = Len(candidates)
          /\ candidates' = [k \in 1..Len(candidates') |-> candidates'[k]]
          /\ \A k \in 1..Len(candidates) : k # d => candidates'[k] = candidates[k]
          /\ candidates'[d].finding_id = candidates[d].finding_id
    BY <2>1, TransitionEffect
  <2>3. j \in 1..Len(candidates)
    BY <2>2
  <2>4. candidates'[j].finding_id = candidates[j].finding_id
    BY <2>2, <2>3
  <2>5. j = i
    BY <1>1, <1>2, <2>3, <2>4
  <2> QED
    BY <1>1, <2>2, <2>5
<1> QED
  BY <1>3, <1>4, <1>5 DEF PipeNext, WorkerStep, StartExchange, StartFails, StartSpawns, StopExchange,
     StopClose, StopJoin, PublishCheck, PublishEnqueue, WorkerPops, WorkerTimesOut, WorkerChecksClosed,
     WorkerProcesses, ClockStep, pipeVars

\* A decision stays with the candidate it was made about: ids are never
\* reused and nothing takes a decision back.
THEOREM DecisionsAreKept == PipeSpec => DecisionsKept
<1>1. PipeInv /\ CandInv /\ [PipeNext]_pipeVars =>
        [workerPc = "push" /\ workerPc' = "wait" =>
           \A i \in DOMAIN candidates :
             candidates'[Len(candidates')].finding_id > candidates[i].finding_id]_pipeVars
  BY PushIsNewest
<1>2. PipeInv /\ CandInv /\ [PipeNext]_pipeVars =>
        [\A i \in DOMAIN candidates :
           candidates[i].approval_state # "PENDING_APPROVAL" =>
             \A j \in DOMAIN candidates' :
               candidates'[j].finding_id = candidates[i].finding_id =>
                 candidates'[j] = candidates[i]]_pipeVars
  BY DecidedStays
<1> QED
  BY <1>1, <1>2, CandidateInvariant, PTL
     DEF PipeSpec, DecisionsKept, CandidateIdsNeverReused, DecisionsAreFinal
=============================================================================

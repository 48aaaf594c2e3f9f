------------------------ MODULE EngineManagerProofs ------------------------
(***************************************************************************)
(* EngineManager, proved for any number of engines, any surroundings and   *)
(* any order of start_all() and stop_all(): sensors live within the life   *)
(* of the pipeline, stop_all() leaves nothing running, and the ETW report  *)
(* is honest.                                                              *)
(***************************************************************************)
EXTENDS EngineManager, SequenceTheorems, TLAPS

\* The part of the type invariant the argument needs.
StatesOK ==
  /\ engine \in [1..NumEngines -> {"stopped", "alive", "hollow", "ending", "ended"}]
  /\ at \in 1..NumEngines
  /\ call \in {"idle"} \union StartLabels \union StopLabels
  /\ etw \in {"off", "live", "lost", "closing"}
  /\ poll \in {"none", "sleeping", "sweeping", "sampling", "done"}

\* start_all() is past its first step only with a running pipeline.
StartHasPipeline == call \in StartLabels => pipeline = "running"

\* How far stop_all() has come with the polling thread ...
PollTakenDown ==
  /\ call \in StopLabels => ~poll_running
  /\ call \in StopLabels \ {"t_poll"} => poll = "none"

\* ... with the engines: the ones before at are stopped, and only the one at
\* hand can be on its way down ...
EnginesTakenDown ==
  /\ \A e \in 1..NumEngines :
       engine[e] \in {"ending", "ended"} => call = "t_join" /\ e = at
  /\ call \in {"t_engines", "t_join"} => \A e \in 1..(at - 1) : engine[e] = "stopped"
  /\ call \in {"t_etw", "t_consumer", "t_pipeline"} =>
       \A e \in 1..NumEngines : engine[e] = "stopped"
  /\ call \in {"idle", "s_etw", "t_poll"} => at = 1

\* ... and with the ETW session.
EtwTakenDown ==
  /\ etw_running \in BOOLEAN
  /\ etw = "off" => consumer = "none"
  /\ etw = "closing" => call = "t_consumer"
  /\ etw = "lost" => "etw_taken" \in surroundings
  /\ call = "t_consumer" => etw \in {"off", "closing"}
  /\ call = "t_pipeline" => etw = "off" /\ ~etw_running
  /\ call \notin {"s_etw", "t_consumer"} => (etw_running <=> etw # "off")
  /\ call = "s_etw" /\ etw_running => etw # "off"

MgrInv ==
  /\ StatesOK
  /\ SensorsWithinPipeline
  /\ StopsCompletely
  /\ StartHasPipeline
  /\ PollTakenDown
  /\ EnginesTakenDown
  /\ EtwTakenDown

-----------------------------------------------------------------------------
\* Before the first call nothing runs.
LEMMA MgrInvInit == MgrInit => MgrInv
<1>1. MgrInit => EtwTakenDown
  BY Zenon DEF MgrInit, EtwTakenDown
<1>2. MgrInit => /\ StatesOK /\ SensorsWithinPipeline /\ StopsCompletely
                 /\ StartHasPipeline /\ PollTakenDown /\ EnginesTakenDown
  BY ManagerConstants
     DEF MgrInit, StatesOK, SensorsWithinPipeline, SensorAlive, StopsCompletely, StartHasPipeline,
         PollTakenDown, EnginesTakenDown, StartLabels, StopLabels
<1> QED
  BY <1>1, <1>2 DEF MgrInv

\* Every step keeps the invariant: one case per action.
LEMMA MgrInvStep == MgrInv /\ [MgrNext]_mgrVars => MgrInv'
<1> SUFFICES ASSUME MgrInv, [MgrNext]_mgrVars PROVE MgrInv'
  OBVIOUS
<1> USE ManagerConstants
    DEF MgrInv, StatesOK, SensorsWithinPipeline, SensorAlive, StopsCompletely, StartHasPipeline,
        PollTakenDown, EnginesTakenDown, EtwTakenDown, StartLabels, StopLabels, etwVars, pollVars, callVars,
        Goto, Return
<1>1. ASSUME StartPipeline, UNCHANGED surroundings PROVE MgrInv'
  BY <1>1 DEF StartPipeline
<1>2. ASSUME StartEtw, UNCHANGED surroundings PROVE MgrInv'
  BY <1>2 DEF StartEtw
<1>3. ASSUME StartPolling, UNCHANGED surroundings PROVE MgrInv'
  BY <1>3 DEF StartPolling
<1>4. ASSUME StartEngine, UNCHANGED surroundings PROVE MgrInv'
  BY <1>4 DEF StartEngine, NextEngine
<1>5. ASSUME StopAll, UNCHANGED surroundings PROVE MgrInv'
  BY <1>5 DEF StopAll
<1>6. ASSUME StopJoinsPoll, UNCHANGED surroundings PROVE MgrInv'
  BY <1>6 DEF StopJoinsPoll
<1>7. ASSUME StopEngine, UNCHANGED surroundings PROVE MgrInv'
  BY <1>7 DEF StopEngine, NextEngine, EnginesStopped
<1>8. ASSUME StopJoinsEngine, UNCHANGED surroundings PROVE MgrInv'
  BY <1>8 DEF StopJoinsEngine, NextEngine, EnginesStopped
<1>9. ASSUME StopEtw, UNCHANGED surroundings PROVE MgrInv'
  BY <1>9 DEF StopEtw
<1>10. ASSUME StopJoinsEtw, UNCHANGED surroundings PROVE MgrInv'
  BY <1>10 DEF StopJoinsEtw
<1>11. ASSUME StopPipeline, UNCHANGED surroundings PROVE MgrInv'
  BY <1>11 DEF StopPipeline
<1>12. ASSUME NEW e \in 1..NumEngines, EngineEnds(e), UNCHANGED surroundings PROVE MgrInv'
  BY <1>12 DEF EngineEnds
<1>13. ASSUME EtwSamples \/ EtwInspects \/ EtwTaken \/ EtwEnds, UNCHANGED surroundings PROVE MgrInv'
  BY <1>13 DEF EtwSamples, EtwInspects, EtwTaken, EtwEnds
<1>14. ASSUME PollWakes \/ PollSamples \/ PollInspects \/ PollRests \/ PollEnds, UNCHANGED surroundings PROVE MgrInv'
  BY <1>14 DEF PollWakes, PollSamples, PollInspects, PollRests, PollEnds, PollTo
<1>15. ASSUME (TimePasses /\ UNCHANGED surroundings) \/ UNCHANGED mgrVars PROVE MgrInv'
  BY <1>15 DEF TimePasses, mgrVars
<1> QED
  BY <1>1, <1>2, <1>3, <1>4, <1>5, <1>6, <1>7, <1>8, <1>9, <1>10, <1>11, <1>12, <1>13, <1>14, <1>15
     DEF MgrNext, StartStep, StopStep, ConsumerStep, PollStep

\* The invariant holds in every reachable state.
THEOREM ManagerInvariant == MgrSpec => []MgrInv
BY MgrInvInit, MgrInvStep, PTL DEF MgrSpec

\* No sensor thread outlives or precedes the pipeline it publishes to.
THEOREM SensorsStayWithinPipeline == MgrSpec => []SensorsWithinPipeline
<1>1. MgrInv => SensorsWithinPipeline
  BY DEF MgrInv
<1> QED
  BY <1>1, ManagerInvariant, PTL

\* A stop_all() that returned has stopped every thread and taken back every
\* report.
THEOREM StopAllStopsEverything == MgrSpec => []StopsCompletely
<1>1. MgrInv => StopsCompletely
  BY DEF MgrInv
<1> QED
  BY <1>1, ManagerInvariant, PTL

\* Between calls etw_kernel_process_active() is true exactly while a session
\* that start_all() opened is not closed, and that session is alive unless
\* another instance stopped it.
THEOREM EtwReportIsHonest == MgrSpec => []EtwReportHonest
<1>1. MgrInv => EtwReportHonest
  <2> SUFFICES ASSUME StatesOK, EtwTakenDown, call = "idle" PROVE EtwReportHonest
    BY Zenon DEF MgrInv, EtwReportHonest
  <2>1. etw # "closing" /\ (etw = "lost" => "etw_taken" \in surroundings) /\ call \notin {"s_etw", "t_consumer"}
    BY DEF EtwTakenDown
  <2>2. etw_running <=> etw # "off"
    BY Zenon, <2>1 DEF EtwTakenDown
  <2>3. etw \in {"off", "live", "lost"}
    BY <2>1 DEF StatesOK
  <2> QED
    BY Zenon, <2>1, <2>2, <2>3 DEF EtwReportHonest
<1> QED
  BY <1>1, ManagerInvariant, PTL

\* start_all() and stop_all() are safe for every number of engines.
THEOREM ManagerIsSafe == MgrSpec => []ManagerSafe
BY SensorsStayWithinPipeline, StopAllStopsEverything, EtwReportIsHonest, PTL DEF ManagerSafe

-----------------------------------------------------------------------------
(* The pace of the inspections.  The test and the update of                *)
(* last_process_inspection_ms_ are two steps; they cannot be separated by  *)
(* another sampler as long as there is only one kind of it.                *)

\* Every variable is what its declaration says.
LEMMA MgrTypeStep == MgrTypeOK /\ [MgrNext]_mgrVars => MgrTypeOK'
<1> SUFFICES ASSUME MgrTypeOK, [MgrNext]_mgrVars PROVE MgrTypeOK'
  OBVIOUS
<1> USE ManagerConstants
    DEF MgrTypeOK, StartLabels, StopLabels, etwVars, pollVars, callVars, sampleVars, Goto, Return
<1>1. CASE UNCHANGED surroundings /\ StartStep
  <2>1. CASE StartPipeline
    BY <1>1, <2>1 DEF StartPipeline
  <2>2. CASE StartEtw
    BY ZenonT(30), <1>1, <2>2 DEF StartEtw
  <2>3. CASE StartPolling
    BY <1>1, <2>3 DEF StartPolling
  <2>4. CASE StartEngine
    <3>1. engine' \in [1..NumEngines -> {"stopped", "alive", "hollow", "ending", "ended"}]
      BY <2>4 DEF StartEngine
    <3>2. call' \in {"idle", "s_engines"} /\ at' \in 1..NumEngines /\ last' \in {"none", "started", "stopped"}
      BY <2>4 DEF StartEngine, NextEngine
    <3> QED
      BY <1>1, <2>4, <3>1, <3>2 DEF StartEngine
  <2> QED
    BY <1>1, <2>1, <2>2, <2>3, <2>4 DEF StartStep
<1>2. CASE UNCHANGED surroundings /\ (StopAll \/ StopStep)
  <2>1. CASE StopAll
    BY ZenonT(30), <1>2, <2>1 DEF StopAll
  <2>6. CASE StopJoinsPoll
    BY <1>2, <2>6 DEF StopJoinsPoll
  <2>2. CASE StopEtw
    BY <1>2, <2>2 DEF StopEtw
  <2>4. CASE StopJoinsEtw
    BY <1>2, <2>4 DEF StopJoinsEtw
  <2>5. CASE StopPipeline
    BY <1>2, <2>5 DEF StopPipeline
  <2>3. CASE StopEngine \/ StopJoinsEngine
    <3>1. engine' \in [1..NumEngines -> {"stopped", "alive", "hollow", "ending", "ended"}]
      BY <2>3 DEF StopEngine, StopJoinsEngine
    <3>2. call' \in {"t_engines", "t_join", "t_etw"} /\ at' \in 1..NumEngines /\ last' = last
      BY <2>3 DEF StopEngine, StopJoinsEngine, NextEngine, EnginesStopped
    <3> QED
      BY <1>2, <2>3, <3>1, <3>2 DEF StopEngine, StopJoinsEngine
  <2> QED
    BY <1>2, <2>1, <2>2, <2>3, <2>4, <2>5, <2>6 DEF StopStep
<1>3. ASSUME NEW e \in 1..NumEngines, EngineEnds(e), UNCHANGED surroundings PROVE MgrTypeOK'
  BY <1>3 DEF EngineEnds
<1>4. ASSUME NEW s \in Samplers, TakesStamp(s)
      PROVE  /\ now' = now /\ last_inspection' = last_inspection /\ inspections' = inspections
             /\ stamp' \in [Samplers -> 0..MaxTime]
  BY <1>4 DEF TakesStamp
<1>5. ASSUME NEW s \in Samplers, HandsOver(s)
      PROVE  /\ now' = now /\ stamp' = stamp /\ last_inspection' \in 0..MaxTime
             /\ inspections' \in Seq(0..MaxTime)
  <2>1. stamp[s] \in 0..MaxTime /\ inspections' = Append(inspections, stamp[s])
    BY <1>5 DEF HandsOver
  <2>2. inspections' \in Seq(0..MaxTime)
    BY <2>1, AppendProperties
  <2> QED
    BY <1>5, <2>1, <2>2 DEF HandsOver
<1>6. CASE UNCHANGED surroundings /\ (EtwSamples \/ PollSamples)
  BY SMTT(20), <1>4, <1>6 DEF EtwSamples, PollSamples, PollTo, Samplers
<1>7. CASE UNCHANGED surroundings /\ (EtwInspects \/ PollInspects)
  BY <1>5, <1>7 DEF EtwInspects, PollInspects, PollTo, Samplers
<1>8. CASE UNCHANGED surroundings /\ (EtwTaken \/ EtwEnds \/ PollWakes \/ PollRests \/ PollEnds)
  BY <1>8 DEF EtwTaken, EtwEnds, PollWakes, PollRests, PollEnds, PollTo
<1>9. CASE UNCHANGED surroundings /\ TimePasses
  BY <1>9 DEF TimePasses
<1>10. CASE UNCHANGED mgrVars
  BY <1>10 DEF mgrVars
<1> QED
  BY <1>1, <1>2, <1>3, <1>6, <1>7, <1>8, <1>9, <1>10 DEF MgrNext, ConsumerStep, PollStep

\* The surroundings in which processes are reported in one way only.
OneKind ==
  ~({"etw_live", "etw_denied"} \subseteq surroundings) /\ "no_thread" \notin surroundings

\* There is no ETW thread without ETW, and no polling thread unless ETW fails.
SamplersFit ==
  /\ "etw_live" \notin surroundings => etw = "off" /\ consumer = "none"
  /\ "etw_denied" \notin surroundings /\ "no_thread" \notin surroundings => poll = "none"

\* Nothing is dated later than now or than the time last noted, and the
\* sample being taken is GAP away from it.
PaceKept ==
  OneKind =>
    /\ last_inspection <= now
    /\ \A i \in DOMAIN inspections : inspections[i] <= last_inspection
    /\ consumer = "sampling" => stamp["etw"] - last_inspection >= GAP /\ stamp["etw"] <= now
    /\ poll = "sampling" => stamp["poll"] - last_inspection >= GAP /\ stamp["poll"] <= now

PaceInv == MgrTypeOK /\ SamplersFit /\ PaceKept /\ InspectionsSpaced

\* The initial state.
LEMMA PaceInit == MgrInit => PaceInv
<1> SUFFICES ASSUME MgrInit PROVE PaceInv
  OBVIOUS
<1>1. inspections \in Seq(0..MaxTime) /\ DOMAIN inspections = {}
  BY EmptySeq DEF MgrInit
<1>2. 0 \in 0..MaxTime /\ 1 \in 1..NumEngines
  BY ManagerConstants
<1>3. stamp \in [Samplers -> 0..MaxTime]
  BY <1>2 DEF MgrInit
<1>4. MgrTypeOK
  BY <1>1, <1>2, <1>3 DEF MgrInit, MgrTypeOK
<1>5. SamplersFit /\ PaceKept /\ InspectionsSpaced
  BY <1>1 DEF MgrInit, SamplersFit, PaceKept, InspectionsSpaced
<1> QED
  BY <1>4, <1>5 DEF PaceInv

\* An inspection GAP after the last one noted keeps all of them apart.
LEMMA PacedAppend ==
  ASSUME PaceInv, NEW s \in Samplers, HandsOver(s),
         OneKind => stamp[s] - last_inspection >= GAP /\ stamp[s] <= now
  PROVE  OneKind => /\ \A i \in DOMAIN inspections' : inspections'[i] <= last_inspection'
                    /\ \A i, j \in DOMAIN inspections' : i < j => inspections'[j] - inspections'[i] >= GAP
                    /\ last_inspection' <= now
<1> SUFFICES ASSUME OneKind
             PROVE  /\ \A i \in DOMAIN inspections' : inspections'[i] <= last_inspection'
                    /\ \A i, j \in DOMAIN inspections' : i < j => inspections'[j] - inspections'[i] >= GAP
                    /\ last_inspection' <= now
  OBVIOUS
<1>1. /\ stamp[s] \in Nat /\ last_inspection \in Nat /\ now \in Nat /\ GAP \in Nat
      /\ inspections \in Seq(0..MaxTime)
      /\ last_inspection' = stamp[s]
      /\ inspections' = Append(inspections, stamp[s])
  BY ManagerConstants DEF PaceInv, MgrTypeOK, HandsOver
<1>2. stamp[s] - last_inspection >= GAP /\ stamp[s] <= now
  OBVIOUS
<1>3. /\ Len(inspections) \in Nat
      /\ DOMAIN inspections = 1..Len(inspections)
      /\ \A i \in 1..Len(inspections) : inspections[i] \in Nat
  BY <1>1, LenProperties, ElementOfSeq, ManagerConstants
<1>4. /\ DOMAIN inspections' = 1..(Len(inspections) + 1)
      /\ \A i \in 1..Len(inspections) : inspections'[i] = inspections[i]
      /\ inspections'[Len(inspections) + 1] = stamp[s]
  <2>1. stamp[s] \in 0..MaxTime
    BY DEF PaceInv, MgrTypeOK
  <2> QED
    BY <1>1, <2>1, AppendProperties
<1>5. \A i \in 1..Len(inspections) : inspections[i] <= last_inspection
  BY <1>3 DEF PaceInv, PaceKept
<1>6. \A i, j \in 1..Len(inspections) : i < j => inspections[j] - inspections[i] >= GAP
  BY <1>3 DEF PaceInv, InspectionsSpaced, OneKind
<1>7. \A i \in 1..Len(inspections) : stamp[s] - inspections[i] >= GAP
  BY <1>1, <1>2, <1>3, <1>5
<1>8. \A i \in 1..Len(inspections) : inspections[i] <= stamp[s]
  BY <1>1, <1>2, <1>3, <1>5
<1>9. \A i \in DOMAIN inspections' : inspections'[i] <= last_inspection'
  BY <1>1, <1>3, <1>4, <1>8
<1>10. \A i, j \in DOMAIN inspections' : i < j => inspections'[j] - inspections'[i] >= GAP
  <2> SUFFICES ASSUME NEW i \in 1..(Len(inspections) + 1), NEW j \in 1..(Len(inspections) + 1), i < j
               PROVE  inspections'[j] - inspections'[i] >= GAP
    BY <1>4
  <2>1. i \in 1..Len(inspections)
    BY <1>3
  <2>2. CASE j = Len(inspections) + 1
    BY <1>4, <1>7, <2>1, <2>2
  <2>3. CASE j # Len(inspections) + 1
    <3>1. j \in 1..Len(inspections)
      BY <1>3, <2>3
    <3> QED
      BY <1>4, <1>6, <2>1, <3>1
  <2> QED
    BY <2>2, <2>3
<1> QED
  BY <1>1, <1>2, <1>9, <1>10

\* Every step keeps the pace.
LEMMA PaceStep == PaceInv /\ [MgrNext]_mgrVars => PaceInv'
<1> SUFFICES ASSUME PaceInv, [MgrNext]_mgrVars PROVE PaceInv'
  OBVIOUS
<1>1. MgrTypeOK'
  BY MgrTypeStep DEF PaceInv
<1>2. ASSUME UNCHANGED <<sampleVars, surroundings>>, SamplersFit',
             consumer' = "sampling" => consumer = "sampling",
             poll' = "sampling" => poll = "sampling"
      PROVE  PaceInv'
  BY <1>1, <1>2 DEF PaceInv, PaceKept, InspectionsSpaced, OneKind, sampleVars
<1>3. SamplersFit'
  BY DEF PaceInv, SamplersFit, MgrNext, StartStep, StartPipeline, StartEtw, StartPolling, StartEngine, StopAll,
     StopStep, StopJoinsPoll, StopEngine, StopJoinsEngine, StopEtw, StopJoinsEtw, StopPipeline, EngineEnds,
     EtwSamples, EtwTaken, ConsumerStep, EtwInspects, EtwEnds, PollWakes, PollSamples, PollStep, PollInspects, PollRests,
     PollEnds, PollTo, TimePasses, mgrVars, etwVars, pollVars
<1>4. CASE /\ UNCHANGED surroundings
           /\ \/ StartStep \/ StopAll \/ StopStep
              \/ \E e \in 1..NumEngines : EngineEnds(e)
              \/ EtwTaken \/ EtwEnds \/ PollWakes \/ PollRests \/ PollEnds
  <2>1. /\ UNCHANGED <<sampleVars, surroundings>>
        /\ consumer' = "sampling" => consumer = "sampling"
        /\ poll' = "sampling" => poll = "sampling"
    BY <1>4 DEF StartStep, StartPipeline, StartEtw, StartPolling, StartEngine, StopAll,
       StopStep, StopJoinsPoll, StopEngine, StopJoinsEngine, StopEtw, StopJoinsEtw, StopPipeline, EngineEnds,
       EtwTaken, EtwEnds, PollWakes, PollRests, PollEnds, PollTo, etwVars, pollVars
  <2> QED
    BY <1>2, <1>3, <2>1
<1>5. CASE UNCHANGED mgrVars
  <2>1. UNCHANGED <<sampleVars, surroundings, consumer, poll>>
    BY <1>5 DEF mgrVars, etwVars, pollVars
  <2> QED
    BY <1>2, <1>3, <2>1
<1>6. now \in Nat /\ last_inspection \in Nat /\ GAP \in Nat /\ stamp \in [Samplers -> 0..MaxTime] /\ MaxTime \in Nat
  BY ManagerConstants DEF PaceInv, MgrTypeOK
<1>7. CASE UNCHANGED surroundings /\ TimePasses
  <2>1. /\ now' = now + 1
        /\ UNCHANGED <<last_inspection, stamp, inspections, consumer, poll, surroundings>>
    BY <1>7 DEF TimePasses, etwVars, pollVars
  <2>2. stamp["etw"] \in Nat /\ stamp["poll"] \in Nat
    BY <1>6 DEF Samplers
  <2>3. PaceKept'
    BY <1>6, <2>1, <2>2 DEF PaceInv, PaceKept, OneKind
  <2> QED
    BY <1>1, <1>3, <2>1, <2>3 DEF PaceInv, InspectionsSpaced
<1>8. CASE UNCHANGED surroundings /\ EtwSamples
  <2>1. /\ UNCHANGED <<now, last_inspection, inspections, poll, surroundings>>
        /\ now - last_inspection >= GAP
        /\ stamp' = [stamp EXCEPT !["etw"] = now]
    BY <1>8 DEF EtwSamples, TakesStamp, pollVars
  <2>2. stamp'["etw"] = now /\ stamp'["poll"] = stamp["poll"]
    BY <1>6, <2>1 DEF Samplers
  <2>3. PaceKept'
    BY <1>6, <2>1, <2>2 DEF PaceInv, PaceKept, OneKind
  <2> QED
    BY <1>1, <1>3, <2>1, <2>3 DEF PaceInv, InspectionsSpaced
<1>9. CASE UNCHANGED surroundings /\ PollSamples
  <2>1. /\ UNCHANGED <<now, last_inspection, inspections, consumer, surroundings>>
        /\ now - last_inspection >= GAP
        /\ stamp' = [stamp EXCEPT !["poll"] = now]
    BY <1>9 DEF PollSamples, PollTo, TakesStamp, etwVars
  <2>2. stamp'["poll"] = now /\ stamp'["etw"] = stamp["etw"]
    BY <1>6, <2>1 DEF Samplers
  <2>3. PaceKept'
    BY <1>6, <2>1, <2>2 DEF PaceInv, PaceKept, OneKind
  <2> QED
    BY <1>1, <1>3, <2>1, <2>3 DEF PaceInv, InspectionsSpaced
<1>10. CASE UNCHANGED surroundings /\ EtwInspects
  <2>1. /\ HandsOver("etw") /\ consumer = "sampling" /\ consumer' = "waiting"
        /\ UNCHANGED <<now, stamp, poll, surroundings>>
    BY <1>10 DEF EtwInspects, HandsOver, pollVars
  <2>2. OneKind => stamp["etw"] - last_inspection >= GAP /\ stamp["etw"] <= now
    BY <2>1 DEF PaceInv, PaceKept
  <2>3. OneKind => poll = "none"
    BY <2>1 DEF PaceInv, SamplersFit, OneKind
  <2>4. OneKind => /\ \A i \in DOMAIN inspections' : inspections'[i] <= last_inspection'
                   /\ \A i, j \in DOMAIN inspections' : i < j => inspections'[j] - inspections'[i] >= GAP
                   /\ last_inspection' <= now
    BY <2>1, <2>2, PacedAppend DEF Samplers
  <2>5. PaceKept' /\ InspectionsSpaced'
    BY <2>1, <2>3, <2>4 DEF PaceKept, InspectionsSpaced, OneKind
  <2> QED
    BY <1>1, <1>3, <2>5 DEF PaceInv
<1>11. CASE UNCHANGED surroundings /\ PollInspects
  <2>1. /\ HandsOver("poll") /\ poll = "sampling" /\ poll' = "sweeping"
        /\ UNCHANGED <<now, stamp, consumer, surroundings>>
    BY <1>11 DEF PollInspects, PollTo, HandsOver, etwVars
  <2>2. OneKind => stamp["poll"] - last_inspection >= GAP /\ stamp["poll"] <= now
    BY <2>1 DEF PaceInv, PaceKept
  <2>3. OneKind => consumer = "none"
    BY <2>1 DEF PaceInv, SamplersFit, OneKind
  <2>4. OneKind => /\ \A i \in DOMAIN inspections' : inspections'[i] <= last_inspection'
                   /\ \A i, j \in DOMAIN inspections' : i < j => inspections'[j] - inspections'[i] >= GAP
                   /\ last_inspection' <= now
    BY <2>1, <2>2, PacedAppend DEF Samplers
  <2>5. PaceKept' /\ InspectionsSpaced'
    BY <2>1, <2>3, <2>4 DEF PaceKept, InspectionsSpaced, OneKind
  <2> QED
    BY <1>1, <1>3, <2>5 DEF PaceInv
<1> QED
  BY <1>4, <1>5, <1>7, <1>8, <1>9, <1>10, <1>11 DEF MgrNext, ConsumerStep, PollStep

\* Inspections of one kind of sampler keep their distance, for every GAP and
\* across stops and restarts.
THEOREM InspectionsArePaced == MgrSpec => []InspectionsPaced
<1>1. PaceInv => InspectionsPaced
  BY DEF PaceInv, InspectionsPaced
<1> QED
  BY <1>1, PaceInit, PaceStep, PTL DEF MgrSpec
=============================================================================

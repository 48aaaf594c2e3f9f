--------------------------- MODULE EngineManager ---------------------------
(***************************************************************************)
(* start_all() and stop_all(): the owner (the UI thread, or main) brings   *)
(* the pipeline, the ETW session or its polling substitute, and the        *)
(* engines up and down, in any order of calls, while the ETW consumer and  *)
(* the polling thread sample new processes for inspection.                 *)
(***************************************************************************)
EXTENDS Naturals, Sequences, FiniteSets

CONSTANTS NumEngines,      \* engines_.size()
          GAP,             \* the 250 ms between two inspections
          MaxTime,         \* bound on the steady clock
          Surroundings     \* the sets of circumstances considered

Circumstance == {"etw_live",     \* an ETW session can be opened
                 "etw_denied",   \* StartTrace fails
                 "etw_stub",     \* a platform without ETW
                 "etw_taken",    \* another instance stops the session of our name
                 "no_thread"}    \* std::thread throws

ASSUME ManagerConstants ==
  /\ NumEngines \in Nat \ {0}
  /\ GAP \in Nat \ {0}
  /\ MaxTime \in Nat
  /\ Surroundings \subseteq SUBSET Circumstance

VARIABLES pipeline,      \* "new", "running" or "stopped" (its bus closed)
          etw,           \* the ETW engine: "off", or running_ with a session that is
                         \* "live" or "lost" (stopped by somebody else), or "closing"
          consumer,      \* "none", "waiting" or "sampling": its thread
          etw_running,   \* etw_process_engine_running_
          poll_running,  \* poll_running_
          poll,          \* process_poll_thread_: "none" unless joinable
          engine,        \* engine -> "stopped", "alive", "hollow", "ending", "ended"
          call,          \* where the owner is
          at,            \* the engine its loop has reached
          last,          \* the call that returned last
          now,           \* the steady clock
          last_inspection,
          stamp,         \* thread -> now_ms of the sample it is taking
          inspections,   \* now_ms of the inspections handed to the pool
          terminated,    \* std::terminate was called
          surroundings

pollVars   == <<poll_running, poll>>
etwVars    == <<etw, consumer, etw_running>>
callVars   == <<call, at, last>>
sampleVars == <<now, last_inspection, stamp, inspections>>
mgrVars    == <<pipeline, etwVars, pollVars, engine, callVars, sampleVars, terminated, surroundings>>

Samplers == {"etw", "poll"}

MgrInit ==
  /\ pipeline = "new"
  /\ etw = "off"
  /\ consumer = "none"
  /\ etw_running = FALSE
  /\ poll_running = FALSE
  /\ poll = "none"
  /\ engine = [e \in 1..NumEngines |-> "stopped"]
  /\ call = "idle"
  /\ at = 1
  /\ last = "none"
  /\ now = 0
  /\ last_inspection = 0
  /\ stamp = [s \in Samplers |-> 0]
  /\ inspections = <<>>
  /\ terminated = FALSE
  /\ surroundings \in Surroundings

Goto(label) ==
  /\ call' = label
  /\ UNCHANGED <<at, last>>

Return(name) ==
  /\ call' = "idle"
  /\ last' = name
  /\ at' = 1

\* On to the next engine, or out of the loop.
NextEngine(loop, Done) ==
  \/ /\ at < NumEngines
     /\ at' = at + 1
     /\ call' = loop
     /\ UNCHANGED last
  \/ at = NumEngines /\ Done

EnginesStopped ==
  /\ at' = 1
  /\ call' = "t_etw"
  /\ UNCHANGED last

-----------------------------------------------------------------------------
(* start_all()                                                             *)

\* Fault: the answer of SecurityPipeline::start() is ignored.
StartPipelineIgnored ==
  /\ call = "idle"
  /\ pipeline' = IF pipeline = "new" THEN "running" ELSE pipeline
  /\ Goto("s_etw")
  /\ UNCHANGED <<etwVars, pollVars, engine, sampleVars, terminated>>

\* A pipeline that was stopped cannot be started again: start_all() returns.
StartPipeline ==
  /\ call = "idle"
  /\ \/ /\ pipeline = "new"
        /\ pipeline' = "running"
        /\ Goto("s_etw")
     \/ /\ pipeline = "running"
        /\ UNCHANGED pipeline
        /\ Goto("s_etw")
     \/ /\ \/ pipeline = "stopped"
           \/ pipeline = "new" /\ "no_thread" \in surroundings
        /\ UNCHANGED pipeline
        /\ Return("started")
  /\ UNCHANGED <<etwVars, pollVars, engine, sampleVars, terminated>>

\* etw_process_engine_.start() answers OK; it does not look at the session of
\* an engine that is running_.
StartEtw ==
  /\ call = "s_etw"
  /\ \/ /\ etw \in {"live", "lost"}
        /\ etw_running' = TRUE
        /\ UNCHANGED <<etw, consumer>>
     \/ /\ etw = "off"
        /\ "etw_live" \in surroundings
        /\ etw' = "live"
        /\ consumer' = "waiting"
        /\ etw_running' = TRUE
     \/ /\ etw = "off"
        /\ "etw_stub" \in surroundings
        /\ etw_running' = FALSE
        /\ UNCHANGED <<etw, consumer>>
  /\ Goto("s_engines")
  /\ UNCHANGED <<pipeline, pollVars, engine, sampleVars, terminated>>

\* It does not, and the polling thread is started instead.  Assigning to a
\* joinable std::thread calls std::terminate; an exception of its constructor
\* leaves start_all() and ends the program as well.
StartPolling ==
  /\ call = "s_etw"
  /\ etw = "off"
  /\ surroundings \intersect {"etw_denied", "no_thread"} # {}
  /\ etw_running' = FALSE
  /\ poll_running' = TRUE
  /\ \/ /\ poll = "none"
        /\ poll' = "sleeping"
        /\ Goto("s_engines")
        /\ UNCHANGED terminated
     \/ /\ poll # "none" \/ "no_thread" \in surroundings
        /\ terminated' = TRUE
        /\ UNCHANGED <<poll, callVars>>
  /\ UNCHANGED <<pipeline, etw, consumer, engine, sampleVars>>

\* One engine: it runs already, starts, refuses, or throws after it set running_.
StartEngine ==
  /\ call = "s_engines"
  /\ \/ engine[at] # "stopped" /\ UNCHANGED engine
     \/ /\ engine[at] = "stopped"
        /\ \E answer \in {"alive", "stopped"} \union
                         (IF "no_thread" \in surroundings THEN {"hollow"} ELSE {}) :
             engine' = [engine EXCEPT ![at] = answer]
  /\ NextEngine("s_engines", Return("started"))
  /\ UNCHANGED <<pipeline, etwVars, pollVars, sampleVars, terminated>>

-----------------------------------------------------------------------------
(* stop_all()                                                              *)

\* Fault: the polling thread is not told.
StopAllSilent ==
  /\ call = "idle"
  /\ Goto("t_poll")
  /\ UNCHANGED <<poll_running, pipeline, etwVars, poll, engine, sampleVars, terminated>>

StopAll ==
  /\ call = "idle"
  /\ poll_running' = FALSE
  /\ Goto("t_poll")
  /\ UNCHANGED <<pipeline, etwVars, poll, engine, sampleVars, terminated>>

StopJoinsPoll ==
  /\ call = "t_poll"
  /\ poll \in {"none", "done"}
  /\ poll' = "none"
  /\ Goto("t_engines")
  /\ UNCHANGED <<pipeline, etwVars, poll_running, engine, sampleVars, terminated>>

\* e->stop() of an engine that says it runs: tell its thread, then join it.
StopEngine ==
  /\ call = "t_engines"
  /\ \/ /\ engine[at] = "stopped"
        /\ UNCHANGED engine
        /\ NextEngine("t_engines", EnginesStopped)
     \/ /\ engine[at] = "hollow"
        /\ engine' = [engine EXCEPT ![at] = "stopped"]
        /\ NextEngine("t_engines", EnginesStopped)
     \/ /\ engine[at] = "alive"
        /\ engine' = [engine EXCEPT ![at] = "ending"]
        /\ Goto("t_join")
  /\ UNCHANGED <<pipeline, etwVars, pollVars, sampleVars, terminated>>

StopJoinsEngine ==
  /\ call = "t_join"
  /\ engine[at] = "ended"
  /\ engine' = [engine EXCEPT ![at] = "stopped"]
  /\ NextEngine("t_engines", EnginesStopped)
  /\ UNCHANGED <<pipeline, etwVars, pollVars, sampleVars, terminated>>

StopEtw ==
  /\ call = "t_etw"
  /\ etw' = IF etw = "off" THEN "off" ELSE "closing"
  /\ Goto("t_consumer")
  /\ UNCHANGED <<pipeline, consumer, etw_running, pollVars, engine, sampleVars, terminated>>

StopJoinsEtw ==
  /\ call = "t_consumer"
  /\ consumer = "none"
  /\ etw' = "off"
  /\ etw_running' = FALSE
  /\ Goto("t_pipeline")
  /\ UNCHANGED <<pipeline, consumer, pollVars, engine, sampleVars, terminated>>

\* SecurityPipeline::stop() closes the bus and joins; it does nothing on a
\* pipeline that was never started.
StopPipeline ==
  /\ call = "t_pipeline"
  /\ pipeline' = IF pipeline = "running" THEN "stopped" ELSE pipeline
  /\ Return("stopped")
  /\ UNCHANGED <<etwVars, pollVars, engine, sampleVars, terminated>>

-----------------------------------------------------------------------------
(* The threads.  Which processes are new is left open.                     *)

EngineEnds(e) ==
  /\ engine[e] = "ending"
  /\ engine' = [engine EXCEPT ![e] = "ended"]
  /\ UNCHANGED <<pipeline, etwVars, pollVars, callVars, sampleVars, terminated>>

\* At least GAP since the last sample; now_ms is kept for the next step.
TakesStamp(s) ==
  /\ now - last_inspection >= GAP
  /\ stamp' = [stamp EXCEPT ![s] = now]
  /\ UNCHANGED <<now, last_inspection, inspections>>

\* Fault: the time of the sample is not noted.
HandsOverUnnoted(s) ==
  /\ inspections' = Append(inspections, stamp[s])
  /\ UNCHANGED <<last_inspection, now, stamp>>

\* last_process_inspection_ms_ is set and the inspection handed to the pool.
HandsOver(s) ==
  /\ last_inspection' = stamp[s]
  /\ inspections' = Append(inspections, stamp[s])
  /\ UNCHANGED <<now, stamp>>

\* ProcessTrace delivers a process start, as long as it has not returned.
EtwSamples ==
  /\ consumer = "waiting"
  /\ TakesStamp("etw")
  /\ consumer' = "sampling"
  /\ UNCHANGED <<etw, etw_running, pipeline, pollVars, engine, callVars, terminated>>

EtwInspects ==
  /\ consumer = "sampling"
  /\ HandsOver("etw")
  /\ consumer' = "waiting"
  /\ UNCHANGED <<etw, etw_running, pipeline, pollVars, engine, callVars, terminated>>

\* open_session() of another process, which has its own EngineManager, stops
\* the session that bears the common name.  Nobody here is told.
EtwTaken ==
  /\ etw = "live"
  /\ "etw_taken" \in surroundings
  /\ etw' = "lost"
  /\ UNCHANGED <<consumer, etw_running, pipeline, pollVars, engine, callVars, sampleVars, terminated>>

\* ProcessTrace returns: the session was closed, or stopped from outside.
EtwEnds ==
  /\ consumer = "waiting"
  /\ etw \in {"closing", "lost"}
  /\ consumer' = "none"
  /\ UNCHANGED <<etw, etw_running, pipeline, pollVars, engine, callVars, sampleVars, terminated>>

PollTo(from, to) ==
  /\ poll = from
  /\ poll' = to
  /\ UNCHANGED <<poll_running, pipeline, etwVars, engine, callVars, terminated>>

\* The flag is looked at between sweeps only.
PollWakes ==
  /\ poll_running
  /\ PollTo("sleeping", "sweeping")
  /\ UNCHANGED sampleVars

PollSamples  == PollTo("sweeping", "sampling") /\ TakesStamp("poll")

PollInspects == PollTo("sampling", "sweeping") /\ HandsOver("poll")

PollRests    == PollTo("sweeping", "sleeping") /\ UNCHANGED sampleVars

PollEnds ==
  /\ ~poll_running
  /\ PollTo("sleeping", "done")
  /\ UNCHANGED sampleVars

TimePasses ==
  /\ now < MaxTime
  /\ now' = now + 1
  /\ UNCHANGED <<last_inspection, stamp, inspections>>
  /\ UNCHANGED <<pipeline, etwVars, pollVars, engine, callVars, terminated>>

-----------------------------------------------------------------------------
StartStep == StartPipeline \/ StartEtw \/ StartPolling \/ StartEngine

StopStep ==
  \/ StopJoinsPoll \/ StopEngine \/ StopJoinsEngine \/ StopEtw \/ StopJoinsEtw \/ StopPipeline

ConsumerStep == EtwInspects \/ EtwEnds

PollStep == PollInspects \/ PollRests \/ PollEnds

MgrNext ==
  \/ /\ ~terminated
     /\ \/ StartStep
        \/ StopAll
        \/ StopStep
        \/ \E e \in 1..NumEngines : EngineEnds(e)
        \/ EtwSamples
        \/ EtwTaken
        \/ ConsumerStep
        \/ PollWakes
        \/ PollSamples
        \/ PollStep
        \/ TimePasses
     /\ UNCHANGED surroundings
  \/ terminated /\ UNCHANGED mgrVars

MgrSpec == MgrInit /\ [][MgrNext]_mgrVars

\* A stop_all() under way goes on, and every thread that can run does.  A
\* sweep ends, as there are finitely many processes.  Nobody has to call
\* anything, and new processes need not turn up.
MgrFairness ==
  /\ WF_mgrVars(StopStep /\ ~terminated /\ UNCHANGED surroundings)
  /\ WF_mgrVars(ConsumerStep /\ ~terminated /\ UNCHANGED surroundings)
  /\ WF_mgrVars(PollStep /\ ~terminated /\ UNCHANGED surroundings)
  /\ \A e \in 1..NumEngines : WF_mgrVars(EngineEnds(e) /\ ~terminated /\ UNCHANGED surroundings)

FairMgrSpec == MgrSpec /\ MgrFairness

-----------------------------------------------------------------------------
(* Properties.                                                             *)

StartLabels == {"s_etw", "s_engines"}

StopLabels == {"t_poll", "t_engines", "t_join", "t_etw", "t_consumer", "t_pipeline"}

\* Type invariant; the loops over engines_ stay inside it.
MgrTypeOK ==
  /\ pipeline \in {"new", "running", "stopped"}
  /\ etw \in {"off", "live", "lost", "closing"}
  /\ consumer \in {"none", "waiting", "sampling"}
  /\ etw_running \in BOOLEAN
  /\ poll_running \in BOOLEAN
  /\ poll \in {"none", "sleeping", "sweeping", "sampling", "done"}
  /\ engine \in [1..NumEngines -> {"stopped", "alive", "hollow", "ending", "ended"}]
  /\ call \in {"idle"} \union StartLabels \union StopLabels
  /\ at \in 1..NumEngines
  /\ last \in {"none", "started", "stopped"}
  /\ now \in 0..MaxTime
  /\ last_inspection \in 0..MaxTime
  /\ stamp \in [Samplers -> 0..MaxTime]
  /\ inspections \in Seq(0..MaxTime)
  /\ terminated \in BOOLEAN
  /\ surroundings \in Surroundings

SensorAlive ==
  \/ \E e \in 1..NumEngines : engine[e] \in {"alive", "ending"}
  \/ consumer # "none"
  \/ poll \in {"sleeping", "sweeping", "sampling"}

\* No sensor thread runs while the pipeline it publishes to is not there:
\* start_all() brings the pipeline up first and stop_all() takes it down last,
\* whatever fails in between and in whichever order they are called.
SensorsWithinPipeline == SensorAlive => pipeline = "running"

\* When stop_all() has returned no thread of a sensor is left and nothing is
\* reported as running.
StopsCompletely ==
  call = "idle" /\ last = "stopped" =>
    /\ ~SensorAlive
    /\ \A e \in 1..NumEngines : engine[e] = "stopped"
    /\ ~etw_running /\ ~poll_running /\ poll = "none"

\* Between two calls of the owner etw_kernel_process_active() is true exactly
\* from a start_all() that opened a session to the stop_all() that closed it.
\* That is "Never true without a live session" where nobody else stops the
\* session; where somebody does, the flag stays.
EtwReportHonest ==
  call = "idle" =>
    /\ etw_running <=> etw # "off"
    /\ etw_running /\ "etw_taken" \notin surroundings => etw = "live"

\* Sensors live within the pipeline's life, a stop is complete, and between
\* calls ETW is reported as the last call left it.
ManagerSafe == SensorsWithinPipeline /\ StopsCompletely /\ EtwReportHonest

\* "sampled at most once every 250ms": inspections of one kind of sampler keep
\* their distance although the test and the update are two steps, across
\* stops and restarts.
InspectionsSpaced ==
  ~({"etw_live", "etw_denied"} \subseteq surroundings) /\ "no_thread" \notin surroundings =>
    \A i, j \in DOMAIN inspections : i < j => inspections[j] - inspections[i] >= GAP

\* The times of inspections are well formed and apart.
InspectionsPaced == MgrTypeOK /\ InspectionsSpaced

\* stop_all() returns: everyone it joins leaves.
StopAllReturns == (call \in StopLabels) ~> (call = "idle")

\* The menu offers "Resume Protection", which calls start_all().
ResumesProtection == call = "idle" /\ last = "started" => pipeline = "running"

\* "must not take down the whole app".
AppStaysUp == ~terminated
=============================================================================

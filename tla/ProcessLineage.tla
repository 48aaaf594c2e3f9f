--------------------------- MODULE ProcessLineage ---------------------------
(***************************************************************************)
(* Who started a process: EtwKernelProcessEngine, which keeps a table of   *)
(* creation times from the kernel's events, and ProcessBehaviorEngine,     *)
(* which asks the system about one pid.  Both report a parent that is      *)
(* younger than its child.  Pids are used again; events come late, and the *)
(* trace may lose or reorder them.  The trace session, which outlives a    *)
(* process that dies, is at the end of the module.                         *)
(***************************************************************************)
EXTENDS Naturals, SequencesExt, FiniteSets

CONSTANTS PlPids, MAX_KNOWN_CREATE_TIMES,
          PlMaxTime, PlMaxCreated, PlMaxQueue,  \* bounds: clock, processes, events on their way
          EsMaxStarts                           \* bound: calls of start()

ASSUME PlConstants == {MAX_KNOWN_CREATE_TIMES, PlMaxTime, PlMaxCreated, PlMaxQueue, EsMaxStarts} \subseteq Nat /\ 0 \notin PlPids

VARIABLES plProcs,    \* plProcs[p]: creation time, parent's pid, which process p is and which its parent; time 0: none
          plTime, plCreated,
          plSetBack,  \* history: the clock was set back
          plEvents,   \* events the consumer has not seen
          elKnown,    \* known_create_times_
          elHand,     \* the start event that is handled
          pbHand,     \* inspect_pid(): where it is and what it has read
          plSaid      \* history: the lineage observation of the last step, if any

plVars == <<plProcs, plTime, plSetBack, plCreated, plEvents, elKnown, elHand, pbHand, plSaid>>

PlNone == [time |-> 0, parent |-> 0, id |-> 0, parentId |-> 0]
PlNothing == [pc |-> "idle", pid |-> 0, time |-> 0, parent |-> 0, parentId |-> 0]

PlInit ==
  /\ plProcs = [p \in PlPids |-> PlNone] /\ plTime = 1 /\ plSetBack = FALSE /\ plCreated = 0 /\ plEvents = <<>>
  /\ elKnown = [p \in {} |-> 0] /\ elHand = PlNothing /\ pbHand = PlNothing /\ plSaid = {}

\* The system: time passes, somebody sets the clock back, a process starts
\* another (or the first), exits.  Creation times are times of the wall clock.
PlTick ==
  /\ plTime < PlMaxTime /\ plTime' = plTime + 1
  /\ UNCHANGED <<plProcs, plSetBack, plCreated, plEvents, elKnown, elHand, pbHand>> /\ plSaid' = {}

PlSetBack(t) ==
  /\ t < plTime /\ plTime' = t /\ plSetBack' = TRUE
  /\ UNCHANGED <<plProcs, plCreated, plEvents, elKnown, elHand, pbHand>> /\ plSaid' = {}

PlCreate(p, q) ==
  /\ plProcs[p].time = 0 /\ p # q /\ plCreated < PlMaxCreated /\ Len(plEvents) < PlMaxQueue
  /\ plProcs[q].time # 0 \/ plCreated = 0
  /\ plCreated' = plCreated + 1
  /\ plProcs' = [plProcs EXCEPT ![p] = [time |-> plTime, parent |-> q, id |-> plCreated + 1, parentId |-> plProcs[q].id]]
  /\ plEvents' = Append(plEvents, [what |-> "start", pid |-> p, proc |-> plProcs'[p]])
  /\ UNCHANGED <<plTime, plSetBack, elKnown, elHand, pbHand>> /\ plSaid' = {}

PlExit(p) ==
  /\ plProcs[p].time # 0 /\ Len(plEvents) < PlMaxQueue
  /\ plProcs' = [plProcs EXCEPT ![p] = PlNone]
  /\ plEvents' = Append(plEvents, [what |-> "stop", pid |-> p, proc |-> PlNone])
  /\ UNCHANGED <<plTime, plSetBack, plCreated, elKnown, elHand, pbHand>> /\ plSaid' = {}

\* The trace loses an event, or delivers two in the other order.
PlDisturb ==
  /\ \/ \E i \in DOMAIN plEvents : plEvents' = RemoveAt(plEvents, i)
     \/ \E i \in 1 .. Len(plEvents) - 1 : plEvents' = [plEvents EXCEPT ![i] = plEvents[i + 1], ![i + 1] = plEvents[i]]
  /\ UNCHANGED <<plProcs, plTime, plSetBack, plCreated, elKnown, elHand, pbHand>> /\ plSaid' = {}

\* What an observation says, and whether the pid now belongs to another process
\* than the one that started the child, or to none; and whether the clock had
\* never been set back.
PlSay(by, hand) ==
  plSaid' = {[by |-> by, steady |-> ~plSetBack,
             recycled |-> hand.parentId = 0 \/ plProcs[hand.parent].id # hand.parentId]}

-----------------------------------------------------------------------------
\* A start event: the table, emptied when it is full, gets the time; ...
ElStart ==
  /\ elHand.pc = "idle" /\ plEvents # <<>> /\ Head(plEvents).what = "start"
  /\ LET e == Head(plEvents)
         kept == IF Cardinality(DOMAIN elKnown) >= MAX_KNOWN_CREATE_TIMES THEN {} ELSE DOMAIN elKnown
     IN  /\ elKnown' = [p \in kept \union {e.pid} |-> IF p = e.pid THEN e.proc.time ELSE elKnown[p]]
         /\ elHand' = [pc |-> "judge", pid |-> e.pid, time |-> e.proc.time, parent |-> e.proc.parent, parentId |-> e.proc.parentId]
  /\ plEvents' = Tail(plEvents)
  /\ UNCHANGED <<plProcs, plTime, plSetBack, plCreated, pbHand>> /\ plSaid' = {}

\* Fault: times that are equal count as the wrong order.
ElImpossibleEqual(child, parent) == child # 0 /\ parent # 0 /\ parent >= child

ElImpossible(child, parent) == child # 0 /\ parent # 0 /\ parent > child

\* ... the parent's time is looked up, or asked of the system as it is now.
ElJudge ==
  /\ elHand.pc = "judge" /\ elHand' = PlNothing
  /\ LET known == elHand.parent \in DOMAIN elKnown
         parent == IF known THEN elKnown[elHand.parent] ELSE plProcs[elHand.parent].time
     IN  IF ElImpossible(elHand.time, parent) THEN PlSay("etw", elHand) ELSE plSaid' = {}
  /\ UNCHANGED <<plProcs, plTime, plSetBack, plCreated, plEvents, elKnown, pbHand>>

ElStop ==
  /\ elHand.pc = "idle" /\ plEvents # <<>> /\ Head(plEvents).what = "stop"
  /\ elKnown' = [p \in DOMAIN elKnown \ {Head(plEvents).pid} |-> elKnown[p]]
  /\ plEvents' = Tail(plEvents)
  /\ UNCHANGED <<plProcs, plTime, plSetBack, plCreated, elHand, pbHand>> /\ plSaid' = {}

\* inspect_pid(): parent_pid(), ...
PbParent(p) ==
  /\ pbHand.pc = "idle" /\ plProcs[p].time # 0
  /\ pbHand' = [pc |-> "child", pid |-> p, time |-> 0, parent |-> plProcs[p].parent, parentId |-> plProcs[p].parentId]
  /\ UNCHANGED <<plProcs, plTime, plSetBack, plCreated, plEvents, elKnown, elHand>> /\ plSaid' = {}

\* ... creation_time() of the pid, 0 when it is gone, ...
PbChild ==
  /\ pbHand.pc = "child" /\ pbHand' = [pbHand EXCEPT !.pc = "judge", !.time = plProcs[pbHand.pid].time]
  /\ UNCHANGED <<plProcs, plTime, plSetBack, plCreated, plEvents, elKnown, elHand>> /\ plSaid' = {}

PbYounger(child, parent) == child # 0 /\ parent # 0 /\ parent > child

\* ... and of the parent's pid.
PbJudge ==
  /\ pbHand.pc = "judge" /\ pbHand' = PlNothing
  /\ IF PbYounger(pbHand.time, plProcs[pbHand.parent].time) THEN PlSay("behavior", pbHand) ELSE plSaid' = {}
  /\ UNCHANGED <<plProcs, plTime, plSetBack, plCreated, plEvents, elKnown, elHand>>

PlSystem ==
  \/ PlTick \/ PlDisturb \/ (\E t \in 1 .. PlMaxTime : PlSetBack(t))
  \/ \E p \in PlPids : PlExit(p) \/ \E q \in PlPids : PlCreate(p, q)

PlNext == PlSystem \/ ElStart \/ ElJudge \/ ElStop \/ (\E p \in PlPids : PbParent(p)) \/ PbChild \/ PbJudge

PlSpec == PlInit /\ [][PlNext]_plVars

\* As long as nobody sets the clock back, the kernel's events, late, lost or
\* out of order, never make the engine report a parent whose pid is still that
\* of the process that started the child.  After that it may: the engine marks
\* the observation deterministic all the same.
ElOnlyRecycled == \A o \in plSaid : o.by = "etw" /\ o.steady => o.recycled

\* Nor does the inspection of a pid, whatever exits and starts between its
\* three questions.
PbOnlyRecycled == \A o \in plSaid : o.by = "behavior" /\ o.steady => o.recycled

-----------------------------------------------------------------------------
VARIABLES esSystem,   \* the system has a session with our name
          esEngine,   \* the engine: "idle", "start", "retry", "enable", "open", "thread", "running"
          esStarts,
          esFailed,   \* history: a call of this start() failed, other than for a session in the way
          esStale     \* history: a process died, or a session could not be stopped, since the last start()

esVars == <<esSystem, esEngine, esStarts, esFailed, esStale>>

EsInit == esSystem = FALSE /\ esEngine = "idle" /\ esStarts = 0 /\ esFailed = FALSE /\ esStale = FALSE

EsBegin ==
  /\ esEngine = "idle" /\ esStarts < EsMaxStarts
  /\ esStarts' = esStarts + 1 /\ esEngine' = "start" /\ esFailed' = FALSE
  /\ UNCHANGED <<esSystem, esStale>>

\* StartTrace(): a session left by an earlier process is stopped by name, which
\* may fail unnoticed, and the call is made once more.
EsStartTrace(pc) ==
  /\ esEngine = pc
  /\ IF esSystem /\ pc = "start"
     THEN /\ esEngine' = "retry"
          /\ \/ esSystem' = FALSE /\ UNCHANGED esFailed
             \/ UNCHANGED esSystem /\ esFailed' = TRUE
     ELSE \/ ~esSystem /\ esSystem' = TRUE /\ esEngine' = "enable" /\ UNCHANGED esFailed
          \/ esEngine' = "idle" /\ esFailed' = (esFailed \/ ~esSystem) /\ UNCHANGED esSystem
  /\ UNCHANGED <<esStarts, esStale>>

\* close_session(): here too nobody looks whether the session was stopped.
EsClose == esEngine' = "idle" /\ esSystem' \in BOOLEAN /\ esStale' = esSystem'

EsFail == EsClose /\ esFailed' = TRUE

\* EnableTraceEx2(), OpenTrace() and the thread; a failure closes the session.
EsCall(pc, next) ==
  /\ esEngine = pc
  /\ \/ esEngine' = next /\ esStale' = (esStale /\ next # "running") /\ UNCHANGED <<esSystem, esFailed>>
     \/ EsFail
  /\ UNCHANGED esStarts

EsStop == esEngine = "running" /\ EsClose /\ UNCHANGED <<esStarts, esFailed>>

\* The process dies, in start() or later; the session does not.
EsCrash ==
  /\ esEngine # "idle" /\ esEngine' = "idle" /\ esStale' = TRUE /\ esFailed' = TRUE
  /\ UNCHANGED <<esSystem, esStarts>>

EsNext ==
  \/ EsBegin \/ EsStartTrace("start") \/ EsStartTrace("retry")
  \/ EsCall("enable", "open") \/ EsCall("open", "thread") \/ EsCall("thread", "running")
  \/ EsStop \/ EsCrash

EsSpec == EsInit /\ [][EsNext]_esVars

\* Only a process that died, or a stop that the system refused, leaves a
\* session behind: a start() that fails half way does not.
EsNoneLeft == esEngine = "idle" /\ esSystem => esStale

\* What a process that died left behind does not keep the next one from
\* starting: a start() of which no call fails does not give up.
EsStartsAfterCrash == [][(esEngine \in {"start", "retry"}) /\ esEngine' = "idle" => esFailed']_esVars

\* A parent is refused only if its pid was used again or the clock was set back,
\* and an ETW session that cannot be followed is neither forgotten nor in the
\* way of the next one.
ProcessesKnown == [](ElOnlyRecycled /\ PbOnlyRecycled /\ EsNoneLeft) /\ EsStartsAfterCrash
=============================================================================

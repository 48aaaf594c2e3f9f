--------------------------- MODULE ServicesProofs ---------------------------
(***************************************************************************)
(* Proofs about the threads and processes around the engines: the service  *)
(* process and its two reporting threads, the webhook's worker, the honey  *)
(* ports, the deep scanner with its monitor and pool, the inspection of    *)
(* files, the policy file and the pipes of the service.  Each part has an  *)
(* inductive invariant of its own and shares no state with the others.     *)
(***************************************************************************)
EXTENDS ServiceProcess, WebhookEngine, ZrgpEngine, DeepScanner, FileInspection, PolicyStore,
        FiniteSetTheorems, SequenceTheorems, WellFoundedInduction, TLAPS

-----------------------------------------------------------------------------
(* The service process. *)

SmMains ==
  {"none", "register", "starting", "tellStarting", "running", "tellRunning", "daemon", "loop", "stopped", "tellStopped"}

SmHandlers == {"none", "pending", "tellPending", "raise", "stopped", "tellStopped", "tellLast"}

\* A stop is delivered only after ServiceMain has set RUNNING, so ServiceMain
\* never overwrites what the stop handler set; and wherever the handler is
\* about to report for the last time, or ServiceMain reports alone, the status
\* is STOPPED.
SmInv ==
  /\ smMain \in SmMains /\ smHandler \in SmHandlers
  /\ smMain = "register" => smHandler = "none"
  /\ smMain \in {"starting", "tellStarting", "running"} => smHandler \in {"none", "tellLast"}
  /\ smStatus = "RUNNING" => smMain \in {"tellRunning", "daemon", "loop", "stopped"}
  /\ smMain \in {"tellStopped", "none"} /\ smHandler \in {"pending", "tellStopped", "tellLast"} => smStatus = "STOPPED"
  /\ smMain = "tellStopped" /\ smHandler = "none" => smStatus = "STOPPED"
  /\ SmEndsStopped /\ SmRunningIsAlive

\* A step of the SCM's commands, of ServiceMain or of ServiceCtrlHandler keeps
\* the invariant.
LEMMA SmInvStep == SmInv /\ [SmNext]_smVars => SmInv'
<1> SUFFICES ASSUME SmInv, [SmNext]_smVars PROVE SmInv'
  OBVIOUS
<1> USE DEF SmInv, SmMains, SmHandlers, SmEndsStopped, SmRunningIsAlive, SmProcessGone
<1>1. CASE SmInstall \/ SmRemove \/ SmForget
  BY <1>1 DEF SmInstall, SmRemove, SmForget
<1>2. CASE SmStart
  BY <1>2 DEF SmStart
<1>3. CASE SmStop \/ SmInterrogate
  BY <1>3 DEF SmStop, SmInterrogate
<1>4. CASE SmRegister \/ SmDaemon
  BY <1>4 DEF SmRegister, SmDaemon
<1>5. CASE SmStarting
  BY <1>5 DEF SmStarting, SmMainAssign, SmMainTell
<1>6. CASE SmStopping
  BY <1>6 DEF SmStopping, SmMainAssign, SmMainTell
<1>7. CASE SmHandleStop
  BY <1>7 DEF SmHandleStop, SmHandlerAssign, SmHandlerTell, SmRaise
<1>8. CASE SmHandlerEnds
  BY <1>8 DEF SmHandlerEnds, SmHandlerTell
<1>9. CASE UNCHANGED smVars
  BY <1>9 DEF smVars
<1> QED BY <1>1, <1>2, <1>3, <1>4, <1>5, <1>6, <1>7, <1>8, <1>9 DEF SmNext

\* Although ServiceMain and ServiceCtrlHandler assign g_service_status and
\* report it without a lock, the control manager is told RUNNING only while
\* ServiceMain lives, and the last report of a process is STOPPED.
THEOREM ServiceTellsTheTruth == SmSpec => []ServiceStateTrue
<1>1. SmInit => SmInv
  BY DEF SmInit, SmInv, SmMains, SmHandlers, SmEndsStopped, SmRunningIsAlive, SmProcessGone
<1>2. SmInv => ServiceStateTrue
  BY DEF SmInv, ServiceStateTrue
<1> QED BY <1>1, <1>2, SmInvStep, PTL DEF SmSpec
-----------------------------------------------------------------------------
(* The webhook's worker. *)

\* The event in the worker's hand, as the sequence WhNothingLost counts.
WhInHand == IF whItem = 0 THEN <<>> ELSE <<whItem>>

\* The worker holds an event exactly between taking and sending it, and it is
\* joined before the engine starts again.
WhInv ==
  /\ whQueue \in Seq(Nat) /\ whDone \in Seq(Nat) /\ whItem \in Nat /\ whEvents \in Nat
  /\ whStopping \in {"no", "notify", "join"} /\ (whRunning => whStopping = "no")
  /\ ~whRunning /\ whStopping = "no" => whWorker = "none"
  /\ whItem # 0 <=> whWorker = "send"
  /\ WhNothingLost

\* Counting on by one appends the next number.
LEMMA CountOn == ASSUME NEW n \in Nat PROVE Append([i \in 1 .. n |-> i], n + 1) = [i \in 1 .. n + 1 |-> i]
<1> DEFINE s == [i \in 1 .. n |-> i]
           t == [i \in 1 .. n + 1 |-> i]
<1>1. s \in Seq(Nat) /\ Len(s) = n /\ t \in Seq(Nat) /\ Len(t) = n + 1
  BY SeqDef
<1>2. Append(s, n + 1) \in Seq(Nat) /\ Len(Append(s, n + 1)) = n + 1
  BY <1>1
<1>3. \A i \in 1 .. n + 1 : Append(s, n + 1)[i] = t[i]
  BY <1>1
<1> QED BY <1>1, <1>2, <1>3, SeqEqual

\* Moving the front of the queue into the hand leaves the whole as it is.
LEMMA HandOver ==
  ASSUME NEW d \in Seq(Nat), NEW q \in Seq(Nat), q # <<>>
  PROVE  d \o <<Head(q)>> \o Tail(q) = d \o <<>> \o q
<1>1. Head(q) \in Nat /\ Tail(q) \in Seq(Nat) /\ Len(Tail(q)) = Len(q) - 1
  BY HeadTailProperties
<1>2. q = <<Head(q)>> \o Tail(q)
  BY <1>1
<1>3. d \o <<Head(q)>> \o Tail(q) = d \o (<<Head(q)>> \o Tail(q))
  BY SMTT(20), <1>1, ConcatAssociative
<1> QED BY <1>2, <1>3, ConcatEmptySeq

\* No step of the engine loses an event, repeats one or changes their order.
LEMMA WhInvStep == WhInv /\ [WhNext]_whVars => WhInv'
<1> SUFFICES ASSUME WhInv, [WhNext]_whVars PROVE WhInv'
  OBVIOUS
<1> USE DEF WhInv
<1>0. /\ whStopping' \in {"no", "notify", "join"} /\ (whRunning' => whStopping' = "no")
      /\ ~whRunning' /\ whStopping' = "no" => whWorker' = "none"
  <2>1. CASE WhStart \/ WhStop \/ WhStopStep \/ UNCHANGED whVars
    BY <2>1 DEF WhStart, WhStop, WhStopStep, WhStopNotify, WhStopJoin, whVars
  <2>2. CASE WhEnqueue
    BY <2>2 DEF WhEnqueue, WhWake
  <2>3. CASE WhWorkerStep
    <3>1. UNCHANGED <<whRunning, whStopping>> /\ whWorker # "none"
      BY <2>3 DEF WhWorkerStep, WhTop, WhLook, WhSleep, WhTimeout, WhSend
    <3> QED BY <3>1
  <2> QED BY <2>1, <2>2, <2>3 DEF WhNext
<1>1. CASE WhStart \/ WhStop \/ WhStopStep \/ WhTop \/ WhSleep \/ UNCHANGED whVars
  <2>1. UNCHANGED <<whQueue, whDone, whItem, whEvents>>
    BY <1>1 DEF WhStart, WhStop, WhStopStep, WhStopNotify, WhStopJoin, WhTop, WhSleep, whVars
  <2>2. whWorker = "send" <=> whWorker' = "send"
    BY <1>1 DEF WhStart, WhStop, WhStopStep, WhStopNotify, WhStopJoin, WhTop, WhSleep, whVars, WhWake
  <2> QED BY <1>0, <2>1, <2>2 DEF WhNothingLost
<1>2. CASE WhEnqueue
  <2>1. /\ whEvents' = whEvents + 1 /\ whQueue' = Append(whQueue, whEvents + 1)
        /\ UNCHANGED <<whItem, whDone>> /\ (whWorker' = "send" <=> whWorker = "send")
    BY <1>2 DEF WhEnqueue, WhWake
  <2>2. WhInHand \in Seq(Nat) /\ WhInHand' = WhInHand
    BY <2>1 DEF WhInHand
  <2>3. whDone \o WhInHand \o whQueue' = Append(whDone \o WhInHand \o whQueue, whEvents + 1)
    <3> DEFINE d == whDone \o WhInHand
    <3>1. d \in Seq(Nat)
      BY <2>2
    <3> HIDE DEF d
    <3>2. d \o Append(whQueue, whEvents + 1) = Append(d \o whQueue, whEvents + 1)
      BY <3>1
    <3> QED BY <3>2, <2>1 DEF d
  <2>4. WhNothingLost'
    BY <2>1, <2>2, <2>3, CountOn DEF WhNothingLost, WhInHand
  <2> QED BY <1>0, <2>1, <2>4
<1>3. CASE WhLook \/ WhTimeout
  <2>1. /\ whWorker # "send" /\ UNCHANGED <<whEvents, whDone>>
        /\ \/ whWorker' # "send" /\ UNCHANGED <<whQueue, whItem>>
           \/ whQueue # <<>> /\ whWorker' = "send" /\ whItem' = Head(whQueue) /\ whQueue' = Tail(whQueue)
    BY <1>3 DEF WhLook, WhTimeout, WhTake
  <2>2. CASE whWorker' # "send" /\ UNCHANGED <<whQueue, whItem>>
    BY <1>0, <2>1, <2>2 DEF WhNothingLost
  <2>3. CASE whQueue # <<>> /\ whWorker' = "send" /\ whItem' = Head(whQueue) /\ whQueue' = Tail(whQueue)
    <3>1. whItem = 0
      BY <2>1
    <3>2. Head(whQueue) \in Nat /\ Tail(whQueue) \in Seq(Nat)
      BY <2>3, HeadTailProperties
    <3>3. whDone \o <<>> \o whQueue = [i \in 1 .. whEvents |-> i]
      BY <3>1 DEF WhNothingLost
    <3>4. Head(whQueue) # 0
      <4>1. whDone \o whQueue = [i \in 1 .. whEvents |-> i]
        BY <3>3, ConcatEmptySeq
      <4>2. Len(whDone) + 1 \in 1 .. whEvents /\ (whDone \o whQueue)[Len(whDone) + 1] = Head(whQueue)
        <5>1. Len(whDone \o whQueue) = whEvents
          BY <4>1
        <5> QED BY <5>1, <2>3
      <4> QED BY <4>1, <4>2
    <3>5. WhNothingLost'
      BY <2>1, <2>3, <3>3, <3>4, HandOver DEF WhNothingLost
    <3> QED BY <1>0, <2>1, <2>3, <3>2, <3>4, <3>5
  <2> QED BY <2>1, <2>2, <2>3
<1>4. CASE WhSend
  <2>1. /\ whWorker = "send" /\ whWorker' = "top" /\ whItem' = 0 /\ whDone' = Append(whDone, whItem)
        /\ UNCHANGED <<whQueue, whEvents>>
    BY <1>4 DEF WhSend
  <2>2. Append(whDone, whItem) = whDone \o <<whItem>>
    BY AppendIsConcat
  <2>3. whDone' \o <<>> = whDone \o <<whItem>>
    BY <2>1, <2>2, ConcatEmptySeq
  <2>4. whDone' \in Seq(Nat)
    BY <2>1
  <2>5. whItem # 0
    BY <2>1
  <2>6. WhNothingLost'
    BY <2>1, <2>3, <2>5 DEF WhNothingLost
  <2> QED BY <1>0, <2>1, <2>4, <2>6
<1> QED BY <1>1, <1>2, <1>3, <1>4 DEF WhNext, WhWorkerStep

\* Whenever the engine is stopped, restarted or asleep, the events sent, in
\* hand and queued are all the events that were enqueued, once and in order.
THEOREM WebhookLosesNothing == WhSpec => []WhNothingLost
<1>1. WhInit => WhInv
  BY DEF WhInit, WhInv, WhNothingLost
<1>2. WhInv => WhNothingLost
  BY DEF WhInv
<1> QED BY <1>1, <1>2, WhInvStep, PTL DEF WhSpec

-----------------------------------------------------------------------------
(* The honey ports. *)

\* Socket numbers are given once, the place of the listener is a port while it
\* serves, and a listener lives from start() to the end of stop().
ZgInv ==
  /\ zgPorts \in Seq(Nat) /\ zgMade \in Nat /\ zgAt \in Nat \ {0} /\ zgStop \in {"no", "join"}
  /\ (zgRunning => zgStop = "no")
  /\ ~zgRunning /\ zgStop = "no" => zgListener = "none"
  /\ \A i \in 1 .. Len(zgPorts) : zgPorts[i] <= zgMade
  /\ zgListener \in {"count", "reply"} => zgAt <= Len(zgPorts) /\ zgMade \notin ToSet(zgPorts)
  /\ ZgNoSocketLeft

\* The listener's steps and stop() keep the list of ports and the sockets that
\* are open in step.
LEMMA ZgInvStep == ZgInv /\ [ZgNext]_zgVars => ZgInv'
<1> SUFFICES ASSUME ZgInv, [ZgNext]_zgVars PROVE ZgInv'
  OBVIOUS
<1> USE DEF ZgInv
<1>1. ToSet(zgPorts) = {zgPorts[i] : i \in 1 .. Len(zgPorts)}
  BY DEF ToSet
<1>2. CASE ZgStart \/ ZgAddPort \/ ZgStop \/ ZgCount \/ UNCHANGED zgVars
  <2>1. UNCHANGED <<zgPorts, zgOpen, zgMade>>
    BY <1>2 DEF ZgStart, ZgAddPort, ZgStop, ZgCount, zgVars
  <2>2. zgListener \in {"count", "reply"} <=> zgListener' \in {"count", "reply"}
    BY <1>2 DEF ZgStart, ZgAddPort, ZgStop, ZgCount, zgVars
  <2>3. ZgNoSocketLeft'
    BY <2>1, <2>2 DEF ZgNoSocketLeft
  <2>4. zgListener' \in {"count", "reply"} => zgAt' = zgAt
    BY <1>2 DEF ZgStart, ZgAddPort, ZgStop, ZgCount, zgVars
  <2>5. /\ zgAt' \in Nat \ {0} /\ zgStop' \in {"no", "join"} /\ (zgRunning' => zgStop' = "no")
        /\ ~zgRunning' /\ zgStop' = "no" => zgListener' = "none"
    BY <1>2 DEF ZgStart, ZgAddPort, ZgStop, ZgCount, zgVars
  <2> QED BY <2>1, <2>2, <2>3, <2>4, <2>5
<1>3. CASE ZgRound
  BY <1>3 DEF ZgRound, ZgNoSocketLeft
<1>4. CASE ZgBind
  <2>1. /\ zgAt' = zgAt + 1 /\ zgMade' = zgMade + 1 /\ zgListener = "bind"
        /\ UNCHANGED <<zgRunning, zgListener, zgStop>>
    BY <1>4 DEF ZgBind
  <2>2. CASE zgPorts' = Append(zgPorts, zgMade + 1) /\ zgOpen' = zgOpen \cup {zgMade + 1}
    <3>1. zgPorts' \in Seq(Nat) /\ Len(zgPorts') = Len(zgPorts) + 1
      BY <2>2
    <3>2. \A i \in 1 .. Len(zgPorts') : zgPorts'[i] = IF i = Len(zgPorts) + 1 THEN zgMade + 1 ELSE zgPorts[i]
      BY <2>2
    <3>3. ToSet(zgPorts') = {zgPorts'[i] : i \in 1 .. Len(zgPorts')}
      BY SMTT(20), <3>1 DEF ToSet
    <3>4. ToSet(zgPorts') = ToSet(zgPorts) \cup {zgMade + 1}
      <4>1. ToSet(zgPorts) \subseteq ToSet(zgPorts')
        BY SMTT(20), <1>1, <3>1, <3>2, <3>3
      <4>2. zgMade + 1 \in ToSet(zgPorts')
        BY SMTT(20), <3>1, <3>2, <3>3
      <4>3. ToSet(zgPorts') \subseteq ToSet(zgPorts) \cup {zgMade + 1}
        BY <1>1, <3>1, <3>2, <3>3
      <4> QED BY <4>1, <4>2, <4>3
    <3> QED BY <2>1, <2>2, <3>1, <3>2, <3>4 DEF ZgNoSocketLeft
  <2>3. CASE zgOpen' = zgOpen /\ zgPorts' = zgPorts
    BY <2>1, <2>3 DEF ZgNoSocketLeft
  <2> QED BY <1>4, <2>2, <2>3 DEF ZgBind, ZgGiveUp
<1>5. CASE ZgAccept
  <2>1. \A s \in ToSet(zgPorts) : s # zgMade + 1
    BY <1>1
  <2> QED BY <1>5, <2>1 DEF ZgAccept, ZgNoSocketLeft
<1>6. CASE ZgReply
  BY <1>6 DEF ZgReply, ZgNoSocketLeft
<1>7. CASE ZgClose
  <2>1. /\ zgListener = "ended" /\ zgListener' = "none" /\ zgPorts' = <<>> /\ zgOpen' = zgOpen \ ToSet(zgPorts)
        /\ zgStop' = "no" /\ UNCHANGED <<zgMade, zgRunning, zgAt>>
    BY <1>7 DEF ZgClose, ZgJoined
  <2>2. ToSet(zgPorts') = {}
    BY <2>1 DEF ToSet
  <2>3. zgOpen' = {}
    BY <2>1 DEF ZgNoSocketLeft
  <2> QED BY <2>1, <2>2, <2>3 DEF ZgNoSocketLeft
<1> QED BY <1>2, <1>3, <1>4, <1>5, <1>6, <1>7 DEF ZgNext

\* Whenever stop() comes, the listener works only on ports that are listed and
\* open, and no socket is left open that the engine has no use for.
THEOREM HoneyPortsAreClosed == ZgSpec => []HoneyPortsClosed
<1>1. ZgInit => ZgInv
  <2> SUFFICES ASSUME ZgInit PROVE ZgInv
    OBVIOUS
  <2>1. zgPorts = <<>> /\ zgMade = 0 /\ zgAt = 1 /\ zgStop = "no" /\ zgRunning = FALSE /\ zgListener = "none" /\ zgOpen = {}
    BY DEF ZgInit
  <2>2. ToSet(zgPorts) = {}
    BY <2>1 DEF ToSet
  <2> QED BY <2>1, <2>2 DEF ZgInv, ZgNoSocketLeft
<1>2. ZgInv => HoneyPortsClosed
  <2> SUFFICES ASSUME ZgInv PROVE HoneyPortsClosed
    OBVIOUS
  <2>1. ZgServesOpenPorts
    BY DEF ZgInv, ZgServesOpenPorts, ZgNoSocketLeft, ToSet
  <2> QED BY <2>1 DEF ZgInv, HoneyPortsClosed
<1> QED BY <1>1, <1>2, ZgInvStep, PTL DEF ZgSpec

-----------------------------------------------------------------------------
(* The deep scanner. *)

DsTask == [scan : Nat, file : DsFiles]

DsRunning == [scan : Nat, file : DsFiles, at : {"new", "found", "counted", "done"}]

DsPcs == {"none", "list", "put", "enqueue", "await", "close", "ended"}

DsCallers ==
  {"idle", "join", "clear", "wait", "begin", "drop", "end", "endJoin", "endClear", "endWait", "dead"}

DsTypes ==
  /\ dsMonitor \in [pc : DsPcs, todo : SUBSET DsFiles] /\ dsCaller \in DsCallers
  /\ dsQueue \in Seq(DsTask)
  /\ IsFiniteSet(dsActive) /\ dsActive \subseteq DsRunning
  /\ IsFiniteSet(dsResults) /\ IsFiniteSet(dsLost)
  /\ {dsTotal, dsScanned, dsThreats, dsCompleted, dsScan} \subseteq Nat

\* The calls come after one another: the monitor is joined before the queue is
\* cleared for good, the pool is idle before a scan begins or the scanner is
\* gone, and the queue is cleared under the flag wherever a monitor may live.
DsCallsInv ==
  /\ dsCaller \in {"clear", "wait", "begin", "endClear", "endWait", "dead"} => dsMonitor.pc = "none"
  /\ dsCaller \in {"begin", "dead"} => dsQueue = <<>> /\ dsActive = {}
  /\ dsCaller \in {"drop", "end"} => dsCancel
  /\ dsMonitor.pc \notin {"put", "enqueue"} => dsMonitor.todo = {}

\* A file is still to be enqueued, or queued, or at a worker, or among the
\* results or the lost threats once its task has come to an end, and in one
\* place only.
DsOnce ==
  /\ \A i, j \in 1 .. Len(dsQueue) : dsQueue[i].file = dsQueue[j].file => i = j
  /\ \A a, b \in dsActive : a.file = b.file => a = b
  /\ \A i \in 1 .. Len(dsQueue) : dsQueue[i].file \notin dsMonitor.todo
  /\ \A a \in dsActive : a.file \notin dsMonitor.todo
  /\ \A a \in dsActive, i \in 1 .. Len(dsQueue) : a.file # dsQueue[i].file
  /\ \A r \in dsResults : /\ r[2] \notin dsMonitor.todo
                          /\ \A i \in 1 .. Len(dsQueue) : r[2] # dsQueue[i].file
                          /\ \A a \in dsActive : a.at = "done" \/ r[2] # a.file
  /\ \A f \in dsLost : /\ f \notin dsMonitor.todo
                       /\ \A i \in 1 .. Len(dsQueue) : f # dsQueue[i].file
                       /\ \A a \in dsActive : a.at = "done" \/ f # a.file
  /\ dsMonitor.pc = "list" => dsResults = {} /\ dsLost = {}

\* Every task that is counted, running, queued or to come is one of the total.
DsBudget ==
  /\ dsScanned + Cardinality(dsActive) + Len(dsQueue) + Cardinality(dsMonitor.todo) <= dsTotal
  /\ dsMonitor.pc = "list" => dsTotal = 0

\* What is queued, running or found belongs to the scan last begun.
DsCurrent ==
  /\ \A a \in dsActive : a.scan = dsScan
  /\ \A i \in 1 .. Len(dsQueue) : dsQueue[i].scan = dsScan
  /\ \A r \in dsResults : r[1] = dsScan
  /\ dsThreats = Cardinality(dsResults) + Cardinality(DsOwed) + Cardinality(dsLost)

\* Where a listed file is: ahead of its task's end, or accounted for.
DsPlaced(f) ==
  \/ f \in dsMonitor.todo \/ (\E i \in 1 .. Len(dsQueue) : dsQueue[i].file = f)
  \/ (\E a \in dsActive : a.at # "done" /\ a.file = f)
  \/ <<dsScan, f>> \in dsResults \/ f \in dsUnread \union dsLost

\* A threat is passed over only under the flag, or when the monitor gave up.
DsAccounted ==
  dsMonitor.pc \in {"put", "enqueue", "await", "close"} /\ ~dsCancel => \A f \in dsListed \cap DsInfected : DsPlaced(f)

DsHonest ==
  /\ dsMonitor.pc = "close" /\ ~dsCancel => dsScanned = dsTotal /\ dsQueue = <<>> /\ dsActive = {}

DsInv == DsTypes /\ DsCallsInv /\ DsOnce /\ DsBudget /\ DsCurrent /\ DsAccounted /\ DsHonest

\* The steps of a task before it is counted as scanned.
DsWork(a) == DsLook(a) \/ DsThreat(a) \/ DsKeep(a)

\* The steps that move no task and no result.
DsQuiet ==
  \/ DsStart \/ (\E from, to \in DsCallers : DsWaitIdle(from, to)) \/ (\E to \in DsCallers : DsCancel(to))
  \/ DsAwait \/ DsClose \/ UNCHANGED dsVars

\* The lists of files that enumerate_files() returns are finite.
LEMMA DsListedFinite == \A files \in SUBSET DsFiles : IsFiniteSet(files) /\ Cardinality(files) \in Nat
BY DsConstants, FS_Subset, FS_CardinalityType

\* What DsNext is made of, by the kind of step.
LEMMA DsStepKinds ==
  ASSUME [DsNext]_dsVars
  PROVE  \/ DsQuiet
         \/ DsJoin("join", "clear") \/ DsJoin("endJoin", "endClear")
         \/ DsClearQueue("clear", "wait") \/ DsClearQueue("drop", "idle")
         \/ DsClearQueue("end", "endJoin") \/ DsClearQueue("endClear", "endWait")
         \/ DsBegin \/ DsList \/ DsPick \/ DsEnqueue \/ DsAbort \/ DsTake
         \/ \E a \in dsActive : DsWork(a) \/ DsFinish(a)
<1>1. {"wait", "begin", "drop", "end", "endWait", "dead"} \subseteq DsCallers
  BY DEF DsCallers
<1> QED BY <1>1 DEF DsNext, DsCallerStep, DsMonitorStep, DsWorkerStep, DsQuiet, DsWork

\* Removing the task at the front moves the others up by one.
LEMMA DsTailMeaning ==
  ASSUME DsTypes, dsQueue # <<>>
  PROVE  /\ Head(dsQueue) = dsQueue[1] /\ Head(dsQueue) \in DsTask /\ 1 \in 1 .. Len(dsQueue)
         /\ Tail(dsQueue) \in Seq(DsTask) /\ Len(Tail(dsQueue)) = Len(dsQueue) - 1
         /\ \A i \in 1 .. Len(Tail(dsQueue)) : Tail(dsQueue)[i] = dsQueue[i + 1] /\ i + 1 \in 1 .. Len(dsQueue)
<1>1. dsQueue \in Seq(DsTask)
  BY DEF DsTypes
<1> HIDE DEF DsTask
<1> QED BY <1>1

\* A quiet step leaves tasks, files to come, counters and results alone.
LEMMA DsQuietFrame ==
  ASSUME DsTypes, DsQuiet
  PROVE  /\ UNCHANGED <<dsQueue, dsActive, dsResults, dsTotal, dsScanned, dsThreats, dsSeen>>
         /\ dsCompleted' \in Nat
         /\ dsMonitor' \in [pc : DsPcs, todo : SUBSET DsFiles]
         /\ dsMonitor'.todo \in {dsMonitor.todo, {}}
         /\ dsMonitor' = dsMonitor \/ dsMonitor.pc = "await" \/ (dsMonitor.pc = "close" /\ dsMonitor'.pc = "ended")
<1> USE DEF DsTypes, DsPcs
<1>1. CASE DsStart \/ (\E from, to \in DsCallers : DsWaitIdle(from, to)) \/ (\E to \in DsCallers : DsCancel(to)) \/ UNCHANGED dsVars
  BY <1>1 DEF DsStart, DsWaitIdle, DsCancel, dsVars, dsCounts
<1>2. CASE DsAwait
  BY <1>2 DEF DsAwait, dsCounts
<1>3. CASE DsClose
  BY <1>3 DEF DsClose
<1> QED BY <1>1, <1>2, <1>3 DEF DsQuiet

\* What a step of a task does: the task moves on in the set of those running,
\* and of the counters only that of the threats may change.
DsWorked(a, b) ==
  /\ b \in DsRunning /\ b.scan = a.scan /\ b.file = a.file /\ b \notin dsActive /\ a.at # "done"
  /\ dsActive' = (dsActive \ {a}) \union {b}
  /\ IsFiniteSet(dsActive') /\ Cardinality(dsActive') = Cardinality(dsActive)
  /\ UNCHANGED <<dsScanning, dsCancel, dsTotal, dsScanned, dsCompleted, dsCaller, dsMonitor, dsQueue, dsScan, dsListed>>
  /\ \/ /\ a.at = "new" /\ b.at \in {"done", "found"} /\ UNCHANGED <<dsThreats, dsResults, dsLost>>
        /\ \/ b.at = "found" /\ dsUnread' = dsUnread
           \/ dsUnread' = dsUnread /\ (dsCancel \/ a.file \notin DsInfected)
           \/ dsUnread' = dsUnread \union {a.file}
     \/ /\ a.at = "found" /\ b.at = "counted" /\ dsThreats' = dsThreats + 1 /\ UNCHANGED <<dsResults, dsUnread, dsLost>>
     \/ /\ a.at = "counted" /\ b.at = "done" /\ UNCHANGED <<dsThreats, dsUnread>>
        /\ \/ dsResults' = dsResults \union {<<a.scan, a.file>>} /\ dsLost' = dsLost
           \/ dsLost' = dsLost \union {a.file} /\ dsResults' = dsResults

\* The steps of a task are such.
LEMMA DsWorkMeaning == ASSUME DsTypes, DsOnce, NEW a \in dsActive, DsWork(a) PROVE \E b : DsWorked(a, b)
<1>1. a \in DsRunning /\ IsFiniteSet(dsActive)
  BY DEF DsTypes
<1>2. PICK at \in {"found", "counted", "done"} : DsMove(a, at) /\ a.at # at /\ a.at # "done"
  <2>1. CASE DsLook(a)
    BY <2>1 DEF DsLook
  <2>2. CASE DsThreat(a)
    BY <2>2 DEF DsThreat
  <2>3. CASE DsKeep(a)
    BY <2>3 DEF DsKeep
  <2> QED BY <2>1, <2>2, <2>3 DEF DsWork
<1>3. PICK b : b = [a EXCEPT !.at = at]
  OBVIOUS
<1>4. b \in DsRunning /\ b.scan = a.scan /\ b.file = a.file /\ b.at = at
  BY <1>1, <1>2, <1>3 DEF DsRunning
<1>5. b \notin dsActive
  BY <1>2, <1>4 DEF DsOnce
<1>6. dsActive' = (dsActive \ {a}) \union {b}
  BY <1>2, <1>3 DEF DsMove
<1>7. IsFiniteSet(dsActive') /\ Cardinality(dsActive') = Cardinality(dsActive)
  <2>1. IsFiniteSet(dsActive \ {a}) /\ Cardinality(dsActive \ {a}) = Cardinality(dsActive) - 1
    BY <1>1, FS_RemoveElement
  <2>2. b \notin dsActive \ {a}
    BY <1>5
  <2>3. /\ IsFiniteSet((dsActive \ {a}) \union {b})
        /\ Cardinality((dsActive \ {a}) \union {b}) = Cardinality(dsActive \ {a}) + 1
    BY <2>1, <2>2, FS_AddElement
  <2>4. Cardinality(dsActive) \in Nat
    BY <1>1, FS_CardinalityType
  <2> QED BY <1>6, <2>1, <2>3, <2>4
<1>8. \A x \in {"found", "counted", "done"} : DsMove(a, x) => x = at
  <2> SUFFICES ASSUME NEW x \in {"found", "counted", "done"}, DsMove(a, x) PROVE x = at
    OBVIOUS
  <2>1. PICK c : c = [a EXCEPT !.at = x]
    OBVIOUS
  <2>2. c.at = x /\ c.file = a.file
    BY <1>1, <2>1 DEF DsRunning
  <2>3. c \in (dsActive \ {a}) \union {b}
    BY <1>6, <2>1 DEF DsMove
  <2>4. CASE c \in dsActive \ {a}
    BY <2>2, <2>4 DEF DsOnce
  <2>5. CASE c = b
    BY <1>4, <2>2, <2>5
  <2> QED BY <2>3, <2>4, <2>5
<1>9. CASE DsLook(a)
  BY <1>2, <1>4, <1>5, <1>6, <1>7, <1>8, <1>9 DEF DsLook, DsWorked, dsCounts
<1>10. CASE DsThreat(a)
  BY <1>2, <1>4, <1>5, <1>6, <1>7, <1>8, <1>10 DEF DsThreat, DsWorked, dsSeen
<1>11. CASE DsKeep(a)
  BY <1>2, <1>4, <1>5, <1>6, <1>7, <1>8, <1>11 DEF DsKeep, DsWorked
<1> QED BY <1>9, <1>10, <1>11 DEF DsWork

\* The types are kept.
LEMMA DsTypesStep == DsTypes /\ DsOnce /\ [DsNext]_dsVars => DsTypes'
<1> SUFFICES ASSUME DsTypes, DsOnce, [DsNext]_dsVars PROVE DsTypes'
  OBVIOUS
<1>0. dsCaller' \in DsCallers
  BY DEF DsTypes, DsCallers, DsNext, DsCallerStep, DsMonitorStep, DsWorkerStep, DsStart, DsJoin, DsClearQueue, DsWaitIdle, DsBegin,
         DsCancel, DsCall, DsList, DsPick, DsEnqueue, DsAwait, DsClose, DsAbort, DsTake, DsLook, DsThreat, DsKeep, DsFinish, dsVars
<1>1. CASE DsQuiet
  BY <1>0, <1>1, DsQuietFrame DEF DsTypes, dsSeen
<1>2. ASSUME NEW from, NEW to, DsJoin(from, to) PROVE DsTypes'
  BY <1>0, <1>2 DEF DsTypes, DsJoin, DsPcs, dsCounts, dsSeen
<1>3. ASSUME NEW from, NEW to, DsClearQueue(from, to) PROVE DsTypes'
  BY <1>0, <1>3 DEF DsTypes, DsClearQueue, dsCounts, dsSeen
<1>4. CASE DsBegin
  BY <1>0, <1>4, FS_EmptySet DEF DsTypes, DsBegin, DsPcs
<1>5. CASE DsList
  BY <1>0, <1>5, DsListedFinite DEF DsTypes, DsList, DsPcs, DsListed
<1>6. CASE DsPick \/ DsAbort
  BY <1>0, <1>6 DEF DsTypes, DsPick, DsAbort, DsPcs, dsCounts, dsSeen
<1>7. CASE DsEnqueue
  <2>1. PICK file \in dsMonitor.todo :
          /\ dsQueue' = Append(dsQueue, [scan |-> dsScan, file |-> file])
          /\ dsMonitor' = [pc |-> "put", todo |-> dsMonitor.todo \ {file}]
    BY <1>7 DEF DsEnqueue
  <2>2. [scan |-> dsScan, file |-> file] \in DsTask
    BY DEF DsTypes, DsTask
  <2>3. dsQueue' \in Seq(DsTask)
    BY <2>1, <2>2 DEF DsTypes
  <2> QED BY <1>0, <1>7, <2>1, <2>3 DEF DsTypes, DsEnqueue, DsPcs, dsCounts, dsSeen
<1>8. CASE DsTake
  <2>1. Head(dsQueue) \in DsTask /\ Tail(dsQueue) \in Seq(DsTask)
    BY <1>8, DsTailMeaning DEF DsTake
  <2>2. IsFiniteSet(dsActive')
    BY <1>8, FS_AddElement DEF DsTake, DsTypes
  <2>3. dsActive' \subseteq DsRunning
    BY <1>8, <2>1 DEF DsTake, DsTypes, DsTask, DsRunning
  <2> QED BY <1>0, <1>8, <2>1, <2>2, <2>3 DEF DsTypes, DsTake, dsCounts, dsSeen
<1>9. ASSUME NEW a \in dsActive, DsFinish(a) PROVE DsTypes'
  <2>1. IsFiniteSet(dsActive')
    BY <1>9, FS_RemoveElement DEF DsFinish, DsTypes
  <2>2. dsScanned' \in Nat
    BY <1>9 DEF DsFinish, DsTypes, DsCounted
  <2> QED BY <1>0, <1>9, <2>1, <2>2 DEF DsTypes, DsFinish, dsSeen
<1>10. ASSUME NEW a \in dsActive, DsWork(a) PROVE DsTypes'
  <2>1. PICK b : DsWorked(a, b)
    BY <1>10, DsWorkMeaning
  <2>2. IsFiniteSet(dsResults') /\ IsFiniteSet(dsLost')
    <3>1. IsFiniteSet(dsResults \union {<<a.scan, a.file>>}) /\ IsFiniteSet(dsLost \union {a.file})
      BY FS_AddElement DEF DsTypes
    <3> QED BY <2>1, <3>1 DEF DsWorked, DsTypes
  <2>3. dsThreats' \in Nat
    BY <2>1 DEF DsWorked, DsTypes
  <2> QED BY <1>0, <2>1, <2>2, <2>3 DEF DsTypes, DsWorked
<1> QED BY <1>1, <1>2, <1>3, <1>4, <1>5, <1>6, <1>7, <1>8, <1>9, <1>10, DsStepKinds

\* The order of the calls is kept.
LEMMA DsCallsStep == DsTypes /\ DsCallsInv /\ [DsNext]_dsVars => DsCallsInv'
<1> SUFFICES ASSUME DsTypes, DsCallsInv, [DsNext]_dsVars PROVE DsCallsInv'
  OBVIOUS
<1> USE DEF DsCallsInv, DsTypes, DsPcs
<1>1. CASE DsCallerStep
  <2>1. CASE DsStart \/ DsCancel("drop") \/ DsCancel("end")
    BY <2>1 DEF DsStart, DsCancel, DsCall
  <2>2. CASE DsJoin("join", "clear") \/ DsJoin("endJoin", "endClear")
    BY <2>2 DEF DsJoin, DsCall
  <2>3. CASE DsClearQueue("clear", "wait") \/ DsClearQueue("endClear", "endWait")
    BY <2>3 DEF DsClearQueue, DsCall
  <2>4. CASE DsClearQueue("drop", "idle") \/ DsClearQueue("end", "endJoin")
    BY <2>4 DEF DsClearQueue, DsCall
  <2>5. CASE DsWaitIdle("wait", "begin") \/ DsWaitIdle("endWait", "dead")
    BY <2>5 DEF DsWaitIdle, DsCall
  <2>6. CASE DsBegin
    BY <2>6 DEF DsBegin, DsCall
  <2> QED BY <1>1, <2>1, <2>2, <2>3, <2>4, <2>5, <2>6 DEF DsCallerStep
<1>2. CASE DsMonitorStep \/ DsAbort
  <2>1. dsMonitor.pc # "none" /\ UNCHANGED <<dsCaller, dsCancel>>
    BY <1>2 DEF DsMonitorStep, DsList, DsPick, DsEnqueue, DsAwait, DsClose, DsAbort
  <2>2. dsMonitor'.pc \notin {"put", "enqueue"} => dsMonitor'.todo = {}
    <3>1. CASE DsList
      BY <3>1 DEF DsList
    <3>2. CASE DsPick
      BY <3>2 DEF DsPick
    <3>3. CASE DsEnqueue
      BY <3>3 DEF DsEnqueue
    <3>4. CASE DsAwait
      BY <3>4 DEF DsAwait
    <3>5. CASE DsClose \/ DsAbort
      BY <3>5 DEF DsClose, DsAbort
    <3> QED BY <1>2, <3>1, <3>2, <3>3, <3>4, <3>5 DEF DsMonitorStep
  <2> QED BY <2>1, <2>2
<1>3. CASE DsTake
  BY <1>3 DEF DsTake
<1>4. ASSUME NEW a \in dsActive, DsFinish(a) \/ DsLook(a) \/ DsThreat(a) \/ DsKeep(a) PROVE DsCallsInv'
  BY <1>4 DEF DsFinish, DsLook, DsThreat, DsKeep
<1>5. CASE UNCHANGED dsVars
  BY <1>5 DEF dsVars
<1> QED BY <1>1, <1>2, <1>3, <1>4, <1>5 DEF DsNext, DsWorkerStep

\* A file never comes to be in two places: enqueue, take and finish move it.
LEMMA DsOnceStep == DsTypes /\ DsCallsInv /\ DsOnce /\ DsBudget /\ [DsNext]_dsVars => DsOnce'
<1> SUFFICES ASSUME DsTypes, DsCallsInv, DsOnce, DsBudget, [DsNext]_dsVars PROVE DsOnce'
  OBVIOUS
<1>1. CASE DsQuiet
  <2>1. dsMonitor'.pc # "list" \/ dsMonitor'.pc = dsMonitor.pc
    BY <1>1 DEF DsQuiet, DsStart, DsWaitIdle, DsCancel, DsAwait, DsClose, DsTypes, dsVars
  <2> QED BY <1>1, <2>1, DsQuietFrame DEF DsOnce, dsSeen
<1>2. ASSUME NEW from, NEW to, DsJoin(from, to) PROVE DsOnce'
  BY <1>2 DEF DsOnce, DsJoin, dsCounts, dsSeen
<1>3. ASSUME NEW from, NEW to, DsClearQueue(from, to) PROVE DsOnce'
  BY <1>3 DEF DsOnce, DsClearQueue, dsCounts, dsSeen
<1>4. CASE DsBegin
  BY <1>4 DEF DsOnce, DsBegin
<1>5. CASE DsList
  <2>1. UNCHANGED <<dsQueue, dsActive, dsResults, dsLost>> /\ dsMonitor'.pc # "list"
    BY <1>5 DEF DsList
  <2>2. CASE dsCancel
    BY <1>5, <2>1, <2>2 DEF DsOnce, DsList
  <2>3. dsQueue = <<>> /\ dsActive = {} /\ dsResults = {}
    <3>1. dsMonitor.pc = "list" /\ dsTotal = 0
      BY <1>5 DEF DsList, DsBudget
    <3>2. Len(dsQueue) \in Nat /\ Cardinality(dsActive) \in Nat /\ Cardinality(dsMonitor.todo) \in Nat /\ dsScanned \in Nat
      BY DsListedFinite, FS_CardinalityType DEF DsTypes
    <3>3. Len(dsQueue) = 0 /\ Cardinality(dsActive) = 0
      BY <3>1, <3>2 DEF DsBudget
    <3> QED BY <3>1, <3>3, FS_EmptySet DEF DsOnce, DsTypes
  <2>4. dsLost = {} /\ dsLost' = dsLost
    BY <1>5 DEF DsList, DsOnce
  <2> QED BY <2>1, <2>3, <2>4 DEF DsOnce
<1>6. CASE DsPick \/ DsAbort
  <2>1. UNCHANGED <<dsQueue, dsActive, dsResults, dsLost>> /\ dsMonitor'.pc # "list" /\ dsMonitor'.todo \in {dsMonitor.todo, {}}
    BY <1>6 DEF DsPick, DsAbort, dsCounts, dsSeen, DsTypes
  <2> QED BY <2>1 DEF DsOnce
<1>7. CASE DsEnqueue
  <2>1. PICK file \in dsMonitor.todo :
          /\ dsQueue' = Append(dsQueue, [scan |-> dsScan, file |-> file])
          /\ dsMonitor' = [pc |-> "put", todo |-> dsMonitor.todo \ {file}]
    BY <1>7 DEF DsEnqueue
  <2>2. UNCHANGED <<dsActive, dsResults, dsLost>>
    BY <1>7 DEF DsEnqueue, dsCounts, dsSeen
  <2>3. /\ Len(dsQueue) \in Nat /\ Len(dsQueue') = Len(dsQueue) + 1
        /\ \A i \in 1 .. Len(dsQueue') : dsQueue'[i] = IF i = Len(dsQueue) + 1 THEN [scan |-> dsScan, file |-> file] ELSE dsQueue[i]
    BY <2>1 DEF DsTypes
  <2>4. \A i \in 1 .. Len(dsQueue') : \/ i = Len(dsQueue) + 1 /\ dsQueue'[i].file = file
                                      \/ i \in 1 .. Len(dsQueue) /\ dsQueue'[i] = dsQueue[i]
    BY <2>3
  <2>5. dsMonitor'.todo = dsMonitor.todo \ {file} /\ dsMonitor'.pc = "put"
    BY <2>1
  <2> QED BY SMTT(20), <2>2, <2>4, <2>5 DEF DsOnce
<1>8. CASE DsTake
  <2>1. /\ dsQueue # <<>> /\ dsQueue' = Tail(dsQueue) /\ UNCHANGED <<dsMonitor, dsResults, dsLost>>
        /\ dsActive' = dsActive \union {[scan |-> Head(dsQueue).scan, file |-> Head(dsQueue).file, at |-> "new"]}
    BY <1>8 DEF DsTake, dsCounts, dsSeen
  <2>2. PICK t : t = [scan |-> Head(dsQueue).scan, file |-> Head(dsQueue).file, at |-> "new"]
    OBVIOUS
  <2>3. t.file = dsQueue[1].file /\ t.at = "new"
    BY <2>1, <2>2, DsTailMeaning
  <2>4. /\ 1 \in 1 .. Len(dsQueue) /\ Len(dsQueue) \in Nat
        /\ \A i \in 1 .. Len(dsQueue') : dsQueue'[i] = dsQueue[i + 1] /\ i + 1 \in 1 .. Len(dsQueue) /\ i + 1 # 1
    BY <2>1, DsTailMeaning DEF DsTypes
  <2>5. dsActive' = dsActive \union {t}
    BY <2>1, <2>2
  <2>6. \A i, j \in 1 .. Len(dsQueue') : dsQueue'[i].file = dsQueue'[j].file => i = j
    <3>1. \A i, j \in 1 .. Len(dsQueue') : i + 1 = j + 1 => i = j
      OBVIOUS
    <3>2. \A i, j \in 1 .. Len(dsQueue) : dsQueue[i].file = dsQueue[j].file => i = j
      BY DEF DsOnce
    <3> QED BY <2>4, <3>1, <3>2
  <2>7. \A i \in 1 .. Len(dsQueue') : t.file # dsQueue'[i].file
    BY <2>3, <2>4 DEF DsOnce
  <2>8. /\ \A a, b \in dsActive' : a.file = b.file => a = b
        /\ \A a \in dsActive' : a.file \notin dsMonitor'.todo
    BY <2>1, <2>3, <2>4, <2>5 DEF DsOnce
  <2>9. /\ \A i \in 1 .. Len(dsQueue') : dsQueue'[i].file \notin dsMonitor'.todo
        /\ \A a \in dsActive', i \in 1 .. Len(dsQueue') : a.file # dsQueue'[i].file
    BY <2>1, <2>4, <2>5, <2>7 DEF DsOnce
  <2>10. \A r \in dsResults' : /\ r[2] \notin dsMonitor'.todo
                               /\ \A i \in 1 .. Len(dsQueue') : r[2] # dsQueue'[i].file
                               /\ \A a \in dsActive' : a.at = "done" \/ r[2] # a.file
    BY <2>1, <2>3, <2>4, <2>5 DEF DsOnce
  <2>11. \A f \in dsLost' : /\ f \notin dsMonitor'.todo
                            /\ \A i \in 1 .. Len(dsQueue') : f # dsQueue'[i].file
                            /\ \A a \in dsActive' : a.at = "done" \/ f # a.file
    BY <2>1, <2>3, <2>4, <2>5 DEF DsOnce
  <2> QED BY <2>1, <2>6, <2>8, <2>9, <2>10, <2>11 DEF DsOnce
<1>9. ASSUME NEW a \in dsActive, DsFinish(a) PROVE DsOnce'
  BY <1>9 DEF DsFinish, DsOnce, dsSeen
<1>10. ASSUME NEW a \in dsActive, DsWork(a) PROVE DsOnce'
  <2>1. PICK b : DsWorked(a, b)
    BY <1>10, DsWorkMeaning
  <2>2. UNCHANGED <<dsMonitor, dsQueue>> /\ dsActive' = (dsActive \ {a}) \union {b} /\ b.file = a.file /\ a.at # "done"
    BY <2>1 DEF DsWorked
  <2>3. dsMonitor.pc # "list"
    <3>1. Len(dsQueue) \in Nat /\ Cardinality(dsActive) \in Nat /\ Cardinality(dsMonitor.todo) \in Nat /\ dsScanned \in Nat
      BY DsListedFinite, FS_CardinalityType DEF DsTypes
    <3>2. Cardinality(dsActive) # 0
      BY FS_EmptySet DEF DsTypes
    <3> QED BY <3>1, <3>2 DEF DsBudget
  <2>4. /\ \A r \in dsResults' : r \in dsResults \/ (r[2] = a.file /\ b.at = "done")
        /\ \A f \in dsLost' : f \in dsLost \/ (f = a.file /\ b.at = "done")
    BY <2>1 DEF DsWorked
  <2>5. /\ \A i, j \in 1 .. Len(dsQueue') : dsQueue'[i].file = dsQueue'[j].file => i = j
        /\ \A c, d \in dsActive' : c.file = d.file => c = d
        /\ \A i \in 1 .. Len(dsQueue') : dsQueue'[i].file \notin dsMonitor'.todo
        /\ \A c \in dsActive' : c.file \notin dsMonitor'.todo
        /\ \A c \in dsActive', i \in 1 .. Len(dsQueue') : c.file # dsQueue'[i].file
    BY <2>2 DEF DsOnce
  <2>6. \A r \in dsResults' : /\ r[2] \notin dsMonitor'.todo
                              /\ \A i \in 1 .. Len(dsQueue') : r[2] # dsQueue'[i].file
                              /\ \A c \in dsActive' : c.at = "done" \/ r[2] # c.file
    BY <2>2, <2>4 DEF DsOnce
  <2>7. \A f \in dsLost' : /\ f \notin dsMonitor'.todo
                           /\ \A i \in 1 .. Len(dsQueue') : f # dsQueue'[i].file
                           /\ \A c \in dsActive' : c.at = "done" \/ f # c.file
    BY <2>2, <2>4 DEF DsOnce
  <2> QED BY <2>2, <2>3, <2>5, <2>6, <2>7 DEF DsOnce
<1> QED BY <1>1, <1>2, <1>3, <1>4, <1>5, <1>6, <1>7, <1>8, <1>9, <1>10, DsStepKinds

\* What is counted, running, queued and to come never exceeds the total.
LEMMA DsBudgetStep == DsTypes /\ DsCallsInv /\ DsOnce /\ DsBudget /\ [DsNext]_dsVars => DsBudget'
<1> SUFFICES ASSUME DsTypes, DsCallsInv, DsOnce, DsBudget, [DsNext]_dsVars PROVE DsBudget'
  OBVIOUS
<1>0. /\ Len(dsQueue) \in Nat /\ Cardinality(dsActive) \in Nat /\ Cardinality(dsMonitor.todo) \in Nat
      /\ dsScanned \in Nat /\ dsTotal \in Nat /\ Cardinality({}) = 0
  BY DsListedFinite, FS_CardinalityType, FS_EmptySet DEF DsTypes
<1>1. CASE DsQuiet
  <2>1. dsMonitor'.pc # "list" \/ dsMonitor'.pc = dsMonitor.pc
    BY <1>1 DEF DsQuiet, DsStart, DsWaitIdle, DsCancel, DsAwait, DsClose, DsTypes, dsVars
  <2>2. Cardinality(dsMonitor'.todo) \in {Cardinality(dsMonitor.todo), 0}
    BY <1>0, <1>1, DsQuietFrame
  <2> QED BY <1>0, <1>1, <2>1, <2>2, DsQuietFrame DEF DsBudget
<1>2. ASSUME NEW from, NEW to, DsJoin(from, to) PROVE DsBudget'
  BY <1>0, <1>2 DEF DsBudget, DsJoin, dsCounts
<1>3. ASSUME NEW from, NEW to, DsClearQueue(from, to) PROVE DsBudget'
  BY <1>0, <1>3 DEF DsBudget, DsClearQueue, dsCounts
<1>4. CASE DsBegin
  <2>1. /\ dsQueue = <<>> /\ dsActive = {} /\ UNCHANGED <<dsQueue, dsActive>> /\ dsScanned' = 0 /\ dsTotal' = 0
        /\ dsMonitor'.todo = {}
    BY <1>4 DEF DsBegin, DsCallsInv, DsCall
  <2>2. Len(dsQueue') = 0 /\ Cardinality(dsActive') = 0 /\ Cardinality(dsMonitor'.todo) = 0
    BY <1>0, <2>1
  <2> QED BY <2>1, <2>2 DEF DsBudget
<1>5. CASE DsList
  <2>1. UNCHANGED <<dsQueue, dsActive, dsScanned>> /\ dsMonitor'.pc # "list"
    BY <1>5 DEF DsList
  <2>2. dsTotal = 0 /\ dsMonitor.pc = "list"
    BY <1>5 DEF DsList, DsBudget
  <2>3. Len(dsQueue) = 0 /\ Cardinality(dsActive) = 0 /\ dsScanned = 0
    BY <1>0, <2>2 DEF DsBudget
  <2>4. dsTotal' \in Nat /\ dsTotal' >= Cardinality(dsMonitor'.todo) /\ Cardinality(dsMonitor'.todo) \in Nat
    <3>1. CASE dsCancel
      <4>1. dsMonitor'.todo = {} /\ dsTotal' = dsTotal
        BY <1>5, <3>1 DEF DsList
      <4>2. Cardinality(dsMonitor'.todo) = 0
        BY <1>0, <4>1
      <4> QED BY <1>0, <4>1, <4>2
    <3>2. CASE ~dsCancel
      <4>1. PICK files \in DsListed : dsMonitor' = [pc |-> "put", todo |-> files] /\ dsTotal' = Cardinality(files)
        BY <1>5, <3>2 DEF DsList
      <4> QED BY <4>1, DsListedFinite DEF DsListed
    <3> QED BY <3>1, <3>2
  <2> QED BY <2>1, <2>3, <2>4 DEF DsBudget
<1>6. CASE DsPick \/ DsAbort
  <2>1. /\ UNCHANGED <<dsQueue, dsActive, dsScanned, dsTotal>> /\ dsMonitor'.pc # "list"
        /\ dsMonitor'.todo \in {dsMonitor.todo, {}}
    BY <1>6 DEF DsPick, DsAbort, dsCounts, DsTypes
  <2>2. Cardinality(dsMonitor'.todo) \in {Cardinality(dsMonitor.todo), 0}
    BY <1>0, <2>1
  <2> QED BY <1>0, <2>1, <2>2 DEF DsBudget
<1>7. CASE DsEnqueue
  <2>1. PICK file \in dsMonitor.todo :
          /\ dsQueue' = Append(dsQueue, [scan |-> dsScan, file |-> file])
          /\ dsMonitor' = [pc |-> "put", todo |-> dsMonitor.todo \ {file}]
    BY <1>7 DEF DsEnqueue
  <2>2. UNCHANGED <<dsActive, dsScanned, dsTotal>>
    BY <1>7 DEF DsEnqueue, dsCounts
  <2>3. Len(dsQueue') = Len(dsQueue) + 1
    BY <2>1 DEF DsTypes
  <2>4. Cardinality(dsMonitor'.todo) = Cardinality(dsMonitor.todo) - 1
    <3>1. IsFiniteSet(dsMonitor.todo)
      BY DsListedFinite DEF DsTypes
    <3>2. Cardinality(dsMonitor.todo \ {file}) = Cardinality(dsMonitor.todo) - 1
      BY <3>1, FS_RemoveElement
    <3> QED BY <2>1, <3>2
  <2>5. dsMonitor'.pc = "put"
    BY <2>1
  <2> QED BY <1>0, <2>2, <2>3, <2>4, <2>5 DEF DsBudget
<1>8. CASE DsTake
  <2>1. /\ dsQueue # <<>> /\ dsQueue' = Tail(dsQueue) /\ UNCHANGED <<dsMonitor, dsScanned, dsTotal>>
        /\ dsActive' = dsActive \union {[scan |-> Head(dsQueue).scan, file |-> Head(dsQueue).file, at |-> "new"]}
    BY <1>8 DEF DsTake, dsCounts
  <2>2. Len(dsQueue') = Len(dsQueue) - 1
    BY <2>1, DsTailMeaning
  <2>3. Cardinality(dsActive') \in {Cardinality(dsActive), Cardinality(dsActive) + 1}
    BY <2>1, FS_AddElement DEF DsTypes
  <2> QED BY <1>0, <2>1, <2>2, <2>3 DEF DsBudget
<1>9. ASSUME NEW a \in dsActive, DsFinish(a) PROVE DsBudget'
  <2>1. UNCHANGED <<dsMonitor, dsQueue, dsTotal>> /\ dsActive' = dsActive \ {a} /\ dsScanned' = dsScanned + 1
    BY <1>9 DEF DsFinish, DsCounted
  <2>2. Cardinality(dsActive') = Cardinality(dsActive) - 1
    BY <2>1, FS_RemoveElement DEF DsTypes
  <2> QED BY <1>0, <2>1, <2>2 DEF DsBudget
<1>10. ASSUME NEW a \in dsActive, DsWork(a) PROVE DsBudget'
  <2>1. PICK b : DsWorked(a, b)
    BY <1>10, DsWorkMeaning
  <2> QED BY <2>1 DEF DsBudget, DsWorked
<1> QED BY <1>1, <1>2, <1>3, <1>4, <1>5, <1>6, <1>7, <1>8, <1>9, <1>10, DsStepKinds

\* Tasks and results are those of the scan last begun.
LEMMA DsCurrentStep == DsTypes /\ DsCallsInv /\ DsOnce /\ DsCurrent /\ [DsNext]_dsVars => DsCurrent'
<1> SUFFICES ASSUME DsTypes, DsCallsInv, DsOnce, DsCurrent, [DsNext]_dsVars PROVE DsCurrent'
  OBVIOUS
<1>1. CASE DsQuiet
  BY <1>1, DsQuietFrame DEF DsCurrent, DsOwed, dsSeen
<1>2. ASSUME NEW from, NEW to, DsJoin(from, to) PROVE DsCurrent'
  BY <1>2 DEF DsCurrent, DsOwed, DsJoin, dsCounts, dsSeen
<1>3. ASSUME NEW from, NEW to, DsClearQueue(from, to) PROVE DsCurrent'
  BY <1>3 DEF DsCurrent, DsOwed, DsClearQueue, dsCounts, dsSeen
<1>4. CASE DsBegin
  <2>1. /\ dsQueue' = <<>> /\ dsActive' = {} /\ dsResults' = {} /\ dsLost' = {} /\ dsThreats' = 0
    BY <1>4 DEF DsBegin, DsCallsInv, DsCall
  <2>2. DsOwed' = {} /\ Cardinality({}) = 0
    BY <2>1, FS_EmptySet DEF DsOwed
  <2> QED BY <2>1, <2>2 DEF DsCurrent
<1>5. CASE DsList \/ DsPick \/ DsAbort
  BY <1>5 DEF DsCurrent, DsOwed, DsList, DsPick, DsAbort, dsCounts, dsSeen
<1>6. CASE DsEnqueue
  <2>1. PICK file \in dsMonitor.todo : dsQueue' = Append(dsQueue, [scan |-> dsScan, file |-> file])
    BY <1>6 DEF DsEnqueue
  <2>2. UNCHANGED <<dsActive, dsResults, dsLost, dsThreats, dsScan>>
    BY <1>6 DEF DsEnqueue, dsCounts, dsSeen
  <2>3. \A i \in 1 .. Len(dsQueue') : dsQueue'[i].scan = dsScan
    BY <2>1 DEF DsTypes, DsCurrent
  <2> QED BY <2>2, <2>3 DEF DsCurrent, DsOwed
<1>7. CASE DsTake
  <2>1. /\ dsQueue # <<>> /\ dsQueue' = Tail(dsQueue) /\ UNCHANGED <<dsResults, dsLost, dsThreats, dsScan>>
        /\ dsActive' = dsActive \union {[scan |-> Head(dsQueue).scan, file |-> Head(dsQueue).file, at |-> "new"]}
    BY <1>7 DEF DsTake, dsCounts, dsSeen
  <2>2. Head(dsQueue).scan = dsScan /\ \A i \in 1 .. Len(dsQueue') : dsQueue'[i].scan = dsScan
    BY <2>1, DsTailMeaning DEF DsCurrent
  <2>3. DsOwed' = DsOwed
    BY <2>1 DEF DsOwed
  <2> QED BY <2>1, <2>2, <2>3 DEF DsCurrent
<1>8. ASSUME NEW a \in dsActive, DsFinish(a) PROVE DsCurrent'
  <2>1. UNCHANGED <<dsQueue, dsScan, dsResults, dsLost, dsThreats>> /\ dsActive' = dsActive \ {a} /\ a.at = "done"
    BY <1>8 DEF DsFinish, dsSeen
  <2>2. DsOwed' = DsOwed
    BY <2>1 DEF DsOwed
  <2> QED BY <2>1, <2>2 DEF DsCurrent
<1>9. ASSUME NEW a \in dsActive, DsWork(a) PROVE DsCurrent'
  <2>1. PICK b : DsWorked(a, b)
    BY <1>9, DsWorkMeaning
  <2>2. /\ UNCHANGED <<dsQueue, dsScan>> /\ dsActive' = (dsActive \ {a}) \union {b} /\ b.scan = a.scan /\ a.at # "done"
        /\ b \notin dsActive
    BY <2>1 DEF DsWorked
  <2>3. /\ \A c \in dsActive' : c.scan = dsScan'
        /\ \A i \in 1 .. Len(dsQueue') : dsQueue'[i].scan = dsScan'
        /\ \A r \in dsResults' : r[1] = dsScan'
    BY <2>1, <2>2 DEF DsCurrent, DsWorked
  <2>4. /\ IsFiniteSet(DsOwed) /\ Cardinality(DsOwed) \in Nat
        /\ Cardinality(dsResults) \in Nat /\ Cardinality(dsLost) \in Nat /\ dsThreats \in Nat
    BY FS_Subset, FS_CardinalityType DEF DsTypes, DsOwed
  <2>5. CASE a.at = "new"
    <3>1. DsOwed' = DsOwed /\ UNCHANGED <<dsThreats, dsResults, dsLost>>
      BY <2>1, <2>5 DEF DsOwed, DsWorked
    <3> QED BY <2>3, <3>1 DEF DsCurrent
  <2>6. CASE a.at = "found"
    <3>1. DsOwed' = DsOwed \union {b} /\ b \notin DsOwed /\ dsThreats' = dsThreats + 1 /\ UNCHANGED <<dsResults, dsLost>>
      BY <2>1, <2>6 DEF DsOwed, DsWorked
    <3>2. Cardinality(DsOwed') = Cardinality(DsOwed) + 1
      BY <2>4, <3>1, FS_AddElement
    <3> QED BY <2>3, <2>4, <3>1, <3>2 DEF DsCurrent
  <2>7. CASE a.at = "counted"
    <3>1. DsOwed' = DsOwed \ {a} /\ a \in DsOwed /\ dsThreats' = dsThreats
      BY <2>1, <2>7 DEF DsOwed, DsWorked
    <3>2. Cardinality(DsOwed') = Cardinality(DsOwed) - 1
      BY <2>4, <3>1, FS_RemoveElement
    <3>3. <<a.scan, a.file>> \notin dsResults /\ a.file \notin dsLost
      BY <2>2 DEF DsOnce
    <3>4. /\ Cardinality(dsResults \union {<<a.scan, a.file>>}) = Cardinality(dsResults) + 1
          /\ Cardinality(dsLost \union {a.file}) = Cardinality(dsLost) + 1
      BY <3>3, FS_AddElement DEF DsTypes
    <3>5. \/ dsResults' = dsResults \union {<<a.scan, a.file>>} /\ dsLost' = dsLost
          \/ dsLost' = dsLost \union {a.file} /\ dsResults' = dsResults
      BY <2>1, <2>7 DEF DsWorked
    <3>6. Cardinality(dsResults') + Cardinality(dsLost') = Cardinality(dsResults) + Cardinality(dsLost) + 1
      BY <2>4, <3>4, <3>5
    <3>7. Cardinality(dsResults') \in Nat /\ Cardinality(dsLost') \in Nat
      <4>1. Cardinality(dsResults) + 1 \in Nat /\ Cardinality(dsLost) + 1 \in Nat
        BY <2>4
      <4> QED BY <2>4, <3>4, <3>5, <4>1
    <3> QED BY <2>3, <2>4, <3>1, <3>2, <3>6, <3>7 DEF DsCurrent
  <2> QED BY <2>1, <2>5, <2>6, <2>7 DEF DsWorked
<1> QED BY <1>1, <1>2, <1>3, <1>4, <1>5, <1>6, <1>7, <1>8, <1>9, DsStepKinds

\* A threat among the listed files stays accounted for while nobody cancels.
LEMMA DsAccountedStep ==
  DsTypes /\ DsCallsInv /\ DsOnce /\ DsCurrent /\ DsAccounted /\ [DsNext]_dsVars => DsAccounted'
<1> SUFFICES ASSUME DsTypes, DsCallsInv, DsOnce, DsCurrent, DsAccounted, [DsNext]_dsVars,
                    dsMonitor'.pc \in {"put", "enqueue", "await", "close"}, ~dsCancel',
                    NEW f \in dsListed' \cap DsInfected
             PROVE  DsPlaced(f)'
  BY DEF DsAccounted
<1>1. CASE DsQuiet
  <2>1. UNCHANGED <<dsQueue, dsActive, dsResults, dsSeen>> /\ ~dsCancel
    <3>1. dsCancel' = dsCancel \/ dsCancel'
      BY <1>1 DEF DsQuiet, DsStart, DsWaitIdle, DsCancel, DsAwait, DsClose, dsVars
    <3> QED BY <1>1, <3>1, DsQuietFrame
  <2>2. dsMonitor'.todo = dsMonitor.todo /\ dsMonitor.pc \in {"put", "enqueue", "await", "close"}
    BY <1>1, DsQuietFrame DEF DsTypes, DsCallsInv
  <2> QED BY <2>1, <2>2 DEF DsAccounted, DsPlaced, dsSeen
<1>2. ASSUME NEW from, NEW to, DsJoin(from, to) PROVE FALSE
  BY <1>2 DEF DsJoin
<1>3. CASE DsClearQueue("clear", "wait") \/ DsClearQueue("endClear", "endWait")
  BY <1>3 DEF DsClearQueue, DsCallsInv, DsCall
<1>4. CASE DsClearQueue("drop", "idle") \/ DsClearQueue("end", "endJoin")
  BY <1>4 DEF DsClearQueue, DsCallsInv, DsCall
<1>5. CASE DsBegin \/ DsAbort
  BY <1>5 DEF DsBegin, DsAbort
<1>6. CASE DsList
  BY <1>6 DEF DsList, DsPlaced
<1>7. CASE DsPick
  <2>1. UNCHANGED <<dsQueue, dsActive, dsResults, dsSeen, dsCancel>> /\ dsMonitor.pc = "put"
    BY <1>7 DEF DsPick, dsCounts
  <2>2. dsMonitor'.todo = dsMonitor.todo
    <3>1. CASE dsMonitor.todo = {}
      BY <1>7, <3>1 DEF DsPick
    <3>2. CASE dsMonitor.todo # {}
      BY <1>7, <2>1, <3>2 DEF DsPick, DsTypes
    <3> QED BY <3>1, <3>2
  <2> QED BY <2>1, <2>2 DEF DsAccounted, DsPlaced, dsSeen
<1>8. CASE DsEnqueue
  <2>1. PICK file \in dsMonitor.todo :
          /\ dsQueue' = Append(dsQueue, [scan |-> dsScan, file |-> file])
          /\ dsMonitor' = [pc |-> "put", todo |-> dsMonitor.todo \ {file}]
    BY <1>8 DEF DsEnqueue
  <2>2. UNCHANGED <<dsActive, dsResults, dsSeen, dsCancel>> /\ dsMonitor.pc = "enqueue"
    BY <1>8 DEF DsEnqueue, dsCounts
  <2>3. /\ Len(dsQueue) \in Nat /\ Len(dsQueue') = Len(dsQueue) + 1 /\ Len(dsQueue) + 1 \in 1 .. Len(dsQueue')
        /\ dsQueue'[Len(dsQueue) + 1].file = file
        /\ \A i \in 1 .. Len(dsQueue) : i \in 1 .. Len(dsQueue') /\ dsQueue'[i] = dsQueue[i]
    BY <2>1 DEF DsTypes
  <2>4. DsPlaced(f)
    BY <2>2 DEF DsAccounted, dsSeen
  <2>5. dsMonitor'.todo = dsMonitor.todo \ {file}
    BY <2>1
  <2> QED BY <2>2, <2>3, <2>4, <2>5 DEF DsPlaced, dsSeen
<1>9. CASE DsTake
  <2>1. /\ dsQueue # <<>> /\ dsQueue' = Tail(dsQueue) /\ UNCHANGED <<dsMonitor, dsResults, dsSeen, dsCancel>>
        /\ dsActive' = dsActive \union {[scan |-> Head(dsQueue).scan, file |-> Head(dsQueue).file, at |-> "new"]}
    BY <1>9 DEF DsTake, dsCounts
  <2>2. PICK t : t = [scan |-> Head(dsQueue).scan, file |-> Head(dsQueue).file, at |-> "new"]
    OBVIOUS
  <2>3. t.file = dsQueue[1].file /\ t.at = "new" /\ t \in dsActive'
    BY <2>1, <2>2, DsTailMeaning
  <2>4. \A i \in 1 .. Len(dsQueue) : i = 1 \/ (i - 1 \in 1 .. Len(dsQueue') /\ dsQueue'[i - 1] = dsQueue[i])
    BY <2>1, DsTailMeaning DEF DsTypes
  <2>5. DsPlaced(f)
    BY <2>1 DEF DsAccounted, dsSeen
  <2>6. ASSUME NEW i \in 1 .. Len(dsQueue), dsQueue[i].file = f PROVE DsPlaced(f)'
    BY <2>3, <2>4, <2>6 DEF DsPlaced
  <2>7. dsActive \subseteq dsActive'
    BY <2>1
  <2> QED BY <2>1, <2>5, <2>6, <2>7 DEF DsPlaced, dsSeen
<1>10. ASSUME NEW a \in dsActive, DsFinish(a) PROVE DsPlaced(f)'
  BY <1>10 DEF DsFinish, DsAccounted, DsPlaced, dsSeen
<1>11. ASSUME NEW a \in dsActive, DsWork(a) PROVE DsPlaced(f)'
  <2>1. PICK b : DsWorked(a, b)
    BY <1>11, DsWorkMeaning
  <2>2. DsPlaced(f)
    BY <2>1 DEF DsWorked, DsAccounted
  <2>3. CASE f # a.file
    BY <2>1, <2>2, <2>3 DEF DsPlaced, DsWorked
  <2>4. CASE f = a.file /\ b.at # "done"
    BY <2>1, <2>4 DEF DsPlaced, DsWorked
  <2>5. CASE f = a.file /\ b.at = "done"
    <3>1. a.scan = dsScan /\ a.file \in DsInfected /\ ~dsCancel
      BY <2>1, <2>5 DEF DsCurrent, DsWorked
    <3>2. <<dsScan, f>> \in dsResults' \/ f \in dsUnread' \union dsLost'
      BY <2>1, <2>5, <3>1 DEF DsWorked
    <3> QED BY <2>1, <3>2 DEF DsPlaced, DsWorked
  <2> QED BY <2>3, <2>4, <2>5
<1> QED BY <1>1, <1>2, <1>3, <1>4, <1>5, <1>6, <1>7, <1>8, <1>9, <1>10, <1>11, DsStepKinds

\* A monitor that closes a scan nobody cancelled has seen every task end.
LEMMA DsHonestStep ==
  DsTypes /\ DsCallsInv /\ DsOnce /\ DsBudget /\ DsHonest /\ [DsNext]_dsVars => DsHonest'
<1> SUFFICES ASSUME DsTypes, DsCallsInv, DsOnce, DsBudget, DsHonest, [DsNext]_dsVars PROVE DsHonest'
  OBVIOUS
<1>0. /\ Len(dsQueue) \in Nat /\ Cardinality(dsActive) \in Nat /\ Cardinality(dsMonitor.todo) \in Nat
      /\ dsScanned \in Nat /\ dsTotal \in Nat
  BY DsListedFinite, FS_CardinalityType DEF DsTypes
<1>1. CASE DsStart \/ (\E from, to \in DsCallers : DsWaitIdle(from, to)) \/ UNCHANGED dsVars
  BY <1>1 DEF DsHonest, DsStart, DsWaitIdle, dsCounts, dsVars
<1>2. ASSUME NEW to, DsCancel(to) PROVE DsHonest'
  BY <1>2 DEF DsHonest, DsCancel
<1>3. ASSUME NEW from, NEW to, DsJoin(from, to) PROVE DsHonest'
  BY <1>3 DEF DsHonest, DsJoin
<1>4. CASE DsClearQueue("clear", "wait") \/ DsClearQueue("endClear", "endWait")
  BY <1>4 DEF DsHonest, DsClearQueue, DsCall, DsCallsInv
<1>5. CASE DsClearQueue("drop", "idle") \/ DsClearQueue("end", "endJoin")
  BY <1>5 DEF DsHonest, DsClearQueue, DsCall, DsCallsInv
<1>6. CASE DsBegin
  BY <1>6 DEF DsHonest, DsBegin
<1>7. CASE DsList \/ DsPick \/ DsEnqueue \/ DsAbort
  <2>1. dsCancel' = dsCancel /\ dsMonitor.pc \notin {"none", "ended"}
    BY <1>7 DEF DsList, DsPick, DsEnqueue, DsAbort
  <2>2. CASE DsList
    <3>1. dsMonitor'.pc # "close"
      BY <2>2 DEF DsList
    <3> QED BY <2>1, <3>1 DEF DsHonest
  <2>3. CASE DsPick \/ DsEnqueue \/ DsAbort
    <3>1. dsMonitor'.pc \in {"await", "enqueue", "put", "ended"}
      <4>1. CASE DsPick
        BY <4>1 DEF DsPick, DsTypes
      <4>2. CASE DsEnqueue
        BY <4>2 DEF DsEnqueue
      <4>3. CASE DsAbort
        BY <4>3 DEF DsAbort
      <4> QED BY <2>3, <4>1, <4>2, <4>3
    <3> QED BY <2>1, <3>1 DEF DsHonest
  <2> QED BY <1>7, <2>2, <2>3
<1>8. CASE DsAwait
  <2>1. /\ dsMonitor.pc = "await" /\ (dsScanned >= dsTotal \/ dsCancel)
        /\ UNCHANGED <<dsCancel, dsScanned, dsTotal, dsQueue, dsActive>>
    BY <1>8 DEF DsAwait, dsCounts
  <2>2. ~dsCancel => dsScanned = dsTotal /\ Len(dsQueue) = 0 /\ Cardinality(dsActive) = 0
    BY <1>0, <2>1 DEF DsBudget
  <2>3. ~dsCancel => dsScanned = dsTotal /\ dsQueue = <<>> /\ dsActive = {}
    BY <2>2, FS_EmptySet DEF DsTypes
  <2> QED BY <2>1, <2>3 DEF DsHonest
<1>9. CASE DsClose
  BY <1>9 DEF DsHonest, DsClose
<1>10. CASE DsTake
  BY <1>10 DEF DsHonest, DsTake, dsCounts
<1>11. ASSUME NEW a \in dsActive, DsFinish(a) PROVE DsHonest'
  BY <1>11 DEF DsHonest, DsFinish
<1>12. ASSUME NEW a \in dsActive, DsWork(a) PROVE DsHonest'
  <2>1. PICK b : DsWorked(a, b)
    BY <1>12, DsWorkMeaning
  <2> QED BY <2>1 DEF DsHonest, DsWorked
<1> QED BY <1>1, <1>2, <1>3, <1>4, <1>5, <1>6, <1>7, <1>8, <1>9, <1>10, <1>11, <1>12, DsStepKinds DEF DsQuiet

\* The scanner's invariant holds: the calls are in order, every file is in one
\* place, the count stays within the total, nothing is left of an earlier scan,
\* and while nobody cancels every threat listed is still ahead of its task's
\* end, or a result, or unread, or lost.
THEOREM ScannerInvariant == DsSpec => []DsInv
<1>1. DsInit => DsInv
  <2> SUFFICES ASSUME DsInit PROVE DsInv
    OBVIOUS
  <2>1. Len(dsQueue) = 0 /\ Cardinality(dsActive) = 0 /\ Cardinality(dsMonitor.todo) = 0 /\ Cardinality(dsResults) = 0
        /\ Cardinality(DsOwed) = 0 /\ Cardinality(dsLost) = 0
    BY FS_EmptySet DEF DsInit, DsOwed
  <2>2. DsTypes
    BY FS_EmptySet DEF DsInit, DsTypes, DsPcs, DsCallers
  <2>3. DsCallsInv /\ DsOnce /\ DsAccounted /\ DsHonest
    BY DEF DsInit, DsCallsInv, DsOnce, DsAccounted, DsHonest
  <2>4. DsBudget /\ DsCurrent
    BY <2>1 DEF DsInit, DsBudget, DsCurrent
  <2> QED BY <2>2, <2>3, <2>4 DEF DsInv
<1>2. DsInv /\ [DsNext]_dsVars => DsInv'
  BY DsTypesStep, DsCallsStep, DsOnceStep, DsBudgetStep, DsCurrentStep, DsAccountedStep, DsHonestStep DEF DsInv
<1> QED BY <1>1, <1>2, PTL DEF DsSpec

\* However scans are started, cancelled and restarted, the pool never holds a
\* task of an earlier scan, nor any task of a destroyed scanner, and counters
\* and results are those of the scan last begun.
THEOREM NoTaskIsStale == DsSpec => [](DsNoStaleTask /\ DsCountsCurrent)
<1>1. DsInv => DsNoStaleTask /\ DsCountsCurrent
  <2> SUFFICES ASSUME DsInv PROVE DsNoStaleTask /\ DsCountsCurrent
    OBVIOUS
  <2>1. /\ Len(dsQueue) \in Nat /\ Cardinality(dsActive) \in Nat /\ Cardinality(dsMonitor.todo) \in Nat
        /\ dsScanned \in Nat /\ dsTotal \in Nat /\ DOMAIN dsQueue = 1 .. Len(dsQueue)
    BY DsListedFinite, FS_CardinalityType DEF DsInv, DsTypes
  <2>2. dsScanned <= dsTotal
    BY <2>1 DEF DsInv, DsBudget
  <2>3. /\ \A a \in dsActive : a.scan = dsScan /\ dsCaller # "dead"
        /\ \A i \in DOMAIN dsQueue : dsQueue[i].scan = dsScan /\ dsCaller # "dead"
    BY <2>1 DEF DsInv, DsCurrent, DsCallsInv
  <2> QED BY <2>2, <2>3 DEF DsNoStaleTask, DsCountsCurrent, DsInv, DsCurrent
<1> QED BY <1>1, ScannerInvariant, PTL

\* A scan is counted as completed only when every task has ended, and each
\* threat it listed is then a result, or could not be read or kept.
THEOREM CompletedScansSawAll == DsSpec => DsCompletedSawAll
<1> DEFINE All == /\ dsScanned = dsTotal /\ dsQueue = <<>> /\ dsActive = {}
                  /\ \A f \in dsListed \cap DsInfected : <<dsScan, f>> \in dsResults \/ f \in dsUnread \union dsLost
           Saw == dsCompleted' # dsCompleted => All
<1>1. DsInv /\ [DsNext]_dsVars => [Saw]_dsVars
  <2> SUFFICES ASSUME DsInv, DsNext, dsCompleted' # dsCompleted PROVE All
    OBVIOUS
  <2>1. DsClose
    BY DEF DsNext, DsCallerStep, DsMonitorStep, DsWorkerStep, DsStart, DsJoin, DsClearQueue, DsWaitIdle, DsBegin,
           DsCancel, DsList, DsPick, DsEnqueue, DsAwait, DsAbort, DsTake, DsLook, DsThreat, DsKeep, DsFinish, dsCounts
  <2>2. dsMonitor.pc = "close" /\ ~dsCancel
    BY <2>1 DEF DsClose, DsCountsScan
  <2>3. dsScanned = dsTotal /\ dsQueue = <<>> /\ dsActive = {} /\ dsMonitor.todo = {} /\ Len(dsQueue) = 0
    BY <2>2 DEF DsInv, DsHonest, DsCallsInv
  <2>4. \A f \in dsListed \cap DsInfected : DsPlaced(f)
    BY <2>2 DEF DsInv, DsAccounted
  <2> QED BY <2>3, <2>4 DEF DsPlaced
<1> QED BY <1>1, ScannerInvariant, PTL DEF DsSpec, DsCompletedSawAll

\* The two together: what the scanner counts and reports is about this scan and
\* about every threat in it that could be read.
THEOREM ScansAreHonest == DsSpec => ScansHonest
  BY NoTaskIsStale, CompletedScansSawAll, PTL DEF ScansHonest

-----------------------------------------------------------------------------
(* The inspection of files. *)

\* Until somebody writes to the file, what an inspection holds in hand is the
\* content of the file.
AtInv ==
  /\ atHand = [pc |-> atHand.pc, bytes |-> atHand.bytes, hashed |-> atHand.hashed]
  /\ atHand.pc \in {"idle", "hash", "signature"}
  /\ atQuiet /\ atHand.pc = "hash" => atHand.bytes = atFile
  /\ atQuiet /\ atHand.pc = "signature" =>
       atHand.bytes = atFile /\ ~AtInvalidPe(atFile) /\ (atHand.hashed = atFile \/ atFailed)
  /\ AtQuietIsExact

\* Reading, hashing, checking the signature and a write from outside keep it.
LEMMA AtInvStep == AtInv /\ [AtNext]_atVars => AtInv'
<1> SUFFICES ASSUME AtInv, [AtNext]_atVars PROVE AtInv'
  OBVIOUS
<1>1. CASE AtRead
  <2>1. atHand.pc = "idle" /\ atSaid' = {} /\ UNCHANGED atFile
    BY <1>1 DEF AtRead
  <2>2. CASE atHand' = [atHand EXCEPT !.pc = "hash", !.bytes = atFile]
    <3>1. /\ atHand'.pc = "hash" /\ atHand'.bytes = atFile
          /\ atHand' = [pc |-> atHand'.pc, bytes |-> atHand'.bytes, hashed |-> atHand'.hashed]
      BY <2>2 DEF AtInv
    <3> QED BY <2>1, <3>1 DEF AtInv, AtQuietIsExact
  <2>3. CASE atHand' = AtIdle /\ atFailed' = TRUE
    <3>1. AtQuietIsExact'
      BY <2>1, <2>3 DEF AtQuietIsExact
    <3> QED BY <2>3, <3>1 DEF AtInv, AtIdle
  <2> QED BY <1>1, <2>2, <2>3 DEF AtRead
<1>2. CASE AtHash
  <2>1. atHand.pc = "hash" /\ UNCHANGED <<atFile, atQuiet, atInspections>>
    BY <1>2 DEF AtHash
  <2>2. PICK hash \in {atFile, AtNothing} :
          /\ IF AtInvalidPe(atHand.bytes)
             THEN atHand' = AtIdle /\ atSaid' = AtSays("INVALID_PE", atHand.bytes, hash)
             ELSE atHand' = [atHand EXCEPT !.pc = "signature", !.hashed = hash] /\ UNCHANGED atSaid
          /\ atFailed' = (atFailed \/ hash = AtNothing)
    BY <1>2 DEF AtHash
  <2>3. hash = atFile \/ atFailed'
    BY <2>2
  <2>4. CASE AtInvalidPe(atHand.bytes)
    <3>1. atHand' = AtIdle /\ atSaid' = AtSays("INVALID_PE", atHand.bytes, hash)
      BY <2>2, <2>4
    <3>2. \A o \in atSaid' : o.kind = "INVALID_PE" /\ o.judged = atHand.bytes /\ o.hash = hash
      BY <3>1 DEF AtSays
    <3>3. atSaid' # {} /\ atHand'.pc = "idle"
      BY <3>1 DEF AtSays, AtIdle
    <3>4. atQuiet => atHand.bytes = atFile
      BY <2>1 DEF AtInv
    <3>5. AtQuietIsExact'
      BY <2>1, <2>3, <2>4, <3>2, <3>3, <3>4 DEF AtQuietIsExact, AtInvalidPe
    <3> QED BY <3>1, <3>5 DEF AtInv, AtIdle
  <2>5. CASE ~AtInvalidPe(atHand.bytes)
    <3>1. atHand' = [atHand EXCEPT !.pc = "signature", !.hashed = hash]
      BY <2>2, <2>5
    <3>2. /\ atHand'.pc = "signature" /\ atHand'.hashed = hash /\ atHand'.bytes = atHand.bytes
          /\ atHand' = [pc |-> atHand'.pc, bytes |-> atHand'.bytes, hashed |-> atHand'.hashed]
      BY <3>1 DEF AtInv
    <3>3. atQuiet => atHand.bytes = atFile
      BY <2>1 DEF AtInv
    <3> QED BY <2>1, <2>3, <2>5, <3>2, <3>3 DEF AtInv, AtQuietIsExact
  <2> QED BY <2>4, <2>5
<1>3. CASE AtSignature
  <2>1. atHand.pc = "signature" /\ UNCHANGED <<atFile, atQuiet, atInspections>> /\ atHand' = AtIdle
    BY <1>3 DEF AtSignature
  <2>2. PICK failed \in BOOLEAN :
          /\ atSaid' = IF AtSigned(atFile) /\ ~failed THEN {}
                       ELSE AtSays("UNSIGNED_RISKY_LOCATION", atFile, atHand.hashed)
          /\ atFailed' = (atFailed \/ failed)
    BY <1>3 DEF AtSignature
  <2>3. atQuiet => atHand.bytes = atFile /\ ~AtInvalidPe(atFile) /\ (atHand.hashed = atFile \/ atFailed)
    BY <2>1 DEF AtInv
  <2>4. atFailed => atFailed'
    BY <2>2
  <2>5. CASE AtSigned(atFile) /\ ~failed
    <3>1. atSaid' = {} /\ atFile.signed /\ (atQuiet => atFile.header # "broken")
      BY <2>2, <2>3, <2>5 DEF AtSigned, AtInvalidPe
    <3>2. AtQuietIsExact'
      BY <2>1, <3>1 DEF AtQuietIsExact
    <3> QED BY <2>1, <3>2 DEF AtInv, AtIdle
  <2>6. CASE ~(AtSigned(atFile) /\ ~failed)
    <3>1. atSaid' = AtSays("UNSIGNED_RISKY_LOCATION", atFile, atHand.hashed)
      BY <2>2, <2>6
    <3>2. \A o \in atSaid' : o.kind = "UNSIGNED_RISKY_LOCATION" /\ o.judged = atFile /\ o.hash = atHand.hashed
      BY <3>1 DEF AtSays
    <3>3. atSaid' # {}
      BY <3>1 DEF AtSays
    <3>4. ~atFile.signed \/ atFile.size = "huge" \/ atFailed'
      BY <2>2, <2>6 DEF AtSigned
    <3>5. AtQuietIsExact'
      BY <2>1, <2>3, <2>4, <3>2, <3>3, <3>4 DEF AtQuietIsExact
    <3> QED BY <2>1, <3>5 DEF AtInv, AtIdle
  <2> QED BY <2>5, <2>6
<1>4. ASSUME NEW c \in AtContents, AtWrite(c) PROVE AtInv'
  BY <1>4 DEF AtInv, AtWrite, AtQuietIsExact
<1>5. CASE UNCHANGED atVars
  BY <1>5 DEF AtInv, atVars, AtQuietIsExact
<1> QED BY <1>1, <1>2, <1>3, <1>4, <1>5 DEF AtNext

\* A set of numbers that is not empty has a least one.
LEMMA LeastOf == ASSUME NEW S, S \subseteq Nat, S # {} PROVE \E i \in S : \A j \in S : i <= j
<1> DEFINE R == OpToRel(<, Nat)
<1>1. IsWellFoundedOn(R, Nat)
  BY NatLessThanWellFounded
<1>2. \A i, j \in Nat : i < j => <<i, j>> \in R
  BY DEF OpToRel
<1> HIDE DEF R
<1>3. PICK i \in S : \A j \in S : ~ (<<j, i>> \in R)
  BY <1>1, WFMin
<1>4. \A j \in S : j \in Nat /\ i \in Nat /\ ~ (j < i)
  BY <1>2, <1>3
<1>5. \A j \in S : i <= j
  BY <1>4
<1> QED BY <1>5

\* How many places of a sequence hold a member of a set.
Places(s, S) == {i \in 1 .. Len(s) : s[i] \in S}
Count(s, S) == Cardinality(Places(s, S))

\* The places are a finite set.
LEMMA PlacesFinite ==
  ASSUME NEW T, NEW s \in Seq(T), NEW S PROVE IsFiniteSet(Places(s, S)) /\ Count(s, S) \in Nat
<1>1. Len(s) \in Int /\ 1 \in Int
  OBVIOUS
<1>2. IsFiniteSet(1 .. Len(s))
  BY <1>1, FS_Interval
<1>3. Places(s, S) \in SUBSET (1 .. Len(s))
  BY DEF Places
<1>4. IsFiniteSet(Places(s, S))
  BY <1>2, <1>3, FS_Subset
<1> QED BY <1>4, FS_CardinalityType DEF Count

\* Appending counts the element, if it is in the set.
LEMMA CountAppend ==
  ASSUME NEW T, NEW s \in Seq(T), NEW x \in T, NEW S
  PROVE  Count(Append(s, x), S) = Count(s, S) + (IF x \in S THEN 1 ELSE 0)
<1>1. Len(s) + 1 \notin Places(s, S)
  BY DEF Places
<1>2. /\ Len(s) \in Nat /\ Len(Append(s, x)) = Len(s) + 1 /\ Append(s, x)[Len(s) + 1] = x
      /\ \A i \in 1 .. Len(s) : Append(s, x)[i] = s[i]
  OBVIOUS
<1>3. \A i : i \in 1 .. Len(s) + 1 <=> i \in 1 .. Len(s) \/ i = Len(s) + 1
  BY <1>2
<1>4. CASE x \in S
  <2>1. Places(Append(s, x), S) = Places(s, S) \cup {Len(s) + 1}
    BY <1>2, <1>3, <1>4 DEF Places
  <2>2. Cardinality(Places(s, S) \cup {Len(s) + 1}) = Cardinality(Places(s, S)) + 1
    BY <1>1, PlacesFinite, FS_AddElement
  <2> QED BY <1>4, <2>1, <2>2 DEF Count
<1>5. CASE x \notin S
  <2>1. Places(Append(s, x), S) = Places(s, S)
    BY <1>2, <1>3, <1>5 DEF Places
  <2>2. Count(s, S) \in Nat
    BY PlacesFinite
  <2> QED BY <1>5, <2>1, <2>2 DEF Count
<1> QED BY <1>4, <1>5

\* The tail counts one less, if the head is in the set.
LEMMA CountTail ==
  ASSUME NEW T, NEW s \in Seq(T), s # <<>>, NEW S
  PROVE  Count(Tail(s), S) = Count(s, S) - (IF Head(s) \in S THEN 1 ELSE 0)
<1> DEFINE A == Places(Tail(s), S)
           B == Places(s, S) \ {1}
           f == [i \in A |-> i + 1]
<1>1. /\ Len(s) \in Nat /\ 1 \in 1 .. Len(s) /\ Head(s) = s[1] /\ Tail(s) \in Seq(T) /\ Len(Tail(s)) = Len(s) - 1
      /\ \A i \in 1 .. Len(s) - 1 : Tail(s)[i] = s[i + 1]
  OBVIOUS
<1>2. \A i \in A : i \in Nat /\ i + 1 \in B
  BY <1>1 DEF Places
<1>3. \A j \in B : j \in Nat /\ j - 1 \in A /\ (j - 1) + 1 = j
  BY <1>1 DEF Places
<1>4. f \in Bijection(A, B)
  <2>1. f \in [A -> B]
    BY <1>2
  <2>2. \A i, j \in A : f[i] = f[j] => i = j
    BY <1>2
  <2>3. \A j \in B : \E i \in A : f[i] = j
    BY <1>3
  <2> HIDE DEF f, A, B
  <2> QED BY <2>1, <2>2, <2>3 DEF Bijection, Injection, Surjection, IsInjective
<1>5. Cardinality(B) = Cardinality(A)
  <2>1. IsFiniteSet(A)
    BY <1>1, PlacesFinite
  <2>2. ExistsBijection(A, B)
    BY <1>4 DEF ExistsBijection
  <2> QED BY <2>1, <2>2, FS_Bijection
<1>6. Cardinality(B) = IF 1 \in Places(s, S) THEN Cardinality(Places(s, S)) - 1 ELSE Cardinality(Places(s, S))
  BY PlacesFinite, FS_RemoveElement
<1>7. 1 \in Places(s, S) <=> Head(s) \in S
  BY <1>1 DEF Places
<1>8. Count(s, S) \in Nat
  BY PlacesFinite
<1> QED BY <1>5, <1>6, <1>7, <1>8 DEF Count

\* Replacing a counted element by one that is not counts one less.
LEMMA CountReplaced ==
  ASSUME NEW T, NEW s \in Seq(T), NEW k \in 1 .. Len(s), NEW y \in T, NEW S, y \notin S
  PROVE  Count([s EXCEPT ![k] = y], S) = Count(s, S) - (IF s[k] \in S THEN 1 ELSE 0)
<1> DEFINE t == [s EXCEPT ![k] = y]
<1>1. Len(t) = Len(s) /\ \A i \in 1 .. Len(s) : t[i] = IF i = k THEN y ELSE s[i]
  OBVIOUS
<1>2. Places(t, S) = Places(s, S) \ {k}
  <2> HIDE DEF t
  <2> QED BY <1>1 DEF Places
<1>3. k \in Places(s, S) <=> s[k] \in S
  BY DEF Places
<1>4. Cardinality(Places(s, S) \ {k}) = IF k \in Places(s, S) THEN Cardinality(Places(s, S)) - 1 ELSE Cardinality(Places(s, S))
  BY PlacesFinite, FS_RemoveElement
<1>5. Count(s, S) \in Nat
  BY PlacesFinite
<1>6. Count(t, S) = IF s[k] \in S THEN Count(s, S) - 1 ELSE Count(s, S)
  BY <1>2, <1>3, <1>4 DEF Count
<1> QED BY <1>5, <1>6

SbVerdicts == {"PENDING", "CLEAN", "SUSPICIOUS", "ANALYSIS_ERROR"}
SbAnalysis == [id : Nat, file : SbFiles, verdict : SbVerdicts]

\* The analyses of a file that are pending.
SbPendings(file) == {r \in SbAnalysis : r.file = file /\ r.verdict = "PENDING"}

SbTypes ==
  /\ sbAnalyses \in Seq(SbAnalysis) /\ sbQueue \in Seq(SbFiles) /\ sbNext \in Nat
  /\ sbWorker \in SbNamed \cup {"none"}
  /\ sbFound => sbWorker # "none"

\* SbPendingIsQueued, in terms of counts in the two sequences.
SbBalanced ==
  \A file \in SbNamed :
    Count(sbAnalyses, SbPendings(file)) <= Count(sbQueue, {file}) + (IF sbWorker = file THEN 1 ELSE 0)

\* The two ways to count agree.
LEMMA SbCounts ==
  ASSUME SbTypes
  PROVE  /\ \A file \in SbFiles : SbPendingOf(file) = Places(sbAnalyses, SbPendings(file))
         /\ SbBalanced <=> SbPendingIsQueued
<1>1. ASSUME NEW file \in SbFiles PROVE SbPendingOf(file) = Places(sbAnalyses, SbPendings(file))
  <2>1. \A i \in 1 .. Len(sbAnalyses) : sbAnalyses[i] \in SbAnalysis
    BY DEF SbTypes
  <2>2. DOMAIN sbAnalyses = 1 .. Len(sbAnalyses)
    BY DEF SbTypes
  <2> QED BY <2>1, <2>2 DEF SbPendingOf, Places, SbPendings
<1>2. ASSUME NEW file \in SbFiles PROVE {i \in DOMAIN sbQueue : sbQueue[i] = file} = Places(sbQueue, {file})
  BY DEF SbTypes, Places
<1> QED BY <1>1, <1>2 DEF SbBalanced, SbPendingIsQueued, SbWaiting, Count, SbNamed

\* What a run can observe gives at most 55 points.
LEMMA SbVerdictMild ==
  /\ SbVerdict(SbFailed) \in SbVerdicts \ {"PENDING"}
  /\ \A p, c, m : SbVerdict(SbBehavior(p, c, m)) \in SbVerdicts \ {"PENDING"}
<1>1. SbVerdict(SbFailed) \in SbVerdicts \ {"PENDING"}
  <2>1. SbRisk(SbFailed) = 5
    BY DEF SbRisk, SbFailed
  <2> QED BY <2>1 DEF SbVerdict, SbVerdicts
<1>2. ASSUME NEW p, NEW c, NEW m PROVE SbVerdict(SbBehavior(p, c, m)) \in SbVerdicts \ {"PENDING"}
  <2> DEFINE b == SbBehavior(p, c, m)
  <2>1. b.apis = 0
    BY DEF SbBehavior
  <2> HIDE DEF b
  <2>2. PICK x, y, z :
          /\ x = IF b.injection THEN 35 ELSE 0
          /\ y = IF b.children > 5 THEN 10 ELSE IF b.children > 2 THEN 5 ELSE 0
          /\ z = IF b.memory > 50 THEN 5 ELSE 0
    OBVIOUS
  <2>3. SbRisk(b) = x + y + z + 5 * 0
    BY <2>1, <2>2 DEF SbRisk
  <2>4. x \in {0, 35} /\ y \in {0, 5, 10} /\ z \in {0, 5}
    BY <2>2
  <2>5. SbRisk(b) \in Nat /\ SbRisk(b) < 70
    BY <2>3, <2>4
  <2>6. SbVerdict(b) \in SbVerdicts \ {"PENDING"}
    BY <2>5 DEF SbVerdict, SbVerdicts
  <2> QED BY <2>6 DEF b
<1> QED BY <1>1, <1>2

\* Dropping the oldest analysis drops at most one that is pending.
LEMMA SbKeptCount ==
  ASSUME NEW s \in Seq(SbAnalysis), s # <<>>, NEW S
  PROVE  SbKeptAnalyses(s) \in Seq(SbAnalysis) /\ Count(SbKeptAnalyses(s), S) <= Count(s, S)
<1>1. Tail(s) \in Seq(SbAnalysis) /\ Count(s, S) \in Nat
  BY PlacesFinite, HeadTailProperties
<1>2. Count(Tail(s), S) = Count(s, S) - (IF Head(s) \in S THEN 1 ELSE 0)
  BY CountTail
<1> QED BY <1>1, <1>2 DEF SbKeptAnalyses

\* A result goes to a pending analysis of the file and to no other.
LEMMA SbCompletedCount ==
  ASSUME SbTypes, NEW f \in SbFiles, NEW v \in SbVerdicts, v # "PENDING"
  PROVE  /\ SbCompleted(f, v) \in Seq(SbAnalysis)
         /\ Count(SbCompleted(f, v), SbPendings(f)) =
              IF Count(sbAnalyses, SbPendings(f)) = 0 THEN 0 ELSE Count(sbAnalyses, SbPendings(f)) - 1
         /\ \A g \in SbFiles \ {f} : Count(SbCompleted(f, v), SbPendings(g)) = Count(sbAnalyses, SbPendings(g))
<1>0. sbAnalyses \in Seq(SbAnalysis)
  BY DEF SbTypes
<1>1. SbPendingOf(f) = Places(sbAnalyses, SbPendings(f)) /\ \A g \in SbFiles : Count(sbAnalyses, SbPendings(g)) \in Nat
  BY <1>0, SbCounts, PlacesFinite
<1>2. SbPendingOf(f) = {} <=> Count(sbAnalyses, SbPendings(f)) = 0
  BY <1>0, <1>1, PlacesFinite, FS_EmptySet DEF Count
<1>3. CASE SbPendingOf(f) = {}
  BY <1>0, <1>1, <1>2, <1>3 DEF SbCompleted
<1>4. CASE SbPendingOf(f) # {}
  <2> DEFINE k == CHOOSE i \in SbPendingOf(f) : \A j \in SbPendingOf(f) : i <= j
             y == [sbAnalyses[k] EXCEPT !.verdict = v]
  <2>1. SbPendingOf(f) \subseteq Nat
    BY <1>1 DEF Places
  <2>2. k \in SbPendingOf(f)
    BY <1>4, <2>1, LeastOf
  <2>3. k \in 1 .. Len(sbAnalyses) /\ sbAnalyses[k] \in SbPendings(f)
    BY <1>1, <2>2 DEF Places
  <2>4. SbCompleted(f, v) = [sbAnalyses EXCEPT ![k] = y]
    BY <1>4 DEF SbCompleted
  <2> HIDE DEF k
  <2>5. y \in SbAnalysis /\ y.verdict = v
    BY <2>3 DEF SbPendings, SbAnalysis
  <2>6. \A g \in SbFiles : y \notin SbPendings(g)
    BY <2>5 DEF SbPendings
  <2>7. \A g \in SbFiles \ {f} : sbAnalyses[k] \notin SbPendings(g)
    BY <2>3 DEF SbPendings
  <2> HIDE DEF y
  <2>8. SbCompleted(f, v) \in Seq(SbAnalysis)
    BY <1>0, <2>3, <2>4, <2>5
  <2>9. \A g \in SbFiles : Count(SbCompleted(f, v), SbPendings(g)) =
                             Count(sbAnalyses, SbPendings(g)) - (IF sbAnalyses[k] \in SbPendings(g) THEN 1 ELSE 0)
    <3> SUFFICES ASSUME NEW g \in SbFiles
                 PROVE  Count(SbCompleted(f, v), SbPendings(g)) =
                          Count(sbAnalyses, SbPendings(g)) - (IF sbAnalyses[k] \in SbPendings(g) THEN 1 ELSE 0)
      OBVIOUS
    <3>1. y \notin SbPendings(g)
      BY <2>6
    <3>2. PICK S : S = SbPendings(g)
      OBVIOUS
    <3>3. Count([sbAnalyses EXCEPT ![k] = y], S) = Count(sbAnalyses, S) - (IF sbAnalyses[k] \in S THEN 1 ELSE 0)
      BY <1>0, <2>3, <2>5, <3>1, <3>2, CountReplaced
    <3> QED BY <2>4, <3>2, <3>3
  <2> QED BY <1>1, <1>2, <1>4, <2>3, <2>7, <2>8, <2>9
<1> QED BY <1>3, <1>4

SbInv == SbTypes /\ SbBalanced

\* Submitting, taking and finishing keep runs and pending analyses balanced.
LEMMA SbInvStep == SbInv /\ [SbStep]_sbVars => SbInv'
<1> SUFFICES ASSUME SbInv, [SbStep]_sbVars PROVE SbInv'
  OBVIOUS
<1>0. SbTypes /\ SbBalanced /\ sbAnalyses \in Seq(SbAnalysis) /\ sbQueue \in Seq(SbFiles)
  BY DEF SbInv, SbTypes
<1>1. CASE SbStart \/ SbStop \/ SbThrow \/ (\E file \in SbFiles : SbDelete(file)) \/ UNCHANGED sbVars
  BY <1>1 DEF SbInv, SbTypes, SbBalanced, SbStart, SbStop, SbThrow, SbDelete, sbVars
<1>2. ASSUME NEW f \in SbFiles, SbSubmit(f) PROVE SbInv'
  <2> DEFINE r == [id |-> sbNext, file |-> f, verdict |-> "PENDING"]
             all == Append(sbAnalyses, r)
  <2>1. sbAnalyses' = SbKeptAnalyses(all) /\ sbQueue' = Append(sbQueue, f) /\ sbNext' = sbNext + 1 /\ UNCHANGED <<sbWorker, sbFound>>
    BY <1>2 DEF SbSubmit
  <2>2. r \in SbAnalysis /\ \A g \in SbFiles : r \in SbPendings(g) <=> g = f
    BY <1>0 DEF SbAnalysis, SbVerdicts, SbPendings, SbTypes
  <2> HIDE DEF r
  <2>3. all \in Seq(SbAnalysis) /\ all # <<>>
    BY <1>0, <2>2
  <2>4. \A g \in SbFiles : Count(all, SbPendings(g)) = Count(sbAnalyses, SbPendings(g)) + (IF g = f THEN 1 ELSE 0)
    BY <1>0, <2>2, CountAppend
  <2> HIDE DEF all
  <2>5. \A g \in SbFiles : Count(sbAnalyses', SbPendings(g)) <= Count(all, SbPendings(g))
    BY <2>1, <2>3, SbKeptCount
  <2>6. \A g \in SbFiles : Count(sbQueue', {g}) = Count(sbQueue, {g}) + (IF g = f THEN 1 ELSE 0)
    BY <1>0, <2>1, CountAppend
  <2>7. /\ sbAnalyses' \in Seq(SbAnalysis) /\ sbQueue' \in Seq(SbFiles)
    BY <1>0, <2>1, <2>3, SbKeptCount
  <2>8. \A g \in SbFiles : /\ Count(sbAnalyses, SbPendings(g)) \in Nat /\ Count(sbQueue, {g}) \in Nat
                           /\ Count(sbAnalyses', SbPendings(g)) \in Nat
    BY <1>0, <2>7, PlacesFinite
  <2>9. SbBalanced'
    <3>1. SUFFICES ASSUME NEW g \in SbNamed
                   PROVE  Count(sbAnalyses', SbPendings(g)) <= Count(sbQueue', {g}) + (IF sbWorker' = g THEN 1 ELSE 0)
      BY DEF SbBalanced, Count, Places, SbPendings
    <3>2. Count(sbAnalyses, SbPendings(g)) <= Count(sbQueue, {g}) + (IF sbWorker = g THEN 1 ELSE 0)
      BY <1>0 DEF SbBalanced
    <3>3. g \in SbFiles
      BY DEF SbNamed
    <3> QED BY <2>1, <2>4, <2>5, <2>6, <2>8, <3>2, <3>3
  <2> QED BY <1>0, <2>1, <2>7, <2>9 DEF SbInv, SbTypes
<1>3. CASE SbTake
  <2>1. /\ sbQueue # <<>> /\ sbWorker = "none" /\ sbQueue' = Tail(sbQueue)
        /\ sbWorker' = (IF Head(sbQueue) = "" THEN "none" ELSE Head(sbQueue))
        /\ UNCHANGED <<sbAnalyses, sbNext, sbFound>>
    BY <1>3 DEF SbTake
  <2>2. Head(sbQueue) \in SbFiles /\ Tail(sbQueue) \in Seq(SbFiles)
    BY <1>0, <2>1, HeadTailProperties
  <2>3. \A g \in SbFiles : Count(sbQueue', {g}) = Count(sbQueue, {g}) - (IF Head(sbQueue) = g THEN 1 ELSE 0)
    BY <1>0, <2>1, CountTail
  <2>4. \A g \in SbFiles : Count(sbQueue, {g}) \in Nat /\ sbWorker # g
    BY <1>0, <2>1, PlacesFinite, SbConstants
  <2>6. \A g \in SbNamed : Head(sbQueue) = g <=> sbWorker' = g
    BY <2>1, <2>2, SbConstants DEF SbNamed
  <2>7. sbWorker' \in SbNamed \cup {"none"} /\ ~sbFound
    BY <1>0, <2>1, <2>2 DEF SbNamed, SbTypes
  <2>5. SbBalanced'
    <3>1. SUFFICES ASSUME NEW g \in SbNamed
                   PROVE  Count(sbAnalyses', SbPendings(g)) <= Count(sbQueue', {g}) + (IF sbWorker' = g THEN 1 ELSE 0)
      BY DEF SbBalanced, Count, Places, SbPendings
    <3>2. Count(sbAnalyses, SbPendings(g)) <= Count(sbQueue, {g}) + (IF sbWorker = g THEN 1 ELSE 0)
      BY <1>0 DEF SbBalanced
    <3>3. g \in SbFiles
      BY DEF SbNamed
    <3>4. /\ Count(sbAnalyses', SbPendings(g)) = Count(sbAnalyses, SbPendings(g))
          /\ Count(sbQueue', {g}) = Count(sbQueue, {g}) - (IF sbWorker' = g THEN 1 ELSE 0)
          /\ Count(sbQueue, {g}) \in Nat /\ sbWorker # g
      BY <2>1, <2>3, <2>4, <2>6, <3>3
    <3>5. Count(sbAnalyses, SbPendings(g)) <= Count(sbQueue, {g}) /\ Count(sbAnalyses, SbPendings(g)) \in Nat
      BY <1>0, <3>2, <3>4, PlacesFinite
    <3> QED BY ONLY <3>4, <3>5
  <2> QED BY <1>0, <2>1, <2>2, <2>5, <2>7 DEF SbInv, SbTypes
<1>4. ASSUME NEW v \in SbVerdicts \ {"PENDING"}, SbCompletes(v), sbWorker # "none" PROVE SbInv'
  <2>1. sbWorker # "none" /\ sbWorker' = "none" /\ sbFound' = FALSE /\ UNCHANGED <<sbQueue, sbNext>>
    BY <1>4 DEF SbCompletes
  <2>2. sbWorker \in SbNamed /\ sbWorker \in SbFiles
    BY <1>0, <2>1 DEF SbTypes, SbNamed
  <2>3. v \in SbVerdicts /\ v # "PENDING" /\ sbAnalyses' = SbCompleted(sbWorker, v)
    BY <1>4 DEF SbCompletes
  <2>4. /\ sbAnalyses' \in Seq(SbAnalysis)
        /\ Count(sbAnalyses', SbPendings(sbWorker)) =
              IF Count(sbAnalyses, SbPendings(sbWorker)) = 0 THEN 0 ELSE Count(sbAnalyses, SbPendings(sbWorker)) - 1
        /\ \A g \in SbFiles \ {sbWorker} : Count(sbAnalyses', SbPendings(g)) = Count(sbAnalyses, SbPendings(g))
    BY <1>0, <2>2, <2>3, SbCompletedCount
  <2>5. \A g \in SbFiles : Count(sbAnalyses, SbPendings(g)) \in Nat /\ Count(sbQueue, {g}) \in Nat /\ sbWorker' # g
    BY <1>0, <2>1, PlacesFinite, SbConstants
  <2>6. SbBalanced'
    <3>1. SUFFICES ASSUME NEW g \in SbNamed
                   PROVE  Count(sbAnalyses', SbPendings(g)) <= Count(sbQueue', {g}) + (IF sbWorker' = g THEN 1 ELSE 0)
      BY DEF SbBalanced, Count, Places, SbPendings
    <3>2. Count(sbAnalyses, SbPendings(g)) <= Count(sbQueue, {g}) + (IF sbWorker = g THEN 1 ELSE 0)
      BY <1>0 DEF SbBalanced
    <3>3. g \in SbFiles
      BY DEF SbNamed
    <3> QED BY <2>1, <2>2, <2>4, <2>5, <3>2, <3>3
  <2> QED BY <1>0, <2>1, <2>4, <2>6 DEF SbInv, SbTypes
<1>5. CASE SbLook
  <2>1. "ANALYSIS_ERROR" \in SbVerdicts \ {"PENDING"} /\ sbWorker # "none"
    BY <1>5 DEF SbVerdicts, SbLook
  <2>2. CASE SbCompletes("ANALYSIS_ERROR")
    BY <1>4, <2>1, <2>2
  <2>3. CASE UNCHANGED <<sbAnalyses, sbQueue, sbNext, sbWorker>>
    BY <2>1, <2>3 DEF SbInv, SbTypes, SbBalanced
  <2> QED BY <1>5, <2>2, <2>3 DEF SbLook
<1>6. CASE SbFinish
  <2>1. PICK v \in SbVerdicts \ {"PENDING"} : SbCompletes(v)
    BY <1>6, SbVerdictMild DEF SbFinish
  <2>2. sbWorker # "none"
    BY <1>0, <1>6 DEF SbFinish, SbTypes
  <2> QED BY <1>4, <2>1, <2>2
<1> QED BY <1>1, <1>2, <1>3, <1>5, <1>6 DEF SbStep

\* An observation on a file that nobody wrote to is right about the content it
\* names, as far as inspect() reads it, and none is missing; no analysis of a
\* path in the sandbox waits for a run that will not come; and no run can earn
\* the verdict MALICIOUS.
THEOREM InspectionsAreTrue == AtSpec /\ SbSpec => []InspectionsTrue
<1>1. AtInit => AtInv
  BY DEF AtInit, AtInv, AtIdle, AtQuietIsExact
<1>2. SbInit => SbInv
  <2> SUFFICES ASSUME SbInit PROVE SbInv
    OBVIOUS
  <2>1. SbTypes
    BY DEF SbInit, SbTypes
  <2>2. \A S : Count(<<>>, S) = 0
    BY FS_EmptySet DEF Count, Places
  <2>3. \A file \in SbNamed : Count(sbAnalyses, SbPendings(file)) = 0 /\ Count(sbQueue, {file}) = 0
    BY <2>2 DEF SbInit
  <2> QED BY <2>1, <2>3 DEF SbInv, SbBalanced
<1>3. AtInv /\ SbInv => InspectionsTrue
  <2> SUFFICES ASSUME AtInv, SbInv PROVE InspectionsTrue
    OBVIOUS
  <2>1. SbPendingIsQueued
    BY SbCounts DEF SbInv
  <2>2. SbNeverMalicious
    <3>1. \A i \in DOMAIN sbAnalyses : sbAnalyses[i] \in SbAnalysis
      BY DEF SbInv, SbTypes
    <3> QED BY <3>1 DEF SbAnalysis, SbVerdicts, SbNeverMalicious
  <2> QED BY <2>1, <2>2 DEF AtInv, InspectionsTrue
<1> QED BY <1>1, <1>2, <1>3, AtInvStep, SbInvStep, PTL DEF AtSpec, SbSpec

-----------------------------------------------------------------------------
(* Facts about numbers and sequences for the two parts that follow. *)

\* A set of numbers that is not empty and has a bound has a greatest one.
LEMMA MaxOf ==
  ASSUME NEW n \in Nat, NEW S, S \subseteq 1 .. n, S # {}
  PROVE  Max(S) \in S /\ \A j \in S : j <= Max(S)
<1> DEFINE R == OpToRel(<, Nat)
           T == {n - i : i \in S}
<1>1. IsWellFoundedOn(R, Nat)
  BY NatLessThanWellFounded
<1>2. \A i, j \in Nat : i < j => <<i, j>> \in R
  BY DEF OpToRel
<1>3. \A i \in S : i \in Int /\ n - i \in Nat /\ n - i \in T
  OBVIOUS
<1>4. T \subseteq Nat /\ T # {} /\ \A t \in T : \E i \in S : t = n - i
  BY <1>3
<1> HIDE DEF R, T
<1>5. PICK t \in T : \A u \in T : ~ (<<u, t>> \in R)
  BY <1>1, <1>4, WFMin
<1>6. PICK i \in S : t = n - i
  BY <1>4, <1>5
<1>7. \A j \in S : ~ (n - j < n - i)
  <2>1. \A j \in S : ~ (<<n - j, n - i>> \in R)
    BY <1>3, <1>5, <1>6
  <2> QED BY <1>2, <1>3, <2>1
<1>8. \A j \in S : i >= j
  BY <1>3, <1>7
<1>9. Max(S) \in S /\ \A j \in S : Max(S) >= j
  BY <1>8 DEF Max
<1> QED BY <1>3, <1>9

\* Concatenation, with the lengths named and each part on its own.
LEMMA Joined ==
  ASSUME NEW S, NEW a \in Seq(S), NEW b \in Seq(S), NEW p, NEW q, p = Len(a), q = Len(b)
  PROVE  /\ a \o b \in Seq(S) /\ Len(a \o b) = p + q /\ p \in Nat /\ q \in Nat
         /\ \A i \in 1 .. p : (a \o b)[i] = a[i]
         /\ \A i \in 1 .. q : (a \o b)[p + i] = b[i]
<1>1. p \in Nat /\ q \in Nat
  OBVIOUS
<1>2. a \o b \in Seq(S) /\ Len(a \o b) = p + q
      /\ \A i \in 1 .. p + q : (a \o b)[i] = IF i <= p THEN a[i] ELSE b[i - p]
  BY ConcatProperties
<1>3. \A i \in 1 .. p : (a \o b)[i] = a[i]
  BY <1>1, <1>2
<1>4. ASSUME NEW i \in 1 .. q PROVE (a \o b)[p + i] = b[i]
  <2>1. p + i \in 1 .. p + q /\ ~(p + i <= p) /\ (p + i) - p = i
    BY <1>1
  <2> QED BY <1>2, <2>1
<1> QED BY <1>1, <1>2, <1>3, <1>4

-----------------------------------------------------------------------------
(* PolicyStore: what was saved whole is loaded again. *)

PsKeys == {"critical_threshold", "finding_window_minutes", "protected_path_prefix", ""} \union STRING
PsLine == [key : PsKeys, num : Int, path : Seq(STRING)]

\* The lines of a policy: its two numbers, then its prefixes.
PsLinesOf(lines, policy) ==
  /\ lines \in Seq(PsLine) /\ Len(lines) = Len(policy.prefixes) + 2
  /\ lines[1] = PsNumber("critical_threshold", policy.threshold)
  /\ lines[2] = PsNumber("finding_window_minutes", policy.window)
  /\ \A i \in 1 .. Len(policy.prefixes) : lines[i + 2] = PsPath(policy.prefixes[i])

\* What has been written and what is left are the lines of the policy.
PsParted(file, saving, lines) ==
  /\ Len(file) + Len(saving) = Len(lines)
  /\ \A i \in 1 .. Len(file) : file[i] = lines[i]
  /\ \A i \in 1 .. Len(saving) : saving[i] = lines[Len(file) + i]

PsInv ==
  /\ psSaved \in PsPolicies \union {PsDefault}
  /\ psFile \in Seq(PsLine) /\ psSaving \in Seq(PsLine)
  /\ psWhole \in BOOLEAN
  /\ psSaving # <<>> => ~psWhole /\ PsParted(psFile, psSaving, PsLines(psSaved))
  /\ psWhole => psFile = PsLines(psSaved)
  /\ PsStillProtects

\* The two kinds of lines.
LEMMA PsKinds ==
  /\ \A key \in PsKeys, n \in Int : PsNumber(key, n) \in PsLine /\ PsNumber(key, n).key = key /\ PsNumber(key, n).num = n
  /\ \A q \in Seq(STRING) :
       PsPath(q) \in PsLine /\ PsPath(q).key = "protected_path_prefix" /\ PsPath(q).path = q
<1>1. <<>> \in Seq(STRING)
  OBVIOUS
<1>2. \A key \in PsKeys, n \in Int : PsNumber(key, n) \in PsLine
  BY <1>1 DEF PsNumber, PsLine
<1>3. \A q \in Seq(STRING) : PsPath(q) \in PsLine
  BY DEF PsPath, PsLine, PsKeys
<1> QED BY <1>2, <1>3 DEF PsNumber, PsPath

\* save() writes these lines.
LEMMA PsLinesAre == ASSUME NEW policy \in PsPolicies \union {PsDefault} PROVE PsLinesOf(PsLines(policy), policy)
<1>1. policy.threshold \in Nat /\ policy.window \in Nat /\ policy.prefixes \in Seq(Seq(STRING))
  BY PsConstants
<1>2. PICK p : p = policy.prefixes
  OBVIOUS
<1>3. p \in Seq(Seq(STRING)) /\ Len(p) \in Nat /\ DOMAIN p = 1 .. Len(p)
  BY <1>1, <1>2
<1>4. PICK a, b, two, rest :
        /\ a = PsNumber("critical_threshold", policy.threshold) /\ b = PsNumber("finding_window_minutes", policy.window)
        /\ two = <<a, b>> /\ rest = [i \in DOMAIN p |-> PsPath(p[i])]
  OBVIOUS
<1>5. a \in PsLine /\ b \in PsLine /\ \A q \in Seq(STRING) : PsPath(q) \in PsLine
  <2>1. "critical_threshold" \in PsKeys /\ "finding_window_minutes" \in PsKeys
    BY DEF PsKeys
  <2>2. policy.threshold \in Int /\ policy.window \in Int
    BY <1>1
  <2>3. a \in PsLine
    BY <1>4, <2>1, <2>2, PsKinds
  <2>4. b \in PsLine
    BY <1>4, <2>1, <2>2, PsKinds
  <2> QED BY <2>3, <2>4, PsKinds
<1>6. two \in Seq(PsLine) /\ Len(two) = 2 /\ two[1] = a /\ two[2] = b
  BY <1>4, <1>5
<1>7. rest \in Seq(PsLine) /\ Len(rest) = Len(p) /\ \A i \in 1 .. Len(p) : rest[i] = PsPath(p[i])
  <2>1. rest \in [1 .. Len(p) -> PsLine]
    BY <1>3, <1>4, <1>5
  <2> QED BY <1>3, <1>4, <2>1
<1>8. PsLines(policy) = two \o rest
  BY <1>2, <1>4 DEF PsLines
<1>9. two \o rest \in Seq(PsLine) /\ Len(two \o rest) = 2 + Len(p) /\ (two \o rest)[1] = a /\ (two \o rest)[2] = b
      /\ \A i \in 1 .. Len(p) : (two \o rest)[i + 2] = rest[i]
  <2>1. PICK m, n : m = Len(two) /\ n = Len(rest)
    OBVIOUS
  <2>2. /\ two \o rest \in Seq(PsLine) /\ Len(two \o rest) = m + n
        /\ \A i \in 1 .. m : (two \o rest)[i] = two[i]
        /\ \A i \in 1 .. n : (two \o rest)[m + i] = rest[i]
    <3>1. two \in Seq(PsLine) /\ rest \in Seq(PsLine)
      BY <1>6, <1>7
    <3> QED BY ONLY <2>1, <3>1, Joined
  <2>3. m = 2 /\ n = Len(p) /\ 1 \in 1 .. m /\ 2 \in 1 .. m /\ \A i \in 1 .. n : m + i = i + 2
    BY <1>3, <1>6, <1>7, <2>1
  <2> QED BY <1>6, <2>2, <2>3
<1> QED BY <1>2, <1>3, <1>4, <1>7, <1>8, <1>9 DEF PsLinesOf

\* Whatever the lines are, the prefixes loaded protect some path.
LEMMA PsAlwaysProtects == \A lines : PsPrefixes(lines) # {} /\ <<>> \notin PsPrefixes(lines)
<1>1. ToSet(PsDefault.prefixes) # {} /\ <<>> \notin ToSet(PsDefault.prefixes)
  <2>1. PICK p : p = PsDefault.prefixes
    OBVIOUS
  <2>2. p \in Seq(Seq(STRING)) /\ p # <<>> /\ <<>> \notin ToSet(p)
    BY <2>1, PsConstants
  <2>3. 1 \in DOMAIN p
    BY <2>2
  <2>4. p[1] \in ToSet(p)
    BY <2>3 DEF ToSet
  <2> QED BY <2>1, <2>2, <2>4
<1> QED BY <1>1 DEF PsPrefixes

\* Every step keeps it: a crash leaves no whole file, and neither does an edit.
LEMMA PsStepInv == PsInv /\ [PsNext]_psVars => PsInv'
<1> SUFFICES ASSUME PsInv, [PsNext]_psVars PROVE PsInv'
  OBVIOUS
<1>0. /\ psFile \in Seq(PsLine) /\ psSaving \in Seq(PsLine) /\ Len(psFile) \in Nat /\ Len(psSaving) \in Nat
  BY DEF PsInv
<1>1. ASSUME NEW policy \in PsPolicies, PsSave(policy) PROVE PsInv'
  <2>1. PsLinesOf(PsLines(policy), policy)
    BY PsLinesAre
  <2>2. PICK lines : lines = PsLines(policy)
    OBVIOUS
  <2>3. lines \in Seq(PsLine) /\ Len(lines) \in Nat
    BY <2>1, <2>2 DEF PsLinesOf
  <2>4. psFile' = <<>> /\ psSaving' = lines /\ psSaved' = policy /\ psWhole' = FALSE /\ psLoaded' = psLoaded
    BY <1>1, <2>2 DEF PsSave
  <2>5. psFile' \in Seq(PsLine) /\ Len(psFile') = 0
    BY <2>4
  <2>6. PsParted(psFile', psSaving', lines)
    BY <2>3, <2>4, <2>5 DEF PsParted
  <2> QED BY <2>2, <2>3, <2>4, <2>5, <2>6 DEF PsInv, PsStillProtects
<1>2. CASE PsWrite
  <2>1. /\ psSaving # <<>> /\ psFile' = Append(psFile, Head(psSaving)) /\ psSaving' = Tail(psSaving)
        /\ psWhole' = (Len(psSaving) = 1) /\ psSaved' = psSaved /\ psLoaded' = psLoaded
    BY <1>2 DEF PsWrite
  <2>2. PICK lines : lines = PsLines(psSaved)
    OBVIOUS
  <2>3. PsParted(psFile, psSaving, lines) /\ lines \in Seq(PsLine) /\ Len(lines) \in Nat
    <3>1. PsLinesOf(lines, psSaved)
      BY <2>2, PsLinesAre DEF PsInv
    <3> QED BY <2>1, <2>2, <3>1 DEF PsInv, PsLinesOf
  <2>4. PICK f, s, x, m, n : /\ f = psFile /\ s = psSaving /\ x = psSaving[1] /\ m = Len(psFile) /\ n = Len(psSaving)
    OBVIOUS
  <2>5. m \in Nat /\ n \in Nat /\ n > 0 /\ x \in PsLine
    BY <1>0, <2>1, <2>4
  <2>6. /\ psFile' \in Seq(PsLine) /\ Len(psFile') = m + 1 /\ psFile'[m + 1] = x
        /\ \A i \in 1 .. m : psFile'[i] = f[i]
    <3>1. Head(psSaving) = x
      BY <1>0, <2>1, <2>4
    <3>2. psFile' = Append(f, x) /\ f \in Seq(PsLine)
      BY <1>0, <2>1, <2>4, <3>1
    <3> QED BY <2>4, <2>5, <3>2, AppendProperties
  <2>7. psSaving' \in Seq(PsLine) /\ Len(psSaving') = n - 1 /\ \A i \in 1 .. n - 1 : psSaving'[i] = s[i + 1]
    BY <1>0, <2>1, <2>4, HeadTailProperties
  <2>8. /\ m + n = Len(lines) /\ (\A i \in 1 .. m : f[i] = lines[i]) /\ (\A i \in 1 .. n : s[i] = lines[m + i])
    BY <2>3, <2>4 DEF PsParted
  <2>9. x = lines[m + 1]
    BY <2>4, <2>5, <2>8
  <2>10. \A i \in 1 .. m + 1 : psFile'[i] = lines[i]
    BY <2>5, <2>6, <2>8, <2>9
  <2>11. \A i \in 1 .. n - 1 : psSaving'[i] = lines[m + 1 + i]
    <3>1. ASSUME NEW i \in 1 .. n - 1 PROVE i + 1 \in 1 .. n /\ m + (i + 1) = m + 1 + i
      BY <2>5
    <3> QED BY <2>7, <2>8, <3>1
  <2>12. PsParted(psFile', psSaving', lines)
    <3>1. (m + 1) + (n - 1) = m + n
      BY <2>5
    <3> QED BY <2>6, <2>7, <2>8, <2>10, <2>11, <3>1 DEF PsParted
  <2>13. psSaving' # <<>> => n # 1
    BY <2>5, <2>7
  <2>14. n = 1 => psFile' = lines
    <3> SUFFICES ASSUME n = 1 PROVE psFile' = lines
      OBVIOUS
    <3>1. Len(lines) = m + 1
      BY <2>5, <2>8
    <3> QED BY <2>3, <2>6, <2>10, <3>1, SeqEqual
  <2>15. psWhole' \in BOOLEAN /\ (psWhole' <=> n = 1)
    BY <2>1, <2>4
  <2> QED BY <2>1, <2>2, <2>6, <2>7, <2>12, <2>13, <2>14, <2>15 DEF PsInv, PsStillProtects
<1>3. CASE PsCrash
  <2>1. psSaving # <<>> /\ psSaving' = <<>> /\ psSaved' = psSaved /\ psWhole' = psWhole /\ psLoaded' = psLoaded
    BY <1>3 DEF PsCrash
  <2>2. ~psWhole
    BY <2>1 DEF PsInv
  <2>3. psFile' \in Seq(PsLine)
    <3>1. PICK part \in {<<>>} \union {<<l>> : l \in PsCuts(Head(psSaving))} : psFile' = psFile \o part
      BY <1>3 DEF PsCrash
    <3>2. PICK h : h = Head(psSaving)
      OBVIOUS
    <3>3. h \in PsLine
      BY <1>0, <2>1, <3>2
    <3>4. ASSUME NEW l \in PsCuts(h) PROVE l \in PsLine
      <4>1. h.num \in Int /\ h.path \in Seq(STRING)
        BY <3>3 DEF PsLine
      <4>2. PsCorrupt \in PsLine
        <5>1. "" \in PsKeys /\ -1 \in Int
          BY DEF PsKeys
        <5> QED BY <5>1, PsKinds DEF PsCorrupt
      <4>3. ASSUME NEW n \in 0 .. Len(h.path) PROVE PsPath(SubSeq(h.path, 1, n)) \in PsLine
        <5>1. SubSeq(h.path, 1, n) \in Seq(STRING)
          BY <4>1, SubSeqProperties
        <5> QED BY <5>1, PsKinds
      <4>4. ASSUME NEW d \in {1, 10, 100, 1000} PROVE [h EXCEPT !.num = @ \div d] \in PsLine
        <5>1. PICK e : e = h.num \div d
          OBVIOUS
        <5>2. e \in Int
          BY <4>1, <5>1
        <5>3. [h EXCEPT !.num = e] \in PsLine
          BY <3>3, <5>2 DEF PsLine
        <5> QED BY <5>1, <5>3
      <4> QED BY <4>2, <4>3, <4>4 DEF PsCuts
    <3>5. part \in Seq(PsLine)
      <4>1. CASE part = <<>>
        BY <4>1
      <4>2. CASE part \in {<<l>> : l \in PsCuts(h)}
        <5>1. PICK l \in PsCuts(h) : part = <<l>>
          BY <4>2
        <5>2. l \in PsLine
          BY <3>4
        <5> QED BY <5>1, <5>2
      <4> QED BY <3>1, <3>2, <4>1, <4>2
    <3> QED BY <1>0, <3>1, <3>5, ConcatProperties
  <2> QED BY <2>1, <2>2, <2>3 DEF PsInv, PsStillProtects
<1>4. CASE PsEdit
  <2>1. PICK line \in PsForeign : psFile' = Append(psFile, line)
    BY <1>4 DEF PsEdit
  <2>2. line \in PsLine
    BY PsConstants DEF PsLine, PsKeys
  <2>3. psFile' \in Seq(PsLine)
    BY <1>0, <2>1, <2>2
  <2> QED BY <1>4, <2>3 DEF PsInv, PsEdit, PsStillProtects
<1>5. CASE PsStart
  <2>1. psLoaded' = PsLoad(psFile)
    BY <1>5 DEF PsStart
  <2>2. psLoaded'.prefixes = PsPrefixes(psFile)
    BY <2>1 DEF PsLoad
  <2> QED BY <1>5, <2>2, PsAlwaysProtects DEF PsInv, PsStart, PsStillProtects
<1>6. CASE UNCHANGED psVars
  BY <1>6 DEF PsInv, psVars, PsStillProtects
<1> QED BY <1>1, <1>2, <1>3, <1>4, <1>5, <1>6 DEF PsNext

\* One line has the key, and its number is in range.
PsOnly(lines, key, hi, at) ==
  /\ lines \in Seq(PsLine) /\ hi \in Nat /\ at \in 1 .. Len(lines) /\ lines[at].key = key
  /\ \A i \in 1 .. Len(lines) : lines[i].key = key => i = at
  /\ lines[at].num \in (IF key = "critical_threshold" THEN 0 ELSE 1) .. hi

\* Its number is taken.
LEMMA PsOneNumber ==
  ASSUME NEW lines, NEW key, NEW hi, NEW default, NEW at, PsOnly(lines, key, hi, at)
  PROVE  PsNumberOf(lines, key, hi, default) = lines[at].num
<1> DEFINE I == {i \in 1 .. Len(lines) : lines[i].key = key /\ lines[i].num \in (IF key = "critical_threshold" THEN 0 ELSE 1) .. hi}
<1>1. at \in I /\ \A i \in I : i = at
  BY DEF PsOnly
<1>2. SelectLastInSeq(lines, LAMBDA l : l.key = key /\ l.num \in (IF key = "critical_threshold" THEN 0 ELSE 1) .. hi)
        = IF I # {} THEN Max(I) ELSE 0
  BY DEF SelectLastInSeq
<1>3. Len(lines) \in Nat /\ I \subseteq 1 .. Len(lines) /\ at \in 1 .. Len(lines)
  BY DEF PsOnly
<1> HIDE DEF I
<1>4. Max(I) \in I
  BY <1>1, <1>3, MaxOf
<1>5. SelectLastInSeq(lines, LAMBDA l : l.key = key /\ l.num \in (IF key = "critical_threshold" THEN 0 ELSE 1) .. hi) = at /\ at # 0
  BY <1>1, <1>2, <1>3, <1>4
<1> QED BY <1>5 DEF PsNumberOf

\* What load() makes of the lines that save() wrote.
LEMMA PsLoadsLines ==
  ASSUME NEW policy \in PsPolicies \union {PsDefault}, NEW lines, PsLinesOf(lines, policy), MAX_FINDING_WINDOW_MINUTES \in Nat
  PROVE  /\ policy.threshold \in 0 .. 100 => PsLoad(lines).threshold = policy.threshold
         /\ policy.window \in 1 .. MAX_FINDING_WINDOW_MINUTES => PsLoad(lines).window = policy.window
         /\ ToSet(policy.prefixes) \ {<<>>} # {} => PsLoad(lines).prefixes = ToSet(policy.prefixes) \ {<<>>}
<1>1. PICK p : p = policy.prefixes
  OBVIOUS
<1>2. policy.threshold \in Nat /\ policy.window \in Nat /\ p \in Seq(Seq(STRING)) /\ Len(p) \in Nat /\ DOMAIN p = 1 .. Len(p)
  BY <1>1, PsConstants
<1>3. /\ lines \in Seq(PsLine) /\ Len(lines) = Len(p) + 2 /\ Len(lines) \in Nat
      /\ lines[1].key = "critical_threshold" /\ lines[1].num = policy.threshold
      /\ lines[2].key = "finding_window_minutes" /\ lines[2].num = policy.window
  <2>1. /\ lines \in Seq(PsLine) /\ Len(lines) = Len(p) + 2
        /\ lines[1] = PsNumber("critical_threshold", policy.threshold)
        /\ lines[2] = PsNumber("finding_window_minutes", policy.window)
    BY <1>1 DEF PsLinesOf
  <2>2. "critical_threshold" \in PsKeys /\ "finding_window_minutes" \in PsKeys
    BY DEF PsKeys
  <2>3. policy.threshold \in Int /\ policy.window \in Int
    BY <1>2
  <2>4. lines[1].key = "critical_threshold" /\ lines[1].num = policy.threshold
    BY <2>1, <2>2, <2>3, PsKinds
  <2>5. lines[2].key = "finding_window_minutes" /\ lines[2].num = policy.window
    BY <2>1, <2>2, <2>3, PsKinds
  <2> QED BY <1>2, <2>1, <2>4, <2>5
<1>4. \A i \in 1 .. Len(p) : lines[i + 2].key = "protected_path_prefix" /\ lines[i + 2].path = p[i]
  <2>1. ASSUME NEW i \in 1 .. Len(p) PROVE lines[i + 2] = PsPath(p[i]) /\ p[i] \in Seq(STRING)
    <3>1. \A j \in 1 .. Len(policy.prefixes) : lines[j + 2] = PsPath(policy.prefixes[j])
      BY DEF PsLinesOf
    <3>2. lines[i + 2] = PsPath(p[i])
      BY <1>1, <3>1
    <3>3. p[i] \in Seq(STRING)
      BY ONLY <1>2, <2>1
    <3> QED BY <3>2, <3>3
  <2> QED BY <2>1, PsKinds
<1>5. ASSUME NEW i \in 1 .. Len(lines) PROVE i = 1 \/ i = 2 \/ (i - 2 \in 1 .. Len(p) /\ i = (i - 2) + 2)
  BY <1>2, <1>3
<1>6. ASSUME NEW i \in 1 .. Len(lines) PROVE i = 1 \/ i = 2 \/ lines[i].key = "protected_path_prefix"
  <2>1. PICK j : j = i - 2
    OBVIOUS
  <2>2. i = 1 \/ i = 2 \/ (j \in 1 .. Len(p) /\ i = j + 2)
    BY ONLY <1>5, <2>1
  <2> QED BY ONLY <1>4, <2>2
<1>7. 1 \in 1 .. Len(lines) /\ 2 \in 1 .. Len(lines)
  BY <1>2, <1>3
<1>8. policy.threshold \in 0 .. 100 => PsLoad(lines).threshold = policy.threshold
  <2> SUFFICES ASSUME policy.threshold \in 0 .. 100 PROVE PsLoad(lines).threshold = policy.threshold
    OBVIOUS
  <2>1. \A i \in 1 .. Len(lines) : lines[i].key = "critical_threshold" => i = 1
    BY <1>3, <1>6
  <2>2. PsOnly(lines, "critical_threshold", 100, 1)
    BY <1>3, <1>7, <2>1 DEF PsOnly
  <2>3. PsNumberOf(lines, "critical_threshold", 100, PsDefault.threshold) = lines[1].num
    BY ONLY <2>2, PsOneNumber
  <2> QED BY <1>3, <2>3 DEF PsLoad
<1>9. policy.window \in 1 .. MAX_FINDING_WINDOW_MINUTES => PsLoad(lines).window = policy.window
  <2> SUFFICES ASSUME policy.window \in 1 .. MAX_FINDING_WINDOW_MINUTES PROVE PsLoad(lines).window = policy.window
    OBVIOUS
  <2>1. \A i \in 1 .. Len(lines) : lines[i].key = "finding_window_minutes" => i = 2
    BY <1>3, <1>6
  <2>2. PsOnly(lines, "finding_window_minutes", MAX_FINDING_WINDOW_MINUTES, 2)
    BY <1>3, <1>7, <2>1 DEF PsOnly
  <2>3. PsNumberOf(lines, "finding_window_minutes", MAX_FINDING_WINDOW_MINUTES, PsDefault.window) = lines[2].num
    BY ONLY <2>2, PsOneNumber
  <2> QED BY <1>3, <2>3 DEF PsLoad
<1>10. ToSet(p) \ {<<>>} # {} => PsPrefixes(lines) = ToSet(p) \ {<<>>}
  <2> DEFINE K == {k \in ToSet(lines) : k.key = "protected_path_prefix" /\ k.path # <<>>}
             paths == {l.path : l \in K}
  <2>1. DOMAIN lines = 1 .. Len(lines) /\ \A i \in 1 .. Len(p) : i + 2 \in 1 .. Len(lines)
    BY <1>2, <1>3
  <2>2. ASSUME NEW q \in ToSet(p) \ {<<>>} PROVE q \in paths
    <3>1. PICK i \in 1 .. Len(p) : q = p[i]
      BY <1>2 DEF ToSet
    <3>2. PICK l : l = lines[i + 2]
      OBVIOUS
    <3>3. l \in ToSet(lines)
      BY <2>1, <3>2 DEF ToSet
    <3>4. l \in K /\ l.path = q
      BY <1>4, <3>1, <3>2, <3>3
    <3> QED BY <3>4
  <2>3. ASSUME NEW q \in paths PROVE q \in ToSet(p) \ {<<>>}
    <3>1. PICK l \in K : q = l.path
      OBVIOUS
    <3>2. PICK i \in 1 .. Len(lines) : l = lines[i]
      BY <2>1, <3>1 DEF ToSet
    <3>3. i - 2 \in 1 .. Len(p) /\ i = (i - 2) + 2
      BY <1>3, <1>5, <3>1, <3>2
    <3>4. q = p[i - 2]
      BY <1>4, <3>1, <3>2, <3>3
    <3> QED BY <1>2, <3>1, <3>3, <3>4 DEF ToSet
  <2>4. paths = ToSet(p) \ {<<>>}
    BY <2>2, <2>3
  <2> QED BY <2>4 DEF PsPrefixes
<1>11. PsLoad(lines).prefixes = PsPrefixes(lines)
  BY DEF PsLoad
<1> QED BY <1>1, <1>8, <1>9, <1>10, <1>11

\* The policy file in every state: as it was saved, or in the middle of a save.
THEOREM PolicyInvariant == PsSpec => []PsInv
<1>1. PsInit => PsInv
  <2> SUFFICES ASSUME PsInit PROVE PsInv
    OBVIOUS
  <2>1. psFile \in Seq(PsLine) /\ psSaving \in Seq(PsLine) /\ psSaving = <<>> /\ psWhole = FALSE /\ psSaved = PsDefault
    BY DEF PsInit
  <2>2. psLoaded.prefixes = ToSet(PsDefault.prefixes)
    BY PsConstants DEF PsInit
  <2>3. PsPrefixes(<<>>) = ToSet(PsDefault.prefixes)
    <3>1. ToSet(<<>>) = {}
      BY DEF ToSet
    <3> QED BY <3>1 DEF PsPrefixes
  <2> QED BY <2>1, <2>2, <2>3, PsAlwaysProtects DEF PsInv, PsStillProtects
<1> QED BY <1>1, PsStepInv, PTL DEF PsSpec

\* A policy that was saved whole is loaded as it was, and no crash during
\* save() and no edit leaves a policy that protects nothing: for any policies,
\* any lines written by others and any longest window.
THEOREM PolicyDoesSurvive == PsSpec => []PolicySurvives
<1>1. PsInv => PolicySurvives
  <2> SUFFICES ASSUME PsInv PROVE PolicySurvives
    OBVIOUS
  <2>1. psSaved \in PsPolicies \union {PsDefault}
    BY DEF PsInv
  <2>2. psWhole => PsLinesOf(psFile, psSaved)
    BY <2>1, PsLinesAre DEF PsInv
  <2>3. PsRoundTrip
    BY <2>1, <2>2, PsLoadsLines, PsConstants DEF PsRoundTrip
  <2> QED BY <2>3 DEF PsInv, PolicySurvives
<1> QED BY <1>1, PolicyInvariant, PTL

-----------------------------------------------------------------------------
(* The pipes of the service: no gap, no thread left behind, and the codec. *)

IpEnds == [server : BOOLEAN, client : BOOLEAN, down : Seq(Nat), up : Nat]

\* What the client of a connection has received and what is on its way to it
\* are broadcasts one after the other, ...
IpChain(got, down) ==
  /\ \A i \in 1 .. Len(got) - 1 : got[i + 1] = got[i] + 1
  /\ \A i \in 1 .. Len(down) - 1 : down[i + 1] = down[i] + 1
  /\ Len(got) > 0 /\ Len(down) > 0 => down[1] = got[Len(got)] + 1

\* ... and the last of them is n.
IpUpTo(got, down, n) ==
  /\ Len(down) > 0 => down[Len(down)] = n
  /\ Len(down) = 0 /\ Len(got) > 0 => got[Len(got)] = n

IpTypes ==
  /\ ipMsgs \in Nat /\ ipPipe \in Seq(IpEnds) /\ ipGot \in Seq(Nat)
  /\ ipConn \in 0 .. Len(ipPipe)
  /\ DOMAIN ipCast = {"msg", "left", "kept"} /\ ipCast.msg \in {0, ipMsgs}
  /\ ipCast.msg = 0 => ipCast = IpNoCast
  /\ ipCast.left \union ipCast.kept \subseteq ipClients /\ ipClients \subseteq 0 .. Len(ipPipe)
  /\ ipCast.left \intersect ipCast.kept = {}

\* The connection that waits to be accepted has had no broadcast, and no
\* broadcast is made to it.
IpWaiting ==
  /\ ipInstance.by \in 0 .. Len(ipPipe) /\ ipInstance.by \notin ipClients \ {0}
  /\ ipInstance.by # 0 => Len(ipPipe[ipInstance.by].down) = 0 /\ (ipInstance.by = ipConn => Len(ipGot) = 0)

\* The client's connection has had every broadcast since it was accepted, up
\* to the one under way.
IpStream ==
  /\ IpNoGap
  /\ ipConn # 0 =>
       LET down == ipPipe[ipConn].down
       IN  /\ IpChain(ipGot, down)
           /\ ipCast.msg = 0 /\ ipConn \in ipClients => IpUpTo(ipGot, down, ipMsgs)
           /\ ipConn \in ipCast.left => IpUpTo(ipGot, down, ipMsgs - 1)
           /\ ipConn \in ipCast.kept => IpUpTo(ipGot, down, ipMsgs)

\* A listener that reads has a connection.
IpListening ==
  /\ ipListener \in {"none", "read", "ended"}
  /\ ipListener = "read" => ipConnected /\ ipConn # 0
  /\ IpTerminatedByLoss

\* Only the pipes of the server and of the client matter to the stream.
LEMMA IpFrame ==
  ASSUME IpTypes, IpWaiting, IpStream,
         UNCHANGED <<ipMsgs, ipGot, ipConn, ipCast, ipClients>>,
         ipPipe' \in Seq(IpEnds), Len(ipPipe') = Len(ipPipe),
         \A c \in 1 .. Len(ipPipe) : c \in {ipConn, ipInstance.by} => ipPipe'[c].down = ipPipe[c].down,
         ipInstance'.by \in {0, ipInstance.by}
  PROVE  IpTypes' /\ IpWaiting' /\ IpStream'
<1>1. Len(ipPipe) \in Nat
  BY DEF IpTypes
<1>2. IpTypes'
  BY <1>1 DEF IpTypes, IpNoCast
<1>3. ipConn # 0 => ipConn \in 1 .. Len(ipPipe)
  BY <1>1 DEF IpTypes
<1>4. ipInstance.by # 0 => ipInstance.by \in 1 .. Len(ipPipe)
  BY <1>1 DEF IpWaiting
<1>5. IpWaiting'
  <2>1. CASE ipInstance'.by = 0
    BY <1>1, <2>1 DEF IpWaiting
  <2>2. CASE ipInstance'.by # 0
    BY <1>1, <1>4, <2>2 DEF IpWaiting
  <2> QED BY <2>1, <2>2
<1>6. IpStream'
  <2>1. IpNoGap'
    BY DEF IpStream, IpNoGap
  <2>2. CASE ipConn = 0
    BY <2>1, <2>2 DEF IpStream
  <2>3. CASE ipConn # 0
    <3>1. ipPipe'[ipConn'].down = ipPipe[ipConn].down
      BY <1>3, <2>3
    <3> QED BY <2>1, <2>3, <3>1 DEF IpStream
  <2> QED BY <2>2, <2>3
<1> QED BY <1>2, <1>5, <1>6

\* Closing an end of some pipes leaves what they hold.
LEMMA IpClosed ==
  ASSUME NEW pipe \in Seq(IpEnds), NEW shut,
         ipPipe' = [c \in DOMAIN pipe |-> [pipe[c] EXCEPT !.server = @ /\ c \notin shut]]
  PROVE  /\ ipPipe' \in Seq(IpEnds) /\ Len(ipPipe') = Len(pipe)
         /\ \A c \in 1 .. Len(pipe) : ipPipe'[c].down = pipe[c].down
<1>1. Len(pipe) \in Nat /\ DOMAIN pipe = 1 .. Len(pipe)
  OBVIOUS
<1>2. ASSUME NEW c \in 1 .. Len(pipe) PROVE ipPipe'[c] \in IpEnds /\ ipPipe'[c].down = pipe[c].down
  <2>1. PICK p : p = pipe[c]
    OBVIOUS
  <2>2. p \in IpEnds
    BY <1>1, <2>1
  <2>3. PICK b \in BOOLEAN : b = (p.server /\ c \notin shut)
    OBVIOUS
  <2>4. ipPipe'[c] = [p EXCEPT !.server = b]
    BY <1>1, <2>1, <2>3
  <2>5. [p EXCEPT !.server = b] \in IpEnds /\ [p EXCEPT !.server = b].down = p.down
    BY <2>2, <2>3 DEF IpEnds
  <2> QED BY <2>1, <2>4, <2>5
<1>3. ipPipe' \in [1 .. Len(pipe) -> IpEnds]
  <2>1. DOMAIN ipPipe' = 1 .. Len(pipe)
    BY <1>1
  <2> QED BY <1>1, <1>2, <2>1
<1> QED BY <1>1, <1>2, <1>3

\* So does leaving one as a client.
LEMMA IpLeft ==
  ASSUME ipPipe \in Seq(IpEnds)
  PROVE  /\ IpLeave \in Seq(IpEnds) /\ Len(IpLeave) = Len(ipPipe)
         /\ \A c \in 1 .. Len(ipPipe) : IpLeave[c].down = ipPipe[c].down
<1>1. Len(ipPipe) \in Nat /\ DOMAIN ipPipe = 1 .. Len(ipPipe)
  OBVIOUS
<1>2. ASSUME NEW c \in 1 .. Len(ipPipe) PROVE IpLeave[c] \in IpEnds /\ IpLeave[c].down = ipPipe[c].down
  <2>1. PICK p : p = ipPipe[c]
    OBVIOUS
  <2>2. p \in IpEnds
    BY <1>1, <2>1
  <2>3. PICK b \in BOOLEAN : b = (p.client /\ c # ipConn)
    OBVIOUS
  <2>4. IpLeave[c] = [p EXCEPT !.client = b]
    BY <1>1, <2>1, <2>3 DEF IpLeave
  <2>5. [p EXCEPT !.client = b] \in IpEnds /\ [p EXCEPT !.client = b].down = p.down
    BY <2>2, <2>3 DEF IpEnds
  <2> QED BY <2>1, <2>4, <2>5
<1>3. IpLeave \in [1 .. Len(ipPipe) -> IpEnds]
  <2>1. DOMAIN IpLeave = 1 .. Len(ipPipe)
    BY <1>1 DEF IpLeave
  <2> QED BY <1>1, <1>2, <2>1 DEF IpLeave
<1> HIDE DEF IpLeave
<1> QED BY <1>1, <1>2, <1>3

\* The server's end: accepting keeps or closes a pipe that has had nothing.
LEMMA IpAcceptStep == ASSUME IpTypes, IpWaiting, IpStream, IpAccept PROVE IpTypes' /\ IpWaiting' /\ IpStream'
<1>0. ipInstance'.by = 0 /\ UNCHANGED <<ipMsgs, ipGot, ipConn, ipCast>> /\ ipPipe \in Seq(IpEnds) /\ Len(ipPipe) \in Nat
  BY DEF IpAccept, IpNoInstance, IpTypes, ipClientVars
<1>1. CASE IpLockFree /\ ipClients' = ipClients \union {ipInstance.by} /\ UNCHANGED ipPipe
  <2>1. ipClients' = ipClients \union {ipInstance.by} /\ ipPipe' = ipPipe /\ IpLockFree
    BY <1>1
  <2>2. ipCast = IpNoCast /\ ipCast.msg = 0 /\ ipCast.left = {} /\ ipCast.kept = {}
    BY <2>1 DEF IpLockFree, IpNoCast
  <2>3. IpTypes'
    BY <1>0, <2>1, <2>2 DEF IpTypes, IpWaiting
  <2>4. IpWaiting'
    BY <1>0, <2>1 DEF IpWaiting
  <2>5. IpStream'
    <3>1. CASE ipConn = 0
      BY <1>0, <3>1 DEF IpStream, IpNoGap
    <3>2. CASE ipConn # 0 /\ ipConn \in ipClients
      BY <1>0, <2>1, <2>2, <3>2 DEF IpStream, IpNoGap
    <3>3. CASE ipConn # 0 /\ ipConn \notin ipClients
      <4>1. ipConn = ipInstance.by => Len(ipGot) = 0 /\ Len(ipPipe[ipConn].down) = 0
        BY <3>3 DEF IpWaiting
      <4>2. ipConn = ipInstance.by => IpUpTo(ipGot, ipPipe[ipConn].down, ipMsgs)
        BY <4>1 DEF IpUpTo
      <4> QED BY <1>0, <2>1, <2>2, <3>3, <4>2 DEF IpStream, IpNoGap
    <3> QED BY <3>1, <3>2, <3>3
  <2> QED BY <2>3, <2>4, <2>5
<1>2. CASE /\ UNCHANGED ipClients
           /\ ipPipe' = [c \in DOMAIN ipPipe |-> [ipPipe[c] EXCEPT !.server = @ /\ c # ipInstance.by]]
  <2>1. ipPipe' = [c \in DOMAIN ipPipe |-> [ipPipe[c] EXCEPT !.server = @ /\ c \notin {ipInstance.by}]] /\ ipClients' = ipClients
    BY <1>2
  <2>2. /\ ipPipe' \in Seq(IpEnds) /\ Len(ipPipe') = Len(ipPipe)
        /\ \A c \in 1 .. Len(ipPipe) : ipPipe'[c].down = ipPipe[c].down
    BY <1>0, <2>1, IpClosed
  <2> QED BY <1>0, <2>1, <2>2, IpFrame
<1> QED BY <1>1, <1>2 DEF IpAccept

\* stop() closes the pipes of the clients and forgets them.
LEMMA IpStopCloseStep == ASSUME IpTypes, IpWaiting, IpStream, IpStopClose PROVE IpTypes' /\ IpWaiting' /\ IpStream'
<1>0. /\ UNCHANGED <<ipMsgs, ipGot, ipConn, ipCast, ipInstance>> /\ ipClients' = {}
      /\ ipPipe \in Seq(IpEnds) /\ Len(ipPipe) \in Nat
  BY DEF IpStopClose, IpTypes, ipClientVars
<1>1. /\ ipPipe' \in Seq(IpEnds) /\ Len(ipPipe') = Len(ipPipe)
      /\ \A c \in 1 .. Len(ipPipe) : ipPipe'[c].down = ipPipe[c].down
  BY <1>0, IpClosed DEF IpStopClose
<1>2. ipCast = IpNoCast /\ ipCast.msg = 0 /\ ipCast.left = {} /\ ipCast.kept = {}
  BY DEF IpStopClose, IpLockFree, IpNoCast
<1>3. IpTypes'
  BY <1>0, <1>1, <1>2 DEF IpTypes
<1>4. IpWaiting'
  <2>1. ipInstance.by # 0 => ipInstance.by \in 1 .. Len(ipPipe)
    BY <1>0 DEF IpWaiting
  <2> QED BY <1>0, <1>1, <2>1 DEF IpWaiting
<1>5. IpStream'
  <2>1. IpNoGap'
    BY <1>0 DEF IpStream, IpNoGap
  <2>2. ipConn # 0 => ipPipe'[ipConn].down = ipPipe[ipConn].down
    BY <1>0, <1>1 DEF IpTypes
  <2> QED BY <1>0, <1>2, <2>1, <2>2 DEF IpStream
<1> QED BY <1>3, <1>4, <1>5

\* A broadcast begins: every client is one behind.
LEMMA IpBroadcastStep == ASSUME IpTypes, IpWaiting, IpStream, IpBroadcast PROVE IpTypes' /\ IpWaiting' /\ IpStream'
<1>0. /\ UNCHANGED <<ipGot, ipConn, ipInstance, ipClients, ipPipe>> /\ ipMsgs' = ipMsgs + 1 /\ ipMsgs \in Nat
      /\ ipCast' = [msg |-> ipMsgs + 1, left |-> ipClients, kept |-> {}]
  BY DEF IpBroadcast, IpTypes, ipClientVars
<1>1. ipCast'.msg = ipMsgs + 1 /\ ipCast'.left = ipClients /\ ipCast'.kept = {} /\ DOMAIN ipCast' = {"msg", "left", "kept"}
  BY <1>0
<1>2. ipCast.msg = 0
  BY DEF IpBroadcast, IpLockFree, IpNoCast
<1>3. ipMsgs + 1 # 0 /\ (ipMsgs + 1) - 1 = ipMsgs /\ ipMsgs + 1 \in Nat
  BY <1>0
<1>4. IpTypes'
  BY <1>0, <1>1, <1>3 DEF IpTypes
<1>5. IpWaiting'
  BY <1>0 DEF IpWaiting
<1>6. IpStream'
  BY <1>0, <1>1, <1>2, <1>3 DEF IpStream, IpNoGap
<1> QED BY <1>4, <1>5, <1>6

\* It ends: the clients that were kept are up to date.
LEMMA IpCastEndsStep == ASSUME IpTypes, IpWaiting, IpStream, IpCastEnds PROVE IpTypes' /\ IpWaiting' /\ IpStream'
<1>0. UNCHANGED <<ipGot, ipConn, ipInstance, ipMsgs, ipPipe>> /\ ipClients' = ipCast.kept /\ ipCast' = IpNoCast
  BY DEF IpCastEnds, ipClientVars
<1>1. ipCast'.msg = 0 /\ ipCast'.left = {} /\ ipCast'.kept = {} /\ DOMAIN ipCast' = {"msg", "left", "kept"}
  BY <1>0 DEF IpNoCast
<1>2. IpTypes'
  BY <1>0, <1>1 DEF IpTypes
<1>3. IpWaiting'
  BY <1>0 DEF IpWaiting, IpTypes
<1>4. IpStream'
  BY <1>0, <1>1 DEF IpStream, IpNoGap
<1> QED BY <1>2, <1>3, <1>4

\* One message more.
LEMMA IpOneMore ==
  ASSUME NEW got \in Seq(Nat), NEW down \in Seq(Nat), NEW n \in Nat, IpChain(got, down), IpUpTo(got, down, n - 1)
  PROVE  IpChain(got, Append(down, n)) /\ IpUpTo(got, Append(down, n), n)
<1>1. PICK d, k, m : d = Append(down, n) /\ k = Len(down) /\ m = Len(got)
  OBVIOUS
<1>2. /\ k \in Nat /\ m \in Nat /\ Len(d) = k + 1 /\ d[k + 1] = n
      /\ \A i \in 1 .. k : d[i] = down[i] /\ down[i] \in Nat
      /\ \A i \in 1 .. m : got[i] \in Nat
  BY <1>1, AppendProperties
<1>3. /\ (k > 0 => down[k] = n - 1) /\ (k = 0 /\ m > 0 => got[m] = n - 1)
      /\ (m > 0 /\ k > 0 => down[1] = got[m] + 1)
      /\ \A i \in 1 .. k - 1 : down[i + 1] = down[i] + 1
      /\ \A i \in 1 .. m - 1 : got[i + 1] = got[i] + 1
  BY <1>1 DEF IpChain, IpUpTo
<1>4. ASSUME NEW i \in 1 .. (k + 1) - 1 PROVE d[i + 1] = d[i] + 1
  <2>1. CASE i = k
    BY <1>2, <1>3, <2>1
  <2>2. CASE i # k
    <3>1. i \in 1 .. k - 1 /\ i \in 1 .. k /\ i + 1 \in 1 .. k
      BY <1>2, <2>2
    <3> QED BY <1>2, <1>3, <3>1
  <2> QED BY <2>1, <2>2
<1>5. m > 0 => d[1] = got[m] + 1
  <2>1. CASE k = 0
    BY <1>2, <1>3, <2>1
  <2>2. CASE k # 0
    <3>1. 1 \in 1 .. k /\ k > 0
      BY <1>2, <2>2
    <3> QED BY <1>2, <1>3, <3>1
  <2> QED BY <2>1, <2>2
<1>6. IpChain(got, d)
  BY <1>1, <1>2, <1>3, <1>4, <1>5 DEF IpChain
<1>7. IpUpTo(got, d, n)
  BY <1>1, <1>2 DEF IpUpTo
<1> QED BY <1>1, <1>6, <1>7

\* A pipe is written to: its client is up to date, or is not kept.
LEMMA IpWriteStep ==
  ASSUME IpTypes, IpWaiting, IpStream, NEW c, IpWrite(c) PROVE IpTypes' /\ IpWaiting' /\ IpStream'
<1>0. /\ UNCHANGED <<ipGot, ipConn, ipInstance, ipMsgs, ipClients>> /\ c \in ipCast.left
      /\ ipPipe \in Seq(IpEnds) /\ Len(ipPipe) \in Nat /\ DOMAIN ipPipe = 1 .. Len(ipPipe) /\ ipMsgs \in Nat
  BY DEF IpWrite, IpTypes, ipClientVars
<1>1. PICK kept : kept = IF IpKeeps(c) THEN ipCast.kept \union {c} ELSE ipCast.kept
  OBVIOUS
<1>2. /\ DOMAIN ipCast' = {"msg", "left", "kept"} /\ ipCast'.msg = ipCast.msg /\ ipCast'.left = ipCast.left \ {c} /\ ipCast'.kept = kept
  BY <1>1 DEF IpWrite, IpTypes
<1>3. ipCast.msg # 0 /\ ipCast.msg = ipMsgs /\ ipMsgs > 0
  BY <1>0 DEF IpTypes, IpNoCast
<1>4. /\ ipPipe' \in Seq(IpEnds) /\ Len(ipPipe') = Len(ipPipe)
      /\ \A d \in 1 .. Len(ipPipe) : d # c => ipPipe'[d].down = ipPipe[d].down
      /\ c \in 1 .. Len(ipPipe) => ipPipe'[c].down = IF ipPipe[c].client THEN Append(ipPipe[c].down, ipMsgs) ELSE ipPipe[c].down
  <2>1. DOMAIN ipPipe' = 1 .. Len(ipPipe)
    BY <1>0 DEF IpWrite
  <2>2. \A d \in 1 .. Len(ipPipe) : d # c => ipPipe'[d] = ipPipe[d]
    BY <1>0 DEF IpWrite
  <2>3. ASSUME c \in 1 .. Len(ipPipe)
        PROVE  /\ ipPipe'[c] \in IpEnds
               /\ ipPipe'[c].down = IF ipPipe[c].client THEN Append(ipPipe[c].down, ipMsgs) ELSE ipPipe[c].down
    <3>1. PICK p : p = ipPipe[c]
      OBVIOUS
    <3>2. p \in IpEnds /\ p.down \in Seq(Nat)
      <4>1. p \in IpEnds
        BY <1>0, <2>3, <3>1
      <4> QED BY <4>1 DEF IpEnds
    <3>3. PICK b \in BOOLEAN : b = (p.server /\ IpKeeps(c))
      OBVIOUS
    <3>4. PICK d : d = IF p.client THEN Append(p.down, ipMsgs) ELSE p.down
      OBVIOUS
    <3>5. d \in Seq(Nat)
      BY <1>0, <3>2, <3>4
    <3>6. ipPipe'[c] = [[p EXCEPT !.down = d] EXCEPT !.server = b]
      BY <1>0, <1>3, <2>3, <3>1, <3>3, <3>4 DEF IpWrite
    <3>7. [p EXCEPT !.down = d] \in IpEnds /\ [p EXCEPT !.down = d].down = d
      BY <3>2, <3>5 DEF IpEnds
    <3>8. PICK q : q = [p EXCEPT !.down = d]
      OBVIOUS
    <3>9. [q EXCEPT !.server = b] \in IpEnds /\ [q EXCEPT !.server = b].down = q.down
      BY <3>7, <3>8 DEF IpEnds
    <3> QED BY <3>1, <3>4, <3>6, <3>7, <3>8, <3>9
  <2>4. ipPipe' \in [1 .. Len(ipPipe) -> IpEnds]
    <3>1. ASSUME NEW d \in 1 .. Len(ipPipe) PROVE ipPipe'[d] \in IpEnds
      <4>1. ipPipe[d] \in IpEnds
        BY <1>0
      <4> QED BY <2>2, <2>3, <4>1
    <3> QED BY <1>0, <2>1, <3>1 DEF IpWrite
  <2> QED BY <1>0, <2>2, <2>3, <2>4
<1>5. IpTypes'
  BY <1>0, <1>1, <1>2, <1>3, <1>4 DEF IpTypes
<1>6. IpWaiting'
  <2>1. ipInstance.by # 0 => ipInstance.by \in 1 .. Len(ipPipe) /\ ipInstance.by # c
    BY <1>0 DEF IpWaiting, IpTypes
  <2> QED BY <1>0, <1>4, <2>1 DEF IpWaiting
<1>7. IpStream'
  <2>0. IpNoGap'
    BY <1>0 DEF IpStream, IpNoGap
  <2>1. CASE ipConn = 0
    BY <1>0, <2>0, <2>1 DEF IpStream
  <2>2. CASE ipConn # 0 /\ ipConn # c
    <3>1. ipPipe'[ipConn].down = ipPipe[ipConn].down
      BY <1>0, <1>4, <2>2 DEF IpTypes
    <3>2. (ipConn \in ipCast'.left <=> ipConn \in ipCast.left) /\ (ipConn \in ipCast'.kept <=> ipConn \in ipCast.kept)
      BY <1>1, <1>2, <2>2
    <3> QED BY <1>0, <1>2, <1>3, <2>0, <2>2, <3>1, <3>2 DEF IpStream
  <2>3. CASE ipConn # 0 /\ ipConn = c
    <3>1. PICK down : down = ipPipe[c].down
      OBVIOUS
    <3>2. c \in 1 .. Len(ipPipe) /\ down \in Seq(Nat) /\ ipGot \in Seq(Nat)
      <4>1. c \in 1 .. Len(ipPipe)
        BY <1>0, <2>3 DEF IpTypes
      <4>2. ipPipe[c] \in IpEnds
        BY <1>0, <4>1
      <4> QED BY <3>1, <4>1, <4>2 DEF IpEnds, IpTypes
    <3>3. IpChain(ipGot, down) /\ IpUpTo(ipGot, down, ipMsgs - 1)
      BY <1>0, <2>3, <3>1 DEF IpStream
    <3>4. IpChain(ipGot, Append(down, ipMsgs)) /\ IpUpTo(ipGot, Append(down, ipMsgs), ipMsgs)
      BY <1>0, <3>2, <3>3, IpOneMore
    <3>5. c \notin ipCast'.left /\ (c \in ipCast'.kept => ipPipe[c].client)
      BY <1>0, <1>1, <1>2 DEF IpTypes, IpKeeps
    <3>6. ipPipe'[c].down = IF ipPipe[c].client THEN Append(down, ipMsgs) ELSE down
      BY <1>4, <3>1, <3>2
    <3>7. CASE ipPipe[c].client
      BY <1>0, <1>2, <1>3, <2>0, <2>3, <3>4, <3>5, <3>6, <3>7 DEF IpStream
    <3>8. CASE ~ipPipe[c].client
      BY <1>0, <1>2, <1>3, <2>0, <2>3, <3>3, <3>5, <3>6, <3>8 DEF IpStream
    <3> QED BY <3>7, <3>8
  <2> QED BY <2>1, <2>2, <2>3
<1> QED BY <1>5, <1>6, <1>7

\* The client changes its end of its pipe, or the count of what it has sent.
LEMMA IpSentStep ==
  ASSUME IpTypes, NEW k, NEW p, k \in 1 .. Len(ipPipe), p \in IpEnds, p.down = ipPipe[k].down,
         ipPipe' = [ipPipe EXCEPT ![k] = p]
  PROVE  /\ ipPipe' \in Seq(IpEnds) /\ Len(ipPipe') = Len(ipPipe)
         /\ \A c \in 1 .. Len(ipPipe) : ipPipe'[c].down = ipPipe[c].down
  BY DEF IpTypes

\* A pipe that was just opened is empty.
LEMMA IpOpenedIs == \A client \in BOOLEAN : IpOpened(client) \in IpEnds /\ Len(IpOpened(client).down) = 0
<1> TAKE client \in BOOLEAN
<1>1. <<>> \in Seq(Nat) /\ Len(<<>>) = 0
  OBVIOUS
<1>2. IpOpened(client).down = <<>>
  BY DEF IpOpened
<1>3. IpOpened(client) \in IpEnds
  BY <1>1 DEF IpOpened, IpEnds
<1> QED BY <1>1, <1>2, <1>3

\* A connection is made: a pipe that is empty, and nothing received.
LEMMA IpConnectStep == ASSUME IpTypes, IpWaiting, IpStream, IpConnect PROVE IpTypes' /\ IpWaiting' /\ IpStream'
<1>0. PICK n : n = Len(ipPipe) + 1
  OBVIOUS
<1>1. PICK old \in {ipPipe, IpLeave}, client \in BOOLEAN : ipPipe' = Append(old, IpOpened(client))
  BY DEF IpConnect
<1>2. PICK e : e = IpOpened(client) /\ e \in IpEnds /\ Len(e.down) = 0
  BY <1>1, IpOpenedIs
<1>3. /\ UNCHANGED <<ipMsgs, ipClients, ipCast>> /\ ipConn' = n /\ ipInstance' = IpTaken(n) /\ ipGot' = <<>>
  BY <1>0 DEF IpConnect
<1>4. ipPipe \in Seq(IpEnds) /\ Len(ipPipe) \in Nat /\ old \in Seq(IpEnds) /\ Len(old) = Len(ipPipe)
  BY <1>1, IpLeft DEF IpTypes
<1>5. ipPipe' \in Seq(IpEnds) /\ Len(ipPipe') = n /\ ipPipe'[n] = e
  BY <1>0, <1>1, <1>2, <1>4, AppendProperties
<1>6. n \in Nat /\ n # 0 /\ n \notin 0 .. Len(ipPipe) /\ \A i \in 0 .. Len(ipPipe) : i \in 0 .. n
  BY <1>0, <1>4
<1>7. ipGot' \in Seq(Nat) /\ Len(ipGot') = 0
  BY <1>3
<1>8. ipClients \subseteq 0 .. n /\ n \notin ipClients
  BY <1>6 DEF IpTypes
<1>9. IpTypes'
  BY <1>3, <1>5, <1>6, <1>7, <1>8 DEF IpTypes
<1>10. IpWaiting'
  <2>1. ipInstance'.by = n
    BY <1>3 DEF IpTaken
  <2> QED BY <1>2, <1>3, <1>5, <1>6, <1>7, <1>8, <2>1 DEF IpWaiting
<1>11. IpStream'
  <2>1. IpNoGap'
    BY <1>7 DEF IpNoGap
  <2>2. IpChain(ipGot', ipPipe'[n].down)
    BY <1>2, <1>5, <1>7 DEF IpChain
  <2>3. n \notin ipClients' /\ n \notin ipCast'.left /\ n \notin ipCast'.kept
    BY <1>3, <1>8 DEF IpTypes
  <2> QED BY <1>3, <2>1, <2>2, <2>3 DEF IpStream
<1> QED BY <1>9, <1>10, <1>11

\* Another program connects: an empty pipe more.
LEMMA IpOtherConnectsStep ==
  ASSUME IpTypes, IpWaiting, IpStream, IpOtherConnects PROVE IpTypes' /\ IpWaiting' /\ IpStream'
<1>0. PICK n : n = Len(ipPipe) + 1
  OBVIOUS
<1>1. PICK client \in BOOLEAN : client = TRUE
  OBVIOUS
<1> DEFINE e == IpOpened(client)
<1>e. e \in IpEnds /\ Len(e.down) = 0
  BY IpOpenedIs
<1> HIDE DEF e
<1>2. /\ UNCHANGED <<ipMsgs, ipClients, ipCast, ipConn, ipGot>> /\ ipInstance' = IpTaken(n) /\ ipPipe' = Append(ipPipe, e)
  BY <1>0, <1>1 DEF IpOtherConnects, ipClientVars, e
<1>3. ipPipe \in Seq(IpEnds) /\ Len(ipPipe) \in Nat
  BY DEF IpTypes
<1>4. /\ ipPipe' \in Seq(IpEnds) /\ Len(ipPipe') = n /\ ipPipe'[n] = e
      /\ \A i \in 1 .. Len(ipPipe) : ipPipe'[i] = ipPipe[i]
  <2>1. /\ Append(ipPipe, e) \in Seq(IpEnds) /\ Len(Append(ipPipe, e)) = Len(ipPipe) + 1
        /\ Append(ipPipe, e)[Len(ipPipe) + 1] = e
        /\ \A i \in 1 .. Len(ipPipe) : Append(ipPipe, e)[i] = ipPipe[i]
    BY <1>e, <1>3, AppendProperties
  <2> QED BY <1>0, <1>2, <2>1
<1>5. n \in Nat /\ n # 0 /\ n \notin 0 .. Len(ipPipe) /\ \A i \in 0 .. Len(ipPipe) : i \in 0 .. n
  BY <1>0, <1>3
<1>6. ipClients \subseteq 0 .. n /\ n \notin ipClients /\ ipConn # n
  BY <1>5 DEF IpTypes
<1>7. IpTypes'
  BY <1>2, <1>4, <1>5, <1>6 DEF IpTypes
<1>8. IpWaiting'
  <2>1. ipInstance'.by = n /\ ipConn' # n /\ ipClients' = ipClients
    BY <1>2, <1>6 DEF IpTaken
  <2>2. n \in 0 .. Len(ipPipe') /\ Len(ipPipe'[n].down) = 0
    BY <1>e, <1>4, <1>5
  <2> QED BY <1>6, <2>1, <2>2 DEF IpWaiting
<1>9. IpStream'
  <2>1. ipConn # 0 => ipPipe'[ipConn].down = ipPipe[ipConn].down
    BY <1>3, <1>4 DEF IpTypes
  <2> QED BY <1>2, <2>1 DEF IpStream, IpNoGap
<1> QED BY <1>7, <1>8, <1>9

\* What another program reads or leaves is not this client's.
LEMMA IpOtherStepKept ==
  ASSUME IpTypes, IpWaiting, IpStream, NEW k \in DOMAIN ipPipe, IpOtherReads(k) \/ IpOtherLeaves(k)
  PROVE  IpTypes' /\ IpWaiting' /\ IpStream'
<1>0. /\ UNCHANGED <<ipMsgs, ipClients, ipCast, ipConn, ipGot, ipInstance>> /\ k # ipConn
      /\ ipPipe \in Seq(IpEnds) /\ Len(ipPipe) \in Nat /\ k \in 1 .. Len(ipPipe)
  BY DEF IpOtherReads, IpOtherLeaves, IpTypes, ipServerVars, ipClientVars
<1>1. PICK p : p = ipPipe[k]
  OBVIOUS
<1>2. p \in IpEnds
  BY <1>0, <1>1
<1>3. CASE IpOtherReads(k)
  <2>1. p.down # <<>> /\ ipPipe' = [ipPipe EXCEPT ![k] = [p EXCEPT !.down = Tail(p.down)]]
    BY <1>1, <1>3 DEF IpOtherReads
  <2>2. p.down \in Seq(Nat) /\ Len(p.down) # 0 /\ Tail(p.down) \in Seq(Nat)
    BY <1>2, <2>1 DEF IpEnds
  <2>3. [p EXCEPT !.down = Tail(p.down)] \in IpEnds
    BY <1>2, <2>2 DEF IpEnds
  <2>4. /\ ipPipe' \in Seq(IpEnds) /\ Len(ipPipe') = Len(ipPipe)
        /\ \A c \in 1 .. Len(ipPipe) : c # k => ipPipe'[c] = ipPipe[c]
    BY <1>0, <2>1, <2>3
  <2>5. k # ipInstance.by
    BY <1>0, <1>1, <2>2 DEF IpWaiting
  <2> QED BY <1>0, <2>4, <2>5, IpFrame
<1>4. CASE IpOtherLeaves(k)
  <2>1. ipPipe' = [ipPipe EXCEPT ![k] = [p EXCEPT !.client = FALSE]]
    BY <1>1, <1>4 DEF IpOtherLeaves
  <2>2. [p EXCEPT !.client = FALSE] \in IpEnds /\ [p EXCEPT !.client = FALSE].down = p.down
    BY <1>2 DEF IpEnds
  <2>3. /\ ipPipe' \in Seq(IpEnds) /\ Len(ipPipe') = Len(ipPipe)
        /\ \A c \in 1 .. Len(ipPipe) : ipPipe'[c].down = ipPipe[c].down
    BY <1>0, <1>1, <2>1, <2>2, IpSentStep
  <2> QED BY <1>0, <2>3, IpFrame
<1> QED BY <1>3, <1>4

\* The pipe is left: what was received stays as it is.
LEMMA IpDisconnectStep == ASSUME IpTypes, IpWaiting, IpStream, IpDisconnect PROVE IpTypes' /\ IpWaiting' /\ IpStream'
<1>1. UNCHANGED <<ipMsgs, ipClients, ipCast, ipInstance, ipGot>> /\ ipConn' = 0 /\ ipPipe' = IpLeave
  BY DEF IpDisconnect, ipServerVars
<1>2. ipPipe \in Seq(IpEnds) /\ Len(ipPipe) \in Nat
  BY DEF IpTypes
<1>3. /\ ipPipe' \in Seq(IpEnds) /\ Len(ipPipe') = Len(ipPipe)
      /\ \A c \in 1 .. Len(ipPipe) : ipPipe'[c].down = ipPipe[c].down
  BY <1>1, <1>2, IpLeft
<1>4. IpTypes'
  BY <1>1, <1>2, <1>3 DEF IpTypes
<1>5. IpWaiting'
  <2>1. ipInstance.by # 0 => ipInstance.by \in 1 .. Len(ipPipe)
    BY <1>2 DEF IpWaiting
  <2> QED BY <1>1, <1>3, <2>1 DEF IpWaiting
<1>6. IpStream'
  BY <1>1 DEF IpStream, IpNoGap
<1> QED BY <1>4, <1>5, <1>6

\* A message that is received is the next one.
LEMMA IpNextOne ==
  ASSUME NEW got \in Seq(Nat), NEW down \in Seq(Nat), Len(down) > 0, IpChain(got, down)
  PROVE  /\ IpChain(Append(got, Head(down)), Tail(down))
         /\ \A n : IpUpTo(got, down, n) => IpUpTo(Append(got, Head(down)), Tail(down), n)
<1>1. PICK g, d, k, m : g = Append(got, Head(down)) /\ d = Tail(down) /\ k = Len(down) /\ m = Len(got)
  OBVIOUS
<1>2. /\ k \in Nat /\ m \in Nat /\ k > 0 /\ Len(g) = m + 1 /\ g[m + 1] = down[1]
      /\ \A i \in 1 .. m : g[i] = got[i]
  <2>1. Head(down) = down[1] /\ Head(down) \in Nat
    OBVIOUS
  <2> QED BY <1>1, <2>1, AppendProperties
<1>3. Len(d) = k - 1 /\ \A i \in 1 .. k - 1 : d[i] = down[i + 1]
  BY <1>1, HeadTailProperties
<1>4. /\ (m > 0 => down[1] = got[m] + 1)
      /\ \A i \in 1 .. k - 1 : down[i + 1] = down[i] + 1
      /\ \A i \in 1 .. m - 1 : got[i + 1] = got[i] + 1
  BY <1>1, <1>2 DEF IpChain
<1>5. ASSUME NEW i \in 1 .. (m + 1) - 1 PROVE g[i + 1] = g[i] + 1
  <2>1. CASE i = m
    BY <1>2, <1>4, <2>1
  <2>2. CASE i # m
    <3>0. m \in Nat /\ i \in 1 .. (m + 1) - 1
      BY <1>2
    <3>1. i \in 1 .. m - 1 /\ i \in 1 .. m /\ i + 1 \in 1 .. m
      BY ONLY <3>0, <2>2
    <3> QED BY <1>2, <1>4, <3>1
  <2> QED BY <2>1, <2>2
<1>6. ASSUME NEW i \in 1 .. (k - 1) - 1 PROVE d[i + 1] = d[i] + 1
  <2>1. i \in 1 .. k - 1 /\ i + 1 \in 1 .. k - 1
    BY <1>2
  <2> QED BY <1>3, <1>4, <2>1
<1>7. k - 1 > 0 => d[1] = g[m + 1] + 1
  <2> SUFFICES ASSUME k - 1 > 0 PROVE d[1] = g[m + 1] + 1
    OBVIOUS
  <2>1. 1 \in 1 .. k - 1
    BY <1>2
  <2> QED BY <1>2, <1>3, <1>4, <2>1
<1>8. IpChain(g, d)
  BY <1>2, <1>3, <1>5, <1>6, <1>7 DEF IpChain
<1>9. ASSUME NEW n, IpUpTo(got, down, n) PROVE IpUpTo(g, d, n)
  <2>1. down[k] = n
    BY <1>1, <1>2, <1>9 DEF IpUpTo
  <2>2. CASE k = 1
    BY <1>2, <1>3, <2>1, <2>2 DEF IpUpTo
  <2>3. CASE k # 1
    <3>1. k - 1 \in 1 .. k - 1 /\ (k - 1) + 1 = k /\ k - 1 # 0
      BY <1>2, <2>3
    <3>2. d[k - 1] = n
      BY <1>3, <2>1, <3>1
    <3> QED BY <1>3, <3>1, <3>2 DEF IpUpTo
  <2> QED BY <2>2, <2>3
<1> QED BY <1>1, <1>8, <1>9

\* The listener receives a message.
LEMMA IpReadStep ==
  ASSUME IpTypes, IpWaiting, IpStream, ipConn # 0, IpRead PROVE IpTypes' /\ IpWaiting' /\ IpStream'
<1>0. /\ UNCHANGED <<ipMsgs, ipClients, ipCast, ipInstance, ipConn>>
      /\ ipPipe \in Seq(IpEnds) /\ Len(ipPipe) \in Nat /\ DOMAIN ipPipe = 1 .. Len(ipPipe) /\ ipConn \in 1 .. Len(ipPipe)
      /\ ipGot \in Seq(Nat)
  BY DEF IpRead, IpTypes, ipServerVars
<1>1. PICK p, down : p = ipPipe[ipConn] /\ down = ipPipe[ipConn].down
  OBVIOUS
<1>2. p \in IpEnds
  BY <1>0, <1>1
<1>3. down \in Seq(Nat) /\ down = p.down
  BY <1>1, <1>2 DEF IpEnds
<1>4. Len(down) > 0 /\ Head(down) \in Nat /\ Tail(down) \in Seq(Nat)
  BY <1>1, <1>3 DEF IpRead
<1>5. [p EXCEPT !.down = Tail(down)] \in IpEnds /\ [p EXCEPT !.down = Tail(down)].down = Tail(down)
  BY <1>2, <1>4 DEF IpEnds
<1>6. ipPipe' = [ipPipe EXCEPT ![ipConn] = [p EXCEPT !.down = Tail(down)]] /\ ipGot' = Append(ipGot, Head(down))
  BY <1>1, <1>3 DEF IpRead
<1>7. /\ ipPipe' \in Seq(IpEnds) /\ Len(ipPipe') = Len(ipPipe) /\ ipPipe'[ipConn].down = Tail(down)
      /\ \A c \in 1 .. Len(ipPipe) : c # ipConn => ipPipe'[c].down = ipPipe[c].down
  BY <1>0, <1>5, <1>6
<1>8. ipGot' \in Seq(Nat)
  BY <1>0, <1>4, <1>6
<1>9. IpTypes'
  BY <1>0, <1>7, <1>8 DEF IpTypes
<1>10. IpWaiting'
  <2>1. ipInstance.by # 0 => ipInstance.by \in 1 .. Len(ipPipe) /\ ipInstance.by # ipConn
    BY <1>0, <1>1, <1>4 DEF IpWaiting
  <2> QED BY <1>0, <1>7, <2>1 DEF IpWaiting
<1>11. IpStream'
  <2>1. IpChain(ipGot, down)
    BY <1>1 DEF IpStream
  <2>2. /\ IpChain(ipGot', Tail(down))
        /\ \A n : IpUpTo(ipGot, down, n) => IpUpTo(ipGot', Tail(down), n)
    BY <1>0, <1>3, <1>4, <1>6, <2>1, IpNextOne
  <2>3. IpNoGap'
    BY <2>2 DEF IpChain, IpNoGap
  <2> QED BY <1>0, <1>1, <1>7, <2>2, <2>3 DEF IpStream
<1> QED BY <1>9, <1>10, <1>11

\* ping() counts what it has sent.
LEMMA IpPingStep == ASSUME IpTypes, IpWaiting, IpStream, IpPing PROVE IpTypes' /\ IpWaiting' /\ IpStream'
<1>0. /\ UNCHANGED <<ipMsgs, ipClients, ipCast, ipInstance, ipConn, ipGot>>
      /\ ipPipe \in Seq(IpEnds) /\ Len(ipPipe) \in Nat /\ ipConn \in 1 .. Len(ipPipe)
  BY DEF IpPing, IpTypes, ipServerVars
<1>1. CASE ipPipe' = ipPipe
  BY <1>0, <1>1, IpFrame
<1>2. CASE ipPipe' # ipPipe
  <2>1. PICK p, up : p = ipPipe[ipConn] /\ up = p.up + 1
    OBVIOUS
  <2>2. p \in IpEnds
    BY <1>0, <2>1
  <2>3. up \in Nat
    BY <2>1, <2>2 DEF IpEnds
  <2>4. [p EXCEPT !.up = up] \in IpEnds /\ [p EXCEPT !.up = up].down = p.down
    BY <2>2, <2>3 DEF IpEnds
  <2>5. ipPipe' = [ipPipe EXCEPT ![ipConn] = [p EXCEPT !.up = up]]
    BY <1>2, <2>1 DEF IpPing
  <2>6. /\ ipPipe' \in Seq(IpEnds) /\ Len(ipPipe') = Len(ipPipe)
        /\ \A c \in 1 .. Len(ipPipe) : ipPipe'[c].down = ipPipe[c].down
    BY <1>0, <2>1, <2>4, <2>5, IpSentStep
  <2> QED BY <1>0, <2>6, IpFrame
<1> QED BY <1>1, <1>2

\* What every step of the server, its callers and the client keeps.
LEMMA IpStepInv ==
  IpTypes /\ IpWaiting /\ IpStream /\ IpListening /\ [IpNext]_ipVars => (IpTypes /\ IpWaiting /\ IpStream)'
<1> SUFFICES ASSUME IpTypes, IpWaiting, IpStream, IpListening, [IpNext]_ipVars PROVE (IpTypes /\ IpWaiting /\ IpStream)'
  OBVIOUS
<1>0. ipPipe \in Seq(IpEnds)
  BY DEF IpTypes
<1>1. CASE IpStart \/ IpTop \/ IpStopFlag \/ IpAskCodec \/ IpPingFails \/ IpLost \/ UNCHANGED ipVars
  <2>1. UNCHANGED <<ipMsgs, ipGot, ipConn, ipCast, ipClients, ipPipe, ipInstance>>
    BY <1>1 DEF IpStart, IpTop, IpStopFlag, IpAskCodec, IpPingFails, IpLost, ipVars, ipServerVars, ipClientVars
  <2> QED BY <1>0, <2>1, IpFrame
<1>2. CASE IpCreate \/ IpStopDummy
  <2>1. UNCHANGED <<ipMsgs, ipGot, ipConn, ipCast, ipClients, ipPipe>>
    BY <1>2 DEF IpCreate, IpStopDummy, ipClientVars
  <2>2. ipInstance'.by \in {0, ipInstance.by}
    BY <1>2 DEF IpCreate, IpStopDummy, IpFree, IpTaken
  <2> QED BY <1>0, <2>1, <2>2, IpFrame
<1>3. CASE IpRead
  <2>1. ipConn # 0
    BY <1>3 DEF IpListening, IpRead
  <2> QED BY <1>3, <2>1, IpReadStep
<1>4. CASE IpAccept \/ IpStopClose \/ IpBroadcast \/ IpCastEnds \/ IpConnect \/ IpDisconnect \/ IpPing \/ \E c \in ipCast.left : IpWrite(c)
  BY <1>4, IpAcceptStep, IpStopCloseStep, IpBroadcastStep, IpCastEndsStep, IpConnectStep, IpDisconnectStep, IpPingStep, IpWriteStep
<1>5. CASE IpDestroy
  <2>1. UNCHANGED <<ipMsgs, ipGot, ipConn, ipCast, ipClients, ipInstance>> /\ ipPipe' = IpLeave
    BY <1>5 DEF IpDestroy, ipServerVars
  <2> QED BY <1>0, <2>1, IpLeft, IpFrame
<1>6. CASE IpOtherStep
  BY <1>6, IpOtherConnectsStep, IpOtherStepKept DEF IpOtherStep
<1> QED BY <1>1, <1>2, <1>3, <1>4, <1>5, <1>6 DEF IpNext, IpServerStep, IpCastStep, IpListenStep, IpUserStep

\* The listener's thread: joined by disconnect(), left over by a loss.
LEMMA IpListeningStep == IpListening /\ [IpNext]_ipVars => IpListening'
<1> SUFFICES ASSUME IpListening, [IpNext]_ipVars PROVE IpListening'
  OBVIOUS
<1> USE DEF IpListening, IpTerminatedByLoss
<1>1. CASE IpConnect /\ ipUser # "terminated"
  <2>1. ipConn' = Len(ipPipe) + 1 /\ Len(ipPipe) < IpMaxConn
    BY <1>1 DEF IpConnect
  <2>2. CASE ipListener = "none"
    BY <1>1, <2>2 DEF IpConnect
  <2>3. CASE ipListener # "none"
    BY <1>1, <2>3 DEF IpConnect
  <2> QED BY <2>2, <2>3
<1>2. CASE IpDisconnect /\ ipUser # "terminated"
  BY <1>2 DEF IpDisconnect
<1>3. CASE IpDestroy /\ ipUser # "terminated"
  BY <1>3 DEF IpDestroy
<1>4. CASE (IpPing \/ IpPingFails) /\ ipUser # "terminated"
  BY <1>4 DEF IpPing, IpPingFails
<1>5. CASE (IpRead \/ IpLost) /\ ipUser # "terminated"
  BY <1>5 DEF IpRead, IpLost
<1>6. CASE UNCHANGED ipClientVars
  BY <1>6 DEF ipClientVars
<1>7. IpStart \/ IpTop \/ IpCreate \/ IpAccept \/ IpStopFlag \/ IpStopDummy \/ IpStopClose \/ IpBroadcast \/ IpCastEnds => UNCHANGED ipClientVars
  BY DEF IpStart, IpTop, IpCreate, IpAccept, IpStopFlag, IpStopDummy, IpStopClose, IpBroadcast, IpCastEnds
<1>8. (\E c \in ipCast.left : IpWrite(c)) \/ IpAskCodec \/ IpOtherStep \/ UNCHANGED ipVars => UNCHANGED ipClientVars
  BY DEF IpWrite, IpAskCodec, IpOtherStep, IpOtherConnects, IpOtherReads, IpOtherLeaves, ipVars
<1> QED BY <1>1, <1>2, <1>3, <1>4, <1>5, <1>6, <1>7, <1>8 DEF IpNext, IpServerStep, IpCastStep, IpListenStep, IpUserStep

\* The parts of an event up to the first text with a tab are its fields.
IpPartsAre(s, ev, cut, k) ==
  /\ \E S : s \in Seq(S)
  /\ (\A c \in cut : k < c) => Len(s) = k
  /\ \A i \in 1 .. k : (\A c \in cut : i < c) => i <= Len(s) /\ <<s[i]>> = ev[i]

\* One more field.
LEMMA IpOneField ==
  ASSUME NEW s, NEW ev, NEW cut, NEW k \in Nat, NEW f, cut \subseteq Nat, IpPartsAre(s, ev, cut, k), f = ev[k + 1],
         \E S : f \in Seq(S), (\A c \in cut : k + 1 < c) => \E x : f = <<x>>
  PROVE  IpPartsAre(s \o f, ev, cut, k + 1)
<1>1. PICK S : s \in Seq(S)
  BY DEF IpPartsAre
<1>2. PICK T : f \in Seq(T)
  OBVIOUS
<1>3. PICK U : U = S \union T
  OBVIOUS
<1>4. s \in Seq(U) /\ f \in Seq(U)
  BY <1>1, <1>2, <1>3
<1>5. PICK m, n : m = Len(s) /\ n = Len(f)
  OBVIOUS
<1>6. /\ s \o f \in Seq(U) /\ Len(s \o f) = m + n /\ m \in Nat /\ n \in Nat
      /\ \A i \in 1 .. m : (s \o f)[i] = s[i]
      /\ \A i \in 1 .. n : (s \o f)[m + i] = f[i]
  BY ONLY <1>4, <1>5, Joined
<1>7. ASSUME NEW i \in 1 .. k, \A c \in cut : i < c PROVE i <= m + n /\ <<(s \o f)[i]>> = ev[i]
  <2>1. i <= m /\ <<s[i]>> = ev[i]
    BY <1>5, <1>7 DEF IpPartsAre
  <2>2. i \in 1 .. m /\ i <= m + n
    BY <1>6, <2>1
  <2> QED BY <1>6, <2>1, <2>2
<1>8. ASSUME \A c \in cut : k + 1 < c PROVE m + n = k + 1 /\ <<(s \o f)[k + 1]>> = ev[k + 1]
  <2>1. PICK x : f = <<x>>
    BY <1>8
  <2>2. Len(<<x>>) = 1 /\ <<x>>[1] = x
    OBVIOUS
  <2>3. n = 1 /\ f[1] = x
    BY <1>5, <2>1, <2>2
  <2>4. ASSUME NEW c \in cut PROVE k < c
    <3>1. c \in Nat /\ k + 1 < c
      BY <1>8
    <3> QED BY ONLY <3>1, k \in Nat
  <2>5. m = k
    BY <1>5, <2>4 DEF IpPartsAre
  <2>6. (s \o f)[m + 1] = f[1]
    BY <1>6, <2>3
  <2> QED BY <2>1, <2>3, <2>5, <2>6
<1>9. ASSUME NEW i \in 1 .. k + 1, \A c \in cut : i < c PROVE i <= m + n /\ <<(s \o f)[i]>> = ev[i]
  <2>1. CASE i = k + 1
    BY <1>6, <1>8, <1>9, <2>1
  <2>2. CASE i # k + 1
    <3>1. i \in 1 .. k
      BY <2>2
    <3> QED BY <1>7, <1>9, <3>1
  <2> QED BY <2>1, <2>2
<1> QED BY <1>6, <1>8, <1>9 DEF IpPartsAre

\* deserialize_threat() reads the fields of an event up to the first text with
\* a tab as they were.
LEMMA IpReadBack ==
  ASSUME NEW cut, NEW empty, cut \subseteq IpTexts, empty \subseteq IpTexts, NEW i \in IpFields, \A c \in cut : i < c
  PROVE  IpDeserialize(IpSerialize(IpEvent(cut, empty)))[i] = IpEvent(cut, empty)[i]
<1>1. PICK ev : ev = IpEvent(cut, empty)
  OBVIOUS
<1>2. cut \subseteq Nat /\ \A c \in cut : 4 < c /\ c < 9
  BY DEF IpTexts
<1>3. ASSUME NEW k \in IpFields PROVE k \notin cut => ev[k] \in {<<"">>, <<"text">>, <<"1">>}
  BY <1>1, <1>3 DEF IpEvent
<1>4. ASSUME NEW k \in IpFields PROVE \E S : ev[k] \in Seq(S)
  <2>1. CASE k \in cut
    <3>1. ev[k] = <<"text", "text">>
      BY <1>1, <1>4, <2>1 DEF IpEvent
    <3>2. ev[k] \in Seq({"text"})
      BY <3>1
    <3> QED BY <3>2
  <2>2. CASE k \notin cut
    <3>1. ev[k] \in {<<"">>, <<"text">>, <<"1">>}
      BY <1>3, <1>4, <2>2
    <3>2. \A x : <<x>> \in Seq({x})
      OBVIOUS
    <3> QED BY <3>1, <3>2
  <2> QED BY <2>1, <2>2
<1>5. ASSUME NEW k \in IpFields, \A c \in cut : k < c PROVE \E x : ev[k] = <<x>>
  <2>1. k \in Nat /\ k \notin cut
    BY <1>2, <1>5 DEF IpFields
  <2> QED BY <1>3, <1>5, <2>1
<1> DEFINE Parts(s, k) == IpPartsAre(s, ev, cut, k)
<1>6. Parts(ev[1], 1)
  <2>1. PICK x : ev[1] = <<x>>
    <3>1. 1 \in IpFields /\ \A c \in cut : 1 < c
      BY <1>2 DEF IpFields
    <3> QED BY <1>5, <3>1
  <2>2. PICK f : f = <<x>>
    OBVIOUS
  <2>3. f \in Seq({x}) /\ Len(f) = 1 /\ f[1] = x
    BY <2>2
  <2>4. \A j \in 1 .. 1 : j <= Len(f) /\ <<f[j]>> = ev[j]
    <3>1. ASSUME NEW j \in 1 .. 1 PROVE j = 1
      OBVIOUS
    <3> QED BY <2>1, <2>3, <3>1
  <2> QED BY <2>1, <2>2, <2>3, <2>4 DEF IpPartsAre
<1>7. ASSUME NEW s, NEW k \in 1 .. 10, Parts(s, k) PROVE Parts(s \o ev[k + 1], k + 1)
  <2>1. k \in Nat /\ k + 1 \in IpFields
    BY DEF IpFields
  <2>2. \E S : ev[k + 1] \in Seq(S)
    BY <1>4, <2>1
  <2>3. (\A c \in cut : k + 1 < c) => \E x : ev[k + 1] = <<x>>
    BY <1>5, <2>1
  <2> QED BY ONLY <1>2, <1>7, <2>1, <2>2, <2>3, IpOneField
<1> HIDE DEF Parts
<1>8. \A s : /\ Parts(s, 1) => Parts(s \o ev[2], 2)
             /\ Parts(s, 2) => Parts(s \o ev[3], 3)
             /\ Parts(s, 3) => Parts(s \o ev[4], 4)
             /\ Parts(s, 4) => Parts(s \o ev[5], 5)
             /\ Parts(s, 5) => Parts(s \o ev[6], 6)
             /\ Parts(s, 6) => Parts(s \o ev[7], 7)
             /\ Parts(s, 7) => Parts(s \o ev[8], 8)
             /\ Parts(s, 8) => Parts(s \o ev[9], 9)
             /\ Parts(s, 9) => Parts(s \o ev[10], 10)
             /\ Parts(s, 10) => Parts(s \o ev[11], 11)
  BY <1>7
<1>9. Parts(IpSerialize(ev), 11)
  BY <1>6, <1>8 DEF IpSerialize
<1>10. PICK p : p = IpSerialize(ev)
  OBVIOUS
<1>11. ASSUME NEW j \in IpFields, j <= i PROVE <<p[j]>> = ev[j]
  <2>1. j \in 1 .. 11 /\ i \in Nat /\ j \in Nat
    BY DEF IpFields
  <2>2. \A c \in cut : j < c
    BY <1>2, <1>11, <2>1
  <2> QED BY <1>9, <1>10, <2>1, <2>2 DEF Parts, IpPartsAre
<1>12. ASSUME NEW b \in IpNumbers, b <= i PROVE p[b] = "1"
  <2>1. b \in IpFields /\ b \notin IpTexts
    BY DEF IpFields, IpNumbers, IpTexts
  <2>2. ev[b] = <<"1">>
    BY <1>1, <2>1 DEF IpEvent
  <2>3. <<p[b]>> = <<"1">>
    BY <1>11, <1>12, <2>1, <2>2
  <2> QED BY <2>3
<1>13. ~ \E b \in {j \in IpNumbers : p[j] = "text" \/ p[j] = ""} : b <= i
  BY <1>12
<1>14. IpDeserialize(p)[i] = <<p[i]>>
  BY <1>13 DEF IpDeserialize
<1>15. i <= i
  BY DEF IpFields
<1> QED BY <1>1, <1>10, <1>11, <1>14, <1>15

\* Nobody goes on after the question.
LEMMA IpCodecStep == IpCodecPrefix /\ [IpNext]_ipVars => IpCodecPrefix'
<1> SUFFICES ASSUME IpCodecPrefix, [IpNext]_ipVars PROVE IpCodecPrefix'
  OBVIOUS
<1>1. CASE IpAskCodec
  <2>1. PICK cut, empty \in SUBSET IpTexts :
          ipCodec' = [ask |-> "event", cut |-> cut, ev |-> IpEvent(cut, empty),
                      back |-> IpDeserialize(IpSerialize(IpEvent(cut, empty)))]
    BY <1>1 DEF IpAskCodec
  <2>2. /\ ipCodec'.cut = cut /\ ipCodec'.ev = IpEvent(cut, empty)
        /\ ipCodec'.back = IpDeserialize(IpSerialize(IpEvent(cut, empty)))
    BY <2>1
  <2>3. ASSUME NEW i \in IpFields, \A c \in cut : i < c PROVE ipCodec'.back[i] = ipCodec'.ev[i]
    BY <2>2, <2>3, IpReadBack
  <2> QED BY <2>2, <2>3 DEF IpCodecPrefix
<1>2. CASE ipCodec' = ipCodec
  BY <1>2 DEF IpCodecPrefix
<1>3. IpStart \/ IpTop \/ IpCreate \/ IpAccept \/ IpStopFlag \/ IpStopDummy \/ IpStopClose \/ IpBroadcast \/ IpCastEnds => ipCodec' = ipCodec
  BY DEF IpStart, IpTop, IpCreate, IpAccept, IpStopFlag, IpStopDummy, IpStopClose, IpBroadcast, IpCastEnds
<1>4. (\E c \in ipCast.left : IpWrite(c)) \/ IpConnect \/ IpDisconnect \/ IpDestroy => ipCodec' = ipCodec
  BY DEF IpWrite, IpConnect, IpDisconnect, IpDestroy
<1>5. IpPing \/ IpPingFails \/ IpRead \/ IpLost \/ IpOtherStep \/ UNCHANGED ipVars => ipCodec' = ipCodec
  BY DEF IpPing, IpPingFails, IpRead, IpLost, IpOtherStep, IpOtherConnects, IpOtherReads, IpOtherLeaves, ipVars
<1> QED BY <1>1, <1>2, <1>3, <1>4, <1>5 DEF IpNext, IpServerStep, IpCastStep, IpListenStep, IpUserStep

IpInv == IpTypes /\ IpWaiting /\ IpStream /\ IpListening /\ IpCodecPrefix

\* Server, broadcasts, stop() and client keep this in any order of their steps.
THEOREM PipeInvariant == IpSpec => []IpInv
<1>1. IpInit => IpInv
  <2> SUFFICES ASSUME IpInit PROVE IpInv
    OBVIOUS
  <2>1. /\ ipPipe \in Seq(IpEnds) /\ Len(ipPipe) = 0 /\ ipGot \in Seq(Nat) /\ Len(ipGot) = 0 /\ ipConn = 0
        /\ ipMsgs = 0 /\ ipClients = {} /\ ipInstance.by = 0
    BY DEF IpInit, IpNoInstance
  <2>2. ipCast = IpNoCast /\ ipCast.msg = 0 /\ ipCast.left = {} /\ ipCast.kept = {} /\ DOMAIN ipCast = {"msg", "left", "kept"}
    BY DEF IpInit, IpNoCast
  <2>3. IpTypes
    BY <2>1, <2>2 DEF IpTypes
  <2>4. IpWaiting
    BY <2>1 DEF IpWaiting
  <2>5. IpStream
    BY <2>1 DEF IpStream, IpNoGap
  <2>6. IpListening /\ IpCodecPrefix
    BY DEF IpInit, IpListening, IpTerminatedByLoss, IpCodecPrefix
  <2> QED BY <2>3, <2>4, <2>5, <2>6 DEF IpInv
<1>2. IpInv /\ [IpNext]_ipVars => IpInv'
  BY IpStepInv, IpListeningStep, IpCodecStep DEF IpInv
<1> QED BY <1>1, <1>2, PTL DEF IpSpec

\* The client receives the broadcasts of a connection without a gap, is
\* terminated only by a thread that a loss left behind, and decodes what was
\* encoded: for any number of connections and broadcasts and any size of the
\* pipes.
THEOREM PipeIsFaithful == IpSpec => []PipeFaithful
<1>1. IpInv => PipeFaithful
  BY DEF IpInv, IpStream, IpListening, PipeFaithful
<1> QED BY <1>1, PipeInvariant, PTL

=============================================================================

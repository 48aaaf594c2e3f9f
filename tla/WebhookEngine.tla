---------------------------- MODULE WebhookEngine ----------------------------
(***************************************************************************)
(* WebhookEngine: threat events are queued and a worker thread turns them  *)
(* into payloads.  running_ is an atomic that stop() changes without the   *)
(* lock, so its notification may come between the worker's look at the     *)
(* condition and its sleep.                                                *)
(***************************************************************************)
EXTENDS Naturals, SequencesExt

CONSTANTS WhMaxEvents, WhMaxStarts,   \* bounds: events, calls of start()
          MAX_PAYLOADS, PayloadsDropped  \* dispatched_payloads_: length at which the oldest are erased

ASSUME WhConstants == {WhMaxEvents, WhMaxStarts, MAX_PAYLOADS, PayloadsDropped} \subseteq Nat /\ PayloadsDropped <= MAX_PAYLOADS + 1

VARIABLES whRunning, whQueue, whPayloads,  \* running_, event_queue_, dispatched_payloads_
          whWorker,      \* worker: "none", "top", "look" (has the lock), "asleep", "woken", "send", "ended"
          whItem,        \* event the worker has taken; 0 for none
          whStopping,    \* a call of stop() is under way: "no", "notify", "join"
          whEvents, whStarts,
          whDone         \* history: events dispatched

whVars == <<whRunning, whQueue, whPayloads, whWorker, whItem, whStopping, whEvents, whStarts, whDone>>

WhInit ==
  /\ whRunning = FALSE /\ whQueue = <<>> /\ whPayloads = <<>> /\ whWorker = "none" /\ whItem = 0
  /\ whStopping = "no" /\ whEvents = 0 /\ whStarts = 0 /\ whDone = <<>>

WhStart ==
  /\ ~whRunning /\ whStopping = "no" /\ whStarts < WhMaxStarts
  /\ whRunning' = TRUE /\ whWorker' = "top" /\ whStarts' = whStarts + 1
  /\ UNCHANGED <<whQueue, whPayloads, whItem, whStopping, whEvents, whDone>>

\* stop(): the flag, the notification, the join.
WhStop ==
  /\ whRunning /\ whStopping = "no" /\ whRunning' = FALSE /\ whStopping' = "notify"
  /\ UNCHANGED <<whQueue, whPayloads, whWorker, whItem, whEvents, whStarts, whDone>>

WhWake == whWorker' = IF whWorker = "asleep" THEN "woken" ELSE whWorker

WhStopNotify ==
  /\ whStopping = "notify" /\ whStopping' = "join" /\ WhWake
  /\ UNCHANGED <<whRunning, whQueue, whPayloads, whItem, whEvents, whStarts, whDone>>

WhStopJoin ==
  /\ whStopping = "join" /\ whWorker = "ended" /\ whStopping' = "no" /\ whWorker' = "none"
  /\ UNCHANGED <<whRunning, whQueue, whPayloads, whItem, whEvents, whStarts, whDone>>

\* enqueue_event(), with the lock
WhEnqueue ==
  /\ whEvents < WhMaxEvents /\ whWorker # "look"
  /\ whEvents' = whEvents + 1 /\ whQueue' = Append(whQueue, whEvents + 1) /\ WhWake
  /\ UNCHANGED <<whRunning, whPayloads, whItem, whStopping, whStarts, whDone>>

\* worker_loop(): running_; ...
WhTop ==
  /\ whWorker = "top" /\ whWorker' = IF whRunning THEN "woken" ELSE "ended"
  /\ UNCHANGED <<whRunning, whQueue, whPayloads, whItem, whStopping, whEvents, whStarts, whDone>>

\* Fault: an event is taken before the flag is looked at.
WhTakeFirst(awake) ==
  IF whQueue # <<>>
  THEN /\ whQueue' = Tail(whQueue)
       /\ IF whRunning THEN whWorker' = "send" /\ whItem' = Head(whQueue) ELSE whWorker' = "ended" /\ UNCHANGED whItem
  ELSE /\ whWorker' = (IF ~whRunning THEN "ended" ELSE IF awake THEN "look" ELSE "top") /\ UNCHANGED <<whQueue, whItem>>

\* ... the condition, with the lock: the flag first, then an event; neither
\* means sleep, or, after the time is up, another turn.
WhTake(awake) ==
  IF ~whRunning THEN whWorker' = "ended" /\ UNCHANGED <<whQueue, whItem>>
  ELSE IF whQueue # <<>> THEN whWorker' = "send" /\ whItem' = Head(whQueue) /\ whQueue' = Tail(whQueue)
  ELSE whWorker' = (IF awake THEN "look" ELSE "top") /\ UNCHANGED <<whQueue, whItem>>

WhLook ==
  /\ whWorker = "woken" /\ WhTake(TRUE)
  /\ UNCHANGED <<whRunning, whPayloads, whStopping, whEvents, whStarts, whDone>>

WhSleep ==
  /\ whWorker = "look" /\ whWorker' = "asleep"
  /\ UNCHANGED <<whRunning, whQueue, whPayloads, whItem, whStopping, whEvents, whStarts, whDone>>

\* Fault: the wait has no limit.
WhTimeoutNever == FALSE /\ UNCHANGED whVars

\* 100 ms are over.
WhTimeout ==
  /\ whWorker = "asleep" /\ WhTake(FALSE)
  /\ UNCHANGED <<whRunning, whPayloads, whStopping, whEvents, whStarts, whDone>>

\* The payload is made, without the lock, and kept.
WhSend ==
  /\ whWorker = "send" /\ whWorker' = "top" /\ whItem' = 0
  /\ whPayloads' = LET p == Append(whPayloads, whItem) IN IF Len(p) > MAX_PAYLOADS THEN SubSeq(p, PayloadsDropped + 1, Len(p)) ELSE p
  /\ whDone' = Append(whDone, whItem)
  /\ UNCHANGED <<whRunning, whQueue, whStopping, whEvents, whStarts>>

WhWorkerStep == WhTop \/ WhLook \/ WhSleep \/ WhTimeout \/ WhSend
WhStopStep == WhStopNotify \/ WhStopJoin

WhNext == WhStart \/ WhStop \/ WhStopStep \/ WhEnqueue \/ WhWorkerStep

WhFair == WF_whVars(WhWorkerStep) /\ WF_whVars(WhStopStep)

WhSpec == WhInit /\ [][WhNext]_whVars /\ WhFair

\* No event is lost or sent twice, whenever the engine is stopped and started
\* again: sent, in hand and queued, they are all the events in their order.
WhNothingLost ==
  whDone \o (IF whItem = 0 THEN <<>> ELSE <<whItem>>) \o whQueue = [i \in 1 .. whEvents |-> i]

\* stop() returns, although its notification may find no one asleep.
WhStopReturns == (whStopping # "no") ~> (whStopping = "no")
=============================================================================

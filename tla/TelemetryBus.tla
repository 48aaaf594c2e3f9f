---------------------------- MODULE TelemetryBus ----------------------------
(***************************************************************************)
(* The bounded, closeable FIFO between the sensors and the correlation     *)
(* worker.  Every operation runs under the bus mutex, so each is one       *)
(* atomic action here.                                                     *)
(***************************************************************************)
EXTENDS Naturals, Sequences

CONSTANT Capacity          \* queue_capacity given to the constructor

VARIABLES queue,           \* queue_: accepted observations, oldest first
          closed,          \* closed_
          metrics          \* metrics_

busVars == <<queue, closed, metrics>>

\* The constructor turns a zero capacity into one.
capacity == IF Capacity >= 1 THEN Capacity ELSE 1

NoMetrics == [accepted         |-> 0,
              dropped_full     |-> 0,
              rejected_invalid |-> 0,
              rejected_closed  |-> 0]

BusInit ==
  /\ queue = <<>>
  /\ closed = FALSE
  /\ metrics = NoMetrics

Count(field) == metrics' = [metrics EXCEPT ![field] = @ + 1]

PublishResultIgnoresClosed(observation) ==
  CASE ~observation.wellFormed                            -> "REJECTED_INVALID"
    [] observation.wellFormed /\ Len(queue) >= capacity   -> "DROPPED_FULL"
    [] OTHER                                              -> "ACCEPTED"

\* What publish() answers, in the order the code decides it.
PublishResult(observation) ==
  CASE ~observation.wellFormed                           -> "REJECTED_INVALID"
    [] observation.wellFormed /\ closed                  -> "CLOSED"
    [] /\ observation.wellFormed
       /\ ~closed
       /\ Len(queue) >= capacity                         -> "DROPPED_FULL"
    [] OTHER                                             -> "ACCEPTED"

BusPublish(observation) ==
  LET result == PublishResult(observation)
  IN  /\ queue' = IF result = "ACCEPTED" THEN Append(queue, observation) ELSE queue
      /\ \/ result = "REJECTED_INVALID" /\ Count("rejected_invalid")
         \/ result = "CLOSED"           /\ Count("rejected_closed")
         \/ result = "DROPPED_FULL"     /\ Count("dropped_full")
         \/ result = "ACCEPTED"         /\ Count("accepted")
      /\ UNCHANGED closed

\* wait_pop() (and try_pop()) with something queued: the head leaves the bus.
PopHead ==
  /\ queue # <<>>
  /\ queue' = Tail(queue)
  /\ UNCHANGED <<closed, metrics>>

\* wait_pop() with nothing queued: it returns false at close or at its timeout.
PopNothing ==
  /\ queue = <<>>
  /\ UNCHANGED busVars

BusClose ==
  /\ closed' = TRUE
  /\ UNCHANGED <<queue, metrics>>

BusTypeOK(Observation) ==
  /\ queue \in Seq(Observation)
  /\ closed \in BOOLEAN
  /\ metrics \in [{"accepted", "dropped_full", "rejected_invalid", "rejected_closed"} -> Nat]
=============================================================================

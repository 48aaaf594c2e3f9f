----------------------------- MODULE ThreadPool -----------------------------
(***************************************************************************)
(* The worker pool: a task queue, a count of unfinished tasks, two         *)
(* condition variables and a stop flag.  Everything but the stop flag and  *)
(* the notifications happens under mtx_.  A thread that found its          *)
(* predicate false still holds mtx_ until it is asleep.                    *)
(***************************************************************************)
EXTENDS Naturals, FiniteSets

CONSTANTS Workers,         \* workers_
          Clients,         \* threads that enqueue, clear or wait
          MaxTasks         \* bound on the tasks ever enqueued

Unlocked == "unlocked"

ASSUME PoolConstants ==
  /\ IsFiniteSet(Workers)
  /\ Workers # {}
  /\ Unlocked \notin Workers
  /\ MaxTasks \in Nat

VARIABLES queued,          \* length of tasks_
          outstanding,     \* outstanding_
          stop,            \* stop_
          mtx,             \* the worker holding mtx_ between two steps, or Unlocked
          worker,          \* worker -> where its loop is
          client,          \* client -> where its call is
          owner,           \* where the destructor is
          enqueued         \* tasks enqueued so far

poolVars == <<queued, outstanding, stop, mtx, worker, client, owner, enqueued>>

PoolInit ==
  /\ queued = 0
  /\ outstanding = 0
  /\ stop = FALSE
  /\ mtx = Unlocked
  /\ worker = [w \in Workers |-> "ready"]
  /\ client = [c \in Clients |-> "idle"]
  /\ owner = "alive"
  /\ enqueued = 0

-----------------------------------------------------------------------------
(* The worker loop.                                                        *)

\* The predicate is false: on the way to sleep, mtx_ held.
WorkerFindsNothing(w) ==
  /\ worker[w] = "ready"
  /\ mtx = Unlocked
  /\ ~stop
  /\ queued = 0
  /\ mtx' = w
  /\ worker' = [worker EXCEPT ![w] = "dozing"]
  /\ UNCHANGED <<queued, outstanding, stop, client, owner, enqueued>>

\* wait() releases mtx_ and starts to listen in one step.
WorkerSleeps(w) ==
  /\ worker[w] = "dozing"
  /\ mtx' = Unlocked
  /\ worker' = [worker EXCEPT ![w] = "asleep"]
  /\ UNCHANGED <<queued, outstanding, stop, client, owner, enqueued>>

WorkerTakes(w) ==
  /\ worker[w] = "ready"
  /\ mtx = Unlocked
  /\ queued > 0
  /\ queued' = queued - 1
  /\ worker' = [worker EXCEPT ![w] = "running"]
  /\ UNCHANGED <<outstanding, stop, mtx, client, owner, enqueued>>

WorkerExits(w) ==
  /\ worker[w] = "ready"
  /\ mtx = Unlocked
  /\ stop
  /\ queued = 0
  /\ worker' = [worker EXCEPT ![w] = "exited"]
  /\ UNCHANGED <<queued, outstanding, stop, mtx, client, owner, enqueued>>

\* idle_cv_.notify_all(): the waiting clients look again.
WakeIdle(left) ==
  client' = [c \in Clients |-> IF left = 0 /\ client[c] = "waiting" THEN "checking" ELSE client[c]]

\* Fault: a task that throws is never counted as done.
WorkerFinishesOrThrows(w) ==
  /\ worker[w] = "running"
  /\ mtx = Unlocked
  /\ outstanding' \in {outstanding, outstanding - 1}
  /\ WakeIdle(outstanding')
  /\ worker' = [worker EXCEPT ![w] = "ready"]
  /\ UNCHANGED <<queued, stop, mtx, owner, enqueued>>

\* A task is done, whether it returned or threw.
WorkerFinishes(w) ==
  /\ worker[w] = "running"
  /\ mtx = Unlocked
  /\ outstanding' = outstanding - 1
  /\ WakeIdle(outstanding')
  /\ worker' = [worker EXCEPT ![w] = "ready"]
  /\ UNCHANGED <<queued, stop, mtx, owner, enqueued>>

\* Condition variables may wake a sleeper for no reason.
SpuriousWakeup(w) ==
  /\ worker[w] = "asleep"
  /\ worker' = [worker EXCEPT ![w] = "ready"]
  /\ UNCHANGED <<queued, outstanding, stop, mtx, client, owner, enqueued>>

WorkerStep(w) ==
  \/ WorkerFindsNothing(w)
  \/ WorkerSleeps(w)
  \/ WorkerTakes(w)
  \/ WorkerExits(w)
  \/ WorkerFinishes(w)

-----------------------------------------------------------------------------
(* Calls of the clients.  enqueue() notifies after it released mtx_.       *)

Enqueue(c) ==
  /\ client[c] = "idle"
  /\ owner = "alive"
  /\ mtx = Unlocked
  /\ enqueued < MaxTasks
  /\ enqueued' = enqueued + 1
  /\ queued' = queued + 1
  /\ outstanding' = outstanding + 1
  /\ client' = [client EXCEPT ![c] = "notifying"]
  /\ UNCHANGED <<stop, mtx, worker, owner>>

\* Fault: only a second queued task is notified.
NotifyOneIfSecond(c) ==
  /\ client[c] = "notifying"
  /\ client' = [client EXCEPT ![c] = "idle"]
  /\ \/ \E w \in Workers :
          /\ queued > 1
          /\ worker[w] = "asleep"
          /\ worker' = [worker EXCEPT ![w] = "ready"]
     \/ /\ queued <= 1 \/ \A w \in Workers : worker[w] # "asleep"
        /\ UNCHANGED worker
  /\ UNCHANGED <<queued, outstanding, stop, mtx, owner, enqueued>>

\* cv_.notify_one(): one of the sleepers, if there is one.
NotifyOne(c) ==
  /\ client[c] = "notifying"
  /\ client' = [client EXCEPT ![c] = "idle"]
  /\ \/ \E w \in Workers :
          /\ worker[w] = "asleep"
          /\ worker' = [worker EXCEPT ![w] = "ready"]
     \/ /\ \A w \in Workers : worker[w] # "asleep"
        /\ UNCHANGED worker
  /\ UNCHANGED <<queued, outstanding, stop, mtx, owner, enqueued>>

\* Fault: dropped tasks stay on the count.
ClearQueueUncounted(c) ==
  /\ client[c] = "idle"
  /\ owner = "alive"
  /\ mtx = Unlocked
  /\ queued > 0
  /\ queued' = 0
  /\ UNCHANGED <<outstanding, client, stop, mtx, worker, owner, enqueued>>

ClearQueue(c) ==
  /\ client[c] = "idle"
  /\ owner = "alive"
  /\ mtx = Unlocked
  /\ queued > 0
  /\ queued' = 0
  /\ outstanding' = outstanding - queued
  /\ WakeIdle(outstanding')
  /\ UNCHANGED <<stop, mtx, worker, owner, enqueued>>

WaitIdle(c) ==
  /\ client[c] = "idle"
  /\ owner = "alive"
  /\ client' = [client EXCEPT ![c] = "checking"]
  /\ UNCHANGED <<queued, outstanding, stop, mtx, worker, owner, enqueued>>

\* Under mtx_ the predicate is tested and the thread goes to sleep at once:
\* outstanding_ only changes, and idle_cv_ is only notified, under mtx_.
WaitIdleChecks(c) ==
  /\ client[c] = "checking"
  /\ mtx = Unlocked
  /\ client' = [client EXCEPT ![c] = IF outstanding = 0 THEN "idle" ELSE "waiting"]
  /\ UNCHANGED <<queued, outstanding, stop, mtx, worker, owner, enqueued>>

-----------------------------------------------------------------------------
(* The destructor, once no other call is under way.                        *)

\* stop_ is set without mtx_.
DestructorStops ==
  /\ owner = "alive"
  /\ \A c \in Clients : client[c] = "idle"
  /\ stop' = TRUE
  /\ owner' = "notifying"
  /\ UNCHANGED <<queued, outstanding, mtx, worker, client, enqueued>>

DestructorNotifies ==
  /\ owner = "notifying"
  /\ worker' = [w \in Workers |-> IF worker[w] = "asleep" THEN "ready" ELSE worker[w]]
  /\ owner' = "joining"
  /\ UNCHANGED <<queued, outstanding, stop, mtx, client, enqueued>>

DestructorJoins ==
  /\ owner = "joining"
  /\ \A w \in Workers : worker[w] = "exited"
  /\ owner' = "gone"
  /\ UNCHANGED <<queued, outstanding, stop, mtx, worker, client, enqueued>>

-----------------------------------------------------------------------------
ClientStep(c) ==
  \/ Enqueue(c)
  \/ NotifyOne(c)
  \/ ClearQueue(c)
  \/ WaitIdle(c)
  \/ WaitIdleChecks(c)

Destruct == DestructorStops \/ DestructorNotifies \/ DestructorJoins

PoolNext ==
  \/ \E w \in Workers : WorkerStep(w) \/ SpuriousWakeup(w)
  \/ \E c \in Clients : ClientStep(c)
  \/ Destruct
  \/ owner = "gone" /\ UNCHANGED poolVars

PoolSpec == PoolInit /\ [][PoolNext]_poolVars

\* Threads that can go on do, and a thread that asks for mtx_ gets it in the
\* end (strong fairness of the steps that take mtx_).  Nobody counts on spurious
\* wakeups, and no client is obliged to call anything.
PoolFairness ==
  /\ \A w \in Workers : SF_poolVars(WorkerStep(w))
  /\ \A c \in Clients : WF_poolVars(NotifyOne(c)) /\ SF_poolVars(WaitIdleChecks(c))
  /\ WF_poolVars(DestructorNotifies)
  /\ WF_poolVars(DestructorJoins)

FairPoolSpec == PoolSpec /\ PoolFairness

-----------------------------------------------------------------------------
(* Properties.                                                             *)

Running == {w \in Workers : worker[w] = "running"}

\* Type invariant; mtx_ is held across a step only on the way to sleep.
PoolTypeOK ==
  /\ queued \in Nat
  /\ outstanding \in Nat
  /\ stop \in BOOLEAN
  /\ mtx \in Workers \union {Unlocked}
  /\ worker \in [Workers -> {"ready", "dozing", "asleep", "running", "exited"}]
  /\ client \in [Clients -> {"idle", "notifying", "checking", "waiting"}]
  /\ owner \in {"alive", "notifying", "joining", "gone"}
  /\ enqueued \in Nat

\* outstanding_ is exactly the number of queued and running tasks, however
\* enqueue(), clear_queue() and the workers interleave.
OutstandingCounts == outstanding = queued + Cardinality(Running)

\* No thread sleeps in wait_idle() when there is nothing left to wait for.
NoIdleWaiterForgotten ==
  \A c \in Clients : client[c] = "waiting" => outstanding > 0

\* "its queue drained": when the destructor is through, every task that was
\* enqueued and not dropped has been run.
DestroyedEmpty == owner = "gone" => queued = 0 /\ outstanding = 0

\* The pool's count is right, so that nobody waits for nothing and the
\* destructor leaves nothing behind.
PoolSafe == PoolTypeOK /\ OutstandingCounts /\ NoIdleWaiterForgotten /\ DestroyedEmpty

\* wait_idle() returns once nobody enqueues any more.
WaitIdleReturns == \A c \in Clients : (client[c] = "checking") ~> (client[c] = "idle")

\* A queued task is taken or dropped: no enqueue() is lost on a pool whose
\* workers all sleep.
QueueServed == (queued > 0) ~> (queued = 0)

\* The destructor returns.
DestructorReturns == (owner = "notifying") ~> (owner = "gone")
=============================================================================

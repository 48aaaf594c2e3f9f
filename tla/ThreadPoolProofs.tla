-------------------------- MODULE ThreadPoolProofs --------------------------
(***************************************************************************)
(* ThreadPool, proved for any number of workers, clients and tasks: the    *)
(* count outstanding_ is exact, no thread sleeps in wait_idle() over an    *)
(* idle pool, and a destructor that returns leaves nothing behind.         *)
(***************************************************************************)
EXTENDS ThreadPool, FiniteSetTheorems, TLAPS

\* mtx_ is held across steps by a worker on its way to sleep, and by nobody else.
MutexDiscipline ==
  \A w \in Workers : worker[w] = "dozing" <=> mtx = w

\* Once the destructor has begun nobody enqueues, so a worker that left behind
\* an empty queue left for good.
ExitedEmpty ==
  /\ stop <=> owner # "alive"
  /\ \A w \in Workers : worker[w] = "exited" => stop /\ queued = 0
  /\ owner = "gone" => \A w \in Workers : worker[w] = "exited"

PoolInv ==
  /\ PoolTypeOK
  /\ OutstandingCounts
  /\ NoIdleWaiterForgotten
  /\ MutexDiscipline
  /\ ExitedEmpty

-----------------------------------------------------------------------------
(* What a step of a worker does to the set of running tasks.               *)

\* The set of running workers is finite and its size a number.
LEMMA RunningFinite ==
  /\ IsFiniteSet(Running)
  /\ Cardinality(Running) \in Nat
<1>1. Running \subseteq Workers
  BY DEF Running
<1>2. IsFiniteSet(Running)
  BY <1>1, FS_Subset, PoolConstants
<1> QED
  BY <1>2, FS_CardinalityType

\* A worker that goes from anything else to "running" adds one.
LEMMA RunningGrows ==
  ASSUME PoolTypeOK, NEW w \in Workers, worker[w] # "running",
         worker' = [worker EXCEPT ![w] = "running"]
  PROVE  Cardinality(Running') = Cardinality(Running) + 1
<1>1. Running' = Running \union {w}
  BY DEF Running, PoolTypeOK
<1>2. w \notin Running
  BY DEF Running
<1> QED
  BY <1>1, <1>2, RunningFinite, FS_AddElement

\* A worker that leaves "running" takes one away.
LEMMA RunningShrinks ==
  ASSUME PoolTypeOK, NEW w \in Workers, worker[w] = "running",
         worker' = [worker EXCEPT ![w] = "ready"]
  PROVE  Cardinality(Running) > 0 /\ Cardinality(Running') = Cardinality(Running) - 1
<1>1. Running' = Running \ {w}
  BY DEF Running, PoolTypeOK
<1>2. w \in Running
  BY DEF Running
<1>3. Cardinality(Running') = Cardinality(Running) - 1
  BY <1>1, <1>2, RunningFinite, FS_RemoveElement
<1>4. Cardinality(Running) # 0
  BY <1>2, RunningFinite, FS_EmptySet
<1> QED
  BY <1>3, <1>4, RunningFinite

\* A step between states other than "running" leaves the set alone.
LEMMA RunningSame ==
  ASSUME PoolTypeOK,
         \A w \in Workers : worker'[w] = "running" <=> worker[w] = "running"
  PROVE  Running' = Running
BY DEF Running

\* idle_cv_.notify_all() at zero leaves no thread in wait_idle() behind.
LEMMA WakeIdleWakes ==
  ASSUME NEW left \in Nat, WakeIdle(left)
  PROVE  \A c \in Clients : client'[c] = "waiting" => left > 0
BY DEF WakeIdle

-----------------------------------------------------------------------------
\* The initial state: nothing queued, nobody running.
LEMMA PoolInvInit == PoolInit => PoolInv
<1> SUFFICES ASSUME PoolInit PROVE PoolInv
  OBVIOUS
<1>1. Running = {}
  BY DEF Running, PoolInit
<1>2. OutstandingCounts
  BY <1>1, FS_EmptySet DEF OutstandingCounts, PoolInit
<1>3. PoolTypeOK
  BY DEF PoolTypeOK, PoolInit
<1>4. NoIdleWaiterForgotten
  BY DEF NoIdleWaiterForgotten, PoolInit
<1>5. MutexDiscipline
  BY PoolConstants DEF MutexDiscipline, PoolInit
<1>6. ExitedEmpty
  BY DEF ExitedEmpty, PoolInit
<1> QED
  BY <1>2, <1>3, <1>4, <1>5, <1>6 DEF PoolInv

\* Every step of the pool keeps the invariant: one case per action.
LEMMA PoolInvStep == PoolInv /\ [PoolNext]_poolVars => PoolInv'
<1> SUFFICES ASSUME PoolInv, [PoolNext]_poolVars PROVE PoolInv'
  OBVIOUS
<1> USE DEF PoolInv
<1>0. Cardinality(Running) \in Nat
  BY RunningFinite
<1>1. ASSUME NEW w \in Workers, WorkerFindsNothing(w) PROVE PoolInv'
  <2>1. PoolTypeOK'
    BY <1>1 DEF WorkerFindsNothing, PoolTypeOK
  <2>2. Running' = Running
    BY <1>1, RunningSame DEF WorkerFindsNothing, PoolTypeOK
  <2>3. OutstandingCounts'
    BY <1>1, <2>2 DEF WorkerFindsNothing, OutstandingCounts
  <2>4. NoIdleWaiterForgotten'
    BY <1>1 DEF WorkerFindsNothing, NoIdleWaiterForgotten
  <2>5. MutexDiscipline'
    BY <1>1, PoolConstants DEF WorkerFindsNothing, MutexDiscipline, PoolTypeOK
  <2>6. ExitedEmpty'
    BY <1>1 DEF WorkerFindsNothing, ExitedEmpty, PoolTypeOK
  <2> QED
    BY <2>1, <2>3, <2>4, <2>5, <2>6
<1>2. ASSUME NEW w \in Workers, WorkerSleeps(w) PROVE PoolInv'
  <2>1. PoolTypeOK'
    BY <1>2 DEF WorkerSleeps, PoolTypeOK
  <2>2. Running' = Running
    BY <1>2, RunningSame DEF WorkerSleeps, PoolTypeOK
  <2>3. OutstandingCounts'
    BY <1>2, <2>2 DEF WorkerSleeps, OutstandingCounts
  <2>4. NoIdleWaiterForgotten'
    BY <1>2 DEF WorkerSleeps, NoIdleWaiterForgotten
  <2>5. MutexDiscipline'
    BY <1>2, PoolConstants DEF WorkerSleeps, MutexDiscipline, PoolTypeOK
  <2>6. ExitedEmpty'
    BY <1>2 DEF WorkerSleeps, ExitedEmpty, PoolTypeOK
  <2> QED
    BY <2>1, <2>3, <2>4, <2>5, <2>6
<1>3. ASSUME NEW w \in Workers, WorkerTakes(w) PROVE PoolInv'
  <2>1. PoolTypeOK'
    BY <1>3 DEF WorkerTakes, PoolTypeOK
  <2>2. Cardinality(Running') = Cardinality(Running) + 1
    BY <1>3, RunningGrows DEF WorkerTakes
  <2>3. OutstandingCounts'
    BY <1>0, <1>3, <2>2 DEF WorkerTakes, OutstandingCounts, PoolTypeOK
  <2>4. NoIdleWaiterForgotten'
    BY <1>3 DEF WorkerTakes, NoIdleWaiterForgotten
  <2>5. MutexDiscipline'
    BY <1>3, PoolConstants DEF WorkerTakes, MutexDiscipline, PoolTypeOK
  <2>6. ExitedEmpty'
    BY <1>3 DEF WorkerTakes, ExitedEmpty, PoolTypeOK
  <2> QED
    BY <2>1, <2>3, <2>4, <2>5, <2>6
<1>4. ASSUME NEW w \in Workers, WorkerExits(w) PROVE PoolInv'
  <2>1. PoolTypeOK'
    BY <1>4 DEF WorkerExits, PoolTypeOK
  <2>2. Running' = Running
    BY <1>4, RunningSame DEF WorkerExits, PoolTypeOK
  <2>3. OutstandingCounts'
    BY <1>4, <2>2 DEF WorkerExits, OutstandingCounts
  <2>4. NoIdleWaiterForgotten'
    BY <1>4 DEF WorkerExits, NoIdleWaiterForgotten
  <2>5. MutexDiscipline'
    BY <1>4, PoolConstants DEF WorkerExits, MutexDiscipline, PoolTypeOK
  <2>6. ExitedEmpty'
    BY <1>4 DEF WorkerExits, ExitedEmpty, PoolTypeOK
  <2> QED
    BY <2>1, <2>3, <2>4, <2>5, <2>6
<1>5. ASSUME NEW w \in Workers, WorkerFinishes(w) PROVE PoolInv'
  <2>1. Cardinality(Running) > 0 /\ Cardinality(Running') = Cardinality(Running) - 1
    BY <1>5, RunningShrinks DEF WorkerFinishes
  <2>2. outstanding' \in Nat
    BY <1>0, <1>5, <2>1 DEF WorkerFinishes, OutstandingCounts, PoolTypeOK
  <2>3. PoolTypeOK'
    BY <1>5, <2>2 DEF WorkerFinishes, WakeIdle, PoolTypeOK
  <2>4. OutstandingCounts'
    BY <1>0, <1>5, <2>1 DEF WorkerFinishes, OutstandingCounts, PoolTypeOK
  <2>5. NoIdleWaiterForgotten'
    BY <1>5, <2>2, WakeIdleWakes DEF WorkerFinishes, NoIdleWaiterForgotten
  <2>6. MutexDiscipline'
    BY <1>5, PoolConstants DEF WorkerFinishes, MutexDiscipline, PoolTypeOK
  <2>7. ExitedEmpty'
    BY <1>5 DEF WorkerFinishes, ExitedEmpty, PoolTypeOK
  <2> QED
    BY <2>3, <2>4, <2>5, <2>6, <2>7
<1>6. ASSUME NEW w \in Workers, SpuriousWakeup(w) PROVE PoolInv'
  <2>1. PoolTypeOK'
    BY <1>6 DEF SpuriousWakeup, PoolTypeOK
  <2>2. Running' = Running
    BY <1>6, RunningSame DEF SpuriousWakeup, PoolTypeOK
  <2>3. OutstandingCounts'
    BY <1>6, <2>2 DEF SpuriousWakeup, OutstandingCounts
  <2>4. NoIdleWaiterForgotten'
    BY <1>6 DEF SpuriousWakeup, NoIdleWaiterForgotten
  <2>5. MutexDiscipline'
    BY <1>6 DEF SpuriousWakeup, MutexDiscipline, PoolTypeOK
  <2>6. ExitedEmpty'
    BY <1>6 DEF SpuriousWakeup, ExitedEmpty, PoolTypeOK
  <2> QED
    BY <2>1, <2>3, <2>4, <2>5, <2>6
<1>7. ASSUME NEW c \in Clients, Enqueue(c) PROVE PoolInv'
  <2>1. PoolTypeOK'
    BY <1>7 DEF Enqueue, PoolTypeOK
  <2>2. Running' = Running
    BY <1>7 DEF Enqueue, Running
  <2>3. OutstandingCounts'
    BY <1>0, <1>7, <2>2 DEF Enqueue, OutstandingCounts, PoolTypeOK
  <2>4. NoIdleWaiterForgotten'
    BY <1>7 DEF Enqueue, NoIdleWaiterForgotten, PoolTypeOK
  <2>5. MutexDiscipline'
    BY <1>7 DEF Enqueue, MutexDiscipline
  <2>6. ExitedEmpty'
    BY <1>7 DEF Enqueue, ExitedEmpty
  <2> QED
    BY <2>1, <2>3, <2>4, <2>5, <2>6
<1>8. ASSUME NEW c \in Clients, NotifyOne(c) PROVE PoolInv'
  <2>1. PoolTypeOK'
    BY <1>8 DEF NotifyOne, PoolTypeOK
  <2>2. Running' = Running
    BY <1>8, RunningSame DEF NotifyOne, PoolTypeOK
  <2>3. OutstandingCounts'
    BY <1>8, <2>2 DEF NotifyOne, OutstandingCounts
  <2>4. NoIdleWaiterForgotten'
    BY <1>8 DEF NotifyOne, NoIdleWaiterForgotten, PoolTypeOK
  <2>5. MutexDiscipline'
    BY <1>8 DEF NotifyOne, MutexDiscipline, PoolTypeOK
  <2>6. ExitedEmpty'
    BY <1>8 DEF NotifyOne, ExitedEmpty, PoolTypeOK
  <2> QED
    BY <2>1, <2>3, <2>4, <2>5, <2>6
<1>9. ASSUME NEW c \in Clients, ClearQueue(c) PROVE PoolInv'
  <2>1. Running' = Running
    BY <1>9 DEF ClearQueue, Running
  <2>2. outstanding' = Cardinality(Running)
    BY <1>0, <1>9 DEF ClearQueue, OutstandingCounts, PoolTypeOK
  <2>3. PoolTypeOK'
    BY <1>0, <1>9, <2>2 DEF ClearQueue, WakeIdle, PoolTypeOK
  <2>4. OutstandingCounts'
    BY <1>0, <1>9, <2>1, <2>2 DEF ClearQueue, OutstandingCounts
  <2>5. NoIdleWaiterForgotten'
    BY <1>0, <1>9, <2>2, WakeIdleWakes DEF ClearQueue, NoIdleWaiterForgotten
  <2>6. MutexDiscipline'
    BY <1>9 DEF ClearQueue, MutexDiscipline
  <2>7. ExitedEmpty'
    BY <1>9 DEF ClearQueue, ExitedEmpty
  <2> QED
    BY <2>3, <2>4, <2>5, <2>6, <2>7
<1>10. ASSUME NEW c \in Clients, WaitIdle(c) \/ WaitIdleChecks(c) PROVE PoolInv'
  <2>1. PoolTypeOK'
    BY <1>10 DEF WaitIdle, WaitIdleChecks, PoolTypeOK
  <2>2. Running' = Running
    BY <1>10 DEF WaitIdle, WaitIdleChecks, Running
  <2>3. OutstandingCounts'
    BY <1>10, <2>2 DEF WaitIdle, WaitIdleChecks, OutstandingCounts
  <2>4. NoIdleWaiterForgotten'
    BY <1>10 DEF WaitIdle, WaitIdleChecks, NoIdleWaiterForgotten, PoolTypeOK
  <2>5. MutexDiscipline'
    BY <1>10 DEF WaitIdle, WaitIdleChecks, MutexDiscipline
  <2>6. ExitedEmpty'
    BY <1>10 DEF WaitIdle, WaitIdleChecks, ExitedEmpty
  <2> QED
    BY <2>1, <2>3, <2>4, <2>5, <2>6
<1>11. ASSUME DestructorStops \/ DestructorJoins PROVE PoolInv'
  <2>1. PoolTypeOK'
    BY <1>11 DEF DestructorStops, DestructorJoins, PoolTypeOK
  <2>2. Running' = Running
    BY <1>11 DEF DestructorStops, DestructorJoins, Running
  <2>3. OutstandingCounts'
    BY <1>11, <2>2 DEF DestructorStops, DestructorJoins, OutstandingCounts
  <2>4. NoIdleWaiterForgotten'
    BY <1>11 DEF DestructorStops, DestructorJoins, NoIdleWaiterForgotten
  <2>5. MutexDiscipline'
    BY <1>11 DEF DestructorStops, DestructorJoins, MutexDiscipline
  <2>6. ExitedEmpty'
    BY <1>11 DEF DestructorStops, DestructorJoins, ExitedEmpty, PoolTypeOK
  <2> QED
    BY <2>1, <2>3, <2>4, <2>5, <2>6
<1>12. ASSUME DestructorNotifies PROVE PoolInv'
  <2>1. PoolTypeOK'
    BY <1>12 DEF DestructorNotifies, PoolTypeOK
  <2>2. Running' = Running
    BY <1>12, RunningSame DEF DestructorNotifies, PoolTypeOK
  <2>3. OutstandingCounts'
    BY <1>12, <2>2 DEF DestructorNotifies, OutstandingCounts
  <2>4. NoIdleWaiterForgotten'
    BY <1>12 DEF DestructorNotifies, NoIdleWaiterForgotten
  <2>5. MutexDiscipline'
    BY <1>12 DEF DestructorNotifies, MutexDiscipline, PoolTypeOK
  <2>6. ExitedEmpty'
    BY <1>12 DEF DestructorNotifies, ExitedEmpty, PoolTypeOK
  <2> QED
    BY <2>1, <2>3, <2>4, <2>5, <2>6
<1>13. ASSUME UNCHANGED poolVars PROVE PoolInv'
  <2>1. Running' = Running
    BY <1>13 DEF poolVars, Running
  <2> QED
    BY <1>13, <2>1 DEF poolVars, PoolTypeOK, OutstandingCounts, NoIdleWaiterForgotten,
                       MutexDiscipline, ExitedEmpty
<1> QED
  BY <1>1, <1>2, <1>3, <1>4, <1>5, <1>6, <1>7, <1>8, <1>9, <1>10, <1>11, <1>12, <1>13
     DEF PoolNext, WorkerStep, ClientStep, Destruct

-----------------------------------------------------------------------------
\* The invariant holds in every reachable state.
THEOREM PoolInvariant == PoolSpec => []PoolInv
BY PoolInvInit, PoolInvStep, PTL DEF PoolSpec

\* Type correctness of the pool; in particular outstanding_, a size_t, never
\* wraps below zero.
THEOREM PoolTypeCorrect == PoolSpec => []PoolTypeOK
<1>1. PoolInv => PoolTypeOK
  BY DEF PoolInv
<1> QED
  BY <1>1, PoolInvariant, PTL

\* outstanding_ is queued plus running, for any interleaving of any number of
\* workers and clients.
THEOREM OutstandingIsExact == PoolSpec => []OutstandingCounts
<1>1. PoolInv => OutstandingCounts
  BY DEF PoolInv
<1> QED
  BY <1>1, PoolInvariant, PTL

\* No thread sleeps in wait_idle() while the pool is idle: the notification
\* under mtx_ cannot be missed.
THEOREM NoWaiterForgotten == PoolSpec => []NoIdleWaiterForgotten
<1>1. PoolInv => NoIdleWaiterForgotten
  BY DEF PoolInv
<1> QED
  BY <1>1, PoolInvariant, PTL

\* When the destructor has joined its workers every task was run or dropped.
THEOREM DestructorDrains == PoolSpec => []DestroyedEmpty
<1>1. PoolInv => DestroyedEmpty
  <2> SUFFICES ASSUME PoolInv, owner = "gone" PROVE queued = 0 /\ outstanding = 0
    BY DEF DestroyedEmpty
  <2>1. \A w \in Workers : worker[w] = "exited"
    BY DEF PoolInv, ExitedEmpty
  <2>2. queued = 0
    BY <2>1, PoolConstants DEF PoolInv, ExitedEmpty
  <2>3. Running = {}
    BY <2>1 DEF Running
  <2>4. Cardinality(Running) = 0
    BY <2>3, FS_EmptySet
  <2> QED
    BY <2>2, <2>4 DEF PoolInv, OutstandingCounts
<1> QED
  BY <1>1, PoolInvariant, PTL

\* The pool is safe for every number of workers, clients and tasks.
THEOREM PoolIsSafe == PoolSpec => []PoolSafe
BY PoolTypeCorrect, OutstandingIsExact, NoWaiterForgotten, DestructorDrains, PTL DEF PoolSafe
=============================================================================

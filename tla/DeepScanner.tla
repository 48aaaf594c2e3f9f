----------------------------- MODULE DeepScanner ----------------------------
(***************************************************************************)
(* DeepScanner: start_scan() starts a monitor thread, which lists files,   *)
(* puts a task for each into the thread pool and waits for their count;    *)
(* cancel_scan() sets a flag and empties the queue.  One thread (the user  *)
(* interface) starts, cancels and destroys the scanner.  Every task knows  *)
(* here which scan it belongs to; in the code it does not.  A memory scan  *)
(* has processes in the place of files.                                    *)
(***************************************************************************)
EXTENDS Naturals, Sequences, FiniteSets

CONSTANTS DsFiles, DsInfected,   \* the files there are and those that are threats
          DsWorkers,             \* number of threads of the pool
          DsMaxFiles,            \* max_files
          DsMaxScans             \* bound on the scans started

ASSUME DsConstants ==
  /\ IsFiniteSet(DsFiles) /\ DsInfected \subseteq DsFiles
  /\ {DsWorkers, DsMaxFiles, DsMaxScans} \subseteq Nat \ {0}

VARIABLES dsScanning, dsCancel,  \* scanning_, cancel_
          dsTotal, dsScanned, dsThreats,  \* counters of the scan
          dsResults,             \* results_: <<scan, file>>
          dsCompleted,           \* scans_completed_
          dsCaller,              \* where the calling thread is
          dsMonitor,             \* monitor thread: pc and files still to enqueue
          dsQueue, dsActive,     \* tasks of the pool, waiting and running
          dsScan,                \* number of the scan last begun
          dsListed,              \* history: the files this scan listed,
          dsUnread, dsLost       \* those not read, and the threats no result was kept of

dsCounts == <<dsTotal, dsScanned, dsThreats, dsResults, dsCompleted>>
dsSeen == <<dsScan, dsListed, dsUnread, dsLost>>
dsVars == <<dsScanning, dsCancel, dsCounts, dsCaller, dsMonitor, dsQueue, dsActive, dsSeen>>

DsInit ==
  /\ dsScanning = FALSE /\ dsCancel = FALSE
  /\ dsTotal = 0 /\ dsScanned = 0 /\ dsThreats = 0 /\ dsResults = {} /\ dsCompleted = 0
  /\ dsCaller = "idle" /\ dsMonitor = [pc |-> "none", todo |-> {}]
  /\ dsQueue = <<>> /\ dsActive = {} /\ dsScan = 0
  /\ dsListed = {} /\ dsUnread = {} /\ dsLost = {}

DsCall(from, to) == dsCaller = from /\ dsCaller' = to

\* start_scan() returns at once while a scan runs; else it joins the monitor,
DsStart ==
  /\ ~dsScanning /\ dsScan < DsMaxScans /\ DsCall("idle", "join")
  /\ UNCHANGED <<dsScanning, dsCancel, dsCounts, dsMonitor, dsQueue, dsActive, dsSeen>>

DsJoin(from, to) ==
  /\ DsCall(from, to) /\ dsMonitor.pc \in {"none", "ended"}
  /\ dsMonitor' = [pc |-> "none", todo |-> {}]
  /\ UNCHANGED <<dsScanning, dsCancel, dsCounts, dsQueue, dsActive, dsSeen>>

\* empties the queue,
DsClearQueue(from, to) ==
  /\ DsCall(from, to) /\ dsQueue' = <<>>
  /\ UNCHANGED <<dsScanning, dsCancel, dsCounts, dsMonitor, dsActive, dsSeen>>

\* Fault: the running tasks are not waited for.
DsWaitNone(from, to) ==
  /\ DsCall(from, to)
  /\ UNCHANGED <<dsScanning, dsCancel, dsCounts, dsMonitor, dsQueue, dsActive, dsSeen>>

\* waits until the pool is idle,
DsWaitIdle(from, to) ==
  /\ DsCall(from, to) /\ dsQueue = <<>> /\ dsActive = {}
  /\ UNCHANGED <<dsScanning, dsCancel, dsCounts, dsMonitor, dsQueue, dsActive, dsSeen>>

\* and begins the new scan.  When the monitor thread cannot be created the
\* call throws and scanning_ stays set, until the next cancel_scan().
DsBegin ==
  /\ DsCall("begin", "idle")
  /\ dsScanning' = TRUE /\ dsCancel' = FALSE
  /\ dsTotal' = 0 /\ dsScanned' = 0 /\ dsThreats' = 0 /\ dsResults' = {}
  /\ \E pc \in {"list", "none"} : dsMonitor' = [pc |-> pc, todo |-> {}]
  /\ dsScan' = dsScan + 1 /\ dsListed' = {} /\ dsUnread' = {} /\ dsLost' = {}
  /\ UNCHANGED <<dsCompleted, dsQueue, dsActive>>

\* cancel_scan(): the flags, and then the queue.
DsCancel(to) ==
  /\ DsCall("idle", to)
  /\ dsCancel' = TRUE /\ dsScanning' = FALSE
  /\ UNCHANGED <<dsCounts, dsMonitor, dsQueue, dsActive, dsSeen>>

\* The body of the destructor: cancel_scan(), join, clear and wait.  The pool
\* is destroyed after it (ThreadPool).
DsCallerStep ==
  \/ DsStart \/ DsJoin("join", "clear") \/ DsClearQueue("clear", "wait") \/ DsWaitIdle("wait", "begin") \/ DsBegin
  \/ DsCancel("drop") \/ DsClearQueue("drop", "idle")
  \/ DsCancel("end") \/ DsClearQueue("end", "endJoin") \/ DsJoin("endJoin", "endClear")
  \/ DsClearQueue("endClear", "endWait") \/ DsWaitIdle("endWait", "dead")

\* enumerate_files(): some of the files (links, empty and very large ones are
\* left out), up to the maximum; fewer when it is cancelled.
DsListed == {some \in SUBSET DsFiles : Cardinality(some) <= DsMaxFiles}

DsList ==
  /\ dsMonitor.pc = "list"
  /\ \/ /\ dsCancel
        /\ dsMonitor' = [pc |-> "ended", todo |-> {}] /\ dsScanning' = FALSE
        /\ UNCHANGED <<dsTotal, dsListed>>
     \/ /\ ~dsCancel
        /\ \E files \in DsListed :
             /\ dsMonitor' = [pc |-> "put", todo |-> files] /\ dsTotal' = Cardinality(files)
             /\ dsListed' = files
        /\ UNCHANGED dsScanning
  /\ UNCHANGED <<dsCancel, dsScanned, dsThreats, dsResults, dsCompleted, dsCaller, dsQueue, dsActive, dsScan, dsUnread, dsLost>>

\* The flag is looked at before each task is put in, not with it.
DsPick ==
  /\ dsMonitor.pc = "put"
  /\ IF dsMonitor.todo = {} \/ dsCancel THEN dsMonitor' = [pc |-> "await", todo |-> {}]
     ELSE dsMonitor' = [dsMonitor EXCEPT !.pc = "enqueue"]
  /\ UNCHANGED <<dsScanning, dsCancel, dsCounts, dsCaller, dsQueue, dsActive, dsSeen>>

DsEnqueue ==
  /\ dsMonitor.pc = "enqueue"
  /\ \E file \in dsMonitor.todo :
       /\ dsQueue' = Append(dsQueue, [scan |-> dsScan, file |-> file])
       /\ dsMonitor' = [pc |-> "put", todo |-> dsMonitor.todo \ {file}]
  /\ UNCHANGED <<dsScanning, dsCancel, dsCounts, dsCaller, dsActive, dsSeen>>

DsAwait ==
  /\ dsMonitor.pc = "await" /\ (dsScanned >= dsTotal \/ dsCancel)
  /\ dsScanning' = FALSE
  /\ dsMonitor' = [dsMonitor EXCEPT !.pc = "close"]
  /\ UNCHANGED <<dsCancel, dsCounts, dsCaller, dsQueue, dsActive, dsSeen>>

DsCountsScan == ~dsCancel

DsClose ==
  /\ dsMonitor.pc = "close"
  /\ dsCompleted' = IF DsCountsScan THEN dsCompleted + 1 ELSE dsCompleted
  /\ dsMonitor' = [pc |-> "ended", todo |-> {}]
  /\ UNCHANGED <<dsScanning, dsCancel, dsTotal, dsScanned, dsThreats, dsResults, dsCaller, dsQueue, dsActive, dsSeen>>

\* An exception ends the monitor.
DsAbort ==
  /\ dsMonitor.pc \in {"list", "put", "enqueue"}
  /\ dsMonitor' = [pc |-> "ended", todo |-> {}] /\ dsScanning' = FALSE
  /\ UNCHANGED <<dsCancel, dsCounts, dsCaller, dsQueue, dsActive, dsSeen>>

\* A worker takes a task,
DsTake ==
  /\ dsQueue # <<>> /\ Cardinality(dsActive) < DsWorkers
  /\ dsQueue' = Tail(dsQueue)
  /\ dsActive' = dsActive \union {[scan |-> Head(dsQueue).scan, file |-> Head(dsQueue).file, at |-> "new"]}
  /\ UNCHANGED <<dsScanning, dsCancel, dsCounts, dsCaller, dsMonitor, dsSeen>>

DsMove(a, at) == dsActive' = (dsActive \ {a}) \union {[a EXCEPT !.at = at]}

\* which skips its file if the flag is set; else scan_file() cannot open the
\* file, finds its size out of range, reads too little of it or throws, or it
\* judges what it read.
DsLook(a) ==
  /\ a.at = "new"
  /\ \/ (dsCancel \/ a.file \notin DsInfected) /\ DsMove(a, "done") /\ UNCHANGED dsUnread
     \/ ~dsCancel /\ dsUnread' = dsUnread \union {a.file} /\ DsMove(a, "done")
     \/ ~dsCancel /\ a.file \in DsInfected /\ DsMove(a, "found") /\ UNCHANGED dsUnread
  /\ UNCHANGED <<dsScanning, dsCancel, dsCounts, dsCaller, dsMonitor, dsQueue, dsScan, dsListed, dsLost>>

\* A threat is counted first,
DsThreat(a) ==
  /\ a.at = "found" /\ dsThreats' = dsThreats + 1 /\ DsMove(a, "counted")
  /\ UNCHANGED <<dsScanning, dsCancel, dsTotal, dsScanned, dsResults, dsCompleted, dsCaller, dsMonitor, dsQueue, dsSeen>>

\* and then, under the lock, kept as a result, or lost when that throws.
DsKeep(a) ==
  /\ a.at = "counted" /\ DsMove(a, "done")
  /\ \/ dsResults' = dsResults \union {<<a.scan, a.file>>} /\ UNCHANGED dsLost
     \/ dsLost' = dsLost \union {a.file} /\ UNCHANGED dsResults
  /\ UNCHANGED <<dsScanning, dsCancel, dsTotal, dsScanned, dsThreats, dsCompleted, dsCaller, dsMonitor, dsQueue, dsScan, dsListed, dsUnread>>

\* Fault: a task that found a threat returns before it is counted.
DsCountedClean(a) == IF a.file \in DsInfected THEN 0 ELSE 1

\* Every task is counted, whether it scanned, skipped or failed to read.
DsCounted(a) == 1

DsFinish(a) ==
  /\ a.at = "done" /\ dsActive' = dsActive \ {a}
  /\ dsScanned' = dsScanned + DsCounted(a)
  /\ UNCHANGED <<dsScanning, dsCancel, dsTotal, dsThreats, dsResults, dsCompleted, dsCaller, dsMonitor, dsQueue, dsSeen>>

DsMonitorStep == DsList \/ DsPick \/ DsEnqueue \/ DsAwait \/ DsClose
DsWorkerStep == DsTake \/ \E a \in dsActive : DsLook(a) \/ DsThreat(a) \/ DsKeep(a) \/ DsFinish(a)

DsNext == DsCallerStep \/ DsMonitorStep \/ DsAbort \/ DsWorkerStep

\* The operating system runs the monitor and the workers; a caller within a
\* call goes on.
DsFair == WF_dsVars(DsMonitorStep) /\ WF_dsVars(DsWorkerStep) /\ WF_dsVars(dsCaller # "idle" /\ DsCallerStep)

DsSpec == DsInit /\ [][DsNext]_dsVars /\ DsFair

\* No task of an earlier scan is queued or running once a new scan has begun
\* to count, nor any task once the body of the destructor is done.
DsNoStaleTask ==
  /\ \A a \in dsActive : a.scan = dsScan /\ dsCaller # "dead"
  /\ \A i \in DOMAIN dsQueue : dsQueue[i].scan = dsScan /\ dsCaller # "dead"

\* Results are those of the current scan, and the counters are in step with
\* them and with what was listed: progress() shows more threats than
\* get_results() only by those whose task is between the two, or lost theirs.
DsOwed == {a \in dsActive : a.at = "counted"}

DsCountsCurrent ==
  /\ \A r \in dsResults : r[1] = dsScan
  /\ dsThreats = Cardinality(dsResults) + Cardinality(DsOwed) + Cardinality(dsLost)
  /\ dsScanned <= dsTotal

\* A scan counted as completed has its result for every threat among the files
\* it listed, but for those that could not be read, which count as scanned; this
\* although the flag is read in four places and may be set between any two.
DsCompletedSawAll ==
  [][dsCompleted' # dsCompleted =>
       /\ dsScanned = dsTotal /\ dsQueue = <<>> /\ dsActive = {}
       /\ \A f \in dsListed \cap DsInfected : <<dsScan, f>> \in dsResults \/ f \in dsUnread \union dsLost]_dsVars

\* Scans are told apart and counted truly, however start_scan() and
\* cancel_scan() cut across the monitor and the tasks of the pool.
ScansHonest == [](DsNoStaleTask /\ DsCountsCurrent) /\ DsCompletedSawAll

\* Every scan that has a monitor ends, cancelled or not, although the monitor
\* waits for a count that tasks dropped from the queue never raise.
DsScanEnds == (dsScanning /\ dsMonitor.pc # "none") ~> ~dsScanning

\* Every start_scan() and cancel_scan() returns and the body of the destructor
\* ends, although each of them joins the monitor or waits for the pool, and
\* after a start_scan() that threw too.  The destruction of the pool, which
\* follows that body, is another matter: the run pool_destructor.
DsCallReturns == (dsCaller # "idle") ~> (dsCaller \in {"idle", "dead"})
=============================================================================

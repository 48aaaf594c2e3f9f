------------------------- MODULE RansomwareEngines --------------------------
EXTENDS Naturals, SequencesExt, FiniteSets, FileIntegrityEngine

(***************************************************************************)
(* ARHS: hashes and snapshots of the files under watch, the watch loop     *)
(* that compares them, and the rollback.  A visit reads the file up to     *)
(* three times: its hash before the lock is taken, its entropy and its     *)
(* snapshot under it.  Other programs write whenever they like, and each   *)
(* of the reads can fail.                                                  *)
(***************************************************************************)

CONSTANTS ArhsFiles, ArhsContents,
          Encrypted,             \* contents with an entropy above 7.8
          MAX_SNAPSHOTS,
          RAPID_CHANGE_THRESH, RAPID_CHANGE_WINDOW,
          ArhsMaxTime,           \* bound on the steady clock
          ArhsMaxChanges         \* bound on the changes recorded

ASSUME ArhsConstants ==
  /\ Encrypted \subseteq ArhsContents
  /\ {MAX_SNAPSHOTS, RAPID_CHANGE_THRESH} \subseteq Nat \ {0}
  /\ {RAPID_CHANGE_WINDOW, ArhsMaxTime, ArhsMaxChanges} \subseteq Nat

VARIABLES arhsDisk,   \* path -> content, "gone" if there is no file, or an empty
                      \* or too large one, which no visit takes
          arhs,       \* the engine; at: the visit under way
          arhsNow,
          arhsMet,    \* history: files that were encrypted when the engine met them
          arhsRaced   \* history: files written or not readable during a visit to them

arhsVars == <<arhsDisk, arhs, arhsNow, arhsMet, arhsRaced>>

ArhsNobody == [path |-> "", hash |-> "", stage |-> "none"]

ArhsInit ==
  /\ arhsDisk = [p \in ArhsFiles |-> CHOOSE c \in ArhsContents : c \notin Encrypted]
  /\ arhs = [running |-> FALSE, hashes |-> <<>>, ring |-> <<>>, changes |-> <<>>, left |-> {},
             at |-> ArhsNobody, pending |-> {}, alarms |-> {}, rapid |-> FALSE, sandboxed |-> {}]
  /\ arhsNow = 0
  /\ arhsMet = {}
  /\ arhsRaced = {}

ArhsHashed(hashes, p, content) == [q \in DOMAIN hashes \union {p} |-> IF q = p THEN content ELSE hashes[q]]

\* take_snapshot_unlocked() of the file visited, which leaves the engine as a:
\* the oldest goes when the ring is full; a file that cannot be opened gives none.
ArhsSnapshot(a) ==
  LET p == arhs.at.path
  IN  \/ /\ arhsDisk[p] # "gone"
         /\ arhs' = [a EXCEPT !.ring = Append(IF Len(@) >= MAX_SNAPSHOTS THEN Tail(@) ELSE @,
                                              [path |-> p, data |-> arhsDisk[p]])]
         /\ UNCHANGED arhsRaced
      \/ /\ arhs' = a
         /\ arhsRaced' = arhsRaced \union {p}

\* History: an encrypted file is met.
ArhsMeets(p) == arhsMet' = IF arhsDisk[p] \in Encrypted THEN arhsMet \union {p} ELSE arhsMet

\* start(): running_ first, then scan_directory(), then the thread.
ArhsStart ==
  /\ ~arhs.running
  /\ arhs' = [arhs EXCEPT !.running = TRUE, !.left = ArhsFiles, !.at.stage = "scan"]
  /\ UNCHANGED <<arhsDisk, arhsNow, arhsMet, arhsRaced>>

\* scan_directory(): the hash of one file without the lock, none if it cannot
\* be read; hash and snapshot are stored under the lock.
ArhsScan(p) ==
  /\ arhs.at.stage = "scan" /\ p \in arhs.left
  /\ \/ arhs' = [arhs EXCEPT !.left = @ \ {p}]
     \/ /\ arhsDisk[p] # "gone"
        /\ arhs' = [arhs EXCEPT !.at = [path |-> p, hash |-> arhsDisk[p], stage |-> "scanned"]]
  /\ UNCHANGED <<arhsDisk, arhsNow, arhsMet, arhsRaced>>

ArhsScanned ==
  /\ arhs.at.stage = "scanned"
  /\ ArhsSnapshot([arhs EXCEPT !.hashes = ArhsHashed(@, arhs.at.path, arhs.at.hash), !.left = @ \ {arhs.at.path},
                               !.at = [ArhsNobody EXCEPT !.stage = "scan"]])
  /\ ArhsMeets(arhs.at.path)
  /\ UNCHANGED <<arhsDisk, arhsNow>>

\* stop(): the thread leaves the pass it is in, its pending threats with it;
\* the hashes and the recent changes stay.
ArhsStop ==
  /\ arhs.running /\ arhs.at.stage = "none"
  /\ arhs' = [arhs EXCEPT !.running = FALSE, !.ring = <<>>, !.left = {}, !.pending = {}]
  /\ UNCHANGED <<arhsDisk, arhsNow, arhsMet, arhsRaced>>

\* watch_loop() begins a pass, or start() its thread.
ArhsBeginPass ==
  /\ arhs.running /\ arhs.left = {}
  /\ \/ arhs.at.stage = "scan" /\ arhs' = [arhs EXCEPT !.at.stage = "none", !.left = ArhsFiles]
     \/ arhs.at.stage = "slept" /\ arhs' = [arhs EXCEPT !.at.stage = "none", !.left = ArhsFiles]
  /\ UNCHANGED <<arhsDisk, arhsNow, arhsMet, arhsRaced>>

\* The hash of one file, without the lock; a file that cannot be read is passed.
ArhsHash(p) ==
  /\ arhs.running /\ arhs.at.stage = "none" /\ p \in arhs.left
  /\ \/ arhs' = [arhs EXCEPT !.left = @ \ {p}]
     \/ /\ arhsDisk[p] # "gone"
        /\ arhs' = [arhs EXCEPT !.at = [path |-> p, hash |-> arhsDisk[p], stage |-> "hashed"]]
  /\ UNCHANGED <<arhsDisk, arhsNow, arhsMet, arhsRaced>>

ArhsVisited(a) == [a EXCEPT !.left = @ \ {a.at.path}, !.at = ArhsNobody]

\* Fault: the bytes of the last good version are measured.
ArhsSuspiciousBefore(content, last) == last \in Encrypted

\* The entropy of what was read lies above the threshold.
ArhsSuspicious(content, last) == content \in Encrypted

\* Under the lock: a new file, an untouched one, or a changed one, of which
\* the entropy is read.  A read that fails leaves a buffer of zeros, of which
\* the entropy is 0.
ArhsCompare ==
  /\ arhs.at.stage = "hashed"
  /\ LET p == arhs.at.path
         changed == [arhs EXCEPT !.changes = Append(@, [path |-> p, when |-> arhsNow])]
     IN  \/ /\ p \notin DOMAIN arhs.hashes
            /\ ArhsSnapshot(ArhsVisited([arhs EXCEPT !.hashes = ArhsHashed(@, p, arhs.at.hash)]))
            /\ ArhsMeets(p)
         \/ /\ p \in DOMAIN arhs.hashes /\ arhs.hashes[p] = arhs.at.hash
            /\ arhs' = ArhsVisited(arhs)
            /\ UNCHANGED <<arhsMet, arhsRaced>>
         \/ /\ p \in DOMAIN arhs.hashes /\ arhs.hashes[p] # arhs.at.hash
            /\ Len(arhs.changes) < ArhsMaxChanges
            /\ \/ /\ arhs' = IF ArhsSuspicious(arhsDisk[p], arhs.hashes[p])
                             THEN ArhsVisited([changed EXCEPT !.pending = @ \union {p}])
                             ELSE [changed EXCEPT !.at.stage = "clean"]
                  /\ UNCHANGED arhsRaced
               \/ /\ arhs' = [changed EXCEPT !.at.stage = "clean"]
                  /\ arhsRaced' = arhsRaced \union {p}
            /\ UNCHANGED arhsMet
  /\ UNCHANGED <<arhsDisk, arhsNow>>

\* "Benign/clean modification: update snapshot and hash": the hash is stored
\* whether or not the snapshot could be taken.
ArhsKeep ==
  /\ arhs.at.stage = "clean"
  /\ ArhsSnapshot(ArhsVisited([arhs EXCEPT !.hashes[arhs.at.path] = arhs.at.hash]))
  /\ UNCHANGED <<arhsDisk, arhsNow, arhsMet>>

\* detect_rapid_encryption(): the changes that are still in the window; they
\* are in the order of their times, so the others come first.
ArhsRecent(changes) ==
  SubSeq(changes, SelectLastInSeq(changes, LAMBDA c : arhsNow - c.when > RAPID_CHANGE_WINDOW) + 1, Len(changes))

\* The end of a pass: the threats found are emitted.
ArhsEndPass ==
  /\ arhs.running /\ arhs.left = {} /\ arhs.at.stage = "none"
  /\ arhs' = [arhs EXCEPT !.changes = ArhsRecent(@), !.pending = {}, !.alarms = arhs.pending,
                          !.rapid = Len(ArhsRecent(arhs.changes)) >= RAPID_CHANGE_THRESH,
                          !.at.stage = "slept"]
  /\ UNCHANGED <<arhsDisk, arhsNow, arhsMet, arhsRaced>>

\* The position of the newest snapshot of a file, as a set.
ArhsNewest(p) ==
  {i \in DOMAIN arhs.ring : arhs.ring[i].path = p
                            /\ \A j \in (i + 1)..Len(arhs.ring) : arhs.ring[j].path # p}

ArhsTouched(p) == IF arhs.at.path = p THEN arhsRaced \union {p} ELSE arhsRaced

\* rollback_file(): needs the lock, which a visit holds from its entropy on.
\* A write that fails after the file was truncated goes unnoticed.
ArhsRollback(p) ==
  /\ arhs.at.stage # "clean"
  /\ \E i \in ArhsNewest(p) :
       /\ \E written \in {arhs.ring[i].data, "gone"} : arhsDisk' = [arhsDisk EXCEPT ![p] = written]
       /\ arhs' = [arhs EXCEPT !.hashes = ArhsHashed(@, p, arhs.ring[i].data)]
  /\ arhsRaced' = ArhsTouched(p)
  /\ UNCHANGED <<arhsNow, arhsMet>>

\* suspend_process(): the process is noted with no snapshot of its own, so
\* that rollback_process() has nothing to restore.
ArhsSuspend ==
  /\ arhs.sandboxed = {}
  /\ arhs' = [arhs EXCEPT !.sandboxed = {[pid |-> 1, snapshots |-> <<>>]}]
  /\ UNCHANGED <<arhsDisk, arhsNow, arhsMet, arhsRaced>>

\* Some program writes, creates or deletes a file; time passes.
ArhsOthersWrite(p, content) ==
  /\ arhsDisk' = [arhsDisk EXCEPT ![p] = content]
  /\ arhsRaced' = ArhsTouched(p)
  /\ UNCHANGED <<arhs, arhsNow, arhsMet>>

ArhsTick ==
  /\ arhsNow < ArhsMaxTime
  /\ arhsNow' = arhsNow + 1
  /\ UNCHANGED <<arhsDisk, arhs, arhsMet, arhsRaced>>

ArhsNext ==
  \/ ArhsStart \/ ArhsStop \/ ArhsSuspend \/ ArhsBeginPass \/ ArhsScanned \/ ArhsCompare \/ ArhsKeep \/ ArhsEndPass \/ ArhsTick
  \/ \E p \in ArhsFiles :
       \/ ArhsScan(p) \/ ArhsHash(p) \/ ArhsRollback(p)
       \/ \E content \in ArhsContents \union {"gone"} : ArhsOthersWrite(p, content)

ArhsSpec == ArhsInit /\ [][ArhsNext]_arhsVars

\* A snapshot that rollback_file() could restore is not an encrypted version,
\* unless the file was encrypted when the engine met it, or was written or not
\* readable during a visit: a failing read passes for a file of zeros.
ArhsSnapshotsClean ==
  \A i \in DOMAIN arhs.ring :
    arhs.ring[i].data \in Encrypted /\ arhs.ring[i].path \notin arhsRaced
      => arhs.ring[i].path \in arhsMet

\* The newest snapshot of a file is the version whose hash the watch loop
\* compares with: a file rolled back is not taken for a changed one, and what
\* differs from the snapshot is noticed.  Excepted are files that were written
\* or not readable during a visit, of which the hash can be stored alone.
ArhsHashMatchesSnapshot ==
  \A p \in ArhsFiles \ arhsRaced : \A i \in ArhsNewest(p) : arhs.hashes[p] = arhs.ring[i].data

\* "files in 5s": an alarm about rapid encryption rests on changes of the
\* window before it, however long passes and pauses took.
ArhsRapidIsRecent ==
  [][(arhs'.rapid /\ ~arhs.rapid) =>
       \A i \in DOMAIN arhs'.changes : arhsNow - arhs'.changes[i].when <= RAPID_CHANGE_WINDOW]_arhsVars

-----------------------------------------------------------------------------
(***************************************************************************)
(* RansomwareShieldEngine: file events are kept in a bounded queue and     *)
(* counted per process; the counts are scored; the monitor looks for       *)
(* bursts and for honeyfiles that were touched.  Scores are in hundredths; *)
(* an entropy is one of the classes 0 (none yet), 1 (below 6.5), 2 and 3   *)
(* (HIGH_ENTROPY_THRESHOLD and above).                                     *)
(***************************************************************************)

CONSTANTS RsPids, RsHoneyPaths, RsContents,
          RsModified, RsRenamed, RsExtension, RsDeleted,  \* the steps of the counts, ascending
          RsMaxCount,            \* bound on the events ingested
          MAX_IO_EVENTS, BURST_THRESHOLD, BURST_WINDOW,
          RsMaxTime,
          RsMaxHoney             \* bound on the calls of add_honeyfile()

ASSUME RsConstants ==
  /\ {RsModified} \subseteq [1..3 -> Nat]
  /\ {RsRenamed, RsExtension, RsDeleted} \subseteq [1..2 -> Nat]
  /\ {RsMaxCount, MAX_IO_EVENTS, BURST_THRESHOLD, BURST_WINDOW, RsMaxTime, RsMaxHoney} \subseteq Nat

VARIABLES rsEvents,     \* io_events_
          rsInd,        \* indicators_: pid -> indicator, a partial function
          rsHoney,      \* honeyfiles_: a sequence of [path, sha256, triggered]
          rsDisk, rsNow,
          rsTold,       \* events so far; the last threats
          rsHoneyTold   \* history: alarms per entry of honeyfiles_

rsIoVars == <<rsEvents, rsInd, rsNow, rsTold>>
rsHoneyVars == <<rsHoney, rsDisk, rsHoneyTold>>
rsVars == <<rsIoVars, rsHoneyVars>>

RsInit ==
  /\ rsEvents = <<>> /\ rsInd = <<>> /\ rsHoney = <<>>
  /\ rsDisk = [p \in RsHoneyPaths |-> CHOOSE c \in RsContents : TRUE]
  /\ rsNow = 1
  /\ rsTold = [ingested |-> 0, threats |-> {}]
  /\ rsHoneyTold = <<>>

RsNew == [modified |-> 0, renamed |-> 0, extension |-> 0, deleted |-> 0, entropy |-> 0,
          shadow |-> FALSE, honeyfile |-> FALSE, risk |-> 0]

\* The score of the highest step that a count has reached.
RsStep(n, steps, scores) ==
  LET reached == {i \in DOMAIN steps : n >= steps[i]}
  IN  IF reached = {} THEN 0 ELSE scores[Cardinality(reached)]

\* score_indicator(); nothing ever sets honeyfile_triggered.
RsScore(ind) ==
  LET sum == (IF ind.shadow THEN 35 ELSE 0) + (IF ind.honeyfile THEN 30 ELSE 0)
               + RsStep(ind.modified, RsModified, <<5, 12, 20>>)
               + RsStep(ind.renamed, RsRenamed, <<8, 15>>)
               + RsStep(ind.extension, RsExtension, <<10, 15>>)
               + RsStep(ind.deleted, RsDeleted, <<5, 10>>)
               + RsStep(ind.entropy, <<2, 3>>, <<8, 15>>)
  IN  IF sum > 100 THEN 100 ELSE sum

\* The moving average lies between the old average and the new value.
RsAverages(old, new) ==
  IF old = 0 THEN {new} ELSE {e \in 1..3 : (old <= e /\ e <= new) \/ (new <= e /\ e <= old)}

RsCounted(ind, type, extension) ==
  [ind EXCEPT !.modified  = IF type \in {"IO_WRITE", "IO_CREATE"} THEN @ + 1 ELSE @,
              !.renamed   = IF type = "IO_RENAME" THEN @ + 1 ELSE @,
              !.extension = IF type = "IO_RENAME" /\ extension THEN @ + 1 ELSE @,
              !.deleted   = IF type = "IO_DELETE" THEN @ + 1 ELSE @]

RsOf(pid) == IF pid \in DOMAIN rsInd THEN rsInd[pid] ELSE RsNew

RsPut(pid, ind) ==
  rsInd' = [q \in DOMAIN rsInd \union {pid} |-> IF q = pid THEN [ind EXCEPT !.risk = RsScore(ind)] ELSE rsInd[q]]

\* ingest_file_io(): stored, counted, scored; the time is the caller's.
RsIngest(pid, type, extension, entropy, when) ==
  /\ rsTold.ingested < RsMaxCount
  /\ LET ind == RsCounted(RsOf(pid), type, extension)
     IN  \E e \in (IF type \in {"IO_WRITE", "IO_CREATE"} THEN RsAverages(ind.entropy, entropy) ELSE {ind.entropy}) :
           RsPut(pid, [ind EXCEPT !.entropy = e])
  /\ LET all == Append(rsEvents, [pid |-> pid, when |-> when])
     IN  rsEvents' = IF Len(all) > MAX_IO_EVENTS THEN Tail(all) ELSE all
  /\ rsTold' = [rsTold EXCEPT !.ingested = @ + 1,
                               !.threats = IF rsInd'[pid].risk >= 75 THEN {<<"RANSOMWARE", pid>>} ELSE {}]
  /\ UNCHANGED <<rsHoneyVars, rsNow>>

RsShadowDelete(pid) ==
  /\ RsPut(pid, [RsOf(pid) EXCEPT !.shadow = TRUE])
  /\ rsTold' = [rsTold EXCEPT !.threats = {<<"RANSOMWARE", pid>>}]
  /\ UNCHANGED <<rsHoneyVars, rsEvents, rsNow>>

\* add_honeyfile(): an entry more, also for a path that has one; a file that
\* cannot be read has the empty hash.
RsAddHoney(p) ==
  /\ Len(rsHoney) < RsMaxHoney
  /\ \E hash \in {rsDisk[p], "gone"} : rsHoney' = Append(rsHoney, [path |-> p, sha256 |-> hash, triggered |-> FALSE])
  /\ rsHoneyTold' = Append(rsHoneyTold, 0)
  /\ UNCHANGED <<rsIoVars, rsDisk>>

\* One entry: the file is gone, or was and is readable and has another hash.
RsTouched(hf, readable) ==
  /\ ~hf.triggered
  /\ \/ rsDisk[hf.path] = "gone"
     \/ hf.path \in readable /\ hf.sha256 # "gone" /\ rsDisk[hf.path] # hf.sha256

\* check_honeyfiles(): each entry is alarmed once.  An exists() that throws
\* ends the process, as nothing catches it.
RsCheckHoney ==
  /\ \E readable \in SUBSET RsHoneyPaths :
       /\ rsHoney' = [i \in DOMAIN rsHoney |-> [rsHoney[i] EXCEPT !.triggered = @ \/ RsTouched(rsHoney[i], readable)]]
       /\ rsHoneyTold' = [i \in DOMAIN rsHoney |->
                            IF RsTouched(rsHoney[i], readable) THEN rsHoneyTold[i] + 1 ELSE rsHoneyTold[i]]
  /\ UNCHANGED <<rsIoVars, rsDisk>>

RsInWindow(e) == e.when + BURST_WINDOW >= rsNow

\* The events of a process from the newest back to the first one that lies
\* before the window, where the loop breaks off.
RsBurstCount(pid) ==
  Cardinality({i \in DOMAIN rsEvents : rsEvents[i].pid = pid /\ \A j \in i..Len(rsEvents) : RsInWindow(rsEvents[j])})

\* analyze_burst_patterns(), which the monitor calls after check_honeyfiles().
RsAnalyzeBursts ==
  /\ rsTold' = [rsTold EXCEPT !.threats =
       {<<"FILE_ENCRYPT", pid>> : pid \in {q \in DOMAIN rsInd : RsBurstCount(q) >= BURST_THRESHOLD /\ rsInd[q].risk >= 40}}]
  /\ UNCHANGED <<rsHoneyVars, rsEvents, rsInd, rsNow>>

RsOthers ==
  /\ \E p \in RsHoneyPaths, content \in RsContents \union {"gone"} : rsDisk' = [rsDisk EXCEPT ![p] = content]
  /\ UNCHANGED <<rsIoVars, rsHoney, rsHoneyTold>>

RsTick ==
  /\ rsNow < RsMaxTime
  /\ rsNow' = rsNow + 1
  /\ UNCHANGED <<rsHoneyVars, rsEvents, rsInd, rsTold>>

\* The events told apart: entropy counts for written data (IO_CREATE is
\* treated like IO_WRITE), a suspicious extension for a rename.
RsIos ==
  [type : {"IO_WRITE"}, extension : {FALSE}, entropy : {1, 3}] \union
  [type : {"IO_RENAME"}, extension : BOOLEAN, entropy : {1}] \union [type : {"IO_DELETE"}, extension : {FALSE}, entropy : {1}]

\* The two halves of the engine share no state, as indicator.honeyfile_triggered
\* is never set.
RsIoNext ==
  \/ \E pid \in RsPids :
       \/ \E io \in RsIos, when \in {rsNow - 1, rsNow} : RsIngest(pid, io.type, io.extension, io.entropy, when)
       \/ RsShadowDelete(pid)
  \/ RsAnalyzeBursts \/ RsTick

RsHoneyNext == (\E p \in RsHoneyPaths : RsAddHoney(p)) \/ RsCheckHoney \/ RsOthers

RsSpec == RsInit /\ [][RsIoNext \/ RsHoneyNext]_rsVars

\* The risk of a process falls only when the average entropy of what it
\* writes falls: nothing else that it does makes it look better.
RsRiskFallsOnlyByEntropy ==
  [][\A pid \in DOMAIN rsInd : rsInd'[pid].risk < rsInd[pid].risk => rsInd'[pid].entropy < rsInd[pid].entropy]_rsVars

\* When events were stored in the order of their times, the count of a burst
\* is the number of events of the process in the window that are still kept.
RsBurstExact ==
  (\A i \in 1..(Len(rsEvents) - 1) : rsEvents[i].when <= rsEvents[i + 1].when) =>
    \A pid \in RsPids :
      RsBurstCount(pid) = Cardinality({i \in DOMAIN rsEvents : rsEvents[i].pid = pid /\ RsInWindow(rsEvents[i])})

\* A honeyfile is alarmed once for each time it was added, whatever happens to
\* it later.
RsHoneyAlarmedOnce == \A i \in DOMAIN rsHoney : rsHoneyTold[i] <= 1

-----------------------------------------------------------------------------
\* What the file watchers remember of a file is what they read of it: no
\* snapshot of an encrypted version, no change that the time hides, no burst
\* miscounted, no entry of the honeyfiles alarmed twice.  Each part names the
\* races between two reads of a file, and the failing reads, that it excepts.
FilesWatched ==
  /\ ArhsSnapshotsClean /\ ArhsHashMatchesSnapshot /\ FimTimeTellsContent /\ FimLongPauseEarned
  /\ RsBurstExact /\ RsHoneyAlarmedOnce

\* What no step of the file watchers does: call old changes rapid, take a new
\* hash silently, lower the risk of a process whose writes are no more orderly.
StepsJustified == ArhsRapidIsRecent /\ FimNoSilentUpdate /\ RsRiskFallsOnlyByEntropy
=============================================================================

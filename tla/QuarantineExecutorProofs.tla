---------------------- MODULE QuarantineExecutorProofs ----------------------
(***************************************************************************)
(* QuarantineExecutor, proved for any callers, files, candidates, bounds   *)
(* and any combination of faults: the ledger, its file and the vault agree *)
(* through races, failing calls and crashes, no record ends twice, what    *)
(* was taken is kept while the process lives, and the calls implement an   *)
(* atomic vault.                                                           *)
(***************************************************************************)
EXTENDS QuarantineExecutor, SequenceTheorems, FiniteSetTheorems, TLAPS

FindingIds == {0} \union {candidate.finding_id : candidate \in Candidates}

JobType == [id         : 0..MaxId,
            finding_id : FindingIds,
            path       : Paths \union {None},
            sha256     : Contents \union {None}]

RecordType == [id                   : 1..MaxId,
               finding_id           : FindingIds,
               original_path        : Paths,
               sha256_at_quarantine : Contents,
               restored             : BOOLEAN,
               shredded             : BOOLEAN]

\* The labels of restore() and shred() past the lock.
Ending == {"r_move", "r_clear", "r_save", "s_wipe", "s_remove", "s_save"}

TypesOK ==
  /\ QuarTypeOK
  /\ job \in [Callers -> JobType]
  /\ ledger \in Seq(RecordType)
  /\ saved \in Seq(RecordType)
  /\ faults \in Surroundings
  /\ custody \subseteq (1..MaxId) \X (Contents \union {Absent, Zeros})

\* A sequence of lines as ledger.txt may hold it: ids grow, all of them are
\* used up, and no record ended in both ways.
LinesOK(lines) ==
  /\ \A i, j \in 1..Len(lines) : i < j => lines[i].id < lines[j].id
  /\ \A i \in 1..Len(lines) : lines[i].id < next_id /\ ~(lines[i].restored /\ lines[i].shredded)

\* What a caller works on.  A quarantine() past the lock has the newest id,
\* which no line has; a restore() or shred() has the id of an open record.
JobsOK ==
  \A t \in Callers :
    /\ pc[t] # "idle" => job[t].path \in Paths /\ job[t].sha256 \in Contents
    /\ pc[t] \in Taking => /\ job[t].id \in 1..MaxId /\ job[t].id = next_id - 1
                           /\ \A i \in 1..Len(ledger) : ledger[i].id < job[t].id
                           /\ \A i \in 1..Len(saved) : saved[i].id < job[t].id
    /\ pc[t] \in Ending => \E i \in 1..Len(ledger) :
                             /\ ledger[i].id = job[t].id
                             /\ ledger[i].original_path = job[t].path
                             /\ ~ledger[i].restored /\ ~ledger[i].shredded

\* The file lags behind the memory in one direction only.
SavedBehind ==
  /\ faults \intersect {"append", "disk_full"} = {} => saved = ledger
  /\ \A i \in 1..Len(saved), j \in 1..Len(ledger) :
       saved[i].id = ledger[j].id /\ saved[i].shredded => ledger[j].shredded

\* The bookkeeping, whatever the faults.
BookInv == TypesOK /\ LinesOK(ledger) /\ LinesOK(saved) /\ JobsOK /\ SavedBehind

\* Without other writers every path and every slot of a record hold their own
\* content, or what shred() left of it.
OwnContent ==
  "rewrite" \notin faults =>
    /\ \A p \in Paths : files[p] \in {InitialFiles[p], Absent, Zeros}
    /\ \A i \in 1..Len(ledger) :
         /\ ledger[i].sha256_at_quarantine = InitialFiles[ledger[i].original_path]
         /\ vault[ledger[i].id] \in {InitialFiles[ledger[i].original_path], Absent, Zeros}
    /\ \A i \in 1..Len(saved) :
         /\ saved[i].sha256_at_quarantine = InitialFiles[saved[i].original_path]
         /\ vault[saved[i].id] \in {InitialFiles[saved[i].original_path], Absent, Zeros}
    /\ \A t \in Callers :
         /\ pc[t] \in Taking \union {"q_lock"} => job[t].sha256 = InitialFiles[job[t].path]
         /\ pc[t] \in {"q_remove", "q_record"} => vault[job[t].id] \in {InitialFiles[job[t].path], Zeros}

\* Slots not handed out are empty and nothing is in custody under them.
FreshSlotsEmpty ==
  /\ \A id \in 1..MaxId : id >= next_id => vault[id] = Absent
  /\ \A held \in custody : held[1] < next_id

\* What a caller past the lock can rely on about its slot.
SlotsAsLeft ==
  \A t \in Callers :
    /\ ~Overtaken /\ pc[t] \in {"q_move", "q_remove", "q_undo", "r_clear", "r_save", "s_remove", "s_save"} =>
         \A held \in custody : held[1] # job[t].id
    /\ pc[t] \in {"q_remove", "q_undo"} => "rename" \in faults
    /\ pc[t] = "q_move" => vault[job[t].id] = Absent
    /\ pc[t] \in {"q_remove", "q_undo", "q_record", "r_move"} => vault[job[t].id] \in Contents

\* The file of every open record is in its slot, or a caller is ending it.
OpenRecordsHeld ==
  \A i \in 1..Len(ledger) :
    ~ledger[i].restored /\ ~ledger[i].shredded =>
      \/ vault[ledger[i].id] \in Contents
      \/ \E t \in Callers : pc[t] \in Ending \ {"r_move"} /\ job[t].id = ledger[i].id

\* Without a crash nothing restores zeros either.
OneLife ==
  "crash" \notin faults =>
    /\ \A p \in Paths : files[p] # Zeros
    /\ ~Overtaken => CustodyKept
    /\ FreshSlotsEmpty
    /\ SlotsAsLeft
    /\ OpenRecordsHeld

\* Where files can be removed, a shredded record has an empty slot.
ShredInv ==
  "locked" \notin faults =>
    /\ ShreddedIsGone
    /\ \A i \in 1..Len(saved) : saved[i].shredded => vault[saved[i].id] = Absent
    /\ \A t \in Callers : pc[t] = "s_save" => vault[job[t].id] = Absent

\* Alone with the disk, a caller finds what it left there.
Undisturbed ==
  faults \intersect {"crash", "rewrite"} = {} =>
    \A t \in Callers :
      /\ pc[t] = "r_move" => files[job[t].path] = Absent
      /\ pc[t] \in {"q_remove", "q_undo", "r_clear"} => files[job[t].path] = vault[job[t].id]
-----------------------------------------------------------------------------
(* Who is where.                                                           *)

\* Whoever is past the lock_guard is there alone, with an id of the instance
\* and a path.
LEMMA Alone ==
  ASSUME BookInv, NEW t \in Callers, pc[t] \in Locked
  PROVE  /\ lock = t
         /\ \A u \in Callers : u # t => pc[u] \in {"idle", "q_lock"}
         /\ job[t].id \in 1..MaxId
         /\ job[t].path \in Paths
         /\ job[t].sha256 \in Contents
<1>1. lock = t /\ pc \in [Callers -> Labels] /\ \A u \in Callers : pc[u] \in Locked <=> lock = u
  BY DEF BookInv, TypesOK, QuarTypeOK
<1>2. \A u \in Callers : u # t => pc[u] \in {"idle", "q_lock"}
  BY <1>1 DEF Locked, Labels
<1>3. job[t].path \in Paths /\ job[t].sha256 \in Contents
  BY DEF BookInv, JobsOK, Locked
<1>4. job[t].id \in 1..MaxId
  <2>1. pc[t] \in Taking \/ pc[t] \in Ending
    BY <1>1 DEF Locked, Labels, Taking, Ending
  <2>2. CASE pc[t] \in Taking
    BY <2>2 DEF BookInv, JobsOK
  <2>3. CASE pc[t] \in Ending
    <3>1. PICK i \in 1..Len(ledger) : ledger[i].id = job[t].id
      BY <2>3 DEF BookInv, JobsOK
    <3>2. ledger[i] \in RecordType
      BY ElementOfSeq DEF BookInv, TypesOK
    <3> QED
      BY <3>1, <3>2 DEF RecordType
  <2> QED
    BY <2>1, <2>2, <2>3
<1> QED
  BY <1>1, <1>2, <1>3, <1>4

\* While mtx_ is free nobody is inside.
LEMMA NobodyInside ==
  ASSUME BookInv, lock = Free, NEW u \in Callers
  PROVE  pc[u] \in {"idle", "q_lock"}
BY QuarantineNames DEF BookInv, TypesOK, QuarTypeOK, Locked, Labels

\* A record has an id of the instance, a path and a hash.
LEMMA Records ==
  ASSUME BookInv
  PROVE  /\ ledger \in [1..Len(ledger) -> RecordType] /\ Len(ledger) \in Nat
         /\ saved \in [1..Len(saved) -> RecordType] /\ Len(saved) \in Nat
         /\ DOMAIN ledger = 1..Len(ledger) /\ DOMAIN saved = 1..Len(saved)
         /\ \A i \in 1..Len(ledger) : /\ ledger[i].id \in 1..MaxId
                                      /\ ledger[i].original_path \in Paths
                                      /\ ledger[i].sha256_at_quarantine \in Contents
         /\ \A i \in 1..Len(saved) : /\ saved[i].id \in 1..MaxId
                                     /\ saved[i].original_path \in Paths
                                     /\ saved[i].sha256_at_quarantine \in Contents
<1>1. ledger \in Seq(RecordType) /\ saved \in Seq(RecordType)
  BY DEF BookInv, TypesOK
<1>2. /\ ledger \in [1..Len(ledger) -> RecordType] /\ Len(ledger) \in Nat /\ DOMAIN ledger = 1..Len(ledger)
      /\ saved \in [1..Len(saved) -> RecordType] /\ Len(saved) \in Nat /\ DOMAIN saved = 1..Len(saved)
  BY <1>1, LenProperties
<1> QED
  BY <1>2 DEF RecordType

-----------------------------------------------------------------------------
(* The bookkeeping.                                                        *)

\* The books are in order at the start: QuarInit is an empty ledger and an
\* empty vault.
LEMMA BookInit == QuarInit => BookInv
<1> SUFFICES ASSUME QuarInit PROVE BookInv
  OBVIOUS
<1> USE DEF QuarInit
<1>1. ledger \in Seq(RecordType) /\ saved \in Seq(RecordType) /\ Len(ledger) = 0 /\ Len(saved) = 0
  BY EmptySeq
<1>2. QuarTypeOK
  BY QuarantineConstants, QuarantineNames DEF QuarTypeOK, Labels, Locked
<1>3. job \in [Callers -> JobType]
  BY QuarantineConstants DEF NoJob, JobType, FindingIds
<1>4. TypesOK
  BY <1>1, <1>2, <1>3 DEF TypesOK
<1>5. LinesOK(ledger) /\ LinesOK(saved) /\ JobsOK /\ SavedBehind
  BY <1>1 DEF LinesOK, JobsOK, SavedBehind, Taking, Ending
<1> QED
  BY <1>4, <1>5 DEF BookInv

\* A caller past the lock goes on within its operation, or returns, and leaves
\* the ledgers alone: the bookkeeping stands.
LEMMA WorkBook ==
  ASSUME BookInv, UNCHANGED <<ledgerVars, faults>>, NEW t \in Callers, pc[t] \in Locked,
         files' \in [Paths -> Contents \union {Absent, Zeros}],
         vault' \in [1..MaxId -> Contents \union {Absent, Zeros}],
         custody' \subseteq (1..MaxId) \X (Contents \union {Absent, Zeros}),
         \/ Return(t)
         \/ /\ \E label \in IF pc[t] \in Taking THEN Taking ELSE Ending : Goto(t, label)
            /\ UNCHANGED <<lock, job>>
  PROVE  BookInv'
<1>1. lock = t /\ \A u \in Callers : u # t => pc[u] \in {"idle", "q_lock"}
  BY Alone
<1>2. UNCHANGED <<ledger, saved, next_id, faults>>
  BY DEF ledgerVars
<1>3. pc[t] \in Taking \/ pc[t] \in Ending
  BY DEF BookInv, TypesOK, QuarTypeOK, Locked, Labels, Taking, Ending
<1>4. CASE Return(t)
  <2>1. pc' = [pc EXCEPT ![t] = "idle"] /\ job' = [job EXCEPT ![t] = NoJob] /\ lock' = Free
    BY <1>1, <1>4 DEF Return, Goto
  <2>2. QuarTypeOK'
    BY <1>1, <1>2, <2>1, QuarantineNames DEF BookInv, TypesOK, QuarTypeOK, Labels, Locked
  <2>3. NoJob \in JobType
    BY QuarantineConstants DEF NoJob, JobType, FindingIds
  <2>4. TypesOK'
    BY <1>2, <2>1, <2>2, <2>3 DEF BookInv, TypesOK
  <2>5. JobsOK'
    BY <1>2, <2>1 DEF BookInv, TypesOK, QuarTypeOK, JobsOK, Taking, Ending
  <2> QED
    BY <1>2, <2>4, <2>5 DEF BookInv, LinesOK, SavedBehind
<1>5. CASE ~Return(t)
  <2>1. PICK label \in IF pc[t] \in Taking THEN Taking ELSE Ending : pc' = [pc EXCEPT ![t] = label]
    BY <1>5 DEF Goto
  <2>2. UNCHANGED <<lock, job>> /\ label \in Locked
    BY <1>5, <2>1 DEF Taking, Ending, Locked, Labels
  <2>3. QuarTypeOK'
    BY <1>1, <1>2, <2>1, <2>2 DEF BookInv, TypesOK, QuarTypeOK, Locked
  <2>4. TypesOK'
    BY <1>2, <2>2, <2>3 DEF BookInv, TypesOK
  <2>5. /\ pc[t] # "idle"
        /\ label \in Taking => pc[t] \in Taking
        /\ label \in Ending => pc[t] \in Ending
    BY <1>3, <2>1 DEF Taking, Ending
  <2>6. JobsOK'
    BY <1>2, <2>1, <2>2, <2>5 DEF BookInv, TypesOK, QuarTypeOK, JobsOK
  <2> QED
    BY <1>2, <2>4, <2>6 DEF BookInv, LinesOK, SavedBehind
<1> QED
  BY <1>4, <1>5

\* quarantine() before the lock, and where it meets a full ledger.
LEMMA OutsideBook ==
  ASSUME BookInv, UNCHANGED <<fileVars, ledgerVars, faults>>, NEW t \in Callers,
         \/ \E candidate \in Candidates : QuarantineChecks(t, candidate)
         \/ QuarantineFull(t)
  PROVE  BookInv'
<1>1. UNCHANGED <<ledger, saved, next_id, faults, files, vault, custody>>
  BY DEF ledgerVars, fileVars
<1>2. ASSUME NEW candidate \in Candidates, QuarantineChecks(t, candidate) PROVE BookInv'
  <2> DEFINE taken == [id         |-> 0,
                       finding_id |-> candidate.finding_id,
                       path       |-> candidate.target_path,
                       sha256     |-> files[candidate.target_path]]
  <2>1. /\ pc[t] = "idle" /\ pc' = [pc EXCEPT ![t] = "q_lock"] /\ lock' = lock
        /\ job' = [job EXCEPT ![t] = taken]
    BY <1>2 DEF QuarantineChecks, At, Goto
  <2>2. candidate.target_path \in Paths /\ files[candidate.target_path] \in Contents
    BY <1>2, QuarantineConstants DEF QuarantineChecks, Passes
  <2>3. taken \in JobType
    BY <2>2, QuarantineConstants DEF JobType, FindingIds
  <2>4. taken.path \in Paths /\ taken.sha256 \in Contents
    BY <2>2
  <2> HIDE DEF taken
  <2>5. QuarTypeOK'
    BY <1>1, <2>1 DEF BookInv, TypesOK, QuarTypeOK, Labels, Locked
  <2>6. TypesOK'
    BY <1>1, <2>1, <2>3, <2>5 DEF BookInv, TypesOK
  <2>7. JobsOK'
    BY <1>1, <2>1, <2>4 DEF BookInv, TypesOK, QuarTypeOK, JobsOK, Taking, Ending
  <2> QED
    BY <1>1, <2>6, <2>7 DEF BookInv, LinesOK, SavedBehind
<1>3. ASSUME QuarantineFull(t) PROVE BookInv'
  <2>1. /\ pc[t] = "q_lock" /\ pc' = [pc EXCEPT ![t] = "idle"]
        /\ job' = [job EXCEPT ![t] = NoJob] /\ lock = Free /\ lock' = lock
    BY <1>3, QuarantineNames DEF QuarantineFull, Return, At, Goto
  <2>2. NoJob \in JobType
    BY QuarantineConstants DEF NoJob, JobType, FindingIds
  <2>3. QuarTypeOK'
    BY <1>1, <2>1 DEF BookInv, TypesOK, QuarTypeOK, Labels, Locked
  <2>4. TypesOK'
    BY <1>1, <2>1, <2>2, <2>3 DEF BookInv, TypesOK
  <2>5. JobsOK'
    BY <1>1, <2>1 DEF BookInv, TypesOK, QuarTypeOK, JobsOK, Taking, Ending
  <2> QED
    BY <1>1, <2>4, <2>5 DEF BookInv, LinesOK, SavedBehind
<1> QED
  BY <1>2, <1>3

\* The id that quarantine() takes is above every id on record.
LEMMA ReserveBook ==
  ASSUME BookInv, UNCHANGED faults, NEW t \in Callers, QuarantineReserves(t)
  PROVE  BookInv'
<1>1. UNCHANGED <<ledger, saved, faults, files, vault, custody>>
  BY DEF QuarantineReserves, fileVars
<1>2. /\ pc[t] = "q_lock" /\ pc' = [pc EXCEPT ![t] = "q_move"] /\ lock = Free /\ lock' = t
      /\ next_id <= MaxId /\ next_id' = next_id + 1
      /\ job' = [job EXCEPT ![t].id = next_id]
  BY DEF QuarantineReserves, At, Goto
<1>3. next_id \in 1..MaxId /\ next_id' \in 1..(MaxId + 1) /\ next_id' - 1 = next_id
  <2>1. next_id \in 1..(MaxId + 1) /\ MaxId \in Nat
    BY QuarantineConstants DEF BookInv, TypesOK, QuarTypeOK
  <2>2. next_id <= MaxId /\ next_id' = next_id + 1
    BY <1>2
  <2> QED
    BY <2>1, <2>2
<1>4. \A u \in Callers : pc[u] \in {"idle", "q_lock"}
  BY <1>2, NobodyInside
<1>5. job[t] \in JobType /\ job[t].path \in Paths /\ job[t].sha256 \in Contents
  BY <1>2 DEF BookInv, TypesOK, JobsOK
<1>6. /\ job'[t].id = next_id /\ job'[t].path = job[t].path /\ job'[t].sha256 = job[t].sha256
      /\ \A u \in Callers : u # t => job'[u] = job[u]
  BY <1>2, <1>5 DEF BookInv, TypesOK, JobType
<1>7. job' \in [Callers -> JobType]
  <2>1. next_id \in 0..MaxId
    BY <1>3
  <2>2. [job[t] EXCEPT !.id = next_id] \in JobType
    BY <1>5, <2>1 DEF JobType
  <2>3. job' = [job EXCEPT ![t] = [job[t] EXCEPT !.id = next_id]]
    BY <1>2
  <2> QED
    BY <2>2, <2>3 DEF BookInv, TypesOK
<1>8. QuarTypeOK'
  BY <1>1, <1>2, <1>3, <1>4, QuarantineNames DEF BookInv, TypesOK, QuarTypeOK, Labels, Locked
<1>9. TypesOK'
  BY <1>1, <1>7, <1>8 DEF BookInv, TypesOK
<1>10. JobsOK'
  BY <1>1, <1>2, <1>3, <1>4, <1>5, <1>6 DEF BookInv, TypesOK, QuarTypeOK, JobsOK, LinesOK, Taking, Ending
<1>11. LinesOK(ledger)' /\ LinesOK(saved)'
  BY <1>1, <1>2, <1>3, Records DEF BookInv, LinesOK
<1> QED
  BY <1>1, <1>9, <1>10, <1>11 DEF BookInv, SavedBehind

\* restore() and shred() hold an open record.
LEMMA HoldBook ==
  ASSUME BookInv, UNCHANGED faults, NEW t \in Callers, pc[t] = "idle", lock = Free,
         NEW i \in 1..Len(ledger), ~ledger[i].restored, ~ledger[i].shredded,
         NEW label \in Ending, Hold(t, i, label)
  PROVE  BookInv'
<1> DEFINE held == [id         |-> ledger[i].id,
                    finding_id |-> ledger[i].finding_id,
                    path       |-> ledger[i].original_path,
                    sha256     |-> ledger[i].sha256_at_quarantine]
<1>1. UNCHANGED <<ledger, saved, next_id, faults, files, vault, custody>>
  BY DEF Hold, fileVars, ledgerVars
<1>2. /\ pc' = [pc EXCEPT ![t] = label] /\ lock' = t
      /\ job' = [job EXCEPT ![t] = held]
  BY DEF Hold, Goto
<1>3. ledger[i] \in RecordType
  BY Records
<1>4. /\ held \in JobType /\ held.path \in Paths /\ held.sha256 \in Contents
      /\ held.id = ledger[i].id /\ held.path = ledger[i].original_path
  BY <1>3 DEF RecordType, JobType
<1> HIDE DEF held
<1>5. \A u \in Callers : pc[u] \in {"idle", "q_lock"}
  BY NobodyInside
<1>6. QuarTypeOK'
  BY <1>1, <1>2, <1>5, QuarantineNames DEF BookInv, TypesOK, QuarTypeOK, Labels, Locked, Ending
<1>7. TypesOK'
  BY <1>1, <1>2, <1>4, <1>6 DEF BookInv, TypesOK
<1>8. label \notin Taking
  BY DEF Taking, Ending
<1>9. JobsOK'
  BY <1>1, <1>2, <1>4, <1>5, <1>8 DEF BookInv, TypesOK, QuarTypeOK, JobsOK
<1> QED
  BY <1>1, <1>7, <1>9 DEF BookInv, LinesOK, SavedBehind

\* A record with a larger id can follow.
LEMMA LinesAppend ==
  ASSUME NEW lines \in Seq(RecordType), NEW r \in RecordType, LinesOK(lines),
         \A i \in 1..Len(lines) : lines[i].id < r.id, r.id < next_id,
         ~(r.restored /\ r.shredded)
  PROVE  LinesOK(Append(lines, r))
<1>1. /\ Len(Append(lines, r)) = Len(lines) + 1 /\ Len(lines) \in Nat
      /\ \A i \in 1..Len(lines) : Append(lines, r)[i] = lines[i]
      /\ Append(lines, r)[Len(lines) + 1] = r
  BY AppendProperties, LenProperties
<1> DEFINE longer == Append(lines, r)
<1> HIDE DEF longer
<1>2. \A i \in 1..Len(longer) : i \in 1..Len(lines) \/ i = Len(lines) + 1
  BY <1>1 DEF longer
<1>3. \A i \in 1..Len(longer) : longer[i].id < next_id /\ ~(longer[i].restored /\ longer[i].shredded)
  BY <1>1, <1>2 DEF LinesOK, longer
<1>4. ASSUME NEW i \in 1..Len(longer), NEW j \in 1..Len(longer), i < j
      PROVE  longer[i].id < longer[j].id
  <2>1. i \in 1..Len(lines) /\ longer[i] = lines[i]
    BY <1>1, <1>4 DEF longer
  <2>2. CASE j \in 1..Len(lines)
    BY <1>1, <1>4, <2>1, <2>2 DEF LinesOK, longer
  <2>3. CASE j = Len(lines) + 1
    BY <1>1, <2>1, <2>3 DEF longer
  <2> QED
    BY <1>2, <2>2, <2>3
<1> QED
  BY <1>3, <1>4 DEF LinesOK, longer

\* push_back and append keep the ids in order.
LEMMA RecordBook ==
  ASSUME BookInv, UNCHANGED faults, NEW t \in Callers, QuarantineRecords(t)
  PROVE  BookInv'
<1> DEFINE r == RecordOf(t)
<1>1. pc[t] = "q_record" /\ Return(t) /\ UNCHANGED <<faults, files, vault, custody, next_id>>
  BY DEF QuarantineRecords, fileVars, At
<1>2. pc[t] \in Locked /\ pc[t] \in Taking
  BY <1>1 DEF Locked, Labels, Taking
<1>3. /\ lock = t /\ \A u \in Callers : u # t => pc[u] \in {"idle", "q_lock"}
      /\ job[t].id \in 1..MaxId /\ job[t].path \in Paths /\ job[t].sha256 \in Contents
  BY <1>2, Alone
<1>4. pc' = [pc EXCEPT ![t] = "idle"] /\ job' = [job EXCEPT ![t] = NoJob] /\ lock' = Free
  BY <1>1, <1>3 DEF Return, Goto
<1>5. /\ job[t].id = next_id - 1
      /\ \A i \in 1..Len(ledger) : ledger[i].id < job[t].id
      /\ \A i \in 1..Len(saved) : saved[i].id < job[t].id
  BY <1>2 DEF BookInv, JobsOK
<1>6. next_id \in 1..(MaxId + 1) /\ job[t].finding_id \in FindingIds
  BY DEF BookInv, TypesOK, QuarTypeOK, JobType
<1>7. r \in RecordType /\ r.id = job[t].id /\ ~r.restored /\ ~r.shredded
  BY <1>3, <1>6 DEF RecordOf, RecordType
<1> HIDE DEF r
<1>8. ledger' = Append(ledger, r) /\ (saved' = Append(saved, r) \/ (saved' = saved /\ "append" \in faults))
  BY DEF QuarantineRecords, r
<1>9. ledger \in Seq(RecordType) /\ saved \in Seq(RecordType)
  BY DEF BookInv, TypesOK
<1>10. /\ ledger' \in Seq(RecordType) /\ Len(ledger') = Len(ledger) + 1
       /\ \A i \in 1..Len(ledger) : ledger'[i] = ledger[i]
       /\ ledger'[Len(ledger) + 1] = r
  BY <1>7, <1>8, <1>9, AppendProperties
<1>11. \/ saved' = saved /\ "append" \in faults
       \/ /\ saved' = Append(saved, r)
          /\ saved' \in Seq(RecordType) /\ Len(saved') = Len(saved) + 1
          /\ \A i \in 1..Len(saved) : saved'[i] = saved[i]
          /\ saved'[Len(saved) + 1] = r
  <2>1. CASE saved' = Append(saved, r)
    BY <1>7, <1>9, <2>1, AppendProperties
  <2> QED
    BY <1>8, <2>1
<1>12. /\ Len(ledger) \in Nat /\ Len(saved) \in Nat
       /\ \A i \in 1..Len(ledger) : ledger[i].id \in 1..MaxId
       /\ \A i \in 1..Len(saved) : saved[i].id \in 1..MaxId
  BY Records
<1>13. \A i \in 1..Len(ledger') : i \in 1..Len(ledger) \/ i = Len(ledger) + 1
  BY <1>10, <1>12
<1>14. \A i \in 1..Len(saved') : i \in 1..Len(saved) \/ (i = Len(saved) + 1 /\ saved'[i] = r)
  BY <1>11, <1>12
<1>15. QuarTypeOK'
  BY <1>1, <1>3, <1>4, QuarantineNames DEF BookInv, TypesOK, QuarTypeOK, Labels, Locked
<1>16. NoJob \in JobType
  BY QuarantineConstants DEF NoJob, JobType, FindingIds
<1>17. TypesOK'
  BY <1>1, <1>4, <1>9, <1>10, <1>11, <1>15, <1>16 DEF BookInv, TypesOK
<1>18. LinesOK(ledger)' /\ LinesOK(saved)'
  <2>1. r.id \in Int /\ r.id < next_id /\ next_id \in Int
    BY <1>3, <1>5, <1>6, <1>7
  <2>2. LinesOK(Append(ledger, r))
    BY <1>5, <1>7, <1>9, <2>1, LinesAppend DEF BookInv
  <2>3. LinesOK(saved) /\ LinesOK(Append(saved, r))
    BY <1>5, <1>7, <1>9, <2>1, LinesAppend DEF BookInv
  <2> QED
    BY <1>1, <1>8, <2>2, <2>3 DEF LinesOK
<1>19. JobsOK'
  BY <1>3, <1>4 DEF BookInv, TypesOK, QuarTypeOK, JobsOK, Taking, Ending
<1>20. SavedBehind'
  <2>1. faults' \intersect {"append", "disk_full"} = {} => saved' = ledger'
    BY <1>1, <1>8 DEF BookInv, SavedBehind
  <2>2. ASSUME NEW i \in 1..Len(saved'), NEW j \in 1..Len(ledger'),
               saved'[i].id = ledger'[j].id, saved'[i].shredded
        PROVE  ledger'[j].shredded
    <3>1. i \in 1..Len(saved) /\ saved'[i] = saved[i]
      BY <1>7, <1>11, <1>14, <2>2
    <3>2. saved[i].id < job[t].id
      BY <1>5, <3>1
    <3>3. j \in 1..Len(ledger) /\ ledger'[j] = ledger[j]
      BY <1>3, <1>7, <1>10, <1>12, <1>13, <2>2, <3>1, <3>2
    <3> QED
      BY <2>2, <3>1, <3>3 DEF BookInv, SavedBehind
  <2> QED
    BY <2>1, <2>2 DEF SavedBehind
<1> QED
  BY <1>17, <1>18, <1>19, <1>20 DEF BookInv

\* What Marked() changes: the open record of the job ends, all else stays.
LEMMA MarkedLedger ==
  ASSUME BookInv, NEW t \in Callers, At(t, "r_save") \/ At(t, "s_save")
  PROVE  /\ Marked(t) \in Seq(RecordType)
         /\ Len(Marked(t)) = Len(ledger)
         /\ \A i \in 1..Len(ledger) :
              /\ Marked(t)[i].id = ledger[i].id
              /\ Marked(t)[i].original_path = ledger[i].original_path
              /\ Marked(t)[i].sha256_at_quarantine = ledger[i].sha256_at_quarantine
              /\ ledger[i].id # job[t].id => Marked(t)[i] = ledger[i]
              /\ ledger[i].id = job[t].id => ~ledger[i].restored /\ ~ledger[i].shredded
              /\ ledger[i].id = job[t].id =>
                   /\ Marked(t)[i].restored = At(t, "r_save")
                   /\ Marked(t)[i].shredded = At(t, "s_save")
<1> DEFINE marked == Marked(t)
<1>1. /\ ledger \in [1..Len(ledger) -> RecordType] /\ Len(ledger) \in Nat /\ DOMAIN ledger = 1..Len(ledger)
      /\ \A i \in 1..Len(ledger) : ledger[i].id \in 1..MaxId
  BY Records
<1>2. PICK k \in 1..Len(ledger) : ledger[k].id = job[t].id /\ ~ledger[k].restored /\ ~ledger[k].shredded
  BY DEF BookInv, JobsOK, At, Ending
<1>3. \A i \in 1..Len(ledger) : ledger[i].id = job[t].id => i = k
  BY <1>1, <1>2 DEF BookInv, LinesOK
<1>4. \A i \in 1..Len(ledger) : i \in Find(job[t].id) <=> ledger[i].id = job[t].id
  BY <1>1 DEF Find
<1>5. marked \in [1..Len(ledger) -> RecordType]
  BY <1>1 DEF Marked, RecordType
<1>6. marked \in Seq(RecordType) /\ Len(marked) = Len(ledger)
  BY <1>1, <1>5, SeqDef
<1>7. ASSUME NEW i \in 1..Len(ledger), ledger[i].id # job[t].id
      PROVE  marked[i] = ledger[i]
  BY <1>1, <1>4, <1>7 DEF Marked
<1>8. ASSUME NEW i \in 1..Len(ledger), ledger[i].id = job[t].id, At(t, "r_save")
      PROVE  marked[i] = [ledger[i] EXCEPT !.restored = TRUE]
  BY <1>1, <1>4, <1>8 DEF Marked
<1>9. ASSUME NEW i \in 1..Len(ledger), ledger[i].id = job[t].id, At(t, "s_save")
      PROVE  marked[i] = [ledger[i] EXCEPT !.shredded = TRUE]
  <2>1. ~At(t, "r_save")
    BY <1>9 DEF At
  <2> QED
    BY <1>1, <1>4, <1>9, <2>1 DEF Marked
<1>10. ~(At(t, "r_save") /\ At(t, "s_save"))
  BY DEF At
<1>11. ASSUME NEW i \in 1..Len(ledger)
       PROVE  /\ marked[i].id = ledger[i].id
              /\ marked[i].original_path = ledger[i].original_path
              /\ marked[i].sha256_at_quarantine = ledger[i].sha256_at_quarantine
              /\ ledger[i].id # job[t].id => marked[i] = ledger[i]
              /\ ledger[i].id = job[t].id => ~ledger[i].restored /\ ~ledger[i].shredded
              /\ ledger[i].id = job[t].id =>
                   /\ marked[i].restored = At(t, "r_save")
                   /\ marked[i].shredded = At(t, "s_save")
  <2>1. ledger[i] \in RecordType
    BY <1>1
  <2>2. ledger[i].id = job[t].id => ~ledger[i].restored /\ ~ledger[i].shredded
    BY <1>2, <1>3
  <2> HIDE DEF marked
  <2>3. CASE ledger[i].id # job[t].id
    BY <1>7, <2>3
  <2>4. CASE ledger[i].id = job[t].id /\ At(t, "r_save")
    <3>1. marked[i] = [ledger[i] EXCEPT !.restored = TRUE]
      BY <1>8, <2>4
    <3> QED
      BY <1>10, <2>1, <2>2, <2>4, <3>1 DEF RecordType, At
  <2>5. CASE ledger[i].id = job[t].id /\ At(t, "s_save")
    <3>1. marked[i] = [ledger[i] EXCEPT !.shredded = TRUE]
      BY <1>9, <2>5
    <3> QED
      BY <1>10, <2>1, <2>2, <2>5, <3>1 DEF RecordType, At
  <2> QED
    BY <2>3, <2>4, <2>5
<1> QED
  BY <1>6, <1>11

\* What rewrite_ledger_locked() leaves: a beginning of the marked lines, or
\* the old file where it could not be opened.
LEMMA RewrittenLines ==
  ASSUME BookInv, NEW t \in Callers, At(t, "r_save") \/ At(t, "s_save"), saved' \in Rewritten(Marked(t))
  PROVE  /\ saved' \in Seq(RecordType)
         /\ \/ saved' = saved /\ "append" \in faults
            \/ saved' = Marked(t)
            \/ /\ "disk_full" \in faults
               /\ Len(saved') \in 0..Len(Marked(t))
               /\ \A i \in 1..Len(saved') : saved'[i] = Marked(t)[i]
<1> DEFINE marked == Marked(t)
<1>1. marked \in Seq(RecordType) /\ Len(marked) \in Nat /\ marked \in [1..Len(marked) -> RecordType]
  BY MarkedLedger, LenProperties
<1> HIDE DEF marked
<1>2. \/ saved' = marked
      \/ saved' = saved /\ "append" \in faults
      \/ "disk_full" \in faults /\ \E n \in 0..Len(marked) : saved' = SubSeq(marked, 1, n)
  BY DEF Rewritten, marked
<1>3. ASSUME "disk_full" \in faults, NEW n \in 0..Len(marked), saved' = SubSeq(marked, 1, n)
      PROVE  /\ saved' \in Seq(RecordType) /\ Len(saved') \in 0..Len(marked)
             /\ \A i \in 1..Len(saved') : saved'[i] = marked[i]
  <2>1. n \in Int /\ 1 \in Int /\ \A i \in 1..n : marked[i] \in RecordType
    BY <1>1
  <2>2. /\ SubSeq(marked, 1, n) \in Seq(RecordType)
        /\ Len(SubSeq(marked, 1, n)) = IF 1 <= n THEN n - 1 + 1 ELSE 0
        /\ \A i \in 1..(n - 1 + 1) : SubSeq(marked, 1, n)[i] = marked[1 + i - 1]
    BY <2>1, SubSeqProperties
  <2>3. Len(saved') = n
    BY <1>1, <1>3, <2>2
  <2> QED
    BY <1>1, <1>3, <2>2, <2>3
<1>4. saved \in Seq(RecordType)
  BY DEF BookInv, TypesOK
<1> QED
  BY <1>1, <1>2, <1>3, <1>4 DEF marked

\* Marking the record and rewriting the ledger file.
LEMMA SaveBook ==
  ASSUME BookInv, UNCHANGED faults, NEW t \in Callers, Saves(t)
  PROVE  BookInv'
<1> DEFINE marked == Marked(t)
<1>1. /\ ledger' = marked /\ saved' \in Rewritten(marked)
      /\ UNCHANGED <<faults, files, vault, custody, next_id>>
  BY DEF Saves, fileVars
<1>2. pc[t] \in Locked
  BY DEF Saves, Locked, Labels, At
<1>3. lock = t /\ \A u \in Callers : u # t => pc[u] \in {"idle", "q_lock"}
  BY <1>2, Alone
<1>4. pc' = [pc EXCEPT ![t] = "idle"] /\ job' = [job EXCEPT ![t] = NoJob] /\ lock' = Free
  BY <1>3 DEF Saves, Return, Goto
<1>5. /\ marked \in Seq(RecordType) /\ Len(marked) = Len(ledger)
      /\ \A i \in 1..Len(ledger) :
           /\ marked[i].id = ledger[i].id
           /\ ledger[i].id # job[t].id => marked[i] = ledger[i]
           /\ ledger[i].id = job[t].id => ~(marked[i].restored /\ marked[i].shredded)
           /\ ledger[i].shredded => marked[i].shredded
  <2>1. ~(At(t, "r_save") /\ At(t, "s_save"))
    BY DEF At
  <2> QED
    BY <2>1, MarkedLedger DEF Saves
<1>6. /\ saved' \in Seq(RecordType)
      /\ \/ saved' = saved /\ "append" \in faults
         \/ saved' = marked
         \/ /\ "disk_full" \in faults
            /\ Len(saved') \in 0..Len(marked)
            /\ \A i \in 1..Len(saved') : saved'[i] = marked[i]
  BY RewrittenLines DEF Saves
<1>7. Len(ledger) \in Nat /\ \A i \in 1..Len(ledger) : ledger[i].id \in 1..MaxId
  BY Records
<1> HIDE DEF marked
<1>8. LinesOK(marked)
  BY <1>5, <1>7 DEF BookInv, LinesOK
<1>9. LinesOK(saved')
  <2>1. CASE saved' = saved
    BY <2>1 DEF BookInv
  <2>2. CASE saved' = marked
    BY <1>8, <2>2
  <2>3. CASE Len(saved') \in 0..Len(marked) /\ \A i \in 1..Len(saved') : saved'[i] = marked[i]
    <3>1. \A i \in 1..Len(saved') : i \in 1..Len(marked)
      BY <1>5, <1>7, <2>3
    <3> QED
      BY <1>8, <2>3, <3>1 DEF LinesOK
  <2> QED
    BY <1>6, <2>1, <2>2, <2>3
<1>10. LinesOK(ledger)' /\ LinesOK(saved)'
  BY <1>1, <1>8, <1>9 DEF LinesOK
<1>11. QuarTypeOK'
  BY <1>1, <1>3, <1>4, QuarantineNames DEF BookInv, TypesOK, QuarTypeOK, Labels, Locked
<1>12. NoJob \in JobType
  BY QuarantineConstants DEF NoJob, JobType, FindingIds
<1>13. TypesOK'
  BY <1>1, <1>4, <1>5, <1>6, <1>11, <1>12 DEF BookInv, TypesOK
<1>14. JobsOK'
  BY <1>3, <1>4 DEF BookInv, TypesOK, QuarTypeOK, JobsOK, Taking, Ending
<1>15. SavedBehind'
  <2>1. faults' \intersect {"append", "disk_full"} = {} => saved' = ledger'
    BY <1>1, <1>6
  <2>2. ASSUME NEW i \in 1..Len(saved'), NEW j \in 1..Len(ledger'),
               saved'[i].id = ledger'[j].id, saved'[i].shredded
        PROVE  ledger'[j].shredded
    <3>1. j \in 1..Len(ledger) /\ ledger'[j] = marked[j]
      BY <1>1, <1>5, <2>2
    <3>2. CASE saved' = saved
      <4>1. ledger[j].shredded
        BY <1>5, <2>2, <3>1, <3>2 DEF BookInv, SavedBehind
      <4> QED
        BY <1>5, <3>1, <4>1
    <3>3. CASE \/ saved' = marked
               \/ Len(saved') \in 0..Len(marked) /\ \A k \in 1..Len(saved') : saved'[k] = marked[k]
      <4>1. i \in 1..Len(ledger) /\ saved'[i] = marked[i]
        BY <1>5, <1>7, <3>3
      <4>2. ledger[i].id = ledger[j].id
        BY <1>5, <2>2, <3>1, <4>1
      <4>3. i = j
        BY <1>7, <3>1, <4>1, <4>2 DEF BookInv, LinesOK
      <4> QED
        BY <2>2, <3>1, <4>1, <4>3
    <3> QED
      BY <1>6, <3>2, <3>3
  <2> QED
    BY <2>1, <2>2 DEF SavedBehind
<1> QED
  BY <1>10, <1>13, <1>14, <1>15 DEF BookInv

\* load_ledger_locked() continues above the last line of the ledger file.
LEMMA NextAfterLines ==
  ASSUME BookInv
  PROVE  next_idOf(saved) \in 1..(MaxId + 1) /\ \A i \in 1..Len(saved) : saved[i].id < next_idOf(saved)
<1> DEFINE ids == {0} \union {saved[i].id : i \in DOMAIN saved}
<1>1. /\ Len(saved) \in Nat /\ DOMAIN saved = 1..Len(saved)
      /\ \A i \in 1..Len(saved) : saved[i].id \in 1..MaxId
  BY Records
<1>2. MaxId \in Nat
  BY QuarantineConstants
<1>3. ids \subseteq 0..MaxId
  BY <1>1, <1>2
<1>4. \E x \in ids : \A y \in ids : x >= y
  <2>1. CASE Len(saved) = 0
    <3>1. ids = {0}
      BY <1>1, <2>1
    <3> QED
      BY <3>1
  <2>2. CASE Len(saved) > 0
    <3>1. Len(saved) \in 1..Len(saved)
      BY <1>1, <2>2
    <3>2. \A i \in 1..Len(saved) : saved[Len(saved)].id >= saved[i].id
      <4>1. ASSUME NEW i \in 1..Len(saved) PROVE saved[Len(saved)].id >= saved[i].id
        <5>1. CASE i = Len(saved)
          BY <1>1, <5>1
        <5>2. CASE i # Len(saved)
          <6>1. i < Len(saved)
            <7>1. Len(saved) \in Nat
              BY <1>1
            <7> HIDE DEF ids
            <7> QED
              BY <5>2, <7>1
          <6>2. saved[i].id < saved[Len(saved)].id
            BY <3>1, <6>1 DEF BookInv, LinesOK
          <6> QED
            BY <1>1, <3>1, <6>2
        <5> QED
          BY <5>1, <5>2
      <4> QED
        BY <4>1
    <3>3. saved[Len(saved)].id \in ids
      BY <1>1, <3>1
    <3>4. saved[Len(saved)].id >= 0
      BY <1>1, <3>1
    <3>5. \A y \in ids : saved[Len(saved)].id >= y
      BY <1>1, <3>2, <3>4
    <3> QED
      BY <3>3, <3>5
  <2> QED
    BY <1>1, <2>1, <2>2
<1>5. Max(ids) \in ids /\ \A y \in ids : Max(ids) >= y
  BY <1>4 DEF Max
<1>6. \A i \in 1..Len(saved) : saved[i].id \in ids
  BY <1>1
<1>7. next_idOf(saved) = Max(ids) + 1
  BY DEF next_idOf
<1> DEFINE largest == Max(ids)
<1> HIDE DEF ids, largest
<1>8. largest \in 0..MaxId /\ \A i \in 1..Len(saved) : largest >= saved[i].id
  BY <1>3, <1>5, <1>6 DEF largest
<1> QED
  BY <1>1, <1>2, <1>7, <1>8 DEF largest

\* A crash loses the callers and what the ledger file lags behind.
LEMMA CrashBook ==
  ASSUME BookInv, UNCHANGED faults, CrashAndRestart
  PROVE  BookInv'
<1>1. /\ ledger' = saved /\ saved' = saved /\ lock' = Free /\ next_id' = next_idOf(saved)
      /\ pc' = [t \in Callers |-> "idle"] /\ job' = [t \in Callers |-> NoJob]
      /\ UNCHANGED <<faults, files, vault, custody>>
  BY DEF CrashAndRestart, fileVars
<1>2. next_id' \in 1..(MaxId + 1) /\ \A i \in 1..Len(saved) : saved[i].id < next_id'
  BY <1>1, NextAfterLines
<1>3. QuarTypeOK'
  BY <1>1, <1>2, QuarantineNames DEF BookInv, TypesOK, QuarTypeOK, Labels, Locked
<1>4. NoJob \in JobType
  BY QuarantineConstants DEF NoJob, JobType, FindingIds
<1>5. TypesOK'
  BY <1>1, <1>3, <1>4 DEF BookInv, TypesOK
<1>6. LinesOK(ledger)' /\ LinesOK(saved)'
  BY <1>1, <1>2 DEF BookInv, LinesOK
<1>7. JobsOK'
  BY <1>1 DEF JobsOK, Taking, Ending
<1>8. SavedBehind'
  <2>1. \A i, j \in 1..Len(saved) : saved[i].id = saved[j].id => i = j
    BY Records DEF BookInv, LinesOK
  <2> QED
    BY <1>1, <2>1 DEF SavedBehind
<1> QED
  BY <1>5, <1>6, <1>7, <1>8 DEF BookInv

\* Another program that rewrites a file (OthersWrite) does not touch the books.
LEMMA WriteBook ==
  ASSUME BookInv, UNCHANGED faults, NEW write \in Rewrites, OthersWrite(write[1], write[2])
  PROVE  BookInv'
<1>1. UNCHANGED <<ledger, saved, next_id, vault, custody, lock, pc, job, faults>>
  BY DEF OthersWrite, ledgerVars, callVars
<1>2. files' \in [Paths -> Contents \union {Absent, Zeros}]
  <2>1. write[2] \in Contents
    BY QuarantineConstants
  <2> QED
    BY <2>1 DEF OthersWrite, BookInv, TypesOK, QuarTypeOK
<1> QED
  BY <1>1, <1>2 DEF BookInv, TypesOK, QuarTypeOK, LinesOK, JobsOK, SavedBehind

-----------------------------------------------------------------------------
(* The file-system calls of a caller past the lock.                        *)

Work(t) ==
  \/ QuarantineRenames(t)
  \/ QuarantineCopies(t)
  \/ QuarantineCannotCopy(t)
  \/ QuarantineRemoves(t)
  \/ QuarantineCannotRemove(t)
  \/ QuarantineUndoes(t)
  \/ RestoreRenames(t)
  \/ RestoreCopies(t)
  \/ RestoreCannotCopy(t)
  \/ RestoreClears(t)
  \/ ShredWipes(t)
  \/ ShredRemoves(t)

\* Such a call touches its own path and its own slot only, and stays within
\* its operation.
LEMMA WorkFrame ==
  ASSUME BookInv, NEW t \in Callers, Work(t)
  PROVE  /\ pc[t] \in Locked
         /\ UNCHANGED ledgerVars
         /\ files' \in [Paths -> Contents \union {Absent, Zeros}]
         /\ vault' \in [1..MaxId -> Contents \union {Absent, Zeros}]
         /\ custody' \subseteq (1..MaxId) \X (Contents \union {Absent, Zeros})
         /\ \A p \in Paths : p # job[t].path => files'[p] = files[p]
         /\ \A id \in 1..MaxId : id # job[t].id => vault'[id] = vault[id]
         /\ \A held : held[1] # job[t].id => (held \in custody' <=> held \in custody)
         /\ \/ Return(t)
            \/ /\ \E label \in IF pc[t] \in Taking THEN Taking ELSE Ending : Goto(t, label)
               /\ UNCHANGED <<lock, job>>
<1> DEFINE id == job[t].id
           path == job[t].path
<1>1. pc[t] \in Locked
  BY DEF Work, QuarantineRenames, QuarantineCopies, QuarantineCannotCopy, QuarantineRemoves,
         QuarantineCannotRemove, QuarantineUndoes, RestoreRenames, RestoreCopies, RestoreCannotCopy,
         RestoreClears, ShredWipes, ShredRemoves, At, Locked, Labels
<1>2. id \in 1..MaxId /\ path \in Paths
  BY <1>1, Alone
<1>3. /\ files \in [Paths -> Contents \union {Absent, Zeros}]
      /\ vault \in [1..MaxId -> Contents \union {Absent, Zeros}]
      /\ custody \subseteq (1..MaxId) \X (Contents \union {Absent, Zeros})
  BY DEF BookInv, TypesOK, QuarTypeOK
<1>4. /\ UNCHANGED ledgerVars
      /\ \/ Return(t)
         \/ /\ \E label \in IF pc[t] \in Taking THEN Taking ELSE Ending : Goto(t, label)
            /\ UNCHANGED <<lock, job>>
  <2>1. UNCHANGED ledgerVars
    BY DEF Work, QuarantineRenames, QuarantineCopies, QuarantineCannotCopy, QuarantineRemoves,
           QuarantineCannotRemove, QuarantineUndoes, RestoreRenames, RestoreCopies, RestoreCannotCopy,
           RestoreClears, ShredWipes, ShredRemoves
  <2>2. CASE QuarantineCannotCopy(t) \/ QuarantineUndoes(t) \/ RestoreCannotCopy(t)
    BY <2>1, <2>2 DEF QuarantineCannotCopy, QuarantineUndoes, RestoreCannotCopy
  <2>3. CASE QuarantineRenames(t) \/ QuarantineCopies(t) \/ QuarantineRemoves(t) \/ QuarantineCannotRemove(t)
    BY <2>1, <2>3 DEF QuarantineRenames, QuarantineCopies, QuarantineRemoves, QuarantineCannotRemove, At, Taking
  <2>4. CASE RestoreRenames(t) \/ RestoreCopies(t) \/ RestoreClears(t) \/ ShredWipes(t) \/ ShredRemoves(t)
    BY <2>1, <2>4 DEF RestoreRenames, RestoreCopies, RestoreClears, ShredWipes, ShredRemoves, At, Taking, Ending
  <2> QED
    BY <2>2, <2>3, <2>4 DEF Work
<1>5. \/ files' = files
      \/ files' = [files EXCEPT ![path] = Absent]
      \/ files' = [files EXCEPT ![path] = vault[id]]
  BY DEF Work, QuarantineRenames, QuarantineCopies, QuarantineCannotCopy, QuarantineRemoves,
         QuarantineCannotRemove, QuarantineUndoes, RestoreRenames, RestoreCopies, RestoreCannotCopy,
         RestoreClears, ShredWipes, ShredRemoves, Store, fileVars
<1>6. \/ vault' = vault
      \/ vault' = [vault EXCEPT ![id] = Absent]
      \/ vault' = [vault EXCEPT ![id] = Zeros]
      \/ vault' = [vault EXCEPT ![id] = files[path]]
  BY DEF Work, QuarantineRenames, QuarantineCopies, QuarantineCannotCopy, QuarantineRemoves,
         QuarantineCannotRemove, QuarantineUndoes, RestoreRenames, RestoreCopies, RestoreCannotCopy,
         RestoreClears, ShredWipes, ShredRemoves, Store, fileVars
<1>7. /\ custody' \subseteq (1..MaxId) \X (Contents \union {Absent, Zeros})
      /\ \A held : held[1] # id => (held \in custody' <=> held \in custody)
  <2>1. CASE QuarantineRenames(t)
    <3>1. custody' = custody \union {<<id, files[path]>>} /\ files[path] \in Contents \union {Zeros}
      BY <1>2, <1>3, <2>1 DEF QuarantineRenames
    <3> QED
      BY <1>2, <1>3, <3>1
  <2>2. CASE QuarantineRemoves(t)
    <3>1. custody' = custody \union {<<id, files[path]>>}
      BY <2>2 DEF QuarantineRemoves
    <3> QED
      BY <1>2, <1>3, <3>1
  <2>3. CASE RestoreRenames(t) \/ RestoreCopies(t) \/ ShredWipes(t)
    <3>1. custody' = custody \ {<<id, vault[id]>>}
      BY <2>3 DEF RestoreRenames, RestoreCopies, ShredWipes
    <3> QED
      BY <1>2, <1>3, <3>1
  <2>4. CASE \/ QuarantineCopies(t) \/ QuarantineCannotCopy(t) \/ QuarantineCannotRemove(t)
             \/ QuarantineUndoes(t) \/ RestoreCannotCopy(t) \/ RestoreClears(t) \/ ShredRemoves(t)
    <3>1. custody' = custody
      BY <2>4 DEF QuarantineCopies, QuarantineCannotCopy, QuarantineCannotRemove, QuarantineUndoes,
                  RestoreCannotCopy, RestoreClears, ShredRemoves, fileVars
    <3> QED
      BY <1>3, <3>1
  <2> QED
    BY <2>1, <2>2, <2>3, <2>4 DEF Work
<1> HIDE DEF id, path
<1>8. files' \in [Paths -> Contents \union {Absent, Zeros}] /\ \A p \in Paths : p # path => files'[p] = files[p]
  BY <1>2, <1>3, <1>5
<1>9. vault' \in [1..MaxId -> Contents \union {Absent, Zeros}] /\ \A i \in 1..MaxId : i # id => vault'[i] = vault[i]
  BY <1>2, <1>3, <1>6
<1> QED
  BY <1>1, <1>4, <1>7, <1>8, <1>9 DEF id, path

\* The record that restore() or shred() goes for.
LEMMA FoundRecord ==
  ASSUME BookInv, NEW t \in Callers, NEW id \in 1..MaxId, RestoreFinds(t, id) \/ ShredFinds(t, id)
  PROVE  /\ pc[t] = "idle" /\ lock = Free
         /\ \E i \in 1..Len(ledger) :
              /\ ledger[i].id = id /\ ~ledger[i].restored /\ ~ledger[i].shredded
              /\ \/ Hold(t, i, "r_move") /\ files[ledger[i].original_path] = Absent /\ vault[id] # Absent
                 \/ Hold(t, i, "s_wipe")
                 \/ Hold(t, i, "s_save") /\ vault[id] = Absent
<1>1. DOMAIN ledger = 1..Len(ledger)
  BY Records
<1>2. CASE RestoreFinds(t, id)
  BY <1>1, <1>2 DEF RestoreFinds, Find, At
<1>3. CASE ShredFinds(t, id)
  BY <1>1, <1>3 DEF ShredFinds, Find, At
<1> QED
  BY <1>2, <1>3

\* The kinds of steps the executor can take.
LEMMA StepKinds ==
  ASSUME [QuarNext]_quarVars
  PROVE  /\ UNCHANGED faults
         /\ \/ UNCHANGED quarVars
            \/ \E t \in Callers :
                 \/ \E candidate \in Candidates : QuarantineChecks(t, candidate)
                 \/ QuarantineFull(t)
                 \/ QuarantineReserves(t)
                 \/ \E id \in 1..MaxId : RestoreFinds(t, id) \/ ShredFinds(t, id)
                 \/ Work(t)
                 \/ QuarantineRecords(t)
                 \/ Saves(t)
            \/ CrashAndRestart
            \/ \E write \in Rewrites : OthersWrite(write[1], write[2])
<1>1. CASE UNCHANGED quarVars
  BY <1>1 DEF quarVars
<1>2. CASE QuarNext
  <2>1. ASSUME NEW t \in Callers, QuarantineStep(t)
        PROVE  \/ UNCHANGED quarVars
               \/ \E candidate \in Candidates : QuarantineChecks(t, candidate)
               \/ QuarantineFull(t) \/ QuarantineReserves(t) \/ Work(t) \/ QuarantineRecords(t)
    BY <2>1 DEF QuarantineStep, QuarantineDenied, Work
  <2>2. ASSUME NEW t \in Callers, RestoreStep(t) \/ ShredStep(t)
        PROVE  Work(t) \/ \E id \in 1..MaxId : RestoreFinds(t, id) \/ ShredFinds(t, id)
    BY <2>2 DEF RestoreStep, ShredStep, Work
  <2> QED
    BY <1>2, <2>1, <2>2 DEF QuarNext
<1> QED
  BY <1>1, <1>2

\* The bookkeeping survives every step.
LEMMA BookStep == BookInv /\ [QuarNext]_quarVars => BookInv'
<1> SUFFICES ASSUME BookInv, [QuarNext]_quarVars PROVE BookInv'
  OBVIOUS
<1>0. UNCHANGED faults
  BY StepKinds
<1>1. CASE UNCHANGED quarVars
  BY <1>1 DEF quarVars, fileVars, ledgerVars, callVars, BookInv, TypesOK, QuarTypeOK, LinesOK, JobsOK, SavedBehind
<1>2. ASSUME NEW t \in Callers,
             (\E candidate \in Candidates : QuarantineChecks(t, candidate)) \/ QuarantineFull(t)
      PROVE  BookInv'
  <2>1. UNCHANGED <<fileVars, ledgerVars>>
    BY <1>2 DEF QuarantineChecks, QuarantineFull
  <2> QED
    BY <1>0, <1>2, <2>1, OutsideBook
<1>3. ASSUME NEW t \in Callers, QuarantineReserves(t) PROVE BookInv'
  BY <1>0, <1>3, ReserveBook
<1>4. ASSUME NEW t \in Callers, NEW id \in 1..MaxId, RestoreFinds(t, id) \/ ShredFinds(t, id) PROVE BookInv'
  <2>1. pc[t] = "idle" /\ lock = Free
    BY <1>4, FoundRecord
  <2>2. PICK i \in 1..Len(ledger), label \in Ending :
          ~ledger[i].restored /\ ~ledger[i].shredded /\ Hold(t, i, label)
    BY <1>4, FoundRecord DEF Ending
  <2> QED
    BY <1>0, <2>1, <2>2, HoldBook
<1>5. ASSUME NEW t \in Callers, Work(t) PROVE BookInv'
  BY <1>0, <1>5, WorkFrame, WorkBook
<1>6. ASSUME NEW t \in Callers, QuarantineRecords(t) PROVE BookInv'
  BY <1>0, <1>6, RecordBook
<1>7. ASSUME NEW t \in Callers, Saves(t) PROVE BookInv'
  BY <1>0, <1>7, SaveBook
<1>8. CASE CrashAndRestart
  BY <1>0, <1>8, CrashBook
<1>9. ASSUME NEW write \in Rewrites, OthersWrite(write[1], write[2]) PROVE BookInv'
  BY <1>0, <1>9, WriteBook
<1> QED
  BY <1>1, <1>2, <1>3, <1>4, <1>5, <1>6, <1>7, <1>8, <1>9, StepKinds

\* The bookkeeping of quarantine(), restore() and shred() is inductive, under
\* every set of faults: types, fresh ids, the ledger and its file in step, and
\* what each call at work knows about its record.
THEOREM BooksAreKept == QuarSpec => []BookInv
BY BookInit, BookStep, PTL DEF QuarSpec

\* FinishedOnce, one step of it.
LEMMA FinishedStep ==
  ASSUME BookInv, [QuarNext]_quarVars
  PROVE  \A i \in DOMAIN ledger :
           ledger[i].restored \/ ledger[i].shredded =>
             /\ ~(ledger[i].restored /\ ledger[i].shredded)
             /\ \/ i \in DOMAIN ledger' /\ ledger'[i] = ledger[i]
                \/ faults \intersect {"append", "disk_full"} # {}
<1>1. Len(ledger) \in Nat /\ DOMAIN ledger = 1..Len(ledger) /\ ledger \in Seq(RecordType)
  BY Records DEF BookInv, TypesOK
<1> SUFFICES ASSUME NEW i \in 1..Len(ledger), ledger[i].restored \/ ledger[i].shredded,
                    faults \intersect {"append", "disk_full"} = {}
             PROVE  i \in DOMAIN ledger' /\ ledger'[i] = ledger[i]
  BY <1>1 DEF BookInv, LinesOK
<1>2. CASE ledger' = ledger
  BY <1>1, <1>2
<1>3. ASSUME NEW t \in Callers, QuarantineRecords(t) PROVE i \in DOMAIN ledger' /\ ledger'[i] = ledger[i]
  <2>1. pc[t] \in Locked
    BY <1>3 DEF QuarantineRecords, At, Locked, Labels
  <2>2. job[t].id \in 1..MaxId /\ job[t].path \in Paths /\ job[t].sha256 \in Contents
    BY <2>1, Alone
  <2>3. job[t].finding_id \in FindingIds
    BY DEF BookInv, TypesOK, JobType
  <2>4. RecordOf(t) \in RecordType
    BY <2>2, <2>3 DEF RecordOf, RecordType
  <2>5. ledger' = Append(ledger, RecordOf(t))
    BY <1>3 DEF QuarantineRecords
  <2>6. /\ ledger' \in Seq(RecordType) /\ Len(ledger') = Len(ledger) + 1
        /\ \A k \in 1..Len(ledger) : ledger'[k] = ledger[k]
    BY <1>1, <2>4, <2>5, AppendProperties
  <2>7. DOMAIN ledger' = 1..Len(ledger')
    BY <2>6, LenProperties
  <2> QED
    BY <1>1, <2>6, <2>7
<1>4. ASSUME NEW t \in Callers, Saves(t) PROVE i \in DOMAIN ledger' /\ ledger'[i] = ledger[i]
  <2>1. /\ Marked(t) \in Seq(RecordType) /\ Len(Marked(t)) = Len(ledger)
        /\ ledger[i].id # job[t].id => Marked(t)[i] = ledger[i]
        /\ ledger[i].id = job[t].id => ~ledger[i].restored /\ ~ledger[i].shredded
    BY <1>4, MarkedLedger DEF Saves
  <2>2. DOMAIN Marked(t) = 1..Len(ledger)
    BY <2>1, LenProperties
  <2> QED
    BY <1>4, <2>1, <2>2 DEF Saves
<1>5. CASE CrashAndRestart
  BY <1>1, <1>5 DEF CrashAndRestart, BookInv, SavedBehind
<1>6. ledger' = ledger \/ CrashAndRestart \/ \E t \in Callers : QuarantineRecords(t) \/ Saves(t)
  <2>1. ASSUME NEW t \in Callers, Work(t) PROVE ledger' = ledger
    BY <2>1, WorkFrame DEF ledgerVars
  <2> QED
    BY <2>1, StepKinds DEF quarVars, ledgerVars, QuarantineChecks, QuarantineFull, QuarantineReserves,
                           RestoreFinds, ShredFinds, Hold, OthersWrite
<1> QED
  BY <1>2, <1>3, <1>4, <1>5, <1>6

\* Restored or shredded is final, and never both, for any number of callers
\* whose restore() and shred() race, and across crashes, as long as the ledger
\* file can be written.
THEOREM RecordsEndOnce == QuarSpec => FinishedOnce
<1>1. BookInv /\ [QuarNext]_quarVars =>
        [\A i \in DOMAIN ledger :
           ledger[i].restored \/ ledger[i].shredded =>
             /\ ~(ledger[i].restored /\ ledger[i].shredded)
             /\ \/ i \in DOMAIN ledger' /\ ledger'[i] = ledger[i]
                \/ faults \intersect {"append", "disk_full"} # {}]_quarVars
  BY FinishedStep
<1> QED
  BY <1>1, BooksAreKept, PTL DEF QuarSpec, FinishedOnce

-----------------------------------------------------------------------------
(* What is in the files.                                                   *)

\* Where a record of the ledger files has the id that a caller works on, the
\* caller is in restore() or shred().
LEMMA OwnSlot ==
  ASSUME BookInv, NEW t \in Callers, pc[t] \in Taking
  PROVE  /\ \A i \in 1..Len(ledger) : ledger[i].id # job[t].id
         /\ \A i \in 1..Len(saved) : saved[i].id # job[t].id
<1>1. /\ \A i \in 1..Len(ledger) : ledger[i].id \in 1..MaxId
      /\ \A i \in 1..Len(saved) : saved[i].id \in 1..MaxId
  BY Records
<1>2. /\ \A i \in 1..Len(ledger) : ledger[i].id < job[t].id
      /\ \A i \in 1..Len(saved) : saved[i].id < job[t].id
      /\ job[t].id \in 1..MaxId
  BY DEF BookInv, JobsOK
<1> QED
  BY <1>1, <1>2

\* What each step of quarantine() past the lock does to its path and slot.
LEMMA TakingWork ==
  ASSUME BookInv, NEW t \in Callers, Work(t), pc[t] \in Taking
  PROVE  \/ /\ pc[t] = "q_move" /\ pc'[t] = "q_record" /\ files[job[t].path] # Absent
            /\ vault'[job[t].id] = files[job[t].path] /\ files'[job[t].path] = Absent
            /\ custody' = custody \union {<<job[t].id, files[job[t].path]>>}
         \/ /\ pc[t] = "q_move" /\ pc'[t] = "q_remove" /\ files[job[t].path] # Absent /\ "rename" \in faults
            /\ vault'[job[t].id] = files[job[t].path] /\ UNCHANGED <<files, custody>>
         \/ /\ pc[t] = "q_remove" /\ pc'[t] = "q_record" /\ files'[job[t].path] = Absent
            /\ custody' = custody \union {<<job[t].id, files[job[t].path]>>} /\ UNCHANGED vault
         \/ /\ pc[t] = "q_remove" /\ pc'[t] = "q_undo" /\ UNCHANGED fileVars
         \/ /\ pc[t] = "q_move" /\ pc'[t] = "idle" /\ UNCHANGED fileVars
         \/ /\ pc[t] = "q_undo" /\ pc'[t] = "idle" /\ UNCHANGED <<files, custody>>
            /\ vault'[job[t].id] = Absent \/ vault' = vault
<1>1. pc[t] \in Locked
  BY DEF Taking, Locked, Labels
<1>2. job[t].id \in 1..MaxId /\ job[t].path \in Paths
  BY <1>1, Alone
<1>3. files \in [Paths -> Contents \union {Absent, Zeros}] /\ vault \in [1..MaxId -> Contents \union {Absent, Zeros}]
      /\ pc \in [Callers -> Labels]
  BY DEF BookInv, TypesOK, QuarTypeOK
<1>4. \/ QuarantineRenames(t) \/ QuarantineCopies(t) \/ QuarantineCannotCopy(t)
      \/ QuarantineRemoves(t) \/ QuarantineCannotRemove(t) \/ QuarantineUndoes(t)
  BY DEF Work, RestoreRenames, RestoreCopies, RestoreCannotCopy, RestoreClears, ShredWipes, ShredRemoves, At, Taking
<1>5. CASE QuarantineRenames(t)
  BY <1>2, <1>3, <1>5 DEF QuarantineRenames, At, Goto, Store
<1>6. CASE QuarantineCopies(t)
  BY <1>2, <1>3, <1>6 DEF QuarantineCopies, At, Goto, Store
<1>7. CASE QuarantineRemoves(t)
  BY <1>2, <1>3, <1>7 DEF QuarantineRemoves, At, Goto, Store
<1>8. CASE QuarantineCannotCopy(t) \/ QuarantineCannotRemove(t)
  BY <1>3, <1>8 DEF QuarantineCannotCopy, QuarantineCannotRemove, At, Goto, Return
<1>9. CASE QuarantineUndoes(t)
  BY <1>2, <1>3, <1>9 DEF QuarantineUndoes, At, Goto, Return, Store
<1> QED
  BY <1>4, <1>5, <1>6, <1>7, <1>8, <1>9

\* What each step of restore() and shred() past the lock does to them.
LEMMA EndingWork ==
  ASSUME BookInv, NEW t \in Callers, Work(t), pc[t] \notin Taking
  PROVE  /\ pc[t] \in Ending
         /\ \/ /\ pc[t] = "r_move" /\ pc'[t] = "r_save"
               /\ files'[job[t].path] = vault[job[t].id] /\ vault'[job[t].id] = Absent
               /\ custody' = custody \ {<<job[t].id, vault[job[t].id]>>}
            \/ /\ pc[t] = "r_move" /\ pc'[t] = "r_clear" /\ files[job[t].path] = Absent
               /\ files'[job[t].path] = vault[job[t].id] /\ UNCHANGED vault
               /\ custody' = custody \ {<<job[t].id, vault[job[t].id]>>}
            \/ /\ pc[t] = "r_move" /\ pc'[t] = "idle" /\ files[job[t].path] # Absent /\ UNCHANGED fileVars
            \/ /\ pc[t] = "r_clear" /\ pc'[t] = "r_save" /\ UNCHANGED <<files, custody>>
               /\ vault'[job[t].id] = Absent \/ vault' = vault
            \/ /\ pc[t] = "s_wipe" /\ pc'[t] = "s_remove" /\ UNCHANGED files
               /\ vault'[job[t].id] = Zeros \/ vault' = vault
               /\ custody' = custody \ {<<job[t].id, vault[job[t].id]>>}
            \/ /\ pc[t] = "s_remove" /\ pc'[t] = "s_save" /\ UNCHANGED <<files, custody>>
               /\ vault'[job[t].id] = Absent \/ (vault' = vault /\ "locked" \in faults)
<1>1. \/ RestoreRenames(t) \/ RestoreCopies(t) \/ RestoreCannotCopy(t)
      \/ RestoreClears(t) \/ ShredWipes(t) \/ ShredRemoves(t)
  BY DEF Work, QuarantineRenames, QuarantineCopies, QuarantineCannotCopy, QuarantineRemoves,
         QuarantineCannotRemove, QuarantineUndoes, At, Taking
<1>2. pc[t] \in Ending /\ pc[t] \in Locked
  BY <1>1 DEF RestoreRenames, RestoreCopies, RestoreCannotCopy, RestoreClears, ShredWipes, ShredRemoves,
              At, Ending, Locked, Labels
<1>3. job[t].id \in 1..MaxId /\ job[t].path \in Paths
  BY <1>2, Alone
<1>4. files \in [Paths -> Contents \union {Absent, Zeros}] /\ vault \in [1..MaxId -> Contents \union {Absent, Zeros}]
      /\ pc \in [Callers -> Labels]
  BY DEF BookInv, TypesOK, QuarTypeOK
<1>5. CASE RestoreRenames(t)
  BY <1>2, <1>3, <1>4, <1>5 DEF RestoreRenames, At, Goto, Store
<1>6. CASE RestoreCopies(t)
  BY <1>2, <1>3, <1>4, <1>6 DEF RestoreCopies, At, Goto, Store
<1>7. CASE RestoreCannotCopy(t)
  BY <1>2, <1>4, <1>7 DEF RestoreCannotCopy, At, Goto, Return
<1>8. CASE RestoreClears(t)
  BY <1>2, <1>3, <1>4, <1>8 DEF RestoreClears, At, Goto, Store
<1>9. CASE ShredWipes(t)
  BY <1>2, <1>3, <1>4, <1>9 DEF ShredWipes, At, Goto, Store
<1>10. CASE ShredRemoves(t)
  BY <1>2, <1>3, <1>4, <1>10 DEF ShredRemoves, At, Goto, Store
<1> QED
  BY <1>1, <1>5, <1>6, <1>7, <1>8, <1>9, <1>10

\* What a work step does to the callers.
LEMMA WorkCallers ==
  ASSUME BookInv, NEW t \in Callers, Work(t)
  PROVE  /\ \A u \in Callers : u # t => pc'[u] = pc[u] /\ pc[u] \in {"idle", "q_lock"} /\ job'[u] = job[u]
         /\ pc'[t] # "idle" => job'[t] = job[t]
         /\ job[t].id \in 1..MaxId /\ job[t].path \in Paths /\ job[t].sha256 \in Contents
<1>1. pc[t] \in Locked
  BY WorkFrame
<1>2. /\ \A u \in Callers : u # t => pc[u] \in {"idle", "q_lock"}
      /\ job[t].id \in 1..MaxId /\ job[t].path \in Paths /\ job[t].sha256 \in Contents
  BY <1>1, Alone
<1>3. pc \in [Callers -> Labels] /\ job \in [Callers -> JobType]
  BY DEF BookInv, TypesOK, QuarTypeOK
<1>4. CASE Return(t)
  BY <1>2, <1>3, <1>4 DEF Return, Goto
<1>5. CASE UNCHANGED <<lock, job>> /\ \E label \in IF pc[t] \in Taking THEN Taking ELSE Ending : Goto(t, label)
  BY <1>2, <1>3, <1>5 DEF Goto
<1> QED
  BY <1>4, <1>5, WorkFrame

\* OwnContent: nothing but its own content, or zeros, at a path or in a slot.
LEMMA OwnContentInit == QuarInit => OwnContent
BY QuarantineConstants, EmptySeq DEF QuarInit, OwnContent, Taking

\* Where nobody else writes, no step puts foreign content at a path or under an
\* id: quarantine() and restore() move what they found.
LEMMA OwnContentStep == BookInv /\ OwnContent /\ [QuarNext]_quarVars => OwnContent'
<1> SUFFICES ASSUME BookInv, OwnContent, [QuarNext]_quarVars, "rewrite" \notin faults
             PROVE  OwnContent'
  BY StepKinds DEF OwnContent
<1> DEFINE Own(x, p) == x \in {InitialFiles[p], Absent, Zeros}
           LinesOwn(lines, v) ==
             \A i \in 1..Len(lines) :
               /\ lines[i].sha256_at_quarantine = InitialFiles[lines[i].original_path]
               /\ Own(v[lines[i].id], lines[i].original_path)
           CallersOwn(c, j, v) ==
             \A t \in Callers :
               /\ c[t] \in Taking \union {"q_lock"} => j[t].sha256 = InitialFiles[j[t].path]
               /\ c[t] \in {"q_remove", "q_record"} => v[j[t].id] \in {InitialFiles[j[t].path], Zeros}
<1>1. /\ \A p \in Paths : Own(files[p], p)
      /\ LinesOwn(ledger, vault) /\ LinesOwn(saved, vault)
      /\ CallersOwn(pc, job, vault)
  BY DEF OwnContent
<1>2. SUFFICES /\ \A p \in Paths : Own(files'[p], p)
               /\ LinesOwn(ledger', vault') /\ LinesOwn(saved', vault')
               /\ CallersOwn(pc', job', vault')
  BY DEF OwnContent
<1>3. /\ pc \in [Callers -> Labels] /\ job \in [Callers -> JobType]
      /\ files \in [Paths -> Contents \union {Absent, Zeros}]
      /\ vault \in [1..MaxId -> Contents \union {Absent, Zeros}]
  BY DEF BookInv, TypesOK, QuarTypeOK
<1>4. CASE UNCHANGED quarVars
  BY <1>1, <1>4 DEF quarVars, fileVars, ledgerVars, callVars
<1>5. ASSUME NEW t \in Callers, NEW candidate \in Candidates, QuarantineChecks(t, candidate)
      PROVE  <1>2!1
  <2>1. /\ UNCHANGED <<files, vault, ledger, saved>> /\ pc' = [pc EXCEPT ![t] = "q_lock"]
        /\ job' = [job EXCEPT ![t] = [id         |-> 0,
                                      finding_id |-> candidate.finding_id,
                                      path       |-> candidate.target_path,
                                      sha256     |-> files[candidate.target_path]]]
    BY <1>5 DEF QuarantineChecks, fileVars, ledgerVars, Goto
  <2>2. candidate.target_path \in Paths /\ files[candidate.target_path] \in Contents
    BY <1>5, QuarantineConstants DEF QuarantineChecks, Passes
  <2>3. files[candidate.target_path] = InitialFiles[candidate.target_path]
    BY <1>1, <2>2, QuarantineNames
  <2>4. job'[t].path = candidate.target_path /\ job'[t].sha256 = files[candidate.target_path]
    BY <1>3, <2>1
  <2>5. CallersOwn(pc', job', vault')
    BY <1>1, <1>3, <2>1, <2>3, <2>4
  <2> QED
    BY <1>1, <2>1, <2>5
<1>6. ASSUME NEW t \in Callers, QuarantineFull(t) PROVE <1>2!1
  <2>1. UNCHANGED <<files, vault, ledger, saved>> /\ pc' = [pc EXCEPT ![t] = "idle"] /\ job' = [job EXCEPT ![t] = NoJob]
    BY <1>6 DEF QuarantineFull, fileVars, ledgerVars, Goto, Return
  <2>2. CallersOwn(pc', job', vault')
    BY <1>1, <1>3, <2>1 DEF Taking
  <2> QED
    BY <1>1, <2>1, <2>2
<1>7. ASSUME NEW t \in Callers, QuarantineReserves(t) PROVE <1>2!1
  <2>1. /\ UNCHANGED <<files, vault, ledger, saved>> /\ pc' = [pc EXCEPT ![t] = "q_move"] /\ pc[t] = "q_lock"
        /\ job' = [job EXCEPT ![t].id = next_id]
    BY <1>7 DEF QuarantineReserves, fileVars, Goto, At
  <2>2. job'[t].path = job[t].path /\ job'[t].sha256 = job[t].sha256
    BY <1>3, <2>1 DEF JobType
  <2>3. CallersOwn(pc', job', vault')
    BY <1>1, <1>3, <2>1, <2>2
  <2> QED
    BY <1>1, <2>1, <2>3
<1>8. ASSUME NEW t \in Callers, NEW id \in 1..MaxId, RestoreFinds(t, id) \/ ShredFinds(t, id) PROVE <1>2!1
  <2>1. PICK i \in 1..Len(ledger), label \in Ending : Hold(t, i, label)
    BY <1>8, FoundRecord DEF Ending
  <2>2. UNCHANGED <<files, vault, ledger, saved>> /\ pc' = [pc EXCEPT ![t] = label]
    BY <2>1 DEF Hold, fileVars, ledgerVars, Goto
  <2>3. \A u \in Callers : u # t => job'[u] = job[u]
    BY <1>3, <2>1 DEF Hold
  <2>4. CallersOwn(pc', job', vault')
    BY <1>1, <1>3, <2>2, <2>3 DEF Taking, Ending
  <2> QED
    BY <1>1, <2>2, <2>4
<1>9. ASSUME NEW t \in Callers, Work(t) PROVE <1>2!1
  <2>1. /\ UNCHANGED <<ledger, saved>>
        /\ \A p \in Paths : p # job[t].path => files'[p] = files[p]
        /\ \A id \in 1..MaxId : id # job[t].id => vault'[id] = vault[id]
    BY <1>9, WorkFrame DEF ledgerVars
  <2>2. /\ \A u \in Callers : u # t => pc'[u] = pc[u] /\ pc[u] \in {"idle", "q_lock"} /\ job'[u] = job[u]
        /\ pc'[t] # "idle" => job'[t] = job[t]
        /\ job[t].id \in 1..MaxId /\ job[t].path \in Paths /\ job[t].sha256 \in Contents
    BY <1>9, WorkCallers
  <2>3. /\ \A i \in 1..Len(ledger) : ledger[i].id \in 1..MaxId
        /\ \A i \in 1..Len(saved) : saved[i].id \in 1..MaxId
    BY Records
  <2>4. CASE pc[t] \in Taking
    <3>1. LinesOwn(ledger', vault') /\ LinesOwn(saved', vault')
      BY <1>1, <2>1, <2>3, <2>4, OwnSlot
    <3>2. files'[job[t].path] \in {files[job[t].path], Absent}
      BY <1>9, <2>4, TakingWork DEF fileVars
    <3>3. pc'[t] \in {"q_remove", "q_record"} => vault'[job[t].id] \in {InitialFiles[job[t].path], Zeros}
      BY <1>1, <1>9, <2>2, <2>4, TakingWork
    <3>4. CallersOwn(pc', job', vault')
      BY <1>1, <2>2, <2>4, <3>3 DEF Taking
    <3> QED
      BY <1>1, <2>1, <2>2, <3>1, <3>2, <3>4
  <2>5. CASE pc[t] \notin Taking
    <3>1. vault'[job[t].id] \in {Absent, Zeros, vault[job[t].id]}
      BY <1>9, <2>5, EndingWork DEF fileVars
    <3>2. \A id \in 1..MaxId : vault'[id] \in {Absent, Zeros, vault[id]}
      BY <2>1, <3>1
    <3>8. LinesOwn(ledger', vault')
      BY <1>1, <2>1, <2>3, <3>2
    <3>9. LinesOwn(saved', vault')
      BY <1>1, <2>1, <2>3, <3>2
    <3>3. pc[t] \in Ending /\ files'[job[t].path] \in {files[job[t].path], vault[job[t].id]}
      BY <1>9, <2>5, EndingWork DEF fileVars
    <3>4. PICK i \in 1..Len(ledger) : ledger[i].id = job[t].id /\ ledger[i].original_path = job[t].path
      BY <3>3 DEF BookInv, JobsOK
    <3>5. Own(vault[job[t].id], job[t].path)
      BY <1>1, <3>4
    <3>6. pc'[t] \notin Taking \union {"q_lock"}
      BY <1>9, <2>5, EndingWork DEF Taking
    <3>7. CallersOwn(pc', job', vault')
      BY <1>1, <2>2, <3>6 DEF Taking
    <3> QED
      BY <1>1, <2>1, <2>2, <3>8, <3>9, <3>3, <3>5, <3>7
  <2> QED
    BY <2>4, <2>5
<1>10. ASSUME NEW t \in Callers, QuarantineRecords(t) PROVE <1>2!1
  <2>1. /\ UNCHANGED <<files, vault>> /\ pc[t] = "q_record"
        /\ pc' = [pc EXCEPT ![t] = "idle"] /\ job' = [job EXCEPT ![t] = NoJob]
    BY <1>10 DEF QuarantineRecords, fileVars, Goto, Return, At
  <2>2. CallersOwn(pc', job', vault')
    BY <1>1, <1>3, <2>1 DEF Taking
  <2>3. pc[t] \in Locked
    BY <2>1 DEF Locked, Labels
  <2>4. /\ job[t].id \in 1..MaxId /\ job[t].path \in Paths /\ job[t].sha256 \in Contents
        /\ job[t].finding_id \in FindingIds
    BY <1>3, <2>3, Alone DEF JobType
  <2> DEFINE r == RecordOf(t)
  <2>5. /\ r \in RecordType /\ r.id = job[t].id /\ r.original_path = job[t].path
        /\ r.sha256_at_quarantine = job[t].sha256
    BY <2>4 DEF RecordOf, RecordType
  <2>6. r.sha256_at_quarantine = InitialFiles[r.original_path] /\ Own(vault[r.id], r.original_path)
    BY <1>1, <2>1, <2>5 DEF Taking
  <2>7. ASSUME NEW lines \in Seq(RecordType), LinesOwn(lines, vault) PROVE LinesOwn(Append(lines, r), vault)
    <3> HIDE DEF r
    <3>1. /\ Len(Append(lines, r)) = Len(lines) + 1 /\ Len(lines) \in Nat
          /\ \A i \in 1..Len(lines) : Append(lines, r)[i] = lines[i]
          /\ Append(lines, r)[Len(lines) + 1] = r
      BY <2>5, AppendProperties, LenProperties
    <3>2. \A i \in 1..Len(Append(lines, r)) : i \in 1..Len(lines) \/ i = Len(lines) + 1
      BY <3>1
    <3> QED
      BY <2>6, <2>7, <3>1, <3>2
  <2>8. ledger \in Seq(RecordType) /\ saved \in Seq(RecordType)
    BY DEF BookInv, TypesOK
  <2>9. ledger' = Append(ledger, r) /\ (saved' = Append(saved, r) \/ saved' = saved)
    BY <1>10 DEF QuarantineRecords
  <2>10. LinesOwn(Append(ledger, r), vault) /\ LinesOwn(Append(saved, r), vault) /\ LinesOwn(saved, vault)
    BY <1>1, <2>7, <2>8
  <2> HIDE DEF r, LinesOwn
  <2>11. LinesOwn(ledger', vault') /\ LinesOwn(saved', vault')
    BY <2>1, <2>9, <2>10
  <2> QED
    BY <1>1, <2>1, <2>2, <2>11
<1>11. ASSUME NEW t \in Callers, Saves(t) PROVE <1>2!1
  <2>1. /\ UNCHANGED <<files, vault>> /\ ledger' = Marked(t)
        /\ pc' = [pc EXCEPT ![t] = "idle"] /\ job' = [job EXCEPT ![t] = NoJob]
    BY <1>11 DEF Saves, fileVars, Goto, Return
  <2>2. CallersOwn(pc', job', vault')
    BY <1>1, <1>3, <2>1 DEF Taking
  <2> DEFINE marked == Marked(t)
  <2>3. /\ Len(marked) = Len(ledger) /\ Len(ledger) \in Nat
        /\ \A i \in 1..Len(ledger) :
             /\ marked[i].id = ledger[i].id
             /\ marked[i].original_path = ledger[i].original_path
             /\ marked[i].sha256_at_quarantine = ledger[i].sha256_at_quarantine
    BY <1>11, MarkedLedger, Records DEF Saves
  <2>4. \/ saved' = saved
        \/ saved' = marked
        \/ Len(saved') \in 0..Len(marked) /\ \A i \in 1..Len(saved') : saved'[i] = marked[i]
    BY <1>11, RewrittenLines DEF Saves
  <2> HIDE DEF marked
  <2>5. LinesOwn(marked, vault)
    BY <1>1, <2>3
  <2>6. LinesOwn(saved', vault)
    <3>1. CASE Len(saved') \in 0..Len(marked) /\ \A i \in 1..Len(saved') : saved'[i] = marked[i]
      <4>1. \A i \in 1..Len(saved') : i \in 1..Len(marked)
        BY <2>3, <3>1
      <4> QED
        BY <2>5, <3>1, <4>1
    <3> QED
      BY <1>1, <2>4, <2>5, <3>1
  <2> QED
    BY <1>1, <2>1, <2>2, <2>5, <2>6 DEF marked
<1>12. CASE CrashAndRestart
  <2>1. UNCHANGED <<files, vault, saved>> /\ ledger' = saved /\ pc' = [t \in Callers |-> "idle"]
    BY <1>12 DEF CrashAndRestart, fileVars
  <2> QED
    BY <1>1, <2>1 DEF Taking
<1>13. ASSUME NEW write \in Rewrites, OthersWrite(write[1], write[2]) PROVE FALSE
  BY <1>13 DEF OthersWrite
<1> QED
  BY <1>4, <1>5, <1>6, <1>7, <1>8, <1>9, <1>10, <1>11, <1>12, <1>13, StepKinds

\* OneLife: what is taken stays in its slot while the process lives.
LEMMA OneLifeInit == QuarInit => OneLife
BY QuarantineConstants, QuarantineNames, EmptySeq
   DEF QuarInit, OneLife, CustodyKept, FreshSlotsEmpty, SlotsAsLeft, OpenRecordsHeld

\* ... through the steps that change no file and no slot.
LEMMA OneLifeCalls ==
  ASSUME BookInv, OneLife, BookInv', "crash" \notin faults, UNCHANGED <<fileVars, ledger, faults>>,
         NEW t \in Callers,
         \/ \E candidate \in Candidates : QuarantineChecks(t, candidate)
         \/ QuarantineFull(t)
         \/ QuarantineReserves(t)
         \/ \E id \in 1..MaxId : RestoreFinds(t, id) \/ ShredFinds(t, id)
  PROVE  OneLife'
<1>1. /\ \A p \in Paths : files[p] # Zeros
      /\ (~Overtaken => CustodyKept) /\ FreshSlotsEmpty /\ SlotsAsLeft /\ OpenRecordsHeld
  BY DEF OneLife
<1>2. UNCHANGED <<files, vault, custody, ledger, faults>>
  BY DEF fileVars
<1>3. (\A p \in Paths : files'[p] # Zeros) /\ (~Overtaken => CustodyKept)' /\ (Overtaken' <=> Overtaken)
  BY <1>1, <1>2 DEF CustodyKept, Overtaken
<1>4. pc \in [Callers -> Labels] /\ job \in [Callers -> JobType]
  BY DEF BookInv, TypesOK, QuarTypeOK
<1>5. CASE (\E candidate \in Candidates : QuarantineChecks(t, candidate)) \/ QuarantineFull(t)
  <2>1. /\ pc[t] \in {"idle", "q_lock"} /\ next_id' = next_id
        /\ pc' = [pc EXCEPT ![t] = "idle"] \/ pc' = [pc EXCEPT ![t] = "q_lock"]
        /\ \A u \in Callers : u # t => job'[u] = job[u]
    BY <1>4, <1>5 DEF QuarantineChecks, QuarantineFull, At, Goto, Return, ledgerVars
  <2>2. \A u \in Callers : \/ pc'[u] = pc[u] /\ job'[u] = job[u]
                           \/ pc[u] \in {"idle", "q_lock"} /\ pc'[u] \in {"idle", "q_lock"}
    BY <1>4, <2>1
  <2>3. SlotsAsLeft'
    BY <1>1, <1>2, <1>3, <2>2 DEF SlotsAsLeft
  <2>4. OpenRecordsHeld'
    BY <1>1, <1>2, <2>2 DEF OpenRecordsHeld, Ending
  <2> QED
    BY <1>1, <1>2, <1>3, <2>1, <2>3, <2>4 DEF OneLife, FreshSlotsEmpty
<1>6. CASE QuarantineReserves(t)
  <2>1. /\ pc[t] = "q_lock" /\ pc' = [pc EXCEPT ![t] = "q_move"] /\ lock = Free
        /\ next_id <= MaxId /\ next_id' = next_id + 1 /\ job' = [job EXCEPT ![t].id = next_id]
    BY <1>6 DEF QuarantineReserves, At, Goto
  <2>2. next_id \in Int /\ MaxId \in Nat /\ next_id >= 1 /\ custody \subseteq (1..MaxId) \X (Contents \union {Absent, Zeros})
    BY QuarantineConstants DEF BookInv, TypesOK, QuarTypeOK
  <2>3. next_id \in 1..MaxId
    <3>1. next_id <= MaxId
      BY <2>1
    <3> QED
      BY <2>2, <3>1
  <2>4. job'[t].id = next_id /\ \A u \in Callers : u # t => job'[u] = job[u]
    BY <1>4, <2>1 DEF JobType
  <2>5. FreshSlotsEmpty'
    <3>1. next_id' = next_id + 1
      BY <2>1
    <3>2. \A held \in custody : held[1] \in Int
      BY <2>2
    <3> QED
      BY <1>1, <1>2, <2>2, <3>1, <3>2 DEF FreshSlotsEmpty
  <2>6. vault[next_id] = Absent /\ \A held \in custody : held[1] # next_id
    BY <1>1, <2>2, <2>3 DEF FreshSlotsEmpty
  <2>7. SlotsAsLeft'
    BY <1>1, <1>2, <1>3, <1>4, <2>1, <2>4, <2>6 DEF SlotsAsLeft
  <2>8. OpenRecordsHeld'
    <3>1. \A u \in Callers : pc[u] \in {"idle", "q_lock"}
      BY <2>1, NobodyInside
    <3> QED
      BY <1>1, <1>2, <3>1 DEF OpenRecordsHeld, Ending
  <2> QED
    BY <1>3, <2>5, <2>7, <2>8 DEF OneLife
<1>7. ASSUME NEW id \in 1..MaxId, RestoreFinds(t, id) \/ ShredFinds(t, id) PROVE OneLife'
  <2>1. pc[t] = "idle" /\ lock = Free
    BY <1>7, FoundRecord
  <2>2. PICK i \in 1..Len(ledger) :
          /\ ledger[i].id = id /\ ~ledger[i].restored /\ ~ledger[i].shredded
          /\ \/ Hold(t, i, "r_move")
             \/ Hold(t, i, "s_wipe")
             \/ Hold(t, i, "s_save") /\ vault[id] = Absent
    BY <1>7, FoundRecord
  <2>3. \A u \in Callers : pc[u] \in {"idle", "q_lock"}
    BY <2>1, NobodyInside
  <2>4. \A k \in 1..Len(ledger) : ~ledger[k].restored /\ ~ledger[k].shredded => vault[ledger[k].id] \in Contents
    BY <1>1, <2>3 DEF OpenRecordsHeld, Ending
  <2>5. vault[id] \in Contents
    BY <2>2, <2>4
  <2>6. PICK label \in {"r_move", "s_wipe"} : Hold(t, i, label)
    BY <2>2, <2>5, QuarantineNames
  <2>7. /\ pc' = [pc EXCEPT ![t] = label] /\ next_id' = next_id
        /\ job'[t].id = id /\ \A u \in Callers : u # t => job'[u] = job[u]
    BY <1>4, <2>2, <2>6 DEF Hold, Goto, ledgerVars
  <2>8. SlotsAsLeft'
    BY <1>1, <1>2, <1>3, <1>4, <2>5, <2>7 DEF SlotsAsLeft
  <2>9. OpenRecordsHeld'
    BY <1>2, <2>4 DEF OpenRecordsHeld
  <2> QED
    BY <1>1, <1>2, <1>3, <2>7, <2>8, <2>9 DEF OneLife, FreshSlotsEmpty
<1> QED
  BY <1>5, <1>6, <1>7

\* ... through the file-system calls: the slot of the job is the only one that
\* changes.
LEMMA OneLifeWork ==
  ASSUME BookInv, OneLife, Undisturbed, "crash" \notin faults, UNCHANGED faults, NEW t \in Callers, Work(t)
  PROVE  OneLife'
<1> DEFINE id == job[t].id
           path == job[t].path
<1>1. /\ \A p \in Paths : files[p] # Zeros
      /\ (~Overtaken => CustodyKept) /\ FreshSlotsEmpty /\ SlotsAsLeft /\ OpenRecordsHeld
  BY DEF OneLife
<1>2. /\ UNCHANGED <<ledger, saved, next_id>>
      /\ \A p \in Paths : p # path => files'[p] = files[p]
      /\ \A k \in 1..MaxId : k # id => vault'[k] = vault[k]
      /\ \A held : held[1] # id => (held \in custody' <=> held \in custody)
      /\ custody' \subseteq (1..MaxId) \X (Contents \union {Absent, Zeros})
  BY WorkFrame DEF ledgerVars
<1>3. /\ \A u \in Callers : u # t => pc'[u] = pc[u] /\ pc[u] \in {"idle", "q_lock"} /\ job'[u] = job[u]
      /\ pc'[t] # "idle" => job'[t] = job[t]
      /\ id \in 1..MaxId /\ path \in Paths
  BY WorkCallers
<1>4. /\ files \in [Paths -> Contents \union {Absent, Zeros}]
      /\ vault \in [1..MaxId -> Contents \union {Absent, Zeros}]
      /\ next_id \in 1..(MaxId + 1)
      /\ custody \subseteq (1..MaxId) \X (Contents \union {Absent, Zeros})
  BY DEF BookInv, TypesOK, QuarTypeOK
<1>5. id < next_id
  <2>1. pc[t] \in Taking => id = next_id - 1
    BY DEF BookInv, JobsOK
  <2>2. CASE pc[t] \in Taking
    BY <1>3, <1>4, <2>1, <2>2
  <2>3. CASE pc[t] \notin Taking
    <3>1. PICK i \in 1..Len(ledger) : ledger[i].id = id
      BY <2>3, EndingWork DEF BookInv, JobsOK
    <3> QED
      BY <3>1 DEF BookInv, LinesOK
  <2> QED
    BY <2>2, <2>3
\* What the conjuncts come to once only slot id and path matter.
<1>6. ASSUME files'[path] # Zeros,
             ~Overtaken => \A held \in custody' : held[1] = id => held[2] = vault'[id],
             ~Overtaken /\ pc'[t] \in {"q_move", "q_remove", "q_undo", "r_clear", "r_save", "s_remove", "s_save"} =>
               \A held \in custody' : held[1] # id,
             pc'[t] # "q_move",
             pc'[t] \in {"q_remove", "q_undo"} => "rename" \in faults,
             pc'[t] \in {"q_remove", "q_undo", "q_record", "r_move"} => vault'[id] \in Contents,
             \/ pc[t] \in Taking
             \/ pc'[t] \in Ending \ {"r_move"}
             \/ vault'[id] \in Contents
      PROVE  OneLife'
  <2> Overtaken' <=> Overtaken
    BY DEF Overtaken
  <2>1. \A p \in Paths : files'[p] # Zeros
    BY <1>1, <1>2, <1>6
  <2>2. (~Overtaken => CustodyKept)'
    <3>1. ASSUME ~Overtaken, NEW held \in custody' PROVE vault'[held[1]] = held[2]
      <4>1. held[1] \in 1..MaxId
        BY <1>2
      <4>2. CASE held[1] = id
        BY <1>6, <3>1, <4>2
      <4>3. CASE held[1] # id
        <5>1. held \in custody /\ vault[held[1]] = held[2]
          BY <1>1, <1>2, <3>1, <4>3 DEF CustodyKept
        <5> QED
          BY <1>2, <4>1, <4>3, <5>1
      <4> QED
        BY <4>2, <4>3
    <3> QED
      BY <3>1 DEF CustodyKept
  <2>3. FreshSlotsEmpty'
    <3>1. \A k \in 1..MaxId : k >= next_id => k # id
      BY <1>3, <1>4, <1>5
    <3>2. \A held \in custody' : held[1] = id \/ held \in custody
      BY <1>2
    <3> HIDE DEF id
    <3> QED
      BY <1>1, <1>2, <1>5, <3>1, <3>2 DEF FreshSlotsEmpty
  <2>4. SlotsAsLeft'
    BY <1>1, <1>2, <1>3, <1>6 DEF SlotsAsLeft
  <2>5. OpenRecordsHeld'
    <3>1. ASSUME NEW i \in 1..Len(ledger), ~ledger[i].restored, ~ledger[i].shredded
          PROVE  \/ vault'[ledger[i].id] \in Contents
                 \/ \E u \in Callers : pc'[u] \in Ending \ {"r_move"} /\ job'[u].id = ledger[i].id
      <4>1. ledger[i].id \in 1..MaxId
        BY Records
      <4>2. CASE ledger[i].id # id
        <5>1. vault'[ledger[i].id] = vault[ledger[i].id]
          BY <1>2, <4>1, <4>2
        <5>2. \A u \in Callers : pc[u] \in Ending => u = t
          BY <1>3 DEF Ending
        <5>3. vault[ledger[i].id] \in Contents
          BY <1>1, <3>1, <4>2, <5>2 DEF OpenRecordsHeld
        <5> QED
          BY <5>1, <5>3
      <4>3. CASE ledger[i].id = id
        <5>1. pc[t] \notin Taking
          BY <4>3, OwnSlot
        <5>2. CASE pc'[t] \in Ending \ {"r_move"}
          <6>1. job'[t] = job[t]
            BY <1>3, <5>2 DEF Ending
          <6> QED
            BY <4>3, <5>2, <6>1
        <5> QED
          BY <1>6, <4>3, <5>1, <5>2
      <4> QED
        BY <4>2, <4>3
    <3> QED
      BY <1>2, <3>1 DEF OpenRecordsHeld
  <2> QED
    BY <2>1, <2>2, <2>3, <2>4, <2>5 DEF OneLife
<1>7. /\ ~Overtaken => \A held \in custody : held[1] = id => held[2] = vault[id]
      /\ \A held \in custody : held = <<held[1], held[2]>>
      /\ ~Overtaken => \A held \in custody : held[1] = id => held = <<id, vault[id]>>
  <2>1. ~Overtaken => \A held \in custody : held[1] = id => held[2] = vault[id]
    BY <1>1 DEF CustodyKept
  <2>2. \A held \in custody : held = <<held[1], held[2]>>
    BY <1>4
  <2> QED
    BY <2>1, <2>2
<1>8. CASE pc[t] \in Taking
  <2>1. pc[t] = "q_move" => (~Overtaken => \A held \in custody : held[1] # id) /\ vault[id] = Absent
    BY <1>1 DEF SlotsAsLeft
  <2>2. pc[t] \in {"q_remove", "q_undo"} =>
          /\ ~Overtaken => (\A held \in custody : held[1] # id) /\ files[path] = vault[id]
          /\ vault[id] \in Contents /\ "rename" \in faults
    BY <1>1 DEF SlotsAsLeft, Undisturbed, Overtaken
  <2>3. files[path] # Zeros /\ (files[path] # Absent => files[path] \in Contents)
    BY <1>1, <1>3, <1>4
  <2> HIDE DEF id, path
  <2>4. files'[path] # Zeros
    BY <1>8, <2>3, TakingWork, QuarantineNames DEF id, path, fileVars, Absent, Zeros
  <2>5. ~Overtaken => \A held \in custody' : held[1] = id => held[2] = vault'[id] /\ pc'[t] \in {"q_record", "idle"}
    <3>1. CASE pc[t] = "q_move" /\ pc'[t] = "q_record"
      BY <1>8, <2>1, <3>1, TakingWork DEF id, path
    <3>2. CASE pc[t] = "q_remove" /\ pc'[t] = "q_record"
      BY <1>8, <2>2, <3>2, TakingWork DEF id, path
    <3>3. CASE custody' = custody
      BY <1>8, <2>1, <2>2, <3>3, TakingWork DEF id, path
    <3> QED
      BY <1>8, <3>1, <3>2, <3>3, TakingWork DEF fileVars
  <2>6. pc'[t] # "q_move" /\ pc'[t] # "r_move" /\ (pc'[t] \in {"q_remove", "q_undo"} => "rename" \in faults)
    BY <1>8, <2>2, TakingWork
  <2>7. pc'[t] \in {"q_remove", "q_undo", "q_record"} => vault'[id] \in Contents
    BY <1>8, <2>2, <2>3, TakingWork DEF id, path, fileVars
  <2> QED
    BY <1>6, <1>8, <2>4, <2>5, <2>6, <2>7
<1>9. CASE pc[t] \notin Taking
  <2>1. ~Overtaken /\ pc[t] \in {"r_clear", "s_remove"} => \A held \in custody : held[1] # id
    BY <1>1 DEF SlotsAsLeft
  <2>2. pc[t] = "r_move" => vault[id] \in Contents
    BY <1>1 DEF SlotsAsLeft
  <2>3. files[path] # Zeros
    BY <1>1, <1>3
  <2> HIDE DEF id, path
  <2>4. files'[path] # Zeros
    BY <1>9, <2>2, <2>3, EndingWork, QuarantineNames DEF id, path, fileVars
  <2>5. ~Overtaken /\ pc'[t] # "idle" => \A held \in custody' : held[1] # id
    BY <1>7, <1>9, <2>1, EndingWork DEF id
  <2>6. pc'[t] = "idle" => vault'[id] \in Contents /\ UNCHANGED <<vault, custody>>
    BY <1>9, <2>2, EndingWork DEF id, fileVars
  <2>7. pc'[t] \in {"r_clear", "r_save", "s_remove", "s_save", "idle"}
    BY <1>9, EndingWork
  <2> QED
    BY <1>6, <1>7, <2>4, <2>5, <2>6, <2>7 DEF Ending
<1> QED
  BY <1>8, <1>9

\* Without a crash, no step loses a file that quarantine() took: the vault file
\* of a record in custody stays until restore() or shred() is done with it.  A
\* file moved by copy and removal is removed as it was copied, unless another
\* program can write it in between.
LEMMA OneLifeStep == BookInv /\ OneLife /\ Undisturbed /\ [QuarNext]_quarVars => OneLife'
<1> SUFFICES ASSUME BookInv, OneLife, Undisturbed, [QuarNext]_quarVars, "crash" \notin faults
             PROVE  OneLife'
  BY StepKinds DEF OneLife
<1>1. /\ \A p \in Paths : files[p] # Zeros
      /\ (~Overtaken => CustodyKept) /\ FreshSlotsEmpty /\ SlotsAsLeft /\ OpenRecordsHeld
  BY DEF OneLife
<1>2. UNCHANGED faults /\ BookInv' /\ pc \in [Callers -> Labels] /\ (Overtaken' <=> Overtaken)
  BY StepKinds, BookStep DEF BookInv, TypesOK, QuarTypeOK, Overtaken
<1>3. CASE UNCHANGED quarVars
  BY <1>1, <1>2, <1>3 DEF quarVars, fileVars, ledgerVars, callVars,
                    OneLife, CustodyKept, FreshSlotsEmpty, SlotsAsLeft, OpenRecordsHeld
<1>4. ASSUME NEW t \in Callers,
             \/ \E candidate \in Candidates : QuarantineChecks(t, candidate)
             \/ QuarantineFull(t)
             \/ QuarantineReserves(t)
             \/ \E id \in 1..MaxId : RestoreFinds(t, id) \/ ShredFinds(t, id)
      PROVE  OneLife'
  <2>1. UNCHANGED <<fileVars, ledger, faults>>
    BY <1>2, <1>4 DEF QuarantineChecks, QuarantineFull, QuarantineReserves, RestoreFinds, ShredFinds, Hold,
                      fileVars, ledgerVars
  <2> QED
    BY <1>2, <1>4, <2>1, OneLifeCalls
<1>5. ASSUME NEW t \in Callers, Work(t) PROVE OneLife'
  BY <1>2, <1>5, OneLifeWork
\* The steps that end a call and change the ledgers.
<1>6. ASSUME NEW t \in Callers, QuarantineRecords(t) \/ Saves(t),
             \A i \in 1..Len(ledger') :
               ~ledger'[i].restored /\ ~ledger'[i].shredded =>
                 \/ i \in 1..Len(ledger) /\ ledger'[i] = ledger[i] /\ ledger[i].id # job[t].id
                 \/ vault[ledger'[i].id] \in Contents
      PROVE  OneLife'
  <2>1. UNCHANGED <<files, vault, custody, next_id>> /\ pc' = [pc EXCEPT ![t] = "idle"] /\ pc[t] \in Locked
    BY <1>6 DEF QuarantineRecords, Saves, fileVars, Goto, Return, At, Locked, Labels
  <2>2. \A u \in Callers : u # t => pc[u] \in {"idle", "q_lock"}
    BY <2>1, Alone
  <2>3. \A u \in Callers : pc'[u] \in {"idle", "q_lock"}
    BY <1>2, <2>1, <2>2
  <2>4. SlotsAsLeft'
    BY <2>3 DEF SlotsAsLeft
  <2>5. \A i \in 1..Len(ledger) : ~ledger[i].restored /\ ~ledger[i].shredded /\ ledger[i].id # job[t].id =>
                                    vault[ledger[i].id] \in Contents
    BY <1>1, <2>2 DEF OpenRecordsHeld, Ending
  <2>6. OpenRecordsHeld'
    BY <1>6, <2>1, <2>5 DEF OpenRecordsHeld
  <2> QED
    BY <1>1, <1>2, <2>1, <2>4, <2>6 DEF OneLife, CustodyKept, FreshSlotsEmpty
<1>7. ASSUME NEW t \in Callers, QuarantineRecords(t) PROVE OneLife'
  <2>1. pc[t] = "q_record" /\ ledger' = Append(ledger, RecordOf(t))
    BY <1>7 DEF QuarantineRecords, At
  <2>2. pc[t] \in Taking /\ vault[job[t].id] \in Contents
    BY <1>1, <2>1 DEF SlotsAsLeft, Taking
  <2>3. \A i \in 1..Len(ledger) : ledger[i].id # job[t].id
    BY <2>2, OwnSlot
  <2>4. ledger \in Seq(RecordType) /\ ledger' \in Seq(RecordType) /\ RecordOf(t).id = job[t].id
    BY <1>2 DEF BookInv, TypesOK, RecordOf
  <2>5. \A i \in 1..Len(ledger') : \/ i \in 1..Len(ledger) /\ ledger'[i] = ledger[i]
                                   \/ ledger'[i] = RecordOf(t)
    BY <2>1, <2>4
  <2> QED
    BY <1>6, <1>7, <2>2, <2>3, <2>4, <2>5
<1>8. ASSUME NEW t \in Callers, Saves(t) PROVE OneLife'
  <2>1. (At(t, "r_save") \/ At(t, "s_save")) /\ ledger' = Marked(t)
    BY <1>8 DEF Saves
  <2>2. Len(ledger') = Len(ledger)
    BY <2>1, MarkedLedger
  <2>3. \A i \in 1..Len(ledger) : /\ ledger[i].id # job[t].id => ledger'[i] = ledger[i]
                                  /\ ledger[i].id = job[t].id => ledger'[i].restored \/ ledger'[i].shredded
    BY <2>1, MarkedLedger
  <2> QED
    BY <1>6, <1>8, <2>2, <2>3
<1>9. CASE CrashAndRestart
  BY <1>9 DEF CrashAndRestart
<1>10. ASSUME NEW write \in Rewrites, OthersWrite(write[1], write[2]) PROVE OneLife'
  <2>1. UNCHANGED <<ledger, next_id, vault, custody, pc, job>> /\ files' = [files EXCEPT ![write[1]] = write[2]]
    BY <1>10 DEF OthersWrite, ledgerVars, callVars
  <2>2. write[2] # Zeros /\ files \in [Paths -> Contents \union {Absent, Zeros}]
    BY QuarantineConstants, QuarantineNames DEF BookInv, TypesOK, QuarTypeOK
  <2>3. \A p \in Paths : files'[p] # Zeros
    BY <1>1, <2>1, <2>2
  <2> QED
    BY <1>1, <1>2, <2>1, <2>3 DEF OneLife, CustodyKept, FreshSlotsEmpty, SlotsAsLeft, OpenRecordsHeld
<1> QED
  BY <1>3, <1>4, <1>5, <1>7, <1>8, <1>9, <1>10, StepKinds

\* ShredInv: a shredded record has no file left.
LEMMA ShredInit == QuarInit => ShredInv
BY EmptySeq DEF QuarInit, ShredInv, ShreddedIsGone

\* Where files can be opened and removed, no step brings back a vault file that
\* shred() destroyed.
LEMMA ShredKept == BookInv /\ ShredInv /\ [QuarNext]_quarVars => ShredInv'
<1> SUFFICES ASSUME BookInv, ShredInv, [QuarNext]_quarVars, "locked" \notin faults
             PROVE  ShredInv'
  BY StepKinds DEF ShredInv
<1> DEFINE Gone(lines, v) == \A i \in 1..Len(lines) : lines[i].shredded => v[lines[i].id] = Absent
<1>1. Gone(ledger, vault) /\ Gone(saved, vault) /\ \A t \in Callers : pc[t] = "s_save" => vault[job[t].id] = Absent
  BY Records DEF ShredInv, ShreddedIsGone
<1>2. UNCHANGED faults /\ BookInv' /\ pc \in [Callers -> Labels] /\ job \in [Callers -> JobType]
  BY StepKinds, BookStep DEF BookInv, TypesOK, QuarTypeOK
<1>3. DOMAIN ledger' = 1..Len(ledger')
  BY <1>2, LenProperties DEF BookInv, TypesOK
<1>4. SUFFICES /\ Gone(ledger', vault') /\ Gone(saved', vault')
               /\ \A t \in Callers : pc'[t] = "s_save" => vault'[job'[t].id] = Absent
  BY <1>3 DEF ShredInv, ShreddedIsGone
<1>5. CASE UNCHANGED quarVars
  BY <1>1, <1>5 DEF quarVars, fileVars, ledgerVars, callVars
<1>6. ASSUME NEW t \in Callers,
             \/ \E candidate \in Candidates : QuarantineChecks(t, candidate)
             \/ QuarantineFull(t)
             \/ QuarantineReserves(t)
      PROVE  <1>4!1
  <2>1. /\ UNCHANGED <<vault, ledger, saved>> /\ \A u \in Callers : u # t => pc'[u] = pc[u] /\ job'[u] = job[u]
        /\ pc'[t] # "s_save"
    BY <1>2, <1>6 DEF QuarantineChecks, QuarantineFull, QuarantineReserves, fileVars, ledgerVars, Goto, Return
  <2> QED
    BY <1>1, <2>1
<1>7. ASSUME NEW t \in Callers, NEW id \in 1..MaxId, RestoreFinds(t, id) \/ ShredFinds(t, id) PROVE <1>4!1
  <2>1. PICK i \in 1..Len(ledger) :
          /\ ledger[i].id = id
          /\ \/ Hold(t, i, "r_move")
             \/ Hold(t, i, "s_wipe")
             \/ Hold(t, i, "s_save") /\ vault[id] = Absent
    BY <1>7, FoundRecord
  <2>2. /\ UNCHANGED <<vault, ledger, saved>> /\ \A u \in Callers : u # t => pc'[u] = pc[u] /\ job'[u] = job[u]
        /\ pc'[t] = "s_save" => vault[id] = Absent
        /\ job'[t].id = id
    BY <1>2, <2>1 DEF Hold, Goto, fileVars, ledgerVars
  <2> QED
    BY <1>1, <2>2
<1>8. ASSUME NEW t \in Callers, Work(t) PROVE <1>4!1
  <2>1. UNCHANGED <<ledger, saved>> /\ \A k \in 1..MaxId : k # job[t].id => vault'[k] = vault[k]
    BY <1>8, WorkFrame DEF ledgerVars
  <2>2. /\ \A u \in Callers : u # t => pc'[u] \in {"idle", "q_lock"}
        /\ pc'[t] # "idle" => job'[t] = job[t]
    BY <1>8, WorkCallers
  <2>3. pc'[t] = "s_save" => vault'[job[t].id] = Absent
    <3>1. CASE pc[t] \in Taking
      BY <1>8, <3>1, TakingWork
    <3>2. CASE pc[t] \notin Taking
      BY <1>8, <3>2, EndingWork
    <3> QED
      BY <3>1, <3>2
  <2>4. /\ \A i \in 1..Len(ledger) : ledger[i].shredded => ledger[i].id # job[t].id
        /\ \A i \in 1..Len(saved) : saved[i].shredded => saved[i].id # job[t].id
    <3>1. CASE pc[t] \in Taking
      BY <3>1, OwnSlot
    <3>2. CASE pc[t] \notin Taking
      <4>1. PICK k \in 1..Len(ledger) : ledger[k].id = job[t].id /\ ~ledger[k].shredded
        BY <1>8, <3>2, EndingWork DEF BookInv, JobsOK
      <4>2. \A i \in 1..Len(ledger) : ledger[i].id = job[t].id => i = k
        BY <4>1, Records DEF BookInv, LinesOK
      <4> QED
        BY <4>1, <4>2 DEF BookInv, SavedBehind
    <3> QED
      BY <3>1, <3>2
  <2>5. Gone(ledger', vault') /\ Gone(saved', vault')
    BY <1>1, <2>1, <2>4, Records
  <2> QED
    BY <2>2, <2>3, <2>5
<1>9. ASSUME NEW t \in Callers, QuarantineRecords(t) \/ Saves(t) PROVE \A u \in Callers : pc'[u] # "s_save"
  <2>1. pc' = [pc EXCEPT ![t] = "idle"] /\ pc[t] \in Locked
    BY <1>9 DEF QuarantineRecords, Saves, Goto, Return, At, Locked, Labels
  <2>2. \A u \in Callers : u # t => pc[u] \in {"idle", "q_lock"}
    BY <2>1, Alone
  <2> QED
    BY <1>2, <2>1, <2>2
<1>10. ASSUME NEW t \in Callers, QuarantineRecords(t) PROVE <1>4!1
  <2> DEFINE r == RecordOf(t)
  <2>1. /\ UNCHANGED vault /\ ledger' = Append(ledger, r) /\ saved' \in {saved, Append(saved, r)}
    BY <1>10 DEF QuarantineRecords, fileVars
  <2>2. ~r.shredded
    BY DEF RecordOf
  <2>3. ledger \in Seq(RecordType) /\ saved \in Seq(RecordType)
    BY DEF BookInv, TypesOK
  <2> HIDE DEF r
  <2>4. \A i \in 1..Len(ledger') : (i \in 1..Len(ledger) /\ ledger'[i] = ledger[i]) \/ ledger'[i] = r
    BY <2>1, <2>3
  <2>5. \A i \in 1..Len(saved') : (i \in 1..Len(saved) /\ saved'[i] = saved[i]) \/ saved'[i] = r
    BY <2>1, <2>3
  <2> QED
    BY <1>1, <1>9, <1>10, <2>1, <2>2, <2>4, <2>5
<1>11. ASSUME NEW t \in Callers, Saves(t) PROVE <1>4!1
  <2> DEFINE marked == Marked(t)
  <2>1. UNCHANGED vault /\ ledger' = marked /\ (At(t, "r_save") \/ At(t, "s_save"))
    BY <1>11 DEF Saves, fileVars
  <2>2. At(t, "s_save") => vault[job[t].id] = Absent
    BY <1>1 DEF At
  <2>3. /\ Len(marked) = Len(ledger) /\ Len(ledger) \in Nat
        /\ \A i \in 1..Len(ledger) :
             /\ marked[i].id = ledger[i].id
             /\ ledger[i].id # job[t].id => marked[i] = ledger[i]
             /\ ledger[i].id = job[t].id => (marked[i].shredded => At(t, "s_save"))
    BY <2>1, MarkedLedger, Records
  <2>4. \/ saved' = saved
        \/ saved' = marked
        \/ Len(saved') \in 0..Len(marked) /\ \A i \in 1..Len(saved') : saved'[i] = marked[i]
    BY <1>11, RewrittenLines DEF Saves
  <2> HIDE DEF marked
  <2>5. Gone(marked, vault)
    BY <1>1, <2>2, <2>3
  <2>6. Gone(saved', vault)
    <3>1. CASE Len(saved') \in 0..Len(marked) /\ \A i \in 1..Len(saved') : saved'[i] = marked[i]
      <4>1. \A i \in 1..Len(saved') : i \in 1..Len(marked)
        BY <2>3, <3>1
      <4> QED
        BY <2>5, <3>1, <4>1
    <3> QED
      BY <1>1, <2>4, <2>5, <3>1
  <2> QED
    BY <1>9, <1>11, <2>1, <2>5, <2>6
<1>12. CASE CrashAndRestart
  <2>1. UNCHANGED <<vault, saved>> /\ ledger' = saved /\ pc' = [t \in Callers |-> "idle"]
    BY <1>12 DEF CrashAndRestart, fileVars
  <2> QED
    BY <1>1, <2>1
<1>13. ASSUME NEW write \in Rewrites, OthersWrite(write[1], write[2]) PROVE <1>4!1
  BY <1>1, <1>13 DEF OthersWrite, ledgerVars, callVars
<1> QED
  BY <1>5, <1>6, <1>7, <1>8, <1>10, <1>11, <1>12, <1>13, StepKinds

\* Undisturbed: a caller finds its path as it left it.
LEMMA UndisturbedInit == QuarInit => Undisturbed
BY DEF QuarInit, Undisturbed

\* Without crash and rewrite, the place restore() moves to is still free when it
\* moves, and between a copy and the removal of its original the two are equal.
LEMMA UndisturbedStep == BookInv /\ Undisturbed /\ [QuarNext]_quarVars => Undisturbed'
<1> SUFFICES ASSUME BookInv, Undisturbed, [QuarNext]_quarVars, faults \intersect {"crash", "rewrite"} = {}
             PROVE  Undisturbed'
  BY StepKinds DEF Undisturbed
<1> DEFINE Fits(u) == /\ pc[u] = "r_move" => files[job[u].path] = Absent
                      /\ pc[u] \in {"q_remove", "q_undo", "r_clear"} => files[job[u].path] = vault[job[u].id]
<1>1. \A u \in Callers : Fits(u)
  BY DEF Undisturbed
<1>2. SUFFICES \A u \in Callers : Fits(u)'
  BY DEF Undisturbed
<1>3. pc \in [Callers -> Labels] /\ job \in [Callers -> JobType]
  BY DEF BookInv, TypesOK, QuarTypeOK
<1>4. CASE UNCHANGED quarVars
  BY <1>1, <1>4 DEF quarVars, fileVars, ledgerVars, callVars
<1>5. ASSUME NEW t \in Callers,
             \/ \E candidate \in Candidates : QuarantineChecks(t, candidate)
             \/ QuarantineFull(t)
             \/ QuarantineReserves(t)
             \/ QuarantineRecords(t)
             \/ Saves(t)
      PROVE  \A u \in Callers : Fits(u)'
  <2>1. /\ UNCHANGED <<files, vault>> /\ \A u \in Callers : u # t => pc'[u] = pc[u] /\ job'[u] = job[u]
        /\ pc'[t] \in {"q_lock", "q_move", "idle"}
    BY <1>3, <1>5 DEF QuarantineChecks, QuarantineFull, QuarantineReserves, QuarantineRecords, Saves,
                      fileVars, Goto, Return
  <2> QED
    BY <1>1, <2>1
<1>6. ASSUME NEW t \in Callers, NEW id \in 1..MaxId, RestoreFinds(t, id) \/ ShredFinds(t, id)
      PROVE  \A u \in Callers : Fits(u)'
  <2>1. PICK i \in 1..Len(ledger) : \/ Hold(t, i, "r_move") /\ files[ledger[i].original_path] = Absent
                                    \/ Hold(t, i, "s_wipe")
                                    \/ Hold(t, i, "s_save")
    BY <1>6, FoundRecord
  <2>2. /\ UNCHANGED <<files, vault>> /\ \A u \in Callers : u # t => pc'[u] = pc[u] /\ job'[u] = job[u]
        /\ job'[t].path = ledger[i].original_path
        /\ pc'[t] \in {"s_wipe", "s_save"} \/ (pc'[t] = "r_move" /\ files[ledger[i].original_path] = Absent)
    BY <1>3, <2>1 DEF Hold, fileVars, Goto
  <2> QED
    BY <1>1, <2>2
<1>7. ASSUME NEW t \in Callers, Work(t) PROVE \A u \in Callers : Fits(u)'
  <2>1. /\ \A u \in Callers : u # t => pc'[u] \in {"idle", "q_lock"}
        /\ pc'[t] # "idle" => job'[t] = job[t]
    BY <1>7, WorkCallers
  <2>2. Fits(t)
    BY <1>1
  <2>3. Fits(t)'
    <3>1. CASE pc[t] \in Taking
      BY <1>7, <2>1, <2>2, <3>1, TakingWork DEF fileVars
    <3>2. CASE pc[t] \notin Taking
      BY <1>7, <2>1, <2>2, <3>2, EndingWork DEF fileVars
    <3> QED
      BY <3>1, <3>2
  <2> QED
    BY <2>1, <2>3
<1>8. CASE CrashAndRestart
  BY <1>8 DEF CrashAndRestart
<1>9. ASSUME NEW write \in Rewrites, OthersWrite(write[1], write[2]) PROVE FALSE
  BY <1>9 DEF OthersWrite
<1> QED
  BY <1>4, <1>5, <1>6, <1>7, <1>8, <1>9, StepKinds

QuarInv == BookInv /\ OwnContent /\ OneLife /\ ShredInv /\ Undisturbed

\* All of it holds in every reachable state.
THEOREM QuarantineInvariant == QuarSpec => []QuarInv
<1>1. QuarInit => QuarInv
  BY BookInit, OwnContentInit, OneLifeInit, ShredInit, UndisturbedInit DEF QuarInv
<1>2. QuarInv /\ [QuarNext]_quarVars => QuarInv'
  BY BookStep, OwnContentStep, OneLifeStep, ShredKept, UndisturbedStep DEF QuarInv
<1> QED
  BY <1>1, <1>2, PTL DEF QuarSpec

\* The ledger, its file and the vault agree, for any number of callers, any
\* ledger limit and any faults: ids are used once, ledger.txt is in step, an
\* open record's file is there, and no slot is shared, across crashes too.
THEOREM LedgerIsConsistent == QuarSpec => []LedgerConsistent
<1>1. QuarInv => LedgerConsistent
  <2> SUFFICES ASSUME QuarInv PROVE LedgerConsistent
    OBVIOUS
  <2> USE DEF QuarInv
  <2>1. DOMAIN ledger = 1..Len(ledger) /\ DOMAIN saved = 1..Len(saved)
    BY Records
  <2>2. QuarTypeOK
    BY DEF BookInv, TypesOK
  <2>3. IdsFresh
    BY <2>1 DEF BookInv, LinesOK, IdsFresh
  <2>4. LedgerInStep
    BY DEF BookInv, SavedBehind, LedgerInStep
  <2>5. RecordsRestorable
    <3> SUFFICES ASSUME "crash" \notin faults, NEW i \in 1..Len(ledger), ~ledger[i].restored, ~ledger[i].shredded,
                        lock = Free \/ job[lock].id # ledger[i].id
                 PROVE  vault[ledger[i].id] \in Contents
      BY <2>1 DEF RecordsRestorable
    <3>1. SUFFICES ASSUME NEW t \in Callers, pc[t] \in Ending, job[t].id = ledger[i].id PROVE FALSE
      BY DEF OneLife, OpenRecordsHeld
    <3>2. pc[t] \in Locked
      BY <3>1 DEF Ending, Locked, Labels
    <3>3. lock = t
      BY <3>2, Alone
    <3> QED
      BY <3>1, <3>3, QuarantineNames
  <2>6. SlotsUnshared
    <3>1. ASSUME NEW i \in 1..Len(saved), NEW t \in Callers, pc[t] \in Taking PROVE job[t].id # saved[i].id
      BY <3>1, OwnSlot
    <3>2. ASSUME NEW i \in 1..Len(saved), "rewrite" \notin faults
          PROVE  vault[saved[i].id] \in {saved[i].sha256_at_quarantine, Zeros, Absent}
      BY <3>2 DEF OwnContent
    <3> QED
      BY <2>1, <3>1, <3>2 DEF SlotsUnshared
  <2> QED
    BY <2>2, <2>3, <2>4, <2>5, <2>6 DEF LedgerConsistent
<1> QED
  BY <1>1, QuarantineInvariant, PTL

\* The vault is honest: what was taken is kept while the process lives and no
\* other program writes between copy and removal, it is what was hashed unless
\* other programs write, and a shredded record has nothing left unless its file
\* cannot be opened.
THEOREM CustodyIsHonest == QuarSpec => []CustodyHonest
<1>1. QuarInv => CustodyHonest
  <2> SUFFICES ASSUME QuarInv PROVE CustodyHonest
    OBVIOUS
  <2> USE DEF QuarInv
  <2>1. CustodyKeptInOneLife
    BY DEF OneLife, CustodyKeptInOneLife
  <2>2. HeldAsHashed
    <3> SUFFICES ASSUME "rewrite" \notin faults, NEW t \in Callers, pc[t] = "q_record"
                 PROVE  vault[job[t].id] = job[t].sha256 \/ ("crash" \in faults /\ vault[job[t].id] = Zeros)
      BY DEF HeldAsHashed
    <3>1. vault[job[t].id] \in {job[t].sha256, Zeros}
      BY DEF OwnContent, Taking
    <3>2. "crash" \notin faults => vault[job[t].id] \in Contents
      BY DEF OneLife, SlotsAsLeft
    <3> QED
      BY <3>1, <3>2, QuarantineNames
  <2>3. ShreddedIsGone
    BY DEF ShredInv, ShreddedIsGone
  <2> QED
    BY <2>1, <2>2, <2>3 DEF CustodyHonest
<1> QED
  BY <1>1, QuarantineInvariant, PTL

-----------------------------------------------------------------------------
(* The calls implement the atomic vault.                                   *)

AtHome(f, a)  == \E p \in Paths : f[p] = a
InVault(v, a) == \E id \in 1..MaxId : v[id] = a
Quiet         == faults \intersect {"crash", "rewrite"} = {}

\* The three places of an artifact, as the refinement mapping computes them.
LEMMA PlaceMeaning ==
  ASSUME NEW a
  PROVE  /\ ~Quiet \/ AtHome(files, a) => Place(a) = "home"
         /\ Quiet /\ ~AtHome(files, a) /\ InVault(vault, a) => Place(a) = "vault"
         /\ Quiet /\ ~AtHome(files, a) /\ ~InVault(vault, a) => Place(a) = "destroyed"
BY DEF Place, Quiet, AtHome, InVault

\* The same of the next state.
LEMMA PlaceMeaningNext ==
  ASSUME NEW a
  PROVE  /\ ~Quiet' \/ AtHome(files', a) => Place(a)' = "home"
         /\ Quiet' /\ ~AtHome(files', a) /\ InVault(vault', a) => Place(a)' = "vault"
         /\ Quiet' /\ ~AtHome(files', a) /\ ~InVault(vault', a) => Place(a)' = "destroyed"
BY DEF Place, Quiet, AtHome, InVault

\* A step that moves at most one artifact, neither from home into nothing nor
\* out of nothing, is a step of the vault.
LEMMA OneMoves ==
  ASSUME Quiet, UNCHANGED faults, NEW b,
         \A a \in Found : a # b => (AtHome(files', a) <=> AtHome(files, a)) /\ (InVault(vault', a) <=> InVault(vault, a)),
         b \in Found => /\ AtHome(files, b) => AtHome(files', b) \/ InVault(vault', b)
                        /\ ~AtHome(files, b) /\ ~InVault(vault, b) => ~AtHome(files', b) /\ ~InVault(vault', b)
  PROVE  [Vault!VaultNext]_[a \in Found |-> Place(a)]
<1> DEFINE place == [a \in Found |-> Place(a)]
<1>0. Quiet'
  BY DEF Quiet
<1>1. \A a \in Found : a # b => Place(a)' = Place(a)
  BY <1>0, PlaceMeaning, PlaceMeaningNext
<1>2. CASE b \notin Found
  <2>1. place' = place
    BY <1>1, <1>2
  <2> QED
    BY <2>1
<1>3. CASE b \in Found
  <2>1. \/ Place(b)' = Place(b)
        \/ Place(b) = "home" /\ Place(b)' = "vault"
        \/ Place(b) = "vault" /\ Place(b)' = "home"
        \/ Place(b) = "vault" /\ Place(b)' = "destroyed"
    BY <1>0, <1>3, PlaceMeaning, PlaceMeaningNext
  <2>2. place' = [place EXCEPT ![b] = Place(b)']
    BY <1>1, <1>3
  <2>3. place[b] = Place(b)
    BY <1>3
  <2>4. CASE Place(b)' = Place(b)
    <3>1. place' = place
      BY <2>2, <2>3, <2>4
    <3> QED
      BY <3>1
  <2>5. CASE Place(b) = "home" /\ Place(b)' = "vault"
    BY <1>3, <2>2, <2>3, <2>5 DEF Vault!VaultNext, Vault!Hold, Vault!Moves
  <2>6. CASE Place(b) = "vault" /\ Place(b)' = "home"
    BY <1>3, <2>2, <2>3, <2>6 DEF Vault!VaultNext, Vault!GiveBack, Vault!Moves
  <2>7. CASE Place(b) = "vault" /\ Place(b)' = "destroyed"
    BY <1>3, <2>2, <2>3, <2>7 DEF Vault!VaultNext, Vault!Destroy, Vault!Moves
  <2> QED
    BY <2>1, <2>4, <2>5, <2>6, <2>7
<1> QED
  BY <1>2, <1>3

\* Every file starts at home: QuarInit implements VaultInit.
LEMMA VaultStarts == QuarInit => Vault!VaultInit
<1> SUFFICES ASSUME QuarInit PROVE Vault!VaultInit
  OBVIOUS
<1>1. \A a \in Found : Place(a) = "home"
  BY PlaceMeaning DEF QuarInit, Found, AtHome
<1> QED
  BY <1>1 DEF Vault!VaultInit

\* Every step of the executor moves one artifact as QuarantineVault allows, or
\* none.
LEMMA VaultStep == QuarInv /\ [QuarNext]_quarVars => [Vault!VaultNext]_[a \in Found |-> Place(a)]
<1> SUFFICES ASSUME QuarInv, [QuarNext]_quarVars PROVE [Vault!VaultNext]_[a \in Found |-> Place(a)]
  OBVIOUS
<1> USE DEF QuarInv
<1>1. UNCHANGED faults
  BY StepKinds
<1>2. CASE ~Quiet
  <2>1. ~Quiet'
    BY <1>1, <1>2 DEF Quiet
  <2>2. \A a \in Found : Place(a)' = Place(a)
    BY <1>2, <2>1, PlaceMeaning, PlaceMeaningNext
  <2> QED
    BY <2>2
<1>3. CASE UNCHANGED <<files, vault>>
  <2>1. \A a \in Found : Place(a)' = Place(a)
    BY <1>1, <1>3 DEF Place
  <2> QED
    BY <2>1
<1>4. ASSUME Quiet, NEW t \in Callers, Work(t)
      PROVE  [Vault!VaultNext]_[a \in Found |-> Place(a)]
  <2> DEFINE id == job[t].id
             path == job[t].path
  <2>1. /\ \A p \in Paths : p # path => files'[p] = files[p]
        /\ \A k \in 1..MaxId : k # id => vault'[k] = vault[k]
    BY <1>4, WorkFrame
  <2>2. id \in 1..MaxId /\ path \in Paths
    BY <1>4, WorkCallers
  <2>3. /\ pc[t] = "q_move" => vault[id] = Absent
        /\ pc[t] = "r_move" => files[path] = Absent
        /\ pc[t] \in {"q_remove", "q_undo", "r_clear"} => files[path] = vault[id]
    BY <1>4 DEF OneLife, SlotsAsLeft, Undisturbed, Quiet
  <2>4. Absent \notin Found /\ Zeros \notin Found
    BY QuarantineConstants, QuarantineNames DEF Found
  <2> HIDE DEF id, path
  <2>5. \A a : (files[path] = a <=> files'[path] = a) => (AtHome(files', a) <=> AtHome(files, a))
    BY <2>1, <2>2 DEF AtHome
  <2>6. \A a : (vault[id] = a <=> vault'[id] = a) => (InVault(vault', a) <=> InVault(vault, a))
    BY <2>1, <2>2 DEF InVault
  <2>7. /\ AtHome(files, files[path]) /\ AtHome(files', files'[path])
        /\ InVault(vault, vault[id]) /\ InVault(vault', vault'[id])
    BY <2>2 DEF AtHome, InVault
  \* b is what was in the slot, or what is put there.
  <2>8. ASSUME NEW b,
               \A a \in Found : a # b => /\ files[path] = a <=> files'[path] = a
                                         /\ vault[id] = a <=> vault'[id] = a,
               b \in Found => \/ AtHome(files, b) /\ (AtHome(files', b) \/ InVault(vault', b))
                              \/ InVault(vault, b) /\ (AtHome(files, b) => AtHome(files', b))
        PROVE  [Vault!VaultNext]_[a \in Found |-> Place(a)]
    <3>1. \A a \in Found : a # b => (AtHome(files', a) <=> AtHome(files, a)) /\ (InVault(vault', a) <=> InVault(vault, a))
      BY <2>5, <2>6, <2>8
    <3>2. b \in Found => /\ AtHome(files, b) => AtHome(files', b) \/ InVault(vault', b)
                         /\ ~AtHome(files, b) /\ ~InVault(vault, b) => ~AtHome(files', b) /\ ~InVault(vault', b)
      BY <2>8
    <3> QED
      BY <1>1, <1>4, <3>1, <3>2, OneMoves
  <2>9. CASE pc[t] = "q_move"
    <3>1. CASE UNCHANGED <<files, vault>>
      BY <1>3, <3>1
    <3>2. CASE vault'[id] = files[path] /\ (files'[path] = Absent \/ files' = files)
      <4>1. PICK b : b = files[path]
        OBVIOUS
      <4>2. \A a \in Found : a # b => /\ files[path] = a <=> files'[path] = a
                                      /\ vault[id] = a <=> vault'[id] = a
        BY <2>3, <2>4, <2>9, <3>2, <4>1
      <4>3. AtHome(files, b) /\ InVault(vault', b)
        BY <2>7, <3>2, <4>1
      <4> QED
        BY <2>8, <4>2, <4>3
    <3>3. pc[t] \in Taking
      BY <2>9 DEF Taking
    <3> QED
      BY <1>4, <2>9, <3>1, <3>2, <3>3, TakingWork DEF id, path, fileVars
  <2>10. CASE pc[t] = "q_remove"
    <3>1. pc[t] \in Taking
      BY <2>10 DEF Taking
    <3>2. vault' = vault /\ (files'[path] = Absent \/ files' = files)
      BY <1>4, <2>10, <3>1, TakingWork DEF id, path, fileVars
    <3>3. PICK b : b = files[path]
      OBVIOUS
    <3>4. \A a \in Found : a # b => /\ files[path] = a <=> files'[path] = a
                                    /\ vault[id] = a <=> vault'[id] = a
      BY <2>4, <3>2, <3>3
    <3>5. AtHome(files, b) /\ InVault(vault', b)
      BY <2>3, <2>7, <2>10, <3>2, <3>3
    <3> QED
      BY <2>8, <3>4, <3>5
  <2>11. CASE pc[t] \in {"q_undo", "r_clear"}
    <3>1. files' = files /\ (vault'[id] = Absent \/ vault' = vault)
      <4>1. CASE pc[t] = "q_undo"
        BY <1>4, <4>1, TakingWork DEF Taking, id
      <4>2. CASE pc[t] = "r_clear"
        BY <1>4, <4>2, EndingWork DEF Taking, id
      <4> QED
        BY <2>11, <4>1, <4>2
    <3>2. PICK b : b = vault[id]
      OBVIOUS
    <3>3. \A a \in Found : a # b => /\ files[path] = a <=> files'[path] = a
                                    /\ vault[id] = a <=> vault'[id] = a
      BY <2>4, <3>1, <3>2
    <3>4. AtHome(files, b) /\ AtHome(files', b)
      BY <2>3, <2>7, <2>11, <3>1, <3>2
    <3> QED
      BY <2>8, <3>3, <3>4
  <2>12. CASE pc[t] = "r_move"
    <3>1. pc[t] \notin Taking
      BY <2>12 DEF Taking
    <3>2. CASE files'[path] = vault[id] /\ (vault'[id] = Absent \/ vault' = vault)
      <4>1. PICK b : b = vault[id]
        OBVIOUS
      <4>2. \A a \in Found : a # b => /\ files[path] = a <=> files'[path] = a
                                      /\ vault[id] = a <=> vault'[id] = a
        BY <2>3, <2>4, <2>12, <3>2, <4>1
      <4>3. InVault(vault, b) /\ AtHome(files', b)
        BY <2>7, <3>2, <4>1
      <4> QED
        BY <2>8, <4>2, <4>3
    <3>3. CASE UNCHANGED <<files, vault>>
      BY <1>3, <3>3
    <3> QED
      BY <1>4, <2>12, <3>1, <3>2, <3>3, EndingWork DEF id, path, fileVars
  <2>13. CASE pc[t] \in {"s_wipe", "s_remove"}
    <3>1. pc[t] \notin Taking
      BY <2>13 DEF Taking
    <3>2. files' = files /\ (vault'[id] \in {Absent, Zeros} \/ vault' = vault)
      BY <1>4, <2>13, <3>1, EndingWork DEF id, path
    <3>3. PICK b : b = vault[id]
      OBVIOUS
    <3>4. \A a \in Found : a # b => /\ files[path] = a <=> files'[path] = a
                                    /\ vault[id] = a <=> vault'[id] = a
      BY <2>4, <3>2, <3>3
    <3>5. InVault(vault, b) /\ (AtHome(files, b) => AtHome(files', b))
      BY <2>7, <3>2, <3>3
    <3> QED
      BY <2>8, <3>4, <3>5
  <2>14. pc[t] \in {"q_move", "q_remove", "q_undo", "r_move", "r_clear", "s_wipe", "s_remove"}
    <3>1. CASE pc[t] \in Taking
      BY <1>4, <3>1, TakingWork
    <3>2. CASE pc[t] \notin Taking
      BY <1>4, <3>2, EndingWork
    <3> QED
      BY <3>1, <3>2
  <2> QED
    BY <2>9, <2>10, <2>11, <2>12, <2>13, <2>14
<1>5. ASSUME Quiet, ~(\E t \in Callers : Work(t)) PROVE UNCHANGED <<files, vault>>
  <2>1. ~CrashAndRestart /\ \A write \in Rewrites : ~OthersWrite(write[1], write[2])
    BY <1>5 DEF Quiet, CrashAndRestart, OthersWrite
  <2> QED
    BY <1>5, <2>1, StepKinds
    DEF quarVars, fileVars, QuarantineChecks, QuarantineFull, QuarantineReserves, RestoreFinds, ShredFinds, Hold,
        QuarantineRecords, Saves
<1> QED
  BY <1>2, <1>3, <1>4, <1>5

\* quarantine(), restore() and shred() with all their intermediate file-system
\* calls, failing ones included, implement a vault that moves an artifact in
\* one step or destroys it for good.
THEOREM QuarantineImplementsVault == QuarSpec => ImplementsVault
BY VaultStarts, VaultStep, QuarantineInvariant, PTL DEF QuarSpec, ImplementsVault, Vault!VaultSpec
=============================================================================

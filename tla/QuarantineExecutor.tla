------------------------- MODULE QuarantineExecutor -------------------------
(***************************************************************************)
(* quarantine(), restore() and shred(): file moves between the disk and    *)
(* the vault directory, and the ledger that describes them, kept in memory *)
(* and in ledger.txt.  A step is one file-system call; the process can die *)
(* between any two of them.  A file is its content, and its hash too.      *)
(***************************************************************************)
EXTENDS PolicyEngine, Integers, Sequences, FiniteSets, FiniteSetsExt

CONSTANTS Paths,              \* places of files outside the vault
          Contents,           \* file contents
          Irregular,          \* paths that are empty, hold a delimiter, are symlinks or no files
          Unfit,              \* contents that are empty or too large
          Candidates,         \* candidates the callers can hold
          Callers,            \* threads that use the executor
          MAX_LEDGER_RECORDS,
          MaxId,              \* bound on the vault ids handed out
          InitialFiles,       \* path -> content at the start
          Rewrites,           \* pairs <<path, content>> that other programs write
          Surroundings        \* the sets of faults considered

Fault == {"crash",      \* the process dies and is started again
          "rename",     \* rename fails: another volume
          "locked",     \* a file cannot be opened or removed
          "append",     \* ledger.txt cannot be opened
          "disk_full",  \* a rewritten ledger is cut short
          "rewrite"}    \* other programs write files

ASSUME QuarantineConstants ==
  /\ MAX_LEDGER_RECORDS \in Nat
  /\ MaxId \in Nat
  /\ InitialFiles \in [Paths -> Contents]
  /\ Rewrites \subseteq Paths \X Contents
  /\ Surroundings \subseteq SUBSET Fault
  /\ \A candidate \in Candidates : candidate.target_path \in Paths

Absent == "absent"
Zeros  == "zeros"
Free   == "free"

\* The three names above name nothing else.
ASSUME QuarantineNames == Absent \notin Contents /\ Zeros \notin Contents /\ Free \notin Callers

VARIABLES files,     \* path -> content or Absent
          vault,     \* id -> content of q_<id>.gcadq, Zeros or Absent
          ledger,    \* ledger_
          saved,     \* the lines of ledger.txt
          next_id,   \* next_id_
          lock,      \* the caller inside mtx_, or Free
          pc,        \* caller -> the call it is about to make
          job,       \* caller -> the candidate or record it works on
          faults,    \* what can go wrong in this life of the program
          custody    \* history: <<id, content>> moved away, not given back, not shredded

fileVars   == <<files, vault, custody>>
ledgerVars == <<ledger, saved, next_id>>
callVars   == <<lock, pc, job>>
quarVars   == <<fileVars, ledgerVars, callVars, faults>>

NoJob == [id |-> 0, finding_id |-> 0, path |-> None, sha256 |-> None]

QuarInit ==
  /\ files = InitialFiles
  /\ faults \in Surroundings
  /\ vault = [id \in 1..MaxId |-> Absent]
  /\ ledger = <<>>
  /\ saved = <<>>
  /\ next_id = 1
  /\ lock = Free
  /\ pc = [t \in Callers |-> "idle"]
  /\ job = [t \in Callers |-> NoJob]
  /\ custody = {}

At(t, label) == pc[t] = label
Goto(t, label) == pc' = [pc EXCEPT ![t] = label]

\* The call returns: the lock_guard, if any, is released.
Return(t) ==
  /\ Goto(t, "idle")
  /\ job' = [job EXCEPT ![t] = NoJob]
  /\ lock' = IF lock = t THEN Free ELSE lock

Store(f, x, content) == f' = [f EXCEPT ![x] = content]

-----------------------------------------------------------------------------
(* quarantine(): the checks and the hash come before the lock.             *)

\* TRUE iff quarantine() gets past its checks.
Passes(candidate) ==
  /\ candidate.approval_state = "APPROVED"
  /\ candidate.target_path \notin Irregular
  /\ ~is_protected_path(candidate.target_path)
  /\ files[candidate.target_path] \in Contents \ Unfit
  /\ candidate.expected_sha256 \in {None, files[candidate.target_path]}

QuarantineChecks(t, candidate) ==
  /\ At(t, "idle")
  /\ Passes(candidate)
  /\ job' = [job EXCEPT ![t] = [id         |-> 0,
                                finding_id |-> candidate.finding_id,
                                path       |-> candidate.target_path,
                                sha256     |-> files[candidate.target_path]]]
  /\ Goto(t, "q_lock")
  /\ UNCHANGED <<fileVars, ledgerVars, lock>>

\* quarantine() returns ERR_QUARANTINE_DENIED.
QuarantineDenied(t, candidate) ==
  /\ At(t, "idle")
  /\ ~Passes(candidate)
  /\ UNCHANGED quarVars

\* ERR_QUARANTINE_FULL (also where the ids of the instance are used up).
QuarantineFull(t) ==
  /\ At(t, "q_lock")
  /\ lock = Free
  /\ Len(ledger) >= MAX_LEDGER_RECORDS \/ next_id > MaxId
  /\ Return(t)
  /\ UNCHANGED <<fileVars, ledgerVars>>

\* Fault: the id is read but not used up.
QuarantineReservesSame(t) ==
  /\ At(t, "q_lock")
  /\ lock = Free
  /\ Len(ledger) < MAX_LEDGER_RECORDS
  /\ next_id <= MaxId
  /\ lock' = t
  /\ job' = [job EXCEPT ![t].id = next_id]
  /\ Goto(t, "q_move")
  /\ UNCHANGED <<fileVars, ledgerVars>>

QuarantineReserves(t) ==
  /\ At(t, "q_lock")
  /\ lock = Free
  /\ Len(ledger) < MAX_LEDGER_RECORDS
  /\ next_id <= MaxId
  /\ lock' = t
  /\ next_id' = next_id + 1
  /\ job' = [job EXCEPT ![t].id = next_id]
  /\ Goto(t, "q_move")
  /\ UNCHANGED <<fileVars, ledger, saved>>

\* rename() replaces whatever bears the vault name already.
QuarantineRenames(t) ==
  LET path == job[t].path
  IN  /\ At(t, "q_move")
      /\ files[path] # Absent
      /\ Store(vault, job[t].id, files[path])
      /\ Store(files, path, Absent)
      /\ custody' = custody \union {<<job[t].id, files[path]>>}
      /\ Goto(t, "q_record")
      /\ UNCHANGED <<ledgerVars, lock, job>>

\* Fault: the original is removed before it is copied.
QuarantineCopiesLate(t) ==
  LET path == job[t].path
  IN  /\ At(t, "q_move")
      /\ "rename" \in faults
      /\ files[path] # Absent
      /\ vault[job[t].id] = Absent
      /\ Store(files, path, Absent)
      /\ Goto(t, "q_remove")
      /\ UNCHANGED <<vault, custody, ledgerVars, lock, job>>

\* rename() failed; copy_file() does not overwrite.
QuarantineCopies(t) ==
  LET path == job[t].path
  IN  /\ At(t, "q_move")
      /\ "rename" \in faults
      /\ files[path] # Absent
      /\ vault[job[t].id] = Absent
      /\ Store(vault, job[t].id, files[path])
      /\ Goto(t, "q_remove")
      /\ UNCHANGED <<files, custody, ledgerVars, lock, job>>

QuarantineCannotCopy(t) ==
  /\ At(t, "q_move")
  /\ \/ files[job[t].path] = Absent
     \/ "rename" \in faults /\ vault[job[t].id] # Absent
  /\ Return(t)
  /\ UNCHANGED <<fileVars, ledgerVars>>

\* remove() takes what is at the path now, whatever was copied before.
QuarantineRemoves(t) ==
  /\ At(t, "q_remove")
  /\ Store(files, job[t].path, Absent)
  /\ custody' = custody \union {<<job[t].id, files[job[t].path]>>}
  /\ Goto(t, "q_record")
  /\ UNCHANGED <<vault, ledgerVars, lock, job>>

QuarantineCannotRemove(t) ==
  /\ At(t, "q_remove")
  /\ "locked" \in faults
  /\ Goto(t, "q_undo")
  /\ UNCHANGED <<fileVars, ledgerVars, lock, job>>

\* The cleanup's own error is ignored.
QuarantineUndoes(t) ==
  /\ At(t, "q_undo")
  /\ \/ Store(vault, job[t].id, Absent)
     \/ "locked" \in faults /\ UNCHANGED vault
  /\ Return(t)
  /\ UNCHANGED <<files, custody, ledgerVars>>

RecordOf(t) ==
  [id                   |-> job[t].id,
   finding_id           |-> job[t].finding_id,
   original_path        |-> job[t].path,
   sha256_at_quarantine |-> job[t].sha256,
   restored             |-> FALSE,
   shredded             |-> FALSE]

\* push_back and append_ledger_locked(): nobody is told when the append fails.
QuarantineRecords(t) ==
  /\ At(t, "q_record")
  /\ ledger' = Append(ledger, RecordOf(t))
  /\ \/ saved' = Append(saved, RecordOf(t))
     \/ "append" \in faults /\ UNCHANGED saved
  /\ Return(t)
  /\ UNCHANGED <<fileVars, next_id>>

-----------------------------------------------------------------------------
(* restore() and shred(): under the lock from the first record looked at.  *)

\* The record with the id, as a set of positions with at most one element.
Find(id) == {i \in DOMAIN ledger : ledger[i].id = id}

Hold(t, i, label) ==
  /\ lock' = t
  /\ job' = [job EXCEPT ![t] = [id         |-> ledger[i].id,
                                finding_id |-> ledger[i].finding_id,
                                path       |-> ledger[i].original_path,
                                sha256     |-> ledger[i].sha256_at_quarantine]]
  /\ Goto(t, label)
  /\ UNCHANGED <<fileVars, ledgerVars>>

\* Fault: a shredded record can be restored.
RestoreFindsShredded(t, id) ==
  /\ At(t, "idle")
  /\ lock = Free
  /\ \E i \in Find(id) :
       /\ ~ledger[i].restored
       /\ files[ledger[i].original_path] = Absent
       /\ vault[id] # Absent
       /\ Hold(t, i, "r_move")

\* restore() with a record it can restore; its refusals change nothing.
RestoreFinds(t, id) ==
  /\ At(t, "idle")
  /\ lock = Free
  /\ \E i \in Find(id) :
       /\ ~ledger[i].shredded
       /\ ~ledger[i].restored
       /\ files[ledger[i].original_path] = Absent
       /\ vault[id] # Absent
       /\ Hold(t, i, "r_move")

\* rename() replaces a file that came up at the original path meanwhile.
RestoreRenames(t) ==
  LET id == job[t].id
  IN  /\ At(t, "r_move")
      /\ Store(files, job[t].path, vault[id])
      /\ Store(vault, id, Absent)
      /\ custody' = custody \ {<<id, vault[id]>>}
      /\ Goto(t, "r_save")
      /\ UNCHANGED <<ledgerVars, lock, job>>

RestoreCopies(t) ==
  LET id == job[t].id
  IN  /\ At(t, "r_move")
      /\ "rename" \in faults
      /\ files[job[t].path] = Absent
      /\ Store(files, job[t].path, vault[id])
      /\ custody' = custody \ {<<id, vault[id]>>}
      /\ Goto(t, "r_clear")
      /\ UNCHANGED <<vault, ledgerVars, lock, job>>

RestoreCannotCopy(t) ==
  /\ At(t, "r_move")
  /\ "rename" \in faults
  /\ files[job[t].path] # Absent
  /\ Return(t)
  /\ UNCHANGED <<fileVars, ledgerVars>>

\* The vault copy goes; an error of this removal is ignored.
RestoreClears(t) ==
  /\ At(t, "r_clear")
  /\ \/ Store(vault, job[t].id, Absent)
     \/ "locked" \in faults /\ UNCHANGED vault
  /\ Goto(t, "r_save")
  /\ UNCHANGED <<files, custody, ledgerVars, lock, job>>

ShredFinds(t, id) ==
  /\ At(t, "idle")
  /\ lock = Free
  /\ \E i \in Find(id) :
       /\ ~ledger[i].shredded
       /\ ~ledger[i].restored
       /\ Hold(t, i, IF vault[id] = Absent THEN "s_save" ELSE "s_wipe")

\* The zero overwrite; skipped without a word when the file cannot be opened.
ShredWipes(t) ==
  LET id == job[t].id
  IN  /\ At(t, "s_wipe")
      /\ \/ Store(vault, id, Zeros)
         \/ "locked" \in faults /\ UNCHANGED vault
      /\ custody' = custody \ {<<id, vault[id]>>}
      /\ Goto(t, "s_remove")
      /\ UNCHANGED <<files, ledgerVars, lock, job>>

ShredRemoves(t) ==
  /\ At(t, "s_remove")
  /\ \/ Store(vault, job[t].id, Absent)
     \/ "locked" \in faults /\ UNCHANGED vault
  /\ Goto(t, "s_save")
  /\ UNCHANGED <<files, custody, ledgerVars, lock, job>>

\* The ledger with the record of the job marked restored or shredded.
Marked(t) ==
  [i \in DOMAIN ledger |->
     IF i \in Find(job[t].id)
     THEN IF At(t, "r_save") THEN [ledger[i] EXCEPT !.restored = TRUE]
                             ELSE [ledger[i] EXCEPT !.shredded = TRUE]
     ELSE ledger[i]]

\* rewrite_ledger_locked(): what ledger.txt can hold after it was asked to
\* hold the lines given.  The temporary file replaces it whole, but nobody
\* looks whether the temporary file was written whole.
Rewritten(lines) ==
  {lines}
    \union (IF "append" \in faults THEN {saved} ELSE {})
    \union (IF "disk_full" \in faults THEN {SubSeq(lines, 1, n) : n \in 0..Len(lines)} ELSE {})

Saves(t) ==
  /\ At(t, "r_save") \/ At(t, "s_save")
  /\ ledger' = Marked(t)
  /\ saved' \in Rewritten(Marked(t))
  /\ Return(t)
  /\ UNCHANGED <<fileVars, next_id>>

-----------------------------------------------------------------------------
(* The surroundings.                                                       *)

\* Fault: ids start over after a restart.
next_idOfOne(lines) == 1

\* load_ledger_locked(): ids go on after the largest one found.
next_idOf(lines) == Max({0} \union {lines[i].id : i \in DOMAIN lines}) + 1

\* The process dies wherever it is, and a new executor loads the ledger.
CrashAndRestart ==
  /\ "crash" \in faults
  /\ ledger' = saved
  /\ next_id' = next_idOf(saved)
  /\ lock' = Free
  /\ pc' = [t \in Callers |-> "idle"]
  /\ job' = [t \in Callers |-> NoJob]
  /\ UNCHANGED <<fileVars, saved>>

\* Another program writes a file.
OthersWrite(path, content) ==
  /\ "rewrite" \in faults
  /\ files' = [files EXCEPT ![path] = content]
  /\ UNCHANGED <<vault, custody, ledgerVars, callVars>>

-----------------------------------------------------------------------------
QuarantineStep(t) ==
  \/ \E candidate \in Candidates :
       QuarantineChecks(t, candidate) \/ QuarantineDenied(t, candidate)
  \/ QuarantineFull(t)
  \/ QuarantineReserves(t)
  \/ QuarantineRenames(t)
  \/ QuarantineCopies(t)
  \/ QuarantineCannotCopy(t)
  \/ QuarantineRemoves(t)
  \/ QuarantineCannotRemove(t)
  \/ QuarantineUndoes(t)
  \/ QuarantineRecords(t)

RestoreStep(t) ==
  \/ \E id \in 1..MaxId : RestoreFinds(t, id)
  \/ RestoreRenames(t)
  \/ RestoreCopies(t)
  \/ RestoreCannotCopy(t)
  \/ RestoreClears(t)

ShredStep(t) ==
  \/ \E id \in 1..MaxId : ShredFinds(t, id)
  \/ ShredWipes(t)
  \/ ShredRemoves(t)

QuarNext ==
  /\ \/ \E t \in Callers : QuarantineStep(t) \/ RestoreStep(t) \/ ShredStep(t) \/ Saves(t)
     \/ CrashAndRestart
     \/ \E write \in Rewrites : OthersWrite(write[1], write[2])
  /\ UNCHANGED faults

QuarSpec == QuarInit /\ [][QuarNext]_quarVars

-----------------------------------------------------------------------------
(* Properties.                                                             *)

Labels == {"idle", "q_lock", "q_move", "q_remove", "q_undo", "q_record",
           "r_move", "r_clear", "r_save", "s_wipe", "s_remove", "s_save"}

Locked == Labels \ {"idle", "q_lock"}

\* Type invariant; a caller is past the lock_guard exactly while it owns mtx_.
QuarTypeOK ==
  /\ files \in [Paths -> Contents \union {Absent, Zeros}]
  /\ vault \in [1..MaxId -> Contents \union {Absent, Zeros}]
  /\ next_id \in 1..(MaxId + 1)
  /\ lock \in Callers \union {Free}
  /\ pc \in [Callers -> Labels]
  /\ \A t \in Callers : pc[t] \in Locked <=> lock = t

\* "moves (never deletes)": what was taken away and neither given back nor
\* shredded on request is in the vault.
CustodyKept == \A held \in custody : vault[held[1]] = held[2]

\* Another program can write the file between copy_file() and remove().
Overtaken == {"rename", "rewrite"} \subseteq faults

\* It holds while the process lives, through failing calls and through other
\* writers too, except where both meet: what another program writes between
\* the copy to another volume and the removal of the original is in no vault.
CustodyKeptInOneLife == "crash" \notin faults /\ ~Overtaken => CustodyKept

\* Ids are used once: the ledger lists them in increasing order and the next
\* one is new, even after callers raced for the lock or the process restarted.
IdsFresh ==
  /\ \A i, j \in DOMAIN ledger : i < j => ledger[i].id < ledger[j].id
  /\ \A i \in DOMAIN ledger : ledger[i].id < next_id

\* Between two calls the ledger file tells what the memory tells, as long as
\* the file can be written.
LedgerInStep ==
  lock = Free /\ faults \intersect {"append", "disk_full"} = {} => saved = ledger

\* In one life of the process, a record that is neither restored nor shredded
\* has its file in the vault, so that restore() can succeed, unless a caller is
\* at that record now.
RecordsRestorable ==
  "crash" \notin faults =>
    \A i \in DOMAIN ledger :
      LET r == ledger[i]
      IN  ~r.restored /\ ~r.shredded /\ (lock = Free \/ job[lock].id # r.id)
            => vault[r.id] \in Contents

\* No caller ends a record's life twice: restored or shredded is final, and
\* never both, although restore() and shred() of two callers race.
FinishedOnce ==
  [][\A i \in DOMAIN ledger :
       ledger[i].restored \/ ledger[i].shredded =>
         /\ ~(ledger[i].restored /\ ledger[i].shredded)
         /\ \/ i \in DOMAIN ledger' /\ ledger'[i] = ledger[i]
            \/ faults \intersect {"append", "disk_full"} # {}]_quarVars

\* The labels at which quarantine() has an id but no record yet.
Taking == {"q_move", "q_remove", "q_undo", "q_record"}

\* The vault file of an id that ledger.txt records is never another file,
\* across crashes at any point: an id that a restart hands out again is not
\* one of a record, and under the id of a record is what was hashed for it, or
\* what restore() or shred() left of that.
SlotsUnshared ==
  \A i \in DOMAIN saved :
    LET r == saved[i]
    IN  /\ \A t \in Callers : pc[t] \in Taking => job[t].id # r.id
        /\ "rewrite" \notin faults => vault[r.id] \in {r.sha256_at_quarantine, Zeros, Absent}

\* The ledger in memory, the ledger file and the vault agree, through races,
\* failing calls and crashes.
LedgerConsistent ==
  QuarTypeOK /\ IdsFresh /\ LedgerInStep /\ RecordsRestorable /\ SlotsUnshared

\* Without other writers the vault holds what was hashed.  That is less than
\* "a file that changed after detection is never quarantined on stale
\* evidence": a file that changes between the hash and the move is, under the
\* hash of what it was.  (A crash in the middle of shred() leaves zeros in the
\* vault; restore() may put them back at the path.)
HeldAsHashed ==
  "rewrite" \notin faults =>
    \A t \in Callers : pc[t] = "q_record" =>
      \/ vault[job[t].id] = job[t].sha256
      \/ "crash" \in faults /\ vault[job[t].id] = Zeros

\* "securely shred it": a record marked shredded has no content left, unless
\* its file could not be opened or removed.
ShreddedIsGone ==
  "locked" \notin faults =>
    \A i \in DOMAIN ledger :
      ledger[i].shredded => vault[ledger[i].id] = Absent

\* The vault keeps what quarantine() took until the user ends it, as it was
\* hashed, and nothing of what the user shredded: each as far as the three
\* conjuncts say, none of them against a program that writes the same file
\* between two calls of quarantine().
CustodyHonest == CustodyKeptInOneLife /\ HeldAsHashed /\ ShreddedIsGone

\* An artifact is where the executor put it last; it is at home while a copy
\* is being made.  Nothing is promised across a crash or under other writers.
Place(a) ==
  CASE \/ \E p \in Paths : files[p] = a
       \/ faults \intersect {"crash", "rewrite"} # {} -> "home"
    [] /\ faults \intersect {"crash", "rewrite"} = {}
       /\ \A p \in Paths : files[p] # a
       /\ \E id \in 1..MaxId : vault[id] = a -> "vault"
    [] OTHER -> "destroyed"

\* The artifacts are the contents found at the start.
Found == {InitialFiles[p] : p \in Paths}

Vault == INSTANCE QuarantineVault
           WITH Artifacts <- Found, place <- [a \in Found |-> Place(a)]

\* Seen from outside an artifact moves between home and vault in one step, or
\* is destroyed for good.
ImplementsVault == Vault!VaultSpec
=============================================================================

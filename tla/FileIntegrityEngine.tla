------------------------ MODULE FileIntegrityEngine -------------------------
(***************************************************************************)
(* FIM: a baseline of hashes and modification times.  A check hashes a     *)
(* file only when its modification time differs, so everything rests on    *)
(* the order in which time and hash are read.                              *)
(***************************************************************************)
EXTENDS Naturals, FiniteSets

CONSTANTS FimFiles, FimContents,
          FimMaxTime,             \* bound on modification times
          FimPolls                \* the poll intervals, shortest first: 2, 4, 8, 16, 30 s

ASSUME FimConstants == FimMaxTime \in Nat /\ FimPolls \in Nat \ {0}

VARIABLES fimDisk,      \* path -> [content, mtime]; content "gone": no such file
          fimBase,      \* baseline_: path -> [sha256, mtime], a partial function
          fim,          \* pc, files left to visit, what was read first, poll, quiet ticks, alerts
          fimTold,      \* history: <<path, content>> alarmed
          fimTimes,     \* history: path -> the modification times it had since start()
          fimBlind      \* history: files written while build_baseline() was at
                        \* them or with a time they had had, or unreadable in a check

fimVars == <<fimDisk, fimBase, fim, fimTold, fimTimes, fimBlind>>

\* file_time_type::min(), what last_write_time() gives when it fails.
FimNoTime == 0

FimInit ==
  /\ fimDisk = [p \in FimFiles |-> [content |-> CHOOSE c \in FimContents : TRUE, mtime |-> 1]]
  /\ fimBase = <<>>
  /\ fim = [pc |-> "off", left |-> {}, seen |-> <<>>, poll |-> 1, quiet |-> 0, alerts |-> 0]
  /\ fimTold = {}
  /\ fimTimes = [p \in FimFiles |-> {1}]
  /\ fimBlind = {}

FimHere(p) == fimDisk[p].content # "gone"

FimStart ==
  /\ fim.pc = "off"
  /\ fim' = [fim EXCEPT !.pc = "build", !.left = FimFiles]
  /\ fimBase' = <<>>
  /\ fimTimes' = [p \in FimFiles |-> {fimDisk[p].mtime}]
  /\ fimBlind' = {}
  /\ UNCHANGED <<fimDisk, fimTold>>

\* build_baseline(): the hash first (a file that cannot be read is left out) ...
FimBuildHash(p) ==
  /\ fim.pc = "build" /\ p \in fim.left /\ fim.seen = <<>>
  /\ \/ FimHere(p) /\ fim' = [fim EXCEPT !.seen = <<p, fimDisk[p].content>>]
     \/ fim' = [fim EXCEPT !.left = @ \ {p}]
  /\ UNCHANGED <<fimDisk, fimBase, fimTold, fimTimes, fimBlind>>

\* ... and the modification time after it, if it can be read.
FimBuildTime ==
  /\ fim.pc = "build" /\ fim.seen # <<>>
  /\ LET p == fim.seen[1]
     IN  /\ \E time \in {fimDisk[p].mtime, FimNoTime} :
              fimBase' = [q \in DOMAIN fimBase \union {p} |->
                            IF q = p THEN [sha256 |-> fim.seen[2], mtime |-> time] ELSE fimBase[q]]
         /\ fim' = [fim EXCEPT !.left = @ \ {p}, !.seen = <<>>]
  /\ UNCHANGED <<fimDisk, fimTold, fimTimes, fimBlind>>

\* monitor_loop() after a check: an alert brings the short pause back, the
\* fifth quiet pass and every later one doubles it.
FimPause(alerts) ==
  IF alerts > 0 THEN [fim EXCEPT !.pc = "sleep", !.poll = 1, !.quiet = 0, !.alerts = 0]
  ELSE [fim EXCEPT !.pc = "sleep", !.quiet = IF @ < 5 THEN @ + 1 ELSE @,
                   !.poll = IF fim.quiet >= 4 /\ @ < FimPolls THEN @ + 1 ELSE @]

FimSleeps ==
  /\ fim.pc \in {"build", "check"} /\ fim.left = {}
  /\ fim' = IF fim.pc = "build" THEN [fim EXCEPT !.pc = "sleep", !.poll = 1, !.quiet = 0]
            ELSE FimPause(fim.alerts)
  /\ UNCHANGED <<fimDisk, fimBase, fimTold, fimTimes, fimBlind>>

FimWakes ==
  /\ fim.pc = "sleep"
  /\ fim' = [fim EXCEPT !.pc = "check", !.left = DOMAIN fimBase]
  /\ UNCHANGED <<fimDisk, fimBase, fimTold, fimTimes, fimBlind>>

FimStop ==
  /\ fim.pc = "sleep"
  /\ fim' = [fim EXCEPT !.pc = "off"]
  /\ UNCHANGED <<fimDisk, fimBase, fimTold, fimTimes, fimBlind>>

\* check_integrity() at one file: to be hashed, skipped (its time is the known
\* one or cannot be read), or taken for deleted, as when exists() fails.
FimCheckTime(p) ==
  /\ fim.pc = "check" /\ p \in fim.left /\ fim.seen = <<>>
  /\ \/ /\ FimHere(p) /\ fimDisk[p].mtime # fimBase[p].mtime
        /\ fim' = [fim EXCEPT !.seen = <<p, fimDisk[p].mtime>>]
        /\ UNCHANGED fimTold
     \/ /\ fim' = [fim EXCEPT !.left = @ \ {p}]
        /\ UNCHANGED fimTold
     \/ /\ fim' = [fim EXCEPT !.left = @ \ {p}, !.alerts = @ + 1]
        /\ fimTold' = fimTold \union {<<p, "gone">>}
  /\ UNCHANGED <<fimDisk, fimBase, fimTimes, fimBlind>>

\* Fault: the new hash is kept before it is compared.
FimNoteQuietly(p, hash) ==
  /\ fimBase' = [fimBase EXCEPT ![p] = [sha256 |-> hash, mtime |-> fim.seen[2]]]
  /\ fim' = [fim EXCEPT !.left = @ \ {p}, !.seen = <<>>]
  /\ UNCHANGED fimTold

\* A new hash is alarmed and kept, the time seen before it in any case.
FimNote(p, hash) ==
  /\ fimBase' = [fimBase EXCEPT ![p] = [sha256 |-> hash, mtime |-> fim.seen[2]]]
  /\ fim' = [fim EXCEPT !.left = @ \ {p}, !.seen = <<>>,
                        !.alerts = IF hash # fimBase[p].sha256 THEN @ + 1 ELSE @]
  /\ fimTold' = IF hash # fimBase[p].sha256 THEN fimTold \union {<<p, hash>>} ELSE fimTold

\* ... hashed; a file that cannot be read keeps its hash and gets the new time.
FimCheckHash ==
  /\ fim.pc = "check" /\ fim.seen # <<>>
  /\ LET p == fim.seen[1]
     IN  \/ FimHere(p) /\ FimNote(p, fimDisk[p].content) /\ fimBlind' = fimBlind \ {p}
         \/ FimNote(p, fimBase[p].sha256) /\ fimBlind' = fimBlind \union {p}
  /\ UNCHANGED <<fimDisk, fimTimes>>

\* Another program writes, deletes or creates the file; its modification time
\* may be any, the one it had too: times are coarse and can be set.
FimOthersWrite(p, content, time) ==
  /\ fimDisk' = [fimDisk EXCEPT ![p] = [content |-> content, mtime |-> time]]
  /\ fimTimes' = [fimTimes EXCEPT ![p] = @ \union {time}]
  /\ fimBlind' = IF time \in fimTimes[p] \/ (fim.pc = "build" /\ fim.seen # <<>> /\ p \in {fim.seen[1]})
                 THEN fimBlind \union {p} ELSE fimBlind
  /\ UNCHANGED <<fimBase, fim, fimTold>>

FimNext ==
  \/ FimStart \/ FimBuildTime \/ FimSleeps \/ FimWakes \/ FimStop \/ FimCheckHash
  \/ \E p \in FimFiles :
       \/ FimBuildHash(p) \/ FimCheckTime(p)
       \/ \E content \in FimContents \union {"gone"}, time \in 1..FimMaxTime : FimOthersWrite(p, content, time)

FimSpec == FimInit /\ [][FimNext]_fimVars

\* A file whose modification time is the one of the baseline has the content
\* of the baseline, however checks and writes interleave: nothing that
\* check_integrity() skips for its time has changed.  Not so for a file that
\* was written during build_baseline() or with a modification time it had had
\* since start(), or could not be read during a check, until a check hashes it.
FimTimeTellsContent ==
  \A p \in DOMAIN fimBase \ fimBlind :
    FimHere(p) /\ fimDisk[p].mtime = fimBase[p].mtime => fimDisk[p].content = fimBase[p].sha256

\* check_integrity() takes no new content into the baseline that it did not
\* alarm about.
FimNoSilentUpdate ==
  [][\A p \in DOMAIN fimBase \intersect DOMAIN fimBase' :
       fim.pc = "check" /\ fimBase'[p].sha256 # fimBase[p].sha256
         => <<p, fimBase'[p].sha256>> \in fimTold']_fimVars

\* The pause of monitor_loop() is longer than the shortest only after five
\* passes without an alert.
FimLongPauseEarned == fim.poll > 1 => fim.quiet = 5
=============================================================================

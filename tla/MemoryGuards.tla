---------------------------- MODULE MemoryGuards ----------------------------
EXTENDS Naturals, SequencesExt

(***************************************************************************)
(* PMSREngine: a ring of entries, each with a canary under a key that      *)
(* changes all the time and, for a region of memory that was registered,   *)
(* a hash of its content.  The monitor checks the ring with the lock held, *)
(* reports without it and then changes the keys; memory may be written     *)
(* between any two of these steps.  An entry's canary and key are modelled *)
(* by whether they still fit together, its own hash by whether it fits.    *)
(***************************************************************************)

CONSTANTS PmAddrs, RING_SIZE,
          PmCode, PmImports, \* the regions that start() registers; PmImports is 0 where there is no table
          PmMaxWrites, PmMaxCorrupt, PmMaxCalls  \* bounds: writes to regions, to entries, calls of start() and register_region()

ASSUME PmConstants == {RING_SIZE, PmMaxWrites, PmMaxCorrupt, PmMaxCalls} \subseteq Nat /\ RING_SIZE > 0
                      /\ PmAddrs \subseteq Nat \ {0} /\ PmCode \in PmAddrs /\ PmImports \in PmAddrs \union {0}

VARIABLES pmRing, pmMem,     \* shadow_ring_ (address 0: no region); content of each region, 0 where it cannot be read
          pmMonitor,         \* "off", "check", "emit", "rotate"
          pmFound,           \* violations collected by the check
          pmWrites, pmCorrupt, pmCalls,
          pmBad,             \* history: entries whose canary was damaged, not reported yet
          pmForged,          \* history: entries forged so that canary and key fit, while the monitor slept, not reported yet
          pmTold             \* history: pmTold[a]: content of a when it was registered or last reported

pmVars == <<pmRing, pmMem, pmMonitor, pmFound, pmWrites, pmCorrupt, pmCalls, pmBad, pmForged, pmTold>>

PmFresh == [addr |-> 0, canary |-> TRUE, hash |-> TRUE, content |-> 0]
PmZero == [addr |-> 0, canary |-> FALSE, hash |-> FALSE, content |-> 0]
PmRegion(a) == [addr |-> a, canary |-> TRUE, hash |-> TRUE, content |-> pmMem[a]]

PmSlot(a) == (a % RING_SIZE) + 1

PmInit ==
  /\ pmRing = <<>> /\ pmMem = [a \in PmAddrs |-> 1] /\ pmMonitor = "off" /\ pmFound = {}
  /\ pmWrites = 0 /\ pmCorrupt = 0 /\ pmCalls = 0 /\ pmBad = {} /\ pmForged = {} /\ pmTold = [a \in PmAddrs |-> 0]

\* register_region(): the ring has at least its size, with entries of zeros
\* where there were none; the entry of the address is used anew.
PmWith(ring, a) ==
  LET grown == ring \o [i \in 1 .. (IF Len(ring) < RING_SIZE THEN RING_SIZE - Len(ring) ELSE 0) |-> PmZero]
  IN  [grown EXCEPT ![PmSlot(a)] = PmRegion(a)]

\* start() adds the entries, registers the code and the table of imports and
\* adds two honey entries, if there is room.
PmStart ==
  LET coded == PmWith(pmRing \o [i \in 1 .. RING_SIZE |-> PmFresh], PmCode)
      filled == IF PmImports = 0 THEN coded ELSE PmWith(coded, PmImports)
      own == {PmCode, PmImports} \ {0}
      room == IF Len(filled) < 2 * RING_SIZE THEN 2 * RING_SIZE - Len(filled) ELSE 0
  IN  /\ pmMonitor = "off" /\ pmCalls < PmMaxCalls /\ pmCalls' = pmCalls + 1
      /\ pmRing' = filled \o [i \in 1 .. (IF room > 2 THEN 2 ELSE room) |-> PmFresh]
      /\ pmBad' = pmBad \ {PmSlot(a) : a \in own} /\ pmForged' = pmForged \ {PmSlot(a) : a \in own}
      /\ pmTold' = [a \in PmAddrs |-> IF a \in own THEN pmMem[a] ELSE pmTold[a]]
      /\ pmMonitor' = "check"
      /\ UNCHANGED <<pmMem, pmFound, pmWrites, pmCorrupt>>

\* stop() joins the monitor after its turn and wipes the ring.
PmStop ==
  /\ pmMonitor = "check" /\ pmMonitor' = "off" /\ pmRing' = <<>> /\ pmBad' = {} /\ pmForged' = {}
  /\ UNCHANGED <<pmMem, pmFound, pmWrites, pmCorrupt, pmCalls, pmTold>>

PmRegister(a) ==
  /\ pmCalls < PmMaxCalls /\ pmCalls' = pmCalls + 1
  /\ pmRing' = PmWith(pmRing, a)
  /\ pmBad' = pmBad \ {PmSlot(a)} /\ pmForged' = pmForged \ {PmSlot(a)}
  /\ pmTold' = [pmTold EXCEPT ![a] = pmMem[a]]
  /\ UNCHANGED <<pmMem, pmMonitor, pmFound, pmWrites, pmCorrupt>>

\* Something writes to a region or makes it unreadable, ...
PmWrite(a) ==
  /\ pmWrites < PmMaxWrites /\ pmWrites' = pmWrites + 1 /\ pmMem' = [pmMem EXCEPT ![a] = @ + 1]
  /\ UNCHANGED <<pmRing, pmMonitor, pmFound, pmCorrupt, pmCalls, pmBad, pmForged, pmTold>>

PmHide(a) ==
  /\ pmWrites < PmMaxWrites /\ pmWrites' = pmWrites + 1 /\ pmMem' = [pmMem EXCEPT ![a] = 0]
  /\ UNCHANGED <<pmRing, pmMonitor, pmFound, pmCorrupt, pmCalls, pmBad, pmForged, pmTold>>

\* ... writes to the canary of an entry, or to its key and canary so that they
\* still fit.
PmDamage(i, fits) ==
  /\ pmCorrupt < PmMaxCorrupt /\ pmCorrupt' = pmCorrupt + 1
  /\ pmRing' = [pmRing EXCEPT ![i] = [addr |-> @.addr, canary |-> @.canary /\ fits, hash |-> FALSE, content |-> @.content]]
  /\ pmBad' = IF fits THEN pmBad ELSE pmBad \union {i}
  /\ pmForged' = IF fits /\ pmMonitor \in {"off", "check"} THEN pmForged \union {i} ELSE pmForged
  /\ UNCHANGED <<pmMem, pmMonitor, pmFound, pmWrites, pmCalls, pmTold>>

PmChanged(e) == e.addr # 0 /\ e.content # 0 /\ pmMem[e.addr] # 0 /\ e.content # pmMem[e.addr]

\* What the check reports of an entry; a canary that is made anew has its
\* hash made anew.
PmFinds(i, e) ==
  {[what |-> w, at |-> i, addr |-> e.addr] :
     w \in (IF ~e.canary THEN {"canary"} ELSE IF ~e.hash THEN {"hash"} ELSE {}) \union (IF PmChanged(e) THEN {"region"} ELSE {})}

PmChecked(e) ==
  [addr |-> e.addr, canary |-> TRUE, hash |-> TRUE, content |-> IF PmChanged(e) THEN pmMem[e.addr] ELSE e.content]

PmCheck ==
  /\ pmMonitor = "check" /\ pmMonitor' = "emit"
  /\ pmFound' = UNION {PmFinds(i, pmRing[i]) : i \in DOMAIN pmRing}
  /\ pmRing' = [i \in DOMAIN pmRing |-> PmChecked(pmRing[i])]
  /\ pmBad' = pmBad \ {v.at : v \in {w \in pmFound' : w.what = "canary"}}
  /\ pmForged' = pmForged \ {v.at : v \in {w \in pmFound' : w.what \in {"canary", "hash"}}}
  /\ pmTold' = [a \in PmAddrs |-> IF \E v \in pmFound' : v.what = "region" /\ v.addr = a THEN pmMem[a] ELSE pmTold[a]]
  /\ UNCHANGED <<pmMem, pmWrites, pmCorrupt, pmCalls>>

PmEmit ==
  /\ pmMonitor = "emit" /\ pmMonitor' = "rotate" /\ pmFound' = {}
  /\ UNCHANGED <<pmRing, pmMem, pmWrites, pmCorrupt, pmCalls, pmBad, pmForged, pmTold>>

\* Fault: the canary is made of the magic number again.
PmRotatedAnew(e) == [e EXCEPT !.hash = TRUE, !.canary = TRUE]

\* rotate_keys(): the canary is what it was, under the new key.
PmRotated(e) == [e EXCEPT !.hash = TRUE]

PmRotate ==
  /\ pmMonitor = "rotate" /\ pmMonitor' = "check"
  /\ pmRing' = [i \in DOMAIN pmRing |-> PmRotated(pmRing[i])]
  /\ UNCHANGED <<pmMem, pmFound, pmWrites, pmCorrupt, pmCalls, pmBad, pmForged, pmTold>>

PmNext ==
  \/ PmStart \/ PmStop \/ PmCheck \/ PmEmit \/ PmRotate
  \/ \E a \in PmAddrs : PmRegister(a) \/ PmWrite(a) \/ PmHide(a)
  \/ \E i \in DOMAIN pmRing, fits \in BOOLEAN : PmDamage(i, fits)

PmSpec == PmInit /\ [][PmNext]_pmVars

\* A canary that was damaged at any moment, also between the check and the
\* change of keys, is found by the next check; so is an entry that was forged
\* with key and canary fitting while the monitor slept.  One that is forged
\* between the check and the change of keys gets a new hash from rotate_keys()
\* and is never found.
PmDamageFound == (\A i \in pmBad : ~pmRing[i].canary) /\ (\A i \in pmForged : ~pmRing[i].hash)

\* Who follows the reports knows the content that every registered region is
\* compared with, 0 for one that could not be read when it was registered and
\* is not watched: no change is taken over in silence.
PmChangeTold == \A i \in DOMAIN pmRing : pmRing[i].addr # 0 => pmRing[i].content = pmTold[pmRing[i].addr]

-----------------------------------------------------------------------------
(***************************************************************************)
(* AmsiGuardEngine: the first bytes of AmsiScanBuffer are copied when the  *)
(* engine is made; a monitor thread compares them now and then, raises an  *)
(* alarm and writes the copy back.  Other code in the process may change   *)
(* the bytes at any time, before the engine is made too.                   *)
(***************************************************************************)

CONSTANTS AmPatches,     \* beginnings that is_patch_bypass() knows
          AmHooks,       \* other changed beginnings
          AmMaxChanges, AmMaxStarts, AmMaxChecks

ASSUME AmConstants == {AmMaxChanges, AmMaxStarts, AmMaxChecks} \subseteq Nat

VARIABLES amBytes, amCopy,   \* the code of AmsiScanBuffer, original_prologue_
          amRunning,         \* running_
          amMonitor,         \* "unmade" (no engine yet), "none", "wait", "alarm", "restore", "ended"
          amWas,             \* was_bypassed
          amStarts, amChanges, amChecks,
          amAlarms,          \* history: alarms raised
          amFound,           \* history: the last check found a change
          amTold             \* history: an alarm was raised since the bytes were last found intact

amVars == <<amBytes, amCopy, amRunning, amMonitor, amWas, amStarts, amChanges, amChecks, amAlarms, amFound, amTold>>

AmInit ==
  /\ amBytes = "code" /\ amCopy = "none" /\ amRunning = FALSE /\ amMonitor = "unmade" /\ amWas = FALSE
  /\ amStarts = 0 /\ amChanges = 0 /\ amChecks = 0 /\ amAlarms = 0 /\ amFound = FALSE /\ amTold = FALSE

AmChange(b) ==
  /\ amChanges < AmMaxChanges /\ b # amBytes /\ amBytes' = b /\ amChanges' = amChanges + 1
  /\ UNCHANGED <<amCopy, amRunning, amMonitor, amWas, amStarts, amChecks, amAlarms, amFound, amTold>>

\* AmsiGuardEngine()
AmMake ==
  /\ amMonitor = "unmade" /\ amMonitor' = "none" /\ amCopy' = amBytes
  /\ UNCHANGED <<amBytes, amRunning, amWas, amStarts, amChanges, amChecks, amAlarms, amFound, amTold>>

AmStart ==
  /\ ~amRunning /\ amMonitor = "none" /\ amStarts < AmMaxStarts
  /\ amRunning' = TRUE /\ amMonitor' = "wait" /\ amWas' = FALSE /\ amStarts' = amStarts + 1 /\ amFound' = FALSE /\ amTold' = FALSE
  /\ UNCHANGED <<amBytes, amCopy, amChanges, amChecks, amAlarms>>

\* stop(): the flag; the join is over when the monitor has ended.
AmStop ==
  \/ /\ amRunning /\ amRunning' = FALSE /\ UNCHANGED amMonitor
     /\ UNCHANGED <<amBytes, amCopy, amWas, amStarts, amChanges, amChecks, amAlarms, amFound, amTold>>
  \/ /\ amMonitor = "ended" /\ amMonitor' = "none"
     /\ UNCHANGED <<amBytes, amCopy, amRunning, amWas, amStarts, amChanges, amChecks, amAlarms, amFound, amTold>>

\* check_amsi_integrity()
AmIntact == amBytes \notin AmPatches /\ amBytes = amCopy

\* The bytes were found intact.
AmRearm(was) == FALSE

AmCheck ==
  /\ amMonitor = "wait" /\ amRunning /\ amChecks < AmMaxChecks /\ amChecks' = amChecks + 1
  /\ amFound' = ~AmIntact
  /\ IF AmIntact THEN amWas' = AmRearm(amWas) /\ amTold' = FALSE /\ UNCHANGED amMonitor
     ELSE amMonitor' = (IF amWas THEN "wait" ELSE "alarm") /\ UNCHANGED <<amWas, amTold>>
  /\ UNCHANGED <<amBytes, amCopy, amRunning, amStarts, amChanges, amAlarms>>

\* was_bypassed is set and emit_threat() is called.
AmAlarm ==
  /\ amMonitor = "alarm" /\ amMonitor' = "restore" /\ amWas' = TRUE /\ amAlarms' = amAlarms + 1 /\ amTold' = TRUE
  /\ UNCHANGED <<amBytes, amCopy, amRunning, amStarts, amChanges, amChecks, amFound>>

\* restore_amsi_prologue(): VirtualProtect may refuse.
AmRestore ==
  /\ amMonitor = "restore" /\ amMonitor' = "wait" /\ amBytes' \in {amCopy, amBytes}
  /\ UNCHANGED <<amCopy, amRunning, amWas, amStarts, amChanges, amChecks, amAlarms, amFound, amTold>>

AmEnd ==
  /\ amMonitor = "wait" /\ ~amRunning /\ amMonitor' = "ended"
  /\ UNCHANGED <<amBytes, amCopy, amRunning, amWas, amStarts, amChanges, amChecks, amAlarms, amFound, amTold>>

AmNext ==
  \/ AmMake \/ AmStart \/ AmStop \/ AmCheck \/ AmAlarm \/ AmRestore \/ AmEnd
  \/ \E b \in {"code"} \cup AmPatches \cup AmHooks : AmChange(b)

AmSpec == AmInit /\ [][AmNext]_amVars

\* While the last check found the bytes changed, an alarm was raised after
\* they were last found intact: no new spell of tampering goes unreported.
AmTamperTold == amFound /\ amMonitor = "wait" => amTold

\* An alarm is not repeated while nothing changes: each one has a change of
\* the bytes or a start of the engine of its own.
AmAlarmsEarned == amAlarms <= amChanges + amStarts
=============================================================================

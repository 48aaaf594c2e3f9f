---------------------------- MODULE ThreatAlerts ----------------------------
EXTENDS Integers, SequencesExt, FiniteSets

(***************************************************************************)
(* The event log of EngineManager: a threat event that an engine reports   *)
(* gets an id and a time and is appended to event_log_, from which the     *)
(* current threat level is computed.  Engines report from threads of their *)
(* own; each call of push_event() is a process here.  The callback, the    *)
(* timeline and the pipeline, which the call passes the event to next, are *)
(* AlertManager, ForensicTimeline and SecurityPipeline.                    *)
(***************************************************************************)

CONSTANTS TlCallers,             \* calls of push_event() that may be under way together
          TlLevels,              \* ThreatLevel, 0 (SAFE) upwards
          MAX_LOG, LogDropped,   \* length at which the oldest LogDropped are erased
          LevelWindow,           \* minutes that an event counts for current_threat_level()
          TlMaxId, TlMaxTime,    \* bounds: events, time
          TlStall                \* longest time a call takes between its clock and the lock, while nobody sets the clock

ASSUME TlConstants ==
  /\ {MAX_LOG, LogDropped, LevelWindow, TlMaxId, TlMaxTime, TlStall} \subseteq Nat
  /\ TlLevels \subseteq Nat /\ 0 < LogDropped /\ LogDropped <= MAX_LOG /\ TlStall <= LevelWindow

VARIABLES tlNextId, tlNow,       \* next_id_; clock
          tlLog,                 \* event_log_
          tlCalls,               \* tlCalls[c]: the event of the call that is not appended yet
          tlLogged,              \* history: everything ever appended
          tlEpoch                \* history: the first id after the clock was last set

tlVars == <<tlNextId, tlNow, tlLog, tlCalls, tlLogged, tlEpoch>>

TlNoEvent == [id |-> 0, level |-> 0, time |-> 0]

TlInit ==
  /\ tlNextId = 1 /\ tlNow = 0 /\ tlLog = <<>>
  /\ tlCalls = [c \in TlCallers |-> TlNoEvent] /\ tlLogged = <<>> /\ tlEpoch = 1

\* push_event(): the id and the time, before any lock; ...
TlReport(c, level) ==
  /\ tlCalls[c] = TlNoEvent /\ tlNextId <= TlMaxId
  /\ tlNextId' = tlNextId + 1
  /\ tlCalls' = [tlCalls EXCEPT ![c] = [id |-> tlNextId, level |-> level, time |-> tlNow]]
  /\ UNCHANGED <<tlNow, tlLog, tlLogged, tlEpoch>>

TlTrimmed(log) == IF Len(log) > MAX_LOG THEN SubSeq(log, LogDropped + 1, Len(log)) ELSE log

\* ... and the log, under its lock.
TlAppend(c) ==
  /\ tlCalls[c] # TlNoEvent
  /\ tlLog' = TlTrimmed(Append(tlLog, tlCalls[c]))
  /\ tlLogged' = Append(tlLogged, tlCalls[c])
  /\ tlCalls' = [tlCalls EXCEPT ![c] = TlNoEvent]
  /\ UNCHANGED <<tlNextId, tlNow, tlEpoch>>

\* Time passes; a call that has an event's time is not held up longer than
\* TlStall before it appends the event.
TlTick ==
  /\ tlNow < TlMaxTime
  /\ \A c \in TlCallers : tlCalls[c].id >= tlEpoch => tlNow - tlCalls[c].time < TlStall
  /\ tlNow' = tlNow + 1
  /\ UNCHANGED <<tlNextId, tlLog, tlCalls, tlLogged, tlEpoch>>

\* The time of an event is the system clock's, which may be set to any time.
TlSet(t) ==
  /\ tlNow' = t /\ t # tlNow /\ tlEpoch' = tlNextId
  /\ UNCHANGED <<tlNextId, tlLog, tlCalls, tlLogged>>

TlNext ==
  \/ \E c \in TlCallers : TlAppend(c) \/ \E level \in TlLevels : TlReport(c, level)
  \/ TlTick \/ \E t \in 0 .. TlMaxTime : TlSet(t)

TlSpec == TlInit /\ [][TlNext]_tlVars

TlMaxLevel(evs) == CHOOSE m \in {e.level : e \in evs} \union {0} : \A e \in evs : e.level <= m

\* current_threat_level() goes back in the log up to the first event that is
\* too old; the log is in the order of the appends, not of the times.
TlCurrentLevel ==
  LET n == SelectLastInSeq(tlLog, LAMBDA e : tlNow - e.time > LevelWindow)
  IN  TlMaxLevel(ToSet(SubSeq(tlLog, n + 1, Len(tlLog))))

\* recent_events()
TlRecent(n) == SubSeq(tlLog, Len(tlLog) - (IF Len(tlLog) > n THEN n ELSE Len(tlLog)) + 1, Len(tlLog))

\* The event at a place in the log and all after it are from the time since the
\* clock was last set.
TlSettled(i) == \A j \in i .. Len(tlLog) : tlLog[j].id >= tlEpoch

\* No event of the last minutes is missing from the threat level shown, those
\* of the last TlStall of the window excepted, and no older one is in it,
\* although times are taken in one order and events appended in another.  An
\* event from before the clock was set, or followed by one, may be missing: the
\* walk through the log ends at an event that now seems old.
TlLevelCovers ==
  LET recent == {tlLog[i] : i \in {j \in 1 .. Len(tlLog) : TlSettled(j) /\ tlNow - tlLog[j].time <= LevelWindow - TlStall}}
      young == {e \in ToSet(tlLog) : tlNow - e.time <= LevelWindow}
  IN  TlMaxLevel(recent) <= TlCurrentLevel /\ TlCurrentLevel <= TlMaxLevel(young)

\* recent_events(n) has the n events appended last, whatever the log dropped,
\* for every n up to what a trim leaves.
TlRecentComplete ==
  \A n \in 0 .. MAX_LOG + 1 - LogDropped :
    TlRecent(n) = SubSeq(tlLogged, Len(tlLogged) - (IF Len(tlLogged) > n THEN n ELSE Len(tlLogged)) + 1, Len(tlLogged))

-----------------------------------------------------------------------------
(***************************************************************************)
(* AlertManager: the alerts shown to the user.  push() is the callback of  *)
(* EngineManager and runs on the threads of the engines; each call is a    *)
(* process.  Everything but min_level_, which push() reads without the     *)
(* lock, and the time of the last sound is guarded by mtx_.                *)
(***************************************************************************)

CONSTANTS AlCallers,                 \* calls of push() that may be under way together
          AlLevels,                  \* ThreatLevel of the events
          MAX_HISTORY, HIGH, SOUND_COOLDOWN,
          AlMaxId, AlMaxTime         \* bounds: alerts, time

ASSUME AlConstants == AlLevels \union {MAX_HISTORY, HIGH, SOUND_COOLDOWN, AlMaxId, AlMaxTime} \subseteq Nat

VARIABLES alNextId, alMinLevel, alHistory,  \* next_id_, min_level_, history_
          alSound, alLast,                  \* sound_enabled_, last_sound_time_ms_
          alNow, alCalls,                   \* clock; alCalls[c]: where the call is and what it has read
          alAcked,                          \* history: ids that were acknowledged
          alBeeps                           \* history: the sounds played

alVars == <<alNextId, alMinLevel, alHistory, alSound, alLast, alNow, alCalls, alAcked, alBeeps>>

AlIdle == [pc |-> "idle", id |-> 0, level |-> 0, at |-> 0]

\* The steady clock has run for longer than the cooldown when GCAD starts.
AlInit ==
  /\ alNextId = 1 /\ alMinLevel = 1 /\ alHistory = <<>> /\ alSound = FALSE /\ alLast = 0
  /\ alNow = SOUND_COOLDOWN /\ alCalls = [c \in AlCallers |-> AlIdle] /\ alAcked = {} /\ alBeeps = {}

AlGoto(c, pc) == alCalls' = [alCalls EXCEPT ![c].pc = pc]

\* push(): min_level_ and the id, without the lock; ...
AlPush(c, level) ==
  /\ alCalls[c].pc = "idle" /\ level >= alMinLevel /\ alNextId <= AlMaxId
  /\ alNextId' = alNextId + 1
  /\ alCalls' = [alCalls EXCEPT ![c] = [pc |-> "insert", id |-> alNextId, level |-> level, at |-> 0]]
  /\ UNCHANGED <<alMinLevel, alHistory, alSound, alLast, alNow, alAcked, alBeeps>>

AlKept(h) == IF Len(h) > MAX_HISTORY THEN Tail(h) ELSE h

\* ... the history; after the notification, play_sound() if sounds are on, ...
AlInsert(c) ==
  /\ alCalls[c].pc = "insert"
  /\ alHistory' = AlKept(Append(alHistory, [id |-> alCalls[c].id, ack |-> FALSE]))
  /\ AlGoto(c, IF alSound /\ alCalls[c].level >= HIGH THEN "clock" ELSE "idle")
  /\ UNCHANGED <<alNextId, alMinLevel, alSound, alLast, alNow, alAcked, alBeeps>>

\* ... which reads the clock, ...
AlClock(c) ==
  /\ alCalls[c].pc = "clock"
  /\ alCalls' = [alCalls EXCEPT ![c].pc = "last", ![c].at = alNow]
  /\ UNCHANGED <<alNextId, alMinLevel, alHistory, alSound, alLast, alNow, alAcked, alBeeps>>

\* Fault: the time is noted for a sound that is not played, too.
AlLastNoted(c) ==
  /\ alCalls[c].pc = "last"
  /\ AlGoto(c, IF alCalls[c].at - alLast < SOUND_COOLDOWN THEN "silent" ELSE "beep")
  /\ alLast' = alCalls[c].at
  /\ UNCHANGED <<alNextId, alMinLevel, alHistory, alSound, alNow, alAcked, alBeeps>>

\* ... then the time of the last sound, ...
AlLast(c) ==
  /\ alCalls[c].pc = "last"
  /\ AlGoto(c, IF alCalls[c].at - alLast < SOUND_COOLDOWN THEN "silent" ELSE "beep")
  /\ UNCHANGED <<alNextId, alMinLevel, alHistory, alSound, alLast, alNow, alAcked, alBeeps>>

\* ... and stores the time and plays the sound, or does not.
AlBeep(c) ==
  /\ alCalls[c].pc \in {"beep", "silent"}
  /\ IF alCalls[c].pc = "beep" THEN alLast' = alCalls[c].at /\ alBeeps' = alBeeps \union {alCalls[c].at}
     ELSE UNCHANGED <<alLast, alBeeps>>
  /\ alCalls' = [alCalls EXCEPT ![c] = AlIdle]
  /\ UNCHANGED <<alNextId, alMinLevel, alHistory, alSound, alNow, alAcked>>

\* acknowledge() of one record, acknowledge_all(), clear().
AlAcknowledge ==
  /\ alHistory # <<>>
  /\ \E ids \in {{r.id} : r \in ToSet(alHistory)} \union {{r.id : r \in ToSet(alHistory)}} :
       /\ alHistory' = [i \in DOMAIN alHistory |-> [alHistory[i] EXCEPT !.ack = @ \/ alHistory[i].id \in ids]]
       /\ alAcked' = alAcked \union ids
  /\ UNCHANGED <<alNextId, alMinLevel, alSound, alLast, alNow, alCalls, alBeeps>>

AlClear ==
  /\ alHistory # <<>> /\ alHistory' = <<>> /\ alAcked' = 1 .. alNextId - 1
  /\ UNCHANGED <<alNextId, alMinLevel, alSound, alLast, alNow, alCalls, alBeeps>>

\* set_min_level() and set_sound_enabled()
AlSettings ==
  /\ alMinLevel' \in AlLevels /\ alSound' \in BOOLEAN
  /\ UNCHANGED <<alNextId, alHistory, alLast, alNow, alCalls, alAcked, alBeeps>>

AlTick ==
  /\ alNow < AlMaxTime /\ alNow' = alNow + 1
  /\ UNCHANGED <<alNextId, alMinLevel, alHistory, alSound, alLast, alCalls, alAcked, alBeeps>>

AlNext ==
  \/ \E c \in AlCallers :
       (\E level \in AlLevels : AlPush(c, level)) \/ AlInsert(c) \/ AlClock(c) \/ AlLast(c) \/ AlBeep(c)
  \/ AlAcknowledge \/ AlClear \/ AlSettings \/ AlTick

AlSpec == AlInit /\ [][AlNext]_alVars

\* A grave alert passes in silence only when a sound was played less than a
\* cooldown before, although two calls read and write the time unguarded.  Two
\* calls that overlap may both play the sound; nothing is claimed of that.
AlSilentMeansRecent ==
  \A c \in AlCallers : alCalls[c].pc = "silent" => \E b \in alBeeps : b > alCalls[c].at - SOUND_COOLDOWN

\* While there is room, an alert stays until the user has seen it: one that
\* was recorded and neither acknowledged nor cleared is missing only when the
\* history is full of others.
AlUnseenKept ==
  \A id \in 1 .. alNextId - 1 :
    \/ id \in alAcked \/ \E c \in AlCallers : alCalls[c].pc = "insert" /\ alCalls[c].id = id
    \/ \E i \in DOMAIN alHistory : alHistory[i] = [id |-> id, ack |-> FALSE]
    \/ Len(alHistory) = MAX_HISTORY
=============================================================================

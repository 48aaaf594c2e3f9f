-------------------------- MODULE MonitorPromises ---------------------------
(***************************************************************************)
(* What the engines that watch the machine promise together: the log and   *)
(* the alerts, the tables of indicators and databases, the guards of       *)
(* memory, registry, process and drives, the packet engines and the guard  *)
(* of credentials.  They share no state; each promise is the conjunction   *)
(* of what the modules of its engines state.                               *)
(***************************************************************************)
EXTENDS ThreatAlerts, ThreatFeeds, MemoryGuards, TamperMonitors, DeviceControl,
        NetworkEngines, ProcessScores

\* The logs and tables that many threads write keep what still counts: the level
\* shown covers every recent event, a silent alert had a sound just before it,
\* an entry is found as long as it was not removed.
LogsComplete ==
  /\ TlLevelCovers /\ TlRecentComplete /\ AlSilentMeansRecent /\ AlUnseenKept
  /\ TiCheckAgreesWithLookup /\ TiAddedIsFound /\ UpOneEntry

\* A change of the guarded memory, registry values, modules or drives is told,
\* and what was told was there, across repairs, restarts and repeated checks.
TamperTold ==
  /\ PmDamageFound /\ PmChangeTold /\ AmTamperTold /\ AmAlarmsEarned
  /\ SdNoFalseAclAlarm /\ SdNoModuleLearnedQuietly /\ RmAlertsTrack /\ RmQuietListExact
  /\ DvDrivesTold

\* The packet engines forget nothing that still counts: a table that is pruned
\* counts like one that is not, a flood is blocked, and rules decide by priority
\* and age whatever was added, removed or switched.
TrafficJudged == EtNothingRecentForgotten /\ EtFloodBlocked /\ FwOldestOfBestDecides

\* What no step of these engines does: lower a risk, miss a tool's first access,
\* drop a flood, act against the device lists, or end a load of a database that
\* was given a checksum by noting another content, while the file can be read
\* and nobody writes to it.
VerdictsStand == CrRiskNeverFalls /\ CrToolReported /\ FwFloodStays /\ UpVerifiedIsNoted /\ DvListsDecide
=============================================================================

-------------------------- MODULE ForensicTimeline --------------------------
(***************************************************************************)
(* ForensicTimelineEngine: events of threats and observations, linked to   *)
(* an earlier event of the same process and grouped into chains.  One      *)
(* ingest takes the lock three times (link, store, chain), and two callers *)
(* ingest at the same time: the threat callback and the observation sink.  *)
(***************************************************************************)
EXTENDS Naturals, Sequences, FiniteSets

CONSTANTS FtCallers,
          FtReports,              \* [pid, what, level]: what callers ingest; pid 0 is "no process",
                                  \* what a category or an observation kind
          MAX_EVENTS, MAX_CHAINS,
          FtMaxId, FtMaxTime      \* bounds on event ids and on time, in units of 300 s

ASSUME FtConstants ==
  /\ {MAX_EVENTS, MAX_CHAINS, FtMaxId, FtMaxTime} \subseteq Nat \ {0}
  /\ FtReports \subseteq [pid : Nat, what : STRING, level : Nat]

VARIABLES ftEvents,   \* events_
          ftChains,   \* chains_
          ftNext,     \* next_id_
          ftCall,     \* caller -> the ingest under way
          ftNow,
          ftParents   \* history: <<id, causal_parent>> of every event stored

ftVars == <<ftEvents, ftChains, ftNext, ftCall, ftNow, ftParents>>

FtIdle == [pc |-> "idle"]

FtInit ==
  /\ ftEvents = <<>> /\ ftChains = <<>> /\ ftNext = 1
  /\ ftCall = [c \in FtCallers |-> FtIdle]
  /\ ftNow = 1
  /\ ftParents = {}

\* KillChainStage of a ThreatCategory, by number.
FtCategoryStage(cat) ==
  CASE cat \in {"NETWORK_SCAN", "RAW_SOCKET_PROBE"} -> 1
    [] cat \in {"ENTROPY_ANOMALY", "SUSPICIOUS_BINARY"} -> 2
    [] cat \in {"SYN_FLOOD", "UDP_FLOOD", "ARP_POISON"} -> 3
    [] cat \in {"MEMORY_INJECTION", "PROCESS_HOLLOW", "DLL_INJECTION", "APC_INJECTION", "SHELLCODE",
                "REFLECTIVE_LOAD", "DIRECT_SYSCALL", "KERBEROS_ATTACK", "NTLM_COERCE", "CREDENTIAL_DUMP",
                "EVASION_AMSI", "EVASION_ETW", "EVASION_UNHOOK", "PPID_SPOOF"} -> 4
    [] cat \in {"BACKDOOR_ACCOUNT", "REGISTRY_TAMPER", "FILELESS_EXEC", "YARA_RULE_MATCH"} -> 5
    [] cat \in {"DNS_TUNNEL", "ICMP_COVERT", "DGA_DOMAIN"} -> 6
    [] cat \in {"RANSOMWARE", "FILE_ENCRYPT", "ANTI_FORENSIC", "FILE_INTEGRITY_VIOLATION"} -> 7
    [] OTHER -> 0

\* ... and of an ObservationKind.
FtKindStage(kind) ==
  CASE kind \in {"NETWORK_CONNECTION", "DNS_ANOMALY"} -> 6
    [] kind \in {"PROCESS_MEMORY", "PROCESS_LINEAGE"} -> 4
    [] kind \in {"REGISTRY_PERSISTENCE", "YARA_MATCH"} -> 5
    [] kind = "FILE_INTEGRITY" -> 7
    [] kind \in {"ARTIFACT_SIGNATURE", "ARTIFACT_STRUCTURE", "ARTIFACT_TRUST", "INVALID_PE",
                 "UNSIGNED_RISKY_LOCATION", "INVALID_SIGNATURE", "HIGH_ENTROPY"} -> 2
    [] OTHER -> 0

FtStage(what) == IF FtCategoryStage(what) # 0 THEN FtCategoryStage(what) ELSE FtKindStage(what)

\* ingest_threat() and ingest_observation() take an id and the time of the report.
FtIngest(c, report) ==
  /\ ftCall[c].pc = "idle" /\ ftNext <= FtMaxId
  /\ ftCall' = [ftCall EXCEPT ![c] = [pc |-> "link", id |-> ftNext, pid |-> report.pid, stage |-> FtStage(report.what),
                                      level |-> report.level, when |-> ftNow, parent |-> 0]]
  /\ ftNext' = ftNext + 1
  /\ UNCHANGED <<ftEvents, ftChains, ftNow, ftParents>>

\* Fault: the parent is the last id noted for the process, stored or not.
FtParentNoted(ev) ==
  LET others == {ftCall[c].id : c \in {d \in FtCallers : ftCall[d].pc # "idle" /\ ftCall[d].pid = ev.pid}} \ {ev.id}
  IN  IF ev.pid = 0 \/ others = {} THEN 0 ELSE CHOOSE id \in others : TRUE

\* link_causal(): the newest event of the process; the search from the newest
\* ends after an event that is more than 300 s older.
FtParentOf(ev) ==
  LET found == {i \in DOMAIN ftEvents : ftEvents[i].pid = ev.pid /\ ftEvents[i].id # ev.id
                                        /\ \A j \in (i + 1)..Len(ftEvents) : ev.when <= ftEvents[j].when + 1}
  IN  IF ev.pid = 0 \/ found = {} THEN 0
      ELSE ftEvents[CHOOSE i \in found : \A j \in found : j <= i].id

FtLink(c) ==
  /\ ftCall[c].pc = "link"
  /\ ftCall' = [ftCall EXCEPT ![c].pc = "store", ![c].parent = FtParentOf(ftCall[c])]
  /\ UNCHANGED <<ftEvents, ftChains, ftNext, ftNow, ftParents>>

FtStored(c) ==
  LET all == Append(ftEvents, ftCall[c]) IN IF Len(all) > MAX_EVENTS THEN Tail(all) ELSE all

FtStore(c) ==
  /\ ftCall[c].pc = "store"
  /\ ftEvents' = FtStored(c)
  /\ ftCall' = [ftCall EXCEPT ![c].pc = "chain"]
  /\ ftParents' = ftParents \union {<<ftCall[c].id, ftCall[c].parent>>}
  /\ UNCHANGED <<ftChains, ftNext, ftNow>>

FtMaxOf(a, b) == IF a > b THEN a ELSE b

FtJoined(chain, ev) ==
  [chain EXCEPT !.ids = @ \union {ev.id}, !.stage = FtMaxOf(@, ev.stage), !.level = FtMaxOf(@, ev.level)]

\* update_chains(): the first chain that holds the parent takes the event; else
\* an event that matters starts a chain, and the oldest chain may go.
FtChained(ev) ==
  LET holding == {i \in DOMAIN ftChains : ev.parent # 0 /\ ev.parent \in ftChains[i].ids}
      all     == Append(ftChains, [ids |-> {ev.id}, stage |-> ev.stage, level |-> ev.level, multi |-> FALSE])
  IN  IF holding # {}
      THEN [ftChains EXCEPT ![CHOOSE i \in holding : \A j \in holding : i <= j] = FtJoined(@, ev)]
      ELSE IF ev.level < 2 /\ ev.stage = 0 THEN ftChains
      ELSE IF Len(all) > MAX_CHAINS THEN Tail(all) ELSE all

FtChain(c) ==
  /\ ftCall[c].pc = "chain"
  /\ ftChains' = FtChained(ftCall[c])
  /\ ftCall' = [ftCall EXCEPT ![c] = FtIdle]
  /\ UNCHANGED <<ftEvents, ftNext, ftNow, ftParents>>

\* The stages of a chain, as far as its events are still stored.
FtStagesOf(chain) == {ftEvents[i].stage : i \in {j \in DOMAIN ftEvents : ftEvents[j].id \in chain.ids}} \ {0}

\* detect_multi_stage(): each chain is alarmed once.
FtDetect ==
  /\ ftChains' = [i \in DOMAIN ftChains |->
       [ftChains[i] EXCEPT !.multi = @ \/ Cardinality(FtStagesOf(ftChains[i])) >= 3]]
  /\ UNCHANGED <<ftEvents, ftNext, ftCall, ftNow, ftParents>>

FtTick == ftNow < FtMaxTime /\ ftNow' = ftNow + 1 /\ UNCHANGED <<ftEvents, ftChains, ftNext, ftCall, ftParents>>

FtStep ==
  \/ \E c \in FtCallers :
       \/ \E report \in FtReports : FtIngest(c, report)
       \/ FtLink(c) \/ FtStore(c) \/ FtChain(c)
  \/ FtDetect \/ FtTick

FtSpec == FtInit /\ [][FtStep]_ftVars

\* Following causal parents never comes back to an event: links point at
\* events stored before, although ids are given before the lock and two
\* ingests overlap.
FtCausalAcyclic ==
  \A s \in SUBSET {p[1] : p \in ftParents} :
    s # {} => \E id \in s : \A p \in ftParents : p[1] = id => p[2] \notin s

\* An event belongs to one chain only, so an attack is not counted twice.
FtEventInOneChain ==
  \A i, j \in DOMAIN ftChains : i # j => ftChains[i].ids \intersect ftChains[j].ids = {}

\* A chain alarmed as multi-stage had events of three stages: its furthest
\* stage is at least the third.
FtMultiStageReached == \A i \in DOMAIN ftChains : ftChains[i].multi => ftChains[i].stage >= 3 /\ Cardinality(ftChains[i].ids) >= 3

\* The timeline is a forest: causes come before effects, an event is in one
\* chain, and a chain called multi-stage went through the stages of an attack.
TimelineCausal == FtCausalAcyclic /\ FtEventInOneChain /\ FtMultiStageReached
=============================================================================

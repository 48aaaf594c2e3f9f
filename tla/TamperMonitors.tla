--------------------------- MODULE TamperMonitors ---------------------------
EXTENDS Naturals, SequencesExt, FiniteSets

(***************************************************************************)
(* RegistryMonitorEngine: the values of an autorun key, and of the keys    *)
(* below it (the services), are listed every few seconds and compared with *)
(* the list before.  They are read one by one by their index, while other  *)
(* programs add and delete them, so a list may miss a value that was there *)
(* all along; a key may refuse to be opened.  A key below has one value in *)
(* the model.  The pause, which grows while nothing changes, is left out.  *)
(***************************************************************************)

CONSTANTS RmNames, RmData,
          RmSubNames,           \* names that are values of keys below
          RmLarge,              \* data too long for the buffer of the reader
          RmMaxSubkeys,         \* 256 in the code
          RmMaxWrites, RmMaxPolls  \* bounds

ASSUME RmConstants == RmLarge \subseteq RmData /\ RmSubNames \subseteq RmNames /\ {RmMaxSubkeys, RmMaxWrites, RmMaxPolls} \subseteq Nat

VARIABLES rmReg,          \* the registry: values, and keys below, in the order of their index
          rmBase,         \* baseline_: name to data
          rmScan,         \* the listing under way: who does it, where it is, what was read
          rmRunning,
          rmWrites, rmPolls,
          rmTold,         \* history: names and data according to the alerts
          rmDisturbed     \* history: the registry changed, or a key was not opened, since the listing began

rmVars == <<rmReg, rmBase, rmScan, rmRunning, rmWrites, rmPolls, rmTold, rmDisturbed>>

RmEmpty == [n \in {} |-> ""]
RmNoScan == [by |-> "none", in |-> "end", at |-> 0, got |-> RmEmpty]

RmInit ==
  /\ rmReg = [values |-> <<>>, subkeys |-> <<>>] /\ rmBase = RmEmpty /\ rmScan = RmNoScan /\ rmRunning = FALSE
  /\ rmWrites = 0 /\ rmPolls = 0 /\ rmTold = RmEmpty /\ rmDisturbed = FALSE

RmLevel(n) == IF n \in RmSubNames THEN "subkeys" ELSE "values"

RmIndex(n) == SelectInSeq(rmReg[RmLevel(n)], LAMBDA v : v.name = n)

\* Another program sets or deletes a value.
RmSet(n, d) ==
  /\ rmWrites < RmMaxWrites /\ rmWrites' = rmWrites + 1 /\ rmDisturbed' = TRUE
  /\ rmReg' = [rmReg EXCEPT ![RmLevel(n)] =
                 IF RmIndex(n) = 0 THEN Append(@, [name |-> n, data |-> d]) ELSE [@ EXCEPT ![RmIndex(n)].data = d]]
  /\ UNCHANGED <<rmBase, rmScan, rmRunning, rmPolls, rmTold>>

RmDelete(n) ==
  /\ rmWrites < RmMaxWrites /\ RmIndex(n) # 0 /\ rmWrites' = rmWrites + 1 /\ rmDisturbed' = TRUE
  /\ rmReg' = [rmReg EXCEPT ![RmLevel(n)] = RemoveAt(@, RmIndex(n))]
  /\ UNCHANGED <<rmBase, rmScan, rmRunning, rmPolls, rmTold>>

\* A listing begins: in start(), or when the monitor's pause is over.  A key
\* that cannot be opened is passed over.
RmList(by, opens) ==
  /\ rmScan.by = "none" /\ rmRunning = (by = "monitor") /\ rmPolls < RmMaxPolls
  /\ rmScan' = [by |-> by, in |-> (IF opens THEN "values" ELSE "end"), at |-> 1, got |-> RmEmpty]
  /\ rmPolls' = rmPolls + 1 /\ rmDisturbed' = ~opens
  /\ UNCHANGED <<rmReg, rmBase, rmRunning, rmWrites, rmTold>>

\* The list becomes a map, in which a name that was read twice has the later
\* data; a value whose data is too long is not listed.
RmEnter(got, v) ==
  IF v.data \in RmLarge THEN got
  ELSE [n \in DOMAIN got \union {v.name} |-> IF n = v.name THEN v.data ELSE got[n]]

\* enumerate_autorun_values(): the value at the next index, ...
RmRead ==
  /\ rmScan.by # "none" /\ rmScan.in = "values" /\ rmScan.at <= Len(rmReg.values)
  /\ rmScan' = [rmScan EXCEPT !.at = @ + 1, !.got = RmEnter(@, rmReg.values[rmScan.at])]
  /\ UNCHANGED <<rmReg, rmBase, rmRunning, rmWrites, rmPolls, rmTold, rmDisturbed>>

\* ... and after the last one the keys below, ...
RmDescend ==
  /\ rmScan.by # "none" /\ rmScan.in = "values" /\ rmScan.at > Len(rmReg.values)
  /\ rmScan' = [rmScan EXCEPT !.in = "subkeys", !.at = 1]
  /\ UNCHANGED <<rmReg, rmBase, rmRunning, rmWrites, rmPolls, rmTold, rmDisturbed>>

\* ... of which only so many are looked at.
RmSubkeysLeft == rmScan.at <= Len(rmReg.subkeys) /\ rmScan.at <= RmMaxSubkeys

RmReadSubkey(opens) ==
  /\ rmScan.by # "none" /\ rmScan.in = "subkeys" /\ RmSubkeysLeft
  /\ rmScan' = [rmScan EXCEPT !.at = @ + 1, !.got = IF opens THEN RmEnter(@, rmReg.subkeys[rmScan.at]) ELSE @]
  /\ rmDisturbed' = (rmDisturbed \/ ~opens)
  /\ UNCHANGED <<rmReg, rmBase, rmRunning, rmWrites, rmPolls, rmTold>>

RmListed(by) == rmScan.by = by /\ rmScan.in # "values" /\ (rmScan.in = "subkeys" => ~RmSubkeysLeft)

\* start() takes the list as the baseline.
RmStart ==
  /\ RmListed("start")
  /\ rmBase' = rmScan.got /\ rmTold' = rmScan.got
  /\ rmRunning' = TRUE /\ rmScan' = RmNoScan
  /\ UNCHANGED <<rmReg, rmWrites, rmPolls, rmDisturbed>>

RmAlerts(old, new) ==
  [added |-> DOMAIN new \ DOMAIN old,
   modified |-> {n \in DOMAIN new \intersect DOMAIN old : new[n] # old[n]},
   deleted |-> DOMAIN old \ DOMAIN new]

\* What is known after alerts to somebody who knew told before.
RmHeard(told, alerts, new) ==
  [n \in (DOMAIN told \union alerts.added) \ alerts.deleted |->
     IF n \in alerts.added \union alerts.modified THEN new[n] ELSE told[n]]

\* monitor_loop() compares, alerts and takes the list as the new baseline.
RmCompare ==
  /\ RmListed("monitor")
  /\ rmTold' = RmHeard(rmTold, RmAlerts(rmBase, rmScan.got), rmScan.got)
  /\ rmBase' = rmScan.got /\ rmScan' = RmNoScan
  /\ UNCHANGED <<rmReg, rmRunning, rmWrites, rmPolls, rmDisturbed>>

RmStop ==
  /\ rmRunning /\ rmScan.by = "none" /\ rmRunning' = FALSE
  /\ UNCHANGED <<rmReg, rmBase, rmScan, rmWrites, rmPolls, rmTold, rmDisturbed>>

RmNext ==
  \/ \E n \in RmNames : RmDelete(n) \/ \E d \in RmData : RmSet(n, d)
  \/ \E opens \in BOOLEAN : RmReadSubkey(opens) \/ \E by \in {"start", "monitor"} : RmList(by, opens)
  \/ RmRead \/ RmDescend \/ RmStart \/ RmCompare \/ RmStop

RmSpec == RmInit /\ [][RmNext]_rmVars

\* Who follows the alerts knows which entries there are and that their data
\* changed: alerts and baseline never drift apart, whatever a listing missed.
RmAlertsTrack == rmRunning /\ rmScan.by # "start" => rmTold = rmBase

\* The map holds exactly these values.
RmExact(map, values) ==
  DOMAIN map = {v.name : v \in values} /\ \A v \in values : map[v.name] = v.data

\* The values a listing can find: not the long ones, and none of the keys below
\* that come after the 256th.
RmReadable ==
  {v \in {rmReg.values[i] : i \in 1 .. Len(rmReg.values)}
         \union {rmReg.subkeys[i] : i \in {j \in 1 .. Len(rmReg.subkeys) : j <= RmMaxSubkeys}} : v.data \notin RmLarge}

\* After a listing during which nothing changed and every key was opened the
\* baseline has the values that can be found, and no other.  What lies in the
\* keys after the 256th stays unwatched.
RmQuietListExact == rmRunning /\ rmScan.by = "none" /\ ~rmDisturbed => RmExact(rmBase, RmReadable)

-----------------------------------------------------------------------------
(***************************************************************************)
(* SelfDefenseEngine: a deny entry in front of the process's access list,  *)
(* a copy of the code section and the list of loaded modules, each checked *)
(* in turn by the guard thread.                                            *)
(***************************************************************************)

CONSTANTS SdModules,      \* modules that can be loaded
          SdStandard,     \* s_standard_runtime_modules
          SdLoaded,       \* modules loaded before the engine starts
          SdMaxEntries    \* bound on the length of the access list

ASSUME SdConstants == SdStandard \union SdLoaded \subseteq SdModules /\ SdLoaded # {} /\ SdMaxEntries \in Nat

VARIABLES sdProcess,   \* the process: access list, code section, modules
          sd,          \* the engine
          sdWeakened,  \* history: the access list was changed by others
          sdUnread,    \* history: the last check could not read the access list
          sdBlind,     \* history: a list of modules came back empty after the first
          sdTold       \* history: the modules of the first list, and those alarmed since

sdVars == <<sdProcess, sd, sdWeakened, sdUnread, sdBlind, sdTold>>

SdDeny  == [deny |-> TRUE, dangerous |-> TRUE, sound |-> TRUE]
SdAllow == [deny |-> FALSE, dangerous |-> TRUE, sound |-> TRUE]
SdTorn  == [deny |-> TRUE, dangerous |-> TRUE, sound |-> FALSE]

SdInit ==
  /\ sdProcess = [dacl |-> <<SdAllow>>, text |-> "built", modules |-> SdLoaded]
  /\ sd = [pc |-> "off", applied |-> FALSE, text |-> "", acl |-> FALSE, memory |-> FALSE, known |-> {}]
  /\ sdWeakened = FALSE /\ sdUnread = FALSE /\ sdBlind = FALSE
  /\ sdTold = {}

\* build_acl_with_prepended_deny(), "" when the list cannot grow.
SdPrepend(dacl) == <<SdDeny>> \o dacl

\* parse_acl_entries() keeps what comes before the first torn entry.
SdParsed(dacl) == {dacl[i] : i \in {j \in DOMAIN dacl : \A k \in 1..j : dacl[k].sound}}

\* verify_process_protection_dacl(); a process without a list (<<>>) is refused.
SdVerified(dacl) == \E e \in SdParsed(dacl) : e.deny /\ e.dangerous

\* start(): copy of .text, then the access list unless disabled or refused.
SdStart ==
  /\ sd.pc = "off"
  /\ \/ /\ sdProcess.dacl # <<>> /\ Len(sdProcess.dacl) < SdMaxEntries
        /\ sdProcess' = [sdProcess EXCEPT !.dacl = SdPrepend(@)]
        /\ sd' = [sd EXCEPT !.pc = "acl", !.text = sdProcess.text, !.applied = TRUE, !.acl = FALSE, !.memory = FALSE]
        /\ sdWeakened' = FALSE
     \/ /\ sd' = [sd EXCEPT !.pc = "acl", !.text = sdProcess.text, !.applied = FALSE, !.acl = FALSE, !.memory = FALSE]
        /\ UNCHANGED <<sdProcess, sdWeakened>>
  /\ UNCHANGED <<sdUnread, sdBlind, sdTold>>

\* stop(): the copy of .text is wiped; known_modules is static and stays.
SdStop ==
  /\ sd.pc = "acl"
  /\ sd' = [sd EXCEPT !.pc = "off", !.text = "zeroes"]
  /\ UNCHANGED <<sdProcess, sdWeakened, sdUnread, sdBlind, sdTold>>

\* guard_loop(), one check per step; each flag is raised with its alarm and
\* lowered when the check is passed again.  An access list that cannot be read
\* counts as one that was weakened.
SdCheckHandles(readable) ==
  /\ sd.pc = "acl"
  /\ sd' = [sd EXCEPT !.pc = "memory", !.acl = sd.applied /\ ~(readable /\ SdVerified(sdProcess.dacl))]
  /\ sdUnread' = ~readable
  /\ UNCHANGED <<sdProcess, sdWeakened, sdBlind, sdTold>>

SdCheckMemory ==
  /\ sd.pc = "memory"
  /\ sd' = [sd EXCEPT !.pc = "modules", !.memory = sdProcess.text # sd.text]
  /\ UNCHANGED <<sdProcess, sdWeakened, sdUnread, sdBlind, sdTold>>

\* check_module_integrity(): the first list is learned; later lists are
\* compared with the one before; without a snapshot nothing is learned.  The
\* walk through a snapshot may break off, before the first module too, and
\* what it got is then the list: after an empty one the next is learned like
\* the first.
SdListed(list) ==
  /\ sd' = [sd EXCEPT !.pc = "acl", !.known = list]
  /\ sdTold' = IF sdTold = {} THEN list
               ELSE IF sd.known = {} THEN sdTold
               ELSE sdTold \union (list \ (SdStandard \union sd.known))
  /\ sdBlind' = (sdBlind \/ (list = {} /\ sd.known # {}))

SdCheckModules ==
  /\ sd.pc = "modules"
  /\ \/ \E list \in SUBSET sdProcess.modules : SdListed(list)
     \/ sd' = [sd EXCEPT !.pc = "acl"] /\ UNCHANGED <<sdTold, sdBlind>>
  /\ UNCHANGED <<sdProcess, sdWeakened, sdUnread>>

\* What others do to the process.
SdOthers ==
  /\ \/ /\ sdProcess' = [sdProcess EXCEPT !.dacl = IF @ = <<>> THEN @ ELSE Tail(@)]
        /\ sdWeakened' = TRUE
     \/ /\ sdProcess.dacl # <<>>
        /\ sdProcess' = [sdProcess EXCEPT !.dacl[1] = SdTorn]
        /\ sdWeakened' = TRUE
     \/ sdProcess' = [sdProcess EXCEPT !.text = "patched"] /\ UNCHANGED sdWeakened
     \/ \E m \in SdModules \ sdProcess.modules :
          sdProcess' = [sdProcess EXCEPT !.modules = @ \union {m}] /\ UNCHANGED sdWeakened
     \/ \E m \in sdProcess.modules \ SdLoaded :
          sdProcess' = [sdProcess EXCEPT !.modules = @ \ {m}] /\ UNCHANGED sdWeakened
  /\ UNCHANGED <<sd, sdUnread, sdBlind, sdTold>>

SdNext == SdStart \/ SdStop \/ (\E readable \in BOOLEAN : SdCheckHandles(readable)) \/ SdCheckMemory \/ SdCheckModules \/ SdOthers

SdSpec == SdInit /\ [][SdNext]_sdVars

\* "only flags a problem once protection was actually applied and then found
\* missing": an alarm about the access list means that others changed it after
\* the engine last applied it, restarts included, or that the list could not be
\* read just then, which the code does not tell apart.
SdNoFalseAclAlarm == sd.acl => sdWeakened \/ sdUnread

\* Every module the engine holds for known was there at the very first look,
\* is a standard one, or was alarmed: one that was loaded while the engine
\* was stopped, or that a broken listing left out, is not learned quietly.  A
\* listing that came back empty ends this for good.
SdNoModuleLearnedQuietly == ~sdBlind => sd.known \subseteq SdStandard \union sdTold
=============================================================================

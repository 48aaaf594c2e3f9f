---------------------------- MODULE DeviceControl ---------------------------
(***************************************************************************)
(* DeviceControlEngine: reports of device activity are judged by black and *)
(* white lists, rules and a default policy; a monitor compares the drives  *)
(* there are with the devices known to be connected.                       *)
(***************************************************************************)
EXTENDS Naturals, SequencesExt, FiniteSets

CONSTANTS DvDrives,     \* removable drives, which the monitor sees; they have no serial number
          DvOthers,     \* devices only reported by callers; a device is its serial number
          DvRules,      \* rules that are added: [device, policy], device "any" for a whole type
          DvCallers,
          DvMaxRules,   \* MAX_RULES
          DvMaxReports  \* bound on the reports

ASSUME DvConstants ==
  /\ DvDrives \intersect DvOthers = {} /\ "none" \notin DvDrives \union DvOthers
  /\ {DvMaxRules, DvMaxReports} \subseteq Nat \ {0}

VARIABLES dvBlack, dvWhite, dvRules, dvDefault,
          dvThere,      \* drives plugged in
          dvConnected,  \* connected_
          dvScan,       \* the scan: pc, drives listed, new and removed devices still to report
          dvReport,     \* dvReport[c]: report under way between evaluate_policy() and the log
          dvCount,
          dvLast        \* last event logged for each device

dvLists == <<dvBlack, dvWhite, dvRules, dvDefault>>
dvVars == <<dvLists, dvThere, dvConnected, dvScan, dvReport, dvCount, dvLast>>

DvDevices == DvDrives \union DvOthers
DvActions == {"CONNECTED", "DISCONNECTED", "READ", "WRITE", "EXECUTE"}
DvNoReport == [device |-> "none", action |-> "READ", policy |-> "ALLOW", black |-> FALSE, white |-> FALSE]
DvNoScan == [pc |-> "idle", listed |-> {}, fresh |-> {}, gone |-> {}]
DvScanner == "scanner"

DvInit ==
  /\ dvBlack = {} /\ dvWhite = {} /\ dvRules = <<>> /\ dvDefault = "AUDIT"
  /\ dvThere = {} /\ dvConnected = {} /\ dvScan = DvNoScan
  /\ dvReport = [c \in DvCallers \union {DvScanner} |-> DvNoReport]
  /\ dvCount = 0 /\ dvLast = [d \in DvDevices |-> "none"]

\* evaluate_policy(): only a device with a serial number is looked up in the
\* lists; the first rule that matches decides.
DvPolicy(d) ==
  LET hits == {i \in DOMAIN dvRules : dvRules[i].device \in {"any", d}}
  IN  IF d \in dvBlack THEN "BLOCK" ELSE IF d \in dvWhite THEN "ALLOW"
      ELSE IF hits # {} THEN dvRules[CHOOSE i \in hits : \A j \in hits : i <= j].policy ELSE dvDefault

DvViolates(policy, action) ==
  \/ policy = "BLOCK" /\ action # "DISCONNECTED"
  \/ policy = "READ_ONLY" /\ action \in {"WRITE", "EXECUTE"}

\* report_device_event() judges under one lock ...
DvJudge(c, d, action) ==
  /\ dvReport[c].device = "none" /\ dvCount < DvMaxReports
  /\ dvReport' = [dvReport EXCEPT ![c] = [device |-> d, action |-> action, policy |-> DvPolicy(d),
                                          black |-> d \in dvBlack, white |-> d \in dvWhite]]
  /\ dvCount' = dvCount + 1

DvLogged(r) == IF DvViolates(r.policy, r.action) THEN "BLOCKED" ELSE r.action

\* ... and logs, and notes connected devices, under another.
DvLog(c) ==
  LET r == dvReport[c]
  IN  /\ r.device # "none"
      /\ dvLast' = [dvLast EXCEPT ![r.device] = DvLogged(r)]
      /\ dvConnected' = CASE r.action = "CONNECTED" -> dvConnected \union {r.device}
                          [] r.action = "DISCONNECTED" -> dvConnected \ {r.device}
                          [] OTHER -> dvConnected
      /\ dvReport' = [dvReport EXCEPT ![c] = DvNoReport]
      /\ UNCHANGED <<dvLists, dvThere, dvScan, dvCount>>

DvReportOther(c, d, action) == DvJudge(c, d, action) /\ UNCHANGED <<dvLists, dvThere, dvConnected, dvScan, dvLast>>

\* The lists change while nothing of them is looked up.
DvKeepRest == UNCHANGED <<dvThere, dvConnected, dvScan, dvReport, dvCount, dvLast>>

DvWhitelist(d) ==
  /\ dvBlack' = dvBlack \ {d} /\ dvWhite' = dvWhite \union {d}
  /\ UNCHANGED <<dvRules, dvDefault>> /\ DvKeepRest

DvBlacklist(d) ==
  /\ dvWhite' = dvWhite \ {d} /\ dvBlack' = dvBlack \union {d}
  /\ UNCHANGED <<dvRules, dvDefault>> /\ DvKeepRest

\* The oldest rule gives way.
DvAddRule(rule) ==
  /\ \A i \in DOMAIN dvRules : dvRules[i] # rule
  /\ dvRules' = IF Len(dvRules) = DvMaxRules THEN Append(Tail(dvRules), rule) ELSE Append(dvRules, rule)
  /\ UNCHANGED <<dvBlack, dvWhite, dvDefault>> /\ DvKeepRest

DvRemoveRule(rule) ==
  /\ dvRules' = SelectSeq(dvRules, LAMBDA r : r # rule)
  /\ UNCHANGED <<dvBlack, dvWhite, dvDefault>> /\ DvKeepRest

DvSetDefault(policy) == dvDefault' = policy /\ UNCHANGED <<dvBlack, dvWhite, dvRules>> /\ DvKeepRest

DvPlug(d) ==
  /\ dvThere' = IF d \in dvThere THEN dvThere \ {d} ELSE dvThere \union {d}
  /\ UNCHANGED <<dvLists, dvConnected, dvScan, dvReport, dvCount, dvLast>>

\* scan_connected_devices(): the drives are listed, the new ones noted ...
DvScanList ==
  /\ dvScan.pc = "idle" /\ dvCount < DvMaxReports
  /\ dvScan' = [pc |-> "prune", listed |-> dvThere, fresh |-> dvThere \ dvConnected, gone |-> {}]
  /\ dvConnected' = dvConnected \union dvThere
  /\ UNCHANGED <<dvLists, dvThere, dvReport, dvCount, dvLast>>

\* ... every known device that is not a listed drive is forgotten ...
DvScanPrune ==
  /\ dvScan.pc = "prune"
  /\ dvScan' = [dvScan EXCEPT !.pc = "report", !.gone = dvConnected \ dvScan.listed]
  /\ dvConnected' = dvConnected \intersect dvScan.listed
  /\ UNCHANGED <<dvLists, dvThere, dvReport, dvCount, dvLast>>

\* ... and the new and the forgotten are reported, one after the other.
DvScanReport ==
  /\ dvScan.pc = "report" /\ dvReport[DvScanner].device = "none"
  /\ IF dvScan.fresh # {}
     THEN \E d \in dvScan.fresh : DvJudge(DvScanner, d, "CONNECTED") /\ dvScan' = [dvScan EXCEPT !.fresh = @ \ {d}]
     ELSE IF dvScan.gone # {}
          THEN \E d \in dvScan.gone : DvJudge(DvScanner, d, "DISCONNECTED") /\ dvScan' = [dvScan EXCEPT !.gone = @ \ {d}]
          ELSE dvScan' = DvNoScan /\ UNCHANGED <<dvReport, dvCount>>
  /\ UNCHANGED <<dvLists, dvThere, dvConnected, dvLast>>

DvNext ==
  \/ DvScanList \/ DvScanPrune \/ DvScanReport
  \/ \E c \in DvCallers \union {DvScanner} : DvLog(c)
  \/ \E c \in DvCallers, d \in DvOthers, a \in DvActions : DvReportOther(c, d, a)
  \/ \E d \in DvOthers : DvWhitelist(d) \/ DvBlacklist(d)
  \/ \E r \in DvRules : DvAddRule(r) \/ DvRemoveRule(r)
  \/ \E p \in {"AUDIT", "BLOCK"} : DvSetDefault(p)
  \/ \E d \in DvDrives : DvPlug(d)

DvSpec == DvInit /\ [][DvNext]_dvVars

\* A device in the black list before and after its report was judged is
\* logged as blocked unless it was unplugged, and one in the white list never
\* is, whatever rules and default say and however the lists were changed.
DvListsDecide ==
  [][\A c \in DOMAIN dvReport :
       LET r == dvReport[c]
       IN  r.device # "none" /\ dvReport'[c].device = "none" =>
             /\ r.black /\ r.device \in dvBlack => dvLast'[r.device] \in {"BLOCKED", "DISCONNECTED"}
             /\ r.white /\ r.device \in dvWhite => dvLast'[r.device] # "BLOCKED"]_dvVars

\* A drive is known as connected, whenever no scan is under way, exactly if
\* the last event of it is its connection (allowed or not).
DvDrivesTold ==
  dvScan.pc = "idle" =>
    \A d \in DvDrives : dvReport[DvScanner].device # d =>
      (d \in dvConnected <=> dvLast[d] \in {"CONNECTED", "BLOCKED"})
=============================================================================

------------------------------ MODULE MCEngines -----------------------------
(* The engines, the log and the alerts they feed and the code they call, on *)
(* small instances.  They share no state here: focus says which of them     *)
(* moves in a behaviour, the others keep their first state.                 *)
EXTENDS RansomwareEngines, FileIntegrityEngine, MonitorPromises,
        ForensicTimeline, CommandAnalysis, DnsMonitor, StaticAnalysis,
        ProcessLineage, Authenticode, DerParser, ScanChecks

VARIABLE focus

MCRsModified == <<1, 2, 3>>
MCRsRenamed == <<1, 2>>

MCTiNorm == [v \in TiValues |-> "evil"]
MCTiDefaults == <<[type |-> "DOMAIN", value |-> "evil"]>>

MCFtReport(p, w, l) == [pid |-> p, what |-> w, level |-> l]
MCFtReports == {MCFtReport(7, "NETWORK_SCAN", 1), MCFtReport(7, "YARA_MATCH", 3), MCFtReport(7, "RANSOMWARE", 3), MCFtReport(0, "NONE", 3)}

MCNdPackets == {[port |-> 6667, large |-> FALSE, marks |-> {}], [port |-> 53, large |-> TRUE, marks |-> {"SUSPICIOUS_URI"}]}

MCFwRule(a, p, s, l) ==
  [id |-> 0, direction |-> "IN", action |-> a, protocol |-> "TCP", src |-> s, srcLen |-> l, dst |-> 0, dstLen |-> 0,
   pmin |-> 0, pmax |-> 65535, enabled |-> TRUE, priority |-> p]
MCFwRules == {MCFwRule("DENY", 5, 2, 1), MCFwRule("ALLOW", 5, 0, 0)}
MCFwPackets ==
  {[direction |-> "IN", protocol |-> "TCP", src |-> 3, dst |-> 1, sport |-> 9, dport |-> 23],
   [direction |-> "OUT", protocol |-> "UDP", src |-> 1, dst |-> 2, sport |-> 9, dport |-> 53]}

MCDvRules == {[device |-> "any", policy |-> "READ_ONLY"]}

MCBsRaw == {-1, 0, 5, 10, 12}

MCYrLine(w, v) == [what |-> w, value |-> v]
MCYrLines == {MCYrLine("rule", "r"), MCYrLine("level", "MEDIUM"), MCYrLine("string", "$s"), MCYrLine("condition", "all")}

MCSection(a, v, r, o) == [va |-> a, vsize |-> v, raw |-> r, off |-> o]
MCPeTables ==
  << <<MCSection(1, 4, 3, 0)>>, <<MCSection(1, 2, 1, 3), MCSection(2, 3, 4, 1)>>,
     <<MCSection(1, 1, 3, 7), MCSection(6, 4, 2, 1)>>, <<MCSection(3, 2, 2, 0)>> >>

MCScSigs ==
  <<[pattern |-> <<"J", "J">>, offset |-> -1], [pattern |-> <<"a", "N">>, offset |-> 1], [pattern |-> <<"a">>, offset |-> 5]>>

Focuses ==
  {"arhs", "fim", "ransomIo", "ransomHoney", "defense", "intel",
   "timeline", "dpi", "lolbins", "credential", "firewallRules",
   "firewallTraffic", "update", "fileless", "device", "scorer", "dns",
   "registry", "yara", "pe", "lineage", "session", "pmsr", "etgri",
   "amsi", "log", "alert", "bignum", "der", "signature", "scan"}

Init ==
  /\ focus \in Focuses
  /\ ArhsInit
  /\ FimInit
  /\ RsInit
  /\ SdInit
  /\ TiInit
  /\ FtInit
  /\ NdInit
  /\ LolInit
  /\ CrInit
  /\ FwInit
  /\ UpInit
  /\ FlInit
  /\ DvInit
  /\ BsInit
  /\ DnInit
  /\ RmInit
  /\ YrInit
  /\ PeInit
  /\ PlInit /\ EsInit
  /\ PmInit
  /\ EtInit
  /\ AmInit
  /\ TlInit
  /\ AlInit
  /\ BnInit
  /\ DerInit
  /\ AuInit
  /\ ScInit

\* The part that is looked at takes a step, and only that part.
Turn(parts) ==
  /\ focus \in parts /\ UNCHANGED focus
  /\ IF parts = {"arhs"} THEN TRUE ELSE UNCHANGED arhsVars
  /\ IF parts = {"fim"} THEN TRUE ELSE UNCHANGED fimVars
  /\ IF parts = {"ransomIo", "ransomHoney"} THEN TRUE ELSE UNCHANGED rsVars
  /\ IF parts = {"defense"} THEN TRUE ELSE UNCHANGED sdVars
  /\ IF parts = {"intel"} THEN TRUE ELSE UNCHANGED tiVars
  /\ IF parts = {"timeline"} THEN TRUE ELSE UNCHANGED ftVars
  /\ IF parts = {"dpi"} THEN TRUE ELSE UNCHANGED ndVars
  /\ IF parts = {"lolbins"} THEN TRUE ELSE UNCHANGED lol
  /\ IF parts = {"credential"} THEN TRUE ELSE UNCHANGED crVars
  /\ IF parts = {"firewallRules", "firewallTraffic"} THEN TRUE ELSE UNCHANGED fwVars
  /\ IF parts = {"update"} THEN TRUE ELSE UNCHANGED upVars
  /\ IF parts = {"fileless"} THEN TRUE ELSE UNCHANGED fl
  /\ IF parts = {"device"} THEN TRUE ELSE UNCHANGED dvVars
  /\ IF parts = {"scorer"} THEN TRUE ELSE UNCHANGED bsVars
  /\ IF parts = {"dns"} THEN TRUE ELSE UNCHANGED dnVars
  /\ IF parts = {"registry"} THEN TRUE ELSE UNCHANGED rmVars
  /\ IF parts = {"yara"} THEN TRUE ELSE UNCHANGED yr
  /\ IF parts = {"pe"} THEN TRUE ELSE UNCHANGED pe
  /\ IF parts = {"lineage", "session"} THEN TRUE ELSE UNCHANGED <<plVars, esVars>>
  /\ IF parts = {"pmsr"} THEN TRUE ELSE UNCHANGED pmVars
  /\ IF parts = {"etgri"} THEN TRUE ELSE UNCHANGED etVars
  /\ IF parts = {"amsi"} THEN TRUE ELSE UNCHANGED amVars
  /\ IF parts = {"log"} THEN TRUE ELSE UNCHANGED tlVars
  /\ IF parts = {"alert"} THEN TRUE ELSE UNCHANGED alVars
  /\ IF parts = {"bignum"} THEN TRUE ELSE UNCHANGED bn
  /\ IF parts = {"der"} THEN TRUE ELSE UNCHANGED der
  /\ IF parts = {"signature"} THEN TRUE ELSE UNCHANGED au
  /\ IF parts = {"scan"} THEN TRUE ELSE UNCHANGED sc

Next ==
  \/ Turn({"arhs"}) /\ ArhsNext
  \/ Turn({"fim"}) /\ FimNext
  \/ focus = "ransomIo" /\ Turn({"ransomIo", "ransomHoney"}) /\ RsIoNext /\ UNCHANGED rsHoneyVars
  \/ focus = "ransomHoney" /\ Turn({"ransomIo", "ransomHoney"}) /\ RsHoneyNext /\ UNCHANGED rsIoVars
  \/ Turn({"defense"}) /\ SdNext
  \/ Turn({"intel"}) /\ TiStep
  \/ Turn({"timeline"}) /\ FtStep
  \/ Turn({"dpi"}) /\ NdStep
  \/ Turn({"lolbins"}) /\ LolStep
  \/ Turn({"credential"}) /\ CrNext
  \/ focus = "firewallRules" /\ Turn({"firewallRules", "firewallTraffic"}) /\ FwRuleNext
  \/ focus = "firewallTraffic" /\ Turn({"firewallRules", "firewallTraffic"}) /\ FwTrafficNext
  \/ Turn({"update"}) /\ UpNext
  \/ Turn({"fileless"}) /\ FlStep
  \/ Turn({"device"}) /\ DvNext
  \/ Turn({"scorer"}) /\ BsStep
  \/ Turn({"dns"}) /\ DnNext
  \/ Turn({"registry"}) /\ RmNext
  \/ Turn({"yara"}) /\ YrStep
  \/ Turn({"pe"}) /\ PeStep
  \/ focus = "lineage" /\ Turn({"lineage", "session"}) /\ PlNext /\ UNCHANGED esVars
  \/ focus = "session" /\ Turn({"lineage", "session"}) /\ EsNext /\ UNCHANGED plVars
  \/ Turn({"pmsr"}) /\ PmNext
  \/ Turn({"etgri"}) /\ EtNext
  \/ Turn({"amsi"}) /\ AmNext
  \/ Turn({"log"}) /\ TlNext
  \/ Turn({"alert"}) /\ AlNext
  \/ Turn({"bignum"}) /\ BnStep
  \/ Turn({"der"}) /\ DerStep
  \/ Turn({"signature"}) /\ AuStep
  \/ Turn({"scan"}) /\ ScStep

vars ==
  <<focus, arhsVars, fimVars, rsVars, sdVars, tiVars, ftVars, ndVars, lol,
    crVars, fwVars, upVars, fl, dvVars, bsVars, dnVars, rmVars, yr, pe,
    <<plVars, esVars>>, pmVars, etVars, amVars, tlVars, alVars, bn, der,
    au, sc>>

Spec == Init /\ [][Next]_vars

-----------------------------------------------------------------------------

\* Command lines, scripts and packets are read through carets, encodings, chains
\* of up to four literals and compressed names; a regular caller is held for a
\* beacon and an irregular one released; more evidence never gives a milder
\* verdict, and a score explains the level it gives.
EvidenceRead ==
  /\ NdRegularIsBeacon /\ NdIrregularReleased /\ DnParseExact /\ DnRunExact
  /\ BsMonotone /\ BsThreatExplained /\ LolMonotone /\ LolLnkComplete
  /\ LolNormalized /\ LolDecodeInverts /\ FlChainJoined /\ FlWordFound
  /\ FlSeverityIsGravest

\* The searches find what a plain search finds, reads stay inside the file, and
\* what a file, a rule or a signature adds never hides a match.
ContentSearched ==
  /\ YrFindExact /\ YrHexInverts /\ YrRulesAlone /\ YrMatchStays
  /\ PeReadsInside /\ PeStrayEntryTold /\ PeAlarmExplained /\ PeMd5Blocks
  /\ ScScansAgree /\ ScShellcodeExact /\ ScReadableIsClear /\ ScNothingShadowed

=============================================================================

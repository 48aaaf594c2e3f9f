--------------------------- MODULE NetworkEngines ---------------------------
EXTENDS Integers, SequencesExt, FiniteSets, FiniteSetsExt

(***************************************************************************)
(* NetworkDpiEngine: packets are checked against the rules and timed per   *)
(* destination; the monitor looks for destinations that are called at      *)
(* regular intervals.  The score is computed in integers: with n intervals *)
(* of sum S and sum of squares Q, the jitter is sqrt(n*Q - S*S) / S.       *)
(***************************************************************************)

CONSTANTS NdTargets, NdPackets,     \* destinations; sets of features of the packets seen
          BEACON_MIN_CONNECTIONS,
          BeaconFull,               \* connections for the full count factor (20)
          NdMaxTimes, NdMaxAlerts,  \* limits of a timeline (200) and of alerts_ (MAX_ALERTS)
          NdMaxPackets, NdMaxTime   \* bounds on the packets and on time

ASSUME NdConstants == {BEACON_MIN_CONNECTIONS, BeaconFull, NdMaxTimes, NdMaxAlerts, NdMaxPackets, NdMaxTime} \subseteq Nat \ {0}

VARIABLES ndTimes,    \* conn_timelines_: destination -> timestamps
          nd,         \* whether there is a threat callback, reported_beacons_, alerts_,
                      \* threats of the last step, whether it was a full analysis
          ndNow, ndSeen   \* time; packets so far

ndVars == <<ndTimes, nd, ndNow, ndSeen>>

NdInit ==
  /\ ndTimes = [t \in NdTargets |-> <<>>]
  /\ nd = [cb |-> FALSE, reported |-> {}, alerts |-> <<>>, threats |-> {}, fresh |-> FALSE]
  /\ ndNow = 1 /\ ndSeen = 0

\* The rules in the order in which inspect_packet() applies them, with the
\* feature of a packet that fires each and the level of its alert.
NdRules == << <<"SUSPICIOUS_USER_AGENT", 2>>, <<"SUSPICIOUS_URI", 3>>, <<"DNS_LARGE_PAYLOAD", 2>>,
              <<"IRC_CONNECTION", 2>>, <<"TLS_SELF_SIGNED", 2>>, <<"TLS_EXPIRED", 1>>,
              <<"HIGH_ENTROPY_PAYLOAD", 2>>, <<"KNOWN_C2_PORT", 2>> >>

\* classify_port() and known_c2_ports, for the ports of the packets.
NdProtocol(port) ==
  CASE port = 80 -> "HTTP" [] port \in {443, 8443} -> "HTTPS" [] port = 53 -> "DNS"
    [] port \in {25, 587, 465} -> "SMTP" [] port = 21 -> "FTP" [] port = 22 -> "SSH"
    [] port = 3389 -> "RDP" [] port \in {445, 139} -> "SMB" [] port \in 6667..6669 -> "IRC"
    [] OTHER -> "UNKNOWN"

NdC2Ports == {4444, 5555, 8443, 8888, 9999, 1337, 31337, 4443, 2222, 3333, 7777, 50050, 50051} \union 6666..6669

\* The rules that a packet fires; a packet is [port, large, marks].
NdFires(pkt, rule) ==
  \/ rule \in pkt.marks
  \/ rule = "DNS_LARGE_PAYLOAD" /\ NdProtocol(pkt.port) = "DNS" /\ pkt.large
  \/ rule = "IRC_CONNECTION" /\ NdProtocol(pkt.port) = "IRC"
  \/ rule = "KNOWN_C2_PORT" /\ pkt.port \in NdC2Ports

NdAlerted(pkt) == SelectSeq(NdRules, LAMBDA r : NdFires(pkt, r[1]))

NdLast(s, n) == IF Len(s) > n THEN SubSeq(s, Len(s) - n + 1, Len(s)) ELSE s

\* inspect_packet(); the timestamp is the packet's.  Alerts of HIGH and above
\* are threats, the others observations.
NdInspect(target, pkt, when) ==
  /\ ndSeen < NdMaxPackets
  /\ ndSeen' = ndSeen + 1
  /\ ndTimes' = [ndTimes EXCEPT ![target] = NdLast(Append(@, when), NdMaxTimes)]
  /\ nd' = [nd EXCEPT !.alerts = NdLast(@ \o NdAlerted(pkt), NdMaxAlerts), !.fresh = FALSE,
                      !.threats = {r[1] : r \in {x \in Range(NdAlerted(pkt)) : nd.cb /\ x[2] >= 3}}]
  /\ UNCHANGED ndNow

\* on_threat(): the callback is set, or taken away.
NdOnThreat(cb) == nd' = [nd EXCEPT !.cb = cb, !.threats = {}] /\ UNCHANGED <<ndTimes, ndNow, ndSeen>>

NdIntervals(times) == [i \in 1..(Len(times) - 1) |-> times[i + 1] - times[i]]

\* compute_beacon_score() >= BEACON_SCORE_THRESHOLD: regularity * 0.7 +
\* count factor * 0.3 >= 0.7, that is jitter <= 3/7 of the count factor.
NdBeacon(times) ==
  LET v == NdIntervals(times)
      n == Len(v)
      S == times[Len(times)] - times[1]
      Q == MapThenSumSet(LAMBDA i : v[i] * v[i], DOMAIN v)
      count == IF Len(times) < BeaconFull THEN Len(times) ELSE BeaconFull
  IN  /\ Len(times) >= BEACON_MIN_CONNECTIONS /\ n > 0
      /\ S > 0
      /\ 49 * BeaconFull * BeaconFull * (n * Q - S * S) <= 9 * count * count * S * S

NdReportedNext(target) ==
  IF Len(ndTimes[target]) < BEACON_MIN_CONNECTIONS THEN target \in nd.reported ELSE NdBeacon(ndTimes[target])

\* analyze_beacons(): a beacon is reported when it was not one at the last look.
\* Without a callback nothing is looked at, and a former beacon stays one.
NdAnalyze ==
  /\ nd' = IF ~nd.cb THEN [nd EXCEPT !.threats = {}] ELSE
           [nd EXCEPT !.reported = {t \in NdTargets : NdReportedNext(t)}, !.fresh = TRUE,
                      !.threats = {t \in NdTargets : NdReportedNext(t)} \ nd.reported]
  /\ UNCHANGED <<ndTimes, ndNow, ndSeen>>

NdTick == ndNow < NdMaxTime /\ ndNow' = ndNow + 1 /\ UNCHANGED <<ndTimes, nd, ndSeen>>

NdStep ==
  \/ \E target \in NdTargets, pkt \in NdPackets, when \in {ndNow - 1, ndNow} : NdInspect(target, pkt, when)
  \/ \E cb \in BOOLEAN : NdOnThreat(cb)
  \/ NdAnalyze \/ NdTick

\* A destination called at perfectly regular intervals is known as a beacon
\* after the next analysis that has a callback to tell, however few calls
\* beyond the minimum there were.
NdRegularIsBeacon ==
  nd.fresh => \A t \in NdTargets :
    LET v == NdIntervals(ndTimes[t])
    IN  Len(ndTimes[t]) >= BEACON_MIN_CONNECTIONS /\ v # <<>> /\ (\A i \in DOMAIN v : v[i] = v[1] /\ v[1] > 0)
          => t \in nd.reported

\* A destination is held for a beacon only while the deviation of its
\* intervals is at most half their mean: an irregular caller is released.
NdIrregularReleased ==
  nd.fresh => \A t \in nd.reported :
    LET v == NdIntervals(ndTimes[t])
        S == ndTimes[t][Len(ndTimes[t])] - ndTimes[t][1]
    IN  4 * (Len(v) * MapThenSumSet(LAMBDA i : v[i] * v[i], DOMAIN v) - S * S) <= S * S

-----------------------------------------------------------------------------
(***************************************************************************)
(* ETGRIEngine: the capture thread counts the packets of every source in a *)
(* sliding window and blocks a source that floods; blocks are lifted from  *)
(* other threads.  The table of sources is pruned when it is large.  The   *)
(* statistics of a payload report and change nothing.                      *)
(***************************************************************************)

CONSTANTS EtSources, FLOOD_THRESH, FLOOD_WINDOW,
          EtPruneAt,                  \* 512: sources above which the table is pruned
          EtMaxPackets, EtMaxTime     \* bounds

ASSUME EtConstants == {FLOOD_THRESH, FLOOD_WINDOW, EtPruneAt, EtMaxPackets, EtMaxTime} \subseteq Nat

VARIABLES etTrack,     \* conn_tracker_: times of packets by source
          etBlocked,   \* blocked_ips_
          etTime,
          etHand,      \* the packet that is analysed: "idle", "flood", "block" and its source
          etSent,      \* history: times of the packets of each source that were counted
          etLifted     \* history: sources whose block was lifted

etVars == <<etTrack, etBlocked, etTime, etHand, etSent, etLifted>>

EtIdle == [pc |-> "idle", src |-> 0]

EtInit ==
  /\ etTrack = [s \in {} |-> <<>>] /\ etBlocked = {} /\ etTime = 0 /\ etHand = EtIdle
  /\ etSent = [s \in EtSources |-> <<>>] /\ etLifted = {}

EtTick ==
  /\ etTime < EtMaxTime /\ etTime' = etTime + 1 /\ UNCHANGED <<etTrack, etBlocked, etHand, etSent, etLifted>>

\* analyze_packet(): a blocked source is not looked at.
EtPacket(s) ==
  /\ etHand.pc = "idle" /\ s \notin etBlocked /\ MapThenSumSet(LAMBDA t : Len(etSent[t]), EtSources) < EtMaxPackets
  /\ etHand' = [pc |-> "flood", src |-> s]
  /\ UNCHANGED <<etTrack, etBlocked, etTime, etSent, etLifted>>

\* The times before the first that lies in the window are taken off the front.
EtRecent(times, now) ==
  LET first == SelectInSeq(times, LAMBDA t : now - t <= FLOOD_WINDOW)
  IN  IF first = 0 THEN <<>> ELSE SubSeq(times, first, Len(times))

\* Fault: a table that is too large is emptied.
EtPrunedAll(track) == IF Cardinality(DOMAIN track) > EtPruneAt THEN [s \in {} |-> <<>>] ELSE track

\* Sources without a recent packet are forgotten.
EtPruned(track) ==
  IF Cardinality(DOMAIN track) > EtPruneAt
  THEN [s \in {t \in DOMAIN track : EtRecent(track[t], etTime) # <<>>} |-> EtRecent(track[s], etTime)]
  ELSE track

EtFloods(n) == n > FLOOD_THRESH

\* is_flood()
EtCount ==
  /\ etHand.pc = "flood"
  /\ LET s == etHand.src
         pruned == EtPruned(etTrack)
         times == EtRecent(Append(IF s \in DOMAIN pruned THEN pruned[s] ELSE <<>>, etTime), etTime)
     IN  /\ etTrack' = [t \in DOMAIN pruned \union {s} |-> IF t = s THEN times ELSE pruned[t]]
         /\ etHand' = IF EtFloods(Len(times)) THEN [etHand EXCEPT !.pc = "block"] ELSE EtIdle
         /\ etSent' = [etSent EXCEPT ![s] = Append(@, etTime)]
  /\ UNCHANGED <<etBlocked, etTime, etLifted>>

EtBlock ==
  /\ etHand.pc = "block" /\ etHand' = EtIdle /\ etBlocked' = etBlocked \union {etHand.src}
  /\ UNCHANGED <<etTrack, etTime, etSent, etLifted>>

EtUnblock(s) ==
  /\ s \in etBlocked /\ etBlocked' = etBlocked \ {s} /\ etLifted' = etLifted \union {s}
  /\ UNCHANGED <<etTrack, etTime, etHand, etSent>>

EtNext == EtTick \/ EtCount \/ EtBlock \/ \E s \in EtSources : EtPacket(s) \/ EtUnblock(s)

EtSpec == EtInit /\ [][EtNext]_etVars

\* The table that is pruned counts like one that never forgets: all the
\* packets of the window, of every source, are in it.
EtNothingRecentForgotten ==
  \A s \in EtSources : EtRecent(etSent[s], etTime) = IF s \in DOMAIN etTrack THEN EtRecent(etTrack[s], etTime) ELSE <<>>

\* A source that has sent more than the threshold within the window is
\* blocked, unless its block was lifted.
EtFloodBlocked ==
  etHand.pc = "idle" => \A s \in EtSources : Len(EtRecent(etSent[s], etTime)) > FLOOD_THRESH => s \in etBlocked \union etLifted

-----------------------------------------------------------------------------
(***************************************************************************)
(* FirewallEngine: rules sorted by priority, of which the first enabled    *)
(* one that matches decides; a bounded log of connections, from which a    *)
(* monitor names suspicious addresses.                                     *)
(***************************************************************************)

CONSTANTS FwRules,        \* rules that a caller may add; their id is not used
          FwPackets,      \* connections that are evaluated and logged
          FwWidth,        \* bits of an address (32 in the code)
          MAX_CONNECTION_LOG, FLOOD_THRESHOLD, DENY_RATIO_THRESH,
          FwScatter,      \* ports of a port scan (20 in the code)
          FwIds,          \* ids of the rules that callers remove or switch
          FwMaxId, FwMaxQueries   \* bounds on the rules and on evaluate()

FwProtocols == {"ANY", "TCP", "UDP", "ICMP"}

FwRule == [id : Nat, direction : {"IN", "OUT"}, action : {"ALLOW", "DENY"}, protocol : FwProtocols, src : Nat, srcLen : Nat,
           dst : Nat, dstLen : Nat, pmin : Nat, pmax : Nat, enabled : BOOLEAN, priority : Int]

FwPacket == [direction : {"IN", "OUT"}, protocol : FwProtocols, src : Nat, dst : Nat, sport : Nat, dport : Nat]

ASSUME FwConstants ==
  /\ {FwWidth, MAX_CONNECTION_LOG, FLOOD_THRESHOLD, DENY_RATIO_THRESH} \subseteq Nat \ {0}
  /\ FwRules \subseteq FwRule /\ FwPackets \subseteq FwPacket

VARIABLES fwRules, fwNext, fwReturned,  \* rules_, next_rule_id_, result of the last add_rule()
          fwLog, fwTotals,              \* conn_log_, total_allowed_ and total_denied_
          fwPause, fwQuiet, fwAlarms,   \* poll_ms and quiet_ticks of monitor_loop(); its last alarms
          fwRunning

fwVars == <<fwRules, fwNext, fwReturned, fwLog, fwTotals, fwPause, fwQuiet, fwAlarms, fwRunning>>

FwInit ==
  /\ fwRules = <<>> /\ fwNext = 1 /\ fwReturned = 0
  /\ fwLog = <<>> /\ fwTotals = [ALLOW |-> 0, DENY |-> 0]
  /\ fwPause = 5 /\ fwQuiet = 0 /\ fwAlarms = {} /\ fwRunning = FALSE

\* push_back() and stable_sort() of a sequence that was sorted.
FwInsert(rules, r) ==
  LET n == SelectLastInSeq(rules, LAMBDA q : q.priority <= r.priority)
  IN  SubSeq(rules, 1, n) \o <<r>> \o SubSeq(rules, n + 1, Len(rules))

FwDefault(id, dir, act, proto, pmin, pmax, prio) ==
  [id |-> id, direction |-> dir, action |-> act, protocol |-> proto, src |-> 0, srcLen |-> 0, dst |-> 0, dstLen |-> 0,
   pmin |-> pmin, pmax |-> pmax, enabled |-> TRUE, priority |-> prio]

\* install_default_rules(), sorted.
FwDefaults ==
  <<FwDefault(5, "IN", "ALLOW", "ANY", 0, 65535, 5),
    FwDefault(1, "OUT", "ALLOW", "UDP", 53, 53, 10),  FwDefault(2, "OUT", "ALLOW", "TCP", 80, 80, 10),
    FwDefault(3, "OUT", "ALLOW", "TCP", 443, 443, 10), FwDefault(4, "OUT", "ALLOW", "UDP", 67, 68, 10),
    FwDefault(6, "IN", "DENY", "TCP", 4444, 4444, 20), FwDefault(7, "IN", "DENY", "TCP", 23, 23, 20),
    FwDefault(8, "IN", "DENY", "TCP", 3389, 3389, 30)>>

FwStart ==
  /\ ~fwRunning /\ fwRunning' = TRUE
  /\ IF fwRules = <<>>
     THEN fwRules' = [i \in 1..8 |-> [FwDefaults[i] EXCEPT !.id = @ + fwNext - 1]] /\ fwNext' = fwNext + 8
     ELSE UNCHANGED <<fwRules, fwNext>>
  /\ fwPause' = 5 /\ fwQuiet' = 0
  /\ UNCHANGED <<fwReturned, fwLog, fwTotals, fwAlarms>>

FwStop == fwRunning /\ fwRunning' = FALSE /\ UNCHANGED <<fwRules, fwNext, fwReturned, fwLog, fwTotals, fwPause, fwQuiet, fwAlarms>>

\* add_rule() returns the id of the last rule of the sorted sequence.
FwAddRule(rule) ==
  /\ fwNext <= FwMaxId
  /\ fwRules' = FwInsert(fwRules, [rule EXCEPT !.id = fwNext])
  /\ fwNext' = fwNext + 1
  /\ fwReturned' = fwRules'[Len(fwRules')].id
  /\ UNCHANGED <<fwLog, fwTotals, fwPause, fwQuiet, fwAlarms, fwRunning>>

FwRemoveRule(id) ==
  /\ \E i \in DOMAIN fwRules : fwRules[i].id = id /\ fwRules' = RemoveAt(fwRules, i)
  /\ UNCHANGED <<fwNext, fwReturned, fwLog, fwTotals, fwPause, fwQuiet, fwAlarms, fwRunning>>

FwEnableRule(id, enabled) ==
  /\ \E i \in DOMAIN fwRules : fwRules[i].id = id /\ fwRules' = [fwRules EXCEPT ![i].enabled = enabled]
  /\ UNCHANGED <<fwNext, fwReturned, fwLog, fwTotals, fwPause, fwQuiet, fwAlarms, fwRunning>>

\* An address against an address of a rule under the mask cidr_to_mask() makes.
FwSameNet(ip, rule, len) == rule = 0 \/ ip \div 2^(FwWidth - len) = rule \div 2^(FwWidth - len)

\* The port checked is the local one: of the destination for an inbound, of
\* the source for an outbound connection.
FwMatches(r, p) ==
  LET port == IF p.direction = "IN" THEN p.dport ELSE p.sport
  IN  /\ r.enabled /\ r.direction = p.direction
      /\ r.protocol \in {"ANY", p.protocol}
      /\ FwSameNet(p.src, r.src, r.srcLen) /\ FwSameNet(p.dst, r.dst, r.dstLen)
      /\ port \in r.pmin..r.pmax

FwVerdict(p) ==
  LET hits == {i \in DOMAIN fwRules : FwMatches(fwRules[i], p)}
  IN  IF hits = {} THEN "ALLOW" ELSE fwRules[CHOOSE i \in hits : \A j \in hits : i <= j].action

FwEvaluate(p) ==
  /\ fwTotals.ALLOW + fwTotals.DENY < FwMaxQueries
  /\ fwTotals' = [fwTotals EXCEPT ![FwVerdict(p)] = @ + 1]
  /\ UNCHANGED <<fwRules, fwNext, fwReturned, fwLog, fwPause, fwQuiet, fwAlarms, fwRunning>>

FwKept(log) == IF Len(log) > MAX_CONNECTION_LOG THEN Tail(log) ELSE log

FwLogConnection(p, action) ==
  /\ fwLog' = FwKept(Append(fwLog, [ip |-> IF p.direction = "IN" THEN p.src ELSE p.dst,
                                    port |-> p.dport, action |-> action]))
  /\ UNCHANGED <<fwRules, fwNext, fwReturned, fwTotals, fwPause, fwQuiet, fwAlarms, fwRunning>>

\* suspicious_candidates(): the reason why an address is one, or NONE.
FwSuspect(ip) ==
  LET of == {i \in DOMAIN fwLog : fwLog[i].ip = ip}
      denied == {i \in of : fwLog[i].action = "DENY"}
  IN  IF Cardinality(of) >= FLOOD_THRESHOLD THEN "SYN_FLOOD"
      ELSE IF Cardinality(denied) >= DENY_RATIO_THRESH /\ 2 * Cardinality(denied) > Cardinality(of) THEN "NETWORK_SCAN"
      ELSE IF Cardinality({fwLog[i].port : i \in of}) >= FwScatter THEN "NETWORK_SCAN" ELSE "NONE"

FwAddresses == {p.src : p \in FwPackets} \union {p.dst : p \in FwPackets}

\* A turn of monitor_loop(): every suspect is alarmed at every turn; five
\* quiet turns double the pause, up to 30 seconds.
FwMonitor ==
  LET suspects == {<<ip, FwSuspect(ip)>> : ip \in {a \in FwAddresses : FwSuspect(a) # "NONE"}}
  IN  /\ fwRunning
      /\ fwAlarms' = suspects
      /\ IF suspects # {} THEN fwPause' = 5 /\ fwQuiet' = 0
         ELSE /\ fwQuiet' = IF fwQuiet < 5 THEN fwQuiet + 1 ELSE 5
              /\ fwPause' = IF fwQuiet' < 5 \/ fwPause >= 30 THEN fwPause
                            ELSE IF 2 * fwPause > 30 THEN 30 ELSE 2 * fwPause
      /\ UNCHANGED <<fwRules, fwNext, fwReturned, fwLog, fwTotals, fwRunning>>

\* The two halves share nothing but running_ and the lock.
FwRuleNext ==
  \/ FwStart
  \/ \E rule \in FwRules : FwAddRule(rule)
  \/ \E id \in FwIds : FwRemoveRule(id) \/ \E on \in BOOLEAN : FwEnableRule(id, on)
  \/ \E p \in FwPackets : FwEvaluate(p)

FwTrafficNext ==
  \/ FwStart \/ FwStop \/ FwMonitor
  \/ \E p \in FwPackets, a \in {"ALLOW", "DENY"} : FwLogConnection(p, a)

FwSpec == FwInit /\ [][FwRuleNext \/ FwTrafficNext]_fwVars

\* evaluate() decides by the enabled matching rule of the smallest priority,
\* and among those of one priority by the one added first, after any sequence
\* of additions, removals and switches.
FwOldestOfBestDecides ==
  \A p \in FwPackets :
    LET hits == {fwRules[i] : i \in {j \in DOMAIN fwRules : FwMatches(fwRules[j], p)}}
    IN  \A r \in hits :
          (\A q \in hits \ {r} : r.priority < q.priority \/ (r.priority = q.priority /\ r.id < q.id))
            => FwVerdict(p) = r.action

\* An address that floods stays one until its own oldest connection leaves
\* the full log: no other traffic and no passing of time clears it.
FwFloodStays ==
  [][\A ip \in FwAddresses :
       FwSuspect(ip) = "SYN_FLOOD" /\ FwSuspect(ip)' # "SYN_FLOOD"
         => Len(fwLog) = MAX_CONNECTION_LOG /\ Head(fwLog).ip = ip]_fwVars
=============================================================================

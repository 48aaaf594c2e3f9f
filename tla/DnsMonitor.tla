----------------------------- MODULE DnsMonitor -----------------------------
(***************************************************************************)
(* DnsMonitorEngine: analyze_domain() on the threads that capture queries, *)
(* parse_dns_query() of a packet and the consonant runs of dga_score().    *)
(* mtx_ is a mutex that is not recursive: a thread that locks it again     *)
(* waits for itself.  The score, a weighted sum with the entropy of the    *)
(* label in it, is a property of the domain here.                          *)
(***************************************************************************)
EXTENDS Integers, SequencesExt, FiniteSets

CONSTANTS DnThreads, DnDomains,
          DnBlocked, DnGenerated,  \* domains in blocklist_; domains with a score of DGA_THRESHOLD or more
          MAX_QUERY_LOG,
          DnMaxCalls,              \* bound: calls of analyze_domain()
          DnBytes, DnMaxLen,       \* bytes of the packets after the header; bound on their length
          DnMaxLabel               \* bound: length of the labels

ASSUME DnConstants ==
  DnBlocked \union DnGenerated \subseteq DnDomains /\ {MAX_QUERY_LOG, DnMaxCalls, DnMaxLen, DnMaxLabel} \subseteq Nat

VARIABLES dnLog, dnSeen,      \* query_log_, seen_domains_
          dnLock,             \* threads that hold mtx_
          dnThread,           \* dnThread[t]: where the call is, and its domain
          dnCalls,            \* calls begun
          dnReported,         \* history: domains reported
          dnAsked             \* the question asked of the parser and of the run count

dnVars == <<dnLog, dnSeen, dnLock, dnThread, dnCalls, dnReported, dnAsked>>

DnIdle == [pc |-> "idle", domain |-> ""]

DnInit ==
  /\ dnLog = <<>> /\ dnSeen = {} /\ dnLock = {} /\ dnThread = [t \in DnThreads |-> DnIdle]
  /\ dnCalls = 0 /\ dnReported = {} /\ dnAsked = [ask |-> "idle"]

DnGoto(t, pc) == dnThread' = [dnThread EXCEPT ![t].pc = pc]

\* analyze_domain(): the query is logged; ...
DnAnalyze(t, d) ==
  /\ dnThread[t].pc = "idle" /\ dnCalls < DnMaxCalls /\ dnLock = {}
  /\ dnCalls' = dnCalls + 1
  /\ dnLog' = LET l == Append(dnLog, d) IN IF Len(l) > MAX_QUERY_LOG THEN Tail(l) ELSE l
  /\ dnThread' = [dnThread EXCEPT ![t] = IF d \in DnBlocked THEN [pc |-> "emit", domain |-> d]
                                         ELSE IF d \in DnGenerated THEN [pc |-> "seen", domain |-> d] ELSE DnIdle]
  /\ UNCHANGED <<dnSeen, dnLock, dnReported, dnAsked>>

\* ... a generated one is looked up with the lock, which is kept for what
\* follows when it is new; ...
DnSee(t) ==
  /\ dnThread[t].pc = "seen" /\ dnLock = {}
  /\ dnSeen' = dnSeen \union {dnThread[t].domain}
  /\ IF dnThread[t].domain \in dnSeen THEN DnGoto(t, "idle") /\ UNCHANGED dnLock
     ELSE DnGoto(t, "emit") /\ dnLock' = {t}
  /\ UNCHANGED <<dnLog, dnCalls, dnReported, dnAsked>>

\* ... emit_threat() and emit_observation() lock to copy the callbacks.
DnEmit(t) ==
  /\ dnThread[t].pc = "emit" /\ dnLock = {}
  /\ dnReported' = dnReported \union {dnThread[t].domain}
  /\ DnGoto(t, "idle")
  /\ UNCHANGED <<dnLog, dnSeen, dnLock, dnCalls, dnAsked>>

-----------------------------------------------------------------------------

\* parse_dns_query() after the header: the labels, or none.
DnParse(data) ==
  LET turn[n \in 0 .. Len(data) + 1] ==
        IF n = 0 THEN [at |-> 0, labels |-> <<>>, state |-> "on"]
        ELSE LET p == turn[n - 1]
             IN  IF p.state # "on" THEN p
                 ELSE IF p.at >= Len(data) THEN [p EXCEPT !.state = "end"]
                 ELSE IF data[p.at + 1] = 0 THEN [p EXCEPT !.at = @ + 1, !.state = "end"]
                 ELSE IF data[p.at + 1] >= 192 \/ p.at + 1 + data[p.at + 1] > Len(data) THEN [p EXCEPT !.state = "bad"]
                 ELSE [p EXCEPT !.labels = Append(@, SubSeq(data, p.at + 2, p.at + 1 + data[p.at + 1])),
                                !.at = @ + 1 + data[p.at + 1]]
      last == turn[Len(data) + 1]
  IN  IF last.state = "bad" \/ last.at + 4 > Len(data) THEN <<>> ELSE last.labels

DnRunAfter(run, kind) == IF kind = "consonant" THEN run + 1 ELSE 0

\* The longest run of consonants that dga_score() counts.
DnMaxRun(label) ==
  LET run[i \in 0 .. Len(label)] == IF i = 0 THEN 0 ELSE DnRunAfter(run[i - 1], label[i])
  IN  CHOOSE m \in {run[i] : i \in 0 .. Len(label)} : \A i \in 0 .. Len(label) : run[i] <= m

DnAsk ==
  /\ dnAsked.ask = "idle" /\ dnCalls = 0
  /\ \/ \E n \in 0 .. DnMaxLen : \E data \in [1 .. n -> DnBytes] : dnAsked' = [ask |-> "packet", data |-> data]
     \/ \E n \in 0 .. DnMaxLabel : \E label \in [1 .. n -> {"consonant", "vowel", "digit"}] :
          dnAsked' = [ask |-> "label", label |-> label]
  /\ UNCHANGED <<dnLog, dnSeen, dnLock, dnThread, dnCalls, dnReported>>

DnQueryStep ==
  /\ dnAsked.ask = "idle"
  /\ \E t \in DnThreads : (\E d \in DnDomains : DnAnalyze(t, d)) \/ DnSee(t) \/ DnEmit(t)

DnNext == DnQueryStep \/ DnAsk

DnSpec == DnInit /\ [][DnNext]_dnVars

\* A packet is read exactly when it begins with labels, a zero and the four
\* bytes of type and class, and then as those labels.
DnParseExact ==
  dnAsked.ask = "packet" =>
    LET labels == DnParse(dnAsked.data)
        written == FlattenSeq([i \in DOMAIN labels |-> <<Len(labels[i])>> \o labels[i]]) \o <<0>>
    IN  labels # <<>> => IsPrefix(written, dnAsked.data) /\ Len(dnAsked.data) >= Len(written) + 4

\* The longest run is the longest piece of the label that is all consonants.
DnRunExact ==
  dnAsked.ask = "label" =>
    LET l == dnAsked.label
        pieces == {p \in (1 .. Len(l)) \X (0 .. Len(l)) : \A k \in p[1] .. p[2] : l[k] = "consonant"}
    IN  /\ \A p \in pieces : p[2] - p[1] + 1 <= DnMaxRun(l)
        /\ DnMaxRun(l) > 0 => \E p \in pieces : p[2] - p[1] + 1 = DnMaxRun(l)

\* Callbacks are reached only after the engine's mutex is released: no call
\* that goes on to emit_threat(), which locks it, holds it already.
DnNoSelfWait == \A t \in DnThreads : ~(dnThread[t].pc = "emit" /\ t \in dnLock)
=============================================================================

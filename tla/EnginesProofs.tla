---------------------------- MODULE EnginesProofs ----------------------------
(***************************************************************************)
(* Proofs about the engines: the forensic timeline, whose ingests overlap; *)
(* the lineage of processes and the trace session; the file watchers, with     *)
(* what none of their steps does.                                          *)
(***************************************************************************)
EXTENDS ForensicTimeline, ProcessLineage, RansomwareEngines, FiniteSetTheorems, SequenceTheorems, WellFoundedInduction, TLAPS

-----------------------------------------------------------------------------
(* Facts about numbers and sequences that the proofs below need. *)

\* A set of numbers that is not empty and has a bound has a greatest one.
LEMMA GreatestOf ==
  ASSUME NEW n \in Nat, NEW S, S \subseteq 1 .. n, S # {} PROVE \E i \in S : \A j \in S : j <= i
<1> DEFINE R == OpToRel(<, Nat)
           T == {n - i : i \in S}
<1>1. IsWellFoundedOn(R, Nat)
  BY NatLessThanWellFounded
<1>2. \A i, j \in Nat : i < j => <<i, j>> \in R
  BY DEF OpToRel
<1>3. \A i \in S : i \in Int /\ n - i \in Nat /\ n - i \in T
  OBVIOUS
<1>4. T \subseteq Nat /\ T # {} /\ \A t \in T : \E i \in S : t = n - i
  BY <1>3
<1> HIDE DEF R, T
<1>5. PICK t \in T : \A u \in T : ~ (<<u, t>> \in R)
  BY <1>1, <1>4, WFMin
<1>6. PICK i \in S : t = n - i
  BY <1>4, <1>5
<1>7. \A j \in S : ~ (n - j < n - i)
  <2>1. \A j \in S : ~ (<<n - j, n - i>> \in R)
    BY <1>3, <1>5, <1>6
  <2> QED BY <1>2, <1>3, <2>1
<1>8. \A j \in S : j <= i
  BY <1>3, <1>7
<1> QED BY <1>8

\* ... which the library's Max is.
LEMMA MaxOf ==
  ASSUME NEW n \in Nat, NEW S, S \subseteq 1 .. n, S # {} PROVE Max(S) \in S /\ \A j \in S : j <= Max(S)
<1>1. PICK i \in S : \A j \in S : j <= i
  BY GreatestOf
<1>2. \A j \in S : i >= j
  BY <1>1
<1>3. Max(S) \in S /\ \A j \in S : Max(S) >= j
  BY <1>2 DEF Max
<1> QED BY <1>3

\* And a set of numbers that is not empty has a least one.
LEMMA LeastOf == ASSUME NEW S, S \subseteq Nat, S # {} PROVE \E i \in S : \A j \in S : i <= j
<1> DEFINE R == OpToRel(<, Nat)
<1>1. IsWellFoundedOn(R, Nat)
  BY NatLessThanWellFounded
<1>2. \A i, j \in Nat : i < j => <<i, j>> \in R
  BY DEF OpToRel
<1> HIDE DEF R
<1>3. PICK i \in S : \A j \in S : ~ (<<j, i>> \in R)
  BY <1>1, WFMin
<1>4. \A j \in S : j \in Nat /\ i \in Nat /\ ~ (j < i)
  BY <1>2, <1>3
<1>5. \A j \in S : i <= j
  BY <1>4
<1> QED BY <1>5

\* The last n elements of a sequence.
IsLast(a, s, n, S) == a \in Seq(S) /\ Len(a) = n /\ \A i \in 1 .. n : a[i] = s[Len(s) - n + i]

\* A suffix cut out by its length.
LEMMA LastOf ==
  ASSUME NEW S, NEW s \in Seq(S), NEW n \in Nat, n <= Len(s)
  PROVE  IsLast(SubSeq(s, Len(s) - n + 1, Len(s)), s, n, S)
<1>0. PICK p : p = Len(s)
  OBVIOUS
<1>1. p \in Nat /\ n <= p
  BY <1>0
<1>2. PICK a, m : m = p - n + 1 /\ a = SubSeq(s, m, p)
  OBVIOUS
<1>3. m \in 1 .. p + 1 /\ p - m + 1 = n
  BY <1>1, <1>2
<1>4. a \in Seq(S)
  BY <1>0, <1>1, <1>2, <1>3
<1>5. Len(a) = n
  BY <1>0, <1>1, <1>2, <1>3
<1>6. ASSUME NEW i \in 1 .. n PROVE a[i] = s[p - n + i]
  <2>1. a[i] = s[m + i - 1]
    BY <1>0, <1>1, <1>2, <1>3
  <2>2. m + i - 1 = p - n + i
    BY <1>1, <1>2
  <2> QED BY <2>1, <2>2
<1> QED BY <1>0, <1>2, <1>4, <1>5, <1>6 DEF IsLast

\* t is s with x appended and the first d elements dropped.
Shifted(s, x, t, d) ==
  /\ Len(t) = Len(s) + 1 - d
  /\ \A i \in 1 .. Len(t) : \/ i + d = Len(s) + 1 /\ t[i] = x
                            \/ i + d \in 1 .. Len(s) /\ t[i] = s[i + d]

\* A log with room for so many entries: the new entry comes last, and the
\* oldest may go.
LEMMA Rolled ==
  ASSUME NEW T, NEW s \in Seq(T), NEW x \in T, NEW t, t \in {Append(s, x), Tail(Append(s, x))}
  PROVE  t \in Seq(T) /\ \E d \in {0, 1} : Shifted(s, x, t, d)
<1>1. /\ Append(s, x) \in Seq(T) /\ Len(s) \in Nat /\ Len(Append(s, x)) = Len(s) + 1 /\ Append(s, x) # <<>>
      /\ \A i \in 1 .. Len(s) + 1 : Append(s, x)[i] = IF i = Len(s) + 1 THEN x ELSE s[i]
  OBVIOUS
<1>2. CASE t = Append(s, x)
  <2>1. Shifted(s, x, t, 0)
    BY <1>1, <1>2 DEF Shifted
  <2> QED BY <1>1, <1>2, <2>1
<1>3. CASE t = Tail(Append(s, x))
  <2> DEFINE a == Append(s, x)
  <2> HIDE DEF a
  <2>1. t \in Seq(T) /\ Len(t) = Len(a) - 1 /\ \A i \in 1 .. Len(t) : t[i] = a[i + 1]
    BY <1>1, <1>3 DEF a
  <2>2. Shifted(s, x, t, 1)
    BY <1>1, <2>1 DEF a, Shifted
  <2> QED BY <2>1, <2>2
<1> QED BY <1>2, <1>3

-----------------------------------------------------------------------------
(* The forensic timeline. *)

FtEvent ==
  [pc : {"link", "store", "chain"}, id : Nat \ {0}, pid : Nat, stage : Nat, level : Nat, when : Nat, parent : Nat]

FtChainRecord == [ids : SUBSET Nat, stage : Nat, level : Nat, multi : BOOLEAN]

FtTypes ==
  /\ ftEvents \in Seq(FtEvent) /\ ftChains \in Seq(FtChainRecord)
  /\ ftNext \in Nat \ {0} /\ ftNow \in Nat
  /\ ftCall \in [FtCallers -> FtEvent \cup {FtIdle}]
  /\ \A p \in ftParents : p = <<p[1], p[2]>> /\ p[1] \in Nat \ {0} /\ p[2] \in Nat

\* The ids of the events stored so far, dropped ones included.
FtEver == {p[1] : p \in ftParents}

\* Ids are given once; a call that has not stored its event has an id that is
\* not stored, and its parent is; every link goes to an id that is stored.
FtLinksInv ==
  /\ \A c \in FtCallers : ftCall[c].pc # "idle" =>
       /\ ftCall[c].id < ftNext
       /\ ftCall[c].pc = "chain" <=> ftCall[c].id \in FtEver
       /\ ftCall[c].parent = 0 \/ ftCall[c].parent \in FtEver
       /\ \A d \in FtCallers : ftCall[d].pc # "idle" /\ ftCall[d].id = ftCall[c].id => d = c
  /\ \A id \in FtEver : id < ftNext
  /\ \A p \in ftParents : p[2] = 0 \/ p[2] \in FtEver

\* Events stored are known by their id; one that is still to be chained is the
\* event in its caller's hand.
FtEventsInv ==
  /\ \A i \in 1 .. Len(ftEvents) : ftEvents[i].id \in FtEver
  /\ \A i, j \in 1 .. Len(ftEvents) : ftEvents[i].id = ftEvents[j].id => i = j
  /\ \A c \in FtCallers, i \in 1 .. Len(ftEvents) :
       ftCall[c].pc # "idle" /\ ftEvents[i].id = ftCall[c].id => ftEvents[i].stage = ftCall[c].stage

\* Chains are made of stored events that no call has in hand, share none, and
\* know the furthest stage of their events.
FtChainsInv ==
  /\ \A i \in 1 .. Len(ftChains) : IsFiniteSet(ftChains[i].ids) /\ ftChains[i].ids \subseteq FtEver
  /\ \A c \in FtCallers, i \in 1 .. Len(ftChains) : ftCall[c].pc # "idle" => ftCall[c].id \notin ftChains[i].ids
  /\ \A i, j \in 1 .. Len(ftChains) : i # j => ftChains[i].ids \intersect ftChains[j].ids = {}
  /\ \A i \in 1 .. Len(ftChains), k \in 1 .. Len(ftEvents) :
       ftEvents[k].id \in ftChains[i].ids => ftEvents[k].stage <= ftChains[i].stage
  /\ \A i \in 1 .. Len(ftChains) : ftChains[i].multi => ftChains[i].stage >= 3 /\ Cardinality(ftChains[i].ids) >= 3

FtInv == FtTypes /\ FtLinksInv /\ FtCausalAcyclic /\ FtEventsInv /\ FtChainsInv

\* Every category and kind has a stage.
LEMMA FtStageType == \A what : FtStage(what) \in Nat
BY DEF FtStage, FtCategoryStage, FtKindStage

\* link_causal() finds an event that is stored, or none.
LEMMA FtParentStored ==
  ASSUME FtTypes, FtEventsInv, NEW ev PROVE FtParentOf(ev) \in {0} \cup FtEver /\ FtParentOf(ev) \in Nat
<1> DEFINE found == {i \in DOMAIN ftEvents : ftEvents[i].pid = ev.pid /\ ftEvents[i].id # ev.id
                                             /\ \A j \in (i + 1)..Len(ftEvents) : ev.when <= ftEvents[j].when + 1}
           k == CHOOSE i \in found : \A j \in found : j <= i
<1>1. found \subseteq 1 .. Len(ftEvents) /\ Len(ftEvents) \in Nat
  BY DEF FtTypes
<1>2. FtParentOf(ev) = IF ev.pid = 0 \/ found = {} THEN 0 ELSE ftEvents[k].id
  BY DEF FtParentOf
<1> HIDE DEF found
<1>3. found # {} => k \in found
  BY <1>1, GreatestOf
<1> HIDE DEF k
<1>4. found # {} => ftEvents[k].id \in FtEver /\ ftEvents[k] \in FtEvent
  BY <1>1, <1>3 DEF FtEventsInv, FtTypes
<1>5. found # {} => ftEvents[k].id \in Nat
  BY <1>4 DEF FtEvent
<1> QED BY <1>2, <1>4, <1>5

\* What update_chains() makes of the chains: one takes the event and keeps
\* what it has, or a new chain of it alone comes last.
LEMMA FtChainedMeaning ==
  ASSUME FtTypes, NEW ev \in FtEvent
  PROVE  \/ FtChained(ev) = ftChains
         \/ \E k \in 1 .. Len(ftChains), new \in FtChainRecord :
              /\ FtChained(ev) = [ftChains EXCEPT ![k] = new]
              /\ new.ids = ftChains[k].ids \union {ev.id} /\ new.stage = FtMaxOf(ftChains[k].stage, ev.stage)
              /\ new.multi = ftChains[k].multi
         \/ \E new \in FtChainRecord :
              /\ new = [ids |-> {ev.id}, stage |-> ev.stage, level |-> ev.level, multi |-> FALSE]
              /\ FtChained(ev) \in {Append(ftChains, new), Tail(Append(ftChains, new))}
<1> DEFINE holding == {i \in DOMAIN ftChains : ev.parent # 0 /\ ev.parent \in ftChains[i].ids}
           k == CHOOSE i \in holding : \A j \in holding : i <= j
           new == [ids |-> {ev.id}, stage |-> ev.stage, level |-> ev.level, multi |-> FALSE]
<1>1. holding \subseteq 1 .. Len(ftChains) /\ 1 .. Len(ftChains) \subseteq Nat
  BY DEF FtTypes
<1>2. holding # {} => k \in holding
  <2> HIDE DEF holding
  <2> QED BY <1>1, LeastOf
<1>3. new \in FtChainRecord
  BY DEF FtEvent, FtChainRecord
<1>4. CASE holding # {}
  <2> DEFINE wider == FtJoined(ftChains[k], ev)
  <2>1. FtChained(ev) = [ftChains EXCEPT ![k] = wider]
    BY <1>4 DEF FtChained
  <2>2. k \in 1 .. Len(ftChains)
    BY <1>1, <1>2, <1>4
  <2> HIDE DEF k
  <2>4. ftChains[k] \in FtChainRecord
    BY <2>2 DEF FtTypes
  <2>5. /\ wider \in FtChainRecord /\ wider.ids = ftChains[k].ids \union {ev.id}
        /\ wider.stage = FtMaxOf(ftChains[k].stage, ev.stage) /\ wider.multi = ftChains[k].multi
    BY <2>4 DEF FtChainRecord, FtEvent, FtMaxOf, FtJoined
  <2> HIDE DEF wider
  <2> QED BY <2>1, <2>2, <2>5
<1>5. CASE holding = {}
  <2>1. FtChained(ev) = ftChains \/ FtChained(ev) \in {Append(ftChains, new), Tail(Append(ftChains, new))}
    BY <1>5 DEF FtChained
  <2> HIDE DEF new, holding
  <2> QED BY <1>3, <2>1 DEF new
<1> QED BY <1>4, <1>5

\* The steps, with the calls they work on.
LEMMA FtKinds ==
  ASSUME [FtStep]_ftVars
  PROVE  \/ \E c \in FtCallers, report \in FtReports : FtIngest(c, report)
         \/ \E c \in FtCallers : FtLink(c)
         \/ \E c \in FtCallers : FtStore(c)
         \/ \E c \in FtCallers : FtChain(c)
         \/ FtDetect \/ FtTick \/ UNCHANGED ftVars
BY DEF FtStep

\* A call under way holds an event.
LEMMA FtCallHolds == ASSUME FtTypes, NEW c \in FtCallers, ftCall[c].pc # "idle" PROVE ftCall[c] \in FtEvent
BY DEF FtTypes, FtIdle

\* What detect_multi_stage() makes of a chain.
LEMMA FtDetected ==
  ASSUME FtTypes, FtDetect
  PROVE  /\ ftChains' \in Seq(FtChainRecord) /\ Len(ftChains') = Len(ftChains)
         /\ \A i \in 1 .. Len(ftChains) :
              /\ ftChains'[i].ids = ftChains[i].ids /\ ftChains'[i].stage = ftChains[i].stage
              /\ ftChains'[i].multi => ftChains[i].multi \/ Cardinality(FtStagesOf(ftChains[i])) >= 3
<1> DEFINE New(i) == [ftChains[i] EXCEPT !.multi = @ \/ Cardinality(FtStagesOf(ftChains[i])) >= 3]
<1>1. DOMAIN ftChains = 1 .. Len(ftChains) /\ Len(ftChains) \in Nat /\ \A i \in 1 .. Len(ftChains) : ftChains[i] \in FtChainRecord
  BY DEF FtTypes
<1>2. ftChains' = [i \in 1 .. Len(ftChains) |-> New(i)]
  BY <1>1 DEF FtDetect
<1>3. ASSUME NEW i \in 1 .. Len(ftChains)
      PROVE  /\ New(i) \in FtChainRecord /\ New(i).ids = ftChains[i].ids /\ New(i).stage = ftChains[i].stage
             /\ New(i).multi => ftChains[i].multi \/ Cardinality(FtStagesOf(ftChains[i])) >= 3
  <2>1. ftChains[i] \in FtChainRecord
    BY <1>1
  <2>2. PICK b \in BOOLEAN : b = (ftChains[i].multi \/ Cardinality(FtStagesOf(ftChains[i])) >= 3)
    OBVIOUS
  <2>3. New(i) = [ftChains[i] EXCEPT !.multi = b]
    BY <2>2
  <2> QED BY <2>1, <2>2, <2>3 DEF FtChainRecord
<1> HIDE DEF New
<1>4. ftChains' \in Seq(FtChainRecord) /\ Len(ftChains') = Len(ftChains)
  BY <1>1, <1>2, <1>3, SeqDef
<1> QED BY <1>2, <1>3, <1>4

\* The types are kept.
LEMMA FtTypesStep == FtTypes /\ FtEventsInv /\ [FtStep]_ftVars => FtTypes'
<1> SUFFICES ASSUME FtTypes, FtEventsInv, [FtStep]_ftVars PROVE FtTypes'
  OBVIOUS
<1>1. ASSUME NEW c \in FtCallers, NEW report \in FtReports, FtIngest(c, report) PROVE FtTypes'
  <2> DEFINE ev == [pc |-> "link", id |-> ftNext, pid |-> report.pid, stage |-> FtStage(report.what),
                    level |-> report.level, when |-> ftNow, parent |-> 0]
  <2>1. ev \in FtEvent
    <3>1. report.pid \in Nat /\ report.level \in Nat
      BY FtConstants
    <3>2. FtStage(report.what) \in Nat
      BY FtStageType
    <3> QED BY <3>1, <3>2 DEF FtEvent, FtTypes
  <2>2. ftCall' = [ftCall EXCEPT ![c] = ev]
    BY <1>1 DEF FtIngest
  <2> HIDE DEF ev
  <2> QED BY <1>1, <2>1, <2>2 DEF FtTypes, FtIngest
<1>2. ASSUME NEW c \in FtCallers, FtLink(c) PROVE FtTypes'
  <2> DEFINE ev == [ftCall[c] EXCEPT !.pc = "store", !.parent = FtParentOf(ftCall[c])]
  <2>1. ev \in FtEvent
    BY <1>2, FtCallHolds, FtParentStored DEF FtLink, FtEvent
  <2>2. ftCall' = [ftCall EXCEPT ![c] = ev]
    BY <1>2 DEF FtLink, FtTypes
  <2> HIDE DEF ev
  <2>3. UNCHANGED <<ftEvents, ftChains, ftNext, ftNow, ftParents>>
    BY <1>2 DEF FtLink
  <2> QED BY <2>1, <2>2, <2>3 DEF FtTypes
<1>3. ASSUME NEW c \in FtCallers, FtStore(c) PROVE FtTypes'
  <2>1. ftCall[c] \in FtEvent
    BY <1>3, FtCallHolds DEF FtStore
  <2>2. ftEvents' \in Seq(FtEvent)
    <3>1. PICK x \in FtEvent : ftEvents' \in {Append(ftEvents, x), Tail(Append(ftEvents, x))}
      BY <1>3, <2>1 DEF FtStore, FtStored
    <3>2. ftEvents \in Seq(FtEvent)
      BY DEF FtTypes
    <3> QED BY <3>1, <3>2, Rolled
  <2>3. [ftCall[c] EXCEPT !.pc = "chain"] \in FtEvent
    BY <2>1 DEF FtEvent
  <2>4. ftCall' \in [FtCallers -> FtEvent \cup {FtIdle}]
    BY <1>3, <2>3 DEF FtTypes, FtStore
  <2>5. \A p \in ftParents' : p = <<p[1], p[2]>> /\ p[1] \in Nat \ {0} /\ p[2] \in Nat
    <3>1. ftParents' = ftParents \union {<<ftCall[c].id, ftCall[c].parent>>}
      BY <1>3 DEF FtStore
    <3> QED BY <2>1, <3>1 DEF FtTypes, FtEvent
  <2> QED BY <1>3, <2>2, <2>4, <2>5 DEF FtTypes, FtStore
<1>4. ASSUME NEW c \in FtCallers, FtChain(c) PROVE FtTypes'
  <2>1. PICK ev \in FtEvent : ev = ftCall[c]
    BY <1>4, FtCallHolds DEF FtChain
  <2>2. ftChains' = FtChained(ev)
    BY <1>4, <2>1 DEF FtChain
  <2>3. ftChains' \in Seq(FtChainRecord)
    <3>1. CASE ftChains' = ftChains
      BY <3>1 DEF FtTypes
    <3>2. ASSUME NEW k \in 1 .. Len(ftChains), NEW new \in FtChainRecord, ftChains' = [ftChains EXCEPT ![k] = new]
          PROVE  ftChains' \in Seq(FtChainRecord)
      BY <3>2 DEF FtTypes
    <3>3. ASSUME NEW new \in FtChainRecord, ftChains' \in {Append(ftChains, new), Tail(Append(ftChains, new))}
          PROVE  ftChains' \in Seq(FtChainRecord)
      <4>1. ftChains \in Seq(FtChainRecord)
        BY DEF FtTypes
      <4> QED BY <3>3, <4>1, Rolled
    <3> QED BY <2>2, <3>1, <3>2, <3>3, FtChainedMeaning
  <2> QED BY <1>4, <2>3 DEF FtTypes, FtChain
<1>5. CASE FtDetect
  BY <1>5, FtDetected DEF FtDetect, FtTypes
<1>6. CASE FtTick \/ UNCHANGED ftVars
  BY <1>6 DEF FtTick, FtTypes, ftVars
<1> QED BY <1>1, <1>2, <1>3, <1>4, <1>5, <1>6, FtKinds

\* Storing an event adds its id to the ids stored.
LEMMA FtEverGrows ==
  ASSUME NEW id, NEW parent, ftParents' = ftParents \union {<<id, parent>>} PROVE FtEver' = FtEver \cup {id}
<1>1. FtEver' = {p[1] : p \in ftParents \union {<<id, parent>>}}
  BY DEF FtEver
<1>2. <<id, parent>>[1] = id
  OBVIOUS
<1>3. FtEver' \subseteq FtEver \cup {id}
  BY <1>1, <1>2 DEF FtEver
<1>4. FtEver \cup {id} \subseteq FtEver'
  BY <1>1, <1>2 DEF FtEver
<1> QED BY <1>3, <1>4

\* Ids are given once and links go to what is stored.
LEMMA FtLinksStep == FtTypes /\ FtLinksInv /\ FtEventsInv /\ [FtStep]_ftVars => FtLinksInv'
<1> SUFFICES ASSUME FtTypes, FtLinksInv, FtEventsInv, [FtStep]_ftVars PROVE FtLinksInv'
  OBVIOUS
<1>0. FtEver' = {p[1] : p \in ftParents'}
  BY DEF FtEver
<1>1. ASSUME NEW c \in FtCallers, NEW report \in FtReports, FtIngest(c, report) PROVE FtLinksInv'
  <2> DEFINE ev == [pc |-> "link", id |-> ftNext, pid |-> report.pid, stage |-> FtStage(report.what),
                    level |-> report.level, when |-> ftNow, parent |-> 0]
  <2>1. /\ ftCall' = [ftCall EXCEPT ![c] = ev] /\ ftNext' = ftNext + 1 /\ UNCHANGED ftParents
    BY <1>1 DEF FtIngest
  <2>2. ev.pc = "link" /\ ev.id = ftNext /\ ev.parent = 0
    OBVIOUS
  <2> HIDE DEF ev
  <2>3. \A d \in FtCallers : ftCall'[d] = IF d = c THEN ev ELSE ftCall[d]
    BY <2>1 DEF FtTypes
  <2>4. FtEver' = FtEver /\ \A id \in FtEver : id < ftNext /\ id \in Nat
    BY <2>1 DEF FtEver, FtLinksInv, FtTypes
  <2>5. \A d \in FtCallers : ftCall[d].pc # "idle" => ftCall[d].id \in Nat /\ ftCall[d].id < ftNext
    BY FtCallHolds DEF FtLinksInv, FtEvent
  <2>6. ftNext \in Nat
    BY DEF FtTypes
  <2> QED BY <2>1, <2>2, <2>3, <2>4, <2>5, <2>6 DEF FtLinksInv
<1>2. ASSUME NEW c \in FtCallers, FtLink(c) PROVE FtLinksInv'
  <2> DEFINE ev == [ftCall[c] EXCEPT !.pc = "store", !.parent = FtParentOf(ftCall[c])]
  <2>1. ftCall' = [ftCall EXCEPT ![c] = ev] /\ UNCHANGED <<ftNext, ftParents>> /\ ftCall[c].pc = "link"
    BY <1>2 DEF FtLink, FtTypes
  <2>2. ev.pc = "store" /\ ev.id = ftCall[c].id /\ (ev.parent = 0 \/ ev.parent \in FtEver)
    BY <2>1, FtCallHolds, FtParentStored DEF FtEvent
  <2> HIDE DEF ev
  <2>3. \A d \in FtCallers : ftCall'[d] = IF d = c THEN ev ELSE ftCall[d]
    BY <2>1 DEF FtTypes
  <2>4. FtEver' = FtEver
    BY <2>1 DEF FtEver
  <2> QED BY <2>1, <2>2, <2>3, <2>4 DEF FtLinksInv
<1>3. ASSUME NEW c \in FtCallers, FtStore(c) PROVE FtLinksInv'
  <2> DEFINE ev == [ftCall[c] EXCEPT !.pc = "chain"]
  <2>1. /\ ftCall' = [ftCall EXCEPT ![c] = ev] /\ UNCHANGED ftNext /\ ftCall[c].pc = "store"
        /\ ftParents' = ftParents \union {<<ftCall[c].id, ftCall[c].parent>>}
    BY <1>3 DEF FtStore, FtTypes
  <2>2. ev.pc = "chain" /\ ev.id = ftCall[c].id /\ ev.parent = ftCall[c].parent
    BY <2>1, FtCallHolds DEF FtEvent
  <2> HIDE DEF ev
  <2>3. \A d \in FtCallers : ftCall'[d] = IF d = c THEN ev ELSE ftCall[d]
    BY <2>1 DEF FtTypes
  <2>4. FtEver' = FtEver \cup {ftCall[c].id}
    BY <2>1, FtEverGrows
  <2>5. \A p \in ftParents' : p \in ftParents \/ p[2] = ftCall[c].parent
    BY <2>1
  <2> QED BY <2>1, <2>2, <2>3, <2>4, <2>5 DEF FtLinksInv
<1>4. ASSUME NEW c \in FtCallers, FtChain(c) PROVE FtLinksInv'
  <2>1. ftCall' = [ftCall EXCEPT ![c] = FtIdle] /\ UNCHANGED <<ftNext, ftParents>>
    BY <1>4 DEF FtChain
  <2>2. \A d \in FtCallers : ftCall'[d] = IF d = c THEN FtIdle ELSE ftCall[d]
    BY <2>1 DEF FtTypes
  <2>3. FtEver' = FtEver /\ FtIdle.pc = "idle"
    BY <2>1 DEF FtEver, FtIdle
  <2> QED BY <2>1, <2>2, <2>3 DEF FtLinksInv
<1>5. CASE FtDetect \/ FtTick \/ UNCHANGED ftVars
  <2>1. UNCHANGED <<ftCall, ftNext, ftParents>>
    BY <1>5 DEF FtDetect, FtTick, ftVars
  <2> QED BY <2>1 DEF FtLinksInv, FtEver
<1> QED BY <1>1, <1>2, <1>3, <1>4, <1>5, FtKinds

\* A new link starts at an id that nothing leads to yet, so it closes no cycle.
LEMMA FtAcyclicStep == FtTypes /\ FtLinksInv /\ FtCausalAcyclic /\ [FtStep]_ftVars => FtCausalAcyclic'
<1> SUFFICES ASSUME FtTypes, FtLinksInv, FtCausalAcyclic, [FtStep]_ftVars PROVE FtCausalAcyclic'
  OBVIOUS
<1>1. CASE UNCHANGED ftParents
  BY <1>1 DEF FtCausalAcyclic
<1>2. ASSUME NEW c \in FtCallers, FtStore(c) PROVE FtCausalAcyclic'
  <2>1. PICK id, parent : id = ftCall[c].id /\ parent = ftCall[c].parent
    OBVIOUS
  <2>2. ftParents' = ftParents \union {<<id, parent>>} /\ ftCall[c].pc = "store"
    BY <1>2, <2>1 DEF FtStore
  <2>3. /\ id \notin FtEver /\ (parent = 0 \/ parent \in FtEver) /\ id \in Nat \ {0}
        /\ \A p \in ftParents : p[1] \in FtEver /\ (p[2] = 0 \/ p[2] \in FtEver)
    BY <2>1, <2>2, FtCallHolds DEF FtLinksInv, FtEver, FtEvent
  <2>4. id # parent /\ \A p \in ftParents : p[1] # id /\ p[2] # id
    BY <2>3
  <2>5. \A p \in ftParents' : p \in ftParents \/ (p[1] = id /\ p[2] = parent)
    BY <2>2
  <2>6. {p[1] : p \in ftParents'} = FtEver \cup {id}
    BY <2>2, FtEverGrows DEF FtEver
  <2> SUFFICES ASSUME NEW s \in SUBSET (FtEver \cup {id}), s # {}
               PROVE  \E i \in s : \A p \in ftParents' : p[1] = i => p[2] \notin s
    BY <2>6 DEF FtCausalAcyclic
  <2>7. CASE s \ {id} = {}
    BY <2>4, <2>5, <2>7
  <2>8. CASE s \ {id} # {}
    <3>1. s \ {id} \in SUBSET {p[1] : p \in ftParents}
      BY DEF FtEver
    <3>2. PICK i \in s \ {id} : \A p \in ftParents : p[1] = i => p[2] \notin s \ {id}
      BY <2>8, <3>1 DEF FtCausalAcyclic
    <3> QED BY <2>4, <2>5, <3>2
  <2> QED BY <2>7, <2>8
<1>3. UNCHANGED ftParents \/ \E c \in FtCallers : FtStore(c)
  BY FtKinds DEF FtIngest, FtLink, FtChain, FtDetect, FtTick, ftVars
<1> QED BY <1>1, <1>2, <1>3

\* Events in the log differ in their ids, and agree with the call in hand.
LEMMA FtEventsStep == FtTypes /\ FtLinksInv /\ FtEventsInv /\ [FtStep]_ftVars => FtEventsInv'
<1> SUFFICES ASSUME FtTypes, FtLinksInv, FtEventsInv, [FtStep]_ftVars PROVE FtEventsInv'
  OBVIOUS
<1>1. ASSUME NEW c \in FtCallers, NEW report \in FtReports, FtIngest(c, report) PROVE FtEventsInv'
  <2> DEFINE ev == [pc |-> "link", id |-> ftNext, pid |-> report.pid, stage |-> FtStage(report.what),
                    level |-> report.level, when |-> ftNow, parent |-> 0]
  <2>1. ftCall' = [ftCall EXCEPT ![c] = ev] /\ UNCHANGED <<ftParents, ftEvents>>
    BY <1>1 DEF FtIngest
  <2>2. ev.id = ftNext
    OBVIOUS
  <2> HIDE DEF ev
  <2>3. \A d \in FtCallers : ftCall'[d] = IF d = c THEN ev ELSE ftCall[d]
    BY <2>1 DEF FtTypes
  <2>4. FtEver' = FtEver /\ \A id \in FtEver : id # ftNext
    <3>1. \A id \in FtEver : id < ftNext /\ id \in Nat /\ ftNext \in Nat
      BY DEF FtEver, FtLinksInv, FtTypes
    <3>2. FtEver' = FtEver
      BY <2>1 DEF FtEver
    <3> QED BY <3>1, <3>2
  <2> QED BY <2>1, <2>2, <2>3, <2>4 DEF FtEventsInv
<1>2. ASSUME NEW c \in FtCallers, FtLink(c) PROVE FtEventsInv'
  <2> DEFINE ev == [ftCall[c] EXCEPT !.pc = "store", !.parent = FtParentOf(ftCall[c])]
  <2>1. ftCall' = [ftCall EXCEPT ![c] = ev] /\ UNCHANGED <<ftParents, ftEvents>> /\ ftCall[c].pc = "link"
    BY <1>2 DEF FtLink, FtTypes
  <2>2. ev.id = ftCall[c].id /\ ev.stage = ftCall[c].stage
    BY <2>1, FtCallHolds DEF FtEvent
  <2> HIDE DEF ev
  <2>3. \A d \in FtCallers : ftCall'[d] = IF d = c THEN ev ELSE ftCall[d]
    BY <2>1 DEF FtTypes
  <2>4. FtEver' = FtEver
    BY <2>1 DEF FtEver
  <2> QED BY <2>1, <2>2, <2>3, <2>4 DEF FtEventsInv
<1>3. ASSUME NEW c \in FtCallers, FtStore(c) PROVE FtEventsInv'
  <2>1. PICK x \in FtEvent : x = ftCall[c]
    BY <1>3, FtCallHolds DEF FtStore
  <2> DEFINE ev == [x EXCEPT !.pc = "chain"]
  <2>2. /\ ftCall' = [ftCall EXCEPT ![c] = ev] /\ ftCall[c].pc = "store"
        /\ ftParents' = ftParents \union {<<x.id, x.parent>>}
        /\ ftEvents' \in {Append(ftEvents, x), Tail(Append(ftEvents, x))}
    BY <1>3, <2>1 DEF FtStore, FtTypes, FtStored
  <2>3. ev.id = x.id /\ ev.stage = x.stage /\ ev.pc = "chain"
    BY DEF FtEvent
  <2> HIDE DEF ev
  <2>4. \A d \in FtCallers : ftCall'[d] = IF d = c THEN ev ELSE ftCall[d]
    BY <2>2 DEF FtTypes
  <2>5. FtEver' = FtEver \cup {x.id} /\ x.id \notin FtEver
    BY <2>1, <2>2, FtEverGrows DEF FtLinksInv
  <2>6. PICK k \in {0, 1} :
          /\ Len(ftEvents') = Len(ftEvents) + 1 - k
          /\ \A i \in 1 .. Len(ftEvents') : \/ i + k = Len(ftEvents) + 1 /\ ftEvents'[i] = x
                                            \/ i + k \in 1 .. Len(ftEvents) /\ ftEvents'[i] = ftEvents[i + k]
    <3>1. ftEvents \in Seq(FtEvent)
      BY DEF FtTypes
    <3>2. \E d \in {0, 1} : Shifted(ftEvents, x, ftEvents', d)
      BY <2>2, <3>1, Rolled
    <3> QED BY <3>2 DEF Shifted
  <2>7. \A i, j \in 1 .. Len(ftEvents') : i + k = j + k => i = j
    OBVIOUS
  <2>8. \A i \in 1 .. Len(ftEvents') : ftEvents'[i].id \in FtEver'
    BY <2>5, <2>6 DEF FtEventsInv
  <2>9. \A i, j \in 1 .. Len(ftEvents') : ftEvents'[i].id = ftEvents'[j].id => i = j
    <3>1. SUFFICES ASSUME NEW i \in 1 .. Len(ftEvents'), NEW j \in 1 .. Len(ftEvents'), ftEvents'[i].id = ftEvents'[j].id
                   PROVE  i + k = j + k
      BY <2>7
    <3>2. \A m \in 1 .. Len(ftEvents) : ftEvents[m].id # x.id
      BY <2>5 DEF FtEventsInv
    <3>3. /\ \/ i + k = Len(ftEvents) + 1 /\ ftEvents'[i] = x
             \/ i + k \in 1 .. Len(ftEvents) /\ ftEvents'[i] = ftEvents[i + k]
          /\ \/ j + k = Len(ftEvents) + 1 /\ ftEvents'[j] = x
             \/ j + k \in 1 .. Len(ftEvents) /\ ftEvents'[j] = ftEvents[j + k]
      BY <2>6
    <3>4. \A m, n \in 1 .. Len(ftEvents) : ftEvents[m].id = ftEvents[n].id => m = n
      BY DEF FtEventsInv
    <3> QED BY <3>1, <3>2, <3>3, <3>4
  <2>10. ASSUME NEW d \in FtCallers, NEW i \in 1 .. Len(ftEvents'), ftCall'[d].pc # "idle", ftEvents'[i].id = ftCall'[d].id
         PROVE  ftEvents'[i].stage = ftCall'[d].stage
    <3>1. CASE d = c
      BY <2>3, <2>4, <2>5, <2>6, <2>10, <3>1 DEF FtEventsInv
    <3>2. CASE d # c
      <4>1. ftCall'[d] = ftCall[d] /\ ftCall[d].id # x.id
        BY <2>1, <2>2, <2>4, <2>10, <3>2 DEF FtLinksInv
      <4>2. \/ ftEvents'[i] = x
            \/ i + k \in 1 .. Len(ftEvents) /\ ftEvents'[i] = ftEvents[i + k]
        BY <2>6
      <4> QED BY <2>10, <4>1, <4>2 DEF FtEventsInv
    <3> QED BY <3>1, <3>2
  <2> QED BY <2>8, <2>9, <2>10 DEF FtEventsInv
<1>4. ASSUME NEW c \in FtCallers, FtChain(c) PROVE FtEventsInv'
  <2>1. ftCall' = [ftCall EXCEPT ![c] = FtIdle] /\ UNCHANGED <<ftParents, ftEvents>>
    BY <1>4 DEF FtChain
  <2>2. \A d \in FtCallers : ftCall'[d] = IF d = c THEN FtIdle ELSE ftCall[d]
    BY <2>1 DEF FtTypes
  <2>3. FtEver' = FtEver /\ FtIdle.pc = "idle"
    BY <2>1 DEF FtEver, FtIdle
  <2> QED BY <2>1, <2>2, <2>3 DEF FtEventsInv
<1>5. CASE FtDetect \/ FtTick \/ UNCHANGED ftVars
  <2>1. UNCHANGED <<ftCall, ftParents, ftEvents>>
    BY <1>5 DEF FtDetect, FtTick, ftVars
  <2> QED BY <2>1 DEF FtEventsInv, FtEver
<1> QED BY <1>1, <1>2, <1>3, <1>4, <1>5, FtKinds

\* Three stages among the events of a chain need three events, and the
\* furthest of them is at least the third.
LEMMA FtThreeStages ==
  ASSUME FtTypes, FtEventsInv, FtChainsInv, NEW k \in 1 .. Len(ftChains), Cardinality(FtStagesOf(ftChains[k])) >= 3
  PROVE  ftChains[k].stage >= 3 /\ Cardinality(ftChains[k].ids) >= 3
<1>1. PICK chain \in FtChainRecord : chain = ftChains[k]
  BY DEF FtTypes
<1> DEFINE stages == FtStagesOf(chain)
           ids == chain.ids
           Of(s) == CHOOSE i \in 1 .. Len(ftEvents) : ftEvents[i].id \in ids /\ ftEvents[i].stage = s
           f == [s \in stages |-> ftEvents[Of(s)].id]
<1>2. /\ chain.stage \in Nat /\ IsFiniteSet(ids) /\ \A i \in 1 .. Len(ftEvents) : ftEvents[i] \in FtEvent
      /\ \A i \in 1 .. Len(ftEvents) : ftEvents[i].id \in ids => ftEvents[i].stage <= chain.stage
  BY <1>1 DEF FtChainsInv, FtTypes, FtChainRecord
<1>3. \A s \in stages : s # 0 /\ \E i \in 1 .. Len(ftEvents) : ftEvents[i].id \in ids /\ ftEvents[i].stage = s
  BY DEF FtStagesOf, FtTypes
<1>4. stages \in SUBSET (1 .. chain.stage)
  <2>1. \A i \in 1 .. Len(ftEvents) : ftEvents[i].stage \in Nat
    BY <1>2 DEF FtEvent
  <2>2. \A s \in stages : s \in Nat /\ s # 0 /\ s <= chain.stage
    BY <1>2, <1>3, <2>1
  <2> QED BY <1>2, <2>2
<1>5. chain.stage >= 3
  <2>1. 1 \in Int /\ chain.stage \in Int
    BY <1>2
  <2>2. IsFiniteSet(1 .. chain.stage) /\ Cardinality(1 .. chain.stage) = chain.stage
    <3>1. PICK n \in Nat : n = chain.stage
      BY <1>2
    <3>2. IsFiniteSet(1 .. n) /\ Cardinality(1 .. n) = IF 1 > n THEN 0 ELSE n - 1 + 1
      BY <2>1, <3>1, FS_Interval
    <3>3. (IF 1 > n THEN 0 ELSE n - 1 + 1) = n
      OBVIOUS
    <3> QED BY <3>1, <3>2, <3>3
  <2>3. Cardinality(stages) <= chain.stage /\ IsFiniteSet(stages)
    BY <1>4, <2>2, FS_Subset
  <2>4. Cardinality(stages) \in Nat /\ Cardinality(stages) >= 3
    BY <1>1, <2>3, FS_CardinalityType
  <2> HIDE DEF stages
  <2> QED BY <1>2, <2>3, <2>4
<1>6. \A s \in stages : Of(s) \in 1 .. Len(ftEvents) /\ ftEvents[Of(s)].id \in ids /\ ftEvents[Of(s)].stage = s
  <2> HIDE DEF stages
  <2> QED BY <1>3
<1>7. f \in Injection(stages, ids)
  <2>1. f \in [stages -> ids]
    BY <1>6
  <2>2. \A s, t \in stages : f[s] = f[t] => s = t
    <3> HIDE DEF Of, stages
    <3>1. \A s \in stages : f[s] = ftEvents[Of(s)].id
      OBVIOUS
    <3> QED BY <1>6, <3>1 DEF FtEventsInv
  <2> HIDE DEF f, stages
  <2> QED BY <2>1, <2>2 DEF Injection, IsInjective
<1>8. Cardinality(stages) <= Cardinality(ids) /\ IsFiniteSet(stages)
  <2> HIDE DEF f, stages
  <2> QED BY <1>2, <1>7, FS_Injection
<1>9. Cardinality(stages) \in Nat /\ Cardinality(ids) \in Nat /\ Cardinality(stages) >= 3
  BY <1>1, <1>2, <1>8, FS_CardinalityType
<1>10. Cardinality(ids) >= 3
  <2> HIDE DEF stages
  <2> QED BY <1>8, <1>9
<1> QED BY <1>1, <1>5, <1>10

\* Chains stay apart, know the furthest stage of their events, and are called
\* multi-stage for three stages only.
LEMMA FtChainsStep == FtTypes /\ FtLinksInv /\ FtEventsInv /\ FtChainsInv /\ [FtStep]_ftVars => FtChainsInv'
<1> SUFFICES ASSUME FtTypes, FtLinksInv, FtEventsInv, FtChainsInv, [FtStep]_ftVars PROVE FtChainsInv'
  OBVIOUS
<1>1. ASSUME NEW c \in FtCallers, NEW report \in FtReports, FtIngest(c, report) PROVE FtChainsInv'
  <2> DEFINE ev == [pc |-> "link", id |-> ftNext, pid |-> report.pid, stage |-> FtStage(report.what),
                    level |-> report.level, when |-> ftNow, parent |-> 0]
  <2>1. ftCall' = [ftCall EXCEPT ![c] = ev] /\ UNCHANGED <<ftParents, ftEvents, ftChains>>
    BY <1>1 DEF FtIngest
  <2>2. ev.id = ftNext
    OBVIOUS
  <2> HIDE DEF ev
  <2>3. \A d \in FtCallers : ftCall'[d] = IF d = c THEN ev ELSE ftCall[d]
    BY <2>1 DEF FtTypes
  <2>4. FtEver' = FtEver
    BY <2>1 DEF FtEver
  <2>5. \A id \in FtEver : id # ftNext
    <3>1. \A id \in FtEver : id < ftNext /\ id \in Nat /\ ftNext \in Nat
      BY DEF FtEver, FtLinksInv, FtTypes
    <3> QED BY <3>1
  <2> QED BY <2>1, <2>2, <2>3, <2>4, <2>5 DEF FtChainsInv
<1>2. ASSUME NEW c \in FtCallers, FtLink(c) PROVE FtChainsInv'
  <2> DEFINE ev == [ftCall[c] EXCEPT !.pc = "store", !.parent = FtParentOf(ftCall[c])]
  <2>1. ftCall' = [ftCall EXCEPT ![c] = ev] /\ UNCHANGED <<ftParents, ftEvents, ftChains>> /\ ftCall[c].pc = "link"
    BY <1>2 DEF FtLink, FtTypes
  <2>2. ev.id = ftCall[c].id
    BY <2>1, FtCallHolds DEF FtEvent
  <2> HIDE DEF ev
  <2>3. \A d \in FtCallers : ftCall'[d] = IF d = c THEN ev ELSE ftCall[d]
    BY <2>1 DEF FtTypes
  <2>4. FtEver' = FtEver
    BY <2>1 DEF FtEver
  <2> QED BY <2>1, <2>2, <2>3, <2>4 DEF FtChainsInv
<1>3. ASSUME NEW c \in FtCallers, FtStore(c) PROVE FtChainsInv'
  <2>1. PICK x \in FtEvent : x = ftCall[c]
    BY <1>3, FtCallHolds DEF FtStore
  <2> DEFINE ev == [x EXCEPT !.pc = "chain"]
  <2>2. /\ ftCall' = [ftCall EXCEPT ![c] = ev] /\ ftCall[c].pc = "store" /\ UNCHANGED ftChains
        /\ ftParents' = ftParents \union {<<x.id, x.parent>>}
        /\ ftEvents' \in {Append(ftEvents, x), Tail(Append(ftEvents, x))}
    BY <1>3, <2>1 DEF FtStore, FtTypes, FtStored
  <2>3. ev.id = x.id
    BY DEF FtEvent
  <2> HIDE DEF ev
  <2>4. \A d \in FtCallers : ftCall'[d] = IF d = c THEN ev ELSE ftCall[d]
    BY <2>2 DEF FtTypes
  <2>5. FtEver' = FtEver \cup {x.id}
    BY <2>2, FtEverGrows
  <2>6. \A i \in 1 .. Len(ftChains) : x.id \notin ftChains[i].ids
    BY <2>1, <2>2 DEF FtChainsInv
  <2>7. \A k \in 1 .. Len(ftEvents') : ftEvents'[k] = x \/ \E j \in 1 .. Len(ftEvents) : ftEvents'[k] = ftEvents[j]
    <3>1. ftEvents \in Seq(FtEvent)
      BY DEF FtTypes
    <3>2. \E d \in {0, 1} : Shifted(ftEvents, x, ftEvents', d)
      BY <2>2, <3>1, Rolled
    <3> QED BY <3>2 DEF Shifted
  <2>8. \A i \in 1 .. Len(ftChains), k \in 1 .. Len(ftEvents') :
          ftEvents'[k].id \in ftChains[i].ids => ftEvents'[k].stage <= ftChains[i].stage
    BY <2>6, <2>7 DEF FtChainsInv
  <2>9. \A d \in FtCallers, i \in 1 .. Len(ftChains) : ftCall'[d].pc # "idle" => ftCall'[d].id \notin ftChains[i].ids
    BY <2>3, <2>4, <2>6 DEF FtChainsInv
  <2> QED BY <2>2, <2>5, <2>8, <2>9 DEF FtChainsInv
<1>4. ASSUME NEW c \in FtCallers, FtChain(c) PROVE FtChainsInv'
  <2>1. PICK ev \in FtEvent : ev = ftCall[c]
    BY <1>4, FtCallHolds DEF FtChain
  <2>2. /\ ftChains' = FtChained(ev) /\ ftCall[c].pc = "chain" /\ ftCall' = [ftCall EXCEPT ![c] = FtIdle]
        /\ UNCHANGED <<ftEvents, ftParents>>
    BY <1>4, <2>1 DEF FtChain
  <2>3. \A d \in FtCallers : ftCall'[d] = IF d = c THEN FtIdle ELSE ftCall[d]
    BY <2>2 DEF FtTypes
  <2>4. FtEver' = FtEver /\ FtIdle.pc = "idle"
    BY <2>2 DEF FtEver, FtIdle
  <2>5. /\ ev.id \in FtEver
        /\ \A d \in FtCallers : ftCall'[d].pc # "idle" => ftCall'[d] = ftCall[d] /\ ftCall'[d].id # ev.id
        /\ \A i \in 1 .. Len(ftChains) : ev.id \notin ftChains[i].ids
        /\ \A k \in 1 .. Len(ftEvents) : ftEvents[k].id = ev.id => ftEvents[k].stage = ev.stage
    BY <2>1, <2>2, <2>3, <2>4 DEF FtLinksInv, FtChainsInv, FtEventsInv
  <2>6. ev.stage \in Nat /\ (\A i \in 1 .. Len(ftChains) : ftChains[i].stage \in Nat) /\ \A k \in 1 .. Len(ftEvents) : ftEvents[k].stage \in Nat
    <3>1. \A i \in 1 .. Len(ftChains) : ftChains[i] \in FtChainRecord
      BY DEF FtTypes
    <3>2. \A k \in 1 .. Len(ftEvents) : ftEvents[k] \in FtEvent
      BY DEF FtTypes
    <3> QED BY <3>1, <3>2 DEF FtChainRecord, FtEvent
  <2>7. CASE ftChains' = ftChains
    BY <2>2, <2>4, <2>5, <2>7 DEF FtChainsInv
  <2>8. ASSUME NEW k \in 1 .. Len(ftChains), NEW new \in FtChainRecord,
               ftChains' = [ftChains EXCEPT ![k] = new], new.ids = ftChains[k].ids \union {ev.id},
               new.stage = FtMaxOf(ftChains[k].stage, ev.stage), new.multi = ftChains[k].multi
        PROVE  FtChainsInv'
    <3>1. Len(ftChains') = Len(ftChains) /\ \A i \in 1 .. Len(ftChains) : ftChains'[i] = IF i = k THEN new ELSE ftChains[i]
      BY <2>8 DEF FtTypes
    <3>2. /\ new.stage \in Nat /\ ftChains[k].stage \in Nat /\ ev.stage \in Nat
          /\ new.stage >= ftChains[k].stage /\ new.stage >= ev.stage
      BY <2>6, <2>8 DEF FtMaxOf
    <3>3. /\ IsFiniteSet(new.ids) /\ Cardinality(ftChains[k].ids) \in Nat
          /\ Cardinality(new.ids) = Cardinality(ftChains[k].ids) + 1
      <4>1. PICK ids : ids = ftChains[k].ids
        OBVIOUS
      <4>2. IsFiniteSet(ids) /\ ev.id \notin ids /\ new.ids = ids \union {ev.id}
        BY <2>5, <2>8, <4>1 DEF FtChainsInv
      <4>3. IsFiniteSet(ids \union {ev.id}) /\ Cardinality(ids \union {ev.id}) = Cardinality(ids) + 1 /\ Cardinality(ids) \in Nat
        BY <4>2, FS_AddElement, FS_CardinalityType
      <4> QED BY <4>1, <4>2, <4>3
    <3>4. \A i \in 1 .. Len(ftChains') : IsFiniteSet(ftChains'[i].ids) /\ ftChains'[i].ids \subseteq FtEver
      <4>1. new.ids \subseteq FtEver
        BY <2>5, <2>8 DEF FtChainsInv
      <4> QED BY <3>1, <3>3, <4>1 DEF FtChainsInv
    <3>5. \A d \in FtCallers, i \in 1 .. Len(ftChains') : ftCall'[d].pc # "idle" => ftCall'[d].id \notin ftChains'[i].ids
      BY <2>5, <2>8, <3>1 DEF FtChainsInv
    <3>6. \A i, j \in 1 .. Len(ftChains') : i # j => ftChains'[i].ids \intersect ftChains'[j].ids = {}
      BY <2>5, <2>8, <3>1 DEF FtChainsInv
    <3>7. \A i \in 1 .. Len(ftChains'), m \in 1 .. Len(ftEvents) :
            ftEvents[m].id \in ftChains'[i].ids => ftEvents[m].stage <= ftChains'[i].stage
      <4> SUFFICES ASSUME NEW i \in 1 .. Len(ftChains'), NEW m \in 1 .. Len(ftEvents), ftEvents[m].id \in ftChains'[i].ids
                   PROVE  ftEvents[m].stage <= ftChains'[i].stage
        OBVIOUS
      <4>1. CASE i # k
        BY <3>1, <4>1 DEF FtChainsInv
      <4>2. CASE i = k
        <5>1. ftEvents[m].stage <= ftChains[k].stage \/ ftEvents[m].stage = ev.stage
          BY <2>5, <2>8, <3>1, <4>2 DEF FtChainsInv
        <5> QED BY <2>6, <3>1, <3>2, <4>2, <5>1
      <4> QED BY <4>1, <4>2
    <3>8. \A i \in 1 .. Len(ftChains') : ftChains'[i].multi => ftChains'[i].stage >= 3 /\ Cardinality(ftChains'[i].ids) >= 3
      <4> SUFFICES ASSUME NEW i \in 1 .. Len(ftChains'), ftChains'[i].multi
                   PROVE  ftChains'[i].stage >= 3 /\ Cardinality(ftChains'[i].ids) >= 3
        OBVIOUS
      <4>1. CASE i # k
        BY <3>1, <4>1 DEF FtChainsInv
      <4>2. CASE i = k
        <5>1. ftChains[k].stage >= 3 /\ Cardinality(ftChains[k].ids) >= 3
          BY <2>8, <3>1, <4>2 DEF FtChainsInv
        <5> QED BY <3>1, <3>2, <3>3, <4>2, <5>1
      <4> QED BY <4>1, <4>2
    <3> QED BY <2>2, <2>4, <3>4, <3>5, <3>6, <3>7, <3>8 DEF FtChainsInv
  <2>9. ASSUME NEW new \in FtChainRecord,
               new = [ids |-> {ev.id}, stage |-> ev.stage, level |-> ev.level, multi |-> FALSE],
               ftChains' \in {Append(ftChains, new), Tail(Append(ftChains, new))}
        PROVE  FtChainsInv'
    <3>1. ftChains \in Seq(FtChainRecord)
      BY DEF FtTypes
    <3>2. PICK d \in {0, 1} : Shifted(ftChains, new, ftChains', d)
      BY <2>9, <3>1, Rolled
    <3>3. \A i \in 1 .. Len(ftChains') : \/ i + d = Len(ftChains) + 1 /\ ftChains'[i] = new
                                         \/ i + d \in 1 .. Len(ftChains) /\ ftChains'[i] = ftChains[i + d]
      BY <3>2 DEF Shifted
    <3>4. new.ids = {ev.id} /\ new.stage = ev.stage /\ ~new.multi /\ IsFiniteSet(new.ids)
      BY <2>9, FS_Singleton
    <3>5. \A i, j \in 1 .. Len(ftChains') : i + d = j + d => i = j
      OBVIOUS
    <3>6. \A i \in 1 .. Len(ftChains') : IsFiniteSet(ftChains'[i].ids) /\ ftChains'[i].ids \subseteq FtEver
      BY <2>5, <3>3, <3>4 DEF FtChainsInv
    <3>7. \A g \in FtCallers, i \in 1 .. Len(ftChains') : ftCall'[g].pc # "idle" => ftCall'[g].id \notin ftChains'[i].ids
      BY <2>5, <3>3, <3>4 DEF FtChainsInv
    <3>8. \A i, j \in 1 .. Len(ftChains') : i # j => ftChains'[i].ids \intersect ftChains'[j].ids = {}
      <4>1. \A i, j \in 1 .. Len(ftChains') : i + d # j + d => ftChains'[i].ids \intersect ftChains'[j].ids = {}
        BY SMTT(20), <2>5, <3>3, <3>4 DEF FtChainsInv
      <4> QED BY <3>5, <4>1
    <3>9. \A i \in 1 .. Len(ftChains'), m \in 1 .. Len(ftEvents) :
            ftEvents[m].id \in ftChains'[i].ids => ftEvents[m].stage <= ftChains'[i].stage
      BY <2>5, <2>6, <3>3, <3>4 DEF FtChainsInv
    <3>10. \A i \in 1 .. Len(ftChains') : ftChains'[i].multi => ftChains'[i].stage >= 3 /\ Cardinality(ftChains'[i].ids) >= 3
      BY <3>3, <3>4 DEF FtChainsInv
    <3> QED BY <2>2, <2>4, <3>6, <3>7, <3>8, <3>9, <3>10 DEF FtChainsInv
  <2> QED BY <2>2, <2>7, <2>8, <2>9, FtChainedMeaning
<1>5. CASE FtDetect
  <2>1. UNCHANGED <<ftCall, ftParents, ftEvents>> /\ FtEver' = FtEver
    BY <1>5 DEF FtDetect, FtEver
  <2>2. /\ Len(ftChains') = Len(ftChains)
        /\ \A i \in 1 .. Len(ftChains) :
              /\ ftChains'[i].ids = ftChains[i].ids /\ ftChains'[i].stage = ftChains[i].stage
              /\ ftChains'[i].multi => ftChains[i].multi \/ Cardinality(FtStagesOf(ftChains[i])) >= 3
    BY <1>5, FtDetected
  <2>3. \A i \in 1 .. Len(ftChains') : ftChains'[i].multi => ftChains'[i].stage >= 3 /\ Cardinality(ftChains'[i].ids) >= 3
    BY <2>2, FtThreeStages DEF FtChainsInv
  <2> QED BY <2>1, <2>2, <2>3 DEF FtChainsInv
<1>6. CASE FtTick \/ UNCHANGED ftVars
  <2>1. UNCHANGED <<ftCall, ftParents, ftEvents, ftChains>>
    BY <1>6 DEF FtTick, ftVars
  <2> QED BY <2>1 DEF FtChainsInv, FtEver
<1> QED BY <1>1, <1>2, <1>3, <1>4, <1>5, <1>6, FtKinds

\* The invariant of the timeline holds for every number of callers and every
\* size of the log: ids are given once, links go to events stored before,
\* chains stay apart.
THEOREM TimelineInvariant == FtSpec => []FtInv
<1>1. FtInit => FtInv
  <2> SUFFICES ASSUME FtInit PROVE FtInv
    OBVIOUS
  <2>1. FtTypes
    BY DEF FtInit, FtTypes
  <2>2. FtEver = {} /\ \A c \in FtCallers : ftCall[c].pc = "idle"
    BY DEF FtInit, FtEver, FtIdle
  <2>3. FtLinksInv /\ FtEventsInv /\ FtChainsInv
    BY <2>2 DEF FtInit, FtLinksInv, FtEventsInv, FtChainsInv
  <2>4. FtCausalAcyclic
    BY DEF FtInit, FtCausalAcyclic
  <2> QED BY <2>1, <2>3, <2>4 DEF FtInv
<1>2. FtInv /\ [FtStep]_ftVars => FtInv'
  BY FtTypesStep, FtLinksStep, FtAcyclicStep, FtEventsStep, FtChainsStep DEF FtInv
<1> QED BY <1>1, <1>2, PTL DEF FtSpec

\* However ingests of the threat callback and of the observation sink overlap:
\* following causal parents never comes back to an event, an event is in one
\* chain only, and a chain alarmed as multi-stage went through three stages.
THEOREM TimelineIsCausal == FtSpec => []TimelineCausal
<1>1. FtInv => TimelineCausal
  <2> SUFFICES ASSUME FtInv PROVE TimelineCausal
    OBVIOUS
  <2>1. DOMAIN ftChains = 1 .. Len(ftChains)
    BY DEF FtInv, FtTypes
  <2> QED BY <2>1 DEF FtInv, FtChainsInv, TimelineCausal, FtEventInOneChain, FtMultiStageReached
<1> QED BY <1>1, TimelineInvariant, PTL

-----------------------------------------------------------------------------
(* ProcessLineage: a parent that is younger than its child is another         *)
(* process than the one that started the child.                               *)

PlProc == [time : Nat, parent : PlPids \union {0}, id : Nat, parentId : Nat]

PlEvent == [what : {"start", "stop"}, pid : PlPids, proc : PlProc]

PlHand == [pc : {"idle", "child", "judge"}, pid : PlPids \union {0}, time : Nat, parent : PlPids \union {0}, parentId : Nat]

PlProcFits(p) == plProcs[p].time <= plTime /\ plProcs[p].id <= plCreated /\ (plProcs[p].time = 0 => plProcs[p].id = 0)

PlTypes ==
  /\ plTime \in Nat /\ plCreated \in Nat
  /\ plProcs \in [PlPids -> PlProc]
  /\ \A p \in PlPids : PlProcFits(p)
  /\ plTime # 0 /\ plEvents \in Seq(PlEvent)
  /\ DOMAIN elKnown \subseteq PlPids
  /\ elHand \in PlHand /\ pbHand \in PlHand

\* If pid q is still that of process id, it started at time t or before.
PlAfter(q, id, t) ==
  /\ q \in PlPids /\ id \in Nat /\ id <= plCreated /\ t \in Nat
  /\ id # 0 /\ plProcs[q].id = id => plProcs[q].time <= t

\* If pid q is still that of process id, no process that has pid p is older.
PlBehind(q, id, p) ==
  /\ p \in PlPids /\ q \in PlPids /\ id \in Nat /\ id <= plCreated
  /\ id # 0 /\ plProcs[q].id = id /\ plProcs[p].time # 0 => plProcs[q].time <= plProcs[p].time

\* Some process with pid p started at time t, and none did before that has it now.
PlNewest(p, t) ==
  /\ p \in PlPids /\ t \in Nat /\ t <= plTime
  /\ plProcs[p].time # 0 => t <= plProcs[p].time

\* An event of the trace: its time is the newest of the pid up to now.
PlEventTrue(e) ==
  e.what = "start" => PlNewest(e.pid, e.proc.time) /\ PlAfter(e.proc.parent, e.proc.parentId, e.proc.time)

PlProcsInv ==
  \A p \in PlPids : plProcs[p].time # 0 => PlAfter(plProcs[p].parent, plProcs[p].parentId, plProcs[p].time)

PlEventsInv == \A i \in 1 .. Len(plEvents) : PlEventTrue(plEvents[i])

PlKnownInv == \A p \in DOMAIN elKnown : PlNewest(p, elKnown[p])

PlHandsInv ==
  /\ elHand.pc = "judge" => PlAfter(elHand.parent, elHand.parentId, elHand.time)
  /\ pbHand.pc = "child" => PlBehind(pbHand.parent, pbHand.parentId, pbHand.pid)
  /\ pbHand.pc = "judge" => pbHand.parent \in PlPids /\ (pbHand.time # 0 => PlAfter(pbHand.parent, pbHand.parentId, pbHand.time))

\* The inductive invariant: the tables and the hands of both engines hold times
\* that no living process contradicts, until the clock is set back.
PlInv ==
  /\ ~plSetBack => PlTypes /\ PlProcsInv /\ PlEventsInv /\ PlKnownInv /\ PlHandsInv
  /\ \A o \in plSaid : o.steady => o.recycled

\* A retry of StartTrace() has no session in its way, unless stopping it failed,
\* and a session that is in the way is a stale one.
EsInv ==
  /\ EsNoneLeft
  /\ esEngine \in {"start", "retry"} /\ esSystem => esStale
  /\ esEngine = "retry" /\ esSystem => esFailed

\* Taking an element out of a sequence, or swapping two, brings no new one in.
LEMMA DisturbedElements ==
  ASSUME NEW T, NEW s \in Seq(T), NEW i \in 1 .. Len(s), NEW r,
         r = RemoveAt(s, i) \/ (i + 1 <= Len(s) /\ r = [s EXCEPT ![i] = s[i + 1], ![i + 1] = s[i]])
  PROVE  r \in Seq(T) /\ \A j \in 1 .. Len(r) : \E k \in 1 .. Len(s) : r[j] = s[k]
<1>1. CASE r = RemoveAt(s, i)
  <2> DEFINE a == SubSeq(s, 1, i - 1)
             b == SubSeq(s, i + 1, Len(s))
  <2>1. a \in Seq(T) /\ Len(a) = i - 1 /\ \A j \in 1 .. (i - 1) : a[j] = s[j]
    OBVIOUS
  <2>2. b \in Seq(T) /\ Len(b) = Len(s) - i /\ \A j \in 1 .. (Len(s) - i) : b[j] = s[j + i]
    OBVIOUS
  <2>3. r = a \o b
    BY <1>1 DEF RemoveAt
  <2> HIDE DEF a, b
  <2>4. r \in Seq(T) /\ Len(r) = Len(s) - 1 /\ \A j \in 1 .. Len(r) : r[j] = IF j <= i - 1 THEN a[j] ELSE b[j - (i - 1)]
    BY <2>1, <2>2, <2>3
  <2>5. ASSUME NEW j \in 1 .. Len(r) PROVE \E k \in 1 .. Len(s) : r[j] = s[k]
    <3>1. CASE j <= i - 1
      BY <2>1, <2>4, <3>1
    <3>2. CASE j > i - 1
      <4>1. j - (i - 1) \in 1 .. (Len(s) - i) /\ j + 1 \in 1 .. Len(s) /\ j - (i - 1) + i = j + 1
        BY <2>4, <3>2
      <4>2. r[j] = b[j - (i - 1)] /\ b[j - (i - 1)] = s[j - (i - 1) + i]
        BY <2>2, <2>4, <3>2, <4>1
      <4> QED BY <4>1, <4>2
    <3> QED BY <3>1, <3>2, <2>4
  <2> QED BY <2>4, <2>5
<1>2. CASE i + 1 <= Len(s) /\ r = [s EXCEPT ![i] = s[i + 1], ![i + 1] = s[i]]
  <2>1. i + 1 \in 1 .. Len(s) /\ i # i + 1
    BY <1>2
  <2>2. s \in [1 .. Len(s) -> T] /\ Len(s) \in Nat
    OBVIOUS
  <2>3. r \in [1 .. Len(s) -> T]
    BY <1>2, <2>1, <2>2
  <2>4. r \in Seq(T) /\ Len(r) = Len(s)
    BY <2>2, <2>3, SeqDef, LenProperties
  <2>5. ASSUME NEW j \in 1 .. Len(s) PROVE \E k \in 1 .. Len(s) : r[j] = s[k]
    <3>1. CASE j = i
      BY <1>2, <2>1, <2>2, <3>1
    <3>2. CASE j = i + 1
      BY <1>2, <2>1, <2>2, <3>2
    <3>3. CASE j # i /\ j # i + 1
      BY <1>2, <2>1, <2>2, <3>3
    <3> QED BY <3>1, <3>2, <3>3
  <2> QED BY <2>4, <2>5
<1> QED BY <1>1, <1>2

\* A step, unless it sets the clock back or comes after that.
PlSteady == [PlNext]_plVars /\ ~plSetBack'

\* What a step does to the processes: nothing, or one starts now, or one is
\* gone.  Process numbers are never used again.
PlMoved ==
  /\ plTime' \in Nat /\ plCreated' \in Nat /\ plTime <= plTime' /\ plCreated <= plCreated'
  /\ plProcs' \in [PlPids -> PlProc]
  /\ \A p \in PlPids :
       \/ plProcs'[p] = plProcs[p]
       \/ plProcs'[p].time = 0 /\ plProcs'[p].id = 0
       \/ plProcs'[p].time = plTime /\ plProcs'[p].id = plCreated' /\ plCreated' = plCreated + 1

\* Every step does one of these.
LEMMA PlMoves == PlTypes /\ PlSteady => PlMoved /\ (\A p \in PlPids : PlProcFits(p)')
<1> SUFFICES ASSUME PlTypes, PlSteady
             PROVE  PlMoved /\ (\A p \in PlPids : PlProcFits(p)')
  OBVIOUS
<1> USE DEF PlMoved
<1>0. PlTypes /\ PlNone \in PlProc /\ PlNone.time = 0 /\ PlNone.id = 0
  BY DEF PlNone, PlProc
<1>1. CASE PlTick
  <2>1. plTime' = plTime + 1 /\ plCreated' = plCreated /\ plProcs' = plProcs
    BY <1>1 DEF PlTick
  <2>2. plTime \in Nat /\ plCreated \in Nat /\ plProcs \in [PlPids -> PlProc]
    BY DEF PlTypes
  <2>3. \A p \in PlPids : plProcs[p].time \in Nat /\ PlProcFits(p)
    BY DEF PlTypes, PlProc
  <2>4. PlMoved
    BY <2>1, <2>2
  <2> QED BY <2>1, <2>2, <2>3, <2>4 DEF PlProcFits
<1>2. ASSUME NEW p \in PlPids, PlExit(p)
      PROVE  PlMoved /\ (\A r \in PlPids : PlProcFits(r)')
  <2>1. plCreated' = plCreated /\ plTime' = plTime /\ plProcs' = [plProcs EXCEPT ![p] = PlNone]
    BY <1>2 DEF PlExit
  <2>2. plTime \in Nat /\ plCreated \in Nat /\ plProcs \in [PlPids -> PlProc]
    BY DEF PlTypes
  <2>3. plProcs' \in [PlPids -> PlProc] /\ \A r \in PlPids : plProcs'[r] = IF r = p THEN PlNone ELSE plProcs[r]
    BY <1>0, <2>1, <2>2
  <2> QED BY <1>0, <2>1, <2>2, <2>3 DEF PlTypes, PlProcFits
<1>3. ASSUME NEW p \in PlPids, NEW q \in PlPids, PlCreate(p, q)
      PROVE  PlMoved /\ (\A r \in PlPids : PlProcFits(r)')
  <2> DEFINE new == [time |-> plTime, parent |-> q, id |-> plCreated + 1, parentId |-> plProcs[q].id]
  <2>1. plCreated' = plCreated + 1 /\ plTime' = plTime /\ plProcs' = [plProcs EXCEPT ![p] = new]
    BY <1>3 DEF PlCreate
  <2>2. plProcs[q].id \in Nat /\ plTime \in Nat /\ plCreated \in Nat /\ plProcs \in [PlPids -> PlProc]
    BY DEF PlTypes, PlProc
  <2>3. new \in PlProc /\ new.time = plTime /\ new.id = plCreated + 1
    BY <2>2 DEF PlProc
  <2> HIDE DEF new
  <2>4. plProcs' \in [PlPids -> PlProc] /\ \A r \in PlPids : plProcs'[r] = IF r = p THEN new ELSE plProcs[r]
    BY <2>1, <2>2, <2>3
  <2>5. ASSUME NEW r \in PlPids
        PROVE  /\ plProcs'[r] = plProcs[r] \/ (plProcs'[r].time = plTime /\ plProcs'[r].id = plCreated')
               /\ PlProcFits(r)'
    <3>1. CASE r = p
      <4>1. plTime # 0
        BY DEF PlTypes
      <4> QED BY <2>1, <2>2, <2>3, <2>4, <3>1, <4>1 DEF PlProcFits
    <3>2. CASE r # p
      <4>1. plProcs[r].time \in Nat /\ plProcs[r].id \in Nat /\ PlProcFits(r)
        BY DEF PlTypes, PlProc
      <4> QED BY <2>1, <2>2, <2>4, <3>2, <4>1 DEF PlProcFits
    <3> QED BY <3>1, <3>2
  <2>6. PlMoved
    BY <2>1, <2>2, <2>4, <2>5
  <2> QED BY <2>5, <2>6
<1>4. CASE UNCHANGED <<plProcs, plTime, plCreated>>
  BY <1>4 DEF PlTypes, PlProcFits
<1> QED BY <1>1, <1>2, <1>3, <1>4
        DEF PlSteady, PlSetBack, PlNext, PlSystem, PlDisturb, ElStart, ElJudge, ElStop, PbParent, PbChild, PbJudge, plVars

\* No step makes what is known of the times untrue.
LEMMA PlKept ==
  ASSUME PlTypes, PlMoved
  PROVE  /\ \A q, id, t : PlAfter(q, id, t) => PlAfter(q, id, t)'
         /\ \A q, id, p : PlBehind(q, id, p) => PlBehind(q, id, p)'
         /\ \A p, t : PlNewest(p, t) => PlNewest(p, t)'
<1>0. /\ plTime \in Nat /\ plCreated \in Nat
      /\ \A p \in PlPids : plProcs[p].time \in Nat /\ plProcs[p].time <= plTime /\ plProcs[p].id \in Nat /\ plProcs[p].id <= plCreated
      /\ \A p \in PlPids : plProcs'[p].time \in Nat /\ plProcs'[p].id \in Nat
  BY DEF PlTypes, PlProcFits, PlMoved, PlProc
<1>1. ASSUME NEW q, NEW id, NEW t, PlAfter(q, id, t) PROVE PlAfter(q, id, t)'
  BY <1>0, <1>1 DEF PlAfter, PlMoved
<1>2. ASSUME NEW q, NEW id, NEW p, PlBehind(q, id, p) PROVE PlBehind(q, id, p)'
  BY <1>0, <1>2 DEF PlBehind, PlMoved
<1>3. ASSUME NEW p, NEW t, PlNewest(p, t) PROVE PlNewest(p, t)'
  BY <1>0, <1>3 DEF PlNewest, PlMoved
<1> QED BY <1>1, <1>2, <1>3

\* Every part of the state keeps its type.
LEMMA PlTypesStep == PlTypes /\ PlHandsInv /\ PlSteady => PlTypes'
<1> SUFFICES ASSUME PlTypes, PlHandsInv, PlSteady PROVE PlTypes'
  OBVIOUS
<1>0. PlMoved /\ (\A p \in PlPids : PlProcFits(p)')
  BY PlMoves
<1>1. plTime' \in Nat /\ plCreated' \in Nat /\ plTime' # 0 /\ plProcs' \in [PlPids -> PlProc]
  BY <1>0 DEF PlMoved, PlTypes
<1>2. plEvents' \in Seq(PlEvent)
  <2>0. plEvents \in Seq(PlEvent) /\ PlNone \in PlProc
    BY DEF PlTypes, PlNone, PlProc
  <2>1. ASSUME NEW p \in PlPids, NEW q \in PlPids, PlCreate(p, q) PROVE plEvents' \in Seq(PlEvent)
    <3>1. plEvents' = Append(plEvents, [what |-> "start", pid |-> p, proc |-> plProcs'[p]]) /\ plProcs'[p] \in PlProc
      BY <1>1, <2>1 DEF PlCreate
    <3>2. [what |-> "start", pid |-> p, proc |-> plProcs'[p]] \in PlEvent
      BY <3>1 DEF PlEvent
    <3> QED BY <2>0, <3>1, <3>2
  <2>2. ASSUME NEW p \in PlPids, PlExit(p) PROVE plEvents' \in Seq(PlEvent)
    <3>1. plEvents' = Append(plEvents, [what |-> "stop", pid |-> p, proc |-> PlNone])
      BY <2>2 DEF PlExit
    <3>2. [what |-> "stop", pid |-> p, proc |-> PlNone] \in PlEvent
      BY <2>0 DEF PlEvent
    <3> QED BY <2>0, <3>1, <3>2
  <2>3. CASE PlDisturb
    <3>1. \/ \E i \in 1 .. Len(plEvents) : plEvents' = RemoveAt(plEvents, i)
          \/ \E i \in 1 .. Len(plEvents) : i + 1 <= Len(plEvents) /\ plEvents' = [plEvents EXCEPT ![i] = plEvents[i + 1], ![i + 1] = plEvents[i]]
      BY <2>0, <2>3 DEF PlDisturb
    <3>2. PICK r : r = plEvents'
      OBVIOUS
    <3>3. r \in Seq(PlEvent)
      BY <2>0, <3>1, <3>2, DisturbedElements
    <3> QED BY <3>2, <3>3
  <2>4. CASE ElStart \/ ElStop
    <3>1. plEvents # <<>> /\ plEvents' = Tail(plEvents)
      BY <2>4 DEF ElStart, ElStop
    <3> QED BY <2>0, <3>1
  <2>5. CASE UNCHANGED plEvents
    BY <2>0, <2>5
  <2> QED BY <2>1, <2>2, <2>3, <2>4, <2>5 DEF PlSteady, PlSetBack, PlNext, PlSystem, PlTick, ElJudge, PbParent, PbChild, PbJudge, plVars
<1>3. DOMAIN elKnown' \subseteq PlPids /\ elHand' \in PlHand /\ pbHand' \in PlHand
  <2>0. DOMAIN elKnown \subseteq PlPids /\ elHand \in PlHand /\ pbHand \in PlHand /\ PlNothing \in PlHand
    BY DEF PlTypes, PlHand, PlNothing
  <2>1. CASE ElStart
    <3>1. Head(plEvents) \in PlEvent /\ pbHand' = pbHand
      BY <2>1 DEF ElStart, PlTypes
    <3>2. elHand' \in PlHand
      BY <2>1, <3>1 DEF ElStart, PlEvent, PlHand, PlProc
    <3>3. DOMAIN elKnown' \subseteq DOMAIN elKnown \union {Head(plEvents).pid}
      BY <2>1 DEF ElStart
    <3> QED BY <2>0, <3>1, <3>2, <3>3 DEF PlEvent
  <2>2. CASE ElStop \/ ElJudge \/ PbJudge
    BY <2>0, <2>2 DEF ElStop, ElJudge, PbJudge
  <2>3. ASSUME NEW p \in PlPids, PbParent(p) PROVE pbHand' \in PlHand /\ UNCHANGED <<elKnown, elHand>>
    <3>1. plProcs[p] \in PlProc
      BY DEF PlTypes
    <3> QED BY <2>3, <3>1 DEF PbParent, PlHand, PlProc
  <2>4. CASE PbChild
    <3>1. pbHand.pid \in PlPids /\ plProcs[pbHand.pid].time \in Nat
      BY <2>4 DEF PbChild, PlHandsInv, PlBehind, PlTypes, PlProc
    <3> QED BY <2>0, <2>4, <3>1 DEF PbChild, PlHand
  <2>5. CASE UNCHANGED <<elKnown, elHand, pbHand>>
    BY <2>0, <2>5
  <2> QED BY <2>0, <2>1, <2>2, <2>3, <2>4, <2>5 DEF PlSteady, PlSetBack, PlNext, PlSystem, PlTick, PlCreate, PlExit, PlDisturb, plVars
<1> QED BY <1>0, <1>1, <1>2, <1>3 DEF PlTypes

\* A process starts after the one that starts it.
LEMMA PlProcsStep == PlTypes /\ PlProcsInv /\ PlSteady => PlProcsInv'
<1> SUFFICES ASSUME PlTypes, PlProcsInv, PlSteady, NEW r \in PlPids, plProcs'[r].time # 0
             PROVE  PlAfter(plProcs[r].parent, plProcs[r].parentId, plProcs[r].time)'
  BY DEF PlProcsInv
<1>0. PlMoved
  BY PlMoves
<1>1. CASE plProcs'[r] = plProcs[r]
  <2>1. PlAfter(plProcs[r].parent, plProcs[r].parentId, plProcs[r].time)
    BY <1>1 DEF PlProcsInv
  <2>2. PICK q, id, t : q = plProcs[r].parent /\ id = plProcs[r].parentId /\ t = plProcs[r].time
    OBVIOUS
  <2>3. PlAfter(q, id, t)'
    BY <1>0, <2>1, <2>2, PlKept
  <2> QED BY <1>1, <2>2, <2>3 DEF PlAfter
<1>2. ASSUME NEW q \in PlPids, PlCreate(r, q) PROVE PlAfter(plProcs[r].parent, plProcs[r].parentId, plProcs[r].time)'
  <2>0. plProcs \in [PlPids -> PlProc]
    BY DEF PlTypes
  <2>1. plProcs'[r] = [time |-> plTime, parent |-> q, id |-> plCreated + 1, parentId |-> plProcs[q].id] /\ plProcs'[q] = plProcs[q]
    BY <1>2, <2>0 DEF PlCreate
  <2>2. /\ plTime \in Nat /\ plCreated \in Nat /\ plCreated' = plCreated + 1
        /\ plProcs[q].id \in Nat /\ plProcs[q].id <= plCreated /\ plProcs[q].time <= plTime
    BY <1>2 DEF PlTypes, PlProcFits, PlProc, PlCreate
  <2> QED BY <2>1, <2>2 DEF PlAfter
<1>3. ASSUME NEW p \in PlPids, PlExit(p) PROVE plProcs'[r] = plProcs[r]
  BY <1>3 DEF PlExit, PlTypes, PlNone
<1>4. ASSUME NEW p \in PlPids, NEW q \in PlPids, PlCreate(p, q) PROVE p = r \/ plProcs'[r] = plProcs[r]
  BY <1>4 DEF PlCreate, PlTypes
<1>5. CASE UNCHANGED plProcs
  BY <1>1, <1>5
<1> QED BY <1>1, <1>2, <1>3, <1>4, <1>5
        DEF PlSteady, PlSetBack, PlNext, PlSystem, PlTick, PlDisturb, ElStart, ElJudge, ElStop, PbParent, PbChild, PbJudge, plVars

\* Events stay true while they are late, lost or out of order.
LEMMA PlEventsStep == PlTypes /\ PlProcsInv /\ PlEventsInv /\ PlSteady => PlEventsInv'
<1> SUFFICES ASSUME PlTypes, PlProcsInv, PlEventsInv, PlSteady PROVE PlEventsInv'
  OBVIOUS
<1>0. PlMoved /\ PlProcsInv'
  BY PlMoves, PlProcsStep
<1>1. ASSUME NEW e, PlEventTrue(e) PROVE PlEventTrue(e)'
  BY <1>0, <1>1, PlKept DEF PlEventTrue
<1>2. plEvents \in Seq(PlEvent)
  BY DEF PlTypes
<1>3. PICK s : s = plEvents'
  OBVIOUS
<1>4. SUFFICES ASSUME NEW j \in 1 .. Len(s) PROVE PlEventTrue(s[j])'
  BY <1>3 DEF PlEventsInv
<1>5. ASSUME NEW k \in 1 .. Len(plEvents), s[j] = plEvents[k] PROVE PlEventTrue(s[j])'
  <2>1. PICK e : e = s[j]
    OBVIOUS
  <2>2. PlEventTrue(e)
    BY <1>5, <2>1 DEF PlEventsInv
  <2> QED BY <1>1, <2>1, <2>2
<1>6. ASSUME NEW p \in PlPids, NEW q \in PlPids, PlCreate(p, q) PROVE PlEventTrue(s[j])'
  <2>1. PICK e : e = [what |-> "start", pid |-> p, proc |-> plProcs'[p]]
    OBVIOUS
  <2>2. s = Append(plEvents, e)
    BY <1>3, <1>6, <2>1 DEF PlCreate
  <2>3. CASE j # Len(plEvents) + 1
    <3>1. j \in 1 .. Len(plEvents) /\ s[j] = plEvents[j]
      BY <1>2, <2>2, <2>3
    <3> QED BY <1>5, <3>1
  <2>4. CASE j = Len(plEvents) + 1
    <3>1. s[j] = e
      BY <1>2, <2>2, <2>4
    <3>2. plProcs'[p].time = plTime /\ plTime \in Nat /\ plTime # 0 /\ plTime' = plTime
      BY <1>6 DEF PlCreate, PlTypes
    <3>3. PlNewest(p, plProcs[p].time)'
      BY <3>2 DEF PlNewest
    <3>4. PlAfter(plProcs[p].parent, plProcs[p].parentId, plProcs[p].time)'
      BY <1>0, <3>2 DEF PlProcsInv
    <3>5. e.pid = p /\ e.proc = plProcs'[p]
      BY <2>1
    <3>6. PlEventTrue(e)'
      BY <3>3, <3>4, <3>5 DEF PlEventTrue, PlNewest, PlAfter
    <3> QED BY <3>1, <3>6
  <2> QED BY <2>3, <2>4
<1>7. ASSUME NEW p \in PlPids, PlExit(p) PROVE PlEventTrue(s[j])'
  <2>1. PICK e : e = [what |-> "stop", pid |-> p, proc |-> PlNone]
    OBVIOUS
  <2>2. s = Append(plEvents, e)
    BY <1>3, <1>7, <2>1 DEF PlExit
  <2>3. CASE j # Len(plEvents) + 1
    <3>1. j \in 1 .. Len(plEvents) /\ s[j] = plEvents[j]
      BY <1>2, <2>2, <2>3
    <3> QED BY <1>5, <3>1
  <2>4. CASE j = Len(plEvents) + 1
    <3>1. s[j].what = "stop"
      BY <1>2, <2>1, <2>2, <2>4
    <3> QED BY <3>1 DEF PlEventTrue
  <2> QED BY <2>3, <2>4
<1>8. CASE PlDisturb
  <2>1. \/ \E i \in 1 .. Len(plEvents) : s = RemoveAt(plEvents, i)
        \/ \E i \in 1 .. Len(plEvents) : i + 1 <= Len(plEvents) /\ s = [plEvents EXCEPT ![i] = plEvents[i + 1], ![i + 1] = plEvents[i]]
    BY <1>2, <1>3, <1>8 DEF PlDisturb
  <2>2. \E k \in 1 .. Len(plEvents) : s[j] = plEvents[k]
    BY <1>2, <2>1, DisturbedElements
  <2> QED BY <1>5, <2>2
<1>9. CASE ElStart \/ ElStop
  <2>1. s = Tail(plEvents) /\ plEvents # <<>>
    BY <1>3, <1>9 DEF ElStart, ElStop
  <2>2. j + 1 \in 1 .. Len(plEvents) /\ s[j] = plEvents[j + 1]
    BY <1>2, <2>1
  <2> QED BY <1>5, <2>2
<1>10. CASE UNCHANGED plEvents
  BY <1>3, <1>5, <1>10
<1> QED BY <1>6, <1>7, <1>8, <1>9, <1>10 DEF PlSteady, PlSetBack, PlNext, PlSystem, PlTick, ElJudge, PbParent, PbChild, PbJudge, plVars

\* The table of creation times holds, of each pid, a time that is not too late.
LEMMA PlKnownStep == PlTypes /\ PlEventsInv /\ PlKnownInv /\ PlSteady => PlKnownInv'
<1> SUFFICES ASSUME PlTypes, PlEventsInv, PlKnownInv, PlSteady, NEW p, p \in DOMAIN elKnown'
             PROVE  PlNewest(p, elKnown[p])'
  BY DEF PlKnownInv
<1>0. PlMoved
  BY PlMoves
<1>1. CASE p \in DOMAIN elKnown /\ elKnown'[p] = elKnown[p]
  <2>1. PICK t : t = elKnown[p]
    OBVIOUS
  <2>2. PlNewest(p, t)'
    BY <1>0, <1>1, <2>1, PlKept DEF PlKnownInv
  <2> QED BY <1>1, <2>1, <2>2 DEF PlNewest
<1>2. CASE ElStart /\ p = Head(plEvents).pid
  <2>1. PICK t : t = Head(plEvents).proc.time
    OBVIOUS
  <2>2. elKnown'[p] = t
    BY <1>2, <2>1 DEF ElStart
  <2>3. PlEventTrue(Head(plEvents)) /\ Head(plEvents).what = "start"
    BY <1>2 DEF ElStart, PlEventsInv, PlTypes
  <2>4. PlNewest(p, t)
    BY <1>2, <2>1, <2>3 DEF PlEventTrue
  <2>5. PlNewest(p, t)'
    BY <1>0, <2>4, PlKept
  <2> QED BY <2>2, <2>5 DEF PlNewest
<1>3. CASE ElStart /\ p # Head(plEvents).pid
  <2>1. p \in DOMAIN elKnown /\ elKnown'[p] = elKnown[p]
    BY <1>3 DEF ElStart
  <2> QED BY <1>1, <2>1
<1>4. CASE ElStop
  <2>1. p \in DOMAIN elKnown /\ elKnown'[p] = elKnown[p]
    BY <1>4 DEF ElStop
  <2> QED BY <1>1, <2>1
<1>5. CASE UNCHANGED elKnown
  BY <1>1, <1>5
<1> QED BY <1>2, <1>3, <1>4, <1>5
        DEF PlSteady, PlSetBack, PlNext, PlSystem, PlTick, PlCreate, PlExit, PlDisturb, ElJudge, PbParent, PbChild, PbJudge, plVars

\* What an inspection has read stays true, whatever exits and starts meanwhile.
LEMMA PlHandsStep == PlTypes /\ PlProcsInv /\ PlEventsInv /\ PlHandsInv /\ PlSteady => PlHandsInv'
<1> SUFFICES ASSUME PlTypes, PlProcsInv, PlEventsInv, PlHandsInv, PlSteady PROVE PlHandsInv'
  OBVIOUS
<1>0. PlMoved
  BY PlMoves
<1>1. ASSUME elHand'.pc = "judge" PROVE PlAfter(elHand.parent, elHand.parentId, elHand.time)'
  <2>1. PICK q, id, t : q = elHand'.parent /\ id = elHand'.parentId /\ t = elHand'.time
    OBVIOUS
  <2>2. SUFFICES PlAfter(q, id, t)
    BY <1>0, <2>1, PlKept DEF PlAfter
  <2>3. CASE ElStart
    <3>1. PlEventTrue(Head(plEvents)) /\ Head(plEvents).what = "start"
      BY <2>3 DEF ElStart, PlEventsInv, PlTypes
    <3> QED BY <2>1, <2>3, <3>1 DEF ElStart, PlEventTrue
  <2>4. CASE ElJudge
    BY <1>1, <2>4 DEF ElJudge, PlNothing
  <2>5. CASE UNCHANGED elHand
    BY <1>1, <2>1, <2>5 DEF PlHandsInv
  <2> QED BY <2>3, <2>4, <2>5
          DEF PlSteady, PlSetBack, PlNext, PlSystem, PlTick, PlCreate, PlExit, PlDisturb, ElStop, PbParent, PbChild, PbJudge, plVars
<1>2. CASE UNCHANGED pbHand
  <2>1. PICK q, id, t, p : q = pbHand.parent /\ id = pbHand.parentId /\ t = pbHand.time /\ p = pbHand.pid
    OBVIOUS
  <2>2. pbHand'.pc = "child" => PlBehind(q, id, p)'
    BY <1>0, <1>2, <2>1, PlKept DEF PlHandsInv
  <2>3. pbHand'.pc = "judge" /\ pbHand'.time # 0 => PlAfter(q, id, t)'
    BY <1>0, <1>2, <2>1, PlKept DEF PlHandsInv
  <2>4. pbHand'.pc = "judge" => pbHand'.parent \in PlPids
    BY <1>2 DEF PlHandsInv
  <2> QED BY <1>1, <1>2, <2>1, <2>2, <2>3, <2>4 DEF PlHandsInv, PlBehind, PlAfter
<1>3. ASSUME NEW p \in PlPids, PbParent(p) PROVE PlHandsInv'
  <2>1. pbHand' = [pc |-> "child", pid |-> p, time |-> 0, parent |-> plProcs[p].parent, parentId |-> plProcs[p].parentId] /\ plProcs[p].time # 0
    BY <1>3 DEF PbParent
  <2>2. PlBehind(plProcs[p].parent, plProcs[p].parentId, p)
    BY <2>1 DEF PlProcsInv, PlAfter, PlBehind
  <2>3. PICK q, id : q = plProcs[p].parent /\ id = plProcs[p].parentId
    OBVIOUS
  <2>4. PlBehind(q, id, p)'
    BY <1>0, <2>2, <2>3, PlKept
  <2> QED BY <1>1, <2>1, <2>3, <2>4 DEF PlHandsInv, PlBehind
<1>4. CASE PbChild
  <2>1. /\ pbHand.pc = "child" /\ pbHand'.pc = "judge" /\ pbHand'.parent = pbHand.parent /\ pbHand'.parentId = pbHand.parentId
        /\ pbHand'.time = plProcs[pbHand.pid].time
    BY <1>4 DEF PbChild, PlTypes, PlHand
  <2>2. PICK q, id, t : q = pbHand.parent /\ id = pbHand.parentId /\ t = pbHand'.time
    OBVIOUS
  <2>3. PlBehind(q, id, pbHand.pid)
    BY <2>1, <2>2 DEF PlHandsInv
  <2>4. t \in Nat /\ (t # 0 => PlAfter(q, id, t))
    BY <2>1, <2>2, <2>3 DEF PlBehind, PlAfter, PlTypes, PlProc
  <2>5. t # 0 => PlAfter(q, id, t)'
    BY <1>0, <2>4, PlKept
  <2>6. q \in PlPids
    BY <2>3 DEF PlBehind
  <2> QED BY <1>1, <2>1, <2>2, <2>5, <2>6 DEF PlHandsInv, PlAfter
<1>5. CASE PbJudge
  BY <1>1, <1>5 DEF PbJudge, PlNothing, PlHandsInv
<1> QED BY <1>2, <1>3, <1>4, <1>5
        DEF PlSteady, PlSetBack, PlNext, PlSystem, PlTick, PlCreate, PlExit, PlDisturb, ElStart, ElJudge, ElStop, plVars

\* A parent that still has its pid is not younger than its child, so nothing is
\* said of it.
LEMMA PlSaidStep ==
  PlTypes /\ PlKnownInv /\ PlHandsInv /\ (\A o \in plSaid : o.steady => o.recycled) /\ PlSteady
     => (\A o \in plSaid' : o.steady => o.recycled)
<1> SUFFICES ASSUME PlTypes, PlKnownInv, PlHandsInv, \A o \in plSaid : o.steady => o.recycled, PlSteady
             PROVE  \A o \in plSaid' : o.steady => o.recycled
  OBVIOUS
<1>1. CASE ElJudge
  <2>1. elHand.pc = "judge" /\ PlAfter(elHand.parent, elHand.parentId, elHand.time)
    BY <1>1 DEF ElJudge, PlHandsInv
  <2>2. PICK q, t : q = elHand.parent /\ t = IF q \in DOMAIN elKnown THEN elKnown[q] ELSE plProcs[q].time
    OBVIOUS
  <2>3. q \in DOMAIN elKnown => PlNewest(q, elKnown[q])
    BY DEF PlKnownInv
  <2>4. ASSUME ElImpossible(elHand.time, t), elHand.parentId # 0, plProcs[q].id = elHand.parentId PROVE FALSE
    <3>1. plProcs[q].time \in Nat /\ elHand.time \in Nat /\ plProcs[q].time <= elHand.time
      BY <2>1, <2>2, <2>4 DEF PlAfter, PlTypes, PlProc
    <3>2. t # 0 /\ t > elHand.time
      BY <2>4 DEF ElImpossible
    <3>3. CASE q \in DOMAIN elKnown
      <4>1. t = elKnown[q] /\ t \in Nat /\ (plProcs[q].time # 0 => t <= plProcs[q].time)
        BY <2>2, <2>3, <3>3 DEF PlNewest
      <4>2. plProcs[q].time # 0
        <5>1. q \in PlPids /\ plProcs[q].time # 0
          BY <2>1, <2>2, <2>4 DEF PlAfter, PlTypes, PlProcFits
        <5> QED BY <5>1
      <4> QED BY <3>1, <3>2, <4>1, <4>2
    <3>4. CASE q \notin DOMAIN elKnown
      BY <2>2, <3>1, <3>2, <3>4
    <3> QED BY <3>3, <3>4
  <2>5. CASE ElImpossible(elHand.time, t)
    <3>1. plSaid' = {[by |-> "etw", steady |-> ~plSetBack, recycled |-> elHand.parentId = 0 \/ plProcs[q].id # elHand.parentId]}
      BY <1>1, <2>2, <2>5 DEF ElJudge, PlSay
    <3>2. (elHand.parentId = 0 \/ plProcs[q].id # elHand.parentId) = TRUE
      BY <2>4, <2>5
    <3>3. \A o \in plSaid' : o = [by |-> "etw", steady |-> ~plSetBack, recycled |-> TRUE]
      BY <3>1, <3>2
    <3> QED BY <3>3
  <2>6. CASE ~ElImpossible(elHand.time, t)
    BY <1>1, <2>2, <2>6 DEF ElJudge
  <2> QED BY <2>5, <2>6
<1>2. CASE PbJudge
  <2>1. pbHand.pc = "judge" /\ (pbHand.time # 0 => PlAfter(pbHand.parent, pbHand.parentId, pbHand.time))
    BY <1>2 DEF PbJudge, PlHandsInv
  <2>2. PICK q, t : q = pbHand.parent /\ t = plProcs[q].time
    OBVIOUS
  <2>3. ASSUME PbYounger(pbHand.time, t), pbHand.parentId # 0, plProcs[q].id = pbHand.parentId PROVE FALSE
    <3>1. pbHand.time # 0 /\ t > pbHand.time
      BY <2>3 DEF PbYounger
    <3>2. t \in Nat /\ pbHand.time \in Nat /\ t <= pbHand.time
      BY <2>1, <2>2, <2>3, <3>1 DEF PlAfter, PlTypes, PlProc
    <3> QED BY <3>1, <3>2
  <2>4. CASE PbYounger(pbHand.time, t)
    <3>1. plSaid' = {[by |-> "behavior", steady |-> ~plSetBack, recycled |-> pbHand.parentId = 0 \/ plProcs[q].id # pbHand.parentId]}
      BY <1>2, <2>2, <2>4 DEF PbJudge, PlSay
    <3>2. (pbHand.parentId = 0 \/ plProcs[q].id # pbHand.parentId) = TRUE
      BY <2>3, <2>4
    <3>3. \A o \in plSaid' : o = [by |-> "behavior", steady |-> ~plSetBack, recycled |-> TRUE]
      BY <3>1, <3>2
    <3> QED BY <3>3
  <2>5. CASE ~PbYounger(pbHand.time, t)
    BY <1>2, <2>2, <2>5 DEF PbJudge
  <2> QED BY <2>4, <2>5
<1>3. CASE plSaid' = plSaid \/ plSaid' = {}
  BY <1>3
<1> QED BY <1>1, <1>2, <1>3
        DEF PlSteady, PlSetBack, PlNext, PlSystem, PlTick, PlCreate, PlExit, PlDisturb, ElStart, ElStop, PbParent, PbChild, plVars

\* However late, lost or disordered the events of the kernel, and whatever
\* starts and exits during an inspection, the times held fit the living
\* processes until the clock is set back.
THEOREM LineageInvariant == PlSpec => []PlInv
<1>1. PlInit => PlInv
  <2> SUFFICES ASSUME PlInit PROVE PlInv
    OBVIOUS
  <2>1. PlNone \in PlProc /\ PlNothing \in PlHand /\ PlNone.time = 0 /\ PlNone.id = 0 /\ PlNothing.pc = "idle"
    BY DEF PlNone, PlNothing, PlProc, PlHand
  <2>2. PlTypes
    BY <2>1 DEF PlInit, PlTypes, PlProcFits
  <2>3. PlProcsInv /\ PlEventsInv /\ PlKnownInv /\ PlHandsInv
    BY <2>1 DEF PlInit, PlProcsInv, PlEventsInv, PlKnownInv, PlHandsInv
  <2> QED BY <2>2, <2>3 DEF PlInv, PlInit
<1>2. PlInv /\ [PlNext]_plVars => PlInv'
  <2> SUFFICES ASSUME PlInv, [PlNext]_plVars PROVE PlInv'
    OBVIOUS
  <2>1. plSetBack => plSetBack'
    BY DEF PlNext, PlSystem, PlTick, PlSetBack, PlCreate, PlExit, PlDisturb, ElStart, ElJudge, ElStop, PbParent, PbChild, PbJudge, plVars
  <2>2. CASE ~plSetBack'
    <3>1. PlSteady /\ PlTypes /\ PlProcsInv /\ PlEventsInv /\ PlKnownInv /\ PlHandsInv /\ (\A o \in plSaid : o.steady => o.recycled)
      BY <2>1, <2>2 DEF PlInv, PlSteady
    <3>2. PlTypes' /\ PlProcsInv' /\ PlEventsInv' /\ PlKnownInv' /\ PlHandsInv' /\ (\A o \in plSaid' : o.steady => o.recycled)
      BY <3>1, PlTypesStep, PlProcsStep, PlEventsStep, PlKnownStep, PlHandsStep, PlSaidStep
    <3> QED BY <3>2 DEF PlInv
  <2>3. CASE plSetBack' /\ plSetBack
    <3>1. CASE PlSay("etw", elHand) \/ PlSay("behavior", pbHand)
      <4>1. (~plSetBack) = FALSE
        BY <2>3
      <4>2. PICK b : b = ~plSetBack
        OBVIOUS
      <4>3. \A o \in plSaid' : o.steady = b
        BY <3>1, <4>2 DEF PlSay
      <4>4. \A o \in plSaid' : o.steady = FALSE
        BY <4>1, <4>2, <4>3
      <4> QED BY <2>3, <4>4 DEF PlInv
    <3>2. CASE plSaid' = plSaid \/ plSaid' = {}
      BY <2>3, <3>2 DEF PlInv
    <3> QED BY <3>1, <3>2 DEF PlNext, PlSystem, PlTick, PlSetBack, PlCreate, PlExit, PlDisturb, ElStart, ElJudge, ElStop, PbParent, PbChild, PbJudge, plVars
  <2>4. CASE plSetBack' /\ ~plSetBack
    <3>1. plSaid' = plSaid \/ plSaid' = {}
      BY <2>4 DEF PlNext, PlSystem, PlTick, PlSetBack, PlCreate, PlExit, PlDisturb, ElStart, ElJudge, ElStop, PbParent, PbChild, PbJudge, plVars
    <3> QED BY <2>4, <3>1 DEF PlInv
  <2> QED BY <2>2, <2>3, <2>4
<1> QED BY <1>1, <1>2, PTL DEF PlSpec

\* A start() that fails, at whatever call, leaves no session in the system that
\* close_session() could stop.
THEOREM SessionInvariant == EsSpec => []EsInv
<1>1. EsInit => EsInv
  BY DEF EsInit, EsInv, EsNoneLeft
<1>2. EsInv /\ [EsNext]_esVars => EsInv'
  <2> SUFFICES ASSUME EsInv, [EsNext]_esVars PROVE EsInv'
    OBVIOUS
  <2>1. CASE EsBegin
    BY <2>1 DEF EsBegin, EsInv, EsNoneLeft
  <2>2. CASE EsStartTrace("start") \/ EsStartTrace("retry")
    BY <2>2 DEF EsStartTrace, EsInv, EsNoneLeft
  <2>3. CASE EsCall("enable", "open") \/ EsCall("open", "thread") \/ EsCall("thread", "running")
    BY <2>3 DEF EsCall, EsFail, EsClose, EsInv, EsNoneLeft
  <2>4. CASE EsStop \/ EsCrash
    BY <2>4 DEF EsStop, EsClose, EsCrash, EsInv, EsNoneLeft
  <2>5. CASE UNCHANGED esVars
    BY <2>5 DEF esVars, EsInv, EsNoneLeft
  <2> QED BY <2>1, <2>2, <2>3, <2>4, <2>5 DEF EsNext
<1> QED BY <1>1, <1>2, PTL DEF EsSpec

\* What a process that died left behind is out of the way when StartTrace() is
\* called the second time, so a start() gives up only when a call fails.
THEOREM StartsAfterCrash == EsSpec => EsStartsAfterCrash
<1>1. EsInv /\ [EsNext]_esVars => [(esEngine \in {"start", "retry"}) /\ esEngine' = "idle" => esFailed']_esVars
  <2> SUFFICES ASSUME EsInv, EsNext, esEngine \in {"start", "retry"}, esEngine' = "idle" PROVE esFailed'
    BY DEF esVars
  <2>1. CASE EsStartTrace("start")
    BY <2>1 DEF EsStartTrace
  <2>2. CASE EsStartTrace("retry")
    BY <2>2 DEF EsStartTrace, EsInv
  <2>3. CASE EsBegin \/ EsStop \/ EsCrash
    BY <2>3 DEF EsBegin, EsStop, EsCrash
  <2>4. CASE EsCall("enable", "open") \/ EsCall("open", "thread") \/ EsCall("thread", "running")
    BY <2>4 DEF EsCall
  <2> QED BY <2>1, <2>2, <2>3, <2>4 DEF EsNext
<1> QED BY <1>1, SessionInvariant, PTL DEF EsSpec, EsStartsAfterCrash

\* Neither engine accuses a process whose parent is still the one that started
\* it while the clock is not set back, and only a process that died, or a stop
\* that the system refused, leaves a trace session behind, which does not keep
\* the next one from starting.
THEOREM ProcessesAreKnown == PlSpec /\ EsSpec => ProcessesKnown
<1>1. PlInv /\ EsInv => ElOnlyRecycled /\ PbOnlyRecycled /\ EsNoneLeft
  BY DEF PlInv, EsInv, ElOnlyRecycled, PbOnlyRecycled
<1> QED BY <1>1, LineageInvariant, SessionInvariant, StartsAfterCrash, PTL DEF ProcessesKnown

-----------------------------------------------------------------------------
(* RansomwareShieldEngine: bursts are counted exactly, honeyfiles alarmed once. *)

RsEvent == [pid : RsPids, when : Nat]

\* A hash of a honeyfile, "gone" for none.
RsHash == RsContents \union {"gone", CHOOSE c \in RsContents : TRUE}

RsEntry == [path : RsHoneyPaths, sha256 : RsHash, triggered : BOOLEAN]

\* An entry that was alarmed, and only such a one, is marked.
RsHoneyInv ==
  /\ rsDisk \in [RsHoneyPaths -> RsHash]
  /\ rsHoney \in Seq(RsEntry) /\ rsHoneyTold \in Seq(Nat) /\ Len(rsHoneyTold) = Len(rsHoney)
  /\ \A i \in 1 .. Len(rsHoney) :
       \/ rsHoneyTold[i] = 0
       \/ rsHoneyTold[i] = 1 /\ rsHoney[i].triggered

\* The inductive invariant.
RsInv == rsEvents \in Seq(RsEvent) /\ rsNow \in Nat \ {0} /\ RsHoneyInv

\* Events that are stored in the order of their times, each after the one
\* before it, are in that order altogether.
LEMMA RsSorted ==
  ASSUME rsEvents \in Seq(RsEvent), \A i \in 1 .. (Len(rsEvents) - 1) : rsEvents[i].when <= rsEvents[i + 1].when,
         NEW i \in 1 .. Len(rsEvents), NEW j \in i .. Len(rsEvents)
  PROVE  rsEvents[i].when <= rsEvents[j].when
<1>0. Len(rsEvents) \in Nat /\ \A k \in 1 .. Len(rsEvents) : rsEvents[k].when \in Nat
  <2>1. Len(rsEvents) \in Nat /\ \A k \in 1 .. Len(rsEvents) : rsEvents[k] \in RsEvent
    OBVIOUS
  <2> QED BY <2>1 DEF RsEvent
<1> DEFINE w(k) == rsEvents[k].when
           S == {k \in i .. Len(rsEvents) : w(k) < w(i)}
<1>1. SUFFICES ASSUME S # {} PROVE FALSE
  <2>1. j \notin S
    BY <1>1
  <2> QED BY <1>0, <2>1
<1>2. S \subseteq Nat
  BY <1>0
<1>3. PICK k \in S : \A m \in S : k <= m
  <2> HIDE DEF S
  <2> QED BY <1>1, <1>2, LeastOf
<1>4. k \in i .. Len(rsEvents) /\ w(k) < w(i) /\ k # i
  BY <1>0, <1>3
<1>5. k - 1 \in i .. Len(rsEvents) /\ k - 1 \in 1 .. (Len(rsEvents) - 1) /\ (k - 1) + 1 = k /\ ~ (k <= k - 1)
  BY <1>0, <1>4
<1>6. w(k - 1) <= w(k)
  BY <1>5
<1>7. k - 1 \notin S
  <2> HIDE DEF S
  <2> QED BY <1>3, <1>5
<1>8. ~ (w(k - 1) < w(i))
  BY <1>5, <1>7
<1>9. k - 1 \in 1 .. Len(rsEvents) /\ k \in 1 .. Len(rsEvents)
  BY <1>0, <1>4, <1>5
<1>10. w(k - 1) \in Nat /\ w(k) \in Nat /\ w(i) \in Nat
  BY <1>0, <1>9
<1> HIDE DEF w
<1> QED BY <1>4, <1>6, <1>8, <1>10

\* The loop that breaks off at the first event before the window misses none.
LEMMA RsBurstIsExact == RsInv => RsBurstExact
<1> SUFFICES ASSUME RsInv, \A i \in 1 .. (Len(rsEvents) - 1) : rsEvents[i].when <= rsEvents[i + 1].when, NEW pid \in RsPids
             PROVE  RsBurstCount(pid) = Cardinality({i \in DOMAIN rsEvents : rsEvents[i].pid = pid /\ RsInWindow(rsEvents[i])})
  BY DEF RsBurstExact
<1>1. rsEvents \in Seq(RsEvent) /\ DOMAIN rsEvents = 1 .. Len(rsEvents) /\ Len(rsEvents) \in Nat
  BY DEF RsInv
<1>2. ASSUME NEW i \in 1 .. Len(rsEvents), RsInWindow(rsEvents[i]), NEW j \in i .. Len(rsEvents) PROVE RsInWindow(rsEvents[j])
  <2>1. rsEvents[i].when <= rsEvents[j].when
    BY <1>1, RsSorted
  <2>2. rsEvents[i].when \in Nat /\ rsEvents[j].when \in Nat /\ rsNow \in Nat
    <3>1. j \in 1 .. Len(rsEvents)
      BY <1>1
    <3>2. rsEvents[i] \in RsEvent /\ rsEvents[j] \in RsEvent
      BY <1>1, <3>1
    <3> QED BY <3>2 DEF RsInv, RsEvent
  <2>3. BURST_WINDOW \in Nat
    BY RsConstants
  <2> QED BY <1>2, <2>1, <2>2, <2>3 DEF RsInWindow
<1>3. ASSUME NEW i \in 1 .. Len(rsEvents)
      PROVE  (\A j \in i .. Len(rsEvents) : RsInWindow(rsEvents[j])) <=> RsInWindow(rsEvents[i])
  <2>1. i \in i .. Len(rsEvents)
    BY <1>1
  <2> QED BY <1>2, <2>1
<1>4. {i \in DOMAIN rsEvents : rsEvents[i].pid = pid /\ \A j \in i .. Len(rsEvents) : RsInWindow(rsEvents[j])}
        = {i \in DOMAIN rsEvents : rsEvents[i].pid = pid /\ RsInWindow(rsEvents[i])}
  BY <1>1, <1>3
<1> QED BY <1>4 DEF RsBurstCount

\* No step breaks the invariant.
LEMMA RsStepKeeps == RsInv /\ [RsIoNext \/ RsHoneyNext]_rsVars => RsInv'
<1> SUFFICES ASSUME RsInv, [RsIoNext \/ RsHoneyNext]_rsVars PROVE RsInv'
  OBVIOUS
<1>0. rsEvents \in Seq(RsEvent) /\ rsNow \in Nat /\ rsNow # 0
  BY DEF RsInv
<1>h. /\ rsDisk \in [RsHoneyPaths -> RsHash]
      /\ rsHoney \in Seq(RsEntry) /\ rsHoneyTold \in Seq(Nat) /\ Len(rsHoneyTold) = Len(rsHoney)
      /\ \A i \in 1 .. Len(rsHoney) : rsHoneyTold[i] = 0 \/ (rsHoneyTold[i] = 1 /\ rsHoney[i].triggered)
  BY DEF RsInv, RsHoneyInv
<1>1. ASSUME NEW pid \in RsPids, NEW io \in RsIos, NEW when \in {rsNow - 1, rsNow},
             RsIngest(pid, io.type, io.extension, io.entropy, when)
      PROVE  RsInv'
  <2>1. PICK x : x = [pid |-> pid, when |-> when]
    OBVIOUS
  <2>2. x \in RsEvent
    BY <1>0, <2>1 DEF RsEvent
  <2>3. rsEvents' \in {Append(rsEvents, x), Tail(Append(rsEvents, x))} /\ UNCHANGED <<rsHoney, rsDisk, rsHoneyTold, rsNow>>
    BY <1>1, <2>1 DEF RsIngest, rsHoneyVars
  <2>4. rsEvents' \in Seq(RsEvent)
    <3>1. PICK t : t = rsEvents'
      OBVIOUS
    <3>2. t \in Seq(RsEvent)
      BY <1>0, <2>2, <2>3, <3>1, Rolled
    <3> QED BY <3>1, <3>2
  <2> QED BY <2>3, <2>4 DEF RsInv, RsHoneyInv
<1>2. CASE (\E pid \in RsPids : RsShadowDelete(pid)) \/ RsAnalyzeBursts
  BY <1>2 DEF RsShadowDelete, RsAnalyzeBursts, rsHoneyVars, RsInv, RsHoneyInv
<1>3. CASE RsTick
  BY <1>0, <1>3 DEF RsTick, rsHoneyVars, RsInv, RsHoneyInv
<1>4. ASSUME NEW p \in RsHoneyPaths, RsAddHoney(p) PROVE RsInv'
  <2>1. PICK hash \in {rsDisk[p], "gone"} : rsHoney' = Append(rsHoney, [path |-> p, sha256 |-> hash, triggered |-> FALSE])
    BY <1>4 DEF RsAddHoney
  <2>2. UNCHANGED <<rsEvents, rsNow, rsDisk>> /\ rsHoneyTold' = Append(rsHoneyTold, 0)
    BY <1>4 DEF RsAddHoney, rsIoVars
  <2>3. PICK x : x = [path |-> p, sha256 |-> hash, triggered |-> FALSE]
    OBVIOUS
  <2>4. x \in RsEntry
    BY <1>h, <2>1, <2>3 DEF RsEntry, RsHash
  <2>5. PICK n \in Nat : n = Len(rsHoney) /\ n = Len(rsHoneyTold)
    BY <1>h
  <2>6. /\ rsHoney' \in Seq(RsEntry) /\ Len(rsHoney') = n + 1
        /\ \A i \in 1 .. n : rsHoney'[i] = rsHoney[i]
    BY <1>h, <2>1, <2>3, <2>4, <2>5, AppendProperties
  <2>7. /\ rsHoneyTold' \in Seq(Nat) /\ Len(rsHoneyTold') = n + 1 /\ rsHoneyTold'[n + 1] = 0
        /\ \A i \in 1 .. n : rsHoneyTold'[i] = rsHoneyTold[i]
    BY <1>h, <2>2, <2>5, AppendProperties
  <2>8. \A i \in 1 .. n + 1 : i = n + 1 \/ i \in 1 .. n
    BY <2>5
  <2>9. \A i \in 1 .. n + 1 : rsHoneyTold'[i] = 0 \/ (rsHoneyTold'[i] = 1 /\ rsHoney'[i].triggered)
    BY <1>h, <2>5, <2>6, <2>7, <2>8
  <2>10. RsHoneyInv'
    BY <1>h, <2>2, <2>6, <2>7, <2>9 DEF RsHoneyInv
  <2> QED BY <2>2, <2>10 DEF RsInv
<1>5. CASE RsCheckHoney
  <2>1. UNCHANGED <<rsEvents, rsNow, rsDisk>>
    BY <1>5 DEF RsCheckHoney, rsIoVars
  <2>2. PICK readable \in SUBSET RsHoneyPaths :
          /\ rsHoney' = [i \in DOMAIN rsHoney |-> [rsHoney[i] EXCEPT !.triggered = @ \/ RsTouched(rsHoney[i], readable)]]
          /\ rsHoneyTold' = [i \in DOMAIN rsHoney |->
                               IF RsTouched(rsHoney[i], readable) THEN rsHoneyTold[i] + 1 ELSE rsHoneyTold[i]]
    BY <1>5 DEF RsCheckHoney
  <2>3. PICK n \in Nat : n = Len(rsHoney) /\ n = Len(rsHoneyTold) /\ DOMAIN rsHoney = 1 .. n
    BY <1>h
  <2>4. ASSUME NEW i \in 1 .. n
        PROVE  /\ rsHoney'[i] \in RsEntry /\ rsHoneyTold'[i] \in Nat
               /\ rsHoneyTold'[i] = 0 \/ (rsHoneyTold'[i] = 1 /\ rsHoney'[i].triggered)
    <3>1. PICK hf \in RsEntry : hf = rsHoney[i]
      BY <1>h, <2>3
    <3>2. PICK b \in BOOLEAN : b = (hf.triggered \/ RsTouched(hf, readable))
      OBVIOUS
    <3>b. (hf.triggered \/ RsTouched(hf, readable)) => b
      BY ONLY <3>2, Zenon
    <3>3. rsHoney'[i] = [hf EXCEPT !.triggered = b]
      BY <2>2, <2>3, <3>1, <3>2
    <3>4. rsHoney'[i] \in RsEntry /\ rsHoney'[i].triggered = b
      BY <3>1, <3>3 DEF RsEntry
    <3>5. rsHoneyTold'[i] = IF RsTouched(hf, readable) THEN rsHoneyTold[i] + 1 ELSE rsHoneyTold[i]
      BY <2>2, <2>3, <3>1
    <3>6. rsHoneyTold[i] = 0 \/ (rsHoneyTold[i] = 1 /\ hf.triggered)
      BY <1>h, <2>3, <3>1
    <3>7. CASE RsTouched(hf, readable)
      <4>1. rsHoneyTold[i] = 0
        BY <3>6, <3>7 DEF RsTouched
      <4> QED BY <3>b, <3>4, <3>5, <3>7, <4>1
    <3>8. CASE ~RsTouched(hf, readable)
      BY <3>b, <3>4, <3>5, <3>6, <3>8
    <3> QED BY <3>7, <3>8
  <2>5. rsHoney' \in Seq(RsEntry) /\ Len(rsHoney') = n
    <3>1. rsHoney' = [i \in 1 .. n |-> rsHoney'[i]]
      BY <2>2, <2>3
    <3> QED BY <2>3, <2>4, <3>1
  <2>6. rsHoneyTold' \in Seq(Nat) /\ Len(rsHoneyTold') = n
    <3>1. rsHoneyTold' = [i \in 1 .. n |-> rsHoneyTold'[i]]
      BY <2>2, <2>3
    <3> QED BY <2>3, <2>4, <3>1
  <2>7. RsHoneyInv'
    BY <1>h, <2>1, <2>4, <2>5, <2>6 DEF RsHoneyInv
  <2> QED BY <2>1, <2>7 DEF RsInv
<1>6. CASE RsOthers
  <2>1. PICK p \in RsHoneyPaths, content \in RsContents \union {"gone"} : rsDisk' = [rsDisk EXCEPT ![p] = content]
    BY <1>6 DEF RsOthers
  <2>2. UNCHANGED <<rsEvents, rsNow, rsHoney, rsHoneyTold>>
    BY <1>6 DEF RsOthers, rsIoVars
  <2>3. rsDisk' \in [RsHoneyPaths -> RsHash]
    BY <1>h, <2>1 DEF RsHash
  <2> QED BY <2>2, <2>3 DEF RsInv, RsHoneyInv
<1>7. CASE UNCHANGED rsVars
  BY <1>7 DEF rsVars, rsIoVars, rsHoneyVars, RsInv, RsHoneyInv
<1> QED BY <1>1, <1>2, <1>3, <1>4, <1>5, <1>6, <1>7 DEF RsIoNext, RsHoneyNext

\* Whatever events come with times of their own, and however often a honeyfile
\* is added and touched: no event of a burst is missed and no entry of the
\* honeyfiles alarmed twice.
THEOREM ShieldCountsRight == RsSpec => [](RsBurstExact /\ RsHoneyAlarmedOnce)
<1>1. RsInit => RsInv
  <2> SUFFICES ASSUME RsInit PROVE RsInv
    OBVIOUS
  <2>1. rsDisk \in [RsHoneyPaths -> RsHash]
    BY DEF RsInit, RsHash
  <2>2. rsHoney = <<>> /\ rsHoneyTold = <<>> /\ rsEvents = <<>> /\ rsNow = 1
    BY DEF RsInit
  <2> QED BY <2>1, <2>2 DEF RsInv, RsHoneyInv
<1>2. RsInv => RsBurstExact /\ RsHoneyAlarmedOnce
  BY RsBurstIsExact DEF RsInv, RsHoneyInv, RsHoneyAlarmedOnce
<1> QED BY <1>1, <1>2, RsStepKeeps, PTL DEF RsSpec

-----------------------------------------------------------------------------
(* FileIntegrityEngine: nothing that a check skips has changed.               *)

FimRecord(pc, left, seen, poll, quiet, alerts) ==
  [pc |-> pc, left |-> left, seen |-> seen, poll |-> poll, quiet |-> quiet, alerts |-> alerts]

FimTypes ==
  /\ fimDisk = [p \in FimFiles |-> fimDisk[p]] /\ fimTimes = [p \in FimFiles |-> fimTimes[p]]
  /\ \A p \in FimFiles : fimDisk[p].mtime \in fimTimes[p] /\ FimNoTime \notin fimTimes[p]
  /\ DOMAIN fimBase \subseteq FimFiles
  /\ fim = FimRecord(fim.pc, fim.left, fim.seen, fim.poll, fim.quiet, fim.alerts)
  /\ fim.left \subseteq FimFiles /\ fim.poll \in Nat /\ fim.quiet \in Nat /\ fim.quiet <= 5
\* A time in the baseline is one that the file had.
FimBaseInv == \A p \in DOMAIN fimBase : fimBase[p].mtime \in fimTimes[p] \union {FimNoTime}

\* What was read first of the file that is visited: in build_baseline() its
\* hash, in a check its time.
FimSeenInv ==
  /\ fim.pc = "check" => fim.left \subseteq DOMAIN fimBase
  /\ fim.seen # <<>> =>
       /\ fim.pc \in {"build", "check"} /\ fim.seen[1] \in fim.left
       /\ fim.pc = "build" /\ fim.seen[1] \notin fimBlind => fimDisk[fim.seen[1]].content = fim.seen[2]
       /\ fim.pc = "check" => fim.seen[2] \in fimTimes[fim.seen[1]]

\* The inductive invariant.
FimInv == FimTypes /\ FimBaseInv /\ FimSeenInv /\ FimTimeTellsContent /\ FimLongPauseEarned

\* No step of the engine or of another program breaks it.
LEMMA FimStepKeeps == FimInv /\ [FimNext]_fimVars => FimInv'
<1> SUFFICES ASSUME FimInv, [FimNext]_fimVars PROVE FimInv'
  OBVIOUS
<1>0. /\ fimDisk = [p \in FimFiles |-> fimDisk[p]] /\ fimTimes = [p \in FimFiles |-> fimTimes[p]]
      /\ \A p \in FimFiles : fimDisk[p].mtime \in fimTimes[p] /\ FimNoTime \notin fimTimes[p]
      /\ fim.left \subseteq FimFiles /\ fim.poll \in Nat /\ fim.quiet \in Nat /\ fim.quiet <= 5 /\ DOMAIN fimBase \subseteq FimFiles
      /\ fim = FimRecord(fim.pc, fim.left, fim.seen, fim.poll, fim.quiet, fim.alerts)
  BY DEF FimInv, FimTypes
<1>1. CASE FimStart
  <2>1. /\ fim.seen = <<>>
        /\ fim' = FimRecord("build", FimFiles, fim.seen, fim.poll, fim.quiet, fim.alerts)
        /\ fimBase' = <<>> /\ UNCHANGED fimDisk /\ fimTimes' = [p \in FimFiles |-> {fimDisk[p].mtime}]
    BY <1>0, <1>1 DEF FimStart, FimRecord, FimInv, FimSeenInv
  <2>2. DOMAIN fimBase' = {}
    BY <2>1
  <2> QED BY <1>0, <2>1, <2>2 DEF FimInv, FimRecord, FimTypes, FimBaseInv, FimSeenInv, FimTimeTellsContent, FimLongPauseEarned
<1>2. ASSUME NEW p \in FimFiles, FimBuildHash(p) PROVE FimInv'
  <2>0. fim.pc = "build" /\ p \in fim.left /\ fim.seen = <<>> /\ UNCHANGED <<fimDisk, fimBase, fimTold, fimTimes, fimBlind>>
    BY <1>2 DEF FimBuildHash
  <2>1. CASE fim' = [fim EXCEPT !.seen = <<p, fimDisk[p].content>>]
    <3>1. fim' = FimRecord(fim.pc, fim.left, <<p, fimDisk[p].content>>, fim.poll, fim.quiet, fim.alerts)
      BY <1>0, <2>1 DEF FimRecord
    <3> QED BY <1>0, <2>0, <3>1 DEF FimInv, FimRecord, FimTypes, FimBaseInv, FimSeenInv, FimTimeTellsContent, FimHere, FimLongPauseEarned
  <2>2. CASE fim' = [fim EXCEPT !.left = @ \ {p}]
    <3>1. fim' = FimRecord(fim.pc, fim.left \ {p}, fim.seen, fim.poll, fim.quiet, fim.alerts)
      BY <1>0, <2>2 DEF FimRecord
    <3> QED BY <1>0, <2>0, <3>1 DEF FimInv, FimRecord, FimTypes, FimBaseInv, FimSeenInv, FimTimeTellsContent, FimHere, FimLongPauseEarned
  <2> QED BY <1>2, <2>1, <2>2 DEF FimBuildHash
<1>3. CASE FimBuildTime
  <2>1. PICK p : p = fim.seen[1]
    OBVIOUS
  <2>2. p \in FimFiles /\ fim.pc = "build" /\ (p \notin fimBlind => fimDisk[p].content = fim.seen[2])
    BY <1>0, <1>3, <2>1 DEF FimBuildTime, FimInv, FimSeenInv
  <2>3. fim' = FimRecord(fim.pc, fim.left \ {p}, <<>>, fim.poll, fim.quiet, fim.alerts) /\ UNCHANGED <<fimDisk, fimTimes, fimBlind>>
    BY <1>0, <1>3, <2>1 DEF FimBuildTime, FimRecord
  <2>4. /\ DOMAIN fimBase' = DOMAIN fimBase \union {p}
        /\ \E time \in {fimDisk[p].mtime, FimNoTime} : fimBase'[p] = [sha256 |-> fim.seen[2], mtime |-> time]
        /\ \A q \in DOMAIN fimBase : q # p => fimBase'[q] = fimBase[q]
    BY <1>3, <2>1 DEF FimBuildTime
  <2>5. FimTypes' /\ FimSeenInv' /\ FimLongPauseEarned'
    BY <1>0, <2>2, <2>3, <2>4 DEF FimInv, FimRecord, FimTypes, FimSeenInv, FimLongPauseEarned
  <2>6. FimBaseInv'
    <3>1. fimBase'[p].mtime \in fimTimes[p] \union {FimNoTime}
      BY <1>0, <2>2, <2>4
    <3>2. \A q \in DOMAIN fimBase : fimBase[q].mtime \in fimTimes[q] \union {FimNoTime}
      BY DEF FimInv, FimBaseInv
    <3>3. \A q \in DOMAIN fimBase' : fimBase'[q].mtime \in fimTimes'[q] \union {FimNoTime}
      BY <2>3, <2>4, <3>1, <3>2
    <3> QED BY <3>3 DEF FimBaseInv, FimNoTime
  <2>7. FimTimeTellsContent'
    BY <2>2, <2>3, <2>4 DEF FimInv, FimTimeTellsContent, FimHere
  <2> QED BY <2>5, <2>6, <2>7 DEF FimInv
<1>4. CASE FimSleeps
  <2>1. fim.seen = <<>> /\ fim.left = {} /\ UNCHANGED <<fimDisk, fimBase, fimTimes, fimBlind>>
    BY <1>4 DEF FimSleeps, FimInv, FimSeenInv
  <2>2. PICK poll, quiet, alerts :
          /\ fim' = FimRecord("sleep", fim.left, fim.seen, poll, quiet, alerts)
          /\ poll \in Nat /\ quiet \in Nat /\ quiet <= 5 /\ (poll > 1 => quiet = 5)
    <3>1. CASE fim.pc = "build"
      <4>1. fim' = FimRecord("sleep", fim.left, fim.seen, 1, 0, fim.alerts)
        BY <1>0, <1>4, <3>1 DEF FimSleeps, FimRecord
      <4> QED BY <4>1
    <3>2. CASE fim.pc # "build" /\ fim.alerts > 0
      <4>1. fim' = FimRecord("sleep", fim.left, fim.seen, 1, 0, 0)
        BY <1>0, <1>4, <3>2 DEF FimSleeps, FimPause, FimRecord
      <4> QED BY <4>1
    <3>3. CASE fim.pc # "build" /\ ~ (fim.alerts > 0)
      <4> DEFINE quiet == IF fim.quiet < 5 THEN fim.quiet + 1 ELSE fim.quiet
                 poll == IF fim.quiet >= 4 /\ fim.poll < FimPolls THEN fim.poll + 1 ELSE fim.poll
      <4>1. fim' = FimRecord("sleep", fim.left, fim.seen, poll, quiet, fim.alerts)
        BY <1>0, <1>4, <3>3 DEF FimSleeps, FimPause, FimRecord
      <4>2. fim.poll > 1 => fim.quiet = 5
        BY DEF FimInv, FimLongPauseEarned
      <4>3. poll \in Nat /\ quiet \in Nat /\ quiet <= 5 /\ (poll > 1 => quiet = 5)
        BY <1>0, <4>2
      <4> QED BY <4>1, <4>3
    <3> QED BY <3>1, <3>2, <3>3
  <2> QED BY <1>0, <2>1, <2>2 DEF FimInv, FimRecord, FimTypes, FimBaseInv, FimSeenInv, FimTimeTellsContent, FimHere, FimLongPauseEarned
<1>5. CASE FimWakes \/ FimStop
  <2>1. fim.seen = <<>> /\ UNCHANGED <<fimDisk, fimBase, fimTimes, fimBlind>>
    BY <1>5 DEF FimWakes, FimStop, FimInv, FimSeenInv
  <2>2. \/ fim' = FimRecord("check", DOMAIN fimBase, fim.seen, fim.poll, fim.quiet, fim.alerts)
        \/ fim' = FimRecord("off", fim.left, fim.seen, fim.poll, fim.quiet, fim.alerts)
    BY <1>0, <1>5 DEF FimWakes, FimStop, FimRecord
  <2>3. /\ fim' = FimRecord(fim'.pc, fim'.left, fim'.seen, fim'.poll, fim'.quiet, fim'.alerts)
        /\ fim'.seen = <<>> /\ fim'.poll = fim.poll /\ fim'.quiet = fim.quiet /\ fim'.left \subseteq FimFiles
        /\ fim'.pc = "check" => fim'.left = DOMAIN fimBase
    <3>1. CASE fim' = FimRecord("check", DOMAIN fimBase, fim.seen, fim.poll, fim.quiet, fim.alerts)
      BY <1>0, <2>1, <3>1 DEF FimRecord
    <3>2. CASE fim' = FimRecord("off", fim.left, fim.seen, fim.poll, fim.quiet, fim.alerts)
      BY <1>0, <2>1, <3>2 DEF FimRecord
    <3> QED BY <2>2, <3>1, <3>2
  <2>4. FimTypes' /\ FimSeenInv' /\ FimLongPauseEarned'
    BY <1>0, <2>1, <2>3 DEF FimInv, FimTypes, FimSeenInv, FimLongPauseEarned
  <2>5. FimBaseInv' /\ FimTimeTellsContent'
    BY <2>1 DEF FimInv, FimBaseInv, FimTimeTellsContent, FimHere
  <2> QED BY <2>4, <2>5 DEF FimInv
<1>6. ASSUME NEW p \in FimFiles, FimCheckTime(p) PROVE FimInv'
  <2>0. fim.pc = "check" /\ p \in fim.left /\ fim.seen = <<>> /\ UNCHANGED <<fimDisk, fimBase, fimTimes, fimBlind>>
    BY <1>6 DEF FimCheckTime
  <2>1. PICK left, seen, alerts :
          /\ fim' = FimRecord(fim.pc, left, seen, fim.poll, fim.quiet, alerts)
          /\ \/ left = fim.left /\ seen = <<p, fimDisk[p].mtime>>
             \/ left = fim.left \ {p} /\ seen = <<>>
    <3>1. CASE fim' = [fim EXCEPT !.seen = <<p, fimDisk[p].mtime>>]
      <4>1. fim' = FimRecord(fim.pc, fim.left, <<p, fimDisk[p].mtime>>, fim.poll, fim.quiet, fim.alerts)
        BY <1>0, <3>1 DEF FimRecord
      <4> QED BY <4>1
    <3>2. CASE fim' = [fim EXCEPT !.left = @ \ {p}]
      <4>1. fim' = FimRecord(fim.pc, fim.left \ {p}, <<>>, fim.poll, fim.quiet, fim.alerts)
        BY <1>0, <2>0, <3>2 DEF FimRecord
      <4> QED BY <4>1
    <3>3. CASE fim' = [fim EXCEPT !.left = @ \ {p}, !.alerts = @ + 1]
      <4>1. fim' = FimRecord(fim.pc, fim.left \ {p}, <<>>, fim.poll, fim.quiet, fim.alerts + 1)
        BY <1>0, <2>0, <3>3 DEF FimRecord
      <4> QED BY <4>1
    <3> QED BY <1>6, <3>1, <3>2, <3>3 DEF FimCheckTime
  <2>2. left \subseteq fim.left /\ (seen # <<>> => seen[1] = p /\ p \in left /\ seen[2] = fimDisk[p].mtime)
    BY <2>0, <2>1
  <2> HIDE DEF FimRecord
  <2>3. fim'.pc = "check" /\ fim'.left = left /\ fim'.seen = seen /\ fim'.poll = fim.poll /\ fim'.quiet = fim.quiet /\ fim'.alerts = alerts
    BY <2>0, <2>1 DEF FimRecord
  <2>4. FimTypes' /\ FimLongPauseEarned'
    BY <1>0, <2>0, <2>1, <2>2, <2>3 DEF FimInv, FimTypes, FimLongPauseEarned
  <2>5. FimSeenInv'
    BY <1>0, <2>0, <2>2, <2>3 DEF FimInv, FimSeenInv
  <2>6. FimBaseInv' /\ FimTimeTellsContent'
    BY <2>0 DEF FimInv, FimBaseInv, FimTimeTellsContent, FimHere
  <2> QED BY <2>4, <2>5, <2>6 DEF FimInv
<1>7. CASE FimCheckHash
  <2>1. PICK p : p = fim.seen[1]
    OBVIOUS
  <2>2. /\ p \in FimFiles /\ fim.pc = "check" /\ p \in DOMAIN fimBase /\ fim.left \subseteq DOMAIN fimBase
        /\ fim.seen[2] \in fimTimes[p]
    BY <1>0, <1>7, <2>1 DEF FimCheckHash, FimInv, FimSeenInv
  <2>3. PICK hash :
          /\ FimNote(p, hash) /\ UNCHANGED <<fimDisk, fimTimes>>
          /\ \/ hash = fimDisk[p].content /\ fimBlind' = fimBlind \ {p}
             \/ fimBlind' = fimBlind \union {p}
    BY <1>7, <2>1 DEF FimCheckHash
  <2>4. PICK alerts : fim' = FimRecord(fim.pc, fim.left \ {p}, <<>>, fim.poll, fim.quiet, alerts)
    <3>1. fim' = FimRecord(fim.pc, fim.left \ {p}, <<>>, fim.poll, fim.quiet, IF hash # fimBase[p].sha256 THEN fim.alerts + 1 ELSE fim.alerts)
      BY <1>0, <2>3 DEF FimNote, FimRecord
    <3> QED BY <3>1
  <2>5. /\ DOMAIN fimBase' = DOMAIN fimBase
        /\ fimBase'[p] = [sha256 |-> hash, mtime |-> fim.seen[2]]
        /\ \A q \in DOMAIN fimBase : q # p => fimBase'[q] = fimBase[q]
    BY <2>2, <2>3 DEF FimNote
  <2>6. FimTypes' /\ FimSeenInv' /\ FimLongPauseEarned'
    BY <1>0, <2>2, <2>3, <2>4, <2>5 DEF FimInv, FimRecord, FimTypes, FimSeenInv, FimLongPauseEarned
  <2>7. FimBaseInv'
    <3>1. fimBase'[p].mtime \in fimTimes[p] \union {FimNoTime}
      BY <2>2, <2>5
    <3>2. \A q \in DOMAIN fimBase : fimBase[q].mtime \in fimTimes[q] \union {FimNoTime}
      BY DEF FimInv, FimBaseInv
    <3>3. \A q \in DOMAIN fimBase' : fimBase'[q].mtime \in fimTimes'[q] \union {FimNoTime}
      BY <2>3, <2>5, <3>1, <3>2
    <3> QED BY <3>3 DEF FimBaseInv, FimNoTime
  <2>8. FimTimeTellsContent'
    BY <2>2, <2>3, <2>5 DEF FimInv, FimTimeTellsContent, FimHere
  <2> QED BY <2>6, <2>7, <2>8 DEF FimInv
<1>8. ASSUME NEW p \in FimFiles, NEW content, NEW time \in 1 .. FimMaxTime, FimOthersWrite(p, content, time) PROVE FimInv'
  <2>1. /\ fimDisk' = [fimDisk EXCEPT ![p] = [content |-> content, mtime |-> time]]
        /\ fimTimes' = [fimTimes EXCEPT ![p] = fimTimes[p] \union {time}]
        /\ UNCHANGED <<fimBase, fim>> /\ fimBlind \subseteq fimBlind'
        /\ time \in fimTimes[p] \/ (fim.pc = "build" /\ fim.seen # <<>> /\ fim.seen[1] = p) => p \in fimBlind'
        /\ fimBlind' \subseteq fimBlind \union {p}
    BY <1>0, <1>8 DEF FimOthersWrite
  <2>2. /\ fimDisk' = [q \in FimFiles |-> fimDisk'[q]] /\ fimTimes' = [q \in FimFiles |-> fimTimes'[q]]
        /\ fimDisk'[p] = [content |-> content, mtime |-> time] /\ fimTimes'[p] = fimTimes[p] \union {time}
        /\ \A q \in FimFiles : q # p => fimDisk'[q] = fimDisk[q] /\ fimTimes'[q] = fimTimes[q]
    BY <1>0, <2>1
  <2>3. fimDisk'[p].mtime = time /\ time # FimNoTime
    BY <2>2 DEF FimNoTime
  <2>4. FimTypes' /\ FimLongPauseEarned'
    BY <1>0, <2>1, <2>2, <2>3 DEF FimInv, FimTypes, FimLongPauseEarned
  <2>5. FimBaseInv'
    BY <1>0, <2>1, <2>2 DEF FimInv, FimBaseInv
  <2>6. FimSeenInv'
    BY <1>0, <2>1, <2>2, <2>3 DEF FimInv, FimSeenInv
  <2>7. FimTimeTellsContent'
    <3> SUFFICES ASSUME NEW q \in DOMAIN fimBase, q \notin fimBlind', FimHere(q)', fimDisk'[q].mtime = fimBase[q].mtime
                 PROVE  fimDisk'[q].content = fimBase[q].sha256
      BY <2>1 DEF FimTimeTellsContent
    <3>1. q \in FimFiles /\ fimBase[q].mtime \in fimTimes[q] \union {FimNoTime}
      BY <1>0 DEF FimInv, FimBaseInv
    <3>2. q # p
      BY <2>1, <2>3, <3>1
    <3> QED BY <2>1, <2>2, <3>1, <3>2 DEF FimInv, FimTimeTellsContent, FimHere
  <2> QED BY <2>4, <2>5, <2>6, <2>7 DEF FimInv
<1>9. CASE UNCHANGED fimVars
  BY <1>9 DEF fimVars, FimInv, FimTypes, FimBaseInv, FimSeenInv, FimTimeTellsContent, FimHere, FimLongPauseEarned
<1> QED BY <1>1, <1>2, <1>3, <1>4, <1>5, <1>6, <1>7, <1>8, <1>9 DEF FimNext

\* However checks and writes interleave, a file whose time is the one of the
\* baseline has the content of the baseline, and only quiet passes lengthen the
\* pause.
THEOREM ChecksMissNothing == FimSpec => [](FimTimeTellsContent /\ FimLongPauseEarned)
<1>1. FimInit => FimInv
  <2> SUFFICES ASSUME FimInit PROVE FimInv
    OBVIOUS
  <2>1. FimTypes
    BY DEF FimInit, FimTypes, FimRecord, FimNoTime
  <2>2. DOMAIN fimBase = {}
    BY DEF FimInit
  <2> QED BY <2>1, <2>2 DEF FimInit, FimInv, FimBaseInv, FimSeenInv, FimTimeTellsContent, FimLongPauseEarned
<1>2. FimInv => FimTimeTellsContent /\ FimLongPauseEarned
  BY DEF FimInv
<1> QED BY <1>1, <1>2, FimStepKeeps, PTL DEF FimSpec

-----------------------------------------------------------------------------
(* ArhsEngine: the snapshots that a rollback would restore.                   *)

\* A ring that has room for one more.
LEMMA RolledNone ==
  ASSUME NEW T, NEW s \in Seq(T), NEW x \in T, NEW t, t = Append(s, x)
  PROVE  t \in Seq(T) /\ Shifted(s, x, t, 0)
<1>1. /\ t \in Seq(T) /\ Len(s) \in Nat /\ Len(t) = Len(s) + 1
      /\ \A i \in 1 .. Len(s) + 1 : t[i] = IF i = Len(s) + 1 THEN x ELSE s[i]
  OBVIOUS
<1> QED BY <1>1 DEF Shifted

\* A ring that drops its oldest entry before the new one is written.
LEMMA RolledBefore ==
  ASSUME NEW T, NEW s \in Seq(T), NEW x \in T, s # <<>>, NEW t, t = Append(Tail(s), x)
  PROVE  t \in Seq(T) /\ Shifted(s, x, t, 1)
<1>1. PICK u : u = Tail(s)
  OBVIOUS
<1>2. /\ Len(s) \in Nat /\ Len(s) # 0 /\ u \in Seq(T) /\ Len(u) = Len(s) - 1
      /\ \A i \in 1 .. (Len(s) - 1) : u[i] = s[i + 1]
  BY <1>1
<1>3. /\ t \in Seq(T) /\ Len(t) = Len(s) + 1 - 1
      /\ \A i \in 1 .. Len(t) : t[i] = IF i = Len(s) THEN x ELSE u[i]
  <2>1. t = Append(u, x)
    BY <1>1
  <2>2. t \in Seq(T) /\ Len(t) = Len(u) + 1 /\ \A i \in 1 .. Len(u) + 1 : t[i] = IF i = Len(u) + 1 THEN x ELSE u[i]
    BY <1>2, <2>1
  <2>3. Len(u) + 1 = Len(s) /\ Len(s) + 1 - 1 = Len(s)
    BY <1>2
  <2> QED BY <2>2, <2>3
<1>4. ASSUME NEW i \in 1 .. Len(t)
      PROVE  \/ i + 1 = Len(s) + 1 /\ t[i] = x
             \/ i + 1 \in 1 .. Len(s) /\ t[i] = s[i + 1]
  <2>1. CASE i = Len(s)
    BY <1>3, <2>1
  <2>2. CASE i # Len(s)
    <3>1. i \in 1 .. (Len(s) - 1) /\ i + 1 \in 1 .. Len(s) /\ t[i] = u[i]
      BY <1>2, <1>3, <2>2
    <3> QED BY <1>2, <3>1
  <2> QED BY <2>1, <2>2
<1> QED BY <1>3, <1>4 DEF Shifted

\* What a file can hold.
ArhsAny == ArhsContents \union {"gone", CHOOSE c \in ArhsContents : c \notin Encrypted}

ArhsShot == [path : ArhsFiles, data : ArhsAny]

ArhsAt(path, hash, stage) == [path |-> path, hash |-> hash, stage |-> stage]

ArhsRecord(running, hashes, ring, changes, left, at, pending, alarms, rapid, sandboxed) ==
  [running |-> running, hashes |-> hashes, ring |-> ring, changes |-> changes, left |-> left,
   at |-> at, pending |-> pending, alarms |-> alarms, rapid |-> rapid, sandboxed |-> sandboxed]

ArhsShape(a) ==
  /\ a = ArhsRecord(a.running, a.hashes, a.ring, a.changes, a.left, a.at, a.pending, a.alarms, a.rapid, a.sandboxed)
  /\ a.at = ArhsAt(a.at.path, a.at.hash, a.at.stage)
  /\ a.left \subseteq ArhsFiles

ArhsTypes == arhsDisk \in [ArhsFiles -> ArhsAny] /\ ArhsShape(arhs) /\ arhs.ring \in Seq(ArhsShot)

\* i is the newest snapshot of p in the ring s.
ArhsLast(s, p, i) == i \in 1 .. Len(s) /\ s[i].path = p /\ \A j \in (i + 1) .. Len(s) : s[j].path # p

\* The ring s, with the hashes, the files met encrypted and the files written
\* or not readable during a visit: only files with a hash are in it, and both properties hold.
ArhsRingGood(s, hashes, met, raced) ==
  /\ \A i \in 1 .. Len(s) : s[i].path \in DOMAIN hashes
  /\ \A i \in 1 .. Len(s) : s[i].data \in Encrypted /\ s[i].path \notin raced => s[i].path \in met
  /\ \A p \in ArhsFiles : p \notin raced => \A i \in 1 .. Len(s) : ArhsLast(s, p, i) => hashes[p] = s[i].data

\* The visit under way: what was hashed is still there, unless the file was
\* written since.
ArhsVisitInv ==
  arhs.at.stage \in {"scanned", "hashed", "clean"} =>
    /\ arhs.at.path \in ArhsFiles
    /\ arhs.at.path \notin arhsRaced => arhs.at.hash = arhsDisk[arhs.at.path]
    /\ arhs.at.stage = "clean" =>
         /\ arhs.at.path \in DOMAIN arhs.hashes
         /\ arhs.at.path \notin arhsRaced => arhsDisk[arhs.at.path] \notin Encrypted

\* The inductive invariant.
ArhsInv == ArhsTypes /\ ArhsRingGood(arhs.ring, arhs.hashes, arhsMet, arhsRaced) /\ ArhsVisitInv

\* The ring s after a snapshot of p.
ArhsRung(s, p) == Append(IF Len(s) >= MAX_SNAPSHOTS THEN Tail(s) ELSE s, [path |-> p, data |-> arhsDisk[p]])

\* A new hash and a new snapshot of one file: the hash is that of the snapshot,
\* unless the file was written or not readable during the visit.
LEMMA ArhsShotTaken ==
  ASSUME ArhsTypes, NEW p \in ArhsFiles, NEW hash, NEW met, arhsMet \subseteq met,
         ArhsRingGood(arhs.ring, arhs.hashes, arhsMet, arhsRaced),
         p \notin arhsRaced => hash = arhsDisk[p],
         p \notin arhsRaced /\ arhsDisk[p] \in Encrypted => p \in met,
         NEW hashes, DOMAIN hashes = DOMAIN arhs.hashes \union {p}, hashes[p] = hash,
         \A q \in DOMAIN arhs.hashes : q # p => hashes[q] = arhs.hashes[q],
         NEW ring, ring = ArhsRung(arhs.ring, p)
  PROVE  ring \in Seq(ArhsShot) /\ ArhsRingGood(ring, hashes, met, arhsRaced)
<1>a. PICK s : s = arhs.ring
  OBVIOUS
<1>b. s \in Seq(ArhsShot) /\ Len(s) \in Nat /\ ArhsRingGood(s, arhs.hashes, arhsMet, arhsRaced)
  BY <1>a DEF ArhsTypes
<1>1. PICK x : x = [path |-> p, data |-> arhsDisk[p]]
  OBVIOUS
<1>2. x \in ArhsShot /\ x.path = p /\ x.data = arhsDisk[p]
  BY <1>1 DEF ArhsTypes, ArhsShot
<1>3. ring \in Seq(ArhsShot) /\ \E d \in {0, 1} : Shifted(s, x, ring, d)
  <2>1. CASE Len(s) >= MAX_SNAPSHOTS
    <3>1. s # <<>>
      BY <1>b, <2>1, ArhsConstants
    <3>2. ring = Append(Tail(s), x)
      BY <1>a, <1>1, <2>1 DEF ArhsRung
    <3>3. ring \in Seq(ArhsShot) /\ Shifted(s, x, ring, 1)
      BY <1>b, <1>2, <3>1, <3>2, RolledBefore
    <3> QED BY <3>3
  <2>2. CASE ~ (Len(s) >= MAX_SNAPSHOTS)
    <3>1. ring = Append(s, x)
      BY <1>a, <1>1, <2>2 DEF ArhsRung
    <3>2. ring \in Seq(ArhsShot) /\ Shifted(s, x, ring, 0)
      BY <1>b, <1>2, <3>1, RolledNone
    <3> QED BY <3>2
  <2> QED BY <2>1, <2>2
<1>4. PICK d \in {0, 1} : Shifted(s, x, ring, d)
  BY <1>3
<1>5. Len(ring) \in Nat /\ Len(ring) = Len(s) + 1 - d
  BY <1>3, <1>4 DEF Shifted
<1>6. ASSUME NEW i \in 1 .. Len(ring)
      PROVE  \/ i + d = Len(s) + 1 /\ ring[i] = x
             \/ i + d \in 1 .. Len(s) /\ ring[i] = s[i + d]
  BY <1>4 DEF Shifted
<1>7. \A i \in 1 .. Len(ring) : ring[i].path \in DOMAIN hashes
  <2> SUFFICES ASSUME NEW i \in 1 .. Len(ring) PROVE ring[i].path \in DOMAIN hashes
    OBVIOUS
  <2>1. CASE ring[i] = x
    BY <1>2, <2>1
  <2>2. CASE i + d \in 1 .. Len(s) /\ ring[i] = s[i + d]
    BY <1>b, <2>2 DEF ArhsRingGood
  <2> QED BY <1>6, <2>1, <2>2
<1>8. \A i \in 1 .. Len(ring) : ring[i].data \in Encrypted /\ ring[i].path \notin arhsRaced => ring[i].path \in met
  <2> SUFFICES ASSUME NEW i \in 1 .. Len(ring), ring[i].data \in Encrypted, ring[i].path \notin arhsRaced PROVE ring[i].path \in met
    OBVIOUS
  <2>1. CASE ring[i] = x
    BY <1>2, <2>1
  <2>2. CASE i + d \in 1 .. Len(s) /\ ring[i] = s[i + d]
    BY <1>b, <2>2 DEF ArhsRingGood
  <2> QED BY <1>6, <2>1, <2>2
<1>9. ASSUME NEW q \in ArhsFiles, q \notin arhsRaced, NEW i \in 1 .. Len(ring), ArhsLast(ring, q, i) PROVE hashes[q] = ring[i].data
  <2>1. CASE i + d = Len(s) + 1 /\ ring[i] = x
    <3>1. q = p
      BY <1>2, <1>9, <2>1 DEF ArhsLast
    <3> QED BY <1>2, <1>9, <2>1, <3>1
  <2>2. CASE i + d \in 1 .. Len(s) /\ ring[i] = s[i + d]
    <3>1. PICK n : n = Len(ring)
      OBVIOUS
    <3>2. n \in 1 .. Len(ring) /\ n + d = Len(s) + 1 /\ n \in (i + 1) .. Len(ring)
      BY <1>b, <1>5, <2>2, <3>1
    <3>3. ring[n] = x
      BY <1>b, <1>6, <3>2
    <3>4. q # p
      BY <1>2, <1>9, <3>2, <3>3 DEF ArhsLast
    <3>5. ASSUME NEW j \in ((i + d) + 1) .. Len(s) PROVE s[j].path # q
      <4>1. PICK k : k = j - d
        OBVIOUS
      <4>2. k \in 1 .. Len(ring) /\ k \in (i + 1) .. Len(ring) /\ k + d = j /\ k + d # Len(s) + 1
        BY <1>b, <1>5, <2>2, <4>1
      <4>3. ring[k] = s[k + d]
        BY <1>6, <4>2
      <4>4. ring[k].path # q
        BY <1>9, <4>2 DEF ArhsLast
      <4> QED BY <4>2, <4>3, <4>4
    <3>6. ArhsLast(s, q, i + d)
      BY <1>9, <2>2, <3>5 DEF ArhsLast
    <3>7. arhs.hashes[q] = s[i + d].data /\ q \in DOMAIN arhs.hashes
      BY <1>b, <1>9, <2>2, <3>6 DEF ArhsRingGood, ArhsLast
    <3> QED BY <2>2, <3>4, <3>7
  <2> QED BY <1>6, <2>1, <2>2
<1> QED BY <1>3, <1>7, <1>8, <1>9 DEF ArhsRingGood

\* A new hash alone: the file is one that was not readable during the visit.
LEMMA ArhsShotMissed ==
  ASSUME NEW s, NEW p \in ArhsFiles, NEW met, arhsMet \subseteq met, NEW raced, raced = arhsRaced \union {p},
         ArhsRingGood(s, arhs.hashes, arhsMet, arhsRaced),
         NEW hashes, DOMAIN hashes = DOMAIN arhs.hashes \union {p},
         \A q \in DOMAIN arhs.hashes : q # p => hashes[q] = arhs.hashes[q]
  PROVE  ArhsRingGood(s, hashes, met, raced)
<1>1. \A i \in 1 .. Len(s) : s[i].path \in DOMAIN hashes
  BY DEF ArhsRingGood
<1>2. \A i \in 1 .. Len(s) : s[i].data \in Encrypted /\ s[i].path \notin raced => s[i].path \in met
  BY DEF ArhsRingGood
<1>3. ASSUME NEW q \in ArhsFiles, q \notin raced, NEW i \in 1 .. Len(s), ArhsLast(s, q, i) PROVE hashes[q] = s[i].data
  <2>1. q # p /\ q \notin arhsRaced /\ q \in DOMAIN arhs.hashes
    BY <1>3 DEF ArhsRingGood, ArhsLast
  <2> QED BY <1>3, <2>1 DEF ArhsRingGood
<1> QED BY <1>1, <1>2, <1>3 DEF ArhsRingGood

\* A step that leaves files, hashes and ring alone, and begins no visit.
LEMMA ArhsQuiet ==
  ASSUME ArhsInv, NEW running, NEW changes, NEW left, NEW at, NEW pending, NEW alarms, NEW rapid, NEW sandboxed,
         arhs' = ArhsRecord(running, arhs.hashes, arhs.ring, changes, left, at, pending, alarms, rapid, sandboxed),
         left \subseteq ArhsFiles, at = ArhsAt(at.path, at.hash, at.stage),
         at = arhs.at \/ at.stage \notin {"scanned", "hashed", "clean"},
         UNCHANGED <<arhsDisk, arhsRaced>>, arhsMet \subseteq arhsMet'
  PROVE  ArhsInv'
<1>1. arhs'.hashes = arhs.hashes /\ arhs'.ring = arhs.ring /\ arhs'.left = left /\ arhs'.at = at
  BY DEF ArhsRecord
<1>2. ArhsShape(arhs)'
  BY DEF ArhsShape, ArhsRecord
<1>3. ArhsTypes'
  BY <1>1, <1>2 DEF ArhsInv, ArhsTypes
<1>4. ArhsVisitInv'
  BY <1>1 DEF ArhsInv, ArhsVisitInv
<1>5. ArhsRingGood(arhs.ring, arhs.hashes, arhsMet, arhsRaced)'
  BY <1>1 DEF ArhsInv, ArhsRingGood, ArhsLast
<1> QED BY <1>3, <1>4, <1>5 DEF ArhsInv

\* What take_snapshot_unlocked() leaves: a ring with the file, or a file that
\* was not readable.
ArhsTook(p, ring) ==
  \/ ring = ArhsRung(arhs.ring, p) /\ UNCHANGED arhsRaced
  \/ ring = arhs.ring /\ arhsRaced' = arhsRaced \union {p}

LEMMA ArhsSnapshotIs ==
  ASSUME NEW a, NEW p, p = arhs.at.path, NEW hashes, NEW left, NEW at, ArhsSnapshot(a),
         a = ArhsRecord(arhs.running, hashes, arhs.ring, arhs.changes, left, at, arhs.pending, arhs.alarms, arhs.rapid, arhs.sandboxed)
  PROVE  \E ring :
           /\ ArhsTook(p, ring)
           /\ arhs' = ArhsRecord(arhs.running, hashes, ring, arhs.changes, left, at, arhs.pending, arhs.alarms, arhs.rapid, arhs.sandboxed)
<1>0. a.ring = arhs.ring
  BY DEF ArhsRecord
<1>1. CASE arhs' = a /\ arhsRaced' = arhsRaced \union {p}
  BY <1>1 DEF ArhsTook
<1>2. CASE arhs' = [a EXCEPT !.ring = Append(IF Len(@) >= MAX_SNAPSHOTS THEN Tail(@) ELSE @, [path |-> p, data |-> arhsDisk[p]])] /\ UNCHANGED arhsRaced
  <2>1. PICK ring : ring = ArhsRung(arhs.ring, p)
    OBVIOUS
  <2>2. arhs' = [a EXCEPT !.ring = ring]
    BY <1>0, <1>2, <2>1 DEF ArhsRung
  <2>3. arhs' = ArhsRecord(arhs.running, hashes, ring, arhs.changes, left, at, arhs.pending, arhs.alarms, arhs.rapid, arhs.sandboxed)
    BY <2>2 DEF ArhsRecord
  <2> QED BY <1>2, <2>1, <2>3 DEF ArhsTook
<1> QED BY <1>1, <1>2 DEF ArhsSnapshot

\* A step that takes a new hash and a snapshot of one file, and ends its visit.
LEMMA ArhsTaken ==
  ASSUME ArhsInv, NEW p \in ArhsFiles, NEW hash, NEW hashes, NEW at, NEW ring, ArhsTook(p, ring),
         arhs' = ArhsRecord(arhs.running, hashes, ring, arhs.changes, arhs.left \ {p}, at,
                            arhs.pending, arhs.alarms, arhs.rapid, arhs.sandboxed),
         at = ArhsAt(at.path, at.hash, at.stage), at.stage \notin {"scanned", "hashed", "clean"},
         UNCHANGED arhsDisk, arhsMet \subseteq arhsMet',
         p \notin arhsRaced => hash = arhsDisk[p],
         p \notin arhsRaced /\ arhsDisk[p] \in Encrypted => p \in arhsMet',
         DOMAIN hashes = DOMAIN arhs.hashes \union {p}, hashes[p] = hash,
         \A q \in DOMAIN arhs.hashes : q # p => hashes[q] = arhs.hashes[q]
  PROVE  ArhsInv'
<1>1. PICK met, raced : met = arhsMet' /\ raced = arhsRaced'
  OBVIOUS
<1>2. arhsMet \subseteq met /\ (p \notin arhsRaced /\ arhsDisk[p] \in Encrypted => p \in met)
  BY <1>1
<1>3. ring \in Seq(ArhsShot) /\ ArhsRingGood(ring, hashes, met, raced)
  <2>1. ArhsTypes /\ ArhsRingGood(arhs.ring, arhs.hashes, arhsMet, arhsRaced)
    BY DEF ArhsInv
  <2>2. CASE ring = ArhsRung(arhs.ring, p) /\ UNCHANGED arhsRaced
    <3>1. ring \in Seq(ArhsShot) /\ ArhsRingGood(ring, hashes, met, arhsRaced)
      BY <1>2, <2>1, <2>2, ArhsShotTaken
    <3> QED BY <1>1, <2>2, <3>1
  <2>3. CASE ring = arhs.ring /\ arhsRaced' = arhsRaced \union {p}
    <3>1. raced = arhsRaced \union {p} /\ ArhsRingGood(ring, arhs.hashes, arhsMet, arhsRaced)
      BY <1>1, <2>1, <2>3
    <3>2. ArhsRingGood(ring, hashes, met, raced)
      BY <1>2, <3>1, ArhsShotMissed
    <3> QED BY <2>1, <2>3, <3>2 DEF ArhsTypes
  <2> QED BY <2>2, <2>3 DEF ArhsTook
<1>4. arhs'.hashes = hashes /\ arhs'.ring = ring /\ arhs'.left = arhs.left \ {p} /\ arhs'.at = at
  BY DEF ArhsRecord
<1>5. ArhsShape(arhs)'
  <2>1. arhs.left \subseteq ArhsFiles
    BY DEF ArhsInv, ArhsTypes, ArhsShape
  <2> QED BY <2>1 DEF ArhsShape, ArhsRecord
<1>6. ArhsTypes'
  BY <1>3, <1>4, <1>5 DEF ArhsInv, ArhsTypes
<1>7. ArhsVisitInv'
  BY <1>4 DEF ArhsVisitInv
<1>8. ArhsRingGood(arhs.ring, arhs.hashes, arhsMet, arhsRaced)'
  BY <1>1, <1>3, <1>4
<1> QED BY <1>6, <1>7, <1>8 DEF ArhsInv

\* Visits, rollbacks and the writes of other programs, in any order, keep the
\* invariant.
LEMMA ArhsStepKeeps == ArhsInv /\ [ArhsNext]_arhsVars => ArhsInv'
<1> SUFFICES ASSUME ArhsInv, [ArhsNext]_arhsVars PROVE ArhsInv'
  OBVIOUS
<1>0. /\ arhs = ArhsRecord(arhs.running, arhs.hashes, arhs.ring, arhs.changes, arhs.left, arhs.at, arhs.pending,
                           arhs.alarms, arhs.rapid, arhs.sandboxed)
      /\ arhs.at = ArhsAt(arhs.at.path, arhs.at.hash, arhs.at.stage)
      /\ arhs.left \subseteq ArhsFiles /\ arhsDisk \in [ArhsFiles -> ArhsAny] /\ arhs.ring \in Seq(ArhsShot)
  BY DEF ArhsInv, ArhsTypes, ArhsShape
<1>1. ArhsNobody = ArhsAt(ArhsNobody.path, ArhsNobody.hash, ArhsNobody.stage) /\ ArhsNobody.stage = "none"
  BY DEF ArhsNobody, ArhsAt
<1>2. CASE ArhsStart
  <2>1. PICK at : at = ArhsAt(arhs.at.path, arhs.at.hash, "scan")
    OBVIOUS
  <2>2. arhs' = ArhsRecord(TRUE, arhs.hashes, arhs.ring, arhs.changes, ArhsFiles, at, arhs.pending, arhs.alarms, arhs.rapid, arhs.sandboxed)
    BY <1>0, <1>2, <2>1 DEF ArhsStart, ArhsRecord, ArhsAt
  <2>3. UNCHANGED <<arhsDisk, arhsMet, arhsRaced>> /\ at = ArhsAt(at.path, at.hash, at.stage) /\ at.stage = "scan"
    BY <1>2, <2>1 DEF ArhsStart, ArhsAt
  <2> QED BY <2>2, <2>3, ArhsQuiet
<1>3. ASSUME NEW p \in ArhsFiles, ArhsScan(p) PROVE ArhsInv'
  <2>0. UNCHANGED <<arhsDisk, arhsMet, arhsRaced>>
    BY <1>3 DEF ArhsScan
  <2>1. CASE arhs' = [arhs EXCEPT !.left = @ \ {p}]
    <3>1. PICK left : left = arhs.left \ {p}
      OBVIOUS
    <3>2. arhs' = ArhsRecord(arhs.running, arhs.hashes, arhs.ring, arhs.changes, left, arhs.at, arhs.pending, arhs.alarms, arhs.rapid, arhs.sandboxed)
      BY <1>0, <2>1, <3>1 DEF ArhsRecord
    <3> QED BY <1>0, <2>0, <3>1, <3>2, ArhsQuiet
  <2>2. CASE arhs' = [arhs EXCEPT !.at = [path |-> p, hash |-> arhsDisk[p], stage |-> "scanned"]]
    <3>1. PICK at : at = ArhsAt(p, arhsDisk[p], "scanned")
      OBVIOUS
    <3>2. arhs' = ArhsRecord(arhs.running, arhs.hashes, arhs.ring, arhs.changes, arhs.left, at, arhs.pending, arhs.alarms, arhs.rapid, arhs.sandboxed)
      BY <1>0, <2>2, <3>1 DEF ArhsRecord, ArhsAt
    <3>3. at = ArhsAt(at.path, at.hash, at.stage) /\ at.path = p /\ at.hash = arhsDisk[p] /\ at.stage = "scanned"
      BY <3>1 DEF ArhsAt
    <3>4. arhs'.hashes = arhs.hashes /\ arhs'.ring = arhs.ring /\ arhs'.left = arhs.left /\ arhs'.at = at
      BY <3>2 DEF ArhsRecord
    <3>5. ArhsShape(arhs)'
      BY <1>0, <3>2, <3>3 DEF ArhsShape, ArhsRecord
    <3>6. ArhsTypes'
      BY <1>0, <2>0, <3>4, <3>5 DEF ArhsTypes
    <3>7. ArhsVisitInv'
      BY <2>0, <3>3, <3>4 DEF ArhsVisitInv
    <3>8. ArhsRingGood(arhs.ring, arhs.hashes, arhsMet, arhsRaced)'
      BY <2>0, <3>4 DEF ArhsInv
    <3> QED BY <3>6, <3>7, <3>8 DEF ArhsInv
  <2> QED BY <1>3, <2>1, <2>2 DEF ArhsScan
<1>14. CASE ArhsScanned
  <2>1. PICK p, at, hash : p = arhs.at.path /\ at = ArhsAt("", "", "scan") /\ hash = arhs.at.hash
    OBVIOUS
  <2>2. /\ p \in ArhsFiles /\ UNCHANGED arhsDisk /\ arhsMet \subseteq arhsMet' /\ (arhsDisk[p] \in Encrypted => p \in arhsMet')
        /\ p \notin arhsRaced => hash = arhsDisk[p]
    BY <1>14, <2>1 DEF ArhsScanned, ArhsMeets, ArhsInv, ArhsVisitInv
  <2>3. PICK hashes, left : hashes = ArhsHashed(arhs.hashes, p, hash) /\ left = arhs.left \ {p}
    OBVIOUS
  <2>4. PICK a : a = ArhsRecord(arhs.running, hashes, arhs.ring, arhs.changes, left, at, arhs.pending, arhs.alarms, arhs.rapid, arhs.sandboxed)
    OBVIOUS
  <2>5. [arhs EXCEPT !.hashes = ArhsHashed(@, p, hash), !.left = @ \ {p}, !.at = [ArhsNobody EXCEPT !.stage = "scan"]] = a
    <3>1. [ArhsNobody EXCEPT !.stage = "scan"] = at
      <4>1. PICK c : c = [ArhsNobody EXCEPT !.stage = "scan"]
        OBVIOUS
      <4>2. c = ArhsAt("", "", "scan")
        BY <4>1 DEF ArhsNobody, ArhsAt
      <4> QED BY <2>1, <4>1, <4>2
    <3>2. [arhs EXCEPT !.hashes = hashes, !.left = left, !.at = at] = a
      <4>1. PICK c : c = [arhs EXCEPT !.hashes = hashes, !.left = left, !.at = at]
        OBVIOUS
      <4>2. c = ArhsRecord(arhs.running, hashes, arhs.ring, arhs.changes, left, at, arhs.pending, arhs.alarms, arhs.rapid, arhs.sandboxed)
        BY <1>0, <4>1 DEF ArhsRecord
      <4> QED BY <2>4, <4>1, <4>2
    <3> QED BY <2>3, <3>1, <3>2
  <2>6. ArhsSnapshot(a)
    BY <1>14, <2>1, <2>5 DEF ArhsScanned
  <2>7. PICK ring :
          /\ ArhsTook(p, ring)
          /\ arhs' = ArhsRecord(arhs.running, hashes, ring, arhs.changes, left, at, arhs.pending, arhs.alarms, arhs.rapid, arhs.sandboxed)
    <3>1. p = arhs.at.path
      BY <2>1
    <3> QED BY ONLY <2>4, <2>6, <3>1, ArhsSnapshotIs
  <2>8. /\ DOMAIN hashes = DOMAIN arhs.hashes \union {p} /\ hashes[p] = hash
        /\ \A q \in DOMAIN arhs.hashes : q # p => hashes[q] = arhs.hashes[q]
    BY <2>3 DEF ArhsHashed
  <2>9. at = ArhsAt(at.path, at.hash, at.stage) /\ at.stage \notin {"scanned", "hashed", "clean"}
    BY <2>1 DEF ArhsAt
  <2> QED BY <2>2, <2>3, <2>7, <2>8, <2>9, ArhsTaken
<1>4. CASE ArhsStop
  <2>1. arhs.at.stage = "none" /\ UNCHANGED <<arhsDisk, arhsMet, arhsRaced>>
    BY <1>4 DEF ArhsStop
  <2>2. arhs' = ArhsRecord(FALSE, arhs.hashes, <<>>, arhs.changes, {}, arhs.at, {}, arhs.alarms, arhs.rapid, arhs.sandboxed)
    BY <1>0, <1>4 DEF ArhsStop, ArhsRecord
  <2>3. arhs'.hashes = arhs.hashes /\ arhs'.ring = <<>> /\ arhs'.left = {} /\ arhs'.at = arhs.at
    BY <2>2 DEF ArhsRecord
  <2>4. ArhsShape(arhs)'
    BY <1>0, <2>2 DEF ArhsShape, ArhsRecord
  <2>5. ArhsTypes' /\ ArhsVisitInv'
    BY <1>0, <2>1, <2>3, <2>4 DEF ArhsTypes, ArhsVisitInv
  <2>6. Len(<<>>) = 0 /\ 1 .. 0 = {}
    OBVIOUS
  <2>7. ArhsRingGood(<<>>, arhs.hashes, arhsMet, arhsRaced)
    BY <2>6 DEF ArhsRingGood
  <2>8. ArhsRingGood(arhs.ring, arhs.hashes, arhsMet, arhsRaced)'
    BY <2>1, <2>3, <2>7
  <2> QED BY <2>5, <2>8 DEF ArhsInv
<1>5. CASE ArhsBeginPass
  <2>1. PICK at : at = ArhsAt(arhs.at.path, arhs.at.hash, "none")
    OBVIOUS
  <2>2. arhs' = ArhsRecord(arhs.running, arhs.hashes, arhs.ring, arhs.changes, ArhsFiles, at, arhs.pending, arhs.alarms, arhs.rapid, arhs.sandboxed)
    BY <1>0, <1>5, <2>1 DEF ArhsBeginPass, ArhsRecord, ArhsAt
  <2>3. UNCHANGED <<arhsDisk, arhsMet, arhsRaced>> /\ at = ArhsAt(at.path, at.hash, at.stage) /\ at.stage = "none"
    BY <1>5, <2>1 DEF ArhsBeginPass, ArhsAt
  <2> QED BY <2>2, <2>3, ArhsQuiet
<1>6. ASSUME NEW p \in ArhsFiles, ArhsHash(p) PROVE ArhsInv'
  <2>0. UNCHANGED <<arhsDisk, arhsMet, arhsRaced>>
    BY <1>6 DEF ArhsHash
  <2>1. CASE arhs' = [arhs EXCEPT !.left = @ \ {p}]
    <3>1. PICK left : left = arhs.left \ {p}
      OBVIOUS
    <3>2. arhs' = ArhsRecord(arhs.running, arhs.hashes, arhs.ring, arhs.changes, left, arhs.at, arhs.pending, arhs.alarms, arhs.rapid, arhs.sandboxed)
      BY <1>0, <2>1, <3>1 DEF ArhsRecord
    <3> QED BY <1>0, <2>0, <3>1, <3>2, ArhsQuiet
  <2>2. CASE arhs' = [arhs EXCEPT !.at = [path |-> p, hash |-> arhsDisk[p], stage |-> "hashed"]]
    <3>1. PICK at : at = ArhsAt(p, arhsDisk[p], "hashed")
      OBVIOUS
    <3>2. arhs' = ArhsRecord(arhs.running, arhs.hashes, arhs.ring, arhs.changes, arhs.left, at, arhs.pending, arhs.alarms, arhs.rapid, arhs.sandboxed)
      BY <1>0, <2>2, <3>1 DEF ArhsRecord, ArhsAt
    <3>3. at = ArhsAt(at.path, at.hash, at.stage) /\ at.path = p /\ at.hash = arhsDisk[p] /\ at.stage = "hashed"
      BY <3>1 DEF ArhsAt
    <3>4. arhs'.hashes = arhs.hashes /\ arhs'.ring = arhs.ring /\ arhs'.left = arhs.left /\ arhs'.at = at
      BY <3>2 DEF ArhsRecord
    <3>5. ArhsShape(arhs)'
      BY <1>0, <3>2, <3>3 DEF ArhsShape, ArhsRecord
    <3>6. ArhsTypes'
      BY <1>0, <2>0, <3>4, <3>5 DEF ArhsTypes
    <3>7. ArhsVisitInv'
      BY <2>0, <3>3, <3>4 DEF ArhsVisitInv
    <3>8. ArhsRingGood(arhs.ring, arhs.hashes, arhsMet, arhsRaced)'
      BY <2>0, <3>4 DEF ArhsInv
    <3> QED BY <3>6, <3>7, <3>8 DEF ArhsInv
  <2> QED BY <1>6, <2>1, <2>2 DEF ArhsHash
<1>7. CASE ArhsCompare
  <2>1. PICK p : p = arhs.at.path
    OBVIOUS
  <2>2. /\ arhs.at.stage = "hashed" /\ p \in ArhsFiles /\ UNCHANGED arhsDisk
        /\ p \notin arhsRaced => arhs.at.hash = arhsDisk[p]
    BY <1>7, <2>1 DEF ArhsCompare, ArhsInv, ArhsVisitInv
  <2>3. ASSUME ArhsSnapshot(ArhsVisited([arhs EXCEPT !.hashes = ArhsHashed(@, p, arhs.at.hash)])), ArhsMeets(p)
        PROVE  ArhsInv'
    <3>1. PICK hashes, left, hash, at : hashes = ArhsHashed(arhs.hashes, p, arhs.at.hash) /\ left = arhs.left \ {p} /\ hash = arhs.at.hash /\ at = ArhsNobody
      OBVIOUS
    <3>2. PICK a : a = ArhsRecord(arhs.running, hashes, arhs.ring, arhs.changes, left, at, arhs.pending, arhs.alarms, arhs.rapid, arhs.sandboxed)
      OBVIOUS
    <3>3. ArhsVisited([arhs EXCEPT !.hashes = ArhsHashed(@, p, arhs.at.hash)]) = a
      <4>1. PICK b : b = [arhs EXCEPT !.hashes = hashes]
        OBVIOUS
      <4>2. b = ArhsRecord(arhs.running, hashes, arhs.ring, arhs.changes, arhs.left, arhs.at, arhs.pending, arhs.alarms, arhs.rapid, arhs.sandboxed)
        BY <1>0, <4>1 DEF ArhsRecord
      <4>3. [b EXCEPT !.left = left, !.at = at] = a
        <5>1. PICK c : c = [b EXCEPT !.left = left, !.at = at]
          OBVIOUS
        <5>2. c = ArhsRecord(arhs.running, hashes, arhs.ring, arhs.changes, left, at, arhs.pending, arhs.alarms, arhs.rapid, arhs.sandboxed)
          BY <4>2, <5>1 DEF ArhsRecord
        <5> QED BY <3>2, <5>1, <5>2
      <4>4. b.left = arhs.left /\ b.at = arhs.at
        BY <4>2 DEF ArhsRecord
      <4> QED BY <2>1, <3>1, <4>1, <4>3, <4>4 DEF ArhsVisited
    <3>4. ArhsSnapshot(a)
      BY <2>3, <3>3
    <3>5. PICK ring :
            /\ ArhsTook(p, ring)
            /\ arhs' = ArhsRecord(arhs.running, hashes, ring, arhs.changes, left, at, arhs.pending, arhs.alarms, arhs.rapid, arhs.sandboxed)
      BY <2>1, <3>2, <3>4, ArhsSnapshotIs
    <3>6. /\ DOMAIN hashes = DOMAIN arhs.hashes \union {p} /\ hashes[p] = hash
          /\ \A q \in DOMAIN arhs.hashes : q # p => hashes[q] = arhs.hashes[q]
      BY <3>1 DEF ArhsHashed
    <3>7. arhsMet \subseteq arhsMet' /\ (arhsDisk[p] \in Encrypted => p \in arhsMet')
      BY <2>3 DEF ArhsMeets
    <3>8. at = ArhsAt(at.path, at.hash, at.stage) /\ at.stage \notin {"scanned", "hashed", "clean"} /\ (p \notin arhsRaced => hash = arhsDisk[p])
      BY <1>1, <2>2, <3>1
    <3> QED BY <2>2, <3>1, <3>5, <3>6, <3>7, <3>8, ArhsTaken
  <2>4. ASSUME arhs' = ArhsVisited(arhs), UNCHANGED <<arhsMet, arhsRaced>> PROVE ArhsInv'
    <3>1. PICK left : left = arhs.left \ {p}
      OBVIOUS
    <3>2. arhs' = ArhsRecord(arhs.running, arhs.hashes, arhs.ring, arhs.changes, left, ArhsNobody, arhs.pending, arhs.alarms, arhs.rapid, arhs.sandboxed)
      BY <1>0, <2>1, <2>4, <3>1 DEF ArhsVisited, ArhsRecord
    <3> QED BY <1>0, <1>1, <2>2, <2>4, <3>1, <3>2, ArhsQuiet
  <2> DEFINE changes == Append(arhs.changes, [path |-> p, when |-> arhsNow])
             changed == [arhs EXCEPT !.changes = changes]
  <2>5. ASSUME arhs' = ArhsVisited([changed EXCEPT !.pending = @ \union {p}]), UNCHANGED <<arhsMet, arhsRaced>> PROVE ArhsInv'
    <3>1. PICK left, pending, ch : left = arhs.left \ {p} /\ pending = arhs.pending \union {p} /\ ch = changes
      OBVIOUS
    <3>2. arhs' = ArhsRecord(arhs.running, arhs.hashes, arhs.ring, ch, left, ArhsNobody, pending, arhs.alarms, arhs.rapid, arhs.sandboxed)
      BY <1>0, <2>1, <2>5, <3>1 DEF ArhsVisited, ArhsRecord
    <3> QED BY <1>0, <1>1, <2>2, <2>5, <3>1, <3>2, ArhsQuiet
  <2>6. ASSUME p \in DOMAIN arhs.hashes, arhs' = [changed EXCEPT !.at.stage = "clean"], UNCHANGED arhsMet,
               (arhsDisk[p] \notin Encrypted /\ UNCHANGED arhsRaced) \/ arhsRaced' = arhsRaced \union {p}
        PROVE  ArhsInv'
    <3>1. PICK at, ch : at = ArhsAt(p, arhs.at.hash, "clean") /\ ch = changes
      OBVIOUS
    <3>2. arhs' = ArhsRecord(arhs.running, arhs.hashes, arhs.ring, ch, arhs.left, at, arhs.pending, arhs.alarms, arhs.rapid, arhs.sandboxed)
      BY <1>0, <2>1, <2>6, <3>1 DEF ArhsRecord, ArhsAt
    <3>3. at = ArhsAt(at.path, at.hash, at.stage) /\ at.path = p /\ at.hash = arhs.at.hash /\ at.stage = "clean"
      BY <3>1 DEF ArhsAt
    <3>4. arhs'.hashes = arhs.hashes /\ arhs'.ring = arhs.ring /\ arhs'.left = arhs.left /\ arhs'.at = at
      BY <3>2 DEF ArhsRecord
    <3>5. ArhsShape(arhs)'
      BY <1>0, <3>2, <3>3 DEF ArhsShape, ArhsRecord
    <3>6. ArhsTypes'
      BY <1>0, <2>2, <3>4, <3>5 DEF ArhsTypes
    <3>7. ArhsVisitInv'
      BY <2>2, <2>6, <3>3, <3>4 DEF ArhsVisitInv
    <3>8. ArhsRingGood(arhs.ring, arhs.hashes, arhsMet, arhsRaced)'
      <4>1. PICK raced : raced = arhsRaced' /\ arhsRaced \subseteq raced
        BY <2>6
      <4>2. ArhsRingGood(arhs.ring, arhs.hashes, arhsMet, raced)
        BY <4>1 DEF ArhsInv, ArhsRingGood
      <4> QED BY <2>6, <3>4, <4>1, <4>2
    <3> QED BY <3>6, <3>7, <3>8 DEF ArhsInv
  <2> HIDE DEF changed
  <2> QED BY <1>7, <2>1, <2>3, <2>4, <2>5, <2>6 DEF ArhsCompare, ArhsSuspicious, changed
<1>8. CASE ArhsKeep
  <2>1. PICK p, at, hash : p = arhs.at.path /\ at = ArhsNobody /\ hash = arhs.at.hash
    OBVIOUS
  <2>2. /\ p \in ArhsFiles /\ UNCHANGED <<arhsDisk, arhsMet>> /\ p \in DOMAIN arhs.hashes
        /\ p \notin arhsRaced => hash = arhsDisk[p] /\ arhsDisk[p] \notin Encrypted
    BY <1>8, <2>1 DEF ArhsKeep, ArhsInv, ArhsVisitInv
  <2>3. PICK hashes, left : hashes = [arhs.hashes EXCEPT ![p] = hash] /\ left = arhs.left \ {p}
    OBVIOUS
  <2>4. PICK a : a = ArhsRecord(arhs.running, hashes, arhs.ring, arhs.changes, left, at, arhs.pending, arhs.alarms, arhs.rapid, arhs.sandboxed)
    OBVIOUS
  <2>5. ArhsVisited([arhs EXCEPT !.hashes[p] = hash]) = a
    <3>1. PICK b : b = [arhs EXCEPT !.hashes = hashes]
      OBVIOUS
    <3>2. b = ArhsRecord(arhs.running, hashes, arhs.ring, arhs.changes, arhs.left, arhs.at, arhs.pending, arhs.alarms, arhs.rapid, arhs.sandboxed)
      BY <1>0, <3>1 DEF ArhsRecord
    <3>3. [b EXCEPT !.left = left, !.at = at] = a
      <4>1. PICK c : c = [b EXCEPT !.left = left, !.at = at]
        OBVIOUS
      <4>2. c = ArhsRecord(arhs.running, hashes, arhs.ring, arhs.changes, left, at, arhs.pending, arhs.alarms, arhs.rapid, arhs.sandboxed)
        BY <3>2, <4>1 DEF ArhsRecord
      <4> QED BY <2>4, <4>1, <4>2
    <3>4. b.left = arhs.left /\ b.at = arhs.at
      BY <3>2 DEF ArhsRecord
    <3>5. [arhs EXCEPT !.hashes[p] = hash] = b
      BY <2>3, <3>1
    <3> QED BY <2>1, <2>3, <3>3, <3>4, <3>5 DEF ArhsVisited
  <2>6. ArhsSnapshot(a)
    BY <1>8, <2>1, <2>5 DEF ArhsKeep
  <2>7. PICK ring :
          /\ ArhsTook(p, ring)
          /\ arhs' = ArhsRecord(arhs.running, hashes, ring, arhs.changes, left, at, arhs.pending, arhs.alarms, arhs.rapid, arhs.sandboxed)
    BY <2>1, <2>4, <2>6, ArhsSnapshotIs
  <2>8. /\ DOMAIN hashes = DOMAIN arhs.hashes \union {p} /\ hashes[p] = hash
        /\ \A q \in DOMAIN arhs.hashes : q # p => hashes[q] = arhs.hashes[q]
    BY <2>2, <2>3
  <2>9. at = ArhsAt(at.path, at.hash, at.stage) /\ at.stage \notin {"scanned", "hashed", "clean"} /\ arhsMet \subseteq arhsMet'
    BY <1>1, <2>1, <2>2
  <2> QED BY <2>2, <2>3, <2>7, <2>8, <2>9, ArhsTaken
<1>9. CASE ArhsEndPass
  <2>1. PICK at, recent, rapid : at = ArhsAt(arhs.at.path, arhs.at.hash, "slept") /\ recent = ArhsRecent(arhs.changes) /\ rapid = (Len(recent) >= RAPID_CHANGE_THRESH)
    OBVIOUS
  <2>2. arhs' = ArhsRecord(arhs.running, arhs.hashes, arhs.ring, recent, arhs.left, at, {}, arhs.pending, rapid, arhs.sandboxed)
    BY <1>0, <1>9, <2>1 DEF ArhsEndPass, ArhsRecord, ArhsAt
  <2>3. UNCHANGED <<arhsDisk, arhsMet, arhsRaced>> /\ at = ArhsAt(at.path, at.hash, at.stage) /\ at.stage = "slept"
    BY <1>9, <2>1 DEF ArhsEndPass, ArhsAt
  <2> QED BY <1>0, <2>2, <2>3, ArhsQuiet
<1>10. ASSUME NEW p \in ArhsFiles, ArhsRollback(p) PROVE ArhsInv'
  <2>1. PICK i \in ArhsNewest(p) :
          /\ \E written \in {arhs.ring[i].data, "gone"} : arhsDisk' = [arhsDisk EXCEPT ![p] = written]
          /\ arhs' = [arhs EXCEPT !.hashes = ArhsHashed(@, p, arhs.ring[i].data)]
    BY <1>10 DEF ArhsRollback
  <2>2. arhs.at.stage # "clean" /\ arhsMet' = arhsMet /\ arhsRaced' = (IF arhs.at.path = p THEN arhsRaced \union {p} ELSE arhsRaced)
    BY <1>10 DEF ArhsRollback, ArhsTouched
  <2>3. PICK s, d : s = arhs.ring /\ d = s[i].data
    OBVIOUS
  <2>4. s \in Seq(ArhsShot) /\ Len(s) \in Nat /\ DOMAIN s = 1 .. Len(s)
    BY <1>0, <2>3
  <2>5. i \in 1 .. Len(s) /\ ArhsLast(s, p, i) /\ d \in ArhsAny
    <3>1. i \in 1 .. Len(s) /\ ArhsLast(s, p, i)
      BY <2>1, <2>3, <2>4 DEF ArhsNewest, ArhsLast
    <3>2. s[i] \in ArhsShot
      BY <2>4, <3>1
    <3> QED BY <2>3, <3>1, <3>2 DEF ArhsShot
  <2>6. PICK hashes : hashes = ArhsHashed(arhs.hashes, p, d)
    OBVIOUS
  <2>7. arhs' = ArhsRecord(arhs.running, hashes, s, arhs.changes, arhs.left, arhs.at, arhs.pending, arhs.alarms, arhs.rapid, arhs.sandboxed)
    BY <1>0, <2>1, <2>3, <2>6 DEF ArhsRecord
  <2>8. arhs'.hashes = hashes /\ arhs'.ring = s /\ arhs'.left = arhs.left /\ arhs'.at = arhs.at
    BY <2>7 DEF ArhsRecord
  <2>9. ArhsShape(arhs)'
    BY <1>0, <2>7 DEF ArhsShape, ArhsRecord
  <2>10. arhsDisk' \in [ArhsFiles -> ArhsAny] /\ \A q \in ArhsFiles : q # p => arhsDisk'[q] = arhsDisk[q]
    BY <1>0, <2>1, <2>3, <2>5 DEF ArhsAny
  <2>11. ArhsTypes'
    BY <2>4, <2>8, <2>9, <2>10 DEF ArhsTypes
  <2>12. ArhsVisitInv'
    BY <2>2, <2>8, <2>10 DEF ArhsInv, ArhsVisitInv
  <2>13. DOMAIN hashes = DOMAIN arhs.hashes \union {p} /\ hashes[p] = d /\ \A q \in DOMAIN arhs.hashes : q # p => hashes[q] = arhs.hashes[q]
    BY <2>6 DEF ArhsHashed
  <2>14. PICK raced : raced = arhsRaced' /\ arhsRaced \subseteq raced
    BY <2>2
  <2>15. ArhsRingGood(s, arhs.hashes, arhsMet, arhsRaced)
    BY <2>3 DEF ArhsInv
  <2>16. ASSUME NEW q \in ArhsFiles, q \notin raced, NEW k \in 1 .. Len(s), ArhsLast(s, q, k) PROVE hashes[q] = s[k].data
    <3>1. CASE q = p
      <4>1. ~ (k \in (i + 1) .. Len(s)) /\ ~ (i \in (k + 1) .. Len(s))
        BY <2>5, <2>16, <3>1 DEF ArhsLast
      <4>2. k = i
        BY <2>4, <2>5, <4>1
      <4> QED BY <2>3, <2>13, <3>1, <4>2
    <3>2. CASE q # p
      <4>1. arhs.hashes[q] = s[k].data /\ q \in DOMAIN arhs.hashes
        BY <2>14, <2>15, <2>16 DEF ArhsRingGood, ArhsLast
      <4> QED BY <2>13, <3>2, <4>1
    <3> QED BY <3>1, <3>2
  <2>17. ArhsRingGood(s, hashes, arhsMet, raced)
    BY <2>13, <2>14, <2>15, <2>16 DEF ArhsRingGood
  <2>18. ArhsRingGood(arhs.ring, arhs.hashes, arhsMet, arhsRaced)'
    BY <2>2, <2>8, <2>14, <2>17
  <2> QED BY <2>11, <2>12, <2>18 DEF ArhsInv
<1>11. CASE ArhsSuspend
  <2>1. PICK sandboxed : sandboxed = {[pid |-> 1, snapshots |-> <<>>]}
    OBVIOUS
  <2>2. arhs' = ArhsRecord(arhs.running, arhs.hashes, arhs.ring, arhs.changes, arhs.left, arhs.at, arhs.pending, arhs.alarms, arhs.rapid, sandboxed)
    BY <1>0, <1>11, <2>1 DEF ArhsSuspend, ArhsRecord
  <2>3. UNCHANGED <<arhsDisk, arhsMet, arhsRaced>>
    BY <1>11 DEF ArhsSuspend
  <2> QED BY <1>0, <2>2, <2>3, ArhsQuiet
<1>12. ASSUME NEW p \in ArhsFiles, NEW content \in ArhsContents \union {"gone"}, ArhsOthersWrite(p, content) PROVE ArhsInv'
  <2>1. /\ arhsDisk' = [arhsDisk EXCEPT ![p] = content] /\ UNCHANGED <<arhs, arhsMet>>
        /\ arhsRaced' = (IF arhs.at.path = p THEN arhsRaced \union {p} ELSE arhsRaced)
    BY <1>12 DEF ArhsOthersWrite, ArhsTouched
  <2>2. content \in ArhsAny
    BY DEF ArhsAny
  <2>3. arhsDisk' \in [ArhsFiles -> ArhsAny] /\ \A q \in ArhsFiles : q # p => arhsDisk'[q] = arhsDisk[q]
    BY <1>0, <2>1, <2>2
  <2>4. ArhsTypes'
    BY <2>1, <2>3 DEF ArhsInv, ArhsTypes, ArhsShape
  <2>5. ArhsVisitInv'
    BY <2>1, <2>3 DEF ArhsInv, ArhsVisitInv
  <2>6. PICK raced : raced = arhsRaced' /\ arhsRaced \subseteq raced
    BY <2>1
  <2>7. ArhsRingGood(arhs.ring, arhs.hashes, arhsMet, raced)
    BY <2>6 DEF ArhsInv, ArhsRingGood
  <2>8. ArhsRingGood(arhs.ring, arhs.hashes, arhsMet, arhsRaced)'
    BY <2>1, <2>6, <2>7
  <2> QED BY <2>4, <2>5, <2>8 DEF ArhsInv
<1>13. CASE ArhsTick \/ UNCHANGED arhsVars
  <2>1. UNCHANGED <<arhsDisk, arhs, arhsMet, arhsRaced>>
    BY <1>13 DEF ArhsTick, arhsVars
  <2>2. ArhsRingGood(arhs.ring, arhs.hashes, arhsMet, arhsRaced)'
    BY <2>1 DEF ArhsInv
  <2>3. ArhsTypes' /\ ArhsVisitInv'
    BY <2>1 DEF ArhsInv, ArhsTypes, ArhsShape, ArhsVisitInv
  <2> QED BY <2>2, <2>3 DEF ArhsInv
<1> QED BY <1>2, <1>3, <1>4, <1>5, <1>6, <1>7, <1>8, <1>9, <1>10, <1>11, <1>12, <1>13, <1>14 DEF ArhsNext

\* Unless a file is written or not readable during a visit: no snapshot is an encrypted version
\* of a file that was met clean, and the newest one has the hash the watch loop
\* compares with.
THEOREM RollbackIsSafe == ArhsSpec => [](ArhsSnapshotsClean /\ ArhsHashMatchesSnapshot)
<1>1. ArhsInit => ArhsInv
  <2> SUFFICES ASSUME ArhsInit PROVE ArhsInv
    OBVIOUS
  <2>1. Len(<<>>) = 0 /\ 1 .. 0 = {}
    OBVIOUS
  <2>2. ArhsTypes
    <3>1. PICK c : c = CHOOSE d \in ArhsContents : d \notin Encrypted
      OBVIOUS
    <3>2. arhsDisk = [p \in ArhsFiles |-> c] /\ c \in ArhsAny
      BY <3>1 DEF ArhsInit, ArhsAny
    <3>3. arhsDisk \in [ArhsFiles -> ArhsAny]
      BY <3>2
    <3>4. ArhsShape(arhs) /\ arhs.ring = <<>>
      BY DEF ArhsInit, ArhsShape, ArhsRecord, ArhsAt, ArhsNobody
    <3> QED BY <3>3, <3>4 DEF ArhsTypes
  <2>3. ArhsVisitInv /\ arhs.ring = <<>>
    BY DEF ArhsInit, ArhsVisitInv, ArhsNobody
  <2>4. ArhsRingGood(arhs.ring, arhs.hashes, arhsMet, arhsRaced)
    BY <2>1, <2>3 DEF ArhsRingGood
  <2> QED BY <2>2, <2>3, <2>4 DEF ArhsInv
<1>2. ArhsInv => ArhsSnapshotsClean /\ ArhsHashMatchesSnapshot
  <2> SUFFICES ASSUME ArhsInv PROVE ArhsSnapshotsClean /\ ArhsHashMatchesSnapshot
    OBVIOUS
  <2>1. DOMAIN arhs.ring = 1 .. Len(arhs.ring)
    BY DEF ArhsInv, ArhsTypes
  <2>2. ArhsSnapshotsClean
    BY <2>1 DEF ArhsInv, ArhsRingGood, ArhsSnapshotsClean
  <2>3. ArhsHashMatchesSnapshot
    BY <2>1 DEF ArhsInv, ArhsRingGood, ArhsLast, ArhsNewest, ArhsHashMatchesSnapshot
  <2> QED BY <2>2, <2>3
<1> QED BY <1>1, <1>2, ArhsStepKeeps, PTL DEF ArhsSpec

\* The file watchers together.
THEOREM FilesAreWatched == ArhsSpec /\ FimSpec /\ RsSpec => []FilesWatched
<1>1. (ArhsSnapshotsClean /\ ArhsHashMatchesSnapshot) /\ (FimTimeTellsContent /\ FimLongPauseEarned) /\ (RsBurstExact /\ RsHoneyAlarmedOnce)
        => FilesWatched
  BY DEF FilesWatched
<1> QED BY <1>1, RollbackIsSafe, ChecksMissNothing, ShieldCountsRight, PTL

-----------------------------------------------------------------------------
(* What no step of the file watchers does. *)

ArhsChange == [path : ArhsFiles \union {""}, when : Nat]

ArhsFields == {"running", "hashes", "ring", "changes", "left", "at", "pending", "alarms", "rapid", "sandboxed"}

\* The changes recorded have times, and the fields stay the engine's.
ArhsChanges ==
  /\ DOMAIN arhs = ArhsFields
  /\ DOMAIN arhs.at = {"path", "hash", "stage"} /\ arhs.at.path \in ArhsFiles \union {""}
  /\ arhs.changes \in Seq(ArhsChange) /\ arhsNow \in Nat

\* What detect_rapid_encryption() keeps lies in the window.
LEMMA ArhsRecentIs ==
  ASSUME ArhsChanges
  PROVE  /\ ArhsRecent(arhs.changes) \in Seq(ArhsChange)
         /\ \A i \in DOMAIN ArhsRecent(arhs.changes) : arhsNow - ArhsRecent(arhs.changes)[i].when <= RAPID_CHANGE_WINDOW
<1>1. PICK s, m : s = arhs.changes /\ m = Len(arhs.changes)
  OBVIOUS
<1>2. s \in Seq(ArhsChange) /\ m \in Nat /\ m = Len(s) /\ \A i \in 1 .. m : s[i] \in ArhsChange /\ s[i].when \in Nat
  <2>1. s \in Seq(ArhsChange) /\ m \in Nat /\ m = Len(s) /\ \A i \in 1 .. m : s[i] \in ArhsChange
    <3>1. s \in Seq(ArhsChange)
      BY <1>1 DEF ArhsChanges
    <3> QED BY <1>1, <3>1
  <2> QED BY <2>1 DEF ArhsChange
<1> DEFINE I == {i \in 1 .. Len(s) : arhsNow - s[i].when > RAPID_CHANGE_WINDOW}
<1>3. PICK n : n = SelectLastInSeq(s, LAMBDA c : arhsNow - c.when > RAPID_CHANGE_WINDOW)
  OBVIOUS
<1>4. n = IF I # {} THEN Max(I) ELSE 0
  BY <1>3 DEF SelectLastInSeq
<1>5. I \subseteq 1 .. m
  BY <1>2
<1>6. n \in 0 .. m /\ \A i \in I : i <= n
  <2> HIDE DEF I
  <2>1. CASE I = {}
    BY <1>2, <1>4, <2>1
  <2>2. CASE I # {}
    <3>1. Max(I) \in I /\ \A j \in I : Max(I) >= j
      BY <1>2, <1>5, <2>2, MaxOf
    <3>2. \A j \in I : j \in 1 .. m
      BY <1>5
    <3>3. n = Max(I)
      BY <1>4, <2>2
    <3> QED BY <1>2, <3>1, <3>2, <3>3
  <2> QED BY <2>1, <2>2
<1>7. ASSUME NEW i \in 1 .. m, i > n PROVE arhsNow - s[i].when <= RAPID_CHANGE_WINDOW
  <2>1. i \notin I
    BY <1>2, <1>6, <1>7
  <2>2. arhsNow \in Nat /\ s[i].when \in Nat /\ RAPID_CHANGE_WINDOW \in Nat
    BY <1>2, ArhsConstants DEF ArhsChanges
  <2> QED BY <1>2, <2>1, <2>2
<1>8. PICK t : t = SubSeq(s, n + 1, m)
  OBVIOUS
<1>9. t \in Seq(ArhsChange) /\ Len(t) = m - n /\ \A i \in 1 .. m - n : t[i] = s[n + i]
  <2>1. PICK k : k = m - n
    OBVIOUS
  <2>2. k \in Nat /\ k <= m /\ m - k + 1 = n + 1 /\ \A i \in 1 .. k : m - k + i = n + i
    BY <1>2, <1>6, <2>1
  <2>3. IsLast(SubSeq(s, m - k + 1, m), s, k, ArhsChange)
    BY <1>2, <2>2, LastOf
  <2>4. t \in Seq(ArhsChange) /\ Len(t) = k /\ \A i \in 1 .. k : t[i] = s[m - k + i]
    BY <1>2, <1>8, <2>2, <2>3 DEF IsLast
  <2> QED BY <2>1, <2>2, <2>4
<1>10. ASSUME NEW i \in DOMAIN t PROVE arhsNow - t[i].when <= RAPID_CHANGE_WINDOW
  <2>1. i \in 1 .. m - n
    BY <1>9
  <2>2. n + i \in 1 .. m /\ n + i > n
    BY <1>2, <1>6, <2>1
  <2> QED BY <1>7, <1>9, <2>1, <2>2
<1>11. ArhsRecent(arhs.changes) = t
  BY <1>1, <1>3, <1>8 DEF ArhsRecent
<1> QED BY <1>9, <1>10, <1>11

\* A snapshot changes nothing but the ring.
LEMMA ArhsOnlyRing ==
  ASSUME NEW a, DOMAIN a = ArhsFields, ArhsSnapshot(a)
  PROVE  DOMAIN arhs' = ArhsFields /\ arhs'.at = a.at /\ arhs'.changes = a.changes /\ arhs'.rapid = a.rapid
<1>1. CASE arhs' = a
  BY <1>1
<1>2. ASSUME NEW ring, arhs' = [a EXCEPT !.ring = ring]
      PROVE  DOMAIN arhs' = ArhsFields /\ arhs'.at = a.at /\ arhs'.changes = a.changes /\ arhs'.rapid = a.rapid
  BY <1>2 DEF ArhsFields
<1> QED BY <1>1, <1>2 DEF ArhsSnapshot

\* Only the end of a pass says that changes are rapid.
LEMMA ArhsChangesStep ==
  ArhsChanges /\ [ArhsNext]_arhsVars =>
    /\ ArhsChanges'
    /\ [(arhs'.rapid /\ ~arhs.rapid) =>
          \A i \in DOMAIN arhs'.changes : arhsNow - arhs'.changes[i].when <= RAPID_CHANGE_WINDOW]_arhsVars
<1> SUFFICES ASSUME ArhsChanges, [ArhsNext]_arhsVars
             PROVE  /\ ArhsChanges'
                    /\ (arhs'.rapid /\ ~arhs.rapid) =>
                         \A i \in DOMAIN arhs'.changes : arhsNow - arhs'.changes[i].when <= RAPID_CHANGE_WINDOW
  OBVIOUS
<1> DEFINE Good == /\ ArhsChanges'
                   /\ (arhs'.rapid /\ ~arhs.rapid) =>
                        \A i \in DOMAIN arhs'.changes : arhsNow - arhs'.changes[i].when <= RAPID_CHANGE_WINDOW
<1>0. DOMAIN ArhsNobody = {"path", "hash", "stage"} /\ ArhsNobody.path = ""
  BY DEF ArhsNobody
<1> DEFINE Calm == /\ DOMAIN arhs' = DOMAIN arhs /\ DOMAIN arhs'.at = DOMAIN arhs.at /\ arhs'.at.path = arhs.at.path
                   /\ arhs'.changes = arhs.changes /\ arhs'.rapid = arhs.rapid
<1>1. CASE Calm /\ arhsNow' \in Nat
  BY <1>1 DEF ArhsChanges
<1>10. CASE ArhsStart
  <2>1. Calm /\ arhsNow' = arhsNow
    BY <1>10 DEF ArhsStart, ArhsChanges, ArhsFields
  <2> QED BY <1>1, <2>1 DEF ArhsChanges
<1>11. CASE ArhsBeginPass
  <2>1. Calm /\ arhsNow' = arhsNow
    BY <1>11 DEF ArhsBeginPass, ArhsChanges, ArhsFields
  <2> QED BY <1>1, <2>1 DEF ArhsChanges
<1>12. CASE ArhsStop \/ ArhsSuspend
  <2>1. Calm /\ arhsNow' = arhsNow
    BY <1>12 DEF ArhsStop, ArhsSuspend, ArhsChanges, ArhsFields
  <2> QED BY <1>1, <2>1 DEF ArhsChanges
<1>2. ASSUME NEW p \in ArhsFiles, ArhsScan(p) PROVE Good
  <2>0. arhsNow' = arhsNow
    BY <1>2 DEF ArhsScan
  <2>1. CASE arhs' = [arhs EXCEPT !.left = @ \ {p}]
    BY <1>1, <2>0, <2>1 DEF ArhsChanges, ArhsFields
  <2>2. CASE arhs' = [arhs EXCEPT !.at = [path |-> p, hash |-> arhsDisk[p], stage |-> "scanned"]]
    BY <2>0, <2>2 DEF ArhsChanges, ArhsFields
  <2> QED BY <1>2, <2>1, <2>2 DEF ArhsScan
<1>13. CASE ArhsScanned
  <2>1. PICK a, hashes, left, at :
          /\ a = [arhs EXCEPT !.hashes = hashes, !.left = left, !.at = at] /\ at = [ArhsNobody EXCEPT !.stage = "scan"]
          /\ ArhsSnapshot(a) /\ arhsNow' = arhsNow
    BY <1>13 DEF ArhsScanned
  <2>2. DOMAIN at = {"path", "hash", "stage"} /\ at.path = ""
    BY <2>1 DEF ArhsNobody
  <2>3. DOMAIN a = ArhsFields /\ a.at = at /\ a.changes = arhs.changes /\ a.rapid = arhs.rapid
    BY <2>1 DEF ArhsChanges, ArhsFields
  <2>4. DOMAIN arhs' = ArhsFields /\ arhs'.at = a.at /\ arhs'.changes = a.changes /\ arhs'.rapid = a.rapid
    BY <2>1, <2>3, ArhsOnlyRing
  <2> QED BY <2>1, <2>2, <2>3, <2>4 DEF ArhsChanges
<1>3. ASSUME NEW p \in ArhsFiles, ArhsHash(p) PROVE Good
  <2>0. arhsNow' = arhsNow
    BY <1>3 DEF ArhsHash
  <2>1. CASE arhs' = [arhs EXCEPT !.left = @ \ {p}]
    BY <1>1, <2>0, <2>1 DEF ArhsChanges, ArhsFields
  <2>2. CASE arhs' = [arhs EXCEPT !.at = [path |-> p, hash |-> arhsDisk[p], stage |-> "hashed"]]
    BY <2>0, <2>2 DEF ArhsChanges, ArhsFields
  <2> QED BY <1>3, <2>1, <2>2 DEF ArhsHash
<1>4. ASSUME NEW p \in ArhsFiles, ArhsRollback(p) PROVE Good
  BY <1>4 DEF ArhsRollback, ArhsChanges, ArhsFields
<1>14. ASSUME NEW a, NEW hashes, a = ArhsVisited([arhs EXCEPT !.hashes = hashes]), ArhsSnapshot(a), arhsNow' = arhsNow PROVE Good
  <2>1. DOMAIN a = ArhsFields /\ a.at = ArhsNobody /\ a.changes = arhs.changes /\ a.rapid = arhs.rapid
    BY <1>14 DEF ArhsVisited, ArhsChanges, ArhsFields
  <2>2. DOMAIN arhs' = ArhsFields /\ arhs'.at = a.at /\ arhs'.changes = a.changes /\ arhs'.rapid = a.rapid
    BY <1>14, <2>1, ArhsOnlyRing
  <2> QED BY <1>0, <1>14, <2>1, <2>2 DEF ArhsChanges
<1>5. CASE ArhsKeep
  <2>1. PICK a, hashes : a = ArhsVisited([arhs EXCEPT !.hashes = hashes]) /\ ArhsSnapshot(a) /\ arhsNow' = arhsNow
    BY <1>5 DEF ArhsKeep
  <2> QED BY <1>14, <2>1
<1>6. CASE ArhsCompare
  <2>1. PICK p, s : p = arhs.at.path /\ s = Append(arhs.changes, [path |-> p, when |-> arhsNow])
    OBVIOUS
  <2>2. s \in Seq(ArhsChange)
    <3>1. [path |-> p, when |-> arhsNow] \in ArhsChange
      BY <2>1 DEF ArhsChanges, ArhsChange
    <3>2. arhs.changes \in Seq(ArhsChange)
      BY DEF ArhsChanges
    <3> QED BY <2>1, <3>1, <3>2
  <2>3. arhsNow' = arhsNow
    BY <1>6 DEF ArhsCompare
  <2>4. CASE p \notin DOMAIN arhs.hashes
    <3>1. PICK a, hashes : a = ArhsVisited([arhs EXCEPT !.hashes = hashes]) /\ ArhsSnapshot(a)
      BY <1>6, <2>1, <2>4 DEF ArhsCompare
    <3> QED BY <1>14, <2>3, <3>1
  <2>5. CASE p \in DOMAIN arhs.hashes /\ arhs.hashes[p] = arhs.at.hash
    BY <1>0, <1>6, <2>1, <2>3, <2>5 DEF ArhsCompare, ArhsVisited, ArhsChanges, ArhsFields
  <2>6. CASE p \in DOMAIN arhs.hashes /\ arhs.hashes[p] # arhs.at.hash
    <3>0. PICK c : c = [arhs EXCEPT !.changes = s]
      OBVIOUS
    <3>1. DOMAIN c = DOMAIN arhs /\ c.at = arhs.at /\ c.changes = s /\ c.rapid = arhs.rapid
      BY <3>0 DEF ArhsChanges, ArhsFields
    <3>2. CASE \E pending : arhs' = ArhsVisited([c EXCEPT !.pending = pending])
      BY <1>0, <2>2, <2>3, <3>1, <3>2 DEF ArhsVisited, ArhsChanges, ArhsFields
    <3>3. CASE arhs' = [c EXCEPT !.at.stage = "clean"]
      <4>1. /\ DOMAIN arhs' = DOMAIN arhs /\ DOMAIN arhs'.at = DOMAIN arhs.at /\ arhs'.at.path = arhs.at.path
            /\ arhs'.changes = s /\ arhs'.rapid = arhs.rapid
        BY <3>1, <3>3 DEF ArhsChanges, ArhsFields
      <4> QED BY <2>2, <2>3, <4>1 DEF ArhsChanges
    <3>4. (\E pending : arhs' = ArhsVisited([c EXCEPT !.pending = pending])) \/ arhs' = [c EXCEPT !.at.stage = "clean"]
      BY <1>6, <2>1, <2>6, <3>0 DEF ArhsCompare
    <3> QED BY <3>2, <3>3, <3>4
  <2> QED BY <2>4, <2>5, <2>6
<1>7. CASE ArhsEndPass
  <2>1. PICK s : s = ArhsRecent(arhs.changes)
    OBVIOUS
  <2>2. s \in Seq(ArhsChange) /\ \A i \in DOMAIN s : arhsNow - s[i].when <= RAPID_CHANGE_WINDOW
    BY <2>1, ArhsRecentIs
  <2>3. arhs'.changes = s /\ arhsNow' = arhsNow /\ DOMAIN arhs' = DOMAIN arhs /\ DOMAIN arhs'.at = DOMAIN arhs.at /\ arhs'.at.path = arhs.at.path
    BY <1>7, <2>1 DEF ArhsEndPass, ArhsChanges, ArhsFields
  <2> QED BY <2>2, <2>3 DEF ArhsChanges
<1>8. CASE UNCHANGED arhsVars
  BY <1>8 DEF arhsVars, ArhsChanges
<1>9. CASE ArhsTick \/ \E p \in ArhsFiles : \E content \in ArhsContents \union {"gone"} : ArhsOthersWrite(p, content)
  <2>1. arhs' = arhs /\ arhsNow' \in {arhsNow, arhsNow + 1}
    BY <1>9 DEF ArhsTick, ArhsOthersWrite
  <2>2. arhsNow' \in Nat
    <3>1. arhsNow \in Nat
      BY DEF ArhsChanges
    <3> QED BY <2>1, <3>1
  <2>3. Calm
    BY <2>1
  <2> QED BY <1>1, <2>2, <2>3
<1> QED BY <1>2, <1>3, <1>4, <1>5, <1>6, <1>7, <1>8, <1>9, <1>10, <1>11, <1>12, <1>13 DEF ArhsNext

\* Only FimNote() changes the baseline during a check.
LEMMA FimSilentStep ==
  [FimNext]_fimVars =>
    [\A p \in DOMAIN fimBase \intersect DOMAIN fimBase' :
       fim.pc = "check" /\ fimBase'[p].sha256 # fimBase[p].sha256
         => <<p, fimBase'[p].sha256>> \in fimTold']_fimVars
<1> SUFFICES ASSUME FimNext, NEW p \in DOMAIN fimBase \intersect DOMAIN fimBase',
                    fim.pc = "check", fimBase'[p].sha256 # fimBase[p].sha256
             PROVE  <<p, fimBase'[p].sha256>> \in fimTold'
  OBVIOUS
<1>1. fimBase' # fimBase
  OBVIOUS
<1>2. FimCheckHash
  BY <1>1 DEF FimNext, FimStart, FimBuildTime, FimSleeps, FimWakes, FimStop, FimBuildHash, FimCheckTime, FimOthersWrite
<1>3. PICK q, hash : FimNote(q, hash)
  BY <1>2 DEF FimCheckHash
<1>4. p = q /\ fimBase'[p].sha256 = hash
  BY <1>3 DEF FimNote
<1> QED BY <1>3, <1>4 DEF FimNote

\* An indicator of a process.
RsIndicator(ind) ==
  /\ DOMAIN ind = {"modified", "renamed", "extension", "deleted", "entropy", "shadow", "honeyfile", "risk"}
  /\ ind.modified \in Nat /\ ind.renamed \in Nat /\ ind.extension \in Nat /\ ind.deleted \in Nat /\ ind.entropy \in Nat
  /\ ind.shadow \in BOOLEAN /\ ind.honeyfile \in BOOLEAN

\* Every risk is the score of its counts.
RsScored == \A pid \in DOMAIN rsInd : RsIndicator(rsInd[pid]) /\ rsInd[pid].risk = RsScore(rsInd[pid])


\* The scores of the steps, in hundredths: z of them, none below the one before.
RsScores(scores, z) ==
  /\ \A i \in 1 .. z : scores[i] \in Nat
  /\ \A i, j \in 1 .. z : i <= j => scores[i] <= scores[j]

\* A count that grows scores no less.
LEMMA RsStepGrows ==
  ASSUME NEW z \in Nat, NEW steps \in [1 .. z -> Nat], NEW scores, RsScores(scores, z),
         NEW a \in Nat, NEW b \in Nat, a <= b
  PROVE  /\ RsStep(a, steps, scores) \in Nat /\ RsStep(b, steps, scores) \in Nat
         /\ RsStep(a, steps, scores) <= RsStep(b, steps, scores)
<1> DEFINE R(k) == {i \in 1 .. z : k >= steps[i]}
<1>1. ASSUME NEW k \in Nat
      PROVE  /\ IsFiniteSet(R(k)) /\ (R(k) # {} => Cardinality(R(k)) \in 1 .. z)
             /\ RsStep(k, steps, scores) = IF R(k) = {} THEN 0 ELSE scores[Cardinality(R(k))]
  <2>1. IsFiniteSet(1 .. z) /\ Cardinality(1 .. z) = z
    <3>1. 1 \in Int /\ z \in Int
      OBVIOUS
    <3>2. IsFiniteSet(1 .. z) /\ Cardinality(1 .. z) = IF 1 > z THEN 0 ELSE z - 1 + 1
      BY <3>1, FS_Interval
    <3> QED BY <3>2
  <2>2. R(k) \subseteq 1 .. z
    OBVIOUS
  <2>3. RsStep(k, steps, scores) = IF R(k) = {} THEN 0 ELSE scores[Cardinality(R(k))]
    BY DEF RsStep
  <2> HIDE DEF R
  <2>4. IsFiniteSet(R(k)) /\ Cardinality(R(k)) <= z
    BY <2>1, <2>2, FS_Subset
  <2>5. Cardinality(R(k)) \in Nat /\ (R(k) # {} => Cardinality(R(k)) # 0)
    BY <2>4, FS_CardinalityType, FS_EmptySet
  <2> QED BY <2>3, <2>4, <2>5
<1>2. R(a) \subseteq R(b)
  OBVIOUS
<1> HIDE DEF R
<1>3. Cardinality(R(a)) <= Cardinality(R(b))
  BY <1>1, <1>2, FS_Subset
<1>4. RsStep(a, steps, scores) \in Nat /\ RsStep(b, steps, scores) \in Nat
  BY <1>1 DEF RsScores
<1>5. RsStep(a, steps, scores) <= RsStep(b, steps, scores)
  <2>1. CASE R(a) = {}
    BY <1>1, <1>4, <2>1
  <2>2. CASE R(a) # {}
    <3>1. R(b) # {} /\ Cardinality(R(a)) \in 1 .. z /\ Cardinality(R(b)) \in 1 .. z
      BY <1>1, <1>2, <2>2
    <3> QED BY <1>1, <1>3, <2>2, <3>1 DEF RsScores
  <2> QED BY <2>1, <2>2
<1> QED BY <1>4, <1>5

\* The scores of the code.
LEMMA RsTables ==
  /\ RsScores(<<5, 12, 20>>, 3) /\ RsScores(<<8, 15>>, 2) /\ RsScores(<<10, 15>>, 2) /\ RsScores(<<5, 10>>, 2)
  /\ <<2, 3>> \in [1 .. 2 -> Nat]
<1>1. ASSUME NEW n \in Nat, NEW m \in Nat, n <= m PROVE RsScores(<<n, m>>, 2)
  <2>1. PICK s : s = <<n, m>>
    OBVIOUS
  <2>2. s[1] = n /\ s[2] = m /\ \A i \in 1 .. 2 : i = 1 \/ i = 2
    BY <2>1
  <2>3. RsScores(s, 2)
    BY <1>1, <2>2 DEF RsScores
  <2> QED BY <2>1, <2>3
<1>2. RsScores(<<5, 12, 20>>, 3)
  <2>1. PICK s : s = <<5, 12, 20>>
    OBVIOUS
  <2>2. s[1] = 5 /\ s[2] = 12 /\ s[3] = 20 /\ \A i \in 1 .. 3 : i = 1 \/ i = 2 \/ i = 3
    BY <2>1
  <2>3. RsScores(s, 3)
    BY <2>2 DEF RsScores
  <2> QED BY <2>1, <2>3
<1>3. <<2, 3>> \in [1 .. 2 -> Nat]
  OBVIOUS
<1> QED BY <1>1, <1>2, <1>3

\* More of everything scores no less.
LEMMA RsScoreGrows ==
  ASSUME NEW old, NEW new, RsIndicator(old), RsIndicator(new), old.shadow => new.shadow, old.honeyfile => new.honeyfile,
         old.modified <= new.modified, old.renamed <= new.renamed, old.extension <= new.extension,
         old.deleted <= new.deleted, old.entropy <= new.entropy
  PROVE  RsScore(old) \in Nat /\ RsScore(new) \in Nat /\ RsScore(old) <= RsScore(new)
<1>1. /\ old.modified \in Nat /\ old.renamed \in Nat /\ old.extension \in Nat /\ old.deleted \in Nat /\ old.entropy \in Nat
      /\ new.modified \in Nat /\ new.renamed \in Nat /\ new.extension \in Nat /\ new.deleted \in Nat /\ new.entropy \in Nat
  BY DEF RsIndicator
<1>2. /\ RsModified \in [1 .. 3 -> Nat] /\ RsRenamed \in [1 .. 2 -> Nat] /\ RsExtension \in [1 .. 2 -> Nat]
      /\ RsDeleted \in [1 .. 2 -> Nat]
  BY RsConstants
<1>3. PICK m1, m2 : m1 = RsStep(old.modified, RsModified, <<5, 12, 20>>) /\ m2 = RsStep(new.modified, RsModified, <<5, 12, 20>>)
  OBVIOUS
<1>4. PICK r1, r2 : r1 = RsStep(old.renamed, RsRenamed, <<8, 15>>) /\ r2 = RsStep(new.renamed, RsRenamed, <<8, 15>>)
  OBVIOUS
<1>5. PICK x1, x2 : x1 = RsStep(old.extension, RsExtension, <<10, 15>>) /\ x2 = RsStep(new.extension, RsExtension, <<10, 15>>)
  OBVIOUS
<1>6. PICK d1, d2 : d1 = RsStep(old.deleted, RsDeleted, <<5, 10>>) /\ d2 = RsStep(new.deleted, RsDeleted, <<5, 10>>)
  OBVIOUS
<1>7. PICK e1, e2 : e1 = RsStep(old.entropy, <<2, 3>>, <<8, 15>>) /\ e2 = RsStep(new.entropy, <<2, 3>>, <<8, 15>>)
  OBVIOUS
<1>8. PICK s1, s2, h1, h2 : /\ s1 = (IF old.shadow THEN 35 ELSE 0) /\ s2 = (IF new.shadow THEN 35 ELSE 0)
                            /\ h1 = (IF old.honeyfile THEN 30 ELSE 0) /\ h2 = (IF new.honeyfile THEN 30 ELSE 0)
  OBVIOUS
<1>9. m1 \in Nat /\ m2 \in Nat /\ m1 <= m2
  BY <1>1, <1>2, <1>3, RsTables, RsStepGrows
<1>10. r1 \in Nat /\ r2 \in Nat /\ r1 <= r2
  BY <1>1, <1>2, <1>4, RsTables, RsStepGrows
<1>11. x1 \in Nat /\ x2 \in Nat /\ x1 <= x2
  BY <1>1, <1>2, <1>5, RsTables, RsStepGrows
<1>12. d1 \in Nat /\ d2 \in Nat /\ d1 <= d2
  BY <1>1, <1>2, <1>6, RsTables, RsStepGrows
<1>13. e1 \in Nat /\ e2 \in Nat /\ e1 <= e2
  BY <1>1, <1>7, RsTables, RsStepGrows
<1>14. s1 \in Nat /\ s2 \in Nat /\ s1 <= s2 /\ h1 \in Nat /\ h2 \in Nat /\ h1 <= h2
  BY <1>8
<1>15. PICK a, b : a = s1 + h1 + m1 + r1 + x1 + d1 + e1 /\ b = s2 + h2 + m2 + r2 + x2 + d2 + e2
  OBVIOUS
<1>16. a \in Nat /\ b \in Nat /\ a <= b
  BY ONLY <1>9, <1>10, <1>11, <1>12, <1>13, <1>14, <1>15
<1>17. RsScore(old) = IF a > 100 THEN 100 ELSE a
  BY <1>3, <1>4, <1>5, <1>6, <1>7, <1>8, <1>15 DEF RsScore
<1>18. RsScore(new) = IF b > 100 THEN 100 ELSE b
  BY <1>3, <1>4, <1>5, <1>6, <1>7, <1>8, <1>15 DEF RsScore
<1> QED BY ONLY <1>16, <1>17, <1>18

\* The counts of an indicator are no lower than those of another.
RsNoLess(new, old) ==
  /\ old.shadow => new.shadow
  /\ old.honeyfile => new.honeyfile
  /\ old.modified <= new.modified /\ old.renamed <= new.renamed /\ old.extension <= new.extension /\ old.deleted <= new.deleted

RsFallsByEntropy ==
  \A pid \in DOMAIN rsInd : rsInd'[pid].risk < rsInd[pid].risk => rsInd'[pid].entropy < rsInd[pid].entropy

\* An indicator is put back with its score.
LEMMA RsPutStep ==
  ASSUME RsScored, NEW pid, NEW ind, RsIndicator(ind), RsNoLess(ind, RsOf(pid)), RsPut(pid, ind)
  PROVE  RsScored' /\ RsFallsByEntropy
<1>1. PICK new, r : r = RsScore(ind) /\ new = [ind EXCEPT !.risk = r]
  OBVIOUS
<1>2. /\ DOMAIN new = DOMAIN ind /\ new.risk = r /\ new.modified = ind.modified /\ new.renamed = ind.renamed
      /\ new.extension = ind.extension /\ new.deleted = ind.deleted /\ new.entropy = ind.entropy
      /\ new.shadow = ind.shadow /\ new.honeyfile = ind.honeyfile
  BY <1>1 DEF RsIndicator
<1>3. RsIndicator(new)
  BY <1>2 DEF RsIndicator
<1>4. RsScore(new) = r
  BY <1>1, <1>2 DEF RsScore
<1>5. /\ DOMAIN rsInd' = DOMAIN rsInd \union {pid} /\ rsInd'[pid] = new
      /\ \A q \in DOMAIN rsInd : q # pid => rsInd'[q] = rsInd[q]
  BY <1>1 DEF RsPut
<1>6. RsScored'
  <2>1. ASSUME NEW q \in DOMAIN rsInd' PROVE RsIndicator(rsInd'[q]) /\ rsInd'[q].risk = RsScore(rsInd'[q])
    BY <1>2, <1>3, <1>4, <1>5 DEF RsScored
  <2> QED BY <2>1 DEF RsScored
<1>7. ASSUME NEW q \in DOMAIN rsInd, rsInd'[q].risk < rsInd[q].risk PROVE rsInd'[q].entropy < rsInd[q].entropy
  <2>1. RsIndicator(rsInd[q]) /\ rsInd[q].risk = RsScore(rsInd[q]) /\ rsInd[q].entropy \in Nat
    BY DEF RsScored, RsIndicator
  <2>2. CASE q = pid
    <3>1. PICK old : old = rsInd[q]
      OBVIOUS
    <3>2. RsIndicator(old) /\ RsNoLess(ind, old) /\ old.risk = RsScore(old) /\ r < old.risk
      BY <1>2, <1>5, <1>7, <2>1, <2>2, <3>1 DEF RsOf
    <3>3. old.entropy \in Nat /\ ind.entropy \in Nat
      BY <3>2 DEF RsIndicator
    <3>4. ~(old.entropy <= ind.entropy)
      <4> SUFFICES ASSUME old.entropy <= ind.entropy PROVE FALSE
        OBVIOUS
      <4>1. RsScore(old) \in Nat /\ RsScore(ind) \in Nat /\ RsScore(old) <= RsScore(ind)
        BY <3>2, RsScoreGrows DEF RsNoLess
      <4>2. r < RsScore(old) /\ r = RsScore(ind)
        BY <1>1, <3>2
      <4> QED BY <4>1, <4>2
    <3>5. ind.entropy < old.entropy
      BY <3>3, <3>4
    <3> QED BY <1>2, <1>5, <2>2, <3>1, <3>5
  <2>3. CASE q # pid
    <3>1. PICK x : x = RsScore(rsInd[q])
      OBVIOUS
    <3>2. x \in Nat
      <4>1. PICK old : old = rsInd[q]
        OBVIOUS
      <4>2. RsIndicator(old) /\ old.modified <= old.modified /\ old.renamed <= old.renamed /\ old.extension <= old.extension
            /\ old.deleted <= old.deleted /\ old.entropy <= old.entropy
        BY <2>1, <4>1 DEF RsIndicator
      <4> QED BY <3>1, <4>1, <4>2, RsScoreGrows
    <3>3. rsInd'[q].risk = x /\ rsInd[q].risk = x
      BY <1>5, <2>1, <2>3, <3>1
    <3> QED BY <1>7, <3>2, <3>3
  <2> QED BY <2>2, <2>3
<1> QED BY <1>6, <1>7 DEF RsFallsByEntropy

\* An indicator that is there, or a new one.
LEMMA RsOfIs == ASSUME RsScored, NEW pid PROVE RsIndicator(RsOf(pid))
<1>1. RsIndicator(RsNew)
  BY DEF RsNew, RsIndicator
<1> QED BY <1>1 DEF RsOf, RsScored

\* No step lowers a risk otherwise.
LEMMA RsScoredStep == RsScored /\ [RsIoNext \/ RsHoneyNext]_rsVars => RsScored' /\ [RsFallsByEntropy]_rsVars
<1> SUFFICES ASSUME RsScored, [RsIoNext \/ RsHoneyNext]_rsVars PROVE RsScored' /\ RsFallsByEntropy
  OBVIOUS
<1>1. ASSUME NEW pid, NEW type, NEW extension, NEW entropy \in Nat, NEW when, RsIngest(pid, type, extension, entropy, when)
      PROVE  RsScored' /\ RsFallsByEntropy
  <2>1. PICK old, ind : old = RsOf(pid) /\ ind = RsCounted(RsOf(pid), type, extension)
    OBVIOUS
  <2>2. RsIndicator(old)
    BY <2>1, RsOfIs
  <2>3. /\ DOMAIN ind = DOMAIN old /\ ind.entropy = old.entropy /\ ind.shadow = old.shadow /\ ind.honeyfile = old.honeyfile
        /\ ind.modified = (IF type \in {"IO_WRITE", "IO_CREATE"} THEN old.modified + 1 ELSE old.modified)
        /\ ind.renamed = (IF type = "IO_RENAME" THEN old.renamed + 1 ELSE old.renamed)
        /\ ind.extension = (IF type = "IO_RENAME" /\ extension THEN old.extension + 1 ELSE old.extension)
        /\ ind.deleted = (IF type = "IO_DELETE" THEN old.deleted + 1 ELSE old.deleted)
    BY <2>1, <2>2 DEF RsCounted, RsIndicator
  <2>4. PICK e \in (IF type \in {"IO_WRITE", "IO_CREATE"} THEN RsAverages(ind.entropy, entropy) ELSE {ind.entropy}) :
          RsPut(pid, [ind EXCEPT !.entropy = e])
    BY <1>1, <2>1 DEF RsIngest
  <2>5. e \in Nat
    BY <2>2, <2>3, <2>4 DEF RsAverages, RsIndicator
  <2>6. PICK new : new = [ind EXCEPT !.entropy = e]
    OBVIOUS
  <2>7. /\ DOMAIN new = DOMAIN ind /\ new.entropy = e /\ new.modified = ind.modified /\ new.renamed = ind.renamed
        /\ new.extension = ind.extension /\ new.deleted = ind.deleted /\ new.shadow = ind.shadow /\ new.honeyfile = ind.honeyfile
    BY <2>2, <2>3, <2>6 DEF RsIndicator
  <2>8. RsIndicator(new) /\ RsNoLess(new, old)
    BY <2>2, <2>3, <2>5, <2>7 DEF RsIndicator, RsNoLess
  <2> QED BY <2>1, <2>4, <2>6, <2>8, RsPutStep
<1>2. ASSUME NEW pid, RsShadowDelete(pid) PROVE RsScored' /\ RsFallsByEntropy
  <2>1. PICK old, new : old = RsOf(pid) /\ new = [old EXCEPT !.shadow = TRUE]
    OBVIOUS
  <2>2. RsIndicator(old)
    BY <2>1, RsOfIs
  <2>3. /\ DOMAIN new = DOMAIN old /\ new.entropy = old.entropy /\ new.modified = old.modified /\ new.renamed = old.renamed
        /\ new.extension = old.extension /\ new.deleted = old.deleted /\ new.shadow = TRUE /\ new.honeyfile = old.honeyfile
    BY <2>1, <2>2 DEF RsIndicator
  <2>4. RsIndicator(new) /\ RsNoLess(new, old)
    <3>1. /\ old.modified \in Nat /\ old.renamed \in Nat /\ old.extension \in Nat /\ old.deleted \in Nat /\ old.entropy \in Nat
          /\ old.shadow \in BOOLEAN /\ old.honeyfile \in BOOLEAN
          /\ DOMAIN old = {"modified", "renamed", "extension", "deleted", "entropy", "shadow", "honeyfile", "risk"}
      BY <2>2 DEF RsIndicator
    <3>2. RsIndicator(new)
      BY <2>3, <3>1 DEF RsIndicator
    <3>3. RsNoLess(new, old)
      BY <2>3, <3>1 DEF RsNoLess
    <3> QED BY <3>2, <3>3
  <2>5. RsPut(pid, new)
    BY <1>2, <2>1 DEF RsShadowDelete
  <2> QED BY <2>1, <2>4, <2>5, RsPutStep
<1>3. CASE rsInd' = rsInd
  <2>1. ASSUME NEW q \in DOMAIN rsInd PROVE ~(rsInd'[q].risk < rsInd[q].risk)
    <3>1. PICK old : old = rsInd[q]
      OBVIOUS
    <3>2. RsIndicator(old) /\ old.modified <= old.modified /\ old.renamed <= old.renamed /\ old.extension <= old.extension
          /\ old.deleted <= old.deleted /\ old.entropy <= old.entropy /\ old.risk = RsScore(old)
      BY <3>1 DEF RsScored, RsIndicator
    <3>3. old.risk \in Nat
      BY <3>2, RsScoreGrows
    <3> QED BY <1>3, <3>1, <3>3
  <2> QED BY <1>3, <2>1 DEF RsScored, RsFallsByEntropy
<1>4. RsAnalyzeBursts \/ RsTick \/ RsHoneyNext \/ UNCHANGED rsVars => rsInd' = rsInd
  BY DEF RsAnalyzeBursts, RsTick, RsHoneyNext, RsAddHoney, RsCheckHoney, RsOthers, rsVars, rsIoVars
<1>5. \A io \in RsIos : io.entropy \in Nat
  <2>1. ASSUME NEW T, NEW X, NEW N, N \subseteq Nat, NEW io \in [type : T, extension : X, entropy : N] PROVE io.entropy \in Nat
    <3>1. io.entropy \in N
      OBVIOUS
    <3> QED BY <2>1, <3>1
  <2>2. {1, 3} \subseteq Nat /\ {1} \subseteq Nat
    OBVIOUS
  <2> QED BY <2>1, <2>2 DEF RsIos
<1> QED BY <1>1, <1>2, <1>3, <1>4, <1>5 DEF RsIoNext

\* An alarm about rapid changes rests on changes of the window, the baseline
\* takes no hash that was not alarmed, and a risk falls only with the entropy:
\* for any files, contents, thresholds and steps of the scores.
THEOREM StepsAreJustified == ArhsSpec /\ FimSpec /\ RsSpec => StepsJustified
<1>1. ArhsSpec => ArhsRapidIsRecent
  <2>1. ArhsInit => ArhsChanges
    <3> SUFFICES ASSUME ArhsInit PROVE ArhsChanges
      OBVIOUS
    <3>1. arhs.changes = <<>> /\ arhs.at = ArhsNobody /\ arhsNow = 0
      BY DEF ArhsInit
    <3>2. DOMAIN arhs = ArhsFields
      BY DEF ArhsInit, ArhsFields
    <3>3. DOMAIN ArhsNobody = {"path", "hash", "stage"} /\ ArhsNobody.path = ""
      BY DEF ArhsNobody
    <3>4. DOMAIN arhs.at = {"path", "hash", "stage"} /\ arhs.at.path = "" /\ arhs.at.path \in ArhsFiles \union {""}
      BY <3>1, <3>3
    <3>5. arhs.changes \in Seq(ArhsChange) /\ arhsNow \in Nat
      BY <3>1
    <3> QED BY <3>2, <3>4, <3>5 DEF ArhsChanges
  <2> QED BY <2>1, ArhsChangesStep, PTL DEF ArhsSpec, ArhsRapidIsRecent
<1>2. FimSpec => FimNoSilentUpdate
  BY FimSilentStep, PTL DEF FimSpec, FimNoSilentUpdate
<1>3. RsSpec => RsRiskFallsOnlyByEntropy
  <2>1. RsInit => RsScored
    BY DEF RsInit, RsScored
  <2>2. [RsFallsByEntropy]_rsVars =>
          [\A pid \in DOMAIN rsInd : rsInd'[pid].risk < rsInd[pid].risk => rsInd'[pid].entropy < rsInd[pid].entropy]_rsVars
    BY DEF RsFallsByEntropy
  <2> QED BY <2>1, <2>2, RsScoredStep, PTL DEF RsSpec, RsRiskFallsOnlyByEntropy
<1> QED BY <1>1, <1>2, <1>3, PTL DEF StepsJustified

=============================================================================

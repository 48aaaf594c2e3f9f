---------------------------- MODULE MonitorsProofs ----------------------------
(***************************************************************************)
(* Proofs about the engines that watch the machine, and of the promises    *)
(* that module MonitorPromises states of them.  Each engine has an         *)
(* inductive invariant of its own; the promises follow from them.          *)
(***************************************************************************)
EXTENDS MonitorPromises, FiniteSetTheorems, SequenceTheorems, WellFoundedInduction, TLAPS

-----------------------------------------------------------------------------
(* Facts about numbers, sequences and the library's searches in them.      *)

\* A set of numbers that is not empty and has a bound has a greatest one.
LEMMA MaxOf ==
  ASSUME NEW n \in Nat, NEW S, S \subseteq 1 .. n, S # {}
  PROVE  Max(S) \in S /\ \A j \in S : j <= Max(S)
<1> DEFINE R == OpToRel(<, Nat)
           T == {n - i : i \in S}
<1>1. IsWellFoundedOn(R, Nat)
  BY NatLessThanWellFounded
<1>2. \A i, j \in Nat : i < j => <<i, j>> \in R
  BY DEF OpToRel
<1>3. \A i \in S : i \in Int /\ n - i \in Nat /\ n - i \in T
  OBVIOUS
<1>4. T \subseteq Nat /\ T # {} /\ \A t \in T : \E i \in S : t = n - i
  BY <1>3
<1> HIDE DEF R, T
<1>5. PICK t \in T : \A u \in T : ~ (<<u, t>> \in R)
  BY <1>1, <1>4, WFMin
<1>6. PICK i \in S : t = n - i
  BY <1>4, <1>5
<1>7. \A j \in S : ~ (n - j < n - i)
  <2>1. \A j \in S : ~ (<<n - j, n - i>> \in R)
    BY <1>3, <1>5, <1>6
  <2> QED BY <1>2, <1>3, <2>1
<1>8. \A j \in S : i >= j
  BY <1>3, <1>7
<1>9. Max(S) \in S /\ \A j \in S : Max(S) >= j
  BY <1>8 DEF Max
<1> QED BY <1>3, <1>9

\* And a set of numbers that is not empty has a least one.
LEMMA MinOf == ASSUME NEW S, S \subseteq Nat, S # {} PROVE Min(S) \in S /\ \A j \in S : Min(S) <= j
<1> DEFINE R == OpToRel(<, Nat)
<1>1. IsWellFoundedOn(R, Nat)
  BY NatLessThanWellFounded
<1>2. \A i, j \in Nat : i < j => <<i, j>> \in R
  BY DEF OpToRel
<1> HIDE DEF R
<1>3. PICK i \in S : \A j \in S : ~ (<<j, i>> \in R)
  BY <1>1, WFMin
<1>4. \A j \in S : j \in Nat /\ i \in Nat /\ ~ (j < i)
  BY <1>2, <1>3
<1>5. \A j \in S : i <= j
  BY <1>4
<1> QED BY <1>5 DEF Min

\* Concatenation, with the lengths named and each part on its own.
LEMMA Joined ==
  ASSUME NEW S, NEW a \in Seq(S), NEW b \in Seq(S), NEW p, NEW q, p = Len(a), q = Len(b)
  PROVE  /\ a \o b \in Seq(S) /\ Len(a \o b) = p + q /\ p \in Nat /\ q \in Nat
         /\ \A i \in 1 .. p : (a \o b)[i] = a[i]
         /\ \A i \in 1 .. q : (a \o b)[p + i] = b[i]
<1>1. p \in Nat /\ q \in Nat
  OBVIOUS
<1>2. a \o b \in Seq(S) /\ Len(a \o b) = p + q
      /\ \A i \in 1 .. p + q : (a \o b)[i] = IF i <= p THEN a[i] ELSE b[i - p]
  BY ConcatProperties
<1>3. \A i \in 1 .. p : (a \o b)[i] = a[i]
  BY <1>1, <1>2
<1>4. ASSUME NEW i \in 1 .. q PROVE (a \o b)[p + i] = b[i]
  <2>1. p + i \in 1 .. p + q /\ ~(p + i <= p) /\ (p + i) - p = i
    BY <1>1
  <2> QED BY <1>2, <2>1
<1> QED BY <1>1, <1>2, <1>3, <1>4

\* t is s with x put between its first n elements and the others.
IsSpliced(t, s, n, x) ==
  /\ Len(t) = Len(s) + 1
  /\ \A i \in 1 .. n : t[i] = s[i]
  /\ t[n + 1] = x
  /\ \A i \in n + 2 .. Len(s) + 1 : t[i] = s[i - 1]

\* Putting an element into a sequence, as FwInsert() does with a rule.
LEMMA Spliced ==
  ASSUME NEW S, NEW s, NEW n, NEW x, s \in Seq(S), n \in 0 .. Len(s), x \in S
  PROVE  /\ SubSeq(s, 1, n) \o <<x>> \o SubSeq(s, n + 1, Len(s)) \in Seq(S)
         /\ IsSpliced(SubSeq(s, 1, n) \o <<x>> \o SubSeq(s, n + 1, Len(s)), s, n, x)
<1> DEFINE t == SubSeq(s, 1, n) \o <<x>> \o SubSeq(s, n + 1, Len(s))
<1> DEFINE a == SubSeq(s, 1, n)
           b == SubSeq(s, n + 1, Len(s))
           c == a \o <<x>>
<1>0. Len(s) \in Nat /\ n \in Nat
  OBVIOUS
<1>1. a \in Seq(S) /\ Len(a) = n /\ \A i \in 1 .. n : a[i] = s[i]
  OBVIOUS
<1>2. b \in Seq(S) /\ Len(b) = Len(s) - n /\ \A i \in 1 .. Len(s) - n : b[i] = s[n + i]
  OBVIOUS
<1>3. <<x>> \in Seq(S) /\ Len(<<x>>) = 1 /\ <<x>>[1] = x
  OBVIOUS
<1> HIDE DEF a, b
<1>4. c \in Seq(S) /\ Len(c) = n + 1 /\ (\A i \in 1 .. n : c[i] = a[i]) /\ c[n + 1] = x
  BY <1>0, <1>1, <1>3, Joined
<1> HIDE DEF c
<1>5. PICK m, q : m = n + 1 /\ q = Len(s) - n
  OBVIOUS
<1>6. /\ c \o b \in Seq(S) /\ Len(c \o b) = m + q
      /\ \A i \in 1 .. m : (c \o b)[i] = c[i]
      /\ \A i \in 1 .. q : (c \o b)[m + i] = b[i]
  <2>1. c \in Seq(S) /\ b \in Seq(S) /\ m = Len(c) /\ q = Len(b)
    BY <1>2, <1>4, <1>5
  <2> QED BY <2>1, Joined
<1>7. t = c \o b
  BY DEF a, b, c
<1> HIDE DEF t
<1>8. (\A i \in 1 .. n : t[i] = s[i]) /\ t[n + 1] = x
  <2>1. \A i \in 1 .. n : i \in 1 .. m
    BY <1>0, <1>5
  <2>2. n + 1 \in 1 .. m
    BY <1>0, <1>5
  <2> QED BY <1>1, <1>4, <1>6, <1>7, <2>1, <2>2
<1>9. ASSUME NEW i \in n + 2 .. Len(s) + 1 PROVE t[i] = s[i - 1]
  <2>1. PICK j : j = i - (n + 1)
    OBVIOUS
  <2>2. j \in 1 .. q /\ n + j = i - 1 /\ m + j = i
    BY <1>0, <1>5, <2>1
  <2>3. t[i] = b[j]
    BY <1>6, <1>7, <2>2
  <2> QED BY <1>2, <1>5, <2>2, <2>3
<1>10. Len(t) = Len(s) + 1
  BY <1>0, <1>5, <1>6, <1>7
<1>11. t \in Seq(S) /\ IsSpliced(t, s, n, x)
  BY <1>6, <1>7, <1>8, <1>9, <1>10 DEF IsSpliced
<1> QED BY <1>11 DEF t

\* A sequence without one of its elements.
LEMMA Removed ==
  ASSUME NEW S, NEW s \in Seq(S), NEW k \in 1 .. Len(s)
  PROVE  /\ RemoveAt(s, k) \in Seq(S) /\ Len(RemoveAt(s, k)) = Len(s) - 1
         /\ \A i \in 1 .. Len(s) - 1 : RemoveAt(s, k)[i] = IF i < k THEN s[i] ELSE s[i + 1]
<1> DEFINE a == SubSeq(s, 1, k - 1)
           b == SubSeq(s, k + 1, Len(s))
<1>0. Len(s) \in Nat /\ k \in Nat
  OBVIOUS
<1>1. a \in Seq(S) /\ Len(a) = k - 1 /\ \A i \in 1 .. k - 1 : a[i] = s[i]
  OBVIOUS
<1>2. b \in Seq(S) /\ Len(b) = Len(s) - k /\ \A i \in 1 .. Len(s) - k : b[i] = s[k + i]
  OBVIOUS
<1> HIDE DEF a, b
<1>3. PICK m, q : m = k - 1 /\ q = Len(s) - k
  OBVIOUS
<1>4. /\ a \o b \in Seq(S) /\ Len(a \o b) = m + q
      /\ \A i \in 1 .. m : (a \o b)[i] = a[i]
      /\ \A i \in 1 .. q : (a \o b)[m + i] = b[i]
  <2>1. a \in Seq(S) /\ b \in Seq(S) /\ m = Len(a) /\ q = Len(b)
    BY <1>1, <1>2, <1>3
  <2> QED BY <2>1, Joined
<1>5. PICK t : t = RemoveAt(s, k) /\ t = a \o b
  BY DEF RemoveAt, a, b
<1>6. ASSUME NEW i \in 1 .. Len(s) - 1 PROVE t[i] = IF i < k THEN s[i] ELSE s[i + 1]
  <2>1. CASE i < k
    <3>1. i \in 1 .. m
      BY <1>0, <1>3, <2>1
    <3> QED BY <1>1, <1>3, <1>4, <1>5, <2>1, <3>1
  <2>2. CASE ~(i < k)
    <3>1. PICK j : j = i - m
      OBVIOUS
    <3>2. j \in 1 .. q /\ m + j = i /\ k + j = i + 1
      BY <1>0, <1>3, <2>2, <3>1
    <3> QED BY <1>2, <1>3, <1>4, <1>5, <2>2, <3>2
  <2> QED BY <2>1, <2>2
<1>7. Len(t) = Len(s) - 1
  <2>1. Len(t) = m + q
    BY <1>4, <1>5
  <2> QED BY <1>0, <1>3, <2>1
<1> QED BY <1>4, <1>5, <1>6, <1>7

\* A log that takes one more entry and may lose its oldest.
LEMMA Rolling ==
  ASSUME NEW S, NEW s \in Seq(S), NEW x \in S
  PROVE  /\ Append(s, x) \in Seq(S) /\ Len(Append(s, x)) = Len(s) + 1
         /\ Append(s, x)[Len(s) + 1] = x /\ \A i \in 1 .. Len(s) : Append(s, x)[i] = s[i]
         /\ Tail(Append(s, x)) \in Seq(S) /\ Len(Tail(Append(s, x))) = Len(s)
         /\ \A i \in 1 .. Len(s) : Tail(Append(s, x))[i] = IF i = Len(s) THEN x ELSE s[i + 1]
<1>1. PICK t : t = Append(s, x)
  OBVIOUS
<1>2. t \in Seq(S) /\ t # <<>> /\ Len(t) = Len(s) + 1 /\ t[Len(s) + 1] = x /\ \A i \in 1 .. Len(s) : t[i] = s[i]
  BY <1>1, AppendProperties
<1>3. Tail(t) \in Seq(S) /\ Len(Tail(t)) = Len(t) - 1 /\ \A i \in 1 .. Len(Tail(t)) : Tail(t)[i] = t[i + 1]
  BY <1>2, HeadTailProperties
<1>4. Len(s) \in Nat
  OBVIOUS
<1>5. \A i \in 1 .. Len(s) : Tail(t)[i] = IF i = Len(s) THEN x ELSE s[i + 1]
  BY <1>2, <1>3, <1>4
<1> QED BY <1>1, <1>2, <1>3, <1>4, <1>5

\* The last n elements of a sequence.
IsLast(a, s, n, S) == a \in Seq(S) /\ Len(a) = n /\ \A i \in 1 .. n : a[i] = s[Len(s) - n + i]

\* The end of a sequence, as the log keeps it when it is trimmed.
LEMMA LastOf ==
  ASSUME NEW S, NEW s \in Seq(S), NEW n \in Nat, n <= Len(s)
  PROVE  IsLast(SubSeq(s, Len(s) - n + 1, Len(s)), s, n, S)
<1>0. PICK p : p = Len(s)
  OBVIOUS
<1>1. p \in Nat /\ n <= p
  BY <1>0
<1>2. PICK a, m : m = p - n + 1 /\ a = SubSeq(s, m, p)
  OBVIOUS
<1>3. m \in 1 .. p + 1 /\ p - m + 1 = n
  BY <1>1, <1>2
<1>4. a \in Seq(S)
  BY <1>0, <1>1, <1>2, <1>3
<1>5. Len(a) = n
  BY <1>0, <1>1, <1>2, <1>3
<1>6. ASSUME NEW i \in 1 .. n PROVE a[i] = s[p - n + i]
  <2>1. a[i] = s[m + i - 1]
    BY <1>0, <1>1, <1>2, <1>3
  <2>2. m + i - 1 = p - n + i
    BY <1>1, <1>2
  <2> QED BY <2>1, <2>2
<1> QED BY <1>0, <1>2, <1>4, <1>5, <1>6 DEF IsLast

-----------------------------------------------------------------------------
(* AlertManager: sounds, and the alerts that nobody has seen.              *)

AlRecord == [id : Nat, ack : BOOLEAN]

\* The alert is acknowledged, about to be recorded, recorded and not seen, or
\* the history is full.
AlSafe(id) ==
  \/ id \in alAcked \/ \E c \in AlCallers : alCalls[c].pc = "insert" /\ alCalls[c].id = id
  \/ \E i \in DOMAIN alHistory : alHistory[i] = [id |-> id, ack |-> FALSE]
  \/ Len(alHistory) = MAX_HISTORY

\* The time of the last sound is that of a sound, or the clock's start, which
\* is longer ago than a cooldown for every time that a call has read.
AlSounds ==
  /\ alNow \in Nat /\ alNow >= SOUND_COOLDOWN /\ alBeeps \subseteq Nat
  /\ alLast \in Nat /\ (alLast = 0 \/ alLast \in alBeeps)
  /\ DOMAIN alCalls = AlCallers
  /\ \A c \in AlCallers : /\ DOMAIN alCalls[c] = {"pc", "id", "level", "at"}
                          /\ alCalls[c].id \in Nat /\ alCalls[c].at \in Nat
                          /\ alCalls[c].pc \in {"last", "beep", "silent"} => alCalls[c].at >= SOUND_COOLDOWN
  /\ AlSilentMeansRecent

AlRecords ==
  /\ alNextId \in Nat \ {0}
  /\ alHistory \in Seq(AlRecord) /\ Len(alHistory) <= MAX_HISTORY
  /\ \A id \in 1 .. alNextId - 1 : AlSafe(id)

\* No alert has been made, and the clock has run longer than a cooldown.
LEMMA AlInitInv == AlInit => AlSounds /\ AlRecords
<1> SUFFICES ASSUME AlInit PROVE AlSounds /\ AlRecords
  OBVIOUS
<1>1. alHistory \in Seq(AlRecord) /\ Len(alHistory) = 0
  BY DEF AlInit
<1>2. alNextId = 1 /\ 1 .. 1 - 1 = {} /\ MAX_HISTORY \in Nat
  BY AlConstants DEF AlInit
<1>3. AlRecords
  BY <1>1, <1>2 DEF AlRecords
<1>4. AlSounds
  <2>1. /\ SOUND_COOLDOWN \in Nat /\ alNow = SOUND_COOLDOWN /\ alBeeps = {} /\ alLast = 0
        /\ alCalls = [c \in AlCallers |-> AlIdle]
    BY AlConstants DEF AlInit
  <2>2. \A c \in AlCallers : alCalls[c] = AlIdle
    BY <2>1
  <2>3. DOMAIN AlIdle = {"pc", "id", "level", "at"} /\ AlIdle.id = 0 /\ AlIdle.at = 0 /\ AlIdle.pc = "idle"
    BY DEF AlIdle
  <2> QED BY <2>1, <2>2, <2>3 DEF AlSounds, AlSilentMeansRecent
<1> QED BY <1>3, <1>4

\* A call that finds the cooldown over sounds, and one that does not had a sound
\* just before: every step of the callers and of the clock keeps this.
LEMMA AlSoundsStep == ASSUME AlSounds, [AlNext]_alVars, alNextId \in Nat PROVE AlSounds'
<1> USE AlConstants DEF AlSounds, AlSilentMeansRecent
<1>1. ASSUME NEW c \in AlCallers, NEW level \in AlLevels, AlPush(c, level) PROVE AlSounds'
  BY <1>1 DEF AlPush
<1>2. ASSUME NEW c \in AlCallers, AlInsert(c) PROVE AlSounds'
  BY <1>2 DEF AlInsert, AlGoto
<1>3. ASSUME NEW c \in AlCallers, AlClock(c) PROVE AlSounds'
  BY <1>3 DEF AlClock
<1>4. ASSUME NEW c \in AlCallers, AlLast(c) PROVE AlSounds'
  <2>1. CASE alCalls[c].at - alLast < SOUND_COOLDOWN
    <3>1. alLast \in alBeeps /\ alLast > alCalls[c].at - SOUND_COOLDOWN
      <4>a. alCalls[c].at \in Nat
        OBVIOUS
      <4>b. alCalls[c].at >= SOUND_COOLDOWN
        BY <1>4 DEF AlLast
      <4>c. SOUND_COOLDOWN \in Nat
        OBVIOUS
      <4>d. alLast \in Nat
        OBVIOUS
      <4>1. alCalls[c].at \in Nat /\ alCalls[c].at >= SOUND_COOLDOWN /\ SOUND_COOLDOWN \in Nat /\ alLast \in Nat
        BY <4>a, <4>b, <4>c, <4>d
      <4>2. alLast # 0 /\ alLast > alCalls[c].at - SOUND_COOLDOWN
        BY <2>1, <4>1
      <4> QED BY <4>2
    <3>2. /\ alCalls' = [alCalls EXCEPT ![c].pc = "silent"]
          /\ alNow' = alNow /\ alBeeps' = alBeeps /\ alLast' = alLast
      BY <1>4, <2>1 DEF AlLast, AlGoto
    <3>3. alCalls'[c].at = alCalls[c].at /\ alCalls'[c].id = alCalls[c].id /\ DOMAIN alCalls'[c] = DOMAIN alCalls[c]
      BY <3>2
    <3>4. \A d \in AlCallers : d # c => alCalls'[d] = alCalls[d]
      BY <3>2
    <3> QED BY <1>4, <3>1, <3>2, <3>3, <3>4 DEF AlLast
  <2>2. CASE ~(alCalls[c].at - alLast < SOUND_COOLDOWN)
    BY <1>4, <2>2 DEF AlLast, AlGoto
  <2> QED BY <2>1, <2>2
<1>5. ASSUME NEW c \in AlCallers, AlBeep(c) PROVE AlSounds'
  <2>1. /\ alNow' = alNow /\ alBeeps \subseteq alBeeps' /\ alBeeps' \subseteq Nat /\ alLast' \in Nat /\ (alLast' = 0 \/ alLast' \in alBeeps')
        /\ alCalls' = [alCalls EXCEPT ![c] = AlIdle]
    <3>1. alCalls[c].at \in Nat
      OBVIOUS
    <3>2. CASE alCalls[c].pc = "beep"
      <4>1. alNow' = alNow /\ alBeeps' = alBeeps \union {alCalls[c].at} /\ alLast' = alCalls[c].at /\ alCalls' = [alCalls EXCEPT ![c] = AlIdle]
        BY <1>5, <3>2 DEF AlBeep
      <4>2. alBeeps \subseteq Nat
        OBVIOUS
      <4> QED BY ONLY <3>1, <4>1, <4>2
    <3>3. CASE alCalls[c].pc # "beep"
      <4>1. alNow' = alNow /\ alBeeps' = alBeeps /\ alLast' = alLast /\ alCalls' = [alCalls EXCEPT ![c] = AlIdle]
        BY <1>5, <3>3 DEF AlBeep
      <4>2. alBeeps \subseteq Nat /\ alLast \in Nat /\ (alLast = 0 \/ alLast \in alBeeps)
        OBVIOUS
      <4> QED BY ONLY <4>1, <4>2
    <3> QED BY <3>2, <3>3
  <2>2. DOMAIN AlIdle = {"pc", "id", "level", "at"} /\ AlIdle.id = 0 /\ AlIdle.at = 0 /\ AlIdle.pc = "idle"
    BY DEF AlIdle
  <2>3. DOMAIN alCalls' = AlCallers /\ alCalls'[c] = AlIdle /\ \A d \in AlCallers : d # c => alCalls'[d] = alCalls[d]
    BY <2>1
  <2> QED BY <2>1, <2>2, <2>3
<1>6. CASE AlAcknowledge \/ AlClear \/ AlSettings \/ UNCHANGED alVars
  BY <1>6 DEF AlAcknowledge, AlClear, AlSettings, alVars
<1>7. CASE AlTick
  BY <1>7 DEF AlTick
<1> QED BY <1>1, <1>2, <1>3, <1>4, <1>5, <1>6, <1>7 DEF AlNext

\* No step loses an alert that nobody has acknowledged, unless the history is
\* full: calls under way, acknowledgements, and the trim of the oldest.
LEMMA AlRecordsStep == ASSUME AlSounds, AlRecords, [AlNext]_alVars PROVE AlRecords'
<1>0. /\ alNextId \in Nat \ {0} /\ alHistory \in Seq(AlRecord) /\ Len(alHistory) <= MAX_HISTORY /\ MAX_HISTORY \in Nat
      /\ Len(alHistory) \in Nat /\ DOMAIN alHistory = 1 .. Len(alHistory)
  BY AlConstants DEF AlRecords
<1>1. ASSUME NEW c \in AlCallers, NEW level \in AlLevels, AlPush(c, level) PROVE AlRecords'
  <2>1. /\ alNextId' = alNextId + 1 /\ alHistory' = alHistory /\ alAcked' = alAcked
        /\ alCalls[c].pc = "idle" /\ alCalls'[c].pc = "insert" /\ alCalls'[c].id = alNextId
        /\ \A d \in AlCallers : d # c => alCalls'[d] = alCalls[d]
    BY <1>1 DEF AlPush, AlSounds
  <2>2. ASSUME NEW id \in 1 .. alNextId' - 1 PROVE AlSafe(id)'
    <3>1. CASE id = alNextId
      BY <2>1, <3>1 DEF AlSafe
    <3>2. CASE id # alNextId
      <4>1. id \in 1 .. alNextId - 1
        BY <1>0, <2>1, <3>2
      <4>2. AlSafe(id)
        BY <4>1 DEF AlRecords
      <4> QED BY <2>1, <4>2 DEF AlSafe
    <3> QED BY <3>1, <3>2
  <2> QED BY <1>0, <2>1, <2>2 DEF AlRecords
<1>2. ASSUME NEW c \in AlCallers, AlInsert(c) PROVE AlRecords'
  <2>1. PICK r : r = [id |-> alCalls[c].id, ack |-> FALSE]
    OBVIOUS
  <2>2. r \in AlRecord
    BY <2>1 DEF AlRecord, AlSounds
  <2>3. /\ alNextId' = alNextId /\ alAcked' = alAcked /\ alHistory' = AlKept(Append(alHistory, r))
        /\ \A d \in AlCallers : d # c => alCalls'[d] = alCalls[d]
    BY <1>2, <2>1 DEF AlInsert, AlGoto, AlSounds
  <2>4. PICK h : h = Append(alHistory, r)
    OBVIOUS
  <2>5. /\ h \in Seq(AlRecord) /\ Len(h) = Len(alHistory) + 1
        /\ h[Len(alHistory) + 1] = r /\ \A i \in 1 .. Len(alHistory) : h[i] = alHistory[i]
    BY <1>0, <2>2, <2>4, Rolling
  <2>8. Tail(h) \in Seq(AlRecord) /\ Len(Tail(h)) = Len(alHistory)
    BY <1>0, <2>2, <2>4, Rolling
  <2>9. Len(h) = Len(alHistory) + 1 /\ Len(alHistory) \in Nat /\ Len(alHistory) <= MAX_HISTORY /\ MAX_HISTORY \in Nat
    BY <1>0, <2>5
  <2>6. CASE Len(h) > MAX_HISTORY
    <3>1. alHistory' = Tail(h) /\ Len(alHistory') = MAX_HISTORY
      <4>1. alHistory' = Tail(h)
        BY <2>3, <2>4, <2>6 DEF AlKept
      <4>2. Len(alHistory) = MAX_HISTORY
        BY <2>6, <2>9
      <4> QED BY <2>8, <4>1, <4>2
    <3> QED BY <1>0, <2>3, <2>8, <3>1 DEF AlRecords, AlSafe
  <2>7. CASE ~(Len(h) > MAX_HISTORY)
    <3>1. alHistory' = h /\ Len(h) <= MAX_HISTORY /\ DOMAIN h = 1 .. Len(alHistory) + 1 /\ Len(alHistory) # MAX_HISTORY
      <4>1. alHistory' = h
        BY <2>3, <2>4, <2>7 DEF AlKept
      <4>2. DOMAIN h = 1 .. Len(h)
        BY <2>5
      <4>3. Len(h) <= MAX_HISTORY
        BY <2>7, <2>9
      <4>4. Len(alHistory) # MAX_HISTORY
        BY <2>7, <2>9
      <4>5. DOMAIN h = 1 .. Len(alHistory) + 1
        BY <2>5, <4>2
      <4> QED BY <4>1, <4>3, <4>4, <4>5
    <3>2. ASSUME NEW id \in 1 .. alNextId' - 1 PROVE AlSafe(id)'
      <4>1. AlSafe(id)
        BY <2>3 DEF AlRecords
      <4>2. CASE id = alCalls[c].id
        <5>1. Len(alHistory) + 1 \in DOMAIN h /\ h[Len(alHistory) + 1] = [id |-> id, ack |-> FALSE]
          <6>1. Len(alHistory) + 1 \in DOMAIN h
            BY <2>9, <3>1
          <6>2. r = [id |-> id, ack |-> FALSE]
            BY <2>1, <4>2
          <6> QED BY <2>5, <6>1, <6>2
        <5> QED BY <3>1, <5>1 DEF AlSafe
      <4>3. CASE id # alCalls[c].id
        <5>1. CASE \E i \in DOMAIN alHistory : alHistory[i] = [id |-> id, ack |-> FALSE]
          <6>1. PICK i \in 1 .. Len(alHistory) : alHistory[i] = [id |-> id, ack |-> FALSE]
            BY <1>0, <5>1
          <6>2. i \in DOMAIN h /\ h[i] = [id |-> id, ack |-> FALSE]
            <7>1. i \in DOMAIN h
              BY <2>9, <3>1
            <7> QED BY <2>5, <6>1, <7>1
          <6> QED BY <3>1, <6>2 DEF AlSafe
        <5>2. CASE ~(\E i \in DOMAIN alHistory : alHistory[i] = [id |-> id, ack |-> FALSE])
          BY <2>3, <3>1, <4>1, <4>3, <5>2 DEF AlSafe
        <5> QED BY <5>1, <5>2
      <4> QED BY <4>2, <4>3
    <3> QED BY <1>0, <2>3, <2>5, <3>1, <3>2 DEF AlRecords
  <2> QED BY <2>6, <2>7
<1>3. ASSUME NEW c \in AlCallers, AlClock(c) \/ AlLast(c) \/ AlBeep(c) PROVE AlRecords'
  <2>1. /\ alNextId' = alNextId /\ alHistory' = alHistory /\ alAcked' = alAcked
        /\ alCalls[c].pc # "insert" /\ \A d \in AlCallers : d # c => alCalls'[d] = alCalls[d]
    BY <1>3 DEF AlClock, AlLast, AlBeep, AlGoto, AlSounds
  <2>2. ASSUME NEW id \in 1 .. alNextId' - 1 PROVE AlSafe(id)'
    <3>1. AlSafe(id)
      BY <2>1 DEF AlRecords
    <3> QED BY <2>1, <3>1 DEF AlSafe
  <2> QED BY <1>0, <2>1, <2>2 DEF AlRecords
<1>4. CASE AlAcknowledge
  <2>1. PICK ids : /\ alHistory' = [i \in DOMAIN alHistory |-> [alHistory[i] EXCEPT !.ack = @ \/ alHistory[i].id \in ids]]
                   /\ alAcked' = alAcked \union ids
    BY <1>4 DEF AlAcknowledge
  <2>2. alNextId' = alNextId /\ alCalls' = alCalls
    BY <1>4 DEF AlAcknowledge
  <2>3. ASSUME NEW i \in 1 .. Len(alHistory)
        PROVE  /\ alHistory'[i] \in AlRecord
               /\ alHistory[i].id \notin ids => alHistory'[i] = alHistory[i]
    <3>1. PICK r : r = alHistory[i]
      OBVIOUS
    <3>2. r \in AlRecord
      BY <1>0, <3>1
    <3>3. alHistory'[i] = [r EXCEPT !.ack = r.ack \/ r.id \in ids]
      BY <1>0, <2>1, <3>1
    <3>4. PICK b \in BOOLEAN : b = (r.ack \/ r.id \in ids)
      OBVIOUS
    <3>5. [r EXCEPT !.ack = b] \in AlRecord
      BY <3>2, <3>4 DEF AlRecord
    <3>6. r.id \notin ids => b = r.ack
      BY <3>2, <3>4 DEF AlRecord
    <3>7. [r EXCEPT !.ack = r.ack] = r
      BY <3>2 DEF AlRecord
    <3> QED BY <3>1, <3>3, <3>4, <3>5, <3>6, <3>7
  <2>4. DOMAIN alHistory' = 1 .. Len(alHistory)
    BY <1>0, <2>1
  <2>5. alHistory' \in Seq(AlRecord) /\ Len(alHistory') = Len(alHistory)
    <3>1. alHistory' \in [1 .. Len(alHistory) -> AlRecord]
      BY <1>0, <2>1, <2>3, <2>4
    <3> QED BY <1>0, <3>1
  <2>6. ASSUME NEW id \in 1 .. alNextId' - 1 PROVE AlSafe(id)'
    <3>1. AlSafe(id)
      BY <2>2 DEF AlRecords
    <3>2. CASE \E i \in DOMAIN alHistory : alHistory[i] = [id |-> id, ack |-> FALSE]
      <4>1. PICK i \in 1 .. Len(alHistory) : alHistory[i] = [id |-> id, ack |-> FALSE]
        BY <1>0, <3>2
      <4>2. alHistory[i].id = id
        BY <4>1
      <4> QED BY <2>1, <2>3, <2>4, <4>1, <4>2 DEF AlSafe
    <3>3. CASE ~(\E i \in DOMAIN alHistory : alHistory[i] = [id |-> id, ack |-> FALSE])
      BY <2>1, <2>2, <2>5, <3>1, <3>3 DEF AlSafe
    <3> QED BY <3>2, <3>3
  <2> QED BY <1>0, <2>2, <2>5, <2>6 DEF AlRecords
<1>5. CASE AlClear
  <2>1. alHistory' = <<>> /\ alNextId' = alNextId /\ alAcked' = 1 .. alNextId - 1
    BY <1>5 DEF AlClear
  <2>2. alHistory' \in Seq(AlRecord) /\ Len(alHistory') = 0
    BY <2>1
  <2>3. ASSUME NEW id \in 1 .. alNextId' - 1 PROVE AlSafe(id)'
    BY <2>1 DEF AlSafe
  <2>4. 0 <= MAX_HISTORY
    BY <1>0
  <2> QED BY <1>0, <2>1, <2>2, <2>3, <2>4 DEF AlRecords
<1>6. CASE AlSettings \/ AlTick \/ UNCHANGED alVars
  <2>1. alNextId' = alNextId /\ alHistory' = alHistory /\ alAcked' = alAcked /\ alCalls' = alCalls
    BY <1>6 DEF AlSettings, AlTick, alVars
  <2> QED BY <2>1 DEF AlRecords, AlSafe
<1> QED BY <1>1, <1>2, <1>3, <1>4, <1>5, <1>6 DEF AlNext

\* AlertManager keeps its sounds and its records in this shape for ever, however
\* many threads raise alerts at once.
THEOREM AlertInvariant == AlSpec => [](AlSounds /\ AlRecords)
<1>1. AlSounds /\ AlRecords /\ [AlNext]_alVars => (AlSounds /\ AlRecords)'
  <2>1. AlRecords => alNextId \in Nat
    BY DEF AlRecords
  <2> QED BY <2>1, AlSoundsStep, AlRecordsStep
<1> QED BY <1>1, AlInitInv, PTL DEF AlSpec

\* Silence means a recent sound, and alerts nobody has seen are kept.
LEMMA AlTold == AlSounds /\ AlRecords => AlSilentMeansRecent /\ AlUnseenKept
  BY DEF AlSounds, AlRecords, AlSafe, AlUnseenKept

-----------------------------------------------------------------------------
(* The event log of EngineManager.                                         *)

TlEvent == [id : Nat, level : Nat, time : Nat]

\* The calls under way: their time is no longer ago than TlStall, unless the
\* clock was set meanwhile.
TlPending ==
  /\ tlNow \in Nat /\ tlNextId \in Nat /\ tlEpoch \in Nat /\ 0 < tlEpoch /\ tlEpoch <= tlNextId
  /\ tlCalls \in [TlCallers -> TlEvent]
  /\ \A c \in TlCallers : tlCalls[c].id < tlNextId
  /\ \A c \in TlCallers : tlCalls[c].id >= tlEpoch => tlCalls[c].time <= tlNow /\ tlNow <= tlCalls[c].time + TlStall

\* What was reported since the clock was set is in the order of time, up to
\* TlStall.
TlInOrder(log, now, epoch) ==
  /\ log \in Seq(TlEvent)
  /\ \A i \in 1 .. Len(log) : log[i].id >= epoch => log[i].time <= now
  /\ \A i, j \in 1 .. Len(log) : i < j /\ log[i].id >= epoch /\ log[j].id >= epoch => log[i].time <= log[j].time + TlStall

\* The log is the end of all that was appended, and long enough.
TlEnd(log, all, k) ==
  /\ k \in Nat /\ Len(all) = k + Len(log)
  /\ \A i \in 1 .. Len(log) : log[i] = all[k + i]
  /\ k = 0 \/ MAX_LOG + 1 - LogDropped <= Len(log)

TlInv ==
  /\ TlPending
  /\ TlInOrder(tlLog, tlNow, tlEpoch) /\ Len(tlLog) <= MAX_LOG
  /\ \A i \in 1 .. Len(tlLog) : tlLog[i].id < tlNextId
  /\ \E m \in Nat : \A i \in 1 .. Len(tlLog) : tlLog[i].level <= m
  /\ tlLogged \in Seq(TlEvent) /\ \E k : TlEnd(tlLog, tlLogged, k)

\* What is assumed of the limits of the log.
LEMMA TlNumbers ==
  /\ MAX_LOG \in Nat /\ LogDropped \in Nat /\ LevelWindow \in Nat /\ TlStall \in Nat
  /\ 0 < LogDropped /\ LogDropped <= MAX_LOG /\ TlStall <= LevelWindow
  BY TlConstants

\* The fields of an event are numbers.
LEMMA TlFields == \A e \in TlEvent : e.id \in Nat /\ e.level \in Nat /\ e.time \in Nat
  BY DEF TlEvent

\* The log starts empty.
LEMMA TlInitInv == TlInit => TlInv
<1> SUFFICES ASSUME TlInit PROVE TlInv
  OBVIOUS
<1>1. TlNoEvent \in TlEvent /\ TlNoEvent.id = 0
  BY DEF TlNoEvent, TlEvent
<1>2. TlPending
  BY <1>1 DEF TlInit, TlPending
<1>3. PICK e : e = <<>> /\ tlLog = e /\ tlLogged = e
  BY DEF TlInit
<1>4. e \in Seq(TlEvent) /\ Len(e) = 0
  BY <1>3
<1>5. TlEnd(e, e, 0)
  BY <1>4 DEF TlEnd
<1>6. TlInOrder(e, tlNow, tlEpoch) /\ Len(e) <= MAX_LOG
  BY <1>4, TlNumbers DEF TlInOrder
<1>7. \E m \in Nat : \A i \in 1 .. Len(e) : e[i].level <= m
  BY <1>4
<1> QED BY <1>2, <1>3, <1>4, <1>5, <1>6, <1>7 DEF TlInv

\* The new event is appended and the log trimmed: the last k of the log stay.
TlTrims(new, log, e, d) ==
  /\ new \in Seq(TlEvent) /\ Len(new) = Len(log) + 1 - d /\ Len(new) <= MAX_LOG /\ d <= Len(log)
  /\ d = 0 \/ Len(new) = MAX_LOG + 1 - LogDropped
  /\ new[Len(new)] = e /\ Len(new) > 0
  /\ \A i \in 1 .. Len(new) - 1 : new[i] = log[d + i]

\* What is left after the trim.
LEMMA TlTrimmedIs ==
  ASSUME NEW log \in Seq(TlEvent), Len(log) <= MAX_LOG, NEW e \in TlEvent
  PROVE  \E d \in Nat : TlTrims(TlTrimmed(Append(log, e)), log, e, d)
<1>0. PICK new : new = TlTrimmed(Append(log, e))
  OBVIOUS
<1>1. PICK a : a = Append(log, e)
  OBVIOUS
<1>2. a \in Seq(TlEvent) /\ Len(a) = Len(log) + 1 /\ a[Len(log) + 1] = e /\ \A i \in 1 .. Len(log) : a[i] = log[i]
  BY <1>1, Rolling
<1>3. PICK n : n = Len(log)
  OBVIOUS
<1>4. n \in Nat /\ n <= MAX_LOG /\ Len(a) = n + 1
  BY <1>2, <1>3
<1>5. CASE ~(n + 1 > MAX_LOG)
  <2>1. new = a
    BY <1>0, <1>1, <1>4, <1>5 DEF TlTrimmed
  <2>2. \A i \in 1 .. Len(new) - 1 : new[i] = log[0 + i]
    BY <1>2, <1>3, <1>4, <2>1
  <2>3. n + 1 = n + 1 - 0 /\ n + 1 <= MAX_LOG /\ 0 <= n /\ n + 1 > 0
    BY <1>4, <1>5, TlNumbers
  <2>4. TlTrims(new, log, e, 0)
    BY <1>2, <1>3, <1>4, <2>1, <2>2, <2>3 DEF TlTrims
  <2> QED BY <1>0, <2>4
<1>6. CASE n + 1 > MAX_LOG
  <2>1. new = SubSeq(a, LogDropped + 1, n + 1)
    BY <1>0, <1>1, <1>4, <1>6 DEF TlTrimmed
  <2>2. PICK d, l : d = LogDropped /\ l = n + 1 - d
    OBVIOUS
  <2>3. n = MAX_LOG /\ d \in Nat /\ d <= n /\ l \in Nat /\ l > 0 /\ l <= MAX_LOG /\ l = MAX_LOG + 1 - LogDropped
    BY <1>4, <1>6, <2>2, TlNumbers
  <2>4. new \in Seq(TlEvent) /\ Len(new) = l /\ \A i \in 1 .. l : new[i] = a[d + i]
    <3>1. d + 1 \in 1 .. Len(a) + 1 /\ n + 1 \in 0 .. Len(a) /\ (n + 1) - (d + 1) + 1 = l
      BY <1>4, <2>2, <2>3
    <3>2. new \in Seq(TlEvent) /\ Len(new) = l
      BY <1>2, <1>4, <2>1, <2>2, <2>3
    <3>3. ASSUME NEW i \in 1 .. l PROVE new[i] = a[d + i]
      BY <1>2, <1>4, <2>1, <2>2, <2>3
    <3> QED BY <3>2, <3>3
  <2>5. new[l] = e
    <3>1. d + l = n + 1 /\ l \in 1 .. l
      BY <1>4, <2>2, <2>3
    <3> QED BY <1>2, <1>3, <2>4, <3>1
  <2>6. \A i \in 1 .. l - 1 : new[i] = log[d + i]
    <3> SUFFICES ASSUME NEW i \in 1 .. l - 1 PROVE new[i] = log[d + i]
      OBVIOUS
    <3>1. i \in 1 .. l /\ d + i \in 1 .. n
      BY <1>4, <2>2, <2>3
    <3> QED BY <1>2, <1>3, <2>4, <3>1
  <2>7. Len(new) = Len(log) + 1 - d /\ d <= Len(log) /\ Len(new) > 0 /\ Len(new) <= MAX_LOG /\ Len(new) = MAX_LOG + 1 - LogDropped
    BY <1>3, <2>2, <2>3, <2>4
  <2>8. TlTrims(new, log, e, d)
    BY <2>3, <2>4, <2>5, <2>6, <2>7 DEF TlTrims
  <2> QED BY <1>0, <2>3, <2>8
<1> QED BY <1>5, <1>6

\* An event is appended later than its time was read, and older ones may go.
LEMMA TlAppendInv == ASSUME TlInv, NEW c \in TlCallers, TlAppend(c) PROVE TlInv'
<1>1. PICK e : e = tlCalls[c]
  OBVIOUS
<1>2. /\ tlLog' = TlTrimmed(Append(tlLog, e)) /\ tlLogged' = Append(tlLogged, e) /\ e # TlNoEvent
      /\ tlCalls' = [tlCalls EXCEPT ![c] = TlNoEvent] /\ tlNow' = tlNow /\ tlNextId' = tlNextId /\ tlEpoch' = tlEpoch
  BY <1>1 DEF TlAppend
<1>3. /\ e \in TlEvent /\ e.time \in Nat /\ e.level \in Nat /\ e.id \in Nat /\ tlNow \in Nat /\ tlEpoch \in Nat /\ e.id < tlNextId
      /\ e.id >= tlEpoch => e.time <= tlNow /\ tlNow <= e.time + TlStall
  BY <1>1, <1>2, TlFields DEF TlInv, TlPending
<1>4. TlPending'
  <2>1. TlNoEvent \in TlEvent /\ TlNoEvent.id = 0
    BY DEF TlNoEvent, TlEvent
  <2> QED BY <1>2, <2>1 DEF TlInv, TlPending
<1>5. tlLog \in Seq(TlEvent) /\ Len(tlLog) <= MAX_LOG /\ tlLogged \in Seq(TlEvent) /\ Len(tlLog) \in Nat /\ Len(tlLogged) \in Nat
  BY DEF TlInv, TlInOrder
<1>6. PICK new, all : new = TlTrimmed(Append(tlLog, e)) /\ all = Append(tlLogged, e)
  OBVIOUS
<1>7. PICK d \in Nat : TlTrims(new, tlLog, e, d)
  BY <1>3, <1>5, <1>6, TlTrimmedIs
<1>8. PICK n, l : n = Len(tlLog) /\ l = Len(new)
  OBVIOUS
<1>9. n \in Nat /\ l \in Nat /\ l = n + 1 - d /\ l > 0 /\ d <= n
  BY <1>5, <1>7, <1>8 DEF TlTrims
\* An event of the new log is the new one or one of the old log.
<1>10. \A i \in 1 .. l : (i = l /\ new[i] = e) \/ (i < l /\ d + i \in 1 .. n /\ new[i] = tlLog[d + i])
  <2> SUFFICES ASSUME NEW i \in 1 .. l PROVE (i = l /\ new[i] = e) \/ (i < l /\ d + i \in 1 .. n /\ new[i] = tlLog[d + i])
    OBVIOUS
  <2>1. CASE i = l
    BY <1>7, <1>8, <2>1 DEF TlTrims
  <2>2. CASE i # l
    <3>1. i < l /\ d + i \in 1 .. n /\ i \in 1 .. l - 1
      BY <1>9, <2>2
    <3> QED BY <1>7, <1>8, <3>1 DEF TlTrims
  <2> QED BY <2>1, <2>2
<1>11. \A i \in 1 .. n : tlLog[i] \in TlEvent /\ tlLog[i].time \in Nat /\ tlLog[i].level \in Nat /\ tlLog[i].id < tlNextId
                        /\ (tlLog[i].id >= tlEpoch => tlLog[i].time <= tlNow)
  BY <1>5, <1>8, TlFields DEF TlInv, TlInOrder
<1>12. TlInOrder(new, tlNow, tlEpoch)
  <2>1. \A i \in 1 .. l : new[i].id >= tlEpoch => new[i].time <= tlNow
    BY <1>3, <1>10, <1>11
  <2>2. ASSUME NEW i \in 1 .. l, NEW j \in 1 .. l, i < j, new[i].id >= tlEpoch, new[j].id >= tlEpoch PROVE new[i].time <= new[j].time + TlStall
    <3>1. i < l /\ d + i \in 1 .. n /\ new[i] = tlLog[d + i]
      BY <1>9, <1>10, <2>2
    <3>2. CASE j = l
      <4>1. new[j] = e /\ new[i].time \in Nat /\ new[i].time <= tlNow
        BY <1>10, <1>11, <2>2, <3>1, <3>2
      <4> QED BY <1>3, <2>2, <4>1, TlNumbers
    <3>3. CASE j # l
      <4>1. d + j \in 1 .. n /\ new[j] = tlLog[d + j] /\ d + i < d + j
        BY <1>9, <1>10, <2>2, <3>3
      <4>2. tlLog[d + i].time <= tlLog[d + j].time + TlStall
        BY <1>8, <2>2, <3>1, <4>1 DEF TlInv, TlInOrder
      <4> QED BY <3>1, <4>1, <4>2
    <3> QED BY <3>2, <3>3
  <2> QED BY <1>7, <1>8, <2>1, <2>2 DEF TlInOrder, TlTrims
<1>13. \E m \in Nat : \A i \in 1 .. Len(new) : new[i].level <= m
  <2>1. PICK m \in Nat : \A i \in 1 .. n : tlLog[i].level <= m
    BY <1>8 DEF TlInv
  <2>2. PICK b \in Nat : m <= b /\ e.level <= b
    <3>1. m <= m + e.level /\ e.level <= m + e.level /\ m + e.level \in Nat
      BY <1>3
    <3> QED BY <3>1
  <2>3. ASSUME NEW i \in 1 .. l PROVE new[i].level <= b
    <3>1. CASE i = l /\ new[i] = e
      BY <2>2, <3>1
    <3>2. CASE d + i \in 1 .. n /\ new[i] = tlLog[d + i]
      <4>1. new[i].level <= m /\ new[i].level \in Nat
        BY <1>11, <2>1, <3>2
      <4> QED BY <2>2, <4>1
    <3> QED BY <1>10, <3>1, <3>2
  <2> QED BY <1>8, <2>3
<1>14. \E k : TlEnd(new, all, k)
  <2>1. PICK k : TlEnd(tlLog, tlLogged, k)
    BY DEF TlInv
  <2>2. k \in Nat /\ Len(tlLogged) = k + n /\ (k = 0 \/ MAX_LOG + 1 - LogDropped <= n)
    BY <1>8, <2>1 DEF TlEnd
  <2>3. all \in Seq(TlEvent) /\ Len(all) = Len(tlLogged) + 1 /\ all[Len(tlLogged) + 1] = e
        /\ \A i \in 1 .. Len(tlLogged) : all[i] = tlLogged[i]
    BY <1>3, <1>5, <1>6, Rolling
  <2>4. PICK q, a : q = k + d /\ a = Len(tlLogged)
    OBVIOUS
  <2>5. a \in Nat /\ a = k + n /\ q \in Nat /\ a + 1 = q + l
    BY <1>9, <2>2, <2>4
  <2>6. \A i \in 1 .. l : new[i] = all[q + i]
    <3> SUFFICES ASSUME NEW i \in 1 .. l PROVE new[i] = all[q + i]
      OBVIOUS
    <3>1. CASE i = l /\ new[i] = e
      BY <2>3, <2>4, <2>5, <3>1
    <3>2. CASE d + i \in 1 .. n /\ new[i] = tlLog[d + i]
      <4>1. tlLog[d + i] = tlLogged[k + (d + i)]
        BY <1>8, <2>1, <3>2 DEF TlEnd
      <4>2. k + (d + i) = q + i /\ q + i \in 1 .. a
        <5>1. PICK x : x = d + i
          OBVIOUS
        <5>2. x \in 1 .. n /\ i \in Int /\ d \in Nat /\ k \in Nat /\ n \in Nat
          BY <1>9, <2>2, <3>2, <5>1
        <5>3. k + x \in 1 .. k + n
          BY <5>2
        <5>4. k + x = q + i
          BY <2>4, <5>1, <5>2
        <5> QED BY <2>5, <5>1, <5>3, <5>4
      <4> QED BY <2>3, <2>4, <3>2, <4>1, <4>2
    <3> QED BY <1>10, <3>1, <3>2
  <2>7. q = 0 \/ MAX_LOG + 1 - LogDropped <= l
    <3>1. CASE d = 0
      <4>1. q = k /\ l = n + 1
        BY <1>9, <2>2, <2>4, <3>1
      <4> QED BY <1>9, <2>2, <4>1, TlNumbers
    <3>2. CASE d # 0
      <4>1. l = MAX_LOG + 1 - LogDropped /\ l \in Nat
        BY <1>7, <1>8, <1>9, <3>2 DEF TlTrims
      <4> QED BY <4>1
    <3> QED BY <3>1, <3>2
  <2>8. TlEnd(new, all, q)
    <3>1. Len(all) = a + 1
      BY <2>3, <2>4
    <3> QED BY <1>8, <2>5, <2>6, <2>7, <3>1 DEF TlEnd
  <2> QED BY <2>8
<1>15. all \in Seq(TlEvent)
  BY <1>3, <1>5, <1>6
<1>16. Len(new) <= MAX_LOG
  BY <1>7 DEF TlTrims
<1>17. \A i \in 1 .. Len(new) : new[i].id < tlNextId
  BY <1>3, <1>8, <1>10, <1>11
<1> QED BY <1>2, <1>4, <1>6, <1>12, <1>13, <1>14, <1>15, <1>16, <1>17 DEF TlInv

\* Every step of the callers and of the clock keeps it.
LEMMA TlStepInv == TlInv /\ [TlNext]_tlVars => TlInv'
<1> SUFFICES ASSUME TlInv, [TlNext]_tlVars PROVE TlInv'
  OBVIOUS
<1>1. ASSUME NEW c \in TlCallers, TlAppend(c) PROVE TlInv'
  BY <1>1, TlAppendInv
<1>2. ASSUME NEW c \in TlCallers, NEW level \in TlLevels, TlReport(c, level) PROVE TlInv'
  <2>1. UNCHANGED <<tlNow, tlLog, tlLogged, tlEpoch>>
    BY <1>2 DEF TlReport
  <2>2. PICK e : e = [id |-> tlNextId, level |-> level, time |-> tlNow]
    OBVIOUS
  <2>3. tlNextId \in Nat /\ tlNow \in Nat /\ level \in Nat /\ TlStall \in Nat /\ tlEpoch \in Nat /\ 0 < tlEpoch /\ tlEpoch <= tlNextId
    BY TlConstants DEF TlInv, TlPending
  <2>4. e \in TlEvent /\ e.time = tlNow /\ e.id = tlNextId
    BY <2>2, <2>3 DEF TlEvent
  <2>5. tlCalls' = [tlCalls EXCEPT ![c] = e] /\ tlNextId' = tlNextId + 1
    BY <1>2, <2>2 DEF TlReport
  <2>6. tlCalls' \in [TlCallers -> TlEvent] /\ tlCalls'[c] = e /\ \A d \in TlCallers : d # c => tlCalls'[d] = tlCalls[d]
    BY <2>4, <2>5 DEF TlInv, TlPending
  <2>9. ASSUME NEW d \in TlCallers PROVE tlCalls'[d].id < tlNextId + 1
    <3>1. CASE d = c
      BY <2>3, <2>4, <2>6, <3>1
    <3>2. CASE d # c
      <4>1. tlCalls'[d].id < tlNextId /\ tlCalls'[d].id \in Nat
        BY <2>6, <3>2, TlFields DEF TlInv, TlPending
      <4> QED BY <2>3, <4>1
    <3> QED BY <3>1, <3>2
  <2>7. ASSUME NEW d \in TlCallers, tlCalls'[d].id >= tlEpoch
        PROVE  tlCalls'[d].time <= tlNow /\ tlNow <= tlCalls'[d].time + TlStall
    <3>1. CASE d = c
      BY <2>3, <2>4, <2>6, <3>1
    <3>2. CASE d # c
      BY <2>6, <2>7, <3>2 DEF TlInv, TlPending
    <3> QED BY <3>1, <3>2
  <2>8. TlPending'
    BY <2>1, <2>3, <2>5, <2>6, <2>7, <2>9 DEF TlPending
  <2>10. ASSUME NEW i \in 1 .. Len(tlLog) PROVE tlLog[i].id < tlNextId + 1
    <3>1. tlLog[i].id \in Nat /\ tlLog[i].id < tlNextId
      BY TlFields DEF TlInv, TlInOrder
    <3> QED BY <2>3, <3>1
  <2> QED BY <2>1, <2>5, <2>8, <2>10 DEF TlInv
<1>3. CASE TlTick
  <2>1. tlNow' = tlNow + 1 /\ UNCHANGED <<tlNextId, tlLog, tlCalls, tlLogged, tlEpoch>> /\ tlNow \in Nat
    BY <1>3 DEF TlTick, TlInv, TlPending
  <2>2. TlPending'
    <3>1. ASSUME NEW c \in TlCallers, tlCalls[c].id >= tlEpoch
          PROVE  tlCalls[c].time <= tlNow + 1 /\ tlNow + 1 <= tlCalls[c].time + TlStall
      <4>1. tlCalls[c].time \in Nat /\ tlCalls[c].time <= tlNow /\ tlNow - tlCalls[c].time < TlStall
        BY <1>3, <3>1, TlFields DEF TlTick, TlInv, TlPending
      <4> QED BY <2>1, <4>1, TlNumbers
    <3> QED BY <2>1, <3>1 DEF TlInv, TlPending
  <2>3. TlInOrder(tlLog, tlNow + 1, tlEpoch)
    <3>1. ASSUME NEW i \in 1 .. Len(tlLog), tlLog[i].id >= tlEpoch PROVE tlLog[i].time <= tlNow + 1
      <4>1. tlLog[i] \in TlEvent /\ tlLog[i].time <= tlNow
        BY <3>1 DEF TlInv, TlInOrder
      <4> QED BY <2>1, <4>1, TlFields
    <3> QED BY <3>1 DEF TlInv, TlInOrder
  <2> QED BY <2>1, <2>2, <2>3 DEF TlInv
<1>4. CASE UNCHANGED tlVars
  BY <1>4 DEF tlVars, TlInv, TlPending, TlInOrder
<1>5. ASSUME NEW t \in 0 .. TlMaxTime, TlSet(t) PROVE TlInv'
  <2>1. tlNow' = t /\ tlEpoch' = tlNextId /\ UNCHANGED <<tlNextId, tlLog, tlCalls, tlLogged>> /\ t \in Nat
    BY <1>5, TlConstants DEF TlSet
  <2>2. tlNextId \in Nat /\ 0 < tlNextId
    BY DEF TlInv, TlPending
  <2>3. \A c \in TlCallers : ~(tlCalls[c].id >= tlNextId)
    <3> SUFFICES ASSUME NEW c \in TlCallers PROVE ~(tlCalls[c].id >= tlNextId)
      OBVIOUS
    <3>1. tlCalls[c].id \in Nat /\ tlCalls[c].id < tlNextId
      BY TlFields DEF TlInv, TlPending
    <3> QED BY <2>2, <3>1
  <2>4. \A i \in 1 .. Len(tlLog) : ~(tlLog[i].id >= tlNextId)
    <3> SUFFICES ASSUME NEW i \in 1 .. Len(tlLog) PROVE ~(tlLog[i].id >= tlNextId)
      OBVIOUS
    <3>1. tlLog[i].id \in Nat /\ tlLog[i].id < tlNextId
      BY TlFields DEF TlInv, TlInOrder
    <3> QED BY <2>2, <3>1
  <2>5. TlPending'
    BY <2>1, <2>2, <2>3 DEF TlInv, TlPending
  <2>6. TlInOrder(tlLog, t, tlNextId)
    BY <2>4 DEF TlInv, TlInOrder
  <2> QED BY <2>1, <2>5, <2>6 DEF TlInv
<1> QED BY <1>1, <1>2, <1>3, <1>4, <1>5 DEF TlNext

\* The log of EngineManager keeps this shape for ever.
THEOREM LogInvariant == TlSpec => []TlInv
  BY TlInitInv, TlStepInv, PTL DEF TlSpec

\* The highest level of a set of events with bounded levels.
LEMMA TlMaxLevelIs ==
  ASSUME NEW evs, NEW m \in Nat, \A e \in evs : e.level \in Nat /\ e.level <= m
  PROVE  /\ TlMaxLevel(evs) \in Nat /\ \A e \in evs : e.level <= TlMaxLevel(evs)
         /\ TlMaxLevel(evs) = 0 \/ \E e \in evs : e.level = TlMaxLevel(evs)
<1> DEFINE S == {l \in 1 .. m : \E e \in evs : e.level = l}
           T == {e.level : e \in evs} \union {0}
<1>1. \E b \in T : \A e \in evs : e.level <= b
  <2>1. CASE S = {}
    <3>1. \A e \in evs : ~(e.level >= 1)
      BY <2>1
    <3> QED BY <3>1
  <2>2. CASE S # {}
    <3>1. S \subseteq 1 .. m
      OBVIOUS
    <3>2. Max(S) \in S /\ \A j \in S : j <= Max(S)
      BY <2>2, <3>1, MaxOf
    <3>3. PICK b : b = Max(S)
      OBVIOUS
    <3>4. b \in 1 .. m /\ \E e \in evs : e.level = b
      BY <3>2, <3>3
    <3>5. ASSUME NEW e \in evs PROVE e.level <= b
      <4>1. CASE e.level = 0
        BY <3>4, <4>1
      <4>2. CASE e.level # 0
        <5>1. e.level \in 1 .. m
          BY <4>2
        <5>2. e.level \in S
          BY <5>1
        <5> QED BY <3>2, <3>3, <5>2
      <4> QED BY <4>1, <4>2
    <3> QED BY <3>4, <3>5
  <2> QED BY <2>1, <2>2
<1>2. TlMaxLevel(evs) = CHOOSE b \in T : \A e \in evs : e.level <= b
  BY DEF TlMaxLevel
<1>3. TlMaxLevel(evs) \in T /\ \A e \in evs : e.level <= TlMaxLevel(evs)
  BY <1>1, <1>2
<1> QED BY <1>3

\* More events have no lower level.
LEMMA TlMaxGrows ==
  ASSUME NEW A, NEW B, A \subseteq B, NEW m \in Nat, \A e \in B : e.level \in Nat /\ e.level <= m
  PROVE  TlMaxLevel(A) <= TlMaxLevel(B)
<1>1. /\ TlMaxLevel(A) \in Nat /\ (TlMaxLevel(A) = 0 \/ \E e \in A : e.level = TlMaxLevel(A))
  BY TlMaxLevelIs
<1>2. TlMaxLevel(B) \in Nat /\ \A e \in B : e.level <= TlMaxLevel(B)
  BY TlMaxLevelIs
<1> QED BY <1>1, <1>2

\* The backward walk stops at the first event outside the window and still sees
\* every recent one, up to TlStall.
LEMMA TlLevelTold == ASSUME TlInv PROVE TlLevelCovers
<1> DEFINE I == {i \in 1 .. Len(tlLog) : tlNow - tlLog[i].time > LevelWindow}
           n == IF I # {} THEN Max(I) ELSE 0
           C == ToSet(SubSeq(tlLog, n + 1, Len(tlLog)))
           J == {j \in 1 .. Len(tlLog) : TlSettled(j) /\ tlNow - tlLog[j].time <= LevelWindow - TlStall}
           recent == {tlLog[i] : i \in J}
           younger(age) == {e \in ToSet(tlLog) : tlNow - e.time <= age}
<1>1. tlLog \in Seq(TlEvent) /\ Len(tlLog) \in Nat /\ tlNow \in Nat
  BY DEF TlInv, TlInOrder, TlPending
<1>2. \A i \in 1 .. Len(tlLog) : tlLog[i] \in TlEvent /\ tlLog[i].time \in Nat /\ tlLog[i].level \in Nat
  BY <1>1, TlFields
<1>3. TlCurrentLevel = TlMaxLevel(C)
  BY DEF TlCurrentLevel, SelectLastInSeq
<1>4. n \in 0 .. Len(tlLog) /\ (n # 0 => tlNow - tlLog[n].time > LevelWindow)
      /\ \A i \in 1 .. Len(tlLog) : i > n => ~(tlNow - tlLog[i].time > LevelWindow)
  <2>1. CASE I = {}
    BY <1>1, <2>1
  <2>2. CASE I # {}
    <3>1. I \subseteq 1 .. Len(tlLog)
      OBVIOUS
    <3>2. Max(I) \in I /\ \A j \in I : j <= Max(I)
      BY <1>1, <2>2, <3>1, MaxOf
    <3>3. PICK x : x = Max(I)
      OBVIOUS
    <3>4. x \in 1 .. Len(tlLog) /\ tlNow - tlLog[x].time > LevelWindow /\ n = x
      BY <2>2, <3>2, <3>3
    <3>5. ASSUME NEW i \in 1 .. Len(tlLog), i > x PROVE ~(tlNow - tlLog[i].time > LevelWindow)
      <4>1. i \notin I
        BY <1>1, <3>2, <3>3, <3>4, <3>5
      <4> QED BY <4>1
    <3> HIDE DEF n, I
    <3> QED BY <1>1, <3>4, <3>5
  <2> QED BY <2>1, <2>2
<1> HIDE DEF n, I
<1>5. PICK t : t = SubSeq(tlLog, n + 1, Len(tlLog))
  OBVIOUS
<1>6. t \in Seq(TlEvent) /\ Len(t) = Len(tlLog) - n /\ \A i \in 1 .. Len(tlLog) - n : t[i] = tlLog[n + i]
  BY <1>1, <1>4, <1>5
<1>7. \A e : e \in C <=> \E i \in 1 .. Len(tlLog) - n : e = t[i]
  <2>1. C = ToSet(t) /\ DOMAIN t = 1 .. Len(t)
    BY <1>5, <1>6
  <2> QED BY <1>6, <2>1 DEF ToSet
<1>8. \A e : e \in ToSet(tlLog) <=> \E i \in 1 .. Len(tlLog) : e = tlLog[i]
  BY <1>1 DEF ToSet
<1> HIDE DEF C
<1>9. C \subseteq younger(LevelWindow)
  <2> SUFFICES ASSUME NEW e \in C PROVE e \in younger(LevelWindow)
    OBVIOUS
  <2>1. PICK i \in 1 .. Len(tlLog) - n : e = t[i]
    BY <1>7
  <2>2. n + i \in 1 .. Len(tlLog) /\ n + i > n
    BY <1>1, <1>4
  <2>3. e = tlLog[n + i]
    BY <1>6, <2>1
  <2>4. tlNow - e.time <= LevelWindow
    BY <1>1, <1>2, <1>4, <2>2, <2>3, TlNumbers
  <2> QED BY <1>8, <2>2, <2>3, <2>4
<1>10. recent \subseteq C
  <2> SUFFICES ASSUME NEW e \in recent PROVE e \in C
    OBVIOUS
  <2>1. PICK i \in 1 .. Len(tlLog) : e = tlLog[i] /\ TlSettled(i) /\ tlNow - tlLog[i].time <= LevelWindow - TlStall
    OBVIOUS
  <2>2. ~(i <= n)
    <3> SUFFICES ASSUME i <= n PROVE FALSE
      OBVIOUS
    <3>1. n \in 1 .. Len(tlLog) /\ n # 0
      BY <1>1, <1>4
    <3>2. tlNow - tlLog[n].time > LevelWindow /\ tlLog[n].time \in Nat /\ tlLog[i].time \in Nat
      BY <1>2, <1>4, <3>1
    <3>3. tlLog[i].time <= tlLog[n].time + TlStall
      <4>1. CASE i = n
        BY <3>2, <4>1, TlNumbers
      <4>2. CASE i # n
        <5>1. i < n
          BY <1>1, <1>4, <4>2
        <5>2. i \in i .. Len(tlLog) /\ n \in i .. Len(tlLog)
          BY <1>1, <3>1, <5>1
        <5>3. tlLog[i].id >= tlEpoch /\ tlLog[n].id >= tlEpoch
          BY <2>1, <5>2 DEF TlSettled
        <5> QED BY <3>1, <5>1, <5>3 DEF TlInv, TlInOrder
      <4> QED BY <4>1, <4>2
    <3> QED BY <1>1, <2>1, <3>2, <3>3, TlNumbers
  <2>3. PICK j : j = i - n
    OBVIOUS
  <2>4. j \in 1 .. Len(tlLog) - n /\ n + j = i
    BY <1>1, <1>4, <2>2, <2>3
  <2>5. t[j] = e
    BY <1>6, <2>1, <2>4
  <2> QED BY <1>7, <2>4, <2>5
<1>11. PICK m \in Nat : \A i \in 1 .. Len(tlLog) : tlLog[i].level <= m
  BY DEF TlInv
<1>12. \A e \in younger(LevelWindow) : e.level \in Nat /\ e.level <= m
  BY <1>2, <1>8, <1>11
<1>13. \A e \in C : e.level \in Nat /\ e.level <= m
  BY <1>9, <1>12
<1>14. PICK Y, Z : Y = younger(LevelWindow) /\ Z = recent
  OBVIOUS
<1>15. TlMaxLevel(C) <= TlMaxLevel(Y)
  <2>1. C \subseteq Y /\ \A e \in Y : e.level \in Nat /\ e.level <= m
    BY <1>9, <1>12, <1>14
  <2> QED BY <2>1, TlMaxGrows
<1>16. TlMaxLevel(Z) <= TlMaxLevel(C)
  <2>1. Z \subseteq C /\ \A e \in C : e.level \in Nat /\ e.level <= m
    BY <1>10, <1>13, <1>14
  <2> QED BY <2>1, TlMaxGrows
<1> QED BY <1>3, <1>14, <1>15, <1>16 DEF TlLevelCovers

\* A reader that asks for the recent events gets the last ones appended.
LEMMA TlRecentTold == ASSUME TlInv PROVE TlRecentComplete
<1>1. tlLog \in Seq(TlEvent) /\ tlLogged \in Seq(TlEvent)
  BY DEF TlInv, TlInOrder
<1>2. PICK k : TlEnd(tlLog, tlLogged, k)
  BY DEF TlInv
<1>3. PICK p, q : p = Len(tlLog) /\ q = Len(tlLogged)
  OBVIOUS
<1>4. p \in Nat /\ q \in Nat /\ k \in Nat /\ q = k + p /\ (k = 0 \/ MAX_LOG + 1 - LogDropped <= p)
  BY <1>1, <1>2, <1>3 DEF TlEnd
<1> SUFFICES ASSUME NEW n \in 0 .. MAX_LOG + 1 - LogDropped
             PROVE  TlRecent(n) = SubSeq(tlLogged, Len(tlLogged) - (IF Len(tlLogged) > n THEN n ELSE Len(tlLogged)) + 1, Len(tlLogged))
  BY DEF TlRecentComplete
<1>5. CASE k = 0
  <2>1. \A i \in 1 .. Len(tlLog) : tlLog[i] = tlLogged[i]
    BY <1>2, <1>3, <1>4, <1>5 DEF TlEnd
  <2>2. Len(tlLog) = Len(tlLogged)
    BY <1>3, <1>4, <1>5
  <2>3. tlLog = tlLogged
    BY <1>1, <2>1, <2>2, SeqEqual
  <2> QED BY <2>3 DEF TlRecent
<1>6. CASE k # 0
  <2>1. n \in Nat /\ n <= p /\ n <= q
    BY <1>4, <1>6, TlNumbers
  <2>2. (IF p > n THEN n ELSE p) = n /\ (IF q > n THEN n ELSE q) = n
    BY <1>4, <2>1
  <2>3. TlRecent(n) = SubSeq(tlLog, p - n + 1, p)
    BY <1>3, <2>2 DEF TlRecent
  <2>4. PICK a, b : a = SubSeq(tlLog, p - n + 1, p) /\ b = SubSeq(tlLogged, q - n + 1, q)
    OBVIOUS
  <2>5. a \in Seq(TlEvent) /\ Len(a) = n /\ \A i \in 1 .. n : a[i] = tlLog[p - n + i]
    <3>1. tlLog \in Seq(TlEvent) /\ n \in Nat /\ n <= Len(tlLog)
      BY <1>1, <1>3, <2>1
    <3>2. IsLast(SubSeq(tlLog, Len(tlLog) - n + 1, Len(tlLog)), tlLog, n, TlEvent)
      BY ONLY <3>1, LastOf
    <3> QED BY <1>3, <2>4, <3>2 DEF IsLast
  <2>6. b \in Seq(TlEvent) /\ Len(b) = n /\ \A i \in 1 .. n : b[i] = tlLogged[q - n + i]
    <3>1. tlLogged \in Seq(TlEvent) /\ n \in Nat /\ n <= Len(tlLogged)
      BY <1>1, <1>3, <2>1
    <3>2. IsLast(SubSeq(tlLogged, Len(tlLogged) - n + 1, Len(tlLogged)), tlLogged, n, TlEvent)
      BY ONLY <3>1, LastOf
    <3> QED BY <1>3, <2>4, <3>2 DEF IsLast
  <2>7. ASSUME NEW i \in 1 .. n PROVE a[i] = b[i]
    <3>1. PICK j : j = p - n + i
      OBVIOUS
    <3>2. j \in 1 .. p /\ k + j = q - n + i
      BY <1>4, <2>1, <3>1
    <3>3. tlLog[j] = tlLogged[k + j]
      BY <1>2, <1>3, <3>2 DEF TlEnd
    <3> QED BY <2>5, <2>6, <3>1, <3>2, <3>3
  <2>8. a = b
    BY <2>5, <2>6, <2>7, SeqEqual
  <2> QED BY <1>3, <2>2, <2>3, <2>4, <2>8
<1> QED BY <1>5, <1>6

-----------------------------------------------------------------------------
(* ThreatIntelEngine: the list of indicators and its indices.              *)

TiIoc == [id : Nat, type : TiTypes, value : TiValues, given : TiValues]
TiLine == [type : TiTypes, value : TiValues]

\* A hash or a domain is stored in its normal spelling.
TiNormal(e) == TiIndexOf(e.type) \in {"hash", "domain"} => e.value = TiNorm[e.given]

TiList(iocs) == iocs \in Seq(TiIoc) /\ \A i \in 1 .. Len(iocs) : TiNormal(iocs[i])

TiInv ==
  /\ tiNext \in Nat
  /\ TiList(tiIocs) /\ tiIndex = TiRebuilt(tiIocs)
  /\ tiFile \in Seq(TiLine) /\ tiRead \in Seq(TiLine)

\* An empty list has empty indices.
LEMMA TiNone == TiList(<<>>) /\ TiRebuilt(<<>>) = TiEmptyIndex
<1>1. <<>> \in Seq(TiIoc) /\ Len(<<>>) = 0 /\ DOMAIN <<>> = {}
  OBVIOUS
<1>2. \A k : {<<>>[i].value : i \in {j \in DOMAIN <<>> : TiIndexOf(<<>>[j].type) = k}} = {}
  BY <1>1
<1> QED BY <1>1, <1>2 DEF TiList, TiRebuilt, TiEmptyIndex

\* An indicator that is added is stored in its normal spelling and indexed.
LEMMA TiAdded ==
  ASSUME TiInv, NEW type \in TiTypes, NEW value \in TiValues, TiAdd(type, value)
  PROVE  tiNext' \in Nat /\ TiList(tiIocs') /\ tiIndex' = TiRebuilt(tiIocs')
<1>1. PICK e : e = [id |-> tiNext, type |-> type, value |-> TiStored(type, value), given |-> value]
  OBVIOUS
<1>2. TiStored(type, value) \in TiValues /\ (TiIndexOf(type) \in {"hash", "domain"} => TiStored(type, value) = TiNorm[value])
  BY TiConstants DEF TiStored
<1>3. tiNext \in Nat /\ tiIocs \in Seq(TiIoc) /\ \A i \in 1 .. Len(tiIocs) : TiNormal(tiIocs[i])
  BY DEF TiInv, TiList
<1>4. e \in TiIoc
  BY <1>1, <1>2, <1>3 DEF TiIoc
<1>5. TiNormal(e)
  BY <1>1, <1>2 DEF TiNormal
<1>6. tiIocs' = Append(tiIocs, e) /\ tiIndex' = TiRebuilt(tiIocs') /\ tiNext' = tiNext + 1
  BY <1>1 DEF TiAdd
<1>7. PICK t : t = Append(tiIocs, e)
  OBVIOUS
<1>8. t \in Seq(TiIoc) /\ Len(t) = Len(tiIocs) + 1 /\ t[Len(tiIocs) + 1] = e /\ \A i \in 1 .. Len(tiIocs) : t[i] = tiIocs[i]
  BY <1>3, <1>4, <1>7, Rolling
<1>9. ASSUME NEW i \in 1 .. Len(t) PROVE TiNormal(t[i])
  <2>1. i = Len(tiIocs) + 1 \/ i \in 1 .. Len(tiIocs)
    BY <1>3, <1>8
  <2> QED BY <1>3, <1>5, <1>8, <2>1
<1> QED BY <1>3, <1>6, <1>7, <1>8, <1>9 DEF TiList

\* The defaults are installed into an empty list, spelled as they are looked up.
LEMMA TiInstallInv ==
  ASSUME TiInv, TiInstall
  PROVE  tiNext' \in Nat /\ TiList(tiIocs') /\ tiIndex' = TiRebuilt(tiIocs')
<1>1. CASE tiIocs # <<>>
  BY <1>1 DEF TiInstall, TiInstalled, TiInv
<1>2. CASE tiIocs = <<>>
  <2> DEFINE t == [i \in DOMAIN TiDefaults |->
               [id |-> tiNext + i - 1, type |-> TiDefaults[i].type, value |-> TiDefaults[i].value, given |-> TiDefaults[i].value]]
  <2>1. tiIocs' = t /\ tiIndex' = TiRebuilt(tiIocs') /\ tiNext' = tiNext + Len(TiDefaults)
    BY <1>2 DEF TiInstall, TiInstalled
  <2>2. TiDefaults \in Seq(TiLine) /\ tiNext \in Nat
    BY TiConstants DEF TiLine, TiInv
  <2>3. Len(TiDefaults) \in Nat /\ DOMAIN TiDefaults = 1 .. Len(TiDefaults) /\ DOMAIN t = 1 .. Len(TiDefaults)
    BY <2>2
  <2>4. ASSUME NEW i \in 1 .. Len(TiDefaults) PROVE t[i] \in TiIoc /\ TiNormal(t[i])
    <3>1. PICK d, n : d = TiDefaults[i] /\ n = tiNext + i - 1
      OBVIOUS
    <3>2. d \in TiLine /\ n \in Nat
      BY <2>2, <2>3, <3>1
    <3>3. d.type \in TiTypes /\ d.value \in TiValues
      BY <3>2 DEF TiLine
    <3>4. TiNorm[d.value] = d.value
      BY <2>3, <3>1, TiConstants
    <3>5. PICK e : e = [id |-> n, type |-> d.type, value |-> d.value, given |-> d.value]
      OBVIOUS
    <3>6. t[i] = e
      BY <2>3, <3>1, <3>5
    <3>7. e \in TiIoc
      BY <3>2, <3>3, <3>5 DEF TiIoc
    <3>8. e.value = TiNorm[e.given]
      BY <3>4, <3>5
    <3> HIDE DEF t
    <3> QED BY <3>6, <3>7, <3>8 DEF TiNormal
  <2> HIDE DEF t
  <2>5. t \in Seq(TiIoc) /\ Len(t) = Len(TiDefaults)
    <3>1. t \in [1 .. Len(TiDefaults) -> TiIoc]
      <4>1. t = [i \in 1 .. Len(TiDefaults) |-> t[i]]
        BY <2>3 DEF t
      <4> QED BY <2>4, <4>1
    <3> QED BY <2>3, <3>1
  <2> QED BY <2>1, <2>2, <2>3, <2>4, <2>5 DEF TiList
<1> QED BY <1>1, <1>2

\* Adding, removing, starting, saving and reloading keep list and indices in step.
LEMMA TiStepInv == TiInv /\ [TiStep]_tiVars => TiInv'
<1> SUFFICES ASSUME TiInv, [TiStep]_tiVars PROVE TiInv'
  OBVIOUS
<1>0. tiIocs \in Seq(TiIoc) /\ (\A i \in 1 .. Len(tiIocs) : TiNormal(tiIocs[i])) /\ Len(tiIocs) \in Nat
  BY DEF TiInv, TiList
<1>1. ASSUME NEW type \in TiTypes, NEW value \in TiValues, TiAddIoc(type, value) PROVE TiInv'
  <2>1. tiNext' \in Nat /\ TiList(tiIocs') /\ tiIndex' = TiRebuilt(tiIocs')
    BY <1>1, TiAdded DEF TiAddIoc
  <2> QED BY <1>1, <2>1 DEF TiAddIoc, TiInv
<1>2. ASSUME NEW id, TiRemoveIoc(id) PROVE TiInv'
  <2> DEFINE I == {i \in 1 .. Len(tiIocs) : tiIocs[i].id = id}
  <2>1. I # {}
    BY <1>0, <1>2 DEF TiRemoveIoc
  <2>2. SelectInSeq(tiIocs, LAMBDA e : e.id = id) = Min(I)
    BY <2>1 DEF SelectInSeq
  <2>3. I \subseteq Nat
    BY <1>0
  <2>4. I \subseteq 1 .. Len(tiIocs)
    OBVIOUS
  <2> HIDE DEF I
  <2>5. Min(I) \in I
    BY <2>1, <2>3, MinOf
  <2>6. PICK k \in 1 .. Len(tiIocs) : k = Min(I)
    BY <2>4, <2>5
  <2>7. tiIocs' = RemoveAt(tiIocs, k) /\ tiIndex' = TiRebuilt(tiIocs') /\ UNCHANGED <<tiNext, tiFile, tiReload, tiRead>>
    BY <1>2, <2>2, <2>6 DEF TiRemoveIoc, TiWithout
  <2>8. /\ RemoveAt(tiIocs, k) \in Seq(TiIoc) /\ Len(RemoveAt(tiIocs, k)) = Len(tiIocs) - 1
        /\ \A i \in 1 .. Len(tiIocs) - 1 : RemoveAt(tiIocs, k)[i] = IF i < k THEN tiIocs[i] ELSE tiIocs[i + 1]
    BY <1>0, Removed
  <2>9. PICK t : t = RemoveAt(tiIocs, k)
    OBVIOUS
  <2>10. ASSUME NEW i \in 1 .. Len(t) PROVE TiNormal(t[i])
    <3>1. i \in 1 .. Len(tiIocs) - 1 /\ i \in 1 .. Len(tiIocs) /\ i + 1 \in 1 .. Len(tiIocs)
      BY <1>0, <2>8, <2>9
    <3> QED BY <1>0, <2>8, <2>9, <3>1
  <2>11. TiList(tiIocs')
    BY <2>7, <2>8, <2>9, <2>10 DEF TiList
  <2> QED BY <2>7, <2>11 DEF TiInv
<1>3. CASE TiStart
  <2>1. tiNext' \in Nat /\ TiList(tiIocs') /\ tiIndex' = TiRebuilt(tiIocs')
    BY <1>3, TiInstallInv DEF TiStart
  <2> QED BY <1>3, <2>1 DEF TiStart, TiInv
<1>4. CASE TiSave
  <2>1. tiFile' = [i \in DOMAIN tiIocs |-> [type |-> tiIocs[i].type, value |-> tiIocs[i].value]]
    BY <1>4 DEF TiSave
  <2>2. ASSUME NEW i \in DOMAIN tiIocs PROVE [type |-> tiIocs[i].type, value |-> tiIocs[i].value] \in TiLine
    <3>1. tiIocs[i] \in TiIoc
      BY <1>0
    <3> QED BY <3>1 DEF TiIoc, TiLine
  <2>3. DOMAIN tiIocs = 1 .. Len(tiIocs)
    BY <1>0
  <2>4. tiFile' \in [1 .. Len(tiIocs) -> TiLine]
    BY <2>1, <2>2, <2>3
  <2>5. tiFile' \in Seq(TiLine)
    BY <1>0, <2>4
  <2> QED BY <1>4, <2>5 DEF TiSave, TiInv
<1>5. CASE TiReloadClear
  <2>1. tiIocs' = <<>> /\ tiIndex' = TiEmptyIndex
    BY <1>5 DEF TiReloadClear
  <2>2. TiList(tiIocs') /\ tiIndex' = TiRebuilt(tiIocs')
    BY <2>1, TiNone
  <2> QED BY <1>5, <2>2 DEF TiReloadClear, TiInv
<1>6. CASE TiReloadInstall
  <2>1. tiNext' \in Nat /\ TiList(tiIocs') /\ tiIndex' = TiRebuilt(tiIocs')
    BY <1>6, TiInstallInv DEF TiReloadInstall
  <2> QED BY <1>6, <2>1 DEF TiReloadInstall, TiInv
<1>7. CASE TiReloadLine
  <2>1. tiRead \in Seq(TiLine) /\ tiFile' = tiFile
    BY <1>7 DEF TiInv, TiReloadLine
  <2>2. CASE tiRead = <<>>
    BY <1>7, <2>2 DEF TiReloadLine, TiInv
  <2>3. CASE tiRead # <<>>
    <3>1. Head(tiRead) \in TiLine /\ Tail(tiRead) \in Seq(TiLine)
      BY <2>1, <2>3, HeadTailProperties
    <3>2. PICK type \in TiTypes, value \in TiValues : type = Head(tiRead).type /\ value = Head(tiRead).value
      BY <3>1 DEF TiLine
    <3>3. TiAdd(type, value) /\ tiRead' = Tail(tiRead)
      BY <1>7, <2>3, <3>2 DEF TiReloadLine
    <3>4. tiNext' \in Nat /\ TiList(tiIocs') /\ tiIndex' = TiRebuilt(tiIocs')
      BY <3>3, TiAdded
    <3> QED BY <2>1, <3>1, <3>3, <3>4 DEF TiInv
  <2> QED BY <2>2, <2>3
<1>8. CASE UNCHANGED tiVars
  BY <1>8 DEF tiVars, TiInv
<1> QED BY <1>1, <1>2, <1>3, <1>4, <1>5, <1>6, <1>7, <1>8 DEF TiStep

\* The indices are at any time those of the list.
THEOREM IndicatorInvariant == TiSpec => []TiInv
<1>1. TiInit => TiInv
  <2>1. <<>> \in Seq(TiLine)
    OBVIOUS
  <2> QED BY <2>1, TiNone DEF TiInit, TiInv
<1> QED BY <1>1, TiStepInv, PTL DEF TiSpec

\* A check agrees with a look through the list, and what was added is found.
LEMMA TiFound == ASSUME TiInv PROVE TiCheckAgreesWithLookup /\ TiAddedIsFound
<1>1. tiIndex = TiRebuilt(tiIocs) /\ tiIocs \in Seq(TiIoc) /\ \A i \in 1 .. Len(tiIocs) : TiNormal(tiIocs[i])
  BY DEF TiInv, TiList
<1>2. ASSUME NEW kind \in {"hash", "domain"}, NEW v
      PROVE  v \in tiIndex[kind] <=> \E i \in DOMAIN tiIocs : TiIndexOf(tiIocs[i].type) = kind /\ tiIocs[i].value = v
  BY <1>1 DEF TiRebuilt, TiEmptyIndex
<1>3. TiCheckAgreesWithLookup
  BY <1>2 DEF TiCheckAgreesWithLookup, TiCheck, TiLookup
<1>4. ASSUME NEW i \in DOMAIN tiIocs, TiIndexOf(tiIocs[i].type) \in {"hash", "domain"}
      PROVE  TiCheck(TiIndexOf(tiIocs[i].type), tiIocs[i].given)
  <2>1. tiIocs[i].value = TiNorm[tiIocs[i].given]
    BY <1>1, <1>4 DEF TiNormal
  <2>2. PICK kind \in {"hash", "domain"} : kind = TiIndexOf(tiIocs[i].type)
    BY <1>4
  <2> QED BY <1>2, <2>1, <2>2 DEF TiCheck
<1>5. TiAddedIsFound
  BY <1>4 DEF TiAddedIsFound
<1> QED BY <1>3, <1>5

-----------------------------------------------------------------------------
(* UpdateEngine: one entry, and what is noted was verified.                *)

UpAtMostOne(manifests) == manifests = <<>> \/ \E sha, version : manifests = <<[sha |-> sha, version |-> version]>>

\* A load that has verified the file and not ended knows the content it
\* verified, unless the file was written meanwhile.
UpLoad(l) ==
  /\ DOMAIN l = {"pc", "expected", "version", "sha", "result", "id", "torn"}
  /\ l.pc \in {"version", "hash", "commit"} => l.result = ""
  /\ l.pc \in {"version", "hash"} /\ ~l.torn => l.expected \in {"", upDisk} /\ upDisk # "gone"
  /\ l.pc = "hash" /\ ~l.torn => l.version = upDisk
  /\ l.pc = "commit" /\ ~l.torn => l.expected \in {"", l.sha} /\ l.version = l.sha

UpInv ==
  /\ UpAtMostOne(upManifests) /\ UpAtMostOne(upSaved)
  /\ upCheck # "none" => upManifests # <<>>
  /\ DOMAIN up = UpCallers /\ \A c \in UpCallers : UpLoad(up[c])

UpGood(n, sha, version) ==
  /\ UpAtMostOne(n.manifests) /\ n.manifests # <<>>
  /\ n.result = "SUCCESS" => n.manifests = <<[sha |-> sha, version |-> version]>>

\* Noting a database leaves one entry, and on success it is the new one.
LEMMA UpNotedOne ==
  ASSUME NEW m, UpAtMostOne(m), NEW sha, NEW version
  PROVE  UpGood(UpNoted(m, sha, version), sha, version)
<1>1. PICK e : e = [sha |-> sha, version |-> version]
  OBVIOUS
<1>2. <<e>> \o <<>> = <<e>> /\ Len(<<e>>) = 1 /\ Len(<<>>) = 0
  OBVIOUS
<1>3. <<e>> # <<>> /\ UpAtMostOne(<<e>>)
  BY <1>1, <1>2 DEF UpAtMostOne
<1>4. PICK n : n = UpNoted(m, sha, version)
  OBVIOUS
<1>5. CASE m = <<>>
  <2>1. n = [manifests |-> <<e>>, result |-> "SUCCESS"]
    BY <1>1, <1>2, <1>4, <1>5 DEF UpNoted
  <2> QED BY <1>1, <1>2, <1>3, <1>4, <2>1 DEF UpGood
<1>6. ASSUME NEW a, NEW b, m = <<[sha |-> a, version |-> b]>> PROVE UpGood(n, sha, version)
  <2>1. Len(m) = 1 /\ m[1].sha = a /\ Tail(m) = <<>>
    BY <1>6
  <2>2. m # <<>>
    BY <1>2, <2>1
  <2>3. CASE a = sha
    <3>1. n = [manifests |-> m, result |-> "ALREADY_CURRENT"]
      BY <1>4, <2>1, <2>2, <2>3 DEF UpNoted
    <3> QED BY <2>2, <3>1 DEF UpGood
  <2>4. CASE a # sha
    <3>1. n = [manifests |-> <<e>>, result |-> "SUCCESS"]
      BY <1>1, <1>2, <1>4, <2>1, <2>2, <2>4 DEF UpNoted
    <3> QED BY <1>1, <1>2, <1>3, <3>1 DEF UpGood
  <2> QED BY <2>3, <2>4
<1> QED BY <1>4, <1>5, <1>6 DEF UpAtMostOne

\* What a step of one load leaves of the others.
LEMMA UpOthersKept ==
  ASSUME UpInv, NEW c \in UpCallers, NEW l, up' = [up EXCEPT ![c] = l], upDisk' = upDisk, UpLoad(l)'
  PROVE  DOMAIN up' = UpCallers /\ \A b \in UpCallers : UpLoad(up[b])'
<1>1. DOMAIN up' = UpCallers /\ up'[c] = l /\ \A b \in UpCallers : b # c => up'[b] = up[b]
  BY DEF UpInv
<1>2. ASSUME NEW b \in UpCallers, b # c PROVE UpLoad(up[b])'
  <2>1. UpLoad(up[b])
    BY DEF UpInv
  <2> QED BY <1>1, <1>2, <2>1 DEF UpLoad
<1>3. UpLoad(up[c])'
  BY <1>1 DEF UpLoad
<1> QED BY <1>1, <1>2, <1>3

\* Loads of several callers, checks, writes of the file and restarts keep it.
LEMMA UpStepKeeps == UpInv /\ [UpNext]_upVars => UpInv'
<1> SUFFICES ASSUME UpInv, [UpNext]_upVars PROVE UpInv'
  OBVIOUS
<1>1. ASSUME NEW c \in UpCallers, NEW opens \in BOOLEAN, NEW e \in UpExpected, UpVerify(c, e, opens) PROVE UpInv'
  <2>1. UNCHANGED <<upDisk, upManifests, upSaved, upCheck>>
    BY <1>1 DEF UpVerify
  <2>2. PICK l : /\ up' = [up EXCEPT ![c] = l]
                 /\ l = [UpIdle EXCEPT !.expected = e,
                          !.result = IF upDisk = "gone" THEN "FILE_NOT_FOUND"
                                     ELSE IF e \notin {"", UpRead(opens, "")} THEN "CHECKSUM_MISMATCH" ELSE "",
                          !.pc = IF upDisk = "gone" \/ e \notin {"", UpRead(opens, "")} THEN "record" ELSE "version"]
    BY <1>1 DEF UpVerify
  <2>3. /\ DOMAIN l = {"pc", "expected", "version", "sha", "result", "id", "torn"} /\ l.expected = e
        /\ l.pc = "record" \/ (l.pc = "version" /\ l.result = "" /\ e \in {"", upDisk} /\ upDisk # "gone")
    BY <2>2 DEF UpIdle, UpRead
  <2>4. UpLoad(l)'
    BY <2>1, <2>3 DEF UpLoad
  <2>5. DOMAIN up' = UpCallers /\ \A b \in UpCallers : UpLoad(up[b])'
    BY <2>1, <2>2, <2>4, UpOthersKept
  <2> QED BY <2>1, <2>5 DEF UpInv
<1>2. ASSUME NEW c \in UpCallers, NEW opens \in BOOLEAN, UpVersion(c, opens) \/ UpHash(c, opens) \/ UpRecord(c) \/ UpCommit(c) \/ UpAppend(c) PROVE UpInv'
  <2>1. UpLoad(up[c]) /\ upDisk' = upDisk /\ UNCHANGED <<upSaved, upCheck>>
    BY <1>2 DEF UpVersion, UpHash, UpRecord, UpCommit, UpAppend, UpInv
  <2>2. UpAtMostOne(upManifests)' /\ (upCheck' # "none" => upManifests' # <<>>)
    <3>1. CASE UpCommit(c)
      <4>1. upManifests' = UpNoted(upManifests, up[c].sha, up[c].version).manifests
        BY <3>1 DEF UpCommit
      <4> QED BY <4>1, UpNotedOne DEF UpInv, UpGood
    <3>2. CASE UNCHANGED upManifests
      BY <2>1, <3>2 DEF UpInv
    <3> QED BY <1>2, <3>1, <3>2 DEF UpVersion, UpHash, UpRecord, UpAppend
  <2>3. PICK l : up' = [up EXCEPT ![c] = l] /\ UpLoad(l)'
    <3>1. CASE UpVersion(c, opens)
      <4>1. PICK l : l = [up[c] EXCEPT !.pc = "hash", !.version = UpRead(opens, "0.0.0"), !.torn = IF opens THEN up[c].torn ELSE TRUE]
        OBVIOUS
      <4>2. /\ DOMAIN l = DOMAIN up[c] /\ l.pc = "hash" /\ l.version = UpRead(opens, "0.0.0") /\ (~l.torn => opens /\ ~up[c].torn)
            /\ l.expected = up[c].expected /\ l.result = up[c].result /\ l.sha = up[c].sha
        BY <2>1, <4>1 DEF UpLoad
      <4>3. UpLoad(l)'
        BY <2>1, <3>1, <4>2 DEF UpVersion, UpLoad, UpRead
      <4>4. up' = [up EXCEPT ![c] = l]
        BY <3>1, <4>1 DEF UpVersion
      <4> QED BY <4>3, <4>4
    <3>2. CASE UpHash(c, opens)
      <4>1. PICK l : l = [up[c] EXCEPT !.pc = "commit", !.sha = UpRead(opens, ""), !.torn = IF opens THEN up[c].torn ELSE TRUE]
        OBVIOUS
      <4>2. /\ DOMAIN l = DOMAIN up[c] /\ l.pc = "commit" /\ l.sha = UpRead(opens, "") /\ (~l.torn => opens /\ ~up[c].torn)
            /\ l.expected = up[c].expected /\ l.result = up[c].result /\ l.version = up[c].version
        BY <2>1, <4>1 DEF UpLoad
      <4>3. UpLoad(l)'
        BY <2>1, <3>2, <4>2 DEF UpHash, UpLoad, UpRead
      <4>4. up' = [up EXCEPT ![c] = l]
        BY <3>2, <4>1 DEF UpHash
      <4> QED BY <4>3, <4>4
    <3>3. CASE UpRecord(c)
      <4>1. PICK v : up' = [up EXCEPT ![c] = [@ EXCEPT !.pc = "log", !.id = upNextId, !.version = v]]
        BY <3>3 DEF UpRecord
      <4>2. PICK l : l = [up[c] EXCEPT !.pc = "log", !.id = upNextId, !.version = v]
        OBVIOUS
      <4>3. UpLoad(l)'
        BY <2>1, <4>2 DEF UpLoad
      <4> QED BY <4>1, <4>2, <4>3
    <3>4. CASE UpCommit(c)
      <4>1. PICK r : up' = [up EXCEPT ![c] = [@ EXCEPT !.pc = "record", !.result = r]]
        BY <3>4 DEF UpCommit
      <4>2. PICK l : l = [up[c] EXCEPT !.pc = "record", !.result = r]
        OBVIOUS
      <4>3. UpLoad(l)'
        BY <2>1, <4>2 DEF UpLoad
      <4> QED BY <4>1, <4>2, <4>3
    <3>5. CASE UpAppend(c)
      <4>1. UpLoad(UpIdle)'
        BY DEF UpLoad, UpIdle
      <4> QED BY <3>5, <4>1 DEF UpAppend
    <3> QED BY <1>2, <3>1, <3>2, <3>3, <3>4, <3>5
  <2>4. DOMAIN up' = UpCallers /\ \A b \in UpCallers : UpLoad(up[b])'
    BY <2>1, <2>3, UpOthersKept
  <2> QED BY <2>1, <2>2, <2>4 DEF UpInv
<1>3. ASSUME NEW content, UpWrite(content) PROVE UpInv'
  <2>1. UNCHANGED <<upManifests, upSaved, upCheck>>
    BY <1>3 DEF UpWrite
  <2>2. ASSUME NEW c \in UpCallers PROVE UpLoad(up[c])'
    <3>1. UpLoad(up[c])
      BY DEF UpInv
    <3>2. CASE up[c].pc \in {"version", "hash"}
      <4>1. up'[c] = [up[c] EXCEPT !.torn = TRUE]
        BY <1>3, <3>2 DEF UpWrite
      <4>2. /\ DOMAIN up'[c] = DOMAIN up[c] /\ up'[c].torn = TRUE /\ up'[c].pc = up[c].pc /\ up'[c].result = up[c].result
        BY <3>1, <4>1 DEF UpLoad
      <4> QED BY <3>1, <3>2, <4>2 DEF UpLoad
    <3>3. CASE up[c].pc \notin {"version", "hash"}
      <4>1. up'[c] = up[c]
        BY <1>3, <3>3 DEF UpWrite
      <4> QED BY <3>1, <3>3, <4>1 DEF UpLoad
    <3> QED BY <3>2, <3>3
  <2>3. DOMAIN up' = UpCallers
    BY <1>3 DEF UpWrite
  <2> QED BY <2>1, <2>2, <2>3 DEF UpInv
<1>4. CASE (\E opens \in BOOLEAN : UpCheckHash(opens)) \/ UpWriteManifest \/ UpRestart \/ UNCHANGED upVars
  <2>1. UNCHANGED <<upDisk, up>>
    BY <1>4 DEF UpCheckHash, UpWriteManifest, UpRestart, upVars
  <2>2. \A c \in UpCallers : UpLoad(up[c])'
    BY <2>1 DEF UpInv, UpLoad
  <2> QED BY <1>4, <2>1, <2>2 DEF UpCheckHash, UpWriteManifest, UpRestart, upVars, UpInv
<1>5. ASSUME NEW opens \in BOOLEAN, UpCheckNote(opens) PROVE UpInv'
  <2>1. UNCHANGED <<upDisk, up, upSaved>> /\ upCheck' = "none"
    BY <1>5 DEF UpCheckNote
  <2>2. \A c \in UpCallers : UpLoad(up[c])'
    BY <2>1 DEF UpInv, UpLoad
  <2>3. PICK a, b : upManifests = <<[sha |-> a, version |-> b]>>
    BY <1>5 DEF UpCheckNote, UpInv, UpAtMostOne
  <2>4. upManifests' = <<[sha |-> upCheck, version |-> UpRead(opens, "0.0.0")]>>
    BY <1>5, <2>3 DEF UpCheckNote
  <2> QED BY <2>1, <2>2, <2>4 DEF UpInv, UpAtMostOne
<1> QED BY <1>1, <1>2, <1>3, <1>4, <1>5 DEF UpNext

\* Loads, checks, restarts and writes by other programs in any order: one entry
\* per database, and a load that was not torn knows what it verified.
THEOREM UpdateInvariant == UpSpec => []UpInv
<1>1. UpInit => UpInv
  <2> SUFFICES ASSUME UpInit PROVE UpInv
    OBVIOUS
  <2>1. UpLoad(UpIdle)
    BY DEF UpLoad, UpIdle
  <2>2. DOMAIN up = UpCallers /\ \A c \in UpCallers : up[c] = UpIdle
    BY DEF UpInit
  <2>3. UpAtMostOne(<<>>)
    BY DEF UpAtMostOne
  <2> QED BY <2>1, <2>2, <2>3 DEF UpInit, UpInv
<1> QED BY <1>1, UpStepKeeps, PTL DEF UpSpec

\* There is never a second entry of the database.
LEMMA UpOne == UpInv => UpOneEntry
<1>1. ASSUME NEW m, UpAtMostOne(m) PROVE Len(m) <= 1
  <2>1. \A e : Len(<<e>>) = 1
    OBVIOUS
  <2>2. Len(<<>>) = 0
    OBVIOUS
  <2> QED BY <1>1, <2>1, <2>2 DEF UpAtMostOne
<1> QED BY <1>1 DEF UpInv, UpOneEntry

\* A load that succeeds on a file that nobody wrote meanwhile notes what it
\* verified.
LEMMA UpVerifiedStep ==
  UpInv /\ [UpNext]_upVars =>
    [\A c \in UpCallers :
       up[c].pc = "commit" /\ up'[c].result = "SUCCESS" /\ ~up[c].torn
         => /\ up[c].expected \in {"", upManifests'[1].sha}
            /\ upManifests'[1].version = upManifests'[1].sha]_upVars
<1> SUFFICES ASSUME UpInv, UpNext, NEW c \in UpCallers, up[c].pc = "commit", up'[c].result = "SUCCESS", ~up[c].torn
             PROVE  /\ up[c].expected \in {"", upManifests'[1].sha}
                    /\ upManifests'[1].version = upManifests'[1].sha
  OBVIOUS
<1>1. UpLoad(up[c]) /\ up[c].result = "" /\ up[c].expected \in {"", up[c].sha} /\ up[c].version = up[c].sha
  BY DEF UpInv, UpLoad
<1>2. CASE UpCommit(c)
  <2>1. PICK n : n = UpNoted(upManifests, up[c].sha, up[c].version)
    OBVIOUS
  <2>2. upManifests' = n.manifests /\ up'[c].result = n.result
    BY <1>2, <2>1 DEF UpCommit, UpInv
  <2>3. n.manifests = <<[sha |-> up[c].sha, version |-> up[c].version]>>
    BY <2>1, <2>2, UpNotedOne DEF UpInv, UpGood
  <2>4. upManifests'[1] = [sha |-> up[c].sha, version |-> up[c].version]
    BY <2>2, <2>3
  <2>5. upManifests'[1].sha = up[c].sha /\ upManifests'[1].version = up[c].version
    BY <2>4
  <2> QED BY <1>1, <2>5
<1>3. ASSUME NEW b \in UpCallers, NEW opens \in BOOLEAN, b # c,
             UpVersion(b, opens) \/ UpHash(b, opens) \/ UpRecord(b) \/ UpCommit(b) \/ UpAppend(b) \/ \E e \in UpExpected : UpVerify(b, e, opens)
      PROVE  up'[c] = up[c]
  BY <1>3 DEF UpVersion, UpHash, UpRecord, UpCommit, UpAppend, UpVerify, UpInv
<1>4. ASSUME NEW opens \in BOOLEAN, UpVersion(c, opens) \/ UpHash(c, opens) \/ UpRecord(c) \/ UpAppend(c) \/ (\E e \in UpExpected : UpVerify(c, e, opens)) PROVE FALSE
  BY <1>4 DEF UpVersion, UpHash, UpRecord, UpAppend, UpVerify
<1>5. (\E opens \in BOOLEAN : UpCheckHash(opens) \/ UpCheckNote(opens)) \/ UpWriteManifest \/ UpRestart => up' = up
  BY DEF UpCheckHash, UpCheckNote, UpWriteManifest, UpRestart
<1>6. ASSUME NEW content, UpWrite(content) PROVE up'[c] = up[c]
  BY <1>6 DEF UpWrite
<1> QED BY <1>1, <1>2, <1>3, <1>4, <1>5, <1>6 DEF UpNext

-----------------------------------------------------------------------------
(* PMSREngine: damaged canaries and changed regions.                       *)

PmEntry == [addr : PmAddrs \union {0}, canary : BOOLEAN, hash : BOOLEAN, content : Nat]

\* An entry of the ring is the one of its address, if it has one, and is
\* compared with the content that was told last.
PmTells(e, i, told) == e.addr # 0 => e.addr \in PmAddrs /\ i = PmSlot(e.addr) /\ e.content = told[e.addr]

PmGood(ring, told, bad, forged) ==
  /\ ring \in Seq(PmEntry)
  /\ told \in [PmAddrs -> Nat]
  /\ \A i \in 1 .. Len(ring) : PmTells(ring[i], i, told)
  /\ \A i \in bad : i \in 1 .. Len(ring) /\ ~ring[i].canary
  /\ \A i \in forged : i \in 1 .. Len(ring) /\ ~ring[i].hash

PmInv ==
  /\ pmMem \in [PmAddrs -> Nat] /\ PmGood(pmRing, pmTold, pmBad, pmForged)
  /\ pmMonitor \in {"emit", "rotate"} => pmForged = {}

\* Entries without an address are added.
LEMMA PmPadded ==
  ASSUME NEW ring, NEW told, NEW bad, NEW forged, PmGood(ring, told, bad, forged), NEW e \in PmEntry, e.addr = 0, NEW k \in Nat
  PROVE  /\ PmGood(ring \o [i \in 1 .. k |-> e], told, bad, forged)
         /\ Len(ring \o [i \in 1 .. k |-> e]) = Len(ring) + k
<1>1. PICK more : more = [i \in 1 .. k |-> e]
  OBVIOUS
<1>2. more \in Seq(PmEntry) /\ Len(more) = k /\ \A i \in 1 .. k : more[i] = e
  BY <1>1
<1>3. PICK p : p = Len(ring)
  OBVIOUS
<1>4. ring \in Seq(PmEntry) /\ p \in Nat
  BY <1>3 DEF PmGood
<1>5. PICK t : t = ring \o more
  OBVIOUS
<1>6. /\ t \in Seq(PmEntry) /\ Len(t) = p + k
      /\ \A i \in 1 .. p : t[i] = ring[i]
      /\ \A i \in 1 .. k : t[p + i] = more[i]
  <2>1. ring \in Seq(PmEntry) /\ more \in Seq(PmEntry) /\ p = Len(ring) /\ k = Len(more)
    BY <1>2, <1>3, <1>4
  <2>2. /\ ring \o more \in Seq(PmEntry) /\ Len(ring \o more) = p + k
        /\ \A i \in 1 .. p : (ring \o more)[i] = ring[i]
        /\ \A i \in 1 .. k : (ring \o more)[p + i] = more[i]
    BY <2>1, Joined
  <2> QED BY <1>5, <2>2
<1>7. ASSUME NEW i \in 1 .. p + k PROVE PmTells(t[i], i, told)
  <2>1. CASE i <= p
    <3>1. i \in 1 .. p
      BY <1>4, <2>1
    <3> QED BY <1>3, <1>6, <3>1 DEF PmGood
  <2>2. CASE ~(i <= p)
    <3>1. PICK j : j = i - p
      OBVIOUS
    <3>2. j \in 1 .. k /\ p + j = i
      BY <1>4, <2>2, <3>1
    <3>3. t[i] = e
      BY <1>2, <1>6, <3>2
    <3> QED BY <3>3 DEF PmTells
  <2> QED BY <2>1, <2>2
<1>8. ASSUME NEW i \in bad PROVE i \in 1 .. p + k /\ ~t[i].canary
  <2>1. i \in 1 .. p /\ ~ring[i].canary
    BY <1>3 DEF PmGood
  <2>2. i \in 1 .. p + k
    BY <1>4, <2>1
  <2> QED BY <1>6, <2>1, <2>2
<1>10. ASSUME NEW i \in forged PROVE i \in 1 .. p + k /\ ~t[i].hash
  <2>1. i \in 1 .. p /\ ~ring[i].hash
    BY <1>3 DEF PmGood
  <2>2. i \in 1 .. p + k
    BY <1>4, <2>1
  <2> QED BY <1>6, <2>1, <2>2
<1>9. PmGood(t, told, bad, forged)
  BY <1>6, <1>7, <1>8, <1>10 DEF PmGood
<1> QED BY <1>1, <1>3, <1>5, <1>6, <1>9

\* The entries of a ring that has no region yet have no address.
LEMMA PmEntries == PmFresh \in PmEntry /\ PmFresh.addr = 0 /\ PmZero \in PmEntry /\ PmZero.addr = 0
  BY DEF PmFresh, PmZero, PmEntry

\* Every address has a slot of the ring.
LEMMA PmSlots == \A a \in PmAddrs : PmSlot(a) \in 1 .. RING_SIZE
<1>1. RING_SIZE \in Nat /\ RING_SIZE > 0 /\ \A a \in PmAddrs : a \in Nat
  BY PmConstants
<1>2. \A a \in Nat : a % RING_SIZE \in 0 .. RING_SIZE - 1
  BY <1>1
<1> QED BY <1>1, <1>2 DEF PmSlot

\* A region is registered: its content is told, and its entry is whole.
LEMMA PmWithGood ==
  ASSUME NEW ring, NEW told, NEW bad, NEW forged, PmGood(ring, told, bad, forged), NEW a \in PmAddrs, pmMem \in [PmAddrs -> Nat]
  PROVE  /\ PmGood(PmWith(ring, a), [told EXCEPT ![a] = pmMem[a]], bad \ {PmSlot(a)}, forged \ {PmSlot(a)})
         /\ Len(PmWith(ring, a)) \in Nat
<1>1. PICK k : k = IF Len(ring) < RING_SIZE THEN RING_SIZE - Len(ring) ELSE 0
  OBVIOUS
<1>2. Len(ring) \in Nat /\ RING_SIZE \in Nat
  BY PmConstants DEF PmGood
<1>3. k \in Nat /\ RING_SIZE <= Len(ring) + k
  BY <1>1, <1>2
<1>4. PICK g : g = ring \o [i \in 1 .. k |-> PmZero]
  OBVIOUS
<1>5. PmGood(g, told, bad, forged) /\ Len(g) = Len(ring) + k
  BY <1>3, <1>4, PmEntries, PmPadded
<1>6. PICK s, r : s = PmSlot(a) /\ r = PmRegion(a)
  OBVIOUS
<1>7. s \in 1 .. RING_SIZE
  BY <1>6, PmSlots
<1>8. s \in 1 .. Len(g)
  BY <1>2, <1>3, <1>5, <1>7
<1>9. pmMem[a] \in Nat
  OBVIOUS
<1>10. r \in PmEntry /\ r.addr = a /\ r.content = pmMem[a]
  BY <1>6, <1>9 DEF PmRegion, PmEntry
<1>11. PICK t : t = [g EXCEPT ![s] = r]
  OBVIOUS
<1>12. t = PmWith(ring, a)
  BY <1>1, <1>4, <1>6, <1>11 DEF PmWith
<1>13. g \in Seq(PmEntry) /\ told \in [PmAddrs -> Nat]
  BY <1>5 DEF PmGood
<1>14. /\ t \in Seq(PmEntry) /\ Len(t) = Len(g)
       /\ \A j \in 1 .. Len(g) : t[j] = IF j = s THEN r ELSE g[j]
  BY <1>8, <1>10, <1>11, <1>13, ExceptSeq
<1>15. PICK new : new = [told EXCEPT ![a] = pmMem[a]]
  OBVIOUS
<1>16. new \in [PmAddrs -> Nat] /\ new[a] = pmMem[a] /\ \A b \in PmAddrs : b # a => new[b] = told[b]
  BY <1>9, <1>13, <1>15
<1>17. ASSUME NEW j \in 1 .. Len(g) PROVE PmTells(t[j], j, new)
  <2>1. CASE j = s
    BY <1>6, <1>10, <1>14, <1>16, <2>1 DEF PmTells
  <2>2. CASE j # s
    <3>1. t[j] = g[j] /\ PmTells(g[j], j, told)
      BY <1>5, <1>14, <2>2 DEF PmGood
    <3>2. g[j].addr = a => g[j].addr = 0
      <4>1. g[j].addr # 0 => j = PmSlot(g[j].addr)
        BY <3>1 DEF PmTells
      <4> QED BY <1>6, <2>2, <4>1
    <3>3. a # 0
      BY PmConstants
    <3> QED BY <1>16, <3>1, <3>2, <3>3 DEF PmTells
  <2> QED BY <2>1, <2>2
<1>18. ASSUME NEW j \in bad \ {s} PROVE j \in 1 .. Len(t) /\ ~t[j].canary
  BY <1>5, <1>14 DEF PmGood
<1>20. ASSUME NEW j \in forged \ {s} PROVE j \in 1 .. Len(t) /\ ~t[j].hash
  BY <1>5, <1>14 DEF PmGood
<1>19. PmGood(t, new, bad \ {s}, forged \ {s})
  BY <1>14, <1>16, <1>17, <1>18, <1>20 DEF PmGood
<1> QED BY <1>6, <1>12, <1>14, <1>13, <1>15, <1>19

\* A start lays the ring out anew and hashes the regions that it finds.
LEMMA PmStartInv == ASSUME PmInv, PmStart PROVE PmInv'
<1>0. pmMem \in [PmAddrs -> Nat] /\ PmGood(pmRing, pmTold, pmBad, pmForged) /\ RING_SIZE \in Nat /\ pmMem' = pmMem /\ PmCode \in PmAddrs /\ PmCode # 0
  BY PmConstants DEF PmInv, PmStart
<1>1. PICK r0 : r0 = pmRing \o [i \in 1 .. RING_SIZE |-> PmFresh]
  OBVIOUS
<1>2. PmGood(r0, pmTold, pmBad, pmForged)
  BY <1>0, <1>1, PmEntries, PmPadded
<1>3. PICK r1, t1, b1, f1 : /\ r1 = PmWith(r0, PmCode) /\ t1 = [pmTold EXCEPT ![PmCode] = pmMem[PmCode]]
                            /\ b1 = pmBad \ {PmSlot(PmCode)} /\ f1 = pmForged \ {PmSlot(PmCode)}
  OBVIOUS
<1>4. PmGood(r1, t1, b1, f1) /\ Len(r1) \in Nat
  BY <1>0, <1>2, <1>3, PmWithGood
<1>5. PICK r2 : r2 = IF PmImports = 0 THEN r1 ELSE PmWith(r1, PmImports)
  OBVIOUS
<1>6. PICK own : own = {PmCode, PmImports} \ {0}
  OBVIOUS
<1>7. /\ pmTold' = [a \in PmAddrs |-> IF a \in own THEN pmMem[a] ELSE pmTold[a]]
      /\ pmBad' = pmBad \ {PmSlot(a) : a \in own} /\ pmForged' = pmForged \ {PmSlot(a) : a \in own}
  BY <1>6 DEF PmStart
<1>8. PmGood(r2, pmTold', pmBad', pmForged') /\ Len(r2) \in Nat
  <2>0. pmTold \in [PmAddrs -> Nat]
    BY <1>0 DEF PmGood
  <2>1. CASE PmImports = 0
    <3>1. own = {PmCode}
      BY <1>0, <1>6, <2>1
    <3>2. pmTold' = t1
      BY <1>0, <1>3, <1>7, <2>0, <3>1
    <3>3. pmBad' = b1 /\ pmForged' = f1
      BY <1>3, <1>7, <3>1
    <3> QED BY <1>4, <1>5, <2>1, <3>2, <3>3
  <2>2. CASE PmImports # 0
    <3>1. PmImports \in PmAddrs /\ own = {PmCode, PmImports}
      BY <1>0, <1>6, <2>2, PmConstants
    <3>2. PICK t2, b2, f2 : t2 = [t1 EXCEPT ![PmImports] = pmMem[PmImports]] /\ b2 = b1 \ {PmSlot(PmImports)} /\ f2 = f1 \ {PmSlot(PmImports)}
      OBVIOUS
    <3>3. PmGood(PmWith(r1, PmImports), t2, b2, f2) /\ Len(PmWith(r1, PmImports)) \in Nat
      BY <1>0, <1>4, <3>1, <3>2, PmWithGood
    <3>4. pmTold' = t2
      BY <1>0, <1>3, <1>7, <2>0, <3>1, <3>2
    <3>5. pmBad' = b2 /\ pmForged' = f2
      BY <1>3, <1>7, <3>1, <3>2
    <3> QED BY <1>5, <2>2, <3>3, <3>4, <3>5
  <2> QED BY <2>1, <2>2
<1>9. PICK room : room = IF Len(r2) < 2 * RING_SIZE THEN 2 * RING_SIZE - Len(r2) ELSE 0
  OBVIOUS
<1>10. PICK k : k = IF room > 2 THEN 2 ELSE room
  OBVIOUS
<1>11. k \in Nat
  BY <1>0, <1>8, <1>9, <1>10
<1>12. pmRing' = r2 \o [i \in 1 .. k |-> PmFresh]
  BY <1>1, <1>3, <1>5, <1>9, <1>10 DEF PmStart
<1>13. PmGood(pmRing', pmTold', pmBad', pmForged')
  BY <1>8, <1>11, <1>12, PmEntries, PmPadded
<1>14. pmMonitor' = "check"
  BY DEF PmStart
<1> QED BY <1>0, <1>13, <1>14 DEF PmInv

\* The check finds every damage and tells every change.
LEMMA PmCheckInv == ASSUME PmInv, PmCheck PROVE PmInv'
<1>0. /\ pmMem \in [PmAddrs -> Nat] /\ pmRing \in Seq(PmEntry) /\ pmTold \in [PmAddrs -> Nat] /\ pmMem' = pmMem
      /\ Len(pmRing) \in Nat /\ DOMAIN pmRing = 1 .. Len(pmRing)
  BY DEF PmInv, PmGood, PmCheck
<1>1. /\ pmFound' = UNION {PmFinds(i, pmRing[i]) : i \in DOMAIN pmRing}
      /\ pmRing' = [i \in DOMAIN pmRing |-> PmChecked(pmRing[i])]
      /\ pmBad' = pmBad \ {v.at : v \in {w \in pmFound' : w.what = "canary"}}
      /\ pmForged' = pmForged \ {v.at : v \in {w \in pmFound' : w.what \in {"canary", "hash"}}}
      /\ pmTold' = [a \in PmAddrs |-> IF \E v \in pmFound' : v.what = "region" /\ v.addr = a THEN pmMem[a] ELSE pmTold[a]]
  BY DEF PmCheck
\* What is found, with its address and its place.
<1>2. ASSUME NEW i \in 1 .. Len(pmRing)
      PROVE  /\ ~pmRing[i].canary => \E v \in pmFound' : v.what = "canary" /\ v.at = i
             /\ ~pmRing[i].hash => \E v \in pmFound' : v.what \in {"canary", "hash"} /\ v.at = i
             /\ PmChanged(pmRing[i]) => \E v \in pmFound' : v.what = "region" /\ v.addr = pmRing[i].addr
  <2>1. PICK e : e = pmRing[i]
    OBVIOUS
  <2>2. ASSUME NEW w, w \in (IF ~e.canary THEN {"canary"} ELSE IF ~e.hash THEN {"hash"} ELSE {}) \union (IF PmChanged(e) THEN {"region"} ELSE {})
        PROVE  \E v \in pmFound' : v.what = w /\ v.at = i /\ v.addr = e.addr
    <3>1. PICK v : v = [what |-> w, at |-> i, addr |-> e.addr]
      OBVIOUS
    <3>2. v \in PmFinds(i, e)
      BY <2>2, <3>1 DEF PmFinds
    <3>3. v \in pmFound'
      BY <1>0, <1>1, <2>1, <3>2
    <3>4. v.what = w /\ v.at = i /\ v.addr = e.addr
      BY <3>1
    <3> QED BY <3>3, <3>4
  <2>3. ~e.canary => \E v \in pmFound' : v.what = "canary" /\ v.at = i
    BY <2>2
  <2>4. e.canary /\ ~e.hash => \E v \in pmFound' : v.what = "hash" /\ v.at = i
    BY <2>2
  <2>5. PmChanged(e) => \E v \in pmFound' : v.what = "region" /\ v.addr = e.addr
    BY <2>2
  <2> QED BY <2>1, <2>3, <2>4, <2>5
<1>7. pmForged' = {}
  <2> SUFFICES ASSUME NEW i \in pmForged PROVE i \notin pmForged'
    BY <1>1
  <2>1. i \in 1 .. Len(pmRing) /\ ~pmRing[i].hash
    BY DEF PmInv, PmGood
  <2> QED BY <1>1, <1>2, <2>1
<1>3. pmBad' = {}
  <2> SUFFICES ASSUME NEW i \in pmBad PROVE i \notin pmBad'
    BY <1>1
  <2>1. i \in 1 .. Len(pmRing) /\ ~pmRing[i].canary
    BY DEF PmInv, PmGood
  <2> QED BY <1>1, <1>2, <2>1
<1>4. ASSUME NEW i \in 1 .. Len(pmRing)
      PROVE  /\ pmRing'[i] \in PmEntry /\ PmTells(pmRing'[i], i, pmTold')
  <2>1. PICK e, f : e = pmRing[i] /\ f = PmChecked(e)
    OBVIOUS
  <2>2. e \in PmEntry /\ pmRing'[i] = f /\ PmTells(e, i, pmTold)
    BY <1>0, <1>1, <2>1 DEF PmInv, PmGood
  <2>3. e.addr \in PmAddrs \union {0} /\ e.content \in Nat
    BY <2>2 DEF PmEntry
  <2>4. PICK c : c = IF PmChanged(e) THEN pmMem[e.addr] ELSE e.content
    OBVIOUS
  <2>5. c \in Nat
    BY <1>0, <2>3, <2>4 DEF PmChanged
  <2>6. f = [addr |-> e.addr, canary |-> TRUE, hash |-> TRUE, content |-> c]
    BY <2>1, <2>4 DEF PmChecked
  <2>7. f \in PmEntry /\ f.addr = e.addr /\ f.content = c
    BY <2>3, <2>5, <2>6 DEF PmEntry
  <2>8. ASSUME e.addr # 0 PROVE e.addr \in PmAddrs /\ i = PmSlot(e.addr) /\ c = pmTold'[e.addr]
    <3>1. e.addr \in PmAddrs /\ i = PmSlot(e.addr) /\ e.content = pmTold[e.addr]
      BY <2>2, <2>8 DEF PmTells
    <3>2. PICK a \in PmAddrs : a = e.addr
      BY <3>1
    <3>3. pmTold'[a] = IF \E v \in pmFound' : v.what = "region" /\ v.addr = a THEN pmMem[a] ELSE pmTold[a]
      BY <1>1
    <3>4. CASE PmChanged(e)
      <4>1. \E v \in pmFound' : v.what = "region" /\ v.addr = a
        BY <1>2, <2>1, <3>2, <3>4
      <4> QED BY <2>4, <3>1, <3>2, <3>3, <3>4, <4>1
    <3>5. CASE ~PmChanged(e)
      <4>1. ASSUME NEW v \in pmFound', v.what = "region", v.addr = a PROVE FALSE
        <5>1. PICK j \in 1 .. Len(pmRing) : v \in PmFinds(j, pmRing[j])
          BY <1>0, <1>1
        <5>2. PICK g : g = pmRing[j]
          OBVIOUS
        <5>3. v.addr = g.addr /\ PmChanged(g)
          BY <4>1, <5>1, <5>2 DEF PmFinds
        <5>4. PmTells(g, j, pmTold)
          BY <5>2 DEF PmInv, PmGood
        <5>5. j = i
          BY <2>8, <3>1, <3>2, <4>1, <5>3, <5>4 DEF PmTells
        <5> QED BY <2>1, <3>5, <5>2, <5>3, <5>5
      <4> QED BY <2>4, <3>1, <3>2, <3>3, <3>5, <4>1
    <3> QED BY <3>4, <3>5
  <2> QED BY <2>2, <2>7, <2>8 DEF PmTells
<1>5. pmRing' \in Seq(PmEntry) /\ Len(pmRing') = Len(pmRing)
  <2>1. DOMAIN pmRing' = 1 .. Len(pmRing) /\ pmRing' = [i \in 1 .. Len(pmRing) |-> pmRing'[i]]
    BY <1>0, <1>1
  <2>2. pmRing' \in [1 .. Len(pmRing) -> PmEntry]
    BY <1>4, <2>1
  <2> QED BY <1>0, <2>2
<1>6. pmTold' \in [PmAddrs -> Nat]
  BY <1>0, <1>1
<1>8. PmGood(pmRing', pmTold', pmBad', pmForged')
  BY <1>3, <1>4, <1>5, <1>6, <1>7 DEF PmGood
<1> QED BY <1>0, <1>7, <1>8 DEF PmInv

\* An entry is replaced by one with its address and content.
LEMMA PmReplaced ==
  ASSUME NEW ring, NEW told, NEW bad, NEW forged, PmGood(ring, told, bad, forged), NEW i \in 1 .. Len(ring),
         NEW e \in PmEntry, e.addr = ring[i].addr, e.content = ring[i].content, e.canary => ring[i].canary, ~e.hash
  PROVE  /\ PmGood([ring EXCEPT ![i] = e], told, bad, forged)
         /\ Len([ring EXCEPT ![i] = e]) = Len(ring) /\ [ring EXCEPT ![i] = e][i] = e
<1>1. PICK t : t = [ring EXCEPT ![i] = e]
  OBVIOUS
<1>2. ring \in Seq(PmEntry)
  BY DEF PmGood
<1>3. t \in Seq(PmEntry) /\ Len(t) = Len(ring) /\ \A j \in 1 .. Len(ring) : t[j] = IF j = i THEN e ELSE ring[j]
  BY <1>1, <1>2, ExceptSeq
<1>4. ASSUME NEW j \in 1 .. Len(ring) PROVE PmTells(t[j], j, told)
  <2>1. PmTells(ring[j], j, told)
    BY DEF PmGood
  <2> QED BY <1>3, <2>1 DEF PmTells
<1>5. ASSUME NEW j \in bad PROVE j \in 1 .. Len(ring) /\ ~t[j].canary
  BY <1>3 DEF PmGood
<1>7. ASSUME NEW j \in forged PROVE j \in 1 .. Len(ring) /\ ~t[j].hash
  BY <1>3 DEF PmGood
<1>6. PmGood(t, told, bad, forged)
  BY <1>3, <1>4, <1>5, <1>7 DEF PmGood
<1> QED BY <1>1, <1>3, <1>6

\* Starts, stops, registrations, writes, damage, checks and rotations keep it.
LEMMA PmStepInv == PmInv /\ [PmNext]_pmVars => PmInv'
<1> SUFFICES ASSUME PmInv, [PmNext]_pmVars PROVE PmInv'
  OBVIOUS
<1>0. pmMem \in [PmAddrs -> Nat] /\ PmGood(pmRing, pmTold, pmBad, pmForged) /\ pmRing \in Seq(PmEntry) /\ Len(pmRing) \in Nat /\ DOMAIN pmRing = 1 .. Len(pmRing)
  BY DEF PmInv, PmGood
<1>1. CASE PmStart
  BY <1>1, PmStartInv
<1>2. CASE PmStop
  <2>1. pmRing' = <<>> /\ pmBad' = {} /\ pmForged' = {} /\ pmTold' = pmTold /\ pmMem' = pmMem
    BY <1>2 DEF PmStop
  <2>2. <<>> \in Seq(PmEntry) /\ Len(<<>>) = 0
    OBVIOUS
  <2> QED BY <2>1, <2>2 DEF PmInv, PmGood
<1>3. CASE PmCheck
  BY <1>3, PmCheckInv
<1>4. CASE PmEmit
  BY <1>4 DEF PmEmit, PmInv
<1>5. CASE PmRotate
  <2>1. pmRing' = [i \in DOMAIN pmRing |-> PmRotated(pmRing[i])] /\ UNCHANGED <<pmMem, pmBad, pmForged, pmTold>> /\ pmMonitor = "rotate" /\ pmMonitor' = "check" /\ pmForged = {}
    BY <1>5 DEF PmRotate, PmInv
  <2>2. ASSUME NEW i \in 1 .. Len(pmRing)
        PROVE  /\ pmRing'[i] \in PmEntry /\ pmRing'[i].addr = pmRing[i].addr
               /\ pmRing'[i].content = pmRing[i].content /\ pmRing'[i].canary = pmRing[i].canary
    <3>1. PICK e : e = pmRing[i]
      OBVIOUS
    <3>2. e \in PmEntry /\ pmRing'[i] = [e EXCEPT !.hash = TRUE]
      BY <1>0, <2>1, <3>1 DEF PmRotated
    <3> QED BY <3>1, <3>2 DEF PmEntry
  <2>3. pmRing' \in Seq(PmEntry) /\ Len(pmRing') = Len(pmRing)
    <3>1. DOMAIN pmRing' = 1 .. Len(pmRing) /\ pmRing' = [i \in 1 .. Len(pmRing) |-> pmRing'[i]]
      BY <1>0, <2>1
    <3>2. pmRing' \in [1 .. Len(pmRing) -> PmEntry]
      BY <2>2, <3>1
    <3> QED BY <1>0, <3>2
  <2>4. ASSUME NEW i \in 1 .. Len(pmRing) PROVE PmTells(pmRing'[i], i, pmTold)
    <3>1. PmTells(pmRing[i], i, pmTold)
      BY <1>0 DEF PmGood
    <3> QED BY <2>2, <3>1 DEF PmTells
  <2>5. ASSUME NEW i \in pmBad PROVE i \in 1 .. Len(pmRing) /\ ~pmRing'[i].canary
    BY <1>0, <2>2 DEF PmGood
  <2> QED BY <1>0, <2>1, <2>3, <2>4, <2>5 DEF PmInv, PmGood
<1>6. ASSUME NEW a \in PmAddrs, PmRegister(a) PROVE PmInv'
  <2>1. /\ pmRing' = PmWith(pmRing, a) /\ pmBad' = pmBad \ {PmSlot(a)} /\ pmForged' = pmForged \ {PmSlot(a)}
        /\ pmTold' = [pmTold EXCEPT ![a] = pmMem[a]] /\ pmMem' = pmMem /\ pmMonitor' = pmMonitor
    BY <1>6 DEF PmRegister
  <2>2. PmGood(PmWith(pmRing, a), [pmTold EXCEPT ![a] = pmMem[a]], pmBad \ {PmSlot(a)}, pmForged \ {PmSlot(a)})
    BY <1>0, PmWithGood
  <2> QED BY <1>0, <2>1, <2>2 DEF PmInv
<1>7. ASSUME NEW a \in PmAddrs, PmWrite(a) \/ PmHide(a) PROVE PmInv'
  <2>1. /\ pmMem' = [pmMem EXCEPT ![a] = @ + 1] \/ pmMem' = [pmMem EXCEPT ![a] = 0]
        /\ UNCHANGED <<pmRing, pmMonitor, pmBad, pmForged, pmTold>>
    BY <1>7 DEF PmWrite, PmHide
  <2>2. pmMem' \in [PmAddrs -> Nat]
    BY <1>0, <2>1
  <2> QED BY <1>0, <2>1, <2>2 DEF PmInv
<1>8. ASSUME NEW i \in DOMAIN pmRing, NEW fits \in BOOLEAN, PmDamage(i, fits) PROVE PmInv'
  <2>1. PICK e : e = pmRing[i]
    OBVIOUS
  <2>2. PICK b \in BOOLEAN : b = (e.canary /\ fits)
    OBVIOUS
  <2>3. PICK f : f = [addr |-> e.addr, canary |-> b, hash |-> FALSE, content |-> e.content]
    OBVIOUS
  <2>4. e \in PmEntry /\ i \in 1 .. Len(pmRing)
    BY <1>0, <2>1
  <2>5. f \in PmEntry /\ f.addr = e.addr /\ f.content = e.content /\ f.canary = b /\ ~f.hash
    BY <2>3, <2>4 DEF PmEntry
  <2>6. pmRing' = [pmRing EXCEPT ![i] = f] /\ UNCHANGED <<pmMem, pmMonitor, pmTold>> /\ pmBad' = (IF fits THEN pmBad ELSE pmBad \union {i})
    BY <1>8, <2>1, <2>2, <2>3 DEF PmDamage
  <2>7. f.canary => e.canary /\ fits
    BY <2>2, <2>5
  <2>8. /\ PmGood([pmRing EXCEPT ![i] = f], pmTold, pmBad, pmForged)
        /\ Len([pmRing EXCEPT ![i] = f]) = Len(pmRing) /\ [pmRing EXCEPT ![i] = f][i] = f
    BY <1>0, <2>1, <2>4, <2>5, <2>7, PmReplaced
  <2>10. pmForged' = pmForged \/ (pmForged' = pmForged \union {i} /\ pmMonitor \in {"off", "check"})
    BY <1>8 DEF PmDamage
  <2>9. PmGood(pmRing', pmTold, pmBad', pmForged')
    BY <2>4, <2>5, <2>6, <2>7, <2>8, <2>10 DEF PmGood
  <2>11. pmMonitor' \in {"emit", "rotate"} => pmForged' = {}
    BY <2>6, <2>10 DEF PmInv
  <2> QED BY <1>0, <2>6, <2>9, <2>11 DEF PmInv
<1>9. CASE UNCHANGED pmVars
  BY <1>9 DEF pmVars, PmInv
<1> QED BY <1>1, <1>2, <1>3, <1>4, <1>5, <1>6, <1>7, <1>8, <1>9 DEF PmNext

\* PMSREngine keeps its ring in this shape for ever.
THEOREM RingInvariant == PmSpec => []PmInv
<1>1. PmInit => PmInv
  <2> SUFFICES ASSUME PmInit PROVE PmInv
    OBVIOUS
  <2>1. <<>> \in Seq(PmEntry) /\ Len(<<>>) = 0
    OBVIOUS
  <2>2. pmRing = <<>> /\ pmBad = {} /\ pmForged = {} /\ pmTold \in [PmAddrs -> Nat] /\ pmMem \in [PmAddrs -> Nat]
    BY DEF PmInit
  <2> QED BY <2>1, <2>2 DEF PmInv, PmGood
<1> QED BY <1>1, PmStepInv, PTL DEF PmSpec

\* Damaged canaries are found and changed regions are told.
LEMMA PmTamperTold == PmInv => PmDamageFound /\ PmChangeTold
<1> SUFFICES ASSUME PmInv PROVE PmDamageFound /\ PmChangeTold
  OBVIOUS
<1>1. pmRing \in Seq(PmEntry) /\ DOMAIN pmRing = 1 .. Len(pmRing)
  BY DEF PmInv, PmGood
<1> QED BY <1>1 DEF PmInv, PmGood, PmTells, PmDamageFound, PmChangeTold

-----------------------------------------------------------------------------
(* AmsiGuardEngine: spells of tampering and their alarms.                  *)

\* was_bypassed holds from an alarm to the next check that finds the bytes
\* intact.
AmFlags ==
  /\ amWas => amTold
  /\ amMonitor = "alarm" => ~amWas
  /\ amMonitor = "restore" => amWas
  /\ amFound /\ amMonitor = "wait" => amWas

\* A change or a start is left over for the alarm that is due.
AmEarned ==
  /\ amAlarms \in Nat /\ amChanges \in Nat /\ amStarts \in Nat
  /\ amAlarms <= amChanges + amStarts
  /\ (amMonitor = "alarm" \/ (amMonitor = "wait" /\ ~amWas /\ ~AmIntact)) => amAlarms < amChanges + amStarts

\* The flags of the monitor follow the bytes it has read, whenever they change.
LEMMA AmFlagsStep == AmFlags /\ [AmNext]_amVars => AmFlags'
<1> SUFFICES ASSUME AmFlags, [AmNext]_amVars PROVE AmFlags'
  OBVIOUS
<1>1. CASE AmMake
  BY <1>1 DEF AmMake, AmFlags
<1>2. CASE AmStart
  BY <1>2 DEF AmStart, AmFlags
<1>3. CASE AmStop
  BY <1>3 DEF AmStop, AmFlags
<1>4. CASE AmCheck
  <2>1. CASE AmIntact
    BY <1>4, <2>1 DEF AmCheck, AmRearm, AmFlags
  <2>2. CASE ~AmIntact
    BY <1>4, <2>2 DEF AmCheck, AmFlags
  <2> QED BY <2>1, <2>2
<1>5. CASE AmAlarm
  BY <1>5 DEF AmAlarm, AmFlags
<1>6. CASE AmRestore
  BY <1>6 DEF AmRestore, AmFlags
<1>7. CASE AmEnd
  BY <1>7 DEF AmEnd, AmFlags
<1>8. ASSUME NEW b, AmChange(b) PROVE AmFlags'
  BY <1>8 DEF AmChange, AmFlags
<1>9. CASE UNCHANGED amVars
  BY <1>9 DEF amVars, AmFlags
<1> QED BY <1>1, <1>2, <1>3, <1>4, <1>5, <1>6, <1>7, <1>8, <1>9 DEF AmNext

\* Alarms never outnumber the changes and the starts.
LEMMA AmEarnedStep == AmFlags /\ AmEarned /\ [AmNext]_amVars => AmEarned'
<1> SUFFICES ASSUME AmFlags, AmEarned, [AmNext]_amVars PROVE AmEarned'
  OBVIOUS
<1>0. amAlarms \in Nat /\ amChanges \in Nat /\ amStarts \in Nat /\ amAlarms <= amChanges + amStarts
  BY DEF AmEarned
<1>1. CASE AmMake
  BY <1>1 DEF AmMake, AmEarned
<1>2. CASE AmStart
  <2>1. amAlarms' = amAlarms /\ amChanges' = amChanges /\ amStarts' = amStarts + 1
    BY <1>2 DEF AmStart
  <2>2. amAlarms < amChanges + (amStarts + 1)
    BY <1>0
  <2> QED BY <1>0, <2>1, <2>2 DEF AmEarned
<1>3. CASE AmStop
  BY <1>3 DEF AmStop, AmEarned, AmIntact
<1>4. CASE AmCheck
  <2>1. amAlarms' = amAlarms /\ amChanges' = amChanges /\ amStarts' = amStarts /\ AmIntact' = AmIntact
    BY <1>4 DEF AmCheck, AmIntact
  <2>2. amAlarms \in Nat /\ (amMonitor' = "alarm" => ~AmIntact /\ ~amWas) /\ amMonitor = "wait"
        /\ (amMonitor' = "wait" /\ ~AmIntact => amWas /\ amWas')
    BY <1>4 DEF AmCheck, AmEarned
  <2>3. (amMonitor' = "alarm" \/ (amMonitor' = "wait" /\ ~amWas' /\ ~AmIntact')) => amAlarms < amChanges + amStarts
    BY <2>1, <2>2 DEF AmEarned
  <2> QED BY <1>0, <2>1, <2>3 DEF AmEarned
<1>5. CASE AmAlarm
  <2>1. amAlarms' = amAlarms + 1 /\ amChanges' = amChanges /\ amStarts' = amStarts /\ amMonitor' = "restore"
    BY <1>5 DEF AmAlarm
  <2>2. amAlarms < amChanges + amStarts
    BY <1>5 DEF AmAlarm, AmEarned
  <2>3. amAlarms + 1 <= amChanges + amStarts
    BY <1>0, <2>2
  <2> QED BY <1>0, <2>1, <2>3 DEF AmEarned
<1>6. CASE AmRestore
  <2>1. amAlarms' = amAlarms /\ amChanges' = amChanges /\ amStarts' = amStarts /\ amMonitor' = "wait" /\ amWas'
    BY <1>6 DEF AmRestore, AmFlags
  <2> QED BY <1>0, <2>1 DEF AmEarned
<1>7. CASE AmEnd
  BY <1>7 DEF AmEnd, AmEarned
<1>8. ASSUME NEW b, AmChange(b) PROVE AmEarned'
  <2>1. amAlarms' = amAlarms /\ amChanges' = amChanges + 1 /\ amStarts' = amStarts
    BY <1>8 DEF AmChange
  <2>2. amAlarms < (amChanges + 1) + amStarts
    BY <1>0
  <2> QED BY <1>0, <2>1, <2>2 DEF AmEarned
<1>9. CASE UNCHANGED amVars
  BY <1>9 DEF amVars, AmEarned, AmIntact
<1> QED BY <1>1, <1>2, <1>3, <1>4, <1>5, <1>6, <1>7, <1>8, <1>9 DEF AmNext

\* For every order of changes, checks, repairs and restarts of AmsiGuardEngine.
THEOREM AmsiInvariant == AmSpec => [](AmFlags /\ AmEarned)
<1>1. AmInit => AmFlags /\ AmEarned
  BY DEF AmInit, AmFlags, AmEarned
<1> QED BY <1>1, AmFlagsStep, AmEarnedStep, PTL DEF AmSpec

\* Tampering that was found was told, and every alarm was earned.
LEMMA AmsiTold == AmFlags /\ AmEarned => AmTamperTold /\ AmAlarmsEarned
  BY DEF AmFlags, AmEarned, AmTamperTold, AmAlarmsEarned

-----------------------------------------------------------------------------
(* SelfDefenseEngine: the access list and the modules.                     *)

\* An entry that denies stands in front as long as nobody else has changed
\* the list since it was put there.
SdGuarded ==
  /\ DOMAIN sd = {"pc", "applied", "text", "acl", "memory", "known"}
  /\ DOMAIN sdProcess = {"dacl", "text", "modules"}
  /\ sdProcess.dacl \in Seq({SdDeny, SdAllow, SdTorn})
  /\ sd.applied /\ ~sdWeakened => sdProcess.dacl # <<>> /\ sdProcess.dacl[1] = SdDeny
  /\ sd.acl => sdWeakened \/ sdUnread

\* Until a listing comes back empty, the modules known are empty only before the
\* first look.
SdLearned == ~sdBlind => (sd.known = {} <=> sdTold = {}) /\ sd.known \subseteq SdStandard \union sdTold

\* The entry that denies, in front, is the one the check looks for.
LEMMA SdDenyVerified == ASSUME NEW dacl \in Seq({SdDeny, SdAllow, SdTorn}), dacl # <<>>, dacl[1] = SdDeny PROVE SdVerified(dacl)
<1>1. SdDeny.deny /\ SdDeny.dangerous /\ SdDeny.sound
  BY DEF SdDeny
<1>2. 1 \in DOMAIN dacl
  OBVIOUS
<1>3. \A k \in 1 .. 1 : dacl[k].sound
  BY <1>1
<1>4. dacl[1] \in SdParsed(dacl)
  BY <1>2, <1>3 DEF SdParsed
<1> QED BY <1>1, <1>4 DEF SdVerified

\* Only somebody else weakens the access list.
LEMMA SdGuardedStep == SdGuarded /\ [SdNext]_sdVars => SdGuarded'
<1> SUFFICES ASSUME SdGuarded, [SdNext]_sdVars PROVE SdGuarded'
  OBVIOUS
<1> DEFINE E == {SdDeny, SdAllow, SdTorn}
<1>0. sdProcess.dacl \in Seq(E)
  BY DEF SdGuarded
<1>1. CASE SdStart
  <2>1. DOMAIN sd' = {"pc", "applied", "text", "acl", "memory", "known"} /\ ~sd'.acl
    BY <1>1 DEF SdStart, SdGuarded
  <2>2. CASE /\ sdProcess' = [sdProcess EXCEPT !.dacl = SdPrepend(@)]
             /\ sd' = [sd EXCEPT !.pc = "acl", !.text = sdProcess.text, !.applied = TRUE, !.acl = FALSE, !.memory = FALSE]
             /\ sdWeakened' = FALSE
    <3>1. DOMAIN sdProcess' = {"dacl", "text", "modules"} /\ sdProcess'.dacl = <<SdDeny>> \o sdProcess.dacl
      BY <2>2 DEF SdPrepend, SdGuarded
    <3>2. PICK d : d = <<SdDeny>> \o sdProcess.dacl
      OBVIOUS
    <3>3. d \in Seq(E) /\ d # <<>> /\ d[1] = SdDeny
      <4> HIDE DEF E
      <4>1. SdDeny \in E
        BY DEF E
      <4>2. PICK h : h = <<SdDeny>>
        OBVIOUS
      <4>3. h \in Seq(E) /\ Len(h) = 1 /\ h[1] = SdDeny
        BY <4>1, <4>2
      <4>4. PICK g \in Seq(E) : g = sdProcess.dacl
        BY <1>0
      <4>5. Len(g) \in Nat /\ Len(h) = 1
        BY <4>3
      <4>6. h \o g \in Seq(E) /\ Len(h \o g) = 1 + Len(g) /\ (h \o g)[1] = h[1]
        <5>1. h \o g \in Seq(E) /\ Len(h \o g) = Len(h) + Len(g)
              /\ \A i \in 1 .. Len(h) + Len(g) : (h \o g)[i] = IF i <= Len(h) THEN h[i] ELSE g[i - Len(h)]
          BY <4>3, ConcatProperties
        <5>2. 1 \in 1 .. Len(h) + Len(g) /\ 1 <= Len(h)
          BY <4>5
        <5> QED BY <4>5, <5>1, <5>2
      <4>7. d \in Seq(E) /\ Len(d) = 1 + Len(g) /\ d[1] = SdDeny
        BY <3>2, <4>2, <4>3, <4>4, <4>6
      <4>8. Len(d) # 0 /\ Len(<<>>) = 0
        BY <4>5, <4>7
      <4> QED BY <4>7, <4>8
    <3> QED BY <2>1, <2>2, <3>1, <3>2, <3>3 DEF SdGuarded
  <2>3. CASE /\ sd' = [sd EXCEPT !.pc = "acl", !.text = sdProcess.text, !.applied = FALSE, !.acl = FALSE, !.memory = FALSE]
             /\ UNCHANGED <<sdProcess, sdWeakened>>
    <3>1. ~sd'.applied
      BY <2>3 DEF SdGuarded
    <3> QED BY <2>1, <2>3, <3>1 DEF SdGuarded
  <2> QED BY <1>1, <2>2, <2>3 DEF SdStart
<1>2. CASE SdStop
  <2>1. DOMAIN sd' = DOMAIN sd /\ sd'.acl = sd.acl /\ sd'.applied = sd.applied /\ UNCHANGED <<sdProcess, sdWeakened, sdUnread>>
    BY <1>2 DEF SdStop, SdGuarded
  <2> QED BY <2>1 DEF SdGuarded
<1>3. ASSUME NEW readable \in BOOLEAN, SdCheckHandles(readable) PROVE SdGuarded'
  <2>1. DOMAIN sd' = DOMAIN sd /\ sd'.applied = sd.applied /\ UNCHANGED <<sdProcess, sdWeakened>> /\ sdUnread' = ~readable
        /\ sd'.acl = (sd.applied /\ ~(readable /\ SdVerified(sdProcess.dacl)))
    BY <1>3 DEF SdCheckHandles, SdGuarded
  <2>2. sd'.acl => sdWeakened \/ sdUnread'
    <3>1. sd.applied /\ ~sdWeakened => SdVerified(sdProcess.dacl)
      BY SdDenyVerified DEF SdGuarded
    <3> QED BY <2>1, <3>1
  <2> QED BY <2>1, <2>2 DEF SdGuarded
<1>4. CASE SdCheckMemory
  <2>1. DOMAIN sd' = DOMAIN sd /\ sd'.acl = sd.acl /\ sd'.applied = sd.applied /\ UNCHANGED <<sdProcess, sdWeakened, sdUnread>>
    BY <1>4 DEF SdCheckMemory, SdGuarded
  <2> QED BY <2>1 DEF SdGuarded
<1>5. CASE SdCheckModules
  <2>1. DOMAIN sd' = DOMAIN sd /\ sd'.acl = sd.acl /\ sd'.applied = sd.applied /\ UNCHANGED <<sdProcess, sdWeakened, sdUnread>>
    BY <1>5 DEF SdCheckModules, SdListed, SdGuarded
  <2> QED BY <2>1 DEF SdGuarded
<1>6. CASE SdOthers
  <2>0. sd' = sd /\ sdUnread' = sdUnread
    BY <1>6 DEF SdOthers
  <2>1. CASE sdWeakened' = TRUE /\ sdProcess' = [sdProcess EXCEPT !.dacl = IF @ = <<>> THEN @ ELSE Tail(@)]
    <3>1. DOMAIN sdProcess' = DOMAIN sdProcess /\ sdProcess'.dacl = IF sdProcess.dacl = <<>> THEN sdProcess.dacl ELSE Tail(sdProcess.dacl)
      BY <2>1 DEF SdGuarded
    <3>2. sdProcess'.dacl \in Seq(E)
      <4> HIDE DEF E
      <4> QED BY <1>0, <3>1, HeadTailProperties
    <3> QED BY <2>0, <2>1, <3>1, <3>2 DEF SdGuarded
  <2>2. CASE sdWeakened' = TRUE /\ sdProcess.dacl # <<>> /\ sdProcess' = [sdProcess EXCEPT !.dacl[1] = SdTorn]
    <3>1. DOMAIN sdProcess' = DOMAIN sdProcess /\ sdProcess'.dacl = [sdProcess.dacl EXCEPT ![1] = SdTorn]
      BY <2>2 DEF SdGuarded
    <3>2. sdProcess'.dacl \in Seq(E)
      <4>1. SdTorn \in E
        OBVIOUS
      <4> HIDE DEF E
      <4>2. PICK g \in Seq(E) : g = sdProcess.dacl
        BY <1>0
      <4>3. 1 \in 1 .. Len(g)
        BY <2>2, <4>2
      <4>4. [g EXCEPT ![1] = SdTorn] \in Seq(E)
        BY <4>1, <4>3, ExceptSeq
      <4> QED BY <3>1, <4>2, <4>4
    <3> QED BY <2>0, <2>2, <3>1, <3>2 DEF SdGuarded
  <2>3. CASE /\ UNCHANGED sdWeakened
             /\ \/ sdProcess' = [sdProcess EXCEPT !.text = "patched"]
                \/ \E m \in SdModules \ sdProcess.modules : sdProcess' = [sdProcess EXCEPT !.modules = @ \union {m}]
                \/ \E m \in sdProcess.modules \ SdLoaded : sdProcess' = [sdProcess EXCEPT !.modules = @ \ {m}]
    <3>1. DOMAIN sdProcess' = DOMAIN sdProcess /\ sdProcess'.dacl = sdProcess.dacl
      BY <2>3 DEF SdGuarded
    <3> QED BY <2>0, <2>3, <3>1 DEF SdGuarded
  <2> QED BY <1>6, <2>1, <2>2, <2>3 DEF SdOthers
<1>7. CASE UNCHANGED sdVars
  BY <1>7 DEF sdVars, SdGuarded
<1> QED BY <1>1, <1>2, <1>3, <1>4, <1>5, <1>6, <1>7 DEF SdNext

\* A module is learned at the first look, or it is reported, until a listing
\* comes back empty.
LEMMA SdLearnedStep == SdGuarded /\ SdLearned /\ [SdNext]_sdVars => SdLearned'
<1> SUFFICES ASSUME SdGuarded, SdLearned, [SdNext]_sdVars PROVE SdLearned'
  OBVIOUS
<1>1. CASE SdStart \/ SdStop \/ (\E readable \in BOOLEAN : SdCheckHandles(readable)) \/ SdCheckMemory \/ SdOthers
  <2>1. sd'.known = sd.known /\ sdBlind' = sdBlind /\ sdTold' = sdTold
    BY <1>1 DEF SdStart, SdStop, SdCheckHandles, SdCheckMemory, SdOthers, SdGuarded
  <2> QED BY <2>1 DEF SdLearned
<1>2. CASE SdCheckModules
  <2>1. ASSUME NEW list, SdListed(list) PROVE SdLearned'
    <3>1. sd'.known = list /\ sdTold' = (IF sdTold = {} THEN list ELSE IF sd.known = {} THEN sdTold ELSE sdTold \union (list \ (SdStandard \union sd.known)))
      BY <2>1 DEF SdListed, SdGuarded
    <3>2. ASSUME ~sdBlind' PROVE ~sdBlind /\ (list = {} => sd.known = {})
      BY <2>1, <3>2 DEF SdListed
    <3>3. CASE sdBlind'
      BY <3>3 DEF SdLearned
    <3>4. CASE ~sdBlind'
      <4>1. (sd.known = {} <=> sdTold = {}) /\ sd.known \subseteq SdStandard \union sdTold /\ (list = {} => sd.known = {})
        BY <3>2, <3>4 DEF SdLearned
      <4>2. CASE sdTold = {}
        BY <3>1, <4>1, <4>2 DEF SdLearned
      <4>3. CASE sdTold # {}
        <5>1. sdTold' = sdTold \union (list \ (SdStandard \union sd.known)) /\ list # {}
          BY <3>1, <4>1, <4>3
        <5>2. list \subseteq SdStandard \union sdTold'
          BY <4>1, <5>1
        <5>3. sdTold' # {}
          BY <4>3, <5>1
        <5> QED BY <3>1, <5>1, <5>2, <5>3 DEF SdLearned
      <4> QED BY <4>2, <4>3
    <3> QED BY <3>3, <3>4
  <2>2. CASE sd' = [sd EXCEPT !.pc = "acl"] /\ UNCHANGED <<sdTold, sdBlind>>
    <3>1. sd'.known = sd.known
      BY <2>2 DEF SdGuarded
    <3> QED BY <2>2, <3>1 DEF SdLearned
  <2> QED BY <1>2, <2>1, <2>2 DEF SdCheckModules
<1>3. CASE UNCHANGED sdVars
  BY <1>3 DEF sdVars, SdLearned
<1> QED BY <1>1, <1>2, <1>3 DEF SdNext

\* SelfDefenseEngine keeps both for every order of checks and changes.
THEOREM SelfDefenseInvariant == SdSpec => [](SdGuarded /\ SdLearned)
<1>1. SdInit => SdGuarded /\ SdLearned
  <2> SUFFICES ASSUME SdInit PROVE SdGuarded /\ SdLearned
    OBVIOUS
  <2>1. /\ DOMAIN sd = {"pc", "applied", "text", "acl", "memory", "known"} /\ ~sd.applied /\ ~sd.acl /\ sd.known = {}
        /\ DOMAIN sdProcess = {"dacl", "text", "modules"} /\ sdProcess.dacl = <<SdAllow>> /\ sdProcess.modules = SdLoaded
        /\ sdTold = {}
    BY DEF SdInit
  <2>2. <<SdAllow>> \in Seq({SdDeny, SdAllow, SdTorn})
    OBVIOUS
  <2> QED BY <2>1, <2>2 DEF SdGuarded, SdLearned
<1> QED BY <1>1, SdGuardedStep, SdLearnedStep, PTL DEF SdSpec

\* No alarm about a list that nobody changed and that could be read, and no
\* module learned quietly before a listing comes back empty.
LEMMA SdTamperTold == SdGuarded /\ SdLearned => SdNoFalseAclAlarm /\ SdNoModuleLearnedQuietly
  BY DEF SdGuarded, SdLearned, SdNoFalseAclAlarm, SdNoModuleLearnedQuietly

-----------------------------------------------------------------------------
(* RegistryMonitorEngine: listings, alerts and the baseline.               *)

RmValue == [name : RmNames, data : RmData]

\* A key has one value of a name, and only names of its level.
RmRegistry(reg, names) ==
  /\ reg \in Seq(RmValue)
  /\ \A i, j \in 1 .. Len(reg) : reg[i].name = reg[j].name => i = j
  /\ \A i \in 1 .. Len(reg) : reg[i].name \in names

RmPlaced ==
  /\ DOMAIN rmReg = {"values", "subkeys"}
  /\ RmRegistry(rmReg.values, RmNames \ RmSubNames) /\ RmRegistry(rmReg.subkeys, RmSubNames)

\* The names of the level of a name.
RmOf(n) == IF n \in RmSubNames THEN RmSubNames ELSE RmNames \ RmSubNames

\* The values before an index.
RmPassed(reg, at) == {reg[i] : i \in {j \in 1 .. Len(reg) : j < at}}

\* Those that a listing has passed and could read.
RmSeen(in, at) ==
  {v \in (IF in = "values" THEN RmPassed(rmReg.values, at)
          ELSE RmPassed(rmReg.values, Len(rmReg.values) + 1) \union RmPassed(rmReg.subkeys, at)) : v.data \notin RmLarge}

\* The map is a function and nothing else.
RmIsMap(map) == map = [n \in DOMAIN map |-> map[n]]

RmScanning ==
  /\ DOMAIN rmScan = {"by", "in", "at", "got"}
  /\ rmScan.at \in Nat /\ RmIsMap(rmScan.got)
  /\ rmScan.by # "none" => rmScan.at > 0
  /\ rmScan.by # "none" /\ ~rmDisturbed =>
       /\ rmScan.in \in {"values", "subkeys"}
       /\ rmScan.in = "values" => rmScan.at <= Len(rmReg.values) + 1
       /\ rmScan.in = "subkeys" => rmScan.at <= RmMaxSubkeys + 1
       /\ RmExact(rmScan.got, RmSeen(rmScan.in, rmScan.at))

\* The inductive invariant: a listing that nobody disturbed has exactly the
\* values it passed, and the alerts tell the baseline.
RmInv == RmPlaced /\ RmScanning /\ rmTold = rmBase /\ RmQuietListExact

\* The fields of a registry value.
LEMMA RmFields == \A v \in RmValue : v.name \in RmNames /\ v.data \in RmData
  BY DEF RmValue

\* The key of a name has the names of its level.
LEMMA RmLevelIs ==
  ASSUME RmPlaced, NEW n \in RmNames
  PROVE  RmRegistry(rmReg[RmLevel(n)], RmOf(n)) /\ n \in RmOf(n) /\ RmLevel(n) \in {"values", "subkeys"}
  BY DEF RmPlaced, RmLevel, RmOf

\* Where a name is found.
LEMMA RmIndexIs ==
  ASSUME RmPlaced, NEW n \in RmNames, NEW reg, reg = rmReg[RmLevel(n)]
  PROVE  /\ RmIndex(n) # 0 => RmIndex(n) \in 1 .. Len(reg) /\ reg[RmIndex(n)].name = n
         /\ RmIndex(n) = 0 => \A i \in 1 .. Len(reg) : reg[i].name # n
<1> DEFINE I == {i \in 1 .. Len(reg) : reg[i].name = n}
<1>1. RmIndex(n) = IF I # {} THEN Min(I) ELSE 0
  BY DEF RmIndex, SelectInSeq
<1>2. I \subseteq Nat /\ Len(reg) \in Nat
  BY RmLevelIs DEF RmRegistry
<1>3. CASE I = {}
  BY <1>1, <1>3
<1>4. CASE I # {}
  <2>1. Min(I) \in I
    <3> HIDE DEF I
    <3> QED BY <1>2, <1>4, MinOf
  <2>2. PICK m : m = Min(I)
    OBVIOUS
  <2>3. m \in 1 .. Len(reg) /\ reg[m].name = n
    BY <2>1, <2>2
  <2>4. RmIndex(n) = m
    BY <1>1, <1>4, <2>2
  <2> HIDE DEF I
  <2>5. m # 0
    BY <1>2, <2>3
  <2> QED BY <2>3, <2>4, <2>5
<1> QED BY <1>3, <1>4

\* One level is changed and the other stays.
LEMMA RmLevelKept ==
  ASSUME RmPlaced, NEW n \in RmNames, NEW t, RmRegistry(t, RmOf(n)), rmReg' = [rmReg EXCEPT ![RmLevel(n)] = t]
  PROVE  RmPlaced'
  BY DEF RmPlaced, RmLevel, RmOf

\* A value that is set replaces the one of its name or is added as the last.
LEMMA RmSetInv ==
  ASSUME RmPlaced, NEW n \in RmNames, NEW d \in RmData, RmSet(n, d)
  PROVE  RmPlaced'
<1>0. PICK reg, N : reg = rmReg[RmLevel(n)] /\ N = RmOf(n)
  OBVIOUS
<1>1. reg \in Seq(RmValue) /\ Len(reg) \in Nat /\ RmRegistry(reg, N) /\ n \in N
  BY <1>0, RmLevelIs DEF RmRegistry
<1>2. CASE RmIndex(n) = 0
  <2>1. PICK v, t : v = [name |-> n, data |-> d] /\ t = Append(reg, v)
    OBVIOUS
  <2>2. v \in RmValue /\ v.name = n
    BY <2>1 DEF RmValue
  <2>3. rmReg' = [rmReg EXCEPT ![RmLevel(n)] = t]
    BY <1>0, <1>2, <2>1 DEF RmSet
  <2>4. t \in Seq(RmValue) /\ Len(t) = Len(reg) + 1 /\ t[Len(reg) + 1] = v /\ \A i \in 1 .. Len(reg) : t[i] = reg[i]
    BY <1>1, <2>1, <2>2, Rolling
  <2>5. \A i \in 1 .. Len(reg) : reg[i].name # n
    BY <1>0, <1>2, RmIndexIs
  <2>6. ASSUME NEW i \in 1 .. Len(t), NEW j \in 1 .. Len(t), t[i].name = t[j].name PROVE i = j
    <3>1. (i = Len(reg) + 1 \/ i \in 1 .. Len(reg)) /\ (j = Len(reg) + 1 \/ j \in 1 .. Len(reg))
      BY <1>1, <2>4
    <3>2. CASE i \in 1 .. Len(reg) /\ j \in 1 .. Len(reg)
      BY <1>1, <2>4, <2>6, <3>2 DEF RmRegistry
    <3>3. CASE i = Len(reg) + 1 /\ j \in 1 .. Len(reg)
      BY <2>2, <2>4, <2>5, <2>6, <3>3
    <3>4. CASE j = Len(reg) + 1 /\ i \in 1 .. Len(reg)
      BY <2>2, <2>4, <2>5, <2>6, <3>4
    <3> QED BY <3>1, <3>2, <3>3, <3>4
  <2>7. ASSUME NEW i \in 1 .. Len(t) PROVE t[i].name \in N
    <3>1. i = Len(reg) + 1 \/ i \in 1 .. Len(reg)
      BY <1>1, <2>4
    <3> QED BY <1>1, <2>2, <2>4, <3>1 DEF RmRegistry
  <2>8. RmRegistry(t, N)
    BY <2>4, <2>6, <2>7 DEF RmRegistry
  <2> QED BY <1>0, <2>3, <2>8, RmLevelKept
<1>3. CASE RmIndex(n) # 0
  <2>1. PICK k \in 1 .. Len(reg) : k = RmIndex(n)
    BY <1>0, <1>3, RmIndexIs
  <2>2. PICK v, t : v = [reg[k] EXCEPT !.data = d] /\ t = [reg EXCEPT ![k] = v]
    OBVIOUS
  <2>3. v \in RmValue /\ v.name = reg[k].name
    <3>1. PICK r : r = reg[k]
      OBVIOUS
    <3>2. r \in RmValue
      BY <1>1, <3>1
    <3>3. [r EXCEPT !.data = d] \in RmValue /\ [r EXCEPT !.data = d].name = r.name
      BY <3>2 DEF RmValue
    <3> QED BY <2>2, <3>1, <3>3
  <2>4. rmReg' = [rmReg EXCEPT ![RmLevel(n)] = t]
    BY <1>0, <1>3, <2>1, <2>2 DEF RmSet
  <2>5. t \in Seq(RmValue) /\ Len(t) = Len(reg) /\ \A j \in 1 .. Len(reg) : t[j] = IF j = k THEN v ELSE reg[j]
    BY <1>1, <2>2, <2>3, ExceptSeq
  <2>6. \A j \in 1 .. Len(reg) : t[j].name = reg[j].name
    BY <2>3, <2>5
  <2>7. RmRegistry(t, N)
    BY <1>1, <2>5, <2>6 DEF RmRegistry
  <2> QED BY <1>0, <2>4, <2>7, RmLevelKept
<1> QED BY <1>2, <1>3

\* A value that is deleted leaves the others under their names.
LEMMA RmDeleteInv ==
  ASSUME RmPlaced, NEW n \in RmNames, RmDelete(n)
  PROVE  RmPlaced'
<1>0. PICK reg, N : reg = rmReg[RmLevel(n)] /\ N = RmOf(n)
  OBVIOUS
<1>1. reg \in Seq(RmValue) /\ Len(reg) \in Nat /\ RmRegistry(reg, N)
  BY <1>0, RmLevelIs DEF RmRegistry
<1>2. PICK k \in 1 .. Len(reg) : k = RmIndex(n)
  BY <1>0, RmIndexIs DEF RmDelete
<1>3. PICK t : t = RemoveAt(reg, k)
  OBVIOUS
<1>4. rmReg' = [rmReg EXCEPT ![RmLevel(n)] = t]
  BY <1>0, <1>2, <1>3 DEF RmDelete
<1>5. /\ t \in Seq(RmValue) /\ Len(t) = Len(reg) - 1
      /\ \A i \in 1 .. Len(reg) - 1 : t[i] = IF i < k THEN reg[i] ELSE reg[i + 1]
  BY <1>1, <1>3, Removed
<1>6. ASSUME NEW i \in 1 .. Len(t) PROVE \E x \in 1 .. Len(reg) : t[i] = reg[x] /\ x = (IF i < k THEN i ELSE i + 1)
  <2>1. PICK x : x = (IF i < k THEN i ELSE i + 1)
    OBVIOUS
  <2>2. i \in 1 .. Len(reg) - 1 /\ x \in 1 .. Len(reg)
    BY <1>1, <1>5, <2>1
  <2>3. t[i] = reg[x]
    BY <1>5, <2>1, <2>2
  <2> QED BY <2>1, <2>2, <2>3
<1>7. ASSUME NEW i \in 1 .. Len(t), NEW j \in 1 .. Len(t), t[i].name = t[j].name PROVE i = j
  <2>1. PICK x \in 1 .. Len(reg) : t[i] = reg[x] /\ x = (IF i < k THEN i ELSE i + 1)
    BY <1>6
  <2>2. PICK y \in 1 .. Len(reg) : t[j] = reg[y] /\ y = (IF j < k THEN j ELSE j + 1)
    BY <1>6
  <2>3. x = y
    BY <1>1, <1>7, <2>1, <2>2 DEF RmRegistry
  <2>4. i \in Nat /\ j \in Nat /\ k \in Nat
    BY <1>1, <1>5
  <2> QED BY <2>1, <2>2, <2>3, <2>4
<1>8. \A i \in 1 .. Len(t) : t[i].name \in N
  BY <1>1, <1>6 DEF RmRegistry
<1>9. RmRegistry(t, N)
  BY <1>5, <1>7, <1>8 DEF RmRegistry
<1> QED BY <1>0, <1>4, <1>9, RmLevelKept

\* What is entered into a map leaves a map.
LEMMA RmEnterMap == ASSUME NEW got, RmIsMap(got), NEW v PROVE RmIsMap(RmEnter(got, v))
  BY DEF RmIsMap, RmEnter

\* One more value in the map.
LEMMA RmEntered ==
  ASSUME NEW got, NEW vals, RmExact(got, vals), NEW v, v.data \notin RmLarge, \A w \in vals : w.name = v.name => w = v
  PROVE  RmExact(RmEnter(got, v), vals \union {v})
<1>1. PICK g : g = RmEnter(got, v)
  OBVIOUS
<1>2. g = [n \in DOMAIN got \union {v.name} |-> IF n = v.name THEN v.data ELSE got[n]]
  BY <1>1 DEF RmEnter
<1>3. DOMAIN g = {w.name : w \in vals \union {v}}
  BY <1>2 DEF RmExact
<1>4. ASSUME NEW w \in vals \union {v} PROVE g[w.name] = w.data
  BY <1>2, <1>4 DEF RmExact
<1> QED BY <1>1, <1>3, <1>4 DEF RmExact

\* One more value passed.
LEMMA RmPassedOne ==
  ASSUME NEW reg \in Seq(RmValue), NEW at \in 1 .. Len(reg)
  PROVE  RmPassed(reg, at + 1) = RmPassed(reg, at) \union {reg[at]}
<1>1. {j \in 1 .. Len(reg) : j < at + 1} = {j \in 1 .. Len(reg) : j < at} \union {at}
  OBVIOUS
<1> QED BY <1>1 DEF RmPassed

\* No value passed has the name of the next one.
LEMMA RmPassedOther ==
  ASSUME NEW names, NEW reg, RmRegistry(reg, names), NEW at \in 1 .. Len(reg), NEW w \in RmPassed(reg, at)
  PROVE  w.name # reg[at].name
<1>1. PICK i \in 1 .. Len(reg) : i < at /\ w = reg[i]
  BY DEF RmPassed
<1>2. i # at
  BY <1>1 DEF RmRegistry
<1> QED BY <1>1, <1>2 DEF RmRegistry

\* A value is read: passed over when its data is too long, listed otherwise.
LEMMA RmReadOne ==
  ASSUME NEW got, NEW seen, NEW next, NEW v, RmExact(got, {w \in seen : w.data \notin RmLarge}),
         next = seen \union {v}, \A w \in seen : w.name # v.name
  PROVE  RmExact(RmEnter(got, v), {w \in next : w.data \notin RmLarge})
<1>1. CASE v.data \in RmLarge
  <2>1. {w \in next : w.data \notin RmLarge} = {w \in seen : w.data \notin RmLarge} /\ RmEnter(got, v) = got
    BY <1>1 DEF RmEnter
  <2> QED BY <2>1
<1>2. CASE v.data \notin RmLarge
  <2>1. PICK vals : vals = {w \in seen : w.data \notin RmLarge}
    OBVIOUS
  <2>2. {w \in next : w.data \notin RmLarge} = vals \union {v}
    BY <1>2, <2>1
  <2>3. RmExact(got, vals) /\ \A w \in vals : w.name = v.name => w = v
    BY <2>1
  <2>4. RmExact(RmEnter(got, v), vals \union {v})
    BY <1>2, <2>3, RmEntered
  <2> QED BY <2>2, <2>4
<1> QED BY <1>1, <1>2

\* A value of the key itself is read.
LEMMA RmReadInv == ASSUME RmInv, RmRead PROVE RmScanning'
<1>0. PICK at, got, reg, v : at = rmScan.at /\ got = rmScan.got /\ reg = rmReg.values /\ v = reg[at]
  OBVIOUS
<1>1. /\ RmRegistry(reg, RmNames \ RmSubNames) /\ reg \in Seq(RmValue) /\ Len(reg) \in Nat /\ at \in 1 .. Len(reg) /\ at \in Nat
      /\ rmReg' = rmReg /\ rmDisturbed' = rmDisturbed
  BY <1>0 DEF RmInv, RmPlaced, RmRegistry, RmScanning, RmRead
<1>2. /\ DOMAIN rmScan' = {"by", "in", "at", "got"} /\ rmScan'.by = rmScan.by /\ rmScan'.in = "values" /\ rmScan.in = "values"
      /\ rmScan'.at = at + 1 /\ rmScan'.got = RmEnter(got, v) /\ rmScan.by # "none"
  BY <1>0 DEF RmRead, RmInv, RmScanning
<1>3. ASSUME ~rmDisturbed PROVE RmExact(RmEnter(got, v), RmSeen("values", at + 1))
  <2>1. RmExact(got, {w \in RmPassed(reg, at) : w.data \notin RmLarge})
    BY <1>0, <1>2, <1>3 DEF RmInv, RmScanning, RmSeen
  <2>2. RmPassed(reg, at + 1) = RmPassed(reg, at) \union {v}
    BY <1>0, <1>1, RmPassedOne
  <2>3. \A w \in RmPassed(reg, at) : w.name # v.name
    BY <1>0, <1>1, RmPassedOther
  <2>4. RmExact(RmEnter(got, v), {w \in RmPassed(reg, at + 1) : w.data \notin RmLarge})
    BY <2>1, <2>2, <2>3, RmReadOne
  <2> QED BY <1>0, <2>4 DEF RmSeen
<1>4. RmSeen("values", at + 1)' = RmSeen("values", at + 1)
  BY <1>1 DEF RmSeen, RmPassed
<1>5. at + 1 \in Nat /\ at + 1 > 0 /\ at + 1 <= Len(reg) + 1
  BY <1>1
<1>6. rmScan'.in # "subkeys" /\ RmIsMap(rmScan'.got)
  BY <1>0, <1>2, RmEnterMap DEF RmInv, RmScanning
<1> QED BY <1>0, <1>1, <1>2, <1>3, <1>4, <1>5, <1>6 DEF RmScanning

\* The values of the key are all passed when the keys below begin.
LEMMA RmDescendInv == ASSUME RmInv, RmDescend PROVE RmScanning'
<1>1. /\ DOMAIN rmScan' = {"by", "in", "at", "got"} /\ rmScan'.by = rmScan.by /\ rmScan'.in = "subkeys" /\ rmScan.in = "values"
      /\ rmScan'.at = 1 /\ rmScan'.got = rmScan.got /\ rmScan.by # "none" /\ rmScan.at > Len(rmReg.values)
      /\ rmReg' = rmReg /\ rmDisturbed' = rmDisturbed
  BY DEF RmDescend, RmInv, RmScanning
<1>2. Len(rmReg.values) \in Nat /\ Len(rmReg.subkeys) \in Nat /\ rmScan.at \in Nat /\ RmMaxSubkeys \in Nat
  BY RmConstants DEF RmInv, RmPlaced, RmRegistry, RmScanning
<1>3. ASSUME ~rmDisturbed PROVE RmExact(rmScan.got, RmSeen("subkeys", 1))
  <2>1. rmScan.at = Len(rmReg.values) + 1
    BY <1>1, <1>2, <1>3 DEF RmInv, RmScanning
  <2>2. RmExact(rmScan.got, {w \in RmPassed(rmReg.values, Len(rmReg.values) + 1) : w.data \notin RmLarge})
    BY <1>1, <1>3, <2>1 DEF RmInv, RmScanning, RmSeen
  <2>3. RmPassed(rmReg.subkeys, 1) = {}
    BY <1>2 DEF RmPassed
  <2> QED BY <2>2, <2>3 DEF RmSeen
<1>4. RmSeen("subkeys", 1)' = RmSeen("subkeys", 1)
  BY <1>1 DEF RmSeen, RmPassed
<1>6. RmIsMap(rmScan'.got)
  BY <1>1 DEF RmInv, RmScanning
<1>5. rmScan'.in # "values" /\ 1 \in Nat /\ 1 > 0 /\ 1 <= RmMaxSubkeys + 1
  BY <1>1, <1>2
<1> QED BY <1>1, <1>3, <1>4, <1>5, <1>6 DEF RmScanning

\* A key below is read, or cannot be opened.
LEMMA RmReadSubkeyInv == ASSUME RmInv, NEW opens \in BOOLEAN, RmReadSubkey(opens) PROVE RmScanning'
<1>0. PICK at, got, reg, v : at = rmScan.at /\ got = rmScan.got /\ reg = rmReg.subkeys /\ v = reg[at]
  OBVIOUS
<1>1. /\ RmRegistry(reg, RmSubNames) /\ reg \in Seq(RmValue) /\ Len(reg) \in Nat /\ at \in 1 .. Len(reg) /\ at \in Nat
      /\ rmReg' = rmReg /\ at <= RmMaxSubkeys /\ RmMaxSubkeys \in Nat /\ rmDisturbed' = (rmDisturbed \/ ~opens)
      /\ RmRegistry(rmReg.values, RmNames \ RmSubNames)
  BY <1>0, RmConstants DEF RmInv, RmPlaced, RmRegistry, RmScanning, RmReadSubkey, RmSubkeysLeft
<1>2. /\ DOMAIN rmScan' = {"by", "in", "at", "got"} /\ rmScan'.by = rmScan.by /\ rmScan'.in = "subkeys" /\ rmScan.in = "subkeys"
      /\ rmScan'.at = at + 1 /\ rmScan'.got = (IF opens THEN RmEnter(got, v) ELSE got) /\ rmScan.by # "none"
  BY <1>0 DEF RmReadSubkey, RmInv, RmScanning
<1>3. ASSUME ~rmDisturbed' PROVE RmExact(rmScan'.got, RmSeen("subkeys", at + 1))
  <2>0. ~rmDisturbed /\ opens
    BY <1>1, <1>3
  <2>1. PICK seen, next, all : /\ all = RmPassed(rmReg.values, Len(rmReg.values) + 1)
                               /\ seen = all \union RmPassed(reg, at) /\ next = all \union RmPassed(reg, at + 1)
    OBVIOUS
  <2>2. RmExact(got, {w \in seen : w.data \notin RmLarge})
    BY <1>0, <1>2, <2>0, <2>1 DEF RmInv, RmScanning, RmSeen
  <2>3. RmPassed(reg, at + 1) = RmPassed(reg, at) \union {v}
    BY <1>0, <1>1, RmPassedOne
  <2>4. next = seen \union {v}
    BY <2>1, <2>3
  <2>5. ASSUME NEW w \in seen PROVE w.name # v.name
    <3>1. CASE w \in RmPassed(reg, at)
      BY <1>0, <1>1, <3>1, RmPassedOther
    <3>2. CASE w \in all
      <4>1. w.name \notin RmSubNames
        BY <1>1, <2>1, <3>2 DEF RmPassed, RmRegistry
      <4>2. v.name \in RmSubNames
        BY <1>0, <1>1 DEF RmRegistry
      <4> QED BY <4>1, <4>2
    <3> QED BY <2>1, <2>5, <3>1, <3>2
  <2>6. RmExact(RmEnter(got, v), {w \in next : w.data \notin RmLarge})
    BY <2>2, <2>4, <2>5, RmReadOne
  <2>7. RmSeen("subkeys", at + 1) = {w \in next : w.data \notin RmLarge}
    BY <1>0, <2>1 DEF RmSeen
  <2> QED BY <1>2, <2>0, <2>6, <2>7
<1>4. RmSeen("subkeys", at + 1)' = RmSeen("subkeys", at + 1)
  BY <1>1 DEF RmSeen, RmPassed
<1>6. RmIsMap(rmScan'.got)
  BY <1>0, <1>2, RmEnterMap DEF RmInv, RmScanning
<1>5. at + 1 \in Nat /\ at + 1 > 0 /\ at + 1 <= RmMaxSubkeys + 1 /\ rmScan'.in # "values"
  BY <1>1, <1>2
<1> QED BY <1>1, <1>2, <1>3, <1>4, <1>5, <1>6 DEF RmScanning

\* At the end of the keys below a listing has passed all that can be found.
LEMMA RmSeenAll ==
  ASSUME RmInv, rmScan.in = "subkeys", ~RmSubkeysLeft, rmScan.at <= RmMaxSubkeys + 1
  PROVE  RmSeen(rmScan.in, rmScan.at) = RmReadable
<1>1. Len(rmReg.values) \in Nat /\ Len(rmReg.subkeys) \in Nat /\ rmScan.at \in Nat /\ RmMaxSubkeys \in Nat
  BY RmConstants DEF RmInv, RmPlaced, RmRegistry, RmScanning
<1>2. {j \in 1 .. Len(rmReg.values) : j < Len(rmReg.values) + 1} = 1 .. Len(rmReg.values)
  BY <1>1
<1>3. {j \in 1 .. Len(rmReg.subkeys) : j < rmScan.at} = {j \in 1 .. Len(rmReg.subkeys) : j <= RmMaxSubkeys}
  BY <1>1 DEF RmSubkeysLeft
<1> QED BY <1>2, <1>3 DEF RmSeen, RmPassed, RmReadable

\* Who hears of the alerts knows the new list.
LEMMA RmHeardAll ==
  ASSUME NEW old, NEW new, RmIsMap(new)
  PROVE  RmHeard(old, RmAlerts(old, new), new) = new
<1>1. PICK al : al = RmAlerts(old, new)
  OBVIOUS
<1>2. /\ al.added = DOMAIN new \ DOMAIN old /\ al.deleted = DOMAIN old \ DOMAIN new
      /\ al.modified = {n \in DOMAIN new \intersect DOMAIN old : new[n] # old[n]}
  BY <1>1 DEF RmAlerts
<1>3. (DOMAIN old \union al.added) \ al.deleted = DOMAIN new
  BY <1>2
<1>4. ASSUME NEW n \in DOMAIN new PROVE (IF n \in al.added \union al.modified THEN new[n] ELSE old[n]) = new[n]
  BY <1>2
<1>5. RmHeard(old, al, new) = [n \in DOMAIN new |-> IF n \in al.added \union al.modified THEN new[n] ELSE old[n]]
  BY <1>3 DEF RmHeard
<1>6. RmHeard(old, al, new) = [n \in DOMAIN new |-> new[n]]
  BY <1>4, <1>5
<1> QED BY <1>1, <1>6 DEF RmIsMap

\* Others change the registry between any two reads of the listing.
LEMMA RmStepInv == RmInv /\ [RmNext]_rmVars => RmInv'
<1> SUFFICES ASSUME RmInv, [RmNext]_rmVars PROVE RmInv'
  OBVIOUS
<1>1. ASSUME NEW n \in RmNames, NEW d \in RmData, RmSet(n, d) PROVE RmInv'
  <2>1. rmDisturbed' = TRUE /\ rmScan' = rmScan /\ rmBase' = rmBase /\ rmTold' = rmTold
    BY <1>1 DEF RmSet
  <2>2. RmPlaced'
    BY <1>1, RmSetInv DEF RmInv
  <2> QED BY <2>1, <2>2 DEF RmInv, RmScanning, RmQuietListExact
<1>2. ASSUME NEW n \in RmNames, RmDelete(n) PROVE RmInv'
  <2>1. rmDisturbed' = TRUE /\ rmScan' = rmScan /\ rmBase' = rmBase /\ rmTold' = rmTold
    BY <1>2 DEF RmDelete
  <2>2. RmPlaced'
    BY <1>2, RmDeleteInv DEF RmInv
  <2> QED BY <2>1, <2>2 DEF RmInv, RmScanning, RmQuietListExact
<1>3. ASSUME NEW by \in {"start", "monitor"}, NEW opens \in BOOLEAN, RmList(by, opens) PROVE RmInv'
  <2>1. /\ rmReg' = rmReg /\ rmBase' = rmBase /\ rmTold' = rmTold /\ rmDisturbed' = ~opens
        /\ rmScan' = [by |-> by, in |-> (IF opens THEN "values" ELSE "end"), at |-> 1, got |-> RmEmpty]
    BY <1>3 DEF RmList
  <2>2. /\ DOMAIN rmScan' = {"by", "in", "at", "got"} /\ rmScan'.by = by /\ by # "none" /\ rmScan'.at = 1 /\ rmScan'.got = RmEmpty
        /\ opens => rmScan'.in = "values"
    BY <1>3, <2>1
  <2>3. Len(rmReg.values) \in Nat
    BY DEF RmInv, RmPlaced, RmRegistry
  <2>4. RmIsMap(RmEmpty) /\ DOMAIN RmEmpty = {}
    BY DEF RmIsMap, RmEmpty
  <2>5. RmSeen("values", 1) = {}
    BY <2>3 DEF RmSeen, RmPassed
  <2>6. RmExact(RmEmpty, RmSeen("values", 1))
    BY <2>4, <2>5 DEF RmExact
  <2>7. RmSeen("values", 1)' = RmSeen("values", 1)
    BY <2>1 DEF RmSeen, RmPassed
  <2>8. 1 \in Nat /\ 1 > 0 /\ 1 <= Len(rmReg.values) + 1
    BY <2>3
  <2>9. RmScanning'
    BY <2>1, <2>2, <2>4, <2>6, <2>7, <2>8 DEF RmScanning
  <2>10. RmQuietListExact' /\ RmPlaced'
    BY <2>1, <2>2 DEF RmQuietListExact, RmInv, RmPlaced
  <2> QED BY <2>1, <2>9, <2>10 DEF RmInv
<1>4. ASSUME RmRead \/ RmDescend \/ \E opens \in BOOLEAN : RmReadSubkey(opens) PROVE RmInv'
  <2>1. RmScanning'
    BY <1>4, RmReadInv, RmDescendInv, RmReadSubkeyInv
  <2>2. rmReg' = rmReg /\ rmBase' = rmBase /\ rmTold' = rmTold /\ rmScan.by # "none" /\ rmScan'.by = rmScan.by
    BY <1>4 DEF RmRead, RmDescend, RmReadSubkey, RmInv, RmScanning
  <2> QED BY <2>1, <2>2 DEF RmInv, RmQuietListExact, RmPlaced
<1>5. CASE RmStart \/ RmCompare
  <2>1. /\ rmReg' = rmReg /\ rmDisturbed' = rmDisturbed /\ rmScan' = RmNoScan /\ rmBase' = rmScan.got
        /\ rmScan.by # "none" /\ (rmScan.in = "subkeys" => ~RmSubkeysLeft) /\ rmScan.in # "values"
    BY <1>5 DEF RmStart, RmCompare, RmListed
  <2>2. RmIsMap(rmScan.got)
    BY DEF RmInv, RmScanning
  <2>3. ASSUME ~rmDisturbed PROVE RmExact(rmScan.got, RmReadable)
    <3>1. rmScan.in = "subkeys" /\ rmScan.at <= RmMaxSubkeys + 1 /\ RmExact(rmScan.got, RmSeen(rmScan.in, rmScan.at))
      BY <2>1, <2>3 DEF RmInv, RmScanning
    <3>2. RmSeen(rmScan.in, rmScan.at) = RmReadable
      BY <2>1, <3>1, RmSeenAll
    <3> QED BY <3>1, <3>2
  <2>4. RmQuietListExact'
    <3>1. RmReadable' = RmReadable
      BY <2>1 DEF RmReadable
    <3> QED BY <2>1, <2>3, <3>1 DEF RmQuietListExact
  <2>5. RmScanning'
    <3>1. RmIsMap(RmEmpty)
      BY DEF RmIsMap, RmEmpty
    <3> QED BY <2>1, <3>1 DEF RmScanning, RmNoScan
  <2>6. rmTold' = rmBase'
    <3>1. CASE RmStart
      BY <3>1 DEF RmStart
    <3>2. CASE RmCompare
      <4>1. PICK new, old : new = rmScan.got /\ old = rmBase
        OBVIOUS
      <4>2. rmTold' = RmHeard(old, RmAlerts(old, new), new)
        BY <3>2, <4>1 DEF RmCompare, RmInv
      <4>3. rmTold' = new
        BY <2>2, <4>1, <4>2, RmHeardAll
      <4> QED BY <2>1, <4>1, <4>3
    <3> QED BY <1>5, <3>1, <3>2
  <2> QED BY <2>1, <2>4, <2>5, <2>6 DEF RmInv, RmPlaced
<1>6. CASE RmStop
  <2>1. rmReg' = rmReg /\ rmDisturbed' = rmDisturbed /\ rmScan' = rmScan /\ rmBase' = rmBase /\ rmTold' = rmTold /\ rmRunning' = FALSE
    BY <1>6 DEF RmStop
  <2>2. RmPlaced' /\ RmScanning'
    BY <2>1 DEF RmInv, RmPlaced, RmScanning, RmSeen, RmPassed
  <2> QED BY <2>1, <2>2 DEF RmInv, RmQuietListExact
<1>7. CASE UNCHANGED rmVars
  <2>1. rmReg' = rmReg /\ rmDisturbed' = rmDisturbed /\ rmScan' = rmScan /\ rmBase' = rmBase /\ rmTold' = rmTold /\ rmRunning' = rmRunning
    BY <1>7 DEF rmVars
  <2>2. RmPlaced' /\ RmScanning'
    BY <2>1 DEF RmInv, RmPlaced, RmScanning, RmSeen, RmPassed
  <2> QED BY <2>1, <2>2 DEF RmInv, RmQuietListExact, RmReadable
<1> QED BY <1>1, <1>2, <1>3, <1>4, <1>5, <1>6, <1>7 DEF RmNext

\* RegistryMonitorEngine keeps baseline and alerts together for ever, whatever
\* changes under a listing and whichever key refuses to be opened.
THEOREM RegistryInvariant == RmSpec => []RmInv
<1>1. RmInit => RmInv
  <2> SUFFICES ASSUME RmInit PROVE RmInv
    OBVIOUS
  <2>1. <<>> \in Seq(RmValue) /\ Len(<<>>) = 0
    OBVIOUS
  <2>2. RmRegistry(<<>>, RmNames \ RmSubNames) /\ RmRegistry(<<>>, RmSubNames)
    BY <2>1 DEF RmRegistry
  <2>3. DOMAIN rmScan = {"by", "in", "at", "got"} /\ rmScan.by = "none" /\ rmScan.at = 0 /\ rmScan.got = RmEmpty
    BY DEF RmInit, RmNoScan
  <2>4. RmIsMap(RmEmpty)
    BY DEF RmIsMap, RmEmpty
  <2>5. DOMAIN rmReg = {"values", "subkeys"} /\ rmReg.values = <<>> /\ rmReg.subkeys = <<>> /\ rmTold = rmBase /\ ~rmRunning
    BY DEF RmInit
  <2> QED BY <2>2, <2>3, <2>4, <2>5 DEF RmInv, RmPlaced, RmScanning, RmQuietListExact
<1> QED BY <1>1, RmStepInv, PTL DEF RmSpec

\* The alerts follow the baseline, and a quiet listing is exact.
LEMMA RmTamperTold == RmInv => RmAlertsTrack /\ RmQuietListExact
  BY DEF RmInv, RmAlertsTrack

-----------------------------------------------------------------------------
(* DeviceControlEngine: the lists decide, and drives are told.             *)

\* What a judged report holds: the lists overrule the rest, callers report no
\* drives, and the scanner reports drives only as they come and go.
DvReportsInv ==
  /\ DOMAIN dvReport = DvCallers \union {DvScanner}
  /\ \A c \in DOMAIN dvReport :
       LET r == dvReport[c]
       IN  /\ r.device \in DvDevices \union {"none"}
           /\ r.action \in DvActions
           /\ r.black => r.policy = "BLOCK"
           /\ r.white => r.policy = "ALLOW"
           /\ r.device \in DvDrives => c = DvScanner /\ r.action \in {"CONNECTED", "DISCONNECTED"}

\* Drives of which the scan has still something to tell.
DvPending == dvScan.fresh \union dvScan.gone \union {dvReport[DvScanner].device}

\* Between two scans a drive is known as connected exactly if that was the last
\* event of it; in a scan that holds for the drives it has nothing to tell of.
DvInv ==
  /\ dvBlack \intersect dvWhite = {}
  /\ dvThere \subseteq DvDrives
  /\ DOMAIN dvLast = DvDevices
  /\ DvReportsInv
  /\ dvScan = [pc |-> dvScan.pc, listed |-> dvScan.listed, fresh |-> dvScan.fresh, gone |-> dvScan.gone]
  /\ dvScan.pc \in {"idle", "prune", "report"}
  /\ dvScan.fresh \subseteq dvScan.listed /\ dvScan.listed \subseteq DvDrives
  /\ dvScan.gone \subseteq DvDevices /\ dvConnected \subseteq DvDevices
  /\ dvScan.pc # "report" => dvReport[DvScanner].device \notin DvDrives /\ dvScan.gone = {}
  /\ dvScan.pc = "idle" => dvScan.fresh = {}
  /\ \A d \in DvDrives \ DvPending : d \in dvConnected <=> dvLast[d] \in {"CONNECTED", "BLOCKED"}

\* The report that is judged now holds what DvReportsInv says.
LEMMA DvJudged ==
  ASSUME DvInv, NEW c \in DOMAIN dvReport, NEW d \in DvDevices, NEW action \in DvActions, DvJudge(c, d, action),
         d \in DvDrives => c = DvScanner /\ action \in {"CONNECTED", "DISCONNECTED"},
         UNCHANGED dvLists
  PROVE  DvReportsInv' /\ dvReport'[c].device = d /\ (\A b \in DOMAIN dvReport : b # c => dvReport'[b] = dvReport[b])
<1>1. PICK r : r = [device |-> d, action |-> action, policy |-> DvPolicy(d), black |-> d \in dvBlack, white |-> d \in dvWhite]
  OBVIOUS
<1>2. r.device = d /\ r.action = action /\ (r.black => r.policy = "BLOCK") /\ (r.white => r.policy = "ALLOW")
  BY <1>1 DEF DvPolicy, DvInv
<1>3. dvReport' = [dvReport EXCEPT ![c] = r]
  BY <1>1 DEF DvJudge
<1>4. DOMAIN dvReport' = DOMAIN dvReport /\ dvReport'[c] = r /\ (\A b \in DOMAIN dvReport : b # c => dvReport'[b] = dvReport[b])
  BY <1>3
<1> HIDE DEF DvJudge
<1> QED BY <1>2, <1>4 DEF DvReportsInv, DvInv

\* Every step of the callers and of the scanner keeps it.
LEMMA DvStepKeeps == DvInv /\ [DvNext]_dvVars => DvInv'
<1> SUFFICES ASSUME DvInv, [DvNext]_dvVars PROVE DvInv'
  OBVIOUS
<1> USE DvConstants DEF DvDevices
<1> DvScanner \in DOMAIN dvReport
  BY DEF DvInv, DvReportsInv
<1>1. CASE DvScanList
  BY <1>1 DEF DvScanList, DvInv, DvReportsInv, DvPending, dvLists
<1>2. CASE DvScanPrune
  <2>1. dvScan' = [pc |-> "report", listed |-> dvScan.listed, fresh |-> dvScan.fresh, gone |-> dvConnected \ dvScan.listed]
    BY <1>2 DEF DvScanPrune, DvInv
  <2>2. UNCHANGED <<dvLists, dvThere, dvReport, dvLast>> /\ dvConnected' = dvConnected \intersect dvScan.listed /\ dvScan.pc = "prune"
    BY <1>2 DEF DvScanPrune
  <2>3. /\ dvScan'.pc = "report" /\ dvScan'.listed = dvScan.listed /\ dvScan'.fresh = dvScan.fresh
        /\ dvScan'.gone = dvConnected \ dvScan.listed
    BY <2>1
  <2>4. \A d \in DvDrives \ DvPending' : d \in dvConnected' <=> dvLast'[d] \in {"CONNECTED", "BLOCKED"}
    <3> SUFFICES ASSUME NEW d \in DvDrives \ DvPending'
                 PROVE  d \in dvConnected' <=> dvLast'[d] \in {"CONNECTED", "BLOCKED"}
      OBVIOUS
    <3>1. d \notin DvPending
      BY <2>2, <2>3 DEF DvPending, DvInv
    <3> QED BY <2>2, <2>3, <3>1 DEF DvInv, DvPending
  <2>5. DvReportsInv'
    BY <2>2 DEF DvInv, DvReportsInv
  <2> QED BY <2>1, <2>2, <2>3, <2>4, <2>5 DEF DvInv, dvLists
<1>3. CASE DvScanReport
  <2>1. ASSUME NEW d \in dvScan.fresh, DvJudge(DvScanner, d, "CONNECTED"), dvScan' = [dvScan EXCEPT !.fresh = @ \ {d}]
        PROVE  DvInv'
    <3>1. dvScan' = [pc |-> dvScan.pc, listed |-> dvScan.listed, fresh |-> dvScan.fresh \ {d}, gone |-> dvScan.gone]
      BY <2>1 DEF DvInv
    <3>2. d \in DvDrives /\ "CONNECTED" \in DvActions
      BY DEF DvInv, DvActions
    <3>3. UNCHANGED <<dvLists, dvThere, dvConnected, dvLast>> /\ dvScan.pc = "report"
      BY <1>3 DEF DvScanReport
    <3>4. DvReportsInv' /\ dvReport'[DvScanner].device = d
      BY <2>1, <3>2, <3>3, DvJudged
    <3>5. dvScan'.pc = "report" /\ dvScan'.listed = dvScan.listed /\ dvScan'.fresh = dvScan.fresh \ {d} /\ dvScan'.gone = dvScan.gone
      BY <3>1, <3>3
    <3>6. \A x \in DvDrives \ DvPending' : x \notin DvPending
      BY <1>3, <3>4, <3>5 DEF DvPending, DvScanReport
    <3> QED BY <3>1, <3>3, <3>4, <3>5, <3>6 DEF DvInv, dvLists
  <2>2. ASSUME NEW d \in dvScan.gone, DvJudge(DvScanner, d, "DISCONNECTED"), dvScan' = [dvScan EXCEPT !.gone = @ \ {d}]
        PROVE  DvInv'
    <3>1. dvScan' = [pc |-> dvScan.pc, listed |-> dvScan.listed, fresh |-> dvScan.fresh, gone |-> dvScan.gone \ {d}]
      BY <2>2 DEF DvInv
    <3>2. d \in DvDevices /\ "DISCONNECTED" \in DvActions
      BY DEF DvInv, DvActions
    <3>3. UNCHANGED <<dvLists, dvThere, dvConnected, dvLast>> /\ dvScan.pc = "report"
      BY <1>3 DEF DvScanReport
    <3>4. DvReportsInv' /\ dvReport'[DvScanner].device = d
      BY <2>2, <3>2, <3>3, DvJudged
    <3>5. dvScan'.pc = "report" /\ dvScan'.listed = dvScan.listed /\ dvScan'.fresh = dvScan.fresh /\ dvScan'.gone = dvScan.gone \ {d}
      BY <3>1, <3>3
    <3>6. \A x \in DvDrives \ DvPending' : x \notin DvPending
      BY <1>3, <3>4, <3>5 DEF DvPending, DvScanReport
    <3> QED BY <3>1, <3>3, <3>4, <3>5, <3>6 DEF DvInv, dvLists
  <2>3. ASSUME dvScan.fresh = {}, dvScan.gone = {}, dvScan' = DvNoScan, UNCHANGED dvReport PROVE DvInv'
    BY <1>3, <2>3 DEF DvScanReport, DvNoScan, DvInv, DvReportsInv, DvPending, dvLists
  <2> QED BY <1>3, <2>1, <2>2, <2>3 DEF DvScanReport
<1>4. ASSUME NEW c \in DvCallers \union {DvScanner}, DvLog(c) PROVE DvInv'
  <2> DEFINE r == dvReport[c]
  <2>1. r.device \in DvDevices /\ dvReport' = [dvReport EXCEPT ![c] = DvNoReport] /\ c \in DOMAIN dvReport
    BY <1>4 DEF DvLog, DvInv, DvReportsInv
  <2>2. UNCHANGED <<dvLists, dvThere, dvScan>>
    BY <1>4 DEF DvLog
  <2>3. DvReportsInv' /\ dvReport'[c].device = "none"
    BY <2>1 DEF DvInv, DvReportsInv, DvNoReport, DvActions
  <2>4. dvLast' = [dvLast EXCEPT ![r.device] = DvLogged(r)]
    BY <1>4 DEF DvLog
  <2>5. \A d : d # r.device => (d \in dvConnected' <=> d \in dvConnected)
    BY <1>4 DEF DvLog
  <2>6. dvConnected' \subseteq DvDevices
    BY <1>4, <2>1 DEF DvLog, DvInv
  <2>7. r.device \in DvDrives => (r.device \in dvConnected' <=> dvLast'[r.device] \in {"CONNECTED", "BLOCKED"})
    <3> SUFFICES ASSUME r.device \in DvDrives
                 PROVE  r.device \in dvConnected' <=> dvLast'[r.device] \in {"CONNECTED", "BLOCKED"}
      OBVIOUS
    <3>1. r.action \in {"CONNECTED", "DISCONNECTED"}
      BY <2>1 DEF DvInv, DvReportsInv
    <3>2. CASE r.action = "CONNECTED"
      <4>1. r.device \in dvConnected'
        BY <1>4, <3>2 DEF DvLog
      <4>2. DvLogged(r) \in {"CONNECTED", "BLOCKED"}
        BY <3>2 DEF DvLogged
      <4> QED BY <2>1, <2>4, <4>1, <4>2 DEF DvInv
    <3>3. CASE r.action = "DISCONNECTED"
      <4>1. r.device \notin dvConnected'
        BY <1>4, <3>3 DEF DvLog
      <4>2. DvLogged(r) = "DISCONNECTED"
        BY <3>3 DEF DvLogged, DvViolates
      <4> QED BY <2>1, <2>4, <4>1, <4>2 DEF DvInv
    <3> QED BY <3>1, <3>2, <3>3
  <2>8. \A d \in DvDevices : d # r.device => dvLast'[d] = dvLast[d]
    BY <2>4 DEF DvInv
  <2>9. DOMAIN dvLast' = DvDevices
    BY <2>4 DEF DvInv
  <2>10. dvReport'[DvScanner].device = IF c = DvScanner THEN "none" ELSE dvReport[DvScanner].device
    BY <2>1, <2>3
  <2>11. r.device \in DvDrives => c = DvScanner
    BY <2>1 DEF DvInv, DvReportsInv
  <2>12. \A d \in DvDrives \ DvPending' : d \in dvConnected' <=> dvLast'[d] \in {"CONNECTED", "BLOCKED"}
    <3> SUFFICES ASSUME NEW d \in DvDrives \ DvPending'
                 PROVE  d \in dvConnected' <=> dvLast'[d] \in {"CONNECTED", "BLOCKED"}
      OBVIOUS
    <3>1. CASE d = r.device
      BY <2>7, <3>1
    <3>2. CASE d # r.device
      <4>1. d \notin DvPending
        BY <2>2, <2>10, <3>2 DEF DvPending
      <4> QED BY <2>5, <2>8, <3>2, <4>1 DEF DvInv
    <3> QED BY <3>1, <3>2
  <2> HIDE DEF r
  <2> QED BY <2>2, <2>3, <2>6, <2>9, <2>10, <2>12 DEF DvInv, dvLists
<1>5. ASSUME NEW c \in DvCallers, NEW d \in DvOthers, NEW a \in DvActions, DvReportOther(c, d, a) PROVE DvInv'
  <2>1. UNCHANGED <<dvLists, dvThere, dvConnected, dvScan, dvLast>> /\ DvJudge(c, d, a) /\ dvReport[c].device = "none"
    BY <1>5 DEF DvReportOther, DvJudge
  <2>2. c \in DOMAIN dvReport
    BY DEF DvInv, DvReportsInv
  <2>3. DvReportsInv' /\ dvReport'[c].device = d /\ (\A b \in DOMAIN dvReport : b # c => dvReport'[b] = dvReport[b])
    BY <2>1, <2>2, DvJudged
  <2>4. \A x \in DvDrives : x # dvReport'[DvScanner].device <=> x # dvReport[DvScanner].device
    BY <2>1, <2>3
  <2>5. dvReport'[DvScanner].device \in DvDrives => dvReport[DvScanner].device \in DvDrives
    BY <2>3
  <2>6. \A x \in DvDrives \ DvPending' : x \notin DvPending
    BY <2>1, <2>4 DEF DvPending
  <2> QED BY <2>1, <2>3, <2>5, <2>6 DEF DvInv, dvLists
<1>6. ASSUME NEW d \in DvOthers, DvWhitelist(d) \/ DvBlacklist(d) PROVE DvInv'
  BY <1>6 DEF DvWhitelist, DvBlacklist, DvKeepRest, DvInv, DvReportsInv, DvPending
<1>7. ASSUME NEW r \in DvRules, DvAddRule(r) \/ DvRemoveRule(r) PROVE DvInv'
  BY <1>7 DEF DvAddRule, DvRemoveRule, DvKeepRest, DvInv, DvReportsInv, DvPending
<1>8. ASSUME NEW p \in {"AUDIT", "BLOCK"}, DvSetDefault(p) PROVE DvInv'
  BY <1>8 DEF DvSetDefault, DvKeepRest, DvInv, DvReportsInv, DvPending
<1>9. ASSUME NEW d \in DvDrives, DvPlug(d) PROVE DvInv'
  BY <1>9 DEF DvPlug, dvLists, DvInv, DvReportsInv, DvPending
<1>10. CASE UNCHANGED dvVars
  BY <1>10 DEF dvVars, dvLists, DvInv, DvReportsInv, DvPending
<1> QED BY <1>1, <1>2, <1>3, <1>4, <1>5, <1>6, <1>7, <1>8, <1>9, <1>10 DEF DvNext

\* A drive is known as connected exactly if its connection was the last event
\* told of it, for any number of drives, devices and callers.
THEOREM DriveInvariant == DvSpec => []DvInv
<1>1. DvInit => DvInv
  BY DvConstants DEF DvInit, DvInv, DvReportsInv, DvPending, DvNoReport, DvNoScan, DvDevices, DvActions
<1> QED BY <1>1, DvStepKeeps, PTL DEF DvSpec

\* The drives that are there are the ones that were told, once a scan has ended.
LEMMA DvTold == DvInv => DvDrivesTold
  BY DEF DvInv, DvDrivesTold, DvPending

\* Only the log step ends a report, and it logs what the lists decided.
LEMMA DvListsStep ==
  DvInv /\ [DvNext]_dvVars =>
    [\A c \in DOMAIN dvReport :
       LET r == dvReport[c]
       IN  r.device # "none" /\ dvReport'[c].device = "none" =>
             /\ r.black /\ r.device \in dvBlack => dvLast'[r.device] \in {"BLOCKED", "DISCONNECTED"}
             /\ r.white /\ r.device \in dvWhite => dvLast'[r.device] # "BLOCKED"]_dvVars
<1> SUFFICES ASSUME DvInv, DvNext, NEW c \in DOMAIN dvReport, dvReport[c].device # "none", dvReport'[c].device = "none"
             PROVE  /\ dvReport[c].black => dvLast'[dvReport[c].device] \in {"BLOCKED", "DISCONNECTED"}
                    /\ dvReport[c].white => dvLast'[dvReport[c].device] # "BLOCKED"
  OBVIOUS
<1>1. ASSUME NEW b \in DvCallers \union {DvScanner}, DvLog(b) PROVE b = c
  BY <1>1 DEF DvLog
<1>2. ASSUME NEW b, NEW d, NEW a, DvJudge(b, d, a) PROVE FALSE
  <2>1. dvReport[b].device = "none" /\ \E r : dvReport' = [dvReport EXCEPT ![b] = r]
    BY <1>2 DEF DvJudge
  <2> QED BY <2>1
<1>3. ASSUME dvReport' = dvReport PROVE FALSE
  BY <1>3
<1>4. CASE DvLog(c)
  <2>1. dvReport[c].device \in DvDevices /\ dvLast'[dvReport[c].device] = DvLogged(dvReport[c])
    BY <1>4 DEF DvLog, DvInv, DvReportsInv
  <2>2. dvReport[c].black => DvLogged(dvReport[c]) \in {"BLOCKED", "DISCONNECTED"}
    BY DEF DvLogged, DvViolates, DvInv, DvReportsInv
  <2>3. dvReport[c].white => DvLogged(dvReport[c]) # "BLOCKED"
    BY DEF DvLogged, DvViolates, DvInv, DvReportsInv, DvActions
  <2> QED BY <2>1, <2>2, <2>3
<1>5. DvScanList \/ DvScanPrune \/ (\E d \in DvOthers : DvWhitelist(d) \/ DvBlacklist(d)) \/ (\E r \in DvRules : DvAddRule(r) \/ DvRemoveRule(r))
        \/ (\E p \in {"AUDIT", "BLOCK"} : DvSetDefault(p)) \/ (\E d \in DvDrives : DvPlug(d)) => dvReport' = dvReport
  BY DEF DvScanList, DvScanPrune, DvWhitelist, DvBlacklist, DvAddRule, DvRemoveRule, DvSetDefault, DvPlug, DvKeepRest
<1>6. DvScanReport => dvReport' = dvReport \/ \E d, a : DvJudge(DvScanner, d, a)
  BY DEF DvScanReport
<1>7. (\E b \in DvCallers, d \in DvOthers, a \in DvActions : DvReportOther(b, d, a)) => \E b, d, a : DvJudge(b, d, a)
  BY DEF DvReportOther
<1> QED BY <1>1, <1>2, <1>3, <1>4, <1>5, <1>6, <1>7 DEF DvNext

-----------------------------------------------------------------------------
(* ETGRIEngine: the table of sources and the floods.                       *)

\* u is s without its first k times, which are too old for the window.
EtCut(u, s, k, now) ==
  /\ k \in Nat /\ Len(s) = k + Len(u)
  /\ \A i \in 1 .. Len(u) : u[i] = s[k + i]
  /\ \A i \in 1 .. k : ~(now - s[i] <= FLOOD_WINDOW)

EtKept(u, s, now) == u \in Seq(Nat) /\ \E k : EtCut(u, s, k, now)

EtExact(u, s, now) == EtKept(u, s, now) /\ (Len(u) > 0 => now - u[1] <= FLOOD_WINDOW)

\* EtRecent() cuts the times that have left the window, and only those.
LEMMA EtRecentIs ==
  ASSUME NEW s \in Seq(Nat), NEW now \in Nat
  PROVE  EtExact(EtRecent(s, now), s, now)
<1> DEFINE I == {i \in 1 .. Len(s) : now - s[i] <= FLOOD_WINDOW}
<1>1. Len(s) \in Nat /\ \A i \in 1 .. Len(s) : s[i] \in Nat
  OBVIOUS
<1>2. EtRecent(s, now) = IF (IF I # {} THEN Min(I) ELSE 0) = 0 THEN <<>> ELSE SubSeq(s, IF I # {} THEN Min(I) ELSE 0, Len(s))
  BY DEF EtRecent, SelectInSeq
<1>3. \A i \in 1 .. Len(s) : i \in I <=> now - s[i] <= FLOOD_WINDOW
  OBVIOUS
<1>4. I \subseteq 1 .. Len(s)
  OBVIOUS
<1> HIDE DEF I
<1>5. CASE I = {}
  <2>1. EtRecent(s, now) = <<>>
    BY <1>2, <1>5
  <2>2. EtCut(<<>>, s, Len(s), now)
    BY <1>1, <1>3, <1>5 DEF EtCut
  <2>3. <<>> \in Seq(Nat) /\ Len(<<>>) = 0
    OBVIOUS
  <2> QED BY <2>1, <2>2, <2>3 DEF EtExact, EtKept
<1>6. CASE I # {}
  <2>1. Min(I) \in I /\ \A j \in I : Min(I) <= j
    <3>1. I \subseteq Nat
      BY <1>1, <1>4
    <3> QED BY <1>6, <3>1, MinOf
  <2>2. PICK m : m = Min(I)
    OBVIOUS
  <2>3. m \in 1 .. Len(s) /\ now - s[m] <= FLOOD_WINDOW
    BY <1>3, <1>4, <2>1, <2>2
  <2>4. PICK u : u = EtRecent(s, now) /\ u = SubSeq(s, m, Len(s))
    <3>1. (IF I # {} THEN Min(I) ELSE 0) = m /\ m # 0
      BY <1>1, <1>6, <2>2, <2>3
    <3> QED BY <1>2, <3>1
  <2>5. u \in Seq(Nat) /\ Len(u) = Len(s) - m + 1 /\ \A i \in 1 .. Len(s) - m + 1 : u[i] = s[m + i - 1]
    BY <1>1, <2>3, <2>4
  <2>6. \A i \in 1 .. m - 1 : ~(now - s[i] <= FLOOD_WINDOW)
    <3> SUFFICES ASSUME NEW i \in 1 .. m - 1 PROVE ~(now - s[i] <= FLOOD_WINDOW)
      OBVIOUS
    <3>1. i \in 1 .. Len(s) /\ i \in Int /\ m \in Int /\ ~(m <= i)
      BY <1>1, <2>3
    <3> QED BY <1>3, <2>1, <2>2, <3>1
  <2>7. EtCut(u, s, m - 1, now)
    <3>1. m - 1 \in Nat /\ Len(s) = (m - 1) + Len(u)
      BY <1>1, <2>3, <2>5
    <3>2. \A i \in 1 .. Len(u) : u[i] = s[(m - 1) + i]
      <4> SUFFICES ASSUME NEW i \in 1 .. Len(u) PROVE u[i] = s[(m - 1) + i]
        OBVIOUS
      <4>1. m + i - 1 = (m - 1) + i /\ i \in 1 .. Len(s) - m + 1
        BY <1>1, <2>3, <2>5
      <4> QED BY <2>5, <4>1
    <3> QED BY <2>6, <3>1, <3>2 DEF EtCut
  <2>8. u[1] = s[m]
    <3>1. 1 \in 1 .. Len(s) - m + 1 /\ m + 1 - 1 = m
      BY <1>1, <2>3
    <3> QED BY <2>5, <3>1
  <2> QED BY <2>3, <2>4, <2>5, <2>7, <2>8 DEF EtExact, EtKept
<1> QED BY <1>5, <1>6

\* Nothing is recent of nothing.
LEMMA EtRecentOfNone == \A now : EtRecent(<<>>, now) = <<>>
<1> SUFFICES ASSUME NEW now PROVE EtRecent(<<>>, now) = <<>>
  OBVIOUS
<1> DEFINE I == {i \in 1 .. Len(<<>>) : now - <<>>[i] <= FLOOD_WINDOW}
<1>1. EtRecent(<<>>, now) = IF (IF I # {} THEN Min(I) ELSE 0) = 0 THEN <<>> ELSE SubSeq(<<>>, IF I # {} THEN Min(I) ELSE 0, Len(<<>>))
  BY DEF EtRecent, SelectInSeq
<1>2. I = {}
  <2>1. 1 .. Len(<<>>) = {}
    OBVIOUS
  <2> QED BY <2>1
<1> HIDE DEF I
<1> QED BY <1>1, <1>2

\* What lacks only old times of what lacks only old times.
LEMMA EtCutTwice ==
  ASSUME NEW now \in Nat, NEW s \in Seq(Nat), NEW u, NEW v, EtKept(u, s, now), EtKept(v, u, now)
  PROVE  EtKept(v, s, now)
<1>1. PICK k : EtCut(u, s, k, now)
  BY DEF EtKept
<1>2. PICK l : EtCut(v, u, l, now)
  BY DEF EtKept
<1>3. u \in Seq(Nat) /\ v \in Seq(Nat) /\ Len(u) \in Nat /\ Len(v) \in Nat /\ Len(s) \in Nat
  BY DEF EtKept
<1>4. k \in Nat /\ l \in Nat /\ Len(s) = k + Len(u) /\ Len(u) = l + Len(v)
  BY <1>1, <1>2 DEF EtCut
<1>5. \A i \in 1 .. Len(v) : v[i] = s[(k + l) + i]
  <2> SUFFICES ASSUME NEW i \in 1 .. Len(v) PROVE v[i] = s[(k + l) + i]
    OBVIOUS
  <2>1. l + i \in 1 .. Len(u) /\ k + (l + i) = (k + l) + i
    BY <1>3, <1>4
  <2>2. v[i] = u[l + i] /\ u[l + i] = s[k + (l + i)]
    BY <1>1, <1>2, <2>1 DEF EtCut
  <2> QED BY <2>1, <2>2
<1>6. \A i \in 1 .. k + l : ~(now - s[i] <= FLOOD_WINDOW)
  <2> SUFFICES ASSUME NEW i \in 1 .. k + l PROVE ~(now - s[i] <= FLOOD_WINDOW)
    OBVIOUS
  <2>1. CASE i <= k
    BY <1>1, <1>4, <2>1 DEF EtCut
  <2>2. CASE ~(i <= k)
    <3>1. PICK j : j = i - k
      OBVIOUS
    <3>2. j \in 1 .. l /\ j \in 1 .. Len(u) /\ k + j = i
      BY <1>3, <1>4, <2>2, <3>1
    <3>3. u[j] = s[k + j] /\ ~(now - u[j] <= FLOOD_WINDOW)
      BY <1>1, <1>2, <3>2 DEF EtCut
    <3> QED BY <3>2, <3>3
  <2> QED BY <2>1, <2>2
<1>7. k + l \in Nat /\ Len(s) = (k + l) + Len(v)
  BY <1>3, <1>4
<1>8. EtCut(v, s, k + l, now)
  BY <1>5, <1>6, <1>7 DEF EtCut
<1> QED BY <1>3, <1>8 DEF EtKept

\* There is one longest sequence of times that starts in the window.
LEMMA EtOneExact ==
  ASSUME NEW now \in Nat, NEW s \in Seq(Nat), NEW u, NEW v, EtExact(u, s, now), EtExact(v, s, now)
  PROVE  u = v
<1>1. PICK k : EtCut(u, s, k, now)
  BY DEF EtExact, EtKept
<1>2. PICK l : EtCut(v, s, l, now)
  BY DEF EtExact, EtKept
<1>3. u \in Seq(Nat) /\ v \in Seq(Nat) /\ Len(u) \in Nat /\ Len(v) \in Nat /\ Len(s) \in Nat
  BY DEF EtExact, EtKept
<1>4. k \in Nat /\ l \in Nat /\ Len(s) = k + Len(u) /\ Len(s) = l + Len(v)
  BY <1>1, <1>2 DEF EtCut
<1>5. ~(k < l)
  <2> SUFFICES ASSUME k < l PROVE FALSE
    OBVIOUS
  <2>1. Len(u) > 0 /\ 1 \in 1 .. Len(u) /\ k + 1 \in 1 .. l
    BY <1>3, <1>4
  <2>2. now - u[1] <= FLOOD_WINDOW /\ u[1] = s[k + 1] /\ ~(now - s[k + 1] <= FLOOD_WINDOW)
    BY <1>1, <1>2, <2>1 DEF EtExact, EtCut
  <2> QED BY <2>2
<1>6. ~(l < k)
  <2> SUFFICES ASSUME l < k PROVE FALSE
    OBVIOUS
  <2>1. Len(v) > 0 /\ 1 \in 1 .. Len(v) /\ l + 1 \in 1 .. k
    BY <1>3, <1>4
  <2>2. now - v[1] <= FLOOD_WINDOW /\ v[1] = s[l + 1] /\ ~(now - s[l + 1] <= FLOOD_WINDOW)
    BY <1>1, <1>2, <2>1 DEF EtExact, EtCut
  <2> QED BY <2>2
<1>7. k = l /\ Len(u) = Len(v)
  <2>1. PICK p, q, n : p = Len(u) /\ q = Len(v) /\ n = Len(s)
    OBVIOUS
  <2>2. p \in Nat /\ q \in Nat /\ n \in Nat /\ k \in Nat /\ l \in Nat /\ n = k + p /\ n = l + q
    BY <1>3, <1>4, <2>1
  <2>3. k = l /\ p = q
    BY ONLY <1>5, <1>6, <2>2
  <2> QED BY <2>1, <2>3
<1>8. \A i \in 1 .. Len(u) : u[i] = v[i]
  BY <1>1, <1>2, <1>7 DEF EtCut
<1> QED BY <1>3, <1>7, <1>8, SeqEqual

\* A table that lacks only old times counts like one that forgets nothing.
LEMMA EtSameCount ==
  ASSUME NEW now \in Nat, NEW s \in Seq(Nat), NEW u, EtKept(u, s, now)
  PROVE  EtRecent(u, now) = EtRecent(s, now)
<1>1. u \in Seq(Nat)
  BY DEF EtKept
<1>2. EtExact(EtRecent(u, now), u, now) /\ EtExact(EtRecent(s, now), s, now)
  BY <1>1, EtRecentIs
<1>3. PICK v : v = EtRecent(u, now)
  OBVIOUS
<1>4. EtKept(v, s, now)
  BY <1>2, <1>3, EtCutTwice DEF EtExact
<1>5. EtExact(v, s, now)
  BY <1>2, <1>3, <1>4 DEF EtExact
<1> QED BY <1>2, <1>3, <1>5, EtOneExact

\* Time only makes more of the times old.
LEMMA EtLater ==
  ASSUME NEW now \in Nat, NEW later \in Nat, now <= later, NEW s \in Seq(Nat)
  PROVE  /\ \A u : EtKept(u, s, now) => EtKept(u, s, later)
         /\ Len(EtRecent(s, later)) <= Len(EtRecent(s, now))
<1>1. \A t \in Nat : later - t <= FLOOD_WINDOW => now - t <= FLOOD_WINDOW
  BY EtConstants
<1>2. ASSUME NEW u, NEW k, EtCut(u, s, k, now), u \in Seq(Nat) PROVE EtCut(u, s, k, later)
  <2>1. k \in Nat /\ Len(s) = k + Len(u) /\ Len(u) \in Nat
    BY <1>2 DEF EtCut
  <2>2. \A i \in 1 .. k : s[i] \in Nat
    BY <2>1
  <2> QED BY <1>1, <1>2, <2>2 DEF EtCut
<1>3. PICK u, v : u = EtRecent(s, now) /\ v = EtRecent(s, later)
  OBVIOUS
<1>4. EtExact(u, s, now) /\ EtExact(v, s, later)
  BY <1>3, EtRecentIs
<1>5. PICK k, l : EtCut(u, s, k, now) /\ EtCut(v, s, l, later)
  BY <1>4 DEF EtExact, EtKept
<1>6. u \in Seq(Nat) /\ v \in Seq(Nat) /\ Len(u) \in Nat /\ Len(v) \in Nat /\ Len(s) \in Nat
  BY <1>4 DEF EtExact, EtKept
<1>7. k \in Nat /\ l \in Nat /\ Len(s) = k + Len(u) /\ Len(s) = l + Len(v)
  BY <1>5 DEF EtCut
<1>8. ~(l < k)
  <2> SUFFICES ASSUME l < k PROVE FALSE
    OBVIOUS
  <2>1. Len(v) > 0 /\ 1 \in 1 .. Len(v) /\ l + 1 \in 1 .. k /\ l + 1 \in 1 .. Len(s)
    BY <1>6, <1>7
  <2>2. later - v[1] <= FLOOD_WINDOW /\ v[1] = s[l + 1] /\ ~(now - s[l + 1] <= FLOOD_WINDOW)
    BY <1>4, <1>5, <2>1 DEF EtExact, EtCut
  <2>3. s[l + 1] \in Nat
    BY <2>1
  <2> QED BY <1>1, <2>2, <2>3
<1>9. Len(v) <= Len(u)
  BY <1>6, <1>7, <1>8
<1> QED BY <1>2, <1>3, <1>9 DEF EtKept

\* Counting one more packet, in both.
LEMMA EtOneMore ==
  ASSUME NEW now \in Nat, NEW s \in Seq(Nat), NEW u, EtKept(u, s, now), NEW t \in Nat
  PROVE  EtKept(Append(u, t), Append(s, t), now)
<1>1. PICK k : EtCut(u, s, k, now)
  BY DEF EtKept
<1>2. u \in Seq(Nat) /\ Len(u) \in Nat /\ Len(s) \in Nat /\ k \in Nat /\ Len(s) = k + Len(u)
  <2>1. u \in Seq(Nat) /\ Len(u) \in Nat /\ Len(s) \in Nat
    BY DEF EtKept
  <2> QED BY <1>1, <2>1 DEF EtCut
<1>3. PICK v, w : v = Append(u, t) /\ w = Append(s, t)
  OBVIOUS
<1>4. v \in Seq(Nat) /\ Len(v) = Len(u) + 1 /\ v[Len(u) + 1] = t /\ \A i \in 1 .. Len(u) : v[i] = u[i]
  BY <1>2, <1>3, Rolling
<1>5. w \in Seq(Nat) /\ Len(w) = Len(s) + 1 /\ w[Len(s) + 1] = t /\ \A i \in 1 .. Len(s) : w[i] = s[i]
  BY <1>3, Rolling
<1>6. \A i \in 1 .. Len(v) : v[i] = w[k + i]
  <2> SUFFICES ASSUME NEW i \in 1 .. Len(v) PROVE v[i] = w[k + i]
    OBVIOUS
  <2>1. CASE i = Len(u) + 1
    <3>1. k + i = Len(s) + 1
      BY <1>2, <2>1
    <3> QED BY <1>4, <1>5, <2>1, <3>1
  <2>2. CASE i # Len(u) + 1
    <3>1. i \in 1 .. Len(u) /\ k + i \in 1 .. Len(s)
      BY <1>2, <1>4, <2>2
    <3>2. u[i] = s[k + i]
      BY <1>1, <3>1 DEF EtCut
    <3> QED BY <1>4, <1>5, <3>1, <3>2
  <2> QED BY <2>1, <2>2
<1>7. \A i \in 1 .. k : ~(now - w[i] <= FLOOD_WINDOW)
  <2>1. \A i \in 1 .. k : i \in 1 .. Len(s)
    BY <1>2
  <2> QED BY <1>1, <1>5, <2>1 DEF EtCut
<1>8. Len(w) = k + Len(v)
  BY <1>2, <1>4, <1>5
<1>9. EtCut(v, w, k, now)
  BY <1>2, <1>6, <1>7, <1>8 DEF EtCut
<1> QED BY <1>3, <1>4, <1>9 DEF EtKept

\* The times that a table has for a source.
EtOf(track, s) == IF s \in DOMAIN track THEN track[s] ELSE <<>>

\* Every source's times in the table lack only old ones; a flood is blocked,
\* was allowed again, or is the packet in hand.
EtInv ==
  /\ etTime \in Nat
  /\ etSent \in [EtSources -> Seq(Nat)]
  /\ DOMAIN etTrack \subseteq EtSources
  /\ \A s \in EtSources : EtKept(EtOf(etTrack, s), etSent[s], etTime)
  /\ etHand.pc # "idle" => etHand.src \in EtSources
  /\ DOMAIN etHand = {"pc", "src"}
  /\ \A s \in EtSources : Len(EtRecent(etSent[s], etTime)) > FLOOD_THRESH
                            => s \in etBlocked \union etLifted \/ (etHand.pc = "block" /\ etHand.src = s)

\* Pruning drops only old times.
LEMMA EtPruneKeeps ==
  ASSUME EtInv
  PROVE  /\ DOMAIN EtPruned(etTrack) \subseteq EtSources
         /\ \A s \in EtSources : EtKept(EtOf(EtPruned(etTrack), s), etSent[s], etTime)
<1>0. etTime \in Nat /\ DOMAIN etTrack \subseteq EtSources
  BY DEF EtInv
<1>1. CASE ~(Cardinality(DOMAIN etTrack) > EtPruneAt)
  BY <1>1 DEF EtPruned, EtInv
<1>2. CASE Cardinality(DOMAIN etTrack) > EtPruneAt
  <2> DEFINE D == {t \in DOMAIN etTrack : EtRecent(etTrack[t], etTime) # <<>>}
             p == [s \in D |-> EtRecent(etTrack[s], etTime)]
  <2>1. EtPruned(etTrack) = p
    BY <1>2 DEF EtPruned
  <2>2. ASSUME NEW s \in EtSources PROVE EtKept(EtOf(p, s), etSent[s], etTime)
    <3>1. PICK u : u = EtOf(etTrack, s)
      OBVIOUS
    <3>2. EtKept(u, etSent[s], etTime) /\ u \in Seq(Nat) /\ etSent[s] \in Seq(Nat)
      BY <3>1 DEF EtInv, EtKept
    <3>3. EtExact(EtRecent(u, etTime), u, etTime)
      BY <1>0, <3>2, EtRecentIs
    <3>4. PICK v : v = EtRecent(u, etTime)
      OBVIOUS
    <3>5. EtKept(v, etSent[s], etTime)
      BY <1>0, <3>2, <3>3, <3>4, EtCutTwice DEF EtExact
    <3>6. EtOf(p, s) = v
      <4>1. CASE s \in DOMAIN etTrack
        <5>1. u = etTrack[s]
          BY <3>1, <4>1 DEF EtOf
        <5> QED BY <3>4, <4>1, <5>1 DEF EtOf
      <4>2. CASE s \notin DOMAIN etTrack
        <5>1. u = <<>>
          BY <3>1, <4>2 DEF EtOf
        <5>2. v = <<>>
          BY <3>4, <5>1, EtRecentOfNone
        <5> QED BY <4>2, <5>2 DEF EtOf
      <4> QED BY <4>1, <4>2
    <3> QED BY <3>5, <3>6
  <2>3. DOMAIN p \subseteq EtSources
    BY <1>0
  <2> QED BY <2>1, <2>2, <2>3
<1> QED BY <1>1, <1>2

\* The tables start empty.
LEMMA EtInitInv == EtInit => EtInv
<1> SUFFICES ASSUME EtInit PROVE EtInv
  OBVIOUS
<1>1. etTime = 0 /\ etSent = [s \in EtSources |-> <<>>] /\ DOMAIN etTrack = {} /\ etHand = EtIdle
  BY DEF EtInit
<1>2. <<>> \in Seq(Nat) /\ Len(<<>>) = 0
  OBVIOUS
<1>3. EtCut(<<>>, <<>>, 0, 0)
  BY <1>2 DEF EtCut
<1>4. EtKept(<<>>, <<>>, 0)
  BY <1>2, <1>3 DEF EtKept
<1>5. EtRecent(<<>>, 0) = <<>>
  BY EtRecentOfNone
<1>6. FLOOD_THRESH \in Nat
  BY EtConstants
<1>7. ~(Len(<<>>) > FLOOD_THRESH)
  BY <1>2, <1>6
<1>8. \A s \in EtSources : etSent[s] = <<>> /\ EtOf(etTrack, s) = <<>>
  BY <1>1 DEF EtOf
<1> QED BY <1>1, <1>2, <1>4, <1>5, <1>7, <1>8 DEF EtInv, EtIdle

\* The packet in hand is counted.
LEMMA EtCountInv ==
  ASSUME EtInv, EtCount
  PROVE  EtInv'
<1> DEFINE pruned == EtPruned(etTrack)
<1>1. PICK x : x = etHand.src
  OBVIOUS
<1>2. PICK old, times : old = EtOf(pruned, x) /\ times = EtRecent(Append(old, etTime), etTime)
  OBVIOUS
<1>3. x \in EtSources /\ etTime \in Nat /\ etSent \in [EtSources -> Seq(Nat)] /\ DOMAIN etHand = {"pc", "src"}
  BY <1>1 DEF EtInv, EtCount
<1>4. /\ etTrack' = [t \in DOMAIN pruned \union {x} |-> IF t = x THEN times ELSE pruned[t]]
      /\ etHand' = IF EtFloods(Len(times)) THEN [etHand EXCEPT !.pc = "block"] ELSE EtIdle
      /\ etSent' = [etSent EXCEPT ![x] = Append(@, etTime)]
      /\ etHand.pc = "flood" /\ etTime' = etTime /\ etBlocked' = etBlocked /\ etLifted' = etLifted
  BY <1>1, <1>2 DEF EtCount, EtOf
<1>5. /\ DOMAIN pruned \subseteq EtSources
      /\ \A s \in EtSources : EtKept(EtOf(pruned, s), etSent[s], etTime)
  BY EtPruneKeeps
<1> HIDE DEF pruned
<1>6. PICK sent : sent = Append(etSent[x], etTime)
  OBVIOUS
<1>7. /\ etSent' \in [EtSources -> Seq(Nat)] /\ etSent'[x] = sent /\ sent \in Seq(Nat)
      /\ \A s \in EtSources : s # x => etSent'[s] = etSent[s]
  BY <1>3, <1>4, <1>6
<1>8. EtKept(Append(old, etTime), sent, etTime)
  <2>1. EtKept(old, etSent[x], etTime) /\ etSent[x] \in Seq(Nat)
    BY <1>2, <1>3, <1>5
  <2> QED BY <1>3, <1>6, <2>1, EtOneMore
<1>9. times = EtRecent(sent, etTime) /\ EtKept(times, sent, etTime)
  <2>1. times = EtRecent(sent, etTime)
    BY <1>2, <1>3, <1>7, <1>8, EtSameCount
  <2>2. EtExact(EtRecent(sent, etTime), sent, etTime)
    BY <1>3, <1>7, EtRecentIs
  <2> QED BY <2>1, <2>2 DEF EtExact
<1>10. ASSUME NEW s \in EtSources PROVE EtKept(EtOf(etTrack', s), etSent'[s], etTime)
  <2>1. CASE s = x
    <3>1. EtOf(etTrack', s) = times
      BY <1>4, <2>1 DEF EtOf
    <3> QED BY <1>7, <1>9, <2>1, <3>1
  <2>2. CASE s # x
    <3>1. EtOf(etTrack', s) = EtOf(pruned, s)
      BY <1>4, <2>2 DEF EtOf
    <3> QED BY <1>5, <1>7, <2>2, <3>1
  <2> QED BY <2>1, <2>2
<1>11. /\ etHand'.pc # "idle" => etHand'.src \in EtSources
       /\ DOMAIN etHand' = {"pc", "src"}
       /\ EtFloods(Len(times)) => etHand'.pc = "block" /\ etHand'.src = x
  BY <1>1, <1>3, <1>4 DEF EtIdle
<1>12. ASSUME NEW s \in EtSources, Len(EtRecent(etSent'[s], etTime)) > FLOOD_THRESH
       PROVE  s \in etBlocked \union etLifted \/ (etHand'.pc = "block" /\ etHand'.src = s)
  <2>1. CASE s = x
    <3>1. EtFloods(Len(times))
      BY <1>7, <1>9, <1>12, <2>1 DEF EtFloods
    <3> QED BY <1>11, <2>1, <3>1
  <2>2. CASE s # x
    <3>1. s \in etBlocked \union etLifted \/ (etHand.pc = "block" /\ etHand.src = s)
      BY <1>7, <1>12, <2>2 DEF EtInv
    <3> QED BY <1>4, <3>1
  <2> QED BY <2>1, <2>2
<1>13. DOMAIN etTrack' \subseteq EtSources
  BY <1>3, <1>4, <1>5
<1> QED BY <1>3, <1>4, <1>7, <1>10, <1>11, <1>12, <1>13 DEF EtInv

\* Every packet, every block and unblock, and the clock keep it.
LEMMA EtStepInv == EtInv /\ [EtNext]_etVars => EtInv'
<1> SUFFICES ASSUME EtInv, [EtNext]_etVars PROVE EtInv'
  OBVIOUS
<1>1. CASE EtCount
  BY <1>1, EtCountInv
<1>2. CASE UNCHANGED etVars
  BY <1>2 DEF etVars, EtInv
<1>3. CASE EtTick
  <2>1. etTime \in Nat /\ etTime' = etTime + 1 /\ etTime' \in Nat /\ etTime <= etTime'
    BY <1>3 DEF EtTick, EtInv
  <2>2. UNCHANGED <<etTrack, etBlocked, etHand, etSent, etLifted>>
    BY <1>3 DEF EtTick
  <2>3. ASSUME NEW s \in EtSources
        PROVE  /\ EtKept(EtOf(etTrack, s), etSent[s], etTime')
               /\ Len(EtRecent(etSent[s], etTime')) > FLOOD_THRESH
                     => s \in etBlocked \union etLifted \/ (etHand.pc = "block" /\ etHand.src = s)
    <3>1. etSent[s] \in Seq(Nat) /\ EtKept(EtOf(etTrack, s), etSent[s], etTime)
      BY DEF EtInv
    <3>2. PICK q : q = etSent[s]
      OBVIOUS
    <3>3. /\ \A u : EtKept(u, q, etTime) => EtKept(u, q, etTime')
          /\ Len(EtRecent(q, etTime')) <= Len(EtRecent(q, etTime))
      <4>1. etTime \in Nat /\ etTime' \in Nat /\ etTime <= etTime' /\ q \in Seq(Nat)
        BY <2>1, <3>1, <3>2
      <4> QED BY <4>1, EtLater
    <3>4. EtRecent(q, etTime) \in Seq(Nat) /\ EtRecent(q, etTime') \in Seq(Nat)
      BY <2>1, <3>1, <3>2, EtRecentIs DEF EtExact, EtKept
    <3>5. Len(EtRecent(q, etTime)) \in Nat /\ Len(EtRecent(q, etTime')) \in Nat /\ FLOOD_THRESH \in Nat
      BY <3>4, EtConstants
    <3>6. Len(EtRecent(q, etTime')) > FLOOD_THRESH => Len(EtRecent(q, etTime)) > FLOOD_THRESH
      BY <3>3, <3>5
    <3> QED BY <3>1, <3>2, <3>3, <3>6 DEF EtInv
  <2> QED BY <2>1, <2>2, <2>3 DEF EtInv
<1>4. CASE EtBlock
  BY <1>4 DEF EtBlock, EtInv, EtIdle
<1>5. ASSUME NEW s \in EtSources, EtPacket(s) PROVE EtInv'
  BY <1>5 DEF EtPacket, EtInv
<1>6. ASSUME NEW s \in EtSources, EtUnblock(s) PROVE EtInv'
  BY <1>6 DEF EtUnblock, EtInv
<1> QED BY <1>1, <1>2, <1>3, <1>4, <1>5, <1>6 DEF EtNext

\* A pruned table counts like one that is never pruned, and floods are blocked.
LEMMA EtJudged == EtInv => EtNothingRecentForgotten /\ EtFloodBlocked
<1> SUFFICES ASSUME EtInv PROVE EtNothingRecentForgotten /\ EtFloodBlocked
  OBVIOUS
<1>1. ASSUME NEW s \in EtSources
      PROVE  EtRecent(etSent[s], etTime) = IF s \in DOMAIN etTrack THEN EtRecent(etTrack[s], etTime) ELSE <<>>
  <2>1. etSent[s] \in Seq(Nat) /\ etTime \in Nat /\ EtKept(EtOf(etTrack, s), etSent[s], etTime)
    BY DEF EtInv
  <2>2. EtRecent(EtOf(etTrack, s), etTime) = EtRecent(etSent[s], etTime)
    BY <2>1, EtSameCount
  <2>3. EtRecent(<<>>, etTime) = <<>>
    BY EtRecentOfNone
  <2> QED BY <2>2, <2>3 DEF EtOf
<1> QED BY <1>1 DEF EtNothingRecentForgotten, EtFloodBlocked, EtInv

\* EtgRiEngine keeps its table exact, for every arrival and every prune.
THEOREM TrafficInvariant == EtSpec => []EtInv
  BY EtInitInv, EtStepInv, PTL DEF EtSpec

-----------------------------------------------------------------------------
(* FirewallEngine: the order of the rules, and floods in the log.          *)

\* a stands before b: by priority, and by age where the priorities are equal.
FwBefore(a, b) == a.priority < b.priority \/ (a.priority = b.priority /\ a.id < b.id)

FwEntry == [ip : Nat, port : Nat, action : {"ALLOW", "DENY"}]

\* The rules are typed, in order and older than the next id.
FwOrdered(rules, next) ==
  /\ rules \in Seq(FwRule)
  /\ \A i \in 1 .. Len(rules) : rules[i].id < next
  /\ \A i, j \in 1 .. Len(rules) : i < j => FwBefore(rules[i], rules[j])

FwInv ==
  /\ fwNext \in Nat \ {0}
  /\ FwOrdered(fwRules, fwNext)
  /\ fwLog \in Seq(FwEntry) /\ Len(fwLog) <= MAX_CONNECTION_LOG

\* The fields of a rule that the order looks at.
LEMMA FwFields == \A r \in FwRule : r.id \in Nat /\ r.priority \in Int
  BY DEF FwRule

\* A rule that is given its number is still a rule of its priority.
LEMMA FwRenumbered ==
  ASSUME NEW r \in FwRule, NEW n \in Nat
  PROVE  /\ [r EXCEPT !.id = n] \in FwRule
         /\ [r EXCEPT !.id = n].id = n /\ [r EXCEPT !.id = n].priority = r.priority
  BY DEF FwRule

\* A rule that is switched is still a rule in its place.
LEMMA FwSwitched ==
  ASSUME NEW r \in FwRule, NEW b \in BOOLEAN
  PROVE  /\ [r EXCEPT !.enabled = b] \in FwRule
         /\ [r EXCEPT !.enabled = b].id = r.id /\ [r EXCEPT !.enabled = b].priority = r.priority
  BY DEF FwRule

\* The new rule, which is the youngest, is put behind those of its priority.
LEMMA FwInserted ==
  ASSUME NEW next \in Nat, NEW rules, FwOrdered(rules, next), NEW r \in FwRule, r.id = next
  PROVE  FwOrdered(FwInsert(rules, r), next + 1)
<1> DEFINE I == {i \in 1 .. Len(rules) : rules[i].priority <= r.priority}
           n == IF I # {} THEN Max(I) ELSE 0
<1>1. rules \in Seq(FwRule) /\ Len(rules) \in Nat /\ \A i \in 1 .. Len(rules) : rules[i] \in FwRule
  BY DEF FwOrdered
<1>2. FwInsert(rules, r) = SubSeq(rules, 1, n) \o <<r>> \o SubSeq(rules, n + 1, Len(rules))
  BY DEF FwInsert, SelectLastInSeq
<1>3. n \in 0 .. Len(rules) /\ (n # 0 => n \in I) /\ (\A i \in I : i <= n)
  <2>1. CASE I = {}
    BY <1>1, <2>1
  <2>2. CASE I # {}
    <3>1. Max(I) \in I /\ \A j \in I : j <= Max(I)
      BY <1>1, <2>2, MaxOf
    <3> QED BY <1>1, <2>2, <3>1
  <2> QED BY <2>1, <2>2
<1>4. \A i \in 1 .. Len(rules) : rules[i].id \in Nat /\ rules[i].priority \in Int /\ rules[i].id < next
  BY <1>1, FwFields DEF FwOrdered
<1>5. r.priority \in Int
  BY FwFields
<1>6. \A i \in 1 .. n : rules[i].priority <= r.priority
  <2> SUFFICES ASSUME NEW i \in 1 .. n PROVE rules[i].priority <= r.priority
    OBVIOUS
  <2>1. n \in 1 .. Len(rules) /\ i \in 1 .. Len(rules) /\ rules[n].priority <= r.priority
    BY <1>1, <1>3
  <2>2. i < n => FwBefore(rules[i], rules[n])
    BY <2>1 DEF FwOrdered
  <2> HIDE DEF n
  <2>3. i < n => rules[i].priority <= rules[n].priority
    BY <1>4, <2>1, <2>2 DEF FwBefore
  <2>4. i = n \/ i < n
    BY <2>1
  <2> QED BY <1>4, <1>5, <2>1, <2>3, <2>4
<1>7. \A i \in n + 1 .. Len(rules) : r.priority < rules[i].priority
  <2> SUFFICES ASSUME NEW i \in n + 1 .. Len(rules) PROVE r.priority < rules[i].priority
    OBVIOUS
  <2>1. i \in 1 .. Len(rules) /\ ~(i <= n)
    BY <1>1, <1>3
  <2>2. ~(rules[i].priority <= r.priority)
    BY <1>3, <2>1
  <2> QED BY <1>4, <1>5, <2>1, <2>2
<1> HIDE DEF n, I
<1>8. PICK t : t = FwInsert(rules, r)
  OBVIOUS
<1>9. /\ t \in Seq(FwRule) /\ Len(t) = Len(rules) + 1
      /\ \A i \in 1 .. n : t[i] = rules[i]
      /\ t[n + 1] = r
      /\ \A i \in n + 2 .. Len(rules) + 1 : t[i] = rules[i - 1]
  <2>1. /\ rules \in Seq(FwRule) /\ n \in 0 .. Len(rules) /\ r \in FwRule
        /\ t = SubSeq(rules, 1, n) \o <<r>> \o SubSeq(rules, n + 1, Len(rules))
    BY <1>1, <1>2, <1>3, <1>8
  <2>2. t \in Seq(FwRule) /\ IsSpliced(t, rules, n, r)
    BY ONLY <2>1, Spliced
  <2> QED BY <2>2 DEF IsSpliced
<1>10. n \in Nat /\ n <= Len(rules)
  BY <1>1, <1>3
\* Where each rule of the new sequence comes from.
<1>11. \A i \in 1 .. Len(t) : \/ i \in 1 .. n /\ t[i] = rules[i]
                              \/ i = n + 1 /\ t[i] = r
                              \/ i - 1 \in n + 1 .. Len(rules) /\ t[i] = rules[i - 1]
  BY <1>1, <1>9, <1>10
<1>12. \A i \in 1 .. Len(t) : t[i].id < next + 1
  <2> SUFFICES ASSUME NEW i \in 1 .. Len(t) PROVE t[i].id < next + 1
    OBVIOUS
  <2>1. (i \in 1 .. n => i \in 1 .. Len(rules)) /\ (i - 1 \in n + 1 .. Len(rules) => i - 1 \in 1 .. Len(rules))
    BY <1>1, <1>10
  <2> QED BY <1>4, <1>11, <2>1
<1>13. ASSUME NEW i \in 1 .. Len(t), NEW j \in 1 .. Len(t), i < j PROVE FwBefore(t[i], t[j])
  <2>1. CASE i \in 1 .. n /\ j \in 1 .. n
    <3>1. i \in 1 .. Len(rules) /\ j \in 1 .. Len(rules)
      BY <1>1, <1>10, <2>1
    <3> QED BY <1>9, <1>13, <2>1, <3>1 DEF FwOrdered
  <2>2. CASE i \in 1 .. n /\ j = n + 1
    <3>1. i \in 1 .. Len(rules) /\ t[i] = rules[i] /\ t[j] = r
      BY <1>1, <1>9, <1>10, <2>2
    <3>2. rules[i].priority <= r.priority
      BY <1>6, <2>2
    <3> QED BY <1>4, <1>5, <3>1, <3>2 DEF FwBefore
  <2>3. CASE i \in 1 .. n /\ j - 1 \in n + 1 .. Len(rules)
    <3>1. i \in 1 .. Len(rules) /\ j - 1 \in 1 .. Len(rules) /\ i < j - 1 /\ j \in n + 2 .. Len(rules) + 1
      BY <1>1, <1>10, <2>3
    <3> QED BY <1>9, <2>3, <3>1 DEF FwOrdered
  <2>4. CASE i = n + 1 /\ j - 1 \in n + 1 .. Len(rules)
    <3>1. j \in n + 2 .. Len(rules) + 1 /\ j - 1 \in 1 .. Len(rules)
      BY <1>1, <1>10, <2>4
    <3>2. t[i] = r /\ t[j] = rules[j - 1]
      BY <1>9, <2>4, <3>1
    <3>3. r.priority < rules[j - 1].priority
      BY <1>7, <2>4
    <3> QED BY <3>2, <3>3 DEF FwBefore
  <2>5. CASE i - 1 \in n + 1 .. Len(rules) /\ j - 1 \in n + 1 .. Len(rules)
    <3>1. /\ i - 1 \in 1 .. Len(rules) /\ j - 1 \in 1 .. Len(rules) /\ i - 1 < j - 1
          /\ i \in n + 2 .. Len(rules) + 1 /\ j \in n + 2 .. Len(rules) + 1
      BY <1>1, <1>10, <1>13, <2>5
    <3> QED BY <1>9, <3>1 DEF FwOrdered
  <2>6. \/ i \in 1 .. n /\ j \in 1 .. n
        \/ i \in 1 .. n /\ j = n + 1
        \/ i \in 1 .. n /\ j - 1 \in n + 1 .. Len(rules)
        \/ i = n + 1 /\ j - 1 \in n + 1 .. Len(rules)
        \/ i - 1 \in n + 1 .. Len(rules) /\ j - 1 \in n + 1 .. Len(rules)
    BY <1>1, <1>9, <1>10, <1>13
  <2> QED BY <2>1, <2>2, <2>3, <2>4, <2>5, <2>6
<1> QED BY <1>8, <1>9, <1>12, <1>13 DEF FwOrdered

\* The default rules, as they are listed, are in order.
LEMMA FwDefaultsOrdered ==
  ASSUME NEW n \in Nat \ {0}
  PROVE  FwOrdered([i \in 1 .. 8 |-> [FwDefaults[i] EXCEPT !.id = @ + n - 1]], n + 8)
<1> DEFINE ids == <<5, 1, 2, 3, 4, 6, 7, 8>>
           prios == <<5, 10, 10, 10, 10, 20, 20, 30>>
           t == [i \in 1 .. 8 |-> [FwDefaults[i] EXCEPT !.id = @ + n - 1]]
<1>1. ASSUME NEW id \in Nat, NEW dir \in {"IN", "OUT"}, NEW act \in {"ALLOW", "DENY"}, NEW proto \in FwProtocols,
             NEW pmin \in Nat, NEW pmax \in Nat, NEW prio \in Int
      PROVE  /\ FwDefault(id, dir, act, proto, pmin, pmax, prio) \in FwRule
             /\ FwDefault(id, dir, act, proto, pmin, pmax, prio).id = id
             /\ FwDefault(id, dir, act, proto, pmin, pmax, prio).priority = prio
  BY DEF FwDefault, FwRule
<1>2. {"ANY", "TCP", "UDP"} \subseteq FwProtocols
  BY DEF FwProtocols
<1>3. ASSUME NEW i \in 1 .. 8
      PROVE  FwDefaults[i] \in FwRule /\ FwDefaults[i].id = ids[i] /\ FwDefaults[i].priority = prios[i]
  <2>1. i \in {1, 2, 3, 4, 5, 6, 7, 8}
    OBVIOUS
  <2>2. CASE i = 1
    BY <1>1, <1>2, <2>2 DEF FwDefaults
  <2>3. CASE i = 2
    BY <1>1, <1>2, <2>3 DEF FwDefaults
  <2>4. CASE i = 3
    BY <1>1, <1>2, <2>4 DEF FwDefaults
  <2>5. CASE i = 4
    BY <1>1, <1>2, <2>5 DEF FwDefaults
  <2>6. CASE i = 5
    BY <1>1, <1>2, <2>6 DEF FwDefaults
  <2>7. CASE i = 6
    BY <1>1, <1>2, <2>7 DEF FwDefaults
  <2>8. CASE i = 7
    BY <1>1, <1>2, <2>8 DEF FwDefaults
  <2>9. CASE i = 8
    BY <1>1, <1>2, <2>9 DEF FwDefaults
  <2> QED BY <2>1, <2>2, <2>3, <2>4, <2>5, <2>6, <2>7, <2>8, <2>9
<1>4. \A i \in 1 .. 8 : ids[i] \in 1 .. 8 /\ prios[i] \in Int
  OBVIOUS
<1>5. \A i, j \in 1 .. 8 : i < j => prios[i] < prios[j] \/ (prios[i] = prios[j] /\ ids[i] < ids[j])
  OBVIOUS
<1>6. ASSUME NEW i \in 1 .. 8 PROVE t[i] \in FwRule /\ t[i].id = ids[i] + n - 1 /\ t[i].priority = prios[i]
  <2>1. t[i] = [FwDefaults[i] EXCEPT !.id = FwDefaults[i].id + n - 1]
    OBVIOUS
  <2>2. FwDefaults[i].id + n - 1 \in Nat /\ FwDefaults[i].id + n - 1 = ids[i] + n - 1
    BY <1>3, <1>4
  <2> HIDE DEF t
  <2> QED BY <1>3, <2>1, <2>2, FwRenumbered
<1>7. t \in Seq(FwRule) /\ Len(t) = 8
  <2>1. DOMAIN t = 1 .. 8 /\ t = [i \in 1 .. 8 |-> t[i]]
    OBVIOUS
  <2> HIDE DEF t
  <2>2. t \in [1 .. 8 -> FwRule]
    BY <1>6, <2>1
  <2>3. t \in Seq(FwRule)
    BY <2>2, SeqDef
  <2>4. Len(t) \in Nat /\ DOMAIN t = 1 .. Len(t)
    BY <2>3, LenProperties
  <2>5. 1 .. 8 = 1 .. Len(t)
    BY <2>1, <2>4
  <2>6. Len(t) = 8
    BY <2>4, <2>5
  <2> QED BY <2>3, <2>6
<1> HIDE DEF t, ids, prios
<1>8. \A i \in 1 .. 8 : t[i].id < n + 8
  BY <1>4, <1>6
<1>9. ASSUME NEW i \in 1 .. 8, NEW j \in 1 .. 8, i < j PROVE FwBefore(t[i], t[j])
  <2>1. prios[i] < prios[j] \/ (prios[i] = prios[j] /\ ids[i] < ids[j])
    BY <1>5, <1>9
  <2>2. ids[i] \in Int /\ ids[j] \in Int
    BY <1>4
  <2> QED BY <1>6, <2>1, <2>2 DEF FwBefore
<1> QED BY <1>7, <1>8, <1>9 DEF FwOrdered, t

\* What is left of an ordered sequence is ordered, and switching a rule on or
\* off changes no order.
LEMMA FwStillOrdered ==
  ASSUME NEW next \in Nat, NEW rules, FwOrdered(rules, next), NEW k \in 1 .. Len(rules), NEW b \in BOOLEAN
  PROVE  FwOrdered(RemoveAt(rules, k), next) /\ FwOrdered([rules EXCEPT ![k].enabled = b], next)
<1>1. rules \in Seq(FwRule) /\ Len(rules) \in Nat /\ \A i \in 1 .. Len(rules) : rules[i] \in FwRule
  BY DEF FwOrdered
<1>2. FwOrdered(RemoveAt(rules, k), next)
  <2>1. PICK t : t = RemoveAt(rules, k)
    OBVIOUS
  <2>2. t \in Seq(FwRule) /\ Len(t) = Len(rules) - 1 /\ \A i \in 1 .. Len(t) : t[i] = IF i < k THEN rules[i] ELSE rules[i + 1]
    BY <1>1, <2>1, Removed
  <2>3. \A i \in 1 .. Len(t) : \E m \in 1 .. Len(rules) : t[i] = rules[m] /\ m = IF i < k THEN i ELSE i + 1
    BY <1>1, <2>2
  <2>4. \A i \in 1 .. Len(t) : t[i].id < next
    BY <2>3 DEF FwOrdered
  <2>5. ASSUME NEW i \in 1 .. Len(t), NEW j \in 1 .. Len(t), i < j PROVE FwBefore(t[i], t[j])
    <3>1. PICK m \in 1 .. Len(rules) : t[i] = rules[m] /\ m = IF i < k THEN i ELSE i + 1
      BY <2>3
    <3>2. PICK l \in 1 .. Len(rules) : t[j] = rules[l] /\ l = IF j < k THEN j ELSE j + 1
      BY <2>3
    <3>3. m < l
      BY <1>1, <2>5, <3>1, <3>2
    <3> QED BY <3>1, <3>2, <3>3 DEF FwOrdered
  <2> QED BY <2>1, <2>2, <2>4, <2>5 DEF FwOrdered
<1>3. FwOrdered([rules EXCEPT ![k].enabled = b], next)
  <2>1. PICK y : y = [rules[k] EXCEPT !.enabled = b]
    OBVIOUS
  <2>2. y \in FwRule /\ y.id = rules[k].id /\ y.priority = rules[k].priority
    BY <1>1, <2>1, FwSwitched
  <2>3. PICK t : t = [rules EXCEPT ![k].enabled = b] /\ t = [rules EXCEPT ![k] = y]
    BY <2>1
  <2>4. t \in Seq(FwRule) /\ Len(t) = Len(rules) /\ \A i \in 1 .. Len(rules) : t[i] = IF i = k THEN y ELSE rules[i]
    BY <1>1, <2>2, <2>3, ExceptSeq
  <2>5. \A i \in 1 .. Len(t) : t[i].id = rules[i].id /\ t[i].priority = rules[i].priority
    BY <2>2, <2>4
  <2> QED BY <2>3, <2>4, <2>5 DEF FwOrdered, FwBefore
<1> QED BY <1>2, <1>3

\* The log after a connection is noted.
LEMMA FwLogged ==
  ASSUME FwInv, NEW e \in FwEntry
  PROVE  FwKept(Append(fwLog, e)) \in Seq(FwEntry) /\ Len(FwKept(Append(fwLog, e))) <= MAX_CONNECTION_LOG
<1>1. MAX_CONNECTION_LOG \in Nat /\ Len(fwLog) \in Nat /\ fwLog \in Seq(FwEntry)
  BY FwConstants DEF FwInv
<1>2. PICK t : t = Append(fwLog, e)
  OBVIOUS
<1>3. t \in Seq(FwEntry) /\ Len(t) = Len(fwLog) + 1 /\ Tail(t) \in Seq(FwEntry) /\ Len(Tail(t)) = Len(fwLog)
  BY <1>1, <1>2, Rolling
<1> QED BY <1>1, <1>2, <1>3 DEF FwKept, FwInv

\* What a packet leaves in the log is an entry of it.
LEMMA FwEntered ==
  ASSUME NEW p \in FwPackets, NEW a \in {"ALLOW", "DENY"}
  PROVE  [ip |-> IF p.direction = "IN" THEN p.src ELSE p.dst, port |-> p.dport, action |-> a] \in FwEntry
<1>1. p.src \in Nat /\ p.dst \in Nat /\ p.dport \in Nat
  BY FwConstants DEF FwPacket
<1> QED BY <1>1 DEF FwEntry

\* Starts, rules added, removed and switched, and traffic keep it.
LEMMA FwStepKeeps == FwInv /\ [FwRuleNext \/ FwTrafficNext]_fwVars => FwInv'
<1> SUFFICES ASSUME FwInv, [FwRuleNext \/ FwTrafficNext]_fwVars PROVE FwInv'
  OBVIOUS
<1>1. CASE FwStart
  <2>1. CASE fwRules = <<>>
    <3>1. FwOrdered(fwRules', fwNext') /\ fwNext' = fwNext + 8 /\ fwLog' = fwLog
      BY <1>1, <2>1, FwDefaultsOrdered DEF FwStart, FwInv
    <3> QED BY <3>1 DEF FwInv
  <2>2. CASE fwRules # <<>>
    BY <1>1, <2>2 DEF FwStart, FwInv
  <2> QED BY <2>1, <2>2
<1>2. ASSUME NEW rule \in FwRules, FwAddRule(rule) PROVE FwInv'
  <2>1. PICK r : r = [rule EXCEPT !.id = fwNext]
    OBVIOUS
  <2>2. r \in FwRule /\ r.id = fwNext
    BY <2>1, FwConstants, FwRenumbered DEF FwInv
  <2>3. fwRules' = FwInsert(fwRules, r) /\ fwNext' = fwNext + 1 /\ fwLog' = fwLog
    BY <1>2, <2>1 DEF FwAddRule
  <2>4. FwOrdered(fwRules', fwNext')
    BY <2>2, <2>3, FwInserted DEF FwInv
  <2> QED BY <2>3, <2>4 DEF FwInv
<1>3. ASSUME NEW id, FwRemoveRule(id) PROVE FwInv'
  <2>1. PICK k \in DOMAIN fwRules : fwRules' = RemoveAt(fwRules, k)
    BY <1>3 DEF FwRemoveRule
  <2>2. k \in 1 .. Len(fwRules) /\ UNCHANGED <<fwNext, fwLog>>
    BY <1>3, <2>1 DEF FwRemoveRule, FwInv, FwOrdered
  <2>3. FwOrdered(fwRules', fwNext)
    BY <2>1, <2>2, FwStillOrdered DEF FwInv
  <2> QED BY <2>2, <2>3 DEF FwInv
<1>4. ASSUME NEW id, NEW on \in BOOLEAN, FwEnableRule(id, on) PROVE FwInv'
  <2>1. PICK k \in DOMAIN fwRules : fwRules' = [fwRules EXCEPT ![k].enabled = on]
    BY <1>4 DEF FwEnableRule
  <2>2. k \in 1 .. Len(fwRules) /\ UNCHANGED <<fwNext, fwLog>>
    BY <1>4, <2>1 DEF FwEnableRule, FwInv, FwOrdered
  <2>3. FwOrdered(fwRules', fwNext)
    BY <2>1, <2>2, FwStillOrdered DEF FwInv
  <2> QED BY <2>2, <2>3 DEF FwInv
<1>5. ASSUME NEW p \in FwPackets, NEW a \in {"ALLOW", "DENY"}, FwLogConnection(p, a) PROVE FwInv'
  <2>1. PICK e : e = [ip |-> IF p.direction = "IN" THEN p.src ELSE p.dst, port |-> p.dport, action |-> a]
    OBVIOUS
  <2>2. e \in FwEntry
    BY <2>1, FwEntered
  <2>3. fwLog' = FwKept(Append(fwLog, e)) /\ UNCHANGED <<fwRules, fwNext>>
    BY <1>5, <2>1 DEF FwLogConnection
  <2> QED BY <2>2, <2>3, FwLogged DEF FwInv
<1>6. CASE UNCHANGED <<fwRules, fwNext, fwLog>>
  BY <1>6 DEF FwInv
<1>7. (\E p \in FwPackets : FwEvaluate(p)) \/ FwStop \/ FwMonitor \/ UNCHANGED fwVars => UNCHANGED <<fwRules, fwNext, fwLog>>
  BY DEF FwEvaluate, FwStop, FwMonitor, fwVars
<1> QED BY <1>1, <1>2, <1>3, <1>4, <1>5, <1>6, <1>7 DEF FwRuleNext, FwTrafficNext

\* However rules are added, removed and switched, they are in order of priority
\* and age, and the log keeps its limit.
THEOREM FirewallInvariant == FwSpec => []FwInv
<1>1. FwInit => FwInv
  <2> SUFFICES ASSUME FwInit PROVE FwInv
    OBVIOUS
  <2>1. MAX_CONNECTION_LOG \in Nat
    BY FwConstants
  <2>2. fwRules = <<>> /\ fwLog = <<>> /\ fwNext = 1
    BY DEF FwInit
  <2> QED BY <2>1, <2>2 DEF FwInv, FwOrdered
<1> QED BY <1>1, FwStepKeeps, PTL DEF FwSpec

\* The first rule that matches is the one no other matching rule precedes.
LEMMA FwDecided == FwInv => FwOldestOfBestDecides
<1> SUFFICES ASSUME FwInv, NEW p \in FwPackets,
                    NEW k \in DOMAIN fwRules, FwMatches(fwRules[k], p),
                    \A q \in {fwRules[i] : i \in {j \in DOMAIN fwRules : FwMatches(fwRules[j], p)}} \ {fwRules[k]} :
                      FwBefore(fwRules[k], q)
             PROVE  FwVerdict(p) = fwRules[k].action
  BY DEF FwOldestOfBestDecides, FwBefore
<1> DEFINE hits == {i \in DOMAIN fwRules : FwMatches(fwRules[i], p)}
<1>1. DOMAIN fwRules = 1 .. Len(fwRules) /\ Len(fwRules) \in Nat /\ \A i \in 1 .. Len(fwRules) : fwRules[i] \in FwRule
  BY DEF FwInv, FwOrdered
<1>2. k \in hits /\ hits \subseteq 1 .. Len(fwRules)
  BY <1>1
<1>3. \A i \in hits : k <= i
  <2> SUFFICES ASSUME NEW i \in hits, ~(k <= i) PROVE FALSE
    OBVIOUS
  <2>1. i < k /\ i \in 1 .. Len(fwRules) /\ k \in 1 .. Len(fwRules)
    BY <1>1, <1>2
  <2>2. FwBefore(fwRules[i], fwRules[k])
    BY <2>1 DEF FwInv, FwOrdered
  <2>3. /\ fwRules[i].id \in Nat /\ fwRules[i].priority \in Int
        /\ fwRules[k].id \in Nat /\ fwRules[k].priority \in Int
    BY <1>1, <2>1, FwFields
  <2>4. fwRules[i] # fwRules[k]
    BY <2>2, <2>3 DEF FwBefore
  <2>5. FwBefore(fwRules[k], fwRules[i])
    BY <1>1, <2>1, <2>4
  <2> QED BY <2>2, <2>3, <2>5 DEF FwBefore
<1>4. \A i \in hits : (\A j \in hits : i <= j) => i = k
  <2> SUFFICES ASSUME NEW i \in hits, \A j \in hits : i <= j PROVE i = k
    OBVIOUS
  <2>1. i <= k /\ k <= i /\ i \in Nat /\ k \in Nat
    BY <1>1, <1>2, <1>3
  <2> QED BY <2>1
<1>5. (CHOOSE i \in hits : \A j \in hits : i <= j) = k
  <2> HIDE DEF hits
  <2> QED BY <1>2, <1>3, <1>4
<1>6. hits # {}
  BY <1>2
<1> QED BY <1>5, <1>6 DEF FwVerdict

FwOf(log, ip) == {i \in 1 .. Len(log) : log[i].ip = ip}

\* Whatever is logged, an address keeps its connections, except for the oldest
\* when the log is full.
LEMMA FwCountKept ==
  ASSUME FwInv, NEW e \in FwEntry, NEW ip, ~(Len(fwLog) = MAX_CONNECTION_LOG /\ Head(fwLog).ip = ip)
  PROVE  /\ Cardinality(FwOf(fwLog, ip)) <= Cardinality(FwOf(FwKept(Append(fwLog, e)), ip))
         /\ Cardinality(FwOf(fwLog, ip)) \in Nat /\ Cardinality(FwOf(FwKept(Append(fwLog, e)), ip)) \in Nat
<1>1. MAX_CONNECTION_LOG \in Nat \ {0} /\ Len(fwLog) \in Nat /\ fwLog \in Seq(FwEntry) /\ Len(fwLog) <= MAX_CONNECTION_LOG
  BY FwConstants DEF FwInv
<1>2. PICK new, t : new = FwKept(t) /\ t = Append(fwLog, e)
  OBVIOUS
<1>3. /\ t \in Seq(FwEntry) /\ Len(t) = Len(fwLog) + 1 /\ \A i \in 1 .. Len(fwLog) : t[i] = fwLog[i]
      /\ Tail(t) \in Seq(FwEntry) /\ Len(Tail(t)) = Len(fwLog)
      /\ \A i \in 1 .. Len(fwLog) : Tail(t)[i] = IF i = Len(fwLog) THEN e ELSE fwLog[i + 1]
  BY <1>1, <1>2, Rolling
<1>4. Len(new) \in Nat /\ new \in Seq(FwEntry)
  BY <1>2, <1>3 DEF FwKept
<1>5. IsFiniteSet(FwOf(fwLog, ip)) /\ IsFiniteSet(FwOf(new, ip))
  <2>1. IsFiniteSet(1 .. Len(fwLog)) /\ IsFiniteSet(1 .. Len(new))
    BY <1>1, <1>4, FS_Interval
  <2> QED BY <2>1, FS_Subset DEF FwOf
<1>6. CASE Len(fwLog) < MAX_CONNECTION_LOG
  <2>1. new = t
    BY <1>1, <1>2, <1>3, <1>6 DEF FwKept
  <2>2. FwOf(fwLog, ip) \subseteq FwOf(new, ip)
    BY <1>1, <1>3, <2>1 DEF FwOf
  <2> QED BY <1>2, <1>5, <2>2, FS_Subset, FS_CardinalityType
<1>7. CASE Len(fwLog) = MAX_CONNECTION_LOG
  <2>1. new = Tail(t)
    BY <1>1, <1>2, <1>3, <1>7 DEF FwKept
  <2>2. Head(fwLog) = fwLog[1] /\ fwLog[1].ip # ip
    BY <1>1, <1>7
  <2> DEFINE f == [i \in FwOf(fwLog, ip) |-> i - 1]
  <2>3. \A i \in FwOf(fwLog, ip) : i \in 2 .. Len(fwLog) /\ fwLog[i].ip = ip
    BY <1>1, <2>2 DEF FwOf
  <2>4. \A i \in FwOf(fwLog, ip) : i - 1 \in FwOf(new, ip)
    <3> SUFFICES ASSUME NEW i \in FwOf(fwLog, ip) PROVE i - 1 \in FwOf(new, ip)
      OBVIOUS
    <3>1. i \in 2 .. Len(fwLog) /\ fwLog[i].ip = ip
      BY <2>3
    <3>2. i - 1 \in 1 .. Len(fwLog) /\ i - 1 # Len(fwLog) /\ (i - 1) + 1 = i
      BY <1>1, <3>1
    <3>3. new[i - 1] = fwLog[i]
      BY <1>3, <2>1, <3>2
    <3> QED BY <1>3, <2>1, <3>1, <3>2, <3>3 DEF FwOf
  <2>5. f \in Injection(FwOf(fwLog, ip), FwOf(new, ip))
    BY <2>3, <2>4 DEF Injection, IsInjective
  <2> HIDE DEF f
  <2>6. Cardinality(FwOf(fwLog, ip)) <= Cardinality(FwOf(new, ip))
    BY <1>5, <2>5, FS_Injection
  <2> QED BY <1>2, <1>5, <2>6, FS_CardinalityType
<1> QED BY <1>1, <1>6, <1>7

\* A flood leaves the list of suspects only as its entries leave a full log.
LEMMA FwFloodStep ==
  FwInv /\ [FwRuleNext \/ FwTrafficNext]_fwVars =>
    [\A ip \in FwAddresses :
       FwSuspect(ip) = "SYN_FLOOD" /\ FwSuspect(ip)' # "SYN_FLOOD"
         => Len(fwLog) = MAX_CONNECTION_LOG /\ Head(fwLog).ip = ip]_fwVars
<1> SUFFICES ASSUME FwInv, FwRuleNext \/ FwTrafficNext, NEW ip \in FwAddresses,
                    FwSuspect(ip) = "SYN_FLOOD", ~(Len(fwLog) = MAX_CONNECTION_LOG /\ Head(fwLog).ip = ip)
             PROVE  FwSuspect(ip)' = "SYN_FLOOD"
  OBVIOUS
<1>1. DOMAIN fwLog = 1 .. Len(fwLog) /\ FLOOD_THRESHOLD \in Nat
  BY FwConstants DEF FwInv
<1>2. {i \in DOMAIN fwLog : fwLog[i].ip = ip} = FwOf(fwLog, ip)
  BY <1>1 DEF FwOf
<1>3. Cardinality(FwOf(fwLog, ip)) >= FLOOD_THRESHOLD
  BY <1>2 DEF FwSuspect
<1>4. ASSUME fwLog' = fwLog PROVE FwSuspect(ip)' = "SYN_FLOOD"
  BY <1>2, <1>3, <1>4 DEF FwSuspect
<1>5. ASSUME NEW p \in FwPackets, NEW a \in {"ALLOW", "DENY"}, FwLogConnection(p, a) PROVE FwSuspect(ip)' = "SYN_FLOOD"
  <2>1. PICK e : e = [ip |-> IF p.direction = "IN" THEN p.src ELSE p.dst, port |-> p.dport, action |-> a]
    OBVIOUS
  <2>2. e \in FwEntry
    BY <2>1, FwEntered
  <2>3. fwLog' = FwKept(Append(fwLog, e))
    BY <1>5, <2>1 DEF FwLogConnection
  <2>4. Cardinality(FwOf(fwLog', ip)) >= FLOOD_THRESHOLD
    BY <1>1, <1>3, <2>2, <2>3, FwCountKept
  <2>5. fwLog' \in Seq(FwEntry)
    BY <2>2, <2>3, FwLogged
  <2>6. {i \in DOMAIN fwLog' : fwLog'[i].ip = ip} = FwOf(fwLog', ip)
    BY <2>5 DEF FwOf
  <2> QED BY <2>4, <2>6 DEF FwSuspect
<1>6. FwStart \/ FwStop \/ FwMonitor \/ (\E p \in FwPackets : FwEvaluate(p)) \/ (\E rule \in FwRules : FwAddRule(rule))
        \/ (\E id \in FwIds : FwRemoveRule(id) \/ \E on \in BOOLEAN : FwEnableRule(id, on)) => fwLog' = fwLog
  BY DEF FwStart, FwStop, FwMonitor, FwEvaluate, FwAddRule, FwRemoveRule, FwEnableRule
<1> QED BY <1>4, <1>5, <1>6 DEF FwRuleNext, FwTrafficNext

-----------------------------------------------------------------------------
(* CredentialGuardEngine: risks never fall, and a tool is told at once.    *)

\* Indicators as CrOf() makes them and CrIngest() counts in them.
CrIndicator(ind) ==
  /\ ind = [name |-> ind.name, known |-> ind.known, lsass |-> ind.lsass, token |-> ind.token,
            lateral |-> ind.lateral, sam |-> ind.sam, last |-> ind.last]
  /\ {ind.lsass, ind.token, ind.lateral, ind.sam} \subseteq Nat
  /\ ind.known <=> ind.name \in CrTools

CrInv == crEvents \in Nat /\ \A p \in DOMAIN crInd : CrIndicator(crInd[p])

\* after is before with one more event counted.
CrOneMore(before, after) ==
  /\ CrIndicator(after) /\ after.name = before.name
  /\ before.lsass <= after.lsass /\ before.token <= after.token /\ before.lateral <= after.lateral /\ before.sam <= after.sam

\* Whatever an event is about, one counter of the indicator grows.
LEMMA CrCounted ==
  ASSUME NEW ind, CrIndicator(ind), NEW type \in CrTypes
  PROVE  /\ CrOneMore(ind, CrCount(ind, type))
         /\ LET after == CrCount(ind, type)
            IN  after.lsass + after.token + after.lateral + after.sam = ind.lsass + ind.token + ind.lateral + ind.sam + 1
<1>1. PICK n, k, l, t, a, s, w : ind = [name |-> n, known |-> k, lsass |-> l, token |-> t, lateral |-> a, sam |-> s, last |-> w]
  BY DEF CrIndicator
<1>2. {l, t, a, s} \subseteq Nat /\ (k <=> n \in CrTools)
  BY <1>1 DEF CrIndicator
<1>3. PICK dl, dt, da, ds \in {0, 1} :
        /\ CrCount(ind, type) = [name |-> n, known |-> k, lsass |-> l + dl, token |-> t + dt, lateral |-> a + da, sam |-> s + ds, last |-> crNow]
        /\ dl + dt + da + ds = 1
  <2>1. CrCounter(type) \in {"lsass", "token", "lateral", "sam"}
    BY DEF CrCounter
  <2> DEFINE one(c) == IF CrCounter(type) = c THEN 1 ELSE 0
  <2>2. CrCount(ind, type) = [name |-> n, known |-> k, lsass |-> l + one("lsass"), token |-> t + one("token"),
                              lateral |-> a + one("lateral"), sam |-> s + one("sam"), last |-> crNow]
    BY <1>1 DEF CrCount
  <2>3. /\ {one("lsass"), one("token"), one("lateral"), one("sam")} \subseteq {0, 1}
        /\ one("lsass") + one("token") + one("lateral") + one("sam") = 1
    BY <2>1
  <2> HIDE DEF one
  <2> QED BY <2>2, <2>3
<1> QED BY <1>1, <1>2, <1>3 DEF CrOneMore, CrIndicator

\* More counted is no lower a risk, and one event alone is far from malicious.
LEMMA CrScoreGrows ==
  ASSUME NEW before, NEW after, CrIndicator(before), CrOneMore(before, after) PROVE CrScore(after) >= CrScore(before)
<1>1. (before.known <=> after.known) /\ CrIndicator(after)
  BY DEF CrOneMore, CrIndicator
<1> QED BY <1>1 DEF CrScore, CrOneMore, CrIndicator

\* One event of an unknown process is below the threshold.
LEMMA CrFirstIsLow ==
  ASSUME NEW ind, CrIndicator(ind), ~ind.known, ind.lsass + ind.token + ind.lateral + ind.sam = 1
  PROVE  ~(CrScore(ind) >= RISK_THRESHOLD_MALICIOUS)
  BY DEF CrScore, CrIndicator, RISK_THRESHOLD_MALICIOUS

\* What an event does to the indicator of its process id.
LEMMA CrIngested ==
  ASSUME CrInv, NEW pid, NEW name, NEW type \in CrTypes, CrIngest(pid, name, type)
  PROVE  /\ CrInv'
         /\ \A p \in DOMAIN crInd : p \in DOMAIN crInd' /\ CrScore(crInd'[p]) >= CrScore(crInd[p])
         /\ \A p \in DOMAIN crInd' \ DOMAIN crInd : crInd'[p].name \in CrTools <=> crSaid'.what = "threat"
<1> DEFINE old == CrOf(pid, name)
           ind == CrCount(old, type)
<1>1. CrIndicator(old)
  <2>1. CASE pid \in DOMAIN crInd
    BY <2>1 DEF CrInv, CrOf
  <2>2. CASE pid \notin DOMAIN crInd
    <3>1. PICK k : k = (name \in CrTools)
      OBVIOUS
    <3>2. old = [name |-> name, known |-> k, lsass |-> 0, token |-> 0, lateral |-> 0, sam |-> 0, last |-> crNow]
      BY <2>2, <3>1 DEF CrOf
    <3> HIDE DEF old
    <3>3. /\ old.name = name /\ old.known = k
          /\ old.lsass = 0 /\ old.token = 0 /\ old.lateral = 0 /\ old.sam = 0 /\ old.last = crNow
      BY <3>2
    <3>4. k <=> name \in CrTools
      BY <3>1
    <3> QED BY <3>2, <3>3, <3>4 DEF CrIndicator
  <2> QED BY <2>1, <2>2
<1>2. CrOneMore(old, ind) /\ ind.lsass + ind.token + ind.lateral + ind.sam = old.lsass + old.token + old.lateral + old.sam + 1
  <2> HIDE DEF old
  <2> QED BY <1>1, CrCounted
<1>3. /\ crInd' = [p \in DOMAIN crInd \union {pid} |-> IF p = pid THEN ind ELSE crInd[p]]
      /\ crEvents' = crEvents + 1
      /\ crSaid' = CrSay(pid, name, type, ind)
  BY DEF CrIngest
<1>4. /\ pid \in DOMAIN crInd => old = crInd[pid]
      /\ pid \notin DOMAIN crInd => old.lsass = 0 /\ old.token = 0 /\ old.lateral = 0 /\ old.sam = 0
  BY DEF CrOf
<1> HIDE DEF old, ind
<1>5. CrIndicator(ind) /\ CrScore(ind) >= CrScore(old)
  BY <1>1, <1>2, CrScoreGrows DEF CrOneMore
<1>6. CrInv'
  BY <1>3, <1>5 DEF CrInv
<1>7. \A p \in DOMAIN crInd : CrScore(crInd[p]) >= CrScore(crInd[p])
  BY DEF CrScore
<1>8. \A p \in DOMAIN crInd : p \in DOMAIN crInd' /\ CrScore(crInd'[p]) >= CrScore(crInd[p])
  BY <1>3, <1>4, <1>5, <1>7
<1>9. pid \notin DOMAIN crInd => (ind.name \in CrTools <=> CrSay(pid, name, type, ind).what = "threat")
  <2> SUFFICES ASSUME pid \notin DOMAIN crInd PROVE ind.name \in CrTools <=> CrSay(pid, name, type, ind).what = "threat"
    OBVIOUS
  <2>1. ind.known <=> ind.name \in CrTools
    BY <1>5 DEF CrIndicator
  <2>2. ~ind.known => ~(CrScore(ind) >= RISK_THRESHOLD_MALICIOUS)
    BY <1>2, <1>4, <1>5, CrFirstIsLow
  <2> QED BY <2>1, <2>2 DEF CrSay, CrSilent
<1>10. \A p \in DOMAIN crInd' \ DOMAIN crInd : crInd'[p].name \in CrTools <=> crSaid'.what = "threat"
  BY <1>3, <1>9
<1> QED BY <1>6, <1>8, <1>10

\* Every step is an event, a decay or the clock.
LEMMA CrEvents ==
  ASSUME CrNext PROVE CrDecay \/ CrTick \/ \E pid, name : \E type \in CrTypes : CrIngest(pid, name, type)
<1>1. "LSASS_ACCESS" \in CrTypes
  BY DEF CrTypes
<1> QED BY <1>1 DEF CrNext, CrReportLsass

\* The indicators of CredentialGuardEngine keep their shape, for any events.
THEOREM CredentialInvariant == CrSpec => []CrInv
<1>1. CrInit => CrInv
  BY DEF CrInit, CrInv
<1>2. CrInv /\ [CrNext]_crVars => CrInv'
  <2> SUFFICES ASSUME CrInv, [CrNext]_crVars PROVE CrInv'
    OBVIOUS
  <2>1. CASE CrDecay
    BY <2>1 DEF CrDecay, CrInv
  <2>2. CASE CrTick
    BY <2>2 DEF CrTick, CrInv
  <2>3. CASE UNCHANGED crVars
    BY <2>3 DEF crVars, CrInv
  <2> QED BY <2>1, <2>2, <2>3, CrIngested, CrEvents
<1> QED BY <1>1, <1>2, PTL DEF CrSpec

\* The two promises of the engine, for every step.
LEMMA CrRiskStep ==
  CrInv /\ [CrNext]_crVars =>
    [\A p \in DOMAIN crInd :
       IF p \in DOMAIN crInd' THEN CrScore(crInd'[p]) >= CrScore(crInd[p])
       ELSE CrScore(crInd[p]) < RISK_THRESHOLD_SUSPICIOUS]_crVars
<1> SUFFICES ASSUME CrInv, CrNext, NEW p \in DOMAIN crInd
             PROVE  IF p \in DOMAIN crInd' THEN CrScore(crInd'[p]) >= CrScore(crInd[p])
                    ELSE CrScore(crInd[p]) < RISK_THRESHOLD_SUSPICIOUS
  OBVIOUS
<1>1. CrScore(crInd[p]) >= CrScore(crInd[p])
  BY DEF CrScore
<1>2. CASE CrDecay
  <2>1. p \in DOMAIN crInd' => crInd'[p] = crInd[p]
    BY <1>2 DEF CrDecay
  <2>2. p \notin DOMAIN crInd' => CrForgets(crInd[p])
    BY <1>2 DEF CrDecay
  <2> QED BY <1>1, <2>1, <2>2 DEF CrForgets
<1>3. CASE CrTick
  BY <1>1, <1>3 DEF CrTick
<1> QED BY <1>2, <1>3, CrIngested, CrEvents

\* The first event of a known tool is reported as a threat, and only of one.
LEMMA CrToolStep ==
  CrInv /\ [CrNext]_crVars =>
    [crEvents' # crEvents =>
       \A p \in DOMAIN crInd' \ DOMAIN crInd : crInd'[p].name \in CrTools <=> crSaid'.what = "threat"]_crVars
<1> SUFFICES ASSUME CrInv, CrNext, crEvents' # crEvents
             PROVE  \A p \in DOMAIN crInd' \ DOMAIN crInd : crInd'[p].name \in CrTools <=> crSaid'.what = "threat"
  OBVIOUS
<1>1. ~(CrDecay \/ CrTick)
  BY DEF CrDecay, CrTick
<1> QED BY <1>1, CrIngested, CrEvents

-----------------------------------------------------------------------------
(* What the engines promise together. *)

\* The level shown covers every recent event, a silent alert had a sound just
\* before it, an alert nobody has seen is kept, an indicator that was added is
\* found and a database has one entry: for any limits of the logs, any number of
\* threads and any indicators.
THEOREM LogsAreComplete == TlSpec /\ AlSpec /\ TiSpec /\ UpSpec => []LogsComplete
<1>1. TlInv /\ AlSounds /\ AlRecords /\ TiInv /\ UpInv => LogsComplete
  BY TlLevelTold, TlRecentTold, AlTold, TiFound, UpOne DEF LogsComplete
<1> QED BY <1>1, LogInvariant, AlertInvariant, IndicatorInvariant, UpdateInvariant, PTL

\* Changes of the guarded memory, registry values, modules and drives are told,
\* and what was told was there: for any memory, registry, modules and drives.
THEOREM TamperIsTold == PmSpec /\ AmSpec /\ SdSpec /\ RmSpec /\ DvSpec => []TamperTold
<1>1. PmInv /\ AmFlags /\ AmEarned /\ SdGuarded /\ SdLearned /\ RmInv /\ DvInv => TamperTold
  BY PmTamperTold, AmsiTold, SdTamperTold, RmTamperTold, DvTold DEF TamperTold
<1> QED BY <1>1, RingInvariant, AmsiInvariant, SelfDefenseInvariant, RegistryInvariant, DriveInvariant, PTL

\* A pruned table of sources counts like one that is not, floods are blocked and
\* the oldest of the rules of the best priority decides: for any traffic and any
\* rules.
THEOREM TrafficIsJudged == EtSpec /\ FwSpec => []TrafficJudged
<1>1. EtInv /\ FwInv => TrafficJudged
  BY EtJudged, FwDecided DEF TrafficJudged
<1> QED BY <1>1, TrafficInvariant, FirewallInvariant, PTL

\* No step lowers the risk of a process, misses a tool's first access, drops a
\* flood, notes a checksum that was not verified or acts against the device
\* lists.
THEOREM VerdictsDoStand == CrSpec /\ FwSpec /\ UpSpec /\ DvSpec => VerdictsStand
<1>1. CrSpec => CrRiskNeverFalls
  BY CredentialInvariant, CrRiskStep, PTL DEF CrSpec, CrRiskNeverFalls
<1>2. CrSpec => CrToolReported
  BY CredentialInvariant, CrToolStep, PTL DEF CrSpec, CrToolReported
<1>3. FwSpec => FwFloodStays
  BY FirewallInvariant, FwFloodStep, PTL DEF FwSpec, FwFloodStays
<1>4. UpSpec => UpVerifiedIsNoted
  BY UpdateInvariant, UpVerifiedStep, PTL DEF UpSpec, UpVerifiedIsNoted
<1>5. DvSpec => DvListsDecide
  BY DriveInvariant, DvListsStep, PTL DEF DvSpec, DvListsDecide
<1> QED BY <1>1, <1>2, <1>3, <1>4, <1>5, PTL DEF VerdictsStand
=============================================================================

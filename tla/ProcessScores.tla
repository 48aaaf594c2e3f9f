--------------------------- MODULE ProcessScores ----------------------------
EXTENDS Integers, SequencesExt, FiniteSets

(***************************************************************************)
(* BehaviorScorer: twelve features of a process, clamped and weighted, and *)
(* a level by thresholds on their sigmoid.  Features are in tenths after   *)
(* normalisation, weights in tenths, the logit in hundredths; the sigmoid  *)
(* being monotone, its thresholds are thresholds of the logit.          *)
(***************************************************************************)

CONSTANTS BsRaw,       \* raw values of a feature, in tenths of the value that is clamped to one
          BsActive,    \* features that are not zero in the scripts tried
          MAX_SCORES, BsMaxId

ASSUME BsConstants == {MAX_SCORES, BsMaxId} \subseteq Nat \ {0} /\ BsActive \subseteq 1..12

VARIABLES bsLog, bsNext, bsModel   \* score_log_, next_id_, name of model_

bsVars == <<bsLog, bsNext, bsModel>>

\* default_model() (and a stricter one that a caller may set).
BsWeights == <<8, 25, 12, 9, 15, 10, 6, 30, 35, 28, 20, 25>>
BsBias(model) == IF model = "default" THEN -200 ELSE -100

\* normalize(): every feature into 0..1.
BsNormalize(raw) == [i \in DOMAIN raw |-> IF raw[i] > 10 THEN 10 ELSE IF raw[i] < 0 THEN 0 ELSE raw[i]]

BsLogit(f, model) == FoldFunction(+, BsBias(model), [i \in 1..12 |-> f[i] * BsWeights[i]])

\* classify(): a risk of 0.75 is a logit of 1.0986, 0.40 one of -0.4055 and
\* 0.20 one of -1.3863.
BsLevel(logit) ==
  IF logit >= 110 THEN 3 ELSE IF logit >= -40 THEN 2 ELSE IF logit >= -138 THEN 1 ELSE 0

BsScore(raw, model) == BsLevel(BsLogit(BsNormalize(raw), model))

\* Factors that explain() names: those of more than 0.01, the five largest.
BsNamed(f) ==
  LET weight(i) == f[i] * BsWeights[i]
      some == {i \in 1..12 : weight(i) > 1}
  IN  {i \in some : Cardinality({j \in some : weight(j) > weight(i)}) < 5}

BsInit == bsLog = <<>> /\ bsNext = 1 /\ bsModel = "default"

BsKept(log) == IF Len(log) > MAX_SCORES THEN Tail(log) ELSE log

\* score(): a level of HIGH is passed on as a threat too, of MEDIUM or more as
\* an observation.
BsScoreProcess(raw) ==
  LET level == BsScore(raw, bsModel)
  IN  /\ bsNext <= BsMaxId
      /\ bsLog' = BsKept(Append(bsLog, [id |-> bsNext, raw |-> raw, model |-> bsModel, level |-> level,
                                        named |-> BsNamed(BsNormalize(raw)),
                                        threat |-> level >= 3, observation |-> level >= 2]))
      /\ bsNext' = bsNext + 1
      /\ UNCHANGED bsModel

BsSetModel(m) == bsModel' = m /\ UNCHANGED <<bsLog, bsNext>>

BsRaws ==
  {[i \in 1..12 |-> IF i = a THEN x ELSE IF i = b THEN y ELSE 0] : a, b \in BsActive, x, y \in BsRaw}
    \union {[i \in 1..12 |-> x] : x \in BsRaw}

BsStep == (\E raw \in BsRaws : BsScoreProcess(raw)) \/ \E m \in {"default", "strict"} : BsSetModel(m)

\* Of two processes scored by one model, the one whose features are nowhere
\* lower has no lower level, at the clamp's edges too.
BsMonotone ==
  \A i, j \in DOMAIN bsLog :
    bsLog[i].model = bsLog[j].model /\ (\A k \in 1..12 : bsLog[i].raw[k] <= bsLog[j].raw[k])
      => bsLog[i].level <= bsLog[j].level

\* Under the default model one feature alone makes a threat only if it is the
\* injection indicator: any other threat is explained by two factors or more.
BsThreatExplained ==
  \A i \in DOMAIN bsLog :
    bsLog[i].threat /\ bsLog[i].model = "default" => 9 \in bsLog[i].named \/ Cardinality(bsLog[i].named) >= 2

-----------------------------------------------------------------------------
(***************************************************************************)
(* CredentialGuardEngine: one indicator per process id counts what the     *)
(* process did to credentials and scores it; old indicators of low risk    *)
(* are dropped.  Risks are in hundredths.                                  *)
(***************************************************************************)

CONSTANTS CrPids, CrTools,   \* names of known_dump_tools; the others are harmless
          CrNames,
          CrMaxEvents, CrMaxTime  \* bounds on the events and on the clock (half hours)

ASSUME CrConstants == CrTools \subseteq CrNames /\ {CrMaxEvents, CrMaxTime} \subseteq Nat

RISK_THRESHOLD_SUSPICIOUS == 35
RISK_THRESHOLD_MALICIOUS  == 70

CrTypes == {"LSASS_ACCESS", "TOKEN_IMPERSONATE", "TOKEN_DUPLICATE", "PASS_THE_HASH", "PASS_THE_TICKET",
            "SAM_DUMP", "DCSYNC", "KERBEROASTING", "GOLDEN_TICKET", "SILVER_TICKET"}

VARIABLES crInd,    \* indicators_
          crEvents, \* events so far
          crNow,
          crSaid    \* what the last ingest() passed on, and for whom

crVars == <<crInd, crEvents, crNow, crSaid>>

CrSilent == [pid |-> 0, by |-> "nobody", what |-> "nothing", level |-> "NONE", category |-> "NONE"]

CrInit == crInd = <<>> /\ crEvents = 0 /\ crNow = 0 /\ crSaid = CrSilent

\* The flag bits read, write and operation of the mask make it suspicious
\* (MASK_ALL_ACCESS has them all).
CrMasks == {"query", "read", "write", "operation", "all"}
CrSuspicious(mask) == mask # "query"

CrLevel(type) ==
  IF type \in {"GOLDEN_TICKET", "DCSYNC", "PASS_THE_HASH", "PASS_THE_TICKET"} THEN "CRITICAL" ELSE "HIGH"

CrCategory(type) ==
  IF type \in {"LSASS_ACCESS", "SAM_DUMP", "DCSYNC"} THEN "CREDENTIAL_DUMP"
  ELSE IF type \in {"TOKEN_IMPERSONATE", "TOKEN_DUPLICATE"} THEN "NTLM_COERCE" ELSE "KERBEROS_ATTACK"

CrCounter(type) ==
  IF type = "LSASS_ACCESS" THEN "lsass" ELSE IF type = "SAM_DUMP" THEN "sam"
  ELSE IF CrCategory(type) = "NTLM_COERCE" THEN "token" ELSE "lateral"

CrScore(ind) ==
  LET sum == (IF ind.known THEN 50 ELSE 0)
               + (IF ind.lsass >= 3 THEN 25 ELSE IF ind.lsass >= 1 THEN 15 ELSE 0)
               + (IF ind.token >= 3 THEN 20 ELSE IF ind.token >= 1 THEN 10 ELSE 0)
               + (IF ind.lateral >= 1 THEN 25 ELSE 0) + (IF ind.sam >= 1 THEN 20 ELSE 0)
  IN  IF sum > 100 THEN 100 ELSE sum

\* The indicator of a process id keeps the name, and the verdict on it, of
\* the first process seen under that id.
CrOf(pid, name) ==
  IF pid \in DOMAIN crInd THEN crInd[pid]
  ELSE [name |-> name, known |-> name \in CrTools, lsass |-> 0, token |-> 0, lateral |-> 0, sam |-> 0,
        last |-> crNow]

CrCount(ind, type) ==
  LET one(counter) == IF CrCounter(type) = counter THEN 1 ELSE 0
  IN  [name |-> ind.name, known |-> ind.known, lsass |-> ind.lsass + one("lsass"), token |-> ind.token + one("token"),
       lateral |-> ind.lateral + one("lateral"), sam |-> ind.sam + one("sam"), last |-> crNow]

\* What ingest() passes on: a threat, an observation or nothing.
CrSay(pid, name, type, ind) ==
  IF CrScore(ind) >= RISK_THRESHOLD_MALICIOUS \/ ind.known
  THEN [pid |-> pid, by |-> name, what |-> "threat", level |-> CrLevel(type), category |-> CrCategory(type)]
  ELSE IF CrScore(ind) >= RISK_THRESHOLD_SUSPICIOUS
       THEN [pid |-> pid, by |-> name, what |-> "observation", level |-> "MEDIUM", category |-> "NONE"]
       ELSE CrSilent

CrIngest(pid, name, type) ==
  LET ind == CrCount(CrOf(pid, name), type)
  IN  /\ crEvents < CrMaxEvents
      /\ crInd' = [p \in DOMAIN crInd \union {pid} |-> IF p = pid THEN ind ELSE crInd[p]]
      /\ crEvents' = crEvents + 1
      /\ crSaid' = CrSay(pid, name, type, ind)
      /\ UNCHANGED crNow

CrReportLsass(pid, name, mask) == CrSuspicious(mask) /\ CrIngest(pid, name, "LSASS_ACCESS")

\* decay_indicators(): not seen for more than 30 minutes and of low risk.
CrForgets(ind) == crNow - ind.last > 1 /\ CrScore(ind) < RISK_THRESHOLD_SUSPICIOUS

CrDecay ==
  /\ crInd' = [p \in {q \in DOMAIN crInd : ~CrForgets(crInd[q])} |-> crInd[p]]
  /\ UNCHANGED <<crEvents, crNow, crSaid>>

CrTick == crNow < CrMaxTime /\ crNow' = crNow + 1 /\ UNCHANGED <<crInd, crEvents, crSaid>>

CrNext ==
  \/ CrDecay \/ CrTick
  \/ \E pid \in CrPids, name \in CrNames :
       \/ \E type \in CrTypes \ {"LSASS_ACCESS"} : CrIngest(pid, name, type)
       \/ \E mask \in CrMasks : CrReportLsass(pid, name, mask)

CrSpec == CrInit /\ [][CrNext]_crVars

\* The risk of a process id never falls: an indicator is only ever replaced
\* by one of at least its risk, or dropped when the risk was low.  A process
\* id that reached the suspicious risk is kept for ever, so a later process
\* that is given the id inherits it.
CrRiskNeverFalls ==
  [][\A p \in DOMAIN crInd :
       IF p \in DOMAIN crInd' THEN CrScore(crInd'[p]) >= CrScore(crInd[p])
       ELSE CrScore(crInd[p]) < RISK_THRESHOLD_SUSPICIOUS]_crVars

\* A tool is reported at its first access, whatever that is, unless its
\* process id was used before by another program that is still remembered.
CrToolReported ==
  [][crEvents' # crEvents =>
       \A p \in DOMAIN crInd' \ DOMAIN crInd :
         crInd'[p].name \in CrTools <=> crSaid'.what = "threat"]_crVars
=============================================================================

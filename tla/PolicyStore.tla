---------------------------- MODULE PolicyStore ----------------------------
(***************************************************************************)
(* PolicyStore: the local policy in a text file of key=value lines.  save()*)
(* truncates the file and writes it again; a crash leaves a part of it,    *)
(* cut at any byte.  A line is a record: its key and its value, a number   *)
(* or a path.  A path is the sequence of its parts; cutting a number's     *)
(* line loses its last digits, cutting a path's line its last part.        *)
(***************************************************************************)
EXTENDS Integers, SequencesExt

CONSTANTS PsPolicies,         \* policies that are saved
          PsDefault,          \* LocalSecurityPolicy{}
          PsForeign,          \* lines that someone else put into the file
          MAX_FINDING_WINDOW_MINUTES

ASSUME PsConstants ==
  /\ PsPolicies \union {PsDefault} \subseteq [threshold : Nat, window : Nat, prefixes : Seq(Seq(STRING))]
  /\ PsForeign \subseteq [key : STRING, num : Int, path : Seq(STRING)]
  /\ PsDefault.prefixes # <<>> /\ <<>> \notin ToSet(PsDefault.prefixes)
  /\ MAX_FINDING_WINDOW_MINUTES \in Nat

VARIABLES psFile,             \* lines of the file
          psSaving,           \* lines that save() still has to write
          psSaved,            \* history: the policy save() was last called with
          psWhole,            \* history: the file is as the last save() wrote it
          psLoaded            \* the policy the program has loaded

psVars == <<psFile, psSaving, psSaved, psWhole, psLoaded>>

PsInit ==
  /\ psFile = <<>> /\ psSaving = <<>> /\ psSaved = PsDefault /\ psWhole = FALSE /\ psLoaded = [PsDefault EXCEPT !.prefixes = ToSet(@)]

PsNumber(key, n) == [key |-> key, num |-> n, path |-> <<>>]
PsPath(path) == [key |-> "protected_path_prefix", num |-> 0, path |-> path]
\* A line without "=", or with a number that does not parse (num = -1).
PsCorrupt == PsNumber("", -1)

PsLines(policy) ==
  <<PsNumber("critical_threshold", policy.threshold), PsNumber("finding_window_minutes", policy.window)>>
    \o [i \in DOMAIN policy.prefixes |-> PsPath(policy.prefixes[i])]

\* save(): the file is truncated, ...
PsSave(policy) ==
  /\ psSaving = <<>> /\ psFile' = <<>> /\ psSaving' = PsLines(policy)
  /\ psSaved' = policy /\ psWhole' = FALSE
  /\ UNCHANGED psLoaded

\* ... and written line by line.
PsWrite ==
  /\ psSaving # <<>>
  /\ psFile' = Append(psFile, Head(psSaving)) /\ psSaving' = Tail(psSaving)
  /\ psWhole' = (Len(psSaving) = 1)
  /\ UNCHANGED <<psSaved, psLoaded>>

\* What remains of a line that is cut: a corrupt one, a shorter number, an
\* initial part of the path.
PsCuts(line) ==
  {PsCorrupt}
    \union (IF line.key = "protected_path_prefix" THEN {PsPath(SubSeq(line.path, 1, n)) : n \in 0 .. Len(line.path)}
            ELSE {[line EXCEPT !.num = @ \div d] : d \in {t \in {1, 10, 100, 1000} : t <= line.num}})

\* The process dies, or the disk is full: the rest is not written.
PsCrash ==
  /\ psSaving # <<>>
  /\ \E part \in {<<>>} \union {<<l>> : l \in PsCuts(Head(psSaving))} : psFile' = psFile \o part
  /\ psSaving' = <<>>
  /\ UNCHANGED <<psSaved, psWhole, psLoaded>>

\* The file is edited by hand.
PsEdit ==
  /\ psSaving = <<>> /\ psWhole
  /\ \E line \in PsForeign : psFile' = Append(psFile, line)
  /\ psWhole' = FALSE
  /\ UNCHANGED <<psSaving, psSaved, psLoaded>>

\* Of a number the last value in range counts.
PsNumberOf(lines, key, hi, default) ==
  LET last == SelectLastInSeq(lines, LAMBDA l : l.key = key /\ l.num \in (IF key = "critical_threshold" THEN 0 ELSE 1) .. hi)
  IN  IF last = 0 THEN default ELSE lines[last].num

\* Fault: a line with an empty prefix counts as one seen.
PsPrefixesSeen(lines) ==
  LET paths == {l.path : l \in {k \in ToSet(lines) : k.key = "protected_path_prefix"}}
  IN  IF paths = {} THEN ToSet(PsDefault.prefixes) ELSE paths \ {<<>>}

\* The prefixes that are not empty, the default ones if there are none, as a
\* set: a path is protected if it starts with any of them.
PsPrefixes(lines) ==
  LET paths == {l.path : l \in {k \in ToSet(lines) : k.key = "protected_path_prefix" /\ k.path # <<>>}}
  IN  IF paths = {} THEN ToSet(PsDefault.prefixes) ELSE paths

\* load() of the lines of the file.
PsLoad(lines) ==
  [threshold |-> PsNumberOf(lines, "critical_threshold", 100, PsDefault.threshold),
   window |-> PsNumberOf(lines, "finding_window_minutes", MAX_FINDING_WINDOW_MINUTES, PsDefault.window),
   prefixes |-> PsPrefixes(lines)]

\* EngineManager loads the file when the program starts.
PsStart ==
  /\ psSaving = <<>> /\ psLoaded' = PsLoad(psFile)
  /\ UNCHANGED <<psFile, psSaving, psSaved, psWhole>>

PsNext == (\E policy \in PsPolicies : PsSave(policy)) \/ PsWrite \/ PsCrash \/ PsEdit \/ PsStart

PsSpec == PsInit /\ [][PsNext]_psVars

\* A policy that was saved whole is loaded again as it was, but for a list
\* without a prefix, a threshold that is none and a window longer than a day.
PsRoundTrip ==
  LET named == ToSet(psSaved.prefixes) \ {<<>>}
  IN  psWhole =>
        /\ psSaved.threshold \in 0 .. 100 => PsLoad(psFile).threshold = psSaved.threshold
        /\ psSaved.window \in 1 .. MAX_FINDING_WINDOW_MINUTES => PsLoad(psFile).window = psSaved.window
        /\ named # {} => PsLoad(psFile).prefixes = named

\* However a save() was cut short and the file edited, the loaded policy
\* protects some path: what a test of the empty list cannot show.
PsStillProtects == psLoaded.prefixes # {} /\ <<>> \notin psLoaded.prefixes

\* A policy that was saved is loaded again, and no file, torn or edited, makes
\* a policy that protects nothing.
PolicySurvives == PsRoundTrip /\ PsStillProtects
=============================================================================

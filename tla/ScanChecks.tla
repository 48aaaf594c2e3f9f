----------------------------- MODULE ScanChecks -----------------------------
(***************************************************************************)
(* The checks of DeepScanner, SignatureDB and HeuristicEngine on the bytes *)
(* of one file.  A byte is a no-operation "N", a control transfer "J", a   *)
(* zero "0" or a letter "a"; positions count from 0 as in the code.        *)
(***************************************************************************)
EXTENDS Integers, SequencesExt, FiniteSets

CONSTANTS ScBytes, ScMaxLen,  \* the inputs tried
          ScSled, ScTail,     \* 32 and 4 in the code
          ScRun,              \* length of a readable string (4 in the code)
          ScSigs              \* signatures in the database: [pattern, offset]; offset -1 is anywhere

ASSUME ScConstants == {ScMaxLen, ScSled, ScTail, ScRun} \subseteq Nat

VARIABLE sc   \* the question asked

ScAt(data, i) == data[i + 1]
ScHas(data, i, pattern) == \A j \in 0 .. Len(pattern) - 1 : ScAt(data, i + j) = ScAt(pattern, j)

\* Where scan() tries a signature (none of the program's has a mask).
ScPlaces(sig, n) ==
  IF sig.pattern = <<>> \/ Len(sig.pattern) > n THEN {}
  ELSE IF sig.offset >= 0 THEN {o \in {sig.offset} : o + Len(sig.pattern) <= n}
  ELSE 0 .. n - Len(sig.pattern)

ScHits(sig, data) == {i \in ScPlaces(sig, Len(data)) : ScHas(data, i, sig.pattern)}

\* scan(): the first signature in the order of the database that is found.
ScScan(data) ==
  LET found == {k \in DOMAIN ScSigs : ScHits(ScSigs[k], data) # {}}
  IN  IF found = {} THEN 0 ELSE CHOOSE k \in found : \A l \in found : k <= l

\* scan_all(): the loop over the places from start to end, which ends where
\* the data do, for every signature.
ScScanAll(data) ==
  LET n == Len(data)
      finds(sig) ==
        LET start == IF sig.offset >= 0 THEN sig.offset ELSE 0
            end   == IF sig.offset >= 0 THEN start + 1 ELSE n - Len(sig.pattern) + 1
            loop[i \in Nat] ==
              i < end /\ i + Len(sig.pattern) <= n /\ (ScHas(data, i, sig.pattern) \/ loop[i + 1])
        IN  sig.pattern # <<>> /\ Len(sig.pattern) <= n /\ loop[start]
  IN  {k \in DOMAIN ScSigs : finds(ScSigs[k])}

ScSledEnd(data, from) ==
  LET end[i \in Nat] == IF i < Len(data) /\ ScAt(data, i) = "N" THEN end[i + 1] ELSE i IN end[from]

\* check_shellcode_patterns(): a sled and, behind it, a control transfer; the
\* search goes on behind the sled.
ScShellcode(data) ==
  LET n == Len(data)
      sled(i) == \A j \in 0 .. ScSled - 1 : ScAt(data, i + j) = "N"
      loop[i \in Nat] ==
        IF i + ScSled > n THEN FALSE
        ELSE IF ~sled(i) THEN loop[i + 1]
        ELSE LET e == ScSledEnd(data, i + ScSled)
             IN  (e + ScTail < n /\ ScAt(data, e) = "J") \/ loop[e + 1]
  IN  loop[0]

ScPrintable(b) == b \in {"a"}

\* check_obfuscated_strings(), on data long enough: there are runs of
\* printable bytes, but none of the length of a string.
ScObfuscated(data) ==
  LET end == FoldLeft(LAMBDA a, b : IF ScPrintable(b) THEN [a EXCEPT !.run = @ + 1]
                                    ELSE [run |-> 0, readable |-> IF a.run >= ScRun THEN a.readable + 1 ELSE a.readable,
                                          total |-> IF a.run > 0 THEN a.total + 1 ELSE a.total],
                      [run |-> 0, readable |-> 0, total |-> 0], data)
  IN  end.total > 0 /\ end.readable = 0

\* analyze_binary() and its use in check_pe_header(): only a heuristic of a
\* confidence above 0.7 counts, which the code cave (0.5), the strings (0.6)
\* and few imports or few debugger checks do not reach.
ScHeuristic(h) ==
  \/ h.packed \/ h.imports * 10 > 7 * 8 \/ h.debug * 10 > 7 * 6 \/ h.triad

\* scan_file(): the checks in their order; the first that fires decides.
ScVerdict(f) ==
  IF "signature" \in f.fires THEN "signature"
  ELSE IF f.ext \in {"lnk", "script"} /\ f.ext \in f.fires THEN f.ext
  ELSE IF "shellcode" \in f.fires THEN "shellcode" ELSE IF "pe" \in f.fires THEN "pe"
  ELSE IF "elf" \in f.fires THEN "elf" ELSE IF "entropy" \in f.fires THEN "entropy" ELSE "clean"

\* Executables of a quick or custom scan are shown to the trust engine too.
ScTrusted(f) == f.mode \in {"QUICK", "CUSTOM"} /\ f.ext = "exe"

ScInit == sc = [ask |-> "idle"]
ScAskBytes(data) == sc.ask = "idle" /\ sc' = [ask |-> "bytes", data |-> data]
ScAskFile(f) ==
  sc.ask = "idle" /\ sc' = [ask |-> "file", f |-> f, verdict |-> ScVerdict(f), trust |-> ScTrusted(f)]
ScAskPe(h) == sc.ask = "idle" /\ sc' = [ask |-> "pe", h |-> h, hit |-> ScHeuristic(h)]

ScStep ==
  \/ \E n \in 0..ScMaxLen : \E data \in [1..n -> ScBytes] : ScAskBytes(data)
  \/ \E f \in [fires : SUBSET {"signature", "lnk", "script", "shellcode", "pe", "elf", "entropy"},
               ext : {"lnk", "script", "exe", "other"}, mode : {"QUICK", "DEEP"}] : ScAskFile(f)
  \/ \E h \in [packed : BOOLEAN, imports : 0..8, debug : 0..6, triad : BOOLEAN] : ScAskPe(h)

\* scan(), which stops at the first signature, and scan_all(), a different
\* loop, agree on what is in the data.
ScScansAgree ==
  sc.ask = "bytes" =>
    IF ScScan(sc.data) = 0 THEN ScScanAll(sc.data) = {}
    ELSE ScScan(sc.data) \in ScScanAll(sc.data) /\ \A k \in ScScanAll(sc.data) : ScScan(sc.data) <= k

\* The search that jumps over every sled it meets misses none: it answers yes
\* exactly if some control transfer, far enough from the end, follows enough
\* no-operations.
ScShellcodeExact ==
  sc.ask = "bytes" =>
    (ScShellcode(sc.data) <=>
       \E p \in ScSled .. Len(sc.data) - 1 - ScTail :
         ScAt(sc.data, p) = "J" /\ \A j \in 1..ScSled : ScAt(sc.data, p - j) = "N")

\* Data with a readable string are never called obfuscated, unless the string
\* is at the very end, which the loop does not close.
ScReadableIsClear ==
  sc.ask = "bytes" =>
    ((\E i \in 1 .. Len(sc.data) - ScRun :
        (\A j \in i .. i + ScRun - 1 : ScPrintable(sc.data[j])) /\ \E k \in i + ScRun .. Len(sc.data) : ~ScPrintable(sc.data[k]))
       => ~ScObfuscated(sc.data))

\* A file that any check which applies to it would report is reported, by
\* whatever order and early exits the checks are tried in.
ScNothingShadowed ==
  sc.ask = "file" =>
    (sc.verdict # "clean" <=>
       sc.f.fires \ ({"lnk", "script"} \ {sc.f.ext}) # {})
=============================================================================

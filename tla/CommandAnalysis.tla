-------------------------- MODULE CommandAnalysis ---------------------------
EXTENDS Naturals, SequencesExt, FiniteSets

(***************************************************************************)
(* LolbinsEngine: command lines are normalised, judged by the binary that  *)
(* runs them, and PowerShell payloads are decoded first.  A normalised     *)
(* command line is the set of the patterns found in it; characters matter  *)
(* only to normalize_command_line() and decode_base64(), which work on     *)
(* sequences over a small alphabet and on small bytes.                     *)
(***************************************************************************)

CONSTANTS LolMaxChars, LolMaxBytes,  \* bounds on the raw command lines and the payloads tried
          LolMaxText,                \* bound on the words of a shortcut
          LolWindow,                 \* words of a shortcut that are judged from a mention on (512 characters)
          LolBytes                   \* the byte values tried

ASSUME LolConstants ==
  {LolMaxChars, LolMaxBytes, LolMaxText, LolWindow} \subseteq Nat /\ LolBytes \subseteq 0..255

VARIABLE lol     \* the question asked last and its answer

\* The patterns that matter to each binary.
LolPatterns ==
  [certutil   |-> {"urlcache", "decode"},
   mshta      |-> {"javascript:", "http"},
   regsvr32   |-> {"/i:http", "scrobj.dll", "/s"},
   rundll32   |-> {"javascript:", "control_rundll", "temp"},
   wmic       |-> {"process call create", "/node:"},
   bitsadmin  |-> {"/transfer", "/create", "http"},
   powershell |-> {"download", "iex"},
   cmd        |-> {}]

LolNone == [malicious |-> FALSE, severity |-> 0]
LolBad(level) == [malicious |-> TRUE, severity |-> level]

\* evaluate_command_line(): payload is the set of patterns in a decoded
\* -EncodedCommand, {"none"} when there is none.  With a payload only the
\* payload is judged.
LolJudge(bin, cmd, payload) ==
  LET any(ps) == cmd \intersect ps # {}
  IN  CASE bin = "certutil"  /\ any({"urlcache", "decode"}) -> LolBad(3)
        [] bin = "mshta"     /\ any({"javascript:", "http"}) -> LolBad(4)
        [] bin = "regsvr32"  /\ any({"/i:http", "scrobj.dll"}) /\ any({"/s"}) -> LolBad(4)
        [] bin = "rundll32"  /\ any({"javascript:", "control_rundll", "temp"}) -> LolBad(3)
        [] bin = "wmic"      /\ any({"process call create", "/node:"}) -> LolBad(3)
        [] bin = "bitsadmin" /\ any({"/transfer", "/create"}) /\ any({"http"}) -> LolBad(3)
        [] bin = "powershell" /\ payload # {"none"} /\ payload \intersect {"iex", "download", "start-process"} # {} -> LolBad(4)
        [] bin = "powershell" /\ payload = {"none"} /\ any({"download"}) /\ any({"iex"}) -> LolBad(4)
        [] OTHER -> LolNone

\* The words of a shortcut that are judged for bin: from its first mention on,
\* as far as the window goes.
LolAfter(text, bin) ==
  LET first == SelectInSeq(text, LAMBDA w : w = bin)
  IN  {text[k] : k \in {j \in DOMAIN text : first <= j /\ j < first + LolWindow}}

\* The payloads that the words of a shortcut may carry in an -EncodedCommand.
LolEncoded == [x \in {"-enc iex", "-enc harmless"} |-> IF x = "-enc iex" THEN {"iex"} ELSE {}]

\* evaluate_command_line() on the words: the payload is the one among them.
LolJudgeWords(bin, words) ==
  LET codes == words \intersect DOMAIN LolEncoded
  IN  LolJudge(bin, words, IF codes = {} THEN {"none"} ELSE UNION {LolEncoded[x] : x \in codes})

\* The binaries that inspect_lnk_file() looks for, in its order.
LolLooksFor == <<"powershell", "cmd", "mshta", "certutil", "cscript", "wscript">>

\* A shortcut is read if it opens and has the size of one.
LolReads(file) == file.opens /\ file.size >= 76 /\ file.size <= 10 * 1024 * 1024

\* inspect_lnk_file(): the binaries that are looked for, each judged by the
\* words from its first mention on; the first malicious one counts.
LolLnk(file, text) ==
  LET bad == SelectSeq(LolLooksFor, LAMBDA b : b \in Range(text) /\ LolJudgeWords(b, LolAfter(text, b)).malicious)
  IN  IF ~LolReads(file) \/ bad = <<>> THEN LolNone ELSE LolJudgeWords(bad[1], LolAfter(text, bad[1]))

LolAlnum(c) == c = "a"

\* normalize_command_line(), first loop: carets go, and quotes whose raw
\* neighbours are both letters or digits.
LolStrip(raw) ==
  LET kept == SelectSeq([i \in DOMAIN raw |-> i], LAMBDA i :
                /\ raw[i] # "^"
                /\ ~(raw[i] = "q" /\ i > 1 /\ i < Len(raw) /\ LolAlnum(raw[i - 1]) /\ LolAlnum(raw[i + 1])))
  IN  [i \in DOMAIN kept |-> raw[kept[i]]]

\* ... second loop: a run of white space becomes one space.
LolCollapse(s) ==
  LET kept == SelectSeq([i \in DOMAIN s |-> i], LAMBDA i : s[i] # " " \/ i = 1 \/ s[i - 1] # " ")
  IN  [i \in DOMAIN kept |-> s[kept[i]]]

LolNormalize(raw) == LolCollapse(LolStrip(raw))

\* The sextets of a base64 text (reference: the encoding of RFC 4648), with
\* the padding, and a line break behind each sextet if it is broken into lines.
LolPad == 64
LolBreak == 65

LolEncode(bytes, lines) ==
  LET bit(k)  == (bytes[(k \div 8) + 1] \div 2^(7 - (k % 8))) % 2
      bits    == 8 * Len(bytes)
      at(k)   == IF k < bits THEN bit(k) ELSE 0
      digit(j) == LET k == 6 * (j - 1)
                  IN  32 * at(k) + 16 * at(k + 1) + 8 * at(k + 2) + 4 * at(k + 3) + 2 * at(k + 4) + at(k + 5)
      padded == [j \in 1 .. 4 * ((Len(bytes) + 2) \div 3) |-> IF j <= (bits + 5) \div 6 THEN digit(j) ELSE LolPad]
  IN  IF lines THEN FlattenSeq([j \in DOMAIN padded |-> <<padded[j], LolBreak>>]) ELSE padded

\* decode_base64(): bits counts from -8 (kept as bits + 8); of the 32 bits of
\* val only the last 14 are ever read, and they are kept.  What is no sextet
\* is passed over.
LolDecodeStep(d, acc) ==
  LET val  == (acc.val * 64 + d) % 2^14
      bits == acc.bits + 6
  IN  IF d > 63 THEN acc
      ELSE IF bits >= 8 THEN [val |-> val, bits |-> bits - 8, out |-> Append(acc.out, (val \div 2^(bits - 8)) % 256)]
      ELSE [val |-> val, bits |-> bits, out |-> acc.out]

\* Bytes that decode_base64() takes for UTF-16LE, and the characters it keeps.
LolWide(bytes) == Len(bytes) >= 4 /\ bytes[2] = 0 /\ bytes[4] = 0
LolPrintable(w) == w \in 32..126 \union {9, 10, 13}

LolNarrow(bytes) ==
  SelectSeq([i \in 1 .. Len(bytes) \div 2 |-> bytes[2 * i - 1] + 256 * bytes[2 * i]], LolPrintable)

\* Up to the padding; no bytes are no result.
LolDecode(sextets) ==
  LET end   == SelectInSeq(sextets, LAMBDA d : d = LolPad)
      read  == IF end = 0 THEN sextets ELSE SubSeq(sextets, 1, end - 1)
      bytes == FoldLeft(LAMBDA acc, d : LolDecodeStep(d, acc), [val |-> 0, bits |-> 0, out |-> <<>>], read).out
  IN  [found |-> bytes # <<>>, text |-> IF LolWide(bytes) THEN LolNarrow(bytes) ELSE bytes]

LolInit == lol = [ask |-> "nothing"]

\* The words and the files that shortcuts are made of here: binaries that are
\* looked for and one that is not, and files at the limits of the size.
LolWords == {"powershell", "mshta", "http", "download", "iex", "regsvr32", "scrobj.dll", "/s"} \union DOMAIN LolEncoded
LolFiles == [opens : {TRUE}, size : {75, 76, 10 * 1024 * 1024, 10 * 1024 * 1024 + 1}] \union [opens : {FALSE}, size : {76}]

LolPayloads == SUBSET {"iex", "start-process"} \union {{"none"}}

LolStep ==
  /\ lol.ask = "nothing"
  /\ \/ \E bin \in DOMAIN LolPatterns : \E cmd \in SUBSET LolPatterns[bin], payload \in LolPayloads :
          lol' = [ask |-> "command", bin |-> bin, cmd |-> cmd, payload |-> payload,
                  verdict |-> LolJudge(bin, cmd, payload)]
     \/ \E text \in BoundedSeq(LolWords, LolMaxText), file \in LolFiles :
          lol' = [ask |-> "lnk", file |-> file, text |-> text, verdict |-> LolLnk(file, text)]
     \/ \E raw \in BoundedSeq({"a", "^", "q", " "}, LolMaxChars) :
          lol' = [ask |-> "normalize", raw |-> raw, result |-> LolNormalize(raw)]
     \/ \E bytes \in BoundedSeq(LolBytes, LolMaxBytes), lines \in BOOLEAN :
          lol' = [ask |-> "decode", bytes |-> bytes, result |-> LolDecode(LolEncode(bytes, lines))]

\* More of what a binary should not be called with never makes a command line
\* look better, with the same payload.
LolMonotone ==
  lol.ask = "command" =>
    \A more \in SUBSET LolPatterns[lol.bin] :
      lol.cmd \subseteq more => LolJudge(lol.bin, more, lol.payload).severity >= lol.verdict.severity

\* A shortcut that opens and has a size within the limits is reported exactly
\* when one of the six binaries looked for would be reported for the words in
\* the window after its first mention, wherever it stands among the others;
\* regsvr32, rundll32, wmic and bitsadmin are judged on command lines and never
\* in a shortcut, nor is what a shortcut says beyond the window or again later.
LolLnkComplete ==
  lol.ask = "lnk" =>
    /\ lol.verdict.malicious <=>
         /\ LolReads(lol.file)
         /\ \E b \in Range(lol.text) \intersect DOMAIN LolPatterns :
              b \in Range(LolLooksFor) /\ LolJudgeWords(b, LolAfter(lol.text, b)).malicious
    /\ lol.verdict.malicious => Range(lol.text) \intersect Range(LolLooksFor) # {}

\* A normalised command line holds no caret and no run of spaces, and only
\* characters of the raw one.
LolNormalized ==
  lol.ask = "normalize" =>
    LET n == lol.result
    IN  /\ \A i \in DOMAIN n : n[i] # "^" /\ (i > 1 => ~(n[i] = " " /\ n[i - 1] = " "))
        /\ SelectSeq(n, LAMBDA c : c = "a") = SelectSeq(lol.raw, LAMBDA c : c = "a")

\* decode_base64() undoes the encoding for every length modulo three, padded
\* and broken into lines, and finds nothing only in nothing.  Bytes that look
\* like UTF-16LE give their printable characters: a text of two printable
\* characters or more comes back whole, and one of a single one keeps its zero.
LolDecodeInverts ==
  lol.ask = "decode" =>
    LET b == lol.bytes
        wide == Len(b) >= 4 /\ Len(b) % 2 = 0 /\ \A i \in DOMAIN b : IF i % 2 = 0 THEN b[i] = 0 ELSE LolPrintable(b[i])
    IN  /\ lol.result.found <=> b # <<>>
        /\ ~LolWide(b) => lol.result.text = b
        /\ wide => lol.result.text = [i \in 1 .. Len(b) \div 2 |-> b[2 * i - 1]]
        /\ LolWide(b) => \A i \in DOMAIN lol.result.text : LolPrintable(lol.result.text[i])

-----------------------------------------------------------------------------
(***************************************************************************)
(* FilelessAstEngine: a script is deobfuscated in a fixed order of passes  *)
(* and judged by the words found in the result.  A script is a sequence of *)
(* tokens: quoted literals (their text a sequence of pieces), the operator *)
(* "+", and bare words; a token may be hidden by back-ticks or be the cast *)
(* of a number to the character it stands for.                             *)
(***************************************************************************)

CONSTANTS FlMaxParts,  \* bound on the literals of a chain
          FlMaxTexts   \* bound on the pieces asked for in one script

ASSUME FlConstants == {FlMaxParts, FlMaxTexts} \subseteq Nat

VARIABLE fl   \* the question asked of the engine

FlLit(text) == [kind |-> "lit", text |-> text, joined |-> FALSE, ticks |-> FALSE]
FlPlus == [kind |-> "plus", text |-> <<>>, joined |-> FALSE, ticks |-> FALSE]
FlCast(text) == [kind |-> "cast", text |-> text, joined |-> FALSE, ticks |-> FALSE]
FlBare(text) == [kind |-> "bare", text |-> text, joined |-> FALSE, ticks |-> FALSE]

\* A back-tick before a letter or a digit is dropped.
FlStripTicks(script) == [i \in DOMAIN script |-> [script[i] EXCEPT !.ticks = FALSE]]

\* [char]NN, decimal or hexadecimal and printable, becomes the bare character.
FlCharCasts(script) ==
  [i \in DOMAIN script |->
     IF script[i].kind = "cast" /\ ~script[i].ticks THEN FlBare(script[i].text) ELSE script[i]]

\* One pass over the script from the left: two literals with a "+" between
\* them become one, and the pass goes on behind them.
FlConcat(script) ==
  LET pass == FoldLeft(LAMBDA out, t :
                IF /\ t.kind = "lit" /\ Len(out) >= 2 /\ Last(out).kind = "plus"
                   /\ out[Len(out) - 1].kind = "lit" /\ ~out[Len(out) - 1].joined
                THEN SubSeq(out, 1, Len(out) - 2) \o <<[FlLit(out[Len(out) - 1].text \o t.text) EXCEPT !.joined = TRUE]>>
                ELSE Append(out, t),
              <<>>, script)
  IN  [i \in DOMAIN pass |-> [pass[i] EXCEPT !.joined = FALSE]]

\* A reversed keyword (its pieces in reverse order) within one text is turned.
FlUnreverse(script, reversed, keyword) ==
  [i \in DOMAIN script |-> IF script[i].text = reversed THEN [script[i] EXCEPT !.text = keyword] ELSE script[i]]

FlKeyword == <<"down", "load", "string">>

\* Fault: reversals are undone before the literals are joined.
FlDeobfuscateEarly(script) ==
  FlConcat(FlConcat(FlUnreverse(FlCharCasts(FlStripTicks(script)), Reverse(FlKeyword), FlKeyword)))

\* deobfuscate_powershell(): ticks, casts, two passes of joining, reversals.
FlDeobfuscate(script) ==
  FlUnreverse(FlConcat(FlConcat(FlCharCasts(FlStripTicks(script)))), Reverse(FlKeyword), FlKeyword)

\* The engine finds a word if one text of the result holds it.
FlFinds(script, word) == \E i \in DOMAIN FlDeobfuscate(script) : FlDeobfuscate(script)[i].text = word

FlMarks == {"reflection", "amsi", "download", "iex", "deflate", "memory", "policy", "bypass"}

FlSafe == [malicious |-> FALSE, technique |-> "", severity |-> 0, reason |-> ""]

FlRule4(marks, e) ==
  IF {"deflate", "memory"} \subseteq marks
  THEN [malicious |-> TRUE, technique |-> IF e.technique = "" THEN "T1027" ELSE e.technique,
        severity |-> IF e.severity < 3 THEN 3 ELSE e.severity, reason |-> IF e.reason = "" THEN "payload" ELSE e.reason]
  ELSE e

FlSet(hit, technique, reason, e) ==
  IF hit THEN [malicious |-> TRUE, technique |-> technique, severity |-> 4, reason |-> reason] ELSE e

FlRule5(marks, e) ==
  IF {"policy", "bypass"} \subseteq marks /\ e.severity < 2
  THEN [e EXCEPT !.severity = 2, !.reason = "policy bypass"] ELSE e

\* evaluate_script(), on the words found: five rules in order.
FlEvaluate(marks) ==
  FlRule5(marks, FlRule4(marks,
    FlSet({"download", "iex"} \subseteq marks, "T1059.001", "cradle",
      FlSet("amsi" \in marks, "T1562.001", "amsi",
        FlSet("reflection" \in marks, "T1059.001", "reflection", FlSafe)))))

\* scan_com_hijacking(): a server in a temporary directory, or in a user's
\* and not in system32.
FlHijacked(path) == "temp" \in path \/ ("users" \in path /\ "system32" \notin path)

FlChain(texts) == [i \in 1 .. 2 * Len(texts) - 1 |-> IF i % 2 = 0 THEN FlPlus ELSE FlLit(texts[(i + 1) \div 2])]

FlInit == fl = [ask |-> "idle"]

FlAskChain(n) ==
  /\ fl.ask = "idle"
  /\ \E cast \in BOOLEAN :
       LET chain == FlChain([i \in 1..n |-> <<ToString(i)>>])
           script == [i \in DOMAIN chain |-> IF cast /\ chain[i].kind = "lit" THEN FlCast(chain[i].text) ELSE chain[i]]
       IN  fl' = [ask |-> "chain", n |-> n, cast |-> cast, script |-> script]

FlAskWord(cuts) ==
  /\ fl.ask = "idle"
  /\ \E rev, ticks \in BOOLEAN :
       LET word == IF rev THEN Reverse(FlKeyword) ELSE FlKeyword
           script == CASE cuts = 1 -> <<FlBare(word)>>
                       [] cuts = 2 -> FlChain(<<SubSeq(word, 1, 1), SubSeq(word, 2, 3)>>)
                       [] OTHER -> FlChain(<<<<word[1]>>, <<word[2]>>, <<word[3]>>>>)
       IN  fl' = [ask |-> "word", script |-> [i \in DOMAIN script |-> [script[i] EXCEPT !.ticks = ticks]]]

FlAskMarks(marks) == fl.ask = "idle" /\ fl' = [ask |-> "marks", marks |-> marks, e |-> FlEvaluate(marks)]
FlAskServer(path) == fl.ask = "idle" /\ fl' = [ask |-> "server", path |-> path, hit |-> FlHijacked(path)]

FlStep ==
  \/ \E n \in 1..FlMaxParts : FlAskChain(n)
  \/ \E cuts \in 1..FlMaxTexts : FlAskWord(cuts)
  \/ \E marks \in SUBSET FlMarks : FlAskMarks(marks)
  \/ \E path \in SUBSET {"temp", "users", "system32"} : FlAskServer(path)

\* Two passes that join pairs leave one literal of a chain of up to four, and
\* a quarter of a longer one: a word cut into five literals is not found.
\* The characters of casts stay apart, as no quotes are put around them.
FlChainJoined ==
  fl.ask = "chain" =>
    LET of(kind) == SelectSeq(FlDeobfuscate(fl.script), LAMBDA t : t.kind = kind)
    IN  IF fl.cast THEN Len(of("bare")) = fl.n ELSE Len(of("lit")) = (fl.n + 3) \div 4

\* A keyword is found however it is reversed, ticked or cut into up to three
\* literals: the passes come in an order that undoes every combination.
FlWordFound == fl.ask = "word" => FlFinds(fl.script, FlKeyword)

\* The severity is that of the gravest rule that fired, and a script is
\* malicious exactly if it is HIGH or worse.
FlSeverityIsGravest ==
  fl.ask = "marks" =>
    /\ fl.e.malicious <=> fl.e.severity >= 3
    /\ ("reflection" \in fl.marks \/ "amsi" \in fl.marks) => fl.e.severity = 4
=============================================================================

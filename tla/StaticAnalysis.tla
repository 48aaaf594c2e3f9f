--------------------------- MODULE StaticAnalysis ---------------------------
EXTENDS Naturals, SequencesExt, FiniteSetsExt

(***************************************************************************)
(* YaraEngine: the search for a pattern in a buffer, by Horspool's         *)
(* algorithm for the longer patterns without wildcards; the hex notation   *)
(* of patterns; the rule texts; the conditions of rules.  A byte is a      *)
(* letter of either case, a line of a rule text what it says.  The         *)
(* operators are pure: a question is asked once of the idle state.         *)
(***************************************************************************)

CONSTANTS YrLetters,      \* bytes: some of "a", "A", "b"
          YrFast,         \* length from which Horspool's algorithm is used
          YrMaxPattern, YrMaxData, YrMaxLines,  \* bounds on the questions
          YrLines         \* lines of rule texts

ASSUME YrConstants == {YrFast, YrMaxPattern, YrMaxData, YrMaxLines} \subseteq Nat \ {0} /\ YrLetters \subseteq {"a", "A", "b"}

VARIABLE yr

YrLow(c) == IF c = "A" THEN "a" ELSE c
YrUp(c) == IF c = "a" THEN "A" ELSE c
YrFold(c, nocase) == IF nocase THEN YrLow(c) ELSE c

\* Fault: the letters of the pattern enter the table in one case only.
YrShiftPlain(p, nocase, c) ==
  LET js == {j \in 1 .. Len(p) - 1 : p[j] = c} IN IF js = {} THEN Len(p) ELSE Len(p) - Max(js)

\* shift[c]: how far the pattern moves when c lies under its last byte.
YrShift(p, nocase, c) ==
  LET js == {j \in 1 .. Len(p) - 1 : c \in (IF nocase THEN {YrLow(p[j]), YrUp(p[j])} ELSE {p[j]})}
  IN  IF js = {} THEN Len(p) ELSE Len(p) - Max(js)

\* The pattern lies at place i of the data; "?" has the mask 0.
YrAt(data, p, nocase, i) ==
  \A j \in DOMAIN p : p[j] = "?" \/ YrFold(data[i + j - 1], nocase) = YrFold(p[j], nocase)

YrHorspool(data, p, nocase) ==
  LET last == Len(data) - Len(p) + 1
      turn[n \in 0 .. Len(data)] ==
        IF n = 0 THEN [at |-> 1, found |-> {}]
        ELSE LET t == turn[n - 1]
             IN  IF t.at > last THEN t
                 ELSE IF YrAt(data, p, nocase, t.at) THEN [at |-> t.at + 1, found |-> t.found \union {t.at}]
                 ELSE [t EXCEPT !.at = @ + YrShift(p, nocase, YrFold(data[@ + Len(p) - 1], nocase))]
  IN  turn[Len(data)].found

\* find_pattern(): the places of the pattern.
YrFind(data, p, nocase) ==
  IF p = <<>> \/ Len(data) < Len(p) THEN {}
  ELSE IF Len(p) >= YrFast /\ "?" \notin ToSet(p) THEN YrHorspool(data, p, nocase)
  ELSE {i \in 1 .. Len(data) - Len(p) + 1 : YrAt(data, p, nocase, i)}

\* A wildcard takes two question marks, or the one there is.
YrWild(s, i) == IF i < Len(s) /\ s[i + 1] = "?" THEN 2 ELSE 1

\* parse_hex_pattern(): the pattern, empty when the notation is wrong.
YrHex(s) ==
  LET turn[n \in 0 .. Len(s)] ==
        IF n = 0 THEN [at |-> 1, ok |-> TRUE, out |-> <<>>]
        ELSE LET t == turn[n - 1]
                 c == s[t.at]
             IN  IF ~t.ok \/ t.at > Len(s) THEN t
                 ELSE IF c = " " THEN [t EXCEPT !.at = @ + 1]
                 ELSE IF c = "?" THEN [t EXCEPT !.at = @ + YrWild(s, t.at), !.out = Append(@, "?")]
                 ELSE IF t.at = Len(s) \/ {c, s[t.at + 1]} \intersect {"?", " ", "x"} # {} THEN [t EXCEPT !.ok = FALSE]
                 ELSE [t EXCEPT !.at = @ + 2, !.out = Append(@, <<c, s[t.at + 1]>>)]
  IN  IF turn[Len(s)].ok THEN turn[Len(s)].out ELSE <<>>

-----------------------------------------------------------------------------
YrNewRule == [name |-> "", strings |-> <<>>, condition |-> "any", count |-> 1, level |-> "HIGH"]

YrAfter(rule) == YrNewRule

\* A line of a rule text; the rule in hand is stored when the next begins.
YrReadLine(st, line) ==
  IF line.what = "rule"
  THEN LET stored == st.inRule /\ st.rule.strings # <<>>
           rule == IF stored THEN YrAfter(st.rule) ELSE st.rule
           name == IF line.value # "" THEN line.value ELSE IF rule.name = "" THEN "CustomRule" ELSE rule.name
       IN  [inRule |-> TRUE, rule |-> [rule EXCEPT !.name = name],
            rules |-> IF stored THEN Append(st.rules, st.rule) ELSE st.rules]
  ELSE IF ~st.inRule THEN st
  ELSE CASE line.what = "level" -> [st EXCEPT !.rule.level = line.value]
         [] line.what = "string" -> [st EXCEPT !.rule.strings = Append(@, line.value)]
         [] line.what = "condition" -> [st EXCEPT !.rule.condition = line.value]
         [] OTHER -> st

\* add_rule_from_string(): the rules it adds.
YrRead(lines) ==
  LET st == FoldLeft(YrReadLine, [inRule |-> FALSE, rule |-> YrNewRule, rules |-> <<>>], lines)
  IN  IF st.inRule /\ st.rule.strings # <<>> THEN Append(st.rules, st.rule) ELSE st.rules

\* load_builtin_rules(): the strings by their identifiers
YrBuiltinRules ==
  LET rule(name, ids, cond, n, level) == [name |-> name, strings |-> ids, condition |-> cond, count |-> n, level |-> level]
  IN  << rule("MZ_Header", <<"$mz">>, "any", 1, "LOW"),
         rule("Suspicious_PowerShell", <<"$enc_cmd", "$bypass", "$hidden", "$iex">>, "count", 2, "HIGH"),
         rule("Cobalt_Strike_Beacon", <<"$pipe", "$config", "$sleep_mask">>, "count", 2, "CRITICAL"),
         rule("Mimikatz_Strings", <<"$sekurlsa", "$gentilkiwi", "$lsadump">>, "any", 1, "CRITICAL"),
         rule("Ransomware_Note", <<"$encrypted", "$bitcoin", "$decrypt_tool", "$pay_ransom">>, "count", 2, "CRITICAL"),
         rule("Shellcode_NOP_Sled", <<"$nop_sled">>, "any", 1, "HIGH") >>

\* evaluate_condition(), for the set of identifiers found
YrHolds(rule, hit) ==
  CASE rule.condition = "all" -> \A i \in DOMAIN rule.strings : rule.strings[i] \in hit
    [] rule.condition = "any" -> \E i \in DOMAIN rule.strings : rule.strings[i] \in hit
    [] OTHER -> Cardinality({i \in DOMAIN rule.strings : rule.strings[i] \in hit}) >= rule.count

\* scan_buffer(), for rules whose strings are named by the letters they are
YrScan(rules, data) ==
  {r \in DOMAIN rules : YrHolds(rules[r], {s \in ToSet(rules[r].strings) : YrFind(data, s, FALSE) # {}})}

-----------------------------------------------------------------------------
YrSeqs(S, n) == UNION {[1 .. k -> S] : k \in 0 .. n}

YrRules ==
  LET pats == {<<"a">>, <<"b", "a">>, <<"a", "b", "a">>}
  IN  {<<[YrNewRule EXCEPT !.strings = s, !.condition = c, !.count = 2]>> :
         s \in {<<x, y, z>> : x, y, z \in pats}, c \in {"all", "any", "count"}}

YrInit == yr = [ask |-> "idle"]

YrStep ==
  /\ yr.ask = "idle"
  /\ \/ \E data \in YrSeqs(YrLetters, YrMaxData), p \in YrSeqs(YrLetters \union {"?"}, YrMaxPattern), nocase \in BOOLEAN :
          yr' = [ask |-> "find", data |-> data, pattern |-> p, nocase |-> nocase]
     \/ \E items \in YrSeqs({<<"4", "4">>, <<"?", "?">>}, 3) : \E gaps \in [DOMAIN items -> 0 .. 1] :
          yr' = [ask |-> "hex", items |-> items, gaps |-> gaps]
     \/ \E lines \in YrSeqs(YrLines, YrMaxLines) : yr' = [ask |-> "text", lines |-> lines]
     \/ \E rules \in YrRules, data \in YrSeqs({"a", "b"}, 4), more \in YrSeqs({"a", "b"}, 1) :
          yr' = [ask |-> "scan", rules |-> rules, data |-> data, more |-> more]
     \/ \E r \in DOMAIN YrBuiltinRules : \E hit \in SUBSET ToSet(YrBuiltinRules[r].strings) :
          yr' = [ask |-> "builtin", rule |-> r, hit |-> hit]

\* The search that skips finds every place of the pattern that a search byte
\* by byte finds, in letters of either case.
YrFindExact ==
  yr.ask = "find" =>
    YrFind(yr.data, yr.pattern, yr.nocase) =
      {i \in 1 .. Len(yr.data) + 1 - Len(yr.pattern) : yr.pattern # <<>> /\ YrAt(yr.data, yr.pattern, yr.nocase, i)}

\* A pattern written in the hex notation, with blanks or without, is read as
\* it was written.
YrHexInverts ==
  yr.ask = "hex" =>
    LET text == FlattenSeq([i \in DOMAIN yr.items |-> IF yr.gaps[i] = 1 THEN <<" ">> \o yr.items[i] ELSE yr.items[i]])
    IN  YrHex(text) = [i \in DOMAIN yr.items |-> IF yr.items[i] = <<"?", "?">> THEN "?" ELSE yr.items[i]]

\* Rules that follow one another in a text, each with a string, are read as
\* they are read alone: neither level nor condition passes to the next.
YrRulesAlone ==
  yr.ask = "text" =>
    LET lines == yr.lines
        begins == {i \in DOMAIN lines : lines[i].what = "rule"}
        ends(i) == Min({j \in begins : j > i} \union {Len(lines) + 1}) - 1
        starts == SetToSortSeq(begins, <)
        alone == [k \in DOMAIN starts |-> YrRead(SubSeq(lines, starts[k], ends(starts[k])))]
    IN  (\A k \in DOMAIN starts : alone[k] # <<>>) => YrRead(lines) = FlattenSeq(alone)

\* What lies around a match does not hide it: a rule that matches a buffer
\* matches every longer buffer that ends or begins with it; each of the rules
\* built in can match, none matches without a string, and a string more never
\* undoes a match.
YrMatchStays ==
  /\ yr.ask = "scan" =>
       YrScan(yr.rules, yr.data) \subseteq YrScan(yr.rules, yr.more \o yr.data) \intersect YrScan(yr.rules, yr.data \o yr.more)
  /\ yr.ask = "builtin" =>
       LET rule == YrBuiltinRules[yr.rule]
       IN  /\ YrHolds(rule, ToSet(rule.strings)) /\ ~YrHolds(rule, {})
           /\ YrHolds(rule, yr.hit) => \A s \in ToSet(rule.strings) : YrHolds(rule, yr.hit \union {s})

-----------------------------------------------------------------------------
(***************************************************************************)
(* PeStaticAnalysisEngine: what it computes of a file that anyone may have *)
(* written.  A file is a sequence of cells that hold addresses: a          *)
(* descriptor of the import table is three cells, a thunk is one, a name   *)
(* runs to a zero.  The 32 bits of an address are PeWord values, so sums   *)
(* wrap.  MD5 is followed in its buffering and padding; the mixing of a    *)
(* block is not interpreted.                                               *)
(***************************************************************************)

CONSTANTS PeWord, PeCells, PeMaxCells,  \* values of an address; those in files; bound on the cells of a file
          PeTables,                     \* section tables that files may have
          Md5Block, Md5Length, PeMaxMessage  \* bytes of a block, of the length in it; bound on the message

ASSUME PeConstants == {PeWord, PeMaxCells, Md5Block, Md5Length, PeMaxMessage} \subseteq Nat /\ Md5Length < Md5Block

VARIABLE pe

\* fits(), for offsets from 0
PeFits(size, offset, length) == offset <= size /\ length <= size - offset

PeNone == [found |-> FALSE, at |-> 0]

PeCovers(sec, rva) == rva >= sec.va /\ rva < (sec.va + Max({sec.vsize, sec.raw})) % PeWord

\* rva_to_offset(): the first section that has the address in its data
PeOffset(rva, secs) ==
  LET i == SelectInSeq(secs, LAMBDA sec : PeCovers(sec, rva) /\ rva - sec.va < sec.raw)
  IN  IF i = 0 THEN PeNone ELSE [found |-> TRUE, at |-> (secs[i].off + rva - secs[i].va) % PeWord]

\* read_ascii_string(): the cells to the next zero, or to the end
PeString(file, at) ==
  LET zero == {k \in at .. Len(file) - 1 : file[k + 1] = 0} \union {Max({Len(file), at})}
  IN  [k \in 1 .. Min(zero) - at |-> file[at + k]]

\* The thunks of a DLL: names of functions, and the cells read.
PeThunks(file, secs, start) ==
  LET turn[n \in 0 .. Len(file) + 1] ==
        IF n = 0 THEN [at |-> start, on |-> TRUE, names |-> <<>>, read |-> {}]
        ELSE LET t == turn[n - 1]
                 v == IF t.at < Len(file) THEN file[t.at + 1] ELSE 0
                 o == PeOffset(v, secs)
                 name == IF v >= PeWord \div 2 THEN <<"ord", v - PeWord \div 2>>
                         ELSE IF o.found /\ PeFits(Len(file), o.at + 1, 1) THEN PeString(file, o.at + 1) ELSE <<>>
             IN  IF ~t.on \/ ~PeFits(Len(file), t.at, 1) THEN [t EXCEPT !.on = FALSE]
                 ELSE IF v = 0 THEN [t EXCEPT !.on = FALSE, !.read = @ \union {t.at}]
                 ELSE [at |-> t.at + 1, on |-> TRUE, read |-> t.read \union {t.at},
                       names |-> IF name = <<>> THEN t.names ELSE Append(t.names, name)]
  IN  turn[Len(file) + 1]

\* The import table from its first descriptor on; it ends with a descriptor
\* of zeros or with the file.
PeImports(file, secs, rva) ==
  LET size == Len(file)
      start == PeOffset(rva, secs)
      cell(k) == IF k < size THEN file[k + 1] ELSE 0
      turn[n \in 0 .. size + 1] ==
        IF n = 0 THEN [at |-> start.at, on |-> start.found, dlls |-> <<>>, functions |-> <<>>, read |-> {}]
        ELSE LET t == turn[n - 1]
                 orig == cell(t.at)
                 named == cell(t.at + 1)
                 first == cell(t.at + 2)
                 name == IF PeOffset(named, secs).found THEN PeString(file, PeOffset(named, secs).at) ELSE <<>>
                 thunk == PeOffset(IF orig # 0 THEN orig ELSE first, secs)
                 got == IF thunk.found /\ name # <<>> THEN PeThunks(file, secs, thunk.at) ELSE [names |-> <<>>, read |-> {}]
                 read == t.read \union (t.at .. t.at + 2)
             IN  IF ~t.on \/ ~PeFits(size, t.at, 3) THEN [t EXCEPT !.on = FALSE]
                 ELSE IF named = 0 /\ first = 0 THEN [t EXCEPT !.on = FALSE, !.read = read]
                 ELSE [at |-> t.at + 3, on |-> TRUE, read |-> read \union got.read, functions |-> t.functions \o got.names,
                       dlls |-> IF name = <<>> THEN t.dlls ELSE Append(t.dlls, name)]
  IN  turn[size + 1]

\* The entry point: in which sections, and whether that is unusual.
PeEntryAnomaly(secs, declared, entry) ==
  LET home == {i \in DOMAIN secs : PeCovers(secs[i], entry)}
  IN  \/ declared \in home /\ declared > 1
      \/ home = {} /\ entry # 0

-----------------------------------------------------------------------------
\* The packer: the last section with the name of one, else a section with
\* code of high entropy in a file of high entropy (in tenths).
PePacked(secs, entropy) ==
  \/ \E i \in DOMAIN secs : secs[i].packer
  \/ entropy >= 72 /\ \E i \in DOMAIN secs : secs[i].wx \/ (secs[i].code /\ secs[i].entropy >= 71)

PeTlsCounts(f) == f.tls /\ (PePacked(f.secs, f.entropy) \/ f.entropy >= 68)

\* assess_threat(): the reasons that are listed, ...
PeReasons(f) ==
  {<<"wx", i>> : i \in {j \in DOMAIN f.secs : f.secs[j].wx}}
    \union (IF PePacked(f.secs, f.entropy) THEN {<<"packer", 0>>} ELSE {})
    \union (IF f.anomaly THEN {<<"entry", 0>>} ELSE {})
    \union (IF f.entropy >= 72 THEN {<<"entropy", 0>>} ELSE {})
    \union (IF f.apis >= 3 THEN {<<"apis", 0>>} ELSE {})
    \union (IF PeTlsCounts(f) THEN {<<"tls", 0>>} ELSE {})

\* ... and the score; one or two dangerous functions count and are not listed.
PeScore(f) ==
  40 * Cardinality({i \in DOMAIN f.secs : f.secs[i].wx})
    + (IF PePacked(f.secs, f.entropy) THEN 35 ELSE 0) + (IF f.anomaly THEN 25 ELSE 0) + (IF f.entropy >= 72 THEN 20 ELSE 0)
    + (IF f.apis >= 3 THEN 30 ELSE IF f.apis >= 1 THEN 10 ELSE 0) + (IF PeTlsCounts(f) THEN 15 ELSE 0)

PeLevel(score) ==
  CASE score >= 60 -> 4 [] score >= 35 -> 3 [] score >= 15 -> 2 [] score > 0 -> 1 [] OTHER -> 0

-----------------------------------------------------------------------------
Md5Start == [blocks |-> <<>>, buffer |-> [i \in 1 .. Md5Block |-> 0], count |-> 0]

Md5Over(buffer, index, bytes) ==
  [i \in 1 .. Md5Block |-> IF i \in index + 1 .. index + Len(bytes) THEN bytes[i - index] ELSE buffer[i]]

\* update(): the buffer is filled and mixed, whole blocks are mixed from the
\* input, the rest goes to the buffer.
Md5Update(ctx, input) ==
  LET index == ctx.count % Md5Block
      part == Md5Block - index
      fills == Len(input) >= part
      whole == IF fills THEN (Len(input) - part) \div Md5Block ELSE 0
      used == IF fills THEN part + whole * Md5Block ELSE 0
      filled == Md5Over(ctx.buffer, index, SubSeq(input, 1, part))
      rest == SubSeq(input, used + 1, Len(input))
  IN  [count |-> ctx.count + Len(input),
       buffer |-> IF fills THEN Md5Over(filled, 0, rest) ELSE Md5Over(ctx.buffer, index, rest),
       blocks |-> IF fills
                  THEN Append(ctx.blocks, filled)
                         \o [k \in 1 .. whole |-> SubSeq(input, part + (k - 1) * Md5Block + 1, part + k * Md5Block)]
                  ELSE ctx.blocks]

Md5Pad(index) == IF index < Md5Block - Md5Length THEN Md5Block - Md5Length - index ELSE 2 * Md5Block - Md5Length - index

\* finalize(): padding and length
Md5Final(ctx) ==
  LET padding == [i \in 1 .. Md5Pad(ctx.count % Md5Block) |-> IF i = 1 THEN "0x80" ELSE "zero"]
  IN  Md5Update(Md5Update(ctx, padding), [i \in 1 .. Md5Length |-> <<"bits", ctx.count>>])

-----------------------------------------------------------------------------
PeSections == [wx : BOOLEAN, code : {TRUE}, packer : BOOLEAN, entropy : {60, 71}]

PeInit == pe = [ask |-> "idle"]

PeStep ==
  /\ pe.ask = "idle"
  /\ \/ \E n \in 0 .. PeMaxCells : \E file \in [1 .. n -> PeCells], t \in DOMAIN PeTables :
          pe' = [ask |-> "file", file |-> file, table |-> t]
     \/ \E t \in DOMAIN PeTables, entry \in 0 .. PeWord - 1 : pe' = [ask |-> "entry", table |-> t, entry |-> entry]
     \/ \E n \in 0 .. 2 : \E secs \in [1 .. n -> PeSections], entropy \in {60, 68, 72}, apis \in 0 .. 3, tls, anomaly \in BOOLEAN :
          pe' = [ask |-> "signs", secs |-> secs, entropy |-> entropy, apis |-> apis, tls |-> tls, anomaly |-> anomaly]
     \/ \E n \in 0 .. PeMaxMessage : \E k \in 0 .. n : pe' = [ask |-> "md5", length |-> n, split |-> k]

\* Whatever addresses a file holds, the walk through its import table reads
\* only cells of the file.
PeReadsInside ==
  pe.ask = "file" => PeImports(pe.file, PeTables[pe.table], 1).read \subseteq 0 .. Len(pe.file) - 1

\* An entry point outside every section is told as unusual, also when the end
\* of a section wraps around.
PeStrayEntryTold ==
  pe.ask = "entry" =>
    LET secs == PeTables[pe.table]
        inside == \E i \in DOMAIN secs : pe.entry \in secs[i].va .. secs[i].va + Max({secs[i].vsize, secs[i].raw}) - 1
    IN  ~inside /\ pe.entry # 0 => PeEntryAnomaly(secs, Len(secs), pe.entry)

\* A threat that is medium or more comes with a reason, and a sign more never
\* makes a file look better.
PeAlarmExplained ==
  pe.ask = "signs" =>
    /\ PeLevel(PeScore(pe)) >= 2 => PeReasons(pe) # {}
    /\ \A more \in {[pe EXCEPT !.apis = @ + 1], [pe EXCEPT !.tls = TRUE], [pe EXCEPT !.entropy = 72], [pe EXCEPT !.anomaly = TRUE]}
                     \union {[pe EXCEPT !.secs[i].wx = TRUE] : i \in DOMAIN pe.secs} :
         PeLevel(PeScore(more)) >= PeLevel(PeScore(pe))

\* The blocks that are mixed are the message, the mark, fewer than a block of
\* zeros and the length, however the message came in.
PeMd5Blocks ==
  pe.ask = "md5" =>
    LET message == [i \in 1 .. pe.length |-> i]
        done == Md5Final(Md5Update(Md5Update(Md5Start, SubSeq(message, 1, pe.split)), SubSeq(message, pe.split + 1, pe.length)))
        zeros == (Md5Block - ((pe.length + 1 + Md5Length) % Md5Block)) % Md5Block
    IN  /\ FlattenSeq(done.blocks) =
             message \o <<"0x80">> \o [i \in 1 .. zeros |-> "zero"] \o [i \in 1 .. Md5Length |-> <<"bits", pe.length>>]
        /\ done.count % Md5Block = 0
=============================================================================

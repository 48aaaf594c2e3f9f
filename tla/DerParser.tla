----------------------------- MODULE DerParser -----------------------------
(***************************************************************************)
(* The readers of signatures and certificates: DER elements (asn1.cpp) and *)
(* the order of the fields in an X.509 certificate and in a PKCS#7 blob    *)
(* (x509.cpp, pkcs7.cpp).  A buffer is a sequence of bytes; offsets count  *)
(* from 0 as in the code.                                                  *)
(***************************************************************************)
EXTENDS Integers, SequencesExt, FiniteSets

CONSTANTS DerBytes,             \* bytes of the buffers asked about
          DerMaxLen,            \* bound on their length
          DerMaxLenBytes,       \* sizeof(size_t)
          DerTagBits, DerArcBits,   \* bits of a tag number (32) and of an arc (64): both wrap
          DerLengths            \* lengths of the contents that der_encode_set() is asked about

ASSUME DerConstants ==
  DerBytes \subseteq 0 .. 255 /\ {DerMaxLen, DerMaxLenBytes, DerTagBits, DerArcBits} \subseteq Nat /\ DerLengths \subseteq Nat

VARIABLE der   \* the question asked

DerNone == [ok |-> FALSE]

\* The number that data[from .. to - 1] stands for in base b.
DerNumber(data, from, to, b) ==
  LET v[i \in from .. to] == IF i = from THEN 0 ELSE v[i - 1] * b + (data[i] % b) IN v[to]

DerFits(length, pos, size) == length <= size - pos

\* parse_element(): tag, length (short or long form), content.
DerElement(data, size, offset) ==
  LET tag == data[offset + 1]
      high == tag % 32 = 31
      \* bytes of a tag number in the high form: up to the first without the top bit, at most 5
      ends == {i \in 1 .. 5 : offset + 1 + i <= size /\ data[offset + 1 + i] < 128}
      tagEnd == offset + 1 + IF high THEN CHOOSE i \in ends : \A j \in ends : i <= j ELSE 0
      first == data[tagEnd + 1]
      lenEnd == tagEnd + 1 + IF first < 128 THEN 0 ELSE first - 128
      length == IF first < 128 THEN first ELSE DerNumber(data, tagEnd + 1, lenEnd, 256)
  IN  IF \/ offset >= size
         \/ high /\ ends = {}
         \/ tagEnd >= size
         \/ first >= 128 /\ (first = 128 \/ first - 128 > DerMaxLenBytes \/ lenEnd > size)
         \/ ~DerFits(length, lenEnd, size)
      THEN DerNone
      ELSE [ok |-> TRUE, class |-> tag \div 64, constructed |-> (tag \div 32) % 2 = 1,
            number |-> IF high THEN DerNumber(data, offset + 1, tagEnd, 128) % 2^DerTagBits ELSE tag % 32,
            content |-> lenEnd, length |-> length, total |-> lenEnd + length - offset]

\* parse_sequence_children(): elements one after the other, up to the end or
\* to the first that is malformed.
DerChildren(data, offset, length) ==
  LET end == offset + length
      from[n \in 0 .. length] ==
        IF n = 0 THEN [pos |-> offset, kids |-> <<>>, open |-> TRUE]
        ELSE LET prev == from[n - 1]
                 kid == DerElement(data, end, prev.pos)
             IN  IF ~prev.open \/ prev.pos >= end \/ ~kid.ok THEN [prev EXCEPT !.open = FALSE]
                 ELSE [prev EXCEPT !.pos = @ + kid.total, !.kids = Append(@, kid)]
  IN  from[length].kids

DerSlice(data, from, length) == SubSeq(data, from + 1, from + length)

\* raw_bytes(): the element with its header.
DerRaw(data, el) == DerSlice(data, el.content - (el.total - el.length), el.total)

\* read_unsigned_integer() of an INTEGER's content
DerUnsigned(content) ==
  IF content = <<>> \/ content[1] >= 128 THEN <<>>
  ELSE IF Len(content) >= 2 /\ content[1] = 0 /\ content[2] >= 128 THEN Tail(content)
  ELSE content

\* One byte of an arc; the bits above the width of value are lost.
DerArc(state, byte) ==
  LET v == (state.value * 128 + (byte % 128)) % 2^DerArcBits
  IN  IF byte < 128 THEN [arcs |-> Append(state.arcs, v), value |-> 0, mid |-> FALSE]
      ELSE [state EXCEPT !.value = v, !.mid = TRUE]

\* oid_to_string(), as the sequence of arcs; the first byte holds two.
DerOid(content) ==
  LET first == content[1] \div 40
      two == IF first > 2 THEN <<2, content[1] - 80>> ELSE <<first, content[1] % 40>>
      read == FoldLeft(DerArc, [arcs |-> two, value |-> 0, mid |-> FALSE], Tail(content))
  IN  IF content = <<>> \/ read.mid THEN <<>> ELSE read.arcs

\* der_encode_set()
DerEncodeSet(content) ==
  LET n == Len(content)
      bytes == IF n < 256 THEN <<n>> ELSE <<n \div 256, n % 256>>
  IN  <<49>> \o (IF n < 128 THEN <<n>> ELSE <<128 + Len(bytes)>> \o bytes) \o content

-----------------------------------------------------------------------------
\* An element of a structure is its tag and what is inside it: the names of
\* its elements, or one name for its bytes.  A name says what the readers
\* tell apart, such as an OID that oid_to_string() can read.
DerInnerOk(kind, inner) ==
  CASE kind = "any"          -> TRUE
    [] kind = "unsigned"     -> inner = <<"number">>
    [] kind = "filled"       -> inner # <<>>
    [] kind = "aligned"      -> inner = <<"aligned bits">>
    [] kind = "algorithm"    -> inner # <<>> /\ inner[1] = "OID"
    [] kind = "issuer"       -> inner = <<"SEQUENCE", "number">>
    [] kind = "validity"     -> inner = <<"time", "time">>
    [] kind = "key"          -> Len(inner) >= 2 /\ inner[1] = "algorithm" /\ inner[2] = "aligned bits"
    [] kind = "content"      -> inner # <<>> /\ inner[1] = "OID" /\ (Len(inner) >= 2 => inner[2] # "bad content")
    [] kind = "certificates" -> "bad certificate" \notin ToSet(inner)
    [] kind = "signers"      -> inner # <<>> /\ ToSet(inner) = {"signer"}
    [] kind = "signedData"   -> inner = <<"signedData">>
    [] kind = "one"          -> inner = <<"SEQUENCE">>

\* The fields of a structure: the tag that each must have, what must be inside
\* it, and whether it may be left out.  "0" and "1" are the context-specific
\* tags.  A whole structure has nothing after its fields.
DerField(name, tag, inner) == [name |-> name, tag |-> tag, inner |-> inner, optional |-> FALSE]
DerOptional(name, tag, inner) == [name |-> name, tag |-> tag, inner |-> inner, optional |-> TRUE]

\* X509Parser::parse(): the certificate, ...
DerSigned ==
  [whole |-> TRUE, fields |->
    <<DerField("tbsCertificate", "SEQUENCE", "any"), DerField("algorithm", "SEQUENCE", "algorithm"),
      DerField("signature", "BIT_STRING", "aligned")>>]

\* ... and its tbsCertificate; what follows the key is not read, and a key
\* that is no RSA key is no reason to stop.
DerCertificate ==
  [whole |-> FALSE, fields |->
    <<DerOptional("version", "0", "any"), DerField("serial", "INTEGER", "unsigned"), DerField("signature", "SEQUENCE", "any"),
      DerField("issuer", "SEQUENCE", "any"), DerField("validity", "SEQUENCE", "validity"),
      DerField("subject", "SEQUENCE", "any"), DerField("key", "SEQUENCE", "key")>>]

\* parse_signer_info()
DerSignerInfo ==
  [whole |-> FALSE, fields |->
    <<DerField("version", "INTEGER", "any"), DerField("sid", "SEQUENCE", "issuer"),
      DerField("digestAlgorithm", "SEQUENCE", "algorithm"), DerField("signedAttrs", "0", "any"),
      DerField("signatureAlgorithm", "SEQUENCE", "algorithm"), DerField("signature", "OCTET_STRING", "filled")>>]

\* Pkcs7Parser::parse(): the ContentInfo, ...
DerContentInfo ==
  [whole |-> TRUE, fields |-> <<DerField("contentType", "OID", "signedData"), DerField("content", "0", "one")>>]

\* ... and the SignedData in it; certificates and signers are parsed in turn,
\* and one that is not parsed ends it.
DerSignedData ==
  [whole |-> FALSE, fields |->
    <<DerField("version", "INTEGER", "any"), DerField("digestAlgorithms", "SET", "any"), DerField("content", "SEQUENCE", "content"),
      DerOptional("certificates", "0", "certificates"), DerOptional("crls", "1", "any"), DerField("signerInfos", "SET", "signers")>>]

\* One field: an element with its tag is taken if what is inside is right and
\* ends the parse if not; at another, an optional field is passed over.
DerTake(state, field, els) ==
  IF ~state.ok THEN state
  ELSE IF state.at <= Len(els) /\ els[state.at].tag = field.tag
  THEN [ok |-> DerInnerOk(field.inner, els[state.at].inner), at |-> state.at + 1,
        found |-> Append(state.found, <<field.name, state.at>>)]
  ELSE [state EXCEPT !.ok = field.optional]

DerFields(pattern, els) ==
  LET read == FoldLeft(LAMBDA state, field : DerTake(state, field, els), [ok |-> TRUE, at |-> 1, found |-> <<>>], pattern.fields)
  IN  [read EXCEPT !.ok = @ /\ (pattern.whole => read.at = Len(els) + 1)]

-----------------------------------------------------------------------------
DerPatterns == {DerSigned, DerCertificate, DerSignerInfo, DerContentInfo, DerSignedData}
DerTags == {"INTEGER", "BIT_STRING", "OCTET_STRING", "OID", "SEQUENCE", "SET", "0", "1"}
DerInners ==
  {<<>>, <<"number">>, <<"negative">>, <<"aligned bits">>, <<"unaligned bits">>, <<"OID">>, <<"bad OID">>, <<"SEQUENCE">>,
   <<"SEQUENCE", "SEQUENCE">>, <<"SEQUENCE", "number">>, <<"SEQUENCE", "negative">>, <<"time">>, <<"time", "time">>,
   <<"algorithm", "aligned bits">>, <<"algorithm", "unaligned bits">>, <<"OID", "content">>, <<"OID", "bad content">>,
   <<"certificate", "other">>, <<"certificate", "bad certificate">>, <<"signer">>, <<"signer", "bad signer">>, <<"signedData">>}

\* The forms that a structure may have, as the fields that are there; the
\* structures asked about have such a form, or differ from one in an element,
\* by a missing or by an added one.
DerForms(pattern) ==
  {SelectSeq(pattern.fields, LAMBDA f : ~f.optional \/ f.name \in S) :
     S \in SUBSET {f.name : f \in {x \in ToSet(pattern.fields) : x.optional}}}

DerFollows(els, form) ==
  Len(els) >= Len(form) /\ \A i \in DOMAIN form : els[i].tag = form[i].tag /\ DerInnerOk(form[i].inner, els[i].inner)

DerNearly(form) ==
  LET good == [i \in DOMAIN form |-> [tag |-> form[i].tag, inner |-> CHOOSE x \in DerInners : DerInnerOk(form[i].inner, x)]]
      any == [tag : DerTags, inner : DerInners]
  IN  {good} \union {ReplaceAt(good, i, x) : i \in DOMAIN good, x \in any} \union {RemoveAt(good, i) : i \in DOMAIN good}
             \union {InsertAt(good, i, x) : i \in 1 .. Len(good) + 1, x \in {y \in any : y.inner = <<>>}}

DerInit == der = [ask |-> "idle"]

DerStep ==
  /\ der.ask = "idle"
  /\ \/ \E n \in 0 .. DerMaxLen : \E data \in [1 .. n -> DerBytes] : der' = [ask |-> "bytes", data |-> data]
     \/ \E n \in DerLengths : der' = [ask |-> "set", length |-> n]
     \/ \E pattern \in DerPatterns : \E form \in DerForms(pattern) : \E els \in DerNearly(form) :
          der' = [ask |-> "fields", pattern |-> pattern, els |-> els]

\* Whatever the bytes, the elements that are read lie inside the buffer, one
\* directly after the other, those inside an element do not reach beyond it,
\* and raw_bytes() returns each from its first byte to its last.
DerChildrenTile ==
  der.ask = "bytes" =>
    LET kids == DerChildren(der.data, 0, Len(der.data))
        start[i \in 1 .. Len(kids) + 1] == IF i = 1 THEN 0 ELSE start[i - 1] + kids[i - 1].total
    IN  /\ start[Len(kids) + 1] <= Len(der.data)
        /\ \A i \in DOMAIN kids :
             /\ kids[i].content >= start[i] + 2 /\ kids[i].content + kids[i].length = start[i + 1]
             /\ \A inner \in ToSet(DerChildren(der.data, kids[i].content, kids[i].length)) :
                  inner.content + inner.length <= start[i + 1]
             /\ DerRaw(der.data, kids[i]) = DerSlice(der.data, start[i], kids[i].total)

\* An integer that DER allows keeps its value and its zero: of the content
\* only the byte that keeps it from being negative is dropped.
DerIntegerKept ==
  der.ask = "bytes" /\ der.data # <<>> =>
    LET read == DerUnsigned(der.data)
    IN  /\ read = <<>> <=> der.data[1] >= 128
        /\ read # <<>> => der.data = read \/ (der.data = <<0>> \o read /\ read[1] >= 128)

\* An object identifier whose arcs fit into the width of value is read as the
\* one whose encoding it is, so that no two such are taken for each other; a
\* wider arc is read as its last bits, and as some other identifier.
DerOidInverts ==
  der.ask = "bytes" =>
    LET c == der.data
        arcs == DerOid(c)
        arc(v) == SelectSeq(<<128 + (v \div 16384), 128 + ((v \div 128) % 128), v % 128>>, LAMBDA b : b # 128)
        wellFormed == /\ c # <<>> /\ c[1] < 128 /\ Last(c) < 128
                      /\ \A i \in DOMAIN c : c[i] # 128
                      /\ \A i \in 1 .. Len(c) - 2 : \E j \in i .. i + 2 : c[j] < 128
        fits == \A i \in DOMAIN c, j \in DOMAIN c :
                  1 < i /\ i <= j /\ (\A k \in i .. j - 1 : c[k] >= 128) => DerNumber(c, i - 1, j, 128) < 2^DerArcBits
    IN  /\ wellFormed /\ fits =>
             c = <<40 * arcs[1] + arcs[2]>> \o FlattenSeq([i \in 1 .. Len(arcs) - 2 |-> arc(arcs[i + 2])])
        /\ c # <<>> => (arcs = <<>> <=> Len(c) > 1 /\ Last(c) >= 128)

\* What der_encode_set() writes is read back as one element with that content.
DerSetInverts ==
  der.ask = "set" =>
    LET data == DerEncodeSet([i \in 1 .. der.length |-> 0])
        el == DerElement(data, Len(data), 0)
    IN  el.ok /\ el.number = 17 /\ el.constructed /\ el.length = der.length /\ el.total = Len(data)

\* A structure is read exactly when it begins with one of its forms, each
\* field with what must be inside it, and is nothing more where nothing may
\* follow; and every field is found where that form has it.
DerFieldsExact ==
  der.ask = "fields" =>
    LET read == DerFields(der.pattern, der.els)
        forms == {f \in DerForms(der.pattern) : DerFollows(der.els, f) /\ (der.pattern.whole => Len(f) = Len(der.els))}
    IN  /\ read.ok <=> forms # {}
        /\ read.ok => \E f \in forms : read.at = Len(f) + 1 /\ read.found = [i \in DOMAIN f |-> <<f[i].name, i>>]
=============================================================================

---------------------------- MODULE Authenticode ----------------------------
EXTENDS Integers, SequencesExt, FiniteSets

(***************************************************************************)
(* BigUInt: the arithmetic that RSA signatures are verified with.  A       *)
(* number is the sequence of its limbs, the least significant first, with  *)
(* no zero limb at the end.  The 32 bits of a limb and its 4 bytes are     *)
(* constants, so that carries happen with small numbers; every operator is *)
(* compared with the same operation on integers.                           *)
(***************************************************************************)

CONSTANTS BnByteBits, BnLimbBytes,  \* bits of a byte, bytes of a limb
          BnMaxBytes                \* bound: bytes of the numbers asked about

ASSUME BnConstants == {BnByteBits, BnLimbBytes, BnMaxBytes} \subseteq Nat \ {0}

VARIABLE bn   \* the question asked

BnByte == 2^BnByteBits
BnBits == BnByteBits * BnLimbBytes
BnBase == 2^BnBits

BnDigit(a, i) == IF i \in DOMAIN a THEN a[i] ELSE 0

BnTrim(a) == SubSeq(a, 1, SelectLastInSeq(a, LAMBDA d : d # 0))

BnFromSmall(v) == IF v = 0 THEN <<>> ELSE <<v>>

\* from_bytes_be(): byte i from the end goes to limb i / 4.
BnFromBytes(bytes) ==
  LET start == SelectInSeq(bytes, LAMBDA b : b # 0)
      n == IF start = 0 THEN 0 ELSE Len(bytes) - start + 1
      byte(i) == IF i < n THEN bytes[Len(bytes) - i] ELSE 0
      value[l \in 0 .. n, k \in 0 .. BnLimbBytes] ==
        IF k = 0 THEN 0 ELSE value[l, k - 1] + byte(l * BnLimbBytes + k - 1) * BnByte^(k - 1)
  IN  BnTrim([l \in 1 .. (n + BnLimbBytes - 1) \div BnLimbBytes |-> value[l - 1, BnLimbBytes]])

\* to_bytes_be()
BnToBytes(a, min) ==
  LET big == [i \in 1 .. Len(a) * BnLimbBytes |->
                LET j == Len(a) * BnLimbBytes - i
                IN  (a[j \div BnLimbBytes + 1] \div BnByte^(j % BnLimbBytes)) % BnByte]
      lead == SelectInSeq(big, LAMBDA b : b # 0)
      trimmed == IF lead = 0 THEN <<>> ELSE SubSeq(big, lead, Len(big))
  IN  [i \in 1 .. (IF Len(trimmed) < min THEN min - Len(trimmed) ELSE 0) |-> 0] \o trimmed

\* bit_length() and get_bit()
BnBitLength(a) ==
  IF a = <<>> THEN 0 ELSE (Len(a) - 1) * BnBits + CHOOSE n \in 1 .. BnBits : 2^(n - 1) <= Last(a) /\ Last(a) < 2^n

BnBit(a, i) == (BnDigit(a, i \div BnBits + 1) \div 2^(i % BnBits)) % 2 = 1

\* compare(a, b) < 0
BnLess(a, b) ==
  \/ Len(a) < Len(b)
  \/ /\ Len(a) = Len(b)
     /\ \E i \in DOMAIN a : a[i] < b[i] /\ \A j \in DOMAIN a : j > i => a[j] = b[j]

\* add(): the carry goes from limb to limb.
BnAdd(a, b) ==
  LET n == (IF Len(a) > Len(b) THEN Len(a) ELSE Len(b)) + 1
      carry[i \in 0 .. n] == IF i = 0 THEN 0 ELSE (BnDigit(a, i) + BnDigit(b, i) + carry[i - 1]) \div BnBase
  IN  BnTrim([i \in 1 .. n |-> (BnDigit(a, i) + BnDigit(b, i) + carry[i - 1]) % BnBase])

\* subtract(), for a >= b
BnSubtract(a, b) ==
  LET borrow[i \in 0 .. Len(a)] == IF i = 0 THEN 0 ELSE IF a[i] - BnDigit(b, i) - borrow[i - 1] < 0 THEN 1 ELSE 0
  IN  BnTrim([i \in DOMAIN a |-> (a[i] - BnDigit(b, i) - borrow[i - 1] + BnBase) % BnBase])

\* A row of multiply(): limb i of a, with value d, times b is added to the
\* result so far; the last carry runs on through the limbs above.
BnRow(acc, d, i, b) ==
  LET prod(j, c) == IF j <= Len(b) THEN d * b[j] + acc[i + j - 1] + c ELSE acc[i + j - 1] + c
      carry[j \in 0 .. Len(acc) - i + 1] == IF j = 0 THEN 0 ELSE prod(j, carry[j - 1]) \div BnBase
  IN  [k \in DOMAIN acc |-> IF k < i THEN acc[k] ELSE prod(k - i + 1, carry[k - i]) % BnBase]

BnMultiply(a, b) ==
  LET rows[i \in 0 .. Len(a)] == IF i = 0 THEN [k \in 1 .. Len(a) + Len(b) |-> 0] ELSE BnRow(rows[i - 1], a[i], i, b)
  IN  IF a = <<>> \/ b = <<>> THEN <<>> ELSE BnTrim(rows[Len(a)])

\* shift_left_one_bit()
BnShift(a) ==
  BnTrim([i \in 1 .. Len(a) + 1 |-> ((BnDigit(a, i) * 2) % BnBase) + (BnDigit(a, i - 1) \div 2^(BnBits - 1))])

BnReduce(r, m) == IF BnLess(r, m) THEN r ELSE BnSubtract(r, m)

\* mod(): long division, bit by bit from the top.
BnMod(a, m) ==
  LET n == BnBitLength(a)
      rem[k \in 0 .. n] ==
        IF k = 0 THEN <<>>
        ELSE BnReduce(IF BnBit(a, n - k) THEN BnAdd(BnShift(rem[k - 1]), BnFromSmall(1)) ELSE BnShift(rem[k - 1]), m)
  IN  IF m = <<>> THEN <<>> ELSE IF BnLess(a, m) THEN a ELSE rem[n]

\* mod_pow(): square and multiply, from the lowest bit of the exponent.
BnModPow(base, exp, m) ==
  LET bits == BnBitLength(exp)
      turn[i \in 0 .. bits] ==
        IF i = 0 THEN [result |-> BnFromSmall(1), base |-> BnMod(base, m)]
        ELSE [result |-> IF BnBit(exp, i - 1) THEN BnMod(BnMultiply(turn[i - 1].result, turn[i - 1].base), m)
                         ELSE turn[i - 1].result,
              base |-> BnMod(BnMultiply(turn[i - 1].base, turn[i - 1].base), m)]
  IN  IF m = <<>> THEN <<>> ELSE turn[bits].result

BnInit == bn = [ask |-> "idle"]

BnBytes == UNION {[1 .. n -> 0 .. BnByte - 1] : n \in 0 .. BnMaxBytes}

BnStep ==
  /\ bn.ask = "idle"
  /\ \/ \E x \in BnBytes, y \in BnBytes : bn' = [ask |-> "pair", x |-> x, y |-> y]
     \/ \E x, e, m \in {b \in BnBytes : Len(b) = 3} : bn' = [ask |-> "pow", x |-> x, e |-> e, m |-> m]

\* The integer that bytes, or limbs, stand for.
BnValue(bytes) == LET v[i \in 0 .. Len(bytes)] == IF i = 0 THEN 0 ELSE v[i - 1] * BnByte + bytes[i] IN v[Len(bytes)]
BnLimbsOf(n) ==
  LET rest[i \in 0 .. 20] == IF i = 0 THEN n ELSE rest[i - 1] \div BnBase
      top == CHOOSE i \in 0 .. 20 : rest[i] = 0 /\ \A j \in 0 .. i - 1 : rest[j] > 0
  IN  [i \in 1 .. top |-> rest[i - 1] % BnBase]

\* Bytes are read into limbs and written back without loss, leading zeros
\* aside, padded to the length that is asked for.
BnBytesKept ==
  bn.ask = "pair" =>
    /\ BnFromBytes(bn.x) = BnLimbsOf(BnValue(bn.x))
    /\ Len(bn.x) >= Len(bn.y) => Len(BnToBytes(BnFromBytes(bn.y), Len(bn.x))) = Len(bn.x)
    /\ BnValue(BnToBytes(BnFromBytes(bn.x), Len(bn.y))) = BnValue(bn.x)

\* Sum, difference, product and order are those of the integers, however the
\* carries run.
BnArithmetic ==
  bn.ask = "pair" =>
    LET a == BnFromBytes(bn.x)
        b == BnFromBytes(bn.y)
        u == BnValue(bn.x)
        v == BnValue(bn.y)
    IN  /\ BnAdd(a, b) = BnLimbsOf(u + v) /\ BnMultiply(a, b) = BnLimbsOf(u * v)
        /\ BnLess(a, b) <=> u < v
        /\ u >= v => BnSubtract(a, b) = BnLimbsOf(u - v)
        /\ v > 0 => BnMod(a, b) = BnLimbsOf(u % v)

\* The power is that of the integers (with the modulus 1 and the exponent 0,
\* which no key has, the code answers 1).
BnPower ==
  bn.ask = "pow" =>
    LET u == BnValue(bn.x)
        e == BnValue(bn.e)
        m == BnValue(bn.m)
        pow[i \in 0 .. e] == IF i = 0 THEN 1 % m ELSE (pow[i - 1] * u) % m
    IN  m > 0 /\ ~(m = 1 /\ e = 0) =>
          BnModPow(BnFromBytes(bn.x), BnFromBytes(bn.e), BnFromBytes(bn.m)) = BnLimbsOf(pow[e])

-----------------------------------------------------------------------------
(***************************************************************************)
(* verify_authenticode() and verify_certificate_chain(): whether a file    *)
(* carries a signature that chains to a compiled-in root; the check of the *)
(* padding of an RSA signature; and what the Authenticode hash of a PE     *)
(* file covers.  A certificate is its subject, its issuer, the name of the *)
(* key that really signed it and how, and whether an RSA key was read from *)
(* it; bytes and hashes are compared as wholes.                            *)
(***************************************************************************)

CONSTANTS AuNames,         \* names of subjects and issuers
          AuAnchors,       \* names of the compiled-in roots, which hold their own keys
          AuMaxCerts,      \* bound: certificates in the blob
          kMaxChainDepth,
          AuMinPad, AuMaxEm,  \* padding bytes that are required; bound: length of the encoded message
          AuMaxFile        \* bound: length of a file

ASSUME AuConstants == AuAnchors \subseteq AuNames /\ {AuMaxCerts, kMaxChainDepth, AuMinPad, AuMaxEm, AuMaxFile} \subseteq Nat

VARIABLE au   \* the question asked

\* The compiled-in roots have RSA keys.
AuAnchor(name) == [subject |-> name, rsa |-> TRUE]

\* verify_cert_signed_by(): an issuer without an RSA key and an algorithm other
\* than the two supported fail; the issuer's key is named by its subject.
AuSignedBy(cert, issuer) ==
  issuer.rsa /\ cert.algorithm \in {"sha256", "sha384"} /\ cert.signedBy = issuer.subject


AuAtAnchor(cert) == IF AuSignedBy(cert, AuAnchor(cert.issuer)) THEN "TRUSTED" ELSE "CHAIN_INVALID"

\* The first certificate of the blob, other than the current one, whose
\* subject is the issuer's name.
AuIssuer(certs, at) ==
  SelectInSeq([i \in DOMAIN certs |-> i # at /\ certs[i].subject = certs[at].issuer], LAMBDA b : b)

\* verify_certificate_chain() from the certificate leaf: at each turn the trust
\* anchors, then the blob.  state.at is the current certificate.
AuChain(certs, leaf) ==
  LET turn[n \in 0 .. kMaxChainDepth] ==
        IF n = 0 THEN [at |-> leaf, verdict |-> "", path |-> <<leaf>>]
        ELSE LET prev == turn[n - 1]
                 cert == certs[prev.at]
                 next == AuIssuer(certs, prev.at)
             IN  IF prev.verdict # "" THEN prev
                 ELSE IF cert.issuer \in AuAnchors THEN [prev EXCEPT !.verdict = AuAtAnchor(cert)]
                 ELSE IF next = 0 THEN [prev EXCEPT !.verdict = "VALID_UNTRUSTED_ROOT"]
                 ELSE IF ~AuSignedBy(cert, certs[next]) THEN [prev EXCEPT !.verdict = "CHAIN_INVALID"]
                 ELSE [at |-> next, verdict |-> "", path |-> Append(prev.path, next)]
      last == turn[kMaxChainDepth]
  IN  IF last.verdict # "" THEN last ELSE [last EXCEPT !.verdict = "VALID_UNTRUSTED_ROOT"]

\* verify_authenticode(): the checks in their order.  Contents and files are
\* named by their hashes, and a content claims the file of its name: s.content
\* is the content of the blob, s.digest the messageDigest among its signed
\* attributes and s.signed the one among those that the key really signed
\* ("none" where there is no such attribute).
AuVerify(s, chain) ==
  IF ~s.parsed \/ ~s.signerFound \/ ~s.sha256 THEN "MALFORMED"
  ELSE IF s.digest # s.signed THEN "SIGNATURE_INVALID"
  ELSE IF (s.digest # "none" /\ s.digest # s.content) \/ s.content = "claims nothing" \/ s.file = "not PE" THEN "MALFORMED"
  ELSE IF s.content # s.file THEN "HASH_MISMATCH"
  ELSE chain

\* verify_pkcs1v15() of the message decoded from the signature: 0, 1, at
\* least AuMinPad bytes 255, 0, and then the digest info and nothing more.
AuPadded(em, info) ==
  LET stop == SelectInSeq(SubSeq(em, 3, Len(em)), LAMBDA b : b # 255)
      i == 2 + stop
  IN  /\ Len(em) >= 3 + AuMinPad /\ em[1] = 0 /\ em[2] = 1
      /\ stop # 0 /\ stop - 1 >= AuMinPad /\ em[i] = 0
      /\ Len(em) - i = Len(info)
      /\ SubSeq(em, i + 1, Len(em)) = info

-----------------------------------------------------------------------------
\* compute_authenticode_pe_hash_sha256(): the bytes hashed, in their order,
\* as intervals <<from, to>> (to excluded).  A file has a size, the end of its
\* headers, the places of the checksum and of the directory entry, a
\* certificate table and sections.
AuFits(size, offset, length) == offset <= size /\ length <= size - offset

AuExtra(f, start) ==
  LET end == IF f.tableSize > 0 THEN f.table ELSE f.size
  IN  IF end > start THEN <<<<start, end>>>> ELSE <<>>

AuHashed(f) ==
  LET used == SortSeq(SelectSeq(f.sections, LAMBDA s : s.length > 0), LAMBDA a, b : a.offset < b.offset)
      ends == {f.headers} \union {s.offset + s.length : s \in ToSet(used)}
      start == CHOOSE e \in ends : \A x \in ends : x <= e
  IN  IF \/ ~AuFits(f.size, 0, f.headers) \/ f.headers < f.checksum + 1 \/ f.entry + 1 > f.headers
         \/ f.tableSize > 0 /\ ~AuFits(f.size, f.table, f.tableSize)
         \/ \E s \in ToSet(used) : ~AuFits(f.size, s.offset, s.length)
      THEN <<>>
      ELSE <<<<0, f.checksum>>, <<f.checksum + 1, f.entry>>, <<f.entry + 1, f.headers>>>>
             \o [i \in DOMAIN used |-> <<used[i].offset, used[i].offset + used[i].length>>] \o AuExtra(f, start)

-----------------------------------------------------------------------------
AuInit == au = [ask |-> "idle"]

AuCerts == [subject : AuNames, issuer : AuNames, signedBy : AuNames, algorithm : {"sha256", "other"}, rsa : BOOLEAN]
AuSignatures ==
  [parsed : BOOLEAN, signerFound : BOOLEAN, sha256 : BOOLEAN, content : {"A", "B", "claims nothing"}, file : {"A", "B", "not PE"},
   digest : {"A", "B", "none"}, signed : {"A", "B", "none", "something else"}]
\* A header of four cells: 1 is the checksum, 2 the directory entry.
AuFiles ==
  {[size |-> n, headers |-> h, checksum |-> 1, entry |-> 2, table |-> t, tableSize |-> k,
    sections |-> <<[offset |-> o, length |-> l], [offset |-> p, length |-> 1]>>] :
     n \in 4 .. AuMaxFile, h \in 2 .. 4, t \in 0 .. AuMaxFile, k \in 0 .. 2, o \in 3 .. AuMaxFile, l \in 0 .. 2, p \in 3 .. AuMaxFile}

AuStep ==
  /\ au.ask = "idle"
  /\ \/ \E n \in 1 .. AuMaxCerts : \E certs \in [1 .. n -> AuCerts], leaf \in 1 .. n :
          au' = [ask |-> "chain", certs |-> certs, leaf |-> leaf]
     \/ \E s \in AuSignatures : au' = [ask |-> "signature", s |-> s]
     \/ \E n \in 0 .. AuMaxEm : \E em \in [1 .. n -> {0, 1, 7, 255}] : au' = [ask |-> "padding", em |-> em]
     \/ \E f \in AuFiles : au' = [ask |-> "file", f |-> f]

\* A trusted chain is one: each certificate on it is signed by the key of the
\* next, in a way that is supported, and the last by a compiled-in root; an
\* unknown root is reported only when every signature on the way was good.  A
\* walk that goes in a circle ends with that report too, where the header
\* (authenticode.hpp:53-54) says CHAIN_INVALID: it is never trusted.
AuTrustedIsChained ==
  au.ask = "chain" =>
    LET r == AuChain(au.certs, au.leaf)
        onPath(i) == au.certs[r.path[i]]
        by(c, name) == c.signedBy = name /\ c.algorithm # "other"
        top == onPath(Len(r.path))
    IN  /\ \A i \in 1 .. Len(r.path) - 1 : by(onPath(i), onPath(i + 1).subject) /\ onPath(i + 1).rsa
        /\ r.verdict = "TRUSTED" <=> top.issuer \in AuAnchors /\ by(top, top.issuer) /\ Len(r.path) <= kMaxChainDepth
        /\ Len(r.path) > kMaxChainDepth => r.verdict = "VALID_UNTRUSTED_ROOT"

\* What is trusted is the file that the blob's content claims, and what the key
\* signed is that content, if the signed attributes say of which content they
\* are.  Attributes without a messageDigest, which the header's second step
\* (authenticode.hpp:28) and pkcs7.cpp:93-95 count on, are accepted: the key
\* then signed no content at all, and any that claims the file is trusted.
AuTrustedIsThisFile ==
  au.ask = "signature" /\ AuVerify(au.s, "TRUSTED") = "TRUSTED" =>
    /\ au.s.content = au.s.file
    /\ au.s.signed = au.s.file \/ au.s.signed = "none"

\* A padded message is accepted only if it is the one encoding of its length:
\* no byte of it is free.
AuPaddingExact ==
  au.ask = "padding" =>
    LET info == <<7, 7>>
        k == Len(au.em) - 3 - Len(info)
    IN  AuPadded(au.em, info) <=> k >= AuMinPad /\ au.em = <<0, 1>> \o [i \in 1 .. k |-> 255] \o <<0>> \o info

\* In a file whose sections do not overlap and begin where the headers end,
\* the hash covers every byte but the checksum, the directory entry and what
\* lies from the certificate table on, each once.
AuHashCovers ==
  au.ask = "file" =>
    LET f == au.f
        hashed == AuHashed(f)
        times(b) == Cardinality({i \in DOMAIN hashed : hashed[i][1] <= b /\ b < hashed[i][2]})
        sec(i) == f.sections[i].offset .. f.sections[i].offset + f.sections[i].length - 1
        used == sec(1) \union sec(2)
        regular == sec(1) \intersect sec(2) = {} /\ \E e \in f.headers .. f.size : used = f.headers .. e - 1
        end == IF f.tableSize > 0 THEN f.table ELSE f.size
    IN  hashed # <<>> /\ regular =>
          \A b \in 0 .. f.size - 1 :
            times(b) = IF b \in {f.checksum, f.entry} \/ (b >= end /\ b >= f.headers /\ b \notin used) THEN 0 ELSE 1
=============================================================================

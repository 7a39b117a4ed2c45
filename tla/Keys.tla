-------------------------------- MODULE Keys --------------------------------
(***************************************************************************)
(* kmiputil: KeyReader, KeyWriter and KeyGenerator.  Keys are read from    *)
(* PEM, hex and Base64 text and written as such; OpenSSL does the parsing, *)
(* and the errors it leaves are kept from the caller by an                 *)
(* OpenSslErrorScope.                                                      *)
(*                                                                         *)
(* A PEM text is a sequence of lines [k, label, chars, der, trail]: kind   *)
(* ("begin", "end", "data", or "text" for anything else), label, Base64    *)
(* characters, the DER value OpenSSL decodes them to, and whether          *)
(* whitespace trails.  DER is [form, id, pkey, exact]: encoding, which     *)
(* key, its EVP_PKEY type, and whether nothing follows it.                 *)
(***************************************************************************)
EXTENDS Encoding, ErrorQueue, FiniteSetsExt

CONSTANTS
  AesSizes,      \* sizes of an AES key in bytes
  ServerKeys,    \* keys that an application may have got from a server
  KeyBytes,      \* key material whose encodings are among Texts
  Texts,         \* inputs of aes_from_hex, aes_from_base64, aes_from_value
  CallerQueues,  \* error queues that a caller may have pending
  MaxErrors,     \* bound: errors of one OpenSSL call
  MaxLines,      \* bound: lines of a PEM text
  Absent, Damaged

VARIABLES
  doc,      \* PEM text
  written,  \* history: the key that doc is the PEM of, through changes that
            \* keep it (line endings, wrapping, text around it); Absent if
            \* it is not of one key, Damaged after another change
  key,      \* the key at hand, or Absent
  pc,       \* stage of from_PEM or to_PEM, "idle" outside
  queue,    \* the thread's OpenSSL error queue
  caller,   \* history: the queue when the call began
  lost,     \* history: the ring was full in this call
  fault,    \* history: memory ran out in this call
  outcome   \* what the last call yielded

vars == <<doc, written, key, pc, queue, caller, lost, fault, outcome, countsMarks>>

None == [op |-> "none", ok |-> FALSE, key |-> Absent, report |-> "", text |-> <<>>]

Init ==
  /\ doc = <<>> /\ written = Absent /\ key = Absent /\ pc = "idle"
  /\ queue \in CallerQueues /\ caller = queue /\ lost = FALSE /\ fault = FALSE
  /\ outcome = None /\ countsMarks \in BOOLEAN

-----------------------------------------------------------------------------
(* Keys *)

\* make_aes_key
MakeAesKey(d) ==
  IF d.ok /\ Len(d.bytes) \in AesSizes
  THEN [type |-> "symmetric", algorithm |-> "AES", bits |-> 8 * Len(d.bytes),
        value |-> d.bytes]
  ELSE Absent

\* kmip_algorithm
KmipAlgorithm(pkey) ==
  CASE pkey \in {"RSA", "RSA_PSS"} -> "RSA"
    [] pkey \in {"DSA", "DH", "EC", "ED25519", "ED448"} -> pkey
    [] OTHER -> "UNSET"

\* EVP_PKEY_bits: 1.1.1 reports 253 for Ed25519, 0 stands for unknown.
PkeyBits(pkey) ==
  CASE pkey \in {"RSA", "RSA_PSS"} -> 2048
    [] pkey \in {"X25519", "ED25519"} -> 253
    [] OTHER -> 0

KeyLengthBits(pkey) ==
  CASE pkey = "ED25519" -> 256
    [] pkey = "ED448"   -> 456
    [] OTHER            -> PkeyBits(pkey)

\* key_attributes: algorithm and length together or not at all.
AsymmetricKey(type, der) ==
  LET known == /\ der.pkey # Absent
               /\ KmipAlgorithm(der.pkey) # "UNSET" /\ KeyLengthBits(der.pkey) > 0
  IN [type |-> type,
      algorithm |-> IF known THEN KmipAlgorithm(der.pkey) ELSE "UNSET",
      bits |-> IF known THEN KeyLengthBits(der.pkey) ELSE 0,
      value |-> der]

-----------------------------------------------------------------------------
(* OpenSSL: errors and PEM *)

PutAll(q, n) == FoldLeft(Put, q, [i \in 1 .. n |-> "openssl"])

\* What an OpenSSL call may do to the queue: set a mark, push errors and pop
\* to the mark, then push errors that stay.  [q, lost]: lost if the ring was
\* too small for them.
Called(q) ==
  LET quiet == {[q |-> q, lost |-> FALSE]}
      inner == {[q |-> PopToMark(PutAll(SetMark(q), n)),
                 lost |-> Len(q) + n >= NumErrors] : n \in 0 .. MaxErrors}
  IN {[q |-> PutAll(c.q, n), lost |-> c.lost \/ Len(c.q) + n >= NumErrors] :
        c \in quiet \cup inner, n \in 0 .. MaxErrors}

\* The lines after position p up to the next END form a block if that END
\* matches the BEGIN and only data is between; otherwise reading fails.
Begins(text, p) == {i \in p .. Len(text) : text[i].k = "begin"}
Ends(text, b) == {j \in b + 1 .. Len(text) : text[j].k = "end"}
IsBlock(text, b) ==
  /\ Ends(text, b) # {}
  /\ LET e == Min(Ends(text, b))
     IN /\ text[e].label = text[b].label
        /\ e > b + 1 /\ \A i \in b + 1 .. e - 1 : text[i].k = "data"

\* What a block's body must be to be read; a passphrase is never supplied.
LabelForm ==
  [l \in {"CERTIFICATE", "PRIVATE KEY", "RSA PRIVATE KEY", "PUBLIC KEY"} |->
     CASE l = "CERTIFICATE" -> "x509" [] l = "PRIVATE KEY" -> "pkcs8"
       [] l = "RSA PRIVATE KEY" -> "pkcs1" [] l = "PUBLIC KEY" -> "spki"]

\* The DER of the blocks under one of these labels, in order, as far as they
\* can be read; Absent where the body is not what the label says.
PemBlocks(text, labels) ==
  LET der(b) == LET d == text[b + 1].der
                IN IF /\ text[b].label \in DOMAIN LabelForm /\ d # Absent
                      /\ d.form = LabelForm[text[b].label] /\ d.exact
                   THEN d ELSE Absent
      read[p \in 1 .. Len(text) + 1] ==
        IF Begins(text, p) = {} THEN <<>>
        ELSE LET b == Min(Begins(text, p))
             IN IF ~IsBlock(text, b) THEN <<>>
                ELSE (IF text[b].label \in labels THEN <<der(b)>> ELSE <<>>)
                     \o read[Min(Ends(text, b)) + 1]
  IN read[1]

\* PEM_read_bio_*: the first block under the labels, if it decodes; OpenSSL 3
\* may go on to the next one if it does not.
PemRead(text, labels) ==
  LET ders == PemBlocks(text, labels)
      fits == {i \in DOMAIN ders : ders[i] # Absent}
  IN IF fits = {} THEN {Absent}
     ELSE IF 1 \in fits THEN {ders[1]}
     ELSE {Absent, ders[Min(fits)]}

\* A PEM text of one block.
Block(label, chars, der) ==
  LET line(k) == [k |-> k, label |-> label, chars |-> IF k = "data" THEN chars ELSE <<45>>,
                  der |-> IF k = "data" THEN der ELSE Absent, trail |-> FALSE]
  IN <<line("begin"), line("data"), line("end")>>

-----------------------------------------------------------------------------
(* KeyReader *)

Return(result) ==
  /\ pc' = "idle" /\ outcome' = result
  /\ key' = result.key

\* A call that opens an OpenSslErrorScope.
OpenScope ==
  /\ caller' = queue
  /\ lost' = (Len(queue) + 1 >= NumErrors)
  /\ fault' = FALSE /\ outcome' = None

\* from_PEM: the scope and the BIO.  An empty text is unsupported.
FromPem ==
  /\ pc = "idle"
  /\ \/ /\ doc = <<>>
        /\ Return([None EXCEPT !.op = "read"])
        /\ UNCHANGED <<queue, caller, lost, fault>>
     \/ /\ doc # <<>>
        /\ OpenScope
        /\ pc' = "certificate" /\ key' = Absent
        /\ queue' = MarkErrors(queue)
  /\ UNCHANGED <<doc, written>>

FromPemNoBio ==
  /\ pc = "certificate" /\ ~fault
  /\ \E c \in Called(queue) :
       /\ queue' = PopToMark(c.q) /\ lost' = (lost \/ c.lost)
  /\ fault' = TRUE
  /\ Return([None EXCEPT !.op = "read"])
  /\ UNCHANGED <<doc, written, caller>>

\* try_parse_x509_certificate, try_parse_private_key, try_parse_public_key.
\* The key is returned as DER in the form KeyReader stores.  no_passphrase
\* refuses an encrypted key.
Parsers ==
  [certificate |-> [labels |-> {"CERTIFICATE"}, stored |-> "x509", next |-> "private"],
   private     |-> [labels |-> {"PRIVATE KEY", "RSA PRIVATE KEY", "ENCRYPTED PRIVATE KEY"},
                    stored |-> "pkcs8", next |-> "public"],
   public      |-> [labels |-> {"PUBLIC KEY"}, stored |-> "spki", next |-> "aes"]]

\* One iteration of the loop of from_PEM.  A parsed key that cannot be
\* encoded again (i2d_* has no memory) counts as not parsed.
TryParse(stage) ==
  /\ pc = stage
  /\ \E der \in PemRead(doc, Parsers[stage].labels),
        c \in Called(queue) :
       /\ lost' = (lost \/ c.lost)
       /\ \/ /\ der # Absent
             /\ Return([None EXCEPT !.op = "read", !.ok = TRUE, !.key =
                          AsymmetricKey(stage, [der EXCEPT !.form = Parsers[stage].stored])])
             /\ queue' = PopToMark(c.q)
             /\ UNCHANGED fault
          \/ /\ fault' = (fault \/ der # Absent)
             /\ pc' = Parsers[stage].next
             /\ queue' = ResetErrors(c.q)
             /\ UNCHANGED <<key, outcome>>
  /\ UNCHANGED <<doc, written, caller>>

\* trim_trailing_whitespace
Trimmed(line) == [line EXCEPT !.trail = FALSE]

IsLine(line, k) ==
  LET l == Trimmed(line) IN l.k = k /\ l.label = "SYMMETRIC KEY" /\ ~l.trail

\* Mutant of AesFromPemText: a missing END line is not noticed.
AesFromPemTextUnterminated(text) ==
  LET begins == {i \in DOMAIN text : IsLine(text[i], "begin")}
      b      == Min(begins)
      ends   == {j \in b + 1 .. Len(text) : IsLine(text[j], "end")}
      e      == IF ends = {} THEN Len(text) + 1 ELSE Min(ends)
      b64    == FlattenSeq([i \in 1 .. e - b - 1 |-> text[b + i].chars])
  IN IF begins = {} \/ e = b + 1 THEN Absent ELSE MakeAesKey(FromBase64(b64))

\* try_parse_aes_from_pem_text: the lines between the first BEGIN and the
\* next END SYMMETRIC KEY are one Base64 text.
AesFromPemText(text) ==
  LET begins == {i \in DOMAIN text : IsLine(text[i], "begin")}
      b      == Min(begins)
      ends   == {j \in b + 1 .. Len(text) : IsLine(text[j], "end")}
      b64    == FlattenSeq([i \in 1 .. Min(ends) - b - 1 |-> text[b + i].chars])
  IN IF begins = {} THEN Absent
     ELSE IF ends = {} THEN Absent
     ELSE IF b64 = <<>> THEN Absent
     ELSE MakeAesKey(FromBase64(b64))

\* The end of from_PEM: an AES key, or "Unsupported PEM format".
TryParseAes ==
  /\ pc = "aes"
  /\ LET k == AesFromPemText(doc)
     IN Return([None EXCEPT !.op = "read", !.ok = k # Absent, !.key = k])
  /\ queue' = PopToMark(queue)
  /\ UNCHANGED <<doc, written, caller, lost, fault>>

\* aes_from_hex, aes_from_base64, aes_from_value (the bytes as they are).
\* They share no state with the PEM functions: bound, a text is read only
\* before any other call, and the key at hand stays another.
AesFromText ==
  /\ outcome = None /\ key = Absent /\ doc = <<>> /\ pc = "idle"
  /\ \E t \in Texts, op \in {"hex", "base64", "value"} :
       LET d == CASE op = "hex" -> FromHex(t)
                  [] op = "base64" -> FromBase64(t)
                  [] op = "value" -> Decoded(t)
           k == MakeAesKey(d)
       IN outcome' = [None EXCEPT !.op = op, !.ok = k # Absent, !.key = k, !.text = t]
  /\ UNCHANGED <<doc, written, key, pc, queue, caller, lost, fault>>

-----------------------------------------------------------------------------
(* KeyGenerator *)

\* generate_aes: RAND_bytes under a scope.
GenerateAes ==
  /\ pc = "idle"
  /\ caller' = queue /\ fault' = FALSE
  /\ \E size \in AesSizes, c \in Called(MarkErrors(queue)) :
       /\ lost' = (c.lost \/ Len(queue) + 1 >= NumErrors)
       /\ queue' = PopToMark(c.q)
       /\ \/ Return([None EXCEPT !.op = "generate", !.ok = TRUE, !.key =
                       MakeAesKey(Decoded([i \in 1 .. size |-> 255 - i]))])
          \/ Return([None EXCEPT !.op = "generate", !.report = LastError(c.q)])
  /\ UNCHANGED <<doc, written>>

\* is_subject_public_key_info (KmipClient.cpp), which op_get_key calls on a
\* public key: a structure check under a mark of its own.
IsSubjectPublicKeyInfo ==
  /\ pc = "idle" /\ key # Absent /\ key.type = "public"
  /\ caller' = queue /\ fault' = FALSE
  /\ \E c \in Called(MarkErrors(queue)) :
       /\ lost' = (c.lost \/ Len(queue) + 1 >= NumErrors)
       /\ queue' = PopToMark(c.q)
  /\ outcome' = [None EXCEPT !.op = "spki",
                            !.ok = key.value.form = "spki" /\ key.value.exact]
  /\ UNCHANGED <<doc, written, key, pc>>

NoCall ==
  /\ caller' = queue /\ lost' = FALSE /\ fault' = FALSE /\ outcome' = None
  /\ UNCHANGED <<pc, queue>>

\* An application has a key of its own, or one from a server.
HaveKey ==
  /\ pc = "idle"
  /\ key' \in ServerKeys
  /\ NoCall
  /\ UNCHANGED <<doc, written>>

-----------------------------------------------------------------------------
(* KeyWriter *)

\* The text is written after what the file already holds.
Written(k, text) ==
  /\ doc' = doc \o text
  /\ written' = IF doc = <<>> THEN k ELSE IF written = Damaged THEN Damaged ELSE Absent
  /\ Return([None EXCEPT !.op = "write", !.ok = TRUE])

\* Mutant of IsAesKey: the size alone decides.
HasAesSize(k) == Len(k.value) \in AesSizes

\* is_aes_key
IsAesKey(k) == k.algorithm = "AES" /\ Len(k.value) \in AesSizes

\* symmetric_key_to_pem
SymmetricKeyToPem ==
  /\ pc = "idle" /\ key # Absent /\ key.type = "symmetric"
  /\ Len(doc) + 3 <= MaxLines
  /\ \/ /\ IsAesKey(key)
        /\ Written(key, Block("SYMMETRIC KEY", ToBase64(key.value), Absent))
     \/ /\ ~IsAesKey(key)
        /\ Return([None EXCEPT !.op = "write", !.report = "unsupported"])
        /\ UNCHANGED <<doc, written>>
  /\ UNCHANGED <<queue, caller, lost, fault>>

\* certificate_to_pem, private_key_to_pem and public_key_to_pem: a scope is
\* opened and the DER value decoded; it must be used up.
ToPem ==
  /\ pc = "idle" /\ key # Absent /\ key.type # "symmetric"
  /\ Len(doc) + 3 <= MaxLines
  /\ OpenScope
  /\ queue' = MarkErrors(queue)
  /\ pc' = "decode"
  /\ UNCHANGED <<doc, written, key>>

Decoders ==
  [certificate |-> [label |-> "CERTIFICATE", forms |-> {"x509"}, stored |-> "x509"],
   private     |-> [label |-> "PRIVATE KEY", forms |-> {"pkcs8", "pkcs1"},
                    stored |-> "pkcs8"],
   public      |-> [label |-> "PUBLIC KEY", forms |-> {"spki"}, stored |-> "spki"]]

\* throw_invalid
Invalid(q) ==
  /\ Return([None EXCEPT !.op = "write", !.report = LastError(q)])
  /\ queue' = PopToMark(q)
  /\ UNCHANGED <<doc, written>>

DecodedBy(forms) == key.value.form \in forms /\ key.value.exact

\* d2i_X509, d2i_AutoPrivateKey, d2i_PUBKEY; not called for an empty value.
Decode ==
  /\ pc = "decode"
  /\ LET good == DecodedBy(Decoders[key.type].forms)
     IN \/ key.value.form = "empty" /\ Invalid(queue) /\ UNCHANGED lost
        \/ /\ key.value.form # "empty"
           /\ \E c \in Called(queue) :
                /\ lost' = (lost \/ c.lost)
                /\ \/ /\ good \/ key.type = "public"
                      /\ pc' = IF good THEN "write" ELSE "decode_rsa"
                      /\ queue' = IF good THEN c.q ELSE ResetErrors(c.q)
                      /\ UNCHANGED <<doc, written, key, outcome>>
                   \/ ~good /\ key.type # "public" /\ Invalid(c.q)
  /\ UNCHANGED <<caller, fault>>

\* public_key_to_pem tries a PKCS#1 RSAPublicKey second.
DecodeRsa ==
  /\ pc = "decode_rsa"
  /\ \E c \in Called(queue) :
       /\ lost' = (lost \/ c.lost)
       /\ \/ /\ DecodedBy({"pkcs1"})
             /\ pc' = "write" /\ queue' = c.q
             /\ UNCHANGED <<doc, written, key, outcome>>
          \/ ~DecodedBy({"pkcs1"}) /\ Invalid(c.q)
  /\ UNCHANGED <<caller, fault>>

\* new_secure_bio, PEM_write_bio_* and bio_contents; they fail only for want
\* of memory.
Write ==
  /\ pc = "write"
  /\ LET d == Decoders[key.type]
     IN \E c \in Called(queue) :
          /\ lost' = (lost \/ c.lost)
          /\ \/ /\ Written(key, Block(d.label, <<65, 65, 65, 65>>,
                                      [key.value EXCEPT !.form = d.stored]))
                /\ queue' = PopToMark(c.q)
                /\ UNCHANGED fault
             \/ Invalid(c.q) /\ fault' = TRUE
             \/ /\ Return([None EXCEPT !.op = "write", !.report = "no output"])
                /\ queue' = PopToMark(c.q)
                /\ fault' = TRUE
                /\ UNCHANGED <<doc, written>>
  /\ UNCHANGED caller

-----------------------------------------------------------------------------
(* What happens to a PEM text outside of the program *)

Text == [k |-> "text", label |-> "", chars |-> <<45>>, der |-> Absent, trail |-> FALSE]

\* CRLF line endings, text before and after, a symmetric key on two lines.
Rewrap(i) ==
  LET half(a, b) == [doc[i] EXCEPT !.chars = SubSeq(@, a, b)]
      n == Len(doc[i].chars)
  IN SubSeq(doc, 1, i - 1) \o <<half(1, 1), half(2, n)>> \o SubSeq(doc, i + 1, Len(doc))

\* Bound: of one key's text.
Reformat ==
  /\ pc = "idle" /\ written \notin {Absent, Damaged}
  /\ \/ doc' = [i \in DOMAIN doc |-> [doc[i] EXCEPT !.trail = TRUE]]
     \/ Len(doc) < MaxLines /\ Text \notin Range(doc) /\ doc' \in {<<Text>> \o doc, Append(doc, Text)}
     \/ /\ Len(doc) < MaxLines
        /\ \E i \in DOMAIN doc :
             /\ doc[i].k = "data" /\ doc[i].label = "SYMMETRIC KEY" /\ Len(doc[i].chars) > 3
             /\ doc' = Rewrap(i)
  /\ key' = Absent /\ NoCall
  /\ UNCHANGED written

\* A line is lost, a label changed, an encrypted key put in the file.  Bound:
\* one such change.
Damage ==
  /\ pc = "idle" /\ doc # <<>> /\ written # Damaged
  /\ \/ \E i \in DOMAIN doc : doc' = SubSeq(doc, 1, i - 1) \o SubSeq(doc, i + 1, Len(doc))
     \/ \E l \in {"ENCRYPTED PRIVATE KEY", "PUBLIC KEY"} :
          doc' = [i \in DOMAIN doc |-> IF doc[i].k = "text" THEN doc[i]
                                       ELSE [doc[i] EXCEPT !.label = l]]
     \/ /\ Len(doc) + 3 <= MaxLines
        /\ doc' = Block("ENCRYPTED PRIVATE KEY", ToBase64([i \in 1 .. Min(AesSizes) |-> 1]),
                        [form |-> "encrypted", id |-> 0, pkey |-> Absent, exact |-> TRUE])
                  \o doc
  /\ written' = Damaged /\ key' = Absent /\ NoCall

-----------------------------------------------------------------------------
Next ==
  /\ \/ FromPem \/ FromPemNoBio \/ (\E stage \in DOMAIN Parsers : TryParse(stage))
     \/ TryParseAes \/ AesFromText \/ GenerateAes \/ IsSubjectPublicKeyInfo \/ HaveKey
     \/ SymmetricKeyToPem \/ ToPem \/ Decode \/ DecodeRsa \/ Write
     \/ Reformat \/ Damage
  /\ UNCHANGED countsMarks

Spec == Init /\ [][Next]_vars

-----------------------------------------------------------------------------
SameKey(a, b) ==
  /\ a.type = b.type
  /\ IF a.type = "symmetric" THEN a.value = b.value /\ a.algorithm = b.algorithm
     ELSE a.value.id = b.value.id

\* What KeyWriter::to_PEM writes, KeyReader::from_PEM reads back as the same
\* key of the same type (and a symmetric key as one of the same algorithm),
\* also after the text got CRLF line endings, text around it or other line
\* breaks; a key that is read has algorithm and length or neither.
PemRoundTrip ==
  /\ outcome.op = "read" /\ written \notin {Absent, Damaged} /\ ~fault =>
       outcome.ok /\ SameKey(outcome.key, written)
  /\ outcome.op = "read" /\ outcome.ok =>
       (outcome.key.algorithm = "UNSET") = (outcome.key.bits = 0)

\* from_PEM never makes a key of something else: what it returns is the
\* content of a complete block (BEGIN, data, matching END) whose label is one
\* for that type of key, whatever is lost, relabelled or put in front, and
\* whichever of the attempts fails for want of memory.
NeverMisread ==
  outcome.op = "read" /\ outcome.ok =>
    \E b \in DOMAIN doc :
      /\ doc[b].k = "begin" /\ IsBlock(doc, b)
      /\ LET e   == Min(Ends(doc, b))
             b64 == FlattenSeq([i \in 1 .. e - b - 1 |-> doc[b + i].chars])
         IN IF outcome.key.type = "symmetric"
            THEN doc[b].label = "SYMMETRIC KEY" /\ outcome.key.value = FromBase64(b64).bytes
            ELSE /\ doc[b].label \in Parsers[outcome.key.type].labels
                 /\ doc[b + 1].der # Absent /\ outcome.key.value.id = doc[b + 1].der.id

\* OpenSslErrorScope, between calls: no error of ours and no placeholder is
\* left in the queue, the caller's errors are as they were unless the ring
\* was too small, and a failure is never reported with one of the caller's
\* errors as its reason.
ErrorsConfined ==
  pc = "idle" =>
    /\ \A i \in DOMAIN queue : queue[i].err = "caller"
    /\ ~lost => [i \in DOMAIN queue |-> queue[i].err] = [i \in DOMAIN caller |-> caller[i].err]
    /\ outcome.report # "caller"

\* aes_from_hex and aes_from_base64 accept the text that KeyWriter writes for
\* an AES key, and nothing else but other hex case and Base64 whitespace: a
\* text that was changed in a character is refused or is another key's text.
TextExact ==
  outcome.op \in {"hex", "base64"} =>
    LET t      == outcome.text
        lower  == [i \in DOMAIN t |-> IF t[i] \in 65 .. 70 THEN t[i] + 32 ELSE t[i]]
        solid  == SelectSeq(t, LAMBDA c : ~IsBase64Whitespace(c))
        to(b)  == IF outcome.op = "hex" THEN ToHex(b) ELSE ToBase64(b)
    IN /\ outcome.ok => to(outcome.key.value) = IF outcome.op = "hex" THEN lower ELSE solid
       /\ \A b \in KeyBytes : Len(b) \in AesSizes /\ t = to(b) =>
            outcome.ok /\ outcome.key.value = b

=============================================================================

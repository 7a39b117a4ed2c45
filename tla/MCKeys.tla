------------------------------- MODULE MCKeys -------------------------------
(***************************************************************************)
(* Keys for TLC.  The AES sizes are scaled down to 1, 2 and 3 bytes, which *)
(* leave the same remainders modulo the Base64 group of three as 16, 32    *)
(* and 24; the error ring to 3 entries.                                    *)
(***************************************************************************)
EXTENDS Keys

Der(f, i, p, e) == [form |-> f, id |-> i, pkey |-> p, exact |-> e]
Sym(a, v) == [type |-> "symmetric", algorithm |-> a, bits |-> 8 * Len(v), value |-> v]

MCServerKeys ==
  {AsymmetricKey("certificate", Der("x509", 1, "RSA", TRUE)),
   AsymmetricKey("certificate", Der("empty", 1, Absent, TRUE)),
   AsymmetricKey("private", Der("pkcs8", 2, "X25519", TRUE)),
   AsymmetricKey("public", Der("spki", 4, "ED25519", TRUE)),
   AsymmetricKey("public", Der("pkcs1", 5, "RSA", TRUE)),
   AsymmetricKey("public", Der("spki", 6, "RSA", FALSE)),
   Sym("AES", <<1, 2, 3, 4>>), Sym("HMAC", <<7, 250>>)}

MCKeyBytes == UNION {[1 .. n -> {0, 97, 255}] : n \in 0 .. 2} \cup {<<0, 97, 255>>, <<1, 2, 3, 4>>}

\* Encodings, and what one changed, inserted or missing character makes.
Changed(t) ==
  {t} \cup {ReplaceAt(t, i, c) : i \in DOMAIN t, c \in {61, 66, 70, 103, 32, 200}}
      \cup {RemoveAt(t, i) : i \in DOMAIN t}
      \cup {InsertAt(t, i, c) : i \in 1 .. Len(t) + 1, c \in {61, 65, 32}}
MCTexts == UNION {Changed(ToHex(b)) \cup Changed(ToBase64(b)) : b \in MCKeyBytes}

MCCallerQueues ==
  {[i \in 1 .. n |-> [err |-> "caller", marks |-> 0]] : n \in 0 .. 1}

=============================================================================

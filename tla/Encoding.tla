------------------------------ MODULE Encoding ------------------------------
(***************************************************************************)
(* Hex and Base64 (kmiputil/src/Encoding.cpp).  A character is its code,   *)
(* a byte a number in 0..255.  A decoder yields [ok, bytes]; ok is FALSE   *)
(* where the code throws KmipException.                                    *)
(***************************************************************************)
EXTENDS Integers, Sequences, SequencesExt

Throw == [ok |-> FALSE, bytes |-> <<>>]
Decoded(bytes) == [ok |-> TRUE, bytes |-> bytes]

-----------------------------------------------------------------------------
(* Hex *)

HexDigit(v) == IF v < 10 THEN 48 + v ELSE 87 + v   \* kHexDigits

\* hex_value: -1 where it throws.
HexValue(c) ==
  IF c \in 48 .. 57 THEN c - 48
  ELSE IF c \in 65 .. 70 THEN c - 55
  ELSE IF c \in 97 .. 102 THEN c - 87
  ELSE -1

ToHex(bytes) ==
  [i \in 1 .. 2 * Len(bytes) |->
     LET b == bytes[(i + 1) \div 2]
     IN HexDigit(IF i % 2 = 1 THEN b \div 16 ELSE b % 16)]

FromHex(hex) ==
  IF \/ hex = <<>> \/ Len(hex) % 2 # 0
     \/ \E i \in DOMAIN hex : HexValue(hex[i]) = -1
  THEN Throw
  ELSE Decoded([i \in 1 .. Len(hex) \div 2 |->
                  HexValue(hex[2 * i - 1]) * 16 + HexValue(hex[2 * i])])

-----------------------------------------------------------------------------
(* Base64 *)

Pad == 61   \* '='

Base64Alphabet ==
  [i \in 0 .. 63 |-> IF i < 26 THEN 65 + i
                     ELSE IF i < 52 THEN 71 + i
                     ELSE IF i < 62 THEN i - 4
                     ELSE IF i = 62 THEN 43 ELSE 47]

\* lookup of from_base64
Lookup ==
  [c \in 0 .. 255 |->
     IF \E i \in 0 .. 63 : Base64Alphabet[i] = c
     THEN CHOOSE i \in 0 .. 63 : Base64Alphabet[i] = c ELSE -1]

IsBase64Whitespace(c) == c \in {32, 9, 13, 10}

\* The loop of from_base64, one character; val is kept modulo 2^16, of which
\* only the 14 low bits are ever looked at.
Base64Step(s, c) ==
  IF IsBase64Whitespace(c) \/ ~s.ok THEN s
  ELSE IF c = Pad
    THEN [s EXCEPT !.symbols = @ + 1, !.padding = @ + 1]
  ELSE IF Lookup[c] = -1 \/ s.padding > 0 THEN [s EXCEPT !.ok = FALSE]
  ELSE LET val  == (s.val * 64 + Lookup[c]) % 65536
           full == s.val_b + 6 >= 0
       IN [s EXCEPT !.symbols = @ + 1, !.val = val,
                    !.val_b = IF full THEN @ - 2 ELSE @ + 6,
                    !.out = IF full THEN Append(@, (val \div 2 ^ (s.val_b + 6)) % 256)
                            ELSE @]

Base64Scan(base64) ==
  FoldLeft(Base64Step,
           [ok |-> TRUE, val |-> 0, val_b |-> -8, symbols |-> 0, padding |-> 0,
            out |-> <<>>],
           base64)

\* Mutant of FromBase64: the unused bits of the last character are ignored.
FromBase64Lax(base64) ==
  LET s == Base64Scan(base64)
  IN IF s.ok /\ s.symbols % 4 = 0 /\ s.padding <= 2
     THEN Decoded(s.out) ELSE Throw

\* from_base64
FromBase64(base64) ==
  LET s == Base64Scan(base64)
      unused_bits == s.val_b + 8
  IN IF /\ s.ok /\ s.symbols % 4 = 0 /\ s.padding <= 2
        /\ s.val % 2 ^ unused_bits = 0
     THEN Decoded(s.out) ELSE Throw

\* to_base64: whole groups of three bytes, then the rest.
ToBase64(bytes) ==
  LET at(i) == IF i <= Len(bytes) THEN bytes[i] ELSE 0
      n(g)  == at(3 * g + 1) * 65536 + at(3 * g + 2) * 256 + at(3 * g + 3)
      six(g, k) == Base64Alphabet[(n(g) \div 64 ^ (3 - k)) % 64]
      group(g)  == LET rest == Len(bytes) - 3 * g
                   IN <<six(g, 0), six(g, 1),
                        IF rest >= 2 THEN six(g, 2) ELSE Pad,
                        IF rest >= 3 THEN six(g, 3) ELSE Pad>>
  IN [i \in 1 .. 4 * ((Len(bytes) + 2) \div 3) |->
        group((i - 1) \div 4)[((i - 1) % 4) + 1]]

=============================================================================

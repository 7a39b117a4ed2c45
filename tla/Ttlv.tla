-------------------------------- MODULE Ttlv --------------------------------
(***************************************************************************)
(* The TTLV encoding of kmipcore (Element::serialize and                   *)
(* deserialize_impl of kmip_basics.cpp), byte for byte: three bytes of     *)
(* tag, one of type, four of length, the value, zeros up to eight bytes.   *)
(*                                                                         *)
(* An element is [tag, type, value]; the value is a sequence of elements   *)
(* (Structure), a 32-bit integer (signed, an Interval by the same bits), a *)
(* pair of them for 64 bits (high, low), a Boolean, or a sequence of bytes *)
(* 0..255.                                                                 *)
(***************************************************************************)
EXTENDS Integers, Sequences, SequencesExt

CONSTANTS
  Elements,    \* elements that are encoded
  BadBytes,    \* what a byte of the encoding may be replaced with
  MaxChanges,  \* bound on the bytes replaced
  KMIP_MAX_STRUCTURE_DEPTH

\* The numbers of the types.
Code ==
  [structure |-> 1, integer |-> 2, longInteger |-> 3, bigInteger |-> 4,
   enumeration |-> 5, boolean |-> 6, textString |-> 7, byteString |-> 8,
   dateTime |-> 9, interval |-> 10, dateTimeExtended |-> 11]

Word32 == {"integer", "enumeration", "interval"}
Word64 == {"longInteger", "dateTime", "dateTimeExtended"}
ByteData == {"bigInteger", "textString", "byteString"}

Zeros(n) == [i \in 1 .. n |-> 0]

-----------------------------------------------------------------------------
(* Encoding *)

\* The big-endian bytes of an n-byte number, two's complement if negative.
BigEndian(v, n) == [i \in 1 .. n |-> (v \div 256^(n - i)) % 256]

\* The padding after n bytes of value.
Padding(n) == (8 - (n % 8)) % 8

RECURSIVE Serialize(_)
\* Element::serialize.  The value is written first, to find its length; byte
\* and text strings are padded as they are written, the rest at the end.
Serialize(e) ==
  LET value  == CASE e.type = "structure" -> FlattenSeq([i \in DOMAIN e.value |-> Serialize(e.value[i])])
                  [] e.type \in Word32    -> BigEndian(e.value, 4)
                  [] e.type \in Word64    -> BigEndian(e.value[1], 4) \o BigEndian(e.value[2], 4)
                  [] e.type = "boolean"   -> Zeros(7) \o <<IF e.value THEN 1 ELSE 0>>
                  [] e.type \in ByteData  -> e.value
  IN BigEndian(e.tag, 3) \o <<Code[e.type]>> \o BigEndian(Len(value), 4)
       \o value \o Zeros(Padding(Len(value)))

-----------------------------------------------------------------------------
(* Decoding *)

\* Mutant of PaddedLength: a value that fills its last unit is padded too.
PaddedLengthFull(length) == length + (8 - (length % 8))

\* padded_length, which the decoder works out for itself.
PaddedLength(length) ==
  IF length % 8 = 0 THEN length ELSE length + (8 - (length % 8))

\* An element and the offset after it, or an exception.
Decoded(e, offset) == [ok |-> TRUE, element |-> e, offset |-> offset]
Error == [ok |-> FALSE]

\* A big-endian number; four bytes are read as a signed one.
Number(bytes) == FoldLeft(LAMBDA n, b : n * 256 + b, 0, bytes)
Signed32(bytes) ==
  (IF bytes[1] >= 128 THEN bytes[1] - 256 ELSE bytes[1]) * 256^3 + Number(Tail(bytes))

\* Mutant of ZeroPadding: the padding is not looked at.
AnyPadding(data, from, to) == from <= to + 1

\* validate_zero_padding
ZeroPadding(data, from, to) == \A i \in from .. to : data[i] = 0

\* The value of a primitive type from its bytes; Error if the length or the
\* Boolean is wrong.
Primitive(type, bytes) ==
  CASE type \in Word32 /\ Len(bytes) = 4 -> Decoded(Signed32(bytes), 0)
    [] type \in Word64 /\ Len(bytes) = 8 ->
         Decoded(<<Signed32(SubSeq(bytes, 1, 4)), Signed32(SubSeq(bytes, 5, 8))>>, 0)
    [] type = "boolean" /\ Len(bytes) = 8 /\ SubSeq(bytes, 1, 7) = Zeros(7)
         /\ bytes[8] \in {0, 1} -> Decoded(bytes[8] = 1, 0)
    [] type \in ByteData -> Decoded(bytes, 0)
    [] OTHER -> Error

RECURSIVE Deserialize(_, _, _)
RECURSIVE Children(_, _, _, _)
\* deserialize_impl of `data` from `offset` on.  A structure's body is
\* decoded in a view that ends with it.
Deserialize(data, offset, depth) ==
  IF depth > KMIP_MAX_STRUCTURE_DEPTH \/ offset + 8 > Len(data) THEN Error
  ELSE
    LET tag    == Number(SubSeq(data, offset + 1, offset + 3))
        types  == {t \in DOMAIN Code : Code[t] = data[offset + 4]}
        \* lengths beyond the data are all alike
        length == IF data[offset + 5] = 0 /\ data[offset + 6] = 0
                  THEN Number(SubSeq(data, offset + 7, offset + 8))
                  ELSE Len(data) + 1
        body   == offset + 8
    IN IF types = {} THEN Error
       ELSE
         LET type == CHOOSE t \in types : TRUE
             end  == IF type = "structure" THEN body + length
                     ELSE body + PaddedLength(length)
         IN IF end > Len(data) THEN Error
            ELSE IF type = "structure"
            THEN LET kids == Children(SubSeq(data, 1, end), body, depth, <<>>)
                 IN IF kids.ok
                    THEN Decoded([tag |-> tag, type |-> type, value |-> kids.element], kids.offset)
                    ELSE Error
            ELSE LET p == Primitive(type, SubSeq(data, body + 1, body + length))
                 IN IF p.ok /\ ZeroPadding(data, body + length + 1, end)
                    THEN Decoded([tag |-> tag, type |-> type, value |-> p.element], end)
                    ELSE Error

\* The loop over a structure's body, which is the rest of `view`.
Children(view, offset, depth, items) ==
  IF offset >= Len(view) THEN Decoded(items, offset)
  ELSE LET child == Deserialize(view, offset, depth + 1)
       IN IF child.ok THEN Children(view, child.offset, depth, Append(items, child.element))
          ELSE Error

-----------------------------------------------------------------------------
(* Messages on their way *)

VARIABLES
  element,  \* what was encoded
  bytes,    \* the bytes that are decoded
  changes   \* how many of them differ from the encoding at most

vars == <<element, bytes, changes>>

Init ==
  /\ element \in Elements
  /\ bytes = Serialize(element)
  /\ changes = 0

\* Another implementation writes a byte differently.
Change ==
  /\ changes < MaxChanges
  /\ changes' = changes + 1
  /\ \E i \in DOMAIN bytes, b \in BadBytes : bytes' = [bytes EXCEPT ![i] = b]
  /\ UNCHANGED element

\* The message ends early.
Truncate ==
  /\ changes < MaxChanges
  /\ changes' = MaxChanges
  /\ \E n \in 0 .. (Len(bytes) - 1) : bytes' = SubSeq(bytes, 1, n)
  /\ UNCHANGED element

Next == Change \/ Truncate

Spec == Init /\ [][Next]_vars

-----------------------------------------------------------------------------
(* Properties *)

Depth(e) ==
  LET Level[n \in 0 .. KMIP_MAX_STRUCTURE_DEPTH + 1] ==
        IF n = 0 THEN {e}
        ELSE UNION {ToSet(x.value) : x \in {y \in Level[n - 1] : y.type = "structure"}}
  IN CHOOSE n \in DOMAIN Level :
       Level[n] # {} /\ (n + 1 \in DOMAIN Level => Level[n + 1] = {})

\* Decoding what serialize() wrote gives the element back and consumes all of
\* it: negative and extreme integers, empty strings, strings around the
\* alignment, structures in structures, down to the depth that the decoder
\* allows, below which it rejects what serialize() still writes.
RoundTrip ==
  changes = 0 =>
    Deserialize(bytes, 0, 0) =
      IF Depth(element) <= KMIP_MAX_STRUCTURE_DEPTH
      THEN Decoded(element, Len(bytes)) ELSE Error

\* The bytes that deserialize() accepts and consumes are those serialize()
\* writes for the element it returns, whatever they were: no length, Boolean
\* or padding other than serialize()'s own gets through, and no element takes
\* bytes of the one after it or of the structure around it.
Canonical ==
  LET d == Deserialize(bytes, 0, 0)
  IN d.ok => /\ d.offset <= Len(bytes)
             /\ Serialize(d.element) = SubSeq(bytes, 1, d.offset)

=============================================================================

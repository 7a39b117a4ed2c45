------------------------------ MODULE Elements ------------------------------
(***************************************************************************)
(* TTLV elements as trees (kmip_basics.cpp) and what kmip_formatter.cpp    *)
(* shows of one.  An element is [tag, type, value]; the value of a         *)
(* "Structure" is the sequence of its children.  How elements become bytes *)
(* is the subject of module Ttlv.                                          *)
(***************************************************************************)
EXTENDS Integers, Sequences, SequencesExt

\* Element::createInteger, createEnumeration, createTextString, ...
Create(tag, type, value) == [tag |-> tag, type |-> type, value |-> value]

\* Element::createStructure, and add() for each child.
CreateStructure(tag, items) == Create(tag, "Structure", items)

\* "if (x) add(...)"
AddIf(present, e) == IF present THEN <<e>> ELSE <<>>

AsStructure(e) == e.type = "Structure"

\* getChildren, Structure::findAll: none if e is no structure.
Children(e, tag) ==
  IF AsStructure(e) THEN SelectSeq(e.value, LAMBDA c : c.tag = tag) ELSE <<>>

\* getChild, Structure::find: the first one.
Has(e, tag) == Children(e, tag) # <<>>
Child(e, tag) == Head(Children(e, tag))

\* The types that toInt, toLong, ... accept; they throw on any other.
Accepts ==
  [toInt      |-> {"Integer"},
   toLong     |-> {"LongInteger", "DateTime", "DateTimeExtended"},
   toBool     |-> {"Boolean"},
   toString   |-> {"TextString"},
   toBytes    |-> {"ByteString", "BigInteger"},
   toEnum     |-> {"Enumeration"},
   toInterval |-> {"Interval"}]

\* "if (child) x = child->to...()" does not throw, and what x then is.
Readable(e, tag, to) == Has(e, tag) => Child(e, tag).type \in Accepts[to]
Value(e, tag, default) == IF Has(e, tag) THEN Child(e, tag).value ELSE default

\* The same of every child with the tag.
AllReadable(e, tag, to) ==
  \A i \in DOMAIN Children(e, tag) : Children(e, tag)[i].type \in Accepts[to]
Values(e, tag) ==
  [i \in DOMAIN Children(e, tag) |-> Children(e, tag)[i].value]

-----------------------------------------------------------------------------
(* kmip_formatter.cpp *)

\* Mutant of SensitiveTags: Key Value is missing, which is a Byte String of
\* its own in a wrapped key block.
SensitiveTagsNoKeyValue ==
  {"CredentialValue", "IVCounterNonce", "KeyMaterial", "MACSignature",
   "NonceValue", "Password", "Salt", "SecretData", "Username"}

\* is_sensitive_tag
SensitiveTags ==
  {"CredentialValue", "IVCounterNonce", "KeyMaterial", "KeyValue", "MACSignature",
   "NonceValue", "Password", "Salt", "SecretData", "Username"}

\* format_element_impl: which of the given values are in the text.  A
\* sensitive subtree is left out; of a sensitive value only type and length
\* are shown.  A DateTimeExtended is "<unhandled>".
RECURSIVE Shown(_, _)
Shown(e, values) ==
  IF e.tag \in SensitiveTags THEN {}
  ELSE IF AsStructure(e) THEN UNION {Shown(e.value[i], values) : i \in DOMAIN e.value}
  ELSE {v \in values : e.type # "DateTimeExtended" /\ e.value = v}

=============================================================================

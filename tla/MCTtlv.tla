------------------------------- MODULE MCTtlv -------------------------------
(* Elements for Ttlv: each type at its limits, alone and in structures. *)
EXTENDS Ttlv

Max32 == 2147483647
Min32 == -Max32 - 1

Leaf(type, value) == [tag |-> 4325377, type |-> type, value |-> value]  \* 0x420001
Struct(items) == [tag |-> 4325496, type |-> "structure", value |-> items]

Leaves ==
  {Leaf("integer", v) : v \in {0, 1, -1, Max32, Min32}}
  \cup {Leaf("enumeration", 2), Leaf("interval", 600)}
  \cup {Leaf(t, <<v, w>>) : t \in {"longInteger", "dateTime"}, v \in {0, -1}, w \in {1, Min32}}
  \cup {Leaf("dateTimeExtended", <<Max32, -1>>)}
  \cup {Leaf("boolean", b) : b \in BOOLEAN}
  \cup {Leaf(t, [i \in 1 .. n |-> 65 + i]) : t \in ByteData, n \in {0, 1, 7, 8, 9}}

MCElements ==
  Leaves
  \cup {Struct(<<>>), Struct(<<Struct(<<>>)>>), Struct(<<Struct(<<>>), Leaf("boolean", TRUE)>>)}
  \cup {Struct(<<l>>) : l \in Leaves}
  \cup {Struct(<<Struct(<<Leaf("textString", <<66>>)>>), Leaf("integer", -1)>>)}
  \cup {Struct(<<Struct(<<Struct(<<>>)>>)>>), Struct(<<Struct(<<Struct(<<Leaf("boolean", TRUE)>>)>>)>>)}

=============================================================================

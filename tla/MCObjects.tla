------------------------------ MODULE MCObjects ------------------------------
(***************************************************************************)
(* Instances of Objects: objects of every type, in their default and       *)
(* another format, of sizes up to one whose length in bits overflows, and  *)
(* attributes on both sides of every check.                                *)
(***************************************************************************)
EXTENDS Objects

Object(type, size, format, secret) ==
  [type |-> type, size |-> size, format |-> format, secret |-> secret,
   attrs |-> [NoAttributes EXCEPT !.Algorithm = AES, !.Mask = 12]]

MCKeys ==
  {Object("symmetric", n, Absent, Absent) : n \in {0, 16, Int32Max \div 8 + 1}} \cup
  {Object("symmetric", 16, "opaque", Absent)} \cup
  {Object("private", 16, f, Absent) : f \in {Absent, "pkcs1"}} \cup
  {Object("public", 16, f, Absent) : f \in {Absent, "pkcs1"}} \cup
  {Object("certificate", 16, Absent, Absent)} \cup
  {Object("secret", 8, Absent, t) : t \in {"password", "unknown"}}

\* An extension is negative as int32_t; 2^24 is an undefined bit.
MCValues ==
  [Algorithm |-> {UNSET, ED448, -2147483647},
   Length    |-> {-1, 256},
   Mask      |-> {UNSET, 2^24},
   State     |-> {ACTIVE}]

MCServerAttributes ==
  {Attribute("Operation Policy Name", "text", 1), Attribute("Initial Date", "date", 1),
   Attribute("Fresh", "boolean", 1), Attribute("Lease Time", "interval", 1),
   Attribute("Digest", "structure", 1), Attribute("Object Type", "enum", 2)}

=============================================================================

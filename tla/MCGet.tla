-------------------------------- MODULE MCGet --------------------------------
(***************************************************************************)
(* Instances of Get: servers that differ in how they take Get Attributes,  *)
(* and servers that differ in the key formats they have and make.          *)
(***************************************************************************)
EXTENDS Get

MCCalls == [op : {"key", "secret", "attributes"}, v2 : BOOLEAN, wanted : BOOLEAN]

SelectorServers ==
  [accepts : SUBSET {"typed", "names", "all"}, refusal : {"retry", "other"},
   gets : BOOLEAN, echo : BOOLEAN, stops : BOOLEAN,
   attrs : {{}, {"State", "Extra"}, {"State", "Name"}},
   type : {"symmetric", "secret"}, format : {"raw"}, converts : {{}},
   spki : {FALSE}, other : {FALSE}]

FormatServer(type, format, makes) ==
  [accepts : {{"typed", "names", "all"}}, refusal : {"retry", "other"},
   gets : {TRUE}, echo : {TRUE}, stops : {FALSE}, attrs : {{"State"}},
   type : {type}, format : format, converts : SUBSET makes, spki : BOOLEAN,
   other : BOOLEAN]

FormatServers ==
  FormatServer("private", {"pkcs1", "pkcs8", "transparent"}, {"pkcs8"}) \cup
  FormatServer("public", {"pkcs1", "pkcs8", "x509", "transparent"}, {"pkcs8", "x509"})

MCServers == SelectorServers \cup FormatServers

=============================================================================

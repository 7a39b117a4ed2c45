------------------------------- MODULE Objects -------------------------------
(***************************************************************************)
(* A managed object on its way from the caller to the server and back:     *)
(* the Attributes bag (kmip_attributes.cpp), the Register and Create       *)
(* requests (kmip_requests.cpp), KeyParser and AttributesParser, and the   *)
(* operations of KmipClient that use them.  Retries and key formats that   *)
(* op_get_key asks for are in Get: here the server takes the first request *)
(* and returns a key in the format it was registered in.                   *)
(*                                                                         *)
(* Protocol versions are 10 * major + minor.  A text is the value it is    *)
(* read as, with kind "text"; generic attributes are [kind, value].  The   *)
(* server is external: it stores what Register sent, and adds State and    *)
(* attributes of its own.                                                  *)
(***************************************************************************)
EXTENDS Integers

CONSTANTS
  Absent,       \* std::nullopt
  Versions,     \* protocol versions of the client
  Keys,         \* the keys and secrets that callers start from
  Values,       \* Values[name]: what callers set a well-known attribute to
  OtherNames,   \* the names callers give the int64 and bool overloads of set
  Lengths,      \* lengths of keys that op_create_aes_key asks for, in bits
  ServerAttributes,  \* attributes of the server's own: [name, kind, value]
  Int32Max,     \* std::numeric_limits<int32_t>::max()
  MaxCalls      \* bound on the number of calls

\* The attributes with a typed field, short for "Cryptographic Algorithm" etc.
WellKnown == {"Algorithm", "Length", "Mask", "State"}

UNSET    == 0
AES      == 3
TWOFISH  == 25
EC       == 26
ONE_TIME_PAD == 27
SHAKE_256 == 40
ED448    == 56

PRE_ACTIVE  == 1
ACTIVE      == 2
DEACTIVATED == 3
COMPROMISED == 4
DESTROYED_COMPROMISED == 6

\* An Attributes bag: the typed fields, and the generic attributes by name.
IsAttributes(a) ==
  /\ DOMAIN a = WellKnown \cup {"generic"}
  /\ \A n \in WellKnown : a[n] \in Int \cup {Absent}

\* A key, secret or certificate of the caller.
IsObject(k) ==
  /\ DOMAIN k = {"type", "size", "format", "secret", "attrs"}
  /\ k.size \in Nat /\ IsAttributes(k.attrs)

\* KMIP defines PKCS#8 for private keys only: what op_get_key makes of a
\* public key under that label is in Get.
ASSUME ObjectsAssumption ==
  /\ Versions \subseteq {10, 11, 12, 13, 14, 20, 21}
  /\ \A k \in Keys : IsObject(k) /\ (k.type = "public" => k.format # "pkcs8")
  /\ DOMAIN Values = WellKnown /\ \A n \in WellKnown : Values[n] \subseteq Int
  /\ Lengths \subseteq Nat \ {0}
  /\ Int32Max \in Nat /\ Int32Max >= SHAKE_256 /\ MaxCalls \in Nat
  /\ \A a \in ServerAttributes : a.name \notin WellKnown
  /\ Absent \notin Int /\ Absent \notin [algorithm : Int, length : Int]

VARIABLES
  version,  \* fixed
  key,      \* the key or secret the caller works with
  calls,    \* the number of calls so far, bounded by MaxCalls
  store,    \* the server's objects by id: what was sent, State, and the key
            \* it was sent for
  got       \* history: the object that the last step fetched, and how

vars == <<version, key, calls, store, got>>

-----------------------------------------------------------------------------
(* Attributes *)

NoAttributes ==
  [Algorithm |-> Absent, Length |-> Absent, Mask |-> Absent, State |-> Absent,
   generic |-> <<>>]

\* algorithm(), usage_mask()
OrUnset(v) == IF v = Absent THEN UNSET ELSE v

\* set_algorithm, set_crypto_length, set_usage_mask, set_state
SetTyped(a, name, v) ==
  [a EXCEPT ![name] = IF name \in {"Algorithm", "Mask"} /\ v = UNSET THEN Absent ELSE v]

\* The map g with the entries of f put in.
Override(f, g) ==
  [x \in DOMAIN f \cup DOMAIN g |-> IF x \in DOMAIN f THEN f[x] ELSE g[x]]

SetGeneric(a, name, kind, v) ==
  [a EXCEPT !.generic = Override([n \in {name} |-> [kind |-> kind, value |-> v]], @)]

\* set(name, string) of a well-known name: only the mask is checked for
\* UNSET, and only the names of states are read.
SetText(a, name, v) ==
  IF \/ name = "Mask" /\ v = UNSET
     \/ name = "State" /\ v \notin PRE_ACTIVE .. DESTROYED_COMPROMISED
  THEN a ELSE [a EXCEPT ![name] = v]

\* set(name, int32_t) of a well-known name
SetInt(a, name, v) ==
  IF name \in {"Algorithm", "Mask"} /\ v = UNSET
  THEN a ELSE [a EXCEPT ![name] = v]

\* Attributes::merge
Merge(a, b) ==
  [n \in DOMAIN a |->
     IF n = "generic" THEN Override(b.generic, a.generic)
     ELSE IF b[n] # Absent THEN b[n] ELSE a[n]]

-----------------------------------------------------------------------------
(* Requests *)

LastCryptoAlgorithm(v) ==
  CASE v >= 20 -> Int32Max
    [] v = 14 -> SHAKE_256
    [] v = 13 -> ONE_TIME_PAD
    [] v = 12 -> EC
    [] v < 12 -> TWOFISH

\* algorithm_and_length
AlgorithmAndLength(v, k) ==
  LET alg == OrUnset(k.attrs.Algorithm)
      len == IF k.attrs.Length # Absent THEN k.attrs.Length
             ELSE IF k.type = "symmetric" /\ k.size <= Int32Max \div 8
             THEN k.size * 8 ELSE 0
  IN IF alg = UNSET \/ alg > LastCryptoAlgorithm(v) \/ len <= 0
     THEN Absent ELSE [algorithm |-> alg, length |-> len]

\* The default in format_or for each type.
DefaultFormat(type) ==
  CASE type = "symmetric" -> "raw"
    [] type = "private"   -> "pkcs8"
    [] type = "public"    -> "x509"
    [] type = "secret"    -> "opaque"

\* Mutant of KeyFormat: the default of the type.
KeyFormatDefault(k) == DefaultFormat(k.type)

\* format_or: the key's own Key Format Type, else the default of its type.
KeyFormat(k) == IF k.format # Absent THEN k.format ELSE DefaultFormat(k.type)

Attribute(name, kind, v) == [name |-> name, kind |-> kind, value |-> v]

PairAttributes(algorithm, length) ==
  {Attribute("Algorithm", "enum", algorithm), Attribute("Length", "int", length)}

MaskAttribute(k) ==
  IF OrUnset(k.attrs.Mask) = UNSET THEN {}
  ELSE {Attribute("Mask", "int", k.attrs.Mask)}

\* Generic attributes go as text, up to KMIP 1.4 only.
GenericAttributes(v, k) ==
  IF v >= 20 THEN {}
  ELSE {Attribute(n, "text", k.attrs.generic[n].value) :
          n \in DOMAIN k.attrs.generic \ {"Name", "Object Group"}}

NameAttribute == Attribute("Name", "structure", 0)

\* Mutant of RegisteredAttributes: the algorithm is sent without its length.
RegisteredAttributesOfKey(v, k) ==
  {NameAttribute} \cup MaskAttribute(k) \cup GenericAttributes(v, k) \cup
  (IF OrUnset(k.attrs.Algorithm) = UNSET THEN {}
   ELSE {Attribute("Algorithm", "enum", k.attrs.Algorithm)})

\* The attributes of RegisterKeyRequest
RegisteredAttributes(v, k) ==
  LET pair == AlgorithmAndLength(v, k)
  IN {NameAttribute} \cup MaskAttribute(k) \cup GenericAttributes(v, k) \cup
     (IF pair = Absent THEN {} ELSE PairAttributes(pair.algorithm, pair.length))

\* What make_key_object_from_key does not throw for: no certificate, and no
\* symmetric key without algorithm and length.
Registrable(v, k) ==
  \/ k.type = "symmetric" /\ AlgorithmAndLength(v, k) # Absent
  \/ k.type \in {"private", "public"}

\* KMIP_CRYPTOMASK_DERIVE_KEY | KMIP_CRYPTOMASK_EXPORT
SECRET_MASK == 512 + 64

Stored(k, pair, attributes) ==
  [type |-> k.type, size |-> k.size, format |-> KeyFormat(k), secret |-> k.secret,
   pair |-> pair, attributes |-> attributes, state |-> PRE_ACTIVE, from |-> k]

-----------------------------------------------------------------------------
(* Responses *)

\* Mutant of IsValidCryptographicAlgorithm: the last one is left out.
IsValidCryptographicAlgorithmBelow(v) == UNSET <= v /\ v < ED448

IsValidCryptographicAlgorithm(v) == UNSET <= v /\ v <= ED448

IsValidState(v) == PRE_ACTIVE <= v /\ v <= DESTROYED_COMPROMISED

\* Bits 0 to 23 are defined.
UNDEFINED_MASK == 16777216

IsValidCryptographicUsageMask(v) == 0 <= v /\ v < UNDEFINED_MASK

IsValidSecretDataType(t) == t \in {"password", "seed", "extensions"}

\* What AttributesParser does not throw for.
AttributeParses(a) ==
  CASE a.name = "Algorithm" -> a.kind = "enum" /\ IsValidCryptographicAlgorithm(a.value)
    [] a.name = "Length"    -> a.kind = "int"
    [] a.name = "Mask"      -> a.kind = "int" /\ IsValidCryptographicUsageMask(a.value)
    [] a.name = "State"     -> a.kind = "enum" /\ IsValidState(a.value)
    [] OTHER                -> TRUE

AllParse(attributes) == \A a \in attributes : AttributeParses(a)

\* store_generic, and parse_v2_typed_attribute for a tag that it has no case
\* for: only Date-Time differs.
StoredKind(kind) ==
  CASE kind \in {"int", "enum"} -> "int32"
    [] kind \in {"long", "extended date", "interval"} -> "int64"
    [] kind = "date" -> IF version >= 20 THEN "int64" ELSE "text"
    [] kind = "boolean" -> "bool"
    [] kind \in {"text", "bytes", "structure"} -> "text"

\* AttributesParser::parse, when it does not throw
ParseAttributes(attributes) ==
  LET Of(n) == CHOOSE a \in attributes : a.name = n
      names == {a.name : a \in attributes}
      generic == [n \in names \ WellKnown |->
                    [kind |-> StoredKind(Of(n).kind), value |-> Of(n).value]]
      Typed(n) == IF n \in names THEN SetTyped(NoAttributes, n, Of(n).value)[n] ELSE Absent
  IN [n \in DOMAIN NoAttributes |-> IF n = "generic" THEN generic ELSE Typed(n)]

\* What KeyParser::parseResponse does not throw for.
KeyParses(o) ==
  /\ o.type \in {"symmetric", "private", "public"}
  /\ o.type = "symmetric" => o.format = "raw"
  /\ o.pair # Absent => IsValidCryptographicAlgorithm(o.pair.algorithm)

\* parse_key_from_key_block_holder: the attributes in the Key Block
BlockAttributes(o) ==
  IF o.pair = Absent THEN NoAttributes
  ELSE SetTyped(SetTyped(NoAttributes, "Algorithm", o.pair.algorithm),
                "Length", o.pair.length)

\* default_get_key_attrs and default_get_secret_attrs, or all attributes
Requested(o, all) ==
  CASE all -> {a.name : a \in ServerAttributes \cup o.attributes} \cup {"State"}
    [] ~all /\ o.type # "secret" -> WellKnown \cup {"Name", "Operation Policy Name"}
    [] ~all /\ o.type = "secret" -> {"State", "Name", "Operation Policy Name"}

\* The server's answer to Get Attributes.
GetAttributes(o, all) ==
  LET sent == {a.name : a \in o.attributes}
      own  == {a \in ServerAttributes : a.name \notin sent} \cup
              {Attribute("State", "enum", o.state)}
  IN {a \in o.attributes \cup own : a.name \in Requested(o, all)}

Fetched(o, attrs) ==
  [type |-> o.type, size |-> o.size, format |-> o.format, secret |-> o.secret,
   attrs |-> attrs]

-----------------------------------------------------------------------------
(* The caller changes the attributes of its key *)

Call == calls < MaxCalls /\ calls' = calls + 1

Change(attrs) ==
  /\ Call
  /\ key' = [key EXCEPT !.attrs = attrs]
  /\ got' = Absent
  /\ UNCHANGED <<version, store>>

SetByType ==
  \E n \in WellKnown : \E v \in Values[n] : Change(SetTyped(key.attrs, n, v))

ClearCryptoLength == Change([key.attrs EXCEPT !.Length = Absent])

SetByText ==
  \/ \E n \in WellKnown : \E v \in Values[n] : Change(SetText(key.attrs, n, v))
  \/ Change(SetGeneric(key.attrs, "Contact", "text", 1))

SetByInt ==
  \/ \E n \in WellKnown : \E v \in Values[n] : Change(SetInt(key.attrs, n, v))
  \/ Change(SetGeneric(key.attrs, "Contact", "int32", 1))

\* set(name, int64_t), set(name, bool)
SetByOther ==
  \E n \in OtherNames, kind \in {"int64", "bool"} :
    Change(SetGeneric(key.attrs, n, kind, 1))

Remove ==
  \E n \in DOMAIN key.attrs.generic :
    Change([key.attrs EXCEPT !.generic = [m \in DOMAIN @ \ {n} |-> @[m]]])

-----------------------------------------------------------------------------
(* The operations of KmipClient *)

Add(o) ==
  /\ store' = Override([id \in {calls'} |-> o], store)
  /\ got' = Absent
  /\ UNCHANGED <<version, key>>

OpRegisterKey ==
  /\ Call /\ Registrable(version, key)
  /\ Add(Stored(key, AlgorithmAndLength(version, key), RegisteredAttributes(version, key)))

\* The attributes of the secret are not sent.
OpRegisterSecret ==
  /\ Call /\ key.type = "secret"
  /\ Add(Stored(key, Absent, {NameAttribute, Attribute("Mask", "int", SECRET_MASK)}))

\* The key that the server makes, which the history takes for one registered.
CreatedKey(bits, mask) ==
  [type |-> "symmetric", size |-> bits \div 8, format |-> "raw", secret |-> Absent,
   attrs |-> [NoAttributes EXCEPT !.Algorithm = AES, !.Length = bits, !.Mask = mask]]

OpCreateAesKey ==
  \E bits \in Lengths, mask \in Values["Mask"] :
    /\ Call
    /\ Add(Stored(CreatedKey(bits, mask), [algorithm |-> AES, length |-> bits],
                  PairAttributes(AES, bits) \cup
                  {Attribute("Mask", "int", mask), NameAttribute}))

\* The caller goes on with the key that it fetched, unless there was an
\* exception.
Return(id, all, ok, k) ==
  /\ Call
  /\ got' = [id |-> id, all |-> all, ok |-> ok]
  /\ key' = IF ok THEN k ELSE key
  /\ UNCHANGED <<version, store>>

OpGetKey ==
  \E id \in DOMAIN store, all \in BOOLEAN :
    LET o == store[id]
        attributes == GetAttributes(o, all)
    IN /\ o.type # "secret"
       /\ Return(id, all, AllParse(attributes) /\ KeyParses(o),
                 Fetched(o, Merge(BlockAttributes(o), ParseAttributes(attributes))))

OpGetSecret ==
  \E id \in DOMAIN store, all \in BOOLEAN :
    LET o == store[id]
        attributes == GetAttributes(o, all)
        server_attrs == ParseAttributes(attributes)
        minimal == [SetTyped(NoAttributes, "State", server_attrs.State)
                      EXCEPT !.generic = [n \in {"Name"} |-> server_attrs.generic[n]]]
    IN /\ o.type = "secret"
       /\ Return(id, all, AllParse(attributes) /\ IsValidSecretDataType(o.secret),
                 Fetched(o, IF all THEN Merge(NoAttributes, server_attrs) ELSE minimal))

\* A lifecycle request that the server carries out.
Transition(id, state) ==
  /\ Call
  /\ store' = [store EXCEPT ![id].state = state]
  /\ got' = Absent
  /\ UNCHANGED <<version, key>>

OpActivate ==
  \E id \in DOMAIN store : store[id].state = PRE_ACTIVE /\ Transition(id, ACTIVE)

\* The reason decides between the two states.
OpRevoke ==
  \E id \in DOMAIN store :
    \/ store[id].state = ACTIVE /\ Transition(id, DEACTIVATED)
    \/ store[id].state # COMPROMISED /\ Transition(id, COMPROMISED)

\* A destroyed object cannot be fetched any more.
OpDestroy ==
  \E id \in DOMAIN store :
    /\ Call /\ store[id].state # ACTIVE
    /\ store' = [i \in DOMAIN store \ {id} |-> store[i]]
    /\ got' = Absent
    /\ UNCHANGED <<version, key>>

-----------------------------------------------------------------------------
Init ==
  /\ version \in Versions /\ key \in Keys
  /\ calls = 0 /\ store = <<>> /\ got = Absent

Next ==
  \/ SetByType \/ ClearCryptoLength \/ SetByText \/ SetByInt \/ SetByOther \/ Remove
  \/ OpRegisterKey \/ OpRegisterSecret \/ OpCreateAesKey
  \/ OpGetKey \/ OpGetSecret
  \/ OpActivate \/ OpRevoke \/ OpDestroy

Spec == Init /\ [][Next]_vars

-----------------------------------------------------------------------------
(* Properties *)

IsKey(o) == o.type \in {"symmetric", "private", "public"}

\* "Both present or both absent ... and Register's attributes get the same pair
\* so the two never disagree" (algorithm_and_length): whatever was set on the
\* key, in whatever order and through whatever overload, a registered object
\* has algorithm and length in its Key Block as in its attributes, both or
\* neither, both for a symmetric key, with an algorithm that the protocol
\* version defines (or an extension) and a positive length.
PairConsistent ==
  \A id \in DOMAIN store :
    LET o == store[id]
        Sent(n, kind) == {a.value : a \in {b \in o.attributes : b.name = n /\ b.kind = kind}}
    IN IsKey(o) =>
         IF o.pair = Absent
         THEN o.type # "symmetric" /\ Sent("Algorithm", "enum") = {} /\ Sent("Length", "int") = {}
         ELSE /\ Sent("Algorithm", "enum") = {o.pair.algorithm}
              /\ Sent("Length", "int") = {o.pair.length}
              /\ o.pair.algorithm # UNSET /\ o.pair.length > 0
              /\ version < 20 => o.pair.algorithm <= SHAKE_256

\* The key k, fetched from an object that was registered for f.
SameKey(k, f) ==
  /\ k.type = f.type /\ k.size = f.size
  /\ f.format # Absent => k.format = f.format
  /\ f.format = Absent => k.format = [symmetric |-> "raw", private |-> "pkcs8",
                                      public |-> "x509", secret |-> "opaque"][k.type]
  /\ k.secret = f.secret

SameAttributes(k, f) ==
  /\ \/ k.attrs.Algorithm = f.attrs.Algorithm
        /\ IF f.attrs.Length # Absent THEN k.attrs.Length = f.attrs.Length
           ELSE k.type = "symmetric" /\ k.attrs.Length = 8 * f.size
     \/ k.type # "symmetric" /\ k.attrs.Algorithm = Absent /\ k.attrs.Length = Absent
  /\ OrUnset(k.attrs.Mask) = OrUnset(f.attrs.Mask)

\* "So a fetched key reads the same as a registered one" (op_get_key): type,
\* value and format come back, algorithm and length too or, for an asymmetric
\* key, neither, and the usage mask; a secret comes back with its type.  State
\* is the server's, not one that the caller had set.  When all attributes are
\* asked for, generic ones come back up to KMIP 1.4, with the text of their
\* value (but the name and the group, which op_register_key is given apart).
\* This holds for fetched keys that are changed and registered again.
FetchedFaithful ==
  got # Absent /\ got.ok =>
    LET f == store[got.id].from
        k == key
        custom == DOMAIN f.attrs.generic \ (WellKnown \cup {"Name", "Object Group"})
    IN /\ SameKey(k, f)
       /\ k.type # "secret" => SameAttributes(k, f)
       /\ k.attrs.State = store[got.id].state
       /\ k.type # "secret" /\ got.all /\ version < 20 =>
            \A n \in custom : /\ n \in DOMAIN k.attrs.generic
                              /\ k.attrs.generic[n] =
                                   [kind |-> "text", value |-> f.attrs.generic[n].value]

\* The objects that Register accepts and Get then cannot read back: an
\* algorithm outside the standard, a usage mask with undefined bits, a symmetric key
\* declared in another format than Raw, a text under a well-known name (from
\* the int64 or bool overload of set, sent by Register up to KMIP 1.4).
Unreadable(o) ==
  LET f == o.from
  IN \/ /\ IsKey(o)
        /\ \/ AlgorithmAndLength(version, f) # Absent /\ f.attrs.Algorithm \notin UNSET .. ED448
           \/ OrUnset(f.attrs.Mask) \notin 0 .. UNDEFINED_MASK - 1
           \/ f.type = "symmetric" /\ f.format \notin {Absent, "raw"}
           \/ version < 20 /\ DOMAIN f.attrs.generic \cap WellKnown # {}
     \/ f.type = "secret" /\ f.secret \notin {"password", "seed", "extensions"}

\* op_get_key and op_get_secret throw for no object that the client registered
\* or created itself, but for exactly those in Unreadable: the checks of the
\* parsers accept what the requests send.
ReadableUnless ==
  got # Absent => (got.ok <=> ~Unreadable(store[got.id]))

\* "Well-known attribute names (Cryptographic Algorithm, Length, Mask, State)
\* are automatically routed to the corresponding typed setter regardless of
\* which overload is used" (kmip_attributes.hpp).
RoutedByAnyOverload == DOMAIN key.attrs.generic \cap WellKnown = {}

-----------------------------------------------------------------------------
(* The inductive invariant *)

\* What the server has is what was sent for the key it was sent for, with the
\* pair that this key gives.  Only Create sends a usage mask that is not set.
IsStored(v, o) ==
  LET f == o.from IN
  /\ DOMAIN o = {"type", "size", "format", "secret", "pair", "attributes", "state", "from"}
  /\ IsObject(f)
  /\ o.type = f.type /\ o.size = f.size /\ o.format = KeyFormat(f)
  /\ o.secret = f.secret /\ o.state \in PRE_ACTIVE .. DESTROYED_COMPROMISED
  /\ IF f.type = "secret"
     THEN o.attributes = {NameAttribute, Attribute("Mask", "int", SECRET_MASK)}
     ELSE /\ Registrable(v, f) /\ o.pair = AlgorithmAndLength(v, f)
          /\ \/ o.attributes = RegisteredAttributes(v, f)
             \/ /\ OrUnset(f.attrs.Mask) = UNSET
                /\ o.attributes = RegisteredAttributes(v, f) \cup {Attribute("Mask", "int", UNSET)}

ObjectsInv ==
  /\ version \in Versions /\ IsObject(key)
  /\ \A id \in DOMAIN store : IsStored(version, store[id])

=============================================================================

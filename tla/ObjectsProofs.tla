---------------------------- MODULE ObjectsProofs ----------------------------
(***************************************************************************)
(* Proofs about Objects: what is registered for a key is consistent, and   *)
(* what is fetched is the key it was registered for, for any keys, values, *)
(* names and attributes of the server.                                     *)
(***************************************************************************)
EXTENDS Objects, TLAPS

-----------------------------------------------------------------------------
(* Attributes *)

\* A bag without attributes is one.
LEMMA NoneSet ==
  /\ IsAttributes(NoAttributes) /\ DOMAIN NoAttributes.generic = {}
  /\ \A n \in WellKnown : NoAttributes[n] = Absent
  BY DEF NoAttributes, IsAttributes, WellKnown

\* The setters of a typed field change that field only.
LEMMA FieldSet ==
  ASSUME NEW a, IsAttributes(a), NEW n \in WellKnown, NEW v \in Int \cup {Absent}
  PROVE  /\ IsAttributes([a EXCEPT ![n] = v])
         /\ [a EXCEPT ![n] = v][n] = v
         /\ \A m \in WellKnown \cup {"generic"} : m # n => [a EXCEPT ![n] = v][m] = a[m]
  BY DEF IsAttributes, WellKnown

\* set_algorithm, set_crypto_length, set_usage_mask and set_state.
LEMMA TypedSet ==
  ASSUME NEW a, IsAttributes(a), NEW n \in WellKnown, NEW v \in Int \cup {Absent},
         NEW b, b = SetTyped(a, n, v)
  PROVE  /\ IsAttributes(b)
         /\ b[n] = IF n \in {"Algorithm", "Mask"} /\ v = UNSET THEN Absent ELSE v
         /\ \A m \in WellKnown \cup {"generic"} : m # n => b[m] = a[m]
  <1> DEFINE w == IF n \in {"Algorithm", "Mask"} /\ v = UNSET THEN Absent ELSE v
  <1>1. w \in Int \cup {Absent}
    OBVIOUS
  <1>2. b = [a EXCEPT ![n] = w]
    BY DEF SetTyped
  <1> HIDE DEF w
  <1>3. /\ IsAttributes([a EXCEPT ![n] = w])
        /\ [a EXCEPT ![n] = w][n] = w
        /\ \A m \in WellKnown \cup {"generic"} : m # n => [a EXCEPT ![n] = w][m] = a[m]
    BY <1>1, FieldSet
  <1> QED BY <1>2, <1>3 DEF w

\* The overloads of set, and removal, leave the typed fields numbers.
LEMMA OtherSet ==
  ASSUME NEW a, IsAttributes(a)
  PROVE  /\ \A g : IsAttributes([a EXCEPT !.generic = g])
         /\ \A n \in WellKnown, v \in Int :
              IsAttributes(SetText(a, n, v)) /\ IsAttributes(SetInt(a, n, v))
  <1>1. \A g : IsAttributes([a EXCEPT !.generic = g])
    BY DEF IsAttributes, WellKnown
  <1>2. ASSUME NEW n \in WellKnown, NEW v \in Int
        PROVE  IsAttributes(SetText(a, n, v)) /\ IsAttributes(SetInt(a, n, v))
    <2>1. IsAttributes([a EXCEPT ![n] = v])
      BY FieldSet
    <2> QED BY <2>1 DEF SetText, SetInt
  <1> QED BY <1>1, <1>2

\* merge: what the second bag has overrides the first.
LEMMA Merged ==
  ASSUME NEW a, IsAttributes(a), NEW b, IsAttributes(b)
  PROVE  /\ IsAttributes(Merge(a, b))
         /\ \A n \in WellKnown :
              Merge(a, b)[n] = IF b[n] # Absent THEN b[n] ELSE a[n]
         /\ DOMAIN b.generic \subseteq DOMAIN Merge(a, b).generic
         /\ \A n \in DOMAIN b.generic : Merge(a, b).generic[n] = b.generic[n]
  <1>1. /\ DOMAIN Merge(a, b) = DOMAIN a
        /\ \A n \in WellKnown :
             Merge(a, b)[n] = IF b[n] # Absent THEN b[n] ELSE a[n]
    BY DEF Merge, IsAttributes, WellKnown
  <1>2. Merge(a, b).generic = Override(b.generic, a.generic)
    BY DEF Merge, IsAttributes, WellKnown
  <1>3. /\ DOMAIN b.generic \subseteq DOMAIN Override(b.generic, a.generic)
        /\ \A n \in DOMAIN b.generic : Override(b.generic, a.generic)[n] = b.generic[n]
    BY DEF Override
  <1> QED BY <1>1, <1>2, <1>3 DEF IsAttributes

-----------------------------------------------------------------------------
(* What Register sends *)

\* algorithm_and_length: neither, or the algorithm of the key with the length
\* it has or, for a symmetric key, implies.
LEMMA PairOf ==
  ASSUME NEW k, IsObject(k), version \in Versions, NEW p, p = AlgorithmAndLength(version, k),
         p # Absent
  PROVE  /\ p.algorithm = k.attrs.Algorithm /\ p.algorithm \in Int \ {UNSET}
         /\ p.length \in Int /\ p.length > 0
         /\ version < 20 => p.algorithm <= SHAKE_256
         /\ IF k.attrs.Length # Absent THEN p.length = k.attrs.Length
            ELSE k.type = "symmetric" /\ p.length = 8 * k.size
  <1> DEFINE alg == OrUnset(k.attrs.Algorithm)
             len == IF k.attrs.Length # Absent THEN k.attrs.Length
                    ELSE IF k.type = "symmetric" /\ k.size <= Int32Max \div 8
                    THEN k.size * 8 ELSE 0
             last == LastCryptoAlgorithm(version)
  <1>1. /\ k.attrs.Algorithm \in Int \cup {Absent} /\ k.attrs.Length \in Int \cup {Absent}
        /\ k.size \in Nat
    BY DEF IsObject, IsAttributes, WellKnown
  <1>2. alg \in Int /\ len \in Int
    BY <1>1 DEF OrUnset, UNSET
  <1>3. last \in Int /\ (version < 20 => last <= SHAKE_256)
    BY ObjectsAssumption DEF LastCryptoAlgorithm, SHAKE_256, ONE_TIME_PAD, EC, TWOFISH
  <1>4. p = IF alg = UNSET \/ alg > last \/ len <= 0 THEN Absent
            ELSE [algorithm |-> alg, length |-> len]
    BY Zenon DEF AlgorithmAndLength
  <1>5. alg # UNSET /\ alg <= last /\ len > 0 /\ p = [algorithm |-> alg, length |-> len]
    <2> HIDE DEF alg, len, last
    <2> QED BY <1>2, <1>3, <1>4
  <1>6. alg = k.attrs.Algorithm
    BY <1>5 DEF OrUnset
  <1>7. version < 20 => alg <= SHAKE_256
    <2>1. version \in Int
      BY ObjectsAssumption
    <2> HIDE DEF alg, last
    <2> QED BY <1>2, <1>3, <1>5, <2>1 DEF SHAKE_256
  <1>8. IF k.attrs.Length # Absent THEN len = k.attrs.Length
        ELSE k.type = "symmetric" /\ len = 8 * k.size
    BY <1>1, <1>5
  <1> HIDE DEF alg, len, last
  <1> QED BY <1>2, <1>5, <1>6, <1>7, <1>8

\* A pair of numbers is not the absence of one.
LEMMA PairThere == \A a, l \in Int : [algorithm |-> a, length |-> l] # Absent
  BY ObjectsAssumption

\* The fields of an attribute.
LEMMA Fields ==
  /\ \A n, kind, v : /\ Attribute(n, kind, v).name = n
                     /\ Attribute(n, kind, v).kind = kind
                     /\ Attribute(n, kind, v).value = v
  /\ NameAttribute.name = "Name" /\ NameAttribute.kind = "structure"
  BY DEF Attribute, NameAttribute

\* The name, the usage mask, one of the pair, or the text of a generic attribute.
OneOf(o, a) ==
  \/ a.name = "Name" /\ a.kind = "structure"
  \/ a.name = "Mask" /\ a.kind = "int" /\ a.value = OrUnset(o.from.attrs.Mask)
  \/ /\ o.pair # Absent
     /\ a.name = "Algorithm" /\ a.kind = "enum" /\ a.value = o.pair.algorithm
  \/ o.pair # Absent /\ a.name = "Length" /\ a.kind = "int" /\ a.value = o.pair.length
  \/ /\ ~(version >= 20) /\ a.kind = "text"
     /\ a.name \in DOMAIN o.from.attrs.generic \ {"Name", "Object Group"}
     /\ a.value = o.from.attrs.generic[a.name].value

\* Register and Create send nothing else for an object other than a secret.
LEMMA StoredAttributes ==
  ASSUME NEW o, IsStored(version, o), o.from.type # "secret", NEW a \in o.attributes
  PROVE  OneOf(o, a)
  <1>1. CASE a = Attribute("Mask", "int", UNSET) /\ OrUnset(o.from.attrs.Mask) = UNSET
    BY <1>1 DEF OneOf, Attribute
  <1>2. CASE a \in RegisteredAttributes(version, o.from)
    <2>1. o.pair = AlgorithmAndLength(version, o.from)
      BY DEF IsStored
    <2>2. \/ a = NameAttribute
          \/ a \in MaskAttribute(o.from)
          \/ a \in GenericAttributes(version, o.from)
          \/ o.pair # Absent /\ a \in PairAttributes(o.pair.algorithm, o.pair.length)
      BY <1>2, <2>1, Zenon DEF RegisteredAttributes
    <2>3. CASE a = NameAttribute
      BY <2>3 DEF NameAttribute, Attribute, OneOf
    <2>4. CASE a \in MaskAttribute(o.from)
      <3>1. a = Attribute("Mask", "int", OrUnset(o.from.attrs.Mask))
        BY <2>4 DEF MaskAttribute, OrUnset
      <3>2. a.name = "Mask" /\ a.kind = "int" /\ a.value = OrUnset(o.from.attrs.Mask)
        BY <3>1 DEF Attribute
      <3> QED BY <3>2 DEF OneOf
    <2>5. CASE a \in GenericAttributes(version, o.from)
      <3>1. ~(version >= 20)
        BY <2>5 DEF GenericAttributes
      <3>2. PICK n \in DOMAIN o.from.attrs.generic \ {"Name", "Object Group"} :
              a = Attribute(n, "text", o.from.attrs.generic[n].value)
        BY <2>5, <3>1 DEF GenericAttributes
      <3>3. a.name = n /\ a.kind = "text" /\ a.value = o.from.attrs.generic[n].value
        BY <3>2 DEF Attribute
      <3> QED BY <3>1, <3>3 DEF OneOf
    <2>6. CASE o.pair # Absent /\ a \in PairAttributes(o.pair.algorithm, o.pair.length)
      <3>1. \/ a = Attribute("Algorithm", "enum", o.pair.algorithm)
            \/ a = Attribute("Length", "int", o.pair.length)
        BY <2>6 DEF PairAttributes
      <3>2. \/ a.name = "Algorithm" /\ a.kind = "enum" /\ a.value = o.pair.algorithm
            \/ a.name = "Length" /\ a.kind = "int" /\ a.value = o.pair.length
        BY <3>1 DEF Attribute
      <3> QED BY <2>6, <3>2 DEF OneOf
    <2> QED BY <2>2, <2>3, <2>4, <2>5, <2>6
  <1> QED BY <1>1, <1>2 DEF IsStored

\* And these are sent.
LEMMA AttributesSent ==
  ASSUME NEW o, IsStored(version, o), o.from.type # "secret"
  PROVE  /\ NameAttribute \in o.attributes
         /\ OrUnset(o.from.attrs.Mask) # UNSET =>
              Attribute("Mask", "int", OrUnset(o.from.attrs.Mask)) \in o.attributes
         /\ o.pair # Absent =>
              /\ Attribute("Algorithm", "enum", o.pair.algorithm) \in o.attributes
              /\ Attribute("Length", "int", o.pair.length) \in o.attributes
         /\ ~(version >= 20) =>
              \A n \in DOMAIN o.from.attrs.generic \ {"Name", "Object Group"} :
                Attribute(n, "text", o.from.attrs.generic[n].value) \in o.attributes
  <1>1. RegisteredAttributes(version, o.from) \subseteq o.attributes
    BY DEF IsStored
  <1>2. o.pair = AlgorithmAndLength(version, o.from)
    BY DEF IsStored
  <1>3. /\ NameAttribute \in RegisteredAttributes(version, o.from)
        /\ MaskAttribute(o.from) \subseteq RegisteredAttributes(version, o.from)
        /\ GenericAttributes(version, o.from) \subseteq RegisteredAttributes(version, o.from)
    BY DEF RegisteredAttributes
  <1>4. o.pair # Absent =>
          PairAttributes(o.pair.algorithm, o.pair.length) \subseteq RegisteredAttributes(version, o.from)
    BY <1>2, Zenon DEF RegisteredAttributes
  <1>5. OrUnset(o.from.attrs.Mask) # UNSET =>
          Attribute("Mask", "int", OrUnset(o.from.attrs.Mask)) \in MaskAttribute(o.from)
    BY DEF MaskAttribute, OrUnset
  <1>6. ~(version >= 20) =>
          \A n \in DOMAIN o.from.attrs.generic \ {"Name", "Object Group"} :
            Attribute(n, "text", o.from.attrs.generic[n].value) \in GenericAttributes(version, o.from)
    BY Zenon DEF GenericAttributes
  <1>7. /\ Attribute("Algorithm", "enum", o.pair.algorithm)
             \in PairAttributes(o.pair.algorithm, o.pair.length)
        /\ Attribute("Length", "int", o.pair.length)
             \in PairAttributes(o.pair.algorithm, o.pair.length)
    BY DEF PairAttributes
  <1> QED BY <1>1, <1>3, <1>4, <1>5, <1>6, <1>7, Zenon

\* The values sent under a name with a kind.
Sent(o, n, kind) == {a.value : a \in {b \in o.attributes : b.name = n /\ b.kind = kind}}

\* The pair of the Key Block is the pair among the attributes.
LEMMA PairStored ==
  ASSUME NEW o, IsStored(version, o), version \in Versions, IsKey(o)
  PROVE  IF o.pair = Absent
         THEN o.type # "symmetric" /\ Sent(o, "Algorithm", "enum") = {} /\ Sent(o, "Length", "int") = {}
         ELSE /\ Sent(o, "Algorithm", "enum") = {o.pair.algorithm}
              /\ Sent(o, "Length", "int") = {o.pair.length}
              /\ o.pair.algorithm # UNSET /\ o.pair.length > 0
              /\ version < 20 => o.pair.algorithm <= SHAKE_256
  <1> DEFINE f == o.from
  <1>2. /\ f.type # "secret" /\ o.type = f.type /\ IsObject(f)
        /\ Registrable(version, f) /\ o.pair = AlgorithmAndLength(version, f)
    BY DEF IsStored, IsKey
  <1>3. \A a \in o.attributes :
          /\ a.name = "Algorithm" /\ a.kind = "enum" =>
               o.pair # Absent /\ a.value = o.pair.algorithm
          /\ a.name = "Length" /\ a.kind = "int" =>
               o.pair # Absent /\ a.value = o.pair.length
    <2> SUFFICES ASSUME NEW a \in o.attributes
                 PROVE  /\ a.name = "Algorithm" /\ a.kind = "enum" =>
                             o.pair # Absent /\ a.value = o.pair.algorithm
                        /\ a.name = "Length" /\ a.kind = "int" =>
                             o.pair # Absent /\ a.value = o.pair.length
      OBVIOUS
    <2>1. OneOf(o, a)
      BY <1>2, StoredAttributes
    <2> QED BY <2>1 DEF OneOf
  <1>4. CASE o.pair = Absent
    <2>1. Sent(o, "Algorithm", "enum") = {} /\ Sent(o, "Length", "int") = {}
      BY <1>3, <1>4 DEF Sent
    <2>2. o.type # "symmetric"
      BY <1>2, <1>4 DEF Registrable
    <2> QED BY <1>4, <2>1, <2>2
  <1>5. CASE o.pair # Absent
    <2>1. /\ Attribute("Algorithm", "enum", o.pair.algorithm) \in o.attributes
          /\ Attribute("Length", "int", o.pair.length) \in o.attributes
      BY <1>2, <1>5, AttributesSent
    <2>2. /\ \E a \in o.attributes :
               a.name = "Algorithm" /\ a.kind = "enum" /\ a.value = o.pair.algorithm
          /\ \E a \in o.attributes :
               a.name = "Length" /\ a.kind = "int" /\ a.value = o.pair.length
      BY <2>1, Fields
    <2>3. /\ Sent(o, "Algorithm", "enum") = {o.pair.algorithm}
          /\ Sent(o, "Length", "int") = {o.pair.length}
      BY <1>3, <2>2 DEF Sent
    <2>4. /\ o.pair.algorithm # UNSET /\ o.pair.length > 0
          /\ version < 20 => o.pair.algorithm <= SHAKE_256
      BY <1>2, <1>5, PairOf
    <2> QED BY <1>5, <2>3, <2>4
  <1> QED BY <1>4, <1>5

\* In every state.
LEMMA PairHolds == ObjectsInv => PairConsistent
  BY PairStored, Zenon DEF ObjectsInv, PairConsistent, Sent

-----------------------------------------------------------------------------
(* What a server answers, and what the client makes of it *)

\* Get Attributes yields attributes that were sent, the server's own and State;
\* State always, and for a key all that were sent with a typed field, or all.
LEMMA Answered ==
  ASSUME NEW o, IsStored(version, o), NEW all \in BOOLEAN, NEW G, G = GetAttributes(o, all)
  PROVE  /\ \A a \in G : \/ a \in o.attributes
                         \/ a \in ServerAttributes /\ \A b \in o.attributes : b.name # a.name
                         \/ a = Attribute("State", "enum", o.state)
         /\ Attribute("State", "enum", o.state) \in G
         /\ \A a \in o.attributes :
              all \/ (o.type # "secret" /\ a.name \in WellKnown) => a \in G
  <1> DEFINE sent == {a.name : a \in o.attributes}
             own == {a \in ServerAttributes : a.name \notin sent} \cup
                    {Attribute("State", "enum", o.state)}
  <1>1. G = {a \in o.attributes \cup own : a.name \in Requested(o, all)}
    BY Zenon DEF GetAttributes
  <1>2. /\ "State" \in Requested(o, all)
        /\ all => \A a \in o.attributes : a.name \in Requested(o, all)
        /\ o.type # "secret" => all \/ WellKnown \subseteq Requested(o, all)
    <2>1. CASE all
      <3>1. Requested(o, all) = {a.name : a \in ServerAttributes \cup o.attributes} \cup {"State"}
        BY <2>1 DEF Requested
      <3> QED BY <2>1, <3>1, Zenon
    <2>2. CASE ~all /\ o.type # "secret"
      <3>1. Requested(o, all) = WellKnown \cup {"Name", "Operation Policy Name"}
        BY <2>2 DEF Requested
      <3> QED BY <2>2, <3>1 DEF WellKnown
    <2>3. CASE ~all /\ o.type = "secret"
      <3>1. Requested(o, all) = {"State", "Name", "Operation Policy Name"}
        BY <2>3 DEF Requested
      <3> QED BY <2>3, <3>1
    <2> QED BY <2>1, <2>2, <2>3
  <1>3. Attribute("State", "enum", o.state).name = "State"
    BY DEF Attribute
  <1> HIDE DEF own
  <1>4. \A a \in G : \/ a \in o.attributes
                     \/ a \in ServerAttributes /\ \A b \in o.attributes : b.name # a.name
                     \/ a = Attribute("State", "enum", o.state)
    BY <1>1 DEF own
  <1>5. Attribute("State", "enum", o.state) \in G
    BY <1>1, <1>2, <1>3 DEF own
  <1>6. \A a \in o.attributes :
          all \/ (o.type # "secret" /\ a.name \in WellKnown) => a \in G
    BY <1>1, <1>2
  <1> QED BY <1>4, <1>5, <1>6

\* AttributesParser::parse takes the value of a typed field from one of the
\* attributes answered under its name.
LEMMA Parsed ==
  ASSUME NEW G, NEW P, P = ParseAttributes(G)
  PROVE  /\ DOMAIN P = WellKnown \cup {"generic"}
         /\ \A n \in WellKnown :
              \/ (\A a \in G : a.name # n) /\ P[n] = Absent
              \/ \E a \in G : a.name = n /\ P[n] = SetTyped(NoAttributes, n, a.value)[n]
  <1> DEFINE Of(n) == CHOOSE a \in G : a.name = n
             names == {a.name : a \in G}
             generic == [n \in names \ WellKnown |->
                           [kind |-> StoredKind(Of(n).kind), value |-> Of(n).value]]
             Typed(n) == IF n \in names THEN SetTyped(NoAttributes, n, Of(n).value)[n] ELSE Absent
  <1>1. P = [n \in DOMAIN NoAttributes |-> IF n = "generic" THEN generic ELSE Typed(n)]
    BY Zenon DEF ParseAttributes
  <1>2. DOMAIN NoAttributes = WellKnown \cup {"generic"}
    BY NoneSet DEF IsAttributes
  <1>3. \A n \in names : Of(n) \in G /\ Of(n).name = n
    BY Zenon
  <1>4. DOMAIN P = WellKnown \cup {"generic"} /\ \A n \in WellKnown : P[n] = Typed(n)
    <2>1. "generic" \notin WellKnown
      BY DEF WellKnown
    <2> HIDE DEF generic, Typed
    <2> QED BY <1>1, <1>2, <2>1
  <1>5. ASSUME NEW n \in WellKnown
        PROVE  \/ (\A a \in G : a.name # n) /\ P[n] = Absent
               \/ \E a \in G : a.name = n /\ P[n] = SetTyped(NoAttributes, n, a.value)[n]
    <2>1. CASE n \in names
      <3>1. P[n] = SetTyped(NoAttributes, n, Of(n).value)[n]
        BY <1>4, <2>1, Zenon
      <3> HIDE DEF Of
      <3> QED BY <1>3, <2>1, <3>1, Zenon
    <2>2. CASE n \notin names
      BY <1>4, <2>2, Zenon
    <2> QED BY <2>1, <2>2
  <1> QED BY <1>4, <1>5, Zenon

\* P has a generic attribute from one of G.
KeptAs(G, P, n) ==
  /\ n \in DOMAIN P.generic
  /\ \E a \in G : /\ a.name = n
                  /\ P.generic[n] = [kind |-> StoredKind(a.kind), value |-> a.value]

\* And it keeps every other attribute under its name.
LEMMA ParsedGeneric ==
  ASSUME NEW G, NEW P, P = ParseAttributes(G), NEW b \in G, b.name \notin WellKnown
  PROVE  KeptAs(G, P, b.name)
  <1> DEFINE n == b.name
  <1> DEFINE Of(m) == CHOOSE a \in G : a.name = m
             names == {a.name : a \in G}
             generic == [m \in names \ WellKnown |->
                           [kind |-> StoredKind(Of(m).kind), value |-> Of(m).value]]
             Typed(m) == IF m \in names THEN SetTyped(NoAttributes, m, Of(m).value)[m] ELSE Absent
  <1>1. P = [m \in DOMAIN NoAttributes |-> IF m = "generic" THEN generic ELSE Typed(m)]
    BY Zenon DEF ParseAttributes
  <1>2. "generic" \in DOMAIN NoAttributes
    BY NoneSet DEF IsAttributes
  <1>3. P.generic = generic
    <2> HIDE DEF generic, Typed
    <2> QED BY <1>1, <1>2
  <1>4. n \in names \ WellKnown
    OBVIOUS
  <1>5. Of(n) \in G /\ Of(n).name = n
    BY Zenon
  <1>6. /\ n \in DOMAIN generic
        /\ generic[n] = [kind |-> StoredKind(Of(n).kind), value |-> Of(n).value]
    BY <1>4, Zenon
  <1> HIDE DEF Of, generic, n
  <1>7. KeptAs(G, P, n)
    BY <1>3, <1>5, <1>6 DEF KeptAs
  <1> QED BY <1>7 DEF n

\* The cases of AttributesParser.
LEMMA ParsesAs ==
  ASSUME NEW a
  PROVE  /\ a.name = "Algorithm" =>
              (AttributeParses(a) <=> a.kind = "enum" /\ IsValidCryptographicAlgorithm(a.value))
         /\ a.name = "Length" => (AttributeParses(a) <=> a.kind = "int")
         /\ a.name = "Mask" =>
              (AttributeParses(a) <=> a.kind = "int" /\ IsValidCryptographicUsageMask(a.value))
         /\ a.name = "State" =>
              (AttributeParses(a) <=> a.kind = "enum" /\ IsValidState(a.value))
         /\ a.name \notin WellKnown => AttributeParses(a)
  <1> HIDE DEF IsValidCryptographicAlgorithm, IsValidCryptographicUsageMask, IsValidState
  <1>1. CASE a.name = "Algorithm"
    BY <1>1 DEF AttributeParses, WellKnown
  <1>2. CASE a.name = "Length"
    BY <1>2 DEF AttributeParses, WellKnown
  <1>3. CASE a.name = "Mask"
    BY <1>3 DEF AttributeParses, WellKnown
  <1>4. CASE a.name = "State"
    BY <1>4 DEF AttributeParses, WellKnown
  <1>5. CASE a.name \notin WellKnown
    BY <1>5 DEF AttributeParses, WellKnown
  <1> QED BY <1>1, <1>2, <1>3, <1>4, <1>5 DEF WellKnown

\* What is answered under a well-known name was sent for the object, or is
\* its State.
LEMMA AnsweredAs ==
  ASSUME NEW o, IsStored(version, o), o.from.type # "secret", NEW all \in BOOLEAN,
         NEW G, G = GetAttributes(o, all), NEW a \in G
  PROVE  \/ OneOf(o, a)
         \/ a \in ServerAttributes /\ a.name \notin WellKnown
         \/ a.name = "State" /\ a.kind = "enum" /\ a.value = o.state
  <1>1. \/ a \in o.attributes
        \/ a \in ServerAttributes
        \/ a = Attribute("State", "enum", o.state)
    BY Answered, Zenon
  <1>2. CASE a \in o.attributes
    BY <1>2, StoredAttributes
  <1>3. CASE a \in ServerAttributes
    BY <1>3, ObjectsAssumption
  <1>4. CASE a = Attribute("State", "enum", o.state)
    BY <1>4, Fields
  <1> QED BY <1>1, <1>2, <1>3, <1>4

\* An answer that parses has under a well-known name what the object has.
LEMMA TypedAnswer ==
  ASSUME NEW o, IsStored(version, o), o.from.type # "secret", NEW all \in BOOLEAN,
         NEW G, G = GetAttributes(o, all), NEW a \in G, AttributeParses(a)
  PROVE  /\ a.name = "Algorithm" => o.pair # Absent /\ a.value = o.pair.algorithm
         /\ a.name = "Length" => o.pair # Absent /\ a.value = o.pair.length
         /\ a.name = "Mask" => a.value = OrUnset(o.from.attrs.Mask)
         /\ a.name = "State" => a.value = o.state
  <1>1. \/ OneOf(o, a)
        \/ a.name \notin WellKnown
        \/ a.name = "State" /\ a.value = o.state
    BY AnsweredAs, Zenon
  <1>2. a.name \in WellKnown => a.kind \in {"enum", "int"}
    BY ParsesAs DEF WellKnown
  <1>3. CASE OneOf(o, a)
    BY <1>2, <1>3 DEF OneOf, WellKnown
  <1> QED BY <1>1, <1>3 DEF WellKnown

\* Nothing under a well-known name is lost.
LEMMA TypedThere ==
  ASSUME NEW o, IsStored(version, o), o.from.type # "secret", NEW all \in BOOLEAN,
         NEW G, G = GetAttributes(o, all)
  PROVE  /\ o.pair # Absent => /\ \E a \in G : a.name = "Algorithm"
                               /\ \E a \in G : a.name = "Length"
         /\ OrUnset(o.from.attrs.Mask) # UNSET => \E a \in G : a.name = "Mask"
         /\ \E a \in G : a.name = "State"
  <1>1. o.type # "secret"
    BY DEF IsStored
  <1>2. /\ \A a \in o.attributes : a.name \in WellKnown => a \in G
        /\ Attribute("State", "enum", o.state) \in G
    BY <1>1, Answered, Zenon
  <1>3. /\ Attribute("Algorithm", "enum", o.pair.algorithm).name = "Algorithm"
        /\ Attribute("Length", "int", o.pair.length).name = "Length"
        /\ Attribute("Mask", "int", OrUnset(o.from.attrs.Mask)).name = "Mask"
        /\ Attribute("State", "enum", o.state).name = "State"
    BY DEF Attribute
  <1>4. {"Algorithm", "Length", "Mask"} \subseteq WellKnown
    BY DEF WellKnown
  <1>5. o.pair # Absent => /\ Attribute("Algorithm", "enum", o.pair.algorithm) \in G
                           /\ Attribute("Length", "int", o.pair.length) \in G
    BY <1>2, <1>3, <1>4, AttributesSent
  <1>6. OrUnset(o.from.attrs.Mask) # UNSET =>
          Attribute("Mask", "int", OrUnset(o.from.attrs.Mask)) \in G
    BY <1>2, <1>3, <1>4, AttributesSent
  <1> QED BY <1>2, <1>3, <1>5, <1>6, Zenon

\* The typed fields of what is read back are those of the object.
LEMMA ReadBack ==
  ASSUME NEW o, IsStored(version, o), o.from.type # "secret", version \in Versions,
         NEW all \in BOOLEAN, NEW G, G = GetAttributes(o, all), AllParse(G),
         NEW P, P = ParseAttributes(G)
  PROVE  /\ IsAttributes(P) /\ P.State = o.state
         /\ P.Algorithm = IF o.pair = Absent THEN Absent ELSE o.pair.algorithm
         /\ P.Length = IF o.pair = Absent THEN Absent ELSE o.pair.length
         /\ P.Mask = IF OrUnset(o.from.attrs.Mask) = UNSET THEN Absent
                     ELSE OrUnset(o.from.attrs.Mask)
  <1>1. /\ OrUnset(o.from.attrs.Mask) \in Int /\ o.state \in Int
        /\ o.pair # Absent => o.pair.algorithm \in Int \ {UNSET} /\ o.pair.length \in Int
    <2>1. IsObject(o.from) /\ o.pair = AlgorithmAndLength(version, o.from) /\ o.state \in Int
      BY DEF IsStored, PRE_ACTIVE, DESTROYED_COMPROMISED
    <2>2. OrUnset(o.from.attrs.Mask) \in Int
      BY <2>1 DEF IsObject, IsAttributes, WellKnown, OrUnset, UNSET
    <2> QED BY <2>1, <2>2, PairOf
  <1>2. \A a \in G :
          /\ a.name = "Algorithm" => o.pair # Absent /\ a.value = o.pair.algorithm
          /\ a.name = "Length" => o.pair # Absent /\ a.value = o.pair.length
          /\ a.name = "Mask" => a.value = OrUnset(o.from.attrs.Mask)
          /\ a.name = "State" => a.value = o.state
    BY TypedAnswer, Zenon DEF AllParse
  <1>3. \A n \in WellKnown :
          \/ (\A a \in G : a.name # n) /\ P[n] = Absent
          \/ \E a \in G : a.name = n /\ P[n] = SetTyped(NoAttributes, n, a.value)[n]
    BY Parsed
  <1>4. \A n \in WellKnown : \A v \in Int :
          SetTyped(NoAttributes, n, v)[n] =
            IF n \in {"Algorithm", "Mask"} /\ v = UNSET THEN Absent ELSE v
    BY TypedSet, NoneSet
  <1>5. P.State = o.state
    <2>1. "State" \in WellKnown /\ "State" \notin {"Algorithm", "Mask"}
      BY DEF WellKnown
    <2>2. PICK a \in G : a.name = "State" /\ P["State"] = SetTyped(NoAttributes, "State", a.value)["State"]
      BY <1>3, <2>1, TypedThere
    <2> QED BY <1>1, <1>2, <1>4, <2>1, <2>2
  <1>6. P.Algorithm = IF o.pair = Absent THEN Absent ELSE o.pair.algorithm
    <2>1. "Algorithm" \in WellKnown
      BY DEF WellKnown
    <2>2. CASE o.pair = Absent
      BY <1>2, <1>3, <2>1, <2>2
    <2>3. CASE o.pair # Absent
      <3>1. PICK a \in G : a.name = "Algorithm"
                             /\ P["Algorithm"] = SetTyped(NoAttributes, "Algorithm", a.value)["Algorithm"]
        BY <1>3, <2>1, <2>3, TypedThere
      <3> QED BY <1>1, <1>2, <1>4, <2>1, <2>3, <3>1
    <2> QED BY <2>2, <2>3
  <1>7. P.Length = IF o.pair = Absent THEN Absent ELSE o.pair.length
    <2>1. "Length" \in WellKnown /\ "Length" \notin {"Algorithm", "Mask"}
      BY DEF WellKnown
    <2>2. CASE o.pair = Absent
      BY <1>2, <1>3, <2>1, <2>2
    <2>3. CASE o.pair # Absent
      <3>1. PICK a \in G : a.name = "Length"
                             /\ P["Length"] = SetTyped(NoAttributes, "Length", a.value)["Length"]
        BY <1>3, <2>1, <2>3, TypedThere
      <3> QED BY <1>1, <1>2, <1>4, <2>1, <2>3, <3>1
    <2> QED BY <2>2, <2>3
  <1>8. P.Mask = IF OrUnset(o.from.attrs.Mask) = UNSET THEN Absent
                 ELSE OrUnset(o.from.attrs.Mask)
    <2>1. "Mask" \in WellKnown
      BY DEF WellKnown
    <2>2. CASE \A a \in G : a.name # "Mask"
      <3>1. OrUnset(o.from.attrs.Mask) = UNSET
        BY <2>2, TypedThere
      <3> QED BY <1>3, <2>1, <2>2, <3>1
    <2>3. CASE ~ \A a \in G : a.name # "Mask"
      <3>1. PICK a \in G : a.name = "Mask" /\ P["Mask"] = SetTyped(NoAttributes, "Mask", a.value)["Mask"]
        BY <1>3, <2>1, <2>3, Zenon
      <3> QED BY <1>1, <1>2, <1>4, <2>1, <3>1
    <2> QED BY <2>2, <2>3
  <1>9. IsAttributes(P)
    <2>1. DOMAIN P = WellKnown \cup {"generic"}
      BY Parsed, Zenon
    <2>2. \A n \in WellKnown : P[n] \in Int \cup {Absent}
      BY <1>1, <1>5, <1>6, <1>7, <1>8 DEF WellKnown
    <2> QED BY <2>1, <2>2 DEF IsAttributes
  <1> QED BY <1>5, <1>6, <1>7, <1>8, <1>9

\* The generic attributes with names of their own.
Custom(f) == DOMAIN f.attrs.generic \ (WellKnown \cup {"Name", "Object Group"})

\* The attributes have a generic one as a text.
HasText(f, attrs, n) ==
  /\ n \in DOMAIN attrs.generic
  /\ attrs.generic[n] = [kind |-> "text", value |-> f.attrs.generic[n].value]

\* Asked for all attributes, the server returns the generic ones that were
\* sent, as texts.
LEMMA GenericBack ==
  ASSUME NEW o, IsStored(version, o), o.from.type # "secret", ~(version >= 20), NEW all \in BOOLEAN, all,
         NEW G, G = GetAttributes(o, all), NEW P, P = ParseAttributes(G),
         NEW n \in Custom(o.from)
  PROVE  HasText(o.from, P, n)
  <1> DEFINE b == Attribute(n, "text", o.from.attrs.generic[n].value)
  <1>1. b \in o.attributes
    BY AttributesSent DEF Custom
  <1>2. b.name = n
    BY DEF Attribute
  <1> HIDE DEF b
  <1>3. b \in G
    BY <1>1, Answered, Zenon
  <1>4. KeptAs(G, P, n)
    <2>1. b.name \notin WellKnown
      BY <1>2 DEF Custom
    <2>2. KeptAs(G, P, b.name)
      BY <1>3, <2>1, ParsedGeneric, Zenon
    <2> QED BY <1>2, <2>2, Zenon
  <1>5. ASSUME NEW a \in G, a.name = n
        PROVE  a.kind = "text" /\ a.value = o.from.attrs.generic[n].value
    <2>1. \/ a \in o.attributes
          \/ \A c \in o.attributes : c.name # a.name
          \/ a = Attribute("State", "enum", o.state)
      BY Answered, Zenon
    <2>2. CASE a \in o.attributes
      <3>1. OneOf(o, a)
        BY <2>2, StoredAttributes
      <3> QED BY <1>5, <3>1 DEF OneOf, WellKnown, Custom
    <2>3. CASE \A c \in o.attributes : c.name # a.name
      BY <1>1, <1>2, <1>5, <2>3
    <2>4. CASE a = Attribute("State", "enum", o.state)
      BY <1>5, <2>4 DEF WellKnown, Attribute, Custom
    <2> QED BY <2>1, <2>2, <2>3, <2>4
  <1>6. StoredKind("text") = "text"
    BY DEF StoredKind
  <1> QED BY <1>4, <1>5, <1>6, Zenon DEF KeptAs, HasText

\* A pair put into a bag without attributes.
LEMMA PairSet ==
  ASSUME NEW algorithm \in Int \ {UNSET}, NEW length \in Int,
         NEW A, A = SetTyped(NoAttributes, "Algorithm", algorithm),
         NEW B, B = SetTyped(A, "Length", length)
  PROVE  /\ IsAttributes(B) /\ B.Mask = Absent
         /\ B.Algorithm = algorithm /\ B.Length = length
  <1>1. A = [Algorithm |-> algorithm, Length |-> Absent, Mask |-> Absent, State |-> Absent,
             generic |-> <<>>]
    BY Zenon DEF SetTyped, NoAttributes
  <1>2. B = [Algorithm |-> algorithm, Length |-> length, Mask |-> Absent, State |-> Absent,
             generic |-> <<>>]
    <2>1. \A a : SetTyped(a, "Length", length) = [a EXCEPT !["Length"] = length]
      BY DEF SetTyped
    <2>2. B = [A EXCEPT !["Length"] = length]
      BY <2>1, Zenon
    <2> QED BY <1>1, <2>2
  <1> QED BY <1>2 DEF IsAttributes, WellKnown

\* The attributes in the Key Block are the pair.
LEMMA BlockIs ==
  ASSUME NEW o, IsStored(version, o), o.from.type # "secret", version \in Versions,
         NEW B, B = BlockAttributes(o)
  PROVE  /\ IsAttributes(B) /\ B.Mask = Absent
         /\ B.Algorithm = IF o.pair = Absent THEN Absent ELSE o.pair.algorithm
         /\ B.Length = IF o.pair = Absent THEN Absent ELSE o.pair.length
  <1>1. CASE o.pair = Absent
    BY <1>1, NoneSet DEF BlockAttributes, WellKnown
  <1>2. CASE o.pair # Absent
    <2>1. o.pair.algorithm \in Int \ {UNSET} /\ o.pair.length \in Int
      BY <1>2, PairOf DEF IsStored
    <2>2. B = SetTyped(SetTyped(NoAttributes, "Algorithm", o.pair.algorithm),
                       "Length", o.pair.length)
      BY <1>2 DEF BlockAttributes
    <2> QED BY <1>2, <2>1, <2>2, PairSet
  <1> QED BY <1>1, <1>2

\* The format of a fetched object is the one of the object it was sent for.
LEMMA FormatKept ==
  ASSUME NEW o, IsStored(version, o), o.type \in {"symmetric", "private", "public", "secret"},
         NEW attrs
  PROVE  SameKey(Fetched(o, attrs), o.from)
  <1> DEFINE f == o.from
             k == Fetched(o, attrs)
  <1>1. /\ k.type = f.type /\ k.size = f.size /\ k.secret = f.secret
        /\ k.format = KeyFormat(f) /\ f.type \in {"symmetric", "private", "public", "secret"}
    BY DEF IsStored, Fetched
  <1> HIDE DEF k, f
  <1>2. f.format # Absent => k.format = f.format
    BY <1>1 DEF KeyFormat
  <1>3. f.format = Absent => k.format = [symmetric |-> "raw", private |-> "pkcs8",
                                         public |-> "x509", secret |-> "opaque"][k.type]
    BY <1>1 DEF KeyFormat, DefaultFormat
  <1>4. SameKey(k, f)
    BY <1>1, <1>2, <1>3, Zenon DEF SameKey
  <1> QED BY <1>4 DEF k, f

\* A key is fetched as it was registered.
LEMMA KeyBack ==
  ASSUME NEW o, IsStored(version, o), o.from.type # "secret", version \in Versions,
         NEW all \in BOOLEAN, NEW G, G = GetAttributes(o, all), AllParse(G),
         NEW k, k = Fetched(o, Merge(BlockAttributes(o), ParseAttributes(G)))
  PROVE  /\ IsObject(k) /\ SameKey(k, o.from) /\ SameAttributes(k, o.from)
         /\ k.attrs.State = o.state
         /\ all /\ ~(version >= 20) =>
              \A n \in Custom(o.from) : HasText(o.from, k.attrs, n)
  <1> DEFINE f == o.from
             P == ParseAttributes(G)
             B == BlockAttributes(o)
             M == Merge(B, P)
  <1>1. /\ IsObject(f) /\ o.type = f.type /\ o.size = f.size
        /\ Registrable(version, f) /\ o.pair = AlgorithmAndLength(version, f) /\ o.state \in Int
    BY DEF IsStored, PRE_ACTIVE, DESTROYED_COMPROMISED
  <1>2. /\ k.type = f.type /\ k.size = f.size /\ k.attrs = M
        /\ DOMAIN k = {"type", "size", "format", "secret", "attrs"}
    BY <1>1 DEF Fetched
  <1>3. /\ IsAttributes(P) /\ P.State = o.state
        /\ P.Algorithm = IF o.pair = Absent THEN Absent ELSE o.pair.algorithm
        /\ P.Length = IF o.pair = Absent THEN Absent ELSE o.pair.length
        /\ P.Mask = IF OrUnset(f.attrs.Mask) = UNSET THEN Absent ELSE OrUnset(f.attrs.Mask)
    <2> HIDE DEF P
    <2>1. P = ParseAttributes(G)
      BY DEF P
    <2> QED BY <2>1, ReadBack
  <1>4. /\ IsAttributes(B) /\ B.Mask = Absent
        /\ B.Algorithm = IF o.pair = Absent THEN Absent ELSE o.pair.algorithm
        /\ B.Length = IF o.pair = Absent THEN Absent ELSE o.pair.length
    <2> HIDE DEF B
    <2>1. B = BlockAttributes(o)
      BY DEF B
    <2> QED BY <2>1, BlockIs
  <1>5. /\ \A n \in DOMAIN P.generic : n \in DOMAIN M.generic /\ M.generic[n] = P.generic[n]
        /\ IsAttributes(M)
        /\ \A n \in WellKnown : M[n] = IF P[n] # Absent THEN P[n] ELSE B[n]
    <2> HIDE DEF P, B
    <2> QED BY <1>3, <1>4, Merged
  <1>6. all /\ ~(version >= 20) => \A n \in Custom(f) : HasText(f, P, n)
    BY GenericBack, ZenonT(30)
  <1> HIDE DEF P, B, M
  <1>7. IsObject(k)
    BY <1>1, <1>2, <1>5, SMTT(30) DEF IsObject
  <1>8. SameKey(k, f)
    BY <1>1, FormatKept, SMTT(30) DEF Registrable
  <1>9. k.attrs.State = o.state
    BY <1>1, <1>2, <1>3, <1>5, ObjectsAssumption, SMTT(30) DEF WellKnown
  <1>10. SameAttributes(k, f)
    <2>1. /\ M.Algorithm = IF o.pair = Absent THEN Absent ELSE o.pair.algorithm
          /\ M.Length = IF o.pair = Absent THEN Absent ELSE o.pair.length
          /\ M.Mask = IF OrUnset(f.attrs.Mask) = UNSET THEN Absent ELSE OrUnset(f.attrs.Mask)
      BY <1>3, <1>4, <1>5 DEF WellKnown
    <2>2. OrUnset(k.attrs.Mask) = OrUnset(f.attrs.Mask)
      BY <1>2, <2>1 DEF OrUnset
    <2>3. CASE o.pair = Absent
      <3>1. k.type # "symmetric"
        BY <1>1, <1>2, <2>3, SMTT(30) DEF Registrable
      <3> QED BY <1>2, <2>1, <2>2, <2>3, <3>1 DEF SameAttributes
    <2>4. CASE o.pair # Absent
      <3>1. /\ o.pair.algorithm = f.attrs.Algorithm
            /\ IF f.attrs.Length # Absent THEN o.pair.length = f.attrs.Length
               ELSE f.type = "symmetric" /\ o.pair.length = 8 * f.size
        BY <1>1, <2>4, PairOf, SMTT(30)
      <3> QED BY <1>2, <2>1, <2>2, <2>4, <3>1, SMTT(30) DEF SameAttributes
    <2> QED BY <2>3, <2>4
  <1>11. all /\ ~(version >= 20) => \A n \in Custom(f) : HasText(f, k.attrs, n)
    BY <1>2, <1>5, <1>6 DEF HasText
  <1> QED BY <1>7, <1>8, <1>9, <1>10, <1>11, SMTT(30)

\* The reasons for which the attributes of a key cannot be read.
BadAttributes(o) ==
  \/ o.pair # Absent /\ ~IsValidCryptographicAlgorithm(o.pair.algorithm)
  \/ ~IsValidCryptographicUsageMask(OrUnset(o.from.attrs.Mask))
  \/ ~(version >= 20) /\ DOMAIN o.from.attrs.generic \cap WellKnown # {}

\* No mask, and the mask of secrets, are among the defined ones.
LEMMA MasksDefined ==
  /\ IsValidCryptographicUsageMask(UNSET) /\ IsValidCryptographicUsageMask(SECRET_MASK)
  /\ UNDEFINED_MASK \in Int /\ SECRET_MASK \in Int
  BY SMT DEF IsValidCryptographicUsageMask, UNDEFINED_MASK, UNSET, SECRET_MASK

\* Each of them is met by an attribute that the server answers with.
LEMMA BadNotParsed ==
  ASSUME NEW o, IsStored(version, o), o.from.type # "secret", NEW all \in BOOLEAN,
         NEW G, G = GetAttributes(o, all), BadAttributes(o)
  PROVE  ~AllParse(G)
  <1>1. o.type # "secret"
    BY DEF IsStored
  <1>2. \A a \in o.attributes : a.name \in WellKnown => a \in G
    BY <1>1, Answered, Zenon
  <1>3. CASE o.pair # Absent /\ ~IsValidCryptographicAlgorithm(o.pair.algorithm)
    <2> DEFINE a == Attribute("Algorithm", "enum", o.pair.algorithm)
    <2>1. a \in o.attributes
      BY <1>3, AttributesSent
    <2>2. a.name = "Algorithm" /\ a.value = o.pair.algorithm
      BY DEF Attribute
    <2> HIDE DEF a
    <2>3. a \in G
      BY <1>2, <2>1, <2>2 DEF WellKnown
    <2>4. ~AttributeParses(a)
      BY <1>3, <2>2, ParsesAs
    <2> QED BY <2>3, <2>4 DEF AllParse
  <1>4. CASE ~IsValidCryptographicUsageMask(OrUnset(o.from.attrs.Mask))
    <2> DEFINE a == Attribute("Mask", "int", OrUnset(o.from.attrs.Mask))
    <2>1. OrUnset(o.from.attrs.Mask) # UNSET
      BY <1>4, MasksDefined
    <2>2. a \in o.attributes
      BY <2>1, AttributesSent
    <2>3. a.name = "Mask" /\ a.value = OrUnset(o.from.attrs.Mask)
      BY DEF Attribute
    <2> HIDE DEF a
    <2>4. a \in G
      BY <1>2, <2>2, <2>3 DEF WellKnown
    <2>5. ~AttributeParses(a)
      BY <1>4, <2>3, ParsesAs
    <2> QED BY <2>4, <2>5 DEF AllParse
  <1>5. CASE ~(version >= 20) /\ DOMAIN o.from.attrs.generic \cap WellKnown # {}
    <2>1. PICK n : n \in DOMAIN o.from.attrs.generic /\ n \in WellKnown
      BY <1>5
    <2> DEFINE a == Attribute(n, "text", o.from.attrs.generic[n].value)
    <2>2. n \in DOMAIN o.from.attrs.generic \ {"Name", "Object Group"}
      BY <2>1 DEF WellKnown
    <2>3. a \in o.attributes
      BY <1>5, <2>2, AttributesSent
    <2>4. a.name = n /\ a.kind = "text"
      BY DEF Attribute
    <2> HIDE DEF a
    <2>5. a \in G
      BY <1>2, <2>1, <2>3, <2>4
    <2>6. ~AttributeParses(a)
      BY <2>1, <2>4, ParsesAs DEF WellKnown
    <2> QED BY <2>5, <2>6 DEF AllParse
  <1> QED BY <1>3, <1>4, <1>5 DEF BadAttributes

\* And there is no other.
LEMMA OthersParsed ==
  ASSUME NEW o, IsStored(version, o), o.from.type # "secret", NEW all \in BOOLEAN,
         NEW G, G = GetAttributes(o, all), ~BadAttributes(o)
  PROVE  AllParse(G)
  <1> SUFFICES ASSUME NEW a \in G PROVE AttributeParses(a)
    BY DEF AllParse
  <1>1. \/ OneOf(o, a)
        \/ a.name \notin WellKnown
        \/ a.name = "State" /\ a.kind = "enum" /\ a.value = o.state
    BY AnsweredAs, Zenon
  <1>2. CASE a.name \notin WellKnown
    BY <1>2, ParsesAs
  <1>3. CASE a.name = "State" /\ a.kind = "enum" /\ a.value = o.state
    <2>1. IsValidState(o.state)
      BY DEF IsStored, IsValidState, PRE_ACTIVE, DESTROYED_COMPROMISED
    <2> QED BY <1>3, <2>1, ParsesAs
  <1>4. CASE OneOf(o, a)
    <2>1. CASE a.name = "Name"
      BY <2>1, ParsesAs DEF WellKnown
    <2>2. CASE a.name = "Mask" /\ a.kind = "int" /\ a.value = OrUnset(o.from.attrs.Mask)
      BY <2>2, ParsesAs DEF BadAttributes
    <2>3. CASE /\ o.pair # Absent
               /\ a.name = "Algorithm" /\ a.kind = "enum" /\ a.value = o.pair.algorithm
      BY <2>3, ParsesAs DEF BadAttributes
    <2>4. CASE a.name = "Length" /\ a.kind = "int"
      BY <2>4, ParsesAs
    <2>5. CASE ~(version >= 20) /\ a.name \in DOMAIN o.from.attrs.generic
      <3>1. a.name \notin WellKnown
        BY <2>5 DEF BadAttributes
      <3> QED BY <3>1, ParsesAs
    <2> QED BY <1>4, <2>1, <2>2, <2>3, <2>4, <2>5 DEF OneOf
  <1> QED BY <1>1, <1>2, <1>3, <1>4

\* So op_get_key throws for the keys of Unreadable and for no other.
LEMMA ReadableKey ==
  ASSUME NEW o, IsStored(version, o), o.from.type # "secret", version \in Versions,
         NEW all \in BOOLEAN, NEW G, G = GetAttributes(o, all)
  PROVE  (AllParse(G) /\ KeyParses(o)) <=> ~Unreadable(o)
  <1> DEFINE f == o.from
  <1>1. /\ o.type = f.type /\ f.type \in {"symmetric", "private", "public"}
        /\ o.format = KeyFormat(f) /\ o.pair = AlgorithmAndLength(version, f) /\ IsObject(f)
    BY DEF IsStored, Registrable
  <1>2. AllParse(G) <=> ~BadAttributes(o)
    BY BadNotParsed, OthersParsed
  <1>3. IsKey(o) /\ version \in Int
    BY <1>1, ObjectsAssumption DEF IsKey
  <1>4. o.pair # Absent =>
          (IsValidCryptographicAlgorithm(o.pair.algorithm) <=> f.attrs.Algorithm \in UNSET .. ED448)
    <2>1. o.pair # Absent => o.pair.algorithm = f.attrs.Algorithm /\ o.pair.algorithm \in Int
      BY <1>1, PairOf
    <2> QED BY <2>1 DEF IsValidCryptographicAlgorithm, UNSET, ED448
  <1>5. f.type = "symmetric" => (o.format = "raw" <=> f.format \in {Absent, "raw"})
    BY <1>1 DEF KeyFormat, DefaultFormat
  <1>6. KeyParses(o) <=>
          /\ f.type = "symmetric" => f.format \in {Absent, "raw"}
          /\ o.pair # Absent => f.attrs.Algorithm \in UNSET .. ED448
    BY <1>1, <1>4, <1>5 DEF KeyParses
  <1>7. BadAttributes(o) <=>
          \/ o.pair # Absent /\ f.attrs.Algorithm \notin UNSET .. ED448
          \/ OrUnset(f.attrs.Mask) \notin 0 .. UNDEFINED_MASK - 1
          \/ version < 20 /\ DOMAIN f.attrs.generic \cap WellKnown # {}
    <2>1. version < 20 <=> ~(version >= 20)
      BY <1>3
    <2>2. OrUnset(f.attrs.Mask) \in Int
      BY <1>1 DEF IsObject, IsAttributes, WellKnown, OrUnset, UNSET
    <2>3. IsValidCryptographicUsageMask(OrUnset(f.attrs.Mask)) <=>
            OrUnset(f.attrs.Mask) \in 0 .. UNDEFINED_MASK - 1
      BY <2>2, MasksDefined DEF IsValidCryptographicUsageMask
    <2> QED BY <1>4, <2>1, <2>3 DEF BadAttributes
  <1>8. Unreadable(o) <=>
          \/ o.pair # Absent /\ f.attrs.Algorithm \notin UNSET .. ED448
          \/ OrUnset(f.attrs.Mask) \notin 0 .. UNDEFINED_MASK - 1
          \/ f.type = "symmetric" /\ f.format \notin {Absent, "raw"}
          \/ version < 20 /\ DOMAIN f.attrs.generic \cap WellKnown # {}
    BY <1>1, <1>3 DEF Unreadable
  <1> QED BY <1>2, <1>6, <1>7, <1>8

\* A secret is read back unless its type is unknown, with its State.
LEMMA SecretBack ==
  ASSUME NEW o, IsStored(version, o), o.from.type = "secret", version \in Versions,
         NEW all \in BOOLEAN, NEW G, G = GetAttributes(o, all),
         NEW P, P = ParseAttributes(G)
  PROVE  /\ AllParse(G) /\ IsAttributes(P) /\ P.State = o.state
         /\ IsValidSecretDataType(o.secret) <=> ~Unreadable(o)
  <1>1. /\ o.type = "secret" /\ o.secret = o.from.secret
        /\ o.state \in PRE_ACTIVE .. DESTROYED_COMPROMISED
        /\ o.attributes = {NameAttribute, Attribute("Mask", "int", SECRET_MASK)}
    BY DEF IsStored
  <1>2. \A a \in G : \/ a.name \notin WellKnown
                     \/ a.name = "Mask" /\ a.kind = "int" /\ a.value = SECRET_MASK
                     \/ a.name = "State" /\ a.kind = "enum" /\ a.value = o.state
    <2> SUFFICES ASSUME NEW a \in G
                 PROVE  \/ a.name \notin WellKnown
                        \/ a.name = "Mask" /\ a.kind = "int" /\ a.value = SECRET_MASK
                        \/ a.name = "State" /\ a.kind = "enum" /\ a.value = o.state
      OBVIOUS
    <2>1. \/ a \in o.attributes
          \/ a \in ServerAttributes
          \/ a = Attribute("State", "enum", o.state)
      BY Answered, Zenon
    <2>2. CASE a = NameAttribute
      BY <2>2, Fields DEF WellKnown
    <2>3. CASE a = Attribute("Mask", "int", SECRET_MASK)
      BY <2>3 DEF Attribute
    <2>4. CASE a \in ServerAttributes
      BY <2>4, ObjectsAssumption
    <2>5. CASE a = Attribute("State", "enum", o.state)
      BY <2>5 DEF Attribute
    <2> QED BY <1>1, <2>1, <2>2, <2>3, <2>4, <2>5
  <1>3. /\ IsValidState(o.state) /\ o.state \in Int
        /\ IsValidCryptographicUsageMask(SECRET_MASK) /\ SECRET_MASK \in Int
    BY <1>1, MasksDefined DEF IsValidState, PRE_ACTIVE, DESTROYED_COMPROMISED
  <1>4. AllParse(G)
    <2> SUFFICES ASSUME NEW a \in G PROVE AttributeParses(a)
      BY DEF AllParse
    <2> QED BY <1>2, <1>3, ParsesAs
  <1>5. \A n \in WellKnown :
          \/ (\A a \in G : a.name # n) /\ P[n] = Absent
          \/ \E a \in G : a.name = n /\ P[n] = SetTyped(NoAttributes, n, a.value)[n]
    BY Parsed
  <1>10. DOMAIN P = WellKnown \cup {"generic"}
    BY Parsed, Zenon
  <1>6. \A n \in WellKnown : \A v \in Int :
          SetTyped(NoAttributes, n, v)[n] =
            IF n \in {"Algorithm", "Mask"} /\ v = UNSET THEN Absent ELSE v
    BY TypedSet, NoneSet
  <1>7. \A n \in WellKnown : P[n] \in Int \cup {Absent}
    BY <1>2, <1>3, <1>5, <1>6
  <1>8. P.State = o.state
    <2>1. "State" \in WellKnown /\ "State" \notin {"Algorithm", "Mask"}
      BY DEF WellKnown
    <2>2. Attribute("State", "enum", o.state) \in G
      BY Answered, Zenon
    <2>3. Attribute("State", "enum", o.state).name = "State"
      BY DEF Attribute
    <2>4. PICK a \in G : a.name = "State" /\ P["State"] = SetTyped(NoAttributes, "State", a.value)["State"]
      BY <1>5, <2>1, <2>2, <2>3
    <2>5. a.value = o.state
      BY <1>2, <2>1, <2>4
    <2> QED BY <1>3, <1>6, <2>1, <2>4, <2>5
  <1>9. IsValidSecretDataType(o.secret) <=> ~Unreadable(o)
    BY <1>1 DEF IsValidSecretDataType, Unreadable, IsKey
  <1> QED BY <1>4, <1>7, <1>8, <1>9, <1>10, SMTT(30) DEF IsAttributes

-----------------------------------------------------------------------------
(* The steps *)

\* What FetchedFaithful says of the key k fetched from the object o.
Faithful(v, k, o, all) ==
  /\ SameKey(k, o.from)
  /\ k.type # "secret" => SameAttributes(k, o.from)
  /\ k.attrs.State = o.state
  /\ k.type # "secret" /\ all /\ v < 20 =>
       \A n \in Custom(o.from) : HasText(o.from, k.attrs, n)

\* That is all it says.
LEMMA FaithfulIs ==
  FetchedFaithful <=> (got # Absent /\ got.ok => Faithful(version, key, store[got.id], got.all))
  BY Zenon DEF FetchedFaithful, Faithful, Custom, HasText

\* A change of the caller's attributes.
LEMMA ChangeStep ==
  ASSUME ObjectsInv, NEW attrs, IsAttributes(attrs), Change(attrs)
  PROVE  ObjectsInv' /\ got' = Absent
  <1>1. /\ version' = version /\ store' = store /\ got' = Absent
        /\ key' = [key EXCEPT !.attrs = attrs]
    BY DEF Change
  <1>2. IsObject(key')
    BY <1>1 DEF ObjectsInv, IsObject
  <1> QED BY <1>1, <1>2 DEF ObjectsInv

\* An object that is registered or created.
LEMMA AddStep ==
  ASSUME ObjectsInv, NEW o, IsStored(version, o), Add(o)
  PROVE  ObjectsInv' /\ got' = Absent
  <1>1. /\ version' = version /\ key' = key /\ got' = Absent
        /\ store' = Override([id \in {calls'} |-> o], store)
    BY DEF Add
  <1>2. \A id \in DOMAIN store' : store'[id] = o \/ (id \in DOMAIN store /\ store'[id] = store[id])
    BY <1>1 DEF Override
  <1> QED BY <1>1, <1>2 DEF ObjectsInv

\* A change of an object's State.
LEMMA TransitionStep ==
  ASSUME ObjectsInv, NEW id \in DOMAIN store,
         NEW state \in PRE_ACTIVE .. DESTROYED_COMPROMISED, Transition(id, state)
  PROVE  ObjectsInv' /\ got' = Absent
  <1>1. /\ version' = version /\ key' = key /\ got' = Absent
        /\ store' = [store EXCEPT ![id].state = state]
    BY DEF Transition
  <1>2. \A i \in DOMAIN store' : i \in DOMAIN store /\ (i # id => store'[i] = store[i])
    BY <1>1
  <1>3. store'[id] = [store[id] EXCEPT !.state = state]
    BY <1>1
  <1>4. ASSUME NEW o, IsStored(version, o) PROVE IsStored(version, [o EXCEPT !.state = state])
    <2> DEFINE p == [o EXCEPT !.state = state]
    <2>1. /\ p.state = state /\ DOMAIN p = DOMAIN o
          /\ p.from = o.from /\ p.type = o.type /\ p.size = o.size /\ p.format = o.format
          /\ p.secret = o.secret /\ p.attributes = o.attributes /\ p.pair = o.pair
      BY <1>4 DEF IsStored
    <2> HIDE DEF p
    <2>2. IsStored(version, p)
      BY <1>4, <2>1, Zenon DEF IsStored
    <2> QED BY <2>2 DEF p
  <1>5. IsStored(version, store'[id])
    BY <1>3, <1>4 DEF ObjectsInv
  <1> QED BY <1>1, <1>2, <1>5 DEF ObjectsInv

\* op_register_key
LEMMA RegisterKeyStep == ObjectsInv /\ OpRegisterKey => ObjectsInv' /\ got' = Absent
  <1> SUFFICES ASSUME ObjectsInv, OpRegisterKey PROVE ObjectsInv' /\ got' = Absent
    OBVIOUS
  <1> DEFINE o == Stored(key, AlgorithmAndLength(version, key), RegisteredAttributes(version, key))
  <1>1. Registrable(version, key) /\ Add(o) /\ IsObject(key)
    BY SMTT(30) DEF OpRegisterKey, ObjectsInv
  <1>2. IsStored(version, o)
    <2>1. /\ DOMAIN o = {"type", "size", "format", "secret", "pair", "attributes", "state", "from"}
          /\ o.from = key /\ o.type = key.type /\ o.size = key.size
          /\ o.format = KeyFormat(key) /\ o.secret = key.secret
          /\ o.pair = AlgorithmAndLength(version, key)
          /\ o.attributes = RegisteredAttributes(version, key) /\ o.state = PRE_ACTIVE
      BY DEF Stored
    <2>2. key.type # "secret"
      BY <1>1 DEF Registrable
    <2>3. PRE_ACTIVE \in PRE_ACTIVE .. DESTROYED_COMPROMISED
      BY DEF PRE_ACTIVE, DESTROYED_COMPROMISED
    <2> HIDE DEF o
    <2> QED BY <1>1, <2>1, <2>2, <2>3, SMTT(30) DEF IsStored
  <1> HIDE DEF o
  <1> QED BY <1>1, <1>2, AddStep

\* op_register_secret
LEMMA RegisterSecretStep == ObjectsInv /\ OpRegisterSecret => ObjectsInv' /\ got' = Absent
  <1> SUFFICES ASSUME ObjectsInv, OpRegisterSecret PROVE ObjectsInv' /\ got' = Absent
    OBVIOUS
  <1> DEFINE sent == {NameAttribute, Attribute("Mask", "int", SECRET_MASK)}
             o == Stored(key, Absent, sent)
  <1>1. key.type = "secret" /\ Add(o) /\ IsObject(key)
    BY SMTT(30) DEF OpRegisterSecret, ObjectsInv
  <1>2. IsStored(version, o)
    <2> HIDE DEF sent
    <2>1. /\ DOMAIN o = {"type", "size", "format", "secret", "pair", "attributes", "state", "from"}
          /\ o.from = key /\ o.type = key.type /\ o.size = key.size
          /\ o.format = KeyFormat(key) /\ o.secret = key.secret
          /\ o.attributes = sent /\ o.state = PRE_ACTIVE
      BY DEF Stored
    <2>2. PRE_ACTIVE \in PRE_ACTIVE .. DESTROYED_COMPROMISED
      BY DEF PRE_ACTIVE, DESTROYED_COMPROMISED
    <2> HIDE DEF o
    <2> QED BY <1>1, <2>1, <2>2, SMTT(30) DEF IsStored, sent
  <1> HIDE DEF o
  <1> QED BY <1>1, <1>2, AddStep

\* What Create sends is what Register would send for the key that is created,
\* and the usage mask even if it is not set.
LEMMA CreatedAs ==
  ASSUME version \in Versions, NEW bits \in Lengths, NEW mask \in Int,
         NEW f, f = CreatedKey(bits, mask),
         NEW sent, sent = PairAttributes(AES, bits) \cup
                          {Attribute("Mask", "int", mask), NameAttribute}
  PROVE  /\ IsObject(f) /\ f.type = "symmetric" /\ Registrable(version, f)
         /\ AlgorithmAndLength(version, f) = [algorithm |-> AES, length |-> bits]
         /\ \/ sent = RegisteredAttributes(version, f)
            \/ /\ OrUnset(f.attrs.Mask) = UNSET
               /\ sent = RegisteredAttributes(version, f) \cup {Attribute("Mask", "int", UNSET)}
  <1>1. f.attrs = [Algorithm |-> AES, Length |-> bits, Mask |-> mask, State |-> Absent,
                   generic |-> <<>>]
    BY Zenon DEF CreatedKey, NoAttributes
  <1>2. /\ DOMAIN f = {"type", "size", "format", "secret", "attrs"}
        /\ f.type = "symmetric" /\ f.size = bits \div 8
    BY DEF CreatedKey
  <1>3. bits \in Nat /\ bits > 0 /\ bits \div 8 \in Nat
    BY ObjectsAssumption
  <1>4. IsObject(f)
    <2>1. IsAttributes(f.attrs)
      BY <1>1, <1>3 DEF IsAttributes, WellKnown, AES
    <2> QED BY <1>2, <1>3, <2>1 DEF IsObject
  <1>5. /\ f.attrs.Algorithm = AES /\ f.attrs.Length = bits /\ f.attrs.Mask = mask
        /\ DOMAIN f.attrs.generic = {}
    BY <1>1
  <1>6. AES <= LastCryptoAlgorithm(version) /\ LastCryptoAlgorithm(version) \in Int
    BY ObjectsAssumption DEF LastCryptoAlgorithm, SHAKE_256, ONE_TIME_PAD, EC, TWOFISH, AES
  <1>7. AlgorithmAndLength(version, f) = [algorithm |-> AES, length |-> bits]
    <2>1. AES # Absent /\ bits # Absent
      BY <1>3, ObjectsAssumption DEF AES
    <2>2. OrUnset(f.attrs.Algorithm) = AES
      BY <1>5, <2>1 DEF OrUnset
    <2>3. ~(AES = UNSET \/ AES > LastCryptoAlgorithm(version) \/ bits <= 0)
      BY <1>3, <1>6 DEF AES, UNSET
    <2> QED BY <1>5, <2>1, <2>2, <2>3, Zenon DEF AlgorithmAndLength
  <1>8. Registrable(version, f)
    <2>1. AES \in Int /\ bits \in Int
      BY <1>3 DEF AES
    <2> QED BY <1>2, <1>7, <2>1, PairThere DEF Registrable
  <1>9. RegisteredAttributes(version, f) =
          {NameAttribute} \cup MaskAttribute(f) \cup PairAttributes(AES, bits)
    <2>1. GenericAttributes(version, f) = {}
      BY <1>5 DEF GenericAttributes
    <2>2. AlgorithmAndLength(version, f) # Absent
      BY <1>2, <1>8 DEF Registrable
    <2>3. /\ AlgorithmAndLength(version, f).algorithm = AES
          /\ AlgorithmAndLength(version, f).length = bits
      BY <1>7
    <2> QED BY <2>1, <2>2, <2>3 DEF RegisteredAttributes
  <1>10. mask # Absent
    BY ObjectsAssumption
  <1>11. CASE mask = UNSET
    <2>1. MaskAttribute(f) = {} /\ OrUnset(f.attrs.Mask) = UNSET
      BY <1>5, <1>10, <1>11 DEF MaskAttribute, OrUnset
    <2> QED BY <1>2, <1>4, <1>7, <1>8, <1>9, <1>11, <2>1
  <1>12. CASE mask # UNSET
    <2>1. MaskAttribute(f) = {Attribute("Mask", "int", mask)}
      BY <1>5, <1>10, <1>12, SMTT(30) DEF MaskAttribute, OrUnset
    <2> QED BY <1>2, <1>4, <1>7, <1>8, <1>9, <2>1
  <1> QED BY <1>11, <1>12

\* op_create_aes_key
LEMMA CreateStep == ObjectsInv /\ OpCreateAesKey => ObjectsInv' /\ got' = Absent
  <1> SUFFICES ASSUME ObjectsInv, OpCreateAesKey PROVE ObjectsInv' /\ got' = Absent
    OBVIOUS
  <1>1. PICK bits \in Lengths, mask \in Values["Mask"] :
          Add(Stored(CreatedKey(bits, mask), [algorithm |-> AES, length |-> bits],
                     PairAttributes(AES, bits) \cup
                     {Attribute("Mask", "int", mask), NameAttribute}))
    BY Zenon DEF OpCreateAesKey
  <1> DEFINE f == CreatedKey(bits, mask)
             pair == [algorithm |-> AES, length |-> bits]
             sent == PairAttributes(AES, bits) \cup {Attribute("Mask", "int", mask), NameAttribute}
             o == Stored(f, pair, sent)
  <1>2. mask \in Int /\ version \in Versions
    BY ObjectsAssumption, SMTT(30) DEF WellKnown, ObjectsInv
  <1>3. /\ IsObject(f) /\ f.type = "symmetric" /\ Registrable(version, f)
        /\ AlgorithmAndLength(version, f) = pair
        /\ \/ sent = RegisteredAttributes(version, f)
           \/ /\ OrUnset(f.attrs.Mask) = UNSET
              /\ sent = RegisteredAttributes(version, f) \cup {Attribute("Mask", "int", UNSET)}
    <2>1. f = CreatedKey(bits, mask) /\ pair = [algorithm |-> AES, length |-> bits]
      OBVIOUS
    <2>2. sent = PairAttributes(AES, bits) \cup {Attribute("Mask", "int", mask), NameAttribute}
      BY SMTT(30)
    <2> HIDE DEF f, pair, sent
    <2> QED BY <1>2, <2>1, <2>2, CreatedAs, SMTT(30)
  <1>4. IsStored(version, o)
    <2> HIDE DEF f, pair, sent
    <2>1. /\ DOMAIN o = {"type", "size", "format", "secret", "pair", "attributes", "state", "from"}
          /\ o.from = f /\ o.type = f.type /\ o.size = f.size
          /\ o.format = KeyFormat(f) /\ o.secret = f.secret /\ o.pair = pair
          /\ o.attributes = sent /\ o.state = PRE_ACTIVE
      BY DEF Stored
    <2>2. PRE_ACTIVE \in PRE_ACTIVE .. DESTROYED_COMPROMISED
      BY DEF PRE_ACTIVE, DESTROYED_COMPROMISED
    <2> HIDE DEF o
    <2> QED BY <1>3, <2>1, <2>2, SMTT(30) DEF IsStored
  <1> HIDE DEF o
  <1> QED BY <1>1, <1>4, AddStep DEF o

\* The setters of the caller.
LEMMA SetStep ==
  ObjectsInv /\ (SetByType \/ ClearCryptoLength \/ SetByText \/ SetByInt \/ SetByOther \/ Remove)
    => ObjectsInv' /\ got' = Absent
  <1> SUFFICES ASSUME ObjectsInv,
                      SetByType \/ ClearCryptoLength \/ SetByText \/ SetByInt \/ SetByOther \/ Remove
               PROVE  ObjectsInv' /\ got' = Absent
    OBVIOUS
  <1>1. IsAttributes(key.attrs)
    BY DEF ObjectsInv, IsObject
  <1>2. \A n \in WellKnown : Values[n] \subseteq Int
    BY ObjectsAssumption
  <1>3. \A g : IsAttributes([key.attrs EXCEPT !.generic = g])
    BY <1>1, OtherSet, Zenon
  <1>4. \A n, kind, v : IsAttributes(SetGeneric(key.attrs, n, kind, v))
    BY <1>3, Zenon DEF SetGeneric
  <1>5. CASE SetByType
    <2>1. PICK n \in WellKnown : \E v \in Values[n] : Change(SetTyped(key.attrs, n, v))
      BY <1>5 DEF SetByType
    <2>2. PICK v \in Values[n] : Change(SetTyped(key.attrs, n, v))
      BY <2>1
    <2>3. IsAttributes(SetTyped(key.attrs, n, v))
      BY <1>1, <1>2, TypedSet
    <2> QED BY <2>2, <2>3, ChangeStep
  <1>6. CASE ClearCryptoLength
    <2>1. IsAttributes([key.attrs EXCEPT !["Length"] = Absent])
      BY <1>1, FieldSet, Zenon DEF WellKnown
    <2> QED BY <1>6, <2>1, ChangeStep DEF ClearCryptoLength
  <1>7. CASE SetByText
    <2>1. CASE \E n \in WellKnown : \E v \in Values[n] : Change(SetText(key.attrs, n, v))
      <3>1. PICK n \in WellKnown : \E v \in Values[n] : Change(SetText(key.attrs, n, v))
        BY <2>1
      <3>2. PICK v \in Values[n] : Change(SetText(key.attrs, n, v))
        BY <3>1
      <3>3. IsAttributes(SetText(key.attrs, n, v))
        BY <1>1, <1>2, OtherSet
      <3> QED BY <3>2, <3>3, ChangeStep
    <2>2. CASE Change(SetGeneric(key.attrs, "Contact", "text", 1))
      BY <1>4, <2>2, ChangeStep
    <2> QED BY <1>7, <2>1, <2>2 DEF SetByText
  <1>8. CASE SetByInt
    <2>1. CASE \E n \in WellKnown : \E v \in Values[n] : Change(SetInt(key.attrs, n, v))
      <3>1. PICK n \in WellKnown : \E v \in Values[n] : Change(SetInt(key.attrs, n, v))
        BY <2>1
      <3>2. PICK v \in Values[n] : Change(SetInt(key.attrs, n, v))
        BY <3>1
      <3>3. IsAttributes(SetInt(key.attrs, n, v))
        BY <1>1, <1>2, OtherSet
      <3> QED BY <3>2, <3>3, ChangeStep
    <2>2. CASE Change(SetGeneric(key.attrs, "Contact", "int32", 1))
      BY <1>4, <2>2, ChangeStep
    <2> QED BY <1>8, <2>1, <2>2 DEF SetByInt
  <1>9. CASE SetByOther
    <2>1. PICK n \in OtherNames, kind \in {"int64", "bool"} :
            Change(SetGeneric(key.attrs, n, kind, 1))
      BY <1>9 DEF SetByOther
    <2> QED BY <1>4, <2>1, ChangeStep
  <1>10. CASE Remove
    <2>1. PICK n \in DOMAIN key.attrs.generic :
            Change([key.attrs EXCEPT !.generic = [m \in DOMAIN @ \ {n} |-> @[m]]])
      BY <1>10, Zenon DEF Remove
    <2>2. IsAttributes([key.attrs EXCEPT !.generic = [m \in DOMAIN @ \ {n} |-> @[m]]])
      BY <1>3, Zenon
    <2> QED BY <2>1, <2>2, ChangeStep, Zenon
  <1> QED BY <1>5, <1>6, <1>7, <1>8, <1>9, <1>10

\* op_activate, op_revoke and op_destroy.
LEMMA LifecycleStep ==
  ObjectsInv /\ (OpActivate \/ OpRevoke \/ OpDestroy) => ObjectsInv' /\ got' = Absent
  <1> SUFFICES ASSUME ObjectsInv, OpActivate \/ OpRevoke \/ OpDestroy
               PROVE  ObjectsInv' /\ got' = Absent
    OBVIOUS
  <1>1. {ACTIVE, DEACTIVATED, COMPROMISED} \subseteq PRE_ACTIVE .. DESTROYED_COMPROMISED
    BY DEF ACTIVE, DEACTIVATED, COMPROMISED, PRE_ACTIVE, DESTROYED_COMPROMISED
  <1>2. CASE OpActivate
    BY <1>1, <1>2, TransitionStep DEF OpActivate
  <1>3. CASE OpRevoke
    BY <1>1, <1>3, TransitionStep DEF OpRevoke
  <1>4. CASE OpDestroy
    <2>1. PICK id \in DOMAIN store : /\ store' = [i \in DOMAIN store \ {id} |-> store[i]]
                                     /\ got' = Absent /\ UNCHANGED <<version, key>>
      BY <1>4 DEF OpDestroy
    <2>2. \A i \in DOMAIN store' : i \in DOMAIN store /\ store'[i] = store[i]
      BY <2>1, SMTT(30)
    <2> QED BY <2>1, <2>2 DEF ObjectsInv
  <1> QED BY <1>2, <1>3, <1>4

\* Between fetches there is nothing to say of what was fetched.
LEMMA NothingFetched == got' = Absent => FetchedFaithful' /\ ReadableUnless'
  BY DEF FetchedFaithful, ReadableUnless

\* The end of a fetch: the caller has what came back, unless it threw.
LEMMA ReturnStep ==
  ASSUME ObjectsInv, NEW id \in DOMAIN store, NEW all \in BOOLEAN, NEW ok \in BOOLEAN, NEW k,
         Return(id, all, ok, k),
         ok => IsObject(k) /\ Faithful(version, k, store[id], all),
         ok <=> ~Unreadable(store[id])
  PROVE  ObjectsInv' /\ FetchedFaithful' /\ ReadableUnless'
  <1>1. /\ version' = version /\ store' = store
        /\ key' = IF ok THEN k ELSE key
        /\ got' = [id |-> id, all |-> all, ok |-> ok]
    BY DEF Return
  <1>2. got'.id = id /\ got'.all = all /\ got'.ok = ok
    BY <1>1
  <1>3. ObjectsInv'
    <2>1. IsObject(key')
      BY <1>1 DEF ObjectsInv
    <2> QED BY <1>1, <2>1 DEF ObjectsInv
  <1>4. FetchedFaithful'
    <2>1. FetchedFaithful' <=>
            (got' # Absent /\ got'.ok => Faithful(version', key', store'[got'.id], got'.all))
      BY Zenon DEF FetchedFaithful, Faithful, Custom, HasText
    <2>2. ok => Faithful(version', key', store'[got'.id], got'.all)
      BY <1>1, <1>2, SMTT(30)
    <2> QED BY <1>2, <2>1, <2>2
  <1>5. ReadableUnless'
    <2>1. Unreadable(store[got.id])' <=> Unreadable(store[id])
      BY <1>1, <1>2, Zenon DEF Unreadable
    <2> QED BY <1>2, <2>1 DEF ReadableUnless
  <1> QED BY <1>3, <1>4, <1>5

\* op_get_key
LEMMA GetKeyStep == ObjectsInv /\ OpGetKey => ObjectsInv' /\ FetchedFaithful' /\ ReadableUnless'
  <1> SUFFICES ASSUME ObjectsInv, OpGetKey
               PROVE  ObjectsInv' /\ FetchedFaithful' /\ ReadableUnless'
    OBVIOUS
  <1>1. PICK id \in DOMAIN store, all \in BOOLEAN :
          /\ store[id].type # "secret"
          /\ Return(id, all, AllParse(GetAttributes(store[id], all)) /\ KeyParses(store[id]),
                    Fetched(store[id], Merge(BlockAttributes(store[id]),
                                             ParseAttributes(GetAttributes(store[id], all)))))
    BY ZenonT(30) DEF OpGetKey
  <1> DEFINE o == store[id]
             G == GetAttributes(o, all)
             ok == AllParse(G) /\ KeyParses(o)
             k == Fetched(o, Merge(BlockAttributes(o), ParseAttributes(G)))
  <1>2. IsStored(version, o) /\ o.from.type # "secret" /\ version \in Versions /\ version \in Int
    <2>1. IsStored(version, o) /\ version \in Versions
      BY DEF ObjectsInv
    <2>2. o.type # "secret"
      BY <1>1
    <2> HIDE DEF o
    <2>3. version \in Int
      BY <2>1, ObjectsAssumption, SMTT(30)
    <2>4. o.type = o.from.type
      BY <2>1, ZenonT(30) DEF IsStored
    <2> QED BY <2>1, <2>2, <2>3, <2>4
  <1>3. Return(id, all, ok, k)
    BY <1>1
  <1> HIDE DEF o
  <1>4. ok <=> ~Unreadable(o)
    BY <1>2, ReadableKey
  <1>5. ASSUME ok PROVE IsObject(k) /\ Faithful(version, k, o, all)
    <2>1. AllParse(G)
      BY <1>5
    <2> HIDE DEF G
    <2>2. G = GetAttributes(o, all)
      BY DEF G
    <2>3. /\ IsObject(k) /\ SameKey(k, o.from) /\ SameAttributes(k, o.from)
          /\ k.attrs.State = o.state
          /\ all /\ ~(version >= 20) =>
               \A n \in Custom(o.from) : HasText(o.from, k.attrs, n)
      BY <1>2, <2>1, <2>2, KeyBack, Zenon
    <2>4. version < 20 => ~(version >= 20)
      BY <1>2
    <2> HIDE DEF k
    <2> QED BY <2>3, <2>4, Zenon DEF Faithful
  <1>6. ok \in BOOLEAN
    BY DEF AllParse, KeyParses
  <1> HIDE DEF ok, k
  <1> QED BY <1>3, <1>4, <1>5, <1>6, ReturnStep, Zenon DEF o

\* op_get_secret
LEMMA GetSecretStep == ObjectsInv /\ OpGetSecret => ObjectsInv' /\ FetchedFaithful' /\ ReadableUnless'
  <1> SUFFICES ASSUME ObjectsInv, OpGetSecret
               PROVE  ObjectsInv' /\ FetchedFaithful' /\ ReadableUnless'
    OBVIOUS
  <1> DEFINE Attrs(P, all) ==
               IF all THEN Merge(NoAttributes, P)
               ELSE [SetTyped(NoAttributes, "State", P.State)
                       EXCEPT !.generic = [n \in {"Name"} |-> P.generic[n]]]
  <1>1. PICK id \in DOMAIN store, all \in BOOLEAN :
          /\ store[id].type = "secret"
          /\ Return(id, all, AllParse(GetAttributes(store[id], all)) /\
                             IsValidSecretDataType(store[id].secret),
                    Fetched(store[id], Attrs(ParseAttributes(GetAttributes(store[id], all)), all)))
    BY Zenon DEF OpGetSecret
  <1> DEFINE o == store[id]
             G == GetAttributes(o, all)
             P == ParseAttributes(G)
             ok == AllParse(G) /\ IsValidSecretDataType(o.secret)
             k == Fetched(o, Attrs(P, all))
  <1>2. /\ IsStored(version, o) /\ o.from.type = "secret" /\ o.type = "secret"
        /\ o.size \in Nat /\ o.state \in Int /\ version \in Versions
    <2>1. IsStored(version, o) /\ version \in Versions
      BY DEF ObjectsInv
    <2> QED BY <1>1, <2>1 DEF IsStored, IsObject, PRE_ACTIVE, DESTROYED_COMPROMISED
  <1>3. Return(id, all, ok, k)
    BY <1>1
  <1> HIDE DEF o
  <1>4. /\ AllParse(G) /\ IsAttributes(P) /\ P.State = o.state
        /\ IsValidSecretDataType(o.secret) <=> ~Unreadable(o)
    BY <1>2, SecretBack, Zenon
  <1>5. ok <=> ~Unreadable(o)
    BY <1>4
  <1>6. ok \in BOOLEAN
    BY DEF AllParse, IsValidSecretDataType
  <1> HIDE DEF P
  <1>7. IsAttributes(Attrs(P, all)) /\ Attrs(P, all).State = o.state
    <2>1. CASE all
      <3>1. o.state # Absent
        BY <1>2, ObjectsAssumption, SMTT(30)
      <3>2. IsAttributes(Merge(NoAttributes, P)) /\ Merge(NoAttributes, P).State = P.State
        BY <1>4, <3>1, NoneSet, Merged DEF WellKnown
      <3> QED BY <1>4, <2>1, <3>2
    <2>2. CASE ~all
      <3> DEFINE a == SetTyped(NoAttributes, "State", P.State)
                 b == [a EXCEPT !.generic = [n \in {"Name"} |-> P.generic[n]]]
      <3>1. IsAttributes(a) /\ a.State = o.state
        <4>1. \A n \in WellKnown : \A v \in Int :
                /\ IsAttributes(SetTyped(NoAttributes, n, v))
                /\ SetTyped(NoAttributes, n, v)[n] =
                     IF n \in {"Algorithm", "Mask"} /\ v = UNSET THEN Absent ELSE v
          BY TypedSet, NoneSet
        <4>2. "State" \in WellKnown /\ "State" \notin {"Algorithm", "Mask"} /\ P.State \in Int
          BY <1>2, <1>4 DEF WellKnown
        <4>3. IsAttributes(a) /\ a["State"] = P.State
          BY <4>1, <4>2
        <4> QED BY <1>4, <4>3
      <3> HIDE DEF a
      <3>2. IsAttributes(b)
        BY <3>1, OtherSet
      <3>3. b.State = o.state
        BY <3>1, SMTT(30) DEF IsAttributes, WellKnown
      <3> HIDE DEF b
      <3> QED BY <2>2, <3>2, <3>3, SMTT(30) DEF b, a
    <2> QED BY <2>1, <2>2
  <1> HIDE DEF Attrs
  <1>8. IsObject(k) /\ Faithful(version, k, o, all)
    <2>1. SameKey(k, o.from)
      BY <1>2, FormatKept, SMTT(30)
    <2>2. /\ DOMAIN k = {"type", "size", "format", "secret", "attrs"}
          /\ k.type = "secret" /\ k.size = o.size /\ k.attrs = Attrs(P, all)
      BY <1>2 DEF Fetched
    <2> HIDE DEF k
    <2> QED BY <1>2, <1>7, <2>1, <2>2 DEF IsObject, Faithful
  <1> HIDE DEF ok, k
  <1> QED BY <1>3, <1>5, <1>6, <1>8, ReturnStep, Zenon DEF o

-----------------------------------------------------------------------------
(* The theorems *)

\* ObjectsInv is inductive, and every step keeps what the properties say of
\* the object fetched last.
LEMMA ObjectsStep ==
  ObjectsInv /\ FetchedFaithful /\ ReadableUnless /\ [Next]_vars
    => ObjectsInv' /\ FetchedFaithful' /\ ReadableUnless'
  <1> SUFFICES ASSUME ObjectsInv, FetchedFaithful, ReadableUnless, [Next]_vars
               PROVE  ObjectsInv' /\ FetchedFaithful' /\ ReadableUnless'
    OBVIOUS
  <1>1. CASE SetByType \/ ClearCryptoLength \/ SetByText \/ SetByInt \/ SetByOther \/ Remove
    BY <1>1, SetStep, NothingFetched
  <1>2. CASE OpRegisterKey
    BY <1>2, RegisterKeyStep, NothingFetched
  <1>3. CASE OpRegisterSecret
    BY <1>3, RegisterSecretStep, NothingFetched
  <1>4. CASE OpCreateAesKey
    BY <1>4, CreateStep, NothingFetched
  <1>5. CASE OpGetKey
    BY <1>5, GetKeyStep
  <1>6. CASE OpGetSecret
    BY <1>6, GetSecretStep
  <1>7. CASE OpActivate \/ OpRevoke \/ OpDestroy
    BY <1>7, LifecycleStep, NothingFetched
  <1>8. CASE UNCHANGED vars
    <2>1. version' = version /\ key' = key /\ store' = store /\ got' = got
      BY <1>8 DEF vars
    <2>2. ObjectsInv'
      BY <2>1 DEF ObjectsInv
    <2>3. FetchedFaithful'
      BY <2>1, Zenon DEF FetchedFaithful
    <2>4. ReadableUnless'
      BY <2>1, ZenonT(30) DEF ReadableUnless, Unreadable
    <2> QED BY <2>2, <2>3, <2>4
  <1> QED BY <1>1, <1>2, <1>3, <1>4, <1>5, <1>6, <1>7, <1>8 DEF Next

\* In every reachable state the server has, for every object, exactly what the
\* requests send for the key it was registered or created for.
THEOREM Invariance == Spec => [](ObjectsInv /\ FetchedFaithful /\ ReadableUnless)
  <1>1. Init => ObjectsInv /\ FetchedFaithful /\ ReadableUnless
    BY ObjectsAssumption DEF Init, ObjectsInv, FetchedFaithful, ReadableUnless
  <1> QED BY <1>1, ObjectsStep, PTL DEF Spec

\* "The two never disagree" (algorithm_and_length): for any keys and any calls
\* of the setters, the Key Block and the attributes of a registered object have
\* the same algorithm and length, or neither has any.
THEOREM PairCorrect == Spec => []PairConsistent
  BY Invariance, PairHolds, PTL

\* "A fetched key reads the same as a registered one" (op_get_key), for any
\* keys, values and attributes of the server.
THEOREM FetchedCorrect == Spec => []FetchedFaithful
  BY Invariance, PTL

\* What the client registered or created itself, its own parsers read, but for
\* exactly the objects that Unreadable names.
THEOREM ReadableCorrect == Spec => []ReadableUnless
  BY Invariance, PTL

=============================================================================

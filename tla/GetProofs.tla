------------------------------ MODULE GetProofs ------------------------------
(***************************************************************************)
(* What Get promises, proved for every set of calls and every set of       *)
(* servers: GetInv is inductive, and the properties follow from it.        *)
(***************************************************************************)
EXTENDS Get, TLAPS

-----------------------------------------------------------------------------
(* The response parser *)

\* The one id of a set is the first and the last.
LEMMA OnlyOne == ASSUME NEW n \in Nat PROVE LeastOf({n}) = n /\ GreatestOf({n}) = n
  BY DEF LeastOf, GreatestOf

\* getResponseItemByBatchItemId: in a request whose items are numbered from 1
\* on, the answer to an item is found at its position, when the answers that
\* are there echo the ids in order or have none.
LEMMA FoundInPlace ==
  ASSUME NEW request, NEW items, NEW b \in Nat \ {0},
         b \in DOMAIN request, \A i \in DOMAIN request : request[i].id = i,
         b \in DOMAIN items, b <= Len(items),
         \/ \A i \in DOMAIN items : items[i].id = i
         \/ \A i \in DOMAIN items : items[i].id = NoId
  PROVE  Find(request, items, b) = b
  <1>1. {i \in DOMAIN request : request[i].id = b} = {b}
    OBVIOUS
  <1>2. CASE \A i \in DOMAIN items : items[i].id = i
    <2>1. {i \in DOMAIN items : items[i].id = b} = {b}
      BY <1>2
    <2> QED BY <2>1, OnlyOne DEF Find
  <1>3. CASE \A i \in DOMAIN items : items[i].id = NoId
    <2>1. {i \in DOMAIN items : items[i].id = b} = {}
      BY <1>3 DEF NoId
    <2> QED BY <1>1, <2>1, OnlyOne DEF Find
  <1> QED BY <1>2, <1>3

\* What the server and the call are like.
LEMMA Facts ==
  ASSUME Types
  PROVE  /\ call.op \in {"key", "secret", "attributes"}
         /\ call.v2 \in BOOLEAN /\ call.wanted \in BOOLEAN
         /\ server.accepts \subseteq {"typed", "names", "all"}
         /\ server.refusal \in {"retry", "other"} /\ server.refusal # Absent
         /\ server.gets \in BOOLEAN /\ server.echo \in BOOLEAN /\ server.stops \in BOOLEAN
         /\ server.attrs \subseteq {"State", "Name", "Extra"}
         /\ server.type \in ObjectTypes /\ server.format \in KeyFormats
         /\ server.converts \subseteq KeyFormats
         /\ server.spki \in BOOLEAN /\ server.other \in BOOLEAN
  <1>1. /\ call \in [op : {"key", "secret", "attributes"}, v2 : BOOLEAN, wanted : BOOLEAN]
        /\ server \in [accepts : SUBSET {"typed", "names", "all"}, refusal : {"retry", "other"},
                      gets : BOOLEAN, echo : BOOLEAN, stops : BOOLEAN,
                      attrs : SUBSET {"State", "Name", "Extra"}, type : ObjectTypes,
                      format : KeyFormats, converts : SUBSET KeyFormats, spki : BOOLEAN,
                      other : BOOLEAN]
    BY GetAssumption DEF Types
  <1>2. server.refusal # Absent
    BY <1>1, GetAssumption
  <1> QED BY <1>1, <1>2

\* The server's answer to an item: as ResponseParser reads it.
LEMMA AnswerRead ==
  ASSUME Types, NEW id, NEW op, NEW ok \in BOOLEAN, NEW payload, payload # Absent
  PROVE  /\ ItemParses(Answer(id, op, ok, payload))
         /\ Answer(id, op, ok, payload).id = IF server.echo THEN id ELSE NoId
         /\ Answer(id, op, ok, payload).status = IF ok THEN "success" ELSE "failed"
         /\ Typed(Answer(id, op, ok, payload), op)
              = IF ok THEN Response(payload) ELSE Error(server.refusal)
  <1> DEFINE a == Answer(id, op, ok, payload)
  <1>1. /\ a.id = IF server.echo THEN id ELSE NoId
        /\ a.op = op
        /\ a.status = IF ok THEN "success" ELSE "failed"
        /\ a.reason = IF ok THEN Absent ELSE server.refusal
        /\ a.payload = IF ok THEN payload ELSE Absent
    BY DEF Answer
  <1> HIDE DEF a
  <1>2. server.refusal # Absent /\ "success" # Absent /\ "failed" # Absent
    BY Facts, GetAssumption
  <1>3. ItemParses(a)
    BY <1>1, <1>2 DEF ItemParses
  <1>4. Typed(a, op) = IF ok THEN Response(payload) ELSE Error(server.refusal)
    BY <1>1, <1>2 DEF Typed, FromBatchItem, ReasonOf
  <1> QED BY <1>1, <1>3, <1>4 DEF a

\* An object as the server sends it.
LEMMA ObjectSent ==
  ASSUME Types, NEW format \in KeyFormats
  PROVE  /\ Object(format) # Absent
         /\ Object(format).type = server.type /\ Object(format).format = format
         /\ Object(format).spki = (format = "x509" \/ (format = "pkcs8" /\ server.spki))
  <1>1. Object(format) \in [type : ObjectTypes, format : KeyFormats, spki : BOOLEAN]
    BY Facts DEF Object
  <1> QED BY <1>1, GetAssumption DEF Object

\* Get of one item: the answer is read whether the id is echoed or not.
LEMMA SingleRead ==
  ASSUME Types, NEW ok \in BOOLEAN, NEW payload, payload # Absent,
         NEW msg, msg = [whole |-> TRUE, count |-> 1,
                         items |-> <<Answer(1, "get", ok, payload)>>]
  PROVE  /\ GetResponseByBatchItemId(<<[id |-> 1, op |-> "get"]>>, msg, 1, "get")
              = IF ok THEN Response(payload) ELSE Error(server.refusal)
         /\ GetResultStatus(<<[id |-> 1, op |-> "get"]>>, msg, 1)
              = Response(IF ok THEN "success" ELSE "failed")
  <1> DEFINE a == Answer(1, "get", ok, payload)
             request == <<[id |-> 1, op |-> "get"]>>
  <1>1. /\ ItemParses(a) /\ a.id \in {1, NoId}
        /\ a.status = IF ok THEN "success" ELSE "failed"
        /\ Typed(a, "get") = IF ok THEN Response(payload) ELSE Error(server.refusal)
    BY AnswerRead
  <1> HIDE DEF a
  <1>2. /\ msg.whole = TRUE /\ msg.count = 1 /\ msg.items = <<a>>
        /\ DOMAIN msg.items = {1} /\ Len(msg.items) = 1 /\ msg.items[1] = a
    BY DEF a
  <1>3. Parses(msg)
    BY <1>1, <1>2 DEF Parses
  <1>4. Find(request, msg.items, 1) = 1
    <2>1. DOMAIN request = {1} /\ request[1].id = 1
      OBVIOUS
    <2> QED BY <1>1, <1>2, <2>1, FoundInPlace, SMTT(30)
  <1> QED BY <1>1, <1>2, <1>3, <1>4 DEF GetResponseByBatchItemId, GetResultStatus

\* What the request for an attribute encoding is answered with.
Attrs == IF Encoding = "all" THEN server.attrs ELSE server.attrs \ {"Extra"}
AttrsRead ==
  IF Encoding \in server.accepts THEN Response(Attrs) ELSE Error(server.refusal)

GetRead == GetResponseByBatchItemId(Request, Batched, 1, "get")
AttributesRead == GetResponseByBatchItemId(Request, Batched, AttributesItem, "attributes")

\* The batch of op_get_key and op_get_secret: the Get is answered or refused,
\* and the attributes after a Get that is answered.
LEMMA BatchRead ==
  ASSUME Types, call.op # "attributes"
  PROVE  /\ GetRead = IF server.gets THEN Response(Object(server.format))
                      ELSE Error(server.refusal)
         /\ server.gets => AttributesRead = AttrsRead
  <1> DEFINE get == Answer(1, "get", server.gets, Object(server.format))
             attrs == Answer(2, "attributes", Encoding \in server.accepts, Attrs)
  <1>1. /\ Len(Request) = 2 /\ DOMAIN Request = {1, 2}
        /\ \A i \in DOMAIN Request : Request[i].id = i
    BY DEF Request
  <1>2. /\ ItemParses(get) /\ get.id = IF server.echo THEN 1 ELSE NoId
        /\ Typed(get, "get") = IF server.gets THEN Response(Object(server.format))
                               ELSE Error(server.refusal)
    BY Facts, ObjectSent, AnswerRead
  <1>3. Attrs # Absent
    BY Facts, GetAssumption DEF Attrs
  <1>4. /\ ItemParses(attrs) /\ attrs.id = IF server.echo THEN 2 ELSE NoId
        /\ Typed(attrs, "attributes") = AttrsRead
    <2> DEFINE ok == Encoding \in server.accepts
    <2>1. ok \in BOOLEAN
      OBVIOUS
    <2> DEFINE a == Answer(2, "attributes", ok, Attrs)
    <2> HIDE DEF ok
    <2>2. /\ ItemParses(a) /\ a.id = IF server.echo THEN 2 ELSE NoId
          /\ Typed(a, "attributes") = IF ok THEN Response(Attrs) ELSE Error(server.refusal)
      BY <1>3, <2>1, AnswerRead
    <2> QED BY <2>2, Zenon DEF ok, AttrsRead
  <1>5. /\ Batched.whole = TRUE /\ Batched.count = 2
        /\ Batched.items = IF server.stops /\ ~server.gets THEN <<get>> ELSE <<get, attrs>>
    <2>1. AttributesItem = 2
      BY <1>1 DEF AttributesItem
    <2> QED BY <1>1, <2>1, Zenon DEF Batched, Attrs
  <1> HIDE DEF get, attrs
  <1>6. CASE server.stops /\ ~server.gets
    <2>1. Batched.items = <<get>> /\ DOMAIN Batched.items = {1} /\ Len(Batched.items) = 1
      BY <1>5, <1>6
    <2>2. Parses(Batched)
      BY <1>2, <1>5, <2>1 DEF Parses
    <2>3. Find(Request, Batched.items, 1) = 1
      BY <1>1, <1>2, <2>1, FoundInPlace
    <2> QED BY <1>2, <1>6, <2>1, <2>2, <2>3 DEF GetRead, GetResponseByBatchItemId
  <1>7. CASE ~(server.stops /\ ~server.gets)
    <2>1. /\ Batched.items = <<get, attrs>> /\ DOMAIN Batched.items = {1, 2}
          /\ Len(Batched.items) = 2 /\ Batched.items[1] = get /\ Batched.items[2] = attrs
      BY <1>5, <1>7
    <2>2. Parses(Batched)
      BY <1>2, <1>4, <1>5, <2>1 DEF Parses
    <2>3. \/ \A i \in DOMAIN Batched.items : Batched.items[i].id = i
          \/ \A i \in DOMAIN Batched.items : Batched.items[i].id = NoId
      BY <1>2, <1>4, <2>1
    <2>4. Find(Request, Batched.items, 1) = 1 /\ Find(Request, Batched.items, 2) = 2
      BY <1>1, <2>1, <2>3, FoundInPlace, SMTT(30)
    <2> QED BY <1>1, <1>2, <1>4, <2>1, <2>2, <2>4
            DEF GetRead, AttributesRead, GetResponseByBatchItemId, AttributesItem
  <1> QED BY <1>6, <1>7

\* The request of op_get_attributes: the attributes are answered or refused.
LEMMA AttributesOnly ==
  ASSUME Types, call.op = "attributes"
  PROVE  AttributesRead = AttrsRead
  <1> DEFINE attrs == Answer(1, "attributes", Encoding \in server.accepts, Attrs)
  <1>1. /\ Len(Request) = 1 /\ DOMAIN Request = {1}
        /\ \A i \in DOMAIN Request : Request[i].id = i
    BY DEF Request
  <1>2. Attrs # Absent
    BY Facts, GetAssumption DEF Attrs
  <1>3. /\ ItemParses(attrs) /\ attrs.id = IF server.echo THEN 1 ELSE NoId
        /\ Typed(attrs, "attributes") = AttrsRead
    <2> DEFINE ok == Encoding \in server.accepts
    <2>1. ok \in BOOLEAN
      OBVIOUS
    <2> DEFINE a == Answer(1, "attributes", ok, Attrs)
    <2> HIDE DEF ok
    <2>2. /\ ItemParses(a) /\ a.id = IF server.echo THEN 1 ELSE NoId
          /\ Typed(a, "attributes") = IF ok THEN Response(Attrs) ELSE Error(server.refusal)
      BY <1>2, <2>1, AnswerRead
    <2> QED BY <2>2, Zenon DEF ok, AttrsRead
  <1>4. Batched.whole = TRUE /\ Batched.count = 1 /\ Batched.items = <<attrs>>
    <2>1. AttributesItem = 1
      BY <1>1 DEF AttributesItem
    <2> QED BY <1>1, <2>1, Zenon DEF Batched, Attrs
  <1> HIDE DEF attrs
  <1>5. DOMAIN Batched.items = {1} /\ Len(Batched.items) = 1 /\ Batched.items[1] = attrs
    BY <1>4
  <1>6. Parses(Batched)
    BY <1>3, <1>4, <1>5 DEF Parses
  <1>7. Find(Request, Batched.items, 1) = 1
    BY <1>1, <1>3, <1>5, FoundInPlace
  <1> QED BY <1>1, <1>3, <1>5, <1>6, <1>7
          DEF AttributesRead, GetResponseByBatchItemId, AttributesItem

\* Get with a Key Format Type: what is read is in that format if the server
\* has or makes it; else it is refused, or in the format the server has.
LEMMA FormatRead ==
  ASSUME Types, NEW format \in KeyFormats,
         NEW request, request = <<[id |-> 1, op |-> "get"]>>,
         NEW key, key = GetResponseByBatchItemId(request, InFormat(format), 1, "get"),
         NEW status, status = GetResultStatus(request, InFormat(format), 1)
  PROVE  IF format \in server.converts \cup {server.format}
         THEN key.payload = Object(format) /\ status.payload = "success"
         ELSE status.payload = "success" => key.payload = Object(server.format)
  <1>1. Object(format) # Absent /\ Object(server.format) # Absent
    BY Facts, ObjectSent
  <1>2. CASE format \in server.converts \cup {server.format}
    <2>1. InFormat(format) = [whole |-> TRUE, count |-> 1,
                              items |-> <<Answer(1, "get", TRUE, Object(format))>>]
      BY <1>2 DEF InFormat
    <2>2. key = Response(Object(format)) /\ status = Response("success")
      BY <1>1, <2>1, SingleRead, Zenon
    <2> QED BY <1>2, <2>2 DEF Response
  <1>3. CASE format \notin server.converts \cup {server.format}
    <2>1. InFormat(format) = [whole |-> TRUE, count |-> 1,
                     items |-> <<Answer(1, "get", server.other, Object(server.format))>>]
      BY <1>3 DEF InFormat
    <2>2. /\ key = IF server.other THEN Response(Object(server.format)) ELSE Error(server.refusal)
          /\ status = Response(IF server.other THEN "success" ELSE "failed")
      <3> DEFINE ok == server.other
      <3>1. ok \in BOOLEAN
        BY Facts
      <3>2. InFormat(format) = [whole |-> TRUE, count |-> 1,
                       items |-> <<Answer(1, "get", ok, Object(server.format))>>]
        BY <2>1
      <3> HIDE DEF ok
      <3>3. /\ key = IF ok THEN Response(Object(server.format)) ELSE Error(server.refusal)
            /\ status = Response(IF ok THEN "success" ELSE "failed")
        BY <1>1, <3>1, <3>2, SingleRead
      <3> QED BY <3>3 DEF ok
    <2> QED BY <1>3, <2>2 DEF Response
  <1> QED BY <1>2, <1>3

-----------------------------------------------------------------------------
(* The steps *)

\* preferred_key_formats, by the type of the key.
LEMMA Preferred ==
  /\ PreferredKeyFormats("private") = <<"pkcs8">>
  /\ PreferredKeyFormats("public") = <<"x509", "pkcs8">>
  /\ \A type : type \notin {"private", "public"} => PreferredKeyFormats(type) = <<>>
  BY DEF PreferredKeyFormats

\* in_preferred_format of an object of the server: only a public key under
\* the PKCS#8 label is changed, or refused.
LEMMA Relabelled ==
  ASSUME Types, NEW format \in KeyFormats, NEW k, k = InPreferredFormat(Object(format))
  PROVE  IF server.type = "public" /\ format = "pkcs8"
         THEN IF server.spki
              THEN k # Absent /\ k.type = "public" /\ k.format = "x509" /\ k.spki
              ELSE k = Absent
         ELSE k = Object(format) /\ k # Absent
  <1> DEFINE o == Object(format)
  <1>1. /\ o # Absent /\ o.type = server.type /\ o.format = format
        /\ o.spki = (format = "x509" \/ (format = "pkcs8" /\ server.spki))
    BY ObjectSent
  <1>2. o \in [type : ObjectTypes, format : KeyFormats, spki : BOOLEAN]
    BY Facts DEF Object
  <1> HIDE DEF o
  <1>3. k = InPreferredFormat(o)
    BY DEF o
  <1>4. CASE server.type = "public" /\ format = "pkcs8" /\ server.spki
    <2>1. k = [o EXCEPT !.format = "x509"] /\ o.spki
      BY <1>1, <1>3, <1>4 DEF InPreferredFormat
    <2>2. /\ k \in [type : ObjectTypes, format : KeyFormats, spki : BOOLEAN]
          /\ k.type = "public" /\ k.format = "x509" /\ k.spki
      BY <1>1, <1>2, <1>4, <2>1 DEF KeyFormats
    <2> QED BY <1>4, <2>2, GetAssumption
  <1>5. CASE server.type = "public" /\ format = "pkcs8" /\ ~server.spki
    BY <1>1, <1>3, <1>5 DEF InPreferredFormat
  <1>6. CASE ~(server.type = "public" /\ format = "pkcs8")
    BY <1>1, <1>3, <1>6 DEF InPreferredFormat, o
  <1> QED BY <1>4, <1>5, <1>6

\* What is asked of a call and a server does not change while they do not.
LEMMA Fixed ==
  ASSUME call' = call, server' = server
  PROVE  /\ Settles' <=> Settles
         /\ \A f : Usable(f)' <=> Usable(f)
         /\ \A f : Object(f)' = Object(f)
  BY DEF Settles, Ladder, Usable, Object

\* An exception leaves the operation, or begins the next attempt.
LEMMA CaughtStep ==
  ASSUME NEW code, Caught(code)
  PROVE  /\ call' = call /\ server' = server /\ result' = result /\ attributes' = attributes
         /\ \/ pc' = "thrown" /\ attempt' = attempt
            \/ /\ pc' = "execute" /\ attempt' = attempt + 1 /\ code = "retry"
               /\ \/ attempt = 1 /\ call.v2
                  \/ attempt = 2 /\ call.wanted
  BY DEF Caught

\* A server that an encoding satisfies answers the Get, with a secret where
\* one is asked for, and has the State; when it rejects the attributes there
\* is an attempt left.
LEMMA Settled ==
  ASSUME GetInv, pc = "execute", Settles
  PROVE  /\ call.op # "attributes" => GetRead = Response(Object(server.format))
         /\ call.op = "secret" => SecretParses(Object(server.format))
         /\ AttributesRead = AttrsRead
         /\ call.op = "key" \/ (call.op = "secret" /\ call.wanted) => "State" \in Attrs
         /\ Encoding \notin server.accepts =>
              /\ server.refusal = "retry" /\ call.v2 /\ call.wanted
              /\ "typed" \notin server.accepts
              /\ attempt = 1 \/ (attempt = 2 /\ "names" \notin server.accepts)
  <1>1. Types /\ Climbing
    BY DEF GetInv
  <1>2. call.op # "attributes" => GetRead = Response(Object(server.format))
    BY <1>1, BatchRead DEF Settles
  <1>3. AttributesRead = AttrsRead
    BY <1>1, BatchRead, AttributesOnly DEF Settles
  <1>4. Encoding \notin server.accepts =>
          /\ server.refusal = "retry" /\ call.v2 /\ call.wanted
          /\ "typed" \notin server.accepts
          /\ attempt = 1 \/ (attempt = 2 /\ "names" \notin server.accepts)
    <2>1. attempt \in {1, 2, 3}
      BY <1>1 DEF Types
    <2>2. attempt # 1 =>
            /\ call.v2 /\ call.wanted /\ server.refusal = "retry"
            /\ "typed" \notin server.accepts
            /\ attempt = 3 => "names" \notin server.accepts
      BY <1>1, <2>1 DEF Climbing
    <2>3. Ladder \cap server.accepts # {}
      BY DEF Settles
    <2> QED BY <2>1, <2>2, <2>3 DEF Encoding, Ladder
  <1> QED BY <1>2, <1>3, <1>4 DEF Settles, Attrs

\* An exception while the batch is read: one that ends the operation comes
\* from a server that no encoding satisfies.
LEMMA ExecuteThrows ==
  ASSUME GetInv, pc = "execute", NEW code, Caught(code), io' = io,
         Settles => code = "retry" /\ Encoding \notin server.accepts
  PROVE  GetInv'
  <1>1. Types /\ Climbing
    BY DEF GetInv
  <1>2. /\ call' = call /\ server' = server /\ attributes' = attributes /\ attributes = {}
        /\ \/ pc' = "thrown" /\ attempt' = attempt
           \/ /\ pc' = "execute" /\ attempt' = attempt + 1 /\ code = "retry"
              /\ attempt = 1 \/ attempt = 2
    BY <1>1, CaughtStep DEF Climbing
  <1>3. Types'
    BY <1>1, <1>2 DEF Types
  <1>4. Settles => /\ server.refusal = "retry" /\ call.v2 /\ call.wanted
                   /\ "typed" \notin server.accepts
                   /\ attempt = 1 \/ (attempt = 2 /\ "names" \notin server.accepts)
    BY Settled
  <1>5. Settles => pc' = "execute"
    BY <1>4 DEF Caught
  <1>6. Settles' <=> Settles
    BY <1>2, Fixed
  <1>7. Climbing'
    BY <1>2, <1>4, <1>6 DEF Climbing
  <1>8. Fetching' /\ Outcome'
    BY <1>2, <1>5, <1>6 DEF Fetching, Outcome
  <1> QED BY <1>3, <1>7, <1>8 DEF GetInv

\* The batch: it is read, or it ends the attempt.
LEMMA ExecuteStep == GetInv /\ Execute => GetInv'
  <1> SUFFICES ASSUME GetInv, Execute PROVE GetInv'
    OBVIOUS
  <1> DEFINE get      == GetRead
             attrs    == AttributesRead
             hasGet   == call.op # "attributes"
             noSecret == call.op = "secret" /\ get.ok /\ ~SecretParses(get.payload)
             noState  == /\ call.op = "key" \/ (call.op = "secret" /\ call.wanted)
                         /\ "State" \notin attrs.payload
  <1>1. pc = "execute" /\ Types
    BY DEF Execute, GetInv
  <1>2. Settles => /\ hasGet => get.ok /\ ~noSecret
                   /\ ~attrs.ok => attrs.code = "retry" /\ Encoding \notin server.accepts
                   /\ attrs.ok => ~noState
    BY <1>1, Settled DEF AttrsRead, Response, Error
  <1>3. CASE \E code : /\ Caught(code) /\ io' = io
                       /\ Settles => code = "retry" /\ Encoding \notin server.accepts
    BY <1>1, <1>3, ExecuteThrows
  <1>4. CASE /\ hasGet => get.ok /\ ~noSecret
             /\ attrs.ok /\ ~noState
             /\ attributes' = IF call.op = "secret" /\ call.wanted
                              THEN attrs.payload \cap {"State", "Name"} ELSE attrs.payload
             /\ got' = IF hasGet THEN get.payload ELSE Absent
             /\ pc' = IF call.op = "key" THEN "format" ELSE "returned"
             /\ UNCHANGED <<call, server, attempt, tried, io>>
    <2>1. Types'
      BY <1>1, <1>4 DEF Types
    <2>2. Climbing'
      BY <1>4 DEF Climbing
    <2>3. call.op = "key" => "State" \in attributes'
      BY <1>4
    <2>4. call.op = "key" => got' = Object(server.format)
      BY <1>1, <1>4, BatchRead DEF Response, Error
    <2>5. Fetching'
      BY <1>4, <2>3, <2>4, Fixed DEF Fetching
    <2>6. Outcome'
      BY <1>4, SMTT(30) DEF Outcome
    <2> QED BY <2>1, <2>2, <2>5, <2>6 DEF GetInv
  <1>5. \/ \E code : /\ Caught(code) /\ io' = io
                     /\ Settles => code = "retry" /\ Encoding \notin server.accepts
        \/ /\ hasGet => get.ok /\ ~noSecret
           /\ attrs.ok /\ ~noState
           /\ attributes' = IF call.op = "secret" /\ call.wanted
                            THEN attrs.payload \cap {"State", "Name"} ELSE attrs.payload
           /\ got' = IF hasGet THEN get.payload ELSE Absent
           /\ pc' = IF call.op = "key" THEN "format" ELSE "returned"
           /\ UNCHANGED <<call, server, attempt, tried, io>>
    BY <1>2 DEF Execute, GetRead, AttributesRead
  <1> QED BY <1>3, <1>4, <1>5

\* The key of the plain Get is kept, or it cannot be parsed.
LEMMA ParsePlainStep ==
  ASSUME GetInv, pc \in {"format", "refetch"}, ParsePlain,
         ~\E f \in server.converts \cup {server.format} : Usable(f)
  PROVE  GetInv'
  <1>1. /\ Types /\ call.op = "key" /\ "State" \in attributes
        /\ got = Object(server.format)
    BY DEF GetInv, Fetching
  <1>2. CASE KeyParses(got) /\ Return(got)
    <2>1. /\ pc' = "returned" /\ result' = got
          /\ UNCHANGED <<call, server, attempt, got, tried, attributes, io>>
      BY <1>2 DEF Return
    <2>2. got.type = "public" /\ got.format = "x509" => got.spki
      BY <1>1, Facts, ObjectSent
    <2>3. Types' /\ Climbing' /\ Fetching'
      BY <1>1, <2>1 DEF Types, Climbing, Fetching
    <2>4. Outcome'
      BY <2>1, <2>2, Fixed DEF Outcome
    <2> QED BY <2>3, <2>4 DEF GetInv
  <1>3. CASE ~KeyParses(got) /\ Caught("internal") /\ UNCHANGED io
    <2>1. /\ pc' = "thrown" /\ attempt' = attempt /\ io' = io
          /\ call' = call /\ server' = server /\ attributes' = attributes
      BY <1>3, CaughtStep
    <2>2. Types' /\ Climbing' /\ Fetching'
      BY <1>1, <2>1 DEF Types, Climbing, Fetching
    <2>3. Outcome'
      BY <1>1, <1>3, <2>1, Fixed DEF Outcome, KeyParses
    <2> QED BY <2>2, <2>3 DEF GetInv
  <1> QED BY <1>2, <1>3 DEF ParsePlain

\* A key in a preferred format is returned.
LEMMA ReturnStep ==
  ASSUME GetInv, pc \in {"format", "refetch"}, NEW k, Return(k),
         k.type = "public" /\ k.format = "x509" => k.spki,
         k.format = PreferredKeyFormats(server.type)[1]
  PROVE  GetInv'
  <1>1. /\ pc' = "returned" /\ result' = k
        /\ UNCHANGED <<call, server, attempt, got, tried, attributes, io>>
    BY SMTT(30) DEF Return
  <1>2. Types' /\ Climbing' /\ Fetching'
    BY <1>1 DEF GetInv, Types, Climbing, Fetching
  <1>3. Outcome'
    BY <1>1 DEF Outcome
  <1> QED BY <1>2, <1>3 DEF GetInv

\* key_from_get_response: the key is returned as it is or relabelled, kept as
\* it is when its type has no preferred format, or asked for again.
LEMMA FormatStep == GetInv /\ KeyFromGetResponse => GetInv'
  <1> SUFFICES ASSUME GetInv, KeyFromGetResponse PROVE GetInv'
    OBVIOUS
  <1> DEFINE formats == PreferredKeyFormats(got.type)
             k == InPreferredFormat(got)
             usable == (\E i \in DOMAIN formats : formats[i] = got.format) /\ k # Absent
  <1>1. /\ pc = "format" /\ Types /\ call.op = "key" /\ "State" \in attributes
        /\ got = Object(server.format) /\ server.format \in KeyFormats
    BY Facts DEF KeyFromGetResponse, GetInv, Fetching
  <1>2. /\ got.type = server.type /\ got.format = server.format
        /\ got.spki = (server.format = "x509" \/ (server.format = "pkcs8" /\ server.spki))
    BY <1>1, ObjectSent
  <1>3. IF server.type = "public" /\ server.format = "pkcs8"
        THEN IF server.spki
             THEN k # Absent /\ k.type = "public" /\ k.format = "x509" /\ k.spki
             ELSE k = Absent
        ELSE k = got /\ k # Absent
    BY <1>1, Relabelled
  <1>4. formats = <<>> <=> server.type \notin {"private", "public"}
    BY <1>2, Preferred
  <1> HIDE DEF k
  <1>5. usable <=> server.type \in {"private", "public"} /\ Usable(server.format)
    <2>1. CASE server.type = "private"
      <3>1. formats = <<"pkcs8">>
        BY <1>2, <2>1, Preferred
      <3> QED BY <1>2, <1>3, <2>1, <3>1 DEF Usable
    <2>2. CASE server.type = "public"
      <3>1. formats = <<"x509", "pkcs8">>
        BY <1>2, <2>2, Preferred
      <3>2. (\E i \in DOMAIN formats : formats[i] = got.format)
              <=> server.format \in {"x509", "pkcs8"}
        BY <1>2, <3>1
      <3> QED BY <1>3, <2>2, <3>2 DEF Usable
    <2>3. CASE server.type \notin {"private", "public"}
      BY <1>4, <2>3
    <2> QED BY <2>1, <2>2, <2>3
  <1>6. CASE formats = <<>> /\ ParsePlain
    <2>1. ~\E f \in server.converts \cup {server.format} : Usable(f)
      BY <1>4, <1>6 DEF Usable
    <2> QED BY <1>1, <1>6, <2>1, ParsePlainStep
  <1>7. CASE usable /\ Return(k)
    <2>1. k.type = "public" /\ k.format = "x509" => k.spki
      BY <1>2, <1>3, <1>5, <1>7, ZenonT(30) DEF Usable
    <2>2. k.format = PreferredKeyFormats(server.type)[1]
      BY <1>2, <1>3, <1>5, <1>7, Preferred DEF Usable
    <2> QED BY <1>1, <1>7, <2>1, <2>2, ReturnStep
  <1>8. CASE /\ formats # <<>> /\ ~usable
             /\ pc' = "refetch" /\ tried' = 1
             /\ UNCHANGED <<call, server, attempt, got, result, attributes, io>>
    <2>1. Types' /\ Climbing' /\ Outcome'
      BY <1>1, <1>8 DEF Types, Climbing, Outcome
    <2>2. Fetching'
      BY <1>1, <1>4, <1>5, <1>8, Fixed DEF Fetching
    <2> QED BY <2>1, <2>2 DEF GetInv
  <1> QED BY <1>6, <1>7, <1>8 DEF KeyFromGetResponse, k

\* The loop of key_from_get_response: a format that the server has or makes is
\* returned, and the plain Get is kept when none is left.
LEMMA RefetchStep == GetInv /\ Refetch => GetInv'
  <1> SUFFICES ASSUME GetInv, Refetch PROVE GetInv'
    OBVIOUS
  <1> DEFINE formats == PreferredKeyFormats(got.type)
             format  == formats[tried]
             request == <<[id |-> 1, op |-> "get"]>>
             status  == GetResultStatus(request, InFormat(format), 1)
             key     == GetResponseByBatchItemId(request, InFormat(format), 1, "get")
             k       == InPreferredFormat(key.payload)
             usable  == /\ status.payload = "success"
                        /\ key.payload.format = format
                        /\ k # Absent
             Has(f)  == f \in server.converts \cup {server.format}
  <1>1. /\ pc = "refetch" /\ Types /\ call.op = "key" /\ "State" \in attributes
        /\ got = Object(server.format) /\ server.format \in KeyFormats
        /\ server.type \in {"private", "public"} /\ ~Usable(server.format)
        /\ \/ tried = 1
           \/ tried = 2 /\ server.type = "public" /\ "x509" \notin server.converts
    BY Facts DEF Refetch, GetInv, Fetching
  <1>2. got.type = server.type /\ got.format = server.format
    BY <1>1, ObjectSent
  <1>3. /\ server.type = "private" => tried = 1 /\ Len(formats) = 1 /\ format = "pkcs8"
        /\ server.type = "public" => Len(formats) = 2
        /\ server.type = "public" /\ tried = 1 => format = "x509"
        /\ server.type = "public" /\ tried = 2 => format = "pkcs8"
    BY <1>1, <1>2, Preferred
  <1>4. format \in {"pkcs8", "x509"} /\ format \in KeyFormats
    BY <1>1, <1>3, SMTT(30) DEF KeyFormats
  <1>5. IF Has(format) THEN key.payload = Object(format) /\ status.payload = "success"
        ELSE status.payload = "success" => key.payload = Object(server.format)
    BY <1>1, <1>4, FormatRead, SMTT(30)
  <1>6. usable => /\ Has(format) /\ Usable(format)
                  /\ k.type = "public" /\ k.format = "x509" => k.spki
                  /\ k.format = PreferredKeyFormats(server.type)[1]
    <2>1. SUFFICES ASSUME usable
                   PROVE  /\ Has(format) /\ Usable(format)
                          /\ k.type = "public" /\ k.format = "x509" => k.spki
                          /\ k.format = PreferredKeyFormats(server.type)[1]
      BY ZenonT(30)
    <2>2. Has(format)
      BY <1>1, <1>4, <1>5, <2>1, ObjectSent, SMTT(30)
    <2>3. k = InPreferredFormat(Object(format)) /\ k # Absent
      BY <1>5, <2>1, <2>2, SMTT(30)
    <2>4. IF server.type = "public" /\ format = "pkcs8"
          THEN IF server.spki
               THEN k # Absent /\ k.type = "public" /\ k.format = "x509" /\ k.spki
               ELSE k = Absent
          ELSE k = Object(format) /\ k # Absent
      BY <1>1, <1>4, <2>3, Relabelled
    <2>5. /\ Object(format).format = format /\ Object(format).type = server.type
          /\ format = "x509" => Object(format).spki
      BY <1>1, <1>4, ObjectSent
    <2> HIDE DEF k, format, formats
    <2> QED BY <1>1, <1>3, <1>4, <2>2, <2>3, <2>4, <2>5, Preferred DEF Usable
  <1>7. Has(format) /\ Usable(format) => usable
    <2>1. SUFFICES ASSUME Has(format), Usable(format) PROVE usable
      BY Zenon
    <2>2. key.payload = Object(format) /\ status.payload = "success"
      BY <1>5, <2>1
    <2>3. key.payload.format = format
      BY <1>1, <1>4, <2>2, ObjectSent, SMTT(30)
    <2>4. k # Absent
      BY <1>1, <1>4, <2>1, <2>2, Relabelled DEF Usable
    <2> QED BY <2>2, <2>3, <2>4
  <1> HIDE DEF k, key, status, format
  <1>8. CASE usable /\ Return(k)
    BY <1>1, <1>6, <1>8, ReturnStep, SMTT(30)
  <1>9. CASE /\ ~usable /\ tried < Len(formats) /\ tried' = tried + 1
             /\ UNCHANGED <<call, server, pc, attempt, got, result, attributes, io>>
    <2>1. Types' /\ Climbing' /\ Outcome'
      BY <1>1, <1>9 DEF Types, Climbing, Outcome
    <2>2. server.type = "public" /\ tried = 1
      <3>1. tried < Len(formats)
        BY <1>9, Zenon
      <3>2. server.type \in {"private", "public"} /\ tried \in {1, 2}
        BY <1>1
      <3> HIDE DEF formats, usable
      <3>3. CASE server.type = "private"
        <4>1. tried = 1 /\ Len(formats) = 1
          BY <1>3, <3>3
        <4> QED BY <3>1, <4>1
      <3>4. CASE server.type = "public"
        <4>1. Len(formats) = 2
          BY <1>3, <3>4
        <4> QED BY <3>1, <3>2, <3>4, <4>1
      <3> QED BY <3>2, <3>3, <3>4
    <2>3. "x509" \notin server.converts
      BY <1>3, <1>7, <1>9, <2>2 DEF Usable
    <2>4. Fetching'
      BY <1>1, <1>9, <2>2, <2>3, Fixed DEF Fetching
    <2> QED BY <2>1, <2>4 DEF GetInv
  <1>10. CASE ~usable /\ tried = Len(formats) /\ ParsePlain
    <2>1. ~\E f \in server.converts \cup {server.format} : Usable(f)
      BY <1>1, <1>3, <1>7, <1>10, SMTT(30) DEF Usable
    <2> QED BY <1>1, <1>10, <2>1, ParsePlainStep
  <1> QED BY <1>8, <1>9, <1>10 DEF Refetch, k, key, status, format

\* An exchange that fails ends the operation.
LEMMA FailsStep == GetInv /\ ExchangeFails => GetInv'
  <1> SUFFICES ASSUME GetInv, ExchangeFails PROVE GetInv'
    OBVIOUS
  <1>1. PICK code \in {"io", "general", "internal"} : Caught(code)
    BY DEF ExchangeFails
  <1>2. /\ pc' = "thrown" /\ attempt' = attempt /\ io' = TRUE
        /\ call' = call /\ server' = server
    BY <1>1, CaughtStep DEF ExchangeFails
  <1> QED BY <1>2 DEF GetInv, Types, Climbing, Fetching, Outcome

\* A step that changes nothing.
LEMMA IdleStep == GetInv /\ UNCHANGED vars => GetInv'
  <1> SUFFICES ASSUME GetInv, UNCHANGED vars PROVE GetInv'
    OBVIOUS
  <1>1. UNCHANGED <<call, server, pc, attempt, got, tried, result, attributes, io>>
    BY DEF vars
  <1>2. Types'
    BY <1>1 DEF GetInv, Types
  <1>3. Climbing' /\ Fetching'
    BY <1>1, Fixed DEF GetInv, Climbing, Fetching
  <1>4. Outcome'
    BY <1>1, Fixed DEF GetInv, Outcome, KeyParses
  <1> QED BY <1>2, <1>3, <1>4 DEF GetInv

-----------------------------------------------------------------------------
(* The theorems *)

\* The invariant of op_get_key, op_get_secret and op_get_attributes, for every
\* set of calls and servers.
THEOREM Invariance == Spec => []GetInv
  <1>1. Init => GetInv
    <2> SUFFICES ASSUME Init PROVE GetInv
      OBVIOUS
    <2>1. attempt = 1 /\ attempt \in 1 .. 3 /\ ~(attempt > 1)
      BY DEF Init
    <2> QED BY <2>1, Zenon DEF Init, GetInv, Types, Climbing, Fetching, Outcome
  <1>2. GetInv /\ [Next]_vars => GetInv'
    BY ExecuteStep, FormatStep, RefetchStep, FailsStep, IdleStep DEF Next, Ended
  <1> QED BY <1>1, <1>2, PTL DEF Spec

\* The retries of op_get_key, op_get_secret and op_get_attributes serve every
\* server that accepts one of the encodings.
THEOREM RetriesCorrect == Spec => []RetriesFindEncoding
  <1>1. GetInv => RetriesFindEncoding
    BY DEF GetInv, Outcome, RetriesFindEncoding
  <1> QED BY <1>1, Invariance, PTL

\* op_get_key returns an asymmetric key in a preferred format whenever the
\* server has or makes it in one.
THEOREM PreferredCorrect == Spec => []PreferredIfPossible
  <1>1. GetInv => PreferredIfPossible
    BY DEF GetInv, Outcome, PreferredIfPossible
  <1> QED BY <1>1, Invariance, PTL

\* What op_get_key returns as X.509 is a SubjectPublicKeyInfo.
THEOREM LabelCorrect == Spec => []LabelTruthful
  <1>1. GetInv => LabelTruthful
    BY DEF GetInv, Outcome, LabelTruthful
  <1> QED BY <1>1, Invariance, PTL

\* The requests for preferred formats cost op_get_key no key that the plain
\* Get delivered.
THEOREM PlainKept == Spec => []NoWorseThanPlain
  <1>1. GetInv => NoWorseThanPlain
    BY DEF GetInv, Outcome, NoWorseThanPlain
  <1> QED BY <1>1, Invariance, PTL

\* The retries neither see nor repeat the requests for preferred formats,
\* whatever is answered to them or fails.
THEOREM RefetchApart == Spec => RefetchNotRetried
  <1>1. [Next]_vars => [pc = "refetch" => attempt' = attempt]_vars
    <2> SUFFICES ASSUME Next, pc = "refetch" PROVE attempt' = attempt
      BY SMTT(30)
    <2>1. CASE Refetch
      <3>1. ParsePlain => attempt' = attempt
        BY CaughtStep DEF ParsePlain, Return
      <3> QED BY <2>1, <3>1 DEF Refetch, Return
    <2>2. CASE ExchangeFails
      BY <2>2, CaughtStep DEF ExchangeFails
    <2> QED BY <2>1, <2>2 DEF Next, Execute, KeyFromGetResponse, Ended
  <1> QED BY <1>1, PTL DEF Spec, RefetchNotRetried

=============================================================================

-------------------------------- MODULE Batch --------------------------------
(***************************************************************************)
(* A batched request on its way to the server and back: RequestMessage     *)
(* (kmip_protocol.cpp) builds or decodes the items and numbers them,       *)
(* serialize() makes the wire form, a server answers in its own way,       *)
(* IOUtils logs both messages, and ResponseParser matches the answers.     *)
(***************************************************************************)
EXTENDS Requests

CONSTANTS
  Headers,        \* headers that a client starts from (DefaultHeader EXCEPT ...)
  Batches,        \* requests: sequences of kinds of items
  DecodedIds,     \* ids of the items of a request that is decoded from TTLV
  RequestFaults,  \* what may be odd in a request that is decoded
  Faults,         \* what may be odd in a response: [tag, how]
  User, Pass, KeyBytes  \* secrets: model values

VARIABLES
  header,           \* header_
  batchItems,       \* batchItems_: [id, op, payload]
  nextBatchItemId,  \* nextBatchItemId_
  decoded,          \* history: the request came out of fromElement
  msg,              \* the response message as decoded, or Absent
  server,           \* history: the server's answers, which item each is to, ...
  shown             \* history: the secrets that the debug log shows

vars == <<header, batchItems, nextBatchItemId, decoded, msg, server, shown>>

Secrets == {User, Pass, KeyBytes}
Now == 7
NoFault == [tag |-> "none", how |-> "none"]

-----------------------------------------------------------------------------
(* The request *)

\* The operation of a kind of item, and its payload as KmipClient builds it.
OpOf(kind) == IF kind = "RegisterSecret" THEN "Register" ELSE kind
PayloadOf(kind, v) ==
  CASE kind = "Get" -> GetRequest("id", "Raw")
    [] kind = "GetAttributes" ->
         GetAttributesRequest("id", <<"Name", "x-vendor", "Name">>, v, FALSE)
    [] kind = "Create" -> CreateSymmetricKeyRequest("name", "group", 128, "Encrypt", v)
    [] kind = "Register" -> RegisterSymmetricKeyRequest("name", "", KeyBytes, 128, v)
    [] kind = "RegisterSecret" ->
         RegisterSecretRequest("name", "group", KeyBytes, "Password", v)
    [] kind = "Locate" -> LocateRequest(TRUE, "group", "SymmetricKey", 16, 1, v)
    [] kind = "Revoke" -> RevokeRequest("id", "KeyCompromise", "why", Now)
    [] kind = "DiscoverVersions" -> DiscoverVersionsRequest
    [] kind = "Query" -> QueryRequest
    [] OTHER -> SimpleIdRequest("id")

Init ==
  /\ header \in Headers
  /\ batchItems = <<>> /\ nextBatchItemId = 1 /\ decoded = FALSE
  /\ msg = Absent /\ server = Absent /\ shown = {}

Composing == msg = Absent /\ UNCHANGED <<msg, server, shown>>

\* Items as add_batch_item numbers them from n on.
Numbered(kinds, n) ==
  [i \in DOMAIN kinds |-> [id |-> n + i - 1, op |-> OpOf(kinds[i]),
                           payload |-> PayloadOf(kinds[i], header.version)]]

\* add_batch_item
AddBatchItem ==
  /\ Composing
  /\ \E kinds \in Batches :
       LET n == Len(batchItems) + 1
       IN /\ n <= Len(kinds)
          /\ \A i \in 1 .. n - 1 : batchItems[i].op = OpOf(kinds[i])
          /\ batchItems' = batchItems \o Numbered(<<kinds[n]>>, nextBatchItemId)
  /\ nextBatchItemId' = nextBatchItemId + 1
  /\ UNCHANGED <<header, decoded>>

ClearBatchItems ==
  /\ Composing
  /\ batchItems' = <<>> /\ nextBatchItemId' = 1 /\ decoded' = FALSE
  /\ UNCHANGED header

\* Mutant of SetBatchItems: the ids start again, the old items stay.
SetBatchItemsUncleared ==
  /\ Composing /\ Len(batchItems) < 2
  /\ \E kinds \in Batches :
       /\ batchItems' = batchItems \o Numbered(kinds, 1)
       /\ nextBatchItemId' = 1 + Len(kinds)
  /\ UNCHANGED <<header, decoded>>

\* setBatchItems: clearBatchItems, then add_batch_item for each.
SetBatchItems ==
  /\ Composing
  /\ \E kinds \in Batches :
       /\ batchItems' = Numbered(kinds, 1)
       /\ nextBatchItemId' = 1 + Len(kinds)
  /\ decoded' = FALSE
  /\ UNCHANGED header

-----------------------------------------------------------------------------
(* Messages of others *)

\* One element of a message is left out, has a type that no decoder accepts,
\* is a DateTimeExtended, or (an id) comes without its leading zero bytes.
RECURSIVE Faulty(_, _)
Faulty(e, f) ==
  LET changed(c) ==
        IF c.tag # f.tag THEN <<IF AsStructure(c) THEN Faulty(c, f) ELSE c>> ELSE
        CASE f.how = "drop" -> <<>>
          [] f.how = "odd" -> <<Create(c.tag, "Interval", 0)>>
          [] f.how = "extended" -> <<Create(c.tag, "DateTimeExtended", c.value)>>
          [] f.how = "short" -> <<Create(c.tag, c.type, <<Last(c.value)>>)>>
  IN CreateStructure(e.tag, FlattenSeq([i \in DOMAIN e.value |-> changed(e.value[i])]))

\* RequestMessage::fromElement of another program's request: the ids are
\* those of the message, and the next one is the number of items plus one.
FromElement ==
  /\ Composing /\ batchItems = <<>>
  /\ \E kinds \in Batches, f \in RequestFaults :
     \E ids \in [DOMAIN kinds -> DecodedIds] :
       LET items == [i \in DOMAIN kinds |-> [Numbered(kinds, 1)[i] EXCEPT !.id = ids[i]]]
           sent == Faulty(RequestToElement(SerializedHeader(header, items, Now), items), f)
       IN /\ f # NoFault => \A i \in DOMAIN ids : ids[i] = i
          /\ \E e \in {x \in {sent} : RequestDecodes(x)} :
               header' = RequestOf(e).header /\ batchItems' = RequestOf(e).items
          /\ nextBatchItemId' = Len(kinds) + 1
  /\ decoded' = TRUE

\* What the server sends for the k-th item, and what it says.
Listed(k) ==
  IF k = 1 THEN <<"KMIP_TAG_NAME", "KMIP_TAG_STATE", "KMIP_TAG_ACTIVATION_DATE",
                  "KMIP_TAG_PROCESS_START_DATE", "KMIP_TAG_CRYPTOGRAPHIC_ALGORITHM",
                  "KMIP_TAG_CRYPTOGRAPHIC_USAGE_MASK", "x-vendor">>
  ELSE <<"KMIP_TAG_OBJECT_GROUP", "KMIP_TAG_UNIQUE_IDENTIFIER",
         "KMIP_TAG_DEACTIVATION_DATE", "KMIP_TAG_PROTECT_STOP_DATE",
         "KMIP_TAG_CRYPTOGRAPHIC_LENGTH", "KMIP_TAG_OPERATION_POLICY_NAME">>
StandardName(a) == IF a = "x-vendor" THEN a ELSE NameOfTag[a]

\* A listed attribute: its name in KMIP 1.x; a reference by tag, in either
\* form, or by name in 2.0.
ListEntry(a, k, v) ==
  LET byTag == Create("AttributeReference", "Enumeration", a)
      byName == Create("AttributeName", "TextString", StandardName(a))
  IN IF ~IsAtLeast(v, 2, 0) THEN byName
     ELSE IF a = "x-vendor" THEN CreateStructure("AttributeReference", <<byName>>)
     ELSE IF k = 1 THEN byTag ELSE CreateStructure("AttributeReference", <<byTag>>)

\* A key block; that of a wrapped key has a Byte String for its Key Value.
ServerKey(k) ==
  IF k = 1 THEN SymmetricKey(KeyBytes, 128)
  ELSE CreateStructure("SymmetricKey", <<CreateStructure("KeyBlock",
         <<Create("KeyValue", "ByteString", KeyBytes)>>)>>)

ResponsePayload(op, k, v) ==
  CreateStructure("ResponsePayload",
    CASE op = "Get" -> <<ObjectType("SymmetricKey"), Identifier(k), ServerKey(k)>>
      [] op = "GetAttributes" ->
           LET a == InVersion(v, "CryptographicLength", "Cryptographic Length", "Integer", k)
           IN <<Identifier("id"),
                IF IsAtLeast(v, 2, 0) THEN CreateStructure("Attributes", <<a>>) ELSE a>>
      [] op = "GetAttributeList" ->
           [i \in DOMAIN Listed(k) |-> ListEntry(Listed(k)[i], k, v)]
      [] op = "Locate" -> <<Create("LocatedItems", "Integer", 1), Identifier(k)>>
      [] op = "DiscoverVersions" -> <<VersionToElement(<<k, 0>>)>>
      [] op = "Query" ->
           <<Create("Operation", "Enumeration", k),
             CreateStructure("ServerInformation",
               <<Create("ServerName", "TextString", "name")>>)>>
      [] OTHER -> <<Identifier(k)>>)

\* What the caller should get of that payload.
Expected(op, k) ==
  IF op = "GetAttributeList" THEN [i \in DOMAIN Listed(k) |-> StandardName(Listed(k)[i])]
  ELSE <<k>>

\* The forms in which a server answers the k-th item of the request: success
\* with a payload or without; failure with a reason or without; neither (a
\* pending operation).  Operation may be left out.  Without all: only the
\* ordinary ones.  A payload is given by k.
Answers(k, echo, all) ==
  LET op == batchItems[k].op
  IN {[id |-> IF echo THEN batchItems[k].id ELSE NoId, op |-> o,
       status |-> f[1], reason |-> f[2], payload |-> f[3]] :
         o \in IF all THEN {op, Absent} ELSE {op},
         f \in {<<"success", Absent, k>>, <<"failed", "reason", Absent>>} \cup
               IF all THEN {<<"success", Absent, Absent>>, <<"failed", Absent, Absent>>,
                            <<"pending", Absent, Absent>>} ELSE {}}

\* A message of those answers.
ResponseElement(items, order, count, fault) ==
  LET item(i) ==
        LET k == order[i]
            whole == ResponseItemToElement(
                       [items[i] EXCEPT !.payload = IF @ = Absent THEN Absent ELSE
                          ResponsePayload(batchItems[k].op, k, header.version)])
        IN IF items[i].op # Absent THEN whole ELSE [whole EXCEPT !.value = Tail(@)]
      head == ResponseHeaderToElement([version |-> header.version, timeStamp |-> Now,
                                       batchCount |-> count])
  IN Faulty(CreateStructure("ResponseMessage",
              <<head>> \o [i \in DOMAIN items |-> item(i)]), fault)

\* The request is sent, and logged before; a server answers every item in any
\* order, echoing the ids; or, as the Batch Order Option that serialize() sets
\* asks, the first n items in order, stopping early perhaps, with or without
\* their ids.  The response is logged, and decoded once.  Bounds: a message
\* that was decoded and then filled anew is not sent, and one element at most
\* is odd, in a complete response to a request that the client built.
Respond ==
  /\ msg = Absent /\ batchItems # <<>>
  /\ decoded \/ header \in Headers
  /\ Serialize(header, batchItems, Now) # Absent
  /\ \E echo \in BOOLEAN, n \in 1 .. Len(batchItems), fault \in Faults :
     \E order \in [1 .. n -> 1 .. Len(batchItems)] :
       /\ fault # NoFault => n = Len(batchItems) /\ ~decoded
       /\ \/ n = Len(batchItems) /\ echo /\ IsInjective(order)
          \/ \A i \in 1 .. n : order[i] = i
       /\ LET answers(k) == Answers(k, echo, fault = NoFault /\ ~decoded) IN
          \E items \in [1 .. n -> UNION {answers(k) : k \in 1 .. Len(batchItems)}],
             count \in IF fault = NoFault THEN {n - 1, Len(batchItems)} ELSE {n} :
            /\ \A i \in 1 .. n : items[i] \in answers(order[i])
            /\ LET e == ResponseElement(items, order, count, fault)
               IN /\ msg' = ResponseOf(e)
                  /\ shown' = shown \cup Shown(e, Secrets)
                              \cup Shown(Serialize(header, batchItems, Now), Secrets)
            /\ server' = [order |-> order, items |-> items, count |-> count, fault |-> fault]
  /\ UNCHANGED <<header, batchItems, nextBatchItemId, decoded>>

Next ==
  \/ AddBatchItem \/ ClearBatchItems \/ SetBatchItems \/ FromElement
  \/ Respond

Spec == Init /\ [][Next]_vars

-----------------------------------------------------------------------------
(* Properties *)

UniqueIds ==
  \A i \in DOMAIN batchItems :
    /\ batchItems[i].id # NoId
    /\ \A j \in DOMAIN batchItems : batchItems[i].id = batchItems[j].id => i = j

\* What a caller that asks for the response to its k-th item gets; lookups
\* change nothing, so any number of them in any order give these results.
Outcome(k) ==
  GetResponseByBatchItemId(batchItems, msg, batchItems[k].id, batchItems[k].op)

Answered(k) == \E i \in DOMAIN server.order : server.order[i] = k
AnswerTo(k) == CHOOSE i \in DOMAIN server.order : server.order[i] = k

\* The ids of a request that the client built differ, and none is 0, which
\* would not be encoded, through any mixture of add_batch_item, setBatchItems
\* and clearBatchItems: so echoed ids tell the items apart.
BuiltIdsUnique ==
  ~decoded => UniqueIds

\* Every request, built or decoded, reads back from its wire form as what the
\* caller put in: fromElement of toElement keeps version, size limit,
\* credentials, ids, operations and payloads; serialize() fills in the batch
\* count, and the order option of a real batch unless the caller chose it.
WireFaithful ==
  msg = Absent /\ batchItems # <<>> =>
    LET e == Serialize(header, batchItems, Now)
        m == RequestOf(e)
    IN /\ e # Absent /\ RequestDecodes(e)
       /\ m.items = batchItems
       /\ \A f \in {"version", "maximumResponseSize", "userName", "password"} :
            m.header[f] = header[f]
       /\ m.header.batchCount = Len(batchItems)
       /\ m.header.batchOrderOption = IF header.batchOrderOption # Absent
                                      THEN header.batchOrderOption
                                      ELSE IF Len(batchItems) > 1 THEN TRUE ELSE Absent

\* The payload that a caller gets for an item is the server's answer to that
\* very item: whether the server echoes the ids or not, in whatever order it
\* answers when it echoes them, when it stops before the last item, and
\* whichever element of the message is missing or ill-typed.
OwnAnswer ==
  msg # Absent /\ UniqueIds =>
    \A k \in DOMAIN batchItems :
      Outcome(k).ok =>
        \A i \in DOMAIN Outcome(k).payload :
          \E j \in DOMAIN Expected(batchItems[k].op, k) :
            Outcome(k).payload[i] = Expected(batchItems[k].op, k)[j]

\* Deviations of servers that the decoders tolerate.
Tolerated ==
  {NoFault, [tag |-> "TimeStamp", how |-> "drop"],
   [tag |-> "ProtocolVersionMinor", how |-> "drop"],
   [tag |-> "UniqueBatchItemId", how |-> "short"]} \cup
  IF IsAtLeast(header.version, 2, 0) THEN {[tag |-> "TimeStamp", how |-> "extended"]} ELSE {}

\* Nothing that the server answered is lost: the payload of a successful item
\* reaches its caller whole, and of a failed one the reason (the retries of
\* op_get_key depend on it) under the operation that the caller asked for,
\* also when the server leaves out Operation and the id.
AnswerReachesCaller ==
  /\ msg # Absent /\ UniqueIds /\ server.fault \in Tolerated
  /\ server.count >= Len(server.items)
  /\ \A i \in DOMAIN server.items : ItemParses(server.items[i])
  => \A k \in DOMAIN batchItems : Answered(k) =>
       LET item == server.items[AnswerTo(k)]
       IN /\ item.status = "failed" =>
               /\ Outcome(k) = Error(item.reason)
               /\ EffectiveOperation(batchItems, msg.items[AnswerTo(k)], batchItems[k].id)
                    = batchItems[k].op
          /\ item.status = "success" /\ item.op # Absent /\ item.payload # Absent =>
               Outcome(k) = Response(Expected(item.op, k))

\* The names that op_get_attribute_list returns are good for op_get_attributes:
\* with KMIP 2.0, where both messages have tags and each direction has a
\* table of its own, every name selects the attribute it was listed for.
ListedIsSelected ==
  msg # Absent /\ UniqueIds /\ IsAtLeast(header.version, 2, 0) =>
    \A k \in DOMAIN batchItems :
      batchItems[k].op = "GetAttributeList" /\ Outcome(k).ok =>
        LET selectors == Children(GetAttributesRequest("id", Outcome(k).payload,
                                                       header.version, FALSE),
                                  "AttributeReference")
        IN \A i \in DOMAIN selectors : Head(selectors[i].value).value = Listed(k)[i]

\* Neither the credentials nor key material appear in the debug log, whatever
\* is sent and received (do_exchange logs both messages through format_ttlv).
LogsRedacted ==
  shown = {}

\* The comment in ResponseBatchItem::fromElement: Operation "is optional in
\* responses", "only REQUIRED when the request contained more than one Batch
\* Item, or when the result is not Success".  expect_operation nevertheless
\* requires it of every response.
OperationOptional ==
  msg # Absent /\ Len(batchItems) = 1 /\ Parses(msg) =>
    LET item == msg.items[1]
    IN item.status = "success" /\ item.payload # Absent => Outcome(1).ok

=============================================================================

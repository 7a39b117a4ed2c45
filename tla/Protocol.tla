------------------------------ MODULE Protocol ------------------------------
(***************************************************************************)
(* Request and response messages as elements (kmip_protocol.cpp): every    *)
(* toElement, every fromElement, serialize; and the typed responses        *)
(* (kmip_responses.hpp, .cpp).  A fromElement is a predicate that says     *)
(* when it does not throw and an operator for its result.  A version is    *)
(* <<major, minor>>.  Absent is an optional without a value.               *)
(***************************************************************************)
EXTENDS Elements, ResponseParser

Is(e, tag) == e.tag = tag /\ AsStructure(e)

-----------------------------------------------------------------------------
(* Protocol version *)

IsAtLeast(v, major, minor) == v[1] > major \/ (v[1] = major /\ v[2] >= minor)

VersionToElement(v) ==
  CreateStructure("ProtocolVersion",
    <<Create("ProtocolVersionMajor", "Integer", v[1]),
      Create("ProtocolVersionMinor", "Integer", v[2])>>)

VersionDecodes(e) ==
  /\ Is(e, "ProtocolVersion")
  /\ Readable(e, "ProtocolVersionMajor", "toInt")
  /\ Readable(e, "ProtocolVersionMinor", "toInt")

\* Missing parts are those of the default, KMIP 1.4.
VersionOf(e) ==
  <<Value(e, "ProtocolVersionMajor", 1), Value(e, "ProtocolVersionMinor", 4)>>

\* validate_element_types_for_version, supports_date_time_extended
RECURSIVE TypesFit(_, _)
TypesFit(e, v) ==
  /\ e.type = "DateTimeExtended" => IsAtLeast(v, 2, 0)
  /\ AsStructure(e) => \A i \in DOMAIN e.value : TypesFit(e.value[i], v)

-----------------------------------------------------------------------------
(* Batch item ids *)

EncodeBatchItemId(id) ==
  <<(id \div 16777216) % 256, (id \div 65536) % 256, (id \div 256) % 256, id % 256>>

\* decode_batch_item_id: 0, none, unless there are one to four bytes.
DecodeBatchItemId(bytes) ==
  IF Len(bytes) \in 1 .. 4 THEN FoldLeft(LAMBDA n, b : n * 256 + b, 0, bytes) ELSE 0

IdElement(id) ==
  AddIf(id # 0, Create("UniqueBatchItemId", "ByteString", EncodeBatchItemId(id)))

IdOf(e) == DecodeBatchItemId(Value(e, "UniqueBatchItemId", <<>>))

-----------------------------------------------------------------------------
(* Request messages *)

\* A header without optional fields.
DefaultHeader ==
  [version |-> <<1, 4>>, maximumResponseSize |-> Absent, batchOrderOption |-> Absent,
   timeStamp |-> Absent, userName |-> Absent, password |-> Absent, batchCount |-> 0]

\* Mutant of Authentication: nothing without a user name.
AuthenticationNamed(h) ==
  AddIf(h.userName # Absent,
    CreateStructure("Authentication", <<CreateStructure("Credential",
      <<Create("CredentialType", "Enumeration", "UsernameAndPassword"),
        CreateStructure("CredentialValue",
          AddIf(h.userName # Absent, Create("Username", "TextString", h.userName)) \o
          AddIf(h.password # Absent, Create("Password", "TextString", h.password)))>>)>>))

\* The credentials in RequestHeader::toElement.
Authentication(h) ==
  AddIf(h.userName # Absent \/ h.password # Absent,
    CreateStructure("Authentication", <<CreateStructure("Credential",
      <<Create("CredentialType", "Enumeration", "UsernameAndPassword"),
        CreateStructure("CredentialValue",
          AddIf(h.userName # Absent, Create("Username", "TextString", h.userName)) \o
          AddIf(h.password # Absent, Create("Password", "TextString", h.password)))>>)>>))

RequestHeaderToElement(h) ==
  CreateStructure("RequestHeader",
    <<VersionToElement(h.version)>>
    \o AddIf(h.maximumResponseSize # Absent,
             Create("MaximumResponseSize", "Integer", h.maximumResponseSize))
    \o AddIf(h.batchOrderOption # Absent,
             Create("BatchOrderOption", "Boolean", h.batchOrderOption))
    \o AddIf(h.timeStamp # Absent, Create("TimeStamp", "DateTime", h.timeStamp))
    \o Authentication(h)
    \o <<Create("BatchCount", "Integer", h.batchCount)>>)

\* Credential and Credential Value of a header, as far as they are there.
CredentialOf(e) == Child(Child(e, "Authentication"), "Credential")
IsPasswordCredential(e) ==
  /\ Has(e, "Authentication")
  /\ Child(CredentialOf(e), "CredentialType").value = "UsernameAndPassword"

AuthenticationDecodes(e) ==
  Has(e, "Authentication") =>
    /\ Has(Child(e, "Authentication"), "Credential")
    /\ Has(CredentialOf(e), "CredentialType") /\ Has(CredentialOf(e), "CredentialValue")
    /\ Readable(CredentialOf(e), "CredentialType", "toEnum")
    /\ IsPasswordCredential(e) =>
         /\ Readable(Child(CredentialOf(e), "CredentialValue"), "Username", "toString")
         /\ Readable(Child(CredentialOf(e), "CredentialValue"), "Password", "toString")

RequestHeaderDecodes(e) ==
  /\ Is(e, "RequestHeader")
  /\ Has(e, "ProtocolVersion") /\ VersionDecodes(Child(e, "ProtocolVersion"))
  /\ Readable(e, "MaximumResponseSize", "toInt")
  /\ Readable(e, "TimeStamp", "toLong")
  /\ Readable(e, "BatchOrderOption", "toBool")
  /\ AuthenticationDecodes(e)
  /\ Readable(e, "BatchCount", "toInt")

RequestHeaderOf(e) ==
  LET credential(tag) == IF IsPasswordCredential(e)
                         THEN Value(Child(CredentialOf(e), "CredentialValue"), tag, Absent)
                         ELSE Absent
  IN [version |-> VersionOf(Child(e, "ProtocolVersion")),
      maximumResponseSize |-> Value(e, "MaximumResponseSize", Absent),
      batchOrderOption |-> Value(e, "BatchOrderOption", Absent),
      timeStamp |-> Value(e, "TimeStamp", Absent),
      userName |-> credential("Username"), password |-> credential("Password"),
      batchCount |-> Value(e, "BatchCount", 0)]

\* RequestBatchItem: [id, op, payload].
RequestItemToElement(item) ==
  CreateStructure("BatchItem",
    <<Create("Operation", "Enumeration", item.op)>> \o IdElement(item.id)
    \o AddIf(item.payload # Absent, item.payload))

RequestItemDecodes(e) ==
  /\ Is(e, "BatchItem")
  /\ Has(e, "Operation") /\ Readable(e, "Operation", "toEnum")
  /\ Readable(e, "UniqueBatchItemId", "toBytes")

RequestItemOf(e) ==
  [id |-> IdOf(e), op |-> Value(e, "Operation", Absent),
   payload |-> IF Has(e, "RequestPayload") THEN Child(e, "RequestPayload") ELSE Absent]

\* RequestMessage::toElement: Absent where it throws.
RequestToElement(h, items) ==
  LET e == CreateStructure("RequestMessage",
             <<RequestHeaderToElement(h)>>
             \o [i \in DOMAIN items |-> RequestItemToElement(items[i])])
  IN IF TypesFit(e, h.version) THEN e ELSE Absent

\* The header of the copy that serialize() encodes.
SerializedHeader(h, items, now) ==
  [h EXCEPT !.batchCount = Len(items), !.timeStamp = now,
            !.batchOrderOption = IF Len(items) > 1 /\ @ = Absent THEN TRUE ELSE @]

\* RequestMessage::serialize: Absent where it throws.
Serialize(h, items, now) ==
  IF items = <<>> THEN Absent
  ELSE RequestToElement(SerializedHeader(h, items, now), items)

\* RequestMessage::fromElement
RequestDecodes(e) ==
  /\ Is(e, "RequestMessage")
  /\ Has(e, "RequestHeader")
  /\ LET hdr == Child(e, "RequestHeader")
         items == Children(e, "BatchItem")
     IN /\ RequestHeaderDecodes(hdr)
        /\ TypesFit(e, VersionOf(Child(hdr, "ProtocolVersion")))
        /\ \A i \in DOMAIN items : RequestItemDecodes(items[i])
        /\ Value(hdr, "BatchCount", 0) = Len(items)

RequestOf(e) ==
  [header |-> RequestHeaderOf(Child(e, "RequestHeader")),
   items |-> [i \in DOMAIN Children(e, "BatchItem") |->
                RequestItemOf(Children(e, "BatchItem")[i])]]

-----------------------------------------------------------------------------
(* Response messages *)

ResponseHeaderToElement(h) ==
  CreateStructure("ResponseHeader",
    <<VersionToElement(h.version), Create("TimeStamp", "DateTime", h.timeStamp),
      Create("BatchCount", "Integer", h.batchCount)>>)

ResponseHeaderDecodes(e) ==
  /\ Is(e, "ResponseHeader")
  /\ Has(e, "ProtocolVersion") /\ VersionDecodes(Child(e, "ProtocolVersion"))
  /\ Readable(e, "TimeStamp", "toLong")
  /\ Readable(e, "BatchCount", "toInt")

\* ResponseBatchItem: [id, op, status, reason, payload]; the result message
\* is text for the user and left out.
ResponseItemToElement(item) ==
  CreateStructure("BatchItem",
    <<Create("Operation", "Enumeration", item.op)>> \o IdElement(item.id)
    \o <<Create("ResultStatus", "Enumeration", item.status)>>
    \o AddIf(item.reason # Absent, Create("ResultReason", "Enumeration", item.reason))
    \o AddIf(item.payload # Absent, item.payload))

ResponseItemDecodes(e) ==
  /\ Is(e, "BatchItem")
  /\ Readable(e, "Operation", "toEnum")
  /\ Readable(e, "UniqueBatchItemId", "toBytes")
  /\ Readable(e, "ResultStatus", "toEnum")
  /\ Readable(e, "ResultReason", "toEnum")
  /\ Readable(e, "ResultMessage", "toString")

\* The structure that ResponseMessage::fromElement requires, but for what
\* ResponseParser!Parses says of items and count.
ResponseDecodes(e) ==
  /\ Is(e, "ResponseMessage")
  /\ Has(e, "ResponseHeader")
  /\ ResponseHeaderDecodes(Child(e, "ResponseHeader"))
  /\ TypesFit(e, VersionOf(Child(Child(e, "ResponseHeader"), "ProtocolVersion")))
  /\ \A i \in DOMAIN Children(e, "BatchItem") :
       ResponseItemDecodes(Children(e, "BatchItem")[i])

-----------------------------------------------------------------------------
(* Typed responses.  The result of a payload is reduced to the sequence of *)
(* the identifiers, names or values in it.                                 *)

\* get_object_element_for_type
ObjectTags ==
  [t \in {"SymmetricKey", "SecretData", "PrivateKey", "PublicKey"} |-> t]

GetDecodes(p) ==
  /\ Has(p, "UniqueIdentifier") /\ Readable(p, "UniqueIdentifier", "toString")
  /\ Has(p, "ObjectType") /\ Readable(p, "ObjectType", "toEnum")
  /\ Child(p, "ObjectType").value \in DOMAIN ObjectTags
  /\ Has(p, ObjectTags[Child(p, "ObjectType").value])

\* GetAttributesResponseBatchItem: Attribute elements, else those in an
\* Attributes structure, else whatever is in it.
AttributeElements(p) ==
  LET direct == Children(p, "Attribute")
      inner  == Children(Child(p, "Attributes"), "Attribute")
  IN IF direct # <<>> THEN direct
     ELSE IF ~Has(p, "Attributes") THEN <<>>
     ELSE IF inner # <<>> \/ ~AsStructure(Child(p, "Attributes")) THEN inner
     ELSE Child(p, "Attributes").value

\* attribute_name_from_tag_code
NameOfTag ==
  [KMIP_TAG_NAME |-> "Name", KMIP_TAG_OBJECT_GROUP |-> "Object Group",
   KMIP_TAG_STATE |-> "State", KMIP_TAG_UNIQUE_IDENTIFIER |-> "Unique Identifier",
   KMIP_TAG_ACTIVATION_DATE |-> "Activation Date",
   KMIP_TAG_DEACTIVATION_DATE |-> "Deactivation Date",
   KMIP_TAG_PROCESS_START_DATE |-> "Process Start Date",
   KMIP_TAG_PROTECT_STOP_DATE |-> "Protect Stop Date",
   KMIP_TAG_CRYPTOGRAPHIC_ALGORITHM |-> "Cryptographic Algorithm",
   KMIP_TAG_CRYPTOGRAPHIC_LENGTH |-> "Cryptographic Length",
   KMIP_TAG_CRYPTOGRAPHIC_USAGE_MASK |-> "Cryptographic Usage Mask",
   KMIP_TAG_OPERATION_POLICY_NAME |-> "Operation Policy Name"]

\* collect_attribute_list_entries_from_reference: none for a tag that has no
\* name here.
NamesOfReference(r) ==
  LET named(code) == IF code \in DOMAIN NameOfTag THEN <<NameOfTag[code]>> ELSE <<>>
  IN IF r.type = "Enumeration" THEN named(r.value)
     ELSE IF Has(r, "AttributeName") THEN <<Child(r, "AttributeName").value>>
     ELSE IF Has(r, "AttributeReference") THEN named(Child(r, "AttributeReference").value)
     ELSE <<>>

ReferenceDecodes(r) ==
  IF Has(r, "AttributeName") THEN Readable(r, "AttributeName", "toString")
  ELSE Readable(r, "AttributeReference", "toEnum")

\* GetAttributeListResponseBatchItem: Attribute Names, or Attribute
\* References if there are none.
AttributeListDecodes(p) ==
  /\ AllReadable(p, "AttributeName", "toString")
  /\ ~Has(p, "AttributeName") =>
       \A i \in DOMAIN Children(p, "AttributeReference") :
         ReferenceDecodes(Children(p, "AttributeReference")[i])

AttributeNames(p) ==
  IF Has(p, "AttributeName") THEN Values(p, "AttributeName")
  ELSE FlattenSeq([i \in DOMAIN Children(p, "AttributeReference") |->
                     NamesOfReference(Children(p, "AttributeReference")[i])])

LocateDecodes(p) ==
  /\ AsStructure(p)
  /\ AllReadable(p, "LocatedItems", "toInt")
  /\ AllReadable(p, "UniqueIdentifier", "toString")

DiscoverVersionsDecodes(p) ==
  \A i \in DOMAIN Children(p, "ProtocolVersion") :
    VersionDecodes(Children(p, "ProtocolVersion")[i])

ServerFields ==
  {"ServerName", "ServerSerialNumber", "ServerVersion", "ServerLoad", "ProductName",
   "BuildLevel", "BuildDate", "ClusterInfo"}

QueryDecodes(p) ==
  /\ AllReadable(p, "Operation", "toEnum") /\ AllReadable(p, "ObjectType", "toEnum")
  /\ Readable(p, "VendorIdentification", "toString")
  /\ Has(p, "ServerInformation") =>
       \A f \in ServerFields : Readable(Child(p, "ServerInformation"), f, "toString")

\* Query and Discover Versions may be answered without a payload.
PayloadOptional == {"Query", "DiscoverVersions"}

\* fromBatchItem of the typed response of each operation, after
\* expect_operation: Absent where it throws.
TypedPayload(op, p) ==
  IF p = Absent THEN IF op \in PayloadOptional THEN <<>> ELSE Absent
  ELSE CASE op = "Get" ->
              IF GetDecodes(p) THEN <<Child(p, "UniqueIdentifier").value>> ELSE Absent
         [] op = "GetAttributes" -> [i \in DOMAIN AttributeElements(p) |->
              Value(AttributeElements(p)[i], "AttributeValue", AttributeElements(p)[i].value)]
         [] op = "GetAttributeList" ->
              IF AttributeListDecodes(p) THEN AttributeNames(p) ELSE Absent
         [] op = "Locate" ->
              IF LocateDecodes(p) THEN Values(p, "UniqueIdentifier") ELSE Absent
         [] op = "DiscoverVersions" ->
              LET versions == Children(p, "ProtocolVersion")
              IN IF DiscoverVersionsDecodes(p)
                 THEN [i \in DOMAIN versions |-> VersionOf(versions[i])[1]] ELSE Absent
         [] op = "Query" ->
              IF QueryDecodes(p) THEN Values(p, "Operation") ELSE Absent
         [] OTHER ->   \* SimpleIdResponseBatchItem
              IF Has(p, "UniqueIdentifier") /\ Readable(p, "UniqueIdentifier", "toString")
              THEN <<Child(p, "UniqueIdentifier").value>> ELSE Absent

\* What ResponseParser gets of a message: [whole, count, items].  An item
\* that names no operation keeps its payload undecoded, as <<>>.
ResponseOf(e) ==
  LET items == Children(e, "BatchItem")
      payload(i) == IF Has(i, "ResponsePayload") THEN Child(i, "ResponsePayload") ELSE Absent
      item(i) == [id |-> IdOf(i), op |-> Value(i, "Operation", Absent),
                  status |-> Value(i, "ResultStatus", Absent),
                  reason |-> Value(i, "ResultReason", Absent),
                  payload |-> IF Has(i, "Operation")
                              THEN TypedPayload(Value(i, "Operation", Absent), payload(i))
                              ELSE IF payload(i) = Absent THEN Absent ELSE <<>>]
  IN IF ~ResponseDecodes(e) THEN [whole |-> FALSE, count |-> 0, items |-> <<>>]
     ELSE [whole |-> TRUE,
           count |-> Value(Child(e, "ResponseHeader"), "BatchCount", 0),
           items |-> [i \in DOMAIN items |-> item(items[i])]]

=============================================================================

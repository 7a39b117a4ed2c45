------------------------------ MODULE Requests ------------------------------
(***************************************************************************)
(* The payloads of the requests that KmipClient sends (kmip_requests.cpp,  *)
(* kmip_requests.hpp; Query and Discover Versions in KmipClient.cpp), by   *)
(* protocol version.  RegisterKeyRequest is in module Objects, which looks *)
(* at the attributes it derives from a key.  Mask values stay symbolic.    *)
(***************************************************************************)
EXTENDS Protocol, TLC

UseAttributesContainer(v) == IsAtLeast(v, 2, 0)

Payload(items) == CreateStructure("RequestPayload", items)
Identifier(id) == Create("UniqueIdentifier", "TextString", id)

-----------------------------------------------------------------------------
(* Attributes *)

\* Mutant of TagOfName: two dates taken for each other.
TagOfNameSwapped(name) ==
  IF name = "Activation Date" THEN "KMIP_TAG_DEACTIVATION_DATE"
  ELSE IF name \in {NameOfTag[t] : t \in DOMAIN NameOfTag}
       THEN CHOOSE t \in DOMAIN NameOfTag : NameOfTag[t] = name
  ELSE Absent

\* standard_attribute_name_to_tag
TagOfName(name) ==
  CASE name = "Name" -> "KMIP_TAG_NAME"
    [] name = "Object Group" -> "KMIP_TAG_OBJECT_GROUP"
    [] name = "State" -> "KMIP_TAG_STATE"
    [] name \in {"Unique Identifier", "UniqueID"} -> "KMIP_TAG_UNIQUE_IDENTIFIER"
    [] name = "Activation Date" -> "KMIP_TAG_ACTIVATION_DATE"
    [] name = "Deactivation Date" -> "KMIP_TAG_DEACTIVATION_DATE"
    [] name = "Process Start Date" -> "KMIP_TAG_PROCESS_START_DATE"
    [] name = "Protect Stop Date" -> "KMIP_TAG_PROTECT_STOP_DATE"
    [] name = "Cryptographic Algorithm" -> "KMIP_TAG_CRYPTOGRAPHIC_ALGORITHM"
    [] name = "Cryptographic Length" -> "KMIP_TAG_CRYPTOGRAPHIC_LENGTH"
    [] name = "Cryptographic Usage Mask" -> "KMIP_TAG_CRYPTOGRAPHIC_USAGE_MASK"
    [] name = "Operation Policy Name" -> "KMIP_TAG_OPERATION_POLICY_NAME"
    [] OTHER -> Absent

\* make_v2_attribute_reference
AttributeReference(name) ==
  CreateStructure("AttributeReference",
    IF TagOfName(name) # Absent
    THEN <<Create("AttributeReference", "Enumeration", TagOfName(name))>>
    ELSE <<Create("AttributeName", "TextString", name)>>)

\* make_text_attribute, make_enum_attribute, make_integer_attribute
MakeAttribute(name, type, value) ==
  CreateStructure("Attribute", <<Create("AttributeName", "TextString", name),
                                 Create("AttributeValue", type, value)>>)

NameFields(value) ==
  <<Create("NameValue", "TextString", value),
    Create("NameType", "Enumeration", "UninterpretedTextString")>>

\* The attributes that requests set or filter by, each in the form of 2.0, a
\* typed element (make_v2_name_struct for a name), and in that of 1.x.
InVersion(v, tag, name, type, value) ==
  IF UseAttributesContainer(v) THEN Create(tag, type, value)
  ELSE MakeAttribute(name, type, value)
NameIn(v, name) == InVersion(v, "Name", "Name", "Structure", NameFields(name))
GroupIn(v, group) == InVersion(v, "ObjectGroup", "Object Group", "TextString", group)
MaskIn(v, mask) ==
  InVersion(v, "CryptographicUsageMask", "Cryptographic Usage Mask", "Integer", mask)

\* make_attributes_container, make_template_attribute
AttributesContainer(v, attributes) ==
  CreateStructure(IF UseAttributesContainer(v) THEN "Attributes" ELSE "TemplateAttribute",
                  attributes)

\* make_v2_create_symmetric_attrs, make_v2_register_symmetric_attrs, and the
\* template that both requests build for 1.x.
SymmetricAttributes(v, name, group, bits, mask) ==
  AttributesContainer(v,
    <<InVersion(v, "CryptographicAlgorithm", "Cryptographic Algorithm", "Enumeration", "AES"),
      InVersion(v, "CryptographicLength", "Cryptographic Length", "Integer", bits),
      MaskIn(v, mask), NameIn(v, name)>>
    \o AddIf(group # "", GroupIn(v, group)))

\* make_v2_register_secret_attrs, and the template of 1.x.
SecretAttributes(v, name, group) ==
  AttributesContainer(v, <<MaskIn(v, "DeriveKey|Export"), NameIn(v, name)>>
                         \o AddIf(group # "", GroupIn(v, group)))

-----------------------------------------------------------------------------
(* Objects *)

\* make_key_value, make_key_block
KeyBlock(format, bytes, algorithm, length) ==
  CreateStructure("KeyBlock",
    <<Create("KeyFormatType", "Enumeration", format),
      CreateStructure("KeyValue", <<Create("KeyMaterial", "ByteString", bytes)>>)>>
    \o AddIf(algorithm # Absent, Create("CryptographicAlgorithm", "Enumeration", algorithm))
    \o AddIf(length # Absent, Create("CryptographicLength", "Integer", length)))

\* make_symmetric_key, make_secret_data
SymmetricKey(bytes, bits) ==
  CreateStructure("SymmetricKey", <<KeyBlock("Raw", bytes, "AES", bits)>>)
SecretData(bytes, type) ==
  CreateStructure("SecretData", <<Create("SecretDataType", "Enumeration", type),
                                  KeyBlock("Opaque", bytes, Absent, Absent)>>)

ObjectType(type) == Create("ObjectType", "Enumeration", type)

-----------------------------------------------------------------------------
(* Requests *)

\* SimpleIdRequest, GetRequest
SimpleIdRequest(id) == Payload(<<Identifier(id)>>)
GetRequest(id, format) ==
  Payload(<<Identifier(id)>>
          \o AddIf(format # Absent, Create("KeyFormatType", "Enumeration", format)))

\* "Deduplicate selectors while preserving first-seen order."
Deduplicated(names) ==
  FoldLeft(LAMBDA seen, n : IF Contains(seen, n) THEN seen ELSE Append(seen, n),
           <<>>, names)

GetAttributesRequest(id, names, v, legacy) ==
  LET selector(n) == IF UseAttributesContainer(v) /\ ~legacy THEN AttributeReference(n)
                     ELSE Create("AttributeName", "TextString", n)
      unique == Deduplicated(names)
  IN Payload(<<Identifier(id)>> \o [i \in DOMAIN unique |-> selector(unique[i])])

CreateSymmetricKeyRequest(name, group, bits, mask, v) ==
  Payload(<<ObjectType("SymmetricKey"), SymmetricAttributes(v, name, group, bits, mask)>>)

RegisterSymmetricKeyRequest(name, group, bytes, bits, v) ==
  Payload(<<ObjectType("SymmetricKey"),
            SymmetricAttributes(v, name, group, bits, "Encrypt|Decrypt"),
            SymmetricKey(bytes, bits)>>)

RegisterSecretRequest(name, group, bytes, type, v) ==
  Payload(<<ObjectType("SecretData"), SecretAttributes(v, name, group),
            SecretData(bytes, type)>>)

\* LocateRequest, for max_items and offset within int32_t.
LocateRequest(byGroup, name, type, maxItems, offset, v) ==
  LET filter == <<InVersion(v, "ObjectType", "Object Type", "Enumeration", type)>>
                \o AddIf(name # "", IF byGroup THEN GroupIn(v, name) ELSE NameIn(v, name))
  IN Payload(AddIf(maxItems > 0, Create("MaximumItems", "Integer", maxItems))
             \o AddIf(offset > 0, Create("OffsetItems", "Integer", offset))
             \o IF UseAttributesContainer(v)
                THEN <<CreateStructure("Attributes", filter)>> ELSE filter)

RevokeRequest(id, reason, message, time) ==
  Payload(<<Identifier(id),
            CreateStructure("RevocationReason",
              <<Create("RevocationReasonCode", "Enumeration", reason)>>
              \o AddIf(message # "", Create("RevocationMessage", "TextString", message)))>>
          \o AddIf(time > 0, Create("CompromiseOccurrenceDate", "DateTime", time)))

\* op_discover_versions, op_query
DiscoverVersionsRequest == Payload(<<>>)
QueryRequest ==
  Payload([i \in 1 .. 3 |-> Create("QueryFunction", "Enumeration",
                              <<"Operations", "Objects", "ServerInformation">>[i])])

=============================================================================

------------------------------ MODULE MCBatch ------------------------------
(***************************************************************************)
(* Small instances of Batch.                                               *)
(***************************************************************************)
EXTENDS Batch

MCHeaders ==
  {[DefaultHeader EXCEPT !.maximumResponseSize = 8192],
   [DefaultHeader EXCEPT !.maximumResponseSize = 16, !.password = Pass,
                         !.batchOrderOption = FALSE],
   [DefaultHeader EXCEPT !.version = <<2, 0>>, !.maximumResponseSize = 8192,
                         !.userName = User, !.password = Pass]}

MCBatches ==
  {<<"Get", "Get">>, <<"Get", "Query">>, <<"GetAttributes", "Get">>,
   <<"GetAttributeList", "GetAttributeList">>, <<"Query">>, <<"Create", "Register">>,
   <<"RegisterSecret">>, <<"Locate", "Locate">>, <<"DiscoverVersions", "Query">>,
   <<"Revoke", "Destroy">>}

Of(tags, hows) == [tag : tags, how : hows]

MCRequestFaults ==
  {NoFault, [tag |-> "TimeStamp", how |-> "extended"],
   [tag |-> "UniqueBatchItemId", how |-> "short"]} \cup
  Of({"RequestHeader", "ProtocolVersion", "MaximumResponseSize", "BatchOrderOption",
      "Credential", "CredentialType", "Password", "BatchCount", "BatchItem",
      "Operation", "UniqueBatchItemId", "RequestPayload"}, {"drop", "odd"})

MCFaults ==
  {NoFault, [tag |-> "TimeStamp", how |-> "extended"],
   [tag |-> "ProtocolVersionMinor", how |-> "drop"]} \cup
  Of({"ResponseHeader", "ProtocolVersion", "TimeStamp", "BatchCount", "BatchItem",
      "Operation", "ResultStatus", "ResultReason", "ResponsePayload",
      "UniqueIdentifier", "ObjectType"}, {"drop", "odd"}) \cup
  Of({"UniqueBatchItemId"}, {"odd", "short"})

=============================================================================

--------------------------- MODULE ResponseParser ---------------------------
(***************************************************************************)
(* kmipcore's ResponseParser (response_parser.cpp) with the decoding of    *)
(* response messages it rests on (kmip_protocol.cpp, kmip_responses.hpp),  *)
(* as operators: how a response batch item is found for a batch item of    *)
(* the request, and what the caller gets of it.                            *)
(*                                                                         *)
(* A request is a sequence of items [id, op].  A response message is a     *)
(* record [whole, count, items]: whether its bytes are exactly one TTLV    *)
(* element of the right structure, the declared batch count, and items     *)
(* [id, op, status, reason, payload].                                      *)
(***************************************************************************)
EXTENDS Naturals, Sequences, FiniteSets

CONSTANT Absent  \* an element that is not there

NoId == 0        \* uniqueBatchItemId_ when there is none

\* What a call yields: a payload, or an exception with an error code.
\* "general" is KMIP_REASON_GENERAL_FAILURE, the code of KmipException(msg).
Response(payload) == [ok |-> TRUE, payload |-> payload, code |-> Absent]
Error(code) == [ok |-> FALSE, payload |-> Absent, code |-> code]

LeastOf(S) == CHOOSE m \in S : \A n \in S : m <= n
GreatestOf(S) == CHOOSE m \in S : \A n \in S : m >= n

\* ResponseBatchItem::fromElement: Result Status is required, and so is
\* Result Reason for a failed item.  Operation and id are optional.
ItemParses(item) ==
  /\ item.status # Absent
  /\ item.status = "failed" => item.reason # Absent

\* parseResponse and ResponseMessage::fromElement: fewer items than declared
\* are tolerated, more are not.
Parses(msg) ==
  /\ msg.whole
  /\ \A i \in DOMAIN msg.items : ItemParses(msg.items[i])
  /\ Len(msg.items) <= msg.count

\* Mutant of Find: the position in the request is tried first.
FindByPosition(request, items, b) ==
  LET echoed    == {i \in DOMAIN items : items[i].id = b}
      positions == {i \in DOMAIN request : request[i].id = b}
  IN IF positions # {} /\ GreatestOf(positions) <= Len(items)
       THEN GreatestOf(positions)
     ELSE IF echoed # {} THEN LeastOf(echoed)
     ELSE 0

\* getResponseItemByBatchItemId: the first item that echoes the id, else the
\* item at the position of that id in the request (the last one, if the id
\* occurs twice), else none (0).
Find(request, items, b) ==
  LET echoed    == {i \in DOMAIN items : items[i].id = b}
      positions == {i \in DOMAIN request : request[i].id = b}
  IN IF echoed # {} THEN LeastOf(echoed)
     ELSE IF positions # {} /\ GreatestOf(positions) <= Len(items)
       THEN GreatestOf(positions)
     ELSE 0

\* get_result_reason_or_default
ReasonOf(item) == IF item.reason = Absent THEN "general" ELSE item.reason

\* The operation in the request of the (last) item with that id, or Absent:
\* operationHints_.
OperationHint(request, b) ==
  LET positions == {i \in DOMAIN request : request[i].id = b}
  IN IF positions = {} THEN Absent ELSE request[GreatestOf(positions)].op

\* effectiveOperation: the operation that a failure is reported under.
EffectiveOperation(request, item, b) ==
  IF item.op # Absent THEN item.op
  ELSE IF OperationHint(request, item.id) # Absent THEN OperationHint(request, item.id)
  ELSE OperationHint(request, b)

\* TypedResponseBatchItem::fromBatchItem: expect_operation and
\* require_response_payload.
FromBatchItem(item, op) ==
  IF item.op # op \/ item.payload = Absent THEN Error("general")
  ELSE Response(item.payload)

\* Mutant of Typed: the operation is looked at before the status.
TypedFirst(item, op) ==
  IF item.op = op /\ item.status # "success" THEN Error(ReasonOf(item))
  ELSE FromBatchItem(item, op)

\* ensureSuccess, then fromBatchItem.
Typed(item, op) ==
  IF item.status # "success" THEN Error(ReasonOf(item))
  ELSE FromBatchItem(item, op)

\* getResponseByBatchItemId<op>(b)
GetResponseByBatchItemId(request, msg, b, op) ==
  LET i == Find(request, msg.items, b)
  IN IF ~Parses(msg) \/ i = 0 THEN Error("general")
     ELSE Typed(msg.items[i], op)

\* getOperationResultByBatchItemId(b).resultStatus, or an exception.
GetResultStatus(request, msg, b) ==
  LET i == Find(request, msg.items, b)
  IN IF ~Parses(msg) \/ i = 0 THEN Error("general")
     ELSE Response(msg.items[i].status)

=============================================================================

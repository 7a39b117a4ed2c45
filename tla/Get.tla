--------------------------------- MODULE Get ---------------------------------
(***************************************************************************)
(* op_get_key, op_get_secret and op_get_attributes (KmipClient.cpp): Get   *)
(* and Get Attributes in one batch, the retries for servers that reject    *)
(* an encoding of the attribute selectors, and for an asymmetric key the   *)
(* requests for the formats op_get_key prefers.                            *)
(*                                                                         *)
(* Attempt 1 names the attributes as the protocol version has it, attempt  *)
(* 2 as before KMIP 2.0, attempt 3 asks for all of them.  Error codes are  *)
(* "retry" (Invalid Message, Invalid Field, Feature Not Supported),        *)
(* "other" (any other reason a server gives), and the client's own.        *)
(* Attributes are "State", "Name" (what op_get_* selects besides) and      *)
(* "Extra" (not selected).                                                 *)
(***************************************************************************)
EXTENDS ResponseParser

CONSTANTS
  Calls,    \* [op, v2, wanted]: operation, version_ >= 2.0, selectors given
  Servers   \* the servers, each with the object of the call:
            \* [accepts, refusal, gets, echo, stops, attrs, type, format,
            \*  converts, spki, other]

ObjectTypes == {"symmetric", "private", "public", "secret", "certificate"}
KeyFormats == {"raw", "opaque", "pkcs1", "pkcs8", "x509", "ec", "pkcs12", "transparent"}

ASSUME GetAssumption ==
  /\ Calls \subseteq [op : {"key", "secret", "attributes"}, v2 : BOOLEAN, wanted : BOOLEAN]
  /\ Servers \subseteq
       [accepts : SUBSET {"typed", "names", "all"}, refusal : {"retry", "other"},
        gets : BOOLEAN, echo : BOOLEAN, stops : BOOLEAN,
        attrs : SUBSET {"State", "Name", "Extra"}, type : ObjectTypes,
        format : KeyFormats, converts : SUBSET KeyFormats, spki : BOOLEAN, other : BOOLEAN]
  /\ Absent \notin {"success", "failed", "retry", "other"}
  /\ Absent \notin [type : ObjectTypes, format : KeyFormats, spki : BOOLEAN]
  /\ \A A \in SUBSET {"State", "Name", "Extra"} : A # Absent

VARIABLES
  call, server,  \* fixed
  pc,
  attempt,       \* 1, 2 or 3: which of the three requests
  got,           \* get_response: the object of the plain Get
  tried,         \* index into the preferred formats of the next request
  result,        \* the key or secret returned
  attributes,    \* the names of the attributes returned
  io             \* history: an exchange failed, or a response did not parse

vars == <<call, server, pc, attempt, got, tried, result, attributes, io>>

Init ==
  /\ call \in Calls /\ server \in Servers
  /\ pc = "execute" /\ attempt = 1 /\ got = Absent /\ tried = 0
  /\ result = Absent /\ attributes = {} /\ io = FALSE

-----------------------------------------------------------------------------
(* Requests and the server *)

\* How the selectors are encoded in this attempt.
Encoding ==
  IF ~call.wanted \/ attempt = 3 THEN "all"
  ELSE IF call.v2 /\ attempt = 1 THEN "typed"
  ELSE "names"

Request ==
  LET ops == IF call.op = "attributes" THEN <<"attributes">> ELSE <<"get", "attributes">>
  IN [i \in DOMAIN ops |-> [id |-> i, op |-> ops[i]]]

AttributesItem == Len(Request)

Object(format) ==
  [type |-> server.type, format |-> format,
   spki |-> format = "x509" \/ (format = "pkcs8" /\ server.spki)]

Answer(id, op, ok, payload) ==
  [id |-> IF server.echo THEN id ELSE NoId,
   op |-> op,
   status |-> IF ok THEN "success" ELSE "failed",
   reason |-> IF ok THEN Absent ELSE server.refusal,
   payload |-> IF ok THEN payload ELSE Absent]

\* The response to a batch: the server may stop at a failed Get.
Batched ==
  LET attrs == Answer(AttributesItem, "attributes", Encoding \in server.accepts,
                      IF Encoding = "all" THEN server.attrs
                      ELSE server.attrs \ {"Extra"})
      get   == Answer(1, "get", server.gets, Object(server.format))
      items == IF call.op = "attributes" THEN <<attrs>>
               ELSE IF server.stops /\ ~server.gets THEN <<get>>
               ELSE <<get, attrs>>
  IN [whole |-> TRUE, count |-> Len(Request), items |-> items]

\* The response to Get with a Key Format Type: converted, refused, or in the
\* format the server has.
InFormat(format) ==
  [whole |-> TRUE, count |-> 1,
   items |-> <<IF format \in server.converts \cup {server.format}
               THEN Answer(1, "get", TRUE, Object(format))
               ELSE Answer(1, "get", server.other, Object(server.format))>>]

-----------------------------------------------------------------------------
(* Key formats *)

\* preferred_key_formats
PreferredKeyFormats(type) ==
  CASE type = "private" -> <<"pkcs8">>
    [] type = "public"  -> <<"x509", "pkcs8">>
    [] OTHER            -> <<>>

\* Mutant of InPreferredFormat: the label is changed unseen.
InPreferredFormatUnseen(key) ==
  IF key.type = "public" /\ key.format = "pkcs8"
  THEN [key EXCEPT !.format = "x509"] ELSE key

\* in_preferred_format: Absent is the null pointer.
InPreferredFormat(key) ==
  IF key.type = "public" /\ key.format = "pkcs8"
  THEN IF key.spki THEN [key EXCEPT !.format = "x509"] ELSE Absent
  ELSE key

\* KeyParser::parseGetKeyResponse: only keys in bytes, a symmetric one raw.
KeyParses(object) ==
  \/ object.type = "symmetric" /\ object.format = "raw"
  \/ object.type \in {"private", "public"} /\ object.format # "transparent"

\* KeyParser::parseGetSecretResponse
SecretParses(object) == object.type = "secret" /\ object.format \in {"raw", "opaque"}

-----------------------------------------------------------------------------
(* The client *)

\* Mutant of Caught: no third attempt.
CaughtOnce(code) ==
  LET again == code = "retry" /\ attempt = 1 /\ call.v2
  IN /\ pc' = IF again THEN "execute" ELSE "thrown"
     /\ attempt' = IF again THEN attempt + 1 ELSE attempt
     /\ got' = Absent /\ tried' = 0
     /\ UNCHANGED <<call, server, result, attributes>>

\* An exception with this code in the attempt under way: the next attempt,
\* or the operation throws.
Caught(code) ==
  LET again == /\ code = "retry"
               /\ \/ attempt = 1 /\ call.v2
                  \/ attempt = 2 /\ call.wanted
  IN /\ pc' = IF again THEN "execute" ELSE "thrown"
     /\ attempt' = IF again THEN attempt + 1 ELSE attempt
     /\ got' = Absent /\ tried' = 0
     /\ UNCHANGED <<call, server, result, attributes>>

Return(object) ==
  /\ pc' = "returned" /\ result' = object
  /\ UNCHANGED <<call, server, attempt, got, tried, attributes, io>>

\* The batch is exchanged and its response read: the Get item (and the
\* secret) before the Get Attributes item, then the check for State.
Execute ==
  /\ pc = "execute"
  /\ LET get      == GetResponseByBatchItemId(Request, Batched, 1, "get")
         attrs    == GetResponseByBatchItemId(Request, Batched, AttributesItem, "attributes")
         hasGet   == call.op # "attributes"
         noSecret == call.op = "secret" /\ get.ok /\ ~SecretParses(get.payload)
         noState  == /\ call.op = "key" \/ (call.op = "secret" /\ call.wanted)
                     /\ "State" \notin attrs.payload
     IN \/ hasGet /\ ~get.ok /\ Caught(get.code) /\ UNCHANGED io
        \/ hasGet /\ noSecret /\ Caught("internal") /\ UNCHANGED io
        \/ /\ hasGet => get.ok /\ ~noSecret
           /\ ~attrs.ok /\ Caught(attrs.code) /\ UNCHANGED io
        \/ /\ hasGet => get.ok /\ ~noSecret
           /\ attrs.ok
           /\ \/ noState /\ Caught("general") /\ UNCHANGED io
              \/ /\ ~noState
                 /\ attributes' = IF call.op = "secret" /\ call.wanted
                                  THEN attrs.payload \cap {"State", "Name"}
                                  ELSE attrs.payload
                 /\ got' = IF hasGet THEN get.payload ELSE Absent
                 /\ pc' = IF call.op = "key" THEN "format" ELSE "returned"
                 /\ result' = IF call.op = "secret" THEN get.payload ELSE Absent
                 /\ UNCHANGED <<call, server, attempt, tried, io>>

\* parse(response): what the plain Get returned, in the server's own format.
ParsePlain ==
  \/ KeyParses(got) /\ Return(got)
  \/ ~KeyParses(got) /\ Caught("internal") /\ UNCHANGED io

\* key_from_get_response before its loop.
KeyFromGetResponse ==
  /\ pc = "format"
  /\ LET formats == PreferredKeyFormats(got.type)
         usable  == /\ \E i \in DOMAIN formats : formats[i] = got.format
                    /\ InPreferredFormat(got) # Absent
     IN \/ formats = <<>> /\ ParsePlain
        \/ formats # <<>> /\ usable /\ Return(InPreferredFormat(got))
        \/ /\ formats # <<>> /\ ~usable
           /\ pc' = "refetch" /\ tried' = 1
           /\ UNCHANGED <<call, server, attempt, got, result, attributes, io>>

\* Mutant of Refetch: a refusal is thrown.
RefetchThrows ==
  /\ pc = "refetch"
  /\ LET formats == PreferredKeyFormats(got.type)
         request == <<[id |-> 1, op |-> "get"]>>
         key     == GetResponseByBatchItemId(request, InFormat(formats[tried]), 1, "get")
     IN \/ ~key.ok /\ Caught(key.code) /\ UNCHANGED io
        \/ key.ok /\ Return(key.payload)

\* Mutant of Refetch: only the first format is asked for.
RefetchOnce ==
  /\ pc = "refetch"
  /\ LET formats == PreferredKeyFormats(got.type)
         request == <<[id |-> 1, op |-> "get"]>>
         key     == GetResponseByBatchItemId(request, InFormat(formats[tried]), 1, "get")
     IN \/ key.ok /\ key.payload.format = formats[tried] /\ Return(key.payload)
        \/ ~(key.ok /\ key.payload.format = formats[tried]) /\ ParsePlain

\* One iteration of its loop; after the last one the plain Get is kept.
Refetch ==
  /\ pc = "refetch"
  /\ LET formats == PreferredKeyFormats(got.type)
         format  == formats[tried]
         request == <<[id |-> 1, op |-> "get"]>>
         status  == GetResultStatus(request, InFormat(format), 1)
         key     == GetResponseByBatchItemId(request, InFormat(format), 1, "get")
         usable  == /\ status.payload = "success"
                    /\ key.payload.format = format
                    /\ InPreferredFormat(key.payload) # Absent
     IN \/ usable /\ Return(InPreferredFormat(key.payload))
        \/ /\ ~usable /\ tried < Len(formats)
           /\ tried' = tried + 1
           /\ UNCHANGED <<call, server, pc, attempt, got, result, attributes, io>>
        \/ ~usable /\ tried = Len(formats) /\ ParsePlain

\* do_exchange throws, or the response is malformed.
ExchangeFails ==
  /\ pc \in {"execute", "refetch"}
  /\ io' = TRUE
  /\ \E code \in {"io", "general", "internal"} : Caught(code)

Ended == pc \in {"returned", "thrown"} /\ UNCHANGED vars

Next == Execute \/ KeyFromGetResponse \/ Refetch \/ ExchangeFails \/ Ended

Spec == Init /\ [][Next]_vars

-----------------------------------------------------------------------------
(* Properties *)

\* The encodings of Get Attributes that the retries may come to.
Ladder ==
  IF ~call.wanted THEN {"all"}
  ELSE IF ~call.v2 THEN {"names"}
  ELSE IF server.refusal # "retry" THEN {"typed"}
  ELSE {"typed", "names", "all"}

Settles ==
  /\ Ladder \cap server.accepts # {}
  /\ call.op # "attributes" => server.gets
  /\ (call.op = "key" \/ (call.op = "secret" /\ call.wanted)) => "State" \in server.attrs
  /\ call.op = "secret" => SecretParses(Object(server.format))

\* A server that accepts any of the encodings, and says why it rejects the
\* others, is served: without an I/O error the operation fails before it has
\* the attributes only if the server rejects them all, refuses the Get, or
\* has no State; whether it echoes batch item ids or stops at a failed item.
RetriesFindEncoding ==
  pc = "thrown" /\ got = Absent /\ ~io /\ attributes = {} => ~Settles

\* The formats in which op_get_key can have the key.
Usable(format) ==
  \/ server.type = "private" /\ format = "pkcs8"
  \/ server.type = "public" /\ format = "x509"
  \/ server.type = "public" /\ format = "pkcs8" /\ server.spki

\* The documentation of op_get_key: an asymmetric key comes back as PKCS#8 or
\* X.509 whenever the server has or makes it in that format, the one under
\* the PKCS#8 label included, whichever format it is asked for first.
PreferredIfPossible ==
  pc = "returned" /\ call.op = "key"
    /\ (\E f \in server.converts \cup {server.format} : Usable(f)) =>
    result.format = PreferredKeyFormats(server.type)[1]

\* What is returned as X.509 is a SubjectPublicKeyInfo.
LabelTruthful ==
  pc = "returned" /\ call.op = "key" /\ result.type = "public"
    /\ result.format = "x509" => result.spki

\* A key that the plain Get delivered in bytes is never lost to a server that
\* refuses or botches the conversion.
NoWorseThanPlain ==
  pc = "thrown" /\ ~io /\ call.op = "key" /\ Settles =>
    ~KeyParses(Object(server.format))

\* The comment in op_get_key: the retries for Get Attributes "must neither
\* see nor repeat" the requests for the preferred formats, whatever the
\* server answers to these.
RefetchNotRetried == [][pc = "refetch" => attempt' = attempt]_vars

-----------------------------------------------------------------------------
(* The inductive invariant *)

Types ==
  /\ call \in Calls /\ server \in Servers
  /\ pc \in {"execute", "format", "refetch", "returned", "thrown"}
  /\ attempt \in 1 .. 3 /\ io \in BOOLEAN

\* A server that an encoding would satisfy is asked again only because it
\* rejected, with a reason to retry, the encodings tried before.
Climbing ==
  pc = "execute" =>
    /\ attributes = {}
    /\ Settles /\ attempt > 1 =>
         /\ call.v2 /\ call.wanted /\ server.refusal = "retry"
         /\ "typed" \notin server.accepts
         /\ attempt = 3 => "names" \notin server.accepts

\* op_get_key has the State and the key as the server has it, and it asks
\* for a preferred format when no format before it was to be had.
Fetching ==
  /\ pc \in {"format", "refetch"} =>
       call.op = "key" /\ "State" \in attributes /\ got = Object(server.format)
  /\ pc = "refetch" =>
       /\ server.type \in {"private", "public"} /\ ~Usable(server.format)
       /\ \/ tried = 1
          \/ tried = 2 /\ server.type = "public" /\ "x509" \notin server.converts

\* What the operation ends with.
Outcome ==
  /\ pc = "returned" /\ call.op = "key" =>
       /\ result.type = "public" /\ result.format = "x509" => result.spki
       /\ (\E f \in server.converts \cup {server.format} : Usable(f)) =>
            result.format = PreferredKeyFormats(server.type)[1]
  /\ pc = "thrown" /\ ~io /\ Settles =>
       call.op = "key" /\ "State" \in attributes /\ ~KeyParses(Object(server.format))

GetInv == Types /\ Climbing /\ Fetching /\ Outcome

=============================================================================

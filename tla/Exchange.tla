------------------------------ MODULE Exchange ------------------------------
(***************************************************************************)
(* IOUtils::do_exchange (kmipclient/src/IOUtils.cpp) over a NetClient: one *)
(* request is sent, one response is read, and an I/O failure closes the    *)
(* connection.  The server answers the requests of a connection in order,  *)
(* whenever it likes: also after the client has given up waiting.          *)
(*                                                                         *)
(* A message is a sequence of bytes; a byte is known by the request it     *)
(* belongs to, its position and the length field of its message, so that   *)
(* bytes of another response, or bytes read from the wrong place on, can   *)
(* be told apart.  connect() installs a session or throws (NetClient).     *)
(***************************************************************************)
EXTENDS Integers, Sequences

CONSTANTS
  MaxRequests,  \* bound: exchanges in a behaviour
  RequestLens,  \* sizes of a serialized request
  HeaderLen,    \* KMIP_MSG_LENGTH_BYTES
  Lengths,      \* length fields a server may send
  Limit         \* effective_limit of receive_message

VARIABLES
  connected,   \* m_isConnected
  pc,          \* stage of do_exchange, "idle" outside
  req,         \* number of the current (or last) request
  unsent,      \* dlen - total_sent of IOUtils::send
  buf,         \* bytes read so far of the response
  length,      \* length field of the response
  result,      \* how the last exchange ended
  pending,     \* requests that the server has and has not answered
  inbox,       \* bytes the server has sent and the client has not read
  open,        \* the server has not closed the connection
  abandoned,   \* history: an exchange on this connection was left by an
               \* exception other than KmipIOException
  hasTimeout   \* the session has I/O timeouts: only read here

local == <<pc, req, unsent, buf, length, result>>
link == <<connected, pending, inbox, open, abandoned>>
vars == <<local, link>>

Size(n) == HeaderLen + (IF n < 0 THEN 0 ELSE n)
Message(r, n) == [i \in 1 .. Size(n) |-> [req |-> r, pos |-> i, len |-> n]]
Drop(s, k) == SubSeq(s, k + 1, Len(s))

Init ==
  /\ pc = "idle" /\ req = 0 /\ unsent = 0 /\ buf = <<>> /\ length = 0
  /\ result = [req |-> 0, ok |-> FALSE, clean |-> TRUE, bytes |-> <<>>]
  /\ connected = FALSE /\ pending = <<>> /\ inbox = <<>> /\ open = FALSE
  /\ abandoned = FALSE

-----------------------------------------------------------------------------
(* The transport *)

\* connect() installs a session; whatever was on the previous one is gone.
NewSession ==
  /\ connected' = TRUE /\ open' = TRUE
  /\ pending' = <<>> /\ inbox' = <<>> /\ abandoned' = FALSE

\* close(): the server's late answers have nowhere to go.
DropSession ==
  /\ connected' = FALSE /\ open' = FALSE
  /\ pending' = <<>> /\ inbox' = <<>> /\ abandoned' = FALSE

\* The exchange ends; its locals die.
Leave(ok) ==
  /\ pc' = "idle" /\ unsent' = 0 /\ buf' = <<>> /\ length' = 0
  /\ result' = [req |-> req, ok |-> ok, clean |-> ~abandoned,
                bytes |-> IF ok THEN buf ELSE <<>>]
  /\ UNCHANGED req

\* catch (const KmipIOException &): close, rethrow.
Fail == Leave(FALSE) /\ DropSession

-----------------------------------------------------------------------------
(* The client *)

\* do_exchange is called with a serialized request.
Start ==
  /\ pc = "idle" /\ req < MaxRequests
  /\ pc' = "sending" /\ req' = req + 1
  /\ unsent' \in RequestLens
  /\ UNCHANGED <<buf, length, result, link>>

\* IOUtils::send refuses an empty request (or one whose size is negative as
\* an int).
SendNothing == pc = "sending" /\ unsent <= 0 /\ Fail

\* checkConnected() of send or recv finds no session; connect() follows.
Disconnected ==
  /\ pc \in {"sending", "header", "body"}
  /\ ~connected
  /\ pc = "sending" => unsent > 0

\* One net_client.send() of the loop; the last one completes the request.
Send ==
  /\ pc = "sending" /\ connected
  /\ \E sent \in 1 .. unsent :
       /\ unsent' = unsent - sent
       /\ IF sent = unsent
          THEN /\ pc' = "header"
               /\ pending' = IF open THEN Append(pending, req) ELSE pending
          ELSE UNCHANGED <<pc, pending>>
  /\ UNCHANGED <<req, buf, length, result, connected, inbox, open, abandoned>>

Expected == IF pc = "header" THEN HeaderLen ELSE HeaderLen + length

\* One net_client.recv() of read_exact.
Recv ==
  /\ pc \in {"header", "body"} /\ connected
  /\ \E k \in 1 .. Len(inbox) :
       /\ k <= Expected - Len(buf)
       /\ buf' = buf \o SubSeq(inbox, 1, k)
       /\ inbox' = Drop(inbox, k)
  /\ UNCHANGED <<pc, req, unsent, length, result, connected, pending, open, abandoned>>

\* recv() returns 0: the server has closed and everything has been read.
RecvEof ==
  /\ pc \in {"header", "body"} /\ connected
  /\ Len(buf) < Expected
  /\ ~open /\ inbox = <<>>
  /\ Fail

\* Mutant of TimeOut: the connection stays open.
TimeOutKeepsConnection ==
  /\ hasTimeout
  /\ pc \in {"sending", "header", "body"} /\ connected
  /\ pc = "sending" => unsent > 0
  /\ pc # "sending" => Len(buf) < Expected
  /\ Leave(FALSE) /\ UNCHANGED link

\* send() or recv() throws "timed out": SO_SNDTIMEO or SO_RCVTIMEO ran out,
\* the bytes still being on their way.
TimeOut ==
  /\ hasTimeout
  /\ pc \in {"sending", "header", "body"} /\ connected
  /\ pc = "sending" => unsent > 0
  /\ pc # "sending" => Len(buf) < Expected
  /\ Fail

\* send() or recv() returns -1.
IoError ==
  /\ pc \in {"sending", "header", "body"} /\ connected
  /\ pc = "sending" => unsent > 0
  /\ pc # "sending" => Len(buf) < Expected
  /\ Fail

\* read_int32_be of the header: the length field of a message that starts at
\* buf[1], anything when the bytes are not the start of a message.
LengthField ==
  IF buf = SubSeq(Message(buf[1].req, buf[1].len), 1, HeaderLen)
  THEN {buf[1].len} ELSE Lengths

\* Mutant of ParseHeader: a refused length is not a KmipIOException.
ParseHeaderKeepsConnection ==
  /\ pc = "header" /\ Len(buf) = HeaderLen
  /\ \E n \in LengthField :
       \/ (n < 0 \/ n > Limit) /\ Leave(FALSE) /\ UNCHANGED link
       \/ /\ 0 <= n /\ n <= Limit
          /\ length' = n
          /\ pc' = "body"
          /\ UNCHANGED <<req, unsent, buf, result, link>>

\* receive_message between its two reads.
ParseHeader ==
  /\ pc = "header" /\ Len(buf) = HeaderLen
  /\ \E n \in LengthField :
       \/ (n < 0 \/ n > Limit) /\ Fail
       \/ /\ 0 <= n /\ n <= Limit
          /\ length' = n
          /\ pc' = "body"
          /\ UNCHANGED <<req, unsent, buf, result, link>>
       \/ \* the allocation of the response throws std::bad_alloc, which
          \* do_exchange does not catch
          /\ 0 < n /\ n <= Limit
          /\ Leave(FALSE)
          /\ abandoned' = TRUE
          /\ UNCHANGED <<connected, pending, inbox, open>>

\* do_exchange returns the response.
Accept ==
  /\ pc = "body" /\ Len(buf) = HeaderLen + length
  /\ Leave(TRUE)
  /\ UNCHANGED link

-----------------------------------------------------------------------------
(* The server *)

Answer ==
  /\ open /\ pending # <<>>
  /\ \E n \in Lengths : inbox' = inbox \o Message(Head(pending), n)
  /\ pending' = Tail(pending)
  /\ UNCHANGED <<local, connected, open, abandoned>>

Hangup ==
  /\ open
  /\ open' = FALSE
  /\ pending' = <<>>
  /\ UNCHANGED <<local, connected, inbox, abandoned>>

=============================================================================

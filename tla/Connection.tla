----------------------------- MODULE Connection -----------------------------
(***************************************************************************)
(* A connection in use: IOUtils::do_exchange (module Exchange) over        *)
(* NetClientOpenSSL (module NetClient) against a server.  The two share    *)
(* m_isConnected and bio_: send and recv connect when there is no session, *)
(* an I/O failure closes it, and the timeouts that connect() sets on the   *)
(* socket are what ends a read from a silent server.  One thread uses the  *)
(* connection, so no exchange goes on inside connect().                    *)
(***************************************************************************)
EXTENDS Integers, Sequences

CONSTANTS
  MaxRequests, RequestLens, HeaderLen, Lengths, Limit,  \* see Exchange
  Timeouts, Hosts, None                                 \* see NetClient

ASSUME ConnectionAssumption ==
  /\ MaxRequests \in Nat
  /\ RequestLens \subseteq Int
  /\ HeaderLen \in Nat \ {0}
  /\ Lengths \subseteq Int
  /\ Limit \in Nat
  /\ Timeouts \subseteq Int
  /\ Hosts \subseteq {"dns", "ip"}

VARIABLES
  connected,                                         \* m_isConnected
  pc, req, unsent, buf, length, result,              \* do_exchange
  pending, inbox, open, abandoned,                   \* the link and the server
  m_host, m_timeout_ms, m_tls_verification,          \* options of NetClient
  bio, stage, new_bio, expired                       \* connect()

X == INSTANCE Exchange WITH hasTimeout <- bio # None /\ bio.timeout
N == INSTANCE NetClient WITH m_isConnected <- connected, pc <- stage

\* The null pointer is no session.
ASSUME NoneAssumption == None \notin N!Sessions

connecting == <<m_host, m_timeout_ms, m_tls_verification, stage, new_bio, expired>>
locals == <<pc, req, unsent, buf, length, result>>
exchange == <<locals, connected, pending, inbox, open, abandoned>>
vars == <<exchange, connecting, bio>>

Init == X!Init /\ N!Init

\* The application changes the TLS options, connects or closes.
SetTlsVerification == pc = "idle" /\ N!SetTlsVerification /\ UNCHANGED exchange
Connect == pc = "idle" /\ N!Connect /\ UNCHANGED exchange
Close == pc = "idle" /\ N!Close /\ X!DropSession /\ UNCHANGED locals

\* checkConnected() calls connect().
Reconnect == X!Disconnected /\ N!Connect /\ UNCHANGED exchange

\* A stage of connect(); its end; an exception out of it, which in an
\* exchange is caught by do_exchange.
Establish ==
  /\ N!PrepareContext \/ N!PrepareBio \/ N!DoConnect \/ N!WaitForBioRetry
  /\ UNCHANGED exchange
Install == N!Finish /\ X!NewSession /\ UNCHANGED locals
Throw ==
  /\ N!Throw
  /\ IF pc = "idle" THEN UNCHANGED exchange ELSE X!Fail

\* An exchange begins, goes on, or meets an error; what closes the session
\* frees bio_.
KeepBio == bio' = (IF connected' THEN bio ELSE None) /\ UNCHANGED connecting
Start == stage = "idle" /\ X!Start /\ KeepBio
Exchange ==
  /\ stage = "idle"
  /\ \/ X!SendNothing \/ X!Send \/ X!Recv \/ X!RecvEof \/ X!TimeOut
     \/ X!ParseHeader \/ X!Accept
  /\ KeepBio
IoError == stage = "idle" /\ X!IoError /\ KeepBio

Server == (X!Answer \/ X!Hangup) /\ UNCHANGED <<connecting, bio>>

Tick == N!Tick /\ UNCHANGED exchange

\* What a call that is under way does on its own.
Proceed == Reconnect \/ Establish \/ Install \/ Throw \/ Exchange

Next ==
  \/ SetTlsVerification \/ Connect \/ Close \/ Start \/ Proceed \/ IoError
  \/ Server \/ Tick

Spec == Init /\ [][Next]_vars

\* A thread inside a call keeps running (a read that a timeout bounds returns)
\* and time passes; nothing is assumed of the server.
FairSpec == Spec /\ WF_vars(Proceed) /\ WF_vars(Tick)

-----------------------------------------------------------------------------
(* The inductive invariant behind the properties *)

Bytes == [req : Nat, pos : Nat, len : Int]

Types ==
  /\ connected \in BOOLEAN /\ open \in BOOLEAN /\ abandoned \in BOOLEAN
  /\ pc \in {"idle", "sending", "header", "body"}
  /\ req \in Nat /\ (pc # "idle" => req > 0)
  /\ unsent \in Int /\ length \in Int
  /\ buf \in Seq(Bytes) /\ inbox \in Seq(Bytes) /\ pending \in Seq(Nat)
  /\ m_timeout_ms \in Int /\ m_tls_verification \in N!Options
  /\ stage \in {"idle", "context", "bio", "handshake", "retry", "finish"}
  /\ new_bio \in N!Sessions \cup {None} /\ bio \in N!Sessions \cup {None}

\* connect(): the session being built was asked for with the options that
\* still hold, and one whose handshake is done passed the checks asked for.
\* A thread that awaits a response does so on the session it sent on, and
\* an exchange connects only where there is no session.
ConnectInv ==
  /\ stage \notin {"idle", "context"} =>
       (m_tls_verification.hostname => m_tls_verification.peer)
  /\ stage \in {"handshake", "retry", "finish"} =>
       /\ new_bio \in N!Sessions /\ new_bio.asked = m_tls_verification
       /\ new_bio.check = N!PeerCheck
  /\ stage = "finish" => N!Acceptable(new_bio.check, new_bio.cert)
  /\ pc \in {"header", "body"} => connected /\ stage = "idle"
  /\ pc # "idle" /\ stage # "idle" => ~connected

\* The response to the current request, with length field n, is on its way:
\* its first bytes are in buf, and the rest is all there is in the inbox.
Arriving(n) ==
  /\ Len(buf) + Len(inbox) = X!Size(n)
  /\ \A i \in 1 .. Len(buf) : buf[i] = [req |-> req, pos |-> i, len |-> n]
  /\ \A i \in 1 .. Len(inbox) :
       inbox[i] = [req |-> req, pos |-> Len(buf) + i, len |-> n]
  /\ pc = "header" => Len(buf) <= HeaderLen
  /\ pc = "body" => n >= 0 /\ length = n

\* Unless std::bad_alloc left the connection with a response unread, there
\* is nothing on it between exchanges, and in one at most what belongs to it.
SyncInv ==
  /\ pc \in {"idle", "sending"} => buf = <<>>
  /\ ~connected => ~abandoned
  /\ connected /\ ~abandoned =>
       IF pc \in {"idle", "sending"} THEN inbox = <<>> /\ pending = <<>>
       ELSE \/ /\ pc = "header" /\ buf = <<>> /\ inbox = <<>>
               /\ pending \in {<<>>, <<req>>}
            \/ pending = <<>> /\ \E n \in Lengths : Arriving(n)

-----------------------------------------------------------------------------
(* Properties *)

\* m_isConnected, which checkConnected() and the pool read, says exactly
\* whether bio_ may be dereferenced: while a connect() is under way on top of
\* a live session, after it throws at any stage, in an exchange or not, after
\* a failed exchange and after close().
FlagMatchesSession == connected <=> bio # None

\* The session in use is fit for send() and recv(): it blocks, it has the
\* I/O timeouts when a timeout is configured (so that a silent server cannot
\* stall a read for ever), and its peer passed the checks that were asked
\* for when it was established, whatever set_tls_verification() was given
\* since.
SessionReady ==
  connected =>
    /\ bio.blocking
    /\ m_timeout_ms > 0 => bio.timeout
    /\ bio.asked.peer => bio.cert \in {"trusted", "matching"}
    /\ bio.asked.hostname => bio.asked.peer /\ bio.cert = "matching"

\* A connection that is_connected() reports open between two exchanges, and
\* that return_slot therefore puts back into the pool, has no unread bytes
\* and no unanswered request on it, unless std::bad_alloc left it so.
ReusableInSync ==
  pc = "idle" /\ connected /\ ~abandoned => inbox = <<>> /\ pending = <<>>

\* All of it is inductive only together: what is read is the response to
\* the request because nothing else was on the session when it was sent.
ConnectionInv == Types /\ ConnectInv /\ SyncInv /\ FlagMatchesSession /\ SessionReady

\* The refinement mapping to module Session.
linkState == IF ~connected THEN "closed" ELSE IF abandoned THEN "spoiled" ELSE "open"
callState == CASE pc = "idle" -> "none" [] pc = "sending" -> "started" [] OTHER -> "sent"
lastOutcome ==
  IF result.req = 0 THEN "none" ELSE IF ~result.ok THEN "failed"
  ELSE IF \E n \in Lengths : result.bytes = X!Message(result.req, n)
  THEN "own" ELSE "other"

S == INSTANCE Session WITH link <- linkState, call <- callState, outcome <- lastOutcome

\* Exchange and NetClient together keep the promise of module Session: the
\* bytes that do_exchange returns are the complete response to the request of
\* this very call, not a late answer to one that timed out nor the rest of a
\* message left unread; a failure closes the session; and recv never waits on
\* a fresh connection for an answer to what was sent on another.
ImplementsSession == S!Spec

\* With a timeout configured, every connect() and every exchange, one that
\* reconnects included, returns or throws: however often the handshake asks
\* to be retried and whatever the server does or does not send.
CallsEnd ==
  (m_timeout_ms > 0 /\ ~(pc = "idle" /\ stage = "idle")) ~> (pc = "idle" /\ stage = "idle")

=============================================================================

-------------------------- MODULE ConnectionProofs --------------------------
(***************************************************************************)
(* Proofs about Connection, for any number and size of requests, any       *)
(* header size, limit and length fields, and any timeouts and hosts.       *)
(***************************************************************************)
EXTENDS Connection, SequenceTheorems, TLAPS

\* The empty sequence, as the provers need to be told.
LEMMA NoBytes ==
  <<>> \in Seq(Bytes) /\ <<>> \in Seq(Nat) /\ Len(<<>>) = 0 /\ 0 \in Nat /\ 0 \in Int
  OBVIOUS

\* The initial states satisfy the invariant.
LEMMA InitInv == Init => ConnectionInv
  <1> SUFFICES ASSUME Init PROVE ConnectionInv
    OBVIOUS
  <1>1. m_timeout_ms \in Int
    BY ConnectionAssumption DEF Init, N!Init
  <1>2. Types
    <2>1. connected = FALSE /\ open = FALSE /\ abandoned = FALSE /\ pc = "idle" /\ req = 0
          /\ unsent = 0 /\ length = 0 /\ buf = <<>> /\ inbox = <<>> /\ pending = <<>>
      BY DEF Init, X!Init
    <2>2. m_tls_verification \in N!Options /\ bio = None /\ stage = "idle" /\ new_bio = None
      BY DEF Init, N!Init
    <2> QED BY <1>1, <2>1, <2>2, NoBytes DEF Types
  <1>3. ConnectInv /\ SyncInv /\ FlagMatchesSession /\ SessionReady
    BY DEF Init, X!Init, N!Init, ConnectInv, SyncInv, FlagMatchesSession, SessionReady
  <1> QED BY <1>2, <1>3 DEF ConnectionInv

\* What SyncInv is about.
syncVars == <<connected, abandoned, pc, req, length, buf, inbox, pending>>

\* SyncInv is kept where nothing it is about changes.
LEMMA SyncStutter == SyncInv /\ UNCHANGED syncVars => SyncInv'
  BY DEF SyncInv, Arriving, syncVars, X!Size

\* The steps of connect() and close(), by the application or in an exchange.
LEMMA ConnectSteps ==
  ASSUME ConnectionInv,
         SetTlsVerification \/ Connect \/ Close \/ Reconnect \/ Establish \/ Install \/ Tick
  PROVE  ConnectionInv'
  <1> USE DEF ConnectionInv, exchange, locals
  <1>1. CASE SetTlsVerification
    <2>1. Types' /\ ConnectInv' /\ FlagMatchesSession' /\ SessionReady'
      BY <1>1 DEF SetTlsVerification, N!SetTlsVerification, N!conf, Types, ConnectInv,
                  FlagMatchesSession, SessionReady
    <2>2. SyncInv'
      BY <1>1, SyncStutter DEF SetTlsVerification, syncVars
    <2> QED BY <2>1, <2>2
  <1>2. CASE Connect \/ Reconnect
    <2>1. Types' /\ ConnectInv' /\ FlagMatchesSession' /\ SessionReady'
      BY <1>2 DEF Connect, Reconnect, X!Disconnected, N!Connect, N!conf, Types, ConnectInv,
                  FlagMatchesSession, SessionReady
    <2>2. SyncInv'
      BY <1>2, SyncStutter DEF Connect, Reconnect, syncVars
    <2> QED BY <2>1, <2>2
  <1>3. CASE Close
    <2>1. Types' /\ ConnectInv' /\ FlagMatchesSession' /\ SessionReady'
      BY <1>3, NoBytes DEF Close, N!Close, N!conf, X!DropSession, Types, ConnectInv,
                  FlagMatchesSession, SessionReady
    <2>2. SyncInv'
      BY <1>3 DEF Close, X!DropSession, SyncInv
    <2> QED BY <2>1, <2>2
  <1>4. CASE Establish
    <2>1. SyncInv'
      BY <1>4, SyncStutter DEF Establish, syncVars
    <2>2. CASE N!PrepareContext \/ N!WaitForBioRetry
      <3>1. Types' /\ ConnectInv' /\ FlagMatchesSession' /\ SessionReady'
        BY <1>4, <2>2 DEF Establish, N!PrepareContext, N!WaitForBioRetry, N!conf, Types,
                    ConnectInv, FlagMatchesSession, SessionReady, N!PeerCheck
      <3> QED BY <2>1, <3>1
    <2>3. CASE N!PrepareBio
      <3>1. new_bio' \in N!Sessions
        BY <2>3, SMTT(30) DEF N!PrepareBio, N!Sessions, N!PeerCheck, N!Certificates, Types
      <3>2. Types' /\ ConnectInv' /\ FlagMatchesSession' /\ SessionReady'
        BY <1>4, <2>3, <3>1 DEF Establish, N!PrepareBio, N!conf, Types,
                    ConnectInv, FlagMatchesSession, SessionReady, N!PeerCheck
      <3> QED BY <2>1, <3>2
    <2>4. CASE N!DoConnect
      <3>1. new_bio' \in N!Sessions /\ new_bio'.asked = new_bio.asked
            /\ new_bio'.check = new_bio.check
            /\ (stage' = "finish" => N!Acceptable(new_bio'.check, new_bio'.cert))
        BY <2>4 DEF N!DoConnect, N!Sessions, N!Certificates, ConnectInv, N!Acceptable
      <3>2. Types' /\ ConnectInv' /\ FlagMatchesSession' /\ SessionReady'
        BY <1>4, <2>4, <3>1 DEF Establish, N!DoConnect, N!conf, Types,
                    ConnectInv, FlagMatchesSession, SessionReady, N!PeerCheck, N!Acceptable
      <3> QED BY <2>1, <3>2
    <2> QED BY <1>4, <2>2, <2>3, <2>4 DEF Establish
  <1>5. CASE Install
    <2>1. /\ new_bio \in N!Sessions /\ new_bio.asked = m_tls_verification
          /\ new_bio.check = N!PeerCheck /\ N!Acceptable(new_bio.check, new_bio.cert)
          /\ m_tls_verification.hostname => m_tls_verification.peer
      BY <1>5 DEF Install, N!Finish, ConnectInv
    <2>2. /\ bio' \in N!Sessions /\ bio'.blocking /\ (m_timeout_ms > 0 => bio'.timeout)
          /\ bio'.asked = new_bio.asked /\ bio'.cert = new_bio.cert
      <3>1. bio' = [new_bio EXCEPT !.blocking = TRUE, !.timeout = m_timeout_ms > 0]
        BY <1>5 DEF Install, N!Finish
      <3>2. (m_timeout_ms > 0) \in BOOLEAN
        OBVIOUS
      <3> QED BY <2>1, <3>1, <3>2 DEF N!Sessions
    <2>3. Types' /\ ConnectInv' /\ FlagMatchesSession'
      BY <1>5, <2>2, NoneAssumption, NoBytes DEF Install, N!Finish, N!conf, X!NewSession, Types,
                  ConnectInv, FlagMatchesSession
    <2>4. SessionReady'
      BY <1>5, <2>1, <2>2 DEF Install, N!Finish, N!conf, SessionReady, N!PeerCheck,
                  N!Acceptable, Types, N!Options
    <2>5. SyncInv'
      BY <1>5 DEF Install, N!Finish, X!NewSession, SyncInv, ConnectInv, Types
    <2> QED BY <2>3, <2>4, <2>5
  <1>6. CASE Tick
    <2>1. Types' /\ ConnectInv' /\ FlagMatchesSession' /\ SessionReady'
      BY <1>6 DEF Tick, N!Tick, N!conf, Types, ConnectInv, FlagMatchesSession, SessionReady,
                  N!PeerCheck
    <2>2. SyncInv'
      BY <1>6, SyncStutter DEF Tick, syncVars
    <2> QED BY <2>1, <2>2
  <1> QED BY <1>1, <1>2, <1>3, <1>4, <1>5, <1>6

-----------------------------------------------------------------------------
(* The steps of an exchange *)

\* recv() moves the first k bytes of the inbox to the end of the buffer.
LEMMA Moved ==
  ASSUME NEW T, NEW b \in Seq(T), NEW s \in Seq(T), NEW k \in 1 .. Len(s),
         NEW c, c = b \o SubSeq(s, 1, k),
         NEW r, r = SubSeq(s, k + 1, Len(s))
  PROVE  /\ c \in Seq(T) /\ Len(c) = Len(b) + k
         /\ r \in Seq(T) /\ Len(r) = Len(s) - k
         /\ \A i \in 1 .. Len(b) : c[i] = b[i]
         /\ \A i \in Len(b) + 1 .. Len(c) : c[i] = s[i - Len(b)]
         /\ \A i \in 1 .. Len(r) : r[i] = s[k + i]
  <1> DEFINE f == SubSeq(s, 1, k)
  <1>1. Len(b) \in Nat /\ Len(s) \in Nat /\ k \in Nat /\ 1 <= k /\ k <= Len(s)
    OBVIOUS
  <1>2. f \in Seq(T) /\ Len(f) = k /\ \A i \in 1 .. k : f[i] = s[i]
    BY <1>1
  <1>3. r \in Seq(T) /\ Len(r) = Len(s) - k /\ \A i \in 1 .. Len(s) - k : r[i] = s[k + i]
    BY <1>1
  <1> HIDE DEF f
  <1>4. /\ c \in Seq(T) /\ Len(c) = Len(b) + k
        /\ \A i \in 1 .. Len(b) + k : c[i] = IF i <= Len(b) THEN b[i] ELSE f[i - Len(b)]
    <2>1. c = b \o f
      BY DEF f
    <2> QED BY <1>1, <1>2, <2>1, ConcatProperties, SMTT(30)
  <1>5. \A i \in 1 .. Len(b) : c[i] = b[i]
    BY <1>1, <1>4
  <1>6. \A i \in Len(b) + 1 .. Len(c) : c[i] = s[i - Len(b)]
    <2>1. TAKE i \in Len(b) + 1 .. Len(c)
    <2>2. i \in 1 .. Len(b) + k /\ ~(i <= Len(b)) /\ i - Len(b) \in 1 .. k
      BY <1>1, <1>4
    <2>3. c[i] = f[i - Len(b)]
      BY <1>4, <2>2
    <2> QED BY <1>2, <2>2, <2>3
  <1> QED BY <1>3, <1>4, <1>5, <1>6

\* A response has its size, and its bytes are typed.
LEMMA MessageBytes ==
  ASSUME NEW r \in Nat, NEW n \in Lengths
  PROVE  /\ X!Message(r, n) \in Seq(Bytes) /\ Len(X!Message(r, n)) = X!Size(n)
         /\ X!Size(n) \in Nat /\ X!Size(n) >= HeaderLen
         /\ \A i \in 1 .. X!Size(n) : X!Message(r, n)[i] = [req |-> r, pos |-> i, len |-> n]
  <1>1. n \in Int /\ HeaderLen \in Nat
    BY ConnectionAssumption
  <1>2. X!Size(n) \in Nat /\ X!Size(n) >= HeaderLen
    BY <1>1 DEF X!Size
  <1>3. \A i \in 1 .. X!Size(n) : [req |-> r, pos |-> i, len |-> n] \in Bytes
    BY <1>1, <1>2 DEF Bytes
  <1> QED BY <1>2, <1>3 DEF X!Message

\* A failure that closes the session, also one of connect() in an exchange.
LEMMA FailStep ==
  ASSUME ConnectionInv, X!Fail, bio' = None, stage' = "idle",
         UNCHANGED <<m_timeout_ms, m_tls_verification>>,
         new_bio' \in N!Sessions \cup {None}
  PROVE  ConnectionInv'
  <1>1. /\ pc' = "idle" /\ unsent' = 0 /\ buf' = <<>> /\ length' = 0 /\ req' = req
        /\ connected' = FALSE /\ open' = FALSE /\ abandoned' = FALSE
        /\ pending' = <<>> /\ inbox' = <<>>
    BY DEF X!Fail, X!Leave, X!DropSession
  <1>2. Types'
    BY <1>1, NoBytes DEF ConnectionInv, Types
  <1>3. ConnectInv' /\ SyncInv' /\ FlagMatchesSession' /\ SessionReady'
    BY <1>1 DEF ConnectInv, SyncInv, FlagMatchesSession, SessionReady
  <1> QED BY <1>2, <1>3 DEF ConnectionInv

\* connect() throws, to the application or into an exchange.
LEMMA ThrowStep == ConnectionInv /\ Throw => ConnectionInv'
  <1> SUFFICES ASSUME ConnectionInv, Throw PROVE ConnectionInv'
    OBVIOUS
  <1>1. /\ stage # "idle" /\ stage' = "idle" /\ new_bio' = None
        /\ UNCHANGED <<m_timeout_ms, m_tls_verification, connected, bio>>
    BY DEF Throw, N!Throw, N!conf
  <1>2. CASE pc = "idle"
    <2>1. UNCHANGED exchange
      BY <1>2 DEF Throw
    <2>2. Types' /\ ConnectInv' /\ FlagMatchesSession' /\ SessionReady'
      BY <1>1, <1>2, <2>1 DEF ConnectionInv, exchange, locals, Types, ConnectInv,
                  FlagMatchesSession, SessionReady
    <2>3. SyncInv'
      BY <2>1, SyncStutter DEF ConnectionInv, exchange, locals, syncVars
    <2> QED BY <2>2, <2>3 DEF ConnectionInv
  <1>3. CASE pc # "idle"
    <2>1. X!Fail
      BY <1>3 DEF Throw
    <2>2. bio' = None
      BY <1>1, <1>3 DEF ConnectionInv, ConnectInv, FlagMatchesSession
    <2> QED BY <1>1, <2>1, <2>2, FailStep
  <1> QED BY <1>2, <1>3

\* What a step of an exchange leaves alone, if the session stays.
LEMMA KeepSession ==
  ASSUME ConnectionInv, KeepBio, connected' = connected
  PROVE  FlagMatchesSession' /\ SessionReady' /\ bio' = bio
  <1>1. bio' = bio
    BY DEF ConnectionInv, KeepBio, FlagMatchesSession
  <1> QED BY <1>1 DEF ConnectionInv, KeepBio, connecting, FlagMatchesSession, SessionReady

\* A failing step of an exchange.
LEMMA ExchangeFails == ConnectionInv /\ stage = "idle" /\ X!Fail /\ KeepBio => ConnectionInv'
  <1> SUFFICES ASSUME ConnectionInv, stage = "idle", X!Fail, KeepBio PROVE ConnectionInv'
    OBVIOUS
  <1>1. bio' = None
    BY DEF X!Fail, X!DropSession, KeepBio
  <1>2. UNCHANGED <<m_timeout_ms, m_tls_verification>> /\ stage' = "idle" /\ new_bio' = new_bio
    BY DEF KeepBio, connecting
  <1> QED BY <1>1, <1>2, FailStep DEF ConnectionInv, Types

\* do_exchange begins: what was in sync between exchanges is so in this one.
LEMMA StartStep == ConnectionInv /\ Start => ConnectionInv'
  <1> SUFFICES ASSUME ConnectionInv, Start PROVE ConnectionInv'
    OBVIOUS
  <1>1. /\ stage = "idle" /\ pc = "idle" /\ pc' = "sending" /\ req' = req + 1
        /\ unsent' \in Int
        /\ UNCHANGED <<buf, length, result, connected, pending, inbox, open, abandoned>>
        /\ UNCHANGED connecting
    BY ConnectionAssumption DEF Start, X!Start, X!link, KeepBio
  <1>2. FlagMatchesSession' /\ SessionReady' /\ bio' = bio
    BY <1>1, KeepSession DEF Start
  <1>3. req' \in Nat /\ req' > 0
    BY <1>1 DEF ConnectionInv, Types
  <1>4. Types'
    BY <1>1, <1>2, <1>3 DEF ConnectionInv, Types, connecting
  <1>5. ConnectInv'
    BY <1>1 DEF ConnectionInv, ConnectInv, connecting
  <1>6. SyncInv'
    BY <1>1 DEF ConnectionInv, SyncInv
  <1> QED BY <1>2, <1>4, <1>5, <1>6 DEF ConnectionInv

\* IOUtils::send: the request is the only one the server then has.
LEMMA SendStep == ConnectionInv /\ stage = "idle" /\ X!Send /\ KeepBio => ConnectionInv'
  <1> SUFFICES ASSUME ConnectionInv, stage = "idle", X!Send, KeepBio PROVE ConnectionInv'
    OBVIOUS
  <1>1. PICK sent \in 1 .. unsent :
          /\ unsent' = unsent - sent
          /\ IF sent = unsent
             THEN pc' = "header" /\ pending' = IF open THEN Append(pending, req) ELSE pending
             ELSE UNCHANGED <<pc, pending>>
    BY DEF X!Send
  <1>2. /\ pc = "sending" /\ connected
        /\ UNCHANGED <<req, buf, length, result, connected, inbox, open, abandoned>>
        /\ UNCHANGED connecting
    BY DEF X!Send, KeepBio
  <1>3. FlagMatchesSession' /\ SessionReady' /\ bio' = bio
    BY <1>2, KeepSession
  <1>4. unsent' \in Int /\ pc' \in {"sending", "header"}
    BY <1>1, <1>2 DEF ConnectionInv, Types
  <1>5. pending' \in Seq(Nat)
    <2>1. pending \in Seq(Nat) /\ req \in Nat
      BY DEF ConnectionInv, Types
    <2>2. Append(pending, req) \in Seq(Nat)
      BY <2>1
    <2> QED BY <1>1, <2>1, <2>2, SMTT(30)
  <1>6. Types'
    BY <1>2, <1>3, <1>4, <1>5 DEF ConnectionInv, Types, connecting
  <1>7. ConnectInv'
    BY <1>2, <1>4 DEF ConnectionInv, ConnectInv, connecting
  <1>8. SyncInv'
    <2>1. CASE sent = unsent
      <3>1. pc' = "header" /\ pending' = IF open THEN Append(pending, req) ELSE pending
        BY <1>1, <2>1
      <3>2. SUFFICES ASSUME ~abandoned
                     PROVE  buf' = <<>> /\ inbox' = <<>> /\ pending' \in {<<>>, <<req'>>}
        BY <1>2, <3>1 DEF SyncInv
      <3>3. buf = <<>> /\ inbox = <<>> /\ pending = <<>>
        BY <1>2, <3>2 DEF ConnectionInv, SyncInv
      <3>4. Append(<<>>, req) = <<req>>
        BY DEF ConnectionInv, Types
      <3> QED BY <1>2, <3>1, <3>3, <3>4
    <2>2. CASE sent # unsent
      BY <1>1, <1>2, <2>2 DEF ConnectionInv, SyncInv
    <2> QED BY <2>1, <2>2
  <1> QED BY <1>3, <1>6, <1>7, <1>8 DEF ConnectionInv

\* read_exact: the bytes of the response stay in order, whatever the
\* pieces they are read in.
LEMMA RecvStep == ConnectionInv /\ stage = "idle" /\ X!Recv /\ KeepBio => ConnectionInv'
  <1> SUFFICES ASSUME ConnectionInv, stage = "idle", X!Recv, KeepBio PROVE ConnectionInv'
    OBVIOUS
  <1>1. PICK k \in 1 .. Len(inbox) :
          /\ k <= X!Expected - Len(buf)
          /\ buf' = buf \o SubSeq(inbox, 1, k)
          /\ inbox' = SubSeq(inbox, k + 1, Len(inbox))
    BY DEF X!Recv, X!Drop
  <1>2. /\ pc \in {"header", "body"} /\ connected
        /\ UNCHANGED <<pc, req, unsent, length, result, connected, pending, open, abandoned>>
        /\ UNCHANGED connecting
    BY DEF X!Recv, KeepBio
  <1>3. FlagMatchesSession' /\ SessionReady' /\ bio' = bio
    BY <1>2, KeepSession
  <1>4. buf \in Seq(Bytes) /\ inbox \in Seq(Bytes)
    BY DEF ConnectionInv, Types
  <1>5. /\ buf' \in Seq(Bytes) /\ Len(buf') = Len(buf) + k
        /\ inbox' \in Seq(Bytes) /\ Len(inbox') = Len(inbox) - k
        /\ \A i \in 1 .. Len(buf) : buf'[i] = buf[i]
        /\ \A i \in Len(buf) + 1 .. Len(buf') : buf'[i] = inbox[i - Len(buf)]
        /\ \A i \in 1 .. Len(inbox') : inbox'[i] = inbox[k + i]
    BY <1>1, <1>4, Moved, SMTT(30)
  <1>6. Types'
    BY <1>2, <1>3, <1>5 DEF ConnectionInv, Types, connecting
  <1>7. ConnectInv'
    BY <1>2 DEF ConnectionInv, ConnectInv, connecting
  <1>8. SyncInv'
    <2>1. SUFFICES ASSUME ~abandoned
                   PROVE  pending = <<>> /\ \E n \in Lengths : Arriving(n)'
      BY <1>2 DEF SyncInv, ConnectionInv, Types
    <2>2. inbox # <<>>
      BY <1>1, <1>4
    <2>3. PICK n \in Lengths : pending = <<>> /\ Arriving(n)
      BY <1>2, <2>1, <2>2 DEF ConnectionInv, SyncInv
    <2>4. Len(buf) \in Nat /\ Len(inbox) \in Nat /\ k \in Nat
      BY <1>4
    <2>5. Len(buf') + Len(inbox') = X!Size(n)
      BY <1>5, <2>3, <2>4, SMTT(30) DEF Arriving
    <2>6. \A i \in 1 .. Len(buf') : buf'[i] = [req |-> req, pos |-> i, len |-> n]
      <3> SUFFICES ASSUME NEW i \in 1 .. Len(buf')
                   PROVE  buf'[i] = [req |-> req, pos |-> i, len |-> n]
        BY Zenon
      <3>2. CASE i <= Len(buf)
        <4>1. i \in 1 .. Len(buf)
          BY <2>4, <3>2, SMTT(30)
        <4>2. buf'[i] = buf[i]
          BY <1>5, <4>1
        <4> QED BY <2>3, <4>1, <4>2 DEF Arriving
      <3>3. CASE i > Len(buf)
        <4>1. i - Len(buf) \in 1 .. Len(inbox) /\ Len(buf) + (i - Len(buf)) = i
          BY <1>5, <2>4, <3>3
        <4>2. inbox[i - Len(buf)] = [req |-> req, pos |-> i, len |-> n]
          BY <2>3, <4>1 DEF Arriving
        <4>3. buf'[i] = inbox[i - Len(buf)]
          <5>1. i \in Len(buf) + 1 .. Len(buf')
            BY <2>4, <3>3
          <5> QED BY <1>5, <5>1, SMTT(30)
        <4> QED BY <4>2, <4>3
      <3> QED BY <2>4, <1>5, <3>2, <3>3, SMTT(30)
    <2>7. \A i \in 1 .. Len(inbox') :
            inbox'[i] = [req |-> req, pos |-> Len(buf') + i, len |-> n]
      <3> SUFFICES ASSUME NEW i \in 1 .. Len(inbox')
                   PROVE  inbox'[i] = [req |-> req, pos |-> Len(buf') + i, len |-> n]
        BY Zenon
      <3>2. k + i \in 1 .. Len(inbox) /\ Len(buf) + (k + i) = Len(buf') + i
        BY <1>5, <2>4, SMTT(30)
      <3>3. inbox'[i] = inbox[k + i]
        BY <1>5
      <3> QED BY <2>3, <3>2, <3>3, SMTT(30) DEF Arriving
    <2>8. pc = "header" => Len(buf') <= HeaderLen
      BY <1>1, <1>5, <2>4, ConnectionAssumption, SMTT(30) DEF X!Expected
    <2>9. Arriving(n)'
      BY <1>2, <2>3, <2>5, <2>6, <2>7, <2>8 DEF Arriving, X!Size
    <2> QED BY <2>3, <2>9
  <1> QED BY <1>3, <1>6, <1>7, <1>8 DEF ConnectionInv

\* The length field that is read from a header is a number, and on a
\* connection in sync it is that of the response that is arriving.
LEMMA HeaderRead ==
  ASSUME ConnectionInv, pc = "header", Len(buf) = HeaderLen
  PROVE  /\ X!LengthField \subseteq Int
         /\ ~abandoned => \E n \in Lengths : pending = <<>> /\ Arriving(n) /\ X!LengthField = {n}
  <1>1. /\ buf \in Seq(Bytes) /\ req \in Nat /\ connected
        /\ HeaderLen \in Nat /\ HeaderLen >= 1 /\ Lengths \subseteq Int
    BY ConnectionAssumption DEF ConnectionInv, Types, ConnectInv
  <1>2. buf[1] \in Bytes
    BY <1>1
  <1>3. X!LengthField \subseteq Int
    BY <1>1, <1>2 DEF X!LengthField, Bytes
  <1>4. ASSUME ~abandoned
        PROVE  \E n \in Lengths : pending = <<>> /\ Arriving(n) /\ X!LengthField = {n}
    <2>1. buf # <<>>
      BY <1>1
    <2>2. PICK n \in Lengths : pending = <<>> /\ Arriving(n)
      BY <1>1, <1>4, <2>1 DEF ConnectionInv, SyncInv
    <2>3. \A i \in 1 .. HeaderLen : buf[i] = [req |-> req, pos |-> i, len |-> n]
      BY <2>2 DEF Arriving
    <2>4. buf[1].req = req /\ buf[1].len = n
      BY <1>1, <2>3
    <2>5. buf = SubSeq(X!Message(req, n), 1, HeaderLen)
      <3> DEFINE m == X!Message(req, n)
                 h == SubSeq(m, 1, HeaderLen)
      <3>1. /\ m \in Seq(Bytes) /\ Len(m) = X!Size(n) /\ X!Size(n) \in Nat
            /\ X!Size(n) >= HeaderLen
            /\ \A i \in 1 .. X!Size(n) : m[i] = [req |-> req, pos |-> i, len |-> n]
        BY <1>1, MessageBytes
      <3> HIDE DEF m
      <3>2. h \in Seq(Bytes) /\ Len(h) = HeaderLen /\ \A i \in 1 .. HeaderLen : h[i] = m[i]
        BY <1>1, <3>1
      <3>3. \A i \in 1 .. HeaderLen : m[i] = [req |-> req, pos |-> i, len |-> n]
        BY <1>1, <3>1
      <3> HIDE DEF h
      <3>4. \A i \in 1 .. Len(buf) : buf[i] = h[i]
        BY <2>3, <3>2, <3>3
      <3>5. buf = h
        BY <1>1, <3>2, <3>4, SeqEqual
      <3> QED BY <3>5 DEF h, m
    <2> QED BY <2>2, <2>4, <2>5 DEF X!LengthField
  <1> QED BY <1>3, <1>4

\* receive_message reads the length: it refuses it, goes on to the body, or
\* leaves by std::bad_alloc.
LEMMA ParseStep == ConnectionInv /\ stage = "idle" /\ X!ParseHeader /\ KeepBio => ConnectionInv'
  <1> SUFFICES ASSUME ConnectionInv, stage = "idle", X!ParseHeader, KeepBio
               PROVE  ConnectionInv'
    OBVIOUS
  <1>1. pc = "header" /\ Len(buf) = HeaderLen /\ connected
    BY DEF X!ParseHeader, ConnectionInv, ConnectInv
  <1>2. PICK m \in X!LengthField :
          \/ (m < 0 \/ m > Limit) /\ X!Fail
          \/ /\ 0 <= m /\ m <= Limit /\ length' = m /\ pc' = "body"
             /\ UNCHANGED <<req, unsent, buf, result, X!link>>
          \/ /\ X!Leave(FALSE) /\ abandoned' = TRUE
             /\ UNCHANGED <<connected, pending, inbox, open>>
    BY DEF X!ParseHeader
  <1>3. UNCHANGED connecting
    BY DEF KeepBio
  <1>4. CASE X!Fail
    BY <1>4, ExchangeFails
  <1>5. CASE /\ 0 <= m /\ length' = m /\ pc' = "body"
             /\ UNCHANGED <<req, unsent, buf, result, X!link>>
    <2>1. UNCHANGED <<req, unsent, buf, connected, pending, inbox, open, abandoned>>
      BY <1>5 DEF X!link
    <2>2. FlagMatchesSession' /\ SessionReady' /\ bio' = bio
      BY <2>1, KeepSession
    <2>3. length' \in Int
      BY <1>1, <1>5, HeaderRead
    <2>4. Types'
      BY <1>1, <1>3, <1>5, <2>1, <2>2, <2>3, SMTT(30) DEF ConnectionInv, Types, connecting
    <2>5. ConnectInv'
      BY <1>1, <1>3, <1>5, <2>1 DEF ConnectionInv, ConnectInv, connecting
    <2>6. SyncInv'
      <3>1. SUFFICES ASSUME ~abandoned
                     PROVE  pending' = <<>> /\ \E n \in Lengths : Arriving(n)'
        BY <1>1, <1>5, <2>1 DEF SyncInv, ConnectionInv
      <3>2. PICK n \in Lengths : pending = <<>> /\ Arriving(n) /\ X!LengthField = {n}
        BY <1>1, <3>1, HeaderRead
      <3>3. m = n
        BY <3>2, SMTT(30)
      <3>4. Arriving(n)'
        BY <1>5, <2>1, <3>2, <3>3 DEF Arriving, X!Size
      <3> QED BY <2>1, <3>2, <3>4
    <2> QED BY <2>2, <2>4, <2>5, <2>6 DEF ConnectionInv
  <1>6. CASE /\ X!Leave(FALSE) /\ abandoned' = TRUE
             /\ UNCHANGED <<connected, pending, inbox, open>>
    <2>1. /\ pc' = "idle" /\ unsent' = 0 /\ buf' = <<>> /\ length' = 0 /\ req' = req
          /\ UNCHANGED <<connected, pending, inbox, open>>
      BY <1>6 DEF X!Leave
    <2>2. FlagMatchesSession' /\ SessionReady' /\ bio' = bio
      BY <2>1, KeepSession
    <2>3. Types'
      BY <1>3, <1>6, <2>1, <2>2, NoBytes, SMTT(30) DEF ConnectionInv, Types, connecting
    <2>4. ConnectInv' /\ SyncInv'
      BY <1>1, <1>3, <1>6, <2>1 DEF ConnectionInv, ConnectInv, SyncInv, connecting
    <2> QED BY <2>2, <2>3, <2>4 DEF ConnectionInv
  <1> QED BY <1>2, <1>4, <1>5, <1>6

\* When the last byte of a response has been read on a connection in sync,
\* the buffer is that response and nothing is left.
LEMMA ResponseRead ==
  ASSUME ConnectionInv, pc = "body", Len(buf) = HeaderLen + length, ~abandoned
  PROVE  inbox = <<>> /\ pending = <<>> /\ \E n \in Lengths : buf = X!Message(req, n)
  <1>1. /\ buf \in Seq(Bytes) /\ inbox \in Seq(Bytes) /\ req \in Nat /\ connected
        /\ HeaderLen \in Nat /\ Lengths \subseteq Int
    BY ConnectionAssumption DEF ConnectionInv, Types, ConnectInv
  <1>2. PICK n \in Lengths : pending = <<>> /\ Arriving(n)
    BY <1>1 DEF ConnectionInv, SyncInv
  <1>3. X!Size(n) = HeaderLen + length /\ X!Size(n) \in Nat
    BY <1>1, <1>2 DEF Arriving, X!Size
  <1>4. Len(buf) = X!Size(n) /\ Len(inbox) = 0
    BY <1>1, <1>2, <1>3 DEF Arriving
  <1>5. buf = X!Message(req, n)
    <2> DEFINE m == X!Message(req, n)
    <2>1. /\ m \in Seq(Bytes) /\ Len(m) = X!Size(n)
          /\ \A i \in 1 .. X!Size(n) : m[i] = [req |-> req, pos |-> i, len |-> n]
      BY <1>1, MessageBytes
    <2> HIDE DEF m
    <2>2. \A i \in 1 .. Len(buf) : buf[i] = m[i]
      BY <1>2, <1>4, <2>1 DEF Arriving
    <2>3. buf = m
      BY <1>1, <1>4, <2>1, <2>2, SeqEqual
    <2> QED BY <2>3 DEF m
  <1> QED BY <1>1, <1>2, <1>4, <1>5, EmptySeq

\* do_exchange returns a response and leaves nothing on the connection.
LEMMA AcceptStep == ConnectionInv /\ stage = "idle" /\ X!Accept /\ KeepBio => ConnectionInv'
  <1> SUFFICES ASSUME ConnectionInv, stage = "idle", X!Accept, KeepBio PROVE ConnectionInv'
    OBVIOUS
  <1>1. /\ pc = "body" /\ Len(buf) = HeaderLen + length
        /\ pc' = "idle" /\ unsent' = 0 /\ buf' = <<>> /\ length' = 0 /\ req' = req
        /\ UNCHANGED <<connected, pending, inbox, open, abandoned>>
        /\ UNCHANGED connecting
    BY DEF X!Accept, X!Leave, X!link, KeepBio
  <1>2. FlagMatchesSession' /\ SessionReady' /\ bio' = bio
    BY <1>1, KeepSession
  <1>3. Types'
    BY <1>1, <1>2, NoBytes DEF ConnectionInv, Types, connecting
  <1>4. ConnectInv'
    BY <1>1 DEF ConnectionInv, ConnectInv, connecting
  <1>5. SyncInv'
    <2>1. ~abandoned => inbox = <<>> /\ pending = <<>>
      BY <1>1, ResponseRead
    <2>2. connected
      BY <1>1 DEF ConnectionInv, ConnectInv
    <2> QED BY <1>1, <2>1, <2>2 DEF SyncInv
  <1> QED BY <1>2, <1>3, <1>4, <1>5 DEF ConnectionInv

\* The server answers, or closes the connection, at any time.
LEMMA ServerStep == ConnectionInv /\ Server => ConnectionInv'
  <1> SUFFICES ASSUME ConnectionInv, Server PROVE ConnectionInv'
    OBVIOUS
  <1>1. /\ UNCHANGED <<pc, req, unsent, buf, length, result, connected, abandoned>>
        /\ UNCHANGED connecting /\ bio' = bio
    BY DEF Server, X!Answer, X!Hangup, X!local
  <1>2. ConnectInv' /\ FlagMatchesSession' /\ SessionReady'
    BY <1>1 DEF ConnectionInv, ConnectInv, FlagMatchesSession, SessionReady, connecting,
                N!PeerCheck, N!Acceptable
  <1>3. CASE X!Answer
    <2>1. PICK n \in Lengths : inbox' = inbox \o X!Message(Head(pending), n)
      BY <1>3 DEF X!Answer
    <2>2. /\ open' = open /\ pending # <<>> /\ pending' = Tail(pending)
          /\ pending \in Seq(Nat) /\ inbox \in Seq(Bytes) /\ buf \in Seq(Bytes) /\ req \in Nat
      BY <1>3 DEF X!Answer, ConnectionInv, Types
    <2>3. Head(pending) \in Nat /\ pending' \in Seq(Nat)
      BY <2>2
    <2>4. X!Message(Head(pending), n) \in Seq(Bytes)
      BY <2>3, MessageBytes
    <2>5. inbox' \in Seq(Bytes)
      BY <2>1, <2>2, <2>4, ConcatProperties
    <2>6. Types'
      BY <1>1, <2>2, <2>3, <2>5 DEF ConnectionInv, Types, connecting
    <2>7. SyncInv'
      <3>1. SUFFICES ASSUME connected, ~abandoned
                     PROVE  pc = "header" /\ pending' = <<>> /\ Arriving(n)'
        BY <1>1 DEF ConnectionInv, SyncInv
      <3>2. pc = "header" /\ buf = <<>> /\ inbox = <<>> /\ pending = <<req>>
        BY <2>2, <3>1 DEF ConnectionInv, SyncInv
      <3>3. Head(pending) = req /\ pending' = <<>>
        BY <2>2, <3>2, SMTT(30)
      <3> DEFINE m == X!Message(req, n)
      <3>4. /\ m \in Seq(Bytes) /\ Len(m) = X!Size(n) /\ X!Size(n) \in Nat
            /\ \A i \in 1 .. X!Size(n) : m[i] = [req |-> req, pos |-> i, len |-> n]
        BY <2>2, MessageBytes, SMTT(30)
      <3>5. inbox' = m
        BY <2>1, <3>2, <3>3, <3>4, ConcatEmptySeq, SMTT(30)
      <3> HIDE DEF m
      <3>6. Len(buf') = 0 /\ Len(buf') <= HeaderLen /\ Len(buf') + Len(inbox') = X!Size(n)
        BY <1>1, <3>2, <3>4, <3>5, ConnectionAssumption, SMTT(30)
      <3>7. \A i \in 1 .. Len(inbox') :
              inbox'[i] = [req |-> req, pos |-> Len(buf') + i, len |-> n]
        <4> SUFFICES ASSUME NEW i \in 1 .. Len(inbox')
                     PROVE  inbox'[i] = [req |-> req, pos |-> Len(buf') + i, len |-> n]
          BY Zenon
        <4>2. Len(buf') + i = i /\ i \in 1 .. X!Size(n)
          BY <3>4, <3>5, <3>6
        <4> QED BY <3>4, <3>5, <4>2, SMTT(30)
      <3>8. \A i \in 1 .. Len(buf') : FALSE
        BY <3>6, SMTT(30)
      <3>9. Arriving(n)'
        BY <1>1, <3>2, <3>6, <3>7, <3>8 DEF Arriving, X!Size
      <3> QED BY <3>2, <3>3, <3>9
    <2> QED BY <1>2, <2>6, <2>7 DEF ConnectionInv
  <1>4. CASE X!Hangup
    <2>1. open' = FALSE /\ pending' = <<>> /\ inbox' = inbox
      BY <1>4 DEF X!Hangup
    <2>2. Types'
      BY <1>1, <2>1, NoBytes DEF ConnectionInv, Types, connecting
    <2>3. SyncInv'
      BY <1>1, <2>1 DEF ConnectionInv, SyncInv, Arriving, X!Size
    <2> QED BY <1>2, <2>2, <2>3 DEF ConnectionInv
  <1> QED BY <1>3, <1>4 DEF Server

\* Every step keeps the invariant.
LEMMA NextInv == ConnectionInv /\ [Next]_vars => ConnectionInv'
  <1> SUFFICES ASSUME ConnectionInv, [Next]_vars PROVE ConnectionInv'
    OBVIOUS
  <1>1. CASE Next
    <2>1. CASE Exchange
      <3>1. stage = "idle" /\ KeepBio
        BY <2>1 DEF Exchange
      <3>2. CASE X!SendNothing \/ X!RecvEof \/ X!TimeOut
        BY <3>1, <3>2, ExchangeFails DEF X!SendNothing, X!RecvEof, X!TimeOut
      <3>3. CASE X!Send \/ X!Recv \/ X!ParseHeader \/ X!Accept
        BY <3>1, <3>3, SendStep, RecvStep, ParseStep, AcceptStep
      <3> QED BY <2>1, <3>2, <3>3 DEF Exchange
    <2>2. CASE IoError
      BY <2>2, ExchangeFails DEF IoError, X!IoError
    <2>3. CASE Start \/ Throw \/ Server
      BY <2>3, StartStep, ThrowStep, ServerStep
    <2>4. CASE SetTlsVerification \/ Connect \/ Close \/ Reconnect \/ Establish
               \/ Install \/ Tick
      BY <2>4, ConnectSteps
    <2> QED BY <1>1, <2>1, <2>2, <2>3, <2>4 DEF Next, Proceed
  <1>2. CASE UNCHANGED vars
    <2>1. UNCHANGED <<pc, req, unsent, buf, length, connected, pending, inbox, open, abandoned,
                      m_host, m_timeout_ms, m_tls_verification, stage, new_bio, bio>>
      BY <1>2 DEF vars, exchange, locals, connecting
    <2>2. Types'
      BY <2>1, SMTT(30) DEF ConnectionInv, Types
    <2>3. ConnectInv'
      BY <2>1 DEF ConnectionInv, ConnectInv, N!PeerCheck
    <2>4. FlagMatchesSession' /\ SessionReady'
      BY <2>1 DEF ConnectionInv, FlagMatchesSession, SessionReady
    <2>5. SyncInv'
      BY <1>2, SyncStutter DEF ConnectionInv, vars, exchange, locals, syncVars
    <2> QED BY <2>2, <2>3, <2>4, <2>5 DEF ConnectionInv
  <1> QED BY <1>1, <1>2

-----------------------------------------------------------------------------
(* The properties *)

\* ConnectionInv holds in every state of NetClientOpenSSL and do_exchange.
THEOREM Invariance == Spec => []ConnectionInv
  BY InitInv, NextInv, PTL DEF Spec

\* m_isConnected says at any time, connect() failing at any stage included,
\* whether there is a session in bio_.
THEOREM FlagCorrect == Spec => []FlagMatchesSession
  <1>1. ConnectionInv => FlagMatchesSession
    BY DEF ConnectionInv
  <1> QED BY <1>1, Invariance, PTL

\* The session in use blocks, has its timeouts, and its peer passed the
\* checks of TlsVerificationOptions that were asked for in connect().
THEOREM SessionCorrect == Spec => []SessionReady
  <1>1. ConnectionInv => SessionReady
    BY DEF ConnectionInv
  <1> QED BY <1>1, Invariance, PTL

\* Between exchanges an open connection that do_exchange has not left by
\* std::bad_alloc has nothing unread and nothing unanswered on it, so that
\* the pool may hand it on.
THEOREM ReuseSafe == Spec => []ReusableInSync
  <1>1. ConnectionInv => ReusableInSync
    BY DEF ConnectionInv, SyncInv, ReusableInSync
  <1> QED BY <1>1, Invariance, PTL

-----------------------------------------------------------------------------
(* The refinement *)

\* do_exchange begins in the initial state of a session.
LEMMA InitRefines == Init => S!Init
  BY DEF Init, X!Init, N!Init, S!Init, linkState, callState, lastOutcome

\* A failure, wherever it happens in an exchange, is the failure of the call.
LEMMA FailRefines ==
  ASSUME ConnectionInv, pc # "idle", X!Fail
  PROVE  S!Fail
  <1>1. /\ pc' = "idle" /\ connected' = FALSE /\ result'.req = req /\ result'.ok = FALSE
    BY DEF X!Fail, X!Leave, X!DropSession
  <1>2. req # 0
    BY DEF ConnectionInv, Types
  <1>3. linkState' = "closed" /\ callState' = "none" /\ lastOutcome' = "failed"
    BY <1>1, <1>2 DEF linkState, callState, lastOutcome
  <1>4. callState # "none"
    BY DEF callState
  <1> QED BY <1>3, <1>4 DEF S!Fail

\* What keeps the abstract state.
LEMMA Unseen == UNCHANGED <<connected, abandoned, pc, result>> => UNCHANGED S!vars
  BY DEF S!vars, linkState, callState, lastOutcome

\* Every step of the client and of the server is a step of the session or
\* changes nothing in it.
LEMMA NextRefines == ConnectionInv /\ [Next]_vars => [S!Next]_S!vars
  <1> SUFFICES ASSUME ConnectionInv, [Next]_vars PROVE S!Next \/ UNCHANGED S!vars
    BY SMTT(30)
  <1>1. CASE \/ SetTlsVerification \/ Connect \/ Reconnect \/ Establish \/ Tick \/ Server
             \/ UNCHANGED vars
    BY <1>1, Unseen DEF SetTlsVerification, Connect, Reconnect, Establish, Tick, Server,
                X!Answer, X!Hangup, X!local, vars, exchange, locals
  <1>2. CASE Close
    <2>1. pc = "idle" /\ UNCHANGED <<pc, result>> /\ connected' = FALSE
      BY <1>2 DEF Close, X!DropSession, locals
    <2>2. S!Close
      BY <2>1 DEF S!Close, linkState, callState, lastOutcome
    <2> QED BY <2>2 DEF S!Next
  <1>3. CASE Install
    <2>1. /\ pc \in {"idle", "sending"} /\ UNCHANGED <<pc, result>>
          /\ connected' = TRUE /\ abandoned' = FALSE
      BY <1>3 DEF Install, N!Finish, X!NewSession, locals, ConnectionInv, ConnectInv, Types
    <2>2. S!Open
      BY <2>1 DEF S!Open, linkState, callState, lastOutcome
    <2> QED BY <2>2 DEF S!Next
  <1>4. CASE Throw
    <2>1. CASE pc = "idle"
      BY <1>4, <2>1, Unseen DEF Throw, exchange, locals
    <2>2. CASE pc # "idle"
      BY <1>4, <2>2, FailRefines DEF Throw, S!Next
    <2> QED BY <2>1, <2>2
  <1>5. CASE Start
    <2>1. pc = "idle" /\ pc' = "sending" /\ UNCHANGED <<result, connected, abandoned>>
      BY <1>5 DEF Start, X!Start, X!link
    <2>2. S!Begin
      BY <2>1 DEF S!Begin, linkState, callState, lastOutcome
    <2> QED BY <2>2 DEF S!Next
  <1>6. CASE \/ X!SendNothing \/ X!RecvEof \/ X!TimeOut \/ X!IoError
    <2>1. pc # "idle" /\ X!Fail
      BY <1>6 DEF X!SendNothing, X!RecvEof, X!TimeOut, X!IoError
    <2> QED BY <2>1, FailRefines DEF S!Next
  <1>7. CASE X!Send
    <2>1. /\ pc = "sending" /\ pc' \in {"sending", "header"} /\ connected
          /\ UNCHANGED <<result, connected, abandoned>>
      BY <1>7 DEF X!Send
    <2>2. CASE pc' = "sending"
      BY <2>1, <2>2, Unseen
    <2>3. CASE pc' = "header"
      <3>1. S!Sent
        BY <2>1, <2>3 DEF S!Sent, linkState, callState, lastOutcome
      <3> QED BY <3>1 DEF S!Next
    <2> QED BY <2>1, <2>2, <2>3
  <1>8. CASE X!Recv
    BY <1>8, Unseen DEF X!Recv
  <1>9. CASE X!ParseHeader
    <2>1. pc = "header" /\ connected /\ req # 0
      BY <1>9 DEF X!ParseHeader, ConnectionInv, ConnectInv, Types
    <2>2. \/ X!Fail
          \/ pc' = "body" /\ UNCHANGED <<result, X!link>>
          \/ X!Leave(FALSE) /\ abandoned' = TRUE /\ UNCHANGED connected
      BY <1>9 DEF X!ParseHeader
    <2>3. CASE X!Fail
      BY <2>1, <2>3, FailRefines DEF S!Next
    <2>4. CASE pc' = "body" /\ UNCHANGED <<result, X!link>>
      BY <2>1, <2>4 DEF X!link, S!vars, linkState, callState, lastOutcome
    <2>5. CASE X!Leave(FALSE) /\ abandoned' = TRUE /\ UNCHANGED connected
      <3>1. pc' = "idle" /\ result'.req = req /\ result'.ok = FALSE
        BY <2>5 DEF X!Leave
      <3>2. S!Spoil
        BY <2>1, <2>5, <3>1 DEF S!Spoil, linkState, callState, lastOutcome
      <3> QED BY <3>2 DEF S!Next
    <2> QED BY <2>2, <2>3, <2>4, <2>5
  <1>10. CASE X!Accept
    <2>1. /\ pc = "body" /\ pc' = "idle" /\ connected /\ req # 0
          /\ UNCHANGED <<connected, abandoned>>
          /\ result'.req = req /\ result'.ok = TRUE /\ result'.bytes = buf
      BY <1>10 DEF X!Accept, X!Leave, X!link, ConnectionInv, ConnectInv, Types
    <2>2. callState = "sent" /\ callState' = "none" /\ linkState # "closed"
          /\ linkState' = linkState
      BY <2>1 DEF callState, linkState
    <2>3. lastOutcome' = "own" \/ lastOutcome' = "other"
      BY <2>1, SMTT(30) DEF lastOutcome
    <2>4. ~abandoned => lastOutcome' = "own"
      <3>1. SUFFICES ASSUME ~abandoned PROVE lastOutcome' = "own"
        OBVIOUS
      <3>2. \E n \in Lengths : buf = X!Message(req, n)
        BY <1>10, <3>1, ResponseRead DEF X!Accept
      <3>3. \E n \in Lengths : result'.bytes = X!Message(result'.req, n)
        BY <2>1, <3>2
      <3> QED BY <2>1, <3>3 DEF lastOutcome, X!Message, X!Size
    <2>5. abandoned => linkState = "spoiled"
      BY <2>1 DEF linkState
    <2>6. S!Return
      BY <2>2, <2>3, <2>4, <2>5 DEF S!Return
    <2> QED BY <2>6 DEF S!Next
  <1> QED BY <1>1, <1>2, <1>3, <1>4, <1>5, <1>6, <1>7, <1>8, <1>9, <1>10, SMTT(30)
          DEF Next, Proceed, Exchange, IoError

\* do_exchange over NetClientOpenSSL implements module Session: it returns
\* the response to its own request, or fails and closes the session.
THEOREM Refinement == Spec => ImplementsSession
  BY InitRefines, NextRefines, Invariance, PTL DEF Spec, ImplementsSession, S!Spec

=============================================================================

------------------------------ MODULE NetClient ------------------------------
(***************************************************************************)
(* NetClientOpenSSL (kmipclient/src/NetClientOpenSSL.cpp): how a TLS       *)
(* session is established, replaced and closed.  connect() builds a new    *)
(* session in locals (new_ctx, new_bio) and installs it in bio_ and ctx_   *)
(* only at its end; every stage before may throw.  The handshake runs on   *)
(* a non-blocking socket bounded by a deadline when m_timeout_ms > 0.      *)
(***************************************************************************)
EXTENDS Integers

CONSTANTS
  Timeouts,   \* values given for m_timeout_ms, integers
  Hosts,      \* subset of {"dns", "ip"}: how m_host is written
  None        \* the null pointer

\* What the server's certificate is good for: nothing, a trusted chain, or a
\* trusted chain that also names the host.  "absent": none was presented.
Certificates == {"absent", "untrusted", "trusted", "matching"}

Options == [peer : BOOLEAN, hostname : BOOLEAN]

\* A session: SNI, the check made in the handshake, the certificate that
\* passed it, the mode of the socket and the options it was asked for with.
Sessions ==
  [sni : BOOLEAN, check : {"none", "chain", "host", "ip"}, cert : Certificates,
   blocking : BOOLEAN, timeout : BOOLEAN, asked : Options]

VARIABLES
  m_host,              \* m_host, by its form
  m_timeout_ms,        \* m_timeout_ms
  m_tls_verification,  \* m_tls_verification
  m_isConnected,       \* m_isConnected
  bio,                 \* bio_ (and ctx_, which always accompanies it)
  pc,                  \* stage of connect(), "idle" outside
  new_bio,             \* local new_bio
  expired              \* the deadline of the connect under way has passed

conf == <<m_host, m_timeout_ms>>  \* fixed by the constructor
vars == <<conf, m_tls_verification, m_isConnected, bio, pc, new_bio, expired>>

Init ==
  /\ m_host \in Hosts
  /\ m_timeout_ms \in Timeouts
  /\ m_tls_verification \in Options
  /\ m_isConnected = FALSE
  /\ bio = None
  /\ pc = "idle"
  /\ new_bio = None
  /\ expired = FALSE

\* An exception leaves connect(), at any of its stages (wait_for_bio_retry
\* may throw as poll does): the locals are freed, the members stay.
Throw ==
  /\ pc # "idle"
  /\ pc' = "idle"
  /\ new_bio' = None
  /\ UNCHANGED <<conf, m_tls_verification, m_isConnected, bio, expired>>

-----------------------------------------------------------------------------
SetTlsVerification ==
  /\ pc = "idle"
  /\ m_tls_verification' \in Options
  /\ UNCHANGED <<conf, m_isConnected, bio, pc, new_bio, expired>>

\* Mutant of Connect: a live session is dropped too.
ConnectResets ==
  /\ pc = "idle"
  /\ bio' = None
  /\ pc' = "context"
  /\ UNCHANGED <<conf, m_tls_verification, m_isConnected, new_bio, expired>>

\* connect() is called, by the application or by checkConnected().
Connect ==
  /\ pc = "idle"
  /\ bio' = IF m_isConnected THEN bio ELSE None
  /\ pc' = "context"
  /\ UNCHANGED <<conf, m_tls_verification, m_isConnected, new_bio, expired>>

\* SSL_CTX_new, the verification mode, the certificate and key files.
PrepareContext ==
  /\ pc = "context"
  /\ m_tls_verification.hostname => m_tls_verification.peer
  /\ pc' = "bio"
  /\ UNCHANGED <<conf, m_tls_verification, m_isConnected, bio, new_bio, expired>>

\* configure_tls_verification for m_host: SNI for a name, and the check that
\* OpenSSL makes of the certificate during the handshake.
PeerCheck ==
  IF ~m_tls_verification.peer THEN "none"
  ELSE IF ~m_tls_verification.hostname THEN "chain"
  ELSE IF m_host = "ip" THEN "ip" ELSE "host"

\* BIO_new_ssl_connect up to the deadline.
PrepareBio ==
  /\ pc = "bio"
  /\ new_bio' = [sni |-> m_host # "ip", check |-> PeerCheck,
                 cert |-> "absent", blocking |-> m_timeout_ms <= 0,
                 timeout |-> FALSE, asked |-> m_tls_verification]
  /\ expired' = FALSE
  /\ pc' = "handshake"
  /\ UNCHANGED <<conf, m_tls_verification, m_isConnected, bio>>

\* Whether OpenSSL completes a handshake with this certificate.
Acceptable(check, cert) ==
  CASE check = "none"           -> TRUE
    [] check = "chain"          -> cert \in {"trusted", "matching"}
    [] check \in {"host", "ip"} -> cert = "matching"

\* BIO_do_connect: done, or (non-blocking) asks to be retried.
DoConnect ==
  /\ pc = "handshake"
  /\ \/ \E c \in Certificates :
          /\ Acceptable(new_bio.check, c)
          /\ new_bio' = [new_bio EXCEPT !.cert = c]
          /\ pc' = "finish"
          /\ UNCHANGED <<conf, m_tls_verification, m_isConnected, bio, expired>>
     \/ /\ ~new_bio.blocking
        /\ pc' = "retry"
        /\ UNCHANGED <<conf, m_tls_verification, m_isConnected, bio, new_bio,
                       expired>>

\* Mutant of WaitForBioRetry: every wait is given the whole timeout anew.
WaitForBioRetryAnew ==
  /\ pc = "retry"
  /\ pc' = "handshake"
  /\ UNCHANGED <<conf, m_tls_verification, m_isConnected, bio, new_bio, expired>>

\* wait_for_bio_retry: poll returns because the socket is ready; once the
\* deadline has passed, it throws.
WaitForBioRetry ==
  /\ pc = "retry"
  /\ ~expired
  /\ pc' = "handshake"
  /\ UNCHANGED <<conf, m_tls_verification, m_isConnected, bio, new_bio, expired>>

\* Mutant of Finish: the socket is left non-blocking.
FinishNonBlocking ==
  /\ pc = "finish"
  /\ m_tls_verification.peer => new_bio.cert \in {"trusted", "matching"}
  /\ bio' = [new_bio EXCEPT !.timeout = m_timeout_ms > 0]
  /\ m_isConnected' = TRUE
  /\ pc' = "idle"
  /\ new_bio' = None
  /\ UNCHANGED <<conf, m_tls_verification, expired>>

\* The rest of connect(): back to blocking mode, ensure_tls_peer_verified,
\* apply_socket_io_timeout, and the session is installed.
Finish ==
  /\ pc = "finish"
  /\ m_tls_verification.peer => new_bio.cert \in {"trusted", "matching"}
  /\ bio' = [new_bio EXCEPT !.blocking = TRUE, !.timeout = m_timeout_ms > 0]
  /\ m_isConnected' = TRUE
  /\ pc' = "idle"
  /\ new_bio' = None
  /\ UNCHANGED <<conf, m_tls_verification, expired>>

\* close(), also run by the destructor.
Close ==
  /\ pc = "idle"
  /\ m_isConnected' = FALSE
  /\ bio' = None
  /\ UNCHANGED <<conf, m_tls_verification, pc, new_bio, expired>>

\* Time passes the deadline.
Tick ==
  /\ pc \in {"handshake", "retry"}
  /\ ~expired
  /\ expired' = TRUE
  /\ UNCHANGED <<conf, m_tls_verification, m_isConnected, bio, pc, new_bio>>

=============================================================================

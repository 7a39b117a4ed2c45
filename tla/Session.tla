------------------------------ MODULE Session ------------------------------
(***************************************************************************)
(* What a connection promises to the code that makes requests over it (the *)
(* operations of KmipClient, and the pool that hands connections on): a    *)
(* call returns the response to its own request, or fails and leaves no    *)
(* connection behind that a later call could read a stale response from.   *)
(* The one exception is an exception that do_exchange does not catch: it   *)
(* spoils the connection until a new one is opened.                        *)
(***************************************************************************)
VARIABLES
  link,     \* "closed", "open", or "spoiled"
  call,     \* "none", "started" (being sent), or "sent" (awaiting a response)
  outcome   \* of the last call: "none", "own", "other" or "failed"

vars == <<link, call, outcome>>

Init == link = "closed" /\ call = "none" /\ outcome = "none"

\* A new session, also in place of another one, but never while a response
\* is awaited on the old one.
Open == call # "sent" /\ link' = "open" /\ UNCHANGED <<call, outcome>>

Close == call = "none" /\ link' = "closed" /\ UNCHANGED <<call, outcome>>

Begin == call = "none" /\ call' = "started" /\ UNCHANGED <<link, outcome>>

Sent == call = "started" /\ link # "closed" /\ call' = "sent" /\ UNCHANGED <<link, outcome>>

Return ==
  /\ call = "sent" /\ link # "closed"
  /\ outcome' = "own" \/ (link = "spoiled" /\ outcome' = "other")
  /\ call' = "none"
  /\ UNCHANGED link

Fail == call # "none" /\ call' = "none" /\ link' = "closed" /\ outcome' = "failed"

Spoil == call = "sent" /\ call' = "none" /\ link' = "spoiled" /\ outcome' = "failed"

Next == Open \/ Close \/ Begin \/ Sent \/ Return \/ Fail \/ Spoil

Spec == Init /\ [][Next]_vars

=============================================================================

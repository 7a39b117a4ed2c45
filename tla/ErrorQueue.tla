----------------------------- MODULE ErrorQueue -----------------------------
(***************************************************************************)
(* The OpenSSL error queue of a thread and the scope that kmiputil         *)
(* (OpenSSLUtils.hpp) and op_get_key (mark_openssl_errors in               *)
(* KmipClient.cpp) open on it.  OpenSSL itself is external: the queue is   *)
(* a ring that holds NumErrors - 1 entries, an entry carries marks (a      *)
(* count in OpenSSL 3, a single flag in 1.1.1), and ERR_pop_to_mark drops  *)
(* entries from the top down to a marked one.                              *)
(***************************************************************************)
EXTENDS Integers, Sequences

CONSTANT NumErrors     \* ERR_NUM_ERRORS

VARIABLE countsMarks   \* OpenSSL >= 3.0; never changes

Placeholder == "placeholder"   \* ERR_LIB_USER, kPlaceholderReason

Top(q) == q[Len(q)]

\* ERR_raise, ERR_put_error: a full ring loses its oldest entry.
Put(q, err) ==
  LET full == Append(q, [err |-> err, marks |-> 0])
  IN IF Len(full) < NumErrors THEN full ELSE Tail(full)

\* ERR_set_mark: nothing to mark in an empty queue.
SetMark(q) ==
  IF q = <<>> THEN q
  ELSE [q EXCEPT ![Len(q)].marks = IF countsMarks THEN @ + 1 ELSE 1]

\* ERR_pop_to_mark
PopToMark(q) ==
  LET marked == {i \in DOMAIN q : q[i].marks > 0}
      m      == CHOOSE i \in marked : \A j \in marked : j <= i
  IN IF marked = {} THEN <<>>
     ELSE [SubSeq(q, 1, m) EXCEPT ![m].marks = @ - 1]

\* ERR_peek_last_error
PeekLastError(q) == IF q = <<>> THEN "none" ELSE Top(q).err

-----------------------------------------------------------------------------
\* Mutant of MarkErrors: no placeholder above the mark.
MarkBare(q) == SetMark(q)

\* mark(), mark_openssl_errors
MarkErrors(q) == Put(SetMark(q), Placeholder)

\* OpenSslErrorScope::reset
ResetErrors(q) == MarkErrors(PopToMark(q))

\* OpenSslErrorScope::last_error
LastError(q) ==
  IF PeekLastError(q) \in {"none", Placeholder} THEN "unknown error"
  ELSE PeekLastError(q)

=============================================================================

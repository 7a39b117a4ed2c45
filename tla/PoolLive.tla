------------------------------ MODULE PoolLive ------------------------------
(***************************************************************************)
(* Progress of KmipClientPool.  Neither std::mutex nor                     *)
(* std::condition_variable is fair to a particular thread, so a waiting    *)
(* borrower may be overtaken by later calls as long as they keep coming.   *)
(* The module therefore gives each thread a finite budget of client calls  *)
(* (MaxCalls) and asks whether every call that was made comes back.        *)
(*                                                                         *)
(* Fairness: a thread inside the pool's code keeps running (WF of          *)
(* Inside), and a guard eventually goes out of scope (WF of its            *)
(* destructor).  A connect ends, with success or failure, because          *)
(* NetClientOpenSSL::connect has a deadline.  No fairness is assumed of    *)
(* TimeOut, of spurious wakeups or of further calls.                       *)
(***************************************************************************)
EXTENDS Pool

CONSTANT MaxCalls

ASSUME MaxCallsAssumption == MaxCalls \in Nat

VARIABLE calls  \* client calls made so far, per thread

liveVars == <<vars, calls>>

LiveInit == Init /\ calls = [t \in Threads |-> 0]

Call(t) ==
  /\ calls[t] < MaxCalls
  /\ calls' = [calls EXCEPT ![t] = @ + 1]
  /\ \/ Borrow(t)
     \/ TryBorrow(t)
     \/ UseClient(t)
     \/ MarkUnhealthy(t)
     \/ \E u \in Threads : MoveConstruct(t, u)

Release(t) == pc[t] = "running" /\ ReturnSlot(t) /\ UNCHANGED calls
Proceed(t) == Inside(t) /\ UNCHANGED calls
Wakeup(t) == (TimeOut(t) \/ SpuriousWakeup(t)) /\ UNCHANGED calls

LiveNext ==
  \E t \in Threads : Call(t) \/ Release(t) \/ Proceed(t) \/ Wakeup(t)

LiveSpec ==
  /\ LiveInit
  /\ [][LiveNext]_liveVars
  /\ \A t \in Threads : WF_liveVars(Proceed(t)) /\ WF_liveVars(Release(t))

-----------------------------------------------------------------------------
\* Every borrow, try_borrow, guard destruction and guard assignment that a
\* thread starts eventually returns or throws, although notify_one wakes a
\* single thread, the woken thread may find the slot taken, connects fail,
\* and up to MaxConnections - 1 threads ask for a second slot while they
\* still hold one.
EveryCallReturns ==
  \A t \in Threads : pc[t] # "running" ~> pc[t] = "running"

\* Once the calls are used up, all the capacity comes back: eventually no
\* slot is borrowed or being connected, and total_count_ counts only idle
\* connections, each of them usable.
CapacityComesBack ==
  <>[](total_count = Len(available) /\ IdleSlotsUsable)

=============================================================================

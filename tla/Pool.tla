-------------------------------- MODULE Pool --------------------------------
(***************************************************************************)
(* KmipClientPool (kmipclient/src/KmipClientPool.cpp): threads borrow      *)
(* slots (one TLS connection with its KmipClient), use them and give them  *)
(* back through the RAII guard BorrowedClient.                             *)
(*                                                                         *)
(* Every critical section of mutex_ is one step; what the code does        *)
(* outside the lock (TLS connect, reading is_connected(), closing a        *)
(* discarded connection) is a step of its own.  The condition variable is  *)
(* the set of threads whose pc is "waiting"; notify_one() moves one of     *)
(* them, whichever, to "woken".                                            *)
(***************************************************************************)
EXTENDS Naturals, Sequences, FiniteSets

CONSTANTS
  Threads,        \* threads of the program that uses the pool
  Rebinders,      \* threads that also execute guard = pool.borrow() while
                  \* guard still holds a slot (the move assignment)
  Slots,          \* names for slot objects; a destroyed slot's name is free
  NoSlot,         \* the null unique_ptr<Slot>
  MaxConnections  \* config_.max_connections

ASSUME PoolAssumption ==
  /\ IsFiniteSet(Threads)
  /\ Rebinders \subseteq Threads
  /\ IsFiniteSet(Slots)
  /\ NoSlot \notin Slots
  /\ MaxConnections \in Nat \ {0}

VARIABLES
  available,    \* available_, used as a stack
  total_count,  \* total_count_
  pc,           \* where each thread is in the pool's code
  timed,        \* the wait of this thread is wait_for (borrow(timeout))
  guard,        \* slot_ of the thread's BorrowedClient variable
  healthy,      \* healthy_ of that guard
  incoming,     \* slot_ of the temporary that a move assignment takes from
  returned,     \* the argument `slot` of return_slot
  discard,      \* the local `discard` of return_slot
  connected,    \* net_client->m_isConnected (and bio_ # nullptr) per slot
  tainted       \* history: live slots on which markUnhealthy() was called

vars == <<available, total_count, pc, timed, guard, healthy, incoming,
          returned, discard, connected, tainted>>

PCs == {"running", "waiting", "woken", "timedout", "connecting", "failed",
        "assigning", "returning", "destroying"}

Waiting == {t \in Threads : pc[t] = "waiting"}
Woken   == {t \in Threads : pc[t] = "woken"}

IdleSlots == {available[i] : i \in DOMAIN available}
OwnedBy(t) == {guard[t], incoming[t], returned[t]} \ {NoSlot}
LiveSlots == IdleSlots \cup UNION {OwnedBy(t) : t \in Threads}

-----------------------------------------------------------------------------
Init ==
  /\ available = <<>>
  /\ total_count = 0
  /\ pc = [t \in Threads |-> "running"]
  /\ timed = [t \in Threads |-> FALSE]
  /\ guard = [t \in Threads |-> NoSlot]
  /\ healthy = [t \in Threads |-> TRUE]
  /\ incoming = [t \in Threads |-> NoSlot]
  /\ returned = [t \in Threads |-> NoSlot]
  /\ discard = [t \in Threads |-> FALSE]
  /\ connected = [s \in Slots |-> FALSE]
  /\ tainted = {}

\* Mutant of SlotAvailable: one connection too many.
SlotAvailableAtLimit == available # <<>> \/ total_count <= MaxConnections

\* The predicate of both waits and, negated, the early return of try_borrow.
SlotAvailable == available # <<>> \/ total_count < MaxConnections

\* Mutant of NotifyOne: the notification is forgotten.
NotifyNobody(newpc) == pc' = newpc

\* cv_.notify_one() at the end of a critical section that leaves pc = newpc.
NotifyOne(newpc) ==
  \/ /\ Waiting = {}
     /\ pc' = newpc
  \/ \E u \in Waiting : pc' = [newpc EXCEPT ![u] = "woken"]

\* A borrow returns BorrowedClient(*this, slot): it initialises the thread's
\* guard, or is the right-hand side of an assignment to a guard in use.
Deliver(t, s) ==
  \/ /\ guard[t] = NoSlot
     /\ guard' = [guard EXCEPT ![t] = s]
     /\ healthy' = [healthy EXCEPT ![t] = TRUE]
     /\ pc' = [pc EXCEPT ![t] = "running"]
     /\ UNCHANGED incoming
  \/ /\ guard[t] # NoSlot
     /\ incoming' = [incoming EXCEPT ![t] = s]
     /\ pc' = [pc EXCEPT ![t] = "assigning"]
     /\ UNCHANGED <<guard, healthy>>

\* Mutant of PopIdle: the slot is handed out and stays in available_.
PopIdleKeepsIt(t) ==
  /\ available # <<>>
  /\ Deliver(t, available[Len(available)])
  /\ timed' = [timed EXCEPT ![t] = FALSE]
  /\ UNCHANGED <<available, total_count, returned, discard, connected, tainted>>

\* acquire_locked up to its unlock: pop an idle slot, or reserve room for a
\* new one.
PopIdle(t) ==
  /\ available # <<>>
  /\ available' = SubSeq(available, 1, Len(available) - 1)
  /\ Deliver(t, available[Len(available)])
  /\ timed' = [timed EXCEPT ![t] = FALSE]
  /\ UNCHANGED <<total_count, returned, discard, connected, tainted>>

ReserveSlot(t) ==
  /\ available = <<>>
  /\ total_count' = total_count + 1
  /\ pc' = [pc EXCEPT ![t] = "connecting"]
  /\ timed' = [timed EXCEPT ![t] = FALSE]
  /\ UNCHANGED <<available, guard, healthy, incoming, returned, discard,
                 connected, tainted>>

AcquireLocked(t) == PopIdle(t) \/ ReserveSlot(t)

WaitOnCv(t, forTimeout) ==
  /\ timed' = [timed EXCEPT ![t] = forTimeout]
  /\ pc' = [pc EXCEPT ![t] = "waiting"]
  /\ UNCHANGED <<available, total_count, guard, healthy, incoming, returned,
                 discard, connected, tainted>>

MayBorrow(t) ==
  /\ pc[t] = "running"
  /\ guard[t] = NoSlot \/ t \in Rebinders

-----------------------------------------------------------------------------
\* borrow() and borrow(timeout): lock, then wait or acquire.
Borrow(t) ==
  /\ MayBorrow(t)
  /\ \/ SlotAvailable /\ AcquireLocked(t)
     \/ ~SlotAvailable /\ \E b \in BOOLEAN : WaitOnCv(t, b)

\* try_borrow(): nullopt (nothing changes) at capacity, else acquire.
TryBorrow(t) ==
  /\ MayBorrow(t)
  /\ \/ SlotAvailable /\ AcquireLocked(t)
     \/ ~SlotAvailable /\ UNCHANGED vars

\* A notified thread holds the lock again and evaluates the predicate.
Recheck(t) ==
  /\ pc[t] = "woken"
  /\ \/ SlotAvailable /\ AcquireLocked(t)
     \/ ~SlotAvailable /\ WaitOnCv(t, timed[t])

\* wait_for runs out of time: the thread is no longer a target of
\* notify_one, but does not hold the lock yet.
TimeOut(t) ==
  /\ pc[t] = "waiting"
  /\ timed[t]
  /\ pc' = [pc EXCEPT ![t] = "timedout"]
  /\ UNCHANGED <<available, total_count, timed, guard, healthy, incoming,
                 returned, discard, connected, tainted>>

\* wait_for returns pred(): a slot that came late is still taken, otherwise
\* borrow(timeout) throws.
RecheckTimedOut(t) ==
  /\ pc[t] = "timedout"
  /\ \/ SlotAvailable /\ AcquireLocked(t)
     \/ /\ ~SlotAvailable
        /\ timed' = [timed EXCEPT ![t] = FALSE]
        /\ pc' = [pc EXCEPT ![t] = "running"]
        /\ UNCHANGED <<available, total_count, guard, healthy, incoming,
                       returned, discard, connected, tainted>>

\* A condition variable may wake a thread that nobody notified.
SpuriousWakeup(t) ==
  /\ pc[t] = "waiting"
  /\ pc' = [pc EXCEPT ![t] = "woken"]
  /\ UNCHANGED <<available, total_count, timed, guard, healthy, incoming,
                 returned, discard, connected, tainted>>

\* create_slot() succeeds, without the lock.
CreateSlot(t) ==
  /\ pc[t] = "connecting"
  /\ \E s \in Slots \ LiveSlots :
       /\ connected' = [connected EXCEPT ![s] = TRUE]
       /\ tainted' = tainted \ {s}
       /\ Deliver(t, s)
  /\ UNCHANGED <<available, total_count, timed, returned, discard>>

\* Mutant of CreateSlotThrows: no handler, the reservation is lost.
CreateSlotThrowsUncaught(t) ==
  /\ pc[t] = "connecting"
  /\ pc' = [pc EXCEPT ![t] = "running"]
  /\ UNCHANGED <<available, total_count, timed, guard, healthy, incoming,
                 returned, discard, connected, tainted>>

\* create_slot() throws; the handler has not locked the mutex yet.
CreateSlotThrows(t) ==
  /\ pc[t] = "connecting"
  /\ pc' = [pc EXCEPT ![t] = "failed"]
  /\ UNCHANGED <<available, total_count, timed, guard, healthy, incoming,
                 returned, discard, connected, tainted>>

\* Mutant of GiveBackReservation: the count is not decremented.
GiveBackNothing(t) ==
  /\ pc[t] = "failed"
  /\ NotifyOne([pc EXCEPT ![t] = "running"])
  /\ UNCHANGED <<available, total_count, timed, guard, healthy, incoming,
                 returned, discard, connected, tainted>>

\* The catch (...) of acquire_locked gives the reservation back, rethrows.
GiveBackReservation(t) ==
  /\ pc[t] = "failed"
  /\ total_count' = total_count - 1
  /\ NotifyOne([pc EXCEPT ![t] = "running"])
  /\ UNCHANGED <<available, timed, guard, healthy, incoming, returned,
                 discard, connected, tainted>>

\* A KMIP operation on the borrowed client: an I/O failure closes the
\* connection (IOUtils::do_exchange), the next operation reconnects.
UseClient(t) ==
  /\ pc[t] = "running"
  /\ guard[t] # NoSlot
  /\ \E b \in BOOLEAN : connected' = [connected EXCEPT ![guard[t]] = b]
  /\ UNCHANGED <<available, total_count, pc, timed, guard, healthy, incoming,
                 returned, discard, tainted>>

MarkUnhealthy(t) ==
  /\ pc[t] = "running"
  /\ guard[t] # NoSlot
  /\ healthy' = [healthy EXCEPT ![t] = FALSE]
  /\ tainted' = tainted \cup {guard[t]}
  /\ UNCHANGED <<available, total_count, pc, timed, guard, incoming, returned,
                 discard, connected>>

\* Mutant of MoveConstruct: healthy_ is not moved along.
MoveConstructHealthy(t, u) ==
  /\ t # u
  /\ pc[t] = "running" /\ guard[t] # NoSlot
  /\ pc[u] = "running" /\ guard[u] = NoSlot
  /\ guard' = [guard EXCEPT ![u] = guard[t], ![t] = NoSlot]
  /\ healthy' = [healthy EXCEPT ![u] = TRUE]
  /\ UNCHANGED <<available, total_count, pc, timed, incoming, returned,
                 discard, connected, tainted>>

\* The move constructor: the guard becomes another thread's guard.
MoveConstruct(t, u) ==
  /\ t # u
  /\ pc[t] = "running" /\ guard[t] # NoSlot
  /\ pc[u] = "running" /\ guard[u] = NoSlot
  /\ guard' = [guard EXCEPT ![u] = guard[t], ![t] = NoSlot]
  /\ healthy' = [healthy EXCEPT ![u] = healthy[t]]
  /\ UNCHANGED <<available, total_count, pc, timed, incoming, returned,
                 discard, connected, tainted>>

\* return_slot before its lock: from the guard's destructor ("running") or
\* from its move assignment ("assigning").
ReturnSlot(t) ==
  /\ pc[t] \in {"running", "assigning"}
  /\ guard[t] # NoSlot
  /\ returned' = [returned EXCEPT ![t] = guard[t]]
  /\ guard' = [guard EXCEPT ![t] = NoSlot]
  /\ discard' = [discard EXCEPT ![t] = ~healthy[t] \/ ~connected[guard[t]]]
  /\ pc' = [pc EXCEPT ![t] = "returning"]
  /\ UNCHANGED <<available, total_count, timed, healthy, incoming, connected,
                 tainted>>

\* Control leaves return_slot (its locals die); a move assignment then takes
\* the other's members.
LeaveReturnSlot(t) ==
  /\ discard' = [discard EXCEPT ![t] = FALSE]
  /\ returned' = [returned EXCEPT ![t] = NoSlot]
  /\ guard' = [guard EXCEPT ![t] = incoming[t]]
  /\ healthy' = [healthy EXCEPT ![t] = TRUE]
  /\ incoming' = [incoming EXCEPT ![t] = NoSlot]

\* The critical section of return_slot.
ReturnSlotLocked(t) ==
  /\ pc[t] = "returning"
  /\ \/ /\ ~discard[t]
        /\ available' = Append(available, returned[t])
        /\ LeaveReturnSlot(t)
        /\ NotifyOne([pc EXCEPT ![t] = "running"])
        /\ UNCHANGED total_count
     \/ /\ discard[t]
        /\ total_count' = total_count - 1
        /\ NotifyOne([pc EXCEPT ![t] = "destroying"])
        /\ UNCHANGED <<available, returned, discard, guard, healthy, incoming>>
  /\ UNCHANGED <<timed, connected, tainted>>

\* The discarded slot's destructor closes its connection, after the unlock.
DestroySlot(t) ==
  /\ pc[t] = "destroying"
  /\ connected' = [connected EXCEPT ![returned[t]] = FALSE]
  /\ tainted' = tainted \ {returned[t]}
  /\ LeaveReturnSlot(t)
  /\ pc' = [pc EXCEPT ![t] = "running"]
  /\ UNCHANGED <<available, total_count, timed>>

-----------------------------------------------------------------------------
\* What a thread does on its own once it is inside the pool's code.
Inside(t) ==
  \/ Recheck(t)
  \/ RecheckTimedOut(t)
  \/ CreateSlot(t)
  \/ CreateSlotThrows(t)
  \/ GiveBackReservation(t)
  \/ ReturnSlotLocked(t)
  \/ DestroySlot(t)
  \/ pc[t] = "assigning" /\ ReturnSlot(t)

Client(t) ==
  \/ Borrow(t)
  \/ TryBorrow(t)
  \/ UseClient(t)
  \/ MarkUnhealthy(t)
  \/ \E u \in Threads : MoveConstruct(t, u)
  \/ pc[t] = "running" /\ ReturnSlot(t)

Next ==
  \E t \in Threads :
    \/ Inside(t)
    \/ Client(t)
    \/ TimeOut(t)
    \/ SpuriousWakeup(t)

Spec == Init /\ [][Next]_vars

-----------------------------------------------------------------------------
(* Properties *)

\* Every variable keeps its type; total_count_, an unsigned counter, neither
\* exceeds max_connections nor is ever decremented below zero.
TypeOK ==
  /\ available \in Seq(Slots)
  /\ total_count \in 0..MaxConnections
  /\ pc \in [Threads -> PCs]
  /\ timed \in [Threads -> BOOLEAN]
  /\ guard \in [Threads -> Slots \cup {NoSlot}]
  /\ healthy \in [Threads -> BOOLEAN]
  /\ incoming \in [Threads -> Slots \cup {NoSlot}]
  /\ returned \in [Threads -> Slots \cup {NoSlot}]
  /\ discard \in [Threads -> BOOLEAN]
  /\ connected \in [Slots -> BOOLEAN]
  /\ tainted \in SUBSET Slots

Holders    == {t \in Threads : guard[t] # NoSlot}
Assigners  == {t \in Threads : incoming[t] # NoSlot}
Returners  == {t \in Threads : pc[t] = "returning"}
Connectors == {t \in Threads : pc[t] \in {"connecting", "failed"}}

\* total_count_ is exactly the idle slots, the borrowed ones (those being
\* returned included, until return_slot has locked the mutex) and the
\* reservations of connects under way: no path of borrow, failed connect,
\* move or return leaks or double-frees a unit of capacity.
Accounting ==
  total_count = Len(available) + Cardinality(Holders)
                + Cardinality(Assigners) + Cardinality(Returners)
                + Cardinality(Connectors)

\* A slot has one owner: no idle slot is borrowed, no two guards (of two
\* threads, or the two sides of a move assignment) share a slot, and none is
\* twice in available_.
ExclusiveSlots ==
  /\ \A i, j \in DOMAIN available : available[i] = available[j] => i = j
  /\ \A t \in Threads :
       /\ OwnedBy(t) \cap IdleSlots = {}
       /\ \A u \in Threads \ {t} : OwnedBy(t) \cap OwnedBy(u) = {}
       /\ guard[t] # NoSlot => guard[t] \notin {incoming[t], returned[t]}
       /\ incoming[t] # NoSlot => incoming[t] # returned[t]

\* available_ holds only connections that are open and were never marked
\* unhealthy by any of the guards that carried them, through moves and move
\* assignments alike.
IdleSlotsUsable ==
  \A s \in IdleSlots : connected[s] /\ s \notin tainted

\* No lost wakeup: while some thread sleeps on cv_, every unit of capacity
\* that is free (an idle slot or room for a new one) is matched by a thread
\* that has been woken for it.
FreeUnits == Len(available) + (MaxConnections - total_count)
NoLostWakeup == Waiting # {} => FreeUnits <= Cardinality(Woken)

\* The documentation of DEFAULT_MAX_CONNECTIONS: the "upper bound for
\* simultaneously open KMIP connections".  The code does not keep it:
\* return_slot gives the unit of capacity back before the discarded
\* connection is closed.
OpenConnectionsBounded ==
  Cardinality({s \in Slots : connected[s]}) <= MaxConnections

-----------------------------------------------------------------------------
(* The inductive invariant *)

\* The slot held by each local of a thread agrees with the thread's control,
\* and what makes a slot fit for reuse is known wherever it is on its way
\* back: a guard that still says healthy_ carries an untainted slot, and
\* `discard` false means the slot may be pushed.
ControlInv ==
  \A t \in Threads :
    /\ returned[t] # NoSlot <=> pc[t] \in {"returning", "destroying"}
    /\ incoming[t] # NoSlot => pc[t] \in {"assigning", "returning", "destroying"}
    /\ pc[t] \in {"returning", "destroying"} => guard[t] = NoSlot
    /\ pc[t] = "assigning" => guard[t] # NoSlot /\ incoming[t] # NoSlot
    /\ guard[t] # NoSlot /\ healthy[t] => guard[t] \notin tainted
    /\ incoming[t] # NoSlot => connected[incoming[t]] /\ incoming[t] \notin tainted
    /\ pc[t] = "returning" /\ ~discard[t] =>
         connected[returned[t]] /\ returned[t] \notin tainted

PoolInv ==
  /\ TypeOK
  /\ ControlInv
  /\ ExclusiveSlots
  /\ IdleSlotsUsable
  /\ Accounting
  /\ NoLostWakeup

-----------------------------------------------------------------------------
(* Refinement *)

One(b) == IF b THEN 1 ELSE 0

\* The units of capacity that thread t accounts for: its guard, the slot it
\* is about to assign, the slot it is returning, the connect under way.
Units(t) ==
  One(guard[t] # NoSlot) + One(incoming[t] # NoSlot)
    + One(pc[t] = "returning") + One(pc[t] \in {"connecting", "failed"})

Permits == INSTANCE PermitPool
             WITH Clients <- Threads, Max <- MaxConnections,
                  free <- FreeUnits, held <- [t \in Threads |-> Units(t)]

\* The pool implements a counting semaphore of max_connections permits: each
\* critical section takes or gives at most one permit, a slot is acquired
\* only when a permit is free, and a discarded connection or a failed
\* connect gives back exactly the permit it was acquired with.
ImplementsPermits == Permits!Spec

=============================================================================

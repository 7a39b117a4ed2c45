----------------------------- MODULE PoolProofs -----------------------------
(***************************************************************************)
(* Theorems about KmipClientPool for any number of threads, slots and      *)
(* connections: its safety properties, and that it is a PermitPool.        *)
(***************************************************************************)
EXTENDS PoolCapacity

-----------------------------------------------------------------------------
(* The theorems *)

\* A fresh pool satisfies the invariant.
LEMMA InitInv == Init => PoolInv
<1> SUFFICES ASSUME Init PROVE PoolInv
  OBVIOUS
<1> USE PoolAssumption DEF Init
<1>1. TypeOK
  BY DEF TypeOK, PCs
<1>2. ControlInv
  BY DEF ControlInv
<1>3. ExclusiveSlots /\ IdleSlotsUsable
  BY DEF ExclusiveSlots, IdleSlotsUsable, IdleSlots, OwnedBy
<1>4. Accounting
  <2>1. Holders = {} /\ Assigners = {} /\ Returners = {} /\ Connectors = {}
    BY DEF Holders, Assigners, Returners, Connectors
  <2>2. Cardinality({}) = 0 /\ Len(available) = 0
    BY FS_EmptySet
  <2> QED
    BY <2>1, <2>2 DEF Accounting
<1>5. NoLostWakeup
  BY DEF NoLostWakeup, Waiting
<1> QED
  BY <1>1, <1>2, <1>3, <1>4, <1>5, SMTT(30) DEF PoolInv

\* Every step of every thread preserves it.
LEMMA InvStep == PoolInv /\ [Next]_vars => PoolInv'
<1> SUFFICES ASSUME PoolInv, [Next]_vars PROVE PoolInv'
  OBVIOUS
<1>1. ASSUME NEW t \in Threads,
             Inside(t) \/ Client(t) \/ TimeOut(t) \/ SpuriousWakeup(t)
      PROVE  PoolInv'
  <2>1. TypeOK'
    BY <1>1, TypeStep
  <2> QED
    BY <1>1, <2>1, ControlStep, ExclusiveStep, IdleStep, AccountingStep,
       WakeupStep, SMTT(30) DEF PoolInv
<1>2. CASE UNCHANGED vars
  <2>1. TypeOK' /\ ControlInv'
    BY <1>2, SMTT(30) DEF vars, PoolInv, TypeOK, ControlInv
  <2>2. ExclusiveSlots'
    BY <1>2 DEF vars, PoolInv, ExclusiveSlots, OwnedBy, IdleSlots
  <2>3. IdleSlotsUsable'
    BY <1>2 DEF vars, PoolInv, IdleSlotsUsable, IdleSlots
  <2>4. Accounting'
    BY <1>2 DEF vars, PoolInv, Accounting, Holders, Assigners, Returners, Connectors
  <2>5. NoLostWakeup'
    BY <1>2 DEF vars, PoolInv, NoLostWakeup, Waiting, Woken, FreeUnits
  <2> QED
    BY <2>1, <2>2, <2>3, <2>4, <2>5, SMTT(30) DEF PoolInv
<1> QED
  BY <1>1, <1>2 DEF Next

\* The inductive invariant holds in every state of every execution.
THEOREM PoolInvariant == Spec => []PoolInv
BY InitInv, InvStep, PTL DEF Spec

\* The pool's counters and pointers keep their types: total_count_ stays
\* between 0 and max_connections (return_slot and the handler of a failed
\* connect never wrap it below zero), for any number of threads.
THEOREM PoolTypes == Spec => []TypeOK
<1>1. PoolInv => TypeOK
  BY DEF PoolInv
<1> QED
  BY <1>1, PoolInvariant, PTL

\* total_count_ is exactly what exists: idle, borrowed, being returned or
\* being connected.
THEOREM PoolAccounting == Spec => []Accounting
<1>1. PoolInv => Accounting
  BY DEF PoolInv
<1> QED
  BY <1>1, PoolInvariant, PTL

\* No connection is ever in two hands.
THEOREM PoolExclusive == Spec => []ExclusiveSlots
<1>1. PoolInv => ExclusiveSlots
  BY DEF PoolInv
<1> QED
  BY <1>1, PoolInvariant, PTL

\* What borrow pops is open and was never marked unhealthy.
THEOREM PoolIdleUsable == Spec => []IdleSlotsUsable
<1>1. PoolInv => IdleSlotsUsable
  BY DEF PoolInv
<1> QED
  BY <1>1, PoolInvariant, PTL

\* notify_one in return_slot and in the handler of a failed connect is
\* enough: while a borrower sleeps, no free unit lacks a woken borrower.
THEOREM PoolNoLostWakeup == Spec => []NoLostWakeup
<1>1. PoolInv => NoLostWakeup
  BY DEF PoolInv
<1> QED
  BY <1>1, PoolInvariant, PTL

\* The initial pool is the initial permit pool.
LEMMA PermitsInit == Init => Permits!Init
<1> SUFFICES ASSUME Init PROVE Permits!Init
  OBVIOUS
<1>1. FreeUnits = MaxConnections
  BY PoolAssumption DEF Init, FreeUnits
<1>2. \A t \in Threads : Units(t) = 0
  BY DEF Init, Units, One
<1> QED
  BY <1>1, <1>2, SMTT(30) DEF Permits!Init

\* A function over Threads that changes at t only.
LEMMA HeldAt ==
  ASSUME NEW t \in Threads, NEW d, \A u \in Threads \ {t} : Units(u)' = Units(u),
         Units(t)' = d
  PROVE  [u \in Threads |-> Units(u)]' = [[u \in Threads |-> Units(u)] EXCEPT ![t] = d]
OBVIOUS

\* Every step of the pool is a step of the permit pool or leaves its state
\* alone.
LEMMA PermitsStep ==
  ASSUME PoolInv, TypeOK', [Next]_vars
  PROVE  [Permits!Next]_<<FreeUnits, [t \in Threads |-> Units(t)]>>
<1> DEFINE held == [t \in Threads |-> Units(t)]
<1>0. /\ Len(available) \in Nat /\ Len(available') \in Nat
      /\ total_count \in 0 .. MaxConnections /\ MaxConnections \in Nat
  BY PoolAssumption DEF PoolInv, TypeOK
<1>1. CASE UNCHANGED vars
  BY <1>1 DEF vars, FreeUnits, Units
<1>2. ASSUME NEW t \in Threads, NEW u \in Threads, MoveConstruct(t, u)
      PROVE  Permits!Pass(t, u)
  <2>1. /\ t # u
        /\ UNCHANGED <<available, total_count, incoming, pc>>
        /\ \A v \in Threads \ {t, u} : guard'[v] = guard[v]
        /\ guard[t] # NoSlot /\ guard'[t] = NoSlot
        /\ guard[u] = NoSlot /\ guard'[u] # NoSlot
    BY <1>2, MoveUnits, SMTT(30)
  <2>2. Units(t)' = Units(t) - 1 /\ Units(u)' = Units(u) + 1 /\ Units(t) > 0
    BY <2>1 DEF Units, One
  <2>3. \A v \in Threads \ {t, u} : Units(v)' = Units(v)
    BY <2>1 DEF Units
  <2>4. UNCHANGED FreeUnits
    BY <2>1 DEF FreeUnits
  <2>5. held' = [held EXCEPT ![t] = Units(t) - 1, ![u] = Units(u) + 1]
    BY <2>1, <2>2, <2>3, ZenonT(30)
  <2>6. held[t] = Units(t) /\ held[u] = Units(u)
    OBVIOUS
  <2> QED
    BY <2>1, <2>2, <2>4, <2>5, <2>6, SMTT(30) DEF Permits!Pass
<1>3. ASSUME NEW t \in Threads,
             Inside(t) \/ Client(t) \/ TimeOut(t) \/ SpuriousWakeup(t),
             ~ \E u \in Threads : MoveConstruct(t, u)
      PROVE  \/ Permits!Take(t) \/ Permits!Give(t)
             \/ UNCHANGED <<FreeUnits, held>>
  <2>1. /\ \A u \in Threads \ {t} : SameUnits(u)
        /\ Keeps(t) \/ Takes(t) \/ Gives(t)
    BY <1>3, UnitsStep
  <2>2. \A u \in Threads \ {t} : Units(u)' = Units(u)
    BY <2>1 DEF SameUnits, Units
  <2>3. held[t] = Units(t)
    OBVIOUS
  <2>4. CASE Keeps(t)
    <3>1. \A u \in Threads : Units(u)' = Units(u)
      BY <2>2, <2>4, SMTT(30) DEF Keeps
    <3> QED
      BY <2>4, <3>1 DEF Keeps, FreeUnits
  <2>5. CASE Takes(t)
    <3>1. FreeUnits > 0 /\ FreeUnits' = FreeUnits - 1
      BY <1>0, <2>5, SMTT(30) DEF Takes, FreeUnits
    <3>2. held' = [held EXCEPT ![t] = Units(t) + 1]
      BY <2>2, <2>5, HeldAt, SMTT(30) DEF Takes
    <3> QED
      BY <2>3, <3>1, <3>2, SMTT(30) DEF Permits!Take
  <2>6. CASE Gives(t)
    <3>1. FreeUnits' = FreeUnits + 1
      BY <1>0, <2>6, SMTT(30) DEF Gives, FreeUnits
    <3>2. held' = [held EXCEPT ![t] = Units(t) - 1] /\ Units(t) > 0
      BY <2>2, <2>6, HeldAt DEF Gives
    <3> QED
      BY <2>3, <3>1, <3>2, SMTT(30) DEF Permits!Give
  <2> QED
    BY <2>1, <2>4, <2>5, <2>6, SMTT(30)
<1> QED
  BY <1>1, <1>2, <1>3 DEF Next, Permits!Next

\* The pool implements a counting semaphore of max_connections permits: no
\* path of borrow, failed connect, move, return or discard creates, loses or
\* double-frees a permit, or acquires a slot without one.
THEOREM PoolImplementsPermits == Spec => ImplementsPermits
<1>1. PoolInv /\ PoolInv' /\ [Next]_vars
      => [Permits!Next]_<<FreeUnits, [t \in Threads |-> Units(t)]>>
  BY PermitsStep DEF PoolInv
<1> QED
  BY <1>1, PermitsInit, PoolInvariant, PTL DEF Spec, ImplementsPermits, Permits!Spec

=============================================================================

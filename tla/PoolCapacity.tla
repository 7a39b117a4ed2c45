---------------------------- MODULE PoolCapacity ----------------------------
(***************************************************************************)
(* Steps of KmipClientPool neither lose nor invent capacity, and wake a    *)
(* thread for every unit of capacity that is freed.                        *)
(***************************************************************************)
EXTENDS PoolSlots

-----------------------------------------------------------------------------
(* Counting what the threads hold *)

\* How a count changes when only t may have entered or left the set.
LEMMA CountChange ==
  ASSUME NEW S \in SUBSET Threads, NEW R \in SUBSET Threads,
         NEW t \in Threads, R \ {t} = S \ {t}
  PROVE  Cardinality(R) = Cardinality(S) + One(t \in R) - One(t \in S)
<1>1. Cardinality(S) = Cardinality(S \ {t}) + One(t \in S)
  <2>1. CASE t \in S
    BY <2>1, CountRemove, CountThreads DEF One
  <2>2. CASE t \notin S
    <3>1. S \ {t} = S
      BY <2>2
    <3> QED
      BY <2>2, <3>1, CountThreads DEF One
  <2> QED
    BY <2>1, <2>2
<1>2. Cardinality(R) = Cardinality(R \ {t}) + One(t \in R)
  <2>1. CASE t \in R
    BY <2>1, CountRemove, CountThreads DEF One
  <2>2. CASE t \notin R
    <3>1. R \ {t} = R
      BY <2>2
    <3> QED
      BY <2>2, <3>1, CountThreads DEF One
  <2> QED
    BY <2>1, <2>2
<1>3. Cardinality(S \ {t}) \in Nat /\ One(t \in S) \in Nat /\ One(t \in R) \in Nat
  BY CountThreads DEF One
<1>4. Cardinality(R \ {t}) = Cardinality(S \ {t})
  OBVIOUS
<1> QED
  BY <1>1, <1>2, <1>3, <1>4 DEF One

\* u accounts for the same units in the next state.
SameUnits(u) ==
  /\ guard'[u] # NoSlot <=> guard[u] # NoSlot
  /\ incoming'[u] # NoSlot <=> incoming[u] # NoSlot
  /\ pc'[u] = "returning" <=> pc[u] = "returning"
  /\ pc'[u] \in {"connecting", "failed"} <=> pc[u] \in {"connecting", "failed"}

\* A step in which only thread t changes what it accounts for keeps the
\* books when total_count_ and available_ change by the difference.
LEMMA AccountingAt ==
  ASSUME TypeOK, TypeOK', Accounting, NEW t \in Threads,
         \A u \in Threads \ {t} : SameUnits(u),
         total_count' = total_count + (Len(available') - Len(available))
                                    + (Units(t)' - Units(t))
  PROVE  Accounting'
<1>1. Cardinality(Holders') = Cardinality(Holders)
                              + One(guard'[t] # NoSlot) - One(guard[t] # NoSlot)
  <2>1. Holders' \ {t} = Holders \ {t}
    BY DEF Holders, SameUnits
  <2>2. Cardinality(Holders') = Cardinality(Holders) + One(t \in Holders') - One(t \in Holders)
    BY <2>1, CountChange, SMTT(30) DEF Holders
  <2> QED
    BY <2>2 DEF Holders
<1>2. Cardinality(Assigners') = Cardinality(Assigners)
                              + One(incoming'[t] # NoSlot) - One(incoming[t] # NoSlot)
  <2>1. Assigners' \ {t} = Assigners \ {t}
    BY DEF Assigners, SameUnits
  <2>2. Cardinality(Assigners') = Cardinality(Assigners) + One(t \in Assigners') - One(t \in Assigners)
    BY <2>1, CountChange, SMTT(30) DEF Assigners
  <2> QED
    BY <2>2 DEF Assigners
<1>3. Cardinality(Returners') = Cardinality(Returners)
                              + One(pc'[t] = "returning") - One(pc[t] = "returning")
  <2>1. Returners' \ {t} = Returners \ {t}
    BY DEF Returners, SameUnits
  <2>2. Cardinality(Returners') = Cardinality(Returners) + One(t \in Returners') - One(t \in Returners)
    BY <2>1, CountChange DEF Returners
  <2> QED
    BY <2>2 DEF Returners
<1>4. Cardinality(Connectors') = Cardinality(Connectors)
                              + One(pc'[t] \in {"connecting", "failed"})
                              - One(pc[t] \in {"connecting", "failed"})
  <2>1. Connectors' \ {t} = Connectors \ {t}
    BY DEF Connectors, SameUnits
  <2>2. Cardinality(Connectors') = Cardinality(Connectors) + One(t \in Connectors') - One(t \in Connectors)
    BY <2>1, CountChange DEF Connectors
  <2> QED
    BY <2>2 DEF Connectors
<1>5. /\ Cardinality(Holders) \in Nat /\ Cardinality(Assigners) \in Nat
      /\ Cardinality(Returners) \in Nat /\ Cardinality(Connectors) \in Nat
      /\ Len(available) \in Nat /\ Len(available') \in Nat
      /\ total_count \in Nat
  BY CountThreads DEF Holders, Assigners, Returners, Connectors, TypeOK
<1> DEFINE h0 == One(guard[t] # NoSlot)
           h1 == One(guard'[t] # NoSlot)
           a0 == One(incoming[t] # NoSlot)
           a1 == One(incoming'[t] # NoSlot)
           r0 == One(pc[t] = "returning")
           r1 == One(pc'[t] = "returning")
           c0 == One(pc[t] \in {"connecting", "failed"})
           c1 == One(pc'[t] \in {"connecting", "failed"})
           H0 == Cardinality(Holders)
           H1 == Cardinality(Holders')
           A0 == Cardinality(Assigners)
           A1 == Cardinality(Assigners')
           R0 == Cardinality(Returners)
           R1 == Cardinality(Returners')
           C0 == Cardinality(Connectors)
           C1 == Cardinality(Connectors')
<1>6. /\ h0 \in Nat /\ h1 \in Nat /\ a0 \in Nat /\ a1 \in Nat
      /\ r0 \in Nat /\ r1 \in Nat /\ c0 \in Nat /\ c1 \in Nat
  BY DEF One
<1>7. total_count' = total_count + (Len(available') - Len(available))
                     + ((h1 + a1 + r1 + c1) - (h0 + a0 + r0 + c0))
  BY DEF Units
<1>8. total_count = Len(available) + H0 + A0 + R0 + C0
  BY DEF Accounting
<1>9. H1 = H0 + h1 - h0 /\ A1 = A0 + a1 - a0 /\ R1 = R0 + r1 - r0 /\ C1 = C0 + c1 - c0
  BY <1>1, <1>2, <1>3, <1>4, SMTT(30)
<1>10. H0 \in Nat /\ A0 \in Nat /\ R0 \in Nat /\ C0 \in Nat
  BY <1>5
<1>11. SUFFICES total_count' = Len(available') + H1 + A1 + R1 + C1
  BY DEF Accounting
<1> HIDE DEF h0, h1, a0, a1, r0, r1, c0, c1, H0, H1, A0, A1, R0, R1, C0, C1
<1> QED
  BY <1>5, <1>6, <1>7, <1>8, <1>9, <1>10, SMTT(30)

\* What a step of thread t does to capacity: nothing, take one unit, or give
\* one back.
Keeps(t) ==
  /\ Units(t)' = Units(t)
  /\ Len(available') = Len(available) /\ total_count' = total_count
Takes(t) ==
  /\ Units(t)' = Units(t) + 1
  /\ \/ /\ Len(available) > 0
        /\ Len(available') = Len(available) - 1 /\ total_count' = total_count
     \/ /\ total_count < MaxConnections
        /\ Len(available') = Len(available) /\ total_count' = total_count + 1
Gives(t) ==
  /\ Units(t)' = Units(t) - 1
  /\ Units(t) > 0
  /\ \/ Len(available') = Len(available) + 1 /\ total_count' = total_count
     \/ Len(available') = Len(available) /\ total_count' = total_count - 1

\* A step that leaves the stack, the count and the guards alone, and moves
\* no thread into or out of a state that owns a unit, keeps capacity.
LEMMA KeepsWhenSame ==
  ASSUME NEW t \in Threads, \A u \in Threads : SameUnits(u),
         UNCHANGED <<available, total_count>>
  PROVE  Keeps(t)
<1>1. SameUnits(t)
  OBVIOUS
<1> QED
  BY <1>1 DEF SameUnits, Keeps, Units
LEMMA SameWhenOnlyPc ==
  ASSUME TypeOK, NEW t \in Threads, NEW x,
         UNCHANGED <<guard, incoming>>, pc' = [pc EXCEPT ![t] = x],
         x = "returning" <=> pc[t] = "returning",
         x \in {"connecting", "failed"} <=> pc[t] \in {"connecting", "failed"}
  PROVE  \A u \in Threads : SameUnits(u)
<1>1. pc \in [Threads -> PCs]
  BY DEF TypeOK
<1>2. \A u \in Threads : pc'[u] = IF u = t THEN x ELSE pc[u]
  BY <1>1, SMTT(30)
<1> QED
  BY <1>2, SMTT(30) DEF SameUnits

\* Every step but a move keeps, takes or gives, and only at its own thread.
LEMMA UnitsStep ==
  ASSUME PoolInv, TypeOK', NEW t \in Threads,
         Inside(t) \/ Client(t) \/ TimeOut(t) \/ SpuriousWakeup(t),
         ~ \E u \in Threads : MoveConstruct(t, u)
  PROVE  /\ \A u \in Threads \ {t} : SameUnits(u)
         /\ Keeps(t) \/ Takes(t) \/ Gives(t)
<1>0. TypeOK /\ ControlInv
  BY DEF PoolInv
<1>T. /\ pc \in [Threads -> PCs]
      /\ guard \in [Threads -> Slots \cup {NoSlot}]
      /\ incoming \in [Threads -> Slots \cup {NoSlot}]
      /\ returned \in [Threads -> Slots \cup {NoSlot}]
      /\ available \in Seq(Slots) /\ Len(available) \in Nat
      /\ total_count \in Nat
      /\ NoSlot \notin Slots
  BY <1>0, PoolAssumption, SMTT(30) DEF TypeOK
<1>1. CASE PopStep(t)
  <2> DEFINE top == available[Len(available)]
  <2>1. /\ top \in Slots
        /\ Len(available') = Len(available) - 1
        /\ Len(available) > 0
        /\ total_count' = total_count
    BY <1>T, <1>1, PopFacts, SMTT(30) DEF PopStep, PopIdle
  <2>2. Deliver(t, top)
    BY <1>1 DEF PopStep, PopIdle
  <2>3. pc[t] \notin {"returning", "connecting", "failed"} /\ incoming[t] = NoSlot
    BY <1>0, <1>1 DEF PopStep, Entering, ControlInv
  <2> HIDE DEF top
  <2>4. Units(t)' = Units(t) + 1
    BY <1>T, <2>1, <2>2, <2>3, SMTT(30) DEF Deliver, Units, One
  <2>5. \A u \in Threads \ {t} : SameUnits(u)
    BY <1>T, <2>2 DEF Deliver, SameUnits
  <2> QED
    BY <2>1, <2>4, <2>5, SMTT(30) DEF Takes
<1>2. CASE ReserveStep(t)
  <2>1. /\ pc[t] \in {"running", "woken", "timedout"}
        /\ pc' = [pc EXCEPT ![t] = "connecting"]
        /\ total_count < MaxConnections /\ total_count' = total_count + 1
        /\ UNCHANGED <<available, guard, incoming>>
    BY <1>2 DEF ReserveStep, ReserveSlot, Entering
  <2>2. Units(t)' = Units(t) + 1
    BY <1>T, <2>1 DEF Units, One
  <2>3. \A u \in Threads \ {t} : SameUnits(u)
    BY <1>T, <2>1 DEF SameUnits
  <2> QED
    BY <1>T, <2>1, <2>2, <2>3, SMTT(30) DEF Takes
<1>3. CASE WaitStep(t)
  <2>1. /\ pc[t] \in {"running", "woken"}
        /\ UNCHANGED <<available, total_count, guard, incoming>>
        /\ pc' = [pc EXCEPT ![t] = "waiting"]
    BY <1>3 DEF WaitStep, WaitOnCv
  <2>2. \A u \in Threads : SameUnits(u)
    BY <1>0, <2>1, SameWhenOnlyPc, ZenonT(30)
  <2> QED
    BY <2>1, <2>2, KeepsWhenSame, SMTT(30)
<1>4. CASE ThrowStep(t)
  <2>1. /\ pc[t] = "timedout"
        /\ UNCHANGED <<available, total_count, guard, incoming>>
        /\ pc' = [pc EXCEPT ![t] = "running"]
    BY <1>4 DEF ThrowStep
  <2>2. \A u \in Threads : SameUnits(u)
    BY <1>0, <2>1, SameWhenOnlyPc, ZenonT(30)
  <2> QED
    BY <2>1, <2>2, KeepsWhenSame
<1>5. CASE CreateSlot(t)
  <2>1. PICK s \in Slots : Deliver(t, s)
    BY <1>5 DEF CreateSlot
  <2>2. /\ pc[t] = "connecting" /\ incoming[t] = NoSlot
        /\ UNCHANGED <<available, total_count>>
    BY <1>0, <1>5, SMTT(30) DEF CreateSlot, ControlInv
  <2>3. Units(t)' = Units(t)
    BY <1>T, <2>1, <2>2, SMTT(30) DEF Deliver, Units, One
  <2>4. \A u \in Threads \ {t} : SameUnits(u)
    BY <1>T, <2>1, SMTT(30) DEF Deliver, SameUnits
  <2> QED
    BY <2>2, <2>3, <2>4, SMTT(30) DEF Keeps
<1>6. CASE CreateSlotThrows(t)
  <2>1. /\ pc[t] = "connecting"
        /\ UNCHANGED <<available, total_count, guard, incoming>>
        /\ pc' = [pc EXCEPT ![t] = "failed"]
    BY <1>6 DEF CreateSlotThrows
  <2>2. \A u \in Threads : SameUnits(u)
    BY <1>0, <2>1, SameWhenOnlyPc, ZenonT(30)
  <2> QED
    BY <2>1, <2>2, KeepsWhenSame, SMTT(30)
<1>7. CASE GiveBackReservation(t)
  <2>1. /\ pc'[t] = "running"
        /\ \A u \in Threads \ {t} : pc'[u] = pc[u] \/ (pc[u] = "waiting" /\ pc'[u] = "woken")
    BY <1>0, <1>7, NotifyAfter, SMTT(30) DEF GiveBackReservation
  <2>2. /\ pc[t] = "failed" /\ total_count' = total_count - 1
        /\ UNCHANGED <<available, guard, incoming>>
    BY <1>7 DEF GiveBackReservation
  <2>3. Units(t)' = Units(t) - 1 /\ Units(t) > 0
    BY <2>1, <2>2 DEF Units, One
  <2>4. \A u \in Threads \ {t} : SameUnits(u)
    BY <2>1, <2>2, SMTT(30) DEF SameUnits
  <2> QED
    BY <2>2, <2>3, <2>4, SMTT(30) DEF Gives
<1>8. CASE ReturnSlot(t)
  <2>1. /\ pc[t] \in {"running", "assigning"} /\ guard[t] # NoSlot
        /\ pc' = [pc EXCEPT ![t] = "returning"]
        /\ guard' = [guard EXCEPT ![t] = NoSlot]
        /\ UNCHANGED <<available, total_count, incoming>>
    BY <1>8, SMTT(30) DEF ReturnSlot
  <2>2. Units(t)' = Units(t)
    BY <1>T, <2>1, SMTT(30) DEF Units, One
  <2>3. \A u \in Threads \ {t} : SameUnits(u)
    BY <1>T, <2>1 DEF SameUnits
  <2> QED
    BY <2>1, <2>2, <2>3, SMTT(30) DEF Keeps
<1>9. CASE ReturnSlotLocked(t)
  <2>1. /\ pc'[t] \in {"running", "destroying"}
        /\ \A u \in Threads \ {t} : pc'[u] = pc[u] \/ (pc[u] = "waiting" /\ pc'[u] = "woken")
    BY <1>0, <1>9, NotifyAfter, ZenonT(30) DEF ReturnSlotLocked
  <2>2. guard[t] = NoSlot /\ pc[t] = "returning" /\ returned[t] \in Slots
    BY <1>0, <1>T, <1>9, SMTT(30) DEF ReturnSlotLocked, ControlInv
  <2>3. \/ UNCHANGED <<guard, incoming>>
        \/ /\ guard' = [guard EXCEPT ![t] = incoming[t]]
           /\ incoming' = [incoming EXCEPT ![t] = NoSlot]
    BY <1>9, SMTT(30) DEF ReturnSlotLocked, LeaveReturnSlot
  <2>4. Units(t)' = Units(t) - 1 /\ Units(t) > 0
    BY <1>T, <2>1, <2>2, <2>3, SMTT(30) DEF Units, One
  <2>5. \A u \in Threads \ {t} : SameUnits(u)
    BY <1>T, <2>1, <2>3, SMTT(30) DEF SameUnits
  <2>6. \/ Len(available') = Len(available) + 1 /\ total_count' = total_count
        \/ Len(available') = Len(available) /\ total_count' = total_count - 1
    BY <1>T, <1>9, <2>2, PushFacts, SMTT(30) DEF ReturnSlotLocked
  <2> QED
    BY <2>4, <2>5, <2>6, SMTT(30) DEF Gives
<1>10. CASE DestroySlot(t)
  <2>1. /\ guard' = [guard EXCEPT ![t] = incoming[t]]
        /\ incoming' = [incoming EXCEPT ![t] = NoSlot]
        /\ pc' = [pc EXCEPT ![t] = "running"]
        /\ UNCHANGED <<available, total_count>>
        /\ pc[t] = "destroying"
    BY <1>10, SMTT(30) DEF DestroySlot, LeaveReturnSlot
  <2>2. guard[t] = NoSlot
    BY <1>0, <2>1, SMTT(30) DEF ControlInv
  <2>3. /\ guard'[t] = incoming[t] /\ incoming'[t] = NoSlot /\ pc'[t] = "running"
        /\ \A u \in Threads \ {t} : /\ guard'[u] = guard[u]
                                     /\ incoming'[u] = incoming[u]
                                     /\ pc'[u] = pc[u]
    BY <1>T, <2>1, SMTT(30)
  <2>4. Units(t)' = Units(t)
    BY <2>1, <2>2, <2>3, SMTT(30) DEF Units, One
  <2>5. \A u \in Threads \ {t} : SameUnits(u)
    BY <2>3, SMTT(30) DEF SameUnits
  <2> QED
    BY <2>1, <2>4, <2>5, SMTT(30) DEF Keeps
<1>11. CASE \/ UseClient(t) \/ MarkUnhealthy(t) \/ UNCHANGED vars
  <2>1. UNCHANGED <<available, total_count, guard, incoming, pc>>
    BY <1>11 DEF UseClient, MarkUnhealthy, vars
  <2>2. \A u \in Threads : SameUnits(u)
    BY <2>1 DEF SameUnits
  <2> QED
    BY <2>1, <2>2, KeepsWhenSame, SMTT(30)
<1>12. CASE TimeOut(t) \/ SpuriousWakeup(t)
  <2>1. PICK x \in {"timedout", "woken"} :
               /\ pc[t] = "waiting"
               /\ UNCHANGED <<available, total_count, guard, incoming>>
               /\ pc' = [pc EXCEPT ![t] = x]
    BY <1>12, SMTT(30) DEF TimeOut, SpuriousWakeup
  <2>2. \A u \in Threads : SameUnits(u)
    BY <1>0, <2>1, SameWhenOnlyPc, ZenonT(30)
  <2> QED
    BY <2>1, <2>2, KeepsWhenSame, SMTT(30)
<1> QED
  BY <1>0, StepCases, <1>1, <1>2, <1>3, <1>4, <1>5, <1>6, <1>7, <1>8, <1>9, SMTT(30),
     <1>10, <1>11, <1>12

\* A move passes the unit of one guard to another.
LEMMA MoveUnits ==
  ASSUME PoolInv, TypeOK', NEW t \in Threads, NEW u \in Threads,
         MoveConstruct(t, u)
  PROVE  /\ t # u
         /\ UNCHANGED <<available, total_count, incoming, pc>>
         /\ \A v \in Threads \ {t, u} : guard'[v] = guard[v]
         /\ guard[t] # NoSlot /\ guard'[t] = NoSlot
         /\ guard[u] = NoSlot /\ guard'[u] # NoSlot
BY DEF PoolInv, TypeOK, MoveConstruct

\* total_count_ stays the number of slots and reservations that exist.
LEMMA AccountingStep ==
  ASSUME PoolInv, TypeOK', NEW t \in Threads,
         Inside(t) \/ Client(t) \/ TimeOut(t) \/ SpuriousWakeup(t)
  PROVE  Accounting'
<1>0. TypeOK /\ Accounting
  BY DEF PoolInv
<1>1. CASE ~ \E u \in Threads : MoveConstruct(t, u)
  <2>1. /\ \A u \in Threads \ {t} : SameUnits(u)
        /\ Keeps(t) \/ Takes(t) \/ Gives(t)
    BY <1>1, UnitsStep, SMTT(30)
  <2>2. Units(t) \in Nat /\ Len(available) \in Nat /\ total_count \in Nat
    BY <1>0, SMTT(30) DEF Units, One, TypeOK
  <2>3. total_count' = total_count + (Len(available') - Len(available))
                                   + (Units(t)' - Units(t))
    BY <2>1, <2>2, SMTT(30) DEF Keeps, Takes, Gives
  <2> QED
    BY <1>0, <2>1, <2>3, AccountingAt, SMTT(30)
<1>2. CASE \E u \in Threads : MoveConstruct(t, u)
  <2>1. PICK u \in Threads : MoveConstruct(t, u)
    BY <1>2, SMTT(30)
  <2>2. Holders' = (Holders \ {t}) \cup {u} /\ t \in Holders /\ u \notin Holders
    BY <2>1, MoveUnits, SMTT(30) DEF Holders
  <2>3. Cardinality(Holders') = Cardinality(Holders \ {t}) + 1
    BY <2>2, CountAdd, SMTT(30) DEF Holders
  <2>4. Cardinality(Holders \ {t}) = Cardinality(Holders) - 1
    BY <2>2, CountRemove, SMTT(30) DEF Holders
  <2>5. Cardinality(Holders') = Cardinality(Holders)
    BY <2>3, <2>4, CountThreads, SMTT(30) DEF Holders
  <2>6. UNCHANGED <<available, total_count, Assigners, Returners, Connectors>>
    BY <2>1, MoveUnits, SMTT(30) DEF Assigners, Returners, Connectors
  <2> QED
    BY <1>0, <2>5, <2>6, SMTT(30) DEF Accounting
<1> QED
  BY <1>1, <1>2

\* A notified waiter is one more woken thread; without a waiter there is
\* still none.
LEMMA NotifyWakes ==
  ASSUME TypeOK, NEW t \in Threads, NEW p,
         pc[t] \notin {"waiting", "woken"}, p \notin {"waiting", "woken"},
         NotifyOne([pc EXCEPT ![t] = p])
  PROVE  \/ Waiting' = {}
         \/ Cardinality(Woken') = Cardinality(Woken) + 1
<1> DEFINE new == [pc EXCEPT ![t] = p]
<1>1. /\ new = [u \in Threads |-> new[u]]
      /\ new[t] = p
      /\ \A u \in Threads \ {t} : new[u] = pc[u]
  BY ZenonT(30) DEF TypeOK
<1>2. NotifyOne(new)
  OBVIOUS
<1> HIDE DEF new
<1>3. CASE Waiting = {} /\ pc' = new
  BY <1>1, <1>3 DEF Waiting
<1>4. ASSUME NEW u \in Waiting, pc' = [new EXCEPT ![u] = "woken"]
      PROVE  Cardinality(Woken') = Cardinality(Woken) + 1
  <2>1. Woken' = Woken \cup {u} /\ u \notin Woken /\ u \in Threads
    BY <1>1, <1>4, SMTT(30) DEF Waiting, Woken
  <2> QED
    BY <2>1, CountAdd DEF Woken
<1> QED
  BY <1>2, <1>3, <1>4, SMTT(30) DEF NotifyOne

\* No step leaves a free unit that no woken thread will look for: a thread
\* goes to sleep only when nothing is free, whoever frees a unit notifies,
\* and a woken thread takes a unit or finds none.
LEMMA WakeupStep ==
  ASSUME PoolInv, TypeOK', NEW t \in Threads,
         Inside(t) \/ Client(t) \/ TimeOut(t) \/ SpuriousWakeup(t)
  PROVE  NoLostWakeup'
<1>0. TypeOK /\ NoLostWakeup
  BY DEF PoolInv
<1>1. /\ Len(available) \in Nat /\ Len(available') \in Nat
      /\ total_count \in 0 .. MaxConnections /\ total_count' \in 0 .. MaxConnections
      /\ MaxConnections \in Nat
      /\ Cardinality(Woken) \in Nat /\ Cardinality(Woken') \in Nat
  BY <1>0, CountThreads, PoolAssumption, SMTT(30) DEF TypeOK, Woken
<1>2. CASE UNCHANGED <<available, total_count, pc>>
  BY <1>0, <1>2, SMTT(30) DEF NoLostWakeup, FreeUnits, Waiting, Woken
<1>3. CASE \E u \in Threads : MoveConstruct(t, u)
  BY <1>2, <1>3, SMTT(30) DEF MoveConstruct
<1>4. CASE /\ Waiting' \subseteq Waiting
           /\ Woken \subseteq Woken'
           /\ UNCHANGED <<available, total_count>>
  <2>1. Cardinality(Woken) <= Cardinality(Woken')
    BY <1>4, CountThreads, FS_Subset, SMTT(30) DEF Woken
  <2> QED
    BY <1>0, <1>1, <1>4, <2>1, SMTT(30) DEF NoLostWakeup, FreeUnits
<1>5. CASE (PopStep(t) \/ ReserveStep(t)) /\ Takes(t)
  <2>1. /\ pc'[t] \notin {"waiting", "woken"}
        /\ \A u \in Threads \ {t} : pc'[u] = pc[u]
    BY <1>0, <1>5, SMTT(30) DEF TypeOK, PopStep, PopIdle, Deliver, ReserveStep, ReserveSlot
  <2>2. Woken' = Woken \ {t} /\ Waiting' \subseteq Waiting
    BY <2>1 DEF Woken, Waiting
  <2>3. Cardinality(Woken') >= Cardinality(Woken) - 1
    <3>1. CASE t \in Woken
      <4>1. Cardinality(Woken \ {t}) = Cardinality(Woken) - 1
        BY <3>1, CountRemove, SMTT(30) DEF Woken
      <4> QED
        BY <1>1, <2>2, <4>1, SMTT(30)
    <3>2. CASE t \notin Woken
      <4>1. Woken' = Woken
        BY <2>2, <3>2, SMTT(30)
      <4> QED
        BY <1>1, <4>1
    <3> QED
      BY <3>1, <3>2
  <2>4. FreeUnits' = FreeUnits - 1
    BY <1>1, <1>5, SMTT(30) DEF Takes, FreeUnits
  <2>5. FreeUnits \in Nat
    BY <1>1 DEF FreeUnits
  <2> QED
    BY <1>0, <1>1, <2>2, <2>3, <2>4, <2>5, SMTT(30) DEF NoLostWakeup
<1>6. CASE WaitStep(t)
  <2>1. available = <<>> /\ total_count >= MaxConnections
    BY <1>1, <1>6 DEF WaitStep, SlotAvailable
  <2>2. UNCHANGED <<available, total_count>>
    BY <1>6 DEF WaitStep, WaitOnCv
  <2>3. FreeUnits' = 0
    BY <1>1, <2>1, <2>2, SMTT(30) DEF FreeUnits
  <2> QED
    BY <1>1, <2>3, SMTT(30) DEF NoLostWakeup
<1>7. CASE (GiveBackReservation(t) \/ ReturnSlotLocked(t)) /\ Gives(t)
  <2>1. \/ Waiting' = {}
        \/ Cardinality(Woken') = Cardinality(Woken) + 1
    BY <1>0, <1>7, NotifyWakes, ZenonT(30) DEF GiveBackReservation, ReturnSlotLocked
  <2>2. \A u \in Threads \ {t} : pc'[u] = pc[u] \/ (pc[u] = "waiting" /\ pc'[u] = "woken")
    BY <1>0, <1>7, NotifyAfter, ZenonT(30) DEF GiveBackReservation, ReturnSlotLocked
  <2>3. pc'[t] # "waiting"
    BY <1>0, <1>7, NotifyAfter, ZenonT(30) DEF GiveBackReservation, ReturnSlotLocked
  <2>4. Waiting' \subseteq Waiting
    BY <2>2, <2>3 DEF Waiting
  <2>5. FreeUnits' = FreeUnits + 1 /\ FreeUnits \in Nat
    BY <1>1, <1>7, SMTT(30) DEF Gives, FreeUnits
  <2> QED
    BY <1>0, <1>1, <2>1, <2>4, <2>5, SMTT(30) DEF NoLostWakeup
<1>8. CASE PopStep(t) \/ ReserveStep(t)
  <2>1. Units(t) \in Nat
    BY SMTT(30) DEF Units, One
  <2>2. ~ Keeps(t) /\ ~ Gives(t) /\ ~ \E u \in Threads : MoveConstruct(t, u)
    BY <1>0, <1>1, <1>8, PopFacts, SMTT(30) DEF PopStep, PopIdle, ReserveStep, ReserveSlot,
       Keeps, Gives, TypeOK, MoveConstruct
  <2> QED
    BY <1>5, <1>8, <2>2, UnitsStep, SMTT(30)
<1>9. CASE GiveBackReservation(t) \/ ReturnSlotLocked(t)
  <2>1. returned[t] \in Slots \/ GiveBackReservation(t)
    BY <1>0, <1>9, SMTT(30) DEF ReturnSlotLocked, PoolInv, ControlInv, TypeOK
  <2>2. \/ Len(available') = Len(available) + 1 /\ total_count' = total_count
        \/ Len(available') = Len(available) /\ total_count' = total_count - 1
    <3>1. CASE available' = Append(available, returned[t]) /\ total_count' = total_count
               /\ returned[t] \in Slots
      <4>1. available \in Seq(Slots)
        BY <1>0 DEF TypeOK
      <4> QED
        BY <3>1, <4>1, PushFacts, SMTT(30)
    <3>2. CASE available' = available /\ total_count' = total_count - 1
      BY <3>2
    <3>3. CASE GiveBackReservation(t)
      BY <3>2, <3>3, SMTT(30) DEF GiveBackReservation
    <3>4. CASE ReturnSlotLocked(t) /\ returned[t] \in Slots
      BY <3>1, <3>2, <3>4, SMTT(30) DEF ReturnSlotLocked
    <3> QED
      BY <1>9, <2>1, <3>3, <3>4, SMTT(30)
  <2>3. pc[t] \in {"failed", "returning"}
    BY <1>9 DEF GiveBackReservation, ReturnSlotLocked
  <2>4. ~ \E u \in Threads : MoveConstruct(t, u)
    BY <2>3 DEF MoveConstruct
  <2>5. ~ Keeps(t) /\ ~ Takes(t)
    BY <1>1, <2>2, SMTT(30) DEF Keeps, Takes
  <2> QED
    BY <1>7, <1>9, <2>4, <2>5, UnitsStep, SMTT(30)
<1>10. CASE ThrowStep(t) \/ CreateSlotThrows(t) \/ TimeOut(t) \/ SpuriousWakeup(t)
  BY <1>0, <1>4, <1>10, SMTT(30) DEF TypeOK, ThrowStep, CreateSlotThrows, TimeOut,
     SpuriousWakeup, Waiting, Woken
<1>11. CASE CreateSlot(t) \/ ReturnSlot(t) \/ DestroySlot(t)
  BY <1>0, <1>4, <1>11, SMTT(30) DEF TypeOK, CreateSlot, Deliver, ReturnSlot, DestroySlot,
     Waiting, Woken
<1> QED
  BY <1>0, StepCases, <1>2, <1>3, <1>6, <1>8, <1>9, <1>10, <1>11, SMTT(30)
     DEF UseClient, MarkUnhealthy, vars

=============================================================================

----------------------------- MODULE PoolSlots ------------------------------
(***************************************************************************)
(* Steps of KmipClientPool preserve its type invariant, the exclusive      *)
(* ownership of slots, and what threads and idle slots rely on.            *)
(***************************************************************************)
EXTENDS Pool, FiniteSetTheorems, SequenceTheorems, TLAPS

-----------------------------------------------------------------------------
(* Facts about the stack and about counting threads *)

\* Popping the stack: what remains is a sequence of the same slots, one
\* shorter.
LEMMA PopFacts ==
  ASSUME NEW S, NEW q \in Seq(S), q # <<>>
  PROVE  LET f == SubSeq(q, 1, Len(q) - 1) IN
         /\ f \in Seq(S)
         /\ Len(f) = Len(q) - 1
         /\ \A i \in 1 .. (Len(q) - 1) : f[i] = q[i]
         /\ q[Len(q)] \in S
         /\ Len(q) \in Nat \ {0}
<1> DEFINE n == Len(q) - 1
<1>1. Len(q) \in Nat \ {0} /\ \A i \in 1 .. Len(q) : q[i] \in S
  OBVIOUS
<1>2. n \in Nat /\ Len(q) = n + 1 /\ \A i \in 1 .. n : q[i] \in S
  BY <1>1
<1> HIDE DEF n
<1>3. /\ SubSeq(q, 1, n) \in Seq(S)
      /\ Len(SubSeq(q, 1, n)) = IF 1 <= n THEN n - 1 + 1 ELSE 0
      /\ \A i \in 1 .. (n - 1 + 1) : SubSeq(q, 1, n)[i] = q[1 + i - 1]
  BY <1>2, SubSeqProperties
<1>4. Len(SubSeq(q, 1, n)) = n
  <2>1. CASE 1 <= n
    BY <1>2, <1>3, <2>1
  <2>2. CASE n = 0
    BY <1>2, <1>3, <2>2
  <2> QED
    BY <1>2, <2>1, <2>2
<1>5. ASSUME NEW i \in 1 .. n
      PROVE  SubSeq(q, 1, n)[i] = q[i]
  <2>1. i \in 1 .. (n - 1 + 1) /\ 1 + i - 1 = i
    BY <1>2
  <2> QED
    BY <1>3, <2>1
<1> QED
  BY <1>1, <1>3, <1>4, <1>5 DEF n

\* Pushing on the stack: the earlier slots stay where they are.
LEMMA PushFacts ==
  ASSUME NEW S, NEW q \in Seq(S), NEW s \in S
  PROVE  LET f == Append(q, s) IN
         /\ f \in Seq(S)
         /\ Len(f) = Len(q) + 1
         /\ \A i \in 1 .. Len(q) : f[i] = q[i]
         /\ f[Len(q) + 1] = s
         /\ Len(q) \in Nat
BY AppendProperties, LenProperties

\* A set of threads is finite and has a natural number of members.
LEMMA CountThreads ==
  ASSUME NEW S \in SUBSET Threads
  PROVE  /\ IsFiniteSet(S)
         /\ Cardinality(S) \in Nat
         /\ S # {} => Cardinality(S) > 0
BY PoolAssumption, FS_Subset, FS_CardinalityType, FS_EmptySet

\* One more thread in a set of threads.
LEMMA CountAdd ==
  ASSUME NEW S \in SUBSET Threads, NEW t \in Threads, t \notin S
  PROVE  Cardinality(S \cup {t}) = Cardinality(S) + 1
BY CountThreads, FS_AddElement

\* One thread less in a set of threads.
LEMMA CountRemove ==
  ASSUME NEW S \in SUBSET Threads, NEW t \in S
  PROVE  Cardinality(S \ {t}) = Cardinality(S) - 1
BY CountThreads, FS_RemoveElement

-----------------------------------------------------------------------------
(* The steps of Next *)

\* The outcomes of a critical section of borrow(), borrow(timeout) or
\* try_borrow(), whichever call it is part of.
Entering(t) == pc[t] \in {"running", "woken", "timedout"}
PopStep(t) == Entering(t) /\ PopIdle(t)
ReserveStep(t) == Entering(t) /\ total_count < MaxConnections /\ ReserveSlot(t)
WaitStep(t) ==
  /\ pc[t] \in {"running", "woken"}
  /\ ~SlotAvailable
  /\ \E b \in BOOLEAN : WaitOnCv(t, b)
ThrowStep(t) ==
  /\ pc[t] = "timedout"
  /\ pc' = [pc EXCEPT ![t] = "running"]
  /\ timed' = [timed EXCEPT ![t] = FALSE]
  /\ UNCHANGED <<available, total_count, guard, healthy, incoming, returned,
                 discard, connected, tainted>>

\* Every step of a thread is one of these.
LEMMA StepCases ==
  ASSUME TypeOK, NEW t \in Threads,
         Inside(t) \/ Client(t) \/ TimeOut(t) \/ SpuriousWakeup(t)
  PROVE  \/ PopStep(t) \/ ReserveStep(t) \/ WaitStep(t) \/ ThrowStep(t)
         \/ CreateSlot(t) \/ CreateSlotThrows(t) \/ GiveBackReservation(t)
         \/ ReturnSlot(t) \/ ReturnSlotLocked(t) \/ DestroySlot(t)
         \/ UseClient(t) \/ MarkUnhealthy(t)
         \/ \E u \in Threads : MoveConstruct(t, u)
         \/ TimeOut(t) \/ SpuriousWakeup(t) \/ UNCHANGED vars
<1>1. CASE SlotAvailable /\ AcquireLocked(t) /\ Entering(t)
  BY <1>1 DEF SlotAvailable, AcquireLocked, PopStep, ReserveStep, ReserveSlot
<1>2. CASE Borrow(t)
  BY <1>1, <1>2 DEF Borrow, MayBorrow, Entering, WaitStep
<1>3. CASE TryBorrow(t)
  BY <1>1, <1>3 DEF TryBorrow, MayBorrow, Entering
<1>4. CASE Recheck(t)
  <2>1. timed[t] \in BOOLEAN
    BY DEF TypeOK
  <2> QED
    BY <1>1, <1>4, <2>1 DEF Recheck, Entering, WaitStep
<1>5. CASE RecheckTimedOut(t)
  BY <1>1, <1>5 DEF RecheckTimedOut, Entering, ThrowStep
<1> QED
  BY <1>2, <1>3, <1>4, <1>5 DEF Inside, Client

-----------------------------------------------------------------------------
(* Types, ownership and fitness of slots: one lemma per conjunct *)

\* A thread that is about to decrement total_count_ is counted in it.
LEMMA Counted ==
  ASSUME TypeOK, Accounting, NEW t \in Threads, pc[t] \in {"returning", "failed"}
  PROVE  total_count - 1 \in 0 .. MaxConnections
<1>1. /\ Cardinality(Holders) \in Nat
      /\ Cardinality(Assigners) \in Nat
      /\ Cardinality(Returners) \in Nat
      /\ Cardinality(Connectors) \in Nat
  BY CountThreads DEF Holders, Assigners, Returners, Connectors
<1>2. Returners # {} \/ Connectors # {}
  BY DEF Returners, Connectors
<1>3. Cardinality(Returners) > 0 \/ Cardinality(Connectors) > 0
  BY <1>2, CountThreads DEF Returners, Connectors
<1>4. Len(available) \in Nat /\ total_count \in 0 .. MaxConnections
  BY DEF TypeOK
<1> QED
  BY <1>1, <1>3, <1>4, PoolAssumption, SMTT(30) DEF Accounting

\* What notify_one leaves alone: only a waiting thread moves, and only to
\* "woken".
LEMMA NotifyFacts ==
  ASSUME NEW newpc \in [Threads -> PCs], NotifyOne(newpc)
  PROVE  /\ pc' \in [Threads -> PCs]
         /\ \A u \in Threads : \/ pc'[u] = newpc[u]
                               \/ pc[u] = "waiting" /\ pc'[u] = "woken"
BY DEF NotifyOne, PCs, Waiting

\* A thread that leaves a critical section at p and notifies: it moves to p,
\* and no other thread moves but one that was waiting.
LEMMA NotifyAfter ==
  ASSUME TypeOK, NEW t \in Threads, NEW p, pc[t] # "waiting",
         NotifyOne([pc EXCEPT ![t] = p])
  PROVE  /\ pc'[t] = p
         /\ \A u \in Threads \ {t} :
              pc'[u] = pc[u] \/ (pc[u] = "waiting" /\ pc'[u] = "woken")
<1> DEFINE new == [pc EXCEPT ![t] = p]
<1>1. /\ new = [u \in Threads |-> new[u]]
      /\ new[t] = p
      /\ \A u \in Threads \ {t} : new[u] = pc[u]
  BY ZenonT(30) DEF TypeOK
<1>2. NotifyOne(new)
  OBVIOUS
<1> HIDE DEF new
<1>3. CASE pc' = new
  BY <1>1, <1>3
<1>4. ASSUME NEW u \in Waiting, pc' = [new EXCEPT ![u] = "woken"]
      PROVE  /\ pc'[t] = p
             /\ \A v \in Threads \ {t} :
                  pc'[v] = pc[v] \/ (pc[v] = "waiting" /\ pc'[v] = "woken")
  BY <1>1, <1>4 DEF Waiting
<1> QED
  BY <1>2, <1>3, <1>4 DEF NotifyOne

\* Handing a slot to a thread keeps the types.
LEMMA DeliverTypes ==
  ASSUME TypeOK, NEW t \in Threads, NEW s \in Slots, Deliver(t, s)
  PROVE  /\ pc' \in [Threads -> PCs]
         /\ guard' \in [Threads -> Slots \cup {NoSlot}]
         /\ incoming' \in [Threads -> Slots \cup {NoSlot}]
         /\ healthy' \in [Threads -> BOOLEAN]
<1> USE DEF TypeOK
<1>1. pc' \in [Threads -> PCs]
  BY DEF Deliver, PCs
<1>2. guard' \in [Threads -> Slots \cup {NoSlot}]
  BY DEF Deliver
<1>3. incoming' \in [Threads -> Slots \cup {NoSlot}]
  BY DEF Deliver
<1>4. healthy' \in [Threads -> BOOLEAN]
  BY ZenonT(30) DEF Deliver
<1> QED
  BY <1>1, <1>2, <1>3, <1>4

\* Types are preserved; total_count_ is not decremented below zero because
\* the thread that gives capacity back is itself counted.
LEMMA TypeStep ==
  ASSUME PoolInv, NEW t \in Threads,
         Inside(t) \/ Client(t) \/ TimeOut(t) \/ SpuriousWakeup(t)
  PROVE  TypeOK'
<1> USE PoolAssumption DEF TypeOK, PCs
<1>0. TypeOK /\ ControlInv /\ Accounting
  BY DEF PoolInv
<1>1. CASE PopStep(t)
  <2>1. available' \in Seq(Slots) /\ available[Len(available)] \in Slots
    BY <1>0, <1>1, PopFacts, SMTT(30) DEF PopStep, PopIdle
  <2>2. /\ pc' \in [Threads -> PCs]
        /\ guard' \in [Threads -> Slots \cup {NoSlot}]
        /\ incoming' \in [Threads -> Slots \cup {NoSlot}]
        /\ healthy' \in [Threads -> BOOLEAN]
    BY <1>0, <1>1, <2>1, DeliverTypes, SMTT(30) DEF PopStep, PopIdle
  <2> QED
    BY <1>0, <1>1, <2>1, <2>2, ZenonT(30) DEF PopStep, PopIdle
<1>2. CASE ReserveStep(t)
  BY <1>0, <1>2 DEF ReserveStep, ReserveSlot, Entering
<1>3. CASE WaitStep(t)
  BY <1>0, <1>3 DEF WaitStep, WaitOnCv
<1>4. CASE ThrowStep(t)
  BY <1>0, <1>4 DEF ThrowStep
<1>5. CASE CreateSlot(t)
  <2>1. PICK s \in Slots : /\ connected' = [connected EXCEPT ![s] = TRUE]
                           /\ tainted' = tainted \ {s}
                           /\ Deliver(t, s)
    BY <1>5, ZenonT(30) DEF CreateSlot
  <2>2. UNCHANGED <<available, total_count, timed, returned, discard>>
    BY <1>5 DEF CreateSlot
  <2>3. /\ pc' \in [Threads -> PCs]
        /\ guard' \in [Threads -> Slots \cup {NoSlot}]
        /\ incoming' \in [Threads -> Slots \cup {NoSlot}]
        /\ healthy' \in [Threads -> BOOLEAN]
    BY <1>0, <2>1, DeliverTypes
  <2> QED
    BY <1>0, <2>1, <2>2, <2>3
<1>6. CASE CreateSlotThrows(t)
  BY <1>0, <1>6, SMTT(30) DEF CreateSlotThrows
<1>7. CASE GiveBackReservation(t)
  <2>1. pc' \in [Threads -> PCs]
    BY <1>0, <1>7, NotifyFacts, ZenonT(30) DEF GiveBackReservation
  <2> QED
    BY <1>0, <1>7, <2>1, Counted, SMTT(30) DEF GiveBackReservation
<1>8. CASE ReturnSlot(t)
  BY <1>0, <1>8 DEF ReturnSlot
<1>9. CASE ReturnSlotLocked(t)
  <2>1. pc' \in [Threads -> PCs]
    BY <1>0, <1>9, NotifyFacts, ZenonT(30) DEF ReturnSlotLocked
  <2>2. CASE ~discard[t]
    <3>1. returned[t] \in Slots
      BY <1>0, <1>9 DEF ReturnSlotLocked, ControlInv
    <3>2. available' = Append(available, returned[t])
      BY <1>9, <2>2 DEF ReturnSlotLocked
    <3>3. available' \in Seq(Slots)
      BY <1>0, <3>1, <3>2, PushFacts, SMTT(30)
    <3> QED
      BY <1>0, <1>9, <2>1, <2>2, <3>3, ZenonT(30) DEF ReturnSlotLocked, LeaveReturnSlot
  <2>3. CASE discard[t]
    BY <1>0, <1>9, <2>1, <2>3, Counted, SMTT(30) DEF ReturnSlotLocked
  <2> QED
    BY <2>2, <2>3
<1>10. CASE DestroySlot(t)
  BY <1>0, <1>10, ZenonT(30) DEF DestroySlot, LeaveReturnSlot
<1>11. CASE UseClient(t)
  BY <1>0, <1>11 DEF UseClient
<1>12. CASE MarkUnhealthy(t)
  BY <1>0, <1>12 DEF MarkUnhealthy
<1>13. CASE \E u \in Threads : MoveConstruct(t, u)
  BY <1>0, <1>13, SMTT(30) DEF MoveConstruct
<1>14. CASE TimeOut(t)
  BY <1>0, <1>14, SMTT(30) DEF TimeOut
<1>15. CASE SpuriousWakeup(t)
  BY <1>0, <1>15 DEF SpuriousWakeup
<1>16. CASE UNCHANGED vars
  BY <1>0, <1>16 DEF vars
<1> QED
  BY <1>0, StepCases, <1>1, <1>2, <1>3, <1>4, <1>5, <1>6, <1>7, <1>8, <1>9,
     <1>10, <1>11, <1>12, <1>13, <1>14, <1>15, <1>16, ZenonT(30)

\* ExclusiveSlots spelled out per variable, the form the steps are proved in.
Apart ==
  /\ \A i, j \in 1 .. Len(available) : available[i] = available[j] => i = j
  /\ \A t \in Threads, i \in 1 .. Len(available) :
       available[i] \notin {guard[t], incoming[t], returned[t]}
  /\ \A t, u \in Threads : t # u =>
       /\ guard[t] # NoSlot => guard[t] \notin {guard[u], incoming[u], returned[u]}
       /\ incoming[t] # NoSlot => incoming[t] \notin {incoming[u], returned[u]}
       /\ returned[t] # NoSlot => returned[t] # returned[u]
  /\ \A t \in Threads :
       /\ guard[t] # NoSlot => guard[t] \notin {incoming[t], returned[t]}
       /\ incoming[t] # NoSlot => incoming[t] # returned[t]

\* The two forms agree.
LEMMA ApartFromExclusive ==
  ASSUME TypeOK, ExclusiveSlots
  PROVE  Apart
<1> USE PoolAssumption DEF TypeOK, ExclusiveSlots, OwnedBy, IdleSlots
<1>1. DOMAIN available = 1 .. Len(available) /\ \A i \in 1 .. Len(available) : available[i] \in Slots
  OBVIOUS
<1>2. ASSUME NEW t \in Threads, NEW i \in 1 .. Len(available)
      PROVE  available[i] \notin {guard[t], incoming[t], returned[t]}
  <2>1. available[i] \in IdleSlots /\ available[i] # NoSlot
    BY <1>1
  <2>2. available[i] \notin OwnedBy(t)
    BY <2>1, ZenonT(30)
  <2> QED
    BY <2>1, <2>2
<1> QED
  BY <1>1, <1>2, ZenonT(30) DEF Apart

\* The same for the next state.
LEMMA ExclusiveFromApart ==
  ASSUME TypeOK', Apart'
  PROVE  ExclusiveSlots'
<1> USE PoolAssumption DEF TypeOK, Apart, OwnedBy, IdleSlots
<1>1. DOMAIN available' = 1 .. Len(available')
  OBVIOUS
<1>2. ASSUME NEW t \in Threads
      PROVE  (OwnedBy(t) \cap IdleSlots)' = {}
  BY <1>1
<1>3. ASSUME NEW t \in Threads, NEW u \in Threads \ {t}
      PROVE  (OwnedBy(t) \cap OwnedBy(u))' = {}
  OBVIOUS
<1> QED
  BY <1>1, <1>2, <1>3, SMTT(30) DEF ExclusiveSlots

\* A slot nobody holds, given to one thread as its guard or as the source of
\* its assignment, leaves the slots apart.
LEMMA ApartDelivered ==
  ASSUME TypeOK, Apart, NEW t \in Threads, NEW s \in Slots,
         \A i \in 1 .. Len(available) : s # available[i],
         \A u \in Threads : s \notin {guard[u], incoming[u], returned[u]},
         incoming[t] = NoSlot, returned[t] = NoSlot,
         UNCHANGED <<available, returned>>,
         \/ guard' = [guard EXCEPT ![t] = s] /\ UNCHANGED incoming
         \/ incoming' = [incoming EXCEPT ![t] = s] /\ UNCHANGED guard
  PROVE  Apart'
<1>1. /\ guard \in [Threads -> Slots \cup {NoSlot}]
      /\ incoming \in [Threads -> Slots \cup {NoSlot}]
  BY DEF TypeOK
<1>2. CASE guard' = [guard EXCEPT ![t] = s] /\ UNCHANGED incoming
  BY <1>1, <1>2, PoolAssumption, SMTT(30) DEF Apart
<1>3. CASE incoming' = [incoming EXCEPT ![t] = s] /\ UNCHANGED guard
  BY <1>1, <1>3, PoolAssumption, SMTT(30) DEF Apart
<1> QED
  BY <1>2, <1>3

\* No step gives a slot a second owner.
LEMMA ExclusiveStep ==
  ASSUME PoolInv, TypeOK', NEW t \in Threads,
         Inside(t) \/ Client(t) \/ TimeOut(t) \/ SpuriousWakeup(t)
  PROVE  ExclusiveSlots'
<1>0. TypeOK /\ ControlInv /\ Apart
  BY ApartFromExclusive DEF PoolInv
<1>T. /\ pc \in [Threads -> PCs]
      /\ guard \in [Threads -> Slots \cup {NoSlot}]
      /\ incoming \in [Threads -> Slots \cup {NoSlot}]
      /\ returned \in [Threads -> Slots \cup {NoSlot}]
      /\ available \in Seq(Slots) /\ Len(available) \in Nat
      /\ NoSlot \notin Slots
  BY <1>0, PoolAssumption DEF TypeOK
<1> SUFFICES Apart'
  BY ExclusiveFromApart
<1>1. CASE UNCHANGED <<available, guard, incoming, returned>>
  BY <1>0, <1>T, <1>1, SMTT(30) DEF Apart
<1>2. CASE PopStep(t)
  <2>1. /\ Len(available') = Len(available) - 1
        /\ Len(available) \in Nat \ {0}
        /\ \A i \in 1 .. (Len(available) - 1) : available'[i] = available[i]
        /\ available[Len(available)] \in Slots
    BY <1>0, <1>T, <1>2, PopFacts, SMTT(30) DEF PopStep, PopIdle
  <2>2. Deliver(t, available[Len(available)]) /\ UNCHANGED returned
    BY <1>2 DEF PopStep, PopIdle
  <2>3. incoming[t] = NoSlot /\ returned[t] = NoSlot
    BY <1>0, <1>T, <1>2, SMTT(30) DEF PopStep, Entering, ControlInv
  <2> DEFINE top == available[Len(available)]
  <2>4. /\ top \in Slots
        /\ \A u \in Threads : top \notin {guard[u], incoming[u], returned[u]}
        /\ \A i \in 1 .. Len(available') : /\ available'[i] = available[i]
                                           /\ available[i] # top
                                           /\ i \in 1 .. Len(available)
    BY <1>0, <1>T, <2>1 DEF Apart
  <2>5. Deliver(t, top)
    BY <2>2, SMTT(30)
  <2> HIDE DEF top
  <2>6. \A i, j \in 1 .. Len(available') : available'[i] = available'[j] => i = j
    BY <1>0, <1>T, <2>4 DEF Apart
  <2>7. \/ guard' = [guard EXCEPT ![t] = top] /\ UNCHANGED incoming
        \/ incoming' = [incoming EXCEPT ![t] = top] /\ UNCHANGED guard
    BY <2>5, SMTT(30) DEF Deliver
  <2>8. ASSUME NEW u \in Threads, NEW i \in 1 .. Len(available')
        PROVE  available'[i] \notin {guard'[u], incoming'[u], returned'[u]}
    BY <1>0, <1>T, <2>2, <2>4, <2>7, SMTT(30) DEF Apart
  <2> QED
    BY <1>0, <1>T, <2>2, <2>3, <2>4, <2>5, <2>6, <2>8, SMTT(30) DEF Deliver, Apart
<1>3. CASE CreateSlot(t)
  <2>1. PICK s \in Slots \ LiveSlots : Deliver(t, s)
    BY <1>3 DEF CreateSlot
  <2>2. /\ \A i \in 1 .. Len(available) : s # available[i]
        /\ \A u \in Threads : s \notin {guard[u], incoming[u], returned[u]}
    BY <1>0, <1>T, <2>1, SMTT(30) DEF LiveSlots, IdleSlots, OwnedBy
  <2>3. incoming[t] = NoSlot /\ returned[t] = NoSlot
    BY <1>0, <1>T, <1>3 DEF CreateSlot, ControlInv
  <2>4. UNCHANGED <<available, returned>>
    BY <1>3 DEF CreateSlot
  <2>5. \/ guard' = [guard EXCEPT ![t] = s] /\ UNCHANGED incoming
        \/ incoming' = [incoming EXCEPT ![t] = s] /\ UNCHANGED guard
    BY <2>1, SMTT(30) DEF Deliver
  <2> QED
    BY <1>0, <2>1, <2>2, <2>3, <2>4, <2>5, ApartDelivered, SMTT(30)
<1>4. CASE ReturnSlot(t)
  <2>1. returned[t] = NoSlot
    BY <1>0, <1>T, <1>4, SMTT(30) DEF ReturnSlot, ControlInv
  <2> QED
    BY <1>0, <1>T, <1>4, <2>1, SMTT(30) DEF ReturnSlot, Apart
<1>5. CASE LeaveReturnSlot(t) /\ UNCHANGED available
  BY <1>0, <1>T, <1>5, SMTT(30) DEF LeaveReturnSlot, Apart
<1>6. CASE LeaveReturnSlot(t) /\ available' = Append(available, returned[t])
                              /\ pc[t] = "returning"
  <2>1. returned[t] \in Slots
    BY <1>0, <1>T, <1>6, SMTT(30) DEF ControlInv
  <2>2. /\ Len(available') = Len(available) + 1
        /\ Len(available) \in Nat
        /\ \A i \in 1 .. Len(available) : available'[i] = available[i]
        /\ available'[Len(available) + 1] = returned[t]
    BY <1>0, <1>T, <1>6, <2>1, PushFacts, SMTT(30)
  <2> QED
    BY <1>0, <1>T, <1>6, <2>1, <2>2, SMTT(30) DEF LeaveReturnSlot, Apart
<1>7. CASE \E u \in Threads : MoveConstruct(t, u)
  <2>1. PICK u \in Threads : MoveConstruct(t, u)
    BY <1>7
  <2>2. incoming[u] = NoSlot /\ returned[u] = NoSlot /\ incoming[t] = NoSlot
    BY <1>0, <1>T, <2>1, SMTT(30) DEF MoveConstruct, ControlInv
  <2>3. /\ t # u /\ guard[u] = NoSlot /\ guard[t] # NoSlot
        /\ guard'[u] = guard[t] /\ guard'[t] = NoSlot
        /\ \A v \in Threads \ {t, u} : guard'[v] = guard[v]
        /\ UNCHANGED <<available, incoming, returned>>
    BY <1>T, <2>1, SMTT(30) DEF MoveConstruct
  <2>4. \A i \in 1 .. Len(available) : available[i] # NoSlot
    BY <1>T, SMTT(30)
  <2>5. ASSUME NEW v \in Threads, NEW i \in 1 .. Len(available')
        PROVE  available'[i] \notin {guard'[v], incoming'[v], returned'[v]}
    BY <1>0, <2>3, <2>4, SMTT(30) DEF Apart
  <2>6. ASSUME NEW v \in Threads, NEW w \in Threads, v # w, guard'[v] # NoSlot
        PROVE  guard'[v] \notin {guard'[w], incoming'[w], returned'[w]}
    <3>1. CASE v = u
      BY <1>0, <2>2, <2>3, <2>6, <3>1, SMTT(30) DEF Apart
    <3>2. CASE v # u
      <4>1. v # t /\ guard'[v] = guard[v]
        BY <2>3, <2>6, <3>2, SMTT(30)
      <4>2. guard'[w] \in {guard[w], guard[t], NoSlot}
        BY <2>3, SMTT(30)
      <4> QED
        BY <1>0, <2>3, <2>6, <4>1, <4>2, SMTT(30) DEF Apart
    <3> QED
      BY <3>1, <3>2, SMTT(30)
  <2>7. ASSUME NEW v \in Threads, guard'[v] # NoSlot
        PROVE  guard'[v] \notin {incoming'[v], returned'[v]}
    BY <1>0, <2>2, <2>3, <2>7, SMTT(30) DEF Apart
  <2>8. \A v, w \in Threads : v # w =>
          /\ incoming'[v] # NoSlot => incoming'[v] \notin {incoming'[w], returned'[w]}
          /\ returned'[v] # NoSlot => returned'[v] # returned'[w]
    BY <1>0, <2>3, SMTT(30) DEF Apart
  <2> QED
    BY <1>0, <2>3, <2>5, <2>6, <2>7, <2>8, SMTT(30) DEF Apart
<1>8. CASE ReturnSlotLocked(t)
  BY <1>1, <1>6, <1>8, SMTT(30) DEF ReturnSlotLocked
<1> QED
  BY <1>0, StepCases, <1>1, <1>2, <1>3, <1>4, <1>5, <1>7, <1>8, ZenonT(30)
     DEF ReserveStep, ReserveSlot, WaitStep, WaitOnCv, ThrowStep,
         CreateSlotThrows, GiveBackReservation, DestroySlot, UseClient,
         MarkUnhealthy, TimeOut, SpuriousWakeup, vars

\* The locals of the threads keep agreeing with their control.
LEMMA ControlStep ==
  ASSUME PoolInv, TypeOK', NEW t \in Threads,
         Inside(t) \/ Client(t) \/ TimeOut(t) \/ SpuriousWakeup(t)
  PROVE  ControlInv'
<1> USE DEF ControlInv
<1>0. TypeOK /\ ControlInv /\ Apart /\ IdleSlotsUsable
  BY ApartFromExclusive, SMTT(30) DEF PoolInv
<1>T. /\ pc \in [Threads -> PCs]
      /\ guard \in [Threads -> Slots \cup {NoSlot}]
      /\ healthy \in [Threads -> BOOLEAN]
      /\ incoming \in [Threads -> Slots \cup {NoSlot}]
      /\ returned \in [Threads -> Slots \cup {NoSlot}]
      /\ discard \in [Threads -> BOOLEAN]
      /\ connected \in [Slots -> BOOLEAN]
      /\ available \in Seq(Slots) /\ Len(available) \in Nat
      /\ NoSlot \notin Slots
  BY <1>0, PoolAssumption, SMTT(30) DEF TypeOK
<1>1. CASE PopStep(t)
  <2> DEFINE top == available[Len(available)]
  <2>1. top \in Slots /\ top \in IdleSlots
    BY <1>0, <1>T, <1>1, PopFacts, SMTT(30) DEF PopStep, PopIdle, IdleSlots
  <2>2. connected[top] /\ top \notin tainted
    BY <1>0, <1>T, <2>1, SMTT(30) DEF IdleSlotsUsable
  <2>3. Deliver(t, top) /\ UNCHANGED <<returned, discard, connected, tainted>>
    BY <1>1, SMTT(30) DEF PopStep, PopIdle
  <2> HIDE DEF top
  <2> QED
    BY <1>0, <1>T, <1>1, <2>1, <2>2, <2>3, SMTT(30) DEF PopStep, Entering, Deliver
<1>2. CASE ReserveStep(t)
  BY <1>0, <1>T, <1>2, SMTT(30) DEF ReserveStep, ReserveSlot, Entering
<1>3. CASE WaitStep(t)
  BY <1>0, <1>T, <1>3, SMTT(30) DEF WaitStep, WaitOnCv
<1>4. CASE ThrowStep(t)
  BY <1>0, <1>T, <1>4, SMTT(30) DEF ThrowStep
<1>5. CASE CreateSlot(t)
  <2>1. PICK s \in Slots \ LiveSlots :
               /\ connected' = [connected EXCEPT ![s] = TRUE]
               /\ tainted' = tainted \ {s}
               /\ Deliver(t, s)
    BY <1>5, ZenonT(30) DEF CreateSlot
  <2>2. \A u \in Threads : s \notin {guard[u], incoming[u], returned[u]}
    BY <1>0, <1>T, <2>1, SMTT(30) DEF LiveSlots, OwnedBy
  <2>3. pc[t] = "connecting" /\ UNCHANGED <<returned, discard>>
    BY <1>5, SMTT(30) DEF CreateSlot
  <2> QED
    BY <1>0, <1>T, <2>1, <2>2, <2>3, SMTT(30) DEF Deliver
<1>6. CASE CreateSlotThrows(t)
  BY <1>0, <1>T, <1>6, SMTT(30) DEF CreateSlotThrows
<1>7. CASE GiveBackReservation(t)
  BY <1>0, <1>T, <1>7, SMTT(30) DEF GiveBackReservation, NotifyOne, Waiting
<1>8. CASE ReturnSlot(t)
  BY <1>0, <1>T, <1>8, ZenonT(30) DEF ReturnSlot
<1>9. CASE ReturnSlotLocked(t)
  BY <1>0, <1>T, <1>9, SMTT(30) DEF ReturnSlotLocked, LeaveReturnSlot, NotifyOne, Waiting
<1>10. CASE DestroySlot(t)
  BY <1>0, <1>T, <1>10, SMTT(30) DEF DestroySlot, LeaveReturnSlot, Apart
<1>11. CASE UseClient(t)
  BY <1>0, <1>T, <1>11, SMTT(30) DEF UseClient, Apart
<1>12. CASE MarkUnhealthy(t)
  BY <1>0, <1>T, <1>12, SMTT(30) DEF MarkUnhealthy, Apart
<1>13. CASE \E u \in Threads : MoveConstruct(t, u)
  BY <1>0, <1>T, <1>13, SMTT(30) DEF MoveConstruct
<1>14. CASE TimeOut(t)
  BY <1>0, <1>T, <1>14, SMTT(30) DEF TimeOut
<1>15. CASE SpuriousWakeup(t)
  BY <1>0, <1>T, <1>15, SMTT(30) DEF SpuriousWakeup
<1>16. CASE UNCHANGED vars
  BY <1>0, <1>T, <1>16, SMTT(30) DEF vars
<1> QED
  BY <1>0, StepCases, <1>1, <1>2, <1>3, <1>4, <1>5, <1>6, <1>7, <1>8, <1>9, ZenonT(30),
     <1>10, <1>11, <1>12, <1>13, <1>14, <1>15, <1>16

\* The idle slots, by their place on the stack: in this state, and in the next.
LEMMA UsableByIndex ==
  ASSUME TypeOK, IdleSlotsUsable
  PROVE  \A i \in 1 .. Len(available) :
           connected[available[i]] /\ available[i] \notin tainted
<1>1. DOMAIN available = 1 .. Len(available)
  BY DEF TypeOK
<1> QED
  BY <1>1 DEF IdleSlotsUsable, IdleSlots
LEMMA IndexToUsable ==
  ASSUME TypeOK',
         \A i \in 1 .. Len(available') :
           connected'[available'[i]] /\ available'[i] \notin tainted'
  PROVE  IdleSlotsUsable'
<1>1. DOMAIN available' = 1 .. Len(available')
  BY SMTT(30) DEF TypeOK
<1> QED
  BY <1>1 DEF IdleSlotsUsable, IdleSlots

\* Only an open, untainted slot is pushed, and nothing closes or taints an
\* idle one.
LEMMA IdleStep ==
  ASSUME PoolInv, TypeOK', NEW t \in Threads,
         Inside(t) \/ Client(t) \/ TimeOut(t) \/ SpuriousWakeup(t)
  PROVE  IdleSlotsUsable'
<1>0. /\ TypeOK /\ ControlInv /\ Apart
      /\ \A i \in 1 .. Len(available) :
           connected[available[i]] /\ available[i] \notin tainted
  BY ApartFromExclusive, UsableByIndex, SMTT(30) DEF PoolInv
<1>T. /\ pc \in [Threads -> PCs]
      /\ guard \in [Threads -> Slots \cup {NoSlot}]
      /\ healthy \in [Threads -> BOOLEAN]
      /\ incoming \in [Threads -> Slots \cup {NoSlot}]
      /\ returned \in [Threads -> Slots \cup {NoSlot}]
      /\ discard \in [Threads -> BOOLEAN]
      /\ connected \in [Slots -> BOOLEAN]
      /\ available \in Seq(Slots) /\ Len(available) \in Nat
      /\ NoSlot \notin Slots
  BY <1>0, PoolAssumption DEF TypeOK
<1> SUFFICES ASSUME NEW i \in 1 .. Len(available')
             PROVE  connected'[available'[i]] /\ available'[i] \notin tainted'
  BY IndexToUsable
<1>1. CASE UNCHANGED <<available, connected, tainted>>
  BY <1>0, <1>T, <1>1, SMTT(30)
<1>2. CASE PopStep(t)
  BY <1>0, <1>T, <1>2, PopFacts, SMTT(30) DEF PopStep, PopIdle
<1>3. CASE CreateSlot(t)
  <2>1. PICK s \in Slots \ LiveSlots :
               /\ connected' = [connected EXCEPT ![s] = TRUE]
               /\ tainted' = tainted \ {s}
    BY <1>3, ZenonT(30) DEF CreateSlot
  <2> QED
    BY <1>0, <1>T, <1>3, <2>1, SMTT(30) DEF CreateSlot, LiveSlots, IdleSlots
<1>4. CASE ReturnSlotLocked(t) /\ ~discard[t]
  <2>0. pc[t] = "returning" /\ ~discard[t]
    BY <1>4 DEF ReturnSlotLocked
  <2>1. /\ returned[t] \in Slots
        /\ connected[returned[t]] /\ returned[t] \notin tainted
    <3>1. returned[t] # NoSlot
      BY <1>0, <2>0, SMTT(30) DEF ControlInv
    <3>2. connected[returned[t]] /\ returned[t] \notin tainted
      BY <1>0, <2>0, SMTT(30) DEF ControlInv
    <3> QED
      BY <1>T, <3>1, <3>2, SMTT(30)
  <2>2. /\ available' = Append(available, returned[t])
        /\ UNCHANGED <<connected, tainted>>
    BY <1>4, SMTT(30) DEF ReturnSlotLocked
  <2>3. i \in 1 .. Len(available) \/ i = Len(available) + 1
    BY <1>0, <1>T, <2>1, <2>2, PushFacts, SMTT(30)
  <2> QED
    BY <1>0, <1>T, <2>1, <2>2, <2>3, PushFacts, SMTT(30)
<1>5. CASE ReturnSlotLocked(t) /\ discard[t]
  BY <1>1, <1>5, SMTT(30) DEF ReturnSlotLocked
<1>6. CASE DestroySlot(t)
  BY <1>0, <1>T, <1>6, SMTT(30) DEF DestroySlot, Apart
<1>7. CASE UseClient(t)
  BY <1>0, <1>T, <1>7, SMTT(30) DEF UseClient, Apart
<1>8. CASE MarkUnhealthy(t)
  BY <1>0, <1>T, <1>8 DEF MarkUnhealthy, Apart
<1> QED
  BY <1>0, StepCases, <1>1, <1>2, <1>3, <1>4, <1>5, <1>6, <1>7, <1>8, ZenonT(30)
     DEF ReserveStep, ReserveSlot, WaitStep, WaitOnCv, ThrowStep,
         CreateSlotThrows, GiveBackReservation, ReturnSlot, MoveConstruct,
         TimeOut, SpuriousWakeup, vars

=============================================================================

---------------------------- MODULE BufferProofs ----------------------------
(***************************************************************************)
(* Proof that SerializationBuffer holds exactly what was written, that it  *)
(* keeps nothing of it after a release and that its growth is limited, for *)
(* any bytes, lengths of writes, alignment and capacities.                 *)
(***************************************************************************)
EXTENDS SerializationBuffer, SequenceTheorems, TLAPS

\* The elements of the vector reach at least up to the write position, and
\* those below it are what was written.
BufferInv ==
  /\ buffer \in Seq(Nat) /\ written \in Seq(Nat)
  /\ current_offset \in 0 .. Len(buffer)
  /\ ContentExact

\* What is in the storage beyond the elements, and how large it may be.
StorageInv ==
  /\ spare \in Seq(Nat) /\ threw \in Nat
  /\ NothingLingers /\ GrowthLimited

\* The bytes of one write.
LEMMA DataBytes == ASSUME NEW data \in Data PROVE data \in Seq(Nat)
  <1>1. PICK n \in 0 .. MaxLength : data \in [1 .. n -> Bytes]
    BY DEF Data
  <1>2. n \in Nat /\ Bytes \subseteq Nat
    BY BufferAssumption
  <1>3. data \in [1 .. n -> Nat]
    BY <1>1, <1>2
  <1> QED BY <1>2, <1>3

\* writePadded adds from none to TTLV_ALIGNMENT - 1 zeros.
LEMMA PaddedBytes ==
  ASSUME NEW data \in Data
  PROVE  /\ data \o Zeros(Padding(Len(data))) \in Seq(Nat)
         /\ Padding(Len(data)) \in Nat
         /\ Len(data \o Zeros(Padding(Len(data)))) = Len(data) + Padding(Len(data))
  <1>1. data \in Seq(Nat) /\ Len(data) \in Nat
    BY DataBytes
  <1>2. Padding(Len(data)) \in Nat
    <2>1. Len(data) % TTLV_ALIGNMENT \in 0 .. TTLV_ALIGNMENT - 1
      BY <1>1, BufferAssumption
    <2>2. TTLV_ALIGNMENT - (Len(data) % TTLV_ALIGNMENT) \in Nat
      BY <2>1, BufferAssumption
    <2> QED BY <2>2, BufferAssumption DEF Padding
  <1>3. Zeros(Padding(Len(data))) \in Seq(Nat)
        /\ Len(Zeros(Padding(Len(data)))) = Padding(Len(data))
    BY <1>2 DEF Zeros
  <1> QED BY <1>1, <1>2, <1>3, ConcatProperties

\* Bytes put between a beginning and an end do not change the beginning.
LEMMA Spliced ==
  ASSUME NEW a \in Seq(Nat), NEW b \in Seq(Nat), NEW c \in Seq(Nat)
  PROVE  /\ (a \o b) \o c \in Seq(Nat)
         /\ Len(a) + Len(b) \in 0 .. Len((a \o b) \o c)
         /\ SubSeq((a \o b) \o c, 1, Len(a) + Len(b)) = a \o b
  <1> DEFINE ab == a \o b
             abc == ab \o c
             s == SubSeq(abc, 1, Len(ab))
  <1>1. ab \in Seq(Nat) /\ Len(ab) = Len(a) + Len(b)
    BY ConcatProperties
  <1> HIDE DEF ab
  <1>2. /\ abc \in Seq(Nat) /\ Len(abc) = Len(ab) + Len(c)
        /\ \A i \in 1 .. Len(ab) : abc[i] = ab[i]
    <2>1. c \in Seq(Nat)
      OBVIOUS
    <2>2. abc \in Seq(Nat)
      BY <1>1, <2>1, ConcatProperties, Zenon
    <2>3. Len(abc) = Len(ab) + Len(c)
      BY <1>1, <2>1, ConcatProperties, Zenon
    <2>4. \A i \in 1 .. Len(ab) : abc[i] = ab[i]
      BY <1>1, <2>1
    <2> QED BY <2>2, <2>3, <2>4
  <1> HIDE DEF abc
  <1>3. Len(ab) \in Nat /\ Len(c) \in Nat
    BY <1>1
  <1>4. s \in Seq(Nat) /\ Len(s) = Len(ab) /\ \A i \in 1 .. Len(ab) : s[i] = abc[i]
    BY <1>2, <1>3, SMTT(30)
  <1> HIDE DEF s
  <1>5. \A i \in 1 .. Len(s) : s[i] = ab[i]
    BY <1>2, <1>3, <1>4
  <1>6. s = ab
    BY <1>1, <1>4, <1>5, SeqEqual
  <1> QED BY <1>1, <1>2, <1>3, <1>6 DEF s, abc, ab

\* Whatever is stored at the write position is appended to what was written.
LEMMA PutStep ==
  ASSUME BufferInv, NEW data \in Seq(Nat), NEW cap, Put(data, cap)
  PROVE  BufferInv'
  <1> DEFINE pre == SubSeq(buffer, 1, current_offset)
             end == current_offset + Len(data)
             post == SubSeq(buffer, end + 1, Len(buffer))
  <1>1. /\ buffer \in Seq(Nat) /\ written \in Seq(Nat) /\ pre = written
        /\ current_offset \in Nat /\ current_offset <= Len(buffer)
        /\ Len(buffer) \in Nat /\ Len(data) \in Nat
    BY DEF BufferInv, ContentExact
  <1>2. Len(written) = current_offset
    BY <1>1
  <1>3. post \in Seq(Nat)
    BY <1>1
  <1>4. /\ buffer' = (pre \o data) \o post
        /\ current_offset' = end /\ written' = written \o data
    BY DEF Put
  <1>5. end = Len(written) + Len(data)
    BY <1>2
  <1> HIDE DEF pre, post, end
  <1>6. /\ (written \o data) \o post \in Seq(Nat)
        /\ end \in 0 .. Len((written \o data) \o post)
        /\ SubSeq((written \o data) \o post, 1, end) = written \o data
    <2>1. written \in Seq(Nat) /\ data \in Seq(Nat)
      BY <1>1
    <2>2. /\ (written \o data) \o post \in Seq(Nat)
          /\ Len(written) + Len(data) \in 0 .. Len((written \o data) \o post)
          /\ SubSeq((written \o data) \o post, 1, Len(written) + Len(data)) = written \o data
      BY <1>3, <2>1, Spliced, Zenon
    <2> QED BY <1>5, <2>2, Zenon
  <1>7. written \o data \in Seq(Nat)
    BY <1>1, ConcatProperties
  <1> QED BY <1>1, <1>4, <1>6, <1>7 DEF BufferInv, ContentExact

\* Every operation of the buffer keeps the invariant.
LEMMA NextInv == BufferInv /\ [Next]_vars => BufferInv'
  <1> SUFFICES ASSUME BufferInv, [Next]_vars PROVE BufferInv'
    OBVIOUS
  <1>1. ASSUME UNCHANGED <<buffer, current_offset, written>> PROVE BufferInv'
    BY <1>1 DEF BufferInv, ContentExact
  <1>2. ASSUME written' = <<>>, current_offset' = 0, buffer' \in Seq(Nat) PROVE BufferInv'
    BY <1>2 DEF BufferInv, ContentExact
  <1>3. CASE Write
    <2>1. PICK data \in Data :
            (\E cap : Put(data, cap)) \/ Refuse(current_offset + Len(data))
      BY <1>3 DEF Write
    <2> QED BY <1>1, <2>1, DataBytes, PutStep DEF Refuse
  <1>4. CASE WritePadded
    <2>1. PICK data \in Data :
            \/ \E cap : Put(data \o Zeros(Padding(Len(data))), cap) \/ Put(data, cap)
            \/ Refuse(current_offset + Len(data))
      BY <1>4 DEF WritePadded
    <2> QED BY <1>1, <2>1, DataBytes, PaddedBytes, PutStep DEF Refuse
  <1>5. CASE Reset \/ Release \/ Shrink
    <2>1. buffer \in Seq(Nat) /\ <<>> \in Seq(Nat)
      BY DEF BufferInv
    <2>2. written' = <<>> /\ current_offset' = 0 /\ (buffer' = buffer \/ buffer' = <<>>)
      BY <1>5 DEF Reset, Release, Shrink
    <2> QED BY <1>2, <2>1, <2>2
  <1>6. CASE UNCHANGED vars
    BY <1>1, <1>6 DEF vars
  <1> QED BY <1>3, <1>4, <1>5, <1>6 DEF Next

-----------------------------------------------------------------------------
(* The storage *)

\* A number of zeros.
LEMMA ZerosAre ==
  ASSUME NEW n \in Nat
  PROVE  /\ Zeros(n) \in Seq(Nat) /\ Len(Zeros(n)) = n
         /\ \A i \in DOMAIN Zeros(n) : Zeros(n)[i] = 0
  BY DEF Zeros

\* The length of the vector after a write.
LEMMA PutLength ==
  ASSUME BufferInv, NEW data \in Seq(Nat), NEW cap, Put(data, cap)
  PROVE  /\ Len(buffer') \in Nat /\ Len(buffer') >= Len(buffer)
         /\ \/ Len(buffer') = Len(buffer)
            \/ Len(buffer') = current_offset + Len(data)
  <1> DEFINE pre == SubSeq(buffer, 1, current_offset)
             end == current_offset + Len(data)
             post == SubSeq(buffer, end + 1, Len(buffer))
  <1>1. /\ buffer \in Seq(Nat) /\ Len(buffer) \in Nat /\ Len(data) \in Nat
        /\ current_offset \in Nat /\ current_offset <= Len(buffer)
    BY DEF BufferInv
  <1>2. pre \in Seq(Nat) /\ Len(pre) = current_offset
    BY <1>1
  <1>3. /\ post \in Seq(Nat)
        /\ Len(post) = IF end <= Len(buffer) THEN Len(buffer) - end ELSE 0
    BY <1>1
  <1>4. buffer' = (pre \o data) \o post
    BY DEF Put
  <1> HIDE DEF pre, post
  <1>5. pre \o data \in Seq(Nat) /\ Len(pre \o data) = end
    BY <1>2, ConcatProperties
  <1>6. Len(buffer') = end + Len(post)
    BY <1>3, <1>4, <1>5, ConcatProperties, ZenonT(30)
  <1>7. end \in Nat
    BY <1>1
  <1> HIDE DEF end
  <1>8. CASE end <= Len(buffer)
    BY <1>1, <1>3, <1>6, <1>7, <1>8
  <1>9. CASE ~(end <= Len(buffer))
    BY <1>1, <1>3, <1>6, <1>7, <1>9 DEF end
  <1> QED BY <1>8, <1>9

\* What is left of a sequence without its first elements.
LEMMA Suffix ==
  ASSUME NEW s \in Seq(Nat), NEW m \in Nat, m <= Len(s)
  PROVE  /\ SubSeq(s, m + 1, Len(s)) \in Seq(Nat)
         /\ Len(SubSeq(s, m + 1, Len(s))) = Len(s) - m
         /\ \A i \in 1 .. Len(s) - m : SubSeq(s, m + 1, Len(s))[i] = s[m + i]
  <1>1. Len(s) \in Nat
    OBVIOUS
  <1>2. SubSeq(s, m + 1, Len(s)) \in Seq(Nat)
    BY <1>1
  <1>3. Len(SubSeq(s, m + 1, Len(s))) = Len(s) - m
    BY <1>1
  <1>4. \A i \in 1 .. Len(s) - m : SubSeq(s, m + 1, Len(s))[i] = s[m + i]
    BY <1>1, SMTT(30)
  <1> QED BY <1>2, <1>3, <1>4, SMTT(30)

\* A write that fits keeps the storage clean and its size within the limit.
LEMMA PutStorage ==
  ASSUME BufferInv, StorageInv, NEW data \in Seq(Nat),
         NEW cap \in EnsuredCapacity(current_offset + Len(data)),
         Fits(current_offset + Len(data), cap), Put(data, cap),
         threw' \in Nat, threw' # 0 => 2 * threw' > MAX_CAPACITY
  PROVE  StorageInv'
  <1> DEFINE required == current_offset + Len(data)
             more == Len(buffer') - Len(buffer)
  <1>1. /\ Len(buffer) \in Nat /\ Len(spare) \in Nat /\ spare \in Seq(Nat)
        /\ Len(data) \in Nat /\ current_offset \in Nat /\ required \in Nat
        /\ Capacity = Len(buffer) + Len(spare) /\ Capacity \in Nat
        /\ \A i \in 1 .. Len(spare) : spare[i] = 0
    BY SMTT(30) DEF BufferInv, StorageInv, Capacity, NothingLingers
  <1>2. /\ Len(buffer') \in Nat /\ Len(buffer') >= Len(buffer)
        /\ Len(buffer') = Len(buffer) \/ Len(buffer') = required
    BY PutLength
  <1>3. spare' = IF cap = Capacity THEN SubSeq(spare, more + 1, Len(spare))
                 ELSE Zeros(cap - Len(buffer'))
    BY DEF Put
  <1>4. Capacity' = Len(buffer') + Len(spare')
    BY DEF Capacity
  <1>5. cap \in Nat /\ cap >= required
    <2>1. CASE required <= Capacity
      BY <1>1, <2>1 DEF EnsuredCapacity
    <2>2. CASE ~(required <= Capacity)
      <3>1. cap \in required .. (IF Capacity = 0 THEN MIN_CAPACITY ELSE Capacity) + 2 * required
        BY <2>2 DEF EnsuredCapacity, Doubled
      <3>2. (IF Capacity = 0 THEN MIN_CAPACITY ELSE Capacity) \in Nat
        BY <1>1, BufferAssumption
      <3> QED BY <1>1, <3>1, <3>2
    <2> QED BY <2>1, <2>2
  <1>6. CASE cap = Capacity
    <2>1. more \in Nat /\ more <= Len(spare) /\ spare' = SubSeq(spare, more + 1, Len(spare))
      BY <1>1, <1>2, <1>3, <1>5, <1>6
    <2> HIDE DEF more
    <2>2. /\ spare' \in Seq(Nat) /\ Len(spare') = Len(spare) - more
          /\ \A i \in 1 .. Len(spare') : spare'[i] = spare[more + i]
      BY <1>1, <2>1, Suffix, SMTT(30)
    <2>3. \A i \in 1 .. Len(spare') : more + i \in 1 .. Len(spare)
      BY <1>1, <2>1, <2>2
    <2>4. \A i \in 1 .. Len(spare') : spare'[i] = 0
      BY <1>1, <2>2, <2>3
    <2>5. Capacity' = Capacity
      BY <1>1, <1>2, <1>4, <2>2 DEF more
    <2> QED BY <2>2, <2>4, <2>5 DEF StorageInv, NothingLingers, GrowthLimited
  <1>7. CASE cap # Capacity
    <2>1. ~(required <= Capacity) /\ cap <= MAX_CAPACITY
      BY <1>7 DEF EnsuredCapacity, Fits
    <2>2. cap - Len(buffer') \in Nat
      BY <1>1, <1>2, <1>5, <2>1
    <2>3. /\ spare' \in Seq(Nat) /\ Len(spare') = cap - Len(buffer')
          /\ \A i \in DOMAIN spare' : spare'[i] = 0
      BY <1>3, <1>7, <2>2, ZerosAre
    <2>4. Capacity' = cap
      BY <1>2, <1>4, <1>5, <2>3
    <2> QED BY <2>1, <2>3, <2>4 DEF StorageInv, NothingLingers, GrowthLimited
  <1> QED BY <1>6, <1>7

\* What expandCapacity throws for is more than half of the limit.
LEMMA RefusedIsLarge ==
  ASSUME BufferInv, StorageInv, NEW required \in Nat,
         NEW cap \in EnsuredCapacity(required), ~Fits(required, cap)
  PROVE  2 * required > MAX_CAPACITY
  <1>1. Capacity \in Nat /\ MIN_CAPACITY \in Nat /\ MAX_CAPACITY \in Nat
        /\ MIN_CAPACITY <= MAX_CAPACITY
    BY BufferAssumption DEF BufferInv, StorageInv, Capacity
  <1>2. ~(required <= Capacity) /\ ~(cap <= MAX_CAPACITY)
    BY DEF Fits
  <1> DEFINE start == IF Capacity = 0 THEN MIN_CAPACITY ELSE Capacity
  <1>3. cap \in required .. start + 2 * required /\ (cap = start \/ cap < 2 * required)
    BY <1>2 DEF EnsuredCapacity, Doubled
  <1>4. start \in Nat /\ (start <= MAX_CAPACITY \/ start < required)
    BY <1>1, <1>2
  <1> HIDE DEF start
  <1> QED BY <1>1, <1>2, <1>3, <1>4

\* Every operation keeps the storage clean and within the limit.
LEMMA NextStorage == BufferInv /\ StorageInv /\ [Next]_vars => StorageInv'
  <1> SUFFICES ASSUME BufferInv, StorageInv, [Next]_vars PROVE StorageInv'
    OBVIOUS
  <1>1. current_offset \in Nat /\ 0 \in Nat
    BY DEF BufferInv
  <1>2. ASSUME NEW required \in Nat, NEW cap \in EnsuredCapacity(required),
               ~Fits(required, cap), Refuse(required)
        PROVE  StorageInv'
    <2>1. threw' = required /\ spare' = spare /\ buffer' = buffer
      BY <1>2 DEF Refuse
    <2>2. 2 * required > MAX_CAPACITY
      BY <1>2, RefusedIsLarge
    <2> QED BY <1>2, <2>1, <2>2 DEF StorageInv, NothingLingers, GrowthLimited, Capacity
  <1>3. CASE Write
    <2>1. PICK data \in Data : \E cap \in EnsuredCapacity(current_offset + Len(data)) :
            \/ Fits(current_offset + Len(data), cap) /\ Put(data, cap) /\ threw' = 0
            \/ /\ ~Fits(current_offset + Len(data), cap)
               /\ Refuse(current_offset + Len(data))
      BY <1>3 DEF Write
    <2>2. data \in Seq(Nat) /\ current_offset + Len(data) \in Nat
      BY <1>1, DataBytes
    <2> QED BY <1>1, <1>2, <2>1, <2>2, PutStorage
  <1>4. CASE WritePadded
    <2> DEFINE Zs(data) == Zeros(Padding(Len(data)))
    <2>1. PICK data \in Data :
            \E cap \in EnsuredCapacity(current_offset + Len(data)),
               all \in EnsuredCapacity(current_offset + Len(data) + Padding(Len(data))) :
              \/ /\ Fits(current_offset + Len(data) + Padding(Len(data)), all)
                 /\ Put(data \o Zs(data), all) /\ threw' = 0
              \/ /\ Fits(current_offset + Len(data), cap)
                 /\ ~Fits(current_offset + Len(data) + Padding(Len(data)), all)
                 /\ Put(data, cap)
                 /\ threw' = current_offset + Len(data) + Padding(Len(data))
              \/ /\ ~Fits(current_offset + Len(data), cap)
                 /\ Refuse(current_offset + Len(data))
      BY <1>4 DEF WritePadded
    <2> DEFINE end == current_offset + Len(data)
               padded == end + Padding(Len(data))
    <2>2. data \in Seq(Nat) /\ Len(data) \in Nat /\ end \in Nat
      BY <1>1, DataBytes
    <2>3. /\ Padding(Len(data)) \in Nat /\ padded \in Nat
          /\ data \o Zs(data) \in Seq(Nat)
          /\ current_offset + Len(data \o Zs(data)) = padded
      <3>1. /\ Padding(Len(data)) \in Nat /\ data \o Zs(data) \in Seq(Nat)
            /\ Len(data \o Zs(data)) = Len(data) + Padding(Len(data))
        BY PaddedBytes
      <3> HIDE DEF Zs
      <3> QED BY <1>1, <2>2, <3>1
    <2>4. PICK cap \in EnsuredCapacity(end), all \in EnsuredCapacity(padded) :
            \/ Fits(padded, all) /\ Put(data \o Zs(data), all) /\ threw' = 0
            \/ Fits(end, cap) /\ ~Fits(padded, all) /\ Put(data, cap) /\ threw' = padded
            \/ ~Fits(end, cap) /\ Refuse(end)
      BY <2>1
    <2> HIDE DEF Zs, padded
    <2>5. CASE Fits(padded, all) /\ Put(data \o Zs(data), all) /\ threw' = 0
      BY <1>1, <2>3, <2>5, PutStorage
    <2>6. CASE Fits(end, cap) /\ ~Fits(padded, all) /\ Put(data, cap) /\ threw' = padded
      <3>1. 2 * padded > MAX_CAPACITY
        BY <2>3, <2>6, RefusedIsLarge
      <3> QED BY <2>2, <2>3, <2>6, <3>1, PutStorage
    <2>7. CASE ~Fits(end, cap) /\ Refuse(end)
      BY <1>2, <2>2, <2>7
    <2> QED BY <2>4, <2>5, <2>6, <2>7
  <1>5. CASE Reset
    BY <1>5 DEF Reset, StorageInv, NothingLingers, GrowthLimited, Capacity
  <1>6. CASE Release
    <2>1. /\ buffer \in Seq(Nat) /\ spare \in Seq(Nat)
          /\ Len(buffer) \in Nat /\ Len(spare) \in Nat
          /\ \A i \in 1 .. Len(spare) : spare[i] = 0
      BY DEF BufferInv, StorageInv, NothingLingers
    <2> DEFINE z == Zeros(Len(buffer))
    <2>2. z \in Seq(Nat) /\ Len(z) = Len(buffer) /\ \A i \in 1 .. Len(z) : z[i] = 0
      <3>1. z \in Seq(Nat) /\ Len(z) = Len(buffer) /\ \A i \in DOMAIN z : z[i] = 0
        BY <2>1, ZerosAre
      <3> HIDE DEF z
      <3> QED BY <3>1
    <2>3. spare' = z \o spare /\ buffer' = <<>> /\ threw' = 0
      BY <1>6 DEF Release
    <2> HIDE DEF z
    <2>4. /\ z \o spare \in Seq(Nat) /\ Len(z \o spare) = Len(z) + Len(spare)
          /\ \A i \in 1 .. Len(z \o spare) :
               (z \o spare)[i] = IF i <= Len(z) THEN z[i] ELSE spare[i - Len(z)]
      <3>1. z \o spare \in Seq(Nat) /\ Len(z \o spare) = Len(z) + Len(spare)
        BY <2>1, <2>2, ConcatProperties
      <3>2. ASSUME NEW i \in 1 .. Len(z \o spare)
            PROVE  (z \o spare)[i] = IF i <= Len(z) THEN z[i] ELSE spare[i - Len(z)]
        BY <2>1, <2>2, <3>1, SMTT(30)
      <3> QED BY <3>1, <3>2
    <2>5. \A i \in 1 .. Len(spare') : spare'[i] = 0
      BY <2>1, <2>2, <2>3, <2>4
    <2>6. Capacity' = Capacity
      BY <2>1, <2>2, <2>3, <2>4 DEF Capacity
    <2> QED BY <2>3, <2>4, <2>5, <2>6 DEF StorageInv, NothingLingers, GrowthLimited
  <1>7. CASE Shrink
    <2>1. Capacity' = 0
      BY <1>7 DEF Shrink, Capacity
    <2> QED BY <1>7, <2>1, BufferAssumption
            DEF Shrink, StorageInv, NothingLingers, GrowthLimited
  <1>8. CASE UNCHANGED vars
    BY <1>8 DEF vars, StorageInv, NothingLingers, GrowthLimited, Capacity
  <1> QED BY <1>3, <1>4, <1>5, <1>6, <1>7, <1>8 DEF Next

\* Both invariants hold of every behaviour of the buffer.
THEOREM Invariance == Spec => [](BufferInv /\ StorageInv)
  <1>1. Init => BufferInv /\ StorageInv
    <2> SUFFICES ASSUME Init PROVE BufferInv /\ StorageInv
      OBVIOUS
    <2>1. PICK c \in Capacities : spare = Zeros(c)
      BY DEF Init
    <2>2. /\ c \in Nat /\ spare \in Seq(Nat) /\ Len(spare) = c
          /\ \A i \in DOMAIN spare : spare[i] = 0
      BY <2>1, ZerosAre, BufferAssumption
    <2>3. Capacity = c
      BY <2>2 DEF Init, Capacity
    <2> QED BY <2>2, <2>3
            DEF Init, BufferInv, ContentExact, StorageInv, NothingLingers, GrowthLimited
  <1> QED BY <1>1, NextInv, NextStorage, PTL DEF Spec

\* span() and release() give what was written since the last reset, release
\* or shrink, wherever the storage grew and whichever writes were refused.
THEOREM ContentCorrect == Spec => []ContentExact
  <1>1. BufferInv => ContentExact
    BY DEF BufferInv
  <1> QED BY <1>1, Invariance, PTL

\* The storage that release() keeps holds nothing of the messages before.
THEOREM StorageClean == Spec => []NothingLingers
  <1>1. StorageInv => NothingLingers
    BY DEF StorageInv
  <1> QED BY <1>1, Invariance, PTL

\* expandCapacity never goes beyond MAX_CAPACITY, and it throws only for
\* messages of more than half of it.
THEOREM GrowthCorrect == Spec => []GrowthLimited
  <1>1. StorageInv => GrowthLimited
    BY DEF StorageInv
  <1> QED BY <1>1, Invariance, PTL

=============================================================================

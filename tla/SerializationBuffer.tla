------------------------- MODULE SerializationBuffer -------------------------
(***************************************************************************)
(* kmipcore's SerializationBuffer (serialization_buffer.cpp), which every  *)
(* message is encoded into: a vector of bytes with its own write position. *)
(* The bytes written are numbers of Bytes other than 0, so that they can   *)
(* be told from padding and from memory that has been scrubbed.            *)
(***************************************************************************)
EXTENDS Naturals, Sequences

CONSTANTS
  Bytes,            \* bytes that are written
  MaxLength,        \* bound: longest data of one write
  Capacities,       \* capacities the constructor is called with
  TTLV_ALIGNMENT,
  MIN_CAPACITY,
  MAX_CAPACITY

ASSUME BufferAssumption ==
  /\ Bytes \subseteq Nat \ {0}
  /\ MaxLength \in Nat
  /\ Capacities \subseteq Nat
  /\ TTLV_ALIGNMENT \in Nat \ {0}
  /\ MIN_CAPACITY \in Nat \ {0}
  /\ MAX_CAPACITY \in Nat /\ MIN_CAPACITY <= MAX_CAPACITY

VARIABLES
  buffer,          \* buffer_: its elements
  spare,           \* the bytes of its storage beyond its size
  current_offset,  \* current_offset_
  written,         \* history: what was written since the last reset, release
                   \* or shrink
  threw            \* 0, or the size for which expandCapacity threw

vars == <<buffer, spare, current_offset, written, threw>>

Zeros(n) == [i \in 1 .. n |-> 0]
Capacity == Len(buffer) + Len(spare)
Data == UNION {[1 .. n -> Bytes] : n \in 0 .. MaxLength}

Init ==
  /\ buffer = <<>> /\ \E c \in Capacities : spare = Zeros(c)
  /\ current_offset = 0 /\ written = <<>> /\ threw = 0

-----------------------------------------------------------------------------
\* expandCapacity: the capacity (MIN_CAPACITY if there is none) doubled while
\* it is less than required.  There is one such number.
Doubled(required) ==
  LET start == IF Capacity = 0 THEN MIN_CAPACITY ELSE Capacity
  IN {c \in required .. start + 2 * required :
        /\ \E k \in 0 .. required : c = start * 2^k
        /\ c = start \/ c < 2 * required}

\* The capacity that ensureSpace asks for.
EnsuredCapacity(required) ==
  IF required <= Capacity THEN {Capacity} ELSE Doubled(required)

\* Mutant of Fits: no limit.
FitsAlways(required, cap) == required <= cap

\* Whether that does not throw.
Fits(required, cap) == required <= Capacity \/ cap <= MAX_CAPACITY

\* Bytes are stored at the write position, the vector resized if it is too
\* short for them.  Storage that is replaced is scrubbed by its allocator.
Put(data, cap) ==
  LET end == current_offset + Len(data)
      new == SubSeq(buffer, 1, current_offset) \o data
               \o SubSeq(buffer, end + 1, Len(buffer))
  IN /\ buffer' = new
     /\ spare' = IF cap = Capacity
                 THEN SubSeq(spare, Len(new) - Len(buffer) + 1, Len(spare))
                 ELSE Zeros(cap - Len(new))
     /\ current_offset' = end
     /\ written' = written \o data

Refuse(required) ==
  /\ threw' = required
  /\ UNCHANGED <<buffer, spare, current_offset, written>>

\* writeByte and writeBytes: nothing is written if there is no room.
Write ==
  \E data \in Data :
    LET required == current_offset + Len(data) IN
    \E cap \in EnsuredCapacity(required) :
      \/ Fits(required, cap) /\ Put(data, cap) /\ threw' = 0
      \/ ~Fits(required, cap) /\ Refuse(required)

Padding(n) == (TTLV_ALIGNMENT - (n % TTLV_ALIGNMENT)) % TTLV_ALIGNMENT

\* Mutant of WritePadded: the padding is skipped over, not zeroed.
WritePaddedSkips ==
  \E data \in Data :
    LET end    == current_offset + Len(data)
        padded == end + Padding(Len(data))
    IN /\ padded <= Len(buffer)
       /\ buffer' = SubSeq(buffer, 1, current_offset) \o data
                      \o SubSeq(buffer, end + 1, Len(buffer))
       /\ current_offset' = padded
       /\ written' = written \o data \o Zeros(Padding(Len(data)))
       /\ threw' = 0
       /\ UNCHANGED spare

\* writePadded: the data, then zeros up to the alignment; if there is room
\* for the data only, the data stays.
WritePadded ==
  \E data \in Data :
    LET end    == current_offset + Len(data)
        padded == end + Padding(Len(data))
    IN \E cap \in EnsuredCapacity(end), all \in EnsuredCapacity(padded) :
         \/ /\ Fits(padded, all) /\ Put(data \o Zeros(Padding(Len(data))), all)
            /\ threw' = 0
         \/ /\ Fits(end, cap) /\ ~Fits(padded, all)
            /\ Put(data, cap) /\ threw' = padded
         \/ ~Fits(end, cap) /\ Refuse(end)

Reset ==
  /\ current_offset' = 0 /\ written' = <<>> /\ threw' = 0
  /\ UNCHANGED <<buffer, spare>>

\* Mutant of Release: only the bytes up to the write position are scrubbed.
ReleaseScrubsWritten ==
  /\ spare' = Zeros(current_offset)
                \o SubSeq(buffer, current_offset + 1, Len(buffer)) \o spare
  /\ buffer' = <<>> /\ current_offset' = 0 /\ written' = <<>> /\ threw' = 0

\* release: the bytes that span() shows are copied into the result, the
\* storage is scrubbed and kept.
Release ==
  /\ spare' = Zeros(Len(buffer)) \o spare
  /\ buffer' = <<>> /\ current_offset' = 0 /\ written' = <<>> /\ threw' = 0

\* shrink: the storage is given up.
Shrink ==
  /\ buffer' = <<>> /\ spare' = <<>> /\ current_offset' = 0 /\ written' = <<>>
  /\ threw' = 0

Next == Write \/ WritePadded \/ Reset \/ Release \/ Shrink

Spec == Init /\ [][Next]_vars

-----------------------------------------------------------------------------
(* Properties *)

\* MAX_CAPACITY, the "hard upper limit on buffer growth", limits the capacity
\* unless the constructor was asked for more, and nothing up to half of it is
\* refused: doubling may overshoot the limit for longer messages, but never
\* twice over, at whatever capacity earlier messages have left the buffer.
GrowthLimited ==
  /\ Capacity <= MAX_CAPACITY \/ Capacity \in Capacities
  /\ threw # 0 => 2 * threw > MAX_CAPACITY

\* What span() shows and release() returns is what was written, in order and
\* with zero padding: no byte of an earlier message (reset() leaves them in
\* the vector) gets into the next, and none is lost when the storage grows or
\* a write is refused.
ContentExact == SubSeq(buffer, 1, current_offset) = written

\* Once release() has handed out a message, nothing of it, or of the longer
\* messages before a reset(), is left in the storage that is kept.
NothingLingers == \A i \in DOMAIN spare : spare[i] = 0

=============================================================================

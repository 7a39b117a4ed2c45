---------------------------- MODULE LocateProofs ----------------------------
(***************************************************************************)
(* What Locate promises, proved for every page size, batch budget, limit   *)
(* of ids and server: LocateInv is inductive, and the properties follow    *)
(* from it.                                                                *)
(***************************************************************************)
EXTENDS Locate, FiniteSetTheorems, SequenceTheorems, WellFoundedInduction, TLAPS

-----------------------------------------------------------------------------
(* Loops *)

\* A set of numbers has a least one.
LEMMA Minimum ==
  ASSUME NEW T, T \subseteq Nat, T # {}
  PROVE  \E x \in T : \A y \in T : x <= y
  <1>1. PICK x \in T : \A y \in T : ~(<<y, x>> \in OpToRel(<, Nat))
    BY NatLessThanWellFounded, WFMin, Zenon
  <1>2. ASSUME NEW y \in T PROVE x <= y
    <2>1. x \in Nat /\ y \in Nat
      OBVIOUS
    <2>2. ~(y < x)
      BY <1>1, <2>1 DEF OpToRel
    <2> QED BY <2>1, <2>2
  <1> QED BY <1>2

\* A loop of n iterations: what holds before the first one and is kept by
\* each holds throughout.
LEMMA Loop ==
  ASSUME NEW n \in Nat, NEW S, 0 \in S,
         \A i \in 0 .. (n - 1) : i \in S => i + 1 \in S
  PROVE  \A i \in 0 .. n : i \in S
  <1> DEFINE T == {i \in 0 .. n : i \notin S}
  <1>1. SUFFICES ASSUME T # {} PROVE FALSE
    OBVIOUS
  <1>2. T \subseteq Nat
    OBVIOUS
  <1>3. PICK x \in T : \A y \in T : x <= y
    <2> HIDE DEF T
    <2> QED BY <1>1, <1>2, Minimum
  <1>4. x # 0 /\ x - 1 \in 0 .. (n - 1) /\ x - 1 < x
    OBVIOUS
  <1>5. x - 1 \notin T
    BY <1>3, <1>4
  <1> QED BY <1>4, <1>5

\* The loop of merge_new_ids, id by id.
LEMMA MergeLoop ==
  ASSUME NEW ids, NEW page, Len(page) \in Nat
  PROVE  \E g : /\ g = [i \in 0 .. Len(page) |->
                          IF i = 0 THEN ids ELSE WithId(g[i - 1], page[i])]
                /\ Merge(ids, page) = g[Len(page)]
  <1> DEFINE Upto(n) == \E g : g = [i \in 0 .. n |->
                          IF i = 0 THEN ids ELSE WithId(g[i - 1], page[i])]
             S == {n \in Nat : Upto(n)}
  <1>1. 0 \in S
    <2> DEFINE g == [i \in 0 .. 0 |-> ids]
    <2>1. g = [i \in 0 .. 0 |-> IF i = 0 THEN ids ELSE WithId(g[i - 1], page[i])]
      OBVIOUS
    <2> QED BY <2>1
  <1>2. ASSUME NEW n \in 0 .. (Len(page) - 1), n \in S PROVE n + 1 \in S
    <2>1. PICK g : g = [i \in 0 .. n |-> IF i = 0 THEN ids ELSE WithId(g[i - 1], page[i])]
      BY <1>2
    <2> DEFINE h == [i \in 0 .. (n + 1) |-> IF i = n + 1 THEN WithId(g[n], page[n + 1]) ELSE g[i]]
               e == [i \in 0 .. (n + 1) |-> IF i = 0 THEN ids ELSE WithId(h[i - 1], page[i])]
    <2>2. \A i \in 0 .. (n + 1) : h[i] = e[i]
      <3>1. SUFFICES ASSUME NEW i \in 0 .. (n + 1) PROVE h[i] = e[i]
        BY Zenon
      <3>2. CASE i = n + 1
        BY <3>2
      <3>3. CASE i # n + 1 /\ i # 0
        BY <3>3, <2>1
      <3>4. CASE i = 0
        BY <3>4, <2>1
      <3> QED BY <3>2, <3>3, <3>4
    <2>3. h = e
      BY <2>2
    <2>4. \E f : f = [i \in 0 .. (n + 1) |->
                     IF i = 0 THEN ids ELSE WithId(f[i - 1], page[i])]
      <3> HIDE DEF h
      <3> QED BY <2>3
    <2> QED BY <2>4
  <1>3. Len(page) \in S
    <2> HIDE DEF S
    <2>1. \A n \in 0 .. (Len(page) - 1) : n \in S => n + 1 \in S
      BY <1>2
    <2>2. \A n \in 0 .. Len(page) : n \in S
      BY <1>1, <2>1, Loop, Zenon
    <2> QED BY <2>2
  <1> DEFINE merged == CHOOSE g : g = [i \in 0 .. Len(page) |->
                          IF i = 0 THEN ids ELSE WithId(g[i - 1], page[i])]
  <1>4. merged = [i \in 0 .. Len(page) |->
                    IF i = 0 THEN ids ELSE WithId(merged[i - 1], page[i])]
    BY <1>3, Zenon
  <1>5. Merge(ids, page) = merged[Len(page)]
    BY Zenon DEF Merge
  <1> HIDE DEF merged
  <1> QED BY <1>4, <1>5

\* What merge_new_ids has made of `ids` after k ids of a page.
Merged(U, ids, page, k, s) ==
  /\ s \in Seq(U) /\ Distinct(s)
  /\ Len(s) >= Len(ids) /\ Len(s) <= max_ids /\ Len(s) <= Len(ids) + k
  /\ \A i \in 1 .. Len(ids) : s[i] = ids[i]
  /\ Len(s) < max_ids => \A i \in 1 .. k : \E j \in 1 .. Len(s) : s[j] = page[i]

\* One iteration of merge_new_ids.
LEMMA MergeStep ==
  ASSUME NEW U, NEW ids \in Seq(U), NEW page \in Seq(U), max_ids \in Nat,
         NEW k \in Nat, k < Len(page), NEW s, Merged(U, ids, page, k, s),
         NEW t, t = WithId(s, page[k + 1])
  PROVE  Merged(U, ids, page, k + 1, t)
  <1>1. /\ Len(s) \in Nat /\ Len(ids) \in Nat /\ Len(page) \in Nat
        /\ DOMAIN s = 1 .. Len(s) /\ page[k + 1] \in U /\ s \in Seq(U)
    BY DEF Merged
  <1>2. page[k + 1] \in Range(s) <=> \E j \in 1 .. Len(s) : s[j] = page[k + 1]
    BY <1>1, SMTT(30) DEF Range
  <1>3. CASE Len(s) < max_ids /\ page[k + 1] \notin Range(s)
    <2>1. t = Append(s, page[k + 1])
      BY <1>3 DEF WithId
    <2>2. /\ t \in Seq(U) /\ Len(t) = Len(s) + 1
          /\ \A i \in 1 .. Len(s) : t[i] = s[i]
          /\ t[Len(s) + 1] = page[k + 1]
      BY <1>1, <2>1, AppendProperties
    <2>3. Distinct(t)
      <3>1. SUFFICES ASSUME NEW i \in 1 .. Len(t), NEW j \in 1 .. Len(t), t[i] = t[j]
                     PROVE  i = j
        BY Zenon DEF Distinct
      <3>2. CASE i <= Len(s) /\ j <= Len(s)
        <4>1. i \in 1 .. Len(s) /\ j \in 1 .. Len(s)
          BY <1>1, <2>2, <3>2
        <4>2. s[i] = s[j]
          BY <2>2, <3>1, <4>1
        <4> QED BY <4>1, <4>2, Zenon DEF Merged, Distinct
      <3>3. CASE i > Len(s) /\ j > Len(s)
        BY <1>1, <2>2, <3>3
      <3>4. CASE i <= Len(s) /\ j > Len(s)
        BY <1>1, <1>2, <1>3, <2>2, <3>1, <3>4, SMTT(30)
      <3>5. CASE i > Len(s) /\ j <= Len(s)
        BY <1>1, <1>2, <1>3, <2>2, <3>1, <3>5, SMTT(30)
      <3> QED BY <1>1, <2>2, <3>2, <3>3, <3>4, <3>5
    <2>4. \A i \in 1 .. Len(ids) : t[i] = ids[i]
      BY <1>1, <2>2, SMTT(30) DEF Merged
    <2>5. ASSUME NEW i \in 1 .. (k + 1) PROVE \E j \in 1 .. Len(t) : t[j] = page[i]
      <3>1. CASE i = k + 1
        BY <1>1, <2>2, <3>1
      <3>2. CASE i # k + 1
        <4>1. PICK j \in 1 .. Len(s) : s[j] = page[i]
          BY <1>3, <3>2 DEF Merged
        <4>2. j \in 1 .. Len(t)
          BY <1>1, <2>2, SMTT(30)
        <4>3. t[j] = page[i]
          BY <2>2, <4>1, Zenon
        <4> QED BY <4>2, <4>3
      <3> QED BY <3>1, <3>2
    <2>6. Len(s) >= Len(ids) /\ Len(s) <= Len(ids) + k
      BY DEF Merged
    <2>7. /\ Len(t) >= Len(ids) /\ Len(t) <= max_ids /\ Len(t) <= Len(ids) + (k + 1)
      BY <1>1, <1>3, <2>2, <2>6
    <2> QED BY <2>2, <2>3, <2>4, <2>5, <2>7, Zenon DEF Merged
  <1>4. CASE ~(Len(s) < max_ids /\ page[k + 1] \notin Range(s))
    <2>1. t = s
      BY <1>4 DEF WithId
    <2>2. ASSUME Len(t) < max_ids, NEW i \in 1 .. (k + 1)
          PROVE  \E j \in 1 .. Len(t) : t[j] = page[i]
      <3>1. CASE i = k + 1
        BY <1>2, <1>4, <2>1, <2>2, <3>1
      <3>2. CASE i # k + 1
        <4>1. i \in 1 .. k
          BY <3>2
        <4> QED BY <2>1, <2>2, <4>1 DEF Merged
      <3> QED BY <3>1, <3>2
    <2>3. /\ Len(s) >= Len(ids) /\ Len(s) <= max_ids /\ Len(s) <= Len(ids) + k
          /\ s \in Seq(U) /\ Distinct(s) /\ \A i \in 1 .. Len(ids) : s[i] = ids[i]
      BY DEF Merged
    <2>4. Len(t) <= Len(ids) + (k + 1)
      BY <1>1, <2>1, <2>3
    <2> QED BY <2>1, <2>2, <2>3, <2>4, Zenon DEF Merged
  <1> QED BY <1>3, <1>4

\* merge_new_ids, whatever the page: at most max_ids distinct ids, those that
\* were known first, and every id of the page unless max_ids is reached.
LEMMA MergeFacts ==
  ASSUME NEW U, NEW ids \in Seq(U), NEW page \in Seq(U), max_ids \in Nat,
         Distinct(ids), Len(ids) <= max_ids
  PROVE  Merged(U, ids, page, Len(page), Merge(ids, page))
  <1>1. Len(page) \in Nat /\ Len(ids) \in Nat
    OBVIOUS
  <1>2. PICK g : /\ g = [i \in 0 .. Len(page) |->
                          IF i = 0 THEN ids ELSE WithId(g[i - 1], page[i])]
                 /\ Merge(ids, page) = g[Len(page)]
    BY <1>1, MergeLoop
  <1> DEFINE S == {k \in Nat : Merged(U, ids, page, k, g[k])}
  <1>3. 0 \in S
    BY <1>1, <1>2 DEF Merged
  <1>4. ASSUME NEW k \in 0 .. (Len(page) - 1), k \in S PROVE k + 1 \in S
    <2>1. g[k + 1] = WithId(g[k], page[k + 1])
      BY <1>1, <1>2
    <2>2. k \in Nat /\ k < Len(page) /\ Merged(U, ids, page, k, g[k])
      BY <1>1, <1>4
    <2>3. Merged(U, ids, page, k + 1, g[k + 1])
      BY <2>1, <2>2, MergeStep
    <2> QED BY <2>2, <2>3
  <1>5. Len(page) \in S
    <2> HIDE DEF S
    <2>1. \A n \in 0 .. (Len(page) - 1) : n \in S => n + 1 \in S
      BY <1>4
    <2>2. \A n \in 0 .. Len(page) : n \in S
      BY <1>1, <1>3, <2>1, Loop, Zenon
    <2> QED BY <1>1, <2>2
  <1> QED BY <1>2, <1>5

-----------------------------------------------------------------------------
(* Counting ids *)

\* The ids of a list.
LEMMA Elements ==
  ASSUME NEW U, NEW s \in Seq(U)
  PROVE  Range(s) \subseteq U /\ \A x \in Range(s) : \E i \in 1 .. Len(s) : x = s[i]
  BY DEF Range

\* Distinct ids are as many as there are places in the list.
LEMMA Count ==
  ASSUME NEW U, NEW s \in Seq(U), Distinct(s)
  PROVE  IsFiniteSet(Range(s)) /\ Cardinality(Range(s)) = Len(s)
  <1>1. Len(s) \in Nat /\ DOMAIN s = 1 .. Len(s) /\ s \in [1 .. Len(s) -> Range(s)]
    BY DEF Range
  <1>2. s \in Bijection(1 .. Len(s), Range(s))
    BY <1>1 DEF Bijection, Injection, IsInjective, Surjection, Range, Distinct
  <1>3. IsFiniteSet(1 .. Len(s)) /\ Cardinality(1 .. Len(s)) = Len(s)
    BY <1>1, FS_Interval, SMTT(30)
  <1>4. ExistsBijection(1 .. Len(s), Range(s))
    BY <1>2 DEF ExistsBijection
  <1> QED BY <1>3, <1>4, FS_Bijection

\* No more distinct ids than there are objects, and as many only when every
\* object is among them.
LEMMA CountWithin ==
  ASSUME NEW n \in Nat, NEW s \in Seq(1 .. n), Distinct(s)
  PROVE  Len(s) <= n /\ ((1 .. n) \subseteq Range(s) => Len(s) = n)
  <1>1. IsFiniteSet(Range(s)) /\ Cardinality(Range(s)) = Len(s)
    BY Count
  <1>2. IsFiniteSet(1 .. n) /\ Cardinality(1 .. n) = n
    BY FS_Interval
  <1>3. Range(s) \subseteq 1 .. n
    BY DEF Range
  <1>4. Len(s) <= n
    BY <1>1, <1>2, <1>3, FS_Subset
  <1>5. (1 .. n) \subseteq Range(s) => 1 .. n = Range(s)
    BY <1>3
  <1> QED BY <1>1, <1>2, <1>4, <1>5

\* A list that holds every id of another one is as long.
LEMMA CountMore ==
  ASSUME NEW U, NEW s \in Seq(U), Distinct(s), NEW t \in Seq(U), Distinct(t),
         Range(t) \subseteq Range(s)
  PROVE  Len(t) <= Len(s) /\ Cardinality(Range(s) \cap Range(t)) = Len(t)
  <1>1. /\ IsFiniteSet(Range(s)) /\ Cardinality(Range(s)) = Len(s)
        /\ IsFiniteSet(Range(t)) /\ Cardinality(Range(t)) = Len(t)
    BY Count
  <1>2. Len(t) <= Len(s)
    BY <1>1, FS_Subset
  <1>3. Range(s) \cap Range(t) = Range(t)
    OBVIOUS
  <1> QED BY <1>1, <1>2, <1>3

-----------------------------------------------------------------------------
(* The server *)

\* The first object of a page and the number of its objects.
From(first) == IF server.honor THEN Least(first, server.n) ELSE 0
PageCount(first, max) ==
  Least(IF server.cap = 0 THEN max ELSE Least(max, server.cap), server.n - From(first))

\* What a server that holds n objects answers.
LEMMA FixedResponse ==
  ASSUME server \in ServerTypes, server.kind = "fixed",
         NEW first \in Nat, NEW max \in Nat, NEW r \in Responses(first, max)
  PROVE  /\ From(first) \in 0 .. server.n
         /\ PageCount(first, max) \in 0 .. (server.n - From(first))
         /\ r.ids \in Seq(Objects) /\ Distinct(r.ids)
         /\ Len(r.ids) = PageCount(first, max)
         /\ r.located \in Nat \cup {None}
         /\ server.total = "none" => r.located = None
         /\ server.total = "all" => r.located = server.n
         /\ server.total = "page" => r.located = Len(r.ids)
  <1> DEFINE from == From(first)
             count == PageCount(first, max)
  <1>1. server.n \in Nat /\ server.cap \in Nat /\ server.total \in {"none", "all", "page"}
    BY DEF ServerTypes
  <1>2. from \in 0 .. server.n /\ count \in 0 .. (server.n - from)
    BY <1>1 DEF From, PageCount, Least
  <1>3. PICK o \in Orders : r = FixedPage(o, first, max)
    BY DEF Responses
  <1>4. /\ o \in [Objects -> Objects] /\ \A i, j \in Objects : o[i] = o[j] => i = j
    BY DEF Orders
  <1>5. /\ r.ids = SubSeq(o, from + 1, from + count)
        /\ r.located = CASE server.total = "none" -> None
                         [] server.total = "all" -> server.n
                         [] server.total = "page" -> count
    BY <1>3 DEF FixedPage, From, PageCount
  <1> HIDE DEF from, count
  <1>6. \A i \in from + 1 .. from + count : i \in Objects /\ o[i] \in Objects
    <2>1. SUFFICES ASSUME NEW i \in from + 1 .. from + count PROVE i \in 1 .. server.n
      BY <1>4 DEF Objects
    <2> QED BY <1>1, <1>2
  <1>7. /\ r.ids \in Seq(Objects)
        /\ Len(r.ids) = count
        /\ \A i \in 1 .. count : r.ids[i] = o[from + i]
    <2> DEFINE a == from + 1
               b == from + count
    <2>1. /\ a \in Int /\ b \in Int /\ \A i \in a .. b : o[i] \in Objects
          /\ r.ids = SubSeq(o, a, b)
      BY <1>1, <1>2, <1>5, <1>6
    <2>2. from \in Nat /\ count \in Nat
      BY <1>1, <1>2
    <2>3. /\ r.ids \in Seq(Objects)
          /\ Len(r.ids) = IF a <= b THEN b - a + 1 ELSE 0
          /\ \A i \in 1 .. b - a + 1 : r.ids[i] = o[a + i - 1]
      <3> HIDE DEF a, b
      <3>1. /\ SubSeq(o, a, b) \in Seq(Objects)
            /\ Len(SubSeq(o, a, b)) = IF a <= b THEN b - a + 1 ELSE 0
            /\ \A i \in 1 .. b - a + 1 : SubSeq(o, a, b)[i] = o[a + i - 1]
        BY <2>1, SubSeqProperties, SMT
      <3> QED BY <2>1, <3>1, Zenon
    <2>4. Len(r.ids) = count
      BY <2>2, <2>3
    <2>5. b - a + 1 = count /\ \A i \in 1 .. count : a + i - 1 = from + i
      BY <2>2
    <2> QED BY <2>3, <2>4, <2>5
  <1>8. Distinct(r.ids)
    <2>1. SUFFICES ASSUME NEW i \in 1 .. count, NEW j \in 1 .. count, r.ids[i] = r.ids[j]
                   PROVE  i = j
      BY <1>7, Zenon DEF Distinct
    <2>2. o[from + i] = o[from + j]
      BY <1>7, <2>1
    <2>3. from + i \in Objects /\ from + j \in Objects /\ from \in Nat
      BY <1>1, <1>2 DEF Objects
    <2>4. from + i = from + j
      BY <1>4, <2>2, <2>3, Zenon
    <2> QED BY <2>3, <2>4
  <1>9. /\ r.located \in Nat \cup {None}
        /\ server.total = "none" => r.located = None
        /\ server.total = "all" => r.located = server.n
        /\ server.total = "page" => r.located = count
    BY <1>1, <1>2, <1>5
  <1> QED BY <1>2, <1>7, <1>8, <1>9 DEF from, count

\* What any server answers.
LEMMA Response ==
  ASSUME server \in ServerTypes,
         NEW first \in Nat, NEW max \in Nat, NEW r \in Responses(first, max)
  PROVE  /\ r.ids \in Seq(Nameable)
         /\ LocatedTotal(r.located, Len(r.ids)) \in Nat \cup {None}
  <1>1. CASE server.kind = "fixed"
    BY <1>1, FixedResponse DEF Nameable, LocatedTotal
  <1>2. CASE server.kind # "fixed"
    <2>1. r \in [ids : UNION {[1 .. k -> Ids] : k \in 0 .. (max + 1)},
                 located : None .. (Cardinality(Ids) + 1)]
      BY <1>2 DEF Responses
    <2>2. PICK k \in 0 .. (max + 1) : r.ids \in [1 .. k -> Ids]
      BY <2>1
    <2>3. r.ids \in Seq(Ids)
      BY <2>2
    <2>4. r.located \in Int /\ r.located >= -1
      BY <2>1 DEF None
    <2>5. Len(r.ids) \in Nat
      BY <2>3
    <2> QED BY <1>2, <2>3, <2>4, <2>5 DEF Nameable, LocatedTotal, None
  <1> QED BY <1>1, <1>2

-----------------------------------------------------------------------------
(* The requests of the fallback *)

\* The page sizes are the doublings of twice the batch size.
LEMMA SizesDouble ==
  ASSUME NEW m \in Nat
  PROVE  Sizes(m) = [k \in 0 .. m |->
                    IF k = 0 THEN 2 * MAX_ITEMS_IN_BATCH ELSE 2 * Sizes(m)[k - 1]]
  <1> DEFINE Upto(n) == \E g : g = [k \in 0 .. n |->
                          IF k = 0 THEN 2 * MAX_ITEMS_IN_BATCH ELSE 2 * g[k - 1]]
             S == {n \in Nat : Upto(n)}
  <1>1. 0 \in S
    <2> DEFINE g == [k \in 0 .. 0 |-> 2 * MAX_ITEMS_IN_BATCH]
    <2>1. g = [k \in 0 .. 0 |-> IF k = 0 THEN 2 * MAX_ITEMS_IN_BATCH ELSE 2 * g[k - 1]]
      OBVIOUS
    <2> QED BY <2>1
  <1>2. ASSUME NEW n \in 0 .. (m - 1), n \in S PROVE n + 1 \in S
    <2>1. PICK g : g = [k \in 0 .. n |->
                          IF k = 0 THEN 2 * MAX_ITEMS_IN_BATCH ELSE 2 * g[k - 1]]
      BY <1>2
    <2> DEFINE h == [k \in 0 .. (n + 1) |-> IF k = n + 1 THEN 2 * g[n] ELSE g[k]]
               e == [k \in 0 .. (n + 1) |->
                       IF k = 0 THEN 2 * MAX_ITEMS_IN_BATCH ELSE 2 * h[k - 1]]
    <2>2. \A k \in 0 .. (n + 1) : h[k] = e[k]
      <3>1. SUFFICES ASSUME NEW k \in 0 .. (n + 1) PROVE h[k] = e[k]
        BY Zenon
      <3>2. CASE k = n + 1
        BY <3>2
      <3>3. CASE k # n + 1 /\ k # 0
        BY <3>3, <2>1
      <3>4. CASE k = 0
        BY <3>4, <2>1
      <3> QED BY <3>2, <3>3, <3>4
    <2>3. h = e
      BY <2>2
    <2>4. \E f : f = [k \in 0 .. (n + 1) |->
                     IF k = 0 THEN 2 * MAX_ITEMS_IN_BATCH ELSE 2 * f[k - 1]]
      <3> HIDE DEF h
      <3> QED BY <2>3
    <2> QED BY <2>4
  <1>3. m \in S
    <2> HIDE DEF S
    <2>1. \A n \in 0 .. (m - 1) : n \in S => n + 1 \in S
      BY <1>2
    <2>2. \A n \in 0 .. m : n \in S
      BY <1>1, <2>1, Loop, Zenon
    <2> QED BY <2>2
  <1> QED BY <1>3, Zenon DEF Sizes

\* They grow faster than their number.
LEMMA SizesGrow ==
  ASSUME NEW m \in Nat
  PROVE  /\ \A k \in 0 .. m : Sizes(m)[k] \in Nat /\ Sizes(m)[k] > k
         /\ Sizes(m)[0] = 2 * MAX_ITEMS_IN_BATCH
         /\ \A k \in 0 .. (m - 1) : Sizes(m)[k + 1] = 2 * Sizes(m)[k]
  <1>1. MAX_ITEMS_IN_BATCH \in Nat \ {0}
    BY LocateAssumption
  <1>2. Sizes(m)[0] = 2 * MAX_ITEMS_IN_BATCH
    BY SizesDouble
  <1>3. \A k \in 0 .. (m - 1) : Sizes(m)[k + 1] = 2 * Sizes(m)[k]
    <2>1. SUFFICES ASSUME NEW k \in 0 .. (m - 1) PROVE Sizes(m)[k + 1] = 2 * Sizes(m)[k]
      BY Zenon
    <2>2. k + 1 \in 0 .. m /\ k + 1 # 0 /\ (k + 1) - 1 = k
      OBVIOUS
    <2> QED BY <2>2, SizesDouble
  <1> DEFINE S == {k \in Nat : Sizes(m)[k] \in Nat /\ Sizes(m)[k] > k}
  <1>4. 0 \in S
    BY <1>1, <1>2
  <1>5. ASSUME NEW k \in 0 .. (m - 1), k \in S PROVE k + 1 \in S
    BY <1>3, <1>5
  <1>6. \A k \in 0 .. m : k \in S
    <2> HIDE DEF S
    <2>1. \A k \in 0 .. (m - 1) : k \in S => k + 1 \in S
      BY <1>5
    <2> QED BY <1>4, <2>1, Loop, Zenon
  <1> QED BY <1>2, <1>3, <1>6

\* So m is reached.
LEMMA DoublingsReach ==
  ASSUME NEW m \in Nat
  PROVE  Doublings(m) \in 0 .. m /\ Sizes(m)[Doublings(m)] >= m
  <1> DEFINE T == {d \in 0 .. m : Sizes(m)[d] >= m}
  <1>1. m \in T /\ T \subseteq Nat
    BY SizesGrow
  <1>2. PICK d \in T : \A e \in T : d <= e
    <2> HIDE DEF T
    <2> QED BY <1>1, Minimum
  <1>3. ASSUME NEW e \in 0 .. (d - 1) PROVE Sizes(m)[e] < m
    <2>1. e \in 0 .. m /\ ~(d <= e)
      OBVIOUS
    <2>2. ~(Sizes(m)[e] >= m)
      BY <1>2, <2>1
    <2> QED BY <2>1, <2>2, SizesGrow
  <1>4. \E x \in 0 .. m :
          Sizes(m)[x] >= m /\ \A e \in 0 .. (x - 1) : Sizes(m)[e] < m
    BY <1>2, <1>3
  <1> QED BY <1>4, Zenon DEF Doublings

\* Budget is what the paging, the fallback and the probing need together.
LEMMA BudgetIs ==
  ASSUME max_ids \in Nat
  PROVE  /\ MAX_BATCHES_IN_SEARCH * Len(ProbePageSizes) \in Nat
         /\ Budget = MAX_BATCHES_IN_SEARCH
                      + MAX_BATCHES_IN_SEARCH * Len(ProbePageSizes) + Doublings(max_ids) + 1
  <1>1. MAX_BATCHES_IN_SEARCH \in Nat \ {0} /\ Len(ProbePageSizes) \in Nat
    BY LocateAssumption
  <1>2. Doublings(max_ids) \in Nat
    BY DoublingsReach
  <1> QED BY <1>1, <1>2 DEF Budget

-----------------------------------------------------------------------------
(* A page and what the search makes of it *)

\* What the call and the server are like.
LEMMA Facts ==
  ASSUME Known
  PROVE  /\ search \in {"group", "all"} /\ max_ids \in Nat /\ server \in ServerTypes
         /\ server.n \in Nat /\ result \in Seq(Nameable) /\ Distinct(result)
         /\ Len(result) \in Nat /\ Len(result) <= max_ids
         /\ MAX_ITEMS_IN_BATCH \in Nat \ {0} /\ MAX_BATCHES_IN_SEARCH \in Nat \ {0}
  <1>1. [search |-> search, max_ids |-> max_ids, server |-> server]
          \in [search : {"group", "all"}, max_ids : Nat, server : ServerTypes]
    BY LocateAssumption DEF Known
  <1>2. search \in {"group", "all"} /\ max_ids \in Nat /\ server \in ServerTypes
    BY <1>1
  <1>3. server.n \in Nat
    BY <1>2 DEF ServerTypes
  <1>4. result \in Seq(Nameable) /\ Distinct(result) /\ Len(result) <= max_ids
    BY DEF Known, Distinct
  <1> QED BY <1>2, <1>3, <1>4, LocateAssumption

\* Merging a page keeps what is known of the list.
LEMMA PageMerged ==
  ASSUME Known, NEW first \in Nat, NEW max \in Nat, NEW r \in Responses(first, max)
  PROVE  /\ Merged(Nameable, result, r.ids, Len(r.ids), Merge(result, r.ids))
         /\ Len(r.ids) \in Nat
  BY Facts, Response, MergeFacts

\* The list never exceeds the objects of the server; a page with all of them
\* completes it and lacks no known id, and a page of max_ids fills it.
LEMMA FixedMerged ==
  ASSUME Known, server.kind = "fixed",
         NEW first \in Nat, NEW max \in Nat, NEW r \in Responses(first, max),
         NEW m, m = Merge(result, r.ids)
  PROVE  /\ Len(m) <= server.n /\ Len(m) <= max_ids /\ Len(result) <= Len(m)
         /\ Len(m) <= Len(result) + Len(r.ids)
         /\ Len(m) \in Nat /\ Len(r.ids) \in Nat
         /\ Len(m) < max_ids /\ Len(r.ids) = server.n => Len(m) = server.n
         /\ Len(r.ids) >= max_ids => Len(m) = max_ids
         /\ Len(r.ids) = server.n => ~Omits(r.ids)
  <1>1. Merged(Nameable, result, r.ids, Len(r.ids), m) /\ Len(r.ids) \in Nat
    BY PageMerged
  <1>2. /\ Nameable = 1 .. server.n /\ Objects = 1 .. server.n /\ server.n \in Nat
        /\ max_ids \in Nat /\ result \in Seq(1 .. server.n) /\ Distinct(result)
    BY Facts DEF Nameable, Objects
  <1>3. r.ids \in Seq(1 .. server.n) /\ Distinct(r.ids)
    BY <1>2, Facts, FixedResponse
  <1>4. /\ m \in Seq(1 .. server.n) /\ Distinct(m) /\ Len(m) \in Nat
        /\ Len(result) <= Len(m) /\ Len(m) <= max_ids
        /\ Len(m) <= Len(result) + Len(r.ids)
    BY <1>1, <1>2 DEF Merged
  <1>5. Len(m) <= server.n /\ ((1 .. server.n) \subseteq Range(m) => Len(m) = server.n)
    BY <1>2, <1>4, CountWithin
  <1>6. Len(m) < max_ids => Range(r.ids) \subseteq Range(m)
    <2>1. SUFFICES ASSUME Len(m) < max_ids, NEW x \in Range(r.ids) PROVE x \in Range(m)
      BY Zenon
    <2>2. PICK i \in 1 .. Len(r.ids) : x = r.ids[i]
      BY <1>3, <2>1, Elements, Zenon
    <2>3. PICK j \in 1 .. Len(m) : m[j] = r.ids[i]
      BY <1>1, <2>1 DEF Merged
    <2> QED BY <1>4, <2>2, <2>3 DEF Range
  <1>7. Len(r.ids) = server.n => Range(r.ids) = 1 .. server.n
    <2>1. Range(r.ids) \subseteq 1 .. server.n
      BY <1>3, Elements, Zenon
    <2>2. Cardinality(Range(r.ids)) = Len(r.ids)
      BY <1>3, Count
    <2>3. IsFiniteSet(1 .. server.n) /\ Cardinality(1 .. server.n) = server.n
      BY <1>2, FS_Interval, SMTT(30)
    <2> QED BY <2>1, <2>2, <2>3, FS_Subset
  <1>8. Len(r.ids) >= max_ids => Len(m) = max_ids
    <2>1. SUFFICES ASSUME Len(r.ids) >= max_ids, Len(m) < max_ids PROVE FALSE
      BY <1>2, <1>4
    <2>2. Range(r.ids) \subseteq Range(m)
      BY <1>6, <2>1
    <2>3. Len(r.ids) <= Len(m)
      BY <1>3, <1>4, <2>2, CountMore, Zenon
    <2> QED BY <1>1, <1>2, <1>4, <2>1, <2>3
  <1>9. Len(r.ids) = server.n => ~Omits(r.ids)
    <2>1. SUFFICES ASSUME Len(r.ids) = server.n PROVE ~Omits(r.ids)
      OBVIOUS
    <2>2. Range(result) \subseteq Range(r.ids)
      <3>1. Range(result) \subseteq 1 .. server.n
        BY <1>2, Elements, Zenon
      <3> QED BY <1>7, <2>1, <3>1
    <2>3. Cardinality(Range(r.ids) \cap Range(result)) = Len(result)
      BY <1>2, <1>3, <2>2, CountMore, SMTT(30)
    <2> QED BY <1>2, <2>3 DEF Omits
  <1> QED BY <1>1, <1>4, <1>5, <1>6, <1>7, <1>8, <1>9

\* A total is used only when it is the number of objects; when the page of a
\* server that counts them all gives none, it holds every object, and a short
\* page of a server that does not cap its pages is the rest of the list.
LEMMA TotalUsed ==
  ASSUME Known, server.kind = "fixed",
         NEW first \in Nat, NEW max \in Nat, NEW r \in Responses(first, max),
         NEW usable, usable = LocatedTotal(r.located, Len(r.ids))
  PROVE  /\ usable \in Nat \cup {None}
         /\ usable # None => usable = server.n /\ server.total = "all"
         /\ server.total = "all" /\ usable = None =>
              Len(r.ids) = server.n /\ From(first) = 0
         /\ server.cap = 0 /\ Len(r.ids) < max => Len(r.ids) = server.n - From(first)
         /\ server.cap = 0 => Len(r.ids) = Least(max, server.n - From(first))
         /\ r.ids = <<>> /\ max > 0 => server.n = From(first)
         /\ From(first) \in 0 .. server.n
         /\ Len(r.ids) \in 0 .. (server.n - From(first))
         /\ From(first) = IF server.honor THEN Least(first, server.n) ELSE 0
  <1>1. /\ From(first) \in 0 .. server.n
        /\ PageCount(first, max) \in 0 .. (server.n - From(first))
        /\ Len(r.ids) = PageCount(first, max)
        /\ r.located \in Nat \cup {None}
        /\ server.total = "none" => r.located = None
        /\ server.total = "all" => r.located = server.n
        /\ server.total = "page" => r.located = Len(r.ids)
    BY Facts, FixedResponse
  <1>2. /\ server.n \in Nat /\ server.cap \in Nat
        /\ server.total \in {"none", "all", "page"}
    BY Facts DEF ServerTypes
  <1>3. /\ usable \in Nat \cup {None}
        /\ usable # None => usable = server.n /\ server.total = "all"
        /\ server.total = "all" /\ usable = None => Len(r.ids) >= server.n
    BY <1>1, <1>2 DEF LocatedTotal, None
  <1>4. /\ server.cap = 0 => Len(r.ids) = Least(max, server.n - From(first))
        /\ Len(r.ids) = 0 /\ max > 0 => server.n = From(first)
    BY <1>1, <1>2 DEF PageCount, Least
  <1>5. server.cap = 0 /\ Len(r.ids) < max => Len(r.ids) = server.n - From(first)
    BY <1>1, <1>2, <1>4 DEF Least
  <1>6. Len(<<>>) = 0
    OBVIOUS
  <1> QED BY <1>1, <1>2, <1>3, <1>4, <1>5, <1>6 DEF From

-----------------------------------------------------------------------------
(* The verdicts *)

\* From here on every leaf gets half a minute.
USE SMTT(30), ZenonT(30)

\* When the paging loop ends the search, the list is complete.
LEMMA PagingComplete ==
  ASSUME LocateInv, pc = "paging", Uncapped \/ CountsAll,
         NEW size, size = Least(max_ids - Len(result), MAX_ITEMS_IN_BATCH),
         NEW r \in Responses(offset, size),
         NEW m, m = Merge(result, r.ids),
         NEW usable, usable = LocatedTotal(r.located, Len(r.ids)),
         NEW total, total = IF r.ids # <<>> /\ usable # None THEN usable ELSE known_total,
         PagingVerdict(r.ids, size, m, total) \in {"finished", "confirmed"}
  PROVE  Len(m) = Least(server.n, max_ids)
  <1>1. /\ Known /\ server.kind = "fixed" /\ offset = Len(result)
        /\ Len(result) < max_ids /\ offset \in Nat
    BY DEF LocateInv, PagingInv, Known, Uncapped, CountsAll
  <1>2. /\ max_ids \in Nat /\ server.n \in Nat /\ Len(result) \in Nat
        /\ size \in Nat /\ size > 0
    BY <1>1, Facts DEF Least
  <1>3. /\ Len(m) <= server.n /\ Len(m) <= max_ids /\ Len(result) <= Len(m)
        /\ Len(m) <= Len(result) + Len(r.ids) /\ Len(m) \in Nat /\ Len(r.ids) \in Nat
        /\ Len(m) < max_ids /\ Len(r.ids) = server.n => Len(m) = server.n
    BY <1>1, <1>2, FixedMerged
  <1>4. /\ usable # None => usable = server.n
        /\ server.total = "all" /\ usable = None => Len(r.ids) = server.n
        /\ server.cap = 0 /\ Len(r.ids) < size => Len(r.ids) = server.n - From(offset)
        /\ r.ids = <<>> => server.n = From(offset)
        /\ From(offset) = IF server.honor THEN Least(offset, server.n) ELSE 0
    BY <1>1, <1>2, TotalUsed
  <1>5. total # None => total = server.n
    BY <1>1, <1>4 DEF LocateInv, TotalInv
  <1>6. SUFFICES ASSUME Len(m) < max_ids PROVE Len(m) = server.n
    BY <1>2, <1>3 DEF Least
  <1>7. CASE r.ids = <<>>
    <2>1. Len(r.ids) = 0 /\ server.n = From(offset)
      BY <1>4, <1>7
    <2> QED BY <1>1, <1>2, <1>3, <1>4, <2>1 DEF Least
  <1>8. CASE r.ids # <<>> /\ total # None /\ Len(m) >= total
    BY <1>2, <1>3, <1>5, <1>8
  <1>9. CASE r.ids # <<>> /\ ~(total # None /\ Len(m) >= total)
    <2>1. /\ ~(Len(m) - Len(result) < Len(r.ids))
          /\ Len(r.ids) < size /\ total = None
      BY <1>2, <1>6, <1>9 DEF PagingVerdict, LastPage
    <2>2. usable = None
      BY <1>9, <2>1
    <2>3. CASE server.total = "all"
      BY <1>3, <1>4, <1>6, <2>2, <2>3
    <2>4. CASE server.cap = 0
      <3>1. Len(r.ids) = server.n - From(offset)
        BY <1>4, <2>1, <2>4
      <3>2. CASE From(offset) = 0
        BY <1>2, <1>3, <1>6, <3>1, <3>2
      <3>3. CASE From(offset) = Len(result)
        BY <1>2, <1>3, <2>1, <3>1, <3>3
      <3> QED BY <1>1, <1>2, <1>3, <1>4, <3>2, <3>3 DEF Least
    <2> QED BY <2>3, <2>4 DEF Uncapped, CountsAll
  <1> QED BY <1>7, <1>8, <1>9

\* A page at offset 0 of the fallback.
LEMMA FallbackFacts ==
  ASSUME LocateInv, pc = "fallback", server.kind = "fixed",
         NEW r \in Responses(0, page_size),
         NEW m, m = Merge(result, r.ids),
         NEW usable, usable = LocatedTotal(r.located, Len(r.ids)),
         NEW total, total = IF usable # None THEN usable ELSE known_total
  PROVE  /\ max_ids \in Nat /\ server.n \in Nat /\ page_size \in Nat
         /\ Len(m) \in Nat /\ Len(r.ids) \in Nat
         /\ Len(m) <= server.n /\ Len(m) <= max_ids
         /\ Len(m) < max_ids /\ Len(r.ids) = server.n => Len(m) = server.n
         /\ Len(r.ids) >= max_ids => Len(m) = max_ids
         /\ Len(r.ids) = server.n => ~Omits(r.ids)
         /\ total # None => total = server.n
         /\ CountsAll /\ total = None => Len(r.ids) = server.n
         /\ Uncapped /\ Len(r.ids) < page_size => Len(r.ids) = server.n
  <1>1. Known /\ page_size \in Nat /\ max_ids \in Nat /\ server.n \in Nat
    BY Facts DEF LocateInv, Known
  <1>2. /\ Len(m) \in Nat /\ Len(r.ids) \in Nat
        /\ Len(m) <= server.n /\ Len(m) <= max_ids
        /\ Len(m) < max_ids /\ Len(r.ids) = server.n => Len(m) = server.n
        /\ Len(r.ids) >= max_ids => Len(m) = max_ids
        /\ Len(r.ids) = server.n => ~Omits(r.ids)
    BY <1>1, FixedMerged
  <1>3. /\ usable # None => usable = server.n
        /\ server.total = "all" /\ usable = None => Len(r.ids) = server.n
        /\ server.cap = 0 /\ Len(r.ids) < page_size => Len(r.ids) = server.n - From(0)
        /\ From(0) = IF server.honor THEN Least(0, server.n) ELSE 0
    BY <1>1, TotalUsed
  <1>4. From(0) = 0
    BY <1>1, <1>3 DEF Least
  <1>5. total # None => total = server.n
    BY <1>3 DEF LocateInv, TotalInv
  <1>6. total = None => usable = None
    OBVIOUS
  <1> QED BY <1>1, <1>2, <1>3, <1>4, <1>5, <1>6 DEF CountsAll, Uncapped

\* When the fallback ends the search, the list is complete.
LEMMA FallbackComplete ==
  ASSUME LocateInv, pc = "fallback", Uncapped \/ CountsAll,
         NEW r \in Responses(0, page_size),
         NEW m, m = Merge(result, r.ids),
         NEW usable, usable = LocatedTotal(r.located, Len(r.ids)),
         NEW total, total = IF usable # None THEN usable ELSE known_total,
         FallbackVerdict(r.ids, m, total) \in {"finished", "confirmed"}
  PROVE  Len(m) = Least(server.n, max_ids)
  <1>1. server.kind = "fixed"
    BY DEF Uncapped, CountsAll
  <1>2. /\ max_ids \in Nat /\ server.n \in Nat /\ page_size \in Nat
        /\ Len(m) \in Nat /\ Len(r.ids) \in Nat
        /\ Len(m) <= server.n /\ Len(m) <= max_ids
        /\ Len(m) < max_ids /\ Len(r.ids) = server.n => Len(m) = server.n
        /\ total # None => total = server.n
        /\ CountsAll /\ total = None => Len(r.ids) = server.n
        /\ Uncapped /\ Len(r.ids) < page_size => Len(r.ids) = server.n
    BY <1>1, FallbackFacts
  <1>3. SUFFICES ASSUME Len(m) < max_ids PROVE Len(m) = server.n
    BY <1>2 DEF Least
  <1>4. CASE total # None /\ Len(m) >= total
    BY <1>2, <1>4
  <1>5. CASE ~(total # None /\ Len(m) >= total)
    <2>1. Len(r.ids) < page_size /\ total = None
      BY <1>2, <1>3, <1>5 DEF FallbackVerdict
    <2> QED BY <1>2, <1>3, <2>1
  <1> QED BY <1>4, <1>5

\* The fallback never gives up on a server that does not cap its pages.
LEMMA FallbackSucceeds ==
  ASSUME LocateInv, pc = "fallback", Uncapped,
         NEW r \in Responses(0, page_size),
         NEW m, m = Merge(result, r.ids),
         NEW usable, usable = LocatedTotal(r.located, Len(r.ids)),
         NEW total, total = IF usable # None THEN usable ELSE known_total
  PROVE  FallbackVerdict(r.ids, m, total) # "throw"
  <1>1. server.kind = "fixed"
    BY DEF Uncapped
  <1>2. /\ max_ids \in Nat /\ server.n \in Nat /\ page_size \in Nat
        /\ Len(m) \in Nat /\ Len(r.ids) \in Nat
        /\ Len(m) <= server.n /\ Len(m) <= max_ids
        /\ Len(m) < max_ids /\ Len(r.ids) = server.n => Len(m) = server.n
        /\ Len(r.ids) >= max_ids => Len(m) = max_ids
        /\ Len(r.ids) = server.n => ~Omits(r.ids)
        /\ total # None => total = server.n
        /\ Len(r.ids) < page_size => Len(r.ids) = server.n
    BY <1>1, FallbackFacts
  <1>3. CASE Len(m) >= max_ids \/ (total # None /\ Len(m) >= total)
    BY <1>3 DEF FallbackVerdict
  <1>4. CASE ~(Len(m) >= max_ids) /\ ~(total # None /\ Len(m) >= total)
    <2>1. CASE Len(r.ids) < page_size
      <3>1. ~Omits(r.ids) /\ total = None
        BY <1>2, <1>4, <2>1
      <3> QED BY <1>4, <2>1, <3>1 DEF FallbackVerdict
    <2>2. CASE ~(Len(r.ids) < page_size)
      <3>1. ~LargestPage
        BY <1>2, <1>4, <2>2 DEF LargestPage
      <3> QED BY <1>4, <2>2, <3>1 DEF FallbackVerdict
    <2> QED BY <2>1, <2>2
  <1> QED BY <1>3, <1>4

-----------------------------------------------------------------------------
(* The steps *)

\* The call is fixed, and what depends on nothing else with it.
LEMMA SameCall ==
  ASSUME Known, UNCHANGED call
  PROVE  /\ search' = search /\ max_ids' = max_ids /\ server' = server
         /\ Budget' = Budget /\ Nameable' = Nameable
         /\ Uncapped' = Uncapped /\ CountsAll' = CountsAll
         /\ Budget \in Nat /\ Doublings(max_ids) \in 0 .. max_ids
         /\ MAX_BATCHES_IN_SEARCH * Len(ProbePageSizes) \in Nat
         /\ Budget = MAX_BATCHES_IN_SEARCH
                      + MAX_BATCHES_IN_SEARCH * Len(ProbePageSizes)
                      + Doublings(max_ids) + 1
  <1>1. search' = search /\ max_ids' = max_ids /\ server' = server
    BY DEF call
  <1>2. Budget' = Budget /\ Nameable' = Nameable
    BY <1>1 DEF Budget, Nameable, Objects
  <1>3. Uncapped' = Uncapped /\ CountsAll' = CountsAll
    BY <1>1 DEF Uncapped, CountsAll
  <1>4. max_ids \in Nat /\ MAX_BATCHES_IN_SEARCH \in Nat
    BY Facts
  <1>5. Doublings(max_ids) \in 0 .. max_ids
    BY <1>4, DoublingsReach
  <1> QED BY <1>1, <1>2, <1>3, <1>4, <1>5, BudgetIs

\* What a step must make of the list, the total and the number of requests.
PageTaken ==
  /\ UNCHANGED call
  /\ result' \in Seq(Nameable) /\ Distinct(result')
  /\ Len(result') \in Nat /\ Len(result') <= max_ids /\ Len(result') >= Len(result)
  /\ known_total' \in Nat \cup {None} /\ TotalInv'
  /\ requests' \in Nat /\ requests' <= requests + 1

\* Every iteration of the three loops does so.
LEMMA Taken ==
  ASSUME LocateInv, UNCHANGED call, CountRequest,
         NEW first \in Nat, NEW max \in Nat, NEW r \in Responses(first, max),
         result' = Merge(result, r.ids),
         known_total' \in {known_total, LocatedTotal(r.located, Len(r.ids))}
  PROVE  PageTaken /\ Len(result') <= Len(result) + Len(r.ids) /\ Len(r.ids) \in Nat
  <1>1. Known
    BY DEF LocateInv
  <1>2. /\ Merged(Nameable, result, r.ids, Len(r.ids), result')
        /\ Len(r.ids) \in Nat
    BY <1>1, PageMerged
  <1>3. /\ result' \in Seq(Nameable) /\ Distinct(result')
        /\ Len(result') \in Nat /\ Len(result') <= max_ids /\ Len(result') >= Len(result)
        /\ Len(result') <= Len(result) + Len(r.ids)
    BY <1>2 DEF Merged
  <1>4. requests' \in Nat /\ requests' <= requests + 1
    BY <1>1, SameCall DEF CountRequest, Least, Known
  <1>5. known_total' \in Nat \cup {None}
    BY <1>1, Facts, Response DEF Known
  <1>6. TotalInv'
    <2>1. SUFFICES ASSUME server.kind = "fixed", known_total' # None
                   PROVE  known_total' = server.n /\ server.total = "all"
      BY <1>1, SameCall DEF TotalInv
    <2>2. CASE known_total' = known_total
      BY <2>1, <2>2 DEF LocateInv, TotalInv
    <2>3. CASE known_total' = LocatedTotal(r.located, Len(r.ids))
      BY <1>1, <2>1, <2>3, TotalUsed
    <2> QED BY <2>2, <2>3
  <1> QED BY <1>2, <1>3, <1>4, <1>5, <1>6 DEF PageTaken

\* The loops are left with a list that is complete, for a server that shows
\* it, and with the requests of every probing pass to spare.
LEMMA ReturnStep ==
  ASSUME LocateInv, PageTaken, pc \in {"paging", "fallback"}, UNCHANGED page_size,
         NEW conf \in BOOLEAN, Return(conf),
         Uncapped \/ CountsAll => Len(result') = Least(server.n, max_ids),
         requests' + MAX_BATCHES_IN_SEARCH * Len(ProbePageSizes) <= Budget
  PROVE  LocateInv'
  <1>1. /\ Known /\ max_ids \in Nat /\ MAX_BATCHES_IN_SEARCH \in Nat \ {0}
        /\ Len(ProbePageSizes) \in Nat \ {0}
    BY Facts, LocateAssumption DEF LocateInv
  <1>2. /\ search' = search /\ max_ids' = max_ids /\ server' = server
        /\ Budget' = Budget /\ Nameable' = Nameable /\ Budget \in Nat
        /\ Uncapped' = Uncapped /\ CountsAll' = CountsAll
        /\ MAX_BATCHES_IN_SEARCH * Len(ProbePageSizes) \in Nat
    BY <1>1, SameCall DEF PageTaken
  <1>3. /\ confirmed' = conf
        /\ \/ /\ pc' = "returned"
              /\ UNCHANGED <<offset, batch, probe, prev_page>>
           \/ /\ pc' = "probing" /\ Len(result') < max_ids /\ ~conf
              /\ offset' = 0 /\ batch' = 0 /\ probe' = 1 /\ prev_page' = <<>>
    BY <1>1 DEF Return, PageTaken
  <1>4. requests' <= Budget
    BY <1>2 DEF PageTaken
  <1>5. Known'
    <2>1. /\ confirmed' \in BOOLEAN /\ (confirmed' => pc' = "returned")
          /\ pc' \in {"returned", "probing"}
          /\ pc' = "probing" => Len(result') < max_ids'
      BY <1>2, <1>3
    <2>2. offset' \in Nat /\ batch' \in Nat /\ probe' \in Nat /\ page_size' \in 0 .. max_ids'
      BY <1>1, <1>2, <1>3 DEF Known
    <2> QED BY <1>1, <1>2, <1>4, <2>1, <2>2 DEF Known, PageTaken
  <1>6. PagingInv' /\ FallbackInv'
    BY <1>3 DEF PagingInv, FallbackInv
  <1>7. ProbingInv'
    <2>1. SUFFICES ASSUME pc' = "probing" PROVE ProbingInv'
      BY DEF ProbingInv
    <2>2. probe' = 1 /\ batch' = 0
      BY <1>3, <2>1
    <2>3. MAX_BATCHES_IN_SEARCH * (Len(ProbePageSizes) - 1) + MAX_BATCHES_IN_SEARCH
            = MAX_BATCHES_IN_SEARCH * Len(ProbePageSizes)
      BY <1>1
    <2>4. MAX_BATCHES_IN_SEARCH * (Len(ProbePageSizes) - 1) \in Int
      BY <1>1
    <2> QED BY <1>1, <1>2, <2>2, <2>3, <2>4 DEF ProbingInv, PageTaken
  <1>8. OutcomeInv'
    BY <1>2 DEF OutcomeInv, Complete
  <1> QED BY <1>5, <1>6, <1>7, <1>8 DEF LocateInv, PageTaken

\* The fallback begins with a page of at least twice the batch size.
LEMMA FallBackStep ==
  ASSUME LocateInv, PageTaken, pc = "paging", FallBack, Len(result') < max_ids
  PROVE  LocateInv'
  <1>1. /\ Known /\ max_ids \in Nat /\ Len(result) \in Nat /\ ~confirmed
        /\ MAX_BATCHES_IN_SEARCH \in Nat \ {0} /\ MAX_ITEMS_IN_BATCH \in Nat \ {0}
        /\ batch < MAX_BATCHES_IN_SEARCH /\ requests <= batch
        /\ batch \in Nat /\ requests \in Nat
    BY Facts DEF LocateInv, PagingInv, Known
  <1>2. /\ search' = search /\ max_ids' = max_ids /\ server' = server
        /\ Budget' = Budget /\ Nameable' = Nameable /\ Budget \in Nat
        /\ MAX_BATCHES_IN_SEARCH * Len(ProbePageSizes) \in Nat
        /\ Doublings(max_ids) \in 0 .. max_ids
        /\ Budget = MAX_BATCHES_IN_SEARCH
                     + MAX_BATCHES_IN_SEARCH * Len(ProbePageSizes)
                     + Doublings(max_ids) + 1
    BY <1>1, SameCall DEF PageTaken
  <1>3. /\ pc' = "fallback"
        /\ UNCHANGED <<confirmed, offset, batch, probe, prev_page>>
    BY DEF FallBack
  <1>4. /\ page_size' \in Nat /\ page_size' > 0 /\ page_size' <= max_ids
        /\ page_size' >= Least(2 * MAX_ITEMS_IN_BATCH, max_ids)
    BY <1>1 DEF FallBack, Least, Most, PageTaken
  <1>5. requests' <= MAX_BATCHES_IN_SEARCH + 0 /\ requests' <= Budget
    BY <1>1, <1>2 DEF PageTaken
  <1>6. Known'
    BY <1>1, <1>2, <1>3, <1>4, <1>5 DEF Known, PageTaken
  <1>7. FallbackInv'
    <2>1. Sizes(max_ids)[0] = 2 * MAX_ITEMS_IN_BATCH /\ 0 \in 0 .. Doublings(max_ids)
      BY <1>1, <1>2, SizesGrow
    <2> QED BY <1>2, <1>4, <1>5, <2>1 DEF FallbackInv
  <1>8. PagingInv' /\ ProbingInv' /\ OutcomeInv'
    BY <1>3 DEF PagingInv, ProbingInv, OutcomeInv
  <1> QED BY <1>6, <1>7, <1>8 DEF LocateInv, PageTaken

\* An iteration of the paging loop.
LEMMA PageStep == LocateInv /\ Page => LocateInv'
  <1> SUFFICES ASSUME LocateInv, Page PROVE LocateInv'
    OBVIOUS
  <1> DEFINE size == Least(max_ids - Len(result), MAX_ITEMS_IN_BATCH)
  <1>1. /\ Known /\ pc = "paging" /\ UNCHANGED call /\ CountRequest
        /\ Wanted.max = size
    BY DEF Page, LocateInv, Wanted
  <1>2. /\ max_ids \in Nat /\ Len(result) \in Nat /\ Len(result) < max_ids
        /\ MAX_BATCHES_IN_SEARCH \in Nat \ {0} /\ MAX_ITEMS_IN_BATCH \in Nat \ {0}
        /\ batch < MAX_BATCHES_IN_SEARCH /\ requests <= batch /\ offset = Len(result)
        /\ batch \in Nat /\ requests \in Nat /\ offset \in Nat /\ size \in Nat
        /\ known_total \in Nat \cup {None}
    BY <1>1, Facts DEF LocateInv, PagingInv, Known, Least
  <1> HIDE DEF size
  <1>3. PICK r \in Responses(offset, size) :
          LET ids     == Merge(result, r.ids)
              usable  == LocatedTotal(r.located, Len(r.ids))
              total   == IF r.ids # <<>> /\ usable # None THEN usable
                         ELSE known_total
              verdict == PagingVerdict(r.ids, size, ids, total)
          IN /\ result' = ids
             /\ known_total' = total
             /\ \/ /\ verdict = "more"
                   /\ offset' = offset + Len(r.ids)
                   /\ batch' = batch + 1
                   /\ UNCHANGED <<pc, confirmed, probe, prev_page, page_size>>
                \/ verdict = "stalled" /\ FallBack
                \/ /\ verdict \in {"finished", "confirmed"}
                   /\ Return(verdict = "confirmed")
                   /\ UNCHANGED page_size
    BY <1>1 DEF Page
  <1> DEFINE usable  == LocatedTotal(r.located, Len(r.ids))
             total   == IF r.ids # <<>> /\ usable # None THEN usable ELSE known_total
             verdict == PagingVerdict(r.ids, size, result', total)
  <1>4. /\ result' = Merge(result, r.ids) /\ known_total' = total
        /\ known_total' \in {known_total, usable}
    BY <1>3
  <1>5. \/ /\ verdict = "more"
           /\ offset' = offset + Len(r.ids)
           /\ batch' = batch + 1
           /\ UNCHANGED <<pc, confirmed, probe, prev_page, page_size>>
        \/ verdict = "stalled" /\ FallBack
        \/ /\ verdict \in {"finished", "confirmed"}
           /\ Return(verdict = "confirmed")
           /\ UNCHANGED page_size
    BY <1>3
  <1>6. /\ PageTaken /\ Len(result') <= Len(result) + Len(r.ids) /\ Len(r.ids) \in Nat
    BY <1>1, <1>2, <1>4, Taken
  <1>7. /\ search' = search /\ max_ids' = max_ids /\ server' = server
        /\ Budget' = Budget /\ Nameable' = Nameable /\ Budget \in Nat
        /\ MAX_BATCHES_IN_SEARCH * Len(ProbePageSizes) \in Nat
        /\ Doublings(max_ids) \in 0 .. max_ids
        /\ Budget = MAX_BATCHES_IN_SEARCH
                     + MAX_BATCHES_IN_SEARCH * Len(ProbePageSizes)
                     + Doublings(max_ids) + 1
    BY <1>1, SameCall
  <1>8. /\ requests' \in Nat /\ requests' <= batch + 1
        /\ Len(result') \in Nat /\ Len(result') <= max_ids /\ Len(result') >= Len(result)
    BY <1>2, <1>6 DEF PageTaken
  <1>9. CASE verdict = "more"
    <2>1. /\ offset' = offset + Len(r.ids) /\ batch' = batch + 1
          /\ UNCHANGED <<pc, confirmed, probe, prev_page, page_size>>
      BY <1>5, <1>9
    <2>2. /\ Len(result') < max_ids /\ ~(Len(result') - Len(result) < Len(r.ids))
          /\ batch + 1 # MAX_BATCHES_IN_SEARCH
      <3> HIDE DEF total
      <3> QED BY <1>2, <1>8, <1>9 DEF PagingVerdict
    <2>3. requests' <= Budget
      BY <1>2, <1>7, <1>8
    <2>4. Known'
      BY <1>1, <1>2, <1>6, <1>7, <2>1, <2>2, <2>3 DEF Known, PageTaken
    <2>5. PagingInv'
      BY <1>1, <1>2, <1>6, <1>8, <2>1, <2>2 DEF PagingInv
    <2>6. FallbackInv' /\ ProbingInv' /\ OutcomeInv'
      BY <1>1, <2>1 DEF FallbackInv, ProbingInv, OutcomeInv
    <2> QED BY <1>6, <2>4, <2>5, <2>6 DEF LocateInv, PageTaken
  <1>10. CASE verdict = "stalled"
    <2>1. FallBack
      BY <1>5, <1>10
    <2>2. Len(result') < max_ids
      <3>1. CASE r.ids = <<>>
        <4>1. Len(r.ids) = 0
          BY <3>1
        <4> QED BY <1>2, <1>6, <1>8, <4>1
      <3>2. CASE r.ids # <<>>
        <4> HIDE DEF total
        <4> QED BY <1>2, <1>8, <1>10, <3>2 DEF PagingVerdict
      <3> QED BY <3>1, <3>2
    <2> QED BY <1>1, <1>6, <2>1, <2>2, FallBackStep
  <1>11. CASE verdict \in {"finished", "confirmed"}
    <2> DEFINE conf == verdict = "confirmed"
    <2>1. Return(conf) /\ UNCHANGED page_size
      BY <1>5, <1>11
    <2>2. Uncapped \/ CountsAll => Len(result') = Least(server.n, max_ids)
      <3> HIDE DEF verdict
      <3>1. verdict = PagingVerdict(r.ids, size, result', total)
        BY DEF verdict
      <3> QED BY <1>1, <1>4, <1>11, <3>1, PagingComplete DEF size
    <2>3. requests' + MAX_BATCHES_IN_SEARCH * Len(ProbePageSizes) <= Budget
      BY <1>2, <1>7, <1>8
    <2>4. conf \in BOOLEAN
      OBVIOUS
    <2> HIDE DEF conf
    <2> QED BY <1>1, <1>6, <2>1, <2>2, <2>3, <2>4, ReturnStep
  <1> QED BY <1>5, <1>9, <1>10, <1>11

\* An iteration of the fallback.
LEMMA FallbackPageStep == LocateInv /\ FallbackPage => LocateInv'
  <1> SUFFICES ASSUME LocateInv, FallbackPage PROVE LocateInv'
    OBVIOUS
  <1>1. /\ Known /\ pc = "fallback" /\ UNCHANGED call /\ CountRequest
        /\ known_total' = known_total
    BY DEF FallbackPage, LocateInv
  <1>2. /\ max_ids \in Nat /\ Len(result) \in Nat /\ Len(result) < max_ids
        /\ MAX_BATCHES_IN_SEARCH \in Nat \ {0} /\ MAX_ITEMS_IN_BATCH \in Nat \ {0}
        /\ requests \in Nat /\ page_size \in Nat /\ page_size > 0 /\ page_size <= max_ids
    BY <1>1, Facts DEF LocateInv, FallbackInv, Known
  <1>3. PICK r \in Responses(0, page_size) :
          LET ids     == Merge(result, r.ids)
              usable  == LocatedTotal(r.located, Len(r.ids))
              total   == IF usable # None THEN usable ELSE known_total
              verdict == FallbackVerdict(r.ids, ids, total)
          IN /\ result' = ids
             /\ \/ /\ verdict = "more"
                   /\ page_size' = Doubled(page_size)
                   /\ UNCHANGED <<pc, confirmed, offset, batch, probe, prev_page>>
                \/ /\ verdict = "throw"
                   /\ pc' = "thrown"
                   /\ UNCHANGED <<page_size, confirmed, offset, batch, probe, prev_page>>
                \/ /\ verdict \in {"finished", "confirmed"}
                   /\ Return(verdict = "confirmed")
                   /\ UNCHANGED page_size
    BY DEF FallbackPage
  <1> DEFINE usable  == LocatedTotal(r.located, Len(r.ids))
             total   == IF usable # None THEN usable ELSE known_total
             verdict == FallbackVerdict(r.ids, result', total)
  <1>4. result' = Merge(result, r.ids) /\ known_total' \in {known_total, usable}
    BY <1>1, <1>3
  <1>5. \/ /\ verdict = "more"
           /\ page_size' = Doubled(page_size)
           /\ UNCHANGED <<pc, confirmed, offset, batch, probe, prev_page>>
        \/ /\ verdict = "throw"
           /\ pc' = "thrown"
           /\ UNCHANGED <<page_size, confirmed, offset, batch, probe, prev_page>>
        \/ /\ verdict \in {"finished", "confirmed"}
           /\ Return(verdict = "confirmed")
           /\ UNCHANGED page_size
    BY <1>3
  <1>6. PageTaken
    BY <1>1, <1>2, <1>4, Taken
  <1>7. /\ search' = search /\ max_ids' = max_ids /\ server' = server
        /\ Budget' = Budget /\ Nameable' = Nameable /\ Budget \in Nat
        /\ MAX_BATCHES_IN_SEARCH * Len(ProbePageSizes) \in Nat
        /\ Doublings(max_ids) \in 0 .. max_ids
        /\ Budget = MAX_BATCHES_IN_SEARCH
                     + MAX_BATCHES_IN_SEARCH * Len(ProbePageSizes)
                     + Doublings(max_ids) + 1
    BY <1>1, SameCall
  <1>8. PICK k \in 0 .. Doublings(max_ids) :
          /\ page_size >= Least(Sizes(max_ids)[k], max_ids)
          /\ requests <= MAX_BATCHES_IN_SEARCH + k
    BY <1>1 DEF LocateInv, FallbackInv
  <1>9. /\ requests' \in Nat /\ requests' <= MAX_BATCHES_IN_SEARCH + k + 1
        /\ requests' + MAX_BATCHES_IN_SEARCH * Len(ProbePageSizes) <= Budget
        /\ requests' <= Budget
        /\ Len(result') \in Nat /\ Len(result') <= max_ids
    BY <1>2, <1>6, <1>7, <1>8 DEF PageTaken
  <1>10. CASE verdict = "more"
    <2>1. /\ page_size' = Doubled(page_size)
          /\ UNCHANGED <<pc, confirmed, offset, batch, probe, prev_page>>
      BY <1>5, <1>10
    <2>2. Len(result') < max_ids /\ page_size < max_ids
      <3> HIDE DEF total
      <3> QED BY <1>2, <1>9, <1>10 DEF FallbackVerdict, LargestPage
    <2>3. /\ page_size' \in 0 .. max_ids /\ page_size' > 0
          /\ page_size' >= Least(2 * page_size, max_ids)
      BY <1>2, <2>1 DEF Doubled, Least
    <2>4. Known'
      BY <1>1, <1>2, <1>6, <1>7, <1>9, <2>1, <2>2, <2>3 DEF Known, PageTaken
    <2>5. /\ Sizes(max_ids)[k] \in Nat /\ Sizes(max_ids)[k] <= page_size
          /\ Sizes(max_ids)[Doublings(max_ids)] >= max_ids
      <3>1. k \in 0 .. max_ids
        BY <1>2, <1>7
      <3>2. Sizes(max_ids)[k] \in Nat
        BY <1>2, <3>1, SizesGrow
      <3>3. Sizes(max_ids)[k] <= page_size
        BY <1>2, <1>8, <2>2, <3>2 DEF Least
      <3> QED BY <1>2, <3>2, <3>3, DoublingsReach
    <2>6. k # Doublings(max_ids)
      BY <1>2, <2>2, <2>5
    <2>7. Sizes(max_ids)[k + 1] = 2 * Sizes(max_ids)[k]
      BY <1>2, <1>7, <2>6, SizesGrow
    <2>8. page_size' >= Least(Sizes(max_ids)[k + 1], max_ids)
      BY <1>2, <2>3, <2>5, <2>7 DEF Least
    <2>9. k + 1 \in 0 .. Doublings(max_ids) /\ requests' <= MAX_BATCHES_IN_SEARCH + (k + 1)
      BY <1>2, <1>7, <1>9, <2>6
    <2>10. FallbackInv'
      BY <1>7, <2>3, <2>8, <2>9 DEF FallbackInv
    <2>11. PagingInv' /\ ProbingInv' /\ OutcomeInv'
      BY <1>1, <2>1 DEF PagingInv, ProbingInv, OutcomeInv
    <2> QED BY <1>6, <2>4, <2>10, <2>11 DEF LocateInv, PageTaken
  <1>11. CASE verdict = "throw"
    <2>1. /\ pc' = "thrown"
          /\ UNCHANGED <<page_size, confirmed, offset, batch, probe, prev_page>>
      BY <1>5, <1>11
    <2>2. Known'
      BY <1>1, <1>2, <1>6, <1>7, <1>9, <2>1 DEF Known, PageTaken
    <2>3. PagingInv' /\ FallbackInv' /\ ProbingInv' /\ OutcomeInv'
      BY <2>1 DEF PagingInv, FallbackInv, ProbingInv, OutcomeInv
    <2> QED BY <1>6, <2>2, <2>3 DEF LocateInv, PageTaken
  <1>12. CASE verdict \in {"finished", "confirmed"}
    <2> DEFINE conf == verdict = "confirmed"
    <2>1. Return(conf) /\ UNCHANGED page_size
      BY <1>5, <1>12
    <2>2. Uncapped \/ CountsAll => Len(result') = Least(server.n, max_ids)
      <3> HIDE DEF verdict
      <3>1. verdict = FallbackVerdict(r.ids, result', total)
        BY DEF verdict
      <3> QED BY <1>1, <1>4, <1>12, <3>1, FallbackComplete
    <2>3. conf \in BOOLEAN
      OBVIOUS
    <2> HIDE DEF conf
    <2> QED BY <1>1, <1>6, <1>9, <2>1, <2>2, <2>3, ReturnStep
  <1> QED BY <1>5, <1>10, <1>11, <1>12

\* One more request leaves the rest of this pass and the later ones.
LEMMA OneLess ==
  ASSUME NEW q \in Nat, NEW p \in Nat, p <= q + 1, NEW b \in Nat, NEW k \in Nat, k < b,
         NEW rest \in Nat, NEW limit \in Nat, q + rest + (b - k) <= limit
  PROVE  p + rest + (b - (k + 1)) <= limit /\ p + rest <= limit
  OBVIOUS

\* The requests of the later passes are those of the next one and of the rest.
LEMMA OnePass ==
  ASSUME NEW p \in Nat, NEW b \in Nat, NEW rest \in Int, NEW all \in Int, rest + b = all,
         NEW limit \in Nat, p + all <= limit
  PROVE  p + rest + (b - 0) <= limit
  OBVIOUS

\* An iteration of a probing pass.
LEMMA ProbePageStep == LocateInv /\ ProbePage => LocateInv'
  <1> SUFFICES ASSUME LocateInv, ProbePage PROVE LocateInv'
    OBVIOUS
  <1> DEFINE size == ProbePageSizes[probe]
             B == MAX_BATCHES_IN_SEARCH
             P == Len(ProbePageSizes)
  <1>1. /\ Known /\ pc = "probing" /\ UNCHANGED <<call, confirmed, known_total, page_size>>
        /\ CountRequest /\ Wanted.max = size
    BY DEF ProbePage, LocateInv, Wanted
  <1>2. /\ max_ids \in Nat /\ Len(result) \in Nat /\ Len(result) < max_ids
        /\ B \in Nat \ {0} /\ P \in Nat \ {0} /\ probe \in 1 .. P /\ size \in Nat \ {0}
        /\ batch \in Nat /\ batch < B /\ requests \in Nat /\ offset \in Nat
    BY <1>1, Facts, LocateAssumption DEF LocateInv, ProbingInv, Known
  <1>3. requests + B * (P - probe) + (B - batch) <= Budget
    BY <1>1 DEF LocateInv, ProbingInv
  <1> HIDE DEF size, B, P
  <1>4. PICK r \in Responses(offset, size) :
          LET ids == Merge(result, r.ids) IN
          /\ result' = ids
          /\ \/ /\ \/ PassOver(r.ids, r.located, ids)
                   \/ batch + 1 = MAX_BATCHES_IN_SEARCH
                   \/ Len(ids) >= max_ids
                /\ NextPass
             \/ /\ ~ PassOver(r.ids, r.located, ids)
                /\ batch + 1 < MAX_BATCHES_IN_SEARCH
                /\ Len(ids) < max_ids
                /\ offset' = offset + size
                /\ batch' = batch + 1
                /\ prev_page' = r.ids
                /\ UNCHANGED <<pc, probe>>
    BY <1>1 DEF ProbePage
  <1>5. PageTaken
    BY <1>1, <1>2, <1>4, Taken
  <1>6. /\ search' = search /\ max_ids' = max_ids /\ server' = server
        /\ Budget' = Budget /\ Nameable' = Nameable /\ Budget \in Nat
        /\ Uncapped' = Uncapped /\ CountsAll' = CountsAll
    BY <1>1, SameCall
  <1>7. B * (P - probe) \in Nat
    BY <1>2
  <1>8. /\ requests' \in Nat /\ requests' <= requests + 1 /\ requests' <= Budget
        /\ Len(result') \in Nat /\ Len(result') <= max_ids /\ Len(result') >= Len(result)
    BY <1>2, <1>3, <1>5, <1>6, <1>7 DEF PageTaken
  <1>9. /\ requests \in Nat /\ requests' \in Nat /\ requests' <= requests + 1
         /\ B \in Nat /\ batch \in Nat /\ batch < B /\ Budget \in Nat
    BY <1>2, <1>6, <1>8
  <1>10. OutcomeInv'
    <2>1. SUFFICES ASSUME Uncapped \/ CountsAll PROVE Len(result') = Least(server.n, max_ids)
      BY <1>6 DEF OutcomeInv, Complete
    <2>2. Len(result) = Least(server.n, max_ids) /\ server.kind = "fixed"
      BY <1>1, <2>1 DEF LocateInv, OutcomeInv, Complete, Uncapped, CountsAll
    <2>3. Len(result') <= server.n /\ server.n \in Nat
      BY <1>1, <1>2, <1>4, <2>2, FixedMerged, Facts
    <2> QED BY <1>2, <1>8, <2>2, <2>3 DEF Least
  <1>11. CASE NextPass /\ pc' = "returned"
    <2>1. offset' = 0 /\ batch' = 0 /\ probe' = probe
      BY <1>11, <1>1 DEF NextPass
    <2>2. Known'
      BY <1>1, <1>2, <1>5, <1>6, <1>8, <1>11, <2>1 DEF Known, PageTaken
    <2>3. PagingInv' /\ FallbackInv' /\ ProbingInv'
      BY <1>11 DEF PagingInv, FallbackInv, ProbingInv
    <2> QED BY <1>5, <1>10, <2>2, <2>3 DEF LocateInv, PageTaken
  <1>12. CASE NextPass /\ pc' # "returned"
    <2>1. /\ offset' = 0 /\ batch' = 0 /\ probe' = probe + 1 /\ pc' = "probing"
          /\ probe # P /\ Len(result') < max_ids
      BY <1>1, <1>2, <1>8, <1>12 DEF NextPass, P
    <2>2. Known'
      BY <1>1, <1>2, <1>5, <1>6, <1>8, <2>1 DEF Known, PageTaken
    <2>3. B * (P - (probe + 1)) + B = B * (P - probe) /\ B * (P - (probe + 1)) \in Int
      BY <1>2
    <2>4. requests' + B * (P - (probe + 1)) + (B - 0) <= Budget
      <3>1. requests' + B * (P - probe) <= Budget
        BY <1>3, <1>7, <1>9, OneLess
      <3> QED BY <1>7, <1>9, <2>3, <3>1, OnePass
    <2>5. probe' \in 1 .. P /\ batch' < B /\ requests' + B * (P - probe') + (B - batch') <= Budget
      BY <1>2, <2>1, <2>4
    <2>6. ProbingInv'
      BY <1>6, <2>5 DEF ProbingInv, B, P
    <2>7. PagingInv' /\ FallbackInv'
      BY <2>1 DEF PagingInv, FallbackInv
    <2> QED BY <1>5, <1>10, <2>2, <2>6, <2>7 DEF LocateInv, PageTaken
  <1>13. CASE /\ batch + 1 < MAX_BATCHES_IN_SEARCH /\ Len(result') < max_ids
              /\ offset' = offset + size /\ batch' = batch + 1
              /\ UNCHANGED <<pc, probe>>
    <2>1. Known'
      BY <1>1, <1>2, <1>5, <1>6, <1>8, <1>13 DEF Known, PageTaken
    <2>2. probe' \in 1 .. P /\ batch' < B /\ requests' + B * (P - probe') + (B - batch') <= Budget
      <3>1. requests' + B * (P - probe) + (B - (batch + 1)) <= Budget
        BY <1>3, <1>7, <1>9, OneLess
      <3> QED BY <1>2, <1>13, <3>1 DEF B
    <2>3. ProbingInv'
      BY <1>6, <2>2 DEF ProbingInv, B, P
    <2>4. PagingInv' /\ FallbackInv'
      BY <1>1, <1>13 DEF PagingInv, FallbackInv
    <2> QED BY <1>5, <1>10, <2>1, <2>3, <2>4 DEF LocateInv, PageTaken
  <1> QED BY <1>4, <1>11, <1>12, <1>13


\* A step that leaves the list alone: the call, an exception, the end.
LEMMA IdleStep ==
  ASSUME LocateInv, Start \/ PageRefused \/ PageFails \/ UNCHANGED vars
  PROVE  LocateInv'
  <1>1. Known /\ max_ids \in Nat /\ server.n \in Nat
    BY Facts DEF LocateInv
  <1>2. UNCHANGED <<call, result, offset, batch, known_total, page_size, probe, requests>>
    BY DEF Start, PageRefused, PageFails, Throw, vars
  <1>3. /\ search' = search /\ max_ids' = max_ids /\ server' = server
        /\ Budget' = Budget /\ Nameable' = Nameable
        /\ Uncapped' = Uncapped /\ CountsAll' = CountsAll
    BY <1>1, <1>2, SameCall
  <1>4. TotalInv'
    BY <1>2, <1>3 DEF LocateInv, TotalInv
  <1>5. CASE Start
    <2>1. /\ pc = "start" /\ offset = Len(result) /\ Len(result) = 0
          /\ pc' \in {"paging", "returned"} /\ (pc' = "returned" <=> max_ids = 0)
      BY <1>1, <1>5 DEF Start, LocateInv, PagingInv
    <2>2. confirmed' \in BOOLEAN /\ (confirmed' => pc' = "returned")
      BY <1>1, <1>5 DEF Start, Known
    <2>3. Known'
      BY <1>1, <1>2, <1>3, <2>1, <2>2 DEF Known
    <2>4. PagingInv'
      BY <1>2, <2>1 DEF LocateInv, PagingInv
    <2>5. FallbackInv' /\ ProbingInv'
      BY <2>1 DEF FallbackInv, ProbingInv
    <2>6. OutcomeInv'
      BY <1>1, <1>2, <1>3, <2>1 DEF OutcomeInv, Complete, Least
    <2> QED BY <1>4, <2>3, <2>4, <2>5, <2>6 DEF LocateInv
  <1>6. CASE Throw /\ pc \in {"paging", "fallback", "probing"}
    <2>1. pc' = "thrown" /\ confirmed' = confirmed /\ ~confirmed
      BY <1>1, <1>6 DEF Throw, Known
    <2>2. Known'
      BY <1>1, <1>2, <1>3, <2>1 DEF Known
    <2>3. PagingInv' /\ FallbackInv' /\ ProbingInv' /\ OutcomeInv'
      BY <2>1 DEF PagingInv, FallbackInv, ProbingInv, OutcomeInv
    <2> QED BY <1>4, <2>2, <2>3 DEF LocateInv
  <1>7. CASE UNCHANGED vars
    <2>1. pc' = pc /\ confirmed' = confirmed
      BY <1>7 DEF vars
    <2>2. Known' /\ PagingInv'
      BY <1>1, <1>2, <1>3, <2>1 DEF LocateInv, Known, PagingInv
    <2>3. FallbackInv' /\ ProbingInv' /\ OutcomeInv'
      BY <1>2, <1>3, <2>1 DEF LocateInv, FallbackInv, ProbingInv, OutcomeInv, Complete
    <2> QED BY <1>4, <2>2, <2>3 DEF LocateInv
  <1> QED BY <1>5, <1>6, <1>7 DEF PageRefused, PageFails, Searching

-----------------------------------------------------------------------------
(* The theorems *)

\* Before the call nothing is known and nothing has been asked.
LEMMA InitInv == Init => LocateInv
  <1> SUFFICES ASSUME Init PROVE LocateInv
    OBVIOUS
  <1>1. PICK c \in Calls : search = c.search /\ max_ids = c.max_ids /\ server = c.server
    BY DEF Init
  <1>2. c \in [search : {"group", "all"}, max_ids : Nat, server : ServerTypes]
    BY LocateAssumption
  <1>3. c = [search |-> search, max_ids |-> max_ids, server |-> server]
    BY <1>1, <1>2
  <1>4. max_ids \in Nat /\ MAX_BATCHES_IN_SEARCH \in Nat \ {0}
    BY <1>1, <1>2, LocateAssumption
  <1>5. Budget \in Nat
    <2>1. Doublings(max_ids) \in 0 .. max_ids
      BY <1>4, DoublingsReach
    <2> QED BY <1>4, <2>1, BudgetIs
  <1>6. /\ pc = "start" /\ result = <<>> /\ confirmed = FALSE
        /\ offset = 0 /\ batch = 0 /\ known_total = None
        /\ page_size = 0 /\ probe = 0 /\ requests = 0
    BY DEF Init
  <1>7. result \in Seq(Nameable) /\ Len(result) = 0 /\ Distinct(result)
    BY <1>6 DEF Distinct
  <1>8. Known
    <2>1. [search |-> search, max_ids |-> max_ids, server |-> server] \in Calls
      BY <1>3
    <2>2. /\ Len(result) <= max_ids /\ requests <= Budget /\ requests \in Nat
          /\ offset \in Nat /\ batch \in Nat /\ probe \in Nat /\ page_size \in 0 .. max_ids
          /\ known_total \in Nat \cup {None}
      BY <1>4, <1>5, <1>6, <1>7
    <2> QED BY <1>6, <1>7, <2>1, <2>2 DEF Known
  <1> QED BY <1>4, <1>6, <1>7, <1>8
          DEF LocateInv, PagingInv, FallbackInv, ProbingInv, TotalInv, OutcomeInv

\* LocateInv holds throughout every search, whatever the server answers.
THEOREM Invariance == Spec => []LocateInv
  <1>1. LocateInv /\ [Next]_vars => LocateInv'
    BY PageStep, FallbackPageStep, ProbePageStep, IdleStep DEF Next, Ended
  <1> QED BY <1>1, InitInv, PTL DEF Spec

\* Whatever a server answers, the ids are distinct and at most max_ids, no
\* page of the fallback asks for more, and locate_all and probe_all together
\* make no more requests than their budgets and doublings allow.
THEOREM SearchIsBounded == Spec => []SearchBounded
  <1>1. LocateInv => SearchBounded
    <2> SUFFICES ASSUME LocateInv PROVE SearchBounded
      OBVIOUS
    <2>1. Known
      BY DEF LocateInv
    <2>2. Cardinality(Range(result)) = Len(result)
      BY <2>1, Count DEF Known
    <2>3. page_size <= max_ids
      BY <2>1, Facts DEF Known
    <2> QED BY <2>1, <2>2, <2>3 DEF Known, SearchBounded
  <1> QED BY <1>1, Invariance, PTL

\* confirmed_complete is only ever set for a list that is complete, unless
\* the server caps its pages without reporting a total.
THEOREM ConfirmedCorrect == Spec => []ConfirmedIsComplete
  <1>1. LocateInv => ConfirmedIsComplete
    BY DEF LocateInv, Known, OutcomeInv, ConfirmedIsComplete
  <1> QED BY <1>1, Invariance, PTL

\* locate_all and op_all return no partial list of a server that does not
\* cap its pages or that reports the total, whatever its order.
THEOREM ReturnedIsComplete == Spec => []NeverPartial
  <1>1. LocateInv => NeverPartial
    BY DEF LocateInv, OutcomeInv, NeverPartial
  <1> QED BY <1>1, Invariance, PTL

\* The fallback of locate_all throws only when the server caps its pages.
THEOREM AlarmsAreReal == Spec => NoFalseAlarm
  <1>1. LocateInv /\ [Next]_vars =>
          [pc = "fallback" /\ pc' = "thrown" /\ requests' # requests => ~Uncapped]_vars
    <2> SUFFICES ASSUME LocateInv, Next, pc = "fallback", pc' = "thrown",
                        requests' # requests, Uncapped
                 PROVE  FALSE
      OBVIOUS
    <2>1. FallbackPage
      BY DEF Next, Start, Page, ProbePage, PageRefused, PageFails, Throw, Ended, vars
    <2>2. PICK r \in Responses(0, page_size) :
            LET ids     == Merge(result, r.ids)
                usable  == LocatedTotal(r.located, Len(r.ids))
                total   == IF usable # None THEN usable ELSE known_total
                verdict == FallbackVerdict(r.ids, ids, total)
            IN  verdict = "throw"
      BY <2>1 DEF FallbackPage, Return
    <2> QED BY <2>2, FallbackSucceeds
  <1> QED BY <1>1, Invariance, PTL DEF Spec, NoFalseAlarm

=============================================================================

------------------------------- MODULE Locate -------------------------------
(***************************************************************************)
(* Searching with KMIP Locate (kmipclient/src/KmipClient.cpp): locate_all, *)
(* its single-page fallback, probe_all, and the operations built on them   *)
(* (op_locate_by_name and op_locate_by_group, search = "group"; op_all,    *)
(* search = "all").  One step is one iteration of a loop, that is one      *)
(* request, its response and everything the code does with it.             *)
(*                                                                         *)
(* The server is external.  Either it answers anything ("any"), or it      *)
(* holds n objects and differs in what the code has to cope with: whether  *)
(* it honours Offset Items, what it reports as Located Items, whether it   *)
(* caps the page and whether its order is the same for every request.      *)
(***************************************************************************)
EXTENDS Integers, Sequences, FiniteSets, Functions

CONSTANTS
  MAX_ITEMS_IN_BATCH, MAX_BATCHES_IN_SEARCH,
  ProbePageSizes,  \* probe_page_sizes
  Calls,           \* searches: the operation, max_ids and the server
  Int32Max,        \* std::numeric_limits<int32_t>::max()
  Ids              \* the identifiers of a server that answers anything

ServerTypes ==
  [kind : {"any", "fixed"}, n : Nat, honor : BOOLEAN,
   total : {"none", "all", "page"}, cap : Nat, stable : BOOLEAN]

ASSUME LocateAssumption ==
  /\ MAX_ITEMS_IN_BATCH \in Nat \ {0} /\ MAX_BATCHES_IN_SEARCH \in Nat \ {0}
  /\ ProbePageSizes \in Seq(Nat \ {0}) /\ ProbePageSizes # <<>>
  /\ Calls \subseteq [search : {"group", "all"}, max_ids : Nat, server : ServerTypes]
  /\ Int32Max \in Nat

VARIABLES
  search, max_ids, server,  \* the call and the server, fixed
  pc,           \* "start", "paging", "fallback", "probing", "returned", "thrown"
  result,       \* outcome.ids; outcome.seen holds the same ids
  confirmed,    \* outcome.confirmed_complete
  offset, batch,
  known_total,  \* known_total, None when nullopt
  page_size,    \* page_size of the fallback
  probe,        \* index into probe_page_sizes
  prev_page,    \* prev_page of probe_all
  requests      \* history: Locate requests made, up to one beyond Budget

call == <<search, max_ids, server>>
vars == <<call, pc, result, confirmed, offset, batch, known_total, page_size,
          probe, prev_page, requests>>

None == -1
Least(a, b) == IF a < b THEN a ELSE b
Most(a, b) == IF a < b THEN b ELSE a

Init ==
  /\ \E c \in Calls : search = c.search /\ max_ids = c.max_ids /\ server = c.server
  /\ pc = "start"
  /\ result = <<>> /\ confirmed = FALSE
  /\ offset = 0 /\ batch = 0 /\ known_total = None
  /\ page_size = 0 /\ probe = 0 /\ prev_page = <<>>
  /\ requests = 0

-----------------------------------------------------------------------------
(* The server *)

Objects == 1 .. server.n

\* The orders in which a server may list its objects for one request.
Orders ==
  IF server.stable THEN {[i \in Objects |-> i]}
  ELSE {o \in [Objects -> Objects] : \A i, j \in Objects : o[i] = o[j] => i = j}

\* The page of a server with n objects; cap = 0 is no cap.
FixedPage(order, first, max) ==
  LET from  == IF server.honor THEN Least(first, server.n) ELSE 0
      most  == IF server.cap = 0 THEN max ELSE Least(max, server.cap)
      count == Least(most, server.n - from)
  IN [ids |-> SubSeq(order, from + 1, from + count),
      located |-> CASE server.total = "none" -> None
                    [] server.total = "all"  -> server.n
                    [] server.total = "page" -> count]

\* The responses to a Locate with this offset and Maximum Items; one longer
\* than asked for included when the server answers anything.
Responses(first, max) ==
  IF server.kind = "fixed"
  THEN {FixedPage(o, first, max) : o \in Orders}
  ELSE [ids : UNION {[1 .. k -> Ids] : k \in 0 .. (max + 1)},
        located : None .. (Cardinality(Ids) + 1)]

-----------------------------------------------------------------------------
(* Helpers of the client *)

\* Mutant of LocatedTotal: a count equal to the page's is a total too.
LocatedTotalOfPage(located, count) == IF located >= count THEN located ELSE None

\* located_total: Located Items counts only when it exceeds the page.
LocatedTotal(located, count) == IF located > count THEN located ELSE None

\* The loop of merge_new_ids: `known` after one more id of the page.
WithId(known, id) ==
  IF Len(known) < max_ids /\ id \notin Range(known) THEN Append(known, id) ELSE known

\* merge_new_ids: new ids are appended until there are max_ids.
Merge(ids, page) ==
  LET merged[i \in 0 .. Len(page)] ==
        IF i = 0 THEN ids ELSE WithId(merged[i - 1], page[i])
  IN merged[Len(page)]

\* same_ids
SameIds(a, b) == Range(a) = Range(b)

\* Doubling of a page size, stopping at max_ids.
Doubled(size) == IF size > max_ids \div 2 THEN max_ids ELSE size * 2

\* Twice the batch size, doubled up to m times.
Sizes(m) ==
  LET size[k \in 0 .. m] ==
        IF k = 0 THEN 2 * MAX_ITEMS_IN_BATCH ELSE 2 * size[k - 1]
  IN size

\* How often it is to be doubled to reach m.
Doublings(m) ==
  CHOOSE d \in 0 .. m :
    Sizes(m)[d] >= m /\ \A e \in 0 .. (d - 1) : Sizes(m)[e] < m

\* The requests a search may make: MAX_BATCHES_IN_SEARCH in the paging loop
\* and in each probing pass, and in the fallback as many as it takes to
\* double twice the batch size up to max_ids.
Budget ==
  MAX_BATCHES_IN_SEARCH * (1 + Len(ProbePageSizes)) + Doublings(max_ids) + 1

CountRequest == requests' = Least(requests + 1, Budget + 1)

\* LocateRequest refuses numbers that do not fit an int32_t.
PageFits(first, max) == first <= Int32Max /\ max <= Int32Max

\* An exception leaves the search.
Throw ==
  /\ pc' = "thrown"
  /\ UNCHANGED <<call, result, confirmed, offset, batch, known_total, page_size,
                 probe, prev_page, requests>>

\* Maximum Items and Offset Items of the request that comes next.
Wanted ==
  CASE pc = "paging"   -> [first |-> offset,
                           max |-> Least(max_ids - Len(result), MAX_ITEMS_IN_BATCH)]
    [] pc = "fallback" -> [first |-> 0, max |-> page_size]
    [] pc = "probing"  -> [first |-> offset, max |-> ProbePageSizes[probe]]

Searching == pc \in {"paging", "fallback", "probing"}

PageRefused == Searching /\ ~PageFits(Wanted.first, Wanted.max) /\ Throw

\* The exchange fails, or the response does not parse or reports a failure.
PageFails == Searching /\ PageFits(Wanted.first, Wanted.max) /\ Throw

-----------------------------------------------------------------------------
(* locate_all *)

\* How the loops are left.
Return(conf) ==
  /\ confirmed' = conf
  /\ IF search = "group" \/ Len(result') >= max_ids \/ conf
     THEN /\ pc' = "returned"
          /\ UNCHANGED <<offset, batch, probe, prev_page>>
     ELSE /\ pc' = "probing"  \* op_all goes on with probe_all
          /\ offset' = 0 /\ batch' = 0 /\ probe' = 1 /\ prev_page' = <<>>

\* The single-page fallback begins, with at least twice the known ids.
FallBack ==
  /\ pc' = "fallback"
  /\ LET known == Len(result')
         size  == IF known > max_ids \div 2 THEN max_ids
                  ELSE Most(MAX_ITEMS_IN_BATCH * 2, known * 2)
     IN page_size' = Least(size, max_ids)
  /\ UNCHANGED <<confirmed, offset, batch, probe, prev_page>>

\* The call: nothing to do for max_ids = 0.
Start ==
  /\ pc = "start"
  /\ IF max_ids = 0
     THEN pc' = "returned" /\ confirmed' = TRUE
     ELSE pc' = "paging" /\ UNCHANGED confirmed
  /\ UNCHANGED <<call, result, offset, batch, known_total, page_size, probe,
                 prev_page, requests>>

\* Mutant of LastPage: a short page ends the search whatever the total says.
LastPageIfShort(got, size, total) == Len(got) < size

\* A short page ends the search, unless a total says there is more.
LastPage(got, size, total) == Len(got) < size /\ total = None

\* What the paging loop concludes from a page `got` that was asked for with
\* `size` items at the current offset and left `ids` and `total` known.
PagingVerdict(got, size, ids, total) ==
  IF got = <<>>
    THEN IF total # None /\ Len(ids) < total THEN "stalled" ELSE "finished"
  ELSE IF total # None /\ Len(ids) >= total THEN "confirmed"
  ELSE IF Len(ids) >= max_ids THEN "finished"
  ELSE IF Len(ids) - Len(result) < Len(got) THEN "stalled"
  ELSE IF total # None /\ offset + Len(got) >= total THEN "stalled"
  ELSE IF LastPage(got, size, total)
    THEN IF offset = 0 THEN "confirmed" ELSE "finished"
  ELSE IF batch + 1 = MAX_BATCHES_IN_SEARCH THEN "stalled"  \* budget used up
  ELSE "more"

\* One iteration of the paging loop.
Page ==
  /\ pc = "paging"
  /\ LET size == Wanted.max IN
       /\ PageFits(offset, size)
       /\ \E r \in Responses(offset, size) :
            LET ids     == Merge(result, r.ids)
                usable  == LocatedTotal(r.located, Len(r.ids))
                total   == IF r.ids # <<>> /\ usable # None THEN usable
                           ELSE known_total
                verdict == PagingVerdict(r.ids, size, ids, total)
            IN /\ result' = ids
               /\ known_total' = total
               /\ \/ /\ verdict = "more"
                     /\ offset' = offset + Len(r.ids)
                     /\ batch' = batch + 1
                     /\ UNCHANGED <<pc, confirmed, probe, prev_page, page_size>>
                  \/ verdict = "stalled" /\ FallBack
                  \/ /\ verdict \in {"finished", "confirmed"}
                     /\ Return(verdict = "confirmed")
                     /\ UNCHANGED page_size
  /\ CountRequest
  /\ UNCHANGED call

\* Mutant of Omits: off by one.
OmitsOrEqual(got) == Cardinality(Range(got) \cap Range(result)) <= Len(result)

\* known_in_page < known_before: the page lacks an id known before.
Omits(got) == Cardinality(Range(got) \cap Range(result)) < Len(result)

\* Mutant of LargestPage: off by one.
LargerPage == page_size > max_ids

LargestPage == page_size >= max_ids

\* What the fallback concludes from a page at offset 0.
FallbackVerdict(got, ids, total) ==
  IF Len(ids) >= max_ids THEN "finished"
  ELSE IF total # None /\ Len(ids) >= total THEN "confirmed"
  ELSE IF Len(got) < page_size
    THEN IF Omits(got) THEN "throw"           \* ids omitted
         ELSE IF total # None THEN "throw"  \* ids missing
         ELSE "confirmed"
  ELSE IF LargestPage THEN "throw"          \* repetitions
  ELSE "more"

\* One iteration of the fallback.
FallbackPage ==
  /\ pc = "fallback"
  /\ PageFits(0, page_size)
  /\ \E r \in Responses(0, page_size) :
       LET ids     == Merge(result, r.ids)
           usable  == LocatedTotal(r.located, Len(r.ids))
           total   == IF usable # None THEN usable ELSE known_total
           verdict == FallbackVerdict(r.ids, ids, total)
       IN /\ result' = ids
          /\ \/ /\ verdict = "more"
                /\ page_size' = Doubled(page_size)
                /\ UNCHANGED <<pc, confirmed, offset, batch, probe, prev_page>>
             \/ /\ verdict = "throw"
                /\ pc' = "thrown"
                /\ UNCHANGED <<page_size, confirmed, offset, batch, probe, prev_page>>
             \/ /\ verdict \in {"finished", "confirmed"}
                /\ Return(verdict = "confirmed")
                /\ UNCHANGED page_size
  /\ CountRequest
  /\ UNCHANGED <<call, known_total>>

-----------------------------------------------------------------------------
(* probe_all *)

\* The pass with this page size ends.
NextPass ==
  /\ IF Len(result') >= max_ids \/ probe = Len(ProbePageSizes)
     THEN pc' = "returned" /\ UNCHANGED probe
     ELSE pc' = pc /\ probe' = probe + 1
  /\ offset' = 0 /\ batch' = 0 /\ prev_page' = <<>>

\* Whether a pass ends with this page.
PassOver(got, located, ids) ==
  LET size  == ProbePageSizes[probe]
      total == LocatedTotal(located, Len(got))
  IN \/ got = <<>>
     \/ total # None /\ offset + size >= total
     \/ ids = result /\ (Len(got) < size \/ SameIds(got, prev_page))

\* One iteration of a pass; the loop conditions are those of the next one.
ProbePage ==
  /\ pc = "probing"
  /\ LET size == Wanted.max IN
       /\ PageFits(offset, size)
       /\ \E r \in Responses(offset, size) :
            LET ids == Merge(result, r.ids) IN
            /\ result' = ids
            /\ \/ /\ \/ PassOver(r.ids, r.located, ids)
                     \/ batch + 1 = MAX_BATCHES_IN_SEARCH
                     \/ Len(ids) >= max_ids
                  /\ NextPass
               \/ /\ ~ PassOver(r.ids, r.located, ids)
                  /\ batch + 1 < MAX_BATCHES_IN_SEARCH
                  /\ Len(ids) < max_ids
                  /\ offset' = offset + size
                  /\ batch' = batch + 1
                  /\ prev_page' = r.ids
                  /\ UNCHANGED <<pc, probe>>
  /\ CountRequest
  /\ UNCHANGED <<call, confirmed, known_total, page_size>>

-----------------------------------------------------------------------------
Ended == pc \in {"returned", "thrown"} /\ UNCHANGED vars

Next ==
  Start \/ Page \/ FallbackPage \/ ProbePage \/ PageRefused \/ PageFails \/ Ended

Spec == Init /\ [][Next]_vars

-----------------------------------------------------------------------------
(* Properties *)

\* Whatever the server answers (pages longer than asked for, repeated ids,
\* totals that contradict the pages), the search stays within its bounds: the
\* ids are distinct and at most max_ids, no page of the fallback asks for more
\* than max_ids, and the requests are at most MAX_BATCHES_IN_SEARCH of paging,
\* as many in each probing pass, and in the fallback only those it takes to
\* double twice the batch size up to max_ids.
SearchBounded ==
  /\ Len(result) <= max_ids
  /\ Cardinality(Range(result)) = Len(result)
  /\ page_size <= max_ids
  /\ requests <= Budget

\* A server that keeps to KMIP: it returns Maximum Items while it has them.
Uncapped == server.kind = "fixed" /\ server.cap = 0
\* A server whose Located Items is the number of matching objects.
CountsAll == server.kind = "fixed" /\ server.total = "all"

Complete == Len(result) = Least(server.n, max_ids)

\* confirmed_complete, which makes op_all skip the probing, is set only when
\* the list is complete, be the order stable or not, unless the server caps
\* the page without reporting a total.
ConfirmedIsComplete ==
  confirmed /\ (Uncapped \/ CountsAll) => Complete

\* No partial list is returned, be the order stable or not, when the pages or
\* the total show that it is partial: by a server that pages correctly, by
\* one that ignores Offset Items, and by one that reports the total, however
\* it caps its pages.
NeverPartial ==
  pc = "returned" /\ (Uncapped \/ CountsAll) => Complete

\* A correct server with a stable order, and one that merely ignores Offset
\* Items, never make the search give up; neither does an unstable order
\* alone.  (A request that is refused or fails is not meant, but the verdict
\* "throw".)
NoFalseAlarm ==
  [][pc = "fallback" /\ pc' = "thrown" /\ requests' # requests => ~Uncapped]_vars

-----------------------------------------------------------------------------
(* The inductive invariant *)

\* The ids a server can name.
Nameable == IF server.kind = "fixed" THEN Objects ELSE Ids

\* No id twice.
Distinct(s) == \A i, j \in 1 .. Len(s) : s[i] = s[j] => i = j

\* What is known has no id twice and is at most max_ids long.
Known ==
  /\ [search |-> search, max_ids |-> max_ids, server |-> server] \in Calls
  /\ pc \in {"start", "paging", "fallback", "probing", "returned", "thrown"}
  /\ result \in Seq(Nameable) /\ Len(result) <= max_ids
  /\ Distinct(result)
  /\ confirmed \in BOOLEAN /\ (confirmed => pc = "returned")
  /\ offset \in Nat /\ batch \in Nat /\ probe \in Nat
  /\ page_size \in 0 .. max_ids
  /\ known_total \in Nat \cup {None}
  /\ requests \in Nat /\ requests <= Budget
  /\ pc \in {"paging", "fallback", "probing"} => Len(result) < max_ids

\* The paging loop has merged every id it was sent, so that the next offset
\* is the number of ids known.
PagingInv ==
  pc \in {"start", "paging"} =>
    /\ offset = Len(result) /\ (pc = "start" => result = <<>>)
    /\ batch < MAX_BATCHES_IN_SEARCH /\ requests <= batch

\* After k requests the fallback's page has been doubled k times.
FallbackInv ==
  pc = "fallback" =>
    /\ page_size > 0
    /\ \E k \in 0 .. Doublings(max_ids) :
         /\ page_size >= Least(Sizes(max_ids)[k], max_ids)
         /\ requests <= MAX_BATCHES_IN_SEARCH + k

\* The requests of the pages and passes still to come are within the budget.
ProbingInv ==
  pc = "probing" =>
    /\ probe \in 1 .. Len(ProbePageSizes) /\ batch < MAX_BATCHES_IN_SEARCH
    /\ requests + MAX_BATCHES_IN_SEARCH * (Len(ProbePageSizes) - probe)
         + (MAX_BATCHES_IN_SEARCH - batch) <= Budget

\* A total taken from a server is the number of its objects.
TotalInv ==
  server.kind = "fixed" /\ known_total # None =>
    known_total = server.n /\ server.total = "all"

\* Probing starts from a complete list already.
OutcomeInv ==
  pc \in {"probing", "returned"} /\ (Uncapped \/ CountsAll) => Complete

LocateInv ==
  Known /\ PagingInv /\ FallbackInv /\ ProbingInv /\ TotalInv /\ OutcomeInv

=============================================================================

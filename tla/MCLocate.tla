------------------------------ MODULE MCLocate ------------------------------
(***************************************************************************)
(* Instances of Locate: the servers of LocatePagingTest.cpp, scaled down   *)
(* to batches of two ids, and a server that answers anything.              *)
(***************************************************************************)
EXTENDS Locate

FixedServers ==
  [kind : {"fixed"}, n : 0 .. 7, honor : BOOLEAN, total : {"none", "all", "page"},
   cap : {0, 1, 2, 3}, stable : {TRUE}]
  \cup
  [kind : {"fixed"}, n : 3 .. 4, honor : {TRUE}, total : {"none", "all", "page"},
   cap : {0, 2}, stable : {FALSE}]

AnyServer ==
  {[kind |-> "any", n |-> 0, honor |-> TRUE, total |-> "none", cap |-> 0,
    stable |-> TRUE]}

MCCalls ==
  [search : {"group", "all"}, max_ids : {0, 1, 3, 5, 9}, server : FixedServers]
  \cup [search : {"group", "all"}, max_ids : 0 .. 3, server : AnyServer]

Probes == <<2, 1>>

=============================================================================

----------------------------- MODULE PermitPool -----------------------------
(***************************************************************************)
(* What a connection pool promises about capacity, and nothing else: there *)
(* are Max permits; a client takes one when one is free, gives back only   *)
(* what it has, or passes one on to another client.                        *)
(***************************************************************************)
EXTENDS Naturals

CONSTANTS Clients, Max

VARIABLES free, held

Init == free = Max /\ held = [c \in Clients |-> 0]

Take(c) ==
  /\ free > 0
  /\ free' = free - 1
  /\ held' = [held EXCEPT ![c] = @ + 1]

Give(c) ==
  /\ held[c] > 0
  /\ free' = free + 1
  /\ held' = [held EXCEPT ![c] = @ - 1]

Pass(c, d) ==
  /\ c # d
  /\ held[c] > 0
  /\ held' = [held EXCEPT ![c] = @ - 1, ![d] = @ + 1]
  /\ UNCHANGED free

Next == \E c \in Clients : Take(c) \/ Give(c) \/ \E d \in Clients : Pass(c, d)

Spec == Init /\ [][Next]_<<free, held>>

=============================================================================

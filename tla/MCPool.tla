------------------------------- MODULE MCPool -------------------------------
(* Instances of Pool for TLC. *)
EXTENDS Pool, TLC

Symmetric == Permutations(Threads \ Rebinders) \cup Permutations(Slots)

=============================================================================

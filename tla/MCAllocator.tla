----------------------------- MODULE MCAllocator -----------------------------
(* Instances of BusAllocator for TLC. *)
EXTENDS BusAllocator

(* Two classes, in the order of the list that poll is given. *)
TwoClasses == {1, 2}
=============================================================================

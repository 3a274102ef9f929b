------------------------------- MODULE MCSites -------------------------------
(* Instances of Sites for TLC: bridges and request slots are interchangeable. *)
EXTENDS Sites, TLC

Symmetry == Permutations(Bridge) \cup Permutations(Slot)
=============================================================================

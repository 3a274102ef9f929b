------------------------------ MODULE MCSiteLock ------------------------------
(* Instances of SiteLock: processes are interchangeable.                   *)
EXTENDS SiteLock, TLC

Symmetry == Permutations(Proc)
=============================================================================

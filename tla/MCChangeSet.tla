---------------------------- MODULE MCChangeSet ----------------------------
(* Instances of ChangeSet for TLC: see the .cfg files.                     *)
EXTENDS ChangeSet, TLC

\* Slots are interchangeable; the people and contents are not.
Slots == Permutations(Slot)

\* The changes of mind a counterexample can do without.
Straight == cs.status \notin {"cancelled", "apply_failed", "validating", "rolled_back"}
=============================================================================

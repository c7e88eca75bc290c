---------------------------- MODULE MCNearClock ----------------------------
(* Three interchangeable keys: enough for a heap with two children and, as  *)
(* stale positions leave duplicates behind, for a heap of four entries.     *)
EXTENDS NearClock, TLC

CONSTANTS k1, k2, k3

MCKeys == {k1, k2, k3}
KeySymmetry == Permutations(MCKeys)
=============================================================================

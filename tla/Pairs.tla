------------------------------- MODULE Pairs -------------------------------
(***************************************************************************)
(* The pairs a shard stores, internal/engine/in_memory.go, as far as the   *)
(* index and the counters tell them apart: sizeOf a pair, which is 0 for   *)
(* an empty key with an empty value.                                       *)
(***************************************************************************)
EXTENDS Integers, FiniteSets

CONSTANT Sizes  \* what sizeOf returns

ASSUME PairAssumption == Sizes \subseteq Nat

Absent == -1  \* in place of a size: the key is not there
=============================================================================

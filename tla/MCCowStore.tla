----------------------------- MODULE MCCowStore -----------------------------
(* Small instances of a shard: one or two keys, one or two request          *)
(* goroutines, and both goroutines of the collector.                        *)
EXTENDS CowStore, TLC

CONSTANTS k1, k2, c1, c2

OneKey == {k1}
TwoKeys == {k1, k2}
OneClient == {c1}
TwoClients == {c1, c2}
NoClient == {}

Symmetry == Permutations({k1, k2}) \cup Permutations({c1, c2})
=============================================================================

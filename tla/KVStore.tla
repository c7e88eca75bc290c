------------------------------ MODULE KVStore ------------------------------
(***************************************************************************)
(* What a shard promises its callers: a map whose operations each take     *)
(* effect at one instant between call and return.  A Set writes its key    *)
(* and no other; a delete removes all its keys at once and no other; a     *)
(* Get sees the map of one instant.  A delete may fail without any effect. *)
(***************************************************************************)
CONSTANTS
  Procs,   \* goroutines
  Keys,
  Values,
  None     \* no value

VARIABLES
  map,     \* key -> value or None
  phase,   \* goroutine -> "idle", the operation it has called, or "done"
  target,  \* goroutine -> the keys of its operation
  value    \* goroutine -> the value it stores or has read

kvVars == <<map, phase, target, value>>

Init ==
  /\ map = [k \in Keys |-> None]
  /\ phase = [p \in Procs |-> "idle"]
  /\ target = [p \in Procs |-> {}]
  /\ value = [p \in Procs |-> None]

Turn(p, ph, K, v) ==
  /\ phase' = [phase EXCEPT ![p] = ph]
  /\ target' = [target EXCEPT ![p] = K]
  /\ value' = [value EXCEPT ![p] = v]

Call(p) ==
  /\ phase[p] = "idle"
  /\ \/ \E k \in Keys, v \in Values : Turn(p, "set", {k}, v)
     \/ \E K \in SUBSET Keys : Turn(p, "delete", K, None)
     \/ \E k \in Keys : Turn(p, "get", {k}, None)
  /\ UNCHANGED map

Apply(p) ==
  \/ /\ phase[p] = "set"
     /\ map' = [k \in Keys |-> IF k \in target[p] THEN value[p] ELSE map[k]]
     /\ Turn(p, "done", target[p], value[p])
  \/ /\ phase[p] = "delete"
     /\ map' = [k \in Keys |-> IF k \in target[p] THEN None ELSE map[k]]
     /\ Turn(p, "done", target[p], value[p])
  \/ /\ phase[p] = "get"
     /\ \E k \in target[p] : Turn(p, "done", target[p], map[k])
     /\ UNCHANGED map

Return(p) == phase[p] = "done" /\ Turn(p, "idle", {}, None) /\ UNCHANGED map

Fail(p) == phase[p] = "delete" /\ Turn(p, "idle", {}, None) /\ UNCHANGED map

Next == \E p \in Procs : Call(p) \/ Apply(p) \/ Return(p) \/ Fail(p)

Spec == Init /\ [][Next]_kvVars
=============================================================================

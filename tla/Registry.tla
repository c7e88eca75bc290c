------------------------------ MODULE Registry ------------------------------
(***************************************************************************)
(* What the bucket registry promises its callers: a map from names to      *)
(* containers whose operations each take effect at one instant between     *)
(* call and return.  A name is given to one container at a time, and a     *)
(* container to one name, once: what was dropped never comes back, and the *)
(* default name is never dropped.  A drop or a find fails only when the    *)
(* name is free; a create may fail, and then has no effect.                *)
(***************************************************************************)
CONSTANTS
  Procs,       \* goroutines
  Names,
  Containers,
  Default,     \* the name that is always served
  None         \* no container

VARIABLES
  served,  \* name -> container or None
  made,    \* the containers that were ever served
  call     \* goroutine -> the operation it has called, its name, its result

registryVars == <<served, made, call>>

Request(step, n, c) == [step |-> step, name |-> n, got |-> c]

Init ==
  \E c \in Containers :
    /\ served = [n \in Names |-> IF n = Default THEN c ELSE None]
    /\ made = {c}
    /\ call = [p \in Procs |-> Request("idle", Default, None)]

Turn(p, step, n, c) == call' = [call EXCEPT ![p] = Request(step, n, c)]
Done(p) == Turn(p, "idle", Default, None)

Call(p) ==
  /\ call[p].step = "idle"
  /\ \E n \in Names :
       \/ Turn(p, "create", n, None)
       \/ n # Default /\ Turn(p, "drop", n, None)
       \/ Turn(p, "find", n, None)
  /\ UNCHANGED <<served, made>>

Create(p) ==
  LET n == call[p].name
  IN /\ call[p].step = "create"
     /\ served[n] = None
     /\ \E c \in Containers \ made :
          /\ served' = [served EXCEPT ![n] = c]
          /\ made' = made \cup {c}
          /\ Turn(p, "done", n, c)

Drop(p) ==
  LET n == call[p].name
  IN /\ call[p].step = "drop"
     /\ served[n] # None
     /\ served' = [served EXCEPT ![n] = None]
     /\ Turn(p, "done", n, served[n])
     /\ UNCHANGED made

Find(p) ==
  LET n == call[p].name
  IN /\ call[p].step = "find"
     /\ served[n] # None
     /\ Turn(p, "done", n, served[n])
     /\ UNCHANGED <<served, made>>

Fail(p) ==
  LET n == call[p].name
  IN /\ \/ call[p].step = "create"
        \/ call[p].step \in {"drop", "find"} /\ served[n] = None
     /\ Done(p)
     /\ UNCHANGED <<served, made>>

Return(p) == call[p].step = "done" /\ Done(p) /\ UNCHANGED <<served, made>>

Next == \E p \in Procs : Call(p) \/ Create(p) \/ Drop(p) \/ Find(p) \/ Fail(p) \/ Return(p)

Spec == Init /\ [][Next]_registryVars
=============================================================================

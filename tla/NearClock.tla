----------------------------- MODULE NearClock -----------------------------
(***************************************************************************)
(* The near queue closed with what drives it: the clock, the cached clock  *)
(* of util/time_cache.go, the near ticker of gc.go and callers that add    *)
(* and remove keys at any time.  A call whose recorded position is out of  *)
(* range panics before it changes anything (the deferred unlock runs), so  *)
(* it is no step here; CowStore models what the panic does to its caller.  *)
(***************************************************************************)
EXTENDS NearQueue, FiniteSets

CONSTANTS
  Delays,   \* how far from the cached clock a deadline may lie, in nanoseconds
  MaxTime,  \* bound on the clock, in nanoseconds
  MaxHeap   \* bound on the heap's length: no push beyond it

ASSUME NearClockAssumption ==
  /\ Delays \subseteq Nat
  /\ MaxTime \in Nat
  /\ MaxHeap \in Nat
  /\ NsPerMs \in Nat \ {0}

VARIABLE now  \* the wall clock

vars == <<heap, index, cached, now>>

Init == NearInit /\ cached = 0 /\ now = 0

Clock == now < MaxTime /\ now' = now + 1 /\ UNCHANGED <<heap, index, cached>>

CacheRefresh == cached' = now /\ UNCHANGED <<heap, index, now>>

AddKey(k) ==
  /\ index[k] # NoIndex \/ Len(heap) < MaxHeap
  /\ \E d \in Delays : Add(k, now + d)
  /\ UNCHANGED <<cached, now>>

RemoveKey(k) == Remove(k) /\ UNCHANGED <<cached, now>>

NearTick == DrainExpired /\ UNCHANGED <<cached, now>>

Next ==
  \/ Clock
  \/ CacheRefresh
  \/ NearTick
  \/ \E k \in Keys : AddKey(k) \/ RemoveKey(k)

Spec == Init /\ [][Next]_vars

-----------------------------------------------------------------------------
(***************************************************************************)
(* A drain (near_queue.go:90-108) takes the due entries and nothing else,  *)
(* however callers reordered the heap before it: every copy of an entry    *)
(* that is not due stays, and no due entry is left for a later tick.       *)
(***************************************************************************)
Copies(h, e) == Cardinality({i \in DOMAIN h : h[i] = e})
Entries(h) == {h[i] : i \in DOMAIN h}

DrainExact ==
  [][NearTick =>
       \A e \in Entries(heap) \cup Entries(heap') :
          Copies(heap', e) = IF IsDue(e) THEN 0 ELSE Copies(heap, e)]_vars
=============================================================================

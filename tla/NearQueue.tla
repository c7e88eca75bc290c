----------------------------- MODULE NearQueue -----------------------------
(***************************************************************************)
(* The near-expiry queue of internal/gc/near_queue.go: a binary min-heap   *)
(* of deadlines (container/heap) and a map from keys to heap positions.    *)
(* Every operation runs under nq.mu, so each is one atomic step.           *)
(*                                                                         *)
(* heap holds the *nearEntry list; position i of the code is heap[i + 1].  *)
(* nearEntry.index always equals the entry's position (Push and Swap keep  *)
(* it so) and is not stored.  nq.index is written once, when a key is      *)
(* pushed, and never follows the swaps.                                    *)
(***************************************************************************)
EXTENDS Integers, Sequences

CONSTANTS
  Keys,      \* the keys that can be scheduled
  WindowMs,  \* nq.windowMs (defaultNearWindowMs = 2000 in gc.go)
  NsPerMs    \* nanoseconds per millisecond (10^6)

VARIABLES
  heap,    \* nq.heap
  index,   \* nq.index: key -> heap position, NoIndex when the key is absent
  cached   \* util.cachedTimeNanos, what CachedNow returns

nearVars == <<heap, index>>

NoIndex == -1
NearEntry == [key : Keys, expireAt : Int]

NearTypeOK ==
  /\ heap \in Seq(NearEntry)
  /\ index \in [Keys -> Nat \cup {NoIndex}]

NearInit ==
  /\ heap = <<>>
  /\ index = [k \in Keys |-> NoIndex]

-----------------------------------------------------------------------------
(***************************************************************************)
(* container/heap on positions 0..Len(h)-1.                                *)
(***************************************************************************)
Less(h, i, j) == h[i + 1].expireAt < h[j + 1].expireAt
Swap(h, i, j) == [h EXCEPT ![i + 1] = h[j + 1], ![j + 1] = h[i + 1]]

\* up: the entry at pos rises; the result is the heap and where the entry ends.
Rising == {u \in [heap : Seq(NearEntry), pos : Nat] : u.pos < Len(u.heap)}
Up[u \in Rising] ==
  LET i == (u.pos - 1) \div 2
  IN IF u.pos = 0 \/ ~Less(u.heap, u.pos, i)
     THEN u
     ELSE Up[[heap |-> Swap(u.heap, i, u.pos), pos |-> i]]

\* The smaller child of i among the first n positions; i itself for a leaf.
MinChild(h, i, n) ==
  LET l == 2 * i + 1
  IN IF l >= n THEN i
     ELSE IF l + 1 < n /\ Less(h, l + 1, l) THEN l + 1 ELSE l

\* down: the entry at pos sinks among the first n positions.
Sinking == {d \in [heap : Seq(NearEntry), pos : Nat, n : Nat] : d.n <= Len(d.heap)}
Down[d \in Sinking] ==
  LET j == MinChild(d.heap, d.pos, d.n)
  IN IF j = d.pos \/ ~Less(d.heap, j, d.pos)
     THEN d
     ELSE Down[[heap |-> Swap(d.heap, d.pos, j), pos |-> j, n |-> d.n]]

Sunk(h, i, n) == Down[[heap |-> h, pos |-> i, n |-> n]].heap
Risen(h, i) == Up[[heap |-> h, pos |-> i]]

\* Restore the order around position i of the first n: down, else up.
Settle(h, i, n) ==
  LET d == Down[[heap |-> h, pos |-> i, n |-> n]]
  IN IF d.pos = i THEN Risen(h, i).heap ELSE d.heap

Pushed(h, e) == Risen(Append(h, e), Len(h))
HeapFix(h, i) == Settle(h, i, Len(h))
HeapRemove(h, i) ==
  LET n == Len(h) - 1
  IN SubSeq(IF n = i THEN h ELSE Settle(Swap(h, i, n), i, n), 1, n)
HeapPop_NoSwap(h) == SubSeq(h, 1, Len(h) - 1)
HeapPop(h) ==
  LET n == Len(h) - 1 IN SubSeq(Sunk(Swap(h, 0, n), 0, n), 1, n)

-----------------------------------------------------------------------------
Ms(t) == t \div NsPerMs

\* The position recorded for the key lies outside the heap: indexing it panics.
OutOfRange(key) == index[key] >= Len(heap)

\* nq.Add returns false, without a change, beyond the window.
InWindow(expireAt) == Ms(expireAt) - Ms(cached) <= WindowMs

AddPanics(key, expireAt) == InWindow(expireAt) /\ OutOfRange(key)

Add_NoFix(key, expireAt) ==
  /\ InWindow(expireAt)
  /\ ~OutOfRange(key)
  /\ IF index[key] # NoIndex
     THEN /\ heap' = [heap EXCEPT ![index[key] + 1].expireAt = expireAt]
          /\ UNCHANGED index
     ELSE LET pushed == Pushed(heap, [key |-> key, expireAt |-> expireAt])
          IN /\ heap' = pushed.heap
             /\ index' = [index EXCEPT ![key] = pushed.pos]
Add(key, expireAt) ==
  /\ InWindow(expireAt)
  /\ ~OutOfRange(key)
  /\ IF index[key] # NoIndex
     THEN /\ heap' = HeapFix([heap EXCEPT ![index[key] + 1].expireAt = expireAt], index[key])
          /\ UNCHANGED index
     ELSE LET pushed == Pushed(heap, [key |-> key, expireAt |-> expireAt])
          IN /\ heap' = pushed.heap
             /\ index' = [index EXCEPT ![key] = pushed.pos]

RemovePanics(key) == OutOfRange(key)

Remove(key) ==
  /\ ~OutOfRange(key)
  /\ heap' = IF index[key] = NoIndex THEN heap ELSE HeapRemove(heap, index[key])
  /\ index' = [index EXCEPT ![key] = NoIndex]

\* The loop of DrainExpired: pop the top while it is due, and keep its key.
IsDue(e) == Ms(e.expireAt) <= Ms(cached)

Draining == [heap : Seq(NearEntry), popped : SUBSET Keys]
Drained[d \in Draining] ==
  IF d.heap = <<>> \/ ~IsDue(d.heap[1])
  THEN d
  ELSE Drained[[heap |-> HeapPop(d.heap), popped |-> d.popped \cup {d.heap[1].key}]]

Drain == Drained[[heap |-> heap, popped |-> {}]]
DrainedKeys == {k \in Keys : k \in Drain.popped}

DrainExpired ==
  /\ heap' = Drain.heap
  /\ index' = [k \in Keys |-> IF k \in DrainedKeys THEN NoIndex ELSE index[k]]
-----------------------------------------------------------------------------
(***************************************************************************)
(* No entry is due before its parent in the heap.  Add and Remove go       *)
(* through a recorded position that swaps have made stale                  *)
(* (near_queue.go:69,85), so they may touch the wrong entry; the order     *)
(* DrainExpired relies on must survive even that.                          *)
(***************************************************************************)
HeapOrdered == \A j \in 1..(Len(heap) - 1) : ~Less(heap, j, (j - 1) \div 2)
=============================================================================

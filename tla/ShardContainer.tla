--------------------------- MODULE ShardContainer ---------------------------
(***************************************************************************)
(* A bucket's storage, internal/engine/sharding.go: keys are spread over   *)
(* shards by hash, Set and Delete go to one shard, and Count, Usage and    *)
(* Keys walk all shards while other requests change them.  A walk sees a   *)
(* shard's published index and its two counters, which the writer that     *)
(* holds writeMu (internal/engine/in_memory.go) moves one after the other. *)
(* A key belongs to one shard, so the indexes of all shards together are   *)
(* one function of the keys.                                               *)
(***************************************************************************)
EXTENDS Pairs, Functions

CONSTANTS
  Keys,
  Hash,        \* hasher.Sum64String
  ShardCount,  \* sc.shardCount
  MaxLost      \* bound: the counter of a shard loses at most this many keys

ASSUME ShardAssumption ==
  /\ IsFiniteSet(Keys)
  /\ Hash \in [Keys -> Nat]
  /\ ShardCount \in Nat \ {0} /\ MaxLost \in Nat

VARIABLES
  stored,     \* key -> size of its pair in the published index, or Absent
  old,        \* the same in the index the shard's writer began with
  copy,       \* the same in newIdx, the copy it works on
  pc,         \* shard -> where its writer is; "idle" when writeMu is free
  batch,      \* shard -> keys deleteBatch has still to look at
  delta,      \* shard -> the writer's delta, 0 when there is none
  keyCount,   \* shard -> s.keyCount
  usedBytes,  \* shard -> s.usedBytes
  walk,       \* the last walk begun: "none", "Count", "Usage" or "Keys"
  todo,       \* the shards it has not read yet; it returns when there are none
  total,      \* what Count and Usage have summed up
  listed,     \* key -> how often Keys has it in allKeys
  low, high,  \* history: key -> least and greatest weight it had during the walk
  lost        \* history: shard -> keys counted down by deletes that published nothing

indexVars == <<stored, old, copy>>
writerVars == <<indexVars, pc, batch, delta, keyCount, usedBytes, lost>>
walkVars == <<walk, todo, total, listed>>
vars == <<writerVars, walkVars, low, high>>

Shards == 0..(ShardCount - 1)
Indexes == [Keys -> Sizes \cup {Absent}]

\* The container and a walk over its shards are well formed: no walk leaves the shard array.
TypeOK ==
  /\ stored \in Indexes /\ old \in Indexes /\ copy \in Indexes
  /\ pc \in [Shards -> {"idle", "cut", "publish", "account"}]
  /\ batch \in [Shards -> SUBSET Keys]
  /\ delta \in [Shards -> Int]
  /\ keyCount \in [Shards -> Int] /\ usedBytes \in [Shards -> Int]
  /\ walk \in {"none", "Count", "Usage", "Keys"}
  /\ todo \subseteq Shards
  /\ total \in Int
  /\ listed \in [Keys -> Nat]
  /\ low \in [Keys -> Nat] /\ high \in [Keys -> Nat]
  /\ lost \in [Shards -> Nat]

Init ==
  /\ stored = [key \in Keys |-> Absent] /\ old = stored /\ copy = stored
  /\ pc = [s \in Shards |-> "idle"]
  /\ batch = [s \in Shards |-> {}]
  /\ delta = [s \in Shards |-> 0]
  /\ keyCount = delta /\ usedBytes = delta /\ lost = delta
  /\ walk = "none" /\ todo = {} /\ total = 0
  /\ listed = [key \in Keys |-> 0] /\ low = listed /\ high = listed

getShard(key) == Hash[key] % ShardCount

\* f for the keys of shard s, g for the others.
InShard(s, f, g) == [key \in Keys |-> IF getShard(key) = s THEN f[key] ELSE g[key]]
Bytes(size) == IF size = Absent THEN 0 ELSE size
KeysIn(s, index) ==
  SumFunction([key \in Keys |-> IF getShard(key) = s /\ index[key] # Absent THEN 1 ELSE 0])

-----------------------------------------------------------------------------
(***************************************************************************)
(* What a walk may make of a key.  A key weighs 1, in Usage its size, and  *)
(* 0 when it is absent.  Keys reads the published index; the counters move *)
(* before and after it is published, so for Count and Usage a pair being   *)
(* written may still weigh what it did or already what it will.            *)
(***************************************************************************)
Weight(size) ==
  IF walk = "Usage" THEN Bytes(size) ELSE IF size = Absent THEN 0 ELSE 1

Lesser(a, b) == IF a <= b THEN a ELSE b
Greater(a, b) == IF a <= b THEN b ELSE a

Least(key) ==
  IF walk = "Keys" THEN Weight(stored[key]) ELSE Lesser(Weight(old[key]), Weight(copy[key]))
Most(key) ==
  IF walk = "Keys" THEN Weight(stored[key]) ELSE Greater(Weight(old[key]), Weight(copy[key]))

\* A walk in progress takes note of the writer's step; one that has returned is forgotten.
Observe ==
  \/ /\ todo = {}
     /\ walk' = "none" /\ todo' = {} /\ total' = 0
     /\ listed' = [key \in Keys |-> 0] /\ low' = listed' /\ high' = listed'
  \/ /\ todo # {}
     /\ UNCHANGED walkVars
     /\ low' = [key \in Keys |-> Lesser(low[key], Least(key)')]
     /\ high' = [key \in Keys |-> Greater(high[key], Most(key)')]

-----------------------------------------------------------------------------
(***************************************************************************)
(* The writers.  Inside writeMu nothing but the counters and the published *)
(* index is seen from outside; a panic of Schedule at the end of Set comes *)
(* after all of these have moved.                                          *)
(***************************************************************************)

\* Variant: a key that is overwritten is counted again.
Set_CountsAlways(key, size) ==
  LET s == getShard(key)
  IN /\ pc[s] = "idle"
     /\ pc' = [pc EXCEPT ![s] = "publish"]
     /\ copy' = [copy EXCEPT ![key] = size]
     /\ keyCount' = [keyCount EXCEPT ![s] = @ + 1]
     /\ delta' = [delta EXCEPT ![s] = size - Bytes(stored[key])]
     /\ UNCHANGED <<stored, old, batch, usedBytes, lost>>
     /\ Observe

\* Set, up to the change of keyCount.
Set(key, size) ==
  LET s == getShard(key)
  IN /\ pc[s] = "idle"
     /\ pc' = [pc EXCEPT ![s] = "publish"]
     /\ copy' = [copy EXCEPT ![key] = size]
     /\ keyCount' = [keyCount EXCEPT ![s] = IF stored[key] = Absent THEN @ + 1 ELSE @]
     /\ delta' = [delta EXCEPT ![s] = size - Bytes(stored[key])]
     /\ UNCHANGED <<stored, old, batch, usedBytes, lost>>
     /\ Observe

\* deleteBatch takes the lock and a copy.
LockBatch(s, keys) ==
  /\ pc[s] = "idle"
  /\ pc' = [pc EXCEPT ![s] = "cut"]
  /\ batch' = [batch EXCEPT ![s] = keys]
  /\ UNCHANGED <<indexVars, delta, keyCount, usedBytes, lost>>
  /\ Observe

Delete(key) == LockBatch(getShard(key), {key})

\* The coalescer of a shard deletes a batch of its keys.
Flush(s) ==
  \E keys \in (SUBSET {key \in Keys : getShard(key) = s}) \ {{}} : LockBatch(s, keys)

\* One key of the batch: found or not, and cancelled without a panic.
CutKey(s, key) ==
  /\ pc[s] = "cut"
  /\ batch' = [batch EXCEPT ![s] = @ \ {key}]
  /\ copy' = [copy EXCEPT ![key] = Absent]
  /\ delta' = [delta EXCEPT ![s] = @ - Bytes(copy[key])]
  /\ keyCount' = [keyCount EXCEPT ![s] = IF copy[key] = Absent THEN @ ELSE @ - 1]
  /\ UNCHANGED <<stored, old, pc, usedBytes, lost>>
  /\ Observe

\* The writer lets go of the lock and of its copy, which lacks the keys it has counted down.
Abandon(s, index) ==
  /\ pc' = [pc EXCEPT ![s] = "idle"]
  /\ batch' = [batch EXCEPT ![s] = {}]
  /\ delta' = [delta EXCEPT ![s] = 0]
  /\ copy' = InShard(s, stored, copy)
  /\ lost' = [lost EXCEPT ![s] = @ + KeysIn(s, stored) - KeysIn(s, index)]
  /\ lost'[s] <= MaxLost
  /\ UNCHANGED <<stored, old, usedBytes>>

\* Cancel panics at a stale position of the near queue; defer unlocks.
CancelPanics(s, key) ==
  /\ pc[s] = "cut" /\ copy[key] # Absent
  /\ keyCount' = [keyCount EXCEPT ![s] = @ - 1]
  /\ Abandon(s, [copy EXCEPT ![key] = Absent])
  /\ Observe

CutDone(s) == pc[s] = "cut" /\ batch[s] = {}

\* deleteBatch found nothing, or nothing that has a size.
PublishNothing(s) ==
  /\ CutDone(s) /\ delta[s] = 0
  /\ Abandon(s, copy)
  /\ UNCHANGED keyCount
  /\ Observe

\* s.ptr.Store(newIdx).
Publish(s) ==
  /\ pc[s] = "publish" \/ (CutDone(s) /\ delta[s] # 0)
  /\ pc' = [pc EXCEPT ![s] = "account"]
  /\ stored' = InShard(s, copy, stored)
  /\ UNCHANGED <<old, copy, batch, delta, keyCount, usedBytes, lost>>
  /\ Observe

\* usedBytes follows, and the lock is released.
Account(s) ==
  /\ pc[s] = "account"
  /\ pc' = [pc EXCEPT ![s] = "idle"]
  /\ usedBytes' = [usedBytes EXCEPT ![s] = @ + delta[s]]
  /\ delta' = [delta EXCEPT ![s] = 0]
  /\ old' = InShard(s, stored, old)
  /\ UNCHANGED <<stored, copy, batch, keyCount, lost>>
  /\ Observe

-----------------------------------------------------------------------------
Begin_OnePast(kind) ==
  /\ todo = {}
  /\ walk' = kind /\ todo' = 0..ShardCount /\ total' = 0
  /\ listed' = [key \in Keys |-> 0]
  /\ UNCHANGED writerVars
  /\ low' = [key \in Keys |-> Least(key)']
  /\ high' = [key \in Keys |-> Most(key)']
Begin(kind) ==
  /\ todo = {}
  /\ walk' = kind /\ todo' = Shards /\ total' = 0
  /\ listed' = [key \in Keys |-> 0]
  /\ UNCHANGED writerVars
  /\ low' = [key \in Keys |-> Least(key)']
  /\ high' = [key \in Keys |-> Most(key)']

\* Count and Usage read one counter after the other, in the order of the shards.
CountShard(s) ==
  /\ walk = "Count" /\ \A t \in todo : s <= t
  /\ total' = total + keyCount[s]
  /\ todo' = todo \ {s}
  /\ UNCHANGED <<writerVars, walk, listed, low, high>>

UsageShard(s) ==
  /\ walk = "Usage" /\ \A t \in todo : s <= t
  /\ total' = total + usedBytes[s]
  /\ todo' = todo \ {s}
  /\ UNCHANGED <<writerVars, walk, listed, low, high>>

\* Keys asks the shards in parallel and takes the answers as they come.
KeysShard(s) ==
  /\ walk = "Keys"
  /\ listed' = [key \in Keys |->
       IF getShard(key) = s /\ stored[key] # Absent THEN listed[key] + 1 ELSE listed[key]]
  /\ todo' = todo \ {s}
  /\ UNCHANGED <<writerVars, walk, total, low, high>>

WriterStep(s) ==
  \/ Flush(s)
  \/ \E key \in batch[s] : CutKey(s, key) \/ CancelPanics(s, key)
  \/ PublishNothing(s)
  \/ Publish(s)
  \/ Account(s)

Next ==
  \/ \E key \in Keys : Delete(key) \/ \E size \in Sizes : Set(key, size)
  \/ \E s \in Shards : WriterStep(s)
  \/ \E kind \in {"Count", "Usage", "Keys"} : Begin(kind)
  \/ \E s \in todo : CountShard(s) \/ UsageShard(s) \/ KeysShard(s)

Spec == Init /\ [][Next]_vars

-----------------------------------------------------------------------------
(***************************************************************************)
(* Count, Usage and Keys are no snapshots (sharding.go:57-80,101-115), but *)
(* what they return is bounded by what was stored while they ran.  Keys    *)
(* lists every key stored throughout, none that never was, and none twice. *)
(* Usage is between the least and the greatest sizes the pairs had, also   *)
(* after panics.  Count never exceeds the keys there were, and falls short *)
(* of those stored throughout only by the ones that deletes counted down   *)
(* (in_memory.go:162) and then did not publish (163,168).                  *)
(***************************************************************************)
WalkBounds ==
  todo = {} =>
    /\ walk = "Keys" => \A key \in Keys : low[key] <= listed[key] /\ listed[key] <= high[key]
    /\ walk = "Usage" => SumFunction(low) <= total /\ total <= SumFunction(high)
    /\ walk = "Count" => /\ SumFunction(low) - SumFunction(lost) <= total
                         /\ total <= SumFunction(high)
=============================================================================

---------------------------- MODULE SegmentIndex ----------------------------
(***************************************************************************)
(* The index of a shard, internal/engine/in_memory.go: segments chosen by  *)
(* hash, each a sorted slice of keys and, in step with it, a slice of      *)
(* entries, known by their sizes.  A writer works on copies of the         *)
(* segments it touches and publishes them at once, so the index changes in *)
(* one step, or in none: a deleteBatch whose Cancel panics, or that finds  *)
(* nothing with a size, publishes nothing.                                 *)
(***************************************************************************)
EXTENDS Pairs, SequencesExt

CONSTANTS
  SegKeys,      \* the keys of a shard, numbered in their order as strings
  SegHash,      \* hasher.Sum64String
  SegmentCount  \* 64 in the code

ASSUME SegmentAssumption ==
  /\ IsFiniteSet(SegKeys) /\ SegKeys \subseteq Nat
  /\ SegHash \in [SegKeys -> Nat]
  /\ SegmentCount \in Nat \ {0}

VARIABLES
  index,  \* segment -> [keys, vals]
  pairs   \* history: key -> size of the pair it should have, or Absent

Segments == 0..(SegmentCount - 1)
EmptySegment == [keys |-> <<>>, vals |-> <<>>]

segmentIndexOf(key) == SegHash[key] % SegmentCount

-----------------------------------------------------------------------------
(***************************************************************************)
(* slices.BinarySearch: the number of keys before target, and whether      *)
(* target is the next one.  Positions count from 0.                        *)
(***************************************************************************)
Position(keys, target) ==
  LET search[r \in (0..Len(keys)) \X (0..Len(keys))] ==
        LET h == (r[1] + r[2]) \div 2
        IN IF r[1] >= r[2] THEN r[1]
           ELSE search[IF keys[h + 1] < target THEN <<h + 1, r[2]>> ELSE <<r[1], h>>]
  IN search[<<0, Len(keys)>>]

Found(keys, target) ==
  LET i == Position(keys, target) IN i < Len(keys) /\ keys[i + 1] = target

\* Variant: a key that is there is not noticed.
Put_Always(seg, key, val) ==
  LET i == Position(seg.keys, key)
  IN [keys |-> InsertAt(seg.keys, i + 1, key), vals |-> InsertAt(seg.vals, i + 1, val)]

\* Set: the entry is replaced, or key and entry are inserted where the search ended.
Put(seg, key, val) ==
  LET i == Position(seg.keys, key)
  IN IF Found(seg.keys, key)
     THEN [seg EXCEPT !.vals[i + 1] = val]
     ELSE [keys |-> InsertAt(seg.keys, i + 1, key), vals |-> InsertAt(seg.vals, i + 1, val)]

\* Variant: the entry cut is the one after the key's.
Cut_Misaligned(seg, key) ==
  LET i == Position(seg.keys, key)
  IN IF Found(seg.keys, key)
     THEN [keys |-> RemoveAt(seg.keys, i + 1),
           vals |-> RemoveAt(seg.vals, IF i + 1 = Len(seg.keys) THEN i + 1 ELSE i + 2)]
     ELSE seg

\* One turn of deleteBatch's inner loop.
Cut(seg, key) ==
  LET i == Position(seg.keys, key)
  IN IF Found(seg.keys, key)
     THEN [keys |-> RemoveAt(seg.keys, i + 1), vals |-> RemoveAt(seg.vals, i + 1)]
     ELSE seg

\* deleteBatch: the keys are grouped by segment, and each group is cut from its segment.
CutBatch(idx, batch) ==
  [g \in Segments |->
     FoldLeft(Cut, idx[g], SetToSeq({key \in batch : segmentIndexOf(key) = g}))]

\* delta # 0: the batch has a key that is found with an entry of some size.
Weighs(batch) ==
  \E key \in batch :
    LET seg == index[segmentIndexOf(key)]
    IN Found(seg.keys, key) /\ seg.vals[Position(seg.keys, key) + 1] # 0

\* Keys of a shard: the segments' keys, one segment after the other.
KeysOf == FlattenSeq([g \in 1..SegmentCount |-> index[g - 1].keys])

-----------------------------------------------------------------------------
segVars == <<index, pairs>>

SegInit ==
  /\ index = [g \in Segments |-> EmptySegment]
  /\ pairs = [key \in SegKeys |-> Absent]

SegSet(key, size) ==
  /\ index' = [index EXCEPT ![segmentIndexOf(key)] = Put(@, key, size)]
  /\ pairs' = [pairs EXCEPT ![key] = size]

deleteBatch(batch) ==
  /\ Weighs(batch)
  /\ index' = CutBatch(index, batch)
  /\ pairs' = [key \in SegKeys |-> IF key \in batch THEN Absent ELSE pairs[key]]

SegDelete(key) == deleteBatch({key})

\* The coalescer's batches.
SegFlush == \E batch \in SUBSET SegKeys : deleteBatch(batch)

SegNext ==
  \/ \E key \in SegKeys : SegDelete(key) \/ \E size \in Sizes : SegSet(key, size)
  \/ SegFlush

SegSpec == SegInit /\ [][SegNext]_segVars

-----------------------------------------------------------------------------
(***************************************************************************)
(* After any sequence of Set, Delete and batches, the search of Get and    *)
(* Exists finds exactly the stored keys, each with the entry stored last   *)
(* (in_memory.go:50-58,100-113,146-166,174-179).                           *)
(***************************************************************************)
SearchExact ==
  \A key \in SegKeys :
    LET seg == index[segmentIndexOf(key)]
    IN /\ Found(seg.keys, key) <=> pairs[key] # Absent
       /\ Found(seg.keys, key) => seg.vals[Position(seg.keys, key) + 1] = pairs[key]

(***************************************************************************)
(* The keys a shard lists are the stored ones, none twice                  *)
(* (in_memory.go:106-115,181-192).                                         *)
(***************************************************************************)
ListExact == IsInjective(KeysOf) /\ Range(KeysOf) = {key \in SegKeys : pairs[key] # Absent}
=============================================================================

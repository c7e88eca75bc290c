-------------------------- MODULE MCShardContainer --------------------------
(***************************************************************************)
(* The storage of a bucket, seen twice: a container of two shards with     *)
(* three keys, of which two can be in one batch and are interchangeable,   *)
(* and the segments of one shard with five keys, of which four share a     *)
(* segment, one is in another and a third segment stays empty.  Neither    *)
(* sees the other: a behaviour moves the one while the other is as new.    *)
(***************************************************************************)
EXTENDS ShardContainer, SegmentIndex

CONSTANTS k1, k2, k3

MCHash == k1 :> 2 @@ k2 :> 2 @@ k3 :> 5
MCSegHash == <<3, 0, 6, 4, 9>>
Symmetry == Permutations({k1, k2})

StorageInit == Init /\ SegInit

StorageNext ==
  \/ SegInit /\ Next /\ UNCHANGED segVars
  \/ Init /\ SegNext /\ UNCHANGED vars

StorageSpec == StorageInit /\ [][StorageNext]_<<vars, segVars>>
=============================================================================

SPECIFICATION StorageSpec
CONSTANTS
  k1 = k1
  k2 = k2
  k3 = k3
  Keys = {k1, k2, k3}
  Sizes = {0, 2}
  ShardCount = 2
  MaxLost = 2
  Hash <- MCHash
  SegKeys = {1, 2, 3, 4, 5}
  SegHash <- MCSegHash
  SegmentCount = 3
SYMMETRY Symmetry
INVARIANTS
  TypeOK
  WalkBounds
  SearchExact
  ListExact

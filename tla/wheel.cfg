SPECIFICATION Spec
CONSTANTS
  Keys = {k1, k2}
  SlotCount = 2
  TickMs = 8
  NsPerMs = 2
  Delays <- MCDelays
  MaxTime = 78
INVARIANTS
  TypeOK
  Coherent
  OverdueLessThanATurn

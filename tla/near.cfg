SPECIFICATION Spec
CONSTANTS
  k1 = k1
  k2 = k2
  k3 = k3
  Keys <- MCKeys
  WindowMs = 2
  NsPerMs = 2
  Delays = {0, 1, 3, 6}
  MaxTime = 3
  MaxHeap = 4
SYMMETRY KeySymmetry
INVARIANTS
  HeapOrdered
PROPERTIES
  DrainExact

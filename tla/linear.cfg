SPECIFICATION Spec
CONSTANTS
  k1 = k1
  k2 = k2
  c1 = c1
  c2 = c2
  Keys <- TwoKeys
  Clients <- TwoClients
  TcpClients <- NoClient
  Flusher = Flusher
  NoEntry = NoEntry
  Nobody = Nobody
  Sizes = {1}
  TTLs = {0}
  Singles = {TRUE, FALSE}
  NsPerSec = 1
  NsPerMs = 1
  WindowMs = 1
  SlotCount = 2
  TickMs = 4
  Requests = {"Set", "Get", "Delete"}
  GcCalls = {"StartGC"}
  MaxEntries = 2
  MaxDrift = 0
  MaxTime = 1
SYMMETRY Symmetry
INVARIANTS
  KeyCountExact
  SingleReadOnce
PROPERTIES
  DeleteDeletes
  Linearizable

SPECIFICATION Spec
CONSTANTS
  k1 = k1
  k2 = k2
  c1 = c1
  c2 = c2
  Keys <- TwoKeys
  Clients <- OneClient
  TcpClients <- NoClient
  Flusher = Flusher
  NoEntry = NoEntry
  Nobody = Nobody
  Sizes = {1}
  TTLs = {1}
  Singles = {FALSE}
  NsPerSec = 1
  NsPerMs = 1
  WindowMs = 1
  SlotCount = 2
  TickMs = 4
  Requests = {"Set", "Delete"}
  GcCalls = {}
  MaxEntries = 2
  MaxDrift = 0
  MaxTime = 2
PROPERTIES
  DeleteDeletes

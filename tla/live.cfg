SPECIFICATION FairSpec
CONSTANTS
  k1 = k1
  k2 = k2
  c1 = c1
  c2 = c2
  Keys <- OneKey
  Clients <- OneClient
  TcpClients <- NoClient
  Flusher = Flusher
  NoEntry = NoEntry
  Nobody = Nobody
  Sizes = {1}
  TTLs = {1}
  Singles = {TRUE}
  NsPerSec = 1
  NsPerMs = 1
  WindowMs = 0
  SlotCount = 2
  TickMs = 4
  Requests = {"Set", "Get", "Delete"}
  GcCalls = {"StartGC", "StopGC"}
  MaxEntries = 1
  MaxDrift = 0
  MaxTime = 2
PROPERTIES
  EventuallyReaped
  CallsReturn
  StopEnds

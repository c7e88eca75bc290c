SPECIFICATION FairSpec
CONSTANTS
  k1 = k1
  k2 = k2
  c1 = c1
  c2 = c2
  Keys <- OneKey
  Clients <- OneClient
  TcpClients <- NoClient
  Flusher = Flusher
  NoEntry = NoEntry
  Nobody = Nobody
  Sizes = {1}
  TTLs = {1}
  Singles = {FALSE}
  NsPerSec = 1
  NsPerMs = 1
  WindowMs = 1
  SlotCount = 2
  TickMs = 4
  Requests = {"Set"}
  GcCalls = {"StopGC"}
  MaxEntries = 1
  MaxDrift = 0
  MaxTime = 3
PROPERTIES
  EventuallyReaped
CHECK_DEADLOCK FALSE

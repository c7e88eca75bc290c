SPECIFICATION Spec
CONSTANTS
  MaxPayloadSize = 10
  StrMod = 16
  Conns = {c1, c2}
  Buckets <- MCBuckets
  Requests <- MCRequests
  MaxFrames = 2
  ReadSizes = {}
  readChunkSize = 12
  readerBufSize = 16
  MaxConnectionBuffSize = 25
INVARIANT StoredKeysStable
CHECK_DEADLOCK FALSE

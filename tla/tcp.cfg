SPECIFICATION FairSpec
CONSTANTS
  MaxPayloadSize = 10
  StrMod = 16
  Conns = {c1, c2}
  Buckets <- MCBuckets
  Requests <- MCRequests
  MaxFrames = 2
  ReadSizes = {5}
  readChunkSize = 12
  readerBufSize = 16
  MaxConnectionBuffSize = 25
INVARIANTS
  TypeOK
  FramesInOrder
  AnswersCorrelate
  NeverOverflows
  BuffersOwned
  KeysStableIfAnswered
  StopDrains
PROPERTIES
  AllAnswered
  ShutdownEnds
\* The process ends, by Stop or by a panic.
CHECK_DEADLOCK FALSE

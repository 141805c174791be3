CONSTANTS
  NFiles = 2
  Size <- SizeChunkAppend
  ChunkThreshold = 2
  Block = 1
  QueueCap = 1
  EarlyNext = TRUE
  Watch = TRUE
  FreshStart = TRUE
  BufferedWrite = TRUE
  MaxCrashes = 0
  MaxFaults = 1
SPECIFICATION Spec
INVARIANT VisibleIsPrefix
PROPERTIES CommitResolves WrittenIsReported

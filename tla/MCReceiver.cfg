CONSTANTS
  NFiles = 3
  Size <- SizeAppendChunkAppend
  ChunkThreshold = 2
  Block = 1
  QueueCap = 1
  EarlyNext = FALSE
  Watch = FALSE
  FreshStart = FALSE
  BufferedWrite = FALSE
  MaxCrashes = 1
  MaxFaults = 1
SPECIFICATION Spec
INVARIANTS TypeOK OrderedVisibility VisibleIsPrefix ToldIsWhole ChunkAckStored NextSeqVisible OffsetIsWritten
PROPERTY OnlyGrows

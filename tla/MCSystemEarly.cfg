CONSTANTS
  NFiles = 3
  Size <- SizeChunkFirst
  ChunkThreshold = 2
  Block = 2
  MaxRetries = 1
  MaxRecoveries = 2
  Lines = {l1}
  AckBatch = 0
  QueueCap = 2
  FreshStart = TRUE
  Grown = {}
  MaxCredit = 1
  Limits <- Timeouts
SPECIFICATION Spec
INVARIANT CompletedIsWhole
CHECK_DEADLOCK FALSE

CONSTANTS
  NFiles = 2
  Size <- SizeAppends
  ChunkThreshold = 2
  Block = 1
  MaxRetries = 1
  MaxRecoveries = 1
  Lines = {l1}
  AckBatch = 2
  QueueCap = 1
  FreshStart = FALSE
  Grown = {1}
  MaxCredit = 1
  Limits <- NoFailure
SPECIFICATION Spec
INVARIANTS GrowthIsSent
CHECK_DEADLOCK FALSE

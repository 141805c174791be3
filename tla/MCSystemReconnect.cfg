CONSTANTS
  NFiles = 1
  Size <- SizeAppend
  ChunkThreshold = 1
  Block = 1
  MaxRetries = 1
  MaxRecoveries = 1
  Lines = {l1}
  AckBatch = 2
  QueueCap = 1
  FreshStart = TRUE
  Grown = {}
  MaxCredit = 2
  Limits <- OneDrop
SPECIFICATION Spec
INVARIANTS ReconnectResumes
CHECK_DEADLOCK FALSE

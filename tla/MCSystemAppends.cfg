CONSTANTS
  NFiles = 2
  Size <- SizeTwoAppends
  ChunkThreshold = 1
  Block = 1
  MaxRetries = 1
  MaxRecoveries = 1
  Lines = {l1, l2}
  AckBatch = 2
  QueueCap = 1
  FreshStart = TRUE
  Grown = {}
  MaxCredit = 1
  Limits <- EveryFailure
SPECIFICATION Spec
INVARIANTS WaitsForWhole OneLineFinishes
SYMMETRY Symmetry
CHECK_DEADLOCK FALSE

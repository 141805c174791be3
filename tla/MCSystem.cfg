CONSTANTS
  NFiles = 2
  Size <- SizeAppendChunk
  ChunkThreshold = 1
  Block = 1
  MaxRetries = 1
  MaxRecoveries = 1
  Lines = {l1, l2}
  AckBatch = 2
  QueueCap = 1
  FreshStart = TRUE
  Grown = {}
  MaxCredit = 1
  Limits <- OvertakeOrDrop
SPECIFICATION Spec
INVARIANTS SenderKeepsOrder NothingForgotten WaitsForWhole OneLineFinishes
PROPERTIES ImplementsOrderedTransfer
SYMMETRY Symmetry
CHECK_DEADLOCK FALSE

CONSTANTS
  NEntries = 1
  Dirs = {}
  Parent <- OneFile
  Below <- BelowOneFile
  ChunkThreshold = 0
  MaxRecoveries = 1
  Backends = {"inotify"}
  EventCap = 1
  MaxSize = 1
  MaxConnects = 1
SPECIFICATION Spec
INVARIANTS GrowthIsHarmless
CHECK_DEADLOCK FALSE

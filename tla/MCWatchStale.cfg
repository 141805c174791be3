CONSTANTS
  NEntries = 1
  Dirs = {}
  Parent <- OneFile
  Below <- BelowOneFile
  ChunkThreshold = 0
  MaxRecoveries = 1
  Backends = {"inotify"}
  EventCap = 1
  MaxSize = 1
  MaxConnects = 2
SPECIFICATION Spec
INVARIANTS DoneMeansSynced
CHECK_DEADLOCK FALSE

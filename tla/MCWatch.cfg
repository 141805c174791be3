CONSTANTS
  NEntries = 3
  Dirs = {2}
  Parent <- FileDirFile
  Below <- BelowFileDir
  ChunkThreshold = 0
  MaxRecoveries = 1
  Backends = {"polling", "inotify", "fsevents"}
  EventCap = 1
  MaxSize = 1
  MaxConnects = 1
SPECIFICATION Spec
INVARIANTS TypeOK StaleIsNoticed TasksCoverManifest OwnAnswerSyncs
PROPERTIES CatchesUp
CHECK_DEADLOCK FALSE

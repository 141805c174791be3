CONSTANTS
  kCapacity = 3
  MaxTasks = 5
SPECIFICATION Spec
INVARIANTS TypeOK NoSlotClash Fifo
PROPERTIES DrainComplete ImplementsTaskQueue AcceptedRuns CallsReturn StopRunsAccepted
CHECK_DEADLOCK FALSE

CONSTANTS
  N = 3
  IdleLimit = 2
  Faults = {"giveUp", "noLog", "earlySignal", "stall"}
SPECIFICATION FairShutdownSpec
INVARIANTS RxDetachedUnused TxDetachedUnused
PROPERTY ShutdownEnds
CHECK_DEADLOCK FALSE

CONSTANTS
  Size = 5
  Window = 2
  Slack = 2
  MaxRequest = 3
  Uses = {{"space"}, {"copy"}}
  TagCount = 10
SPECIFICATION FairSpec
INVARIANTS TypeOK NeverFull UnsentIntact
PROPERTIES ImplementsFifo StopDrains RequestServed CommittedSent StopReturns
CHECK_DEADLOCK FALSE

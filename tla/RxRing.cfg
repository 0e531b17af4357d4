CONSTANTS
  Size = 8
  Window = 2
  ExtraWindow = 6
  MaxRecord = 3
  MinDataChoices = {2, 6}
  DefaultMinData = 6
  TagCount = 16
SPECIFICATION FairReader
INVARIANTS TypeOK NoOverrun LentIsCaptured
PROPERTIES ImplementsFifo LimitOnlyAdvances HeadConsumed StallEnds AdvanceReturns
CHECK_DEADLOCK FALSE

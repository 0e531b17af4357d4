CONSTANTS
  Streams = {s1}
  TxCount = 5
  Slots = 5
  Rounds = 2
  Networks <- MCNetworks
SPECIFICATION FairSpec
INVARIANTS LostMeansLost InOrder
PROPERTY FilesKeepComing
CHECK_DEADLOCK FALSE

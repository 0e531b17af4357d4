CONSTANTS
  Streams = {s1, s2}
  TxCount = 4
  Slots = 3
  Rounds = 2
  Networks <- MCLossless
SPECIFICATION Spec
INVARIANT LostMeansLost
CHECK_DEADLOCK FALSE

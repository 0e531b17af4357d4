CONSTANTS
  N = 2
  Area = 10
  Table = 2
  Handles = {h1}
  Counts = {1, 2}
  Modes = {"msu"}
  MaxSetups = 2
  None = None
SPECIFICATION Spec
INVARIANTS OnlyStartedWrite
CHECK_DEADLOCK FALSE

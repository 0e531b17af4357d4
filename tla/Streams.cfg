CONSTANTS
  N = 2
  Area = 10
  Table = 2
  Handles = {h1, h2}
  Counts = {2}
  Modes = {"msu", "copy", "overlap", "proc"}
  MaxSetups = 2
  None = None
SYMMETRY HandleSymmetry
SPECIFICATION Spec
INVARIANTS AttachedUsable OnlyStartedWrite RunsWhatItMaps
CHECK_DEADLOCK FALSE

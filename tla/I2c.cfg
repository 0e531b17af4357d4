CONSTANTS
  Procs = {p1, p2}
  Calls <- I2cCalls
  MaxCalls = 4
  Plugged = {0, 2, 3}
  MemSize = 3
SPECIFICATION BusSpec
SYMMETRY ProcSymmetry
INVARIANTS BusLeftFree
PROPERTIES ImplementsMemory
CHECK_DEADLOCK FALSE

CONSTANTS
  Procs = {p1, p2}
  Jobs <- RegJobs
  MaxJobs = 3
  MacRegs = {0, 832}
  PcsRegs = {0, 1, 5}
  PhyRegs = {0, 1}
  PlainRegs = {"capture", "bypass", "threshold"}
  Half = 2
  MaxCount = 2
SPECIFICATION Spec
SYMMETRY ProcSymmetry
PROPERTIES ImplementsRegisters FlagsKept CountNeverAhead
CHECK_DEADLOCK FALSE

CONSTANTS
  WordBits = 2
  BufferWords = 2
  BlockWords = 3
  Blocks = 2
  SerialBank = 2
  SerialWords = 2
  Images <- MCImages
  OldCells <- MCOldCells
  NewSerial <- MCSerial
  Lengths = {7, 9, 15}
  MaxRuns = 2
  MaxFaults = 1
SPECIFICATION Spec
INVARIANTS OthersKept FailsOnlyByFault
PROPERTY ReconfiguredIsImage

CONSTANTS
  PieceSize = 2
  Slots = 9
  MaxPiece = 10
  Alignment = 2
  Request = 7
  MinSize = 2
  CardCount = 2
SPECIFICATION Spec
INVARIANTS AreaHeld
CHECK_DEADLOCK FALSE

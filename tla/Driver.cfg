CONSTANTS
  PieceSize = 2
  Slots = 9
  MaxPiece = 10
  Alignment = 4
  Request = 8
  MinSize = 2
  CardCount = 2
  Boards = 2
  Devices = {d1, d2, d3}
  Files = {f1, f2}
  Offsets <- DriverOffsets
  Lengths = {4, 8}
  None = None
SPECIFICATION DriverSpec
SYMMETRY DeviceSymmetry
INVARIANTS AreaHeld AllReturned BoundServed AreasExact MappedHeld
PROPERTIES FirstCardServed StaleFileRefused
CHECK_DEADLOCK FALSE

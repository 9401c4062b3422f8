SPECIFICATION Spec
CONSTANTS
  RecvCap = 4
  SizeMod = 16
  MaxRefused = 0
  Requests <- Mixed
INVARIANTS ReadHasRoom

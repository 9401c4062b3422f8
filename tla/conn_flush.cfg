SPECIFICATION Spec
CONSTANTS
  RecvCap = 4
  SizeMod = 16
  MaxRefused = 1
  Requests <- Mixed
INVARIANTS SentWithinSize

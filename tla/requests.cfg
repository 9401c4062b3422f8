SPECIFICATION Spec
CHECK_DEADLOCK FALSE
CONSTANTS
  MaxArgc = 3
  SizeMax = 999
  Modulus = 256
  RecvCap = 64
  CounterBuf = 4
  Streams <- Sendable
  Malformed = Malformed
  Text = Text
  NoValue = NoValue
  Ok = Ok
  Pong = Pong
  Err = Err
INVARIANTS TypeOK HandledAsSent NothingLeft RefusedOnlySplitNumber
PROPERTIES AsCommands

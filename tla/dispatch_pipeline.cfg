SPECIFICATION FairSpec
CONSTANTS
  NoValue = NoValue
  Text = Text
  Ok = Ok
  Pong = Pong
  Err = Err
  NoConn = NoConn
  NoCommand = NoCommand
  NoReply = NoReply
  c1 = c1
  c2 = c2
  near = near
  far = far
  N = 2
  Keys = {near, far}
  Home <- KeyHome
  DefaultDb <- Zero
  Conns = {c1, c2}
  Owner <- OneEach
  Dbs <- OneDb
  Commandset <- Pipelined
  MaxAsked <- ThreeAndOne
  Leavers = {c1}
  Window = 2
INVARIANTS WaitingHasResponse EachCommandOnce SameShardInOrder DanglingNeedsClient
PROPERTIES AllAnswered GoneIsClosed

SPECIFICATION FairSpec
CONSTANTS
  RecvCap = 4
  SizeMod = 16
  MaxRefused = 1
  Requests <- Mixed
INVARIANTS TypeOK BufferHoldsStream RepliesIntact RoomUnlessWaiting
PROPERTIES RepliesArrive
\* When everything is answered the thread blocks in epoll_wait, and a failed
\* assertion ends the process.
CHECK_DEADLOCK FALSE

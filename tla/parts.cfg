SPECIFICATION PartsSpec
CHECK_DEADLOCK FALSE
CONSTANTS
  Size = 3
  Values = {v1, v2}
  NoValue = NoValue
  Nodes = {n1, n2, n3, n4}
  Threads = {r1, r2}
  MaxFd = 3
  InitCap = 1
  Heap = {c1, c2, c3, c4}
  Null = Null
  N = 3
  Capacity = 4
  Kinds = {"local", "dispatch", "shutdown"}
  MaxCommands <- AllButLast
INVARIANTS SlotExclusive TableExact StoppedClean StopsForAll FreedWhileStopping
PROPERTIES ImplementsFifo ImplementsQueue

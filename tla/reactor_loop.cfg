\* Every thread may stop: the system then stands still.
SPECIFICATION TeardownSpec
CONSTANTS
  N = 2
  Capacity = 4
  Kinds = {"local", "dispatch", "shutdown"}
  MaxCommands <- TwoAndOne
INVARIANTS IInv NoLostWakeup
PROPERTIES CommandsAnswered ShutdownStopsSleepers ServerEnds
CHECK_DEADLOCK FALSE

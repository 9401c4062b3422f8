SPECIFICATION TeardownSpec
CONSTANTS
  N = 2
  Capacity = 1
  Kinds = {"dispatch"}
  MaxCommands <- TwoEach
PROPERTIES SendReturns
\* A spinning mpmcq_enqueue changes nothing: the model stands still where the
\* program turns on the spot.
CHECK_DEADLOCK FALSE

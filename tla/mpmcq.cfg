SPECIFICATION OwnSpec
CONSTANTS
  Size = 2
  p1 = p1
  p2 = p2
  v1 = v1
  v2 = v2
  Producers = {p1, p2}
  Consumers = {c1, c2}
  Values = {v1, v2}
  NoValue = NoValue
  MaxPos = 3
INVARIANTS IInv CellExclusive
PROPERTIES NullOnlyWhenNothingReady ImplementsFifo CallsReturn

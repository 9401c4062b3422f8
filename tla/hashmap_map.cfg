SPECIFICATION FairSpec
CONSTANTS
  a = a
  b = b
  c = c
  d = d
  e = e
  Keys = {a, b, c, d, e}
  Hash <- FiveHashes
  Values = {v1, v2}
  NoValue = NoValue
  NoCall = NoCall
  MinBuckets = 4
INVARIANTS TypeOK Ordered CountIsItems
PROPERTIES ImplementsMap CallsReturn

SPECIFICATION Spec
CONSTANTS
  a = a
  b = b
  c = c
  Ids = {a, b, c}
  Sizes <- OneSize
  DefragLimit = 3
  HeaderBase = 100
  MaxStores = 5
INVARIANT DefragmentKeepsData
CHECK_DEADLOCK FALSE

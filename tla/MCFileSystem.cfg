SPECIFICATION FsSpec
CONSTANTS
  a = a
  b = b
  c = c
  Ids = {a, b, c}
  Sizes <- AllSizes
  DefragLimit = 3
  HeaderBase = 6
  MaxStores = 4
SYMMETRY MCSymmetry
CONSTRAINT NotSpoilt
INVARIANTS TypeOK LoadsStored SurvivesClose RegionTiled CleanIsDurable
PROPERTY StoreIsSeen
CHECK_DEADLOCK FALSE

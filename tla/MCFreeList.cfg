SPECIFICATION Spec
CONSTANTS
  PageSize = 3
  MaxPages = 2
  Nil = Nil
  Garbage = Garbage
INVARIANTS
  TypeOK
  Partition
CHECK_DEADLOCK FALSE

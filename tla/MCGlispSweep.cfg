SPECIFICATION Spec
CONSTANTS
  Names = {1, 2}
  Literals <- MCLiterals
  MaxPooled = 1
  MaxVars = 2
  MaxCells = 3
  MaxStack = 5
  MaxDepth = 2
INVARIANT DetachedHasContainer
CHECK_DEADLOCK FALSE

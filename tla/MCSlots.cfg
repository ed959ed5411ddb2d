SPECIFICATION Spec
CONSTANTS
  MaxSlots = 5
  MaxFires = 3
  MaxDepth = 3
INVARIANTS TypeOK WalkVisitsStart
CHECK_DEADLOCK FALSE

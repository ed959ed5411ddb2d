SPECIFICATION SpecTs
CONSTANTS
  r1 = r1
  PageSize = 2
  MaxPages = 2
  Removers = {r1}
  Nil = Nil
  Garbage = Garbage
INVARIANT
  FreedIsNotHeld
CHECK_DEADLOCK FALSE

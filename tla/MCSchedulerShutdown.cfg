SPECIFICATION FairSpec
CONSTANTS
  ThreadsCount = 1
  c1 = c1
  c2 = c2
  j1 = j1
  j2 = j2
  j3 = j3
  j4 = j4
  Callers = {c1}
  Owner = c1
  Jobs <- MCJobsPair
  Program <- MCProgramPair
  Spawns <- MCSpawnsNone
  Null = Null
  Empty = Empty
  WaitForJobs = TRUE
PROPERTY
  ShutdownReturns
CHECK_DEADLOCK FALSE

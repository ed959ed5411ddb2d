SPECIFICATION FairSpec
CONSTANTS
  ThreadsCount = 2
  c1 = c1
  c2 = c2
  j1 = j1
  j2 = j2
  j3 = j3
  j4 = j4
  Callers = {c1, c2}
  Owner = c1
  Jobs <- MCJobs
  Program <- MCProgram
  Spawns <- MCSpawns
  Null = Null
  Empty = Empty
  WaitForJobs = FALSE
INVARIANTS
  TypeOK
  AtMostOnce
  ClaimIsExclusive
  CountAccounting
  NoUseAfterDelete
PROPERTIES CallersFinish SleeperRunsItsJob
CHECK_DEADLOCK FALSE

---------------------------- MODULE MCScheduler ----------------------------
(* Instances of Scheduler for TLC: the owner and a second caller, jobs that *)
(* schedule jobs (as the scheduler test's do), one or two workers.          *)
EXTENDS Scheduler, TLC

CONSTANTS c1, c2, j1, j2, j3, j4

MCJobs     == {j1, j2, j3, j4}
MCProgram  == (c1 :> <<j1>>) @@ (c2 :> <<j2, j3>>)
MCSpawns   == (j1 :> <<j4>>) @@ [j \in {j2, j3, j4} |-> <<>>]

\* One caller that schedules two plain jobs.
MCJobsPair    == {j1, j2}
MCProgramPair == (c1 :> <<j1, j2>>)
MCSpawnsNone  == [j \in MCJobsPair |-> <<>>]
=============================================================================

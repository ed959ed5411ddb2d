------------------------------ MODULE Scheduler ------------------------------
(***************************************************************************)
(* The multithreaded job scheduler of base/scheduler.hpp: a fixed set of   *)
(* worker threads, one mailbox ("notifier") per worker, an array of busy   *)
(* flags claimed by compare-and-swap, and a counter of free workers.       *)
(*                                                                         *)
(* Every atomic operation of the source is a step of its own; a critical   *)
(* section under the mailbox's mutex is one step, because nothing but      *)
(* another critical section of the same mutex reads the mailbox.           *)
(*                                                                         *)
(* A job is a name.  What a job does is what it does to the scheduler: the *)
(* jobs it schedules in turn (Spawns), as the jobs of the scheduler test   *)
(* do.  A thread's "todo" is the sequence of jobs it has still to pass to  *)
(* schedule(); a job run inline on the calling thread prepends its own.    *)
(***************************************************************************)
EXTENDS Integers, Sequences, FiniteSets

CONSTANTS
  ThreadsCount,   \* the maxThreads given to initialize()
  Callers,        \* threads outside the pool that call schedule()
  Owner,          \* the caller that owns the scheduler and shuts it down
  Jobs,           \* the jobs of one execution
  Program,        \* Program[c]: the jobs caller c schedules, in order
  Spawns,         \* Spawns[j]: the jobs that job j schedules when it runs
  Null, Empty,    \* the mailbox's nullptr, and T_WORK::empty()
  WaitForJobs     \* TRUE: the owner shuts down only after every job has run

Workers == 0 .. ThreadsCount - 1
Threads == Callers \cup Workers
Messages == Jobs \cup {Null, Empty}

ASSUME CountAssumption  == ThreadsCount \in Nat \ {0}
ASSUME CallerAssumption == /\ Owner \in Callers
                           /\ Callers \cap Workers = {}
ASSUME FiniteAssumption == IsFiniteSet(Callers)
ASSUME JobAssumption    == /\ Null \notin Jobs
                           /\ Empty \notin Jobs
                           /\ Null # Empty
                           /\ Program \in [Callers -> Seq(Jobs)]
                           /\ Spawns \in [Jobs -> Seq(Jobs)]
                           /\ WaitForJobs \in BOOLEAN

(* A job is one execution: it is scheduled in one place, by one program or *)
(* by one other job.                                                       *)
ASSUME OnceAssumption ==
  /\ \A c, d \in Callers : \A i \in DOMAIN Program[c], k \in DOMAIN Program[d] :
       Program[c][i] = Program[d][k] => c = d /\ i = k
  /\ \A c, d \in Jobs : \A i \in DOMAIN Spawns[c], k \in DOMAIN Spawns[d] :
       Spawns[c][i] = Spawns[d][k] => c = d /\ i = k
  /\ \A c \in Callers, d \in Jobs :
       \A i \in DOMAIN Program[c], k \in DOMAIN Spawns[d] :
         Program[c][i] # Spawns[d][k]

VARIABLES
  freeWorkersCount,  \* atomic counter
  workerRunning,     \* per worker: atomic flag, TRUE while claimed
  run,               \* per worker: atomic flag, cleared by shutdown()
  msg,               \* per worker: the notifier's message
  work,              \* per worker: the message its last wait() returned
  pc,                \* per thread: the step it takes next
  idx,               \* per thread: the loop variable of trySchedule / shutdown
  cur,               \* per thread: the job it is passing to schedule()
  todo,              \* per thread: the jobs it has still to schedule
  ran                \* history, per job: how many times it was started

vars == <<freeWorkersCount, workerRunning, run, msg, work, pc, idx, cur,
          todo, ran>>

(* Where a thread may be.  "exec" is user code: a caller's program or a job. *)
Scheduling  == {"count", "scan", "decrement", "notify", "inline"}
Stopping    == {"stop", "stopNotify", "stopJoin"}
CallerPlace == {"exec", "done"} \cup Scheduling \cup Stopping
WorkerPlace == {"check", "wait", "sleep", "awake", "exec", "increment",
                "clear", "exited"} \cup Scheduling

Init ==
  /\ freeWorkersCount = ThreadsCount
  /\ workerRunning = [w \in Workers |-> FALSE]
  /\ run = [w \in Workers |-> TRUE]
  /\ msg = [w \in Workers |-> Null]
  /\ work = [w \in Workers |-> Null]
  /\ pc = [t \in Threads |-> IF t \in Workers THEN "check" ELSE "exec"]
  /\ idx = [t \in Threads |-> 0]
  /\ cur = [t \in Threads |-> Null]
  /\ todo = [t \in Threads |-> IF t \in Callers THEN Program[t] ELSE <<>>]
  /\ ran = [j \in Jobs |-> 0]

Goto(t, place) == pc' = [pc EXCEPT ![t] = place]

Start(t, j) ==
  /\ ran' = [ran EXCEPT ![j] = @ + 1]
  /\ todo' = [todo EXCEPT ![t] = Spawns[j] \o @]

-----------------------------------------------------------------------------
(* schedule() and trySchedule(), on a caller or on a worker inside a job.  *)

Schedule(t) ==
  /\ pc[t] = "exec"
  /\ todo[t] # <<>>
  /\ cur' = [cur EXCEPT ![t] = Head(todo[t])]
  /\ todo' = [todo EXCEPT ![t] = Tail(todo[t])]
  /\ Goto(t, "count")
  /\ UNCHANGED <<freeWorkersCount, workerRunning, run, msg, work, idx, ran>>

(* The counter is a hint: it is read once, before the scan. *)
ReadCount(t) ==
  /\ pc[t] = "count"
  /\ idx' = [idx EXCEPT ![t] = 0]
  /\ Goto(t, IF freeWorkersCount > 0 THEN "scan" ELSE "inline")
  /\ UNCHANGED <<freeWorkersCount, workerRunning, run, msg, work, cur, todo,
                 ran>>

\* Mutant: the flag is stored without testing it first.
ClaimUntested(t) ==
  /\ pc[t] = "scan"
  /\ idx[t] < ThreadsCount
  /\ workerRunning' = [workerRunning EXCEPT ![idx[t]] = TRUE]
  /\ Goto(t, "decrement")
  /\ UNCHANGED <<freeWorkersCount, run, msg, work, idx, cur, todo, ran>>

Claim(t) ==
  /\ pc[t] = "scan"
  /\ idx[t] < ThreadsCount
  /\ ~workerRunning[idx[t]]
  /\ workerRunning' = [workerRunning EXCEPT ![idx[t]] = TRUE]
  /\ Goto(t, "decrement")
  /\ UNCHANGED <<freeWorkersCount, run, msg, work, idx, cur, todo, ran>>

\* Mutant: the loop runs one worker too far.
SkipWorkerTooFar(t) ==
  /\ pc[t] = "scan"
  /\ idx[t] <= ThreadsCount
  /\ idx' = [idx EXCEPT ![t] = @ + 1]
  /\ UNCHANGED <<freeWorkersCount, workerRunning, run, msg, work, pc, cur,
                 todo, ran>>

(* compare_exchange_weak fails on a claimed worker, and may fail on a free *)
(* one for no reason.                                                      *)
SkipWorker(t) ==
  /\ pc[t] = "scan"
  /\ idx[t] < ThreadsCount
  /\ idx' = [idx EXCEPT ![t] = @ + 1]
  /\ UNCHANGED <<freeWorkersCount, workerRunning, run, msg, work, pc, cur,
                 todo, ran>>

\* Mutant: a failed scan starts over instead of giving up.
ScanAgain(t) ==
  /\ pc[t] = "scan"
  /\ idx[t] = ThreadsCount
  /\ idx' = [idx EXCEPT ![t] = 0]
  /\ UNCHANGED <<freeWorkersCount, workerRunning, run, msg, work, pc, cur,
                 todo, ran>>

ScanFailed(t) ==
  /\ pc[t] = "scan"
  /\ idx[t] = ThreadsCount
  /\ Goto(t, "inline")
  /\ UNCHANGED <<freeWorkersCount, workerRunning, run, msg, work, idx, cur,
                 todo, ran>>

\* Mutant: the decrement is forgotten.
DecrementForgotten(t) ==
  /\ pc[t] = "decrement"
  /\ Goto(t, "notify")
  /\ UNCHANGED <<freeWorkersCount, workerRunning, run, msg, work, idx, cur,
                 todo, ran>>

Decrement(t) ==
  /\ pc[t] = "decrement"
  /\ freeWorkersCount' = freeWorkersCount - 1
  /\ Goto(t, "notify")
  /\ UNCHANGED <<workerRunning, run, msg, work, idx, cur, todo, ran>>

\* Mutant: notify() stores the message and signals nobody.
WakeNobody(t, place, w) == pc' = [pc EXCEPT ![t] = place]

(* notify_one wakes the worker if it is inside c.wait, and does nothing to *)
(* a worker that is not.                                                   *)
WakeAfter(t, place, w) ==
  pc' = [pc EXCEPT ![t] = place,
                   ![w] = IF @ = "sleep" THEN "awake" ELSE @]

NotifyJob(t) ==
  /\ pc[t] = "notify"
  /\ msg' = [msg EXCEPT ![idx[t]] = cur[t]]
  /\ WakeAfter(t, "exec", idx[t])
  /\ UNCHANGED <<freeWorkersCount, workerRunning, run, work, idx, cur, todo,
                 ran>>

RunInline(t) ==
  /\ pc[t] = "inline"
  /\ Start(t, cur[t])
  /\ Goto(t, "exec")
  /\ UNCHANGED <<freeWorkersCount, workerRunning, run, msg, work, idx, cur>>

-----------------------------------------------------------------------------
(* workerThread() and the wait() it blocks in.                             *)

CheckRun(w) ==
  /\ pc[w] = "check"
  /\ Goto(w, IF run[w] THEN "wait" ELSE "exited")
  /\ UNCHANGED <<freeWorkersCount, workerRunning, run, msg, work, idx, cur,
                 todo, ran>>

\* Mutant: wait() does not clear the mailbox, and returns what it finds there.
EnterWaitKeepsMessage(w) ==
  /\ pc[w] = "wait"
  /\ Goto(w, IF msg[w] = Null THEN "sleep" ELSE "awake")
  /\ UNCHANGED <<freeWorkersCount, workerRunning, run, msg, work, idx, cur,
                 todo, ran>>

(* wait() clears the mailbox before it looks at it, then sleeps.           *)
EnterWait(w) ==
  /\ pc[w] = "wait"
  /\ msg' = [msg EXCEPT ![w] = Null]
  /\ Goto(w, "sleep")
  /\ UNCHANGED <<freeWorkersCount, workerRunning, run, work, idx, cur, todo,
                 ran>>

SpuriousWakeUp(w) ==
  /\ pc[w] = "sleep"
  /\ Goto(w, "awake")
  /\ UNCHANGED <<freeWorkersCount, workerRunning, run, msg, work, idx, cur,
                 todo, ran>>

SleepAgain(w) ==
  /\ pc[w] = "awake"
  /\ msg[w] = Null
  /\ Goto(w, "sleep")
  /\ UNCHANGED <<freeWorkersCount, workerRunning, run, msg, work, idx, cur,
                 todo, ran>>

TakeMessage(w) ==
  /\ pc[w] = "awake"
  /\ msg[w] # Null
  /\ work' = [work EXCEPT ![w] = msg[w]]
  /\ IF msg[w] \in Jobs THEN Start(w, msg[w]) ELSE UNCHANGED <<ran, todo>>
  /\ Goto(w, "exec")
  /\ UNCHANGED <<freeWorkersCount, workerRunning, run, msg, idx, cur>>

JobDone(w) ==
  /\ pc[w] = "exec"
  /\ todo[w] = <<>>
  /\ Goto(w, "increment")
  /\ UNCHANGED <<freeWorkersCount, workerRunning, run, msg, work, idx, cur,
                 todo, ran>>

Increment(w) ==
  /\ pc[w] = "increment"
  /\ freeWorkersCount' = freeWorkersCount + 1
  /\ Goto(w, "clear")
  /\ UNCHANGED <<workerRunning, run, msg, work, idx, cur, todo, ran>>

ClearRunning(w) ==
  /\ pc[w] = "clear"
  /\ workerRunning' = [workerRunning EXCEPT ![w] = FALSE]
  /\ Goto(w, "check")
  /\ UNCHANGED <<freeWorkersCount, run, msg, work, idx, cur, todo, ran>>

-----------------------------------------------------------------------------
(* A caller's own code, and shutdown().                                    *)

CallerDone(c) ==
  /\ c # Owner
  /\ pc[c] = "exec"
  /\ todo[c] = <<>>
  /\ Goto(c, "done")
  /\ UNCHANGED <<freeWorkersCount, workerRunning, run, msg, work, idx, cur,
                 todo, ran>>

(* The owner shuts the pool down when no other thread outside it is still   *)
(* scheduling; a careful owner (WaitForJobs) first waits for its jobs.      *)
BeginShutdown(c) ==
  /\ c = Owner
  /\ pc[c] = "exec"
  /\ todo[c] = <<>>
  /\ \A d \in Callers \ {Owner} : pc[d] = "done"
  /\ WaitForJobs => \A j \in Jobs : ran[j] > 0
  /\ idx' = [idx EXCEPT ![c] = 0]
  /\ Goto(c, "stop")
  /\ UNCHANGED <<freeWorkersCount, workerRunning, run, msg, work, cur, todo,
                 ran>>

StopWorker(c) ==
  /\ pc[c] = "stop"
  /\ idx[c] < ThreadsCount
  /\ run' = [run EXCEPT ![idx[c]] = FALSE]
  /\ Goto(c, "stopNotify")
  /\ UNCHANGED <<freeWorkersCount, workerRunning, msg, work, idx, cur, todo,
                 ran>>

NotifyEmpty(c) ==
  /\ pc[c] = "stopNotify"
  /\ msg' = [msg EXCEPT ![idx[c]] = Empty]
  /\ WakeAfter(c, "stopJoin", idx[c])
  /\ UNCHANGED <<freeWorkersCount, workerRunning, run, work, idx, cur, todo,
                 ran>>

\* Mutant: the worker is left to itself (detach instead of join).
Detach(c) ==
  /\ pc[c] = "stopJoin"
  /\ idx' = [idx EXCEPT ![c] = @ + 1]
  /\ Goto(c, "stop")
  /\ UNCHANGED <<freeWorkersCount, workerRunning, run, msg, work, cur, todo,
                 ran>>

Join(c) ==
  /\ pc[c] = "stopJoin"
  /\ pc[idx[c]] = "exited"
  /\ idx' = [idx EXCEPT ![c] = @ + 1]
  /\ Goto(c, "stop")
  /\ UNCHANGED <<freeWorkersCount, workerRunning, run, msg, work, cur, todo,
                 ran>>

(* delete [] workerRunning *)
DeleteWorkers(c) ==
  /\ pc[c] = "stop"
  /\ idx[c] = ThreadsCount
  /\ Goto(c, "done")
  /\ UNCHANGED <<freeWorkersCount, workerRunning, run, msg, work, idx, cur,
                 todo, ran>>

-----------------------------------------------------------------------------
ScheduleStep(t) ==
  \/ Schedule(t) \/ ReadCount(t) \/ Claim(t) \/ SkipWorker(t)
  \/ ScanFailed(t) \/ Decrement(t) \/ NotifyJob(t) \/ RunInline(t)

WorkerStep(w) ==
  \/ ScheduleStep(w)
  \/ CheckRun(w) \/ EnterWait(w) \/ SleepAgain(w) \/ TakeMessage(w)
  \/ JobDone(w) \/ Increment(w) \/ ClearRunning(w)

CallerStep(c) ==
  \/ ScheduleStep(c)
  \/ CallerDone(c) \/ BeginShutdown(c) \/ StopWorker(c) \/ NotifyEmpty(c)
  \/ Join(c) \/ DeleteWorkers(c)

Next ==
  \/ \E w \in Workers : WorkerStep(w) \/ SpuriousWakeUp(w)
  \/ \E c \in Callers : CallerStep(c)

Spec == Init /\ [][Next]_vars

(* Every thread that can take a step eventually does: the operating system *)
(* schedules every runnable thread.  A spurious wake-up is never owed.     *)
Fairness ==
  /\ \A w \in Workers : WF_vars(WorkerStep(w))
  /\ \A c \in Callers : WF_vars(CallerStep(c))

FairSpec == Spec /\ Fairness
-----------------------------------------------------------------------------
(***************************************************************************)
(* Properties.                                                             *)
(***************************************************************************)

(* Type correctness; the scan and the shutdown loop never index past the   *)
(* worker array.                                                           *)
TypeOK ==
  /\ freeWorkersCount \in Int
  /\ workerRunning \in [Workers -> BOOLEAN]
  /\ run \in [Workers -> BOOLEAN]
  /\ msg \in [Workers -> Messages]
  /\ work \in [Workers -> Messages]
  /\ pc \in [Threads -> CallerPlace \cup WorkerPlace]
  /\ idx \in [Threads -> 0 .. ThreadsCount]
  /\ cur \in [Threads -> Jobs \cup {Null}]
  /\ todo \in [Threads -> Seq(Jobs)]
  /\ ran \in [Jobs -> Nat]

(* A job passed to schedule() once is never started twice: not by a worker  *)
(* that finds the message of its previous wait() still in its mailbox, not  *)
(* by a second worker, not inline after it was handed over.                 *)
AtMostOnce == \A j \in Jobs : ran[j] <= 1

Holds(t, w) == pc[t] \in {"decrement", "notify"} /\ idx[t] = w
Busy(w)     == /\ pc[w] \in {"exec", "increment", "clear"} \cup Scheduling
               /\ work[w] \in Jobs
Pending(w)  == pc[w] \in {"sleep", "awake"} /\ msg[w] \in Jobs

(* Until shutdown() stops it, a worker is claimed by one thread at a time;  *)
(* a thread that has claimed a worker is about to hand its job to a worker  *)
(* that is neither running a job nor about to take one, so that notify()    *)
(* overwrites no job; and a worker that has a job is marked as running.     *)
ClaimIsExclusive ==
  \A w \in Workers : run[w] =>
    /\ \A t \in Threads : Holds(t, w) => ~Busy(w) /\ ~Pending(w)
    /\ \A t, u \in Threads : Holds(t, w) /\ Holds(u, w) => t = u
    /\ (Busy(w) \/ Pending(w) \/ \E t \in Threads : Holds(t, w))
          => workerRunning[w]

(* Until shutdown() starts, the counter is the number of unclaimed workers  *)
(* but for the threads between their two updates: the fast path taken when  *)
(* it reads 0 is taken only if every worker is claimed.                     *)
CountAccounting ==
  (\A w \in Workers : run[w]) =>
    freeWorkersCount = Cardinality({w \in Workers : ~workerRunning[w]})
                       + Cardinality({t \in Threads : pc[t] = "decrement"})
                       + Cardinality({w \in Workers : pc[w] = "clear"})

(* When shutdown() deletes the flags, every worker has left its loop: no    *)
(* job is still running, and none will touch a flag again.                  *)
NoUseAfterDelete ==
  pc[Owner] = "done" => \A w \in Workers : pc[w] = "exited"

(* schedule() never waits for a worker: every caller gets through all the   *)
(* jobs it schedules, whatever became of the workers.                       *)
CallersFinish ==
  \A c \in Callers : <>(todo[c] = <<>> /\ pc[c] \notin Scheduling)

(* A job that reaches the mailbox of a worker asleep in wait() is run by    *)
(* that worker, unless shutdown() replaces the message first.               *)
SleeperRunsItsJob ==
  \A w \in Workers, j \in Jobs :
    (pc[w] = "sleep" /\ msg[w] = j) \/ (pc[w] = "awake" /\ msg[w] = j)
      ~> (ran[j] > 0 \/ ~run[w])

(* The scheduler test calls shutdown() after its jobs are done and goes on. *)
ShutdownReturns == (pc[Owner] = "stop") ~> (pc[Owner] = "done")
=============================================================================

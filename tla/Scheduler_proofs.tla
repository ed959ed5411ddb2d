--------------------------- MODULE Scheduler_proofs ---------------------------
(***************************************************************************)
(* Proofs about Scheduler, for every number of workers, every set of       *)
(* callers and every assignment of jobs to them.                           *)
(***************************************************************************)
EXTENDS Scheduler, FiniteSetTheorems, TLAPS

RunPlace == {"exec", "increment", "clear"} \cup Scheduling

(* What a thread's place says of its loop variable and its job. *)
PlaceOK ==
  /\ \A t \in Threads : pc[t] \in Scheduling => cur[t] \in Jobs
  /\ \A t \in Threads : pc[t] \in {"decrement", "notify"} => idx[t] \in Workers
  /\ \A c \in Callers : pc[c] \in {"stopNotify", "stopJoin"} =>
                          idx[c] \in Workers /\ ~run[idx[c]]

(* Only a worker that shutdown() has stopped sees the empty message. *)
MailOK ==
  \A w \in Workers : run[w] => /\ msg[w] # Empty
                               /\ pc[w] \in RunPlace => work[w] \in Jobs

IInv == TypeOK /\ PlaceOK /\ MailOK /\ ClaimIsExclusive

LEMMA ThreadFacts ==
  /\ Workers \subseteq Threads
  /\ Callers \subseteq Threads
  /\ \A i \in 0 .. ThreadsCount : i < ThreadsCount => i \in Workers
  /\ \A i \in Workers : i \in 0 .. ThreadsCount /\ i + 1 \in 0 .. ThreadsCount
  /\ 0 \in 0 .. ThreadsCount
  BY CountAssumption DEF Threads, Workers

THEOREM InitInv == Init => IInv
<1> SUFFICES ASSUME Init PROVE IInv
  OBVIOUS
<1>1. TypeOK
  <2>1. pc \in [Threads -> CallerPlace \cup WorkerPlace]
    BY DEF Init, CallerPlace, WorkerPlace
  <2>2. todo \in [Threads -> Seq(Jobs)]
    BY JobAssumption DEF Init
  <2>3. QED
    BY <2>1, <2>2, CountAssumption, ThreadFacts DEF Init, TypeOK, Messages
<1>2. PlaceOK
  BY ThreadFacts DEF Init, PlaceOK, Scheduling
<1>3. MailOK
  BY ThreadFacts, JobAssumption DEF Init, MailOK, RunPlace, Scheduling
<1>4. ClaimIsExclusive
  BY ThreadFacts, JobAssumption
  DEF Init, ClaimIsExclusive, Holds, Busy, Pending, Scheduling
<1>5. QED
  BY <1>1, <1>2, <1>3, <1>4 DEF IInv

(***************************************************************************)
(* schedule(), on whichever thread it runs.                                *)
(***************************************************************************)
LEMMA ScheduleType ==
  ASSUME IInv, NEW t \in Threads, ScheduleStep(t)
  PROVE  TypeOK'
<1> USE DEF IInv, TypeOK, Goto, CallerPlace, WorkerPlace, Scheduling, Stopping
<1>1. CASE Schedule(t)
  BY <1>1 DEF Schedule
<1>2. CASE ReadCount(t)
  BY <1>2, ThreadFacts DEF ReadCount
<1>3. CASE Claim(t)
  BY <1>3 DEF Claim
<1>4. CASE SkipWorker(t)
  <2>1. idx[t] \in 0 .. ThreadsCount /\ idx[t] < ThreadsCount
    BY <1>4 DEF SkipWorker
  <2>2. idx[t] + 1 \in 0 .. ThreadsCount
    BY <2>1, CountAssumption
  <2>3. QED
    BY <1>4, <2>2 DEF SkipWorker
<1>5. CASE ScanFailed(t)
  BY <1>5 DEF ScanFailed
<1>6. CASE Decrement(t)
  BY <1>6 DEF Decrement
<1>7. CASE NotifyJob(t)
  BY <1>7, JobAssumption DEF NotifyJob, WakeAfter, Messages
<1>8. CASE RunInline(t)
  <2>1. cur[t] \in Jobs
    BY <1>8 DEF RunInline, PlaceOK
  <2>2. Spawns[cur[t]] \o todo[t] \in Seq(Jobs)
    BY <2>1, JobAssumption
  <2>3. ran[cur[t]] + 1 \in Nat
    BY <2>1
  <2>4. QED
    BY <1>8, <2>1, <2>2, <2>3 DEF RunInline, Start
<1>9. QED
  BY <1>1, <1>2, <1>3, <1>4, <1>5, <1>6, <1>7, <1>8 DEF ScheduleStep

LEMMA ScheduleMail ==
  ASSUME IInv, NEW t \in Threads, ScheduleStep(t)
  PROVE  PlaceOK' /\ MailOK'
<1> USE DEF IInv, TypeOK, PlaceOK, MailOK, Goto, RunPlace, Scheduling
<1>1. CASE Schedule(t)
  <2>1. Head(todo[t]) \in Jobs
    BY <1>1 DEF Schedule
  <2>2. QED
    BY <1>1, <2>1, ThreadFacts DEF Schedule
<1>2. CASE ReadCount(t)
  BY <1>2, ThreadFacts DEF ReadCount
<1>3. CASE Claim(t)
  BY <1>3, ThreadFacts DEF Claim
<1>4. CASE SkipWorker(t)
  BY <1>4, ThreadFacts DEF SkipWorker
<1>5. CASE ScanFailed(t)
  BY <1>5, ThreadFacts DEF ScanFailed
<1>6. CASE Decrement(t)
  BY <1>6, ThreadFacts DEF Decrement
<1>7. CASE NotifyJob(t)
  BY <1>7, ThreadFacts, JobAssumption DEF NotifyJob, WakeAfter
<1>8. CASE RunInline(t)
  BY <1>8, ThreadFacts DEF RunInline, Start
<1>9. QED
  BY <1>1, <1>2, <1>3, <1>4, <1>5, <1>6, <1>7, <1>8 DEF ScheduleStep

(* A step that claims nothing and gives no worker anything to do, and       *)
(* clears no flag, keeps the claims exclusive.                             *)
LEMMA ClaimFrame ==
  ASSUME ClaimIsExclusive,
         UNCHANGED <<run, workerRunning>>,
         \A t \in Threads, w \in Workers : Holds(t, w)' => Holds(t, w),
         \A w \in Workers : Busy(w)' \/ Pending(w)' => Busy(w) \/ Pending(w)
  PROVE  ClaimIsExclusive'
BY DEF ClaimIsExclusive

LEMMA ScheduleClaim ==
  ASSUME IInv, NEW t \in Threads, ScheduleStep(t)
  PROVE  ClaimIsExclusive'
<1> USE DEF IInv, TypeOK, ClaimIsExclusive, Holds, Busy, Pending, Goto,
            Scheduling
<1>1. CASE Schedule(t)
  BY <1>1, ThreadFacts DEF Schedule
<1>2. CASE ReadCount(t)
  BY <1>2, ThreadFacts DEF ReadCount
<1>3. CASE Claim(t)
  BY <1>3, ThreadFacts DEF Claim
<1>4. CASE SkipWorker(t)
  <2>1. UNCHANGED <<run, workerRunning>>
    BY <1>4 DEF SkipWorker
  <2>2. \A u \in Threads, w \in Workers : Holds(u, w)' => Holds(u, w)
    BY <1>4, ThreadFacts DEF SkipWorker
  <2>3. \A w \in Workers : Busy(w)' \/ Pending(w)' => Busy(w) \/ Pending(w)
    BY <1>4, ThreadFacts DEF SkipWorker
  <2>4. ClaimIsExclusive
    OBVIOUS
  <2> HIDE DEF IInv, ClaimIsExclusive, Holds, Busy, Pending
  <2>5. QED
    BY <2>1, <2>2, <2>3, <2>4, ClaimFrame
<1>5. CASE ScanFailed(t)
  BY <1>5, ThreadFacts DEF ScanFailed
<1>6. CASE Decrement(t)
  BY <1>6, ThreadFacts DEF Decrement
<1>7. CASE NotifyJob(t)
  BY <1>7, ThreadFacts DEF NotifyJob, WakeAfter
<1>8. CASE RunInline(t)
  BY <1>8, ThreadFacts DEF RunInline, Start
<1>9. QED
  BY <1>1, <1>2, <1>3, <1>4, <1>5, <1>6, <1>7, <1>8 DEF ScheduleStep

(***************************************************************************)
(* workerThread().                                                         *)
(***************************************************************************)
LEMMA WorkerType ==
  ASSUME IInv, NEW w \in Workers, WorkerStep(w) \/ SpuriousWakeUp(w), ~ScheduleStep(w)
  PROVE  TypeOK'
<1> USE DEF IInv, TypeOK, Goto, CallerPlace, WorkerPlace, Scheduling, Stopping
<1>1. CASE CheckRun(w)
  BY <1>1, ThreadFacts, JobAssumption DEF CheckRun
<1>2. CASE EnterWait(w)
  BY <1>2, ThreadFacts, JobAssumption DEF EnterWait, Messages
<1>3. CASE SleepAgain(w)
  BY <1>3, ThreadFacts, JobAssumption DEF SleepAgain
<1>4. CASE SpuriousWakeUp(w)
  BY <1>4, ThreadFacts, JobAssumption DEF SpuriousWakeUp
<1>5. CASE TakeMessage(w)
  <2>1. CASE msg[w] \in Jobs
    <3>1. Spawns[msg[w]] \o todo[w] \in Seq(Jobs)
      BY <2>1, ThreadFacts, JobAssumption
    <3>2. ran[msg[w]] + 1 \in Nat
      BY <2>1
    <3>3. QED
      BY <1>5, <2>1, <3>1, <3>2, ThreadFacts DEF TakeMessage, Start
  <2>2. CASE msg[w] \notin Jobs
    BY <1>5, <2>2, ThreadFacts DEF TakeMessage
  <2>3. QED
    BY <2>1, <2>2
<1>6. CASE JobDone(w)
  BY <1>6, ThreadFacts, JobAssumption DEF JobDone
<1>7. CASE Increment(w)
  BY <1>7, ThreadFacts, JobAssumption DEF Increment
<1>8. CASE ClearRunning(w)
  BY <1>8, ThreadFacts, JobAssumption DEF ClearRunning
<1>9. QED
  BY <1>1, <1>2, <1>3, <1>4, <1>5, <1>6, <1>7, <1>8 DEF WorkerStep

LEMMA WorkerMail ==
  ASSUME IInv, NEW w \in Workers, WorkerStep(w) \/ SpuriousWakeUp(w), ~ScheduleStep(w)
  PROVE  PlaceOK' /\ MailOK'
<1> USE DEF IInv, TypeOK, PlaceOK, MailOK, Goto, RunPlace, Scheduling
<1>1. CASE CheckRun(w)
  BY <1>1, ThreadFacts, JobAssumption DEF CheckRun
<1>2. CASE EnterWait(w)
  BY <1>2, ThreadFacts, JobAssumption DEF EnterWait
<1>3. CASE SleepAgain(w)
  BY <1>3, ThreadFacts, JobAssumption DEF SleepAgain
<1>4. CASE SpuriousWakeUp(w)
  BY <1>4, ThreadFacts, JobAssumption DEF SpuriousWakeUp
<1>5. CASE TakeMessage(w)
  <2>1. run[w] => msg[w] \in Jobs
    BY <1>5 DEF TakeMessage, Messages
  <2>2. QED
    BY <1>5, <2>1, ThreadFacts DEF TakeMessage, Start
<1>6. CASE JobDone(w)
  BY <1>6, ThreadFacts, JobAssumption DEF JobDone
<1>7. CASE Increment(w)
  BY <1>7, ThreadFacts, JobAssumption DEF Increment
<1>8. CASE ClearRunning(w)
  BY <1>8, ThreadFacts, JobAssumption DEF ClearRunning
<1>9. QED
  BY <1>1, <1>2, <1>3, <1>4, <1>5, <1>6, <1>7, <1>8 DEF WorkerStep

LEMMA WorkerClaim ==
  ASSUME IInv, NEW w \in Workers, WorkerStep(w) \/ SpuriousWakeUp(w), ~ScheduleStep(w)
  PROVE  ClaimIsExclusive'
<1> USE DEF IInv, TypeOK, ClaimIsExclusive, Holds, Busy, Pending, Goto,
            Scheduling
<1>1. CASE CheckRun(w)
  BY <1>1, ThreadFacts, JobAssumption DEF CheckRun
<1>2. CASE EnterWait(w)
  BY <1>2, ThreadFacts, JobAssumption DEF EnterWait
<1>3. CASE SleepAgain(w)
  BY <1>3, ThreadFacts, JobAssumption DEF SleepAgain
<1>4. CASE SpuriousWakeUp(w)
  BY <1>4, ThreadFacts, JobAssumption DEF SpuriousWakeUp
<1>5. CASE TakeMessage(w)
  <2>1. /\ pc[w] = "awake" /\ pc' = [pc EXCEPT ![w] = "exec"]
        /\ work' = [work EXCEPT ![w] = msg[w]]
        /\ UNCHANGED <<workerRunning, run, msg, idx>>
    BY <1>5 DEF TakeMessage
  <2>2. \A t \in Threads, v \in Workers : Holds(t, v)' <=> Holds(t, v)
    BY <2>1, ThreadFacts
  <2>3. \A v \in Workers : v # w => /\ Busy(v)' <=> Busy(v)
                                   /\ Pending(v)' <=> Pending(v)
    BY <2>1, ThreadFacts
  <2>4. ~Pending(w)' /\ (Busy(w)' => Pending(w))
    BY <2>1, ThreadFacts
  <2>5. QED
    BY <2>1, <2>2, <2>3, <2>4, ClaimFrame
<1>6. CASE JobDone(w)
  BY <1>6, ThreadFacts, JobAssumption DEF JobDone
<1>7. CASE Increment(w)
  BY <1>7, ThreadFacts, JobAssumption DEF Increment
<1>8. CASE ClearRunning(w)
  BY <1>8, ThreadFacts, JobAssumption DEF ClearRunning, MailOK, RunPlace
<1>9. QED
  BY <1>1, <1>2, <1>3, <1>4, <1>5, <1>6, <1>7, <1>8 DEF WorkerStep

(***************************************************************************)
(* A caller's own code, and shutdown().                                    *)
(***************************************************************************)
LEMMA CallerType ==
  ASSUME IInv, NEW c \in Callers, CallerStep(c), ~ScheduleStep(c)
  PROVE  TypeOK'
<1> USE DEF IInv, TypeOK, Goto, CallerPlace, WorkerPlace, Scheduling, Stopping
<1>1. CASE CallerDone(c)
  BY <1>1, ThreadFacts, JobAssumption DEF CallerDone
<1>2. CASE BeginShutdown(c)
  BY <1>2, ThreadFacts, JobAssumption DEF BeginShutdown
<1>3. CASE StopWorker(c)
  BY <1>3, ThreadFacts, JobAssumption DEF StopWorker
<1>4. CASE NotifyEmpty(c)
  <2>1. msg' \in [Workers -> Messages]
    BY <1>4 DEF NotifyEmpty, Messages
  <2>2. pc' \in [Threads -> CallerPlace \cup WorkerPlace]
    BY <1>4 DEF NotifyEmpty, WakeAfter
  <2>3. QED
    BY <1>4, <2>1, <2>2 DEF NotifyEmpty
<1>5. CASE Join(c)
  <2>1. idx[c] + 1 \in 0 .. ThreadsCount
    BY <1>5, ThreadFacts DEF Join, PlaceOK
  <2>2. QED
    BY <1>5, <2>1, ThreadFacts DEF Join
<1>6. CASE DeleteWorkers(c)
  BY <1>6, ThreadFacts, JobAssumption DEF DeleteWorkers
<1>7. QED
  BY <1>1, <1>2, <1>3, <1>4, <1>5, <1>6 DEF CallerStep

LEMMA CallerMail ==
  ASSUME IInv, NEW c \in Callers, CallerStep(c), ~ScheduleStep(c)
  PROVE  PlaceOK' /\ MailOK'
<1> USE DEF IInv, TypeOK, PlaceOK, MailOK, Goto, RunPlace, Scheduling
<1>1. CASE CallerDone(c)
  BY <1>1, ThreadFacts, JobAssumption DEF CallerDone
<1>2. CASE BeginShutdown(c)
  BY <1>2, ThreadFacts, JobAssumption DEF BeginShutdown
<1>3. CASE StopWorker(c)
  BY <1>3, ThreadFacts, JobAssumption DEF StopWorker
<1>4. CASE NotifyEmpty(c)
  BY <1>4, ThreadFacts, JobAssumption DEF NotifyEmpty, WakeAfter
<1>5. CASE Join(c)
  BY <1>5, ThreadFacts, JobAssumption DEF Join
<1>6. CASE DeleteWorkers(c)
  BY <1>6, ThreadFacts, JobAssumption DEF DeleteWorkers
<1>7. QED
  BY <1>1, <1>2, <1>3, <1>4, <1>5, <1>6 DEF CallerStep

LEMMA CallerClaim ==
  ASSUME IInv, NEW c \in Callers, CallerStep(c), ~ScheduleStep(c)
  PROVE  ClaimIsExclusive'
<1> USE DEF IInv, TypeOK, ClaimIsExclusive, Holds, Busy, Pending, Goto,
            Scheduling
<1>1. CASE CallerDone(c)
  BY <1>1, ThreadFacts, JobAssumption DEF CallerDone
<1>2. CASE BeginShutdown(c)
  BY <1>2, ThreadFacts, JobAssumption DEF BeginShutdown
<1>3. CASE StopWorker(c)
  BY <1>3, ThreadFacts, JobAssumption DEF StopWorker
<1>4. CASE NotifyEmpty(c)
  <2>1. idx[c] \in Workers /\ ~run[idx[c]]
    BY <1>4 DEF NotifyEmpty, PlaceOK
  <2>2. \A w \in Workers : run[w] =>
            msg'[w] = msg[w] /\ (Pending(w)' <=> Pending(w))
    BY <1>4, <2>1, ThreadFacts DEF NotifyEmpty, WakeAfter
  <2>3. \A w \in Workers : run[w] => (Busy(w)' <=> Busy(w))
    BY <1>4, ThreadFacts DEF NotifyEmpty, WakeAfter
  <2>4. \A t \in Threads, w \in Workers : Holds(t, w)' <=> Holds(t, w)
    BY <1>4, <2>1, ThreadFacts DEF NotifyEmpty, WakeAfter
  <2>5. run' = run /\ workerRunning' = workerRunning
    BY <1>4 DEF NotifyEmpty
  <2>6. QED
    BY <2>2, <2>3, <2>4, <2>5
<1>5. CASE Join(c)
  BY <1>5, ThreadFacts, JobAssumption DEF Join
<1>6. CASE DeleteWorkers(c)
  BY <1>6, ThreadFacts, JobAssumption DEF DeleteWorkers
<1>7. QED
  BY <1>1, <1>2, <1>3, <1>4, <1>5, <1>6 DEF CallerStep

(***************************************************************************)
(* The invariant is inductive.                                             *)
(***************************************************************************)
LEMMA StutterInv ==
  ASSUME IInv, UNCHANGED vars
  PROVE  IInv'
  BY DEF IInv, TypeOK, PlaceOK, MailOK, ClaimIsExclusive, Holds, Busy,
         Pending, vars

THEOREM NextInv ==
  ASSUME IInv, [Next]_vars
  PROVE  IInv'
<1>1. CASE UNCHANGED vars
  BY <1>1, StutterInv
<1>2. ASSUME NEW t \in Threads, ScheduleStep(t)
      PROVE  IInv'
  BY <1>2, ScheduleType, ScheduleMail, ScheduleClaim DEF IInv
<1>3. ASSUME NEW w \in Workers, WorkerStep(w) \/ SpuriousWakeUp(w),
             ~ScheduleStep(w)
      PROVE  IInv'
  BY <1>3, WorkerType, WorkerMail, WorkerClaim DEF IInv
<1>4. ASSUME NEW c \in Callers, CallerStep(c), ~ScheduleStep(c)
      PROVE  IInv'
  BY <1>4, CallerType, CallerMail, CallerClaim DEF IInv
<1>5. QED
  BY <1>1, <1>2, <1>3, <1>4, ThreadFacts DEF Next

(* Every reachable state is well typed: no loop of the scheduler leaves its *)
(* array, no thread passes on anything but a job.                          *)
THEOREM TypeCorrect == Spec => []TypeOK
<1>1. IInv => TypeOK
  BY DEF IInv
<1>2. QED
  BY <1>1, InitInv, NextInv, PTL DEF Spec

(* Whatever the number of workers and callers, a worker that shutdown() has *)
(* not stopped is claimed by one thread at a time, and notify() overwrites  *)
(* no job (lines 117-144 and 63-76 of scheduler.hpp).                       *)
THEOREM ClaimCorrect == Spec => []ClaimIsExclusive
<1>1. IInv => ClaimIsExclusive
  BY DEF IInv
<1>2. QED
  BY <1>1, InitInv, NextInv, PTL DEF Spec

(***************************************************************************)
(* The counter.  CountAccounting is kept by every step, given IInv.        *)
(***************************************************************************)
Unclaimed    == {w \in Workers : ~workerRunning[w]}
Decrementing == {t \in Threads : pc[t] = "decrement"}
Clearing     == {w \in Workers : pc[w] = "clear"}

LEMMA CountSets ==
  /\ IsFiniteSet(Unclaimed) /\ Cardinality(Unclaimed) \in Nat
  /\ IsFiniteSet(Decrementing) /\ Cardinality(Decrementing) \in Nat
  /\ IsFiniteSet(Clearing) /\ Cardinality(Clearing) \in Nat
<1>1. IsFiniteSet(Workers)
  BY FS_Interval, CountAssumption DEF Workers
<1>2. IsFiniteSet(Threads)
  BY <1>1, FiniteAssumption, FS_Union DEF Threads
<1>3. IsFiniteSet(Unclaimed) /\ IsFiniteSet(Decrementing) /\ IsFiniteSet(Clearing)
  BY <1>1, <1>2, FS_Subset DEF Unclaimed, Decrementing, Clearing
<1>4. QED
  BY <1>3, FS_CardinalityType

LEMMA CountMeaning ==
  CountAccounting <=>
    ((\A w \in Workers : run[w]) =>
       freeWorkersCount = Cardinality(Unclaimed) + Cardinality(Decrementing)
                          + Cardinality(Clearing))
BY DEF CountAccounting, Unclaimed, Decrementing, Clearing

LEMMA CountMeaningNext ==
  CountAccounting' <=>
    ((\A w \in Workers : run'[w]) =>
       freeWorkersCount' = Cardinality(Unclaimed') + Cardinality(Decrementing')
                           + Cardinality(Clearing'))
BY DEF CountAccounting, Unclaimed, Decrementing, Clearing

(* A step after which the same threads are between their two updates.      *)
LEMMA CountFrame ==
  ASSUME CountAccounting, \A w \in Workers : run'[w] => run[w],
         UNCHANGED <<freeWorkersCount, workerRunning>>,
         \A t \in Threads : pc'[t] = "decrement" <=> pc[t] = "decrement",
         \A w \in Workers : pc'[w] = "clear" <=> pc[w] = "clear"
  PROVE  CountAccounting'
<1>1. Unclaimed' = Unclaimed /\ Decrementing' = Decrementing /\ Clearing' = Clearing
  BY DEF Unclaimed, Decrementing, Clearing
<1>2. QED
  BY <1>1, CountMeaning, CountMeaningNext

LEMMA ScheduleCount ==
  ASSUME IInv, CountAccounting, NEW t \in Threads, ScheduleStep(t)
  PROVE  CountAccounting'
<1> USE DEF Goto
<1>0. pc \in [Threads -> CallerPlace \cup WorkerPlace] /\ freeWorkersCount \in Int
      /\ workerRunning \in [Workers -> BOOLEAN] /\ Workers \subseteq Threads
  BY ThreadFacts DEF IInv, TypeOK
<1>1. CASE Schedule(t)
  BY <1>0, <1>1, CountFrame DEF Schedule
<1>2. CASE ReadCount(t)
  BY <1>0, <1>2, CountFrame DEF ReadCount
<1>3. CASE Claim(t)
  <2>1. idx[t] \in Workers
    BY <1>3, ThreadFacts DEF Claim, IInv, TypeOK
  <2>2. /\ Unclaimed' = Unclaimed \ {idx[t]} /\ idx[t] \in Unclaimed
        /\ Decrementing' = Decrementing \cup {t} /\ t \notin Decrementing
        /\ Clearing' = Clearing
    BY <1>0, <1>3, <2>1 DEF Claim, Unclaimed, Decrementing, Clearing
  <2>3. /\ Cardinality(Unclaimed') = Cardinality(Unclaimed) - 1
        /\ Cardinality(Decrementing') = Cardinality(Decrementing) + 1
    BY <2>2, CountSets, FS_AddElement, FS_RemoveElement
  <2>4. UNCHANGED <<run, freeWorkersCount>>
    BY <1>3 DEF Claim
  <2>5. QED
    BY <1>0, <2>2, <2>3, <2>4, CountSets, CountMeaning, CountMeaningNext
<1>4. CASE SkipWorker(t)
  BY <1>0, <1>4, CountFrame DEF SkipWorker
<1>5. CASE ScanFailed(t)
  BY <1>0, <1>5, CountFrame DEF ScanFailed
<1>6. CASE Decrement(t)
  <2>1. /\ Unclaimed' = Unclaimed
        /\ Decrementing' = Decrementing \ {t} /\ t \in Decrementing
        /\ Clearing' = Clearing
    BY <1>0, <1>6 DEF Decrement, Unclaimed, Decrementing, Clearing
  <2>2. Cardinality(Decrementing') = Cardinality(Decrementing) - 1
    BY <2>1, CountSets, FS_RemoveElement
  <2>3. run' = run /\ freeWorkersCount' = freeWorkersCount - 1
    BY <1>6 DEF Decrement
  <2>4. QED
    BY <1>0, <2>1, <2>2, <2>3, CountSets, CountMeaning, CountMeaningNext
<1>7. CASE NotifyJob(t)
  BY <1>0, <1>7, CountFrame DEF NotifyJob, WakeAfter
<1>8. CASE RunInline(t)
  BY <1>0, <1>8, CountFrame DEF RunInline
<1>9. QED
  BY <1>1, <1>2, <1>3, <1>4, <1>5, <1>6, <1>7, <1>8 DEF ScheduleStep

LEMMA WorkerCount ==
  ASSUME IInv, CountAccounting, NEW w \in Workers,
         WorkerStep(w) \/ SpuriousWakeUp(w), ~ScheduleStep(w)
  PROVE  CountAccounting'
<1> USE DEF Goto
<1>0. pc \in [Threads -> CallerPlace \cup WorkerPlace] /\ freeWorkersCount \in Int
      /\ workerRunning \in [Workers -> BOOLEAN] /\ Workers \subseteq Threads
  BY ThreadFacts DEF IInv, TypeOK
<1>1. CASE CheckRun(w)
  BY <1>0, <1>1, CountFrame DEF CheckRun
<1>2. CASE EnterWait(w)
  BY <1>0, <1>2, CountFrame DEF EnterWait
<1>3. CASE SleepAgain(w)
  BY <1>0, <1>3, CountFrame DEF SleepAgain
<1>4. CASE SpuriousWakeUp(w)
  BY <1>0, <1>4, CountFrame DEF SpuriousWakeUp
<1>5. CASE TakeMessage(w)
  BY <1>0, <1>5, CountFrame DEF TakeMessage
<1>6. CASE JobDone(w)
  BY <1>0, <1>6, CountFrame DEF JobDone
<1>7. CASE Increment(w)
  <2>1. /\ Unclaimed' = Unclaimed /\ Decrementing' = Decrementing
        /\ Clearing' = Clearing \cup {w} /\ w \notin Clearing
    BY <1>0, <1>7 DEF Increment, Unclaimed, Decrementing, Clearing
  <2>2. Cardinality(Clearing') = Cardinality(Clearing) + 1
    BY <2>1, CountSets, FS_AddElement
  <2>3. run' = run /\ freeWorkersCount' = freeWorkersCount + 1
    BY <1>7 DEF Increment
  <2>4. QED
    BY <1>0, <2>1, <2>2, <2>3, CountSets, CountMeaning, CountMeaningNext
<1>8. CASE ClearRunning(w)
  <2>1. run[w] => workerRunning[w]
    BY <1>8 DEF ClearRunning, IInv, MailOK, RunPlace, ClaimIsExclusive, Busy
  <2>2. /\ Decrementing' = Decrementing
        /\ Clearing' = Clearing \ {w} /\ w \in Clearing
    BY <1>0, <1>8 DEF ClearRunning, Decrementing, Clearing
  <2>3. Unclaimed' = Unclaimed \cup {w} /\ (run[w] => w \notin Unclaimed)
    BY <1>0, <1>8, <2>1 DEF ClearRunning, Unclaimed
  <2>4. /\ Cardinality(Clearing') = Cardinality(Clearing) - 1
        /\ run[w] => Cardinality(Unclaimed') = Cardinality(Unclaimed) + 1
    BY <2>2, <2>3, CountSets, FS_AddElement, FS_RemoveElement
  <2>5. UNCHANGED <<run, freeWorkersCount>>
    BY <1>8 DEF ClearRunning
  <2>6. QED
    BY <1>0, <2>2, <2>4, <2>5, CountSets, CountMeaning, CountMeaningNext
<1>9. QED
  BY <1>1, <1>2, <1>3, <1>4, <1>5, <1>6, <1>7, <1>8 DEF WorkerStep

LEMMA CallerCount ==
  ASSUME IInv, CountAccounting, NEW c \in Callers, CallerStep(c), ~ScheduleStep(c)
  PROVE  CountAccounting'
<1> USE DEF Goto
<1>0. pc \in [Threads -> CallerPlace \cup WorkerPlace]
      /\ run \in [Workers -> BOOLEAN] /\ Workers \subseteq Threads
  BY ThreadFacts DEF IInv, TypeOK
<1>1. CASE CallerDone(c)
  BY <1>0, <1>1, CountFrame DEF CallerDone
<1>2. CASE BeginShutdown(c)
  BY <1>0, <1>2, CountFrame DEF BeginShutdown
<1>3. CASE StopWorker(c)
  BY <1>0, <1>3, CountFrame DEF StopWorker
<1>4. CASE NotifyEmpty(c)
  BY <1>0, <1>4, CountFrame DEF NotifyEmpty, WakeAfter
<1>5. CASE Join(c)
  BY <1>0, <1>5, CountFrame DEF Join
<1>6. CASE DeleteWorkers(c)
  BY <1>0, <1>6, CountFrame DEF DeleteWorkers
<1>7. QED
  BY <1>1, <1>2, <1>3, <1>4, <1>5, <1>6 DEF CallerStep

(* The counter is accounted for in every reachable state: between the two  *)
(* updates of a claim or of a release it is off by the threads that are    *)
(* between them, and by nothing else (scheduler.hpp lines 117-132, 72-75). *)
THEOREM CountCorrect == Spec => []CountAccounting
<1>1. Init => CountAccounting
  <2> SUFFICES ASSUME Init PROVE CountAccounting
    OBVIOUS
  <2>1. Unclaimed = Workers /\ Decrementing = {} /\ Clearing = {}
    BY ThreadFacts DEF Init, Unclaimed, Decrementing, Clearing
  <2>2. Cardinality(Workers) = ThreadsCount
    BY FS_Interval, CountAssumption DEF Workers
  <2>3. QED
    BY <2>1, <2>2, FS_EmptySet, CountMeaning, CountAssumption DEF Init
<1>2. ASSUME IInv, CountAccounting, [Next]_vars
      PROVE  CountAccounting'
  <2>1. CASE UNCHANGED vars
    BY <1>2, <2>1 DEF vars, CountAccounting
  <2>2. ASSUME NEW t \in Threads, ScheduleStep(t)
        PROVE  CountAccounting'
    BY <1>2, <2>2, ScheduleCount
  <2>3. ASSUME NEW w \in Workers, WorkerStep(w) \/ SpuriousWakeUp(w), ~ScheduleStep(w)
        PROVE  CountAccounting'
    BY <1>2, <2>3, WorkerCount
  <2>4. ASSUME NEW c \in Callers, CallerStep(c), ~ScheduleStep(c)
        PROVE  CountAccounting'
    BY <1>2, <2>4, CallerCount
  <2>5. QED
    BY <1>2, <2>1, <2>2, <2>3, <2>4, ThreadFacts DEF Next
<1>3. QED
  BY <1>1, <1>2, InitInv, NextInv, PTL DEF Spec

(***************************************************************************)
(* shutdown().  Only the owner is ever in it, and the workers it has       *)
(* joined stay where they are.                                             *)
(***************************************************************************)
StopOK ==
  /\ \A c \in Callers \ {Owner} : pc[c] \notin Stopping
  /\ pc[Owner] \in Stopping =>
       \A w \in Workers : w < idx[Owner] => pc[w] = "exited"
  /\ NoUseAfterDelete

(* A step that neither wakes the dead nor takes the owner into, through or *)
(* out of shutdown().                                                      *)
LEMMA StopFrame ==
  ASSUME StopOK,
         \A w \in Workers : pc[w] = "exited" => pc'[w] = "exited",
         \A c \in Callers : pc'[c] \in Stopping => pc[c] \in Stopping,
         pc'[Owner] = "done" => pc[Owner] = "done",
         pc'[Owner] \in Stopping => idx'[Owner] = idx[Owner]
  PROVE  StopOK'
BY CallerAssumption DEF StopOK, NoUseAfterDelete

LEMMA ScheduleMoves ==
  ASSUME IInv, NEW t \in Threads, ScheduleStep(t)
  PROVE  /\ pc[t] \in Scheduling \cup {"exec"}
         /\ pc'[t] \in Scheduling \cup {"exec"}
         /\ \A u \in Threads \ {t} : /\ idx'[u] = idx[u]
                                     /\ \/ pc'[u] = pc[u]
                                        \/ pc[u] = "sleep" /\ pc'[u] = "awake"
<1> USE ThreadFacts DEF Goto, Scheduling, IInv, TypeOK
<1>1. CASE Schedule(t)
  BY <1>1 DEF Schedule
<1>2. CASE ReadCount(t)
  BY <1>2 DEF ReadCount
<1>3. CASE Claim(t)
  BY <1>3 DEF Claim
<1>4. CASE SkipWorker(t)
  BY <1>4 DEF SkipWorker
<1>5. CASE ScanFailed(t)
  BY <1>5 DEF ScanFailed
<1>6. CASE Decrement(t)
  BY <1>6 DEF Decrement
<1>7. CASE NotifyJob(t)
  BY <1>7 DEF NotifyJob, WakeAfter
<1>8. CASE RunInline(t)
  BY <1>8 DEF RunInline
<1>9. QED
  BY <1>1, <1>2, <1>3, <1>4, <1>5, <1>6, <1>7, <1>8 DEF ScheduleStep

LEMMA WorkerMoves ==
  ASSUME IInv, NEW w \in Workers,
         WorkerStep(w) \/ SpuriousWakeUp(w), ~ScheduleStep(w)
  PROVE  /\ pc[w] # "exited"
         /\ idx' = idx
         /\ \A u \in Threads \ {w} : pc'[u] = pc[u]
<1> USE ThreadFacts DEF Goto, IInv, TypeOK
<1>1. CASE CheckRun(w)
  BY <1>1 DEF CheckRun
<1>2. CASE EnterWait(w)
  BY <1>2 DEF EnterWait
<1>3. CASE SleepAgain(w)
  BY <1>3 DEF SleepAgain
<1>4. CASE SpuriousWakeUp(w)
  BY <1>4 DEF SpuriousWakeUp
<1>5. CASE TakeMessage(w)
  BY <1>5 DEF TakeMessage
<1>6. CASE JobDone(w)
  BY <1>6 DEF JobDone
<1>7. CASE Increment(w)
  BY <1>7 DEF Increment
<1>8. CASE ClearRunning(w)
  BY <1>8 DEF ClearRunning
<1>9. QED
  BY <1>1, <1>2, <1>3, <1>4, <1>5, <1>6, <1>7, <1>8 DEF WorkerStep

LEMMA CallerStop ==
  ASSUME IInv, StopOK, NEW c \in Callers, CallerStep(c), ~ScheduleStep(c)
  PROVE  StopOK'
<1> USE ThreadFacts, CallerAssumption DEF Goto, IInv, TypeOK, Stopping
<1>0. c \in Threads /\ c \notin Workers /\ Owner \in Threads /\ Owner \notin Workers
  OBVIOUS
<1>1. CASE CallerDone(c)
  BY <1>0, <1>1, StopFrame DEF CallerDone
<1>2. CASE BeginShutdown(c)
  <2>1. idx'[Owner] = 0 /\ \A u \in Threads \ {Owner} : pc'[u] = pc[u]
    BY <1>0, <1>2 DEF BeginShutdown
  <2>2. \A w \in Workers : ~(w < 0)
    BY DEF Workers
  <2>3. pc'[Owner] = "stop"
    BY <1>0, <1>2 DEF BeginShutdown
  <2>4. QED
    BY <1>0, <2>1, <2>2, <2>3 DEF StopOK, NoUseAfterDelete
<1>3. CASE StopWorker(c)
  BY <1>0, <1>3, StopFrame DEF StopWorker
<1>4. CASE NotifyEmpty(c)
  BY <1>0, <1>4, StopFrame DEF NotifyEmpty, WakeAfter
<1>5. CASE Join(c)
  <2>1. c = Owner
    BY <1>5 DEF Join, StopOK
  <2>2. /\ pc[idx[Owner]] = "exited" /\ pc[Owner] = "stopJoin"
        /\ idx'[Owner] = idx[Owner] + 1 /\ pc'[Owner] = "stop"
        /\ \A u \in Threads \ {Owner} : pc'[u] = pc[u]
    BY <1>0, <1>5, <2>1 DEF Join
  <2>3. idx[Owner] \in Workers
    BY <2>2 DEF PlaceOK
  <2>4. \A w \in Workers : w < idx[Owner] + 1 => w < idx[Owner] \/ w = idx[Owner]
    BY <2>3 DEF Workers
  <2>5. QED
    BY <1>0, <2>2, <2>4 DEF StopOK, NoUseAfterDelete
<1>6. CASE DeleteWorkers(c)
  <2>1. c = Owner
    BY <1>6 DEF DeleteWorkers, StopOK
  <2>2. \A w \in Workers : w < ThreadsCount
    BY CountAssumption DEF Workers
  <2>3. \A w \in Workers : pc[w] = "exited"
    BY <1>6, <2>1, <2>2 DEF DeleteWorkers, StopOK
  <2>4. QED
    BY <1>0, <1>6, <2>1, <2>3 DEF DeleteWorkers, StopOK, NoUseAfterDelete
<1>7. QED
  BY <1>1, <1>2, <1>3, <1>4, <1>5, <1>6 DEF CallerStep

(* When shutdown() deletes the flags, every worker has left its loop, for   *)
(* any number of workers and whatever they were doing when it began        *)
(* (scheduler.hpp lines 146-154).                                          *)
THEOREM ShutdownCorrect == Spec => []NoUseAfterDelete
<1>1. Init => StopOK
  BY ThreadFacts, CallerAssumption DEF Init, StopOK, NoUseAfterDelete, Stopping
<1>2. ASSUME IInv, StopOK, [Next]_vars
      PROVE  StopOK'
  <2>1. CASE UNCHANGED vars
    BY <1>2, <2>1 DEF vars, StopOK, NoUseAfterDelete
  <2>2. ASSUME NEW t \in Threads, ScheduleStep(t)
        PROVE  StopOK'
    BY <1>2, <2>2, ScheduleMoves, StopFrame, ThreadFacts, CallerAssumption
    DEF Scheduling, Stopping
  <2>3. ASSUME NEW w \in Workers, WorkerStep(w) \/ SpuriousWakeUp(w), ~ScheduleStep(w)
        PROVE  StopOK'
    BY <1>2, <2>3, WorkerMoves, StopFrame, ThreadFacts, CallerAssumption
  <2>4. ASSUME NEW c \in Callers, CallerStep(c), ~ScheduleStep(c)
        PROVE  StopOK'
    BY <1>2, <2>4, CallerStop
  <2>5. QED
    BY <1>2, <2>1, <2>2, <2>3, <2>4, ThreadFacts DEF Next
<1>3. StopOK => NoUseAfterDelete
  BY DEF StopOK
<1>4. QED
  BY <1>1, <1>2, <1>3, InitInv, NextInv, PTL DEF Spec

(***************************************************************************)
(* Executions.  A job that has not been started is in one place at most:   *)
(* among what a thread has still to schedule, in the hands of a thread     *)
(* inside schedule(), in a mailbox whose worker is in wait(), or with the  *)
(* job that is to schedule it.                                             *)
(***************************************************************************)
Places == {"todo", "cur", "mail", "spawn"} \X (Threads \cup Jobs) \X Nat

At(p, j) ==
  \/ p[1] = "todo" /\ p[2] \in Threads /\ p[3] \in 1 .. Len(todo[p[2]])
       /\ todo[p[2]][p[3]] = j
  \/ p[1] = "cur" /\ p[2] \in Threads /\ p[3] = 0
       /\ pc[p[2]] \in Scheduling /\ cur[p[2]] = j
  \/ p[1] = "mail" /\ p[2] \in Workers /\ p[3] = 0
       /\ pc[p[2]] \in {"sleep", "awake"} /\ msg[p[2]] = j
  \/ p[1] = "spawn" /\ p[2] \in Jobs /\ p[3] \in 1 .. Len(Spawns[p[2]])
       /\ ran[p[2]] = 0 /\ Spawns[p[2]][p[3]] = j

Once ==
  \A j \in Jobs :
    /\ ran[j] <= 1
    /\ \A p \in Places : At(p, j) => ran[j] = 0
    /\ \A p, q \in Places : At(p, j) /\ At(q, j) => p = q

(* Nothing starts, and f says where what is in a place was before.         *)
LEMMA OnceMoves ==
  ASSUME Once, ran' = ran, NEW f \in [Places -> Places],
         \A p \in Places, j \in Jobs : At(p, j)' => At(f[p], j),
         \A p, q \in Places, j \in Jobs :
           At(p, j)' /\ At(q, j)' /\ f[p] = f[q] => p = q
  PROVE  Once'
BY DEF Once

LEMMA OnceShrinks ==
  ASSUME Once, ran' = ran, \A p \in Places, j \in Jobs : At(p, j)' => At(p, j)
  PROVE  Once'
BY DEF Once

(* Thread t starts job k, which was in place s.                            *)
LEMMA OnceStarts ==
  ASSUME IInv, Once, NEW t \in Threads, NEW k \in Jobs, NEW s \in Places,
         At(s, k), s[1] \in {"cur", "mail"}, Start(t, k),
         ~(s[1] = "cur" /\ pc'[s[2]] \in Scheduling),
         ~(s[1] = "mail" /\ pc'[s[2]] \in {"sleep", "awake"}),
         \A u \in Threads : pc'[u] \in Scheduling => pc[u] \in Scheduling,
         \A w \in Workers : pc'[w] \in {"sleep", "awake"} => pc[w] \in {"sleep", "awake"},
         cur' = cur, msg' = msg
  PROVE  Once'
<1> DEFINE n == Len(Spawns[k])
           f == [p \in Places |->
                   IF p[1] = "todo" /\ p[2] = t
                   THEN IF p[3] <= n THEN <<"spawn", k, p[3]>>
                        ELSE <<"todo", t, p[3] - n>>
                   ELSE p]
<1>1. /\ Spawns[k] \in Seq(Jobs) /\ n \in Nat /\ todo[t] \in Seq(Jobs)
      /\ ran[k] = 0 /\ ran' = [ran EXCEPT ![k] = 1]
      /\ todo' = [todo EXCEPT ![t] = Spawns[k] \o todo[t]]
  <2>1. ran[k] = 0
    BY DEF Once
  <2>2. ran' = [ran EXCEPT ![k] = 1]
    BY <2>1 DEF Start
  <2>3. Spawns[k] \in Seq(Jobs) /\ todo[t] \in Seq(Jobs)
    BY JobAssumption DEF IInv, TypeOK
  <2>4. QED
    BY <2>1, <2>2, <2>3 DEF Start
<1>2. f \in [Places -> Places]
  BY <1>1 DEF Places
<1>3. \A i \in 1 .. Len(todo'[t]) :
        todo'[t][i] = IF i <= n THEN Spawns[k][i] ELSE todo[t][i - n]
  BY <1>1 DEF IInv, TypeOK
<1>4. Len(todo'[t]) = n + Len(todo[t])
  BY <1>1 DEF IInv, TypeOK
<1>5. ASSUME NEW p \in Places, NEW j \in Jobs, At(p, j)'
      PROVE  At(f[p], j)
  <2>1. CASE p[1] = "todo" /\ p[2] = t
    <3>1. p[3] \in 1 .. Len(todo'[t]) /\ todo'[t][p[3]] = j
      BY <1>5, <2>1 DEF At
    <3>2. CASE p[3] <= n
      <4>1. f[p] = <<"spawn", k, p[3]>> /\ Spawns[k][p[3]] = j /\ p[3] \in 1 .. n
        BY <2>1, <3>1, <3>2, <1>1, <1>3, <1>4
      <4>2. QED
        BY <4>1, <1>1 DEF At
    <3>3. CASE ~(p[3] <= n)
      <4>1. /\ f[p] = <<"todo", t, p[3] - n>> /\ todo[t][p[3] - n] = j
            /\ p[3] - n \in 1 .. Len(todo[t])
        BY <2>1, <3>1, <3>3, <1>1, <1>3, <1>4 DEF Places
      <4>2. QED
        BY <4>1, <1>1 DEF At
    <3>4. QED
      BY <3>2, <3>3
  <2>2. CASE ~(p[1] = "todo" /\ p[2] = t)
    <3>1. f[p] = p
      BY <2>2
    <3>2. At(p, j)
      BY <1>1, <1>5, <2>2 DEF At, IInv, TypeOK
    <3>3. QED
      BY <3>1, <3>2
  <2>3. QED
    BY <2>1, <2>2
<1>6. ASSUME NEW p \in Places, NEW q \in Places, NEW j \in Jobs,
             At(p, j)', At(q, j)', f[p] = f[q]
      PROVE  p = q
  <2>1. ~(p[1] = "spawn" /\ p[2] = k) /\ ~(q[1] = "spawn" /\ q[2] = k)
    BY <1>1, <1>6 DEF At, IInv, TypeOK
  <2>2. /\ p[1] = "todo" => p[3] \in Nat \ {0}
        /\ q[1] = "todo" => q[3] \in Nat \ {0}
    BY <1>6 DEF At
  <2>3. p = <<p[1], p[2], p[3]>> /\ q = <<q[1], q[2], q[3]>>
        /\ p[3] \in Nat /\ q[3] \in Nat
    BY DEF Places
  <2>4. CASE p[1] = "todo" /\ p[2] = t
    <3>1. CASE q[1] = "todo" /\ q[2] = t
      <4>1. /\ f[p][1] = (IF p[3] <= n THEN "spawn" ELSE "todo")
            /\ f[p][3] = (IF p[3] <= n THEN p[3] ELSE p[3] - n)
        BY <2>4
      <4>2. /\ f[q][1] = (IF q[3] <= n THEN "spawn" ELSE "todo")
            /\ f[q][3] = (IF q[3] <= n THEN q[3] ELSE q[3] - n)
        BY <3>1
      <4>3. p[3] = q[3]
        <5> HIDE DEF f, n
        <5>1. p[3] <= n <=> q[3] <= n
          BY <1>6, <4>1, <4>2
        <5>2. QED
          BY <1>1, <1>6, <2>3, <4>1, <4>2, <5>1
      <4>4. QED
        BY <2>3, <2>4, <3>1, <4>3
    <3>2. CASE ~(q[1] = "todo" /\ q[2] = t)
      <4>1. f[q] = q
        BY <3>2
      <4>2. CASE p[3] <= n
        <5>1. f[p][1] = "spawn" /\ f[p][2] = k
          BY <2>4, <4>2
        <5>2. QED
          BY <1>6, <2>1, <4>1, <5>1
      <4>3. CASE ~(p[3] <= n)
        <5>1. f[p][1] = "todo" /\ f[p][2] = t
          BY <2>4, <4>3
        <5>2. QED
          BY <1>6, <3>2, <4>1, <5>1
      <4>4. QED
        BY <4>2, <4>3
    <3>3. QED
      BY <3>1, <3>2
  <2>5. CASE ~(p[1] = "todo" /\ p[2] = t)
    <3>1. f[p] = p
      BY <2>5
    <3>2. CASE q[1] = "todo" /\ q[2] = t
      <4>1. CASE q[3] <= n
        <5>1. f[q][1] = "spawn" /\ f[q][2] = k
          BY <3>2, <4>1
        <5>2. QED
          BY <1>6, <2>1, <3>1, <5>1
      <4>2. CASE ~(q[3] <= n)
        <5>1. f[q][1] = "todo" /\ f[q][2] = t
          BY <3>2, <4>2
        <5>2. QED
          BY <1>6, <2>5, <3>1, <5>1
      <4>3. QED
        BY <4>1, <4>2
    <3>3. CASE ~(q[1] = "todo" /\ q[2] = t)
      BY <1>6, <3>1, <3>3
    <3>4. QED
      BY <3>2, <3>3
  <2>6. QED
    BY <2>4, <2>5
<1>7. ASSUME NEW p \in Places, NEW j \in Jobs, At(p, j)'
      PROVE  f[p] # s
  <2>1. p[1] \in {"cur", "mail"} => p # s
    BY <1>7 DEF At
  <2>2. QED
    BY <2>1 DEF Places
<1> HIDE DEF f, n
<1>8. ASSUME NEW j \in Jobs
      PROVE  /\ ran'[j] <= 1
             /\ \A p \in Places : At(p, j)' => ran'[j] = 0
             /\ \A p, q \in Places : At(p, j)' /\ At(q, j)' => p = q
  <2>1. ran'[j] <= 1
    BY <1>1 DEF Once, IInv, TypeOK
  <2>2. ASSUME NEW p \in Places, At(p, j)'
        PROVE  ran'[j] = 0
    <3>1. At(f[p], j) /\ f[p] # s /\ f[p] \in Places
      BY <2>2, <1>2, <1>5, <1>7
    <3>2. j # k
      BY <3>1 DEF Once
    <3>3. QED
      BY <3>1, <3>2, <1>1 DEF Once, IInv, TypeOK
  <2>3. ASSUME NEW p \in Places, NEW q \in Places, At(p, j)', At(q, j)'
        PROVE  p = q
    <3>1. At(f[p], j) /\ At(f[q], j) /\ f[p] \in Places /\ f[q] \in Places
      BY <2>3, <1>2, <1>5
    <3>2. f[p] = f[q]
      BY <3>1 DEF Once
    <3>3. QED
      BY <2>3, <3>2, <1>6
  <2>4. QED
    BY <2>1, <2>2, <2>3
<1>9. QED
  BY <1>8 DEF Once

LEMMA ScheduleOnce ==
  ASSUME IInv, Once, NEW t \in Threads, ScheduleStep(t)
  PROVE  Once'
<1> USE ThreadFacts DEF Goto, Scheduling
<1>0. /\ pc \in [Threads -> CallerPlace \cup WorkerPlace]
      /\ idx \in [Threads -> 0 .. ThreadsCount]
      /\ cur \in [Threads -> Jobs \cup {Null}]
      /\ msg \in [Workers -> Messages]
      /\ todo \in [Threads -> Seq(Jobs)]
  BY DEF IInv, TypeOK
<1>1. CASE Schedule(t)
  <2> DEFINE f == [p \in Places |->
                     IF p = <<"cur", t, 0>> THEN <<"todo", t, 1>>
                     ELSE IF p[1] = "todo" /\ p[2] = t
                          THEN <<"todo", t, p[3] + 1>> ELSE p]
  <2>1. /\ todo[t] \in Seq(Jobs) /\ todo[t] # <<>>
        /\ cur' = [cur EXCEPT ![t] = Head(todo[t])]
        /\ todo' = [todo EXCEPT ![t] = Tail(todo[t])]
        /\ pc' = [pc EXCEPT ![t] = "count"]
        /\ UNCHANGED <<msg, ran>>
    BY <1>0, <1>1 DEF Schedule
  <2>2. /\ Head(todo[t]) = todo[t][1] /\ 1 \in 1 .. Len(todo[t])
        /\ Len(Tail(todo[t])) + 1 = Len(todo[t])
        /\ \A i \in 1 .. Len(Tail(todo[t])) : /\ Tail(todo[t])[i] = todo[t][i + 1]
                                              /\ i + 1 \in 1 .. Len(todo[t])
    BY <2>1
  <2>3. f \in [Places -> Places]
    BY DEF Places
  <2>4. ASSUME NEW p \in Places, NEW j \in Jobs, At(p, j)'
        PROVE  At(f[p], j)
    <3>1. CASE p = <<"cur", t, 0>>
      BY <1>0, <2>1, <2>2, <2>4, <3>1 DEF At
    <3>2. CASE p[1] = "todo" /\ p[2] = t
      <4>1. f[p] = <<"todo", t, p[3] + 1>>
        BY <3>2
      <4>2. p[3] \in 1 .. Len(Tail(todo[t])) /\ Tail(todo[t])[p[3]] = j
        BY <1>0, <2>1, <2>4, <3>2 DEF At
      <4>3. QED
        BY <4>1, <4>2, <2>2 DEF At
    <3>3. CASE p # <<"cur", t, 0>> /\ ~(p[1] = "todo" /\ p[2] = t)
      <4>1. f[p] = p
        BY <3>3
      <4>2. ~(p[1] = "cur" /\ p[2] = t /\ p[3] = 0)
        BY <3>3 DEF Places
      <4>3. At(p, j)
        BY <1>0, <2>1, <2>4, <3>3, <4>2 DEF At
      <4>4. QED
        BY <4>1, <4>3
    <3>4. QED
      BY <3>1, <3>2, <3>3
  <2>5. ASSUME NEW p \in Places, NEW q \in Places, NEW j \in Jobs,
               At(p, j)', At(q, j)', f[p] = f[q]
        PROVE  p = q
    <3>1. /\ p = <<p[1], p[2], p[3]>> /\ q = <<q[1], q[2], q[3]>>
          /\ p[3] \in Nat /\ q[3] \in Nat
      BY DEF Places
    <3>2. /\ p[1] = "todo" => p[3] # 0
          /\ q[1] = "todo" => q[3] # 0
      BY <2>5 DEF At
    <3>3. \A r \in {p, q} :
            \/ /\ r = <<"cur", t, 0>>
               /\ f[r][1] = "todo" /\ f[r][2] = t /\ f[r][3] = 1
            \/ /\ r[1] = "todo" /\ r[2] = t
               /\ f[r][1] = "todo" /\ f[r][2] = t /\ f[r][3] = r[3] + 1
            \/ ~(r[1] = "todo" /\ r[2] = t) /\ f[r] = r
      OBVIOUS
    <3>4. f[p][1] = f[q][1] /\ f[p][2] = f[q][2] /\ f[p][3] = f[q][3]
      BY <2>5
    <3> HIDE DEF f
    <3>5. CASE p = <<"cur", t, 0>> /\ f[p][3] = 1 /\ f[p][1] = "todo" /\ f[p][2] = t
      <4>1. q[1] = "todo" /\ q[2] = t => f[q][3] = q[3] + 1 /\ q[3] # 0
        BY <3>2, <3>3
      <4>2. ~(q[1] = "todo" /\ q[2] = t)
        BY <3>1, <3>4, <3>5, <4>1
      <4>3. QED
        BY <3>3, <3>4, <3>5, <4>2
    <3>6. CASE p[1] = "todo" /\ p[2] = t
      <4>1. f[p][3] = p[3] + 1 /\ p[3] # 0 /\ f[p][1] = "todo" /\ f[p][2] = t
        BY <3>2, <3>3, <3>6
      <4>2. q[1] = "todo" /\ q[2] = t
        <5>1. f[q][3] # 1
          BY <3>1, <3>4, <4>1
        <5>2. QED
          BY <3>3, <3>4, <4>1, <5>1
      <4>3. f[q][3] = q[3] + 1
        BY <3>3, <4>2
      <4>4. p[3] = q[3]
        <5>1. p[3] + 1 = q[3] + 1
          BY <3>4, <4>1, <4>3
        <5>2. p[3] \in Nat /\ q[3] \in Nat
          BY <3>1
        <5>3. QED
          BY <5>1, <5>2
      <4>5. QED
        BY <3>1, <3>6, <4>2, <4>4
    <3>7. CASE ~(p[1] = "todo" /\ p[2] = t) /\ f[p] = p
      <4>1. f[q] = p
        BY <2>5, <3>7
      <4>2. QED
        BY <3>3, <3>7, <4>1
    <3>8. QED
      BY <3>3, <3>5, <3>6, <3>7
  <2> HIDE DEF f
  <2>6. QED
    BY <2>1, <2>3, <2>4, <2>5, OnceMoves
<1>2. CASE ReadCount(t)
  BY <1>0, <1>2, OnceShrinks DEF ReadCount, At
<1>3. CASE Claim(t)
  BY <1>0, <1>3, OnceShrinks DEF Claim, At
<1>4. CASE SkipWorker(t)
  BY <1>0, <1>4, OnceShrinks DEF SkipWorker, At
<1>5. CASE ScanFailed(t)
  BY <1>0, <1>5, OnceShrinks DEF ScanFailed, At
<1>6. CASE Decrement(t)
  BY <1>0, <1>6, OnceShrinks DEF Decrement, At
<1>7. CASE NotifyJob(t)
  <2> DEFINE m == <<"mail", idx[t], 0>>
             f == [p \in Places |-> IF p = m THEN <<"cur", t, 0>> ELSE p]
  <2>1. idx[t] \in Workers
    BY <1>7 DEF NotifyJob, IInv, PlaceOK
  <2>2. /\ pc[t] = "notify" /\ pc'[t] = "exec"
        /\ msg' = [msg EXCEPT ![idx[t]] = cur[t]]
        /\ UNCHANGED <<cur, todo, ran>>
        /\ \A u \in Threads \ {t} : \/ pc'[u] = pc[u]
                                    \/ pc[u] = "sleep" /\ pc'[u] = "awake"
    BY <1>0, <1>7, <2>1 DEF NotifyJob, WakeAfter
  <2>3. f \in [Places -> Places]
    BY DEF Places
  <2>4. ASSUME NEW p \in Places, NEW j \in Jobs, At(p, j)'
        PROVE  At(f[p], j)
    <3>1. CASE p = m
      BY <1>0, <2>1, <2>2, <2>4, <3>1 DEF At
    <3>2. CASE p # m
      <4>1. f[p] = p
        BY <3>2
      <4>2. ~(p[1] = "mail" /\ p[2] = idx[t] /\ p[3] = 0)
        BY <3>2 DEF Places
      <4>3. At(p, j)
        BY <1>0, <2>1, <2>2, <2>4, <4>2 DEF At
      <4>4. QED
        BY <4>1, <4>3
    <3>3. QED
      BY <3>1, <3>2
  <2>5. ASSUME NEW p \in Places, NEW q \in Places, NEW j \in Jobs,
               At(p, j)', At(q, j)', f[p] = f[q]
        PROVE  p = q
    <3>1. p # <<"cur", t, 0>> /\ q # <<"cur", t, 0>>
      BY <2>2, <2>5 DEF At
    <3>2. QED
      BY <2>5, <3>1
  <2> HIDE DEF f
  <2>6. QED
    BY <2>2, <2>3, <2>4, <2>5, OnceMoves
<1>8. CASE RunInline(t)
  <2> DEFINE s == <<"cur", t, 0>>
  <2>1. cur[t] \in Jobs
    BY <1>8 DEF RunInline, IInv, PlaceOK
  <2>2. s \in Places /\ s[1] \in {"cur", "mail"} /\ s[1] = "cur" /\ s[2] = t
    BY DEF Places
  <2>3. At(s, cur[t])
    BY <1>8 DEF RunInline, At
  <2>4. Start(t, cur[t]) /\ pc' = [pc EXCEPT ![t] = "exec"] /\ pc[t] = "inline"
        /\ UNCHANGED <<cur, msg>>
    BY <1>8 DEF RunInline
  <2>5. pc'[t] \notin Scheduling
    BY <1>0, <2>4
  <2>6. \A u \in Threads : pc'[u] \in Scheduling => pc[u] \in Scheduling
    BY <1>0, <2>4
  <2>7. \A w \in Workers : pc'[w] \in {"sleep", "awake"} => pc[w] \in {"sleep", "awake"}
    BY <1>0, <2>4
  <2> HIDE DEF s
  <2>8. QED
    BY <2>1, <2>2, <2>3, <2>4, <2>5, <2>6, <2>7, OnceStarts
<1>9. QED
  BY <1>1, <1>2, <1>3, <1>4, <1>5, <1>6, <1>7, <1>8 DEF ScheduleStep

LEMMA WorkerOnce ==
  ASSUME IInv, Once, NEW w \in Workers,
         WorkerStep(w) \/ SpuriousWakeUp(w), ~ScheduleStep(w)
  PROVE  Once'
<1> USE ThreadFacts, JobAssumption DEF Goto, Scheduling
<1>0. /\ pc \in [Threads -> CallerPlace \cup WorkerPlace]
      /\ msg \in [Workers -> Messages]
      /\ todo \in [Threads -> Seq(Jobs)]
      /\ w \in Threads
  BY DEF IInv, TypeOK
<1>1. CASE CheckRun(w)
  BY <1>0, <1>1, OnceShrinks DEF CheckRun, At
<1>2. CASE EnterWait(w)
  BY <1>0, <1>2, OnceShrinks DEF EnterWait, At
<1>3. CASE SleepAgain(w)
  BY <1>0, <1>3, OnceShrinks DEF SleepAgain, At
<1>4. CASE SpuriousWakeUp(w)
  BY <1>0, <1>4, OnceShrinks DEF SpuriousWakeUp, At
<1>5. CASE TakeMessage(w)
  <2>1. CASE msg[w] \in Jobs
    <3> DEFINE s == <<"mail", w, 0>>
    <3>1. s \in Places /\ s[1] \in {"cur", "mail"} /\ s[1] = "mail" /\ s[2] = w
      BY <1>0 DEF Places
    <3>2. At(s, msg[w])
      BY <1>5 DEF TakeMessage, At
    <3>3. /\ Start(w, msg[w]) /\ pc' = [pc EXCEPT ![w] = "exec"]
          /\ pc[w] = "awake" /\ UNCHANGED <<cur, msg>>
      BY <1>5, <2>1 DEF TakeMessage
    <3>4. pc'[w] \notin {"sleep", "awake"}
      BY <1>0, <3>3
    <3>5. \A u \in Threads : pc'[u] \in Scheduling => pc[u] \in Scheduling
      BY <1>0, <3>3
    <3>6. \A v \in Workers : pc'[v] \in {"sleep", "awake"} => pc[v] \in {"sleep", "awake"}
      BY <1>0, <3>3
    <3> HIDE DEF s
    <3>7. QED
      BY <2>1, <1>0, <3>1, <3>2, <3>3, <3>4, <3>5, <3>6, OnceStarts
  <2>2. CASE msg[w] \notin Jobs
    BY <1>0, <1>5, <2>2, OnceShrinks DEF TakeMessage, At
  <2>3. QED
    BY <2>1, <2>2
<1>6. CASE JobDone(w)
  BY <1>0, <1>6, OnceShrinks DEF JobDone, At
<1>7. CASE Increment(w)
  BY <1>0, <1>7, OnceShrinks DEF Increment, At
<1>8. CASE ClearRunning(w)
  BY <1>0, <1>8, OnceShrinks DEF ClearRunning, At
<1>9. QED
  BY <1>1, <1>2, <1>3, <1>4, <1>5, <1>6, <1>7, <1>8 DEF WorkerStep

LEMMA CallerOnce ==
  ASSUME IInv, Once, NEW c \in Callers, CallerStep(c), ~ScheduleStep(c)
  PROVE  Once'
<1> USE ThreadFacts, JobAssumption DEF Goto, Scheduling
<1>0. /\ pc \in [Threads -> CallerPlace \cup WorkerPlace]
      /\ msg \in [Workers -> Messages]
      /\ c \in Threads
  BY DEF IInv, TypeOK
<1>1. CASE CallerDone(c)
  BY <1>0, <1>1, OnceShrinks DEF CallerDone, At
<1>2. CASE BeginShutdown(c)
  BY <1>0, <1>2, OnceShrinks DEF BeginShutdown, At
<1>3. CASE StopWorker(c)
  BY <1>0, <1>3, OnceShrinks DEF StopWorker, At
<1>4. CASE NotifyEmpty(c)
  <2>1. idx[c] \in Workers
    BY <1>4 DEF NotifyEmpty, IInv, PlaceOK
  <2>2. QED
    BY <1>0, <1>4, <2>1, OnceShrinks DEF NotifyEmpty, WakeAfter, At
<1>5. CASE Join(c)
  BY <1>0, <1>5, OnceShrinks DEF Join, At
<1>6. CASE DeleteWorkers(c)
  BY <1>0, <1>6, OnceShrinks DEF DeleteWorkers, At
<1>7. QED
  BY <1>1, <1>2, <1>3, <1>4, <1>5, <1>6 DEF CallerStep

LEMMA InitOnce == Init => Once
<1> SUFFICES ASSUME Init PROVE Once
  OBVIOUS
<1>1. \A j \in Jobs : ran[j] = 0
  BY DEF Init
<1>2. ASSUME NEW p \in Places, NEW j \in Jobs, At(p, j)
      PROVE  \/ /\ p[1] = "todo" /\ p[2] \in Callers
                /\ p[3] \in DOMAIN Program[p[2]] /\ Program[p[2]][p[3]] = j
             \/ /\ p[1] = "spawn" /\ p[2] \in Jobs
                /\ p[3] \in DOMAIN Spawns[p[2]] /\ Spawns[p[2]][p[3]] = j
  <2>1. CASE p[1] = "todo"
    BY <1>2, <2>1, JobAssumption, ThreadFacts DEF At, Init, Threads
  <2>2. CASE p[1] = "spawn"
    BY <1>2, <2>2, JobAssumption DEF At
  <2>3. p[1] # "cur" /\ p[1] # "mail"
    BY <1>2, ThreadFacts DEF At, Init, Scheduling
  <2>4. QED
    BY <1>2, <2>1, <2>2, <2>3 DEF At
<1>3. ASSUME NEW p \in Places, NEW q \in Places, NEW j \in Jobs, At(p, j), At(q, j)
      PROVE  p = q
  <2>1. p = <<p[1], p[2], p[3]>> /\ q = <<q[1], q[2], q[3]>>
    BY DEF Places
  <2>2. p[1] = q[1] /\ p[2] = q[2] /\ p[3] = q[3]
    BY <1>2, <1>3, OnceAssumption
  <2>3. QED
    BY <2>1, <2>2
<1>4. QED
  BY <1>1, <1>3 DEF Once

(* A job passed to schedule() is started once at most, by one thread, with  *)
(* any number of workers and callers and through shutdown (scheduler.hpp   *)
(* lines 25-45, 63-76, 108-144).                                           *)
THEOREM ExecutionCorrect == Spec => []AtMostOnce
<1>1. ASSUME IInv, Once, [Next]_vars
      PROVE  Once'
  <2>1. CASE UNCHANGED vars
    BY <1>1, <2>1, OnceShrinks DEF vars, At
  <2>2. ASSUME NEW t \in Threads, ScheduleStep(t)
        PROVE  Once'
    BY <1>1, <2>2, ScheduleOnce
  <2>3. ASSUME NEW w \in Workers, WorkerStep(w) \/ SpuriousWakeUp(w), ~ScheduleStep(w)
        PROVE  Once'
    BY <1>1, <2>3, WorkerOnce
  <2>4. ASSUME NEW c \in Callers, CallerStep(c), ~ScheduleStep(c)
        PROVE  Once'
    BY <1>1, <2>4, CallerOnce
  <2>5. QED
    BY <1>1, <2>1, <2>2, <2>3, <2>4, ThreadFacts DEF Next
<1>2. Once => AtMostOnce
  BY DEF Once, AtMostOnce
<1>3. QED
  BY <1>1, <1>2, InitOnce, InitInv, NextInv, PTL DEF Spec
=============================================================================

------------------------------ MODULE DirWatch ------------------------------
(***************************************************************************)
(* The directory watch of base/fs.cpp on Linux: addWatch starts a thread   *)
(* that reads inotify events into "changes" and then holds back until      *)
(* pollWatch, called from the program's main loop, has taken them;         *)
(* removeWatch stops the thread and joins it.                              *)
(*                                                                         *)
(* changes has no lock of its own: the flag watchAvailable says whose turn *)
(* it is.  The flag is set without the mutex and cleared under it, and     *)
(* each access of it is a step here.  The kernel's event queue is bounded; *)
(* an event that does not fit becomes one IN_Q_OVERFLOW.                   *)
(***************************************************************************)
EXTENDS Integers, Sequences, SequencesExt

CONSTANTS
  Masks,       \* the inotify events that happen in the directory
  MaxEvents,   \* bound: events during one watch
  QueueLimit,  \* the kernel's limit on queued events
  BufferLimit, \* how many events fit in the thread's buffer
  MaxAdds,     \* bound: calls of addWatch
  None         \* a poll that has taken no result

Adds    == {"IN_CREATE", "IN_MOVED_TO"}
Removes == {"IN_DELETE", "IN_MOVED_FROM"}

ASSUME MasksAssumption == Masks \subseteq Adds \cup Removes \cup {"IN_MODIFY", "IN_IGNORED"}
ASSUME LimitAssumption == /\ QueueLimit \in Nat \ {0} /\ BufferLimit \in Nat \ {0}
                          /\ MaxEvents \in Nat /\ MaxAdds \in Nat

VARIABLES
  watch,           \* "none", "leftover" (entry of a failed addWatch), "active"
  running,         \* the thread's loop condition
  watchAvailable,  \* changes are ready for pollWatch
  changes,         \* what the thread has translated and nobody has taken
  fdOpen,          \* the inotify descriptor is open
  queue,           \* the events in the kernel
  buffer,          \* the events the thread has read and not yet translated
  dataAdded,       \* the thread's local flag
  thread,          \* where the thread is
  main,            \* where the main loop is
  ret,             \* pollWatch's local result
  adds,            \* how many times addWatch was called
  happened,        \* history: the events the kernel queued
  delivered        \* history: what pollWatch returned

shared == <<running, watchAvailable, changes, fdOpen>>
vars == <<watch, shared, queue, buffer, dataAdded, thread, main, ret, adds,
          happened, delivered>>

Init ==
  /\ watch = "none"
  /\ running = FALSE /\ watchAvailable = FALSE /\ fdOpen = FALSE
  /\ changes = <<>> /\ queue = <<>> /\ buffer = <<>>
  /\ dataAdded = FALSE
  /\ thread = "none"
  /\ main = "idle"
  /\ ret = None
  /\ adds = 0
  /\ happened = <<>> /\ delivered = <<>>

-----------------------------------------------------------------------------
(* The kernel. *)

Event(mask) ==
  /\ fdOpen
  /\ Len(happened) < MaxEvents
  /\ IF Len(queue) < QueueLimit
     THEN queue' = Append(queue, mask) /\ happened' = Append(happened, mask)
     ELSE /\ Last(queue) # "IN_Q_OVERFLOW"
          /\ queue' = Append(queue, "IN_Q_OVERFLOW")
          /\ UNCHANGED happened
  /\ UNCHANGED <<watch, shared, buffer, dataAdded, thread, main, ret, adds,
                 delivered>>

-----------------------------------------------------------------------------
(* addWatch                                                                *)

(* operator[] under the next id: a new entry, all zero, unless a failed     *)
(* call has left one, which is used as it is.  A debug build stops at the  *)
(* assertion that there is none; the others log it and go on, as here.     *)
MakeEntry ==
  IF watch = "none" THEN watchAvailable' = FALSE /\ changes' = <<>>
                    ELSE UNCHANGED <<watchAvailable, changes>>

(* inotify_init1 or inotify_add_watch fails: the entry stays in the map,   *)
(* and the id is not used up.                                              *)
AddFails ==
  /\ main = "idle"
  /\ watch # "active"
  /\ adds < MaxAdds
  /\ adds' = adds + 1
  /\ watch' = "leftover"
  /\ MakeEntry
  /\ UNCHANGED <<running, fdOpen, queue, buffer, dataAdded, thread, main, ret,
                 happened, delivered>>

AddWatch ==
  /\ main = "idle"
  /\ watch # "active"
  /\ adds < MaxAdds
  /\ adds' = adds + 1
  /\ watch' = "active"
  /\ MakeEntry
  /\ running' = TRUE
  /\ fdOpen' = TRUE
  /\ queue' = <<>>
  /\ thread' = "loop"
  /\ happened' = <<>> /\ delivered' = <<>>
  /\ UNCHANGED <<buffer, dataAdded, main, ret>>

-----------------------------------------------------------------------------
(* watchThread                                                             *)

CheckRunning ==
  /\ thread = "loop"
  /\ thread' = IF running THEN "select" ELSE "exited"
  /\ UNCHANGED <<watch, shared, queue, buffer, dataAdded, main, ret, adds,
                 happened, delivered>>

(* select() returns on an event, after half a second, or with an error on  *)
(* a closed descriptor: in any case.                                       *)
Select ==
  /\ thread = "select"
  /\ thread' = "hold"
  /\ UNCHANGED <<watch, shared, queue, buffer, dataAdded, main, ret, adds,
                 happened, delivered>>

\* Mutant: the result is not waited for.
HoldNot ==
  /\ thread = "hold"
  /\ thread' = "read"
  /\ UNCHANGED <<watch, shared, queue, buffer, dataAdded, main, ret, adds,
                 happened, delivered>>

(* The condition variable: the thread goes to sleep if the result is still *)
(* there, and a notification or a spurious wake-up makes it look again.    *)
Hold ==
  /\ thread = "hold"
  /\ thread' = IF watchAvailable THEN "asleep" ELSE "read"
  /\ UNCHANGED <<watch, shared, queue, buffer, dataAdded, main, ret, adds,
                 happened, delivered>>

SpuriousWakeUp ==
  /\ thread = "asleep"
  /\ thread' = "hold"
  /\ UNCHANGED <<watch, shared, queue, buffer, dataAdded, main, ret, adds,
                 happened, delivered>>

(* read() takes what fits in the buffer; the descriptor does not block,    *)
(* and nothing to read or a closed descriptor skips the translation.       *)
Read ==
  LET n == IF Len(queue) < BufferLimit THEN Len(queue) ELSE BufferLimit
  IN  /\ thread = "read"
      /\ IF fdOpen /\ queue # <<>>
         THEN /\ buffer' = SubSeq(queue, 1, n)
              /\ queue' = SubSeq(queue, n + 1, Len(queue))
              /\ dataAdded' = FALSE
              /\ thread' = "translate"
         ELSE /\ thread' = "loop"
              /\ UNCHANGED <<buffer, queue, dataAdded>>
      /\ UNCHANGED <<watch, shared, main, ret, adds, happened, delivered>>

(* The change an event stands for; an overflow and an IN_IGNORED are none. *)
ChangesOf(mask) ==
  IF mask \in Adds THEN <<"fileMonitorAdd">>
  ELSE IF mask \in Removes THEN <<"fileMonitorRemove">>
  ELSE IF mask = "IN_MODIFY" THEN <<"fileMonitorModify">> ELSE <<>>

Translate ==
  /\ thread = "translate"
  /\ buffer # <<>>
  /\ changes' = changes \o ChangesOf(Head(buffer))
  /\ dataAdded' = (dataAdded \/ ChangesOf(Head(buffer)) # <<>>)
  /\ buffer' = Tail(buffer)
  /\ UNCHANGED <<watch, running, watchAvailable, fdOpen, queue, thread, main,
                 ret, adds, happened, delivered>>

\* Mutant: a result is never announced.
PublishNothing ==
  /\ thread = "translate"
  /\ buffer = <<>>
  /\ watchAvailable' = FALSE
  /\ thread' = "loop"
  /\ UNCHANGED <<watch, running, changes, fdOpen, queue, buffer, dataAdded,
                 main, ret, adds, happened, delivered>>

Publish ==
  /\ thread = "translate"
  /\ buffer = <<>>
  /\ watchAvailable' = dataAdded
  /\ thread' = "loop"
  /\ UNCHANGED <<watch, running, changes, fdOpen, queue, buffer, dataAdded,
                 main, ret, adds, happened, delivered>>

-----------------------------------------------------------------------------
(* pollWatch, called from the main loop                                    *)

Poll ==
  /\ main = "idle"
  /\ watch = "active"
  /\ watchAvailable
  /\ main' = "swap"
  /\ UNCHANGED <<watch, shared, queue, buffer, dataAdded, thread, ret, adds,
                 happened, delivered>>

\* Mutant: the result is copied and not discarded.
PollCopy ==
  /\ main = "swap"
  /\ ret' = changes
  /\ main' = "release"
  /\ UNCHANGED <<watch, shared, queue, buffer, dataAdded, thread, adds,
                 happened, delivered>>

PollSwap ==
  /\ main = "swap"
  /\ ret' = changes
  /\ changes' = <<>>
  /\ main' = "release"
  /\ UNCHANGED <<watch, running, watchAvailable, fdOpen, queue, buffer,
                 dataAdded, thread, adds, happened, delivered>>

(* Under the mutex: clear the flag, wake the thread; then return. *)
WakeThread == thread' = IF thread = "asleep" THEN "hold" ELSE thread

PollRelease ==
  /\ main = "release"
  /\ watchAvailable' = FALSE
  /\ WakeThread
  /\ delivered' = delivered \o ret
  /\ ret' = None
  /\ main' = "idle"
  /\ UNCHANGED <<watch, running, changes, fdOpen, queue, buffer, dataAdded,
                 adds, happened>>

-----------------------------------------------------------------------------
(* removeWatch                                                             *)

\* Mutant: only the loop condition is cleared.
RemoveLeavesFlag ==
  /\ main = "idle"
  /\ watch = "active"
  /\ running' = FALSE
  /\ WakeThread
  /\ main' = "close"
  /\ UNCHANGED <<watch, watchAvailable, changes, fdOpen, queue, buffer,
                 dataAdded, ret, adds, happened, delivered>>

RemoveStop ==
  /\ main = "idle"
  /\ watch = "active"
  /\ running' = FALSE
  /\ watchAvailable' = FALSE
  /\ WakeThread
  /\ main' = "close"
  /\ UNCHANGED <<watch, changes, fdOpen, queue, buffer, dataAdded, ret, adds,
                 happened, delivered>>

RemoveClose ==
  /\ main = "close"
  /\ fdOpen' = FALSE
  /\ queue' = <<>>
  /\ main' = "join"
  /\ UNCHANGED <<watch, running, watchAvailable, changes, buffer, dataAdded,
                 thread, ret, adds, happened, delivered>>

\* Mutant: the entry is erased while the thread still uses it.
RemoveNoJoin ==
  /\ main = "join"
  /\ watch' = "none"
  /\ main' = "idle"
  /\ UNCHANGED <<shared, queue, buffer, dataAdded, thread, ret, adds, happened,
                 delivered>>

(* join, and erase the entry. *)
RemoveJoin ==
  /\ main = "join"
  /\ thread = "exited"
  /\ watch' = "none"
  /\ main' = "idle"
  /\ thread' = "none"
  /\ UNCHANGED <<shared, queue, buffer, dataAdded, ret, adds, happened,
                 delivered>>

ThreadStep == CheckRunning \/ Select \/ Hold \/ Read \/ Translate \/ Publish
PollStep   == Poll \/ PollSwap \/ PollRelease
RemoveStep == RemoveClose \/ RemoveJoin

Next ==
  \/ \E mask \in Masks : Event(mask)
  \/ AddFails \/ AddWatch
  \/ ThreadStep \/ SpuriousWakeUp
  \/ PollStep \/ RemoveStop \/ RemoveStep

Spec == Init /\ [][Next]_vars

(* The thread runs; the main loop of a program that watches a directory    *)
(* polls again and again, and a call of removeWatch runs on.               *)
Fairness == WF_vars(ThreadStep) /\ WF_vars(PollStep) /\ WF_vars(RemoveStep)

FairSpec == Spec /\ Fairness

-----------------------------------------------------------------------------
(***************************************************************************)
(* Properties.                                                             *)
(***************************************************************************)

Changes == {"fileMonitorAdd", "fileMonitorRemove", "fileMonitorModify"}
Queued  == Masks \cup {"IN_Q_OVERFLOW"}

(* Type correctness; an entry is in use for as long as its thread lives. *)
TypeOK ==
  /\ watch \in {"none", "leftover", "active"}
  /\ running \in BOOLEAN /\ watchAvailable \in BOOLEAN /\ fdOpen \in BOOLEAN
  /\ changes \in Seq(Changes)
  /\ queue \in Seq(Queued) /\ Len(queue) <= QueueLimit + 1
  /\ buffer \in Seq(Queued) /\ Len(buffer) <= BufferLimit
  /\ dataAdded \in BOOLEAN
  /\ thread \in {"none", "loop", "select", "hold", "asleep", "read",
                 "translate", "exited"}
  /\ main \in {"idle", "swap", "release", "close", "join"}
  /\ ret \in Seq(Changes) \cup {None}
  /\ adds \in 0 .. MaxAdds
  /\ happened \in Seq(Masks) /\ delivered \in Seq(Changes)
  /\ watch # "active" => thread = "none"

(* changes is never touched by both threads: while pollWatch is between    *)
(* seeing the flag and clearing it, the watch thread neither reads events  *)
(* nor translates any.                                                     *)
ChangesExclusive ==
  main \in {"swap", "release"} => thread \notin {"read", "translate"}

ChangesOfAll(events) ==
  FlattenSeq([i \in DOMAIN events |-> ChangesOf(events[i])])

ChangesIn(n) ==
  ChangesOfAll(SubSeq(happened, 1, IF n < Len(happened) THEN n
                                   ELSE Len(happened)))

InHand == IF main = "release" THEN ret ELSE <<>>

(* What the polls returned, followed by what is still under way, is what   *)
(* the kernel queued, in order: no change is lost, repeated or reordered   *)
(* between the two threads.                                                *)
DeliveredInOrder ==
  fdOpen => delivered \o InHand \o changes
              \o ChangesOfAll(buffer) \o ChangesOfAll(queue)
            = ChangesIn(MaxEvents)

(* The comment in watchThread: it "hangs up reading until someone reads and *)
(* discards result".  While the watch is on, events are read only when the  *)
(* result of the last reading is gone.                                      *)
ReadsAfterDiscard == running /\ thread = "read" => changes = <<>>

(* Every change the kernel queued is returned by a poll, unless the watch   *)
(* is removed.                                                              *)
ChangesArrive ==
  \A n \in 1 .. MaxEvents :
    (fdOpen /\ Len(happened) >= n)
      ~> (~running \/ Len(delivered) >= Len(ChangesIn(n)))

(* removeWatch returns: the thread leaves its loop wherever it was.         *)
RemoveReturns == main = "close" ~> main = "idle"
=============================================================================

------------------------------ MODULE QueueMPMC ------------------------------
(***************************************************************************)
(* The lock-free bounded queue of base/queue.hpp (Vyukov's), with several  *)
(* producers in push_ts and several consumers in pop_ts.                   *)
(*                                                                         *)
(* Each load, store and compare-exchange of the source is a step.  The     *)
(* steps are interleaved: the release store and acquire load of a cell's   *)
(* sequence order the plain accesses to its data.  Positions are natural   *)
(* numbers; a 64-bit size_t wraps after 2^64 calls, which is not modelled. *)
(***************************************************************************)
EXTENDS Integers, Sequences

CONSTANTS
  Size,        \* cellssize: the number of cells
  Producers,   \* threads that push
  Consumers,   \* threads that pop
  MaxCalls,    \* bound: calls each thread makes
  NoValue      \* what a cell holds before anything is stored in it

(* The n-th push of producer p stores <<p, n>>: every item is told apart. *)
Values  == Producers \X (1 .. MaxCalls)
Cells   == 0 .. Size - 1
Threads == Producers \cup Consumers

(* The constructor asserts cellssize >= 2 and a power of two, which makes *)
(* "pos & mask" the remainder; the rest holds for every Size >= 2.        *)
ASSUME SizeAssumption   == Size \in Nat /\ Size >= 2
ASSUME CallsAssumption  == MaxCalls \in Nat
ASSUME ThreadAssumption == Producers \cap Consumers = {}
ASSUME ValueAssumption  == NoValue \notin Values

VARIABLES
  sequence,     \* per cell: its atomic sequence number
  data,         \* per cell: its data
  enqueue_pos,  \* atomic: positions claimed by producers
  dequeue_pos,  \* atomic: positions claimed by consumers
  pc,           \* per thread: the step it takes next
  pos,          \* per thread: its local pos
  val,          \* per thread: the value it pushes, or has popped
  calls,        \* per thread: calls made so far
  pushed        \* history: the values whose push claimed a position, in order

vars == <<sequence, data, enqueue_pos, dequeue_pos, pc, pos, val, calls,
          pushed>>

CellOf(p) == p % Size

Init ==
  /\ sequence = [i \in Cells |-> i]
  /\ data = [i \in Cells |-> NoValue]
  /\ enqueue_pos = 0
  /\ dequeue_pos = 0
  /\ pc = [t \in Threads |-> "idle"]
  /\ pos = [t \in Threads |-> 0]
  /\ val = [t \in Threads |-> NoValue]
  /\ calls = [t \in Threads |-> 0]
  /\ pushed = <<>>

Goto(t, place) == pc' = [pc EXCEPT ![t] = place]

-----------------------------------------------------------------------------
(* push_ts                                                                 *)

PushCall(p) ==
  /\ pc[p] = "idle"
  /\ calls[p] < MaxCalls
  /\ calls' = [calls EXCEPT ![p] = @ + 1]
  /\ val' = [val EXCEPT ![p] = <<p, calls[p] + 1>>]
  /\ pos' = [pos EXCEPT ![p] = enqueue_pos]
  /\ Goto(p, "check")
  /\ UNCHANGED <<sequence, data, enqueue_pos, dequeue_pos, pushed>>

\* Mutant: any difference but zero is taken for a full queue.
PushCheckNoReload(p) ==
  /\ pc[p] = "check"
  /\ Goto(p, IF sequence[CellOf(pos[p])] = pos[p] THEN "claim" ELSE "idle")
  /\ UNCHANGED <<sequence, data, enqueue_pos, dequeue_pos, pos, val, calls,
                 pushed>>

(* dif = seq - pos: zero, the cell is free; negative, it still holds the   *)
(* item of the lap before (return false); positive, pos is out of date.    *)
PushCheck(p) ==
  LET dif == sequence[CellOf(pos[p])] - pos[p]
  IN  /\ pc[p] = "check"
      /\ Goto(p, IF dif = 0 THEN "claim" ELSE IF dif < 0 THEN "idle"
                 ELSE "reload")
      /\ UNCHANGED <<sequence, data, enqueue_pos, dequeue_pos, pos, val,
                     calls, pushed>>

\* Mutant: the loop goes round without loading the position again.
PushReloadForgotten(p) ==
  /\ pc[p] = "reload"
  /\ Goto(p, "check")
  /\ UNCHANGED <<sequence, data, enqueue_pos, dequeue_pos, pos, val, calls,
                 pushed>>

PushReload(p) ==
  /\ pc[p] = "reload"
  /\ pos' = [pos EXCEPT ![p] = enqueue_pos]
  /\ Goto(p, "check")
  /\ UNCHANGED <<sequence, data, enqueue_pos, dequeue_pos, val, calls, pushed>>

\* Mutant: a load, a test and a store where the compare-exchange should be.
PushClaimNotAtomic(p) ==
  /\ pc[p] = "claim"
  /\ enqueue_pos' = pos[p] + 1
  /\ pushed' = Append(pushed, val[p])
  /\ Goto(p, "write")
  /\ UNCHANGED <<sequence, data, dequeue_pos, pos, val, calls>>

PushClaim(p) ==
  /\ pc[p] = "claim"
  /\ enqueue_pos = pos[p]
  /\ enqueue_pos' = pos[p] + 1
  /\ pushed' = Append(pushed, val[p])
  /\ Goto(p, "write")
  /\ UNCHANGED <<sequence, data, dequeue_pos, pos, val, calls>>

(* compare_exchange_weak fails, for a reason or for none, and leaves the   *)
(* value it found in pos.                                                  *)
PushClaimFails(p) ==
  /\ pc[p] = "claim"
  /\ pos' = [pos EXCEPT ![p] = enqueue_pos]
  /\ Goto(p, "check")
  /\ UNCHANGED <<sequence, data, enqueue_pos, dequeue_pos, val, calls, pushed>>

PushWrite(p) ==
  /\ pc[p] = "write"
  /\ data' = [data EXCEPT ![CellOf(pos[p])] = val[p]]
  /\ Goto(p, "publish")
  /\ UNCHANGED <<sequence, enqueue_pos, dequeue_pos, pos, val, calls, pushed>>

PushPublish(p) ==
  /\ pc[p] = "publish"
  /\ sequence' = [sequence EXCEPT ![CellOf(pos[p])] = pos[p] + 1]
  /\ Goto(p, "idle")
  /\ UNCHANGED <<data, enqueue_pos, dequeue_pos, pos, val, calls, pushed>>

-----------------------------------------------------------------------------
(* pop_ts                                                                  *)

PopCall(c) ==
  /\ pc[c] = "idle"
  /\ calls[c] < MaxCalls
  /\ calls' = [calls EXCEPT ![c] = @ + 1]
  /\ pos' = [pos EXCEPT ![c] = dequeue_pos]
  /\ Goto(c, "check")
  /\ UNCHANGED <<sequence, data, enqueue_pos, dequeue_pos, val, pushed>>

\* Mutant: the sequence is compared with pos, as in push.
PopCheckOffByOne(c) ==
  LET dif == sequence[CellOf(pos[c])] - pos[c]
  IN  /\ pc[c] = "check"
      /\ Goto(c, IF dif = 0 THEN "claim" ELSE IF dif < 0 THEN "idle"
                 ELSE "reload")
      /\ UNCHANGED <<sequence, data, enqueue_pos, dequeue_pos, pos, val,
                     calls, pushed>>

\* Mutant: any difference but zero is taken for an empty queue.
PopCheckNoReload(c) ==
  /\ pc[c] = "check"
  /\ Goto(c, IF sequence[CellOf(pos[c])] = pos[c] + 1 THEN "claim" ELSE "idle")
  /\ UNCHANGED <<sequence, data, enqueue_pos, dequeue_pos, pos, val, calls,
                 pushed>>

PopCheck(c) ==
  LET dif == sequence[CellOf(pos[c])] - (pos[c] + 1)
  IN  /\ pc[c] = "check"
      /\ Goto(c, IF dif = 0 THEN "claim" ELSE IF dif < 0 THEN "idle"
                 ELSE "reload")
      /\ UNCHANGED <<sequence, data, enqueue_pos, dequeue_pos, pos, val,
                     calls, pushed>>

PopReload(c) ==
  /\ pc[c] = "reload"
  /\ pos' = [pos EXCEPT ![c] = dequeue_pos]
  /\ Goto(c, "check")
  /\ UNCHANGED <<sequence, data, enqueue_pos, dequeue_pos, val, calls, pushed>>

PopClaim(c) ==
  /\ pc[c] = "claim"
  /\ dequeue_pos = pos[c]
  /\ dequeue_pos' = pos[c] + 1
  /\ Goto(c, "read")
  /\ UNCHANGED <<sequence, data, enqueue_pos, pos, val, calls, pushed>>

PopClaimFails(c) ==
  /\ pc[c] = "claim"
  /\ pos' = [pos EXCEPT ![c] = dequeue_pos]
  /\ Goto(c, "check")
  /\ UNCHANGED <<sequence, data, enqueue_pos, dequeue_pos, val, calls, pushed>>

PopRead(c) ==
  /\ pc[c] = "read"
  /\ val' = [val EXCEPT ![c] = data[CellOf(pos[c])]]
  /\ Goto(c, "release")
  /\ UNCHANGED <<sequence, data, enqueue_pos, dequeue_pos, pos, calls, pushed>>

\* Mutant: the sign of the lap is wrong.
PopReleaseBackwards(c) ==
  /\ pc[c] = "release"
  /\ sequence' = [sequence EXCEPT ![CellOf(pos[c])] = pos[c] - Size]
  /\ Goto(c, "idle")
  /\ UNCHANGED <<data, enqueue_pos, dequeue_pos, pos, val, calls, pushed>>

(* pos + mask + 1: the position that uses the cell on the next lap.        *)
PopRelease(c) ==
  /\ pc[c] = "release"
  /\ sequence' = [sequence EXCEPT ![CellOf(pos[c])] = pos[c] + Size]
  /\ Goto(c, "idle")
  /\ UNCHANGED <<data, enqueue_pos, dequeue_pos, pos, val, calls, pushed>>

-----------------------------------------------------------------------------
PushStep(p) ==
  \/ PushCheck(p) \/ PushReload(p) \/ PushClaim(p) \/ PushClaimFails(p)
  \/ PushWrite(p) \/ PushPublish(p)

PopStep(c) ==
  \/ PopCheck(c) \/ PopReload(c) \/ PopClaim(c) \/ PopClaimFails(c)
  \/ PopRead(c) \/ PopRelease(c)

Next ==
  \/ \E p \in Producers : PushCall(p) \/ PushStep(p)
  \/ \E c \in Consumers : PopCall(c) \/ PopStep(c)

Spec == Init /\ [][Next]_vars

(* A thread inside a call keeps running, and a weak compare-exchange does  *)
(* not fail for no reason for ever.  Nothing obliges a thread to call.     *)
Fairness ==
  /\ \A p \in Producers : WF_vars(PushStep(p)) /\ SF_vars(PushClaim(p))
  /\ \A c \in Consumers : WF_vars(PopStep(c)) /\ SF_vars(PopClaim(c))

FairSpec == Spec /\ Fairness

-----------------------------------------------------------------------------
(***************************************************************************)
(* Properties.                                                             *)
(***************************************************************************)

(* Type correctness. *)
TypeOK ==
  /\ sequence \in [Cells -> Nat]
  /\ data \in [Cells -> Values \cup {NoValue}]
  /\ enqueue_pos \in Nat
  /\ dequeue_pos \in Nat
  /\ pc \in [Threads -> {"idle", "check", "reload", "claim", "write",
                         "publish", "read", "release"}]
  /\ pos \in [Threads -> Nat]
  /\ val \in [Threads -> Values \cup {NoValue}]
  /\ calls \in [Threads -> 0 .. MaxCalls]
  /\ pushed \in Seq(Values)

Writing(t) == t \in Producers /\ pc[t] \in {"write", "publish"}
Reading(t) == t \in Consumers /\ pc[t] \in {"read", "release"}
Owns(t)    == Writing(t) \/ Reading(t)

(* No two threads are ever between the claim and the sequence store of the *)
(* same cell: the plain accesses to a cell's data never race.              *)
ExclusiveCell ==
  \A t, u \in Threads :
    t # u /\ Owns(t) /\ Owns(u) => CellOf(pos[t]) # CellOf(pos[u])

(* The item each consumer took last: the one it has claimed and not yet    *)
(* copied is still in the cell.                                            *)
LastTaken == [c \in Consumers |-> IF pc[c] = "read"
                                  THEN data[CellOf(pos[c])] ELSE val[c]]

(* The queue implements a bounded FIFO: a push takes effect when it claims *)
(* its position, a pop when it claims its own.                             *)
Fifo == INSTANCE BoundedFifo WITH
          Capacity <- Size, Items <- Values, NoItem <- NoValue,
          items <- pushed, taken <- dequeue_pos, out <- LastTaken
ImplementsFifo == Fifo!FifoSpec

(* push_ts reports a full queue only if it is full, or a consumer is still *)
(* busy with a cell it has claimed.                                        *)
FullIsReal ==
  [][\A p \in Producers : pc[p] = "check" /\ pc'[p] = "idle" =>
       \/ enqueue_pos - dequeue_pos = Size
       \/ \E c \in Consumers : Reading(c)]_vars

(* pop_ts reports an empty queue only if it is empty, or a producer is     *)
(* still busy with a cell it has claimed.                                  *)
EmptyIsReal ==
  [][\A c \in Consumers : pc[c] = "check" /\ pc'[c] = "idle" =>
       \/ enqueue_pos = dequeue_pos
       \/ \E p \in Producers : Writing(p)]_vars

(* Every call returns: a thread that loses a race learns the new position. *)
CallsReturn == \A t \in Threads : pc[t] # "idle" ~> pc[t] = "idle"
=============================================================================

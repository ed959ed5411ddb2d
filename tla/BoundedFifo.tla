----------------------------- MODULE BoundedFifo -----------------------------
(***************************************************************************)
(* What a bounded first-in-first-out queue promises, whatever its threads  *)
(* do: items leave in the order they entered, each once, and at most       *)
(* Capacity are inside.  The queue keeps every item ever put in and how    *)
(* many were taken; its contents are the ones between.                     *)
(***************************************************************************)
EXTENDS Integers, Sequences

CONSTANTS Capacity, Items, Consumers, NoItem

VARIABLES
  items,   \* every item ever put in, oldest first
  taken,   \* how many of them have left
  out      \* per consumer: the item it took last

fifoVars == <<items, taken, out>>

FifoInit ==
  /\ items = <<>>
  /\ taken = 0
  /\ out = [c \in Consumers |-> NoItem]

Put(v) ==
  /\ Len(items) - taken < Capacity
  /\ items' = Append(items, v)
  /\ UNCHANGED <<taken, out>>

Take(c) ==
  /\ taken < Len(items)
  /\ out' = [out EXCEPT ![c] = items[taken + 1]]
  /\ taken' = taken + 1
  /\ UNCHANGED items

FifoNext == (\E v \in Items : Put(v)) \/ (\E c \in Consumers : Take(c))

FifoSpec == FifoInit /\ [][FifoNext]_fifoVars
=============================================================================

----------------------------- MODULE FreeListMpsc -----------------------------
(***************************************************************************)
(* The _mpsc allocators of base/freelist.hpp, paged and of fixed size: one *)
(* owner thread calls add() and remove(), other threads free with          *)
(* remove_ts(), which pushes on a second list, the bin.  An owner whose    *)
(* list is empty takes over the bin before it adds a page.                 *)
(***************************************************************************)
EXTENDS FreeList

CONSTANT Removers   \* threads that call remove_ts

VARIABLES
  bin,     \* atomic: head of the removers' list
  target   \* per remover: the node it is freeing, or Nil

vars == <<listVars, bin, target>>

InitTs ==
  /\ Init
  /\ bin = Nil
  /\ target = [t \in Removers |-> Nil]

(* add() when the owner's list is empty and the bin is not. *)
TakeOverBin ==
  /\ free = Nil
  /\ bin # Nil
  /\ bin' = Nil
  /\ Take(bin, next)
  /\ UNCHANGED <<pages, target>>

AddTs ==
  \/ TakeOverBin
  \/ /\ free # Nil \/ bin = Nil
     /\ Add
     /\ UNCHANGED <<bin, target>>

RemoveOwn(n) == Remove(n) /\ UNCHANGED <<bin, target>>

(* remove_ts() links the node to the head it reads ...                     *)
BinLoad(t, n) ==
  /\ target[t] = Nil
  /\ n \in held
  /\ next' = [next EXCEPT ![n] = bin]
  /\ held' = held \ {n}
  /\ target' = [target EXCEPT ![t] = n]
  /\ UNCHANGED <<growable, pages, free, bin>>

(* ... and makes it the head, and again, for as long as that succeeds.  A  *)
(* failure, real or spurious, stores the head found in the link.           *)
BinCasSucceeds(t) ==
  /\ target[t] # Nil
  /\ bin = next[target[t]]
  /\ bin' = target[t]
  /\ UNCHANGED <<listVars, target>>

BinCasFails(t) ==
  /\ target[t] # Nil
  /\ next' = [next EXCEPT ![target[t]] = bin]
  /\ target' = [target EXCEPT ![t] = Nil]
  /\ UNCHANGED <<growable, pages, free, held, bin>>

NextTs ==
  \/ AddTs
  \/ \E n \in Nodes : RemoveOwn(n)
  \/ \E t \in Removers :
       BinCasSucceeds(t) \/ BinCasFails(t) \/ \E n \in Nodes : BinLoad(t, n)

SpecTs == InitTs /\ [][NextTs]_vars

-----------------------------------------------------------------------------
(* The nodes reached from the head. *)
Reached ==
  LET R[k \in 0 .. Cardinality(Nodes)] ==
        IF k = 0 THEN {free} \cap Nodes
        ELSE LET near == R[k - 1]
             IN  near \cup ({next[n] : n \in near} \cap Nodes)
  IN  R[Cardinality(Nodes)]

(* What the comment in remove_ts promises: "1) checks bin ==               *)
(* removed_node->next, 2) if false -> removed_node->next = bin, 3) if true *)
(* -> bin = removed_node", that is, the node is pushed.  Once its remover  *)
(* has returned, the list add() takes from holds no node in use.           *)
FreedIsNotHeld ==
  (\A t \in Removers : target[t] = Nil) => held \cap Reached = {}
=============================================================================

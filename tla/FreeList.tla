------------------------------- MODULE FreeList -------------------------------
(***************************************************************************)
(* The free-list allocators of base/freelist.hpp as one thread uses them.  *)
(* add() takes the head of the list; remove() puts a node back as the      *)
(* head.  The paged allocator adds a page of fresh nodes when the list is  *)
(* empty, the fixed-size one has the page it was made with, and clear()    *)
(* makes all of it free again.                                             *)
(*                                                                         *)
(* A node is a union of the object and the link: constructing an object    *)
(* overwrites the link, which is then Garbage.  FreeListMpsc adds the      *)
(* threads that free with remove_ts.                                       *)
(***************************************************************************)
EXTENDS Integers, FiniteSets

CONSTANTS
  PageSize,   \* PAGE_SIZE
  MaxPages,   \* bound: pages the owner may add
  Nil,        \* nullptr
  Garbage     \* what an object leaves in place of the link

Nodes    == 1 .. PageSize * MaxPages
Pointers == Nodes \cup {Nil}

ASSUME PageAssumption == PageSize \in Nat \ {0} /\ MaxPages \in Nat \ {0}
ASSUME LinkAssumption == Nil # Garbage /\ Nil \notin Nodes /\ Garbage \notin Nodes

VARIABLES
  growable,  \* the allocator adds pages; FALSE for the fixed-size ones
  pages,     \* pages so far; their nodes are 1 .. pages * PageSize
  free,      \* head of the list
  next,      \* per node: its link
  held       \* the nodes that the program holds an object in

listVars == <<growable, pages, free, next, held>>

PageNodes(k) == (k - 1) * PageSize + 1 .. k * PageSize

\* Mutant: the last node of a page links to the one after the page.
FreshPageOpen(k, links) ==
  [n \in Nodes |-> IF n \in PageNodes(k) THEN n + 1 ELSE links[n]]

(* The links after add_page() and clear(): the page's nodes, each linked   *)
(* to the one after it.  The first one becomes the head.                   *)
FreshPage(k, links) ==
  [n \in Nodes |-> IF n \notin PageNodes(k) THEN links[n]
                   ELSE IF n = k * PageSize THEN Nil ELSE n + 1]

Fresh == [n \in Nodes |-> Garbage]

Init ==
  /\ held = {}
  /\ growable \in BOOLEAN
  /\ \/ growable /\ pages = 0 /\ free = Nil /\ next = Fresh
     \/ ~growable /\ pages = 1 /\ free = 1 /\ next = FreshPage(1, Fresh)

(* The head that add() is about to take is n, on a list linked by links.   *)
Take(n, links) ==
  /\ free' = links[n]
  /\ next' = [links EXCEPT ![n] = Garbage]
  /\ held' = held \cup {n}
  /\ UNCHANGED growable

(* An exhausted fixed-size allocator must not be asked for a node.         *)
Add ==
  \/ /\ free # Nil
     /\ Take(free, next)
     /\ UNCHANGED pages
  \/ /\ free = Nil
     /\ growable
     /\ pages < MaxPages
     /\ Take(pages * PageSize + 1, FreshPage(pages + 1, next))
     /\ pages' = pages + 1

\* Mutant: the removed node becomes the head without being linked.
RemoveUnlinked(n) ==
  /\ n \in held
  /\ free' = n
  /\ held' = held \ {n}
  /\ UNCHANGED <<growable, pages, next>>

Remove(n) ==
  /\ n \in held
  /\ next' = [next EXCEPT ![n] = free]
  /\ free' = n
  /\ held' = held \ {n}
  /\ UNCHANGED <<growable, pages>>

(* The program holds no object of the allocator any more.                  *)
Clear ==
  /\ ~growable
  /\ free' = 1
  /\ next' = FreshPage(1, next)
  /\ held' = {}
  /\ UNCHANGED <<growable, pages>>

Next == Add \/ Clear \/ \E n \in Nodes : Remove(n)

Spec == Init /\ [][Next]_listVars

-----------------------------------------------------------------------------
(* Type correctness: no link ever leads outside the pages.                 *)
TypeOK ==
  /\ growable \in BOOLEAN
  /\ pages \in 0 .. MaxPages
  /\ ~growable => pages = 1
  /\ free \in Pointers
  /\ next \in [Nodes -> Pointers \cup {Garbage}]
  /\ held \subseteq Nodes

FreeNodes == (1 .. pages * PageSize) \ held

(* Used by one thread, the allocator neither loses nor duplicates a node,  *)
(* in whatever order objects are freed: the list never leads to a node in  *)
(* use, every node of the pages that is not in use is reached from the     *)
(* head (no set of them is closed off from the rest), and the list ends.   *)
Partition ==
  /\ free \in FreeNodes \cup {Nil}
  /\ \A n \in FreeNodes : next[n] \in FreeNodes \cup {Nil}
  /\ \A S \in SUBSET FreeNodes :
       S # {} /\ free \notin S => \E n \in FreeNodes \ S : next[n] \in S
  /\ FreeNodes # {} => \E n \in FreeNodes : next[n] = Nil
=============================================================================

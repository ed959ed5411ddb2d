--------------------------- MODULE FreeList_proofs ---------------------------
(***************************************************************************)
(* Proofs about FreeList, for pages of any size and any number of them,    *)
(* growing or not.                                                         *)
(*                                                                         *)
(* Partition is not inductive: taking the head must leave no other node    *)
(* linked to it.  A list is therefore also linked one to one: no node      *)
(* leads to the head and no two lead to the same place.                    *)
(***************************************************************************)
EXTENDS FreeList, WellFoundedInduction, TLAPS

(* The nodes of F, and no others, are linked from head to Nil.             *)
IsList(head, links, F) ==
  /\ head \in F \cup {Nil}
  /\ \A n \in F : links[n] \in F \cup {Nil}
  /\ \A S \in SUBSET F : S # {} /\ head \notin S => \E n \in F \ S : links[n] \in S
  /\ F # {} => \E n \in F : links[n] = Nil
  /\ \A n \in F : links[n] # head
  /\ \A m, n \in F : links[m] = links[n] => m = n

IInv ==
  /\ TypeOK
  /\ held \subseteq 1 .. pages * PageSize
  /\ IsList(free, next, FreeNodes)

(***************************************************************************)
(* A set of numbers has a least one.                                       *)
(***************************************************************************)
Less == {pair \in Nat \X Nat : pair[1] < pair[2]}

LEMMA LessWellFounded == IsWellFoundedOn(Less, Nat)
  BY NatLessThanWellFounded DEF OpToRel, Less

LEMMA Least ==
  ASSUME NEW S, S \subseteq Nat, S # {}
  PROVE  \E m \in S : \A k \in S : m <= k
<1>1. PICK m \in S : \A k \in S : ~ (<<k, m>> \in Less)
  BY LessWellFounded, WFMin
<1>2. ASSUME NEW k \in S, k < m PROVE FALSE
  <2>1. <<k, m>> \in Less
    BY <1>2 DEF Less
  <2>2. QED
    BY <1>1, <2>1
<1>3. QED
  BY <1>2

(***************************************************************************)
(* A fresh page.                                                           *)
(***************************************************************************)
(* The nodes of a page and their links. *)
LEMMA PageFacts ==
  ASSUME NEW k \in 1 .. MaxPages, NEW links \in [Nodes -> Pointers \cup {Garbage}]
  PROVE  LET first == (k - 1) * PageSize + 1
             last  == k * PageSize
             fresh == FreshPage(k, links)
         IN  /\ first \in Nat /\ last \in Nat /\ first <= last /\ first > 0
             /\ last - first + 1 = PageSize
             /\ PageNodes(k) = first .. last /\ PageNodes(k) \subseteq Nodes
             /\ fresh \in [Nodes -> Pointers \cup {Garbage}]
             /\ \A n \in first .. last : fresh[n] = IF n = last THEN Nil ELSE n + 1
<1> DEFINE first == (k - 1) * PageSize + 1
           last  == k * PageSize
           most  == MaxPages * PageSize
<1>1. PageSize \in Nat \ {0} /\ MaxPages \in Nat \ {0} /\ k \in Nat
  BY PageAssumption
<1>2. /\ (k - 1) * PageSize \in Nat /\ last \in Nat /\ most \in Nat
      /\ last = (k - 1) * PageSize + PageSize
      /\ last <= most
  BY <1>1
<1>3. PageNodes(k) = first .. last /\ Nodes = 1 .. most
  BY <1>1 DEF PageNodes, Nodes
<1> HIDE DEF last, most
<1>4. /\ first \in Nat /\ first <= last /\ first > 0 /\ last - first + 1 = PageSize
      /\ first .. last \subseteq Nodes
  BY <1>1, <1>2, <1>3
<1> HIDE DEF first
<1>5. \A n \in first .. last : n # last => n + 1 \in Nodes
  <2>1. first \in Nat /\ last \in Nat /\ most \in Nat /\ last <= most /\ first > 0
    BY <1>2, <1>4
  <2>2. \A n \in first .. last : n # last => n + 1 \in 1 .. most
    BY <2>1
  <2>3. QED
    BY <1>3, <2>2
<1>6. FreshPage(k, links)
        = [n \in Nodes |-> IF n \notin first .. last THEN links[n]
                           ELSE IF n = last THEN Nil ELSE n + 1]
  BY <1>3, Zenon DEF FreshPage, last
<1>7. FreshPage(k, links) \in [Nodes -> Pointers \cup {Garbage}]
  BY <1>5, <1>6 DEF Pointers
<1>8. \A n \in first .. last : FreshPage(k, links)[n] = IF n = last THEN Nil ELSE n + 1
  BY <1>4, <1>6
<1>9. QED
  BY <1>2, <1>3, <1>4, <1>7, <1>8 DEF first, last

LEMMA FreshList ==
  ASSUME NEW k \in 1 .. MaxPages, NEW links \in [Nodes -> Pointers \cup {Garbage}]
  PROVE  /\ IsList((k - 1) * PageSize + 1, FreshPage(k, links), PageNodes(k))
         /\ (k - 1) * PageSize + 1 \in PageNodes(k)
<1> DEFINE first == (k - 1) * PageSize + 1
           last  == k * PageSize
           fresh == FreshPage(k, links)
           F     == PageNodes(k)
<1>1. /\ first \in Nat /\ last \in Nat /\ first <= last /\ first > 0
      /\ F = first .. last /\ F \subseteq Nodes
      /\ \A n \in first .. last : fresh[n] = IF n = last THEN Nil ELSE n + 1
  BY PageFacts
<1>2. \A n \in F : n # Nil
  BY <1>1, LinkAssumption
<1> HIDE DEF first, last, fresh, F
<1>3. first \in F /\ last \in F
  BY <1>1
<1>4. \A n \in F : n # last => fresh[n] = n + 1 /\ n + 1 \in F /\ n + 1 # first
  BY <1>1
<1>5. fresh[last] = Nil
  BY <1>1, <1>3
<1>6. \A n \in F : fresh[n] \in F \cup {Nil} /\ fresh[n] # first
  <2> SUFFICES ASSUME NEW n \in F PROVE fresh[n] \in F \cup {Nil} /\ fresh[n] # first
    OBVIOUS
  <2>1. CASE n = last
    BY <1>2, <1>3, <1>5, <2>1
  <2>2. CASE n # last
    BY <1>4, <2>2
  <2>3. QED
    BY <2>1, <2>2
<1>7. ASSUME NEW m \in F, NEW n \in F, fresh[m] = fresh[n]
      PROVE  m = n
  <2>1. CASE m = last
    <3>1. fresh[n] \notin F
      BY <1>2, <1>5, <1>7, <2>1
    <3>2. QED
      BY <1>4, <2>1, <3>1
  <2>2. CASE n = last
    <3>1. fresh[m] \notin F
      BY <1>2, <1>5, <1>7, <2>2
    <3>2. QED
      BY <1>4, <2>2, <3>1
  <2>3. CASE m # last /\ n # last
    <3>1. m + 1 = n + 1
      BY <1>4, <1>7, <2>3
    <3>2. QED
      BY <1>1, <3>1
  <2>4. QED
    BY <2>1, <2>2, <2>3
<1>8. ASSUME NEW S \in SUBSET F, S # {}, first \notin S
      PROVE  \E n \in F \ S : fresh[n] \in S
  <2>1. S \subseteq Nat
    BY <1>1
  <2>2. PICK m \in S : \A j \in S : m <= j
    BY <1>8, <2>1, Least
  <2>3. m \in F /\ m # first
    BY <1>8
  <2>4. m - 1 \in F /\ m - 1 # last /\ (m - 1) + 1 = m
    BY <1>1, <2>3
  <2>5. m - 1 \notin S
    BY <2>1, <2>2
  <2>6. fresh[m - 1] = m
    BY <1>4, <2>4
  <2>7. QED
    BY <2>4, <2>5, <2>6
<1>9. IsList(first, fresh, F)
  BY <1>3, <1>5, <1>6, <1>7, <1>8 DEF IsList
<1>10. QED
  BY <1>3, <1>9 DEF first, fresh, F

(***************************************************************************)
(* Taking the head, and putting a node back.                               *)
(***************************************************************************)
LEMMA TakeList ==
  ASSUME NEW links \in [Nodes -> Pointers \cup {Garbage}], NEW F, F \subseteq Nodes,
         NEW head, head \in F, IsList(head, links, F)
  PROVE  IsList(links[head], [links EXCEPT ![head] = Garbage], F \ {head})
<1> DEFINE rest  == F \ {head}
           taken == [links EXCEPT ![head] = Garbage]
           h     == links[head]
<1>1. \A n \in rest : taken[n] = links[n]
  OBVIOUS
<1>2. h # head /\ h \in rest \cup {Nil}
  BY DEF IsList
<1>3. \A n \in rest : links[n] \in rest \cup {Nil} /\ links[n] # h
  BY DEF IsList
<1>4. \A m, n \in rest : links[m] = links[n] => m = n
  BY DEF IsList
<1>5. ASSUME NEW S \in SUBSET rest, S # {}, h \notin S
      PROVE  \E n \in rest \ S : links[n] \in S
  <2>1. PICK n \in F \ S : links[n] \in S
    BY <1>5 DEF IsList
  <2>2. n # head
    BY <1>5, <2>1
  <2>3. QED
    BY <2>1, <2>2
<1>6. ASSUME rest # {} PROVE \E n \in rest : links[n] = Nil
  <2>1. PICK n \in F : links[n] = Nil
    BY DEF IsList
  <2>2. CASE n # head
    BY <2>1, <2>2
  <2>3. CASE n = head
    <3>1. PICK m \in F \ rest : links[m] \in rest
      BY <1>6 DEF IsList
    <3>2. Nil \notin rest
      BY LinkAssumption
    <3>3. QED
      BY <2>1, <2>3, <3>1, <3>2
  <2>4. QED
    BY <2>2, <2>3
<1> HIDE DEF rest, taken, h
<1>7. IsList(h, taken, rest)
  BY <1>1, <1>2, <1>3, <1>4, <1>5, <1>6 DEF IsList
<1>8. QED
  BY <1>7 DEF rest, taken, h

LEMMA PutList ==
  ASSUME NEW links \in [Nodes -> Pointers \cup {Garbage}], NEW F, F \subseteq Nodes,
         NEW head, IsList(head, links, F), NEW n \in Nodes, n \notin F
  PROVE  IsList(n, [links EXCEPT ![n] = head], F \cup {n})
<1> DEFINE more == F \cup {n}
           put  == [links EXCEPT ![n] = head]
<1>1. put[n] = head /\ \A m \in F : put[m] = links[m]
  OBVIOUS
<1>2. n # Nil /\ head # n /\ head \in F \cup {Nil} /\ n \in more
  BY LinkAssumption DEF IsList
<1>3. head = Nil => F = {}
  <2>1. ASSUME head = Nil, F # {} PROVE FALSE
    <3>1. head \notin F
      BY <2>1, LinkAssumption
    <3>2. QED
      BY <2>1, <3>1 DEF IsList
  <2>2. QED
    BY <2>1
<1>4. \A m \in more : put[m] \in more \cup {Nil} /\ put[m] # n
  BY <1>1, <1>2, LinkAssumption DEF IsList
<1>5. \A m, j \in more : put[m] = put[j] => m = j
  BY <1>1, <1>3 DEF IsList
<1>6. ASSUME NEW S \in SUBSET more, S # {}, n \notin S
      PROVE  \E m \in more \ S : put[m] \in S
  <2>1. S \in SUBSET F
    BY <1>6
  <2>2. CASE head \in S
    BY <1>1, <1>2, <1>6, <2>2
  <2>3. CASE head \notin S
    <3>1. PICK m \in F \ S : links[m] \in S
      BY <1>6, <2>1, <2>3 DEF IsList
    <3>2. QED
      BY <1>1, <3>1
  <2>4. QED
    BY <2>2, <2>3
<1>7. \E m \in more : put[m] = Nil
  <2>1. CASE head = Nil
    BY <1>1, <1>2, <2>1
  <2>2. CASE head # Nil
    <3>1. PICK m \in F : links[m] = Nil
      BY <1>2, <2>2 DEF IsList
    <3>2. QED
      BY <1>1, <3>1
  <2>3. QED
    BY <2>1, <2>2
<1> HIDE DEF more, put
<1>8. IsList(n, put, more)
  BY <1>2, <1>4, <1>5, <1>6, <1>7 DEF IsList
<1>9. QED
  BY <1>8 DEF more, put

(***************************************************************************)
(* The steps.                                                              *)
(***************************************************************************)
(* The nodes of the first pages. *)
LEMMA PagesFacts ==
  ASSUME NEW k \in 0 .. MaxPages
  PROVE  /\ 1 .. k * PageSize \subseteq Nodes
         /\ k < MaxPages => /\ k + 1 \in 1 .. MaxPages
                            /\ ((k + 1) - 1) * PageSize + 1 = k * PageSize + 1
                            /\ 1 .. (k + 1) * PageSize
                                 = (1 .. k * PageSize) \cup PageNodes(k + 1)
                            /\ (1 .. k * PageSize) \cap PageNodes(k + 1) = {}
         /\ 1 \in 1 .. MaxPages /\ (1 - 1) * PageSize + 1 = 1
         /\ PageNodes(1) = 1 .. 1 * PageSize
<1>1. PageSize \in Nat \ {0} /\ MaxPages \in Nat \ {0} /\ k \in Nat
  BY PageAssumption
<1>2. /\ k * PageSize \in Nat /\ MaxPages * PageSize \in Nat
      /\ k * PageSize <= MaxPages * PageSize
      /\ PageSize * MaxPages = MaxPages * PageSize
  BY <1>1
<1>3. 1 .. k * PageSize \subseteq Nodes
  BY <1>2 DEF Nodes
<1>4. ((k + 1) - 1) * PageSize = k * PageSize /\ (k + 1) * PageSize = k * PageSize + PageSize
  BY <1>1
<1>5. PageNodes(k + 1) = k * PageSize + 1 .. k * PageSize + PageSize
  BY <1>4 DEF PageNodes
<1>6. /\ 1 .. k * PageSize + PageSize = (1 .. k * PageSize) \cup PageNodes(k + 1)
      /\ (1 .. k * PageSize) \cap PageNodes(k + 1) = {}
  BY <1>1, <1>2, <1>5
<1>7. /\ 1 \in 1 .. MaxPages /\ (1 - 1) * PageSize = 0 /\ 1 * PageSize = PageSize
      /\ k < MaxPages => k + 1 \in 1 .. MaxPages
  BY <1>1
<1>8. PageNodes(1) = 1 .. 1 * PageSize
  BY <1>7 DEF PageNodes
<1>9. QED
  BY <1>3, <1>4, <1>6, <1>7, <1>8

THEOREM InitInv == Init => IInv
<1> SUFFICES ASSUME Init PROVE IInv
  OBVIOUS
<1>1. Fresh \in [Nodes -> Pointers \cup {Garbage}] /\ held = {} /\ growable \in BOOLEAN
  BY DEF Init, Fresh
<1>2. 0 \in 0 .. MaxPages /\ 1 \in 0 .. MaxPages /\ 1 \in 1 .. MaxPages /\ PageSize \in Nat
  BY PageAssumption
<1>3. CASE growable /\ pages = 0 /\ free = Nil /\ next = Fresh
  <2>1. TypeOK
    BY <1>1, <1>2, <1>3 DEF TypeOK, Pointers
  <2>2. FreeNodes = {}
    BY <1>2, <1>3 DEF FreeNodes
  <2>3. IsList(free, next, {})
    BY <1>3 DEF IsList
  <2>4. QED
    BY <1>1, <2>1, <2>2, <2>3 DEF IInv
<1>4. CASE ~growable /\ pages = 1 /\ free = 1 /\ next = FreshPage(1, Fresh)
  <2>1. FreeNodes = PageNodes(1) /\ PageNodes(1) \subseteq Nodes
    BY <1>1, <1>2, <1>4, PagesFacts DEF FreeNodes
  <2>2. IsList(1, next, FreeNodes) /\ 1 \in FreeNodes
    BY <1>1, <1>2, <1>4, <2>1, FreshList, PagesFacts
  <2>3. next \in [Nodes -> Pointers \cup {Garbage}]
    BY <1>1, <1>2, <1>4, PageFacts
  <2>4. TypeOK
    BY <1>1, <1>2, <1>4, <2>1, <2>2, <2>3 DEF TypeOK, Pointers
  <2>5. QED
    BY <1>1, <1>4, <2>2, <2>4 DEF IInv
<1>5. QED
  BY <1>3, <1>4 DEF Init

(* A list of no nodes has no head. *)
LEMMA NoHead ==
  ASSUME IInv
  PROVE  /\ free # Nil => free \in FreeNodes
         /\ free = Nil => FreeNodes = {}
         /\ FreeNodes \subseteq Nodes
<1>1. FreeNodes \subseteq Nodes
  BY PagesFacts DEF IInv, TypeOK, FreeNodes
<1>2. free # Nil => free \in FreeNodes
  BY DEF IInv, IsList
<1>3. ASSUME free = Nil, FreeNodes # {} PROVE FALSE
  <2>1. free \notin FreeNodes
    BY <1>1, <1>3, LinkAssumption
  <2>2. PICK n \in FreeNodes \ FreeNodes : TRUE
    BY <1>3, <2>1 DEF IInv, IsList
  <2>3. QED
    BY <2>2
<1>4. QED
  BY <1>1, <1>2, <1>3

(* What the head leads to, once it is taken. *)
LEMMA TakeTypes ==
  ASSUME NEW links \in [Nodes -> Pointers \cup {Garbage}], NEW F, F \subseteq Nodes,
         NEW head, head \in F, IsList(head, links, F), Take(head, links)
  PROVE  /\ free' \in Pointers /\ next' \in [Nodes -> Pointers \cup {Garbage}]
         /\ IsList(free', next', F \ {head}) /\ held' = held \cup {head}
         /\ growable' = growable
<1>1. links[head] \in Pointers
  BY DEF IsList, Pointers
<1>2. IsList(links[head], [links EXCEPT ![head] = Garbage], F \ {head})
  BY TakeList
<1>3. QED
  BY <1>1, <1>2 DEF Take

LEMMA AddStep == ASSUME IInv, Add PROVE IInv'
<1>1. /\ TypeOK /\ held \subseteq 1 .. pages * PageSize /\ IsList(free, next, FreeNodes)
      /\ next \in [Nodes -> Pointers \cup {Garbage}] /\ pages \in 0 .. MaxPages
      /\ growable \in BOOLEAN /\ (~growable => pages = 1) /\ held \subseteq Nodes
  BY DEF IInv, TypeOK
<1>2. CASE free # Nil /\ Take(free, next) /\ UNCHANGED pages
  <2>1. free \in FreeNodes /\ FreeNodes \subseteq Nodes
    BY <1>2, NoHead
  <2>2. /\ free' \in Pointers /\ next' \in [Nodes -> Pointers \cup {Garbage}]
        /\ IsList(free', next', FreeNodes \ {free}) /\ held' = held \cup {free}
        /\ growable' = growable
    BY <1>1, <1>2, <2>1, TakeTypes
  <2>3. FreeNodes' = FreeNodes \ {free}
    BY <1>2, <2>2 DEF FreeNodes
  <2>4. free \in 1 .. pages * PageSize
    BY <2>1 DEF FreeNodes
  <2>5. TypeOK'
    BY <1>1, <1>2, <2>1, <2>2 DEF TypeOK
  <2>6. QED
    BY <1>1, <1>2, <2>2, <2>3, <2>4, <2>5 DEF IInv
<1>3. CASE /\ free = Nil /\ growable /\ pages < MaxPages /\ pages' = pages + 1
           /\ Take(pages * PageSize + 1, FreshPage(pages + 1, next))
  <2> DEFINE F     == PageNodes(pages + 1)
             first == pages * PageSize + 1
             fresh == FreshPage(pages + 1, next)
             old   == 1 .. pages * PageSize
  <2>1. /\ pages + 1 \in 1 .. MaxPages /\ pages + 1 \in 0 .. MaxPages
        /\ ((pages + 1) - 1) * PageSize + 1 = first
        /\ 1 .. (pages + 1) * PageSize = old \cup F
        /\ old \cap F = {}
    BY <1>1, <1>3, PagesFacts, PageAssumption
  <2>2. /\ fresh \in [Nodes -> Pointers \cup {Garbage}] /\ F \subseteq Nodes
    BY <1>1, <2>1, PageFacts
  <2>3. IsList(first, fresh, F) /\ first \in F
    BY <1>1, <2>1, FreshList
  <2>4. FreeNodes = {} /\ held = old
    BY <1>1, <1>3, NoHead DEF FreeNodes
  <2> HIDE DEF F, fresh, old, first
  <2>5. /\ free' \in Pointers /\ next' \in [Nodes -> Pointers \cup {Garbage}]
        /\ IsList(free', next', F \ {first}) /\ held' = held \cup {first}
        /\ growable' = growable
    BY <1>3, <2>2, <2>3, TakeTypes DEF fresh, first
  <2>6. FreeNodes' = F \ {first}
    BY <1>3, <2>1, <2>3, <2>4, <2>5 DEF FreeNodes
  <2>7. held' \subseteq 1 .. pages' * PageSize
    BY <1>3, <2>1, <2>3, <2>4, <2>5
  <2>8. TypeOK'
    BY <1>1, <1>3, <2>1, <2>2, <2>3, <2>5 DEF TypeOK
  <2>9. QED
    BY <2>5, <2>6, <2>7, <2>8 DEF IInv
<1>4. QED
  BY <1>2, <1>3 DEF Add

LEMMA RemoveStep == ASSUME IInv, NEW n \in Nodes, Remove(n) PROVE IInv'
<1>1. /\ TypeOK /\ held \subseteq 1 .. pages * PageSize /\ IsList(free, next, FreeNodes)
      /\ n \in held /\ next' = [next EXCEPT ![n] = free] /\ free' = n /\ held' = held \ {n}
      /\ UNCHANGED <<growable, pages>>
  BY DEF IInv, Remove
<1>2. TypeOK'
  BY <1>1 DEF TypeOK, Pointers
<1>3. n \notin FreeNodes /\ FreeNodes' = FreeNodes \cup {n} /\ FreeNodes \subseteq Nodes
  BY <1>1, NoHead DEF FreeNodes
<1>4. IsList(n, next', FreeNodes \cup {n})
  BY <1>1, <1>3, PutList DEF TypeOK
<1>5. held' \subseteq 1 .. pages' * PageSize
  BY <1>1
<1>6. QED
  BY <1>1, <1>2, <1>3, <1>4, <1>5 DEF IInv

LEMMA ClearStep == ASSUME IInv, Clear PROVE IInv'
<1>1. /\ TypeOK /\ ~growable /\ pages = 1 /\ free' = 1 /\ next' = FreshPage(1, next)
      /\ held' = {} /\ UNCHANGED <<growable, pages>>
      /\ next \in [Nodes -> Pointers \cup {Garbage}]
  BY DEF IInv, TypeOK, Clear
<1>2. /\ 1 \in 1 .. MaxPages /\ 1 \in 0 .. MaxPages /\ (1 - 1) * PageSize + 1 = 1
      /\ PageNodes(1) = 1 .. 1 * PageSize
  BY PagesFacts, PageAssumption
<1>3. FreeNodes' = PageNodes(1)
  BY <1>1, <1>2 DEF FreeNodes
<1>4. IsList(1, next', PageNodes(1)) /\ 1 \in PageNodes(1)
  BY <1>1, <1>2, FreshList
<1>5. next' \in [Nodes -> Pointers \cup {Garbage}] /\ PageNodes(1) \subseteq Nodes
  BY <1>1, <1>2, PageFacts
<1>6. TypeOK'
  BY <1>1, <1>2, <1>4, <1>5 DEF TypeOK, Pointers
<1>7. QED
  BY <1>1, <1>3, <1>4, <1>6 DEF IInv

THEOREM NextInv == IInv /\ [Next]_listVars => IInv'
<1> SUFFICES ASSUME IInv, [Next]_listVars PROVE IInv'
  OBVIOUS
<1>1. CASE Add
  BY <1>1, AddStep
<1>2. CASE Clear
  BY <1>2, ClearStep
<1>3. ASSUME NEW n \in Nodes, Remove(n) PROVE IInv'
  BY <1>3, RemoveStep
<1>4. CASE UNCHANGED listVars
  BY <1>4 DEF IInv, TypeOK, listVars, FreeNodes, IsList
<1>5. QED
  BY <1>1, <1>2, <1>3, <1>4 DEF Next

(* No link of the allocator ever leads outside its pages.                  *)
THEOREM TypeCorrect == Spec => []TypeOK
<1>1. IInv => TypeOK
  BY DEF IInv
<1>2. QED
  BY InitInv, NextInv, <1>1, PTL DEF Spec

(* add(), remove() and clear(), in any order and over any number of pages, *)
(* neither lose a node nor hand one out twice.                             *)
THEOREM PartitionCorrect == Spec => []Partition
<1>1. IInv => Partition
  BY DEF IInv, IsList, Partition
<1>2. QED
  BY InitInv, NextInv, <1>1, PTL DEF Spec
=============================================================================

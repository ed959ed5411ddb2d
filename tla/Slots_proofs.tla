---------------------------- MODULE Slots_proofs ----------------------------
(***************************************************************************)
(* Proofs about Slots, for any number of slots, of calls of fire() and of  *)
(* walks inside one another.                                               *)
(*                                                                         *)
(* connect() puts the new slot at the front, so every list is in the       *)
(* descending order of the slots' numbers, and what is connected under a   *)
(* walk has a higher number than the slot it is calling: the walk has left *)
(* it behind before it was there.  The invariant says this of every walk.  *)
(***************************************************************************)
EXTENDS Slots, SequenceTheorems, TLAPS

Descending(seq) == \A i, j \in 1 .. Len(seq) : i < j => seq[i] > seq[j]

Sorted ==
  /\ Descending(m_slots)
  /\ \A i \in 1 .. Len(m_slots) : m_slots[i] <= connected

Walks == [at : SlotIds, start : Seq(SlotIds), called : Seq(SlotIds)]

(* A walk has called, of the list it started with, what is at the slot it   *)
(* is calling or before and still connected; and what is behind that slot   *)
(* now was in that list.                                                   *)
WalkOK(walk) ==
  /\ Descending(walk.start) /\ Descending(walk.called)
  /\ \A i \in 1 .. Len(walk.start) : walk.start[i] <= connected
  /\ Len(walk.called) > 0 /\ walk.called[Len(walk.called)] = walk.at
  /\ \A i \in 1 .. Len(walk.called) : Contains(walk.start, walk.called[i])
  /\ Contains(m_slots, walk.at)
  /\ \A i \in 1 .. Len(m_slots) :
       m_slots[i] < walk.at => Contains(walk.start, m_slots[i])
  /\ \A i \in 1 .. Len(walk.start) :
       walk.start[i] >= walk.at /\ Contains(m_slots, walk.start[i])
         => Contains(walk.called, walk.start[i])

Following == intact => \A w \in 1 .. Len(walks) : WalkOK(walks[w])

Types ==
  /\ m_slots \in Seq(SlotIds)
  /\ connected \in 0 .. MaxSlots
  /\ walks \in Seq(Walks)
  /\ fires \in 0 .. MaxFires
  /\ intact \in BOOLEAN

IInv == Types /\ Sorted /\ Following

(***************************************************************************)
(* Lists in descending order.                                              *)
(***************************************************************************)
LEMMA Numbers ==
  ASSUME NEW seq \in Seq(SlotIds)
  PROVE  \A i \in 1 .. Len(seq) : seq[i] \in SlotIds /\ seq[i] \in Nat
<1>1. \A i \in 1 .. Len(seq) : seq[i] \in SlotIds
  OBVIOUS
<1>2. SlotIds \subseteq Nat
  BY BoundAssumption DEF SlotIds
<1>3. QED
  BY <1>1, <1>2

(* An iterator points where its slot is. *)
LEMMA Position ==
  ASSUME NEW seq \in Seq(SlotIds), Descending(seq), NEW k \in 1 .. Len(seq)
  PROVE  IndexOf(seq, seq[k]) = k
<1> DEFINE I == {i \in 1 .. Len(seq) : seq[i] = seq[k]}
<1>1. \A i \in 1 .. Len(seq) : seq[i] \in Nat
  BY Numbers
<1>2. I = {k}
  <2>1. ASSUME NEW i \in 1 .. Len(seq), seq[i] = seq[k], i # k
        PROVE  FALSE
    <3>1. i < k \/ k < i
      BY <2>1
    <3>2. seq[i] > seq[k] \/ seq[k] > seq[i]
      BY <3>1 DEF Descending
    <3>3. QED
      BY <1>1, <2>1, <3>2
  <2>2. QED
    BY <2>1
<1>3. IndexOf(seq, seq[k]) = IF I # {} THEN Min(I) ELSE 0
  BY Zenon DEF IndexOf, SelectInSeq
<1>4. Min({k}) = k
  BY DEF Min
<1>5. QED
  BY <1>2, <1>3, <1>4

(* connect puts a slot before all others. *)
LEMMA Prepended ==
  ASSUME NEW seq \in Seq(SlotIds), Descending(seq), NEW c \in SlotIds,
         \A i \in 1 .. Len(seq) : seq[i] < c
  PROVE  /\ <<c>> \o seq \in Seq(SlotIds)
         /\ Descending(<<c>> \o seq)
         /\ \A s : Contains(<<c>> \o seq, s) <=> s = c \/ Contains(seq, s)
<1> DEFINE r == <<c>> \o seq
<1>1. /\ r \in Seq(SlotIds) /\ Len(r) = Len(seq) + 1 /\ r[1] = c
      /\ \A i \in 2 .. Len(r) : i - 1 \in 1 .. Len(seq) /\ r[i] = seq[i - 1]
      /\ \A i \in 1 .. Len(seq) : i + 1 \in 1 .. Len(r) /\ r[i + 1] = seq[i]
      /\ 1 \in 1 .. Len(r) /\ Len(seq) \in Nat
  <2>1. <<c>> \in Seq(SlotIds) /\ Len(<<c>>) = 1 /\ <<c>>[1] = c /\ Len(seq) \in Nat
    OBVIOUS
  <2>2. /\ r \in Seq(SlotIds) /\ Len(r) = Len(<<c>>) + Len(seq)
        /\ \A i \in 1 .. Len(<<c>>) + Len(seq) :
             r[i] = IF i <= Len(<<c>>) THEN <<c>>[i] ELSE seq[i - Len(<<c>>)]
    BY <2>1, ConcatProperties
  <2> HIDE DEF r
  <2>3. \A i \in 1 .. 1 + Len(seq) : r[i] = IF i <= 1 THEN <<c>>[i] ELSE seq[i - 1]
    BY <2>1, <2>2
  <2>4. \A i \in 2 .. 1 + Len(seq) : ~(i <= 1) /\ i - 1 \in 1 .. Len(seq)
    BY <2>1
  <2>5. \A i \in 1 .. Len(seq) : i + 1 \in 2 .. 1 + Len(seq) /\ (i + 1) - 1 = i
    BY <2>1
  <2>6. \A i \in 2 .. 1 + Len(seq) : r[i] = seq[i - 1] /\ i \in 1 .. 1 + Len(seq)
    BY <2>1, <2>3, <2>4
  <2>7. r[1] = c
    BY <2>1, <2>3
  <2>8. \A i \in 1 .. Len(seq) : r[i + 1] = seq[i]
    BY <2>5, <2>6
  <2>9. Len(r) = Len(seq) + 1
    BY <2>1, <2>2
  <2>10. QED
    BY <2>1, <2>2, <2>4, <2>5, <2>6, <2>7, <2>8, <2>9
<1>2. \A i \in 1 .. Len(seq) : seq[i] \in Nat
  BY Numbers
<1> HIDE DEF r
<1>3. ASSUME NEW i \in 1 .. Len(r), NEW j \in 1 .. Len(r), i < j
      PROVE  r[i] > r[j]
  <2>1. CASE i = 1
    <3>1. j \in 2 .. Len(r)
      BY <1>1, <1>3, <2>1
    <3>2. QED
      BY <1>1, <1>2, <2>1, <3>1
  <2>2. CASE i # 1
    <3>1. /\ i \in 2 .. Len(r) /\ j \in 2 .. Len(r) /\ i - 1 < j - 1
      BY <1>1, <1>3, <2>2
    <3>2. QED
      BY <1>1, <3>1 DEF Descending
  <2>3. QED
    BY <2>1, <2>2
<1>4. Descending(r)
  BY <1>3 DEF Descending
<1>5. ASSUME NEW s
      PROVE  Contains(r, s) <=> s = c \/ Contains(seq, s)
  <2>1. ASSUME Contains(r, s), s # c PROVE Contains(seq, s)
    <3>1. PICK i \in 1 .. Len(r) : r[i] = s
      BY <2>1 DEF Contains
    <3>2. i \in 2 .. Len(r)
      BY <1>1, <2>1, <3>1
    <3>3. QED
      BY <1>1, <3>1, <3>2 DEF Contains
  <2>2. ASSUME Contains(seq, s) PROVE Contains(r, s)
    BY <1>1, <2>2 DEF Contains
  <2>3. Contains(r, c)
    BY <1>1 DEF Contains
  <2>4. QED
    BY <2>1, <2>2, <2>3
<1>6. QED
  BY <1>1, <1>4, <1>5 DEF r

(* erase takes out one slot and leaves the others where they were. *)
LEMMA Removed ==
  ASSUME NEW seq \in Seq(SlotIds), Descending(seq), NEW k \in 1 .. Len(seq)
  PROVE  /\ RemoveAt(seq, k) \in Seq(SlotIds)
         /\ Descending(RemoveAt(seq, k))
         /\ \A s : Contains(RemoveAt(seq, k), s) <=> Contains(seq, s) /\ s # seq[k]
<1> DEFINE r == RemoveAt(seq, k)
           n == Len(seq)
           a == SubSeq(seq, 1, k - 1)
           b == SubSeq(seq, k + 1, n)
<1>1. n \in Nat /\ k \in Nat /\ 1 <= k /\ k <= n /\ k - 1 \in Nat /\ n - k \in Nat
  OBVIOUS
<1>2. /\ a \in Seq(SlotIds) /\ Len(a) = k - 1 /\ \A i \in 1 .. k - 1 : a[i] = seq[i]
  BY <1>1
<1>3. /\ b \in Seq(SlotIds) /\ Len(b) = n - k /\ \A i \in 1 .. n - k : b[i] = seq[k + i]
  BY <1>1
<1>4. r = a \o b
  BY DEF RemoveAt
<1> HIDE DEF a, b
<1>5. /\ r \in Seq(SlotIds) /\ Len(r) = n - 1
      /\ \A i \in 1 .. n - 1 : r[i] = IF i < k THEN seq[i] ELSE seq[i + 1]
  <2>1. a \o b \in Seq(SlotIds) /\ Len(a \o b) = n - 1
    BY <1>1, <1>2, <1>3
  <2>2. ASSUME NEW i \in 1 .. n - 1
        PROVE  (a \o b)[i] = IF i < k THEN seq[i] ELSE seq[i + 1]
    <3>1. CASE i < k
      <4>1. i \in 1 .. k - 1
        BY <1>1, <3>1
      <4>2. (a \o b)[i] = a[i]
        BY <1>1, <1>2, <1>3, <4>1, ConcatProperties
      <4>3. QED
        BY <1>2, <3>1, <4>1, <4>2
    <3>2. CASE ~(i < k)
      <4>1. /\ i - (k - 1) \in 1 .. n - k /\ k + (i - (k - 1)) = i + 1
            /\ i \in Len(a) + 1 .. Len(a) + Len(b)
        BY <1>1, <1>2, <1>3, <3>2
      <4>2. (a \o b)[i] = b[i - Len(a)]
        BY <1>2, <1>3, <4>1, ConcatProperties
      <4>3. b[i - (k - 1)] = seq[i + 1]
        BY <1>3, <4>1
      <4>4. QED
        BY <1>2, <3>2, <4>2, <4>3
    <3>3. QED
      BY <3>1, <3>2
  <2>3. QED
    BY <1>4, <2>1, <2>2
<1> HIDE DEF r, n
<1>6. /\ \A i \in 1 .. n : \A j \in 1 .. n : i < j => seq[i] > seq[j]
      /\ \A i \in 1 .. n : seq[i] \in Nat
  BY Numbers DEF Descending, n
<1>7. ASSUME NEW i \in 1 .. n - 1, NEW j \in 1 .. n - 1, i < j
      PROVE  r[i] > r[j]
  <2>1. i \in 1 .. n /\ i + 1 \in 1 .. n /\ j \in 1 .. n /\ j + 1 \in 1 .. n
    BY <1>1
  <2>2. /\ r[i] = IF i < k THEN seq[i] ELSE seq[i + 1]
        /\ r[j] = IF j < k THEN seq[j] ELSE seq[j + 1]
    BY <1>5
  <2>3. /\ seq[i] > seq[j] /\ seq[i] > seq[j + 1] /\ seq[i + 1] > seq[j + 1]
    BY <1>1, <1>6, <1>7, <2>1
  <2>4. j < k => i < k
    BY <1>1, <1>7, <2>1
  <2>5. QED
    BY <2>2, <2>3, <2>4
<1>8. Descending(r)
  BY <1>5, <1>7 DEF Descending
<1>9. ASSUME NEW s
      PROVE  Contains(r, s) <=> Contains(seq, s) /\ s # seq[k]
  <2>1. ASSUME Contains(r, s) PROVE Contains(seq, s) /\ s # seq[k]
    <3>1. PICK i \in 1 .. n - 1 : r[i] = s
      BY <1>5, <2>1 DEF Contains
    <3>2. CASE i < k
      <4>1. i \in 1 .. n /\ seq[i] = s
        BY <1>1, <1>5, <3>1, <3>2
      <4>2. s > seq[k]
        BY <1>1, <1>6, <3>2, <4>1
      <4>3. s \in Nat /\ seq[k] \in Nat
        BY <1>1, <1>6, <4>1
      <4>4. QED
        BY <4>1, <4>2, <4>3 DEF Contains, n
    <3>3. CASE ~(i < k)
      <4>1. i + 1 \in 1 .. n /\ seq[i + 1] = s /\ k < i + 1
        BY <1>1, <1>5, <3>1, <3>3
      <4>2. seq[k] > s
        BY <1>1, <1>6, <4>1
      <4>3. s \in Nat /\ seq[k] \in Nat
        BY <1>1, <1>6, <4>1
      <4>4. QED
        BY <4>1, <4>2, <4>3 DEF Contains, n
    <3>4. QED
      BY <3>2, <3>3
  <2>2. ASSUME Contains(seq, s), s # seq[k] PROVE Contains(r, s)
    <3>1. PICK i \in 1 .. n : seq[i] = s
      BY <2>2 DEF Contains, n
    <3>2. i # k
      BY <2>2, <3>1
    <3>3. CASE i < k
      <4>1. i \in 1 .. n - 1 /\ r[i] = s
        BY <1>1, <1>5, <3>1, <3>3
      <4>2. QED
        BY <1>5, <4>1 DEF Contains
    <3>4. CASE k < i
      <4>1. i - 1 \in 1 .. n - 1 /\ ~(i - 1 < k) /\ (i - 1) + 1 = i
        BY <1>1, <3>4
      <4>2. r[i - 1] = s
        BY <1>5, <3>1, <4>1
      <4>3. QED
        BY <1>5, <4>1, <4>2 DEF Contains
    <3>5. QED
      BY <1>1, <3>2, <3>3, <3>4
  <2>3. QED
    BY <2>1, <2>2
<1>10. QED
  BY <1>5, <1>8, <1>9 DEF r

(***************************************************************************)
(* The initial state.                                                      *)
(***************************************************************************)
LEMMA InitInv == Init => IInv
<1> SUFFICES ASSUME Init PROVE IInv
  OBVIOUS
<1>1. /\ m_slots \in Seq(SlotIds) /\ Len(m_slots) = 0
      /\ connected = 0 /\ fires = 0 /\ intact = TRUE
  BY DEF Init
<1>2. walks \in Seq(Walks) /\ Len(walks) = 0
  BY DEF Init
<1>3. 0 \in 0 .. MaxSlots /\ 0 \in 0 .. MaxFires
  BY BoundAssumption
<1>4. Types
  BY <1>1, <1>2, <1>3 DEF Types
<1>5. Sorted /\ Following
  BY <1>1, <1>2 DEF Sorted, Descending, Following
<1>6. QED
  BY <1>4, <1>5 DEF IInv

(***************************************************************************)
(* A walk while slots are connected and disconnected.                      *)
(***************************************************************************)
LEMMA WalkNumbers ==
  ASSUME NEW walk \in Walks, Types, WalkOK(walk)
  PROVE  /\ walk.at \in SlotIds /\ walk.at \in Nat /\ walk.at <= connected
         /\ walk.start \in Seq(SlotIds) /\ walk.called \in Seq(SlotIds)
         /\ connected \in Nat
<1>1. /\ walk.at \in SlotIds
      /\ walk.start \in Seq(SlotIds) /\ walk.called \in Seq(SlotIds)
  BY DEF Walks
<1>2. walk.at \in Nat /\ connected \in Nat
  BY <1>1, BoundAssumption DEF SlotIds, Types
<1>3. Contains(walk.start, walk.called[Len(walk.called)])
  <2>1. Len(walk.called) \in 1 .. Len(walk.called)
    BY <1>1 DEF WalkOK
  <2>2. QED
    BY <2>1 DEF WalkOK
<1>4. PICK i \in 1 .. Len(walk.start) : walk.start[i] = walk.at
  BY <1>3 DEF WalkOK, Contains
<1>5. QED
  BY <1>1, <1>2, <1>4 DEF WalkOK

LEMMA WalkKept ==
  ASSUME NEW walk \in Walks, Types, WalkOK(walk),
         m_slots' \in Seq(SlotIds), connected' \in Nat, connected <= connected',
         Contains(m_slots', walk.at),
         \A s : Contains(m_slots', s) => Contains(m_slots, s) \/ s > connected
  PROVE  WalkOK(walk)'
<1>1. /\ walk.at \in Nat /\ walk.at <= connected /\ connected \in Nat
      /\ walk.start \in Seq(SlotIds)
  BY WalkNumbers
<1>2. \A i \in 1 .. Len(walk.start) :
        walk.start[i] \in Nat /\ walk.start[i] <= connected
  BY <1>1, Numbers DEF WalkOK
<1>3. \A i \in 1 .. Len(m_slots') : m_slots'[i] \in Nat /\ Contains(m_slots', m_slots'[i])
  BY Numbers DEF Contains
<1>4. ASSUME NEW i \in 1 .. Len(m_slots'), m_slots'[i] < walk.at
      PROVE  Contains(walk.start, m_slots'[i])
  <2>1. ~(m_slots'[i] > connected)
    BY <1>1, <1>3, <1>4
  <2>2. Contains(m_slots, m_slots'[i])
    BY <1>3, <2>1
  <2>3. PICK j \in 1 .. Len(m_slots) : m_slots[j] = m_slots'[i]
    BY <2>2 DEF Contains
  <2>4. QED
    BY <1>4, <2>3 DEF WalkOK
<1>5. ASSUME NEW i \in 1 .. Len(walk.start), walk.start[i] >= walk.at,
             Contains(m_slots', walk.start[i])
      PROVE  Contains(walk.called, walk.start[i])
  <2>1. ~(walk.start[i] > connected)
    BY <1>1, <1>2
  <2>2. Contains(m_slots, walk.start[i])
    BY <1>5, <2>1
  <2>3. QED
    BY <1>5, <2>2 DEF WalkOK
<1>6. \A i \in 1 .. Len(walk.start) : walk.start[i] <= connected'
  BY <1>1, <1>2
<1>7. QED
  BY <1>4, <1>5, <1>6 DEF WalkOK

LEMMA ConnectInv ==
  ASSUME IInv, connect
  PROVE  IInv'
<1> DEFINE c == connected + 1
<1>1. /\ m_slots \in Seq(SlotIds) /\ Descending(m_slots) /\ connected \in Nat
      /\ \A i \in 1 .. Len(m_slots) : m_slots[i] <= connected
      /\ walks \in Seq(Walks)
  BY BoundAssumption DEF IInv, Types, Sorted
<1>2. /\ intact /\ connected' = c /\ m_slots' = <<c>> \o m_slots /\ c \in 0 .. MaxSlots
      /\ UNCHANGED <<walks, fires, intact>> /\ c \in SlotIds
  BY BoundAssumption DEF connect, IInv, Types, SlotIds
<1>3. \A i \in 1 .. Len(m_slots) : m_slots[i] < c
  BY <1>1, Numbers
<1> HIDE DEF c
<1>4. /\ m_slots' \in Seq(SlotIds) /\ Descending(m_slots')
      /\ \A s : Contains(m_slots', s) <=> s = c \/ Contains(m_slots, s)
  BY <1>1, <1>2, <1>3, Prepended
<1>5. c \in Nat /\ c > connected
  BY <1>1 DEF c
<1>6. Types'
  BY <1>2, <1>4 DEF IInv, Types
<1>7. Sorted'
  <2>1. ASSUME NEW i \in 1 .. Len(m_slots') PROVE m_slots'[i] <= c
    <3>1. Contains(m_slots', m_slots'[i])
      BY DEF Contains
    <3>2. m_slots'[i] = c \/ Contains(m_slots, m_slots'[i])
      BY <1>4, <3>1
    <3>3. CASE m_slots'[i] = c
      BY <1>5, <3>3
    <3>4. CASE Contains(m_slots, m_slots'[i])
      <4>1. PICK j \in 1 .. Len(m_slots) : m_slots[j] = m_slots'[i]
        BY <3>4 DEF Contains
      <4>2. m_slots[j] \in Nat /\ m_slots[j] < c
        BY <1>1, <1>3, Numbers
      <4>3. QED
        BY <1>5, <4>1, <4>2
    <3>5. QED
      BY <3>2, <3>3, <3>4
  <2>2. QED
    BY <1>2, <1>4, <2>1 DEF Sorted
<1>8. ASSUME NEW w \in 1 .. Len(walks) PROVE WalkOK(walks[w])'
  <2>1. walks[w] \in Walks /\ WalkOK(walks[w]) /\ Types
    BY <1>1, <1>2 DEF IInv, Following
  <2> DEFINE walk == walks[w]
  <2>2. Contains(m_slots', walk.at)
    BY <1>4, <2>1 DEF WalkOK
  <2>3. \A s : Contains(m_slots', s) => Contains(m_slots, s) \/ s > connected
    BY <1>4, <1>5
  <2>4. connected' \in Nat /\ connected <= connected'
    BY <1>1, <1>2, <1>5
  <2>5. walk' = walk
    BY <1>2
  <2> HIDE DEF walk
  <2>6. \A v \in Walks : v = walk => WalkOK(v)'
    BY <1>4, <2>1, <2>2, <2>3, <2>4, WalkKept DEF walk
  <2>7. QED
    BY <2>1, <2>5, <2>6 DEF walk
<1>9. Following'
  BY <1>2, <1>8 DEF Following
<1>10. QED
  BY <1>6, <1>7, <1>9 DEF IInv

(* What disconnect leaves, whether or not the slot is connected. *)
LEMMA RemovedFirst ==
  ASSUME NEW seq \in Seq(SlotIds), Descending(seq), NEW id
  PROVE  /\ RemoveFirst(seq, id) \in Seq(SlotIds)
         /\ Descending(RemoveFirst(seq, id))
         /\ \A s : Contains(RemoveFirst(seq, id), s) <=> Contains(seq, s) /\ s # id
<1>1. CASE Contains(seq, id)
  <2>1. PICK k \in 1 .. Len(seq) : seq[k] = id
    BY <1>1 DEF Contains
  <2>2. IndexOf(seq, id) = k
    BY <2>1, Position
  <2>3. SelectInSeq(seq, LAMBDA v : v = id) = k
    BY <2>2, Zenon DEF IndexOf
  <2>4. RemoveFirst(seq, id) = RemoveAt(seq, k)
    BY <2>1, <2>3 DEF RemoveFirst
  <2>5. QED
    BY <2>1, <2>4, Removed
<1>2. CASE ~Contains(seq, id)
  <2>1. RemoveFirst(seq, id) = seq
    BY <1>2 DEF RemoveFirst, Contains
  <2>2. QED
    BY <1>2, <2>1
<1>3. QED
  BY <1>1, <1>2

LEMMA DisconnectInv ==
  ASSUME IInv, NEW id \in SlotIds, disconnect(id)
  PROVE  IInv'
<1>1. /\ m_slots \in Seq(SlotIds) /\ Descending(m_slots) /\ connected \in Nat
      /\ \A i \in 1 .. Len(m_slots) : m_slots[i] <= connected
      /\ walks \in Seq(Walks)
  BY BoundAssumption DEF IInv, Types, Sorted
<1>2. /\ intact /\ m_slots' = RemoveFirst(m_slots, id)
      /\ intact' = (Contains(m_slots, id) /\ id \notin Calling)
      /\ UNCHANGED <<connected, walks, fires>>
  BY DEF disconnect
<1>3. /\ m_slots' \in Seq(SlotIds) /\ Descending(m_slots')
      /\ \A s : Contains(m_slots', s) <=> Contains(m_slots, s) /\ s # id
  BY <1>1, <1>2, RemovedFirst
<1>4. Types'
  <2>1. intact' \in BOOLEAN
    BY <1>2
  <2>2. QED
    BY <1>2, <1>3, <2>1 DEF IInv, Types
<1>5. Sorted'
  <2>1. ASSUME NEW i \in 1 .. Len(m_slots') PROVE m_slots'[i] <= connected
    <3>1. Contains(m_slots', m_slots'[i])
      BY DEF Contains
    <3>2. PICK j \in 1 .. Len(m_slots) : m_slots[j] = m_slots'[i]
      BY <1>3, <3>1 DEF Contains
    <3>3. QED
      BY <1>1, <3>2
  <2>2. QED
    BY <1>2, <1>3, <2>1 DEF Sorted
<1>6. ASSUME intact', NEW w \in 1 .. Len(walks) PROVE WalkOK(walks[w])'
  <2>1. walks[w] \in Walks /\ WalkOK(walks[w]) /\ Types
    BY <1>1, <1>2 DEF IInv, Following
  <2> DEFINE walk == walks[w]
  <2>2. walk.at # id
    <3>1. w \in DOMAIN walks
      BY <1>1
    <3>2. QED
      BY <1>2, <1>6, <3>1 DEF Calling
  <2>3. Contains(m_slots', walk.at)
    BY <1>3, <2>1, <2>2 DEF WalkOK
  <2>4. \A s : Contains(m_slots', s) => Contains(m_slots, s) \/ s > connected
    BY <1>3
  <2>5. connected' \in Nat /\ connected <= connected'
    BY <1>1, <1>2
  <2>6. walk' = walk
    BY <1>2
  <2> HIDE DEF walk
  <2>7. \A v \in Walks : v = walk => WalkOK(v)'
    BY <1>3, <2>1, <2>3, <2>4, <2>5, WalkKept DEF walk
  <2>8. QED
    BY <2>1, <2>6, <2>7 DEF walk
<1>7. Following'
  BY <1>2, <1>6 DEF Following
<1>8. QED
  BY <1>4, <1>5, <1>7 DEF IInv

LEMMA DisconnectAllInv ==
  ASSUME IInv, disconnectAll
  PROVE  IInv'
<1>1. /\ m_slots' \in Seq(SlotIds) /\ Len(m_slots') = 0
      /\ intact' = (walks = <<>>) /\ intact' \in BOOLEAN
      /\ UNCHANGED <<connected, walks, fires>>
  BY DEF disconnectAll
<1>2. Types'
  BY <1>1 DEF IInv, Types
<1>3. Sorted'
  BY <1>1 DEF Sorted, Descending
<1>4. intact' => Len(walks') = 0
  BY <1>1
<1>5. Following'
  BY <1>4 DEF Following
<1>6. QED
  BY <1>2, <1>3, <1>5 DEF IInv

LEMMA FireInv ==
  ASSUME IInv, fire
  PROVE  IInv'
<1>1. /\ m_slots \in Seq(SlotIds) /\ Descending(m_slots) /\ connected \in Nat
      /\ \A i \in 1 .. Len(m_slots) : m_slots[i] <= connected
      /\ walks \in Seq(Walks)
  BY BoundAssumption DEF IInv, Types, Sorted
<1>2. /\ intact /\ fires' \in 0 .. MaxFires /\ UNCHANGED <<m_slots, connected, intact>>
  BY BoundAssumption DEF fire, IInv, Types
<1>3. Sorted'
  BY <1>2 DEF IInv, Sorted
<1>4. CASE m_slots = <<>>
  <2>1. walks' = walks
    BY <1>4 DEF fire
  <2>2. Types'
    BY <1>2, <2>1 DEF IInv, Types
  <2>3. Following'
    <3>1. ASSUME NEW w \in 1 .. Len(walks) PROVE WalkOK(walks[w])'
      <4>1. WalkOK(walks[w])
        BY <1>2 DEF IInv, Following
      <4>2. QED
        BY <1>2, <2>1, <4>1 DEF WalkOK
    <3>2. QED
      BY <2>1, <3>1 DEF Following
  <2>4. QED
    BY <1>3, <2>2, <2>3 DEF IInv
<1>5. CASE m_slots # <<>>
  <2> DEFINE h == Head(m_slots)
             new == Walk(h, m_slots, <<h>>)
  <2>1. /\ 1 \in 1 .. Len(m_slots) /\ h = m_slots[1] /\ h \in SlotIds /\ h \in Nat
    BY <1>1, <1>5, Numbers
  <2>2. /\ <<h>> \in Seq(SlotIds) /\ Len(<<h>>) = 1 /\ <<h>>[1] = h
    BY <2>1
  <2> HIDE DEF h
  <2>3. /\ new \in Walks /\ new.at = h /\ new.start = m_slots /\ new.called = <<h>>
    BY <1>1, <2>1, <2>2 DEF Walk, Walks
  <2>4. WalkOK(new)
    <3>1. Descending(<<h>>)
      BY <2>2 DEF Descending
    <3>2. Contains(m_slots, h)
      BY <2>1 DEF Contains
    <3>3. \A i \in 1 .. Len(<<h>>) : Contains(m_slots, <<h>>[i])
      BY <2>2, <3>2
    <3>4. \A i \in 1 .. Len(m_slots) : Contains(m_slots, m_slots[i])
      BY DEF Contains
    <3>5. ASSUME NEW i \in 1 .. Len(m_slots), m_slots[i] >= h
          PROVE  Contains(<<h>>, m_slots[i])
      <4>1. i = 1
        <5>1. ASSUME i # 1 PROVE FALSE
          <6>1. 1 < i
            BY <5>1
          <6>2. h > m_slots[i]
            BY <1>1, <2>1, <6>1 DEF Descending
          <6>3. m_slots[i] \in Nat
            BY <1>1, Numbers
          <6>4. QED
            BY <2>1, <3>5, <6>2, <6>3
        <5>2. QED
          BY <5>1
      <4>2. QED
        BY <2>1, <2>2, <4>1 DEF Contains
    <3> HIDE DEF new
    <3>6. QED
      BY <1>1, <2>2, <2>3, <3>1, <3>2, <3>3, <3>4, <3>5 DEF WalkOK
  <2> HIDE DEF new
  <2>5. walks' = Append(walks, new)
    BY <1>5 DEF fire, new, h
  <2>6. /\ walks' \in Seq(Walks) /\ Len(walks') = Len(walks) + 1 /\ Len(walks) \in Nat
        /\ \A w \in 1 .. Len(walks) : walks'[w] = walks[w]
        /\ walks'[Len(walks) + 1] = new
    BY <1>1, <2>3, <2>5
  <2>7. Types'
    BY <1>2, <2>6 DEF IInv, Types
  <2>8. Following'
    <3>1. ASSUME NEW w \in 1 .. Len(walks') PROVE WalkOK(walks[w])'
      <4>1. WalkOK(walks'[w])
        <5>1. CASE w \in 1 .. Len(walks)
          BY <1>2, <2>6, <5>1 DEF IInv, Following
        <5>2. CASE w \notin 1 .. Len(walks)
          <6>1. w = Len(walks) + 1
            BY <2>6, <5>2
          <6>2. QED
            BY <2>4, <2>6, <6>1
        <5>3. QED
          BY <5>1, <5>2
      <4>2. QED
        BY <1>2, <4>1 DEF WalkOK
    <3>2. QED
      BY <3>1 DEF Following
  <2>9. QED
    BY <1>3, <2>7, <2>8 DEF IInv
<1>6. QED
  BY <1>4, <1>5

(* The walk's iterator moves on to the next slot of the list as it is now.  *)
LEMMA WalkMoves ==
  ASSUME NEW walk \in Walks, Types, Sorted, WalkOK(walk),
         NEW k \in 1 .. Len(m_slots), m_slots[k] = walk.at, k + 1 <= Len(m_slots)
  PROVE  /\ Walk(m_slots[k + 1], walk.start, Append(walk.called, m_slots[k + 1])) \in Walks
         /\ WalkOK(Walk(m_slots[k + 1], walk.start, Append(walk.called, m_slots[k + 1])))
<1> DEFINE v == m_slots[k + 1]
           moved == Walk(v, walk.start, Append(walk.called, v))
           c == walk.called
<1>1. /\ m_slots \in Seq(SlotIds) /\ Descending(m_slots)
      /\ k + 1 \in 1 .. Len(m_slots) /\ k < k + 1
  BY DEF Types, Sorted
<1>2. v \in SlotIds /\ v \in Nat /\ walk.at > v
  BY <1>1, Numbers DEF Descending
<1>3. /\ walk.at \in Nat /\ walk.start \in Seq(SlotIds) /\ c \in Seq(SlotIds)
  BY WalkNumbers
<1>4. Contains(walk.start, v)
  BY <1>1, <1>2, <1>3 DEF WalkOK
<1> HIDE DEF v, c
<1>5. /\ Append(c, v) \in Seq(SlotIds) /\ Len(Append(c, v)) = Len(c) + 1
      /\ Len(c) \in Nat /\ Append(c, v)[Len(c) + 1] = v
      /\ \A i \in 1 .. Len(c) : Append(c, v)[i] = c[i] /\ c[i] \in Nat
  BY <1>2, <1>3, Numbers
<1>6. /\ moved \in Walks /\ moved.at = v /\ moved.start = walk.start
      /\ moved.called = Append(c, v)
  BY <1>2, <1>3, <1>5 DEF Walk, Walks, c
<1>7. Len(c) > 0 /\ c[Len(c)] = walk.at /\ Descending(c)
  BY DEF WalkOK, c
<1>8. ASSUME NEW i \in 1 .. Len(c) + 1, NEW j \in 1 .. Len(c) + 1, i < j
      PROVE  Append(c, v)[i] > Append(c, v)[j]
  <2>1. i \in 1 .. Len(c)
    BY <1>5, <1>8
  <2>2. CASE j \in 1 .. Len(c)
    BY <1>5, <1>7, <1>8, <2>1, <2>2 DEF Descending
  <2>3. CASE j \notin 1 .. Len(c)
    <3>1. j = Len(c) + 1
      BY <1>5, <2>3
    <3>2. c[i] >= walk.at
      <4>1. CASE i = Len(c)
        BY <1>3, <1>7, <4>1
      <4>2. CASE i # Len(c)
        <5>1. i < Len(c) /\ Len(c) \in 1 .. Len(c)
          BY <1>5, <1>7, <2>1, <4>2
        <5>2. c[i] > c[Len(c)]
          BY <1>7, <2>1, <5>1 DEF Descending
        <5>3. QED
          BY <1>3, <1>5, <1>7, <2>1, <5>2
      <4>3. QED
        BY <4>1, <4>2
    <3>3. c[i] > v
      BY <1>2, <1>3, <1>5, <2>1, <3>2
    <3>4. QED
      BY <1>5, <2>1, <3>1, <3>3
  <2>4. QED
    BY <2>2, <2>3
<1>9. Descending(Append(c, v))
  BY <1>5, <1>8 DEF Descending
<1>10. \A s : Contains(c, s) => Contains(Append(c, v), s)
  BY <1>5 DEF Contains
<1>11. Contains(Append(c, v), v)
  BY <1>5 DEF Contains
<1>12. ASSUME NEW i \in 1 .. Len(Append(c, v))
       PROVE  Contains(walk.start, Append(c, v)[i])
  <2>1. CASE i \in 1 .. Len(c)
    BY <1>5, <2>1 DEF WalkOK, c
  <2>2. CASE i \notin 1 .. Len(c)
    <3>1. i = Len(c) + 1
      BY <1>5, <2>2
    <3>2. QED
      BY <1>4, <1>5, <3>1
  <2>3. QED
    BY <2>1, <2>2
<1>13. Contains(m_slots, v)
  BY <1>1 DEF Contains, v
<1>14. ASSUME NEW i \in 1 .. Len(m_slots), m_slots[i] < v
       PROVE  Contains(walk.start, m_slots[i])
  <2>1. m_slots[i] \in Nat
    BY <1>1, Numbers
  <2>2. m_slots[i] < walk.at
    BY <1>2, <1>3, <1>14, <2>1
  <2>3. QED
    BY <2>2 DEF WalkOK
<1>15. ASSUME NEW i \in 1 .. Len(walk.start), walk.start[i] >= v,
              Contains(m_slots, walk.start[i])
       PROVE  Contains(Append(c, v), walk.start[i])
  <2>1. walk.start[i] \in Nat
    BY <1>3, Numbers
  <2>2. PICK j \in 1 .. Len(m_slots) : m_slots[j] = walk.start[i]
    BY <1>15 DEF Contains
  <2>3. CASE j <= k
    <3>1. m_slots[j] >= walk.at
      <4>1. CASE j = k
        BY <1>3, <4>1
      <4>2. CASE j # k
        <5>1. j < k
          BY <2>3, <4>2
        <5>2. m_slots[j] > m_slots[k]
          BY <1>1, <5>1 DEF Descending
        <5>3. QED
          BY <1>3, <2>1, <2>2, <5>2
      <4>3. QED
        BY <4>1, <4>2
    <3>2. Contains(c, walk.start[i])
      BY <1>15, <2>2, <3>1 DEF WalkOK, c
    <3>3. QED
      BY <1>10, <3>2
  <2>4. CASE j = k + 1
    <3>1. walk.start[i] = v
      BY <2>2, <2>4 DEF v
    <3>2. QED
      BY <1>11, <3>1
  <2>5. CASE j > k + 1
    <3>1. v > m_slots[j]
      BY <1>1, <2>5 DEF Descending, v
    <3>2. QED
      BY <1>2, <1>15, <2>1, <2>2, <3>1
  <2>6. QED
    BY <2>3, <2>4, <2>5
<1> HIDE DEF moved
<1>16. Len(moved.called) > 0 /\ moved.called[Len(moved.called)] = moved.at
  BY <1>5, <1>6
<1>17. WalkOK(moved)
  <2>1. Descending(walk.start) /\ \A i \in 1 .. Len(walk.start) : walk.start[i] <= connected
    BY DEF WalkOK
  <2>2. QED
    BY <1>6, <1>9, <1>12, <1>13, <1>14, <1>15, <1>16, <2>1 DEF WalkOK
<1>18. QED
  BY <1>6, <1>17 DEF moved, v, c

LEMMA ReturnInv ==
  ASSUME IInv, SlotReturns
  PROVE  IInv'
<1> DEFINE n == Len(walks)
           walk == walks[n]
           next == IndexOf(m_slots, walk.at) + 1
           moved == Walk(m_slots[next], walk.start, Append(walk.called, m_slots[next]))
<1>1. /\ m_slots \in Seq(SlotIds) /\ Descending(m_slots) /\ walks \in Seq(Walks)
      /\ Types /\ Sorted
  BY DEF IInv, Types, Sorted
<1>2. /\ intact /\ walks # <<>> /\ UNCHANGED <<m_slots, connected, fires, intact>>
      /\ walks' = IF next > Len(m_slots) THEN Front(walks)
                  ELSE Append(Front(walks), moved)
  BY DEF SlotReturns, Last
<1>3. /\ n \in Nat /\ n \in 1 .. n /\ walk \in Walks
  BY <1>1, <1>2
<1>4. \A w \in 1 .. n : WalkOK(walks[w])
  BY <1>2 DEF IInv, Following
<1>5. PICK k \in 1 .. Len(m_slots) : m_slots[k] = walk.at
  BY <1>3, <1>4 DEF WalkOK, Contains
<1>6. next = k + 1
  BY <1>1, <1>5, Position
<1>7. /\ Front(walks) \in Seq(Walks) /\ Len(Front(walks)) = n - 1
      /\ \A w \in 1 .. n - 1 : w \in 1 .. n /\ Front(walks)[w] = walks[w]
  <2>1. n - 1 \in Nat /\ n - 1 <= n /\ n = Len(walks)
    BY <1>3
  <2> HIDE DEF n
  <2>2. /\ SubSeq(walks, 1, n - 1) \in Seq(Walks) /\ Len(SubSeq(walks, 1, n - 1)) = n - 1
        /\ \A w \in 1 .. n - 1 : SubSeq(walks, 1, n - 1)[w] = walks[w]
    BY <1>1, <2>1
  <2>3. \A w \in 1 .. n - 1 : w \in 1 .. n
    BY <1>3
  <2>4. Front(walks) = SubSeq(walks, 1, n - 1)
    BY <2>1 DEF Front
  <2>5. QED
    BY <2>2, <2>3, <2>4
<1>8. \A w \in 1 .. n - 1 : WalkOK(Front(walks)[w])
  BY <1>4, <1>7
<1>9. Sorted'
  BY <1>1, <1>2 DEF Sorted
<1>10. ASSUME walks' \in Seq(Walks), \A w \in 1 .. Len(walks') : WalkOK(walks'[w])
       PROVE  IInv'
  <2>1. Types'
    BY <1>1, <1>2, <1>10 DEF Types
  <2>2. ASSUME NEW w \in 1 .. Len(walks') PROVE WalkOK(walks[w])'
    <3>1. WalkOK(walks'[w])
      BY <1>10
    <3>2. QED
      BY <1>2, <3>1 DEF WalkOK
  <2>3. Following'
    BY <2>2 DEF Following
  <2>4. QED
    BY <1>9, <2>1, <2>3 DEF IInv
<1>11. CASE next > Len(m_slots)
  <2>1. walks' = Front(walks)
    BY <1>2, <1>11
  <2>2. Len(walks') = n - 1
    BY <1>7, <2>1
  <2>3. QED
    BY <1>7, <1>8, <1>10, <2>1, <2>2
<1>12. CASE ~(next > Len(m_slots))
  <2>1. k + 1 <= Len(m_slots)
    BY <1>1, <1>6, <1>12
  <2>2. moved \in Walks /\ WalkOK(moved)
    <3>1. WalkOK(walk)
      BY <1>3, <1>4
    <3>2. QED
      BY <1>1, <1>3, <1>5, <1>6, <2>1, <3>1, WalkMoves
  <2> DEFINE f == Front(walks)
  <2> HIDE DEF moved, f
  <2>3. walks' = Append(f, moved)
    BY <1>2, <1>12 DEF f
  <2>4. f \in Seq(Walks) /\ Len(f) = n - 1 /\ \A w \in 1 .. n - 1 : WalkOK(f[w])
    BY <1>7, <1>8 DEF f
  <2>5. /\ walks' \in Seq(Walks) /\ Len(walks') = n
        /\ \A w \in 1 .. n - 1 : walks'[w] = f[w]
        /\ walks'[n] = moved
    <3>1. Len(f) + 1 = n /\ Len(f) \in Nat
      BY <1>3, <2>4
    <3> HIDE DEF n
    <3>2. QED
      BY <2>2, <2>3, <2>4, <3>1
  <2>6. ASSUME NEW w \in 1 .. n PROVE WalkOK(walks'[w])
    <3>1. CASE w = n
      BY <2>2, <2>5, <3>1
    <3>2. CASE w # n
      <4>1. w \in 1 .. n - 1
        BY <1>3, <3>2
      <4>2. QED
        BY <2>4, <2>5, <4>1
    <3>3. QED
      BY <3>1, <3>2
  <2>7. QED
    BY <1>10, <2>5, <2>6
<1>13. QED
  BY <1>11, <1>12

LEMMA NextInv ==
  ASSUME IInv, [Next]_vars
  PROVE  IInv'
<1>1. CASE UNCHANGED vars
  <2>1. UNCHANGED <<m_slots, connected, walks, fires, intact>>
    BY <1>1 DEF vars
  <2>2. Types' /\ Sorted'
    BY <2>1 DEF IInv, Types, Sorted
  <2>3. ASSUME intact, NEW w \in 1 .. Len(walks) PROVE WalkOK(walks[w])'
    <3>1. WalkOK(walks[w])
      BY <2>3 DEF IInv, Following
    <3>2. QED
      BY <2>1, <3>1 DEF WalkOK
  <2>4. Following'
    BY <2>1, <2>3 DEF Following
  <2>5. QED
    BY <2>2, <2>4 DEF IInv
<1>2. CASE connect
  BY <1>2, ConnectInv
<1>3. CASE disconnectAll
  BY <1>3, DisconnectAllInv
<1>4. CASE fire
  BY <1>4, FireInv
<1>5. CASE SlotReturns
  BY <1>5, ReturnInv
<1>6. ASSUME NEW id \in SlotIds, disconnect(id) PROVE IInv'
  BY <1>6, DisconnectInv
<1>7. QED
  BY <1>1, <1>2, <1>3, <1>4, <1>5, <1>6 DEF Next

(***************************************************************************)
(* The properties.                                                         *)
(***************************************************************************)

(* A slot is in the list once, and the iterator that each call of fire()    *)
(* under way holds points into the list, as long as no slot that is being   *)
(* called is erased (sigslot.hpp lines 54-80).                             *)
THEOREM TypeCorrect == Spec => []TypeOK
<1>1. ASSUME IInv PROVE TypeOK
  <2>1. m_slots \in Seq(SlotIds) /\ Descending(m_slots) /\ walks \in Seq(Walks)
    BY <1>1 DEF IInv, Types, Sorted
  <2>2. IsInjective(m_slots)
    <3>1. ASSUME NEW i \in 1 .. Len(m_slots), NEW j \in 1 .. Len(m_slots),
                 m_slots[i] = m_slots[j]
          PROVE  i = j
      BY <2>1, <3>1, Position
    <3>2. DOMAIN m_slots = 1 .. Len(m_slots)
      BY <2>1
    <3>3. QED
      BY <3>1, <3>2 DEF IsInjective
  <2>3. ASSUME intact PROVE Calling \subseteq ToSet(m_slots)
    <3>1. ASSUME NEW w \in DOMAIN walks PROVE walks[w].at \in ToSet(m_slots)
      <4>1. w \in 1 .. Len(walks)
        BY <2>1
      <4>2. PICK i \in 1 .. Len(m_slots) : m_slots[i] = walks[w].at
        BY <1>1, <2>3, <4>1 DEF IInv, Following, WalkOK, Contains
      <4>3. i \in DOMAIN m_slots
        BY <2>1
      <4>4. QED
        BY <4>2, <4>3 DEF ToSet
    <3>2. QED
      BY <3>1 DEF Calling
  <2>4. QED
    BY <1>1, <2>2, <2>3 DEF IInv, Types, TypeOK, Walks
<1>2. QED
  BY <1>1, InitInv, NextInv, PTL DEF Spec

(* What a walk visits is in the order of the list it began with. *)
LEMMA VisitsDescend ==
  ASSUME IInv, NEW walk \in Walks, WalkOK(walk)
  PROVE  LET visits == walk.called \o After(m_slots, walk.at)
         IN  /\ visits \in Seq(SlotIds) /\ Descending(visits)
             /\ \A i \in 1 .. Len(visits) : Contains(walk.start, visits[i])
             /\ \A s : Contains(walk.called, s) => Contains(visits, s)
             /\ \A s : Contains(m_slots, s) /\ s < walk.at => Contains(visits, s)
<1> DEFINE c == walk.called
           n == Len(m_slots)
<1>1. /\ m_slots \in Seq(SlotIds) /\ Descending(m_slots) /\ n \in Nat
      /\ \A i \in 1 .. n : m_slots[i] \in Nat
  BY Numbers DEF IInv, Types, Sorted
<1>2. /\ walk.at \in Nat /\ c \in Seq(SlotIds) /\ Len(c) \in Nat
      /\ \A i \in 1 .. Len(c) : c[i] \in Nat
  BY WalkNumbers, Numbers DEF IInv
<1>3. PICK k \in 1 .. n : m_slots[k] = walk.at
  BY DEF WalkOK, Contains
<1> DEFINE a == After(m_slots, walk.at)
<1>4. /\ a \in Seq(SlotIds) /\ Len(a) = n - k /\ n - k \in Nat
      /\ \A i \in 1 .. n - k : a[i] = m_slots[k + i] /\ k + i \in 1 .. n /\ k < k + i
  <2>1. IndexOf(m_slots, walk.at) = k
    BY <1>1, <1>3, Position
  <2>2. a = SubSeq(m_slots, k + 1, n)
    BY <2>1 DEF After
  <2> HIDE DEF a
  <2>3. k \in Nat /\ n - k \in Nat /\ k + 1 \in Nat /\ k <= n
    BY <1>1, <1>3
  <2>4. SubSeq(m_slots, k + 1, n) \in Seq(SlotIds) /\ Len(SubSeq(m_slots, k + 1, n)) = n - k
    BY <1>1, <2>3
  <2>5. \A i \in 1 .. n - k : SubSeq(m_slots, k + 1, n)[i] = m_slots[k + i]
    BY <1>1, <2>3
  <2>6. \A i \in 1 .. n - k : k + i \in 1 .. n /\ k < k + i
    BY <2>3
  <2>7. QED
    BY <2>2, <2>3, <2>4, <2>5, <2>6
<1> DEFINE v == c \o a
<1> HIDE DEF a, c, n
<1>5. /\ v \in Seq(SlotIds) /\ Len(v) = Len(c) + (n - k)
      /\ \A i \in 1 .. Len(c) + (n - k) :
           v[i] = IF i <= Len(c) THEN c[i] ELSE a[i - Len(c)]
  <2>1. c \in Seq(SlotIds) /\ a \in Seq(SlotIds)
    BY <1>2, <1>4
  <2>2. /\ v \in Seq(SlotIds) /\ Len(v) = Len(c) + Len(a)
        /\ \A i \in 1 .. Len(c) + Len(a) :
             v[i] = IF i <= Len(c) THEN c[i] ELSE a[i - Len(c)]
    BY <2>1, ConcatProperties
  <2> HIDE DEF v
  <2>3. QED
    BY <1>4, <2>2
<1> HIDE DEF v
<1>6. \A i \in 1 .. Len(c) : i \in 1 .. Len(v) /\ v[i] = c[i]
  BY <1>2, <1>4, <1>5
<1>7. \A j \in k + 1 .. n : /\ Len(c) + (j - k) \in 1 .. Len(v)
                           /\ v[Len(c) + (j - k)] = m_slots[j]
  <2>1. ASSUME NEW j \in k + 1 .. n
        PROVE  /\ Len(c) + (j - k) \in 1 .. Len(v)
               /\ v[Len(c) + (j - k)] = m_slots[j]
    <3> DEFINE i == Len(c) + (j - k)
    <3>1. /\ i \in 1 .. Len(c) + (n - k) /\ ~(i <= Len(c)) /\ i - Len(c) = j - k
          /\ j - k \in 1 .. n - k /\ k + (j - k) = j
      BY <1>1, <1>2, <1>4
    <3> HIDE DEF i
    <3>2. v[i] = a[j - k] /\ a[j - k] = m_slots[j]
      BY <1>4, <1>5, <3>1
    <3>3. QED
      BY <1>5, <3>1, <3>2 DEF i
  <2>2. QED
    BY <2>1
<1>8. \A i \in 1 .. Len(v) : i \notin 1 .. Len(c) =>
        \E j \in k + 1 .. n : i = Len(c) + (j - k)
  <2>1. ASSUME NEW i \in 1 .. Len(v), i \notin 1 .. Len(c)
        PROVE  \E j \in k + 1 .. n : i = Len(c) + (j - k)
    <3>1. /\ k + (i - Len(c)) \in k + 1 .. n
          /\ i = Len(c) + ((k + (i - Len(c))) - k)
      BY <1>1, <1>2, <1>4, <1>5, <2>1
    <3>2. QED
      BY <3>1
  <2>2. QED
    BY <2>1
<1>9. \A i \in 1 .. Len(c) : c[i] >= walk.at
  <2>1. ASSUME NEW i \in 1 .. Len(c) PROVE c[i] >= walk.at
    <3>1. Len(c) \in 1 .. Len(c) /\ c[Len(c)] = walk.at /\ Descending(c)
      BY <1>2 DEF WalkOK, c
    <3>2. CASE i = Len(c)
      BY <1>2, <3>1, <3>2
    <3>3. CASE i # Len(c)
      <4>1. i < Len(c)
        BY <1>2, <3>3
      <4>2. c[i] > c[Len(c)]
        BY <3>1, <4>1 DEF Descending
      <4>3. QED
        BY <1>2, <3>1, <4>2
    <3>4. QED
      BY <3>2, <3>3
  <2>2. QED
    BY <2>1
<1>10. \A j \in k + 1 .. n : m_slots[j] < walk.at /\ j \in 1 .. n
  <2>1. ASSUME NEW j \in k + 1 .. n PROVE m_slots[j] < walk.at /\ j \in 1 .. n
    <3>1. k < j /\ j \in 1 .. n
      BY <1>1
    <3>2. m_slots[k] > m_slots[j]
      BY <1>1, <3>1 DEF Descending, n
    <3>3. QED
      BY <1>1, <1>2, <1>3, <3>1, <3>2
  <2>2. QED
    BY <2>1
<1>11. ASSUME NEW i \in 1 .. Len(v), NEW j \in 1 .. Len(v), i < j
       PROVE  v[i] > v[j]
  <2>1. CASE j \in 1 .. Len(c)
    <3>1. i \in 1 .. Len(c)
      BY <1>2, <1>11, <2>1
    <3>2. c[i] > c[j]
      BY <1>11, <2>1, <3>1 DEF WalkOK, Descending, c
    <3>3. QED
      BY <1>6, <2>1, <3>1, <3>2
  <2>2. CASE j \notin 1 .. Len(c)
    <3>1. PICK q \in k + 1 .. n : j = Len(c) + (q - k)
      BY <1>8, <2>2
    <3>2. v[j] = m_slots[q] /\ m_slots[q] < walk.at /\ q \in 1 .. n
      BY <1>7, <1>10, <3>1
    <3>3. CASE i \in 1 .. Len(c)
      <4>1. v[i] \in Nat /\ v[i] >= walk.at
        BY <1>2, <1>6, <1>9, <3>3
      <4>2. QED
        BY <1>1, <1>2, <3>2, <4>1
    <3>4. CASE i \notin 1 .. Len(c)
      <4>1. PICK p \in k + 1 .. n : i = Len(c) + (p - k)
        BY <1>8, <3>4
      <4>2. v[i] = m_slots[p] /\ p \in 1 .. n
        BY <1>7, <1>10, <4>1
      <4>3. p < q
        BY <1>1, <1>2, <1>11, <3>1, <4>1
      <4>4. QED
        BY <1>1, <3>2, <4>2, <4>3 DEF Descending, n
    <3>5. QED
      BY <3>3, <3>4
  <2>3. QED
    BY <2>1, <2>2
<1>12. ASSUME NEW i \in 1 .. Len(v) PROVE Contains(walk.start, v[i])
  <2>1. CASE i \in 1 .. Len(c)
    BY <1>6, <2>1 DEF WalkOK, c
  <2>2. CASE i \notin 1 .. Len(c)
    <3>1. PICK q \in k + 1 .. n : i = Len(c) + (q - k)
      BY <1>8, <2>2
    <3>2. v[i] = m_slots[q] /\ m_slots[q] < walk.at /\ q \in 1 .. n
      BY <1>7, <1>10, <3>1
    <3>3. QED
      BY <3>2 DEF WalkOK, n
  <2>3. QED
    BY <2>1, <2>2
<1>13. ASSUME NEW s, Contains(c, s) PROVE Contains(v, s)
  BY <1>6, <1>13 DEF Contains
<1>14. ASSUME NEW s, Contains(m_slots, s), s < walk.at PROVE Contains(v, s)
  <2>1. PICK j \in 1 .. n : m_slots[j] = s
    BY <1>14 DEF Contains, n
  <2>2. ~(j <= k)
    <3>1. ASSUME j <= k PROVE FALSE
      <4>1. CASE j = k
        BY <1>2, <1>3, <1>14, <2>1, <4>1
      <4>2. CASE j # k
        <5>1. j < k
          BY <3>1, <4>2
        <5>2. m_slots[j] > m_slots[k]
          BY <1>1, <5>1 DEF Descending, n
        <5>3. QED
          BY <1>1, <1>2, <1>3, <1>14, <2>1, <5>2
      <4>3. QED
        BY <4>1, <4>2
    <3>2. QED
      BY <3>1
  <2>3. j \in k + 1 .. n
    BY <1>1, <2>2
  <2>4. Len(c) + (j - k) \in 1 .. Len(v) /\ v[Len(c) + (j - k)] = s
    BY <1>7, <2>1, <2>3
  <2>5. QED
    BY <2>4 DEF Contains
<1>15. v \in Seq(SlotIds) /\ Descending(v)
  BY <1>5, <1>11 DEF Descending
<1>16. QED
  BY <1>12, <1>13, <1>14, <1>15 DEF v, a, c

(* Every call of fire() calls what was connected when it began and is not   *)
(* disconnected before its turn, once, in the list's order, whatever the    *)
(* slots it calls connect, disconnect and fire (sigslot.hpp lines 54-80).   *)
THEOREM WalksCorrect == Spec => []WalkVisitsStart
<1>1. ASSUME IInv PROVE WalkVisitsStart
  <2>1. ASSUME intact, NEW w \in DOMAIN walks
        PROVE  LET visits == walks[w].called \o After(m_slots, walks[w].at)
               IN  /\ InOrderOf(visits, walks[w].start)
                   /\ ToSet(visits) \subseteq ToSet(walks[w].start)
                   /\ \A s \in ToSet(walks[w].start) :
                        s \in ToSet(visits) \/ ~Contains(m_slots, s)
    <3> DEFINE walk == walks[w]
               start == walk.start
               visits == walk.called \o After(m_slots, walk.at)
    <3>1. walk \in Walks /\ WalkOK(walk)
      <4>1. walks \in Seq(Walks) /\ w \in 1 .. Len(walks)
        BY <1>1 DEF IInv, Types
      <4>2. QED
        BY <1>1, <2>1, <4>1 DEF IInv, Following
    <3> HIDE DEF walk
    <3>2. /\ visits \in Seq(SlotIds) /\ Descending(visits)
          /\ \A i \in 1 .. Len(visits) : Contains(start, visits[i])
          /\ \A s : Contains(walk.called, s) => Contains(visits, s)
          /\ \A s : Contains(m_slots, s) /\ s < walk.at => Contains(visits, s)
      BY <1>1, <3>1, VisitsDescend
    <3>3. /\ walk.at \in Nat /\ start \in Seq(SlotIds) /\ Descending(start)
          /\ \A i \in 1 .. Len(start) : start[i] \in Nat
      BY <1>1, <3>1, WalkNumbers, Numbers DEF IInv, WalkOK
    <3>4. \A i \in 1 .. Len(start) :
            start[i] >= walk.at /\ Contains(m_slots, start[i])
              => Contains(walk.called, start[i])
      BY <3>1 DEF WalkOK
    <3> HIDE DEF visits, start
    <3>5. /\ DOMAIN visits = 1 .. Len(visits) /\ DOMAIN start = 1 .. Len(start)
          /\ \A i \in 1 .. Len(visits) : visits[i] \in Nat
      BY <3>2, <3>3, Numbers
    <3>6. InOrderOf(visits, start)
      <4>1. ASSUME NEW i \in 1 .. Len(visits), NEW j \in 1 .. Len(visits), i < j
            PROVE  \E k, l \in 1 .. Len(start) :
                     k < l /\ start[k] = visits[i] /\ start[l] = visits[j]
        <5>1. visits[i] > visits[j]
          BY <3>2, <4>1 DEF Descending
        <5>2. PICK k \in 1 .. Len(start) : start[k] = visits[i]
          BY <3>2 DEF Contains
        <5>3. PICK l \in 1 .. Len(start) : start[l] = visits[j]
          BY <3>2 DEF Contains
        <5>4. ~(l <= k)
          <6>1. ASSUME l <= k PROVE FALSE
            <7>1. CASE l = k
              BY <3>5, <5>1, <5>2, <5>3, <7>1
            <7>2. CASE l # k
              <8>1. l < k
                BY <6>1, <7>2
              <8>2. start[l] > start[k]
                BY <3>3, <8>1 DEF Descending
              <8>3. QED
                BY <3>5, <5>1, <5>2, <5>3, <8>2
            <7>3. QED
              BY <7>1, <7>2
          <6>2. QED
            BY <6>1
        <5>5. k < l
          BY <5>4
        <5>6. QED
          BY <5>2, <5>3, <5>5
      <4>2. ASSUME NEW i \in DOMAIN visits, NEW j \in DOMAIN visits, i < j
            PROVE  \E k, l \in DOMAIN start :
                     k < l /\ start[k] = visits[i] /\ start[l] = visits[j]
        <5>1. i \in 1 .. Len(visits) /\ j \in 1 .. Len(visits)
          BY <3>5, <4>2
        <5>2. PICK k, l \in 1 .. Len(start) :
                k < l /\ start[k] = visits[i] /\ start[l] = visits[j]
          BY <4>1, <4>2, <5>1
        <5>3. k \in DOMAIN start /\ l \in DOMAIN start
          BY <3>5, <5>2
        <5>4. QED
          BY <5>2, <5>3
      <4>3. QED
        BY <4>2, Zenon DEF InOrderOf
    <3>7. ToSet(visits) \subseteq ToSet(start)
      BY <3>2, <3>5 DEF ToSet, Contains
    <3>8. ASSUME NEW s \in ToSet(start), Contains(m_slots, s)
          PROVE  s \in ToSet(visits)
      <4>1. PICK i \in 1 .. Len(start) : start[i] = s
        BY <3>5 DEF ToSet
      <4>2. Contains(visits, s)
        <5>1. CASE s < walk.at
          BY <3>2, <3>8, <5>1
        <5>2. CASE s >= walk.at
          BY <3>2, <3>4, <3>8, <4>1, <5>2
        <5>3. QED
          BY <3>3, <4>1, <5>1, <5>2
      <4>3. QED
        BY <3>5, <4>2 DEF Contains, ToSet
    <3>9. QED
      BY <3>6, <3>7, <3>8 DEF visits, start, walk
  <2>2. QED
    BY <2>1 DEF WalkVisitsStart
<1>2. QED
  BY <1>1, InitInv, NextInv, PTL DEF Spec
=============================================================================

--------------------------- MODULE QueueMPMC_proofs ---------------------------
(***************************************************************************)
(* Proofs about QueueMPMC, for every number of cells, producers and        *)
(* consumers.                                                              *)
(***************************************************************************)
EXTENDS QueueMPMC, TLAPS

(***************************************************************************)
(* Positions and cells.  All the proofs need of "pos & mask" is that two   *)
(* consecutive positions never share a cell, and that a lap later a        *)
(* position is back in its own.                                            *)
(***************************************************************************)
LEMMA Division ==
  ASSUME NEW p \in Nat
  PROVE  /\ p \div Size \in Int
         /\ p % Size \in 0 .. Size - 1
         /\ p = Size * (p \div Size) + (p % Size)
  BY SizeAssumption, SMT

LEMMA MultipleOfSize ==
  ASSUME NEW k \in Int
  PROVE  Size * k # 1 /\ (k >= 1 => Size * k >= Size)
                      /\ (k <= -1 => Size * k <= -Size)
  BY SizeAssumption, SMT

LEMMA CellType == \A p \in Nat : CellOf(p) \in Cells
  BY SizeAssumption, Division DEF CellOf, Cells

LEMMA CellNext == \A p \in Nat : CellOf(p + 1) # CellOf(p)
<1>1. SUFFICES ASSUME NEW p \in Nat, (p + 1) % Size = p % Size
               PROVE  FALSE
  BY DEF CellOf
<1> DEFINE a == (p + 1) \div Size
           b == p \div Size
           r == p % Size
<1>2. a \in Int /\ b \in Int /\ r \in Int
  BY Division
<1>3. p + 1 = Size * a + r /\ p = Size * b + r
  BY <1>1, Division
<1> HIDE DEF a, b, r
<1>4. Size * (a - b) = 1
  BY <1>2, <1>3, SizeAssumption
<1>5. a - b \in Int
  BY <1>2
<1>6. QED
  BY <1>4, <1>5, MultipleOfSize

LEMMA CellApart == \A p, q \in Nat : q = p + 1 => CellOf(q) # CellOf(p)
  BY CellNext

LEMMA CellLap == \A p \in Nat : CellOf(p + Size) = CellOf(p)
<1>1. SUFFICES ASSUME NEW p \in Nat
               PROVE  (p + Size) % Size = p % Size
  BY DEF CellOf
<1> DEFINE a == (p + Size) \div Size
           b == p \div Size
           r == p % Size
           s == (p + Size) % Size
<1>2. p + Size \in Nat
  BY SizeAssumption
<1>3. /\ a \in Int /\ b \in Int
      /\ r \in 0 .. Size - 1 /\ s \in 0 .. Size - 1
  BY <1>2, Division
<1>4. p + Size = Size * a + s /\ p = Size * b + r
  BY <1>2, Division
<1> HIDE DEF a, b, r, s
<1>5. Size * (a - b - 1) = r - s
  BY <1>3, <1>4, SizeAssumption
<1>6. a - b - 1 \in Int
  BY <1>3
<1>7. a - b - 1 = 0
  BY <1>3, <1>5, <1>6, MultipleOfSize, SizeAssumption
<1>8. r = s
  BY <1>3, <1>5, <1>7, SizeAssumption
<1>9. QED
  BY <1>8 DEF r, s

(* No position p has p and p + Size - 1 in one cell. *)
LEMMA CellBefore ==
  \A p, q \in Nat : q + 1 = p + Size => CellOf(q) # CellOf(p)
  BY CellNext, CellLap

(***************************************************************************)
(* The inductive invariant.  The sequence of a cell tells which position   *)
(* the cell serves, and in which phase: p, free for (or being filled at)   *)
(* position p; p + 1, holding (or being emptied of) the item of p.         *)
(***************************************************************************)

(* A thread's position was once the shared one. *)
PosOK ==
  /\ \A p \in Producers : pos[p] <= enqueue_pos
  /\ \A c \in Consumers : pos[c] <= dequeue_pos

(* What a thread read in the cell still holds if its claim succeeds. *)
ClaimOK ==
  /\ \A p \in Producers : pc[p] = "claim" /\ pos[p] = enqueue_pos =>
        sequence[CellOf(pos[p])] = pos[p]
  /\ \A c \in Consumers : pc[c] = "claim" /\ pos[c] = dequeue_pos =>
        sequence[CellOf(pos[c])] = pos[c] + 1

(* The cells that are owned. *)
OwnOK ==
  /\ \A p \in Producers : Writing(p) =>
        /\ pos[p] < enqueue_pos
        /\ sequence[CellOf(pos[p])] = pos[p]
        /\ val[p] = pushed[pos[p] + 1]
        /\ pc[p] = "publish" => data[CellOf(pos[p])] = val[p]
  /\ \A c \in Consumers : Reading(c) =>
        /\ pos[c] < dequeue_pos
        /\ sequence[CellOf(pos[c])] = pos[c] + 1
  /\ \A t, u \in Threads : t # u =>
        /\ Writing(t) /\ Writing(u) => pos[t] # pos[u]
        /\ Reading(t) /\ Reading(u) => pos[t] # pos[u]

(* The positions between the two counters are in their cells, and no cell  *)
(* is ahead of enqueue_pos.                                                *)
WindowOK ==
  /\ dequeue_pos <= enqueue_pos
  /\ Len(pushed) = enqueue_pos
  /\ \A q \in Nat : dequeue_pos <= q /\ q < enqueue_pos =>
        sequence[CellOf(q)] = q \/ sequence[CellOf(q)] = q + 1
  /\ \A q \in Nat : enqueue_pos <= q => sequence[CellOf(q)] # q + 1

(* A cell that holds the item of position q holds the q-th item pushed. *)
DataOK ==
  \A q \in Nat : q < enqueue_pos /\ sequence[CellOf(q)] = q + 1 =>
                   data[CellOf(q)] = pushed[q + 1]

(* The calls have a value to push. *)
ValOK ==
  \A p \in Producers : pc[p] # "idle" => val[p] \in Values

IInv == TypeOK /\ PosOK /\ ClaimOK /\ OwnOK /\ WindowOK /\ DataOK /\ ValOK

LEMMA ThreadFacts ==
  Producers \subseteq Threads /\ Consumers \subseteq Threads
  BY DEF Threads

THEOREM InitInv == Init => IInv
<1> SUFFICES ASSUME Init PROVE IInv
  OBVIOUS
<1>1. TypeOK
  BY SizeAssumption, CallsAssumption DEF Init, TypeOK, Cells
<1>2. PosOK /\ ClaimOK /\ OwnOK /\ ValOK
  BY ThreadFacts DEF Init, PosOK, ClaimOK, OwnOK, ValOK, Writing, Reading
<1>3. \A q \in Nat : sequence[CellOf(q)] # q + 1
  <2> SUFFICES ASSUME NEW q \in Nat, q % Size = q + 1
               PROVE  FALSE
    BY CellType DEF Init, CellOf
  <2> DEFINE k == q \div Size
  <2>1. k \in Int /\ Size * k = -1
    BY Division, SizeAssumption
  <2> HIDE DEF k
  <2>2. QED
    BY <2>1, MultipleOfSize, SizeAssumption
<1>4. WindowOK /\ DataOK
  BY <1>3 DEF Init, WindowOK, DataOK
<1>5. QED
  BY <1>1, <1>2, <1>4 DEF IInv
(***************************************************************************)
(* push_ts                                                                 *)
(***************************************************************************)
LEMMA PushTypeInv ==
  ASSUME IInv, NEW p \in Producers, PushCall(p) \/ PushStep(p)
  PROVE  TypeOK'
<1> USE DEF IInv, Goto, TypeOK
<1>1. CASE PushCall(p)
  <2>1. calls[p] + 1 \in 0 .. MaxCalls /\ calls[p] + 1 \in 1 .. MaxCalls
    BY <1>1, ThreadFacts, CallsAssumption DEF PushCall
  <2>2. <<p, calls[p] + 1>> \in Values
    BY <2>1 DEF Values
  <2>3. QED
    BY <1>1, <2>1, <2>2 DEF PushCall
<1>2. CASE PushCheck(p)
  BY <1>2, ThreadFacts DEF PushCheck
<1>3. CASE PushReload(p)
  BY <1>3, ThreadFacts DEF PushReload
<1>4. CASE PushClaim(p)
  <2>1. val[p] \in Values
    BY <1>4 DEF PushClaim, ValOK
  <2>2. Append(pushed, val[p]) \in Seq(Values)
    BY <2>1
  <2>3. pos[p] + 1 \in Nat
    BY ThreadFacts
  <2>4. QED
    BY <1>4, <2>2, <2>3 DEF PushClaim
<1>5. CASE PushClaimFails(p)
  BY <1>5, ThreadFacts DEF PushClaimFails
<1>6. CASE PushWrite(p)
  BY <1>6, ThreadFacts DEF PushWrite
<1>7. CASE PushPublish(p)
  <2>1. pos[p] + 1 \in Nat
    BY ThreadFacts
  <2>2. QED
    BY <1>7, <2>1 DEF PushPublish
<1>8. QED
  BY <1>1, <1>2, <1>3, <1>4, <1>5, <1>6, <1>7 DEF PushStep

LEMMA PushPosInv ==
  ASSUME IInv, NEW p \in Producers, PushCall(p) \/ PushStep(p)
  PROVE  PosOK'
<1> USE DEF IInv, Goto, TypeOK, PosOK
<1>1. CASE PushCall(p)
  BY <1>1, ThreadFacts, ThreadAssumption DEF PushCall
<1>2. CASE PushCheck(p)
  BY <1>2, ThreadFacts, ThreadAssumption DEF PushCheck
<1>3. CASE PushReload(p)
  BY <1>3, ThreadFacts, ThreadAssumption DEF PushReload
<1>4. CASE PushClaim(p)
  BY <1>4, ThreadFacts, ThreadAssumption DEF PushClaim
<1>5. CASE PushClaimFails(p)
  BY <1>5, ThreadFacts, ThreadAssumption DEF PushClaimFails
<1>6. CASE PushWrite(p)
  BY <1>6, ThreadFacts, ThreadAssumption DEF PushWrite
<1>7. CASE PushPublish(p)
  BY <1>7, ThreadFacts, ThreadAssumption DEF PushPublish
<1>8. QED
  BY <1>1, <1>2, <1>3, <1>4, <1>5, <1>6, <1>7 DEF PushStep

LEMMA PushClaimInv ==
  ASSUME IInv, NEW p \in Producers, PushCall(p) \/ PushStep(p)
  PROVE  ClaimOK'
<1> USE DEF IInv, Goto, TypeOK, PosOK, ClaimOK, OwnOK, Writing, Reading
<1>1. CASE PushCall(p)
  BY <1>1 DEF PushCall
<1>2. CASE PushCheck(p)
  <2>1. sequence[CellOf(pos[p])] \in Nat /\ pos[p] \in Nat
    BY ThreadFacts, CellType
  <2>2. pc'[p] = "claim" => sequence[CellOf(pos[p])] = pos[p]
    BY <1>2, <2>1, ThreadFacts DEF PushCheck
  <2>3. QED
    BY <1>2, <2>2, ThreadFacts, ThreadAssumption DEF PushCheck
<1>3. CASE PushReload(p)
  BY <1>3 DEF PushReload
<1>4. CASE PushClaim(p)
  <2>1. \A q \in Producers : pos[q] # enqueue_pos'
    BY <1>4, ThreadFacts DEF PushClaim
  <2>2. \A c \in Consumers : pc'[c] = pc[c]
    BY <1>4, ThreadFacts, ThreadAssumption DEF PushClaim
  <2>3. QED
    BY <1>4, <2>1, <2>2 DEF PushClaim
<1>5. CASE PushClaimFails(p)
  BY <1>5 DEF PushClaimFails
<1>6. CASE PushWrite(p)
  BY <1>6 DEF PushWrite
<1>7. CASE PushPublish(p)
  <2>1. /\ pos[p] \in Nat /\ pos[p] < enqueue_pos
        /\ sequence[CellOf(pos[p])] = pos[p]
    BY <1>7, ThreadFacts DEF PushPublish
  <2>2. \A i \in Cells : sequence'[i] = IF i = CellOf(pos[p]) THEN pos[p] + 1
                                        ELSE sequence[i]
    BY <1>7 DEF PushPublish
  <2>3. /\ \A t \in Threads : pc'[t] = IF t = p THEN "idle" ELSE pc[t]
        /\ UNCHANGED <<data, enqueue_pos, dequeue_pos, pos, val, pushed>>
    BY <1>7 DEF PushPublish

  <2>4. \A q \in Producers : pc[q] = "claim" /\ pos[q] = enqueue_pos =>
          CellOf(pos[q]) # CellOf(pos[p])
    BY <2>1, ThreadFacts
  <2>5. ASSUME NEW c \in Consumers, pc[c] = "claim", pos[c] = dequeue_pos
        PROVE  CellOf(pos[c]) # CellOf(pos[p])
    <3>1. pos[c] \in Nat /\ sequence[CellOf(pos[c])] = pos[c] + 1
      BY <2>5, ThreadFacts
    <3> HIDE DEF IInv
    <3>2. QED
      BY <2>1, <3>1, CellApart
  <2>6. /\ \A q \in Producers : pc[q] = "claim" /\ pos[q] = enqueue_pos =>
               pos[q] \in Nat /\ sequence[CellOf(pos[q])] = pos[q]
        /\ \A d \in Consumers : pc[d] = "claim" /\ pos[d] = dequeue_pos =>
               pos[d] \in Nat /\ sequence[CellOf(pos[d])] = pos[d] + 1
    BY ThreadFacts
  <2> HIDE DEF IInv
  <2>7. QED
    BY <2>2, <2>3, <2>4, <2>5, <2>6, ThreadFacts, CellType
<1>8. QED
  BY <1>1, <1>2, <1>3, <1>4, <1>5, <1>6, <1>7 DEF PushStep

(* A step of a thread that owns no cell before or after it leaves OwnOK    *)
(* alone, unless it moves a counter or changes a cell.                     *)
LEMMA OwnFrame ==
  ASSUME TypeOK, OwnOK,
         UNCHANGED <<sequence, data, enqueue_pos, dequeue_pos, pushed>>,
         \A t \in Threads : Owns(t)' =>
            pc'[t] = pc[t] /\ pos'[t] = pos[t] /\ val'[t] = val[t]
  PROVE  OwnOK'
<1> USE DEF OwnOK, Owns, Writing, Reading
<1>1. \A t \in Threads : /\ Writing(t)' => Writing(t)
                         /\ Reading(t)' => Reading(t)
  OBVIOUS
<1>2. QED
  BY <1>1, ThreadFacts

LEMMA PushOwnInv ==
  ASSUME IInv, NEW p \in Producers, PushCall(p) \/ PushStep(p)
  PROVE  OwnOK'
<1> USE DEF IInv, Goto, TypeOK, PosOK, ClaimOK, OwnOK, WindowOK, Writing, Reading
<1>1. CASE PushCall(p)
  <2>1. \A t \in Threads : Owns(t)' =>
          pc'[t] = pc[t] /\ pos'[t] = pos[t] /\ val'[t] = val[t]
    BY <1>1, ThreadAssumption DEF PushCall, Owns
  <2>2. QED
    BY <1>1, <2>1, OwnFrame DEF PushCall
<1>2. CASE PushCheck(p)
  <2>1. \A t \in Threads : Owns(t)' =>
          pc'[t] = pc[t] /\ pos'[t] = pos[t] /\ val'[t] = val[t]
    BY <1>2, ThreadAssumption DEF PushCheck, Owns
  <2>2. QED
    BY <1>2, <2>1, OwnFrame DEF PushCheck
<1>3. CASE PushReload(p)
  <2>1. \A t \in Threads : Owns(t)' =>
          pc'[t] = pc[t] /\ pos'[t] = pos[t] /\ val'[t] = val[t]
    BY <1>3, ThreadAssumption DEF PushReload, Owns
  <2>2. QED
    BY <1>3, <2>1, OwnFrame DEF PushReload
<1>4. CASE PushClaim(p)
  <2>1. /\ pos[p] = enqueue_pos /\ enqueue_pos' = enqueue_pos + 1
        /\ sequence[CellOf(pos[p])] = pos[p]
        /\ pushed' = Append(pushed, val[p])
        /\ \A t \in Threads : pc'[t] = IF t = p THEN "write" ELSE pc[t]
        /\ UNCHANGED <<sequence, data, dequeue_pos, pos, val>>
    BY <1>4 DEF PushClaim
  <2>2. val[p] \in Values
    BY <1>4 DEF PushClaim, ValOK
  <2>3. /\ pushed'[enqueue_pos + 1] = val[p]
        /\ \A i \in 1 .. enqueue_pos : pushed'[i] = pushed[i]
    BY <2>1, <2>2
  <2>a. \A q \in Producers : Writing(q) =>
            /\ pos[q] \in Nat /\ pos[q] < enqueue_pos
            /\ sequence[CellOf(pos[q])] = pos[q]
            /\ val[q] = pushed[pos[q] + 1]
            /\ pc[q] = "publish" => data[CellOf(pos[q])] = val[q]
    BY ThreadFacts
  <2>b. \A d \in Consumers : Reading(d) =>
            /\ pos[d] \in Nat /\ pos[d] < dequeue_pos
            /\ sequence[CellOf(pos[d])] = pos[d] + 1
    BY ThreadFacts
  <2>c. \A t, u \in Threads : t # u =>
            /\ Writing(t) /\ Writing(u) => pos[t] # pos[u]
            /\ Reading(t) /\ Reading(u) => pos[t] # pos[u]
    OBVIOUS
  <2>d. enqueue_pos \in Nat /\ dequeue_pos \in Nat
    OBVIOUS
  <2> HIDE DEF IInv
  <2>4. ASSUME NEW q \in Producers, Writing(q)'
        PROVE  /\ pos'[q] < enqueue_pos'
               /\ sequence'[CellOf(pos'[q])] = pos'[q]
               /\ val'[q] = pushed'[pos'[q] + 1]
               /\ pc'[q] = "publish" => data'[CellOf(pos'[q])] = val'[q]
    <3>1. CASE q = p
      <4>1. pc'[q] = "write" /\ pos'[q] = enqueue_pos /\ val'[q] = val[p]
        BY <2>1, <3>1, ThreadFacts
      <4>2. QED
        <5>1. sequence'[CellOf(enqueue_pos)] = enqueue_pos
          BY <2>1
        <5>2. pushed'[enqueue_pos + 1] = val[p] /\ enqueue_pos < enqueue_pos'
          BY <2>1, <2>3, <2>d
        <5>3. QED
          BY <4>1, <5>1, <5>2
    <3>2. CASE q # p
      <4>1. Writing(q) /\ pc'[q] = pc[q]
        BY <2>1, <2>4, <3>2, ThreadFacts
      <4>2. pos[q] + 1 \in 1 .. enqueue_pos
        BY <4>1, <2>a, <2>d
      <4>3. QED
        <5>1. /\ pos[q] \in Nat /\ pos[q] < enqueue_pos
              /\ sequence[CellOf(pos[q])] = pos[q]
              /\ val[q] = pushed[pos[q] + 1]
              /\ pc[q] = "publish" => data[CellOf(pos[q])] = val[q]
          BY <2>a, <4>1
        <5>2. pushed'[pos[q] + 1] = pushed[pos[q] + 1]
          BY <2>3, <4>2
        <5>3. QED
          BY <2>1, <2>d, <4>1, <5>1, <5>2
    <3>3. QED
      BY <3>1, <3>2
  <2>5. \A c \in Consumers : Reading(c)' <=> Reading(c)
    BY <2>1, ThreadFacts, ThreadAssumption
  <2>6. \A t \in Threads : Writing(t)' => t = p \/ Writing(t)
    BY <2>1
  <2>7. \A t \in Threads : Writing(t) => pos[t] # pos[p]
    BY <2>1, <2>a, <2>d
  <2>8. \A t, u \in Threads : t # u =>
        /\ Writing(t)' /\ Writing(u)' => pos'[t] # pos'[u]
        /\ Reading(t)' /\ Reading(u)' => pos'[t] # pos'[u]
    BY <2>1, <2>5, <2>6, <2>7, <2>c
  <2>9. QED
    BY <2>1, <2>4, <2>5, <2>8, <2>b
<1>5. CASE PushClaimFails(p)
  <2>1. \A t \in Threads : Owns(t)' =>
          pc'[t] = pc[t] /\ pos'[t] = pos[t] /\ val'[t] = val[t]
    BY <1>5, ThreadAssumption DEF PushClaimFails, Owns
  <2>2. QED
    BY <1>5, <2>1, OwnFrame DEF PushClaimFails
<1>6. CASE PushWrite(p)
  <2>1. /\ Writing(p) /\ pos[p] \in Nat /\ CellOf(pos[p]) \in Cells
        /\ pos[p] < enqueue_pos
        /\ sequence[CellOf(pos[p])] = pos[p]
    BY <1>6, ThreadFacts, CellType DEF PushWrite
  <2>2. /\ \A i \in Cells : data'[i] = IF i = CellOf(pos[p]) THEN val[p]
                                       ELSE data[i]
        /\ \A t \in Threads : pc'[t] = IF t = p THEN "publish" ELSE pc[t]
        /\ UNCHANGED <<sequence, enqueue_pos, dequeue_pos, pos, val, pushed>>
    BY <1>6 DEF PushWrite
  <2>3. \A t \in Threads : /\ Writing(t)' <=> Writing(t)
                          /\ Reading(t)' <=> Reading(t)
    BY <2>1, <2>2, ThreadAssumption
  <2>4. \A q \in Producers : q # p /\ Writing(q) =>
            CellOf(pos[q]) # CellOf(pos[p])
    BY <2>1, ThreadFacts
  <2>a. \A q \in Producers : Writing(q) =>
            /\ pos[q] \in Nat /\ pos[q] < enqueue_pos
            /\ sequence[CellOf(pos[q])] = pos[q]
            /\ val[q] = pushed[pos[q] + 1]
            /\ pc[q] = "publish" => data[CellOf(pos[q])] = val[q]
    BY ThreadFacts
  <2>b. \A d \in Consumers : Reading(d) =>
            /\ pos[d] \in Nat /\ pos[d] < dequeue_pos
            /\ sequence[CellOf(pos[d])] = pos[d] + 1
    BY ThreadFacts
  <2>c. \A t, u \in Threads : t # u =>
            /\ Writing(t) /\ Writing(u) => pos[t] # pos[u]
            /\ Reading(t) /\ Reading(u) => pos[t] # pos[u]
    OBVIOUS
  <2>d. enqueue_pos \in Nat /\ dequeue_pos \in Nat
    OBVIOUS
  <2> HIDE DEF IInv
  <2>5. \A q \in Producers : Writing(q) /\ pc'[q] = "publish" =>
            data'[CellOf(pos[q])] = val[q]
    BY <2>1, <2>2, <2>4, <2>a, ThreadFacts, CellType
  <2>6. QED
    <3>1. ASSUME NEW q \in Producers, Writing(q)'
          PROVE  /\ pos'[q] < enqueue_pos'
                 /\ sequence'[CellOf(pos'[q])] = pos'[q]
                 /\ val'[q] = pushed'[pos'[q] + 1]
                 /\ pc'[q] = "publish" => data'[CellOf(pos'[q])] = val'[q]
      <4>1. Writing(q)
        BY <2>1, <2>2, <3>1, ThreadFacts
      <4>2. QED
        BY <2>2, <2>5, <2>a, <4>1
    <3>2. \A d \in Consumers : Reading(d)' =>
            /\ pos'[d] < dequeue_pos'
            /\ sequence'[CellOf(pos'[d])] = pos'[d] + 1
      BY <2>2, <2>3, <2>b, ThreadFacts
    <3>3. \A t, u \in Threads : t # u =>
            /\ Writing(t)' /\ Writing(u)' => pos'[t] # pos'[u]
            /\ Reading(t)' /\ Reading(u)' => pos'[t] # pos'[u]
      <4> SUFFICES ASSUME NEW t \in Threads, NEW u \in Threads, t # u
                   PROVE  /\ Writing(t)' /\ Writing(u)' => pos'[t] # pos'[u]
                          /\ Reading(t)' /\ Reading(u)' => pos'[t] # pos'[u]
        OBVIOUS
      <4>1. /\ Writing(t)' => Writing(t)
            /\ Reading(t)' => Reading(t)
        BY <2>1, <2>2, ThreadAssumption
      <4>2. /\ Writing(u)' => Writing(u)
            /\ Reading(u)' => Reading(u)
        BY <2>1, <2>2, ThreadAssumption
      <4>3. pos' = pos
        BY <2>2
      <4>4. /\ Writing(t) /\ Writing(u) => pos[t] # pos[u]
            /\ Reading(t) /\ Reading(u) => pos[t] # pos[u]
        BY <2>c
      <4>5. QED
        BY <4>1, <4>2, <4>3, <4>4
    <3>4. QED
      BY <3>1, <3>2, <3>3
<1>7. CASE PushPublish(p)
  <2>1. /\ pos[p] \in Nat /\ pos[p] < enqueue_pos
        /\ sequence[CellOf(pos[p])] = pos[p]
    BY <1>7, ThreadFacts DEF PushPublish
  <2>2. \A i \in Cells : sequence'[i] = IF i = CellOf(pos[p]) THEN pos[p] + 1
                                        ELSE sequence[i]
    BY <1>7 DEF PushPublish
  <2>3. /\ \A t \in Threads : pc'[t] = IF t = p THEN "idle" ELSE pc[t]
        /\ UNCHANGED <<data, enqueue_pos, dequeue_pos, pos, val, pushed>>
    BY <1>7 DEF PushPublish

  <2>4. \A t \in Threads : /\ Writing(t)' <=> Writing(t) /\ t # p
                          /\ Reading(t)' <=> Reading(t)
    BY <1>7, <2>3, ThreadAssumption DEF PushPublish
  <2>5. \A q \in Producers : q # p /\ Writing(q) =>
            CellOf(pos[q]) # CellOf(pos[p])
    BY <1>7, <2>1, ThreadFacts DEF PushPublish
  <2>6. \A c \in Consumers : Reading(c) => CellOf(pos[c]) # CellOf(pos[p])
    BY <2>1, ThreadFacts, CellApart
  <2>a. \A q \in Producers : Writing(q) =>
            /\ pos[q] \in Nat /\ pos[q] < enqueue_pos
            /\ sequence[CellOf(pos[q])] = pos[q]
            /\ val[q] = pushed[pos[q] + 1]
            /\ pc[q] = "publish" => data[CellOf(pos[q])] = val[q]
    BY ThreadFacts
  <2>b. \A d \in Consumers : Reading(d) =>
            /\ pos[d] \in Nat /\ pos[d] < dequeue_pos
            /\ sequence[CellOf(pos[d])] = pos[d] + 1
    BY ThreadFacts
  <2>c. \A t, u \in Threads : t # u =>
            /\ Writing(t) /\ Writing(u) => pos[t] # pos[u]
            /\ Reading(t) /\ Reading(u) => pos[t] # pos[u]
    OBVIOUS
  <2>d. enqueue_pos \in Nat /\ dequeue_pos \in Nat
    OBVIOUS
  <2> HIDE DEF IInv
  <2>7. \A q \in Producers : Writing(q)' =>
            sequence'[CellOf(pos[q])] = pos[q] /\ pc'[q] = pc[q]
    BY <2>2, <2>3, <2>4, <2>5, ThreadFacts, CellType, <2>a, <2>b
  <2>8. \A c \in Consumers : Reading(c)' =>
            sequence'[CellOf(pos[c])] = pos[c] + 1
    BY <2>3, <2>2, <2>4, <2>6, ThreadFacts, CellType, <2>a, <2>b
  <2>9. QED
    BY <2>3, <2>4, <2>7, <2>8, <2>a, <2>b, <2>c, ThreadFacts
<1>8. QED
  BY <1>1, <1>2, <1>3, <1>4, <1>5, <1>6, <1>7 DEF PushStep

LEMMA PushWindowInv ==
  ASSUME IInv, NEW p \in Producers, PushCall(p) \/ PushStep(p)
  PROVE  WindowOK'
<1> USE DEF IInv, Goto, TypeOK, PosOK, ClaimOK, OwnOK, WindowOK, Writing, Reading
<1>1. CASE PushCall(p)
  BY <1>1 DEF PushCall
<1>2. CASE PushCheck(p)
  BY <1>2 DEF PushCheck
<1>3. CASE PushReload(p)
  BY <1>3 DEF PushReload
<1>4. CASE PushClaim(p)
  <2>1. /\ pos[p] = enqueue_pos /\ enqueue_pos' = enqueue_pos + 1
        /\ sequence[CellOf(enqueue_pos)] = enqueue_pos
        /\ pushed' = Append(pushed, val[p])
        /\ UNCHANGED <<sequence, dequeue_pos>>
    BY <1>4 DEF PushClaim
  <2>2. Len(pushed') = enqueue_pos + 1
    BY <2>1
  <2>3. \A q \in Nat : q < enqueue_pos + 1 => q < enqueue_pos \/ q = enqueue_pos
    OBVIOUS
  <2>4. /\ enqueue_pos \in Nat /\ dequeue_pos \in Nat
        /\ dequeue_pos <= enqueue_pos
        /\ \A q \in Nat : dequeue_pos <= q /\ q < enqueue_pos =>
              sequence[CellOf(q)] = q \/ sequence[CellOf(q)] = q + 1
        /\ \A q \in Nat : enqueue_pos <= q => sequence[CellOf(q)] # q + 1
    OBVIOUS
  <2> HIDE DEF IInv
  <2>5. QED
    BY <2>1, <2>2, <2>3, <2>4
<1>5. CASE PushClaimFails(p)
  BY <1>5 DEF PushClaimFails
<1>6. CASE PushWrite(p)
  BY <1>6 DEF PushWrite
<1>7. CASE PushPublish(p)
  <2>1. /\ pos[p] \in Nat /\ pos[p] < enqueue_pos
        /\ sequence[CellOf(pos[p])] = pos[p]
    BY <1>7, ThreadFacts DEF PushPublish
  <2>2. \A i \in Cells : sequence'[i] = IF i = CellOf(pos[p]) THEN pos[p] + 1
                                        ELSE sequence[i]
    BY <1>7 DEF PushPublish
  <2>3. /\ \A t \in Threads : pc'[t] = IF t = p THEN "idle" ELSE pc[t]
        /\ UNCHANGED <<data, enqueue_pos, dequeue_pos, pos, val, pushed>>
    BY <1>7 DEF PushPublish

  <2>4. ASSUME NEW q \in Nat, dequeue_pos <= q, q < enqueue_pos
        PROVE  sequence'[CellOf(q)] = q \/ sequence'[CellOf(q)] = q + 1
    <3>1. sequence[CellOf(q)] = q \/ sequence[CellOf(q)] = q + 1
      BY <2>4
    <3>2. CellOf(q) \in Cells
      BY CellType
    <3> HIDE DEF IInv
    <3>3. CASE CellOf(q) = CellOf(pos[p])
      BY <2>1, <2>2, <3>1, <3>2, <3>3, CellApart
    <3>4. CASE CellOf(q) # CellOf(pos[p])
      BY <2>2, <3>1, <3>2, <3>4
    <3>5. QED
      BY <3>3, <3>4
  <2>5. ASSUME NEW q \in Nat, enqueue_pos <= q
        PROVE  sequence'[CellOf(q)] # q + 1
    <3>1. sequence[CellOf(q)] # q + 1 /\ enqueue_pos \in Nat
      BY <2>5
    <3>2. CellOf(q) \in Cells
      BY CellType
    <3> HIDE DEF IInv
    <3>3. QED
      BY <2>1, <2>2, <2>5, <3>1, <3>2
  <2>6. QED
    BY <2>3, <2>4, <2>5
<1>8. QED
  BY <1>1, <1>2, <1>3, <1>4, <1>5, <1>6, <1>7 DEF PushStep

LEMMA PushDataInv ==
  ASSUME IInv, NEW p \in Producers, PushCall(p) \/ PushStep(p)
  PROVE  DataOK'
<1> USE DEF IInv, Goto, TypeOK, OwnOK, WindowOK, DataOK, Writing, Reading
<1>1. CASE PushCall(p)
  BY <1>1 DEF PushCall
<1>2. CASE PushCheck(p)
  BY <1>2 DEF PushCheck
<1>3. CASE PushReload(p)
  BY <1>3 DEF PushReload
<1>4. CASE PushClaim(p)
  <2>1. /\ enqueue_pos' = enqueue_pos + 1
        /\ pos[p] = enqueue_pos
        /\ pushed' = Append(pushed, val[p])
        /\ UNCHANGED <<sequence, data>>
    BY <1>4 DEF PushClaim
  <2>2. \A i \in 1 .. enqueue_pos : pushed'[i] = pushed[i]
    BY <2>1
  <2>3. ASSUME NEW q \in Nat, q < enqueue_pos + 1,
               sequence[CellOf(q)] = q + 1
        PROVE  data[CellOf(q)] = pushed'[q + 1]
    <3>1. q < enqueue_pos
      BY <2>3
    <3>2. q + 1 \in 1 .. enqueue_pos
      BY <3>1
    <3>3. QED
      BY <2>2, <2>3, <3>1, <3>2
  <2>4. QED
    BY <2>1, <2>3
<1>5. CASE PushClaimFails(p)
  BY <1>5 DEF PushClaimFails
<1>6. CASE PushWrite(p)
  BY <1>6, ThreadFacts, CellType, CellApart DEF PushWrite
<1>7. CASE PushPublish(p)
  <2>1. /\ pos[p] \in Nat /\ pos[p] < enqueue_pos
        /\ sequence[CellOf(pos[p])] = pos[p]
    BY <1>7, ThreadFacts DEF PushPublish
  <2>2. \A i \in Cells : sequence'[i] = IF i = CellOf(pos[p]) THEN pos[p] + 1
                                        ELSE sequence[i]
    BY <1>7 DEF PushPublish
  <2>3. /\ \A t \in Threads : pc'[t] = IF t = p THEN "idle" ELSE pc[t]
        /\ UNCHANGED <<data, enqueue_pos, dequeue_pos, pos, val, pushed>>
    BY <1>7 DEF PushPublish

  <2>4. data[CellOf(pos[p])] = pushed[pos[p] + 1]
    BY <1>7 DEF PushPublish
  <2>5. ASSUME NEW q \in Nat, q < enqueue_pos, sequence'[CellOf(q)] = q + 1
        PROVE  data[CellOf(q)] = pushed[q + 1]
    <3>1. CASE CellOf(q) = CellOf(pos[p])
      BY <2>1, <2>2, <2>4, <2>5, <3>1, CellType
    <3>2. CASE CellOf(q) # CellOf(pos[p])
      BY <2>2, <2>5, <3>2, CellType
    <3>3. QED
      BY <3>1, <3>2
  <2>6. QED
    BY <2>3, <2>5
<1>8. QED
  BY <1>1, <1>2, <1>3, <1>4, <1>5, <1>6, <1>7 DEF PushStep

LEMMA PushValInv ==
  ASSUME IInv, NEW p \in Producers, PushCall(p) \/ PushStep(p)
  PROVE  ValOK'
<1> USE DEF IInv, Goto, TypeOK, ValOK
<1>1. CASE PushCall(p)
  <2>1. calls[p] + 1 \in 1 .. MaxCalls
    BY <1>1, ThreadFacts, CallsAssumption DEF PushCall
  <2>2. <<p, calls[p] + 1>> \in Values
    BY <2>1 DEF Values
  <2>3. QED
    BY <1>1, <2>2, ThreadFacts DEF PushCall
<1>2. CASE PushCheck(p)
  BY <1>2, ThreadFacts, ThreadAssumption DEF PushCheck
<1>3. CASE PushReload(p)
  BY <1>3, ThreadFacts, ThreadAssumption DEF PushReload
<1>4. CASE PushClaim(p)
  BY <1>4, ThreadFacts, ThreadAssumption DEF PushClaim
<1>5. CASE PushClaimFails(p)
  BY <1>5, ThreadFacts, ThreadAssumption DEF PushClaimFails
<1>6. CASE PushWrite(p)
  BY <1>6, ThreadFacts, ThreadAssumption DEF PushWrite
<1>7. CASE PushPublish(p)
  BY <1>7, ThreadFacts, ThreadAssumption DEF PushPublish
<1>8. QED
  BY <1>1, <1>2, <1>3, <1>4, <1>5, <1>6, <1>7 DEF PushStep

(***************************************************************************)
(* pop_ts                                                                  *)
(***************************************************************************)
LEMMA PopTypeInv ==
  ASSUME IInv, NEW c \in Consumers, PopCall(c) \/ PopStep(c)
  PROVE  TypeOK'
<1> USE DEF IInv, Goto, TypeOK
<1>1. CASE PopCall(c)
  <2>1. calls[c] + 1 \in 0 .. MaxCalls
    BY <1>1, ThreadFacts, CallsAssumption DEF PopCall
  <2>2. QED
    BY <1>1, <2>1 DEF PopCall
<1>2. CASE PopCheck(c)
  BY <1>2, ThreadFacts DEF PopCheck
<1>3. CASE PopReload(c)
  BY <1>3, ThreadFacts DEF PopReload
<1>4. CASE PopClaim(c)
  <2>1. pos[c] + 1 \in Nat
    BY ThreadFacts
  <2>2. QED
    BY <1>4, <2>1 DEF PopClaim
<1>5. CASE PopClaimFails(c)
  BY <1>5, ThreadFacts DEF PopClaimFails
<1>6. CASE PopRead(c)
  <2>1. data[CellOf(pos[c])] \in Values \cup {NoValue}
    BY ThreadFacts, CellType
  <2>2. QED
    BY <1>6, <2>1 DEF PopRead
<1>7. CASE PopRelease(c)
  <2>1. pos[c] + Size \in Nat
    BY ThreadFacts, SizeAssumption
  <2>2. QED
    BY <1>7, <2>1 DEF PopRelease
<1>8. QED
  BY <1>1, <1>2, <1>3, <1>4, <1>5, <1>6, <1>7 DEF PopStep

LEMMA PopPosInv ==
  ASSUME IInv, NEW c \in Consumers, PopCall(c) \/ PopStep(c)
  PROVE  PosOK'
<1> USE DEF IInv, Goto, TypeOK, PosOK
<1>1. CASE PopCall(c)
  BY <1>1, ThreadFacts, ThreadAssumption DEF PopCall
<1>2. CASE PopCheck(c)
  BY <1>2, ThreadFacts, ThreadAssumption DEF PopCheck
<1>3. CASE PopReload(c)
  BY <1>3, ThreadFacts, ThreadAssumption DEF PopReload
<1>4. CASE PopClaim(c)
  BY <1>4, ThreadFacts, ThreadAssumption DEF PopClaim
<1>5. CASE PopClaimFails(c)
  BY <1>5, ThreadFacts, ThreadAssumption DEF PopClaimFails
<1>6. CASE PopRead(c)
  BY <1>6, ThreadFacts, ThreadAssumption DEF PopRead
<1>7. CASE PopRelease(c)
  BY <1>7, ThreadFacts, ThreadAssumption DEF PopRelease
<1>8. QED
  BY <1>1, <1>2, <1>3, <1>4, <1>5, <1>6, <1>7 DEF PopStep

LEMMA PopClaimInv ==
  ASSUME IInv, NEW c \in Consumers, PopCall(c) \/ PopStep(c)
  PROVE  ClaimOK'
<1> USE DEF IInv, Goto, TypeOK, PosOK, ClaimOK, OwnOK, Writing, Reading
<1>1. CASE PopCall(c)
  BY <1>1 DEF PopCall
<1>2. CASE PopCheck(c)
  <2>1. sequence[CellOf(pos[c])] \in Nat /\ pos[c] \in Nat
    BY ThreadFacts, CellType
  <2>2. pc'[c] = "claim" => sequence[CellOf(pos[c])] = pos[c] + 1
    BY <1>2, <2>1, ThreadFacts DEF PopCheck
  <2>3. QED
    BY <1>2, <2>2, ThreadFacts, ThreadAssumption DEF PopCheck
<1>3. CASE PopReload(c)
  BY <1>3 DEF PopReload
<1>4. CASE PopClaim(c)
  <2>1. \A d \in Consumers : pos[d] # dequeue_pos'
    BY <1>4, ThreadFacts DEF PopClaim
  <2>2. \A p \in Producers : pc'[p] = pc[p]
    BY <1>4, ThreadFacts, ThreadAssumption DEF PopClaim
  <2>3. QED
    BY <1>4, <2>1, <2>2 DEF PopClaim
<1>5. CASE PopClaimFails(c)
  BY <1>5 DEF PopClaimFails
<1>6. CASE PopRead(c)
  BY <1>6 DEF PopRead
<1>7. CASE PopRelease(c)
  <2>1. /\ pos[c] \in Nat /\ pos[c] < dequeue_pos
        /\ sequence[CellOf(pos[c])] = pos[c] + 1
    BY <1>7, ThreadFacts DEF PopRelease
  <2>2. \A i \in Cells : sequence'[i] = IF i = CellOf(pos[c])
                                        THEN pos[c] + Size ELSE sequence[i]
    BY <1>7 DEF PopRelease
  <2>3. /\ \A t \in Threads : pc'[t] = IF t = c THEN "idle" ELSE pc[t]
        /\ UNCHANGED <<data, enqueue_pos, dequeue_pos, pos, val, pushed>>
    BY <1>7 DEF PopRelease

  <2>4. ASSUME NEW p \in Producers, pc[p] = "claim", pos[p] = enqueue_pos
        PROVE  CellOf(pos[p]) # CellOf(pos[c])
    <3>1. pos[p] \in Nat /\ sequence[CellOf(pos[p])] = pos[p]
      BY <2>4, ThreadFacts
    <3> HIDE DEF IInv
    <3>2. QED
      BY <2>1, <3>1, CellApart
  <2>5. \A d \in Consumers : pc[d] = "claim" /\ pos[d] = dequeue_pos =>
          CellOf(pos[d]) # CellOf(pos[c])
    BY <2>1, ThreadFacts
  <2>6. /\ \A q \in Producers : pc[q] = "claim" /\ pos[q] = enqueue_pos =>
               pos[q] \in Nat /\ sequence[CellOf(pos[q])] = pos[q]
        /\ \A d \in Consumers : pc[d] = "claim" /\ pos[d] = dequeue_pos =>
               pos[d] \in Nat /\ sequence[CellOf(pos[d])] = pos[d] + 1
    BY ThreadFacts
  <2> HIDE DEF IInv
  <2>7. QED
    BY <2>2, <2>3, <2>4, <2>5, <2>6, ThreadFacts, CellType
<1>8. QED
  BY <1>1, <1>2, <1>3, <1>4, <1>5, <1>6, <1>7 DEF PopStep

LEMMA PopOwnInv ==
  ASSUME IInv, NEW c \in Consumers, PopCall(c) \/ PopStep(c)
  PROVE  OwnOK'
<1> USE DEF IInv, Goto, TypeOK, PosOK, ClaimOK, OwnOK, WindowOK, Writing, Reading
<1>1. CASE PopCall(c)
  <2>1. \A t \in Threads : Owns(t)' =>
          pc'[t] = pc[t] /\ pos'[t] = pos[t] /\ val'[t] = val[t]
    BY <1>1, ThreadAssumption DEF PopCall, Owns
  <2>2. QED
    BY <1>1, <2>1, OwnFrame DEF PopCall
<1>2. CASE PopCheck(c)
  <2>1. \A t \in Threads : Owns(t)' =>
          pc'[t] = pc[t] /\ pos'[t] = pos[t] /\ val'[t] = val[t]
    BY <1>2, ThreadAssumption DEF PopCheck, Owns
  <2>2. QED
    BY <1>2, <2>1, OwnFrame DEF PopCheck
<1>3. CASE PopReload(c)
  <2>1. \A t \in Threads : Owns(t)' =>
          pc'[t] = pc[t] /\ pos'[t] = pos[t] /\ val'[t] = val[t]
    BY <1>3, ThreadAssumption DEF PopReload, Owns
  <2>2. QED
    BY <1>3, <2>1, OwnFrame DEF PopReload
<1>4. CASE PopClaim(c)
  <2>1. /\ pos[c] = dequeue_pos /\ dequeue_pos' = dequeue_pos + 1
        /\ sequence[CellOf(pos[c])] = pos[c] + 1
        /\ \A t \in Threads : pc'[t] = IF t = c THEN "read" ELSE pc[t]
        /\ UNCHANGED <<sequence, data, enqueue_pos, pos, val, pushed>>
    BY <1>4 DEF PopClaim
  <2>2. \A t \in Threads : Writing(t)' <=> Writing(t)
    BY <2>1, ThreadAssumption
  <2>3. \A t \in Threads : Reading(t)' => t = c \/ Reading(t)
    BY <2>1
  <2>4. \A t \in Threads : Reading(t) => pos[t] # pos[c]
    BY <2>1, ThreadFacts
  <2>5. \A t, u \in Threads : t # u =>
        /\ Writing(t)' /\ Writing(u)' => pos'[t] # pos'[u]
        /\ Reading(t)' /\ Reading(u)' => pos'[t] # pos'[u]
    <3>1. \A t, u \in Threads : t # u =>
             /\ Writing(t) /\ Writing(u) => pos[t] # pos[u]
             /\ Reading(t) /\ Reading(u) => pos[t] # pos[u]
      OBVIOUS
    <3> HIDE DEF IInv
    <3>2. QED
      BY <2>1, <2>2, <2>3, <2>4, <3>1, ThreadFacts
  <2>6. \A p \in Producers : Writing(p) => pc'[p] = pc[p]
    BY <2>1, ThreadFacts, ThreadAssumption
  <2>7. \A d \in Consumers : Reading(d)' =>
            pos[d] < dequeue_pos' /\ sequence[CellOf(pos[d])] = pos[d] + 1
    BY <2>1, <2>3, ThreadFacts
  <2>8. QED
    BY <2>1, <2>2, <2>5, <2>6, <2>7, ThreadFacts
<1>5. CASE PopClaimFails(c)
  <2>1. \A t \in Threads : Owns(t)' =>
          pc'[t] = pc[t] /\ pos'[t] = pos[t] /\ val'[t] = val[t]
    BY <1>5, ThreadAssumption DEF PopClaimFails, Owns
  <2>2. QED
    BY <1>5, <2>1, OwnFrame DEF PopClaimFails
<1>6. CASE PopRead(c)
  <2>1. /\ \A t \in Threads : pc'[t] = IF t = c THEN "release" ELSE pc[t]
        /\ \A t \in Threads : t # c => val'[t] = val[t]
        /\ pc[c] = "read"
        /\ UNCHANGED <<sequence, data, enqueue_pos, dequeue_pos, pos, pushed>>
    BY <1>6 DEF PopRead
  <2>2. \A t \in Threads : /\ Writing(t)' <=> Writing(t)
                          /\ Reading(t)' <=> Reading(t)
    BY <2>1, ThreadAssumption
  <2>3. \A p \in Producers : val'[p] = val[p] /\ pc'[p] = pc[p]
    BY <2>1, ThreadFacts, ThreadAssumption
  <2>a. \A q \in Producers : Writing(q) =>
            /\ pos[q] \in Nat /\ pos[q] < enqueue_pos
            /\ sequence[CellOf(pos[q])] = pos[q]
            /\ val[q] = pushed[pos[q] + 1]
            /\ pc[q] = "publish" => data[CellOf(pos[q])] = val[q]
    BY ThreadFacts
  <2>b. \A d \in Consumers : Reading(d) =>
            /\ pos[d] \in Nat /\ pos[d] < dequeue_pos
            /\ sequence[CellOf(pos[d])] = pos[d] + 1
    BY ThreadFacts
  <2>c. \A t, u \in Threads : t # u =>
            /\ Writing(t) /\ Writing(u) => pos[t] # pos[u]
            /\ Reading(t) /\ Reading(u) => pos[t] # pos[u]
    OBVIOUS
  <2>d. enqueue_pos \in Nat /\ dequeue_pos \in Nat
    OBVIOUS
  <2> HIDE DEF IInv
  <2>4. QED
    BY <2>1, <2>2, <2>3, <2>a, <2>b, <2>c, ThreadFacts
<1>7. CASE PopRelease(c)
  <2>1. /\ pos[c] \in Nat /\ pos[c] < dequeue_pos
        /\ sequence[CellOf(pos[c])] = pos[c] + 1
    BY <1>7, ThreadFacts DEF PopRelease
  <2>2. \A i \in Cells : sequence'[i] = IF i = CellOf(pos[c])
                                        THEN pos[c] + Size ELSE sequence[i]
    BY <1>7 DEF PopRelease
  <2>3. /\ \A t \in Threads : pc'[t] = IF t = c THEN "idle" ELSE pc[t]
        /\ UNCHANGED <<data, enqueue_pos, dequeue_pos, pos, val, pushed>>
    BY <1>7 DEF PopRelease

  <2>4. \A t \in Threads : /\ Writing(t)' <=> Writing(t)
                          /\ Reading(t)' <=> Reading(t) /\ t # c
    BY <1>7, <2>3, ThreadAssumption DEF PopRelease
  <2>5. ASSUME NEW p \in Producers, Writing(p)
        PROVE  CellOf(pos[p]) # CellOf(pos[c])
    <3>1. pos[p] \in Nat /\ sequence[CellOf(pos[p])] = pos[p]
      BY <2>5, ThreadFacts
    <3> HIDE DEF IInv
    <3>2. QED
      BY <2>1, <3>1, CellApart
  <2>6. \A d \in Consumers : d # c /\ Reading(d) =>
            CellOf(pos[d]) # CellOf(pos[c])
    BY <1>7, <2>1, ThreadFacts DEF PopRelease
  <2>a. \A q \in Producers : Writing(q) =>
            /\ pos[q] \in Nat /\ pos[q] < enqueue_pos
            /\ sequence[CellOf(pos[q])] = pos[q]
            /\ val[q] = pushed[pos[q] + 1]
            /\ pc[q] = "publish" => data[CellOf(pos[q])] = val[q]
    BY ThreadFacts
  <2>b. \A d \in Consumers : Reading(d) =>
            /\ pos[d] \in Nat /\ pos[d] < dequeue_pos
            /\ sequence[CellOf(pos[d])] = pos[d] + 1
    BY ThreadFacts
  <2>c. \A t, u \in Threads : t # u =>
            /\ Writing(t) /\ Writing(u) => pos[t] # pos[u]
            /\ Reading(t) /\ Reading(u) => pos[t] # pos[u]
    OBVIOUS
  <2>d. enqueue_pos \in Nat /\ dequeue_pos \in Nat
    OBVIOUS
  <2> HIDE DEF IInv
  <2>7. \A p \in Producers : Writing(p)' =>
            sequence'[CellOf(pos[p])] = pos[p] /\ pc'[p] = pc[p]
    BY <2>2, <2>3, <2>4, <2>5, ThreadFacts, ThreadAssumption, CellType, <2>a, <2>b
  <2>8. \A d \in Consumers : Reading(d)' =>
            sequence'[CellOf(pos[d])] = pos[d] + 1
    BY <2>3, <2>2, <2>4, <2>6, ThreadFacts, CellType, <2>a, <2>b
  <2>9. QED
    BY <2>3, <2>4, <2>7, <2>8, <2>a, <2>b, <2>c, ThreadFacts
<1>8. QED
  BY <1>1, <1>2, <1>3, <1>4, <1>5, <1>6, <1>7 DEF PopStep

LEMMA PopWindowInv ==
  ASSUME IInv, NEW c \in Consumers, PopCall(c) \/ PopStep(c)
  PROVE  WindowOK'
<1> USE DEF IInv, Goto, TypeOK, PosOK, ClaimOK, OwnOK, WindowOK, Writing, Reading
<1>1. CASE PopCall(c)
  BY <1>1 DEF PopCall
<1>2. CASE PopCheck(c)
  BY <1>2 DEF PopCheck
<1>3. CASE PopReload(c)
  BY <1>3 DEF PopReload
<1>4. CASE PopClaim(c)
  <2>1. /\ pos[c] = dequeue_pos /\ dequeue_pos' = dequeue_pos + 1
        /\ sequence[CellOf(dequeue_pos)] = dequeue_pos + 1
        /\ UNCHANGED <<sequence, enqueue_pos, pushed>>
    BY <1>4 DEF PopClaim
  <2>2. dequeue_pos < enqueue_pos
    BY <2>1
  <2>3. QED
    BY <2>1, <2>2
<1>5. CASE PopClaimFails(c)
  BY <1>5 DEF PopClaimFails
<1>6. CASE PopRead(c)
  BY <1>6 DEF PopRead
<1>7. CASE PopRelease(c)
  <2>1. /\ pos[c] \in Nat /\ pos[c] < dequeue_pos
        /\ sequence[CellOf(pos[c])] = pos[c] + 1
    BY <1>7, ThreadFacts DEF PopRelease
  <2>2. \A i \in Cells : sequence'[i] = IF i = CellOf(pos[c])
                                        THEN pos[c] + Size ELSE sequence[i]
    BY <1>7 DEF PopRelease
  <2>3. /\ \A t \in Threads : pc'[t] = IF t = c THEN "idle" ELSE pc[t]
        /\ UNCHANGED <<data, enqueue_pos, dequeue_pos, pos, val, pushed>>
    BY <1>7 DEF PopRelease

  <2>4. ASSUME NEW q \in Nat, dequeue_pos <= q, q < enqueue_pos
        PROVE  sequence'[CellOf(q)] = q \/ sequence'[CellOf(q)] = q + 1
    <3>1. CellOf(q) # CellOf(pos[c])
      <4>1. sequence[CellOf(q)] = q \/ sequence[CellOf(q)] = q + 1
        BY <2>4
      <4>2. pos[c] # q
        BY <2>1, <2>4
      <4> HIDE DEF IInv
      <4>3. QED
        BY <2>1, <4>1, <4>2, CellApart
    <3>2. QED
      BY <2>2, <2>4, <3>1, CellType
  <2>5. ASSUME NEW q \in Nat, enqueue_pos <= q
        PROVE  sequence'[CellOf(q)] # q + 1
    <3>1. CASE CellOf(q) = CellOf(pos[c])
      BY <2>1, <2>2, <3>1, CellBefore, CellType, SizeAssumption
    <3>2. CASE CellOf(q) # CellOf(pos[c])
      BY <2>2, <2>5, <3>2, CellType
    <3>3. QED
      BY <3>1, <3>2
  <2>6. QED
    BY <2>3, <2>4, <2>5
<1>8. QED
  BY <1>1, <1>2, <1>3, <1>4, <1>5, <1>6, <1>7 DEF PopStep

LEMMA PopDataInv ==
  ASSUME IInv, NEW c \in Consumers, PopCall(c) \/ PopStep(c)
  PROVE  DataOK'
<1> USE DEF IInv, Goto, TypeOK, OwnOK, WindowOK, DataOK, Writing, Reading
<1>1. CASE PopCall(c)
  BY <1>1 DEF PopCall
<1>2. CASE PopCheck(c)
  BY <1>2 DEF PopCheck
<1>3. CASE PopReload(c)
  BY <1>3 DEF PopReload
<1>4. CASE PopClaim(c)
  BY <1>4 DEF PopClaim
<1>5. CASE PopClaimFails(c)
  BY <1>5 DEF PopClaimFails
<1>6. CASE PopRead(c)
  BY <1>6 DEF PopRead
<1>7. CASE PopRelease(c)
  <2>1. /\ pos[c] \in Nat /\ pos[c] < dequeue_pos
        /\ sequence[CellOf(pos[c])] = pos[c] + 1
    BY <1>7, ThreadFacts DEF PopRelease
  <2>2. \A i \in Cells : sequence'[i] = IF i = CellOf(pos[c])
                                        THEN pos[c] + Size ELSE sequence[i]
    BY <1>7 DEF PopRelease
  <2>3. /\ \A t \in Threads : pc'[t] = IF t = c THEN "idle" ELSE pc[t]
        /\ UNCHANGED <<data, enqueue_pos, dequeue_pos, pos, val, pushed>>
    BY <1>7 DEF PopRelease

  <2>4. ASSUME NEW q \in Nat, q < enqueue_pos, sequence'[CellOf(q)] = q + 1
        PROVE  data[CellOf(q)] = pushed[q + 1]
    <3>1. CASE CellOf(q) = CellOf(pos[c])
      <4>1. q + 1 = pos[c] + Size
        BY <2>2, <2>4, <3>1, CellType
      <4>2. QED
        BY <2>1, <3>1, <4>1, CellBefore
    <3>2. CASE CellOf(q) # CellOf(pos[c])
      BY <2>2, <2>4, <3>2, CellType
    <3>3. QED
      BY <3>1, <3>2
  <2>5. QED
    BY <2>3, <2>4
<1>8. QED
  BY <1>1, <1>2, <1>3, <1>4, <1>5, <1>6, <1>7 DEF PopStep

LEMMA PopValInv ==
  ASSUME IInv, NEW c \in Consumers, PopCall(c) \/ PopStep(c)
  PROVE  ValOK'
<1> USE DEF IInv, Goto, TypeOK, ValOK
<1>1. CASE PopCall(c)
  BY <1>1, ThreadFacts, ThreadAssumption DEF PopCall
<1>2. CASE PopCheck(c)
  BY <1>2, ThreadFacts, ThreadAssumption DEF PopCheck
<1>3. CASE PopReload(c)
  BY <1>3, ThreadFacts, ThreadAssumption DEF PopReload
<1>4. CASE PopClaim(c)
  BY <1>4, ThreadFacts, ThreadAssumption DEF PopClaim
<1>5. CASE PopClaimFails(c)
  BY <1>5, ThreadFacts, ThreadAssumption DEF PopClaimFails
<1>6. CASE PopRead(c)
  BY <1>6, ThreadFacts, ThreadAssumption DEF PopRead
<1>7. CASE PopRelease(c)
  BY <1>7, ThreadFacts, ThreadAssumption DEF PopRelease
<1>8. QED
  BY <1>1, <1>2, <1>3, <1>4, <1>5, <1>6, <1>7 DEF PopStep

(***************************************************************************)
(* The invariant is inductive.                                             *)
(***************************************************************************)
THEOREM NextInv ==
  ASSUME IInv, [Next]_vars
  PROVE  IInv'
<1>1. CASE UNCHANGED vars
  BY <1>1 DEF IInv, TypeOK, PosOK, ClaimOK, OwnOK, WindowOK, DataOK, ValOK,
              Writing, Reading, vars
<1>2. ASSUME NEW p \in Producers, PushCall(p) \/ PushStep(p)
      PROVE  IInv'
  BY <1>2, PushTypeInv, PushPosInv, PushClaimInv, PushOwnInv, PushWindowInv,
     PushDataInv, PushValInv DEF IInv
<1>3. ASSUME NEW c \in Consumers, PopCall(c) \/ PopStep(c)
      PROVE  IInv'
  BY <1>3, PopTypeInv, PopPosInv, PopClaimInv, PopOwnInv, PopWindowInv,
     PopDataInv, PopValInv DEF IInv
<1>4. QED
  BY <1>1, <1>2, <1>3 DEF Next

THEOREM Invariant == Spec => []IInv
  BY InitInv, NextInv, PTL DEF Spec

(* Every reachable state is well typed. *)
THEOREM TypeCorrect == Spec => []TypeOK
<1>1. IInv => TypeOK
  BY DEF IInv
<1>2. QED
  BY <1>1, Invariant, PTL

(* Whatever the number of cells and threads, two threads that own a cell   *)
(* own different cells: no plain access to a cell's data races with         *)
(* another (lines 74 and 103 of queue.hpp).                                *)
LEMMA OwnersApart == IInv => ExclusiveCell
<1>1. SUFFICES ASSUME IInv, NEW t \in Threads, NEW u \in Threads, t # u,
                      Owns(t), Owns(u)
               PROVE  CellOf(pos[t]) # CellOf(pos[u])
  BY DEF ExclusiveCell
<1>2. pos[t] \in Nat /\ pos[u] \in Nat
  BY <1>1 DEF IInv, TypeOK
<1>3. \A x \in Threads : /\ Writing(x) => sequence[CellOf(pos[x])] = pos[x]
                         /\ Reading(x) => sequence[CellOf(pos[x])] = pos[x] + 1
  BY <1>1 DEF IInv, OwnOK, Writing, Reading
<1>4. /\ Writing(t) /\ Writing(u) => pos[t] # pos[u]
      /\ Reading(t) /\ Reading(u) => pos[t] # pos[u]
  BY <1>1 DEF IInv, OwnOK
<1>5. (Writing(t) \/ Reading(t)) /\ (Writing(u) \/ Reading(u))
  BY <1>1 DEF Owns
<1>6. QED
  BY <1>1, <1>2, <1>3, <1>4, <1>5, CellApart

THEOREM CellsExclusive == Spec => []ExclusiveCell
  BY Invariant, OwnersApart, PTL

(***************************************************************************)
(* The queue implements the bounded FIFO.                                  *)
(***************************************************************************)

(* A successful claim finds room: were Size positions in use, the cell of  *)
(* the one claimed would still serve the position a lap before.            *)
LEMMA RoomAtClaim ==
  ASSUME IInv, NEW p \in Producers, PushClaim(p)
  PROVE  Len(pushed) - dequeue_pos < Size
<1>1. /\ enqueue_pos \in Nat /\ dequeue_pos \in Nat
      /\ Len(pushed) = enqueue_pos
      /\ sequence[CellOf(enqueue_pos)] = enqueue_pos
  BY ThreadFacts DEF IInv, TypeOK, WindowOK, ClaimOK, PushClaim
<1>2. SUFFICES ASSUME enqueue_pos - dequeue_pos >= Size
               PROVE  FALSE
  BY <1>1, SizeAssumption
<1> DEFINE q == enqueue_pos - Size
<1>3. q \in Nat /\ dequeue_pos <= q /\ q < enqueue_pos /\ q + Size = enqueue_pos
  BY <1>1, <1>2, SizeAssumption
<1> HIDE DEF q
<1>4. sequence[CellOf(q)] = q \/ sequence[CellOf(q)] = q + 1
  BY <1>3 DEF IInv, WindowOK
<1>5. CellOf(enqueue_pos) = CellOf(q)
  BY <1>3, CellLap
<1>6. QED
  BY <1>1, <1>3, <1>4, <1>5, SizeAssumption

LEMMA PushImplements ==
  ASSUME IInv, NEW p \in Producers, PushCall(p) \/ PushStep(p)
  PROVE  [Fifo!FifoNext]_Fifo!fifoVars
<1>1. \A c \in Consumers : c # p
  BY ThreadAssumption
<1>2. CASE PushClaim(p)
  <2>1. val[p] \in Values
    BY <1>2 DEF PushClaim, IInv, ValOK
  <2>2. LastTaken' = LastTaken
    BY <1>1, <1>2, ThreadFacts DEF PushClaim, LastTaken, Goto, IInv, TypeOK
  <2>3. Fifo!Put(val[p])
    BY <1>2, <2>2, RoomAtClaim DEF PushClaim, Fifo!Put
  <2>4. QED
    BY <2>1, <2>3 DEF Fifo!FifoNext
<1>3. CASE PushWrite(p)
  <2>1. \A c \in Consumers : pc[c] = "read" =>
            CellOf(pos[c]) # CellOf(pos[p])
    BY <1>1, <1>3, OwnersApart, ThreadFacts
    DEF ExclusiveCell, Owns, Writing, Reading, PushWrite
  <2>2. \A c \in Consumers : CellOf(pos[c]) \in Cells
    BY ThreadFacts, CellType DEF IInv, TypeOK
  <2>3. LastTaken' = LastTaken
    BY <1>1, <1>3, <2>1, <2>2, ThreadFacts
    DEF PushWrite, LastTaken, Goto, IInv, TypeOK
  <2>4. QED
    BY <1>3, <2>3 DEF PushWrite, Fifo!fifoVars
<1>4. CASE PushCall(p) \/ PushCheck(p) \/ PushReload(p) \/ PushClaimFails(p)
             \/ PushPublish(p)
  <2>1. UNCHANGED <<data, pushed, dequeue_pos>>
    BY <1>4 DEF PushCall, PushCheck, PushReload, PushClaimFails, PushPublish
  <2>2. \A c \in Consumers : pc'[c] = pc[c] /\ pos'[c] = pos[c]
                             /\ val'[c] = val[c]
    BY <1>1, <1>4, ThreadFacts
    DEF PushCall, PushCheck, PushReload, PushClaimFails, PushPublish, Goto,
        IInv, TypeOK
  <2>3. LastTaken' = LastTaken
    BY <2>1, <2>2 DEF LastTaken
  <2>4. QED
    BY <2>1, <2>3 DEF Fifo!fifoVars
<1>5. QED
  BY <1>2, <1>3, <1>4 DEF PushStep

LEMMA PopImplements ==
  ASSUME IInv, NEW c \in Consumers, PopCall(c) \/ PopStep(c)
  PROVE  [Fifo!FifoNext]_Fifo!fifoVars
<1>1. CASE PopClaim(c)
  <2>1. /\ pos[c] = dequeue_pos /\ pos[c] \in Nat
        /\ sequence[CellOf(pos[c])] = pos[c] + 1
    BY <1>1, ThreadFacts DEF PopClaim, IInv, ClaimOK, TypeOK
  <2>2. dequeue_pos < enqueue_pos /\ Len(pushed) = enqueue_pos
    BY <2>1 DEF IInv, WindowOK, TypeOK
  <2>3. data[CellOf(pos[c])] = pushed[dequeue_pos + 1]
    BY <2>1, <2>2 DEF IInv, DataOK
  <2>4. LastTaken' = [LastTaken EXCEPT ![c] = pushed[dequeue_pos + 1]]
    BY <1>1, <2>3, ThreadFacts DEF PopClaim, LastTaken, Goto, IInv, TypeOK
  <2>5. Fifo!Take(c)
    BY <1>1, <2>1, <2>2, <2>4 DEF PopClaim, Fifo!Take
  <2>6. QED
    BY <2>5 DEF Fifo!FifoNext
<1>2. CASE PopCall(c) \/ PopCheck(c) \/ PopReload(c) \/ PopClaimFails(c)
             \/ PopRead(c) \/ PopRelease(c)
  <2>1. UNCHANGED <<data, pushed, dequeue_pos>>
    BY <1>2 DEF PopCall, PopCheck, PopReload, PopClaimFails, PopRead, PopRelease
  <2>2. \A d \in Consumers : d # c => /\ pc'[d] = pc[d]
                                      /\ pos'[d] = pos[d]
                                      /\ val'[d] = val[d]
    BY <1>2, ThreadFacts
    DEF PopCall, PopCheck, PopReload, PopClaimFails, PopRead, PopRelease,
        Goto, IInv, TypeOK
  <2>3. (IF pc'[c] = "read" THEN data[CellOf(pos'[c])] ELSE val'[c])
          = (IF pc[c] = "read" THEN data[CellOf(pos[c])] ELSE val[c])
    BY <1>2, ThreadFacts
    DEF PopCall, PopCheck, PopReload, PopClaimFails, PopRead, PopRelease,
        Goto, IInv, TypeOK
  <2>4. LastTaken' = LastTaken
    BY <2>1, <2>2, <2>3 DEF LastTaken
  <2>5. QED
    BY <2>1, <2>4 DEF Fifo!fifoVars
<1>3. QED
  BY <1>1, <1>2 DEF PopStep

LEMMA InitImplements == Init => Fifo!FifoInit
  BY ThreadFacts DEF Init, Fifo!FifoInit, LastTaken

LEMMA StepImplements == IInv /\ [Next]_vars => [Fifo!FifoNext]_Fifo!fifoVars
<1>1. ASSUME UNCHANGED vars
      PROVE  UNCHANGED Fifo!fifoVars
  BY <1>1 DEF vars, Fifo!fifoVars, LastTaken
<1>2. QED
  BY <1>1, PushImplements, PopImplements DEF Next

(* Whatever the number of cells and threads, the queue is a bounded FIFO:  *)
(* items leave in the order their pushes claimed a position, each once, as *)
(* they were stored, and never more than Size are inside.                  *)
THEOREM QueueIsFifo == Spec => ImplementsFifo
  BY InitImplements, StepImplements, Invariant, PTL
  DEF Spec, ImplementsFifo, Fifo!FifoSpec

(***************************************************************************)
(* What push_ts and pop_ts report when they give up.                       *)
(*                                                                         *)
(* A position already consumed is behind its cell's sequence, and a        *)
(* position not yet claimed, less than a lap ahead of the consumers, is    *)
(* either free or still held by the consumer of the lap before.            *)
(***************************************************************************)
FreeOrHeld(q) ==
  \/ sequence[CellOf(q)] = q
  \/ \E c \in Consumers : Reading(c) /\ pos[c] + Size = q

LapOK ==
  /\ \A q \in Nat : q < dequeue_pos => sequence[CellOf(q)] > q
  /\ \A q \in Nat : enqueue_pos <= q /\ q < dequeue_pos + Size =>
        FreeOrHeld(q)

(* In the first lap a cell is the one of its own index. *)
LEMMA FirstLap == \A q \in Nat : q < Size => q % Size = q
<1> SUFFICES ASSUME NEW q \in Nat, q < Size
             PROVE  q % Size = q
  OBVIOUS
<1> DEFINE k == q \div Size
           r == q % Size
<1>1. k \in Int /\ r \in 0 .. Size - 1 /\ q = Size * k + r
  BY Division
<1> HIDE DEF k, r
<1>2. k = 0
  BY <1>1, MultipleOfSize, SizeAssumption
<1>3. q = r
  BY <1>1, <1>2, SizeAssumption
<1>4. QED
  BY <1>3 DEF r

LEMMA InitLap == Init => LapOK
<1> SUFFICES ASSUME Init PROVE LapOK
  OBVIOUS
<1>1. \A q \in Nat : q < Size => CellOf(q) = q /\ q \in Cells
  BY FirstLap, SizeAssumption DEF CellOf, Cells
<1> DEFINE early == {q \in Nat : q < Size}
<1>2. /\ \A q \in early : sequence[CellOf(q)] = q
      /\ dequeue_pos = 0 /\ enqueue_pos = 0
  BY <1>1 DEF Init
<1>3. QED
  BY <1>2, SizeAssumption DEF LapOK, FreeOrHeld

(* A step that leaves the sequences and the positions, and the consumers   *)
(* that hold a cell, as they were.                                         *)
LEMMA LapFrame ==
  ASSUME LapOK, UNCHANGED <<sequence, enqueue_pos, dequeue_pos>>,
         \A c \in Consumers : Reading(c) => Reading(c)' /\ pos'[c] = pos[c]
  PROVE  LapOK'
  BY DEF LapOK, FreeOrHeld, CellOf

LEMMA PushLap ==
  ASSUME IInv, LapOK, NEW p \in Producers, PushCall(p) \/ PushStep(p)
  PROVE  LapOK'
<1>1. \A c \in Consumers : c # p
  BY ThreadAssumption
<1>2. \A c \in Consumers : Reading(c) => Reading(c)' /\ pos'[c] = pos[c]
  BY <1>1, ThreadFacts
  DEF IInv, TypeOK, Reading, Goto, PushStep, PushCall, PushCheck, PushReload,
      PushClaim, PushClaimFails, PushWrite, PushPublish
<1>3. CASE PushClaim(p)
  <2>1. /\ enqueue_pos \in Nat /\ enqueue_pos' = enqueue_pos + 1
        /\ UNCHANGED <<sequence, dequeue_pos>>
    BY <1>3, ThreadFacts DEF PushClaim, IInv, TypeOK
  <2>2. QED
    BY <1>2, <2>1 DEF LapOK, FreeOrHeld, CellOf
<1>4. CASE PushPublish(p)
  <2>1. /\ pos[p] \in Nat /\ pos[p] < enqueue_pos /\ enqueue_pos \in Nat
        /\ sequence[CellOf(pos[p])] = pos[p]
        /\ dequeue_pos \in Nat
        /\ UNCHANGED <<enqueue_pos, dequeue_pos>>
        /\ \A i \in Cells : sequence'[i] = IF i = CellOf(pos[p])
                                 THEN pos[p] + 1 ELSE sequence[i]
    BY <1>4, ThreadFacts DEF PushPublish, IInv, TypeOK, OwnOK, Writing
  <2>2. ASSUME NEW q \in Nat, q < dequeue_pos
        PROVE  sequence'[CellOf(q)] > q
    BY <2>1, <2>2, CellType DEF LapOK
  <2>3. ASSUME NEW q \in Nat, enqueue_pos <= q, q < dequeue_pos + Size
        PROVE  FreeOrHeld(q)'
    <3>1. CASE CellOf(q) # CellOf(pos[p])
      BY <1>2, <2>1, <2>3, <3>1, CellType DEF LapOK, FreeOrHeld, CellOf
    <3>2. CASE CellOf(q) = CellOf(pos[p])
      <4>1. PICK c \in Consumers : Reading(c) /\ pos[c] + Size = q
        BY <2>1, <2>3, <3>2 DEF LapOK, FreeOrHeld
      <4>2. QED
        BY <1>2, <4>1 DEF FreeOrHeld
    <3>3. QED
      BY <3>1, <3>2
  <2>4. QED
    BY <2>1, <2>2, <2>3 DEF LapOK
<1>5. CASE PushCall(p) \/ PushCheck(p) \/ PushReload(p) \/ PushClaimFails(p)
             \/ PushWrite(p)
  <2>1. UNCHANGED <<sequence, enqueue_pos, dequeue_pos>>
    BY <1>5 DEF PushCall, PushCheck, PushReload, PushClaimFails, PushWrite
  <2>2. QED
    BY <1>2, <2>1, LapFrame
<1>6. QED
  BY <1>3, <1>4, <1>5 DEF PushStep

LEMMA PopLap ==
  ASSUME IInv, LapOK, NEW c \in Consumers, PopCall(c) \/ PopStep(c)
  PROVE  LapOK'
<1>1. \A d \in Consumers : d # c /\ Reading(d) =>
                              Reading(d)' /\ pos'[d] = pos[d]
  BY ThreadFacts
  DEF IInv, TypeOK, Reading, Goto, PopStep, PopCall, PopCheck, PopReload,
      PopClaim, PopClaimFails, PopRead, PopRelease
<1>2. CASE PopClaim(c)
  <2>1. /\ dequeue_pos \in Nat /\ pos[c] = dequeue_pos
        /\ dequeue_pos' = dequeue_pos + 1
        /\ sequence[CellOf(dequeue_pos)] = dequeue_pos + 1
        /\ UNCHANGED <<sequence, enqueue_pos, pos>>
        /\ ~ Reading(c) /\ Reading(c)'
    BY <1>2, ThreadFacts DEF PopClaim, IInv, TypeOK, ClaimOK, Reading, Goto
  <2>2. ASSUME NEW q \in Nat, q < dequeue_pos'
        PROVE  sequence'[CellOf(q)] > q
    <3>1. CASE q = dequeue_pos
      BY <2>1, <3>1
    <3>2. CASE q # dequeue_pos
      BY <2>1, <2>2, <3>2 DEF LapOK
    <3>3. QED
      BY <3>1, <3>2
  <2>3. ASSUME NEW q \in Nat, enqueue_pos' <= q, q < dequeue_pos' + Size
        PROVE  FreeOrHeld(q)'
    <3>1. CASE q = dequeue_pos + Size
      BY <2>1, <3>1 DEF FreeOrHeld
    <3>2. CASE q # dequeue_pos + Size
      BY <1>1, <2>1, <2>3, <3>2, SizeAssumption DEF LapOK, FreeOrHeld, CellOf
    <3>3. QED
      BY <3>1, <3>2
  <2>4. QED
    BY <2>2, <2>3 DEF LapOK, CellOf
<1>3. CASE PopRelease(c)
  <2>1. /\ pos[c] \in Nat /\ pos[c] < dequeue_pos /\ dequeue_pos \in Nat
        /\ sequence[CellOf(pos[c])] = pos[c] + 1 /\ CellOf(pos[c]) \in Cells
        /\ UNCHANGED <<enqueue_pos, dequeue_pos>>
        /\ \A i \in Cells : sequence'[i] = IF i = CellOf(pos[c])
                                 THEN pos[c] + Size ELSE sequence[i]
    BY <1>3, ThreadFacts, CellType
    DEF PopRelease, IInv, TypeOK, OwnOK, Reading
  <2>2. ASSUME NEW q \in Nat, q < dequeue_pos
        PROVE  sequence'[CellOf(q)] > q
    BY <2>1, <2>2, CellType, SizeAssumption DEF LapOK
  <2>3. ASSUME NEW q \in Nat, enqueue_pos <= q, q < dequeue_pos + Size
        PROVE  FreeOrHeld(q)'
    <3>1. CASE sequence[CellOf(q)] = q
      <4>1. CellOf(q) # CellOf(pos[c])
        BY <2>1, <3>1, CellApart
      <4>2. QED
        BY <2>1, <3>1, <4>1, CellType DEF FreeOrHeld, CellOf
    <3>2. CASE \E d \in Consumers : Reading(d) /\ pos[d] + Size = q
      <4>1. PICK d \in Consumers : Reading(d) /\ pos[d] + Size = q
        BY <3>2
      <4>2. CASE d = c
        <5>1. CellOf(q) = CellOf(pos[c]) /\ q = pos[c] + Size
          BY <2>1, <4>1, <4>2, CellLap
        <5>2. sequence'[CellOf(q)] = q
          BY <2>1, <5>1
        <5>3. QED
          BY <5>2 DEF FreeOrHeld, CellOf
      <4>3. CASE d # c
        BY <1>1, <4>1, <4>3 DEF FreeOrHeld
      <4>4. QED
        BY <4>2, <4>3
    <3>3. QED
      BY <2>3, <3>1, <3>2 DEF LapOK, FreeOrHeld
  <2>4. QED
    BY <2>1, <2>2, <2>3 DEF LapOK, CellOf
<1>4. CASE PopCall(c) \/ PopCheck(c) \/ PopReload(c) \/ PopClaimFails(c)
             \/ PopRead(c)
  <2>1. UNCHANGED <<sequence, enqueue_pos, dequeue_pos>>
    BY <1>4 DEF PopCall, PopCheck, PopReload, PopClaimFails, PopRead
  <2>2. Reading(c) => Reading(c)' /\ pos'[c] = pos[c]
    BY <1>4, ThreadFacts
    DEF PopCall, PopCheck, PopReload, PopClaimFails, PopRead, Reading, Goto,
        IInv, TypeOK
  <2>3. QED
    BY <1>1, <2>1, <2>2, LapFrame
<1>5. QED
  BY <1>2, <1>3, <1>4 DEF PopStep

LEMMA NextLap ==
  ASSUME IInv, LapOK, [Next]_vars
  PROVE  LapOK'
<1>1. CASE UNCHANGED vars
  BY <1>1 DEF vars, LapOK, FreeOrHeld, Reading, CellOf
<1>2. QED
  BY <1>1, PushLap, PopLap DEF Next

(* Never more than Size positions are between the counters. *)
LEMMA NeverOverfull == IInv => enqueue_pos - dequeue_pos <= Size
<1> SUFFICES ASSUME IInv, enqueue_pos - dequeue_pos > Size
             PROVE  FALSE
  BY SizeAssumption DEF IInv, TypeOK
<1> DEFINE q == dequeue_pos
<1>1. /\ q \in Nat /\ q + Size \in Nat /\ q + Size < enqueue_pos
      /\ q < enqueue_pos /\ enqueue_pos \in Nat
  BY SizeAssumption DEF IInv, TypeOK
<1>2. /\ sequence[CellOf(q)] \in {q, q + 1}
      /\ sequence[CellOf(q + Size)] \in {q + Size, q + Size + 1}
  BY <1>1, SizeAssumption DEF IInv, WindowOK
<1>3. CellOf(q + Size) = CellOf(q)
  BY <1>1, CellLap
<1> HIDE DEF q
<1>4. QED
  BY <1>1, <1>2, <1>3, SizeAssumption

LEMMA GiveUpPush ==
  ASSUME IInv, LapOK, NEW p \in Producers, PushCheck(p), pc'[p] = "idle",
         ~ \E c \in Consumers : Reading(c)
  PROVE  enqueue_pos - dequeue_pos = Size
<1>1. /\ pos[p] \in Nat /\ enqueue_pos \in Nat /\ dequeue_pos \in Nat
      /\ pos[p] <= enqueue_pos /\ pc[p] = "check"
      /\ CellOf(pos[p]) \in Cells
  BY ThreadFacts, CellType DEF IInv, TypeOK, PosOK, PushCheck
<1>2. sequence[CellOf(pos[p])] < pos[p]
  BY <1>1, ThreadFacts DEF PushCheck, Goto, IInv, TypeOK
<1>3. sequence[CellOf(pos[p])] \in Nat
  BY <1>1 DEF IInv, TypeOK
<1>4. pos[p] >= dequeue_pos
  BY <1>1, <1>2, <1>3 DEF LapOK
<1>5. pos[p] = enqueue_pos
  BY <1>1, <1>2, <1>3, <1>4 DEF IInv, WindowOK
<1>6. ~ FreeOrHeld(enqueue_pos)
  BY <1>1, <1>2, <1>3, <1>5 DEF FreeOrHeld
<1>7. enqueue_pos >= dequeue_pos + Size
  BY <1>1, <1>6, SizeAssumption DEF LapOK
<1>8. QED
  BY <1>1, <1>7, NeverOverfull, SizeAssumption

(* A claimed position is filled, or its producer is still at work. *)
FilledOrBusy(q) ==
  \/ sequence[CellOf(q)] = q + 1
  \/ \E p \in Producers : Writing(p) /\ pos[p] = q

FillOK ==
  \A q \in Nat : dequeue_pos <= q /\ q < enqueue_pos => FilledOrBusy(q)

LEMMA InitFill == Init => FillOK
  BY DEF Init, FillOK

LEMMA FillFrame ==
  ASSUME FillOK, UNCHANGED <<sequence, enqueue_pos, dequeue_pos>>,
         \A p \in Producers : Writing(p) => Writing(p)' /\ pos'[p] = pos[p]
  PROVE  FillOK'
  BY DEF FillOK, FilledOrBusy, CellOf

LEMMA PushFill ==
  ASSUME IInv, FillOK, NEW p \in Producers, PushCall(p) \/ PushStep(p)
  PROVE  FillOK'
<1>1. \A r \in Producers : r # p /\ Writing(r) =>
                             Writing(r)' /\ pos'[r] = pos[r]
  BY ThreadFacts
  DEF IInv, TypeOK, Writing, Goto, PushStep, PushCall, PushCheck, PushReload,
      PushClaim, PushClaimFails, PushWrite, PushPublish
<1>2. CASE PushClaim(p)
  <2>1. /\ enqueue_pos \in Nat /\ enqueue_pos' = enqueue_pos + 1
        /\ UNCHANGED <<sequence, dequeue_pos, pos>>
        /\ ~ Writing(p) /\ Writing(p)' /\ pos[p] = enqueue_pos
    BY <1>2, ThreadFacts DEF PushClaim, IInv, TypeOK, Writing, Goto
  <2>2. ASSUME NEW q \in Nat, dequeue_pos' <= q, q < enqueue_pos'
        PROVE  FilledOrBusy(q)'
    <3>1. CASE q = enqueue_pos
      BY <2>1, <3>1 DEF FilledOrBusy
    <3>2. CASE q # enqueue_pos
      BY <1>1, <2>1, <2>2, <3>2 DEF FillOK, FilledOrBusy, CellOf
    <3>3. QED
      BY <3>1, <3>2
  <2>3. QED
    BY <2>2 DEF FillOK
<1>3. CASE PushPublish(p)
  <2>1. /\ pos[p] \in Nat /\ sequence[CellOf(pos[p])] = pos[p]
        /\ CellOf(pos[p]) \in Cells
        /\ UNCHANGED <<enqueue_pos, dequeue_pos>>
        /\ \A i \in Cells : sequence'[i] = IF i = CellOf(pos[p])
                                 THEN pos[p] + 1 ELSE sequence[i]
    BY <1>3, ThreadFacts, CellType
    DEF PushPublish, IInv, TypeOK, OwnOK, Writing
  <2>2. ASSUME NEW q \in Nat, dequeue_pos <= q, q < enqueue_pos
        PROVE  FilledOrBusy(q)'
    <3>1. FilledOrBusy(q)
      BY <2>2 DEF FillOK
    <3>2. CASE q = pos[p]
      BY <2>1, <3>2 DEF FilledOrBusy, CellOf
    <3>3. CASE q # pos[p]
      <4>1. CASE \E r \in Producers : Writing(r) /\ pos[r] = q
        BY <1>1, <3>3, <4>1 DEF FilledOrBusy
      <4>2. CASE sequence[CellOf(q)] = q + 1
        <5>1. CellOf(q) # CellOf(pos[p])
          BY <2>1, <4>2, CellApart
        <5>2. QED
          BY <2>1, <4>2, <5>1, CellType DEF FilledOrBusy, CellOf
      <4>3. QED
        BY <3>1, <4>1, <4>2 DEF FilledOrBusy
    <3>4. QED
      BY <3>2, <3>3
  <2>3. QED
    BY <2>1, <2>2 DEF FillOK
<1>4. CASE PushCall(p) \/ PushCheck(p) \/ PushReload(p) \/ PushClaimFails(p)
             \/ PushWrite(p)
  <2>1. /\ UNCHANGED <<sequence, enqueue_pos, dequeue_pos>>
        /\ Writing(p) => Writing(p)' /\ pos'[p] = pos[p]
    BY <1>4, ThreadFacts
    DEF PushCall, PushCheck, PushReload, PushClaimFails, PushWrite, Writing,
        Goto, IInv, TypeOK
  <2>2. QED
    BY <1>1, <2>1, FillFrame
<1>5. QED
  BY <1>2, <1>3, <1>4 DEF PushStep

LEMMA PopFill ==
  ASSUME IInv, FillOK, NEW c \in Consumers, PopCall(c) \/ PopStep(c)
  PROVE  FillOK'
<1>1. \A p \in Producers : p # c
  BY ThreadAssumption
<1>2. \A p \in Producers : Writing(p) => Writing(p)' /\ pos'[p] = pos[p]
  BY <1>1, ThreadFacts
  DEF IInv, TypeOK, Writing, Goto, PopStep, PopCall, PopCheck, PopReload,
      PopClaim, PopClaimFails, PopRead, PopRelease
<1>3. CASE PopClaim(c)
  <2>1. /\ dequeue_pos \in Nat /\ dequeue_pos' = dequeue_pos + 1
        /\ UNCHANGED <<sequence, enqueue_pos>>
    BY <1>3, ThreadFacts DEF PopClaim, IInv, TypeOK
  <2>2. QED
    BY <1>2, <2>1 DEF FillOK, FilledOrBusy, CellOf
<1>4. CASE PopRelease(c)
  <2>1. /\ pos[c] \in Nat /\ pos[c] < dequeue_pos /\ dequeue_pos \in Nat
        /\ sequence[CellOf(pos[c])] = pos[c] + 1
        /\ UNCHANGED <<enqueue_pos, dequeue_pos>>
        /\ \A i \in Cells : i # CellOf(pos[c]) => sequence'[i] = sequence[i]
    BY <1>4, ThreadFacts, CellType
    DEF PopRelease, IInv, TypeOK, OwnOK, Reading
  <2>2. ASSUME NEW q \in Nat, dequeue_pos <= q, q < enqueue_pos
        PROVE  FilledOrBusy(q)'
    <3>1. /\ FilledOrBusy(q)
          /\ sequence[CellOf(q)] = q \/ sequence[CellOf(q)] = q + 1
      BY <2>2 DEF FillOK, IInv, WindowOK
    <3>2. CellOf(q) # CellOf(pos[c])
      BY <2>1, <2>2, <3>1, CellApart
    <3>3. QED
      BY <1>2, <2>1, <3>1, <3>2, CellType DEF FilledOrBusy, CellOf
  <2>3. QED
    BY <2>1, <2>2 DEF FillOK
<1>5. CASE PopCall(c) \/ PopCheck(c) \/ PopReload(c) \/ PopClaimFails(c)
             \/ PopRead(c)
  <2>1. UNCHANGED <<sequence, enqueue_pos, dequeue_pos>>
    BY <1>5 DEF PopCall, PopCheck, PopReload, PopClaimFails, PopRead
  <2>2. QED
    BY <1>2, <2>1, FillFrame
<1>6. QED
  BY <1>3, <1>4, <1>5 DEF PopStep

LEMMA NextFill ==
  ASSUME IInv, FillOK, [Next]_vars
  PROVE  FillOK'
<1>1. CASE UNCHANGED vars
  BY <1>1 DEF vars, FillOK, FilledOrBusy, Writing, CellOf
<1>2. QED
  BY <1>1, PushFill, PopFill DEF Next

LEMMA LapInvariant == Spec => [](IInv /\ LapOK /\ FillOK)
  BY InitInv, InitLap, InitFill, NextInv, NextLap, NextFill, PTL DEF Spec

LEMMA GiveUpPop ==
  ASSUME IInv, LapOK, FillOK, NEW c \in Consumers, PopCheck(c),
         pc'[c] = "idle", ~ \E p \in Producers : Writing(p)
  PROVE  enqueue_pos = dequeue_pos
<1>1. /\ pos[c] \in Nat /\ enqueue_pos \in Nat /\ dequeue_pos \in Nat
      /\ pos[c] <= dequeue_pos /\ dequeue_pos <= enqueue_pos /\ pc[c] = "check"
      /\ sequence[CellOf(pos[c])] \in Nat
  BY ThreadFacts, CellType DEF IInv, TypeOK, PosOK, WindowOK, PopCheck
<1>2. sequence[CellOf(pos[c])] < pos[c] + 1
  BY <1>1, ThreadFacts DEF PopCheck, Goto, IInv, TypeOK
<1>3. pos[c] = dequeue_pos
  BY <1>1, <1>2 DEF LapOK
<1>4. dequeue_pos < enqueue_pos => FilledOrBusy(dequeue_pos)
  BY <1>1 DEF FillOK
<1>5. QED
  BY <1>1, <1>2, <1>3, <1>4 DEF FilledOrBusy

(* A thread that leaves its check for good is giving up. *)
LEMMA PushIdles ==
  ASSUME IInv, NEW p \in Producers, pc[p] = "check", pc'[p] = "idle",
         [Next]_vars
  PROVE  PushCheck(p)
<1>1. ASSUME NEW r \in Producers, r # p, PushCall(r) \/ PushStep(r)
      PROVE  FALSE
  BY <1>1, ThreadFacts
  DEF IInv, TypeOK, Goto, PushStep, PushCall, PushCheck, PushReload, PushClaim,
      PushClaimFails, PushWrite, PushPublish
<1>2. ASSUME PushCall(p) \/ PushStep(p)
      PROVE  PushCheck(p)
  BY <1>2
  DEF PushStep, PushCall, PushReload, PushClaim, PushClaimFails, PushWrite,
      PushPublish
<1>3. ASSUME NEW c \in Consumers, PopCall(c) \/ PopStep(c)
      PROVE  FALSE
  <2>1. c # p
    BY ThreadAssumption
  <2>2. QED
    BY <1>3, <2>1, ThreadFacts
    DEF IInv, TypeOK, Goto, PopStep, PopCall, PopCheck, PopReload, PopClaim,
        PopClaimFails, PopRead, PopRelease
<1>4. QED
  BY <1>1, <1>2, <1>3 DEF Next, vars

LEMMA PopIdles ==
  ASSUME IInv, NEW c \in Consumers, pc[c] = "check", pc'[c] = "idle",
         [Next]_vars
  PROVE  PopCheck(c)
<1>1. ASSUME NEW d \in Consumers, d # c, PopCall(d) \/ PopStep(d)
      PROVE  FALSE
  BY <1>1, ThreadFacts
  DEF IInv, TypeOK, Goto, PopStep, PopCall, PopCheck, PopReload, PopClaim,
      PopClaimFails, PopRead, PopRelease
<1>2. ASSUME PopCall(c) \/ PopStep(c)
      PROVE  PopCheck(c)
  BY <1>2
  DEF PopStep, PopCall, PopReload, PopClaim, PopClaimFails, PopRead, PopRelease
<1>3. ASSUME NEW p \in Producers, PushCall(p) \/ PushStep(p)
      PROVE  FALSE
  <2>1. c # p
    BY ThreadAssumption
  <2>2. QED
    BY <1>3, <2>1, ThreadFacts
    DEF IInv, TypeOK, Goto, PushStep, PushCall, PushCheck, PushReload,
        PushClaim, PushClaimFails, PushWrite, PushPublish
<1>4. QED
  BY <1>1, <1>2, <1>3 DEF Next, vars

(* Whatever the number of cells and threads, push_ts returns false (line   *)
(* 67 of queue.hpp) only when Size items are inside, or while a consumer   *)
(* still holds a cell: a stale position alone never makes a queue full.    *)
THEOREM FullOnlyWhenFull == Spec => FullIsReal
<1>1. IInv /\ LapOK /\ [Next]_vars =>
        [\A p \in Producers : pc[p] = "check" /\ pc'[p] = "idle" =>
            \/ enqueue_pos - dequeue_pos = Size
            \/ \E c \in Consumers : Reading(c)]_vars
  BY PushIdles, GiveUpPush
<1>2. QED
  BY <1>1, LapInvariant, PTL DEF Spec, FullIsReal

(* Whatever the number of cells and threads, pop_ts returns false (line 96 *)
(* of queue.hpp) only when nothing is inside, or while a producer is still *)
(* filling a cell it has claimed.                                          *)
THEOREM EmptyOnlyWhenEmpty == Spec => EmptyIsReal
<1>1. IInv /\ LapOK /\ FillOK /\ [Next]_vars =>
        [\A c \in Consumers : pc[c] = "check" /\ pc'[c] = "idle" =>
            \/ enqueue_pos = dequeue_pos
            \/ \E p \in Producers : Writing(p)]_vars
  BY PopIdles, GiveUpPop
<1>2. QED
  BY <1>1, LapInvariant, PTL DEF Spec, EmptyIsReal
=============================================================================

--------------------------- MODULE DirWatch_proofs ---------------------------
(***************************************************************************)
(* Proofs about DirWatch, for every set of events, every limit of the      *)
(* kernel's queue and of the buffer, and any number of events and watches. *)
(*                                                                         *)
(* watchAvailable is accessed outside the mutex, so the flag alone must    *)
(* say whose turn it is.  Turns says that it does: while the thread is on, *)
(* the flag is set whenever pollWatch is at work, and not set whenever the *)
(* thread is reading or translating.                                       *)
(***************************************************************************)
EXTENDS DirWatch, SequenceTheorems, WellFoundedInduction, TLAPS

(***************************************************************************)
(* Induction.                                                              *)
(***************************************************************************)
Less == {pair \in Nat \X Nat : pair[1] < pair[2]}

LEMMA LessWellFounded == IsWellFoundedOn(Less, Nat)
  BY NatLessThanWellFounded DEF OpToRel, Less

(* A set of numbers has a least one. *)
LEMMA Least ==
  ASSUME NEW S, S \subseteq Nat, S # {}
  PROVE  \E m \in S : \A k \in S : m <= k
<1>1. PICK m \in S : \A k \in S : ~ (<<k, m>> \in Less)
  BY LessWellFounded, WFMin
<1>2. ASSUME NEW k \in S, k < m PROVE FALSE
  <2>1. <<k, m>> \in Less
    BY <1>2 DEF Less
  <2>2. QED
    BY <1>1, <2>1
<1>3. QED
  BY <1>2

(* A set that has 0, and with every number below n the next, has them all  *)
(* up to n.                                                                *)
LEMMA Induction ==
  ASSUME NEW n \in Nat, NEW S, 0 \in S,
         \A k \in Nat : k < n /\ k \in S => k + 1 \in S
  PROVE  \A k \in 0 .. n : k \in S
<1> DEFINE out == {k \in 0 .. n : k \notin S}
<1>1. SUFFICES ASSUME out # {} PROVE FALSE
  OBVIOUS
<1>2. PICK m \in out : \A k \in out : m <= k
  <2>1. out \subseteq Nat
    OBVIOUS
  <2> HIDE DEF out
  <2>2. QED
    BY <1>1, <2>1, Least
<1>3. m \in Nat /\ m # 0 /\ m <= n /\ m \notin S
  BY <1>2
<1>4. m - 1 \in 0 .. n /\ m - 1 \notin out /\ (m - 1) + 1 = m /\ m - 1 \in Nat
  BY <1>2, <1>3
<1>5. m - 1 \in S
  BY <1>4
<1>6. QED
  BY <1>3, <1>4, <1>5

(***************************************************************************)
(* FlattenSeq.                                                             *)
(***************************************************************************)

(* What FlattenSeq's recursive function is on the first n sequences of s.  *)
Flattens(h, s, n) ==
  h = [i \in 1 .. n |-> IF i = 1 THEN s[i] ELSE h[i - 1] \o s[i]]

LEMMA FlattensExists == \A s : \A n \in Nat : \E h : Flattens(h, s, n)
<1> SUFFICES ASSUME NEW s, NEW n \in Nat
             PROVE  \E h : Flattens(h, s, n)
  OBVIOUS
<1> DEFINE S == {k \in 0 .. n : \E h : Flattens(h, s, k)}
<1>1. 0 \in S
  <2> DEFINE h == [i \in 1 .. 0 |-> {}]
  <2>1. Flattens(h, s, 0)
    BY DEF Flattens
  <2>2. QED
    BY <2>1
<1>2. ASSUME NEW k \in Nat, k < n, k \in S
      PROVE  k + 1 \in S
  <2>1. PICK h : Flattens(h, s, k)
    BY <1>2
  <2> DEFINE g == [i \in 1 .. k + 1 |->
                     IF i = k + 1 THEN IF i = 1 THEN s[i] ELSE h[k] \o s[i]
                     ELSE h[i]]
  <2>2. \A i \in 1 .. k : h[i] = IF i = 1 THEN s[i] ELSE h[i - 1] \o s[i]
    BY <2>1 DEF Flattens
  <2>3. /\ \A i \in 1 .. k : g[i] = h[i]
        /\ g[k + 1] = IF k + 1 = 1 THEN s[k + 1] ELSE h[k] \o s[k + 1]
        /\ g = [i \in 1 .. k + 1 |-> g[i]]
    <3>1. \A i \in 1 .. k : i \in 1 .. k + 1 /\ i # k + 1
      OBVIOUS
    <3>2. k + 1 \in 1 .. k + 1
      OBVIOUS
    <3>3. \A i \in 1 .. k : g[i] = h[i]
      BY <3>1
    <3>4. g[k + 1] = IF k + 1 = 1 THEN s[k + 1] ELSE h[k] \o s[k + 1]
      BY <3>2, Zenon
    <3>5. QED
      BY <3>3, <3>4
  <2> HIDE DEF g
  <2>4. ASSUME NEW i \in 1 .. k + 1
        PROVE  g[i] = IF i = 1 THEN s[i] ELSE g[i - 1] \o s[i]
    <3>1. CASE i = k + 1
      <4>1. CASE k = 0
        BY <2>3, <3>1, <4>1
      <4>2. CASE k # 0
        <5>1. k \in 1 .. k /\ i - 1 = k /\ i # 1
          BY <3>1, <4>2
        <5>2. g[i] = h[k] \o s[i] /\ g[i - 1] = h[k]
          BY <2>3, <3>1, <5>1
        <5>3. QED
          BY <5>1, <5>2, Zenon
      <4>3. QED
        BY <4>1, <4>2
    <3>2. CASE i # k + 1
      <4>5. i \in 1 .. k
        BY <3>2
      <4>1. i \in 1 .. k /\ g[i] = h[i]
        BY <2>3, <4>5
      <4>2. CASE i = 1
        BY <2>2, <4>1, <4>2
      <4>3. CASE i # 1
        <5>1. i - 1 \in 1 .. k
          BY <4>1, <4>3
        <5>2. g[i - 1] = h[i - 1]
          BY <2>3, <5>1, Zenon
        <5>3. h[i] = IF i = 1 THEN s[i] ELSE h[i - 1] \o s[i]
          BY <2>2, <4>1, Zenon
        <5>4. g[i] = g[i - 1] \o s[i]
          BY <4>1, <4>3, <5>2, <5>3
        <5>5. QED
          BY <4>3, <5>4, Zenon
      <4>4. QED
        BY <4>2, <4>3
    <3>3. QED
      BY <3>1, <3>2
  <2>5. g = [i \in 1 .. k + 1 |-> IF i = 1 THEN s[i] ELSE g[i - 1] \o s[i]]
    <3> DEFINE f == [i \in 1 .. k + 1 |-> IF i = 1 THEN s[i] ELSE g[i - 1] \o s[i]]
    <3>1. \A i \in 1 .. k + 1 : g[i] = f[i]
      BY <2>4
    <3> HIDE DEF f
    <3>2. f = [i \in 1 .. k + 1 |-> f[i]]
      BY DEF f
    <3>3. f = g
      BY <2>3, <3>1, <3>2
    <3>4. QED
      BY <3>3 DEF f
  <2>6. k + 1 \in 0 .. n
    BY <1>2
  <2>7. QED
    BY <2>5, <2>6 DEF Flattens
<1> HIDE DEF S
<1>3. n \in S
  BY <1>1, <1>2, Induction
<1>4. QED
  BY <1>3 DEF S

(* FlattenSeq is the last value of that function. *)
LEMMA FlattenByFunction ==
  ASSUME NEW s, Len(s) \in Nat, Len(s) # 0
  PROVE  \E h : FlattenSeq(s) = h[Len(s)] /\ Flattens(h, s, Len(s))
<1> DEFINE h == CHOOSE h : h = [i \in 1 .. Len(s) |->
                                  IF i = 1 THEN s[i] ELSE h[i - 1] \o s[i]]
<1>1. PICK g : g = [i \in 1 .. Len(s) |-> IF i = 1 THEN s[i] ELSE g[i - 1] \o s[i]]
  BY FlattensExists DEF Flattens
<1>2. h = [i \in 1 .. Len(s) |-> IF i = 1 THEN s[i] ELSE h[i - 1] \o s[i]]
  BY <1>1, Zenon
<1>3. FlattenSeq(s) = h[Len(s)]
  BY Zenon DEF FlattenSeq
<1>4. QED
  BY <1>2, <1>3, Zenon DEF Flattens

(* There is but one such function. *)
Agree(s, t, m) == \A i \in 1 .. m : s[i] = t[i]

LEMMA FlattensUnique ==
  ASSUME NEW s, NEW t, NEW m \in Nat, NEW n \in Nat, m <= n, Agree(s, t, m),
         NEW g, Flattens(g, s, m), NEW h, Flattens(h, t, n)
  PROVE  Agree(g, h, m)
<1> DEFINE S == {k \in Nat : k \in 1 .. m => g[k] = h[k]}
<1>1. /\ \A i \in 1 .. m : g[i] = IF i = 1 THEN s[i] ELSE g[i - 1] \o s[i]
      /\ \A i \in 1 .. n : h[i] = IF i = 1 THEN t[i] ELSE h[i - 1] \o t[i]
  BY DEF Flattens
<1>2. 0 \in S
  OBVIOUS
<1>3. ASSUME NEW k \in Nat, k < m, k \in S
      PROVE  k + 1 \in S
  <2>1. k + 1 \in 1 .. m /\ k + 1 \in 1 .. n /\ (k + 1) - 1 = k
    BY <1>3
  <2>2. s[k + 1] = t[k + 1]
    BY <2>1 DEF Agree
  <2>3. CASE k = 0
    <3>1. k + 1 = 1
      BY <2>3
    <3>2. g[k + 1] = s[k + 1] /\ h[k + 1] = t[k + 1]
      BY <1>1, <2>1, <3>1
    <3>3. QED
      BY <2>2, <3>2
  <2>4. CASE k # 0
    <3>1. k \in 1 .. m /\ k + 1 # 1
      BY <1>3, <2>4
    <3>2. g[k] = h[k]
      BY <1>3, <3>1
    <3>3. g[k + 1] = g[k] \o s[k + 1] /\ h[k + 1] = h[k] \o t[k + 1]
      <4>1. /\ g[k + 1] = IF k + 1 = 1 THEN s[k + 1]
                           ELSE g[(k + 1) - 1] \o s[k + 1]
            /\ h[k + 1] = IF k + 1 = 1 THEN t[k + 1]
                           ELSE h[(k + 1) - 1] \o t[k + 1]
        BY <1>1, <2>1, Zenon
      <4>2. QED
        BY <2>1, <3>1, <4>1
    <3>4. g[k + 1] = h[k + 1]
      BY <2>2, <3>2, <3>3
    <3>5. QED
      BY <3>4
  <2>5. QED
    BY <2>3, <2>4
<1> HIDE DEF S
<1>4. \A k \in 0 .. m : k \in S
  BY <1>2, <1>3, Induction
<1>5. QED
  BY <1>4 DEF S, Agree

LEMMA FlattenEmpty == FlattenSeq(<<>>) = <<>>
  BY DEF FlattenSeq

LEMMA FlattenAppend ==
  ASSUME NEW T, NEW s \in Seq(Seq(T)), NEW e \in Seq(T)
  PROVE  FlattenSeq(Append(s, e)) = FlattenSeq(s) \o e
<1> DEFINE t == Append(s, e)
           n == Len(s)
<1>1. /\ n \in Nat /\ Len(t) = n + 1 /\ t[n + 1] = e
      /\ \A i \in 1 .. n : s[i] = t[i]
  OBVIOUS
<1> HIDE DEF t
<1>2. PICK h : FlattenSeq(t) = h[n + 1] /\ Flattens(h, t, n + 1)
  <2>1. Len(t) \in Nat /\ Len(t) # 0
    BY <1>1
  <2>2. QED
    BY <1>1, <2>1, FlattenByFunction
<1>3. h[n + 1] = IF n + 1 = 1 THEN t[n + 1] ELSE h[(n + 1) - 1] \o t[n + 1]
  <2>1. n + 1 \in 1 .. n + 1
    BY <1>1
  <2> HIDE DEF n
  <2>2. QED
    BY <1>2, <2>1, Zenon DEF Flattens
<1>4. CASE n = 0
  <2>1. s = <<>>
    BY <1>4
  <2>2. FlattenSeq(t) = e
    BY <1>1, <1>2, <1>3, <1>4
  <2>3. <<>> \o e = e
    OBVIOUS
  <2>4. QED
    BY <2>1, <2>2, <2>3, FlattenEmpty DEF t
<1>5. CASE n # 0
  <2>1. PICK g : FlattenSeq(s) = g[n] /\ Flattens(g, s, n)
    BY <1>1, <1>5, FlattenByFunction
  <2>2. g[n] = h[n]
    <3>1. n \in 1 .. n /\ n \in Nat /\ n + 1 \in Nat /\ n <= n + 1
      BY <1>1, <1>5
    <3>2. Flattens(g, s, n) /\ Flattens(h, t, n + 1)
      BY <1>2, <2>1
    <3>3. Agree(s, t, n)
      BY <1>1 DEF Agree
    <3> HIDE DEF n
    <3>4. Agree(g, h, n)
      BY <3>1, <3>2, <3>3, FlattensUnique
    <3>5. QED
      BY <3>1, <3>4 DEF Agree
  <2>3. (n + 1) - 1 = n /\ n + 1 # 1
    BY <1>1, <1>5
  <2> HIDE DEF n
  <2>4. h[n + 1] = h[n] \o e
    BY <1>1, <1>3, <2>3
  <2>5. FlattenSeq(t) = FlattenSeq(s) \o e
    BY <1>2, <2>1, <2>2, <2>4
  <2>6. QED
    BY <2>5 DEF t
<1>6. QED
  BY <1>4, <1>5

LEMMA FlattenType ==
  ASSUME NEW T, NEW s \in Seq(Seq(T))
  PROVE  FlattenSeq(s) \in Seq(T)
<1> DEFINE n == Len(s)
<1>1. n \in Nat /\ \A i \in 1 .. n : s[i] \in Seq(T)
  OBVIOUS
<1>2. CASE n = 0
  <2>1. FlattenSeq(s) = s
    BY <1>2 DEF FlattenSeq
  <2>2. s = <<>>
    BY <1>2
  <2>3. s \in Seq(T)
    BY <2>2
  <2>4. QED
    BY <2>1, <2>3, Zenon
<1>3. CASE n # 0
  <2>1. PICK h : FlattenSeq(s) = h[n] /\ Flattens(h, s, n)
    BY <1>1, <1>3, FlattenByFunction
  <2> DEFINE S == {k \in Nat : k \in 1 .. n => h[k] \in Seq(T)}
  <2>2. 0 \in S
    <3>1. 0 \notin 1 .. n
      BY <1>1
    <3> HIDE DEF n
    <3>2. QED
      BY <3>1
  <2>3. ASSUME NEW k \in Nat, k < n, k \in S
        PROVE  k + 1 \in S
    <3>1. k + 1 \in 1 .. n /\ (k + 1) - 1 = k
      BY <2>3
    <3>2. s[k + 1] \in Seq(T)
      BY <1>1, <3>1
    <3>3. h[k + 1] = IF k + 1 = 1 THEN s[k + 1] ELSE h[(k + 1) - 1] \o s[k + 1]
      BY <2>1, <3>1, Zenon DEF Flattens
    <3>4. CASE k = 0
      <4>1. h[k + 1] = s[k + 1]
        BY <3>3, <3>4
      <4>2. QED
        BY <3>2, <4>1
    <3>5. CASE k # 0
      <4>1. k \in 1 .. n /\ k + 1 # 1
        BY <2>3, <3>5
      <4>2. h[k] \in Seq(T)
        BY <2>3, <4>1
      <4>3. h[k + 1] = h[k] \o s[k + 1]
        BY <3>1, <3>3, <4>1
      <4>4. h[k + 1] \in Seq(T)
        BY <3>2, <4>2, <4>3
      <4>5. QED
        BY <4>4
    <3>6. QED
      BY <3>4, <3>5
  <2> HIDE DEF S, n
  <2>4. \A k \in 0 .. n : k \in S
    BY <1>1, <2>2, <2>3, Induction
  <2>5. n \in 0 .. n /\ n \in 1 .. n /\ n \in Nat
    BY <1>1, <1>3
  <2>6. h[n] \in Seq(T)
    BY <2>4, <2>5 DEF S
  <2>7. QED
    BY <2>1, <2>6
<1>4. QED
  BY <1>2, <1>3

(* Which of the thread, the descriptor and the call of removeWatch there   *)
(* are at the same time, and what a failed addWatch leaves.                *)
Lives ==
  /\ watch = "active" <=> thread # "none"
  /\ running => watch = "active"
  /\ watch # "active" => main = "idle"
  /\ main \in {"close", "join"} <=> watch = "active" /\ ~running
  /\ fdOpen => watch = "active" /\ main # "join"
  /\ main = "release" => ret \in Seq(Changes)
  /\ watch = "leftover" => ~watchAvailable /\ changes = <<>>

(* Whose turn it is. *)
Turns ==
  /\ main \in {"swap", "release"} => watchAvailable
  /\ running /\ thread \in {"read", "translate"} => ~watchAvailable

(* Where there are changes: not while the flag is clear, but for those the *)
(* thread is just adding; and not after pollWatch has taken them.          *)
Emptied ==
  running =>
    /\ ~watchAvailable /\ thread # "translate" => changes = <<>>
    /\ thread = "translate" /\ ~dataAdded => changes = <<>>
    /\ main = "release" => changes = <<>>

(* Only the mark of an overflow goes past the kernel's limit. *)
Marked == Len(queue) > QueueLimit => Last(queue) = "IN_Q_OVERFLOW"

IInv == TypeOK /\ Lives /\ Turns /\ Emptied /\ Marked

(***************************************************************************)
(* What the steps do to sequences.                                         *)
(***************************************************************************)
LEMMA ChangesOfType == \A mask : ChangesOf(mask) \in Seq(Changes)
<1>1. /\ <<"fileMonitorAdd">> \in Seq(Changes)
      /\ <<"fileMonitorRemove">> \in Seq(Changes)
      /\ <<"fileMonitorModify">> \in Seq(Changes)
      /\ <<>> \in Seq(Changes)
  BY DEF Changes
<1>2. QED
  BY <1>1 DEF ChangesOf

LEMMA QueueGrows ==
  ASSUME NEW q \in Seq(Queued), NEW mask \in Queued, Len(q) <= QueueLimit
  PROVE  /\ Append(q, mask) \in Seq(Queued)
         /\ Len(Append(q, mask)) <= QueueLimit + 1
         /\ Last(Append(q, mask)) = mask
BY LimitAssumption DEF Last

(* read() takes the first n events. *)
LEMMA QueueSplits ==
  ASSUME NEW q \in Seq(Queued), Len(q) <= QueueLimit + 1, q # <<>>,
         NEW n \in Nat, n = IF Len(q) < BufferLimit THEN Len(q) ELSE BufferLimit
  PROVE  /\ SubSeq(q, 1, n) \in Seq(Queued)
         /\ Len(SubSeq(q, 1, n)) <= BufferLimit
         /\ SubSeq(q, n + 1, Len(q)) \in Seq(Queued)
         /\ Len(SubSeq(q, n + 1, Len(q))) <= QueueLimit
<1>1. n \in 1 .. Len(q) /\ n <= BufferLimit
  BY LimitAssumption
<1>2. QED
  BY <1>1, LimitAssumption

(***************************************************************************)
(* The initial state.                                                      *)
(***************************************************************************)
THEOREM InitInv == Init => IInv
<1> SUFFICES ASSUME Init PROVE IInv
  OBVIOUS
<1>1. 0 \in 0 .. MaxAdds /\ 0 <= QueueLimit + 1 /\ 0 <= BufferLimit /\ ~(0 > QueueLimit)
  BY LimitAssumption
<1>2. /\ changes \in Seq(Changes) /\ happened \in Seq(Masks)
      /\ delivered \in Seq(Changes)
  BY DEF Init
<1>3. /\ queue \in Seq(Queued) /\ Len(queue) = 0
      /\ buffer \in Seq(Queued) /\ Len(buffer) = 0
  BY DEF Init
<1>4. /\ watch = "none" /\ main = "idle" /\ thread = "none"
      /\ running = FALSE /\ watchAvailable = FALSE /\ fdOpen = FALSE
      /\ dataAdded = FALSE /\ ret = None /\ adds = 0
  BY DEF Init
<1>5. TypeOK
  BY <1>1, <1>2, <1>3, <1>4 DEF TypeOK
<1>6. Lives /\ Turns /\ Emptied /\ Marked
  BY <1>1, <1>3, <1>4 DEF Lives, Turns, Emptied, Marked
<1>7. QED
  BY <1>5, <1>6 DEF IInv

(***************************************************************************)
(* The kernel and addWatch.                                                *)
(***************************************************************************)
LEMMA KernelInv ==
  ASSUME IInv, NEW mask \in Masks, Event(mask)
  PROVE  IInv'
<1> USE DEF IInv, shared
<1>1. mask \in Queued /\ "IN_Q_OVERFLOW" \in Queued
  BY DEF Queued
<1>2. Len(queue) <= QueueLimit /\ queue \in Seq(Queued)
  BY LimitAssumption DEF Event, TypeOK, Marked
<1>3. /\ queue' \in Seq(Queued)
      /\ Len(queue') <= QueueLimit + 1
      /\ Len(queue') > QueueLimit => Last(queue') = "IN_Q_OVERFLOW"
  <2>1. CASE Len(queue) < QueueLimit
    <3>1. queue' = Append(queue, mask)
      BY <2>1 DEF Event
    <3>2. Len(queue') = Len(queue) + 1
      BY <3>1, <1>1, <1>2
    <3>3. QED
      BY <3>1, <3>2, <2>1, <1>1, <1>2, LimitAssumption
  <2>2. CASE ~(Len(queue) < QueueLimit)
    <3>1. queue' = Append(queue, "IN_Q_OVERFLOW")
      BY <2>2 DEF Event
    <3>2. QED
      BY <3>1, <1>1, <1>2, QueueGrows
  <2>3. QED
    BY <2>1, <2>2
<1>4. happened' \in Seq(Masks)
  <2>1. happened \in Seq(Masks)
    BY DEF TypeOK
  <2>2. happened' = Append(happened, mask) \/ happened' = happened
    BY DEF Event
  <2>3. QED
    BY <2>1, <2>2
<1>5. TypeOK'
  BY <1>3, <1>4 DEF Event, TypeOK
<1>6. Lives' /\ Turns' /\ Emptied' /\ Marked'
  BY <1>3 DEF Event, Lives, Turns, Emptied, Marked
<1>7. QED
  BY <1>5, <1>6

LEMMA AddInv ==
  ASSUME IInv, AddFails \/ AddWatch
  PROVE  IInv'
<1> USE DEF IInv, shared
<1>1. adds' \in 0 .. MaxAdds
  BY LimitAssumption DEF AddFails, AddWatch, TypeOK
<1>0. ASSUME MakeEntry, watch # "active"
      PROVE  watchAvailable' = FALSE /\ changes' = <<>>
  BY <1>0 DEF MakeEntry, TypeOK, Lives
<1>2. CASE AddFails
  <2>1. /\ watch # "active" /\ watch' = "leftover" /\ main = "idle"
        /\ UNCHANGED <<running, fdOpen, queue, buffer, dataAdded, thread, main,
                       ret, happened, delivered>>
        /\ watchAvailable' = FALSE /\ changes' = <<>>
    BY <1>2, <1>0 DEF AddFails
  <2>2. changes' \in Seq(Changes)
    BY <2>1
  <2>3. TypeOK'
    BY <1>1, <2>1, <2>2 DEF TypeOK, Lives
  <2>4. Lives' /\ Turns' /\ Emptied' /\ Marked'
    BY <2>1 DEF TypeOK, Lives, Turns, Emptied, Marked
  <2>5. QED
    BY <2>3, <2>4
<1>3. CASE AddWatch
  <2>0. watchAvailable' = FALSE /\ changes' = <<>>
    BY <1>3, <1>0 DEF AddWatch
  <2>1. /\ changes' \in Seq(Changes) /\ happened' \in Seq(Masks)
        /\ delivered' \in Seq(Changes)
    BY <1>3, <2>0 DEF AddWatch
  <2>2. queue' \in Seq(Queued) /\ Len(queue') = 0
    BY <1>3 DEF AddWatch
  <2>3. 0 <= QueueLimit + 1 /\ ~(0 > QueueLimit)
    BY LimitAssumption
  <2>4. /\ watch' = "active" /\ running' = TRUE /\ watchAvailable' = FALSE
        /\ fdOpen' = TRUE /\ thread' = "loop" /\ main = "idle"
        /\ UNCHANGED <<buffer, dataAdded, main, ret>> /\ changes' = <<>>
    BY <1>3, <2>0 DEF AddWatch
  <2>5. TypeOK'
    BY <1>1, <2>1, <2>2, <2>3, <2>4 DEF TypeOK
  <2>6. Lives' /\ Turns' /\ Emptied' /\ Marked'
    BY <2>2, <2>3, <2>4 DEF Lives, Turns, Emptied, Marked
  <2>7. QED
    BY <2>5, <2>6
<1>4. QED
  BY <1>2, <1>3

(***************************************************************************)
(* watchThread.                                                            *)
(***************************************************************************)
LEMMA ThreadInv ==
  ASSUME IInv, ThreadStep \/ SpuriousWakeUp
  PROVE  IInv'
<1> USE DEF IInv, shared
<1>1. CASE CheckRunning
  BY <1>1 DEF CheckRunning, TypeOK, Lives, Turns, Emptied, Marked
<1>2. CASE Select
  BY <1>2 DEF Select, TypeOK, Lives, Turns, Emptied, Marked
<1>3. CASE Hold
  BY <1>3 DEF Hold, TypeOK, Lives, Turns, Emptied, Marked
<1>4. CASE SpuriousWakeUp
  BY <1>4 DEF SpuriousWakeUp, TypeOK, Lives, Turns, Emptied, Marked
<1>5. CASE Read
  <2>1. CASE fdOpen /\ queue # <<>>
    <3> DEFINE n == IF Len(queue) < BufferLimit THEN Len(queue) ELSE BufferLimit
    <3>1. n \in Nat /\ queue \in Seq(Queued) /\ Len(queue) <= QueueLimit + 1
      BY LimitAssumption DEF TypeOK
    <3>2. /\ buffer' = SubSeq(queue, 1, n)
          /\ queue' = SubSeq(queue, n + 1, Len(queue))
          /\ dataAdded' = FALSE /\ thread' = "translate" /\ thread = "read"
          /\ UNCHANGED <<watch, running, watchAvailable, changes, fdOpen, main,
                         ret, adds, happened, delivered>>
      BY <1>5, <2>1 DEF Read
    <3>3. /\ buffer' \in Seq(Queued) /\ Len(buffer') <= BufferLimit
          /\ queue' \in Seq(Queued) /\ Len(queue') <= QueueLimit
      BY <2>1, <3>1, <3>2, QueueSplits
    <3>4. Len(queue') <= QueueLimit + 1 /\ ~(Len(queue') > QueueLimit)
      BY <3>3, LimitAssumption
    <3> HIDE DEF n
    <3>5. TypeOK'
      BY <3>2, <3>3, <3>4 DEF TypeOK, Lives
    <3>6. Lives' /\ Turns' /\ Emptied' /\ Marked'
      BY <3>2, <3>4 DEF Lives, Turns, Emptied, Marked
    <3>7. QED
      BY <3>5, <3>6
  <2>2. CASE ~(fdOpen /\ queue # <<>>)
    BY <1>5, <2>2 DEF Read, TypeOK, Lives, Turns, Emptied, Marked
  <2>3. QED
    BY <2>1, <2>2
<1>6. CASE Translate
  <2>1. ChangesOf(Head(buffer)) \in Seq(Changes)
    BY ChangesOfType
  <2>2. changes \in Seq(Changes)
    BY DEF TypeOK
  <2>3. changes' \in Seq(Changes)
    BY <1>6, <2>1, <2>2 DEF Translate
  <2>4. buffer' \in Seq(Queued) /\ Len(buffer') <= BufferLimit
    BY <1>6, LimitAssumption DEF Translate, TypeOK
  <2>5. TypeOK'
    BY <1>6, <2>3, <2>4 DEF Translate, TypeOK
  <2>6. ~dataAdded' => ~dataAdded /\ changes' = changes
    <3>1. ~dataAdded' => ~dataAdded /\ ChangesOf(Head(buffer)) = <<>>
      BY <1>6 DEF Translate
    <3>2. ChangesOf(Head(buffer)) = <<>> => changes' = changes
      BY <1>6, <2>2 DEF Translate
    <3>3. QED
      BY <3>1, <3>2
  <2>7. Lives' /\ Turns' /\ Emptied' /\ Marked'
    BY <1>6, <2>6 DEF Translate, Lives, Turns, Emptied, Marked
  <2>8. QED
    BY <2>5, <2>7
<1>7. CASE Publish
  BY <1>7 DEF Publish, TypeOK, Lives, Turns, Emptied, Marked
<1>8. QED
  BY <1>1, <1>2, <1>3, <1>4, <1>5, <1>6, <1>7 DEF ThreadStep

(***************************************************************************)
(* pollWatch.                                                              *)
(***************************************************************************)
LEMMA PollInv ==
  ASSUME IInv, PollStep
  PROVE  IInv'
<1> USE DEF IInv, shared
<1>1. CASE Poll
  BY <1>1 DEF Poll, TypeOK, Lives, Turns, Emptied, Marked
<1>2. CASE PollSwap
  <2>1. changes' \in Seq(Changes) /\ changes' = <<>>
    BY <1>2 DEF PollSwap
  <2>2. TypeOK'
    BY <1>2, <2>1 DEF PollSwap, TypeOK
  <2>3. Lives' /\ Turns' /\ Emptied' /\ Marked'
    BY <1>2, <2>1 DEF PollSwap, TypeOK, Lives, Turns, Emptied, Marked
  <2>4. QED
    BY <2>2, <2>3
<1>3. CASE PollRelease
  <2>1. delivered' \in Seq(Changes)
    BY <1>3 DEF PollRelease, TypeOK, Lives
  <2>2. TypeOK'
    BY <1>3, <2>1 DEF PollRelease, WakeThread, TypeOK
  <2>3. Lives' /\ Turns' /\ Emptied' /\ Marked'
    BY <1>3 DEF PollRelease, WakeThread, TypeOK, Lives, Turns, Emptied, Marked
  <2>4. QED
    BY <2>2, <2>3
<1>4. QED
  BY <1>1, <1>2, <1>3 DEF PollStep

(***************************************************************************)
(* removeWatch.                                                            *)
(***************************************************************************)
LEMMA RemoveInv ==
  ASSUME IInv, RemoveStop \/ RemoveStep
  PROVE  IInv'
<1> USE DEF IInv, shared
<1>1. CASE RemoveStop
  BY <1>1 DEF RemoveStop, WakeThread, TypeOK, Lives, Turns, Emptied, Marked
<1>2. CASE RemoveClose
  <2>1. queue' \in Seq(Queued) /\ Len(queue') = 0
    BY <1>2 DEF RemoveClose
  <2>2. 0 <= QueueLimit + 1 /\ ~(0 > QueueLimit)
    BY LimitAssumption
  <2>3. TypeOK'
    BY <1>2, <2>1, <2>2 DEF RemoveClose, TypeOK
  <2>4. Lives' /\ Turns' /\ Emptied' /\ Marked'
    BY <1>2, <2>1, <2>2 DEF RemoveClose, TypeOK, Lives, Turns, Emptied, Marked
  <2>5. QED
    BY <2>3, <2>4
<1>3. CASE RemoveJoin
  <2>1. ~running
    BY <1>3 DEF RemoveJoin, Lives
  <2>2. ~fdOpen
    BY <1>3 DEF RemoveJoin, Lives
  <2>3. TypeOK'
    BY <1>3 DEF RemoveJoin, TypeOK
  <2>4. Lives' /\ Turns' /\ Emptied' /\ Marked'
    BY <1>3, <2>1, <2>2 DEF RemoveJoin, TypeOK, Lives, Turns, Emptied, Marked
  <2>5. QED
    BY <2>3, <2>4
<1>4. QED
  BY <1>1, <1>2, <1>3 DEF RemoveStep

(***************************************************************************)
(* The invariant is inductive, and the properties follow.                  *)
(***************************************************************************)
THEOREM NextInv ==
  ASSUME IInv, [Next]_vars
  PROVE  IInv'
<1>1. CASE UNCHANGED vars
  BY <1>1 DEF vars, shared, IInv, TypeOK, Lives, Turns, Emptied, Marked
<1>2. ASSUME NEW mask \in Masks, Event(mask)
      PROVE  IInv'
  BY <1>2, KernelInv
<1>3. CASE AddFails \/ AddWatch
  BY <1>3, AddInv
<1>4. CASE ThreadStep \/ SpuriousWakeUp
  BY <1>4, ThreadInv
<1>5. CASE PollStep
  BY <1>5, PollInv
<1>6. CASE RemoveStop \/ RemoveStep
  BY <1>6, RemoveInv
<1>7. QED
  BY <1>1, <1>2, <1>3, <1>4, <1>5, <1>6 DEF Next

(* Every reachable state is well typed: an entry is in the map for as long  *)
(* as its thread lives, and the kernel's queue and the buffer stay within   *)
(* their limits.                                                           *)
THEOREM TypeCorrect == Spec => []TypeOK
<1>1. IInv => TypeOK
  BY DEF IInv
<1>2. QED
  BY <1>1, InitInv, NextInv, PTL DEF Spec

(* The flag alone, read and written outside the mutex, keeps the watch      *)
(* thread and pollWatch from touching changes at the same time, whatever    *)
(* the interleaving (fs.cpp lines 1192-1227 and 1306-1324).                 *)
THEOREM ExclusiveCorrect == Spec => []ChangesExclusive
<1>1. IInv => ChangesExclusive
  BY DEF IInv, Lives, Turns, ChangesExclusive
<1>2. QED
  BY <1>1, InitInv, NextInv, PTL DEF Spec

(* What the comment in watchThread promises: while the watch is on, events  *)
(* are read only when the result of the last reading has been taken.       *)
THEOREM DiscardCorrect == Spec => []ReadsAfterDiscard
<1>1. IInv => ReadsAfterDiscard
  BY DEF IInv, Turns, Emptied, ReadsAfterDiscard
<1>2. QED
  BY <1>1, InitInv, NextInv, PTL DEF Spec

(***************************************************************************)
(* What arrives is what happened.                                          *)
(***************************************************************************)
LEMMA AllIsFlat ==
  ASSUME NEW q \in Seq(Queued)
  PROVE  [i \in DOMAIN q |-> ChangesOf(q[i])] \in Seq(Seq(Changes))
<1>1. DOMAIN q = 1 .. Len(q) /\ Len(q) \in Nat
  OBVIOUS
<1>2. \A i \in DOMAIN q : ChangesOf(q[i]) \in Seq(Changes)
  BY ChangesOfType
<1>3. QED
  BY <1>1, <1>2

LEMMA AllType ==
  ASSUME NEW q \in Seq(Queued)
  PROVE  ChangesOfAll(q) \in Seq(Changes)
  BY AllIsFlat, FlattenType DEF ChangesOfAll

LEMMA AllEmpty == ChangesOfAll(<<>>) = <<>>
<1> DEFINE q == [i \in DOMAIN <<>> |-> ChangesOf(<<>>[i])]
<1>1. q = <<>>
  OBVIOUS
<1>2. QED
  BY <1>1, FlattenEmpty DEF ChangesOfAll

LEMMA AllAppend ==
  ASSUME NEW q \in Seq(Queued), NEW mask \in Queued
  PROVE  ChangesOfAll(Append(q, mask)) = ChangesOfAll(q) \o ChangesOf(mask)
<1> DEFINE all(r) == [i \in DOMAIN r |-> ChangesOf(r[i])]
           n == Len(q)
           r == Append(q, mask)
<1>1. /\ DOMAIN q = 1 .. n /\ n \in Nat /\ DOMAIN r = 1 .. n + 1
      /\ r[n + 1] = mask /\ \A i \in 1 .. n : r[i] = q[i]
  OBVIOUS
<1> HIDE DEF r, n
<1>2. all(q) \in Seq(Seq(Changes)) /\ ChangesOf(mask) \in Seq(Changes)
  BY AllIsFlat, ChangesOfType
<1>3. all(r) = Append(all(q), ChangesOf(mask))
  <2>1. Len(all(q)) = n /\ DOMAIN all(q) = 1 .. n
    BY <1>1
  <2>2. \A i \in 1 .. n + 1 : all(r)[i] = Append(all(q), ChangesOf(mask))[i]
    BY <1>1, <1>2, <2>1
  <2>3. DOMAIN Append(all(q), ChangesOf(mask)) = 1 .. n + 1 /\ DOMAIN all(r) = 1 .. n + 1
    BY <1>1, <1>2, <2>1
  <2>4. QED
    BY <1>1, <1>2, <2>1, <2>2, <2>3
<1>4. FlattenSeq(all(r)) = FlattenSeq(all(q)) \o ChangesOf(mask)
  BY <1>2, <1>3, FlattenAppend
<1>5. QED
  BY <1>4 DEF ChangesOfAll, r

(* The changes of a queue, split anywhere, are those of its two parts. *)
LEMMA AllSplit ==
  ASSUME NEW q \in Seq(Queued), NEW n \in 0 .. Len(q)
  PROVE  ChangesOfAll(q)
           = ChangesOfAll(SubSeq(q, 1, n)) \o ChangesOfAll(SubSeq(q, n + 1, Len(q)))
<1> DEFINE first == ChangesOfAll(SubSeq(q, 1, n))
           S == {k \in Nat : n + k <= Len(q) =>
                   ChangesOfAll(SubSeq(q, 1, n + k))
                     = first \o ChangesOfAll(SubSeq(q, n + 1, n + k))}
<1>1. n \in Nat /\ Len(q) \in Nat /\ n <= Len(q) /\ Len(q) - n \in Nat
  OBVIOUS
<1>2. \A a \in Nat \ {0} : \A b \in Nat : b <= Len(q) => SubSeq(q, a, b) \in Seq(Queued)
  OBVIOUS
<1>3. first \in Seq(Changes)
  <2>1. SubSeq(q, 1, n) \in Seq(Queued)
    BY <1>1, <1>2
  <2>2. QED
    BY <2>1, AllType
<1>4. 0 \in S
  <2>1. SubSeq(q, n + 1, n + 0) = <<>>
    BY <1>1, SubSeqEmpty
  <2>2. ChangesOfAll(SubSeq(q, n + 1, n + 0)) = <<>>
    BY <2>1, AllEmpty
  <2>3. n + 0 = n
    BY <1>1
  <2>4. first = first \o <<>>
    BY <1>3, ConcatEmptySeq
  <2>5. QED
    BY <2>2, <2>3, <2>4
<1>5. ASSUME NEW k \in Nat, k < Len(q) - n, k \in S
      PROVE  k + 1 \in S
  <2>1. /\ n + k <= Len(q) /\ n + (k + 1) <= Len(q) /\ n + (k + 1) = (n + k) + 1
        /\ n + k \in Nat /\ n + k + 1 \in 1 .. Len(q)
    BY <1>1, <1>5
  <2> DEFINE m == n + k
             e == q[m + 1]
  <2>2. e \in Queued
    BY <2>1
  <2>3. SubSeq(q, 1, m + 1) = Append(SubSeq(q, 1, m), e)
    BY <2>1
  <2>4. SubSeq(q, n + 1, m + 1) = Append(SubSeq(q, n + 1, m), e)
    BY <1>1, <2>1
  <2>5. SubSeq(q, 1, m) \in Seq(Queued) /\ SubSeq(q, n + 1, m) \in Seq(Queued)
    BY <1>1, <1>2, <2>1
  <2>6. ChangesOfAll(SubSeq(q, 1, m)) = first \o ChangesOfAll(SubSeq(q, n + 1, m))
    BY <1>5, <2>1
  <2>7. ChangesOfAll(SubSeq(q, n + 1, m)) \in Seq(Changes) /\ ChangesOf(e) \in Seq(Changes)
    BY <2>5, AllType, ChangesOfType
  <2> HIDE DEF e, m, first
  <2>8. ChangesOfAll(SubSeq(q, 1, m + 1))
          = (first \o ChangesOfAll(SubSeq(q, n + 1, m))) \o ChangesOf(e)
    BY <2>2, <2>3, <2>5, <2>6, AllAppend
  <2>9. ChangesOfAll(SubSeq(q, n + 1, m + 1))
          = ChangesOfAll(SubSeq(q, n + 1, m)) \o ChangesOf(e)
    BY <2>2, <2>4, <2>5, AllAppend
  <2>10. ChangesOfAll(SubSeq(q, 1, m + 1))
           = first \o ChangesOfAll(SubSeq(q, n + 1, m + 1))
    <3>1. ASSUME NEW a \in Seq(Changes), NEW b \in Seq(Changes), NEW c \in Seq(Changes)
          PROVE  (a \o b) \o c = a \o (b \o c)
      BY ConcatAssociative, SMTT(20)
    <3>2. (first \o ChangesOfAll(SubSeq(q, n + 1, m))) \o ChangesOf(e)
            = first \o (ChangesOfAll(SubSeq(q, n + 1, m)) \o ChangesOf(e))
      BY <1>3, <2>7, <3>1
    <3>3. QED
      BY <2>8, <2>9, <3>2
  <2>11. m + 1 = n + (k + 1)
    BY <2>1 DEF m
  <2>12. QED
    BY <2>10, <2>11
<1> HIDE DEF S, first
<1>6. Len(q) - n \in S
  BY <1>1, <1>4, <1>5, Induction
<1>7. ChangesOfAll(SubSeq(q, 1, n + (Len(q) - n)))
        = first \o ChangesOfAll(SubSeq(q, n + 1, n + (Len(q) - n)))
  BY <1>1, <1>6 DEF S
<1>8. n + (Len(q) - n) = Len(q)
  BY <1>1
<1>9. SubSeq(q, 1, Len(q)) = q
  BY SubSeqFull
<1>10. QED
  BY <1>7, <1>8, <1>9 DEF first

LEMMA AllHead ==
  ASSUME NEW q \in Seq(Queued), q # <<>>
  PROVE  ChangesOfAll(q) = ChangesOf(Head(q)) \o ChangesOfAll(Tail(q))
<1>1. /\ Len(q) \in Nat /\ 1 \in 0 .. Len(q) /\ 1 + 1 = 2 /\ Head(q) \in Queued
      /\ Tail(q) = SubSeq(q, 1 + 1, Len(q)) /\ SubSeq(q, 1, 1) = Append(<<>>, Head(q))
      /\ <<>> \in Seq(Queued)
  <2>1. Len(q) \in Nat /\ 1 \in 0 .. Len(q) /\ 1 + 1 = 2 /\ Head(q) = q[1]
    OBVIOUS
  <2>2. Head(q) \in Queued /\ Tail(q) = SubSeq(q, 2, Len(q))
    BY HeadTailProperties, TailIsSubSeq
  <2>3. <<>> \in Seq(Queued)
    OBVIOUS
  <2>4. SubSeq(q, 1, 1) = Append(<<>>, Head(q))
    <3> DEFINE m == 0
    <3>1. m \in Nat /\ m + 1 \in 1 .. Len(q) /\ m + 1 = 1
      BY <2>1
    <3>2. SubSeq(q, 1, m + 1) = Append(SubSeq(q, 1, m), q[m + 1])
      <4> HIDE DEF m
      <4>1. QED
        BY <3>1
    <3>3. SubSeq(q, 1, 0) = <<>>
      BY SubSeqEmpty
    <3>4. QED
      BY <2>1, <3>1, <3>2, <3>3
  <2>5. QED
    BY <2>1, <2>2, <2>3, <2>4
<1>2. ChangesOfAll(SubSeq(q, 1, 1)) = <<>> \o ChangesOf(Head(q))
  BY <1>1, AllAppend, AllEmpty
<1>3. <<>> \o ChangesOf(Head(q)) = ChangesOf(Head(q))
  BY ChangesOfType, ConcatEmptySeq
<1>4. ChangesOfAll(q) = ChangesOfAll(SubSeq(q, 1, 1)) \o ChangesOfAll(SubSeq(q, 1 + 1, Len(q)))
  BY <1>1, AllSplit
<1>5. QED
  BY <1>1, <1>2, <1>3, <1>4

(* What is on its way: taken by the polls, in the hands of pollWatch, in    *)
(* changes, read and not translated, and still in the kernel.               *)
Arriving == delivered \o InHand \o changes \o ChangesOfAll(buffer) \o ChangesOfAll(queue)

Ordered ==
  /\ fdOpen => Arriving = ChangesOfAll(happened)
  /\ buffer # <<>> => thread = "translate"
  /\ Len(happened) <= MaxEvents

LEMMA InitOrdered == Init => Ordered
<1> SUFFICES ASSUME Init PROVE Ordered
  OBVIOUS
<1>1. Len(happened) = 0 /\ buffer = <<>> /\ ~fdOpen
  BY DEF Init
<1>2. QED
  BY <1>1, LimitAssumption DEF Ordered

(* Sequences in a row. *)
LEMMA Associative ==
  \A a, b, c \in Seq(Changes) : /\ (a \o b) \o c = a \o (b \o c)
                               /\ a \o b \in Seq(Changes)
<1> SUFFICES ASSUME NEW a \in Seq(Changes), NEW b \in Seq(Changes), NEW c \in Seq(Changes)
             PROVE  (a \o b) \o c = a \o (b \o c) /\ a \o b \in Seq(Changes)
  OBVIOUS
<1>1. (a \o b) \o c = a \o (b \o c)
  BY ConcatAssociative
<1>2. a \o b \in Seq(Changes)
  BY ConcatProperties
<1>3. QED
  BY <1>1, <1>2

LEMMA Neutral ==
  \A a \in Seq(Changes) : /\ a \o <<>> = a /\ <<>> \o a = a
  BY ConcatEmptySeq

LEMMA NothingInHand == <<>> \in Seq(Changes)
  OBVIOUS

LEMMA ArrivingType ==
  ASSUME IInv
  PROVE  /\ delivered \in Seq(Changes) /\ InHand \in Seq(Changes)
         /\ changes \in Seq(Changes)
         /\ ChangesOfAll(buffer) \in Seq(Changes)
         /\ ChangesOfAll(queue) \in Seq(Changes)
         /\ ChangesOfAll(happened) \in Seq(Changes)
<1>1. /\ delivered \in Seq(Changes) /\ changes \in Seq(Changes)
      /\ buffer \in Seq(Queued) /\ queue \in Seq(Queued)
      /\ happened \in Seq(Masks)
  BY DEF IInv, TypeOK
<1>2. happened \in Seq(Queued)
  <2>1. Masks \subseteq Queued
    BY DEF Queued
  <2>2. QED
    BY <1>1, <2>1, SeqMonotonic
<1>3. InHand \in Seq(Changes)
  BY NothingInHand DEF IInv, Lives, InHand
<1>4. QED
  BY <1>1, <1>2, <1>3, AllType

(* The kernel. *)
LEMMA KernelOrdered ==
  ASSUME IInv, Ordered, NEW mask \in Masks, Event(mask)
  PROVE  Ordered'
<1> DEFINE X == delivered \o InHand \o changes \o ChangesOfAll(buffer)
           Q == ChangesOfAll(queue)
           H == ChangesOfAll(happened)
<1>1. /\ X \in Seq(Changes) /\ Q \in Seq(Changes) /\ H \in Seq(Changes)
      /\ queue \in Seq(Queued) /\ happened \in Seq(Queued)
  <2>1. X \in Seq(Changes) /\ Q \in Seq(Changes) /\ H \in Seq(Changes)
    BY ArrivingType, Associative
  <2>2. queue \in Seq(Queued) /\ happened \in Seq(Masks) /\ Masks \subseteq Queued
    BY DEF IInv, TypeOK, Queued
  <2>3. QED
    BY <2>1, <2>2, SeqMonotonic
<1>2. /\ fdOpen /\ Len(happened) < MaxEvents
      /\ UNCHANGED <<delivered, InHand, changes, buffer, fdOpen, thread>>
  BY DEF Event, shared, InHand
<1>3. X \o Q = H
  BY <1>2 DEF Ordered, Arriving
<1>4. X' = X
  BY <1>2
<1>5. CASE Len(queue) < QueueLimit
  <2>1. queue' = Append(queue, mask) /\ happened' = Append(happened, mask)
    BY <1>5 DEF Event
  <2>2. mask \in Queued /\ ChangesOf(mask) \in Seq(Changes)
    BY ChangesOfType DEF Queued
  <2>3. Q' = Q \o ChangesOf(mask) /\ H' = H \o ChangesOf(mask)
    <3>1. /\ ChangesOfAll(Append(queue, mask)) = Q \o ChangesOf(mask)
          /\ ChangesOfAll(Append(happened, mask)) = H \o ChangesOf(mask)
      BY <1>1, <2>2, AllAppend
    <3>2. Q' = ChangesOfAll(queue') /\ H' = ChangesOfAll(happened')
      BY DEF ChangesOfAll
    <3>3. QED
      BY <2>1, <3>1, <3>2
  <2>4. Len(happened') = Len(happened) + 1 /\ Len(happened) \in Nat
    BY <1>1, <2>1
  <2>5. Len(happened') <= MaxEvents
    BY <1>2, <2>4, LimitAssumption
  <2> HIDE DEF X, Q, H
  <2>6. X' \o Q' = H'
    <3> HIDE DEF X, Q, H
    <3> DEFINE C == ChangesOf(mask)
    <3>1. X \in Seq(Changes) /\ Q \in Seq(Changes) /\ C \in Seq(Changes)
      BY <1>1, <2>2
    <3>2. X' \o Q' = X \o (Q \o C)
      BY <1>4, <2>3
    <3> HIDE DEF C
    <3>3. (X \o Q) \o C = X \o (Q \o C)
      BY <3>1, Associative
    <3>4. H' = H \o C
      BY <2>3 DEF C
    <3>5. QED
      BY <1>3, <3>2, <3>3, <3>4
  <2>7. QED
    BY <1>2, <2>5, <2>6 DEF Ordered, Arriving, X, Q, H
<1>6. CASE ~(Len(queue) < QueueLimit)
  <2>1. queue' = Append(queue, "IN_Q_OVERFLOW") /\ happened' = happened
    BY <1>6 DEF Event
  <2>2. "IN_Q_OVERFLOW" \in Queued /\ ChangesOf("IN_Q_OVERFLOW") = <<>>
    BY DEF Queued, ChangesOf, Adds, Removes
  <2>3. Q' = Q \o <<>>
    <3>1. ChangesOfAll(Append(queue, "IN_Q_OVERFLOW")) = Q \o <<>>
      BY <1>1, <2>2, AllAppend
    <3>2. Q' = ChangesOfAll(queue')
      BY DEF ChangesOfAll
    <3>3. QED
      BY <2>1, <3>1, <3>2
  <2>4. H' = H
    BY <2>1 DEF ChangesOfAll
  <2> HIDE DEF X, Q, H
  <2>5. X' \o Q' = H'
    BY <1>1, <1>3, <1>4, <2>3, <2>4, Neutral
  <2>6. QED
    BY <1>2, <2>1, <2>5 DEF Ordered, Arriving, X, Q, H
<1>7. QED
  BY <1>5, <1>6

(* addWatch starts with nothing happened and nothing under way. *)
LEMMA AddOrdered ==
  ASSUME IInv, Ordered, AddFails \/ AddWatch
  PROVE  Ordered'
<1>1. CASE AddFails
  <2>1. /\ UNCHANGED <<fdOpen, buffer, happened, thread>> /\ ~fdOpen
    BY <1>1 DEF AddFails, IInv, Lives
  <2>2. QED
    BY <2>1 DEF Ordered
<1>2. CASE AddWatch
  <2>1. /\ delivered' = <<>> /\ changes' = <<>> /\ queue' = <<>> /\ happened' = <<>>
        /\ main' = "idle" /\ buffer' = buffer /\ thread = "none"
    BY <1>2 DEF AddWatch, MakeEntry, IInv, Lives, TypeOK
  <2>2. buffer = <<>>
    BY <2>1 DEF Ordered
  <2>3. InHand' = <<>>
    BY <2>1 DEF InHand
  <2>4. /\ ChangesOfAll(buffer)' = <<>> /\ ChangesOfAll(queue)' = <<>>
        /\ ChangesOfAll(happened)' = <<>>
    <3>1. /\ ChangesOfAll(buffer)' = ChangesOfAll(buffer')
          /\ ChangesOfAll(queue)' = ChangesOfAll(queue')
          /\ ChangesOfAll(happened)' = ChangesOfAll(happened')
      BY DEF ChangesOfAll
    <3>2. QED
      BY <2>1, <2>2, <3>1, AllEmpty
  <2>5. Arriving' = ChangesOfAll(happened)'
    <3>1. <<>> \o <<>> = <<>>
      BY Neutral, NothingInHand
    <3>2. QED
      BY <2>1, <2>3, <2>4, <3>1 DEF Arriving
  <2>6. Len(happened') = 0 /\ 0 <= MaxEvents
    BY <2>1, LimitAssumption
  <2>7. QED
    BY <2>1, <2>2, <2>5, <2>6 DEF Ordered
<1>3. QED
  BY <1>1, <1>2

(* What read() does to what is under way. *)
LEMMA ReadMoves ==
  ASSUME NEW x \in Seq(Changes), NEW a \in Seq(Changes), NEW b \in Seq(Changes)
  PROVE  (x \o <<>>) \o (a \o b) = (x \o a) \o b
<1>1. x \o <<>> = x
  BY Neutral
<1>2. (x \o a) \o b = x \o (a \o b)
  BY Associative
<1>3. QED
  BY <1>1, <1>2

LEMMA ThreadOrdered ==
  ASSUME IInv, Ordered, ThreadStep \/ SpuriousWakeUp
  PROVE  Ordered'
<1>1. CASE CheckRunning \/ Select \/ Hold \/ SpuriousWakeUp
  <2>1. /\ UNCHANGED <<shared, queue, buffer, main, ret, happened, delivered>>
        /\ thread # "translate"
    BY <1>1 DEF CheckRunning, Select, Hold, SpuriousWakeUp
  <2>2. QED
    BY <2>1 DEF shared, Ordered, Arriving, InHand, ChangesOfAll
<1>2. CASE Publish
  BY <1>2 DEF Publish, Ordered, Arriving, InHand, ChangesOfAll
<1>3. CASE Read
  <2>1. CASE ~(fdOpen /\ queue # <<>>)
    BY <1>3, <2>1 DEF Read, shared, Ordered, Arriving, InHand, ChangesOfAll
  <2>2. CASE fdOpen /\ queue # <<>>
    <3> DEFINE n == IF Len(queue) < BufferLimit THEN Len(queue) ELSE BufferLimit
               X == delivered \o InHand \o changes
               D == ChangesOfAll(buffer)
               E == ChangesOfAll(queue)
    <3>1. queue \in Seq(Queued) /\ n \in 0 .. Len(queue)
      BY LimitAssumption DEF IInv, TypeOK
    <3>2. /\ buffer' = SubSeq(queue, 1, n)
          /\ queue' = SubSeq(queue, n + 1, Len(queue))
          /\ thread = "read" /\ thread' = "translate"
          /\ UNCHANGED <<shared, main, ret, happened, delivered>>
      BY <1>3, <2>2 DEF Read
    <3> HIDE DEF n
    <3>3. D = <<>>
      BY <3>2, AllEmpty DEF Ordered
    <3>4. D' = ChangesOfAll(buffer') /\ E' = ChangesOfAll(queue')
      BY DEF ChangesOfAll
    <3>5. E = D' \o E'
      <4>1. E = ChangesOfAll(SubSeq(queue, 1, n))
                  \o ChangesOfAll(SubSeq(queue, n + 1, Len(queue)))
        BY <3>1, AllSplit
      <4>2. QED
        BY <3>2, <3>4, <4>1
    <3>6. X \in Seq(Changes)
      BY ArrivingType, Associative
    <3>7. D' \in Seq(Changes) /\ E' \in Seq(Changes)
      <4>1. buffer' \in Seq(Queued) /\ queue' \in Seq(Queued)
        BY ThreadInv DEF IInv, TypeOK
      <4>2. QED
        BY <3>4, <4>1, AllType
    <3>8. X' = X
      BY <3>2 DEF shared, InHand
    <3>9. X \o D \o E = ChangesOfAll(happened)
      BY <2>2 DEF Ordered, Arriving
    <3>10. ChangesOfAll(happened)' = ChangesOfAll(happened) /\ happened' = happened
      BY <3>2 DEF ChangesOfAll
    <3> HIDE DEF X, D, E
    <3>11. (X \o D') \o E' = ChangesOfAll(happened)
      <4> DEFINE a == D'
                 b == E'
      <4>1. a \in Seq(Changes) /\ b \in Seq(Changes) /\ E = a \o b
        BY <3>5, <3>7
      <4> HIDE DEF a, b
      <4>2. (X \o <<>>) \o (a \o b) = (X \o a) \o b
        BY <3>6, <4>1, ReadMoves
      <4>3. (X \o a) \o b = ChangesOfAll(happened)
        BY <3>3, <3>9, <4>1, <4>2
      <4>4. QED
        BY <4>3 DEF a, b
    <3>12. Arriving' = ChangesOfAll(happened)'
      BY <3>8, <3>10, <3>11 DEF Arriving, X, D, E
    <3>13. QED
      BY <3>2, <3>10, <3>12 DEF Ordered
  <2>3. QED
    BY <2>1, <2>2
<1>4. CASE Translate
  <2> DEFINE X == delivered \o InHand
             C == changes
             T == ChangesOf(Head(buffer))
             D == ChangesOfAll(buffer)
             E == ChangesOfAll(queue)
  <2>1. /\ buffer # <<>> /\ thread = "translate"
        /\ changes' = changes \o T /\ buffer' = Tail(buffer)
        /\ UNCHANGED <<fdOpen, queue, thread, main, ret, happened, delivered>>
    BY <1>4 DEF Translate
  <2>2. /\ X \in Seq(Changes) /\ C \in Seq(Changes) /\ T \in Seq(Changes)
        /\ E \in Seq(Changes)
    BY ArrivingType, Associative, ChangesOfType
  <2>3. /\ D' = ChangesOfAll(buffer') /\ E' = E /\ X' = X /\ C' = C \o T
        /\ ChangesOfAll(happened)' = ChangesOfAll(happened)
    BY <2>1 DEF ChangesOfAll, InHand
  <2>4. D = T \o D' /\ D' \in Seq(Changes)
    <3>1. buffer \in Seq(Queued) /\ buffer' \in Seq(Queued)
      BY ThreadInv DEF IInv, TypeOK
    <3>2. D = T \o ChangesOfAll(Tail(buffer))
      BY <2>1, <3>1, AllHead
    <3>3. QED
      BY <2>1, <2>3, <3>1, <3>2, AllType
  <2>5. fdOpen => ((X \o C) \o D) \o E = ChangesOfAll(happened)
    BY DEF Ordered, Arriving
  <2> HIDE DEF X, C, T, D, E
  <2>6. (X \o C) \o D = (X \o (C \o T)) \o D'
    <3> DEFINE d == D'
    <3>1. D = T \o d /\ d \in Seq(Changes)
      BY <2>4
    <3> HIDE DEF d
    <3>2. (X \o C) \o (T \o d) = (X \o (C \o T)) \o d
      <4>1. /\ X \in Seq(Changes) /\ C \in Seq(Changes) /\ T \in Seq(Changes)
            /\ d \in Seq(Changes)
        BY <2>2, <3>1
      <4>2. X \o C \in Seq(Changes)
        BY <4>1, Associative
      <4>3. ((X \o C) \o T) \o d = (X \o C) \o (T \o d)
        BY <4>1, <4>2, Associative
      <4>4. (X \o C) \o T = X \o (C \o T)
        BY <4>1, Associative
      <4>5. QED
        BY <4>3, <4>4
    <3>3. (X \o C) \o D = (X \o (C \o T)) \o d
      BY <3>1, <3>2
    <3>4. QED
      BY <3>3 DEF d
  <2>7. fdOpen => ((X' \o C') \o D') \o E' = ChangesOfAll(happened)'
    BY <2>3, <2>5, <2>6
  <2>8. fdOpen' => Arriving' = ChangesOfAll(happened)'
    BY <2>1, <2>7 DEF Arriving, X, C, D, E
  <2>9. QED
    BY <2>1, <2>8 DEF Ordered
<1>5. QED
  BY <1>1, <1>2, <1>3, <1>4 DEF ThreadStep

(* pollWatch takes the changes into its hands, and hands them over. *)
LEMMA PollOrdered ==
  ASSUME IInv, Ordered, PollStep
  PROVE  Ordered'
<1>1. CASE Poll
  BY <1>1 DEF Poll, shared, Ordered, Arriving, InHand, ChangesOfAll
<1>2. ASSUME NEW taken, taken = delivered \o InHand \o changes,
             taken = (delivered \o InHand \o changes)',
             UNCHANGED <<buffer, queue, happened, fdOpen>>,
             thread = "translate" => thread' = "translate"
      PROVE  Ordered'
  <2>1. /\ ChangesOfAll(buffer)' = ChangesOfAll(buffer)
        /\ ChangesOfAll(queue)' = ChangesOfAll(queue)
        /\ ChangesOfAll(happened)' = ChangesOfAll(happened)
    BY <1>2 DEF ChangesOfAll
  <2>2. Arriving' = Arriving
    BY <1>2, <2>1 DEF Arriving
  <2>3. QED
    BY <1>2, <2>1, <2>2 DEF Ordered
<1>3. delivered \in Seq(Changes) /\ InHand \in Seq(Changes) /\ changes \in Seq(Changes)
  BY ArrivingType
<1>4. CASE PollSwap
  <2>1. /\ InHand = <<>> /\ delivered' = delivered /\ changes' = <<>>
        /\ InHand' = changes
        /\ UNCHANGED <<buffer, queue, happened, fdOpen, thread>>
    BY <1>4 DEF PollSwap, InHand
  <2>2. delivered \o <<>> = delivered /\ delivered \o changes \in Seq(Changes)
    BY <1>3, Associative, Neutral
  <2>3. (delivered \o changes) \o <<>> = delivered \o changes
    BY <2>2, Neutral
  <2>4. /\ delivered \o InHand \o changes = delivered \o changes
        /\ (delivered \o InHand \o changes)' = delivered \o changes
    BY <2>1, <2>2, <2>3
  <2>5. QED
    BY <1>2, <2>1, <2>4
<1>5. CASE PollRelease
  <2>1. /\ InHand = ret /\ delivered' = delivered \o ret /\ changes' = changes
        /\ InHand' = <<>>
        /\ UNCHANGED <<buffer, queue, happened, fdOpen>>
        /\ thread = "translate" => thread' = "translate"
    BY <1>5 DEF PollRelease, WakeThread, InHand
  <2>2. delivered \o ret \in Seq(Changes)
    BY <1>3, <2>1, Associative
  <2>3. (delivered \o ret) \o <<>> = delivered \o ret
    BY <2>2, Neutral
  <2>4. (delivered \o InHand \o changes)' = delivered \o InHand \o changes
    BY <2>1, <2>3
  <2>5. QED
    BY <1>2, <2>1, <2>4
<1>6. QED
  BY <1>1, <1>4, <1>5 DEF PollStep

LEMMA RemoveOrdered ==
  ASSUME IInv, Ordered, RemoveStop \/ RemoveStep
  PROVE  Ordered'
<1>1. CASE RemoveStop
  <2>1. /\ UNCHANGED <<changes, fdOpen, queue, buffer, happened, delivered>>
        /\ InHand = <<>> /\ InHand' = <<>>
        /\ thread = "translate" => thread' = "translate"
    BY <1>1 DEF RemoveStop, WakeThread, InHand
  <2>2. QED
    BY <2>1 DEF Ordered, Arriving, ChangesOfAll
<1>2. CASE RemoveClose
  BY <1>2 DEF RemoveClose, Ordered
<1>3. CASE RemoveJoin
  BY <1>3 DEF RemoveJoin, shared, Ordered, IInv, Lives
<1>4. QED
  BY <1>1, <1>2, <1>3 DEF RemoveStep

LEMMA NextOrdered ==
  ASSUME IInv, Ordered, [Next]_vars
  PROVE  Ordered'
<1>1. CASE UNCHANGED vars
  BY <1>1 DEF vars, shared, Ordered, Arriving, InHand, ChangesOfAll
<1>2. ASSUME NEW mask \in Masks, Event(mask)
      PROVE  Ordered'
  BY <1>2, KernelOrdered
<1>3. CASE AddFails \/ AddWatch
  BY <1>3, AddOrdered
<1>4. CASE ThreadStep \/ SpuriousWakeUp
  BY <1>4, ThreadOrdered
<1>5. CASE PollStep
  BY <1>5, PollOrdered
<1>6. CASE RemoveStop \/ RemoveStep
  BY <1>6, RemoveOrdered
<1>7. QED
  BY <1>1, <1>2, <1>3, <1>4, <1>5, <1>6 DEF Next

(* No change is lost, repeated or reordered on its way from the kernel      *)
(* through the thread's buffer, changes and pollWatch's result to the main  *)
(* loop, whatever the two threads' interleaving, the limits of the kernel's *)
(* queue and of the buffer, and the number of events (fs.cpp lines          *)
(* 1192-1227 and 1306-1324).                                                *)
THEOREM DeliveryCorrect == Spec => []DeliveredInOrder
<1>1. ASSUME IInv, Ordered PROVE DeliveredInOrder
  <2>1. happened \in Seq(Masks) /\ Len(happened) \in Nat /\ Len(happened) <= MaxEvents
    BY <1>1 DEF IInv, TypeOK, Ordered
  <2>2. (IF MaxEvents < Len(happened) THEN MaxEvents ELSE Len(happened)) = Len(happened)
    BY <2>1, LimitAssumption
  <2>3. SubSeq(happened, 1, Len(happened)) = happened
    BY <2>1, SubSeqFull
  <2>4. ChangesIn(MaxEvents) = ChangesOfAll(happened)
    BY <2>2, <2>3 DEF ChangesIn
  <2>5. QED
    BY <1>1, <2>4 DEF Ordered, Arriving, DeliveredInOrder
<1>2. QED
  BY <1>1, InitInv, InitOrdered, NextInv, NextOrdered, PTL DEF Spec
=============================================================================

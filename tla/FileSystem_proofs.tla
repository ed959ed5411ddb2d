-------------------------- MODULE FileSystem_proofs --------------------------
(***************************************************************************)
(* Proofs about FileSystem and the Archive it is composed with.  None of   *)
(* them bounds the number of files, their lengths or the calls: what they  *)
(* assume is that no defragmentation has met two holes that are not        *)
(* adjacent (~spoilt), beyond which the archive is not to be relied on.    *)
(*                                                                         *)
(* The invariant IInv says of an open archive that its files and its holes *)
(* tile the data region (Tiled) and that the units of each file are what   *)
(* was stored (Kept); of a closed one the same of the index that is read   *)
(* back; of one that is not dirty that its index is where the header says  *)
(* (Complete); and that nothing is stored while the index is in the stdio  *)
(* buffer.  A lemma for each function of the archive shows that it keeps   *)
(* this: RemovedFile, AddedFile, Defragmented, ClosedArchive.              *)
(*                                                                         *)
(* Defragmenting is a fold of folds.  That the holes it has sorted and     *)
(* joined to one cover what the queue covers is shown for a queue of any   *)
(* length (MergedToOne), by induction over the values of the folds; the    *)
(* rest is about moving the data behind one hole.                          *)
(***************************************************************************)
EXTENDS FileSystem, SequenceTheorems, WellFoundedInduction, TLAPS

(***************************************************************************)
(* Induction.                                                              *)
(***************************************************************************)
Less == {pair \in Nat \X Nat : pair[1] < pair[2]}

LEMMA LessWellFounded == IsWellFoundedOn(Less, Nat)
  BY NatLessThanWellFounded DEF OpToRel, Less

(* A set of numbers has a least one. *)
LEMMA Least ==
  ASSUME NEW S, S \subseteq Nat, S # {}
  PROVE  \E m \in S : \A k \in S : m <= k
<1>1. PICK m \in S : \A k \in S : ~ (<<k, m>> \in Less)
  BY LessWellFounded, WFMin
<1>2. ASSUME NEW k \in S, k < m PROVE FALSE
  <2>1. <<k, m>> \in Less
    BY <1>2 DEF Less
  <2>2. QED
    BY <1>1, <2>1
<1>3. QED
  BY <1>2

(* A set that has 0, and with every number below n the next, has them all  *)
(* up to n.                                                                *)
LEMMA Induction ==
  ASSUME NEW n \in Nat, NEW S, 0 \in S,
         \A k \in Nat : k < n /\ k \in S => k + 1 \in S
  PROVE  \A k \in 0 .. n : k \in S
<1> DEFINE out == {k \in 0 .. n : k \notin S}
<1>1. SUFFICES ASSUME out # {} PROVE FALSE
  OBVIOUS
<1>2. PICK m \in out : \A k \in out : m <= k
  <2>1. out \subseteq Nat
    OBVIOUS
  <2> HIDE DEF out
  <2>2. QED
    BY <1>1, <2>1, Least
<1>3. m \in Nat /\ m # 0 /\ m <= n /\ m \notin S
  BY <1>2
<1>4. m - 1 \in 0 .. n /\ m - 1 \notin out /\ (m - 1) + 1 = m /\ m - 1 \in Nat
  BY <1>2, <1>3
<1>5. m - 1 \in S
  BY <1>4
<1>6. QED
  BY <1>3, <1>4, <1>5

(***************************************************************************)
(* FoldLeft folds over the sets of indices: it takes the largest one off.  *)
(***************************************************************************)
LEMMA LargestIndex ==
  ASSUME NEW k \in Nat, NEW s \in SUBSET (1 .. k + 1), k + 1 \in s
  PROVE  /\ Max(s) = k + 1 /\ s # {}
         /\ s \ {k + 1} \in SUBSET (1 .. k)
<1>1. \A y \in s : y \in Int /\ k + 1 >= y
  OBVIOUS
<1>2. \A x \in s : (\A y \in s : x >= y) => x = k + 1
  BY <1>1
<1>3. Max(s) = k + 1
  BY <1>1, <1>2 DEF Max
<1>4. QED
  BY <1>3

LEMMA LargestExists ==
  ASSUME NEW n \in Nat, NEW s \in SUBSET (1 .. n), s # {}
  PROVE  Max(s) \in s
<1> DEFINE S == {n - x : x \in s}
<1>1. S \subseteq Nat /\ S # {}
  <2>1. \A x \in s : n - x \in Nat
    OBVIOUS
  <2>2. PICK x : x \in s
    OBVIOUS
  <2>3. n - x \in S
    BY <2>2
  <2>4. QED
    BY <2>1, <2>3, Zenon
<1> HIDE DEF S
<1>2. PICK m \in S : \A k \in S : m <= k
  BY <1>1, Least
<1>3. PICK x \in s : m = n - x
  BY DEF S
<1>4. \A y \in s : n - y \in S
  BY DEF S
<1>5. ASSUME NEW y \in s PROVE x >= y
  <2>1. n - x <= n - y
    BY <1>2, <1>3, <1>4
  <2>2. x \in Nat /\ y \in Nat
    OBVIOUS
  <2>3. QED
    BY <2>1, <2>2
<1>6. QED
  BY <1>5 DEF Max

(* The function that folds F, the fold's operator on a domain it keeps to.  *)
Folds(g, F, base, q, n) ==
  \A s \in SUBSET (1 .. n) :
    g[s] = IF s = {} THEN base ELSE F[<<g[s \ {Max(s)}], q[Max(s)]>>]

HasFold(T, F, base, q, n) ==
  \E g \in [SUBSET (1 .. n) -> T] : Folds(g, F, base, q, n)

LEMMA FoldExists ==
  ASSUME NEW T, NEW U, NEW base \in T, NEW F \in [T \X U -> T],
         NEW n \in Nat, NEW q, \A i \in 1 .. n : q[i] \in U
  PROVE  HasFold(T, F, base, q, n)
<1> DEFINE S == {k \in Nat : k <= n => HasFold(T, F, base, q, k)}
<1>1. 0 \in S
  <2> DEFINE g == [s \in SUBSET (1 .. 0) |-> base]
  <2>1. g \in [SUBSET (1 .. 0) -> T]
    OBVIOUS
  <2>2. \A s \in SUBSET (1 .. 0) : s = {} /\ g[s] = base
    OBVIOUS
  <2> HIDE DEF g
  <2>3. Folds(g, F, base, q, 0)
    BY <2>2 DEF Folds
  <2>4. HasFold(T, F, base, q, 0)
    BY <2>1, <2>3 DEF HasFold
  <2>5. QED
    BY <2>4
<1>2. ASSUME NEW k \in Nat, k < n, k \in S
      PROVE  k + 1 \in S
  <2>1. PICK g \in [SUBSET (1 .. k) -> T] : Folds(g, F, base, q, k)
    <3>1. HasFold(T, F, base, q, k)
      BY <1>2
    <3>2. QED
      BY <3>1 DEF HasFold
  <2>2. k + 1 \in 1 .. n /\ q[k + 1] \in U
    BY <1>2
  <2> DEFINE G == [s \in SUBSET (1 .. k + 1) |->
                     IF k + 1 \in s THEN F[<<g[s \ {k + 1}], q[k + 1]>>] ELSE g[s]]
  <2>3. ASSUME NEW s \in SUBSET (1 .. k + 1), k + 1 \in s
        PROVE  /\ G[s] = F[<<g[s \ {k + 1}], q[k + 1]>>] /\ G[s] \in T
               /\ Max(s) = k + 1 /\ s # {} /\ G[s \ {k + 1}] = g[s \ {k + 1}]
    <3>1. /\ Max(s) = k + 1 /\ s # {} /\ s \ {k + 1} \in SUBSET (1 .. k)
          /\ s \ {k + 1} \in SUBSET (1 .. k + 1) /\ k + 1 \notin s \ {k + 1}
      BY <2>3, LargestIndex
    <3>2. G[s] = F[<<g[s \ {k + 1}], q[k + 1]>>]
      BY <2>3
    <3>3. G[s \ {k + 1}] = g[s \ {k + 1}]
      BY <3>1
    <3>4. g[s \ {k + 1}] \in T
      BY <3>1
    <3>5. F[<<g[s \ {k + 1}], q[k + 1]>>] \in T
      BY <2>2, <3>4
    <3>6. QED
      BY <3>1, <3>2, <3>3, <3>5
  <2>4. ASSUME NEW s \in SUBSET (1 .. k + 1), k + 1 \notin s
        PROVE  /\ s \in SUBSET (1 .. k) /\ G[s] = g[s] /\ G[s] \in T
               /\ \A x : G[s \ {x}] = g[s \ {x}]
    <3>1. s \in SUBSET (1 .. k)
      BY <2>4
    <3>2. G[s] = g[s] /\ g[s] \in T
      BY <2>4, <3>1
    <3>3. ASSUME NEW x PROVE G[s \ {x}] = g[s \ {x}]
      <4>1. s \ {x} \in SUBSET (1 .. k + 1) /\ k + 1 \notin s \ {x}
        BY <2>4
      <4>2. QED
        BY <4>1
    <3>4. QED
      BY <3>1, <3>2, <3>3
  <2>5. G \in [SUBSET (1 .. k + 1) -> T]
    <3>1. \A s \in SUBSET (1 .. k + 1) : G[s] \in T
      BY <2>3, <2>4
    <3>2. G = [s \in SUBSET (1 .. k + 1) |-> G[s]]
      OBVIOUS
    <3> HIDE DEF G
    <3>3. QED
      BY <3>1, <3>2
  <2> HIDE DEF G
  <2>6. ASSUME NEW s \in SUBSET (1 .. k + 1)
        PROVE  G[s] = IF s = {} THEN base ELSE F[<<G[s \ {Max(s)}], q[Max(s)]>>]
    <3>1. CASE k + 1 \in s
      BY <2>3, <3>1
    <3>2. CASE k + 1 \notin s
      <4>1. s \in SUBSET (1 .. k) /\ G[s] = g[s] /\ G[s \ {Max(s)}] = g[s \ {Max(s)}]
        BY <2>4, <3>2
      <4>2. g[s] = IF s = {} THEN base ELSE F[<<g[s \ {Max(s)}], q[Max(s)]>>]
        BY <2>1, <4>1, Zenon DEF Folds
      <4>3. QED
        BY <4>1, <4>2
    <3>3. QED
      BY <3>1, <3>2
  <2>7. Folds(G, F, base, q, k + 1)
    BY <2>6 DEF Folds
  <2>8. HasFold(T, F, base, q, k + 1)
    BY <2>5, <2>7 DEF HasFold
  <2>9. QED
    BY <2>8
<1> HIDE DEF S
<1>3. n \in S
  BY <1>1, <1>2, Induction
<1>4. QED
  BY <1>3 DEF S

Holes == [position : Nat, size : Nat]

(* What a unit of the file can be. *)
Units == ({"plain", "size", "lz4"} \X Nat \X Nat)
           \cup ({"index"} \X {0} \X Seq(Entries))

Archives == [files : Seq(Entries), indexOffset : Nat, dirty : BOOLEAN,
             removeQueue : Seq(Holes), units : Seq(Units), header : Nat]

Stored == [version : 0 .. MaxStores, size : Sizes \cup {0}]

(* A piece of the data region is a file or a hole. *)
In(p, piece) == piece.position <= p /\ p < piece.position + piece.size

Within(piece, idx) ==
  piece.position >= 1 /\ piece.size >= 1 /\ piece.position + piece.size <= idx

Apart(a1, b1) ==
  a1.position + a1.size <= b1.position \/ b1.position + b1.size <= a1.position

(* The files and the holes tile the region that ends at idx. *)
Tiled(files, queue, idx) ==
  /\ \A i \in 1 .. Len(files) : Within(files[i], idx)
  /\ \A i \in 1 .. Len(queue) : Within(queue[i], idx)
  /\ \A i, j \in 1 .. Len(files) : i # j => Apart(files[i], files[j])
  /\ \A i, j \in 1 .. Len(queue) : i # j => Apart(queue[i], queue[j])
  /\ \A i \in 1 .. Len(files), j \in 1 .. Len(queue) : Apart(files[i], queue[j])
  /\ \A p \in 1 .. idx - 1 :
       \/ \E i \in 1 .. Len(files) : In(p, files[i])
       \/ \E j \in 1 .. Len(queue) : In(p, queue[j])

(* The units of a file are what was stored. *)
HoldsFile(units, file, what) ==
  IF file.flags = 0
  THEN /\ file.size = what.size
       /\ \A i \in 1 .. what.size :
            units[file.position + i - 1] = <<"plain", what.version, i>>
  ELSE /\ file.size = 2
       /\ units[file.position] = <<"size", what.version, what.size>>
       /\ units[file.position + 1] = <<"lz4", what.version, what.size>>

(* The index has the files that are stored, each once, where their data     *)
(* are.                                                                    *)
Kept(files, idx, units, st) ==
  /\ idx >= 1 /\ idx - 1 <= Len(units)
  /\ \A p \in 1 .. idx - 1 : units[p][1] # "index"
  /\ \A i, j \in 1 .. Len(files) : files[i].id = files[j].id => i = j
  /\ \A i \in 1 .. Len(files) :
       st[files[i].id] # Nothing /\ HoldsFile(units, files[i], st[files[i].id])
  /\ \A id \in Ids :
       st[id] # Nothing => \E i \in 1 .. Len(files) : files[i].id = id

Sound(v, st) ==
  Tiled(v.files, v.removeQueue, v.indexOffset)
    /\ Kept(v.files, v.indexOffset, v.units, st)

(* What the header says of an index at idx. *)
HeaderOf(idx) == (1 - (1 % HeaderBase)) + (idx % HeaderBase)

(* An archive that can be opened again: with files as its index. *)
Complete(v, files, idx) ==
  /\ v.removeQueue = <<>>
  /\ Len(v.units) = idx
  /\ v.units[idx] = IndexUnit(files)
  /\ v.header = HeaderOf(idx)

(***************************************************************************)
(* The queue of holes, sorted.                                             *)
(***************************************************************************)
LEMMA InsertedAnywhere ==
  ASSUME NEW U, NEW s \in Seq(U), NEW e \in U, NEW k \in 1 .. Len(s) + 1
  PROVE  /\ InsertAt(s, k, e) \in Seq(U)
         /\ Len(InsertAt(s, k, e)) = Len(s) + 1
         /\ \A x : Contains(InsertAt(s, k, e), x) <=> x = e \/ Contains(s, x)
<1> DEFINE a == SubSeq(s, 1, k - 1)
           b == SubSeq(s, k, Len(s))
           n == Len(s)
           ae == Append(a, e)
           r == ae \o b
<1>1. n \in Nat /\ k \in Nat /\ k - 1 \in Nat /\ 1 <= k /\ k <= n + 1
  OBVIOUS
<1>2. a \in Seq(U) /\ Len(a) = k - 1 /\ \A i \in 1 .. k - 1 : a[i] = s[i]
  BY <1>1
<1>3. b \in Seq(U) /\ Len(b) = n - k + 1 /\ \A i \in 1 .. n - k + 1 : b[i] = s[k + i - 1]
  BY <1>1
<1>4. InsertAt(s, k, e) = r
  <2>1. a \o <<e>> = Append(a, e)
    BY <1>2
  <2>2. InsertAt(s, k, e) = a \o <<e>> \o b
    BY DEF InsertAt
  <2>3. QED
    BY <2>1, <2>2
<1> HIDE DEF a, b, n
<1>5. /\ ae \in Seq(U) /\ Len(ae) = k /\ ae[k] = e
      /\ \A i \in 1 .. k - 1 : ae[i] = s[i]
  BY <1>1, <1>2
<1> HIDE DEF ae
<1>6. /\ r \in Seq(U) /\ Len(r) = k + (n - k + 1)
      /\ \A i \in 1 .. k + (n - k + 1) : r[i] = IF i <= k THEN ae[i] ELSE b[i - k]
  <2>1. /\ r \in Seq(U) /\ Len(r) = Len(ae) + Len(b)
        /\ \A i \in 1 .. Len(ae) + Len(b) :
             r[i] = IF i <= Len(ae) THEN ae[i] ELSE b[i - Len(ae)]
    BY <1>3, <1>5, ConcatProperties
  <2> HIDE DEF r
  <2>2. QED
    BY <1>3, <1>5, <2>1
<1> HIDE DEF r
<1>7. /\ \A i \in 1 .. k - 1 : i \in 1 .. n + 1 /\ i \in 1 .. n /\ r[i] = s[i]
      /\ k \in 1 .. n + 1 /\ r[k] = e
      /\ \A i \in k .. n : i \in 1 .. n /\ i + 1 \in 1 .. n + 1 /\ r[i + 1] = s[i]
      /\ Len(r) = n + 1
  <2>1. Len(r) = n + 1
    BY <1>1, <1>6
  <2>2. ASSUME NEW i \in 1 .. k - 1
        PROVE  i \in 1 .. n + 1 /\ i \in 1 .. n /\ r[i] = s[i]
    <3>1. i \in 1 .. k + (n - k + 1) /\ i <= k /\ i \in 1 .. n + 1 /\ i \in 1 .. n
      BY <1>1
    <3>2. QED
      BY <1>5, <1>6, <3>1
  <2>3. k \in 1 .. n + 1 /\ r[k] = e
    <3>1. k \in 1 .. k + (n - k + 1) /\ k <= k /\ k \in 1 .. n + 1
      BY <1>1
    <3>2. QED
      BY <1>5, <1>6, <3>1
  <2>4. ASSUME NEW i \in k .. n
        PROVE  i \in 1 .. n /\ i + 1 \in 1 .. n + 1 /\ r[i + 1] = s[i]
    <3>1. /\ i + 1 \in 1 .. k + (n - k + 1) /\ ~(i + 1 <= k) /\ i \in 1 .. n
          /\ i + 1 \in 1 .. n + 1 /\ (i + 1) - k \in 1 .. n - k + 1
          /\ k + ((i + 1) - k) - 1 = i
      BY <1>1
    <3>2. r[i + 1] = b[(i + 1) - k]
      BY <1>6, <3>1
    <3>3. b[(i + 1) - k] = s[k + ((i + 1) - k) - 1]
      BY <1>3, <3>1
    <3>4. QED
      BY <3>1, <3>2, <3>3
  <2>5. QED
    BY <2>1, <2>2, <2>3, <2>4
<1>8. \A i \in 1 .. n + 1 :
        i \in 1 .. k - 1 \/ i = k \/ (i - 1 \in k .. n /\ (i - 1) + 1 = i)
  BY <1>1
<1>9. \A i \in 1 .. n : i \in 1 .. k - 1 \/ i \in k .. n
  BY <1>1
<1>10. ASSUME NEW x
       PROVE  Contains(r, x) <=> x = e \/ Contains(s, x)
  <2>1. ASSUME Contains(r, x), x # e PROVE Contains(s, x)
    <3>1. PICK i \in 1 .. n + 1 : r[i] = x
      BY <1>7, <2>1 DEF Contains
    <3>2. \E j \in 1 .. n : s[j] = x
      BY <1>7, <1>8, <2>1, <3>1
    <3>3. QED
      BY <3>2 DEF Contains, n
  <2>2. ASSUME Contains(s, x) PROVE Contains(r, x)
    <3>1. PICK i \in 1 .. n : s[i] = x
      BY <2>2 DEF Contains, n
    <3>2. \E j \in 1 .. n + 1 : r[j] = x
      BY <1>7, <1>9, <3>1
    <3>3. QED
      BY <1>7, <3>2 DEF Contains
  <2>3. Contains(r, e)
    BY <1>7 DEF Contains
  <2>4. QED
    BY <2>1, <2>2, <2>3
<1>11. QED
  BY <1>4, <1>6, <1>7, <1>10 DEF n

LEMMA InsertedHole ==
  ASSUME NEW s \in Seq(Holes), NEW h \in Holes
  PROVE  /\ Inserted(s, h) \in Seq(Holes)
         /\ \A x : Contains(Inserted(s, h), x) <=> x = h \/ Contains(s, x)
<1> DEFINE behind == {i \in DOMAIN s : s[i].position > h.position}
           k == IF behind = {} THEN Len(s) + 1 ELSE Min(behind)
<1>1. k \in 1 .. Len(s) + 1
  <2>1. CASE behind = {}
    BY <2>1
  <2>2. CASE behind # {}
    <3>1. behind \subseteq Nat /\ behind \subseteq 1 .. Len(s)
      OBVIOUS
    <3> HIDE DEF behind
    <3>2. \E m \in behind : \A j \in behind : m <= j
      BY <2>2, <3>1, Least
    <3>3. Min(behind) \in behind
      BY <3>2 DEF Min
    <3>4. k = Min(behind)
      BY <2>2
    <3> HIDE DEF k
    <3>5. k \in 1 .. Len(s)
      <4>1. Min(behind) \in 1 .. Len(s)
        BY <3>1, <3>3, Zenon
      <4>2. QED
        BY <3>4, <4>1
    <3>6. Len(s) \in Nat
      OBVIOUS
    <3>7. QED
      BY <3>5, <3>6
  <2>3. QED
    BY <2>1, <2>2
<1>2. Inserted(s, h) = InsertAt(s, k, h)
  BY DEF Inserted
<1> HIDE DEF k
<1>3. QED
  BY <1>1, <1>2, InsertedAnywhere

(* FoldLeft goes through the sequence from the left, here for Inserted.     *)
LEMMA FoldOfInserted ==
  ASSUME NEW q \in Seq(Holes)
  PROVE  \E h : /\ FoldLeft(Inserted, <<>>, q) = h[1 .. Len(q)]
                /\ h[1 .. 0] = <<>>
                /\ \A k \in Nat : k < Len(q) => h[1 .. k + 1] = Inserted(h[1 .. k], q[k + 1])
<1> DEFINE n == Len(q)
           F == [pair \in Seq(Holes) \X Holes |-> Inserted(pair[1], pair[2])]
           h == CHOOSE h : h = [s \in SUBSET DOMAIN q |->
                                  IF s = {} THEN <<>>
                                  ELSE Inserted(h[s \ {Max(s)}], q[Max(s)])]
<1>1. DOMAIN q = 1 .. n /\ n \in Nat /\ \A i \in 1 .. n : q[i] \in Holes
  OBVIOUS
<1>2. F \in [Seq(Holes) \X Holes -> Seq(Holes)]
  <2>1. \A pair \in Seq(Holes) \X Holes : Inserted(pair[1], pair[2]) \in Seq(Holes)
    BY InsertedHole
  <2>2. QED
    BY <2>1
<1>3. FoldLeft(Inserted, <<>>, q) = h[DOMAIN q]
  BY Zenon DEF FoldLeft, MapThenFoldSet
<1>4. PICK g \in [SUBSET (1 .. n) -> Seq(Holes)] : Folds(g, F, <<>>, q, n)
  <2>1. <<>> \in Seq(Holes)
    OBVIOUS
  <2> HIDE DEF F, n
  <2>2. HasFold(Seq(Holes), F, <<>>, q, n)
    BY <1>1, <1>2, <2>1, FoldExists
  <2>3. QED
    BY <2>2 DEF HasFold
<1>5. g = [s \in SUBSET DOMAIN q |->
             IF s = {} THEN <<>> ELSE Inserted(g[s \ {Max(s)}], q[Max(s)])]
  <2>1. ASSUME NEW s \in SUBSET (1 .. n)
        PROVE  g[s] = IF s = {} THEN <<>> ELSE Inserted(g[s \ {Max(s)}], q[Max(s)])
    <3>1. g[s] = IF s = {} THEN <<>> ELSE F[<<g[s \ {Max(s)}], q[Max(s)]>>]
      BY <1>4, Zenon DEF Folds
    <3>2. CASE s = {}
      BY <3>1, <3>2
    <3>3. CASE s # {}
      <4>1. Max(s) \in 1 .. n
        BY <1>1, <3>3, LargestExists
      <4>2. s \ {Max(s)} \in SUBSET (1 .. n)
        OBVIOUS
      <4>3. g[s \ {Max(s)}] \in Seq(Holes) /\ q[Max(s)] \in Holes
        BY <1>1, <4>1, <4>2
      <4>4. F[<<g[s \ {Max(s)}], q[Max(s)]>>] = Inserted(g[s \ {Max(s)}], q[Max(s)])
        BY <4>3
      <4> HIDE DEF F
      <4>5. QED
        BY <3>1, <3>3, <4>4
    <3>4. QED
      BY <3>2, <3>3
  <2>2. g = [s \in SUBSET (1 .. n) |-> g[s]]
    OBVIOUS
  <2> HIDE DEF n
  <2>3. g = [s \in SUBSET (1 .. n) |->
               IF s = {} THEN <<>> ELSE Inserted(g[s \ {Max(s)}], q[Max(s)])]
    BY <2>1, <2>2, Zenon
  <2>4. QED
    BY <1>1, <2>3
<1>6. h = [s \in SUBSET DOMAIN q |->
             IF s = {} THEN <<>> ELSE Inserted(h[s \ {Max(s)}], q[Max(s)])]
  BY <1>5, Zenon
<1> HIDE DEF h
<1>7. \A s \in SUBSET (1 .. n) :
        h[s] = IF s = {} THEN <<>> ELSE Inserted(h[s \ {Max(s)}], q[Max(s)])
  <2> HIDE DEF n
  <2>1. \A s \in SUBSET DOMAIN q :
          h[s] = IF s = {} THEN <<>> ELSE Inserted(h[s \ {Max(s)}], q[Max(s)])
    BY <1>6, Zenon
  <2>2. QED
    BY <1>1, <2>1
<1>8. h[1 .. 0] = <<>>
  <2>1. 1 .. 0 = {} /\ 1 .. 0 \in SUBSET (1 .. n)
    OBVIOUS
  <2>2. QED
    BY <1>7, <2>1
<1>9. ASSUME NEW k \in Nat, k < n
      PROVE  h[1 .. k + 1] = Inserted(h[1 .. k], q[k + 1])
  <2> DEFINE s == 1 .. k + 1
  <2>1. s \in SUBSET (1 .. n) /\ s \in SUBSET (1 .. k + 1) /\ k + 1 \in s
    BY <1>1, <1>9
  <2>2. s \ {k + 1} = 1 .. k
    OBVIOUS
  <2> HIDE DEF s
  <2>3. Max(s) = k + 1 /\ s # {}
    BY <2>1, LargestIndex
  <2>4. h[s] = IF s = {} THEN <<>> ELSE Inserted(h[s \ {Max(s)}], q[Max(s)])
    BY <1>7, <2>1
  <2>5. h[s] = Inserted(h[1 .. k], q[k + 1])
    BY <2>2, <2>3, <2>4
  <2>6. QED
    BY <2>5 DEF s
<1>10. QED
  <2>1. FoldLeft(Inserted, <<>>, q) = h[1 .. n]
    BY <1>1, <1>3
  <2>2. QED
    BY <1>8, <1>9, <2>1

(* Sorting keeps the holes there are. *)
Collects(s, q, k) ==
  s \in Seq(Holes) /\ \A x : Contains(s, x) <=> \E i \in 1 .. k : q[i] = x

LEMMA SortedKeeps ==
  ASSUME NEW q \in Seq(Holes)
  PROVE  Sorted(q) \in Seq(Holes) /\ \A x : Contains(Sorted(q), x) <=> Contains(q, x)
<1> DEFINE n == Len(q)
<1>1. n \in Nat /\ \A i \in 1 .. n : q[i] \in Holes
  OBVIOUS
<1>2. PICK h : /\ FoldLeft(Inserted, <<>>, q) = h[1 .. n]
               /\ h[1 .. 0] = <<>>
               /\ \A k \in Nat : k < n => h[1 .. k + 1] = Inserted(h[1 .. k], q[k + 1])
  BY FoldOfInserted
<1> DEFINE S == {k \in Nat : k <= n => Collects(h[1 .. k], q, k)}
<1>3. 0 \in S
  <2>1. <<>> \in Seq(Holes) /\ \A x : ~Contains(<<>>, x)
    BY DEF Contains
  <2>2. Collects(<<>>, q, 0)
    BY <2>1 DEF Collects
  <2>3. Collects(h[1 .. 0], q, 0)
    BY <1>2, <2>2
  <2>4. QED
    BY <2>3
<1>4. ASSUME NEW k \in Nat, k < n, k \in S
      PROVE  k + 1 \in S
  <2>1. k <= n /\ k + 1 \in 1 .. n
    BY <1>1, <1>4
  <2>2. Collects(h[1 .. k], q, k)
    BY <1>4, <2>1
  <2>3. h[1 .. k + 1] = Inserted(h[1 .. k], q[k + 1])
    BY <1>2, <1>4
  <2> DEFINE s == h[1 .. k]
             t == h[1 .. k + 1]
  <2>4. s \in Seq(Holes) /\ q[k + 1] \in Holes
    BY <1>1, <2>1, <2>2 DEF Collects
  <2> HIDE DEF s, t
  <2>5. t \in Seq(Holes) /\ \A x : Contains(t, x) <=> x = q[k + 1] \/ Contains(s, x)
    <3>1. t = Inserted(s, q[k + 1])
      BY <2>3 DEF s, t
    <3>2. QED
      BY <2>4, <3>1, InsertedHole
  <2>6. \A x : Contains(s, x) <=> \E i \in 1 .. k : q[i] = x
    BY <2>2 DEF Collects, s
  <2>7. \A x : (\E i \in 1 .. k + 1 : q[i] = x) <=> x = q[k + 1] \/ \E i \in 1 .. k : q[i] = x
    <3>1. 1 .. k + 1 = (1 .. k) \cup {k + 1}
      OBVIOUS
    <3>2. QED
      BY <3>1
  <2>8. Collects(t, q, k + 1)
    BY <2>5, <2>6, <2>7 DEF Collects
  <2>9. QED
    BY <2>8 DEF t
<1> HIDE DEF S, n
<1>5. n \in S
  <2>1. \A k \in 0 .. n : k \in S
    BY <1>1, <1>3, <1>4, Induction
  <2>2. QED
    BY <1>1, <2>1
<1>6. Collects(Sorted(q), q, n)
  BY <1>1, <1>2, <1>5 DEF S, Sorted
<1>7. QED
  BY <1>6 DEF Collects, Contains, n

(***************************************************************************)
(* Joining adjacent holes.                                                 *)
(***************************************************************************)
LEMMA GrownHole ==
  ASSUME NEW e \in Holes, NEW m \in Nat
  PROVE  /\ [e EXCEPT !.size = @ + m] = [position |-> e.position, size |-> e.size + m]
         /\ [e EXCEPT !.size = @ + m] \in Holes
  BY DEF Holes

LEMMA JoinedHole ==
  ASSUME NEW s \in Seq(Holes), NEW h \in Holes
  PROVE  /\ Joined(s, h) \in Seq(Holes)
         /\ Len(Joined(s, h)) # 0
         /\ Len(Joined(s, h)) = 1 =>
              \/ s = <<>> /\ Joined(s, h)[1] = h
              \/ /\ Len(s) = 1 /\ s[1].position + s[1].size = h.position
                 /\ Joined(s, h)[1] = [position |-> s[1].position,
                                       size |-> s[1].size + h.size]
<1> DEFINE n == Len(s)
           r == Joined(s, h)
<1>1. n \in Nat /\ \A i \in 1 .. n : s[i] \in Holes
  OBVIOUS
<1>2. CASE s # <<>> /\ Last(s).position + Last(s).size = h.position
  <2>1. n \in 1 .. n /\ n # 0
    <3>1. n # 0
      BY <1>2
    <3>2. QED
      BY <1>1, <3>1
  <2>2. s[n] \in Holes
    BY <1>1, <2>1
  <2> DEFINE e == [s[n] EXCEPT !.size = @ + h.size]
  <2>3. e = [position |-> s[n].position, size |-> s[n].size + h.size] /\ e \in Holes
    <3>1. h.size \in Nat
      BY DEF Holes
    <3>2. QED
      BY <2>2, <3>1, GrownHole
  <2>4. r = [s EXCEPT ![n] = e]
    BY <1>2 DEF Joined
  <2> HIDE DEF e
  <2>5. r \in Seq(Holes) /\ Len(r) = n /\ r[n] = e
    BY <2>1, <2>3, <2>4
  <2>6. s[n].position + s[n].size = h.position
    BY <1>2 DEF Last
  <2> HIDE DEF r
  <2>7. QED
    BY <2>1, <2>3, <2>5, <2>6 DEF r
<1>3. CASE ~(s # <<>> /\ Last(s).position + Last(s).size = h.position)
  <2>1. r = Append(s, h)
    BY <1>3 DEF Joined
  <2>2. r \in Seq(Holes) /\ Len(r) = n + 1 /\ r[n + 1] = h
    BY <2>1
  <2>3. n = 0 => s = <<>>
    OBVIOUS
  <2> HIDE DEF r, n
  <2>4. QED
    BY <1>1, <2>2, <2>3 DEF r
<1>4. QED
  BY <1>2, <1>3

(* The same of the fold of Joined.                                         *)
LEMMA FoldOfJoined ==
  ASSUME NEW q \in Seq(Holes)
  PROVE  \E h : /\ FoldLeft(Joined, <<>>, q) = h[1 .. Len(q)]
                /\ h[1 .. 0] = <<>>
                /\ \A k \in Nat : k < Len(q) => h[1 .. k + 1] = Joined(h[1 .. k], q[k + 1])
<1> DEFINE n == Len(q)
           F == [pair \in Seq(Holes) \X Holes |-> Joined(pair[1], pair[2])]
           h == CHOOSE h : h = [s \in SUBSET DOMAIN q |->
                                  IF s = {} THEN <<>>
                                  ELSE Joined(h[s \ {Max(s)}], q[Max(s)])]
<1>1. DOMAIN q = 1 .. n /\ n \in Nat /\ \A i \in 1 .. n : q[i] \in Holes
  OBVIOUS
<1>2. F \in [Seq(Holes) \X Holes -> Seq(Holes)]
  <2>1. \A pair \in Seq(Holes) \X Holes : Joined(pair[1], pair[2]) \in Seq(Holes)
    BY JoinedHole
  <2>2. QED
    BY <2>1
<1>3. FoldLeft(Joined, <<>>, q) = h[DOMAIN q]
  BY Zenon DEF FoldLeft, MapThenFoldSet
<1>4. PICK g \in [SUBSET (1 .. n) -> Seq(Holes)] : Folds(g, F, <<>>, q, n)
  <2>1. <<>> \in Seq(Holes)
    OBVIOUS
  <2> HIDE DEF F, n
  <2>2. HasFold(Seq(Holes), F, <<>>, q, n)
    BY <1>1, <1>2, <2>1, FoldExists
  <2>3. QED
    BY <2>2 DEF HasFold
<1>5. g = [s \in SUBSET DOMAIN q |->
             IF s = {} THEN <<>> ELSE Joined(g[s \ {Max(s)}], q[Max(s)])]
  <2>1. ASSUME NEW s \in SUBSET (1 .. n)
        PROVE  g[s] = IF s = {} THEN <<>> ELSE Joined(g[s \ {Max(s)}], q[Max(s)])
    <3>1. g[s] = IF s = {} THEN <<>> ELSE F[<<g[s \ {Max(s)}], q[Max(s)]>>]
      BY <1>4, Zenon DEF Folds
    <3>2. CASE s = {}
      BY <3>1, <3>2
    <3>3. CASE s # {}
      <4>1. Max(s) \in 1 .. n
        BY <1>1, <3>3, LargestExists
      <4>2. s \ {Max(s)} \in SUBSET (1 .. n)
        OBVIOUS
      <4>3. g[s \ {Max(s)}] \in Seq(Holes) /\ q[Max(s)] \in Holes
        BY <1>1, <4>1, <4>2
      <4>4. F[<<g[s \ {Max(s)}], q[Max(s)]>>] = Joined(g[s \ {Max(s)}], q[Max(s)])
        BY <4>3
      <4> HIDE DEF F
      <4>5. QED
        BY <3>1, <3>3, <4>4
    <3>4. QED
      BY <3>2, <3>3
  <2>2. g = [s \in SUBSET (1 .. n) |-> g[s]]
    OBVIOUS
  <2> HIDE DEF n
  <2>3. g = [s \in SUBSET (1 .. n) |->
               IF s = {} THEN <<>> ELSE Joined(g[s \ {Max(s)}], q[Max(s)])]
    BY <2>1, <2>2, Zenon
  <2>4. QED
    BY <1>1, <2>3
<1>6. h = [s \in SUBSET DOMAIN q |->
             IF s = {} THEN <<>> ELSE Joined(h[s \ {Max(s)}], q[Max(s)])]
  BY <1>5, Zenon
<1> HIDE DEF h
<1>7. \A s \in SUBSET (1 .. n) :
        h[s] = IF s = {} THEN <<>> ELSE Joined(h[s \ {Max(s)}], q[Max(s)])
  <2> HIDE DEF n
  <2>1. \A s \in SUBSET DOMAIN q :
          h[s] = IF s = {} THEN <<>> ELSE Joined(h[s \ {Max(s)}], q[Max(s)])
    BY <1>6, Zenon
  <2>2. QED
    BY <1>1, <2>1
<1>8. h[1 .. 0] = <<>>
  <2>1. 1 .. 0 = {} /\ 1 .. 0 \in SUBSET (1 .. n)
    OBVIOUS
  <2>2. QED
    BY <1>7, <2>1
<1>9. ASSUME NEW k \in Nat, k < n
      PROVE  h[1 .. k + 1] = Joined(h[1 .. k], q[k + 1])
  <2> DEFINE s == 1 .. k + 1
  <2>1. s \in SUBSET (1 .. n) /\ s \in SUBSET (1 .. k + 1) /\ k + 1 \in s
    BY <1>1, <1>9
  <2>2. s \ {k + 1} = 1 .. k
    OBVIOUS
  <2> HIDE DEF s
  <2>3. Max(s) = k + 1 /\ s # {}
    BY <2>1, LargestIndex
  <2>4. h[s] = IF s = {} THEN <<>> ELSE Joined(h[s \ {Max(s)}], q[Max(s)])
    BY <1>7, <2>1
  <2>5. h[s] = Joined(h[1 .. k], q[k + 1])
    BY <2>2, <2>3, <2>4
  <2>6. QED
    BY <2>5 DEF s
<1>10. QED
  <2>1. FoldLeft(Joined, <<>>, q) = h[1 .. n]
    BY <1>1, <1>3
  <2>2. QED
    BY <1>8, <1>9, <2>1

(* r is what the first k holes of s are joined to; when that is one hole it  *)
(* has the positions that they have.                                       *)
JoinsFirst(r, s, k) ==
  /\ r \in Seq(Holes)
  /\ k = 0 => r = <<>>
  /\ k > 0 => Len(r) # 0
  /\ Len(r) = 1 => \A p \in Nat : In(p, r[1]) <=> \E i \in 1 .. k : In(p, s[i])

LEMMA OneMoreJoined ==
  ASSUME NEW s \in Seq(Holes), NEW k \in Nat, k + 1 \in 1 .. Len(s),
         NEW r, JoinsFirst(r, s, k)
  PROVE  JoinsFirst(Joined(r, s[k + 1]), s, k + 1)
<1> DEFINE h == s[k + 1]
           t == Joined(r, h)
<1>1. r \in Seq(Holes) /\ h \in Holes
  BY DEF JoinsFirst
<1>2. h.position \in Nat /\ h.size \in Nat
  BY <1>1 DEF Holes
<1>3. \A p \in Nat : (\E i \in 1 .. k + 1 : In(p, s[i]))
                       <=> In(p, h) \/ \E i \in 1 .. k : In(p, s[i])
  <2>1. 1 .. k + 1 = (1 .. k) \cup {k + 1}
    OBVIOUS
  <2> HIDE DEF h
  <2>2. h = s[k + 1]
    BY DEF h
  <2>3. QED
    BY <2>1, <2>2
<1> HIDE DEF h
<1>4. /\ t \in Seq(Holes) /\ Len(t) # 0
      /\ Len(t) = 1 =>
           \/ r = <<>> /\ t[1] = h
           \/ /\ Len(r) = 1 /\ r[1].position + r[1].size = h.position
              /\ t[1] = [position |-> r[1].position, size |-> r[1].size + h.size]
  BY <1>1, JoinedHole
<1> HIDE DEF t
<1>5. ASSUME Len(t) = 1
      PROVE  \A p \in Nat : In(p, t[1]) <=> \E i \in 1 .. k + 1 : In(p, s[i])
  <2>1. CASE r = <<>> /\ t[1] = h
    <3>1. k = 0
      BY <2>1 DEF JoinsFirst
    <3>2. \A i : i \notin 1 .. k
      BY <3>1
    <3>3. QED
      BY <1>3, <2>1, <3>2
  <2>2. CASE /\ Len(r) = 1 /\ r[1].position + r[1].size = h.position
             /\ t[1] = [position |-> r[1].position, size |-> r[1].size + h.size]
    <3>1. \A p \in Nat : In(p, r[1]) <=> \E i \in 1 .. k : In(p, s[i])
      BY <2>2 DEF JoinsFirst
    <3>2. r[1] \in Holes
      <4>1. \A i \in 1 .. Len(r) : r[i] \in Holes
        BY <1>1
      <4>2. 1 \in 1 .. Len(r)
        BY <2>2
      <4>3. QED
        BY <4>1, <4>2
    <3>3. r[1].position \in Nat /\ r[1].size \in Nat
      BY <3>2 DEF Holes
    <3>4. t[1].position = r[1].position /\ t[1].size = r[1].size + h.size
      BY <2>2
    <3>5. \A p \in Nat : In(p, t[1]) <=> In(p, r[1]) \/ In(p, h)
      <4> DEFINE a == r[1].position
                 b == h.position
                 c == h.position + h.size
      <4>1. /\ a \in Nat /\ b \in Nat /\ c \in Nat /\ a <= b /\ b <= c
            /\ a + r[1].size = b /\ a + (r[1].size + h.size) = c
        BY <1>2, <2>2, <3>3, SMTT(15)
      <4>2. ASSUME NEW p \in Nat
            PROVE  In(p, t[1]) <=> In(p, r[1]) \/ In(p, h)
        <5>1. In(p, r[1]) <=> a <= p /\ p < b
          BY <4>1 DEF In
        <5>2. In(p, h) <=> b <= p /\ p < c
          BY DEF In
        <5>3. In(p, t[1]) <=> a <= p /\ p < c
          BY <3>4, <4>1 DEF In
        <5> HIDE DEF a, b, c
        <5>4. (a <= p /\ p < c) <=> (a <= p /\ p < b) \/ (b <= p /\ p < c)
          BY <4>1
        <5>5. QED
          BY <5>1, <5>2, <5>3, <5>4
      <4>3. QED
        BY <4>2
    <3>6. QED
      BY <1>3, <3>1, <3>5
  <2>3. QED
    BY <1>4, <1>5, <2>1, <2>2
<1>6. JoinsFirst(t, s, k + 1)
  BY <1>4, <1>5 DEF JoinsFirst
<1>7. QED
  BY <1>6 DEF t, h

(* Holes that can be joined to one are that one.                           *)
LEMMA MergedToOne ==
  ASSUME NEW q \in Seq(Holes)
  PROVE  /\ Merge(q) \in Seq(Holes)
         /\ q = <<>> => Merge(q) = <<>>
         /\ q # <<>> => Len(Merge(q)) # 0
         /\ Len(Merge(q)) = 1 =>
              \A p \in Nat : In(p, Merge(q)[1]) <=> \E i \in 1 .. Len(q) : In(p, q[i])
<1>1. Len(q) \in Nat
  OBVIOUS
<1>2. CASE Len(q) <= 1
  <2>1. Merge(q) = q
    BY <1>2 DEF Merge
  <2>2. q # <<>> => Len(q) # 0
    OBVIOUS
  <2>3. ASSUME Len(q) = 1, NEW p \in Nat
        PROVE  In(p, q[1]) <=> \E i \in 1 .. Len(q) : In(p, q[i])
    <3>1. \A i : i \in 1 .. Len(q) <=> i = 1
      BY <2>3
    <3>2. QED
      BY <3>1
  <2>4. QED
    BY <2>1, <2>2, <2>3
<1>3. CASE ~(Len(q) <= 1)
  <2> DEFINE s == Sorted(q)
             n == Len(s)
  <2>1. Merge(q) = FoldLeft(Joined, <<>>, s)
    BY <1>3 DEF Merge
  <2>2. s \in Seq(Holes) /\ \A x : Contains(s, x) <=> Contains(q, x)
    BY SortedKeeps
  <2> HIDE DEF s
  <2>3. PICK h : /\ FoldLeft(Joined, <<>>, s) = h[1 .. n]
                 /\ h[1 .. 0] = <<>>
                 /\ \A k \in Nat : k < n => h[1 .. k + 1] = Joined(h[1 .. k], s[k + 1])
    BY <2>2, FoldOfJoined
  <2>4. n \in Nat /\ n > 0
    <3>1. 1 \in 1 .. Len(q)
      BY <1>1, <1>3
    <3>2. Contains(q, q[1])
      BY <3>1 DEF Contains
    <3>3. \E i \in 1 .. n : s[i] = q[1]
      BY <2>2, <3>2 DEF Contains
    <3>4. n \in Nat
      BY <2>2
    <3> HIDE DEF n
    <3>5. QED
      BY <3>3, <3>4
  <2> DEFINE S == {k \in Nat : k <= n => JoinsFirst(h[1 .. k], s, k)}
  <2>5. 0 \in S
    <3>1. <<>> \in Seq(Holes) /\ Len(<<>>) = 0
      OBVIOUS
    <3>2. JoinsFirst(<<>>, s, 0)
      BY <3>1 DEF JoinsFirst
    <3>3. JoinsFirst(h[1 .. 0], s, 0)
      BY <2>3, <3>2
    <3>4. QED
      BY <3>3
  <2>6. ASSUME NEW k \in Nat, k < n, k \in S
        PROVE  k + 1 \in S
    <3>1. k <= n /\ k + 1 \in 1 .. Len(s)
      BY <2>4, <2>6
    <3>2. JoinsFirst(h[1 .. k], s, k)
      BY <2>6, <3>1
    <3>3. h[1 .. k + 1] = Joined(h[1 .. k], s[k + 1])
      BY <2>3, <2>6
    <3>4. JoinsFirst(Joined(h[1 .. k], s[k + 1]), s, k + 1)
      BY <2>2, <3>1, <3>2, OneMoreJoined
    <3>5. JoinsFirst(h[1 .. k + 1], s, k + 1)
      BY <3>3, <3>4
    <3>6. QED
      BY <3>5
  <2> HIDE DEF S, n
  <2>7. n \in S
    <3>1. \A k \in 0 .. n : k \in S
      BY <2>4, <2>5, <2>6, Induction
    <3>2. QED
      BY <2>4, <3>1
  <2>8. JoinsFirst(Merge(q), s, n)
    <3>1. JoinsFirst(h[1 .. n], s, n)
      BY <2>4, <2>7 DEF S
    <3>2. QED
      BY <2>1, <2>3, <3>1
  <2>9. ASSUME NEW p \in Nat
        PROVE  (\E i \in 1 .. n : In(p, s[i])) <=> \E i \in 1 .. Len(q) : In(p, q[i])
    <3>1. (\E i \in 1 .. n : In(p, s[i])) <=> \E x : Contains(s, x) /\ In(p, x)
      BY DEF Contains, n
    <3>2. (\E i \in 1 .. Len(q) : In(p, q[i])) <=> \E x : Contains(q, x) /\ In(p, x)
      BY DEF Contains
    <3>3. QED
      BY <2>2, <3>1, <3>2
  <2>10. /\ Merge(q) \in Seq(Holes) /\ Len(Merge(q)) # 0
         /\ Len(Merge(q)) = 1 =>
              \A p \in Nat : In(p, Merge(q)[1]) <=> \E i \in 1 .. n : In(p, s[i])
    BY <2>4, <2>8 DEF JoinsFirst
  <2>11. q # <<>>
    BY <1>3
  <2>12. QED
    BY <2>9, <2>10, <2>11
<1>4. QED
  BY <1>2, <1>3

(***************************************************************************)
(* Folds over no hole or one.                                              *)
(***************************************************************************)
LEMMA OneIndex ==
  ASSUME NEW D, D \subseteq {1}, NEW s \in SUBSET D, s # {}
  PROVE  Max(s) = 1 /\ s \ {Max(s)} = {}
<1>1. s = {1}
  OBVIOUS
<1>2. Max({1}) = 1
  BY DEF Max
<1>3. QED
  BY <1>1, <1>2

LEMMA FewElements ==
  ASSUME NEW T, NEW q \in Seq(T), Len(q) <= 1
  PROVE  DOMAIN q \subseteq {1} /\ (q = <<>> <=> DOMAIN q = {})
<1>1. DOMAIN q = 1 .. Len(q) /\ Len(q) \in Nat /\ (q = <<>> <=> Len(q) = 0)
  OBVIOUS
<1>2. QED
  BY <1>1

(* The files are shifted for the hole.                                     *)
LEMMA ShiftFold ==
  ASSUME NEW files, NEW gaps \in Seq(Holes), Len(gaps) <= 1
  PROVE  FoldLeft(ShiftFiles, files, gaps)
           = IF gaps = <<>> THEN files ELSE ShiftFiles(files, gaps[1])
<1> DEFINE D == DOMAIN gaps
           h == CHOOSE h : h = [s \in SUBSET D |->
                                  IF s = {} THEN files
                                  ELSE ShiftFiles(h[s \ {Max(s)}], gaps[Max(s)])]
           g == [s \in SUBSET D |-> IF s = {} THEN files ELSE ShiftFiles(files, gaps[1])]
<1>1. D \subseteq {1} /\ (gaps = <<>> <=> D = {})
  BY FewElements
<1>2. FoldLeft(ShiftFiles, files, gaps) = h[D]
  BY Zenon DEF FoldLeft, MapThenFoldSet
<1>3. g = [s \in SUBSET D |-> IF s = {} THEN files ELSE ShiftFiles(g[s \ {Max(s)}], gaps[Max(s)])]
  <2> HIDE DEF D
  <2>1. ASSUME NEW s \in SUBSET D, s # {}
        PROVE  Max(s) = 1 /\ g[s \ {Max(s)}] = files
    <3>1. Max(s) = 1 /\ s \ {Max(s)} = {}
      BY <1>1, <2>1, OneIndex
    <3>2. {} \in SUBSET D
      OBVIOUS
    <3>3. QED
      BY <3>1, <3>2
  <2> HIDE DEF g
  <2>2. \A s \in SUBSET D :
          (IF s = {} THEN files ELSE ShiftFiles(files, gaps[1])) = IF s = {} THEN files ELSE ShiftFiles(g[s \ {Max(s)}], gaps[Max(s)])
    BY <2>1
  <2>3. QED
    BY <2>2, Zenon DEF g
<1>4. h = [s \in SUBSET D |-> IF s = {} THEN files ELSE ShiftFiles(h[s \ {Max(s)}], gaps[Max(s)])]
  BY <1>3, Zenon
<1> HIDE DEF h, g, D
<1>5. \A s \in SUBSET D : h[s] = IF s = {} THEN files ELSE ShiftFiles(h[s \ {Max(s)}], gaps[Max(s)])
  BY <1>4, Zenon
<1>6. h[{}] = files
  BY <1>5
<1>7. CASE gaps = <<>>
  BY <1>1, <1>2, <1>6, <1>7
<1>8. CASE gaps # <<>>
  <2>1. D # {} /\ Max(D) = 1 /\ D \ {Max(D)} = {} /\ D \in SUBSET D
    BY <1>1, <1>8, OneIndex
  <2>2. h[D] = ShiftFiles(h[D \ {Max(D)}], gaps[Max(D)])
    BY <1>5, <2>1
  <2>3. QED
    BY <1>2, <1>6, <1>8, <2>1, <2>2
<1>9. QED
  BY <1>7, <1>8

(* Their size is its size.                                                 *)
LEMMA SizeFold ==
  ASSUME NEW gaps \in Seq(Holes), Len(gaps) <= 1
  PROVE  fragmented_size(gaps)
           = IF gaps = <<>> THEN 0 ELSE 0 + gaps[1].size
<1> DEFINE D == DOMAIN gaps
           h == CHOOSE h : h = [s \in SUBSET D |->
                                  IF s = {} THEN 0
                                  ELSE h[s \ {Max(s)}] + gaps[Max(s)].size]
           g == [s \in SUBSET D |-> IF s = {} THEN 0 ELSE 0 + gaps[1].size]
<1>1. D \subseteq {1} /\ (gaps = <<>> <=> D = {})
  BY FewElements
<1>2. fragmented_size(gaps) = h[D]
  BY Zenon DEF fragmented_size, FoldLeft, MapThenFoldSet
<1>3. g = [s \in SUBSET D |-> IF s = {} THEN 0 ELSE g[s \ {Max(s)}] + gaps[Max(s)].size]
  <2> HIDE DEF D
  <2>1. ASSUME NEW s \in SUBSET D, s # {}
        PROVE  Max(s) = 1 /\ g[s \ {Max(s)}] = 0
    <3>1. Max(s) = 1 /\ s \ {Max(s)} = {}
      BY <1>1, <2>1, OneIndex
    <3>2. {} \in SUBSET D
      OBVIOUS
    <3>3. QED
      BY <3>1, <3>2
  <2> HIDE DEF g
  <2>2. \A s \in SUBSET D :
          (IF s = {} THEN 0 ELSE 0 + gaps[1].size) = IF s = {} THEN 0 ELSE g[s \ {Max(s)}] + gaps[Max(s)].size
    BY <2>1
  <2>3. QED
    BY <2>2, Zenon DEF g
<1>4. h = [s \in SUBSET D |-> IF s = {} THEN 0 ELSE h[s \ {Max(s)}] + gaps[Max(s)].size]
  BY <1>3, Zenon
<1> HIDE DEF h, g, D
<1>5. \A s \in SUBSET D : h[s] = IF s = {} THEN 0 ELSE h[s \ {Max(s)}] + gaps[Max(s)].size
  BY <1>4, Zenon
<1>6. h[{}] = 0
  BY <1>5
<1>7. CASE gaps = <<>>
  BY <1>1, <1>2, <1>6, <1>7
<1>8. CASE gaps # <<>>
  <2>1. D # {} /\ Max(D) = 1 /\ D \ {Max(D)} = {} /\ D \in SUBSET D
    BY <1>1, <1>8, OneIndex
  <2>2. h[D] = h[D \ {Max(D)}] + gaps[Max(D)].size
    BY <1>5, <2>1
  <2>3. QED
    BY <1>2, <1>6, <1>8, <2>1, <2>2
<1>9. QED
  BY <1>7, <1>8

(* What is behind it is moved.                                             *)
LEMMA MoveFold ==
  ASSUME NEW first, NEW gaps, NEW q \in Seq(Nat), Len(q) <= 1
  PROVE  FoldLeft(LAMBDA units, i : MovePart(units, gaps, i), first, q)
           = IF q = <<>> THEN first ELSE MovePart(first, gaps, q[1])
<1> DEFINE D == DOMAIN q
           h == CHOOSE h : h = [s \in SUBSET D |->
                                  IF s = {} THEN first
                                  ELSE MovePart(h[s \ {Max(s)}], gaps, q[Max(s)])]
           g == [s \in SUBSET D |-> IF s = {} THEN first ELSE MovePart(first, gaps, q[1])]
<1>1. D \subseteq {1} /\ (q = <<>> <=> D = {})
  BY FewElements
<1>2. FoldLeft(LAMBDA units, i : MovePart(units, gaps, i), first, q) = h[D]
  BY Zenon DEF FoldLeft, MapThenFoldSet
<1>3. g = [s \in SUBSET D |-> IF s = {} THEN first ELSE MovePart(g[s \ {Max(s)}], gaps, q[Max(s)])]
  <2> HIDE DEF D
  <2>1. ASSUME NEW s \in SUBSET D, s # {}
        PROVE  Max(s) = 1 /\ g[s \ {Max(s)}] = first
    <3>1. Max(s) = 1 /\ s \ {Max(s)} = {}
      BY <1>1, <2>1, OneIndex
    <3>2. {} \in SUBSET D
      OBVIOUS
    <3>3. QED
      BY <3>1, <3>2
  <2> HIDE DEF g
  <2>2. \A s \in SUBSET D :
          (IF s = {} THEN first ELSE MovePart(first, gaps, q[1])) = IF s = {} THEN first ELSE MovePart(g[s \ {Max(s)}], gaps, q[Max(s)])
    BY <2>1
  <2>3. QED
    BY <2>2, Zenon DEF g
<1>4. h = [s \in SUBSET D |-> IF s = {} THEN first ELSE MovePart(h[s \ {Max(s)}], gaps, q[Max(s)])]
  BY <1>3, Zenon
<1> HIDE DEF h, g, D
<1>5. \A s \in SUBSET D : h[s] = IF s = {} THEN first ELSE MovePart(h[s \ {Max(s)}], gaps, q[Max(s)])
  BY <1>4, Zenon
<1>6. h[{}] = first
  BY <1>5
<1>7. CASE q = <<>>
  BY <1>1, <1>2, <1>6, <1>7
<1>8. CASE q # <<>>
  <2>1. D # {} /\ Max(D) = 1 /\ D \ {Max(D)} = {} /\ D \in SUBSET D
    BY <1>1, <1>8, OneIndex
  <2>2. h[D] = MovePart(h[D \ {Max(D)}], gaps, q[Max(D)])
    BY <1>5, <2>1
  <2>3. QED
    BY <1>2, <1>6, <1>8, <2>1, <2>2
<1>9. QED
  BY <1>7, <1>8

(***************************************************************************)
(* Sequences of files and of holes.                                        *)
(***************************************************************************)
LEMMA Numbers ==
  /\ \A files \in Seq(Entries) : \A i \in 1 .. Len(files) :
       /\ files[i] \in Entries /\ files[i].id \in Ids /\ files[i].flags \in {0, 1}
       /\ files[i].position \in Nat /\ files[i].size \in Nat
  /\ \A queue \in Seq(Holes) : \A i \in 1 .. Len(queue) :
       /\ queue[i] \in Holes
       /\ queue[i].position \in Nat /\ queue[i].size \in Nat
<1>1. ASSUME NEW files \in Seq(Entries), NEW i \in 1 .. Len(files)
      PROVE  /\ files[i] \in Entries /\ files[i].id \in Ids /\ files[i].flags \in {0, 1}
             /\ files[i].position \in Nat /\ files[i].size \in Nat
  <2>1. files[i] \in Entries
    OBVIOUS
  <2>2. QED
    BY <2>1 DEF Entries
<1>2. ASSUME NEW queue \in Seq(Holes), NEW i \in 1 .. Len(queue)
      PROVE  /\ queue[i] \in Holes
             /\ queue[i].position \in Nat /\ queue[i].size \in Nat
  <2>1. queue[i] \in Holes
    OBVIOUS
  <2>2. QED
    BY <2>1 DEF Holes
<1>3. QED
  BY <1>1, <1>2

LEMMA StoredNumbers ==
  \A what \in Stored : what.version \in Nat /\ what.size \in Nat
<1>1. Sizes \cup {0} \subseteq Nat /\ 0 .. MaxStores \subseteq Nat
  BY SizesAssumption, LimitAssumption
<1>2. QED
  BY <1>1 DEF Stored

(* Where the element at j was, before the one at k was removed.             *)
Skip(j, k) == IF j < k THEN j ELSE j + 1

LEMMA RemovedAt ==
  ASSUME NEW U, NEW s \in Seq(U), NEW k \in 1 .. Len(s)
  PROVE  /\ RemoveAt(s, k) \in Seq(U)
         /\ Len(RemoveAt(s, k)) = Len(s) - 1
         /\ \A j \in 1 .. Len(s) - 1 : RemoveAt(s, k)[j] = s[Skip(j, k)]
<1> DEFINE n == Len(s)
           a == SubSeq(s, 1, k - 1)
           b == SubSeq(s, k + 1, n)
           r == a \o b
<1>1. n \in Nat /\ k \in Nat /\ k - 1 \in Nat /\ 1 <= k /\ k <= n /\ n - k \in Nat
  OBVIOUS
<1>2. a \in Seq(U) /\ Len(a) = k - 1 /\ \A i \in 1 .. k - 1 : a[i] = s[i]
  BY <1>1
<1>3. b \in Seq(U) /\ Len(b) = n - k /\ \A i \in 1 .. n - k : b[i] = s[k + 1 + i - 1]
  BY <1>1
<1>4. RemoveAt(s, k) = r
  BY DEF RemoveAt
<1> HIDE DEF a, b, n
<1>5. /\ r \in Seq(U) /\ Len(r) = (k - 1) + (n - k)
      /\ \A i \in 1 .. (k - 1) + (n - k) : r[i] = IF i <= k - 1 THEN a[i] ELSE b[i - (k - 1)]
  <2>1. /\ r \in Seq(U) /\ Len(r) = Len(a) + Len(b)
        /\ \A i \in 1 .. Len(a) + Len(b) : r[i] = IF i <= Len(a) THEN a[i] ELSE b[i - Len(a)]
    BY <1>2, <1>3, ConcatProperties
  <2> HIDE DEF r
  <2>2. QED
    BY <1>2, <1>3, <2>1
<1> HIDE DEF r
<1>6. ASSUME NEW j \in 1 .. n - 1
      PROVE  r[j] = s[Skip(j, k)]
  <2>1. j \in 1 .. (k - 1) + (n - k)
    BY <1>1
  <2>2. CASE j < k
    <3>1. j <= k - 1 /\ j \in 1 .. k - 1
      BY <1>1, <2>2
    <3>2. QED
      BY <1>2, <1>5, <2>1, <2>2, <3>1 DEF Skip
  <2>3. CASE ~(j < k)
    <3>1. ~(j <= k - 1) /\ j - (k - 1) \in 1 .. n - k /\ k + 1 + (j - (k - 1)) - 1 = j + 1
      BY <1>1, <2>3
    <3>2. QED
      BY <1>3, <1>5, <2>1, <2>3, <3>1 DEF Skip
  <2>4. QED
    BY <2>2, <2>3
<1>7. (k - 1) + (n - k) = n - 1
  BY <1>1
<1>8. QED
  BY <1>4, <1>5, <1>6, <1>7 DEF n

LEMMA Skipping ==
  ASSUME NEW n \in Nat, NEW k \in 1 .. n
  PROVE  /\ \A j \in 1 .. n - 1 : Skip(j, k) \in 1 .. n /\ Skip(j, k) # k
         /\ \A i, j \in 1 .. n - 1 : i # j => Skip(i, k) # Skip(j, k)
         /\ \A i \in 1 .. n : i # k => \E j \in 1 .. n - 1 : Skip(j, k) = i
<1>1. ASSUME NEW i \in 1 .. n, i # k
      PROVE  \E j \in 1 .. n - 1 : Skip(j, k) = i
  <2>1. CASE i < k
    <3>1. i \in 1 .. n - 1 /\ Skip(i, k) = i
      BY <2>1 DEF Skip
    <3>2. QED
      BY <3>1
  <2>2. CASE ~(i < k)
    <3>1. i - 1 \in 1 .. n - 1 /\ Skip(i - 1, k) = i
      BY <1>1, <2>2 DEF Skip
    <3>2. QED
      BY <3>1
  <2>3. QED
    BY <2>1, <2>2
<1>2. /\ \A j \in 1 .. n - 1 : Skip(j, k) \in 1 .. n /\ Skip(j, k) # k
      /\ \A i, j \in 1 .. n - 1 : i # j => Skip(i, k) # Skip(j, k)
  BY DEF Skip
<1>3. QED
  BY <1>1, <1>2

LEMMA Appended ==
  ASSUME NEW U, NEW s \in Seq(U), NEW e \in U
  PROVE  /\ Append(s, e) \in Seq(U) /\ Len(Append(s, e)) = Len(s) + 1
         /\ \A i \in 1 .. Len(s) : Append(s, e)[i] = s[i]
         /\ Append(s, e)[Len(s) + 1] = e
  OBVIOUS

(***************************************************************************)
(* Removing a file.                                                        *)
(***************************************************************************)
HoleOf(file) == [position |-> file.position, size |-> file.size]

LEMMA RemovedTiled ==
  ASSUME NEW files \in Seq(Entries), NEW queue \in Seq(Holes), NEW idx \in Nat,
         Tiled(files, queue, idx), NEW k \in 1 .. Len(files)
  PROVE  /\ HoleOf(files[k]) \in Holes
         /\ Tiled(RemoveAt(files, k), Append(queue, HoleOf(files[k])), idx)
<1> DEFINE n == Len(files)
           m == Len(queue)
           r == RemoveAt(files, k)
           h == HoleOf(files[k])
           q == Append(queue, h)
<1>1. n \in Nat /\ m \in Nat /\ k \in 1 .. n
  OBVIOUS
<1>2. h \in Holes /\ h.position = files[k].position /\ h.size = files[k].size
  BY Numbers DEF HoleOf, Holes
<1>3. Len(r) = n - 1 /\ \A j \in 1 .. n - 1 : r[j] = files[Skip(j, k)]
  BY RemovedAt
<1> HIDE DEF h
<1>4. Len(q) = m + 1 /\ (\A i \in 1 .. m : q[i] = queue[i]) /\ q[m + 1] = h
  BY <1>2, Appended
<1>5. /\ \A j \in 1 .. n - 1 : Skip(j, k) \in 1 .. n /\ Skip(j, k) # k
      /\ \A i, j \in 1 .. n - 1 : i # j => Skip(i, k) # Skip(j, k)
      /\ \A i \in 1 .. n : i # k => \E j \in 1 .. n - 1 : Skip(j, k) = i
  BY <1>1, Skipping
<1>6. \A i \in 1 .. m + 1 : i \in 1 .. m \/ i = m + 1
  BY <1>1
<1>7. \A p : In(p, h) <=> In(p, files[k])
  BY <1>2 DEF In
<1> HIDE DEF n, m, r, q
<1>8. \A i \in 1 .. n : Within(files[i], idx)
  BY DEF Tiled, n
<1>9. \A i \in 1 .. m : Within(queue[i], idx)
  BY DEF Tiled, m
<1>10. \A i, j \in 1 .. n : i # j => Apart(files[i], files[j])
  BY DEF Tiled, n
<1>11. \A i, j \in 1 .. m : i # j => Apart(queue[i], queue[j])
  BY DEF Tiled, m
<1>12. \A i \in 1 .. n, j \in 1 .. m : Apart(files[i], queue[j])
  BY DEF Tiled, n, m
<1>13. \A p \in 1 .. idx - 1 :
         (\E i \in 1 .. n : In(p, files[i])) \/ (\E j \in 1 .. m : In(p, queue[j]))
  BY DEF Tiled, n, m
<1>14. \A i \in 1 .. n - 1 : Within(r[i], idx)
  BY <1>3, <1>5, <1>8
<1>15. \A i \in 1 .. m + 1 : Within(q[i], idx)
  <2>1. Within(h, idx)
    BY <1>1, <1>2, <1>8 DEF Within
  <2>2. QED
    BY <1>4, <1>6, <1>9, <2>1
<1>16. \A i, j \in 1 .. n - 1 : i # j => Apart(r[i], r[j])
  BY <1>3, <1>5, <1>10
<1>17. \A i \in 1 .. m : Apart(h, queue[i]) /\ Apart(queue[i], h)
  BY <1>1, <1>2, <1>12 DEF Apart
<1>18. \A i, j \in 1 .. m + 1 : i # j => Apart(q[i], q[j])
  BY <1>4, <1>6, <1>11, <1>17
<1>19. \A i \in 1 .. n - 1, j \in 1 .. m + 1 : Apart(r[i], q[j])
  <2>1. ASSUME NEW i \in 1 .. n - 1
        PROVE  Apart(r[i], h)
    <3>1. Apart(files[Skip(i, k)], files[k])
      BY <1>1, <1>5, <1>10
    <3>2. QED
      BY <1>2, <1>3, <3>1 DEF Apart
  <2>2. \A i \in 1 .. n - 1, j \in 1 .. m : Apart(r[i], queue[j])
    BY <1>3, <1>5, <1>12
  <2>3. QED
    BY <1>4, <1>6, <2>1, <2>2
<1>20. ASSUME NEW p \in 1 .. idx - 1
       PROVE  (\E i \in 1 .. n - 1 : In(p, r[i])) \/ (\E j \in 1 .. m + 1 : In(p, q[j]))
  <2>1. CASE \E j \in 1 .. m : In(p, queue[j])
    <3>1. \A j \in 1 .. m : j \in 1 .. m + 1
      BY <1>1
    <3>2. QED
      BY <1>4, <2>1, <3>1
  <2>2. CASE \E i \in 1 .. n : i # k /\ In(p, files[i])
    BY <1>3, <1>5, <2>2
  <2>3. CASE In(p, files[k])
    <3>1. m + 1 \in 1 .. m + 1
      BY <1>1
    <3>2. QED
      BY <1>4, <1>7, <2>3, <3>1
  <2>4. QED
    BY <1>13, <2>1, <2>2, <2>3
<1>21. Tiled(r, q, idx)
  BY <1>3, <1>4, <1>14, <1>15, <1>16, <1>18, <1>19, <1>20 DEF Tiled
<1>22. QED
  BY <1>2, <1>21 DEF r, q, h

LEMMA RemovedKept ==
  ASSUME NEW files \in Seq(Entries), NEW idx \in Nat, NEW units,
         NEW st \in [Ids -> Stored],
         Kept(files, idx, units, st), NEW k \in 1 .. Len(files)
  PROVE  Kept(RemoveAt(files, k), idx, units, [st EXCEPT ![files[k].id] = Nothing])
<1> DEFINE n == Len(files)
           r == RemoveAt(files, k)
           c == files[k].id
           t == [st EXCEPT ![c] = Nothing]
<1>1. n \in Nat /\ k \in 1 .. n
  OBVIOUS
<1>2. Len(r) = n - 1 /\ \A j \in 1 .. n - 1 : r[j] = files[Skip(j, k)]
  BY RemovedAt
<1>3. /\ \A j \in 1 .. n - 1 : Skip(j, k) \in 1 .. n /\ Skip(j, k) # k
      /\ \A i, j \in 1 .. n - 1 : i # j => Skip(i, k) # Skip(j, k)
      /\ \A i \in 1 .. n : i # k => \E j \in 1 .. n - 1 : Skip(j, k) = i
  <2> HIDE DEF n
  <2>1. n \in Nat /\ k \in 1 .. n
    BY <1>1
  <2>2. \A j \in 1 .. n - 1 : Skip(j, k) \in 1 .. n /\ Skip(j, k) # k
    BY <2>1, Skipping
  <2>3. \A i, j \in 1 .. n - 1 : i # j => Skip(i, k) # Skip(j, k)
    BY <2>1, Skipping
  <2>4. \A i \in 1 .. n : i # k => \E j \in 1 .. n - 1 : Skip(j, k) = i
    BY <2>1, Skipping
  <2>5. QED
    BY <2>2, <2>3, <2>4
<1>4. c \in Ids /\ \A i \in 1 .. n : files[i].id \in Ids
  BY Numbers
<1>5. t[c] = Nothing /\ \A id \in Ids : id # c => t[id] = st[id]
  BY <1>4
<1> HIDE DEF n, r, t, c
<1>6. \A i, j \in 1 .. n : files[i].id = files[j].id => i = j
  BY DEF Kept, n
<1>7. \A i \in 1 .. n :
        st[files[i].id] # Nothing /\ HoldsFile(units, files[i], st[files[i].id])
  BY DEF Kept, n
<1>8. \A id \in Ids : st[id] # Nothing => \E i \in 1 .. n : files[i].id = id
  BY DEF Kept, n
<1>9. \A i \in 1 .. n : i # k => files[i].id # c
  BY <1>1, <1>6 DEF c
<1>10. \A i, j \in 1 .. n - 1 : r[i].id = r[j].id => i = j
  BY <1>2, <1>3, <1>6
<1>11. ASSUME NEW i \in 1 .. n - 1
       PROVE  t[r[i].id] # Nothing /\ HoldsFile(units, r[i], t[r[i].id])
  <2>1. t[files[Skip(i, k)].id] = st[files[Skip(i, k)].id]
    BY <1>3, <1>4, <1>5, <1>9
  <2>2. QED
    BY <1>2, <1>3, <1>7, <2>1
<1>12. ASSUME NEW id \in Ids, t[id] # Nothing
       PROVE  \E i \in 1 .. n - 1 : r[i].id = id
  <2>1. id # c /\ st[id] # Nothing
    BY <1>5, <1>12
  <2>2. PICK i \in 1 .. n : files[i].id = id
    BY <1>8, <2>1
  <2>3. i # k
    BY <2>1, <2>2 DEF c
  <2>4. QED
    BY <1>2, <1>3, <2>2, <2>3
<1>13. Kept(r, idx, units, t)
  BY <1>2, <1>10, <1>11, <1>12 DEF Kept
<1>14. QED
  BY <1>13 DEF r, t, c

(***************************************************************************)
(* Collapsing a hole.                                                      *)
(***************************************************************************)

(* The holes that are joined to one can be replaced by it.                 *)
LEMMA OneHole ==
  ASSUME NEW files \in Seq(Entries), NEW queue \in Seq(Holes), NEW idx \in Nat,
         Tiled(files, queue, idx), queue # <<>>, NEW h \in Holes,
         \A p \in Nat : In(p, h) <=> \E i \in 1 .. Len(queue) : In(p, queue[i])
  PROVE  /\ Within(h, idx)
         /\ \A i \in 1 .. Len(files) : Apart(files[i], h)
         /\ \A p \in 1 .. idx - 1 :
              (\E i \in 1 .. Len(files) : In(p, files[i])) \/ In(p, h)
<1> DEFINE m == Len(queue)
<1>1. m \in Nat /\ m # 0 /\ 1 \in 1 .. m
  <2>1. m \in Nat /\ m # 0
    OBVIOUS
  <2>2. QED
    BY <2>1
<1>2. h.position \in Nat /\ h.size \in Nat
  BY DEF Holes
<1>3. \A i \in 1 .. m : queue[i].position \in Nat /\ queue[i].size \in Nat
  BY Numbers
<1>4. \A i \in 1 .. m : Within(queue[i], idx)
  BY DEF Tiled
<1>5. \A p \in Nat : In(p, h) <=> \E i \in 1 .. m : In(p, queue[i])
  OBVIOUS
<1>6. \A i \in 1 .. Len(files), j \in 1 .. m : Apart(files[i], queue[j])
  BY DEF Tiled
<1> HIDE DEF m
<1>7. h.size >= 1
  <2>1. In(queue[1].position, queue[1])
    BY <1>1, <1>3, <1>4 DEF In, Within
  <2>2. In(queue[1].position, h)
    BY <1>1, <1>3, <1>5, <2>1
  <2>3. QED
    BY <1>1, <1>2, <1>3, <2>2 DEF In
<1>8. \A p \in Nat : In(p, h) => p >= 1 /\ p + 1 <= idx
  <2>1. ASSUME NEW p \in Nat, In(p, h)
        PROVE  p >= 1 /\ p + 1 <= idx
    <3>1. PICK i \in 1 .. m : In(p, queue[i])
      BY <1>5, <2>1
    <3>2. QED
      BY <1>3, <1>4, <3>1 DEF In, Within
  <2>2. QED
    BY <2>1
<1>9. Within(h, idx)
  <2>1. In(h.position, h) /\ In(h.position + h.size - 1, h)
        /\ h.position + h.size - 1 \in Nat
    BY <1>2, <1>7 DEF In
  <2>2. h.position >= 1 /\ (h.position + h.size - 1) + 1 <= idx
    BY <1>2, <1>8, <2>1
  <2>3. QED
    BY <1>2, <1>7, <2>2 DEF Within
<1>10. ASSUME NEW i \in 1 .. Len(files)
       PROVE  Apart(files[i], h)
  <2> DEFINE f == files[i]
             p == IF f.position > h.position THEN f.position ELSE h.position
  <2>1. f.position \in Nat /\ f.size \in Nat
    BY Numbers
  <2>2. \A j \in 1 .. m : Apart(f, queue[j])
    BY <1>6
  <2>3. f.size >= 1
    BY DEF Tiled, Within
  <2> HIDE DEF f
  <2>4. SUFFICES ASSUME ~Apart(f, h) PROVE FALSE
    BY DEF f
  <2>5. p \in Nat /\ In(p, f) /\ In(p, h)
    <3>1. p \in Nat /\ f.position <= p /\ h.position <= p
      BY <1>2, <2>1
    <3>2. h.position < f.position + f.size /\ f.position < h.position + h.size
      BY <1>2, <2>1, <2>4 DEF Apart
    <3>3. p < f.position + f.size /\ p < h.position + h.size
      BY <1>2, <1>7, <2>1, <2>3, <3>2
    <3>4. QED
      BY <3>1, <3>3 DEF In
  <2> HIDE DEF p
  <2>6. PICK j \in 1 .. m : In(p, queue[j])
    BY <1>5, <2>5
  <2>7. QED
    <3> DEFINE q == queue[j]
    <3>1. q.position \in Nat /\ q.size \in Nat /\ Apart(f, q) /\ In(p, q)
      BY <1>3, <2>2, <2>6
    <3> HIDE DEF q
    <3>2. /\ f.position <= p /\ p < f.position + f.size
          /\ q.position <= p /\ p < q.position + q.size
      BY <2>5, <3>1 DEF In
    <3>3. f.position + f.size <= q.position \/ q.position + q.size <= f.position
      BY <3>1 DEF Apart
    <3>4. QED
      BY <2>1, <2>5, <3>1, <3>2, <3>3, SMTT(15)
<1>11. ASSUME NEW p \in 1 .. idx - 1
       PROVE  (\E i \in 1 .. Len(files) : In(p, files[i])) \/ In(p, h)
  <2>1. \/ \E i \in 1 .. Len(files) : In(p, files[i])
        \/ \E j \in 1 .. m : In(p, queue[j])
    BY DEF Tiled, m
  <2>2. QED
    BY <1>5, <2>1
<1>12. QED
  BY <1>9, <1>10, <1>11

LEMMA ShiftedFiles ==
  ASSUME NEW files \in Seq(Entries), NEW h \in Holes,
         \A i \in 1 .. Len(files) : Apart(files[i], h)
  PROVE  /\ ShiftFiles(files, h) \in Seq(Entries)
         /\ Len(ShiftFiles(files, h)) = Len(files)
         /\ \A i \in 1 .. Len(files) :
              /\ ShiftFiles(files, h)[i].id = files[i].id
              /\ ShiftFiles(files, h)[i].size = files[i].size
              /\ ShiftFiles(files, h)[i].flags = files[i].flags
              /\ ShiftFiles(files, h)[i].position =
                   IF files[i].position > h.position
                   THEN files[i].position - h.size ELSE files[i].position
<1> DEFINE n == Len(files)
           New(f) == IF f.position > h.position
                     THEN [f EXCEPT !.position = @ - h.size] ELSE f
           r == [i \in 1 .. n |-> New(files[i])]
<1>1. n \in Nat /\ DOMAIN files = 1 .. n
  OBVIOUS
<1>2. ShiftFiles(files, h) = r
  BY <1>1 DEF ShiftFiles
<1>3. h.position \in Nat /\ h.size \in Nat
  BY DEF Holes
<1>4. ASSUME NEW f \in Entries, Apart(f, h)
      PROVE  /\ New(f) \in Entries
             /\ New(f).id = f.id /\ New(f).size = f.size /\ New(f).flags = f.flags
             /\ New(f).position =
                  IF f.position > h.position THEN f.position - h.size ELSE f.position
  <2>1. f.position \in Nat /\ f.size \in Nat
    BY DEF Entries
  <2>2. f.position > h.position => f.position - h.size \in Nat
    BY <1>3, <1>4, <2>1 DEF Apart
  <2>3. CASE f.position > h.position
    <3>1. New(f) = [f EXCEPT !.position = f.position - h.size]
      BY <2>3
    <3> DEFINE x == f.position - h.size
    <3>2. x \in Nat
      BY <2>2, <2>3
    <3> HIDE DEF x
    <3>3. /\ [f EXCEPT !.position = x] \in Entries
          /\ [f EXCEPT !.position = x].id = f.id
          /\ [f EXCEPT !.position = x].size = f.size
          /\ [f EXCEPT !.position = x].flags = f.flags
          /\ [f EXCEPT !.position = x].position = x
      BY <3>2 DEF Entries
    <3>4. New(f) = [f EXCEPT !.position = x]
      BY <3>1 DEF x
    <3> HIDE DEF New
    <3>5. New(f).position = f.position - h.size
      BY <3>3, <3>4 DEF x
    <3>6. QED
      BY <2>3, <3>3, <3>4, <3>5
  <2>4. CASE ~(f.position > h.position)
    BY <2>4
  <2>5. QED
    BY <2>3, <2>4
<1> HIDE DEF New
<1>5. \A i \in 1 .. n : files[i] \in Entries /\ r[i] = New(files[i])
  BY Numbers
<1>6. \A i \in 1 .. n : r[i] \in Entries
  BY <1>4, <1>5
<1>7. r \in Seq(Entries) /\ Len(r) = n
  BY <1>1, <1>4, <1>5
<1> HIDE DEF r, n
<1>8. \A i \in 1 .. n :
        /\ r[i].id = files[i].id
        /\ r[i].size = files[i].size
        /\ r[i].flags = files[i].flags
        /\ r[i].position = IF files[i].position > h.position
                           THEN files[i].position - h.size ELSE files[i].position
  BY <1>4, <1>5 DEF n
<1>9. QED
  BY <1>2, <1>7, <1>8 DEF n

LEMMA CollapsedTiled ==
  ASSUME NEW files \in Seq(Entries), NEW h \in Holes, NEW idx \in Nat,
         Within(h, idx),
         \A i \in 1 .. Len(files) : Within(files[i], idx) /\ Apart(files[i], h),
         \A i, j \in 1 .. Len(files) : i # j => Apart(files[i], files[j]),
         \A p \in 1 .. idx - 1 :
           (\E i \in 1 .. Len(files) : In(p, files[i])) \/ In(p, h)
  PROVE  /\ idx - h.size \in Nat /\ idx - h.size >= 1
         /\ Tiled(ShiftFiles(files, h), <<>>, idx - h.size)
<1> DEFINE n == Len(files)
           r == ShiftFiles(files, h)
           rest == idx - h.size
<1>1. n \in Nat /\ h.position \in Nat /\ h.size \in Nat
  BY DEF Holes
<1>2. \A i \in 1 .. n : files[i].position \in Nat /\ files[i].size \in Nat
  BY Numbers
<1>3. /\ Len(r) = n
      /\ \A i \in 1 .. n :
           /\ r[i].size = files[i].size
           /\ r[i].position = IF files[i].position > h.position
                              THEN files[i].position - h.size ELSE files[i].position
  BY ShiftedFiles
<1>4. \A i \in 1 .. n : Within(files[i], idx) /\ Apart(files[i], h)
  OBVIOUS
<1>5. \A i, j \in 1 .. n : i # j => Apart(files[i], files[j])
  OBVIOUS
<1>6. \A p \in 1 .. idx - 1 : (\E i \in 1 .. n : In(p, files[i])) \/ In(p, h)
  OBVIOUS
<1> HIDE DEF n, r
<1>7. rest \in Nat /\ rest >= 1
  BY <1>1 DEF Within
<1>8. /\ h.position >= 1 /\ h.size >= 1 /\ h.position + h.size <= idx
      /\ \A i \in 1 .. n :
           /\ files[i].position >= 1 /\ files[i].size >= 1
           /\ files[i].position + files[i].size <= idx
           /\ \/ /\ files[i].position + files[i].size <= h.position
                 /\ r[i].position = files[i].position
              \/ /\ h.position + h.size <= files[i].position
                 /\ r[i].position = files[i].position - h.size
  <2>1. h.position >= 1 /\ h.size >= 1 /\ h.position + h.size <= idx
    BY DEF Within
  <2>2. ASSUME NEW i \in 1 .. n
        PROVE  /\ files[i].position >= 1 /\ files[i].size >= 1
               /\ files[i].position + files[i].size <= idx
               /\ \/ /\ files[i].position + files[i].size <= h.position
                     /\ r[i].position = files[i].position
                  \/ /\ h.position + h.size <= files[i].position
                     /\ r[i].position = files[i].position - h.size
    <3> DEFINE x == files[i].position
               k == files[i].size
               c == h.position
               d == h.size
               y == r[i].position
    <3>1. x \in Nat /\ k \in Nat /\ c \in Nat /\ d \in Nat
      BY <1>1, <1>2
    <3>2. x >= 1 /\ k >= 1 /\ x + k <= idx /\ (x + k <= c \/ c + d <= x)
      BY <1>4 DEF Within, Apart
    <3>3. y = IF x > c THEN x - d ELSE x
      BY <1>3
    <3>4. d >= 1
      BY <2>1
    <3> HIDE DEF x, k, c, d, y
    <3>5. (x + k <= c /\ y = x) \/ (c + d <= x /\ y = x - d)
      BY <3>1, <3>2, <3>3, <3>4
    <3>6. QED
      BY <3>2, <3>5 DEF x, k, c, d, y
  <2>3. QED
    BY <2>1, <2>2
<1>9. /\ \A i \in 1 .. n : Within(r[i], rest)
      /\ \A i, j \in 1 .. n : i # j => Apart(r[i], r[j])
  <2>1. ASSUME NEW i \in 1 .. n
        PROVE  Within(r[i], rest)
    <3> DEFINE x == files[i].position
               k == files[i].size
               c == h.position
               d == h.size
               y == r[i].position
    <3>1. x \in Nat /\ k \in Nat /\ c \in Nat /\ d \in Nat
      BY <1>1, <1>2
    <3>2. /\ x >= 1 /\ k >= 1 /\ x + k <= idx /\ c >= 1 /\ d >= 1 /\ c + d <= idx
          /\ (x + k <= c /\ y = x) \/ (c + d <= x /\ y = x - d)
      BY <1>8
    <3>3. r[i].size = k /\ rest = idx - d
      BY <1>3
    <3> HIDE DEF x, k, c, d, rest
    <3>4. y >= 1 /\ k >= 1 /\ y + k <= idx - d
      <4> HIDE DEF y
      <4>1. QED
        BY <3>1, <3>2
    <3>5. QED
      BY <3>3, <3>4 DEF Within
  <2>2. ASSUME NEW i \in 1 .. n, NEW j \in 1 .. n, i # j
        PROVE  Apart(r[i], r[j])
    <3> DEFINE x == files[i].position
               k == files[i].size
               y == r[i].position
               u == files[j].position
               m == files[j].size
               z == r[j].position
               c == h.position
               d == h.size
    <3>1. /\ x \in Nat /\ k \in Nat /\ u \in Nat /\ m \in Nat
          /\ c \in Nat /\ d \in Nat
      BY <1>1, <1>2
    <3>2. /\ (x + k <= c /\ y = x) \/ (c + d <= x /\ y = x - d)
          /\ (u + m <= c /\ z = u) \/ (c + d <= u /\ z = u - d)
      BY <1>8
    <3>3. x + k <= u \/ u + m <= x
      BY <1>5, <2>2 DEF Apart
    <3>4. r[i].size = k /\ r[j].size = m
      BY <1>3
    <3> HIDE DEF x, k, u, m, c, d
    <3>5. y + k <= z \/ z + m <= y
      <4> HIDE DEF y, z
      <4>1. QED
        BY <3>1, <3>2, <3>3
    <3>6. QED
      BY <3>4, <3>5 DEF Apart
  <2>3. QED
    BY <2>1, <2>2
<1>10. ASSUME NEW p \in 1 .. rest - 1
       PROVE  \E i \in 1 .. n : In(p, r[i])
  <2> DEFINE c == h.position
             d == h.size
  <2>1. /\ c \in Nat /\ d \in Nat /\ c >= 1 /\ d >= 1 /\ c + d <= idx
        /\ rest = idx - d /\ p \in Nat /\ p >= 1 /\ p <= rest - 1 /\ rest \in Nat
    BY <1>1, <1>7, <1>8
  <2>2. \A x : In(x, h) <=> c <= x /\ x < c + d
    BY DEF In
  <2> HIDE DEF c, d, rest
  <2>3. CASE p < c
    <3>1. p \in 1 .. idx - 1 /\ ~In(p, h)
      BY <2>1, <2>2, <2>3
    <3>2. PICK i \in 1 .. n : In(p, files[i])
      BY <1>6, <3>1
    <3> DEFINE x == files[i].position
               k == files[i].size
               y == r[i].position
    <3>3. x \in Nat /\ k \in Nat /\ x <= p /\ p < x + k
      BY <1>2, <3>2 DEF In
    <3>4. (x + k <= c /\ y = x) \/ (c + d <= x /\ y = x - d)
      BY <1>8 DEF c, d
    <3>5. r[i].size = k
      BY <1>3
    <3> HIDE DEF x, k
    <3>6. y <= p /\ p < y + k
      <4> HIDE DEF y
      <4>1. QED
        BY <2>1, <2>3, <3>3, <3>4
    <3>7. In(p, r[i])
      BY <3>5, <3>6 DEF In
    <3>8. QED
      BY <3>7
  <2>4. CASE ~(p < c)
    <3> DEFINE o == p + d
    <3>1. o \in 1 .. idx - 1 /\ ~In(o, h)
      BY <2>1, <2>2, <2>4
    <3>2. o = p + d
      OBVIOUS
    <3> HIDE DEF o
    <3>3. PICK i \in 1 .. n : In(o, files[i])
      BY <1>6, <3>1
    <3> DEFINE x == files[i].position
               k == files[i].size
               y == r[i].position
    <3>4. x \in Nat /\ k \in Nat /\ x <= o /\ o < x + k
      BY <1>2, <3>3 DEF In
    <3>5. (x + k <= c /\ y = x) \/ (c + d <= x /\ y = x - d)
      BY <1>8 DEF c, d
    <3>6. r[i].size = k
      BY <1>3
    <3> HIDE DEF x, k
    <3>7. y <= p /\ p < y + k
      <4> HIDE DEF y
      <4>1. QED
        BY <2>1, <2>4, <3>2, <3>4, <3>5
    <3>8. In(p, r[i])
      BY <3>6, <3>7 DEF In
    <3>9. QED
      BY <3>8
  <2>5. QED
    BY <2>3, <2>4
<1>11. Len(<<>>) = 0 /\ \A i : i \notin 1 .. 0
  OBVIOUS
<1>12. Tiled(r, <<>>, rest)
  BY <1>3, <1>9, <1>10, <1>11 DEF Tiled
<1>13. QED
  BY <1>7, <1>12 DEF r

(* A file that is moved with its units holds what it held.                 *)
LEMMA MovedFile ==
  ASSUME NEW f, NEW r, NEW units, NEW g, NEW what,
         f.position \in Nat, f.size \in Nat, r.position \in Nat, what.size \in Nat,
         r.size = f.size, r.flags = f.flags,
         \A o \in Nat : o < f.size => g[r.position + o] = units[f.position + o],
         HoldsFile(units, f, what)
  PROVE  HoldsFile(g, r, what)
<1> DEFINE a == f.position
           b == r.position
           k == f.size
<1>1. a \in Nat /\ b \in Nat /\ k \in Nat /\ \A o \in Nat : o < k => g[b + o] = units[a + o]
  OBVIOUS
<1> HIDE DEF a, b, k
<1>2. CASE f.flags = 0
  <2>1. k = what.size /\ \A i \in 1 .. what.size : units[a + i - 1] = <<"plain", what.version, i>>
    BY <1>2 DEF HoldsFile, a, k
  <2>2. ASSUME NEW i \in 1 .. what.size
        PROVE  g[b + i - 1] = <<"plain", what.version, i>>
    <3>1. i - 1 \in Nat /\ i - 1 < k /\ b + (i - 1) = b + i - 1 /\ a + (i - 1) = a + i - 1
      BY <1>1, <2>1
    <3>2. g[b + (i - 1)] = units[a + (i - 1)]
      BY <1>1, <3>1
    <3>3. QED
      BY <2>1, <3>1, <3>2
  <2>3. QED
    BY <1>2, <2>1, <2>2 DEF HoldsFile, b, k
<1>3. CASE f.flags # 0
  <2>1. /\ k = 2 /\ units[a] = <<"size", what.version, what.size>>
        /\ units[a + 1] = <<"lz4", what.version, what.size>>
    BY <1>3 DEF HoldsFile, a, k
  <2>2. g[b + 0] = units[a + 0] /\ g[b + 1] = units[a + 1] /\ b + 0 = b /\ a + 0 = a
    BY <1>1, <2>1
  <2>3. /\ g[b] = <<"size", what.version, what.size>>
        /\ g[b + 1] = <<"lz4", what.version, what.size>>
    BY <2>1, <2>2
  <2>4. QED
    BY <1>3, <2>1, <2>3 DEF HoldsFile, b, k
<1>4. QED
  BY <1>2, <1>3

LEMMA CollapsedUnits ==
  ASSUME NEW units \in Seq(Units), NEW h \in Holes,
         h.position >= 1, h.size >= 1, h.position + h.size <= Len(units) + 1
  PROVE  LET moved == MovePart(units, <<h>>, 1)
             g     == SubSeq(moved, 1, Len(moved) - h.size)
         IN  /\ Len(moved) = Len(units)
             /\ g \in Seq(Units)
             /\ Len(g) = Len(units) - h.size
             /\ \A p \in 1 .. Len(units) - h.size :
                  g[p] = IF p < h.position THEN units[p] ELSE units[p + h.size]
<1> DEFINE n == Len(units)
           c == h.position
           d == h.size
           moved == MovePart(units, <<h>>, 1)
           new == [p \in 1 .. n |-> IF c <= p /\ p + d < n + 1 THEN units[p + d] ELSE units[p]]
           g == SubSeq(new, 1, n - d)
<1>1. n \in Nat /\ c \in Nat /\ d \in Nat /\ c >= 1 /\ d >= 1 /\ c + d <= n + 1
  BY DEF Holes
<1>2. moved = new
  <2>1. <<h>>[1] = h /\ Len(<<h>>) = 1 /\ DOMAIN units = 1 .. n
    OBVIOUS
  <2>2. QED
    BY <2>1, Zenon DEF MovePart
<1>3. \A p \in 1 .. n : units[p] \in Units
  OBVIOUS
<1> HIDE DEF n, c, d
<1>4. new \in Seq(Units) /\ Len(new) = n
  <2>1. \A p \in 1 .. n : (IF c <= p /\ p + d < n + 1 THEN units[p + d] ELSE units[p]) \in Units
    <3>1. ASSUME NEW p \in 1 .. n, c <= p, p + d < n + 1 PROVE units[p + d] \in Units
      <4>1. p + d \in 1 .. n
        BY <1>1, <3>1
      <4>2. QED
        BY <1>3, <4>1
    <3>2. QED
      BY <1>3, <3>1
  <2>2. new \in [1 .. n -> Units]
    BY <2>1
  <2>3. \A f \in [1 .. n -> Units] : f \in Seq(Units) /\ Len(f) = n
    BY <1>1
  <2> HIDE DEF new
  <2>4. QED
    BY <2>2, <2>3
<1>5. \A p \in 1 .. n : new[p] = IF c <= p /\ p + d < n + 1 THEN units[p + d] ELSE units[p]
  OBVIOUS
<1> HIDE DEF new
<1>6. /\ g \in Seq(Units) /\ Len(g) = n - d
      /\ \A p \in 1 .. n - d : g[p] = new[p]
  BY <1>1, <1>4
<1>7. ASSUME NEW p \in 1 .. n - d
      PROVE  g[p] = IF p < c THEN units[p] ELSE units[p + d]
  <2>1. p \in 1 .. n /\ p + d < n + 1 /\ (c <= p <=> ~(p < c))
    BY <1>1
  <2>2. g[p] = IF c <= p /\ p + d < n + 1 THEN units[p + d] ELSE units[p]
    BY <1>5, <1>6, <2>1
  <2> HIDE DEF g
  <2>3. QED
    BY <2>1, <2>2
<1> HIDE DEF g
<1>8. Len(moved) = n
  BY <1>2, <1>4
<1>9. SubSeq(moved, 1, Len(moved) - d) = g
  BY <1>2, <1>8 DEF g
<1> HIDE DEF moved
<1>10. QED
  BY <1>6, <1>7, <1>8, <1>9 DEF n, c, d, moved

LEMMA CollapsedKept ==
  ASSUME NEW files \in Seq(Entries), NEW h \in Holes, NEW idx \in Nat,
         NEW units, Len(units) \in Nat, NEW g, NEW st \in [Ids -> Stored],
         Within(h, idx), Kept(files, idx, units, st),
         \A i \in 1 .. Len(files) : Within(files[i], idx) /\ Apart(files[i], h),
         Len(g) = Len(units) - h.size,
         \A p \in 1 .. Len(units) - h.size :
           g[p] = IF p < h.position THEN units[p] ELSE units[p + h.size]
  PROVE  Kept(ShiftFiles(files, h), idx - h.size, g, st)
<1> DEFINE n == Len(files)
           r == ShiftFiles(files, h)
           rest == idx - h.size
           c == h.position
           d == h.size
           L == Len(units)
<1>1. /\ n \in Nat /\ c \in Nat /\ d \in Nat /\ L \in Nat
      /\ c >= 1 /\ d >= 1 /\ c + d <= idx /\ idx >= 1 /\ idx - 1 <= L
  BY DEF Holes, Within, Kept
<1>2. /\ r \in Seq(Entries) /\ Len(r) = n
      /\ \A i \in 1 .. n :
           /\ r[i].id = files[i].id /\ r[i].size = files[i].size
           /\ r[i].flags = files[i].flags
           /\ r[i].position = IF files[i].position > c
                              THEN files[i].position - d ELSE files[i].position
  BY ShiftedFiles
<1>3. Len(g) = L - d /\ \A p \in 1 .. L - d : g[p] = IF p < c THEN units[p] ELSE units[p + d]
  OBVIOUS
<1>4. rest = idx - d
  OBVIOUS
<1>5. /\ \A i, j \in 1 .. n : files[i].id = files[j].id => i = j
      /\ \A i \in 1 .. n :
           st[files[i].id] # Nothing /\ HoldsFile(units, files[i], st[files[i].id])
      /\ \A id \in Ids : st[id] # Nothing => \E i \in 1 .. n : files[i].id = id
      /\ \A p \in 1 .. idx - 1 : units[p][1] # "index"
  BY DEF Kept
<1>6. \A i \in 1 .. n : Within(files[i], idx) /\ Apart(files[i], h)
  OBVIOUS
<1> HIDE DEF n, r, L, rest
<1>7. rest >= 1 /\ rest - 1 <= Len(g)
  BY <1>1, <1>3, <1>4
<1>8. ASSUME NEW p \in 1 .. rest - 1
      PROVE  g[p][1] # "index"
  <2> HIDE DEF c, d
  <2>1. p \in 1 .. L - d
    BY <1>1, <1>4
  <2>2. CASE p < c
    <3>1. p \in 1 .. idx - 1 /\ g[p] = units[p]
      BY <1>1, <1>3, <1>4, <2>1, <2>2
    <3>2. QED
      BY <1>5, <3>1
  <2>3. CASE ~(p < c)
    <3>1. p + d \in 1 .. idx - 1 /\ g[p] = units[p + d]
      BY <1>1, <1>3, <1>4, <2>1, <2>3
    <3>2. QED
      BY <1>5, <3>1
  <2>4. QED
    BY <2>2, <2>3
<1>9. \A i, j \in 1 .. n : r[i].id = r[j].id => i = j
  BY <1>2, <1>5
<1>10. ASSUME NEW i \in 1 .. n
       PROVE  st[r[i].id] # Nothing /\ HoldsFile(g, r[i], st[r[i].id])
  <2> DEFINE what == st[files[i].id]
             x == files[i].position
             k == files[i].size
             y == r[i].position
  <2>1. x \in Nat /\ k \in Nat /\ files[i].id \in Ids
    BY Numbers DEF n
  <2>2. what.size \in Nat
    <3>1. what \in Stored
      BY <2>1
    <3>2. QED
      BY <3>1, StoredNumbers
  <2>3. y \in Nat
    BY <1>2, Numbers
  <2>4. x >= 1 /\ k >= 1 /\ x + k <= idx /\ (x + k <= c \/ c + d <= x)
    BY <1>6 DEF Within, Apart
  <2>5. y = IF x > c THEN x - d ELSE x
    BY <1>2
  <2>6. ASSUME NEW o \in Nat, o < k
        PROVE  g[y + o] = units[x + o]
    <3> HIDE DEF x, k, y, c, d
    <3>1. CASE x + k <= c
      <4>1. y = x
        BY <1>1, <2>1, <2>4, <2>5, <3>1
      <4>2. x + o \in 1 .. L - d /\ x + o < c
        BY <1>1, <2>1, <2>4, <2>6, <3>1
      <4>3. QED
        BY <1>3, <4>1, <4>2
    <3>2. CASE c + d <= x
      <4>1. y = x - d
        BY <1>1, <2>1, <2>4, <2>5, <3>2
      <4>2. y + o \in 1 .. L - d /\ ~(y + o < c) /\ (y + o) + d = x + o
        BY <1>1, <2>1, <2>4, <2>6, <3>2, <4>1
      <4>3. QED
        BY <1>3, <4>2
    <3>3. QED
      BY <2>4, <3>1, <3>2
  <2>7. HoldsFile(units, files[i], what) /\ what # Nothing
    BY <1>5
  <2>8. r[i].size = files[i].size /\ r[i].flags = files[i].flags /\ r[i].id = files[i].id
    BY <1>2
  <2> HIDE DEF what
  <2>9. HoldsFile(g, r[i], what)
    <3>1. \A o \in Nat : o < files[i].size
                         => g[r[i].position + o] = units[files[i].position + o]
      BY <2>6
    <3>2. /\ files[i].position \in Nat /\ files[i].size \in Nat
          /\ r[i].position \in Nat
      BY <2>1, <2>3
    <3> DEFINE a == files[i]
               b == r[i]
    <3>3. /\ a.position \in Nat /\ a.size \in Nat /\ b.position \in Nat
          /\ b.size = a.size /\ b.flags = a.flags /\ HoldsFile(units, a, what)
          /\ \A o \in Nat : o < a.size => g[b.position + o] = units[a.position + o]
      BY <2>7, <2>8, <3>1, <3>2
    <3> HIDE DEF a, b
    <3>4. HoldsFile(g, b, what)
      BY <2>2, <3>3, MovedFile
    <3>5. QED
      BY <3>4 DEF b
  <2>10. QED
    BY <2>7, <2>8, <2>9 DEF what
<1>11. \A id \in Ids : st[id] # Nothing => \E i \in 1 .. n : r[i].id = id
  BY <1>2, <1>5
<1>12. Kept(r, rest, g, st)
  BY <1>2, <1>7, <1>8, <1>9, <1>10, <1>11 DEF Kept
<1>13. QED
  BY <1>12 DEF r, rest

(***************************************************************************)
(* _vfs_defragment, of holes that are joined to one hole at most.           *)
(***************************************************************************)
LEMMA Rewritten ==
  ASSUME NEW v \in Archives, NEW files, NEW queue, NEW idx, NEW units, NEW d,
         d = [v EXCEPT !.files = files, !.removeQueue = queue, !.indexOffset = idx,
                       !.units = units]
  PROVE  /\ d.files = files /\ d.removeQueue = queue /\ d.indexOffset = idx
         /\ d.units = units /\ d.dirty = v.dirty /\ d.header = v.header
         /\ files \in Seq(Entries) /\ queue \in Seq(Holes) /\ idx \in Nat
              /\ units \in Seq(Units) => d \in Archives
  BY DEF Archives

LEMMA ArchiveFields ==
  ASSUME NEW v \in Archives
  PROVE  /\ v.files \in Seq(Entries) /\ v.indexOffset \in Nat /\ v.dirty \in BOOLEAN
         /\ v.removeQueue \in Seq(Holes) /\ v.units \in Seq(Units) /\ v.header \in Nat
  BY DEF Archives

(* What _vfs_defragment computes for no hole, and for one.                  *)
LEMMA DefragmentFields ==
  ASSUME NEW v \in Archives, Merge(v.removeQueue) \in Seq(Holes),
         Len(Merge(v.removeQueue)) <= 1
  PROVE  LET d     == defragment(v)
             gaps  == Merge(v.removeQueue)
             moved == IF gaps = <<>> THEN v.units ELSE MovePart(v.units, gaps, 1)
             total == IF gaps = <<>> THEN 0 ELSE 0 + gaps[1].size
             files == IF gaps = <<>> THEN v.files ELSE ShiftFiles(v.files, gaps[1])
         IN  d = [v EXCEPT !.files = files, !.removeQueue = <<>>,
                           !.indexOffset = v.indexOffset - total,
                           !.units = SubSeq(moved, 1, Len(moved) - total)]
<1> DEFINE gaps == Merge(v.removeQueue)
           q == [i \in DOMAIN gaps |-> i]
           all == FoldLeft(LAMBDA units, i : MovePart(units, gaps, i), v.units, q)
           moved == IF gaps = <<>> THEN v.units ELSE MovePart(v.units, gaps, 1)
           total == IF gaps = <<>> THEN 0 ELSE 0 + gaps[1].size
           files == IF gaps = <<>> THEN v.files ELSE ShiftFiles(v.files, gaps[1])
<1>1. defragment(v) =
        [v EXCEPT !.files = FoldLeft(ShiftFiles, v.files, gaps), !.removeQueue = <<>>,
                  !.indexOffset = v.indexOffset - fragmented_size(gaps),
                  !.units = SubSeq(all, 1, Len(all) - fragmented_size(gaps))]
  BY Zenon DEF defragment
<1>2. gaps \in Seq(Holes) /\ Len(gaps) <= 1
  OBVIOUS
<1> HIDE DEF all, q, gaps, moved, total, files
<1>3. FoldLeft(ShiftFiles, v.files, gaps) = files
  BY <1>2, ShiftFold, Zenon DEF files
<1>4. fragmented_size(gaps) = total
  BY <1>2, SizeFold, Zenon DEF total
<1>5. DOMAIN gaps \subseteq {1} /\ (gaps = <<>> <=> DOMAIN gaps = {})
  BY <1>2, FewElements
<1>6. /\ q \in Seq(Nat) /\ Len(q) <= 1
      /\ gaps = <<>> => q = <<>>
      /\ gaps # <<>> => q # <<>> /\ q[1] = 1
  <2>1. CASE gaps = <<>>
    <3>1. q = <<>>
      BY <2>1 DEF q
    <3>2. <<>> \in Seq(Nat) /\ Len(<<>>) <= 1
      OBVIOUS
    <3>3. QED
      BY <2>1, <3>1, <3>2
  <2>2. CASE gaps # <<>>
    <3>1. DOMAIN gaps = {1}
      BY <1>5, <2>2
    <3>2. q = <<1>>
      BY <3>1 DEF q
    <3>3. <<1>> \in Seq(Nat) /\ Len(<<1>>) <= 1 /\ <<1>> # <<>> /\ <<1>>[1] = 1
      OBVIOUS
    <3>4. QED
      BY <2>2, <3>2, <3>3
  <2>3. QED
    BY <2>1, <2>2
<1>7. all = moved
  <2>1. FoldLeft(LAMBDA units, i : MovePart(units, gaps, i), v.units, q)
          = IF q = <<>> THEN v.units ELSE MovePart(v.units, gaps, q[1])
    <3>1. q \in Seq(Nat) /\ Len(q) <= 1
      BY <1>6
    <3>2. QED
      BY <3>1, MoveFold
  <2>2. all = IF q = <<>> THEN v.units ELSE MovePart(v.units, gaps, q[1])
    BY <2>1, Zenon DEF all
  <2>3. CASE gaps = <<>>
    BY <1>6, <2>2, <2>3 DEF moved
  <2>4. CASE gaps # <<>>
    BY <1>6, <2>2, <2>4 DEF moved
  <2>5. QED
    BY <2>3, <2>4
<1>8. defragment(v) =
        [v EXCEPT !.files = files, !.removeQueue = <<>>,
                  !.indexOffset = v.indexOffset - total,
                  !.units = SubSeq(moved, 1, Len(moved) - total)]
  BY <1>1, <1>3, <1>4, <1>7, Zenon
<1>9. QED
  BY <1>8, Zenon DEF gaps, moved, total, files

LEMMA DefragmentNone ==
  ASSUME NEW v \in Archives, v.removeQueue = <<>>
  PROVE  /\ defragment(v) \in Archives
         /\ defragment(v).files = v.files /\ defragment(v).indexOffset = v.indexOffset
         /\ defragment(v).units = v.units /\ defragment(v).removeQueue = <<>>
         /\ defragment(v).dirty = v.dirty /\ defragment(v).header = v.header
<1> DEFINE d == defragment(v)
           gaps == Merge(v.removeQueue)
<1>1. gaps = <<>>
  <2>1. v.removeQueue \in Seq(Holes)
    BY ArchiveFields
  <2>2. QED
    BY <2>1, MergedToOne
<1>2. gaps \in Seq(Holes) /\ Len(gaps) <= 1
  <2>1. <<>> \in Seq(Holes) /\ Len(<<>>) <= 1
    OBVIOUS
  <2>2. QED
    BY <1>1, <2>1
<1>3. d = LET moved == IF gaps = <<>> THEN v.units ELSE MovePart(v.units, gaps, 1)
              total == IF gaps = <<>> THEN 0 ELSE 0 + gaps[1].size
              files == IF gaps = <<>> THEN v.files ELSE ShiftFiles(v.files, gaps[1])
          IN  [v EXCEPT !.files = files, !.removeQueue = <<>>,
                        !.indexOffset = v.indexOffset - total,
                        !.units = SubSeq(moved, 1, Len(moved) - total)]
  BY <1>2, DefragmentFields, Zenon
<1> HIDE DEF gaps, d
<1>4. /\ v.files \in Seq(Entries) /\ v.indexOffset \in Nat
      /\ v.units \in Seq(Units) /\ v.removeQueue \in Seq(Holes)
  BY ArchiveFields
<1>5. v.indexOffset - 0 = v.indexOffset /\ SubSeq(v.units, 1, Len(v.units) - 0) = v.units
  BY <1>4
<1>6. d = [v EXCEPT !.files = v.files, !.removeQueue = <<>>,
                    !.indexOffset = v.indexOffset - 0,
                    !.units = SubSeq(v.units, 1, Len(v.units) - 0)]
  BY <1>1, <1>3, Zenon
<1>7. d = [v EXCEPT !.files = v.files, !.removeQueue = <<>>,
                    !.indexOffset = v.indexOffset, !.units = v.units]
  BY <1>5, <1>6, Zenon
<1>8. <<>> \in Seq(Holes)
  OBVIOUS
<1>9. /\ d.files = v.files /\ d.removeQueue = <<>> /\ d.indexOffset = v.indexOffset
      /\ d.units = v.units /\ d.dirty = v.dirty /\ d.header = v.header
      /\ d \in Archives
  BY <1>4, <1>7, <1>8 DEF Archives
<1>10. QED
  BY <1>9 DEF d

LEMMA DefragmentOne ==
  ASSUME NEW v \in Archives, NEW st \in [Ids -> Stored], Sound(v, st),
         v.removeQueue # <<>>, Len(Merge(v.removeQueue)) <= 1
  PROVE  /\ defragment(v) \in Archives /\ Sound(defragment(v), st)
         /\ defragment(v).removeQueue = <<>>
         /\ defragment(v).dirty = v.dirty /\ defragment(v).header = v.header
<1> DEFINE d     == defragment(v)
           gaps  == Merge(v.removeQueue)
           h     == gaps[1]
           moved == MovePart(v.units, <<h>>, 1)
           files == ShiftFiles(v.files, h)
           idx   == v.indexOffset - h.size
           units == SubSeq(moved, 1, Len(moved) - h.size)
<1> HIDE DEF d, gaps, h, moved, files, idx, units
<1>1. /\ v.files \in Seq(Entries) /\ v.indexOffset \in Nat
      /\ v.removeQueue \in Seq(Holes) /\ v.units \in Seq(Units)
  BY ArchiveFields
<1>2. /\ gaps \in Seq(Holes) /\ Len(gaps) = 1
      /\ \A p \in Nat : In(p, h) <=> \E i \in 1 .. Len(v.removeQueue) : In(p, v.removeQueue[i])
  <2>1. gaps \in Seq(Holes) /\ Len(gaps) # 0 /\ Len(gaps) <= 1
    BY <1>1, MergedToOne DEF gaps
  <2>2. Len(gaps) = 1 =>
          \A p \in Nat : In(p, h) <=> \E i \in 1 .. Len(v.removeQueue) : In(p, v.removeQueue[i])
    BY <1>1, MergedToOne DEF gaps, h
  <2>3. Len(gaps) = 1
    <3> DEFINE n == Len(gaps)
    <3>1. n \in Nat /\ n # 0 /\ n <= 1
      BY <2>1
    <3> HIDE DEF n
    <3>2. n = 1
      BY <3>1
    <3>3. QED
      BY <3>2 DEF n
  <2>4. QED
    BY <2>1, <2>2, <2>3
<1>3. h \in Holes /\ gaps = <<h>> /\ gaps # <<>> /\ h.size \in Nat /\ h.position \in Nat
  <2>1. 1 \in 1 .. Len(gaps) /\ gaps # <<>>
    <3>1. gaps \in Seq(Holes) /\ Len(gaps) = 1 /\ 1 \in 1 .. 1
      BY <1>2
    <3>2. gaps # <<>>
      <4>1. Len(<<>>) # 1
        OBVIOUS
      <4>2. QED
        BY <3>1, <4>1, Zenon
    <3>3. 1 \in 1 .. Len(gaps)
      BY <3>1, Zenon
    <3>4. QED
      BY <3>2, <3>3
  <2>2. gaps[1] \in Holes /\ gaps = <<gaps[1]>>
    BY <1>2, <2>1
  <2>3. h \in Holes /\ gaps = <<h>>
    BY <2>2 DEF h
  <2>4. QED
    BY <2>1, <2>3 DEF Holes
<1>4. d = [v EXCEPT !.files = files, !.removeQueue = <<>>, !.indexOffset = idx,
                    !.units = units]
  <2>1. gaps = Merge(v.removeQueue) /\ Len(gaps) <= 1
    BY <1>2 DEF gaps
  <2>2. d = LET mv == IF gaps = <<>> THEN v.units ELSE MovePart(v.units, gaps, 1)
                tl == IF gaps = <<>> THEN 0 ELSE 0 + gaps[1].size
                fs == IF gaps = <<>> THEN v.files ELSE ShiftFiles(v.files, gaps[1])
            IN  [v EXCEPT !.files = fs, !.removeQueue = <<>>,
                          !.indexOffset = v.indexOffset - tl,
                          !.units = SubSeq(mv, 1, Len(mv) - tl)]
    BY <1>2, <2>1, DefragmentFields, Zenon DEF d, gaps
  <2>3. d = [v EXCEPT !.files = ShiftFiles(v.files, h), !.removeQueue = <<>>,
                      !.indexOffset = v.indexOffset - (0 + h.size),
                      !.units = SubSeq(moved, 1, Len(moved) - (0 + h.size))]
    <3>1. moved = MovePart(v.units, gaps, 1) /\ h = gaps[1]
      BY <1>3, Zenon DEF moved, h
    <3>2. QED
      BY <1>3, <2>2, <3>1, Zenon
  <2>4. 0 + h.size = h.size
    BY <1>3
  <2>5. QED
    BY <2>3, <2>4, Zenon DEF files, idx, units
<1>5. /\ Tiled(v.files, v.removeQueue, v.indexOffset)
      /\ Kept(v.files, v.indexOffset, v.units, st)
  BY DEF Sound
<1>6. /\ Within(h, v.indexOffset)
      /\ \A i \in 1 .. Len(v.files) : Apart(v.files[i], h)
      /\ \A p \in 1 .. v.indexOffset - 1 :
           (\E i \in 1 .. Len(v.files) : In(p, v.files[i])) \/ In(p, h)
  BY <1>1, <1>2, <1>3, <1>5, OneHole
<1>7. /\ \A i \in 1 .. Len(v.files) : Within(v.files[i], v.indexOffset)
      /\ \A i, j \in 1 .. Len(v.files) : i # j => Apart(v.files[i], v.files[j])
  BY <1>5 DEF Tiled
<1>8. \A i \in 1 .. Len(v.files) : Within(v.files[i], v.indexOffset) /\ Apart(v.files[i], h)
  BY <1>6, <1>7
<1>9. idx \in Nat /\ Tiled(files, <<>>, idx)
  BY <1>1, <1>3, <1>6, <1>7, <1>8, CollapsedTiled DEF idx, files
<1>10. h.position >= 1 /\ h.size >= 1 /\ h.position + h.size <= Len(v.units) + 1
  <2>1. v.indexOffset - 1 <= Len(v.units)
    BY <1>5 DEF Kept
  <2>2. Len(v.units) \in Nat
    BY <1>1
  <2>3. h.position >= 1 /\ h.size >= 1 /\ h.position + h.size <= v.indexOffset
    BY <1>6 DEF Within
  <2>4. QED
    BY <1>1, <1>3, <2>1, <2>2, <2>3
<1>11. /\ units \in Seq(Units) /\ Len(units) = Len(v.units) - h.size
       /\ \A p \in 1 .. Len(v.units) - h.size :
            units[p] = IF p < h.position THEN v.units[p] ELSE v.units[p + h.size]
  BY <1>1, <1>3, <1>10, CollapsedUnits DEF units, moved
<1>12. files \in Seq(Entries)
  BY <1>1, <1>3, <1>6, ShiftedFiles DEF files
<1>13. Kept(files, idx, units, st)
  <2>1. Len(v.units) \in Nat
    BY <1>1
  <2>2. QED
    BY <1>1, <1>3, <1>5, <1>6, <1>8, <1>11, <2>1, CollapsedKept DEF files, idx
<1>14. <<>> \in Seq(Holes)
  OBVIOUS
<1>15. /\ d.files = files /\ d.removeQueue = <<>> /\ d.indexOffset = idx
       /\ d.units = units /\ d.dirty = v.dirty /\ d.header = v.header
       /\ d \in Archives
  BY <1>4, <1>9, <1>11, <1>12, <1>14 DEF Archives
<1>16. Sound(d, st)
  BY <1>9, <1>13, <1>15 DEF Sound
<1>17. QED
  BY <1>15, <1>16 DEF d

LEMMA Defragmented ==
  ASSUME NEW v \in Archives, NEW st \in [Ids -> Stored], Sound(v, st),
         Len(Merge(v.removeQueue)) <= 1
  PROVE  /\ defragment(v) \in Archives /\ Sound(defragment(v), st)
         /\ defragment(v).removeQueue = <<>>
         /\ defragment(v).dirty = v.dirty /\ defragment(v).header = v.header
<1>1. CASE v.removeQueue = <<>>
  <2>1. /\ defragment(v) \in Archives
        /\ defragment(v).files = v.files /\ defragment(v).indexOffset = v.indexOffset
        /\ defragment(v).units = v.units /\ defragment(v).removeQueue = <<>>
        /\ defragment(v).dirty = v.dirty /\ defragment(v).header = v.header
    BY <1>1, DefragmentNone
  <2>2. Sound(defragment(v), st)
    BY <1>1, <2>1 DEF Sound
  <2>3. QED
    BY <2>1, <2>2
<1>2. CASE v.removeQueue # <<>>
  BY <1>2, DefragmentOne
<1>3. QED
  BY <1>1, <1>2

(***************************************************************************)
(* Finding and removing a file.                                            *)
(***************************************************************************)
LEMMA FoundFile ==
  ASSUME NEW v, v.files \in Seq(Entries), NEW id
  PROVE  /\ vfs_exists(v, id) <=> \E i \in 1 .. Len(v.files) : v.files[i].id = id
         /\ vfs_exists(v, id) =>
              /\ find_file(v, id) \in 1 .. Len(v.files)
              /\ v.files[find_file(v, id)].id = id
<1> DEFINE n == Len(v.files)
           I == {i \in 1 .. n : v.files[i].id = id}
<1>1. find_file(v, id) = IF I # {} THEN Min(I) ELSE 0
  BY Zenon DEF find_file, SelectInSeq
<1>2. n \in Nat
  OBVIOUS
<1> HIDE DEF n
<1>3. I \subseteq Nat /\ I \subseteq 1 .. n /\ \A i \in I : v.files[i].id = id
  BY <1>2
<1>4. I # {} <=> \E i \in 1 .. n : v.files[i].id = id
  OBVIOUS
<1> HIDE DEF I
<1>5. CASE I = {}
  BY <1>1, <1>4, <1>5 DEF vfs_exists, n
<1>6. CASE I # {}
  <2>1. \E m \in I : \A j \in I : m <= j
    BY <1>3, <1>6, Least
  <2>2. Min(I) \in I
    BY <2>1 DEF Min
  <2>3. find_file(v, id) \in I
    BY <1>1, <1>6, <2>2
  <2>4. find_file(v, id) \in 1 .. n /\ v.files[find_file(v, id)].id = id
    BY <1>3, <2>3
  <2>5. find_file(v, id) # 0
    BY <1>2, <2>4
  <2>6. QED
    BY <1>4, <1>6, <2>4, <2>5 DEF vfs_exists, n
<1>7. QED
  BY <1>5, <1>6

(* vfs_remove frees the units of the file, and may collapse the holes.      *)
QueueAfter(v, id) == Append(v.removeQueue, HoleOf(v.files[find_file(v, id)]))

LEMMA RemovedFile ==
  ASSUME NEW v \in Archives, NEW st \in [Ids -> Stored], Sound(v, st),
         NEW id \in Ids, vfs_exists(v, id), ~SpoiltByRemove(v, id)
  PROVE  /\ vfs_remove(v, id) \in Archives
         /\ Sound(vfs_remove(v, id), [st EXCEPT ![id] = Nothing])
         /\ vfs_remove(v, id).dirty = TRUE /\ vfs_remove(v, id).header = v.header
<1> DEFINE k == find_file(v, id)
           t == [st EXCEPT ![id] = Nothing]
           queue == QueueAfter(v, id)
           files == RemoveAt(v.files, k)
           gone == [v EXCEPT !.removeQueue = queue, !.files = files, !.dirty = TRUE]
           much == fragmented_size(queue) > DefragLimit
<1>1. /\ v.files \in Seq(Entries) /\ v.indexOffset \in Nat
      /\ v.removeQueue \in Seq(Holes) /\ v.units \in Seq(Units)
  BY ArchiveFields
<1>2. vfs_remove(v, id) = IF fragmented_size(gone.removeQueue) > DefragLimit
                          THEN defragment(gone) ELSE gone
  BY Zenon DEF vfs_remove, QueueAfter, HoleOf
<1>3. k \in 1 .. Len(v.files) /\ v.files[k].id = id
  BY <1>1, FoundFile
<1>4. SpoiltByRemove(v, id) <=> fragmented_size(queue) > DefragLimit /\ Len(Merge(queue)) > 1
  BY Zenon DEF SpoiltByRemove, QueueAfter, HoleOf
<1>5. queue = Append(v.removeQueue, HoleOf(v.files[k]))
  BY DEF QueueAfter
<1> HIDE DEF k, queue, files, t
<1>6. /\ Tiled(v.files, v.removeQueue, v.indexOffset)
      /\ Kept(v.files, v.indexOffset, v.units, st)
  BY DEF Sound
<1>7. /\ HoleOf(v.files[k]) \in Holes
      /\ Tiled(files, queue, v.indexOffset)
  BY <1>1, <1>3, <1>5, <1>6, RemovedTiled DEF files
<1>8. Kept(files, v.indexOffset, v.units, t)
  BY <1>1, <1>3, <1>6, RemovedKept DEF files, t
<1>9. files \in Seq(Entries)
  BY <1>1, <1>3, RemovedAt DEF files
<1>10. queue \in Seq(Holes)
  BY <1>1, <1>5, <1>7
<1>11. /\ gone \in Archives
       /\ gone.files = files /\ gone.removeQueue = queue /\ gone.dirty = TRUE
       /\ gone.indexOffset = v.indexOffset /\ gone.units = v.units
       /\ gone.header = v.header
  BY <1>9, <1>10 DEF Archives
<1> HIDE DEF gone
<1>12. Sound(gone, t)
  BY <1>7, <1>8, <1>11 DEF Sound
<1>13. t \in [Ids -> Stored]
  <2>1. Nothing \in Stored
    BY LimitAssumption DEF Nothing, Stored
  <2>2. QED
    BY <2>1 DEF t
<1>14. CASE fragmented_size(gone.removeQueue) > DefragLimit
  <2>1. ~(Len(Merge(queue)) > 1)
    BY <1>4, <1>11, <1>14
  <2>2. Merge(queue) \in Seq(Holes)
    BY <1>10, MergedToOne
  <2>3. Len(Merge(gone.removeQueue)) <= 1
    <3> DEFINE n == Len(Merge(queue))
    <3>1. n \in Nat /\ ~(n > 1)
      BY <2>1, <2>2
    <3> HIDE DEF n
    <3>2. n <= 1
      BY <3>1
    <3>3. QED
      BY <1>11, <3>2 DEF n
  <2>4. /\ defragment(gone) \in Archives /\ Sound(defragment(gone), t)
        /\ defragment(gone).dirty = TRUE /\ defragment(gone).header = v.header
    BY <1>11, <1>12, <1>13, <2>3, Defragmented
  <2>5. vfs_remove(v, id) = defragment(gone)
    BY <1>2, <1>14, Zenon
  <2>6. QED
    BY <2>4, <2>5 DEF t
<1>15. CASE ~(fragmented_size(gone.removeQueue) > DefragLimit)
  <2>1. vfs_remove(v, id) = gone
    BY <1>2, <1>15, Zenon
  <2>2. QED
    BY <1>11, <1>12, <2>1 DEF t
<1>16. QED
  BY <1>14, <1>15

(***************************************************************************)
(* Writing a file.                                                         *)
(***************************************************************************)
LEMMA UnitTypes ==
  /\ \A n, k \in Nat : /\ \A i \in 1 .. k : <<"plain", n, i>> \in Units
                       /\ <<"size", n, k>> \in Units /\ <<"lz4", n, k>> \in Units
  /\ \A files \in Seq(Entries) : IndexUnit(files) \in Units
<1>1. ASSUME NEW n \in Nat, NEW k \in Nat
      PROVE  /\ \A i \in 1 .. k : <<"plain", n, i>> \in Units
             /\ <<"size", n, k>> \in Units /\ <<"lz4", n, k>> \in Units
  BY DEF Units
<1>2. ASSUME NEW files \in Seq(Entries)
      PROVE  IndexUnit(files) \in Units
  BY DEF IndexUnit, Units
<1>3. QED
  BY <1>1, <1>2

(* What vfs_add writes: no index, and what a file holds.                    *)
Written(n, k, compress) == IF compress THEN Packed(n, k) ELSE Plain(n, k)

LEMMA WrittenUnits ==
  ASSUME NEW n \in Nat, NEW k \in Nat, NEW compress \in BOOLEAN
  PROVE  LET w == Written(n, k, compress)
         IN  /\ w \in Seq(Units) /\ Len(w) = (IF compress THEN 2 ELSE k)
             /\ \A i \in 1 .. Len(w) : w[i][1] # "index"
             /\ ~compress => \A i \in 1 .. k : w[i] = <<"plain", n, i>>
             /\ compress => w[1] = <<"size", n, k>> /\ w[2] = <<"lz4", n, k>>
<1> DEFINE w == Written(n, k, compress)
<1>1. CASE compress
  <2>1. w = << <<"size", n, k>>, <<"lz4", n, k>> >>
    BY <1>1 DEF Written, Packed
  <2>2. <<"size", n, k>> \in Units /\ <<"lz4", n, k>> \in Units
    BY UnitTypes
  <2> DEFINE a == <<"size", n, k>>
             b == <<"lz4", n, k>>
  <2>3. a[1] # "index" /\ b[1] # "index"
    OBVIOUS
  <2> HIDE DEF a, b
  <2>4. w = <<a, b>>
    BY <2>1 DEF a, b
  <2>5. a \in Units /\ b \in Units
    BY <2>2 DEF a, b
  <2> HIDE DEF w
  <2>6. w \in Seq(Units) /\ Len(w) = 2 /\ w[1] = a /\ w[2] = b
    BY <2>4, <2>5
  <2>7. \A i \in 1 .. 2 : i = 1 \/ i = 2
    OBVIOUS
  <2>8. \A i \in 1 .. Len(w) : w[i][1] # "index"
    BY <2>3, <2>6, <2>7
  <2>9. QED
    BY <1>1, <2>6, <2>8 DEF w, a, b
<1>2. CASE ~compress
  <2>1. w = [i \in 1 .. k |-> <<"plain", n, i>>]
    BY <1>2 DEF Written, Plain
  <2>2. \A i \in 1 .. k : <<"plain", n, i>> \in Units
    BY UnitTypes
  <2> HIDE DEF w
  <2>3. w \in [1 .. k -> Units] /\ \A i \in 1 .. k : w[i] = <<"plain", n, i>>
    BY <2>1, <2>2
  <2>4. w \in Seq(Units) /\ Len(w) = k
    BY <2>3
  <2>5. \A i \in 1 .. k : <<"plain", n, i>>[1] # "index"
    OBVIOUS
  <2>6. \A i \in 1 .. Len(w) : w[i][1] # "index"
    BY <2>3, <2>4, <2>5
  <2>7. QED
    BY <1>2, <2>3, <2>4, <2>6 DEF w
<1>3. QED
  BY <1>1, <1>2

LEMMA Overwritten ==
  ASSUME NEW units \in Seq(Units), NEW new \in Seq(Units), NEW pos \in Nat,
         pos >= 1, pos - 1 <= Len(units)
  PROVE  /\ Overwrite(units, pos, new) \in Seq(Units)
         /\ Len(Overwrite(units, pos, new)) >= pos + Len(new) - 1
         /\ \A p \in 1 .. pos - 1 : Overwrite(units, pos, new)[p] = units[p]
         /\ \A i \in 1 .. Len(new) : Overwrite(units, pos, new)[pos + i - 1] = new[i]
<1> DEFINE n == Len(units)
           m == Len(new)
           L == IF n > pos + m - 1 THEN n ELSE pos + m - 1
           r == [p \in 1 .. L |-> IF p >= pos /\ p < pos + m THEN new[p - pos + 1] ELSE units[p]]
<1>1. Overwrite(units, pos, new) = r
  BY DEF Overwrite
<1>2. /\ n \in Nat /\ m \in Nat
      /\ \A i \in 1 .. n : units[i] \in Units
      /\ \A i \in 1 .. m : new[i] \in Units
  OBVIOUS
<1> HIDE DEF n, m
<1>3. L \in Nat /\ L >= pos + m - 1 /\ L >= n /\ (L = n \/ L = pos + m - 1)
  BY <1>2
<1> HIDE DEF L
<1>4. ASSUME NEW p \in 1 .. L
      PROVE  (IF p >= pos /\ p < pos + m THEN new[p - pos + 1] ELSE units[p]) \in Units
  <2>1. CASE p >= pos /\ p < pos + m
    <3>1. p - pos + 1 \in 1 .. m
      BY <1>2, <2>1
    <3>2. QED
      BY <1>2, <2>1, <3>1
  <2>2. CASE ~(p >= pos /\ p < pos + m)
    <3>1. p \in 1 .. n
      BY <1>2, <1>3, <2>2 DEF n
    <3>2. QED
      BY <1>2, <2>2, <3>1
  <2>3. QED
    BY <2>1, <2>2
<1>5. \A p \in 1 .. L : r[p] = IF p >= pos /\ p < pos + m THEN new[p - pos + 1] ELSE units[p]
  OBVIOUS
<1>6. r \in [1 .. L -> Units]
  BY <1>4
<1> HIDE DEF r
<1>7. r \in Seq(Units) /\ Len(r) = L
  BY <1>3, <1>6
<1>8. ASSUME NEW p \in 1 .. pos - 1 PROVE r[p] = units[p]
  <2>1. p \in 1 .. L /\ ~(p >= pos)
    BY <1>2, <1>3
  <2>2. QED
    BY <1>5, <2>1
<1>9. ASSUME NEW i \in 1 .. m PROVE r[pos + i - 1] = new[i]
  <2> DEFINE p == pos + i - 1
  <2>1. p \in 1 .. L /\ p >= pos /\ p < pos + m /\ p - pos + 1 = i
    BY <1>2, <1>3
  <2> HIDE DEF p
  <2>2. r[p] = new[p - pos + 1]
    BY <1>5, <2>1
  <2>3. QED
    BY <2>1, <2>2 DEF p
<1>10. QED
  BY <1>1, <1>3, <1>7, <1>8, <1>9 DEF m

LEMMA AddedTiled ==
  ASSUME NEW files \in Seq(Entries), NEW queue \in Seq(Holes), NEW idx \in Nat,
         idx >= 1, Tiled(files, queue, idx), NEW f \in Entries,
         f.position = idx, f.size >= 1
  PROVE  Tiled(Append(files, f), queue, idx + f.size)
<1> DEFINE n == Len(files)
           m == Len(queue)
           r == Append(files, f)
           k == f.size
<1>1. n \in Nat /\ m \in Nat /\ k \in Nat /\ f.position \in Nat /\ k >= 1
  BY DEF Entries
<1>2. Len(r) = n + 1 /\ (\A i \in 1 .. n : r[i] = files[i]) /\ r[n + 1] = f
  BY Appended
<1>3. /\ \A i \in 1 .. n : files[i].position \in Nat /\ files[i].size \in Nat
      /\ \A i \in 1 .. m : queue[i].position \in Nat /\ queue[i].size \in Nat
  BY Numbers
<1>4. \A i \in 1 .. n + 1 : i \in 1 .. n \/ i = n + 1
  BY <1>1
<1> HIDE DEF n, m, r
<1>5. /\ \A i \in 1 .. n : Within(files[i], idx)
      /\ \A i \in 1 .. m : Within(queue[i], idx)
  BY DEF Tiled, n, m
<1>6. /\ \A i, j \in 1 .. n : i # j => Apart(files[i], files[j])
      /\ \A i, j \in 1 .. m : i # j => Apart(queue[i], queue[j])
      /\ \A i \in 1 .. n, j \in 1 .. m : Apart(files[i], queue[j])
  BY DEF Tiled, n, m
<1>7. \A p \in 1 .. idx - 1 :
        (\E i \in 1 .. n : In(p, files[i])) \/ (\E j \in 1 .. m : In(p, queue[j]))
  BY DEF Tiled, n, m
<1>8. /\ \A i \in 1 .. n : Within(files[i], idx + k) /\ Apart(files[i], f) /\ Apart(f, files[i])
      /\ \A i \in 1 .. m : Within(queue[i], idx + k) /\ Apart(f, queue[i])
  <2>1. ASSUME NEW i \in 1 .. n
        PROVE  Within(files[i], idx + k) /\ Apart(files[i], f) /\ Apart(f, files[i])
    <3> DEFINE x == files[i].position
               y == files[i].size
    <3>1. x \in Nat /\ y \in Nat /\ x >= 1 /\ y >= 1 /\ x + y <= idx
      BY <1>3, <1>5 DEF Within
    <3> HIDE DEF x, y, k
    <3>2. x + y <= idx + k
      BY <1>1, <3>1
    <3>3. QED
      BY <3>1, <3>2 DEF x, y, Within, Apart
  <2>2. ASSUME NEW i \in 1 .. m
        PROVE  Within(queue[i], idx + k) /\ Apart(f, queue[i])
    <3> DEFINE x == queue[i].position
               y == queue[i].size
    <3>1. x \in Nat /\ y \in Nat /\ x >= 1 /\ y >= 1 /\ x + y <= idx
      BY <1>3, <1>5 DEF Within
    <3> HIDE DEF x, y, k
    <3>2. x + y <= idx + k
      BY <1>1, <3>1
    <3>3. QED
      BY <3>1, <3>2 DEF x, y, Within, Apart
  <2>3. QED
    BY <2>1, <2>2
<1>9. Within(f, idx + k)
  BY <1>1 DEF Within
<1>10. \A i \in 1 .. n + 1 : Within(r[i], idx + k)
  BY <1>2, <1>4, <1>8, <1>9
<1>11. \A i, j \in 1 .. n + 1 : i # j => Apart(r[i], r[j])
  BY <1>2, <1>4, <1>6, <1>8
<1>12. \A i \in 1 .. n + 1, j \in 1 .. m : Apart(r[i], queue[j])
  BY <1>2, <1>4, <1>6, <1>8
<1>13. ASSUME NEW p \in 1 .. (idx + k) - 1
       PROVE  (\E i \in 1 .. n + 1 : In(p, r[i])) \/ (\E j \in 1 .. m : In(p, queue[j]))
  <2>1. CASE p < idx
    <3>1. p \in 1 .. idx - 1
      BY <2>1
    <3>2. CASE \E j \in 1 .. m : In(p, queue[j])
      BY <3>2
    <3>3. CASE \E i \in 1 .. n : In(p, files[i])
      <4>1. PICK i \in 1 .. n : In(p, files[i])
        BY <3>3
      <4>2. i \in 1 .. n + 1 /\ In(p, r[i])
        BY <1>1, <1>2, <4>1
      <4>3. QED
        BY <4>2
    <3>4. QED
      BY <1>7, <3>1, <3>2, <3>3
  <2>2. CASE ~(p < idx)
    <3>1. In(p, f) /\ n + 1 \in 1 .. n + 1
      BY <1>1, <2>2 DEF In
    <3>2. QED
      BY <1>2, <3>1
  <2>3. QED
    BY <2>1, <2>2
<1>14. Tiled(r, queue, idx + k)
  <2>1. \A i \in 1 .. m : Within(queue[i], idx + k)
    BY <1>8
  <2>2. \A i, j \in 1 .. m : i # j => Apart(queue[i], queue[j])
    BY <1>6
  <2>3. QED
    BY <1>2, <1>10, <1>11, <1>12, <1>13, <2>1, <2>2 DEF Tiled, m
<1>15. QED
  BY <1>14 DEF r

LEMMA AddedKept ==
  ASSUME NEW files \in Seq(Entries), NEW idx \in Nat, NEW units \in Seq(Units),
         NEW st \in [Ids -> Stored], Kept(files, idx, units, st),
         \A i \in 1 .. Len(files) : Within(files[i], idx),
         NEW f \in Entries, f.position = idx, f.size >= 1, st[f.id] = Nothing,
         NEW g \in Seq(Units), NEW what \in Stored, what # Nothing,
         idx + f.size - 1 <= Len(g),
         \A p \in 1 .. idx - 1 : g[p] = units[p],
         \A i \in 1 .. f.size : g[idx + i - 1][1] # "index",
         HoldsFile(g, f, what)
  PROVE  Kept(Append(files, f), idx + f.size, g, [st EXCEPT ![f.id] = what])
<1> DEFINE n == Len(files)
           r == Append(files, f)
           k == f.size
           c == f.id
           t == [st EXCEPT ![c] = what]
<1>1. n \in Nat /\ k \in Nat /\ k >= 1 /\ c \in Ids
  BY DEF Entries
<1>2. Len(r) = n + 1 /\ (\A i \in 1 .. n : r[i] = files[i]) /\ r[n + 1] = f
  BY Appended
<1>3. \A i \in 1 .. n : /\ files[i].position \in Nat /\ files[i].size \in Nat
                        /\ files[i].id \in Ids
  BY Numbers
<1>4. \A i \in 1 .. n + 1 : i \in 1 .. n \/ i = n + 1
  <2>1. n \in Nat
    BY <1>1
  <2> HIDE DEF n, r, k, c, t
  <2>2. QED
    BY <2>1
<1>5. t[c] = what /\ \A id \in Ids : id # c => t[id] = st[id]
  BY <1>1
<1>6. /\ idx >= 1 /\ idx - 1 <= Len(units)
      /\ \A p \in 1 .. idx - 1 : units[p][1] # "index"
  BY DEF Kept
<1>7. /\ \A i, j \in 1 .. n : files[i].id = files[j].id => i = j
      /\ \A i \in 1 .. n :
           st[files[i].id] # Nothing /\ HoldsFile(units, files[i], st[files[i].id])
      /\ \A id \in Ids : st[id] # Nothing => \E i \in 1 .. n : files[i].id = id
  BY DEF Kept
<1>8. /\ \A p \in 1 .. idx - 1 : g[p] = units[p]
      /\ \A i \in 1 .. k : g[idx + i - 1][1] # "index"
      /\ \A i \in 1 .. n : Within(files[i], idx)
      /\ idx + k - 1 <= Len(g)
  OBVIOUS
<1>9. st[c] = Nothing
  OBVIOUS
<1> HIDE DEF n, r, k, c, t
<1>10. \A i \in 1 .. n : files[i].id # c
  BY <1>7, <1>9
<1>11. ASSUME NEW p \in 1 .. (idx + k) - 1
       PROVE  g[p][1] # "index"
  <2>1. CASE p < idx
    <3>1. p \in 1 .. idx - 1
      BY <2>1
    <3>2. QED
      BY <1>6, <1>8, <3>1
  <2>2. CASE ~(p < idx)
    <3> DEFINE i == p - idx + 1
    <3>1. i \in 1 .. k /\ idx + i - 1 = p
      BY <1>1, <2>2
    <3> HIDE DEF i
    <3>2. QED
      BY <1>8, <3>1
  <2>3. QED
    BY <2>1, <2>2
<1>12. \A i, j \in 1 .. n + 1 : r[i].id = r[j].id => i = j
  <2>1. f.id = c
    BY DEF c
  <2>2. QED
    BY <1>2, <1>4, <1>7, <1>10, <2>1
<1>13. ASSUME NEW i \in 1 .. n
       PROVE  t[files[i].id] # Nothing /\ HoldsFile(g, files[i], t[files[i].id])
  <2> DEFINE old == st[files[i].id]
             a == files[i]
  <2>1. t[files[i].id] = old
    BY <1>3, <1>5, <1>10
  <2>2. old # Nothing /\ HoldsFile(units, a, old)
    BY <1>7
  <2>3. old.size \in Nat
    <3>1. old \in Stored
      BY <1>3
    <3>2. QED
      BY <3>1, StoredNumbers
  <2>4. a.position \in Nat /\ a.size \in Nat
    BY <1>3
  <2>5. \A o \in Nat : o < a.size => g[a.position + o] = units[a.position + o]
    <3> DEFINE x == a.position
               y == a.size
    <3>1. x \in Nat /\ y \in Nat /\ x >= 1 /\ x + y <= idx
      BY <1>3, <1>8 DEF Within
    <3> HIDE DEF x, y
    <3>2. ASSUME NEW o \in Nat, o < y PROVE g[x + o] = units[x + o]
      <4>1. x + o \in 1 .. idx - 1
        BY <3>1, <3>2
      <4>2. QED
        BY <1>8, <4>1
    <3>3. QED
      BY <3>2 DEF x, y
  <2> HIDE DEF a, old
  <2>6. HoldsFile(g, a, old)
    BY <2>2, <2>3, <2>4, <2>5, MovedFile
  <2>7. QED
    BY <2>1, <2>2, <2>6 DEF a
<1>14. \A i \in 1 .. n + 1 : t[r[i].id] # Nothing /\ HoldsFile(g, r[i], t[r[i].id])
  <2>1. f.id = c
    BY DEF c
  <2>2. QED
    BY <1>2, <1>4, <1>5, <1>13, <2>1
<1>15. ASSUME NEW id \in Ids, t[id] # Nothing
       PROVE  \E i \in 1 .. n + 1 : r[i].id = id
  <2>1. CASE id = c
    <3>1. n + 1 \in 1 .. n + 1 /\ r[n + 1].id = id
      BY <1>1, <1>2, <2>1 DEF c
    <3>2. QED
      BY <3>1
  <2>2. CASE id # c
    <3>1. PICK i \in 1 .. n : files[i].id = id
      BY <1>5, <1>7, <1>15, <2>2
    <3>2. i \in 1 .. n + 1 /\ r[i].id = id
      BY <1>1, <1>2, <3>1
    <3>3. QED
      BY <3>2
  <2>3. QED
    BY <2>1, <2>2
<1>16. idx + k >= 1 /\ (idx + k) - 1 <= Len(g)
  BY <1>1, <1>6, <1>8
<1>17. Kept(r, idx + k, g, t)
  BY <1>2, <1>11, <1>12, <1>14, <1>15, <1>16 DEF Kept
<1>18. QED
  BY <1>17 DEF r, k, t, c

(***************************************************************************)
(* Reading a file.                                                         *)
(***************************************************************************)
LEMMA ReadFile ==
  ASSUME NEW v, v.files \in Seq(Entries), v.units \in Seq(Units), NEW idx \in Nat,
         NEW st \in [Ids -> Stored], Kept(v.files, idx, v.units, st),
         \A i \in 1 .. Len(v.files) : Within(v.files[i], idx), NEW id \in Ids
  PROVE  /\ st[id] = Nothing => ~vfs_exists(v, id)
         /\ st[id] # Nothing =>
              vfs_exists(v, id) /\ vfs_read(v, id) = Plain(st[id].version, st[id].size)
<1> DEFINE n == Len(v.files)
           what == st[id]
<1>1. /\ vfs_exists(v, id) <=> \E i \in 1 .. n : v.files[i].id = id
      /\ vfs_exists(v, id) =>
           find_file(v, id) \in 1 .. n /\ v.files[find_file(v, id)].id = id
  BY FoundFile
<1>2. /\ \A i \in 1 .. n :
           st[v.files[i].id] # Nothing /\ HoldsFile(v.units, v.files[i], st[v.files[i].id])
      /\ \A x \in Ids : st[x] # Nothing => \E i \in 1 .. n : v.files[i].id = x
      /\ idx >= 1 /\ idx - 1 <= Len(v.units)
  BY DEF Kept
<1>3. CASE what = Nothing
  BY <1>1, <1>2, <1>3
<1>4. CASE what # Nothing
  <2>1. vfs_exists(v, id)
    BY <1>1, <1>2, <1>4
  <2> DEFINE k == find_file(v, id)
             f == v.files[k]
             a == f.position
             m == f.size
             u == v.units
             raw == SubSeq(u, a, a + m - 1)
             N == what.version
             S == what.size
  <2>2. k \in 1 .. n /\ f.id = id
    BY <1>1, <2>1
  <2>3. HoldsFile(u, f, what) /\ Within(f, idx)
    BY <1>2, <2>2
  <2>4. a \in Nat /\ m \in Nat
    BY <2>2, Numbers
  <2>5. a >= 1 /\ m >= 1 /\ a + m <= idx
    BY <2>3 DEF Within
  <2>6. S \in Nat
    BY StoredNumbers
  <2>7. vfs_read(v, id) =
          IF \E p \in a .. a + m - 1 : p \notin DOMAIN u THEN <<>>
          ELSE IF f.flags = 0 THEN raw
          ELSE IF raw[1][1] = "size" /\ raw[2][1] = "lz4" /\ raw[1][3] = raw[2][3]
               THEN Plain(raw[2][2], raw[2][3]) ELSE <<>>
    BY Zenon DEF vfs_read
  <2>8. u \in Seq(Units) /\ Len(u) \in Nat /\ DOMAIN u = 1 .. Len(u)
    OBVIOUS
  <2>9. idx - 1 <= Len(u)
    BY <1>2
  <2>10. (f.flags = 0 /\ m = S /\ \A i \in 1 .. S : u[a + i - 1] = <<"plain", N, i>>)
         \/ (f.flags # 0 /\ m = 2 /\ u[a] = <<"size", N, S>> /\ u[a + 1] = <<"lz4", N, S>>)
    BY <2>3 DEF HoldsFile
  <2> HIDE DEF k, f, a, m, u, raw, N, S, what
  <2>11. \A p \in a .. a + m - 1 : p \in DOMAIN u
    BY <2>4, <2>5, <2>8, <2>9
  <2>12. Len(raw) = m /\ \A i \in 1 .. m : raw[i] = u[a + i - 1]
    <3>1. a + m - 1 \in Nat /\ a \in 1 .. Len(u) + 1 /\ a + m - 1 \in a - 1 .. Len(u)
      BY <2>4, <2>5, <2>8, <2>9
    <3> DEFINE b == a + m - 1
    <3>2. b \in a - 1 .. Len(u) /\ b - a + 1 = m
      BY <2>4, <3>1
    <3> HIDE DEF b
    <3>3. /\ Len(SubSeq(u, a, b)) = b - a + 1
          /\ \A i \in 1 .. b - a + 1 : SubSeq(u, a, b)[i] = u[a + i - 1]
      BY <2>8, <3>1, <3>2, SubSeqProperties
    <3>4. raw = SubSeq(u, a, b)
      BY DEF raw, b
    <3>5. QED
      BY <3>2, <3>3, <3>4
  <2>13. CASE f.flags = 0
    <3>1. m = S /\ \A i \in 1 .. S : u[a + i - 1] = <<"plain", N, i>>
      BY <2>10, <2>13
    <3>2. vfs_read(v, id) = raw
      BY <2>7, <2>11, <2>13
    <3>3. Plain(N, S) = [i \in 1 .. S |-> <<"plain", N, i>>]
      BY DEF Plain
    <3>4. \A i \in 1 .. S : raw[i] = <<"plain", N, i>>
      BY <2>12, <3>1
    <3>5. raw = [i \in 1 .. S |-> raw[i]]
      <4>1. raw \in Seq(Units)
        BY <2>4, <2>5, <2>8, <2>9 DEF raw
      <4>2. QED
        BY <2>12, <3>1, <4>1
    <3>6. raw = Plain(N, S)
      BY <3>3, <3>4, <3>5
    <3>7. QED
      BY <1>4, <2>1, <3>2, <3>6 DEF N, S, what
  <2>14. CASE f.flags # 0
    <3>1. m = 2 /\ u[a] = <<"size", N, S>> /\ u[a + 1] = <<"lz4", N, S>>
      BY <2>10, <2>14
    <3>2. raw[1] = <<"size", N, S>> /\ raw[2] = <<"lz4", N, S>>
      <4>1. 1 \in 1 .. m /\ 2 \in 1 .. m /\ a + 1 - 1 = a /\ a + 2 - 1 = a + 1
        BY <2>4, <3>1
      <4>2. raw[1] = u[a + 1 - 1] /\ raw[2] = u[a + 2 - 1]
        BY <2>12, <4>1
      <4>3. QED
        BY <3>1, <4>1, <4>2
    <3>3. /\ raw[1][1] = "size" /\ raw[2][1] = "lz4" /\ raw[1][3] = raw[2][3]
          /\ raw[2][2] = N /\ raw[2][3] = S
      BY <3>2
    <3>4. vfs_read(v, id) = Plain(raw[2][2], raw[2][3])
      BY <2>7, <2>11, <2>14, <3>3, Zenon
    <3>5. vfs_read(v, id) = Plain(N, S)
      BY <3>3, <3>4
    <3>6. QED
      BY <1>4, <2>1, <3>5 DEF N, S, what
  <2>15. QED
    BY <2>13, <2>14
<1>5. QED
  BY <1>3, <1>4

(***************************************************************************)
(* _vfs_add.                                                               *)
(***************************************************************************)
WithFile(base, units, f, m) ==
  [base EXCEPT !.units = units, !.files = Append(@, f),
               !.indexOffset = @ + m, !.dirty = TRUE]

ExtendedBy(d, base, units, f, m) ==
  /\ d \in Archives
  /\ d.files = Append(base.files, f) /\ d.units = units
  /\ d.indexOffset = base.indexOffset + m /\ d.removeQueue = base.removeQueue
  /\ d.dirty = TRUE /\ d.header = base.header

LEMMA AddedFields ==
  ASSUME NEW base \in Archives, NEW units \in Seq(Units), NEW f \in Entries,
         NEW m \in Nat
  PROVE  ExtendedBy(WithFile(base, units, f, m), base, units, f, m)
<1> DEFINE d == WithFile(base, units, f, m)
           files == Append(base.files, f)
           idx == base.indexOffset + m
<1>1. files \in Seq(Entries) /\ idx \in Nat
  BY ArchiveFields
<1>2. d = [base EXCEPT !.units = units, !.files = files, !.indexOffset = idx,
                       !.dirty = TRUE]
  BY DEF WithFile
<1> HIDE DEF files, idx, d, ExtendedBy
<1>3. /\ d \in Archives /\ d.files = files /\ d.units = units /\ d.indexOffset = idx
      /\ d.removeQueue = base.removeQueue /\ d.dirty = TRUE /\ d.header = base.header
  BY <1>1, <1>2 DEF Archives
<1>4. QED
  BY <1>3 DEF files, idx, d, ExtendedBy

(* What is stored under id after the store numbered n. *)
StoredBy(n, k, compress) ==
  IF k = 0 /\ ~compress THEN Nothing ELSE [version |-> n, size |-> k]

AddKeeps(v, st, id, k, compress) ==
  LET d == vfs_add(v, id, k, compress)
      t == [st EXCEPT ![id] = StoredBy(stores + 1, k, compress)]
  IN  /\ d \in Archives /\ Sound(d, t)
      /\ t \in [Ids -> Stored] /\ d.header = v.header
      /\ d.dirty = TRUE \/ (d = v /\ t = st)

LEMMA AddedFile ==
  ASSUME NEW v \in Archives, NEW st \in [Ids -> Stored], Sound(v, st),
         NEW id \in Ids, NEW k \in Sizes, NEW compress \in BOOLEAN,
         stores \in Nat, stores < MaxStores,
         ~(vfs_exists(v, id) /\ SpoiltByRemove(v, id))
  PROVE  AddKeeps(v, st, id, k, compress)
<1> DEFINE base == IF vfs_exists(v, id) THEN vfs_remove(v, id) ELSE v
           s0 == [st EXCEPT ![id] = Nothing]
           n == stores + 1
           what == StoredBy(n, k, compress)
           t == [st EXCEPT ![id] = what]
           w == Written(n, k, compress)
           idx == base.indexOffset
           units == Overwrite(base.units, idx, w)
           f == [id |-> id, position |-> idx, size |-> Len(w),
                 flags |-> IF compress THEN 1 ELSE 0]
           d == vfs_add(v, id, k, compress)
<1>1. k \in Nat /\ n \in Nat /\ n >= 1
  BY SizesAssumption
<1>2. Nothing \in Stored
  BY LimitAssumption DEF Nothing, Stored
<1>3. what \in Stored /\ (what = Nothing <=> k = 0 /\ ~compress)
  <2>1. CASE k = 0 /\ ~compress
    <3>1. what = Nothing
      BY <2>1 DEF StoredBy
    <3>2. QED
      BY <1>2, <2>1, <3>1
  <2>2. CASE ~(k = 0 /\ ~compress)
    <3>1. what = [version |-> n, size |-> k]
      BY <2>2 DEF StoredBy
    <3>2. n \in 0 .. MaxStores /\ k \in Sizes \cup {0}
      BY LimitAssumption
    <3>3. what \in Stored /\ what.version = n
      BY <3>1, <3>2 DEF Stored
    <3>4. Nothing.version = 0
      BY DEF Nothing
    <3>5. n # 0
      BY <1>1
    <3> HIDE DEF what, n
    <3>6. what # Nothing
      BY <3>3, <3>4, <3>5
    <3>7. QED
      BY <2>2, <3>3, <3>6
  <2>3. QED
    BY <2>1, <2>2
<1>4. /\ w \in Seq(Units) /\ Len(w) = (IF compress THEN 2 ELSE k)
      /\ \A i \in 1 .. Len(w) : w[i][1] # "index"
      /\ ~compress => \A i \in 1 .. k : w[i] = <<"plain", n, i>>
      /\ compress => w[1] = <<"size", n, k>> /\ w[2] = <<"lz4", n, k>>
  <2> HIDE DEF n
  <2>1. QED
    BY <1>1, WrittenUnits DEF w
<1> HIDE DEF what, w, n
<1>5. s0 \in [Ids -> Stored] /\ t \in [Ids -> Stored]
  BY <1>2, <1>3
<1>6. /\ base \in Archives /\ Sound(base, s0) /\ base.header = v.header
      /\ base.dirty = TRUE \/ (base = v /\ s0 = st)
  <2>1. CASE vfs_exists(v, id)
    <3>1. base = vfs_remove(v, id)
      BY <2>1
    <3>2. ~SpoiltByRemove(v, id)
      BY <2>1
    <3>3. /\ vfs_remove(v, id) \in Archives
          /\ Sound(vfs_remove(v, id), s0)
          /\ vfs_remove(v, id).dirty = TRUE /\ vfs_remove(v, id).header = v.header
      BY <2>1, <3>2, RemovedFile
    <3> HIDE DEF base
    <3>4. QED
      BY <3>1, <3>3
  <2>2. CASE ~vfs_exists(v, id)
    <3>1. base = v
      BY <2>2
    <3>2. st[id] = Nothing
      <4>1. v.files \in Seq(Entries)
        BY ArchiveFields
      <4>2. ~\E i \in 1 .. Len(v.files) : v.files[i].id = id
        BY <2>2, <4>1, FoundFile
      <4>3. st[id] # Nothing => \E i \in 1 .. Len(v.files) : v.files[i].id = id
        BY DEF Sound, Kept
      <4>4. QED
        BY <4>2, <4>3
    <3>3. s0 = st
      BY <3>2
    <3> HIDE DEF base, s0
    <3>4. QED
      BY <3>1, <3>3
  <2>3. QED
    BY <2>1, <2>2
<1>7. s0[id] = Nothing /\ [s0 EXCEPT ![id] = what] = t
  OBVIOUS
<1>8. stores \in Nat /\ base = IF vfs_exists(v, id) THEN vfs_remove(v, id) ELSE v
  OBVIOUS
<1> HIDE DEF base, s0, t
<1>9. /\ base.files \in Seq(Entries) /\ idx \in Nat /\ base.removeQueue \in Seq(Holes)
      /\ base.units \in Seq(Units)
  BY <1>6, ArchiveFields
<1>10. Tiled(base.files, base.removeQueue, idx) /\ Kept(base.files, idx, base.units, s0)
  BY <1>6 DEF Sound
<1>11. idx >= 1 /\ idx - 1 <= Len(base.units)
  BY <1>10 DEF Kept
<1> HIDE DEF idx
<1>12. /\ units \in Seq(Units) /\ Len(units) >= idx + Len(w) - 1
       /\ \A p \in 1 .. idx - 1 : units[p] = base.units[p]
       /\ \A i \in 1 .. Len(w) : units[idx + i - 1] = w[i]
  <2>1. w \in Seq(Units)
    BY <1>4
  <2>2. base.units \in Seq(Units) /\ idx \in Nat /\ idx >= 1 /\ idx - 1 <= Len(base.units)
    BY <1>9, <1>11
  <2>3. QED
    BY <2>1, <2>2, Overwritten
<1> HIDE DEF units
<1>13. /\ w = <<>> => d = base
       /\ w # <<>> =>
            /\ f \in Entries /\ d \in Archives
            /\ d.files = Append(base.files, f) /\ d.units = units
            /\ d.indexOffset = idx + Len(w)
            /\ d.removeQueue = base.removeQueue
            /\ d.dirty = TRUE /\ d.header = base.header
  <2> DEFINE e == [base EXCEPT !.units = units, !.files = Append(@, f),
                               !.indexOffset = @ + Len(w), !.dirty = TRUE]
  <2>1. d = IF w = <<>> THEN base ELSE e
    BY <1>8, Zenon DEF vfs_add, Written, w, n, units, idx
  <2>2. base \in Archives /\ Len(w) \in Nat /\ units \in Seq(Units)
    BY <1>4, <1>6, <1>12
  <2>3. f \in Entries
    BY <1>9, <2>2 DEF Entries
  <2> HIDE DEF f, d
  <2>4. /\ e \in Archives /\ e.files = Append(base.files, f) /\ e.units = units
        /\ e.indexOffset = base.indexOffset + Len(w)
        /\ e.removeQueue = base.removeQueue /\ e.dirty = TRUE /\ e.header = base.header
    <3> DEFINE m == Len(w)
    <3>1. e = WithFile(base, units, f, m)
      BY DEF WithFile
    <3>2. m \in Nat
      BY <2>2
    <3> HIDE DEF e, m, base
    <3> DEFINE g == WithFile(base, units, f, m)
    <3>3. ExtendedBy(g, base, units, f, m)
      BY <2>2, <2>3, <3>2, AddedFields, Zenon
    <3> HIDE DEF g
    <3>4. e = g
      BY <3>1 DEF g
    <3>5. QED
      BY <3>3, <3>4 DEF m, ExtendedBy
  <2> HIDE DEF e
  <2>5. CASE w = <<>>
    BY <2>1, <2>5
  <2>6. CASE w # <<>>
    <3>1. d = e
      BY <2>1, <2>6
    <3>2. QED
      BY <2>3, <2>4, <2>6, <3>1 DEF idx
  <2>7. QED
    BY <2>5, <2>6
<1>14. w = <<>> <=> k = 0 /\ ~compress
  <2>1. Len(w) = 0 <=> k = 0 /\ ~compress
    BY <1>1, <1>4
  <2>2. w = <<>> <=> Len(w) = 0
    BY <1>4
  <2>3. QED
    BY <2>1, <2>2
<1> HIDE DEF d
<1>15. ASSUME w = <<>>
      PROVE  /\ d \in Archives /\ Sound(d, t) /\ t \in [Ids -> Stored] /\ d.header = v.header
             /\ d.dirty = TRUE \/ (d = v /\ t = st)
  <2>1. d = base
    BY <1>13, <1>15
  <2>2. what = Nothing
    BY <1>3, <1>14, <1>15
  <2>3. t = s0
    BY <2>2 DEF t, s0
  <2>4. QED
    BY <1>5, <1>6, <2>1, <2>3
<1>16. ASSUME w # <<>>
      PROVE  /\ d \in Archives /\ Sound(d, t) /\ t \in [Ids -> Stored] /\ d.header = v.header
             /\ d.dirty = TRUE \/ (d = v /\ t = st)
  <2> DEFINE m == Len(w)
  <2>1. /\ f \in Entries /\ d \in Archives
        /\ d.files = Append(base.files, f) /\ d.units = units
        /\ d.indexOffset = idx + m
        /\ d.removeQueue = base.removeQueue
        /\ d.dirty = TRUE /\ d.header = base.header
    BY <1>13, <1>16
  <2>2. m \in Nat /\ m >= 1
    <3>1. m \in Nat /\ m # 0
      BY <1>4, <1>16
    <3> HIDE DEF m
    <3>2. QED
      BY <3>1
  <2>3. f.position = idx /\ f.size = m /\ f.id = id
        /\ f.flags = (IF compress THEN 1 ELSE 0)
    OBVIOUS
  <2> HIDE DEF f
  <2>4. what # Nothing /\ what = [version |-> n, size |-> k]
    BY <1>3, <1>14, <1>16 DEF what, StoredBy
  <2>5. what.version = n /\ what.size = k
    BY <2>4
  <2>6. HoldsFile(units, f, what)
    <3>1. CASE compress
      <4>1. m = 2 /\ f.flags = 1 /\ w[1] = <<"size", n, k>> /\ w[2] = <<"lz4", n, k>>
        BY <1>4, <2>3, <3>1
      <4>2. units[idx + 1 - 1] = w[1] /\ units[idx + 2 - 1] = w[2]
        BY <1>12, <4>1
      <4>3. idx + 1 - 1 = idx /\ idx + 2 - 1 = idx + 1
        BY <1>9
      <4>4. units[idx] = <<"size", n, k>> /\ units[idx + 1] = <<"lz4", n, k>>
        BY <4>1, <4>2, <4>3
      <4> HIDE DEF m
      <4>5. QED
        BY <2>3, <2>5, <4>1, <4>4 DEF HoldsFile
    <3>2. CASE ~compress
      <4>1. m = k /\ f.flags = 0 /\ \A i \in 1 .. k : w[i] = <<"plain", n, i>>
        BY <1>4, <2>3, <3>2
      <4>2. \A i \in 1 .. k : units[idx + i - 1] = <<"plain", n, i>>
        BY <1>12, <4>1
      <4> HIDE DEF m
      <4>3. QED
        BY <2>3, <2>5, <4>1, <4>2 DEF HoldsFile
    <3>3. QED
      BY <3>1, <3>2
  <2>7. \A i \in 1 .. m : units[idx + i - 1][1] # "index"
    BY <1>4, <1>12
  <2>8. \A i \in 1 .. Len(base.files) : Within(base.files[i], idx)
    BY <1>10 DEF Tiled
  <2>9. idx + m - 1 <= Len(units)
    BY <1>12
  <2> HIDE DEF m
  <2>10. Tiled(Append(base.files, f), base.removeQueue, idx + f.size)
    BY <1>9, <1>10, <1>11, <2>1, <2>2, <2>3, AddedTiled
  <2>11. Kept(Append(base.files, f), idx + f.size, units, [s0 EXCEPT ![f.id] = what])
    <3>1. f.position = idx /\ f.size >= 1 /\ s0[f.id] = Nothing
      BY <1>7, <2>2, <2>3
    <3>2. idx + f.size - 1 <= Len(units)
      BY <2>3, <2>9
    <3>3. \A i \in 1 .. f.size : units[idx + i - 1][1] # "index"
      BY <2>3, <2>7
    <3>4. what \in Stored /\ what # Nothing /\ f \in Entries
      BY <1>3, <2>1, <2>4
    <3>5. units \in Seq(Units) /\ \A p \in 1 .. idx - 1 : units[p] = base.units[p]
      BY <1>12
    <3>6. /\ base.files \in Seq(Entries) /\ idx \in Nat /\ base.units \in Seq(Units)
          /\ s0 \in [Ids -> Stored] /\ Kept(base.files, idx, base.units, s0)
      BY <1>5, <1>9, <1>10
    <3>7. QED
      BY ONLY <3>1, <3>2, <3>3, <3>4, <3>5, <3>6, <2>6, <2>8, AddedKept
  <2>12. Sound(d, t)
    BY <1>7, <2>1, <2>3, <2>10, <2>11 DEF Sound
  <2>13. QED
    BY <1>5, <1>6, <2>1, <2>12
<1>17. QED
  <2>1. /\ d \in Archives /\ Sound(d, t) /\ t \in [Ids -> Stored] /\ d.header = v.header
        /\ d.dirty = TRUE \/ (d = v /\ t = st)
    BY <1>15, <1>16
  <2>2. QED
    BY <2>1, Zenon DEF AddKeeps, d, t, what, n

(***************************************************************************)
(* _vfs_close: the index and the header are written back.                  *)
(***************************************************************************)
LEMMA HeaderFacts ==
  \A idx \in Nat :
    /\ HeaderOf(idx) \in Nat
    /\ HeaderOf(idx) - (HeaderOf(idx) % HeaderBase) = 1 - (1 % HeaderBase)
    /\ idx >= 1 /\ idx < HeaderBase => HeaderOf(idx) = idx
<1> TAKE idx \in Nat
<1>1. HeaderBase \in Nat /\ HeaderBase >= 1
  BY BaseAssumption
<1>2. CASE HeaderBase = 1
  <2>1. idx % 1 = 0 /\ 1 % 1 = 0 /\ idx % HeaderBase = idx % 1 /\ 1 % HeaderBase = 1 % 1
    BY <1>2
  <2>2. HeaderOf(idx) = 1
    BY <2>1 DEF HeaderOf
  <2>3. QED
    BY <1>2, <2>1, <2>2
<1>3. CASE HeaderBase > 1
  <2> DEFINE r == idx % HeaderBase
  <2>1. 1 % HeaderBase = 1 /\ r \in 0 .. HeaderBase - 1
    BY <1>1, <1>3
  <2>2. idx < HeaderBase => r = idx
    BY <1>1
  <2>3. HeaderOf(idx) = (1 - (1 % HeaderBase)) + r
    BY DEF HeaderOf
  <2> HIDE DEF r
  <2>4. HeaderOf(idx) = r
    BY <2>1, <2>3
  <2>5. r % HeaderBase = r
    BY <1>1, <2>1
  <2>6. QED
    BY <2>1, <2>2, <2>4, <2>5
<1>4. QED
  BY <1>1, <1>2, <1>3

(* What is behind idx does not matter. *)
LEMMA KeptBelow ==
  ASSUME NEW files \in Seq(Entries), NEW idx \in Nat, NEW units, NEW g,
         NEW st \in [Ids -> Stored], Kept(files, idx, units, st),
         \A i \in 1 .. Len(files) : Within(files[i], idx),
         idx - 1 <= Len(g), \A p \in 1 .. idx - 1 : g[p] = units[p]
  PROVE  Kept(files, idx, g, st)
<1>1. /\ idx >= 1
      /\ \A p \in 1 .. idx - 1 : units[p][1] # "index"
      /\ \A i, j \in 1 .. Len(files) : files[i].id = files[j].id => i = j
      /\ \A i \in 1 .. Len(files) :
           st[files[i].id] # Nothing /\ HoldsFile(units, files[i], st[files[i].id])
      /\ \A id \in Ids : st[id] # Nothing => \E i \in 1 .. Len(files) : files[i].id = id
  BY DEF Kept
<1>2. ASSUME NEW i \in 1 .. Len(files)
      PROVE  HoldsFile(g, files[i], st[files[i].id])
  <2> DEFINE a == files[i]
             old == st[files[i].id]
             x == a.position
             y == a.size
  <2>1. x \in Nat /\ y \in Nat /\ a.id \in Ids
    BY Numbers
  <2>2. x >= 1 /\ x + y <= idx
    BY DEF Within
  <2>3. old.size \in Nat
    <3>1. old \in Stored
      BY <2>1
    <3>2. QED
      BY <3>1, StoredNumbers
  <2>4. HoldsFile(units, a, old)
    BY <1>1
  <2>5. \A o \in Nat : o < a.size => g[a.position + o] = units[a.position + o]
    <3> HIDE DEF x, y
    <3>1. ASSUME NEW o \in Nat, o < y PROVE g[x + o] = units[x + o]
      <4>1. x + o \in 1 .. idx - 1
        BY <2>1, <2>2, <3>1
      <4>2. QED
        BY <4>1
    <3>2. QED
      BY <3>1 DEF x, y
  <2>6. a.position \in Nat /\ a.size \in Nat
    BY <2>1
  <2> HIDE DEF a, old
  <2>7. HoldsFile(g, a, old)
    BY <2>3, <2>4, <2>5, <2>6, MovedFile
  <2>8. QED
    BY <2>7 DEF a, old
<1>3. \A p \in 1 .. idx - 1 : g[p][1] # "index"
  BY <1>1
<1>4. QED
  BY <1>1, <1>2, <1>3 DEF Kept

WithIndex(v, units, h) == [v EXCEPT !.units = units, !.header = h, !.dirty = FALSE]

LEMMA IndexWritten ==
  ASSUME NEW v \in Archives, v.removeQueue = <<>>, NEW st \in [Ids -> Stored], Sound(v, st),
         NEW units, units = Append(SubSeq(v.units, 1, v.indexOffset - 1), IndexUnit(v.files)),
         NEW h, h = HeaderOf(v.indexOffset)
  PROVE  LET d == WithIndex(v, units, h)
         IN  /\ d \in Archives /\ Sound(d, st)
             /\ d.dirty = FALSE /\ Complete(d, d.files, d.indexOffset)
<1> DEFINE d == WithIndex(v, units, h)
           idx == v.indexOffset
           below == SubSeq(v.units, 1, idx - 1)
           last == IndexUnit(v.files)
<1>1. /\ v.files \in Seq(Entries) /\ idx \in Nat /\ v.units \in Seq(Units)
      /\ v.removeQueue \in Seq(Holes)
  BY ArchiveFields
<1>2. Tiled(v.files, v.removeQueue, idx) /\ Kept(v.files, idx, v.units, st)
  BY DEF Sound
<1>3. idx >= 1 /\ idx - 1 <= Len(v.units)
  BY <1>2 DEF Kept
<1>4. last \in Units
  BY <1>1, UnitTypes
<1>5. h \in Nat
  BY <1>1, HeaderFacts
<1>6. units = Append(below, last) /\ h = HeaderOf(idx)
  OBVIOUS
<1>7. /\ below \in Seq(Units) /\ Len(below) = idx - 1
      /\ \A p \in 1 .. idx - 1 : below[p] = v.units[p]
  <2> DEFINE b == idx - 1
             u == v.units
  <2>1. u \in Seq(Units) /\ b \in 1 - 1 .. Len(u) /\ 1 \in 1 .. Len(u) + 1 /\ b - 1 + 1 = b
        /\ b = idx - 1
    BY <1>1, <1>3
  <2> HIDE DEF b, u
  <2>2. /\ SubSeq(u, 1, b) \in Seq(Units) /\ Len(SubSeq(u, 1, b)) = b - 1 + 1
        /\ \A i \in 1 .. b - 1 + 1 : SubSeq(u, 1, b)[i] = u[1 + i - 1]
    BY <2>1, SubSeqProperties
  <2>3. \A i \in 1 .. b : 1 + i - 1 = i
    BY <2>1
  <2>4. /\ SubSeq(u, 1, b) \in Seq(Units) /\ Len(SubSeq(u, 1, b)) = b
        /\ \A i \in 1 .. b : SubSeq(u, 1, b)[i] = u[i]
    BY <2>1, <2>2, <2>3
  <2>5. QED
    BY <2>4 DEF b, u
<1> HIDE DEF below, last, d
<1>8. /\ units \in Seq(Units) /\ Len(units) = idx
      /\ \A p \in 1 .. idx - 1 : units[p] = below[p]
      /\ units[idx] = last
  <2>1. /\ Append(below, last) \in Seq(Units) /\ Len(Append(below, last)) = Len(below) + 1
        /\ \A i \in 1 .. Len(below) : Append(below, last)[i] = below[i]
        /\ Append(below, last)[Len(below) + 1] = last
    BY <1>4, <1>7, Appended
  <2>2. (idx - 1) + 1 = idx
    BY <1>1
  <2>3. QED
    BY <1>6, <1>7, <2>1, <2>2
<1>9. \A p \in 1 .. idx - 1 : units[p] = v.units[p]
  BY <1>7, <1>8
<1>10. /\ d \in Archives /\ d.files = v.files /\ d.removeQueue = v.removeQueue
       /\ d.indexOffset = idx /\ d.units = units /\ d.header = h /\ d.dirty = FALSE
  <2> HIDE DEF idx
  <2>1. units \in Seq(Units) /\ v.indexOffset = idx
    BY <1>8 DEF idx
  <2>2. QED
    BY <1>5, <2>1 DEF d, WithIndex, Archives
<1>11. Kept(v.files, idx, units, st)
  <2>1. \A i \in 1 .. Len(v.files) : Within(v.files[i], idx)
    BY <1>2 DEF Tiled
  <2>2. idx - 1 <= Len(units)
    BY <1>1, <1>8
  <2> DEFINE files == v.files
             u == v.units
  <2>3. /\ files \in Seq(Entries) /\ idx \in Nat /\ Kept(files, idx, u, st)
        /\ \A i \in 1 .. Len(files) : Within(files[i], idx)
        /\ idx - 1 <= Len(units) /\ \A p \in 1 .. idx - 1 : units[p] = u[p]
    BY <1>1, <1>2, <1>9, <2>1, <2>2
  <2> HIDE DEF files, u, idx
  <2>4. Kept(files, idx, units, st)
    BY <2>3, KeptBelow
  <2>5. QED
    BY <2>4 DEF files
<1>12. Sound(d, st)
  BY <1>2, <1>10, <1>11 DEF Sound
<1>13. Complete(d, d.files, d.indexOffset)
  <2> HIDE DEF idx
  <2>1. d.units[d.indexOffset] = IndexUnit(d.files)
    BY <1>8, <1>10 DEF last
  <2>2. QED
    BY <1>6, <1>8, <1>10, <2>1 DEF Complete
<1>14. QED
  BY <1>10, <1>12, <1>13 DEF d

LEMMA ClosedArchive ==
  ASSUME NEW v \in Archives, NEW st \in [Ids -> Stored], Sound(v, st),
         Len(Merge(v.removeQueue)) <= 1,
         v.header - (v.header % HeaderBase) = 1 - (1 % HeaderBase),
         ~v.dirty => Complete(v, v.files, v.indexOffset)
  PROVE  LET d == vfs_close(v)
         IN  /\ d \in Archives /\ Sound(d, st)
             /\ d.dirty = FALSE /\ Complete(d, d.files, d.indexOffset)
<1> DEFINE e == defragment(v)
           d == vfs_close(v)
           units == Append(SubSeq(e.units, 1, e.indexOffset - 1), IndexUnit(e.files))
           h == (e.header - (e.header % HeaderBase)) + (e.indexOffset % HeaderBase)
<1>1. /\ e \in Archives /\ Sound(e, st) /\ e.removeQueue = <<>>
      /\ e.dirty = v.dirty /\ e.header = v.header
  BY Defragmented
<1>2. d = IF e.dirty THEN WithIndex(e, units, h) ELSE e
  <2>1. d = IF e.dirty
            THEN [[e EXCEPT !.units = Append(SubSeq(@, 1, e.indexOffset - 1),
                                             IndexUnit(e.files))] EXCEPT
                    !.header = (@ - (@ % HeaderBase)) + (e.indexOffset % HeaderBase),
                    !.dirty = FALSE]
            ELSE e
    BY Zenon DEF vfs_close, write_index
  <2> HIDE DEF e
  <2>2. [e EXCEPT !.units = Append(SubSeq(@, 1, e.indexOffset - 1), IndexUnit(e.files))].header
          = e.header
    BY <1>1 DEF Archives
  <2>3. [[e EXCEPT !.units = Append(SubSeq(@, 1, e.indexOffset - 1),
                                    IndexUnit(e.files))] EXCEPT
                    !.header = (@ - (@ % HeaderBase)) + (e.indexOffset % HeaderBase),
                    !.dirty = FALSE] = WithIndex(e, units, h)
    BY <2>2, Zenon DEF WithIndex
  <2>4. QED
    BY <2>1, <2>3, Zenon
<1>3. e.indexOffset \in Nat /\ e.dirty \in BOOLEAN
  BY <1>1, ArchiveFields
<1>4. h = HeaderOf(e.indexOffset)
  BY <1>1 DEF HeaderOf
<1>5. units = Append(SubSeq(e.units, 1, e.indexOffset - 1), IndexUnit(e.files))
  OBVIOUS
<1> HIDE DEF e, d, units, h
<1>6. CASE e.dirty
  <2> DEFINE g == WithIndex(e, units, h)
  <2>1. /\ g \in Archives /\ Sound(g, st)
        /\ g.dirty = FALSE /\ Complete(g, g.files, g.indexOffset)
    BY <1>1, <1>4, <1>5, IndexWritten
  <2> HIDE DEF g
  <2>2. d = g
    BY <1>2, <1>6 DEF g
  <2>3. QED
    BY <2>1, <2>2 DEF d
<1>7. CASE ~e.dirty
  <2>1. Complete(v, v.files, v.indexOffset) /\ v.removeQueue = <<>>
    BY <1>1, <1>7 DEF Complete
  <2>2. /\ e.files = v.files /\ e.indexOffset = v.indexOffset /\ e.units = v.units
    BY <2>1, DefragmentNone DEF e
  <2>3. Complete(e, e.files, e.indexOffset)
    BY <1>1, <2>1, <2>2 DEF Complete
  <2>4. d = e
    BY <1>2, <1>7
  <2>5. QED
    BY <1>1, <1>3, <1>7, <2>3, <2>4 DEF d
<1>8. QED
  BY <1>6, <1>7

(***************************************************************************)
(* The invariant.  While the archive is open its files and holes tile the  *)
(* data region and each file holds what was stored; the rewritten part of  *)
(* the header is all of it that ever changes; and an archive that is not   *)
(* dirty is complete in the file.  Closed, the file is all there is.       *)
(***************************************************************************)
Fresh == [files |-> <<>>, indexOffset |-> 1, dirty |-> FALSE,
          removeQueue |-> <<>>, units |-> <<>>, header |-> 0]

NoneStored == [id \in Ids |-> Nothing]

OpenOK(v, st) ==
  /\ Sound(v, st)
  /\ v.header - (v.header % HeaderBase) = 1 - (1 % HeaderBase)
  /\ ~v.dirty => Complete(v, v.files, v.indexOffset)

(* files is the index that closing has written. *)
ClosedWith(v, files, st) ==
  /\ v.files = <<>> /\ Complete(v, files, Len(v.units)) /\ ~v.dirty
  /\ Tiled(files, <<>>, Len(v.units))
  /\ Kept(files, Len(v.units), v.units, st)

ArchiveOK(s, v, st) ==
  /\ v \in Archives
  /\ s = "open" => OpenOK(v, st)
  /\ s = "closed" => \E files \in Seq(Entries) : ClosedWith(v, files, st)
  /\ s = "absent" => v = Fresh /\ st = NoneStored
  /\ s = "trapped" =>
       \A i, j \in 1 .. Len(v.files) : v.files[i].id = v.files[j].id => i = j

States == {"absent", "open", "closed", "trapped"}

IInv ==
  /\ state \in States /\ spoilt \in BOOLEAN /\ preferVFS \in BOOLEAN
  /\ stores \in 0 .. MaxStores
  /\ stored \in [Ids -> Stored] /\ plain \in [Ids -> Stored]
  /\ inBuffer \in BOOLEAN /\ (state = "absent" \/ inBuffer => stored = NoneStored)
  /\ ~spoilt => ArchiveOK(state, vfs, stored)

LEMMA FreshArchive ==
  /\ Fresh \in Archives /\ NoneStored \in [Ids -> Stored]
  /\ Fresh.files = <<>> /\ Fresh.indexOffset = 1 /\ Fresh.dirty = FALSE
  /\ Fresh.removeQueue = <<>>
<1>1. <<>> \in Seq(Entries) /\ <<>> \in Seq(Holes) /\ <<>> \in Seq(Units)
  OBVIOUS
<1>2. Nothing \in Stored
  BY LimitAssumption DEF Nothing, Stored
<1>3. NoneStored \in [Ids -> Stored]
  BY <1>2 DEF NoneStored
<1>4. Fresh \in Archives
  BY <1>1 DEF Fresh, Archives
<1>5. QED
  BY <1>3, <1>4 DEF Fresh

LEMMA Created ==
  ASSUME NEW v, v = [Fresh EXCEPT !.header = 1, !.units = <<IndexUnit(<<>>)>>]
  PROVE  v \in Archives /\ OpenOK(v, NoneStored)
<1> DEFINE unit == IndexUnit(<<>>)
           units == <<unit>>
<1>1. <<>> \in Seq(Entries)
  OBVIOUS
<1>2. unit \in Units
  BY <1>1, UnitTypes
<1>3. v = [Fresh EXCEPT !.header = 1, !.units = units]
  OBVIOUS
<1>4. unit = IndexUnit(<<>>)
  OBVIOUS
<1> HIDE DEF unit
<1>5. units \in Seq(Units) /\ Len(units) = 1 /\ units[1] = unit
  BY <1>2
<1> HIDE DEF units
<1>6. /\ v \in Archives /\ v.header = 1 /\ v.units = units /\ v.files = Fresh.files
      /\ v.indexOffset = Fresh.indexOffset /\ v.removeQueue = Fresh.removeQueue
      /\ v.dirty = Fresh.dirty
  BY <1>3, <1>5, FreshArchive DEF Archives
<1>7. v.files = <<>> /\ v.indexOffset = 1 /\ v.removeQueue = <<>> /\ v.dirty = FALSE
  BY <1>6, FreshArchive
<1>8. Len(<<>>) = 0
  OBVIOUS
<1>9. /\ \A i \in 1 .. 0 : FALSE
      /\ \A p \in 1 .. 1 - 1 : FALSE
  OBVIOUS
<1>10. Tiled(<<>>, <<>>, 1)
  BY <1>8, <1>9 DEF Tiled
<1>11. Kept(<<>>, 1, units, NoneStored)
  <2>1. \A id \in Ids : NoneStored[id] = Nothing
    BY DEF NoneStored
  <2>2. 1 >= 1 /\ 1 - 1 <= Len(units)
    BY <1>5
  <2>3. QED
    BY <1>8, <1>9, <2>1, <2>2 DEF Kept
<1>12. Sound(v, NoneStored)
  BY <1>6, <1>7, <1>10, <1>11 DEF Sound
<1>13. Complete(v, v.files, v.indexOffset)
  <2>1. HeaderOf(1) = 1
    <3>1. 1 % HeaderBase \in Int
      BY BaseAssumption
    <3>2. QED
      BY <3>1 DEF HeaderOf
  <2>2. v.units[v.indexOffset] = IndexUnit(v.files)
    BY <1>4, <1>5, <1>6, <1>7
  <2>3. QED
    BY <1>5, <1>6, <1>7, <2>1, <2>2 DEF Complete
<1>14. QED
  BY <1>6, <1>12, <1>13 DEF OpenOK

LEMMA Flushed ==
  ASSUME NEW v \in Archives, NEW st \in [Ids -> Stored], OpenOK(v, st),
         ~(Len(Merge(v.removeQueue)) > 1)
  PROVE  LET d == vfs_close(v)
         IN  /\ d \in Archives /\ OpenOK(d, st)
             /\ Complete(d, d.files, d.indexOffset) /\ d.dirty = FALSE
<1> DEFINE d == vfs_close(v)
           n == Len(Merge(v.removeQueue))
<1>1. n \in Nat
  <2>1. v.removeQueue \in Seq(Holes)
    BY ArchiveFields
  <2>2. Merge(v.removeQueue) \in Seq(Holes)
    BY <2>1, MergedToOne
  <2>3. QED
    BY <2>2
<1>2. ~(n > 1)
  OBVIOUS
<1> HIDE DEF n
<1>3. n <= 1
  BY <1>1, <1>2
<1>4. Len(Merge(v.removeQueue)) <= 1
  BY <1>3 DEF n
<1>5. /\ d \in Archives /\ Sound(d, st)
      /\ d.dirty = FALSE /\ Complete(d, d.files, d.indexOffset)
  BY <1>4, ClosedArchive DEF OpenOK
<1> HIDE DEF d
<1>6. d.header = HeaderOf(d.indexOffset) /\ d.indexOffset \in Nat
  BY <1>5, ArchiveFields DEF Complete
<1>7. d.header - (d.header % HeaderBase) = 1 - (1 % HeaderBase)
  BY <1>6, HeaderFacts
<1>8. QED
  BY <1>5, <1>7 DEF OpenOK, d

LEMMA Closed ==
  ASSUME NEW d \in Archives, NEW st \in [Ids -> Stored], Sound(d, st), d.dirty = FALSE,
         Complete(d, d.files, d.indexOffset), NEW c,
         c = [d EXCEPT !.files = <<>>, !.indexOffset = 0]
  PROVE  c \in Archives /\ ClosedWith(c, d.files, st)
<1>1. <<>> \in Seq(Entries) /\ 0 \in Nat
  OBVIOUS
<1>2. /\ c \in Archives /\ c.units = d.units /\ c.removeQueue = d.removeQueue
      /\ c.header = d.header /\ c.dirty = d.dirty /\ c.files = <<>>
  BY <1>1 DEF Archives
<1>3. Complete(c, d.files, Len(c.units))
  BY <1>2 DEF Complete
<1>4. Tiled(d.files, <<>>, Len(c.units)) /\ Kept(d.files, Len(c.units), c.units, st)
  <2>1. d.indexOffset = Len(c.units) /\ d.removeQueue = <<>>
    BY <1>2 DEF Complete
  <2>2. Tiled(d.files, d.removeQueue, d.indexOffset)
        /\ Kept(d.files, d.indexOffset, d.units, st)
    BY DEF Sound
  <2>3. QED
    BY <1>2, <2>1, <2>2
<1>5. QED
  BY <1>2, <1>3, <1>4 DEF ClosedWith

(* The only unit that can be taken for an index is the one that closing has *)
(* written, at the end.                                                     *)
LEMMA IndexAtEnd ==
  ASSUME NEW v \in Archives, NEW files \in Seq(Entries), NEW st, ClosedWith(v, files, st)
  PROVE  /\ Len(v.units) \in DOMAIN v.units
         /\ v.units[Len(v.units)] = IndexUnit(files)
         /\ IndexUnit(files)[1] = "index" /\ IndexUnit(files)[3] = files
         /\ v.header \in DOMAIN v.units /\ v.units[v.header][1] = "index" =>
              v.header = Len(v.units)
         /\ Len(v.units) < HeaderBase => v.header = Len(v.units)
<1> DEFINE L == Len(v.units)
<1>1. L \in Nat /\ DOMAIN v.units = 1 .. L /\ v.header \in Nat
  <2>1. v.units \in Seq(Units) /\ v.header \in Nat
    BY ArchiveFields
  <2>2. QED
    BY <2>1
<1>2. /\ L >= 1 /\ v.units[L] = IndexUnit(files) /\ v.header = HeaderOf(L)
      /\ \A p \in 1 .. L - 1 : v.units[p][1] # "index"
  BY DEF ClosedWith, Complete, Kept
<1>3. IndexUnit(files)[1] = "index" /\ IndexUnit(files)[3] = files
  BY DEF IndexUnit
<1> HIDE DEF L
<1>4. L \in 1 .. L
  BY <1>1, <1>2
<1>5. ASSUME v.header \in DOMAIN v.units, v.units[v.header][1] = "index"
      PROVE  v.header = L
  <2> DEFINE h == v.header
  <2>1. h \in 1 .. L
    BY <1>1, <1>5
  <2>2. h \notin 1 .. L - 1
    BY <1>2, <1>5
  <2> HIDE DEF h
  <2>3. h = L
    BY <1>1, <2>1, <2>2
  <2>4. QED
    BY <2>3 DEF h
<1>6. L < HeaderBase => v.header = L
  BY <1>1, <1>2, HeaderFacts
<1>7. QED
  BY <1>1, <1>2, <1>3, <1>4, <1>5, <1>6 DEF L

LEMMA Reopened ==
  ASSUME NEW v \in Archives, NEW files \in Seq(Entries), NEW st \in [Ids -> Stored],
         ClosedWith(v, files, st), v.header = Len(v.units), NEW o,
         o = [v EXCEPT !.files = files, !.indexOffset = v.header]
  PROVE  o \in Archives /\ OpenOK(o, st)
<1> DEFINE L == Len(v.units)
<1>1. L \in Nat /\ v.header = L
  <2>1. v.units \in Seq(Units)
    BY ArchiveFields
  <2>2. QED
    BY <2>1
<1>2. /\ o \in Archives /\ o.files = files /\ o.indexOffset = L /\ o.units = v.units
      /\ o.removeQueue = v.removeQueue /\ o.header = v.header /\ o.dirty = v.dirty
  <2> HIDE DEF L
  <2>1. QED
    BY <1>1 DEF Archives
<1>3. /\ v.removeQueue = <<>> /\ v.units[L] = IndexUnit(files) /\ v.header = HeaderOf(L)
      /\ Tiled(files, <<>>, L) /\ Kept(files, L, v.units, st)
  BY DEF ClosedWith, Complete
<1>4. L = Len(o.units)
  BY <1>2
<1> HIDE DEF L
<1>5. Sound(o, st)
  BY <1>2, <1>3 DEF Sound
<1>6. Complete(o, o.files, o.indexOffset)
  BY <1>2, <1>3, <1>4 DEF Complete
<1>7. o.header - (o.header % HeaderBase) = 1 - (1 % HeaderBase)
  BY <1>1, <1>2, <1>3, HeaderFacts
<1>8. QED
  BY <1>2, <1>5, <1>6, <1>7 DEF OpenOK

(***************************************************************************)
(* The invariant holds, step by step.                                      *)
(***************************************************************************)
LEMMA StoredTypes ==
  ASSUME stores \in 0 .. MaxStores, stores < MaxStores, NEW k \in Sizes
  PROVE  /\ Nothing \in Stored /\ [version |-> stores + 1, size |-> k] \in Stored
         /\ stores + 1 \in 0 .. MaxStores /\ stores \in Nat
<1>1. stores + 1 \in 0 .. MaxStores
  BY LimitAssumption
<1>2. Nothing \in Stored
  BY LimitAssumption DEF Nothing, Stored
<1> DEFINE n == stores + 1
<1>3. n \in 0 .. MaxStores /\ k \in Sizes \cup {0}
  BY <1>1
<1> HIDE DEF n
<1>4. [version |-> n, size |-> k] \in Stored
  BY <1>3 DEF Stored
<1>5. QED
  BY <1>1, <1>2, <1>4 DEF n

LEMMA Initially == FsInit => IInv
<1> SUFFICES ASSUME FsInit PROVE IInv
  OBVIOUS
<1>1. /\ state = "absent" /\ vfs = Fresh /\ stores = 0 /\ stored = NoneStored
      /\ spoilt = FALSE /\ plain = NoneStored /\ preferVFS = FALSE /\ inBuffer = FALSE
  BY DEF FsInit, Init, Fresh, NoneStored
<1>2. Fresh \in Archives /\ NoneStored \in [Ids -> Stored]
  BY FreshArchive
<1>3. ArchiveOK(state, vfs, stored)
  BY <1>1, <1>2 DEF ArchiveOK
<1>4. stores \in 0 .. MaxStores
  BY <1>1, LimitAssumption
<1>5. QED
  BY <1>1, <1>2, <1>3, <1>4 DEF IInv, States

LEMMA StoreStep ==
  ASSUME IInv, NEW id \in Ids, NEW k \in Sizes, NEW compress \in BOOLEAN,
         store(id, k, compress)
  PROVE  /\ stores' \in 0 .. MaxStores /\ stored' \in [Ids -> Stored]
         /\ state = "open" /\ state' = state /\ spoilt' \in BOOLEAN /\ inBuffer' = FALSE
         /\ ~spoilt' => ArchiveOK(state', vfs', stored')
<1> DEFINE what == StoredBy(stores + 1, k, compress)
           t == [stored EXCEPT ![id] = what]
           d == vfs_add(vfs, id, k, compress)
<1>1. /\ state = "open" /\ stores < MaxStores /\ state' = state
      /\ stores' = stores + 1 /\ inBuffer' = FALSE
      /\ spoilt' = (spoilt \/ (vfs_exists(vfs, id) /\ SpoiltByRemove(vfs, id)))
  BY DEF store
<1>2. vfs' = d /\ stored' = t
  BY Zenon DEF store, StoredBy
<1>3. /\ Nothing \in Stored /\ [version |-> stores + 1, size |-> k] \in Stored
      /\ stores + 1 \in 0 .. MaxStores /\ stores \in Nat
  BY <1>1, StoredTypes DEF IInv
<1>4. what \in Stored
  BY <1>3 DEF StoredBy
<1>5. stored \in [Ids -> Stored]
  BY DEF IInv
<1>6. t \in [Ids -> Stored]
  <2> HIDE DEF what
  <2>1. QED
    BY <1>4, <1>5
<1>7. spoilt' \in BOOLEAN
  BY <1>1
<1>8. ASSUME ~spoilt'
      PROVE  ArchiveOK(state', vfs', stored')
  <2>1. ~spoilt /\ ~(vfs_exists(vfs, id) /\ SpoiltByRemove(vfs, id))
    BY <1>1, <1>8
  <2>2. vfs \in Archives /\ OpenOK(vfs, stored)
    BY <1>1, <2>1 DEF IInv, ArchiveOK
  <2>3. Sound(vfs, stored)
    BY <2>2 DEF OpenOK
  <2>4. /\ d \in Archives /\ Sound(d, t) /\ d.header = vfs.header
        /\ d.dirty = TRUE \/ (d = vfs /\ t = stored)
    <3>1. AddKeeps(vfs, stored, id, k, compress)
      BY <1>1, <1>3, <1>5, <2>1, <2>2, <2>3, AddedFile
    <3>2. QED
      BY <3>1, Zenon DEF AddKeeps
  <2> HIDE DEF d, t
  <2>5. OpenOK(d, t)
    <3>1. CASE d.dirty = TRUE
      BY <2>2, <2>4, <3>1 DEF OpenOK
    <3>2. CASE d = vfs /\ t = stored
      BY <2>2, <3>2
    <3>3. QED
      BY <2>4, <3>1, <3>2
  <2>6. ArchiveOK(state, d, t)
    BY <1>1, <2>4, <2>5 DEF ArchiveOK
  <2>7. QED
    BY <1>1, <1>2, <2>6
<1>9. QED
  BY <1>1, <1>2, <1>3, <1>6, <1>7, <1>8

LEMMA RemoveStep ==
  ASSUME IInv, NEW id \in Ids, remove(id)
  PROVE  /\ stores' \in 0 .. MaxStores /\ stored' \in [Ids -> Stored]
         /\ state = "open" /\ state' = state /\ spoilt' \in BOOLEAN
         /\ inBuffer' = inBuffer /\ (inBuffer => stored' = NoneStored)
         /\ ~spoilt' => ArchiveOK(state', vfs', stored')
<1> DEFINE t == [stored EXCEPT ![id] = Nothing]
           d == vfs_remove(vfs, id)
<1>1. /\ state = "open" /\ state' = state /\ stores' = stores /\ vfs_exists(vfs, id)
      /\ spoilt' = (spoilt \/ SpoiltByRemove(vfs, id)) /\ vfs' = d /\ stored' = t
      /\ inBuffer' = inBuffer
  BY DEF remove
<1>2. stored \in [Ids -> Stored] /\ stores \in 0 .. MaxStores
  BY DEF IInv
<1>3. Nothing \in Stored
  BY LimitAssumption DEF Nothing, Stored
<1>4. t \in [Ids -> Stored]
  BY <1>2, <1>3
<1>5. spoilt' \in BOOLEAN
  BY <1>1
<1>6. ASSUME ~spoilt'
      PROVE  ArchiveOK(state', vfs', stored')
  <2>1. ~spoilt /\ ~SpoiltByRemove(vfs, id)
    BY <1>1, <1>6
  <2>2. vfs \in Archives /\ OpenOK(vfs, stored)
    BY <1>1, <2>1 DEF IInv, ArchiveOK
  <2>3. Sound(vfs, stored)
    BY <2>2 DEF OpenOK
  <2>4. d \in Archives /\ Sound(d, t) /\ d.dirty = TRUE /\ d.header = vfs.header
    BY <1>1, <1>2, <2>1, <2>2, <2>3, RemovedFile
  <2> HIDE DEF d, t
  <2>5. OpenOK(d, t)
    BY <2>2, <2>4 DEF OpenOK
  <2>6. ArchiveOK(state, d, t)
    BY <1>1, <2>4, <2>5 DEF ArchiveOK
  <2>7. QED
    BY <1>1, <2>6
<1>7. inBuffer => t = NoneStored
  <2>1. [NoneStored EXCEPT ![id] = Nothing] = NoneStored
    BY DEF NoneStored
  <2>2. QED
    BY <1>1, <2>1 DEF IInv
<1>8. QED
  BY <1>1, <1>2, <1>4, <1>5, <1>6, <1>7

LEMMA FlushStep ==
  ASSUME IInv, flush \/ close
  PROVE  /\ state' \in States \ {"absent"} /\ inBuffer' = FALSE
         /\ stores' = stores /\ stored' = stored /\ spoilt' \in BOOLEAN
         /\ ~spoilt' => ArchiveOK(state', vfs', stored')
<1> DEFINE d == vfs_close(vfs)
           c == [d EXCEPT !.files = <<>>, !.indexOffset = 0]
<1>1. /\ state = "open" /\ stores' = stores /\ stored' = stored /\ inBuffer' = FALSE
      /\ spoilt' = (spoilt \/ Len(Merge(vfs.removeQueue)) > 1)
      /\ \/ state' = state /\ vfs' = d
         \/ state' = "closed" /\ vfs' = c
  BY DEF flush, close
<1>2. stored \in [Ids -> Stored]
  BY DEF IInv
<1>3. spoilt' \in BOOLEAN
  BY <1>1
<1>4. ASSUME ~spoilt'
      PROVE  ArchiveOK(state', vfs', stored')
  <2>1. ~spoilt /\ ~(Len(Merge(vfs.removeQueue)) > 1)
    BY <1>1, <1>4
  <2>2. vfs \in Archives /\ OpenOK(vfs, stored)
    BY <1>1, <2>1 DEF IInv, ArchiveOK
  <2>3. /\ d \in Archives /\ OpenOK(d, stored)
        /\ Complete(d, d.files, d.indexOffset) /\ d.dirty = FALSE
    BY <1>2, <2>1, <2>2, Flushed
  <2> HIDE DEF d
  <2>4. c \in Archives /\ ClosedWith(c, d.files, stored) /\ d.files \in Seq(Entries)
    <3>1. Sound(d, stored)
      BY <2>3 DEF OpenOK
    <3>2. d.files \in Seq(Entries)
      BY <2>3, ArchiveFields
    <3> HIDE DEF c
    <3>3. c = [d EXCEPT !.files = <<>>, !.indexOffset = 0]
      BY DEF c
    <3>4. QED
      BY <1>2, <2>3, <3>1, <3>2, <3>3, Closed
  <2> HIDE DEF c
  <2>5. CASE state' = state /\ vfs' = d
    <3>1. ArchiveOK(state, d, stored)
      BY <1>1, <2>3 DEF ArchiveOK
    <3>2. QED
      BY <1>1, <2>5, <3>1
  <2>6. CASE state' = "closed" /\ vfs' = c
    <3>1. ArchiveOK("closed", c, stored)
      BY <2>4 DEF ArchiveOK
    <3>2. QED
      BY <1>1, <2>6, <3>1
  <2>7. QED
    BY <1>1, <2>5, <2>6
<1>5. state' \in States \ {"absent"}
  BY <1>1 DEF States
<1>6. QED
  BY <1>1, <1>3, <1>4, <1>5

(* A build that stops in the assertion: what is left has no index entry    *)
(* twice, which is all that is said of it.                                 *)
LEMMA TrapStep ==
  ASSUME IInv, trap
  PROVE  /\ state' \in States \ {"absent"} /\ inBuffer' = FALSE
         /\ stores' = stores /\ stored' = stored /\ spoilt' \in BOOLEAN
         /\ ~spoilt' => ArchiveOK(state', vfs', stored')
<1> DEFINE d == defragment(vfs)
           c == [d EXCEPT !.indexOffset = 0, !.dirty = FALSE]
           n == Len(Merge(vfs.removeQueue))
<1>1. /\ state = "open" /\ state' = "trapped" /\ stores' = stores /\ stored' = stored
      /\ inBuffer' = FALSE /\ spoilt' = (spoilt \/ n > 1) /\ vfs' = c
  BY DEF trap
<1>2. stored \in [Ids -> Stored]
  BY DEF IInv
<1>3. spoilt' \in BOOLEAN /\ state' \in States \ {"absent"}
  BY <1>1 DEF States
<1>4. ASSUME ~spoilt'
      PROVE  ArchiveOK(state', vfs', stored')
  <2>1. ~spoilt /\ ~(n > 1)
    BY <1>1, <1>4
  <2>2. vfs \in Archives /\ Sound(vfs, stored)
    BY <1>1, <2>1 DEF IInv, ArchiveOK, OpenOK
  <2>3. n \in Nat
    <3>1. Merge(vfs.removeQueue) \in Seq(Holes)
      BY <2>2, ArchiveFields, MergedToOne
    <3>2. QED
      BY <3>1
  <2> HIDE DEF n
  <2>4. n <= 1
    BY <2>1, <2>3
  <2>5. d \in Archives /\ Sound(d, stored)
    BY <1>2, <2>2, <2>4, Defragmented DEF n
  <2> HIDE DEF d
  <2>6. c \in Archives /\ c.files = d.files
    BY <2>5 DEF Archives
  <2>7. \A i, j \in 1 .. Len(d.files) : d.files[i].id = d.files[j].id => i = j
    BY <2>5 DEF Sound, Kept
  <2> HIDE DEF c
  <2>8. ArchiveOK("trapped", c, stored)
    BY <2>6, <2>7 DEF ArchiveOK
  <2>9. QED
    BY <1>1, <2>8
<1>5. QED
  BY <1>1, <1>3, <1>4

LEMMA InitArchiveStep ==
  ASSUME IInv, initArchive
  PROVE  /\ state' = "open" /\ stores' = stores /\ stored' = stored /\ spoilt' = spoilt
         /\ inBuffer' = FALSE
         /\ ~spoilt' => ArchiveOK(state', vfs', stored')
<1> DEFINE o == [vfs EXCEPT !.files = vfs.units[vfs.header][3], !.indexOffset = vfs.header]
<1>1. /\ state = "closed" /\ state' = "open" /\ stores' = stores /\ stored' = stored
      /\ spoilt' = spoilt /\ inBuffer' = FALSE
      /\ vfs.header \in DOMAIN vfs.units /\ vfs.units[vfs.header][1] = "index"
  BY DEF initArchive, IndexOnDisk
<1>2. vfs' = o
  BY DEF initArchive, IndexOnDisk
<1>3. stored \in [Ids -> Stored]
  BY DEF IInv
<1>4. ASSUME ~spoilt'
      PROVE  ArchiveOK(state', vfs', stored')
  <2>1. vfs \in Archives
    BY <1>1, <1>4 DEF IInv, ArchiveOK
  <2>2. PICK files \in Seq(Entries) : ClosedWith(vfs, files, stored)
    BY <1>1, <1>4 DEF IInv, ArchiveOK
  <2>3. /\ vfs.units[Len(vfs.units)] = IndexUnit(files) /\ IndexUnit(files)[3] = files
        /\ vfs.header = Len(vfs.units)
    BY <1>1, <2>1, <2>2, IndexAtEnd
  <2>4. vfs.units[vfs.header][3] = files
    BY <2>3
  <2>5. o = [vfs EXCEPT !.files = files, !.indexOffset = vfs.header]
    BY <2>4
  <2> HIDE DEF o
  <2>6. o \in Archives /\ OpenOK(o, stored)
    BY <1>3, <2>1, <2>2, <2>3, <2>5, Reopened
  <2>7. ArchiveOK("open", o, stored)
    BY <2>6 DEF ArchiveOK
  <2>8. QED
    BY <1>1, <1>2, <2>7
<1>5. QED
  BY <1>1, <1>4

LEMMA CreateStep ==
  ASSUME IInv, createArchive
  PROVE  /\ state' = "open" /\ stores' = stores /\ stored' = stored /\ spoilt' = spoilt
         /\ inBuffer' = TRUE /\ stored = NoneStored
         /\ ~spoilt' => ArchiveOK(state', vfs', stored')
<1> DEFINE o == [Fresh EXCEPT !.header = 1, !.units = <<IndexUnit(<<>>)>>]
<1>1. /\ state = "absent" /\ state' = "open" /\ stores' = stores /\ stored' = stored
      /\ spoilt' = spoilt /\ inBuffer' = TRUE
      /\ vfs' = [vfs EXCEPT !.header = 1, !.units = <<IndexUnit(<<>>)>>]
  BY DEF createArchive
<1>2. ASSUME ~spoilt'
      PROVE  ArchiveOK(state', vfs', stored')
  <2>1. vfs = Fresh /\ stored = NoneStored
    BY <1>1, <1>2 DEF IInv, ArchiveOK
  <2>2. vfs' = o
    BY <1>1, <2>1
  <2>3. o = [Fresh EXCEPT !.header = 1, !.units = <<IndexUnit(<<>>)>>]
    OBVIOUS
  <2> HIDE DEF o
  <2>4. o \in Archives /\ OpenOK(o, NoneStored)
    BY <2>3, Created
  <2>5. ArchiveOK("open", o, NoneStored)
    BY <2>4 DEF ArchiveOK
  <2>6. QED
    BY <1>1, <2>1, <2>2, <2>5
<1>3. stored = NoneStored
  BY <1>1 DEF IInv
<1>4. QED
  BY <1>1, <1>2, <1>3

LEMMA Invariance == IInv /\ [FsNext]_fsVars => IInv'
<1> SUFFICES ASSUME IInv, [FsNext]_fsVars PROVE IInv'
  OBVIOUS
<1>1. /\ state \in States /\ spoilt \in BOOLEAN /\ preferVFS \in BOOLEAN
      /\ stores \in 0 .. MaxStores /\ stored \in [Ids -> Stored] /\ plain \in [Ids -> Stored]
      /\ inBuffer \in BOOLEAN /\ (state = "absent" \/ inBuffer => stored = NoneStored)
      /\ ~spoilt => ArchiveOK(state, vfs, stored)
  BY DEF IInv
<1>2. CASE ArchiveStep
  <2>1. plain' = plain /\ preferVFS' = preferVFS
    BY <1>2 DEF ArchiveStep
  <2>2. CASE createArchive
    <3>1. /\ state' = "open" /\ stores' = stores /\ stored' = stored /\ spoilt' = spoilt
          /\ inBuffer' = TRUE /\ stored = NoneStored
          /\ ~spoilt' => ArchiveOK(state', vfs', stored')
      BY <2>2, CreateStep
    <3>2. QED
      BY <1>1, <2>1, <3>1 DEF IInv, States
  <2>3. CASE flush \/ close \/ trap
    <3>1. /\ state' \in States \ {"absent"} /\ inBuffer' = FALSE
          /\ stores' = stores /\ stored' = stored /\ spoilt' \in BOOLEAN
          /\ ~spoilt' => ArchiveOK(state', vfs', stored')
      BY <2>3, FlushStep, TrapStep
    <3>2. QED
      BY <1>1, <2>1, <3>1 DEF IInv
  <2>4. CASE initArchive
    <3>1. /\ state' = "open" /\ stores' = stores /\ stored' = stored /\ spoilt' = spoilt
          /\ inBuffer' = FALSE
          /\ ~spoilt' => ArchiveOK(state', vfs', stored')
      BY <2>4, InitArchiveStep
    <3>2. QED
      BY <1>1, <2>1, <3>1 DEF IInv, States
  <2>5. QED
    BY <1>2, <2>2, <2>3, <2>4 DEF ArchiveStep
<1>3. CASE RemoveArchive
  <2>1. /\ state' = "absent" /\ vfs' = Fresh /\ stored' = NoneStored /\ inBuffer' = FALSE
        /\ stores' = stores /\ spoilt' = spoilt /\ plain' = plain /\ preferVFS' = preferVFS
    BY <1>3 DEF RemoveArchive, Fresh, NoneStored
  <2>2. Fresh \in Archives /\ NoneStored \in [Ids -> Stored]
    BY FreshArchive
  <2>3. ArchiveOK("absent", Fresh, NoneStored)
    BY <2>2 DEF ArchiveOK
  <2>4. QED
    BY <1>1, <2>1, <2>2, <2>3 DEF IInv, States
<1>4. CASE preferArchives
  <2>1. /\ vars' = vars /\ plain' = plain /\ preferVFS' \in BOOLEAN
    BY <1>1, <1>4 DEF preferArchives
  <2>2. /\ state' = state /\ vfs' = vfs /\ stored' = stored /\ stores' = stores
        /\ spoilt' = spoilt /\ inBuffer' = inBuffer
    BY <2>1 DEF vars
  <2>3. QED
    BY <1>1, <2>1, <2>2 DEF IInv
<1>5. ASSUME NEW path \in Ids, RemoveFile(path)
      PROVE  IInv'
  <2>1. CASE remove(path) /\ UNCHANGED <<plain, preferVFS>>
    <3>1. /\ stores' \in 0 .. MaxStores /\ stored' \in [Ids -> Stored]
          /\ state = "open" /\ state' = state /\ spoilt' \in BOOLEAN
          /\ inBuffer' = inBuffer /\ (inBuffer => stored' = NoneStored)
          /\ ~spoilt' => ArchiveOK(state', vfs', stored')
      BY <2>1, RemoveStep
    <3>2. plain' = plain /\ preferVFS' = preferVFS
      BY <2>1
    <3>3. QED
      BY <1>1, <3>1, <3>2 DEF IInv
  <2>2. CASE plain' = [plain EXCEPT ![path] = Nothing] /\ UNCHANGED <<vars, preferVFS>>
    <3>1. /\ state' = state /\ vfs' = vfs /\ stored' = stored /\ stores' = stores
          /\ spoilt' = spoilt /\ preferVFS' = preferVFS /\ inBuffer' = inBuffer
      BY <2>2 DEF vars
    <3>2. Nothing \in Stored
      BY LimitAssumption DEF Nothing, Stored
    <3>3. plain' \in [Ids -> Stored]
      BY <1>1, <2>2, <3>2
    <3>4. QED
      BY <1>1, <3>1, <3>3 DEF IInv
  <2>3. QED
    BY <1>5, <2>1, <2>2 DEF RemoveFile
<1>6. ASSUME NEW path \in Ids, NEW k \in Sizes, NEW compress \in BOOLEAN,
             StoreFile(path, k, compress)
      PROVE  IInv'
  <2>1. CASE store(path, k, compress) /\ UNCHANGED <<plain, preferVFS>>
    <3>1. /\ stores' \in 0 .. MaxStores /\ stored' \in [Ids -> Stored]
          /\ state = "open" /\ state' = state /\ spoilt' \in BOOLEAN /\ inBuffer' = FALSE
          /\ ~spoilt' => ArchiveOK(state', vfs', stored')
      BY <2>1, StoreStep
    <3>2. plain' = plain /\ preferVFS' = preferVFS
      BY <2>1
    <3>3. QED
      BY <1>1, <3>1, <3>2 DEF IInv
  <2>2. CASE /\ stores < MaxStores /\ stores' = stores + 1
             /\ plain' = [plain EXCEPT ![path] = [version |-> stores + 1, size |-> k]]
             /\ UNCHANGED <<state, vfs, inBuffer, stored, spoilt, preferVFS>>
    <3>1. /\ state' = state /\ vfs' = vfs /\ stored' = stored /\ inBuffer' = inBuffer
          /\ spoilt' = spoilt /\ preferVFS' = preferVFS
      BY <2>2
    <3> DEFINE what == [version |-> stores + 1, size |-> k]
    <3>2. what \in Stored /\ stores' \in 0 .. MaxStores
      BY <1>1, <2>2, StoredTypes
    <3>3. plain' = [plain EXCEPT ![path] = what]
      BY <2>2
    <3> HIDE DEF what
    <3>4. plain' \in [Ids -> Stored]
      BY <1>1, <3>2, <3>3
    <3>5. QED
      BY <1>1, <3>1, <3>2, <3>4 DEF IInv
  <2>3. QED
    BY <1>6, <2>1, <2>2 DEF StoreFile
<1>7. CASE UNCHANGED fsVars
  <2>1. /\ state' = state /\ vfs' = vfs /\ stored' = stored /\ stores' = stores
        /\ spoilt' = spoilt /\ plain' = plain /\ preferVFS' = preferVFS
        /\ inBuffer' = inBuffer
    BY <1>7 DEF fsVars, vars
  <2>2. QED
    BY <1>1, <2>1 DEF IInv
<1>8. QED
  BY <1>2, <1>3, <1>4, <1>5, <1>6, <1>7 DEF FsNext

LEMMA Always == FsSpec => []IInv
<1>1. FsInit => IInv
  BY Initially
<1>2. IInv /\ [FsNext]_fsVars => IInv'
  BY Invariance
<1>3. QED
  BY <1>1, <1>2, PTL DEF FsSpec

(***************************************************************************)
(* What follows.                                                           *)
(***************************************************************************)

(* Type correctness, for as long as no defragmentation has met holes that  *)
(* are not adjacent; no file is in the index twice.                        *)
THEOREM TypeCorrect == FsSpec => [](~spoilt => TypeOK)
<1>1. IInv => (~spoilt => TypeOK)
  <2> SUFFICES ASSUME IInv, ~spoilt PROVE TypeOK
    OBVIOUS
  <2>1. /\ state \in States /\ spoilt \in BOOLEAN /\ inBuffer \in BOOLEAN
        /\ stores \in 0 .. MaxStores /\ stored \in [Ids -> Stored]
        /\ ArchiveOK(state, vfs, stored)
    BY DEF IInv
  <2>2. vfs \in Archives
    BY <2>1 DEF ArchiveOK
  <2>3. /\ vfs.files \in Seq(Entries) /\ vfs.indexOffset \in Nat /\ vfs.dirty \in BOOLEAN
        /\ vfs.removeQueue \in Seq([position : Nat, size : Nat]) /\ vfs.header \in Nat
    BY <2>2, ArchiveFields DEF Holes
  <2>4. DOMAIN vfs.files = 1 .. Len(vfs.files)
    BY <2>3
  <2>5. \A i, j \in 1 .. Len(vfs.files) : vfs.files[i].id = vfs.files[j].id => i = j
    <3>1. CASE state \in {"open", "trapped"}
      BY <2>1, <3>1 DEF ArchiveOK, OpenOK, Sound, Kept
    <3>2. CASE vfs.files = <<>>
      <4>1. Len(vfs.files) = 0
        BY <3>2
      <4>2. QED
        BY <4>1
    <3>3. state \notin {"open", "trapped"} => vfs.files = <<>>
      <4>1. CASE state = "closed"
        BY <2>1, <4>1 DEF ArchiveOK, ClosedWith
      <4>2. CASE state = "absent"
        BY <2>1, <4>2, FreshArchive DEF ArchiveOK
      <4>3. QED
        BY <2>1, <4>1, <4>2 DEF States
    <3>4. QED
      BY <3>1, <3>2, <3>3
  <2>6. QED
    BY <2>1, <2>3, <2>4, <2>5 DEF TypeOK, Stored, States
<1>2. QED
  BY <1>1, Always, PTL

(* The index v has, where it is and the data in the file are those of a    *)
(* sound archive: load() gives what was stored.                            *)
LEMMA KeptIsLoaded ==
  ASSUME NEW v, v.files \in Seq(Entries), v.units \in Seq(Units), NEW idx \in Nat,
         stored \in [Ids -> Stored], Kept(v.files, idx, v.units, stored),
         \A i \in 1 .. Len(v.files) : Within(v.files[i], idx)
  PROVE  Loads(v)
BY ReadFile DEF Loads

(* load() returns what store() stored, through replacing, removing,        *)
(* flushing and defragmenting.                                             *)
THEOREM LoadsCorrect == FsSpec => []LoadsStored
<1>1. IInv => LoadsStored
  <2> SUFFICES ASSUME IInv, state = "open", ~spoilt PROVE Loads(vfs)
    BY DEF LoadsStored
  <2>1. stored \in [Ids -> Stored] /\ vfs \in Archives /\ Sound(vfs, stored)
    BY DEF IInv, ArchiveOK, OpenOK
  <2>2. /\ vfs.files \in Seq(Entries) /\ vfs.units \in Seq(Units) /\ vfs.indexOffset \in Nat
    BY <2>1, ArchiveFields
  <2>3. /\ Kept(vfs.files, vfs.indexOffset, vfs.units, stored)
        /\ \A i \in 1 .. Len(vfs.files) : Within(vfs.files[i], vfs.indexOffset)
    BY <2>1 DEF Sound, Tiled
  <2>4. QED
    BY <2>1, <2>2, <2>3, KeptIsLoaded
<1>2. QED
  BY <1>1, Always, PTL

(* What closing leaves in the file is what the next program finds, if the  *)
(* part of the header that is rewritten can say where the index is.        *)
THEOREM CloseKeeps == FsSpec => []SurvivesClose
<1>1. IInv => SurvivesClose
  <2> SUFFICES ASSUME IInv, state = "closed", ~spoilt, Len(vfs.units) < HeaderBase
               PROVE  /\ vfs.header \in DOMAIN vfs.units
                      /\ IndexOnDisk[1] = "index"
                      /\ Loads([vfs EXCEPT !.files = IndexOnDisk[3]])
    BY DEF SurvivesClose
  <2>1. stored \in [Ids -> Stored] /\ vfs \in Archives
    BY DEF IInv, ArchiveOK
  <2>2. PICK files \in Seq(Entries) : ClosedWith(vfs, files, stored)
    BY DEF IInv, ArchiveOK
  <2>3. /\ Len(vfs.units) \in DOMAIN vfs.units
        /\ vfs.units[Len(vfs.units)] = IndexUnit(files)
        /\ IndexUnit(files)[1] = "index" /\ IndexUnit(files)[3] = files
        /\ vfs.header = Len(vfs.units)
    BY <2>1, <2>2, IndexAtEnd
  <2>4. IndexOnDisk = IndexUnit(files)
    BY <2>3 DEF IndexOnDisk
  <2> DEFINE r == [vfs EXCEPT !.files = IndexOnDisk[3]]
             L == Len(vfs.units)
  <2>5. r.files = files /\ r.units = vfs.units /\ vfs.units \in Seq(Units) /\ L \in Nat
    BY <2>1, <2>3, <2>4 DEF Archives
  <2>6. /\ Kept(files, L, vfs.units, stored)
        /\ \A i \in 1 .. Len(files) : Within(files[i], L)
    BY <2>2 DEF ClosedWith, Tiled
  <2> HIDE DEF r, L
  <2>7. Loads(r)
    BY <2>1, <2>5, <2>6, KeptIsLoaded
  <2>8. QED
    BY <2>3, <2>4, <2>7 DEF r
<1>2. QED
  BY <1>1, Always, PTL

(* Between two calls, an open archive that is not dirty is complete in the *)
(* file, or nothing was stored in it since it was created.                 *)
THEOREM CleanIsComplete == FsSpec => []CleanIsDurable
<1>1. IInv => CleanIsDurable
  <2> SUFFICES ASSUME IInv, state = "open", ~vfs.dirty, ~spoilt,
                      vfs.indexOffset < HeaderBase
               PROVE  /\ inBuffer => \A id \in Ids : stored[id] = Nothing
                      /\ vfs.header \in DOMAIN vfs.units
                      /\ IndexOnDisk[1] = "index"
                      /\ Loads([vfs EXCEPT !.files = IndexOnDisk[3]])
    BY DEF CleanIsDurable
  <2> DEFINE idx == vfs.indexOffset
             files == vfs.files
  <2>1. stored \in [Ids -> Stored] /\ vfs \in Archives /\ OpenOK(vfs, stored)
    BY DEF IInv, ArchiveOK
  <2>2. files \in Seq(Entries) /\ vfs.units \in Seq(Units) /\ idx \in Nat
    BY <2>1, ArchiveFields
  <2>3. Complete(vfs, files, idx) /\ Tiled(files, vfs.removeQueue, idx)
        /\ Kept(files, idx, vfs.units, stored)
    BY <2>1 DEF OpenOK, Sound
  <2>4. /\ Len(vfs.units) = idx /\ vfs.units[idx] = IndexUnit(files)
        /\ vfs.header = HeaderOf(idx) /\ idx >= 1
    BY <2>3 DEF Complete, Kept
  <2>5. vfs.header = idx
    BY <2>2, <2>4, HeaderFacts
  <2>6. vfs.header \in DOMAIN vfs.units
    <3>1. DOMAIN vfs.units = 1 .. Len(vfs.units)
      BY <2>2
    <3> HIDE DEF idx
    <3>2. QED
      BY <2>2, <2>4, <2>5, <3>1
  <2>7. IndexOnDisk = IndexUnit(files)
    BY <2>4, <2>5 DEF IndexOnDisk
  <2>8. IndexOnDisk[1] = "index" /\ IndexOnDisk[3] = files
    BY <2>7 DEF IndexUnit
  <2> DEFINE r == [vfs EXCEPT !.files = IndexOnDisk[3]]
  <2>9. r.files = files /\ r.units = vfs.units
    BY <2>1, <2>8 DEF Archives
  <2>10. \A i \in 1 .. Len(files) : Within(files[i], idx)
    BY <2>3 DEF Tiled
  <2> HIDE DEF r, idx, files
  <2>11. Loads(r)
    BY <2>1, <2>2, <2>3, <2>9, <2>10, KeptIsLoaded
  <2>12. inBuffer => \A id \in Ids : stored[id] = Nothing
    BY DEF IInv, NoneStored
  <2>13. QED
    BY <2>6, <2>8, <2>11, <2>12 DEF r
<1>2. QED
  BY <1>1, Always, PTL

LEMMA PieceExtent ==
  ASSUME NEW a, a.position \in Nat, a.size \in Nat
  PROVE  /\ Extent(a) \subseteq Int /\ \A p \in Int : p \in Extent(a) <=> In(p, a)
         /\ \A idx \in Nat : Within(a, idx) => Extent(a) \subseteq 1 .. idx - 1
         /\ \A b : b.position \in Nat /\ b.size \in Nat /\ Apart(a, b) =>
                     Extent(a) \cap Extent(b) = {} /\ Extent(b) \cap Extent(a) = {}
<1>1. Extent(a) = a.position .. a.position + a.size - 1
  BY DEF Extent
<1>2. ASSUME NEW p \in Int PROVE p \in Extent(a) <=> In(p, a)
  BY <1>1 DEF In
<1>3. ASSUME NEW idx \in Nat, Within(a, idx) PROVE Extent(a) \subseteq 1 .. idx - 1
  BY <1>1, <1>3 DEF Within
<1>4. ASSUME NEW b, b.position \in Nat, b.size \in Nat, Apart(a, b)
      PROVE  Extent(a) \cap Extent(b) = {} /\ Extent(b) \cap Extent(a) = {}
  <2>1. Extent(b) = b.position .. b.position + b.size - 1
    BY DEF Extent
  <2>2. a.position + a.size <= b.position \/ b.position + b.size <= a.position
    BY <1>4 DEF Apart
  <2>3. ASSUME NEW p \in Extent(a), p \in Extent(b)
        PROVE  FALSE
    <3>1. /\ p \in Int /\ a.position <= p /\ p < a.position + a.size
          /\ b.position <= p /\ p < b.position + b.size
      BY <1>1, <1>4, <2>1, <2>3
    <3>2. QED
      BY <1>4, <2>2, <3>1
  <2>4. QED
    BY <2>3
<1>5. QED
  BY <1>1, <1>2, <1>3, <1>4

(* The pieces of the files, and then those of the holes.                    *)
PiecesOf(files, queue) ==
  [i \in DOMAIN files |-> Extent(files[i])] \o [i \in DOMAIN queue |-> Extent(queue[i])]

LEMMA Pieces ==
  ASSUME NEW files \in Seq(Entries), NEW queue \in Seq(Holes), NEW E,
         E = PiecesOf(files, queue)
  PROVE  /\ DOMAIN E = 1 .. Len(files) + Len(queue)
         /\ \A i \in 1 .. Len(files) : E[i] = Extent(files[i])
         /\ \A i \in 1 .. Len(queue) : E[Len(files) + i] = Extent(queue[i])
         /\ \A i \in 1 .. Len(files) + Len(queue) :
              i \in 1 .. Len(files) \/ \E j \in 1 .. Len(queue) : i = Len(files) + j
<1> DEFINE n == Len(files)
           m == Len(queue)
           a == [i \in 1 .. n |-> Extent(files[i])]
           b == [i \in 1 .. m |-> Extent(queue[i])]
<1>1. n \in Nat /\ m \in Nat /\ DOMAIN files = 1 .. n /\ DOMAIN queue = 1 .. m
  OBVIOUS
<1>2. E = a \o b
  BY <1>1 DEF PiecesOf
<1>3. /\ \A i \in 1 .. n : a[i] = Extent(files[i]) /\ Extent(files[i]) \in SUBSET Int
      /\ \A i \in 1 .. m : b[i] = Extent(queue[i]) /\ Extent(queue[i]) \in SUBSET Int
  BY Numbers, PieceExtent
<1>4. a \in [1 .. n -> SUBSET Int] /\ b \in [1 .. m -> SUBSET Int]
  BY <1>3
<1> HIDE DEF n, m, a, b
<1>5. a \in Seq(SUBSET Int) /\ Len(a) = n /\ b \in Seq(SUBSET Int) /\ Len(b) = m
  BY <1>1, <1>4
<1>6. /\ Len(a \o b) = n + m
      /\ \A i \in 1 .. n + m : (a \o b)[i] = IF i <= n THEN a[i] ELSE b[i - n]
      /\ a \o b \in Seq(SUBSET Int)
  BY <1>5, ConcatProperties
<1> DEFINE c == a \o b
<1>7. E = c /\ c \in Seq(SUBSET Int) /\ Len(c) = n + m
      /\ \A i \in 1 .. n + m : c[i] = IF i <= n THEN a[i] ELSE b[i - n]
  BY <1>2, <1>6
<1> HIDE DEF c
<1>8. DOMAIN E = 1 .. n + m
  BY <1>7
<1>9. \A i \in 1 .. n : E[i] = a[i]
  BY <1>1, <1>7
<1>10. ASSUME NEW i \in 1 .. m PROVE E[n + i] = b[i]
  <2>1. n + i \in 1 .. n + m /\ ~(n + i <= n) /\ (n + i) - n = i
    BY <1>1
  <2>2. QED
    BY <1>7, <2>1
<1>11. ASSUME NEW i \in 1 .. n + m
       PROVE  i \in 1 .. n \/ \E j \in 1 .. m : i = n + j
  <2>1. CASE i <= n
    BY <1>1, <2>1
  <2>2. CASE ~(i <= n)
    <3>1. i - n \in 1 .. m /\ i = n + (i - n)
      BY <1>1, <2>2
    <3>2. QED
      BY <3>1
  <2>3. QED
    BY <2>1, <2>2
<1>12. QED
  BY <1>3, <1>8, <1>9, <1>10, <1>11 DEF n, m

LEMMA TiledExtents ==
  ASSUME NEW files \in Seq(Entries), NEW queue \in Seq(Holes), NEW idx \in Nat,
         Tiled(files, queue, idx), NEW E,
         E = PiecesOf(files, queue)
  PROVE  /\ UNION {E[i] : i \in DOMAIN E} = 1 .. idx - 1
         /\ \A i, j \in DOMAIN E : i # j => E[i] \cap E[j] = {}
<1> DEFINE n == Len(files)
           m == Len(queue)
<1>1. /\ DOMAIN E = 1 .. n + m
      /\ \A i \in 1 .. n : E[i] = Extent(files[i])
      /\ \A i \in 1 .. m : E[n + i] = Extent(queue[i])
      /\ \A i \in 1 .. n + m : i \in 1 .. n \/ \E j \in 1 .. m : i = n + j
  BY Pieces
<1>2. n \in Nat /\ m \in Nat
  OBVIOUS
<1>3. /\ \A i \in 1 .. n : files[i].position \in Nat /\ files[i].size \in Nat
      /\ \A i \in 1 .. m : queue[i].position \in Nat /\ queue[i].size \in Nat
  BY Numbers
<1>4. /\ \A i \in 1 .. n : Within(files[i], idx)
      /\ \A i \in 1 .. m : Within(queue[i], idx)
      /\ \A i, j \in 1 .. n : i # j => Apart(files[i], files[j])
      /\ \A i, j \in 1 .. m : i # j => Apart(queue[i], queue[j])
      /\ \A i \in 1 .. n, j \in 1 .. m : Apart(files[i], queue[j])
      /\ \A p \in 1 .. idx - 1 :
           (\E i \in 1 .. n : In(p, files[i])) \/ (\E j \in 1 .. m : In(p, queue[j]))
  BY DEF Tiled
<1> HIDE DEF n, m
<1>5. /\ \A i \in 1 .. n : i \in 1 .. n + m
      /\ \A i \in 1 .. m : n + i \in 1 .. n + m
  BY <1>2
<1>6. ASSUME NEW i \in DOMAIN E PROVE E[i] \subseteq 1 .. idx - 1
  <2>1. \A k \in 1 .. n : E[k] \subseteq 1 .. idx - 1
    BY <1>1, <1>3, <1>4, PieceExtent
  <2>2. \A k \in 1 .. m : E[n + k] \subseteq 1 .. idx - 1
    BY <1>1, <1>3, <1>4, PieceExtent
  <2>3. i \in 1 .. n \/ \E j \in 1 .. m : i = n + j
    BY <1>1
  <2>4. QED
    BY <2>1, <2>2, <2>3
<1>7. ASSUME NEW p \in 1 .. idx - 1 PROVE \E i \in DOMAIN E : p \in E[i]
  <2>1. p \in Int
    OBVIOUS
  <2>2. CASE \E i \in 1 .. n : In(p, files[i])
    <3>1. PICK i \in 1 .. n : In(p, files[i])
      BY <2>2
    <3>2. p \in Extent(files[i])
      BY <1>3, <2>1, <3>1, PieceExtent
    <3>3. i \in DOMAIN E /\ p \in E[i]
      BY <1>1, <1>5, <3>2
    <3>4. QED
      BY <3>3
  <2>3. CASE \E j \in 1 .. m : In(p, queue[j])
    <3>1. PICK j \in 1 .. m : In(p, queue[j])
      BY <2>3
    <3>2. p \in Extent(queue[j])
      BY <1>3, <2>1, <3>1, PieceExtent
    <3>3. n + j \in DOMAIN E /\ p \in E[n + j]
      BY <1>1, <1>5, <3>2
    <3>4. QED
      BY <3>3
  <2>4. QED
    BY <1>4, <2>2, <2>3
<1>8. UNION {E[i] : i \in DOMAIN E} = 1 .. idx - 1
  BY <1>6, <1>7
<1>9. ASSUME NEW i \in DOMAIN E, NEW j \in DOMAIN E, i # j
      PROVE  E[i] \cap E[j] = {}
  <2>1. i \in 1 .. n + m /\ j \in 1 .. n + m
    BY <1>1
  <2>2. CASE i \in 1 .. n /\ j \in 1 .. n
    <3>1. Extent(files[i]) \cap Extent(files[j]) = {}
      BY <1>3, <1>4, <1>9, <2>2, PieceExtent
    <3>2. QED
      BY <1>1, <2>2, <3>1
  <2>3. ASSUME NEW k \in 1 .. n, NEW l \in 1 .. m
        PROVE  E[k] \cap E[n + l] = {} /\ E[n + l] \cap E[k] = {}
    <3>1. /\ Extent(files[k]) \cap Extent(queue[l]) = {}
          /\ Extent(queue[l]) \cap Extent(files[k]) = {}
      BY <1>3, <1>4, PieceExtent
    <3>2. QED
      BY <1>1, <3>1
  <2>4. ASSUME NEW k \in 1 .. m, NEW l \in 1 .. m, i = n + k, j = n + l
        PROVE  E[i] \cap E[j] = {}
    <3>1. k # l
      BY <1>9, <2>4
    <3>2. Extent(queue[k]) \cap Extent(queue[l]) = {}
      BY <1>3, <1>4, <3>1, PieceExtent
    <3>3. E[n + k] \cap E[n + l] = {}
      BY <1>1, <3>2
    <3>4. QED
      BY <2>4, <3>3
  <2>5. (i \in 1 .. n \/ \E k \in 1 .. m : i = n + k)
        /\ (j \in 1 .. n \/ \E l \in 1 .. m : j = n + l)
    BY <1>1, <2>1
  <2>6. QED
    BY <2>2, <2>3, <2>4, <2>5
<1>10. QED
  BY <1>8, <1>9

(* No unit of the data region belongs to two files or holes, and none is   *)
(* lost to all.                                                            *)
THEOREM TilingHolds == FsSpec => []RegionTiled
<1>1. IInv => RegionTiled
  <2> SUFFICES ASSUME IInv, state = "open", ~spoilt
               PROVE  /\ UNION {Extents[i] : i \in DOMAIN Extents} = 1 .. vfs.indexOffset - 1
                      /\ \A i, j \in DOMAIN Extents : i # j => Extents[i] \cap Extents[j] = {}
    BY DEF RegionTiled
  <2> DEFINE files == vfs.files
             queue == vfs.removeQueue
             idx == vfs.indexOffset
  <2>1. vfs \in Archives /\ Sound(vfs, stored)
    BY DEF IInv, ArchiveOK, OpenOK
  <2>2. files \in Seq(Entries) /\ queue \in Seq(Holes) /\ idx \in Nat
    BY <2>1, ArchiveFields
  <2>3. Tiled(files, queue, idx)
    BY <2>1 DEF Sound
  <2>4. Extents = PiecesOf(files, queue)
    BY DEF Extents, PiecesOf
  <2> HIDE DEF files, queue, idx
  <2>5. /\ UNION {Extents[i] : i \in DOMAIN Extents} = 1 .. idx - 1
        /\ \A i, j \in DOMAIN Extents : i # j => Extents[i] \cap Extents[j] = {}
    BY <2>2, <2>3, <2>4, TiledExtents
  <2>6. QED
    BY <2>5 DEF idx
<1>2. QED
  BY <1>1, Always, PTL

(***************************************************************************)
(* What a program sees of a path, from what was stored alone.              *)
(***************************************************************************)
SeenOf(s, v, pl, pref, path) ==
  LET normal  == pl[path] # Nothing
      place   == IF s = "open" /\ (pref \/ ~normal) THEN "archive"
                 ELSE IF normal THEN "plain" ELSE "nowhere"
      found   == place = "plain" \/ (place = "archive" /\ vfs_exists(v, path))
  IN  << found, IF found
                THEN IF place = "archive" THEN vfs_read(v, path)
                     ELSE Plain(pl[path].version, pl[path].size)
                ELSE <<>> >>

Absent == << FALSE, <<>> >>

Present(what) == <<TRUE, Plain(what.version, what.size)>>

Content(what) == IF what = Nothing THEN Absent ELSE Present(what)

View(s, st, pl, pref, path) ==
  IF s = "open" /\ (pref \/ pl[path] = Nothing) THEN Content(st[path])
  ELSE Content(pl[path])

LEMMA SeenNow ==
  ASSUME NEW path
  PROVE  Seen(path) = SeenOf(state, vfs, plain, preferVFS, path)
BY Zenon DEF Seen, SeenOf, exists, load, resolveLocation

LEMMA SeenIsView ==
  ASSUME NEW s, NEW v, NEW st \in [Ids -> Stored], NEW pl \in [Ids -> Stored], NEW pref,
         ArchiveOK(s, v, st), NEW path \in Ids
  PROVE  SeenOf(s, v, pl, pref, path) = View(s, st, pl, pref, path)
<1>1. CASE s = "open" /\ (pref \/ pl[path] = Nothing)
  <2>1. SeenOf(s, v, pl, pref, path)
          = << vfs_exists(v, path), IF vfs_exists(v, path) THEN vfs_read(v, path) ELSE <<>> >>
    <3>1. "archive" # "plain"
      OBVIOUS
    <3>2. ("archive" = "plain" \/ ("archive" = "archive" /\ vfs_exists(v, path)))
            = vfs_exists(v, path)
      <4>1. vfs_exists(v, path) \in BOOLEAN
        BY DEF vfs_exists
      <4>2. QED
        BY <3>1, <4>1
    <3>3. QED
      BY <1>1, <3>1, <3>2, Zenon DEF SeenOf
  <2>2. View(s, st, pl, pref, path) = Content(st[path])
    BY <1>1, Zenon DEF View
  <2>3. v \in Archives /\ Sound(v, st)
    BY <1>1 DEF ArchiveOK, OpenOK
  <2>4. /\ v.files \in Seq(Entries) /\ v.units \in Seq(Units) /\ v.indexOffset \in Nat
    BY <2>3, ArchiveFields
  <2>5. /\ Kept(v.files, v.indexOffset, v.units, st)
        /\ \A i \in 1 .. Len(v.files) : Within(v.files[i], v.indexOffset)
    BY <2>3 DEF Sound, Tiled
  <2>6. /\ st[path] = Nothing => ~vfs_exists(v, path)
        /\ st[path] # Nothing =>
             vfs_exists(v, path) /\ vfs_read(v, path) = Plain(st[path].version, st[path].size)
    BY <2>4, <2>5, ReadFile
  <2>7. vfs_exists(v, path) \in BOOLEAN
    BY DEF vfs_exists
  <2> DEFINE x == vfs_exists(v, path)
             r == vfs_read(v, path)
             w == st[path]
             q == Plain(w.version, w.size)
  <2>8. /\ w = Nothing => ~x
        /\ w # Nothing => x /\ r = q
        /\ x \in BOOLEAN
    BY <2>6, <2>7
  <2>9. Content(w) = IF w = Nothing THEN << FALSE, <<>> >> ELSE <<TRUE, q>>
    BY DEF Content, Absent, Present
  <2> HIDE DEF x, r, w, q
  <2>10. CASE w = Nothing
    <3>1. x = FALSE
      BY <2>8, <2>10
    <3>2. << x, IF x THEN r ELSE <<>> >> = << FALSE, <<>> >>
      BY <3>1, Zenon
    <3>3. QED
      BY <2>1, <2>2, <2>9, <2>10, <3>2 DEF x, r, w
  <2>11. CASE w # Nothing
    <3>1. x = TRUE /\ r = q
      BY <2>8, <2>11
    <3>2. << x, IF x THEN r ELSE <<>> >> = <<TRUE, q>>
      BY <3>1, Zenon
    <3>3. QED
      BY <2>1, <2>2, <2>9, <2>11, <3>2 DEF x, r, w
  <2>12. QED
    BY <2>10, <2>11
<1>2. CASE ~(s = "open" /\ (pref \/ pl[path] = Nothing))
  <2>1. View(s, st, pl, pref, path) = Content(pl[path])
    BY <1>2, Zenon DEF View
  <2>2. CASE pl[path] # Nothing
    <3>1. ~(s = "open" /\ (pref \/ ~(pl[path] # Nothing)))
      BY <1>2
    <3>2. "plain" # "archive" /\ ("plain" = "plain" \/ FALSE) = TRUE
      OBVIOUS
    <3>3. SeenOf(s, v, pl, pref, path) = <<TRUE, Plain(pl[path].version, pl[path].size)>>
      <4>1. ("plain" = "plain" \/ ("plain" = "archive" /\ vfs_exists(v, path))) = TRUE
        BY <3>2
      <4>2. QED
        BY <2>2, <3>1, <3>2, <4>1, Zenon DEF SeenOf
    <3>4. QED
      BY <2>1, <2>2, <3>3, Zenon DEF Content, Present
  <2>3. CASE pl[path] = Nothing
    <3>1. ~(s = "open" /\ (pref \/ ~(pl[path] # Nothing)))
      BY <1>2
    <3>2. ("nowhere" = "plain" \/ ("nowhere" = "archive" /\ vfs_exists(v, path))) = FALSE
      OBVIOUS
    <3>3. SeenOf(s, v, pl, pref, path) = << FALSE, <<>> >>
      BY <2>3, <3>1, <3>2, Zenon DEF SeenOf
    <3>4. QED
      BY <2>1, <2>3, <3>3, Zenon DEF Content, Absent
  <2>4. QED
    BY <2>2, <2>3
<1>3. QED
  BY <1>1, <1>2

LEMMA SeenNext ==
  ASSUME NEW path
  PROVE  Seen(path)' = SeenOf(state', vfs', plain', preferVFS', path)
BY Zenon DEF Seen, SeenOf, exists, load, resolveLocation

LEMMA ViewNow ==
  ASSUME IInv, ~spoilt, NEW path \in Ids
  PROVE  Seen(path) = View(state, stored, plain, preferVFS, path)
BY SeenNow, SeenIsView DEF IInv

LEMMA ViewNext ==
  ASSUME IInv', ~spoilt', NEW path \in Ids
  PROVE  Seen(path)' = View(state', stored', plain', preferVFS', path)
<1>1. /\ stored' \in [Ids -> Stored] /\ plain' \in [Ids -> Stored]
      /\ ArchiveOK(state', vfs', stored')
  BY DEF IInv
<1>2. SeenOf(state', vfs', plain', preferVFS', path)
        = View(state', stored', plain', preferVFS', path)
  BY <1>1, SeenIsView
<1>3. QED
  BY <1>2, SeenNext

(* What the file holds is not nothing. *)
LEMMA SomethingStored ==
  ASSUME stores \in Nat, NEW k \in Nat, NEW what, what = [version |-> stores + 1, size |-> k]
  PROVE  /\ what # Nothing
         /\ Content(what) = <<TRUE, Plain(stores + 1, k)>>
<1>1. what.version = stores + 1 /\ what.size = k
  OBVIOUS
<1>2. Nothing.version = 0
  BY DEF Nothing
<1>3. stores + 1 # 0
  OBVIOUS
<1>4. what # Nothing
  BY <1>1, <1>2, <1>3
<1>5. QED
  BY <1>1, <1>4 DEF Content, Present

LEMMA StoreShows ==
  ASSUME IInv, IInv', ~spoilt', NEW path \in Ids, NEW k \in Sizes, NEW compress \in BOOLEAN,
         StoreFile(path, k, compress)
  PROVE  /\ IF resolveLocation(path, FALSE) = "archive" /\ k = 0 /\ ~compress
            THEN ~exists(path)'
            ELSE Seen(path)' = <<TRUE, Plain(stores', k)>>
         /\ \A other \in Ids \ {path} : Seen(other)' = Seen(other)
<1> DEFINE what == [version |-> stores + 1, size |-> k]
<1>1. /\ stores \in Nat /\ k \in Nat /\ stored \in [Ids -> Stored] /\ plain \in [Ids -> Stored]
      /\ stores \in 0 .. MaxStores
  BY SizesAssumption, LimitAssumption DEF IInv
<1>2. what # Nothing /\ Content(what) = <<TRUE, Plain(stores + 1, k)>>
  BY <1>1, SomethingStored
<1>3. /\ state' = state /\ preferVFS' = preferVFS /\ stores' = stores + 1 /\ ~spoilt
      /\ \/ /\ state = "open" /\ preferVFS
            /\ stored' = [stored EXCEPT ![path] = StoredBy(stores + 1, k, compress)]
            /\ plain' = plain
         \/ /\ ~(state = "open" /\ preferVFS) /\ stored' = stored
            /\ plain' = [plain EXCEPT ![path] = what]
  <2>1. CASE resolveLocation(path, FALSE) = "archive" /\ store(path, k, compress)
             /\ UNCHANGED <<plain, preferVFS>>
    <3>1. state = "open" /\ preferVFS
      BY <2>1 DEF resolveLocation
    <3>2. stored' = [stored EXCEPT ![path] = StoredBy(stores + 1, k, compress)]
      BY <2>1, Zenon DEF store, StoredBy
    <3>3. state' = state /\ stores' = stores + 1 /\ (spoilt => spoilt')
      BY <2>1 DEF store
    <3> HIDE DEF what
    <3>4. QED
      BY <2>1, <3>1, <3>2, <3>3
  <2>2. CASE /\ resolveLocation(path, FALSE) = "plain"
             /\ stores' = stores + 1 /\ plain' = [plain EXCEPT ![path] = what]
             /\ UNCHANGED <<state, vfs, inBuffer, stored, spoilt, preferVFS>>
    <3>1. ~(state = "open" /\ preferVFS)
      BY <2>2 DEF resolveLocation
    <3> HIDE DEF what
    <3>2. QED
      BY <2>2, <3>1
  <2>3. QED
    BY <2>1, <2>2 DEF StoreFile
<1>4. \A other \in Ids : Seen(other) = View(state, stored, plain, preferVFS, other)
  BY <1>3, ViewNow
<1>5. \A other \in Ids : Seen(other)' = View(state, stored', plain', preferVFS, other)
  BY <1>3, ViewNext
<1> HIDE DEF what
<1>6. \A other \in Ids \ {path} : stored'[other] = stored[other] /\ plain'[other] = plain[other]
  BY <1>1, <1>3
<1>7. ASSUME NEW other \in Ids \ {path}
      PROVE  Seen(other)' = Seen(other)
  <2>1. View(state, stored', plain', preferVFS, other)
          = View(state, stored, plain, preferVFS, other)
    BY <1>6 DEF View
  <2>2. QED
    BY <1>4, <1>5, <2>1
<1> DEFINE lost == resolveLocation(path, FALSE) = "archive" /\ k = 0 /\ ~compress
<1>8. lost <=> state = "open" /\ preferVFS /\ k = 0 /\ ~compress
  BY DEF resolveLocation
<1> HIDE DEF lost
<1>9. CASE state = "open" /\ preferVFS
  <2>1. /\ stored' = [stored EXCEPT ![path] = StoredBy(stores + 1, k, compress)]
        /\ plain' = plain
    BY <1>3, <1>9
  <2>2. stored'[path] = StoredBy(stores + 1, k, compress)
    BY <1>1, <2>1
  <2>3. Seen(path)' = Content(StoredBy(stores + 1, k, compress))
    BY <1>5, <1>9, <2>2 DEF View
  <2>4. CASE k = 0 /\ ~compress
    <3>1. StoredBy(stores + 1, k, compress) = Nothing
      BY <2>4 DEF StoredBy
    <3>2. Seen(path)' = Absent
      BY <2>3, <3>1 DEF Content
    <3>3. lost /\ ~exists(path)'
      BY <1>8, <1>9, <2>4, <3>2 DEF Seen, Absent
    <3>4. QED
      BY <1>7, <3>3 DEF lost
  <2>5. CASE ~(k = 0 /\ ~compress)
    <3>1. StoredBy(stores + 1, k, compress) = what
      BY <2>5 DEF StoredBy, what
    <3>2. Seen(path)' = <<TRUE, Plain(stores', k)>>
      BY <1>2, <1>3, <2>3, <3>1
    <3>3. ~lost
      BY <1>8, <2>5
    <3>4. QED
      BY <1>7, <3>2, <3>3 DEF lost
  <2>6. QED
    BY <2>4, <2>5
<1>10. CASE ~(state = "open" /\ preferVFS)
  <2>1. plain' = [plain EXCEPT ![path] = what]
    BY <1>3, <1>10
  <2>2. plain'[path] = what
    BY <1>1, <2>1
  <2>3. ~(state = "open" /\ (preferVFS \/ plain'[path] = Nothing))
    BY <1>2, <1>10, <2>2
  <2>4. Seen(path)' = Content(what)
    BY <1>5, <2>2, <2>3 DEF View
  <2>5. Seen(path)' = <<TRUE, Plain(stores', k)>>
    BY <1>2, <1>3, <2>4
  <2>6. ~lost
    BY <1>8, <1>10
  <2>7. QED
    BY <1>7, <2>5, <2>6 DEF lost
<1>11. QED
  BY <1>9, <1>10

(* Whatever has been stored, removed, opened, closed or preferred since:   *)
(* the latest store is what a load sees if a store would go there too.     *)
LEMMA LatestShows ==
  ASSUME IInv', ~spoilt'
  PROVE  LatestIsSeen'
<1> SUFFICES ASSUME NEW path \in Ids, Latest(path)' # Nothing,
                    resolveLocation(path, FALSE)' = LatestPlace(path)'
             PROVE  Seen(path)' = <<TRUE, Plain(Latest(path)'.version, Latest(path)'.size)>>
  BY DEF LatestIsSeen
<1>1. stored'[path] \in Stored /\ plain'[path] \in Stored
  BY DEF IInv
<1>2. Seen(path)' = View(state', stored', plain', preferVFS', path)
  BY ViewNext
<1>3. Present(Latest(path)') = <<TRUE, Plain(Latest(path)'.version, Latest(path)'.size)>>
  BY DEF Present
<1>4. CASE plain'[path].version > stored'[path].version
  <2>1. LatestPlace(path)' = "plain" /\ Latest(path)' = plain'[path]
    BY <1>4 DEF LatestPlace, Latest
  <2>2. ~(state' = "open" /\ preferVFS')
    BY <2>1 DEF resolveLocation
  <2>3. plain'[path] # Nothing
    BY <2>1
  <2>4. View(state', stored', plain', preferVFS', path) = Present(Latest(path)')
    BY <2>1, <2>2, <2>3 DEF View, Content
  <2>5. QED
    BY <1>2, <1>3, <2>4
<1>5. CASE ~(plain'[path].version > stored'[path].version)
  <2>1. LatestPlace(path)' = "archive" /\ Latest(path)' = stored'[path]
    BY <1>5 DEF LatestPlace, Latest
  <2>2. state' = "open" /\ preferVFS'
    BY <2>1 DEF resolveLocation
  <2>3. stored'[path] # Nothing
    BY <2>1
  <2>4. View(state', stored', plain', preferVFS', path) = Present(Latest(path)')
    BY <2>1, <2>2, <2>3 DEF View, Content
  <2>5. QED
    BY <1>2, <1>3, <2>4
<1>6. QED
  BY <1>4, <1>5

(* A load of the path that was stored gives what was stored under it, no   *)
(* other path changes, although the archive may have moved it, and the     *)
(* calls that store nothing keep the latest stores visible.                *)
THEOREM StoresAreSeen == FsSpec => StoreIsSeen
<1>1. IInv /\ IInv' =>
        [~spoilt' =>
           IF stores' = stores THEN LatestIsSeen'
           ELSE \A path \in Ids, k \in Sizes, compress \in BOOLEAN :
                  StoreFile(path, k, compress) =>
                    /\ IF /\ resolveLocation(path, FALSE) = "archive"
                          /\ k = 0 /\ ~compress
                       THEN ~exists(path)'
                       ELSE Seen(path)' = <<TRUE, Plain(stores', k)>>
                    /\ \A other \in Ids \ {path} :
                         Seen(other)' = Seen(other)]_fsVars
  <2> SUFFICES ASSUME IInv, IInv', ~spoilt'
               PROVE  /\ LatestIsSeen'
                      /\ \A path \in Ids, k \in Sizes, compress \in BOOLEAN :
                           StoreFile(path, k, compress) =>
                             /\ IF /\ resolveLocation(path, FALSE) = "archive"
                                   /\ k = 0 /\ ~compress
                                THEN ~exists(path)'
                                ELSE Seen(path)' = <<TRUE, Plain(stores', k)>>
                             /\ \A other \in Ids \ {path} : Seen(other)' = Seen(other)
    OBVIOUS
  <2>1. LatestIsSeen'
    BY LatestShows
  <2>2. QED
    BY <2>1, StoreShows
<1>2. QED
  BY <1>1, Always, PTL DEF FsSpec, StoreIsSeen
==============================================================================

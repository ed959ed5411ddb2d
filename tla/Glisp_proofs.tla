---------------------------- MODULE Glisp_proofs ----------------------------
(***************************************************************************)
(* Proofs about the memory of the LISP interpreter, for any names and      *)
(* literals, any number of variables, cells and frames.                    *)
(*                                                                         *)
(* A value is defined by what nextCell does with it: counting its cells,   *)
(* delim is ahead until the last.  Forest says the same of m values one    *)
(* behind the other; forests may be joined (ForestConcat), put under a     *)
(* head (ForestUnder) and taken apart (ForestFirst, ForestBehind).  From   *)
(* this follows what each operation on lists makes of a value, from        *)
(* PushedValue to DeletedValue, CarOfValue and CdrOfValue.                 *)
(*                                                                         *)
(* The invariant IInv says that the variables lie on the stack in the      *)
(* order of the index, each a value or a cell in its place, none across    *)
(* another (LaidOut); outside every frame with nothing between them or     *)
(* behind (Tiled); and, until a statement breaks the memory, that every    *)
(* detached variable has a container with a value in it and no other       *)
(* container is outside the pool (Stocked, Owned).  That a sweep keeps     *)
(* this takes a record of which variable was which (SweptBy), and that a   *)
(* sweep which loses no key makes none (SweptDetached), by counting.       *)
(***************************************************************************)

EXTENDS Glisp, SequenceTheorems, FiniteSetTheorems, WellFoundedInduction, TLAPS

(***************************************************************************)
(* Induction.                                                              *)
(***************************************************************************)
Less == {pair \in Nat \X Nat : pair[1] < pair[2]}

LEMMA LessWellFounded == IsWellFoundedOn(Less, Nat)
  BY NatLessThanWellFounded DEF OpToRel, Less

(* A set of numbers has a least one. *)
LEMMA Least ==
  ASSUME NEW S, S \subseteq Nat, S # {}
  PROVE  \E m \in S : \A k \in S : m <= k
<1>1. PICK m \in S : \A k \in S : ~ (<<k, m>> \in Less)
  BY LessWellFounded, WFMin
<1>2. ASSUME NEW k \in S, k < m PROVE FALSE
  <2>1. <<k, m>> \in Less
    BY <1>2 DEF Less
  <2>2. QED
    BY <1>1, <2>1
<1>3. QED
  BY <1>2

(* A set that has 0, and with every number below n the next, has them all  *)
(* up to n.                                                                *)
LEMMA Induction ==
  ASSUME NEW n \in Nat, NEW S, 0 \in S,
         \A k \in Nat : k < n /\ k \in S => k + 1 \in S
  PROVE  \A k \in 0 .. n : k \in S
<1> DEFINE out == {k \in 0 .. n : k \notin S}
<1>1. SUFFICES ASSUME out # {} PROVE FALSE
  OBVIOUS
<1>2. PICK m \in out : \A k \in out : m <= k
  <2>1. out \subseteq Nat
    OBVIOUS
  <2> HIDE DEF out
  <2>2. QED
    BY <1>1, <2>1, Least
<1>3. m \in Nat /\ m # 0 /\ m <= n /\ m \notin S
  BY <1>2
<1>4. m - 1 \in 0 .. n /\ m - 1 \notin out /\ (m - 1) + 1 = m /\ m - 1 \in Nat
  BY <1>2, <1>3
<1>5. m - 1 \in S
  BY <1>4
<1>6. QED
  BY <1>3, <1>4, <1>5

(* A set of numbers up to n has a largest one, and that is Max. *)
LEMMA LargestExists ==
  ASSUME NEW n \in Nat, NEW s \in SUBSET (0 .. n), s # {}
  PROVE  Max(s) \in s /\ \A x \in s : ~ (Max(s) < x)
<1> DEFINE S == {n - x : x \in s}
<1>1. S \subseteq Nat /\ S # {}
  <2>1. \A x \in s : n - x \in Nat
    OBVIOUS
  <2>2. PICK x : x \in s
    OBVIOUS
  <2>3. n - x \in S
    BY <2>2
  <2>4. QED
    BY <2>1, <2>3, Zenon
<1> HIDE DEF S
<1>2. PICK m \in S : \A k \in S : m <= k
  BY <1>1, Least
<1>3. PICK x \in s : m = n - x
  BY DEF S
<1>4. \A y \in s : n - y \in S
  BY DEF S
<1>5. ASSUME NEW y \in s PROVE x >= y
  <2>1. n - x <= n - y
    BY <1>2, <1>3, <1>4
  <2>2. x \in Nat /\ y \in Nat
    OBVIOUS
  <2>3. QED
    BY <2>1, <2>2
<1>6. Max(s) \in s /\ \A y \in s : Max(s) >= y
  BY <1>5 DEF Max
<1> DEFINE top == Max(s)
<1>7. top \in s /\ (\A y \in s : top >= y) /\ \A y \in s : y \in Nat
  BY <1>6
<1> HIDE DEF top
<1>8. ASSUME NEW y \in s PROVE ~ (top < y)
  <2>1. top \in Nat /\ y \in Nat /\ top >= y
    BY <1>7
  <2>2. QED
    BY <2>1
<1>9. QED
  BY <1>7, <1>8 DEF top

(***************************************************************************)
(* Recursion over the numbers up to n.                                     *)
(***************************************************************************)
Recurs(h, base, F, n) ==
  h[0] = base /\ \A i \in 1 .. n : h[i] = F[i][h[i - 1]]

(* There is a function that is what the recursion says, up to n.           *)
LEMMA RecursionExists ==
  ASSUME NEW T, NEW base \in T, NEW n \in Nat, NEW F \in [1 .. n -> [T -> T]]
  PROVE  \E h \in [0 .. n -> T] : Recurs(h, base, F, n)
<1> DEFINE S == {k \in Nat : \E h \in [0 .. k -> T] : Recurs(h, base, F, k)}
<1>1. 0 \in S
  <2> DEFINE h == [i \in 0 .. 0 |-> base]
  <2>1. h \in [0 .. 0 -> T] /\ h[0] = base
    OBVIOUS
  <2> HIDE DEF h
  <2>2. Recurs(h, base, F, 0)
    BY <2>1 DEF Recurs
  <2>3. QED
    BY <2>1, <2>2
<1>2. ASSUME NEW k \in Nat, k < n, k \in S
      PROVE  k + 1 \in S
  <2>1. PICK h \in [0 .. k -> T] : Recurs(h, base, F, k)
    BY <1>2
  <2> DEFINE g == [i \in 0 .. k + 1 |-> IF i = k + 1 THEN F[k + 1][h[k]] ELSE h[i]]
  <2>2. h[k] \in T /\ F[k + 1][h[k]] \in T
    <3>1. k + 1 \in 1 .. n
      BY <1>2
    <3>2. QED
      BY <3>1
  <2>3. /\ g \in [0 .. k + 1 -> T]
        /\ g[k + 1] = F[k + 1][h[k]]
        /\ \A i \in 0 .. k : g[i] = h[i]
    BY <2>2
  <2> HIDE DEF g
  <2>4. g[0] = base
    BY <2>1, <2>3 DEF Recurs
  <2>5. ASSUME NEW i \in 1 .. k + 1
        PROVE  g[i] = F[i][g[i - 1]]
    <3>1. CASE i = k + 1
      <4>1. i - 1 = k
        BY <3>1
      <4>2. g[i - 1] = h[k]
        BY <2>3, <4>1
      <4>3. QED
        BY <2>3, <3>1, <4>2
    <3>2. CASE i # k + 1
      <4>1. i \in 1 .. k /\ i - 1 \in 0 .. k
        BY <3>2
      <4>2. h[i] = F[i][h[i - 1]]
        BY <2>1, <4>1 DEF Recurs
      <4>3. QED
        BY <2>3, <4>1, <4>2
    <3>3. QED
      BY <3>1, <3>2
  <2>6. Recurs(g, base, F, k + 1)
    BY <2>4, <2>5 DEF Recurs
  <2>7. g \in [0 .. k + 1 -> T]
    BY <2>3
  <2>8. QED
    BY <2>6, <2>7
<1> HIDE DEF S
<1>3. \A k \in 0 .. n : k \in S
  BY <1>1, <1>2, Induction
<1>4. n \in S
  BY <1>3
<1>5. QED
  BY <1>4 DEF S

(***************************************************************************)
(* How far nextCell counts: the cells c[from], c[from + 1], ...            *)
(***************************************************************************)
Rest(c, from) == Len(c) - from + 1

IsDelim(f, c, from) ==
  /\ f \in [0 .. Rest(c, from) -> Nat]
  /\ f[0] = 0
  /\ \A n \in 1 .. Rest(c, from) : f[n] = f[n - 1] + Counts(c[from + n - 1])

Delim(c, from) == CHOOSE f : IsDelim(f, c, from)

(* What a cell counts is a number.                                         *)
LEMMA CountsType == \A cell \in CellType : Counts(cell) \in Nat
  BY DEF CellType, Counts

LEMMA RestType ==
  ASSUME NEW c \in Seq(CellType), NEW from \in 1 .. Len(c) + 1
  PROVE  /\ Rest(c, from) \in Nat
         /\ \A n \in 1 .. Rest(c, from) :
              from + n - 1 \in 1 .. Len(c) /\ Counts(c[from + n - 1]) \in Nat
<1>1. Rest(c, from) \in Nat
  BY DEF Rest
<1>2. ASSUME NEW n \in 1 .. Rest(c, from)
      PROVE  from + n - 1 \in 1 .. Len(c) /\ Counts(c[from + n - 1]) \in Nat
  <2>1. from + n - 1 \in 1 .. Len(c)
    BY DEF Rest
  <2>2. c[from + n - 1] \in CellType
    BY <2>1
  <2>3. QED
    BY <2>1, <2>2, CountsType
<1>3. QED
  BY <1>1, <1>2

(* The recursive function of Ends exists for any cells.                    *)
LEMMA DelimExists ==
  ASSUME NEW c \in Seq(CellType), NEW from \in 1 .. Len(c) + 1
  PROVE  \E f : IsDelim(f, c, from)
<1> DEFINE n == Rest(c, from)
           F == [i \in 1 .. n |-> [a \in Nat |-> a + Counts(c[from + i - 1])]]
<1>1. n \in Nat /\ \A i \in 1 .. n : Counts(c[from + i - 1]) \in Nat
  BY RestType
<1> HIDE DEF n
<1>2. F \in [1 .. n -> [Nat -> Nat]]
  <2>1. ASSUME NEW i \in 1 .. n
        PROVE  [a \in Nat |-> a + Counts(c[from + i - 1])] \in [Nat -> Nat]
    <3>1. Counts(c[from + i - 1]) \in Nat
      BY <1>1
    <3>2. QED
      BY <3>1
  <2>2. QED
    BY <2>1
<1>3. \A a \in Nat, i \in 1 .. n : F[i][a] = a + Counts(c[from + i - 1])
  BY <1>1
<1> HIDE DEF F
<1>4. PICK h \in [0 .. n -> Nat] : Recurs(h, 0, F, n)
  BY <1>1, <1>2, RecursionExists
<1>5. ASSUME NEW i \in 1 .. n
      PROVE  h[i] = h[i - 1] + Counts(c[from + i - 1])
  <2>1. i - 1 \in 0 .. n
    BY <1>1
  <2>2. h[i - 1] \in Nat
    BY <2>1
  <2>3. h[i] = F[i][h[i - 1]]
    BY <1>4 DEF Recurs
  <2>4. QED
    BY <1>3, <2>2, <2>3
<1>6. h[0] = 0
  BY <1>4 DEF Recurs
<1>7. IsDelim(h, c, from)
  <2>1. h \in [0 .. Rest(c, from) -> Nat]
    BY DEF n
  <2>2. \A i \in 1 .. Rest(c, from) : h[i] = h[i - 1] + Counts(c[from + i - 1])
    BY <1>5, Zenon DEF n
  <2>3. QED
    BY <1>6, <2>1, <2>2, Zenon DEF IsDelim
<1>8. QED
  BY <1>7

LEMMA DelimIs ==
  ASSUME NEW c \in Seq(CellType), NEW from \in 1 .. Len(c) + 1
  PROVE  IsDelim(Delim(c, from), c, from)
BY DelimExists, Zenon DEF Delim

(* Over the same cells delim is the same.                                  *)
LEMMA DelimsAgree ==
  ASSUME NEW c, NEW from, NEW d, NEW to, NEW m \in Nat,
         NEW f, NEW g, IsDelim(f, c, from), IsDelim(g, d, to),
         m <= Rest(c, from), m <= Rest(d, to),
         Rest(c, from) \in Nat, Rest(d, to) \in Nat,
         \A n \in 1 .. m : c[from + n - 1] = d[to + n - 1]
  PROVE  \A n \in 0 .. m : f[n] = g[n]
<1> DEFINE S == {n \in Nat : n <= m => f[n] = g[n]}
<1>1. 0 \in S
  BY DEF IsDelim
<1>2. ASSUME NEW k \in Nat, k < m, k \in S
      PROVE  k + 1 \in S
  <2>1. /\ k + 1 \in 1 .. m /\ (k + 1) - 1 = k
        /\ k + 1 \in 1 .. Rest(c, from) /\ k + 1 \in 1 .. Rest(d, to)
    BY <1>2
  <2>2. f[k] = g[k] /\ c[from + (k + 1) - 1] = d[to + (k + 1) - 1]
    BY <1>2, <2>1
  <2>3. f[k + 1] = f[(k + 1) - 1] + Counts(c[from + (k + 1) - 1])
    BY <2>1, Zenon DEF IsDelim
  <2>4. g[k + 1] = g[(k + 1) - 1] + Counts(d[to + (k + 1) - 1])
    BY <2>1, Zenon DEF IsDelim
  <2>5. f[k + 1] = g[k + 1]
    BY <2>1, <2>2, <2>3, <2>4
  <2>6. QED
    BY <2>5
<1> HIDE DEF S
<1>3. \A n \in 0 .. m : n \in S
  BY <1>1, <1>2, Induction
<1>4. QED
  BY <1>3 DEF S

(* delim never goes back.                                                  *)
LEMMA DelimGrows ==
  ASSUME NEW c \in Seq(CellType), NEW from \in 1 .. Len(c) + 1,
         NEW f, IsDelim(f, c, from), NEW i \in 0 .. Rest(c, from), NEW j \in i .. Rest(c, from)
  PROVE  f[i] <= f[j]
<1> DEFINE S == {k \in Nat : k <= j - i => f[i] <= f[i + k]}
<1>1. /\ i \in Nat /\ j \in Nat /\ Rest(c, from) \in Nat /\ j - i \in Nat
      /\ f \in [0 .. Rest(c, from) -> Nat]
  BY RestType DEF IsDelim
<1>2. 0 \in S
  <2>1. i + 0 = i /\ f[i] \in Nat
    BY <1>1
  <2>2. QED
    BY <2>1
<1>3. ASSUME NEW k \in Nat, k < j - i, k \in S
      PROVE  k + 1 \in S
  <2>1. i + (k + 1) \in 1 .. Rest(c, from) /\ (i + (k + 1)) - 1 = i + k
    BY <1>1, <1>3
  <2>2. f[i + (k + 1)] = f[i + k] + Counts(c[from + (i + (k + 1)) - 1])
    BY <2>1 DEF IsDelim
  <2>3. Counts(c[from + (i + (k + 1)) - 1]) \in Nat
    BY <2>1, RestType
  <2>4. f[i] <= f[i + k] /\ f[i] \in Nat /\ f[i + k] \in Nat
    BY <1>1, <1>3, <2>1
  <2>5. QED
    BY <2>2, <2>3, <2>4
<1> HIDE DEF S
<1>4. \A k \in 0 .. (j - i) : k \in S
  BY <1>1, <1>2, <1>3, Induction
<1>5. j - i \in S
  BY <1>1, <1>4
<1>6. i + (j - i) = j
  BY <1>1
<1>7. QED
  BY <1>5, <1>6 DEF S

(* Ends, by delim. *)
LEMMA EndsByDelim ==
  ASSUME NEW c \in Seq(CellType), NEW from \in 1 .. Len(c) + 1
  PROVE  Ends(c, from) = {n \in 0 .. Rest(c, from) : n > Delim(c, from)[n]}
<1> DEFINE L == 0 .. Len(c) - from + 1
           delim == CHOOSE delim : delim =
             [n \in L |-> IF n = 0 THEN 0 ELSE delim[n - 1] + Counts(c[from + n - 1])]
<1>1. PICK f : IsDelim(f, c, from)
  BY DelimExists
<1>2. L = 0 .. Rest(c, from) /\ Rest(c, from) \in Nat
  BY RestType DEF Rest
<1> HIDE DEF L
<1>3. f = [n \in L |-> IF n = 0 THEN 0 ELSE f[n - 1] + Counts(c[from + n - 1])]
  <2>1. ASSUME NEW n \in L
        PROVE  f[n] = IF n = 0 THEN 0 ELSE f[n - 1] + Counts(c[from + n - 1])
    <3>1. CASE n = 0
      BY <1>1, <3>1 DEF IsDelim
    <3>2. CASE n # 0
      <4>1. n \in 1 .. Rest(c, from)
        BY <1>2, <3>2
      <4>2. QED
        BY <1>1, <3>2, <4>1 DEF IsDelim
    <3>3. QED
      BY <3>1, <3>2
  <2>2. f = [n \in L |-> f[n]]
    BY <1>1, <1>2 DEF IsDelim
  <2>3. QED
    BY <2>1, <2>2
<1>4. delim = [n \in L |-> IF n = 0 THEN 0 ELSE delim[n - 1] + Counts(c[from + n - 1])]
  BY <1>3, Zenon
<1>5. Ends(c, from) = {n \in DOMAIN delim : n > delim[n]}
  BY Zenon DEF Ends, L
<1> HIDE DEF delim
<1>6. \A n \in L : delim[n] = Delim(c, from)[n]
  <2> DEFINE g == Delim(c, from)
             S == {n \in Nat : n <= Rest(c, from) => delim[n] = g[n]}
  <2>1. IsDelim(g, c, from)
    BY DelimIs
  <2> HIDE DEF g
  <2>2. 0 \in S
    <3>1. 0 \in L
      BY <1>2
    <3>2. delim[0] = 0
      BY <1>4, <3>1
    <3>3. QED
      BY <2>1, <3>2 DEF IsDelim
  <2>3. ASSUME NEW k \in Nat, k < Rest(c, from), k \in S
        PROVE  k + 1 \in S
    <3>1. k + 1 \in L /\ k + 1 # 0 /\ (k + 1) - 1 = k /\ k + 1 \in 1 .. Rest(c, from)
      BY <1>2, <2>3
    <3>2. delim[k + 1] = delim[(k + 1) - 1] + Counts(c[from + (k + 1) - 1])
      <4>1. delim[k + 1] = IF k + 1 = 0 THEN 0
                           ELSE delim[(k + 1) - 1] + Counts(c[from + (k + 1) - 1])
        BY <1>4, <3>1, Zenon
      <4>2. QED
        BY <3>1, <4>1
    <3>3. g[k + 1] = g[(k + 1) - 1] + Counts(c[from + (k + 1) - 1])
      BY <2>1, <3>1, Zenon DEF IsDelim
    <3>4. delim[k] = g[k]
      <4>1. k <= Rest(c, from)
        BY <1>2, <2>3
      <4>2. QED
        BY <2>3, <4>1
    <3>5. delim[k + 1] = g[k + 1]
      BY <3>1, <3>2, <3>3, <3>4
    <3>6. QED
      BY <3>5
  <2> HIDE DEF S
  <2>4. \A n \in 0 .. Rest(c, from) : n \in S
    BY <1>2, <2>2, <2>3, Induction
  <2>5. QED
    BY <1>2, <2>4 DEF S, g
<1>7. DOMAIN delim = L
  BY <1>4
<1>8. QED
  BY <1>2, <1>5, <1>6, <1>7

(***************************************************************************)
(* Values: words of cells that nextCell passes to their end.  A forest of  *)
(* m values is m of them, one behind the other.                            *)
(***************************************************************************)
Forest(w, m) ==
  /\ w \in Seq(ValueCell) /\ m \in Nat
  /\ \A k \in 0 .. Len(w) : k < Len(w) => k < m + Delim(w, 1)[k]
  /\ Len(w) = m + Delim(w, 1)[Len(w)]

LEMMA ValueCells ==
  /\ ValueCell \subseteq CellType
  /\ \A w \in Seq(ValueCell) :
       /\ w \in Seq(CellType) /\ Rest(w, 1) = Len(w) /\ Len(w) \in Nat
       /\ 1 \in 1 .. Len(w) + 1
<1>1. ValueCell \subseteq CellType
  BY DEF ValueCell, CellType
<1>2. ASSUME NEW w \in Seq(ValueCell)
      PROVE  w \in Seq(CellType) /\ Rest(w, 1) = Len(w) /\ Len(w) \in Nat /\ 1 \in 1 .. Len(w) + 1
  <2>1. w \in Seq(CellType)
    BY <1>1
  <2>2. QED
    BY <2>1 DEF Rest
<1>3. QED
  BY <1>1, <1>2

(* The delim of a word: what the lemmas above say of it.                   *)
LEMMA WordDelim ==
  ASSUME NEW w \in Seq(ValueCell)
  PROVE  /\ Delim(w, 1) \in [0 .. Len(w) -> Nat] /\ Delim(w, 1)[0] = 0
         /\ \A n \in 1 .. Len(w) : Delim(w, 1)[n] = Delim(w, 1)[n - 1] + Counts(w[n])
         /\ \A i \in 0 .. Len(w) : \A j \in i .. Len(w) : Delim(w, 1)[i] <= Delim(w, 1)[j]
         /\ Ends(w, 1) = {n \in 0 .. Len(w) : n > Delim(w, 1)[n]}
<1>1. w \in Seq(CellType) /\ Rest(w, 1) = Len(w) /\ 1 \in 1 .. Len(w) + 1 /\ Len(w) \in Nat
  BY ValueCells
<1>2. IsDelim(Delim(w, 1), w, 1)
  BY <1>1, DelimIs
<1>3. Delim(w, 1) \in [0 .. Len(w) -> Nat] /\ Delim(w, 1)[0] = 0
  BY <1>1, <1>2 DEF IsDelim
<1>4. ASSUME NEW n \in 1 .. Len(w)
      PROVE  Delim(w, 1)[n] = Delim(w, 1)[n - 1] + Counts(w[n])
  <2>1. 1 + n - 1 = n
    BY <1>1
  <2>2. Delim(w, 1)[n] = Delim(w, 1)[n - 1] + Counts(w[1 + n - 1])
    BY <1>1, <1>2 DEF IsDelim
  <2>3. QED
    BY <2>1, <2>2
<1>5. ASSUME NEW i \in 0 .. Len(w), NEW j \in i .. Len(w)
      PROVE  Delim(w, 1)[i] <= Delim(w, 1)[j]
  BY <1>1, <1>2, DelimGrows
<1>6. Ends(w, 1) = {n \in 0 .. Len(w) : n > Delim(w, 1)[n]}
  BY <1>1, EndsByDelim
<1>7. QED
  BY <1>3, <1>4, <1>5, <1>6

(* A value is a forest of one. *)
LEMMA ValueIsForest == \A w : IsValue(w) <=> Forest(w, 1)
<1>1. ASSUME NEW w, IsValue(w)
      PROVE  Forest(w, 1)
  <2> DEFINE f == Delim(w, 1)
             n == Len(w)
  <2>1. w \in Seq(ValueCell) /\ Ends(w, 1) = {Len(w)}
    BY <1>1 DEF IsValue
  <2>2. /\ f \in [0 .. n -> Nat] /\ f[0] = 0 /\ n \in Nat
        /\ \A k \in 1 .. n : f[k] = f[k - 1] + Counts(w[k])
        /\ \A i \in 0 .. n : \A j \in i .. n : f[i] <= f[j]
        /\ Ends(w, 1) = {k \in 0 .. n : k > f[k]}
    BY <2>1, WordDelim
  <2> HIDE DEF f, n
  <2>3. \A k \in 0 .. n : f[k] \in Nat /\ (k > f[k] <=> k = n)
    BY <2>1, <2>2 DEF n
  <2>4. \A k \in 0 .. n : k < n => k < 1 + f[k]
    BY <2>2, <2>3
  <2>5. n > f[n] /\ n # 0
    BY <2>2, <2>3
  <2>6. n - 1 <= f[n - 1] /\ f[n - 1] <= f[n]
    <3>1. n - 1 \in 0 .. n /\ n \in (n - 1) .. n
      BY <2>2, <2>5
    <3>2. QED
      BY <2>2, <2>3, <2>5, <3>1
  <2>7. n = 1 + f[n]
    <3>1. n \in 0 .. n /\ n - 1 \in 0 .. n
      BY <2>2, <2>5
    <3>2. QED
      BY <2>2, <2>3, <2>5, <2>6, <3>1
  <2>8. QED
    BY <2>1, <2>4, <2>7 DEF Forest, f, n
<1>2. ASSUME NEW w, Forest(w, 1)
      PROVE  IsValue(w)
  <2> DEFINE f == Delim(w, 1)
             n == Len(w)
  <2>1. /\ w \in Seq(ValueCell)
        /\ \A k \in 0 .. n : k < n => k < 1 + f[k]
        /\ n = 1 + f[n]
    BY <1>2 DEF Forest
  <2>2. /\ f \in [0 .. n -> Nat] /\ n \in Nat
        /\ Ends(w, 1) = {k \in 0 .. n : k > f[k]}
    BY <2>1, WordDelim
  <2> HIDE DEF f, n
  <2>3. \A k \in 0 .. n : f[k] \in Nat /\ (k > f[k] <=> k = n)
    BY <2>1, <2>2
  <2>4. Ends(w, 1) = {n}
    BY <2>2, <2>3
  <2>5. QED
    BY <2>1, <2>4 DEF IsValue, n
<1>3. QED
  BY <1>1, <1>2

(***************************************************************************)
(* Where a word lies among other cells.                                    *)
(***************************************************************************)
Lies(c, from, w) ==
  /\ from \in Nat /\ from > 0 /\ from + Len(w) <= Len(c) + 1
  /\ \A n \in 1 .. Len(w) : c[from + n - 1] = w[n]

(* Where a word lies, delim is what it is on the word alone.               *)
LEMMA DelimLies ==
  ASSUME NEW c \in Seq(CellType), NEW from, NEW w \in Seq(ValueCell), Lies(c, from, w)
  PROVE  /\ from \in 1 .. Len(c) + 1 /\ Len(w) <= Rest(c, from) /\ Rest(c, from) \in Nat
         /\ \A n \in 0 .. Len(w) : Delim(c, from)[n] = Delim(w, 1)[n]
<1>1. /\ w \in Seq(CellType) /\ Rest(w, 1) = Len(w) /\ Len(w) \in Nat
      /\ 1 \in 1 .. Len(w) + 1
  BY ValueCells
<1>2. from \in 1 .. Len(c) + 1 /\ Len(w) <= Rest(c, from) /\ Rest(c, from) \in Nat
  BY <1>1 DEF Lies, Rest
<1>3. IsDelim(Delim(c, from), c, from) /\ IsDelim(Delim(w, 1), w, 1)
  BY <1>1, <1>2, DelimIs
<1>4. \A n \in 1 .. Len(w) : c[from + n - 1] = w[1 + n - 1]
  <2>1. \A n \in 1 .. Len(w) : 1 + n - 1 = n
    BY <1>1
  <2>2. QED
    BY <2>1 DEF Lies
<1>5. \A n \in 0 .. Len(w) : Delim(c, from)[n] = Delim(w, 1)[n]
  <2> DEFINE f == Delim(c, from)
             g == Delim(w, 1)
             m == Len(w)
  <2>1. m \in Nat /\ m <= Rest(w, 1) /\ Rest(w, 1) \in Nat
    BY <1>1
  <2>2. m <= Rest(c, from) /\ Rest(c, from) \in Nat
    BY <1>2
  <2>3. IsDelim(f, c, from) /\ IsDelim(g, w, 1)
    BY <1>3
  <2>4. \A n \in 1 .. m : c[from + n - 1] = w[1 + n - 1]
    BY <1>4
  <2> HIDE DEF f, g, m
  <2>5. \A n \in 0 .. m : f[n] = g[n]
    BY <2>1, <2>2, <2>3, <2>4, DelimsAgree
  <2>6. QED
    BY <2>5 DEF f, g, m
<1>6. QED
  BY <1>2, <1>5

(* Min, of a set that has a least number.                                  *)
LEMMA LeastIsMin ==
  ASSUME NEW S, NEW m \in S, \A x \in S : x \in Int /\ m <= x
  PROVE  Min(S) = m
<1>1. \A x \in S : (\A y \in S : x <= y) => x = m
  OBVIOUS
<1>2. QED
  BY <1>1 DEF Min

(* nextCell passes a value, wherever it lies. *)
LEMMA ValueCounted ==
  ASSUME NEW c \in Seq(CellType), NEW from, NEW w, IsValue(w), Lies(c, from, w)
  PROVE  countElements(c, from) = Len(w) /\ CellsAt(c, from) = w
<1>1. w \in Seq(ValueCell) /\ Forest(w, 1)
  BY ValueIsForest DEF IsValue
<1> DEFINE f == Delim(w, 1)
           g == Delim(c, from)
           n == Len(w)
           r == Rest(c, from)
<1>2. /\ \A k \in 0 .. n : k < n => k < 1 + f[k]
      /\ n = 1 + f[n] /\ n \in Nat /\ f \in [0 .. n -> Nat]
  BY <1>1, WordDelim DEF Forest
<1>3. /\ from \in 1 .. Len(c) + 1 /\ n <= r /\ r \in Nat
      /\ \A k \in 0 .. n : g[k] = f[k]
  BY <1>1, DelimLies
<1>4. Ends(c, from) = {k \in 0 .. r : k > g[k]}
  BY <1>3, EndsByDelim
<1> HIDE DEF f, g, n, r
<1>5. n \in Ends(c, from)
  <2>1. n \in 0 .. r /\ n \in 0 .. n
    BY <1>2, <1>3
  <2>2. f[n] \in Nat /\ g[n] = f[n]
    BY <1>2, <1>3, <2>1
  <2>3. n > g[n]
    BY <1>2, <2>2
  <2>4. QED
    BY <1>4, <2>1, <2>3
<1>6. ASSUME NEW k \in Ends(c, from)
      PROVE  k \in Int /\ n <= k
  <2>1. k \in 0 .. r /\ k > g[k]
    BY <1>4
  <2>2. ASSUME k < n PROVE FALSE
    <3>1. k \in 0 .. n /\ f[k] \in Nat /\ g[k] = f[k]
      BY <1>2, <1>3, <2>1, <2>2
    <3>2. k < 1 + f[k]
      BY <1>2, <2>2, <3>1
    <3>3. QED
      BY <2>1, <3>1, <3>2
  <2>3. QED
    BY <1>2, <1>3, <2>1, <2>2
<1>7. countElements(c, from) = n
  BY <1>5, <1>6, LeastIsMin DEF countElements
<1>8. CellsAt(c, from) = w
  <2>1. CellsAt(c, from) = SubSeq(c, from, from + Len(w) - 1)
    BY <1>7 DEF CellsAt, n
  <2>2. /\ Len(w) \in Nat /\ from \in Nat /\ from > 0 /\ from + Len(w) <= Len(c) + 1
        /\ \A i \in 1 .. Len(w) : c[from + i - 1] = w[i]
    BY <1>2 DEF Lies, n
  <2> DEFINE s == SubSeq(c, from, from + Len(w) - 1)
  <2>3. s \in Seq(CellType) /\ Len(s) = Len(w) /\ \A i \in 1 .. Len(w) : s[i] = c[from + i - 1]
    BY <2>2
  <2> HIDE DEF s
  <2>4. w \in Seq(CellType)
    BY <1>1, ValueCells
  <2>5. s = w
    BY <2>2, <2>3, <2>4
  <2>6. QED
    BY <2>1, <2>5 DEF s
<1>9. QED
  BY <1>7, <1>8 DEF n

(***************************************************************************)
(* Forests behind one another, under a head, and apart again.              *)
(***************************************************************************)
LEMMA DelimBehind ==
  ASSUME NEW w \in Seq(ValueCell), NEW p \in Nat, NEW b \in Seq(ValueCell), Lies(w, p + 1, b)
  PROVE  /\ p + Len(b) <= Len(w)
         /\ \A j \in 0 .. Len(b) : Delim(w, 1)[p + j] = Delim(w, 1)[p] + Delim(b, 1)[j]
<1> DEFINE f == Delim(w, 1)
           g == Delim(b, 1)
           n == Len(w)
           m == Len(b)
           S == {j \in Nat : j <= m => f[p + j] = f[p] + g[j]}
<1>1. /\ n \in Nat /\ m \in Nat
      /\ f \in [0 .. n -> Nat] /\ \A k \in 1 .. n : f[k] = f[k - 1] + Counts(w[k])
      /\ g \in [0 .. m -> Nat] /\ g[0] = 0 /\ \A k \in 1 .. m : g[k] = g[k - 1] + Counts(b[k])
  BY WordDelim, ValueCells
<1>2. p + m <= n /\ \A k \in 1 .. m : w[(p + 1) + k - 1] = b[k]
  BY <1>1 DEF Lies
<1>3. \A k \in 1 .. m : Counts(b[k]) \in Nat
  BY CountsType, ValueCells
<1> HIDE DEF f, g, n, m
<1>4. 0 \in S
  <2>1. p + 0 = p /\ p \in 0 .. n
    BY <1>1, <1>2
  <2>2. f[p] \in Nat
    BY <1>1, <2>1
  <2>3. QED
    BY <1>1, <2>1, <2>2
<1>5. ASSUME NEW k \in Nat, k < m, k \in S
      PROVE  k + 1 \in S
  <2>1. /\ k + 1 \in 1 .. m /\ (k + 1) - 1 = k /\ p + (k + 1) \in 1 .. n
        /\ (p + (k + 1)) - 1 = p + k /\ (p + 1) + (k + 1) - 1 = p + (k + 1)
        /\ k \in 0 .. m /\ p \in 0 .. n /\ p + k \in 0 .. n
    BY <1>1, <1>2, <1>5
  <2>2. f[p + (k + 1)] = f[p + k] + Counts(w[p + (k + 1)])
    BY <1>1, <2>1
  <2>3. w[p + (k + 1)] = b[k + 1]
    BY <1>2, <2>1
  <2>4. g[k + 1] = g[k] + Counts(b[k + 1])
    BY <1>1, <2>1
  <2>5. f[p + k] = f[p] + g[k]
    BY <1>1, <1>5
  <2>6. f[p] \in Nat /\ g[k] \in Nat /\ Counts(b[k + 1]) \in Nat
    BY <1>1, <1>3, <2>1
  <2>7. f[p + (k + 1)] = f[p] + g[k + 1]
    BY <2>2, <2>3, <2>4, <2>5, <2>6
  <2>8. QED
    BY <2>7
<1> HIDE DEF S
<1>6. \A j \in 0 .. m : j \in S
  BY <1>1, <1>4, <1>5, Induction
<1>7. QED
  BY <1>1, <1>2, <1>6 DEF S, f, g, m, n

(* What there is to know of a word in two parts. *)
LEMMA InTwo ==
  ASSUME NEW a \in Seq(ValueCell), NEW b \in Seq(ValueCell)
  PROVE  /\ a \o b \in Seq(ValueCell) /\ Len(a \o b) = Len(a) + Len(b)
         /\ Lies(a \o b, 1, a) /\ Lies(a \o b, Len(a) + 1, b)
         /\ \A k \in 0 .. Len(a) : Delim(a \o b, 1)[k] = Delim(a, 1)[k]
         /\ \A j \in 0 .. Len(b) :
              Delim(a \o b, 1)[Len(a) + j] = Delim(a, 1)[Len(a)] + Delim(b, 1)[j]
<1> DEFINE w == a \o b
<1>1. /\ w \in Seq(ValueCell) /\ Len(w) = Len(a) + Len(b) /\ Len(a) \in Nat /\ Len(b) \in Nat
      /\ \A k \in 1 .. Len(a) : w[k] = a[k]
      /\ \A k \in 1 .. Len(b) : w[Len(a) + k] = b[k]
  OBVIOUS
<1> HIDE DEF w
<1>2. Lies(w, 1, a)
  <2>1. \A k \in 1 .. Len(a) : 1 + k - 1 = k
    BY <1>1
  <2>2. \A k \in 1 .. Len(a) : w[1 + k - 1] = a[k]
    BY <1>1, <2>1
  <2>3. 1 + Len(a) <= Len(w) + 1
    BY <1>1
  <2>4. QED
    BY <2>2, <2>3 DEF Lies
<1>3. Lies(w, Len(a) + 1, b)
  <2>1. \A k \in 1 .. Len(b) : Len(a) + 1 + k - 1 = Len(a) + k
    BY <1>1
  <2>2. \A k \in 1 .. Len(b) : w[Len(a) + 1 + k - 1] = b[k]
    BY <1>1, <2>1
  <2>3. Len(a) + 1 + Len(b) <= Len(w) + 1 /\ Len(a) + 1 \in Nat /\ Len(a) + 1 > 0
    BY <1>1
  <2>4. QED
    BY <2>2, <2>3 DEF Lies
<1>4. \A k \in 0 .. Len(a) : Delim(w, 1)[k] = Delim(a, 1)[k]
  <2>1. w \in Seq(CellType)
    BY <1>1, ValueCells
  <2>2. QED
    BY <1>2, <2>1, DelimLies
<1>5. Len(a) \in 0 .. Len(a)
  BY <1>1
<1>6. \A j \in 0 .. Len(b) : Delim(w, 1)[Len(a) + j] = Delim(w, 1)[Len(a)] + Delim(b, 1)[j]
  BY <1>1, <1>3, DelimBehind
<1>7. QED
  BY <1>1, <1>2, <1>3, <1>4, <1>5, <1>6 DEF w

(* A forest behind another is one forest.                                  *)
LEMMA ForestConcat ==
  ASSUME NEW a, NEW b, NEW m, NEW n, Forest(a, m), Forest(b, n)
  PROVE  Forest(a \o b, m + n)
<1> DEFINE w == a \o b
           d == Delim(w, 1)
           f == Delim(a, 1)
           g == Delim(b, 1)
           p == Len(a)
           q == Len(b)
<1>1. /\ a \in Seq(ValueCell) /\ b \in Seq(ValueCell) /\ m \in Nat /\ n \in Nat
      /\ \A k \in 0 .. p : k < p => k < m + f[k]
      /\ \A k \in 0 .. q : k < q => k < n + g[k]
      /\ p = m + f[p] /\ q = n + g[q]
  BY DEF Forest
<1>2. /\ w \in Seq(ValueCell) /\ Len(w) = p + q
      /\ \A k \in 0 .. p : d[k] = f[k]
      /\ \A j \in 0 .. q : d[p + j] = f[p] + g[j]
  BY <1>1, InTwo
<1>3. /\ p \in Nat /\ q \in Nat /\ f \in [0 .. p -> Nat] /\ g \in [0 .. q -> Nat]
  BY <1>1, WordDelim, ValueCells
<1> HIDE DEF w, d, f, g, p, q
<1>4. ASSUME NEW k \in 0 .. p + q, k < p + q
      PROVE  k < (m + n) + d[k]
  <2>1. CASE k < p
    <3>1. k \in 0 .. p /\ f[k] \in Nat
      BY <1>3, <2>1
    <3>2. k < m + f[k] /\ d[k] = f[k]
      BY <1>1, <1>2, <2>1, <3>1
    <3>3. QED
      BY <1>1, <3>1, <3>2
  <2>2. CASE ~ (k < p)
    <3> DEFINE j == k - p
    <3>1. j \in 0 .. q /\ j < q /\ p + j = k /\ p \in 0 .. p
      BY <1>3, <1>4, <2>2
    <3> HIDE DEF j
    <3>2. d[k] = f[p] + g[j] /\ j < n + g[j] /\ f[p] \in Nat /\ g[j] \in Nat
      BY <1>1, <1>2, <1>3, <3>1
    <3>3. j \in Nat /\ p = m + f[p]
      BY <1>1, <3>1
    <3> DEFINE x == f[p]
               y == g[j]
    <3>4. /\ x \in Nat /\ y \in Nat /\ j \in Nat /\ m \in Nat /\ n \in Nat
          /\ p = m + x /\ j < n + y
      BY <1>1, <3>2, <3>3
    <3> HIDE DEF x, y
    <3>5. p + j < (m + n) + (x + y)
      BY <3>4
    <3>6. p + j < (m + n) + (f[p] + g[j])
      BY <3>5 DEF x, y
    <3>7. QED
      BY <3>1, <3>2, <3>6
  <2>3. QED
    BY <2>1, <2>2
<1>5. p + q = (m + n) + d[p + q]
  <2>1. p \in 0 .. p /\ q \in 0 .. q
    BY <1>3
  <2>2. d[p + q] = f[p] + g[q] /\ f[p] \in Nat /\ g[q] \in Nat
    BY <1>2, <1>3, <2>1
  <2>3. \A x, y \in Nat : (m + x) + (n + y) = (m + n) + (x + y)
    BY <1>1
  <2>4. (m + f[p]) + (n + g[q]) = (m + n) + (f[p] + g[q])
    BY <2>2, <2>3
  <2>5. QED
    BY <1>1, <2>2, <2>4, Zenon
<1>6. m + n \in Nat
  BY <1>1
<1>7. Forest(w, m + n)
  BY <1>2, <1>4, <1>5, <1>6 DEF Forest, d
<1>8. QED
  BY <1>7 DEF w

(* A head and the forest it counts are a value. *)
LEMMA ForestUnder ==
  ASSUME NEW cell \in ValueCell, NEW b, Forest(b, Counts(cell))
  PROVE  Forest(<<cell>> \o b, 1)
<1> DEFINE a == <<cell>>
           w == a \o b
           d == Delim(w, 1)
           g == Delim(b, 1)
           n == Counts(cell)
           q == Len(b)
<1>1. /\ b \in Seq(ValueCell) /\ n \in Nat
      /\ \A k \in 0 .. q : k < q => k < n + g[k]
      /\ q = n + g[q]
  BY DEF Forest
<1>2. a \in Seq(ValueCell) /\ Len(a) = 1 /\ a[1] = cell
  OBVIOUS
<1>3. Delim(a, 1)[0] = 0 /\ Delim(a, 1)[1] = n
  <2>1. /\ Delim(a, 1)[0] = 0
        /\ \A k \in 1 .. Len(a) : Delim(a, 1)[k] = Delim(a, 1)[k - 1] + Counts(a[k])
    BY <1>2, WordDelim, Zenon
  <2>2. 1 \in 1 .. Len(a) /\ 1 - 1 = 0
    BY <1>2
  <2>3. Delim(a, 1)[1] = Delim(a, 1)[0] + Counts(a[1])
    BY <2>1, <2>2
  <2>4. QED
    BY <1>1, <1>2, <2>1, <2>3
<1>4. /\ w \in Seq(ValueCell) /\ Len(w) = 1 + q
      /\ \A k \in 0 .. 1 : d[k] = Delim(a, 1)[k]
      /\ \A j \in 0 .. q : d[1 + j] = Delim(a, 1)[1] + g[j]
  BY <1>1, <1>2, InTwo
<1>5. q \in Nat /\ g \in [0 .. q -> Nat]
  BY <1>1, WordDelim, ValueCells
<1> HIDE DEF a, w, d, g, n, q
<1>6. d[0] = 0 /\ \A j \in 0 .. q : d[1 + j] = n + g[j]
  BY <1>3, <1>4
<1>7. ASSUME NEW k \in 0 .. 1 + q, k < 1 + q
      PROVE  k < 1 + d[k]
  <2>1. CASE k = 0
    BY <1>6, <2>1
  <2>2. CASE k # 0
    <3> DEFINE j == k - 1
    <3>1. j \in 0 .. q /\ j < q /\ 1 + j = k
      BY <1>5, <1>7, <2>2
    <3> HIDE DEF j
    <3>2. d[k] = n + g[j] /\ j < n + g[j] /\ g[j] \in Nat
      BY <1>1, <1>5, <1>6, <3>1
    <3>3. QED
      BY <1>1, <3>1, <3>2
  <2>3. QED
    BY <2>1, <2>2
<1>8. 1 + q = 1 + d[1 + q]
  <2>1. q \in 0 .. q
    BY <1>5
  <2>2. d[1 + q] = n + g[q]
    BY <1>6, <2>1
  <2>3. QED
    BY <1>1, <2>2
<1>9. Forest(w, 1)
  BY <1>4, <1>7, <1>8 DEF Forest, d
<1>10. QED
  BY <1>9 DEF w, a

(* A forest begins with a value, and the rest is a forest. *)
LEMMA ForestFirst ==
  ASSUME NEW w, NEW m \in Nat, Forest(w, m + 1)
  PROVE  \E a, b : w = a \o b /\ Forest(a, 1) /\ Forest(b, m)
<1> DEFINE d == Delim(w, 1)
           n == Len(w)
           T == {k \in 0 .. n : k > d[k]}
<1>1. /\ w \in Seq(ValueCell) /\ n = (m + 1) + d[n]
      /\ \A k \in 0 .. n : k < n => k < (m + 1) + d[k]
  BY DEF Forest
<1>2. /\ n \in Nat /\ d \in [0 .. n -> Nat] /\ d[0] = 0
      /\ \A i \in 0 .. n : \A j \in i .. n : d[i] <= d[j]
  BY <1>1, WordDelim, ValueCells
<1> HIDE DEF d, n
<1>3. n \in T /\ T \subseteq Nat
  <2>1. n \in 0 .. n /\ d[n] \in Nat
    BY <1>2
  <2>2. QED
    BY <1>1, <1>2, <2>1
<1>4. PICK p \in T : \A k \in T : p <= k
  BY <1>3, Least
<1>5. p \in 1 .. n /\ d[p] \in Nat /\ p > d[p]
  BY <1>2, <1>4
<1>6. \A k \in 0 .. p : k < p => k <= d[k] /\ d[k] \in Nat
  <2>1. ASSUME NEW k \in 0 .. p, k < p
        PROVE  k <= d[k] /\ d[k] \in Nat
    <3>1. k \in 0 .. n /\ ~ (p <= k)
      BY <1>2, <1>5, <2>1
    <3>2. k \notin T /\ d[k] \in Nat
      BY <1>2, <1>4, <3>1
    <3>3. QED
      BY <3>1, <3>2
  <2>2. QED
    BY <2>1
<1>7. p = 1 + d[p]
  <2>1. p - 1 \in 0 .. p /\ p - 1 < p /\ p - 1 \in 0 .. n /\ p \in (p - 1) .. n
    BY <1>2, <1>5
  <2>2. p - 1 <= d[p - 1] /\ d[p - 1] \in Nat /\ d[p - 1] <= d[p]
    BY <1>2, <1>6, <2>1
  <2>3. QED
    BY <1>2, <1>5, <2>2
<1> DEFINE a == SubSeq(w, 1, p)
           b == SubSeq(w, p + 1, n)
<1>8. /\ a \in Seq(ValueCell) /\ b \in Seq(ValueCell) /\ w = a \o b
      /\ Len(a) = p /\ Len(b) = n - p
  BY <1>1, <1>2, <1>5 DEF n
<1>9. /\ \A k \in 0 .. p : d[k] = Delim(a, 1)[k]
      /\ \A j \in 0 .. Len(b) : d[p + j] = Delim(a, 1)[p] + Delim(b, 1)[j]
  <2> HIDE DEF a, b
  <2>1. /\ \A k \in 0 .. Len(a) : Delim(a \o b, 1)[k] = Delim(a, 1)[k]
        /\ \A j \in 0 .. Len(b) :
             Delim(a \o b, 1)[Len(a) + j] = Delim(a, 1)[Len(a)] + Delim(b, 1)[j]
    BY <1>8, InTwo, Zenon
  <2>2. Delim(a \o b, 1) = d
    BY <1>8 DEF d
  <2>3. Len(a) = p
    BY <1>8
  <2>4. QED
    BY <2>1, <2>2, <2>3
<1>10. Delim(b, 1) \in [0 .. Len(b) -> Nat] /\ Len(b) \in Nat
  BY <1>8, WordDelim, ValueCells
<1> HIDE DEF a, b
<1>11. Forest(a, 1)
  <2>1. ASSUME NEW k \in 0 .. p, k < p
        PROVE  k < 1 + Delim(a, 1)[k]
    <3>1. d[k] = Delim(a, 1)[k] /\ k <= d[k] /\ d[k] \in Nat
      BY <1>6, <1>9, <2>1
    <3>2. QED
      BY <3>1
  <2>2. p = 1 + Delim(a, 1)[p]
    <3>1. p \in 0 .. p
      BY <1>5
    <3>2. QED
      BY <1>7, <1>9, <3>1
  <2>3. QED
    BY <1>8, <2>1, <2>2 DEF Forest
<1>12. Forest(b, m)
  <2>1. \A j \in 0 .. Len(b) : d[p + j] = p - 1 + Delim(b, 1)[j] /\ Delim(b, 1)[j] \in Nat
    <3>1. p \in 0 .. p
      BY <1>5
    <3>2. Delim(a, 1)[p] = p - 1
      BY <1>5, <1>7, <1>9, <3>1
    <3>3. QED
      BY <1>9, <1>10, <3>2
  <2>2. ASSUME NEW j \in 0 .. Len(b), j < Len(b)
        PROVE  j < m + Delim(b, 1)[j]
    <3>1. p + j \in 0 .. n /\ p + j < n
      BY <1>2, <1>5, <1>8, <2>2
    <3>2. p + j < (m + 1) + d[p + j]
      BY <1>1, <3>1
    <3>3. d[p + j] = p - 1 + Delim(b, 1)[j] /\ Delim(b, 1)[j] \in Nat
      BY <2>1
    <3>4. QED
      BY <1>5, <3>2, <3>3
  <2>3. Len(b) = m + Delim(b, 1)[Len(b)]
    <3>1. Len(b) \in 0 .. Len(b) /\ p + Len(b) = n
      BY <1>2, <1>5, <1>8, <1>10
    <3> DEFINE x == Delim(b, 1)[Len(b)]
    <3>2. d[n] = p - 1 + x /\ x \in Nat
      BY <2>1, <3>1
    <3>3. /\ m \in Nat /\ p \in Nat /\ Len(b) \in Nat /\ x \in Nat
          /\ p + Len(b) = (m + 1) + (p - 1 + x)
      BY <1>1, <1>2, <1>5, <3>1, <3>2
    <3> HIDE DEF x
    <3>4. Len(b) = m + x
      BY <3>3
    <3>5. QED
      BY <3>4 DEF x
  <2>4. QED
    BY <1>8, <2>2, <2>3 DEF Forest
<1>13. QED
  BY <1>8, <1>11, <1>12

(* What is behind the first cell of a value is the forest it counts. *)
LEMMA ForestBehind ==
  ASSUME NEW w, Forest(w, 1)
  PROVE  /\ w # <<>> /\ w[1] \in ValueCell /\ w = <<w[1]>> \o Tail(w)
         /\ Forest(Tail(w), Counts(w[1]))
<1> DEFINE d == Delim(w, 1)
           n == Len(w)
           a == <<w[1]>>
           b == Tail(w)
           g == Delim(b, 1)
           c == Counts(w[1])
<1>1. /\ w \in Seq(ValueCell) /\ n = 1 + d[n]
      /\ \A k \in 0 .. n : k < n => k < 1 + d[k]
  BY DEF Forest
<1>2. n \in Nat /\ d \in [0 .. n -> Nat]
  BY <1>1, WordDelim, ValueCells
<1>3. n # 0
  <2>1. n \in 0 .. n /\ d[n] \in Nat
    BY <1>2
  <2> HIDE DEF n, d
  <2>2. QED
    BY <1>1, <1>2, <2>1
<1>4. /\ w # <<>> /\ w[1] \in ValueCell /\ w = a \o b
      /\ a \in Seq(ValueCell) /\ b \in Seq(ValueCell)
      /\ Len(a) = 1 /\ Len(b) = n - 1 /\ a[1] = w[1]
  BY <1>1, <1>3
<1>5. Delim(a, 1)[1] = c /\ c \in Nat
  <2>1. /\ Delim(a, 1)[0] = 0
        /\ \A k \in 1 .. Len(a) : Delim(a, 1)[k] = Delim(a, 1)[k - 1] + Counts(a[k])
    BY <1>4, WordDelim, Zenon
  <2>2. 1 \in 1 .. Len(a) /\ 1 - 1 = 0
    BY <1>4
  <2>3. Delim(a, 1)[1] = Delim(a, 1)[0] + Counts(a[1])
    BY <2>1, <2>2
  <2>4. c \in Nat
    BY <1>4, ValueCells, CountsType
  <2> HIDE DEF a, c
  <2>5. QED
    BY <1>4, <2>1, <2>3, <2>4 DEF c
<1>6. \A j \in 0 .. Len(b) : d[1 + j] = c + g[j]
  <2>1. \A j \in 0 .. Len(b) : Delim(a \o b, 1)[Len(a) + j] = Delim(a, 1)[Len(a)] + Delim(b, 1)[j]
    BY <1>4, InTwo, Zenon
  <2> HIDE DEF a, b, c
  <2>2. QED
    BY <1>4, <1>5, <2>1
<1>7. g \in [0 .. Len(b) -> Nat] /\ Len(b) \in Nat
  BY <1>4, WordDelim, ValueCells
<1> HIDE DEF d, g, n, c, b
<1>8. ASSUME NEW j \in 0 .. Len(b), j < Len(b)
      PROVE  j < c + g[j]
  <2>1. 1 + j \in 0 .. n /\ 1 + j < n /\ g[j] \in Nat
    BY <1>2, <1>4, <1>7, <1>8
  <2>2. 1 + j < 1 + d[1 + j] /\ d[1 + j] = c + g[j]
    BY <1>1, <1>6, <2>1
  <2>3. QED
    BY <1>5, <2>1, <2>2
<1>9. Len(b) = c + g[Len(b)]
  <2>1. Len(b) \in 0 .. Len(b) /\ 1 + Len(b) = n
    BY <1>2, <1>4, <1>7
  <2>2. d[n] = c + g[Len(b)] /\ g[Len(b)] \in Nat
    BY <1>6, <1>7, <2>1
  <2>3. QED
    BY <1>1, <1>2, <1>5, <2>1, <2>2
<1>10. Forest(b, c)
  BY <1>4, <1>5, <1>8, <1>9 DEF Forest, g
<1>11. QED
  BY <1>4, <1>10 DEF b, c

(***************************************************************************)
(* Lists of values, and what setcar and setcdr make of one.                *)
(***************************************************************************)
LEMMA HeadOfValue ==
  ASSUME NEW v, IsValue(v)
  PROVE  /\ v \in Seq(ValueCell) /\ v # <<>> /\ v[1] \in ValueCell
         /\ v = <<v[1]>> \o Tail(v) /\ Forest(Tail(v), Counts(v[1]))
BY ValueIsForest, ForestBehind DEF IsValue

(* A list that is not empty is its head, its first element and the rest.   *)
LEMMA ListInParts ==
  ASSUME NEW v, IsValue(v), IsList(v), v[1].i > 0
  PROVE  \E a, b : /\ v = <<v[1]>> \o (a \o b) /\ IsValue(a)
                   /\ v[1].i \in Nat /\ Forest(b, v[1].i - 1)
                   /\ countElements(v, 2) = Len(a)
                   /\ Len(v) = 1 + (Len(a) + Len(b))
<1>1. /\ v \in Seq(ValueCell) /\ v[1] \in ValueCell /\ v = <<v[1]>> \o Tail(v)
      /\ Forest(Tail(v), Counts(v[1]))
  BY HeadOfValue
<1>2. Counts(v[1]) = v[1].i /\ v[1].i \in Nat /\ v[1].i - 1 \in Nat
  BY <1>1 DEF IsList, Counts, ValueCell
<1>3. Counts(v[1]) = (v[1].i - 1) + 1
  BY <1>2
<1>4. PICK a, b : Tail(v) = a \o b /\ Forest(a, 1) /\ Forest(b, v[1].i - 1)
  <2> DEFINE m == v[1].i - 1
             t == Tail(v)
  <2>1. m \in Nat /\ Forest(t, m + 1)
    <3>1. Forest(t, Counts(v[1])) /\ Counts(v[1]) = m + 1 /\ m \in Nat
      BY <1>1, <1>2, <1>3
    <3>2. QED
      BY <3>1, Zenon
  <2> HIDE DEF m, t
  <2>2. \E a, b : t = a \o b /\ Forest(a, 1) /\ Forest(b, m)
    BY <2>1, ForestFirst
  <2>3. QED
    BY <2>2 DEF m, t
<1>5. a \in Seq(ValueCell) /\ b \in Seq(ValueCell) /\ IsValue(a)
  BY <1>4, ValueIsForest DEF Forest
<1>6. v = <<v[1]>> \o (a \o b)
  BY <1>1, <1>4
<1> DEFINE x == v[1]
<1>7. Len(v) = 1 + (Len(a) + Len(b)) /\ Lies(v, 2, a)
  <2> DEFINE u == <<x>> \o (a \o b)
  <2>1. x \in ValueCell
    BY <1>1
  <2> HIDE DEF x
  <2>2. /\ Len(u) = 1 + (Len(a) + Len(b)) /\ Len(a) \in Nat /\ Len(b) \in Nat
        /\ \A n \in 1 .. Len(a) : u[1 + n] = a[n]
    BY <1>5, <2>1
  <2> HIDE DEF u
  <2>3. \A n \in 1 .. Len(a) : 2 + n - 1 = 1 + n
    BY <2>2
  <2>4. \A n \in 1 .. Len(a) : u[2 + n - 1] = a[n]
    BY <2>2, <2>3
  <2>5. 2 \in Nat /\ 2 > 0 /\ 2 + Len(a) <= Len(u) + 1
    BY <2>2
  <2>6. u = v
    BY <1>6 DEF u, x
  <2>7. QED
    BY <2>2, <2>4, <2>5, <2>6 DEF Lies
<1>8. countElements(v, 2) = Len(a)
  BY <1>1, <1>5, <1>7, ValueCells, ValueCounted
<1>9. QED
  BY <1>2, <1>4, <1>5, <1>6, <1>7, <1>8

(* A head that counts the values behind it makes a list.                   *)
LEMMA ListOf ==
  ASSUME NEW n \in Nat, NEW b, Forest(b, n)
  PROVE  IsValue(<<List(n)>> \o b)
<1>1. List(n) \in ValueCell /\ Counts(List(n)) = n
  BY DEF List, ValueCell, Counts
<1>2. QED
  BY <1>1, ForestUnder, ValueIsForest

(* An atom is a value.                                                     *)
LEMMA AtomIsValue == \A a \in Nat : IsValue(<<Atom(a)>>)
<1> SUFFICES ASSUME NEW a \in Nat PROVE IsValue(<<Atom(a)>>)
  OBVIOUS
<1>1. Atom(a) \in ValueCell /\ Counts(Atom(a)) = 0
  BY DEF Atom, ValueCell, Counts
<1>2. Forest(<<>>, 0)
  <2>1. <<>> \in Seq(ValueCell) /\ Len(<<>>) = 0
    OBVIOUS
  <2>2. Delim(<<>>, 1)[0] = 0
    BY <2>1, WordDelim
  <2>3. \A k \in 0 .. 0 : ~ (k < 0)
    OBVIOUS
  <2>4. QED
    BY <2>1, <2>2, <2>3 DEF Forest
<1>3. Forest(<<Atom(a)>> \o <<>>, 1)
  BY <1>1, <1>2, ForestUnder
<1>4. <<Atom(a)>> \o <<>> = <<Atom(a)>>
  BY <1>1
<1>5. QED
  BY <1>3, <1>4, ValueIsForest

(* setcar makes a value of a list and a value.                             *)
LEMMA CarOfValue ==
  ASSUME NEW v, IsValue(v), IsList(v), v[1].i > 0, NEW e, IsValue(e)
  PROVE  /\ IsValue(WithCar(v, e))
         /\ Len(WithCar(v, e)) = Len(v) <=> Len(e) = countElements(v, 2)
<1>1. PICK a, b : /\ v = <<v[1]>> \o (a \o b) /\ IsValue(a)
                  /\ v[1].i \in Nat /\ Forest(b, v[1].i - 1)
                  /\ countElements(v, 2) = Len(a)
                  /\ Len(v) = 1 + (Len(a) + Len(b))
  BY ListInParts
<1> DEFINE x == v[1]
<1>2. /\ v \in Seq(ValueCell) /\ x \in ValueCell /\ Forest(e, 1)
      /\ e \in Seq(ValueCell) /\ a \in Seq(ValueCell) /\ b \in Seq(ValueCell)
      /\ x.i - 1 \in Nat /\ Counts(x) = 1 + (x.i - 1)
  <2>1. v \in Seq(ValueCell) /\ x \in ValueCell
    BY HeadOfValue
  <2>2. Forest(e, 1) /\ Forest(a, 1)
    BY <1>1, ValueIsForest
  <2>3. e \in Seq(ValueCell) /\ a \in Seq(ValueCell) /\ b \in Seq(ValueCell)
    BY <1>1, <2>2 DEF Forest
  <2>4. x.i - 1 \in Nat
    BY <1>1
  <2>5. Counts(x) = x.i
    BY DEF Counts, IsList
  <2>6. Counts(x) = 1 + (x.i - 1)
    BY <1>1, <2>5
  <2>7. QED
    BY <2>1, <2>2, <2>3, <2>4, <2>6
<1> HIDE DEF x
<1>3. SubSeq(v, 2 + Len(a), Len(v)) = b
  <2> DEFINE u == <<x>> \o (a \o b)
             t == SubSeq(u, 2 + Len(a), Len(u))
  <2>1. u = v /\ u \in Seq(ValueCell)
    BY <1>1, <1>2 DEF x
  <2>2. /\ Len(u) = 1 + (Len(a) + Len(b)) /\ Len(a) \in Nat /\ Len(b) \in Nat
        /\ \A n \in 1 .. Len(b) : u[1 + Len(a) + n] = b[n]
    BY <1>2
  <2> HIDE DEF u
  <2>3. /\ t \in Seq(ValueCell) /\ Len(t) = Len(b)
        /\ \A n \in 1 .. Len(b) : t[n] = u[1 + Len(a) + n]
    BY <2>1, <2>2
  <2> HIDE DEF t
  <2>4. t = b
    <3>1. \A n \in 1 .. Len(b) : t[n] = b[n]
      BY <2>2, <2>3
    <3>2. t \in Seq(ValueCell) /\ b \in Seq(ValueCell) /\ Len(t) = Len(b)
      BY <1>2, <2>3
    <3>3. QED
      BY <3>1, <3>2
  <2>5. QED
    BY <2>1, <2>4 DEF t
<1>4. WithCar(v, e) = <<x>> \o e \o b
  BY <1>1, <1>3 DEF WithCar, x
<1>5. WithCar(v, e) = <<x>> \o (e \o b)
  <2>1. <<x>> \in Seq(ValueCell)
    BY <1>2
  <2>2. (<<x>> \o e) \o b = <<x>> \o (e \o b)
    BY <1>2, <2>1, ConcatAssociative, SMTT(15)
  <2>3. QED
    BY <1>4, <2>2
<1>6. Forest(e \o b, 1 + (x.i - 1))
  BY <1>1, <1>2, ForestConcat DEF x
<1>7. IsValue(<<x>> \o (e \o b))
  BY <1>2, <1>6, ForestUnder, ValueIsForest
<1>8. Len(<<x>> \o (e \o b)) = 1 + (Len(e) + Len(b))
  BY <1>2
<1>9. Len(e) \in Nat /\ Len(a) \in Nat /\ Len(b) \in Nat
  BY <1>2
<1>10. Len(WithCar(v, e)) = 1 + (Len(e) + Len(b)) /\ IsValue(WithCar(v, e))
  BY <1>5, <1>7, <1>8
<1>11. Len(v) = 1 + (Len(a) + Len(b)) /\ countElements(v, 2) = Len(a)
  BY <1>1
<1>12. QED
  BY <1>9, <1>10, <1>11

(* So does setcdr, of a list or another value.                             *)
LEMMA CdrOfValue ==
  ASSUME NEW v, IsValue(v), IsList(v), v[1].i > 0, NEW w, IsValue(w)
  PROVE  IsValue(WithCdr(v, w))
<1>1. PICK a, b : /\ v = <<v[1]>> \o (a \o b) /\ IsValue(a)
                  /\ v[1].i \in Nat /\ Forest(b, v[1].i - 1)
                  /\ countElements(v, 2) = Len(a)
                  /\ Len(v) = 1 + (Len(a) + Len(b))
  BY ListInParts
<1> DEFINE x == v[1]
           kept == SubSeq(v, 1, 1 + countElements(v, 2))
<1>2. /\ v \in Seq(ValueCell) /\ x \in ValueCell /\ Forest(a, 1)
      /\ a \in Seq(ValueCell) /\ b \in Seq(ValueCell) /\ w \in Seq(ValueCell)
  BY <1>1, HeadOfValue, ValueIsForest DEF Forest, IsValue
<1>3. kept = <<x>> \o a
  <2> HIDE DEF x
  <2> DEFINE u == <<x>> \o (a \o b)
             t == SubSeq(u, 1, 1 + Len(a))
             s == <<x>> \o a
  <2>1. u = v /\ u \in Seq(ValueCell)
    BY <1>1, <1>2 DEF x
  <2>2. /\ Len(u) = 1 + (Len(a) + Len(b)) /\ Len(a) \in Nat /\ Len(b) \in Nat
        /\ \A n \in 1 .. 1 + Len(a) : u[n] = s[n]
        /\ s \in Seq(ValueCell) /\ Len(s) = 1 + Len(a)
    BY <1>2
  <2> HIDE DEF u, s
  <2>3. /\ t \in Seq(ValueCell) /\ Len(t) = 1 + Len(a)
        /\ \A n \in 1 .. 1 + Len(a) : t[n] = u[n]
    BY <2>1, <2>2
  <2> HIDE DEF t
  <2>4. t = s
    BY <2>2, <2>3
  <2>5. QED
    BY <1>1, <2>1, <2>4 DEF t, s
<1>4. \A n \in Nat : WithCount(kept, n) = <<List(n)>> \o a
  <2> HIDE DEF kept, x
  <2> TAKE n \in Nat
  <2> DEFINE s == <<x>> \o a
             c == List(n)
             t == [s EXCEPT ![1] = c]
             r == <<c>> \o a
  <2>1. c \in ValueCell
    BY DEF List, ValueCell
  <2> HIDE DEF c
  <2>2. /\ s \in Seq(ValueCell) /\ Len(s) = 1 + Len(a) /\ Len(a) \in Nat
        /\ \A i \in 1 .. Len(a) : s[1 + i] = a[i]
        /\ r \in Seq(ValueCell) /\ Len(r) = 1 + Len(a) /\ r[1] = c
        /\ \A i \in 1 .. Len(a) : r[1 + i] = a[i]
    BY <1>2, <2>1
  <2> HIDE DEF s, r
  <2>3. /\ t \in Seq(ValueCell) /\ Len(t) = 1 + Len(a) /\ t[1] = c
        /\ \A i \in 2 .. Len(s) : t[i] = s[i]
    BY <2>1, <2>2
  <2> HIDE DEF t
  <2>4. ASSUME NEW i \in 1 .. 1 + Len(a) PROVE t[i] = r[i]
    <3>1. CASE i = 1
      BY <2>2, <2>3, <3>1
    <3>2. CASE i # 1
      <4>1. i - 1 \in 1 .. Len(a) /\ 1 + (i - 1) = i /\ i \in 2 .. Len(s)
        BY <2>2, <3>2
      <4>2. s[i] = a[i - 1] /\ r[i] = a[i - 1]
        BY <2>2, <4>1
      <4>3. QED
        BY <2>3, <4>1, <4>2
    <3>3. QED
      BY <3>1, <3>2
  <2>5. t = r
    BY <2>2, <2>3, <2>4
  <2>6. QED
    BY <1>3, <2>5 DEF WithCount, s, t, r, c
<1>5. CASE IsList(w)
  <2>1. Forest(Tail(w), w[1].i) /\ w[1].i \in Nat /\ Tail(w) \in Seq(ValueCell)
    BY <1>5, HeadOfValue DEF IsList, Counts, ValueCell, Forest
  <2>2. Forest(a \o Tail(w), 1 + w[1].i)
    BY <1>2, <2>1, ForestConcat
  <2>3. IsValue(<<List(1 + w[1].i)>> \o (a \o Tail(w)))
    BY <2>1, <2>2, ListOf
  <2>4. WithCdr(v, w) = (<<List(1 + w[1].i)>> \o a) \o Tail(w)
    <3>1. WithCdr(v, w) = WithCount(kept, 1 + w[1].i) \o Tail(w)
      BY <1>5, Zenon DEF WithCdr
    <3>2. 1 + w[1].i \in Nat
      BY <2>1
    <3>3. QED
      BY <1>4, <3>1, <3>2, Zenon
  <2>5. List(1 + w[1].i) \in ValueCell
    BY <2>1 DEF List, ValueCell
  <2>6. \A c \in ValueCell : (<<c>> \o a) \o Tail(w) = <<c>> \o (a \o Tail(w))
    BY <1>2, <2>1
  <2>7. QED
    BY <2>3, <2>4, <2>5, <2>6
<1>6. CASE ~ IsList(w)
  <2>1. Forest(w, 1)
    BY ValueIsForest
  <2>2. Forest(a \o w, 1 + 1)
    BY <1>2, <2>1, ForestConcat
  <2>3. IsValue(<<List(2)>> \o (a \o w))
    BY <2>2, ListOf
  <2>4. WithCdr(v, w) = (<<List(2)>> \o a) \o w
    <3>1. WithCdr(v, w) = WithCount(kept, 2) \o w
      BY <1>6, Zenon DEF WithCdr
    <3>2. 2 \in Nat
      OBVIOUS
    <3>3. QED
      BY <1>4, <3>1, <3>2, Zenon
  <2>5. List(2) \in ValueCell
    BY DEF List, ValueCell
  <2>6. \A c \in ValueCell : (<<c>> \o a) \o w = <<c>> \o (a \o w)
    BY <1>2
  <2>7. QED
    BY <2>3, <2>4, <2>5, <2>6
<1>7. QED
  BY <1>5, <1>6

(***************************************************************************)
(* Variables on the stack: each is a value, or a cell that says it has     *)
(* none there, and ends before the next begins.                            *)
(***************************************************************************)
Placeholder == {"detach", "unbound"}

Size(stack, v) ==
  IF stack[v.pos].type \in Placeholder THEN 1 ELSE countElements(stack, v.pos)

Fits(stack, v) ==
  /\ v.pos > Len(Constants) /\ v.pos + Size(stack, v) <= Len(stack) + 1
  /\ stack[v.pos].type \in Placeholder \/ \E w : IsValue(w) /\ Lies(stack, v.pos, w)

LaidOut(stack, variables) ==
  /\ stack \in Seq(CellType) /\ Len(stack) >= Len(Constants)
  /\ variables \in Seq(Keys)
  /\ \A k \in 1 .. Len(variables) : Fits(stack, variables[k])
  /\ \A k, l \in 1 .. Len(variables) :
       k < l => variables[k].pos + Size(stack, variables[k]) <= variables[l].pos

LEMMA ConstantsAre == Len(Constants) = 2 /\ Constants \in Seq(CellType) /\ Id \in CellType
<1>1. Id \in CellType
  BY DEF Id, Atom, CellType
<1>2. QED
  BY <1>1 DEF Constants

(* A value that lies on the stack is what CellsAt reads there.             *)
LEMMA ValueOnStack ==
  ASSUME NEW stack \in Seq(CellType), NEW v, NEW w, IsValue(w), Lies(stack, v.pos, w)
  PROVE  /\ stack[v.pos] = w[1] /\ stack[v.pos].type \notin Placeholder
         /\ Size(stack, v) = Len(w) /\ Len(w) \in Nat /\ Len(w) > 0
         /\ v.pos \in 1 .. Len(stack) /\ v.pos + Len(w) <= Len(stack) + 1
         /\ CellsAt(stack, v.pos) = w
<1>1. w \in Seq(ValueCell) /\ w # <<>> /\ w[1] \in ValueCell
  BY HeadOfValue
<1>2. Len(w) \in Nat /\ Len(w) > 0 /\ 1 \in 1 .. Len(w)
  BY <1>1
<1>3. /\ v.pos \in Nat /\ v.pos > 0 /\ v.pos + Len(w) <= Len(stack) + 1
      /\ stack[v.pos + 1 - 1] = w[1]
  BY <1>2 DEF Lies
<1>4. v.pos + 1 - 1 = v.pos /\ v.pos \in 1 .. Len(stack)
  BY <1>2, <1>3
<1>5. stack[v.pos] = w[1]
  BY <1>3, <1>4
<1>6. w[1].type \notin Placeholder
  BY <1>1 DEF ValueCell, Placeholder
<1>7. countElements(stack, v.pos) = Len(w) /\ CellsAt(stack, v.pos) = w
  BY ValueCounted
<1>8. Size(stack, v) = Len(w)
  BY <1>5, <1>6, <1>7 DEF Size
<1>9. QED
  BY <1>2, <1>3, <1>4, <1>5, <1>6, <1>7, <1>8

LEMMA SizeType ==
  ASSUME NEW stack \in Seq(CellType), NEW v \in Keys, Fits(stack, v)
  PROVE  /\ v.pos \in 1 .. Len(stack) /\ v.pos \in Nat /\ v.pos > 2
         /\ Size(stack, v) \in Nat /\ Size(stack, v) > 0
         /\ v.pos + Size(stack, v) <= Len(stack) + 1
<1>1. v.pos \in Nat /\ v.pos > 2 /\ v.pos + Size(stack, v) <= Len(stack) + 1
  BY ConstantsAre DEF Keys, Fits
<1>2. CASE stack[v.pos].type \in Placeholder
  <2>1. Size(stack, v) = 1
    BY <1>2 DEF Size
  <2>2. QED
    BY <1>1, <2>1
<1>3. CASE stack[v.pos].type \notin Placeholder
  <2>1. PICK w : IsValue(w) /\ Lies(stack, v.pos, w)
    BY <1>3 DEF Fits
  <2>2. QED
    BY <1>1, <2>1, ValueOnStack
<1>4. QED
  BY <1>2, <1>3

(* A variable is what its own cells are. *)
LEMMA FitsElsewhere ==
  ASSUME NEW stack \in Seq(CellType), NEW u \in Keys, Fits(stack, u),
         NEW other \in Seq(CellType), NEW v \in Keys, v.pos > 2,
         v.pos + Size(stack, u) <= Len(other) + 1,
         \A n \in 1 .. Size(stack, u) : other[v.pos + n - 1] = stack[u.pos + n - 1]
  PROVE  /\ Fits(other, v) /\ Size(other, v) = Size(stack, u)
         /\ other[v.pos] = stack[u.pos]
         /\ stack[u.pos].type \notin Placeholder =>
              CellsAt(other, v.pos) = CellsAt(stack, u.pos)
<1>1. /\ u.pos \in 1 .. Len(stack) /\ u.pos \in Nat /\ u.pos > 2
      /\ Size(stack, u) \in Nat /\ Size(stack, u) > 0
  BY SizeType
<1>2. v.pos \in Nat
  BY DEF Keys
<1>3. other[v.pos] = stack[u.pos]
  <2>1. 1 \in 1 .. Size(stack, u) /\ v.pos + 1 - 1 = v.pos /\ u.pos + 1 - 1 = u.pos
    BY <1>1, <1>2
  <2>2. other[v.pos + 1 - 1] = stack[u.pos + 1 - 1]
    BY <2>1
  <2>3. QED
    BY <2>1, <2>2
<1>4. CASE stack[u.pos].type \in Placeholder
  <2>1. Size(stack, u) = 1 /\ Size(other, v) = 1
    BY <1>3, <1>4 DEF Size
  <2>2. Fits(other, v)
    BY <1>3, <1>4, <2>1, ConstantsAre DEF Fits
  <2>3. QED
    BY <1>3, <1>4, <2>1, <2>2
<1>5. CASE stack[u.pos].type \notin Placeholder
  <2>1. PICK w : IsValue(w) /\ Lies(stack, u.pos, w)
    BY <1>5 DEF Fits
  <2>2. Size(stack, u) = Len(w) /\ CellsAt(stack, u.pos) = w
    BY <2>1, ValueOnStack
  <2>3. Lies(other, v.pos, w)
    <3>1. \A n \in 1 .. Len(w) : stack[u.pos + n - 1] = w[n]
      BY <2>1 DEF Lies
    <3>2. \A n \in 1 .. Len(w) : other[v.pos + n - 1] = w[n]
      BY <2>2, <3>1
    <3>3. v.pos > 0 /\ v.pos + Len(w) <= Len(other) + 1
      BY <1>2, <2>2
    <3>4. QED
      BY <1>2, <3>2, <3>3 DEF Lies
  <2>4. Size(other, v) = Len(w) /\ CellsAt(other, v.pos) = w
    BY <2>1, <2>3, ValueOnStack
  <2>5. Fits(other, v)
    BY <2>1, <2>2, <2>3, <2>4, ConstantsAre DEF Fits
  <2>6. QED
    BY <1>3, <2>2, <2>4, <2>5
<1>6. QED
  BY <1>4, <1>5

(* In particular where they are, in another stack. *)
LEMMA FitsStill ==
  ASSUME NEW stack \in Seq(CellType), NEW v \in Keys, Fits(stack, v),
         NEW other \in Seq(CellType), v.pos + Size(stack, v) <= Len(other) + 1,
         \A p \in v.pos .. v.pos + Size(stack, v) - 1 : other[p] = stack[p]
  PROVE  /\ Fits(other, v) /\ Size(other, v) = Size(stack, v)
         /\ other[v.pos] = stack[v.pos]
         /\ stack[v.pos].type \notin Placeholder =>
              CellsAt(other, v.pos) = CellsAt(stack, v.pos)
<1>1. v.pos \in Nat /\ v.pos > 2 /\ Size(stack, v) \in Nat /\ Size(stack, v) > 0
  BY SizeType
<1>2. ASSUME NEW n \in 1 .. Size(stack, v)
      PROVE  other[v.pos + n - 1] = stack[v.pos + n - 1]
  <2>1. v.pos + n - 1 \in v.pos .. v.pos + Size(stack, v) - 1
    BY <1>1
  <2>2. QED
    BY <2>1
<1>3. QED
  BY <1>1, <1>2, FitsElsewhere

(* What a variable is to the program: whether it has a value on the stack, *)
(* and which.                                                              *)
SameAs(stack, u, other, v) ==
  /\ other[v.pos].type = stack[u.pos].type
  /\ Size(other, v) = Size(stack, u)
  /\ stack[u.pos].type \notin Placeholder => CellsAt(other, v.pos) = CellsAt(stack, u.pos)

(* What the layout says of each variable and of any two.                   *)
LEMMA LaidOutFacts ==
  ASSUME NEW stack, NEW variables, LaidOut(stack, variables)
  PROVE  /\ stack \in Seq(CellType) /\ Len(stack) \in Nat /\ Len(stack) >= 2
         /\ variables \in Seq(Keys) /\ Len(variables) \in Nat
         /\ DOMAIN variables = 1 .. Len(variables)
         /\ \A k \in 1 .. Len(variables) :
              /\ variables[k] \in Keys /\ Fits(stack, variables[k])
              /\ variables[k].pos \in 1 .. Len(stack) /\ variables[k].pos \in Nat
              /\ variables[k].pos > 2
              /\ Size(stack, variables[k]) \in Nat /\ Size(stack, variables[k]) > 0
              /\ variables[k].pos + Size(stack, variables[k]) <= Len(stack) + 1
         /\ \A k, l \in 1 .. Len(variables) : k < l =>
              /\ variables[k].pos + Size(stack, variables[k]) <= variables[l].pos
              /\ variables[k].pos < variables[l].pos
<1>1. /\ stack \in Seq(CellType) /\ Len(stack) \in Nat /\ Len(stack) >= 2
      /\ variables \in Seq(Keys) /\ Len(variables) \in Nat
      /\ DOMAIN variables = 1 .. Len(variables)
  BY ConstantsAre DEF LaidOut
<1>2. ASSUME NEW k \in 1 .. Len(variables)
      PROVE  /\ variables[k] \in Keys /\ Fits(stack, variables[k])
             /\ variables[k].pos \in 1 .. Len(stack) /\ variables[k].pos \in Nat
             /\ variables[k].pos > 2
             /\ Size(stack, variables[k]) \in Nat /\ Size(stack, variables[k]) > 0
             /\ variables[k].pos + Size(stack, variables[k]) <= Len(stack) + 1
  <2>1. variables[k] \in Keys
    BY <1>1
  <2>2. Fits(stack, variables[k])
    BY DEF LaidOut
  <2>3. QED
    BY <1>1, <2>1, <2>2, SizeType
<1>3. ASSUME NEW k \in 1 .. Len(variables), NEW l \in 1 .. Len(variables), k < l
      PROVE  /\ variables[k].pos + Size(stack, variables[k]) <= variables[l].pos
             /\ variables[k].pos < variables[l].pos
  <2>1. variables[k].pos + Size(stack, variables[k]) <= variables[l].pos
    BY <1>3 DEF LaidOut
  <2>2. QED
    BY <1>2, <2>1
<1>4. QED
  BY <1>1, <1>2, <1>3

(* Cells that do not touch a variable's leave it as it is. *)
LEMMA LaidOutOn ==
  ASSUME NEW stack, NEW variables, LaidOut(stack, variables),
         NEW other \in Seq(CellType), Len(other) >= 2,
         \A k \in 1 .. Len(variables) :
           /\ variables[k].pos + Size(stack, variables[k]) <= Len(other) + 1
           /\ \A p \in variables[k].pos .. variables[k].pos + Size(stack, variables[k]) - 1 :
                other[p] = stack[p]
  PROVE  /\ LaidOut(other, variables)
         /\ \A k \in 1 .. Len(variables) : SameAs(stack, variables[k], other, variables[k])
<1>1. ASSUME NEW k \in 1 .. Len(variables)
      PROVE  /\ Fits(other, variables[k])
             /\ Size(other, variables[k]) = Size(stack, variables[k])
             /\ SameAs(stack, variables[k], other, variables[k])
  <2>1. stack \in Seq(CellType) /\ variables[k] \in Keys /\ Fits(stack, variables[k])
    BY LaidOutFacts
  <2>2. QED
    BY <2>1, FitsStill DEF SameAs
<1>2. LaidOut(other, variables)
  BY <1>1, ConstantsAre DEF LaidOut
<1>3. QED
  BY <1>1, <1>2

(* Cells on top of the stack leave every variable as it was.               *)
LEMMA LaidOutBelow ==
  ASSUME NEW stack, NEW variables, LaidOut(stack, variables),
         NEW cells \in Seq(CellType)
  PROVE  /\ LaidOut(stack \o cells, variables)
         /\ \A k \in 1 .. Len(variables) : SameAs(stack, variables[k], stack \o cells, variables[k])
<1> DEFINE other == stack \o cells
<1>1. stack \in Seq(CellType) /\ Len(stack) \in Nat /\ Len(stack) >= 2
  BY LaidOutFacts
<1>2. /\ other \in Seq(CellType) /\ Len(other) = Len(stack) + Len(cells) /\ Len(cells) \in Nat
      /\ \A p \in 1 .. Len(stack) : other[p] = stack[p]
  BY <1>1
<1> HIDE DEF other
<1>3. ASSUME NEW k \in 1 .. Len(variables)
      PROVE  /\ variables[k].pos + Size(stack, variables[k]) <= Len(other) + 1
             /\ \A p \in variables[k].pos .. variables[k].pos + Size(stack, variables[k]) - 1 :
                  other[p] = stack[p]
  <2>1. /\ variables[k].pos \in Nat /\ variables[k].pos > 2
        /\ Size(stack, variables[k]) \in Nat
        /\ variables[k].pos + Size(stack, variables[k]) <= Len(stack) + 1
    BY LaidOutFacts
  <2>2. QED
    <3>1. variables[k].pos + Size(stack, variables[k]) <= Len(other) + 1
      BY <1>1, <1>2, <2>1
    <3>2. ASSUME NEW p \in variables[k].pos .. variables[k].pos + Size(stack, variables[k]) - 1
          PROVE  other[p] = stack[p]
      <4>1. p \in 1 .. Len(stack)
        BY <1>1, <2>1
      <4>2. QED
        BY <1>2, <4>1
    <3>3. QED
      BY <3>1, <3>2
<1>4. Len(other) >= 2
  BY <1>1, <1>2
<1>5. QED
  BY <1>2, <1>3, <1>4, LaidOutOn DEF other

(* The first of the variables are laid out as all of them are.             *)
LEMMA LaidOutPrefix ==
  ASSUME NEW stack, NEW variables, LaidOut(stack, variables), NEW m \in 0 .. Len(variables)
  PROVE  LaidOut(stack, SubSeq(variables, 1, m))
<1> DEFINE kept == SubSeq(variables, 1, m)
<1>1. variables \in Seq(Keys) /\ Len(variables) \in Nat
  BY LaidOutFacts
<1>2. /\ kept \in Seq(Keys) /\ Len(kept) = m
      /\ \A k \in 1 .. m : kept[k] = variables[k] /\ k \in 1 .. Len(variables)
  BY <1>1
<1> HIDE DEF kept
<1>3. LaidOut(stack, kept)
  BY <1>2 DEF LaidOut
<1>4. QED
  BY <1>3 DEF kept

(* A new variable on top of the stack: of a value, or detached. *)
LEMMA LaidOutBind ==
  ASSUME NEW stack, NEW variables, LaidOut(stack, variables),
         NEW v \in Keys, v.pos = Len(stack) + 1,
         NEW cells \in Seq(CellType), IsValue(cells) \/ (Len(cells) = 1 /\ cells[1].type \in Placeholder)
  PROVE  /\ LaidOut(stack \o cells, Append(variables, v))
         /\ \A k \in 1 .. Len(variables) : SameAs(stack, variables[k], stack \o cells, variables[k])
         /\ Size(stack \o cells, v) = Len(cells) /\ Len(cells) > 0
         /\ (stack \o cells)[v.pos] = cells[1]
         /\ IsValue(cells) => CellsAt(stack \o cells, v.pos) = cells
<1> DEFINE other == stack \o cells
           more == Append(variables, v)
<1>1. /\ stack \in Seq(CellType) /\ Len(stack) \in Nat /\ Len(stack) >= 2
      /\ variables \in Seq(Keys) /\ Len(variables) \in Nat
  BY LaidOutFacts
<1>2. /\ other \in Seq(CellType) /\ Len(other) = Len(stack) + Len(cells) /\ Len(cells) \in Nat
      /\ \A p \in 1 .. Len(cells) : other[Len(stack) + p] = cells[p]
  BY <1>1
<1>3. /\ more \in Seq(Keys) /\ Len(more) = Len(variables) + 1 /\ more[Len(variables) + 1] = v
      /\ \A k \in 1 .. Len(variables) : more[k] = variables[k]
  BY <1>1
<1>4. /\ LaidOut(other, variables)
      /\ \A k \in 1 .. Len(variables) : SameAs(stack, variables[k], other, variables[k])
  BY LaidOutBelow
<1> HIDE DEF other, more
<1>5. /\ Fits(other, v) /\ Size(other, v) = Len(cells) /\ Len(cells) > 0 /\ other[v.pos] = cells[1]
      /\ IsValue(cells) => CellsAt(other, v.pos) = cells
  <2>1. CASE IsValue(cells)
    <3>1. Lies(other, v.pos, cells)
      <4>1. \A p \in 1 .. Len(cells) : v.pos + p - 1 = Len(stack) + p
        BY <1>1, <1>2
      <4>2. \A p \in 1 .. Len(cells) : other[v.pos + p - 1] = cells[p]
        BY <1>2, <4>1
      <4>3. v.pos \in Nat /\ v.pos > 0 /\ v.pos + Len(cells) <= Len(other) + 1
        BY <1>1, <1>2
      <4>4. QED
        BY <4>2, <4>3 DEF Lies
    <3>2. /\ Size(other, v) = Len(cells) /\ Len(cells) > 0 /\ other[v.pos] = cells[1]
          /\ CellsAt(other, v.pos) = cells
      BY <1>2, <2>1, <3>1, ValueOnStack
    <3>3. v.pos > Len(Constants) /\ v.pos + Size(other, v) <= Len(other) + 1
      BY <1>1, <1>2, <3>2, ConstantsAre
    <3>4. Fits(other, v)
      BY <2>1, <3>1, <3>3 DEF Fits
    <3>5. QED
      BY <3>2, <3>4
  <2>2. CASE Len(cells) = 1 /\ cells[1].type \in Placeholder /\ ~ IsValue(cells)
    <3>1. other[v.pos] = cells[1]
      <4>1. 1 \in 1 .. Len(cells)
        BY <2>2
      <4>2. QED
        BY <1>2, <4>1
    <3>2. Size(other, v) = 1
      BY <2>2, <3>1 DEF Size
    <3>3. Fits(other, v)
      BY <1>1, <1>2, <2>2, <3>1, <3>2, ConstantsAre DEF Fits
    <3>4. QED
      BY <2>2, <3>1, <3>2, <3>3
  <2>3. QED
    BY <2>1, <2>2
<1>6. LaidOut(other, more)
  <2>1. \A k \in 1 .. Len(more) : Fits(other, more[k])
    <3>1. \A k \in 1 .. Len(variables) : Fits(other, variables[k])
      BY <1>4, LaidOutFacts
    <3>2. \A k \in 1 .. Len(more) : k \in 1 .. Len(variables) \/ k = Len(variables) + 1
      BY <1>1, <1>3
    <3>3. QED
      BY <1>3, <1>5, <3>1, <3>2
  <2>2. ASSUME NEW k \in 1 .. Len(more), NEW l \in 1 .. Len(more), k < l
        PROVE  more[k].pos + Size(other, more[k]) <= more[l].pos
    <3>1. k \in 1 .. Len(variables)
      BY <1>1, <1>3, <2>2
    <3>2. CASE l \in 1 .. Len(variables)
      BY <1>3, <1>4, <2>2, <3>1, <3>2, LaidOutFacts
    <3>3. CASE l = Len(variables) + 1
      <4>1. Size(other, variables[k]) = Size(stack, variables[k])
        BY <1>4, <3>1 DEF SameAs
      <4>2. variables[k].pos + Size(stack, variables[k]) <= Len(stack) + 1
        BY <3>1, LaidOutFacts
      <4>3. QED
        BY <1>3, <3>1, <3>3, <4>1, <4>2
    <3>4. QED
      BY <1>1, <1>3, <3>2, <3>3
  <2>3. Len(other) >= Len(Constants)
    BY <1>1, <1>2, ConstantsAre
  <2>4. QED
    BY <1>2, <1>3, <2>1, <2>2, <2>3 DEF LaidOut
<1>7. QED
  BY <1>4, <1>5, <1>6 DEF other, more

(* One variable's cells change, and take no more room than before. *)
LEMMA LaidOutChanged ==
  ASSUME NEW stack, NEW variables, LaidOut(stack, variables), NEW k \in 1 .. Len(variables),
         NEW other \in Seq(CellType), Len(other) = Len(stack),
         \A p \in 1 .. Len(stack) :
           p \notin variables[k].pos .. variables[k].pos + Size(stack, variables[k]) - 1 =>
             other[p] = stack[p],
         Fits(other, variables[k]), Size(other, variables[k]) <= Size(stack, variables[k])
  PROVE  /\ LaidOut(other, variables)
         /\ \A l \in 1 .. Len(variables) : l # k => SameAs(stack, variables[l], other, variables[l])
<1> DEFINE pos(l) == variables[l].pos
           size(l) == Size(stack, variables[l])
<1>1. /\ stack \in Seq(CellType) /\ Len(stack) \in Nat /\ Len(stack) >= 2
      /\ variables \in Seq(Keys) /\ Len(variables) \in Nat
      /\ \A l \in 1 .. Len(variables) :
           /\ variables[l] \in Keys /\ Fits(stack, variables[l])
           /\ pos(l) \in Nat /\ pos(l) > 2
           /\ size(l) \in Nat /\ size(l) > 0
           /\ pos(l) + size(l) <= Len(stack) + 1
      /\ \A l, m \in 1 .. Len(variables) : l < m => pos(l) + size(l) <= pos(m)
  BY LaidOutFacts
<1>2. ASSUME NEW l \in 1 .. Len(variables), l # k
      PROVE  /\ Fits(other, variables[l]) /\ Size(other, variables[l]) = size(l)
             /\ SameAs(stack, variables[l], other, variables[l])
  <2>1. ASSUME NEW p \in pos(l) .. pos(l) + size(l) - 1
        PROVE  other[p] = stack[p]
    <3>1. pos(l) + size(l) <= pos(k) \/ pos(k) + size(k) <= pos(l)
      <4>1. l < k \/ k < l
        BY <1>1, <1>2
      <4>2. QED
        BY <1>1, <4>1
    <3>2. /\ pos(l) \in Nat /\ pos(l) > 2 /\ size(l) \in Nat
          /\ pos(l) + size(l) <= Len(stack) + 1 /\ Len(stack) \in Nat
          /\ pos(k) \in Nat /\ size(k) \in Nat
      BY <1>1
    <3> HIDE DEF pos, size
    <3>3. p \in Nat /\ pos(l) <= p /\ p < pos(l) + size(l)
      BY <2>1, <3>2
    <3>4. p \in 1 .. Len(stack)
      BY <3>2, <3>3
    <3>5. p \notin pos(k) .. pos(k) + size(k) - 1
      <4>1. CASE pos(l) + size(l) <= pos(k)
        <5>1. p < pos(k)
          BY <3>2, <3>3, <4>1
        <5>2. QED
          BY <3>2, <3>3, <5>1
      <4>2. CASE pos(k) + size(k) <= pos(l)
        <5>1. ~ (p <= pos(k) + size(k) - 1)
          BY <3>2, <3>3, <4>2, SMTT(15)
        <5>2. QED
          BY <3>2, <3>3, <5>1
      <4>3. QED
        BY <3>1, <4>1, <4>2
    <3>6. QED
      BY <3>4, <3>5 DEF pos, size
  <2>2. pos(l) + size(l) <= Len(other) + 1
    BY <1>1
  <2>3. variables[l] \in Keys /\ Fits(stack, variables[l])
    BY <1>1
  <2>4. QED
    BY <1>1, <2>1, <2>2, <2>3, FitsStill DEF SameAs
<1>3. \A l \in 1 .. Len(variables) :
        Fits(other, variables[l]) /\ Size(other, variables[l]) <= size(l)
  <2>1. \A l \in 1 .. Len(variables) : size(l) <= size(l)
    BY <1>1
  <2>2. QED
    BY <1>2, <2>1
<1>4. ASSUME NEW l \in 1 .. Len(variables), NEW m \in 1 .. Len(variables), l < m
      PROVE  pos(l) + Size(other, variables[l]) <= pos(m)
  <2> DEFINE new == Size(other, variables[l])
  <2>1. new \in Nat /\ new <= size(l)
    BY <1>1, <1>3, SizeType
  <2>2. /\ pos(l) \in Nat /\ pos(m) \in Nat /\ size(l) \in Nat
        /\ pos(l) + size(l) <= pos(m)
    BY <1>1, <1>4
  <2> HIDE DEF pos, size, new
  <2>3. pos(l) + new <= pos(m)
    BY <2>1, <2>2
  <2>4. QED
    BY <2>3 DEF new
<1>5. LaidOut(other, variables)
  BY <1>1, <1>3, <1>4, ConstantsAre DEF LaidOut
<1>6. QED
  BY <1>2, <1>5

(* A variable's first cell may become one that says it has no value.       *)
LEMMA LaidOutMarked ==
  ASSUME NEW stack, NEW variables, LaidOut(stack, variables), NEW k \in 1 .. Len(variables),
         NEW c \in CellType, c.type \in Placeholder
  PROVE  LET other == [stack EXCEPT ![variables[k].pos] = c]
         IN  /\ LaidOut(other, variables) /\ other[variables[k].pos] = c /\ Len(other) = Len(stack)
             /\ \A l \in 1 .. Len(variables) : l # k => SameAs(stack, variables[l], other, variables[l])
<1> DEFINE other == [stack EXCEPT ![variables[k].pos] = c]
           pos == variables[k].pos
<1>1. /\ stack \in Seq(CellType) /\ Len(stack) \in Nat /\ Len(stack) >= 2
      /\ pos \in 1 .. Len(stack) /\ pos > 2
      /\ Size(stack, variables[k]) \in Nat /\ Size(stack, variables[k]) > 0
  BY LaidOutFacts
<1>2. /\ other \in Seq(CellType) /\ Len(other) = Len(stack) /\ other[pos] = c
      /\ \A p \in 1 .. Len(stack) : p # pos => other[p] = stack[p]
  BY <1>1
<1> HIDE DEF other
<1>3. Size(other, variables[k]) = 1
  BY <1>2 DEF Size
<1>4. Fits(other, variables[k])
  BY <1>1, <1>2, <1>3, ConstantsAre DEF Fits
<1>5. \A p \in 1 .. Len(stack) :
        p \notin pos .. pos + Size(stack, variables[k]) - 1 => other[p] = stack[p]
  <2>1. pos \in pos .. pos + Size(stack, variables[k]) - 1
    BY <1>1
  <2>2. QED
    BY <1>2, <2>1
<1>6. Size(other, variables[k]) <= Size(stack, variables[k])
  BY <1>1, <1>3
<1>7. QED
  BY <1>2, <1>4, <1>5, <1>6, LaidOutChanged DEF other

(* Where cells overwrite some of a stack's, it is still one. *)
LEMMA WrittenType ==
  ASSUME NEW stack \in Seq(CellType), NEW cells \in Seq(CellType),
         NEW from \in Nat, from > 0, from + Len(cells) <= Len(stack) + 1
  PROVE  LET other == WrittenAt(stack, from, cells)
         IN  /\ other \in Seq(CellType) /\ Len(other) = Len(stack)
             /\ \A p \in 1 .. Len(cells) : other[from + p - 1] = cells[p]
             /\ \A p \in 1 .. Len(stack) :
                  p \notin from .. from + Len(cells) - 1 => other[p] = stack[p]
<1> DEFINE n == Len(cells)
           other == WrittenAt(stack, from, cells)
<1>1. /\ DOMAIN stack = 1 .. Len(stack) /\ Len(stack) \in Nat /\ n \in Nat
      /\ \A p \in 1 .. n : cells[p] \in CellType
      /\ \A p \in 1 .. Len(stack) : stack[p] \in CellType
  OBVIOUS
<1>2. /\ DOMAIN other = 1 .. Len(stack) /\ other = [p \in 1 .. Len(stack) |-> other[p]]
      /\ \A p \in 1 .. Len(stack) :
           other[p] = IF p \in from .. from + n - 1 THEN cells[p - from + 1] ELSE stack[p]
  BY <1>1 DEF WrittenAt
<1> HIDE DEF n, other
<1>3. ASSUME NEW p \in 1 .. Len(stack)
      PROVE  other[p] \in CellType
  <2>1. CASE p \in from .. from + n - 1
    <3>1. p - from + 1 \in 1 .. n
      BY <1>1, <2>1
    <3>2. QED
      BY <1>1, <1>2, <2>1, <3>1
  <2>2. CASE p \notin from .. from + n - 1
    BY <1>1, <1>2, <2>2
  <2>3. QED
    BY <2>1, <2>2
<1>4. other \in Seq(CellType) /\ Len(other) = Len(stack)
  <2>1. other \in [1 .. Len(stack) -> CellType]
    BY <1>2, <1>3
  <2>2. QED
    BY <1>1, <2>1
<1>5. \A p \in 1 .. Len(stack) : p \notin from .. from + n - 1 => other[p] = stack[p]
  BY <1>2
<1>6. ASSUME NEW p \in 1 .. n
      PROVE  other[from + p - 1] = cells[p]
  <2>1. /\ from + p - 1 \in 1 .. Len(stack) /\ from + p - 1 \in from .. from + n - 1
        /\ (from + p - 1) - from + 1 = p
    BY <1>1 DEF n
  <2>2. other[from + p - 1] = cells[(from + p - 1) - from + 1]
    BY <1>2, <2>1
  <2>3. QED
    BY <2>1, <2>2
<1>7. QED
  BY <1>4, <1>5, <1>6 DEF other, n

(* A value of the same length may take a variable's place.                 *)
LEMMA LaidOutWritten ==
  ASSUME NEW stack, NEW variables, LaidOut(stack, variables), NEW k \in 1 .. Len(variables),
         NEW v, v = variables[k],
         NEW value, IsValue(value), Len(value) = Size(stack, v)
  PROVE  LET other == WrittenAt(stack, v.pos, value)
         IN  /\ LaidOut(other, variables) /\ Len(other) = Len(stack)
             /\ other[v.pos].type \notin Placeholder /\ CellsAt(other, v.pos) = value
             /\ \A l \in 1 .. Len(variables) : l # k => SameAs(stack, variables[l], other, variables[l])
<1> DEFINE pos == v.pos
           n == Len(value)
           other == WrittenAt(stack, v.pos, value)
<1>1. /\ stack \in Seq(CellType) /\ Len(stack) \in Nat /\ Len(stack) >= 2
      /\ pos \in 1 .. Len(stack) /\ pos > 2 /\ n = Size(stack, v) /\ pos \in Nat
      /\ n \in Nat /\ n > 0 /\ pos + n <= Len(stack) + 1
  BY LaidOutFacts
<1>2. value \in Seq(CellType)
  BY HeadOfValue, ValueCells
<1>3. /\ other \in Seq(CellType) /\ Len(other) = Len(stack)
      /\ \A p \in 1 .. n : other[pos + p - 1] = value[p]
      /\ \A p \in 1 .. Len(stack) : p \notin pos .. pos + n - 1 => other[p] = stack[p]
  <2>1. stack \in Seq(CellType)
    BY <1>1
  <2>2. v.pos \in Nat /\ v.pos > 0 /\ v.pos + Len(value) <= Len(stack) + 1
    BY <1>1
  <2>3. other \in Seq(CellType) /\ Len(other) = Len(stack)
    BY <1>2, <2>1, <2>2, WrittenType
  <2>4. \A p \in 1 .. n : other[pos + p - 1] = value[p]
    BY <1>2, <2>1, <2>2, WrittenType
  <2>5. \A p \in 1 .. Len(stack) : p \notin pos .. pos + n - 1 => other[p] = stack[p]
    BY <1>2, <2>1, <2>2, WrittenType
  <2>6. QED
    BY <2>3, <2>4, <2>5
<1> HIDE DEF other, n, pos
<1>4. Lies(other, v.pos, value)
  BY <1>1, <1>3 DEF Lies, pos, n
<1>5. /\ other[v.pos].type \notin Placeholder /\ CellsAt(other, v.pos) = value
      /\ Size(other, v) = n
  <2>1. other \in Seq(CellType) /\ Lies(other, v.pos, value) /\ IsValue(value)
    BY <1>3, <1>4
  <2>2. /\ other[v.pos].type \notin Placeholder /\ CellsAt(other, v.pos) = value
        /\ Size(other, v) = Len(value)
    BY <2>1, ValueOnStack, Zenon
  <2>3. QED
    BY <2>2 DEF n
<1>6. Fits(other, v)
  BY <1>1, <1>3, <1>4, <1>5, ConstantsAre DEF Fits, pos
<1>7. /\ LaidOut(other, variables)
      /\ \A l \in 1 .. Len(variables) : l # k => SameAs(stack, variables[l], other, variables[l])
  <2>1. Size(other, variables[k]) <= Size(stack, variables[k])
    BY <1>1, <1>5
  <2>2. \A p \in 1 .. Len(stack) :
           p \notin variables[k].pos .. variables[k].pos + Size(stack, variables[k]) - 1 =>
             other[p] = stack[p]
    BY <1>1, <1>3 DEF pos
  <2>3. QED
    BY <1>3, <1>6, <2>1, <2>2, LaidOutChanged
<1>8. QED
  BY <1>3, <1>5, <1>7 DEF other

(***************************************************************************)
(* sweepStack.  Where the first k variables end, and a stack that is       *)
(* nothing but its variables.                                              *)
(***************************************************************************)
End(stack, variables, k) ==
  IF k = 0 THEN Len(Constants) + 1 ELSE variables[k].pos + Size(stack, variables[k])

Tiled(stack, variables) ==
  /\ \A k \in 1 .. Len(variables) : variables[k].pos = End(stack, variables, k - 1)
  /\ Len(stack) + 1 = End(stack, variables, Len(variables))

(* What the sweep has made of the first k variables: src says which of     *)
(* them a variable was.                                                    *)
SweptBy(st, done, k, src) ==
  /\ src \in [1 .. Len(done.variables) -> 1 .. k]
  /\ \A j, l \in 1 .. Len(done.variables) : j < l => src[j] < src[l]
  /\ \A i \in 1 .. k :
       st.stack[st.variables[i].pos].type # "unbound" =>
         \E j \in 1 .. Len(done.variables) : src[j] = i
  /\ \A j \in 1 .. Len(done.variables) :
       /\ done.variables[j].name = st.variables[src[j]].name
       /\ done.variables[j].pos <= st.variables[src[j]].pos
       /\ st.stack[st.variables[src[j]].pos].type # "unbound"
       /\ SameAs(st.stack, st.variables[src[j]], done.stack, done.variables[j])

SweptTo(st, done, k) ==
  /\ LaidOut(done.stack, done.variables)
  /\ Tiled(done.stack, done.variables)
  /\ Len(done.stack) < End(st.stack, st.variables, k)
  /\ \E src : SweptBy(st, done, k, src)

LEMMA KeyMoved ==
  ASSUME NEW v \in Keys, NEW p \in Nat, p > 0
  PROVE  LET u == [v EXCEPT !.pos = p] IN u \in Keys /\ u.pos = p /\ u.name = v.name
  BY DEF Keys

Places == [stack : Seq(CellType), variables : Seq(Keys)]

(* The cells that a variable which is kept takes along. *)
LEMMA CellsMoved ==
  ASSUME NEW st, LaidOut(st.stack, st.variables), NEW k \in 1 .. Len(st.variables)
  PROVE  LET v == st.variables[k]
             cells == IF st.stack[v.pos].type = "detach" THEN <<Detach(1)>>
                      ELSE CellsAt(st.stack, v.pos)
         IN  st.stack[v.pos].type # "unbound" =>
               /\ cells \in Seq(CellType) /\ Len(cells) = Size(st.stack, v)
               /\ cells[1].type = st.stack[v.pos].type
               /\ IsValue(cells) \/ (Len(cells) = 1 /\ cells[1].type \in Placeholder)
               /\ st.stack[v.pos].type \notin Placeholder =>
                    IsValue(cells) /\ cells = CellsAt(st.stack, v.pos)
<1> DEFINE v == st.variables[k]
           stack == st.stack
           cells == IF stack[v.pos].type = "detach" THEN <<Detach(1)>>
                    ELSE CellsAt(stack, v.pos)
<1>1. SUFFICES ASSUME stack[v.pos].type # "unbound"
      PROVE  /\ cells \in Seq(CellType) /\ Len(cells) = Size(stack, v)
             /\ cells[1].type = stack[v.pos].type
             /\ IsValue(cells) \/ (Len(cells) = 1 /\ cells[1].type \in Placeholder)
             /\ stack[v.pos].type \notin Placeholder =>
                  IsValue(cells) /\ cells = CellsAt(stack, v.pos)
  OBVIOUS
<1>2. stack \in Seq(CellType) /\ v \in Keys /\ Fits(stack, v)
  BY LaidOutFacts
<1>3. CASE stack[v.pos].type = "detach"
  <2>1. cells = <<Detach(1)>> /\ Detach(1) \in CellType /\ Detach(1).type = "detach"
    BY <1>3 DEF Detach, CellType
  <2>2. Size(stack, v) = 1 /\ stack[v.pos].type \in Placeholder
    BY <1>3 DEF Size, Placeholder
  <2> HIDE DEF cells
  <2>3. cells \in Seq(CellType) /\ Len(cells) = 1 /\ cells[1] = Detach(1)
    BY <2>1
  <2>4. QED
    BY <1>3, <2>1, <2>2, <2>3
<1>4. CASE stack[v.pos].type # "detach"
  <2>1. stack[v.pos].type \notin Placeholder
    BY <1>1, <1>4 DEF Placeholder
  <2>2. PICK w : IsValue(w) /\ Lies(stack, v.pos, w)
    BY <1>2, <2>1 DEF Fits
  <2>3. CellsAt(stack, v.pos) = w /\ Size(stack, v) = Len(w) /\ stack[v.pos] = w[1]
    BY <1>2, <2>2, ValueOnStack
  <2>4. cells = w
    BY <1>4, <2>3
  <2>5. w \in Seq(CellType)
    BY <2>2, HeadOfValue, ValueCells
  <2> HIDE DEF cells
  <2>6. QED
    BY <2>2, <2>3, <2>4, <2>5
<1>5. QED
  BY <1>3, <1>4

LEMMA MovedType ==
  ASSUME NEW st, LaidOut(st.stack, st.variables), NEW k \in 1 .. Len(st.variables),
         NEW done \in Places
  PROVE  Moved(st, done, st.variables[k]) \in Places
<1> DEFINE v == st.variables[k]
           cells == IF st.stack[v.pos].type = "detach" THEN <<Detach(1)>>
                    ELSE CellsAt(st.stack, v.pos)
           u == [v EXCEPT !.pos = Len(done.stack) + 1]
<1>1. v \in Keys /\ done.stack \in Seq(CellType) /\ done.variables \in Seq(Keys)
  BY LaidOutFacts DEF Places
<1>2. u \in Keys
  BY <1>1 DEF Keys
<1>3. CASE st.stack[v.pos].type = "unbound"
  BY <1>3 DEF Moved
<1>4. CASE st.stack[v.pos].type # "unbound"
  <2>1. cells \in Seq(CellType)
    BY <1>4, CellsMoved
  <2>2. Moved(st, done, v) = [stack |-> done.stack \o cells, variables |-> Append(done.variables, u)]
    BY <1>4 DEF Moved
  <2> HIDE DEF cells, u
  <2>3. QED
    BY <1>1, <1>2, <2>1, <2>2 DEF Places
<1>5. QED
  BY <1>3, <1>4

(* sweepStack takes the variables one after the other. *)
LEMMA SweptSteps ==
  ASSUME NEW st, LaidOut(st.stack, st.variables), st.callStack[1] = 3
  PROVE  \E g : /\ g[0] = [stack |-> SubSeq(st.stack, 1, 2), variables |-> <<>>]
                /\ \A k \in 1 .. Len(st.variables) :
                     g[k - 1] \in Places /\ g[k] = Moved(st, g[k - 1], st.variables[k])
                /\ Swept(st) = g[Len(st.variables)]
<1> DEFINE n == Len(st.variables)
           base == [stack |-> SubSeq(st.stack, 1, 2), variables |-> <<>>]
           F == [k \in 1 .. n |-> [done \in Places |-> Moved(st, done, st.variables[k])]]
<1>1. n \in Nat /\ base \in Places
  <2>1. st.stack \in Seq(CellType) /\ Len(st.stack) >= 2 /\ n \in Nat
    BY LaidOutFacts
  <2>2. SubSeq(st.stack, 1, 2) \in Seq(CellType)
    BY <2>1
  <2>3. QED
    BY <2>1, <2>2 DEF Places
<1>2. F \in [1 .. n -> [Places -> Places]]
  BY MovedType
<1>3. /\ \A k \in 1 .. n : \A done \in Places : F[k][done] = Moved(st, done, st.variables[k])
  OBVIOUS
<1> HIDE DEF n, base, F
<1>4. PICK h \in [0 .. n -> Places] : Recurs(h, base, F, n)
  BY <1>1, <1>2, RecursionExists
<1> DEFINE IsAfter(g) == g = [k \in 0 .. n |-> IF k = 0 THEN base
                                              ELSE Moved(st, g[k - 1], st.variables[k])]
<1>5. IsAfter(h)
  <2> DEFINE r == [k \in 0 .. n |-> IF k = 0 THEN base ELSE Moved(st, h[k - 1], st.variables[k])]
  <2>1. ASSUME NEW k \in 0 .. n PROVE h[k] = r[k]
    <3>1. CASE k = 0
      BY <1>4, <3>1 DEF Recurs
    <3>2. CASE k # 0
      <4>1. k \in 1 .. n /\ k - 1 \in 0 .. n
        BY <1>1, <3>2
      <4>2. h[k] = F[k][h[k - 1]] /\ h[k - 1] \in Places
        BY <1>4, <4>1 DEF Recurs
      <4>3. h[k] = Moved(st, h[k - 1], st.variables[k])
        BY <1>3, <4>1, <4>2
      <4>4. QED
        BY <3>2, <4>3
    <3>3. QED
      BY <3>1, <3>2
  <2>2. h = [k \in 0 .. n |-> h[k]] /\ r = [k \in 0 .. n |-> r[k]]
    BY <1>4
  <2> HIDE DEF r
  <2>3. h = r
    BY <2>1, <2>2
  <2>4. QED
    BY <2>3 DEF r
<1>6. PICK g : IsAfter(g) /\ Swept(st) = g[n]
  <2> DEFINE g == CHOOSE g : IsAfter(g)
  <2>1. IsAfter(g)
    BY <1>5, Zenon
  <2>2. Swept(st) = g[n]
    <3>1. st.callStack[1] - 1 = 2
      OBVIOUS
    <3>2. QED
      BY <3>1 DEF Swept, n, base
  <2> HIDE DEF IsAfter
  <2>3. QED
    BY <2>1, <2>2
<1>7. g[0] = base /\ \A k \in 1 .. n : g[k] = Moved(st, g[k - 1], st.variables[k])
  <2>1. 0 \in 0 .. n /\ \A k \in 1 .. n : k \in 0 .. n /\ k # 0
    BY <1>1
  <2>2. QED
    BY <1>6, <2>1
<1>8. \A k \in 0 .. n : k \in {i \in 0 .. n : g[i] \in Places}
  <2> DEFINE S == {i \in 0 .. n : g[i] \in Places}
  <2>1. 0 \in S
    BY <1>1, <1>7
  <2>2. ASSUME NEW k \in Nat, k < n, k \in S PROVE k + 1 \in S
    <3>1. k + 1 \in 1 .. n /\ (k + 1) - 1 = k /\ k + 1 \in 0 .. n
      BY <1>1, <2>2
    <3>2. g[k + 1] = Moved(st, g[k], st.variables[k + 1])
      BY <1>7, <3>1
    <3>3. g[k] \in Places
      BY <2>2
    <3>4. g[k + 1] \in Places
      BY <3>1, <3>2, <3>3, MovedType DEF n
    <3>5. QED
      BY <3>1, <3>4
  <2> HIDE DEF S
  <2>3. QED
    BY <1>1, <2>1, <2>2, Induction DEF S
<1>9. \A k \in 1 .. n : g[k - 1] \in Places
  <2>1. \A k \in 1 .. n : k - 1 \in 0 .. n
    BY <1>1
  <2>2. QED
    BY <1>8, <2>1
<1>10. QED
  BY <1>6, <1>7, <1>9 DEF n, base

(* One variable further. *)
LEMMA SweepStep ==
  ASSUME NEW st, LaidOut(st.stack, st.variables), NEW k \in 1 .. Len(st.variables),
         NEW done, SweptTo(st, done, k - 1)
  PROVE  SweptTo(st, Moved(st, done, st.variables[k]), k)
<1> DEFINE v == st.variables[k]
           cells == IF st.stack[v.pos].type = "detach" THEN <<Detach(1)>>
                    ELSE CellsAt(st.stack, v.pos)
           u == [v EXCEPT !.pos = Len(done.stack) + 1]
           m == Len(done.variables)
           after == Moved(st, done, v)
<1>1. /\ v \in Keys /\ v.pos \in Nat /\ v.pos > 2
      /\ Size(st.stack, v) \in Nat /\ Size(st.stack, v) > 0
      /\ k \in Nat /\ k - 1 \in Nat /\ k > 0
  BY LaidOutFacts, SMTT(15)
<1>2. PICK src : SweptBy(st, done, k - 1, src)
  BY DEF SweptTo
<1>3. LaidOut(done.stack, done.variables) /\ Tiled(done.stack, done.variables)
  BY DEF SweptTo
<1>4. /\ done.stack \in Seq(CellType) /\ Len(done.stack) \in Nat /\ Len(done.stack) >= 2
      /\ done.variables \in Seq(Keys) /\ m \in Nat
  BY <1>3, LaidOutFacts
<1>5. Len(done.stack) < v.pos
  <2>1. CASE k = 1
    <3>1. Len(done.stack) < 3
      BY <2>1, ConstantsAre DEF SweptTo, End
    <3>2. QED
      BY <1>1, <1>4, <3>1
  <2>2. CASE k # 1
    <3>1. k - 1 \in 1 .. Len(st.variables) /\ k - 1 < k /\ k - 1 # 0
      BY <1>1, <2>2
    <3>2. Len(done.stack) < st.variables[k - 1].pos + Size(st.stack, st.variables[k - 1])
      BY <3>1 DEF SweptTo, End
    <3>3. st.variables[k - 1].pos + Size(st.stack, st.variables[k - 1]) <= v.pos
      BY <3>1, LaidOutFacts
    <3>4. /\ st.variables[k - 1].pos \in Nat /\ Size(st.stack, st.variables[k - 1]) \in Nat
      BY <3>1, LaidOutFacts
    <3>5. QED
      BY <1>1, <1>4, <3>2, <3>3, <3>4, SMTT(15)
  <2>3. QED
    BY <2>1, <2>2
<1>6. End(st.stack, st.variables, k) = v.pos + Size(st.stack, v)
  BY <1>1 DEF End
<1>7. src \in [1 .. m -> 1 .. k - 1] /\ \A j \in 1 .. m : src[j] \in 1 .. k /\ src[j] < k
  <2>1. src \in [1 .. m -> 1 .. k - 1]
    BY <1>2 DEF SweptBy
  <2>2. QED
    BY <1>1, <2>1
<1>8. CASE st.stack[v.pos].type = "unbound"
  <2>1. after = done
    BY <1>8 DEF Moved
  <2>2. SweptBy(st, done, k, src)
    <3>1. src \in [1 .. m -> 1 .. k]
      BY <1>1, <1>7
    <3>2. ASSUME NEW i \in 1 .. k, st.stack[st.variables[i].pos].type # "unbound"
          PROVE  \E j \in 1 .. m : src[j] = i
      <4>1. i # k
        BY <1>8, <3>2
      <4>2. i \in 1 .. k - 1
        BY <1>1, <4>1
      <4>3. QED
        BY <1>2, <3>2, <4>2 DEF SweptBy
    <3>3. QED
      BY <1>2, <3>1, <3>2 DEF SweptBy
  <2>3. Len(done.stack) < End(st.stack, st.variables, k)
    BY <1>1, <1>4, <1>5, <1>6
  <2>4. SweptTo(st, done, k)
    BY <1>3, <2>2, <2>3 DEF SweptTo
  <2>5. QED
    BY <2>1, <2>4
<1>9. CASE st.stack[v.pos].type # "unbound"
  <2>1. /\ cells \in Seq(CellType) /\ Len(cells) = Size(st.stack, v)
        /\ cells[1].type = st.stack[v.pos].type
        /\ IsValue(cells) \/ (Len(cells) = 1 /\ cells[1].type \in Placeholder)
        /\ st.stack[v.pos].type \notin Placeholder =>
             IsValue(cells) /\ cells = CellsAt(st.stack, v.pos)
    BY <1>9, CellsMoved
  <2>2. u \in Keys /\ u.pos = Len(done.stack) + 1 /\ u.name = v.name
    <3>1. Len(done.stack) + 1 \in Nat /\ Len(done.stack) + 1 > 0
      BY <1>4
    <3>2. QED
      BY <1>1, <3>1, KeyMoved
  <2>3. after = [stack |-> done.stack \o cells, variables |-> Append(done.variables, u)]
    BY <1>9 DEF Moved
  <2> HIDE DEF cells, u, after
  <2> DEFINE stack == done.stack \o cells
             more == Append(done.variables, u)
  <2>4. /\ LaidOut(stack, more)
        /\ \A j \in 1 .. m : SameAs(done.stack, done.variables[j], stack, done.variables[j])
        /\ Size(stack, u) = Len(cells) /\ Len(cells) > 0
        /\ stack[u.pos] = cells[1]
        /\ IsValue(cells) => CellsAt(stack, u.pos) = cells
    BY <1>3, <2>1, <2>2, LaidOutBind
  <2>5. /\ Len(stack) = Len(done.stack) + Len(cells) /\ Len(cells) \in Nat
        /\ Len(more) = m + 1 /\ more[m + 1] = u
        /\ \A j \in 1 .. m : more[j] = done.variables[j]
        /\ \A j \in 1 .. m + 1 : j \in 1 .. m \/ j = m + 1
    <3>1. Len(stack) = Len(done.stack) + Len(cells) /\ Len(cells) \in Nat
      <4>1. \A a \in Seq(CellType) : Len(a) \in Nat
                /\ \A b \in Seq(CellType) : Len(a \o b) = Len(a) + Len(b)
        OBVIOUS
      <4>2. QED
        BY <1>4, <2>1, <4>1
    <3>2. /\ Len(more) = m + 1 /\ more[m + 1] = u
          /\ \A j \in 1 .. m : more[j] = done.variables[j]
      BY <1>4, <2>2
    <3>3. \A j \in 1 .. m + 1 : j \in 1 .. m \/ j = m + 1
      BY <1>4
    <3>4. QED
      BY <3>1, <3>2, <3>3
  <2>6. after.stack = stack /\ after.variables = more
    BY <2>3
  <2> HIDE DEF stack, more
  <2>7. \A j \in 1 .. m : Size(stack, more[j]) = Size(done.stack, done.variables[j])
    BY <2>4, <2>5 DEF SameAs
  <2>8. \A j \in 0 .. m : End(stack, more, j) = End(done.stack, done.variables, j)
    <3>1. \A j \in 0 .. m : j = 0 \/ j \in 1 .. m
      BY <1>4
    <3>2. QED
      BY <2>5, <2>7, <3>1 DEF End
  <2>9. Tiled(stack, more)
    <3>1. ASSUME NEW j \in 1 .. m + 1
          PROVE  more[j].pos = End(stack, more, j - 1)
      <4>1. CASE j \in 1 .. m
        <5>1. j - 1 \in 0 .. m
          BY <1>4, <4>1
        <5>2. done.variables[j].pos = End(done.stack, done.variables, j - 1)
          BY <1>3, <4>1 DEF Tiled
        <5>3. QED
          BY <2>5, <2>8, <4>1, <5>1, <5>2
      <4>2. CASE j = m + 1
        <5>1. m \in 0 .. m /\ j - 1 = m
          BY <1>4, <4>2
        <5>2. Len(done.stack) + 1 = End(done.stack, done.variables, m)
          BY <1>3 DEF Tiled
        <5>3. QED
          BY <2>2, <2>5, <2>8, <4>2, <5>1, <5>2
      <4>3. QED
        BY <2>5, <4>1, <4>2
    <3>2. Len(stack) + 1 = End(stack, more, m + 1)
      <4>1. m + 1 # 0 /\ u.pos = Len(done.stack) + 1
        BY <1>4, <2>2
      <4>2. End(stack, more, m + 1) = u.pos + Len(cells)
        BY <2>4, <2>5, <4>1 DEF End
      <4>3. QED
        BY <1>4, <2>5, <4>1, <4>2
    <3>3. QED
      BY <2>5, <3>1, <3>2 DEF Tiled
  <2> DEFINE src2 == [j \in 1 .. m + 1 |-> IF j = m + 1 THEN k ELSE src[j]]
  <2>10. /\ src2[m + 1] = k
         /\ \A j \in 1 .. m : src2[j] = src[j]
         /\ src2 \in [1 .. m + 1 -> 1 .. k]
    <3>1. m + 1 \in 1 .. m + 1 /\ \A j \in 1 .. m : j \in 1 .. m + 1 /\ j # m + 1
      BY <1>4
    <3>2. src2[m + 1] = k /\ \A j \in 1 .. m : src2[j] = src[j]
      BY <3>1
    <3>3. k \in 1 .. k
      BY <1>1
    <3>4. \A j \in 1 .. m + 1 : src2[j] \in 1 .. k
      BY <1>7, <2>5, <3>2, <3>3
    <3>5. QED
      BY <3>2, <3>4
  <2> HIDE DEF src2
  <2>11. SweptBy(st, after, k, src2)
    <3>1. src2 \in [1 .. Len(after.variables) -> 1 .. k]
      BY <2>5, <2>6, <2>10
    <3>2. ASSUME NEW j \in 1 .. m + 1, NEW l \in 1 .. m + 1, j < l
          PROVE  src2[j] < src2[l]
      <4>1. j \in 1 .. m
        BY <1>4, <3>2
      <4>2. CASE l \in 1 .. m
        <5>1. src[j] < src[l]
          BY <1>2, <3>2, <4>1, <4>2 DEF SweptBy
        <5>2. QED
          BY <2>10, <4>1, <4>2, <5>1
      <4>3. CASE l = m + 1
        BY <1>7, <2>10, <4>1, <4>3
      <4>4. QED
        BY <2>5, <4>2, <4>3
    <3>3. ASSUME NEW i \in 1 .. k, st.stack[st.variables[i].pos].type # "unbound"
          PROVE  \E j \in 1 .. m + 1 : src2[j] = i
      <4>1. CASE i = k
        <5>1. m + 1 \in 1 .. m + 1
          BY <1>4
        <5>2. QED
          BY <2>10, <4>1, <5>1
      <4>2. CASE i # k
        <5>1. i \in 1 .. k - 1
          BY <1>1, <4>2
        <5>2. PICK j \in 1 .. m : src[j] = i
          BY <1>2, <3>3, <5>1 DEF SweptBy
        <5>3. j \in 1 .. m + 1
          BY <1>4, <5>2
        <5>4. QED
          BY <2>10, <5>2, <5>3
      <4>3. QED
        BY <4>1, <4>2
    <3>4. ASSUME NEW j \in 1 .. m + 1
          PROVE  /\ more[j].name = st.variables[src2[j]].name
                 /\ more[j].pos <= st.variables[src2[j]].pos
                 /\ st.stack[st.variables[src2[j]].pos].type # "unbound"
                 /\ SameAs(st.stack, st.variables[src2[j]], stack, more[j])
      <4>1. CASE j \in 1 .. m
        <5>1. /\ done.variables[j].name = st.variables[src[j]].name
              /\ done.variables[j].pos <= st.variables[src[j]].pos
              /\ st.stack[st.variables[src[j]].pos].type # "unbound"
              /\ SameAs(st.stack, st.variables[src[j]], done.stack, done.variables[j])
          BY <1>2, <4>1 DEF SweptBy
        <5>2. SameAs(done.stack, done.variables[j], stack, done.variables[j])
          BY <2>4, <4>1
        <5>3. SameAs(st.stack, st.variables[src[j]], stack, done.variables[j])
          BY <5>1, <5>2 DEF SameAs
        <5>4. more[j] = done.variables[j] /\ src2[j] = src[j]
          BY <2>5, <2>10, <4>1
        <5>5. src2[j] = src[j] /\ more[j].pos = done.variables[j].pos
               /\ more[j].name = done.variables[j].name
          BY <5>4
        <5>6. SameAs(st.stack, st.variables[src2[j]], stack, more[j])
          BY <5>3, <5>4, Zenon
        <5>7. more[j].name = st.variables[src2[j]].name
          BY <5>1, <5>5
        <5>8. more[j].pos <= st.variables[src2[j]].pos
          BY <5>1, <5>5
        <5>9. st.stack[st.variables[src2[j]].pos].type # "unbound"
          BY <5>1, <5>5
        <5>10. QED
          BY <5>6, <5>7, <5>8, <5>9
      <4>2. CASE j = m + 1
        <5>1. SameAs(st.stack, v, stack, u)
          BY <2>1, <2>4 DEF SameAs
        <5>2. u.pos <= v.pos
          BY <1>1, <1>4, <1>5, <2>2
        <5>3. QED
          BY <1>9, <2>2, <2>5, <2>10, <4>2, <5>1, <5>2
      <4>3. QED
        BY <2>5, <4>1, <4>2
    <3>5. Len(after.variables) = m + 1
      BY <2>5, <2>6
    <3>6. QED
      BY <2>6, <3>1, <3>2, <3>3, <3>4, <3>5 DEF SweptBy
  <2>12. Len(stack) < End(st.stack, st.variables, k)
    BY <1>1, <1>4, <1>5, <1>6, <2>1, <2>5, SMTT(20)
  <2>13. SweptTo(st, after, k)
    BY <2>4, <2>6, <2>9, <2>11, <2>12 DEF SweptTo
  <2>14. QED
    BY <2>13 DEF after
<1>10. QED
  BY <1>8, <1>9

(* What sweepStack leaves: the variables, one after the other.             *)
LEMMA SweptFacts ==
  ASSUME NEW st, LaidOut(st.stack, st.variables), st.callStack[1] = 3
  PROVE  SweptTo(st, Swept(st), Len(st.variables))
<1> DEFINE n == Len(st.variables)
<1>1. PICK g : /\ g[0] = [stack |-> SubSeq(st.stack, 1, 2), variables |-> <<>>]
               /\ \A k \in 1 .. n : g[k - 1] \in Places /\ g[k] = Moved(st, g[k - 1], st.variables[k])
               /\ Swept(st) = g[n]
  BY SweptSteps
<1>2. n \in Nat /\ st.stack \in Seq(CellType) /\ Len(st.stack) >= 2
  BY LaidOutFacts
<1> DEFINE S == {k \in Nat : k \in 0 .. n => SweptTo(st, g[k], k)}
<1>3. 0 \in S
  <2> DEFINE done == g[0]
             src == [j \in 1 .. 0 |-> 0]
  <2>1. /\ done.stack \in Seq(CellType) /\ Len(done.stack) = 2
        /\ done.variables = <<>> /\ Len(done.variables) = 0 /\ done.variables \in Seq(Keys)
    <3>1. done.stack = SubSeq(st.stack, 1, 2) /\ done.variables = <<>>
      BY <1>1
    <3>2. SubSeq(st.stack, 1, 2) \in Seq(CellType) /\ Len(SubSeq(st.stack, 1, 2)) = 2
      BY <1>2
    <3>3. QED
      BY <3>1, <3>2
  <2>2. \A j \in 1 .. 0 : FALSE
    OBVIOUS
  <2>3. src \in [1 .. 0 -> 1 .. 0]
    BY <2>2
  <2> HIDE DEF done, src
  <2>4. LaidOut(done.stack, done.variables)
    BY <2>1, <2>2, ConstantsAre DEF LaidOut
  <2>5. Tiled(done.stack, done.variables)
    BY <2>1, <2>2, ConstantsAre DEF Tiled, End
  <2>6. Len(done.stack) < End(st.stack, st.variables, 0)
    BY <2>1, ConstantsAre DEF End
  <2>7. SweptBy(st, done, 0, src)
    BY <2>1, <2>2, <2>3 DEF SweptBy
  <2>8. SweptTo(st, done, 0)
    BY <2>4, <2>5, <2>6, <2>7 DEF SweptTo
  <2>9. QED
    BY <2>8 DEF done
<1>4. ASSUME NEW k \in Nat, k < n, k \in S PROVE k + 1 \in S
  <2>1. k + 1 \in 1 .. n /\ (k + 1) - 1 = k /\ k \in 0 .. n
    BY <1>2, <1>4
  <2>2. SweptTo(st, g[k], k)
    BY <1>4, <2>1
  <2>3. g[k + 1] = Moved(st, g[k], st.variables[k + 1])
    BY <1>1, <2>1
  <2>4. SweptTo(st, g[k], (k + 1) - 1)
    BY <2>1, <2>2
  <2>5. SweptTo(st, Moved(st, g[k], st.variables[k + 1]), k + 1)
    <3> HIDE DEF S
    <3>1. \A i \in 1 .. n : \A done : SweptTo(st, done, i - 1) =>
             SweptTo(st, Moved(st, done, st.variables[i]), i)
      BY SweepStep
    <3>2. QED
      BY <2>1, <2>4, <3>1
  <2>6. QED
    BY <2>3, <2>5
<1> HIDE DEF S
<1>5. \A k \in 0 .. n : k \in S
  BY <1>2, <1>3, <1>4, Induction
<1>6. n \in S /\ n \in 0 .. n
  BY <1>2, <1>5
<1>7. SweptTo(st, g[n], n)
  BY <1>6 DEF S
<1>8. QED
  BY <1>1, <1>7

LEMMA ToSetOf == \A s : Len(s) \in Nat /\ DOMAIN s = 1 .. Len(s) =>
                   ToSet(s) = {s[i] : i \in 1 .. Len(s)} /\ \A i \in 1 .. Len(s) : s[i] \in ToSet(s)
  BY DEF ToSet

(* The detached variables, by their place in the index.                    *)
LEMMA DetachedOf ==
  ASSUME NEW stack, NEW variables, LaidOut(stack, variables)
  PROVE  \A v : v \in DetachedIn(stack, variables) <=>
           \E k \in 1 .. Len(variables) : variables[k] = v /\ stack[v.pos].type = "detach"
<1>1. /\ Len(variables) \in Nat /\ DOMAIN variables = 1 .. Len(variables)
  BY LaidOutFacts
<1>2. ToSet(variables) = {variables[i] : i \in 1 .. Len(variables)}
  BY <1>1, ToSetOf
<1>3. QED
  BY <1>2 DEF DetachedIn

(* No two variables have one key. *)
LEMMA KeysApart ==
  ASSUME NEW stack, NEW variables, LaidOut(stack, variables),
         NEW k \in 1 .. Len(variables), NEW l \in 1 .. Len(variables),
         variables[k].pos = variables[l].pos
  PROVE  k = l
<1>1. k \in Nat /\ l \in Nat /\ variables[k].pos \in Nat /\ variables[l].pos \in Nat
  BY LaidOutFacts
<1>2. ~ (k < l) /\ ~ (l < k)
  <2>1. k < l => variables[k].pos < variables[l].pos
    BY LaidOutFacts
  <2>2. l < k => variables[l].pos < variables[k].pos
    BY LaidOutFacts
  <2>3. QED
    BY <1>1, <2>1, <2>2
<1>3. QED
  BY <1>1, <1>2

(* The sweep detaches nothing and gives up nothing: if no detached         *)
(* variable's key is missing afterwards, none is new.                      *)
LEMMA SweptDetached ==
  ASSUME NEW st, LaidOut(st.stack, st.variables), st.callStack[1] = 3,
         NEW done, SweptTo(st, done, Len(st.variables)),
         DetachedIn(st.stack, st.variables) \subseteq DetachedIn(done.stack, done.variables)
  PROVE  DetachedIn(st.stack, st.variables) = DetachedIn(done.stack, done.variables)
<1> DEFINE D == DetachedIn(st.stack, st.variables)
           E == DetachedIn(done.stack, done.variables)
           m == Len(done.variables)
           n == Len(st.variables)
<1>1. LaidOut(done.stack, done.variables)
  BY DEF SweptTo
<1>2. PICK src : SweptBy(st, done, n, src)
  BY DEF SweptTo
<1>3. /\ m \in Nat /\ n \in Nat
      /\ DOMAIN done.variables = 1 .. m
  BY <1>1, LaidOutFacts
<1>4. \A v \in E : \E j \in 1 .. m : done.variables[j] = v /\ done.stack[v.pos].type = "detach"
  BY <1>1, DetachedOf
<1> DEFINE index(v) == CHOOSE j \in 1 .. m : done.variables[j] = v /\ done.stack[v.pos].type = "detach"
           was == [v \in E |-> st.variables[src[index(v)]]]
<1>5. \A v \in E : /\ index(v) \in 1 .. m /\ done.variables[index(v)] = v
                   /\ done.stack[v.pos].type = "detach"
  BY <1>4
<1> HIDE DEF index
<1>6. \A v \in E : src[index(v)] \in 1 .. n /\ was[v] = st.variables[src[index(v)]]
  <2>1. src \in [1 .. m -> 1 .. n]
    BY <1>2 DEF SweptBy
  <2>2. QED
    BY <1>5, <2>1
<1>7. \A v \in E : was[v] \in D
  <2> SUFFICES ASSUME NEW v \in E PROVE was[v] \in D
    OBVIOUS
  <2>1. SameAs(st.stack, st.variables[src[index(v)]], done.stack, done.variables[index(v)])
    BY <1>2, <1>5 DEF SweptBy
  <2>2. st.stack[was[v].pos].type = "detach"
    BY <1>5, <1>6, <2>1 DEF SameAs
  <2>3. QED
    BY <1>6, <2>2, DetachedOf
<1>8. \A u, v \in E : was[u] = was[v] => u = v
  <2> SUFFICES ASSUME NEW u \in E, NEW v \in E, was[u] = was[v] PROVE u = v
    OBVIOUS
  <2> DEFINE i == index(u)
             j == index(v)
  <2>1. i \in 1 .. m /\ j \in 1 .. m /\ src[i] \in 1 .. n /\ src[j] \in 1 .. n
    BY <1>5, <1>6
  <2>2. st.variables[src[i]].pos = st.variables[src[j]].pos
    BY <1>6
  <2>3. src[i] = src[j]
    BY <2>1, <2>2, KeysApart
  <2>4. ~ (i < j) /\ ~ (j < i)
    <3>1. (i < j => src[i] < src[j]) /\ (j < i => src[j] < src[i])
      BY <1>2, <2>1 DEF SweptBy
    <3> HIDE DEF i, j
    <3>2. src[i] \in Nat /\ src[j] \in Nat
      BY <1>3, <2>1
    <3>3. QED
      BY <2>3, <3>1, <3>2
  <2>5. i = j
    <3> HIDE DEF i, j
    <3>1. QED
      BY <1>3, <2>1, <2>4
  <2>6. QED
    BY <1>5, <2>5
<1>9. was \in Injection(E, D)
  <2>1. was \in [E -> D]
    BY <1>7
  <2>2. QED
    BY <1>8, <2>1 DEF Injection, IsInjective
<1>10. IsFiniteSet(E)
  <2>1. IsFiniteSet(1 .. m)
    BY <1>3, FS_Interval
  <2> DEFINE T == {done.variables[j] : j \in 1 .. m}
             f == [j \in 1 .. m |-> done.variables[j]]
  <2>2. f \in Surjection(1 .. m, T)
    BY DEF Surjection
  <2>3. E \subseteq T
    BY <1>5
  <2> HIDE DEF T, f, E, m
  <2>4. IsFiniteSet(T)
    BY <2>1, <2>2, FS_Surjection
  <2>5. QED
    BY <2>3, <2>4, FS_Subset
<1> HIDE DEF D, E, was
<1>11. IsFiniteSet(D) /\ Cardinality(D) <= Cardinality(E)
  BY <1>10, FS_Subset DEF D, E
<1>12. Cardinality(E) <= Cardinality(D)
  BY <1>9, <1>11, FS_Injection
<1>13. Cardinality(D) = Cardinality(E)
  BY <1>10, <1>11, <1>12, FS_CardinalityType
<1>14. D = E
  BY <1>10, <1>13, FS_Subset DEF D, E
<1>15. QED
  BY <1>14 DEF D, E

(***************************************************************************)
(* The interpreter's memory: the inductive invariant.                      *)
(***************************************************************************)
Fields == {"stack", "variables", "lists", "listsPool", "callStack"}

StateOK(st) ==
  /\ DOMAIN st = Fields
  /\ LaidOut(st.stack, st.variables)
  /\ DOMAIN st.lists \subseteq Keys /\ st.listsPool \subseteq Keys
  /\ st.callStack \in Seq(Nat) /\ st.callStack # <<>> /\ st.callStack[1] = 3
  /\ \A d \in 1 .. Len(st.callStack) : st.callStack[d] \in 1 .. Len(st.stack) + 1

(* Containers are a variable's or in the pool, and a detached variable has *)
(* one with a value in it.                                                 *)
Owned(st) == DOMAIN st.lists \subseteq DetachedIn(st.stack, st.variables) \cup st.listsPool

Stocked(st) ==
  \A v \in DetachedIn(st.stack, st.variables) :
    v \in DOMAIN st.lists /\ IsValue(st.lists[v])

NoneUnbound(stack, variables) ==
  \A k \in 1 .. Len(variables) : stack[variables[k].pos].type # "unbound"

Sound(st, ok) ==
  /\ StateOK(st)
  /\ Len(st.callStack) = 1 =>
       Tiled(st.stack, st.variables) /\ NoneUnbound(st.stack, st.variables)
  /\ ok \in BOOLEAN
  /\ ok => Owned(st) /\ Stocked(st)

IInv == Sound(state, intact)

(* Containers stay owned and stocked where no variable is detached anew.   *)
LEMMA DetachedStays ==
  ASSUME NEW stack, NEW variables, LaidOut(stack, variables),
         NEW other, LaidOut(other, variables),
         \A k \in 1 .. Len(variables) :
           other[variables[k].pos].type = "detach" <=> stack[variables[k].pos].type = "detach"
  PROVE  DetachedIn(other, variables) = DetachedIn(stack, variables)
<1>1. \A v : v \in DetachedIn(other, variables) <=> v \in DetachedIn(stack, variables)
  BY DetachedOf
<1>2. QED
  BY <1>1

(* The end of a statement. *)
LEMMA Ended ==
  ASSUME NEW st, StateOK(st), NEW garbage \in Seq(CellType), NEW breaks \in BOOLEAN,
         ~ breaks => Owned(st) /\ Stocked(st),
         EndStatement(st, garbage, breaks)
  PROVE  IInv'
<1> DEFINE left == [st EXCEPT !.stack = @ \o garbage]
           swept == sweepStack(left)
           depth == Len(st.callStack)
<1>1. /\ DOMAIN left = Fields /\ left.stack = st.stack \o garbage
      /\ left.variables = st.variables /\ left.lists = st.lists
      /\ left.listsPool = st.listsPool /\ left.callStack = st.callStack
  BY DEF StateOK, Fields
<1> HIDE DEF left
<1>2. /\ LaidOut(left.stack, left.variables)
      /\ \A k \in 1 .. Len(st.variables) : SameAs(st.stack, st.variables[k], left.stack, st.variables[k])
  BY <1>1, LaidOutBelow DEF StateOK
<1>3. DetachedIn(left.stack, left.variables) = DetachedIn(st.stack, st.variables)
  <2>1. LaidOut(st.stack, st.variables) /\ LaidOut(left.stack, st.variables)
    BY <1>1, <1>2 DEF StateOK
  <2>2. \A k \in 1 .. Len(st.variables) :
          left.stack[st.variables[k].pos].type = "detach" <=>
            st.stack[st.variables[k].pos].type = "detach"
    BY <1>2 DEF SameAs
  <2>3. DetachedIn(left.stack, st.variables) = DetachedIn(st.stack, st.variables)
    BY <2>1, <2>2, DetachedStays
  <2>4. QED
    BY <1>1, <2>3
<1>4. Len(left.stack) \in Nat /\ Len(st.stack) \in Nat /\ Len(st.stack) <= Len(left.stack)
  <2>1. st.stack \in Seq(CellType)
    BY LaidOutFacts DEF StateOK
  <2>2. QED
    BY <1>1, <2>1
<1>5. depth \in Nat /\ depth > 0
  BY DEF StateOK
<1> HIDE DEF depth, swept
<1>6. CASE depth > 1
  <2>1. state' = left /\ intact' = ~ breaks
    BY <1>6 DEF EndStatement, left, depth
  <2>2. StateOK(left)
    <3> DEFINE was == Len(st.stack)
               now == Len(left.stack)
    <3>3. \A d \in 1 .. Len(st.callStack) : st.callStack[d] \in 1 .. was + 1
      BY DEF StateOK
    <3>4. was \in Nat /\ now \in Nat /\ was <= now
      BY <1>4
    <3> HIDE DEF was, now
    <3>5. 1 .. was + 1 \subseteq 1 .. now + 1
      BY <3>4
    <3>6. \A d \in 1 .. Len(st.callStack) : st.callStack[d] \in 1 .. now + 1
      BY <3>3, <3>5
    <3>1. \A d \in 1 .. Len(left.callStack) : left.callStack[d] \in 1 .. Len(left.stack) + 1
      BY <1>1, <3>6 DEF now
    <3>2. QED
      BY <1>1, <1>2, <3>1 DEF StateOK
  <2>3. ~ breaks => Owned(left) /\ Stocked(left)
    BY <1>1, <1>3 DEF Owned, Stocked
  <2>4. Len(left.callStack) # 1
    <3>1. depth # 1
      BY <1>5, <1>6
    <3>2. QED
      BY <1>1, <3>1 DEF depth
  <2>5. Sound(left, ~ breaks)
    BY <2>2, <2>3, <2>4 DEF Sound
  <2>6. QED
    BY <2>1, <2>5 DEF IInv
<1>7. CASE depth = 1
  <2> DEFINE done == Swept(left)
             breaks2 == SweepBreaks(left, swept)
  <2>1. state' = swept /\ intact' = (~ breaks /\ ~ breaks2)
    <3>1. ~ (depth > 1)
      BY <1>7
    <3>2. QED
      BY <3>1 DEF EndStatement, left, swept, depth
  <2>2. SweptTo(left, done, Len(left.variables))
    BY <1>1, <1>2, SweptFacts DEF StateOK
  <2> HIDE DEF done
  <2>3. /\ DOMAIN swept = Fields /\ swept.stack = done.stack /\ swept.variables = done.variables
        /\ swept.lists = Without(left.lists, Freed(left))
        /\ swept.listsPool = st.listsPool /\ swept.callStack = st.callStack
    BY <1>1 DEF sweepStack, swept, done, Fields
  <2>4. /\ LaidOut(swept.stack, swept.variables) /\ Tiled(swept.stack, swept.variables)
        /\ NoneUnbound(swept.stack, swept.variables)
    <3>1. PICK src : SweptBy(left, done, Len(left.variables), src)
      BY <2>2 DEF SweptTo
    <3>2. NoneUnbound(done.stack, done.variables)
      BY <3>1 DEF SweptBy, SameAs, NoneUnbound
    <3>3. QED
      BY <2>2, <2>3, <3>2 DEF SweptTo
  <2>5. DOMAIN swept.lists = DOMAIN st.lists \ Freed(left)
        /\ \A v \in DOMAIN swept.lists : swept.lists[v] = st.lists[v]
    BY <1>1, <2>3 DEF Without
  <2>6. Freed(left) \subseteq st.listsPool
    BY <1>1 DEF Freed
  <2>7. StateOK(swept)
    <3>1. ASSUME NEW d \in 1 .. Len(swept.callStack)
          PROVE  swept.callStack[d] \in 1 .. Len(swept.stack) + 1
      <4>1. d = 1 /\ swept.callStack[1] = 3
        <5>1. d \in 1 .. 1
          BY <1>7, <2>3 DEF depth
        <5>2. QED
          BY <2>3, <5>1 DEF StateOK
      <4>2. Len(swept.stack) \in Nat /\ Len(swept.stack) >= 2
        BY <2>4, LaidOutFacts
      <4>3. QED
        BY <4>1, <4>2
    <3>2. QED
      BY <2>3, <2>4, <2>5, <3>1 DEF StateOK
  <2>8. ASSUME ~ breaks, ~ breaks2
        PROVE  Owned(swept) /\ Stocked(swept)
    <3> DEFINE D == DetachedIn(left.stack, left.variables)
               E == DetachedIn(swept.stack, swept.variables)
    <3>1. D = E \ Freed(left)
      BY <2>8 DEF SweepBreaks
    <3>2. D = E
      <4>1. D \subseteq E
        BY <3>1
      <4>2. LaidOut(left.stack, left.variables) /\ left.callStack[1] = 3
        BY <1>1, <1>2 DEF StateOK
      <4>3. D \subseteq DetachedIn(done.stack, done.variables)
        BY <2>3, <4>1
      <4>4. D = DetachedIn(done.stack, done.variables)
        BY <2>2, <4>2, <4>3, SweptDetached
      <4>5. QED
        BY <2>3, <4>4
    <3>3. Owned(st) /\ Stocked(st) /\ D = DetachedIn(st.stack, st.variables)
      BY <1>3, <2>8
    <3> HIDE DEF D, E
    <3>4. DOMAIN swept.lists \subseteq E \cup st.listsPool
      BY <2>5, <3>2, <3>3 DEF Owned
    <3>5. \A v \in E : v \in DOMAIN swept.lists /\ IsValue(swept.lists[v])
      BY <2>5, <3>1, <3>2, <3>3 DEF Stocked
    <3>6. QED
      BY <2>3, <3>4, <3>5 DEF Owned, Stocked, E
  <2>9. (~ breaks /\ ~ breaks2) \in BOOLEAN
    OBVIOUS
  <2> HIDE DEF breaks2
  <2>10. Sound(swept, ~ breaks /\ ~ breaks2)
    BY <2>4, <2>7, <2>8, <2>9 DEF Sound
  <2>11. QED
    BY <2>1, <2>10 DEF IInv
<1>8. QED
  BY <1>5, <1>6, <1>7

(***************************************************************************)
(* What statements do to a variable.                                       *)
(***************************************************************************)
LEMMA Found ==
  ASSUME StateOK(state), NEW n, IndexOf(n) # {}
  PROVE  \E k \in 1 .. Len(state.variables) :
           /\ findVariable(n) = state.variables[k] /\ state.variables[k].name = n
           /\ \A l \in 1 .. Len(state.variables) : k < l => state.variables[l].name # n
<1> DEFINE m == Len(state.variables)
<1>1. m \in Nat /\ DOMAIN state.variables = 1 .. m
  BY LaidOutFacts DEF StateOK
<1>2. IndexOf(n) \in SUBSET (1 .. m)
  BY <1>1 DEF IndexOf
<1>3. Max(IndexOf(n)) \in IndexOf(n) /\ \A l \in IndexOf(n) : ~ (Max(IndexOf(n)) < l)
  <2>1. IndexOf(n) \in SUBSET (0 .. m)
    BY <1>1, <1>2
  <2>2. QED
    BY <1>1, <2>1, LargestExists
<1> DEFINE k == Max(IndexOf(n))
<1>4. k \in 1 .. m /\ state.variables[k].name = n
  BY <1>1, <1>3 DEF IndexOf
<1>5. ASSUME NEW l \in 1 .. m, k < l PROVE state.variables[l].name # n
  <2>1. l \notin IndexOf(n)
    BY <1>3, <1>5
  <2>2. QED
    BY <1>1, <2>1 DEF IndexOf
<1>6. QED
  BY <1>4, <1>5 DEF findVariable

(* A statement on a variable that was found changes the fields of state    *)
(* that it names.                                                          *)
LEMMA Detached ==
  ASSUME StateOK(state), Owned(state), Stocked(state),
         NEW k \in 1 .. Len(state.variables), NEW v, v = state.variables[k], NEW value
  PROVE  LET st == detachVariable(v, value)
         IN  /\ StateOK(st)
             /\ IsValue(value) /\ ~ DetachBreaks(v) => Owned(st) /\ Stocked(st)
<1> DEFINE c == Detach(IF Cell(v).type = "list" THEN Cell(v).i ELSE 1)
           taken == IF TakesPooled(v) THEN {FirstPooled} ELSE {}
           st == detachVariable(v, value)
           stack == [state.stack EXCEPT ![v.pos] = c]
<1>1. /\ DOMAIN st = Fields /\ st.stack = stack
      /\ st.variables = state.variables
      /\ st.lists = With(Without(state.lists, taken), v, value)
      /\ st.listsPool = state.listsPool \ taken /\ st.callStack = state.callStack
  BY DEF detachVariable, StateOK, Fields
<1>2. /\ LaidOut(state.stack, state.variables)
      /\ state.stack \in Seq(CellType) /\ v \in Keys
      /\ v.pos \in 1 .. Len(state.stack)
  BY LaidOutFacts DEF StateOK
<1>3. c \in CellType /\ c.type = "detach" /\ c.type \in Placeholder
  <2>1. Cell(v) \in CellType
    BY <1>2 DEF Cell
  <2>2. Cell(v).i \in Nat
    BY <2>1 DEF CellType
  <2>3. QED
    BY <2>2 DEF Detach, CellType, Placeholder
<1> HIDE DEF c
<1>4. /\ LaidOut(stack, state.variables) /\ stack[v.pos] = c /\ Len(stack) = Len(state.stack)
      /\ \A l \in 1 .. Len(state.variables) : l # k =>
           SameAs(state.stack, state.variables[l], stack, state.variables[l])
  BY <1>2, <1>3, LaidOutMarked
<1>5. /\ DOMAIN st.lists = {v} \cup (DOMAIN state.lists \ taken)
      /\ st.lists[v] = value
      /\ \A x \in DOMAIN state.lists \ taken : x # v => st.lists[x] = state.lists[x]
  <2> HIDE DEF st, taken, stack
  <2>1. QED
    BY <1>1 DEF With, Without
<1>6. StateOK(st)
  <2> HIDE DEF st, stack
  <2>1. DOMAIN st.lists \subseteq Keys /\ st.listsPool \subseteq Keys
    BY <1>1, <1>2, <1>5 DEF StateOK
  <2>2. QED
    BY <1>1, <1>4, <2>1 DEF StateOK
<1>7. DetachedIn(st.stack, st.variables) =
        DetachedIn(state.stack, state.variables) \cup {v}
  <2> HIDE DEF stack, st, taken
  <2>1. ASSUME NEW x, x \in DetachedIn(stack, state.variables)
        PROVE  x \in DetachedIn(state.stack, state.variables) \cup {v}
    <3>1. PICK l \in 1 .. Len(state.variables) :
            state.variables[l] = x /\ stack[x.pos].type = "detach"
      BY <1>4, <2>1, DetachedOf
    <3>2. CASE l = k
      BY <3>1, <3>2
    <3>3. CASE l # k
      <4>1. state.stack[x.pos].type = "detach"
        BY <1>4, <3>1, <3>3 DEF SameAs
      <4>2. QED
        BY <1>2, <3>1, <4>1, DetachedOf
    <3>4. QED
      BY <3>2, <3>3
  <2>2. ASSUME NEW x, x \in DetachedIn(state.stack, state.variables) \cup {v}
        PROVE  x \in DetachedIn(stack, state.variables)
    <3>1. v \in DetachedIn(stack, state.variables)
      BY <1>3, <1>4, DetachedOf
    <3>2. CASE x # v
      <4>1. PICK l \in 1 .. Len(state.variables) :
              state.variables[l] = x /\ state.stack[x.pos].type = "detach"
        BY <1>2, <2>2, <3>2, DetachedOf
      <4>2. stack[x.pos].type = "detach"
        BY <1>4, <3>2, <4>1 DEF SameAs
      <4>3. QED
        BY <1>4, <4>1, <4>2, DetachedOf
    <3>3. QED
      BY <3>1, <3>2
  <2>3. QED
    BY <1>1, <2>1, <2>2
<1>8. ASSUME IsValue(value), ~ DetachBreaks(v)
      PROVE  Owned(st) /\ Stocked(st)
  <2> DEFINE D == DetachedIn(state.stack, state.variables)
  <2>1. D \cap taken = {}
    BY <1>8 DEF DetachBreaks, LiveKeys
  <2>2. taken \subseteq state.listsPool \cup taken
    OBVIOUS
  <2> HIDE DEF st, D, taken, stack
  <2>3. DOMAIN state.lists \subseteq D \cup state.listsPool
    BY DEF Owned, D
  <2>4. \A x \in D : x \in DOMAIN state.lists /\ IsValue(state.lists[x])
    BY DEF Stocked, D
  <2>5. DetachedIn(st.stack, st.variables) = D \cup {v}
    BY <1>7 DEF D
  <2>6. Owned(st)
    BY <1>1, <1>5, <2>3, <2>5 DEF Owned
  <2>7. Stocked(st)
    BY <1>5, <1>8, <2>1, <2>4, <2>5 DEF Stocked
  <2>8. QED
    BY <2>6, <2>7
<1>9. QED
  BY <1>6, <1>8

(* A value written over one of the same length, in place.                  *)
LEMMA Written ==
  ASSUME StateOK(state), Owned(state), Stocked(state),
         NEW k \in 1 .. Len(state.variables), NEW v, v = state.variables[k],
         ~ IsDetached(v),
         NEW value, IsValue(value), Len(value) = Size(state.stack, v),
         NEW st, st = [state EXCEPT !.stack = WrittenAt(@, v.pos, value)]
  PROVE  StateOK(st) /\ Owned(st) /\ Stocked(st)
<1> DEFINE stack == WrittenAt(state.stack, v.pos, value)
<1>1. /\ DOMAIN st = Fields /\ st.stack = stack
      /\ st.variables = state.variables /\ st.lists = state.lists
      /\ st.listsPool = state.listsPool /\ st.callStack = state.callStack
  BY DEF StateOK, Fields
<1>2. LaidOut(state.stack, state.variables)
  BY DEF StateOK
<1>3. /\ LaidOut(stack, state.variables) /\ Len(stack) = Len(state.stack)
      /\ stack[v.pos].type \notin Placeholder
      /\ \A l \in 1 .. Len(state.variables) : l # k =>
           SameAs(state.stack, state.variables[l], stack, state.variables[l])
  BY <1>2, LaidOutWritten
<1> HIDE DEF stack
<1>4. DetachedIn(stack, state.variables) = DetachedIn(state.stack, state.variables)
  <2>1. stack[v.pos].type # "detach" /\ state.stack[v.pos].type # "detach"
    BY <1>3 DEF Placeholder, IsDetached, Cell
  <2>2. \A l \in 1 .. Len(state.variables) :
          stack[state.variables[l].pos].type = "detach" <=>
            state.stack[state.variables[l].pos].type = "detach"
    BY <1>3, <2>1 DEF SameAs
  <2>3. QED
    BY <1>2, <1>3, <2>2, DetachedStays
<1>5. StateOK(st)
  BY <1>1, <1>3 DEF StateOK
<1>6. QED
  BY <1>1, <1>4, <1>5 DEF Owned, Stocked

(* Another value in the container of a detached variable. *)
LEMMA Contained ==
  ASSUME StateOK(state), Owned(state), Stocked(state),
         NEW v, NEW value, NEW st, st = [state EXCEPT !.lists[v] = value]
  PROVE  StateOK(st) /\ (IsValue(value) => Owned(st) /\ Stocked(st))
<1>1. /\ DOMAIN st = Fields /\ st.stack = state.stack /\ st.variables = state.variables
      /\ st.lists = [state.lists EXCEPT ![v] = value]
      /\ st.listsPool = state.listsPool /\ st.callStack = state.callStack
  BY DEF StateOK, Fields
<1>2. /\ DOMAIN st.lists = DOMAIN state.lists
      /\ \A x \in DOMAIN st.lists : st.lists[x] = state.lists[x] \/ st.lists[x] = value
  BY <1>1
<1>3. StateOK(st)
  BY <1>1, <1>2 DEF StateOK
<1>4. ASSUME IsValue(value) PROVE Owned(st) /\ Stocked(st)
  BY <1>1, <1>2, <1>4 DEF Owned, Stocked
<1>5. QED
  BY <1>3, <1>4

(* listOp on a variable: in place it fits. *)
LEMMA Operated ==
  ASSUME StateOK(state), Owned(state), Stocked(state),
         NEW k \in 1 .. Len(state.variables), NEW v, v = state.variables[k],
         NEW value, NEW detaches \in BOOLEAN,
         ~ IsDetached(v) /\ ~ detaches =>
           IsValue(value) /\ Len(value) = Size(state.stack, v)
  PROVE  LET st == listOp(v, value, detaches)
         IN  /\ StateOK(st)
             /\ IsValue(value) /\ ~ (detaches /\ ~ IsDetached(v) /\ DetachBreaks(v)) =>
                  Owned(st) /\ Stocked(st)
<1>1. CASE IsDetached(v)
  <2>1. listOp(v, value, detaches) = [state EXCEPT !.lists[v] = value]
    BY <1>1 DEF listOp
  <2>2. QED
    BY <2>1, Contained
<1>2. CASE ~ IsDetached(v) /\ detaches
  <2>1. listOp(v, value, detaches) = detachVariable(v, value)
    BY <1>2 DEF listOp
  <2>2. QED
    BY <1>2, <2>1, Detached
<1>3. CASE ~ IsDetached(v) /\ ~ detaches
  <2> DEFINE st == listOp(v, value, detaches)
  <2>1. st = [state EXCEPT !.stack = WrittenAt(@, v.pos, value)]
    BY <1>3 DEF listOp
  <2> HIDE DEF st
  <2>2. StateOK(st) /\ Owned(st) /\ Stocked(st)
    BY <1>3, <2>1, Written
  <2>3. QED
    BY <2>2 DEF st
<1>4. QED
  BY <1>1, <1>2, <1>3

(* A statement that changes a variable through listOp.                     *)
LEMMA Changed ==
  ASSUME IInv, intact, NEW n, IndexOf(n) # {},
         NEW value, value = <<>> \/ IsValue(value), NEW detaches \in BOOLEAN,
         ~ IsDetached(findVariable(n)) /\ ~ detaches =>
           IsValue(value) /\ Len(value) = Size(state.stack, findVariable(n)),
         NEW garbage \in Seq(CellType), Change(n, value, detaches, garbage)
  PROVE  IInv'
<1> DEFINE v == findVariable(n)
           breaks == (detaches /\ ~ IsDetached(v) /\ DetachBreaks(v)) \/ value = <<>>
           st == listOp(v, value, detaches)
<1>1. StateOK(state) /\ Owned(state) /\ Stocked(state)
  BY DEF IInv, Sound
<1>2. PICK k \in 1 .. Len(state.variables) : v = state.variables[k]
  BY <1>1, Found
<1>3. EndStatement(st, garbage, breaks)
  BY Zenon DEF Change
<1>4. /\ StateOK(st)
      /\ IsValue(value) /\ ~ (detaches /\ ~ IsDetached(v) /\ DetachBreaks(v)) =>
           Owned(st) /\ Stocked(st)
  BY <1>1, <1>2, Operated
<1>5. ~ breaks => Owned(st) /\ Stocked(st)
  BY <1>4
<1>6. breaks \in BOOLEAN
  OBVIOUS
<1> HIDE DEF st, breaks
<1>7. QED
  BY <1>3, <1>4, <1>5, <1>6, Ended

(***************************************************************************)
(* The elements of a list.                                                 *)
(***************************************************************************)

(* The recursive function of nthCell. *)
Nths(h, v, k) ==
  h = [j \in 1 .. k |-> IF j = 1 THEN 2 ELSE h[j - 1] + countElements(v, h[j - 1])]

(* There is such a function.                                               *)
LEMMA NthsExists == \A v : \A n \in Nat : \E h : Nths(h, v, n)
<1> SUFFICES ASSUME NEW v, NEW n \in Nat
             PROVE  \E h : Nths(h, v, n)
  OBVIOUS
<1> DEFINE S == {k \in 0 .. n : \E h : Nths(h, v, k)}
           next(x) == x + countElements(v, x)
<1> HIDE DEF next
<1>0. \A h, k : Nths(h, v, k) <=> h = [j \in 1 .. k |-> IF j = 1 THEN 2 ELSE next(h[j - 1])]
  BY Zenon DEF Nths, next
<1>1. 0 \in S
  <2> DEFINE h == [j \in 1 .. 0 |-> {}]
  <2>1. h = [j \in 1 .. 0 |-> IF j = 1 THEN 2 ELSE next(h[j - 1])]
    OBVIOUS
  <2>2. Nths(h, v, 0)
    BY <1>0, <2>1, Zenon
  <2>3. QED
    BY <2>2
<1>2. ASSUME NEW k \in Nat, k < n, k \in S
      PROVE  k + 1 \in S
  <2>1. PICK h : Nths(h, v, k)
    BY <1>2
  <2> DEFINE g == [j \in 1 .. k + 1 |->
                     IF j = k + 1 THEN IF j = 1 THEN 2 ELSE next(h[k]) ELSE h[j]]
  <2>2. \A j \in 1 .. k : h[j] = IF j = 1 THEN 2 ELSE next(h[j - 1])
    <3>1. h = [j \in 1 .. k |-> IF j = 1 THEN 2 ELSE next(h[j - 1])]
      BY <1>0, <2>1, Zenon
    <3>2. QED
      BY <3>1, Zenon
  <2>3. /\ \A j \in 1 .. k : g[j] = h[j]
        /\ g[k + 1] = IF k + 1 = 1 THEN 2 ELSE next(h[k])
        /\ g = [j \in 1 .. k + 1 |-> g[j]]
    <3>1. \A j \in 1 .. k : j \in 1 .. k + 1 /\ j # k + 1
      OBVIOUS
    <3>2. k + 1 \in 1 .. k + 1
      OBVIOUS
    <3>3. \A j \in 1 .. k : g[j] = h[j]
      BY <3>1
    <3>4. g[k + 1] = IF k + 1 = 1 THEN 2 ELSE next(h[k])
      BY <3>2, Zenon
    <3>5. QED
      BY <3>3, <3>4
  <2> HIDE DEF g
  <2>4. ASSUME NEW j \in 1 .. k + 1
        PROVE  g[j] = IF j = 1 THEN 2 ELSE next(g[j - 1])
    <3>1. CASE j = 1
      <4>1. CASE k = 0
        BY <2>3, <3>1, <4>1
      <4>2. CASE k # 0
        BY <2>2, <2>3, <3>1, <4>2
      <4>3. QED
        BY <4>1, <4>2
    <3>2. CASE j = k + 1 /\ j # 1
      <4>1. k \in 1 .. k /\ j - 1 = k
        BY <3>2
      <4>2. g[j] = next(h[k]) /\ g[j - 1] = h[k]
        BY <2>3, <3>2, <4>1
      <4>3. QED
        BY <3>2, <4>2
    <3>3. CASE j # k + 1 /\ j # 1
      <4>1. j \in 1 .. k /\ j - 1 \in 1 .. k
        BY <3>3
      <4>2. g[j] = h[j] /\ g[j - 1] = h[j - 1] /\ h[j] = next(h[j - 1])
        BY <2>2, <2>3, <3>3, <4>1
      <4>3. QED
        BY <3>3, <4>2
    <3>4. QED
      BY <3>1, <3>2, <3>3
  <2>5. g = [j \in 1 .. k + 1 |-> IF j = 1 THEN 2 ELSE next(g[j - 1])]
    <3> DEFINE f == [j \in 1 .. k + 1 |-> IF j = 1 THEN 2 ELSE next(g[j - 1])]
    <3>1. \A j \in 1 .. k + 1 : g[j] = f[j]
      BY <2>4
    <3> HIDE DEF f
    <3>2. f = [j \in 1 .. k + 1 |-> f[j]]
      BY DEF f
    <3>3. f = g
      BY <2>3, <3>1, <3>2
    <3>4. QED
      BY <3>3 DEF f
  <2>6. Nths(g, v, k + 1)
    BY <1>0, <2>5, Zenon
  <2>7. k + 1 \in 0 .. n
    BY <1>2
  <2>8. QED
    BY <2>6, <2>7
<1> HIDE DEF S
<1>3. n \in S
  BY <1>1, <1>2, Induction
<1>4. QED
  BY <1>3 DEF S

(* nthCell is the last value of that function. *)
LEMMA NthByFunction ==
  ASSUME NEW v, NEW k \in Nat
  PROVE  \E h : /\ nthCell(v, k) = h[k]
                /\ \A j \in 1 .. k : h[j] = IF j = 1 THEN 2
                                            ELSE h[j - 1] + countElements(v, h[j - 1])
<1> DEFINE h == CHOOSE h : Nths(h, v, k)
<1>1. Nths(h, v, k)
  <2>1. \E g : Nths(g, v, k)
    BY NthsExists
  <2>2. QED
    BY <2>1, Zenon
<1>2. nthCell(v, k) = h[k]
  BY Zenon DEF nthCell, Nths
<1> HIDE DEF h
<1>3. \A j \in 1 .. k : h[j] = IF j = 1 THEN 2 ELSE h[j - 1] + countElements(v, h[j - 1])
  BY <1>1, Zenon DEF Nths
<1>4. QED
  BY <1>2, <1>3

(* Sequences in parts. *)
LEMMA Parts ==
  ASSUME NEW T, NEW s \in Seq(T), NEW t \in Seq(T)
  PROVE  /\ s \o t \in Seq(T) /\ Len(s \o t) = Len(s) + Len(t)
         /\ Len(s) \in Nat /\ Len(t) \in Nat
         /\ SubSeq(s \o t, 1, Len(s)) = s
         /\ SubSeq(s \o t, Len(s) + 1, Len(s \o t)) = t
<1> DEFINE u == s \o t
           x == SubSeq(u, 1, Len(s))
           y == SubSeq(u, Len(s) + 1, Len(u))
<1>1. /\ u \in Seq(T) /\ Len(u) = Len(s) + Len(t) /\ Len(s) \in Nat /\ Len(t) \in Nat
      /\ \A i \in 1 .. Len(s) : u[i] = s[i]
      /\ \A i \in 1 .. Len(t) : u[Len(s) + i] = t[i]
  OBVIOUS
<1> HIDE DEF u
<1>2. /\ x \in Seq(T) /\ Len(x) = Len(s)
      /\ \A i \in 1 .. Len(s) : x[i] = u[i]
  BY <1>1
<1>3. /\ y \in Seq(T) /\ Len(y) = Len(t)
      /\ \A i \in 1 .. Len(t) : y[i] = u[Len(s) + i]
  BY <1>1
<1> HIDE DEF x, y
<1>4. x = s
  <2>1. \A i \in 1 .. Len(s) : x[i] = s[i]
    BY <1>1, <1>2
  <2>2. QED
    BY <1>2, <2>1
<1>5. y = t
  <2>1. \A i \in 1 .. Len(t) : y[i] = t[i]
    BY <1>1, <1>3
  <2>2. QED
    BY <1>3, <2>1
<1>6. QED
  BY <1>1, <1>4, <1>5 DEF x, y, u

(* Only the head of a list is counted anew.                                *)
LEMMA HeadReplaced ==
  ASSUME NEW T, NEW c \in T, NEW d \in T, NEW t \in Seq(T)
  PROVE  [<<c>> \o t EXCEPT ![1] = d] = <<d>> \o t
<1> DEFINE s == <<c>> \o t
           u == [s EXCEPT ![1] = d]
           r == <<d>> \o t
<1>1. /\ s \in Seq(T) /\ Len(s) = 1 + Len(t) /\ Len(t) \in Nat
      /\ \A i \in 1 .. Len(t) : s[1 + i] = t[i]
      /\ r \in Seq(T) /\ Len(r) = 1 + Len(t) /\ r[1] = d
      /\ \A i \in 1 .. Len(t) : r[1 + i] = t[i]
  OBVIOUS
<1> HIDE DEF s, r
<1>2. /\ u \in Seq(T) /\ Len(u) = 1 + Len(t) /\ u[1] = d
      /\ \A i \in 2 .. Len(s) : u[i] = s[i]
  BY <1>1
<1> HIDE DEF u
<1>3. ASSUME NEW i \in 1 .. 1 + Len(t) PROVE u[i] = r[i]
  <2>1. CASE i = 1
    BY <1>1, <1>2, <2>1
  <2>2. CASE i # 1
    <3>1. i - 1 \in 1 .. Len(t) /\ 1 + (i - 1) = i /\ i \in 2 .. Len(s)
      BY <1>1, <2>2
    <3>2. s[i] = t[i - 1] /\ r[i] = t[i - 1]
      BY <1>1, <3>1
    <3>3. QED
      BY <1>2, <3>1, <3>2
  <2>3. QED
    BY <2>1, <2>2
<1>4. u = r
  BY <1>1, <1>2, <1>3
<1>5. QED
  BY <1>4 DEF u, r, s

(* A list is its head and its elements. *)
LEMMA ListParts ==
  ASSUME NEW v, IsValue(v), IsList(v)
  PROVE  /\ v[1].i \in Nat /\ v[1] \in ValueCell /\ v # <<>>
         /\ Tail(v) \in Seq(ValueCell) /\ Forest(Tail(v), v[1].i)
         /\ v = <<v[1]>> \o Tail(v)
         /\ \A n \in Nat : WithCount(v, n) = <<List(n)>> \o Tail(v)
<1>1. /\ v \in Seq(ValueCell) /\ v # <<>> /\ v[1] \in ValueCell
      /\ v = <<v[1]>> \o Tail(v) /\ Forest(Tail(v), Counts(v[1]))
  BY HeadOfValue
<1>2. Counts(v[1]) = v[1].i /\ v[1].i \in Nat
  BY <1>1 DEF IsList, Counts, ValueCell
<1>3. Tail(v) \in Seq(ValueCell)
  BY <1>1 DEF Forest
<1>4. ASSUME NEW n \in Nat
      PROVE  WithCount(v, n) = <<List(n)>> \o Tail(v)
  <2> DEFINE c == v[1]
             d == List(n)
             t == Tail(v)
  <2>1. d \in ValueCell
    BY DEF List, ValueCell
  <2>2. c \in ValueCell /\ t \in Seq(ValueCell) /\ v = <<c>> \o t
    BY <1>1, <1>3
  <2> HIDE DEF c, d, t
  <2>3. [<<c>> \o t EXCEPT ![1] = d] = <<d>> \o t
    BY <2>1, <2>2, HeadReplaced
  <2>4. [v EXCEPT ![1] = d] = <<d>> \o t
    BY <2>2, <2>3, Zenon
  <2>5. QED
    BY <2>4, Zenon DEF WithCount, d, t
<1>5. QED
  BY <1>1, <1>2, <1>3, <1>4

(* push makes a value of a list and a value.                               *)
LEMMA PushedValue ==
  ASSUME NEW v, IsValue(v), IsList(v), NEW e, IsValue(e)
  PROVE  IsValue(Pushed(v, e))
<1> DEFINE n == v[1].i
           t == Tail(v)
           c == List(n + 1)
<1>1. /\ n \in Nat /\ n + 1 \in Nat /\ t \in Seq(ValueCell) /\ Forest(t, n)
      /\ WithCount(v, n + 1) = <<c>> \o t
  <2>1. n \in Nat /\ t \in Seq(ValueCell) /\ Forest(t, n)
    BY ListParts
  <2>2. n + 1 \in Nat
    BY <2>1
  <2>3. WithCount(v, n + 1) = <<c>> \o t
    BY <2>2, ListParts
  <2>4. QED
    BY <2>1, <2>2, <2>3
<1>2. Forest(e, 1) /\ e \in Seq(ValueCell)
  BY ValueIsForest, HeadOfValue
<1>3. c \in ValueCell
  BY <1>1 DEF List, ValueCell
<1>4. Pushed(v, e) = (<<c>> \o t) \o e
  BY <1>1, Zenon DEF Pushed
<1> HIDE DEF n, t
<1>5. IsValue(<<c>> \o (t \o e))
  <2>1. Forest(t \o e, n + 1)
    BY <1>1, <1>2, ForestConcat
  <2>2. QED
    BY <1>1, <2>1, ListOf
<1> HIDE DEF c
<1>6. (<<c>> \o t) \o e = <<c>> \o (t \o e)
  BY <1>1, <1>2, <1>3
<1>7. QED
  BY <1>4, <1>5, <1>6

(* append makes a value of two lists.                                      *)
LEMMA AppendedValue ==
  ASSUME NEW v, IsValue(v), IsList(v), NEW w, IsValue(w), IsList(w)
  PROVE  IsValue(Appended(v, w))
<1> DEFINE n == v[1].i
           m == w[1].i
           t == Tail(v)
           e == Tail(w)
           c == List(n + m)
<1>1. n \in Nat /\ m \in Nat /\ t \in Seq(ValueCell) /\ Forest(t, n)
  BY ListParts
<1>2. Forest(e, m) /\ e \in Seq(ValueCell)
  BY ListParts
<1>3. c \in ValueCell /\ n + m \in Nat
  BY <1>1 DEF List, ValueCell
<1>4. Appended(v, w) = (<<c>> \o t) \o e
  <2>1. WithCount(v, n + m) = <<c>> \o t
    BY <1>3, ListParts
  <2>2. QED
    BY <2>1, Zenon DEF Appended
<1> HIDE DEF n, t, m, e
<1>5. IsValue(<<c>> \o (t \o e))
  BY <1>1, <1>2, <1>3, ForestConcat, ListOf
<1> HIDE DEF c
<1>6. (<<c>> \o t) \o e = <<c>> \o (t \o e)
  BY <1>1, <1>2, <1>3
<1>7. QED
  BY <1>4, <1>5, <1>6

(* nthCell finds the beginning of an element. *)
InParts(v, h, j) ==
  \E a, b : /\ v = <<v[1]>> \o (a \o b)
            /\ Forest(a, j - 1) /\ Forest(b, v[1].i - j + 1)
            /\ h[j] = 2 + Len(a)

LEMMA ThreeParts ==
  ASSUME NEW c \in ValueCell, NEW a \in Seq(ValueCell), NEW x \in Seq(ValueCell),
         NEW b \in Seq(ValueCell)
  PROVE  LET v == <<c>> \o (a \o (x \o b))
         IN  /\ v = <<c>> \o ((a \o x) \o b) /\ v \in Seq(ValueCell)
             /\ Len(v) = 1 + Len(a) + Len(x) + Len(b)
             /\ Len(a) \in Nat /\ Len(x) \in Nat /\ Len(b) \in Nat
             /\ Len(a \o x) = Len(a) + Len(x)
             /\ Lies(v, 2 + Len(a), x)
<1> DEFINE v == <<c>> \o (a \o (x \o b))
<1>1. v = <<c>> \o ((a \o x) \o b)
  OBVIOUS
<1>2. v \in Seq(ValueCell) /\ Len(v) = 1 + Len(a) + Len(x) + Len(b)
  OBVIOUS
<1>3. Len(a) \in Nat /\ Len(x) \in Nat /\ Len(b) \in Nat /\ Len(a \o x) = Len(a) + Len(x)
  OBVIOUS
<1>4. \A p \in 1 .. Len(x) : v[1 + Len(a) + p] = x[p]
  OBVIOUS
<1> HIDE DEF v
<1>5. ASSUME NEW p \in 1 .. Len(x) PROVE v[2 + Len(a) + p - 1] = x[p]
  <2>1. 2 + Len(a) + p - 1 = 1 + Len(a) + p
    BY <1>3
  <2>2. QED
    BY <1>4, <2>1
<1>6. Lies(v, 2 + Len(a), x)
  BY <1>2, <1>3, <1>5 DEF Lies
<1>7. QED
  BY <1>1, <1>2, <1>3, <1>6 DEF v

(* The first element begins behind the head.                               *)
LEMMA InPartsFirst ==
  ASSUME NEW v, IsValue(v), IsList(v), NEW h, h[1] = 2
  PROVE  InParts(v, h, 1)
<1> DEFINE t == Tail(v)
           n == v[1].i
<1>1. n \in Nat /\ t \in Seq(ValueCell) /\ Forest(t, n) /\ v = <<v[1]>> \o t
  BY ListParts
<1>2. Forest(<<>>, 0)
  <2>1. <<>> \in Seq(ValueCell) /\ Len(<<>>) = 0
    OBVIOUS
  <2>2. Delim(<<>>, 1)[0] = 0
    BY <2>1, WordDelim
  <2>3. \A k \in 0 .. 0 : ~ (k < 0)
    OBVIOUS
  <2>4. QED
    BY <2>1, <2>2, <2>3 DEF Forest
<1>3. <<>> \o t = t /\ Len(<<>>) = 0
  BY <1>1
<1>4. n - 1 + 1 = n /\ 1 - 1 = 0 /\ 2 + 0 = 2
  BY <1>1
<1>5. /\ v = <<v[1]>> \o (<<>> \o t) /\ Forest(<<>>, 1 - 1) /\ Forest(t, n - 1 + 1)
      /\ h[1] = 2 + Len(<<>>)
  BY <1>1, <1>2, <1>3, <1>4
<1>6. QED
  BY <1>5 DEF InParts

(* The element there, and what is before and behind it.                    *)
HasElement(v, q, j, a, x, b) ==
  /\ v = <<v[1]>> \o (a \o (x \o b))
  /\ Forest(a, j - 1) /\ IsValue(x) /\ Forest(b, v[1].i - j)
  /\ q = 2 + Len(a)
  /\ countElements(v, q) = Len(x) /\ CellsAt(v, q) = x

LEMMA ElementThere ==
  ASSUME NEW v, IsValue(v), IsList(v), NEW j \in 1 .. v[1].i, NEW h, InParts(v, h, j)
  PROVE  \E a, x, b : HasElement(v, h[j], j, a, x, b)
<1> DEFINE n == v[1].i
           m == n - j
           c == v[1]
<1>1. n \in Nat /\ c \in ValueCell /\ v \in Seq(ValueCell)
  BY ListParts, HeadOfValue
<1>2. PICK a, d : /\ v = <<c>> \o (a \o d)
                  /\ Forest(a, j - 1) /\ Forest(d, n - j + 1)
                  /\ h[j] = 2 + Len(a)
  BY DEF InParts
<1>3. m \in Nat /\ n - j + 1 = m + 1
  BY <1>1
<1> HIDE DEF m, n, c
<1>4. PICK x, b : d = x \o b /\ Forest(x, 1) /\ Forest(b, m)
  BY <1>2, <1>3, ForestFirst
<1>5. a \in Seq(ValueCell) /\ x \in Seq(ValueCell) /\ b \in Seq(ValueCell)
  BY <1>2, <1>4 DEF Forest
<1>6. v = <<c>> \o (a \o (x \o b))
  BY <1>2, <1>4
<1>7. Lies(v, 2 + Len(a), x)
  BY <1>1, <1>5, <1>6, ThreeParts
<1>8. IsValue(x)
  BY <1>4, ValueIsForest
<1>9. countElements(v, h[j]) = Len(x) /\ CellsAt(v, h[j]) = x
  BY <1>1, <1>2, <1>7, <1>8, ValueCounted, ValueCells
<1>10. HasElement(v, h[j], j, a, x, b)
  BY <1>2, <1>4, <1>6, <1>8, <1>9 DEF HasElement, c, m, n
<1>11. QED
  BY <1>10

(* The next begins where the element before it ends.                       *)
LEMMA InPartsNext ==
  ASSUME NEW v, IsValue(v), IsList(v), NEW j \in Nat, j > 0, j < v[1].i,
         NEW h, InParts(v, h, j), h[j + 1] = h[j] + countElements(v, h[j])
  PROVE  InParts(v, h, j + 1)
<1> DEFINE n == v[1].i
           c == v[1]
<1>1. n \in Nat /\ c \in ValueCell /\ j \in 1 .. v[1].i
  <2>1. n \in Nat /\ c \in ValueCell
    BY ListParts
  <2>2. QED
    BY <2>1
<1>2. PICK a, x, b : HasElement(v, h[j], j, a, x, b)
  BY <1>1, ElementThere
<1>3. /\ v = <<c>> \o (a \o (x \o b))
      /\ Forest(a, j - 1) /\ Forest(x, 1) /\ Forest(b, n - j)
      /\ h[j] = 2 + Len(a) /\ h[j + 1] = h[j] + Len(x)
  BY <1>2, ValueIsForest DEF HasElement
<1> HIDE DEF c, n
<1>4. a \in Seq(ValueCell) /\ x \in Seq(ValueCell) /\ b \in Seq(ValueCell)
  BY <1>3 DEF Forest
<1>5. /\ v = <<c>> \o ((a \o x) \o b)
      /\ Len(a \o x) = Len(a) + Len(x) /\ Len(a) \in Nat /\ Len(x) \in Nat
  <2>1. (a \o x) \o b = a \o (x \o b)
    BY <1>4, ConcatAssociative
  <2>2. QED
    BY <1>3, <1>4, <2>1
<1>6. Forest(a \o x, (j - 1) + 1)
  BY <1>3, ForestConcat
<1>7. (j - 1) + 1 = (j + 1) - 1 /\ n - j = n - (j + 1) + 1
  BY <1>1
<1>8. h[j + 1] = 2 + Len(a \o x)
  BY <1>3, <1>5
<1> DEFINE y == a \o x
<1>9. /\ v = <<c>> \o (y \o b) /\ Forest(y, (j + 1) - 1) /\ Forest(b, n - (j + 1) + 1)
      /\ h[j + 1] = 2 + Len(y)
  BY <1>3, <1>5, <1>6, <1>7, <1>8
<1> HIDE DEF y
<1>10. QED
  BY <1>9 DEF InParts, c, n

(* nthCell finds each element of a list, with a forest on either side.     *)
LEMMA NthElement ==
  ASSUME NEW v, IsValue(v), IsList(v), NEW k \in 1 .. v[1].i
  PROVE  \E a, x, b : HasElement(v, nthCell(v, k), k, a, x, b)
<1>1. k \in Nat /\ k > 0 /\ v[1].i \in Nat /\ k <= v[1].i
  <2>1. v[1].i \in Nat
    BY ListParts
  <2>2. QED
    BY <2>1
<1>2. PICK h : /\ nthCell(v, k) = h[k]
               /\ \A j \in 1 .. k : h[j] = IF j = 1 THEN 2
                                           ELSE h[j - 1] + countElements(v, h[j - 1])
  BY <1>1, NthByFunction
<1> DEFINE S == {j \in Nat : j # 0 => InParts(v, h, j)}
<1>3. 0 \in S
  OBVIOUS
<1>4. ASSUME NEW j \in Nat, j < k, j \in S
      PROVE  j + 1 \in S
  <2>1. CASE j = 0
    <3>1. h[1] = 2
      BY <1>1, <1>2
    <3>2. InParts(v, h, 1)
      BY <3>1, InPartsFirst
    <3>3. j + 1 = 1
      BY <2>1
    <3>4. QED
      BY <3>2, <3>3
  <2>2. CASE j # 0
    <3>1. j > 0 /\ j < v[1].i /\ InParts(v, h, j)
      BY <1>1, <1>4, <2>2
    <3>2. j + 1 \in 1 .. k /\ j + 1 # 1 /\ (j + 1) - 1 = j
      BY <1>1, <1>4, <2>2
    <3>3. h[j + 1] = h[j] + countElements(v, h[j])
      BY <1>2, <3>2
    <3>4. InParts(v, h, j + 1)
      BY <3>1, <3>3, InPartsNext
    <3>5. QED
      BY <3>4
  <2>3. QED
    BY <2>1, <2>2
<1> HIDE DEF S
<1>5. \A j \in 0 .. k : j \in S
  BY <1>1, <1>3, <1>4, Induction
<1>6. InParts(v, h, k)
  <2>1. k \in 0 .. k /\ k # 0
    BY <1>1
  <2>2. QED
    BY <1>5, <2>1 DEF S
<1>7. QED
  BY <1>2, <1>6, ElementThere

LEMMA ForestLeftOut ==
  ASSUME NEW n \in Nat, NEW j \in 1 .. n, NEW a, NEW b, Forest(a, j - 1), Forest(b, n - j)
  PROVE  n - 1 \in Nat /\ Forest(a \o b, n - 1)
<1>1. n - 1 \in Nat /\ (j - 1) + (n - j) = n - 1
  OBVIOUS
<1>2. Forest(a \o b, (j - 1) + (n - j))
  BY ForestConcat
<1>3. QED
  BY <1>1, <1>2

(* A list without one of its elements is a value.                          *)
LEMMA RemovedValue ==
  ASSUME NEW v, IsValue(v), IsList(v), NEW k \in 1 .. v[1].i
  PROVE  IsValue(RemovedAt(v, nthCell(v, k)))
<1> DEFINE n == v[1].i
           q == nthCell(v, k)
           c == v[1]
           d == List(n - 1)
           w == WithCount(v, n - 1)
<1>1. PICK a, x, b : HasElement(v, q, k, a, x, b)
  BY NthElement
<1>2. /\ v = <<c>> \o (a \o (x \o b))
      /\ Forest(a, k - 1) /\ Forest(x, 1) /\ Forest(b, n - k)
      /\ q = 2 + Len(a) /\ countElements(v, q) = Len(x)
  BY <1>1, ValueIsForest DEF HasElement
<1>3. a \in Seq(ValueCell) /\ x \in Seq(ValueCell) /\ b \in Seq(ValueCell)
  BY <1>2 DEF Forest
<1>4. n \in Nat /\ c \in ValueCell
  BY ListParts
<1>5. n - 1 \in Nat /\ Forest(a \o b, n - 1)
  BY <1>2, <1>4, ForestLeftOut
<1>6. d \in ValueCell
  BY <1>5 DEF List, ValueCell
<1> DEFINE t == a \o (x \o b)
<1>7. w = <<d>> \o t
  <2>1. t \in Seq(ValueCell)
    BY <1>3
  <2> HIDE DEF d, c, n, t
  <2>2. [<<c>> \o t EXCEPT ![1] = d] = <<d>> \o t
    BY <1>4, <1>6, <2>1, HeadReplaced
  <2>3. [v EXCEPT ![1] = d] = <<d>> \o t
    BY <1>2, <2>2, Zenon DEF t
  <2>4. QED
    BY <2>3, Zenon DEF WithCount, d
<1>8. Len(v) = Len(w)
  <2> HIDE DEF c, d, w, q, n
  <2>1. Len(<<c>> \o t) = Len(<<d>> \o t)
    BY <1>3, <1>4, <1>6
  <2>2. QED
    BY <1>2, <1>7, <2>1
<1>9. RemovedAt(v, q) = SubSeq(w, 1, q - 1) \o SubSeq(w, q + countElements(v, q), Len(v))
  BY Zenon DEF RemovedAt
<1>10. SubSeq(w, 1, q - 1) = <<d>> \o a
  <2> HIDE DEF c, d, w, q, n
  <2> DEFINE s == <<d>> \o a
             r == x \o b
  <2>1. s \in Seq(ValueCell) /\ r \in Seq(ValueCell) /\ Len(s) = 1 + Len(a) /\ Len(a) \in Nat
    BY <1>3, <1>6
  <2>2. w = s \o r
    <3>1. <<d>> \in Seq(ValueCell) /\ r \in Seq(ValueCell)
      BY <1>3, <1>6
    <3>2. (<<d>> \o a) \o r = <<d>> \o (a \o r)
      BY <1>3, <3>1, ConcatAssociative
    <3>3. QED
      BY <1>7, <3>2
  <2> HIDE DEF s, r
  <2>3. SubSeq(s \o r, 1, Len(s)) = s
    BY <2>1, Parts
  <2>4. q - 1 = Len(s)
    BY <1>2, <2>1
  <2>5. SubSeq(w, 1, q - 1) = s
    BY <2>2, <2>3, <2>4
  <2>6. QED
    BY <2>5 DEF s
<1>11. SubSeq(w, q + countElements(v, q), Len(v)) = b
  <2> HIDE DEF c, d, w, q, n
  <2> DEFINE s == <<d>> \o (a \o x)
  <2>1. /\ s \in Seq(ValueCell) /\ Len(s) = 1 + Len(a) + Len(x)
        /\ Len(a) \in Nat /\ Len(x) \in Nat
    BY <1>3, <1>6
  <2>2. w = s \o b
    BY <1>3, <1>6, <1>7
  <2> HIDE DEF s
  <2>3. SubSeq(s \o b, Len(s) + 1, Len(s \o b)) = b
    BY <1>3, <2>1, Parts
  <2>4. q + countElements(v, q) = Len(s) + 1
    BY <1>2, <2>1
  <2>5. QED
    BY <1>8, <2>2, <2>3, <2>4
<1>12. RemovedAt(v, q) = (<<d>> \o a) \o b
  BY <1>9, <1>10, <1>11
<1>13. (<<d>> \o a) \o b = <<d>> \o (a \o b)
  <2> HIDE DEF d
  <2>1. QED
    BY <1>3, <1>6
<1>14. IsValue(<<d>> \o (a \o b))
  BY <1>5, ListOf
<1>15. QED
  BY <1>12, <1>13, <1>14

(* pop makes a value of a list, or nothing of one that was empty.          *)
LEMMA PoppedValue ==
  ASSUME NEW v, IsValue(v), IsList(v)
  PROVE  Popped(v) = <<>> \/ IsValue(Popped(v))
<1>1. CASE v[1].i = 0
  BY <1>1 DEF Popped
<1>2. CASE v[1].i # 0
  <2>1. v[1].i \in Nat
    BY ListParts
  <2>2. v[1].i \in 1 .. v[1].i
    BY <1>2, <2>1
  <2>3. lastCell(v) = nthCell(v, v[1].i) /\ Popped(v) = RemovedAt(v, lastCell(v))
    BY <1>2 DEF lastCell, Popped
  <2>4. QED
    BY <2>2, <2>3, RemovedValue
<1>3. QED
  BY <1>1, <1>2

(* findCell finds the head, or where an element begins. *)
LEMMA FoundCell ==
  ASSUME NEW v, IsValue(v), IsList(v), NEW e
  PROVE  \/ findCell(v, e) = 1
         \/ /\ findCell(v, e) > 1 /\ findCell(v, e) \in Nat
            /\ \E k \in 1 .. v[1].i : findCell(v, e) = nthCell(v, k)
<1> DEFINE found == {q \in ElementStarts(v) : CellsAt(v, q) = e}
<1>1. \A q \in found : q \in Nat /\ q > 1 /\ \E k \in 1 .. v[1].i : q = nthCell(v, k)
  <2> SUFFICES ASSUME NEW q \in found
               PROVE  q \in Nat /\ q > 1 /\ \E k \in 1 .. v[1].i : q = nthCell(v, k)
    OBVIOUS
  <2>1. PICK k \in 1 .. v[1].i : q = nthCell(v, k)
    BY DEF ElementStarts
  <2>2. PICK a, x, b : HasElement(v, q, k, a, x, b)
    BY <2>1, NthElement
  <2>3. q = 2 + Len(a) /\ a \in Seq(ValueCell)
    BY <2>2 DEF HasElement, Forest
  <2>4. q \in Nat /\ q > 1
    BY <2>3
  <2>5. QED
    BY <2>1, <2>4
<1>2. CASE found = {}
  BY <1>2 DEF findCell
<1>3. CASE found # {}
  <2>1. found \subseteq Nat
    BY <1>1
  <2>2. findCell(v, e) = Min(found)
    BY <1>3 DEF findCell
  <2> HIDE DEF found
  <2>3. PICK m \in found : \A q \in found : m <= q
    BY <1>3, <2>1, Least
  <2>4. Min(found) = m
    <3>1. \A x \in found : x \in Int /\ m <= x
      BY <2>1, <2>3
    <3>2. QED
      BY <3>1, LeastIsMin
  <2>5. QED
    BY <1>1, <2>2, <2>3, <2>4
<1>4. QED
  BY <1>2, <1>3

(* delete makes a value of a list.                                         *)
LEMMA DeletedValue ==
  ASSUME NEW v, IsValue(v), IsList(v), NEW e
  PROVE  /\ IsValue(Deleted(v, e))
         /\ findCell(v, e) > 1 \/ Deleted(v, e) = v
<1>1. CASE findCell(v, e) = 1
  BY <1>1 DEF Deleted
<1>2. CASE findCell(v, e) # 1
  <2>1. findCell(v, e) > 1 /\ \E k \in 1 .. v[1].i : findCell(v, e) = nthCell(v, k)
    BY <1>2, FoundCell
  <2>2. Deleted(v, e) = RemovedAt(v, findCell(v, e))
    BY <1>2 DEF Deleted
  <2>3. QED
    BY <2>1, <2>2, RemovedValue
<1>3. QED
  BY <1>1, <1>2

(* So does add-to-list.                                                    *)
LEMMA AddedValue ==
  ASSUME NEW v, IsValue(v), IsList(v), NEW e, IsValue(e)
  PROVE  /\ IsValue(Added(v, e))
         /\ findCell(v, e) = 1 \/ Added(v, e) = v
  BY PushedValue DEF Added

(***************************************************************************)
(* The statements keep the invariant.                                      *)
(***************************************************************************)
(* Every variable of the index has a well-formed value, in its container   *)
(* or on the stack.                                                        *)
LEMMA VariableValue ==
  ASSUME IInv, intact, NEW v, NEW k \in 1 .. Len(state.variables), v = state.variables[k]
  PROVE  /\ IsDetached(v) => v \in DOMAIN state.lists
         /\ ~ IsUnbound(v) => IsValue(ValueOf(v))
         /\ ~ IsUnbound(v) /\ ~ IsDetached(v) => Len(ValueOf(v)) = Size(state.stack, v)
<1>1. StateOK(state) /\ Stocked(state) /\ LaidOut(state.stack, state.variables)
  BY DEF IInv, Sound, StateOK
<1>2. CASE IsDetached(v)
  <2>1. v \in DetachedIn(state.stack, state.variables)
    BY <1>1, <1>2, DetachedOf DEF IsDetached, Cell
  <2>2. v \in DOMAIN state.lists /\ IsValue(state.lists[v])
    BY <1>1, <2>1 DEF Stocked
  <2>3. QED
    BY <1>2, <2>2 DEF ValueOf
<1>3. CASE ~ IsDetached(v) /\ ~ IsUnbound(v)
  <2>1. state.stack \in Seq(CellType) /\ Fits(state.stack, v)
    BY <1>1, LaidOutFacts
  <2>2. state.stack[v.pos].type \notin Placeholder
    BY <1>3 DEF IsDetached, IsUnbound, Cell, Placeholder
  <2>3. PICK w : IsValue(w) /\ Lies(state.stack, v.pos, w)
    BY <2>1, <2>2 DEF Fits
  <2>4. CellsAt(state.stack, v.pos) = w /\ Size(state.stack, v) = Len(w)
    BY <2>1, <2>3, ValueOnStack
  <2>5. ValueOf(v) = w
    BY <1>3, <2>4 DEF ValueOf
  <2>6. QED
    BY <1>3, <2>3, <2>4, <2>5
<1>4. QED
  BY <1>2, <1>3

(* So has the variable that a statement finds by its name.                 *)
LEMMA BoundValue ==
  ASSUME IInv, intact, NEW n, IsBound(n)
  PROVE  /\ IndexOf(n) # {}
         /\ IsValue(ValueOf(findVariable(n)))
         /\ ~ IsDetached(findVariable(n)) =>
              Len(ValueOf(findVariable(n))) = Size(state.stack, findVariable(n))
<1> DEFINE v == findVariable(n)
<1>1. StateOK(state) /\ IndexOf(n) # {} /\ ~ IsUnbound(v)
  BY DEF IInv, Sound, IsBound
<1>2. PICK k \in 1 .. Len(state.variables) : v = state.variables[k]
  BY <1>1, Found
<1>3. QED
  BY <1>1, <1>2, VariableValue

(* defvar keeps the invariant.                                             *)
LEMMA DefvarSound ==
  ASSUME IInv, intact, NEW n \in Names, Defvar(n)
  PROVE  IInv'
<1>1. PICK value \in Literals :
        EndStatement([state EXCEPT
                       !.variables = Append(@, [name |-> n, pos |-> Len(state.stack) + 1]),
                       !.stack = @ \o value], <<>>, FALSE)
  BY DEF Defvar
<1> DEFINE v == [name |-> n, pos |-> Len(state.stack) + 1]
           st == [state EXCEPT !.variables = Append(@, v), !.stack = @ \o value]
           stack == state.stack \o value
           more == Append(state.variables, v)
<1>2. StateOK(state) /\ Owned(state) /\ Stocked(state)
  BY DEF IInv, Sound
<1>3. /\ DOMAIN st = Fields /\ st.stack = stack /\ st.variables = more
      /\ st.lists = state.lists /\ st.listsPool = state.listsPool
      /\ st.callStack = state.callStack
  BY <1>2 DEF StateOK, Fields
<1>4. /\ LaidOut(state.stack, state.variables) /\ state.stack \in Seq(CellType)
      /\ Len(state.stack) \in Nat /\ Len(state.variables) \in Nat
      /\ state.variables \in Seq(Keys)
  BY <1>2, LaidOutFacts DEF StateOK
<1>5. v \in Keys /\ v.pos = Len(state.stack) + 1
  BY <1>4 DEF Keys
<1>6. /\ IsValue(value) /\ value \in Seq(CellType) /\ Len(value) \in Nat
      /\ value[1].type # "detach"
  BY GlispAssumption, HeadOfValue, ValueCells DEF ValueCell
<1> HIDE DEF v, st
<1>7. /\ LaidOut(stack, more)
      /\ \A k \in 1 .. Len(state.variables) :
           SameAs(state.stack, state.variables[k], stack, state.variables[k])
      /\ stack[v.pos] = value[1]
  BY <1>4, <1>5, <1>6, LaidOutBind
<1>8. /\ Len(more) = Len(state.variables) + 1 /\ more[Len(state.variables) + 1] = v
      /\ \A k \in 1 .. Len(state.variables) : more[k] = state.variables[k] /\ k \in 1 .. Len(more)
      /\ \A k \in 1 .. Len(more) :
           k \in 1 .. Len(state.variables) \/ k = Len(state.variables) + 1
      /\ Len(stack) = Len(state.stack) + Len(value)
  <2>1. /\ Len(more) = Len(state.variables) + 1 /\ more[Len(state.variables) + 1] = v
        /\ \A k \in 1 .. Len(state.variables) : more[k] = state.variables[k]
    BY <1>4, <1>5
  <2>2. Len(stack) = Len(state.stack) + Len(value)
    BY <1>4, <1>6
  <2> HIDE DEF more, stack
  <2>3. QED
    BY <1>4, <2>1, <2>2
<1> HIDE DEF stack, more
<1>9. DetachedIn(st.stack, st.variables) = DetachedIn(state.stack, state.variables)
  <2>1. ASSUME NEW x, x \in DetachedIn(stack, more)
        PROVE  x \in DetachedIn(state.stack, state.variables)
    <3>1. PICK k \in 1 .. Len(more) : more[k] = x /\ stack[x.pos].type = "detach"
      BY <1>7, <2>1, DetachedOf
    <3>2. k \in 1 .. Len(state.variables)
      BY <1>6, <1>7, <1>8, <3>1
    <3>3. state.variables[k] = x /\ state.stack[x.pos].type = "detach"
      BY <1>7, <1>8, <3>1, <3>2 DEF SameAs
    <3>4. QED
      BY <1>4, <3>2, <3>3, DetachedOf
  <2>2. ASSUME NEW x, x \in DetachedIn(state.stack, state.variables)
        PROVE  x \in DetachedIn(stack, more)
    <3>1. PICK k \in 1 .. Len(state.variables) :
            state.variables[k] = x /\ state.stack[x.pos].type = "detach"
      BY <1>4, <2>2, DetachedOf
    <3>2. k \in 1 .. Len(more) /\ more[k] = x /\ stack[x.pos].type = "detach"
      BY <1>7, <1>8, <3>1 DEF SameAs
    <3>3. QED
      BY <1>7, <3>2, DetachedOf
  <2>3. QED
    BY <1>3, <2>1, <2>2
<1>10. StateOK(st)
  <2>1. ASSUME NEW d \in 1 .. Len(st.callStack)
        PROVE  st.callStack[d] \in 1 .. Len(st.stack) + 1
    <3>1. state.callStack[d] \in 1 .. Len(state.stack) + 1
      BY <1>2, <1>3 DEF StateOK
    <3>2. QED
      BY <1>3, <1>4, <1>6, <1>8, <3>1
  <2>2. QED
    BY <1>2, <1>3, <1>7, <2>1 DEF StateOK
<1>11. Owned(st) /\ Stocked(st)
  BY <1>2, <1>3, <1>9 DEF Owned, Stocked
<1>12. <<>> \in Seq(CellType) /\ FALSE \in BOOLEAN
  OBVIOUS
<1>13. EndStatement(st, <<>>, FALSE)
  BY <1>1 DEF st, v
<1>14. QED
  BY <1>10, <1>11, <1>12, <1>13, Ended

LEMMA GarbageType == <<>> \in Seq(CellType) /\ <<Id>> \in Seq(CellType) /\ <<Id, Id>> \in Seq(CellType)
  BY ConstantsAre

(* setq keeps the invariant.                                               *)
LEMMA SetqSound ==
  ASSUME IInv, intact, NEW n, IsBound(n), Setq(n)
  PROVE  IInv'
<1> DEFINE v == findVariable(n)
<1>1. PICK value \in Literals : Change(n, value, Len(value) # Len(ValueOf(v)), <<>>)
  BY DEF Setq
<1> DEFINE detaches == Len(value) # Len(ValueOf(v))
<1>2. IsValue(value) /\ IndexOf(n) # {} /\ detaches \in BOOLEAN
  BY GlispAssumption, BoundValue
<1>3. ~ IsDetached(v) /\ ~ detaches => IsValue(value) /\ Len(value) = Size(state.stack, v)
  BY <1>2, BoundValue
<1> HIDE DEF detaches
<1>4. Change(n, value, detaches, <<>>)
  BY <1>1 DEF detaches
<1>5. QED
  BY <1>2, <1>3, <1>4, Changed, GarbageType

(* The statements on lists that always detach, and those that may not. *)
LEMMA ChangedAway ==
  ASSUME IInv, intact, NEW n, IsBound(n), NEW value, value = <<>> \/ IsValue(value),
         NEW garbage \in Seq(CellType), Change(n, value, TRUE, garbage)
  PROVE  IInv'
<1>1. IndexOf(n) # {}
  BY BoundValue
<1>2. TRUE \in BOOLEAN
  OBVIOUS
<1>3. QED
  BY <1>1, <1>2, Changed

LEMMA ChangedInPlace ==
  ASSUME IInv, intact, NEW n, IsBound(n), NEW value, IsValue(value),
         NEW detaches \in BOOLEAN,
         ~ detaches => Len(value) = Len(ValueOf(findVariable(n))),
         NEW garbage \in Seq(CellType), Change(n, value, detaches, garbage)
  PROVE  IInv'
<1>1. IndexOf(n) # {}
  BY BoundValue
<1>2. ~ IsDetached(findVariable(n)) /\ ~ detaches =>
        IsValue(value) /\ Len(value) = Size(state.stack, findVariable(n))
  BY BoundValue
<1>3. QED
  BY <1>1, <1>2, Changed

(* So do the statements on lists, from push to setcdr.                     *)
LEMMA OnListSound ==
  ASSUME IInv, intact, NEW n, IsBound(n), NEW lst, lst = ValueOf(findVariable(n)),
         IsList(lst), OnList(n, lst)
  PROVE  IInv'
<1>1. IsValue(lst)
  BY BoundValue
<1>2. \A value \in Literals : IsValue(value)
  BY GlispAssumption
<1>3. CASE Push(n, lst)
  <2>1. PICK value \in Literals : Change(n, Pushed(lst, value), TRUE, <<Id>>)
    BY <1>3 DEF Push
  <2>2. IsValue(Pushed(lst, value))
    BY <1>1, <1>2, PushedValue
  <2>3. QED
    BY <2>1, <2>2, ChangedAway, GarbageType
<1>4. CASE AppendTo(n, lst)
  <2>1. PICK value \in Literals :
          IsList(value) /\ Change(n, Appended(lst, value), TRUE, <<Id>>)
    BY <1>4 DEF AppendTo
  <2>2. IsValue(Appended(lst, value))
    BY <1>1, <1>2, <2>1, AppendedValue
  <2>3. QED
    BY <2>1, <2>2, ChangedAway, GarbageType
<1>5. CASE AddToList(n, lst)
  <2>1. PICK value \in Literals :
          Change(n, Added(lst, value), findCell(lst, value) = 1, <<Id>>)
    BY <1>5 DEF AddToList
  <2> DEFINE detaches == findCell(lst, value) = 1
  <2>2. IsValue(Added(lst, value)) /\ (~ detaches => Added(lst, value) = lst)
    BY <1>1, <1>2, AddedValue
  <2>3. ~ detaches => Len(Added(lst, value)) = Len(ValueOf(findVariable(n)))
    BY <2>2
  <2>4. detaches \in BOOLEAN
    OBVIOUS
  <2> HIDE DEF detaches
  <2>5. Change(n, Added(lst, value), detaches, <<Id>>)
    BY <2>1 DEF detaches
  <2>6. QED
    BY <2>2, <2>3, <2>4, <2>5, ChangedInPlace, GarbageType
<1>6. CASE Delete(n, lst)
  <2>1. PICK value \in Literals :
          Change(n, Deleted(lst, value), findCell(lst, value) > 1, <<Id>>)
    BY <1>6 DEF Delete
  <2> DEFINE detaches == findCell(lst, value) > 1
  <2>2. IsValue(Deleted(lst, value)) /\ (~ detaches => Deleted(lst, value) = lst)
    BY <1>1, <1>2, DeletedValue
  <2>3. ~ detaches => Len(Deleted(lst, value)) = Len(ValueOf(findVariable(n)))
    BY <2>2
  <2>4. detaches \in BOOLEAN
    OBVIOUS
  <2> HIDE DEF detaches
  <2>5. Change(n, Deleted(lst, value), detaches, <<Id>>)
    BY <2>1 DEF detaches
  <2>6. QED
    BY <2>2, <2>3, <2>4, <2>5, ChangedInPlace, GarbageType
<1>7. CASE NthDelete(n, lst)
  <2>1. PICK k \in 1 .. lst[1].i : Change(n, RemovedAt(lst, nthCell(lst, k)), TRUE, <<Id>>)
    BY <1>7 DEF NthDelete
  <2>2. IsValue(RemovedAt(lst, nthCell(lst, k)))
    BY <1>1, RemovedValue
  <2>3. QED
    BY <2>1, <2>2, ChangedAway, GarbageType
<1>8. CASE Pop(n, lst)
  <2>1. Change(n, Popped(lst), TRUE, <<Id, Id>>)
    BY <1>8 DEF Pop
  <2>2. Popped(lst) = <<>> \/ IsValue(Popped(lst))
    BY <1>1, PoppedValue
  <2>3. QED
    BY <2>1, <2>2, ChangedAway, GarbageType
<1>9. CASE Setcar(n, lst)
  <2>1. PICK value \in Literals :
          /\ lst[1].i > 0
          /\ Change(n, WithCar(lst, value), Len(value) # countElements(lst, 2), <<>>)
    BY <1>9 DEF Setcar
  <2> DEFINE detaches == Len(value) # countElements(lst, 2)
  <2>2. /\ IsValue(WithCar(lst, value))
        /\ ~ detaches => Len(WithCar(lst, value)) = Len(ValueOf(findVariable(n)))
    BY <1>1, <1>2, <2>1, CarOfValue
  <2>3. detaches \in BOOLEAN
    OBVIOUS
  <2> HIDE DEF detaches
  <2>4. Change(n, WithCar(lst, value), detaches, <<>>)
    BY <2>1 DEF detaches
  <2>5. QED
    BY <2>2, <2>3, <2>4, ChangedInPlace, GarbageType
<1>10. CASE Setcdr(n, lst)
  <2>1. PICK value \in Literals :
          /\ lst[1].i > 0
          /\ Change(n, WithCdr(lst, value), Len(WithCdr(lst, value)) # Len(lst), <<>>)
    BY <1>10 DEF Setcdr
  <2> DEFINE detaches == Len(WithCdr(lst, value)) # Len(lst)
  <2>2. /\ IsValue(WithCdr(lst, value))
        /\ ~ detaches => Len(WithCdr(lst, value)) = Len(ValueOf(findVariable(n)))
    BY <1>1, <1>2, <2>1, CdrOfValue
  <2>3. detaches \in BOOLEAN
    OBVIOUS
  <2> HIDE DEF detaches
  <2>4. Change(n, WithCdr(lst, value), detaches, <<>>)
    BY <2>1 DEF detaches
  <2>5. QED
    BY <2>2, <2>3, <2>4, ChangedInPlace, GarbageType
<1>11. QED
  BY <1>3, <1>4, <1>5, <1>6, <1>7, <1>8, <1>9, <1>10, Zenon DEF OnList

(* unbound keeps the invariant.                                            *)
LEMMA UnboundSound ==
  ASSUME IInv, intact, NEW n, IsBound(n), Unbound(n)
  PROVE  IInv'
<1> DEFINE v == findVariable(n)
           st == IF IsDetached(v) THEN [state EXCEPT !.lists[v][1] = Mark]
                                  ELSE [state EXCEPT !.stack[v.pos] = Mark]
           stack == [state.stack EXCEPT ![v.pos] = Mark]
<1>1. EndStatement(st, <<Id>>, IsDetached(v))
  BY DEF Unbound
<1>2. StateOK(state) /\ Owned(state) /\ Stocked(state) /\ LaidOut(state.stack, state.variables)
  BY DEF IInv, Sound, StateOK
<1>3. PICK k \in 1 .. Len(state.variables) : v = state.variables[k]
  BY <1>2, Found DEF IsBound
<1>4. IsDetached(v) \in BOOLEAN
  BY DEF IsDetached
<1> HIDE DEF v
<1>5. CASE IsDetached(v)
  <2>1. /\ DOMAIN st = Fields /\ st.stack = state.stack /\ st.variables = state.variables
        /\ st.listsPool = state.listsPool /\ st.callStack = state.callStack
        /\ DOMAIN st.lists = DOMAIN state.lists
    BY <1>2, <1>5 DEF StateOK, Fields
  <2> HIDE DEF st
  <2>2. StateOK(st)
    BY <1>2, <2>1 DEF StateOK
  <2>3. QED
    BY <1>1, <1>4, <1>5, <2>2, Ended, GarbageType
<1>6. CASE ~ IsDetached(v)
  <2>1. /\ DOMAIN st = Fields /\ st.stack = stack
        /\ st.variables = state.variables /\ st.lists = state.lists
        /\ st.listsPool = state.listsPool /\ st.callStack = state.callStack
    BY <1>2, <1>6 DEF StateOK, Fields
  <2>2. Mark \in CellType /\ Mark.type = "unbound" /\ Mark.type \in Placeholder
    BY DEF Mark, CellType, Placeholder
  <2>3. /\ LaidOut(stack, state.variables) /\ stack[v.pos] = Mark /\ Len(stack) = Len(state.stack)
        /\ \A l \in 1 .. Len(state.variables) : l # k =>
             SameAs(state.stack, state.variables[l], stack, state.variables[l])
    BY <1>2, <1>3, <2>2, LaidOutMarked
  <2> HIDE DEF st, stack
  <2>4. DetachedIn(stack, state.variables) = DetachedIn(state.stack, state.variables)
    <3>1. \A l \in 1 .. Len(state.variables) :
            stack[state.variables[l].pos].type = "detach" <=>
              state.stack[state.variables[l].pos].type = "detach"
      BY <1>3, <1>6, <2>2, <2>3 DEF SameAs, IsDetached, Cell
    <3>2. QED
      BY <1>2, <2>3, <3>1, DetachedStays
  <2>5. StateOK(st)
    BY <1>2, <2>1, <2>3 DEF StateOK
  <2>6. Owned(st) /\ Stocked(st)
    BY <1>2, <2>1, <2>4 DEF Owned, Stocked
  <2>7. QED
    BY <1>1, <1>4, <2>5, <2>6, Ended, GarbageType
<1>7. QED
  BY <1>5, <1>6

(* pushCallStack keeps the invariant.                                      *)
LEMMA EnterSound ==
  ASSUME IInv, intact, Enter
  PROVE  IInv'
<1> DEFINE st == pushCallStack(state)
           top == Len(state.stack) + 1
<1>1. state' = st /\ intact' = intact
  BY DEF Enter
<1>2. StateOK(state) /\ Owned(state) /\ Stocked(state)
  BY DEF IInv, Sound
<1>3. state.stack \in Seq(CellType) /\ Len(state.stack) \in Nat
  BY <1>2, LaidOutFacts DEF StateOK
<1>4. top \in Nat /\ top \in 1 .. Len(state.stack) + 1
  BY <1>3
<1>5. /\ DOMAIN st = Fields /\ st.stack = state.stack /\ st.variables = state.variables
      /\ st.lists = state.lists /\ st.listsPool = state.listsPool
      /\ st.callStack = Append(state.callStack, top)
  BY <1>2 DEF pushCallStack, StateOK, Fields
<1> HIDE DEF st, top
<1>6. /\ state.callStack \in Seq(Nat) /\ Len(state.callStack) \in Nat /\ Len(state.callStack) > 0
      /\ \A d \in 1 .. Len(state.callStack) : state.callStack[d] \in 1 .. Len(state.stack) + 1
      /\ state.callStack[1] = 3
  BY <1>2 DEF StateOK
<1> DEFINE calls == Append(state.callStack, top)
           m == Len(state.callStack)
<1>7. /\ calls \in Seq(Nat) /\ Len(calls) = m + 1 /\ calls[m + 1] = top
      /\ \A d \in 1 .. m : calls[d] = state.callStack[d]
  BY <1>4, <1>6
<1> HIDE DEF calls
<1>8. /\ calls # <<>> /\ calls[1] = 3 /\ Len(calls) # 1
      /\ \A d \in 1 .. Len(calls) : d \in 1 .. m \/ d = m + 1
  <2>1. m \in Nat /\ m > 0
    BY <1>6
  <2> HIDE DEF m
  <2>2. Len(calls) # 1 /\ Len(calls) # 0 /\ 1 \in 1 .. m
    BY <1>7, <2>1
  <2>3. calls[1] = 3
    BY <1>6, <1>7, <2>2
  <2>4. \A d \in 1 .. m + 1 : d \in 1 .. m \/ d = m + 1
    BY <2>1
  <2>5. QED
    BY <1>7, <2>2, <2>3, <2>4
<1>9. \A d \in 1 .. Len(calls) : calls[d] \in 1 .. Len(state.stack) + 1
  BY <1>4, <1>6, <1>7, <1>8
<1>10. st.callStack = calls
  BY <1>5 DEF calls
<1>11. StateOK(st) /\ Len(st.callStack) # 1
  BY <1>2, <1>5, <1>7, <1>8, <1>9, <1>10 DEF StateOK
<1>12. Owned(st) /\ Stocked(st)
  BY <1>2, <1>5 DEF Owned, Stocked
<1>13. Sound(st, intact)
  BY <1>11, <1>12 DEF Sound, IInv
<1>14. QED
  BY <1>1, <1>13 DEF IInv

(* popVariablesAbove keeps the variables that come first. *)
LEMMA BelowFacts ==
  ASSUME StateOK(state), NEW p
  PROVE  \E m \in 0 .. Len(state.variables) :
           /\ VariablesBelow(p) = SubSeq(state.variables, 1, m)
           /\ m # 0 => state.variables[m].pos < p
           /\ \A k \in 1 .. Len(state.variables) : m < k => ~ (state.variables[k].pos < p)
<1> DEFINE n == Len(state.variables)
           below == {k \in DOMAIN state.variables : state.variables[k].pos < p}
           m == Max({0} \cup below)
<1>1. n \in Nat /\ DOMAIN state.variables = 1 .. n
  BY LaidOutFacts DEF StateOK
<1>2. {0} \cup below \in SUBSET (0 .. n) /\ {0} \cup below # {}
  BY <1>1
<1>3. m \in {0} \cup below /\ \A k \in {0} \cup below : ~ (m < k)
  BY <1>1, <1>2, LargestExists
<1>4. VariablesBelow(p) = SubSeq(state.variables, 1, m)
  BY DEF VariablesBelow
<1>5. m \in 0 .. n /\ (m # 0 => state.variables[m].pos < p)
  BY <1>1, <1>3
<1>6. \A k \in 1 .. n : m < k => ~ (state.variables[k].pos < p)
  BY <1>1, <1>3
<1>7. QED
  BY <1>4, <1>5, <1>6

(* popCallStackLeaveData keeps the invariant.                              *)
LEMMA LeaveSound ==
  ASSUME IInv, intact, Leave
  PROVE  IInv'
<1> DEFINE kept == VariablesBelow(Top)
           gone == ToSet(state.variables) \ ToSet(kept)
           st == popCallStackLeaveData
           n == Len(state.variables)
           depth == Len(state.callStack)
           calls == Front(state.callStack)
<1>1. EndStatement(st, <<>>, FALSE) /\ depth > 1
  BY DEF Leave
<1>2. StateOK(state) /\ Owned(state) /\ Stocked(state) /\ LaidOut(state.stack, state.variables)
  BY DEF IInv, Sound, StateOK
<1>3. /\ DOMAIN st = Fields /\ st.stack = state.stack /\ st.variables = kept
      /\ st.lists = state.lists
      /\ st.listsPool = state.listsPool \cup (gone \cap DOMAIN state.lists)
      /\ st.callStack = calls
  BY <1>2 DEF popCallStackLeaveData, StateOK, Fields
<1>4. PICK m \in 0 .. n : kept = SubSeq(state.variables, 1, m)
  BY <1>2, BelowFacts
<1>5. /\ n \in Nat /\ state.variables \in Seq(Keys) /\ DOMAIN state.variables = 1 .. n
  BY <1>2, LaidOutFacts
<1>6. /\ kept \in Seq(Keys) /\ Len(kept) = m /\ DOMAIN kept = 1 .. m
      /\ \A k \in 1 .. m : kept[k] = state.variables[k] /\ k \in 1 .. n
  BY <1>4, <1>5
<1>7. LaidOut(state.stack, kept)
  BY <1>2, <1>4, LaidOutPrefix
<1> HIDE DEF kept, st
<1>8. DetachedIn(state.stack, kept) \subseteq DetachedIn(state.stack, state.variables)
  <2> SUFFICES ASSUME NEW x, x \in DetachedIn(state.stack, kept)
               PROVE  x \in DetachedIn(state.stack, state.variables)
    OBVIOUS
  <2>1. PICK k \in 1 .. Len(kept) : kept[k] = x /\ state.stack[x.pos].type = "detach"
    BY <1>7, DetachedOf
  <2>2. k \in 1 .. n /\ state.variables[k] = x
    BY <1>6, <2>1
  <2>3. QED
    BY <1>2, <2>1, <2>2, DetachedOf
<1>9. \A x \in DetachedIn(state.stack, state.variables) :
        x \in DetachedIn(state.stack, kept) \cup gone
  BY DEF DetachedIn
<1>10. Stocked(st)
  BY <1>2, <1>3, <1>8 DEF Stocked
<1>11. Owned(st)
  BY <1>2, <1>3, <1>9 DEF Owned
<1>12. /\ calls \in Seq(Nat) /\ calls # <<>> /\ calls[1] = 3
       /\ \A d \in 1 .. Len(calls) : calls[d] \in 1 .. Len(state.stack) + 1
  <2>1. /\ state.callStack \in Seq(Nat) /\ depth \in Nat /\ state.callStack[1] = 3
        /\ \A d \in 1 .. depth : state.callStack[d] \in 1 .. Len(state.stack) + 1
    BY <1>2 DEF StateOK
  <2>2. calls = SubSeq(state.callStack, 1, depth - 1)
    BY DEF Front
  <2>3. /\ calls \in Seq(Nat) /\ Len(calls) = depth - 1
        /\ \A d \in 1 .. depth - 1 : calls[d] = state.callStack[d]
    <3>1. \A d \in 1 .. depth - 1 : state.callStack[d] \in Nat
      BY <1>1, <2>1
    <3>2. 1 \in Int /\ depth - 1 \in Int /\ 1 <= depth - 1
      BY <1>1, <2>1
    <3> HIDE DEF depth, calls
    <3>3. /\ calls \in Seq(Nat)
          /\ Len(calls) = IF 1 <= depth - 1 THEN (depth - 1) - 1 + 1 ELSE 0
          /\ \A d \in 1 .. (depth - 1) - 1 + 1 : calls[d] = state.callStack[1 + d - 1]
      BY <2>2, <3>1, <3>2, SubSeqProperties
    <3>4. (depth - 1) - 1 + 1 = depth - 1 /\ \A d \in 1 .. depth - 1 : 1 + d - 1 = d
      BY <3>2
    <3>5. QED
      BY <3>2, <3>3, <3>4
  <2> HIDE DEF calls, depth
  <2>4. 1 \in 1 .. depth - 1 /\ depth - 1 # 0 /\ \A d \in 1 .. depth - 1 : d \in 1 .. depth
    BY <1>1, <2>1
  <2>5. calls # <<>>
    BY <2>3, <2>4
  <2>6. calls[1] = 3
    BY <2>1, <2>3, <2>4
  <2>7. \A d \in 1 .. Len(calls) : calls[d] \in 1 .. Len(state.stack) + 1
    BY <2>1, <2>3, <2>4
  <2>8. QED
    BY <2>3, <2>5, <2>6, <2>7
<1>13. st.listsPool \subseteq Keys
  BY <1>2, <1>3 DEF StateOK
<1> HIDE DEF calls
<1>14. StateOK(st)
  BY <1>2, <1>3, <1>7, <1>12, <1>13 DEF StateOK
<1>15. FALSE \in BOOLEAN
  OBVIOUS
<1>16. QED
  BY <1>1, <1>10, <1>11, <1>14, <1>15, Ended, GarbageType

(***************************************************************************)
(* Theorems.                                                               *)
(***************************************************************************)

(* init() establishes the invariant.                                       *)
LEMMA InitSound == Init => IInv
<1> SUFFICES ASSUME Init PROVE IInv
  OBVIOUS
<1>1. /\ DOMAIN state = Fields /\ state.stack = Constants /\ state.variables = <<>>
      /\ state.lists = <<>> /\ state.listsPool = {} /\ state.callStack = <<3>>
  BY ConstantsAre DEF Init, Fields
<1>2. /\ Len(state.variables) = 0 /\ state.variables \in Seq(Keys)
      /\ DOMAIN state.lists = {} /\ \A k \in 1 .. 0 : FALSE
  BY <1>1
<1>3. LaidOut(state.stack, state.variables)
  BY <1>1, <1>2, ConstantsAre DEF LaidOut
<1>4. Tiled(state.stack, state.variables)
  BY <1>1, <1>2, ConstantsAre DEF Tiled, End
<1>5. DetachedIn(state.stack, state.variables) = {}
  BY <1>2, <1>3, DetachedOf
<1>6. \A d \in 1 .. Len(state.callStack) : state.callStack[d] \in 1 .. Len(state.stack) + 1
  BY <1>1, ConstantsAre
<1>7. StateOK(state) /\ NoneUnbound(state.stack, state.variables)
  BY <1>1, <1>2, <1>3, <1>6 DEF StateOK, NoneUnbound
<1>8. Owned(state) /\ Stocked(state)
  BY <1>1, <1>2, <1>5 DEF Owned, Stocked
<1>9. intact \in BOOLEAN
  BY DEF Init
<1>10. QED
  BY <1>4, <1>7, <1>8, <1>9 DEF IInv, Sound

(* Every statement keeps the invariant.                                    *)
LEMMA NextSound == IInv /\ [Next]_vars => IInv'
<1> SUFFICES ASSUME IInv, [Next]_vars PROVE IInv'
  OBVIOUS
<1>1. CASE UNCHANGED vars
  BY <1>1 DEF IInv, vars
<1>2. ASSUME NEW n \in Names, intact, Defvar(n) PROVE IInv'
  BY <1>2, DefvarSound
<1>3. ASSUME NEW n \in Names, intact, IsBound(n), Setq(n) PROVE IInv'
  BY <1>3, SetqSound
<1>4. ASSUME NEW n \in Names, intact, IsBound(n), IsList(ValueOf(findVariable(n))),
             OnList(n, ValueOf(findVariable(n)))
      PROVE  IInv'
  BY <1>4, OnListSound
<1>5. ASSUME NEW n \in Names, intact, IsBound(n), Unbound(n) PROVE IInv'
  BY <1>5, UnboundSound
<1>6. CASE intact /\ Enter
  BY <1>6, EnterSound
<1>7. CASE intact /\ Leave
  BY <1>7, LeaveSound
<1>8. QED
  BY <1>1, <1>2, <1>3, <1>4, <1>5, <1>6, <1>7 DEF Next

(* The inductive invariant holds of every state that programs can reach.   *)
THEOREM IInvHolds == Spec => []IInv
<1>1. QED
  BY InitSound, NextSound, PTL DEF Spec

(* No statement leaves a variable above the stack, or a frame that begins  *)
(* beyond its end; and while the memory is intact every variable has a     *)
(* value whose heads count what follows them, and every detached variable  *)
(* has its container.                                                      *)
THEOREM TypeCorrect == Spec => []TypeOK
<1>1. IInv => TypeOK
  <2> SUFFICES ASSUME IInv PROVE TypeOK
    OBVIOUS
  <2>1. StateOK(state) /\ intact \in BOOLEAN /\ LaidOut(state.stack, state.variables)
    BY DEF IInv, Sound, StateOK
  <2>2. \A v \in ToSet(state.variables) : v \in Keys /\ v.pos <= Len(state.stack)
    <3>1. \A k \in 1 .. Len(state.variables) :
            state.variables[k] \in Keys /\ state.variables[k].pos <= Len(state.stack)
      BY <2>1, LaidOutFacts
    <3>2. ToSet(state.variables) = {state.variables[k] : k \in 1 .. Len(state.variables)}
      BY <2>1, LaidOutFacts, ToSetOf
    <3>3. QED
      BY <3>1, <3>2
  <2>3. DOMAIN state.callStack = 1 .. Len(state.callStack)
    BY <2>1 DEF StateOK
  <2>4. ASSUME intact, NEW v \in ToSet(state.variables) PROVE HasValue(v)
    <3>1. PICK k \in 1 .. Len(state.variables) : v = state.variables[k]
      BY <2>1, <2>4, LaidOutFacts, ToSetOf
    <3>2. QED
      BY <2>4, <3>1, VariableValue DEF HasValue
  <2>5. QED
    BY <2>1, <2>2, <2>3, <2>4 DEF TypeOK, StateOK
<1>2. QED
  BY <1>1, IInvHolds, PTL

(* sweepStack leaves nothing unused: outside every frame the stack is the  *)
(* constants and the variables' cells, one after the other to its end.     *)
THEOREM StackIsTiled == Spec => []StackTiled
<1>1. IInv => StackTiled
  <2> SUFFICES ASSUME IInv PROVE StackTiled
    OBVIOUS
  <2> DEFINE size(v) == IF IsDetached(v) THEN 1 ELSE countElements(state.stack, v.pos)
             next(k) == state.variables[k].pos + size(state.variables[k])
             last == Len(state.variables)
  <2>1. CASE Len(state.callStack) = 1
    <3>1. /\ LaidOut(state.stack, state.variables) /\ Tiled(state.stack, state.variables)
          /\ NoneUnbound(state.stack, state.variables)
      BY <2>1 DEF IInv, Sound, StateOK
    <3>2. last \in Nat /\ Len(state.stack) \in Nat
      BY <3>1, LaidOutFacts
    <3>3. ASSUME NEW k \in 1 .. last
          PROVE  next(k) = End(state.stack, state.variables, k)
      <4>1. size(state.variables[k]) = Size(state.stack, state.variables[k])
        BY <3>1 DEF NoneUnbound, Size, Placeholder, IsDetached, Cell
      <4>2. k # 0
        BY <3>2
      <4>3. QED
        BY <4>1, <4>2 DEF End
    <3> HIDE DEF next, last
    <3>4. ASSUME NEW k \in 1 .. last
          PROVE  state.variables[k].pos = IF k = 1 THEN Len(Constants) + 1 ELSE next(k - 1)
      <4>1. state.variables[k].pos = End(state.stack, state.variables, k - 1)
        BY <3>1 DEF Tiled, last
      <4>2. CASE k = 1
        BY <4>1, <4>2 DEF End
      <4>3. CASE k # 1
        <5>1. k - 1 \in 1 .. last
          BY <3>2, <4>3
        <5>2. QED
          BY <3>3, <4>1, <4>3, <5>1
      <4>4. QED
        BY <4>2, <4>3
    <3>5. Len(state.stack) = IF last = 0 THEN Len(Constants) ELSE next(last) - 1
      <4>1. Len(state.stack) + 1 = End(state.stack, state.variables, last)
        BY <3>1 DEF Tiled, last
      <4>2. CASE last = 0
        <5>1. Len(state.stack) + 1 = Len(Constants) + 1
          BY <4>1, <4>2 DEF End
        <5> DEFINE laid == Len(state.stack)
                   wanted == Len(Constants)
        <5>3. laid \in Nat /\ wanted \in Nat /\ laid + 1 = wanted + 1
          BY <3>2, <5>1, ConstantsAre
        <5> HIDE DEF laid, wanted
        <5>4. laid = wanted
          BY <5>3
        <5>2. Len(state.stack) = Len(Constants)
          BY <5>4 DEF laid, wanted
        <5>5. QED
          BY <4>2, <5>2
      <4>3. CASE last # 0
        <5>1. last \in 1 .. last
          BY <3>2, <4>3
        <5>2. Len(state.stack) + 1 = next(last)
          BY <3>3, <4>1, <5>1
        <5>3. (Len(state.stack) + 1) - 1 = Len(state.stack)
          BY <3>2
        <5>4. Len(state.stack) = next(last) - 1
          BY <5>2, <5>3
        <5>5. QED
          BY <4>3, <5>4
      <4>4. QED
        BY <4>2, <4>3
    <3>6. QED
      BY <3>4, <3>5 DEF StackTiled, next, last
  <2>2. CASE Len(state.callStack) # 1
    BY <2>2 DEF StackTiled
  <2>3. QED
    BY <2>1, <2>2
<1>2. QED
  BY <1>1, IInvHolds, PTL

(* While the memory is intact no container is lost to both the variables   *)
(* and the pool.                                                           *)
THEOREM ContainersAreOwned == Spec => []ContainersOwned
<1>1. IInv => ContainersOwned
  BY DEF IInv, Sound, Owned, ContainersOwned, LiveKeys
<1>2. QED
  BY <1>1, IInvHolds, PTL
=============================================================================

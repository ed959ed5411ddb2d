----------------------------- MODULE GlispCells -----------------------------
(***************************************************************************)
(* The cells of the LISP interpreter (base/glisp.cpp) and the operations   *)
(* on values laid out as cells.  A value is a sequence of cells: an atom   *)
(* is one cell, a list is a head that counts its elements followed by the  *)
(* elements, each laid out the same way.  Atoms are told apart by a number *)
(* only; their C++ type is not modelled.                                   *)
(***************************************************************************)
EXTENDS Naturals, Sequences, SequencesExt, FiniteSetsExt

Atom(a) == [type |-> "atom", i |-> a]
List(n) == [type |-> "list", i |-> n]

(* What detachVariable leaves on the stack; the cells behind it stay.      *)
Detach(n) == [type |-> "detach", i |-> n]

(* The detach cell with j = -1 by which unbound marks a variable; its      *)
(* count is never used.                                                    *)
Mark == [type |-> "unbound", i |-> 0]

CellType == [type : {"atom", "list", "detach", "unbound"}, i : Nat]

(* nextCell: a head lengthens the range by what it counts; delim is how far *)
(* the first n cells let it extend, and it ends with the first n beyond.   *)
Counts(cell) == IF cell.type = "atom" THEN 0 ELSE cell.i

Ends(c, from) ==
    LET delim[n \in 0 .. Len(c) - from + 1] ==
          IF n = 0 THEN 0 ELSE delim[n - 1] + Counts(c[from + n - 1])
    IN  {n \in DOMAIN delim : n > delim[n]}

countElements(c, from) == Min(Ends(c, from))

CellsAt(c, from) == SubSeq(c, from, from + countElements(c, from) - 1)

IsList(v) == v[1].type = "list"

(* What parse lays out and statements make of it: cells of which nextCell  *)
(* passes all and no more.                                                 *)
ValueCell == [type : {"atom", "list"}, i : Nat]
IsValue(v) == v \in Seq(ValueCell) /\ Ends(v, 1) = {Len(v)}

(* nthCell: where the element k of a list begins, counted from 1.          *)
nthCell(v, k) ==
    LET at[j \in 1 .. k] == IF j = 1 THEN 2 ELSE at[j - 1] + countElements(v, at[j - 1])
    IN  at[k]

ElementStarts(v) == { nthCell(v, k) : k \in 1 .. v[1].i }

lastCell(v) == IF v[1].i = 0 THEN 1 ELSE nthCell(v, v[1].i)

-----------------------------------------------------------------------------
(* The processOps of push, append, pop, delete, setcar and setcdr.         *)

WithCount(v, n) == [v EXCEPT ![1] = List(n)]

Pushed(v, e) == WithCount(v, v[1].i + 1) \o e

Appended(v, w) == WithCount(v, v[1].i + w[1].i) \o Tail(w)

\* Mutant: the head still counts the element that is gone.
RemovedAtUncounted(v, q) == SubSeq(v, 1, q - 1) \o SubSeq(v, q + countElements(v, q), Len(v))

RemovedAt(v, q) ==
    LET w == WithCount(v, v[1].i - 1)
    IN  SubSeq(w, 1, q - 1) \o SubSeq(w, q + countElements(v, q), Len(v))

(* On an empty list lastCell is the head, and that is what pop erases.     *)
Popped(v) == IF v[1].i = 0 THEN <<>> ELSE RemovedAt(v, lastCell(v))

(* findCell: the first element equal to e, or the head.                    *)
findCell(v, e) ==
    LET found == { q \in ElementStarts(v) : CellsAt(v, q) = e }
    IN  IF found = {} THEN 1 ELSE Min(found)

Deleted(v, e) ==
    IF findCell(v, e) = 1 THEN v ELSE RemovedAt(v, findCell(v, e))

Added(v, e) == IF findCell(v, e) = 1 THEN Pushed(v, e) ELSE v

WithCar(v, e) ==
    <<v[1]>> \o e \o SubSeq(v, 2 + countElements(v, 2), Len(v))

WithCdr(v, w) ==
    LET kept == SubSeq(v, 1, 1 + countElements(v, 2))
    IN  IF IsList(w) THEN WithCount(kept, 1 + w[1].i) \o Tail(w)
                     ELSE WithCount(kept, 2) \o w
=============================================================================

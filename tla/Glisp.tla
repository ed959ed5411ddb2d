------------------------------- MODULE Glisp -------------------------------
(***************************************************************************)
(* The memory of the LISP interpreter (base/glisp.cpp): one stack of cells *)
(* that holds the variables and whatever evaluation leaves behind, an      *)
(* index of the variables by name and stack position, containers for the   *)
(* variables whose value has outgrown its place on the stack ("detached"), *)
(* a pool of containers that may be reused, and the frames of the call     *)
(* stack.  A statement outside every frame ends with sweepStack.           *)
(*                                                                         *)
(* The operators take and return the record state, as the functions of the *)
(* code take lispState &s.  Positions count from 1.  The constants nil and *)
(* t occupy the first two cells, are variables no statement changes, and   *)
(* are left out of the index.                                              *)
(***************************************************************************)
EXTENDS GlispCells

CONSTANTS
    Names,      \* variable names: numbers, in the order of std::string
    Literals,   \* the quoted values and numbers of a program
    MaxPooled,  \* "leave 5 buffer"
    MaxVars, MaxCells, MaxStack, MaxDepth   \* bounds of the exploration

ASSUME GlispAssumption ==
    /\ Names \subseteq Nat
    /\ \A value \in Literals : IsValue(value)
    /\ {MaxPooled, MaxVars, MaxCells, MaxStack, MaxDepth} \subseteq Nat

VARIABLES
    state,   \* lispState
    intact   \* history: no statement has broken the memory yet

vars == <<state, intact>>

Id == Atom(0)            \* an identifier or a result left on the stack
Constants == <<Id, Id>>  \* nil and t

Init ==
    /\ state = [stack |-> Constants, variables |-> <<>>, lists |-> <<>>,
                listsPool |-> {}, callStack |-> <<Len(Constants) + 1>>]
    /\ intact = TRUE

-----------------------------------------------------------------------------
(* Variables and detached memory.                                          *)

Top == state.callStack[Len(state.callStack)]

Cell(v) == state.stack[v.pos]
IsDetached(v) == Cell(v).type = "detach"
IsUnbound(v) == Cell(v).type = "unbound"

IndexOf(n) == { k \in DOMAIN state.variables : state.variables[k].name = n }
findVariable(n) == state.variables[Max(IndexOf(n))]

(* A program uses the names it has bound; one that it has unbound in this  *)
(* statement is only gone when the statement ends.                         *)
IsBound(n) == IndexOf(n) # {} /\ ~IsUnbound(findVariable(n))

(* getVariableAddress: the container, or the cells on the stack.           *)
ValueOf(v) ==
    IF ~IsDetached(v) THEN CellsAt(state.stack, v.pos)
    ELSE IF v \in DOMAIN state.lists THEN state.lists[v] ELSE <<Id>>

(* std::set keeps the pool in the order of name, then position.            *)
FirstPooled ==
    CHOOSE k \in state.listsPool : \A l \in state.listsPool :
        k.name < l.name \/ (k.name = l.name /\ k.pos <= l.pos)

Without(f, keys) == [k \in DOMAIN f \ keys |-> f[k]]
With(f, key, value) == [k \in DOMAIN f \cup {key} |-> IF k = key THEN value ELSE f[k]]

DetachedIn(stack, variables) == { v \in ToSet(variables) : stack[v.pos].type = "detach" }
LiveKeys == DetachedIn(state.stack, state.variables)

(* detachVariable: a container under this key, one of the pool, or a new   *)
(* one receives the value; a detach cell replaces the value's first cell.  *)
TakesPooled(v) == v \notin DOMAIN state.lists /\ state.listsPool # {}

detachVariable(v, value) ==
    LET taken == IF TakesPooled(v) THEN {FirstPooled} ELSE {}
        n == IF Cell(v).type = "list" THEN Cell(v).i ELSE 1
    IN  [state EXCEPT !.stack[v.pos] = Detach(n),
                  !.lists = With(Without(@, taken), v, value),
                  !.listsPool = @ \ taken]

(* The pooled key is the key of a variable again, or its container is gone *)
(* (lists.find then yields end(), which is dereferenced).                  *)
DetachBreaks(v) ==
    TakesPooled(v) /\ (FirstPooled \in LiveKeys \/ FirstPooled \notin DOMAIN state.lists)

WrittenAt(stack, from, cells) ==
    [p \in DOMAIN stack |-> IF p \in from .. from + Len(cells) - 1
                            THEN cells[p - from + 1] ELSE stack[p]]

(* listOp: in the container, in place, or in a container made for it.      *)
listOp(v, value, detaches) ==
    IF IsDetached(v) THEN [state EXCEPT !.lists[v] = value]
    ELSE IF detaches THEN detachVariable(v, value)
    ELSE [state EXCEPT !.stack = WrittenAt(@, v.pos, value)]

-----------------------------------------------------------------------------
(* Frames and the end of a statement.                                      *)

pushCallStack(st) == [st EXCEPT !.callStack = Append(@, Len(st.stack) + 1)]

(* popVariablesAbove goes backwards to the last variable below a position. *)
VariablesBelow(p) ==
    LET below == { k \in DOMAIN state.variables : state.variables[k].pos < p }
    IN  SubSeq(state.variables, 1, Max({0} \cup below))

\* Mutant: the first variable of the frame outlives it.
PopKeepsFirst ==
    LET kept == VariablesBelow(Top + 1)
        gone == ToSet(state.variables) \ ToSet(kept)
    IN  [state EXCEPT !.variables = kept,
                  !.listsPool = @ \cup (gone \cap DOMAIN state.lists),
                  !.callStack = Front(@)]

\* Mutant: the containers of the frame do not go to the pool.
PopForgetsPool ==
    [state EXCEPT !.variables = VariablesBelow(Top), !.callStack = Front(@)]

(* popVariablesAbove, the frame's bottom dropped, its cells left in place. *)
popCallStackLeaveData ==
    LET kept == VariablesBelow(Top)
        gone == ToSet(state.variables) \ ToSet(kept)
    IN  [state EXCEPT !.variables = kept,
                  !.listsPool = @ \cup (gone \cap DOMAIN state.lists),
                  !.callStack = Front(@)]

(* sweepStack: the variables move down to the bottom of the frame, in      *)
(* order; the index follows, the keys of lists do not.  The pool's loop    *)
(* frees the containers and keeps the keys.                                *)
Moved(st, done, v) ==
    LET c == st.stack[v.pos]
        cells == IF c.type = "detach" THEN <<Detach(1)>> ELSE CellsAt(st.stack, v.pos)
    IN  IF c.type = "unbound" THEN done
        ELSE [stack |-> done.stack \o cells,
              variables |-> Append(done.variables, [v EXCEPT !.pos = Len(done.stack) + 1])]

Swept(st) ==
    LET after[k \in 0 .. Len(st.variables)] ==
          IF k = 0 THEN [stack |-> SubSeq(st.stack, 1, st.callStack[1] - 1), variables |-> <<>>]
                   ELSE Moved(st, after[k - 1], st.variables[k])
    IN  after[Len(st.variables)]

Freed(st) == IF Cardinality(st.listsPool) > MaxPooled THEN st.listsPool ELSE {}

\* Mutant: the cells behind the last variable are not discarded.
sweepKeepsRest(st) ==
    LET swept == Swept(st)
    IN  [st EXCEPT !.stack = swept.stack \o SubSeq(@, Len(swept.stack) + 1, Len(@)),
                   !.variables = swept.variables,
                   !.lists = Without(@, Freed(st))]

sweepStack(st) ==
    LET swept == Swept(st)
    IN  [st EXCEPT !.stack = swept.stack, !.variables = swept.variables,
                   !.lists = Without(@, Freed(st))]

(* A variable loses its container, or comes to lie where another key's is. *)
SweepBreaks(before, after) ==
    DetachedIn(before.stack, before.variables) #
        DetachedIn(after.stack, after.variables) \ Freed(before)

(* The rest of a statement: garbage cells stay behind, and outside every   *)
(* frame the stack is swept.                                               *)
EndStatement(st, garbage, breaks) ==
    LET left == [st EXCEPT !.stack = @ \o garbage]
        swept == sweepStack(left)
    IN  IF Len(st.callStack) > 1
        THEN Len(left.stack) <= MaxStack /\ state' = left /\ intact' = ~breaks
        ELSE state' = swept /\ intact' = (~breaks /\ ~SweepBreaks(left, swept))

-----------------------------------------------------------------------------
(* The statements, each evaluated as lisp::eval evaluates the body of the  *)
(* frame it is in: with temporary results.                                 *)

Defvar(n) == \E value \in Literals :
    /\ Len(state.variables) < MaxVars
    /\ EndStatement([state EXCEPT
                       !.variables = Append(@, [name |-> n, pos |-> Len(state.stack) + 1]),
                       !.stack = @ \o value], <<>>, FALSE)

(* The common end of the statements that change a variable through listOp. *)
Change(n, value, detaches, garbage) ==
    LET v == findVariable(n)
        breaks == detaches /\ ~IsDetached(v) /\ DetachBreaks(v)
    IN  /\ Len(value) <= MaxCells
        /\ EndStatement(listOp(v, value, detaches), garbage, breaks \/ value = <<>>)

Setq(n) == \E value \in Literals :
    Change(n, value, Len(value) # Len(ValueOf(findVariable(n))), <<>>)

(* The statements below evaluate 'n and leave the identifier on the stack. *)
Push(n, lst) == \E value \in Literals : Change(n, Pushed(lst, value), TRUE, <<Id>>)

AppendTo(n, lst) == \E value \in Literals :
    IsList(value) /\ Change(n, Appended(lst, value), TRUE, <<Id>>)

AddToList(n, lst) == \E value \in Literals :
    Change(n, Added(lst, value), findCell(lst, value) = 1, <<Id>>)

Delete(n, lst) == \E value \in Literals :
    Change(n, Deleted(lst, value), findCell(lst, value) > 1, <<Id>>)

NthDelete(n, lst) == \E k \in 1 .. lst[1].i :
    Change(n, RemovedAt(lst, nthCell(lst, k)), TRUE, <<Id>>)

Pop(n, lst) == Change(n, Popped(lst), TRUE, <<Id, Id>>)

Setcar(n, lst) == \E value \in Literals :
    /\ lst[1].i > 0
    /\ Change(n, WithCar(lst, value), Len(value) # countElements(lst, 2), <<>>)

Setcdr(n, lst) == \E value \in Literals :
    /\ lst[1].i > 0
    /\ Change(n, WithCdr(lst, value), Len(WithCdr(lst, value)) # Len(lst), <<>>)

(* unbound marks what getVariableAddress returns: the variable's cell on   *)
(* the stack, or the head of its container.                                *)
Unbound(n) ==
    LET v == findVariable(n)
    IN  EndStatement(IF IsDetached(v) THEN [state EXCEPT !.lists[v][1] = Mark]
                                      ELSE [state EXCEPT !.stack[v.pos] = Mark],
                     <<Id>>, IsDetached(v))

(* progn, let, if, while and calls: a frame, its variables bound by the    *)
(* evaluation of a value as in defvar, and its end.                        *)
Enter ==
    /\ Len(state.callStack) < MaxDepth
    /\ state' = pushCallStack(state)
    /\ UNCHANGED intact

Leave ==
    /\ Len(state.callStack) > 1
    /\ EndStatement(popCallStackLeaveData, <<>>, FALSE)

OnList(n, lst) ==
    \/ Push(n, lst) \/ AppendTo(n, lst) \/ AddToList(n, lst) \/ Delete(n, lst)
    \/ NthDelete(n, lst) \/ Pop(n, lst) \/ Setcar(n, lst) \/ Setcdr(n, lst)

Next ==
    /\ intact
    /\ \/ \E n \in Names : Defvar(n)
       \/ \E n \in Names : IsBound(n) /\ Setq(n)
       \/ \E n \in Names :
             /\ IsBound(n)
             /\ IsList(ValueOf(findVariable(n)))
             /\ OnList(n, ValueOf(findVariable(n)))
       \/ \E n \in Names : IsBound(n) /\ Unbound(n)
       \/ Enter
       \/ Leave

Spec == Init /\ [][Next]_vars

-----------------------------------------------------------------------------
(* Properties.                                                             *)

Keys == [name : Names, pos : Nat \ {0}]

(* A value is cells whose heads count what follows them: nextCell passes   *)
(* all of them and no more.  A detached variable has a container for it.   *)
HasValue(v) ==
    /\ IsDetached(v) => v \in DOMAIN state.lists
    /\ ~IsUnbound(v) => IsValue(ValueOf(v))

(* Type invariant: variables and frames lie on the stack, and while the    *)
(* memory is intact every variable has a value, whatever the operations on *)
(* lists, detaching, reused containers, frames and sweeping made of it.    *)
TypeOK ==
    /\ intact => \A v \in ToSet(state.variables) : HasValue(v)
    /\ \A v \in ToSet(state.variables) : v \in Keys /\ v.pos <= Len(state.stack)
    /\ DOMAIN state.lists \subseteq Keys /\ state.listsPool \subseteq Keys
    /\ state.callStack # <<>>
    /\ \A d \in DOMAIN state.callStack : state.callStack[d] \in 1 .. Len(state.stack) + 1
    /\ intact \in BOOLEAN

(* Detached memory, reused containers, frames and sweeping are invisible   *)
(* to the program: as long as the memory is intact every name has the      *)
(* value of its latest binding, and a statement changes no other.          *)
BoundVariables == SelectSeq(state.variables, LAMBDA v : ~IsUnbound(v))

(* The nested value that cells are the layout of.                          *)
Nested[v \in Seq(CellType)] ==
    IF IsList(v) THEN [list |-> [k \in 1 .. v[1].i |-> Nested[CellsAt(v, nthCell(v, k))]]]
                 ELSE [atom |-> v[1].i]

Env == INSTANCE LispEnv WITH
    Literals <- { Nested[v] : v \in Literals },
    env <- [k \in DOMAIN BoundVariables |->
              [name |-> BoundVariables[k].name, value |-> Nested[ValueOf(BoundVariables[k])]]],
    scopes <- [d \in 1 .. Len(state.callStack) - 1 |->
                Len(SelectSeq(BoundVariables, LAMBDA v : v.pos < state.callStack[d + 1]))]
ImplementsEnv == Env!Spec

(* sweepStack leaves nothing unused: outside every frame the stack is the  *)
(* constants and the variables' cells, one after the other to its end.     *)
StackTiled ==
    Len(state.callStack) = 1 =>
      LET size(v) == IF IsDetached(v) THEN 1 ELSE countElements(state.stack, v.pos)
          next(k) == state.variables[k].pos + size(state.variables[k])
          last == Len(state.variables)
      IN  /\ \A k \in 1 .. last :
               state.variables[k].pos = IF k = 1 THEN Len(Constants) + 1 ELSE next(k - 1)
          /\ Len(state.stack) = IF last = 0 THEN Len(Constants) ELSE next(last) - 1

(* No container is lost to both the variables and the pool while the       *)
(* memory is intact; getState reports those as hanging detached variables. *)
ContainersOwned ==
    intact => DOMAIN state.lists \subseteq LiveKeys \cup state.listsPool

(* A detached variable has its container ("detach variable ... empty").    *)
DetachedHasContainer == LiveKeys \subseteq DOMAIN state.lists
=============================================================================

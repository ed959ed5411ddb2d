------------------------------ MODULE LispEnv ------------------------------
(***************************************************************************)
(* What the interpreter promises a program: dynamically scoped bindings of *)
(* names to values, nested lists of atoms.  A name means its latest        *)
(* binding, a statement changes the binding it names and no other, and a   *)
(* scope takes its bindings with it.  intact becomes FALSE where the       *)
(* implementation leaves the promise; nothing is promised after that.      *)
(***************************************************************************)
EXTENDS Naturals, Sequences, SequencesExt, FiniteSetsExt

CONSTANTS Names, Literals

VARIABLES env, scopes, intact

vars == <<env, scopes, intact>>

AtomValue(a) == [atom |-> a]
ListValue(elements) == [list |-> elements]
IsListValue(v) == "list" \in DOMAIN v

Init == env = <<>> /\ scopes = <<>> /\ intact = TRUE

(* The latest binding of a name.                                           *)
Bindings(n) == { k \in DOMAIN env : env[k].name = n }
Latest(n) == Max(Bindings(n))
ValueBound(n) == env[Latest(n)].value

Becomes(n, v) ==
    /\ env' = [env EXCEPT ![Latest(n)].value = v]
    /\ UNCHANGED scopes

Bind(n) ==
    /\ \E v \in Literals : env' = Append(env, [name |-> n, value |-> v])
    /\ UNCHANGED scopes

Assign(n) == \E v \in Literals : Becomes(n, v)

(* What push, append, add-to-list, delete, setcar and setcdr make of a     *)
(* list l and a value v; the last two replace the head and the rest.  pop  *)
(* and nth-delete, below, take out the last element and the k-th.          *)
Without(l, v) == IF v \in ToSet(l) THEN RemoveFirst(l, v) ELSE l

Results(l, v) ==
    LET rest == IF IsListValue(v) THEN v.list ELSE <<v>>
    IN  {Append(l, v), Without(l, v), IF v \in ToSet(l) THEN l ELSE Append(l, v)}
        \cup (IF IsListValue(v) THEN {l \o rest} ELSE {})
        \cup (IF l # <<>> THEN {<<v>> \o Tail(l), <<Head(l)>> \o rest} ELSE {})

ChangeList(n) ==
    /\ IsListValue(ValueBound(n))
    /\ LET l == ValueBound(n).list IN
       \/ \E v \in Literals : \E r \in Results(l, v) : Becomes(n, ListValue(r))
       \/ \E k \in DOMAIN l : Becomes(n, ListValue(RemoveAt(l, k)))

(* A scope that loses one of its bindings becomes shorter.                 *)
Unbind(n) ==
    /\ env' = RemoveAt(env, Latest(n))
    /\ scopes' = [d \in DOMAIN scopes |->
                    IF scopes[d] >= Latest(n) THEN scopes[d] - 1 ELSE scopes[d]]

EnterScope ==
    /\ scopes' = Append(scopes, Len(env))
    /\ UNCHANGED env

LeaveScope ==
    /\ scopes # <<>>
    /\ env' = SubSeq(env, 1, Last(scopes))
    /\ scopes' = Front(scopes)

Statement ==
    \/ \E n \in Names : Bind(n)
    \/ \E n \in Names : Bindings(n) # {} /\ (Assign(n) \/ ChangeList(n) \/ Unbind(n))
    \/ EnterScope
    \/ LeaveScope

Next == intact /\ (intact' = FALSE \/ (intact' = TRUE /\ Statement))

Spec == Init /\ [][Next]_vars
=============================================================================

------------------------------ MODULE MCGlisp ------------------------------
(* Instances of Glisp for TLC: an atom and a list of one element as        *)
(* literals, from which longer and nested lists are made.                  *)
EXTENDS Glisp

MCLiterals == {<<Atom(1)>>, <<List(1), Atom(2)>>}
=============================================================================

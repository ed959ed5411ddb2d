------------------------------ MODULE Tokenizer ------------------------------
(***************************************************************************)
(* The tokenizer of base/tokenizer.cpp: rules tell which characters start  *)
(* a token and which end it, and next() yields the token at a position of  *)
(* the input.  Characters are model strings; positions count from 1.       *)
(***************************************************************************)
EXTENDS Integers, Sequences, FiniteSetsExt

CONSTANT Rules   \* _rules: [id, skip, start, exception, end], sets of characters

NoRule == 0
symbol == -1     \* the id of a token no rule started
endOfInput == -2

(* The first rule that c starts. *)
findRule(c) ==
  LET starting == {r \in DOMAIN Rules : c \in Rules[r].start}
  IN  IF starting = {} THEN NoRule ELSE Min(starting)

\* Mutant: an escaped delimiter ends the token.
EndsIgnoringEscapes(r, input, from, i) ==
  IF Rules[r].end = {} THEN i # from
  ELSE i # from /\ input[i] \in Rules[r].end /\ i - 1 # 1

(* Whether the token of rule r that began at from ends before position i.  *)
(* A delimiter is not looked at in the second position of the input.       *)
Ends(r, input, from, i) ==
  IF Rules[r].end = {} THEN i # from
  ELSE /\ i # from /\ input[i] \in Rules[r].end
       /\ i - 1 # 1 /\ input[i - 1] \notin Rules[r].exception

Token(id, from, to, i) == [id |-> id, from |-> from, to |-> to, next |-> i]

(* The token from position start on: its id, where its value begins and    *)
(* ends, and where the next call starts.  A delimited token's value is     *)
(* without the delimiters, if it ends.                                     *)
next(input, start) ==
  LET end == Len(input) + 1
      delimited(r) == IF Rules[r].end = {} THEN 0 ELSE 1
      scan[i \in 1 .. end, from \in 1 .. end, r \in 0 .. Len(Rules)] ==
        IF i = end
        THEN IF i = from \/ (r # NoRule /\ Rules[r].skip)
             THEN Token(endOfInput, 1, end, end)
             ELSE Token(IF r = NoRule THEN symbol ELSE Rules[r].id, from, end, end)
        ELSE LET q == IF r = NoRule THEN findRule(input[i]) ELSE r
             IN  IF q = NoRule THEN scan[i + 1, from, NoRule]
                 ELSE IF r = NoRule /\ i # from THEN Token(symbol, from, i, i)
                 ELSE IF ~Ends(q, input, from, i) THEN scan[i + 1, from, q]
                 ELSE IF Rules[q].skip THEN scan[i, i, NoRule]
                 ELSE Token(Rules[q].id, from + delimited(q), i, i + delimited(q))
  IN  scan[start, start, NoRule]

(* begin(), and next() until the end of the input. *)
Tokens(input) ==
  LET from[i \in 1 .. Len(input) + 1] ==
        LET t == next(input, i)
        IN  IF t.id = endOfInput THEN <<>> ELSE <<t>> \o from[t.next]
  IN  from[1]

Value(input, t) == SubSeq(input, t.from, t.to - 1)
=============================================================================

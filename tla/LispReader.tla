------------------------------ MODULE LispReader ------------------------------
(***************************************************************************)
(* The reader of the LISP interpreter (parse in base/glisp.cpp): the       *)
(* tokens of a text become cells, in one pass, with a stack of the lists   *)
(* that are still open.  'x is read as (quote x): a list that is open      *)
(* until it has its second element.                                        *)
(*                                                                         *)
(* An atom carries its token; what number or string it is converted to is  *)
(* not modelled.                                                           *)
(***************************************************************************)
EXTENDS GlispCells

tokenWhiteSpace == 0
tokenOpenPar    == 1
tokenClosePar   == 2
tokenComment    == 3
tokenString     == 4
tokenQuote      == 5
tokenVec        == 6

Rule(id, skip, start, exception, end) ==
  [id |-> id, skip |-> skip, start |-> start, exception |-> exception, end |-> end]

LispRules ==
  << Rule(tokenWhiteSpace, TRUE,  {" ", "newline"}, {}, {}),
     Rule(tokenOpenPar,    FALSE, {"("}, {}, {}),
     Rule(tokenClosePar,   FALSE, {")"}, {}, {}),
     Rule(tokenComment,    TRUE,  {";"}, {}, {"newline"}),
     Rule(tokenString,     FALSE, {"\""}, {"\\"}, {"\""}),
     Rule(tokenQuote,      FALSE, {"'"}, {}, {}),
     Rule(tokenVec,        FALSE, {"|"}, {}, {"|"}) >>

Tok == INSTANCE Tokenizer WITH Rules <- LispRules

-----------------------------------------------------------------------------
(* The reader: cells, and the open lists [at: the head's index, quote].    *)

quote == Atom(<<Tok!symbol, <<"quote">>>>)

Innermost(p) == p.open[Len(p.open)]

\* Mutant: a quote ends with its own identifier.
checkQuoteDelimEarly(p) ==
  IF p.open # <<>> /\ Innermost(p).quote /\ p.cells[Innermost(p).at].i > 0
  THEN [p EXCEPT !.open = Front(@)] ELSE p

checkQuoteDelim(p) ==
  IF p.open # <<>> /\ Innermost(p).quote /\ p.cells[Innermost(p).at].i > 1
  THEN [p EXCEPT !.open = Front(@)] ELSE p

onNewElement(p) ==
  IF p.open = <<>> THEN p ELSE [p EXCEPT !.cells[Innermost(p).at].i = @ + 1]

OpenList(p, isQuote) ==
  [cells |-> p.cells \o IF isQuote THEN <<List(1), quote>> ELSE <<List(0)>>,
   open  |-> Append(p.open, [at |-> Len(p.cells) + 1, quote |-> isQuote])]

ReadToken(input, p, t) ==
  CASE t.id \in {tokenOpenPar, tokenQuote} ->
         OpenList(onNewElement(checkQuoteDelim(p)), t.id = tokenQuote)
    [] t.id = tokenClosePar ->
         checkQuoteDelim([p EXCEPT !.open = Front(@)])
    [] OTHER ->
         checkQuoteDelim([onNewElement(p) EXCEPT
                            !.cells = Append(@, Atom(<<t.id, Tok!Value(input, t)>>))])

parse(input) ==
  FoldLeft(LAMBDA p, t : ReadToken(input, p, t),
           [cells |-> <<>>, open |-> <<>>], Tok!Tokens(input)).cells

-----------------------------------------------------------------------------
(***************************************************************************)
(* What it should do.                                                      *)
(***************************************************************************)

(* What the rules promise, one character at a time: which token it belongs *)
(* to is decided by the token one is in, and by the character before.      *)
Lexed(input) ==
  LET close(a)     == [a EXCEPT !.in = "", !.text = <<>>,
                        !.done = IF a.in \in {"", "comment"} THEN @
                                 ELSE Append(@, <<a.in, a.text>>)]
      begin(a, in) == [close(a) EXCEPT !.in = in]
      more(a, c)   == [a EXCEPT !.text = Append(@, c)]
      outside(a, c) ==
        CASE c \in {" ", "newline"}  -> close(a)
          [] c \in {"(", ")", "'"}   -> close(more(begin(a, c), c))
          [] c = ";"                 -> begin(a, "comment")
          [] c \in {"\"", "|"}       -> begin(a, c)
          [] OTHER -> IF a.in = "symbol" THEN more(a, c) ELSE more(begin(a, "symbol"), c)
      step(a, c) ==
        CASE a.in = "comment" -> IF c = "newline" THEN close(a) ELSE a
          [] a.in \in {"\"", "|"} ->
               IF c = a.in /\ ~(c = "\"" /\ a.last = "\\") THEN close(a) ELSE more(a, c)
          [] OTHER -> outside(a, c)
      whole == FoldLeft(LAMBDA a, c : [step(a, c) EXCEPT !.last = c],
                        [in |-> "", text |-> <<>>, last |-> "", done |-> <<>>], input)
  IN  [closed |-> whole.in \notin {"\"", "|"}, tokens |-> close(whole).done]

IdOf(kind) ==
  CASE kind = "symbol" -> Tok!symbol
    [] kind = "(" -> tokenOpenPar   [] kind = ")" -> tokenClosePar
    [] kind = "'" -> tokenQuote     [] kind = "|" -> tokenVec
    [] kind = "\"" -> tokenString

(* A text whose first token is an empty comment, string or vector: its     *)
(* delimiter is in the second position, where it is not looked at.         *)
BeginsEmpty(input) ==
  /\ Len(input) > 1
  /\ \E r \in DOMAIN LispRules :
       input[1] \in LispRules[r].start /\ input[2] \in LispRules[r].end

(* The tokenizer finds the tokens that reading character by character      *)
(* finds, if every string is ended.                                        *)
LexedAsPromised(input) ==
  LET lexed  == Lexed(input)
      tokens == Tok!Tokens(input)
  IN  lexed.closed /\ ~BeginsEmpty(input) =>
        [k \in DOMAIN tokens |-> <<tokens[k].id, Tok!Value(input, tokens[k])>>]
          = [k \in DOMAIN lexed.tokens |-> <<IdOf(lexed.tokens[k][1]), lexed.tokens[k][2]>>]

(* A form is [kind, text, parts]: an atom "symbol" or "string" with its    *)
(* text, or a "list" or "quote" with its parts.  Its printed text:         *)
RECURSIVE Printed(_, _)
Printed(f, gap) ==
  LET parts == FoldLeft(LAMBDA text, part : text \o gap \o Printed(part, gap), <<>>, f.parts)
  IN  CASE f.kind = "symbol" -> f.text
        [] f.kind = "string" -> <<"\"">> \o f.text \o <<"\"">>
        [] f.kind = "quote"  -> <<"'">> \o parts
        [] f.kind = "list"   -> <<"(">> \o parts \o <<")">>

(* Its cells: a list counts its elements, a quote is a list of two.        *)
RECURSIVE Layout(_)
Layout(f) ==
  LET parts == FoldLeft(LAMBDA cells, part : cells \o Layout(part), <<>>, f.parts)
  IN  CASE f.kind = "symbol" -> <<Atom(<<Tok!symbol, f.text>>)>>
        [] f.kind = "string" -> <<Atom(<<tokenString, f.text>>)>>
        [] f.kind = "quote"  -> <<List(2), quote>> \o parts
        [] f.kind = "list"   -> <<List(Len(f.parts))>> \o parts

RECURSIVE QuotesAQuote(_)
QuotesAQuote(f) ==
  \E k \in DOMAIN f.parts :
    (f.kind = "quote" /\ f.parts[k].kind = "quote") \/ QuotesAQuote(f.parts[k])

(* The reader lays out the forms of a program, one after the other, when   *)
(* it reads them as they are printed, with the gap between them.  A form   *)
(* quoted twice is the exception: the outer quote is closed too late.      *)
ReadBack(program, gap) ==
  LET all(Of(_)) == FoldLeft(LAMBDA done, f : done \o Of(f), <<>>, program)
      text == all(LAMBDA f : Printed(f, gap) \o gap)
  IN  ~BeginsEmpty(text) /\ (\A k \in DOMAIN program : ~QuotesAQuote(program[k]))
        => parse(text) = all(Layout)
=============================================================================

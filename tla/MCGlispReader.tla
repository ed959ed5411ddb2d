---------------------------- MODULE MCGlispReader ----------------------------
(* The instance of Glisp with its reader: texts of up to five characters,  *)
(* and programs of two forms, nested three deep; and vectors of up to two  *)
(* cells, of every type, written to a stream.  A behaviour runs a program, *)
(* or has one sample read and ends.                                        *)
EXTENDS MCGlisp, LispReader, Stream

CONSTANTS Texts, Programs, Gaps, Vectors

VARIABLE sample   \* what is read, or nothing

Nothing == <<"nothing">>

(* The interpreter is as init() leaves it. *)
Untouched ==
  /\ state.stack = Constants /\ Len(state.callStack) = 1
  /\ DOMAIN state.lists \cup state.listsPool = {} /\ intact

ReadSample ==
  /\ Untouched /\ sample = Nothing
  /\ \/ \E text \in Texts : sample' = <<"text", text>>
     \/ \E program \in Programs, gap \in Gaps : sample' = <<"program", program, gap>>
     \/ \E a, b, c, d \in Vectors : sample' = <<"vectors", a, b, c, d>>
  /\ UNCHANGED vars

RunProgram == sample = Nothing /\ Next /\ UNCHANGED sample

SampleInit == Init /\ sample = Nothing
SampleNext == ReadSample \/ RunProgram
SampleSpec == SampleInit /\ [][SampleNext]_<<vars, sample>>

(* The tokenizer, whose scan runs ahead of the token it returns, finds the *)
(* tokens its rules promise, whatever quotes, escapes, comments and spaces *)
(* meet: those that reading character by character finds.                  *)
TokensAsLexed == sample[1] = "text" => LexedAsPromised(sample[2])

(* The reader lays out what was written: reading the text of a program     *)
(* yields the cells of its forms, one form after the other, whatever is    *)
(* nested in what, quoted, or set apart by comments and line ends.         *)
ReadsBack == sample[1] = "program" => ReadBack(sample[2], sample[3])

(* What is written to a stream is read back, also around and over what was *)
(* overwritten in place: every value begins where the one before ended.    *)
StreamReadsBack ==
  sample[1] = "vectors" => StreamedBack(sample[2], sample[3], sample[4], sample[5])

MCTexts ==
  SeqOf({"a", " ", "(", ";", "newline", "\"", "\\", "|"}, 5)

Symbols == {[kind |-> "symbol", text |-> <<"a">>, parts |-> <<>>]}
Strings == {[kind |-> "string", text |-> t, parts |-> <<>>] : t \in {<<>>, <<"(", "\\", "\"">>}}

Nest(forms) ==
  Symbols \cup {[kind |-> "quote", text |-> <<>>, parts |-> <<f>>] : f \in forms}
    \cup {[kind |-> "list", text |-> <<>>, parts |-> p] : p \in SeqOf(forms, 2)}

Inner == Nest(Symbols \cup Strings)
Forms == Nest(Inner)

MCPrograms == {<<f>> : f \in Forms} \cup {<<f, g>> : f \in Inner, g \in Forms}
                \cup {<<g, f>> : f \in Inner, g \in Forms}

Cells ==
  {[type |-> typeIdentifier, s |-> <<<<97>>, <<98>>, <<99>>, <<100>>>>],
   [type |-> typeString, s |-> <<>>],
   [type |-> typeInt, n |-> <<1>>],
   [type |-> typeFloat, n |-> <<5>>],
   [type |-> typeInt64, n |-> <<2, 3>>],
   [type |-> typeList, n |-> <<1, 0>>],
   [type |-> typeVector, n |-> <<1, 2, 3, 4>>]}

(* Of no cell, of one, and of two, the second an empty string: a number    *)
(* before it makes a vector as long as one of an identifier.               *)
MCVectors ==
  SeqOf(Cells, 1) \cup
    {<<c, [type |-> typeString, s |-> <<>>]>> : c \in {d \in Cells : d.type \in {typeInt, typeIdentifier}}}

MCGaps == {<<" ">>, <<"newline">>, <<";", "(", "newline">>}
=============================================================================

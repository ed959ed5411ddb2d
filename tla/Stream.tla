-------------------------------- MODULE Stream --------------------------------
(***************************************************************************)
(* The memory stream of base/stream.inc.hpp, and what is written to it:    *)
(* strings and vectors behind their length, and the cells of the LISP      *)
(* interpreter (base/glisp.inc.hpp) behind their type.  A stream is        *)
(* [mem, pos], pos units from the beginning.  A number, or a word of one,  *)
(* is written as the units <<number, 1>> .. <<number, WordSize>>, a        *)
(* character c as the unit <<c>>.                                          *)
(***************************************************************************)
EXTENDS Integers, SequencesExt, FiniteSetsExt

CONSTANT WordSize   \* sizeof(uint32)

None == -1   \* a number that a read finds nothing of, or no number

Units(number) == [k \in 1 .. WordSize |-> <<number, k>>]

newStream == [mem |-> <<>>, pos |-> 0]

setPosFromBegin(s, units) == [s EXCEPT !.pos = units]

\* Mutant: the memory ends where the write ends.
writeShrinks(s, data) ==
  [mem |-> [k \in 1 .. s.pos + Len(data) |->
              IF k > s.pos THEN data[k - s.pos] ELSE s.mem[k]],
   pos |-> s.pos + Len(data)]

(* The memory grows as far as the write needs, and keeps what is behind.   *)
write(s, data) ==
  LET end == s.pos + Len(data)
  IN  [mem |-> [k \in 1 .. Max({Len(s.mem), end}) |->
                  IF k \in s.pos + 1 .. end THEN data[k - s.pos]
                  ELSE IF k <= Len(s.mem) THEN s.mem[k] ELSE <<0, 1>>],
       pos |-> end]

(* Up to size units, fewer at the end of the memory: [s, got]. The         *)
(* position is within the memory, else what remains wraps around.          *)
read(s, size) ==
  LET n == Min({Len(s.mem) - s.pos, size})
  IN  [s |-> [s EXCEPT !.pos = @ + n], got |-> SubSeq(s.mem, s.pos + 1, s.pos + n)]

writeNumber(s, number) == write(s, Units(number))

readNumber(s) ==
  LET r == read(s, WordSize)
  IN  [s |-> r.s,
       got |-> IF r.got # <<>> /\ r.got = Units(r.got[1][1]) THEN r.got[1][1] ELSE None]

writeString(s, text) == write(writeNumber(s, Len(text)), text)

readString(s) ==
  LET len == readNumber(s)
  IN  IF len.got = None THEN [len EXCEPT !.got = <<>>] ELSE read(len.s, len.got)

-----------------------------------------------------------------------------
(* A cell is [type, s] if it holds a string, and else [type, n], the words *)
(* of the number it holds; a list holds two, i and j.                      *)

typeIdentifier == 0
typeInt        == 1
typeInt64      == 2
typeFloat      == 3
typeVector     == 4
typeString     == 5
typeList       == 6

Textual == {typeString, typeIdentifier}

WordsOf(type) ==
  CASE type \in {typeInt, typeFloat}  -> 1
    [] type \in {typeInt64, typeList} -> 2
    [] type = typeVector              -> 4
    [] OTHER                          -> 0

writeCell(s, c) ==
  LET typed == writeNumber(s, c.type)
  IN  IF c.type \in Textual THEN writeString(typed, c.s)
      ELSE FoldLeft(writeNumber, typed, c.n)

(* Reads with read, times times: [s, got], what was read in order. *)
readMany(readOne(_), s, times) ==
  LET after[k \in 0 .. times] ==
        IF k = 0 THEN [s |-> s, got |-> <<>>]
        ELSE LET r == readOne(after[k - 1].s)
             IN  [s |-> r.s, got |-> Append(after[k - 1].got, r.got)]
  IN  after[times]

readCell(s) ==
  LET type == readNumber(s)
      text == readString(type.s)
      nums == readMany(readNumber, type.s, WordsOf(type.got))
  IN  IF type.got \in Textual
      THEN [s |-> text.s, got |-> [type |-> type.got, s |-> text.got]]
      ELSE [s |-> nums.s, got |-> [type |-> type.got, n |-> nums.got]]

writeVector(s, cells) == FoldLeft(writeCell, writeNumber(s, Len(cells)), cells)

readVector(s) ==
  LET len == readNumber(s)
  IN  IF len.got = None THEN [len EXCEPT !.got = <<>>]
      ELSE readMany(readCell, len.s, len.got)

-----------------------------------------------------------------------------
(* Vectors a, b and c are written one after the other, and b overwritten   *)
(* in place by d, which is as long: reading from the beginning yields a, d *)
(* and c, each from where the one before ended, and then nothing more.     *)
StreamedBack(a, b, c, d) ==
  LET first  == writeVector(newStream, a)
      second == writeVector(first, b)
      third  == writeVector(second, c)
      over   == writeVector(setPosFromBegin(third, first.pos), d)
      all    == readMany(readVector, setPosFromBegin(over, 0), 3)
  IN  writeVector(first, d).pos = second.pos =>
        all.got = <<a, d, c>> /\ readNumber(all.s).got = None
=============================================================================

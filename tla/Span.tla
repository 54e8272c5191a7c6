-------------------------------- MODULE Span --------------------------------
(***************************************************************************)
(* Unsigned words, and spans of them: span_t in kernel/src/std/types2.hh   *)
(* and the checked arithmetic of std/math-safe.hh.  The sums that the code *)
(* writes with + wrap around.                                              *)
(***************************************************************************)
EXTENDS Integers

CONSTANT WordSize \* number of values of a word (2^32)

ASSUME WordAssumption == WordSize \in Nat \ {0}

Word == 0 .. WordSize - 1
Span == [start : Word, size : Word]

add_overflows(x, y) == x + y >= WordSize
Plus(x, y) == (x + y) % WordSize

span(start, size) == [start |-> start, size |-> size]

empty(s) == s.size = 0
valid(s) == empty(s) \/ ~add_overflows(s.start, s.size - 1)
LastWord(s) == Plus(s.start, s.size - 1)

overlaps(s, o) ==
  /\ ~empty(s) /\ ~empty(o) /\ valid(s) /\ valid(o)
  /\ IF s.start =< o.start THEN LastWord(s) >= o.start ELSE LastWord(o) >= s.start

contains(s, o) ==
  /\ ~empty(s) /\ ~empty(o) /\ valid(s) /\ valid(o)
  /\ s.start =< o.start
  /\ LastWord(o) =< LastWord(s)

contains_word(s, x) == ~empty(s) /\ valid(s) /\ s.start =< x /\ x =< LastWord(s)

\* The words of a valid span.
Words(s) == {x \in Word : s.start =< x /\ x < s.start + s.size}
=============================================================================

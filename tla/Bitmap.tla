------------------------------- MODULE Bitmap -------------------------------
(***************************************************************************)
(* kernel/src/std/bitmap.hh: an array of `size` words of bits_per_entry    *)
(* bits with a counter of the clear ones.  A bitmap is the set of its set  *)
(* bits and its counter; bit i is bit i % bits_per_entry, counted from the *)
(* most significant one, of word i \div bits_per_entry.  The words past    *)
(* the array belong to other variables of the kernel; the search may read  *)
(* the first of them and set_range may write them.                         *)
(*                                                                         *)
(* No caller passes an alignment, so that the search is the one for        *)
(* align = 0.                                                              *)
(***************************************************************************)
EXTENDS Integers, FiniteSets

CONSTANTS bits_per_entry, size

ASSUME BitmapAssumption == bits_per_entry \in Nat \ {0} /\ size \in Nat \ {0}

Nelems == bits_per_entry * size
Bits == 0 .. Nelems - 1

Min2(a, b) == IF a =< b THEN a ELSE b

\* A word is the set of the positions of its set bits.
Entry(bits, e) == {j \in 0 .. bits_per_entry - 1 : e * bits_per_entry + j \in bits}

leading_0s(word) ==
  CHOOSE n \in 0 .. bits_per_entry :
    /\ 0 .. n - 1 \cap word = {}
    /\ n = bits_per_entry \/ n \in word

trailing_0s(word) ==
  CHOOSE n \in 0 .. bits_per_entry :
    /\ (bits_per_entry - n) .. bits_per_entry - 1 \cap word = {}
    /\ n = bits_per_entry \/ bits_per_entry - 1 - n \in word

ShiftLeft(word, n) == {j - n : j \in {k \in word : k >= n}}

-----------------------------------------------------------------------------
\* can_continue: the first `count` bits from word `from` on are clear.  After
\* the last word, entries[size] is read.
MutContinue(bits, from, count) ==
  LET whole == count \div bits_per_entry
  IN  /\ from + whole =< size
      /\ \A e \in from .. from + whole - 1 : Entry(bits, e) = {}

CanContinue(bits, from, count) ==
  count > 0 =>
    LET whole == (count - 1) \div bits_per_entry
    IN  /\ from + whole =< size
        /\ \A e \in from .. from + whole - 1 : Entry(bits, e) = {}
        /\ leading_0s(Entry(bits, from + whole)) >= count - whole * bits_per_entry

\* The results the search can return in word ei: within the word, else at the
\* clear bits it ends with.
FoundIn(bits, start, count, ei) ==
  LET entry  == Entry(bits, ei)
      off    == IF ei = start \div bits_per_entry THEN start % bits_per_entry ELSE 0
      inside == {s \in off .. bits_per_entry - count : count =< leading_0s(ShiftLeft(entry, s))}
      trails == Min2(trailing_0s(entry), bits_per_entry - off)
  IN  IF inside # {}
      THEN {ei * bits_per_entry + s : s \in inside}
      ELSE {n \in {ei * bits_per_entry + bits_per_entry - trails} :
              trails > 0 /\ ei + 1 < size /\ CanContinue(bits, ei + 1, count - trails)}

\* The set of the bit that find_contiguous returns, empty when it finds none.
find_contiguous(bits, start, count) ==
  LET words == {ei \in start \div bits_per_entry .. size - 1 :
                  FoundIn(bits, start, count, ei) # {}}
      first == CHOOSE ei \in words : \A e \in words : ei =< e
      found == FoundIn(bits, start, count, first)
  IN  IF words = {} THEN {} ELSE {CHOOSE n \in found : \A m \in found : n =< m}

-----------------------------------------------------------------------------
\* The bits set_range visits: the rest of a word it starts inside of, then
\* whole words, then the first bits of a last one.
MutTouched(i, count) ==
  LET lead  == Min2(count, bits_per_entry - (i % bits_per_entry))
      next  == i \div bits_per_entry + (IF i % bits_per_entry = 0 THEN 0 ELSE 1)
      whole == (count - lead) \div bits_per_entry
      tail  == (count - lead) % bits_per_entry
  IN  (i .. i + lead - 1)
        \cup {next * bits_per_entry + k : k \in 0 .. whole * bits_per_entry - 1}
        \cup {(next + whole) * bits_per_entry + k : k \in 0 .. tail - 1}

Touched(i, count) ==
  LET rej   == i % bits_per_entry
      lead  == IF rej = 0 THEN 0 ELSE Min2(count, bits_per_entry - rej)
      next  == i \div bits_per_entry + (IF rej = 0 THEN 0 ELSE 1)
      whole == (count - lead) \div bits_per_entry
      tail  == (count - lead) % bits_per_entry
  IN  {(i \div bits_per_entry) * bits_per_entry + rej + k : k \in 0 .. lead - 1}
        \cup {(next + w) * bits_per_entry + k : w \in 0 .. whole - 1, k \in 0 .. bits_per_entry - 1}
        \cup {(next + whole) * bits_per_entry + k : k \in 0 .. tail - 1}

\* The counter moves by `count` whether or not the bits change.
set_range(bmp, i, count, val) ==
  [bits |-> IF val THEN bmp.bits \cup Touched(i, count) ELSE bmp.bits \ Touched(i, count),
   available |-> IF val THEN bmp.available - count ELSE bmp.available + count]
=============================================================================

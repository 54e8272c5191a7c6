----------------------------- MODULE PmmProofs ------------------------------
(***************************************************************************)
(* The page frame allocator for every size of words, bitmaps, pages, every *)
(* memory map and kernel image: first that the word-wise search of the     *)
(* bitmap is first fit, then that init frees exactly the usable pages,     *)
(* then the inductive invariant and the refinement of Frames.              *)
(*                                                                         *)
(* Where a fact needs induction over numbers (words, entries of the map)   *)
(* it is proved by the least counterexample, from Least.  Products of two  *)
(* parameters are named and hidden, so that the steps about them are       *)
(* linear.                                                                 *)
(***************************************************************************)
EXTENDS Pmm, SequenceTheorems, WellFoundedInduction, FiniteSetTheorems, TLAPS

\* The division with remainder.
LEMMA DivMod ==
  ASSUME NEW x \in Nat, NEW y \in Nat \ {0}
  PROVE  x \div y \in Nat /\ x % y \in 0 .. y - 1 /\ x = y * (x \div y) + (x % y)
OBVIOUS

\* Multiplying is monotonic.
LEMMA MulMono ==
  ASSUME NEW x \in Nat, NEW y \in Nat, NEW z \in Nat, x =< y
  PROVE  z * x \in Nat /\ z * y \in Nat /\ z * x =< z * y
OBVIOUS

\* A number in quotient and remainder form has that quotient and remainder.
LEMMA DivUnique ==
  ASSUME NEW y \in Nat \ {0}, NEW e \in Nat, NEW j \in 0 .. y - 1
  PROVE  y * e + j \in Nat /\ (y * e + j) \div y = e /\ (y * e + j) % y = j
<1> DEFINE x == y * e + j
           d == x \div y
           r == x % y
<1>1. x \in Nat OBVIOUS
<1>2. d \in Nat /\ r \in 0 .. y - 1 /\ x = y * d + r BY <1>1, DivMod
<1>3. ASSUME d < e PROVE FALSE
  <2>1. y * (d + 1) =< y * e BY <1>2, <1>3, MulMono
  <2>2. y * (d + 1) = y * d + y BY <1>2
  <2> QED BY <1>2, <2>1, <2>2
<1>4. ASSUME e < d PROVE FALSE
  <2>1. y * (e + 1) =< y * d BY <1>2, <1>4, MulMono
  <2>2. y * (e + 1) = y * e + y OBVIOUS
  <2> QED BY <1>2, <2>1, <2>2
<1>5. d = e BY <1>2, <1>3, <1>4
<1> QED BY <1>1, <1>2, <1>5

\* What is assumed of the sizes.
LEMMA Constants ==
  /\ bits_per_entry \in Nat \ {0} /\ size \in Nat \ {0} /\ Nelems \in Nat \ {0}
  /\ page_size \in Nat \ {0} /\ Nelems = bits_per_entry * size
BY PmmAssumption, BitmapAssumption DEF Nelems

\* What set_range visits from word a on, c bits: whole words, then the rest.
FromWord(a, c) ==
  {(a + w) * bits_per_entry + k : w \in 0 .. (c \div bits_per_entry) - 1, k \in 0 .. bits_per_entry - 1}
    \cup {(a + (c \div bits_per_entry)) * bits_per_entry + k : k \in 0 .. (c % bits_per_entry) - 1}

\* They are a run of bits.
LEMMA Words ==
  ASSUME NEW a \in Nat, NEW c \in Nat
  PROVE  FromWord(a, c) = a * bits_per_entry .. a * bits_per_entry + c - 1
<1> DEFINE W == bits_per_entry
           whole == c \div W
           tail == c % W
<1>0. W \in Nat \ {0} BY Constants
<1>1. whole \in Nat /\ tail \in 0 .. W - 1 /\ c = W * whole + tail BY <1>0, DivMod
<1> HIDE DEF W, whole, tail
<1>2. a * W \in Nat BY <1>0
<1>3. ASSUME NEW w \in 0 .. whole - 1, NEW k \in 0 .. W - 1
      PROVE (a + w) * W + k \in a * W .. a * W + c - 1
  <2>1. (a + w) * W = a * W + W * w BY <1>0
  <2>2. W * (w + 1) =< W * whole BY <1>0, <1>1, MulMono
  <2>3. W * (w + 1) = W * w + W /\ W * w \in Nat BY <1>0
  <2> QED BY <1>0, <1>1, <1>2, <2>1, <2>2, <2>3
<1>4. ASSUME NEW k \in 0 .. tail - 1
      PROVE (a + whole) * W + k \in a * W .. a * W + c - 1
  <2>1. (a + whole) * W = a * W + W * whole /\ W * whole \in Nat BY <1>0, <1>1
  <2> QED BY <1>0, <1>1, <1>2, <2>1
<1>5. ASSUME NEW n \in a * W .. a * W + c - 1
      PROVE \/ \E w \in 0 .. whole - 1, k \in 0 .. W - 1 : n = (a + w) * W + k
            \/ \E k \in 0 .. tail - 1 : n = (a + whole) * W + k
  <2> DEFINE m == n - a * W
             w == m \div W
             k == m % W
  <2>1. m \in Nat /\ m < c BY <1>2
  <2>2. w \in Nat /\ k \in 0 .. W - 1 /\ m = W * w + k BY <1>0, <2>1, DivMod
  <2> HIDE DEF w, k
  <2>3. (a + w) * W = a * W + W * w /\ W * w \in Nat BY <1>0, <2>2
  <2>4. n = (a + w) * W + k BY <1>0, <1>2, <2>1, <2>2, <2>3
  <2>5. ASSUME whole < w PROVE FALSE
    <3>1. W * (whole + 1) =< W * w BY <1>0, <1>1, <2>2, <2>5, MulMono
    <3>2. W * (whole + 1) = W * whole + W /\ W * whole \in Nat /\ W * w \in Nat BY <1>0, <1>1, <2>2
    <3> QED BY <1>0, <1>1, <2>1, <2>2, <3>1, <3>2
  <2>6. CASE w < whole
    <3>1. w \in 0 .. whole - 1 BY <1>1, <2>2, <2>6
    <3> QED BY <2>2, <2>4, <3>1
  <2>7. CASE w = whole
    <3>0. W * w = W * whole /\ W * w \in Nat BY <1>0, <2>2, <2>7
    <3>1. k < tail BY <1>1, <2>1, <2>2, <3>0
    <3> QED BY <1>1, <2>2, <2>4, <2>7, <3>1
  <2> QED BY <1>1, <2>2, <2>5, <2>6, <2>7
<1>6. {(a + w) * W + k : w \in 0 .. whole - 1, k \in 0 .. W - 1}
        \cup {(a + whole) * W + k : k \in 0 .. tail - 1} = a * W .. a * W + c - 1
  BY <1>3, <1>4, <1>5
<1> QED BY <1>6 DEF W, whole, tail, FromWord

\* set_range visits the bits of its range and no other, wherever the range
\* begins and ends in its words (bitmap.hh:86-128).
LEMMA TouchedIsRun ==
  ASSUME NEW i \in Nat, NEW count \in Nat
  PROVE  Touched(i, count) = i .. i + count - 1
<1> DEFINE W == bits_per_entry
           rej == i % W
           q == i \div W
           lead == IF rej = 0 THEN 0 ELSE Min2(count, W - rej)
           next == q + (IF rej = 0 THEN 0 ELSE 1)
           c == count - lead
           First == {q * W + rej + k : k \in 0 .. lead - 1}
<1>0. W \in Nat \ {0} BY Constants
<1>1. q \in Nat /\ rej \in 0 .. W - 1 /\ i = W * q + rej BY <1>0, DivMod
<1>2. Touched(i, count) = First \cup FromWord(next, c) BY DEF Touched, FromWord
<1> HIDE DEF q, rej
<1>3. lead \in Nat /\ c \in Nat /\ next \in Nat BY <1>0, <1>1 DEF Min2
<1>4. FromWord(next, c) = next * W .. next * W + c - 1
  <2> HIDE DEF next, c
  <2> QED BY <1>3, Words
<1>5. q * W + rej = i BY <1>0, <1>1
<1>6. First = i .. i + lead - 1
  <2> HIDE DEF lead
  <2>1. First = {i + k : k \in 0 .. lead - 1} BY <1>5
  <2>2. \A n \in i .. i + lead - 1 : n - i \in 0 .. lead - 1 /\ n = i + (n - i) BY <1>3
  <2>3. \A k \in 0 .. lead - 1 : i + k \in i .. i + lead - 1 BY <1>3
  <2> HIDE DEF First
  <2> QED BY <1>3, <2>1, <2>2, <2>3
<1>7. \/ lead = 0 /\ next * W = i /\ c = count
      \/ lead = count /\ c = 0 /\ next * W \in Nat
      \/ lead + c = count /\ next * W = i + lead
  <2>1. W * q \in Nat BY <1>0, <1>1
  <2>2. CASE rej = 0 BY <1>0, <1>1, <2>1, <2>2
  <2>3. CASE rej # 0
    <3>1. next * W = W * q + W BY <1>0, <1>1, <2>3
    <3>2. lead = Min2(count, W - rej) BY <2>3
    <3> QED BY <1>0, <1>1, <1>3, <2>1, <3>1, <3>2 DEF Min2
  <2> QED BY <2>2, <2>3
<1> HIDE DEF lead, next, W, First, c
<1> QED BY <1>2, <1>3, <1>4, <1>6, <1>7

-----------------------------------------------------------------------------
\* Every nonempty set of numbers has a least element: induction in the form
\* that needs no operator as a parameter.
LEMMA Least ==
  ASSUME NEW S, S \subseteq Nat, S # {}
  PROVE  \E m \in S : \A k \in S : m =< k
<1>1. PICK m \in S : \A k \in S : <<k, m>> \notin OpToRel(<, Nat)
  BY NatLessThanWellFounded, WFMin, Zenon
<1>2. \A k \in S : ~ k < m BY <1>1, Zenon DEF OpToRel
<1> QED BY <1>2

\* A run of clear bits.
Clear(bits, n, count) == \A b \in n .. n + count - 1 : b \notin bits

\* leading_0s counts: the first c bits of a word are clear when c is at most that.
LEMMA Leading ==
  ASSUME NEW word, word \subseteq 0 .. bits_per_entry - 1
  PROVE  /\ leading_0s(word) \in 0 .. bits_per_entry
         /\ \A c \in 0 .. bits_per_entry : c =< leading_0s(word) <=> \A j \in 0 .. c - 1 : j \notin word
<1> DEFINE W == bits_per_entry
           Is(n) == /\ 0 .. n - 1 \cap word = {}
                    /\ n = W \/ n \in word
<1>0. W \in Nat \ {0} BY Constants
<1>1. \E n \in 0 .. W : Is(n)
  <2>1. CASE word = {} BY <1>0, <2>1
  <2>2. CASE word # {}
    <3>0. word \subseteq Nat BY <1>0
    <3>1. PICK m \in word : \A k \in word : m =< k BY <2>2, <3>0, Least
    <3> QED BY <1>0, <3>0, <3>1
  <2> QED BY <2>1, <2>2
<1>2. leading_0s(word) = CHOOSE n \in 0 .. W : Is(n) BY DEF leading_0s
<1>3. leading_0s(word) \in 0 .. W /\ Is(leading_0s(word))
  <2> HIDE DEF Is
  <2> QED BY <1>1, <1>2, Zenon
<1> QED BY <1>0, <1>3

\* So does trailing_0s, from the other end.
LEMMA Trailing ==
  ASSUME NEW word, word \subseteq 0 .. bits_per_entry - 1
  PROVE  /\ trailing_0s(word) \in 0 .. bits_per_entry
         /\ \A c \in 0 .. bits_per_entry :
              c =< trailing_0s(word) <=> \A j \in bits_per_entry - c .. bits_per_entry - 1 : j \notin word
<1> DEFINE W == bits_per_entry
           Is(n) == /\ W - n .. W - 1 \cap word = {}
                    /\ n = W \/ W - 1 - n \in word
<1>0. W \in Nat \ {0} BY Constants
<1>1. \E n \in 0 .. W : Is(n)
  <2>1. CASE word = {} BY <1>0, <2>1
  <2>2. CASE word # {}
    <3> DEFINE mirror == {W - 1 - j : j \in word}
    <3>1. mirror \subseteq Nat /\ mirror # {} BY <1>0, <2>2
    <3>2. PICK m \in mirror : \A k \in mirror : m =< k
      <4> HIDE DEF mirror
      <4> QED BY <3>1, Least
    <3>3. m \in 0 .. W /\ W - 1 - m \in word BY <1>0, <3>2
    <3>4. ASSUME NEW j \in word PROVE j =< W - 1 - m
      <4>1. W - 1 - j \in mirror BY DEF mirror
      <4>2. m =< W - 1 - j BY <3>2, <4>1
      <4> QED BY <1>0, <3>3, <4>2
    <3> QED BY <1>0, <3>3, <3>4
  <2> QED BY <2>1, <2>2
<1>2. trailing_0s(word) = CHOOSE n \in 0 .. W : Is(n) BY DEF trailing_0s
<1>3. trailing_0s(word) \in 0 .. W /\ Is(trailing_0s(word))
  <2> HIDE DEF Is
  <2> QED BY <1>1, <1>2, Zenon
<1> QED BY <1>0, <1>3

\* The bits of word e of a bitmap.
LEMMA WordBits ==
  ASSUME NEW bits, NEW e
  PROVE  /\ Entry(bits, e) \subseteq 0 .. bits_per_entry - 1
         /\ \A j \in 0 .. bits_per_entry - 1 : j \in Entry(bits, e) <=> e * bits_per_entry + j \in bits
BY DEF Entry

\* The leading zeros of a shifted word are a clear run of the bitmap.
LEMMA ShiftedRun ==
  ASSUME NEW bits, NEW e \in Nat, NEW s \in Nat, NEW c \in Nat \ {0}, s + c =< bits_per_entry
  PROVE  c =< leading_0s(ShiftLeft(Entry(bits, e), s)) <=> Clear(bits, e * bits_per_entry + s, c)
<1> DEFINE W == bits_per_entry
           word == ShiftLeft(Entry(bits, e), s)
           a == e * W
<1>0. W \in Nat \ {0} /\ a \in Nat BY Constants
<1>1. \A j \in 0 .. c - 1 : j \in word <=> s + j \in Entry(bits, e)
  BY <1>0, WordBits DEF ShiftLeft
<1>2. \A j \in 0 .. c - 1 : s + j \in Entry(bits, e) <=> a + (s + j) \in bits
  BY <1>0, WordBits, \A j \in 0 .. c - 1 : s + j \in 0 .. W - 1
<1>3. word \subseteq 0 .. W - 1 BY <1>0, WordBits DEF ShiftLeft
<1> HIDE DEF word, a
<1>4. c =< leading_0s(word) <=> \A j \in 0 .. c - 1 : j \notin word
  BY <1>0, <1>3, Leading, c \in 0 .. W
<1>5. Clear(bits, a + s, c) <=> \A j \in 0 .. c - 1 : a + (s + j) \notin bits
  <2>1. ASSUME NEW b \in a + s .. a + s + c - 1 PROVE b - (a + s) \in 0 .. c - 1 /\ b = a + (s + (b - (a + s)))
    BY <1>0
  <2>2. ASSUME NEW j \in 0 .. c - 1 PROVE a + (s + j) \in a + s .. a + s + c - 1
    BY <1>0
  <2> QED BY <2>1, <2>2 DEF Clear
<1> QED BY <1>1, <1>2, <1>4, <1>5 DEF word, a

\* A clear run is two clear runs.
LEMMA ClearSplit ==
  ASSUME NEW bits, NEW a \in Nat, NEW x \in Nat, NEW y \in Nat
  PROVE  Clear(bits, a, x + y) <=> Clear(bits, a, x) /\ Clear(bits, a + x, y)
<1>1. \A b \in a .. a + (x + y) - 1 : b \in a .. a + x - 1 \/ b \in a + x .. a + x + y - 1 OBVIOUS
<1>2. \A b \in a .. a + x - 1 : b \in a .. a + (x + y) - 1 OBVIOUS
<1>3. \A b \in a + x .. a + x + y - 1 : b \in a .. a + (x + y) - 1 OBVIOUS
<1> QED BY <1>1, <1>2, <1>3 DEF Clear

\* The quotient, by multiplication.
LEMMA Quotient ==
  ASSUME NEW n \in Nat, NEW e \in Nat, NEW y \in Nat \ {0}
  PROVE  /\ e * y \in Nat
         /\ n \div y \in Nat
         /\ n \div y = e <=> e * y =< n /\ n < e * y + y
         /\ e =< n \div y <=> e * y =< n
<1> DEFINE d == n \div y
           r == n % y
<1>1. d \in Nat /\ r \in 0 .. y - 1 /\ n = y * d + r BY DivMod
<1> HIDE DEF d, r
<1>2. e * y = y * e /\ y * e \in Nat /\ y * d \in Nat BY <1>1
<1>3. ASSUME e < d PROVE y * e + y =< y * d
  <2>1. y * (e + 1) =< y * d BY <1>1, <1>3, MulMono
  <2> QED BY <2>1, y * (e + 1) = y * e + y
<1>4. ASSUME d < e PROVE y * d + y =< y * e
  <2>1. y * (d + 1) =< y * e BY <1>1, <1>4, MulMono
  <2>2. y * (d + 1) = y * d + y BY <1>1
  <2> QED BY <2>1, <2>2
<1>5. (d = e => y * d = y * e) OBVIOUS
<1> QED BY <1>1, <1>2, <1>3, <1>4, <1>5 DEF d, r

\* The word that bit n is in.
LEMMA WordOf ==
  ASSUME NEW n \in Nat, NEW e \in Nat
  PROVE  /\ e * bits_per_entry \in Nat
         /\ n \div bits_per_entry \in Nat
         /\ n \div bits_per_entry = e <=> e * bits_per_entry =< n /\ n < e * bits_per_entry + bits_per_entry
         /\ e =< n \div bits_per_entry <=> e * bits_per_entry =< n
BY Quotient, Constants

\* Words that are zero are a clear run.
LEMMA ClearWords ==
  ASSUME NEW bits, NEW a \in Nat, NEW n \in Nat
  PROVE  (\A e \in a .. a + n - 1 : Entry(bits, e) = {}) <=> Clear(bits, a * bits_per_entry, n * bits_per_entry)
<1> DEFINE W == bits_per_entry
<1>0. W \in Nat \ {0} /\ a * W \in Nat /\ n * W \in Nat /\ (a + n) * W = a * W + n * W BY Constants
<1>1. ASSUME \A e \in a .. a + n - 1 : Entry(bits, e) = {}, NEW b \in a * W .. a * W + n * W - 1
      PROVE  b \notin bits
  <2> DEFINE e == b \div W
             k == b % W
  <2>1. b \in Nat BY <1>0
  <2>2. e \in Nat /\ k \in 0 .. W - 1 /\ b = W * e + k BY <1>0, <2>1, DivMod
  <2>3. a =< e /\ ~ a + n =< e
    <3>1. a * W =< b /\ ~ (a + n) * W =< b BY <1>0, <1>1
    <3>2. a =< e <=> a * W =< b BY <2>1, WordOf
    <3>3. a + n =< e <=> (a + n) * W =< b BY <2>1, WordOf, a + n \in Nat
    <3> QED BY <3>1, <3>2, <3>3
  <2> HIDE DEF e, k
  <2>4. Entry(bits, e) = {} BY <1>1, <2>2, <2>3
  <2>5. e * W + k = b BY <1>0, <2>2
  <2> QED BY <2>2, <2>4, <2>5, WordBits
<1>2. ASSUME Clear(bits, a * W, n * W), NEW e \in a .. a + n - 1, NEW j \in 0 .. W - 1
      PROVE  e * W + j \notin bits
  <2>1. W * a =< W * e /\ W * (e + 1) =< W * (a + n) BY <1>0, MulMono
  <2>2. W * (e + 1) = e * W + W /\ W * a = a * W /\ W * e = e * W /\ e * W \in Nat /\ W * (a + n) = a * W + n * W
    BY <1>0
  <2>3. e * W + j \in a * W .. a * W + n * W - 1 BY <1>0, <2>1, <2>2
  <2> QED BY <1>2, <2>3 DEF Clear
<1>3. ASSUME NEW e, \A j \in 0 .. W - 1 : e * W + j \notin bits PROVE Entry(bits, e) = {}
  BY <1>3, WordBits
<1> QED BY <1>1, <1>2, <1>3 DEF Clear

\* can_continue tells whether a run from the start of a word on is clear,
\* unless the run ends more than a word behind the array.
LEMMA CanContinueMeans ==
  ASSUME NEW bits, NEW from \in Nat, NEW c \in Nat \ {0}
  PROVE  CanContinue(bits, from, c) <=> /\ from + ((c - 1) \div bits_per_entry) =< size
                                        /\ Clear(bits, from * bits_per_entry, c)
<1> DEFINE W == bits_per_entry
           whole == (c - 1) \div W
           rest == c - whole * W
<1>0. W \in Nat \ {0} BY Constants
<1>1. /\ whole \in Nat /\ whole * W \in Nat /\ rest \in 1 .. W /\ rest \in Nat \ {0} /\ from + whole \in Nat
      /\ c = whole * W + rest
  <2>1. c - 1 \in Nat OBVIOUS
  <2>2. whole \in Nat /\ (c - 1) % W \in 0 .. W - 1 /\ c - 1 = W * whole + ((c - 1) % W) BY <1>0, <2>1, DivMod
  <2> HIDE DEF whole
  <2>3. W * whole = whole * W /\ whole * W \in Nat BY <1>0, <2>2
  <2> QED BY <1>0, <2>2, <2>3
<1>2. CanContinue(bits, from, c) <=>
        /\ from + whole =< size
        /\ \A e \in from .. from + whole - 1 : Entry(bits, e) = {}
        /\ leading_0s(Entry(bits, from + whole)) >= rest
  BY DEF CanContinue
<1> HIDE DEF whole, rest
<1>3. leading_0s(Entry(bits, from + whole)) >= rest <=> Clear(bits, (from + whole) * W, rest)
  <2>1. Entry(bits, from + whole) = ShiftLeft(Entry(bits, from + whole), 0)
    BY <1>0, WordBits DEF ShiftLeft
  <2>2. (from + whole) * W \in Nat BY <1>0, <1>1
  <2>3. (from + whole) * W + 0 = (from + whole) * W BY <2>2
  <2>4. rest =< leading_0s(Entry(bits, from + whole)) <=> Clear(bits, (from + whole) * W, rest)
    BY <1>1, <2>1, <2>3, ShiftedRun, 0 + rest =< W
  <2>5. leading_0s(Entry(bits, from + whole)) \in Nat BY <1>0, WordBits, Leading
  <2> QED BY <1>1, <2>4, <2>5
<1>4. (\A e \in from .. from + whole - 1 : Entry(bits, e) = {}) <=> Clear(bits, from * W, whole * W)
  BY <1>1, ClearWords
<1>5. (from + whole) * W = from * W + whole * W /\ from * W \in Nat BY <1>0, <1>1
<1>6. Clear(bits, from * W, c) <=> Clear(bits, from * W, whole * W) /\ Clear(bits, (from + whole) * W, rest)
  BY <1>1, <1>5, ClearSplit
<1> QED BY <1>2, <1>3, <1>4, <1>6 DEF whole

\* The results within a word are clear runs, and none begins earlier.
LEMMA FoundInMeans ==
  ASSUME NEW bits, Nelems - 1 \in bits,
         NEW start \in Nat, NEW count \in Nat \ {0}, NEW ei \in start \div bits_per_entry .. size - 1
  PROVE  LET first == IF ei = start \div bits_per_entry THEN start ELSE ei * bits_per_entry
             here  == {n \in first .. ei * bits_per_entry + bits_per_entry - 1 : Clear(bits, n, count)}
         IN  /\ FoundIn(bits, start, count, ei) \subseteq here
             /\ \A n \in here : \E m \in FoundIn(bits, start, count, ei) : m =< n
<1> DEFINE W == bits_per_entry
           a == ei * W
           off == IF ei = start \div W THEN start % W ELSE 0
           first == IF ei = start \div W THEN start ELSE ei * W
           here == {n \in first .. a + W - 1 : Clear(bits, n, count)}
           entry == Entry(bits, ei)
           inside == {s \in off .. W - count : count =< leading_0s(ShiftLeft(entry, s))}
           trails == Min2(trailing_0s(entry), W - off)
           found == FoundIn(bits, start, count, ei)
<1>0. /\ W \in Nat \ {0} /\ size \in Nat \ {0} /\ Nelems \in Nat \ {0} /\ Nelems = W * size
      /\ start \div W \in Nat /\ ei \in Nat /\ ei < size
  <2>1. W \in Nat \ {0} /\ size \in Nat \ {0} /\ Nelems \in Nat \ {0} /\ Nelems = W * size BY Constants
  <2>2. start \div W \in Nat BY <2>1, DivMod
  <2> QED BY <2>1, <2>2
<1>1. a \in Nat /\ off \in 0 .. W - 1 /\ first = a + off
  <2>1. start % W \in 0 .. W - 1 /\ start = W * (start \div W) + (start % W) BY <1>0, DivMod
  <2> QED BY <1>0, <2>1
<1>2. /\ inside # {} => found = {a + s : s \in inside}
      /\ inside = {} => found = {n \in {a + W - trails} :
                                   trails > 0 /\ ei + 1 < size /\ CanContinue(bits, ei + 1, count - trails)}
  BY Zenon DEF FoundIn
<1>3. \A s \in off .. W - count : s \in inside <=> Clear(bits, a + s, count)
  BY <1>0, <1>1, ShiftedRun
<1>4. inside \subseteq off .. W - count OBVIOUS
<1>5. trailing_0s(entry) \in 0 .. W BY WordBits, Leading, Trailing
<1>6. trails \in 0 .. W - off BY <1>0, <1>1, <1>5 DEF Min2
\* The clear bits that the word ends with, from off on.
<1>7. \A c \in 0 .. W - off : c =< trails <=> Clear(bits, a + W - c, c)
  <2> SUFFICES ASSUME NEW c \in 0 .. W - off PROVE c =< trails <=> Clear(bits, a + W - c, c) OBVIOUS
  <2>1. c =< trails <=> c =< trailing_0s(entry) BY <1>0, <1>1, <1>5 DEF Min2
  <2>2. c =< trailing_0s(entry) <=> \A j \in W - c .. W - 1 : j \notin entry
    BY <1>0, <1>1, WordBits, Trailing, c \in 0 .. W
  <2>3. \A j \in W - c .. W - 1 : j \in entry <=> a + j \in bits
    BY <1>0, <1>1, WordBits, \A j \in W - c .. W - 1 : j \in 0 .. W - 1
  <2>4. \A b \in a + W - c .. a + W - c + c - 1 : b - a \in W - c .. W - 1 /\ b = a + (b - a) BY <1>0, <1>1
  <2>5. \A j \in W - c .. W - 1 : a + j \in a + W - c .. a + W - c + c - 1 BY <1>0, <1>1
  <2> HIDE DEF a, entry, trails, off
  <2> QED BY <2>1, <2>2, <2>3, <2>4, <2>5 DEF Clear
<1> HIDE DEF a, off, first, entry, inside, trails, found
<1>8. CASE inside # {}
  <2>1. found \subseteq here BY <1>0, <1>1, <1>2, <1>3, <1>4, <1>8
  <2>2. ASSUME NEW n \in here PROVE \E m \in found : m =< n
    <3>1. n - a \in off .. W - 1 /\ Clear(bits, n, count) /\ n = a + (n - a) BY <1>0, <1>1
    <3>2. CASE n - a =< W - count
      <4>1. n - a \in inside BY <1>0, <1>1, <1>3, <3>1, <3>2
      <4> QED BY <1>2, <1>8, <3>1, <4>1
    <3>3. CASE n - a > W - count
      <4>1. PICK s \in inside : TRUE BY <1>8
      <4>2. a + s \in found /\ a + s =< n BY <1>0, <1>1, <1>2, <1>4, <1>8, <3>1, <3>3
      <4> QED BY <4>2
    <3> QED BY <1>0, <1>1, <3>1, <3>2, <3>3
  <2> QED BY <2>1, <2>2 DEF found, first, a
<1>9. CASE inside = {}
  \* A run here ends in a later word, so that the bits from it to the word's end
  \* are among those the word ends with.
  <2>1. ASSUME NEW n \in here
        PROVE  /\ W - (n - a) \in 1 .. trails /\ count > W - (n - a) /\ ei + 1 < size
               /\ n = a + W - (W - (n - a)) /\ Clear(bits, n, count)
    <3>1. n - a \in off .. W - 1 /\ Clear(bits, n, count) /\ n = a + (n - a) BY <1>0, <1>1
    <3>2. n - a > W - count
      <4>1. SUFFICES ASSUME n - a =< W - count PROVE FALSE BY <1>0, <1>1, <3>1
      <4>2. n - a \in off .. W - count BY <1>0, <1>1, <3>1, <4>1
      <4> QED BY <1>3, <1>9, <3>1, <4>2
    <3> DEFINE t == W - (n - a)
    <3>3. t \in 1 .. W - off /\ count - t \in Nat /\ count = t + (count - t) /\ count > t /\ n = a + W - t /\ n \in Nat
      BY <1>0, <1>1, <3>1, <3>2
    <3> HIDE DEF t
    <3>4. Clear(bits, n, t)
      <4>1. Clear(bits, n, t + (count - t)) BY <3>1, <3>3
      <4> QED BY <3>3, <4>1, ClearSplit, t \in Nat
    <3>5. t =< trails BY <1>1, <1>0, <1>7, <3>3, <3>4
    <3>6. ei + 1 < size
      <4>1. SUFFICES ASSUME ei + 1 = size PROVE FALSE BY <1>0
      <4>2. a + W = Nelems BY <1>0, <4>1, W * (ei + 1) = ei * W + W DEF a
      <4>3. Nelems - 1 \in n .. n + count - 1 BY <1>0, <1>1, <3>1, <3>2, <4>2
      <4> QED BY <3>1, <4>3 DEF Clear
    <3> QED BY <1>6, <1>0, <1>1, <3>1, <3>3, <3>5, <3>6 DEF t
  <2>2. ASSUME trails > 0, ei + 1 < size, count > trails
        PROVE  CanContinue(bits, ei + 1, count - trails) <=> Clear(bits, a + W - trails, count)
    <3>1. (ei + 1) * W = a + W BY <1>0 DEF a
    <3>2. count - trails \in Nat \ {0} /\ a + W - trails \in Nat /\ trails \in Nat
          /\ count = trails + (count - trails) /\ a + W - trails + trails = a + W
      BY <1>0, <1>1, <1>6, <2>2
    <3>3. Clear(bits, a + W - trails, trails) BY <1>6, <1>7, <1>0, <1>1
    <3>4. Clear(bits, a + W - trails, count) <=> Clear(bits, a + W, count - trails)
      BY <3>2, <3>3, ClearSplit
    <3>5. CanContinue(bits, ei + 1, count - trails) <=>
            /\ (ei + 1) + ((count - trails - 1) \div W) =< size
            /\ Clear(bits, a + W, count - trails)
      BY <1>0, <3>1, <3>2, CanContinueMeans
    \* A clear run does not reach the last bit, which is set.
    <3>6. ASSUME Clear(bits, a + W, count - trails) PROVE (ei + 1) + ((count - trails - 1) \div W) =< size
      <4> DEFINE c == count - trails - 1
                 q == c \div W
      <4>1. c \in Nat BY <3>2
      <4>2. q \in Nat /\ c % W \in 0 .. W - 1 /\ c = W * q + (c % W) BY <1>0, <4>1, DivMod
      <4>3. a + W + c < Nelems - 1 \/ a + W > Nelems - 1 BY <1>0, <1>1, <3>2, <3>6 DEF Clear
      <4>4. a + W =< Nelems - 1
        <5>1. W * (ei + 2) =< W * size BY <1>0, <2>2, MulMono
        <5>2. W * (ei + 2) = a + W + W BY <1>0 DEF a
        <5> QED BY <1>0, <1>1, <5>1, <5>2
      <4>5. a + W + W * q < W * size
        BY <1>0, <1>1, <4>1, <4>2, <4>3, <4>4
      <4>6. W * ((ei + 1) + q) = a + W + W * q BY <1>0, <4>2 DEF a
      <4>7. SUFFICES ASSUME size =< (ei + 1) + q PROVE FALSE BY <1>0, <4>2
      <4> HIDE DEF q
      <4>8. W * size =< W * ((ei + 1) + q) BY <1>0, <4>2, <4>7, MulMono
      <4> QED BY <1>0, <4>2, <4>5, <4>6, <4>8
    <3> QED BY <3>4, <3>5, <3>6
  <2>3. ASSUME trails > 0 PROVE count > trails
    <3>1. SUFFICES ASSUME count =< trails PROVE FALSE BY <1>0, <1>1, <1>6
    <3>2. Clear(bits, a + W - count, count) BY <1>0, <1>1, <1>6, <1>7, <3>1
    <3>3. W - count \in off .. W - count /\ a + W - count = a + (W - count) BY <1>0, <1>1, <1>6, <3>1
    <3> QED BY <1>3, <1>9, <3>2, <3>3
  <2>4. \A m : m \in found <=> /\ m = a + W - trails /\ trails > 0 /\ ei + 1 < size
                               /\ Clear(bits, a + W - trails, count)
    BY <1>2, <1>9, <2>2, <2>3
  <2>5. found \subseteq here BY <1>0, <1>1, <1>6, <2>4
  <2>6. ASSUME NEW n \in here PROVE \E m \in found : m =< n
    <3> DEFINE t == W - (n - a)
    <3>1. t \in 1 .. trails /\ count > t /\ ei + 1 < size /\ n = a + W - t /\ Clear(bits, n, count) BY <2>1
    <3> HIDE DEF t
    <3>2. count > trails /\ trails > 0 BY <1>6, <1>0, <1>1, <2>3, <3>1
    <3>3. Clear(bits, a + W - trails, trails) BY <1>6, <1>7, <1>0, <1>1
    <3>4. Clear(bits, a + W - trails, count)
      <4>1. ASSUME NEW b \in a + W - trails .. a + W - trails + count - 1
            PROVE  b \in a + W - trails .. a + W - trails + trails - 1 \/ b \in n .. n + count - 1
        BY <1>0, <1>1, <1>6, <3>1, <3>2
      <4> QED BY <3>1, <3>3, <4>1 DEF Clear
    <3> QED BY <1>0, <1>1, <1>6, <2>4, <3>1, <3>2, <3>4
  <2> QED BY <2>5, <2>6 DEF found, first, a
<1> QED BY <1>8, <1>9

\* The search returns the first clear run from any bit on, whatever the words
\* behind the array hold.
THEOREM SearchIsFirstFit ==
  ASSUME NEW bits, Nelems - 1 \in bits, NEW start \in Nat, NEW count \in Nat \ {0}
  PROVE  LET fits == {n \in start .. Nelems - count : Clear(bits, n, count)}
         IN  find_contiguous(bits, start, count) = {n \in fits : \A m \in fits : n =< m}
<1> DEFINE W == bits_per_entry
           q == start \div W
           Found(ei) == FoundIn(bits, start, count, ei)
           words == {ei \in q .. size - 1 : Found(ei) # {}}
           fits == {n \in start .. Nelems - count : Clear(bits, n, count)}
           First(ei) == IF ei = q THEN start ELSE ei * W
           Here(ei) == {n \in First(ei) .. ei * W + W - 1 : Clear(bits, n, count)}
<1>0. W \in Nat \ {0} /\ size \in Nat \ {0} /\ Nelems \in Nat \ {0} /\ Nelems = W * size BY Constants
<1>1. q \in Nat /\ q * W =< start /\ start < q * W + W BY WordOf
<1>2. ASSUME NEW ei \in q .. size - 1
      PROVE  Found(ei) \subseteq Here(ei) /\ \A n \in Here(ei) : \E m \in Found(ei) : m =< n
  BY FoundInMeans
<1> HIDE DEF q, Found
<1>3. ASSUME NEW ei \in q .. size - 1
      PROVE  /\ ei \in Nat /\ ei * W \in Nat /\ First(ei) \in Nat /\ start =< First(ei) /\ ei * W =< First(ei)
             /\ Here(ei) \subseteq fits
  <2>1. ei \in Nat /\ ei * W \in Nat BY <1>0, <1>1
  <2>2. ei # q => start < ei * W
    <3>1. SUFFICES ASSUME q + 1 =< ei PROVE start < ei * W BY <1>1, <2>1
    <3>2. W * (q + 1) =< W * ei BY <1>0, <1>1, <2>1, <3>1, MulMono
    <3>3. W * (q + 1) = q * W + W /\ W * ei = ei * W /\ q * W \in Nat BY <1>0, <1>1, <2>1
    <3> QED BY <1>0, <2>1, <1>1, <3>2, <3>3
  <2>3. First(ei) \in Nat /\ start =< First(ei) /\ ei * W =< First(ei) BY <1>1, <2>1, <2>2
  <2>4. ei * W + W =< Nelems
    <3>1. W * (ei + 1) =< W * size BY <1>0, <2>1, MulMono
    <3> QED BY <1>0, <2>1, <3>1, W * (ei + 1) = ei * W + W
  <2>5. ASSUME NEW n \in Here(ei) PROVE n \in fits
    <3>1. n \in Nat /\ start =< n /\ n =< Nelems - 1 /\ Clear(bits, n, count) BY <1>0, <2>1, <2>3, <2>4
    <3>2. ~ Nelems - 1 \in n .. n + count - 1 BY <3>1 DEF Clear
    <3>3. n =< Nelems - count BY <1>0, <3>1, <3>2
    <3> QED BY <3>1, <3>3
  <2> QED BY <2>1, <2>3, <2>5
<1>4. ASSUME NEW n \in fits
      PROVE  \E ei \in q .. size - 1 : n \in Here(ei)
  <2> DEFINE ei == n \div W
  <2>1. n \in Nat /\ n < Nelems BY <1>0
  <2>2. ei \in Nat /\ ei * W =< n /\ n < ei * W + W BY <2>1, WordOf
  <2>3. q =< ei
    <3>1. q * W =< n BY <1>1, <1>0
    <3> QED BY <1>1, <2>1, <3>1, WordOf
  <2>4. ~ size =< ei
    <3>1. size * W = Nelems BY <1>0
    <3>2. ~ size * W =< n BY <1>0, <2>1, <3>1
    <3> QED BY <1>0, <2>1, <3>2, WordOf
  <2> HIDE DEF ei
  <2>5. ei \in q .. size - 1 BY <1>0, <1>1, <2>2, <2>3, <2>4
  <2>6. First(ei) =< n /\ First(ei) \in Nat BY <2>1, <2>2, <1>3, <2>5
  <2>7. n \in First(ei) .. ei * W + W - 1 /\ Clear(bits, n, count) BY <1>0, <2>1, <2>2, <2>6
  <2> QED BY <2>5, <2>7
<1>5. find_contiguous(bits, start, count) =
        IF words = {} THEN {}
        ELSE {CHOOSE n \in Found(CHOOSE ei \in words : \A e \in words : ei =< e) :
                \A m \in Found(CHOOSE ei \in words : \A e \in words : ei =< e) : n =< m}
  BY DEF find_contiguous, Found, q
<1>6. CASE words = {}
  <2>1. fits = {} BY <1>2, <1>4, <1>6
  <2> QED BY <1>5, <1>6, <2>1
<1>7. CASE words # {}
  <2> DEFINE first == CHOOSE ei \in words : \A e \in words : ei =< e
             x == CHOOSE n \in Found(first) : \A m \in Found(first) : n =< m
  <2>1. first \in words /\ \A e \in words : first =< e
    <3>1. words \subseteq Nat BY <1>1
    <3> HIDE DEF words
    <3>2. \E ei \in words : \A e \in words : ei =< e BY <1>7, <3>1, Least
    <3> QED BY <3>2
  <2>2. find_contiguous(bits, start, count) = {x} BY <1>5, <1>7
  <2> HIDE DEF first
  <2>3. first \in q .. size - 1 /\ Found(first) # {} BY <2>1
  <2>4. x \in Found(first) /\ \A m \in Found(first) : x =< m
    <3>1. Found(first) \subseteq Nat BY <1>2, <1>3, <2>3
    <3>2. \E n \in Found(first) : \A m \in Found(first) : n =< m BY <2>3, <3>1, Least
    <3> QED BY <3>2
  <2> HIDE DEF x
  <2>5. x \in fits /\ x < first * W + W
    <3>1. x \in Here(first) /\ Here(first) \subseteq fits /\ first * W \in Nat /\ First(first) \in Nat
      BY <1>2, <1>3, <2>3, <2>4
    <3> HIDE DEF fits
    <3> QED BY <3>1, <1>0
  <2>6. ASSUME NEW m \in fits PROVE x =< m
    <3>1. PICK ei \in q .. size - 1 : m \in Here(ei) BY <1>4
    <3>2. PICK y \in Found(ei) : y =< m BY <1>2, <3>1
    <3>3. first =< ei BY <2>1, <3>1, <3>2
    <3>4. CASE ei = first
      <4>1. x =< y BY <2>4, <3>2, <3>4
      <4>2. y \in Nat BY <1>2, <1>3, <3>2
      <4> QED BY <2>5, <3>2, <4>1, <4>2
    <3>5. CASE ei # first
      <4>1. W * (first + 1) =< W * ei BY <1>0, <1>1, <2>3, <3>3, <3>5, MulMono
      <4>2. W * (first + 1) = first * W + W /\ W * ei = ei * W BY <1>0, <1>1, <2>3, <3>1
      <4>3. ei * W =< m BY <1>3, <3>1
      <4> QED BY <2>5, <1>0, <1>1, <1>3, <2>3, <4>1, <4>2, <4>3
    <3> QED BY <3>4, <3>5
  <2>7. {x} = {n \in fits : \A m \in fits : n =< m} BY <2>5, <2>6
  <2> QED BY <2>2, <2>7
<1> QED BY <1>6, <1>7

-----------------------------------------------------------------------------
\* Rounding up, by multiplication.
LEMMA DivCeil ==
  ASSUME NEW x \in Nat, NEW y \in Nat \ {0}, NEW k \in Nat
  PROVE  div_ceil(x, y) \in Nat /\ (k * y < x <=> k < div_ceil(x, y))
<1> DEFINE d == x \div y
           r == x % y
<1>1. d \in Nat /\ r \in 0 .. y - 1 /\ x = y * d + r BY DivMod
<1>2. div_ceil(x, y) = d + (IF r = 0 THEN 0 ELSE 1) BY DEF div_ceil
<1> HIDE DEF d, r
<1>3. ASSUME k < d PROVE k * y < x
  <2>1. y * (k + 1) =< y * d BY <1>1, <1>3, MulMono
  <2>2. y * (k + 1) = k * y + y /\ k * y \in Nat OBVIOUS
  <2> QED BY <1>1, <2>1, <2>2
<1>4. ASSUME k > d PROVE ~ k * y < x
  <2>1. y * (d + 1) =< y * k BY <1>1, <1>4, MulMono
  <2>2. y * (d + 1) = y * d + y /\ y * k = k * y /\ y * d \in Nat BY <1>1
  <2> QED BY <1>1, <2>1, <2>2
<1>5. k = d => k * y = y * d /\ y * d \in Nat BY <1>1
<1> QED BY <1>1, <1>2, <1>3, <1>4, <1>5

\* The entries of memory maps.
Entries == [addr : Nat, len : Nat, available : BOOLEAN]

\* A page of memory lies in a region exactly when both its ends do.
LEMMA PageIn ==
  ASSUME NEW page \in Nat, NEW a \in Nat, NEW n \in Nat
  PROVE  /\ page * page_size \in Nat
         /\ (page + 1) * page_size = page * page_size + page_size
         /\ Bytes(page) \subseteq a .. a + n - 1 <=> a =< page * page_size /\ page * page_size + page_size =< a + n
<1>1. page * page_size \in Nat /\ (page + 1) * page_size = page * page_size + page_size /\ page_size \in Nat \ {0}
  BY Constants
<1>2. Bytes(page) = page * page_size .. page * page_size + page_size - 1 BY <1>1 DEF Bytes
<1>3. page * page_size \in Bytes(page) /\ page * page_size + page_size - 1 \in Bytes(page) BY <1>1, <1>2
<1>4. ASSUME Bytes(page) \subseteq a .. a + n - 1
      PROVE  a =< page * page_size /\ page * page_size + page_size =< a + n
  BY <1>1, <1>3, <1>4
<1>5. ASSUME a =< page * page_size, page * page_size + page_size =< a + n
      PROVE  Bytes(page) \subseteq a .. a + n - 1
  BY <1>1, <1>2, <1>5
<1> QED BY <1>1, <1>4, <1>5

\* The pages of an available region.
Freed(entry) == {page \in Bits : entry.available /\ Bytes(page) \subseteq Extent(entry)}

\* init clears exactly the pages of an available region, however its ends lie.
LEMMA RegionPages ==
  ASSUME NEW entry \in Entries
  PROVE  /\ Region(entry).addr \div page_size \in Nat
         /\ Usable(entry) \div page_size \in Nat
         /\ Region(entry).addr \div page_size .. (Region(entry).addr \div page_size) + (Usable(entry) \div page_size) - 1
              = Freed(entry)
<1> DEFINE ps == page_size
           A == div_ceil(entry.addr, ps)
           lost == A * ps - entry.addr
           len == IF lost >= entry.len THEN 0 ELSE entry.len - lost
           l == len \div ps
           u == Usable(entry)
<1>0. /\ ps \in Nat \ {0} /\ Nelems \in Nat \ {0} /\ entry.addr \in Nat /\ entry.len \in Nat
      /\ entry.available \in BOOLEAN
  BY Constants DEF Entries
<1>1. A \in Nat /\ A * ps \in Nat /\ \A k \in Nat : k * ps < entry.addr <=> k < A BY <1>0, DivCeil
<1>2. entry.addr =< A * ps BY <1>0, <1>1
<1>3. lost \in Nat /\ len \in Nat BY <1>0, <1>1, <1>2
<1>4. Region(entry) = [addr |-> A * ps, len |-> len - (len % ps)] BY DEF Region
<1> HIDE DEF A, lost
<1>5. l \in Nat /\ l * ps \in Nat /\ len - (len % ps) = l * ps
  <2>1. l \in Nat /\ len % ps \in 0 .. ps - 1 /\ len = ps * l + (len % ps) BY <1>0, <1>3, DivMod
  <2> HIDE DEF l
  <2> QED BY <1>0, <1>3, <2>1
<1>6. \A e \in Nat : e =< l <=> e * ps =< len BY <1>0, <1>3, Quotient
<1> HIDE DEF l
<1>7. u = IF ~ entry.available \/ A * ps > Nelems * ps - 1 THEN 0
          ELSE IF A * ps + l * ps =< Nelems * ps - 1 THEN l * ps
          ELSE Nelems * ps - 1 - A * ps + 1
  BY <1>4, <1>5 DEF Usable, max_address
<1> HIDE DEF u
<1>8. \A x, y \in Nat : x =< y <=> x * ps =< y * ps
  <2>1. \A x, y \in Nat : x =< y => x * ps =< y * ps BY <1>0
  <2>2. \A x, y \in Nat : ~ x =< y => y * ps + ps =< x * ps
    <3>1. SUFFICES ASSUME NEW x \in Nat, NEW y \in Nat, y + 1 =< x PROVE y * ps + ps =< x * ps OBVIOUS
    <3>2. ps * (y + 1) =< ps * x BY <1>0, <3>1, MulMono
    <3> QED BY <1>0, <3>2, ps * (y + 1) = y * ps + ps
  <2>3. \A x \in Nat : x * ps \in Nat BY <1>0
  <2> QED BY <1>0, <2>1, <2>2, <2>3
<1>9. A * ps > Nelems * ps - 1 <=> Nelems =< A
  BY <1>0, <1>1, <1>8, Nelems * ps \in Nat
<1>10. A * ps + l * ps =< Nelems * ps - 1 <=> A + l < Nelems
  <2>0. A + l \in Nat BY <1>1, <1>5
  <2>1. Nelems =< A + l <=> Nelems * ps =< (A + l) * ps BY <1>0, <1>8, <2>0
  <2> DEFINE x == A * ps
             y == l * ps
             z == Nelems * ps
  <2>2. (A + l) * ps = x + y /\ z \in Nat /\ x \in Nat /\ y \in Nat BY <1>0, <1>1, <1>5
  <2>3. Nelems =< A + l <=> z =< x + y BY <2>1, <2>2
  <2> HIDE DEF x, y, z
  <2>4. x + y =< z - 1 <=> A + l < Nelems BY <1>0, <2>0, <2>2, <2>3
  <2> QED BY <2>4 DEF x, y, z
<1>11. Nelems * ps - 1 - A * ps + 1 = (Nelems - A) * ps BY <1>0, <1>1
<1> DEFINE v == u \div ps
<1>12. v = IF ~ entry.available \/ Nelems =< A THEN 0
                   ELSE IF A + l < Nelems THEN l ELSE Nelems - A
  <2>1. \A k \in Nat : (k * ps) \div ps = k
    <3>1. \A k \in Nat : (ps * k + 0) \div ps = k BY <1>0, DivUnique, 0 \in 0 .. ps - 1
    <3>2. \A k \in Nat : ps * k + 0 = k * ps BY <1>0
    <3> QED BY <3>1, <3>2
  <2>2. 0 \div ps = 0 BY <1>0
  <2>3. CASE ~ entry.available \/ Nelems =< A BY <1>7, <1>9, <2>2, <2>3
  <2>4. CASE entry.available /\ ~ Nelems =< A /\ A + l < Nelems
    BY <1>5, <1>7, <1>9, <1>10, <2>1, <2>4
  <2>5. CASE entry.available /\ ~ Nelems =< A /\ ~ A + l < Nelems
    BY <1>0, <1>1, <1>7, <1>9, <1>10, <1>11, <2>1, <2>5, Nelems - A \in Nat
  <2> QED BY <2>3, <2>4, <2>5
<1> HIDE DEF v
<1>13. (A * ps) \div ps = A
  <2>1. (ps * A + 0) \div ps = A BY <1>0, <1>1, DivUnique, 0 \in 0 .. ps - 1
  <2> QED BY <1>0, <1>1, <2>1, ps * A + 0 = A * ps
<1>14. ASSUME NEW page \in Nat
       PROVE  Bytes(page) \subseteq Extent(entry) <=> A =< page /\ page < A + l
  <2>1. /\ page * ps \in Nat
        /\ Bytes(page) \subseteq Extent(entry) <=> /\ entry.addr =< page * ps
                                                   /\ page * ps + ps =< entry.addr + entry.len
    BY <1>0, PageIn DEF Extent
  <2>2. entry.addr =< page * ps <=> A =< page BY <1>0, <1>1, <2>1
  <2>3. ASSUME A =< page PROVE page * ps + ps =< entry.addr + entry.len <=> page < A + l
    <3> DEFINE e == page + 1 - A
    <3>1. e \in Nat \ {0} /\ e * ps \in Nat \ {0} /\ e * ps = page * ps + ps - A * ps BY <1>0, <1>1, <2>1, <2>3
    <3> HIDE DEF e
    <3>2. page * ps + ps =< entry.addr + entry.len <=> e * ps =< entry.len - lost
      BY <1>0, <1>1, <2>1, <3>1 DEF lost
    <3>3. e * ps =< entry.len - lost <=> e * ps =< len BY <1>0, <1>3, <3>1
    <3>4. e * ps =< len <=> e =< l BY <1>6, <3>1
    <3> QED BY <1>1, <1>5, <3>2, <3>3, <3>4 DEF e
  <2> QED BY <2>1, <2>2, <2>3
<1>15. Region(entry).addr \div ps = A BY <1>4, <1>13
<1>16. A .. A + v - 1 = Freed(entry)
  <2>0. A \in Nat /\ l \in Nat /\ Nelems \in Nat BY <1>0, <1>1, <1>5
  <2>1. ASSUME NEW page PROVE page \in Freed(entry) <=> page \in A .. A + v - 1
    <3>1. page \in Freed(entry) <=> page \in 0 .. Nelems - 1 /\ entry.available /\ A =< page /\ page < A + l
      BY <1>14, <1>0 DEF Freed, Bits
    <3>2. CASE ~ entry.available \/ Nelems =< A BY <1>0, <1>1, <1>12, <3>1, <3>2
    <3>3. CASE entry.available /\ ~ Nelems =< A /\ A + l < Nelems
      <4>1. v = l BY <1>12, <3>3, Zenon
      <4>2. page \in Freed(entry) <=> page \in A .. A + l - 1 BY <2>0, <3>1, <3>3
      <4> QED BY <4>1, <4>2
    <3>4. CASE entry.available /\ ~ Nelems =< A /\ ~ A + l < Nelems
      <4>1. v = Nelems - A BY <1>12, <3>4, Zenon
      <4>2. page \in Freed(entry) <=> page \in A .. A + (Nelems - A) - 1 BY <2>0, <3>1, <3>4
      <4> QED BY <4>1, <4>2
    <3> QED BY <3>2, <3>3, <3>4
  <2> QED BY <2>1
<1>17. v \in Nat BY <1>0, <1>1, <1>5, <1>12
<1> QED BY <1>1, <1>15, <1>16, <1>17 DEF u, v

-----------------------------------------------------------------------------
\* What set_range does to set and counter.
LEMMA SetRange ==
  ASSUME NEW b, NEW i \in Nat, NEW count \in Nat
  PROVE  /\ set_range(b, i, count, TRUE).bits = b.bits \cup (i .. i + count - 1)
         /\ set_range(b, i, count, TRUE).available = b.available - count
BY TouchedIsRun DEF set_range

\* The same for clearing.
LEMMA ClearRange ==
  ASSUME NEW b, NEW i \in Nat, NEW count \in Nat
  PROVE  /\ set_range(b, i, count, FALSE).bits = b.bits \ (i .. i + count - 1)
         /\ set_range(b, i, count, FALSE).available = b.available + count
BY TouchedIsRun DEF set_range

\* The counter of a bitmap is right.
Counted(b) == b.available = Nelems - Cardinality(b.bits)

\* The size of a run.
LEMMA RunSize ==
  ASSUME NEW i \in Nat, NEW count \in Nat
  PROVE  IsFiniteSet(i .. i + count - 1) /\ Cardinality(i .. i + count - 1) = count
<1>1. i + count - 1 \in Int /\ i \in Int OBVIOUS
<1> QED BY <1>1, FS_Interval

\* The size of a union of sets that are apart.
LEMMA UnionSize ==
  ASSUME NEW S, IsFiniteSet(S), NEW T, IsFiniteSet(T), S \cap T = {}
  PROVE  Cardinality(S \cup T) = Cardinality(S) + Cardinality(T)
<1>1. Cardinality(S \cup T) = Cardinality(S) + Cardinality(T) - Cardinality(S \cap T) BY FS_Union
<1>2. Cardinality(S \cap T) = 0 BY FS_EmptySet
<1>3. Cardinality(S) \in Nat /\ Cardinality(T) \in Nat BY FS_CardinalityType
<1> QED BY <1>1, <1>2, <1>3

\* Setting clear bits keeps the counter right.
LEMMA SetCounts ==
  ASSUME NEW b, b.bits \subseteq Bits, Counted(b), NEW i \in Nat, NEW count \in Nat,
         i .. i + count - 1 \subseteq Bits \ b.bits
  PROVE  Counted(set_range(b, i, count, TRUE))
<1> DEFINE run == i .. i + count - 1
<1>1. IsFiniteSet(run) /\ Cardinality(run) = count BY RunSize
<1>2. IsFiniteSet(Bits) BY FS_Interval, Constants DEF Bits
<1>3. IsFiniteSet(b.bits) /\ Cardinality(b.bits) \in Nat BY <1>2, FS_Subset, FS_CardinalityType
<1>4. b.bits \cap run = {} OBVIOUS
<1> HIDE DEF run
<1>5. Cardinality(b.bits \cup run) = Cardinality(b.bits) + count BY <1>1, <1>3, <1>4, UnionSize
<1>6. set_range(b, i, count, TRUE).bits = b.bits \cup run
  <2>1. run = i .. i + count - 1 BY DEF run
  <2>2. set_range(b, i, count, TRUE).bits = b.bits \cup (i .. i + count - 1) BY TouchedIsRun DEF set_range
  <2> QED BY <2>1, <2>2, Zenon
<1>7. set_range(b, i, count, TRUE).available = b.available - count BY SetRange, Zenon
<1>8. b.available = Nelems - Cardinality(b.bits) BY DEF Counted
<1>9. Nelems \in Nat BY Constants
<1>10. b.available - count = Nelems - (Cardinality(b.bits) + count) BY <1>3, <1>8, <1>9
<1> QED BY <1>5, <1>6, <1>7, <1>10, Zenon DEF Counted

\* Clearing set bits keeps the counter right.
LEMMA ClearCounts ==
  ASSUME NEW b, b.bits \subseteq Bits, Counted(b), NEW i \in Nat, NEW count \in Nat,
         i .. i + count - 1 \subseteq b.bits
  PROVE  Counted(set_range(b, i, count, FALSE))
<1> DEFINE run == i .. i + count - 1
<1>1. IsFiniteSet(run) /\ Cardinality(run) = count BY RunSize
<1>2. IsFiniteSet(Bits) BY FS_Interval, Constants DEF Bits
<1>3. IsFiniteSet(b.bits) /\ Cardinality(b.bits) \in Nat BY <1>2, FS_Subset, FS_CardinalityType
<1>4. b.bits \cap run = run OBVIOUS
<1> HIDE DEF run
<1>5. Cardinality(b.bits \ run) = Cardinality(b.bits) - count BY <1>1, <1>3, <1>4, FS_Difference
<1>6. set_range(b, i, count, FALSE).bits = b.bits \ run
  <2>1. run = i .. i + count - 1 BY DEF run
  <2>2. set_range(b, i, count, FALSE).bits = b.bits \ (i .. i + count - 1) BY TouchedIsRun DEF set_range
  <2> QED BY <2>1, <2>2, Zenon
<1>7. set_range(b, i, count, FALSE).available = b.available + count BY ClearRange, Zenon
<1>8. b.available = Nelems - Cardinality(b.bits) BY DEF Counted
<1>9. Nelems \in Nat BY Constants
<1>10. b.available + count = Nelems - (Cardinality(b.bits) - count) BY <1>3, <1>8, <1>9
<1> QED BY <1>5, <1>6, <1>7, <1>10, Zenon DEF Counted

\* The recursive definition of Scan has a solution.
LEMMA ScanRecursion ==
  ASSUME NEW b, NEW map, Len(map) \in Nat
  PROVE  \A n \in 0 .. Len(map) :
           Scan(b, map)[n] = IF n = 0 THEN set_range(b, 0, Nelems, TRUE)
                             ELSE FreeRegion(Scan(b, map)[n - 1], map[n])
<1> DEFINE start == set_range(b, 0, Nelems, TRUE)
           Solves(f, n) == f = [k \in 0 .. n |-> IF k = 0 THEN start ELSE FreeRegion(f[k - 1], map[k])]
           Solvable(n) == \E f : Solves(f, n)
           bad == {n \in 0 .. Len(map) : ~ Solvable(n)}
<1>1. bad = {}
  <2>1. Solvable(0)
    <3> DEFINE f == [k \in 0 .. 0 |-> start]
    <3>1. Solves(f, 0) OBVIOUS
    <3> QED BY <3>1
  <2>2. ASSUME NEW m \in 1 .. Len(map), Solvable(m - 1) PROVE Solvable(m)
    <3>1. PICK g : Solves(g, m - 1) BY <2>2
    <3> DEFINE f == [k \in 0 .. m |-> IF k = m THEN FreeRegion(g[m - 1], map[m]) ELSE g[k]]
    <3>2. ASSUME NEW k \in 0 .. m PROVE f[k] = IF k = 0 THEN start ELSE FreeRegion(f[k - 1], map[k])
      <4>1. CASE k = m BY <4>1
      <4>2. CASE k # m
        <5>1. k \in 0 .. m - 1 BY <4>2
        <5>2. g[k] = IF k = 0 THEN start ELSE FreeRegion(g[k - 1], map[k]) BY <3>1, <5>1
        <5>3. k # 0 => f[k - 1] = g[k - 1] BY <5>1
        <5> QED BY <4>2, <5>2, <5>3
      <4> QED BY <4>1, <4>2
    <3>3. Solves(f, m) BY <3>2
    <3> QED BY <3>3
  <2> HIDE DEF Solvable
  <2>3. SUFFICES ASSUME bad # {} PROVE FALSE OBVIOUS
  <2>4. PICK m \in bad : \A n \in bad : m =< n
    <3>1. bad \subseteq Nat OBVIOUS
    <3> HIDE DEF bad
    <3> QED BY <2>3, <3>1, Least
  <2>5. m \in 0 .. Len(map) /\ ~ Solvable(m) OBVIOUS
  <2>6. m - 1 \in 0 .. Len(map) /\ m \in 1 .. Len(map) BY <2>1, <2>5
  <2>7. Solvable(m - 1) BY <2>4, <2>6
  <2> QED BY <2>2, <2>5, <2>6, <2>7
<1>2. \E f : Solves(f, Len(map))
  <2> HIDE DEF Solves
  <2> QED BY <1>1
<1>3. Scan(b, map) = CHOOSE f : Solves(f, Len(map)) BY DEF Scan
<1>4. Solves(Scan(b, map), Len(map))
  <2> HIDE DEF Solves
  <2> QED BY <1>2, <1>3
<1> DEFINE scan == Scan(b, map)
<1>5. Solves(scan, Len(map)) BY <1>4
<1> HIDE DEF scan
<1>6. \A n \in 0 .. Len(map) : scan[n] = IF n = 0 THEN start ELSE FreeRegion(scan[n - 1], map[n])
  BY <1>5
<1> QED BY <1>6 DEF scan

\* What is assumed of the memory maps.
LEMMA Maps ==
  ASSUME NEW map \in MemoryMaps
  PROVE  /\ Len(map) \in Nat /\ DOMAIN map = 1 .. Len(map)
         /\ \A i \in 1 .. Len(map) : map[i] \in Entries
         /\ RegionsApart(map) /\ KernelLoaded(map)
<1>1. map \in Seq(Entries) BY PmmAssumption DEF Entries
<1>2. RegionsApart(map) /\ KernelLoaded(map) BY PmmAssumption
<1> QED BY <1>1, <1>2, ElementOfSeq, LenProperties

\* The pages cleared by the first k entries of a map.
FreedBy(map, k) == {page \in Bits : \E i \in 1 .. k : page \in Freed(map[i])}

\* The scan of the map, up to each entry: cleared are the pages of the available
\* regions so far, and the counter is right because no two regions share a page.
LEMMA ScanExact ==
  ASSUME NEW map \in MemoryMaps, NEW b, b.bits = {}, b.available = Nelems, NEW k \in 0 .. Len(map)
  PROVE  /\ Scan(b, map)[k].bits = Bits \ FreedBy(map, k)
         /\ Counted(Scan(b, map)[k])
<1> DEFINE scan == Scan(b, map)
           Exact(n) == scan[n].bits = Bits \ FreedBy(map, n) /\ Counted(scan[n])
           bad == {n \in 0 .. Len(map) : ~ Exact(n)}
<1>0. Len(map) \in Nat BY Maps
<1>1. \A n \in 0 .. Len(map) : scan[n] = IF n = 0 THEN set_range(b, 0, Nelems, TRUE)
                                         ELSE FreeRegion(scan[n - 1], map[n])
  BY <1>0, ScanRecursion
<1> HIDE DEF scan
<1>2. Exact(0)
  <2>0. 0 \in 0 .. Len(map) BY <1>0
  <2>1. scan[0] = set_range(b, 0, Nelems, TRUE) BY <1>1, <2>0, Zenon
  <2>2. b.bits = {} /\ b.available = Nelems OBVIOUS
  <2>3. Counted(b) BY <2>2, FS_EmptySet, Constants DEF Counted
  <2>4. 0 .. 0 + Nelems - 1 = Bits BY Constants DEF Bits
  <2>5. Counted(scan[0]) BY <2>1, <2>2, <2>3, <2>4, SetCounts, Constants
  <2>6. scan[0].bits = Bits
    <3>1. 0 \in Nat /\ Nelems \in Nat BY Constants
    <3>2. set_range(b, 0, Nelems, TRUE).bits = b.bits \cup (0 .. 0 + Nelems - 1) BY <3>1, TouchedIsRun DEF set_range
    <3> QED BY <2>1, <2>2, <2>4, <3>2
  <2>7. FreedBy(map, 0) = {} BY DEF FreedBy
  <2> QED BY <2>5, <2>6, <2>7
<1>3. ASSUME NEW n \in 1 .. Len(map), Exact(n - 1) PROVE Exact(n)
  <2> DEFINE before == scan[n - 1]
             entry == map[n]
             i == Region(entry).addr \div page_size
             count == Usable(entry) \div page_size
  <2>0. n \in 0 .. Len(map) /\ n # 0 BY <1>0
  <2>1. scan[n] = FreeRegion(before, entry) BY <1>1, <2>0, Zenon
  <2>2. entry \in Entries BY Maps
  <2>3. i \in Nat /\ count \in Nat /\ i .. i + count - 1 = Freed(entry) BY <2>2, RegionPages
  <2>4. before.bits = Bits \ FreedBy(map, n - 1) /\ Counted(before) BY <1>3
  <2>5. FreedBy(map, n) = FreedBy(map, n - 1) \cup Freed(entry)
    <3>1. \A j \in 1 .. n : j \in 1 .. n - 1 \/ j = n OBVIOUS
    <3>2. \A j \in 1 .. n - 1 : j \in 1 .. n OBVIOUS
    <3>3. n \in 1 .. n OBVIOUS
    <3> QED BY <3>1, <3>2, <3>3 DEF FreedBy, Freed
  <2>6. Freed(entry) \cap FreedBy(map, n - 1) = {}
    <3>1. SUFFICES ASSUME NEW page \in Freed(entry), NEW j \in 1 .. n - 1, page \in Freed(map[j]) PROVE FALSE
      BY DEF FreedBy
    <3>2. page * page_size \in Bytes(page) BY Constants DEF Bytes, Freed, Bits
    <3>3. j \in DOMAIN map /\ n \in DOMAIN map /\ j # n BY <1>0, Maps
    <3>4. Extent(map[j]) \cap Extent(map[n]) = {} BY <3>1, <3>3, Maps DEF RegionsApart, Freed
    <3> QED BY <3>1, <3>2, <3>4 DEF Freed
  <2> HIDE DEF i, count, before, entry
  <2>7. CASE entry.len = 0
    <3>1. scan[n] = before BY <2>1, <2>7 DEF FreeRegion
    <3>2. Freed(entry) = {}
      <4>1. SUFFICES ASSUME NEW page \in Freed(entry) PROVE FALSE OBVIOUS
      <4>2. page * page_size \in Bytes(page) BY Constants, <4>1 DEF Bytes, Freed, Bits
      <4>3. Extent(entry) = {} BY <2>2, <2>7 DEF Extent, Entries
      <4> QED BY <4>1, <4>2, <4>3 DEF Freed
    <3> QED BY <2>4, <2>5, <3>1, <3>2
  <2>8. CASE entry.len # 0
    <3>1. scan[n] = set_range(before, i, count, FALSE) BY <2>1, <2>8 DEF FreeRegion, i, count
    <3>0. set_range(before, i, count, FALSE).bits = before.bits \ (i .. i + count - 1) BY <2>3, TouchedIsRun DEF set_range
    <3>2. scan[n].bits = before.bits \ Freed(entry) BY <2>3, <3>0, <3>1, Zenon
    <3>3. i .. i + count - 1 \subseteq before.bits BY <2>3, <2>4, <2>6 DEF Freed
    <3>4. before.bits \subseteq Bits BY <2>4
    <3>5. Counted(scan[n]) BY <2>3, <2>4, <3>1, <3>3, <3>4, ClearCounts
    <3> QED BY <2>4, <2>5, <3>2, <3>5
  <2> QED BY <2>7, <2>8
<1> HIDE DEF Exact
<1>4. bad = {}
  <2>1. SUFFICES ASSUME bad # {} PROVE FALSE OBVIOUS
  <2>2. bad \subseteq Nat OBVIOUS
  <2>3. PICK m \in bad : \A n \in bad : m =< n
    <3> HIDE DEF bad
    <3> QED BY <2>1, <2>2, Least
  <2>4. m # 0 BY <1>2
  <2>5. m - 1 \in 0 .. Len(map) /\ m \in 1 .. Len(map) BY <1>0, <2>4
  <2>6. Exact(m - 1) BY <2>3, <2>5
  <2> QED BY <1>3, <2>5, <2>6
<1> QED BY <1>4 DEF Exact, scan

-----------------------------------------------------------------------------
\* The pages of the image are the pages that share a byte with it.
LEMMA KernelBytes ==
  ASSUME NEW page \in Nat
  PROVE  Bytes(page) \cap (bootstrap_lma .. bootstrap_lma + kernel_image_size - 1) = {} <=> page \notin KernelPages
<1> DEFINE q == bootstrap_lma \div page_size
           k == div_ceil(kernel_image_size, page_size)
<1>0. page_size \in Nat \ {0} /\ bootstrap_lma \in Nat /\ kernel_image_size \in Nat /\ bootstrap_lma % page_size = 0
  BY PmmAssumption
<1>1. q \in Nat /\ bootstrap_lma = page_size * q
  <2>1. q \in Nat /\ bootstrap_lma = page_size * q + (bootstrap_lma % page_size) BY <1>0, DivMod
  <2> HIDE DEF q
  <2> QED BY <1>0, <2>1
<1>2. k \in Nat /\ \A d \in Nat : d * page_size < kernel_image_size <=> d < k BY <1>0, DivCeil
<1>3. KernelPages = q .. q + k - 1 BY DEF KernelPages
<1>4. Bytes(page) = page * page_size .. page * page_size + page_size - 1 /\ page * page_size \in Nat
  BY <1>0 DEF Bytes
<1> HIDE DEF q, k
<1>5. CASE page < q
  <2>1. page_size * (page + 1) =< page_size * q BY <1>0, <1>1, <1>5, MulMono
  <2>2. page_size * (page + 1) = page * page_size + page_size BY <1>0
  <2>3. page * page_size + page_size =< bootstrap_lma BY <1>1, <2>1, <2>2
  <2> QED BY <1>0, <1>1, <1>2, <1>3, <1>4, <1>5, <2>3
<1>6. CASE q =< page
  <2> DEFINE d == page - q
             x == d * page_size
  <2>1. d \in Nat /\ page = q + d BY <1>1, <1>6
  <2> HIDE DEF d
  <2>2. x \in Nat /\ page * page_size = bootstrap_lma + x BY <1>0, <1>1, <2>1
  <2>3. x < kernel_image_size <=> d < k BY <1>2, <2>1
  <2>4. page \in KernelPages <=> d < k BY <1>1, <1>2, <1>3, <2>1
  <2> HIDE DEF x
  <2>5. CASE d < k
    <3>1. page * page_size \in Bytes(page) BY <1>0, <1>4
    <3>2. page * page_size \in bootstrap_lma .. bootstrap_lma + kernel_image_size - 1 BY <1>0, <2>2, <2>3, <2>5
    <3> QED BY <2>4, <2>5, <3>1, <3>2
  <2>6. CASE ~ d < k
    <3>1. kernel_image_size =< x BY <1>0, <2>2, <2>3, <2>6
    <3> QED BY <1>0, <1>4, <2>2, <2>4, <2>6, <3>1
  <2> QED BY <2>5, <2>6
<1> QED BY <1>1, <1>5, <1>6

\* The available pages of the machine's map.
LEMMA AvailablePages ==
  ASSUME mmap \in MemoryMaps
  PROVE  /\ UsablePage = FreedBy(mmap, Len(mmap)) \ KernelPages
         /\ KernelPages \subseteq FreedBy(mmap, Len(mmap))
<1>1. DOMAIN mmap = 1 .. Len(mmap) /\ KernelLoaded(mmap) BY Maps
<1>2. FreedBy(mmap, Len(mmap)) =
        {page \in Bits : \E i \in DOMAIN mmap : mmap[i].available /\ Bytes(page) \subseteq Extent(mmap[i])}
  BY <1>1 DEF FreedBy, Freed
<1>3. Bits \subseteq Nat BY DEF Bits
<1>4. KernelPages \subseteq FreedBy(mmap, Len(mmap)) BY <1>1, <1>2 DEF KernelLoaded
<1>5. \A page \in Bits :
        Bytes(page) \cap (bootstrap_lma .. bootstrap_lma + kernel_image_size - 1) = {} <=> page \notin KernelPages
  BY <1>3, KernelBytes
<1> QED BY <1>2, <1>4, <1>5 DEF UsablePage

\* init clears the bits of the usable pages, all of them and no other.
LEMMA InitExact ==
  ASSUME mmap \in MemoryMaps, NEW b, b.bits = {}, b.available = Nelems
  PROVE  LET after == ReserveKernel(Scan(b, mmap)[Len(mmap)])
         IN  after.bits = Bits \ UsablePage /\ Counted(after)
<1> DEFINE scanned == Scan(b, mmap)[Len(mmap)]
           free_pages == FreedBy(mmap, Len(mmap))
           i == bootstrap_lma \div page_size
           count == div_ceil(kernel_image_size, page_size)
<1>1. Len(mmap) \in 0 .. Len(mmap) BY Maps
<1>2. scanned.bits = Bits \ free_pages /\ Counted(scanned) BY <1>1, ScanExact
<1>3. UsablePage = free_pages \ KernelPages /\ KernelPages \subseteq free_pages BY AvailablePages
<1>4. free_pages \subseteq Bits BY DEF FreedBy
<1>5. i \in Nat /\ count \in Nat /\ KernelPages = i .. i + count - 1
  <2>1. page_size \in Nat \ {0} /\ bootstrap_lma \in Nat /\ kernel_image_size \in Nat BY PmmAssumption
  <2> QED BY <2>1, DivMod, DivCeil, 0 \in Nat DEF KernelPages
<1>6. ReserveKernel(scanned) = set_range(scanned, i, count, TRUE) BY DEF ReserveKernel
<1> HIDE DEF scanned, i, count, free_pages
<1>7. set_range(scanned, i, count, TRUE).bits = scanned.bits \cup (i .. i + count - 1)
  BY <1>5, TouchedIsRun DEF set_range
<1>8. Counted(set_range(scanned, i, count, TRUE))
  <2>1. i .. i + count - 1 \subseteq Bits \ scanned.bits BY <1>2, <1>3, <1>4, <1>5
  <2>2. scanned.bits \subseteq Bits BY <1>2
  <2> QED BY <1>2, <1>5, <2>1, <2>2, SetCounts
<1>9. scanned.bits \cup KernelPages = Bits \ UsablePage BY <1>2, <1>3, <1>4
<1> QED BY <1>5, <1>6, <1>7, <1>8, <1>9 DEF scanned

\* Where no map calls the last page below 4G available its bit is always set,
\* so that no run of clear bits leaves the bitmap.
LEMMA LastReserved ==
  ASSUME TopReserved, mmap \in MemoryMaps
  PROVE  Nelems - 1 \in Bits \ UsablePage
<1>1. Nelems - 1 \in Bits BY Constants DEF Bits
<1> QED BY <1>1 DEF TopReserved, UsablePage

\* The pool, in pages.
LEMMA PoolFromLowest ==
  Lowest \in Nat /\ Pool = {page \in UsablePage : Lowest =< page}
<1>1. page_size \in Nat \ {0} /\ lowest_usable_address \in Nat BY PmmAssumption
<1>2. Lowest \in Nat BY <1>1, DivCeil, 0 \in Nat DEF Lowest
<1>3. ASSUME NEW page \in UsablePage PROVE page * page_size >= lowest_usable_address <=> Lowest =< page
  <2>1. page \in Nat BY DEF UsablePage, Bits
  <2>2. page * page_size < lowest_usable_address <=> page < Lowest BY <1>1, <2>1, DivCeil DEF Lowest
  <2>3. page * page_size \in Nat BY <1>1, <2>1
  <2> QED BY <1>1, <1>2, <2>1, <2>2, <2>3
<1> QED BY <1>2, <1>3 DEF Pool

-----------------------------------------------------------------------------
\* What alloc finds, whatever lies behind the bitmap: the first run of the
\* pool that nobody holds.
LEMMA AllocFinds ==
  ASSUME TopReserved, PmmInv, up, NEW count \in Nat \ {0}, NEW beyond \in Beyond
  PROVE  /\ \A n \in find_contiguous(bmp.bits \cup beyond, Lowest, count) :
              /\ n \in Bits /\ n + count =< Nelems
              /\ n .. n + count - 1 \subseteq Pool \ held
              /\ n .. n + count - 1 \subseteq Bits \ bmp.bits
         /\ find_contiguous(bmp.bits \cup beyond, Lowest, count) = {} =>
              \A n \in Bits : ~ n .. n + count - 1 \subseteq Pool \ held
<1> DEFINE bits == bmp.bits \cup beyond
           fits == {n \in Lowest .. Nelems - count : Clear(bits, n, count)}
<1>1. mmap \in MemoryMaps /\ bmp.bits = Bits \ (UsablePage \ held) BY DEF PmmInv, TypeOK, PoolExact
<1>2. Nelems - 1 \in bits BY <1>1, LastReserved
<1>3. Lowest \in Nat /\ Pool = {page \in UsablePage : Lowest =< page} BY PoolFromLowest
<1>4. find_contiguous(bits, Lowest, count) = {n \in fits : \A m \in fits : n =< m}
  <2> HIDE DEF bits
  <2> QED BY <1>2, <1>3, SearchIsFirstFit
<1>5. UsablePage \subseteq Bits BY DEF UsablePage
<1>6. Nelems \in Nat BY Constants
<1>7. beyond \cap Bits = {} BY Constants DEF Beyond, Bits
<1>8. ASSUME NEW n \in fits
      PROVE  /\ n \in Bits /\ n + count =< Nelems
             /\ n .. n + count - 1 \subseteq Pool \ held
             /\ n .. n + count - 1 \subseteq Bits \ bmp.bits
  <2>1. n \in Nat /\ Lowest =< n /\ n + count =< Nelems BY <1>3, <1>6
  <2>2. n .. n + count - 1 \subseteq Bits BY <1>6, <2>1 DEF Bits
  <2>3. n \in Bits BY <1>6, <2>1 DEF Bits
  <2>4. \A page \in n .. n + count - 1 : page \notin bmp.bits BY DEF Clear
  <2>5. \A page \in n .. n + count - 1 : page \in UsablePage \ held BY <1>1, <2>2, <2>4
  <2>6. \A page \in n .. n + count - 1 : Lowest =< page BY <1>3, <2>1
  <2> QED BY <1>3, <2>1, <2>2, <2>3, <2>4, <2>5, <2>6
<1>9. ASSUME NEW n \in Bits, n .. n + count - 1 \subseteq Pool \ held PROVE n \in fits
  <2>1. n \in Nat BY DEF Bits
  <2>2. n \in n .. n + count - 1 /\ n + count - 1 \in n .. n + count - 1 BY <2>1
  <2>3. n \in Pool /\ n + count - 1 \in Bits BY <1>3, <1>5, <1>9, <2>2
  <2>4. n \in Lowest .. Nelems - count BY <1>3, <1>6, <2>1, <2>3 DEF Bits
  <2>5. \A page \in n .. n + count - 1 : page \in (UsablePage \ held) /\ page \in Bits BY <1>3, <1>5, <1>9
  <2>6. Clear(bits, n, count) BY <1>1, <1>7, <2>5 DEF Clear
  <2> QED BY <2>4, <2>6
<1>10. fits \subseteq Nat BY <1>3
<1> HIDE DEF fits
<1>11. fits # {} => \E n \in fits : \A m \in fits : n =< m BY <1>10, Least
<1>12. \A n \in find_contiguous(bits, Lowest, count) : n \in fits BY <1>4
<1>13. find_contiguous(bits, Lowest, count) = {} => fits = {} BY <1>4, <1>11
<1> HIDE DEF bits
<1>14. find_contiguous(bits, Lowest, count) = {} => \A n \in Bits : ~ n .. n + count - 1 \subseteq Pool \ held
  BY <1>9, <1>13
<1> QED BY <1>8, <1>12, <1>14 DEF bits

\* The invariant holds at the start.
LEMMA InitPmmInv == PmmInit => PmmInv
<1> SUFFICES ASSUME PmmInit PROVE PmmInv OBVIOUS
<1> USE DEF PmmInit
<1>1. TypeOK
  <2>1. Nelems \in Int /\ 0 \in 0 .. MaxPages BY Constants, PmmAssumption
  <2>2. bmp.bits = {} /\ bmp.available = Nelems OBVIOUS
  <2>3. reply \in [kind : {"none", "granted", "refused"}, page : Nat, count : 0 .. MaxPages] BY <2>1 DEF NoReply
  <2> QED BY <2>1, <2>2, <2>3 DEF TypeOK
<1>2. CounterExact BY Constants, FS_EmptySet DEF CounterExact
<1> QED BY <1>1, <1>2 DEF PmmInv, PoolExact

\* The pool depends on the map alone.
LEMMA PoolKept ==
  ASSUME UNCHANGED mmap
  PROVE  UsablePage' = UsablePage /\ Pool' = Pool
BY DEF UsablePage, Pool

\* init preserves the invariant.
LEMMA InitStep == PmmInv /\ init => PmmInv'
<1> SUFFICES ASSUME PmmInv, init PROVE PmmInv' OBVIOUS
<1>1. mmap \in MemoryMaps /\ ~ up /\ bmp.bits = {} /\ held = {} BY DEF init, PmmInv, TypeOK
<1>2. bmp.available = Nelems BY <1>1, Constants, FS_EmptySet DEF PmmInv, CounterExact
<1>3. bmp' = ReserveKernel(Scan(bmp, mmap)[Len(mmap)]) /\ up' = TRUE /\ UNCHANGED <<mmap, held, reply>> BY DEF init
<1>4. bmp'.bits = Bits \ UsablePage /\ Counted(bmp') BY <1>1, <1>2, <1>3, InitExact
<1>5. UsablePage' = UsablePage /\ Pool' = Pool BY <1>3, PoolKept
<1>6. bmp'.available \in Int /\ CounterExact'
  <2>1. IsFiniteSet(Bits) BY FS_Interval, Constants DEF Bits
  <2>2. Cardinality(bmp'.bits) \in Nat BY <1>4, <2>1, FS_Subset, FS_CardinalityType
  <2> QED BY <1>4, <2>2, Constants DEF Counted, CounterExact
<1>7. TypeOK' BY <1>1, <1>3, <1>4, <1>6 DEF PmmInv, TypeOK, Bits
<1>8. PoolExact' BY <1>1, <1>3, <1>4, <1>5 DEF PoolExact
<1> QED BY <1>1, <1>3, <1>5, <1>6, <1>7, <1>8 DEF PmmInv

\* alloc preserves the invariant.
LEMMA AllocStep ==
  ASSUME TopReserved, PmmInv, NEW count \in 1 .. MaxPages, NEW beyond \in Beyond, alloc(count, beyond)
  PROVE  PmmInv'
<1>0. count \in Nat \ {0} /\ count \in 0 .. MaxPages BY PmmAssumption
<1>1. up /\ UNCHANGED <<up, mmap>> BY DEF alloc
<1>2. UsablePage' = UsablePage /\ Pool' = Pool BY <1>1, PoolKept
<1>3. CASE /\ reply' = [kind |-> "refused", page |-> 0, count |-> count]
           /\ UNCHANGED <<bmp, held>>
  <2>1. TypeOK' BY <1>0, <1>1, <1>3 DEF PmmInv, TypeOK
  <2>2. PoolExact' /\ CounterExact' BY <1>1, <1>2, <1>3 DEF PmmInv, PoolExact, CounterExact
  <2> QED BY <1>1, <1>2, <1>3, <2>1, <2>2 DEF PmmInv
<1>4. ASSUME NEW n \in find_contiguous(bmp.bits \cup beyond, Lowest, count),
             bmp' = set_range(bmp, n, count, TRUE),
             held' = held \cup (n .. n + count - 1),
             reply' = [kind |-> "granted", page |-> n, count |-> count]
      PROVE PmmInv'
  <2>1. /\ n \in Nat
        /\ n .. n + count - 1 \subseteq Pool \ held
        /\ n .. n + count - 1 \subseteq Bits \ bmp.bits
    BY <1>0, <1>1, AllocFinds DEF Bits
  <2> DEFINE run == n .. n + count - 1
  <2>2. bmp'.bits = bmp.bits \cup run BY <1>0, <1>4, <2>1, TouchedIsRun DEF set_range
  <2>3. bmp.bits = Bits \ (UsablePage \ held) /\ held \subseteq Pool BY <1>1 DEF PmmInv, PoolExact
  <2>4. Pool \subseteq UsablePage /\ UsablePage \subseteq Bits BY DEF Pool, UsablePage
  <2>5. Counted(bmp')
    <3>1. bmp.bits \subseteq Bits /\ Counted(bmp) BY <2>3 DEF PmmInv, CounterExact, Counted
    <3> QED BY <1>0, <1>4, <2>1, <3>1, SetCounts
  <2>6. run \subseteq Pool \ held /\ run \subseteq Bits \ bmp.bits BY <2>1
  <2>7. held' = held \cup run BY <1>4
  <2> HIDE DEF run
  <2>8. bmp'.bits = Bits \ (UsablePage \ held') BY <2>2, <2>3, <2>4, <2>6, <2>7
  <2>9. bmp'.available \in Int /\ CounterExact'
    <3>1. IsFiniteSet(Bits) BY FS_Interval, Constants DEF Bits
    <3>2. Cardinality(bmp'.bits) \in Nat BY <2>8, <3>1, FS_Subset, FS_CardinalityType
    <3> QED BY <2>5, <3>2, Constants DEF Counted, CounterExact
  <2>10. held' \subseteq Pool' BY <1>2, <2>3, <2>6, <2>7
  <2>11. TypeOK'
    <3>1. Bits \subseteq Nat BY DEF Bits
    <3>2. held' \subseteq Nat /\ bmp'.bits \subseteq Nat BY <1>2, <2>4, <2>8, <2>10, <3>1
    <3>3. reply' \in [kind : {"none", "granted", "refused"}, page : Nat, count : 0 .. MaxPages] BY <1>0, <1>4, <2>1
    <3> QED BY <1>1, <2>9, <3>2, <3>3 DEF PmmInv, TypeOK
  <2> QED BY <1>1, <1>2, <2>8, <2>9, <2>10, <2>11 DEF PmmInv, PoolExact
<1> QED BY <1>3, <1>4 DEF alloc

\* free preserves the invariant.
LEMMA FreeStep ==
  ASSUME PmmInv, NEW count \in 1 .. MaxPages, NEW n \in Bits, free(n, count)
  PROVE  PmmInv'
<1> DEFINE run == n .. n + count - 1
<1>0. count \in Nat \ {0} /\ n \in Nat BY PmmAssumption DEF Bits
<1>1. up /\ UNCHANGED <<up, mmap>> /\ bmp' = set_range(bmp, n, count, FALSE)
  BY DEF free
<1>2. run \subseteq held /\ held' = held \ run /\ reply' = NoReply BY DEF free
<1>3. UsablePage' = UsablePage /\ Pool' = Pool BY <1>1, PoolKept
<1>4. bmp'.bits = bmp.bits \ run BY <1>0, <1>1, TouchedIsRun DEF set_range
<1>5. bmp.bits = Bits \ (UsablePage \ held) /\ held \subseteq Pool BY <1>1 DEF PmmInv, PoolExact
<1>6. Pool \subseteq UsablePage /\ UsablePage \subseteq Bits BY DEF Pool, UsablePage
<1>7. Counted(bmp')
  <2>1. n .. n + count - 1 \subseteq bmp.bits BY <1>2, <1>5, <1>6
  <2>2. bmp.bits \subseteq Bits /\ Counted(bmp) BY <1>5 DEF PmmInv, CounterExact, Counted
  <2> QED BY <1>0, <1>1, <2>1, <2>2, ClearCounts
<1> HIDE DEF run
<1>8. bmp'.bits = Bits \ (UsablePage \ held') BY <1>2, <1>4, <1>5, <1>6
<1>9. bmp'.available \in Int /\ CounterExact'
  <2>1. IsFiniteSet(Bits) BY FS_Interval, Constants DEF Bits
  <2>2. Cardinality(bmp'.bits) \in Nat BY <1>8, <2>1, FS_Subset, FS_CardinalityType
  <2> QED BY <1>7, <2>2, Constants DEF Counted, CounterExact
<1>10. TypeOK'
  <2>1. Bits \subseteq Nat BY DEF Bits
  <2>2. held' \subseteq Nat /\ bmp'.bits \subseteq Nat BY <1>2, <1>5, <1>6, <1>8, <2>1
  <2>3. reply' \in [kind : {"none", "granted", "refused"}, page : Nat, count : 0 .. MaxPages]
    BY <1>2, PmmAssumption DEF NoReply
  <2> QED BY <1>1, <1>9, <2>2, <2>3 DEF PmmInv, TypeOK
<1> QED BY <1>1, <1>2, <1>3, <1>5, <1>8, <1>9, <1>10 DEF PmmInv, PoolExact

\* What no variable's change can disturb.
LEMMA PmmStutter == PmmInv /\ UNCHANGED pmmVars => PmmInv'
BY PoolKept DEF PmmInv, TypeOK, PoolExact, CounterExact, pmmVars

\* Bitmap and counter are exact, and callers hold only pages of the pool, after
\* every sequence of requests (PmmInv).
THEOREM PmmInvariant ==
  ASSUME TopReserved
  PROVE  PmmSpec => []PmmInv
<1>1. PmmInv /\ [PmmNext]_pmmVars => PmmInv'
  <2> SUFFICES ASSUME PmmInv, [PmmNext]_pmmVars PROVE PmmInv' OBVIOUS
  <2>1. CASE init BY <2>1, InitStep
  <2>2. CASE \E count \in 1 .. MaxPages : \E beyond \in Beyond : alloc(count, beyond) BY <2>2, AllocStep
  <2>3. CASE \E count \in 1 .. MaxPages : \E n \in Bits : free(n, count) BY <2>3, FreeStep
  <2>4. CASE UNCHANGED pmmVars BY <2>4, PmmStutter
  <2> QED BY <2>1, <2>2, <2>3, <2>4 DEF PmmNext
<1> QED BY <1>1, InitPmmInv, PTL DEF PmmSpec

\* find_contiguous is first fit in every reachable state.
THEOREM FirstFitHolds ==
  ASSUME TopReserved
  PROVE  PmmSpec => []FirstFit
<1>1. PmmInv => FirstFit
  <2> SUFFICES ASSUME PmmInv, up, NEW start \in Bits, NEW count \in 1 .. Nelems
               PROVE  LET fits == {n \in start .. Nelems - count : n .. n + count - 1 \cap bmp.bits = {}}
                      IN  find_contiguous(bmp.bits, start, count) = {n \in fits : \A m \in fits : n =< m}
    BY DEF FirstFit
  <2> DEFINE fits == {n \in start .. Nelems - count : n .. n + count - 1 \cap bmp.bits = {}}
  <2>1. Nelems - 1 \in bmp.bits BY LastReserved DEF PmmInv, TypeOK, PoolExact
  <2>2. start \in Nat /\ count \in Nat \ {0} BY Constants DEF Bits
  <2>3. fits = {n \in start .. Nelems - count : Clear(bmp.bits, n, count)} BY DEF Clear
  <2>4. find_contiguous(bmp.bits, start, count)
          = {p \in {n \in start .. Nelems - count : Clear(bmp.bits, n, count)} :
               \A m \in {n \in start .. Nelems - count : Clear(bmp.bits, n, count)} : p =< m}
    BY <2>1, <2>2, SearchIsFirstFit
  <2> HIDE DEF fits
  <2>5. find_contiguous(bmp.bits, start, count) = {n \in fits : \A m \in fits : n =< m} BY <2>3, <2>4, Zenon
  <2> QED BY <2>5 DEF fits
<1> QED BY <1>1, PmmInvariant, PTL

\* alloc never grants a page past 4G.
THEOREM GrantsInsideHolds ==
  ASSUME TopReserved
  PROVE  PmmSpec => []GrantsInside
<1>1. PmmInit => GrantsInside BY DEF PmmInit, GrantsInside, NoReply
<1>2. PmmInv /\ GrantsInside /\ [PmmNext]_pmmVars => GrantsInside'
  <2> SUFFICES ASSUME PmmInv, GrantsInside, [PmmNext]_pmmVars PROVE GrantsInside' OBVIOUS
  <2>1. CASE init BY <2>1 DEF init, GrantsInside
  <2>2. ASSUME NEW count \in 1 .. MaxPages, NEW beyond \in Beyond, alloc(count, beyond) PROVE GrantsInside'
    <3>0. count \in Nat \ {0} /\ up BY <2>2, PmmAssumption DEF alloc
    <3>1. CASE reply' = [kind |-> "refused", page |-> 0, count |-> count] BY <3>1 DEF GrantsInside
    <3>2. ASSUME NEW n \in find_contiguous(bmp.bits \cup beyond, Lowest, count),
                 reply' = [kind |-> "granted", page |-> n, count |-> count]
          PROVE GrantsInside'
      <4>1. n + count =< Nelems BY <3>0, AllocFinds
      <4> QED BY <3>2, <4>1, Constants DEF GrantsInside, Nelems
    <3> QED BY <2>2, <3>1, <3>2 DEF alloc
  <2>3. ASSUME NEW count \in 1 .. MaxPages, NEW n \in Bits, free(n, count) PROVE GrantsInside'
    BY <2>3 DEF free, GrantsInside, NoReply
  <2>4. CASE UNCHANGED pmmVars BY <2>4 DEF pmmVars, GrantsInside
  <2> QED BY <2>1, <2>2, <2>3, <2>4 DEF PmmNext
<1> QED BY <1>1, <1>2, PmmInvariant, PTL DEF PmmSpec

-----------------------------------------------------------------------------
\* The allocator implements the abstract one of module Frames: init opens the
\* pool, alloc grants a run nobody holds or refuses when there is none, and
\* free returns frames.
THEOREM PmmImplementsFrames ==
  ASSUME TopReserved
  PROVE  PmmSpec => ImplementsFrames
<1> DEFINE pool == IF up THEN Pool ELSE {}
<1>1. PmmInit => Abs!FramesInit BY DEF PmmInit, Abs!FramesInit, NoReply, Abs!NoReply
<1>2. PmmInv /\ [PmmNext]_pmmVars => [Abs!FramesNext]_<<pool, held, reply>>
  <2> SUFFICES ASSUME PmmInv, [PmmNext]_pmmVars PROVE [Abs!FramesNext]_<<pool, held, reply>> OBVIOUS
  <2>0. Pool \subseteq Bits BY DEF Pool, UsablePage
  <2>1. CASE init
    <3>1. ~ up /\ up' = TRUE /\ UNCHANGED <<mmap, held, reply>> BY <2>1 DEF init
    <3>2. held = {} BY <3>1 DEF PmmInv
    <3>3. Pool' = Pool BY <3>1, PoolKept
    <3>4. Abs!Open BY <2>0, <3>1, <3>2, <3>3 DEF Abs!Open
    <3> QED BY <3>4 DEF Abs!FramesNext
  <2>2. ASSUME NEW count \in 1 .. MaxPages, NEW beyond \in Beyond, alloc(count, beyond)
        PROVE  Abs!FramesNext
    <3>0. count \in Nat \ {0} /\ up /\ UNCHANGED <<up, mmap>> BY <2>2, PmmAssumption DEF alloc
    <3>1. Pool' = Pool BY <3>0, PoolKept
    <3>2. CASE /\ find_contiguous(bmp.bits \cup beyond, Lowest, count) = {}
               /\ reply' = [kind |-> "refused", page |-> 0, count |-> count]
               /\ UNCHANGED <<bmp, held>>
      <4>1. \A n \in Bits : ~ n .. n + count - 1 \subseteq Pool \ held BY <3>0, <3>2, AllocFinds
      <4>2. Abs!Refuse(count) BY <3>0, <3>1, <3>2, <4>1 DEF Abs!Refuse, Abs!Run
      <4> QED BY <4>2 DEF Abs!FramesNext
    <3>3. ASSUME NEW n \in find_contiguous(bmp.bits \cup beyond, Lowest, count),
                 held' = held \cup (n .. n + count - 1),
                 reply' = [kind |-> "granted", page |-> n, count |-> count]
          PROVE  Abs!FramesNext
      <4>1. n \in Bits /\ n .. n + count - 1 \subseteq Pool \ held BY <3>0, AllocFinds
      <4>2. Abs!Grant(n, count) BY <3>0, <3>1, <3>3, <4>1 DEF Abs!Grant, Abs!Run
      <4> QED BY <4>1, <4>2 DEF Abs!FramesNext
    <3> QED BY <2>2, <3>2, <3>3 DEF alloc
  <2>3. ASSUME NEW count \in 1 .. MaxPages, NEW n \in Bits, free(n, count)
        PROVE  Abs!FramesNext
    <3>1. UNCHANGED <<up, mmap>> BY <2>3 DEF free
    <3>2. Pool' = Pool BY <3>1, PoolKept
    <3>3. Abs!Return(n, count) BY <2>3, <3>1, <3>2 DEF free, Abs!Return, Abs!Run, NoReply, Abs!NoReply
    <3> QED BY <3>3 DEF Abs!FramesNext
  <2>4. CASE UNCHANGED pmmVars BY <2>4, PoolKept DEF pmmVars
  <2> QED BY <2>1, <2>2, <2>3, <2>4 DEF PmmNext
<1> QED BY <1>1, <1>2, PmmInvariant, PTL DEF PmmSpec, ImplementsFrames, Abs!FramesSpec
====

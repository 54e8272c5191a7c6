----------------------------- MODULE HeapProofs ------------------------------
(***************************************************************************)
(* The kernel heap (Kmm) is backed by mapped pages for every page size,    *)
(* heap end and bound on the requests, and the allocator over it           *)
(* (Dlmalloc) is right for every number and width of bins, every heap and  *)
(* all requests.                                                           *)
(*                                                                         *)
(* For Kmm the argument is in NewPagesCover: the run of pages asked for    *)
(* starts where the old heap needs no more pages and ends where the new    *)
(* one needs no more.  For the allocator it is the invariant MallocInv:    *)
(* the chunks are a row with true tags (Tile), every free one but top and  *)
(* the designated victim is in its bin (BinsOK), a treebin is a trie whose *)
(* paths are turns of its sizes (Shape), and callers hold what is used.    *)
(* Each operation is followed from one of its steps to the next: a chunk   *)
(* out of its bin (Out), used (Handed), split (Carved), given back (Gave). *)
(***************************************************************************)
EXTENDS HeapChecks, FiniteSetTheorems, SequenceTheorems, TLAPS

-----------------------------------------------------------------------------
(* Powers of two, division, the bits of a size and its treebin.            *)

\* The powers of two: a set with one element more has twice as many subsets.
LEMMA Pow ==
  ASSUME NEW k \in Nat
  PROVE  2 ^ k \in Nat \ {0} /\ 2 ^ (k + 1) = 2 * 2 ^ k
<1> DEFINE S == 1 .. k
           T == 1 .. k + 1
           A == {X \cup {k + 1} : X \in SUBSET S}
           f == [X \in SUBSET S |-> X \cup {k + 1}]
<1>1. IsFiniteSet(S) /\ Cardinality(S) = k /\ IsFiniteSet(T) /\ Cardinality(T) = k + 1
  BY FS_Interval
<1>2. /\ IsFiniteSet(SUBSET S) /\ Cardinality(SUBSET S) = 2 ^ k
      /\ IsFiniteSet(SUBSET T) /\ Cardinality(SUBSET T) = 2 ^ (k + 1)
  BY <1>1, FS_SUBSET
<1>3. f \in Bijection(SUBSET S, A)
  <2>1. f \in [SUBSET S -> A] OBVIOUS
  <2>2. ASSUME NEW X \in SUBSET S, NEW Y \in SUBSET S, f[X] = f[Y] PROVE X = Y
    <3>1. k + 1 \notin S OBVIOUS
    <3> QED BY <2>2, <3>1
  <2>3. \A t \in A : \E X \in SUBSET S : f[X] = t OBVIOUS
  <2> QED BY <2>1, <2>2, <2>3 DEF Bijection, Injection, Surjection, IsInjective
<1>4. IsFiniteSet(A) /\ Cardinality(A) = Cardinality(SUBSET S)
  BY <1>2, <1>3, FS_Bijection DEF ExistsBijection
<1>0. \A X : X \in A <=> \E Y \in SUBSET S : X = Y \cup {k + 1} OBVIOUS
<1>5. SUBSET T = (SUBSET S) \cup A
  <2>1. T = S \cup {k + 1} /\ k + 1 \notin S OBVIOUS
  <2> HIDE DEF S, T, A
  <2>2. ASSUME NEW X \in SUBSET T PROVE X \in (SUBSET S) \cup A
    <3>1. CASE k + 1 \in X
      <4>1. X \ {k + 1} \in SUBSET S /\ X = (X \ {k + 1}) \cup {k + 1} BY <2>1, <2>2, <3>1
      <4>2. \E Y \in SUBSET S : X = Y \cup {k + 1} BY <4>1
      <4> QED BY <4>2, <1>0
    <3>2. CASE k + 1 \notin X BY <2>1, <2>2, <3>2
    <3> QED BY <3>1, <3>2
  <2>3. ASSUME NEW X \in A PROVE X \in SUBSET T
    <3>1. PICK Y \in SUBSET S : X = Y \cup {k + 1} BY <2>3, <1>0
    <3> QED BY <2>1, <3>1
  <2>4. SUBSET S \subseteq SUBSET T BY <2>1
  <2> QED BY <2>2, <2>3, <2>4
<1>6. (SUBSET S) \cap A = {}
  <2>1. k + 1 \notin S OBVIOUS
  <2> HIDE DEF S, A
  <2>2. ASSUME NEW X \in A PROVE X \notin SUBSET S
    <3>1. k + 1 \in X BY <2>2, <1>0
    <3> QED BY <2>1, <3>1
  <2> QED BY <2>2
<1>7. Cardinality(SUBSET T) = Cardinality(SUBSET S) + Cardinality(A) - Cardinality({})
  <2>1. Cardinality((SUBSET S) \cup A)
          = Cardinality(SUBSET S) + Cardinality(A) - Cardinality((SUBSET S) \cap A)
    BY <1>2, <1>4, FS_Union
  <2> QED BY <2>1, <1>5, <1>6, Zenon
<1>8. Cardinality({}) = 0 /\ Cardinality(SUBSET S) \in Nat BY <1>2, FS_EmptySet, FS_CardinalityType
<1>9. Cardinality(SUBSET S) # 0
  <2>1. {} \in SUBSET S OBVIOUS
  <2> QED BY <1>2, <2>1, FS_EmptySet
<1> QED BY <1>2, <1>4, <1>7, <1>8, <1>9

\* The first power.
LEMMA PowZero == 2 ^ 0 = 1
<1>1. IsFiniteSet({}) /\ Cardinality({}) = 0 BY FS_EmptySet
<1>2. Cardinality(SUBSET {}) = 2 ^ 0 BY <1>1, FS_SUBSET
<1>3. SUBSET {} = {{}} OBVIOUS
<1> QED BY <1>2, <1>3, FS_Singleton
\* A set of numbers has a least one.
LEMMA LeastOf ==
  ASSUME NEW S, S \subseteq Nat, S # {}
  PROVE  \E least \in S : \A k \in S : least =< k
<1>1. PICK n \in S : \A k \in S : <<k, n>> \notin OpToRel(<, Nat)
  BY NatLessThanWellFounded, WFMin, Zenon
<1>2. \A k \in S : ~ k < n
  BY <1>1, Zenon DEF OpToRel
<1> QED BY <1>2

\* What holds at 0 and goes on from each number to the next holds up to n.
LEMMA UpTo ==
  ASSUME NEW n \in Nat, NEW good, 0 \in good,
         \A k \in 1 .. n : k - 1 \in good => k \in good
  PROVE  n \in good
<1> DEFINE bad == (0 .. n) \ good
<1>1. SUFFICES ASSUME bad # {} PROVE FALSE OBVIOUS
<1>2. PICK b \in bad : \A k \in bad : b =< k
  <2>1. bad \subseteq Nat OBVIOUS
  <2> HIDE DEF bad
  <2> QED BY <1>1, <2>1, LeastOf
<1>3. b \in 1 .. n /\ b - 1 \in 0 .. n OBVIOUS
<1>4. b - 1 \in good BY <1>2, <1>3
<1> QED BY <1>3, <1>4

\* A bounded set of numbers has a greatest one.
LEMMA GreatestOf ==
  ASSUME NEW S, S \subseteq Nat, S # {}, NEW n \in Nat, \A k \in S : k =< n
  PROVE  \E greatest \in S : \A k \in S : k =< greatest
<1> DEFINE T == {n - k : k \in S}
<1>1. T \subseteq Nat /\ T # {}
  <2>1. PICK s \in S : TRUE OBVIOUS
  <2>2. n - s \in T BY <2>1
  <2>3. \A k \in S : n - k \in Nat OBVIOUS
  <2> QED BY <2>2, <2>3
<1>2. PICK t \in T : \A k \in T : t =< k
  <2> HIDE DEF T
  <2> QED BY <1>1, LeastOf
<1>3. PICK g \in S : t = n - g OBVIOUS
<1>4. \A k \in S : n - g =< n - k BY <1>2, <1>3
<1> QED BY <1>4

\* Larger powers of larger numbers.
LEMMA PowMono == ASSUME NEW a \in Nat, NEW b \in Nat, a =< b PROVE 2 ^ a =< 2 ^ b
<1> DEFINE good == {j \in Nat : 2 ^ a =< 2 ^ (a + j)}
<1>1. 0 \in good BY Pow, a + 0 = a
<1>2. ASSUME NEW k \in 1 .. b - a, k - 1 \in good PROVE k \in good
  <2>1. 2 ^ (a + (k - 1)) \in Nat /\ 2 ^ (a + (k - 1) + 1) = 2 * 2 ^ (a + (k - 1))
    BY Pow, a + (k - 1) \in Nat
  <2>2. a + (k - 1) + 1 = a + k OBVIOUS
  <2>3. 2 ^ a \in Nat BY Pow
  <2> QED BY <1>2, <2>1, <2>2, <2>3
<1>3. b - a \in good
  <2> HIDE DEF good
  <2> QED BY <1>1, <1>2, UpTo, b - a \in Nat
<1> QED BY <1>3, a + (b - a) = b

\* The power of a sum.
LEMMA PowAdd == ASSUME NEW a \in Nat, NEW b \in Nat PROVE 2 ^ (a + b) = 2 ^ a * 2 ^ b
<1> DEFINE good == {j \in Nat : 2 ^ (a + j) = 2 ^ a * 2 ^ j}
<1>1. 0 \in good BY Pow, PowZero, a + 0 = a
<1>2. ASSUME NEW k \in 1 .. b, k - 1 \in good PROVE k \in good
  <2>1. 2 ^ (a + (k - 1) + 1) = 2 * 2 ^ (a + (k - 1)) BY Pow, a + (k - 1) \in Nat
  <2>2. 2 ^ (k - 1) \in Nat /\ 2 ^ (k - 1 + 1) = 2 * 2 ^ (k - 1) BY Pow, k - 1 \in Nat
  <2>3. a + (k - 1) + 1 = a + k /\ k - 1 + 1 = k OBVIOUS
  <2>4. 2 ^ a \in Nat BY Pow
  <2>5. 2 ^ (a + (k - 1)) = 2 ^ a * 2 ^ (k - 1) BY <1>2
  <2>6. \A x, y \in Nat : 2 * (x * y) = x * (2 * y) OBVIOUS
  <2>7. 2 ^ (a + k) = 2 * (2 ^ a * 2 ^ (k - 1)) BY <2>1, <2>3, <2>5
  <2>8. 2 * (2 ^ a * 2 ^ (k - 1)) = 2 ^ a * (2 * 2 ^ (k - 1)) BY <2>2, <2>4, <2>6
  <2>9. 2 ^ k = 2 * 2 ^ (k - 1) BY <2>2, <2>3
  <2>10. 2 ^ (a + k) = 2 ^ a * 2 ^ k BY <2>7, <2>8, <2>9
  <2> QED BY <2>10
<1>3. b \in good
  <2> HIDE DEF good
  <2> QED BY <1>1, <1>2, UpTo
<1> QED BY <1>3

-----------------------------------------------------------------------------
\* Quotient and remainder.
LEMMA DivMod ==
  ASSUME NEW x \in Nat, NEW y \in Nat \ {0}
  PROVE  x \div y \in Nat /\ x % y \in 0 .. y - 1 /\ x = y * (x \div y) + (x % y)
OBVIOUS

\* A product grows with its factor.
LEMMA MulMono ==
  ASSUME NEW x \in Nat, NEW y \in Nat, NEW z \in Nat, x =< y
  PROVE  z * x \in Nat /\ z * y \in Nat /\ z * x =< z * y
OBVIOUS

\* The quotient is what multiplied by y leaves less than y.
LEMMA DivIs ==
  ASSUME NEW x \in Nat, NEW y \in Nat \ {0}, NEW q \in Nat, y * q =< x, x < y * q + y
  PROVE  x \div y = q
<1> DEFINE d == x \div y
<1>1. d \in Nat /\ y * d =< x /\ x < y * d + y BY DivMod
<1> HIDE DEF d
<1>2. ASSUME d < q PROVE FALSE
  <2>1. y * (d + 1) =< y * q BY <1>1, <1>2, MulMono
  <2> QED BY <1>1, <2>1
<1>3. ASSUME q < d PROVE FALSE
  <2>1. y * (q + 1) =< y * d BY <1>1, <1>3, MulMono
  <2> QED BY <1>1, <2>1
<1>4. d = q BY <1>1, <1>2, <1>3
<1> QED BY <1>4 DEF d

\* A quotient is compared without dividing.
LEMMA DivOrder ==
  ASSUME NEW x \in Nat, NEW y \in Nat \ {0}, NEW q \in Nat
  PROVE  x \div y >= q <=> x >= y * q
<1> DEFINE d == x \div y
<1>1. d \in Nat /\ y * d =< x /\ x < y * d + y BY DivMod
<1> HIDE DEF d
<1>2. ASSUME d >= q PROVE x >= y * q
  <2>1. y * q =< y * d BY <1>1, <1>2, MulMono
  <2> QED BY <1>1, <2>1
<1>3. ASSUME d < q PROVE x < y * q
  <2>1. y * (d + 1) =< y * q BY <1>1, <1>3, MulMono
  <2> QED BY <1>1, <2>1
<1>4. d >= q <=> x >= y * q BY <1>1, <1>2, <1>3
<1> QED BY <1>4 DEF d
-----------------------------------------------------------------------------
\* What is left of x above its k lowest bits.
High(x, k) == x \div 2 ^ k

\* What remains of a number without its low bits, and each of its bits.
LEMMA HighNat ==
  ASSUME NEW x \in Nat, NEW k \in Nat
  PROVE  High(x, k) \in Nat /\ bit(x, k) \in {0, 1} /\ High(x, 0) = x
<1>1. 2 ^ k \in Nat \ {0} BY Pow
<1>2. High(x, k) \in Nat BY <1>1, DivMod DEF High
<1>3. bit(x, k) \in {0, 1} BY <1>2 DEF High, bit
<1>4. High(x, 0) = x BY PowZero DEF High
<1> QED BY <1>2, <1>3, <1>4

\* One bit less.
LEMMA HighStep ==
  ASSUME NEW x \in Nat, NEW k \in Nat
  PROVE  High(x, k) = 2 * High(x, k + 1) + bit(x, k)
<1> DEFINE q == High(x, k)
           y == 2 ^ k
           h == q \div 2
<1>1. y \in Nat \ {0} /\ 2 ^ (k + 1) = 2 * y BY Pow
<1>0. q = x \div y BY DEF High
<1>3. bit(x, k) = q % 2 BY DEF bit, High
<1> HIDE DEF q, y
<1>2. q \in Nat /\ y * q =< x /\ x < y * q + y
  <2>1. q \in Nat BY <1>0, <1>1, DivMod
  <2>2. x % y \in 0 .. y - 1 /\ x = y * q + (x % y) BY <1>0, <1>1, DivMod
  <2> QED BY <1>1, <2>1, <2>2
<1>9. q \in Nat BY <1>2
<1>4. h \in Nat /\ q % 2 \in 0 .. 1 /\ q = 2 * h + (q % 2) BY <1>9, DivMod
<1> HIDE DEF h
<1>10. 2 * h =< q /\ q + 1 =< 2 * h + 2 /\ 2 * h \in Nat /\ 2 * h + 2 \in Nat /\ q + 1 \in Nat
  BY <1>9, <1>4
<1>5. (2 * y) * h =< x
  <2>1. y * (2 * h) =< y * q BY <1>1, <1>9, <1>10, MulMono
  <2>2. (2 * y) * h = y * (2 * h) BY <1>1, <1>4
  <2> QED BY <1>1, <1>2, <1>4, <2>1, <2>2
<1>6. x < (2 * y) * h + 2 * y
  <2>1. y * (q + 1) =< y * (2 * h + 2) BY <1>1, <1>9, <1>10, MulMono
  <2>2. y * (2 * h + 2) = (2 * y) * h + 2 * y /\ y * (q + 1) = y * q + y BY <1>1, <1>2, <1>4
  <2> QED BY <1>1, <1>2, <1>4, <2>1, <2>2
<1>7. x \div (2 * y) = h BY <1>1, <1>4, <1>5, <1>6, DivIs, 2 * y \in Nat \ {0}
<1>8. High(x, k + 1) = h BY <1>1, <1>7 DEF High, y
<1>11. High(x, k) = 2 * h + bit(x, k) BY <1>3, <1>4 DEF q
<1> QED BY <1>8, <1>11

\* A larger number is not smaller above any bit.
LEMMA HighOrder ==
  ASSUME NEW x \in Nat, NEW y \in Nat, NEW k \in Nat, High(x, k) < High(y, k)
  PROVE  x < y
<1>1. 2 ^ k \in Nat \ {0} BY Pow
<1>2. High(x, k) \in Nat /\ High(y, k) \in Nat BY HighNat
<1>3. y >= 2 ^ k * High(y, k) BY <1>1, <1>2, DivOrder DEF High
<1>4. ~(x >= 2 ^ k * High(y, k))
  <2>1. ~(x \div 2 ^ k >= High(y, k)) BY <1>2 DEF High
  <2> QED BY <1>1, <1>2, <2>1, DivOrder
<1>5. 2 ^ k * High(y, k) \in Nat BY <1>1, <1>2
<1> QED BY <1>3, <1>4, <1>5

\* Numbers that agree above n bits and in those down to bit j agree above j.
LEMMA HighSame ==
  ASSUME NEW x \in Nat, NEW y \in Nat, NEW n \in Nat, NEW j \in 0 .. n, High(x, n) = High(y, n),
         \A k \in j .. n - 1 : bit(x, k) = bit(y, k)
  PROVE  High(x, j) = High(y, j)
<1> DEFINE good == {d \in 0 .. n - j : High(x, n - d) = High(y, n - d)}
<1>1. 0 \in good BY n - 0 = n
<1>2. ASSUME NEW d \in 1 .. n - j, d - 1 \in good PROVE d \in good
  <2>1. n - d \in j .. n - 1 /\ n - d \in Nat /\ n - d + 1 = n - (d - 1) OBVIOUS
  <2>2. High(x, n - d) = 2 * High(x, n - d + 1) + bit(x, n - d) BY <2>1, HighStep
  <2>3. High(y, n - d) = 2 * High(y, n - d + 1) + bit(y, n - d) BY <2>1, HighStep
  <2>4. High(x, n - (d - 1)) = High(y, n - (d - 1)) BY <1>2
  <2>5. bit(x, n - d) = bit(y, n - d) BY <2>1
  <2>6. High(x, n - d) = High(y, n - d) BY <2>1, <2>2, <2>3, <2>4, <2>5
  <2> QED BY <2>6
<1>3. n - j \in good
  <2> HIDE DEF good
  <2> QED BY <1>1, <1>2, UpTo, n - j \in Nat
<1> QED BY <1>3, n - (n - j) = j

\* The first bit from the top in which numbers differ orders them.
LEMMA BitOrder ==
  ASSUME NEW x \in Nat, NEW y \in Nat, NEW n \in Nat, NEW j \in 0 .. n - 1, High(x, n) = High(y, n),
         \A k \in j + 1 .. n - 1 : bit(x, k) = bit(y, k), bit(x, j) = 0, bit(y, j) = 1
  PROVE  x < y
<1>1. High(x, j + 1) = High(y, j + 1) BY HighSame, j + 1 \in 0 .. n
<1>2. /\ High(x, j) = 2 * High(x, j + 1) + bit(x, j)
      /\ High(y, j) = 2 * High(y, j + 1) + bit(y, j)
      /\ High(x, j + 1) \in Nat
  BY HighStep, HighNat
<1>3. High(x, j) < High(y, j) BY <1>1, <1>2
<1> QED BY <1>3, HighOrder
-----------------------------------------------------------------------------
\* The constants of the bins.
LEMMA BinConstants ==
  /\ TREEBIN_SHIFT \in Nat /\ TREEBIN_SHIFT >= 2 /\ SIZE_T_BITSIZE \in Nat /\ SIZE_T_BITSIZE >= 2
  /\ \E h \in Nat \ {0} : NTREEBINS = 2 * h /\ h + TREEBIN_SHIFT =< SIZE_T_BITSIZE /\ NTREEBINS \div 2 = h
<1>1. /\ TREEBIN_SHIFT \in Nat \ {0, 1} /\ SIZE_T_BITSIZE \in Nat \ {0, 1} /\ NTREEBINS \in Nat \ {0, 1}
      /\ NTREEBINS % 2 = 0 /\ NTREEBINS \div 2 + TREEBIN_SHIFT =< SIZE_T_BITSIZE
  BY BinsAssumption
<1>2. NTREEBINS \div 2 \in Nat \ {0} /\ NTREEBINS = 2 * (NTREEBINS \div 2) BY <1>1
<1> QED BY <1>1, <1>2

\* Every number has its power of two.
LEMMA LevelExists ==
  ASSUME NEW x \in Nat \ {0}, NEW b \in Nat, x < 2 ^ b
  PROVE  \E n \in 0 .. b : 2 ^ n =< x /\ x < 2 ^ (n + 1)
<1> DEFINE S == {n \in Nat : x < 2 ^ n}
<1>1. PICK n \in S : \A k \in S : n =< k
  <2>1. b \in S OBVIOUS
  <2> HIDE DEF S
  <2>2. S \subseteq Nat BY DEF S
  <2> QED BY <2>1, <2>2, LeastOf
<1>2. n # 0
  <2>1. x < 2 ^ n /\ ~(x < 1) BY <1>1
  <2>2. n = 0 => 2 ^ n = 1 BY PowZero
  <2> QED BY <2>1, <2>2
<1>3. n - 1 \in Nat /\ n - 1 \notin S BY <1>1, <1>2
<1>4. 2 ^ (n - 1) =< x BY <1>3, Pow
<1>5. n =< b BY <1>1
<1>6. n - 1 + 1 = n /\ x < 2 ^ n BY <1>1
<1>7. n - 1 \in 0 .. b BY <1>3, <1>5
<1> QED BY <1>4, <1>6, <1>7

\* A size that is not small lies between two powers of two, and the index is
\* that of the lower one and of the bit below it, or the last.
LEMMA IndexIs ==
  ASSUME NEW s \in NSMALLBINS .. MAX_SIZE_T
  PROVE  \E k \in 0 .. SIZE_T_BITSIZE :
           /\ 2 ^ (k + TREEBIN_SHIFT) =< s /\ s < 2 ^ (k + 1 + TREEBIN_SHIFT)
           /\ compute_tree_index(s) = IF k >= NTREEBINS \div 2 THEN NTREEBINS - 1
                                      ELSE 2 * k + bit(s, k + TREEBIN_SHIFT - 1)
<1> DEFINE t == TREEBIN_SHIFT
           x == s \div 2 ^ t
           P(n) == 2 ^ n =< x /\ x < 2 ^ (n + 1)
           k == CHOOSE n \in 0 .. SIZE_T_BITSIZE : P(n)
<1>0. PICK h \in Nat \ {0} : NTREEBINS = 2 * h /\ h + t =< SIZE_T_BITSIZE /\ NTREEBINS \div 2 = h
  BY BinConstants
<1>1. t \in Nat /\ SIZE_T_BITSIZE \in Nat BY BinConstants
<1>2. 2 ^ t \in Nat \ {0} /\ 2 ^ SIZE_T_BITSIZE \in Nat \ {0} BY <1>1, Pow
<1>3. s \in Nat /\ s >= 2 ^ t /\ s < 2 ^ SIZE_T_BITSIZE BY <1>2 DEF NSMALLBINS, MAX_SIZE_T
<1>4. x \in Nat \ {0}
  <2>1. x >= 1
    <3>1. s >= 2 ^ t * 1 BY <1>2, <1>3
    <3> QED BY <1>2, <1>3, <3>1, DivOrder
  <2>2. x \in Nat BY <1>2, <1>3, DivMod
  <2> QED BY <2>1, <2>2
<1>5. x < 2 ^ SIZE_T_BITSIZE
  <2>1. x =< s
    <3>1. 2 ^ t * x =< s
      <4>1. s \div 2 ^ t >= x BY <1>4
      <4> QED BY <1>2, <1>3, <1>4, <4>1, DivOrder
    <3>2. x * 1 =< x * 2 ^ t BY <1>2, <1>4, MulMono
    <3> HIDE DEF x
    <3> QED BY <1>2, <1>3, <1>4, <3>1, <3>2
  <2> QED BY <1>2, <1>3, <1>4, <2>1
<1> HIDE DEF x
<1>6. \E n \in 0 .. SIZE_T_BITSIZE : P(n) BY <1>1, <1>4, <1>5, LevelExists
<1>7. k \in 0 .. SIZE_T_BITSIZE /\ P(k)
  <2> HIDE DEF P
  <2> QED BY <1>6
<1>8. compute_tree_index(s) = IF x = 0 THEN 0
                              ELSE IF x >= 2 ^ (NTREEBINS \div 2) THEN NTREEBINS - 1
                              ELSE 2 * k + bit(s, k + TREEBIN_SHIFT - 1)
  BY Zenon DEF compute_tree_index, x, k, P, NSMALLBINS, t
<1> HIDE DEF k
<1>9. k \in Nat /\ 2 ^ k \in Nat /\ 2 ^ (k + 1) \in Nat BY <1>7, Pow, k + 1 \in Nat
<1>10. 2 ^ (k + t) =< s
  <2>1. s >= 2 ^ t * 2 ^ k BY <1>2, <1>3, <1>7, <1>9, DivOrder DEF x
  <2>2. 2 ^ (k + t) = 2 ^ k * 2 ^ t BY <1>1, <1>9, PowAdd
  <2> QED BY <1>2, <1>3, <1>9, <2>1, <2>2
<1>11. s < 2 ^ (k + 1 + t)
  <2>1. ~(s >= 2 ^ t * 2 ^ (k + 1)) 
    <3>1. ~(x >= 2 ^ (k + 1)) BY <1>4, <1>7, <1>9
    <3> QED BY <1>2, <1>3, <1>9, <3>1, DivOrder DEF x
  <2>2. 2 ^ (k + 1 + t) = 2 ^ (k + 1) * 2 ^ t BY <1>1, <1>9, PowAdd, k + 1 \in Nat
  <2>3. 2 ^ t * 2 ^ (k + 1) = 2 ^ (k + 1) * 2 ^ t /\ 2 ^ t * 2 ^ (k + 1) \in Nat BY <1>2, <1>9
  <2> QED BY <1>3, <2>1, <2>2, <2>3
<1>12. x >= 2 ^ (NTREEBINS \div 2) <=> k >= NTREEBINS \div 2
  <2>1. 2 ^ h \in Nat BY <1>0, Pow
  <2>2. ASSUME k >= h PROVE x >= 2 ^ h
    <3>1. 2 ^ h =< 2 ^ k BY <1>0, <1>9, <2>2, PowMono
    <3> QED BY <1>4, <1>7, <1>9, <2>1, <3>1
  <2>3. ASSUME k < h PROVE x < 2 ^ h
    <3>1. 2 ^ (k + 1) =< 2 ^ h BY <1>0, <1>9, <2>3, PowMono, k + 1 \in Nat
    <3> QED BY <1>4, <1>7, <1>9, <2>1, <3>1
  <2>4. x >= 2 ^ h <=> k >= h BY <1>0, <1>4, <1>9, <2>1, <2>2, <2>3
  <2> QED BY <2>4, <1>0
<1>13. compute_tree_index(s) = IF k >= NTREEBINS \div 2 THEN NTREEBINS - 1
                               ELSE 2 * k + bit(s, k + TREEBIN_SHIFT - 1)
  <2>1. x # 0 BY <1>4
  <2> QED BY <1>8, <1>12, <2>1, Zenon
<1> QED BY <1>7, <1>10, <1>11, <1>13
\* The turns in a treebin, and what all its sizes have above the bits of those.
Depth(i) == bit_for_tree_index(i) + 1
\* The bits that all sizes of a bin have in common.
Base(i) == IF i = NTREEBINS - 1 THEN 0 ELSE 2 + (i % 2)

\* The bin indices of the two halves of a power of two.
LEMMA Halves ==
  ASSUME NEW k \in Nat
  PROVE  /\ (2 * k) \div 2 = k /\ (2 * k + 1) \div 2 = k
         /\ (2 * k) % 2 = 0 /\ (2 * k + 1) % 2 = 1
OBVIOUS

\* The turns of a treebin begin at a bit of the word.
LEMMA DepthRange == ASSUME NEW i \in 0 .. NTREEBINS - 1 PROVE Depth(i) \in 1 .. SIZE_T_BITSIZE
<1>1. PICK h \in Nat \ {0} : NTREEBINS = 2 * h /\ h + TREEBIN_SHIFT =< SIZE_T_BITSIZE /\ NTREEBINS \div 2 = h
  BY BinConstants
<1>2. i \div 2 \in 0 .. h - 1 BY <1>1
<1> QED BY <1>1, <1>2, BinConstants DEF Depth, bit_for_tree_index

\* The least sizes of the two treebins of a power of two.
LEMMA MinsizeIs ==
  ASSUME NEW k \in Nat
  PROVE  LET y == 2 ^ (k + TREEBIN_SHIFT - 1)
         IN  /\ y \in Nat \ {0} /\ 2 ^ (k + TREEBIN_SHIFT) = 2 * y /\ 2 ^ (k + 1 + TREEBIN_SHIFT) = 4 * y
             /\ minsize_for_tree_index(2 * k) = 2 * y
             /\ minsize_for_tree_index(2 * k + 1) = 3 * y
             /\ minsize_for_tree_index(2 * k + 2) = 4 * y
<1> DEFINE y == 2 ^ (k + TREEBIN_SHIFT - 1)
<1>1. TREEBIN_SHIFT \in Nat /\ TREEBIN_SHIFT >= 2 BY BinConstants
<1>2. y \in Nat \ {0} /\ 2 ^ (k + TREEBIN_SHIFT - 1 + 1) = 2 * y
  BY <1>1, Pow, k + TREEBIN_SHIFT - 1 \in Nat
<1>3. k + TREEBIN_SHIFT - 1 + 1 = k + TREEBIN_SHIFT /\ k + 1 + TREEBIN_SHIFT - 1 = k + TREEBIN_SHIFT
      /\ k + TREEBIN_SHIFT + 1 = k + 1 + TREEBIN_SHIFT
  BY <1>1
<1>4. 2 ^ (k + TREEBIN_SHIFT) = 2 * y BY <1>2, <1>3
<1>5. 2 ^ (k + TREEBIN_SHIFT + 1) = 2 * 2 ^ (k + TREEBIN_SHIFT) BY <1>1, Pow, k + TREEBIN_SHIFT \in Nat
<1>6. 2 ^ (k + 1 + TREEBIN_SHIFT) = 4 * y BY <1>2, <1>3, <1>4, <1>5
<1> HIDE DEF y
<1>7. minsize_for_tree_index(2 * k) = 2 * y
  <2>1. minsize_for_tree_index(2 * k) = 2 ^ (k + TREEBIN_SHIFT) + 0 * y
    BY Halves, Zenon DEF minsize_for_tree_index, y
  <2> QED BY <1>2, <1>4, <2>1
<1>8. minsize_for_tree_index(2 * k + 1) = 3 * y
  <2>1. minsize_for_tree_index(2 * k + 1) = 2 ^ (k + TREEBIN_SHIFT) + 1 * y
    BY Halves, Zenon DEF minsize_for_tree_index, y
  <2> QED BY <1>2, <1>4, <2>1
<1>9. minsize_for_tree_index(2 * k + 2) = 4 * y
  <2>1. 2 * k + 2 = 2 * (k + 1) /\ (2 * (k + 1)) \div 2 = k + 1 /\ (2 * (k + 1)) % 2 = 0
    BY Halves, k + 1 \in Nat
  <2>2. minsize_for_tree_index(2 * (k + 1)) = 2 ^ (k + 1 + TREEBIN_SHIFT) + 0 * 2 ^ (k + 1 + TREEBIN_SHIFT - 1)
    BY <2>1, Zenon DEF minsize_for_tree_index
  <2>3. 2 ^ (k + 1 + TREEBIN_SHIFT - 1) = 2 * y BY <1>3, <1>4
  <2>4. minsize_for_tree_index(2 * (k + 1)) = 4 * y + 0 * (2 * y) BY <2>2, <2>3, <1>6
  <2> QED BY <1>2, <2>1, <2>4
<1> QED BY <1>2, <1>4, <1>6, <1>7, <1>8, <1>9 DEF y

\* The treebin of a size begins at or below it and ends above it, and fixes the
\* bits of the size above those that its turns look at.
LEMMA IndexFacts ==
  ASSUME NEW s \in NSMALLBINS .. MAX_SIZE_T
  PROVE  LET i == compute_tree_index(s)
         IN  /\ s \in Nat /\ i \in 0 .. NTREEBINS - 1 /\ High(s, Depth(i)) = Base(i)
             /\ minsize_for_tree_index(i) =< s
             /\ i # NTREEBINS - 1 => s < minsize_for_tree_index(i + 1)
<1>0. PICK h \in Nat \ {0} : NTREEBINS = 2 * h /\ h + TREEBIN_SHIFT =< SIZE_T_BITSIZE /\ NTREEBINS \div 2 = h
  BY BinConstants
<1>1. PICK k \in 0 .. SIZE_T_BITSIZE :
           /\ 2 ^ (k + TREEBIN_SHIFT) =< s /\ s < 2 ^ (k + 1 + TREEBIN_SHIFT)
           /\ compute_tree_index(s) = IF k >= NTREEBINS \div 2 THEN NTREEBINS - 1
                                      ELSE 2 * k + bit(s, k + TREEBIN_SHIFT - 1)
  BY IndexIs
<1> DEFINE i == compute_tree_index(s)
           b == bit(s, k + TREEBIN_SHIFT - 1)
           y == 2 ^ (k + TREEBIN_SHIFT - 1)
<1>2. TREEBIN_SHIFT \in Nat /\ TREEBIN_SHIFT >= 2 /\ k \in Nat /\ SIZE_T_BITSIZE \in Nat BY BinConstants
<1>3. s \in Nat /\ s < 2 ^ SIZE_T_BITSIZE /\ 2 ^ SIZE_T_BITSIZE \in Nat \ {0}
  <2>1. 2 ^ SIZE_T_BITSIZE \in Nat \ {0} /\ 2 ^ TREEBIN_SHIFT \in Nat BY <1>2, Pow
  <2> QED BY <2>1 DEF NSMALLBINS, MAX_SIZE_T
<1>4. /\ y \in Nat \ {0} /\ 2 ^ (k + TREEBIN_SHIFT) = 2 * y /\ 2 ^ (k + 1 + TREEBIN_SHIFT) = 4 * y
      /\ minsize_for_tree_index(2 * k) = 2 * y
      /\ minsize_for_tree_index(2 * k + 1) = 3 * y
      /\ minsize_for_tree_index(2 * k + 2) = 4 * y
  BY <1>2, MinsizeIs
<1>5. High(s, k + TREEBIN_SHIFT - 1) = 2 + b /\ b \in {0, 1}
  <2>1. k + TREEBIN_SHIFT - 1 \in Nat BY <1>2
  <2>2. b \in {0, 1} /\ High(s, k + TREEBIN_SHIFT - 1) \in Nat BY <1>3, <2>1, HighNat
  <2>3. b = High(s, k + TREEBIN_SHIFT - 1) % 2 BY DEF bit, High
  <2>4. High(s, k + TREEBIN_SHIFT - 1) >= 2
    <3>1. s >= y * 2 BY <1>1, <1>3, <1>4
    <3> QED BY <1>3, <1>4, <3>1, DivOrder DEF High
  <2>5. ~(High(s, k + TREEBIN_SHIFT - 1) >= 4)
    <3>1. ~(s >= y * 4) BY <1>1, <1>3, <1>4
    <3> QED BY <1>3, <1>4, <3>1, DivOrder DEF High
  <2> HIDE DEF b
  <2>6. High(s, k + TREEBIN_SHIFT - 1) \in {2, 3} BY <2>2, <2>4, <2>5
  <2> QED BY <2>2, <2>3, <2>6
<1>6. (2 + b) * y =< s /\ s < (3 + b) * y
  <2>1. High(s, k + TREEBIN_SHIFT - 1) = s \div y BY DEF High
  <2> HIDE DEF y, b
  <2>2. s >= y * (2 + b)
    <3>1. s \div y >= 2 + b BY <1>5, <2>1
    <3> QED BY <1>3, <1>4, <1>5, <3>1, DivOrder, 2 + b \in Nat
  <2>3. ~(s >= y * (3 + b))
    <3>1. ~(s \div y >= 3 + b) BY <1>5, <2>1
    <3> QED BY <1>3, <1>4, <1>5, <3>1, DivOrder, 3 + b \in Nat
  <2>4. b = 0 \/ b = 1 BY <1>5
  <2> QED BY <1>3, <1>4, <2>2, <2>3, <2>4
<1>7. CASE k >= h
  <2>1. i = NTREEBINS - 1 BY <1>0, <1>1, <1>7
  <2>2. High(s, SIZE_T_BITSIZE) = 0
    <3>1. High(s, SIZE_T_BITSIZE) \in Nat BY <1>2, <1>3, HighNat
    <3>2. ~(s >= 2 ^ SIZE_T_BITSIZE * 1) BY <1>3
    <3>3. ~(High(s, SIZE_T_BITSIZE) >= 1) BY <1>3, <3>2, DivOrder DEF High
    <3> QED BY <3>1, <3>3
  <2>3. Depth(i) = SIZE_T_BITSIZE /\ Base(i) = 0 BY <2>1, <1>2 DEF Depth, Base, bit_for_tree_index
  <2>4. minsize_for_tree_index(i) =< s
    <3> DEFINE z == 2 ^ (h - 1 + TREEBIN_SHIFT - 1)
    <3>1. z \in Nat /\ minsize_for_tree_index(2 * (h - 1) + 1) = 3 * z /\ 2 ^ (h - 1 + 1 + TREEBIN_SHIFT) = 4 * z
      BY MinsizeIs, h - 1 \in Nat
    <3>2. 2 * (h - 1) + 1 = i /\ h - 1 + 1 + TREEBIN_SHIFT = h + TREEBIN_SHIFT BY <1>0, <1>2, <2>1
    <3>3. 2 ^ (h + TREEBIN_SHIFT) =< 2 ^ (k + TREEBIN_SHIFT) BY <1>0, <1>2, <1>7, PowMono
    <3> HIDE DEF z, i
    <3>4. minsize_for_tree_index(i) = 3 * z /\ 2 ^ (h + TREEBIN_SHIFT) = 4 * z BY <3>1, <3>2
    <3> QED BY <1>1, <1>3, <1>4, <3>1, <3>3, <3>4
  <2>5. i \in 0 .. NTREEBINS - 1 BY <2>1, <1>0
  <2> QED BY <1>3, <2>1, <2>2, <2>3, <2>4, <2>5
<1>8. CASE k < h
  <2>1. i = 2 * k + b BY <1>0, <1>1, <1>2, <1>8
  <2> HIDE DEF b, i, y
  <2>2. b = 0 \/ b = 1 BY <1>5
  <2>3. i \in 0 .. NTREEBINS - 1 BY <1>0, <1>2, <1>8, <2>1, <2>2
  <2>4. i \div 2 = k /\ i % 2 = b BY <1>2, <2>1, <2>2, Halves
  <2>5. minsize_for_tree_index(i) =< s /\ s < minsize_for_tree_index(i + 1)
    <3>1. CASE b = 0
      <4>1. i = 2 * k /\ i + 1 = 2 * k + 1 BY <1>2, <2>1, <3>1
      <4>2. minsize_for_tree_index(i) = 2 * y /\ minsize_for_tree_index(i + 1) = 3 * y BY <4>1, <1>4
      <4> QED BY <4>2, <3>1, <1>3, <1>4, <1>6
    <3>2. CASE b = 1
      <4>1. i = 2 * k + 1 /\ i + 1 = 2 * k + 2 BY <1>2, <2>1, <3>2
      <4>2. minsize_for_tree_index(i) = 3 * y /\ minsize_for_tree_index(i + 1) = 4 * y BY <4>1, <1>4
      <4> QED BY <4>2, <3>2, <1>3, <1>4, <1>6
    <3> QED BY <2>2, <3>1, <3>2
  <2>6. High(s, Depth(i)) = Base(i)
    <3>1. CASE i = NTREEBINS - 1
      <4>1. High(s, SIZE_T_BITSIZE) \in Nat BY <1>2, <1>3, HighNat
      <4>2. ~(s >= 2 ^ SIZE_T_BITSIZE * 1) BY <1>3
      <4>3. ~(High(s, SIZE_T_BITSIZE) >= 1) BY <1>3, <4>2, DivOrder DEF High
      <4>4. Depth(i) = SIZE_T_BITSIZE /\ Base(i) = 0 BY <3>1, <1>2 DEF Depth, Base, bit_for_tree_index
      <4> QED BY <4>1, <4>3, <4>4
    <3>2. CASE i # NTREEBINS - 1
      <4>1. Depth(i) = k + TREEBIN_SHIFT - 1 BY <1>2, <2>4, <3>2 DEF Depth, bit_for_tree_index
      <4>2. Base(i) = 2 + b
        <5>1. Base(i) = 2 + (i % 2) BY <3>2 DEF Base
        <5>2. i % 2 = b BY <2>4
        <5> QED BY <5>1, <5>2
      <4> QED BY <1>5, <4>1, <4>2
    <3> QED BY <3>1, <3>2
  <2> QED BY <1>3, <2>3, <2>5, <2>6 DEF i
<1>9. k >= h \/ k < h BY <1>0, <1>2
<1> QED BY <1>7, <1>8, <1>9
\* The bins are in the order of their sizes.
LEMMA MinsizeMono ==
  ASSUME NEW i \in Nat, NEW j \in Nat, i =< j
  PROVE  /\ minsize_for_tree_index(i) \in Nat /\ minsize_for_tree_index(j) \in Nat
         /\ minsize_for_tree_index(i) =< minsize_for_tree_index(j)
<1>1. ASSUME NEW n \in Nat
      PROVE  /\ minsize_for_tree_index(n) \in Nat /\ minsize_for_tree_index(n + 1) \in Nat
             /\ minsize_for_tree_index(n) =< minsize_for_tree_index(n + 1)
  <2>1. PICK k \in Nat : n = 2 * k \/ n = 2 * k + 1
    <3>1. n \div 2 \in Nat /\ (n = 2 * (n \div 2) \/ n = 2 * (n \div 2) + 1) OBVIOUS
    <3> QED BY <3>1
  <2> DEFINE y == 2 ^ (k + TREEBIN_SHIFT - 1)
  <2>2. /\ y \in Nat
        /\ minsize_for_tree_index(2 * k) = 2 * y
        /\ minsize_for_tree_index(2 * k + 1) = 3 * y
        /\ minsize_for_tree_index(2 * k + 2) = 4 * y
    BY MinsizeIs
  <2> HIDE DEF y
  <2>3. (2 * k) + 1 = 2 * k + 1 /\ (2 * k + 1) + 1 = 2 * k + 2 OBVIOUS
  <2>4. CASE n = 2 * k BY <2>2, <2>4
  <2>5. CASE n = 2 * k + 1
    <3>1. n + 1 = 2 * k + 2 BY <2>5
    <3>2. minsize_for_tree_index(n) = 3 * y /\ minsize_for_tree_index(n + 1) = 4 * y BY <2>2, <2>5, <3>1
    <3> QED BY <2>2, <3>2
  <2> QED BY <2>1, <2>4, <2>5
<1> DEFINE good == {d \in Nat : minsize_for_tree_index(i) =< minsize_for_tree_index(i + d)}
<1>2. 0 \in good BY <1>1, i + 0 = i
<1>3. ASSUME NEW d \in 1 .. j - i, d - 1 \in good PROVE d \in good
  <2>1. i + (d - 1) \in Nat /\ i + (d - 1) + 1 = i + d OBVIOUS
  <2>2. /\ minsize_for_tree_index(i + (d - 1)) \in Nat /\ minsize_for_tree_index(i + d) \in Nat
        /\ minsize_for_tree_index(i + (d - 1)) =< minsize_for_tree_index(i + d)
    BY <1>1, <2>1
  <2>3. minsize_for_tree_index(i) =< minsize_for_tree_index(i + (d - 1)) BY <1>3
  <2>4. minsize_for_tree_index(i) \in Nat BY <1>1
  <2> QED BY <2>2, <2>3, <2>4
<1>4. j - i \in good
  <2> HIDE DEF good
  <2> QED BY <1>2, <1>3, UpTo, j - i \in Nat
<1>5. i + (j - i) = j OBVIOUS
<1> QED BY <1>1, <1>4, <1>5

\* What is in an earlier treebin is smaller.
LEMMA IndexOrder ==
  ASSUME NEW s \in NSMALLBINS .. MAX_SIZE_T, NEW t \in NSMALLBINS .. MAX_SIZE_T,
         compute_tree_index(s) < compute_tree_index(t)
  PROVE  s < t
<1> DEFINE i == compute_tree_index(s)
           j == compute_tree_index(t)
<1>1. s \in Nat /\ i \in 0 .. NTREEBINS - 1 /\ (i # NTREEBINS - 1 => s < minsize_for_tree_index(i + 1))
  BY IndexFacts
<1>2. t \in Nat /\ j \in 0 .. NTREEBINS - 1 /\ minsize_for_tree_index(j) =< t
  BY IndexFacts
<1>3. i < j OBVIOUS
<1> HIDE DEF i, j
<1>4. \E h \in Nat : NTREEBINS = 2 * h BY BinConstants
<1>5. i # NTREEBINS - 1 /\ i + 1 \in Nat /\ j \in Nat /\ i + 1 =< j BY <1>1, <1>2, <1>3, <1>4
<1>6. /\ minsize_for_tree_index(i + 1) \in Nat /\ minsize_for_tree_index(j) \in Nat
      /\ minsize_for_tree_index(i + 1) =< minsize_for_tree_index(j)
  BY <1>5, MinsizeMono
<1> QED BY <1>1, <1>2, <1>5, <1>6

\* The turns of a size are its bits, from the highest that its treebin tells.
LEMMA TurnsAre ==
  ASSUME NEW s \in Nat, NEW i \in 0 .. NTREEBINS - 1
  PROVE  /\ Turns(s, i) \in Seq({0, 1}) /\ Len(Turns(s, i)) = Depth(i) /\ DOMAIN Turns(s, i) = 1 .. Depth(i)
         /\ \A k \in 1 .. Depth(i) : Turns(s, i)[k] = bit(s, Depth(i) - k)
<1>1. Depth(i) \in Nat BY DepthRange, BinConstants
<1>2. Turns(s, i) = [k \in 1 .. Depth(i) |-> bit(s, Depth(i) - k)]
  <2> DEFINE top == bit_for_tree_index(i)
  <2>1. top \in Int /\ Depth(i) = top + 1
    <3>1. i \div 2 \in Nat BY BinConstants
    <3> QED BY <3>1, BinConstants DEF bit_for_tree_index, Depth
  <2>2. Turns(s, i) = [k \in 1 .. Depth(i) |-> bit(s, top + 1 - k)] BY Zenon DEF Turns, Depth
  <2> HIDE DEF top
  <2>3. \A k \in 1 .. Depth(i) : top + 1 - k = Depth(i) - k BY <1>1, <2>1
  <2>4. \A k \in 1 .. Depth(i) : bit(s, top + 1 - k) = bit(s, Depth(i) - k) BY <2>3, Zenon
  <2> QED BY <2>2, <2>4, Zenon
<1>3. \A k \in 1 .. Depth(i) : bit(s, Depth(i) - k) \in {0, 1}
  <2>1. \A k \in 1 .. Depth(i) : Depth(i) - k \in Nat BY <1>1
  <2> QED BY <2>1, HighNat
<1>4. Turns(s, i) \in [1 .. Depth(i) -> {0, 1}] BY <1>2, <1>3, Zenon
<1> HIDE DEF Turns
<1>5. Turns(s, i) \in Seq({0, 1}) BY <1>1, <1>4
<1> QED BY <1>1, <1>2, <1>4, <1>5
\* Sizes of chunks for a treebin.
LargeSizes == NSMALLBINS .. MAX_SIZE_T
\* Those of the treebin i.
SizesOf(i) == {s \in LargeSizes : compute_tree_index(s) = i}

\* Sizes of one treebin are ordered by the first turn in which they differ, and
\* are the same if there is none.
LEMMA TurnsOrder ==
  ASSUME NEW i \in 0 .. NTREEBINS - 1, NEW s \in SizesOf(i), NEW t \in SizesOf(i), NEW k \in 1 .. Depth(i),
         \A j \in 1 .. k - 1 : Turns(s, i)[j] = Turns(t, i)[j],
         Turns(s, i)[k] = 0, Turns(t, i)[k] = 1
  PROVE  s < t
<1> DEFINE d == Depth(i)
           n == d - k
<1>1. d \in Nat BY DepthRange, BinConstants
<1>2. s \in Nat /\ t \in Nat /\ High(s, d) = High(t, d) BY IndexFacts DEF SizesOf, LargeSizes
<1>3. /\ \A j \in 1 .. d : Turns(s, i)[j] = bit(s, d - j)
      /\ \A j \in 1 .. d : Turns(t, i)[j] = bit(t, d - j)
  BY <1>2, TurnsAre
<1> HIDE DEF d
<1>4. k \in 1 .. d BY DEF d
<1>5. n \in 0 .. d - 1 BY <1>1, <1>4
<1>6. bit(s, n) = 0 /\ bit(t, n) = 1 BY <1>3, <1>4
<1>7. ASSUME NEW b \in n + 1 .. d - 1 PROVE bit(s, b) = bit(t, b)
  <2>1. d - b \in 1 .. k - 1 /\ d - b \in 1 .. d /\ d - (d - b) = b BY <1>1, <1>4
  <2>2. bit(s, d - (d - b)) = bit(t, d - (d - b)) BY <1>3, <2>1
  <2> QED BY <2>1, <2>2
<1> QED BY <1>1, <1>2, <1>5, <1>6, <1>7, BitOrder

\* No two sizes of a bin take the same turns.
LEMMA TurnsSame ==
  ASSUME NEW i \in 0 .. NTREEBINS - 1, NEW s \in SizesOf(i), NEW t \in SizesOf(i),
         \A j \in 1 .. Depth(i) : Turns(s, i)[j] = Turns(t, i)[j]
  PROVE  s = t
<1> DEFINE d == Depth(i)
<1>1. d \in Nat BY DepthRange, BinConstants
<1>2. s \in Nat /\ t \in Nat /\ High(s, d) = High(t, d) BY IndexFacts DEF SizesOf, LargeSizes
<1>3. /\ \A j \in 1 .. d : Turns(s, i)[j] = bit(s, d - j)
      /\ \A j \in 1 .. d : Turns(t, i)[j] = bit(t, d - j)
  BY <1>2, TurnsAre
<1>4. \A j \in 1 .. d : Turns(s, i)[j] = Turns(t, i)[j] OBVIOUS
<1> HIDE DEF d
<1>5. ASSUME NEW b \in 0 .. d - 1 PROVE bit(s, b) = bit(t, b)
  <2>1. d - b \in 1 .. d /\ d - (d - b) = b BY <1>1
  <2>2. bit(s, d - (d - b)) = bit(t, d - (d - b)) BY <1>3, <1>4, <2>1
  <2> QED BY <2>1, <2>2
<1>6. High(s, 0) = High(t, 0) BY <1>1, <1>2, <1>5, HighSame, 0 \in 0 .. d
<1> QED BY <1>2, <1>6, HighNat

-----------------------------------------------------------------------------
(* The heap of more_core and the pages behind it (Kmm).                    *)

\* The assumptions on the pages.
LEMMA Constants == page_size \in Nat \ {0} /\ HeapPages \in Nat \ {0} /\ MaxDiff \in Nat \ {0}
BY KmmAssumption

\* div_ceil rounds up: k pages hold less than x bytes exactly when k < div_ceil.
LEMMA DivCeil ==
  ASSUME NEW x \in Nat, NEW y \in Nat \ {0}, NEW k \in Nat
  PROVE  div_ceil(x, y) \in Nat /\ (y * k < x <=> k < div_ceil(x, y))
<1> DEFINE d == x \div y
           r == x % y
<1>1. d \in Nat /\ r \in 0 .. y - 1 /\ x = y * d + r BY DivMod
<1>2. ASSUME k < d PROVE y * k < x
  <2>1. y * (k + 1) =< y * d BY <1>1, <1>2, MulMono
  <2>2. y * (k + 1) = y * k + y OBVIOUS
  <2> QED BY <1>1, <2>1, <2>2
<1>3. ASSUME k > d PROVE ~(y * k < x)
  <2>1. y * (d + 1) =< y * k BY <1>1, <1>3, MulMono
  <2>2. y * (d + 1) = y * d + y BY <1>1
  <2> QED BY <1>1, <2>1, <2>2
<1>4. ASSUME k = d PROVE y * k < x <=> r # 0
  BY <1>1, <1>4
<1>5. y * k < x <=> k < (IF r # 0 THEN d + 1 ELSE d)
  BY <1>1, <1>2, <1>3, <1>4
<1> HIDE DEF d, r
<1> QED BY <1>1, <1>5 DEF d, r, div_ceil

\* All pages before the run hold old bytes, the pages up to its end hold all
\* new bytes, and no page of it lies beyond the new end.
LEMMA NewPagesCover ==
  ASSUME NEW size \in Nat, NEW diff \in Nat \ {0}
  PROVE  LET run == NewPages(size, diff)
         IN  /\ run.vp \in Nat /\ run.count \in Nat
             /\ \A p \in Nat : p < run.vp => page_size * p < size
             /\ \A p \in Nat : page_size * p < size + diff => p < run.vp + run.count
             /\ \A p \in Pages(run) : page_size * p =< size + diff
<1> DEFINE run == NewPages(size, diff)
           q == size \div page_size
           e == (size + diff) \div page_size
<1>1. q \in Nat /\ size % page_size \in 0 .. page_size - 1 /\ size = page_size * q + (size % page_size)
  BY DivMod, Constants
<1>2. /\ e \in Nat /\ (size + diff) % page_size \in 0 .. page_size - 1
      /\ size + diff = page_size * e + ((size + diff) % page_size)
  BY DivMod, Constants, size + diff \in Nat
<1>3. CASE size % page_size = 0
  <2>1. run.vp = q /\ run.count = div_ceil(diff, page_size) BY <1>3 DEF NewPages
  <2>2. run.count \in Nat BY <2>1, DivCeil, Constants
  <2>3. ASSUME NEW p \in Nat, p < q PROVE page_size * p < size
    <3>1. page_size * (p + 1) =< page_size * q BY <1>1, <2>3, MulMono, Constants
    <3>2. page_size * (p + 1) = page_size * p + page_size BY Constants
    <3> QED BY <1>1, <1>3, <3>1, <3>2, Constants
  <2>4. ASSUME NEW p \in Nat, p >= q
        PROVE  /\ p - q \in Nat
               /\ page_size * p = size + page_size * (p - q)
    <3>1. page_size * p = page_size * q + page_size * (p - q) BY <1>1, Constants
    <3> QED BY <1>1, <1>3, <2>4, <3>1, Constants
  <2>5. ASSUME NEW p \in Nat, page_size * p < size + diff PROVE p < q + run.count
    <3>1. CASE p < q BY <3>1, <2>2, <1>1
    <3>2. CASE p >= q
      <4>1. page_size * (p - q) < diff BY <2>4, <2>5, <3>2, <1>1, Constants
      <4>2. p - q < run.count BY <2>1, <2>4, <3>2, <4>1, DivCeil, Constants
      <4> QED BY <4>2, <1>1, <2>2
    <3> QED BY <3>1, <3>2, <1>1
  <2>6. ASSUME NEW p \in Pages(run) PROVE page_size * p =< size + diff
    <3>1. p \in Nat /\ p >= q /\ p - q < run.count BY <2>1, <2>2, <2>6, <1>1 DEF Pages
    <3>2. page_size * (p - q) < diff BY <2>1, <2>4, <3>1, DivCeil, Constants
    <3> QED BY <2>4, <3>1, <3>2, Constants
  <2> QED BY <1>1, <2>1, <2>2, <2>3, <2>5, <2>6
<1>4. CASE size % page_size # 0
  <2>1. div_ceil(size, page_size) = q + 1
    <3>1. page_size * q < size BY <1>1, <1>4, Constants
    <3>2. ~(page_size * (q + 1) < size)
      <4>1. page_size * (q + 1) = page_size * q + page_size BY <1>1, Constants
      <4> QED BY <1>1, <4>1, Constants
    <3>0. \A k \in Nat : page_size * k < size <=> k < div_ceil(size, page_size) BY DivCeil, Constants
    <3>3. q < div_ceil(size, page_size) /\ ~(q + 1 < div_ceil(size, page_size))
      BY <3>0, <3>1, <3>2, <1>1, q + 1 \in Nat
    <3>4. div_ceil(size, page_size) \in Nat BY <1>1, DivCeil, Constants
    <3> QED BY <3>3, <3>4, <1>1
  <2>2. e >= q
    <3>1. SUFFICES ASSUME e + 1 =< q PROVE FALSE BY <1>1, <1>2
    <3>2. page_size * (e + 1) =< page_size * q BY <3>1, <1>1, <1>2, MulMono, Constants
    <3>3. page_size * (e + 1) = page_size * e + page_size BY <1>2, Constants
    <3> QED BY <1>1, <1>2, <3>2, <3>3, Constants
  <2>3. run.vp = q + 1 /\ run.count = e - q BY <1>4, <2>1 DEF NewPages, extra
  <2>4. ASSUME NEW p \in Nat, p < q + 1 PROVE page_size * p < size
    <3>1. page_size * p =< page_size * q BY <1>1, <2>4, MulMono, Constants
    <3> QED BY <1>1, <1>4, <3>1, Constants
  <2>5. ASSUME NEW p \in Nat, page_size * p < size + diff PROVE p < e + 1
    <3>1. SUFFICES ASSUME e + 1 =< p PROVE FALSE BY <1>2
    <3>2. page_size * (e + 1) =< page_size * p BY <3>1, <1>2, MulMono, Constants
    <3>3. page_size * (e + 1) = page_size * e + page_size BY <1>2, Constants
    <3> QED BY <1>2, <2>5, <3>2, <3>3, Constants
  <2>6. ASSUME NEW p \in Pages(run) PROVE page_size * p =< size + diff
    <3>1. p \in Nat /\ p =< e BY <2>3, <2>6, <1>1, <1>2 DEF Pages
    <3>2. page_size * p =< page_size * e BY <3>1, <1>2, MulMono, Constants
    <3> QED BY <1>2, <3>1, <3>2, Constants
  <2> QED BY <1>1, <1>2, <2>2, <2>3, <2>4, <2>5, <2>6
<1> QED BY <1>3, <1>4

-----------------------------------------------------------------------------
\* The inductive invariant: KmmInv without its bound on the heap, which
\* follows, and every page that holds a byte of the heap is mapped.
HeapInv ==
  /\ heap_size \in Nat
  /\ mapped \subseteq 0 .. HeapPages - 1
  /\ \A p \in mapped : 0 .. p \subseteq mapped
  /\ \A p \in Nat : page_size * p < heap_size => p \in mapped

\* The invariant holds of an empty heap.
LEMMA HeapInvInit == Init => HeapInv
BY Constants DEF Init, HeapInv

\* Growing keeps the mapped pages a prefix that covers the heap.
LEMMA GrowKeeps == ASSUME HeapInv, NEW diff \in Nat \ {0}, Grow(diff) PROVE HeapInv'
<1>1. LET run  == NewPages(heap_size, diff)
          fits == run.count = 0 \/ run.vp + run.count =< HeapPages
      IN  \/ /\ fits
             /\ mapped' = mapped \cup Pages(run)
             /\ heap_size' = heap_size + diff
          \/ /\ \/ ~fits /\ UNCHANGED mapped
                \/ fits /\ \E n \in Pages(run) \ mapped : mapped' = mapped \cup run.vp .. n - 1
             /\ UNCHANGED heap_size
  BY DEF Grow
<1> DEFINE run == NewPages(heap_size, diff)
           fits == run.count = 0 \/ run.vp + run.count =< HeapPages
<1>2. heap_size \in Nat /\ diff \in Nat \ {0} BY Constants DEF HeapInv
<1>3. /\ run.vp \in Nat /\ run.count \in Nat
      /\ \A p \in Nat : p < run.vp => page_size * p < heap_size
      /\ \A p \in Nat : page_size * p < heap_size + diff => p < run.vp + run.count
  BY <1>2, NewPagesCover
<1> HIDE DEF run
<1>4. \A p \in Nat : p < run.vp => p \in mapped BY <1>3 DEF HeapInv
\* Mapping pages from the start of the run keeps the mapped pages a prefix.
<1>5. ASSUME NEW n \in Nat, n =< run.vp + run.count, fits, mapped' = mapped \cup run.vp .. n - 1
      PROVE  mapped' \subseteq 0 .. HeapPages - 1 /\ \A p \in mapped' : 0 .. p \subseteq mapped'
  <2>1. run.vp .. n - 1 \subseteq 0 .. HeapPages - 1 BY <1>3, <1>5, Constants
  <2>2. ASSUME NEW p \in run.vp .. n - 1 PROVE 0 .. p \subseteq mapped' BY <1>3, <1>4, <1>5, <2>2
  <2> QED BY <1>5, <2>1, <2>2 DEF HeapInv
<1>6. CASE fits /\ mapped' = mapped \cup Pages(run) /\ heap_size' = heap_size + diff
  <2>1. mapped' = mapped \cup run.vp .. (run.vp + run.count) - 1 BY <1>3, <1>6 DEF Pages
  <2>2. mapped' \subseteq 0 .. HeapPages - 1 /\ \A p \in mapped' : 0 .. p \subseteq mapped'
    BY <1>3, <1>5, <1>6, <2>1, run.vp + run.count \in Nat
  <2>3. ASSUME NEW p \in Nat, page_size * p < heap_size' PROVE p \in mapped'
    <3>1. p < run.vp + run.count BY <1>3, <1>6, <2>3
    <3>2. CASE p < run.vp BY <1>4, <1>6, <3>2
    <3>3. CASE p >= run.vp BY <1>3, <2>1, <3>1, <3>3
    <3> QED BY <1>3, <3>2, <3>3
  <2> QED BY <1>2, <1>6, <2>2, <2>3 DEF HeapInv
<1>7. CASE UNCHANGED <<mapped, heap_size>> BY <1>7 DEF HeapInv
<1>8. ASSUME fits, UNCHANGED heap_size,
             NEW n \in Pages(run) \ mapped, mapped' = mapped \cup run.vp .. n - 1
      PROVE  HeapInv'
  <2>1. n \in Nat /\ n =< run.vp + run.count BY <1>3, <1>8 DEF Pages
  <2>2. mapped' \subseteq 0 .. HeapPages - 1 /\ \A p \in mapped' : 0 .. p \subseteq mapped'
    BY <1>5, <1>8, <2>1
  <2> QED BY <1>8, <2>2 DEF HeapInv
<1> QED BY <1>1, <1>6, <1>7, <1>8 DEF run

\* Giving memory back keeps the invariant, and the pages.
LEMMA ShrinkKeeps == ASSUME HeapInv, NEW diff \in Nat \ {0}, Shrink(diff) PROVE HeapInv'
<1>1. heap_size' = Shrunk(heap_size, diff) BY DEF Shrink
<1>2. heap_size' \in Nat /\ heap_size' =< heap_size /\ mapped' = mapped
  BY <1>1, Constants DEF Shrunk, Shrink, HeapInv
<1>3. ASSUME NEW p \in Nat, page_size * p < heap_size' PROVE p \in mapped
  BY <1>2, <1>3, Constants DEF HeapInv
<1> QED BY <1>2, <1>3 DEF HeapInv

\* The inductive invariant holds always.
THEOREM HeapInvariant == Spec => []HeapInv
<1>1. HeapInv /\ [more_core]_vars => HeapInv'
  <2>1. SUFFICES ASSUME HeapInv, [more_core]_vars PROVE HeapInv' OBVIOUS
  <2>2. ASSUME NEW diff \in 1 .. MaxDiff, Grow(diff) PROVE HeapInv'
    <3>1. diff \in Nat \ {0} BY Constants
    <3> QED BY <2>1, <2>2, <3>1, GrowKeeps
  <2>3. ASSUME NEW diff \in 1 .. MaxDiff, Shrink(diff) PROVE HeapInv'
    <3>1. diff \in Nat \ {0} BY Constants
    <3> QED BY <2>1, <2>3, <3>1, ShrinkKeeps
  <2>4. CASE UNCHANGED vars BY <2>1, <2>4 DEF HeapInv, vars
  <2> QED BY <2>1, <2>2, <2>3, <2>4 DEF more_core
<1> QED BY <1>1, HeapInvInit, PTL DEF Spec

\* The mapped pages are the first ones.
LEMMA HeapInvKmm == HeapInv => KmmInv
<1>1. SUFFICES ASSUME HeapInv, heap_size > page_size * HeapPages PROVE FALSE
  BY Constants DEF HeapInv, KmmInv
<1>2. HeapPages \in mapped BY <1>1, Constants DEF HeapInv
<1> QED BY <1>1, <1>2, Constants DEF HeapInv

\* The heap stays below its end and the mapped pages are the first ones.
THEOREM KmmInvariant == Spec => []KmmInv
BY HeapInvariant, HeapInvKmm, PTL

\* Each byte of the heap is on one of them.
LEMMA HeapInvBacked == HeapInv => Backed
<1>1. SUFFICES ASSUME HeapInv, NEW b \in 0 .. heap_size - 1 PROVE b \div page_size \in mapped
  BY DEF Backed
<1>2. b \in Nat BY <1>1 DEF HeapInv
<1>3. /\ b \div page_size \in Nat /\ b % page_size \in 0 .. page_size - 1
      /\ b = page_size * (b \div page_size) + (b % page_size)
  BY <1>2, DivMod, Constants
<1>4. page_size * (b \div page_size) < heap_size BY <1>1, <1>2, <1>3, Constants DEF HeapInv
<1> QED BY <1>1, <1>3, <1>4 DEF HeapInv

\* Every byte of the heap lies on a mapped page.
THEOREM BackedHolds == Spec => []Backed
BY HeapInvariant, HeapInvBacked, PTL

\* Growing maps no page beyond the new end of the heap.
THEOREM OnePageAheadHolds == Spec => OnePageAhead
<1> DEFINE Ahead == ~panicked' => \A p \in mapped' \ mapped : p * page_size =< heap_size'
<1>1. HeapInv /\ [more_core]_vars => [Ahead]_vars
  <2>1. SUFFICES ASSUME HeapInv, more_core, ~panicked',
                        NEW p \in mapped' \ mapped
                 PROVE  p * page_size =< heap_size'
    OBVIOUS
  <2>2. ASSUME NEW diff \in 1 .. MaxDiff, Shrink(diff) PROVE p * page_size =< heap_size'
    BY <2>1, <2>2 DEF Shrink
  <2>3. ASSUME NEW diff \in 1 .. MaxDiff, Grow(diff) PROVE p * page_size =< heap_size'
    <3>1. /\ mapped' = mapped \cup Pages(NewPages(heap_size, diff))
          /\ heap_size' = heap_size + diff
      BY <2>1, <2>3 DEF Grow
    <3>2. heap_size \in Nat /\ diff \in Nat \ {0} BY <2>1, Constants DEF HeapInv
    <3>3. page_size * p =< heap_size + diff BY <2>1, <3>1, <3>2, NewPagesCover
    <3>4. p \in Int BY <2>1, <3>1, <3>2, NewPagesCover DEF Pages
    <3> QED BY <3>1, <3>3, <3>4, Constants
  <2> QED BY <2>1, <2>2, <2>3 DEF more_core
<1> QED BY <1>1, HeapInvariant, PTL DEF Spec, OnePageAhead

-----------------------------------------------------------------------------
(* Lists of chunks.                                                        *)

\* A list of the elements of S, each once.
IsList(s, S) == s \in Seq(Int) /\ IsInjective(s) /\ ToSet(s) = S

\* A list, by its elements.
LEMMA ListIs ==
  ASSUME NEW s \in Seq(Int), NEW S
  PROVE  IsList(s, S) <=> /\ \A a, b \in 1 .. Len(s) : s[a] = s[b] => a = b
                          /\ \A a \in 1 .. Len(s) : s[a] \in S
                          /\ \A x \in S : \E a \in 1 .. Len(s) : s[a] = x
<1>1. Len(s) \in Nat /\ DOMAIN s = 1 .. Len(s) OBVIOUS
<1>2. IsInjective(s) <=> \A a, b \in 1 .. Len(s) : s[a] = s[b] => a = b BY <1>1 DEF IsInjective
<1>3. ToSet(s) = {s[a] : a \in 1 .. Len(s)} BY <1>1 DEF ToSet
<1>4. ToSet(s) = S <=> /\ \A a \in 1 .. Len(s) : s[a] \in S
                       /\ \A x \in S : \E a \in 1 .. Len(s) : s[a] = x
  BY <1>3
<1> QED BY <1>2, <1>4 DEF IsList

\* What a list of the chunks S has.
LEMMA ListOf ==
  ASSUME NEW s, NEW S, IsList(s, S)
  PROVE  /\ s \in Seq(Int) /\ Len(s) \in Nat /\ DOMAIN s = 1 .. Len(s)
         /\ \A a, b \in 1 .. Len(s) : s[a] = s[b] => a = b
         /\ \A a \in 1 .. Len(s) : s[a] \in S
         /\ \A x \in S : \E a \in 1 .. Len(s) : s[a] = x
         /\ S \subseteq Int
         /\ s # <<>> => Len(s) >= 1 /\ Head(s) = s[1] /\ Head(s) \in S
         /\ s = <<>> <=> S = {}
<1>1. s \in Seq(Int) BY DEF IsList
<1>2. Len(s) \in Nat /\ DOMAIN s = 1 .. Len(s) BY <1>1
<1>3. /\ \A a, b \in 1 .. Len(s) : s[a] = s[b] => a = b
      /\ \A a \in 1 .. Len(s) : s[a] \in S
      /\ \A x \in S : \E a \in 1 .. Len(s) : s[a] = x
  BY <1>1, ListIs
<1>4. S \subseteq Int BY <1>1, <1>2, <1>3
<1>5. s # <<>> => Len(s) >= 1 /\ Head(s) = s[1]
  BY <1>1
<1>6. s # <<>> => Head(s) \in S BY <1>2, <1>3, <1>5
<1>7. s = <<>> <=> S = {}
  <2>1. ASSUME s = <<>> PROVE S = {}
    <3>1. Len(s) = 0 BY <2>1
    <3> QED BY <1>3, <3>1
  <2> QED BY <1>6, <2>1
<1> QED BY <1>1, <1>2, <1>3, <1>4, <1>5, <1>6, <1>7

\* A list names each of its elements once.
LEMMA ListOnce ==
  ASSUME NEW s, NEW S, IsList(s, S), NEW a \in 1 .. Len(s), NEW b \in 1 .. Len(s), s[a] = s[b]
  PROVE  a = b
<1>1. \A x, y \in 1 .. Len(s) : s[x] = s[y] => x = y BY ListOf
<1> QED BY <1>1, Zenon

\* A list names its elements only.
LEMMA ListNames ==
  ASSUME NEW s, NEW S, IsList(s, S), NEW a \in 1 .. Len(s)
  PROVE  s[a] \in S
<1>1. \A x \in 1 .. Len(s) : s[x] \in S BY ListOf
<1> QED BY <1>1, Zenon

\* A chunk before the others.
LEMMA ConsList ==
  ASSUME NEW s, NEW S, IsList(s, S), NEW p \in Int, p \notin S
  PROVE  IsList(<<p>> \o s, S \cup {p}) /\ <<p>> \o s # <<>>
<1> DEFINE t == <<p>> \o s
<1>1. s \in Seq(Int) /\ Len(s) \in Nat BY ListOf
<1>2. t \in Seq(Int) /\ Len(t) = Len(s) + 1 /\ t[1] = p /\ \A a \in 2 .. Len(s) + 1 : t[a] = s[a - 1]
  BY <1>1
<1> HIDE DEF t
<1>3. ASSUME NEW a \in 2 .. Len(s) + 1 PROVE a - 1 \in 1 .. Len(s) /\ t[a] \in S
  <2>1. a - 1 \in 1 .. Len(s) BY <1>1
  <2>2. s[a - 1] \in S BY <2>1, ListOf
  <2> QED BY <1>2, <2>1, <2>2
<1>4. ASSUME NEW a \in 1 .. Len(t), NEW b \in 1 .. Len(t), t[a] = t[b] PROVE a = b
  <2>1. CASE a = 1 /\ b = 1 BY <2>1
  <2>2. CASE a # 1 /\ b # 1
    <3>1. a - 1 \in 1 .. Len(s) /\ b - 1 \in 1 .. Len(s) /\ s[a - 1] = s[b - 1] BY <1>1, <1>2, <1>4, <2>2
    <3>2. a - 1 = b - 1 BY <3>1, ListOf
    <3> QED BY <1>1, <1>2, <3>2
  <2>3. CASE a = 1 /\ b # 1
    <3>1. b \in 2 .. Len(s) + 1 BY <1>1, <1>2, <2>3
    <3> QED BY <1>2, <1>3, <1>4, <2>3, <3>1
  <2>4. CASE a # 1 /\ b = 1
    <3>1. a \in 2 .. Len(s) + 1 BY <1>1, <1>2, <2>4
    <3> QED BY <1>2, <1>3, <1>4, <2>4, <3>1
  <2> QED BY <2>1, <2>2, <2>3, <2>4
<1>5. ASSUME NEW a \in 1 .. Len(t) PROVE t[a] \in S \cup {p}
  BY <1>1, <1>2, <1>3
<1>6. ASSUME NEW x \in S \cup {p} PROVE \E a \in 1 .. Len(t) : t[a] = x
  <2>1. CASE x = p BY <1>1, <1>2, <2>1
  <2>2. CASE x \in S
    <3>1. PICK a \in 1 .. Len(s) : s[a] = x BY <2>2, ListOf
    <3>2. a + 1 \in 2 .. Len(s) + 1 /\ a + 1 - 1 = a BY <1>1
    <3>3. t[a + 1] = s[a + 1 - 1] BY <1>2, <3>2
    <3>5. t[a + 1] = x BY <3>1, <3>2, <3>3
    <3>4. a + 1 \in 1 .. Len(t) BY <1>1, <1>2, <3>2
    <3> QED BY <3>4, <3>5
  <2> QED BY <2>1, <2>2
<1>7. IsList(t, S \cup {p}) BY <1>2, <1>4, <1>5, <1>6, ListIs
<1>8. t # <<>> BY <1>1, <1>2
<1> QED BY <1>7, <1>8 DEF t

\* A chunk behind the first.
LEMMA InsertList ==
  ASSUME NEW s, NEW S, IsList(s, S), s # <<>>, NEW p \in Int, p \notin S
  PROVE  IsList(InsertAt(s, 2, p), S \cup {p}) /\ InsertAt(s, 2, p) # <<>> /\ Head(InsertAt(s, 2, p)) = Head(s)
<1> DEFINE t == InsertAt(s, 2, p)
<1>1. s \in Seq(Int) /\ Len(s) \in Nat /\ Len(s) >= 1 /\ Head(s) = s[1] BY ListOf
<1>2. /\ t \in Seq(Int) /\ Len(t) = Len(s) + 1 /\ t[1] = s[1] /\ t[2] = p
      /\ \A a \in 3 .. Len(s) + 1 : t[a] = s[a - 1]
  BY <1>1 DEF InsertAt
<1> HIDE DEF t
<1> DEFINE at(a) == IF a = 1 THEN 1 ELSE a - 1
<1>3. \A a \in (1 .. Len(t)) \ {2} : at(a) \in 1 .. Len(s) /\ t[a] = s[at(a)] /\ t[a] \in S
  <2>1. ASSUME NEW a \in (1 .. Len(t)) \ {2} PROVE at(a) \in 1 .. Len(s) /\ t[a] = s[at(a)]
    <3>1. CASE a = 1 BY <1>1, <1>2, <3>1
    <3>2. CASE a # 1
      <4>1. a \in 3 .. Len(s) + 1 BY <1>1, <1>2, <3>2
      <4> QED BY <1>2, <3>2, <4>1
    <3> QED BY <3>1, <3>2
  <2> HIDE DEF at
  <2> QED BY <2>1, ListNames
<1>4. ASSUME NEW a \in 1 .. Len(t), NEW b \in 1 .. Len(t), t[a] = t[b] PROVE a = b
  <2>1. CASE a = 2 /\ b = 2 BY <2>1
  <2>2. CASE a # 2 /\ b # 2
    <3>1. at(a) \in 1 .. Len(s) /\ at(b) \in 1 .. Len(s) /\ s[at(a)] = s[at(b)] BY <1>3, <1>4, <2>2
    <3>2. at(a) = at(b)
      <4> HIDE DEF at
      <4> QED BY <3>1, ListOnce
    <3>3. a \in Nat /\ b \in Nat /\ a >= 1 /\ b >= 1 BY <1>1, <1>2
    <3> QED BY <2>2, <3>2, <3>3
  <2>3. CASE a = 2 /\ b # 2 BY <1>2, <1>3, <1>4, <2>3
  <2>4. CASE a # 2 /\ b = 2 BY <1>2, <1>3, <1>4, <2>4
  <2> QED BY <2>1, <2>2, <2>3, <2>4
<1>5. ASSUME NEW a \in 1 .. Len(t) PROVE t[a] \in S \cup {p}
  BY <1>2, <1>3
<1>6. ASSUME NEW x \in S \cup {p} PROVE \E a \in 1 .. Len(t) : t[a] = x
  <2>1. CASE x = p BY <1>1, <1>2, <2>1
  <2>2. CASE x \in S
    <3>1. PICK a \in 1 .. Len(s) : s[a] = x BY <2>2, ListOf
    <3>2. CASE a = 1 BY <1>1, <1>2, <3>1, <3>2
    <3>3. CASE a # 1
      <4>1. PICK b \in 3 .. Len(s) + 1 : b - 1 = a BY <1>1, <3>3
      <4>2. t[b] = x BY <1>2, <3>1, <4>1
      <4>3. b \in 1 .. Len(t) BY <1>1, <1>2, <4>1
      <4> QED BY <4>2, <4>3
    <3> QED BY <3>2, <3>3
  <2> QED BY <2>1, <2>2
<1>7. IsList(t, S \cup {p}) BY <1>2, <1>4, <1>5, <1>6, ListIs
<1>8. t # <<>> /\ Head(t) = t[1] BY <1>1, <1>2
<1> QED BY <1>1, <1>2, <1>7, <1>8 DEF t

\* A chunk taken out.
LEMMA WithoutList ==
  ASSUME NEW s, NEW S, IsList(s, S), NEW p \in S
  PROVE  /\ IsList(Without(s, p), S \ {p})
         /\ Without(s, p) # <<>> /\ p # Head(s) => Head(Without(s, p)) = Head(s)
<1> DEFINE k == CHOOSE a \in DOMAIN s : s[a] = p
           t == RemoveAt(s, k)
<1>1. s \in Seq(Int) /\ Len(s) \in Nat /\ DOMAIN s = 1 .. Len(s) BY ListOf
<1>2. k \in 1 .. Len(s) /\ s[k] = p
  <2>1. \E a \in DOMAIN s : s[a] = p BY <1>1, ListOf
  <2> QED BY <1>1, <2>1
<1>3. Without(s, p) = t BY DEF Without
<1> HIDE DEF k
<1>4. /\ t \in Seq(Int) /\ Len(t) = Len(s) - 1
      /\ \A a \in 1 .. Len(s) - 1 : t[a] = IF a < k THEN s[a] ELSE s[a + 1]
  <2> DEFINE u == SubSeq(s, 1, k - 1)
             v == SubSeq(s, k + 1, Len(s))
  <2>1. u \in Seq(Int) /\ Len(u) = k - 1 /\ \A a \in 1 .. k - 1 : u[a] = s[a] BY <1>1, <1>2
  <2>2. v \in Seq(Int) /\ Len(v) = Len(s) - k /\ \A a \in 1 .. Len(s) - k : v[a] = s[k + a]
    <3>1. \A a \in k + 1 .. Len(s) : s[a] \in Int BY <1>1, <1>2
    <3>2. /\ v \in Seq(Int) /\ Len(v) = IF k + 1 <= Len(s) THEN Len(s) - (k + 1) + 1 ELSE 0
          /\ \A a \in 1 .. Len(s) - (k + 1) + 1 : v[a] = s[k + 1 + a - 1]
      BY <1>1, <1>2, <3>1, SubSeqProperties, k + 1 \in Int
    <3> HIDE DEF v
    <3>3. Len(s) - (k + 1) + 1 = Len(s) - k BY <1>1, <1>2
    <3>4. ASSUME NEW a \in 1 .. Len(s) - k PROVE v[a] = s[k + a]
      <4>1. k + 1 + a - 1 = k + a BY <1>1, <1>2
      <4>2. v[a] = s[k + 1 + a - 1] BY <3>2, <3>3
      <4> QED BY <4>1, <4>2
    <3>5. Len(v) = Len(s) - k
      <4>1. Len(v) = IF k + 1 <= Len(s) THEN Len(s) - (k + 1) + 1 ELSE 0 BY <3>2
      <4>2. k \in Int /\ k =< Len(s) BY <1>1, <1>2
      <4>3. Len(s) \in Int BY <1>1
      <4> DEFINE n == Len(s)
                 w == Len(v)
      <4>4. w = IF k + 1 <= n THEN n - (k + 1) + 1 ELSE 0 BY <4>1
      <4>5. k \in Int /\ n \in Int /\ k =< n BY <4>2, <4>3
      <4> HIDE DEF n, w
      <4>6. w = n - k BY <4>4, <4>5
      <4> QED BY <4>6 DEF n, w
    <3> QED BY <3>2, <3>4, <3>5
  <2>3. t = u \o v BY DEF RemoveAt
  <2> HIDE DEF u, v, t
  <2>7. /\ t \in Seq(Int) /\ Len(t) = Len(u) + Len(v)
        /\ \A a \in 1 .. Len(u) + Len(v) : t[a] = IF a <= Len(u) THEN u[a] ELSE v[a - Len(u)]
    BY <2>1, <2>2, <2>3, ConcatProperties
  <2>4. t \in Seq(Int) /\ Len(t) = Len(s) - 1 BY <1>1, <1>2, <2>1, <2>2, <2>7
  <2>8. Len(u) = k - 1 /\ Len(v) = Len(s) - k BY <2>1, <2>2
  <2>5. ASSUME NEW a \in 1 .. k - 1 PROVE t[a] = s[a]
    <3>1. a \in 1 .. Len(u) + Len(v) /\ a <= Len(u) BY <1>1, <1>2, <2>8
    <3>2. t[a] = u[a] BY <2>7, <3>1
    <3> QED BY <2>1, <3>2
  <2>6. ASSUME NEW a \in k .. Len(s) - 1 PROVE t[a] = s[a + 1]
    <3>0. a \in 1 .. Len(u) + Len(v) /\ ~(a <= Len(u)) /\ a - Len(u) = a - (k - 1) BY <1>1, <1>2, <2>8
    <3>1. t[a] = v[a - (k - 1)] BY <2>7, <3>0
    <3>2. a - (k - 1) \in 1 .. Len(s) - k /\ k + (a - (k - 1)) = a + 1 BY <1>1, <1>2
    <3>3. v[a - (k - 1)] = s[k + (a - (k - 1))] BY <2>2, <3>2
    <3> QED BY <3>1, <3>2, <3>3
  <2>9. ASSUME NEW a \in 1 .. Len(s) - 1 PROVE t[a] = IF a < k THEN s[a] ELSE s[a + 1]
    <3>1. CASE a < k
      <4>1. a \in 1 .. k - 1 BY <1>1, <1>2, <3>1
      <4> QED BY <2>5, <3>1, <4>1
    <3>2. CASE ~ a < k
      <4>1. a \in k .. Len(s) - 1 BY <1>1, <1>2, <3>2
      <4> QED BY <2>6, <3>2, <4>1
    <3> QED BY <3>1, <3>2
  <2> QED BY <2>4, <2>9
<1> HIDE DEF t
<1> DEFINE at(a) == IF a < k THEN a ELSE a + 1
<1>5. ASSUME NEW a \in 1 .. Len(t) PROVE at(a) \in 1 .. Len(s) /\ at(a) # k /\ t[a] = s[at(a)]
  <2>1. a \in 1 .. Len(s) - 1 BY <1>4
  <2>2. t[a] = IF a < k THEN s[a] ELSE s[a + 1] BY <1>4, <2>1
  <2>3. CASE a < k BY <1>1, <1>2, <2>1, <2>2, <2>3
  <2>4. CASE ~ a < k BY <1>1, <1>2, <2>1, <2>2, <2>4
  <2> QED BY <2>3, <2>4
<1>6. ASSUME NEW a \in 1 .. Len(t), NEW b \in 1 .. Len(t), t[a] = t[b] PROVE a = b
  <2>1. at(a) \in 1 .. Len(s) /\ at(b) \in 1 .. Len(s) /\ s[at(a)] = s[at(b)] BY <1>5, <1>6
  <2>2. at(a) = at(b)
    <3> HIDE DEF at
    <3> QED BY <2>1, ListOnce
  <2>3. Len(t) = Len(s) - 1 BY <1>4
  <2>4. a \in Nat /\ b \in Nat BY <1>1, <2>3
  <2>5. k \in Nat BY <1>1, <1>2
  <2> QED BY <2>2, <2>4, <2>5
<1>7. ASSUME NEW a \in 1 .. Len(t) PROVE t[a] \in S \ {p}
  <2> HIDE DEF at
  <2>1. at(a) \in 1 .. Len(s) /\ at(a) # k /\ t[a] = s[at(a)] BY <1>5
  <2>2. s[at(a)] \in S /\ (s[at(a)] = s[k] => at(a) = k) BY <1>2, <2>1, ListNames, ListOnce
  <2> QED BY <1>2, <2>1, <2>2
<1>8. ASSUME NEW x \in S \ {p} PROVE \E a \in 1 .. Len(t) : t[a] = x
  <2>1. PICK a \in 1 .. Len(s) : s[a] = x BY ListOf
  <2>2. a # k BY <1>2, <2>1
  <2>3. CASE a < k
    <3>1. a \in 1 .. Len(s) - 1 BY <1>1, <1>2, <2>3
    <3>2. t[a] = x BY <1>4, <2>1, <2>3, <3>1
    <3> QED BY <1>4, <3>1, <3>2
  <2>4. CASE a > k
    <3>1. a - 1 \in 1 .. Len(s) - 1 /\ ~(a - 1 < k) /\ a - 1 + 1 = a BY <1>1, <1>2, <2>4
    <3>2. t[a - 1] = x BY <1>4, <2>1, <3>1
    <3> QED BY <1>4, <3>1, <3>2
  <2> QED BY <1>1, <1>2, <2>2, <2>3, <2>4
<1>9. IsList(t, S \ {p}) BY <1>4, <1>6, <1>7, <1>8, ListIs
<1>10. ASSUME t # <<>>, p # Head(s) PROVE Head(t) = Head(s)
  <2>1. Len(t) >= 1 /\ Head(t) = t[1] BY <1>4, <1>10
  <2>2. Head(s) = s[1] BY <1>1, <1>4, <2>1
  <2>3. k # 1 BY <1>2, <1>10, <2>2
  <2> QED BY <1>2, <1>4, <2>1, <2>2, <2>3
<1> QED BY <1>3, <1>9, <1>10

\* The first element is replaced by the last.
LEMMA ReplaceHead ==
  ASSUME NEW s, NEW S, IsList(s, S), s # <<>>, Len(s) # 1
  PROVE  LET t == <<Last(s)>> \o Tail(Front(s))
         IN  IsList(t, S \ {Head(s)}) /\ t # <<>>
<1> DEFINE t == <<Last(s)>> \o Tail(Front(s))
           n == Len(s)
<1>1. s \in Seq(Int) /\ n \in Nat /\ n >= 2 /\ Head(s) = s[1]
  <2>1. s \in Seq(Int) /\ n \in Nat /\ (s # <<>> => n >= 1 /\ Head(s) = s[1]) BY ListOf
  <2> QED BY <2>1
<1>2. t \in Seq(Int) /\ Len(t) = n - 1 /\ t[1] = s[n] /\ \A a \in 2 .. n - 1 : t[a] = s[a]
  <2>1. Front(s) \in Seq(Int) /\ Len(Front(s)) = n - 1 /\ \A a \in 1 .. n - 1 : Front(s)[a] = s[a]
    BY <1>1 DEF Front
  <2>2. Last(s) = s[n] /\ Last(s) \in Int BY <1>1 DEF Last
  <2>3. /\ Tail(Front(s)) \in Seq(Int) /\ Len(Tail(Front(s))) = n - 2
        /\ \A a \in 1 .. n - 2 : Tail(Front(s))[a] = Front(s)[a + 1]
    <3> DEFINE f == Front(s)
    <3> HIDE DEF f
    <3>1. f \in Seq(Int) /\ Len(f) = n - 1 BY <2>1 DEF f
    <3>2. Tail(f) \in Seq(Int) /\ Len(Tail(f)) = n - 2 /\ \A a \in 1 .. n - 2 : Tail(f)[a] = f[a + 1]
      BY <1>1, <3>1
    <3> QED BY <3>2 DEF f
  <2> DEFINE u == Tail(Front(s))
             l == Last(s)
  <2>4. \A a \in 1 .. n - 2 : u[a] = s[a + 1] BY <1>1, <2>1, <2>3
  <2> HIDE DEF u, l
  <2>5. u \in Seq(Int) /\ Len(u) = n - 2 /\ l = s[n] /\ l \in Int BY <2>2, <2>3 DEF u, l
  <2>6. <<l>> \o u \in Seq(Int) /\ Len(<<l>> \o u) = n - 1 /\ (<<l>> \o u)[1] = s[n]
        /\ \A a \in 2 .. n - 1 : (<<l>> \o u)[a] = u[a - 1]
    BY <1>1, <2>5
  <2>7. \A a \in 2 .. n - 1 : u[a - 1] = s[a]
    <3>1. \A a \in 2 .. n - 1 : a - 1 \in 1 .. n - 2 /\ a - 1 + 1 = a BY <1>1
    <3> QED BY <2>4, <3>1
  <2> QED BY <2>6, <2>7 DEF u, l
<1> HIDE DEF t
<1> DEFINE at(a) == IF a = 1 THEN n ELSE a
<1>3. ASSUME NEW a \in 1 .. Len(t) PROVE at(a) \in 1 .. n /\ at(a) # 1 /\ t[a] = s[at(a)]
  <2>1. CASE a = 1 BY <1>1, <1>2, <2>1
  <2>2. CASE a # 1
    <3>1. a \in 2 .. n - 1 BY <1>2, <2>2
    <3> QED BY <1>1, <1>2, <2>2, <3>1
  <2> QED BY <2>1, <2>2
<1>4. ASSUME NEW a \in 1 .. Len(t), NEW b \in 1 .. Len(t), t[a] = t[b] PROVE a = b
  <2>1. at(a) \in 1 .. n /\ at(b) \in 1 .. n /\ s[at(a)] = s[at(b)] BY <1>3, <1>4
  <2>2. at(a) = at(b)
    <3> HIDE DEF at
    <3> QED BY <2>1, ListOnce
  <2>3. Len(t) = n - 1 /\ n \in Nat /\ a \in Nat /\ b \in Nat /\ a =< n - 1 /\ b =< n - 1 BY <1>1, <1>2
  <2> QED BY <2>2, <2>3
<1>5. ASSUME NEW a \in 1 .. Len(t) PROVE t[a] \in S \ {Head(s)}
  <2> HIDE DEF at
  <2>1. at(a) \in 1 .. n /\ at(a) # 1 /\ t[a] = s[at(a)] BY <1>3
  <2>2. 1 \in 1 .. n BY <1>1
  <2>3. s[at(a)] \in S /\ (s[at(a)] = s[1] => at(a) = 1) BY <2>1, <2>2, ListNames, ListOnce
  <2> QED BY <1>1, <2>1, <2>3
<1>6. ASSUME NEW x \in S \ {Head(s)} PROVE \E a \in 1 .. Len(t) : t[a] = x
  <2>1. PICK a \in 1 .. n : s[a] = x BY ListOf
  <2>2. a # 1 BY <1>1, <2>1
  <2>3. CASE a = n BY <1>1, <1>2, <2>1, <2>3
  <2>4. CASE a # n
    <3>1. a \in 2 .. n - 1 /\ a \in 1 .. Len(t) BY <1>1, <1>2, <2>2, <2>4
    <3>2. t[a] = x BY <1>2, <2>1, <3>1
    <3> QED BY <3>1, <3>2
  <2> QED BY <2>3, <2>4
<1>7. IsList(t, S \ {Head(s)}) BY <1>2, <1>4, <1>5, <1>6, ListIs
<1>8. t # <<>> BY <1>1, <1>2
<1> QED BY <1>7, <1>8 DEF t

-----------------------------------------------------------------------------
(* The paths of a treebin: sequences of turns, each a prefix of the turns of *)
(* a size.                                                                 *)

Bits == {0, 1}

\* The first k turns.
LEMMA PreIs ==
  ASSUME NEW s \in Seq(Bits), NEW k \in 0 .. Len(s)
  PROVE  /\ SubSeq(s, 1, k) \in Seq(Bits) /\ Len(SubSeq(s, 1, k)) = k
         /\ \A j \in 1 .. k : SubSeq(s, 1, k)[j] = s[j]
<1> HIDE DEF Bits
<1>1. \A j \in 1 .. k : s[j] \in Bits OBVIOUS
<1>2. /\ SubSeq(s, 1, k) \in Seq(Bits)
      /\ Len(SubSeq(s, 1, k)) = IF 1 <= k THEN k - 1 + 1 ELSE 0
      /\ \A j \in 1 .. k - 1 + 1 : SubSeq(s, 1, k)[j] = s[1 + j - 1]
  BY <1>1, SubSeqProperties
<1>3. k \in Nat /\ k - 1 + 1 = k OBVIOUS
<1>4. \A j \in 1 .. k : 1 + j - 1 = j OBVIOUS
<1>5. Len(SubSeq(s, 1, k)) = k BY <1>2, <1>3
<1>6. ASSUME NEW j \in 1 .. k PROVE SubSeq(s, 1, k)[j] = s[j]
  <2>1. SubSeq(s, 1, k)[j] = s[1 + j - 1] BY <1>2, <1>3
  <2> QED BY <2>1, <1>4
<1> QED BY <1>2, <1>5, <1>6

\* A sequence of turns.
LEMMA BitSeq == ASSUME NEW s \in Seq(Bits) PROVE Len(s) \in Nat /\ \A j \in 1 .. Len(s) : s[j] \in Bits
OBVIOUS

\* Sequences of turns are equal when their turns are.
LEMMA SameSeq ==
  ASSUME NEW s \in Seq(Bits), NEW t \in Seq(Bits), Len(s) = Len(t), \A j \in 1 .. Len(s) : s[j] = t[j]
  PROVE  s = t
BY SeqEqual

\* So are their starts.
LEMMA PreSame ==
  ASSUME NEW s \in Seq(Bits), NEW t \in Seq(Bits), NEW k \in 0 .. Len(s), k =< Len(t),
         \A j \in 1 .. k : s[j] = t[j]
  PROVE  SubSeq(s, 1, k) = SubSeq(t, 1, k)
<1> DEFINE u == SubSeq(s, 1, k)
           v == SubSeq(t, 1, k)
<1>1. u \in Seq(Bits) /\ Len(u) = k /\ \A j \in 1 .. k : u[j] = s[j] BY PreIs
<1>2. v \in Seq(Bits) /\ Len(v) = k /\ \A j \in 1 .. k : v[j] = t[j] BY PreIs, k \in 0 .. Len(t)
<1> HIDE DEF u, v
<1>3. u = v BY <1>1, <1>2, SameSeq
<1> QED BY <1>3 DEF u, v

\* The whole is a start.
LEMMA PreFull == ASSUME NEW s \in Seq(Bits) PROVE SubSeq(s, 1, Len(s)) = s
BY SubSeqFull

\* The start of a start.
LEMMA PrePre ==
  ASSUME NEW s \in Seq(Bits), NEW k \in 0 .. Len(s), NEW j \in 0 .. k
  PROVE  SubSeq(SubSeq(s, 1, k), 1, j) = SubSeq(s, 1, j)
<1> DEFINE u == SubSeq(s, 1, k)
<1>1. u \in Seq(Bits) /\ Len(u) = k /\ \A a \in 1 .. k : u[a] = s[a] BY PreIs
<1> HIDE DEF u
<1>2. j \in 0 .. Len(u) /\ j =< Len(s) /\ \A a \in 1 .. j : u[a] = s[a] BY <1>1
<1>3. SubSeq(u, 1, j) = SubSeq(s, 1, j) BY <1>1, <1>2, PreSame
<1> QED BY <1>3 DEF u

\* One turn more.
LEMMA AppendIs ==
  ASSUME NEW s \in Seq(Bits), NEW b \in Bits
  PROVE  /\ Append(s, b) \in Seq(Bits) /\ Len(Append(s, b)) = Len(s) + 1
         /\ \A j \in 1 .. Len(s) : Append(s, b)[j] = s[j]
         /\ Append(s, b)[Len(s) + 1] = b
         /\ \A k \in 0 .. Len(s) : SubSeq(Append(s, b), 1, k) = SubSeq(s, 1, k)
<1> DEFINE t == Append(s, b)
<1> HIDE DEF Bits
<1>1. t \in Seq(Bits) /\ Len(t) = Len(s) + 1 /\ (\A j \in 1 .. Len(s) : t[j] = s[j]) /\ t[Len(s) + 1] = b
  BY AppendProperties
<1> HIDE DEF t
<1>2. ASSUME NEW k \in 0 .. Len(s) PROVE SubSeq(t, 1, k) = SubSeq(s, 1, k)
  <2>1. k \in 0 .. Len(t) /\ k =< Len(s) /\ \A j \in 1 .. k : t[j] = s[j] BY <1>1, BitSeq
  <2> QED BY <1>1, <2>1, PreSame
<1> QED BY <1>1, <1>2 DEF t

\* The next node down a path is a child.
LEMMA PreNext ==
  ASSUME NEW s \in Seq(Bits), NEW k \in 0 .. Len(s) - 1
  PROVE  /\ SubSeq(s, 1, k + 1) = Append(SubSeq(s, 1, k), s[k + 1]) /\ s[k + 1] \in Bits
         /\ k + 1 \in 1 .. Len(s) /\ k \in 0 .. Len(s)
<1> DEFINE u == SubSeq(s, 1, k)
           v == SubSeq(s, 1, k + 1)
<1>0. k + 1 \in 1 .. Len(s) /\ k \in 0 .. Len(s) /\ k + 1 \in 0 .. Len(s) /\ s[k + 1] \in Bits BY BitSeq
<1>1. u \in Seq(Bits) /\ Len(u) = k /\ \A a \in 1 .. k : u[a] = s[a] BY <1>0, PreIs
<1>2. v \in Seq(Bits) /\ Len(v) = k + 1 /\ \A a \in 1 .. k + 1 : v[a] = s[a] BY <1>0, PreIs
<1> HIDE DEF u, v
<1>3. /\ Append(u, s[k + 1]) \in Seq(Bits) /\ Len(Append(u, s[k + 1])) = k + 1
      /\ \A a \in 1 .. k : Append(u, s[k + 1])[a] = u[a]
      /\ Append(u, s[k + 1])[k + 1] = s[k + 1]
  BY <1>0, <1>1, AppendIs
<1>4. \A a \in 1 .. k + 1 : v[a] = Append(u, s[k + 1])[a]
  <2>1. \A a \in 1 .. k + 1 : a \in 1 .. k \/ a = k + 1 OBVIOUS
  <2> QED BY <1>1, <1>2, <1>3, <2>1
<1>5. v = Append(u, s[k + 1]) BY <1>2, <1>3, <1>4, SameSeq
<1> QED BY <1>0, <1>5 DEF u, v

\* Prefixes are starts.
LEMMA PrefixIs ==
  ASSUME NEW s \in Seq(Bits), NEW t \in Seq(Bits)
  PROVE  /\ IsPrefix(s, t) <=> Len(s) =< Len(t) /\ SubSeq(t, 1, Len(s)) = s
         /\ IsPrefix(s, t) => Len(s) =< Len(t) /\ \A j \in 1 .. Len(s) : t[j] = s[j]
<1>1. SubSeq(s, 1, Len(s)) = s BY PreFull
<1>2. IsPrefix(s, t) <=> Len(s) =< Len(t) /\ SubSeq(t, 1, Len(s)) = s BY <1>1, Zenon DEF IsPrefix
<1>3. ASSUME Len(s) =< Len(t), SubSeq(t, 1, Len(s)) = s PROVE \A j \in 1 .. Len(s) : t[j] = s[j]
  <2>1. Len(s) \in 0 .. Len(t) BY <1>3, BitSeq
  <2>2. \A j \in 1 .. Len(s) : SubSeq(t, 1, Len(s))[j] = t[j] BY <2>1, PreIs
  <2> QED BY <1>3, <2>2
<1> QED BY <1>2, <1>3
-----------------------------------------------------------------------------
(* The paths D of a treebin and the sizes z of its nodes.                  *)

\* The path q is the start of the turns of the size s.
Matches(q, s, i) == q \in Seq(Bits) /\ Len(q) =< Depth(i) /\ \A k \in 1 .. Len(q) : q[k] = Turns(s, i)[k]

\* Every node lies on the way of its size, with all nodes above it, and no two
\* have one size.
Shape(D, z, i) ==
  /\ \A q \in D : z[q] \in SizesOf(i) /\ Matches(q, z[q], i) /\ \A k \in 0 .. Len(q) : SubSeq(q, 1, k) \in D
  /\ \A q, r \in D : z[q] = z[r] => q = r

\* The sizes of a treebin are large ones whose index it is.
LEMMA SizeNat == ASSUME NEW i, NEW s \in SizesOf(i) PROVE s \in Nat /\ s \in LargeSizes /\ compute_tree_index(s) = i
BY IndexFacts DEF SizesOf, LargeSizes

\* The way of a size.
LEMMA WayIs ==
  ASSUME NEW i \in 0 .. NTREEBINS - 1, NEW s \in Nat, NEW k \in 0 .. Depth(i)
  PROVE  /\ SubSeq(Turns(s, i), 1, k) \in Seq(Bits) /\ Len(SubSeq(Turns(s, i), 1, k)) = k
         /\ \A j \in 1 .. k : SubSeq(Turns(s, i), 1, k)[j] = Turns(s, i)[j]
         /\ \A j \in 0 .. k : SubSeq(SubSeq(Turns(s, i), 1, k), 1, j) = SubSeq(Turns(s, i), 1, j)
         /\ Matches(SubSeq(Turns(s, i), 1, k), s, i)
<1> DEFINE t == Turns(s, i)
<1>1. t \in Seq(Bits) /\ Len(t) = Depth(i) /\ Depth(i) \in Nat BY TurnsAre, DepthRange, BinConstants DEF Bits
<1> HIDE DEF t
<1>2. k \in 0 .. Len(t) BY <1>1
<1>3. SubSeq(t, 1, k) \in Seq(Bits) /\ Len(SubSeq(t, 1, k)) = k /\ \A j \in 1 .. k : SubSeq(t, 1, k)[j] = t[j]
  BY <1>1, <1>2, PreIs
<1>4. \A j \in 0 .. k : SubSeq(SubSeq(t, 1, k), 1, j) = SubSeq(t, 1, j) BY <1>1, <1>2, PrePre
<1> DEFINE u == SubSeq(t, 1, k)
<1>5. u \in Seq(Bits) /\ Len(u) =< Depth(i) /\ \A j \in 1 .. Len(u) : u[j] = t[j] BY <1>1, <1>3
<1>6. Matches(u, s, i) BY <1>5 DEF Matches, t
<1> QED BY <1>3, <1>4, <1>6 DEF t

\* A path that matches a size is on its way.
LEMMA MatchIs ==
  ASSUME NEW i \in 0 .. NTREEBINS - 1, NEW s \in Nat, NEW q, Matches(q, s, i)
  PROVE  Len(q) \in 0 .. Depth(i) /\ q = SubSeq(Turns(s, i), 1, Len(q))
<1>1. q \in Seq(Bits) /\ Len(q) \in 0 .. Depth(i) /\ \A k \in 1 .. Len(q) : q[k] = Turns(s, i)[k]
  BY BitSeq, DepthRange, BinConstants DEF Matches
<1> DEFINE u == SubSeq(Turns(s, i), 1, Len(q))
<1>2. u \in Seq(Bits) /\ Len(u) = Len(q) /\ \A j \in 1 .. Len(q) : u[j] = Turns(s, i)[j] BY <1>1, WayIs
<1> HIDE DEF u
<1>3. q = u BY <1>1, <1>2, SameSeq
<1> QED BY <1>1, <1>3 DEF u

\* A node with a path that turns right where another path, or size, turns left
\* is larger.
LEMMA RightLarger ==
  ASSUME NEW i \in 0 .. NTREEBINS - 1, NEW s \in SizesOf(i), NEW t \in SizesOf(i),
         NEW q, NEW r, Matches(q, s, i), Matches(r, t, i),
         NEW k \in 1 .. Len(q), k =< Len(r), \A j \in 1 .. k - 1 : q[j] = r[j], q[k] = 0, r[k] = 1
  PROVE  s < t
<1>1. /\ Len(q) \in Nat /\ Len(q) =< Depth(i) /\ \A j \in 1 .. Len(q) : q[j] = Turns(s, i)[j]
      /\ Len(r) \in Nat /\ \A j \in 1 .. Len(r) : r[j] = Turns(t, i)[j]
  BY BitSeq DEF Matches
<1>2. k \in 1 .. Len(r) /\ k \in 1 .. Depth(i) BY <1>1, DepthRange, BinConstants
<1>3. Turns(s, i)[k] = 0 /\ Turns(t, i)[k] = 1 BY <1>1, <1>2
<1>4. ASSUME NEW j \in 1 .. k - 1 PROVE Turns(s, i)[j] = Turns(t, i)[j]
  <2>1. j \in 1 .. Len(q) /\ j \in 1 .. Len(r) BY <1>1, <1>2
  <2>2. q[j] = r[j] OBVIOUS
  <2> QED BY <1>1, <2>1, <2>2
<1> QED BY <1>2, <1>3, <1>4, TurnsOrder

\* The place of a size: the first node on its way that is free or has the size.
LEMMA PlaceExists ==
  ASSUME NEW i \in 0 .. NTREEBINS - 1, NEW D, NEW z, Shape(D, z, i), NEW s \in SizesOf(i)
  PROVE  LET to(k) == SubSeq(Turns(s, i), 1, k)
             Ends(k) == to(k) \notin D \/ z[to(k)] = s
         IN  \E k \in 0 .. Depth(i) : Ends(k) /\ \A j \in 0 .. k - 1 : ~Ends(j)
<1> DEFINE to(k) == SubSeq(Turns(s, i), 1, k)
           Ends(k) == to(k) \notin D \/ z[to(k)] = s
           S == {k \in 0 .. Depth(i) : Ends(k)}
<1>1. Depth(i) \in Nat /\ s \in Nat BY SizeNat, DepthRange, BinConstants
<1>2. Ends(Depth(i))
  <2>1. SUFFICES ASSUME to(Depth(i)) \in D PROVE z[to(Depth(i))] = s OBVIOUS
  <2> DEFINE q == to(Depth(i))
  <2>2. q \in Seq(Bits) /\ Len(q) = Depth(i) /\ \A j \in 1 .. Depth(i) : q[j] = Turns(s, i)[j]
    BY <1>1, WayIs, Depth(i) \in 0 .. Depth(i)
  <2>3. q \in D BY <2>1
  <2> HIDE DEF q, to
  <2>4. z[q] \in SizesOf(i) /\ \A j \in 1 .. Depth(i) : q[j] = Turns(z[q], i)[j] BY <2>2, <2>3 DEF Shape, Matches
  <2>5. \A j \in 1 .. Depth(i) : Turns(z[q], i)[j] = Turns(s, i)[j] BY <2>2, <2>4
  <2>6. z[q] = s BY <2>4, <2>5, TurnsSame
  <2> QED BY <2>6 DEF q
<1> HIDE DEF Ends
<1>3. Depth(i) \in S BY <1>1, <1>2
<1>4. S \subseteq Nat BY <1>1
<1> HIDE DEF S
<1>5. PICK k \in S : \A j \in S : k =< j BY <1>3, <1>4, LeastOf
<1>6. k \in 0 .. Depth(i) /\ Ends(k) BY <1>5 DEF S
<1>7. \A j \in 0 .. k - 1 : ~Ends(j)
  <2>1. ASSUME NEW j \in 0 .. k - 1, Ends(j) PROVE FALSE
    <3>1. j \in S BY <1>1, <1>6, <2>1 DEF S
    <3> QED BY <1>1, <1>5, <1>6, <3>1
  <2> QED BY <2>1
<1> QED BY <1>6, <1>7 DEF Ends

\* A node of a new size at its place.
LEMMA ShapeInsert ==
  ASSUME NEW i \in 0 .. NTREEBINS - 1, NEW D, NEW z, Shape(D, z, i), NEW s \in SizesOf(i),
         NEW k \in 0 .. Depth(i), NEW at, at = SubSeq(Turns(s, i), 1, k), at \notin D,
         \A j \in 0 .. k - 1 : /\ SubSeq(Turns(s, i), 1, j) \in D
                              /\ z[SubSeq(Turns(s, i), 1, j)] # s,
         NEW y, \A q \in D : y[q] = z[q], y[at] = s
  PROVE  Shape(D \cup {at}, y, i)
<1>1. s \in Nat /\ Depth(i) \in Nat BY SizeNat, DepthRange, BinConstants
<1>2. at \in Seq(Bits) /\ Len(at) = k /\ Matches(at, s, i) BY <1>1, WayIs
<1>3. ASSUME NEW j \in 0 .. Len(at) PROVE SubSeq(at, 1, j) \in D \cup {at}
  <2>1. SubSeq(at, 1, j) = SubSeq(Turns(s, i), 1, j) BY <1>1, <1>2, WayIs
  <2>2. j = k \/ j \in 0 .. k - 1 BY <1>2
  <2> QED BY <2>1, <2>2
<1>4. ASSUME NEW q \in D PROVE z[q] # s
  <2>1. SUFFICES ASSUME z[q] = s PROVE FALSE OBVIOUS
  <2>2. Matches(q, s, i) /\ \A j \in 0 .. Len(q) : SubSeq(q, 1, j) \in D BY <2>1 DEF Shape
  <2>3. Len(q) \in 0 .. Depth(i) /\ q = SubSeq(Turns(s, i), 1, Len(q)) BY <1>1, <2>2, MatchIs
  <2>4. CASE Len(q) < k
    <3>1. Len(q) \in 0 .. k - 1 BY <2>3, <2>4
    <3>2. z[SubSeq(Turns(s, i), 1, Len(q))] # s BY <3>1
    <3> QED BY <2>1, <2>3, <3>2
  <2>5. CASE Len(q) >= k
    <3>1. k \in 0 .. Len(q) BY <2>3, <2>5
    <3>2. SubSeq(SubSeq(Turns(s, i), 1, Len(q)), 1, k) = SubSeq(Turns(s, i), 1, k) BY <1>1, <2>3, <3>1, WayIs
    <3>3. SubSeq(q, 1, k) = at BY <2>3, <3>2, Zenon
    <3> QED BY <2>2, <3>1, <3>3
  <2> QED BY <2>3, <2>4, <2>5
<1>5. ASSUME NEW q \in D \cup {at}
      PROVE  y[q] \in SizesOf(i) /\ Matches(q, y[q], i) /\ \A j \in 0 .. Len(q) : SubSeq(q, 1, j) \in D \cup {at}
  <2>1. CASE q = at BY <1>2, <1>3, <2>1
  <2>2. CASE q \in D
    <3>1. z[q] \in SizesOf(i) /\ Matches(q, z[q], i) /\ \A j \in 0 .. Len(q) : SubSeq(q, 1, j) \in D
      BY <2>2 DEF Shape
    <3> QED BY <2>2, <3>1
  <2> QED BY <2>1, <2>2
<1>6. ASSUME NEW q \in D \cup {at}, NEW r \in D \cup {at}, y[q] = y[r] PROVE q = r
  BY <1>4, <1>6 DEF Shape
<1> QED BY <1>5, <1>6 DEF Shape

\* The turns to the children of a node.
Children(D, q) == {b \in Bits : Append(q, b) \in D}

\* A leaf is taken away, its size may go up.
LEMMA ShapeRemove ==
  ASSUME NEW i \in 0 .. NTREEBINS - 1, NEW D, NEW z, Shape(D, z, i),
         NEW at \in D, NEW leaf \in D, IsPrefix(at, leaf), Children(D, leaf) = {},
         NEW y, \A q \in D \ {leaf} : y[q] = IF q = at THEN z[leaf] ELSE z[q]
  PROVE  Shape(D \ {leaf}, y, i)
<1>1. \A q \in D : q \in Seq(Bits) /\ Len(q) \in Nat /\ \A k \in 0 .. Len(q) : SubSeq(q, 1, k) \in D
  BY BitSeq DEF Shape, Matches
<1>2. ASSUME NEW q \in D \ {leaf}, NEW k \in 0 .. Len(q) PROVE SubSeq(q, 1, k) \in D \ {leaf}
  <2>1. SUFFICES ASSUME SubSeq(q, 1, k) = leaf PROVE FALSE BY <1>1
  <2>2. k # Len(q) BY <1>1, <2>1, PreFull
  <2>3. k \in 0 .. Len(q) - 1 /\ k + 1 \in 0 .. Len(q) BY <1>1, <2>2
  <2>4. SubSeq(q, 1, k + 1) = Append(leaf, q[k + 1]) /\ q[k + 1] \in Bits BY <1>1, <2>1, <2>3, PreNext
  <2>5. Append(leaf, q[k + 1]) \in D BY <1>1, <2>3, <2>4
  <2> QED BY <2>4, <2>5 DEF Children
<1>3. ASSUME at # leaf PROVE Matches(at, z[leaf], i)
  <2>1. Len(at) =< Len(leaf) /\ \A j \in 1 .. Len(at) : leaf[j] = at[j] BY <1>1, PrefixIs
  <2>2. Matches(leaf, z[leaf], i) /\ Matches(at, z[at], i) BY DEF Shape
  <2>3. Len(at) \in Nat /\ Len(leaf) \in Nat BY <1>1
  <2> QED BY <2>1, <2>2, <2>3 DEF Matches
<1>4. ASSUME NEW q \in D \ {leaf}
      PROVE  y[q] \in SizesOf(i) /\ Matches(q, y[q], i)
  <2>1. CASE q = at BY <1>3, <2>1 DEF Shape
  <2>2. CASE q # at BY <2>2 DEF Shape
  <2> QED BY <2>1, <2>2
<1>5. ASSUME NEW q \in D \ {leaf}, NEW r \in D \ {leaf}, y[q] = y[r] PROVE q = r
  BY <1>5 DEF Shape
<1> QED BY <1>2, <1>4, <1>5 DEF Shape
-----------------------------------------------------------------------------
\* A path of a treebin.
LEMMA ShapePath ==
  ASSUME NEW i \in 0 .. NTREEBINS - 1, NEW D, NEW z, Shape(D, z, i), NEW q \in D
  PROVE  /\ q \in Seq(Bits) /\ Len(q) \in 0 .. Depth(i) /\ Matches(q, z[q], i)
         /\ \A k \in 0 .. Len(q) : SubSeq(q, 1, k) \in D
         /\ z[q] \in SizesOf(i) /\ z[q] \in Nat
<1>1. q \in Seq(Bits) /\ Len(q) =< Depth(i) /\ Matches(q, z[q], i) /\ z[q] \in SizesOf(i)
      /\ \A k \in 0 .. Len(q) : SubSeq(q, 1, k) \in D
  BY DEF Shape, Matches
<1>2. Len(q) \in 0 .. Depth(i) BY <1>1, BitSeq, DepthRange, BinConstants
<1> QED BY <1>1, <1>2, SizeNat

\* A prefix stays one when a turn is added.
LEMMA AppendUnder ==
  ASSUME NEW s \in Seq(Bits), NEW t \in Seq(Bits), IsPrefix(s, t), NEW b \in Bits
  PROVE  IsPrefix(s, Append(t, b)) /\ Len(Append(t, b)) = Len(t) + 1 /\ Append(t, b)[Len(t) + 1] = b
<1>1. Len(s) =< Len(t) /\ SubSeq(t, 1, Len(s)) = s BY PrefixIs
<1>2. Len(s) \in 0 .. Len(t) /\ Len(t) \in Nat BY <1>1, BitSeq
<1>3. /\ Append(t, b) \in Seq(Bits) /\ Len(Append(t, b)) = Len(t) + 1 /\ Append(t, b)[Len(t) + 1] = b
      /\ SubSeq(Append(t, b), 1, Len(s)) = SubSeq(t, 1, Len(s))
  BY <1>2, AppendIs
<1>4. Len(s) =< Len(Append(t, b)) BY <1>2, <1>3
<1> QED BY <1>1, <1>3, <1>4, PrefixIs

\* A leaf under a node is found: the deepest of the nodes that the turns to the
\* right where there is one lead to.
LEMMA LeafExists ==
  ASSUME NEW i \in 0 .. NTREEBINS - 1, NEW tree, NEW z, Shape(DOMAIN tree, z, i), NEW at \in DOMAIN tree
  PROVE  LET leaf == LeafUnder(tree, at)
         IN  leaf \in DOMAIN tree /\ IsPrefix(at, leaf) /\ Children(DOMAIN tree, leaf) = {}
<1> DEFINE D == DOMAIN tree
           Down(q) == /\ IsPrefix(at, q)
                      /\ \A k \in Len(at) + 1 .. Len(q) : q[k] = 0 => ~Child(tree, SubSeq(q, 1, k - 1), 1)
           S == {Len(q) : q \in {r \in D : Down(r)}}
<1>1. \A q \in D : q \in Seq(Bits) /\ Len(q) \in 0 .. Depth(i) BY ShapePath
<1>2. Depth(i) \in Nat BY DepthRange, BinConstants
<1>3. Down(at)
  <2>1. IsPrefix(at, at) BY <1>1, PrefixIs, PreFull
  <2> QED BY <1>1, <2>1
<1>4. PICK n \in S : \A k \in S : k =< n
  <2>1. S \subseteq Nat /\ \A k \in S : k =< Depth(i) BY <1>1, <1>2
  <2>2. Len(at) \in S BY <1>3
  <2> HIDE DEF S
  <2> QED BY <1>2, <2>1, <2>2, GreatestOf
<1>5. PICK q \in D : Down(q) /\ Len(q) = n OBVIOUS
<1>6. \A r \in D : Down(r) => Len(r) =< Len(q) BY <1>4, <1>5
<1> HIDE DEF S
<1>7. q \in Seq(Bits) /\ Len(q) \in Nat /\ at \in Seq(Bits) BY <1>1, <1>2
\* Nothing goes on down from q.
<1>8. ASSUME NEW b \in Bits, Child(tree, q, b), b = 0 => ~Child(tree, q, 1) PROVE FALSE
  <2> DEFINE r == Append(q, b)
  <2>1. r \in D BY <1>8 DEF Child
  <2>2. /\ Len(r) = Len(q) + 1 /\ (\A j \in 1 .. Len(q) : r[j] = q[j]) /\ r[Len(q) + 1] = b
        /\ \A k \in 0 .. Len(q) : SubSeq(r, 1, k) = SubSeq(q, 1, k)
    BY <1>7, AppendIs
  <2>3. IsPrefix(at, r) BY <1>5, <1>7, AppendUnder
  <2> HIDE DEF r
  <2>4. ASSUME NEW k \in Len(at) + 1 .. Len(r), r[k] = 0 PROVE ~Child(tree, SubSeq(r, 1, k - 1), 1)
    <3>1. CASE k = Len(q) + 1
      <4>1. b = 0 BY <2>2, <2>4, <3>1
      <4>2. k - 1 = Len(q) /\ SubSeq(r, 1, Len(q)) = q BY <1>7, <2>2, <3>1, PreFull
      <4> QED BY <1>8, <4>1, <4>2
    <3>2. CASE k # Len(q) + 1
      <4>1. k \in Len(at) + 1 .. Len(q) /\ k \in 1 .. Len(q) /\ k - 1 \in 0 .. Len(q) BY <1>7, <2>2, <3>2, BitSeq
      <4>2. q[k] = 0 /\ SubSeq(r, 1, k - 1) = SubSeq(q, 1, k - 1) BY <2>2, <2>4, <4>1
      <4> QED BY <1>5, <4>1, <4>2
    <3> QED BY <3>1, <3>2
  <2>5. Down(r) BY <2>3, <2>4
  <2>6. Len(r) =< Len(q) BY <1>6, <2>1, <2>5
  <2> QED BY <1>7, <2>2, <2>6
<1>9. ~Child(tree, q, 1) BY <1>8 DEF Bits
<1>10. ~Child(tree, q, 0) BY <1>8, <1>9 DEF Bits
<1> DEFINE leaf == LeafUnder(tree, at)
<1>11. leaf \in D /\ Down(leaf) /\ ~Child(tree, leaf, 0) /\ ~Child(tree, leaf, 1)
  <2>1. \E p \in D : Down(p) /\ ~Child(tree, p, 0) /\ ~Child(tree, p, 1) BY <1>5, <1>9, <1>10
  <2>2. leaf = CHOOSE p \in D : Down(p) /\ ~Child(tree, p, 0) /\ ~Child(tree, p, 1)
    BY DEF LeafUnder
  <2> HIDE DEF leaf, Down, D
  <2> QED BY <2>1, <2>2
<1>12. Children(D, leaf) = {}
  <2> HIDE DEF leaf
  <2> QED BY <1>11 DEF Children, Bits, Child
<1> QED BY <1>11, <1>12

\* The leftmost nodes from a node have the least size of what is under it.
LEMMA LeftmostLeast ==
  ASSUME NEW i \in 0 .. NTREEBINS - 1, NEW tree, NEW z, Shape(DOMAIN tree, z, i), NEW at \in DOMAIN tree,
         NEW r \in DOMAIN tree, IsPrefix(at, r)
  PROVE  \E l \in LeftmostFrom(tree, at) : z[l] =< z[r]
<1> DEFINE D == DOMAIN tree
           L == LeftmostFrom(tree, at)
           S == {k \in Len(at) .. Len(r) : SubSeq(r, 1, k) \in L}
<1>1. \A q \in D : /\ q \in Seq(Bits) /\ Len(q) \in 0 .. Depth(i) /\ Matches(q, z[q], i)
                   /\ z[q] \in SizesOf(i) /\ z[q] \in Nat /\ \A k \in 0 .. Len(q) : SubSeq(q, 1, k) \in D
  BY ShapePath
<1>2. Len(at) \in Nat /\ Len(r) \in Nat /\ Len(at) =< Len(r) /\ SubSeq(r, 1, Len(at)) = at
  BY <1>1, PrefixIs, DepthRange, BinConstants
<1>3. \A q : q \in L <=> /\ q \in D /\ IsPrefix(at, q)
                        /\ \A k \in Len(at) + 1 .. Len(q) : q[k] = 1 => ~Child(tree, SubSeq(q, 1, k - 1), 0)
  BY DEF LeftmostFrom
<1> HIDE DEF L
<1>4. at \in L
  <2>1. IsPrefix(at, at) BY <1>1, PrefixIs, PreFull
  <2> QED BY <1>2, <1>3, <2>1
<1>5. PICK n \in S : \A k \in S : k =< n
  <2>4. SubSeq(r, 1, Len(at)) \in L BY <1>2, <1>4, Zenon
  <2>5. Len(at) \in Len(at) .. Len(r) BY <1>2
  <2>0. Len(at) \in Len(at) .. Len(r) /\ SubSeq(r, 1, Len(at)) \in L BY <2>4, <2>5
  <2>1. Len(at) \in S BY <2>0
  <2>2. \A k \in S : k \in Nat /\ k =< Len(r) BY <1>2
  <2>3. S \subseteq Nat BY <2>2
  <2> HIDE DEF S
  <2> QED BY <1>2, <2>1, <2>2, <2>3, GreatestOf
<1>6. n \in Len(at) .. Len(r) /\ SubSeq(r, 1, n) \in L BY <1>5
<1>7. \A k \in Len(at) .. Len(r) : SubSeq(r, 1, k) \in L => k =< n BY <1>5
<1> HIDE DEF S
<1>8. CASE n = Len(r)
  <2>1. SubSeq(r, 1, n) = r BY <1>1, <1>8, PreFull
  <2>2. r \in L BY <1>6, <2>1
  <2>3. z[r] =< z[r] BY <1>1
  <2> QED BY <2>2, <2>3 DEF L
<1>9. CASE n < Len(r)
  <2> DEFINE p == SubSeq(r, 1, n)
             d == SubSeq(r, 1, n + 1)
  <2>1. n \in 0 .. Len(r) - 1 /\ n + 1 \in Len(at) .. Len(r) /\ n + 1 \in 0 .. Len(r) /\ n \in 0 .. Len(r) /\ n \in Nat
    BY <1>2, <1>6, <1>9
  <2>2. p \in Seq(Bits) /\ Len(p) = n /\ \A j \in 1 .. n : p[j] = r[j] BY <1>1, <2>1, PreIs
  <2>3. d = Append(p, r[n + 1]) /\ r[n + 1] \in Bits BY <1>1, <2>1, PreNext
  <2>4. d \notin L
    <3>1. ~(n + 1 =< n) BY <2>1
    <3> QED BY <1>7, <2>1, <3>1
  <2>5. d \in D BY <1>1, <2>1
  <2>6. p \in L BY <1>6
  <2> HIDE DEF p, d
  <2>7. IsPrefix(at, p) /\ \A k \in Len(at) + 1 .. Len(p) : p[k] = 1 => ~Child(tree, SubSeq(p, 1, k - 1), 0)
    BY <1>3, <2>6
  \* Both children of p are one turn below it.
  <2>8. ASSUME NEW b \in Bits
        PROVE  LET c == Append(p, b)
               IN  /\ c \in Seq(Bits) /\ Len(c) = n + 1 /\ c[n + 1] = b /\ IsPrefix(at, c)
                   /\ \A j \in 1 .. n : c[j] = r[j]
                   /\ \A k \in Len(at) + 1 .. n : c[k] = 1 => ~Child(tree, SubSeq(c, 1, k - 1), 0)
                   /\ SubSeq(c, 1, n) = p
    <3> DEFINE c == Append(p, b)
    <3>1. /\ c \in Seq(Bits) /\ Len(c) = n + 1 /\ (\A j \in 1 .. n : c[j] = p[j]) /\ c[n + 1] = b
          /\ \A k \in 0 .. n : SubSeq(c, 1, k) = SubSeq(p, 1, k)
      BY <2>2, AppendIs
    <3>2. IsPrefix(at, c) BY <1>1, <2>2, <2>7, AppendUnder
    <3> HIDE DEF c
    <3>3. ASSUME NEW k \in Len(at) + 1 .. n, c[k] = 1 PROVE ~Child(tree, SubSeq(c, 1, k - 1), 0)
      <4>1. k \in 1 .. n /\ k - 1 \in 0 .. n /\ k \in Len(at) + 1 .. Len(p) BY <1>2, <2>1, <2>2
      <4>2. p[k] = 1 /\ SubSeq(c, 1, k - 1) = SubSeq(p, 1, k - 1) BY <3>1, <3>3, <4>1
      <4> QED BY <2>7, <4>1, <4>2
    <3>4. SubSeq(c, 1, n) = p
      <4>1. n \in 0 .. n BY <2>1
      <4>2. SubSeq(p, 1, n) = p BY <2>2, PreFull
      <4> QED BY <3>1, <4>1, <4>2
    <3>5. \A j \in 1 .. n : c[j] = r[j] BY <2>2, <3>1
    <3> QED BY <3>1, <3>2, <3>3, <3>4, <3>5 DEF c
  \* The path of r leaves the leftmost nodes to the right of a left child.
  <2>9. r[n + 1] = 1 /\ Child(tree, p, 0)
    <3>1. SUFFICES ASSUME r[n + 1] = 1 => ~Child(tree, p, 0) PROVE FALSE BY <2>3 DEF Bits
    <3>2. /\ Len(d) = n + 1 /\ d[n + 1] = r[n + 1] /\ IsPrefix(at, d)
          /\ \A k \in Len(at) + 1 .. n : d[k] = 1 => ~Child(tree, SubSeq(d, 1, k - 1), 0)
          /\ SubSeq(d, 1, n) = p
      BY <2>3, <2>8
    <3>3. ASSUME NEW k \in Len(at) + 1 .. Len(d), d[k] = 1 PROVE ~Child(tree, SubSeq(d, 1, k - 1), 0)
      <4>1. CASE k = n + 1
        <5>1. k - 1 = n BY <2>1, <4>1
        <5> QED BY <3>1, <3>2, <3>3, <4>1, <5>1
      <4>2. CASE k # n + 1
        <5>1. k \in Len(at) + 1 .. n BY <1>2, <2>1, <3>2, <4>2
        <5> QED BY <3>2, <3>3, <5>1
      <4> QED BY <4>1, <4>2
    <3> QED BY <1>3, <2>4, <2>5, <3>2, <3>3
  <2> DEFINE c == Append(p, 0)
  <2>10. c \in D BY <2>9 DEF Child
  <2>11. /\ c \in Seq(Bits) /\ Len(c) = n + 1 /\ c[n + 1] = 0 /\ IsPrefix(at, c)
         /\ \A j \in 1 .. n : c[j] = r[j]
         /\ \A k \in Len(at) + 1 .. n : c[k] = 1 => ~Child(tree, SubSeq(c, 1, k - 1), 0)
    BY <2>8, 0 \in Bits DEF Bits
  <2> HIDE DEF c
  <2>12. c \in L
    <3>1. ASSUME NEW k \in Len(at) + 1 .. Len(c), c[k] = 1 PROVE ~Child(tree, SubSeq(c, 1, k - 1), 0)
      <4>1. k # n + 1 BY <2>11, <3>1
      <4>2. k \in Len(at) + 1 .. n BY <1>2, <2>1, <2>11, <4>1
      <4> QED BY <2>11, <3>1, <4>2
    <3> QED BY <1>3, <2>10, <2>11, <3>1
  <2>13. z[c] < z[r]
    <3>1. n + 1 \in 1 .. Len(c) /\ n + 1 =< Len(r) BY <2>1, <2>11
    <3>2. Matches(c, z[c], i) /\ Matches(r, z[r], i) /\ z[c] \in SizesOf(i) /\ z[r] \in SizesOf(i)
      BY <1>1, <2>10
    <3>4. c[n + 1] = 0 /\ r[n + 1] = 1 BY <2>9, <2>11
    <3> DEFINE k == n + 1
    <3>5. k \in 1 .. Len(c) /\ k =< Len(r) BY <3>1
    <3>8. k - 1 = n BY <2>1
    <3>6. \A j \in 1 .. k - 1 : c[j] = r[j] BY <2>11, <3>8, Zenon
    <3>7. c[k] = 0 /\ r[k] = 1 BY <3>4, Zenon
    <3> HIDE DEF k
    <3> QED BY <3>2, <3>5, <3>6, <3>7, RightLarger
  <2>14. z[c] =< z[r]
    <3>1. z[c] \in Int /\ z[r] \in Int BY <1>1, <2>10
    <3> QED BY <2>13, <3>1
  <2> QED BY <2>12, <2>14 DEF L
<1> QED BY <1>2, <1>6, <1>8, <1>9

(* A treebin with the chunks S, whose sizes the map h of the heap gives.   *)

NodeSize(h, tree, q) == h[Head(tree[q])].size

Sizes(h, tree) == [q \in DOMAIN tree |-> NodeSize(h, tree, q)]

\* The chunks of S of size n.
OfSize(h, S, n) == {x \in S : h[x].size = n}

\* The ring of every node has the chunks of its size, and every chunk a node.
TreeOK(h, tree, i, S) ==
  /\ \A x \in S : x \in Int /\ h[x].size \in SizesOf(i)
  /\ Shape(DOMAIN tree, Sizes(h, tree), i)
  /\ \A q \in DOMAIN tree : IsList(tree[q], OfSize(h, S, NodeSize(h, tree, q))) /\ tree[q] # <<>>
  /\ \A x \in S : \E q \in DOMAIN tree : NodeSize(h, tree, q) = h[x].size

\* The shape depends on the sizes at the nodes only.
LEMMA ShapeSame ==
  ASSUME NEW D, NEW z, NEW i, Shape(D, z, i), NEW y, \A q \in D : y[q] = z[q]
  PROVE  Shape(D, y, i)
<1>1. /\ \A q \in D : z[q] \in SizesOf(i) /\ Matches(q, z[q], i) /\ \A k \in 0 .. Len(q) : SubSeq(q, 1, k) \in D
      /\ \A q, r \in D : z[q] = z[r] => q = r
  BY DEF Shape
<1>2. ASSUME NEW q \in D
      PROVE  y[q] \in SizesOf(i) /\ Matches(q, y[q], i) /\ \A k \in 0 .. Len(q) : SubSeq(q, 1, k) \in D
  <2>1. y[q] = z[q] OBVIOUS
  <2>2. z[q] \in SizesOf(i) /\ Matches(q, z[q], i) /\ \A k \in 0 .. Len(q) : SubSeq(q, 1, k) \in D BY <1>1
  <2> QED BY <2>1, <2>2, Zenon
<1>3. ASSUME NEW q \in D, NEW r \in D, y[q] = y[r] PROVE q = r
  BY <1>1, <1>3, Zenon
<1> QED BY <1>2, <1>3, Zenon DEF Shape

\* A treebin from the sizes z of its nodes.
LEMMA TreeIs ==
  ASSUME NEW h, NEW tree, NEW i, NEW S, NEW z,
         \A q \in DOMAIN tree : z[q] = NodeSize(h, tree, q),
         Shape(DOMAIN tree, z, i),
         \A x \in S : x \in Int /\ h[x].size \in SizesOf(i),
         \A q \in DOMAIN tree : IsList(tree[q], OfSize(h, S, z[q])) /\ tree[q] # <<>>,
         \A x \in S : \E q \in DOMAIN tree : z[q] = h[x].size
  PROVE  TreeOK(h, tree, i, S)
<1> DEFINE D == DOMAIN tree
           y == Sizes(h, tree)
<1>1. \A q \in D : y[q] = z[q] BY DEF Sizes
<1> HIDE DEF y
<1>2. Shape(D, y, i) BY <1>1, ShapeSame
<1>3. ASSUME NEW q \in D PROVE IsList(tree[q], OfSize(h, S, NodeSize(h, tree, q))) /\ tree[q] # <<>>
  <2>1. z[q] = NodeSize(h, tree, q) OBVIOUS
  <2>2. IsList(tree[q], OfSize(h, S, z[q])) /\ tree[q] # <<>> OBVIOUS
  <2> QED BY <2>1, <2>2, Zenon
<1>4. ASSUME NEW x \in S PROVE \E q \in D : NodeSize(h, tree, q) = h[x].size
  <2>1. PICK q \in D : z[q] = h[x].size OBVIOUS
  <2>2. z[q] = NodeSize(h, tree, q) OBVIOUS
  <2> QED BY <2>1, <2>2, Zenon
<1> QED BY <1>2, <1>3, <1>4, Zenon DEF TreeOK, y

\* The conjuncts of TreeOK, with the sizes by name.
LEMMA TreeParts ==
  ASSUME NEW h, NEW tree, NEW i, NEW S, TreeOK(h, tree, i, S)
  PROVE  /\ \A q \in DOMAIN tree : Sizes(h, tree)[q] = NodeSize(h, tree, q)
         /\ Shape(DOMAIN tree, Sizes(h, tree), i)
         /\ \A x \in S : x \in Int /\ h[x].size \in SizesOf(i)
         /\ \A q \in DOMAIN tree :
              /\ IsList(tree[q], OfSize(h, S, Sizes(h, tree)[q])) /\ tree[q] # <<>>
              /\ Head(tree[q]) \in S /\ h[Head(tree[q])].size = Sizes(h, tree)[q]
         /\ \A x \in S : \E q \in DOMAIN tree : Sizes(h, tree)[q] = h[x].size
<1> DEFINE D == DOMAIN tree
           z == Sizes(h, tree)
<1>1. \A q \in D : z[q] = NodeSize(h, tree, q) BY DEF Sizes
<1>2. /\ \A x \in S : x \in Int /\ h[x].size \in SizesOf(i)
      /\ Shape(D, z, i)
      /\ \A q \in D : IsList(tree[q], OfSize(h, S, NodeSize(h, tree, q))) /\ tree[q] # <<>>
      /\ \A x \in S : \E q \in D : NodeSize(h, tree, q) = h[x].size
  BY DEF TreeOK
<1> HIDE DEF z
<1>3. ASSUME NEW q \in D
      PROVE  /\ IsList(tree[q], OfSize(h, S, z[q])) /\ tree[q] # <<>>
             /\ Head(tree[q]) \in S /\ h[Head(tree[q])].size = z[q]
  <2>1. IsList(tree[q], OfSize(h, S, z[q])) /\ tree[q] # <<>>
    <3>1. IsList(tree[q], OfSize(h, S, NodeSize(h, tree, q))) /\ tree[q] # <<>> BY <1>2
    <3>2. z[q] = NodeSize(h, tree, q) BY <1>1
    <3> QED BY <3>1, <3>2, Zenon
  <2>2. Head(tree[q]) \in OfSize(h, S, z[q]) BY <2>1, ListOf
  <2> QED BY <2>1, <2>2 DEF OfSize
<1>4. ASSUME NEW x \in S PROVE \E q \in D : z[q] = h[x].size
  <2>1. PICK q \in D : NodeSize(h, tree, q) = h[x].size BY <1>2
  <2>2. z[q] = NodeSize(h, tree, q) BY <1>1
  <2> QED BY <2>1, <2>2, Zenon
<1> QED BY <1>1, <1>2, <1>3, <1>4, Zenon DEF z

\* A function on nothing.
LEMMA EmptyFcn == ASSUME NEW D, NEW g PROVE [p \in D |-> g[p]] = <<>> <=> D = {}
<1>1. ASSUME D = {} PROVE [p \in D |-> g[p]] = <<>> BY <1>1
<1>2. ASSUME [p \in D |-> g[p]] = <<>> PROVE D = {}
  <2>1. DOMAIN [p \in D |-> g[p]] = D OBVIOUS
  <2>2. DOMAIN <<>> = {} OBVIOUS
  <2> QED BY <1>2, <2>1, <2>2, Zenon
<1> QED BY <1>1, <1>2

\* One chunk is a list.
LEMMA SingleList == ASSUME NEW x \in Int PROVE IsList(<<x>>, {x}) /\ <<x>> # <<>> /\ Head(<<x>>) = x
<1>1. <<x>> \in Seq(Int) /\ Len(<<x>>) = 1 /\ <<x>>[1] = x /\ <<x>> # <<>> /\ Head(<<x>>) = x OBVIOUS
<1>2. \A a, b \in 1 .. Len(<<x>>) : a = b BY <1>1
<1>3. \A a \in 1 .. Len(<<x>>) : <<x>>[a] \in {x} BY <1>1
<1>4. \A y \in {x} : \E a \in 1 .. Len(<<x>>) : <<x>>[a] = y BY <1>1
<1>5. IsList(<<x>>, {x})
  <2> DEFINE s == <<x>>
  <2>1. \A a, b \in 1 .. Len(s) : s[a] = s[b] => a = b BY <1>2
  <2> HIDE DEF s
  <2>2. s \in Seq(Int) BY <1>1 DEF s
  <2>3. (\A a \in 1 .. Len(s) : s[a] \in {x}) /\ \A y \in {x} : \E a \in 1 .. Len(s) : s[a] = y BY <1>3, <1>4 DEF s
  <2>4. IsList(s, {x}) BY <2>1, <2>2, <2>3, ListIs
  <2> QED BY <2>4 DEF s
<1> QED BY <1>1, <1>5

-----------------------------------------------------------------------------
\* The treebin of insert_large_chunk.
Inserted(h, tree, i, x, size) ==
  LET to(k)   == SubSeq(Turns(size, i), 1, k)
      Ends(k) == to(k) \notin DOMAIN tree \/ h[Head(tree[to(k)])].size = size
      at      == to(CHOOSE k \in 0 .. SIZE_T_BITSIZE : Ends(k) /\ \A j \in 0 .. k - 1 : ~Ends(j))
      ring    == IF at \in DOMAIN tree THEN InsertAt(tree[at], 2, x) ELSE <<x>>
  IN  [p \in DOMAIN tree \cup {at} |-> IF p = at THEN ring ELSE tree[p]]

\* Where a chunk of size s goes: down k turns, to the node of its size or to a
\* free place.
Place(h, tree, i, x, s, k, at) ==
  /\ at \in DOMAIN tree => NodeSize(h, tree, at) = s
  /\ \A j \in 0 .. k - 1 : /\ SubSeq(Turns(s, i), 1, j) \in DOMAIN tree
                          /\ NodeSize(h, tree, SubSeq(Turns(s, i), 1, j)) # s
  /\ Inserted(h, tree, i, x, s) =
       [p \in DOMAIN tree \cup {at} |->
          IF p = at THEN IF at \in DOMAIN tree THEN InsertAt(tree[at], 2, x) ELSE <<x>>
          ELSE tree[p]]

\* The node of a size, or where it will be.
LEMMA PlaceIs ==
  ASSUME NEW i \in 0 .. NTREEBINS - 1, NEW h, NEW tree, NEW S, TreeOK(h, tree, i, S), NEW x, NEW s \in SizesOf(i)
  PROVE  \E k \in 0 .. Depth(i) : Place(h, tree, i, x, s, k, SubSeq(Turns(s, i), 1, k))
<1> DEFINE D == DOMAIN tree
           to(k) == SubSeq(Turns(s, i), 1, k)
           Ends(k) == to(k) \notin D \/ h[Head(tree[to(k)])].size = s
           First(k) == Ends(k) /\ \A j \in 0 .. k - 1 : ~Ends(j)
           c == CHOOSE k \in 0 .. SIZE_T_BITSIZE : First(k)
<1> DEFINE z == Sizes(h, tree)
<1>1. (\A q \in D : z[q] = NodeSize(h, tree, q)) /\ Shape(D, z, i) BY TreeParts
<1> HIDE DEF z
<1>2. PICK k \in 0 .. Depth(i) : /\ to(k) \notin D \/ z[to(k)] = s
                                /\ \A j \in 0 .. k - 1 : ~(to(j) \notin D \/ z[to(j)] = s)
  BY <1>1, PlaceExists
<1>3. Inserted(h, tree, i, x, s) =
        [p \in D \cup {to(c)} |-> IF p = to(c) THEN IF to(c) \in D THEN InsertAt(tree[to(c)], 2, x) ELSE <<x>>
                                  ELSE tree[p]]
  BY Zenon DEF Inserted
<1>4. \A q \in D : z[q] = h[Head(tree[q])].size BY <1>1, Zenon DEF NodeSize
<1> HIDE DEF to
<1>5. First(k)
  <2>1. Ends(k) BY <1>2, <1>4
  <2>2. \A j \in 0 .. k - 1 : ~Ends(j) BY <1>2, <1>4
  <2> QED BY <2>1, <2>2
<1> HIDE DEF Ends
<1>6. k \in 0 .. SIZE_T_BITSIZE /\ k \in Nat BY DepthRange, BinConstants
<1>7. c \in 0 .. SIZE_T_BITSIZE /\ First(c)
  <2> HIDE DEF First
  <2> QED BY <1>5, <1>6
<1> HIDE DEF c
<1>8. c = k
  <2>1. ~(c < k) BY <1>5, <1>6, <1>7
  <2>2. ~(k < c) BY <1>5, <1>6, <1>7
  <2> QED BY <1>6, <1>7, <2>1, <2>2
<1>9. /\ to(k) \in D => NodeSize(h, tree, to(k)) = s
      /\ \A j \in 0 .. k - 1 : to(j) \in D /\ NodeSize(h, tree, to(j)) # s
  BY <1>1, <1>2
<1> QED BY <1>3, <1>8, <1>9, Zenon DEF to, Place

\* Inserting keeps a treebin and adds the chunk.
LEMMA TreeInsert ==
  ASSUME NEW i \in 0 .. NTREEBINS - 1, NEW h, NEW tree, NEW S, TreeOK(h, tree, i, S),
         NEW x \in Int, x \notin S, NEW s \in SizesOf(i), h[x].size = s
  PROVE  TreeOK(h, Inserted(h, tree, i, x, s), i, S \cup {x}) /\ DOMAIN Inserted(h, tree, i, x, s) # {}
<1> DEFINE D == DOMAIN tree
           T == S \cup {x}
<1>0. PICK k \in 0 .. Depth(i) : Place(h, tree, i, x, s, k, SubSeq(Turns(s, i), 1, k)) BY PlaceIs
<1> DEFINE at == SubSeq(Turns(s, i), 1, k)
<1>11. at = SubSeq(Turns(s, i), 1, k) OBVIOUS
<1> HIDE DEF at
<1>1. /\ at \in D => NodeSize(h, tree, at) = s
      /\ \A j \in 0 .. k - 1 : /\ SubSeq(Turns(s, i), 1, j) \in D
                              /\ NodeSize(h, tree, SubSeq(Turns(s, i), 1, j)) # s
      /\ Inserted(h, tree, i, x, s) =
           [p \in D \cup {at} |->
              IF p = at THEN IF at \in D THEN InsertAt(tree[at], 2, x) ELSE <<x>>
              ELSE tree[p]]
  BY <1>0, Zenon DEF Place, at
<1> DEFINE z == Sizes(h, tree)
<1>2. /\ \A q \in D : z[q] = NodeSize(h, tree, q)
      /\ Shape(D, z, i)
      /\ \A y \in S : y \in Int /\ h[y].size \in SizesOf(i)
      /\ \A q \in D : /\ IsList(tree[q], OfSize(h, S, z[q])) /\ tree[q] # <<>>
                      /\ Head(tree[q]) \in S /\ h[Head(tree[q])].size = z[q]
      /\ \A y \in S : \E q \in D : z[q] = h[y].size
  BY TreeParts
<1> HIDE DEF z
<1> DEFINE t == Inserted(h, tree, i, x, s)
<1>3. DOMAIN t = D \cup {at} /\ \A q \in D \ {at} : t[q] = tree[q] BY <1>1
<1>4. at \in D => t[at] = InsertAt(tree[at], 2, x) BY <1>1
<1>5. at \notin D => t[at] = <<x>> BY <1>1
<1> HIDE DEF t
<1>6. \A y \in T : y \in Int /\ h[y].size \in SizesOf(i) BY <1>2
<1>7. ASSUME NEW n, n # s PROVE OfSize(h, T, n) = OfSize(h, S, n) BY <1>7 DEF OfSize
<1>8. OfSize(h, T, s) = OfSize(h, S, s) \cup {x} BY DEF OfSize
<1>9. CASE at \in D
  <2>1. z[at] = s /\ IsList(tree[at], OfSize(h, S, s)) /\ tree[at] # <<>> BY <1>1, <1>2, <1>9
  <2>2. x \notin OfSize(h, S, s) BY DEF OfSize
  <2>3. IsList(t[at], OfSize(h, T, s)) /\ t[at] # <<>> /\ Head(t[at]) = Head(tree[at])
    <3>1. LET a == InsertAt(tree[at], 2, x)
          IN  IsList(a, OfSize(h, S, s) \cup {x}) /\ a # <<>> /\ Head(a) = Head(tree[at])
      BY <2>1, <2>2, InsertList
    <3> QED BY <1>4, <1>8, <1>9, <3>1, Zenon
  <2>4. ASSUME NEW q \in D, q # at PROVE z[q] # s BY <1>2, <1>9, <2>1, <2>4 DEF Shape
  <2>5. ASSUME NEW q \in D PROVE IsList(t[q], OfSize(h, T, z[q])) /\ t[q] # <<>> /\ z[q] = NodeSize(h, t, q)
    <3>1. CASE q = at BY <2>1, <2>3, <3>1, <1>2, <1>9 DEF NodeSize
    <3>2. CASE q # at BY <1>2, <1>3, <1>7, <2>4, <3>2 DEF NodeSize
    <3> QED BY <3>1, <3>2
  <2>6. DOMAIN t = D BY <1>3, <1>9
  <2>7. ASSUME NEW y \in T PROVE \E q \in D : z[q] = h[y].size
    <3>1. CASE y = x BY <1>9, <2>1, <3>1
    <3>2. CASE y \in S BY <1>2, <3>2
    <3> QED BY <3>1, <3>2
  <2>8. TreeOK(h, t, i, T) BY <1>2, <1>6, <2>5, <2>6, <2>7, TreeIs
  <2> QED BY <2>6, <2>8, <1>9 DEF t
<1>10. CASE at \notin D
  <2> DEFINE y == [q \in D \cup {at} |-> IF q = at THEN s ELSE z[q]]
  <2>1. (\A q \in D : y[q] = z[q]) /\ y[at] = s BY <1>10
  <2> HIDE DEF y
  <2>2. \A j \in 0 .. k - 1 : SubSeq(Turns(s, i), 1, j) \in D /\ z[SubSeq(Turns(s, i), 1, j)] # s BY <1>1, <1>2
  <2>11. Shape(D, z, i) BY <1>2
  <2>3. Shape(D \cup {at}, y, i) 
    <3>1. \A q \in D : y[q] = z[q] BY <2>1
    <3>2. y[at] = s BY <2>1
    <3>3. k \in 0 .. Depth(i) BY <1>0
    <3> HIDE DEF D
    <3>4. at \notin D BY <1>10
    <3>5. at = SubSeq(Turns(s, i), 1, k) BY <1>11
    <3>6. Shape(D, z, i) BY <2>11
    <3>7. \A j \in 0 .. k - 1 : /\ SubSeq(Turns(s, i), 1, j) \in D
                              /\ z[SubSeq(Turns(s, i), 1, j)] # s BY <2>2
    <3>8. i \in 0 .. NTREEBINS - 1 /\ s \in SizesOf(i) OBVIOUS
    <3> QED BY <3>1, <3>2, <3>3, <3>4, <3>5, <3>6, <3>7, <3>8, ShapeInsert
  <2>4. \A q \in D : z[q] # s
    <3>1. \A q \in D : y[q] = y[at] => q = at BY <2>3 DEF Shape
    <3> QED BY <1>10, <2>1, <3>1
  <2>5. OfSize(h, S, s) = {}
    <3>1. ASSUME NEW w \in S, h[w].size = s PROVE FALSE BY <1>2, <2>4, <3>1
    <3> QED BY <3>1 DEF OfSize
  <2>6. t[at] = <<x>> /\ IsList(<<x>>, {x}) /\ <<x>> # <<>> /\ Head(<<x>>) = x BY <1>5, <1>10, SingleList
  <2>7. OfSize(h, T, s) = {x} BY <1>8, <2>5
  <2>8. ASSUME NEW q \in D \cup {at} PROVE IsList(t[q], OfSize(h, T, y[q])) /\ t[q] # <<>> /\ y[q] = NodeSize(h, t, q)
    <3>1. CASE q = at BY <2>1, <2>6, <2>7, <3>1 DEF NodeSize
    <3>2. CASE q # at
      <4>1. q \in D /\ t[q] = tree[q] /\ y[q] = z[q] /\ z[q] # s BY <1>3, <2>1, <2>4, <3>2
      <4> QED BY <1>2, <1>7, <4>1 DEF NodeSize
    <3> QED BY <3>1, <3>2
  <2>9. ASSUME NEW w \in T PROVE \E q \in D \cup {at} : y[q] = h[w].size
    <3>1. CASE w = x BY <2>1, <3>1
    <3>2. CASE w \in S
      <4>1. PICK q \in D : z[q] = h[w].size BY <1>2, <3>2
      <4> QED BY <2>1, <4>1
    <3> QED BY <3>1, <3>2
  <2>10. TreeOK(h, t, i, T) BY <1>3, <1>6, <2>3, <2>8, <2>9, TreeIs
  <2> QED BY <1>3, <2>10 DEF t
<1> QED BY <1>9, <1>10

-----------------------------------------------------------------------------
\* The treebin of unlink_large_chunk.
Unlinked(tree, x) ==
  LET at   == CHOOSE p \in DOMAIN tree : x \in ToSet(tree[p])
      ring == tree[at]
      leaf == LeafUnder(tree, at)
  IN  IF Len(ring) = 1
      THEN [p \in DOMAIN tree \ {leaf} |-> IF p = at THEN tree[leaf] ELSE tree[p]]
      ELSE [tree EXCEPT ![at] =
              IF x = Head(ring) THEN <<Last(ring)>> \o Tail(Front(ring)) ELSE Without(ring, x)]

\* The node of a chunk.
LEMMA NodeOf ==
  ASSUME NEW i \in 0 .. NTREEBINS - 1, NEW h, NEW tree, NEW S, TreeOK(h, tree, i, S), NEW x
  PROVE  /\ \A q \in DOMAIN tree : x \in ToSet(tree[q]) <=> x \in S /\ h[x].size = Sizes(h, tree)[q]
         /\ (\E q \in DOMAIN tree : x \in ToSet(tree[q])) <=> x \in S
<1> DEFINE z == Sizes(h, tree)
<1>1. /\ \A q \in DOMAIN tree : IsList(tree[q], OfSize(h, S, z[q]))
      /\ \A y \in S : \E q \in DOMAIN tree : z[q] = h[y].size
  BY TreeParts
<1> HIDE DEF z
<1>2. ASSUME NEW q \in DOMAIN tree PROVE x \in ToSet(tree[q]) <=> x \in S /\ h[x].size = z[q]
  <2>1. ToSet(tree[q]) = OfSize(h, S, z[q]) BY <1>1 DEF IsList
  <2> QED BY <2>1 DEF OfSize
<1>3. (\E q \in DOMAIN tree : x \in ToSet(tree[q])) <=> x \in S
  <2>1. ASSUME x \in S PROVE \E q \in DOMAIN tree : x \in ToSet(tree[q])
    <3>1. PICK q \in DOMAIN tree : z[q] = h[x].size BY <1>1, <2>1
    <3>2. x \in ToSet(tree[q]) BY <1>2, <2>1, <3>1
    <3> QED BY <3>2
  <2>2. ASSUME NEW q \in DOMAIN tree, x \in ToSet(tree[q]) PROVE x \in S BY <1>2, <2>2
  <2> QED BY <2>1, <2>2
<1> QED BY <1>2, <1>3 DEF z

\* Unlinking keeps a treebin and takes the chunk out, whether its ring stays,
\* or a leaf takes its node, or the node goes.
LEMMA TreeUnlink ==
  ASSUME NEW i \in 0 .. NTREEBINS - 1, NEW h, NEW tree, NEW S, TreeOK(h, tree, i, S), NEW x \in S
  PROVE  TreeOK(h, Unlinked(tree, x), i, S \ {x}) /\ (Unlinked(tree, x) = <<>> <=> DOMAIN Unlinked(tree, x) = {})
<1> DEFINE D == DOMAIN tree
           z == Sizes(h, tree)
           T == S \ {x}
           at == CHOOSE p \in D : x \in ToSet(tree[p])
           ring == tree[at]
           leaf == LeafUnder(tree, at)
           s == h[x].size
           rest1 == [p \in D \ {leaf} |-> IF p = at THEN tree[leaf] ELSE tree[p]]
           new == IF x = Head(ring) THEN <<Last(ring)>> \o Tail(Front(ring)) ELSE Without(ring, x)
           rest2 == [tree EXCEPT ![at] = new]
           t == Unlinked(tree, x)
<1>1. Len(ring) = 1 => t = rest1 BY Zenon DEF Unlinked
<1>2. Len(ring) # 1 => t = rest2 BY Zenon DEF Unlinked
<1>3. /\ \A q \in D : z[q] = NodeSize(h, tree, q)
      /\ Shape(D, z, i)
      /\ \A y \in S : y \in Int /\ h[y].size \in SizesOf(i)
      /\ \A q \in D : /\ IsList(tree[q], OfSize(h, S, z[q])) /\ tree[q] # <<>>
                      /\ Head(tree[q]) \in S /\ h[Head(tree[q])].size = z[q]
      /\ \A y \in S : \E q \in D : z[q] = h[y].size
  BY TreeParts
<1>4. at \in D /\ x \in ToSet(tree[at]) /\ z[at] = s
  <2>1. (\E q \in D : x \in ToSet(tree[q])) BY NodeOf, Zenon
  <2>2. at \in D /\ x \in ToSet(tree[at]) BY <2>1, Zenon
  <2>3. \A q \in D : x \in ToSet(tree[q]) => h[x].size = z[q] BY NodeOf
  <2> HIDE DEF z, at
  <2> QED BY <2>2, <2>3
<1>5. \A q \in D : z[q] = s => q = at
  <2>1. \A q, r \in D : z[q] = z[r] => q = r BY <1>3, Zenon DEF Shape
  <2> HIDE DEF z, at, s
  <2> QED BY <1>4, <2>1
<1>6. leaf \in D /\ IsPrefix(at, leaf) /\ Children(D, leaf) = {}
  <2> HIDE DEF z, at
  <2>1. Shape(D, z, i) BY <1>3
  <2>2. at \in D BY <1>4
  <2> QED BY <2>1, <2>2, LeafExists
<1>7. IsList(ring, OfSize(h, S, s)) /\ ring # <<>> /\ Head(ring) \in S /\ h[Head(ring)].size = s /\ x \in OfSize(h, S, s)
  <2>1. x \in OfSize(h, S, s) BY DEF OfSize
  <2> HIDE DEF z, at, s
  <2> QED BY <1>3, <1>4, <2>1
<1>8. OfSize(h, T, s) = OfSize(h, S, s) \ {x} BY DEF OfSize
<1>9. ASSUME NEW n, n # s PROVE OfSize(h, T, n) = OfSize(h, S, n) BY <1>9 DEF OfSize
<1>10. \A y \in T : y \in Int /\ h[y].size \in SizesOf(i) BY <1>3
<1> HIDE DEF z, at, s, leaf
<1>11. CASE Len(ring) = 1
  <2>1. t = rest1 BY <1>1, <1>11
  <2>2. DOMAIN t = D \ {leaf} /\ \A q \in D \ {leaf} : t[q] = IF q = at THEN tree[leaf] ELSE tree[q] BY <2>1
  <2>3. t = <<>> <=> DOMAIN t = {}
    <3> DEFINE g == [p \in D |-> IF p = at THEN tree[leaf] ELSE tree[p]]
    <3>1. t = [p \in D \ {leaf} |-> g[p]] BY <2>1
    <3> HIDE DEF g, t
    <3> QED BY <3>1, EmptyFcn
  <2> HIDE DEF t
  <2> DEFINE y == [q \in D \ {leaf} |-> IF q = at THEN z[leaf] ELSE z[q]]
  <2>4. \A q \in D \ {leaf} : y[q] = IF q = at THEN z[leaf] ELSE z[q] OBVIOUS
  <2> HIDE DEF y
  <2>5. Shape(D \ {leaf}, y, i)
    <3>1. i \in 0 .. NTREEBINS - 1 /\ Shape(D, z, i) BY <1>3
    <3> QED BY <1>4, <1>6, <2>4, <3>1, ShapeRemove
  <2>6. OfSize(h, S, s) = {x}
    <3>3. IsList(ring, OfSize(h, S, s)) BY <1>7
    <3> HIDE DEF ring
    <3>1. \A w \in OfSize(h, S, s) : \E a \in 1 .. Len(ring) : ring[a] = w BY <3>3, ListOf
    <3>2. \A v, w \in OfSize(h, S, s) : v = w BY <1>11, <3>1
    <3> QED BY <1>7, <3>2
  <2>7. ASSUME NEW q \in D \ {leaf} PROVE IsList(t[q], OfSize(h, T, y[q])) /\ t[q] # <<>> /\ y[q] = NodeSize(h, t, q)
    <3>1. CASE q = at
      <4>1. t[q] = tree[leaf] /\ y[q] = z[leaf] /\ leaf # at BY <2>2, <2>4, <3>1
      <4>2. z[leaf] # s BY <1>5, <1>6, <4>1
      <4>3. IsList(tree[leaf], OfSize(h, S, z[leaf])) /\ tree[leaf] # <<>> /\ h[Head(tree[leaf])].size = z[leaf] BY <1>3, <1>6
      <4>4. OfSize(h, T, z[leaf]) = OfSize(h, S, z[leaf]) BY <1>9, <4>2
      <4> QED BY <4>1, <4>3, <4>4 DEF NodeSize
    <3>2. CASE q # at
      <4>1. t[q] = tree[q] /\ y[q] = z[q] BY <2>2, <2>4, <3>2
      <4>2. z[q] # s BY <1>5, <3>2
      <4>3. IsList(tree[q], OfSize(h, S, z[q])) /\ tree[q] # <<>> /\ h[Head(tree[q])].size = z[q] BY <1>3
      <4>4. OfSize(h, T, z[q]) = OfSize(h, S, z[q]) BY <1>9, <4>2
      <4> QED BY <4>1, <4>3, <4>4 DEF NodeSize
    <3> QED BY <3>1, <3>2
  <2>8. ASSUME NEW w \in T PROVE \E q \in D \ {leaf} : y[q] = h[w].size
    <3>1. PICK q \in D : z[q] = h[w].size BY <1>3
    <3>2. q # at
      <4>1. SUFFICES ASSUME q = at PROVE FALSE OBVIOUS
      <4>2. w \in OfSize(h, S, s) BY <1>4, <3>1, <4>1 DEF OfSize
      <4> QED BY <2>6, <4>2
    <3>3. CASE q = leaf
      <4>1. at \in D \ {leaf} BY <1>4, <3>2, <3>3
      <4>2. y[at] = h[w].size BY <2>4, <3>1, <3>3, <4>1
      <4> QED BY <4>1, <4>2
    <3>4. CASE q # leaf
      <4>1. q \in D \ {leaf} /\ y[q] = h[w].size BY <2>4, <3>1, <3>2, <3>4
      <4> QED BY <4>1
    <3> QED BY <3>3, <3>4
  <2>9. DOMAIN t = D \ {leaf} BY <2>2
  <2> HIDE DEF D, T
  <2>10. TreeOK(h, t, i, T)
    <3> DEFINE E == D \ {leaf}
    <3>1. DOMAIN t = E /\ Shape(E, y, i) BY <2>5, <2>9
    <3>2. \A q \in E : IsList(t[q], OfSize(h, T, y[q])) /\ t[q] # <<>> /\ y[q] = NodeSize(h, t, q) BY <2>7
    <3>3. \A w \in T : \E q \in E : y[q] = h[w].size BY <2>8
    <3> HIDE DEF E
    <3> QED BY <1>10, <3>1, <3>2, <3>3, TreeIs
  <2> QED BY <2>3, <2>10 DEF t, T
<1>12. CASE Len(ring) # 1
  <2>1. t = rest2 BY <1>2, <1>12
  <2> HIDE DEF t
  <2>2. IsList(new, OfSize(h, T, s)) /\ new # <<>>
    <3>1. CASE x = Head(ring)
      <4>1. IsList(<<Last(ring)>> \o Tail(Front(ring)), OfSize(h, S, s) \ {Head(ring)}) /\ <<Last(ring)>> \o Tail(Front(ring)) # <<>>
        BY <1>7, <1>12, ReplaceHead
      <4>2. OfSize(h, S, s) \ {Head(ring)} = OfSize(h, T, s) BY <1>8, <3>1
      <4>3. new = <<Last(ring)>> \o Tail(Front(ring)) BY <3>1
      <4> QED BY <4>1, <4>2, <4>3, Zenon
    <3>2. CASE x # Head(ring)
      <4>1. IsList(Without(ring, x), OfSize(h, S, s) \ {x}) BY <1>7, WithoutList
      <4>2. Head(ring) \in OfSize(h, T, s) BY <1>7, <1>8, <3>2, ListOf
      <4>3. new = Without(ring, x) /\ OfSize(h, S, s) \ {x} = OfSize(h, T, s) BY <1>8, <3>2
      <4>4. IsList(new, OfSize(h, T, s)) BY <4>1, <4>3, Zenon
      <4> HIDE DEF new
      <4>5. new = <<>> <=> OfSize(h, T, s) = {} BY <4>4, ListOf
      <4> QED BY <4>2, <4>4, <4>5
    <3> QED BY <3>1, <3>2
  <2>3. Head(new) \in OfSize(h, T, s)
    <3> HIDE DEF new
    <3> QED BY <2>2, ListOf
  <2> HIDE DEF new
  <2>4. DOMAIN t = D /\ t[at] = new /\ \A q \in D : q # at => t[q] = tree[q] BY <1>4, <2>1
  <2>5. ASSUME NEW q \in D PROVE IsList(t[q], OfSize(h, T, z[q])) /\ t[q] # <<>> /\ z[q] = NodeSize(h, t, q)
    <3>1. CASE q = at
      <4>1. t[q] = new /\ z[q] = s BY <1>4, <2>4, <3>1
      <4>2. h[Head(new)].size = s BY <2>3 DEF OfSize
      <4> QED BY <2>2, <4>1, <4>2 DEF NodeSize
    <3>2. CASE q # at
      <4>1. t[q] = tree[q] BY <2>4, <3>2
      <4>2. z[q] # s BY <1>5, <3>2
      <4>3. IsList(tree[q], OfSize(h, S, z[q])) /\ tree[q] # <<>> /\ h[Head(tree[q])].size = z[q] BY <1>3
      <4>4. OfSize(h, T, z[q]) = OfSize(h, S, z[q]) BY <1>9, <4>2
      <4> QED BY <4>1, <4>3, <4>4 DEF NodeSize
    <3> QED BY <3>1, <3>2
  <2>6. \A w \in T : \E q \in D : z[q] = h[w].size BY <1>3
  <2>7. D # {} BY <1>4
  <2>8. DOMAIN t = D /\ Shape(D, z, i) BY <1>3, <2>4
  <2>9. t # <<>> BY <2>7, <2>8
  <2>10. TreeOK(h, t, i, T)
    <3> HIDE DEF T, D
    <3> QED BY <1>10, <2>5, <2>6, <2>8, TreeIs
  <2> QED BY <2>7, <2>8, <2>9, <2>10 DEF t, T
<1> QED BY <1>11, <1>12

-----------------------------------------------------------------------------
(* The bins hold exactly the chunks of a set B: inserting adds one to it,  *)
(* unlinking takes one from it, and neither touches anything else.         *)

\* The fields of malloc_state.
Fields == {"head", "smallmap", "smallbins", "treemap", "treebins", "dv", "dvsize", "top", "topsize",
           "trim_check", "segsize"}

\* The smallbins hold the chunks of B by size, and the map says which are not empty.
SmallOK(m, B) ==
  /\ DOMAIN m.smallbins = MIN_CHUNK_SIZE .. NSMALLBINS - 1
  /\ m.smallmap = {i \in MIN_CHUNK_SIZE .. NSMALLBINS - 1 : m.smallbins[i] # <<>>}
  /\ \A i \in MIN_CHUNK_SIZE .. NSMALLBINS - 1 : IsList(m.smallbins[i], OfSize(m.head, B, i))

\* The chunks of B for the treebin i.
InBin(h, B, i) == {p \in B : h[p].size \in SizesOf(i)}

\* The treebins hold the chunks of B by size, and the map says which are not empty.
TreesOK(m, B) ==
  /\ DOMAIN m.treebins = 0 .. NTREEBINS - 1
  /\ m.treemap = {i \in 0 .. NTREEBINS - 1 : DOMAIN m.treebins[i] # {}}
  /\ \A i \in 0 .. NTREEBINS - 1 : DOMAIN m.treebins[i] = {} => m.treebins[i] = <<>>
  /\ \A i \in 0 .. NTREEBINS - 1 : TreeOK(m.head, m.treebins[i], i, InBin(m.head, B, i))

\* The bins have the chunks B, each where its size belongs.
BinsOK(m, B) ==
  /\ \A p \in B : p \in Nat /\ m.head[p].size \in MIN_CHUNK_SIZE .. MAX_SIZE_T
  /\ SmallOK(m, B) /\ TreesOK(m, B)

\* Nothing but the bins is changed.
OnlyBins(m, r) ==
  /\ DOMAIN r = Fields /\ r.head = m.head /\ r.dv = m.dv /\ r.dvsize = m.dvsize /\ r.top = m.top
  /\ r.topsize = m.topsize /\ r.trim_check = m.trim_check /\ r.segsize = m.segsize

\* A size is for one smallbin or for one treebin.
LEMMA Sized ==
  ASSUME NEW s \in MIN_CHUNK_SIZE .. MAX_SIZE_T
  PROVE  /\ s \in Nat
         /\ is_small(s) => s \in MIN_CHUNK_SIZE .. NSMALLBINS - 1 /\ \A i : s \notin SizesOf(i)
         /\ ~is_small(s) => /\ s \in LargeSizes /\ s \in SizesOf(compute_tree_index(s))
                            /\ compute_tree_index(s) \in 0 .. NTREEBINS - 1
                            /\ s \notin MIN_CHUNK_SIZE .. NSMALLBINS - 1
                            /\ \A i : s \in SizesOf(i) => i = compute_tree_index(s)
<1>1. NSMALLBINS \in Nat BY BinConstants, Pow DEF NSMALLBINS
<1>2. s \in Nat BY DEF MIN_CHUNK_SIZE
<1>3. \A i : s \in SizesOf(i) => s \in LargeSizes /\ i = compute_tree_index(s) BY DEF SizesOf
<1>4. ASSUME is_small(s) PROVE s \in MIN_CHUNK_SIZE .. NSMALLBINS - 1 /\ s \notin LargeSizes
  BY <1>1, <1>2, <1>4 DEF is_small, LargeSizes
<1>5. ASSUME ~is_small(s) PROVE s \in LargeSizes /\ s \notin MIN_CHUNK_SIZE .. NSMALLBINS - 1
  BY <1>1, <1>2, <1>5 DEF is_small, LargeSizes
<1>6. s \in LargeSizes => compute_tree_index(s) \in 0 .. NTREEBINS - 1 BY IndexFacts DEF LargeSizes
<1>7. s \in LargeSizes => s \in SizesOf(compute_tree_index(s)) BY DEF SizesOf
<1> QED BY <1>2, <1>3, <1>4, <1>5, <1>6, <1>7

\* Bins depend on the sizes of their chunks only.
LEMMA TreeFrame ==
  ASSUME NEW h, NEW g, NEW tree, NEW i, NEW S, TreeOK(h, tree, i, S), \A x \in S : g[x].size = h[x].size
  PROVE  TreeOK(g, tree, i, S)
<1> DEFINE z == Sizes(h, tree)
           D == DOMAIN tree
<1>1. /\ Shape(D, z, i)
      /\ \A y \in S : y \in Int /\ h[y].size \in SizesOf(i)
      /\ \A q \in D : /\ IsList(tree[q], OfSize(h, S, z[q])) /\ tree[q] # <<>>
                      /\ Head(tree[q]) \in S /\ h[Head(tree[q])].size = z[q]
      /\ \A y \in S : \E q \in D : z[q] = h[y].size
  BY TreeParts
<1> HIDE DEF z
<1>2. \A n : OfSize(g, S, n) = OfSize(h, S, n) BY DEF OfSize
<1>3. \A q \in D : z[q] = NodeSize(g, tree, q) BY <1>1 DEF NodeSize
<1>4. \A q \in D : IsList(tree[q], OfSize(g, S, z[q])) /\ tree[q] # <<>> BY <1>1, <1>2
<1>5. \A y \in S : y \in Int /\ g[y].size \in SizesOf(i) BY <1>1
<1>6. \A y \in S : \E q \in D : z[q] = g[y].size BY <1>1
<1> HIDE DEF D
<1>7. DOMAIN tree = D BY DEF D
<1> QED BY <1>1, <1>3, <1>4, <1>5, <1>6, <1>7, TreeIs

\* Smallbins depend on the small chunks and their sizes only.
LEMMA SmallFrame ==
  ASSUME NEW m, NEW B, SmallOK(m, B), NEW n, NEW C, n.smallmap = m.smallmap, n.smallbins = m.smallbins,
         \A i \in MIN_CHUNK_SIZE .. NSMALLBINS - 1 : OfSize(n.head, C, i) = OfSize(m.head, B, i)
  PROVE  SmallOK(n, C)
BY Zenon DEF SmallOK

\* Treebins depend on the large chunks and their sizes only.
LEMMA TreesFrame ==
  ASSUME NEW m, NEW B, TreesOK(m, B), NEW n, NEW C, n.treemap = m.treemap, n.treebins = m.treebins,
         \A i \in 0 .. NTREEBINS - 1 : InBin(n.head, C, i) = InBin(m.head, B, i),
         \A p \in B : n.head[p].size = m.head[p].size
  PROVE  TreesOK(n, C)
<1>1. ASSUME NEW i \in 0 .. NTREEBINS - 1 PROVE TreeOK(n.head, n.treebins[i], i, InBin(n.head, C, i))
  <2>1. TreeOK(m.head, m.treebins[i], i, InBin(m.head, B, i)) BY DEF TreesOK
  <2>2. \A x \in InBin(m.head, B, i) : n.head[x].size = m.head[x].size BY DEF InBin
  <2>3. TreeOK(n.head, m.treebins[i], i, InBin(m.head, B, i)) BY <2>1, <2>2, TreeFrame
  <2>4. InBin(n.head, C, i) = InBin(m.head, B, i) OBVIOUS
  <2> QED BY <2>3, <2>4, Zenon
<1> QED BY <1>1, Zenon DEF TreesOK

\* The bins do not mind what happens elsewhere.
LEMMA BinsFrame ==
  ASSUME NEW m, NEW B, BinsOK(m, B), NEW n, n.smallmap = m.smallmap, n.smallbins = m.smallbins,
         n.treemap = m.treemap, n.treebins = m.treebins, \A p \in B : n.head[p].size = m.head[p].size
  PROVE  BinsOK(n, B)
<1>1. \A i : OfSize(n.head, B, i) = OfSize(m.head, B, i) /\ InBin(n.head, B, i) = InBin(m.head, B, i)
  BY DEF OfSize, InBin
<1>2. SmallOK(n, B) BY <1>1, SmallFrame DEF BinsOK
<1>3. TreesOK(n, B) BY <1>1, TreesFrame DEF BinsOK
<1>4. \A p \in B : p \in Nat /\ n.head[p].size \in MIN_CHUNK_SIZE .. MAX_SIZE_T BY DEF BinsOK
<1> QED BY <1>2, <1>3, <1>4 DEF BinsOK

\* Inserting adds the chunk to the bins.
LEMMA InsertSmall ==
  ASSUME NEW m, NEW B, DOMAIN m = Fields, BinsOK(m, B), NEW p \in Nat, p \notin B,
         NEW size \in MIN_CHUNK_SIZE .. NSMALLBINS - 1, size =< MAX_SIZE_T, m.head[p].size = size
  PROVE  OnlyBins(m, insert_small_chunk(m, p, size)) /\ BinsOK(insert_small_chunk(m, p, size), B \cup {p})
<1> DEFINE r == insert_small_chunk(m, p, size)
           C == B \cup {p}
           b == IF size \in m.smallmap THEN <<p>> \o m.smallbins[size] ELSE <<p>>
<1>1. OnlyBins(m, r) BY DEF insert_small_chunk, OnlyBins, Fields
<1>2. /\ r.smallmap = m.smallmap \cup {size} /\ r.smallbins = [m.smallbins EXCEPT ![size] = b]
      /\ r.treemap = m.treemap /\ r.treebins = m.treebins
  BY DEF insert_small_chunk, Fields
<1>3. r.head = m.head BY <1>1 DEF OnlyBins
<1>4. SmallOK(m, B) /\ TreesOK(m, B) BY DEF BinsOK
<1> HIDE DEF r
<1>5. IsList(b, OfSize(m.head, C, size)) /\ b # <<>>
  <2>1. IsList(m.smallbins[size], OfSize(m.head, B, size)) BY <1>4 DEF SmallOK
  <2>2. OfSize(m.head, C, size) = OfSize(m.head, B, size) \cup {p} /\ p \notin OfSize(m.head, B, size) BY DEF OfSize
  <2>3. CASE size \in m.smallmap
    <3>1. IsList(<<p>> \o m.smallbins[size], OfSize(m.head, B, size) \cup {p}) /\ <<p>> \o m.smallbins[size] # <<>>
      BY <2>1, <2>2, ConsList
    <3> QED BY <2>2, <2>3, <3>1
  <2>4. CASE size \notin m.smallmap
    <3>1. m.smallbins[size] = <<>> BY <1>4, <2>4 DEF SmallOK
    <3>2. OfSize(m.head, B, size) = {} BY <2>1, <3>1, ListOf
    <3>3. IsList(<<p>>, {p}) /\ <<p>> # <<>> BY SingleList
    <3>4. OfSize(m.head, C, size) = {p} BY <2>2, <3>2
    <3> QED BY <2>4, <3>3, <3>4
  <2> QED BY <2>3, <2>4
<1> HIDE DEF b
<1>6. SmallOK(r, C)
  <2> DEFINE I == MIN_CHUNK_SIZE .. NSMALLBINS - 1
  <2>1. DOMAIN m.smallbins = I /\ m.smallmap = {i \in I : m.smallbins[i] # <<>>} /\ size \in I BY <1>4 DEF SmallOK
  <2>2. \A i \in I : IsList(m.smallbins[i], OfSize(m.head, B, i)) BY <1>4 DEF SmallOK
  <2> HIDE DEF I
  <2>3. DOMAIN r.smallbins = I /\ r.smallbins[size] = b /\ \A i \in I \ {size} : r.smallbins[i] = m.smallbins[i]
    BY <1>2, <2>1
  <2>4. r.smallmap = {i \in I : r.smallbins[i] # <<>>} BY <1>2, <1>5, <2>1, <2>3
  <2>5. ASSUME NEW i \in I PROVE IsList(r.smallbins[i], OfSize(r.head, C, i))
    <3>1. CASE i = size BY <1>3, <1>5, <2>3, <3>1
    <3>2. CASE i # size
      <4>1. OfSize(m.head, C, i) = OfSize(m.head, B, i) BY <3>2 DEF OfSize
      <4> QED BY <1>3, <2>2, <2>3, <3>2, <4>1
    <3> QED BY <3>1, <3>2
  <2> QED BY <2>3, <2>4, <2>5 DEF SmallOK, I
<1>7. TreesOK(r, C)
  <2>1. \A i : size \notin SizesOf(i)
    <3>1. NSMALLBINS \in Nat BY BinConstants, Pow DEF NSMALLBINS
    <3> QED BY <3>1 DEF SizesOf, LargeSizes, MIN_CHUNK_SIZE
  <2>2. \A i : InBin(r.head, C, i) = InBin(m.head, B, i) BY <1>3, <2>1 DEF InBin
  <2>3. \A i \in 0 .. NTREEBINS - 1 : InBin(r.head, C, i) = InBin(m.head, B, i) BY <2>2
  <2>4. \A q \in B : r.head[q].size = m.head[q].size BY <1>3
  <2>5. r.treemap = m.treemap /\ r.treebins = m.treebins BY <1>2
  <2>6. TreesOK(m, B) BY <1>4
  <2> HIDE DEF C
  <2> QED BY <2>3, <2>4, <2>5, <2>6, TreesFrame
<1>8. \A q \in C : q \in Nat /\ r.head[q].size \in MIN_CHUNK_SIZE .. MAX_SIZE_T
  <2>1. size \in MIN_CHUNK_SIZE .. MAX_SIZE_T BY DEF MIN_CHUNK_SIZE
  <2> QED BY <1>3, <2>1 DEF BinsOK
<1> QED BY <1>1, <1>6, <1>7, <1>8 DEF BinsOK, r

\* Unlinking takes the chunk out of the bins.
LEMMA UnlinkSmall ==
  ASSUME NEW m, NEW B, DOMAIN m = Fields, BinsOK(m, B), NEW p \in B,
         NEW size \in MIN_CHUNK_SIZE .. NSMALLBINS - 1, m.head[p].size = size
  PROVE  OnlyBins(m, unlink_small_chunk(m, p, size)) /\ BinsOK(unlink_small_chunk(m, p, size), B \ {p})
<1> DEFINE r == unlink_small_chunk(m, p, size)
           C == B \ {p}
           b == Without(m.smallbins[size], p)
<1>1. OnlyBins(m, r) BY DEF unlink_small_chunk, OnlyBins, Fields
<1>2. /\ r.smallmap = IF b = <<>> THEN m.smallmap \ {size} ELSE m.smallmap
      /\ r.smallbins = [m.smallbins EXCEPT ![size] = b]
      /\ r.treemap = m.treemap /\ r.treebins = m.treebins
  BY DEF unlink_small_chunk, Fields
<1>3. r.head = m.head BY <1>1 DEF OnlyBins
<1>4. SmallOK(m, B) /\ TreesOK(m, B) BY DEF BinsOK
<1> HIDE DEF r
<1>5. IsList(b, OfSize(m.head, C, size))
  <2>1. IsList(m.smallbins[size], OfSize(m.head, B, size)) BY <1>4 DEF SmallOK
  <2>2. OfSize(m.head, C, size) = OfSize(m.head, B, size) \ {p} /\ p \in OfSize(m.head, B, size) BY DEF OfSize
  <2>3. IsList(b, OfSize(m.head, B, size) \ {p}) BY <2>1, <2>2, WithoutList
  <2> QED BY <2>2, <2>3
<1>9. m.smallbins[size] # <<>>
  <2>1. IsList(m.smallbins[size], OfSize(m.head, B, size)) BY <1>4 DEF SmallOK
  <2>2. p \in OfSize(m.head, B, size) BY DEF OfSize
  <2> QED BY <2>1, <2>2, ListOf
<1> HIDE DEF b
<1>6. SmallOK(r, C)
  <2> DEFINE I == MIN_CHUNK_SIZE .. NSMALLBINS - 1
  <2>1. DOMAIN m.smallbins = I /\ m.smallmap = {i \in I : m.smallbins[i] # <<>>} /\ size \in I BY <1>4 DEF SmallOK
  <2>2. \A i \in I : IsList(m.smallbins[i], OfSize(m.head, B, i)) BY <1>4 DEF SmallOK
  <2> HIDE DEF I
  <2>3. DOMAIN r.smallbins = I /\ r.smallbins[size] = b /\ \A i \in I \ {size} : r.smallbins[i] = m.smallbins[i]
    BY <1>2, <2>1
  <2>4. r.smallmap = {i \in I : r.smallbins[i] # <<>>} BY <1>2, <1>9, <2>1, <2>3
  <2>5. ASSUME NEW i \in I PROVE IsList(r.smallbins[i], OfSize(r.head, C, i))
    <3>1. CASE i = size BY <1>3, <1>5, <2>3, <3>1
    <3>2. CASE i # size
      <4>1. OfSize(m.head, C, i) = OfSize(m.head, B, i) BY <3>2 DEF OfSize
      <4> QED BY <1>3, <2>2, <2>3, <3>2, <4>1
    <3> QED BY <3>1, <3>2
  <2> QED BY <2>3, <2>4, <2>5 DEF SmallOK, I
<1>7. TreesOK(r, C)
  <2>1. \A i : size \notin SizesOf(i)
    <3>1. NSMALLBINS \in Nat BY BinConstants, Pow DEF NSMALLBINS
    <3> QED BY <3>1 DEF SizesOf, LargeSizes, MIN_CHUNK_SIZE
  <2>2. \A i : InBin(r.head, C, i) = InBin(m.head, B, i) BY <1>3, <2>1 DEF InBin
  <2>3. \A i \in 0 .. NTREEBINS - 1 : InBin(r.head, C, i) = InBin(m.head, B, i) BY <2>2
  <2>4. \A q \in B : r.head[q].size = m.head[q].size BY <1>3
  <2>5. r.treemap = m.treemap /\ r.treebins = m.treebins BY <1>2
  <2>6. TreesOK(m, B) BY <1>4
  <2> HIDE DEF C
  <2> QED BY <2>3, <2>4, <2>5, <2>6, TreesFrame
<1>8. \A q \in C : q \in Nat /\ r.head[q].size \in MIN_CHUNK_SIZE .. MAX_SIZE_T BY <1>3 DEF BinsOK
<1> QED BY <1>1, <1>6, <1>7, <1>8 DEF BinsOK, r

\* Inserting adds the chunk to the bins.
LEMMA InsertLarge ==
  ASSUME NEW m, NEW B, DOMAIN m = Fields, BinsOK(m, B), NEW p \in Nat, p \notin B,
         NEW size \in MIN_CHUNK_SIZE .. MAX_SIZE_T, ~is_small(size), m.head[p].size = size
  PROVE  OnlyBins(m, insert_large_chunk(m, p, size)) /\ BinsOK(insert_large_chunk(m, p, size), B \cup {p})
<1> DEFINE r == insert_large_chunk(m, p, size)
           C == B \cup {p}
           i == compute_tree_index(size)
           t == Inserted(m.head, m.treebins[i], i, p, size)
<1>1. r = [m EXCEPT !.treemap = @ \cup {i}, !.treebins[i] = t]
  BY Zenon DEF insert_large_chunk, Inserted, SizeAt
<1>2. /\ OnlyBins(m, r)
      /\ r.smallmap = m.smallmap /\ r.smallbins = m.smallbins
      /\ r.treemap = m.treemap \cup {i} /\ r.treebins = [m.treebins EXCEPT ![i] = t]
  <2> HIDE DEF r, t, i
  <2> QED BY <1>1 DEF OnlyBins, Fields
<1>3. r.head = m.head BY <1>2 DEF OnlyBins
<1>4. SmallOK(m, B) /\ TreesOK(m, B) BY DEF BinsOK
<1>5. size \in SizesOf(i) /\ i \in 0 .. NTREEBINS - 1 /\ (\A j : size \in SizesOf(j) => j = i)
      /\ size \notin MIN_CHUNK_SIZE .. NSMALLBINS - 1
  BY Sized
<1> HIDE DEF r, i
<1>6. TreeOK(m.head, t, i, InBin(m.head, C, i)) /\ DOMAIN t # {}
  <2> DEFINE S == InBin(m.head, B, i)
  <2>1. TreeOK(m.head, m.treebins[i], i, S) BY <1>4, <1>5 DEF TreesOK
  <2>2. InBin(m.head, C, i) = S \cup {p} /\ p \notin S BY <1>5 DEF InBin
  <2> HIDE DEF S
  <2>3. TreeOK(m.head, t, i, S \cup {p}) /\ DOMAIN t # {} BY <1>5, <2>1, <2>2, TreeInsert
  <2> QED BY <2>2, <2>3
<1> HIDE DEF t
<1>7. TreesOK(r, C)
  <2> DEFINE I == 0 .. NTREEBINS - 1
  <2>1. DOMAIN m.treebins = I /\ m.treemap = {j \in I : DOMAIN m.treebins[j] # {}} /\ i \in I BY <1>4, <1>5 DEF TreesOK
  <2>2. \A j \in I : TreeOK(m.head, m.treebins[j], j, InBin(m.head, B, j)) BY <1>4 DEF TreesOK
  <2> HIDE DEF I
  <2>3. DOMAIN r.treebins = I /\ r.treebins[i] = t /\ \A j \in I \ {i} : r.treebins[j] = m.treebins[j]
    BY <1>2, <2>1
  <2>4. r.treemap = {j \in I : DOMAIN r.treebins[j] # {}} BY <1>2, <1>6, <2>1, <2>3
  <2>5. ASSUME NEW j \in I PROVE TreeOK(r.head, r.treebins[j], j, InBin(r.head, C, j))
    <3>1. CASE j = i BY <1>3, <1>6, <2>3, <3>1
    <3>2. CASE j # i
      <4>1. InBin(m.head, C, j) = InBin(m.head, B, j) BY <1>5, <3>2 DEF InBin
      <4> QED BY <1>3, <2>2, <2>3, <3>2, <4>1
    <3> QED BY <3>1, <3>2
  <2>6. \A j \in I : DOMAIN m.treebins[j] = {} => m.treebins[j] = <<>> BY <1>4 DEF TreesOK, I
  <2>7. \A j \in I : DOMAIN r.treebins[j] = {} => r.treebins[j] = <<>> BY <1>6, <2>3, <2>6
  <2> QED BY <2>3, <2>4, <2>5, <2>7 DEF TreesOK, I
<1>8. SmallOK(r, C)
  <2>1. ASSUME NEW j \in MIN_CHUNK_SIZE .. NSMALLBINS - 1 PROVE OfSize(r.head, C, j) = OfSize(m.head, B, j)
    BY <1>3, <1>5 DEF OfSize
  <2> QED BY <1>2, <1>4, <2>1, SmallFrame
<1>9. \A q \in C : q \in Nat /\ r.head[q].size \in MIN_CHUNK_SIZE .. MAX_SIZE_T
  BY <1>3 DEF BinsOK
<1> QED BY <1>2, <1>7, <1>8, <1>9 DEF BinsOK, r

\* Unlinking takes the chunk out of the bins.
LEMMA UnlinkLarge ==
  ASSUME NEW m, NEW B, DOMAIN m = Fields, BinsOK(m, B), NEW p \in B,
         ~is_small(m.head[p].size)
  PROVE  OnlyBins(m, unlink_large_chunk(m, p)) /\ BinsOK(unlink_large_chunk(m, p), B \ {p})
<1> DEFINE r == unlink_large_chunk(m, p)
           C == B \ {p}
           size == m.head[p].size
           i == CHOOSE b \in DOMAIN m.treebins : \E q \in DOMAIN m.treebins[b] : p \in ToSet(m.treebins[b][q])
           t == Unlinked(m.treebins[i], p)
<1>1. r = [m EXCEPT !.treebins[i] = t, !.treemap = IF t = <<>> THEN @ \ {i} ELSE @]
  BY Zenon DEF unlink_large_chunk, Unlinked
<1>2. /\ OnlyBins(m, r)
      /\ r.smallmap = m.smallmap /\ r.smallbins = m.smallbins
      /\ r.treemap = (IF t = <<>> THEN m.treemap \ {i} ELSE m.treemap) /\ r.treebins = [m.treebins EXCEPT ![i] = t]
  <2> HIDE DEF r, t, i
  <2> QED BY <1>1 DEF OnlyBins, Fields
<1>3. r.head = m.head BY <1>2 DEF OnlyBins
<1>4. SmallOK(m, B) /\ TreesOK(m, B) BY DEF BinsOK
<1>10. size \in MIN_CHUNK_SIZE .. MAX_SIZE_T BY DEF BinsOK
<1>11. /\ size \in SizesOf(compute_tree_index(size)) /\ compute_tree_index(size) \in 0 .. NTREEBINS - 1
       /\ \A j : size \in SizesOf(j) => j = compute_tree_index(size)
       /\ size \notin MIN_CHUNK_SIZE .. NSMALLBINS - 1
  BY <1>10, Sized
<1>12. ASSUME NEW b \in 0 .. NTREEBINS - 1
       PROVE (\E q \in DOMAIN m.treebins[b] : p \in ToSet(m.treebins[b][q])) <=> size \in SizesOf(b)
  <2> DEFINE S == InBin(m.head, B, b)
             tree == m.treebins[b]
             hh == m.head
  <2>1. TreeOK(hh, tree, b, S) BY <1>4 DEF TreesOK
  <2>2. p \in S <=> size \in SizesOf(b) BY DEF InBin
  <2> HIDE DEF S, tree, hh
  <2>3. (\E q \in DOMAIN tree : p \in ToSet(tree[q])) <=> p \in S BY <2>1, NodeOf
  <2> QED BY <2>2, <2>3 DEF tree
<1>5. size \in SizesOf(i) /\ i \in 0 .. NTREEBINS - 1 /\ \A j : size \in SizesOf(j) => j = i
  <2>1. DOMAIN m.treebins = 0 .. NTREEBINS - 1 BY <1>4 DEF TreesOK
  <2> HIDE DEF size
  <2>2. \E b \in DOMAIN m.treebins : \E q \in DOMAIN m.treebins[b] : p \in ToSet(m.treebins[b][q])
    BY <2>1, <1>11, <1>12
  <2>3. i \in DOMAIN m.treebins /\ \E q \in DOMAIN m.treebins[i] : p \in ToSet(m.treebins[i][q]) BY <2>2, Zenon
  <2> HIDE DEF i
  <2> QED BY <2>1, <2>3, <1>11, <1>12
<1> HIDE DEF r, i
<1>6. TreeOK(m.head, t, i, InBin(m.head, C, i)) /\ (t = <<>> <=> DOMAIN t = {})
  <2> DEFINE S == InBin(m.head, B, i)
  <2>1. TreeOK(m.head, m.treebins[i], i, S) BY <1>4, <1>5 DEF TreesOK
  <2>2. InBin(m.head, C, i) = S \ {p} /\ p \in S BY <1>5 DEF InBin
  <2> HIDE DEF S
  <2>3. TreeOK(m.head, t, i, S \ {p}) /\ (t = <<>> <=> DOMAIN t = {}) BY <1>5, <2>1, <2>2, TreeUnlink
  <2> QED BY <2>2, <2>3
<1>13. DOMAIN m.treebins[i] # {} BY <1>5, <1>12
<1> HIDE DEF t, size
<1>7. TreesOK(r, C)
  <2> DEFINE I == 0 .. NTREEBINS - 1
  <2>1. DOMAIN m.treebins = I /\ m.treemap = {j \in I : DOMAIN m.treebins[j] # {}} /\ i \in I BY <1>4, <1>5 DEF TreesOK
  <2>2. \A j \in I : TreeOK(m.head, m.treebins[j], j, InBin(m.head, B, j)) BY <1>4 DEF TreesOK
  <2> HIDE DEF I
  <2>3. DOMAIN r.treebins = I /\ r.treebins[i] = t /\ \A j \in I \ {i} : r.treebins[j] = m.treebins[j]
    BY <1>2, <2>1
  <2>4. r.treemap = {j \in I : DOMAIN r.treebins[j] # {}} BY <1>2, <1>6, <1>13, <2>1, <2>3
  <2>5. ASSUME NEW j \in I PROVE TreeOK(r.head, r.treebins[j], j, InBin(r.head, C, j))
    <3>1. CASE j = i BY <1>3, <1>6, <2>3, <3>1
    <3>2. CASE j # i
      <4>1. InBin(m.head, C, j) = InBin(m.head, B, j) BY <1>5, <3>2 DEF InBin, size
      <4> QED BY <1>3, <2>2, <2>3, <3>2, <4>1
    <3> QED BY <3>1, <3>2
  <2>6. \A j \in I : DOMAIN m.treebins[j] = {} => m.treebins[j] = <<>> BY <1>4 DEF TreesOK, I
  <2>7. \A j \in I : DOMAIN r.treebins[j] = {} => r.treebins[j] = <<>> BY <1>6, <2>3, <2>6
  <2> QED BY <2>3, <2>4, <2>5, <2>7 DEF TreesOK, I
<1>8. SmallOK(r, C)
  <2>1. ASSUME NEW j \in MIN_CHUNK_SIZE .. NSMALLBINS - 1 PROVE OfSize(r.head, C, j) = OfSize(m.head, B, j)
    BY <1>3, <1>11 DEF OfSize, size
  <2>2. r.smallmap = m.smallmap /\ r.smallbins = m.smallbins /\ SmallOK(m, B) BY <1>2, <1>4
  <2> HIDE DEF C
  <2> QED BY <2>1, <2>2, SmallFrame
<1>9. \A q \in C : q \in Nat /\ r.head[q].size \in MIN_CHUNK_SIZE .. MAX_SIZE_T
  BY <1>3 DEF BinsOK
<1> QED BY <1>2, <1>7, <1>8, <1>9 DEF BinsOK, r

\* Inserting adds the chunk to the bins, whatever its size (insert_chunk).
LEMMA Insert ==
  ASSUME NEW m, NEW B, DOMAIN m = Fields, BinsOK(m, B), NEW p \in Nat, p \notin B,
         NEW size \in MIN_CHUNK_SIZE .. MAX_SIZE_T, m.head[p].size = size
  PROVE  OnlyBins(m, insert_chunk(m, p, size)) /\ BinsOK(insert_chunk(m, p, size), B \cup {p})
<1>1. CASE is_small(size)
  <2>1. size \in MIN_CHUNK_SIZE .. NSMALLBINS - 1 /\ size =< MAX_SIZE_T BY <1>1, Sized
  <2>2. insert_chunk(m, p, size) = insert_small_chunk(m, p, size) BY <1>1 DEF insert_chunk
  <2> QED BY <2>1, <2>2, InsertSmall
<1>2. CASE ~is_small(size)
  <2>2. insert_chunk(m, p, size) = insert_large_chunk(m, p, size) BY <1>2 DEF insert_chunk
  <2> QED BY <1>2, <2>2, InsertLarge
<1> QED BY <1>1, <1>2

\* Unlinking takes the chunk out of the bins (unlink_chunk).
LEMMA Unlink ==
  ASSUME NEW m, NEW B, DOMAIN m = Fields, BinsOK(m, B), NEW p \in B
  PROVE  LET r == unlink_chunk(m, p, m.head[p].size)
         IN  OnlyBins(m, r) /\ BinsOK(r, B \ {p})
<1> DEFINE size == m.head[p].size
<1>0. size \in MIN_CHUNK_SIZE .. MAX_SIZE_T BY DEF BinsOK
<1>1. CASE is_small(size)
  <2>1. size \in MIN_CHUNK_SIZE .. NSMALLBINS - 1 BY <1>0, <1>1, Sized
  <2>2. unlink_chunk(m, p, size) = unlink_small_chunk(m, p, size) BY <1>1 DEF unlink_chunk
  <2>3. m.head[p].size = size OBVIOUS
  <2> HIDE DEF size
  <2> QED BY <2>1, <2>2, <2>3, UnlinkSmall
<1>2. CASE ~is_small(size)
  <2>2. unlink_chunk(m, p, size) = unlink_large_chunk(m, p) BY <1>2 DEF unlink_chunk
  <2> QED BY <1>2, <2>2, UnlinkLarge
<1> QED BY <1>1, <1>2

-----------------------------------------------------------------------------
(* The search of the treebins (BestLarge): one treebin.                    *)

\* The first chunk of the node of least size.
LEMMA SmallestIs ==
  ASSUME NEW i \in 0 .. NTREEBINS - 1, NEW m, NEW tree, NEW S, TreeOK(m.head, tree, i, S),
         NEW paths, paths \subseteq DOMAIN tree, paths # {}
  PROVE  LET v == Smallest(m, tree, paths)
         IN  /\ v \in S /\ m.head[v].size \in SizesOf(i)
             /\ \E p \in paths : m.head[v].size = Sizes(m.head, tree)[p]
             /\ \A q \in paths : m.head[v].size =< Sizes(m.head, tree)[q]
<1> DEFINE z == Sizes(m.head, tree)
           D == DOMAIN tree
           h == m.head
           c == CHOOSE p \in paths : \A q \in paths : SizeAt(m, tree, p) =< SizeAt(m, tree, q)
           v == Smallest(m, tree, paths)
<1>1. /\ Shape(D, z, i)
      /\ \A q \in D : /\ Head(tree[q]) \in S /\ h[Head(tree[q])].size = z[q]
  BY TreeParts
<1>2. \A q \in paths : SizeAt(m, tree, q) = z[q] /\ z[q] \in Nat /\ z[q] \in SizesOf(i)
  <2>1. \A q \in paths : SizeAt(m, tree, q) = z[q]
    <3> HIDE DEF z
    <3> QED BY <1>1 DEF SizeAt
  <2> HIDE DEF z
  <2>2. \A q \in D : z[q] \in SizesOf(i) BY <1>1 DEF Shape
  <2>3. \A q \in paths : z[q] \in SizesOf(i) BY <2>2
  <2>4. \A q \in paths : z[q] \in Nat BY <2>3, SizeNat
  <2> QED BY <2>1, <2>3, <2>4
<1>3. v = Head(tree[c]) BY Zenon DEF Smallest
<1> HIDE DEF z, v, h
<1>4. \E p \in paths : \A q \in paths : z[p] =< z[q]
  <2> DEFINE L == {z[q] : q \in paths}
  <2>1. L \subseteq Nat /\ L # {} BY <1>2
  <2>2. PICK l \in L : \A k \in L : l =< k
    <3> HIDE DEF L
    <3> QED BY <2>1, LeastOf
  <2>3. PICK p \in paths : l = z[p] OBVIOUS
  <2> QED BY <2>2, <2>3
<1>5. c \in paths /\ \A q \in paths : SizeAt(m, tree, c) =< SizeAt(m, tree, q)
  <2>1. \E p \in paths : \A q \in paths : SizeAt(m, tree, p) =< SizeAt(m, tree, q) BY <1>2, <1>4
  <2> QED BY <2>1, Zenon
<1> HIDE DEF c
<1>6. h[v].size = z[c] /\ v \in S BY <1>1, <1>3, <1>5
<1>7. \A q \in paths : z[c] =< z[q] BY <1>2, <1>5
<1>8. z[c] \in SizesOf(i) BY <1>2, <1>5
<1> QED BY <1>5, <1>6, <1>7, <1>8, Zenon DEF v, h, z

\* The root of a treebin is above all nodes.
LEMMA RootIs ==
  ASSUME NEW i \in 0 .. NTREEBINS - 1, NEW D, NEW z, Shape(D, z, i), NEW r \in D
  PROVE  <<>> \in D /\ IsPrefix(<<>>, r)
<1>1. r \in Seq(Bits) /\ Len(r) \in Nat /\ \A k \in 0 .. Len(r) : SubSeq(r, 1, k) \in D
  BY ShapePath, DepthRange, BinConstants
<1>2. SubSeq(r, 1, 0) = <<>>
  <2>1. SubSeq(r, 1, 0) \in Seq(Bits) /\ Len(SubSeq(r, 1, 0)) = 0 BY <1>1, PreIs, 0 \in 0 .. Len(r)
  <2> QED BY <2>1
<1>3. <<>> \in Seq(Bits) /\ Len(<<>>) = 0 OBVIOUS
<1>4. <<>> \in D BY <1>1, <1>2, 0 \in 0 .. Len(r)
<1>5. IsPrefix(<<>>, r)
  <2>1. Len(<<>>) =< Len(r) /\ SubSeq(r, 1, Len(<<>>)) = <<>> BY <1>1, <1>2, <1>3
  <2> QED BY <1>1, <1>3, <2>1, PrefixIs
<1> QED BY <1>4, <1>5

\* Leftmost from the root is the least chunk of a treebin.
LEMMA TreeLeast ==
  ASSUME NEW i \in 0 .. NTREEBINS - 1, NEW m, NEW tree, NEW S, TreeOK(m.head, tree, i, S), DOMAIN tree # {}
  PROVE  LET v == Smallest(m, tree, LeftmostFrom(tree, <<>>))
         IN  v \in S /\ m.head[v].size \in SizesOf(i) /\ \A x \in S : m.head[v].size =< m.head[x].size
<1> DEFINE z == Sizes(m.head, tree)
           D == DOMAIN tree
           h == m.head
           L == LeftmostFrom(tree, <<>>)
           v == Smallest(m, tree, L)
<1>1. /\ Shape(D, z, i)
      /\ \A x \in S : \E q \in D : z[q] = h[x].size
      /\ \A x \in S : h[x].size \in SizesOf(i)
  BY TreeParts
<1> HIDE DEF z
<1>2. \A r \in D : \E l \in L : z[l] =< z[r]
  <2> SUFFICES ASSUME NEW r \in D PROVE \E l \in L : z[l] =< z[r] OBVIOUS
  <2>1. <<>> \in D /\ IsPrefix(<<>>, r) BY <1>1, RootIs
  <2>2. Shape(DOMAIN tree, z, i) BY <1>1
  <2> QED BY <2>1, <2>2, LeftmostLeast
<1>3. L \subseteq D BY DEF LeftmostFrom
<1>4. L # {} BY <1>2
<1>5. v \in S /\ h[v].size \in SizesOf(i) /\ \A q \in L : h[v].size =< z[q]
  <2> HIDE DEF L
  <2> QED BY <1>3, <1>4, SmallestIs DEF z
<1> HIDE DEF v, L, h
<1>6. ASSUME NEW x \in S PROVE h[v].size =< h[x].size
  <2>1. PICK q \in D : z[q] = h[x].size BY <1>1
  <2>2. PICK l \in L : z[l] =< z[q] BY <1>2
  <2>3. h[v].size =< z[l] BY <1>5
  <2>4. z[l] \in SizesOf(i) /\ z[q] \in SizesOf(i) BY <1>1, <1>3 DEF Shape
  <2>5. z[l] \in Nat /\ z[q] \in Nat /\ h[v].size \in Nat BY <1>5, <2>4, SizeNat
  <2> QED BY <2>1, <2>2, <2>3, <2>5
<1> QED BY <1>5, <1>6 DEF v, L, h

-----------------------------------------------------------------------------
\* The nodes that BestLarge looks at in the treebin of the size.
Candidates(m, tree, i, nb) ==
  LET turns == Turns(nb, i)
      to(k) == SubSeq(turns, 1, k)
      way   == {k \in 0 .. Len(turns) :
                  /\ to(k) \in DOMAIN tree
                  /\ \A j \in 0 .. k - 1 : SizeAt(m, tree, to(j)) # nb}
      fits  == {to(k) : k \in {j \in way : SizeAt(m, tree, to(j)) >= nb}}
      exact == \E p \in fits : SizeAt(m, tree, p) = nb
      right == {k \in way : k < Len(turns) /\ turns[k + 1] = 0 /\ Child(tree, to(k), 1)}
      rst   == IF exact \/ right = {} THEN {} ELSE LeftmostFrom(tree, to(Max(right)) \o <<1>>)
  IN  fits \cup rst

\* BestLarge, with its candidates in the treebin of the size by name.
LEMMA BestLargeIs ==
  ASSUME NEW m, NEW nb
  PROVE  LET i    == compute_tree_index(nb)
             tree == m.treebins[i]
             c    == Candidates(m, tree, i, nb)
             next == {j \in m.treemap : j > i}
         IN  BestLarge(m, nb) =
               IF c # {} THEN Smallest(m, tree, c)
               ELSE IF next # {} THEN Smallest(m, m.treebins[Min(next)], LeftmostFrom(m.treebins[Min(next)], <<>>))
               ELSE Null
BY Zenon DEF BestLarge, Candidates

\* A last turn to the right.
LEMMA ConcatOne == ASSUME NEW s \in Seq(Bits) PROVE s \o <<1>> = Append(s, 1)
<1>1. /\ s \o <<1>> \in Seq(Bits) /\ Len(s \o <<1>>) = Len(s) + 1
      /\ \A j \in 1 .. Len(s) : (s \o <<1>>)[j] = s[j]
      /\ (s \o <<1>>)[Len(s) + 1] = 1
  <2>1. <<1>> \in Seq(Bits) /\ Len(<<1>>) = 1 /\ <<1>>[1] = 1 BY DEF Bits
  <2> HIDE DEF Bits
  <2> QED BY <2>1, ConcatProperties
<1>2. /\ Append(s, 1) \in Seq(Bits) /\ Len(Append(s, 1)) = Len(s) + 1
      /\ \A j \in 1 .. Len(s) : Append(s, 1)[j] = s[j]
      /\ Append(s, 1)[Len(s) + 1] = 1
  BY AppendIs DEF Bits
<1> DEFINE a == s \o <<1>>
           b == Append(s, 1)
<1>3. a \in Seq(Bits) /\ b \in Seq(Bits) /\ Len(a) = Len(b) BY <1>1, <1>2
<1>4. \A j \in 1 .. Len(a) : a[j] = b[j]
  <2>1. \A j \in 1 .. Len(a) : j \in 1 .. Len(s) \/ j = Len(s) + 1 BY <1>1, BitSeq
  <2> QED BY <1>1, <1>2, <2>1
<1> HIDE DEF a, b
<1>5. a = b BY <1>3, <1>4, SameSeq
<1> QED BY <1>5 DEF a, b

\* They fit, and for every node that fits there is one as small.
LEMMA CandidatesAre ==
  ASSUME NEW i \in 0 .. NTREEBINS - 1, NEW m, NEW tree, NEW S, TreeOK(m.head, tree, i, S), NEW nb \in SizesOf(i)
  PROVE  LET c == Candidates(m, tree, i, nb)
             z == Sizes(m.head, tree)
         IN  /\ c \subseteq DOMAIN tree
             /\ \A q \in c : z[q] >= nb
             /\ \A r \in DOMAIN tree : z[r] >= nb => \E l \in c : z[l] =< z[r]
<1> DEFINE z     == Sizes(m.head, tree)
           D     == DOMAIN tree
           d     == Depth(i)
           turns == Turns(nb, i)
           to(k) == SubSeq(turns, 1, k)
           way   == {k \in 0 .. Len(turns) :
                       /\ to(k) \in D
                       /\ \A j \in 0 .. k - 1 : SizeAt(m, tree, to(j)) # nb}
           fits  == {to(k) : k \in {j \in way : SizeAt(m, tree, to(j)) >= nb}}
           exact == \E p \in fits : SizeAt(m, tree, p) = nb
           right == {k \in way : k < Len(turns) /\ turns[k + 1] = 0 /\ Child(tree, to(k), 1)}
           rst   == IF exact \/ right = {} THEN {} ELSE LeftmostFrom(tree, to(Max(right)) \o <<1>>)
           c     == Candidates(m, tree, i, nb)
<1>1. c = fits \cup rst BY Zenon DEF Candidates
<1> HIDE DEF c
<1>2. /\ Shape(D, z, i)
      /\ \A q \in D : m.head[Head(tree[q])].size = z[q]
  BY TreeParts
<1>3. \A q \in D : SizeAt(m, tree, q) = z[q]
  <2> HIDE DEF z
  <2> QED BY <1>2 DEF SizeAt
<1> HIDE DEF z
<1>4. d \in Nat /\ nb \in Nat /\ i \in 0 .. NTREEBINS - 1 /\ nb \in SizesOf(i) BY DepthRange, BinConstants, SizeNat
<1>5. turns \in Seq(Bits) /\ Len(turns) = d /\ \A j \in 1 .. d : turns[j] \in Bits
  <2>1. turns \in Seq({0, 1}) /\ Len(turns) = d BY <1>4, TurnsAre
  <2> HIDE DEF turns
  <2> QED BY <2>1, BitSeq DEF Bits
<1>6. ASSUME NEW k \in 0 .. d
      PROVE  /\ to(k) \in Seq(Bits) /\ Len(to(k)) = k /\ (\A j \in 1 .. k : to(k)[j] = turns[j])
             /\ (\A j \in 0 .. k : SubSeq(to(k), 1, j) = to(j))
             /\ Matches(to(k), nb, i)
  BY <1>4, WayIs, Zenon
<1>7. \A q \in D : /\ q \in Seq(Bits) /\ Len(q) \in 0 .. d /\ Matches(q, z[q], i)
                   /\ z[q] \in SizesOf(i) /\ z[q] \in Nat /\ \A k \in 0 .. Len(q) : SubSeq(q, 1, k) \in D
  BY <1>2, ShapePath
<1>8. tree = tree /\ Shape(DOMAIN tree, z, i) BY <1>2
<1> HIDE DEF d, turns
<1>9. /\ \A k : k \in way <=> k \in 0 .. d /\ to(k) \in D /\ \A j \in 0 .. k - 1 : SizeAt(m, tree, to(j)) # nb
      /\ \A p : p \in fits <=> \E k \in way : p = to(k) /\ SizeAt(m, tree, to(k)) >= nb
  <2> HIDE DEF to
  <2>1. \A k : k \in way <=> k \in 0 .. d /\ to(k) \in D /\ \A j \in 0 .. k - 1 : SizeAt(m, tree, to(j)) # nb BY <1>5
  <2> HIDE DEF way
  <2> QED BY <2>1
<1> HIDE DEF to, way
<1>10. \A k \in way : k \in 0 .. d /\ to(k) \in D /\ SizeAt(m, tree, to(k)) = z[to(k)] BY <1>3, <1>9
<1>11. \A p \in fits : p \in D /\ z[p] >= nb BY <1>9, <1>10
<1>12. \A k : k \in right <=> k \in way /\ k < d /\ turns[k + 1] = 0 /\ Append(to(k), 1) \in D
  BY <1>5 DEF Child
<1> HIDE DEF fits, right
\* Without a node of the size the way has all nodes on it.
<1>13. ASSUME ~exact, NEW k \in 0 .. d, to(k) \in D PROVE k \in way
  <2> DEFINE T == {j \in 0 .. k - 1 : z[to(j)] = nb}
  <2>1. \A j \in 0 .. k - 1 : to(j) \in D /\ SizeAt(m, tree, to(j)) = z[to(j)] /\ j \in 0 .. d
    <3> SUFFICES ASSUME NEW j \in 0 .. k - 1 PROVE to(j) \in D /\ SizeAt(m, tree, to(j)) = z[to(j)] /\ j \in 0 .. d OBVIOUS
    <3>1. j \in 0 .. k /\ j \in 0 .. d BY <1>4
    <3>2. SubSeq(to(k), 1, j) = to(j) /\ Len(to(k)) = k BY <1>6, <3>1
    <3>3. to(j) \in D BY <1>7, <1>13, <3>1, <3>2
    <3> QED BY <1>3, <3>1, <3>3
  <2>2. CASE T = {}
    <3>1. \A j \in 0 .. k - 1 : SizeAt(m, tree, to(j)) # nb BY <2>1, <2>2
    <3> QED BY <1>9, <1>13, <3>1
  <2>3. CASE T # {}
    <3>1. T \subseteq Nat OBVIOUS
    <3>2. PICK j \in T : \A b \in T : j =< b
      <4> HIDE DEF T
      <4> QED BY <2>3, <3>1, LeastOf
    <3>3. j \in 0 .. k - 1 /\ z[to(j)] = nb OBVIOUS
    <3>4. \A b \in 0 .. j - 1 : SizeAt(m, tree, to(b)) # nb
      <4> SUFFICES ASSUME NEW b \in 0 .. j - 1 PROVE SizeAt(m, tree, to(b)) # nb OBVIOUS
      <4>1. b \in 0 .. k - 1 /\ ~(j =< b) BY <3>3
      <4> QED BY <2>1, <3>2, <4>1
    <3>5. j \in way BY <1>9, <2>1, <3>3, <3>4
    <3>6. SizeAt(m, tree, to(j)) = nb BY <2>1, <3>3
    <3>7. to(j) \in fits BY <1>4, <1>9, <3>5, <3>6
    <3> QED BY <1>13, <3>6, <3>7
  <2> QED BY <2>2, <2>3
\* Where rst begins.
<1> DEFINE K == Max(right)
           at == Append(to(K), 1)
<1>14. ASSUME ~exact, right # {}
       PROVE  /\ K \in right /\ (\A k \in right : k =< K) /\ K \in 0 .. d /\ K < d /\ rst = LeftmostFrom(tree, at)
              /\ at \in D /\ Len(at) = K + 1 /\ (\A j \in 1 .. K : at[j] = turns[j]) /\ at[K + 1] = 1
              /\ at \in Seq(Bits) /\ turns[K + 1] = 0
  <2>1. right \subseteq Nat /\ \A k \in right : k =< d BY <1>4, <1>10, <1>12
  <2>2. \E k \in right : \A j \in right : k >= j
    <3>1. PICK k \in right : \A j \in right : j =< k BY <1>4, <1>14, <2>1, GreatestOf
    <3> QED BY <2>1, <3>1
  <2>3. K \in right /\ \A k \in right : K >= k
    <3>1. K = CHOOSE k \in right : \A j \in right : k >= j BY DEF Max
    <3> HIDE DEF K
    <3> QED BY <2>2, <3>1, Zenon
  <2> HIDE DEF K
  <2>4. K \in way /\ K < d /\ turns[K + 1] = 0 /\ Append(to(K), 1) \in D BY <1>12, <2>3
  <2>5. K \in 0 .. d /\ to(K) \in D BY <1>10, <2>4
  <2>6. to(K) \in Seq(Bits) /\ Len(to(K)) = K /\ \A j \in 1 .. K : to(K)[j] = turns[j] BY <1>6, <2>5
  <2>7. to(K) \o <<1>> = at BY <2>6, ConcatOne
  <2>8. /\ Len(at) = K + 1 /\ (\A j \in 1 .. K : at[j] = to(K)[j]) /\ at[K + 1] = 1 /\ at \in Seq(Bits)
    BY <2>6, AppendIs DEF Bits
  <2>9. rst = LeftmostFrom(tree, to(K) \o <<1>>) BY <1>14 DEF K
  <2>10. \A k \in right : k =< K BY <2>1, <2>3
  <2> HIDE DEF rst
  <2> QED BY <2>3, <2>4, <2>5, <2>6, <2>7, <2>8, <2>9, <2>10
\* A node that turns right where the size turns left is larger, a node that
\* turns left where the size turns right is smaller.
<1>15. ASSUME NEW q \in D, NEW k \in 1 .. Len(q), \A j \in 1 .. k - 1 : q[j] = turns[j], q[k] = 1, turns[k] = 0
       PROVE  nb < z[q]
  <2>1. k \in 0 .. d /\ k =< Len(q) /\ k \in 1 .. k BY <1>4, <1>7
  <2> DEFINE u == to(k)
  <2>2. Len(u) = k /\ (\A j \in 1 .. k : u[j] = turns[j]) /\ Matches(u, nb, i) BY <1>6, <2>1
  <2> HIDE DEF u
  <2>3. \A j \in 1 .. k - 1 : u[j] = q[j] BY <1>15, <2>2
  <2>4. u[k] = 0 /\ q[k] = 1 /\ k \in 1 .. Len(u) BY <1>15, <2>1, <2>2
  <2>5. Matches(q, z[q], i) /\ z[q] \in SizesOf(i) BY <1>7
  <2> QED BY <1>4, <2>1, <2>2, <2>3, <2>4, <2>5, RightLarger
<1>16. ASSUME NEW q \in D, NEW k \in 1 .. Len(q), \A j \in 1 .. k - 1 : q[j] = turns[j], q[k] = 0, turns[k] = 1
       PROVE  z[q] < nb
  <2>1. k \in 0 .. d /\ k \in 1 .. k BY <1>4, <1>7
  <2> DEFINE u == to(k)
  <2>2. Len(u) = k /\ (\A j \in 1 .. k : u[j] = turns[j]) /\ Matches(u, nb, i) BY <1>6, <2>1
  <2> HIDE DEF u
  <2>3. \A j \in 1 .. k - 1 : q[j] = u[j] BY <1>16, <2>2
  <2>4. q[k] = 0 /\ u[k] = 1 /\ k =< Len(u) BY <1>16, <2>1, <2>2
  <2>5. Matches(q, z[q], i) /\ z[q] \in SizesOf(i) BY <1>7
  <2> QED BY <1>4, <2>2, <2>3, <2>4, <2>5, RightLarger
<1>17. \A q \in rst : q \in D /\ z[q] >= nb
  <2> SUFFICES ASSUME NEW q \in rst PROVE q \in D /\ z[q] >= nb OBVIOUS
  <2>1. ~exact /\ right # {} OBVIOUS
  <2>2. /\ K \in 0 .. d /\ K < d /\ rst = LeftmostFrom(tree, at) /\ at \in Seq(Bits)
        /\ Len(at) = K + 1 /\ (\A j \in 1 .. K : at[j] = turns[j]) /\ at[K + 1] = 1 /\ turns[K + 1] = 0
    BY <1>14, <2>1
  <2> HIDE DEF K, at, rst
  <2>3. q \in D /\ IsPrefix(at, q) BY <2>2 DEF LeftmostFrom
  <2>4. Len(at) =< Len(q) /\ \A j \in 1 .. Len(at) : q[j] = at[j] BY <1>7, <2>2, <2>3, PrefixIs
  <2> DEFINE k == K + 1
  <2>5. k \in 1 .. Len(q) /\ k - 1 = K BY <1>4, <1>7, <2>2, <2>3, <2>4
  <2>6. q[k] = 1 /\ turns[k] = 0
    <3>1. K + 1 \in 1 .. Len(at) BY <1>4, <2>2
    <3> QED BY <2>2, <2>4, <3>1
  <2>7. \A j \in 1 .. K : q[j] = turns[j]
    <3>1. \A j \in 1 .. K : j \in 1 .. Len(at) BY <1>4, <2>2
    <3> QED BY <2>2, <2>4, <3>1
  <2> HIDE DEF k
  <2>8. nb < z[q] BY <1>15, <2>3, <2>5, <2>6, <2>7
  <2> QED BY <1>4, <1>7, <2>3, <2>8
<1>18. ASSUME NEW r \in D, z[r] >= nb PROVE \E l \in fits \cup rst : z[l] =< z[r]
  <2>0. r \in Seq(Bits) /\ Len(r) \in 0 .. d /\ z[r] \in Nat /\ \A k \in 0 .. Len(r) : SubSeq(r, 1, k) \in D BY <1>7
  <2>1. CASE exact
    <3>1. PICK p \in fits : SizeAt(m, tree, p) = nb BY <2>1
    <3>2. z[p] = nb BY <1>3, <1>11, <3>1
    <3>3. z[p] =< z[r] BY <1>4, <1>18, <2>0, <3>2
    <3> HIDE DEF rst
    <3> QED BY <3>1, <3>3
  <2>2. CASE ~exact /\ \A j \in 1 .. Len(r) : r[j] = turns[j]
    <3> DEFINE k == Len(r)
    <3>1. r = to(k)
      <4>1. to(k) \in Seq(Bits) /\ Len(to(k)) = k /\ \A j \in 1 .. k : to(k)[j] = turns[j] BY <1>6, <2>0
      <4> DEFINE u == to(k)
      <4> HIDE DEF u
      <4>2. u \in Seq(Bits) /\ Len(u) = Len(r) /\ \A j \in 1 .. Len(r) : u[j] = r[j] BY <2>2, <4>1 DEF u
      <4>3. u = r BY <2>0, <4>2, SameSeq
      <4> QED BY <4>3 DEF u
    <3>2. k \in way BY <1>13, <2>0, <2>2, <3>1
    <3>3. SizeAt(m, tree, r) >= nb BY <1>3, <1>18
    <3>4. SizeAt(m, tree, to(k)) >= nb
      <4> HIDE DEF k
      <4> QED BY <3>1, <3>3
    <3>5. r \in fits
      <4> HIDE DEF k
      <4> QED BY <1>9, <3>1, <3>2, <3>4
    <3>6. z[r] =< z[r] BY <2>0
    <3> HIDE DEF rst
    <3> QED BY <3>5, <3>6
  <2>3. CASE ~exact /\ \E j \in 1 .. Len(r) : r[j] # turns[j]
    <3> DEFINE T == {j \in 1 .. Len(r) : r[j] # turns[j]}
    <3>1. T \subseteq Nat /\ T # {} BY <2>3
    <3>2. PICK k \in T : \A b \in T : k =< b
      <4> HIDE DEF T
      <4> QED BY <3>1, LeastOf
    <3>3. k \in 1 .. Len(r) /\ r[k] # turns[k] OBVIOUS
    <3>4. \A j \in 1 .. k - 1 : r[j] = turns[j]
      <4> SUFFICES ASSUME NEW j \in 1 .. k - 1, r[j] # turns[j] PROVE FALSE OBVIOUS
      <4>1. j \in 1 .. Len(r) /\ ~(k =< j) BY <2>0, <3>3
      <4> QED BY <3>2, <4>1
    <3> HIDE DEF T
    <3>5. r[k] \in Bits /\ turns[k] \in Bits /\ k \in 1 .. d BY <1>5, <2>0, <3>3, BitSeq
    <3>6. ~(r[k] = 0 /\ turns[k] = 1)
      <4> SUFFICES ASSUME r[k] = 0, turns[k] = 1 PROVE FALSE OBVIOUS
      <4>1. z[r] < nb BY <1>16, <3>3, <3>4
      <4> QED BY <1>4, <1>18, <2>0, <4>1
    <3>7. r[k] = 1 /\ turns[k] = 0 BY <3>3, <3>5, <3>6 DEF Bits
    <3> DEFINE n == k - 1
    <3>8. n \in 0 .. Len(r) - 1 /\ n \in 0 .. d /\ n + 1 = k /\ n < d BY <1>4, <2>0, <3>3, <3>5
    <3>9. SubSeq(r, 1, n) = to(n)
      <4> DEFINE u == SubSeq(r, 1, n)
                 v == to(n)
      <4>1. u \in Seq(Bits) /\ Len(u) = n /\ \A j \in 1 .. n : u[j] = r[j] BY <2>0, <3>8, PreIs
      <4>2. v \in Seq(Bits) /\ Len(v) = n /\ \A j \in 1 .. n : v[j] = turns[j] BY <1>6, <3>8
      <4>3. \A j \in 1 .. n : r[j] = turns[j] BY <3>4
      <4> HIDE DEF u, v, n
      <4>4. u = v BY <4>1, <4>2, <4>3, SameSeq
      <4> QED BY <4>4 DEF u, v
    <3>10. to(n) \in D
      <4>1. n \in 0 .. Len(r) BY <2>0, <3>8
      <4> QED BY <2>0, <3>9, <4>1
    <3>11. Append(to(n), 1) \in D
      <4>1. SubSeq(r, 1, n + 1) = Append(SubSeq(r, 1, n), r[n + 1]) BY <2>0, <3>8, PreNext
      <4>2. n + 1 \in 0 .. Len(r) BY <2>0, <3>8
      <4>3. SubSeq(r, 1, n + 1) \in D BY <2>0, <4>2
      <4>4. r[n + 1] = 1 BY <3>7, <3>8
      <4> HIDE DEF n
      <4> QED BY <3>9, <4>1, <4>3, <4>4
    <3>12. n \in way BY <1>13, <2>3, <3>8, <3>10
    <3>13. n \in right
      <4>1. turns[n + 1] = 0 BY <3>7, <3>8
      <4> HIDE DEF n
      <4> QED BY <1>12, <3>8, <3>11, <3>12, <4>1
    <3>14. right # {} BY <3>13
    <3>15. /\ K \in right /\ (\A b \in right : b =< K) /\ K \in 0 .. d /\ K < d /\ rst = LeftmostFrom(tree, at)
           /\ at \in D /\ Len(at) = K + 1 /\ (\A j \in 1 .. K : at[j] = turns[j]) /\ at[K + 1] = 1
           /\ at \in Seq(Bits) /\ turns[K + 1] = 0
      BY <1>14, <2>3, <3>14
    <3>16. n =< K BY <3>13, <3>15
    <3> HIDE DEF K, at, rst, n
    <3>17. CASE n = K
      <4>1. IsPrefix(at, r)
        <5>1. SubSeq(r, 1, Len(at)) = at
          <6> DEFINE u == SubSeq(r, 1, K + 1)
          <6>1. K + 1 \in 0 .. Len(r) /\ K + 1 = k BY <1>4, <2>0, <3>3, <3>8, <3>17
          <6>2. u \in Seq(Bits) /\ Len(u) = K + 1 /\ \A j \in 1 .. K + 1 : u[j] = r[j] BY <2>0, <6>1, PreIs
          <6> HIDE DEF u
          <6>3. \A j \in 1 .. K + 1 : u[j] = at[j]
            <7> SUFFICES ASSUME NEW j \in 1 .. K + 1 PROVE u[j] = at[j] OBVIOUS
            <7>1. CASE j = K + 1 BY <3>7, <3>15, <6>1, <6>2, <7>1
            <7>2. CASE j # K + 1
              <8>1. j \in 1 .. K BY <1>4, <3>15, <7>2
              <8>2. j \in 1 .. k - 1 BY <1>4, <3>15, <6>1, <8>1
              <8> QED BY <3>4, <3>15, <6>2, <8>1, <8>2
            <7> QED BY <7>1, <7>2
          <6>4. u = at BY <3>15, <6>2, <6>3, SameSeq
          <6> QED BY <3>15, <6>4 DEF u
        <5>2. Len(at) =< Len(r) BY <1>4, <2>0, <3>3, <3>8, <3>15, <3>17
        <5> QED BY <2>0, <3>15, <5>1, <5>2, PrefixIs
      <4>2. at \in DOMAIN tree /\ r \in DOMAIN tree /\ i \in 0 .. NTREEBINS - 1 BY <3>15, <1>4
      <4>3. \E l \in LeftmostFrom(tree, at) : z[l] =< z[r] BY <1>8, <4>1, <4>2, LeftmostLeast
      <4> QED BY <3>15, <4>3
    <3>18. CASE n < K
      <4>1. at \in DOMAIN tree /\ IsPrefix(at, at) /\ i \in 0 .. NTREEBINS - 1
        BY <1>4, <3>15, PrefixIs, PreFull
      <4>2. PICK l \in LeftmostFrom(tree, at) : z[l] =< z[at] BY <1>8, <4>1, LeftmostLeast
      <4>3. z[at] < z[r]
        <5>1. k \in 1 .. Len(at) /\ k =< Len(r) /\ k \in 1 .. K BY <1>4, <2>0, <3>3, <3>8, <3>15, <3>18
        <5>2. \A j \in 1 .. k - 1 : at[j] = r[j]
          <6> SUFFICES ASSUME NEW j \in 1 .. k - 1 PROVE at[j] = r[j] OBVIOUS
          <6>1. j \in 1 .. K BY <5>1, <1>4, <3>15
          <6> QED BY <3>4, <3>15, <6>1
        <5>3. at[k] = 0 /\ r[k] = 1 BY <3>7, <3>15, <5>1
        <5>4. Matches(at, z[at], i) /\ z[at] \in SizesOf(i) /\ Matches(r, z[r], i) /\ z[r] \in SizesOf(i) BY <1>7, <3>15
        <5> QED BY <1>4, <5>1, <5>2, <5>3, <5>4, RightLarger
      <4>4. z[l] \in Nat /\ z[at] \in Nat
        <5>1. l \in D BY DEF LeftmostFrom
        <5> QED BY <1>7, <3>15, <5>1
      <4>5. z[l] =< z[r] BY <2>0, <4>2, <4>3, <4>4
      <4> QED BY <3>15, <4>2, <4>5
    <3>19. n < K \/ n = K BY <1>4, <3>8, <3>15, <3>16
    <3> QED BY <3>17, <3>18, <3>19 DEF rst, K, at
  <2> HIDE DEF exact, rst
  <2> QED BY <2>1, <2>2, <2>3
<1>19. c \subseteq D /\ \A q \in c : z[q] >= nb
  <2> HIDE DEF rst
  <2> QED BY <1>1, <1>11, <1>17
<1>20. \A r \in D : z[r] >= nb => \E l \in c : z[l] =< z[r]
  <2> HIDE DEF rst
  <2> QED BY <1>1, <1>18
<1> QED BY <1>19, <1>20 DEF c, z

-----------------------------------------------------------------------------
(* The search of the treebins: all of them.                                *)

\* The chunk v is the smallest of B that has nb units.
LeastFit(m, B, nb, v) ==
  v \in B /\ m.head[v].size >= nb /\ \A p \in B : m.head[p].size >= nb => m.head[v].size =< m.head[p].size

\* The least chunk of a treebin is the least of this and all later ones.
LEMMA BinLeast ==
  ASSUME NEW m, NEW B, BinsOK(m, B), NEW j \in m.treemap
  PROVE  LET v == Smallest(m, m.treebins[j], LeftmostFrom(m.treebins[j], <<>>))
         IN  /\ j \in 0 .. NTREEBINS - 1 /\ v \in B /\ m.head[v].size \in SizesOf(j)
             /\ \A p \in B, k \in 0 .. NTREEBINS - 1 :
                  m.head[p].size \in SizesOf(k) /\ k >= j => m.head[v].size =< m.head[p].size
<1> DEFINE tree == m.treebins[j]
           S == InBin(m.head, B, j)
           v == Smallest(m, tree, LeftmostFrom(tree, <<>>))
<1>1. j \in 0 .. NTREEBINS - 1 /\ DOMAIN tree # {} /\ TreeOK(m.head, tree, j, S) BY DEF BinsOK, TreesOK
<1>2. \A p \in S : p \in B /\ m.head[p].size \in SizesOf(j) BY DEF InBin
<1>3. \A p \in B : m.head[p].size \in SizesOf(j) => p \in S BY DEF InBin
<1>4. v \in S /\ m.head[v].size \in SizesOf(j) /\ \A x \in S : m.head[v].size =< m.head[x].size
  <2> HIDE DEF tree, S
  <2> QED BY <1>1, TreeLeast
<1> HIDE DEF v, S
<1>5. ASSUME NEW p \in B, NEW k \in 0 .. NTREEBINS - 1, m.head[p].size \in SizesOf(k), k >= j
      PROVE  m.head[v].size =< m.head[p].size
  <2>1. CASE k = j BY <1>3, <1>4, <1>5, <2>1
  <2>2. CASE k # j
    <3> DEFINE s == m.head[v].size
               t == m.head[p].size
    <3>1. s \in SizesOf(j) /\ t \in SizesOf(k) BY <1>4, <1>5
    <3> HIDE DEF s, t
    <3>2. s \in LargeSizes /\ t \in LargeSizes /\ s \in Nat /\ t \in Nat
          /\ compute_tree_index(s) = j /\ compute_tree_index(t) = k
      BY <3>1, SizeNat
    <3>3. compute_tree_index(s) < compute_tree_index(t) BY <1>1, <1>5, <2>2, <3>2
    <3>4. s < t BY <3>2, <3>3, IndexOrder DEF LargeSizes
    <3>5. s =< t BY <3>2, <3>4
    <3> QED BY <3>5 DEF s, t
  <2> QED BY <2>1, <2>2
<1> QED BY <1>1, <1>2, <1>4, <1>5 DEF v, tree

\* The least number of a set.
LEMMA MinIs == ASSUME NEW S, S \subseteq Nat, S # {} PROVE Min(S) \in S /\ \A k \in S : Min(S) =< k
<1>1. \E x \in S : \A y \in S : x =< y BY LeastOf
<1> QED BY <1>1, Zenon DEF Min

\* The search of the treebins ends at the least chunk that fits.
LEMMA BestIs ==
  ASSUME NEW m, NEW B, BinsOK(m, B), NEW nb \in LargeSizes
  PROVE  IF \E p \in B : m.head[p].size >= nb THEN LeastFit(m, B, nb, BestLarge(m, nb))
         ELSE BestLarge(m, nb) = Null
<1> DEFINE i    == compute_tree_index(nb)
           tree == m.treebins[i]
           S    == InBin(m.head, B, i)
           z    == Sizes(m.head, tree)
           h    == m.head
           c    == Candidates(m, tree, i, nb)
           next == {j \in m.treemap : j > i}
           v    == BestLarge(m, nb)
<1>1. i \in 0 .. NTREEBINS - 1 /\ nb \in SizesOf(i) /\ nb \in Nat
  BY IndexFacts DEF LargeSizes, SizesOf
<1>2. TreeOK(h, tree, i, S) /\ m.treemap = {j \in 0 .. NTREEBINS - 1 : DOMAIN m.treebins[j] # {}}
  BY <1>1 DEF BinsOK, TreesOK
<1>3. v = IF c # {} THEN Smallest(m, tree, c)
          ELSE IF next # {} THEN Smallest(m, m.treebins[Min(next)], LeftmostFrom(m.treebins[Min(next)], <<>>))
          ELSE Null
  BY BestLargeIs, Zenon
<1> HIDE DEF v
<1>4. /\ c \subseteq DOMAIN tree
      /\ \A q \in c : z[q] >= nb
      /\ \A r \in DOMAIN tree : z[r] >= nb => \E l \in c : z[l] =< z[r]
  <2> HIDE DEF i, tree, S
  <2> QED BY <1>1, <1>2, CandidatesAre
<1>5. /\ Shape(DOMAIN tree, z, i)
      /\ \A y \in S : y \in B /\ \E q \in DOMAIN tree : z[q] = h[y].size
  <2>1. \A y \in S : y \in B BY DEF InBin
  <2> HIDE DEF S, i, tree, z
  <2>2. TreeOK(m.head, tree, i, S) BY <1>2
  <2>3. Shape(DOMAIN tree, z, i) /\ \A y \in S : \E q \in DOMAIN tree : z[q] = h[y].size BY <2>2, TreeParts DEF z
  <2> QED BY <2>1, <2>3
<1> HIDE DEF z, c
<1>6. \A q \in DOMAIN tree : z[q] \in Nat
  <2>1. \A q \in DOMAIN tree : z[q] \in SizesOf(i) BY <1>5 DEF Shape
  <2> QED BY <2>1, SizeNat
\* Every chunk that fits is in this treebin or in a later one.
<1>7. ASSUME NEW p \in B, h[p].size >= nb
      PROVE  /\ h[p].size \in Nat
             /\ \E k \in 0 .. NTREEBINS - 1 : /\ k >= i /\ h[p].size \in SizesOf(k)
                                              /\ k # i => k \in next
                                              /\ k = i => p \in S
  <2> DEFINE s == h[p].size
             k == compute_tree_index(s)
  <2>1. s \in MIN_CHUNK_SIZE .. MAX_SIZE_T BY DEF BinsOK
  <2>2. p \in B /\ s >= nb BY <1>7
  <2>3. s \in LargeSizes /\ s \in Nat
    <3> HIDE DEF s
    <3>1. NSMALLBINS \in Nat BY BinConstants, Pow DEF NSMALLBINS
    <3>2. MAX_SIZE_T \in Int BY BinConstants, Pow DEF MAX_SIZE_T
    <3> QED BY <2>1, <2>2, <3>1, <3>2 DEF LargeSizes, MIN_CHUNK_SIZE
  <2>4. k \in 0 .. NTREEBINS - 1 /\ s \in SizesOf(k)
    <3> HIDE DEF s
    <3> QED BY <2>3, IndexFacts DEF LargeSizes, SizesOf
  <2>5. k >= i
    <3> HIDE DEF s
    <3>1. ~(compute_tree_index(s) < compute_tree_index(nb))
      <4> SUFFICES ASSUME compute_tree_index(s) < compute_tree_index(nb) PROVE FALSE OBVIOUS
      <4>1. s < nb BY <2>3, IndexOrder DEF LargeSizes
      <4> QED BY <1>1, <2>2, <2>3, <4>1
    <3> QED BY <1>1, <2>4, <3>1
  <2>6. k = i => p \in S BY <2>4 DEF InBin
  <2>7. DOMAIN m.treebins[k] # {}
    <3> DEFINE U == InBin(m.head, B, k)
    <3>1. TreeOK(m.head, m.treebins[k], k, U) BY <2>4 DEF BinsOK, TreesOK
    <3>2. p \in U BY <2>4 DEF InBin
    <3> HIDE DEF U, k, s
    <3> QED BY <3>1, <3>2, TreeParts
  <2>8. k # i => k \in next BY <1>1, <1>2, <2>4, <2>5, <2>7
  <2>9. k \in 0 .. NTREEBINS - 1 /\ k >= i /\ s \in SizesOf(k) /\ (k # i => k \in next) /\ (k = i => p \in S)
    BY <2>4, <2>5, <2>6, <2>8
  <2> HIDE DEF k, next, S, i
  <2> QED BY <2>3, <2>9
<1>10. \A k \in next : k \in Nat /\ k \in m.treemap /\ k > i /\ k \in 0 .. NTREEBINS - 1
  <2> HIDE DEF i
  <2> QED BY <1>1, <1>2
<1>11. c # {} => v = Smallest(m, tree, c) BY <1>3
<1> HIDE DEF tree, S, i, next, h
<1>8. CASE c # {}
  <2>1. v = Smallest(m, tree, c) BY <1>8, <1>11
  <2>2. /\ v \in S /\ h[v].size \in SizesOf(i)
        /\ \E p \in c : h[v].size = z[p]
        /\ \A q \in c : h[v].size =< z[q]
    <3> QED BY <1>1, <1>2, <1>4, <1>8, <2>1, SmallestIs DEF z, h
  <2>3. v \in B /\ h[v].size \in Nat /\ h[v].size >= nb BY <1>4, <1>5, <1>6, <2>2, SizeNat
  <2>4. ASSUME NEW p \in B, h[p].size >= nb PROVE h[v].size =< h[p].size
    <3>1. h[p].size \in Nat BY <1>7, <2>4
    <3>2. PICK k \in 0 .. NTREEBINS - 1 : /\ k >= i /\ h[p].size \in SizesOf(k)
                                          /\ k # i => k \in next
                                          /\ k = i => p \in S
      BY <1>7, <2>4
    <3>3. CASE k = i
      <4>1. PICK r \in DOMAIN tree : z[r] = h[p].size BY <1>5, <3>2, <3>3
      <4>2. PICK l \in c : z[l] =< z[r] BY <1>4, <2>4, <4>1
      <4>3. h[v].size =< z[l] BY <2>2
      <4> QED BY <1>4, <1>6, <2>3, <3>1, <4>1, <4>2, <4>3
    <3>4. CASE k # i
      <4> DEFINE s == h[v].size
                 t == h[p].size
      <4>1. s \in SizesOf(i) /\ t \in SizesOf(k) BY <2>2, <3>2
      <4> HIDE DEF s, t
      <4>2. s \in LargeSizes /\ t \in LargeSizes /\ s \in Nat /\ t \in Nat
            /\ compute_tree_index(s) = i /\ compute_tree_index(t) = k
        BY <4>1, SizeNat
      <4>3. i < k BY <1>1, <3>2, <3>4
      <4>4. compute_tree_index(s) < compute_tree_index(t) BY <4>2, <4>3, Zenon
      <4>5. s < t BY <4>2, <4>4, IndexOrder DEF LargeSizes
      <4>6. s =< t BY <4>2, <4>5
      <4> QED BY <4>6 DEF s, t
    <3> QED BY <3>3, <3>4
  <2>5. LeastFit(m, B, nb, v) BY <2>3, <2>4 DEF LeastFit, h
  <2>6. \E p \in B : h[p].size >= nb BY <2>3
  <2> QED BY <2>5, <2>6 DEF v, h
<1>9. CASE c = {}
  <2>1. \A r \in DOMAIN tree : ~(z[r] >= nb) BY <1>4, <1>9
  <2>2. ASSUME NEW p \in B, h[p].size >= nb
        PROVE  \E k \in next : h[p].size \in SizesOf(k)
    <3>1. PICK k \in 0 .. NTREEBINS - 1 : /\ k >= i /\ h[p].size \in SizesOf(k)
                                          /\ k # i => k \in next
                                          /\ k = i => p \in S
      BY <1>7, <2>2
    <3>2. k # i
      <4> SUFFICES ASSUME k = i PROVE FALSE OBVIOUS
      <4>1. PICK r \in DOMAIN tree : z[r] = h[p].size BY <1>5, <3>1
      <4> QED BY <2>1, <2>2, <4>1
    <3> QED BY <3>1, <3>2
  <2>3. CASE next = {}
    <3>1. v = Null BY <1>3, <1>9, <2>3
    <3>2. ~\E p \in B : h[p].size >= nb BY <2>2, <2>3
    <3> QED BY <3>1, <3>2 DEF v, h
  <2>4. CASE next # {}
    <3> DEFINE j == Min(next)
    <3>1. v = Smallest(m, m.treebins[j], LeftmostFrom(m.treebins[j], <<>>)) BY <1>3, <1>9, <2>4
    <3>2. \A k \in next : k \in Nat /\ k \in m.treemap /\ k > i /\ k \in 0 .. NTREEBINS - 1 BY <1>10
    <3>3. next \subseteq Nat BY <3>2
    <3>4. j \in next /\ \A k \in next : j =< k BY <2>4, <3>3, MinIs
    <3> HIDE DEF j
    <3>5. j \in m.treemap /\ j > i /\ j \in Nat BY <3>2, <3>4
    <3>6. /\ v \in B /\ h[v].size \in SizesOf(j)
          /\ \A p \in B, k \in 0 .. NTREEBINS - 1 :
               h[p].size \in SizesOf(k) /\ k >= j => h[v].size =< h[p].size
      BY <3>1, <3>5, BinLeast DEF h
    <3>7. h[v].size >= nb
      <4> DEFINE t == h[v].size
      <4>1. t \in SizesOf(j) BY <3>6
      <4> HIDE DEF t
      <4>2. t \in LargeSizes /\ t \in Nat /\ compute_tree_index(t) = j BY <4>1, SizeNat
      <4>3. compute_tree_index(nb) < compute_tree_index(t) BY <1>1, <3>5, <4>2 DEF i
      <4>4. nb < t BY <4>2, <4>3, IndexOrder DEF LargeSizes
      <4>5. t >= nb BY <1>1, <4>2, <4>4
      <4> QED BY <4>5 DEF t
    <3>8. ASSUME NEW p \in B, h[p].size >= nb PROVE h[v].size =< h[p].size
      <4>1. PICK k \in next : h[p].size \in SizesOf(k) BY <2>2, <3>8
      <4>2. k \in 0 .. NTREEBINS - 1 /\ k >= j BY <3>2, <3>4, <3>5, <4>1
      <4> QED BY <3>6, <4>1, <4>2
    <3>9. LeastFit(m, B, nb, v) BY <3>6, <3>7, <3>8 DEF LeastFit, h
    <3>10. \E p \in B : h[p].size >= nb BY <3>6, <3>7
    <3> QED BY <3>9, <3>10 DEF v, h
  <2> QED BY <2>3, <2>4
<1> QED BY <1>8, <1>9

-----------------------------------------------------------------------------
(* The tags in memory: what each way of writing them changes.              *)

Header == [size : Nat \ {0}, cinuse : BOOLEAN, pinuse : BOOLEAN, prev_foot : Nat]

\* The map of the heap has a header for every chunk.
Headers(h) == DOMAIN h \subseteq Nat /\ \A q \in DOMAIN h : h[q] \in Header

UsedIn(h) == {q \in DOMAIN h : h[q].cinuse}
FreeIn(h) == DOMAIN h \ UsedIn(h)
PinIn(h) == {q \in DOMAIN h : h[q].pinuse}

\* What a write leaves of the headers.
Left(h, p, size) == (DOMAIN h \ p .. p + size - 1) \cup {p}

\* A header, by its fields.
LEMMA HeaderIs ==
  ASSUME NEW size \in Nat \ {0}, NEW c \in BOOLEAN, NEW b \in BOOLEAN, NEW foot \in Nat, NEW r,
         r = [size |-> size, cinuse |-> c, pinuse |-> b, prev_foot |-> foot]
  PROVE  r \in Header /\ r.size = size /\ r.cinuse = c /\ r.pinuse = b /\ r.prev_foot = foot
BY DEF Header

\* A header is written over whatever was there.
LEMMA WriteIs ==
  ASSUME NEW h, Headers(h), NEW p \in Nat, NEW r \in Header
  PROVE  LET g == Write(h, p, r)
             D == Left(h, p, r.size)
         IN  /\ Headers(g) /\ DOMAIN g = D /\ p \in D /\ g[p] = r
             /\ \A q \in D \ {p} : g[q] = h[q] /\ q \in DOMAIN h
             /\ \A q \in D \ {p} : (q \in UsedIn(g) <=> q \in UsedIn(h)) /\ (q \in PinIn(g) <=> q \in PinIn(h))
             /\ p \in UsedIn(g) <=> r.cinuse
             /\ p \in PinIn(g) <=> r.pinuse
<1> DEFINE g == Write(h, p, r)
           D == Left(h, p, r.size)
<1>1. g = [a \in D |-> IF a = p THEN r ELSE h[a]] BY DEF Write, Left
<1>2. \A q \in D \ {p} : q \in DOMAIN h BY DEF Left
<1>3. p \in D /\ D \subseteq Nat BY DEF Left, Headers
<1> HIDE DEF g, D
<1>4. DOMAIN g = D /\ g[p] = r /\ \A q \in D \ {p} : g[q] = h[q] BY <1>1, <1>3
<1>5. Headers(g) BY <1>2, <1>3, <1>4 DEF Headers
<1>6. \A q \in D \ {p} : (q \in UsedIn(g) <=> q \in UsedIn(h)) /\ (q \in PinIn(g) <=> q \in PinIn(h))
  BY <1>2, <1>4 DEF UsedIn, PinIn
<1>7. (p \in UsedIn(g) <=> r.cinuse) /\ (p \in PinIn(g) <=> r.pinuse) BY <1>3, <1>4 DEF UsedIn, PinIn
<1> QED BY <1>2, <1>3, <1>4, <1>5, <1>6, <1>7 DEF g, D

\* The same, with D the chunks that are left.
Written(h, g, p, r, D) ==
  /\ Headers(g) /\ DOMAIN g = D /\ p \in D /\ g[p] = r
  /\ \A q \in D \ {p} : g[q] = h[q] /\ q \in DOMAIN h
  /\ \A q \in D \ {p} : (q \in UsedIn(g) <=> q \in UsedIn(h)) /\ (q \in PinIn(g) <=> q \in PinIn(h))
  /\ p \in UsedIn(g) <=> r.cinuse
  /\ p \in PinIn(g) <=> r.pinuse

\* A new header replaces those it lies over.
LEMMA WrittenIs ==
  ASSUME NEW h, Headers(h), NEW p \in Nat, NEW r \in Header
  PROVE  Written(h, Write(h, p, r), p, r, Left(h, p, r.size))
BY WriteIs DEF Written

\* set_pinuse changes one bit of one header.
LEMMA PinuseIs ==
  ASSUME NEW h, Headers(h), NEW n
  PROVE  LET g == set_pinuse(h, n)
         IN  /\ Headers(g) /\ DOMAIN g = DOMAIN h /\ UsedIn(g) = UsedIn(h)
             /\ \A q \in DOMAIN h : g[q].size = h[q].size /\ (q \in PinIn(g) <=> q \in PinIn(h) \/ q = n)
             /\ \A q \in DOMAIN h \ {n} : g[q] = h[q]
<1> DEFINE g == set_pinuse(h, n)
<1>1. CASE n \in DOMAIN h
  <2> DEFINE a == [h[n] EXCEPT !.pinuse = TRUE, !.prev_foot = 0]
  <2>1. g = [h EXCEPT ![n] = a]
    <3>1. g = [h EXCEPT ![n].pinuse = TRUE, ![n].prev_foot = 0] BY <1>1 DEF set_pinuse
    <3> QED BY <1>1, <3>1
  <2>2. a \in Header /\ a.size = h[n].size /\ a.cinuse = h[n].cinuse /\ a.pinuse = TRUE
    BY <1>1 DEF Headers, Header
  <2> HIDE DEF a, g
  <2>3. DOMAIN g = DOMAIN h /\ g[n] = a /\ \A q \in DOMAIN h \ {n} : g[q] = h[q] BY <1>1, <2>1
  <2>4. Headers(g) BY <2>2, <2>3 DEF Headers
  <2>5. ASSUME NEW q \in DOMAIN h
        PROVE  /\ g[q].size = h[q].size /\ (q \in PinIn(g) <=> q \in PinIn(h) \/ q = n)
               /\ q \in UsedIn(g) <=> q \in UsedIn(h)
    <3>1. CASE q = n BY <2>2, <2>3, <3>1 DEF PinIn, UsedIn
    <3>2. CASE q # n BY <2>3, <3>2 DEF PinIn, UsedIn
    <3> QED BY <3>1, <3>2
  <2>6. UsedIn(g) = UsedIn(h)
    <3>1. \A q : q \in UsedIn(g) => q \in DOMAIN h BY <2>3 DEF UsedIn
    <3>2. \A q : q \in UsedIn(h) => q \in DOMAIN h BY DEF UsedIn
    <3> QED BY <2>5, <3>1, <3>2
  <2> QED BY <2>3, <2>4, <2>5, <2>6 DEF g
<1>2. CASE n \notin DOMAIN h
  <2>1. g = h BY <1>2 DEF set_pinuse
  <2>2. \A q \in DOMAIN h : q # n BY <1>2
  <2> HIDE DEF g
  <2> QED BY <2>1, <2>2 DEF g
<1> QED BY <1>1, <1>2

\* set_foot writes the size of a free chunk into the next header only.
LEMMA FootIs ==
  ASSUME NEW h, Headers(h), NEW p, NEW size \in Nat
  PROVE  LET g == set_foot(h, p, size)
         IN  /\ Headers(g) /\ DOMAIN g = DOMAIN h /\ UsedIn(g) = UsedIn(h) /\ PinIn(g) = PinIn(h)
             /\ \A q \in DOMAIN h : g[q].size = h[q].size
             /\ \A q \in DOMAIN h \ {p + size} : g[q] = h[q]
             /\ p + size \in DOMAIN h => g[p + size].prev_foot = size
<1> DEFINE g == set_foot(h, p, size)
           n == p + size
<1>1. CASE n \in DOMAIN h
  <2> DEFINE a == [h[n] EXCEPT !.prev_foot = size]
  <2>1. g = [h EXCEPT ![n] = a] BY <1>1 DEF set_foot
  <2>2. a \in Header /\ a.size = h[n].size /\ a.cinuse = h[n].cinuse /\ a.pinuse = h[n].pinuse /\ a.prev_foot = size
    <3> HIDE DEF n
    <3> QED BY <1>1 DEF Headers, Header
  <2> HIDE DEF a, g, n
  <2>3. DOMAIN g = DOMAIN h /\ g[n] = a /\ \A q \in DOMAIN h \ {n} : g[q] = h[q] BY <1>1, <2>1
  <2>4. Headers(g) BY <2>2, <2>3 DEF Headers
  <2>5. ASSUME NEW q \in DOMAIN h
        PROVE  /\ g[q].size = h[q].size /\ (q \in PinIn(g) <=> q \in PinIn(h))
               /\ q \in UsedIn(g) <=> q \in UsedIn(h)
    <3>1. CASE q = n BY <2>2, <2>3, <3>1 DEF PinIn, UsedIn
    <3>2. CASE q # n BY <2>3, <3>2 DEF PinIn, UsedIn
    <3> QED BY <3>1, <3>2
  <2>6. UsedIn(g) = UsedIn(h) /\ PinIn(g) = PinIn(h)
    <3>1. \A q : q \in UsedIn(g) \/ q \in PinIn(g) => q \in DOMAIN h BY <2>3 DEF UsedIn, PinIn
    <3>2. \A q : q \in UsedIn(h) \/ q \in PinIn(h) => q \in DOMAIN h BY DEF UsedIn, PinIn
    <3> QED BY <2>5, <3>1, <3>2
  <2> QED BY <2>2, <2>3, <2>4, <2>5, <2>6 DEF g, n
<1>2. CASE n \notin DOMAIN h
  <2>1. g = h BY <1>2 DEF set_foot
  <2> HIDE DEF g
  <2> QED BY <1>2, <2>1 DEF g
<1> QED BY <1>1, <1>2

\* Clearing pinuse changes one bit of one header.
LEMMA ClearIs ==
  ASSUME NEW h, Headers(h), NEW n \in DOMAIN h
  PROVE  LET g == [h EXCEPT ![n].pinuse = FALSE]
         IN  /\ Headers(g) /\ DOMAIN g = DOMAIN h /\ UsedIn(g) = UsedIn(h) /\ PinIn(g) = PinIn(h) \ {n}
             /\ \A q \in DOMAIN h : g[q].size = h[q].size /\ g[q].prev_foot = h[q].prev_foot
             /\ \A q \in DOMAIN h \ {n} : g[q] = h[q]
<1> DEFINE g == [h EXCEPT ![n].pinuse = FALSE]
           a == [h[n] EXCEPT !.pinuse = FALSE]
<1>1. g = [h EXCEPT ![n] = a] OBVIOUS
<1>2. a \in Header /\ a.size = h[n].size /\ a.cinuse = h[n].cinuse /\ a.pinuse = FALSE /\ a.prev_foot = h[n].prev_foot
  BY DEF Headers, Header
<1> HIDE DEF a, g
<1>3. DOMAIN g = DOMAIN h /\ g[n] = a /\ \A q \in DOMAIN h \ {n} : g[q] = h[q] BY <1>1
<1>4. Headers(g) BY <1>2, <1>3 DEF Headers
<1>5. ASSUME NEW q \in DOMAIN h
      PROVE  /\ g[q].size = h[q].size /\ (q \in PinIn(g) <=> q \in PinIn(h) /\ q # n)
             /\ q \in UsedIn(g) <=> q \in UsedIn(h)
             /\ g[q].prev_foot = h[q].prev_foot
  <2>1. CASE q = n BY <1>2, <1>3, <2>1 DEF PinIn, UsedIn
  <2>2. CASE q # n BY <1>3, <2>2 DEF PinIn, UsedIn
  <2> QED BY <2>1, <2>2
<1>6. UsedIn(g) = UsedIn(h) /\ PinIn(g) = PinIn(h) \ {n}
  <2>1. \A q : q \in UsedIn(g) \/ q \in PinIn(g) => q \in DOMAIN h BY <1>3 DEF UsedIn, PinIn
  <2>2. \A q : q \in UsedIn(h) \/ q \in PinIn(h) => q \in DOMAIN h BY DEF UsedIn, PinIn
  <2> QED BY <1>5, <2>1, <2>2
<1> QED BY <1>3, <1>4, <1>5, <1>6 DEF g

-----------------------------------------------------------------------------
(* The heap as a row of chunks, and how a part of the row may change.      *)

\* The chunks lie end to end up to top, and their tags speak the truth of their
\* neighbours.
Tile(h, top, end) ==
  /\ Headers(h)
  /\ 0 \in PinIn(h)
  /\ top \in FreeIn(h) /\ top + h[top].size = end
  /\ \A p \in DOMAIN h : p =< top
  /\ \A p \in DOMAIN h \ {top} :
       /\ h[p].size >= MIN_CHUNK_SIZE
       /\ p + h[p].size \in DOMAIN h
       /\ p + h[p].size \in PinIn(h) <=> p \in UsedIn(h)
       /\ p \notin UsedIn(h) => h[p + h[p].size].prev_foot = h[p].size
  /\ FreeIn(h) \subseteq PinIn(h)
  /\ \A p, q \in DOMAIN h : p < q => p + h[p].size =< q
  /\ \A p \in DOMAIN h \ PinIn(h) :
       /\ p - h[p].prev_foot \in DOMAIN h \ {top}
       /\ h[p - h[p].prev_foot].size = h[p].prev_foot

\* The sizes and places in headers are numbers.
LEMMA HeaderSize ==
  ASSUME NEW h, Headers(h), NEW q \in DOMAIN h
  PROVE  q \in Nat /\ h[q].size \in Nat /\ h[q].size > 0 /\ h[q].prev_foot \in Nat
BY DEF Headers, Header

\* A chunk is in use or free.
LEMMA Parts ==
  ASSUME NEW h
  PROVE  /\ UsedIn(h) \subseteq DOMAIN h /\ FreeIn(h) \subseteq DOMAIN h /\ PinIn(h) \subseteq DOMAIN h
         /\ \A q \in DOMAIN h : q \in FreeIn(h) <=> q \notin UsedIn(h)
BY DEF UsedIn, FreeIn, PinIn

\* What a row of chunks has.
LEMMA TileFacts ==
  ASSUME NEW h, NEW top, NEW end, Tile(h, top, end)
  PROVE  /\ top \in DOMAIN h /\ top \in Nat /\ end \in Nat /\ top < end /\ top \in PinIn(h) /\ top \notin UsedIn(h)
         /\ \A p \in DOMAIN h : p \in Nat /\ h[p].size \in Nat /\ h[p].size > 0 /\ p + h[p].size =< end
         /\ \A p \in DOMAIN h \ {top} :
              /\ p < top /\ p + h[p].size =< top /\ h[p].size >= MIN_CHUNK_SIZE /\ p + h[p].size \in DOMAIN h
              /\ p + h[p].size \in PinIn(h) <=> p \in UsedIn(h)
              /\ p \notin UsedIn(h) => /\ p + h[p].size \in UsedIn(h) /\ p + h[p].size # top
                                       /\ h[p + h[p].size].prev_foot = h[p].size
         /\ \A p \in DOMAIN h : p \in FreeIn(h) => p \in PinIn(h)
<1>1. top \in DOMAIN h /\ top \in PinIn(h) /\ top \notin UsedIn(h) /\ FreeIn(h) \subseteq PinIn(h)
  BY Parts DEF Tile
<1>2. \A p \in DOMAIN h : p \in Nat /\ h[p].size \in Nat /\ h[p].size > 0 BY HeaderSize DEF Tile
<1>3. end \in Nat /\ top < end /\ top + h[top].size = end BY <1>1, <1>2 DEF Tile
<1>4. ASSUME NEW p \in DOMAIN h \ {top}
      PROVE  /\ p < top /\ p + h[p].size =< top /\ h[p].size >= MIN_CHUNK_SIZE /\ p + h[p].size \in DOMAIN h
             /\ p + h[p].size \in PinIn(h) <=> p \in UsedIn(h)
             /\ p \notin UsedIn(h) => /\ p + h[p].size \in UsedIn(h) /\ p + h[p].size # top
                                      /\ h[p + h[p].size].prev_foot = h[p].size
  <2>1. p =< top /\ (p < top => p + h[p].size =< top) BY <1>1 DEF Tile
  <2>2. p < top BY <1>1, <1>2, <2>1
  <2>3. /\ h[p].size >= MIN_CHUNK_SIZE /\ p + h[p].size \in DOMAIN h
        /\ p + h[p].size \in PinIn(h) <=> p \in UsedIn(h)
        /\ p \notin UsedIn(h) => h[p + h[p].size].prev_foot = h[p].size
    BY DEF Tile
  <2>4. p \notin UsedIn(h) => p + h[p].size \in UsedIn(h) /\ p + h[p].size # top BY <1>1, <2>3, Parts
  <2> QED BY <2>1, <2>2, <2>3, <2>4
<1>5. \A p \in DOMAIN h : p + h[p].size =< end
  <2> TAKE p \in DOMAIN h
  <2>1. CASE p = top BY <1>2, <1>3, <2>1
  <2>2. CASE p # top BY <1>1, <1>2, <1>3, <1>4, <2>2
  <2> QED BY <2>1, <2>2
<1> QED BY <1>1, <1>2, <1>3, <1>4, <1>5

\* The space from a to e, of some chunks, is divided anew.
Same(h, g, a, e) ==
  /\ Headers(g)
  /\ \A q \in DOMAIN g \ a .. e - 1 : q \in DOMAIN h
  /\ \A q \in DOMAIN h \ a .. e - 1 :
       /\ q \in DOMAIN g /\ g[q].size = h[q].size
       /\ q \in UsedIn(g) <=> q \in UsedIn(h)
       /\ q # e => (q \in PinIn(g) <=> q \in PinIn(h)) /\ g[q].prev_foot = h[q].prev_foot
  /\ a \in DOMAIN g
  /\ a \in PinIn(g) <=> a \in PinIn(h)
  /\ a \notin PinIn(h) => g[a].prev_foot = h[a].prev_foot

\* The chunks from a to e lie end to end and their tags are right.
Run(g, top, a, e) ==
  /\ \A p \in DOMAIN g \ {top} : p \in a .. e - 1 =>
       /\ g[p].size >= MIN_CHUNK_SIZE
       /\ p + g[p].size \in DOMAIN g /\ p + g[p].size =< e
       /\ p + g[p].size \in PinIn(g) <=> p \in UsedIn(g)
       /\ p \notin UsedIn(g) => g[p + g[p].size].prev_foot = g[p].size
  /\ \A p \in DOMAIN g \ {a} : p \in a .. e - 1 => p \in PinIn(g)
  /\ a \notin UsedIn(g) => a \in PinIn(g)
  /\ \A p, q \in DOMAIN g : p \in a .. e - 1 /\ q \in a .. e - 1 /\ p < q => p + g[p].size =< q

\* A part of the row is replaced by another that ends at the same place.
LEMMA Retile ==
  ASSUME NEW h, NEW top, NEW end, Tile(h, top, end), NEW g, NEW a \in DOMAIN h, NEW e \in DOMAIN h, a < e,
         Same(h, g, a, e), Run(g, top, a, e),
         NEW l \in DOMAIN g, l \in a .. e - 1, l + g[l].size = e,
         e \in UsedIn(h) \/ l \in UsedIn(g)
  PROVE  Tile(g, top, end)
<1>1. Headers(g) /\ Headers(h) BY DEF Tile, Same
<1>2. /\ \A p \in DOMAIN h : p \in Nat /\ h[p].size \in Nat /\ h[p].size > 0 /\ p =< top
      /\ \A p \in DOMAIN g : p \in Nat /\ g[p].size \in Nat /\ g[p].size > 0
      /\ top \in DOMAIN h /\ top \in PinIn(h) /\ top \notin UsedIn(h)
  BY <1>1, TileFacts, HeaderSize DEF Tile
<1>3. top >= e /\ top \notin a .. e - 1 /\ a \in Nat /\ e \in Nat BY <1>2
<1>4. /\ \A q \in DOMAIN g : q \in DOMAIN h \/ q \in a .. e - 1
      /\ \A q \in DOMAIN h : q \in a .. e - 1 \/
           /\ q \in DOMAIN g /\ g[q].size = h[q].size
           /\ q \in UsedIn(g) <=> q \in UsedIn(h)
           /\ q # e => (q \in PinIn(g) <=> q \in PinIn(h)) /\ g[q].prev_foot = h[q].prev_foot
      /\ a \in DOMAIN g /\ (a \in PinIn(g) <=> a \in PinIn(h)) /\ (a \notin PinIn(h) => g[a].prev_foot = h[a].prev_foot)
  BY DEF Same
<1>5. e \notin a .. e - 1 /\ e \in DOMAIN g /\ (e \in UsedIn(g) <=> e \in UsedIn(h)) BY <1>3, <1>4
<1>6. /\ g[l].size >= MIN_CHUNK_SIZE /\ (e \in PinIn(g) <=> l \in UsedIn(g))
      /\ l \notin UsedIn(g) => g[e].prev_foot = g[l].size
      /\ l # top
  BY <1>3 DEF Run
<1>7. \A p \in DOMAIN h : (p < a => p + h[p].size =< a) /\ (p \in a .. e - 1 => p + h[p].size =< e)
  BY <1>3 DEF Tile
\* Chunks outside.
<1>8. ASSUME NEW p \in DOMAIN g, p \notin a .. e - 1
      PROVE  /\ p \in DOMAIN h /\ g[p].size = h[p].size /\ (p \in UsedIn(g) <=> p \in UsedIn(h))
             /\ p # e => (p \in PinIn(g) <=> p \in PinIn(h)) /\ g[p].prev_foot = h[p].prev_foot
             /\ p < a \/ p >= e
  BY <1>2, <1>3, <1>4, <1>8
<1>9. 0 \in PinIn(g)
  <2>1. 0 \in PinIn(h) /\ 0 \in DOMAIN h BY Parts DEF Tile
  <2>2. CASE a = 0 BY <1>4, <2>1, <2>2
  <2>3. CASE a # 0 BY <1>3, <1>4, <2>1, <2>3
  <2> QED BY <2>2, <2>3
<1>10. top \in FreeIn(g) /\ top \in DOMAIN g /\ top + g[top].size = end
  <2>1. top \in DOMAIN g /\ top \notin UsedIn(g) /\ g[top].size = h[top].size BY <1>2, <1>3, <1>4
  <2> QED BY <2>1, Parts DEF Tile
<1>11. \A p \in DOMAIN g : p =< top BY <1>2, <1>3, <1>4
<1>12. ASSUME NEW p \in DOMAIN g \ {top}
       PROVE /\ g[p].size >= MIN_CHUNK_SIZE
             /\ p + g[p].size \in DOMAIN g
             /\ p + g[p].size \in PinIn(g) <=> p \in UsedIn(g)
             /\ p \notin UsedIn(g) => g[p + g[p].size].prev_foot = g[p].size
  <2>1. CASE p \in a .. e - 1 BY <2>1 DEF Run
  <2>2. CASE p \notin a .. e - 1
    <3> DEFINE n == p + h[p].size
    <3>1. /\ p \in DOMAIN h /\ g[p].size = h[p].size /\ (p \in UsedIn(g) <=> p \in UsedIn(h)) /\ (p < a \/ p >= e)
      BY <1>8, <2>2
    <3>2. /\ h[p].size >= MIN_CHUNK_SIZE /\ n \in DOMAIN h
          /\ n \in PinIn(h) <=> p \in UsedIn(h)
          /\ p \notin UsedIn(h) => h[n].prev_foot = h[p].size
      BY <3>1 DEF Tile
    <3>3. n =< a \/ n > e BY <1>2, <1>3, <1>7, <3>1
    <3> HIDE DEF n
    <3>4. CASE n = a BY <1>4, <3>1, <3>2, <3>4 DEF n
    <3>5. CASE n # a
      <4>1. n \notin a .. e - 1 /\ n # e BY <1>2, <1>3, <3>2, <3>3, <3>5
      <4> QED BY <1>4, <3>1, <3>2, <4>1 DEF n
    <3> QED BY <3>4, <3>5
  <2> QED BY <2>1, <2>2
<1>13. FreeIn(g) \subseteq PinIn(g)
  <2> SUFFICES ASSUME NEW p \in FreeIn(g) PROVE p \in PinIn(g) OBVIOUS
  <2>1. p \in DOMAIN g /\ p \notin UsedIn(g) BY Parts
  <2>2. CASE p = e BY <1>5, <1>6, <2>1, <2>2
  <2>3. CASE p \in a .. e - 1 BY <2>1, <2>3 DEF Run
  <2>4. CASE p # e /\ p \notin a .. e - 1
    <3>1. p \in DOMAIN h /\ p \notin UsedIn(h) BY <1>8, <2>1, <2>4
    <3>2. p \in PinIn(h) BY <3>1, TileFacts, Parts
    <3> QED BY <1>8, <2>1, <2>4, <3>2
  <2> QED BY <2>2, <2>3, <2>4
<1>14. ASSUME NEW p \in DOMAIN g, NEW q \in DOMAIN g, p < q PROVE p + g[p].size =< q
  <2>1. CASE p \in a .. e - 1 /\ q \in a .. e - 1 BY <1>14, <2>1 DEF Run
  <2>2. CASE p \in a .. e - 1 /\ q \notin a .. e - 1
    <3>1. p # top BY <1>3, <2>2
    <3>2. p + g[p].size =< e BY <2>2, <3>1 DEF Run
    <3>3. q >= e BY <1>2, <1>3, <1>8, <1>14, <2>2
    <3> QED BY <1>2, <1>3, <3>2, <3>3
  <2>3. CASE p \notin a .. e - 1
    <3>1. p \in DOMAIN h /\ g[p].size = h[p].size /\ (p < a \/ p >= e) BY <1>8, <2>3
    <3>2. CASE q \in a .. e - 1
      <4>1. p < a BY <1>2, <1>3, <1>14, <3>1, <3>2
      <4> QED BY <1>2, <1>3, <1>7, <3>1, <3>2, <4>1
    <3>3. CASE q \notin a .. e - 1 BY <1>8, <1>14, <3>1, <3>3 DEF Tile
    <3> QED BY <3>2, <3>3
  <2> QED BY <2>1, <2>2, <2>3
<1>15. ASSUME NEW p \in DOMAIN g \ PinIn(g)
       PROVE  /\ p - g[p].prev_foot \in DOMAIN g \ {top}
              /\ g[p - g[p].prev_foot].size = g[p].prev_foot
  <2>1. CASE p = e
    <3>1. g[e].prev_foot = g[l].size BY <1>6, <2>1
    <3>2. e - g[l].size = l BY <1>2, <1>3
    <3> QED BY <1>6, <2>1, <3>1, <3>2
  <2>2. CASE p # e
    <3> DEFINE f == h[p].prev_foot
    <3>1. p \in a .. e - 1 => p = a BY DEF Run
    <3>2. p \in DOMAIN h /\ p \notin PinIn(h) /\ g[p].prev_foot = f
      <4>1. CASE p = a BY <1>4, <4>1
      <4>2. CASE p # a BY <1>8, <2>2, <3>1, <4>2
      <4> QED BY <4>1, <4>2
    <3>3. p - f \in DOMAIN h \ {top} /\ h[p - f].size = f BY <3>2 DEF Tile
    <3> DEFINE v == p - f
    <3>4. v \in Nat /\ f \in Nat /\ f > 0 /\ v + f = p BY <1>2, <3>2, <3>3
    <3> HIDE DEF v
    <3>5. p =< a \/ p >= e BY <1>2, <1>3, <3>1
    <3>6. v \notin a .. e - 1
      <4> SUFFICES ASSUME v \in a .. e - 1 PROVE FALSE OBVIOUS
      <4>1. v + f =< e BY <1>7, <3>3 DEF v
      <4> HIDE DEF f
      <4> QED BY <1>2, <1>3, <2>2, <3>4, <3>5, <4>1
    <3>7. v \in DOMAIN g /\ g[v].size = f BY <1>4, <3>3, <3>6 DEF v
    <3> QED BY <3>2, <3>3, <3>7 DEF v
  <2> QED BY <2>1, <2>2
<1> QED BY <1>1, <1>9, <1>10, <1>11, <1>12, <1>13, <1>14, <1>15, Parts DEF Tile

\* So is all from a on, with a new top.
LEMMA Retop ==
  ASSUME NEW h, NEW top, NEW end, Tile(h, top, end), NEW g, NEW a \in DOMAIN h,
         NEW e \in Nat, \A q \in DOMAIN h : q < e, \A q \in DOMAIN g : q < e,
         NEW new \in DOMAIN g, \A q \in DOMAIN g : q =< new, new >= a, new \in PinIn(g), new \notin UsedIn(g),
         Same(h, g, a, e), Run(g, new, a, e)
  PROVE  Tile(g, new, new + g[new].size)
<1>1. Headers(g) /\ Headers(h) BY DEF Tile, Same
<1>2. /\ \A p \in DOMAIN h : p \in Nat /\ h[p].size \in Nat /\ h[p].size > 0 /\ p =< top
      /\ \A p \in DOMAIN g : p \in Nat /\ g[p].size \in Nat /\ g[p].size > 0
      /\ top \in DOMAIN h /\ top \in PinIn(h) /\ top \notin UsedIn(h)
  BY <1>1, TileFacts, HeaderSize DEF Tile
<1>3. a \in Nat /\ a < e BY <1>2
<1>4. /\ \A q \in DOMAIN g : q < a => q \in DOMAIN h
      /\ \A q \in DOMAIN h : q < a =>
           /\ q \in DOMAIN g /\ g[q].size = h[q].size
           /\ q \in UsedIn(g) <=> q \in UsedIn(h)
           /\ (q \in PinIn(g) <=> q \in PinIn(h)) /\ g[q].prev_foot = h[q].prev_foot
      /\ a \in DOMAIN g /\ (a \in PinIn(g) <=> a \in PinIn(h)) /\ (a \notin PinIn(h) => g[a].prev_foot = h[a].prev_foot)
  BY <1>2, <1>3 DEF Same
<1>5. \A p \in DOMAIN g : p < a \/ p \in a .. e - 1 BY <1>2, <1>3
<1>7. \A p \in DOMAIN h : p < a => p + h[p].size =< a BY <1>3 DEF Tile
<1>9. 0 \in PinIn(g)
  <2>1. 0 \in PinIn(h) /\ 0 \in DOMAIN h BY Parts DEF Tile
  <2>2. CASE a = 0 BY <1>4, <2>1, <2>2
  <2>3. CASE a # 0 BY <1>3, <1>4, <2>1, <2>3
  <2> QED BY <2>2, <2>3
<1>10. new \in FreeIn(g) BY Parts
<1>12. ASSUME NEW p \in DOMAIN g \ {new}
       PROVE /\ g[p].size >= MIN_CHUNK_SIZE
             /\ p + g[p].size \in DOMAIN g
             /\ p + g[p].size \in PinIn(g) <=> p \in UsedIn(g)
             /\ p \notin UsedIn(g) => g[p + g[p].size].prev_foot = g[p].size
  <2>1. CASE p \in a .. e - 1 BY <2>1 DEF Run
  <2>2. CASE p < a
    <3> DEFINE n == p + h[p].size
    <3>1. /\ p \in DOMAIN h /\ g[p].size = h[p].size /\ (p \in UsedIn(g) <=> p \in UsedIn(h))
      BY <1>4, <2>2
    <3>0. p # top BY <1>2, <1>3, <2>2
    <3>2. /\ h[p].size >= MIN_CHUNK_SIZE /\ n \in DOMAIN h
          /\ n \in PinIn(h) <=> p \in UsedIn(h)
          /\ p \notin UsedIn(h) => h[n].prev_foot = h[p].size
      BY <3>0, <3>1 DEF Tile
    <3>3. n =< a BY <1>7, <2>2, <3>1
    <3> HIDE DEF n
    <3>4. CASE n = a BY <1>4, <3>1, <3>2, <3>4 DEF n
    <3>5. CASE n # a
      <4>1. n < a BY <1>2, <1>3, <3>2, <3>3, <3>5
      <4> QED BY <1>4, <3>1, <3>2, <4>1 DEF n
    <3> QED BY <3>4, <3>5
  <2> QED BY <1>5, <2>1, <2>2
<1>13. FreeIn(g) \subseteq PinIn(g)
  <2> SUFFICES ASSUME NEW p \in FreeIn(g) PROVE p \in PinIn(g) OBVIOUS
  <2>1. p \in DOMAIN g /\ p \notin UsedIn(g) BY Parts
  <2>3. CASE p \in a .. e - 1 BY <2>1, <2>3 DEF Run
  <2>4. CASE p < a
    <3>1. p \in DOMAIN h /\ p \notin UsedIn(h) BY <1>4, <2>1, <2>4
    <3>2. p \in PinIn(h) BY <3>1, TileFacts, Parts
    <3> QED BY <1>4, <2>1, <2>4, <3>1, <3>2
  <2> QED BY <1>5, <2>1, <2>3, <2>4
<1>14. ASSUME NEW p \in DOMAIN g, NEW q \in DOMAIN g, p < q PROVE p + g[p].size =< q
  <2>1. CASE p \in a .. e - 1
    <3>1. q \in a .. e - 1 BY <1>2, <1>3, <1>5, <1>14, <2>1
    <3> QED BY <1>14, <2>1, <3>1 DEF Run
  <2>3. CASE p < a
    <3>1. p \in DOMAIN h /\ g[p].size = h[p].size BY <1>4, <2>3
    <3>2. CASE q \in a .. e - 1 BY <1>2, <1>3, <1>7, <2>3, <3>1, <3>2
    <3>3. CASE q < a
      <4>1. q \in DOMAIN h BY <1>4, <3>3
      <4> QED BY <1>14, <3>1, <4>1 DEF Tile
    <3> QED BY <1>5, <3>2, <3>3
  <2> QED BY <1>5, <2>1, <2>3
<1>15. ASSUME NEW p \in DOMAIN g \ PinIn(g)
       PROVE  /\ p - g[p].prev_foot \in DOMAIN g \ {new}
              /\ g[p - g[p].prev_foot].size = g[p].prev_foot
  <2> DEFINE f == h[p].prev_foot
             v == p - f
  <2>1. p \in a .. e - 1 => p = a BY DEF Run
  <2>2. p \in DOMAIN h /\ p \notin PinIn(h) /\ g[p].prev_foot = f /\ p =< a
    <3>1. CASE p = a BY <1>2, <1>4, <3>1
    <3>2. CASE p # a BY <1>2, <1>3, <1>4, <1>5, <2>1, <3>2
    <3> QED BY <3>1, <3>2
  <2>3. v \in DOMAIN h \ {top} /\ h[v].size = f BY <2>2 DEF Tile
  <2>4. v < a /\ v < new BY <1>2, <1>3, <2>2, <2>3
  <2> HIDE DEF v
  <2>7. v \in DOMAIN g /\ g[v].size = f BY <1>4, <2>3, <2>4
  <2>8. v # new BY <1>2, <2>4
  <2> QED BY <2>2, <2>7, <2>8 DEF v
<1> QED BY <1>1, <1>9, <1>10, <1>12, <1>13, <1>14, <1>15, Parts DEF Tile

-----------------------------------------------------------------------------
(* A free chunk becomes a used one.                                        *)

\* The header of a chunk in use.
LEMMA InUseIs ==
  ASSUME NEW size \in Nat \ {0}
  PROVE  /\ InUse(size) \in Header /\ InUse(size).size = size /\ InUse(size).cinuse /\ InUse(size).pinuse
         /\ InUse(size).prev_foot = 0
BY DEF InUse, Header

\* The header of a free chunk.
LEMMA UnusedIs ==
  ASSUME NEW size \in Nat \ {0}
  PROVE  /\ Unused(size) \in Header /\ Unused(size).size = size /\ ~Unused(size).cinuse /\ Unused(size).pinuse
         /\ Unused(size).prev_foot = 0
BY DEF Unused, Header

\* All that stays is as it was but for the chunk p.
Wrote(h, w, p, size) ==
  /\ Headers(w) /\ DOMAIN w = Left(h, p, size) /\ p \in DOMAIN w /\ w[p].size = size /\ p \in PinIn(w)
  /\ \A q \in DOMAIN w \ {p} :
       /\ q \in DOMAIN h /\ w[q] = h[q]
       /\ (q \in UsedIn(w) <=> q \in UsedIn(h)) /\ (q \in PinIn(w) <=> q \in PinIn(h))

\* A chunk is written as in use.
LEMMA WriteUsed ==
  ASSUME NEW h, Headers(h), NEW p \in Nat, NEW size \in Nat \ {0}
  PROVE  Wrote(h, Write(h, p, InUse(size)), p, size) /\ p \in UsedIn(Write(h, p, InUse(size)))
<1> DEFINE r == InUse(size)
<1>1. r \in Header /\ r.size = size /\ r.cinuse /\ r.pinuse BY InUseIs
<1> HIDE DEF r
<1> DEFINE w == Write(h, p, r)
           D == Left(h, p, size)
<1>2. /\ Headers(w) /\ DOMAIN w = D /\ p \in D /\ w[p] = r
      /\ \A q \in D \ {p} : w[q] = h[q] /\ q \in DOMAIN h
      /\ \A q \in D \ {p} : (q \in UsedIn(w) <=> q \in UsedIn(h)) /\ (q \in PinIn(w) <=> q \in PinIn(h))
      /\ p \in UsedIn(w) /\ p \in PinIn(w)
  BY <1>1, WriteIs
<1> HIDE DEF w
<1>3. w[p].size = size BY <1>1, <1>2
<1>4. Wrote(h, w, p, size) BY <1>2, <1>3 DEF Wrote
<1> QED BY <1>2, <1>4 DEF w, r

\* A chunk is written as free.
LEMMA WriteUnused ==
  ASSUME NEW h, Headers(h), NEW p \in Nat, NEW size \in Nat \ {0}
  PROVE  Wrote(h, Write(h, p, Unused(size)), p, size) /\ p \notin UsedIn(Write(h, p, Unused(size)))
<1> DEFINE r == Unused(size)
<1>1. r \in Header /\ r.size = size /\ ~r.cinuse /\ r.pinuse BY UnusedIs
<1> HIDE DEF r
<1> DEFINE w == Write(h, p, r)
           D == Left(h, p, size)
<1>2. /\ Headers(w) /\ DOMAIN w = D /\ p \in D /\ w[p] = r
      /\ \A q \in D \ {p} : w[q] = h[q] /\ q \in DOMAIN h
      /\ \A q \in D \ {p} : (q \in UsedIn(w) <=> q \in UsedIn(h)) /\ (q \in PinIn(w) <=> q \in PinIn(h))
      /\ p \notin UsedIn(w) /\ p \in PinIn(w)
  BY <1>1, WriteIs
<1> HIDE DEF w
<1>3. w[p].size = size BY <1>1, <1>2
<1>4. Wrote(h, w, p, size) BY <1>2, <1>3 DEF Wrote
<1> QED BY <1>2, <1>4 DEF w, r

\* No chunk starts inside another.
LEMMA Alone ==
  ASSUME NEW h, NEW top, NEW end, Tile(h, top, end), NEW p \in DOMAIN h
  PROVE  /\ \A q \in DOMAIN h : q \in p .. p + h[p].size - 1 => q = p
         /\ Left(h, p, h[p].size) = DOMAIN h
         /\ \A n \in 1 .. h[p].size : Left(h, p, n) = DOMAIN h
<1>1. p \in Nat /\ h[p].size \in Nat /\ h[p].size > 0 /\ \A q \in DOMAIN h : q \in Nat BY TileFacts
<1>2. \A q \in DOMAIN h : q > p => p + h[p].size =< q BY DEF Tile
<1>3. \A q \in DOMAIN h : q \in p .. p + h[p].size - 1 => q = p BY <1>1, <1>2
<1>4. ASSUME NEW n \in 1 .. h[p].size PROVE Left(h, p, n) = DOMAIN h BY <1>1, <1>3 DEF Left
<1>5. h[p].size \in 1 .. h[p].size BY <1>1
<1> QED BY <1>3, <1>4, <1>5

\* A free chunk becomes a used one as it is.
LEMMA UseWhole ==
  ASSUME NEW h, NEW top, NEW end, Tile(h, top, end), NEW p \in DOMAIN h, p # top, p \notin UsedIn(h)
  PROVE  LET g == set_inuse_and_pinuse(h, p, h[p].size)
         IN  /\ Tile(g, top, end) /\ DOMAIN g = DOMAIN h /\ UsedIn(g) = UsedIn(h) \cup {p}
             /\ \A q \in DOMAIN h : g[q].size = h[q].size
<1> DEFINE size == h[p].size
           r == InUse(size)
           w == Write(h, p, r)
           e == p + size
           g == set_pinuse(w, e)
           D == DOMAIN h
<1>1. size \in Nat \ {0} /\ p \in Nat BY TileFacts
<1>2. r \in Header /\ r.size = size /\ r.cinuse /\ r.pinuse /\ r.prev_foot = 0 BY <1>1, InUseIs
<1>3. Headers(h) BY DEF Tile
<1>4. e \in D /\ e \in UsedIn(h) /\ p \in PinIn(h) /\ size >= MIN_CHUNK_SIZE /\ p < e
      /\ (\A q \in D : q \in p .. e - 1 => q = p) /\ (\A q \in D : q \in Nat)
  BY <1>1, TileFacts, Parts, Alone
<1>5. Left(h, p, size) = D BY Alone
<1> HIDE DEF r
<1>6. /\ Headers(w) /\ DOMAIN w = D /\ w[p] = r
      /\ \A q \in D \ {p} : w[q] = h[q] /\ (q \in UsedIn(w) <=> q \in UsedIn(h)) /\ (q \in PinIn(w) <=> q \in PinIn(h))
      /\ p \in UsedIn(w) /\ p \in PinIn(w)
  BY <1>1, <1>2, <1>3, <1>5, WriteIs
<1> HIDE DEF w
<1>7. /\ Headers(g) /\ DOMAIN g = D /\ UsedIn(g) = UsedIn(w)
      /\ \A q \in D : g[q].size = w[q].size /\ (q \in PinIn(g) <=> q \in PinIn(w) \/ q = e)
      /\ \A q \in D \ {e} : g[q] = w[q]
  <2> HIDE DEF e
  <2> QED BY <1>6, PinuseIs
<1>8. g = set_inuse_and_pinuse(h, p, size) BY DEF set_inuse_and_pinuse, w, r
<1> HIDE DEF g, size, e, D
<1>9. Same(h, g, p, e)
  <2>1. p \in PinIn(g) BY <1>4, <1>6, <1>7 DEF D
  <2>2. \A q \in D : q \in p .. e - 1 \/ q # p BY <1>1, <1>4
  <2> QED BY <1>1, <1>4, <1>6, <1>7, <2>1, <2>2 DEF Same, D
<1>10. p \in p .. e - 1 /\ g[p].size = size /\ p \in UsedIn(g) /\ e \in PinIn(g) /\ p + size = e
  BY <1>1, <1>2, <1>4, <1>6, <1>7 DEF D, e
<1>11. Run(g, top, p, e)
  <2>1. \A q \in D : q \in p .. e - 1 => q = p BY <1>4
  <2>2. p < p => FALSE BY <1>1
  <2> HIDE DEF size
  <2>3. \A q \in D \ {top} : q \in p .. e - 1 =>
          /\ g[q].size >= MIN_CHUNK_SIZE
          /\ q + g[q].size \in D /\ q + g[q].size =< e
          /\ q + g[q].size \in PinIn(g) <=> q \in UsedIn(g)
          /\ q \notin UsedIn(g) => g[q + g[q].size].prev_foot = g[q].size
    BY <1>1, <1>4, <1>10
  <2> QED BY <1>7, <1>10, <2>1, <2>2, <2>3 DEF Run
<1>12. Tile(g, top, end)
  <2>1. e \in DOMAIN h /\ p \in DOMAIN g /\ p + g[p].size = e BY <1>4, <1>7, <1>10 DEF D
  <2> QED BY <1>4, <1>9, <1>10, <1>11, <2>1, Retile
<1>13. UsedIn(g) = UsedIn(h) \cup {p}
  <2>1. UsedIn(h) \subseteq D /\ UsedIn(w) \subseteq D BY <1>6, Parts DEF D
  <2> QED BY <1>6, <1>7, <2>1
<1>14. \A q \in D : g[q].size = h[q].size
  <2>1. \A q \in D \ {p} : g[q].size = h[q].size BY <1>6, <1>7
  <2> QED BY <1>10, <2>1 DEF size
<1> QED BY <1>7, <1>8, <1>12, <1>13, <1>14 DEF D, size

-----------------------------------------------------------------------------
(* A free chunk, or top, is split.                                         *)

\* The chunk p is used up to b, and free from b to e.
DidSplit(h, g, p, b, e) ==
  /\ Headers(g) /\ DOMAIN g = DOMAIN h \cup {b} /\ b \notin DOMAIN h /\ g[e].prev_foot = e - b
  /\ p \in UsedIn(g) /\ p \in PinIn(g) /\ g[p].size = b - p
  /\ b \notin UsedIn(g) /\ b \in PinIn(g) /\ g[b].size = e - b
  /\ \A q \in DOMAIN h \ {p} :
       /\ g[q].size = h[q].size /\ (q \in UsedIn(g) <=> q \in UsedIn(h))
       /\ q \in PinIn(g) <=> q \in PinIn(h)
       /\ q # e => g[q].prev_foot = h[q].prev_foot

\* Two headers and a foot split the run from p to e at b, the upper part free.
LEMMA SplitIs ==
  ASSUME NEW h, Headers(h), NEW p \in Nat, NEW nb \in Nat \ {0}, NEW rest \in Nat \ {0}, NEW D, D = DOMAIN h,
         p \in D, D = Left(h, p, nb), NEW b, b = p + nb, NEW e, e = b + rest, \A q \in D : q \notin b .. e - 1,
         e \in D
  PROVE  DidSplit(h, set_size_and_pinuse_of_free_chunk(set_size_and_pinuse_of_inuse_chunk(h, p, nb), b, rest), p, b, e)
<1> DEFINE w == Write(h, p, InUse(nb))
           x == Write(w, b, Unused(rest))
           g == set_foot(x, b, rest)
           E == D \cup {b}
<1>1. b \in Nat /\ e \in Nat /\ b < e BY SMT
<1>2. b \notin D BY <1>1
<1>6. /\ Headers(w) /\ DOMAIN w = D /\ w[p].size = nb
      /\ \A q \in D \ {p} : w[q] = h[q]
      /\ \A q \in D \ {p} : (q \in UsedIn(w) <=> q \in UsedIn(h)) /\ (q \in PinIn(w) <=> q \in PinIn(h))
      /\ p \in UsedIn(w) /\ p \in PinIn(w)
  <2>1. Wrote(h, w, p, nb) /\ p \in UsedIn(w) BY WriteUsed, Zenon
  <2> HIDE DEF w
  <2> QED BY <2>1 DEF Wrote
<1> HIDE DEF w
<1>16. E = Left(w, b, rest) BY <1>6 DEF Left
<1>17. \A q \in D : q \in E \ {b} /\ q # b BY <1>2
<1> HIDE DEF E
<1>18. /\ Headers(x) /\ DOMAIN x = E /\ b \in E /\ x[b].size = rest
       /\ \A q \in E \ {b} : x[q] = w[q] /\ q \in D
       /\ \A q \in E \ {b} : (q \in UsedIn(x) <=> q \in UsedIn(w)) /\ (q \in PinIn(x) <=> q \in PinIn(w))
       /\ b \notin UsedIn(x) /\ b \in PinIn(x)
  <2>1. Wrote(w, x, b, rest) /\ b \notin UsedIn(x) BY <1>1, <1>6, WriteUnused, Zenon
  <2> HIDE DEF x
  <2>2. DOMAIN x = E BY <1>16, <2>1 DEF Wrote
  <2> QED BY <1>6, <2>1, <2>2 DEF Wrote
<1> HIDE DEF x
<1>7. /\ Headers(g) /\ DOMAIN g = E /\ UsedIn(g) = UsedIn(x) /\ PinIn(g) = PinIn(x)
      /\ \A q \in E : g[q].size = x[q].size
      /\ \A q \in E \ {e} : g[q] = x[q]
      /\ g[e].prev_foot = rest
  <2>1. e \in E BY <1>17
  <2> QED BY <1>18, <2>1, FootIs
<1>8. g = set_size_and_pinuse_of_free_chunk(set_size_and_pinuse_of_inuse_chunk(h, p, nb), b, rest)
  BY DEF set_size_and_pinuse_of_free_chunk, set_size_and_pinuse_of_inuse_chunk, w, x
<1> HIDE DEF g
<1>20. /\ p \in UsedIn(g) /\ p \in PinIn(g) /\ g[p].size = nb
       /\ b \notin UsedIn(g) /\ b \in PinIn(g) /\ g[b].size = rest
  <2>1. p \in E \ {b} BY <1>17
  <2>2. g[p].size = x[p].size /\ x[p] = w[p] /\ g[b].size = x[b].size BY <1>7, <1>18, <2>1
  <2> QED BY <1>6, <1>7, <1>18, <2>1, <2>2
<1>21. ASSUME NEW q \in D \ {p}
       PROVE  /\ g[q].size = h[q].size /\ (q \in UsedIn(g) <=> q \in UsedIn(h))
              /\ q \in PinIn(g) <=> q \in PinIn(h)
              /\ q # e => g[q].prev_foot = h[q].prev_foot
  <2>1. q \in E \ {b} BY <1>17
  <2>2. w[q] = h[q] /\ x[q] = w[q] BY <1>6, <1>18, <2>1
  <2>3. q \in UsedIn(g) <=> q \in UsedIn(h) BY <1>6, <1>7, <1>18, <2>1
  <2>4. q \in PinIn(g) <=> q \in PinIn(h) BY <1>6, <1>7, <1>18, <2>1
  <2>5. g[q].size = h[q].size BY <1>7, <2>1, <2>2
  <2>6. q # e => g[q].prev_foot = h[q].prev_foot BY <1>7, <2>1, <2>2
  <2> QED BY <2>3, <2>4, <2>5, <2>6
<1>22. DOMAIN g = D \cup {b} BY <1>7 DEF E
<1>23. rest = e - b /\ nb = b - p BY <1>1
<1> QED BY <1>2, <1>7, <1>8, <1>20, <1>21, <1>22, <1>23 DEF DidSplit

SplitOf(h, g, top, end, p, b, nb, rest) ==
  /\ Tile(g, top, end) /\ b \notin DOMAIN h
  /\ DOMAIN g = DOMAIN h \cup {b} /\ UsedIn(g) = UsedIn(h) \cup {p}
  /\ g[p].size = nb /\ g[b].size = rest
  /\ \A q \in DOMAIN h \ {p} : g[q].size = h[q].size

\* Splitting keeps the row of chunks.
LEMMA UseSplit ==
  ASSUME NEW h, NEW top, NEW end, Tile(h, top, end), NEW p \in DOMAIN h, p # top, p \notin UsedIn(h),
         NEW nb \in Nat, NEW rest \in Nat, nb >= MIN_CHUNK_SIZE, rest >= MIN_CHUNK_SIZE, nb + rest = h[p].size
  PROVE  SplitOf(h, set_size_and_pinuse_of_free_chunk(set_size_and_pinuse_of_inuse_chunk(h, p, nb), p + nb, rest),
                 top, end, p, p + nb, nb, rest)
<1> DEFINE size == h[p].size
           b == p + nb
           e == p + size
           g == set_size_and_pinuse_of_free_chunk(set_size_and_pinuse_of_inuse_chunk(h, p, nb), b, rest)
           D == DOMAIN h
           E == D \cup {b}
<1>1. /\ size \in Nat \ {0} /\ p \in Nat /\ nb \in Nat \ {0} /\ rest \in Nat \ {0} /\ b \in Nat
      /\ p < b /\ b < e /\ b + rest = e /\ nb \in 1 .. size
  BY TileFacts DEF MIN_CHUNK_SIZE
<1>3. Headers(h) BY DEF Tile
<1>4. e \in D /\ e \in UsedIn(h) /\ e \notin PinIn(h) /\ p \in PinIn(h)
      /\ (\A q \in D : q \in p .. e - 1 => q = p) /\ (\A q \in D : q \in Nat) /\ e =< top /\ top \in Nat
  BY <1>1, TileFacts, Parts, Alone
<1>5. Left(h, p, nb) = D BY <1>1, Alone
<1>6. p \in D OBVIOUS
<1>10. b = p + nb OBVIOUS
<1> HIDE DEF size, e, D, g, b
<1>15. \A q \in D : q \notin b .. e - 1 BY <1>1, <1>4
<1>7. /\ Headers(g) /\ DOMAIN g = D \cup {b} /\ b \notin D /\ g[e].prev_foot = rest
      /\ p \in UsedIn(g) /\ p \in PinIn(g) /\ g[p].size = nb
      /\ b \notin UsedIn(g) /\ b \in PinIn(g) /\ g[b].size = rest
      /\ \A q \in D \ {p} :
           /\ g[q].size = h[q].size /\ (q \in UsedIn(g) <=> q \in UsedIn(h))
           /\ q \in PinIn(g) <=> q \in PinIn(h)
           /\ q # e => g[q].prev_foot = h[q].prev_foot
  <2>1. e = b + rest BY <1>1
  <2>2. D = Left(h, p, nb) /\ D = DOMAIN h BY <1>5 DEF D
  <2>3. DidSplit(h, g, p, b, e) BY <1>1, <1>3, <1>4, <1>6, <1>10, <1>15, <2>1, <2>2, SplitIs, Zenon DEF g
  <2>4. rest = e - b /\ nb = b - p BY <1>1, <1>10
  <2> QED BY <2>2, <2>3, <2>4 DEF DidSplit
<1>8. g = set_size_and_pinuse_of_free_chunk(set_size_and_pinuse_of_inuse_chunk(h, p, nb), p + nb, rest) BY DEF g, b
<1>20. /\ p \in E /\ p \in UsedIn(g) /\ p \in PinIn(g) /\ g[p].size = nb
       /\ b \in E /\ b \notin UsedIn(g) /\ b \in PinIn(g) /\ g[b].size = rest
  BY <1>6, <1>7
<1>21. ASSUME NEW q \in D, q # p
       PROVE  /\ q \in E /\ g[q].size = h[q].size /\ (q \in UsedIn(g) <=> q \in UsedIn(h))
              /\ q \in PinIn(g) <=> q \in PinIn(h)
              /\ q # e => g[q].prev_foot = h[q].prev_foot
  BY <1>7, <1>21
<1>19. DOMAIN g = E BY <1>7
<1>22. e \notin PinIn(g) /\ p # e BY <1>1, <1>4, <1>21
<1>23. \A q \in E : q \in D \/ q = b OBVIOUS
<1> HIDE DEF E
<1>24. \A q \in E : q \in p .. e - 1 => q = p \/ q = b BY <1>4, <1>23
<1>9. Same(h, g, p, e)
  <2>1. \A q \in D : q \in p .. e - 1 \/ q # p BY <1>1, <1>4
  <2>2. \A q \in E : q \in p .. e - 1 \/ q \in D BY <1>1, <1>23
  <2> QED BY <1>4, <1>7, <1>19, <1>20, <1>21, <2>1, <2>2 DEF Same, D
<1>25. e \in E BY <1>4, <1>22, <1>21
<1>11. Run(g, top, p, e)
  <2>1. ASSUME NEW q \in E \ {top}, q \in p .. e - 1
        PROVE   /\ g[q].size >= MIN_CHUNK_SIZE
                /\ q + g[q].size \in E /\ q + g[q].size =< e
                /\ q + g[q].size \in PinIn(g) <=> q \in UsedIn(g)
                /\ q \notin UsedIn(g) => g[q + g[q].size].prev_foot = g[q].size
    <3>1. CASE q = p
      <4>1. p + g[p].size = b BY <1>20 DEF b
      <4> QED BY <1>1, <1>20, <3>1, <4>1
    <3>2. CASE q = b
      <4>1. b + g[b].size = e BY <1>1, <1>20
      <4> QED BY <1>1, <1>7, <1>19, <1>20, <1>22, <1>25, <3>2, <4>1
    <3> QED BY <1>24, <2>1, <3>1, <3>2
  <2>2. \A q \in E \ {p} : q \in p .. e - 1 => q \in PinIn(g) BY <1>20, <1>24
  <2>3. ASSUME NEW q \in E, NEW z \in E, q \in p .. e - 1, z \in p .. e - 1, q < z PROVE q + g[q].size =< z
    <3>1. q = p /\ z = b BY <1>1, <1>24, <2>3
    <3>2. p + g[p].size = b BY <1>20 DEF b
    <3> QED BY <1>1, <3>1, <3>2
  <2> QED BY <1>7, <1>19, <1>20, <2>1, <2>2, <2>3 DEF Run
<1>12. Tile(g, top, end)
  <2>1. e \in DOMAIN h /\ b \in DOMAIN g /\ b + g[b].size = e /\ p < e /\ b \in p .. e - 1 BY <1>1, <1>4, <1>7, <1>19, <1>20 DEF D
  <2> QED BY <1>4, <1>9, <1>11, <2>1, Retile
<1>13. UsedIn(g) = UsedIn(h) \cup {p}
  <2>1. UsedIn(h) \subseteq D /\ UsedIn(g) \subseteq E BY <1>19, Parts DEF D
  <2>2. \A q \in UsedIn(g) : q \in UsedIn(h) \/ q = p BY <1>20, <1>21, <1>23, <2>1
  <2>3. \A q \in UsedIn(h) : q \in UsedIn(g) BY <1>20, <1>21, <2>1
  <2> QED BY <1>20, <2>2, <2>3
<1>14. b < top /\ b \notin D /\ DOMAIN g = D \cup {b} BY <1>1, <1>4, <1>7, <1>15 DEF E
<1>26. SplitOf(h, g, top, end, p, b, nb, rest) BY <1>12, <1>13, <1>14, <1>20, <1>21 DEF SplitOf, D
<1> QED BY <1>8, <1>26 DEF b

\* The top of a heap gives its first nb units, the rest from b on is top.
TopSplit(h, g, top, end, nb, b) ==
  /\ Tile(g, b, end) /\ b \notin DOMAIN h
  /\ DOMAIN g = DOMAIN h \cup {b} /\ UsedIn(g) = UsedIn(h) \cup {top}
  /\ g[top].size = nb /\ g[b].size = h[top].size - nb
  /\ \A q \in DOMAIN h \ {top} : g[q].size = h[q].size

\* So does splitting top.
LEMMA UseTop ==
  ASSUME NEW h, NEW top, NEW end, Tile(h, top, end), NEW nb \in Nat, nb >= MIN_CHUNK_SIZE, nb < h[top].size
  PROVE  TopSplit(h, Write(set_size_and_pinuse_of_inuse_chunk(h, top, nb), top + nb, Unused(h[top].size - nb)),
                  top, end, nb, top + nb)
<1> DEFINE size == h[top].size
           rest == size - nb
           r == InUse(nb)
           w == Write(h, top, r)
           b == top + nb
           s == Unused(rest)
           e == top + size
           g == Write(w, b, s)
           D == DOMAIN h
           E == D \cup {b}
<1>1. /\ size \in Nat \ {0} /\ top \in Nat /\ nb \in Nat \ {0} /\ rest \in Nat \ {0} /\ b \in Nat
      /\ top < b /\ b < e /\ b + rest = e /\ nb \in 1 .. size /\ e \in Nat
  BY TileFacts DEF MIN_CHUNK_SIZE
<1>2. /\ r \in Header /\ r.size = nb /\ r.cinuse /\ r.pinuse
      /\ s \in Header /\ s.size = rest /\ ~s.cinuse /\ s.pinuse
  BY <1>1, InUseIs, UnusedIs
<1>3. Headers(h) BY DEF Tile
<1>4. /\ top \in D /\ top \in PinIn(h) /\ (\A q \in D : q \in Nat /\ q =< top)
      /\ end = e
  BY TileFacts DEF Tile
<1>5. Left(h, top, nb) = D BY <1>1, <1>4, Alone
<1> HIDE DEF r, s, size, rest
<1>6. /\ Headers(w) /\ DOMAIN w = D /\ w[top].size = nb
      /\ \A q \in D \ {top} : w[q] = h[q] /\ (q \in UsedIn(w) <=> q \in UsedIn(h)) /\ (q \in PinIn(w) <=> q \in PinIn(h))
      /\ top \in UsedIn(w) /\ top \in PinIn(w)
  <2>1. Wrote(h, w, top, nb) /\ top \in UsedIn(w) BY <1>1, <1>3, WriteUsed, Zenon DEF r
  <2> HIDE DEF w, D
  <2> QED BY <1>5, <2>1 DEF Wrote
<1> HIDE DEF w
<1>15. b \notin D BY <1>1, <1>4
<1>16. Left(w, b, rest) = E
  <2>1. \A q \in D : q \notin b .. b + rest - 1 BY <1>1, <1>4
  <2> QED BY <1>6, <2>1 DEF Left
<1> HIDE DEF E
<1>17. \A q \in D : q \in E \ {b} /\ q # b BY <1>15 DEF E
<1>18. /\ Headers(g) /\ DOMAIN g = E /\ b \in E /\ g[b] = s
       /\ \A q \in E \ {b} : g[q] = w[q] /\ q \in D
       /\ \A q \in E \ {b} : (q \in UsedIn(g) <=> q \in UsedIn(w)) /\ (q \in PinIn(g) <=> q \in PinIn(w))
       /\ b \notin UsedIn(g) /\ b \in PinIn(g)
  <2> HIDE DEF b, D
  <2>1. Left(w, b, s.size) = E /\ b \in Nat /\ s \in Header /\ Headers(w) BY <1>1, <1>2, <1>6, <1>16
  <2>2. \A q \in D : q \in DOMAIN w BY <1>6
  <2>3. Written(w, Write(w, b, s), b, s, Left(w, b, s.size)) BY <2>1, WrittenIs, Zenon
  <2>4. g = Write(w, b, s) OBVIOUS
  <2>5. Written(w, g, b, s, E) BY <2>1, <2>3, <2>4
  <2> HIDE DEF g
  <2>6. \A q \in E \ {b} : q \in D BY <1>6, <2>5 DEF Written
  <2> QED BY <1>2, <2>5, <2>6 DEF Written
<1>8. g = Write(set_size_and_pinuse_of_inuse_chunk(h, top, nb), top + nb, Unused(h[top].size - nb))
  BY DEF set_size_and_pinuse_of_inuse_chunk, w, r, s, b, rest, size
<1> HIDE DEF g, e, D, b
<1>20. /\ top \in E /\ top \in UsedIn(g) /\ top \in PinIn(g) /\ g[top].size = nb
       /\ b \in E /\ b \notin UsedIn(g) /\ b \in PinIn(g) /\ g[b].size = rest
  <2>1. top \in E \ {b} BY <1>4, <1>17
  <2> QED BY <1>2, <1>6, <1>18, <2>1
<1>21. ASSUME NEW q \in D, q # top
       PROVE  /\ q \in E /\ g[q].size = h[q].size /\ (q \in UsedIn(g) <=> q \in UsedIn(h))
              /\ q \in PinIn(g) <=> q \in PinIn(h)
              /\ g[q].prev_foot = h[q].prev_foot
  <2>1. q \in E \ {b} BY <1>17
  <2>2. w[q] = h[q] /\ g[q] = w[q] BY <1>6, <1>18, <1>21, <2>1
  <2>3. q \in UsedIn(g) <=> q \in UsedIn(h) BY <1>6, <1>18, <1>21, <2>1
  <2>4. q \in PinIn(g) <=> q \in PinIn(h) BY <1>6, <1>18, <1>21, <2>1
  <2> QED BY <2>1, <2>2, <2>3, <2>4
<1>23. \A q \in E : q \in D \/ q = b BY DEF E
<1>24. \A q \in E : q \in top .. e - 1 => q = top \/ q = b BY <1>1, <1>4, <1>23
<1>9. Same(h, g, top, e)
  <2>1. \A q \in D : q \in top .. e - 1 \/ q # top BY <1>1, <1>4
  <2>2. \A q \in E : q \in top .. e - 1 \/ q \in D BY <1>1, <1>23
  <2> QED BY <1>4, <1>18, <1>20, <1>21, <2>1, <2>2 DEF Same, D
<1>11. Run(g, b, top, e)
  <2>1. ASSUME NEW q \in E \ {b}, q \in top .. e - 1
        PROVE   /\ g[q].size >= MIN_CHUNK_SIZE
                /\ q + g[q].size \in E /\ q + g[q].size =< e
                /\ q + g[q].size \in PinIn(g) <=> q \in UsedIn(g)
                /\ q \notin UsedIn(g) => g[q + g[q].size].prev_foot = g[q].size
    <3>1. q = top BY <1>24, <2>1
    <3>2. top + g[top].size = b BY <1>20 DEF b
    <3> QED BY <1>1, <1>20, <3>1, <3>2
  <2>2. \A q \in E \ {top} : q \in top .. e - 1 => q \in PinIn(g) BY <1>20, <1>24
  <2>3. ASSUME NEW q \in E, NEW z \in E, q \in top .. e - 1, z \in top .. e - 1, q < z PROVE q + g[q].size =< z
    <3>1. q = top /\ z = b BY <1>1, <1>24, <2>3
    <3>2. top + g[top].size = b BY <1>20 DEF b
    <3> QED BY <1>1, <3>1, <3>2
  <2> QED BY <1>18, <1>20, <2>1, <2>2, <2>3 DEF Run
<1>12. Tile(g, b, end)
  <2>1. (\A q \in DOMAIN h : q < e) /\ top \in DOMAIN h BY <1>1, <1>4 DEF D
  <2>5. DOMAIN g = E /\ b \in E BY <1>18
  <2>6. ASSUME NEW q \in E PROVE q < e /\ q =< b
    <3>1. CASE q = b BY <1>1, <3>1
    <3>2. CASE q # b
      <4>1. q \in Nat /\ q =< top BY <1>4, <1>23, <3>2
      <4> QED BY <1>1, <4>1
    <3> QED BY <3>1, <3>2
  <2>7. b >= top BY <1>1
  <2>2. (\A q \in DOMAIN g : q < e /\ q =< b) /\ b \in DOMAIN g /\ b >= top BY <2>5, <2>6, <2>7
  <2>3. b + g[b].size = end BY <1>1, <1>4, <1>20
  <2>4. Tile(g, b, b + g[b].size) BY <1>1, <1>9, <1>11, <1>20, <2>1, <2>2, Retop
  <2> QED BY <2>3, <2>4
<1>13. UsedIn(g) = UsedIn(h) \cup {top}
  <2>1. UsedIn(h) \subseteq D /\ UsedIn(g) \subseteq E BY <1>18, Parts DEF D
  <2>2. \A q \in UsedIn(g) : q \in UsedIn(h) \/ q = top BY <1>20, <1>21, <1>23, <2>1
  <2>3. \A q \in UsedIn(h) : q \in UsedIn(g) BY <1>20, <1>21, <2>1
  <2> QED BY <1>20, <2>2, <2>3
<1>14. b \notin D /\ DOMAIN g = D \cup {b} BY <1>15, <1>18 DEF E
<1>27. TopSplit(h, g, top, end, nb, b)
  BY <1>12, <1>13, <1>14, <1>20, <1>21 DEF TopSplit, D, rest, size
<1> QED BY <1>8, <1>27 DEF b

-----------------------------------------------------------------------------
(* Top is moved or resized, chunks are joined to a free one.               *)

\* Top from a on, of any size, whatever chunks were there before.
LEMMA TopFrom ==
  ASSUME NEW h, NEW top, NEW end, Tile(h, top, end), NEW a \in DOMAIN h, a \in PinIn(h), NEW size \in Nat \ {0},
         \A q \in DOMAIN h : q < a + size
  PROVE  LET g == Write(h, a, Unused(size))
         IN  /\ Tile(g, a, a + size) /\ g[a].size = size
             /\ \A q : q \in DOMAIN g <=> q \in DOMAIN h /\ q =< a
             /\ \A q : q \in UsedIn(g) <=> q \in UsedIn(h) /\ q < a
             /\ \A q \in DOMAIN h : q < a => g[q].size = h[q].size
<1> DEFINE g == Write(h, a, Unused(size))
           e == a + size
           L == Left(h, a, size)
<1>1. Headers(h) BY DEF Tile
<1>2. (\A q \in DOMAIN h : q \in Nat) /\ a \in Nat /\ e \in Nat /\ a < e BY TileFacts
<1>3. Wrote(h, g, a, size) /\ a \notin UsedIn(g) BY <1>1, <1>2, WriteUnused, Zenon
<1> HIDE DEF g
<1>4. /\ Headers(g) /\ DOMAIN g = L /\ a \in L /\ g[a].size = size /\ a \in PinIn(g)
      /\ \A q \in L \ {a} :
           /\ q \in DOMAIN h /\ g[q] = h[q]
           /\ (q \in UsedIn(g) <=> q \in UsedIn(h)) /\ (q \in PinIn(g) <=> q \in PinIn(h))
  BY <1>3 DEF Wrote
<1>5. \A q : q \in L <=> q = a \/ (q \in DOMAIN h /\ q < a)
  <2>1. ASSUME NEW q \in DOMAIN h PROVE q \in a .. a + size - 1 <=> q >= a BY <1>2
  <2> QED BY <1>2, <2>1 DEF Left
<1>6. \A q \in DOMAIN h : q < e OBVIOUS
<1> HIDE DEF L, e
<1>7. \A q \in DOMAIN g : q < e /\ q =< a /\ (q \in a .. e - 1 => q = a) BY <1>2, <1>4, <1>5
<1>8. Same(h, g, a, e)
  <2>1. ASSUME NEW q \in DOMAIN h \ a .. e - 1 PROVE q \in L \ {a}
    <3>1. q < a BY <1>2, <1>6
    <3> QED BY <1>2, <1>5, <3>1
  <2>2. \A q \in DOMAIN g \ a .. e - 1 : q \in DOMAIN h BY <1>4, <1>5
  <2> QED BY <1>4, <2>1, <2>2 DEF Same
<1>9. Run(g, a, a, e)
  <2>1. \A p, q \in DOMAIN g : p \in a .. e - 1 /\ q \in a .. e - 1 /\ p < q => FALSE BY <1>2, <1>7
  <2> QED BY <1>4, <1>7, <2>1 DEF Run
<1>10. a >= a BY <1>2
<1>11. Tile(g, a, a + g[a].size)
  BY <1>2, <1>3, <1>4, <1>6, <1>7, <1>8, <1>9, <1>10, Retop
<1>12. \A q : q \in DOMAIN g <=> q \in DOMAIN h /\ q =< a
  <2> TAKE q
  <2>1. q \in DOMAIN h => (q =< a <=> q = a \/ q < a) BY <1>2
  <2> QED BY <1>4, <1>5, <2>1
<1>13. \A q : q \in UsedIn(g) <=> q \in UsedIn(h) /\ q < a
  <2> TAKE q
  <2>1. UsedIn(g) \subseteq L /\ UsedIn(h) \subseteq DOMAIN h BY <1>4, Parts
  <2>2. q \in DOMAIN h /\ q < a => q \in L \ {a} BY <1>2, <1>5
  <2>3. q \in L /\ q # a => q \in DOMAIN h /\ q < a BY <1>5
  <2> QED BY <1>3, <1>4, <2>1, <2>2, <2>3
<1>14. \A q \in DOMAIN h : q < a => g[q].size = h[q].size
  <2>1. \A q \in DOMAIN h : q < a => q \in L \ {a} BY <1>2, <1>5
  <2> QED BY <1>4, <2>1
<1> QED BY <1>4, <1>11, <1>12, <1>13, <1>14 DEF g

\* The first memory of the heap is all top.
LEMMA FirstTop ==
  ASSUME NEW size \in Nat \ {0}, NEW h, DOMAIN h = {}
  PROVE  LET g == Write(h, 0, Unused(size))
         IN  Tile(g, 0, size) /\ g[0].size = size /\ DOMAIN g = {0} /\ UsedIn(g) = {}
<1> DEFINE g == Write(h, 0, Unused(size))
<1>1. Headers(h) BY DEF Headers
<1>2. Wrote(h, g, 0, size) /\ 0 \notin UsedIn(g) BY <1>1, WriteUnused
<1> HIDE DEF g
<1>3. DOMAIN g = {0}
  <2>1. Left(h, 0, size) = {0} BY DEF Left
  <2> QED BY <1>2, <2>1 DEF Wrote
<1>4. Headers(g) /\ g[0].size = size /\ 0 \in PinIn(g) BY <1>2 DEF Wrote
<1>5. UsedIn(g) = {} BY <1>2, <1>3, Parts
<1>6. FreeIn(g) = {0} /\ FreeIn(g) \subseteq PinIn(g) BY <1>3, <1>4, <1>5 DEF FreeIn
<1>7. \A p, q \in DOMAIN g : p < q => FALSE BY <1>3
<1>8. (\A p \in DOMAIN g : p =< 0) /\ DOMAIN g \ {0} = {} /\ DOMAIN g \ PinIn(g) = {} /\ 0 + g[0].size = size
  BY <1>3, <1>4
<1> QED BY <1>3, <1>4, <1>5, <1>6, <1>7, <1>8 DEF Tile, g

\* The chunks from p to e become a free one.
Freed(h, g, p, e) ==
  /\ \A q : q \in DOMAIN g <=> q \in DOMAIN h /\ (q = p \/ q \notin p .. e - 1)
  /\ \A q : q \in UsedIn(g) <=> q \in UsedIn(h) /\ q \notin p .. e - 1
  /\ g[p].size = e - p
  /\ \A q \in DOMAIN h \ p .. e - 1 : g[q].size = h[q].size

Cleared(h, k, n) ==
  /\ Headers(k) /\ DOMAIN k = DOMAIN h /\ UsedIn(k) = UsedIn(h) /\ PinIn(k) = PinIn(h) \ {n}
  /\ \A q \in DOMAIN h : k[q].size = h[q].size
  /\ \A q \in DOMAIN h \ {n} : k[q] = h[q]

\* Clearing pinuse, by its effect.
LEMMA ClearedIs ==
  ASSUME NEW h, Headers(h), NEW n \in DOMAIN h
  PROVE  Cleared(h, [h EXCEPT ![n].pinuse = FALSE], n)
BY ClearIs DEF Cleared

\* The chunks from p to e are one free chunk.
LEMMA FreeRun ==
  ASSUME NEW h, NEW top, NEW end, Tile(h, top, end), NEW p \in DOMAIN h, p \in PinIn(h),
         NEW e \in DOMAIN h, p < e, e \in UsedIn(h),
         NEW k, (k = h /\ e \notin PinIn(h)) \/ k = [h EXCEPT ![e].pinuse = FALSE]
  PROVE  LET g == set_size_and_pinuse_of_free_chunk(k, p, e - p)
         IN  Tile(g, top, end) /\ Freed(h, g, p, e)
<1> DEFINE size == e - p
           w == Write(k, p, Unused(size))
           g == set_foot(w, p, size)
           D == DOMAIN h
           L == Left(h, p, size)
<1>1. /\ \A q \in D : q \in Nat /\ h[q].size \in Nat
      /\ p \in Nat /\ e \in Nat /\ size \in Nat \ {0} /\ p + size = e
      /\ Headers(h) /\ p # top
  <2>1. (\A q \in D : q \in Nat /\ h[q].size \in Nat /\ q =< top) /\ top \in Nat BY TileFacts DEF Tile
  <2> QED BY <2>1 DEF Tile
<1> HIDE DEF size
<1>2. /\ Headers(k) /\ DOMAIN k = D /\ UsedIn(k) = UsedIn(h) /\ PinIn(k) = PinIn(h) \ {e}
      /\ \A q \in D : k[q].size = h[q].size
      /\ \A q \in D \ {e} : k[q] = h[q]
  <2>1. CASE k = h /\ e \notin PinIn(h) BY <1>1, <2>1
  <2>2. CASE k = [h EXCEPT ![e].pinuse = FALSE]
    <3>1. Cleared(h, [h EXCEPT ![e].pinuse = FALSE], e) BY <1>1, ClearedIs, Zenon
    <3>2. Cleared(h, k, e) BY <2>2, <3>1, Zenon
    <3> QED BY <3>2 DEF Cleared
  <2> QED BY <2>1, <2>2
<1>3. Wrote(k, w, p, size) /\ p \notin UsedIn(w) BY <1>1, <1>2, WriteUnused, Zenon
<1>4. Left(k, p, size) = L BY <1>2 DEF Left
<1> HIDE DEF w
<1>5. /\ Headers(w) /\ DOMAIN w = L /\ p \in L /\ w[p].size = size /\ p \in PinIn(w)
      /\ \A q \in L \ {p} :
           /\ q \in D /\ w[q] = k[q]
           /\ (q \in UsedIn(w) <=> q \in UsedIn(h)) /\ (q \in PinIn(w) <=> q \in PinIn(h) /\ q # e)
  <2>1. /\ DOMAIN w = L
        /\ \A q \in DOMAIN w \ {p} :
             /\ q \in DOMAIN k /\ w[q] = k[q]
             /\ (q \in UsedIn(w) <=> q \in UsedIn(k)) /\ (q \in PinIn(w) <=> q \in PinIn(k))
    BY <1>3, <1>4 DEF Wrote
  <2>2. Headers(w) /\ p \in DOMAIN w /\ w[p].size = size /\ p \in PinIn(w) BY <1>3 DEF Wrote
  <2> HIDE DEF L
  <2> QED BY <1>2, <2>1, <2>2
<1>6. /\ \A q : q \in L <=> q \in D /\ (q = p \/ q \notin p .. e - 1)
      /\ e \in L /\ e # p
  <2>1. \A q : q \in L <=> q \in D /\ (q = p \/ q \notin p .. e - 1) BY <1>1 DEF Left
  <2>2. e # p /\ e \notin p .. e - 1 BY <1>1
  <2> QED BY <2>1, <2>2
<1> HIDE DEF L
<1>7. /\ Headers(g) /\ DOMAIN g = L /\ UsedIn(g) = UsedIn(w) /\ PinIn(g) = PinIn(w)
      /\ \A q \in L : g[q].size = w[q].size
      /\ \A q \in L \ {e} : g[q] = w[q]
      /\ g[e].prev_foot = size
  <2>1. size \in Nat /\ p + size \in DOMAIN w /\ p + size = e BY <1>1, <1>5, <1>6
  <2> QED BY <1>5, <2>1, FootIs
<1>8. g = set_size_and_pinuse_of_free_chunk(k, p, e - p)
  BY DEF set_size_and_pinuse_of_free_chunk, w, size
<1> HIDE DEF g, D
<1>10. /\ p \in L /\ p \in PinIn(g) /\ p \notin UsedIn(g) /\ g[p].size = size
  BY <1>3, <1>5, <1>7
<1>11. ASSUME NEW q \in L, q # p
       PROVE  /\ q \in D /\ g[q].size = h[q].size /\ (q \in UsedIn(g) <=> q \in UsedIn(h))
              /\ q # e => (q \in PinIn(g) <=> q \in PinIn(h)) /\ g[q].prev_foot = h[q].prev_foot
  <2>1. q \in D /\ w[q] = k[q] /\ (q \in UsedIn(g) <=> q \in UsedIn(h)) /\ (q # e => (q \in PinIn(g) <=> q \in PinIn(h)))
    BY <1>5, <1>7, <1>11
  <2>2. g[q].size = h[q].size BY <1>2, <1>7, <2>1
  <2>3. q # e => g[q] = h[q] BY <1>2, <1>7, <2>1
  <2> QED BY <2>1, <2>2, <2>3
<1>12. e \notin PinIn(g) BY <1>5, <1>6, <1>7
<1>13. \A q \in L : q \in p .. e - 1 => q = p BY <1>6
<1>14. \A q \in D : q \in p .. e - 1 \/ (q \in L /\ q # p) BY <1>1, <1>6
<1>15. Same(h, g, p, e)
  <2>1. \A q \in L : q \in D BY <1>6
  <2>2. p \in PinIn(h) /\ DOMAIN g = L /\ Headers(g) BY <1>7
  <2> QED BY <1>10, <1>11, <1>14, <2>1, <2>2 DEF Same, D
<1>16. size >= MIN_CHUNK_SIZE
  <2>1. h[p].size >= MIN_CHUNK_SIZE /\ p + h[p].size =< e /\ h[p].size \in Nat BY <1>1, TileFacts DEF Tile, D
  <2> QED BY <1>1, <2>1 DEF MIN_CHUNK_SIZE
<1>17. Run(g, top, p, e)
  <2>1. p + g[p].size = e /\ e =< e BY <1>1, <1>10
  <2>2. \A x, y \in DOMAIN g : x \in p .. e - 1 /\ y \in p .. e - 1 /\ x < y => FALSE BY <1>1, <1>7, <1>13
  <2>3. e \in DOMAIN g /\ DOMAIN g = L BY <1>6, <1>7
  <2> QED BY <1>7, <1>10, <1>12, <1>13, <1>16, <2>1, <2>2, <2>3 DEF Run
<1>18. Tile(g, top, end)
  <2>1. p \in DOMAIN g /\ p \in p .. e - 1 /\ p + g[p].size = e BY <1>1, <1>7, <1>10
  <2> QED BY <1>15, <1>17, <2>1, Retile
<1>19. Freed(h, g, p, e)
  <2>1. \A q : q \in DOMAIN g <=> q \in D /\ (q = p \/ q \notin p .. e - 1) BY <1>6, <1>7
  <2>2. ASSUME NEW q PROVE q \in UsedIn(g) <=> q \in UsedIn(h) /\ q \notin p .. e - 1
    <3>1. (q \in UsedIn(g) => q \in L) /\ (q \in UsedIn(h) => q \in D) BY <1>7, Parts DEF D
    <3>2. CASE q \in L /\ q # p BY <1>11, <1>13, <3>2
    <3>3. CASE q = p
      <4>1. p \in p .. e - 1 BY <1>1
      <4> QED BY <1>10, <3>3, <4>1
    <3>4. CASE q \notin L BY <1>14, <3>1, <3>4
    <3> QED BY <3>2, <3>3, <3>4
  <2>3. g[p].size = e - p BY <1>10 DEF size
  <2>4. \A q \in D \ p .. e - 1 : g[q].size = h[q].size BY <1>11, <1>14
  <2> QED BY <2>1, <2>2, <2>3, <2>4 DEF Freed, D
<1> QED BY <1>8, <1>18, <1>19

-----------------------------------------------------------------------------
(* A used chunk is cut in two.                                             *)

\* What set_inuse does.
SetAt(h, g, p, size, junk) ==
  /\ Headers(g) /\ DOMAIN g = Left(h, p, size) /\ p \in UsedIn(g) /\ g[p].size = size
  /\ p \in DOMAIN h => (p \in PinIn(g) <=> p \in PinIn(h)) /\ g[p].prev_foot = h[p].prev_foot
  /\ p \notin DOMAIN h /\ junk => p \in PinIn(g)
  /\ \A q \in DOMAIN g \ {p} :
       /\ q \in DOMAIN h /\ g[q].size = h[q].size
       /\ q \in UsedIn(g) <=> q \in UsedIn(h)
       /\ q \in PinIn(g) <=> q \in PinIn(h) \/ q = p + size
       /\ q # p + size => g[q].prev_foot = h[q].prev_foot

\* set_inuse writes one chunk and tells the next one.
LEMMA SetInuseIs ==
  ASSUME NEW h, Headers(h), NEW p \in Nat, NEW size \in Nat \ {0}, NEW junk \in BOOLEAN
  PROVE  SetAt(h, set_inuse(h, p, size, junk), p, size, junk)
<1> DEFINE pin == IF p \in DOMAIN h THEN h[p].pinuse ELSE junk
           foot == IF p \in DOMAIN h THEN h[p].prev_foot ELSE 0
           r == [InUse(size) EXCEPT !.pinuse = pin, !.prev_foot = foot]
           w == Write(h, p, r)
           e == p + size
           g == set_pinuse(w, e)
           L == Left(h, p, size)
<1>1. g = set_inuse(h, p, size, junk) BY Zenon DEF set_inuse
<1>2. pin \in BOOLEAN /\ foot \in Nat
  <2>1. p \in DOMAIN h => h[p].pinuse \in BOOLEAN /\ h[p].prev_foot \in Nat BY DEF Headers, Header
  <2> QED BY <2>1
<1>3. p \in DOMAIN h => pin = h[p].pinuse /\ foot = h[p].prev_foot OBVIOUS
<1>4. p \notin DOMAIN h => pin = junk OBVIOUS
<1> HIDE DEF pin, foot
<1>6. r \in Header /\ r.size = size /\ r.cinuse = TRUE /\ r.pinuse = pin /\ r.prev_foot = foot
  BY <1>2 DEF InUse, Header
<1> HIDE DEF r
<1>7. /\ Headers(w) /\ DOMAIN w = L /\ p \in L /\ w[p] = r
      /\ \A q \in L \ {p} : w[q] = h[q] /\ q \in DOMAIN h
      /\ \A q \in L \ {p} : (q \in UsedIn(w) <=> q \in UsedIn(h)) /\ (q \in PinIn(w) <=> q \in PinIn(h))
      /\ p \in UsedIn(w)
      /\ p \in PinIn(w) <=> pin
  BY <1>6, WriteIs
<1> HIDE DEF w
<1>8. /\ Headers(g) /\ DOMAIN g = L /\ UsedIn(g) = UsedIn(w)
      /\ \A q \in L : g[q].size = w[q].size /\ (q \in PinIn(g) <=> q \in PinIn(w) \/ q = e)
      /\ \A q \in L \ {e} : g[q] = w[q]
  <2> HIDE DEF e, L
  <2> QED BY <1>7, PinuseIs
<1>9. p # e BY SMT
<1> HIDE DEF g, L, e
<1>10. g[p] = r /\ g[p].size = size /\ p \in UsedIn(g) /\ (p \in PinIn(g) <=> pin) /\ g[p].prev_foot = foot
  BY <1>6, <1>7, <1>8, <1>9
<1>11. p \in DOMAIN h => (p \in PinIn(g) <=> p \in PinIn(h)) /\ g[p].prev_foot = h[p].prev_foot
  BY <1>3, <1>10 DEF PinIn
<1>12. ASSUME NEW q \in L \ {p}
       PROVE  /\ q \in DOMAIN h /\ g[q].size = h[q].size
              /\ q \in UsedIn(g) <=> q \in UsedIn(h)
              /\ q \in PinIn(g) <=> q \in PinIn(h) \/ q = e
              /\ q # e => g[q].prev_foot = h[q].prev_foot
  BY <1>7, <1>8
<1> QED BY <1>1, <1>4, <1>8, <1>10, <1>11, <1>12 DEF SetAt, e, L

\* The chunk in use from p to e becomes two.
DidCut(h, g, p, b, e) ==
  /\ Headers(g) /\ DOMAIN g = DOMAIN h \cup {b} /\ b \notin DOMAIN h
  /\ p \in UsedIn(g) /\ b \in UsedIn(g) /\ b \in PinIn(g)
  /\ g[p].size = b - p /\ g[b].size = e - b
  /\ p \in PinIn(g) <=> p \in PinIn(h)
  /\ g[p].prev_foot = h[p].prev_foot
  /\ e \in PinIn(g)
  /\ \A q \in DOMAIN h \ {p} :
       /\ g[q].size = h[q].size /\ (q \in UsedIn(g) <=> q \in UsedIn(h))
       /\ q # e => (q \in PinIn(g) <=> q \in PinIn(h)) /\ g[q].prev_foot = h[q].prev_foot

\* A used chunk is cut from above, as before an aligned piece.
LEMMA CutUpper ==
  ASSUME NEW h, Headers(h), NEW p \in DOMAIN h, NEW b \in Nat, NEW e \in DOMAIN h, p < b, b < e,
         \A q \in DOMAIN h : q \in p .. e - 1 => q = p, NEW junk \in BOOLEAN
  PROVE  DidCut(h, set_inuse(set_inuse(h, b, e - b, junk), p, b - p, junk), p, b, e)
<1> DEFINE x == set_inuse(h, b, e - b, junk)
           g == set_inuse(x, p, b - p, junk)
           D == DOMAIN h
           E == D \cup {b}
           s == e - b
           k == b - p
<1>1. (\A q \in D : q \in Nat) /\ p \in Nat /\ e \in Nat BY DEF Headers
<1>2. s \in Nat \ {0} /\ k \in Nat \ {0} /\ b + s = e /\ p + k = b /\ b # p /\ b # e /\ p # e BY <1>1
<1>3. b \notin D /\ \A q \in D : q # b /\ q \notin b .. b + s - 1 BY <1>1, <1>2
<1>4. Left(h, b, s) = E BY <1>3 DEF Left
<1>5. SetAt(h, x, b, s, junk) BY <1>2, SetInuseIs, Zenon
<1> HIDE DEF x, D, s, k
<1>6. /\ Headers(x) /\ DOMAIN x = E /\ b \in UsedIn(x) /\ x[b].size = s
      /\ \A q \in D :
           /\ x[q].size = h[q].size
           /\ q \in UsedIn(x) <=> q \in UsedIn(h)
           /\ q \in PinIn(x) <=> q \in PinIn(h) \/ q = e
           /\ q # e => x[q].prev_foot = h[q].prev_foot
  <2>1. \A q \in D : q \in E \ {b} BY <1>3
  <2>2. DOMAIN x = E BY <1>4, <1>5 DEF SetAt
  <2>3. \A q \in DOMAIN x \ {b} :
             /\ x[q].size = h[q].size
             /\ q \in UsedIn(x) <=> q \in UsedIn(h)
             /\ q \in PinIn(x) <=> q \in PinIn(h) \/ q = b + s
             /\ q # b + s => x[q].prev_foot = h[q].prev_foot
    BY <1>5 DEF SetAt
  <2>4. Headers(x) /\ b \in UsedIn(x) /\ x[b].size = s BY <1>5 DEF SetAt
  <2> HIDE DEF E
  <2> QED BY <1>2, <2>1, <2>2, <2>3, <2>4
<1>7. Left(x, p, k) = E
  <2>1. \A q \in E : q \in p .. p + k - 1 => q = p
    <3>1. \A q \in D : q \in p .. p + k - 1 => q \in p .. e - 1 BY <1>1, <1>2
    <3>2. b \notin p .. p + k - 1 BY <1>1, <1>2
    <3> QED BY <3>1, <3>2 DEF D
  <2>2. p \in E BY DEF D
  <2> QED BY <1>6, <2>1, <2>2 DEF Left
<1>8. SetAt(x, g, p, k, junk)
  <2> HIDE DEF g
  <2>1. g = set_inuse(x, p, k, junk) BY DEF g, k
  <2>3. Headers(x) /\ p \in Nat /\ k \in Nat \ {0} BY <1>1, <1>2, <1>6
  <2>2. SetAt(x, set_inuse(x, p, k, junk), p, k, junk) BY <2>3, SetInuseIs, Zenon
  <2> QED BY <2>1, <2>2, Zenon
<1> HIDE DEF g, E
<1>9. /\ Headers(g) /\ DOMAIN g = E /\ p \in UsedIn(g) /\ g[p].size = k
      /\ p \in E => (p \in PinIn(g) <=> p \in PinIn(x)) /\ g[p].prev_foot = x[p].prev_foot
      /\ \A q \in E \ {p} :
           /\ g[q].size = x[q].size
           /\ q \in UsedIn(g) <=> q \in UsedIn(x)
           /\ q \in PinIn(g) <=> q \in PinIn(x) \/ q = b
           /\ q # b => g[q].prev_foot = x[q].prev_foot
  <2>1. DOMAIN g = E BY <1>7, <1>8 DEF SetAt
  <2>2. \A q \in DOMAIN g \ {p} :
           /\ g[q].size = x[q].size
           /\ q \in UsedIn(g) <=> q \in UsedIn(x)
           /\ q \in PinIn(g) <=> q \in PinIn(x) \/ q = p + k
           /\ q # p + k => g[q].prev_foot = x[q].prev_foot
    BY <1>8 DEF SetAt
  <2>3. Headers(g) /\ p \in UsedIn(g) /\ g[p].size = k BY <1>8 DEF SetAt
  <2>4. p \in DOMAIN x => (p \in PinIn(g) <=> p \in PinIn(x)) /\ g[p].prev_foot = x[p].prev_foot BY <1>8 DEF SetAt
  <2> QED BY <1>2, <1>6, <2>1, <2>2, <2>3, <2>4
<1>10. p \in E /\ b \in E /\ e \in E /\ \A q \in D : q \in E /\ q # b BY <1>3 DEF E, D
<1>11. /\ b \in UsedIn(g) /\ b \in PinIn(g) /\ g[b].size = s
       /\ p \in PinIn(g) <=> p \in PinIn(h)
       /\ g[p].prev_foot = h[p].prev_foot
       /\ e \in PinIn(g)
  <2>1. p \in D /\ e \in D BY DEF D
  <2>2. b \in E \ {p} /\ e \in E \ {p} BY <1>2, <1>10
  <2> QED BY <1>2, <1>6, <1>9, <1>10, <2>1, <2>2
<1>12. ASSUME NEW q \in D \ {p}
       PROVE  /\ g[q].size = h[q].size /\ (q \in UsedIn(g) <=> q \in UsedIn(h))
              /\ q # e => (q \in PinIn(g) <=> q \in PinIn(h)) /\ g[q].prev_foot = h[q].prev_foot
  <2>1. q \in E \ {p} /\ q # b BY <1>10
  <2> QED BY <1>6, <1>9, <2>1
<1> QED BY <1>3, <1>9, <1>11, <1>12 DEF DidCut, D, E, s, k, g, x

\* A used chunk is cut from below, as behind a piece.
LEMMA CutLower ==
  ASSUME NEW h, Headers(h), NEW p \in DOMAIN h, NEW b \in Nat, NEW e \in DOMAIN h, p < b, b < e,
         \A q \in DOMAIN h : q \in p .. e - 1 => q = p
  PROVE  DidCut(h, set_inuse(set_inuse(h, p, b - p, TRUE), b, e - b, TRUE), p, b, e)
<1> DEFINE x == set_inuse(h, p, b - p, TRUE)
           g == set_inuse(x, b, e - b, TRUE)
           D == DOMAIN h
           E == D \cup {b}
           s == e - b
           k == b - p
<1>1. (\A q \in D : q \in Nat) /\ p \in Nat /\ e \in Nat BY DEF Headers
<1>2. s \in Nat \ {0} /\ k \in Nat \ {0} /\ b + s = e /\ p + k = b /\ b # p /\ b # e /\ p # e BY <1>1
<1>3. b \notin D /\ \A q \in D : q # b /\ q \notin b .. b + s - 1 BY <1>1, <1>2
<1>0. TRUE \in BOOLEAN OBVIOUS
<1>4. Left(h, p, k) = D
  <2>1. \A q \in D : q \in p .. p + k - 1 => q \in p .. e - 1 BY <1>1, <1>2
  <2> QED BY <2>1 DEF Left
<1>5. SetAt(h, x, p, k, TRUE) BY <1>0, <1>1, <1>2, SetInuseIs, Zenon
<1>10. p \in D /\ e \in D OBVIOUS
<1> HIDE DEF x, D, s, k
<1>6. /\ Headers(x) /\ DOMAIN x = D /\ p \in UsedIn(x) /\ x[p].size = k
      /\ (p \in PinIn(x) <=> p \in PinIn(h)) /\ x[p].prev_foot = h[p].prev_foot
      /\ \A q \in D \ {p} :
           /\ x[q].size = h[q].size
           /\ q \in UsedIn(x) <=> q \in UsedIn(h)
           /\ q \in PinIn(x) <=> q \in PinIn(h)
           /\ x[q].prev_foot = h[q].prev_foot
  <2>2. DOMAIN x = D BY <1>4, <1>5 DEF SetAt
  <2>3. \A q \in DOMAIN x \ {p} :
             /\ x[q].size = h[q].size
             /\ q \in UsedIn(x) <=> q \in UsedIn(h)
             /\ q \in PinIn(x) <=> q \in PinIn(h) \/ q = p + k
             /\ q # p + k => x[q].prev_foot = h[q].prev_foot
    BY <1>5 DEF SetAt
  <2>4. Headers(x) /\ p \in UsedIn(x) /\ x[p].size = k BY <1>5 DEF SetAt
  <2>5. (p \in PinIn(x) <=> p \in PinIn(h)) /\ x[p].prev_foot = h[p].prev_foot BY <1>5 DEF SetAt
  <2> QED BY <1>2, <1>3, <2>2, <2>3, <2>4, <2>5
<1>7. Left(x, b, s) = E BY <1>3, <1>6 DEF Left
<1>8. SetAt(x, g, b, s, TRUE)
  <2> HIDE DEF g
  <2>1. g = set_inuse(x, b, s, TRUE) BY DEF g, s
  <2>2. SetAt(x, set_inuse(x, b, s, TRUE), b, s, TRUE) BY <1>0, <1>1, <1>2, <1>6, SetInuseIs, Zenon
  <2> QED BY <2>1, <2>2, Zenon
<1> HIDE DEF g
<1>9. /\ Headers(g) /\ DOMAIN g = E /\ b \in UsedIn(g) /\ g[b].size = s /\ b \in PinIn(g)
      /\ \A q \in D :
           /\ g[q].size = x[q].size
           /\ q \in UsedIn(g) <=> q \in UsedIn(x)
           /\ q \in PinIn(g) <=> q \in PinIn(x) \/ q = e
           /\ q # e => g[q].prev_foot = x[q].prev_foot
  <2>1. DOMAIN g = E BY <1>7, <1>8 DEF SetAt
  <2>2. \A q \in DOMAIN g \ {b} :
           /\ g[q].size = x[q].size
           /\ q \in UsedIn(g) <=> q \in UsedIn(x)
           /\ q \in PinIn(g) <=> q \in PinIn(x) \/ q = b + s
           /\ q # b + s => g[q].prev_foot = x[q].prev_foot
    BY <1>8 DEF SetAt
  <2>3. Headers(g) /\ b \in UsedIn(g) /\ g[b].size = s BY <1>8 DEF SetAt
  <2>4. b \in PinIn(g) BY <1>3, <1>6, <1>8 DEF SetAt
  <2>5. \A q \in D : q \in DOMAIN g \ {b} BY <1>3, <2>1
  <2> HIDE DEF E
  <2> QED BY <1>2, <2>1, <2>2, <2>3, <2>4, <2>5
<1>11. /\ p \in UsedIn(g) /\ g[p].size = k
       /\ p \in PinIn(g) <=> p \in PinIn(h)
       /\ g[p].prev_foot = h[p].prev_foot
       /\ e \in PinIn(g)
  BY <1>2, <1>6, <1>9, <1>10
<1>12. ASSUME NEW q \in D \ {p}
       PROVE  /\ g[q].size = h[q].size /\ (q \in UsedIn(g) <=> q \in UsedIn(h))
              /\ q # e => (q \in PinIn(g) <=> q \in PinIn(h)) /\ g[q].prev_foot = h[q].prev_foot
  BY <1>6, <1>9
<1> QED BY <1>3, <1>9, <1>11, <1>12 DEF DidCut, D, s, k, g, x

\* The used chunk p is two used ones, p and b.
CutOf(h, g, top, end, p, b, e) ==
  /\ Tile(g, top, end) /\ b \notin DOMAIN h /\ DOMAIN g = DOMAIN h \cup {b} /\ UsedIn(g) = UsedIn(h) \cup {b}
  /\ g[p].size = b - p /\ g[b].size = e - b
  /\ \A q \in DOMAIN h \ {p} : g[q].size = h[q].size

\* Two used chunks in the place of one keep the row.
LEMMA Cut ==
  ASSUME NEW h, NEW top, NEW end, Tile(h, top, end), NEW p \in UsedIn(h), NEW b \in Nat, NEW e, e = p + h[p].size,
         p + MIN_CHUNK_SIZE =< b, b + MIN_CHUNK_SIZE =< e, NEW g, DidCut(h, g, p, b, e)
  PROVE  CutOf(h, g, top, end, p, b, e)
<1> DEFINE D == DOMAIN h
           E == D \cup {b}
<1>1. p \in D /\ p # top BY TileFacts, Parts
<1>2. /\ p \in Nat /\ e \in D /\ e \in Nat /\ p < b /\ b < e /\ e \in PinIn(h) /\ p < e
      /\ (\A q \in D : q \in p .. e - 1 => q = p) /\ (\A q \in D : q \in Nat) /\ e =< top /\ top \in Nat
  <2>1. p \in Nat /\ h[p].size \in Nat /\ e \in D /\ e \in PinIn(h) /\ (\A q \in D : q \in Nat) /\ top \in Nat
        /\ e =< top
    BY <1>1, TileFacts
  <2>3. \A q \in D : q \in p .. p + h[p].size - 1 => q = p BY <1>1, Alone, Zenon
  <2>2. \A q \in D : q \in p .. e - 1 => q = p
    <3>1. p .. e - 1 = p .. p + h[p].size - 1 BY <2>1
    <3> HIDE DEF D
    <3> QED BY <2>3, <3>1
  <2> QED BY <2>1, <2>2 DEF MIN_CHUNK_SIZE
<1>3. /\ Headers(g) /\ DOMAIN g = E /\ b \notin D
      /\ p \in UsedIn(g) /\ b \in UsedIn(g) /\ b \in PinIn(g)
      /\ g[p].size = b - p /\ g[b].size = e - b
      /\ p \in PinIn(g) <=> p \in PinIn(h)
      /\ g[p].prev_foot = h[p].prev_foot
      /\ e \in PinIn(g)
      /\ \A q \in D \ {p} :
           /\ g[q].size = h[q].size /\ (q \in UsedIn(g) <=> q \in UsedIn(h))
           /\ q # e => (q \in PinIn(g) <=> q \in PinIn(h)) /\ g[q].prev_foot = h[q].prev_foot
  BY DEF DidCut
<1>4. \A q \in E : (q \in p .. e - 1 => q = p \/ q = b) /\ (q \in p .. e - 1 \/ q \in D) BY <1>2
<1>5. p \in E /\ b \in E /\ (\A q \in D : q \in E) BY <1>1
<1>6. \A q \in UsedIn(h) : q \in D BY Parts
<1>7. \A q \in E : q \in D \/ q = b OBVIOUS
<1> HIDE DEF D, E
<1>9. Same(h, g, p, e)
  <2>1. \A q \in D : q \in p .. e - 1 \/ q # p BY <1>2
  <2> QED BY <1>2, <1>3, <1>4, <1>5, <2>1 DEF Same, D
<1>11. Run(g, top, p, e)
  <2>1. ASSUME NEW q \in E \ {top}, q \in p .. e - 1
        PROVE   /\ g[q].size >= MIN_CHUNK_SIZE
                /\ q + g[q].size \in E /\ q + g[q].size =< e
                /\ q + g[q].size \in PinIn(g) <=> q \in UsedIn(g)
                /\ q \notin UsedIn(g) => g[q + g[q].size].prev_foot = g[q].size
    <3>1. CASE q = p
      <4>1. p + g[p].size = b BY <1>2, <1>3
      <4>2. g[p].size >= MIN_CHUNK_SIZE /\ b =< e BY <1>2, <1>3 DEF MIN_CHUNK_SIZE
      <4> QED BY <1>3, <1>5, <3>1, <4>1, <4>2
    <3>2. CASE q = b
      <4>1. b + g[b].size = e BY <1>2, <1>3
      <4>2. g[b].size >= MIN_CHUNK_SIZE /\ e =< e BY <1>2, <1>3 DEF MIN_CHUNK_SIZE
      <4> QED BY <1>2, <1>3, <1>5, <3>2, <4>1, <4>2
    <3> QED BY <1>4, <2>1, <3>1, <3>2
  <2>2. \A q \in E \ {p} : q \in p .. e - 1 => q \in PinIn(g) BY <1>3, <1>4
  <2>3. ASSUME NEW q \in E, NEW z \in E, q \in p .. e - 1, z \in p .. e - 1, q < z PROVE q + g[q].size =< z
    <3>1. q = p /\ z = b BY <1>2, <1>4, <2>3
    <3>2. p + g[p].size = b BY <1>2, <1>3
    <3> QED BY <1>2, <3>1, <3>2
  <2> QED BY <1>3, <2>1, <2>2, <2>3 DEF Run
<1>12. Tile(g, top, end)
  <2>1. e \in DOMAIN h /\ p \in DOMAIN h /\ b \in DOMAIN g /\ b + g[b].size = e /\ p < e /\ b \in p .. e - 1
    BY <1>1, <1>2, <1>3, <1>5 DEF D
  <2> QED BY <1>3, <1>9, <1>11, <2>1, Retile
<1>13. UsedIn(g) = UsedIn(h) \cup {b}
  <2>1. \A q \in UsedIn(g) : q \in E BY <1>3, Parts
  <2>2. \A q \in UsedIn(g) : q \in UsedIn(h) \/ q = b BY <1>3, <1>7, <2>1
  <2>3. \A q \in UsedIn(h) : q \in UsedIn(g) BY <1>3, <1>6
  <2> QED BY <1>3, <2>2, <2>3
<1> QED BY <1>3, <1>12, <1>13 DEF CutOf, D, E

-----------------------------------------------------------------------------
(* The state of the allocator (Good), and how the steps of its operations keep *)
(* the parts of it.                                                        *)

\* The one segment: nothing, or chunks up to top.
HeapOK(m) ==
  /\ DOMAIN m = Fields /\ m.segsize \in 0 .. MAX_SIZE_T
  /\ \/ m.top = Null /\ DOMAIN m.head = {} /\ m.segsize = 0 /\ m.topsize = 0
     \/ Tile(m.head, m.top, m.segsize - TOP_FOOT_SIZE) /\ m.topsize = m.head[m.top].size

\* The designated victim: none, or a free chunk that is not top.
DvOK(m) ==
  \/ m.dv = Null /\ m.dvsize = 0
  \/ m.dv \in FreeIn(m.head) /\ m.dv # m.top /\ m.dvsize = m.head[m.dv].size

\* The chunks that have to be in a bin.
Loose(m) == FreeIn(m.head) \ {m.top, m.dv}

\* The state is sound: chunks end to end with true tags, and what is free is
\* top, the designated victim, or in its bin.
Good(m) == HeapOK(m) /\ DvOK(m) /\ BinsOK(m, Loose(m))

\* Some of the state is as it was.
SameBins(m, r) ==
  r.smallmap = m.smallmap /\ r.smallbins = m.smallbins /\ r.treemap = m.treemap /\ r.treebins = m.treebins
SameDv(m, r) == r.dv = m.dv /\ r.dvsize = m.dvsize
SameTop(m, r) == r.top = m.top /\ r.topsize = m.topsize /\ r.segsize = m.segsize

\* The assumptions on the allocator.
LEMMA TopConstants ==
  /\ TOP_FOOT_SIZE \in Nat /\ TOP_FOOT_SIZE > 0 /\ MAX_SIZE_T \in Nat /\ NSMALLBINS \in Nat /\ MIN_CHUNK_SIZE = 2
  /\ MAX_SIZE_T > 0
<1>1. 2 ^ SIZE_T_BITSIZE \in Nat /\ 2 ^ SIZE_T_BITSIZE > 1 BY BinConstants, Pow
<1>2. NSMALLBINS \in Nat BY BinConstants, Pow DEF NSMALLBINS
<1> QED BY <1>1, <1>2, DlmallocAssumption DEF MAX_SIZE_T, MIN_CHUNK_SIZE

\* What the one segment has, if it has a chunk.
LEMMA HeapFacts ==
  ASSUME NEW m, HeapOK(m), NEW p \in DOMAIN m.head
  PROVE  /\ Tile(m.head, m.top, m.segsize - TOP_FOOT_SIZE) /\ m.topsize = m.head[m.top].size
         /\ Headers(m.head) /\ m.top \in DOMAIN m.head /\ m.top \in Nat /\ m.top \notin UsedIn(m.head)
         /\ p \in Nat /\ m.head[p].size \in 1 .. MAX_SIZE_T
         /\ p # m.top => m.head[p].size \in MIN_CHUNK_SIZE .. MAX_SIZE_T
         /\ m.segsize \in Nat /\ m.topsize \in Nat
<1> DEFINE h == m.head
           end == m.segsize - TOP_FOOT_SIZE
<1>1. Tile(h, m.top, end) /\ m.topsize = m.head[m.top].size /\ m.segsize \in 0 .. MAX_SIZE_T BY DEF HeapOK
<1>2. end =< MAX_SIZE_T /\ MAX_SIZE_T \in Nat /\ m.segsize \in Nat BY <1>1, TopConstants
<1>4. p \in DOMAIN h OBVIOUS
<1> HIDE DEF h, end
<1>3. /\ m.top \in DOMAIN h /\ m.top \in Nat /\ end \in Nat /\ m.top \notin UsedIn(h)
      /\ \A q \in DOMAIN h : q \in Nat /\ h[q].size \in Nat /\ h[q].size > 0 /\ q + h[q].size =< end
      /\ p # m.top => h[p].size >= MIN_CHUNK_SIZE
  BY <1>1, <1>4, TileFacts
<1>5. Headers(h) BY <1>1 DEF Tile
<1>6. h[p].size \in 1 .. MAX_SIZE_T /\ (p # m.top => h[p].size \in MIN_CHUNK_SIZE .. MAX_SIZE_T)
  BY <1>2, <1>3, <1>4 DEF MIN_CHUNK_SIZE
<1>7. p \in Nat /\ h[m.top].size \in Nat BY <1>3, <1>4
<1> QED BY <1>1, <1>2, <1>3, <1>5, <1>6, <1>7 DEF h, end

\* A chunk is free when it is not in use.
LEMMA FreeIs == ASSUME NEW h PROVE \A q : q \in FreeIn(h) <=> q \in DOMAIN h /\ q \notin UsedIn(h)
BY DEF FreeIn

\* The chunk v, in no bin, is handed out as it is.
LEMMA WholeIs ==
  ASSUME NEW m, HeapOK(m), NEW B, BinsOK(m, B), B \subseteq FreeIn(m.head),
         NEW v \in FreeIn(m.head), v # m.top
  PROVE  LET r == Whole(m, v, m.head[v].size)
         IN  /\ HeapOK(r) /\ BinsOK(r, B) /\ SameDv(m, r) /\ SameTop(m, r)
             /\ UsedIn(r.head) = UsedIn(m.head) \cup {v} /\ FreeIn(r.head) = FreeIn(m.head) \ {v}
             /\ \A q \in DOMAIN m.head : r.head[q].size = m.head[q].size
<1> DEFINE h == m.head
           g == set_inuse_and_pinuse(h, v, h[v].size)
           r == [m EXCEPT !.head = g]
<1>1. v \in DOMAIN h /\ v \notin UsedIn(h) BY FreeIs
<1>2. Tile(h, m.top, m.segsize - TOP_FOOT_SIZE) /\ m.topsize = h[m.top].size /\ m.top \in DOMAIN h BY <1>1, HeapFacts
<1>3. r = Whole(m, v, h[v].size) BY DEF Whole
<1>4. DOMAIN m = Fields /\ m.segsize \in 0 .. MAX_SIZE_T BY DEF HeapOK
<1>5. /\ Tile(g, m.top, m.segsize - TOP_FOOT_SIZE) /\ DOMAIN g = DOMAIN h /\ UsedIn(g) = UsedIn(h) \cup {v}
      /\ \A q \in DOMAIN h : g[q].size = h[q].size
  BY <1>1, <1>2, UseWhole
<1> HIDE DEF g
<1>6. r.head = g /\ DOMAIN r = Fields /\ SameDv(m, r) /\ SameTop(m, r) /\ SameBins(m, r)
  BY <1>4 DEF Fields, SameDv, SameTop, SameBins
<1> HIDE DEF r
<1>7. HeapOK(r) BY <1>2, <1>4, <1>5, <1>6 DEF HeapOK, SameTop
<1>8. FreeIn(g) = FreeIn(h) \ {v} BY <1>5, FreeIs
<1>9. BinsOK(r, B)
  <2>1. \A q \in B : r.head[q].size = m.head[q].size BY <1>5, <1>6, FreeIs
  <2> QED BY <1>6, <2>1, BinsFrame DEF SameBins
<1> QED BY <1>3, <1>5, <1>6, <1>7, <1>8, <1>9

SplitDone(m, r, B, v, b, nb, rest) ==
  /\ HeapOK(r) /\ BinsOK(r, B) /\ SameDv(m, r) /\ SameTop(m, r)
  /\ UsedIn(r.head) = UsedIn(m.head) \cup {v} /\ FreeIn(r.head) = (FreeIn(m.head) \ {v}) \cup {b}
  /\ b \notin DOMAIN m.head /\ b # Null /\ r.head[v].size = nb /\ r.head[b].size = rest
  /\ \A q \in DOMAIN m.head \ {v} : r.head[q].size = m.head[q].size

\* Its rest is a new free chunk.
LEMMA SplitKeeps ==
  ASSUME NEW m, HeapOK(m), NEW B, BinsOK(m, B), B \subseteq FreeIn(m.head), NEW v \in FreeIn(m.head), v # m.top, v \notin B,
         NEW nb \in Nat, NEW rest \in Nat, nb >= MIN_CHUNK_SIZE, rest >= MIN_CHUNK_SIZE, nb + rest = m.head[v].size
  PROVE  SplitDone(m, Split(m, v, nb, rest), B, v, v + nb, nb, rest)
<1> DEFINE h == m.head
           b == v + nb
           g == set_size_and_pinuse_of_free_chunk(set_size_and_pinuse_of_inuse_chunk(h, v, nb), b, rest)
           r == [m EXCEPT !.head = g]
<1>1. v \in DOMAIN h /\ v \notin UsedIn(h) BY FreeIs
<1>2. Tile(h, m.top, m.segsize - TOP_FOOT_SIZE) /\ m.topsize = h[m.top].size /\ m.top \in DOMAIN h /\ v \in Nat
  BY <1>1, HeapFacts
<1>3. r = Split(m, v, nb, rest) BY DEF Split
<1>4. DOMAIN m = Fields /\ m.segsize \in 0 .. MAX_SIZE_T BY DEF HeapOK
<1>5. /\ Tile(g, m.top, m.segsize - TOP_FOOT_SIZE) /\ b \notin DOMAIN h
      /\ DOMAIN g = DOMAIN h \cup {b} /\ UsedIn(g) = UsedIn(h) \cup {v}
      /\ g[v].size = nb /\ g[b].size = rest
      /\ \A q \in DOMAIN h \ {v} : g[q].size = h[q].size
  <2>1. nb + rest = h[v].size /\ v # m.top /\ nb \in Nat /\ rest \in Nat /\ nb >= MIN_CHUNK_SIZE /\ rest >= MIN_CHUNK_SIZE
    OBVIOUS
  <2> HIDE DEF h
  <2>2. SplitOf(h, g, m.top, m.segsize - TOP_FOOT_SIZE, v, b, nb, rest) BY <1>1, <1>2, <2>1, UseSplit, Zenon
  <2> QED BY <2>2 DEF SplitOf
<1> HIDE DEF g
<1>6. r.head = g /\ DOMAIN r = Fields /\ SameDv(m, r) /\ SameTop(m, r) /\ SameBins(m, r)
  BY <1>4 DEF Fields, SameDv, SameTop, SameBins
<1>11. b # Null BY <1>2 DEF Null
<1> HIDE DEF r, b
<1>12. v # m.top OBVIOUS
<1> HIDE DEF h
<1>7. HeapOK(r)
  <2>1. g[m.top].size = h[m.top].size BY <1>2, <1>5, <1>12
  <2> QED BY <1>2, <1>4, <1>5, <1>6, <2>1 DEF HeapOK, SameTop, h
<1>8. FreeIn(g) = (FreeIn(h) \ {v}) \cup {b}
  <2>1. UsedIn(h) \subseteq DOMAIN h BY Parts
  <2>2. \A q : q \in FreeIn(g) <=> q \in DOMAIN g /\ q \notin UsedIn(g) BY FreeIs
  <2>3. \A q : q \in FreeIn(h) <=> q \in DOMAIN h /\ q \notin UsedIn(h) BY FreeIs
  <2>4. b # v BY <1>1, <1>5
  <2> QED BY <1>1, <1>5, <2>1, <2>2, <2>3, <2>4
<1>9. BinsOK(r, B)
  <2>1. \A q \in B : q \in DOMAIN h /\ q # v BY FreeIs DEF h
  <2>2. \A q \in B : r.head[q].size = m.head[q].size BY <1>5, <1>6, <2>1 DEF h
  <2> QED BY <1>6, <2>2, BinsFrame DEF SameBins
<1>13. SplitDone(m, r, B, v, b, nb, rest) BY <1>5, <1>6, <1>7, <1>8, <1>9, <1>11 DEF SplitDone, h
<1> QED BY <1>3, <1>13 DEF b, h

\* A free chunk goes to its bin.
LEMMA InsertKeeps ==
  ASSUME NEW m, HeapOK(m), NEW B, BinsOK(m, B), NEW p \in FreeIn(m.head), p # m.top, p \notin B
  PROVE  LET r == insert_chunk(m, p, m.head[p].size)
         IN  /\ HeapOK(r) /\ BinsOK(r, B \cup {p}) /\ SameDv(m, r) /\ SameTop(m, r) /\ r.head = m.head
<1> DEFINE r == insert_chunk(m, p, m.head[p].size)
           size == m.head[p].size
<1>1. p \in DOMAIN m.head BY FreeIs
<1>2. p \in Nat /\ size \in MIN_CHUNK_SIZE .. MAX_SIZE_T BY <1>1, HeapFacts
<1>3. DOMAIN m = Fields BY DEF HeapOK
<1>5. m.head[p].size = size OBVIOUS
<1>4. OnlyBins(m, insert_chunk(m, p, size)) /\ BinsOK(insert_chunk(m, p, size), B \cup {p})
  <2> HIDE DEF size
  <2> QED BY <1>2, <1>3, <1>5, Insert, Zenon
<1> HIDE DEF r
<1>6. OnlyBins(m, r) /\ BinsOK(r, B \cup {p}) BY <1>4 DEF r
<1>7. SameDv(m, r) /\ SameTop(m, r) /\ r.head = m.head /\ DOMAIN r = Fields BY <1>6 DEF OnlyBins, SameDv, SameTop
<1>8. HeapOK(r) BY <1>7 DEF HeapOK, SameTop
<1> QED BY <1>6, <1>7, <1>8 DEF r

\* Unlinking leaves the row, the victim and top alone.
LEMMA UnlinkKeeps ==
  ASSUME NEW m, HeapOK(m), NEW B, BinsOK(m, B), NEW p \in B
  PROVE  LET r == unlink_chunk(m, p, m.head[p].size)
         IN  /\ HeapOK(r) /\ BinsOK(r, B \ {p}) /\ SameDv(m, r) /\ SameTop(m, r) /\ r.head = m.head
<1> DEFINE r == unlink_chunk(m, p, m.head[p].size)
<1>3. DOMAIN m = Fields BY DEF HeapOK
<1>4. OnlyBins(m, r) /\ BinsOK(r, B \ {p}) BY <1>3, Unlink
<1> HIDE DEF r
<1>7. SameDv(m, r) /\ SameTop(m, r) /\ r.head = m.head /\ DOMAIN r = Fields BY <1>4 DEF OnlyBins, SameDv, SameTop
<1>8. HeapOK(r) BY <1>7 DEF HeapOK, SameTop
<1> QED BY <1>4, <1>7, <1>8 DEF r

\* A free chunk is the designated victim and the old one, that must be small, in its bin.
LEMMA ReplaceKeeps ==
  ASSUME NEW m, HeapOK(m), DvOK(m), m.dvsize < NSMALLBINS, NEW p \in Loose(m), BinsOK(m, Loose(m) \ {p})
  PROVE  LET r == replace_dv(m, p, m.head[p].size)
         IN  Good(r) /\ SameTop(m, r) /\ r.head = m.head
<1> DEFINE size == m.head[p].size
           n == IF m.dvsize # 0 THEN insert_small_chunk(m, m.dv, m.dvsize) ELSE m
           r == [n EXCEPT !.dv = p, !.dvsize = size]
           B == Loose(m) \ {p}
           C == FreeIn(m.head) \ {m.top, p}
<1>1. r = replace_dv(m, p, size) BY DEF replace_dv
<1>2. DOMAIN m = Fields BY DEF HeapOK
<1>3. p \in FreeIn(m.head) /\ p # m.top /\ p # m.dv BY DEF Loose
<1>4. OnlyBins(m, n) /\ BinsOK(n, C)
  <2>1. CASE m.dvsize = 0
    <3>1. n = m BY <2>1
    <3>2. OnlyBins(m, m) BY <1>2 DEF OnlyBins
    <3>3. m.dv \notin FreeIn(m.head)
      <4>1. CASE m.dv = Null
        <5>1. DOMAIN m.head \subseteq Nat
          <6> SUFFICES ASSUME NEW q \in DOMAIN m.head PROVE q \in Nat OBVIOUS
          <6> QED BY HeapFacts
        <5> QED BY <4>1, <5>1, FreeIs DEF Null
      <4>2. CASE m.dv # Null
        <5>1. m.dv \in FreeIn(m.head) /\ m.dvsize = m.head[m.dv].size BY <4>2 DEF DvOK
        <5>2. m.dv \in DOMAIN m.head BY <5>1, FreeIs
        <5>3. m.head[m.dv].size \in 1 .. MAX_SIZE_T BY <5>2, HeapFacts
        <5> QED BY <2>1, <5>1, <5>3
      <4> QED BY <4>1, <4>2
    <3>4. C = B BY <3>3 DEF Loose
    <3> QED BY <3>1, <3>2, <3>4
  <2>2. CASE m.dvsize # 0
    <3> DEFINE d == m.dv
               s == m.dvsize
    <3>1. d \in FreeIn(m.head) /\ d # m.top /\ s = m.head[d].size BY <2>2 DEF DvOK
    <3>2. d \in DOMAIN m.head BY <3>1, FreeIs
    <3>3. d \in Nat /\ s \in MIN_CHUNK_SIZE .. MAX_SIZE_T BY <3>1, <3>2, HeapFacts
    <3>4. d \notin B /\ B \cup {d} = C BY <1>3, <3>1 DEF Loose
    <3>5. n = insert_small_chunk(m, d, s) BY <2>2
    <3>6. s < NSMALLBINS OBVIOUS
    <3>7. BinsOK(m, B) OBVIOUS
    <3> HIDE DEF d, s, n, B, C
    <3>8. s \in MIN_CHUNK_SIZE .. NSMALLBINS - 1 /\ s =< MAX_SIZE_T BY <3>3, <3>6, TopConstants
    <3>9. m.head[d].size = s BY <3>1
    <3>10. OnlyBins(m, insert_small_chunk(m, d, s)) /\ BinsOK(insert_small_chunk(m, d, s), B \cup {d})
      BY <1>2, <3>3, <3>4, <3>7, <3>8, <3>9, InsertSmall, Zenon
    <3> QED BY <3>4, <3>5, <3>10
  <2> QED BY <2>1, <2>2
<1> HIDE DEF n, size, B, C
<1>5. DOMAIN n = Fields BY <1>4 DEF OnlyBins
<1>6. /\ r.head = n.head /\ DOMAIN r = Fields /\ SameTop(n, r) /\ SameBins(n, r) /\ r.dv = p /\ r.dvsize = size
  BY <1>5 DEF Fields, SameTop, SameBins
<1> HIDE DEF r
<1>7. r.head = m.head /\ SameTop(m, r) BY <1>4, <1>6 DEF OnlyBins, SameTop
<1>8. HeapOK(r) BY <1>6, <1>7 DEF HeapOK, SameTop
<1>9. DvOK(r) BY <1>3, <1>6, <1>7 DEF DvOK, SameTop, size
<1>10. Loose(r) = C BY <1>6, <1>7 DEF Loose, C, SameTop
<1>11. BinsOK(r, C)
  <2>1. \A q \in C : r.head[q].size = n.head[q].size BY <1>6
  <2> QED BY <1>4, <1>6, <2>1, BinsFrame DEF SameBins
<1> QED BY <1>1, <1>7, <1>8, <1>9, <1>10, <1>11 DEF Good, size

-----------------------------------------------------------------------------
(* A chunk out of the bins is handed out, whole or in part.                *)

\* The chunk p, that was free, is in use and no other changed.
Handed(m, n, p, nb) ==
  /\ Good(n) /\ n.segsize = m.segsize
  /\ p \notin UsedIn(m.head) /\ UsedIn(n.head) = UsedIn(m.head) \cup {p}
  /\ n.head[p].size \in nb .. nb + MIN_CHUNK_SIZE - 1
  /\ \A q \in UsedIn(m.head) : n.head[q].size = m.head[q].size

\* All is well but for the free chunk v, in no bin.
Out(m, v) == HeapOK(m) /\ DvOK(m) /\ v \in Loose(m) /\ BinsOK(m, Loose(m) \ {v})

\* What is known of a chunk out of the bins.
LEMMA OutFacts ==
  ASSUME NEW m, NEW v, Out(m, v)
  PROVE  /\ v \in FreeIn(m.head) /\ v # m.top /\ v # m.dv /\ v \notin UsedIn(m.head) /\ v \in DOMAIN m.head
         /\ v \in Nat /\ m.head[v].size \in MIN_CHUNK_SIZE .. MAX_SIZE_T /\ m.head[v].size \in Nat
<1>1. v \in FreeIn(m.head) /\ v # m.top /\ v # m.dv BY DEF Out, Loose
<1>2. v \in DOMAIN m.head /\ v \notin UsedIn(m.head) BY <1>1, FreeIs
<1>3. v \in Nat /\ m.head[v].size \in MIN_CHUNK_SIZE .. MAX_SIZE_T BY <1>1, <1>2, HeapFacts DEF Out
<1>4. m.head[v].size \in Nat BY <1>3 DEF MIN_CHUNK_SIZE
<1> QED BY <1>1, <1>2, <1>3, <1>4

\* A chunk that barely fits is handed out whole.
LEMMA WholeHanded ==
  ASSUME NEW m, NEW v, Out(m, v), NEW nb \in Nat, NEW size, size = m.head[v].size, nb =< size, size < nb + MIN_CHUNK_SIZE
  PROVE  Handed(m, Whole(m, v, size), v, nb)
<1> DEFINE r == Whole(m, v, m.head[v].size)
           B == Loose(m) \ {v}
<1>1. /\ v \in FreeIn(m.head) /\ v # m.top /\ v # m.dv /\ v \notin UsedIn(m.head) /\ v \in DOMAIN m.head
      /\ size \in Nat
  BY OutFacts
<1>2. HeapOK(m) /\ BinsOK(m, B) /\ B \subseteq FreeIn(m.head) BY DEF Out, Loose
<1> HIDE DEF B
<1>3. /\ HeapOK(r) /\ BinsOK(r, B) /\ SameDv(m, r) /\ SameTop(m, r)
      /\ UsedIn(r.head) = UsedIn(m.head) \cup {v} /\ FreeIn(r.head) = FreeIn(m.head) \ {v}
      /\ \A q \in DOMAIN m.head : r.head[q].size = m.head[q].size
  BY <1>1, <1>2, WholeIs
<1>6. r = Whole(m, v, size) OBVIOUS
<1> HIDE DEF r
<1>4. Loose(r) = B BY <1>3 DEF Loose, SameDv, SameTop, B
<1>5. DvOK(r)
  <2>1. CASE m.dv = Null /\ m.dvsize = 0 BY <1>3, <2>1 DEF DvOK, SameDv
  <2>2. CASE m.dv \in FreeIn(m.head) /\ m.dv # m.top /\ m.dvsize = m.head[m.dv].size
    <3>1. m.dv \in DOMAIN m.head BY <2>2, FreeIs
    <3> QED BY <1>1, <1>3, <2>2, <3>1 DEF DvOK, SameDv, SameTop
  <2> QED BY <2>1, <2>2 DEF Out, DvOK
<1>7. Good(r) BY <1>3, <1>4, <1>5 DEF Good
<1>8. r.head[v].size \in nb .. nb + MIN_CHUNK_SIZE - 1
  <2>1. r.head[v].size = size BY <1>1, <1>3
  <2> QED BY <1>1, <2>1, TopConstants
<1>9. \A q \in UsedIn(m.head) : r.head[q].size = m.head[q].size BY <1>3, Parts
<1> QED BY <1>1, <1>3, <1>6, <1>7, <1>8, <1>9 DEF Handed, SameTop

\* The rest of it is out of the bins too.
Carved(m, n, v, b, nb, rest) ==
  /\ Out(n, b) /\ SameTop(m, n) /\ SameDv(m, n) /\ n.head[b].size = rest /\ n.head[v].size = nb
  /\ UsedIn(n.head) = UsedIn(m.head) \cup {v}
  /\ \A q \in UsedIn(m.head) : n.head[q].size = m.head[q].size

\* Splitting leaves the rest to be put somewhere.
LEMMA SplitCarved ==
  ASSUME NEW m, NEW v, Out(m, v), NEW nb \in Nat, NEW rest \in Nat, nb >= MIN_CHUNK_SIZE, rest >= MIN_CHUNK_SIZE,
         nb + rest = m.head[v].size
  PROVE  Carved(m, Split(m, v, nb, rest), v, v + nb, nb, rest)
<1> DEFINE r == Split(m, v, nb, rest)
           b == v + nb
           B == Loose(m) \ {v}
<1>1. v \in FreeIn(m.head) /\ v # m.top /\ v # m.dv /\ v \notin UsedIn(m.head) /\ v \in DOMAIN m.head
  BY OutFacts
<1>2. HeapOK(m) /\ BinsOK(m, B) /\ B \subseteq FreeIn(m.head) /\ v \notin B BY DEF Out, Loose
<1> HIDE DEF B
<1>3. /\ HeapOK(r) /\ BinsOK(r, B) /\ SameDv(m, r) /\ SameTop(m, r)
      /\ UsedIn(r.head) = UsedIn(m.head) \cup {v} /\ FreeIn(r.head) = (FreeIn(m.head) \ {v}) \cup {b}
      /\ b \notin DOMAIN m.head /\ b # Null /\ r.head[v].size = nb /\ r.head[b].size = rest
      /\ \A q \in DOMAIN m.head \ {v} : r.head[q].size = m.head[q].size
  <2>1. SplitDone(m, r, B, v, b, nb, rest) BY <1>1, <1>2, SplitKeeps, Zenon
  <2> QED BY <2>1 DEF SplitDone
<1> HIDE DEF r, b
<1>4. b # m.top /\ b # m.dv
  <2>1. m.top \in DOMAIN m.head BY <1>1, <1>2, HeapFacts
  <2>2. m.dv = Null \/ m.dv \in DOMAIN m.head BY FreeIs DEF Out, DvOK
  <2> QED BY <1>3, <2>1, <2>2
<1>5. Loose(r) \ {b} = B /\ b \in Loose(r)
  <2>1. \A q \in FreeIn(m.head) : q # b BY <1>3, FreeIs
  <2> QED BY <1>3, <1>4, <2>1 DEF Loose, SameDv, SameTop, B
<1>6. DvOK(r)
  <2>1. CASE m.dv = Null /\ m.dvsize = 0 BY <1>3, <2>1 DEF DvOK, SameDv
  <2>2. CASE m.dv \in FreeIn(m.head) /\ m.dv # m.top /\ m.dvsize = m.head[m.dv].size
    <3>1. m.dv \in DOMAIN m.head /\ m.dv # v BY <1>1, <2>2, FreeIs
    <3> QED BY <1>3, <2>2, <3>1 DEF DvOK, SameDv, SameTop
  <2> QED BY <2>1, <2>2 DEF Out, DvOK
<1>7. Out(r, b) BY <1>3, <1>5, <1>6 DEF Out
<1>8. \A q \in UsedIn(m.head) : r.head[q].size = m.head[q].size
  <2>1. \A q \in UsedIn(m.head) : q \in DOMAIN m.head /\ q # v BY <1>1, Parts
  <2> QED BY <1>3, <2>1
<1>9. Carved(m, r, v, b, nb, rest) BY <1>3, <1>7, <1>8 DEF Carved
<1> QED BY <1>9 DEF r, b

\* It is the designated victim, or goes to its bin.
LEMMA CarvedReplace ==
  ASSUME NEW m, NEW n, NEW v, NEW b, NEW nb \in Nat, NEW rest, Carved(m, n, v, b, nb, rest), v \notin UsedIn(m.head),
         m.dvsize < NSMALLBINS
  PROVE  Handed(m, replace_dv(n, b, rest), v, nb)
<1> DEFINE r == replace_dv(n, b, n.head[b].size)
<1>1. /\ HeapOK(n) /\ DvOK(n) /\ b \in Loose(n) /\ BinsOK(n, Loose(n) \ {b}) /\ n.dvsize < NSMALLBINS
      /\ SameTop(m, n) /\ n.head[b].size = rest
  BY DEF Carved, Out, SameDv
<1>2. Good(r) /\ SameTop(n, r) /\ r.head = n.head BY <1>1, ReplaceKeeps
<1>3. r = replace_dv(n, b, rest) BY <1>1
<1> HIDE DEF r
<1>4. r.head[v].size \in nb .. nb + MIN_CHUNK_SIZE - 1 BY <1>2, TopConstants DEF Carved
<1>5. /\ UsedIn(r.head) = UsedIn(m.head) \cup {v} /\ r.segsize = m.segsize
      /\ \A q \in UsedIn(m.head) : r.head[q].size = m.head[q].size
  BY <1>2 DEF Carved, SameTop
<1> QED BY <1>2, <1>3, <1>4, <1>5 DEF Handed

\* The rest of a split chunk is put into the bins.
LEMMA CarvedInsert ==
  ASSUME NEW m, NEW n, NEW v, NEW b, NEW nb \in Nat, NEW rest, Carved(m, n, v, b, nb, rest), v \notin UsedIn(m.head)
  PROVE  Handed(m, insert_chunk(n, b, rest), v, nb)
<1> DEFINE r == insert_chunk(n, b, n.head[b].size)
           B == Loose(n) \ {b}
<1>1. /\ HeapOK(n) /\ DvOK(n) /\ b \in Loose(n) /\ BinsOK(n, B)
      /\ SameTop(m, n) /\ n.head[b].size = rest
  BY DEF Carved, Out
<1>2. b \in FreeIn(n.head) /\ b # n.top /\ b \notin B /\ B \cup {b} = Loose(n) BY <1>1 DEF Loose
<1> HIDE DEF B
<1>3. HeapOK(r) /\ BinsOK(r, Loose(n)) /\ SameDv(n, r) /\ SameTop(n, r) /\ r.head = n.head
  BY <1>1, <1>2, InsertKeeps
<1>4. r = insert_chunk(n, b, rest) BY <1>1
<1> HIDE DEF r
<1>5. Loose(r) = Loose(n) /\ DvOK(r) BY <1>1, <1>3 DEF Loose, DvOK, SameDv, SameTop
<1>6. Good(r) BY <1>3, <1>5 DEF Good
<1>7. r.head[v].size \in nb .. nb + MIN_CHUNK_SIZE - 1 BY <1>3, TopConstants DEF Carved
<1>8. /\ UsedIn(r.head) = UsedIn(m.head) \cup {v} /\ r.segsize = m.segsize
      /\ \A q \in UsedIn(m.head) : r.head[q].size = m.head[q].size
  BY <1>3 DEF Carved, SameTop
<1> QED BY <1>4, <1>6, <1>7, <1>8 DEF Handed

\* A chunk taken out of the bins, not yet handed out.
LEMMA UnlinkOut ==
  ASSUME NEW m, Good(m), NEW v \in Loose(m)
  PROVE  LET n == unlink_chunk(m, v, m.head[v].size)
         IN  Out(n, v) /\ SameDv(m, n) /\ SameTop(m, n) /\ n.head = m.head
<1> DEFINE n == unlink_chunk(m, v, m.head[v].size)
<1>1. HeapOK(m) /\ DvOK(m) /\ BinsOK(m, Loose(m)) BY DEF Good
<1>2. HeapOK(n) /\ BinsOK(n, Loose(m) \ {v}) /\ SameDv(m, n) /\ SameTop(m, n) /\ n.head = m.head
  BY <1>1, UnlinkKeeps
<1> HIDE DEF n
<1>3. Loose(n) = Loose(m) /\ DvOK(n) BY <1>1, <1>2 DEF Loose, DvOK, SameDv, SameTop
<1> QED BY <1>2, <1>3 DEF Out, n

\* What was handed out of n was handed out of m, which has the same heap.
LEMMA HandedFrom ==
  ASSUME NEW m, NEW n, NEW r, NEW v, NEW nb, n.head = m.head, SameTop(m, n), Handed(n, r, v, nb)
  PROVE  Handed(m, r, v, nb)
BY DEF Handed, SameTop

\* The first chunk of a smallbin that the map names.
LEMMA FirstIs ==
  ASSUME NEW m, NEW B, BinsOK(m, B), NEW i \in m.smallmap
  PROVE  /\ FirstOf(m, i) \in B /\ m.head[FirstOf(m, i)].size = i /\ i \in MIN_CHUNK_SIZE .. NSMALLBINS - 1 /\ is_small(i)
         /\ i \in Nat
<1>1. i \in MIN_CHUNK_SIZE .. NSMALLBINS - 1 /\ m.smallbins[i] # <<>> /\ IsList(m.smallbins[i], OfSize(m.head, B, i))
  BY DEF BinsOK, SmallOK
<1>2. is_small(i) /\ i \in Nat BY <1>1, TopConstants DEF is_small
<1>3. Head(m.smallbins[i]) \in OfSize(m.head, B, i) BY <1>1, ListOf
<1> QED BY <1>1, <1>2, <1>3 DEF OfSize, FirstOf

-----------------------------------------------------------------------------
(* The ways of taking memory from the bins.                                *)

\* The result of an operation, by its fields.
LEMMA GotIs == ASSUME NEW m, NEW p PROVE Got(m, p).m = m /\ Got(m, p).p = p /\ Got(m, p).asked = 0
BY DEF Got

\* What was taken from the free chunks.
Took(m, r, nb) == Handed(m, r.m, r.p, nb) /\ r.asked = 0

\* A chunk handed out is the result.
LEMMA TookGot ==
  ASSUME NEW m, NEW n, NEW p, NEW nb, Handed(m, n, p, nb) PROVE Took(m, Got(n, p), nb)
BY GotIs DEF Took

\* What is known of the chunks in the bins.
LEMMA GoodFacts ==
  ASSUME NEW m, Good(m)
  PROVE  /\ HeapOK(m) /\ DvOK(m) /\ BinsOK(m, Loose(m)) /\ m.smallmap \subseteq Nat
         /\ \A q \in Loose(m) : /\ q \in FreeIn(m.head) /\ q \in DOMAIN m.head /\ q \notin UsedIn(m.head)
                                /\ q # m.top /\ q # m.dv /\ q \in Nat
                                /\ m.head[q].size \in MIN_CHUNK_SIZE .. MAX_SIZE_T /\ m.head[q].size \in Nat
<1>1. HeapOK(m) /\ DvOK(m) /\ BinsOK(m, Loose(m)) BY DEF Good
<1>2. m.smallmap \subseteq Nat
  <2> SUFFICES ASSUME NEW i \in m.smallmap PROVE i \in Nat OBVIOUS
  <2> QED BY <1>1, FirstIs
<1>3. ASSUME NEW q \in Loose(m)
      PROVE  /\ q \in FreeIn(m.head) /\ q \in DOMAIN m.head /\ q \notin UsedIn(m.head) /\ q # m.top /\ q # m.dv
             /\ q \in Nat /\ m.head[q].size \in MIN_CHUNK_SIZE .. MAX_SIZE_T /\ m.head[q].size \in Nat
  <2>1. q \in FreeIn(m.head) /\ q # m.top /\ q # m.dv BY DEF Loose
  <2>2. q \in DOMAIN m.head /\ q \notin UsedIn(m.head) BY <2>1, FreeIs
  <2>3. q \in Nat /\ m.head[q].size \in MIN_CHUNK_SIZE .. MAX_SIZE_T BY <1>1, <2>1, <2>2, HeapFacts
  <2>4. m.head[q].size \in Nat BY <2>3 DEF MIN_CHUNK_SIZE
  <2> QED BY <2>1, <2>2, <2>3, <2>4
<1> QED BY <1>1, <1>2, <1>3

\* The first chunk of a smallbin without it in the bin.
LEMMA FirstOut ==
  ASSUME NEW m, Good(m), NEW i \in m.smallmap, NEW p, p = FirstOf(m, i), NEW n, n = unlink_small_chunk(m, p, i)
  PROVE  /\ Out(n, p) /\ SameDv(m, n) /\ SameTop(m, n) /\ n.head = m.head /\ m.head[p].size = i /\ p \in Loose(m)
         /\ i \in Nat
<1>1. BinsOK(m, Loose(m)) BY DEF Good
<1>2. p \in Loose(m) /\ m.head[p].size = i /\ is_small(i) /\ i \in Nat BY <1>1, FirstIs
<1>3. n = unlink_chunk(m, p, m.head[p].size) BY <1>2 DEF unlink_chunk
<1> QED BY <1>2, <1>3, UnlinkOut

\* Each way of taking memory hands out one free chunk, of the size asked for.
LEMMA TakeFittingTook ==
  ASSUME NEW m, Good(m), NEW nb \in Nat, Fitting(m, nb) # {}
  PROVE  Took(m, TakeFitting(m, nb), nb) /\ TakeFitting(m, nb).p \in Loose(m)
<1> DEFINE i == Min(Fitting(m, nb))
           p == FirstOf(m, i)
           n == unlink_small_chunk(m, p, i)
           r == Whole(n, p, i)
<1>1. i \in m.smallmap /\ i \in {nb, nb + 1}
  <2>1. Fitting(m, nb) \subseteq Nat BY DEF Fitting
  <2>2. i \in Fitting(m, nb) BY <2>1, MinIs
  <2> HIDE DEF i
  <2> QED BY <2>2 DEF Fitting
<1>2. TakeFitting(m, nb) = Got(r, p) BY DEF TakeFitting
<1> HIDE DEF i
<1>3. Out(n, p) /\ SameDv(m, n) /\ SameTop(m, n) /\ n.head = m.head /\ m.head[p].size = i /\ p \in Loose(m) /\ i \in Nat
  BY <1>1, FirstOut
<1> HIDE DEF p, n
<1>4. i = n.head[p].size /\ nb =< i /\ i < nb + MIN_CHUNK_SIZE BY <1>1, <1>3, TopConstants
<1>5. Handed(n, r, p, nb) BY <1>3, <1>4, WholeHanded
<1> HIDE DEF r
<1>6. Handed(m, r, p, nb) BY <1>3, <1>5, HandedFrom
<1>7. Took(m, Got(r, p), nb) /\ Got(r, p).p = p BY <1>6, TookGot, GotIs
<1> QED BY <1>2, <1>3, <1>7

\* A small request from the next larger smallbin (dlmalloc.cc:4630-4655).
LEMMA SplitLargerTook ==
  ASSUME NEW m, Good(m), NEW nb \in Nat, nb >= MIN_CHUNK_SIZE, Fitting(m, nb) = {}, Larger(m, nb) # {},
         m.dvsize < NSMALLBINS
  PROVE  Took(m, SplitLarger(m, nb), nb) /\ SplitLarger(m, nb).p \in Loose(m)
<1> DEFINE i == Min(Larger(m, nb))
           p == FirstOf(m, i)
           n == unlink_small_chunk(m, p, i)
           rest == i - nb
           b == p + nb
           s == Split(n, p, nb, rest)
           r == replace_dv(s, b, rest)
<1>1. i \in m.smallmap /\ i > nb
  <2>1. Larger(m, nb) \subseteq Nat BY GoodFacts DEF Larger
  <2>2. i \in Larger(m, nb) BY <2>1, MinIs
  <2> HIDE DEF i
  <2> QED BY <2>2 DEF Larger
<1>2. SplitLarger(m, nb) = Got(r, p) BY DEF SplitLarger
<1> HIDE DEF i
<1>3. Out(n, p) /\ SameDv(m, n) /\ SameTop(m, n) /\ n.head = m.head /\ m.head[p].size = i /\ p \in Loose(m) /\ i \in Nat
  BY <1>1, FirstOut
<1>4. i # nb + 1 BY <1>1 DEF Fitting
<1>5. rest \in Nat /\ rest >= MIN_CHUNK_SIZE /\ nb + rest = n.head[p].size BY <1>1, <1>3, <1>4, TopConstants
<1> HIDE DEF p, n, rest
<1>6. Carved(n, s, p, b, nb, rest) BY <1>3, <1>5, SplitCarved, Zenon
<1>7. p \notin UsedIn(n.head) BY <1>3, OutFacts
<1>8. n.dvsize < NSMALLBINS BY <1>3 DEF SameDv
<1> HIDE DEF s, b
<1>9. Handed(n, r, p, nb) BY <1>6, <1>7, <1>8, CarvedReplace
<1> HIDE DEF r
<1>10. Handed(m, r, p, nb) BY <1>3, <1>9, HandedFrom
<1>11. Took(m, Got(r, p), nb) /\ Got(r, p).p = p BY <1>10, TookGot, GotIs
<1> QED BY <1>2, <1>3, <1>11

\* A large chunk without it in its bin.
LEMMA LargeOut ==
  ASSUME NEW m, Good(m), NEW v \in Loose(m), ~is_small(m.head[v].size), NEW n, n = unlink_large_chunk(m, v)
  PROVE  Out(n, v) /\ SameDv(m, n) /\ SameTop(m, n) /\ n.head = m.head
<1>1. n = unlink_chunk(m, v, m.head[v].size) BY DEF unlink_chunk
<1> QED BY <1>1, UnlinkOut

\* What is in a treebin is not small.
LEMMA LargeSizeIs == ASSUME NEW i, NEW s \in SizesOf(i) PROVE ~is_small(s) /\ s \in Nat /\ s >= NSMALLBINS
BY SizeNat, TopConstants DEF SizesOf, LargeSizes, is_small

\* A small request from the smallest chunk of the treebins (tmalloc_small).
LEMMA TmallocSmallTook ==
  ASSUME NEW m, Good(m), NEW nb \in Nat, nb >= MIN_CHUNK_SIZE, nb < NSMALLBINS, m.treemap # {}, m.dvsize < NSMALLBINS
  PROVE  Took(m, tmalloc_small(m, nb), nb) /\ tmalloc_small(m, nb).p \in Loose(m)
<1> DEFINE j == Min(m.treemap)
           tree == m.treebins[j]
           v == Smallest(m, tree, LeftmostFrom(tree, <<>>))
           size == m.head[v].size
           rest == size - nb
           n == unlink_large_chunk(m, v)
           w == Whole(n, v, nb + rest)
           b == v + nb
           s == Split(n, v, nb, rest)
           r == replace_dv(s, b, rest)
<1>1. BinsOK(m, Loose(m)) BY DEF Good
<1>2. j \in m.treemap
  <2>1. m.treemap \subseteq Nat BY <1>1 DEF BinsOK, TreesOK
  <2> QED BY <2>1, MinIs
<1>3. v \in Loose(m) /\ size \in SizesOf(j)
  <2> HIDE DEF j
  <2> QED BY <1>1, <1>2, BinLeast
<1>4. tmalloc_small(m, nb) = IF rest < MIN_CHUNK_SIZE THEN Got(w, v) ELSE Got(r, v)
  BY Zenon DEF tmalloc_small
<1> HIDE DEF v
<1>5. ~is_small(size) /\ size \in Nat /\ size >= NSMALLBINS BY <1>3, LargeSizeIs
<1>6. Out(n, v) /\ SameDv(m, n) /\ SameTop(m, n) /\ n.head = m.head BY <1>3, <1>5, LargeOut
<1>7. rest \in Nat /\ nb + rest = n.head[v].size BY <1>5, <1>6, TopConstants
<1>8. v \notin UsedIn(n.head) BY <1>6, OutFacts
<1>9. n.dvsize < NSMALLBINS BY <1>6 DEF SameDv
<1> HIDE DEF n, rest
<1>10. CASE rest < MIN_CHUNK_SIZE
  <2>1. nb =< nb + rest /\ nb + rest < nb + MIN_CHUNK_SIZE BY <1>7, <1>10, TopConstants
  <2>2. Handed(n, w, v, nb) BY <1>6, <1>7, <2>1, WholeHanded
  <2> HIDE DEF w
  <2>3. Handed(m, w, v, nb) BY <1>6, <2>2, HandedFrom
  <2>4. Took(m, Got(w, v), nb) /\ Got(w, v).p = v BY <2>3, TookGot, GotIs
  <2> QED BY <1>3, <1>4, <1>10, <2>4
<1>11. CASE ~(rest < MIN_CHUNK_SIZE)
  <2>1. rest >= MIN_CHUNK_SIZE BY <1>7, <1>11, TopConstants
  <2>2. Carved(n, s, v, b, nb, rest) BY <1>6, <1>7, <2>1, SplitCarved, Zenon
  <2> HIDE DEF s, b
  <2>3. Handed(n, r, v, nb) BY <1>8, <1>9, <2>2, CarvedReplace
  <2> HIDE DEF r
  <2>4. Handed(m, r, v, nb) BY <1>6, <2>3, HandedFrom
  <2>5. Took(m, Got(r, v), nb) /\ Got(r, v).p = v BY <2>4, TookGot, GotIs
  <2> QED BY <1>3, <1>4, <1>11, <2>5
<1> QED BY <1>10, <1>11

\* A large request from the best chunk of the treebins (tmalloc_large).
LEMMA TmallocLargeTook ==
  ASSUME NEW m, Good(m), NEW nb \in LargeSizes, BestLarge(m, nb) # Null
  PROVE  /\ Took(m, tmalloc_large(m, nb), nb) /\ tmalloc_large(m, nb).p = BestLarge(m, nb)
         /\ LeastFit(m, Loose(m), nb, BestLarge(m, nb))
<1> DEFINE v == BestLarge(m, nb)
           size == m.head[v].size
           rest == size - nb
           n == unlink_large_chunk(m, v)
           w == Whole(n, v, nb + rest)
           b == v + nb
           s == Split(n, v, nb, rest)
           r == insert_chunk(s, b, rest)
<1>1. BinsOK(m, Loose(m)) BY DEF Good
<1>2. LeastFit(m, Loose(m), nb, v) BY <1>1, BestIs
<1>4. tmalloc_large(m, nb) = IF rest < MIN_CHUNK_SIZE THEN Got(w, v) ELSE Got(r, v)
  BY Zenon DEF tmalloc_large
<1> HIDE DEF v
<1>3. v \in Loose(m) /\ size >= nb BY <1>2 DEF LeastFit
<1>12. nb \in Nat /\ nb >= NSMALLBINS /\ nb >= MIN_CHUNK_SIZE
  <2>1. nb \in Nat /\ nb >= NSMALLBINS BY TopConstants DEF LargeSizes
  <2>2. NSMALLBINS >= MIN_CHUNK_SIZE
    <3>1. TREEBIN_SHIFT \in Nat /\ TREEBIN_SHIFT >= 1 BY BinsAssumption
    <3>2. 2 ^ 1 =< 2 ^ TREEBIN_SHIFT BY <3>1, PowMono
    <3>3. 2 ^ 1 = 2 BY Pow, PowZero
    <3> QED BY <3>2, <3>3, TopConstants DEF NSMALLBINS
  <2> QED BY <2>1, <2>2, TopConstants
<1>5. ~is_small(size) /\ size \in Nat
  <2>1. size \in Nat BY <1>3, GoodFacts
  <2> QED BY <1>3, <1>12, <2>1, TopConstants DEF is_small
<1>6. Out(n, v) /\ SameDv(m, n) /\ SameTop(m, n) /\ n.head = m.head BY <1>3, <1>5, LargeOut
<1>7. rest \in Nat /\ nb + rest = n.head[v].size BY <1>3, <1>5, <1>6, <1>12
<1>8. v \notin UsedIn(n.head) BY <1>6, OutFacts
<1> HIDE DEF n, rest
<1>10. CASE rest < MIN_CHUNK_SIZE
  <2>1. nb =< nb + rest /\ nb + rest < nb + MIN_CHUNK_SIZE BY <1>7, <1>10, <1>12, TopConstants
  <2>2. Handed(n, w, v, nb) BY <1>6, <1>7, <1>12, <2>1, WholeHanded
  <2> HIDE DEF w
  <2>3. Handed(m, w, v, nb) BY <1>6, <2>2, HandedFrom
  <2>4. Took(m, Got(w, v), nb) /\ Got(w, v).p = v BY <2>3, TookGot, GotIs
  <2> QED BY <1>2, <1>4, <1>10, <2>4 DEF v
<1>11. CASE ~(rest < MIN_CHUNK_SIZE)
  <2>1. rest >= MIN_CHUNK_SIZE BY <1>7, <1>11, TopConstants
  <2>2. Carved(n, s, v, b, nb, rest) BY <1>6, <1>7, <1>12, <2>1, SplitCarved, Zenon
  <2> HIDE DEF s, b
  <2>3. Handed(n, r, v, nb) BY <1>8, <1>12, <2>2, CarvedInsert
  <2> HIDE DEF r
  <2>4. Handed(m, r, v, nb) BY <1>6, <2>3, HandedFrom
  <2>5. Took(m, Got(r, v), nb) /\ Got(r, v).p = v BY <2>4, TookGot, GotIs
  <2> QED BY <1>2, <1>4, <1>11, <2>5 DEF v
<1> QED BY <1>10, <1>11

-----------------------------------------------------------------------------
(* From the designated victim.                                             *)

\* The designated victim is a free chunk that no bin has.
LEMMA DvFacts ==
  ASSUME NEW m, Good(m), m.dvsize > 0
  PROVE  /\ m.dv \in FreeIn(m.head) /\ m.dv # m.top /\ m.dv \in DOMAIN m.head /\ m.dv \notin UsedIn(m.head)
         /\ m.dv \notin Loose(m) /\ m.dv \in Nat /\ m.dvsize = m.head[m.dv].size /\ m.dvsize \in Nat
<1>1. HeapOK(m) /\ DvOK(m) BY DEF Good
<1>2. m.dv \in FreeIn(m.head) /\ m.dv # m.top /\ m.dvsize = m.head[m.dv].size BY <1>1 DEF DvOK
<1>3. m.dv \in DOMAIN m.head /\ m.dv \notin UsedIn(m.head) BY <1>2, FreeIs
<1>4. m.dv \in Nat /\ m.head[m.dv].size \in 1 .. MAX_SIZE_T BY <1>1, <1>3, HeapFacts
<1>5. m.head[m.dv].size \in Nat BY <1>4
<1>6. m.dv \notin Loose(m) BY DEF Loose
<1> QED BY <1>2, <1>3, <1>4, <1>5, <1>6

\* The size of the victim is a number.
LEMMA DvOKNat ==
  ASSUME NEW m, Good(m) PROVE m.dvsize \in Nat
<1>1. HeapOK(m) /\ DvOK(m) BY DEF Good
<1>2. CASE m.dvsize = 0 BY <1>2
<1>3. CASE m.dvsize # 0
  <2>1. m.dv \in FreeIn(m.head) /\ m.dvsize = m.head[m.dv].size BY <1>1, <1>3 DEF DvOK
  <2>2. m.dv \in DOMAIN m.head BY <2>1, FreeIs
  <2>3. m.head[m.dv].size \in 1 .. MAX_SIZE_T BY <1>1, <2>2, HeapFacts
  <2> QED BY <2>1, <2>3
<1> QED BY <1>2, <1>3

\* The designated victim or a part of it is used.
LEMMA TakeDvTook ==
  ASSUME NEW m, Good(m), NEW nb \in Nat, nb >= MIN_CHUNK_SIZE, nb =< m.dvsize
  PROVE  Took(m, TakeDv(m, nb), nb) /\ TakeDv(m, nb).p = m.dv
<1> DEFINE v == m.dv
           size == m.dvsize
           rest == size - nb
           b == v + nb
           B == Loose(m)
           s == Split(m, v, nb, rest)
           r == [s EXCEPT !.dv = b, !.dvsize = rest]
           t == Whole(m, v, size)
           w == [t EXCEPT !.dv = Null, !.dvsize = 0]
<1>0. m.dvsize \in Nat /\ m.dvsize > 0 BY TopConstants, DvOKNat
<1>1. /\ v \in FreeIn(m.head) /\ v # m.top /\ v \in DOMAIN m.head /\ v \notin UsedIn(m.head)
      /\ v \notin B /\ v \in Nat /\ size = m.head[v].size /\ size \in Nat
  BY <1>0, DvFacts, TopConstants
<1>2. HeapOK(m) /\ BinsOK(m, B) /\ B \subseteq FreeIn(m.head) BY DEF Good, Loose
<1>3. TakeDv(m, nb) = IF rest >= MIN_CHUNK_SIZE THEN Got(r, v) ELSE Got(w, v) BY Zenon DEF TakeDv
<1>4. rest \in Nat /\ nb + rest = m.head[v].size BY <1>1
<1>5. B = FreeIn(m.head) \ {m.top, v} BY DEF Loose
<1>6. UsedIn(m.head) \subseteq DOMAIN m.head BY Parts
<1> HIDE DEF v, size, rest, B
<1>10. CASE rest >= MIN_CHUNK_SIZE
  <2>1. SplitDone(m, s, B, v, b, nb, rest) BY <1>1, <1>2, <1>4, <1>10, SplitKeeps, Zenon
  <2> HIDE DEF s, b
  <2>2. /\ HeapOK(s) /\ BinsOK(s, B) /\ SameTop(m, s)
        /\ UsedIn(s.head) = UsedIn(m.head) \cup {v} /\ FreeIn(s.head) = (FreeIn(m.head) \ {v}) \cup {b}
        /\ b \notin DOMAIN m.head /\ b # Null /\ s.head[v].size = nb /\ s.head[b].size = rest
        /\ \A q \in DOMAIN m.head \ {v} : s.head[q].size = m.head[q].size
    BY <2>1 DEF SplitDone
  <2>3. DOMAIN s = Fields BY <2>2 DEF HeapOK
  <2>4. r.head = s.head /\ DOMAIN r = Fields /\ SameTop(s, r) /\ SameBins(s, r) /\ r.dv = b /\ r.dvsize = rest
    BY <2>3 DEF Fields, SameTop, SameBins
  <2> HIDE DEF r
  <2>5. HeapOK(r) BY <2>2, <2>4 DEF HeapOK, SameTop
  <2>6. r.top = m.top /\ r.segsize = m.segsize BY <2>2, <2>4 DEF SameTop
  <2>7. m.top \in DOMAIN m.head BY <1>1, <1>2, HeapFacts
  <2>8. DvOK(r) BY <2>2, <2>4, <2>6, <2>7 DEF DvOK
  <2>9. Loose(r) = B
    <3>1. Loose(r) = FreeIn(s.head) \ {m.top, b} BY <2>4, <2>6 DEF Loose
    <3>2. \A q \in FreeIn(m.head) : q # b BY <2>2, FreeIs
    <3> QED BY <1>5, <2>2, <3>1, <3>2
  <2>10. BinsOK(r, B) BY <2>2, <2>4, BinsFrame DEF SameBins
  <2>11. r.head[v].size \in nb .. nb + MIN_CHUNK_SIZE - 1 BY <2>2, <2>4, TopConstants
  <2>12. \A q \in UsedIn(m.head) : r.head[q].size = m.head[q].size BY <1>1, <1>6, <2>2, <2>4
  <2>13. Handed(m, r, v, nb)
    BY <1>1, <2>2, <2>4, <2>5, <2>6, <2>8, <2>9, <2>10, <2>11, <2>12 DEF Handed, Good
  <2>14. Took(m, Got(r, v), nb) /\ Got(r, v).p = v BY <2>13, TookGot, GotIs
  <2> QED BY <1>3, <1>10, <2>14 DEF v
<1>11. CASE ~(rest >= MIN_CHUNK_SIZE)
  <2>1. size = m.head[v].size BY <1>1
  <2>2. /\ HeapOK(t) /\ BinsOK(t, B) /\ SameTop(m, t)
        /\ UsedIn(t.head) = UsedIn(m.head) \cup {v} /\ FreeIn(t.head) = FreeIn(m.head) \ {v}
        /\ \A q \in DOMAIN m.head : t.head[q].size = m.head[q].size
    BY <1>1, <1>2, <2>1, WholeIs
  <2> HIDE DEF t
  <2>3. DOMAIN t = Fields BY <2>2 DEF HeapOK
  <2>4. w.head = t.head /\ DOMAIN w = Fields /\ SameTop(t, w) /\ SameBins(t, w) /\ w.dv = Null /\ w.dvsize = 0
    BY <2>3 DEF Fields, SameTop, SameBins
  <2> HIDE DEF w
  <2>5. HeapOK(w) BY <2>2, <2>4 DEF HeapOK, SameTop
  <2>6. w.top = m.top /\ w.segsize = m.segsize BY <2>2, <2>4 DEF SameTop
  <2>8. DvOK(w) BY <2>4 DEF DvOK
  <2>9. Loose(w) = B
    <3>1. Loose(w) = FreeIn(t.head) \ {m.top, Null} BY <2>4, <2>6 DEF Loose
    <3>2. \A q \in FreeIn(m.head) : q # Null
      <4> SUFFICES ASSUME NEW q \in FreeIn(m.head) PROVE q # Null OBVIOUS
      <4>1. q \in DOMAIN m.head BY FreeIs
      <4>2. q \in Nat BY <1>2, <4>1, HeapFacts
      <4> QED BY <4>2 DEF Null
    <3> QED BY <1>5, <2>2, <3>1, <3>2
  <2>10. BinsOK(w, B)
    <3>1. \A q \in B : w.head[q].size = t.head[q].size BY <2>4
    <3> QED BY <2>2, <2>4, <3>1, BinsFrame DEF SameBins
  <2>11. w.head[v].size \in nb .. nb + MIN_CHUNK_SIZE - 1 BY <1>1, <1>4, <1>11, <2>2, <2>4, TopConstants
  <2>12. \A q \in UsedIn(m.head) : w.head[q].size = m.head[q].size BY <1>6, <2>2, <2>4
  <2>13. Handed(m, w, v, nb)
    BY <1>1, <2>2, <2>4, <2>5, <2>6, <2>8, <2>9, <2>10, <2>11, <2>12 DEF Handed, Good
  <2>14. Took(m, Got(w, v), nb) /\ Got(w, v).p = v BY <2>13, TookGot, GotIs
  <2> QED BY <1>3, <1>11, <2>14 DEF v
<1> QED BY <1>10, <1>11

-----------------------------------------------------------------------------
(* From top and from more_core.                                            *)

\* A request from top leaves the rest as top.
LEMMA TakeTopTook ==
  ASSUME NEW m, Good(m), NEW nb \in Nat, nb >= MIN_CHUNK_SIZE, nb < m.topsize
  PROVE  Took(m, TakeTop(m, nb), nb) /\ TakeTop(m, nb).p = m.top
<1> DEFINE h == m.head
           v == m.top
           b == v + nb
           end == m.segsize - TOP_FOOT_SIZE
           g == Write(set_size_and_pinuse_of_inuse_chunk(h, v, nb), b, Unused(m.topsize - nb))
           s == [m EXCEPT !.head = set_size_and_pinuse_of_inuse_chunk(h, v, nb)]
           r == SetTop(s, b, m.topsize - nb)
           B == Loose(m)
<1>1. TakeTop(m, nb) = Got(r, v) BY DEF TakeTop
<1>2. HeapOK(m) /\ DvOK(m) /\ BinsOK(m, B) BY DEF Good
<1>3. DOMAIN m = Fields /\ m.segsize \in 0 .. MAX_SIZE_T BY <1>2 DEF HeapOK
<1>4. Tile(h, v, end) /\ m.topsize = h[v].size BY <1>2, TopConstants DEF HeapOK
<1>5. v \in DOMAIN h BY <1>4, TileFacts
<1>6. v \in Nat /\ m.topsize \in Nat /\ v \notin UsedIn(h) BY <1>2, <1>5, HeapFacts
<1>7. TopSplit(h, g, v, end, nb, b)
  <2>1. nb \in Nat /\ nb >= MIN_CHUNK_SIZE /\ nb < h[v].size BY <1>4
  <2> HIDE DEF h, v, end
  <2>2. TopSplit(h, Write(set_size_and_pinuse_of_inuse_chunk(h, v, nb), b, Unused(h[v].size - nb)), v, end, nb, b)
    BY <1>4, <2>1, UseTop, Zenon
  <2> QED BY <1>4, <2>2
<1>8. r.head = g /\ DOMAIN r = Fields /\ SameDv(m, r) /\ SameBins(m, r) /\ r.top = b /\ r.topsize = m.topsize - nb
      /\ r.segsize = m.segsize
  BY <1>3 DEF SetTop, Fields, SameDv, SameBins
<1> HIDE DEF g, r, s
<1>9. b # Null BY <1>6 DEF Null
<1>10. UsedIn(h) \subseteq DOMAIN h BY Parts
<1> HIDE DEF h, v, end, b
<1>11. /\ Tile(g, b, end) /\ b \notin DOMAIN h
       /\ DOMAIN g = DOMAIN h \cup {b} /\ UsedIn(g) = UsedIn(h) \cup {v}
       /\ g[v].size = nb /\ g[b].size = h[v].size - nb
       /\ \A q \in DOMAIN h \ {v} : g[q].size = h[q].size
  BY <1>7 DEF TopSplit
<1>12. HeapOK(r) BY <1>3, <1>4, <1>8, <1>11 DEF HeapOK, end
<1>13. FreeIn(g) = (FreeIn(h) \ {v}) \cup {b}
  <2>2. \A q : q \in FreeIn(g) <=> q \in DOMAIN g /\ q \notin UsedIn(g) BY FreeIs
  <2>3. \A q : q \in FreeIn(h) <=> q \in DOMAIN h /\ q \notin UsedIn(h) BY FreeIs
  <2> QED BY <1>5, <1>10, <1>11, <2>2, <2>3 DEF h, v
<1>14. DvOK(r)
  <2>1. CASE m.dv = Null /\ m.dvsize = 0 BY <1>8, <2>1 DEF DvOK, SameDv
  <2>2. CASE m.dv \in FreeIn(h) /\ m.dv # v /\ m.dvsize = h[m.dv].size
    <3>1. m.dv \in DOMAIN h BY <2>2, FreeIs
    <3>2. m.dv # b /\ g[m.dv].size = h[m.dv].size BY <1>11, <2>2, <3>1
    <3> QED BY <1>8, <1>13, <2>2, <3>2 DEF DvOK, SameDv
  <2> QED BY <1>2, <2>1, <2>2 DEF DvOK, h, v
<1>15. Loose(r) = B
  <2>1. Loose(r) = FreeIn(g) \ {b, m.dv} BY <1>8 DEF Loose, SameDv
  <2>2. B = FreeIn(h) \ {v, m.dv} BY DEF Loose, h, v
  <2>3. \A q \in FreeIn(h) : q # b BY <1>11, FreeIs
  <2> QED BY <1>13, <2>1, <2>2, <2>3
<1>16. BinsOK(r, B)
  <2>1. \A q \in B : q \in DOMAIN h \ {v} BY FreeIs DEF Loose, h, v
  <2>2. \A q \in B : r.head[q].size = m.head[q].size BY <1>8, <1>11, <2>1 DEF h
  <2> QED BY <1>2, <1>8, <2>2, BinsFrame DEF SameBins
<1>17. r.head[v].size \in nb .. nb + MIN_CHUNK_SIZE - 1 BY <1>8, <1>11, TopConstants
<1>18. \A q \in UsedIn(h) : r.head[q].size = h[q].size BY <1>6, <1>8, <1>10, <1>11 DEF h, v
<1>19. Handed(m, r, v, nb) BY <1>6, <1>8, <1>11, <1>12, <1>14, <1>15, <1>16, <1>17, <1>18 DEF Handed, Good, h, v
<1>20. Took(m, Got(r, v), nb) /\ Got(r, v).p = v BY <1>19, TookGot, GotIs
<1> QED BY <1>1, <1>20 DEF v

-----------------------------------------------------------------------------
\* The heap has grown at its end.
Grew(m, n, tsize) ==
  /\ Good(n) /\ n.segsize = m.segsize + tsize /\ n.topsize >= m.topsize + tsize - TOP_FOOT_SIZE /\ n.topsize \in Nat
  /\ UsedIn(n.head) = UsedIn(m.head) /\ \A q \in UsedIn(m.head) : n.head[q].size = m.head[q].size

\* A new top, written over what was from a on.
NewTop(h, g, a, size) ==
  /\ Tile(g, a, a + size) /\ g[a].size = size
  /\ \A q : q \in DOMAIN g <=> q \in DOMAIN h /\ q =< a
  /\ \A q : q \in UsedIn(g) <=> q \in UsedIn(h) /\ q < a
  /\ \A q \in DOMAIN h : q < a => g[q].size = h[q].size

\* What is written behind all chunks is the new top.
LEMMA NewTopIs ==
  ASSUME NEW h, NEW top, NEW end, Tile(h, top, end), NEW a \in DOMAIN h, a \in PinIn(h), NEW size \in Nat \ {0},
         \A q \in DOMAIN h : q < a + size
  PROVE  NewTop(h, Write(h, a, Unused(size)), a, size)
<1> DEFINE g == Write(h, a, Unused(size))
<1>1. /\ Tile(g, a, a + size) /\ g[a].size = size
      /\ \A q : q \in DOMAIN g <=> q \in DOMAIN h /\ q =< a
      /\ \A q : q \in UsedIn(g) <=> q \in UsedIn(h) /\ q < a
      /\ \A q \in DOMAIN h : q < a => g[q].size = h[q].size
  BY TopFrom
<1> HIDE DEF g
<1> QED BY <1>1 DEF NewTop, g

\* Where only top is resized.
LEMMA Resized ==
  ASSUME NEW m, Good(m), m.top # Null, NEW size \in Nat \ {0}, NEW seg \in 0 .. MAX_SIZE_T,
         m.segsize - m.topsize + size = seg,
         NEW n, DOMAIN n = Fields, n.head = Write(m.head, m.top, Unused(size)), n.top = m.top, n.topsize = size,
         n.segsize = seg, SameDv(m, n), SameBins(m, n)
  PROVE  /\ Good(n) /\ UsedIn(n.head) = UsedIn(m.head) /\ FreeIn(n.head) = FreeIn(m.head)
         /\ \A q \in DOMAIN m.head : q # m.top => n.head[q].size = m.head[q].size
<1> DEFINE h == m.head
           v == m.top
           end == m.segsize - TOP_FOOT_SIZE
           g == Write(h, v, Unused(size))
           B == Loose(m)
<1>2. HeapOK(m) /\ DvOK(m) /\ BinsOK(m, B) BY DEF Good
<1>4. Tile(h, v, end) /\ m.topsize = h[v].size BY <1>2 DEF HeapOK
<1>5. v \in DOMAIN h /\ v \in Nat /\ v \in PinIn(h) /\ v \notin UsedIn(h) /\ (\A q \in DOMAIN h \ {v} : q < v)
      /\ \A q \in DOMAIN h : q \in Nat
  BY <1>4, TileFacts
<1>6. m.topsize \in Nat /\ m.segsize \in Nat BY <1>2, <1>5, HeapFacts
<1>7. NewTop(h, g, v, size)
  <2>1. \A q \in DOMAIN h : q < v + size BY <1>5
  <2> HIDE DEF h, v, end
  <2> QED BY <1>4, <1>5, <2>1, NewTopIs, Zenon
<1>8. n.head = g /\ n.top = v OBVIOUS
<1>9. v + h[v].size = end BY <1>4 DEF Tile
<1>10. \A q \in DOMAIN h : q =< v BY <1>5
<1>11. UsedIn(h) \subseteq DOMAIN h BY Parts
<1> HIDE DEF g, h, v
<1>12. /\ Tile(g, v, v + size) /\ g[v].size = size /\ DOMAIN g = DOMAIN h /\ UsedIn(g) = UsedIn(h)
       /\ \A q \in DOMAIN h : q # v => g[q].size = h[q].size
  BY <1>5, <1>7, <1>10, <1>11 DEF NewTop
<1>13. v + size = seg - TOP_FOOT_SIZE BY <1>4, <1>5, <1>6, <1>9, TopConstants
<1>14. HeapOK(n) BY <1>8, <1>12, <1>13 DEF HeapOK
<1>15. FreeIn(g) = FreeIn(h) BY <1>12, FreeIs
<1>16. DvOK(n)
  <2>1. CASE m.dv = Null /\ m.dvsize = 0 BY <2>1 DEF DvOK, SameDv
  <2>2. CASE m.dv \in FreeIn(h) /\ m.dv # v /\ m.dvsize = h[m.dv].size
    <3>1. m.dv \in DOMAIN h BY <2>2, FreeIs
    <3>2. g[m.dv].size = h[m.dv].size BY <1>12, <2>2, <3>1
    <3> QED BY <1>8, <1>15, <2>2, <3>2 DEF DvOK, SameDv
  <2> QED BY <1>2, <2>1, <2>2 DEF DvOK, h, v
<1>17. Loose(n) = B BY <1>8, <1>15 DEF Loose, SameDv, h, v
<1>18. BinsOK(n, B)
  <2>1. \A q \in B : q \in DOMAIN h /\ q # v BY FreeIs DEF Loose, h, v
  <2>2. \A q \in B : n.head[q].size = m.head[q].size BY <1>8, <1>12, <2>1 DEF h
  <2> QED BY <1>2, <2>2, BinsFrame DEF SameBins
<1> QED BY <1>8, <1>12, <1>14, <1>15, <1>16, <1>17, <1>18 DEF Good, h, v

\* More memory behind the heap makes top larger.
LEMMA ExtendedGrew ==
  ASSUME NEW m, Good(m), NEW tsize \in Nat, tsize > TOP_FOOT_SIZE, m.segsize + tsize =< MAX_SIZE_T
  PROVE  Grew(m, Extended(m, tsize), tsize)
<1> DEFINE n == Extended(m, tsize)
<1>1. HeapOK(m) /\ DvOK(m) /\ BinsOK(m, Loose(m)) BY DEF Good
<1>2. DOMAIN m = Fields /\ m.segsize \in 0 .. MAX_SIZE_T BY <1>1 DEF HeapOK
<1>3. CASE m.top # Null
  <2> DEFINE size == m.topsize + tsize
  <2>1. /\ DOMAIN n = Fields /\ n.head = Write(m.head, m.top, Unused(size)) /\ n.top = m.top /\ n.topsize = size
        /\ n.segsize = m.segsize + tsize /\ SameDv(m, n) /\ SameBins(m, n)
    BY <1>2, <1>3 DEF Extended, init_top, SetTop, Fields, SameDv, SameBins
  <2>2. Tile(m.head, m.top, m.segsize - TOP_FOOT_SIZE) BY <1>1, <1>3 DEF HeapOK
  <2>3. m.top \in DOMAIN m.head /\ m.top \notin UsedIn(m.head) BY <2>2, TileFacts
  <2>4. m.topsize \in Nat BY <1>1, <2>3, HeapFacts
  <2> HIDE DEF n
  <2>5. size \in Nat \ {0} /\ n.segsize \in 0 .. MAX_SIZE_T /\ m.segsize - m.topsize + size = n.segsize
    BY <1>2, <2>1, <2>4, TopConstants
  <2> HIDE DEF size
  <2>6. /\ Good(n) /\ UsedIn(n.head) = UsedIn(m.head) /\ FreeIn(n.head) = FreeIn(m.head)
        /\ \A q \in DOMAIN m.head : q # m.top => n.head[q].size = m.head[q].size
    BY <1>3, <2>1, <2>5, Resized
  <2>7. \A q \in UsedIn(m.head) : n.head[q].size = m.head[q].size BY <2>3, <2>6, Parts
  <2>8. n.topsize \in Nat /\ n.topsize >= m.topsize + tsize - TOP_FOOT_SIZE BY <2>1, <2>4, TopConstants DEF size
  <2> QED BY <2>1, <2>6, <2>7, <2>8 DEF Grew, n
<1>4. CASE m.top = Null
  <2> DEFINE size == tsize - TOP_FOOT_SIZE
             g == Write(m.head, 0, Unused(size))
  <2>1. /\ DOMAIN n = Fields /\ n.head = g /\ n.top = 0 /\ n.topsize = size
        /\ n.segsize = m.segsize + tsize /\ SameDv(m, n) /\ SameBins(m, n)
    BY <1>2, <1>4 DEF Extended, init_top, SetTop, Fields, SameDv, SameBins
  <2>2. DOMAIN m.head = {} /\ m.segsize = 0 /\ m.topsize = 0
    <3>1. SUFFICES ASSUME Tile(m.head, m.top, m.segsize - TOP_FOOT_SIZE) PROVE FALSE BY <1>1 DEF HeapOK
    <3>2. m.top \in Nat BY <3>1, TileFacts
    <3> QED BY <1>4, <3>2 DEF Null
  <2>3. size \in Nat \ {0} BY TopConstants
  <2> HIDE DEF size, n
  <2>4. Tile(g, 0, size) /\ g[0].size = size /\ DOMAIN g = {0} /\ UsedIn(g) = {} BY <2>2, <2>3, FirstTop
  <2> HIDE DEF g
  <2>5. n.segsize \in 0 .. MAX_SIZE_T /\ n.segsize - TOP_FOOT_SIZE = size BY <2>1, <2>2, TopConstants DEF size
  <2>6. HeapOK(n) BY <2>1, <2>4, <2>5 DEF HeapOK
  <2>7. FreeIn(m.head) = {} /\ UsedIn(m.head) = {} BY <2>2, Parts
  <2>8. m.dv = Null /\ m.dvsize = 0 BY <1>1, <2>7 DEF DvOK
  <2>9. DvOK(n) BY <2>1, <2>8 DEF DvOK, SameDv
  <2>10. FreeIn(g) = {0} BY <2>4, FreeIs
  <2>11. Loose(n) = {} /\ Loose(m) = {} BY <2>1, <2>7, <2>10 DEF Loose
  <2>12. BinsOK(n, {}) BY <1>1, <2>1, <2>11, BinsFrame DEF SameBins
  <2>13. n.topsize \in Nat /\ n.topsize >= m.topsize + tsize - TOP_FOOT_SIZE BY <2>1, <2>2, <2>3, TopConstants DEF size
  <2> QED BY <2>1, <2>4, <2>6, <2>7, <2>9, <2>11, <2>12, <2>13 DEF Grew, Good, n
<1> QED BY <1>3, <1>4

-----------------------------------------------------------------------------
(* All of internal_malloc, and what it prefers.                            *)

\* Rounded up to pages.
LEMMA GranularityIs ==
  ASSUME NEW x \in Nat PROVE granularity_align(x) \in Nat /\ granularity_align(x) >= x
<1> DEFINE k == div_ceil(x, page_size)
<1>1. page_size \in Nat \ {0} BY KmmAssumption
<1>2. k \in Nat
  <2>1. x \div page_size \in Nat BY <1>1, DivMod
  <2> QED BY <2>1 DEF div_ceil
<1>3. page_size * k >= x
  <2> DEFINE d == x \div page_size
             e == x % page_size
  <2>1. d \in Nat /\ e \in 0 .. page_size - 1 /\ x = page_size * d + e BY <1>1, DivMod
  <2>2. k = IF e # 0 THEN d + 1 ELSE d BY DEF div_ceil
  <2> HIDE DEF k, d, e
  <2>3. CASE e = 0 BY <1>1, <2>1, <2>2, <2>3
  <2>4. CASE e # 0
    <3>1. page_size * (d + 1) = page_size * d + page_size BY <1>1, <2>1
    <3> QED BY <1>1, <2>1, <2>2, <2>4, <3>1
  <2> QED BY <2>3, <2>4
<1>4. granularity_align(x) = k * page_size BY DEF granularity_align
<1> HIDE DEF k
<1> QED BY <1>1, <1>2, <1>3, <1>4

\* What is handed out, if there is room for what was asked of more_core.
Granted(m, r, nb) ==
  /\ r.asked \in Nat
  /\ m.segsize + r.asked =< MAX_SIZE_T =>
       /\ Good(r.m) /\ r.m.segsize = m.segsize + r.asked
       /\ r.p \notin UsedIn(m.head) /\ UsedIn(r.m.head) = UsedIn(m.head) \cup {r.p}
       /\ r.m.head[r.p].size \in nb .. nb + MIN_CHUNK_SIZE - 1
       /\ \A q \in UsedIn(m.head) : r.m.head[q].size = m.head[q].size

\* What was taken from the heap is granted.
LEMMA TookGranted ==
  ASSUME NEW m, Good(m), NEW r, NEW nb, Took(m, r, nb) PROVE Granted(m, r, nb)
<1>1. m.segsize \in Nat BY TopConstants DEF Good, HeapOK
<1> QED BY <1>1 DEF Took, Handed, Granted

\* A request from more_core: granted from the larger top, or a panic (sys_alloc).
LEMMA SysAllocGranted ==
  ASSUME NEW m, Good(m), NEW nb \in Nat, nb >= MIN_CHUNK_SIZE, ~(nb < m.topsize), m.topsize \in Nat
  PROVE  Granted(m, sys_alloc(m, nb), nb) /\ (m.top # Null => sys_alloc(m, nb).p = m.top)
<1> DEFINE x == nb - m.topsize + SYS_ALLOC_PADDING
           asize == granularity_align(x)
           n == Extended(m, asize)
           t == TakeTop(n, nb)
           r == [t EXCEPT !.asked = asize]
<1>1. x \in Nat /\ x = nb - m.topsize + TOP_FOOT_SIZE + 1 BY TopConstants DEF SYS_ALLOC_PADDING
<1>2. r = sys_alloc(m, nb) BY Zenon DEF sys_alloc
<1> HIDE DEF x
<1>3. asize \in Nat /\ asize >= x BY <1>1, GranularityIs
<1>4. asize > TOP_FOOT_SIZE BY <1>1, <1>3, TopConstants
<1> HIDE DEF asize
<1>5. r.asked = asize /\ r.m = t.m /\ r.p = t.p BY DEF TakeTop, Got
<1>6. t.p = n.top BY DEF TakeTop, Got
<1>7. m.top # Null => n.top = m.top
  <2>1. DOMAIN m = Fields BY DEF Good, HeapOK
  <2> QED BY <2>1 DEF Extended, init_top, SetTop, Fields
<1>8. ASSUME m.segsize + asize =< MAX_SIZE_T
      PROVE  /\ Good(r.m) /\ r.m.segsize = m.segsize + r.asked
             /\ r.p \notin UsedIn(m.head) /\ UsedIn(r.m.head) = UsedIn(m.head) \cup {r.p}
             /\ r.m.head[r.p].size \in nb .. nb + MIN_CHUNK_SIZE - 1
             /\ \A q \in UsedIn(m.head) : r.m.head[q].size = m.head[q].size
  <2>1. Grew(m, n, asize) BY <1>3, <1>4, <1>8, ExtendedGrew
  <2> HIDE DEF n
  <2>2. /\ Good(n) /\ n.segsize = m.segsize + asize /\ n.topsize >= m.topsize + asize - TOP_FOOT_SIZE /\ n.topsize \in Nat
        /\ UsedIn(n.head) = UsedIn(m.head) /\ \A q \in UsedIn(m.head) : n.head[q].size = m.head[q].size
    BY <2>1 DEF Grew
  <2>3. nb < n.topsize BY <1>1, <1>3, <2>2, TopConstants
  <2>4. Took(n, t, nb) BY <2>2, <2>3, TakeTopTook
  <2> HIDE DEF t, r
  <2>5. Handed(n, t.m, t.p, nb) BY <2>4 DEF Took
  <2> QED BY <1>5, <2>2, <2>5 DEF Handed
<1> HIDE DEF r, t
<1> QED BY <1>2, <1>3, <1>5, <1>6, <1>7, <1>8 DEF Granted

-----------------------------------------------------------------------------
\* The chunk p is a good choice for nb units: top only when nothing else fits,
\* another free one when none that fits is smaller, if the request is large.
Chosen(m, p, nb) ==
  LET fits == {q \in FreeIn(m.head) \ {m.top} : m.head[q].size >= nb}
  IN  /\ p = m.top => fits = {}
      /\ p \in FreeIn(m.head) \ {m.top} /\ ~is_small(nb) => \A q \in fits : m.head[p].size =< m.head[q].size

\* Nothing in the bins fits when the searches find nothing.
LEMMA NoSmallFit ==
  ASSUME NEW m, Good(m), NEW nb \in Nat, nb >= MIN_CHUNK_SIZE, is_small(nb),
         Fitting(m, nb) = {}, Larger(m, nb) = {}, m.treemap = {}, NEW q \in Loose(m)
  PROVE  ~(m.head[q].size >= nb)
<1> DEFINE s == m.head[q].size
           B == Loose(m)
<1>1. BinsOK(m, B) BY DEF Good
<1>2. s \in MIN_CHUNK_SIZE .. MAX_SIZE_T BY <1>1 DEF BinsOK
<1>3. SUFFICES ASSUME s >= nb PROVE FALSE OBVIOUS
<1>4. CASE is_small(s)
  <2>1. s \in Nat /\ s \in MIN_CHUNK_SIZE .. NSMALLBINS - 1 BY <1>2, <1>4, Sized
  <2>2. IsList(m.smallbins[s], OfSize(m.head, B, s)) BY <1>1, <2>1 DEF BinsOK, SmallOK
  <2>3. q \in OfSize(m.head, B, s) BY DEF OfSize
  <2>4. m.smallbins[s] # <<>> BY <2>2, <2>3, ListOf
  <2>5. s \in m.smallmap BY <1>1, <2>1, <2>4 DEF BinsOK, SmallOK
  <2>6. s = nb \/ s > nb BY <1>3, <2>1
  <2> QED BY <2>5, <2>6 DEF Fitting, Larger
<1>5. CASE ~is_small(s)
  <2> DEFINE i == compute_tree_index(s)
             S == InBin(m.head, B, i)
  <2>1. s \in SizesOf(i) /\ i \in 0 .. NTREEBINS - 1 BY <1>2, <1>5, Sized
  <2>2. TreeOK(m.head, m.treebins[i], i, S) BY <1>1, <2>1 DEF BinsOK, TreesOK
  <2>3. q \in S BY <2>1 DEF InBin
  <2>4. \E z \in DOMAIN m.treebins[i] : NodeSize(m.head, m.treebins[i], z) = m.head[q].size BY <2>2, <2>3 DEF TreeOK
  <2>5. i \in m.treemap BY <1>1, <2>1, <2>4 DEF BinsOK, TreesOK
  <2> QED BY <2>5
<1> QED BY <1>4, <1>5

\* All free chunks but top.
LEMMA FreeParts ==
  ASSUME NEW m, Good(m), NEW q \in FreeIn(m.head) \ {m.top}
  PROVE  q \in Loose(m) \/ (q = m.dv /\ m.dvsize = m.head[q].size)
<1>1. CASE q # m.dv BY <1>1 DEF Loose
<1>2. CASE q = m.dv
  <2>1. q \in DOMAIN m.head BY FreeIs
  <2>2. q \in Nat BY <2>1, HeapFacts DEF Good
  <2>3. q # Null BY <2>2 DEF Null
  <2> QED BY <1>2, <2>3 DEF Good, DvOK
<1> QED BY <1>1, <1>2

\* Whatever the way, internal_malloc hands out one free chunk of the size asked
\* for, and takes top last.
LEMMA InternalMallocIs ==
  ASSUME NEW m, Good(m), NEW nb \in MIN_CHUNK_SIZE .. MAX_SIZE_T
  PROVE  Granted(m, internal_malloc(m, nb), nb) /\ Chosen(m, internal_malloc(m, nb).p, nb)
<1> DEFINE small == is_small(nb)
           v == BestLarge(m, nb)
           r == internal_malloc(m, nb)
           c1 == small /\ Fitting(m, nb) # {}
           c2 == small /\ Fitting(m, nb) = {} /\ nb > m.dvsize /\ Larger(m, nb) # {}
           c3 == small /\ Fitting(m, nb) \cup Larger(m, nb) = {} /\ nb > m.dvsize /\ m.treemap # {}
           c4 == ~small /\ v # Null /\ ~DvBetter(m, nb, v)
<1>1. nb \in Nat /\ nb >= MIN_CHUNK_SIZE /\ m.dvsize \in Nat BY TopConstants, DvOKNat
<1>2. \A q \in Loose(m) : q # m.top BY DEF Loose
<1>3. BinsOK(m, Loose(m)) BY DEF Good
<1>4. small <=> nb < NSMALLBINS BY DEF is_small
<1>5. m.topsize \in Nat
  <2>1. HeapOK(m) BY DEF Good
  <2>2. CASE m.topsize = 0 BY <2>2
  <2>3. CASE m.topsize # 0
    <3>1. Tile(m.head, m.top, m.segsize - TOP_FOOT_SIZE) BY <2>1, <2>3 DEF HeapOK
    <3>2. m.top \in DOMAIN m.head BY <3>1, TileFacts
    <3> QED BY <2>1, <3>2, HeapFacts
  <2> QED BY <2>2, <2>3
<1>6. r = CASE c1 -> TakeFitting(m, nb)
            [] c2 -> SplitLarger(m, nb)
            [] c3 -> tmalloc_small(m, nb)
            [] c4 -> tmalloc_large(m, nb)
            [] OTHER -> IF nb =< m.dvsize THEN TakeDv(m, nb)
                        ELSE IF nb < m.topsize THEN TakeTop(m, nb) ELSE sys_alloc(m, nb)
  BY Zenon DEF internal_malloc
<1>7. ~small => nb \in LargeSizes BY <1>1, <1>4, TopConstants DEF LargeSizes
<1> HIDE DEF r
<1>10. CASE c1
  <2>1. r = TakeFitting(m, nb) BY <1>6, <1>10
  <2>2. Took(m, r, nb) /\ r.p \in Loose(m) BY <1>1, <1>10, <2>1, TakeFittingTook
  <2>3. Chosen(m, r.p, nb) BY <1>2, <1>10, <2>2 DEF Chosen
  <2> QED BY <2>2, <2>3, TookGranted DEF r
<1>11. CASE c2
  <2>1. r = SplitLarger(m, nb) BY <1>6, <1>11
  <2>2. m.dvsize < NSMALLBINS BY <1>1, <1>4, <1>11, TopConstants
  <2>3. Took(m, r, nb) /\ r.p \in Loose(m) BY <1>1, <1>11, <2>1, <2>2, SplitLargerTook
  <2>4. Chosen(m, r.p, nb) BY <1>2, <1>11, <2>3 DEF Chosen
  <2> QED BY <2>3, <2>4, TookGranted DEF r
<1>12. CASE c3
  <2>1. r = tmalloc_small(m, nb) BY <1>6, <1>12
  <2>2. m.dvsize < NSMALLBINS BY <1>1, <1>4, <1>12, TopConstants
  <2>3. Took(m, r, nb) /\ r.p \in Loose(m) BY <1>1, <1>4, <1>12, <2>1, <2>2, TmallocSmallTook
  <2>4. Chosen(m, r.p, nb) BY <1>2, <1>12, <2>3 DEF Chosen
  <2> QED BY <2>3, <2>4, TookGranted DEF r
<1>13. CASE c4
  <2>1. r = tmalloc_large(m, nb) BY <1>6, <1>13
  <2>2. Took(m, r, nb) /\ r.p = v /\ LeastFit(m, Loose(m), nb, v) BY <1>7, <1>13, <2>1, TmallocLargeTook
  <2>3. m.dvsize < nb \/ m.dvsize > m.head[v].size
    <3>1. v \in Loose(m) BY <2>2 DEF LeastFit
    <3>2. m.head[v].size \in Nat BY <3>1, GoodFacts
    <3> QED BY <1>1, <1>13, <3>2 DEF DvBetter
  <2>4. ASSUME NEW q \in FreeIn(m.head) \ {m.top}, m.head[q].size >= nb PROVE m.head[v].size =< m.head[q].size
    <3>1. CASE q \in Loose(m) BY <2>2, <2>4, <3>1 DEF LeastFit
    <3>2. CASE q = m.dv /\ m.dvsize = m.head[q].size
      <4>1. v \in Loose(m) BY <2>2 DEF LeastFit
      <4>2. m.head[v].size \in Nat BY <4>1, GoodFacts
      <4> QED BY <1>1, <2>3, <2>4, <3>2, <4>2
    <3> QED BY <2>4, <3>1, <3>2, FreeParts
  <2>5. r.p # m.top BY <1>2, <2>2 DEF LeastFit
  <2>6. Chosen(m, r.p, nb)
    <3> HIDE DEF v
    <3> QED BY <2>2, <2>4, <2>5 DEF Chosen
  <2> QED BY <2>2, <2>6, TookGranted DEF r
<1>14. CASE ~c1 /\ ~c2 /\ ~c3 /\ ~c4
  <2>0. r = IF nb =< m.dvsize THEN TakeDv(m, nb)
            ELSE IF nb < m.topsize THEN TakeTop(m, nb) ELSE sys_alloc(m, nb)
    BY <1>6, <1>14, Zenon
  <2>1. ASSUME ~(nb =< m.dvsize), NEW q \in FreeIn(m.head) \ {m.top} PROVE ~(m.head[q].size >= nb)
    <3>1. CASE q = m.dv /\ m.dvsize = m.head[q].size BY <1>1, <2>1, <3>1
    <3>2. CASE q \in Loose(m)
      <4>1. CASE small
        <5>1. Fitting(m, nb) = {} BY <1>14, <4>1
        <5>2. Larger(m, nb) = {} BY <1>1, <1>14, <2>1, <4>1, <5>1
        <5>3. m.treemap = {} BY <1>1, <1>14, <2>1, <4>1, <5>1, <5>2
        <5> QED BY <1>1, <3>2, <4>1, <5>1, <5>2, <5>3, NoSmallFit
      <4>2. CASE ~small
        <5>1. v = Null BY <1>1, <1>14, <2>1, <4>2 DEF DvBetter
        <5>2. IF \E p \in Loose(m) : m.head[p].size >= nb THEN LeastFit(m, Loose(m), nb, v) ELSE v = Null
          BY <1>3, <1>7, <4>2, BestIs
        <5>3. Null \notin Loose(m)
          <6>1. \A z \in Loose(m) : z \in Nat BY GoodFacts
          <6> QED BY <6>1 DEF Null
        <5> QED BY <3>2, <5>1, <5>2, <5>3 DEF LeastFit
      <4> QED BY <4>1, <4>2
    <3> QED BY <2>1, <3>1, <3>2, FreeParts
  <2>2. CASE nb =< m.dvsize
    <3>1. r = TakeDv(m, nb) BY <2>0, <2>2
    <3>2. Took(m, r, nb) /\ r.p = m.dv BY <1>1, <2>2, <3>1, TakeDvTook
    <3>3. m.dv # m.top /\ m.dv \in FreeIn(m.head) /\ m.dvsize = m.head[m.dv].size BY <1>1, <2>2, TopConstants, DvFacts
    <3>4. ASSUME ~small, NEW q \in FreeIn(m.head) \ {m.top}, m.head[q].size >= nb PROVE m.dvsize =< m.head[q].size
      <4>1. CASE q = m.dv /\ m.dvsize = m.head[q].size BY <1>1, <4>1
      <4>2. CASE q \in Loose(m)
        <5>1. IF \E p \in Loose(m) : m.head[p].size >= nb THEN LeastFit(m, Loose(m), nb, v) ELSE v = Null
          BY <1>3, <1>7, <3>4, BestIs
        <5>2. LeastFit(m, Loose(m), nb, v) BY <3>4, <4>2, <5>1
        <5>3. v \in Loose(m) /\ m.head[v].size =< m.head[q].size BY <3>4, <4>2, <5>2 DEF LeastFit
        <5>4. v # Null /\ m.head[v].size \in Nat /\ m.head[q].size \in Nat
          <6>1. v \in Nat /\ m.head[v].size \in Nat /\ m.head[q].size \in Nat BY <4>2, <5>3, GoodFacts
          <6> QED BY <6>1 DEF Null
        <5>5. m.dvsize =< m.head[v].size BY <1>14, <3>4, <5>4 DEF DvBetter
        <5> QED BY <1>1, <5>3, <5>4, <5>5
      <4> QED BY <3>4, <4>1, <4>2, FreeParts
    <3>5. Chosen(m, r.p, nb) BY <3>2, <3>3, <3>4 DEF Chosen
    <3> QED BY <3>2, <3>5, TookGranted DEF r
  <2>3. CASE ~(nb =< m.dvsize) /\ nb < m.topsize
    <3>1. r = TakeTop(m, nb) BY <2>0, <2>3
    <3>2. Took(m, r, nb) /\ r.p = m.top BY <1>1, <2>3, <3>1, TakeTopTook
    <3>3. Chosen(m, r.p, nb) BY <2>1, <2>3, <3>2 DEF Chosen
    <3> QED BY <3>2, <3>3, TookGranted DEF r
  <2>4. CASE ~(nb =< m.dvsize) /\ ~(nb < m.topsize)
    <3>1. r = sys_alloc(m, nb) BY <2>0, <2>4
    <3>2. Granted(m, r, nb) /\ (m.top # Null => r.p = m.top) BY <1>1, <1>5, <2>4, <3>1, SysAllocGranted
    <3>3. Chosen(m, r.p, nb)
      <4>1. \A q \in FreeIn(m.head) \ {m.top} : ~(m.head[q].size >= nb) BY <2>1, <2>4
      <4> QED BY <4>1 DEF Chosen
    <3> QED BY <3>2, <3>3 DEF r
  <2> QED BY <2>2, <2>3, <2>4
<1> QED BY <1>10, <1>11, <1>12, <1>13, <1>14

-----------------------------------------------------------------------------
(* A chunk is given back and merged with a free one behind it.             *)

\* The memory of the chunks from p to e is no longer used.
Gave(m, r, p, e) ==
  /\ Good(r) /\ r.segsize = m.segsize
  /\ UsedIn(r.head) = UsedIn(m.head) \ p .. e - 1
  /\ \A q \in UsedIn(r.head) : r.head[q].size = m.head[q].size

\* What is free outside of p .. e - 1 and belongs into the bins.
Rest(m, p, e) == Loose(m) \ p .. e - 1

\* The headers are written, the bins and the designated victim not yet.
Merged(m, n, p, e) ==
  /\ HeapOK(n) /\ SameTop(m, n) /\ n.head[p].size = e - p
  /\ p \in FreeIn(n.head) /\ p # n.top /\ m.top \notin p .. e - 1
  /\ FreeIn(n.head) = (FreeIn(m.head) \ p .. e - 1) \cup {p}
  /\ UsedIn(n.head) = UsedIn(m.head) \ p .. e - 1
  /\ \A q \in DOMAIN m.head \ p .. e - 1 : n.head[q].size = m.head[q].size

\* A run of chunks from p to e becomes one free chunk.
LEMMA MergedIs ==
  ASSUME NEW m, HeapOK(m), NEW p \in DOMAIN m.head, NEW e \in DOMAIN m.head, p < e,
         NEW g, Tile(g, m.top, m.segsize - TOP_FOOT_SIZE), Freed(m.head, g, p, e),
         NEW n, DOMAIN n = Fields, n.head = g, SameTop(m, n)
  PROVE  Merged(m, n, p, e)
<1> DEFINE h == m.head
           top == m.top
<1>1. /\ Tile(h, top, m.segsize - TOP_FOOT_SIZE) /\ m.topsize = h[top].size /\ top \in DOMAIN h /\ top \in Nat
      /\ m.segsize \in 0 .. MAX_SIZE_T
  BY HeapFacts DEF HeapOK
<1>2. p \in Nat /\ e \in Nat BY HeapFacts
<1>3. e =< top BY <1>1 DEF Tile
<1>4. top \notin p .. e - 1 /\ p # top BY <1>1, <1>2, <1>3
<1> HIDE DEF h, top
<1>5. /\ \A q : q \in DOMAIN g <=> q \in DOMAIN h /\ (q = p \/ q \notin p .. e - 1)
      /\ \A q : q \in UsedIn(g) <=> q \in UsedIn(h) /\ q \notin p .. e - 1
      /\ g[p].size = e - p
      /\ \A q \in DOMAIN h \ p .. e - 1 : g[q].size = h[q].size
  BY DEF Freed, h
<1>6. g[top].size = h[top].size BY <1>1, <1>4, <1>5
<1>7. HeapOK(n) BY <1>1, <1>6 DEF HeapOK, SameTop, h, top
<1>8. p \in p .. e - 1 BY <1>2
<1>9. p \in FreeIn(g) /\ FreeIn(g) = (FreeIn(h) \ p .. e - 1) \cup {p}
  <2>1. \A q : q \in FreeIn(g) <=> q \in DOMAIN g /\ q \notin UsedIn(g) BY FreeIs
  <2>2. \A q : q \in FreeIn(h) <=> q \in DOMAIN h /\ q \notin UsedIn(h) BY FreeIs
  <2>3. p \in DOMAIN h BY DEF h
  <2> QED BY <1>5, <1>8, <2>1, <2>2, <2>3
<1>10. UsedIn(g) = UsedIn(h) \ p .. e - 1 BY <1>5
<1> QED BY <1>4, <1>5, <1>7, <1>9, <1>10 DEF Merged, SameTop, h, top

\* The merged chunk is the designated victim, as part of it was.
LEMMA MergedDv ==
  ASSUME NEW m, NEW p, NEW e, BinsOK(m, Rest(m, p, e)), m.dv \in p .. e - 1, p \in p .. e - 1,
         NEW n, Merged(m, n, p, e), SameBins(m, n), n.dv = p, n.dvsize = e - p
  PROVE  Gave(m, n, p, e)
<1> DEFINE B == Rest(m, p, e)
<1>1. \A q \in B : q \in DOMAIN m.head /\ q \notin p .. e - 1 BY FreeIs DEF Rest, Loose
<1>2. \A q \in B : n.head[q].size = m.head[q].size BY <1>1 DEF Merged
<1>3. BinsOK(n, B) BY <1>2, BinsFrame DEF SameBins
<1>4. Loose(n) = B BY DEF Loose, Rest, Merged, SameTop
<1>5. DvOK(n) BY DEF DvOK, Merged
<1>6. Good(n) BY <1>3, <1>4, <1>5 DEF Good, Merged
<1>7. \A q \in UsedIn(n.head) : n.head[q].size = m.head[q].size BY Parts DEF Merged
<1> QED BY <1>6, <1>7 DEF Gave, Merged, SameTop

\* The merged chunk goes to its bin.
LEMMA MergedBin ==
  ASSUME NEW m, NEW p, NEW e, BinsOK(m, Rest(m, p, e)), DvOK(m), m.dv \notin p .. e - 1, p \in p .. e - 1,
         NEW n, Merged(m, n, p, e), SameBins(m, n), SameDv(m, n)
  PROVE  Gave(m, insert_chunk(n, p, e - p), p, e)
<1> DEFINE B == Rest(m, p, e)
           r == insert_chunk(n, p, n.head[p].size)
<1>1. \A q \in B : q \in DOMAIN m.head /\ q \notin p .. e - 1 BY FreeIs DEF Rest, Loose
<1>2. \A q \in B : n.head[q].size = m.head[q].size BY <1>1 DEF Merged
<1>3. BinsOK(n, B) BY <1>2, BinsFrame DEF SameBins
<1>4. HeapOK(n) /\ p \in FreeIn(n.head) /\ p # n.top /\ p \notin B BY <1>1 DEF Merged
<1>5. Loose(n) = B \cup {p} BY DEF Loose, Rest, Merged, SameTop, SameDv
<1>6. r = insert_chunk(n, p, e - p) BY DEF Merged
<1> HIDE DEF B
<1>7. HeapOK(r) /\ BinsOK(r, B \cup {p}) /\ SameDv(n, r) /\ SameTop(n, r) /\ r.head = n.head BY <1>3, <1>4, InsertKeeps
<1> HIDE DEF r
<1>8. Loose(r) = Loose(n) BY <1>7 DEF Loose, SameDv, SameTop
<1>9. DvOK(r)
  <2>1. r.dv = m.dv /\ r.dvsize = m.dvsize /\ r.top = m.top BY <1>7 DEF SameDv, SameTop, Merged
  <2>2. CASE m.dv = Null /\ m.dvsize = 0 BY <2>1, <2>2 DEF DvOK
  <2>3. CASE m.dv \in FreeIn(m.head) /\ m.dv # m.top /\ m.dvsize = m.head[m.dv].size
    <3>1. m.dv \in DOMAIN m.head BY <2>3, FreeIs
    <3>2. m.dv \in FreeIn(n.head) /\ n.head[m.dv].size = m.head[m.dv].size BY <2>3, <3>1 DEF Merged
    <3> QED BY <1>7, <2>1, <2>3, <3>2 DEF DvOK
  <2> QED BY <2>2, <2>3 DEF DvOK
<1>10. Good(r) BY <1>5, <1>7, <1>8, <1>9 DEF Good
<1>11. \A q \in UsedIn(n.head) : n.head[q].size = m.head[q].size BY Parts DEF Merged
<1> QED BY <1>6, <1>7, <1>10, <1>11 DEF Gave, Merged, SameTop

\* The chunks from p to e are out of the bins and to be freed, and if they
\* begin with the designated victim a free one is behind them.
Open(m, p, e) ==
  /\ HeapOK(m) /\ DvOK(m) /\ BinsOK(m, Rest(m, p, e))
  /\ p \in PinIn(m.head) /\ e \in DOMAIN m.head /\ p < e
  /\ m.dv \notin p .. e - 1 \/ (m.dv = p /\ e \notin UsedIn(m.head))

\* What is known of a free chunk that is not in the bins yet.
LEMMA OpenFacts ==
  ASSUME NEW m, NEW p, NEW e, Open(m, p, e)
  PROVE  /\ Tile(m.head, m.top, m.segsize - TOP_FOOT_SIZE) /\ m.topsize = m.head[m.top].size /\ m.top \in DOMAIN m.head
         /\ p \in DOMAIN m.head /\ p \in Nat /\ e \in Nat /\ p \in p .. e - 1 /\ DOMAIN m = Fields
         /\ e =< m.top /\ m.top \in Nat /\ m.topsize \in Nat /\ m.topsize > 0
<1>1. p \in DOMAIN m.head /\ e \in DOMAIN m.head /\ p < e /\ HeapOK(m) BY Parts DEF Open
<1>2. p \in Nat /\ e \in Nat BY <1>1, HeapFacts
<1>3. /\ Tile(m.head, m.top, m.segsize - TOP_FOOT_SIZE) /\ m.topsize = m.head[m.top].size /\ m.top \in DOMAIN m.head
      /\ m.top \in Nat
  BY <1>1, HeapFacts
<1>4. m.topsize \in Nat /\ m.topsize > 0 BY <1>3, TileFacts
<1>5. e =< m.top BY <1>1, <1>3 DEF Tile
<1>6. DOMAIN m = Fields BY <1>1 DEF HeapOK
<1> QED BY <1>1, <1>2, <1>3, <1>4, <1>5, <1>6

FreedTile(h, g, top, end, p, e) == Tile(g, top, end) /\ Freed(h, g, p, e)

\* A run of chunks behind a used one is written as one free chunk.
LEMMA FreeRunIs ==
  ASSUME NEW h, NEW top, NEW end, Tile(h, top, end), NEW p \in DOMAIN h, p \in PinIn(h),
         NEW e \in DOMAIN h, p < e, e \in UsedIn(h),
         NEW k, (k = h /\ e \notin PinIn(h)) \/ k = [h EXCEPT ![e].pinuse = FALSE]
  PROVE  FreedTile(h, set_size_and_pinuse_of_free_chunk(k, p, e - p), top, end, p, e)
<1> DEFINE g == set_size_and_pinuse_of_free_chunk(k, p, e - p)
<1>1. Tile(g, top, end) /\ Freed(h, g, p, e) BY FreeRun, Zenon
<1> QED BY <1>1 DEF FreedTile

\* A chunk behind which a used one is.
LEMMA ForwardUsed ==
  ASSUME NEW m, NEW p, NEW e, Open(m, p, e), m.head[e].cinuse
  PROVE  Gave(m, Forward(m, p, e - p, e), p, e)
<1> DEFINE h == m.head
           g == set_size_and_pinuse_of_free_chunk([h EXCEPT ![e].pinuse = FALSE], p, e - p)
           n == [m EXCEPT !.head = g]
           r == insert_chunk(n, p, e - p)
<1>1. /\ Tile(h, m.top, m.segsize - TOP_FOOT_SIZE) /\ p \in DOMAIN h /\ p \in Nat /\ e \in Nat /\ p \in p .. e - 1
      /\ DOMAIN m = Fields
  BY OpenFacts
<1>2. HeapOK(m) /\ DvOK(m) /\ BinsOK(m, Rest(m, p, e)) /\ p \in PinIn(h) /\ e \in DOMAIN h /\ p < e BY DEF Open
<1>3. e \in UsedIn(h) BY <1>2 DEF UsedIn
<1>4. m.dv \notin p .. e - 1 BY <1>3 DEF Open
<1>5. Forward(m, p, e - p, e) = r
  <2>1. e # m.top BY <1>1, <1>3, TileFacts
  <2>2. e # m.dv
    <3>1. e # Null BY <1>1 DEF Null
    <3>2. e \notin FreeIn(h) BY <1>3, FreeIs
    <3> QED BY <1>2, <3>1, <3>2 DEF DvOK
  <2> QED BY <2>1, <2>2 DEF Forward, set_free_with_pinuse
<1>6. FreedTile(h, g, m.top, m.segsize - TOP_FOOT_SIZE, p, e)
  <2> HIDE DEF h
  <2> QED BY <1>1, <1>2, <1>3, FreeRunIs, Zenon
<1> HIDE DEF g
<1>7. n.head = g /\ DOMAIN n = Fields /\ SameTop(m, n) /\ SameBins(m, n) /\ SameDv(m, n)
  BY <1>1 DEF Fields, SameTop, SameBins, SameDv
<1> HIDE DEF n
<1>8. Merged(m, n, p, e) BY <1>1, <1>2, <1>6, <1>7, MergedIs DEF FreedTile
<1>9. Gave(m, r, p, e) BY <1>1, <1>2, <1>4, <1>7, <1>8, MergedBin
<1> QED BY <1>5, <1>9

\* The chunk behind it is free: as far as that chunk goes.
LEMMA BehindIs ==
  ASSUME NEW m, NEW p, NEW e, Open(m, p, e), ~m.head[e].cinuse, e # m.top, NEW f, f = e + m.head[e].size
  PROVE  /\ f \in DOMAIN m.head /\ f \in Nat /\ e < f /\ p < f /\ f \in UsedIn(m.head) /\ f \notin PinIn(m.head)
         /\ e \in FreeIn(m.head) /\ f - p = e - p + m.head[e].size /\ f - p = m.head[e].size + (e - p)
         /\ UsedIn(m.head) \ p .. f - 1 = UsedIn(m.head) \ p .. e - 1
         /\ Rest(m, p, f) = Rest(m, p, e) \ {e}
         /\ e \in p .. f - 1 /\ p \in p .. f - 1
         /\ \A q \in DOMAIN m.head : q \in p .. f - 1 => q \in p .. e - 1 \/ q = e
         /\ \A q \in p .. e - 1 : q \in p .. f - 1
<1> DEFINE h == m.head
<1>1. Tile(h, m.top, m.segsize - TOP_FOOT_SIZE) /\ p \in Nat /\ e \in Nat BY OpenFacts
<1>2. e \in DOMAIN h /\ p < e BY DEF Open
<1>3. e \notin UsedIn(h) BY DEF UsedIn
<1>4. e \in FreeIn(h) BY <1>2, <1>3, FreeIs
<1>5. /\ h[e].size \in Nat /\ h[e].size > 0
      /\ f \in DOMAIN h /\ f \in Nat /\ f \in UsedIn(h) /\ (f \in PinIn(h) <=> e \in UsedIn(h))
      /\ \A q \in DOMAIN h : q \in Nat
  BY <1>1, <1>2, <1>3, TileFacts
<1>6. \A q \in DOMAIN h : q \in e .. f - 1 => q = e
  <2>1. \A q \in DOMAIN h : q \in e .. e + h[e].size - 1 => q = e BY <1>1, <1>2, Alone
  <2> QED BY <1>1, <1>5, <2>1
<1>7. e < f /\ p < f /\ f - p = e - p + m.head[e].size /\ f - p = m.head[e].size + (e - p) BY <1>1, <1>2, <1>5
<1> HIDE DEF h
<1>8. ASSUME NEW q \in DOMAIN h, q \in p .. f - 1 PROVE q \in p .. e - 1 \/ q = e
  <2>1. q \in e .. f - 1 \/ q \in p .. e - 1 BY <1>1, <1>5, <1>8
  <2> QED BY <1>6, <2>1
<1>9. e \in p .. f - 1 /\ p \in p .. f - 1 /\ \A q \in p .. e - 1 : q \in p .. f - 1 BY <1>1, <1>2, <1>5, <1>7
<1>10. UsedIn(h) \ p .. f - 1 = UsedIn(h) \ p .. e - 1 BY <1>3, <1>8, <1>9, Parts
<1>11. Rest(m, p, f) = Rest(m, p, e) \ {e}
  <2>1. \A q \in Loose(m) : q \in DOMAIN h BY FreeIs DEF Loose, h
  <2> QED BY <1>8, <1>9, <2>1 DEF Rest
<1> QED BY <1>3, <1>4, <1>5, <1>7, <1>8, <1>9, <1>10, <1>11 DEF h

\* The designated victim is behind it.
LEMMA ForwardDv ==
  ASSUME NEW m, NEW p, NEW e, Open(m, p, e), ~m.head[e].cinuse, e # m.top, e = m.dv
  PROVE  Gave(m, Forward(m, p, e - p, e), p, e)
<1> DEFINE h == m.head
           f == e + h[e].size
           g == set_size_and_pinuse_of_free_chunk(h, p, f - p)
           n == [m EXCEPT !.head = g, !.dv = p, !.dvsize = f - p]
<1>1. /\ Tile(h, m.top, m.segsize - TOP_FOOT_SIZE) /\ p \in DOMAIN h /\ p \in Nat /\ e \in Nat /\ p \in p .. e - 1
      /\ DOMAIN m = Fields
  BY OpenFacts
<1>2. HeapOK(m) /\ DvOK(m) /\ BinsOK(m, Rest(m, p, e)) /\ p \in PinIn(h) /\ e \in DOMAIN h /\ p < e BY DEF Open
<1>3. /\ f \in DOMAIN h /\ f \in Nat /\ p < f /\ f \in UsedIn(h) /\ f \notin PinIn(h)
      /\ f - p = e - p + h[e].size /\ f - p = h[e].size + (e - p)
      /\ UsedIn(h) \ p .. f - 1 = UsedIn(h) \ p .. e - 1
      /\ Rest(m, p, f) = Rest(m, p, e) \ {e} /\ e \in p .. f - 1 /\ p \in p .. f - 1
  <2>1. f = e + m.head[e].size OBVIOUS
  <2> HIDE DEF f, h
  <2> QED BY <2>1, BehindIs DEF h
<1>4. m.dvsize = h[e].size
  <2>1. e # Null BY <1>1 DEF Null
  <2> QED BY <1>2, <2>1 DEF DvOK
<1>5. Forward(m, p, e - p, e) = n
  <2>1. m.dvsize + (e - p) = f - p BY <1>3, <1>4
  <2> HIDE DEF f
  <2> QED BY <2>1 DEF Forward
<1>6. FreedTile(h, g, m.top, m.segsize - TOP_FOOT_SIZE, p, f)
  <2> HIDE DEF h, f
  <2> QED BY <1>1, <1>2, <1>3, FreeRunIs, Zenon
<1> HIDE DEF g, f
<1>7. n.head = g /\ DOMAIN n = Fields /\ SameTop(m, n) /\ SameBins(m, n) /\ n.dv = p /\ n.dvsize = f - p
  BY <1>1 DEF Fields, SameTop, SameBins
<1> HIDE DEF n
<1>8. Merged(m, n, p, f) BY <1>1, <1>2, <1>3, <1>6, <1>7, MergedIs DEF FreedTile
<1>9. Rest(m, p, f) = Rest(m, p, e) BY <1>3 DEF Rest, Loose
<1>10. Gave(m, n, p, f) BY <1>2, <1>3, <1>7, <1>8, <1>9, MergedDv
<1>11. Gave(m, n, p, e) BY <1>3, <1>10 DEF Gave
<1> QED BY <1>5, <1>11

\* Another free chunk is behind it.
LEMMA ForwardFree ==
  ASSUME NEW m, NEW p, NEW e, Open(m, p, e), ~m.head[e].cinuse, e # m.top, e # m.dv
  PROVE  Gave(m, Forward(m, p, e - p, e), p, e)
<1> DEFINE h == m.head
           f == e + h[e].size
           u == unlink_chunk(m, e, h[e].size)
           g == set_size_and_pinuse_of_free_chunk(h, p, f - p)
           n == [u EXCEPT !.head = g]
           d == [n EXCEPT !.dvsize = f - p]
           r == insert_chunk(n, p, f - p)
<1>1. /\ Tile(h, m.top, m.segsize - TOP_FOOT_SIZE) /\ p \in DOMAIN h /\ p \in Nat /\ e \in Nat /\ p \in p .. e - 1
      /\ DOMAIN m = Fields
  BY OpenFacts
<1>2. HeapOK(m) /\ DvOK(m) /\ BinsOK(m, Rest(m, p, e)) /\ p \in PinIn(h) /\ e \in DOMAIN h /\ p < e BY DEF Open
<1>3. /\ f \in DOMAIN h /\ f \in Nat /\ p < f /\ f \in UsedIn(h) /\ f \notin PinIn(h) /\ e \in FreeIn(h)
      /\ f - p = e - p + h[e].size
      /\ UsedIn(h) \ p .. f - 1 = UsedIn(h) \ p .. e - 1
      /\ Rest(m, p, f) = Rest(m, p, e) \ {e} /\ p \in p .. f - 1
      /\ \A q \in DOMAIN h : q \in p .. f - 1 => q \in p .. e - 1 \/ q = e
  BY BehindIs
<1>15. e \notin p .. e - 1 BY <1>1
<1>4. e \in Rest(m, p, e) BY <1>3, <1>15 DEF Rest, Loose
<1>5. HeapOK(u) /\ BinsOK(u, Rest(m, p, f)) /\ SameDv(m, u) /\ SameTop(m, u) /\ u.head = h
  <2>1. HeapOK(u) /\ BinsOK(u, Rest(m, p, e) \ {e}) /\ SameDv(m, u) /\ SameTop(m, u) /\ u.head = h
    BY <1>2, <1>4, UnlinkKeeps
  <2> HIDE DEF u, f
  <2> QED BY <1>3, <2>1
<1>16. Forward(m, p, e - p, e) = Absorb(u, p, f - p)
  <2> HIDE DEF f
  <2>1. Forward(m, p, e - p, e) = Absorb(unlink_chunk(m, e, m.head[e].size), p, e - p + m.head[e].size) BY DEF Forward
  <2> QED BY <1>3, <2>1
<1> HIDE DEF u, f
<1>17. DOMAIN u = Fields BY <1>5 DEF HeapOK
<1>18. Absorb(u, p, f - p) = IF p = u.dv THEN d ELSE r BY <1>5 DEF Absorb
<1>6. FreedTile(h, g, m.top, m.segsize - TOP_FOOT_SIZE, p, f)
  <2> HIDE DEF h
  <2> QED BY <1>1, <1>2, <1>3, FreeRunIs, Zenon
<1> HIDE DEF g
<1>7. n.head = g /\ DOMAIN n = Fields /\ SameTop(u, n) /\ SameBins(u, n) /\ SameDv(u, n)
  BY <1>17 DEF Fields, SameTop, SameBins, SameDv
<1>19. d.head = g /\ DOMAIN d = Fields /\ SameTop(u, d) /\ SameBins(u, d) /\ d.dv = u.dv /\ d.dvsize = f - p
  BY <1>17 DEF Fields, SameTop, SameBins
<1> HIDE DEF n, d, r
<1>20. Rest(u, p, f) = Rest(m, p, f) BY <1>5 DEF Rest, Loose, SameTop, SameDv
<1>21. Freed(u.head, g, p, f) /\ Tile(g, u.top, u.segsize - TOP_FOOT_SIZE) /\ p \in DOMAIN u.head /\ f \in DOMAIN u.head
  BY <1>1, <1>3, <1>5, <1>6 DEF FreedTile, SameTop
<1>22. m.dv \in p .. f - 1 => m.dv = p
  <2>1. SUFFICES ASSUME m.dv \in p .. f - 1 PROVE m.dv = p OBVIOUS
  <2>2. m.dv # Null BY <1>1, <2>1 DEF Null
  <2>3. m.dv \in DOMAIN h BY <1>2, <2>2, FreeIs DEF DvOK
  <2>4. m.dv \in p .. e - 1 BY <1>3, <2>1, <2>3
  <2> QED BY <2>4 DEF Open
<1>8. CASE p = u.dv
  <2>1. Merged(u, d, p, f) BY <1>3, <1>5, <1>19, <1>21, MergedIs
  <2>2. BinsOK(u, Rest(u, p, f)) /\ u.dv \in p .. f - 1 BY <1>3, <1>5, <1>8, <1>20
  <2>3. Gave(u, d, p, f) BY <1>3, <1>8, <1>19, <2>1, <2>2, MergedDv
  <2>4. Gave(m, d, p, e) BY <1>3, <1>5, <2>3 DEF Gave, SameTop
  <2> QED BY <1>8, <1>16, <1>18, <2>4
<1>9. CASE p # u.dv
  <2>1. Merged(u, n, p, f) BY <1>3, <1>5, <1>7, <1>21, MergedIs
  <2>2. BinsOK(u, Rest(u, p, f)) /\ u.dv \notin p .. f - 1 BY <1>5, <1>9, <1>20, <1>22 DEF SameDv
  <2>5. DvOK(u) BY <1>2, <1>5 DEF DvOK, SameDv, SameTop
  <2>3. Gave(u, r, p, f) BY <1>3, <1>7, <2>1, <2>2, <2>5, MergedBin DEF r
  <2>4. Gave(m, r, p, e) BY <1>3, <1>5, <2>3 DEF Gave, SameTop
  <2> QED BY <1>9, <1>16, <1>18, <2>4
<1> QED BY <1>8, <1>9

\* Top is behind it: it is part of top.
LEMMA ForwardTop ==
  ASSUME NEW m, NEW p, NEW e, Open(m, p, e), ~m.head[e].cinuse, e = m.top
  PROVE  Gave(m, Forward(m, p, e - p, e), p, e)
<1> DEFINE h == m.head
           end == m.segsize - TOP_FOOT_SIZE
           S == m.topsize + (e - p)
           g == Write(h, p, Unused(S))
           s == SetTop(m, p, S)
           r == [s EXCEPT !.dv = IF @ = p THEN Null ELSE @, !.dvsize = IF m.dv = p THEN 0 ELSE @]
           B == Rest(m, p, e)
<1>1. /\ Tile(h, e, end) /\ m.topsize = h[e].size /\ p \in DOMAIN h /\ p \in Nat /\ e \in Nat /\ p \in p .. e - 1
      /\ DOMAIN m = Fields /\ m.topsize \in Nat /\ m.topsize > 0
  BY OpenFacts
<1>2. /\ HeapOK(m) /\ DvOK(m) /\ BinsOK(m, B) /\ p \in PinIn(h) /\ e \in DOMAIN h /\ p < e
      /\ m.dv \notin p .. e - 1 \/ m.dv = p
  BY DEF Open
<1>3. S \in Nat \ {0} /\ p + S = e + h[e].size /\ e + h[e].size = end BY <1>1, <1>2 DEF Tile
<1>4. /\ end \in Nat /\ \A q \in DOMAIN h : q \in Nat /\ h[q].size \in Nat /\ h[q].size > 0 /\ q + h[q].size =< end
      /\ \A q \in DOMAIN h \ {e} : q < e
      /\ e \notin UsedIn(h)
  BY <1>1, TileFacts
<1>5. \A q \in DOMAIN h : q < p + S BY <1>3, <1>4
<1>6. Forward(m, p, e - p, e) = r
  <2>1. e # m.dv
    <3>1. e # Null BY <1>1 DEF Null
    <3> QED BY <1>2, <3>1 DEF DvOK
  <2> HIDE DEF h
  <2> QED BY <2>1, Zenon DEF Forward
<1>7. NewTop(h, g, p, S)
  <2> HIDE DEF h, end, S
  <2> QED BY <1>1, <1>2, <1>3, <1>5, NewTopIs, Zenon
<1> HIDE DEF g, S
<1>8. /\ r.head = g /\ DOMAIN r = Fields /\ SameBins(m, r) /\ r.top = p /\ r.topsize = S /\ r.segsize = m.segsize
      /\ r.dv = (IF m.dv = p THEN Null ELSE m.dv) /\ r.dvsize = IF m.dv = p THEN 0 ELSE m.dvsize
  <2>1. /\ s.head = g /\ DOMAIN s = Fields /\ SameBins(m, s) /\ s.top = p /\ s.topsize = S /\ s.segsize = m.segsize
        /\ s.dv = m.dv /\ s.dvsize = m.dvsize
    BY <1>1 DEF SetTop, Fields, SameBins, g
  <2> HIDE DEF s
  <2> QED BY <2>1 DEF Fields, SameBins
<1> HIDE DEF r, B, h
<1>9. /\ Tile(g, p, p + S) /\ g[p].size = S
      /\ \A q : q \in DOMAIN g <=> q \in DOMAIN h /\ q =< p
      /\ \A q : q \in UsedIn(g) <=> q \in UsedIn(h) /\ q < p
      /\ \A q \in DOMAIN h : q < p => g[q].size = h[q].size
  BY <1>7 DEF NewTop
<1>10. \A q : q \in UsedIn(g) <=> q \in UsedIn(h) /\ q \notin p .. e - 1
  <2> SUFFICES ASSUME NEW q \in UsedIn(h) PROVE q < p <=> q \notin p .. e - 1 BY <1>9
  <2>1. q \in DOMAIN h /\ q # e BY <1>4, Parts
  <2>2. q \in Nat /\ q < e BY <1>4, <2>1
  <2> QED BY <1>1, <2>2
<1>11. HeapOK(r)
  <2>1. p + S = r.segsize - TOP_FOOT_SIZE BY <1>3, <1>8 DEF end
  <2>2. r.segsize \in 0 .. MAX_SIZE_T BY <1>2, <1>8 DEF HeapOK
  <2> QED BY <1>8, <1>9, <2>1, <2>2 DEF HeapOK
<1>12. \A q : q # p => (q \in FreeIn(g) <=> q \in FreeIn(h) /\ q < p)
  <2>1. \A q : q \in FreeIn(g) <=> q \in DOMAIN g /\ q \notin UsedIn(g) BY FreeIs
  <2>2. \A q : q \in FreeIn(h) <=> q \in DOMAIN h /\ q \notin UsedIn(h) BY FreeIs
  <2>3. \A q \in DOMAIN h : q # p => (q =< p <=> q < p) BY <1>1, <1>4
  <2> QED BY <1>9, <2>1, <2>2, <2>3
<1>13. DvOK(r)
  <2>1. CASE m.dv = p BY <1>8, <2>1 DEF DvOK
  <2>2. CASE m.dv # p /\ m.dv = Null /\ m.dvsize = 0 BY <1>8, <2>2 DEF DvOK
  <2>3. CASE m.dv # p /\ m.dv \in FreeIn(h) /\ m.dv # e /\ m.dvsize = h[m.dv].size
    <3>1. m.dv \in DOMAIN h BY <2>3, FreeIs
    <3>2. m.dv \in Nat /\ m.dv < e BY <1>4, <2>3, <3>1
    <3>3. m.dv < p BY <1>1, <1>2, <2>3, <3>2
    <3>4. m.dv \in FreeIn(g) /\ g[m.dv].size = h[m.dv].size BY <1>9, <1>12, <2>3, <3>1, <3>3
    <3> QED BY <1>8, <2>3, <3>4 DEF DvOK
  <2> QED BY <1>2, <2>1, <2>2, <2>3 DEF DvOK, h
<1>14. Loose(r) = B
  <2>1. ASSUME NEW q PROVE q \in Loose(r) <=> q \in B
    <3>1. q \in Loose(r) <=> q \in FreeIn(g) /\ q # p /\ q # r.dv BY <1>8 DEF Loose
    <3>2. q \in B <=> q \in FreeIn(h) /\ q # e /\ q # m.dv /\ q \notin p .. e - 1 BY DEF B, Rest, Loose, h
    <3>3. q \in FreeIn(h) => q \in Nat /\ (q # e => q < e)
      <4>1. q \in FreeIn(h) => q \in DOMAIN h BY FreeIs
      <4> QED BY <1>4, <4>1
    <3>4. q \in FreeIn(h) => (q < p <=> q # e /\ q \notin p .. e - 1) BY <1>1, <1>2, <3>3
    <3>5. p \in p .. e - 1 BY <1>1
    <3>6. q \in FreeIn(h) => q # Null BY <3>3 DEF Null
    <3> QED BY <1>8, <1>12, <3>1, <3>2, <3>4, <3>5, <3>6
  <2> QED BY <2>1
<1>15. BinsOK(r, B)
  <2>1. ASSUME NEW q \in B PROVE r.head[q].size = m.head[q].size
    <3>1. q \in FreeIn(h) /\ q # e /\ q \notin p .. e - 1 BY DEF B, Rest, Loose, h
    <3>2. q \in DOMAIN h BY <3>1, FreeIs
    <3>3. q \in Nat /\ q < e BY <1>4, <3>1, <3>2
    <3>4. q < p BY <1>1, <3>1, <3>3
    <3> QED BY <1>8, <1>9, <3>2, <3>4 DEF h
  <2> QED BY <1>2, <1>8, <2>1, BinsFrame DEF SameBins
<1>16. \A q \in UsedIn(g) : g[q].size = h[q].size BY <1>9, Parts
<1>17. UsedIn(g) = UsedIn(h) \ p .. e - 1 BY <1>10
<1>18. Gave(m, r, p, e) BY <1>8, <1>11, <1>13, <1>14, <1>15, <1>16, <1>17 DEF Gave, Good, h
<1> QED BY <1>6, <1>18

\* Whatever is behind it, a chunk given back is merged.
LEMMA ForwardIs ==
  ASSUME NEW m, NEW p, NEW e, Open(m, p, e), NEW size, size = e - p
  PROVE  Gave(m, Forward(m, p, size, e), p, e)
BY ForwardUsed, ForwardTop, ForwardDv, ForwardFree

-----------------------------------------------------------------------------
\* The used chunk p is no longer used.
Disposed(m, r, p) ==
  /\ Good(r) /\ r.segsize = m.segsize /\ UsedIn(r.head) = UsedIn(m.head) \ {p}
  /\ \A q \in UsedIn(r.head) : r.head[q].size = m.head[q].size

\* No other used chunk is in the run.
LEMMA GaveOne ==
  ASSUME NEW m, NEW n, NEW r, NEW p, NEW a, NEW e, Gave(n, r, a, e), n.head = m.head, n.segsize = m.segsize,
         p \in a .. e - 1, \A q \in UsedIn(m.head) : q \in a .. e - 1 => q = p
  PROVE  Disposed(m, r, p)
BY DEF Gave, Disposed

\* dispose_chunk gives back one chunk, and nothing else.
LEMMA DisposeIs ==
  ASSUME NEW m, Good(m), NEW p \in UsedIn(m.head)
  PROVE  Disposed(m, dispose_chunk(m, p, m.head[p].size), p)
<1> DEFINE h == m.head
           size == h[p].size
           prevsize == h[p].prev_foot
           prev == p - prevsize
           e == p + size
           r == dispose_chunk(m, p, size)
           u == unlink_chunk(m, prev, prevsize)
           end == m.segsize - TOP_FOOT_SIZE
<1>1. HeapOK(m) /\ DvOK(m) /\ BinsOK(m, Loose(m)) /\ p \in DOMAIN h BY Parts DEF Good
<1>2. Tile(h, m.top, end) /\ p \in Nat /\ DOMAIN m = Fields
  <2>1. DOMAIN m = Fields BY <1>1 DEF HeapOK
  <2> QED BY <1>1, <2>1, HeapFacts
<1>3. p # m.top BY <1>2, TileFacts
<1>4. /\ size \in Nat /\ size > 0 /\ e \in DOMAIN h /\ e \in PinIn(h) /\ e \in Nat
      /\ p < e
      /\ \A q \in DOMAIN h : q \in Nat
  BY <1>1, <1>2, <1>3, TileFacts
<1>5. \A q \in DOMAIN h : q \in p .. e - 1 => q = p
  <2>1. \A q \in DOMAIN h : q \in p .. p + h[p].size - 1 => q = p BY <1>1, <1>2, Alone
  <2> QED BY <1>2, <1>4, <2>1
<1>6. p \in p .. e - 1 /\ e - p = size BY <1>2, <1>4
<1>7. p \notin FreeIn(h) /\ \A q \in FreeIn(h) : q \in DOMAIN h BY FreeIs
<1>8. \A q \in Loose(m) : q \in FreeIn(h) BY DEF Loose
<1>20. m.dv = Null \/ m.dv \in FreeIn(h) BY <1>1 DEF DvOK
<1>21. p # Null /\ (p \in PinIn(h) <=> h[p].pinuse) BY <1>1, <1>2 DEF Null, PinIn
<1>22. r = IF h[p].pinuse THEN Forward(m, p, size, e)
           ELSE IF prev # m.dv THEN Forward(u, prev, prevsize + size, e)
           ELSE IF h[e].cinuse /\ h[e].pinuse
           THEN [m EXCEPT !.head = set_free_with_pinuse(@, prev, prevsize + size, e),
                          !.dvsize = prevsize + size]
           ELSE Forward(m, prev, prevsize + size, e)
  BY Zenon DEF dispose_chunk
<1> HIDE DEF h, size, prev, prevsize, e, r, u
<1>9. CASE h[p].pinuse
  <2>1. r = Forward(m, p, size, e) BY <1>9, <1>22
  <2>2. Rest(m, p, e) = Loose(m) BY <1>5, <1>7, <1>8 DEF Rest
  <2>3. m.dv \notin p .. e - 1
    <3>1. Null \notin p .. e - 1 BY <1>2 DEF Null
    <3> QED BY <1>5, <1>7, <1>20, <3>1
  <2>4. Open(m, p, e) BY <1>1, <1>4, <1>9, <1>21, <2>2, <2>3 DEF Open, h
  <2>5. Gave(m, r, p, e) BY <1>6, <2>1, <2>4, ForwardIs
  <2>6. \A q \in UsedIn(m.head) : q \in p .. e - 1 => q = p BY <1>5, Parts DEF h
  <2>7. Disposed(m, r, p) BY <1>6, <2>5, <2>6, GaveOne
  <2> QED BY <2>7 DEF r, size, h
<1>10. CASE ~h[p].pinuse
  <2>1. /\ prev \in DOMAIN h /\ prev # m.top /\ h[prev].size = prevsize
        /\ p \notin PinIn(h)
    BY <1>1, <1>2, <1>10, <1>21 DEF Tile, prev, prevsize
  <2>2. /\ prev \in Nat /\ prevsize \in Nat /\ prevsize > 0 /\ prev + prevsize \in DOMAIN h
        /\ prev + prevsize \in PinIn(h) <=> prev \in UsedIn(h)
        /\ prev \in FreeIn(h) => prev \in PinIn(h)
    BY <1>2, <2>1, TileFacts
  <2>3. prev + prevsize = p BY <1>2, <2>2 DEF prev
  <2>4. prev \notin UsedIn(h) /\ prev \in FreeIn(h) /\ prev \in PinIn(h)
    <3>1. prev \notin UsedIn(h) BY <2>1, <2>2, <2>3
    <3>2. prev \in FreeIn(h) BY <2>1, <3>1, FreeIs
    <3> QED BY <2>2, <3>1, <3>2
  <2>5. prev < e /\ prevsize + size = e - prev /\ p \in prev .. e - 1 /\ prev \in prev .. e - 1
    BY <1>2, <1>4, <1>6, <2>2, <2>3 DEF e
  <2>6. \A q \in DOMAIN h : q \in prev .. e - 1 => q = p \/ q = prev
    <3>1. \A q \in DOMAIN h : q \in prev .. prev + h[prev].size - 1 => q = prev BY <1>2, <2>1, Alone
    <3>2. \A q \in DOMAIN h : q \in prev .. p - 1 => q = prev BY <2>1, <2>2, <2>3, <3>1
    <3>3. \A q \in DOMAIN h : q \in prev .. e - 1 => q \in prev .. p - 1 \/ q \in p .. e - 1 BY <1>2, <1>4, <2>2
    <3> QED BY <1>5, <3>2, <3>3
  <2>7. \A q \in UsedIn(h) : q \in prev .. e - 1 => q = p BY <2>4, <2>6, Parts
  <2>8. Null \notin prev .. e - 1 /\ prev # Null BY <2>2 DEF Null
  <2>9. CASE prev # m.dv
    <3>1. r = Forward(u, prev, prevsize + size, e) BY <1>10, <1>22, <2>9
    <3>2. prev \in Loose(m) BY <2>1, <2>4, <2>9 DEF Loose, h
    <3>3. HeapOK(u) /\ BinsOK(u, Loose(m) \ {prev}) /\ SameDv(m, u) /\ SameTop(m, u) /\ u.head = h
      <4>1. u = unlink_chunk(m, prev, m.head[prev].size) BY <2>1 DEF u, h
      <4> QED BY <1>1, <3>2, <4>1, UnlinkKeeps DEF h
    <3>4. Rest(u, prev, e) = Loose(m) \ {prev}
      <4>1. Loose(u) = Loose(m) BY <3>3 DEF Loose, SameDv, SameTop, h
      <4> QED BY <1>7, <1>8, <2>5, <2>6, <4>1 DEF Rest
    <3>5. DvOK(u) BY <1>1, <3>3 DEF DvOK, SameDv, SameTop, h
    <3>6. u.dv \notin prev .. e - 1
      <4>1. u.dv = m.dv BY <3>3 DEF SameDv
      <4>2. CASE m.dv = Null BY <2>8, <4>1, <4>2
      <4>3. CASE m.dv \in FreeIn(h) BY <1>7, <2>6, <2>9, <4>1, <4>3
      <4> QED BY <1>20, <4>2, <4>3
    <3>7. Open(u, prev, e) BY <1>4, <2>4, <2>5, <3>3, <3>4, <3>5, <3>6 DEF Open
    <3>8. Gave(u, r, prev, e) BY <2>5, <3>1, <3>7, ForwardIs
    <3>9. u.segsize = m.segsize /\ u.head = m.head BY <3>3 DEF SameTop, h
    <3>10. \A q \in UsedIn(m.head) : q \in prev .. e - 1 => q = p BY <2>7 DEF h
    <3>11. Disposed(m, r, p) BY <2>5, <3>8, <3>9, <3>10, GaveOne
    <3> QED BY <3>11 DEF r, size, h
  <2>10. CASE prev = m.dv
    <3>1. Rest(m, prev, e) = Loose(m)
      <4>1. \A q \in Loose(m) : q # m.dv BY DEF Loose
      <4> QED BY <1>7, <1>8, <2>6, <2>10, <4>1 DEF Rest
    <3>2. h[e].pinuse BY <1>4 DEF PinIn
    <3>3. \A q \in UsedIn(m.head) : q \in prev .. e - 1 => q = p BY <2>7 DEF h
    <3>4. CASE h[e].cinuse
      <4> DEFINE g == set_size_and_pinuse_of_free_chunk([h EXCEPT ![e].pinuse = FALSE], prev, e - prev)
                 n == [m EXCEPT !.head = g, !.dvsize = e - prev]
      <4>1. r = n BY <1>10, <1>22, <2>5, <2>10, <3>2, <3>4 DEF set_free_with_pinuse, h
      <4>2. e \in UsedIn(h) BY <1>4, <3>4 DEF UsedIn
      <4>3. FreedTile(h, g, m.top, end, prev, e) BY <1>2, <1>4, <2>1, <2>4, <2>5, <4>2, FreeRunIs, Zenon
      <4> HIDE DEF g
      <4>4. /\ n.head = g /\ DOMAIN n = Fields /\ SameTop(m, n) /\ SameBins(m, n)
            /\ n.dv = m.dv /\ n.dvsize = e - prev
        BY <1>2 DEF Fields, SameTop, SameBins
      <4> HIDE DEF n
      <4>5. Merged(m, n, prev, e) BY <1>1, <1>4, <2>1, <2>5, <4>3, <4>4, MergedIs DEF FreedTile, h, end
      <4>6. BinsOK(m, Rest(m, prev, e)) /\ m.dv \in prev .. e - 1 BY <1>1, <2>5, <2>10, <3>1
      <4>7. Gave(m, n, prev, e) BY <2>5, <2>10, <4>4, <4>5, <4>6, MergedDv
      <4>8. Disposed(m, n, p) BY <2>5, <3>3, <4>7, GaveOne
      <4> QED BY <4>1, <4>8 DEF r, size, h
    <3>5. CASE ~h[e].cinuse
      <4>1. r = Forward(m, prev, prevsize + size, e) BY <1>10, <1>22, <2>10, <3>5
      <4>2. e \notin UsedIn(h) BY <3>5 DEF UsedIn
      <4>3. Open(m, prev, e) BY <1>1, <1>4, <2>4, <2>5, <2>10, <3>1, <4>2 DEF Open, h
      <4>4. Gave(m, r, prev, e) BY <2>5, <4>1, <4>3, ForwardIs
      <4>5. Disposed(m, r, p) BY <2>5, <3>3, <4>4, GaveOne
      <4> QED BY <4>5 DEF r, size, h
    <3> QED BY <3>4, <3>5
  <2> QED BY <2>9, <2>10
<1> QED BY <1>9, <1>10

-----------------------------------------------------------------------------
(* Aligned memory: a larger piece is taken, what is before and behind given back. *)

\* A used chunk p is cut in two used ones, p and b.
CutDone(m, n, p, b, e) ==
  /\ Good(n) /\ n.segsize = m.segsize /\ b \notin DOMAIN m.head
  /\ UsedIn(n.head) = UsedIn(m.head) \cup {b} /\ n.head[p].size = b - p /\ n.head[b].size = e - b
  /\ \A q \in DOMAIN m.head \ {p} : n.head[q].size = m.head[q].size

\* Cutting a used chunk keeps all but who holds it.
LEMMA CutGood ==
  ASSUME NEW m, Good(m), NEW p \in UsedIn(m.head), NEW b \in Nat, NEW e, e = p + m.head[p].size,
         p + MIN_CHUNK_SIZE =< b, b + MIN_CHUNK_SIZE =< e, NEW g, DidCut(m.head, g, p, b, e)
  PROVE  CutDone(m, [m EXCEPT !.head = g], p, b, e)
<1> DEFINE n == [m EXCEPT !.head = g]
           h == m.head
           B == Loose(m)
<1>1. HeapOK(m) /\ DvOK(m) /\ BinsOK(m, B) /\ p \in DOMAIN h BY Parts DEF Good
<1>2. DOMAIN m = Fields /\ m.segsize \in 0 .. MAX_SIZE_T BY <1>1 DEF HeapOK
<1>3. Tile(h, m.top, m.segsize - TOP_FOOT_SIZE) /\ m.topsize = h[m.top].size /\ m.top \in DOMAIN h
      /\ m.top \notin UsedIn(h)
  BY <1>1, HeapFacts
<1>4. /\ Tile(g, m.top, m.segsize - TOP_FOOT_SIZE) /\ b \notin DOMAIN h /\ DOMAIN g = DOMAIN h \cup {b}
      /\ UsedIn(g) = UsedIn(h) \cup {b} /\ g[p].size = b - p /\ g[b].size = e - b
      /\ \A q \in DOMAIN h \ {p} : g[q].size = h[q].size
  <2>1. p \in UsedIn(h) /\ e = p + h[p].size /\ DidCut(h, g, p, b, e) OBVIOUS
  <2>2. p + MIN_CHUNK_SIZE =< b /\ b + MIN_CHUNK_SIZE =< e OBVIOUS
  <2> HIDE DEF h
  <2>3. CutOf(h, g, m.top, m.segsize - TOP_FOOT_SIZE, p, b, e) BY <1>3, <2>1, <2>2, Cut, Zenon
  <2> QED BY <2>3 DEF CutOf
<1>5. n.head = g /\ DOMAIN n = Fields /\ SameTop(m, n) /\ SameDv(m, n) /\ SameBins(m, n)
  BY <1>2 DEF Fields, SameTop, SameDv, SameBins
<1>12. p \in UsedIn(h) OBVIOUS
<1> HIDE DEF h, B, n
<1>6. HeapOK(n)
  <2>1. g[m.top].size = h[m.top].size BY <1>3, <1>4, <1>12
  <2> QED BY <1>2, <1>3, <1>4, <1>5, <2>1 DEF HeapOK, SameTop
<1>7. FreeIn(g) = FreeIn(h)
  <2>1. \A q : q \in FreeIn(g) <=> q \in DOMAIN g /\ q \notin UsedIn(g) BY FreeIs
  <2>2. \A q : q \in FreeIn(h) <=> q \in DOMAIN h /\ q \notin UsedIn(h) BY FreeIs
  <2> QED BY <1>4, <2>1, <2>2
<1>8. \A q \in FreeIn(h) : g[q].size = h[q].size
  <2>1. \A q \in FreeIn(h) : q \in DOMAIN h /\ q # p BY <1>12, FreeIs
  <2> QED BY <1>4, <2>1
<1>9. DvOK(n) BY <1>1, <1>5, <1>7, <1>8 DEF DvOK, SameTop, SameDv, h
<1>10. Loose(n) = B BY <1>5, <1>7 DEF Loose, SameTop, SameDv, h, B
<1>11. BinsOK(n, B)
  <2>1. \A q \in B : n.head[q].size = m.head[q].size BY <1>5, <1>8 DEF B, Loose, h
  <2>2. /\ n.smallmap = m.smallmap /\ n.smallbins = m.smallbins
        /\ n.treemap = m.treemap /\ n.treebins = m.treebins
    BY <1>5 DEF SameBins
  <2> QED BY <1>1, <2>1, <2>2, BinsFrame, Zenon
<1> QED BY <1>4, <1>5, <1>6, <1>9, <1>10, <1>11 DEF CutDone, Good, SameTop, h, n

\* The used chunk p has become the used chunk b behind it.
Moved(m, r, p, b) ==
  /\ Good(r) /\ r.segsize = m.segsize /\ UsedIn(r.head) = (UsedIn(m.head) \ {p}) \cup {b}
  /\ \A q \in UsedIn(m.head) \ {p, b} : r.head[q].size = m.head[q].size

\* What lies before the aligned address is given back.
LEMMA TrimLeadMoves ==
  ASSUME NEW r, Good(r.m), r.p \in UsedIn(r.m.head), NEW p \in Nat, NEW junk \in BOOLEAN,
         p = r.p \/ (r.p + MIN_CHUNK_SIZE =< p /\ p + MIN_CHUNK_SIZE =< r.p + r.m.head[r.p].size)
  PROVE  /\ Moved(r.m, TrimLead(r, p, junk), r.p, p)
         /\ p # r.p => p \notin DOMAIN r.m.head
         /\ TrimLead(r, p, junk).head[p].size = r.m.head[r.p].size - (p - r.p)
<1> DEFINE m == r.m
           h == m.head
           a == r.p
           lead == p - a
           e == a + h[a].size
           g == set_inuse(set_inuse(h, p, h[a].size - lead, junk), a, lead, junk)
           n == [m EXCEPT !.head = g]
           d == dispose_chunk(n, a, lead)
<1>1. a \in DOMAIN h /\ HeapOK(m) BY Parts DEF Good
<1>2. Tile(h, m.top, m.segsize - TOP_FOOT_SIZE) /\ Headers(h) /\ a \in Nat /\ a # m.top
  <2>1. m.top \notin UsedIn(h) BY <1>1, HeapFacts
  <2> QED BY <1>1, <2>1, HeapFacts
<1>3. h[a].size \in Nat /\ h[a].size > 0 /\ e \in DOMAIN h /\ e \in Nat
  <2>1. h[a].size \in Nat /\ h[a].size > 0 /\ e \in DOMAIN h BY <1>1, <1>2, TileFacts
  <2> QED BY <1>2, <2>1
<1>10. Good(m) /\ a \in UsedIn(h) OBVIOUS
<1>4. TrimLead(r, p, junk) = IF lead = 0 THEN m ELSE d BY DEF TrimLead
<1>5. CASE p = a
  <2>1. TrimLead(r, p, junk) = m BY <1>2, <1>4, <1>5
  <2>2. UsedIn(h) = (UsedIn(h) \ {a}) \cup {a} BY <1>10
  <2>3. h[a].size = h[a].size - (a - a) BY <1>2, <1>3
  <2> QED BY <1>5, <1>10, <2>1, <2>2, <2>3 DEF Moved
<1>6. CASE p # a
  <2>1. lead # 0 BY <1>2, <1>6
  <2>2. a + MIN_CHUNK_SIZE =< p /\ p + MIN_CHUNK_SIZE =< e BY <1>6
  <2>3. a < p /\ p < e BY <1>2, <1>3, <2>2, TopConstants
  <2>4. \A q \in DOMAIN h : q \in a .. e - 1 => q = a
    <3>1. \A q \in DOMAIN h : q \in a .. a + h[a].size - 1 => q = a BY <1>1, <1>2, Alone
    <3> QED BY <1>2, <1>3, <3>1
  <2>5. h[a].size - lead = e - p BY <1>2, <1>3
  <2>6. DidCut(h, g, a, p, e)
    <3> HIDE DEF e
    <3>1. g = set_inuse(set_inuse(h, p, e - p, junk), a, p - a, junk) BY <2>5
    <3>2. DidCut(h, set_inuse(set_inuse(h, p, e - p, junk), a, p - a, junk), a, p, e)
      <4> HIDE DEF h, a
      <4> QED BY <1>1, <1>2, <1>3, <2>3, <2>4, CutUpper, Zenon
    <3> QED BY <3>1, <3>2
  <2> HIDE DEF g
  <2>7. /\ Good(n) /\ n.segsize = m.segsize /\ p \notin DOMAIN h
        /\ UsedIn(n.head) = UsedIn(h) \cup {p} /\ n.head[a].size = p - a /\ n.head[p].size = e - p
        /\ \A q \in DOMAIN h \ {a} : n.head[q].size = h[q].size
    <3>1. CutDone(m, n, a, p, e)
      <4>1. Good(m) /\ a \in UsedIn(m.head) /\ e = a + m.head[a].size BY <1>10
      <4> HIDE DEF m, h, a, e
      <4>2. DidCut(m.head, g, a, p, e) BY <2>6 DEF h
      <4> QED BY <2>2, <4>1, <4>2, CutGood, Zenon
    <3> HIDE DEF n
    <3> QED BY <3>1 DEF CutDone
  <2> HIDE DEF n
  <2>8. a \in UsedIn(n.head) /\ n.head[a].size = lead BY <1>10, <2>7
  <2>9. Disposed(n, d, a)
    <3>1. Disposed(n, dispose_chunk(n, a, n.head[a].size), a) BY <2>7, <2>8, DisposeIs
    <3> QED BY <2>8, <3>1
  <2> HIDE DEF d
  <2>10. UsedIn(h) \subseteq DOMAIN h BY Parts
  <2>11. UsedIn(d.head) = (UsedIn(h) \ {a}) \cup {p} BY <1>6, <2>7, <2>9 DEF Disposed
  <2>12. p \in UsedIn(d.head) BY <2>11
  <2>13. d.head[p].size = h[a].size - (p - a) BY <2>5, <2>7, <2>9, <2>12 DEF Disposed
  <2>14. ASSUME NEW q \in UsedIn(h) \ {a, p} PROVE d.head[q].size = h[q].size
    BY <2>7, <2>9, <2>10, <2>11 DEF Disposed
  <2>15. Moved(m, d, a, p) BY <2>7, <2>9, <2>11, <2>14 DEF Moved, Disposed
  <2> QED BY <1>4, <2>1, <2>7, <2>13, <2>15
<1> QED BY <1>5, <1>6

\* The used chunk p has lost what was not needed.
RestGiven(m, r, p, nb) ==
  /\ Good(r) /\ r.segsize = m.segsize /\ UsedIn(r.head) = UsedIn(m.head) /\ r.head[p].size >= nb
  /\ r.head[p].size \in Nat /\ \A q \in UsedIn(m.head) \ {p} : r.head[q].size = m.head[q].size

\* What lies behind the request is given back.
LEMMA TrimRestKeeps ==
  ASSUME NEW m, Good(m), NEW p \in UsedIn(m.head), NEW nb \in Nat, nb >= MIN_CHUNK_SIZE, nb =< m.head[p].size
  PROVE  RestGiven(m, TrimRest(m, p, nb), p, nb)
<1> DEFINE h == m.head
           rest == h[p].size - nb
           b == p + nb
           e == p + h[p].size
           g == set_inuse(set_inuse(h, p, nb, TRUE), b, rest, TRUE)
           n == [m EXCEPT !.head = g]
           d == dispose_chunk(n, b, rest)
<1>1. p \in DOMAIN h /\ HeapOK(m) BY Parts DEF Good
<1>2. Tile(h, m.top, m.segsize - TOP_FOOT_SIZE) /\ Headers(h) /\ p \in Nat /\ p # m.top
  <2>1. m.top \notin UsedIn(h) BY <1>1, HeapFacts
  <2> QED BY <1>1, <2>1, HeapFacts
<1>3. h[p].size \in Nat /\ h[p].size > 0 /\ e \in DOMAIN h /\ e \in Nat
  <2>1. h[p].size \in Nat /\ h[p].size > 0 /\ e \in DOMAIN h BY <1>1, <1>2, TileFacts
  <2> QED BY <1>2, <2>1
<1>10. Good(m) /\ p \in UsedIn(h) OBVIOUS
<1>4. TrimRest(m, p, nb) = IF rest =< MIN_CHUNK_SIZE THEN m ELSE d BY DEF TrimRest
<1>5. CASE rest =< MIN_CHUNK_SIZE
  <2>1. TrimRest(m, p, nb) = m BY <1>4, <1>5
  <2> QED BY <1>3, <2>1 DEF RestGiven
<1>6. CASE ~(rest =< MIN_CHUNK_SIZE)
  <2>1. b \in Nat /\ rest = e - b /\ nb = b - p BY <1>2, <1>3
  <2>2. p + MIN_CHUNK_SIZE =< b /\ b + MIN_CHUNK_SIZE =< e BY <1>2, <1>3, <1>6, TopConstants
  <2>3. p < b /\ b < e BY <1>2, <1>3, <2>1, <2>2, TopConstants
  <2>4. \A q \in DOMAIN h : q \in p .. e - 1 => q = p
    <3>1. \A q \in DOMAIN h : q \in p .. p + h[p].size - 1 => q = p BY <1>1, <1>2, Alone
    <3> QED BY <1>2, <1>3, <3>1
  <2>6. DidCut(h, g, p, b, e)
    <3> HIDE DEF e, b, rest
    <3>1. g = set_inuse(set_inuse(h, p, b - p, TRUE), b, e - b, TRUE) BY <2>1
    <3>2. DidCut(h, set_inuse(set_inuse(h, p, b - p, TRUE), b, e - b, TRUE), p, b, e)
      <4> HIDE DEF h
      <4> QED BY <1>1, <1>2, <1>3, <2>1, <2>3, <2>4, CutLower, Zenon
    <3> QED BY <3>1, <3>2
  <2> HIDE DEF g, b
  <2>7. /\ Good(n) /\ n.segsize = m.segsize /\ b \notin DOMAIN h
        /\ UsedIn(n.head) = UsedIn(h) \cup {b} /\ n.head[p].size = b - p /\ n.head[b].size = e - b
        /\ \A q \in DOMAIN h \ {p} : n.head[q].size = h[q].size
    <3>1. CutDone(m, n, p, b, e)
      <4>1. Good(m) /\ p \in UsedIn(m.head) /\ e = p + m.head[p].size BY <1>10
      <4> HIDE DEF h, e
      <4>2. DidCut(m.head, g, p, b, e) BY <2>6 DEF h
      <4> QED BY <2>1, <2>2, <4>1, <4>2, CutGood, Zenon
    <3> HIDE DEF n
    <3> QED BY <3>1 DEF CutDone
  <2> HIDE DEF n
  <2>8. b \in UsedIn(n.head) /\ n.head[b].size = rest BY <2>1, <2>7
  <2>9. Disposed(n, d, b)
    <3>1. Disposed(n, dispose_chunk(n, b, n.head[b].size), b) BY <2>7, <2>8, DisposeIs
    <3> QED BY <2>8, <3>1
  <2> HIDE DEF d
  <2>10. UsedIn(h) \subseteq DOMAIN h BY Parts
  <2>11. UsedIn(d.head) = UsedIn(h) BY <2>7, <2>9, <2>10 DEF Disposed
  <2>13. d.head[p].size = nb BY <1>10, <2>1, <2>7, <2>9, <2>11 DEF Disposed
  <2>14. ASSUME NEW q \in UsedIn(h) \ {p} PROVE d.head[q].size = h[q].size
    BY <2>7, <2>9, <2>10, <2>11 DEF Disposed
  <2>15. RestGiven(m, d, p, nb) BY <2>7, <2>9, <2>11, <2>13, <2>14 DEF RestGiven, Disposed
  <2> QED BY <1>4, <1>6, <2>15
<1> QED BY <1>5, <1>6

\* Multiples leave no remainder.
LEMMA MultipleIs == ASSUME NEW k \in Nat, NEW y \in Nat \ {0} PROVE k * y \in Nat /\ (k * y) % y = 0
<1> DEFINE x == k * y
<1>1. x \in Nat /\ x = y * k OBVIOUS
<1> HIDE DEF x
<1>2. y * k =< x /\ x < y * k + y BY <1>1
<1>3. x \div y = k BY <1>1, <1>2, DivIs
<1>4. x % y \in 0 .. y - 1 /\ x = y * (x \div y) + (x % y) BY <1>1, DivMod
<1>5. x % y = 0 BY <1>1, <1>3, <1>4
<1> QED BY <1>1, <1>5 DEF x

\* The first aligned chunk: the chunk itself or one that leaves room for another.
LEMMA AlignedIs ==
  ASSUME NEW p \in Nat, NEW align \in Nat, align >= 2
  PROVE  /\ Aligned(p, align) \in Nat /\ (Aligned(p, align) + 1) % align = 0
         /\ Aligned(p, align) = p \/ (p + MIN_CHUNK_SIZE =< Aligned(p, align) /\ Aligned(p, align) =< p + align + 1)
<1> DEFINE x == p + 1
           d == x \div align
           r == x % align
           c == div_ceil(x, align)
           br == c * align - 1
<1>1. x \in Nat /\ x = p + 1 OBVIOUS
<1>2. Aligned(p, align) = IF r = 0 THEN p ELSE IF br - p >= MIN_CHUNK_SIZE THEN br ELSE br + align
  BY Zenon DEF Aligned
<1> HIDE DEF x
<1>6. align \in Nat \ {0} OBVIOUS
<1>3. d \in Nat /\ r \in 0 .. align - 1 /\ x = align * d + r BY <1>1, <1>6, DivMod
<1>4. CASE r = 0
  <2>1. Aligned(p, align) = p BY <1>2, <1>4
  <2>2. (p + 1) % align = 0 BY <1>1, <1>4
  <2> QED BY <2>1, <2>2
<1>5. CASE r # 0
  <2>1. c = d + 1 BY <1>5 DEF div_ceil
  <2>2. c \in Nat BY <1>3, <2>1
  <2>3. c * align = align * d + align BY <1>3, <2>1
  <2>4. c * align \in Nat /\ (c * align) % align = 0 BY <1>6, <2>2, MultipleIs
  <2>5. (c + 1) * align \in Nat /\ ((c + 1) * align) % align = 0
    <3>1. c + 1 \in Nat BY <2>2
    <3> HIDE DEF c
    <3> DEFINE k == c + 1
    <3>2. k \in Nat BY <3>1
    <3> HIDE DEF k
    <3>3. k * align \in Nat /\ (k * align) % align = 0 BY <1>6, <3>2, MultipleIs
    <3> QED BY <3>3 DEF k
  <2>6. (c + 1) * align = c * align + align BY <2>2
  <2> DEFINE y == c * align
             z == (c + 1) * align
             w == align * d
  <2>8. w \in Nat BY <1>3
  <2>9. y = w + align /\ z = y + align /\ y \in Nat /\ z \in Nat /\ y % align = 0 /\ z % align = 0 /\ x = w + r
    BY <1>3, <2>3, <2>4, <2>5, <2>6
  <2>10. br = y - 1 OBVIOUS
  <2> HIDE DEF y, z, w, c, d, r, br
  <2>7. br - p = align - r /\ br \in Nat /\ br + 1 = y /\ br + align + 1 = z BY <1>1, <1>3, <2>8, <2>9, <2>10
  <2>11. CASE br - p >= MIN_CHUNK_SIZE
    <3>1. Aligned(p, align) = br BY <1>2, <1>5, <2>11
    <3> QED BY <1>3, <2>7, <2>9, <2>11, <3>1, TopConstants
  <2>12. CASE ~(br - p >= MIN_CHUNK_SIZE)
    <3>1. Aligned(p, align) = br + align BY <1>2, <1>5, <2>12
    <3>2. br - p = 1 BY <1>3, <1>5, <2>7, <2>12, TopConstants
    <3> QED BY <1>1, <2>7, <2>9, <3>1, <3>2, TopConstants
  <2> QED BY <2>11, <2>12
<1> QED BY <1>4, <1>5

-----------------------------------------------------------------------------
IsResult(r) == DOMAIN r = {"m", "p", "asked"}

\* Got makes results.
LEMMA GotResult == ASSUME NEW m, NEW p PROVE IsResult(Got(m, p))
BY DEF Got, IsResult

\* internal_malloc has a result on each branch.
LEMMA ResultIs ==
  ASSUME NEW m, NEW nb PROVE IsResult(internal_malloc(m, nb))
<1> DEFINE small == is_small(nb)
           v == BestLarge(m, nb)
           r == internal_malloc(m, nb)
           c1 == small /\ Fitting(m, nb) # {}
           c2 == small /\ Fitting(m, nb) = {} /\ nb > m.dvsize /\ Larger(m, nb) # {}
           c3 == small /\ Fitting(m, nb) \cup Larger(m, nb) = {} /\ nb > m.dvsize /\ m.treemap # {}
           c4 == ~small /\ v # Null /\ ~DvBetter(m, nb, v)
<1>1. r = CASE c1 -> TakeFitting(m, nb)
            [] c2 -> SplitLarger(m, nb)
            [] c3 -> tmalloc_small(m, nb)
            [] c4 -> tmalloc_large(m, nb)
            [] OTHER -> IF nb =< m.dvsize THEN TakeDv(m, nb)
                        ELSE IF nb < m.topsize THEN TakeTop(m, nb) ELSE sys_alloc(m, nb)
  BY Zenon DEF internal_malloc
<1> HIDE DEF r, c1, c2, c3, c4
<1>2. IsResult(TakeFitting(m, nb)) BY GotResult, Zenon DEF TakeFitting
<1>3. IsResult(SplitLarger(m, nb)) BY GotResult, Zenon DEF SplitLarger
<1>4. IsResult(tmalloc_small(m, nb)) BY GotResult, Zenon DEF tmalloc_small
<1>5. IsResult(tmalloc_large(m, nb)) BY GotResult, Zenon DEF tmalloc_large
<1>6. IsResult(TakeDv(m, nb)) BY GotResult, Zenon DEF TakeDv
<1>7. \A n : IsResult(TakeTop(n, nb)) BY GotResult, Zenon DEF TakeTop
<1>8. IsResult(sys_alloc(m, nb))
  <2> DEFINE asize == granularity_align(nb - m.topsize + SYS_ALLOC_PADDING)
             t == TakeTop(Extended(m, asize), nb)
  <2>1. sys_alloc(m, nb) = [t EXCEPT !.asked = asize] BY Zenon DEF sys_alloc
  <2>2. IsResult(t) BY <1>7
  <2> HIDE DEF t, asize
  <2> QED BY <2>1, <2>2 DEF IsResult
<1>9. r \in {TakeFitting(m, nb), SplitLarger(m, nb), tmalloc_small(m, nb), tmalloc_large(m, nb), TakeDv(m, nb),
             TakeTop(m, nb), sys_alloc(m, nb)}
  <2>1. CASE ~c1 /\ ~c2 /\ ~c3 /\ ~c4
    <3>1. r = IF nb =< m.dvsize THEN TakeDv(m, nb)
              ELSE IF nb < m.topsize THEN TakeTop(m, nb) ELSE sys_alloc(m, nb)
      BY <1>1, <2>1, Zenon
    <3> QED BY <3>1
  <2> QED BY <1>1, <2>1
<1> QED BY <1>2, <1>3, <1>4, <1>5, <1>6, <1>7, <1>8, <1>9 DEF r

-----------------------------------------------------------------------------
\* A piece of memory of at least nb units and aligned, if there is room for
\* what was asked of more_core.
Serves(m, s, nb, align) ==
  /\ s.asked \in Nat
  /\ m.segsize + s.asked =< MAX_SIZE_T =>
       /\ Good(s.m) /\ s.m.segsize = m.segsize + s.asked
       /\ s.p \in Nat /\ s.p \notin UsedIn(m.head) /\ UsedIn(s.m.head) = UsedIn(m.head) \cup {s.p}
       /\ s.m.head[s.p].size \in Nat /\ s.m.head[s.p].size >= nb /\ (s.p + 1) % align = 0
       /\ \A q \in UsedIn(m.head) : s.m.head[q].size = m.head[q].size

\* A chunk in use has a place and a size.
LEMMA UsedSize ==
  ASSUME NEW m, Good(m), NEW p \in UsedIn(m.head) PROVE p \in Nat /\ m.head[p].size \in Nat /\ m.head[p].size > 0
<1>1. HeapOK(m) /\ p \in DOMAIN m.head BY Parts DEF Good
<1>2. p \in Nat /\ m.head[p].size \in 1 .. MAX_SIZE_T BY <1>1, HeapFacts
<1> QED BY <1>2

\* What was granted serves a request that wants no alignment.
LEMMA MallocServes ==
  ASSUME NEW m, NEW s, NEW nb \in Nat, Granted(m, s, nb) PROVE Serves(m, s, nb, 1)
<1>1. ASSUME m.segsize + s.asked =< MAX_SIZE_T
      PROVE  /\ s.p \in Nat /\ s.m.head[s.p].size \in Nat /\ s.m.head[s.p].size >= nb /\ (s.p + 1) % 1 = 0
  <2>1. Good(s.m) /\ s.p \in UsedIn(s.m.head) /\ s.m.head[s.p].size \in nb .. nb + MIN_CHUNK_SIZE - 1
    BY <1>1 DEF Granted
  <2>2. s.p \in Nat /\ s.m.head[s.p].size \in Nat BY <2>1, UsedSize
  <2>3. (s.p + 1) % 1 = 0 BY <2>2
  <2>4. s.m.head[s.p].size >= nb BY <2>1, <2>2, TopConstants
  <2> QED BY <2>2, <2>3, <2>4
<1> QED BY <1>1 DEF Granted, Serves

\* internal_memalign hands out one aligned chunk, and nothing else.
LEMMA MemalignServes ==
  ASSUME NEW m, NEW r, IsResult(r), NEW nb \in Nat, nb >= MIN_CHUNK_SIZE, NEW align \in Nat, align >= 2, NEW junk \in BOOLEAN,
         Granted(m, r, nb + align + MIN_CHUNK_SIZE), UsedIn(m.head) \subseteq DOMAIN m.head
  PROVE  Serves(m, internal_memalign(r, align, nb, junk), nb, align)
<1> DEFINE a == r.p
           p == Aligned(a, align)
           n == TrimLead(r, p, junk)
           d == TrimRest(n, p, nb)
           s == internal_memalign(r, align, nb, junk)
<1>1. s = [r EXCEPT !.m = d, !.p = p] BY Zenon DEF internal_memalign
<1> HIDE DEF s, d
<1>2. s.asked = r.asked /\ s.m = d /\ s.p = p BY <1>1 DEF IsResult
<1>3. s.asked \in Nat BY <1>2 DEF Granted
<1>4. ASSUME m.segsize + s.asked =< MAX_SIZE_T
      PROVE  /\ Good(s.m) /\ s.m.segsize = m.segsize + s.asked
             /\ s.p \in Nat /\ s.p \notin UsedIn(m.head) /\ UsedIn(s.m.head) = UsedIn(m.head) \cup {s.p}
             /\ s.m.head[s.p].size \in Nat /\ s.m.head[s.p].size >= nb /\ (s.p + 1) % align = 0
             /\ \A q \in UsedIn(m.head) : s.m.head[q].size = m.head[q].size
  <2> DEFINE h == r.m.head
  <2>1. /\ Good(r.m) /\ r.m.segsize = m.segsize + r.asked
        /\ a \notin UsedIn(m.head) /\ UsedIn(h) = UsedIn(m.head) \cup {a}
        /\ h[a].size \in (nb + align + MIN_CHUNK_SIZE) .. (nb + align + MIN_CHUNK_SIZE) + MIN_CHUNK_SIZE - 1
        /\ \A q \in UsedIn(m.head) : h[q].size = m.head[q].size
    BY <1>2, <1>4 DEF Granted
  <2>2. a \in UsedIn(h) BY <2>1
  <2>3. a \in Nat /\ h[a].size \in Nat BY <2>1, <2>2, UsedSize
  <2>4. h[a].size >= nb + align + MIN_CHUNK_SIZE BY <2>1, <2>3, TopConstants
  <2> HIDE DEF h, a
  <2>5. p \in Nat /\ (p + 1) % align = 0 /\ (p = a \/ (a + MIN_CHUNK_SIZE =< p /\ p =< a + align + 1)) BY <2>3, AlignedIs
  <2> HIDE DEF p
  <2>6. p = a \/ (a + MIN_CHUNK_SIZE =< p /\ p + MIN_CHUNK_SIZE =< a + h[a].size) BY <2>3, <2>4, <2>5, TopConstants
  <2>7. Moved(r.m, n, a, p) /\ (p # a => p \notin DOMAIN h) /\ n.head[p].size = h[a].size - (p - a)
    BY <2>1, <2>2, <2>5, <2>6, TrimLeadMoves DEF a, h
  <2> HIDE DEF n
  <2>8. nb =< n.head[p].size /\ n.head[p].size \in Nat BY <2>3, <2>4, <2>5, <2>7, TopConstants
  <2>9. Good(n) /\ n.segsize = r.m.segsize /\ UsedIn(n.head) = (UsedIn(h) \ {a}) \cup {p}
        /\ \A q \in UsedIn(h) \ {a, p} : n.head[q].size = h[q].size
    BY <2>7 DEF Moved, h
  <2>10. p \in UsedIn(n.head) BY <2>9
  <2>11. RestGiven(n, d, p, nb) BY <2>8, <2>9, <2>10, TrimRestKeeps DEF d
  <2>12. p \notin UsedIn(m.head) BY <2>1, <2>7, Parts
  <2>13. UsedIn(n.head) = UsedIn(m.head) \cup {p} BY <2>1, <2>9
  <2>14. \A q \in UsedIn(m.head) : d.head[q].size = m.head[q].size
    BY <2>1, <2>9, <2>11, <2>12, <2>13 DEF RestGiven
  <2> QED BY <1>2, <2>1, <2>5, <2>9, <2>11, <2>12, <2>13, <2>14 DEF RestGiven
<1> QED BY <1>3, <1>4 DEF Serves, s

-----------------------------------------------------------------------------
(* Top is trimmed; the sizes of requests.                                  *)

\* What top gives back is less than it has.
LEMMA TrimmedIs ==
  ASSUME NEW m, m.topsize \in Nat
  PROVE  Trimmed(m) \in Nat /\ (Trimmed(m) > 0 => m.topsize > TOP_FOOT_SIZE /\ Trimmed(m) < m.topsize - TOP_FOOT_SIZE)
<1> DEFINE x == m.topsize - TOP_FOOT_SIZE
           d == x \div page_size
           r == x % page_size
           c == div_ceil(x, page_size)
<1>1. page_size \in Nat \ {0} /\ TOP_FOOT_SIZE \in Nat BY Constants, TopConstants
<1>2. CASE ~(m.topsize > TOP_FOOT_SIZE)
  <2>1. Trimmed(m) = 0 BY <1>2 DEF Trimmed
  <2> QED BY <2>1
<1>3. CASE m.topsize > TOP_FOOT_SIZE
  <2>1. Trimmed(m) = (c - 1) * page_size BY <1>3 DEF Trimmed
  <2>2. x \in Nat /\ x > 0 BY <1>1, <1>3
  <2>3. c = IF r # 0 THEN d + 1 ELSE d BY DEF div_ceil
  <2> HIDE DEF x, c
  <2>4. d \in Nat /\ r \in 0 .. page_size - 1 /\ x = page_size * d + r BY <1>1, <2>2, DivMod
  <2> HIDE DEF d, r
  <2>5. CASE r # 0
    <3>1. c - 1 = d BY <2>3, <2>4, <2>5
    <3>2. (c - 1) * page_size = page_size * d BY <1>1, <2>4, <3>1
    <3>3. page_size * d \in Nat /\ page_size * d < x BY <1>1, <2>4, <2>5
    <3> QED BY <1>3, <2>1, <3>2, <3>3 DEF x
  <2>6. CASE r = 0
    <3>1. c = d BY <2>3, <2>6
    <3>2. d > 0 BY <1>1, <2>2, <2>4, <2>6
    <3>3. (c - 1) * page_size = page_size * d - page_size BY <1>1, <2>4, <3>1
    <3>4. page_size * d = x BY <1>1, <2>4, <2>6
    <3>5. page_size * (d - 1) \in Nat /\ page_size * (d - 1) = page_size * d - page_size BY <1>1, <2>4, <3>2
    <3> QED BY <1>1, <1>3, <2>1, <2>2, <3>3, <3>4, <3>5 DEF x
  <2> QED BY <2>5, <2>6
<1> QED BY <1>2, <1>3

\* Trimming leaves what is in use.
TrimDone(m, r, released) ==
  /\ Good(r) /\ r.segsize = m.segsize - released /\ released =< m.segsize
  /\ UsedIn(r.head) = UsedIn(m.head) /\ \A q \in UsedIn(m.head) : r.head[q].size = m.head[q].size

\* The sizes of top and of the segment are numbers.
LEMMA TopsizeNat == ASSUME NEW m, Good(m) PROVE m.topsize \in Nat /\ m.segsize \in Nat /\ m.topsize =< m.segsize
<1>1. HeapOK(m) BY DEF Good
<1>2. m.segsize \in Nat BY <1>1, TopConstants DEF HeapOK
<1>3. CASE m.topsize = 0 BY <1>2, <1>3
<1>4. CASE m.topsize # 0
  <2>1. Tile(m.head, m.top, m.segsize - TOP_FOOT_SIZE) /\ m.topsize = m.head[m.top].size BY <1>1, <1>4 DEF HeapOK
  <2>2. m.top \in Nat /\ m.head[m.top].size \in Nat /\ m.top + m.head[m.top].size = m.segsize - TOP_FOOT_SIZE
    <3>1. m.top \in DOMAIN m.head /\ m.top \in Nat BY <2>1, TileFacts
    <3>2. m.head[m.top].size \in Nat BY <2>1, <3>1, TileFacts
    <3> QED BY <2>1, <3>1, <3>2 DEF Tile
  <2> QED BY <1>2, <2>1, <2>2, TopConstants
<1> QED BY <1>3, <1>4

\* sys_trim takes memory from top and from the segment.
LEMMA SysTrimIs ==
  ASSUME NEW m, Good(m), NEW released, released = Trimmed(m)
  PROVE  released \in Nat /\ TrimDone(m, sys_trim(m, released), released)
<1> DEFINE r == sys_trim(m, released)
<1>1. HeapOK(m) /\ DvOK(m) /\ BinsOK(m, Loose(m)) BY DEF Good
<1>2. DOMAIN m = Fields /\ m.segsize \in 0 .. MAX_SIZE_T BY <1>1 DEF HeapOK
<1>3. m.topsize \in Nat /\ m.segsize \in Nat /\ m.topsize =< m.segsize BY TopsizeNat
<1>4. released \in Nat /\ (released > 0 => m.topsize > TOP_FOOT_SIZE /\ released < m.topsize - TOP_FOOT_SIZE)
  BY <1>3, TrimmedIs
<1>5. CASE released = 0
  <2>1. /\ r.head = m.head /\ DOMAIN r = Fields /\ SameTop(m, r) /\ SameDv(m, r) /\ SameBins(m, r)
    BY <1>2, <1>5 DEF sys_trim, Fields, SameTop, SameDv, SameBins
  <2> HIDE DEF r
  <2>2. HeapOK(r) /\ DvOK(r) /\ Loose(r) = Loose(m) BY <1>1, <2>1 DEF HeapOK, DvOK, Loose, SameTop, SameDv
  <2>3. BinsOK(r, Loose(m)) BY <1>1, <2>1, BinsFrame DEF SameBins
  <2>4. r.segsize = m.segsize - 0 BY <1>3, <2>1 DEF SameTop
  <2> QED BY <1>3, <1>4, <1>5, <2>1, <2>2, <2>3, <2>4 DEF TrimDone, Good, r
<1>6. CASE released # 0
  <2> DEFINE size == m.topsize - released
  <2>1. /\ DOMAIN r = Fields /\ r.head = Write(m.head, m.top, Unused(size)) /\ r.top = m.top /\ r.topsize = size
        /\ r.segsize = m.segsize - released /\ SameDv(m, r) /\ SameBins(m, r)
    BY <1>2, <1>6 DEF sys_trim, init_top, SetTop, Fields, SameDv, SameBins
  <2> HIDE DEF r
  <2>2. size \in Nat \ {0} /\ r.segsize \in 0 .. MAX_SIZE_T /\ m.segsize - m.topsize + size = r.segsize
        /\ released =< m.segsize
    BY <1>2, <1>3, <1>4, <1>6, <2>1, TopConstants
  <2>3. m.topsize # 0 BY <1>3, <1>4, <1>6, TopConstants
  <2>4. Tile(m.head, m.top, m.segsize - TOP_FOOT_SIZE) BY <1>1, <2>3 DEF HeapOK
  <2>5. m.top \in Nat /\ m.top \notin UsedIn(m.head) BY <2>4, TileFacts
  <2>6. m.top # Null BY <2>5 DEF Null
  <2> HIDE DEF size
  <2>7. /\ Good(r) /\ UsedIn(r.head) = UsedIn(m.head) /\ FreeIn(r.head) = FreeIn(m.head)
        /\ \A q \in DOMAIN m.head : q # m.top => r.head[q].size = m.head[q].size
    BY <2>1, <2>2, <2>6, Resized
  <2>8. \A q \in UsedIn(m.head) : r.head[q].size = m.head[q].size BY <2>5, <2>7, Parts
  <2> QED BY <1>4, <2>1, <2>2, <2>7, <2>8 DEF TrimDone, r
<1> QED BY <1>4, <1>5, <1>6

-----------------------------------------------------------------------------
\* The sizes of requests.
LEMMA RequestIs ==
  ASSUME NEW bytes \in Nat
  PROVE  /\ request2size(bytes) \in Nat /\ request2size(bytes) >= MIN_CHUNK_SIZE
         /\ \A size \in Nat : size >= request2size(bytes) => Payload(size) >= bytes
<1> DEFINE x == bytes + 11
           n == x \div 8
<1>1. n \in Nat /\ x = 8 * n + (x % 8) /\ x % 8 \in 0 .. 7
  <2>1. x \in Nat /\ 8 \in Nat \ {0} OBVIOUS
  <2> HIDE DEF x
  <2> QED BY <2>1, DivMod
<1>2. request2size(bytes) = IF bytes < 11 THEN 2 ELSE n
  BY DEF request2size, pad_request, MIN_REQUEST, MIN_CHUNK_SIZE, MALLOC_ALIGNMENT, CHUNK_OVERHEAD
<1>3. \A size \in Nat : Payload(size) = size * 8 - 4 BY DEF Payload, MALLOC_ALIGNMENT, CHUNK_OVERHEAD
<1> HIDE DEF n
<1>4. CASE bytes < 11
  <2>1. request2size(bytes) = 2 BY <1>2, <1>4
  <2> QED BY <1>3, <1>4, <2>1, TopConstants
<1>5. CASE ~(bytes < 11)
  <2>1. request2size(bytes) = n BY <1>2, <1>5
  <2>2. n >= 2 BY <1>1, <1>5
  <2>3. ASSUME NEW size \in Nat, size >= n PROVE size * 8 - 4 >= bytes BY <1>1, <2>3
  <2> QED BY <1>1, <1>3, <2>1, <2>2, <2>3, TopConstants
<1> QED BY <1>4, <1>5

\* An alignment is a number of at least two units.
LEMMA AlignmentIs == ASSUME NEW a \in Alignments PROVE a \in Nat /\ a >= 2
<1>1. PICK k \in 1 .. SIZE_T_BITSIZE : a = 2 ^ k BY DlmallocAssumption
<1>2. SIZE_T_BITSIZE \in Nat BY BinsAssumption
<1>3. k \in Nat /\ k >= 1 /\ 1 \in Nat BY <1>2
<1>4. 2 ^ 1 =< 2 ^ k /\ 2 ^ k \in Nat BY <1>3, PowMono, Pow
<1>5. 2 ^ 1 = 2 BY Pow, PowZero
<1> QED BY <1>1, <1>4, <1>5

-----------------------------------------------------------------------------
\* The inductive invariant: the allocator's state is sound, what it counts as
\* used is what callers hold, each piece as large and aligned as asked for, and
\* its segment is the heap.
HeldFits(m) ==
  /\ DOMAIN used = UsedIn(m.head)
  /\ \A p \in DOMAIN used : Payload(m.head[p].size) >= used[p].bytes /\ (p + 1) % used[p].align = 0

MallocInv ==
  /\ Good(gm) /\ HeldFits(gm) /\ HeapInv
  /\ ~panicked => gm.segsize = heap_size

\* No chunk is a list.
LEMMA EmptyList == IsList(<<>>, {})
<1> DEFINE s == <<>>
<1>1. s \in Seq(Int) /\ Len(s) = 0 OBVIOUS
<1> HIDE DEF s
<1>2. 1 .. Len(s) = {} BY <1>1
<1>3. IsList(s, {}) BY <1>1, <1>2, ListIs
<1> QED BY <1>3 DEF s

\* The state before the first call.
LEMMA StartGood == Good(HeapStart)
<1> DEFINE m == HeapStart
<1>1. /\ DOMAIN m = Fields /\ m.head = <<>> /\ m.segsize = 0 /\ m.topsize = 0 /\ m.top = Null /\ m.dv = Null
      /\ m.dvsize = 0 /\ m.smallmap = {} /\ m.treemap = {}
      /\ m.smallbins = [i \in MIN_CHUNK_SIZE .. NSMALLBINS - 1 |-> <<>>]
      /\ m.treebins = [i \in 0 .. NTREEBINS - 1 |-> <<>>]
  BY DEF HeapStart, Fields
<1> HIDE DEF m
<1>2. DOMAIN m.head = {} /\ UsedIn(m.head) = {} /\ FreeIn(m.head) = {} BY <1>1 DEF UsedIn, FreeIn
<1>3. HeapOK(m) BY <1>1, <1>2, TopConstants DEF HeapOK
<1>4. DvOK(m) BY <1>1 DEF DvOK
<1>5. Loose(m) = {} BY <1>2 DEF Loose
<1>6. SmallOK(m, {})
  <2>1. \A i : OfSize(m.head, {}, i) = {} BY DEF OfSize
  <2>2. \A i \in MIN_CHUNK_SIZE .. NSMALLBINS - 1 : m.smallbins[i] = <<>> BY <1>1
  <2> QED BY <1>1, <2>1, <2>2, EmptyList DEF SmallOK
<1>7. TreesOK(m, {})
  <2>1. \A i : InBin(m.head, {}, i) = {} BY DEF InBin
  <2>2. \A i \in 0 .. NTREEBINS - 1 : m.treebins[i] = <<>> BY <1>1
  <2>3. DOMAIN <<>> = {} OBVIOUS
  <2>4. \A i : TreeOK(m.head, <<>>, i, {})
    <3>1. \A z, i : Shape({}, z, i) BY DEF Shape
    <3> QED BY <2>3, <3>1 DEF TreeOK
  <2>5. \A i \in 0 .. NTREEBINS - 1 : TreeOK(m.head, m.treebins[i], i, InBin(m.head, {}, i)) BY <2>1, <2>2, <2>4
  <2>6. m.treemap = {i \in 0 .. NTREEBINS - 1 : DOMAIN m.treebins[i] # {}} BY <1>1, <2>2, <2>3
  <2> QED BY <1>1, <2>2, <2>5, <2>6 DEF TreesOK
<1>8. BinsOK(m, {}) BY <1>6, <1>7 DEF BinsOK
<1> QED BY <1>3, <1>4, <1>5, <1>8 DEF Good, m

\* The invariant holds before the first call.
LEMMA MallocInvInit == HeapInit => MallocInv
<1> SUFFICES ASSUME HeapInit PROVE MallocInv OBVIOUS
<1>1. gm = HeapStart /\ used = <<>> /\ Init BY DEF HeapInit
<1>2. gm.head = <<>> /\ gm.segsize = 0 BY <1>1 DEF HeapStart
<1>3. DOMAIN gm.head = {} /\ DOMAIN used = {} BY <1>1, <1>2
<1>4. UsedIn(gm.head) = {} BY <1>3 DEF UsedIn
<1>5. HeapInv /\ heap_size = 0 BY <1>1, HeapInvInit DEF Init
<1>6. HeldFits(gm) BY <1>3, <1>4 DEF HeldFits
<1> QED BY <1>1, <1>2, <1>5, <1>6, StartGood DEF MallocInv

-----------------------------------------------------------------------------
(* The steps of the kernel keep the invariant.                             *)

\* The pages after a step.
LEMMA KmmAfter == HeapInv' => KmmInv'
BY HeapInvKmm, PTL

\* What more_core gives is behind the segment, so that the segment stays the heap.
LEMMA HeldAfter ==
  ASSUME MallocInv, ~panicked, NEW r, r.asked \in Nat,
         \/ r.asked = 0 /\ UNCHANGED vars
         \/ r.asked \in 1 .. HALF_MAX_SIZE_T - 1 /\ Grow(r.asked)
         \/ r.asked >= HALF_MAX_SIZE_T /\ panicked' = TRUE /\ UNCHANGED <<heap_size, mapped>>
  PROVE  /\ HeapInv'
         /\ ~panicked' => heap_size' = gm.segsize + r.asked /\ gm.segsize + r.asked =< MAX_SIZE_T
<1>1. HeapInv /\ heap_size \in Nat /\ gm.segsize = heap_size BY DEF MallocInv, HeapInv
<1>0. HeapPages * page_size \in Nat /\ HeapPages * page_size =< MAX_SIZE_T /\ MAX_SIZE_T \in Nat
  BY Constants, TopConstants, DlmallocAssumption
<1> DEFINE limit == HeapPages * page_size
<1>5. limit \in Nat /\ limit =< MAX_SIZE_T /\ (HeapInv' => heap_size' \in 0 .. limit)
  BY <1>0, KmmAfter DEF KmmInv
<1> HIDE DEF limit
<1>2. CASE r.asked = 0 /\ UNCHANGED vars
  <2>1. heap_size' = heap_size /\ mapped' = mapped BY <1>2 DEF vars
  <2>2. HeapInv' BY <1>1, <2>1 DEF HeapInv
  <2>3. heap_size' = gm.segsize + r.asked BY <1>1, <1>2, <2>1
  <2> QED BY <2>2, <2>3, <1>0, <1>1, <1>5
<1>3. CASE r.asked \in 1 .. HALF_MAX_SIZE_T - 1 /\ Grow(r.asked)
  <2>1. r.asked \in Nat \ {0} BY <1>3
  <2>2. HeapInv' BY <1>1, <1>3, <2>1, GrowKeeps
  <2>3. ~panicked' => heap_size' = heap_size + r.asked BY <1>3 DEF Grow
  <2> QED BY <2>2, <2>3, <1>0, <1>1, <1>5
<1>4. CASE r.asked >= HALF_MAX_SIZE_T /\ panicked' = TRUE /\ UNCHANGED <<heap_size, mapped>>
  <2>1. HeapInv' BY <1>1, <1>4 DEF HeapInv
  <2> QED BY <1>4, <2>1
<1> QED BY <1>2, <1>3, <1>4

\* Memory handed out or a panic, the invariant holds.
LEMMA ServedKeeps ==
  ASSUME MallocInv, ~panicked, NEW r, NEW bytes \in Nat, NEW align,
         Serves(gm, r, request2size(bytes), align), Served(r, bytes, align)
  PROVE  MallocInv'
<1> DEFINE nb == request2size(bytes)
<1>1. Good(gm) /\ HeldFits(gm) BY DEF MallocInv
<1>2. r.asked \in Nat BY DEF Serves
<1>3. /\ HeapInv'
      /\ ~panicked' => heap_size' = gm.segsize + r.asked /\ gm.segsize + r.asked =< MAX_SIZE_T
  <2>1. \/ r.asked = 0 /\ UNCHANGED vars
        \/ r.asked \in 1 .. HALF_MAX_SIZE_T - 1 /\ Grow(r.asked)
        \/ r.asked >= HALF_MAX_SIZE_T /\ panicked' = TRUE /\ UNCHANGED <<heap_size, mapped>>
    BY DEF Served
  <2> QED BY <1>2, <2>1, HeldAfter
<1>4. CASE panicked'
  <2>1. gm' = gm /\ used' = used BY <1>4 DEF Served
  <2>2. Good(gm') /\ HeldFits(gm)' BY <1>1, <2>1 DEF HeldFits
  <2> QED BY <1>3, <1>4, <2>2 DEF MallocInv
<1>5. CASE ~panicked'
  <2>1. /\ Good(r.m) /\ r.m.segsize = gm.segsize + r.asked
        /\ r.p \in Nat /\ r.p \notin UsedIn(gm.head) /\ UsedIn(r.m.head) = UsedIn(gm.head) \cup {r.p}
        /\ r.m.head[r.p].size \in Nat /\ r.m.head[r.p].size >= nb /\ (r.p + 1) % align = 0
        /\ \A q \in UsedIn(gm.head) : r.m.head[q].size = gm.head[q].size
    BY <1>3, <1>5 DEF Serves
  <2>2. /\ gm' = r.m
        /\ used' = [p \in DOMAIN used \cup {r.p} |->
                      IF p = r.p THEN [bytes |-> bytes, align |-> align] ELSE used[p]]
    BY <1>5 DEF Served
  <2>3. /\ DOMAIN used = UsedIn(gm.head)
        /\ \A p \in DOMAIN used : Payload(gm.head[p].size) >= used[p].bytes /\ (p + 1) % used[p].align = 0
    BY <1>1 DEF HeldFits
  <2>4. DOMAIN used' = UsedIn(gm'.head) BY <2>1, <2>2, <2>3
  <2>5. \A size \in Nat : size >= nb => Payload(size) >= bytes BY RequestIs
  <2> HIDE DEF nb
  <2>6. ASSUME NEW p \in DOMAIN used'
        PROVE  Payload(gm'.head[p].size) >= used'[p].bytes /\ (p + 1) % used'[p].align = 0
    <3>1. CASE p = r.p
      <4>1. used'[p].bytes = bytes /\ used'[p].align = align BY <2>2, <2>6, <3>1
      <4>2. Payload(r.m.head[r.p].size) >= bytes BY <2>1, <2>5
      <4> QED BY <2>1, <2>2, <3>1, <4>1, <4>2
    <3>2. CASE p # r.p
      <4>1. p \in DOMAIN used /\ used'[p] = used[p] BY <2>2, <2>6, <3>2
      <4>2. gm'.head[p].size = gm.head[p].size BY <2>1, <2>2, <2>3, <4>1
      <4> QED BY <2>3, <4>1, <4>2
    <3> QED BY <3>1, <3>2
  <2>7. HeldFits(gm)' BY <2>4, <2>6 DEF HeldFits
  <2>8. Good(gm') /\ gm'.segsize = heap_size' BY <1>3, <1>5, <2>1, <2>2
  <2> QED BY <1>3, <2>7, <2>8 DEF MallocInv
<1> QED BY <1>4, <1>5

\* What a call of dlmalloc gets.
LEMMA DlmallocGets ==
  ASSUME MallocInv, NEW bytes \in Nat, request2size(bytes) =< MAX_SIZE_T
  PROVE  LET r == internal_malloc(gm, request2size(bytes))
         IN  Granted(gm, r, request2size(bytes)) /\ Chosen(gm, r.p, request2size(bytes))
<1> DEFINE nb == request2size(bytes)
<1>1. nb \in Nat /\ nb >= MIN_CHUNK_SIZE BY RequestIs
<1>2. MIN_CHUNK_SIZE \in Nat /\ MAX_SIZE_T \in Nat BY TopConstants
<1>3. nb \in MIN_CHUNK_SIZE .. MAX_SIZE_T BY <1>1, <1>2
<1>4. Good(gm) BY DEF MallocInv
<1> HIDE DEF nb
<1>5. Granted(gm, internal_malloc(gm, nb), nb) /\ Chosen(gm, internal_malloc(gm, nb).p, nb)
  BY <1>3, <1>4, InternalMallocIs
<1> QED BY <1>5 DEF nb

\* dlmalloc keeps the invariant.
LEMMA DlmallocKeeps ==
  ASSUME MallocInv, ~panicked, NEW bytes \in Requests, dlmalloc(bytes) PROVE MallocInv'
<1> DEFINE nb == request2size(bytes)
<1>1. bytes \in Nat /\ nb =< MAX_SIZE_T BY DlmallocAssumption
<1>2. PICK r \in {internal_malloc(gm, nb)} : Served(r, bytes, 1) BY DEF dlmalloc
<1>3. Granted(gm, r, nb) BY <1>1, <1>2, DlmallocGets
<1>4. nb \in Nat BY <1>1, RequestIs
<1> HIDE DEF nb
<1>5. Serves(gm, r, nb, 1) BY <1>3, <1>4, MallocServes
<1> QED BY <1>1, <1>2, <1>5, ServedKeeps DEF nb

\* So does dlmemalign.
LEMMA DlmemalignKeeps ==
  ASSUME MallocInv, ~panicked, NEW bytes \in AlignedRequests, NEW align \in Alignments, dlmemalign(align, bytes)
  PROVE  MallocInv'
<1> DEFINE nb == request2size(bytes)
<1>1. bytes \in Nat /\ nb + align + MIN_CHUNK_SIZE =< MAX_SIZE_T BY DlmallocAssumption
<1>2. align \in Nat /\ align >= 2 BY AlignmentIs
<1>3. nb \in Nat /\ nb >= MIN_CHUNK_SIZE BY <1>1, RequestIs
<1>4. PICK junk \in BOOLEAN, r \in {internal_malloc(gm, nb + align + MIN_CHUNK_SIZE)} :
        \E s \in {internal_memalign(r, align, nb, junk)} : Served(s, bytes, align)
  BY DEF dlmemalign
<1> DEFINE s == internal_memalign(r, align, nb, junk)
<1>5. Served(s, bytes, align) BY <1>4
<1>6. Good(gm) BY DEF MallocInv
<1> HIDE DEF nb, s
<1> DEFINE all == nb + align + MIN_CHUNK_SIZE
<1>7. all \in MIN_CHUNK_SIZE .. MAX_SIZE_T BY <1>1, <1>2, <1>3, TopConstants
<1>8. r = internal_malloc(gm, all) BY <1>4
<1> HIDE DEF all
<1>9. Granted(gm, internal_malloc(gm, all), all) /\ IsResult(internal_malloc(gm, all))
  BY <1>6, <1>7, InternalMallocIs, ResultIs
<1>10. Granted(gm, r, all) /\ IsResult(r) BY <1>8, <1>9
<1>11. Granted(gm, r, nb + align + MIN_CHUNK_SIZE) BY <1>10 DEF all
<1>12. UsedIn(gm.head) \subseteq DOMAIN gm.head BY DEF UsedIn
<1>13. Serves(gm, internal_memalign(r, align, nb, junk), nb, align)
  BY <1>2, <1>3, <1>4, <1>10, <1>11, <1>12, MemalignServes
<1>14. Serves(gm, s, nb, align) BY <1>13 DEF s
<1> QED BY <1>1, <1>5, <1>14, ServedKeeps DEF nb

\* So does dlfree, with the trimming of top.
LEMMA DlfreeKeeps == ASSUME MallocInv, ~panicked, NEW p \in DOMAIN used, dlfree(p) PROVE MallocInv'
<1>1. Good(gm) /\ HeldFits(gm) /\ HeapInv /\ gm.segsize = heap_size /\ heap_size \in Nat
  BY DEF MallocInv, HeapInv
<1>2. /\ DOMAIN used = UsedIn(gm.head)
      /\ \A q \in DOMAIN used : Payload(gm.head[q].size) >= used[q].bytes /\ (q + 1) % used[q].align = 0
  BY <1>1 DEF HeldFits
<1> DEFINE m == dispose_chunk(gm, p, gm.head[p].size)
           trims == m.top # gm.top /\ m.topsize > m.trim_check
           released == IF trims THEN Trimmed(m) ELSE 0
<1>3. /\ used' = [q \in DOMAIN used \ {p} |-> used[q]]
      /\ gm' = IF trims THEN sys_trim(m, released) ELSE m
      /\ IF released > 0 THEN Shrink(released) ELSE UNCHANGED vars
  BY DEF dlfree
<1>4. Disposed(gm, m, p) BY <1>1, <1>2, DisposeIs
<1> HIDE DEF m, trims
<1>5. Good(m) /\ m.segsize = heap_size BY <1>1, <1>4 DEF Disposed
<1>6. released \in Nat /\ TrimDone(m, gm', released)
  <2>1. CASE trims
    <3>1. released = Trimmed(m) BY <2>1
    <3> HIDE DEF released
    <3>2. released \in Nat /\ TrimDone(m, sys_trim(m, released), released) BY <1>5, <3>1, SysTrimIs
    <3> QED BY <1>3, <2>1, <3>2
  <2>2. CASE ~trims
    <3>1. released = 0 /\ gm' = m BY <1>3, <2>2
    <3> HIDE DEF released
    <3>2. m.segsize = m.segsize - 0 /\ 0 =< m.segsize BY <1>1, <1>5
    <3> QED BY <1>5, <3>1, <3>2 DEF TrimDone
  <2> QED BY <2>1, <2>2
<1> HIDE DEF released
<1>7. /\ Good(gm') /\ gm'.segsize = heap_size - released /\ released =< heap_size
      /\ UsedIn(gm'.head) = UsedIn(gm.head) \ {p}
      /\ \A q \in UsedIn(gm.head) \ {p} : gm'.head[q].size = gm.head[q].size
  BY <1>4, <1>5, <1>6 DEF TrimDone, Disposed
<1>8. HeapInv' /\ heap_size' = heap_size - released
  <2>1. CASE released > 0
    <3>1. Shrink(released) /\ released \in Nat \ {0} BY <1>3, <1>6, <2>1
    <3>2. HeapInv' BY <1>1, <3>1, ShrinkKeeps
    <3>3. heap_size' = heap_size - released BY <1>1, <1>6, <1>7, <3>1 DEF Shrink, Shrunk
    <3> QED BY <3>2, <3>3
  <2>2. CASE ~(released > 0)
    <3>1. UNCHANGED <<heap_size, mapped>> /\ released = 0 BY <1>3, <1>6, <2>2 DEF vars
    <3> QED BY <1>1, <3>1 DEF HeapInv
  <2> QED BY <2>1, <2>2
<1>9. HeldFits(gm)'
  <2>1. DOMAIN used' = UsedIn(gm'.head) BY <1>2, <1>3, <1>7
  <2>2. ASSUME NEW q \in DOMAIN used'
        PROVE  Payload(gm'.head[q].size) >= used'[q].bytes /\ (q + 1) % used'[q].align = 0
    <3>1. q \in DOMAIN used \ {p} /\ used'[q] = used[q] BY <1>3, <2>2
    <3>2. gm'.head[q].size = gm.head[q].size BY <1>2, <1>7, <3>1
    <3> QED BY <1>2, <3>1, <3>2
  <2> QED BY <2>1, <2>2 DEF HeldFits
<1> QED BY <1>7, <1>8, <1>9 DEF MallocInv

\* The inductive invariant holds always.
THEOREM MallocInvariant == HeapSpec => []MallocInv
<1>1. MallocInv /\ [kmalloc \/ kfree]_heapvars => MallocInv'
  <2>1. SUFFICES ASSUME MallocInv, [kmalloc \/ kfree]_heapvars PROVE MallocInv' OBVIOUS
  <2>2. CASE kmalloc
    <3>1. ASSUME NEW bytes \in Requests, ~panicked, dlmalloc(bytes) PROVE MallocInv' BY <2>1, <3>1, DlmallocKeeps
    <3>2. ASSUME NEW bytes \in AlignedRequests, NEW align \in Alignments, ~panicked, dlmemalign(align, bytes)
          PROVE  MallocInv'
      BY <2>1, <3>2, DlmemalignKeeps
    <3> QED BY <2>2, <3>1, <3>2 DEF kmalloc
  <2>3. CASE kfree
    <3>1. ASSUME NEW p \in DOMAIN used, ~panicked, dlfree(p) PROVE MallocInv' BY <2>1, <3>1, DlfreeKeeps
    <3> QED BY <2>3, <3>1 DEF kfree
  <2>4. CASE UNCHANGED heapvars
    <3>1. gm' = gm /\ used' = used /\ heap_size' = heap_size /\ mapped' = mapped /\ panicked' = panicked
      BY <2>4 DEF heapvars, vars
    <3>2. Good(gm') /\ HeldFits(gm)' /\ HeapInv' BY <2>1, <3>1 DEF MallocInv, HeldFits, HeapInv
    <3> QED BY <2>1, <3>1, <3>2 DEF MallocInv
  <2> QED BY <2>1, <2>2, <2>3, <2>4
<1>2. HeapInit => MallocInv BY MallocInvInit
<1> QED BY <1>1, <1>2, PTL DEF HeapSpec

\* With the allocator the heap is on mapped pages.
THEOREM HeapBacked == HeapSpec => []Backed
<1>1. MallocInv => Backed BY HeapInvBacked DEF MallocInv
<1> QED BY <1>1, MallocInvariant, PTL

-----------------------------------------------------------------------------
\* The debugging checks, from the invariant.
LEMMA FreeAre == Free = FreeIn(gm.head) /\ Binned = Loose(gm)
BY DEF Free, FreeIn, UsedIn, Binned, Loose, is_inuse

\* The checks of single chunks hold.
LEMMA Checked ==
  ASSUME Good(gm), NEW p \in DOMAIN gm.head
  PROVE  /\ segment_holds(p)
         /\ p # gm.top /\ p \notin UsedIn(gm.head) =>
              /\ do_check_free_chunk(p)
              /\ is_inuse(next_chunk(p)) /\ next_chunk(p) \in UsedIn(gm.head)
         /\ p \in UsedIn(gm.head) => do_check_inuse_chunk(p)
<1> DEFINE h == gm.head
           top == gm.top
           end == gm.segsize - TOP_FOOT_SIZE
<1>1. Tile(h, top, end) /\ gm.segsize \in Nat BY HeapFacts DEF Good
<1>2. /\ TOP_FOOT_SIZE \in Nat /\ top \in DOMAIN h /\ top \in Nat /\ top \notin UsedIn(h) /\ end = gm.segsize - TOP_FOOT_SIZE
  BY <1>1, TopConstants, TileFacts
<1>3. p \in Nat /\ h[p].size \in Nat /\ h[p].size > 0 /\ p + h[p].size =< end BY <1>1, TileFacts
<1>4. segment_holds(p) BY <1>1, <1>2, <1>3 DEF segment_holds
<1>5. next_chunk(p) = p + h[p].size BY DEF next_chunk, Size
<1>6. UsedIn(h) = {q \in DOMAIN h : h[q].cinuse} /\ PinIn(h) = {q \in DOMAIN h : h[q].pinuse}
  BY DEF UsedIn, PinIn
<1> HIDE DEF end
<1>7. p # top => /\ p + h[p].size \in DOMAIN h
                 /\ p + h[p].size \in PinIn(h) <=> p \in UsedIn(h)
                 /\ p \notin UsedIn(h) => p + h[p].size \in UsedIn(h) /\ h[p + h[p].size].prev_foot = h[p].size
  BY <1>1, TileFacts
<1>8. p \in FreeIn(h) => p \in PinIn(h) BY <1>1, TileFacts
<1>9. ASSUME p # top, p \notin UsedIn(h)
      PROVE  do_check_free_chunk(p) /\ is_inuse(next_chunk(p)) /\ next_chunk(p) \in UsedIn(h)
  <2>1. p \in PinIn(h) BY <1>8, <1>9 DEF FreeIn
  <2>2. /\ next_chunk(p) \in DOMAIN h /\ next_chunk(p) \notin PinIn(h) /\ next_chunk(p) \in UsedIn(h)
        /\ h[next_chunk(p)].prev_foot = h[p].size
    BY <1>5, <1>7, <1>9
  <2> HIDE DEF h
  <2>3. ~h[p].cinuse /\ h[p].pinuse /\ ~h[next_chunk(p)].pinuse /\ h[next_chunk(p)].cinuse
    BY <1>6, <1>9, <2>1, <2>2
  <2> USE DEF h
  <2> QED BY <1>4, <2>2, <2>3 DEF do_check_free_chunk, is_inuse, Size
<1>10. ASSUME p \in UsedIn(h) PROVE do_check_inuse_chunk(p)
  <2>1. p # top BY <1>2, <1>10
  <2>2. p + h[p].size \in PinIn(h) BY <1>7, <1>10, <2>1
  <2> DEFINE b == p - h[p].prev_foot
  <2>3. p \notin PinIn(h) => b \in DOMAIN h /\ h[b].size = h[p].prev_foot
    <3>1. \A q \in DOMAIN h \ PinIn(h) :
            q - h[q].prev_foot \in DOMAIN h \ {top} /\ h[q - h[q].prev_foot].size = h[q].prev_foot
      BY <1>1 DEF Tile
    <3> QED BY <3>1
  <2>4. p \notin PinIn(h) => next_chunk(b) = p
    <3>1. SUFFICES ASSUME p \notin PinIn(h) PROVE b + h[b].size = p BY DEF next_chunk, Size
    <3>2. h[b].size = h[p].prev_foot /\ h[b].size \in Nat BY <1>1, <2>3, <3>1, TileFacts
    <3>3. h[p].prev_foot \in Nat BY <3>2
    <3> QED BY <1>3, <3>2, <3>3
  <2> HIDE DEF b
  <2> QED BY <1>4, <1>5, <1>6, <1>10, <2>2, <2>4 DEF do_check_inuse_chunk, is_inuse, b
<1> QED BY <1>4, <1>9, <1>10

\* A chunk is where it is looked for exactly when it is in a bin.
LEMMA FoundIs == ASSUME Good(gm), NEW p PROVE bin_find(p) <=> p \in Loose(gm)
<1> DEFINE h == gm.head
           size == h[p].size
           i == compute_tree_index(size)
           turns == Turns(size, i)
           to(k) == SubSeq(turns, 1, k)
           InTree == /\ i \in gm.treemap
                     /\ \E k \in 0 .. Len(turns) :
                          /\ \A j \in 0 .. k : to(j) \in DOMAIN gm.treebins[i]
                          /\ p \in ToSet(gm.treebins[i][to(k)])
           InSmall == size \in gm.smallmap /\ p \in ToSet(gm.smallbins[size])
           B == Loose(gm)
<1>1. bin_find(p) <=> IF is_small(size) THEN InSmall ELSE InTree BY Zenon DEF bin_find, Size
<1>2. BinsOK(gm, B) BY DEF Good
<1>3. SmallOK(gm, B) /\ TreesOK(gm, B) BY <1>2 DEF BinsOK
<1>4. p \in B => size \in MIN_CHUNK_SIZE .. MAX_SIZE_T BY <1>2 DEF BinsOK
<1> HIDE DEF InTree, InSmall
<1>5. InSmall => p \in B
  <2>1. SUFFICES ASSUME size \in gm.smallmap, p \in ToSet(gm.smallbins[size]) PROVE p \in B BY DEF InSmall
  <2>2. IsList(gm.smallbins[size], OfSize(h, B, size)) BY <1>3, <2>1 DEF SmallOK
  <2> QED BY <2>1, <2>2 DEF IsList, OfSize
<1>6. InTree => p \in B
  <2>1. SUFFICES ASSUME InTree PROVE p \in B OBVIOUS
  <2>2. PICK q \in DOMAIN gm.treebins[i] : p \in ToSet(gm.treebins[i][q])
    <3>1. PICK k \in 0 .. Len(turns) : /\ \A j \in 0 .. k : to(j) \in DOMAIN gm.treebins[i]
                                       /\ p \in ToSet(gm.treebins[i][to(k)])
      BY <2>1 DEF InTree
    <3>2. k \in 0 .. k BY <3>1
    <3> QED BY <3>1, <3>2
  <2>3. i \in 0 .. NTREEBINS - 1 BY <1>3, <2>1 DEF InTree, TreesOK
  <2>4. TreeOK(h, gm.treebins[i], i, InBin(h, B, i)) BY <1>3, <2>3 DEF TreesOK
  <2>5. p \in InBin(h, B, i) BY <2>2, <2>3, <2>4, NodeOf
  <2> QED BY <2>5 DEF InBin
<1>7. ASSUME p \in B, is_small(size) PROVE InSmall
  <2>1. size \in MIN_CHUNK_SIZE .. NSMALLBINS - 1 BY <1>4, <1>7, Sized
  <2>2. IsList(gm.smallbins[size], OfSize(h, B, size)) BY <1>3, <2>1 DEF SmallOK
  <2>3. p \in ToSet(gm.smallbins[size]) BY <1>7, <2>2 DEF IsList, OfSize
  <2>4. gm.smallbins[size] # <<>> BY <2>3 DEF ToSet
  <2> QED BY <1>3, <2>1, <2>3, <2>4 DEF SmallOK, InSmall
<1>8. ASSUME p \in B, ~is_small(size) PROVE InTree
  <2>1. size \in Nat /\ size \in SizesOf(i) /\ i \in 0 .. NTREEBINS - 1 BY <1>4, <1>8, Sized
  <2> DEFINE tree == gm.treebins[i]
             S == InBin(h, B, i)
  <2>2. TreeOK(h, tree, i, S) BY <1>3, <2>1 DEF TreesOK
  <2>3. p \in S BY <1>8, <2>1 DEF InBin
  <2>4. i \in 0 .. NTREEBINS - 1 /\ size \in Nat BY <2>1
  <2> HIDE DEF S, tree, i, size
  <2>5. PICK q \in DOMAIN tree : p \in ToSet(tree[q]) BY <2>2, <2>3, <2>4, NodeOf
  <2>6. h[p].size = Sizes(h, tree)[q] BY <2>2, <2>4, <2>5, NodeOf
  <2>7. Sizes(h, tree)[q] = size BY <2>6 DEF size
  <2>8. Shape(DOMAIN tree, Sizes(h, tree), i) BY <2>2 DEF TreeOK
  <2>9. /\ Matches(q, size, i) /\ Len(q) \in 0 .. Depth(i)
        /\ \A k \in 0 .. Len(q) : SubSeq(q, 1, k) \in DOMAIN tree
    BY <2>4, <2>5, <2>7, <2>8, ShapePath
  <2>10. q = SubSeq(Turns(size, i), 1, Len(q)) BY <2>4, <2>9, MatchIs
  <2>11. \A j \in 0 .. Len(q) : SubSeq(q, 1, j) = SubSeq(Turns(size, i), 1, j)
    <3>1. \A j \in 0 .. Len(q) : SubSeq(SubSeq(Turns(size, i), 1, Len(q)), 1, j) = SubSeq(Turns(size, i), 1, j)
      BY <2>4, <2>9, WayIs
    <3> QED BY <2>10, <3>1
  <2>12. Len(turns) = Depth(i) BY <2>4, TurnsAre
  <2>13. i \in gm.treemap
    <3>1. gm.treemap = {j \in 0 .. NTREEBINS - 1 : DOMAIN gm.treebins[j] # {}} BY <1>3 DEF TreesOK
    <3> QED BY <2>4, <2>5, <3>1 DEF tree
  <2>14. \A j \in 0 .. Len(q) : to(j) \in DOMAIN tree BY <2>9, <2>11
  <2>15. to(Len(q)) = q BY <2>10
  <2>16. Len(q) \in 0 .. Len(turns) BY <2>9, <2>12
  <2> HIDE DEF to, turns
  <2> QED BY <2>5, <2>13, <2>14, <2>15, <2>16 DEF InTree, tree
<1> QED BY <1>1, <1>5, <1>6, <1>7, <1>8

\* The check of a smallbin.
LEMMA SmallChecked ==
  ASSUME Good(gm), NEW i \in DOMAIN gm.smallbins PROVE do_check_smallbin(i)
<1>1. SmallOK(gm, Loose(gm)) BY DEF Good, BinsOK
<1>2. /\ i \in MIN_CHUNK_SIZE .. NSMALLBINS - 1
      /\ gm.smallmap = {j \in MIN_CHUNK_SIZE .. NSMALLBINS - 1 : gm.smallbins[j] # <<>>}
      /\ IsList(gm.smallbins[i], OfSize(gm.head, Loose(gm), i))
  BY <1>1 DEF SmallOK
<1>3. ASSUME NEW p \in ToSet(gm.smallbins[i])
      PROVE  /\ do_check_free_chunk(p) /\ Size(p) = i
             /\ next_chunk(p) = gm.top \/ do_check_inuse_chunk(next_chunk(p))
  <2>1. p \in Loose(gm) /\ gm.head[p].size = i BY <1>2, <1>3 DEF IsList, OfSize
  <2>2. p \in DOMAIN gm.head /\ p # gm.top /\ p \notin UsedIn(gm.head) BY <2>1, Parts DEF Loose
  <2>3. do_check_free_chunk(p) /\ next_chunk(p) \in UsedIn(gm.head) BY <2>2, Checked
  <2>4. next_chunk(p) \in DOMAIN gm.head BY <2>3 DEF UsedIn
  <2>5. do_check_inuse_chunk(next_chunk(p)) BY <2>3, <2>4, Checked
  <2> QED BY <2>1, <2>3, <2>5 DEF Size
<1> QED BY <1>2, <1>3 DEF do_check_smallbin

\* A node of a treebin.
LEMMA NodeIs ==
  ASSUME Good(gm), NEW i \in 0 .. NTREEBINS - 1, NEW q \in DOMAIN gm.treebins[i]
  PROVE  LET s == gm.head[Head(gm.treebins[i][q])].size
         IN  /\ s \in SizesOf(i)
             /\ IsList(gm.treebins[i][q], OfSize(gm.head, Loose(gm), s))
<1> DEFINE h == gm.head
           tree == gm.treebins[i]
           s == h[Head(tree[q])].size
           B == Loose(gm)
           S == InBin(h, B, i)
<1>1. TreeOK(h, tree, i, S) BY DEF Good, BinsOK, TreesOK
<1>2. s = Sizes(h, tree)[q] BY DEF Sizes, NodeSize
<1>3. OfSize(h, S, s) = OfSize(h, B, s) \/ s \notin SizesOf(i) BY DEF OfSize, InBin
<1>4. q \in DOMAIN tree /\ i \in 0 .. NTREEBINS - 1 OBVIOUS
<1> HIDE DEF s, tree, h, B, S
<1>5. /\ Sizes(h, tree)[q] \in SizesOf(i)
  <2>1. Shape(DOMAIN tree, Sizes(h, tree), i) BY <1>1, TreeParts
  <2> QED BY <1>4, <2>1 DEF Shape
<1>6. IsList(tree[q], OfSize(h, S, Sizes(h, tree)[q])) BY <1>1, <1>4, TreeParts
<1>7. s \in SizesOf(i) /\ IsList(tree[q], OfSize(h, B, s)) BY <1>2, <1>3, <1>5, <1>6
<1> QED BY <1>7 DEF s, tree, h, B

\* The check of a treebin's node.
LEMMA TreeChecked ==
  ASSUME Good(gm), NEW i \in DOMAIN gm.treebins, NEW q \in DOMAIN gm.treebins[i]
  PROVE  do_check_tree(<<i, q>>)
<1> DEFINE n == <<i, q>>
           tree == gm.treebins[i]
           h == gm.head
           z == Sizes(h, tree)
           size == h[Head(tree[q])].size
           child(t) == <<i, Append(q, t)>>
<1>1. TreesOK(gm, Loose(gm)) BY DEF Good, BinsOK
<1>2. i \in 0 .. NTREEBINS - 1 BY <1>1 DEF TreesOK
<1>3. size \in SizesOf(i) /\ IsList(tree[q], OfSize(h, Loose(gm), size)) BY <1>2, NodeIs
<1>4. n[1] = i /\ n[2] = q /\ Ring(n) = tree[q] /\ Size(Head(Ring(n))) = size BY DEF Ring, Size
<1>5. /\ compute_tree_index(size) = i /\ size >= minsize_for_tree_index(i)
      /\ i # NTREEBINS - 1 => size < minsize_for_tree_index(i + 1)
  <2>1. size \in NSMALLBINS .. MAX_SIZE_T /\ compute_tree_index(size) = i BY <1>3 DEF SizesOf, LargeSizes
  <2> HIDE DEF size
  <2>2. size \in Nat /\ minsize_for_tree_index(compute_tree_index(size)) =< size
        /\ (compute_tree_index(size) # NTREEBINS - 1 => size < minsize_for_tree_index(compute_tree_index(size) + 1))
    BY <2>1, IndexFacts
  <2>3. minsize_for_tree_index(i) \in Nat BY <1>2, BinConstants, MinsizeMono
  <2> QED BY <2>1, <2>2, <2>3
<1>6. ASSUME NEW p \in ToSet(tree[q])
      PROVE  ~is_inuse(p) /\ ~gm.head[next_chunk(p)].pinuse /\ Size(p) = size
  <2>1. p \in Loose(gm) /\ h[p].size = size BY <1>3, <1>6 DEF IsList, OfSize
  <2>2. p \in DOMAIN h /\ p # gm.top /\ p \notin UsedIn(h) BY <2>1, Parts DEF Loose
  <2>3. do_check_free_chunk(p) BY <2>2, Checked
  <2> QED BY <2>1, <2>3 DEF do_check_free_chunk, Size
<1>7. ASSUME child(0) \in Nodes, child(1) \in Nodes
      PROVE  Size(Head(Ring(child(0)))) < Size(Head(Ring(child(1))))
  <2>1. Append(q, 0) \in DOMAIN tree /\ Append(q, 1) \in DOMAIN tree
    <3>1. ASSUME NEW t, child(t) \in Nodes PROVE Append(q, t) \in DOMAIN tree
      <4>1. PICK j \in DOMAIN gm.treebins : child(t) \in {j} \X DOMAIN gm.treebins[j] BY <3>1 DEF Nodes
      <4>2. j = i BY <4>1
      <4> QED BY <4>1, <4>2
    <3> QED BY <1>7, <3>1
  <2>2. Shape(DOMAIN tree, z, i)
    <3>1. TreeOK(h, tree, i, InBin(h, Loose(gm), i)) BY <1>1, <1>2 DEF TreesOK
    <3> HIDE DEF tree, h
    <3> QED BY <3>1, TreeParts
  <2>3. /\ Size(Head(Ring(child(0)))) = z[Append(q, 0)]
        /\ Size(Head(Ring(child(1)))) = z[Append(q, 1)]
    BY <2>1 DEF Ring, Size, Sizes, NodeSize
  <2>4. q \in DOMAIN tree OBVIOUS
  <2> HIDE DEF z, tree, h, size, child
  <2>5. q \in Seq(Bits) BY <1>2, <2>2, <2>4, ShapePath
  <2>6. /\ Matches(Append(q, 0), z[Append(q, 0)], i) /\ Matches(Append(q, 1), z[Append(q, 1)], i)
        /\ z[Append(q, 0)] \in SizesOf(i) /\ z[Append(q, 1)] \in SizesOf(i)
    BY <1>2, <2>1, <2>2, ShapePath
  <2>7. /\ Len(q) \in Nat /\ Len(Append(q, 0)) = Len(q) + 1 /\ Len(Append(q, 1)) = Len(q) + 1
        /\ \A j \in 1 .. Len(q) : Append(q, 0)[j] = q[j] /\ Append(q, 1)[j] = q[j]
        /\ Append(q, 0)[Len(q) + 1] = 0 /\ Append(q, 1)[Len(q) + 1] = 1
    <3>1. Len(q) \in Nat BY <2>5, BitSeq
    <3>2. 0 \in Bits /\ 1 \in Bits BY DEF Bits
    <3> QED BY <2>5, <3>1, <3>2, AppendIs
  <2> DEFINE a == Append(q, 0)
             b == Append(q, 1)
             k == Len(q) + 1
  <2>8. k \in 1 .. Len(a) /\ k =< Len(b) /\ (\A j \in 1 .. k - 1 : a[j] = b[j]) /\ a[k] = 0 /\ b[k] = 1 BY <2>7
  <2>9. Matches(a, z[a], i) /\ Matches(b, z[b], i) /\ z[a] \in SizesOf(i) /\ z[b] \in SizesOf(i) BY <2>6
  <2> HIDE DEF a, b, k
  <2>10. z[a] < z[b] BY <1>2, <2>8, <2>9, RightLarger
  <2> QED BY <2>3, <2>10 DEF a, b
<1> HIDE DEF size, tree
<1> QED BY <1>4, <1>5, <1>6, <1>7 DEF do_check_tree

\* All of the debugging checks.
LEMMA StateChecked == ASSUME Good(gm) PROVE MallocStateChecks
<1> DEFINE h == gm.head
           end == gm.segsize - TOP_FOOT_SIZE
<1>1. HeapOK(gm) /\ DvOK(gm) /\ TreesOK(gm, Loose(gm)) BY DEF Good, BinsOK
<1>2. ASSUME NEW i \in DOMAIN gm.treebins PROVE do_check_treebin(i)
  <2>1. i \in gm.treemap <=> gm.treebins[i] # <<>>
    <3>1. /\ i \in 0 .. NTREEBINS - 1
          /\ gm.treemap = {j \in 0 .. NTREEBINS - 1 : DOMAIN gm.treebins[j] # {}}
          /\ DOMAIN gm.treebins[i] = {} => gm.treebins[i] = <<>>
      BY <1>1, <1>2 DEF TreesOK
    <3>2. DOMAIN <<>> = {} OBVIOUS
    <3> QED BY <3>1, <3>2
  <2> QED BY <1>2, <2>1, TreeChecked DEF do_check_treebin
<1>3. \A i \in DOMAIN gm.smallbins : do_check_smallbin(i) BY SmallChecked
<1>4. ASSUME gm.dvsize # 0
      PROVE  gm.dvsize = Size(gm.dv) /\ gm.dvsize >= MIN_CHUNK_SIZE /\ ~bin_find(gm.dv)
  <2>1. gm.dv \in FreeIn(h) /\ gm.dv # gm.top /\ gm.dvsize = h[gm.dv].size BY <1>1, <1>4 DEF DvOK
  <2>2. gm.dv \in DOMAIN h BY <2>1, Parts
  <2>3. h[gm.dv].size \in MIN_CHUNK_SIZE .. MAX_SIZE_T BY <1>1, <2>1, <2>2, HeapFacts
  <2>4. gm.dv \notin Loose(gm) BY DEF Loose
  <2> QED BY <2>1, <2>3, <2>4, FoundIs DEF Size
<1>5. ASSUME gm.top # Null
      PROVE  do_check_top_chunk(gm.top) /\ ~bin_find(gm.top) /\ traverse_and_check
  <2>1. Tile(h, gm.top, end) /\ gm.topsize = h[gm.top].size BY <1>1, <1>5 DEF HeapOK
  <2>2. gm.top \in DOMAIN h /\ gm.top \in PinIn(h) /\ h[gm.top].size \in Nat /\ h[gm.top].size > 0 /\ gm.top \in Nat
    BY <2>1, TileFacts
  <2>3. gm.top + h[gm.top].size = end /\ 0 \in PinIn(h) BY <2>1 DEF Tile
  <2>4. segment_holds(gm.top) BY <2>2, Checked
  <2>5. gm.segsize \in Nat /\ TOP_FOOT_SIZE \in Nat BY <1>1, TopConstants DEF HeapOK
  <2>6. do_check_top_chunk(gm.top)
    BY <2>1, <2>2, <2>3, <2>4, <2>5 DEF do_check_top_chunk, next_chunk, Size, PinIn
  <2>7. ~bin_find(gm.top)
    <3>1. gm.top \notin Loose(gm) BY DEF Loose
    <3> QED BY <3>1, FoundIs
  <2>8. ASSUME NEW p \in DOMAIN h \ {gm.top}
        PROVE  IF is_inuse(p) THEN ~bin_find(p) /\ do_check_inuse_chunk(p)
               ELSE (p = gm.dv \/ bin_find(p)) /\ is_inuse(next_chunk(p)) /\ do_check_free_chunk(p)
    <3>1. is_inuse(p) <=> p \in UsedIn(h) BY DEF is_inuse, UsedIn
    <3>2. CASE p \in UsedIn(h)
      <4>1. p \notin Loose(gm) BY <3>2, Parts DEF Loose
      <4>2. ~bin_find(p) BY <4>1, FoundIs
      <4>3. do_check_inuse_chunk(p) BY <3>2, Checked
      <4> QED BY <3>1, <3>2, <4>2, <4>3
    <3>3. CASE p \notin UsedIn(h)
      <4>1. p = gm.dv \/ p \in Loose(gm) BY <3>3, Parts DEF Loose
      <4>2. p = gm.dv \/ bin_find(p) BY <4>1, FoundIs
      <4>3. is_inuse(next_chunk(p)) /\ do_check_free_chunk(p) BY <3>3, Checked
      <4> QED BY <3>1, <3>3, <4>2, <4>3
    <3> QED BY <3>2, <3>3
  <2>9. gm.head[0].pinuse BY <2>3 DEF PinIn
  <2>10. traverse_and_check BY <2>8, <2>9 DEF traverse_and_check
  <2> QED BY <2>6, <2>7, <2>10
<1> QED BY <1>2, <1>3, <1>4, <1>5 DEF MallocStateChecks, do_check_malloc_state

\* Chunks end to end, from the invariant.
LEMMA Tiled == ASSUME MallocInv PROVE ChunksTile
<1> DEFINE h == gm.head
           end == gm.segsize - TOP_FOOT_SIZE
<1>1. Good(gm) /\ HeldFits(gm) BY DEF MallocInv
<1>2. HeapOK(gm) BY <1>1 DEF Good
<1>3. DOMAIN h = {} \/ Tile(h, gm.top, end) BY <1>2 DEF HeapOK
<1>4. DOMAIN h = {} \/ 0 \in DOMAIN h BY <1>3, Parts DEF Tile
<1>5. \A p, q \in DOMAIN h : q > p => q >= next_chunk(p)
  <2>1. SUFFICES ASSUME NEW p \in DOMAIN h, NEW q \in DOMAIN h, q > p PROVE q >= p + h[p].size BY DEF next_chunk, Size
  <2>2. Tile(h, gm.top, end) BY <1>3, <2>1
  <2>3. p \in Nat /\ q \in Nat /\ h[p].size \in Nat BY <2>2, TileFacts
  <2>4. p < q BY <2>1, <2>3
  <2>5. p + h[p].size =< q BY <2>2, <2>4 DEF Tile
  <2> QED BY <2>3, <2>5
<1>6. \A p \in DOMAIN h \ {gm.top} : next_chunk(p) \in DOMAIN h
  BY <1>3 DEF Tile, next_chunk, Size
<1>7. DOMAIN used = DOMAIN h \ Free
  <2>1. DOMAIN used = UsedIn(h) BY <1>1 DEF HeldFits
  <2>2. Free = FreeIn(h) BY FreeAre
  <2> QED BY <2>1, <2>2 DEF FreeIn, UsedIn
<1>8. \A p \in DOMAIN used : Payload(Size(p)) >= used[p].bytes /\ (p + 1) % used[p].align = 0
  BY <1>1 DEF HeldFits, Size
<1>9. ~panicked => gm.segsize = heap_size BY DEF MallocInv
<1> HIDE DEF h
<1> QED BY <1>4, <1>5, <1>6, <1>7, <1>8, <1>9 DEF ChunksTile, h

\* Bins with every chunk once, from the invariant.
LEMMA OnceBinned == ASSUME Good(gm) PROVE BinnedOnce
<1> DEFINE h == gm.head
           B == Loose(gm)
<1>1. SmallOK(gm, B) /\ TreesOK(gm, B) /\ DvOK(gm) BY DEF Good, BinsOK
<1>2. Free = FreeIn(h) /\ Binned = B BY FreeAre
<1>3. gm.dv # Null => gm.dv \in Free \ {gm.top} BY <1>1, <1>2 DEF DvOK
<1>4. ASSUME NEW i \in DOMAIN gm.smallbins
      PROVE  /\ ToSet(gm.smallbins[i]) = {p \in Binned : Size(p) = i}
             /\ IsInjective(gm.smallbins[i])
  <2>1. IsList(gm.smallbins[i], OfSize(h, B, i)) BY <1>1, <1>4 DEF SmallOK
  <2>2. OfSize(h, B, i) = {p \in Binned : Size(p) = i} BY <1>2 DEF OfSize, Size
  <2> QED BY <2>1, <2>2 DEF IsList
<1>5. ASSUME NEW n \in Nodes
      PROVE  /\ ToSet(Ring(n)) = {p \in Binned : Size(p) = Size(Head(Ring(n)))}
             /\ IsInjective(Ring(n))
  <2>1. PICK i \in DOMAIN gm.treebins : n \in {i} \X DOMAIN gm.treebins[i] BY <1>5 DEF Nodes
  <2>2. PICK q \in DOMAIN gm.treebins[i] : n = <<i, q>> BY <2>1
  <2>3. n[1] = i /\ n[2] = q BY <2>2
  <2> DEFINE ring == gm.treebins[i][q]
             s == h[Head(ring)].size
  <2>4. Ring(n) = ring /\ Size(Head(Ring(n))) = s BY <2>3 DEF Ring, Size
  <2>5. i \in 0 .. NTREEBINS - 1 BY <1>1, <2>1 DEF TreesOK
  <2>6. IsList(ring, OfSize(h, B, s)) BY <2>5, NodeIs
  <2> HIDE DEF ring, s
  <2>7. OfSize(h, B, s) = {p \in Binned : Size(p) = s} BY <1>2 DEF OfSize, Size
  <2> QED BY <2>4, <2>6, <2>7 DEF IsList
<1> QED BY <1>3, <1>4, <1>5 DEF BinnedOnce

\* The search of the treebins, from the invariant.
LEMMA SearchBest == ASSUME Good(gm) PROVE TreeSearchBest
<1> SUFFICES ASSUME NEW nb \in NSMALLBINS .. minsize_for_tree_index(NTREEBINS - 1)
             PROVE  LET fits == {p \in Binned : Size(p) >= nb}
                        v    == BestLarge(gm, nb)
                    IN  IF fits = {} THEN v = Null
                        ELSE v \in fits /\ \A p \in fits : Size(v) =< Size(p)
  BY DEF TreeSearchBest
<1> DEFINE B == Loose(gm)
           v == BestLarge(gm, nb)
           fits == {p \in Binned : Size(p) >= nb}
<1>1. minsize_for_tree_index(NTREEBINS - 1) \in Nat /\ minsize_for_tree_index(NTREEBINS - 1) =< MAX_SIZE_T
  <2>1. PICK n \in Nat \ {0} : NTREEBINS = 2 * n /\ n + TREEBIN_SHIFT =< SIZE_T_BITSIZE BY BinConstants
  <2> DEFINE k == n - 1
             y == 2 ^ (k + TREEBIN_SHIFT - 1)
             all == 2 ^ (k + 1 + TREEBIN_SHIFT)
             bits == 2 ^ SIZE_T_BITSIZE
  <2>2. k \in Nat /\ NTREEBINS - 1 = 2 * k + 1 /\ k + 1 = n BY <2>1
  <2>3. y \in Nat \ {0} /\ all = 4 * y /\ minsize_for_tree_index(2 * k + 1) = 3 * y
    <3> HIDE DEF k
    <3> QED BY <2>2, MinsizeIs
  <2>4. k + 1 + TREEBIN_SHIFT \in Nat /\ k + 1 + TREEBIN_SHIFT =< SIZE_T_BITSIZE /\ SIZE_T_BITSIZE \in Nat
    BY <2>1, <2>2, BinConstants
  <2>5. all =< bits
    <3> HIDE DEF k
    <3> QED BY <2>4, PowMono
  <2>6. bits \in Nat BY <2>4, Pow
  <2>7. MAX_SIZE_T = bits - 1 BY DEF MAX_SIZE_T
  <2>8. minsize_for_tree_index(NTREEBINS - 1) = 3 * y BY <2>2, <2>3
  <2> HIDE DEF y, all, bits, k
  <2> QED BY <2>3, <2>5, <2>6, <2>7, <2>8
<1>2. nb \in LargeSizes /\ nb \in Nat
  <2>1. NSMALLBINS \in Nat /\ MAX_SIZE_T \in Nat BY TopConstants
  <2> QED BY <1>1, <2>1 DEF LargeSizes
<1>3. BinsOK(gm, B) BY DEF Good
<1> HIDE DEF v, B
<1>4. IF \E p \in B : gm.head[p].size >= nb THEN LeastFit(gm, B, nb, v) ELSE v = Null
  BY <1>2, <1>3, BestIs DEF v
<1>5. fits = {p \in B : gm.head[p].size >= nb} BY FreeAre DEF B, Size
<1>6. CASE fits = {} BY <1>4, <1>5, <1>6 DEF v
<1>7. CASE fits # {}
  <2>1. LeastFit(gm, B, nb, v) BY <1>4, <1>5, <1>7
  <2>2. v \in fits /\ \A p \in fits : gm.head[v].size =< gm.head[p].size BY <1>5, <2>1 DEF LeastFit
  <2>3. v \in fits /\ \A p \in fits : Size(v) =< Size(p) BY <2>2 DEF Size
  <2> HIDE DEF fits
  <2> QED BY <1>7, <2>3 DEF v, fits
<1> QED BY <1>6, <1>7

\* What a step that hands out memory does.
LEMMA HandsOut ==
  ASSUME MallocInv, ~panicked, NEW r, NEW bytes, NEW align, r.asked \in Nat, Served(r, bytes, align),
         NEW p \in DOMAIN used' \ DOMAIN used
  PROVE  /\ ~panicked' /\ gm' = r.m /\ p = r.p /\ used'[p].bytes = bytes /\ used'[p].align = align
         /\ gm.segsize + r.asked =< MAX_SIZE_T
<1>1. ~panicked' BY DEF Served
<1>2. /\ gm' = r.m
      /\ used' = [q \in DOMAIN used \cup {r.p} |->
                    IF q = r.p THEN [bytes |-> bytes, align |-> align] ELSE used[q]]
  BY <1>1 DEF Served
<1>3. p = r.p BY <1>2
<1>4. used'[p] = [bytes |-> bytes, align |-> align] BY <1>2, <1>3
<1>5. \/ r.asked = 0 /\ UNCHANGED vars
      \/ r.asked \in 1 .. HALF_MAX_SIZE_T - 1 /\ Grow(r.asked)
      \/ r.asked >= HALF_MAX_SIZE_T /\ panicked' = TRUE /\ UNCHANGED <<heap_size, mapped>>
  BY DEF Served
<1>6. gm.segsize + r.asked =< MAX_SIZE_T BY <1>1, <1>5, HeldAfter
<1> QED BY <1>1, <1>2, <1>3, <1>4, <1>6

\* What BestFit says of the chunk p.
Best(p) ==
  /\ p = gm.top => Fits(Given(p)) = {}
  /\ p \in Free \ {gm.top} /\ ~is_small(Given(p)) =>
       \A q \in Fits(Given(p)) : Size(p) =< Size(q)
  /\ do_check_malloced_chunk(gm', p, Given(p))

\* dlmalloc chooses well.
LEMMA DlmallocBest ==
  ASSUME MallocInv, ~panicked, NEW bytes \in Requests, dlmalloc(bytes), NEW p \in DOMAIN used' \ DOMAIN used
  PROVE  Best(p)
<1> DEFINE nb == request2size(bytes)
<1>1. bytes \in Nat /\ nb =< MAX_SIZE_T BY DlmallocAssumption
<1>2. PICK r \in {internal_malloc(gm, nb)} : Served(r, bytes, 1) BY DEF dlmalloc
<1>3. Granted(gm, r, nb) /\ Chosen(gm, r.p, nb) BY <1>1, <1>2, DlmallocGets
<1> HIDE DEF nb
<1>4. r.asked \in Nat BY <1>3 DEF Granted
<1>5. /\ gm' = r.m /\ p = r.p /\ used'[p].bytes = bytes /\ gm.segsize + r.asked =< MAX_SIZE_T
  BY <1>2, <1>4, HandsOut
<1>6. Given(p) = nb BY <1>5 DEF Given, nb
<1>7. r.m.head[r.p].size \in nb .. nb + MIN_CHUNK_SIZE - 1 BY <1>3, <1>5 DEF Granted
<1>8. do_check_malloced_chunk(gm', p, nb) BY <1>5, <1>7 DEF do_check_malloced_chunk
<1>9. Free = FreeIn(gm.head) BY FreeAre
<1>10. Fits(nb) = {q \in FreeIn(gm.head) \ {gm.top} : gm.head[q].size >= nb} BY <1>9 DEF Fits, Size
<1>11. Chosen(gm, p, nb) BY <1>3, <1>5
<1>12. /\ p = gm.top => Fits(nb) = {}
       /\ p \in Free \ {gm.top} /\ ~is_small(nb) => \A q \in Fits(nb) : Size(p) =< Size(q)
  BY <1>9, <1>10, <1>11 DEF Chosen, Size
<1> QED BY <1>6, <1>8, <1>12 DEF Best

\* dlmemalign hands out no memory that counts as unaligned.
LEMMA AlignedOther ==
  ASSUME MallocInv, ~panicked, NEW bytes \in AlignedRequests, NEW align \in Alignments, dlmemalign(align, bytes),
         NEW p \in DOMAIN used' \ DOMAIN used
  PROVE  used'[p].align # 1
<1> DEFINE nb == request2size(bytes)
<1>1. PICK junk \in BOOLEAN, r \in {internal_malloc(gm, nb + align + MIN_CHUNK_SIZE)} :
        \E s \in {internal_memalign(r, align, nb, junk)} : Served(s, bytes, align)
  BY DEF dlmemalign
<1> DEFINE s == internal_memalign(r, align, nb, junk)
<1>2. Served(s, bytes, align) BY <1>1
<1> HIDE DEF s
<1>3. used' = used \/ used' = [q \in DOMAIN used \cup {s.p} |->
                                 IF q = s.p THEN [bytes |-> bytes, align |-> align] ELSE used[q]]
  BY <1>2 DEF Served
<1>4. used'[p].align = align BY <1>3
<1> QED BY <1>4, AlignmentIs

-----------------------------------------------------------------------------
\* The chunks lie end to end from the start of the heap, those in use are the
\* ones callers hold, with the room and at the alignment asked for, after any
\* calls of kmalloc and kfree.
THEOREM ChunksTileHolds == HeapSpec => []ChunksTile
<1>1. MallocInv => ChunksTile BY Tiled
<1> QED BY <1>1, MallocInvariant, PTL

\* The allocator's own debugging checks hold after any calls.
THEOREM MallocStateHolds == HeapSpec => []MallocStateChecks
<1>1. MallocInv => MallocStateChecks BY StateChecked DEF MallocInv
<1> QED BY <1>1, MallocInvariant, PTL

\* Every free chunk but top and the designated victim is in exactly one bin,
\* once, and the search of the treebins ends at the smallest chunk that fits.
THEOREM BinsExactHolds == HeapSpec => []BinsExact
<1>1. MallocInv => BinsExact BY OnceBinned, SearchBest DEF MallocInv, BinsExact
<1> QED BY <1>1, MallocInvariant, PTL

\* Top and more_core are the last resort, a large request gets the smallest
\* chunk that fits and no chunk is handed out with room for another.
THEOREM BestFitHolds == HeapSpec => BestFit
<1> DEFINE Fit == \A p \in DOMAIN used' \ DOMAIN used :
                    used'[p].align = 1 =>
                      /\ p = gm.top => Fits(Given(p)) = {}
                      /\ p \in Free \ {gm.top} /\ ~is_small(Given(p)) =>
                           \A q \in Fits(Given(p)) : Size(p) =< Size(q)
                      /\ do_check_malloced_chunk(gm', p, Given(p))
<1>1. MallocInv /\ [kmalloc \/ kfree]_heapvars => [Fit]_heapvars
  <2>1. SUFFICES ASSUME MallocInv, kmalloc \/ kfree, NEW p \in DOMAIN used' \ DOMAIN used, used'[p].align = 1
                 PROVE  Best(p)
    BY DEF Best
  <2>2. ASSUME NEW bytes \in Requests, ~panicked, dlmalloc(bytes) PROVE Best(p) BY <2>1, <2>2, DlmallocBest
  <2>3. ASSUME NEW bytes \in AlignedRequests, NEW align \in Alignments, ~panicked, dlmemalign(align, bytes)
        PROVE  FALSE
    BY <2>1, <2>3, AlignedOther
  <2>4. ASSUME NEW f \in DOMAIN used, dlfree(f) PROVE FALSE
    <3>1. used' = [q \in DOMAIN used \ {f} |-> used[q]] BY <2>4 DEF dlfree
    <3> QED BY <2>1, <3>1
  <2> QED BY <2>1, <2>2, <2>3, <2>4 DEF kmalloc, kfree
<1> QED BY <1>1, MallocInvariant, PTL DEF HeapSpec, BestFit
=============================================================================

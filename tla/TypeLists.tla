----------------------------- MODULE TypeLists -----------------------------
(***************************************************************************)
(* kernel/src/std/draken.hh and draken-ext.hh: the compile-time lists with  *)
(* which Either lays out its storage.  A pack is a sequence; a metafunction *)
(* that goes on with a continuation C is the operator whose result C is     *)
(* applied to.                                                              *)
(***************************************************************************)
EXTENDS Integers, Sequences, SequencesExt


CONSTANT Ull  \* values of unsigned long long, 2^64 in the compiler

ASSUME UllAssumption == Ull \in Nat \ {0} /\ Ull % 2 = 0

\* A compile-time integer: uint<v> when u holds, sint<v> otherwise.
uint(v) == [u |-> TRUE, v |-> v % Ull]
sint(v) == [u |-> FALSE, v |-> ((v + (Ull \div 2)) % Ull) - (Ull \div 2)]

Unsigned(v) == v % Ull

\* T1::value op T2::value converts a signed operand to unsigned when the
\* other is unsigned.
Compared(a, b) ==
  IF a.u = b.u THEN <<a.v, b.v>> ELSE <<Unsigned(a.v), Unsigned(b.v)>>

lt(a, b) == LET c == Compared(a, b) IN c[1] < c[2]
le(a, b) == LET c == Compared(a, b) IN c[1] <= c[2]
gt(a, b) == lt(b, a)
ge(a, b) == le(b, a)
even(a)  == a.v % 2 = 0
odd(a)   == a.v % 2 = 1

\* DEF_BINOP: signed as soon as one operand is.
Typed2(a, b, v) == IF a.u /\ b.u THEN uint(v) ELSE sint(v)
add(a, b) == Typed2(a, b, a.v + b.v)
sub(a, b) == Typed2(a, b, a.v - b.v)
mul(a, b) == Typed2(a, b, a.v * b.v)

abs(a)       == IF a.v < 0 THEN [a EXCEPT !.v = sint(-a.v).v] ELSE a
negate(a)    == mul(sint(-1), a)
successor(a) == add(uint(1), a)
predecessor(a) == sub(a, uint(1))

\* Mutants: what a slip in draken.hh would make of the definition that follows.
MutCmp(a, b) == IF le(a, b) THEN "order_lt" ELSE IF gt(a, b) THEN "order_gt" ELSE "order_eq"

cmp(a, b) == IF lt(a, b) THEN "order_lt" ELSE IF gt(a, b) THEN "order_gt" ELSE "order_eq"

-----------------------------------------------------------------------------
\* A metafunction that is given to another is a function, of two arguments if
\* it takes two.
Num == [u : BOOLEAN, v : Int]

map(f, ts)       == [i \in DOMAIN ts |-> f[ts[i]]]
foldl(f, a0, ts) == FoldLeft(LAMBDA a, t : f[a, t], a0, ts)
filter(fp, ts)   == SelectSeq(ts, LAMBDA t : fp[t])
enumerate(ts)    == [i \in DOMAIN ts |-> <<uint(i - 1), ts[i]>>]
prepend(t, ts)         == <<t>> \o ts
append(t, ts)          == ts \o <<t>>
size(ts)               == uint(Len(ts))

\* The lists of the pack one after the other.
join(lists) == FlattenSeq(lists)

\* Neither fails on a pack that is too short.
take(n, ts) == SubSeq(ts, 1, IF n < Len(ts) THEN n ELSE Len(ts))
drop(n, ts) == SubSeq(ts, n + 1, Len(ts))

nth(n, ts) == drop(n, ts)[1]

head(ts) == ts[1]
tail(ts) == Tail(ts)

is(t, ts) == t = ts[1]
empty(ts) == is(uint(0), <<size(ts)>>)

\* Each goes on with the whole pack; fork, with what both make of it.
if_(fp, then, else, ts) == IF fp[ts] THEN then[ts] ELSE else[ts]
fork(c, f, g, ts) == c[f[ts], g[ts]]

\* Changes those of a pack for which fp holds.
replace(fp, f, ts) ==
  LET change == [p \in Seq(Num) |-> f[p[1]]]
      keep   == [p \in Seq(Num) |-> head(p)]
      test   == [p \in Seq(Num) |-> fp[p[1]]]
  IN  map([t \in Num |-> if_(test, change, keep, <<t>>)], ts)

iota0(n) == [i \in 1 .. n |-> uint(i - 1)]
iota1(n) == map([a \in Num |-> successor(a)], iota0(n))

insert(i, t, ts) == take(i, ts) \o <<t>> \o drop(i, ts)

max(a, b) == IF ge(a, b) THEN a ELSE b
min(a, b) == IF le(a, b) THEN a ELSE b

sum(ts)     == foldl([a, b \in Num |-> add(a, b)], uint(0), ts)
product(ts) == foldl([a, b \in Num |-> mul(a, b)], uint(1), ts)
maximum(ts) == foldl([a, b \in Num |-> max(a, b)], uint(0), ts)
minimum(ts) == foldl([a, b \in Num |-> min(a, b)], uint(0), ts)

\* Those for which fp holds and the others, each in their order.
partition(fp, ts) == <<filter(fp, ts), filter([t \in DOMAIN fp |-> ~ fp[t]], ts)>>

\* sort_by's insert: after those that are less than t, before its equals.
InsertSorted(f, t, ts) ==
  join(insert(1, <<t>>, partition([x \in Num |-> f[x, t] = "order_lt"], ts)))

sort_by(f, ts) ==
  foldl([sorted \in Seq(Num), t \in Num |-> InsertSorted(f, t, sorted)], <<>>, ts)

sort(ts) == sort_by([a, b \in Num |-> cmp(a, b)], ts)

sort_on(f, ts) == sort_by([a, b \in Num |-> cmp(f[a], f[b])], ts)

\* draken-ext.hh: the storage for either of two types, which are given by
\* their sizes.
max_size(ts) == maximum(ts)
-----------------------------------------------------------------------------
\* A pack of one signedness is sorted by a permutation that turns equal keys
\* around: later ones come out first.
SortLaw(f, ts, sorted) ==
  \E from \in [DOMAIN ts -> DOMAIN ts] :
    /\ \A i, j \in DOMAIN ts : i # j => from[i] # from[j]
    /\ sorted = [i \in DOMAIN ts |-> ts[from[i]]]
    /\ \A i, j \in DOMAIN ts : i < j =>
         \/ f[sorted[i]].v < f[sorted[j]].v
         \/ f[sorted[i]].v = f[sorted[j]].v /\ from[i] > from[j]

\* Cutting, inserting and selecting lose and invent nothing.
CutLaw(n, ts) ==
  /\ take(n, ts) \o drop(n, ts) = ts
  /\ n <= Len(ts) => Len(take(n, ts)) = n
  /\ n < Len(ts) => enumerate(ts)[n + 1] = <<uint(n), nth(n, ts)>> /\ nth(n, ts) = ts[n + 1]
  /\ LET with == insert(n, uint(0), ts)
         i    == (IF n < Len(ts) THEN n ELSE Len(ts)) + 1
     IN  with[i] = uint(0) /\ SubSeq(with, 1, i - 1) \o SubSeq(with, i + 1, Len(with)) = ts

\* The storage of an Either holds the larger of its types: the largest of
\* a pack of unsigned numbers is one of them and no less than any.
StorageLaw(ts) ==
  LET m == max_size(ts)
  IN  (\A i \in DOMAIN ts : m.v >= ts[i].v) /\ (ts # <<>> => \E i \in DOMAIN ts : m = ts[i])

\* Branches and forks agree with the pieces they are made of, also on an empty
\* pack: what is replaced and what is not are the two parts of a partition, and
\* a head and a tail that are put together again are the pack.
BranchLaw(ts) ==
  LET Pack == Seq(Num)
      isEven  == [t \in Num |-> even(t)]
      isEmpty == [p \in Pack |-> empty(p)]
      first   == [p \in Pack |-> if_(isEmpty, [q \in Pack |-> <<>>], [q \in Pack |-> <<head(q)>>], p)]
      rest    == [p \in Pack |-> if_(isEmpty, [q \in Pack |-> q], [q \in Pack |-> tail(q)], p)]
      joined  == [p, q \in Pack |-> join(<<p, q>>)]
      doubled == replace(isEven, [t \in Num |-> mul(uint(2), t)], ts)
      parts   == partition(isEven, ts)
  IN  /\ filter([t \in Num |-> odd(t)], doubled) = parts[2]
      /\ sum(doubled) = sum(map([t \in Num |-> add(t, IF even(t) THEN t ELSE mul(uint(0), t))], ts))
      /\ fork(joined, first, rest, ts) = ts
      /\ Len(parts[1]) + Len(parts[2]) = size(ts).v

\* Sums and products of small numbers are exact, iota counts, and negating
\* twice gives the number back with a sign.
ArithmeticLaw(ts) ==
  LET total[i \in 0 .. Len(ts)] == IF i = 0 THEN 0 ELSE total[i - 1] + ts[i].v
      result == total[Len(ts)]
  IN  /\ sum(ts) = IF \A i \in DOMAIN ts : ts[i].u THEN uint(result) ELSE sint(result)
      /\ \A i \in DOMAIN ts : negate(negate(ts[i])) = sint(ts[i].v) /\ predecessor(successor(ts[i])) = ts[i]
      /\ sum(iota1(Len(ts))) = uint((Len(ts) * (Len(ts) + 1)) \div 2)
=============================================================================

-------------------------------- MODULE Bins ---------------------------------
(***************************************************************************)
(* The free chunks of dlmalloc: lists of chunks of one size (smallbins)    *)
(* and tries of larger ones keyed on the bits of the size (treebins), each *)
(* with a map of the bins that hold any.  A treebin is a function from the *)
(* paths to its nodes, sequences of left (0) and right (1), to the ring of *)
(* chunks of the node's size; the first of a ring is the one in the tree.  *)
(* The lists of an unmarked bin are not read and empty here.               *)
(***************************************************************************)
EXTENDS Chunks, Sequences, SequencesExt

CONSTANTS
  TREEBIN_SHIFT, \* log2 of the least size in a treebin
  NTREEBINS,     \* number of treebins
  SIZE_T_BITSIZE \* bits of a size

ASSUME BinsAssumption ==
  /\ {TREEBIN_SHIFT, NTREEBINS, SIZE_T_BITSIZE} \subseteq Nat \ {0, 1}
  /\ NTREEBINS % 2 = 0 /\ NTREEBINS \div 2 + TREEBIN_SHIFT =< SIZE_T_BITSIZE

NSMALLBINS == 2 ^ TREEBIN_SHIFT

is_small(size) == size < NSMALLBINS

bit(x, k) == (x \div 2 ^ k) % 2

\* The half of the power of two is not looked at.
MutTreeIndex(size) ==
  LET x == size \div NSMALLBINS
      k == CHOOSE n \in 0 .. SIZE_T_BITSIZE : 2 ^ n =< x /\ x < 2 ^ (n + 1)
  IN  IF x >= 2 ^ (NTREEBINS \div 2) THEN NTREEBINS - 1 ELSE 2 * k

\* Two bins for each power of two, the last one for all that is larger.
compute_tree_index(size) ==
  LET x == size \div NSMALLBINS
      k == CHOOSE n \in 0 .. SIZE_T_BITSIZE : 2 ^ n =< x /\ x < 2 ^ (n + 1)
  IN  IF x = 0 THEN 0
      ELSE IF x >= 2 ^ (NTREEBINS \div 2) THEN NTREEBINS - 1
      ELSE 2 * k + bit(size, k + TREEBIN_SHIFT - 1)

\* The most significant bit that tells sizes of bin i apart.
bit_for_tree_index(i) ==
  IF i = NTREEBINS - 1 THEN SIZE_T_BITSIZE - 1 ELSE i \div 2 + TREEBIN_SHIFT - 2

\* The turns that a size takes in its treebin.
Turns(size, i) ==
  LET top == bit_for_tree_index(i)
  IN  [k \in 1 .. top + 1 |-> bit(size, top + 1 - k)]

-----------------------------------------------------------------------------
\* A list without one of its chunks.
Without(list, p) == RemoveAt(list, CHOOSE k \in DOMAIN list : list[k] = p)

insert_small_chunk(m, p, size) ==
  [m EXCEPT !.smallmap = @ \cup {size},
            !.smallbins[size] = IF size \in m.smallmap THEN <<p>> \o @ ELSE <<p>>]

unlink_small_chunk(m, p, size) ==
  LET rest == Without(m.smallbins[size], p)
  IN  [m EXCEPT !.smallbins[size] = rest,
                !.smallmap = IF rest = <<>> THEN @ \ {size} ELSE @]

SizeAt(m, tree, path) == m.head[Head(tree[path])].size

\* Down the turns of the size, to the node of that size or to a free place.
insert_large_chunk(m, x, size) ==
  LET i       == compute_tree_index(size)
      tree    == m.treebins[i]
      to(k)   == SubSeq(Turns(size, i), 1, k)
      Ends(k) == to(k) \notin DOMAIN tree \/ SizeAt(m, tree, to(k)) = size
      at      == to(CHOOSE k \in 0 .. SIZE_T_BITSIZE : Ends(k) /\ \A j \in 0 .. k - 1 : ~Ends(j))
      ring    == IF at \in DOMAIN tree THEN InsertAt(tree[at], 2, x) ELSE <<x>>
  IN  [m EXCEPT !.treemap = @ \cup {i},
                !.treebins[i] = [p \in DOMAIN @ \cup {at} |-> IF p = at THEN ring ELSE @[p]]]

Child(tree, path, turn) == Append(path, turn) \in DOMAIN tree

\* The leaf under a node: right where there is a right child, else left.
LeafUnder(tree, path) ==
  CHOOSE q \in DOMAIN tree :
    /\ IsPrefix(path, q)
    /\ \A k \in Len(path) + 1 .. Len(q) : q[k] = 0 => ~Child(tree, SubSeq(q, 1, k - 1), 1)
    /\ ~Child(tree, q, 0) /\ ~Child(tree, q, 1)

\* A chunk leaves its ring, of which the one before it takes its place, or
\* else its node, which a leaf under it replaces.
unlink_large_chunk(m, x) ==
  LET i    == CHOOSE b \in DOMAIN m.treebins :
                \E p \in DOMAIN m.treebins[b] : x \in ToSet(m.treebins[b][p])
      tree == m.treebins[i]
      at   == CHOOSE p \in DOMAIN tree : x \in ToSet(tree[p])
      ring == tree[at]
      leaf == LeafUnder(tree, at)
      rest == IF Len(ring) = 1
              THEN [p \in DOMAIN tree \ {leaf} |-> IF p = at THEN tree[leaf] ELSE tree[p]]
              ELSE [tree EXCEPT ![at] =
                      IF x = Head(ring) THEN <<Last(ring)>> \o Tail(Front(ring)) ELSE Without(ring, x)]
  IN  [m EXCEPT !.treebins[i] = rest,
                !.treemap = IF rest = <<>> THEN @ \ {i} ELSE @]

insert_chunk(m, p, size) ==
  IF is_small(size) THEN insert_small_chunk(m, p, size) ELSE insert_large_chunk(m, p, size)

unlink_chunk(m, p, size) ==
  IF is_small(size) THEN unlink_small_chunk(m, p, size) ELSE unlink_large_chunk(m, p)
=============================================================================

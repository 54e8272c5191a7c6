------------------------------ MODULE Dlmalloc -------------------------------
(***************************************************************************)
(* The allocator of the kernel, kernel/src/mem/dlmalloc.cc: dlmalloc,      *)
(* dlfree and dlmemalign over one segment of memory that more_core (Kmm)   *)
(* grows and shrinks in pages.  heap_size and page_size of Kmm count units *)
(* of MALLOC_ALIGNMENT here, as all of this module does; the granularity   *)
(* is a page.  Nothing else calls more_core, which hands out contiguous    *)
(* memory or panics, so that there is never a second segment.              *)
(***************************************************************************)
EXTENDS Kmm, Bins, FiniteSets, FiniteSetsExt

CONSTANTS
  TOP_FOOT_SIZE,     \* units kept behind top
  trim_threshold,    \* top is trimmed when it is larger
  Requests,          \* bytes that callers ask for
  AlignedRequests,   \* bytes that callers want aligned
  Alignments,        \* to these units
  MaxLive            \* bound on the pieces of memory in use

MAX_SIZE_T == 2 ^ SIZE_T_BITSIZE - 1
HALF_MAX_SIZE_T == 2 ^ (SIZE_T_BITSIZE - 1)

\* What is larger than the heap, or than what callers can ask for, has a size
\* all the same.
ASSUME DlmallocAssumption ==
  /\ TOP_FOOT_SIZE \in Nat \ {0} /\ {trim_threshold, MaxLive} \subseteq Nat
  /\ Requests \cup AlignedRequests \subseteq Nat
  /\ \A a \in Alignments : \E k \in 1 .. SIZE_T_BITSIZE : a = 2 ^ k
  /\ HeapPages * page_size =< MAX_SIZE_T
  /\ \A bytes \in Requests : request2size(bytes) =< MAX_SIZE_T
  /\ \A bytes \in AlignedRequests, a \in Alignments :
       request2size(bytes) + a + MIN_CHUNK_SIZE =< MAX_SIZE_T

VARIABLES
  gm,  \* malloc_state and the headers of all chunks
  used \* memory that callers hold: its chunk, the bytes and alignment asked for

heapvars == <<vars, gm, used>>

SYS_ALLOC_PADDING == TOP_FOOT_SIZE + 1

HeapStart ==
  [head |-> <<>>,
   smallmap |-> {}, smallbins |-> [i \in MIN_CHUNK_SIZE .. NSMALLBINS - 1 |-> <<>>],
   treemap |-> {}, treebins |-> [i \in 0 .. NTREEBINS - 1 |-> <<>>],
   dv |-> Null, dvsize |-> 0, top |-> Null, topsize |-> 0,
   trim_check |-> 0, segsize |-> 0]

HeapInit == Init /\ gm = HeapStart /\ used = <<>>

SetTop(m, p, size) ==
  [m EXCEPT !.head = Write(@, p, Unused(size)), !.top = p, !.topsize = size]

init_top(m, p, size) == [SetTop(m, p, size) EXCEPT !.trim_check = trim_threshold]

-----------------------------------------------------------------------------
(* dlmalloc.  A result has the new state, the chunk and the memory that    *)
(* was asked of more_core.                                                 *)

Got(m, p) == [m |-> m, p |-> p, asked |-> 0]

\* The old designated victim stays out of the bins.
MutReplaceDv(m, p, size) == [m EXCEPT !.dv = p, !.dvsize = size]

\* A new designated victim, the old one goes to its bin.
replace_dv(m, p, size) ==
  [(IF m.dvsize # 0 THEN insert_small_chunk(m, m.dv, m.dvsize) ELSE m)
     EXCEPT !.dv = p, !.dvsize = size]

\* The first nb units of a chunk p, out of its bin, are used, the rest is free.
Split(m, p, nb, rest) ==
  [m EXCEPT !.head = set_size_and_pinuse_of_free_chunk(
                       set_size_and_pinuse_of_inuse_chunk(@, p, nb), p + nb, rest)]

Whole(m, p, size) == [m EXCEPT !.head = set_inuse_and_pinuse(@, p, size)]

FirstOf(m, i) == Head(m.smallbins[i])

\* From the bin of the size or the next one.
Fitting(m, nb) == m.smallmap \cap {nb, nb + 1}
TakeFitting(m, nb) ==
  LET i == Min(Fitting(m, nb))
      p == FirstOf(m, i)
  IN  Got(Whole(unlink_small_chunk(m, p, i), p, i), p)

\* From the next bin that is not empty, the rest is the designated victim.
Larger(m, nb) == {i \in m.smallmap : i > nb}
SplitLarger(m, nb) ==
  LET i == Min(Larger(m, nb))
      p == FirstOf(m, i)
  IN  Got(replace_dv(Split(unlink_small_chunk(m, p, i), p, nb, i - nb), p + nb, i - nb), p)

\* The nodes from a node down, left where there is a left child, else right.
LeftmostFrom(tree, path) ==
  {q \in DOMAIN tree :
     /\ IsPrefix(path, q)
     /\ \A k \in Len(path) + 1 .. Len(q) : q[k] = 1 => ~Child(tree, SubSeq(q, 1, k - 1), 0)}

Smallest(m, tree, paths) ==
  Head(tree[CHOOSE p \in paths : \A q \in paths : SizeAt(m, tree, p) =< SizeAt(m, tree, q)])

\* The smallest of the first treebin for a small request.
tmalloc_small(m, nb) ==
  LET tree == m.treebins[Min(m.treemap)]
      v    == Smallest(m, tree, LeftmostFrom(tree, <<>>))
      rest == m.head[v].size - nb
      m1   == unlink_large_chunk(m, v)
  IN  IF rest < MIN_CHUNK_SIZE THEN Got(Whole(m1, v, nb + rest), v)
      ELSE Got(replace_dv(Split(m1, v, nb, rest), v + nb, rest), v)

\* The best fit among the treebins: down the turns of the size, to the node
\* of the size if there is one, then the leftmost nodes of the deepest right
\* subtree not taken; if both find nothing the leftmost of the next treebin.
BestLarge(m, nb) ==
  LET i     == compute_tree_index(nb)
      tree  == m.treebins[i]
      turns == Turns(nb, i)
      to(k) == SubSeq(turns, 1, k)
      way   == {k \in 0 .. Len(turns) :
                  /\ to(k) \in DOMAIN tree
                  /\ \A j \in 0 .. k - 1 : SizeAt(m, tree, to(j)) # nb}
      fits  == {to(k) : k \in {j \in way : SizeAt(m, tree, to(j)) >= nb}}
      exact == \E p \in fits : SizeAt(m, tree, p) = nb
      right == {k \in way : k < Len(turns) /\ turns[k + 1] = 0 /\ Child(tree, to(k), 1)}
      rst   == IF exact \/ right = {} THEN {} ELSE LeftmostFrom(tree, to(Max(right)) \o <<1>>)
      next  == {j \in m.treemap : j > i}
  IN  IF fits \cup rst # {} THEN Smallest(m, tree, fits \cup rst)
      ELSE IF next # {} THEN LET t == m.treebins[Min(next)] IN Smallest(m, t, LeftmostFrom(t, <<>>))
      ELSE Null

\* Wherever it fits.
MutDvBetter(m, nb, v) == m.dvsize >= nb

\* The designated victim is used where it fits as well or better.
DvBetter(m, nb, v) == m.dvsize >= nb /\ m.dvsize =< m.head[v].size

tmalloc_large(m, nb) ==
  LET v    == BestLarge(m, nb)
      rest == m.head[v].size - nb
      m1   == unlink_large_chunk(m, v)
  IN  IF rest < MIN_CHUNK_SIZE THEN Got(Whole(m1, v, nb + rest), v)
      ELSE Got(insert_chunk(Split(m1, v, nb, rest), v + nb, rest), v)

\* The rest of the designated victim stays it, unless it is too small.
TakeDv(m, nb) ==
  LET p    == m.dv
      rest == m.dvsize - nb
  IN  IF rest >= MIN_CHUNK_SIZE
      THEN Got([Split(m, p, nb, rest) EXCEPT !.dv = p + nb, !.dvsize = rest], p)
      ELSE Got([Whole(m, p, m.dvsize) EXCEPT !.dv = Null, !.dvsize = 0], p)

TakeTop(m, nb) ==
  Got(SetTop([m EXCEPT !.head = set_size_and_pinuse_of_inuse_chunk(@, m.top, nb)],
             m.top + nb, m.topsize - nb),
      m.top)

granularity_align(size) == div_ceil(size, page_size) * page_size

\* New memory lies right behind top, or is the first: the one segment grows and
\* top with it.
Extended(m, tsize) ==
  [(IF m.top = Null THEN init_top(m, 0, tsize - TOP_FOOT_SIZE)
    ELSE init_top(m, m.top, m.topsize + tsize)) EXCEPT !.segsize = @ + tsize]

sys_alloc(m, nb) ==
  LET asize == granularity_align(nb - m.topsize + SYS_ALLOC_PADDING)
  IN  [TakeTop(Extended(m, asize), nb) EXCEPT !.asked = asize]

\* The order in which free memory is tried; a small request looks at treebins
\* only when the designated victim is too small.
internal_malloc(m, nb) ==
  LET small == is_small(nb)
      v     == BestLarge(m, nb)
  IN  CASE small /\ Fitting(m, nb) # {} -> TakeFitting(m, nb)
        [] small /\ Fitting(m, nb) = {} /\ nb > m.dvsize /\ Larger(m, nb) # {} -> SplitLarger(m, nb)
        [] small /\ Fitting(m, nb) \cup Larger(m, nb) = {} /\ nb > m.dvsize /\ m.treemap # {} ->
             tmalloc_small(m, nb)
        [] ~small /\ v # Null /\ ~DvBetter(m, nb, v) -> tmalloc_large(m, nb)
        [] OTHER -> IF nb =< m.dvsize THEN TakeDv(m, nb)
                    ELSE IF nb < m.topsize THEN TakeTop(m, nb) ELSE sys_alloc(m, nb)

\* The memory is there or more_core gives it, or else the kernel panics: at
\* once when the size is too large to ask for, or in more_core.
Served(r, bytes, align) ==
  /\ \/ r.asked = 0 /\ UNCHANGED vars
     \/ r.asked \in 1 .. HALF_MAX_SIZE_T - 1 /\ Grow(r.asked)
     \/ r.asked >= HALF_MAX_SIZE_T /\ panicked' = TRUE /\ UNCHANGED <<heap_size, mapped>>
  /\ IF panicked' THEN UNCHANGED <<gm, used>>
     ELSE /\ gm' = r.m
          /\ used' = [p \in DOMAIN used \cup {r.p} |->
                        IF p = r.p THEN [bytes |-> bytes, align |-> align] ELSE used[p]]

dlmalloc(bytes) ==
  \E r \in {internal_malloc(gm, request2size(bytes))} : Served(r, bytes, 1)

-----------------------------------------------------------------------------
(* dlfree and dlmemalign.                                                  *)

Absorb(m, p, size) ==
  LET freed == [m EXCEPT !.head = set_size_and_pinuse_of_free_chunk(@, p, size)]
  IN  IF p = m.dv THEN [freed EXCEPT !.dvsize = size] ELSE insert_chunk(freed, p, size)

\* A chunk p is merged with a free one behind it and put into a bin, unless it
\* becomes part of top or is part of the designated victim.
Forward(m, p, size, next) ==
  CASE m.head[next].cinuse ->
         insert_chunk([m EXCEPT !.head = set_free_with_pinuse(@, p, size, next)], p, size)
    [] next = m.top ->
         [SetTop(m, p, m.topsize + size) EXCEPT !.dv = IF @ = p THEN Null ELSE @,
                                                !.dvsize = IF m.dv = p THEN 0 ELSE @]
    [] next = m.dv ->
         [m EXCEPT !.head = set_size_and_pinuse_of_free_chunk(@, p, m.dvsize + size),
                   !.dv = p, !.dvsize = @ + size]
    [] OTHER -> Absorb(unlink_chunk(m, next, m.head[next].size), p, size + m.head[next].size)

\* A chunk no longer used is merged with a free one before it, and forward
\* unless that is the designated victim between chunks in use.
dispose_chunk(m, p, size) ==
  LET prevsize == m.head[p].prev_foot
      prev     == p - prevsize
      next     == p + size
  IN  IF m.head[p].pinuse THEN Forward(m, p, size, next)
      ELSE IF prev # m.dv THEN Forward(unlink_chunk(m, prev, prevsize), prev, prevsize + size, next)
      ELSE IF m.head[next].cinuse /\ m.head[next].pinuse
      THEN [m EXCEPT !.head = set_free_with_pinuse(@, prev, prevsize + size, next),
                     !.dvsize = prevsize + size]
      ELSE Forward(m, prev, prevsize + size, next)

\* What top can give back in pages, keeping at least one.
Trimmed(m) ==
  IF m.topsize > TOP_FOOT_SIZE
  THEN (div_ceil(m.topsize - TOP_FOOT_SIZE, page_size) - 1) * page_size ELSE 0

\* Nothing to give back turns trimming off until top is set up anew.
sys_trim(m, released) ==
  IF released = 0 THEN [m EXCEPT !.trim_check = IF m.topsize > @ THEN MAX_SIZE_T ELSE @]
  ELSE [init_top(m, m.top, m.topsize - released) EXCEPT !.segsize = @ - released]

\* Trimming is tried when the chunk became part of top.
dlfree(p) ==
  \E m \in {dispose_chunk(gm, p, gm.head[p].size)} :
    LET trims    == m.top # gm.top /\ m.topsize > m.trim_check
        released == IF trims THEN Trimmed(m) ELSE 0
    IN  /\ used' = [q \in DOMAIN used \ {p} |-> used[q]]
        /\ gm' = IF trims THEN sys_trim(m, released) ELSE m
        /\ IF released > 0 THEN Shrink(released) ELSE UNCHANGED vars

\* The first chunk at or behind p whose memory is aligned and that leaves
\* room for a chunk before it.
Aligned(p, align) ==
  LET br == div_ceil(p + 1, align) * align - 1
  IN  IF (p + 1) % align = 0 THEN p ELSE IF br - p >= MIN_CHUNK_SIZE THEN br ELSE br + align

\* The space before the aligned chunk p of r is given back.
TrimLead(r, p, junk) ==
  LET lead == p - r.p
  IN  IF lead = 0 THEN r.m
      ELSE dispose_chunk([r.m EXCEPT !.head = set_inuse(
                            set_inuse(@, p, @[r.p].size - lead, junk), r.p, lead, junk)], r.p, lead)

\* So is what p does not need of its space.
TrimRest(m, p, nb) ==
  LET rest == m.head[p].size - nb
  IN  IF rest =< MIN_CHUNK_SIZE THEN m
      ELSE dispose_chunk([m EXCEPT !.head = set_inuse(
                            set_inuse(@, p, nb, TRUE), p + nb, rest, TRUE)], p + nb, rest)

\* Room for the alignment is taken too and what is not needed given back.
internal_memalign(r, align, nb, junk) ==
  LET p == Aligned(r.p, align)
  IN  [r EXCEPT !.m = TrimRest(TrimLead(r, p, junk), p, nb), !.p = p]

dlmemalign(align, bytes) ==
  LET nb == request2size(bytes)
  IN  \E junk \in BOOLEAN, r \in {internal_malloc(gm, nb + align + MIN_CHUNK_SIZE)} :
        \E s \in {internal_memalign(r, align, nb, junk)} : Served(s, bytes, align)

kmalloc ==
  /\ ~panicked /\ Cardinality(DOMAIN used) < MaxLive
  /\ \/ \E bytes \in Requests : dlmalloc(bytes)
     \/ \E bytes \in AlignedRequests, align \in Alignments : dlmemalign(align, bytes)

kfree == ~panicked /\ \E p \in DOMAIN used : dlfree(p)

HeapSpec == HeapInit /\ [][kmalloc \/ kfree]_heapvars
=============================================================================

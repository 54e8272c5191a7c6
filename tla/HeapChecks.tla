----------------------------- MODULE HeapChecks ------------------------------
(***************************************************************************)
(* What makes the allocator (Dlmalloc) correct: what its own debugging     *)
(* support asserts, kernel/src/mem/dlmalloc.cc, which the kernel's build   *)
(* leaves out, and what callers rely on.                                   *)
(***************************************************************************)
EXTENDS Dlmalloc

Size(p) == gm.head[p].size
is_inuse(p) == gm.head[p].cinuse
next_chunk(p) == p + Size(p)
segment_holds(p) == p \in 0 .. gm.segsize - 1

Free == {p \in DOMAIN gm.head : ~is_inuse(p)}
Binned == Free \ {gm.top, gm.dv}
Nodes == UNION {{i} \X DOMAIN gm.treebins[i] : i \in DOMAIN gm.treebins}
Ring(n) == gm.treebins[n[1]][n[2]]

do_check_top_chunk(p) ==
  /\ segment_holds(p) /\ gm.head[p].pinuse
  /\ Size(p) = gm.topsize /\ Size(p) > 0
  /\ next_chunk(p) + TOP_FOOT_SIZE = gm.segsize

do_check_inuse_chunk(p) ==
  /\ segment_holds(p) /\ is_inuse(p) /\ gm.head[next_chunk(p)].pinuse
  /\ gm.head[p].pinuse \/ next_chunk(p - gm.head[p].prev_foot) = p

do_check_free_chunk(p) ==
  /\ segment_holds(p) /\ ~is_inuse(p) /\ ~gm.head[next_chunk(p)].pinuse
  /\ p \notin {gm.dv, gm.top} =>
       /\ gm.head[next_chunk(p)].prev_foot = Size(p) /\ gm.head[p].pinuse
       /\ next_chunk(p) = gm.top \/ is_inuse(next_chunk(p))

\* A chunk handed out is no larger than it must be.
do_check_malloced_chunk(m, p, s) == m.head[p].size \in s .. s + MIN_CHUNK_SIZE - 1

minsize_for_tree_index(i) == 2 ^ (i \div 2 + TREEBIN_SHIFT) + (i % 2) * 2 ^ (i \div 2 + TREEBIN_SHIFT - 1)

\* The node n of a treebin: its ring has the chunks of one size of the bin, and
\* a left child is smaller than a right one.
do_check_tree(n) ==
  LET size     == Size(Head(Ring(n)))
      child(t) == <<n[1], Append(n[2], t)>>
  IN  /\ n[1] = compute_tree_index(size) /\ size >= minsize_for_tree_index(n[1])
      /\ n[1] # NTREEBINS - 1 => size < minsize_for_tree_index(n[1] + 1)
      /\ \A p \in ToSet(Ring(n)) : ~is_inuse(p) /\ ~gm.head[next_chunk(p)].pinuse /\ Size(p) = size
      /\ {child(0), child(1)} \subseteq Nodes => Size(Head(Ring(child(0)))) < Size(Head(Ring(child(1))))

do_check_treebin(i) ==
  /\ i \in gm.treemap <=> gm.treebins[i] # <<>>
  /\ \A path \in DOMAIN gm.treebins[i] : do_check_tree(<<i, path>>)

do_check_smallbin(i) ==
  /\ gm.smallbins[i] = <<>> => i \notin gm.smallmap
  /\ i \in gm.smallmap =>
       \A p \in ToSet(gm.smallbins[i]) :
         /\ do_check_free_chunk(p) /\ Size(p) = i
         /\ next_chunk(p) = gm.top \/ do_check_inuse_chunk(next_chunk(p))

\* The chunk p is found in the bin of its size, in a treebin at the first node
\* of the size down its turns.
bin_find(p) ==
  LET i     == compute_tree_index(Size(p))
      to(k) == SubSeq(Turns(Size(p), i), 1, k)
  IN  IF is_small(Size(p))
      THEN Size(p) \in gm.smallmap /\ p \in ToSet(gm.smallbins[Size(p)])
      ELSE /\ i \in gm.treemap
           /\ \E k \in 0 .. Len(Turns(Size(p), i)) :
                /\ \A j \in 0 .. k : to(j) \in DOMAIN gm.treebins[i]
                /\ p \in ToSet(gm.treebins[i][to(k)])

\* Over all chunks before top.
traverse_and_check ==
  /\ gm.head[0].pinuse
  /\ \A p \in DOMAIN gm.head \ {gm.top} :
       IF is_inuse(p) THEN ~bin_find(p) /\ do_check_inuse_chunk(p)
       ELSE /\ p = gm.dv \/ bin_find(p)
            /\ is_inuse(next_chunk(p))
            /\ do_check_free_chunk(p)

do_check_malloc_state ==
  /\ \A i \in DOMAIN gm.smallbins : do_check_smallbin(i)
  /\ \A i \in DOMAIN gm.treebins : do_check_treebin(i)
  /\ gm.dvsize # 0 => /\ gm.dvsize = Size(gm.dv) /\ gm.dvsize >= MIN_CHUNK_SIZE
                      /\ ~bin_find(gm.dv)
  /\ gm.top # Null => do_check_top_chunk(gm.top) /\ ~bin_find(gm.top) /\ traverse_and_check

-----------------------------------------------------------------------------
\* Between any two calls the allocator is in a state that its debugging build
\* would not stop at: tags agree with the neighbours they speak of, every chunk
\* is in the bin where it is looked for, no two free ones lie side by side
\* (dlmalloc.cc:3490).
MallocStateChecks == do_check_malloc_state

\* The chunks lie end to end from the start of the heap to top and its foot,
\* those in use are the ones callers hold, and each has room for the bytes
\* asked for at an address aligned as asked for (dlmalloc.cc:4579, 4717, 4925).
ChunksTile ==
  /\ ~panicked => gm.segsize = heap_size
  /\ DOMAIN gm.head = {} \/ 0 \in DOMAIN gm.head
  /\ \A p, q \in DOMAIN gm.head : q > p => q >= next_chunk(p)
  /\ \A p \in DOMAIN gm.head \ {gm.top} : next_chunk(p) \in DOMAIN gm.head
  /\ DOMAIN used = DOMAIN gm.head \ Free
  /\ \A p \in DOMAIN used : Payload(Size(p)) >= used[p].bytes /\ (p + 1) % used[p].align = 0

\* Every free chunk that is not top or the designated victim is in exactly one
\* list or ring, once, and no other chunk is in any (dlmalloc.cc:3595-3830).
BinnedOnce ==
  /\ gm.dv # Null => gm.dv \in Free \ {gm.top}
  /\ \A i \in DOMAIN gm.smallbins :
       /\ ToSet(gm.smallbins[i]) = {p \in Binned : Size(p) = i}
       /\ IsInjective(gm.smallbins[i])
  /\ \A n \in Nodes :
       /\ ToSet(Ring(n)) = {p \in Binned : Size(p) = Size(Head(Ring(n)))}
       /\ IsInjective(Ring(n))

\* For every size up to the last treebin the search of the treebins ends at the
\* smallest chunk that fits.
TreeSearchBest ==
  \A nb \in NSMALLBINS .. minsize_for_tree_index(NTREEBINS - 1) :
    LET fits == {p \in Binned : Size(p) >= nb}
        v    == BestLarge(gm, nb)
    IN  IF fits = {} THEN v = Null
        ELSE v \in fits /\ \A p \in fits : Size(v) =< Size(p)

\* What is free is found: every chunk is where it is looked for and nowhere
\* else, and the search ends at the best one (dlmalloc.cc:3595-3830, 4469-4538).
BinsExact == BinnedOnce /\ TreeSearchBest

Given(p) == request2size(used'[p].bytes)
Fits(nb) == {q \in Free \ {gm.top} : Size(q) >= nb}

\* Memory comes from top or more_core only when no other free chunk fits, a
\* large request gets the smallest chunk that fits, and no chunk is handed out
\* with room for another one (dlmalloc.cc:4469-4712).
BestFit ==
  [][\A p \in DOMAIN used' \ DOMAIN used :
       used'[p].align = 1 =>
         /\ p = gm.top => Fits(Given(p)) = {}
         /\ p \in Free \ {gm.top} /\ ~is_small(Given(p)) =>
              \A q \in Fits(Given(p)) : Size(p) =< Size(q)
         /\ do_check_malloced_chunk(gm', p, Given(p))]_heapvars
=============================================================================

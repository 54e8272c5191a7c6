-------------------------------- MODULE Kmm ---------------------------------
(***************************************************************************)
(* The kernel heap, kernel/src/mem/kmm.cc: more_core grows and shrinks the *)
(* heap for the allocator (dlmalloc), byte by byte if it likes, and maps   *)
(* pages under it.  Pages are numbered from heap_start, which is aligned.  *)
(* map_alloc maps what it is asked to and skips pages mapped before, or    *)
(* fails with some of them mapped.                                         *)
(***************************************************************************)
EXTENDS Integers

CONSTANTS
  page_size, \* bytes per page
  HeapPages, \* pages below va_kernel_heap_end
  MaxDiff    \* bound on the bytes asked for at once

ASSUME KmmAssumption == {page_size, HeapPages, MaxDiff} \subseteq Nat \ {0}

VARIABLES
  heap_size, \* bytes of the heap
  mapped,    \* pages of the heap that are mapped
  panicked   \* "could not allocate kernel heap - OOM"

vars == <<heap_size, mapped, panicked>>

Init == heap_size = 0 /\ mapped = {} /\ panicked = FALSE

div_ceil(x, y) == IF x % y # 0 THEN x \div y + 1 ELSE x \div y

\* Pages for a heap whose end is inside a page, after that page.
extra(size, diff) == ((size + diff) \div page_size) - (size \div page_size)

\* From the page after the end of the heap.
MutRun(size, diff) == [vp |-> size \div page_size + 1, count |-> div_ceil(diff, page_size)]

\* The pages that more_core asks for.
NewPages(size, diff) ==
  IF size % page_size = 0
  THEN [vp |-> size \div page_size, count |-> div_ceil(diff, page_size)]
  ELSE [vp |-> div_ceil(size, page_size), count |-> extra(size, diff)]

Pages(run) == run.vp .. run.vp + run.count - 1

\* Growth.  Asked for no page map_alloc does nothing, above the heap end it
\* fails at once, and without frames it fails at a page not mapped yet.
Grow(diff) ==
  LET run  == NewPages(heap_size, diff)
      fits == run.count = 0 \/ run.vp + run.count =< HeapPages
  IN  \/ /\ fits
         /\ mapped' = mapped \cup Pages(run)
         /\ heap_size' = heap_size + diff
         /\ UNCHANGED panicked
      \/ /\ \/ ~fits /\ UNCHANGED mapped
            \/ /\ fits
               /\ \E n \in Pages(run) \ mapped : mapped' = mapped \cup run.vp .. n - 1
         /\ panicked' = TRUE
         /\ UNCHANGED heap_size

\* Shrinking stops at an empty heap.
Shrunk(size, diff) == IF diff > size THEN 0 ELSE size - diff

\* Shrinking leaves the pages mapped.
Shrink(diff) ==
  /\ heap_size' = Shrunk(heap_size, diff)
  /\ UNCHANGED <<mapped, panicked>>

more_core == ~panicked /\ \E diff \in 1 .. MaxDiff : Grow(diff) \/ Shrink(diff)

Spec == Init /\ [][more_core]_vars

-----------------------------------------------------------------------------
\* The heap fits below its end, and what is mapped are the first pages.
KmmInv ==
  /\ heap_size \in 0 .. HeapPages * page_size
  /\ mapped \subseteq 0 .. HeapPages - 1
  /\ \A p \in mapped : 0 .. p \subseteq mapped

\* Every byte of the heap is on a mapped page, after any growing and
\* shrinking by amounts that need not be pages (kmm.cc:30-43).
Backed == \A b \in 0 .. heap_size - 1 : b \div page_size \in mapped

\* Growing maps no page beyond the one at the new end of the heap.
OnePageAhead ==
  [][~panicked' => \A p \in mapped' \ mapped : p * page_size =< heap_size']_vars
=============================================================================

------------------------------- MODULE Chunks --------------------------------
(***************************************************************************)
(* The chunks of dlmalloc, kernel/src/mem/dlmalloc.cc, as configured for   *)
(* the kernel (no footers, no mmap).  Memory is counted in units of        *)
(* MALLOC_ALIGNMENT, which all sizes of chunks and their addresses are     *)
(* multiples of, from the start of the heap.  A map of the heap gives the  *)
(* address of every chunk its header: the size, the bits CINUSE and PINUSE *)
(* and prev_foot, the size of the chunk before, which shares its word with *)
(* that chunk's payload and is 0 here while PINUSE says so.  The headers   *)
(* that an operation buries inside a chunk become payload and are dropped. *)
(***************************************************************************)
EXTENDS Integers

MALLOC_ALIGNMENT == 8 \* bytes per unit
CHUNK_OVERHEAD == 4   \* bytes of a chunk in use that are not payload
MIN_CHUNK_SIZE == 2   \* units
MIN_REQUEST == MIN_CHUNK_SIZE * MALLOC_ALIGNMENT - CHUNK_OVERHEAD - 1

Null == -1 \* no chunk

\* Rounded down.
MutPad(bytes) == (bytes + CHUNK_OVERHEAD) \div MALLOC_ALIGNMENT

\* The units of a chunk with room for bytes.
pad_request(bytes) == (bytes + CHUNK_OVERHEAD + MALLOC_ALIGNMENT - 1) \div MALLOC_ALIGNMENT

request2size(bytes) == IF bytes < MIN_REQUEST THEN MIN_CHUNK_SIZE ELSE pad_request(bytes)

\* The bytes a caller may use of a chunk of a size, with the word of the next
\* chunk's prev_foot.
Payload(size) == size * MALLOC_ALIGNMENT - CHUNK_OVERHEAD

-----------------------------------------------------------------------------
InUse(size) == [size |-> size, cinuse |-> TRUE, pinuse |-> TRUE, prev_foot |-> 0]
Unused(size) == [size |-> size, cinuse |-> FALSE, pinuse |-> TRUE, prev_foot |-> 0]

\* A header is written and what it spans is payload.
Write(h, p, header) ==
  [a \in (DOMAIN h \ p .. p + header.size - 1) \cup {p} |-> IF a = p THEN header ELSE h[a]]

\* PINUSE of a chunk, which makes its prev_foot payload.
set_pinuse(h, n) ==
  IF n \in DOMAIN h THEN [h EXCEPT ![n].pinuse = TRUE, ![n].prev_foot = 0] ELSE h

\* The size of the free chunk p is written behind it.
set_foot(h, p, size) ==
  IF p + size \in DOMAIN h THEN [h EXCEPT ![p + size].prev_foot = size] ELSE h

set_size_and_pinuse_of_inuse_chunk(h, p, size) == Write(h, p, InUse(size))

\* The next chunk still counts this one free.
MutInuse(h, p, size) == Write(h, p, InUse(size))

set_inuse_and_pinuse(h, p, size) == set_pinuse(Write(h, p, InUse(size)), p + size)

\* PINUSE of p stays: that of a header never written is whatever it finds.
set_inuse(h, p, size, junk) ==
  LET pinuse == IF p \in DOMAIN h THEN h[p].pinuse ELSE junk
      foot   == IF p \in DOMAIN h THEN h[p].prev_foot ELSE 0
  IN  set_pinuse(Write(h, p, [InUse(size) EXCEPT !.pinuse = pinuse, !.prev_foot = foot]), p + size)

set_size_and_pinuse_of_free_chunk(h, p, size) == set_foot(Write(h, p, Unused(size)), p, size)

set_free_with_pinuse(h, p, size, n) ==
  set_size_and_pinuse_of_free_chunk([h EXCEPT ![n].pinuse = FALSE], p, size)
=============================================================================

-------------------------------- MODULE Pmm ---------------------------------
(***************************************************************************)
(* The allocator of physical page frames, kernel/src/mem/pmm.cc: a bitmap  *)
(* of the page frames of the 32 bit address space, cleared for the memory  *)
(* that the boot loader's map calls available and set for the kernel and   *)
(* for what alloc hands out.                                               *)
(*                                                                         *)
(* Addresses and lengths are in units of which page_size make a page, so   *)
(* that a region may begin or end inside a page or past 4G.                *)
(***************************************************************************)
EXTENDS Bitmap, Sequences

CONSTANTS
  page_size,             \* units per page
  lowest_usable_address, \* memory below is never allocated (1M)
  MemoryMaps,            \* the memory maps a boot loader may supply
  bootstrap_lma,         \* where the kernel image starts
  kernel_image_size,     \* its size, bootstrap code and kernel sections
  MaxPages               \* bound on the pages of a request

div_ceil(a, b) == a \div b + (IF a % b = 0 THEN 0 ELSE 1)

Extent(entry) == entry.addr .. entry.addr + entry.len - 1

\* The boot loader's regions are assumed not to overlap.
RegionsApart(map) ==
  \A i, j \in DOMAIN map :
    map[i].available /\ map[j].available /\ i # j => Extent(map[i]) \cap Extent(map[j]) = {}

\* The pages of the kernel's image, which the boot loader has put into memory
\* that its map calls available.
KernelPages ==
  bootstrap_lma \div page_size .. bootstrap_lma \div page_size + div_ceil(kernel_image_size, page_size) - 1

\* A page byte by byte.
Bytes(page) == page * page_size .. (page + 1) * page_size - 1

KernelLoaded(map) ==
  \E i \in DOMAIN map :
    map[i].available /\ \A page \in KernelPages : page \in Bits /\ Bytes(page) \subseteq Extent(map[i])

ASSUME PmmAssumption ==
  /\ page_size \in Nat \ {0}
  /\ lowest_usable_address \in Nat /\ kernel_image_size \in Nat
  /\ bootstrap_lma \in Nat /\ bootstrap_lma % page_size = 0
  /\ MaxPages \in Nat
  /\ MemoryMaps \subseteq Seq([addr : Nat, len : Nat, available : BOOLEAN])
  /\ \A map \in MemoryMaps : RegionsApart(map) /\ KernelLoaded(map)

VARIABLES up,    \* init has run
          mmap,  \* the memory map of this machine
          bmp,   \* the bitmap
          held,  \* the pages granted and not freed, as the callers know them
          reply  \* the answer to the last request

pmmVars == <<up, mmap, bmp, held, reply>>

\* intmax<paddr_t>::value
max_address == Nelems * page_size - 1

NoReply == [kind |-> "none", page |-> 0, count |-> 0]

-----------------------------------------------------------------------------
\* Rounding the end of a region up instead of down.
MutRegion(entry) ==
  LET addr == div_ceil(entry.addr, page_size) * page_size
      lost == addr - entry.addr
      len  == IF lost >= entry.len THEN 0 ELSE entry.len - lost
  IN  [addr |-> addr, len |-> div_ceil(len, page_size) * page_size]

\* A region of the map shrunk to whole pages.
Region(entry) ==
  LET addr == div_ceil(entry.addr, page_size) * page_size
      lost == addr - entry.addr
      len  == IF lost >= entry.len THEN 0 ELSE entry.len - lost
  IN  [addr |-> addr, len |-> len - (len % page_size)]

\* The part of a region that lies below 4G.
Usable(entry) ==
  LET r == Region(entry)
  IN  IF ~ entry.available \/ r.addr > max_address THEN 0
      ELSE IF r.addr + r.len =< max_address THEN r.len
      ELSE max_address - r.addr + 1

\* The vector of regions that init fills besides is read by nothing.
FreeRegion(b, entry) ==
  IF entry.len = 0 THEN b
  ELSE set_range(b, Region(entry).addr \div page_size, Usable(entry) \div page_size, FALSE)

\* The bitmap after each entry of the map, all of it set before the first.
Scan(b, map) ==
  LET after[k \in 0 .. Len(map)] ==
        IF k = 0 THEN set_range(b, 0, Nelems, TRUE) ELSE FreeRegion(after[k - 1], map[k])
  IN  after

ReserveKernel(b) ==
  set_range(b, bootstrap_lma \div page_size, div_ceil(kernel_image_size, page_size), TRUE)

PmmInit ==
  /\ up = FALSE
  /\ mmap \in MemoryMaps
  /\ bmp = [bits |-> {}, available |-> Nelems]
  /\ held = {}
  /\ reply = NoReply

init ==
  /\ ~ up
  /\ up' = TRUE
  /\ bmp' = ReserveKernel(Scan(bmp, mmap)[Len(mmap)])
  /\ UNCHANGED <<mmap, held, reply>>

-----------------------------------------------------------------------------
Lowest == div_ceil(lowest_usable_address, page_size)

\* The search reads one word past the bitmap: `beyond` is what it finds there.
alloc(count, beyond) ==
  /\ up
  /\ \/ \E n \in find_contiguous(bmp.bits \cup beyond, Lowest, count) :
          /\ bmp' = set_range(bmp, n, count, TRUE)
          /\ held' = held \cup (n .. n + count - 1)
          /\ reply' = [kind |-> "granted", page |-> n, count |-> count]
     \/ /\ find_contiguous(bmp.bits \cup beyond, Lowest, count) = {}
        /\ reply' = [kind |-> "refused", page |-> 0, count |-> count]
        /\ UNCHANGED <<bmp, held>>
  /\ UNCHANGED <<up, mmap>>

\* Callers free pages they hold, in whatever pieces.
free(n, count) ==
  /\ up
  /\ n .. n + count - 1 \subseteq held
  /\ bmp' = set_range(bmp, n, count, FALSE)
  /\ held' = held \ (n .. n + count - 1)
  /\ reply' = NoReply
  /\ UNCHANGED <<up, mmap>>

Beyond == SUBSET (Nelems .. Nelems + bits_per_entry - 1)

PmmNext ==
  \/ init
  \/ \E count \in 1 .. MaxPages : \E beyond \in Beyond : alloc(count, beyond)
  \/ \E count \in 1 .. MaxPages : \E n \in Bits : free(n, count)

PmmSpec == PmmInit /\ [][PmmNext]_pmmVars

-----------------------------------------------------------------------------
TypeOK ==
  /\ up \in BOOLEAN
  /\ mmap \in MemoryMaps
  /\ bmp.bits \subseteq Nat /\ bmp.available \in Int
  /\ held \subseteq Nat
  /\ reply \in [kind : {"none", "granted", "refused"}, page : Nat, count : 0 .. MaxPages]

\* A page of usable memory: all of it lies in one available region of the map
\* and none of it in the kernel's image (pmm.cc:70-134).
UsablePage ==
  {page \in Bits :
     /\ \E i \in DOMAIN mmap : mmap[i].available /\ Bytes(page) \subseteq Extent(mmap[i])
     /\ Bytes(page) \cap (bootstrap_lma .. bootstrap_lma + kernel_image_size - 1) = {}}

\* No memory map calls the last page below 4G available, which the firmware of
\* 32 bit machines keeps.  Where one does, alloc may grant what is not there.
TopReserved ==
  \A map \in MemoryMaps : \A i \in DOMAIN map :
    map[i].available => ~ Bytes(Nelems - 1) \subseteq Extent(map[i])

\* What alloc grants is memory below 4G, also when the memory map has a region
\* that crosses 4G, for which init accounts (pmm.cc:105).
GrantsInside == reply.kind = "granted" => reply.page + reply.count =< Nelems

\* After init and through every sequence of requests, a bit of the bitmap is
\* clear exactly for the pages of usable memory that no caller holds.
PoolExact == up => bmp.bits = Bits \ (UsablePage \ held)

\* The counter behind mem_available never loses accuracy as long as callers
\* free what they hold, although set_range never looks at the bits it
\* overwrites (bitmap.hh:127, pmm.cc:51).
CounterExact == bmp.available = Nelems - Cardinality(bmp.bits)

\* The word-wise search of find_contiguous returns what a search bit by bit
\* would: the first clear run, from any starting bit and of any length.
FirstFit ==
  up => \A start \in Bits, count \in 1 .. Nelems :
    LET fits == {n \in start .. Nelems - count : n .. n + count - 1 \cap bmp.bits = {}}
    IN  find_contiguous(bmp.bits, start, count)
          = {n \in fits : \A m \in fits : n =< m}

\* The pages alloc may hand out.
Pool == {page \in UsablePage : page * page_size >= lowest_usable_address}

\* The inductive invariant: bitmap and counter are exact, and what callers
\* hold is in the pool.
PmmInv ==
  /\ TypeOK /\ PoolExact /\ CounterExact
  /\ held \subseteq Pool
  /\ ~ up => bmp.bits = {} /\ held = {}

Abs == INSTANCE Frames WITH
  Frame <- Bits, MaxCount <- MaxPages,
  pool <- IF up THEN Pool ELSE {}

\* No page is handed out twice, no page of the kernel, of reserved or low
\* memory ever, and a refusal means that no run was long enough.
ImplementsFrames == Abs!FramesSpec
=============================================================================

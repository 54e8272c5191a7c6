----------------------------- MODULE BootPaging -----------------------------
(***************************************************************************)
(* How paging comes up: the tables target-bootstrap.asm makes before it    *)
(* jumps to the high half, and Vmm::init (mem/vmm.cc), which builds the    *)
(* kernel's own directory while it runs on the bootstrap's and reaches the *)
(* new tables only through a temporary one (init_pt).                      *)
(*                                                                         *)
(* Vmm takes the state left here as its Init.  Memory is the contents of   *)
(* the frames that serve as directories or tables; every access is made at *)
(* a virtual page and goes through the tables as the processor sees them.  *)
(* Nothing is cached that init replaces, so there is no TLB here.          *)
(***************************************************************************)
EXTENDS Integers

CONSTANTS
  N,                 \* entries of a directory and of a table (1024)
  FirstKernel,       \* number of the table at kernel_vma (768)
  Rec,               \* number of the table at va_pts (1020)
  va_kernel_stack,   \* first page of the kernel's stack (0xffff1), between unmapped ones
  StackPages,        \* its pages (4)
  page_directory,    \* frames of the bootstrap's structures
  page_table_0, page_table_768, page_table_1023,
  kernel_stack,      \* first frame of the stack
  kernel_lma,        \* first frame of the kernel's image
  page_size,         \* units per page
  Images,            \* sizes of the kernel's text, rodata and data with bss
  FreeRuns           \* where Pmm::alloc may find frames for N - FirstKernel tables

Entry == [frame : Int, writable : BOOLEAN]
NoEntry == [frame |-> -1, writable |-> FALSE]
Empty == [i \in 0 .. N - 1 |-> NoEntry]

\* What a frame holds that was not cleared: entries that look present.
Leftover == [i \in 0 .. N - 1 |-> [frame |-> 0, writable |-> TRUE]]

Page == 0 .. N * N - 1
div_ceil(a, b) == a \div b + (IF a % b = 0 THEN 0 ELSE 1)

-----------------------------------------------------------------------------
(* kernel.ld: where the parts of an image lie.  The page directory and the *)
(* temporary table are the last two pages of bss.                          *)
kernel_vma == FirstKernel * N
rodata_vma(image) == kernel_vma + div_ceil(image.text, page_size)
data_vma(image) == rodata_vma(image) + div_ceil(image.rodata, page_size)
data_pages(image) == div_ceil(image.data, page_size)
kernel_pd(image) == data_vma(image) + data_pages(image) - 2
init_pt(image) == data_vma(image) + data_pages(image) - 1

va_pts(p) == Rec * N + p

kstatic_va_to_pa(v) == v - kernel_vma + kernel_lma

\* The frames of the bootstrap's directory and tables, of the kernel's
\* directory and of init_pt.
TableList(image) ==
  <<page_directory, page_table_0, page_table_768, page_table_1023,
    kstatic_va_to_pa(kernel_pd(image)), kstatic_va_to_pa(init_pt(image))>>

TableFrames(image) == {TableList(image)[i] : i \in 1 .. 6}

PoolFrames == UNION {r .. r + N - FirstKernel - 1 : r \in FreeRuns}

\* The layout of kernel.ld, target-bootstrap.asm and vmm.hh: the image fits the
\* one table the bootstrap makes for it, the directory lies in low memory, the
\* recursive table and the stack's are tables of their own.
ASSUME LayoutAssumption ==
  /\ N \in Nat /\ FirstKernel \in 1 .. N - 1 /\ Rec \in FirstKernel + 1 .. N - 2
  /\ StackPages \in Nat \ {0} /\ va_kernel_stack \in (N - 1) * N .. N * N - StackPages
  /\ page_size \in Nat \ {0} /\ kernel_lma \in Nat /\ kernel_stack \in Nat
  /\ page_directory \in 0 .. N - 1 /\ {page_table_0, page_table_768, page_table_1023} \subseteq Nat
  /\ Images \subseteq [text : Nat, rodata : Nat, data : Nat]
  /\ FreeRuns \subseteq Nat
  /\ \A image \in Images :
       /\ data_pages(image) >= 2 /\ data_vma(image) + data_pages(image) =< kernel_vma + N
       /\ \A i, j \in 1 .. 6 : TableList(image)[i] = TableList(image)[j] => i = j
       /\ TableFrames(image) \cap PoolFrames = {}

-----------------------------------------------------------------------------
(* The processor: m is [frames, cr3, fault].                               *)

Walk(m, v) ==
  LET pde == m.frames[m.cr3][v \div N]
  IN  IF pde = NoEntry \/ pde.frame \notin DOMAIN m.frames THEN NoEntry
      ELSE LET pte == m.frames[pde.frame][v % N]
           IN  [pte EXCEPT !.writable = @ /\ pde.writable]

\* Supervisor writes heed the writable flag (bootstrap sets CR0.WP).
Write(m, v, contents) ==
  LET e == Walk(m, v)
  IN  IF ~ e.writable \/ e.frame \notin DOMAIN m.frames THEN [m EXCEPT !.fault = TRUE]
      ELSE [m EXCEPT !.frames[e.frame] = contents]

\* Several entries of one table: f is a function from their indices.
WriteEntries(m, v, f) ==
  LET e == Walk(m, v)
  IN  IF ~ e.writable \/ e.frame \notin DOMAIN m.frames THEN [m EXCEPT !.fault = TRUE]
      ELSE [m EXCEPT !.frames[e.frame] = [i \in 0 .. N - 1 |-> IF i \in DOMAIN f THEN f[i] ELSE @[i]]]

\* A page that is not there reads as nothing; the write that follows faults.
Read(m, v) == IF Walk(m, v).frame \in DOMAIN m.frames THEN m.frames[Walk(m, v).frame] ELSE Empty

make_pte(frame, writable) == [frame |-> frame, writable |-> writable]

-----------------------------------------------------------------------------
(* The bootstrap, with paging off until its end.  What it leaves in place  *)
(* of bss is zero.                                                         *)
setup_paging(image) ==
  LET set_pte(first, count, frame) ==
        [i \in 0 .. N - 1 |-> IF i \in first .. first + count - 1
                              THEN make_pte(frame + i - first, TRUE) ELSE NoEntry]
      pd == [Empty EXCEPT ![0] = make_pte(page_table_0, TRUE),
                          ![FirstKernel] = make_pte(page_table_768, TRUE),
                          ![N - 1] = make_pte(page_table_1023, TRUE)]
  IN  [frames |-> [f \in TableFrames(image) \cup PoolFrames |->
                     CASE f = page_directory  -> pd
                       [] f = page_table_0    -> set_pte(0, N, 0)
                       [] f = page_table_768  -> set_pte(0, N, kernel_lma)
                       [] f = page_table_1023 -> set_pte(va_kernel_stack % N, StackPages, kernel_stack)
                       [] f \in PoolFrames    -> Leftover
                       [] OTHER               -> Empty],
       cr3 |-> page_directory, fault |-> FALSE]

-----------------------------------------------------------------------------
(* Vmm::init, step by step.                                                *)
KernelTables == FirstKernel .. N - 1

StartInit(m, image) ==
  LET m1 == Write(m, kernel_pd(image), Empty) IN Write(m1, init_pt(image), Empty)

\* init_pt into the bootstrap's directory, which is read at its physical
\* address: low memory is still mapped to itself.
HookInitPt(m, image) ==
  WriteEntries(m, m.cr3, [p \in {Rec} |-> make_pte(kstatic_va_to_pa(init_pt(image)), TRUE)])

TableEntries(pts) == [p \in KernelTables |-> make_pte(pts + p - FirstKernel, TRUE)]

FillInitPt(m, image, pts) == WriteEntries(m, init_pt(image), TableEntries(pts))

\* The frames hold what their last user left in them.
MutClearTables(m) == m

\* None of the tables that are cleared is one they are reached through.
ClearTables(m) ==
  LET tables == {Walk(m, va_pts(p)) : p \in KernelTables}
  IN  IF \E e \in tables : ~ e.writable \/ e.frame \notin DOMAIN m.frames THEN [m EXCEPT !.fault = TRUE]
      ELSE [m EXCEPT !.frames = [f \in DOMAIN @ |-> IF \E e \in tables : e.frame = f THEN Empty ELSE @[f]]]

FillDirectory(m, image, pts) == WriteEntries(m, kernel_pd(image), TableEntries(pts))

CopyRec(m, image) == Write(m, va_pts(Rec), Read(m, init_pt(image)))

\* map(), of pages of one table: a page that is there already is an assertion
\* that fails.
map(m, v, frame, count, writable) ==
  LET table == va_pts(v \div N)
      entries == [i \in (v % N) .. (v % N) + count - 1 |-> make_pte(frame + i - (v % N), writable)]
  IN  IF \E i \in DOMAIN entries : Read(m, table)[i] # NoEntry THEN [m EXCEPT !.fault = TRUE]
      ELSE WriteEntries(m, table, entries)

\* The pages of the text counted by rounding down.
MutMapText(m, image) == map(m, kernel_vma, kernel_lma, image.text \div page_size, FALSE)

MapText(m, image) ==
  map(m, kernel_vma, kernel_lma, div_ceil(image.text, page_size), FALSE)

MapRodata(m, image) ==
  map(m, rodata_vma(image), kstatic_va_to_pa(rodata_vma(image)),
      div_ceil(image.rodata, page_size), FALSE)

\* bss included.
MapData(m, image) ==
  map(m, data_vma(image), kstatic_va_to_pa(data_vma(image)), data_pages(image), TRUE)

MapStack(m) == map(m, va_kernel_stack, kernel_stack, StackPages, TRUE)

\* resolve_va asks the current directory, still the bootstrap's, whether the
\* table is there, and the table at va_pts, a new one, for the frame.
resolve_va(m, v) ==
  IF m.frames[m.cr3][v \div N] = NoEntry THEN NoEntry ELSE Read(m, va_pts(v \div N))[v % N]

\* A directory that is not found is a null Optional that switch_pd reads.
switch_pd(m, v) ==
  IF resolve_va(m, v) = NoEntry THEN [m EXCEPT !.fault = TRUE]
  ELSE [m EXCEPT !.cr3 = resolve_va(m, v).frame]
=============================================================================

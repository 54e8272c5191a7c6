-------------------------------- MODULE Vmm ---------------------------------
(***************************************************************************)
(* Paging, kernel/src/mem/vmm.cc: page directories and tables, the tables  *)
(* reached through the recursive mapping at va_pts, and the processor's    *)
(* translation cache (TLB), which only a load of cr3 or invlpg empties.    *)
(*                                                                         *)
(* A directory has N entries and a table N pages; page v belongs to table  *)
(* v \div N.  The tables from FirstKernel on belong to the kernel and are  *)
(* the same in all address spaces, but for table Rec: it describes the     *)
(* tables themselves.  Page flags are left out.                            *)
(*                                                                         *)
(* The functions run to their end without being interrupted by each other, *)
(* so that each is a function of the memory `m`.                           *)
(***************************************************************************)
EXTENDS Integers, FiniteSets

CONSTANTS
  N,           \* entries of a page directory and of a page table (1024)
  FirstKernel, \* number of the first kernel page table (768)
  Rec,         \* number of the table at va_pts, the recursive one (1020)
  HeapEnd,     \* page at va_kernel_heap_end
  Framebuffer, \* page at va_framebuffer
  FirstUser,   \* lowest page user memory may use
  LastUser,    \* bound on the pages user memory uses
  page_bytes,  \* bytes per page
  Frames,      \* the frames of the page frame allocator: 0 .. Frames - 1
  Device,      \* a frame that is not the allocator's: the framebuffer
  MaxSpace,    \* bound on the address spaces cloned
  MaxCount,    \* bound on the pages mapped at once
  TlbSize      \* bound on the translations cached at once

Frame == 0 .. Frames - 1
Page == 0 .. N * N - 1
KernelHeap == FirstKernel * N .. HeapEnd - 1
UserPage == FirstUser .. LastUser

ASSUME VmmAssumption ==
  /\ N \in Nat /\ FirstKernel \in 1 .. N - 2 /\ Rec \in FirstKernel + 1 .. N - 1
  /\ HeapEnd \in FirstKernel * N .. Rec * N - 1 /\ Framebuffer \in HeapEnd .. Rec * N - 1
  /\ Frames \in Nat /\ N - FirstKernel =< Frames /\ Device \in Nat \ Frame
  /\ MaxSpace \in Nat /\ MaxCount \in Nat
  /\ FirstUser \in Nat /\ LastUser \in FirstUser .. FirstKernel * N - 1
  /\ page_bytes \in Nat \ {0}

VARIABLES
  mem,    \* directories, tables, TLB, the current directory and free frames
  spaces, \* address spaces created so far; 0 is kernel_pd
  status  \* how the last operation ended

vars == <<mem, spaces, status>>

None == -1
Absent == [i \in 0 .. N - 1 |-> None]
Garbage == [i \in 0 .. N - 1 |-> 0]

Table(v) == v \div N
Index(v) == v % N
TablePage(p) == Rec * N + p    \* va_pts.offset(p * 4_K)

-----------------------------------------------------------------------------
\* External: what the processor finds in the tables of a space, and the frame
\* it really uses, which the TLB may remember.
Walk(m, s, v) ==
  IF m.dir[s][Table(v)] = None THEN None ELSE m.tab[m.dir[s][Table(v)]][Index(v)]

Translate(m, v) ==
  IF \E e \in m.tlb : e.page = v THEN (CHOOSE e \in m.tlb : e.page = v).frame
  ELSE Walk(m, m.cur, v)

resolve_va(m, v) ==
  IF m.dir[m.cur][Table(v)] = None THEN None
  ELSE m.tab[Translate(m, TablePage(Table(v)))][Index(v)]

\* invlpg with the number of the page for an address: it empties the TLB of
\* the page that holds the byte of that number.
invalidate(m, v) == [m EXCEPT !.tlb = {e \in m.tlb : e.page # v \div page_bytes}]

\* The first run of free frames, as Pmm::alloc finds it.
Run(n, count) == n .. n + count - 1
FirstRun(free, count) ==
  LET fits == {n \in free : Run(n, count) \subseteq free}
  IN  IF fits = {} THEN None ELSE CHOOSE n \in fits : \A k \in fits : n =< k

\* A page table entry is written once only: "tried to remap a page".
SetEntry(m, pt, v, f) ==
  IF m.tab[pt][Index(v)] # None
  THEN [m EXCEPT !.result = "remap"]
  ELSE invalidate([m EXCEPT !.tab[pt][Index(v)] = f], v)

-----------------------------------------------------------------------------
\* The rest of get_ptab: allocate a frame, map it where the p'th table is
\* seen, clear it there, enter it in the directory and flush the TLB.
NewTable(m, p) ==
  LET f  == FirstRun(m.free, 1)
      m1 == SetEntry([m EXCEPT !.free = @ \ {f}], Translate(m, TablePage(Rec)), TablePage(p), f)
  IN  [m1 EXCEPT !.tab[Translate(m1, TablePage(p))] = Absent, !.dir[m.cur][p] = f, !.tlb = {}]

\* get_ptab: the memory after it, in which the table of page v is there
\* unless no frame was left for it.
get_ptab(m, v) ==
  IF Table(v) >= FirstKernel \/ m.dir[m.cur][Table(v)] # None THEN m
  ELSE IF m.free = {} THEN [m EXCEPT !.result = "no_table"]
  ELSE NewTable(m, Table(v))

map_one(m, v, f) ==
  LET m1 == get_ptab(m, v)
  IN  IF m1.result # "ok" THEN m1 ELSE SetEntry(m1, Translate(m1, TablePage(Table(v))), v, f)

\* map: a panic in map_one ends it.
map(m, v, f, count) ==
  LET after[k \in 0 .. count] ==
        IF k = 0 THEN m
        ELSE IF after[k - 1].result # "ok" THEN after[k - 1]
        ELSE map_one(after[k - 1], v + k - 1, f + k - 1)
  IN  after[count]

\* A frame allocated also for a page that is left out.
MutMapAlloc(m, v) ==
  IF m.free = {} THEN [m EXCEPT !.result = "oom"]
  ELSE LET f  == FirstRun(m.free, 1)
           m1 == [m EXCEPT !.free = @ \ {f}]
       IN  IF resolve_va(m, v) # None THEN m1 ELSE map_one(m1, v, f)

\* A page of the loop that maps page by page: one that is mapped already is
\* left out.
MapAlloc(m, v) ==
  IF resolve_va(m, v) # None THEN m
  ELSE IF m.free = {} THEN [m EXCEPT !.result = "oom"]
  ELSE LET f == FirstRun(m.free, 1) IN map_one([m EXCEPT !.free = @ \ {f}], v, f)

\* Page by page.  When memory runs out the pages mapped so far stay.
MapEach(m, v, count) ==
  LET after[k \in 0 .. count] ==
        IF k = 0 THEN m
        ELSE IF after[k - 1].result # "ok" THEN after[k - 1]
        ELSE MapAlloc(after[k - 1], v + k - 1)
  IN  after[count]

map_alloc(m, v, count) ==
  IF v + count > HeapEnd THEN [m EXCEPT !.result = "oom"]
  ELSE IF /\ \A i \in 0 .. count - 1 : resolve_va(m, v + i) = None
          /\ FirstRun(m.free, count) # None
  THEN LET n == FirstRun(m.free, count)
       IN  map([m EXCEPT !.free = @ \ Run(n, count)], v, n, count)
  ELSE MapEach(m, v, count)

\* unmap(vp): get_ptab may allocate a table for it.
unmap(m, v) ==
  LET m1 == get_ptab(m, v)
      pt == Translate(m1, TablePage(Table(v)))
  IN  IF m1.result = "no_table" THEN m
      ELSE IF m1.tab[pt][Index(v)] = None THEN m1
      ELSE invalidate([m1 EXCEPT !.tab[pt][Index(v)] = None], v)

\* unmap_free frees the frame first.
unmap_free(m, v) ==
  LET m1 == get_ptab(m, v)
      f  == m1.tab[Translate(m1, TablePage(Table(v)))][Index(v)]
  IN  IF m1.result = "no_table" THEN m
      ELSE IF f = None THEN m1
      ELSE unmap([m1 EXCEPT !.free = @ \cup {f}], v)

-----------------------------------------------------------------------------
\* A clone whose recursive table still shows the other space's tables.
MutClonePd(m, s, r) ==
  LET rec == m.tab[Translate(m, TablePage(Rec))]
  IN  [m EXCEPT
        !.tab[r] = [rec EXCEPT ![Rec] = r],
        !.dir[s] = [p \in 0 .. N - 1 |-> IF p < FirstKernel THEN None
                                         ELSE IF p = Rec THEN r ELSE m.dir[m.cur][p]]]

\* A clone without the first of the kernel's tables.
MutCloneOff(m, s, r) ==
  LET rec == m.tab[Translate(m, TablePage(Rec))]
  IN  [m EXCEPT
        !.tab[r] = [i \in 0 .. N - 1 |-> IF i =< FirstKernel THEN None
                                         ELSE IF i = Rec THEN r ELSE rec[i]],
        !.dir[s] = [p \in 0 .. N - 1 |-> IF p =< FirstKernel THEN None
                                         ELSE IF p = Rec THEN r ELSE m.dir[m.cur][p]]]

\* A clone that keeps the other space's user tables.
MutCloneUser(m, s, r) ==
  LET rec == m.tab[Translate(m, TablePage(Rec))]
  IN  [m EXCEPT !.tab[r] = [rec EXCEPT ![Rec] = r], !.dir[s] = [m.dir[m.cur] EXCEPT ![Rec] = r]]

\* clone_pd: a directory with the kernel's tables and no other, and a
\* recursive table of its own, which lies in frame r.
clone_pd(m, s, r) ==
  LET rec == m.tab[Translate(m, TablePage(Rec))]
  IN  [m EXCEPT
        !.tab[r] = [i \in 0 .. N - 1 |-> IF i < FirstKernel THEN None
                                         ELSE IF i = Rec THEN r ELSE rec[i]],
        !.dir[s] = [p \in 0 .. N - 1 |-> IF p < FirstKernel THEN None
                                         ELSE IF p = Rec THEN r ELSE m.dir[m.cur][p]]]

\* A switch that leaves the TLB as it is.
MutSwitch(m, s) == [m EXCEPT !.cur = s]

\* switch_pd: the load of cr3 flushes the TLB.
switch_pd(m, s) == [m EXCEPT !.cur = s, !.tlb = {}]

\* What Vmm::init leaves: a run of frames holds the kernel's tables, and the
\* recursive one describes all of them.
Init ==
  /\ mem = [dir |-> [s \in 0 .. MaxSpace |->
                       [p \in 0 .. N - 1 |-> IF s = 0 /\ p >= FirstKernel THEN p - FirstKernel ELSE None]],
            tab |-> [f \in Frame |->
                       IF f = Rec - FirstKernel
                       THEN [i \in 0 .. N - 1 |-> IF i >= FirstKernel THEN i - FirstKernel ELSE None]
                       ELSE IF f < N - FirstKernel THEN Absent ELSE Garbage],
            free |-> {f \in Frame : f >= N - FirstKernel},
            tlb |-> {}, cur |-> 0, result |-> "ok"]
  /\ spaces = {0}
  /\ status = "ok"

Alive == status \notin {"remap", "no_table"}

\* An operation ends with its result, which a panic makes the last.
Becomes(m) == Alive /\ mem' = [m EXCEPT !.result = "ok"] /\ status' = m.result

\* The ELF loader maps a segment in the space it has switched to.
MapUser ==
  /\ mem.cur # 0
  /\ \E v \in UserPage, count \in 1 .. MaxCount :
       v + count - 1 \in UserPage /\ Becomes(map_alloc(mem, v, count))
  /\ UNCHANGED spaces

\* Kmm::more_core extends the kernel heap.
GrowHeap ==
  /\ \E v \in KernelHeap, count \in 1 .. MaxCount : Becomes(map_alloc(mem, v, count))
  /\ UNCHANGED spaces

\* A console maps the framebuffer, once.
MapFramebuffer ==
  /\ Walk(mem, 0, Framebuffer) = None
  /\ Becomes(map(mem, Framebuffer, Device, 1))
  /\ UNCHANGED spaces

\* The heap pages that hold recursive tables.
TableFrames == {mem.dir[s][Rec] : s \in spaces}

\* clone_pd takes its table from the heap: a mapped heap page that holds none.
\* It allows for any current space, though kmain clones in kernel_pd only.
Clone ==
  /\ Cardinality(spaces) =< MaxSpace
  /\ \E v \in KernelHeap :
       /\ Walk(mem, mem.cur, v) \notin TableFrames \cup {None}
       /\ Becomes(clone_pd(mem, Cardinality(spaces), resolve_va(mem, v)))
  /\ spaces' = spaces \cup {Cardinality(spaces)}

Switch == \E s \in spaces : Becomes(switch_pd(mem, s)) /\ UNCHANGED spaces

\* External: the processor caches a translation, or drops one.
Access ==
  /\ Alive /\ Cardinality(mem.tlb) < TlbSize
  /\ \E v \in Page :
       /\ Walk(mem, mem.cur, v) # None
       /\ \A e \in mem.tlb : e.page # v
       /\ mem' = [mem EXCEPT !.tlb = @ \cup {[page |-> v, frame |-> Walk(mem, mem.cur, v)]}]
  /\ UNCHANGED <<spaces, status>>

Evict ==
  /\ Alive
  /\ \E e \in mem.tlb : mem' = [mem EXCEPT !.tlb = @ \ {e}]
  /\ UNCHANGED <<spaces, status>>

Next == MapUser \/ GrowHeap \/ MapFramebuffer \/ Clone \/ Switch \/ Access \/ Evict

Spec == Init /\ [][Next]_vars

\* unmap and unmap_free are part of the interface, but nothing calls them yet.
Unmap ==
  /\ mem.cur # 0
  /\ \E v \in UserPage : Becomes(unmap(mem, v)) \/ Becomes(unmap_free(mem, v))
  /\ UNCHANGED spaces

SpecUnmap == Init /\ [][Next \/ Unmap]_vars

-----------------------------------------------------------------------------
KernelPage == {v \in FirstKernel * N .. N * N - 1 : Table(v) # Rec}
UserTables(s) == {mem.dir[s][p] : p \in 0 .. FirstKernel - 1} \ {None}
Mapped(s, vs) == {Walk(mem, s, v) : v \in vs} \ {None}

\* In every address space the recursive mapping shows exactly the tables of
\* the directory, so that resolve_va and get_ptab see what the processor
\* sees, whichever space was cloned from which and switched to when.
RecursiveExact ==
  \A s \in spaces, p \in 0 .. N - 1 : Walk(mem, s, TablePage(p)) = mem.dir[s][p]

\* Kernel memory is the same in all address spaces, also what is mapped there
\* after they were cloned (vmm.hh:23-24).
KernelShared ==
  \A s \in spaces, v \in KernelPage : Walk(mem, s, v) = Walk(mem, 0, v)

\* Every frame has one use: it is free, the table of one user region in one
\* space, one user page of one space, or the kernel's; none is lost, and no
\* page is given a frame while it has one (the assertion at vmm.cc:156).
OneUse ==
  status # "remap" /\
  LET user(s)   == UserTables(s) \cup Mapped(s, UserPage)
      kernel    == Mapped(0, KernelHeap) \cup {mem.dir[0][p] : p \in FirstKernel .. N - 1}
      places(s) == {<<s, v>> : v \in {w \in UserPage : Walk(mem, s, w) # None}}
  IN  Alive =>
      /\ mem.free = Frame \ (kernel \cup UNION {user(s) : s \in spaces})
      /\ \A s \in spaces : user(s) \cap kernel = {} /\ UserTables(s) \cap Mapped(s, UserPage) = {}
      /\ \A s, t \in spaces : s # t => user(s) \cap user(t) = {}
      /\ \A s \in spaces : Cardinality(places(s)) = Cardinality(Mapped(s, UserPage))

\* The TLB holds nothing the tables do not say, whatever is mapped and however
\* spaces are switched: no table or page is reached through an old entry.
TlbCoherent == \A e \in mem.tlb : Walk(mem, mem.cur, e.page) = e.frame

\* What frames are used for: user tables and the kernel's, user pages and
\* pages of the kernel's heap.
Uses(S) ==
  {<<"table", s, p>> : s \in S, p \in 0 .. FirstKernel - 1}
    \cup {<<"table", 0, p>> : p \in FirstKernel .. N - 1}
    \cup {<<"page", s, v>> : s \in S, v \in UserPage}
    \cup {<<"page", 0, v>> : v \in KernelHeap}
FrameOf(m, u) == IF u[1] = "table" THEN m.dir[u[2]][u[3]] ELSE Walk(m, u[2], u[3])

MemType(m) ==
  m \in [dir : [0 .. MaxSpace -> [0 .. N - 1 -> Frame \cup {None}]],
         tab : [Frame -> [0 .. N - 1 -> Frame \cup {None, Device}]],
         free : SUBSET Frame,
         tlb : SUBSET [page : Page, frame : Frame \cup {Device}],
         cur : 0 .. MaxSpace,
         result : {"ok", "oom", "no_table", "remap"}]

\* No frame has two uses, and those that have none are free, or allocated and
\* not yet mapped (`taken`).
FramesPlaced(m, S, taken) ==
  /\ \A u, w \in Uses(S) : FrameOf(m, u) # None /\ FrameOf(m, u) = FrameOf(m, w) => u = w
  /\ \A u \in Uses(S) : FrameOf(m, u) \in Frame \cup {None}
  /\ taken \subseteq Frame /\ taken \cap m.free = {}
  /\ m.free \cup taken = Frame \ {FrameOf(m, u) : u \in Uses(S)}

\* The kernel's tables, where init put them, and a recursive one for each
\* space, in a page of the heap but for the first.
TablesPlaced(m, S) ==
  /\ \A s \in (0 .. MaxSpace) \ S : m.dir[s] = Absent
  /\ \A s \in S, p \in FirstKernel .. N - 1 : p # Rec => m.dir[s][p] = p - FirstKernel
  /\ m.dir[0][Rec] = Rec - FirstKernel
  /\ \A s \in S \ {0} : \E v \in KernelHeap : m.dir[s][Rec] = Walk(m, 0, v) /\ Walk(m, 0, v) # None
  /\ \A s, t \in S : m.dir[s][Rec] = m.dir[t][Rec] => s = t
  /\ \A s \in S, p \in 0 .. N - 1 : m.tab[m.dir[s][Rec]][p] = m.dir[s][p]

\* The kernel maps nothing but its heap and the framebuffer.
DeviceOnly(m) ==
  \A v \in KernelPage \ KernelHeap : Walk(m, 0, v) \in {None} \cup IF v = Framebuffer THEN {Device} ELSE {}

MemOK(m, S, taken) ==
  /\ MemType(m) /\ m.cur \in S
  /\ FramesPlaced(m, S, taken) /\ TablesPlaced(m, S) /\ DeviceOnly(m)
  /\ \A e \in m.tlb : Walk(m, m.cur, e.page) = e.frame

\* The inductive invariant.  A panic may leave frames taken.
VmmInv ==
  LET taken == Frame \ (mem.free \cup {FrameOf(mem, u) : u \in Uses(spaces)})
  IN  /\ spaces = 0 .. Cardinality(spaces) - 1 /\ Cardinality(spaces) \in 1 .. MaxSpace + 1
      /\ mem.result = "ok" /\ status \in {"ok", "oom", "no_table"}
      /\ MemOK(mem, spaces, taken)
      /\ Alive => taken = {}

\* A page that is unmapped can be mapped again: once it is, the processor uses
\* the new frame ("it needs to be unmapped first", vmm.cc:156).
RemapTakesEffect == \A e \in mem.tlb : Walk(mem, mem.cur, e.page) \in {None, e.frame}

\* The paging code implements address spaces: through tables seen by way of
\* the recursive mapping, allocated when they are needed and shared by the
\* kernel, a step of any operation is one step of the abstract one.
Spaces == INSTANCE AddressSpaces WITH
  Space <- 0 .. MaxSpace, cur <- mem.cur, spaces <- spaces,
  maps <- [s \in 0 .. MaxSpace |-> [v \in UserPage \cup KernelPage |-> Walk(mem, s, v)]]
ImplementsAddressSpaces == Spaces!Spec
=============================================================================

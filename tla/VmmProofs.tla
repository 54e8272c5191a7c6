----------------------------- MODULE VmmProofs ------------------------------
(***************************************************************************)
(* Paging, for every size of the tables, layout of the address space and   *)
(* number of frames, pages and spaces: the inductive invariant VmmInv, the *)
(* properties that follow from it, and the refinement of AddressSpaces.    *)
(*                                                                         *)
(* The proof goes up the layers of vmm.cc.  First come pages and tables,   *)
(* then what an orderly memory says of a walk of the tables; then, each by *)
(* the one before it, SetEntry, NewTable, get_ptab, map_one, map, MapEach  *)
(* and map_alloc, which make memory grow (Grows) and keep it in order      *)
(* (Memory); then clone_pd; then one lemma for each action.                *)
(*                                                                         *)
(* m.dir and m.tab are read through Dir and Ent, which stay closed, for    *)
(* functions of functions in records are too much for the provers.  The    *)
(* two loops are recursive functions: Reaches, the induction over numbers  *)
(* by the least counterexample, shows that they have a value and what      *)
(* memory is after each round.                                             *)
(***************************************************************************)
EXTENDS Vmm, WellFoundedInduction, FiniteSetTheorems, TLAPS

\* Every nonempty set of numbers has a least element.
LEMMA Least ==
  ASSUME NEW S, S \subseteq Nat, S # {}
  PROVE  \E m \in S : \A k \in S : m =< k
<1>1. PICK m \in S : \A k \in S : <<k, m>> \notin OpToRel(<, Nat)
  BY NatLessThanWellFounded, WFMin, Zenon
<1>2. \A k \in S : ~ k < m BY <1>1, Zenon DEF OpToRel
<1> QED BY <1>2

\* The division with remainder.
LEMMA DivMod ==
  ASSUME NEW x \in Nat, NEW y \in Nat \ {0}
  PROVE  x \div y \in Nat /\ x % y \in 0 .. y - 1 /\ x = y * (x \div y) + (x % y)
OBVIOUS

\* Multiplying is monotonic.
LEMMA MulMono ==
  ASSUME NEW x \in Nat, NEW y \in Nat, NEW z \in Nat, x =< y
  PROVE  z * x \in Nat /\ z * y \in Nat /\ z * x =< z * y
OBVIOUS

\* The quotient, by multiplication.
LEMMA Quotient ==
  ASSUME NEW n \in Nat, NEW e \in Nat, NEW y \in Nat \ {0}
  PROVE  n \div y \in Nat /\ e * y \in Nat /\ (e =< n \div y <=> e * y =< n)
<1> DEFINE d == n \div y
           r == n % y
<1>1. d \in Nat /\ r \in 0 .. y - 1 /\ n = y * d + r BY DivMod
<1> HIDE DEF d, r
<1>2. e * y = y * e /\ y * e \in Nat /\ y * d \in Nat BY <1>1
<1>3. ASSUME e =< d PROVE y * e =< y * d BY <1>1, <1>3, MulMono
<1>4. ASSUME d < e PROVE y * d + y =< y * e
  <2>1. y * (d + 1) =< y * e BY <1>1, <1>4, MulMono
  <2>2. y * (d + 1) = y * d + y BY <1>1
  <2> QED BY <2>1, <2>2
<1> QED BY <1>1, <1>2, <1>3, <1>4 DEF d, r

-----------------------------------------------------------------------------
\* What is assumed of the layout.
LEMMA Layout ==
  /\ N \in Nat \ {0} /\ FirstKernel \in 1 .. N - 2 /\ Rec \in FirstKernel + 1 .. N - 1
  /\ N - FirstKernel \in Nat /\ Frames \in Nat /\ N - FirstKernel =< Frames
  /\ FirstKernel * N \in Nat /\ Rec * N \in Nat /\ N * N \in Nat
  /\ HeapEnd \in Nat /\ FirstKernel * N =< HeapEnd /\ HeapEnd < Rec * N
  /\ Framebuffer \in Nat /\ HeapEnd =< Framebuffer /\ Framebuffer < Rec * N
  /\ FirstUser \in Nat /\ LastUser \in Nat /\ LastUser < FirstKernel * N
  /\ Rec * N + N =< N * N /\ FirstKernel * N =< Rec * N
<1>1. N \in Nat \ {0} /\ FirstKernel \in 1 .. N - 2 /\ Rec \in FirstKernel + 1 .. N - 1 BY VmmAssumption
<1>2. FirstKernel * N \in Nat /\ Rec * N \in Nat /\ N * N \in Nat BY <1>1
<1>3. Rec * N + N =< N * N
  <2>1. N * (Rec + 1) =< N * N BY <1>1, MulMono
  <2> QED BY <1>1, <2>1, N * (Rec + 1) = Rec * N + N
<1>4. FirstKernel * N =< Rec * N
  <2>1. N * FirstKernel =< N * Rec BY <1>1, MulMono
  <2> QED BY <1>1, <2>1, N * FirstKernel = FirstKernel * N, N * Rec = Rec * N
<1> DEFINE a == FirstKernel * N
           b == Rec * N
           c == N * N
<1>5. HeapEnd \in a .. b - 1 /\ Framebuffer \in HeapEnd .. b - 1 /\ FirstUser \in Nat /\ LastUser \in FirstUser .. a - 1
  BY VmmAssumption
<1>6. N - FirstKernel \in Nat /\ Frames \in Nat /\ N - FirstKernel =< Frames BY <1>1, VmmAssumption
<1>7. a \in Nat /\ b \in Nat /\ c \in Nat BY <1>2
<1> HIDE DEF a, b, c
<1>8. /\ HeapEnd \in Nat /\ a =< HeapEnd /\ HeapEnd < b
      /\ Framebuffer \in Nat /\ HeapEnd =< Framebuffer /\ Framebuffer < b
      /\ FirstUser \in Nat /\ LastUser \in Nat /\ LastUser < a
  BY <1>5, <1>7
<1> QED BY <1>1, <1>2, <1>3, <1>4, <1>6, <1>8 DEF a, b, c

\* A page has its table and its place there.
LEMMA PageSplit ==
  ASSUME NEW v \in Page
  PROVE  /\ Table(v) \in 0 .. N - 1 /\ Index(v) \in 0 .. N - 1
         /\ \A w \in Page : Table(w) = Table(v) /\ Index(w) = Index(v) => w = v
<1>1. v \in Nat /\ v < N * N /\ N \in Nat \ {0} BY Layout DEF Page
<1>2. \A w \in Page : w \in Nat BY Layout DEF Page
<1>3. \A w \in Nat : Table(w) \in Nat /\ Index(w) \in 0 .. N - 1 /\ w = N * Table(w) + Index(w)
  BY <1>1, DivMod DEF Table, Index
<1>4. Table(v) < N
  <2>1. N =< v \div N <=> N * N =< v BY <1>1, Quotient
  <2> QED BY <1>1, <1>3, <2>1 DEF Table
<1>5. Table(v) \in 0 .. N - 1 BY <1>1, <1>3, <1>4
<1>6. \A w \in Page : Table(w) = Table(v) /\ Index(w) = Index(v) => w = v BY <1>1, <1>2, <1>3
<1> QED BY <1>1, <1>3, <1>5, <1>6

\* The page where a table shows in the recursive mapping.
LEMMA TablePageSplit ==
  ASSUME NEW p \in 0 .. N - 1
  PROVE  TablePage(p) \in Page /\ Table(TablePage(p)) = Rec /\ Index(TablePage(p)) = p
<1> DEFINE a == Rec * N
           v == TablePage(p)
<1>1. N \in Nat \ {0} /\ Rec \in Nat /\ a \in Nat /\ a + N =< N * N /\ N * N \in Nat BY Layout
<1>2. v = a + p BY DEF TablePage
<1>3. Rec * N = a /\ (Rec + 1) * N = a + N BY <1>1
<1> HIDE DEF a
<1>4. p \in Nat /\ p < N /\ v \in Nat /\ v \in Page BY <1>1, <1>2 DEF Page
<1>5. (Rec =< v \div N <=> a =< v) /\ (Rec + 1 =< v \div N <=> a + N =< v) BY <1>1, <1>3, <1>4, Quotient
<1>6. v \div N \in Nat /\ v % N \in 0 .. N - 1 /\ v = N * (v \div N) + (v % N) BY <1>1, <1>4, DivMod
<1>7. v \div N = Rec BY <1>1, <1>2, <1>4, <1>5, <1>6
<1>8. N * (v \div N) = a BY <1>1, <1>3, <1>7
<1>9. v % N = p BY <1>1, <1>2, <1>4, <1>6, <1>8
<1> QED BY <1>4, <1>7, <1>9 DEF Table, Index

\* Where user and kernel pages have their tables.
LEMMA Regions ==
  /\ \A v \in UserPage : v \in Page /\ Table(v) < FirstKernel
  /\ \A v \in KernelPage : v \in Page /\ FirstKernel =< Table(v) /\ Table(v) # Rec
  /\ KernelHeap \subseteq KernelPage /\ Framebuffer \in KernelPage \ KernelHeap
  /\ UserPage \cap KernelPage = {}
<1> DEFINE a == FirstKernel * N
           b == Rec * N
           c == N * N
<1>0. N \in Nat \ {0} /\ FirstKernel \in Nat /\ Rec \in Nat BY Layout
<1>1. \A v \in Nat : (FirstKernel =< Table(v) <=> a =< v) /\ (Rec =< Table(v) <=> b =< v) /\ Table(v) \in Nat
  BY <1>0, Quotient DEF Table
<1>2. a \in Nat /\ b \in Nat /\ c \in Nat /\ b + N =< c /\ a =< b BY Layout
<1>3. /\ HeapEnd \in Nat /\ a =< HeapEnd /\ HeapEnd < b
      /\ Framebuffer \in Nat /\ HeapEnd =< Framebuffer /\ Framebuffer < b
      /\ FirstUser \in Nat /\ LastUser \in Nat /\ LastUser < a
  BY Layout
<1>4. Page = 0 .. c - 1 /\ KernelPage = {v \in a .. c - 1 : Table(v) # Rec} /\ KernelHeap = a .. HeapEnd - 1
  BY DEF Page, KernelPage, KernelHeap
<1> HIDE DEF a, b, c, Table
<1>5. ASSUME NEW v \in UserPage PROVE v \in Page /\ Table(v) < FirstKernel
  <2>1. v \in Nat /\ v < a BY <1>2, <1>3 DEF UserPage
  <2>2. v < c BY <1>0, <1>2, <2>1
  <2> QED BY <1>0, <1>1, <1>2, <1>4, <2>1, <2>2
<1>6. \A v \in KernelPage : v \in Page /\ FirstKernel =< Table(v) /\ Table(v) # Rec BY <1>1, <1>2, <1>4
<1>7. ASSUME NEW v \in a .. b - 1 PROVE v \in KernelPage
  <2>1. v \in Nat /\ a =< v /\ ~ b =< v /\ v < c BY <1>0, <1>2
  <2>2. Table(v) # Rec BY <1>0, <1>1, <2>1
  <2> QED BY <1>2, <1>4, <2>1, <2>2
<1>8. KernelHeap \subseteq KernelPage /\ Framebuffer \in KernelPage \ KernelHeap
  BY <1>2, <1>3, <1>4, <1>7
<1>9. UserPage \cap KernelPage = {} BY <1>0, <1>1, <1>5, <1>6, <1>2, <1>4
<1> QED BY <1>5, <1>6, <1>8, <1>9

\* An entry of a directory, and of a table in frame x.
Dir(m, s, p) == m.dir[s][p]
Ent(m, x, i) == m.tab[x][i]

\* The frame of each use.
LEMMA FrameOfTable ==
  ASSUME NEW m, NEW s, NEW p
  PROVE  FrameOf(m, <<"table", s, p>>) = Dir(m, s, p)
BY DEF FrameOf, Dir

\* The same for a page.
LEMMA FrameOfPage ==
  ASSUME NEW m, NEW s, NEW v
  PROVE  FrameOf(m, <<"page", s, v>>) = Walk(m, s, v)
BY DEF FrameOf

\* The walk of the tables.
LEMMA WalkMeans ==
  ASSUME NEW m, NEW s, NEW v
  PROVE  Walk(m, s, v) = IF Dir(m, s, Table(v)) = None THEN None ELSE Ent(m, Dir(m, s, Table(v)), Index(v))
BY DEF Walk, Dir, Ent

\* What the type says of the parts of memory.
LEMMA FrameType == Frame \subseteq Nat /\ None \notin Frame \cup {Device} /\ Device \notin Frame
BY VmmAssumption DEF Frame, None

\* An entry of a directory is a frame or none.
LEMMA DirType ==
  ASSUME NEW m, MemType(m), NEW s \in 0 .. MaxSpace, NEW p \in 0 .. N - 1
  PROVE  Dir(m, s, p) \in Frame \cup {None}
<1>1. m.dir \in [0 .. MaxSpace -> [0 .. N - 1 -> Frame \cup {None}]] BY DEF MemType
<1>2. m.dir[s] \in [0 .. N - 1 -> Frame \cup {None}] BY <1>1
<1> QED BY <1>2 DEF Dir

\* An entry of a table is a frame or none, or the framebuffer.
LEMMA EntType ==
  ASSUME NEW m, MemType(m), NEW x \in Frame, NEW i \in 0 .. N - 1
  PROVE  Ent(m, x, i) \in Frame \cup {None, Device}
<1>1. m.tab \in [Frame -> [0 .. N - 1 -> Frame \cup {None, Device}]] BY DEF MemType
<1> QED BY <1>1 DEF Ent

\* The other parts of memory.
LEMMA MemParts ==
  ASSUME NEW m, MemType(m)
  PROVE  /\ m.free \subseteq Frame /\ m.cur \in 0 .. MaxSpace
         /\ \A e \in m.tlb : e.page \in Page /\ e.frame \in Frame \cup {Device}
<1>1. m.tlb \in SUBSET [page : Page, frame : Frame \cup {Device}] BY DEF MemType
<1>2. \A e \in m.tlb : e \in [page : Page, frame : Frame \cup {Device}] BY <1>1
<1>3. \A e \in m.tlb : e.page \in Page /\ e.frame \in Frame \cup {Device} BY <1>2
<1> QED BY <1>3 DEF MemType

\* What a walk of the tables finds.
LEMMA WalkType ==
  ASSUME NEW m, MemType(m), NEW s \in 0 .. MaxSpace, NEW v \in Page
  PROVE  Walk(m, s, v) \in Frame \cup {None, Device}
<1>1. Table(v) \in 0 .. N - 1 /\ Index(v) \in 0 .. N - 1 BY PageSplit
<1>2. Dir(m, s, Table(v)) \in Frame \cup {None} BY <1>1, DirType
<1> QED BY <1>1, <1>2, EntType, WalkMeans

\* The kernel's tables and the recursive ones, entry by entry.
LEMMA Tables ==
  ASSUME NEW m, NEW S
  PROVE  TablesPlaced(m, S) <=>
           /\ \A s \in (0 .. MaxSpace) \ S : m.dir[s] = Absent
           /\ \A s \in S, p \in FirstKernel .. N - 1 : p # Rec => Dir(m, s, p) = p - FirstKernel
           /\ Dir(m, 0, Rec) = Rec - FirstKernel
           /\ \A s \in S \ {0} : \E v \in KernelHeap : Dir(m, s, Rec) = Walk(m, 0, v) /\ Walk(m, 0, v) # None
           /\ \A s, t \in S : Dir(m, s, Rec) = Dir(m, t, Rec) => s = t
           /\ \A s \in S, p \in 0 .. N - 1 : Ent(m, Dir(m, s, Rec), p) = Dir(m, s, p)
BY DEF TablesPlaced, Dir, Ent

-----------------------------------------------------------------------------
\* What a state of memory is in the lemmas below.
Memory(m, S, taken) == S \subseteq 0 .. MaxSpace /\ 0 \in S /\ MemOK(m, S, taken)

\* The conjuncts of MemOK, for citing.
LEMMA MemoryParts ==
  ASSUME NEW m, NEW S, NEW taken, Memory(m, S, taken)
  PROVE  /\ S \subseteq 0 .. MaxSpace /\ 0 \in S
         /\ MemType(m) /\ m.cur \in S
         /\ FramesPlaced(m, S, taken) /\ TablesPlaced(m, S) /\ DeviceOnly(m)
         /\ \A e \in m.tlb : Walk(m, m.cur, e.page) = e.frame
BY DEF Memory, MemOK

\* The kernel's tables are where init put them, in every space.
LEMMA KernelTable ==
  ASSUME NEW m, NEW S, NEW taken, Memory(m, S, taken), NEW s \in S, NEW p \in 0 .. N - 1,
         FirstKernel =< p, p # Rec
  PROVE  Dir(m, s, p) = p - FirstKernel
<1>1. p \in FirstKernel .. N - 1 BY Layout
<1> QED BY <1>1, MemoryParts, Tables

\* A space that is not created maps nothing.
LEMMA Unborn ==
  ASSUME NEW m, NEW S, NEW taken, Memory(m, S, taken), NEW s \in (0 .. MaxSpace) \ S, NEW v \in Page
  PROVE  Walk(m, s, v) = None
<1>1. m.dir[s] = Absent BY MemoryParts, Tables
<1>2. Dir(m, s, Table(v)) = None BY <1>1, PageSplit DEF Absent, Dir
<1> QED BY <1>2, WalkMeans

\* A table of user pages is a use.
LEMMA UserTableUse ==
  ASSUME NEW S, NEW s \in S, NEW p \in 0 .. FirstKernel - 1
  PROVE  <<"table", s, p>> \in Uses(S)
BY DEF Uses

\* The use of the frame of a table.
UseFor(t, q) == IF q < FirstKernel THEN {<<"table", t, q>>}
                ELSE IF q # Rec \/ t = 0 THEN {<<"table", 0, q>>}
                ELSE {<<"page", 0, v>> : v \in KernelHeap}

\* A table in a directory is one of the uses of frames.
LEMMA TableUse ==
  ASSUME NEW m, NEW S, NEW taken, Memory(m, S, taken), NEW t \in S, NEW q \in 0 .. N - 1
  PROVE  \E u \in UseFor(t, q) : u \in Uses(S) /\ FrameOf(m, u) = Dir(m, t, q)
<1>1. CASE q < FirstKernel
  <2>1. <<"table", t, q>> \in Uses(S) BY <1>1, Layout DEF Uses
  <2>2. UseFor(t, q) = {<<"table", t, q>>} BY <1>1 DEF UseFor
  <2> QED BY <2>1, <2>2, FrameOfTable
<1>2. CASE q >= FirstKernel /\ (q # Rec \/ t = 0)
  <2>1. <<"table", 0, q>> \in Uses(S) BY <1>2, Layout DEF Uses
  <2>2. Dir(m, 0, q) = Dir(m, t, q)
    <3>1. CASE t = 0 BY <3>1
    <3>2. CASE q # Rec BY <1>2, <3>2, KernelTable, MemoryParts
    <3> QED BY <1>2, <3>1, <3>2
  <2>3. FrameOf(m, <<"table", 0, q>>) = Dir(m, 0, q) BY FrameOfTable
  <2>4. UseFor(t, q) = {<<"table", 0, q>>} BY <1>2, Layout DEF UseFor
  <2> QED BY <2>1, <2>2, <2>3, <2>4
<1>3. CASE q = Rec /\ t # 0
  <2>1. PICK v \in KernelHeap : Dir(m, t, q) = Walk(m, 0, v) BY <1>3, MemoryParts, Tables
  <2>2. <<"page", 0, v>> \in Uses(S) BY DEF Uses
  <2>3. FrameOf(m, <<"page", 0, v>>) = Walk(m, 0, v) BY FrameOfPage
  <2>4. UseFor(t, q) = {<<"page", 0, w>> : w \in KernelHeap} BY <1>3, Layout DEF UseFor
  <2> QED BY <2>1, <2>2, <2>3, <2>4
<1> QED BY <1>1, <1>2, <1>3, Layout

\* A table in use is not free, and no two uses of tables share a frame, but
\* for the kernel's tables, which all spaces have.
LEMMA TableInUse ==
  ASSUME NEW m, NEW S, NEW taken, Memory(m, S, taken), NEW s \in S, NEW p \in 0 .. N - 1, Dir(m, s, p) # None
  PROVE  Dir(m, s, p) \in Frame /\ Dir(m, s, p) \notin m.free \cup taken
<1>1. FramesPlaced(m, S, taken) BY MemoryParts
<1>2. Dir(m, s, p) \in Frame BY MemoryParts, DirType
<1>3. PICK u \in UseFor(s, p) : u \in Uses(S) /\ FrameOf(m, u) = Dir(m, s, p) BY TableUse
<1> QED BY <1>1, <1>2, <1>3 DEF FramesPlaced

\* Tables in the same frame are the same table.
LEMMA TablesApart ==
  ASSUME NEW m, NEW S, NEW taken, Memory(m, S, taken),
         NEW s \in S, NEW p \in 0 .. N - 1, Dir(m, s, p) # None,
         NEW t \in S, NEW q \in 0 .. N - 1, Dir(m, s, p) = Dir(m, t, q)
  PROVE  p = q /\ (s = t \/ (FirstKernel =< p /\ p # Rec))
<1>1. FramesPlaced(m, S, taken) BY MemoryParts
<1>2. PICK u \in UseFor(s, p) : u \in Uses(S) /\ FrameOf(m, u) = Dir(m, s, p) BY TableUse
<1>3. PICK w \in UseFor(t, q) : w \in Uses(S) /\ FrameOf(m, w) = Dir(m, t, q) BY TableUse
<1>4. u = w BY <1>1, <1>2, <1>3 DEF FramesPlaced
<1>5. p = q /\ (s = t \/ FirstKernel =< p) BY <1>2, <1>3, <1>4, Layout DEF UseFor
<1>6. p = Rec => s = t BY <1>5, MemoryParts, Tables
<1> QED BY <1>5, <1>6

\* A space's tables as the recursive mapping shows them.
LEMMA RecTable ==
  ASSUME NEW m, NEW S, NEW taken, Memory(m, S, taken), NEW s \in S
  PROVE  Dir(m, s, Rec) \in Frame /\ Rec \in 0 .. N - 1
<1>1. Rec \in 0 .. N - 1 BY Layout
<1>2. Dir(m, s, Rec) # None
  <2>1. CASE s = 0
    <3>1. Dir(m, 0, Rec) = Rec - FirstKernel BY MemoryParts, Tables
    <3> QED BY <2>1, <3>1, Layout DEF None
  <2>2. CASE s # 0 BY <2>2, MemoryParts, Tables
  <2> QED BY <2>1, <2>2
<1> QED BY <1>1, <1>2, TableInUse

\* The recursive mapping shows the tables of its directory.
LEMMA RecWalk ==
  ASSUME NEW m, NEW S, NEW taken, Memory(m, S, taken), NEW s \in S, NEW p \in 0 .. N - 1
  PROVE  Ent(m, Dir(m, s, Rec), p) = Dir(m, s, p) /\ Walk(m, s, TablePage(p)) = Dir(m, s, p)
<1>1. Dir(m, s, Rec) # None BY RecTable, FrameType
<1>2. Ent(m, Dir(m, s, Rec), p) = Dir(m, s, p) BY MemoryParts, Tables
<1>3. Table(TablePage(p)) = Rec /\ Index(TablePage(p)) = p BY TablePageSplit
<1> QED BY <1>1, <1>2, <1>3, WalkMeans

\* The TLB makes no difference.
LEMMA TranslateIsWalk ==
  ASSUME NEW m, NEW S, NEW taken, Memory(m, S, taken), NEW v
  PROVE  Translate(m, v) = Walk(m, m.cur, v)
BY MemoryParts DEF Translate

\* resolve_va finds what the processor finds.
LEMMA ResolveIsWalk ==
  ASSUME NEW m, NEW S, NEW taken, Memory(m, S, taken), NEW v \in Page
  PROVE  resolve_va(m, v) = Walk(m, m.cur, v)
<1>1. m.cur \in S BY MemoryParts
<1>2. Table(v) \in 0 .. N - 1 BY PageSplit
<1>3. Translate(m, TablePage(Table(v))) = Walk(m, m.cur, TablePage(Table(v))) BY TranslateIsWalk
<1>4. Walk(m, m.cur, TablePage(Table(v))) = Dir(m, m.cur, Table(v)) BY <1>1, <1>2, RecWalk
<1>5. resolve_va(m, v) = IF Dir(m, m.cur, Table(v)) = None THEN None
                         ELSE Ent(m, Translate(m, TablePage(Table(v))), Index(v))
  BY DEF resolve_va, Dir, Ent
<1> QED BY <1>3, <1>4, <1>5, WalkMeans

\* A frame that was free or taken gets a use.
LEMMA Placed ==
  ASSUME NEW m, NEW n, NEW S, NEW taken, NEW left, NEW use \in Uses(S), NEW f \in Frame,
         FramesPlaced(m, S, taken), FrameOf(m, use) = None,
         \A u \in Uses(S) : FrameOf(n, u) = IF u = use THEN f ELSE FrameOf(m, u),
         f \notin n.free \cup left, n.free \cup left \cup {f} = m.free \cup taken,
         left \subseteq Frame, left \cap n.free = {}
  PROVE  FramesPlaced(n, S, left)
<1>1. \A u \in Uses(S) : FrameOf(m, u) # f BY DEF FramesPlaced
<1>2. ASSUME NEW u \in Uses(S), NEW w \in Uses(S), FrameOf(n, u) # None, FrameOf(n, u) = FrameOf(n, w)
      PROVE  u = w
  BY <1>1, <1>2 DEF FramesPlaced
<1>3. \A u \in Uses(S) : FrameOf(n, u) \in Frame \cup {None} BY DEF FramesPlaced
<1>4. None \notin Frame BY Layout DEF Frame, None
<1>5. {FrameOf(n, u) : u \in Uses(S)} \cup {None} = {FrameOf(m, u) : u \in Uses(S)} \cup {f, None}
  OBVIOUS
<1>6. n.free \cup left = Frame \ {FrameOf(n, u) : u \in Uses(S)} BY <1>4, <1>5 DEF FramesPlaced
<1> QED BY <1>2, <1>3, <1>6 DEF FramesPlaced

-----------------------------------------------------------------------------
\* Memory n is m with f written where page v has its entry.
Written(m, n, S, v, f) ==
  /\ \A s \in S, w \in Page :
       Walk(n, s, w) = IF w = v /\ (s = m.cur \/ FirstKernel =< Table(v)) THEN f ELSE Walk(m, s, w)
  /\ \A s \in (0 .. MaxSpace) \ S, w \in Page : Walk(n, s, w) = None
  /\ \A s, p : Dir(n, s, p) = Dir(m, s, p)
  /\ \A s \in S, p \in 0 .. N - 1 : Ent(n, Dir(m, s, Rec), p) = Ent(m, Dir(m, s, Rec), p)

\* Writing an entry of a table changes the walks of that page, in the current
\* space or, for a kernel table, in all of them.
LEMMA WriteEntry ==
  ASSUME NEW m, NEW S, NEW taken, Memory(m, S, taken),
         NEW v \in Page, Table(v) # Rec, NEW x \in Frame, x = Dir(m, m.cur, Table(v)), NEW f, NEW n,
         n.dir = m.dir, n.tab = [m.tab EXCEPT ![x][Index(v)] = f]
  PROVE  Written(m, n, S, v, f)
<1> DEFINE p == Table(v)
           j == Index(v)
           c == m.cur
<1>0. p \in 0 .. N - 1 /\ j \in 0 .. N - 1 /\ c \in S /\ x = Dir(m, c, p) /\ p # Rec /\ x # None
  BY PageSplit, MemoryParts, FrameType
<1>1. \A y \in Frame : \A i \in 0 .. N - 1 : Ent(n, y, i) = IF y = x /\ i = j THEN f ELSE Ent(m, y, i)
  <2> DEFINE t == m.tab
             u == n.tab
  <2>1. t \in [Frame -> [0 .. N - 1 -> Frame \cup {None, Device}]] BY MemoryParts DEF MemType
  <2>2. u = [t EXCEPT ![x][j] = f] OBVIOUS
  <2>3. \A y, i : Ent(n, y, i) = u[y][i] /\ Ent(m, y, i) = t[y][i] BY DEF Ent
  <2> HIDE DEF t, u, j
  <2>4. \A y \in Frame : \A i \in 0 .. N - 1 : u[y][i] = IF y = x /\ i = j THEN f ELSE t[y][i]
    BY <1>0, <2>1, <2>2
  <2> QED BY <2>3, <2>4
<1>2. \A s, q : Dir(n, s, q) = Dir(m, s, q) BY DEF Dir
<1> HIDE DEF p, j, c
<1>3. ASSUME NEW s \in S, NEW q \in 0 .. N - 1, Dir(m, s, q) = x
      PROVE  p = q /\ (s = c \/ (FirstKernel =< p /\ p # Rec))
  BY <1>0, <1>3, TablesApart
<1>4. ASSUME NEW s \in S, FirstKernel =< p PROVE Dir(m, s, p) = x BY <1>0, <1>4, KernelTable
<1>5. ASSUME NEW s \in S, NEW w \in Page
      PROVE  Walk(n, s, w) = IF w = v /\ (s = c \/ FirstKernel =< p) THEN f ELSE Walk(m, s, w)
  <2> DEFINE q == Table(w)
             y == Dir(m, s, q)
             i == Index(w)
  <2>1. q \in 0 .. N - 1 /\ i \in 0 .. N - 1 BY PageSplit
  <2>2. Walk(n, s, w) = IF y = None THEN None ELSE Ent(n, y, i) BY <1>2, WalkMeans
  <2>3. Walk(m, s, w) = IF y = None THEN None ELSE Ent(m, y, i) BY WalkMeans
  <2>4. w = v <=> q = p /\ i = j BY PageSplit DEF p, j
  <2>5. y \in Frame \cup {None} BY <2>1, DirType, MemoryParts
  <2>6. s = c /\ q = p => y = x BY <1>0
  <2>7. y = x => p = q /\ (s = c \/ FirstKernel =< p) BY <1>3, <2>1
  <2>8. FirstKernel =< p /\ q = p => y = x BY <1>4
  <2> HIDE DEF y, q, i
  <2>9. CASE w = v /\ (s = c \/ FirstKernel =< p)
    <3>1. y = x /\ i = j BY <2>4, <2>6, <2>8, <2>9
    <3>2. Ent(n, y, i) = f BY <1>1, <2>1, <3>1
    <3> QED BY <1>0, <2>2, <2>9, <3>1, <3>2
  <2>10. CASE ~ (w = v /\ (s = c \/ FirstKernel =< p))
    <3>1. ~ (y = x /\ i = j) BY <2>4, <2>7, <2>10
    <3>2. y # None => Ent(n, y, i) = Ent(m, y, i) BY <1>1, <2>1, <2>5, <3>1
    <3>3. Walk(n, s, w) = Walk(m, s, w) BY <2>2, <2>3, <3>2
    <3> QED BY <2>10, <3>3
  <2> QED BY <2>9, <2>10
<1>6. ASSUME NEW s \in (0 .. MaxSpace) \ S, NEW w \in Page PROVE Walk(n, s, w) = None
  <2>1. m.dir[s] = Absent BY MemoryParts, Tables
  <2>2. Dir(m, s, Table(w)) = None BY <2>1, PageSplit DEF Absent, Dir
  <2> QED BY <1>2, <2>2, WalkMeans
<1>7. ASSUME NEW s \in S, NEW q \in 0 .. N - 1 PROVE Ent(n, Dir(m, s, Rec), q) = Ent(m, Dir(m, s, Rec), q)
  <2>1. Dir(m, s, Rec) \in Frame /\ Rec \in 0 .. N - 1 BY RecTable
  <2>2. Dir(m, s, Rec) # x BY <1>0, <1>3, <2>1
  <2> QED BY <1>1, <2>1, <2>2
<1> QED BY <1>2, <1>5, <1>6, <1>7 DEF p, c, Written

\* Kernel pages are the same in all spaces.
LEMMA KernelWalk ==
  ASSUME NEW m, NEW S, NEW taken, Memory(m, S, taken), NEW s \in S, NEW v \in KernelPage
  PROVE  Walk(m, s, v) = Walk(m, 0, v)
<1>1. Table(v) \in 0 .. N - 1 /\ FirstKernel =< Table(v) /\ Table(v) # Rec BY Regions, PageSplit
<1>2. 0 \in S BY MemoryParts
<1>3. Dir(m, s, Table(v)) = Table(v) - FirstKernel BY <1>1, KernelTable
<1>4. Dir(m, 0, Table(v)) = Table(v) - FirstKernel BY <1>1, <1>2, KernelTable
<1> QED BY <1>3, <1>4, WalkMeans

\* Memory n has what m has, and pages of V besides, in the current space or,
\* for kernel pages, in all.
Grows(m, n, S, V) ==
  /\ n.cur = m.cur
  /\ \A s \in 0 .. MaxSpace, w \in Page :
       Table(w) # Rec /\ Walk(n, s, w) # Walk(m, s, w) =>
         w \in V /\ s \in S /\ Walk(m, s, w) = None /\ (s = m.cur \/ FirstKernel =< Table(w))

\* SetEntry where there is no entry yet.
LEMMA SetEntryIs ==
  ASSUME NEW m, MemType(m), NEW x \in Frame, NEW v \in Page, Ent(m, x, Index(v)) = None,
         NEW f \in Frame \cup {Device}, NEW n, n = SetEntry(m, x, v, f)
  PROVE  /\ n.dir = m.dir /\ n.tab = [m.tab EXCEPT ![x][Index(v)] = f]
         /\ n.free = m.free /\ n.cur = m.cur /\ n.result = m.result
         /\ n.tlb \subseteq m.tlb
         /\ MemType(n)
<1> DEFINE j == Index(v)
           tab == [m.tab EXCEPT ![x][j] = f]
           tlb == {e \in m.tlb : e.page # v \div page_bytes}
<1>1. m.tab[x][j] = None BY DEF Ent
<1>2. m \in [dir : [0 .. MaxSpace -> [0 .. N - 1 -> Frame \cup {None}]],
             tab : [Frame -> [0 .. N - 1 -> Frame \cup {None, Device}]],
             free : SUBSET Frame,
             tlb : SUBSET [page : Page, frame : Frame \cup {Device}],
             cur : 0 .. MaxSpace,
             result : {"ok", "oom", "no_table", "remap"}]
  BY DEF MemType
<1>3. tab \in [Frame -> [0 .. N - 1 -> Frame \cup {None, Device}]]
  <2>1. j \in 0 .. N - 1 BY PageSplit
  <2> HIDE DEF j
  <2>2. m.tab \in [Frame -> [0 .. N - 1 -> Frame \cup {None, Device}]] BY <1>2
  <2> QED BY <2>1, <2>2
<1>4. n = [[m EXCEPT !.tab[x][j] = f] EXCEPT !.tlb = {e \in [m EXCEPT !.tab[x][j] = f].tlb : e.page # v \div page_bytes}]
  BY <1>1 DEF SetEntry, invalidate
<1> HIDE DEF j
<1>5. [m EXCEPT !.tab[x][j] = f].tlb = m.tlb BY <1>2
<1>6. /\ n.dir = m.dir /\ n.tab = tab /\ n.free = m.free /\ n.cur = m.cur /\ n.result = m.result /\ n.tlb = tlb
      /\ n = [dir |-> m.dir, tab |-> tab, free |-> m.free, tlb |-> tlb, cur |-> m.cur, result |-> m.result]
  BY <1>2, <1>4, <1>5
<1>7. tlb \in SUBSET [page : Page, frame : Frame \cup {Device}] BY <1>2
<1> HIDE DEF tab, tlb
<1>8. MemType(n) BY <1>2, <1>3, <1>6, <1>7 DEF MemType
<1> QED BY <1>6, <1>8 DEF tab, tlb, j

\* The pages that are mapped, and with what: a frame that was taken, or the
\* framebuffer.
Maps(v, f, taken, left) ==
  \/ v \in UserPage \cup KernelHeap /\ f \in taken /\ left = taken \ {f}
  \/ v = Framebuffer /\ f = Device /\ left = taken

\* A page that is not mapped is given a frame that was taken for it, or the
\* framebuffer: nothing else changes.
LEMMA EntryWritten ==
  ASSUME NEW m, NEW S, NEW taken, Memory(m, S, taken),
         NEW v \in Page, NEW x \in Frame, x = Dir(m, m.cur, Table(v)), Walk(m, m.cur, v) = None,
         NEW f, NEW left, Maps(v, f, taken, left),
         NEW n, n = SetEntry(m, x, v, f)
  PROVE  Memory(n, S, left) /\ Grows(m, n, S, {v}) /\ n.result = m.result
<1>m. \/ v \in UserPage \cup KernelHeap /\ f \in taken /\ left = taken \ {f}
      \/ v = Framebuffer /\ f = Device /\ left = taken
  BY DEF Maps
<1>0. Table(v) # Rec /\ (v \in UserPage \/ v \in KernelPage)
  <2>1. v \in UserPage \/ v \in KernelPage BY <1>m, Regions
  <2>2. v \in UserPage => Table(v) < FirstKernel BY Regions
  <2>3. v \in KernelPage => Table(v) # Rec BY Regions
  <2>4. Table(v) < FirstKernel => Table(v) # Rec BY PageSplit, Layout
  <2> QED BY <2>1, <2>2, <2>3, <2>4
<1>1. taken \subseteq Frame BY MemoryParts DEF FramesPlaced
<1>2. f \in Frame \cup {Device} BY <1>m, <1>1
<1>3. Ent(m, x, Index(v)) = None BY WalkMeans, FrameType
<1>4. MemType(m) /\ m.cur \in S /\ S \subseteq 0 .. MaxSpace /\ 0 \in S BY MemoryParts
<1>5. /\ n.dir = m.dir /\ n.tab = [m.tab EXCEPT ![x][Index(v)] = f]
      /\ n.free = m.free /\ n.cur = m.cur /\ n.result = m.result
      /\ n.tlb \subseteq m.tlb /\ MemType(n)
  BY <1>2, <1>3, <1>4, SetEntryIs
<1>6. /\ \A s \in S, w \in Page :
           Walk(n, s, w) = IF w = v /\ (s = m.cur \/ FirstKernel =< Table(v)) THEN f ELSE Walk(m, s, w)
      /\ \A s \in (0 .. MaxSpace) \ S, w \in Page : Walk(n, s, w) = None
      /\ \A s, p : Dir(n, s, p) = Dir(m, s, p)
      /\ \A s \in S, p \in 0 .. N - 1 : Ent(n, Dir(m, s, Rec), p) = Ent(m, Dir(m, s, Rec), p)
  <2>1. Written(m, n, S, v, f) BY <1>0, <1>5, WriteEntry
  <2> QED BY <2>1, Zenon DEF Written
<1>7. \A s \in S : FirstKernel =< Table(v) => Walk(m, s, v) = None
  <2>1. v \in UserPage => Table(v) < FirstKernel BY Regions
  <2>2. FirstKernel =< Table(v) => v \in KernelPage BY <1>0, <2>1, PageSplit, Layout
  <2> QED BY <1>4, <2>2, KernelWalk
<1>8. FramesPlaced(n, S, left)
  <2>1. ASSUME NEW s, NEW p PROVE FrameOf(n, <<"table", s, p>>) = FrameOf(m, <<"table", s, p>>)
    <3>1. Dir(n, s, p) = Dir(m, s, p) BY <1>6
    <3> QED BY <3>1, FrameOfTable, Zenon
  <2>2. CASE v \in UserPage /\ f \in taken /\ left = taken \ {f}
    <3> DEFINE use == <<"page", m.cur, v>>
    <3>1. use \in Uses(S) BY <1>4, <2>2 DEF Uses
    <3>2. FrameOf(m, use) = None BY FrameOfPage
    <3>3. ASSUME NEW u \in Uses(S) PROVE FrameOf(n, u) = IF u = use THEN f ELSE FrameOf(m, u)
      <4>1. CASE u \in {<<"table", s, p>> : s \in S, p \in 0 .. FirstKernel - 1}
                        \cup {<<"table", 0, p>> : p \in FirstKernel .. N - 1}
        BY <1>4, <2>1, <4>1
      <4>2. ASSUME NEW s \in S, NEW w \in UserPage, u = <<"page", s, w>> PROVE FrameOf(n, u) = IF u = use THEN f ELSE FrameOf(m, u)
        <5>1. w \in Page /\ Table(v) < FirstKernel BY <2>2, Regions
        <5>2. Walk(n, s, w) = IF w = v /\ s = m.cur THEN f ELSE Walk(m, s, w) BY <1>6, <5>1, Layout, PageSplit
        <5>3. u = use <=> w = v /\ s = m.cur BY <4>2
        <5> QED BY <4>2, <5>2, <5>3, FrameOfPage
      <4>3. ASSUME NEW w \in KernelHeap, u = <<"page", 0, w>> PROVE FrameOf(n, u) = IF u = use THEN f ELSE FrameOf(m, u)
        <5>1. w \in Page /\ w # v BY <2>2, Regions
        <5>2. Walk(n, 0, w) = Walk(m, 0, w) BY <1>4, <1>6, <5>1
        <5>3. u # use BY <4>3, <5>1
        <5> QED BY <4>3, <5>2, <5>3, FrameOfPage
      <4> QED BY <4>1, <4>2, <4>3 DEF Uses
    <3> HIDE DEF use
    <3>4. f \in Frame /\ f \notin m.free /\ taken \cap m.free = {} BY <1>1, <2>2, MemoryParts DEF FramesPlaced
    <3> QED BY <1>1, <1>5, <2>2, <3>1, <3>2, <3>3, <3>4, Placed, MemoryParts
  <2>3. CASE v \in KernelHeap /\ f \in taken /\ left = taken \ {f}
    <3> DEFINE use == <<"page", 0, v>>
    <3>0. v \in KernelPage /\ FirstKernel =< Table(v) BY <2>3, Regions
    <3>1. use \in Uses(S) BY <2>3 DEF Uses
    <3>2. FrameOf(m, use) = None BY <1>4, <1>7, <3>0, FrameOfPage
    <3>3. ASSUME NEW u \in Uses(S) PROVE FrameOf(n, u) = IF u = use THEN f ELSE FrameOf(m, u)
      <4>1. CASE u \in {<<"table", s, p>> : s \in S, p \in 0 .. FirstKernel - 1}
                        \cup {<<"table", 0, p>> : p \in FirstKernel .. N - 1}
        BY <1>4, <2>1, <4>1
      <4>2. ASSUME NEW s \in S, NEW w \in UserPage, u = <<"page", s, w>> PROVE FrameOf(n, u) = IF u = use THEN f ELSE FrameOf(m, u)
        <5>1. w \in Page /\ w # v BY <3>0, Regions
        <5>2. Walk(n, s, w) = Walk(m, s, w) BY <1>6, <5>1
        <5>3. u # use BY <4>2, <5>1
        <5> QED BY <4>2, <5>2, <5>3, FrameOfPage
      <4>3. ASSUME NEW w \in KernelHeap, u = <<"page", 0, w>> PROVE FrameOf(n, u) = IF u = use THEN f ELSE FrameOf(m, u)
        <5>1. w \in Page BY Regions
        <5>2. Walk(n, 0, w) = IF w = v THEN f ELSE Walk(m, 0, w) BY <1>4, <1>6, <3>0, <5>1
        <5>3. u = use <=> w = v BY <4>3
        <5> QED BY <4>3, <5>2, <5>3, FrameOfPage
      <4> QED BY <4>1, <4>2, <4>3 DEF Uses
    <3> HIDE DEF use
    <3>4. f \in Frame /\ f \notin m.free /\ taken \cap m.free = {} BY <1>1, <2>3, MemoryParts DEF FramesPlaced
    <3> QED BY <1>1, <1>5, <2>3, <3>1, <3>2, <3>3, <3>4, Placed, MemoryParts
  <2>4. CASE v = Framebuffer /\ left = taken
    <3>0. v \in KernelPage \ KernelHeap BY <2>4, Regions
    <3>1. ASSUME NEW u \in Uses(S) PROVE FrameOf(n, u) = FrameOf(m, u)
      <4>1. CASE u \in {<<"table", s, p>> : s \in S, p \in 0 .. FirstKernel - 1}
                        \cup {<<"table", 0, p>> : p \in FirstKernel .. N - 1}
        BY <1>4, <2>1, <4>1
      <4>2. ASSUME NEW s \in S, NEW w \in UserPage \cup KernelHeap, u = <<"page", s, w>> PROVE FrameOf(n, u) = FrameOf(m, u)
        <5>1. w \in Page /\ w # v BY <3>0, Regions
        <5>2. Walk(n, s, w) = Walk(m, s, w) BY <1>6, <5>1
        <5> QED BY <4>2, <5>2, FrameOfPage
      <4> QED BY <1>4, <4>1, <4>2 DEF Uses
    <3>2. {FrameOf(n, u) : u \in Uses(S)} = {FrameOf(m, u) : u \in Uses(S)} BY <3>1
    <3> QED BY <1>5, <2>4, <3>1, <3>2, MemoryParts DEF FramesPlaced
  <2> QED BY <1>m, <2>2, <2>3, <2>4
<1>9. TablesPlaced(n, S)
  <2>1. ASSUME NEW w \in KernelHeap, Walk(m, 0, w) # None PROVE Walk(n, 0, w) = Walk(m, 0, w)
    <3>1. w \in Page BY Regions
    <3>2. w = v => ~ FirstKernel =< Table(v) /\ v \in KernelHeap BY <1>4, <1>7, <2>1
    <3>3. w # v BY <3>2, Regions
    <3> QED BY <1>4, <1>6, <3>1, <3>3
  <2> QED BY <1>5, <1>6, <2>1, MemoryParts, Tables
<1>10. DeviceOnly(n)
  <2>1. SUFFICES ASSUME NEW w \in KernelPage \ KernelHeap
                 PROVE  Walk(n, 0, w) \in {None} \cup IF w = Framebuffer THEN {Device} ELSE {}
    BY DEF DeviceOnly
  <2>2. Walk(m, 0, w) \in {None} \cup IF w = Framebuffer THEN {Device} ELSE {} BY MemoryParts DEF DeviceOnly
  <2>3. w \in Page BY Regions
  <2>4. w = v => v = Framebuffer /\ f = Device BY <1>m, Regions
  <2> QED BY <1>4, <1>6, <2>2, <2>3, <2>4
<1>11. ASSUME NEW e \in n.tlb PROVE Walk(n, n.cur, e.page) = e.frame
  <2>1. e \in m.tlb /\ Walk(m, m.cur, e.page) = e.frame /\ e.page \in Page /\ e.frame # None
    BY <1>4, <1>5, MemoryParts, MemParts, FrameType
  <2>2. e.page = v => ~ m.cur \in S \/ Walk(m, m.cur, v) = None OBVIOUS
  <2>3. e.page # v BY <2>1, <2>2
  <2>4. Walk(n, m.cur, e.page) = Walk(m, m.cur, e.page) BY <1>4, <1>6, <2>1, <2>3
  <2> QED BY <1>5, <2>1, <2>4
<1>12. Memory(n, S, left) BY <1>4, <1>5, <1>8, <1>9, <1>10, <1>11 DEF Memory, MemOK
<1>13. Grows(m, n, S, {v})
  <2>1. SUFFICES ASSUME NEW s \in 0 .. MaxSpace, NEW w \in Page, Table(w) # Rec, Walk(n, s, w) # Walk(m, s, w)
                 PROVE  w \in {v} /\ s \in S /\ Walk(m, s, w) = None /\ (s = m.cur \/ FirstKernel =< Table(w))
    BY <1>5 DEF Grows
  <2>2. s \in S BY <1>6, <2>1, Unborn
  <2>3. w = v /\ (s = m.cur \/ FirstKernel =< Table(v)) BY <1>6, <2>1, <2>2
  <2> QED BY <1>7, <2>2, <2>3
<1> QED BY <1>5, <1>12, <1>13

-----------------------------------------------------------------------------
\* The run of free frames that is found.
LEMMA FirstRunIs ==
  ASSUME NEW free, free \subseteq Nat, NEW count \in Nat
  PROVE  \/ FirstRun(free, count) = None
         \/ FirstRun(free, count) \in free /\ Run(FirstRun(free, count), count) \subseteq free
<1> DEFINE fits == {n \in free : Run(n, count) \subseteq free}
<1>1. CASE fits = {} BY <1>1 DEF FirstRun
<1>2. CASE fits # {}
  <2>1. \E n \in fits : \A k \in fits : n =< k BY <1>2, Least
  <2>2. FirstRun(free, count) = CHOOSE n \in fits : \A k \in fits : n =< k BY <1>2 DEF FirstRun
  <2>3. FirstRun(free, count) \in fits BY <2>1, <2>2
  <2> QED BY <2>3
<1> QED BY <1>1, <1>2

\* One free frame is always found.
LEMMA FirstFrame ==
  ASSUME NEW free, free \subseteq Nat, free # {}
  PROVE  FirstRun(free, 1) \in free
<1> DEFINE fits == {n \in free : Run(n, 1) \subseteq free}
<1>1. \A n \in free : Run(n, 1) = {n} BY DEF Run
<1>2. fits = free BY <1>1
<1>3. \E n \in fits : \A k \in fits : n =< k
  <2>1. \E n \in free : \A k \in free : n =< k BY Least
  <2> QED BY <1>2, <2>1
<1>4. FirstRun(free, 1) = CHOOSE n \in fits : \A k \in fits : n =< k BY <1>2 DEF FirstRun
<1>5. FirstRun(free, 1) \in fits BY <1>3, <1>4
<1> QED BY <1>5

\* Memory n is m with a table for p in frame f.
TableAdded(m, n, p, f) ==
  /\ n.dir = [m.dir EXCEPT ![m.cur][p] = f]
  /\ n.tab = [[m.tab EXCEPT ![Dir(m, m.cur, Rec)][p] = f] EXCEPT ![f] = Absent]
  /\ n.free = m.free \ {f} /\ n.tlb = {} /\ n.cur = m.cur /\ n.result = m.result
  /\ MemType(n)

\* What a new table changes in memory: its frame, the entries that say where
\* it is in the directory and in the recursive table, and the TLB.
LEMMA NewTableIs ==
  ASSUME NEW m, NEW S, NEW taken, Memory(m, S, taken), m.free # {},
         NEW p \in 0 .. N - 1, Dir(m, m.cur, p) = None, p # Rec,
         NEW n, n = NewTable(m, p)
  PROVE  \E f \in m.free : TableAdded(m, n, p, f)
<1> DEFINE f == FirstRun(m.free, 1)
           x == Dir(m, m.cur, Rec)
           m0 == [m EXCEPT !.free = @ \ {f}]
           m1 == SetEntry(m0, x, TablePage(p), f)
<1>1. MemType(m) /\ m.cur \in S /\ m.cur \in 0 .. MaxSpace /\ m.free \subseteq Frame BY MemoryParts, MemParts
<1>2. f \in m.free /\ f \in Frame
  <2>1. m.free \subseteq Nat BY <1>1, FrameType
  <2>2. f \in m.free BY <2>1, FirstFrame
  <2> QED BY <1>1, <2>2
<1>3. x \in Frame /\ Ent(m, x, p) = None /\ Rec \in 0 .. N - 1 BY <1>1, RecTable, RecWalk
<1>4. TablePage(p) \in Page /\ Table(TablePage(p)) = Rec /\ Index(TablePage(p)) = p BY TablePageSplit
<1>5. Translate(m, TablePage(Rec)) = x
  <2>1. Walk(m, m.cur, TablePage(Rec)) = Dir(m, m.cur, Rec) BY <1>1, <1>3, RecWalk
  <2> QED BY <2>1, TranslateIsWalk
<1> HIDE DEF f, x
<1>6. MemType(m0) /\ m0.dir = m.dir /\ m0.tab = m.tab /\ m0.free = m.free \ {f} /\ m0.tlb = m.tlb /\ m0.cur = m.cur /\ m0.result = m.result
  BY <1>1 DEF MemType
<1>7. Ent(m0, x, p) = None BY <1>3, <1>6 DEF Ent
<1> HIDE DEF m0
<1>8. /\ m1.dir = m.dir /\ m1.tab = [m.tab EXCEPT ![x][p] = f]
      /\ m1.free = m.free \ {f} /\ m1.cur = m.cur /\ m1.result = m.result
      /\ m1.tlb \subseteq m.tlb /\ MemType(m1)
  BY <1>2, <1>3, <1>4, <1>6, <1>7, SetEntryIs
<1> HIDE DEF m1
<1>9. Translate(m1, TablePage(p)) = f
  <2>1. Walk(m, m.cur, TablePage(p)) = None BY <1>1, RecWalk
  <2>2. \A e \in m1.tlb : e.page # TablePage(p)
    BY <1>1, <1>8, <2>1, MemoryParts, MemParts, FrameType
  <2>3. Dir(m1, m1.cur, Rec) = x BY <1>8 DEF Dir, x
  <2>4. Ent(m1, x, p) = f
    <3>1. m.tab \in [Frame -> [0 .. N - 1 -> Frame \cup {None, Device}]] BY <1>1 DEF MemType
    <3> QED BY <1>3, <1>8, <3>1 DEF Ent
  <2>5. Walk(m1, m1.cur, TablePage(p)) = f BY <1>3, <1>4, <2>3, <2>4, WalkMeans, FrameType
  <2>6. Translate(m1, TablePage(p)) = Walk(m1, m1.cur, TablePage(p)) BY <2>2 DEF Translate
  <2> QED BY <2>5, <2>6
<1>10. n = [m1 EXCEPT !.tab[f] = Absent, !.dir[m.cur][p] = f, !.tlb = {}]
  <2>1. n = [m1 EXCEPT !.tab[Translate(m1, TablePage(p))] = Absent, !.dir[m.cur][p] = f, !.tlb = {}]
    BY <1>5 DEF NewTable, m1, m0, f
  <2> QED BY <1>9, <2>1
<1> DEFINE dir == [m.dir EXCEPT ![m.cur][p] = f]
           tab == [m1.tab EXCEPT ![f] = Absent]
<1>11. dir \in [0 .. MaxSpace -> [0 .. N - 1 -> Frame \cup {None}]]
  <2>1. m.dir \in [0 .. MaxSpace -> [0 .. N - 1 -> Frame \cup {None}]] BY <1>1 DEF MemType
  <2> QED BY <1>1, <1>2, <2>1
<1>12. tab \in [Frame -> [0 .. N - 1 -> Frame \cup {None, Device}]]
  <2>1. m1.tab \in [Frame -> [0 .. N - 1 -> Frame \cup {None, Device}]] BY <1>8 DEF MemType
  <2>2. Absent \in [0 .. N - 1 -> Frame \cup {None, Device}] BY DEF Absent
  <2> QED BY <1>2, <2>1, <2>2
<1>13. m1 \in [dir : [0 .. MaxSpace -> [0 .. N - 1 -> Frame \cup {None}]],
               tab : [Frame -> [0 .. N - 1 -> Frame \cup {None, Device}]],
               free : SUBSET Frame,
               tlb : SUBSET [page : Page, frame : Frame \cup {Device}],
               cur : 0 .. MaxSpace,
               result : {"ok", "oom", "no_table", "remap"}]
  BY <1>8 DEF MemType
<1>14. n = [dir |-> dir, tab |-> tab, free |-> m1.free, tlb |-> {}, cur |-> m1.cur, result |-> m1.result]
  <2> DEFINE a == [m1 EXCEPT !.tab[f] = Absent]
             b == [a EXCEPT !.dir[m.cur][p] = f]
  <2>1. a = [dir |-> m1.dir, tab |-> tab, free |-> m1.free, tlb |-> m1.tlb, cur |-> m1.cur, result |-> m1.result]
    BY <1>13
  <2>2. n = [b EXCEPT !.tlb = {}] BY <1>10
  <2> HIDE DEF a, tab
  <2>3. a.dir = m.dir BY <1>8, <2>1
  <2>4. b = [dir |-> dir, tab |-> tab, free |-> m1.free, tlb |-> m1.tlb, cur |-> m1.cur, result |-> m1.result]
    BY <2>1, <2>3
  <2> HIDE DEF b, dir
  <2> QED BY <2>2, <2>4
<1> HIDE DEF dir, tab
<1>15. MemType(n) BY <1>11, <1>12, <1>13, <1>14 DEF MemType
<1>16. n.dir = dir /\ n.tab = tab /\ n.free = m1.free /\ n.tlb = {} /\ n.cur = m1.cur /\ n.result = m1.result BY <1>14
<1> QED BY <1>2, <1>8, <1>15, <1>16 DEF dir, tab, x, TableAdded

\* The directories and the tables with the new one.
LEMMA NewTableEntries ==
  ASSUME NEW m, NEW S, NEW taken, Memory(m, S, taken),
         NEW p \in 0 .. N - 1, p # Rec, NEW f \in m.free, NEW n, TableAdded(m, n, p, f)
  PROVE  /\ \A s \in 0 .. MaxSpace : \A q \in 0 .. N - 1 : Dir(n, s, q) = IF s = m.cur /\ q = p THEN f ELSE Dir(m, s, q)
         /\ \A s \in (0 .. MaxSpace) \ {m.cur} : n.dir[s] = m.dir[s]
         /\ \A y \in Frame : \A i \in 0 .. N - 1 :
              Ent(n, y, i) = IF y = f THEN None ELSE IF y = Dir(m, m.cur, Rec) /\ i = p THEN f ELSE Ent(m, y, i)
<1> DEFINE x == Dir(m, m.cur, Rec)
           c == m.cur
           d == m.dir
           e == n.dir
           t == m.tab
           u == n.tab
<1>1. c \in 0 .. MaxSpace /\ x \in Frame /\ f \in Frame
  BY MemoryParts, MemParts, RecTable
<1>2. d \in [0 .. MaxSpace -> [0 .. N - 1 -> Frame \cup {None}]] BY MemoryParts DEF MemType
<1>3. t \in [Frame -> [0 .. N - 1 -> Frame \cup {None, Device}]] BY MemoryParts DEF MemType
<1>4. e = [d EXCEPT ![c][p] = f] /\ u = [[t EXCEPT ![x][p] = f] EXCEPT ![f] = Absent] BY DEF TableAdded
<1>5. \A s, q : Dir(n, s, q) = e[s][q] /\ Dir(m, s, q) = d[s][q] BY DEF Dir
<1>6. \A y, i : Ent(n, y, i) = u[y][i] /\ Ent(m, y, i) = t[y][i] BY DEF Ent
<1>7. \A s \in 0 .. MaxSpace \ {c} : n.dir[s] = e[s] /\ m.dir[s] = d[s] OBVIOUS
<1> HIDE DEF x, c, d, e, t, u
<1>8. \A s \in 0 .. MaxSpace : \A q \in 0 .. N - 1 : e[s][q] = IF s = c /\ q = p THEN f ELSE d[s][q]
  BY <1>1, <1>2, <1>4
<1>9. \A s \in (0 .. MaxSpace) \ {c} : e[s] = d[s] BY <1>2, <1>4
<1> DEFINE a == [t EXCEPT ![x][p] = f]
<1>10. a \in [Frame -> [0 .. N - 1 -> Frame \cup {None, Device}]] BY <1>1, <1>3
<1>11. \A y \in Frame : \A i \in 0 .. N - 1 : a[y][i] = IF y = x /\ i = p THEN f ELSE t[y][i]
  BY <1>1, <1>3
<1>12. u = [a EXCEPT ![f] = Absent] BY <1>4
<1> HIDE DEF a
<1>13. \A y \in Frame : u[y] = IF y = f THEN Absent ELSE a[y] BY <1>1, <1>10, <1>12
<1>14. \A i \in 0 .. N - 1 : Absent[i] = None BY DEF Absent
<1>15. \A y \in Frame : \A i \in 0 .. N - 1 : u[y][i] = IF y = f THEN None ELSE IF y = x /\ i = p THEN f ELSE t[y][i]
  BY <1>11, <1>13, <1>14
<1>16. \A s \in (0 .. MaxSpace) \ {m.cur} : n.dir[s] = m.dir[s] BY <1>9 DEF c, d, e
<1>17. \A s \in 0 .. MaxSpace : \A q \in 0 .. N - 1 : Dir(n, s, q) = IF s = c /\ q = p THEN f ELSE Dir(m, s, q)
  <2>1. SUFFICES ASSUME NEW s \in 0 .. MaxSpace, NEW q \in 0 .. N - 1
                 PROVE  Dir(n, s, q) = IF s = c /\ q = p THEN f ELSE Dir(m, s, q)
    OBVIOUS
  <2>2. e[s][q] = IF s = c /\ q = p THEN f ELSE d[s][q] BY <1>8
  <2>3. Dir(n, s, q) = e[s][q] /\ Dir(m, s, q) = d[s][q] BY <1>5
  <2> QED BY <2>2, <2>3, Zenon
<1>18. \A y \in Frame : \A i \in 0 .. N - 1 : Ent(n, y, i) = IF y = f THEN None ELSE IF y = x /\ i = p THEN f ELSE Ent(m, y, i)
  <2>1. SUFFICES ASSUME NEW y \in Frame, NEW i \in 0 .. N - 1
                 PROVE  Ent(n, y, i) = IF y = f THEN None ELSE IF y = x /\ i = p THEN f ELSE Ent(m, y, i)
    OBVIOUS
  <2>2. u[y][i] = IF y = f THEN None ELSE IF y = x /\ i = p THEN f ELSE t[y][i] BY <1>15
  <2>3. Ent(n, y, i) = u[y][i] /\ Ent(m, y, i) = t[y][i] BY <1>6
  <2> QED BY <2>2, <2>3, Zenon
<1> QED BY <1>16, <1>17, <1>18, Zenon DEF c, x

\* A new table changes no page but those that show the tables.
LEMMA NewTableGrows ==
  ASSUME NEW m, NEW S, NEW taken, Memory(m, S, taken), m.free # {},
         NEW p \in 0 .. N - 1, p < FirstKernel, Dir(m, m.cur, p) = None,
         NEW n, n = NewTable(m, p)
  PROVE  /\ Memory(n, S, taken) /\ Grows(m, n, S, {}) /\ n.result = m.result
         /\ Dir(n, n.cur, p) # None
<1>0. p # Rec /\ MemType(m) /\ m.cur \in S /\ S \subseteq 0 .. MaxSpace /\ 0 \in S BY MemoryParts, Layout
<1>a. PICK f \in m.free : TableAdded(m, n, p, f) BY <1>0, NewTableIs
<1>1. n.free = m.free \ {f} /\ n.tlb = {} /\ n.cur = m.cur /\ n.result = m.result /\ MemType(n)
  BY <1>a DEF TableAdded
<1>2. f \in Frame /\ f # None /\ m.cur \in 0 .. MaxSpace BY <1>0, MemParts, FrameType
<1> DEFINE x == Dir(m, m.cur, Rec)
<1>3. /\ \A s \in 0 .. MaxSpace : \A q \in 0 .. N - 1 : Dir(n, s, q) = IF s = m.cur /\ q = p THEN f ELSE Dir(m, s, q)
      /\ \A s \in (0 .. MaxSpace) \ {m.cur} : n.dir[s] = m.dir[s]
      /\ \A y \in Frame : \A i \in 0 .. N - 1 :
           Ent(n, y, i) = IF y = f THEN None ELSE IF y = x /\ i = p THEN f ELSE Ent(m, y, i)
  BY <1>0, <1>a, NewTableEntries
<1>4. x \in Frame /\ x # None /\ Rec \in 0 .. N - 1 BY <1>0, RecTable, FrameType
<1> HIDE DEF x
<1>5. ASSUME NEW s \in S, NEW q \in 0 .. N - 1, Dir(m, s, q) # None
      PROVE  Dir(m, s, q) \in Frame /\ Dir(m, s, q) # f /\ (Dir(m, s, q) = x => q = Rec /\ s = m.cur)
  <2>1. Dir(m, s, q) \in Frame /\ Dir(m, s, q) # f BY <1>5, TableInUse
  <2>2. Dir(m, s, q) = x => q = Rec /\ s = m.cur BY <1>0, <1>4, <1>5, TablesApart DEF x
  <2> QED BY <2>1, <2>2
<1>6. ASSUME NEW s \in 0 .. MaxSpace, NEW w \in Page, Table(w) # Rec PROVE Walk(n, s, w) = Walk(m, s, w)
  <2> DEFINE q == Table(w)
             i == Index(w)
  <2>1. q \in 0 .. N - 1 /\ i \in 0 .. N - 1 BY PageSplit
  <2>2. Walk(m, s, w) = IF Dir(m, s, q) = None THEN None ELSE Ent(m, Dir(m, s, q), i) BY WalkMeans
  <2>3. Walk(n, s, w) = IF Dir(n, s, q) = None THEN None ELSE Ent(n, Dir(n, s, q), i) BY WalkMeans
  <2>4. Dir(n, s, q) = IF s = m.cur /\ q = p THEN f ELSE Dir(m, s, q) BY <1>3, <2>1
  <2> HIDE DEF q, i
  <2>5. CASE s = m.cur /\ q = p
    <3>1. Ent(n, f, i) = None BY <1>2, <1>3, <2>1
    <3> QED BY <1>2, <2>2, <2>3, <2>4, <2>5, <3>1
  <2>6. CASE ~ (s = m.cur /\ q = p) /\ Dir(m, s, q) = None BY <2>2, <2>3, <2>4, <2>6
  <2>7. CASE ~ (s = m.cur /\ q = p) /\ Dir(m, s, q) # None
    <3>1. s \in S
      <4>1. SUFFICES ASSUME s \notin S PROVE FALSE OBVIOUS
      <4>2. m.dir[s] = Absent BY <4>1, MemoryParts, Tables
      <4>3. Dir(m, s, q) = None BY <2>1, <4>2 DEF Absent, Dir
      <4> QED BY <2>7, <4>3
    <3>2. Dir(m, s, q) \in Frame /\ Dir(m, s, q) # f /\ Dir(m, s, q) # x BY <1>5, <1>6, <2>1, <2>7, <3>1 DEF q
    <3>3. Ent(n, Dir(m, s, q), i) = Ent(m, Dir(m, s, q), i) BY <1>3, <2>1, <3>2
    <3> QED BY <2>2, <2>3, <2>4, <2>7, <3>3
  <2> QED BY <2>5, <2>6, <2>7
<1>7. FramesPlaced(n, S, taken)
  <2> DEFINE use == <<"table", m.cur, p>>
  <2>1. use \in Uses(S)
    <3>1. p \in 0 .. FirstKernel - 1 BY Layout
    <3>2. m.cur \in S BY <1>0
    <3> QED BY <3>1, <3>2, UserTableUse
  <2>2. FrameOf(m, use) = None BY FrameOfTable
  <2>3. ASSUME NEW u \in Uses(S) PROVE FrameOf(n, u) = IF u = use THEN f ELSE FrameOf(m, u)
    <3>1. ASSUME NEW s \in S, NEW q \in 0 .. N - 1, u = <<"table", s, q>> PROVE FrameOf(n, u) = IF u = use THEN f ELSE FrameOf(m, u)
      <4>1. u = use <=> s = m.cur /\ q = p BY <3>1
      <4>2. Dir(n, s, q) = IF s = m.cur /\ q = p THEN f ELSE Dir(m, s, q) BY <1>0, <1>3
      <4> QED BY <3>1, <4>1, <4>2, FrameOfTable
    <3>2. ASSUME NEW s \in S, NEW w \in UserPage \cup KernelHeap, u = <<"page", s, w>> PROVE FrameOf(n, u) = IF u = use THEN f ELSE FrameOf(m, u)
      <4>1. w \in Page BY Regions
      <4>2. Table(w) # Rec
        <5>1. w \in UserPage => Table(w) < FirstKernel BY Regions
        <5>2. w \in KernelHeap => Table(w) # Rec BY Regions
        <5> QED BY <4>1, <5>1, <5>2, PageSplit, Layout
      <4>3. Walk(n, s, w) = Walk(m, s, w) BY <1>0, <1>6, <4>1, <4>2
      <4>4. u # use BY <3>2
      <4> QED BY <3>2, <4>3, <4>4, FrameOfPage
    <3>3. 0 .. FirstKernel - 1 \subseteq 0 .. N - 1 /\ FirstKernel .. N - 1 \subseteq 0 .. N - 1 BY Layout
    <3> QED BY <1>0, <3>1, <3>2, <3>3 DEF Uses
  <2> HIDE DEF use
  <2>4. FramesPlaced(m, S, taken) BY MemoryParts
  <2>5. f \notin n.free \cup taken /\ n.free \cup taken \cup {f} = m.free \cup taken /\ taken \subseteq Frame /\ taken \cap n.free = {}
    BY <1>1, <2>4 DEF FramesPlaced
  <2> QED BY <1>2, <2>1, <2>2, <2>3, <2>4, <2>5, Placed
<1>8. TablesPlaced(n, S)
  <2>0. TablesPlaced(m, S) BY MemoryParts
  <2>1. \A s \in (0 .. MaxSpace) \ S : n.dir[s] = Absent BY <1>0, <1>3, <2>0, Tables
  <2>2. ASSUME NEW s \in S, NEW q \in FirstKernel .. N - 1 PROVE Dir(n, s, q) = Dir(m, s, q)
    <3>1. q \in 0 .. N - 1 /\ q # p BY Layout
    <3> QED BY <1>0, <1>3, <3>1
  <2>3. Rec \in FirstKernel .. N - 1 BY Layout
  <2>4. ASSUME NEW w \in KernelHeap PROVE Walk(n, 0, w) = Walk(m, 0, w)
    <3>1. w \in Page /\ Table(w) # Rec BY Regions
    <3> QED BY <1>0, <1>6, <3>1
  <2>5. ASSUME NEW s \in S, NEW q \in 0 .. N - 1 PROVE Ent(n, Dir(n, s, Rec), q) = Dir(n, s, q)
    <3>1. Dir(n, s, Rec) = Dir(m, s, Rec) BY <2>2, <2>3
    <3>2. Dir(m, s, Rec) \in Frame /\ Dir(m, s, Rec) # None BY RecTable, FrameType
    <3>3. Dir(m, s, Rec) # f /\ (Dir(m, s, Rec) = x <=> s = m.cur) BY <1>4, <1>5, <3>2 DEF x
    <3>4. Ent(n, Dir(m, s, Rec), q) = IF s = m.cur /\ q = p THEN f ELSE Ent(m, Dir(m, s, Rec), q) BY <1>3, <3>2, <3>3
    <3>5. Dir(n, s, q) = IF s = m.cur /\ q = p THEN f ELSE Dir(m, s, q) BY <1>0, <1>3
    <3>6. Ent(m, Dir(m, s, Rec), q) = Dir(m, s, q) BY RecWalk
    <3> QED BY <3>1, <3>4, <3>5, <3>6
  <2>6. \A s \in S : Dir(n, s, Rec) = Dir(m, s, Rec) BY <2>2, <2>3
  <2>7. \A s \in S \ {0} : \E v \in KernelHeap : Dir(n, s, Rec) = Walk(n, 0, v) /\ Walk(n, 0, v) # None
    BY <2>0, <2>4, <2>6, Tables
  <2>8. \A s \in S, q \in FirstKernel .. N - 1 : q # Rec => Dir(n, s, q) = q - FirstKernel BY <2>0, <2>2, Tables
  <2>9. Dir(n, 0, Rec) = Rec - FirstKernel BY <1>0, <2>0, <2>6, Tables
  <2>10. \A s, t \in S : Dir(n, s, Rec) = Dir(n, t, Rec) => s = t BY <2>0, <2>6, Tables
  <2> QED BY <2>1, <2>5, <2>7, <2>8, <2>9, <2>10, Tables
<1>9. DeviceOnly(n)
  <2>1. ASSUME NEW w \in KernelPage PROVE Walk(n, 0, w) = Walk(m, 0, w)
    <3>1. w \in Page /\ Table(w) # Rec BY Regions
    <3> QED BY <1>0, <1>6, <3>1
  <2> QED BY <2>1, MemoryParts DEF DeviceOnly
<1>10. Memory(n, S, taken) BY <1>0, <1>1, <1>7, <1>8, <1>9 DEF Memory, MemOK
<1>11. Grows(m, n, S, {}) BY <1>1, <1>6 DEF Grows
<1>12. Dir(n, n.cur, p) = f BY <1>1, <1>2, <1>3
<1> QED BY <1>1, <1>2, <1>10, <1>11, <1>12

-----------------------------------------------------------------------------
\* Pages that become mapped step by step.
LEMMA GrowsOn ==
  ASSUME NEW a, NEW b, NEW c, NEW S, NEW V, NEW W, Grows(a, b, S, V), Grows(b, c, S, W)
  PROVE  Grows(a, c, S, V \cup W)
BY DEF Grows

\* Fewer pages became mapped than might have.
LEMMA GrowsMore ==
  ASSUME NEW a, NEW b, NEW S, NEW V, NEW W, Grows(a, b, S, V), V \subseteq W
  PROVE  Grows(a, b, S, W)
BY DEF Grows

\* Frames may be taken, entries of the TLB dropped and the result set.
LEMMA SameTables ==
  ASSUME NEW m, NEW S, NEW taken, Memory(m, S, taken),
         NEW n, MemType(n), n.dir = m.dir, n.tab = m.tab, n.cur = m.cur,
         \A e \in n.tlb : e \in m.tlb,
         NEW left, n.free \cup left = m.free \cup taken, left \subseteq Frame, left \cap n.free = {}
  PROVE  Memory(n, S, left) /\ Grows(m, n, S, {}) /\ \A s, p : Dir(n, s, p) = Dir(m, s, p)
<1>1. \A s, p : Dir(n, s, p) = Dir(m, s, p) BY DEF Dir
<1>2. \A x, i : Ent(n, x, i) = Ent(m, x, i) BY DEF Ent
<1>3. \A s, v : Walk(n, s, v) = Walk(m, s, v) BY DEF Walk
<1>4. \A u : FrameOf(n, u) = FrameOf(m, u) BY <1>3 DEF FrameOf
<1>5. FramesPlaced(n, S, left)
  <2>1. FramesPlaced(m, S, taken) BY MemoryParts
  <2> QED BY <1>4, <2>1 DEF FramesPlaced
<1>6. TablesPlaced(n, S) BY <1>3, MemoryParts DEF TablesPlaced
<1>7. DeviceOnly(n) BY <1>3, MemoryParts DEF DeviceOnly
<1>8. \A e \in n.tlb : Walk(n, n.cur, e.page) = e.frame BY <1>3, MemoryParts
<1>9. Memory(n, S, left) BY <1>5, <1>6, <1>7, <1>8, MemoryParts DEF Memory, MemOK
<1>10. Grows(m, n, S, {}) BY <1>3 DEF Grows
<1> QED BY <1>1, <1>9, <1>10

\* A result, and frames that are taken.
LEMMA Ends ==
  ASSUME NEW m, NEW S, NEW taken, Memory(m, S, taken), NEW r \in {"ok", "oom", "no_table", "remap"},
         NEW n, n = [m EXCEPT !.result = r]
  PROVE  Memory(n, S, taken) /\ Grows(m, n, S, {}) /\ n.result = r /\ n.cur = m.cur
<1>1. MemType(m) /\ FramesPlaced(m, S, taken) BY MemoryParts
<1>2. MemType(n) /\ n.dir = m.dir /\ n.tab = m.tab /\ n.cur = m.cur /\ n.tlb = m.tlb /\ n.free = m.free /\ n.result = r
  BY <1>1 DEF MemType
<1>3. taken \subseteq Frame /\ taken \cap n.free = {} /\ n.free \cup taken = m.free \cup taken BY <1>1, <1>2 DEF FramesPlaced
<1>4. \A e \in n.tlb : e \in m.tlb BY <1>2
<1> QED BY <1>2, <1>3, <1>4, SameTables

\* Frames are taken from the free ones.
LEMMA Takes ==
  ASSUME NEW m, NEW S, NEW taken, Memory(m, S, taken), NEW X, X \subseteq m.free,
         NEW n, n = [m EXCEPT !.free = @ \ X]
  PROVE  Memory(n, S, taken \cup X) /\ Grows(m, n, S, {}) /\ n.result = m.result /\ n.cur = m.cur
<1>1. MemType(m) /\ FramesPlaced(m, S, taken) /\ m.free \subseteq Frame BY MemoryParts, MemParts
<1>2. MemType(n) /\ n.dir = m.dir /\ n.tab = m.tab /\ n.cur = m.cur /\ n.tlb = m.tlb /\ n.free = m.free \ X /\ n.result = m.result
  BY <1>1 DEF MemType
<1>3. n.free \cup (taken \cup X) = m.free \cup taken BY <1>2
<1>4. (taken \cup X) \subseteq Frame /\ (taken \cup X) \cap n.free = {} BY <1>1, <1>2 DEF FramesPlaced
<1>5. \A e \in n.tlb : e \in m.tlb BY <1>2
<1> QED BY <1>2, <1>3, <1>4, <1>5, SameTables

\* A run of frames is taken.
LEMMA TakesRun ==
  ASSUME NEW m, NEW S, Memory(m, S, {}), NEW f, NEW count, Run(f, count) \subseteq m.free,
         NEW n, n = [m EXCEPT !.free = @ \ Run(f, count)]
  PROVE  Memory(n, S, Run(f, count)) /\ Grows(m, n, S, {}) /\ n.result = m.result /\ n.cur = m.cur
<1>1. PICK X : X = Run(f, count) OBVIOUS
<1>2. n = [m EXCEPT !.free = @ \ X] /\ X \subseteq m.free BY <1>1
<1>3. Memory(n, S, {} \cup X) /\ Grows(m, n, S, {}) /\ n.result = m.result /\ n.cur = m.cur BY <1>2, Takes
<1>4. {} \cup X = X OBVIOUS
<1> QED BY <1>1, <1>3, <1>4

\* get_ptab: the table is there, unless no frame was left for it.
LEMMA GetPtabIs ==
  ASSUME NEW m, NEW S, NEW taken, Memory(m, S, taken), m.result = "ok",
         NEW v \in Page, Table(v) # Rec, NEW n, n = get_ptab(m, v)
  PROVE  /\ Memory(n, S, taken) /\ Grows(m, n, S, {}) /\ n.result \in {"ok", "no_table"}
         /\ n.result = "ok" => Dir(n, n.cur, Table(v)) # None
<1> DEFINE p == Table(v)
<1>1. p \in 0 .. N - 1 /\ p # Rec BY PageSplit
<1>2. m.cur \in S BY MemoryParts
<1>3. n = IF p >= FirstKernel \/ Dir(m, m.cur, p) # None THEN m
          ELSE IF m.free = {} THEN [m EXCEPT !.result = "no_table"] ELSE NewTable(m, p)
  BY Zenon DEF get_ptab, Dir
<1> HIDE DEF p
<1>4. CASE p >= FirstKernel
  <2>1. Dir(m, m.cur, p) = p - FirstKernel BY <1>1, <1>2, <1>4, KernelTable
  <2>2. Dir(m, m.cur, p) # None BY <1>1, <1>4, <2>1, Layout DEF None
  <2>3. n = m BY <1>3, <1>4
  <2> QED BY <2>2, <2>3 DEF Grows, p
<1>5. CASE p < FirstKernel /\ Dir(m, m.cur, p) # None
  <2>1. n = m BY <1>3, <1>5
  <2> QED BY <1>5, <2>1 DEF Grows, p
<1>6. CASE p < FirstKernel /\ Dir(m, m.cur, p) = None /\ m.free = {}
  <2>1. n = [m EXCEPT !.result = "no_table"] BY <1>1, <1>3, <1>6, Layout
  <2>2. Memory(n, S, taken) /\ Grows(m, n, S, {}) /\ n.result = "no_table" BY <2>1, Ends
  <2> QED BY <2>2
<1>7. CASE p < FirstKernel /\ Dir(m, m.cur, p) = None /\ m.free # {}
  <2>1. n = NewTable(m, p) BY <1>1, <1>3, <1>7, Layout
  <2>2. Memory(n, S, taken) /\ Grows(m, n, S, {}) /\ n.result = m.result /\ Dir(n, n.cur, p) # None
    BY <1>1, <1>7, <2>1, NewTableGrows
  <2> QED BY <2>2 DEF p
<1> QED BY <1>1, <1>4, <1>5, <1>6, <1>7, Layout

\* map_one: the page is mapped, or no frame was left for its table.
LEMMA MapOneIs ==
  ASSUME NEW m, NEW S, NEW taken, Memory(m, S, taken), m.result = "ok",
         NEW v, NEW f, NEW left, Maps(v, f, taken, left), Walk(m, m.cur, v) = None,
         NEW n, n = map_one(m, v, f)
  PROVE  /\ Grows(m, n, S, {v})
         /\ \/ n.result = "ok" /\ Memory(n, S, left)
            \/ n.result = "no_table" /\ Memory(n, S, taken)
<1> DEFINE b == get_ptab(m, v)
<1>1. v \in Page /\ Table(v) # Rec
  <2>1. v \in UserPage \/ v \in KernelPage BY Regions DEF Maps
  <2>2. v \in UserPage => v \in Page /\ Table(v) < FirstKernel BY Regions
  <2>3. v \in KernelPage => v \in Page /\ Table(v) # Rec BY Regions
  <2>4. v \in Page BY <2>1, <2>2, <2>3
  <2>5. Table(v) < FirstKernel => Table(v) # Rec BY <2>4, PageSplit, Layout
  <2> QED BY <2>1, <2>2, <2>3, <2>4, <2>5
<1>2. n = IF b.result # "ok" THEN b ELSE SetEntry(b, Translate(b, TablePage(Table(v))), v, f) BY DEF map_one
<1>3. /\ Memory(b, S, taken) /\ Grows(m, b, S, {}) /\ b.result \in {"ok", "no_table"}
      /\ b.result = "ok" => Dir(b, b.cur, Table(v)) # None
  BY <1>1, GetPtabIs
<1> HIDE DEF b
<1>4. CASE b.result # "ok" BY <1>2, <1>3, <1>4, GrowsMore
<1>5. CASE b.result = "ok"
  <2> DEFINE x == Dir(b, b.cur, Table(v))
  <2>1. b.cur \in S /\ Table(v) \in 0 .. N - 1 /\ b.cur \in 0 .. MaxSpace BY <1>1, <1>3, PageSplit, MemoryParts
  <2>2. x \in Frame BY <1>3, <1>5, <2>1, TableInUse
  <2>3. Translate(b, TablePage(Table(v))) = x
    <3>1. Translate(b, TablePage(Table(v))) = Walk(b, b.cur, TablePage(Table(v))) BY <1>3, TranslateIsWalk
    <3>2. Walk(b, b.cur, TablePage(Table(v))) = x BY <1>3, <2>1, RecWalk
    <3> QED BY <3>1, <3>2
  <2>4. Walk(b, b.cur, v) = None
    <3>1. Walk(b, b.cur, v) = Walk(m, b.cur, v) /\ b.cur = m.cur BY <1>1, <1>3, <2>1 DEF Grows
    <3> QED BY <3>1
  <2> HIDE DEF x
  <2>5. n = SetEntry(b, x, v, f) BY <1>2, <1>5, <2>3
  <2>6. Memory(n, S, left) /\ Grows(b, n, S, {v}) /\ n.result = b.result
    <3>1. x = Dir(b, b.cur, Table(v)) BY DEF x
    <3> QED BY <1>1, <1>3, <2>2, <2>4, <2>5, <3>1, EntryWritten
  <2>7. Grows(m, n, S, {} \cup {v}) BY <1>3, <2>6, GrowsOn
  <2>8. {} \cup {v} = {v} OBVIOUS
  <2> QED BY <1>5, <2>6, <2>7, <2>8
<1> QED BY <1>4, <1>5

-----------------------------------------------------------------------------
\* What holds at 0 and goes on from each number to the next holds up to n.
LEMMA Reaches ==
  ASSUME NEW n \in Nat, NEW good, good \subseteq 0 .. n, 0 \in good,
         \A k \in 1 .. n : k - 1 \in good => k \in good
  PROVE  good = 0 .. n
<1> DEFINE bad == (0 .. n) \ good
<1>1. SUFFICES ASSUME bad # {} PROVE FALSE OBVIOUS
<1>2. PICK m \in bad : \A k \in bad : m =< k
  <2>1. bad \subseteq Nat OBVIOUS
  <2> HIDE DEF bad
  <2> QED BY <1>1, <2>1, Least
<1>3. m \in 1 .. n /\ m - 1 \in 0 .. n OBVIOUS
<1>4. m - 1 \in good BY <1>2, <1>3
<1> QED BY <1>3, <1>4

\* The memory after each step of map.
MapSteps(after, m, v, f0, count) ==
  /\ after[0] = m /\ map(m, v, f0, count) = after[count]
  /\ \A k \in 1 .. count :
       after[k] = IF after[k - 1].result # "ok" THEN after[k - 1] ELSE map_one(after[k - 1], v + k - 1, f0 + k - 1)

\* The recursive definition of map has a solution, which is its value.
LEMMA MapRecursion ==
  ASSUME NEW m, NEW v, NEW f0, NEW count \in Nat
  PROVE  \E after : MapSteps(after, m, v, f0, count)
<1> DEFINE Step(f, k) == IF k = 0 THEN m ELSE IF f[k - 1].result # "ok" THEN f[k - 1] ELSE map_one(f[k - 1], v + k - 1, f0 + k - 1)
           Solves(f, n) == f = [k \in 0 .. n |-> Step(f, k)]
           solvable == {n \in 0 .. count : \E f : Solves(f, n)}
<1>1. solvable = 0 .. count
  <2>1. 0 \in solvable
    <3> DEFINE g == [k \in 0 .. 0 |-> m]
    <3>1. Solves(g, 0) OBVIOUS
    <3> HIDE DEF Solves
    <3> QED BY <3>1
  <2>2. ASSUME NEW n \in 1 .. count, n - 1 \in solvable PROVE n \in solvable
    <3>1. PICK g : Solves(g, n - 1)
      <4> HIDE DEF Solves
      <4> QED BY <2>2
    <3> DEFINE h == [k \in 0 .. n |-> IF k = n THEN Step(g, n) ELSE g[k]]
    <3>2. ASSUME NEW k \in 0 .. n PROVE h[k] = Step(h, k)
      <4>1. n # 0 /\ h[n - 1] = g[n - 1] OBVIOUS
      <4>2. CASE k = n BY <4>1, <4>2
      <4>3. CASE k # n
        <5>1. k \in 0 .. n - 1 BY <4>3
        <5>2. g[k] = Step(g, k) BY <3>1, <5>1
        <5>3. k # 0 => h[k - 1] = g[k - 1] BY <5>1
        <5> QED BY <4>3, <5>2, <5>3
      <4> QED BY <4>2, <4>3
    <3>3. Solves(h, n) BY <3>2
    <3> HIDE DEF Solves
    <3> QED BY <3>3
  <2> HIDE DEF solvable
  <2>3. solvable \subseteq 0 .. count BY DEF solvable
  <2> QED BY <2>1, <2>2, <2>3, Reaches
<1>2. PICK f : Solves(f, count)
  <2> HIDE DEF Solves
  <2> QED BY <1>1
<1> DEFINE after == CHOOSE g : Solves(g, count)
<1>3. Solves(after, count)
  <2> HIDE DEF Solves
  <2> QED BY <1>2
<1>4. map(m, v, f0, count) = after[count] BY DEF map
<1> HIDE DEF after
<1>5. after[0] = m BY <1>3
<1>6. \A k \in 1 .. count : after[k] = Step(after, k) BY <1>3
<1>7. \A k \in 1 .. count :
        after[k] = IF after[k - 1].result # "ok" THEN after[k - 1] ELSE map_one(after[k - 1], v + k - 1, f0 + k - 1)
  BY <1>6
<1> QED BY <1>4, <1>5, <1>7 DEF MapSteps

\* The same for the loop that maps page by page.
LEMMA MapEachRecursion ==
  ASSUME NEW m, NEW v, NEW count \in Nat
  PROVE  \E after :
           /\ after[0] = m /\ MapEach(m, v, count) = after[count]
           /\ \A k \in 1 .. count :
                after[k] = IF after[k - 1].result # "ok" THEN after[k - 1] ELSE MapAlloc(after[k - 1], v + k - 1)
<1> DEFINE Step(f, k) == IF k = 0 THEN m ELSE IF f[k - 1].result # "ok" THEN f[k - 1] ELSE MapAlloc(f[k - 1], v + k - 1)
           Solves(f, n) == f = [k \in 0 .. n |-> Step(f, k)]
           solvable == {n \in 0 .. count : \E f : Solves(f, n)}
<1>1. solvable = 0 .. count
  <2>1. 0 \in solvable
    <3> DEFINE g == [k \in 0 .. 0 |-> m]
    <3>1. Solves(g, 0) OBVIOUS
    <3> HIDE DEF Solves
    <3> QED BY <3>1
  <2>2. ASSUME NEW n \in 1 .. count, n - 1 \in solvable PROVE n \in solvable
    <3>1. PICK g : Solves(g, n - 1)
      <4> HIDE DEF Solves
      <4> QED BY <2>2
    <3> DEFINE h == [k \in 0 .. n |-> IF k = n THEN Step(g, n) ELSE g[k]]
    <3>2. ASSUME NEW k \in 0 .. n PROVE h[k] = Step(h, k)
      <4>1. n # 0 /\ h[n - 1] = g[n - 1] OBVIOUS
      <4>2. CASE k = n BY <4>1, <4>2
      <4>3. CASE k # n
        <5>1. k \in 0 .. n - 1 BY <4>3
        <5>2. g[k] = Step(g, k) BY <3>1, <5>1
        <5>3. k # 0 => h[k - 1] = g[k - 1] BY <5>1
        <5> QED BY <4>3, <5>2, <5>3
      <4> QED BY <4>2, <4>3
    <3>3. Solves(h, n) BY <3>2
    <3> HIDE DEF Solves
    <3> QED BY <3>3
  <2> HIDE DEF solvable
  <2>3. solvable \subseteq 0 .. count BY DEF solvable
  <2> QED BY <2>1, <2>2, <2>3, Reaches
<1>2. PICK f : Solves(f, count)
  <2> HIDE DEF Solves
  <2> QED BY <1>1
<1> DEFINE after == CHOOSE g : Solves(g, count)
<1>3. Solves(after, count)
  <2> HIDE DEF Solves
  <2> QED BY <1>2
<1>4. MapEach(m, v, count) = after[count] BY DEF MapEach
<1> HIDE DEF after
<1>5. after[0] = m BY <1>3
<1>6. \A k \in 1 .. count : after[k] = Step(after, k) BY <1>3
<1>7. \A k \in 1 .. count :
        after[k] = IF after[k - 1].result # "ok" THEN after[k - 1] ELSE MapAlloc(after[k - 1], v + k - 1)
  BY <1>6
<1> QED BY <1>4, <1>5, <1>7

-----------------------------------------------------------------------------
\* How an operation that maps pages ends: all frames it took are mapped,
\* unless no frame was left for a table.
Ended(m, n, S, V) ==
  /\ Grows(m, n, S, V)
  /\ \/ n.result \in {"ok", "oom"} /\ Memory(n, S, {})
     \/ n.result = "no_table" /\ \E left : Memory(n, S, left)

\* Pages a walk of which goes through a table, not through the recursive one.
LEMMA Mappable ==
  ASSUME NEW v, v \in UserPage \/ v \in KernelPage
  PROVE  v \in Page /\ Table(v) # Rec
<1>1. v \in UserPage => v \in Page /\ Table(v) < FirstKernel BY Regions
<1>2. v \in KernelPage => v \in Page /\ Table(v) # Rec BY Regions
<1>3. v \in Page BY <1>1, <1>2
<1>4. Table(v) < FirstKernel => Table(v) # Rec BY <1>3, PageSplit, Layout
<1> QED BY <1>1, <1>2, <1>3, <1>4

\* The pages from v on.
Pages(v, k) == {w \in Page : v =< w /\ w < v + k}

\* A longer run has the pages of a shorter one.
LEMMA PagesMore ==
  ASSUME NEW v \in Nat, NEW k \in Nat
  PROVE  Pages(v, k - 1) \subseteq Pages(v, k)
<1>1. \A w \in Page : w \in Nat BY Layout DEF Page
<1> QED BY <1>1 DEF Pages

\* map: a run of frames that was taken for a run of pages that are not mapped.
LEMMA MapIs ==
  ASSUME NEW m, NEW S, NEW v \in Nat, NEW f0 \in Nat, NEW count \in Nat,
         Memory(m, S, Run(f0, count)), m.result = "ok",
         \A i \in 0 .. count - 1 : v + i \in UserPage \cup KernelHeap /\ Walk(m, m.cur, v + i) = None,
         NEW n, n = map(m, v, f0, count)
  PROVE  Ended(m, n, S, Pages(v, count))
<1>0. PICK after : MapSteps(after, m, v, f0, count) BY MapRecursion
<1>1. /\ after[0] = m /\ map(m, v, f0, count) = after[count]
      /\ \A k \in 1 .. count :
           after[k] = IF after[k - 1].result # "ok" THEN after[k - 1]
                      ELSE map_one(after[k - 1], v + k - 1, f0 + k - 1)
  BY <1>0 DEF MapSteps
<1> DEFINE Good(k) == /\ Grows(m, after[k], S, Pages(v, k))
                      /\ \/ after[k].result = "ok" /\ Memory(after[k], S, Run(f0 + k, count - k))
                         \/ after[k].result = "no_table" /\ \E left : Memory(after[k], S, left)
           good == {k \in 0 .. count : Good(k)}
<1>2. Good(0)
  <2>1. Grows(m, m, S, Pages(v, 0)) BY DEF Grows
  <2>2. f0 + 0 = f0 /\ count - 0 = count OBVIOUS
  <2> QED BY <1>1, <2>1, <2>2
<1>3. ASSUME NEW k \in 1 .. count, Good(k - 1) PROVE Good(k)
  <2> DEFINE a == after[k - 1]
             w == v + k - 1
             f == f0 + k - 1
             V == Pages(v, k - 1)
             left == Run(f0 + k, count - k)
  <2>1. after[k] = IF a.result # "ok" THEN a ELSE map_one(a, w, f) BY <1>1
  <2>2. V \subseteq Pages(v, k) BY PagesMore
  <2>3. /\ Grows(m, a, S, V)
        /\ \/ a.result = "ok" /\ Memory(a, S, Run(f0 + (k - 1), count - (k - 1)))
           \/ a.result = "no_table" /\ \E t : Memory(a, S, t)
    BY <1>3
  <2>4. w = v + (k - 1) /\ k - 1 \in 0 .. count - 1 /\ w \in Nat /\ w \notin V BY DEF Pages
  <2>5. w \in UserPage \cup KernelHeap /\ Walk(m, m.cur, w) = None BY <2>4
  <2>6. w \in Page /\ Table(w) # Rec BY <2>5, Mappable, Regions
  <2>7. Run(f0 + (k - 1), count - (k - 1)) = Run(f, count - k + 1) /\ f \in Run(f, count - k + 1)
    BY DEF Run
  <2>8. left = Run(f, count - k + 1) \ {f} BY DEF Run
  <2>9. {w} \subseteq Pages(v, k) BY <2>4, <2>6 DEF Pages
  <2> HIDE DEF a, w, f, V, left
  <2>10. CASE a.result = "ok"
    <3>1. Memory(a, S, Run(f, count - k + 1)) BY <2>3, <2>7, <2>10
    <3>2. m.cur \in 0 .. MaxSpace BY MemoryParts
    <3>3. Walk(a, a.cur, w) = None
      <4>1. Walk(a, m.cur, w) = Walk(m, m.cur, w) /\ a.cur = m.cur BY <2>3, <2>4, <2>6, <3>2 DEF Grows
      <4> QED BY <2>5, <4>1
    <3>4. after[k] = map_one(a, w, f) BY <2>1, <2>10
    <3>5. Maps(w, f, Run(f, count - k + 1), left) BY <2>5, <2>7, <2>8 DEF Maps
    <3>6. /\ Grows(a, after[k], S, {w})
          /\ \/ after[k].result = "ok" /\ Memory(after[k], S, left)
             \/ after[k].result = "no_table" /\ Memory(after[k], S, Run(f, count - k + 1))
      BY <2>10, <3>1, <3>3, <3>4, <3>5, MapOneIs
    <3>7. Grows(m, after[k], S, V \cup {w}) BY <2>3, <3>6, GrowsOn
    <3>8. Grows(m, after[k], S, Pages(v, k)) BY <2>2, <2>9, <3>7, GrowsMore
    <3> QED BY <3>6, <3>8 DEF left
  <2>11. CASE a.result # "ok"
    <3>1. after[k] = a BY <2>1, <2>11
    <3>2. Grows(m, a, S, Pages(v, k)) BY <2>2, <2>3, GrowsMore
    <3> QED BY <2>3, <2>11, <3>1, <3>2
  <2> QED BY <2>10, <2>11
<1> HIDE DEF Good
<1>4. good = 0 .. count
  <2>1. 0 \in good BY <1>2
  <2>2. \A k \in 1 .. count : k - 1 \in good => k \in good BY <1>3
  <2>3. good \subseteq 0 .. count OBVIOUS
  <2> HIDE DEF good
  <2> QED BY <2>1, <2>2, <2>3, Reaches
<1>5. Good(count) BY <1>4
<1>6. Run(f0 + count, count - count) = {} BY DEF Run
<1> QED BY <1>1, <1>5, <1>6 DEF Good, Ended

\* One page of the loop that maps page by page.
LEMMA MapAllocIs ==
  ASSUME NEW m, NEW S, Memory(m, S, {}), m.result = "ok",
         NEW v \in UserPage \cup KernelHeap, NEW n, n = MapAlloc(m, v)
  PROVE  Ended(m, n, S, {v})
<1>1. v \in Page BY Mappable, Regions
<1>2. resolve_va(m, v) = Walk(m, m.cur, v) BY <1>1, ResolveIsWalk
<1>3. CASE Walk(m, m.cur, v) # None
  <2>1. n = m BY <1>2, <1>3 DEF MapAlloc
  <2> QED BY <2>1 DEF Ended, Grows
<1>4. CASE Walk(m, m.cur, v) = None /\ m.free = {}
  <2>1. n = [m EXCEPT !.result = "oom"] BY <1>2, <1>4 DEF MapAlloc
  <2>2. Memory(n, S, {}) /\ Grows(m, n, S, {}) /\ n.result = "oom" BY <2>1, Ends
  <2> QED BY <2>2, GrowsMore DEF Ended
<1>5. CASE Walk(m, m.cur, v) = None /\ m.free # {}
  <2> DEFINE f == FirstRun(m.free, 1)
             b == [m EXCEPT !.free = @ \ {f}]
  <2>1. n = map_one(b, v, f) BY <1>2, <1>5 DEF MapAlloc
  <2>2. f \in m.free
    <3>1. m.free \subseteq Nat BY MemoryParts, MemParts, FrameType
    <3> QED BY <1>5, <3>1, FirstFrame
  <2> HIDE DEF f
  <2>3. Memory(b, S, {} \cup {f}) /\ Grows(m, b, S, {}) /\ b.result = m.result /\ b.cur = m.cur
    BY <2>2, Takes
  <2> HIDE DEF b
  <2>4. Walk(b, b.cur, v) = None
    <3>1. m.cur \in S /\ m.cur \in 0 .. MaxSpace /\ Table(v) # Rec BY MemoryParts, Mappable, Regions
    <3>2. Walk(b, m.cur, v) = Walk(m, m.cur, v) BY <1>1, <2>3, <3>1 DEF Grows
    <3> QED BY <1>5, <2>3, <3>2
  <2>5. {} \cup {f} = {f} /\ Maps(v, f, {f}, {}) BY DEF Maps
  <2>6. Memory(b, S, {f}) BY <2>3, <2>5
  <2>7. /\ Grows(b, n, S, {v})
        /\ \/ n.result = "ok" /\ Memory(n, S, {})
           \/ n.result = "no_table" /\ Memory(n, S, {f})
    BY <2>1, <2>3, <2>4, <2>5, <2>6, MapOneIs
  <2>8. Grows(m, n, S, {} \cup {v}) BY <2>3, <2>7, GrowsOn
  <2>9. Grows(m, n, S, {v}) BY <2>8, GrowsMore
  <2> QED BY <2>7, <2>9 DEF Ended
<1> QED BY <1>3, <1>4, <1>5

\* MapEach: all pages, or as many as there are frames for.
LEMMA MapEachIs ==
  ASSUME NEW m, NEW S, Memory(m, S, {}), m.result = "ok", NEW v \in Nat, NEW count \in Nat,
         \A i \in 0 .. count - 1 : v + i \in UserPage \cup KernelHeap,
         NEW n, n = MapEach(m, v, count)
  PROVE  Ended(m, n, S, Pages(v, count))
<1>1. PICK after :
        /\ after[0] = m /\ MapEach(m, v, count) = after[count]
        /\ \A k \in 1 .. count :
             after[k] = IF after[k - 1].result # "ok" THEN after[k - 1] ELSE MapAlloc(after[k - 1], v + k - 1)
  BY MapEachRecursion
<1> DEFINE good == {k \in 0 .. count : Ended(m, after[k], S, Pages(v, k))}
<1>2. Ended(m, after[0], S, Pages(v, 0)) BY <1>1 DEF Ended, Grows
<1>3. ASSUME NEW k \in 1 .. count, Ended(m, after[k - 1], S, Pages(v, k - 1)) PROVE Ended(m, after[k], S, Pages(v, k))
  <2> DEFINE a == after[k - 1]
             w == v + k - 1
             V == Pages(v, k - 1)
  <2>1. after[k] = IF a.result # "ok" THEN a ELSE MapAlloc(a, w) BY <1>1
  <2>2. V \subseteq Pages(v, k) BY PagesMore
  <2>3. Ended(m, a, S, V) BY <1>3
  <2>4. w = v + (k - 1) /\ k - 1 \in 0 .. count - 1 OBVIOUS
  <2>5. w \in UserPage \cup KernelHeap BY <2>4
  <2>6. w \in Page BY <2>5, Mappable, Regions
  <2>7. {w} \subseteq Pages(v, k) BY <2>4, <2>6 DEF Pages
  <2> HIDE DEF a, w, V
  <2>8. Grows(m, a, S, V) BY <2>3 DEF Ended
  <2>9. CASE a.result = "ok"
    <3>1. Memory(a, S, {}) BY <2>3, <2>9 DEF Ended
    <3>2. after[k] = MapAlloc(a, w) BY <2>1, <2>9
    <3>3. Ended(a, after[k], S, {w}) BY <2>5, <2>9, <3>1, <3>2, MapAllocIs
    <3>4. Grows(a, after[k], S, {w}) BY <3>3 DEF Ended
    <3>5. Grows(m, after[k], S, V \cup {w}) BY <2>8, <3>4, GrowsOn
    <3>6. Grows(m, after[k], S, Pages(v, k)) BY <2>2, <2>7, <3>5, GrowsMore
    <3> QED BY <3>3, <3>6 DEF Ended
  <2>10. CASE a.result # "ok"
    <3>1. after[k] = a BY <2>1, <2>10
    <3>2. Grows(m, a, S, Pages(v, k)) BY <2>2, <2>8, GrowsMore
    <3> QED BY <2>3, <3>1, <3>2 DEF Ended
  <2> QED BY <2>9, <2>10
<1>4. good = 0 .. count
  <2>1. 0 \in good BY <1>2
  <2>2. \A k \in 1 .. count : k - 1 \in good => k \in good BY <1>3
  <2>3. good \subseteq 0 .. count OBVIOUS
  <2> HIDE DEF good
  <2> QED BY <2>1, <2>2, <2>3, Reaches
<1>5. count \in good BY <1>4
<1> QED BY <1>1, <1>5

\* map_alloc: a run of frames, or page by page, or too far.
LEMMA MapAllocEnds ==
  ASSUME NEW m, NEW S, Memory(m, S, {}), m.result = "ok", NEW v \in Nat, NEW count \in Nat,
         \/ v + count > HeapEnd
         \/ \A i \in 0 .. count - 1 : v + i \in UserPage \cup KernelHeap,
         NEW n, n = map_alloc(m, v, count)
  PROVE  Ended(m, n, S, Pages(v, count))
<1>1. CASE v + count > HeapEnd
  <2>1. n = [m EXCEPT !.result = "oom"] BY <1>1 DEF map_alloc
  <2>2. Memory(n, S, {}) /\ Grows(m, n, S, {}) /\ n.result = "oom" BY <2>1, Ends
  <2> QED BY <2>2, GrowsMore DEF Ended
<1>2. CASE ~ v + count > HeapEnd
  <2> DEFINE f == FirstRun(m.free, count)
             b == [m EXCEPT !.free = @ \ Run(f, count)]
             unmapped == \A i \in 0 .. count - 1 : resolve_va(m, v + i) = None
  <2>1. \A i \in 0 .. count - 1 : v + i \in UserPage \cup KernelHeap BY <1>2
  <2>2. n = IF unmapped /\ f # None THEN map(b, v, f, count) ELSE MapEach(m, v, count)
    BY <1>2 DEF map_alloc
  <2>3. CASE unmapped /\ f # None
    <3>1. f \in Nat /\ Run(f, count) \subseteq m.free
      <4>1. m.free \subseteq Nat BY MemoryParts, MemParts, FrameType
      <4> QED BY <2>3, <4>1, FirstRunIs
    <3>2. n = map(b, v, f, count) BY <2>2, <2>3
    <3>3. ASSUME NEW i \in 0 .. count - 1 PROVE Walk(m, m.cur, v + i) = None /\ v + i \in Page /\ Table(v + i) # Rec
      <4>1. v + i \in Page /\ Table(v + i) # Rec BY <2>1, Mappable, Regions
      <4>2. resolve_va(m, v + i) = None BY <2>3
      <4> QED BY <4>1, <4>2, ResolveIsWalk
    <3>b. b = [m EXCEPT !.free = @ \ Run(f, count)] OBVIOUS
    <3> HIDE DEF f, b, unmapped
    <3>4. Run(f, count) \subseteq m.free BY <3>1
    <3>5. Memory(b, S, Run(f, count)) BY <3>4, <3>b, TakesRun
    <3>c. Grows(m, b, S, {}) BY <3>4, <3>b, TakesRun
    <3>d. b.result = m.result BY <3>4, <3>b, TakesRun
    <3>e. b.cur = m.cur BY <3>4, <3>b, TakesRun
    <3>6. ASSUME NEW i \in 0 .. count - 1 PROVE Walk(b, b.cur, v + i) = None
      <4>1. m.cur \in 0 .. MaxSpace BY MemoryParts
      <4>2. Walk(b, m.cur, v + i) = Walk(m, m.cur, v + i) BY <3>3, <3>c, <4>1 DEF Grows
      <4> QED BY <3>3, <3>e, <4>2
    <3>7. \A i \in 0 .. count - 1 : v + i \in UserPage \cup KernelHeap /\ Walk(b, b.cur, v + i) = None BY <2>1, <3>6
    <3>8. Ended(b, n, S, Pages(v, count)) BY <3>1, <3>2, <3>d, <3>5, <3>7, MapIs
    <3>9. Grows(b, n, S, Pages(v, count)) BY <3>8 DEF Ended
    <3>10. Grows(m, n, S, {} \cup Pages(v, count)) BY <3>c, <3>9, GrowsOn
    <3>11. Grows(m, n, S, Pages(v, count)) BY <3>10, GrowsMore
    <3> QED BY <3>8, <3>11 DEF Ended
  <2>4. CASE ~ (unmapped /\ f # None)
    <3>1. n = MapEach(m, v, count) BY <2>2, <2>4
    <3> QED BY <2>1, <3>1, MapEachIs
  <2> QED BY <2>3, <2>4
<1> QED BY <1>1, <1>2

\* The framebuffer, mapped once.
LEMMA FramebufferMapped ==
  ASSUME NEW m, NEW S, Memory(m, S, {}), m.result = "ok", Walk(m, 0, Framebuffer) = None,
         NEW n, n = map(m, Framebuffer, Device, 1)
  PROVE  Ended(m, n, S, {Framebuffer})
<1>1. Framebuffer \in KernelPage /\ m.cur \in S BY Regions, MemoryParts
<1>2. Walk(m, m.cur, Framebuffer) = None BY <1>1, KernelWalk
<1>3. PICK after : MapSteps(after, m, Framebuffer, Device, 1) BY MapRecursion
<1>4. Framebuffer + 1 - 1 = Framebuffer /\ Device + 1 - 1 = Device /\ 1 \in 1 .. 1 /\ 1 - 1 = 0
  BY Layout, VmmAssumption
<1>5. n = map_one(m, Framebuffer, Device) BY <1>3, <1>4 DEF MapSteps
<1>6. Maps(Framebuffer, Device, {}, {}) BY DEF Maps
<1>7. /\ Grows(m, n, S, {Framebuffer})
      /\ \/ n.result = "ok" /\ Memory(n, S, {})
         \/ n.result = "no_table" /\ Memory(n, S, {})
  BY <1>2, <1>5, <1>6, MapOneIs
<1> QED BY <1>7 DEF Ended

-----------------------------------------------------------------------------
\* A clone: the tables of the current space, and a new directory for space k,
\* whose recursive table is in a page of the heap that holds no other.
Cloned(m, n, k, r) ==
  /\ MemType(n) /\ n.cur = m.cur /\ n.tlb = m.tlb /\ n.free = m.free /\ n.result = m.result
  /\ \A s \in (0 .. MaxSpace) \ {k} : n.dir[s] = m.dir[s]
  /\ \A p \in 0 .. N - 1 : Dir(n, k, p) = IF p < FirstKernel THEN None ELSE IF p = Rec THEN r ELSE Dir(m, m.cur, p)
  /\ \A y \in Frame \ {r} : \A i \in 0 .. N - 1 : Ent(n, y, i) = Ent(m, y, i)
  /\ \A i \in 0 .. N - 1 : Ent(n, r, i) = IF i < FirstKernel THEN None ELSE IF i = Rec THEN r ELSE Dir(m, m.cur, i)

\* clone_pd makes such a clone.
LEMMA CloneIs ==
  ASSUME NEW m, NEW S, NEW taken, Memory(m, S, taken), NEW k \in 0 .. MaxSpace, NEW r \in Frame,
         NEW n, n = clone_pd(m, k, r)
  PROVE  Cloned(m, n, k, r)
<1> DEFINE x == Dir(m, m.cur, Rec)
           row == [i \in 0 .. N - 1 |-> IF i < FirstKernel THEN None ELSE IF i = Rec THEN r ELSE m.tab[x][i]]
           tables == [p \in 0 .. N - 1 |-> IF p < FirstKernel THEN None ELSE IF p = Rec THEN r ELSE m.dir[m.cur][p]]
           tab == [m.tab EXCEPT ![r] = row]
           dir == [m.dir EXCEPT ![k] = tables]
<1>1. MemType(m) /\ m.cur \in S /\ m.cur \in 0 .. MaxSpace /\ Rec \in 0 .. N - 1 /\ x \in Frame BY MemoryParts, RecTable
<1>2. Translate(m, TablePage(Rec)) = x
  <2>1. Walk(m, m.cur, TablePage(Rec)) = Dir(m, m.cur, Rec) BY <1>1, RecWalk
  <2> QED BY <2>1, TranslateIsWalk
<1>3. n = [m EXCEPT !.tab[r] = row, !.dir[k] = tables] BY <1>2 DEF clone_pd
<1>4. \A i \in 0 .. N - 1 : m.tab[x][i] = Ent(m, x, i) /\ m.dir[m.cur][i] = Dir(m, m.cur, i) BY DEF Ent, Dir
<1>5. ASSUME NEW i \in 0 .. N - 1
      PROVE  /\ row[i] = IF i < FirstKernel THEN None ELSE IF i = Rec THEN r ELSE Dir(m, m.cur, i)
             /\ tables[i] = IF i < FirstKernel THEN None ELSE IF i = Rec THEN r ELSE Dir(m, m.cur, i)
  <2>1. Ent(m, x, i) = Dir(m, m.cur, i) BY <1>1, RecWalk
  <2>2. m.tab[x][i] = Dir(m, m.cur, i) /\ m.dir[m.cur][i] = Dir(m, m.cur, i) BY <1>4, <2>1
  <2> HIDE DEF x
  <2> QED BY <2>2
<1>6. ASSUME NEW i \in 0 .. N - 1 PROVE Dir(m, m.cur, i) \in Frame \cup {None} BY <1>1, DirType
<1>7. row \in [0 .. N - 1 -> Frame \cup {None, Device}] /\ tables \in [0 .. N - 1 -> Frame \cup {None}]
  <2>1. row = [i \in 0 .. N - 1 |-> row[i]] /\ tables = [i \in 0 .. N - 1 |-> tables[i]] OBVIOUS
  <2> HIDE DEF row, tables
  <2>2. \A i \in 0 .. N - 1 : row[i] \in Frame \cup {None, Device} /\ tables[i] \in Frame \cup {None} BY <1>5, <1>6
  <2> QED BY <2>1, <2>2
<1> HIDE DEF row, tables, x
<1>8. m \in [dir : [0 .. MaxSpace -> [0 .. N - 1 -> Frame \cup {None}]],
             tab : [Frame -> [0 .. N - 1 -> Frame \cup {None, Device}]],
             free : SUBSET Frame,
             tlb : SUBSET [page : Page, frame : Frame \cup {Device}],
             cur : 0 .. MaxSpace,
             result : {"ok", "oom", "no_table", "remap"}]
  BY <1>1 DEF MemType
<1>9. dir \in [0 .. MaxSpace -> [0 .. N - 1 -> Frame \cup {None}]] /\ dir[k] = tables
      /\ \A s \in (0 .. MaxSpace) \ {k} : dir[s] = m.dir[s]
  <2>1. m.dir \in [0 .. MaxSpace -> [0 .. N - 1 -> Frame \cup {None}]] BY <1>8
  <2> QED BY <1>7, <2>1
<1>10. tab \in [Frame -> [0 .. N - 1 -> Frame \cup {None, Device}]] /\ tab[r] = row
       /\ \A y \in Frame \ {r} : tab[y] = m.tab[y]
  <2>1. m.tab \in [Frame -> [0 .. N - 1 -> Frame \cup {None, Device}]] BY <1>8
  <2> QED BY <1>7, <2>1
<1>11. n = [dir |-> dir, tab |-> tab, free |-> m.free, tlb |-> m.tlb, cur |-> m.cur, result |-> m.result]
  <2> DEFINE a == [m EXCEPT !.tab[r] = row]
  <2>1. a = [dir |-> m.dir, tab |-> tab, free |-> m.free, tlb |-> m.tlb, cur |-> m.cur, result |-> m.result]
    BY <1>8
  <2>2. n = [a EXCEPT !.dir[k] = tables] BY <1>3
  <2> HIDE DEF a, tab
  <2> QED BY <2>1, <2>2
<1> HIDE DEF dir, tab
<1>12. MemType(n) BY <1>8, <1>9, <1>10, <1>11 DEF MemType
<1>13. n.dir = dir /\ n.tab = tab /\ n.free = m.free /\ n.tlb = m.tlb /\ n.cur = m.cur /\ n.result = m.result BY <1>11
<1>14. \A p \in 0 .. N - 1 : Dir(n, k, p) = IF p < FirstKernel THEN None ELSE IF p = Rec THEN r ELSE Dir(m, m.cur, p)
  <2>1. \A p : Dir(n, k, p) = tables[p] BY <1>9, <1>13 DEF Dir
  <2> QED BY <1>5, <2>1
<1>15. \A y \in Frame \ {r} : \A i \in 0 .. N - 1 : Ent(n, y, i) = Ent(m, y, i) BY <1>10, <1>13 DEF Ent
<1>16. \A i \in 0 .. N - 1 : Ent(n, r, i) = IF i < FirstKernel THEN None ELSE IF i = Rec THEN r ELSE Dir(m, m.cur, i)
  <2>1. \A i : Ent(n, r, i) = row[i] BY <1>10, <1>13 DEF Ent
  <2> QED BY <1>5, <2>1
<1>17. \A s \in (0 .. MaxSpace) \ {k} : n.dir[s] = m.dir[s] BY <1>9, <1>13
<1> QED BY <1>12, <1>13, <1>14, <1>15, <1>16, <1>17 DEF Cloned

\* The walks of a clone: those of the spaces there were, and the kernel's.
LEMMA CloneWalks ==
  ASSUME NEW m, NEW S, NEW taken, Memory(m, S, taken), NEW k \in (0 .. MaxSpace) \ S, NEW r \in Frame,
         NEW page \in KernelHeap, r = Walk(m, 0, page), \A s \in S : Dir(m, s, Rec) # r,
         NEW n, Cloned(m, n, k, r)
  PROVE  /\ \A s \in S : \A p \in 0 .. N - 1 : Dir(n, s, p) = Dir(m, s, p)
         /\ \A s \in S : \A p \in 0 .. N - 1 : Ent(n, Dir(m, s, Rec), p) = Ent(m, Dir(m, s, Rec), p)
         /\ \A s \in (0 .. MaxSpace) \ {k} : \A w \in Page : Walk(n, s, w) = Walk(m, s, w)
         /\ \A w \in UserPage : Walk(n, k, w) = None
         /\ \A w \in KernelPage : Walk(n, k, w) = Walk(m, 0, w)
<1>0. S \subseteq 0 .. MaxSpace /\ 0 \in S /\ m.cur \in S /\ FramesPlaced(m, S, taken) BY MemoryParts
<1>1. \A s \in (0 .. MaxSpace) \ {k} : \A p : Dir(n, s, p) = Dir(m, s, p) BY DEF Cloned, Dir
<1>2. \A y \in Frame \ {r} : \A i \in 0 .. N - 1 : Ent(n, y, i) = Ent(m, y, i) BY DEF Cloned
<1>3. ASSUME NEW s \in S, NEW p \in 0 .. N - 1, Dir(m, s, p) # None PROVE Dir(m, s, p) \in Frame \ {r}
  <2>1. Dir(m, s, p) \in Frame BY <1>3, TableInUse
  <2>2. SUFFICES ASSUME Dir(m, s, p) = r PROVE FALSE BY <2>1
  <2>3. PICK u \in UseFor(s, p) : u \in Uses(S) /\ FrameOf(m, u) = r BY <2>2, TableUse
  <2>4. <<"page", 0, page>> \in Uses(S) BY DEF Uses
  <2>5. FrameOf(m, <<"page", 0, page>>) = r BY FrameOfPage
  <2>6. u = <<"page", 0, page>> BY <2>3, <2>4, <2>5, FrameType, <1>0 DEF FramesPlaced
  <2>7. p = Rec BY <2>3, <2>6 DEF UseFor
  <2> QED BY <2>2, <2>7
<1>4. ASSUME NEW s \in S, NEW p \in 0 .. N - 1 PROVE Ent(n, Dir(m, s, Rec), p) = Ent(m, Dir(m, s, Rec), p)
  <2>1. Dir(m, s, Rec) \in Frame \ {r} BY RecTable
  <2> QED BY <1>2, <2>1
<1>5. ASSUME NEW s \in (0 .. MaxSpace) \ {k}, NEW w \in Page PROVE Walk(n, s, w) = Walk(m, s, w)
  <2> DEFINE q == Table(w)
             i == Index(w)
  <2>1. q \in 0 .. N - 1 /\ i \in 0 .. N - 1 BY PageSplit
  <2>2. Walk(m, s, w) = IF Dir(m, s, q) = None THEN None ELSE Ent(m, Dir(m, s, q), i) BY WalkMeans
  <2>3. Walk(n, s, w) = IF Dir(n, s, q) = None THEN None ELSE Ent(n, Dir(n, s, q), i) BY WalkMeans
  <2>4. Dir(n, s, q) = Dir(m, s, q) BY <1>1
  <2>5. Dir(m, s, q) # None => s \in S
    <3>1. s \notin S => m.dir[s] = Absent BY MemoryParts, Tables
    <3>2. s \notin S => Dir(m, s, q) = None BY <2>1, <3>1 DEF Absent, Dir
    <3> QED BY <3>2
  <2> HIDE DEF q, i
  <2>6. Dir(m, s, q) # None => Ent(n, Dir(m, s, q), i) = Ent(m, Dir(m, s, q), i) BY <1>2, <1>3, <2>1, <2>5
  <2> QED BY <2>2, <2>3, <2>4, <2>6
<1>6. \A p \in 0 .. N - 1 : Dir(n, k, p) = IF p < FirstKernel THEN None ELSE IF p = Rec THEN r ELSE Dir(m, m.cur, p)
  BY DEF Cloned
<1>7. ASSUME NEW w \in UserPage PROVE Walk(n, k, w) = None
  <2>1. w \in Page /\ Table(w) < FirstKernel BY Regions
  <2>2. Table(w) \in 0 .. N - 1 BY <2>1, PageSplit
  <2>3. Dir(n, k, Table(w)) = None BY <1>6, <2>1, <2>2
  <2> QED BY <2>3, WalkMeans
<1>8. ASSUME NEW w \in KernelPage PROVE Walk(n, k, w) = Walk(m, 0, w)
  <2> DEFINE q == Table(w)
             i == Index(w)
  <2>1. w \in Page /\ FirstKernel =< q /\ q # Rec BY Regions
  <2>2. q \in 0 .. N - 1 /\ i \in 0 .. N - 1 BY <2>1, PageSplit
  <2>3. Walk(n, k, w) = IF Dir(n, k, q) = None THEN None ELSE Ent(n, Dir(n, k, q), i) BY WalkMeans
  <2>4. Walk(m, m.cur, w) = IF Dir(m, m.cur, q) = None THEN None ELSE Ent(m, Dir(m, m.cur, q), i) BY WalkMeans
  <2>5. Walk(m, m.cur, w) = Walk(m, 0, w) BY <1>0, KernelWalk
  <2> HIDE DEF q, i
  <2>6. Dir(n, k, q) = Dir(m, m.cur, q) BY <1>6, <2>1, <2>2, Layout
  <2>7. Dir(m, m.cur, q) # None => Ent(n, Dir(m, m.cur, q), i) = Ent(m, Dir(m, m.cur, q), i) BY <1>0, <1>2, <1>3, <2>2
  <2> QED BY <2>3, <2>4, <2>5, <2>6, <2>7
<1>9. \A s \in S : \A p \in 0 .. N - 1 : Dir(n, s, p) = Dir(m, s, p) BY <1>0, <1>1
<1> QED BY <1>4, <1>5, <1>7, <1>8, <1>9

\* A clone keeps memory in order.
LEMMA CloneMemory ==
  ASSUME NEW m, NEW S, NEW taken, Memory(m, S, taken), NEW k \in (0 .. MaxSpace) \ S, NEW r \in Frame,
         NEW page \in KernelHeap, r = Walk(m, 0, page), \A s \in S : Dir(m, s, Rec) # r,
         NEW n, Cloned(m, n, k, r)
  PROVE  Memory(n, S \cup {k}, taken)
<1> DEFINE T == S \cup {k}
<1>0. S \subseteq 0 .. MaxSpace /\ 0 \in S /\ m.cur \in S /\ FramesPlaced(m, S, taken) /\ TablesPlaced(m, S) BY MemoryParts
<1>1. /\ \A s \in S : \A p \in 0 .. N - 1 : Dir(n, s, p) = Dir(m, s, p)
      /\ \A s \in S : \A p \in 0 .. N - 1 : Ent(n, Dir(m, s, Rec), p) = Ent(m, Dir(m, s, Rec), p)
      /\ \A s \in (0 .. MaxSpace) \ {k} : \A w \in Page : Walk(n, s, w) = Walk(m, s, w)
      /\ \A w \in UserPage : Walk(n, k, w) = None
      /\ \A w \in KernelPage : Walk(n, k, w) = Walk(m, 0, w)
  BY CloneWalks
<1>2. /\ MemType(n) /\ n.cur = m.cur /\ n.tlb = m.tlb /\ n.free = m.free
      /\ \A s \in (0 .. MaxSpace) \ {k} : n.dir[s] = m.dir[s]
      /\ \A p \in 0 .. N - 1 : Dir(n, k, p) = IF p < FirstKernel THEN None ELSE IF p = Rec THEN r ELSE Dir(m, m.cur, p)
      /\ \A i \in 0 .. N - 1 : Ent(n, r, i) = IF i < FirstKernel THEN None ELSE IF i = Rec THEN r ELSE Dir(m, m.cur, i)
  BY DEF Cloned
<1>3. \A s \in S : s \in (0 .. MaxSpace) \ {k} BY <1>0
<1>4. FramesPlaced(n, T, taken)
  <2>1. ASSUME NEW u \in Uses(S) PROVE FrameOf(n, u) = FrameOf(m, u)
    <3>1. ASSUME NEW s \in S, NEW q \in 0 .. N - 1, u = <<"table", s, q>> PROVE FrameOf(n, u) = FrameOf(m, u)
      <4>1. Dir(n, s, q) = Dir(m, s, q) BY <1>1
      <4> QED BY <3>1, <4>1, FrameOfTable
    <3>2. ASSUME NEW s \in S, NEW w \in UserPage \cup KernelHeap, u = <<"page", s, w>> PROVE FrameOf(n, u) = FrameOf(m, u)
      <4>1. w \in Page BY Mappable, Regions
      <4>2. Walk(n, s, w) = Walk(m, s, w) BY <1>1, <1>3, <4>1
      <4> QED BY <3>2, <4>2, FrameOfPage
    <3>3. 0 .. FirstKernel - 1 \subseteq 0 .. N - 1 /\ FirstKernel .. N - 1 \subseteq 0 .. N - 1 BY Layout
    <3> QED BY <1>0, <3>1, <3>2, <3>3 DEF Uses
  <2>2. ASSUME NEW u \in Uses(T), u \notin Uses(S) PROVE FrameOf(n, u) = None
    <3>1. \/ \E p \in 0 .. FirstKernel - 1 : u = <<"table", k, p>>
          \/ \E w \in UserPage : u = <<"page", k, w>>
      BY <2>2 DEF Uses
    <3>2. ASSUME NEW p \in 0 .. FirstKernel - 1, u = <<"table", k, p>> PROVE FrameOf(n, u) = None
      <4>1. p \in 0 .. N - 1 /\ p < FirstKernel BY Layout
      <4>2. Dir(n, k, p) = None BY <1>2, <4>1
      <4> QED BY <3>2, <4>2, FrameOfTable
    <3>3. ASSUME NEW w \in UserPage, u = <<"page", k, w>> PROVE FrameOf(n, u) = None
      BY <1>1, <3>3, FrameOfPage
    <3> QED BY <3>1, <3>2, <3>3
  <2>3. Uses(S) \subseteq Uses(T) BY DEF Uses
  <2>4. ASSUME NEW u \in Uses(T), NEW w \in Uses(T), FrameOf(n, u) # None, FrameOf(n, u) = FrameOf(n, w) PROVE u = w
    BY <1>0, <2>1, <2>2, <2>4 DEF FramesPlaced
  <2>5. \A u \in Uses(T) : FrameOf(n, u) \in Frame \cup {None} BY <1>0, <2>1, <2>2 DEF FramesPlaced
  <2>6. Frame \ {FrameOf(n, u) : u \in Uses(T)} = Frame \ {FrameOf(m, u) : u \in Uses(S)}
    <3>1. \A f \in Frame : f # None BY FrameType
    <3> QED BY <2>1, <2>2, <2>3, <3>1
  <2> QED BY <1>0, <1>2, <2>4, <2>5, <2>6 DEF FramesPlaced
<1>5. TablesPlaced(n, T)
  <2>1. \A s \in (0 .. MaxSpace) \ T : n.dir[s] = Absent BY <1>0, <1>2, Tables
  <2>2. Rec \in 0 .. N - 1 /\ Rec >= FirstKernel /\ \A p \in FirstKernel .. N - 1 : p \in 0 .. N - 1 /\ ~ p < FirstKernel BY Layout
  <2>3. \A s \in S : Dir(n, s, Rec) = Dir(m, s, Rec) BY <1>1, <2>2
  <2>4. Dir(n, k, Rec) = r BY <1>2, <2>2, Layout
  <2>5. \A w \in KernelHeap : Walk(n, 0, w) = Walk(m, 0, w)
    <3>1. \A w \in KernelHeap : w \in Page BY Mappable, Regions
    <3> QED BY <1>0, <1>1, <1>3, <3>1
  <2>6. ASSUME NEW s \in T, NEW p \in FirstKernel .. N - 1, p # Rec PROVE Dir(n, s, p) = p - FirstKernel
    <3>1. \A t \in S : Dir(m, t, p) = p - FirstKernel BY <1>0, <2>6, Tables
    <3>2. CASE s \in S BY <1>1, <2>2, <3>1, <3>2
    <3>3. CASE s = k BY <1>0, <1>2, <2>2, <2>6, <3>1, <3>3
    <3> QED BY <3>2, <3>3
  <2>7. Dir(n, 0, Rec) = Rec - FirstKernel BY <1>0, <2>3, Tables
  <2>8. ASSUME NEW s \in T \ {0} PROVE \E v \in KernelHeap : Dir(n, s, Rec) = Walk(n, 0, v) /\ Walk(n, 0, v) # None
    <3>1. CASE s \in S
      <4>1. PICK v \in KernelHeap : Dir(m, s, Rec) = Walk(m, 0, v) /\ Walk(m, 0, v) # None BY <1>0, <2>8, <3>1, Tables
      <4> QED BY <2>3, <2>5, <3>1, <4>1
    <3>2. CASE s = k BY <2>4, <2>5, <3>2, FrameType
    <3> QED BY <3>1, <3>2
  <2>9. ASSUME NEW s \in T, NEW t \in T, Dir(n, s, Rec) = Dir(n, t, Rec) PROVE s = t
    <3>1. \A a, b \in S : Dir(m, a, Rec) = Dir(m, b, Rec) => a = b BY <1>0, Tables
    <3> QED BY <2>3, <2>4, <2>9, <3>1
  <2>10. ASSUME NEW s \in T, NEW p \in 0 .. N - 1 PROVE Ent(n, Dir(n, s, Rec), p) = Dir(n, s, p)
    <3>1. CASE s \in S
      <4>1. Ent(n, Dir(m, s, Rec), p) = Ent(m, Dir(m, s, Rec), p) BY <1>1, <3>1
      <4>2. Ent(m, Dir(m, s, Rec), p) = Dir(m, s, p) BY <3>1, RecWalk
      <4>3. Dir(n, s, p) = Dir(m, s, p) /\ Dir(n, s, Rec) = Dir(m, s, Rec) BY <1>1, <2>3, <3>1
      <4> QED BY <4>1, <4>2, <4>3
    <3>2. CASE s = k
      <4>1. Ent(n, r, p) = Dir(n, k, p) BY <1>2, Zenon
      <4> QED BY <2>4, <3>2, <4>1
    <3> QED BY <3>1, <3>2
  <2> QED BY <2>1, <2>6, <2>7, <2>8, <2>9, <2>10, Tables
<1>6. DeviceOnly(n)
  <2>1. ASSUME NEW w \in KernelPage PROVE Walk(n, 0, w) = Walk(m, 0, w)
    <3>1. w \in Page BY Mappable
    <3> QED BY <1>0, <1>1, <1>3, <3>1
  <2> QED BY <2>1, MemoryParts DEF DeviceOnly
<1>7. ASSUME NEW e \in n.tlb PROVE Walk(n, n.cur, e.page) = e.frame
  <2>1. e.page \in Page /\ Walk(m, m.cur, e.page) = e.frame BY <1>2, MemoryParts, MemParts
  <2> QED BY <1>0, <1>1, <1>2, <1>3, <2>1
<1>8. T \subseteq 0 .. MaxSpace /\ 0 \in T /\ n.cur \in T BY <1>0, <1>2
<1> HIDE DEF T
<1>9. Memory(n, T, taken) BY <1>2, <1>4, <1>5, <1>6, <1>7, <1>8 DEF Memory, MemOK
<1> QED BY <1>9 DEF T

\* Another space, and other translations that the tables say.
LEMMA Turns ==
  ASSUME NEW m, NEW S, NEW taken, Memory(m, S, taken),
         NEW n, MemType(n), n.dir = m.dir, n.tab = m.tab, n.free = m.free, n.cur \in S,
         \A e \in n.tlb : Walk(m, n.cur, e.page) = e.frame
  PROVE  Memory(n, S, taken) /\ \A s, v : Walk(n, s, v) = Walk(m, s, v)
<1>1. \A s, v : Walk(n, s, v) = Walk(m, s, v) BY DEF Walk
<1>2. \A u : FrameOf(n, u) = FrameOf(m, u) BY <1>1 DEF FrameOf
<1>3. FramesPlaced(n, S, taken)
  <2>1. FramesPlaced(m, S, taken) BY MemoryParts
  <2> QED BY <1>2, <2>1 DEF FramesPlaced
<1>4. TablesPlaced(n, S) BY <1>1, MemoryParts DEF TablesPlaced
<1>5. DeviceOnly(n) BY <1>1, MemoryParts DEF DeviceOnly
<1>6. \A e \in n.tlb : Walk(n, n.cur, e.page) = e.frame BY <1>1
<1>7. Memory(n, S, taken) BY <1>3, <1>4, <1>5, <1>6, MemoryParts DEF Memory, MemOK
<1> QED BY <1>1, <1>7

\* The memory that Vmm::init leaves.
LEMMA InitMemory ==
  ASSUME Init
  PROVE  /\ Memory(mem, {0}, {}) /\ mem.cur = 0
         /\ \A s \in 0 .. MaxSpace : \A v \in UserPage \cup KernelPage : Walk(mem, s, v) = None
<1> DEFINE dir == [s \in 0 .. MaxSpace |->
                     [p \in 0 .. N - 1 |-> IF s = 0 /\ p >= FirstKernel THEN p - FirstKernel ELSE None]]
           tab == [f \in Frame |->
                     IF f = Rec - FirstKernel
                     THEN [i \in 0 .. N - 1 |-> IF i >= FirstKernel THEN i - FirstKernel ELSE None]
                     ELSE IF f < N - FirstKernel THEN Absent ELSE Garbage]
           S == {0}
<1>1. mem = [dir |-> dir, tab |-> tab, free |-> {f \in Frame : f >= N - FirstKernel},
             tlb |-> {}, cur |-> 0, result |-> "ok"]
  BY DEF Init
<1>2. /\ mem.dir = dir /\ mem.tab = tab /\ mem.free = {f \in Frame : f >= N - FirstKernel}
      /\ mem.tlb = {} /\ mem.cur = 0 /\ mem.result = "ok"
  BY <1>1
<1>3. \A p \in FirstKernel .. N - 1 : p - FirstKernel \in Frame /\ p - FirstKernel < N - FirstKernel BY Layout DEF Frame
<1>4. dir \in [0 .. MaxSpace -> [0 .. N - 1 -> Frame \cup {None}]]
  <2>1. ASSUME NEW p \in 0 .. N - 1, p >= FirstKernel PROVE p - FirstKernel \in Frame BY <1>3, <2>1, Layout
  <2> QED BY <2>1
<1>5. tab \in [Frame -> [0 .. N - 1 -> Frame \cup {None, Device}]]
  <2>1. ASSUME NEW p \in 0 .. N - 1, p >= FirstKernel PROVE p - FirstKernel \in Frame BY <1>3, <2>1, Layout
  <2>2. [i \in 0 .. N - 1 |-> IF i >= FirstKernel THEN i - FirstKernel ELSE None] \in [0 .. N - 1 -> Frame \cup {None, Device}] BY <2>1
  <2>3. Absent \in [0 .. N - 1 -> Frame \cup {None, Device}] BY DEF Absent
  <2>4. 0 \in Frame BY Layout DEF Frame
  <2>5. Garbage \in [0 .. N - 1 -> Frame \cup {None, Device}] BY <2>4 DEF Garbage
  <2> QED BY <2>2, <2>3, <2>5
<1>6. \A s \in 0 .. MaxSpace : \A p \in 0 .. N - 1 : Dir(mem, s, p) = IF s = 0 /\ p >= FirstKernel THEN p - FirstKernel ELSE None
  BY <1>2 DEF Dir
<1>7. \A f \in Frame : \A i \in 0 .. N - 1 :
        Ent(mem, f, i) = IF f = Rec - FirstKernel THEN (IF i >= FirstKernel THEN i - FirstKernel ELSE None)
                         ELSE IF f < N - FirstKernel THEN None ELSE 0
  BY <1>2 DEF Ent, Absent, Garbage
<1>8. \A s \in (0 .. MaxSpace) \ S : mem.dir[s] = Absent BY <1>2 DEF Absent
<1> HIDE DEF dir, tab
<1>9. MemType(mem)
  <2>1. 0 \in 0 .. MaxSpace BY VmmAssumption
  <2> QED BY <1>1, <1>4, <1>5, <2>1 DEF MemType
<1>10. 0 \in 0 .. MaxSpace /\ S \subseteq 0 .. MaxSpace BY VmmAssumption
<1>11. ASSUME NEW s \in 0 .. MaxSpace, NEW v \in UserPage \cup KernelPage PROVE Walk(mem, s, v) = None
  <2> DEFINE q == Table(v)
             i == Index(v)
  <2>1. v \in Page /\ q # Rec BY Mappable
  <2>2. q \in 0 .. N - 1 /\ i \in 0 .. N - 1 BY <2>1, PageSplit
  <2>3. Walk(mem, s, v) = IF Dir(mem, s, q) = None THEN None ELSE Ent(mem, Dir(mem, s, q), i) BY WalkMeans
  <2> HIDE DEF q, i
  <2>4. Dir(mem, s, q) = IF s = 0 /\ q >= FirstKernel THEN q - FirstKernel ELSE None BY <1>6, <2>2
  <2>5. ASSUME s = 0, q >= FirstKernel PROVE Ent(mem, q - FirstKernel, i) = None
    <3>1. q - FirstKernel \in Frame /\ q - FirstKernel < N - FirstKernel BY <1>3, <2>2, <2>5, Layout
    <3>2. q - FirstKernel # Rec - FirstKernel BY <2>1, <2>2, Layout
    <3> QED BY <1>7, <2>2, <3>1, <3>2
  <2> QED BY <2>3, <2>4, <2>5
<1>12. FramesPlaced(mem, S, {})
  <2> DEFINE K == {<<"table", 0, p>> : p \in FirstKernel .. N - 1}
  <2>1. ASSUME NEW p \in FirstKernel .. N - 1 PROVE FrameOf(mem, <<"table", 0, p>>) = p - FirstKernel
    <3>1. p \in 0 .. N - 1 /\ p >= FirstKernel BY Layout
    <3>2. Dir(mem, 0, p) = p - FirstKernel BY <1>6, <1>10, <3>1
    <3> QED BY <3>2, FrameOfTable
  <2>2. ASSUME NEW u \in Uses(S), u \notin K PROVE FrameOf(mem, u) = None
    <3>1. \/ \E p \in 0 .. FirstKernel - 1 : u = <<"table", 0, p>>
          \/ \E w \in UserPage \cup KernelHeap : u = <<"page", 0, w>>
      BY <2>2 DEF Uses
    <3>2. ASSUME NEW p \in 0 .. FirstKernel - 1, u = <<"table", 0, p>> PROVE FrameOf(mem, u) = None
      <4>1. p \in 0 .. N - 1 /\ ~ p >= FirstKernel BY Layout
      <4>2. Dir(mem, 0, p) = None BY <1>6, <1>10, <4>1
      <4> QED BY <3>2, <4>2, FrameOfTable
    <3>3. ASSUME NEW w \in UserPage \cup KernelHeap, u = <<"page", 0, w>> PROVE FrameOf(mem, u) = None
      BY <1>10, <1>11, <3>3, FrameOfPage, Regions
    <3> QED BY <3>1, <3>2, <3>3
  <2>3. K \subseteq Uses(S) BY DEF Uses
  <2>4. ASSUME NEW u \in Uses(S), NEW w \in Uses(S), FrameOf(mem, u) # None, FrameOf(mem, u) = FrameOf(mem, w) PROVE u = w
    <3>1. u \in K /\ w \in K BY <2>2, <2>4
    <3>2. PICK p \in FirstKernel .. N - 1 : u = <<"table", 0, p>> BY <3>1
    <3>3. PICK q \in FirstKernel .. N - 1 : w = <<"table", 0, q>> BY <3>1
    <3>4. p - FirstKernel = q - FirstKernel BY <2>1, <2>4, <3>2, <3>3
    <3>5. p = q BY <3>4, Layout
    <3> QED BY <3>2, <3>3, <3>5
  <2>5. \A u \in Uses(S) : FrameOf(mem, u) \in Frame \cup {None} BY <1>3, <2>1, <2>2
  <2>6. mem.free = Frame \ {FrameOf(mem, u) : u \in Uses(S)}
    <3>1. ASSUME NEW f \in Frame, f < N - FirstKernel PROVE \E u \in Uses(S) : FrameOf(mem, u) = f
      <4>1. PICK p \in FirstKernel .. N - 1 : p - FirstKernel = f
        <5>1. f \in Nat /\ FirstKernel \in Nat /\ N \in Nat BY Layout DEF Frame
        <5>2. PICK p : p = f + FirstKernel OBVIOUS
        <5>3. p \in FirstKernel .. N - 1 /\ p - FirstKernel = f BY <3>1, <5>1, <5>2
        <5> QED BY <5>3
      <4>2. <<"table", 0, p>> \in K OBVIOUS
      <4>3. FrameOf(mem, <<"table", 0, p>>) = f BY <2>1, <4>1
      <4> QED BY <2>3, <4>2, <4>3
    <3>2. ASSUME NEW u \in Uses(S), FrameOf(mem, u) \in Frame PROVE FrameOf(mem, u) < N - FirstKernel
      <4>1. u \in K BY <2>2, <3>2, FrameType
      <4> QED BY <1>3, <2>1, <4>1
    <3>3. \A f \in Frame : f >= N - FirstKernel <=> ~ f < N - FirstKernel BY Layout DEF Frame
    <3> HIDE DEF K
    <3> QED BY <1>2, <3>1, <3>2, <3>3
  <2> QED BY <2>4, <2>5, <2>6 DEF FramesPlaced
<1>13. TablesPlaced(mem, S)
  <2>1. Rec \in 0 .. N - 1 /\ Rec >= FirstKernel /\ Rec - FirstKernel \in Frame BY <1>3, Layout
  <2>2. Dir(mem, 0, Rec) = Rec - FirstKernel BY <1>6, <1>10, <2>1
  <2>3. ASSUME NEW p \in FirstKernel .. N - 1 PROVE Dir(mem, 0, p) = p - FirstKernel
    <3>1. p \in 0 .. N - 1 /\ p >= FirstKernel BY Layout
    <3> QED BY <1>6, <1>10, <3>1
  <2>4. ASSUME NEW p \in 0 .. N - 1 PROVE Ent(mem, Rec - FirstKernel, p) = Dir(mem, 0, p) BY <1>6, <1>7, <1>10, <2>1
  <2>5. \A s \in S : s = 0 OBVIOUS
  <2> QED BY <1>8, <2>2, <2>3, <2>4, <2>5, Tables
<1>14. DeviceOnly(mem) BY <1>10, <1>11 DEF DeviceOnly
<1>15. Memory(mem, S, {}) BY <1>2, <1>9, <1>10, <1>12, <1>13, <1>14 DEF Memory, MemOK
<1> QED BY <1>2, <1>11, <1>15

-----------------------------------------------------------------------------
\* The frames that are neither free nor in use.
Lost(m, S) == Frame \ (m.free \cup {FrameOf(m, u) : u \in Uses(S)})

\* What is taken is what is lost otherwise: VmmInv can name it.
LEMMA TakenIsLost ==
  ASSUME NEW m, NEW S, NEW taken, Memory(m, S, taken)
  PROVE  taken = Lost(m, S)
<1>1. FramesPlaced(m, S, taken) /\ m.free \subseteq Frame BY MemoryParts, MemParts
<1> QED BY <1>1 DEF FramesPlaced, Lost

\* What the invariant says, with the lemmas' view of memory.
Ordered ==
  /\ \E k \in 1 .. MaxSpace + 1 : spaces = 0 .. k - 1 /\ Cardinality(spaces) = k
  /\ mem.result = "ok" /\ status \in {"ok", "oom", "no_table"}
  /\ \E taken : Memory(mem, spaces, taken) /\ (Alive => taken = {})

\* The invariant and the lemmas' view of it say the same.
LEMMA InvIsOrdered == VmmInv <=> Ordered
<1>1. ASSUME VmmInv PROVE Ordered
  <2>1. spaces = 0 .. Cardinality(spaces) - 1 /\ Cardinality(spaces) \in 1 .. MaxSpace + 1 BY <1>1 DEF VmmInv
  <2>2. spaces \subseteq 0 .. MaxSpace /\ 0 \in spaces BY <2>1, VmmAssumption
  <2>3. MemOK(mem, spaces, Lost(mem, spaces)) /\ (Alive => Lost(mem, spaces) = {}) BY <1>1 DEF VmmInv, Lost
  <2>4. Memory(mem, spaces, Lost(mem, spaces)) BY <2>2, <2>3 DEF Memory
  <2>5. mem.result = "ok" /\ status \in {"ok", "oom", "no_table"} BY <1>1 DEF VmmInv
  <2> QED BY <2>1, <2>3, <2>4, <2>5 DEF Ordered
<1>2. ASSUME Ordered PROVE VmmInv
  <2>1. PICK taken : Memory(mem, spaces, taken) /\ (Alive => taken = {}) BY <1>2 DEF Ordered
  <2>2. taken = Frame \ (mem.free \cup {FrameOf(mem, u) : u \in Uses(spaces)}) BY <2>1, TakenIsLost DEF Lost
  <2>3. MemOK(mem, spaces, taken) BY <2>1 DEF Memory
  <2>4. spaces = 0 .. Cardinality(spaces) - 1 /\ Cardinality(spaces) \in 1 .. MaxSpace + 1 BY <1>2 DEF Ordered
  <2>5. mem.result = "ok" /\ status \in {"ok", "oom", "no_table"} BY <1>2 DEF Ordered
  <2> QED BY <2>1, <2>2, <2>3, <2>4, <2>5 DEF VmmInv
<1> QED BY <1>1, <1>2

\* An operation that maps pages of V ends with the invariant.
LEMMA MappingStep ==
  ASSUME VmmInv, NEW n, NEW V, Ended(mem, n, spaces, V), Becomes(n), UNCHANGED spaces
  PROVE  /\ Ordered' /\ Grows(mem, mem', spaces, V)
<1>1. Ordered BY InvIsOrdered
<1>2. mem' = [n EXCEPT !.result = "ok"] /\ status' = n.result /\ spaces' = spaces BY DEF Becomes
<1>3. PICK left : /\ Memory(n, spaces, left) /\ n.result \in {"ok", "oom", "no_table"}
                  /\ n.result \in {"ok", "oom"} => left = {}
  BY DEF Ended
<1>4. Memory(mem', spaces, left) /\ Grows(n, mem', spaces, {}) /\ mem'.result = "ok" BY <1>2, <1>3, Ends
<1>5. Grows(mem, n, spaces, V) BY DEF Ended
<1>6. Grows(mem, mem', spaces, V \cup {}) BY <1>4, <1>5, GrowsOn
<1>7. Grows(mem, mem', spaces, V) BY <1>6, GrowsMore
<1>8. Alive' => left = {} BY <1>2, <1>3 DEF Alive
<1>9. Ordered' BY <1>1, <1>2, <1>3, <1>4, <1>8 DEF Ordered
<1> QED BY <1>7, <1>9

\* Before each operation every frame is free or in use.
LEMMA Before ==
  ASSUME VmmInv, Alive
  PROVE  /\ Memory(mem, spaces, {}) /\ mem.result = "ok"
         /\ \E k \in 1 .. MaxSpace + 1 : spaces = 0 .. k - 1 /\ Cardinality(spaces) = k
BY InvIsOrdered DEF Ordered

\* The pages of a run.
LEMMA PagesOf ==
  ASSUME NEW V, NEW v \in Nat, NEW count \in Nat, \A i \in 0 .. count - 1 : v + i \in V
  PROVE  Pages(v, count) \subseteq V
<1>1. \A w \in Page : w \in Nat BY Layout DEF Page
<1>2. ASSUME NEW w \in Pages(v, count) PROVE w \in V
  <2>1. w - v \in 0 .. count - 1 /\ v + (w - v) = w BY <1>1 DEF Pages
  <2> QED BY <2>1
<1> QED BY <1>2

\* The ELF loader's segments.
LEMMA MapUserStep ==
  ASSUME VmmInv, MapUser
  PROVE  /\ Ordered' /\ \E V \in SUBSET UserPage : Grows(mem, mem', spaces, V)
<1>1. PICK v \in UserPage, count \in 1 .. MaxCount :
        v + count - 1 \in UserPage /\ Becomes(map_alloc(mem, v, count))
  BY DEF MapUser
<1>2. Memory(mem, spaces, {}) /\ mem.result = "ok" BY <1>1, Before DEF Becomes
<1>3. v \in Nat /\ count \in Nat BY Layout, VmmAssumption DEF UserPage
<1>4. \A i \in 0 .. count - 1 : v + i \in UserPage BY <1>1, <1>3, Layout DEF UserPage
<1>5. Ended(mem, map_alloc(mem, v, count), spaces, Pages(v, count)) BY <1>2, <1>3, <1>4, MapAllocEnds
<1>6. UNCHANGED spaces BY DEF MapUser
<1>7. Ordered' /\ Grows(mem, mem', spaces, Pages(v, count)) BY <1>1, <1>5, <1>6, MappingStep
<1>8. Pages(v, count) \subseteq UserPage BY <1>3, <1>4, PagesOf
<1> QED BY <1>7, <1>8

\* The kernel's heap grows.
LEMMA GrowHeapStep ==
  ASSUME VmmInv, GrowHeap
  PROVE  /\ Ordered' /\ Grows(mem, mem', spaces, KernelPage)
<1>1. PICK v \in KernelHeap, count \in 1 .. MaxCount : Becomes(map_alloc(mem, v, count))
  BY DEF GrowHeap
<1>2. Memory(mem, spaces, {}) /\ mem.result = "ok" BY <1>1, Before DEF Becomes
<1>3. v \in Nat /\ count \in Nat /\ HeapEnd \in Nat /\ FirstKernel * N \in Nat /\ FirstKernel * N =< v
  <2> DEFINE a == FirstKernel * N
  <2>1. a \in Nat /\ HeapEnd \in Nat /\ MaxCount \in Nat BY Layout, VmmAssumption
  <2>2. KernelHeap = a .. HeapEnd - 1 BY DEF KernelHeap
  <2> HIDE DEF a
  <2>3. v \in Nat /\ count \in Nat /\ a =< v BY <2>1, <2>2
  <2> QED BY <2>1, <2>3 DEF a
<1>4. PICK a : a = FirstKernel * N OBVIOUS
<1>5. KernelHeap = a .. HeapEnd - 1 BY <1>4 DEF KernelHeap
<1>6. v + count > HeapEnd \/ \A i \in 0 .. count - 1 : v + i \in KernelHeap BY <1>3, <1>4, <1>5
<1>7. Ended(mem, map_alloc(mem, v, count), spaces, Pages(v, count)) BY <1>2, <1>3, <1>6, MapAllocEnds
<1>8. Ended(mem, map_alloc(mem, v, count), spaces, KernelPage)
  <2>1. CASE \A i \in 0 .. count - 1 : v + i \in KernelHeap
    <3>1. Pages(v, count) \subseteq KernelPage BY <1>3, <2>1, PagesOf, Regions
    <3> QED BY <1>7, <3>1, GrowsMore DEF Ended
  <2>2. CASE v + count > HeapEnd
    <3>1. map_alloc(mem, v, count) = [mem EXCEPT !.result = "oom"] BY <2>2 DEF map_alloc
    <3>2. Memory(map_alloc(mem, v, count), spaces, {}) /\ Grows(mem, map_alloc(mem, v, count), spaces, {})
      BY <1>2, <3>1, Ends
    <3> QED BY <1>7, <3>2, GrowsMore DEF Ended
  <2> QED BY <1>6, <2>1, <2>2
<1>9. UNCHANGED spaces BY DEF GrowHeap
<1> QED BY <1>1, <1>8, <1>9, MappingStep

\* A console maps the framebuffer.
LEMMA MapFramebufferStep ==
  ASSUME VmmInv, MapFramebuffer
  PROVE  /\ Ordered' /\ Grows(mem, mem', spaces, {Framebuffer})
<1>1. Becomes(map(mem, Framebuffer, Device, 1)) /\ Walk(mem, 0, Framebuffer) = None /\ UNCHANGED spaces
  BY DEF MapFramebuffer
<1>2. Memory(mem, spaces, {}) /\ mem.result = "ok" BY <1>1, Before DEF Becomes
<1>3. Ended(mem, map(mem, Framebuffer, Device, 1), spaces, {Framebuffer}) BY <1>1, <1>2, FramebufferMapped
<1> QED BY <1>1, <1>3, MappingStep

\* A new space.
LEMMA CloneStep ==
  ASSUME VmmInv, Clone
  PROVE  /\ Ordered'
         /\ \E k \in (0 .. MaxSpace) \ spaces :
              /\ spaces' = spaces \cup {k} /\ mem'.cur = mem.cur
              /\ \A s \in (0 .. MaxSpace) \ {k} : \A w \in Page : Walk(mem', s, w) = Walk(mem, s, w)
              /\ \A w \in UserPage : Walk(mem', k, w) = None
              /\ \A w \in KernelPage : Walk(mem', k, w) = Walk(mem, 0, w)
<1>1. PICK v \in KernelHeap :
        /\ Walk(mem, mem.cur, v) \notin TableFrames \cup {None}
        /\ Becomes(clone_pd(mem, Cardinality(spaces), resolve_va(mem, v)))
  BY DEF Clone
<1>2. Memory(mem, spaces, {}) /\ mem.result = "ok" BY <1>1, Before DEF Becomes
<1>3. PICK k \in 1 .. MaxSpace + 1 : spaces = 0 .. k - 1 /\ Cardinality(spaces) = k
  BY <1>1, Before DEF Becomes
<1>4. k =< MaxSpace /\ spaces' = spaces \cup {k} BY <1>3 DEF Clone
<1>5. k \in (0 .. MaxSpace) \ spaces BY <1>3, <1>4, VmmAssumption
<1> DEFINE r == resolve_va(mem, v)
<1>6. v \in KernelPage /\ v \in Page BY Mappable, Regions
<1>7. r = Walk(mem, mem.cur, v) /\ Walk(mem, mem.cur, v) = Walk(mem, 0, v)
  BY <1>2, <1>6, ResolveIsWalk, KernelWalk, MemoryParts
<1> HIDE DEF r
<1>8. r \in Frame
  <2>1. <<"page", 0, v>> \in Uses(spaces) BY DEF Uses
  <2>2. FrameOf(mem, <<"page", 0, v>>) = r BY <1>7, FrameOfPage
  <2>3. FramesPlaced(mem, spaces, {}) BY <1>2, MemoryParts
  <2> QED BY <1>1, <1>7, <2>1, <2>2, <2>3 DEF FramesPlaced
<1>9. \A s \in spaces : Dir(mem, s, Rec) # r BY <1>1, <1>7 DEF TableFrames, Dir
<1>10. PICK n : n = clone_pd(mem, k, r) OBVIOUS
<1>11. Becomes(n) BY <1>1, <1>3, <1>10 DEF r
<1>12. Cloned(mem, n, k, r) BY <1>2, <1>5, <1>8, <1>10, CloneIs
<1>13. Memory(n, spaces \cup {k}, {}) BY <1>2, <1>5, <1>7, <1>8, <1>9, <1>12, CloneMemory
<1>14. /\ \A s \in (0 .. MaxSpace) \ {k} : \A w \in Page : Walk(n, s, w) = Walk(mem, s, w)
       /\ \A w \in UserPage : Walk(n, k, w) = None
       /\ \A w \in KernelPage : Walk(n, k, w) = Walk(mem, 0, w)
  BY <1>2, <1>5, <1>7, <1>8, <1>9, <1>12, CloneWalks
<1>15. n.result = "ok" /\ MemType(n) /\ n.cur = mem.cur BY <1>2, <1>12 DEF Cloned
<1>16. mem' = [n EXCEPT !.result = "ok"] /\ status' = "ok" BY <1>11, <1>15 DEF Becomes
<1>17. mem' = n BY <1>15, <1>16 DEF MemType
<1>18. spaces' = 0 .. k /\ Cardinality(spaces') = k + 1
  <2>1. spaces' = 0 .. k BY <1>3, <1>4
  <2>2. Cardinality(0 .. k) = k - 0 + 1 BY FS_Interval
  <2> QED BY <2>1, <2>2
<1>19. Ordered'
  <2>1. k + 1 \in 1 .. MaxSpace + 1 /\ spaces' = 0 .. (k + 1) - 1 /\ Cardinality(spaces') = k + 1
    BY <1>4, <1>18, VmmAssumption
  <2>2. Memory(mem', spaces', {}) /\ mem'.result = "ok" BY <1>4, <1>13, <1>15, <1>17
  <2> QED BY <1>16, <2>1, <2>2 DEF Ordered
<1> QED BY <1>4, <1>5, <1>14, <1>15, <1>17, <1>19

\* Another space, and what the processor caches.
LEMMA TurnSteps ==
  ASSUME VmmInv, Switch \/ Access \/ Evict
  PROVE  /\ Ordered' /\ \A s, v : Walk(mem', s, v) = Walk(mem, s, v)
         /\ spaces' = spaces /\ (mem'.cur = mem.cur \/ Switch) /\ mem'.cur \in spaces
<1>1. Alive BY DEF Switch, Access, Evict, Becomes
<1>2. /\ Memory(mem, spaces, {}) /\ mem.result = "ok"
      /\ \E k \in 1 .. MaxSpace + 1 : spaces = 0 .. k - 1 /\ Cardinality(spaces) = k
  BY <1>1, Before
<1>3. MemType(mem) /\ mem.cur \in spaces /\ spaces \subseteq 0 .. MaxSpace BY <1>2, MemoryParts
<1>4. \A e \in mem.tlb : Walk(mem, mem.cur, e.page) = e.frame BY <1>2, MemoryParts
<1>5. /\ MemType(mem') /\ mem'.dir = mem.dir /\ mem'.tab = mem.tab /\ mem'.free = mem.free /\ mem'.result = "ok"
      /\ \A e \in mem'.tlb : Walk(mem, mem'.cur, e.page) = e.frame
      /\ spaces' = spaces /\ status' \in {"ok", "oom", "no_table"}
      /\ (mem'.cur = mem.cur \/ Switch) /\ mem'.cur \in spaces
  <2>1. CASE Switch
    <3>1. PICK s \in spaces : Becomes(switch_pd(mem, s)) /\ UNCHANGED spaces BY <2>1 DEF Switch
    <3>2. mem' = [[mem EXCEPT !.cur = s, !.tlb = {}] EXCEPT !.result = "ok"] /\ status' = [mem EXCEPT !.cur = s, !.tlb = {}].result
      BY <3>1 DEF Becomes, switch_pd
    <3>3. s \in 0 .. MaxSpace BY <1>3
    <3> QED BY <1>2, <1>3, <2>1, <3>1, <3>2, <3>3 DEF MemType
  <2>2. CASE Access
    <3>1. PICK v \in Page :
            /\ Walk(mem, mem.cur, v) # None
            /\ mem' = [mem EXCEPT !.tlb = @ \cup {[page |-> v, frame |-> Walk(mem, mem.cur, v)]}]
      BY <2>2 DEF Access
    <3>2. UNCHANGED <<spaces, status>> /\ status \in {"ok", "oom", "no_table"}
      BY <2>2, InvIsOrdered DEF Access, Ordered
    <3>3. Walk(mem, mem.cur, v) \in Frame \cup {Device} BY <1>3, <3>1, WalkType
    <3> QED BY <1>2, <1>3, <1>4, <3>1, <3>2, <3>3 DEF MemType
  <2>3. CASE Evict
    <3>1. PICK e \in mem.tlb : mem' = [mem EXCEPT !.tlb = @ \ {e}] BY <2>3 DEF Evict
    <3>2. UNCHANGED <<spaces, status>> /\ status \in {"ok", "oom", "no_table"}
      BY <2>3, InvIsOrdered DEF Evict, Ordered
    <3> QED BY <1>2, <1>3, <1>4, <3>1, <3>2 DEF MemType
  <2> QED BY <2>1, <2>2, <2>3
<1>6. Memory(mem', spaces, {}) /\ \A s, v : Walk(mem', s, v) = Walk(mem, s, v) BY <1>2, <1>5, Turns
<1>7. Ordered' BY <1>2, <1>5, <1>6 DEF Ordered
<1> QED BY <1>5, <1>6, <1>7

\* Memory is in order at all times: VmmInv is inductive.
THEOREM VmmInvariant == Spec => []VmmInv
<1>1. Init => VmmInv
  <2>1. ASSUME Init PROVE Ordered
    <3>1. Memory(mem, {0}, {}) /\ mem.result = "ok" /\ spaces = {0} /\ status = "ok" BY <2>1, InitMemory DEF Init
    <3>2. spaces = 0 .. 1 - 1 /\ Cardinality(spaces) = 1 /\ 1 \in 1 .. MaxSpace + 1
      <4>1. Cardinality({0}) = 1 BY FS_Singleton
      <4> QED BY <3>1, <4>1, VmmAssumption
    <3> QED BY <3>1, <3>2 DEF Ordered
  <2> QED BY <2>1, InvIsOrdered
<1>2. VmmInv /\ [Next]_vars => VmmInv'
  <2>1. ASSUME VmmInv, Next PROVE Ordered'
    BY <2>1, MapUserStep, GrowHeapStep, MapFramebufferStep, CloneStep, TurnSteps DEF Next
  <2>2. (VmmInv <=> Ordered)' BY InvIsOrdered, PTL
  <2>3. ASSUME VmmInv, UNCHANGED vars PROVE VmmInv'
    BY <2>3 DEF vars, VmmInv, Alive
  <2> QED BY <2>1, <2>2, <2>3
<1> QED BY <1>1, <1>2, PTL DEF Spec

-----------------------------------------------------------------------------
\* Memory is in order in every state of the invariant.
LEMMA InvMemory ==
  ASSUME VmmInv
  PROVE  \E taken : Memory(mem, spaces, taken) /\ (Alive => taken = {})
BY InvIsOrdered DEF Ordered

\* In every address space the recursive mapping shows exactly the tables of the
\* directory (resolve_va and get_ptab, vmm.cc).
THEOREM RecursiveExactHolds == Spec => []RecursiveExact
<1>1. VmmInv => RecursiveExact
  <2>1. SUFFICES ASSUME VmmInv, NEW s \in spaces, NEW p \in 0 .. N - 1
                 PROVE  Walk(mem, s, TablePage(p)) = mem.dir[s][p]
    BY DEF RecursiveExact
  <2>2. PICK taken : Memory(mem, spaces, taken) BY <2>1, InvMemory
  <2>3. Walk(mem, s, TablePage(p)) = Dir(mem, s, p) BY <2>2, RecWalk
  <2> QED BY <2>3 DEF Dir
<1> QED BY <1>1, VmmInvariant, PTL

\* Kernel memory is the same in all address spaces, whenever they were cloned
\* (vmm.hh:23-24).
THEOREM KernelSharedHolds == Spec => []KernelShared
<1>1. VmmInv => KernelShared
  <2>1. SUFFICES ASSUME VmmInv, NEW s \in spaces, NEW v \in KernelPage PROVE Walk(mem, s, v) = Walk(mem, 0, v)
    BY DEF KernelShared
  <2>2. PICK taken : Memory(mem, spaces, taken) BY <2>1, InvMemory
  <2> QED BY <2>2, KernelWalk
<1> QED BY <1>1, VmmInvariant, PTL

\* The TLB holds nothing the tables do not say, whatever is mapped and however
\* spaces are switched.
THEOREM TlbCoherentHolds == Spec => []TlbCoherent
<1>1. VmmInv => TlbCoherent
  <2>1. SUFFICES ASSUME VmmInv PROVE TlbCoherent OBVIOUS
  <2>2. PICK taken : Memory(mem, spaces, taken) BY <2>1, InvMemory
  <2> QED BY <2>2, MemoryParts DEF TlbCoherent
<1> QED BY <1>1, VmmInvariant, PTL

\* A one-to-one map keeps the number of elements.
LEMMA AsMany ==
  ASSUME NEW A, IsFiniteSet(A), NEW B, NEW f \in [A -> B], \A a, b \in A : f[a] = f[b] => a = b,
         \A b \in B : \E a \in A : f[a] = b
  PROVE  IsFiniteSet(B) /\ Cardinality(A) = Cardinality(B)
<1>1. f \in Surjection(A, B) BY DEF Surjection
<1>2. f \in Injection(A, B) BY DEF Injection, IsInjective
<1> QED BY <1>1, <1>2, FS_Surjection

\* Every frame has one use, none is lost, and no page is mapped twice (the
\* assertion at vmm.cc:156).
THEOREM OneUseHolds == Spec => []OneUse
<1>1. VmmInv => OneUse
  <2> SUFFICES ASSUME VmmInv PROVE OneUse OBVIOUS
  <2> DEFINE user(s) == UserTables(s) \cup Mapped(s, UserPage)
             tables == {mem.dir[0][p] : p \in FirstKernel .. N - 1}
             kernel == Mapped(0, KernelHeap) \cup tables
             places(s) == {<<s, v>> : v \in {w \in UserPage : Walk(mem, s, w) # None}}
             U(u) == FrameOf(mem, u)
             uses(s) == {<<"table", s, p>> : p \in 0 .. FirstKernel - 1} \cup {<<"page", s, v>> : v \in UserPage}
             kuses == {<<"table", 0, p>> : p \in FirstKernel .. N - 1} \cup {<<"page", 0, v>> : v \in KernelHeap}
  <2>1. PICK taken : Memory(mem, spaces, taken) /\ (Alive => taken = {}) BY InvMemory
  <2>2. FramesPlaced(mem, spaces, taken) /\ 0 \in spaces /\ mem.free \subseteq Frame BY <2>1, MemoryParts, MemParts
  <2>3. \A s \in spaces : \A f : f \in UserTables(s) <=> f # None /\ \E p \in 0 .. FirstKernel - 1 : U(<<"table", s, p>>) = f
    <3>1. SUFFICES ASSUME NEW s, NEW f
                   PROVE  f \in UserTables(s) <=> f # None /\ \E p \in 0 .. FirstKernel - 1 : U(<<"table", s, p>>) = f
      OBVIOUS
    <3>2. UserTables(s) = {Dir(mem, s, p) : p \in 0 .. FirstKernel - 1} \ {None} BY DEF UserTables, Dir
    <3>3. \A p : U(<<"table", s, p>>) = Dir(mem, s, p) BY FrameOfTable
    <3> HIDE DEF U
    <3> QED BY <3>2, <3>3
  <2>4. \A s \in spaces : \A f : f \in Mapped(s, UserPage) <=> f # None /\ \E v \in UserPage : U(<<"page", s, v>>) = f
    BY FrameOfPage DEF Mapped
  <2>5. \A f : f \in Mapped(0, KernelHeap) <=> f # None /\ \E v \in KernelHeap : U(<<"page", 0, v>>) = f
    BY FrameOfPage DEF Mapped
  <2>6. \A p \in FirstKernel .. N - 1 : Dir(mem, 0, p) # None
    <3>1. ASSUME NEW p \in FirstKernel .. N - 1 PROVE Dir(mem, 0, p) = p - FirstKernel
      <4>1. p \in 0 .. N - 1 /\ FirstKernel =< p BY Layout
      <4>2. p = Rec => Dir(mem, 0, p) = p - FirstKernel BY <2>1, MemoryParts, Tables
      <4> QED BY <2>1, <2>2, <4>1, <4>2, KernelTable
    <3> QED BY <3>1, Layout DEF None
  <2>7. \A f : f \in tables <=> f # None /\ \E p \in FirstKernel .. N - 1 : U(<<"table", 0, p>>) = f
    <3>1. tables = {Dir(mem, 0, p) : p \in FirstKernel .. N - 1} BY DEF Dir
    <3>2. \A p : U(<<"table", 0, p>>) = Dir(mem, 0, p) BY FrameOfTable
    <3> HIDE DEF U, tables
    <3> QED BY <2>6, <3>1, <3>2
  <2>8. \A s \in spaces : \A f : f \in user(s) <=> f # None /\ \E u \in uses(s) : U(u) = f
    <3>1. SUFFICES ASSUME NEW s \in spaces, NEW f PROVE f \in user(s) <=> f # None /\ \E u \in uses(s) : U(u) = f
      OBVIOUS
    <3> HIDE DEF U
    <3>2. f \in UserTables(s) <=> f # None /\ \E p \in 0 .. FirstKernel - 1 : U(<<"table", s, p>>) = f BY <2>3
    <3>3. f \in Mapped(s, UserPage) <=> f # None /\ \E v \in UserPage : U(<<"page", s, v>>) = f BY <2>4
    <3> QED BY <3>2, <3>3
  <2>9. \A f : f \in kernel <=> f # None /\ \E u \in kuses : U(u) = f
    <3>1. SUFFICES ASSUME NEW f PROVE f \in kernel <=> f # None /\ \E u \in kuses : U(u) = f
      OBVIOUS
    <3>2. f \in tables <=> f # None /\ \E p \in FirstKernel .. N - 1 : U(<<"table", 0, p>>) = f BY <2>7
    <3> HIDE DEF U, tables
    <3>3. f \in Mapped(0, KernelHeap) <=> f # None /\ \E v \in KernelHeap : U(<<"page", 0, v>>) = f BY <2>5
    <3> QED BY <3>2, <3>3
  <2>10. \A u : u \in Uses(spaces) <=> u \in kuses \/ \E s \in spaces : u \in uses(s) BY DEF Uses
  <2>11. \A u, w \in Uses(spaces) : U(u) # None /\ U(u) = U(w) => u = w BY <2>2 DEF FramesPlaced
  <2>12. status # "remap" BY DEF VmmInv
  <2>13. Alive => mem.free = Frame \ (kernel \cup UNION {user(s) : s \in spaces})
    <3>1. SUFFICES ASSUME Alive PROVE mem.free = Frame \ (kernel \cup UNION {user(s) : s \in spaces}) OBVIOUS
    <3>2. mem.free = Frame \ {U(u) : u \in Uses(spaces)} BY <2>1, <2>2, <3>1 DEF FramesPlaced
    <3>3. ASSUME NEW f \in Frame PROVE (\E u \in Uses(spaces) : U(u) = f) <=> f \in kernel \/ \E s \in spaces : f \in user(s)
      <4>1. f # None BY FrameType
      <4>2. f \in kernel <=> \E u \in kuses : U(u) = f BY <2>9, <4>1
      <4>3. \A s \in spaces : f \in user(s) <=> \E u \in uses(s) : U(u) = f BY <2>8, <4>1
      <4> HIDE DEF U, user, kernel, uses, kuses
      <4> QED BY <2>10, <4>2, <4>3
    <3> HIDE DEF U, user, kernel
    <3> QED BY <3>2, <3>3
  <2>14. \A s \in spaces : user(s) \cap kernel = {}
    <3>1. SUFFICES ASSUME NEW s \in spaces, NEW f \in user(s), f \in kernel PROVE FALSE OBVIOUS
    <3>2. PICK u \in uses(s) : U(u) = f /\ f # None BY <2>8
    <3>3. PICK w \in kuses : U(w) = f BY <2>9, <3>1
    <3>4. u = w BY <2>10, <2>11, <3>2, <3>3
    <3>5. uses(s) \cap kuses = {} BY Layout, Regions
    <3> QED BY <3>4, <3>5
  <2>15. \A s \in spaces : UserTables(s) \cap Mapped(s, UserPage) = {}
    <3>1. SUFFICES ASSUME NEW s \in spaces, NEW f \in UserTables(s), f \in Mapped(s, UserPage) PROVE FALSE OBVIOUS
    <3>2. PICK p \in 0 .. FirstKernel - 1 : U(<<"table", s, p>>) = f /\ f # None BY <2>3
    <3>3. PICK v \in UserPage : U(<<"page", s, v>>) = f BY <2>4, <3>1
    <3>4. <<"table", s, p>> = <<"page", s, v>> BY <2>10, <2>11, <3>2, <3>3
    <3> QED BY <3>4
  <2>16. \A s, t \in spaces : s # t => user(s) \cap user(t) = {}
    <3>1. SUFFICES ASSUME NEW s \in spaces, NEW t \in spaces, s # t, NEW f \in user(s), f \in user(t) PROVE FALSE OBVIOUS
    <3>2. PICK u \in uses(s) : U(u) = f /\ f # None BY <2>8
    <3>3. PICK w \in uses(t) : U(w) = f BY <2>8, <3>1
    <3>4. u = w BY <2>10, <2>11, <3>2, <3>3
    <3>5. uses(s) \cap uses(t) = {} BY <3>1
    <3> QED BY <3>4, <3>5
  <2>17. \A s \in spaces : Cardinality(places(s)) = Cardinality(Mapped(s, UserPage))
    <3>1. SUFFICES ASSUME NEW s \in spaces PROVE Cardinality(places(s)) = Cardinality(Mapped(s, UserPage)) OBVIOUS
    <3> DEFINE A == places(s)
               walk == [a \in A |-> Walk(mem, s, a[2])]
               mapped == {w \in UserPage : Walk(mem, s, w) # None}
               place == [w \in mapped |-> <<s, w>>]
    <3>2. IsFiniteSet(mapped)
      <4>1. IsFiniteSet(UserPage) BY FS_Interval, Layout DEF UserPage
      <4> QED BY <4>1, FS_Subset
    <3>3. IsFiniteSet(A)
      <4>1. place \in [mapped -> A] /\ \A v, w \in mapped : place[v] = place[w] => v = w OBVIOUS
      <4>2. \A a \in A : \E w \in mapped : place[w] = a OBVIOUS
      <4> HIDE DEF A, mapped, place
      <4> QED BY <3>2, <4>1, <4>2, AsMany
    <3>4. \A a \in A : a = <<s, a[2]>> /\ a[2] \in UserPage /\ walk[a] = Walk(mem, s, a[2]) /\ walk[a] # None OBVIOUS
    <3>5. ASSUME NEW a \in A, NEW b \in A, walk[a] = walk[b] PROVE a = b
      <4>1. U(<<"page", s, a[2]>>) = walk[a] /\ U(<<"page", s, b[2]>>) = walk[b] BY <3>4, FrameOfPage
      <4>2. <<"page", s, a[2]>> \in Uses(spaces) /\ <<"page", s, b[2]>> \in Uses(spaces) BY <3>4 DEF Uses
      <4>3. <<"page", s, a[2]>> = <<"page", s, b[2]>> BY <2>11, <3>4, <3>5, <4>1, <4>2
      <4> QED BY <3>4, <4>3
    <3>6. Mapped(s, UserPage) = {walk[a] : a \in A}
      <4>1. ASSUME NEW v \in UserPage, Walk(mem, s, v) # None PROVE \E a \in A : walk[a] = Walk(mem, s, v)
        <5>1. <<s, v>> \in A /\ walk[<<s, v>>] = Walk(mem, s, v) BY <4>1
        <5> QED BY <5>1
      <4> HIDE DEF A, walk
      <4> QED BY <3>4, <4>1 DEF Mapped
    <3>7. walk \in [A -> {walk[a] : a \in A}] OBVIOUS
    <3> HIDE DEF A, walk
    <3>8. walk \in [A -> Mapped(s, UserPage)] /\ \A f \in Mapped(s, UserPage) : \E a \in A : walk[a] = f BY <3>6, <3>7
    <3>9. Cardinality(A) = Cardinality(Mapped(s, UserPage)) BY <3>3, <3>5, <3>8, AsMany
    <3> QED BY <3>9 DEF A
  <2> HIDE DEF user, kernel, places
  <2>18. OneUse <=> /\ status # "remap"
                    /\ Alive =>
                         /\ mem.free = Frame \ (kernel \cup UNION {user(s) : s \in spaces})
                         /\ \A s \in spaces : user(s) \cap kernel = {} /\ UserTables(s) \cap Mapped(s, UserPage) = {}
                         /\ \A s, t \in spaces : s # t => user(s) \cap user(t) = {}
                         /\ \A s \in spaces : Cardinality(places(s)) = Cardinality(Mapped(s, UserPage))
    BY Zenon DEF OneUse, user, kernel, places
  <2> QED BY <2>12, <2>13, <2>14, <2>15, <2>16, <2>17, <2>18
<1> QED BY <1>1, VmmInvariant, PTL

-----------------------------------------------------------------------------
\* No frame is mapped twice, but for the kernel's, in all spaces.
LEMMA OneFrame ==
  ASSUME NEW m, NEW S, NEW taken, Memory(m, S, taken), NEW s \in S, NEW t \in S,
         NEW v \in UserPage \cup KernelPage, NEW w \in UserPage \cup KernelPage,
         Walk(m, s, v) = Walk(m, t, w), Walk(m, s, v) # None
  PROVE  v = w /\ (s = t \/ v \in KernelPage)
<1> DEFINE Place(z, x) == <<"page", IF x \in UserPage THEN z ELSE 0, x>>
<1>1. FramesPlaced(m, S, taken) /\ DeviceOnly(m) /\ 0 \in S BY MemoryParts
<1>2. ASSUME NEW z \in S, NEW x \in UserPage \cup KernelPage, Walk(m, z, x) # None
      PROVE  \/ Place(z, x) \in Uses(S) /\ FrameOf(m, Place(z, x)) = Walk(m, z, x) /\ Walk(m, z, x) \in Frame
             \/ x = Framebuffer /\ Walk(m, z, x) = Device
  <2>1. CASE x \in UserPage
    <3>1. Place(z, x) = <<"page", z, x>> BY <2>1
    <3>2. <<"page", z, x>> \in Uses(S) BY <2>1 DEF Uses
    <3>3. FrameOf(m, <<"page", z, x>>) = Walk(m, z, x) BY FrameOfPage
    <3> QED BY <1>1, <1>2, <3>1, <3>2, <3>3 DEF FramesPlaced
  <2>2. CASE x \in KernelHeap
    <3>1. Place(z, x) = <<"page", 0, x>> BY <2>2, Regions
    <3>2. <<"page", 0, x>> \in Uses(S) BY <2>2 DEF Uses
    <3>3. FrameOf(m, <<"page", 0, x>>) = Walk(m, 0, x) BY FrameOfPage
    <3>4. Walk(m, z, x) = Walk(m, 0, x) BY <2>2, KernelWalk, Regions
    <3> QED BY <1>1, <1>2, <3>1, <3>2, <3>3, <3>4 DEF FramesPlaced
  <2>3. CASE x \in KernelPage \ KernelHeap
    <3>1. Walk(m, z, x) = Walk(m, 0, x) BY <2>3, KernelWalk
    <3> QED BY <1>1, <1>2, <2>3, <3>1 DEF DeviceOnly
  <2> QED BY <2>1, <2>2, <2>3
<1>3. CASE Walk(m, s, v) = Device
  <2>1. v = Framebuffer /\ w = Framebuffer BY <1>2, <1>3, FrameType
  <2> QED BY <2>1, Regions
<1>4. CASE Walk(m, s, v) # Device
  <2>1. Place(s, v) \in Uses(S) /\ FrameOf(m, Place(s, v)) = Walk(m, s, v) BY <1>2, <1>4
  <2>2. Place(t, w) \in Uses(S) /\ FrameOf(m, Place(t, w)) = Walk(m, t, w) BY <1>2, <1>4
  <2>3. Place(s, v) = Place(t, w) BY <1>1, <2>1, <2>2 DEF FramesPlaced
  <2>4. v = w /\ (IF v \in UserPage THEN s ELSE 0) = (IF w \in UserPage THEN t ELSE 0) BY <2>3
  <2> QED BY <2>4
<1> QED BY <1>3, <1>4

\* What the abstract specification says, of walks.
LEMMA NewInIs ==
  ASSUME NEW s \in 0 .. MaxSpace
  PROVE  Spaces!NewIn(s) = {v \in UserPage \cup KernelPage : Walk(mem', s, v) # Walk(mem, s, v)}
BY DEF Spaces!NewIn

\* Fresh, of walks: frames that no page had, all different.
LEMMA FreshIs ==
  ASSUME NEW s \in 0 .. MaxSpace, spaces \subseteq 0 .. MaxSpace,
         \A v \in Spaces!NewIn(s) :
           /\ Walk(mem, s, v) = None /\ Walk(mem', s, v) # None
           /\ \A t \in spaces, w \in UserPage \cup KernelPage :
                Walk(mem, t, w) # None => Walk(mem', s, v) # Walk(mem, t, w),
         \A v, w \in Spaces!NewIn(s) : v # w => Walk(mem', s, v) # Walk(mem', s, w)
  PROVE  Spaces!Fresh(s)
<1> DEFINE maps == [t \in 0 .. MaxSpace |-> [v \in UserPage \cup KernelPage |-> Walk(mem, t, v)]]
<1>1. \A v \in UserPage \cup KernelPage : maps[s][v] = Walk(mem, s, v) /\ maps'[s][v] = Walk(mem', s, v) OBVIOUS
<1>2. ASSUME NEW f \in Spaces!Used
      PROVE  f # None /\ \E t \in spaces : \E v \in UserPage \cup KernelPage : f = Walk(mem, t, v)
  <2>1. \A t \in 0 .. MaxSpace : \A v \in UserPage \cup KernelPage : maps[t][v] = Walk(mem, t, v) OBVIOUS
  <2>2. Spaces!Used = {maps[t][v] : t \in spaces, v \in UserPage \cup KernelPage} \ {None} BY DEF Spaces!Used
  <2> HIDE DEF maps
  <2>3. f # None /\ \E t \in spaces, v \in UserPage \cup KernelPage : f = maps[t][v] BY <2>2
  <2> QED BY <2>1, <2>3
<1>3. Spaces!NewIn(s) \subseteq UserPage \cup KernelPage BY NewInIs
<1>4. Spaces!Fresh(s) <=> /\ \A v \in Spaces!NewIn(s) : maps[s][v] = None /\ maps'[s][v] \notin Spaces!Used \cup {None}
                          /\ \A v, w \in Spaces!NewIn(s) : v # w => maps'[s][v] # maps'[s][w]
  BY DEF Spaces!Fresh
<1> HIDE DEF maps
<1> QED BY <1>1, <1>2, <1>3, <1>4

\* Pages that become mapped get frames nobody has.
LEMMA GrowthIsFresh ==
  ASSUME NEW a, NEW b, Memory(mem, spaces, a), Memory(mem', spaces, b), NEW V, Grows(mem, mem', spaces, V),
         NEW s \in spaces
  PROVE  Spaces!Fresh(s)
<1>1. spaces \subseteq 0 .. MaxSpace BY MemoryParts
<1>2. ASSUME NEW v \in Spaces!NewIn(s) PROVE v \in UserPage \cup KernelPage /\ Walk(mem, s, v) = None /\ Walk(mem', s, v) # None
  <2>1. v \in UserPage \cup KernelPage /\ Walk(mem', s, v) # Walk(mem, s, v) BY <1>1, NewInIs
  <2>2. v \in Page /\ Table(v) # Rec BY <2>1, Mappable
  <2>3. Walk(mem, s, v) = None BY <1>1, <2>1, <2>2 DEF Grows
  <2> QED BY <2>1, <2>3
<1>3. ASSUME NEW v \in Spaces!NewIn(s), NEW t \in spaces, NEW w \in UserPage \cup KernelPage,
             Walk(mem, t, w) # None, Walk(mem', s, v) = Walk(mem, t, w)
      PROVE  FALSE
  <2>1. w \in Page /\ Table(w) # Rec BY Mappable
  <2>2. Walk(mem', t, w) = Walk(mem, t, w) BY <1>1, <1>3, <2>1 DEF Grows
  <2>3. v = w /\ (s = t \/ v \in KernelPage) BY <1>2, <1>3, <2>2, OneFrame
  <2>4. v \in KernelPage => Walk(mem, s, v) = Walk(mem, 0, v) /\ Walk(mem, t, v) = Walk(mem, 0, v) BY KernelWalk
  <2> QED BY <1>2, <1>3, <2>3, <2>4
<1>4. ASSUME NEW v \in Spaces!NewIn(s), NEW w \in Spaces!NewIn(s), Walk(mem', s, v) = Walk(mem', s, w)
      PROVE  v = w
  BY <1>2, <1>4, OneFrame
<1> QED BY <1>1, <1>2, <1>3, <1>4, FreshIs

\* The paging code implements address spaces: every operation is one step of
\* the abstract specification, and what the processor caches does not show.
THEOREM VmmImplementsAddressSpaces == Spec => ImplementsAddressSpaces
<1> DEFINE maps == [s \in 0 .. MaxSpace |-> [v \in UserPage \cup KernelPage |-> Walk(mem, s, v)]]
           abstract == <<maps, spaces, mem.cur>>
<1>1. Init => Spaces!Init
  <2>1. SUFFICES ASSUME Init PROVE Spaces!Init OBVIOUS
  <2>2. mem.cur = 0 /\ spaces = {0} /\ \A s \in 0 .. MaxSpace : \A v \in UserPage \cup KernelPage : Walk(mem, s, v) = None
    BY <2>1, InitMemory DEF Init
  <2>3. maps = [s \in 0 .. MaxSpace |-> [v \in UserPage \cup KernelPage |-> None]] BY <2>2
  <2> QED BY <2>2, <2>3 DEF Spaces!Init
<1>2. VmmInv /\ [Next]_vars => [Spaces!Next]_abstract
  <2> SUFFICES ASSUME VmmInv, [Next]_vars PROVE Spaces!Next \/ UNCHANGED abstract OBVIOUS
  <2>1. PICK a : Memory(mem, spaces, a) BY InvMemory
  <2>2. spaces \subseteq 0 .. MaxSpace /\ 0 \in spaces /\ mem.cur \in spaces BY <2>1, MemoryParts
  <2>3. ASSUME NEW s \in 0 .. MaxSpace, NEW v \in UserPage \cup KernelPage
        PROVE  maps[s][v] = Walk(mem, s, v) /\ maps'[s][v] = Walk(mem', s, v)
    OBVIOUS
  <2>4. CASE MapUser
    <3>1. Ordered' /\ spaces' = spaces BY <2>4, MapUserStep DEF MapUser
    <3>2. PICK V \in SUBSET UserPage : Grows(mem, mem', spaces, V) BY <2>4, MapUserStep
    <3>3. PICK b : Memory(mem', spaces, b) BY <3>1 DEF Ordered
    <3>4. ASSUME NEW s \in 0 .. MaxSpace, NEW v \in Spaces!NewIn(s) PROVE v \in UserPage /\ s = mem.cur
      <4>1. v \in UserPage \cup KernelPage /\ Walk(mem', s, v) # Walk(mem, s, v) BY NewInIs
      <4>2. v \in Page /\ Table(v) # Rec BY <4>1, Mappable
      <4>3. v \in V /\ (s = mem.cur \/ FirstKernel =< Table(v)) BY <3>2, <4>1, <4>2 DEF Grows
      <4>4. v \in UserPage BY <4>3
      <4>5. ~ FirstKernel =< Table(v) BY <4>2, <4>4, Regions, PageSplit, Layout
      <4> QED BY <4>3, <4>4, <4>5
    <3>5. Spaces!NewIn(mem.cur) \subseteq UserPage /\ \A s \in (0 .. MaxSpace) \ {mem.cur} : Spaces!NewIn(s) = {}
      BY <2>2, <3>4
    <3>6. Spaces!Fresh(mem.cur) BY <2>1, <2>2, <3>2, <3>3, GrowthIsFresh
    <3>7. mem.cur # 0 /\ mem'.cur = mem.cur BY <2>4, <3>2 DEF MapUser, Grows
    <3>8. Spaces!MapUser BY <3>1, <3>5, <3>6, <3>7 DEF Spaces!MapUser
    <3> QED BY <3>8 DEF Spaces!Next
  <2>5. CASE GrowHeap \/ MapFramebuffer
    <3>1. Ordered' /\ spaces' = spaces BY <2>5, GrowHeapStep, MapFramebufferStep DEF GrowHeap, MapFramebuffer
    <3>2. PICK V \in SUBSET KernelPage : Grows(mem, mem', spaces, V)
      BY <2>5, GrowHeapStep, MapFramebufferStep, Regions
    <3>3. PICK b : Memory(mem', spaces, b) BY <3>1 DEF Ordered
    <3>4. ASSUME NEW s \in 0 .. MaxSpace, NEW v \in UserPage \cup KernelPage, Walk(mem', s, v) # Walk(mem, s, v)
          PROVE  v \in KernelPage /\ s \in spaces
      <4>1. v \in Page /\ Table(v) # Rec BY Mappable
      <4>2. v \in V /\ s \in spaces BY <3>2, <3>4, <4>1 DEF Grows
      <4> QED BY <4>2
    <3>5. Spaces!NewIn(0) \subseteq KernelPage /\ \A s \in (0 .. MaxSpace) \ spaces : Spaces!NewIn(s) = {}
      BY <2>2, <3>4, NewInIs
    <3>6. Spaces!Fresh(0) BY <2>1, <2>2, <3>2, <3>3, GrowthIsFresh
    <3>7. mem'.cur = mem.cur BY <3>2 DEF Grows
    <3>8. ASSUME NEW s \in 0 .. MaxSpace, NEW v \in UserPage PROVE maps'[s][v] = maps[s][v]
      <4>1. v \notin KernelPage BY Regions
      <4> QED BY <2>3, <3>4, <4>1
    <3>9. ASSUME NEW s \in spaces, NEW v \in KernelPage PROVE maps'[s][v] = maps'[0][v]
      <4>1. Walk(mem', s, v) = Walk(mem', 0, v) BY <3>3, KernelWalk
      <4> QED BY <2>2, <2>3, <4>1
    <3> HIDE DEF maps
    <3>10. Spaces!MapKernel BY <3>1, <3>5, <3>6, <3>7, <3>8, <3>9 DEF Spaces!MapKernel, maps
    <3> QED BY <3>10 DEF Spaces!Next
  <2>6. CASE Clone
    <3>1. PICK k \in (0 .. MaxSpace) \ spaces :
            /\ spaces' = spaces \cup {k} /\ mem'.cur = mem.cur
            /\ \A s \in (0 .. MaxSpace) \ {k} : \A w \in Page : Walk(mem', s, w) = Walk(mem, s, w)
            /\ \A w \in UserPage : Walk(mem', k, w) = None
            /\ \A w \in KernelPage : Walk(mem', k, w) = Walk(mem, 0, w)
      BY <2>6, CloneStep
    <3>2. \A v \in KernelPage : maps'[k][v] = maps[0][v] BY <2>2, <2>3, <3>1
    <3>3. \A v \in UserPage : maps'[k][v] = None BY <2>3, <3>1
    <3>4. ASSUME NEW t \in (0 .. MaxSpace) \ {k} PROVE Spaces!NewIn(t) = {}
      <4>1. \A v \in UserPage \cup KernelPage : v \in Page BY Mappable
      <4> QED BY <3>1, <4>1, NewInIs
    <3> HIDE DEF maps
    <3>5. Spaces!Clone BY <3>1, <3>2, <3>3, <3>4 DEF Spaces!Clone, maps
    <3> QED BY <3>5 DEF Spaces!Next
  <2>7. CASE Switch \/ Access \/ Evict
    <3>1. /\ \A s, v : Walk(mem', s, v) = Walk(mem, s, v)
          /\ spaces' = spaces /\ (mem'.cur = mem.cur \/ Switch) /\ mem'.cur \in spaces
      BY <2>7, TurnSteps
    <3>2. maps' = maps BY <3>1
    <3>3. Spaces!Switch BY <3>1, <3>2 DEF Spaces!Switch
    <3> QED BY <3>3 DEF Spaces!Next
  <2>8. CASE UNCHANGED vars BY <2>8 DEF vars
  <2> QED BY <2>4, <2>5, <2>6, <2>7, <2>8 DEF Next
<1> QED BY <1>1, <1>2, VmmInvariant, PTL DEF Spec, ImplementsAddressSpaces, Spaces!Spec
=============================================================================

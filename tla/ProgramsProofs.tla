--------------------------- MODULE ProgramsProofs ---------------------------
(***************************************************************************)
(* Proofs about the way of a program from the build into user memory.      *)
(*                                                                         *)
(* First the arithmetic of spans (Span) and the steps of the loader (Elf), *)
(* which keep ElfInv.  Then what mkinitrd writes: the folds over the list  *)
(* of files are recursive functions, and what holds of their values is     *)
(* proved from the least number of files where it would not.  Then the     *)
(* steps of init (Initrd), and last the whole (Programs).                  *)
(***************************************************************************)
EXTENDS Programs, SequenceTheorems, WellFoundedInduction, TLAPS

\* The last word of a valid span is computed without wrapping around.
LEMMA LastExact ==
  ASSUME NEW s \in Span, valid(s), ~empty(s)
  PROVE  LastWord(s) = s.start + s.size - 1 /\ LastWord(s) \in Word
<1>1. s.start \in Nat /\ s.size \in Nat /\ s.size > 0 BY WordAssumption DEF Span, Word, empty
<1>2. s.start + (s.size - 1) < WordSize /\ s.start + (s.size - 1) \in Nat
  BY <1>1, WordAssumption DEF valid, add_overflows
<1>3. \A n \in Nat : n < WordSize => n % WordSize = n BY WordAssumption
<1> QED BY <1>1, <1>2, <1>3, WordAssumption DEF LastWord, Plus, Word

\* Words of a valid span: from its start to its last word.
LEMMA WordsExact ==
  ASSUME NEW s \in Span, valid(s), ~empty(s)
  PROVE  Words(s) = s.start .. LastWord(s)
<1>1. s.start \in Word /\ s.size \in Nat BY WordAssumption DEF Span, Word
<1>2. LastWord(s) = s.start + s.size - 1 /\ LastWord(s) \in Word BY LastExact
<1> QED BY <1>1, <1>2, WordAssumption DEF Words, Word

\* Spans overlap, as types2.hh computes it, exactly when they share a word.
THEOREM OverlapsMeans ==
  ASSUME NEW s \in Span, NEW o \in Span, valid(s), valid(o)
  PROVE  overlaps(s, o) <=> Words(s) \cap Words(o) # {}
<1>1. ASSUME NEW t \in Span, empty(t) PROVE Words(t) = {}
  BY <1>1, WordAssumption DEF Words, empty, Span, Word
<1>2. CASE empty(s) \/ empty(o) BY <1>1, <1>2 DEF overlaps
<1>3. CASE ~empty(s) /\ ~empty(o)
  <2>1. /\ Words(s) = s.start .. LastWord(s) /\ Words(o) = o.start .. LastWord(o)
        /\ s.start \in Word /\ o.start \in Word /\ LastWord(s) \in Word /\ LastWord(o) \in Word
        /\ s.start =< LastWord(s) /\ o.start =< LastWord(o)
    BY <1>3, WordsExact, LastExact, WordAssumption DEF Span, Word, empty
  <2>2. Words(s) \cap Words(o) # {} <=> o.start =< LastWord(s) /\ s.start =< LastWord(o)
    <3>1. ASSUME o.start =< LastWord(s), s.start =< LastWord(o) PROVE Words(s) \cap Words(o) # {}
      <4>1. CASE s.start =< o.start
        <5>1. o.start \in Words(s) \cap Words(o) BY <2>1, <3>1, <4>1 DEF Word
        <5> QED BY <5>1
      <4>2. CASE o.start < s.start
        <5>1. s.start \in Words(s) \cap Words(o) BY <2>1, <3>1, <4>2 DEF Word
        <5> QED BY <5>1
      <4> QED BY <2>1, <4>1, <4>2 DEF Word
    <3>2. ASSUME NEW x \in Words(s) \cap Words(o) PROVE o.start =< LastWord(s) /\ s.start =< LastWord(o)
      BY <2>1, <3>2 DEF Word
    <3> QED BY <3>1, <3>2
  <2>3. overlaps(s, o) <=> o.start =< LastWord(s) /\ s.start =< LastWord(o)
    BY <1>3, <2>1 DEF overlaps, Word
  <2> QED BY <2>2, <2>3
<1> QED BY <1>2, <1>3

\* A span contains another that is not empty exactly when it has its words.
THEOREM ContainsMeans ==
  ASSUME NEW s \in Span, NEW o \in Span, valid(s), valid(o), ~empty(o)
  PROVE  contains(s, o) <=> Words(o) \subseteq Words(s)
<1>1. CASE empty(s)
  <2>1. Words(s) = {} BY <1>1, WordAssumption DEF Words, empty, Span, Word
  <2>2. o.start \in Words(o) BY WordAssumption DEF Words, empty, Span, Word
  <2> QED BY <1>1, <2>1, <2>2 DEF contains
<1>2. CASE ~empty(s)
  <2>1. /\ Words(s) = s.start .. LastWord(s) /\ Words(o) = o.start .. LastWord(o)
        /\ s.start \in Word /\ o.start \in Word /\ LastWord(s) \in Word /\ LastWord(o) \in Word
        /\ s.start =< LastWord(s) /\ o.start =< LastWord(o)
    BY <1>2, WordsExact, LastExact, WordAssumption DEF Span, Word, empty
  <2>2. Words(o) \subseteq Words(s) <=> s.start =< o.start /\ LastWord(o) =< LastWord(s)
    <3>1. ASSUME Words(o) \subseteq Words(s) PROVE s.start =< o.start /\ LastWord(o) =< LastWord(s)
      <4>1. o.start \in Words(o) /\ LastWord(o) \in Words(o) BY <2>1 DEF Word
      <4> QED BY <2>1, <3>1, <4>1 DEF Word
    <3>2. ASSUME s.start =< o.start, LastWord(o) =< LastWord(s) PROVE Words(o) \subseteq Words(s)
      BY <2>1, <3>2 DEF Word
    <3> QED BY <3>1, <3>2
  <2> QED BY <1>2, <2>2 DEF contains
<1> QED BY <1>1, <1>2

-----------------------------------------------------------------------------
(* The checks of the loader.                                               *)

\* A sum that is checked for overflow is exact.
LEMMA SafeAdd ==
  ASSUME NEW x \in Word, NEW y \in Word
  PROVE  /\ safe_add(x, y) # nullopt => x + y \in Word /\ safe_add(x, y) = {x + y}
         /\ safe_add(x, y) = nullopt \/ safe_add(x, y) = {x + y}
<1>1. x \in Nat /\ y \in Nat /\ WordSize \in Nat BY WordAssumption DEF Word
<1> QED BY <1>1 DEF safe_add, add_overflows, nullopt, Word

\* A span is made only if it does not wrap around.
LEMMA MakeSpan ==
  ASSUME NEW x \in Word, NEW y \in Word, NEW s \in make_span(x, y)
  PROVE  s = span(x, y) /\ valid(s) /\ s \in Span
BY DEF make_span, require, span, Span

\* Containment in numbers that do not wrap around.
LEMMA ContainsExact ==
  ASSUME NEW s \in Span, NEW o \in Span, contains(s, o)
  PROVE  s.start =< o.start /\ o.start + o.size =< s.start + s.size /\ o.size > 0
<1>1. LastWord(s) = s.start + s.size - 1 /\ LastWord(o) = o.start + o.size - 1
  BY LastExact DEF contains
<1>2. s.start \in Nat /\ s.size \in Nat /\ o.start \in Nat /\ o.size \in Nat
  BY WordAssumption DEF Span, Word
<1>3. s.start =< o.start /\ LastWord(o) =< LastWord(s) /\ o.size # 0 BY DEF contains, empty
<1> QED BY <1>1, <1>2, <1>3

\* A segment whose memory and bytes pass the checks is well formed.
LEMMA SegmentOkExact ==
  ASSUME image \in Image, NEW phe \in Segment, mem_span(phe) # nullopt, file_span(phe) # nullopt
  PROVE  WellFormed(phe)
<1>1. /\ phe.size_file \in Word /\ phe.size_mem \in Word /\ phe.v_addr \in Word /\ phe.offset \in Word
      /\ image.base \in Word /\ image.size \in Word
  BY DEF Segment, Image
<1>2. user_span \in Span /\ user_start \in Nat /\ user_end \in Nat /\ user_start =< user_end
      /\ user_end < WordSize
  BY ElfAssumption, WordAssumption DEF user_span, span, Span, Word
<1>3. /\ user_start =< phe.v_addr /\ phe.v_addr + phe.size_file + phe.size_mem =< user_end
      /\ phe.size_file + phe.size_mem > 0
  <2>1. safe_add(phe.size_file, phe.size_mem) # nullopt
    BY DEF mem_span, nullopt, then, require
  <2>2. PICK n \in Word : n = phe.size_file + phe.size_mem /\ safe_add(phe.size_file, phe.size_mem) = {n}
    BY <1>1, <2>1, SafeAdd
  <2>3. mem_span(phe) = {s \in make_span(phe.v_addr, n) : [t \in Span |-> contains(user_span, t)][s]}
    BY <2>2 DEF mem_span, then, require
  <2>4. PICK s \in make_span(phe.v_addr, n) : [t \in Span |-> contains(user_span, t)][s]
    BY <2>3 DEF nullopt
  <2>5. s = span(phe.v_addr, n) /\ s \in Span
    BY <1>1, <2>2, <2>4, MakeSpan
  <2>6. contains(user_span, s)
    BY <2>4, <2>5
  <2>7. /\ user_span.start =< s.start /\ s.start + s.size =< user_span.start + user_span.size
        /\ s.size > 0
    BY <1>2, <2>5, <2>6, ContainsExact
  <2>8. s.start = phe.v_addr /\ s.size = n /\ user_span.start = user_start
        /\ user_span.size = user_end - user_start
    BY <2>5 DEF span, user_span
  <2>9. phe.v_addr \in Nat /\ phe.size_file \in Nat /\ phe.size_mem \in Nat
    BY <1>1, WordAssumption DEF Word
  <2> QED BY <1>2, <2>2, <2>7, <2>8, <2>9
<1>4. ASSUME phe.size_file > 0 PROVE phe.offset + phe.size_file =< image.size
  <2>1. safe_add(image.base, phe.offset) # nullopt
    BY DEF file_span, nullopt, then, require
  <2>2. PICK n \in Word : n = image.base + phe.offset /\ safe_add(image.base, phe.offset) = {n}
    BY <1>1, <2>1, SafeAdd
  <2>3. file_span(phe) = {s \in make_span(n, phe.size_file) :
                            [t \in Span |-> empty(t) \/ contains(elf_span, t)][s]}
    BY <2>2 DEF file_span, then, require
  <2>4. PICK s \in make_span(n, phe.size_file) : [t \in Span |-> empty(t) \/ contains(elf_span, t)][s]
    BY <2>3 DEF nullopt
  <2>5. s = span(n, phe.size_file) /\ s \in Span
    BY <1>1, <2>2, <2>4, MakeSpan
  <2>6. empty(s) \/ contains(elf_span, s)
    BY <2>4, <2>5
  <2>7. s.start = n /\ s.size = phe.size_file /\ elf_span.start = image.base
        /\ elf_span.size = image.size /\ elf_span \in Span
    BY <1>1, <2>5 DEF span, elf_span, Span
  <2>8. contains(elf_span, s)
    BY <1>4, <2>6, <2>7 DEF empty
  <2>9. s.start + s.size =< elf_span.start + elf_span.size
    BY <2>5, <2>7, <2>8, ContainsExact
  <2>10. image.base \in Nat /\ image.size \in Nat /\ phe.offset \in Nat /\ phe.size_file \in Nat
    BY <1>1, WordAssumption DEF Word
  <2> QED BY <2>2, <2>7, <2>9, <2>10
<1> QED BY <1>3, <1>4 DEF WellFormed

-----------------------------------------------------------------------------
(* Pages of a segment.                                                     *)

\* The division with remainder.
LEMMA DivMod ==
  ASSUME NEW x \in Nat, NEW y \in Nat \ {0}
  PROVE  x \div y \in Nat /\ x % y \in 0 .. y - 1 /\ x = y * (x \div y) + (x % y)
OBVIOUS

\* Multiplying is monotonic.
LEMMA MulMono ==
  ASSUME NEW x \in Nat, NEW y \in Nat, NEW z \in Nat, x =< y
  PROVE  z * x \in Nat /\ z * y \in Nat /\ z * x =< z * y
OBVIOUS

\* The quotient, by multiplication.
LEMMA Quotient ==
  ASSUME NEW n \in Nat, NEW e \in Nat, NEW y \in Nat \ {0}
  PROVE  n \div y \in Nat /\ y * e \in Nat /\ (e =< n \div y <=> y * e =< n)
<1> DEFINE d == n \div y
           r == n % y
<1>1. d \in Nat /\ r \in 0 .. y - 1 /\ n = y * d + r BY DivMod
<1> HIDE DEF d, r
<1>2. y * e \in Nat /\ y * d \in Nat BY <1>1
<1>3. ASSUME e =< d PROVE y * e =< y * d BY <1>1, <1>3, MulMono
<1>4. ASSUME d < e PROVE y * d + y =< y * e
  <2>1. y * (d + 1) =< y * e BY <1>1, <1>4, MulMono
  <2>2. y * (d + 1) = y * d + y BY <1>1
  <2> QED BY <2>1, <2>2
<1> QED BY <1>1, <1>2, <1>3, <1>4 DEF d

\* The numbers of a segment that has been accepted.
LEMMA Accepted ==
  ASSUME NEW phe \in Segment, WellFormed(phe)
  PROVE  /\ phe.v_addr \in Nat /\ phe.size_file \in Nat /\ phe.size_mem \in Nat /\ phe.offset \in Nat
         /\ phe.v_addr + phe.size_file + phe.size_mem < WordSize
         /\ MemSpan(phe) \in Span /\ valid(MemSpan(phe)) /\ ~empty(MemSpan(phe))
         /\ MemSpan(phe).start = phe.v_addr /\ MemSpan(phe).size = phe.size_file + phe.size_mem
         /\ Words(MemSpan(phe)) = phe.v_addr .. phe.v_addr + phe.size_file + phe.size_mem - 1
<1>1. /\ phe.v_addr \in Nat /\ phe.size_file \in Nat /\ phe.size_mem \in Nat /\ phe.offset \in Nat
      /\ user_end \in Nat /\ user_end < WordSize /\ WordSize \in Nat
  BY WordAssumption, ElfAssumption DEF Segment, Word
<1>2. phe.v_addr + phe.size_file + phe.size_mem < WordSize /\ phe.size_file + phe.size_mem > 0
  BY <1>1 DEF WellFormed
<1> DEFINE s == MemSpan(phe)
<1>3. s.start = phe.v_addr /\ s.size = phe.size_file + phe.size_mem BY DEF MemSpan, span
<1>4. s \in Span BY <1>1, <1>2 DEF MemSpan, span, Span, Word
<1> HIDE DEF s
<1>5. ~empty(s) /\ valid(s) BY <1>1, <1>2, <1>3 DEF empty, valid, add_overflows
<1>6. Words(s) = phe.v_addr .. phe.v_addr + phe.size_file + phe.size_mem - 1
  BY <1>1, <1>2, <1>3 DEF Words, Word
<1> QED BY <1>1, <1>2, <1>3, <1>4, <1>5, <1>6 DEF s

\* The pages mapped for a segment hold it if it fits them.
LEMMA PagesHold ==
  ASSUME NEW phe \in Segment, WellFormed(phe), FitsPages(phe)
  PROVE  \A a \in Words(MemSpan(phe)) : a \div page_size \in PagesOf(phe)
<1> DEFINE n == phe.size_file + phe.size_mem
           p == page_size
           q == phe.v_addr \div p
           r == phe.v_addr % p
           c == div_ceil(n, p)
<1>1. /\ phe.v_addr \in Nat /\ n \in Nat /\ n < WordSize /\ p \in Nat \ {0}
      /\ Words(MemSpan(phe)) = phe.v_addr .. phe.v_addr + n - 1
  <2>1. /\ phe.v_addr \in Nat /\ phe.size_file \in Nat /\ phe.size_mem \in Nat
        /\ phe.v_addr + phe.size_file + phe.size_mem < WordSize
        /\ Words(MemSpan(phe)) = phe.v_addr .. phe.v_addr + phe.size_file + phe.size_mem - 1
    BY Accepted
  <2>2. page_size \in Nat \ {0} BY ElfAssumption
  <2> QED BY <2>1, <2>2, WordAssumption
<1>2. q \in Nat /\ r \in 0 .. p - 1 /\ phe.v_addr = p * q + r BY <1>1, DivMod
<1>3. c \in Nat /\ r + n =< p * c
  <2>1. n \div p \in Nat BY <1>1, DivMod
  <2>2. c \in Nat BY <2>1 DEF div_ceil
  <2> QED BY <2>2 DEF FitsPages
<1>4. PagesOf(phe) = q .. q + c - 1
  <2>1. Plus(phe.size_file, phe.size_mem) = n
    <3>1. \A x \in Nat : x < WordSize => x % WordSize = x BY WordAssumption
    <3> QED BY <1>1, <3>1 DEF Plus
  <2> QED BY <2>1 DEF PagesOf
<1> HIDE DEF n, p, q, r, c
<1>5. ASSUME NEW a \in phe.v_addr .. phe.v_addr + n - 1 PROVE a \div p \in q .. q + c - 1
  <2>1. a \in Nat /\ p * q =< a /\ a < p * q + p * c
    <3>1. p * q \in Nat /\ p * c \in Nat BY <1>1, <1>2, <1>3
    <3> QED BY <1>1, <1>2, <1>3, <3>1
  <2>2. p * (q + c) = p * q + p * c /\ q + c \in Nat BY <1>1, <1>2, <1>3
  <2>3. a \div p \in Nat /\ q =< a \div p BY <1>1, <1>2, <2>1, Quotient
  <2>4. ~ (q + c =< a \div p)
    <3>1. ~ (p * (q + c) =< a) BY <1>1, <1>2, <1>3, <2>1, <2>2
    <3> QED BY <1>1, <2>1, <2>2, <3>1, Quotient
  <2> QED BY <1>2, <1>3, <2>2, <2>3, <2>4
<1> QED BY <1>1, <1>4, <1>5 DEF p

\* A segment that starts on a page fits.
LEMMA AlignedFits ==
  ASSUME NEW phe \in Segment, phe.v_addr % page_size = 0
  PROVE  FitsPages(phe)
<1> DEFINE n == phe.size_file + phe.size_mem
           p == page_size
           d == n \div p
           r == n % p
<1>1. n \in Nat /\ p \in Nat \ {0} BY ElfAssumption, WordAssumption DEF Segment, Word
<1>2. d \in Nat /\ r \in 0 .. p - 1 /\ n = p * d + r BY <1>1, DivMod
<1>3. div_ceil(n, p) = IF r # 0 THEN d + 1 ELSE d BY DEF div_ceil
<1> HIDE DEF n, p, d, r
<1>4. p * (d + 1) = p * d + p /\ p * d \in Nat BY <1>1, <1>2
<1>5. 0 + n =< p * div_ceil(n, p)
  <2>1. CASE r = 0 BY <1>1, <1>2, <1>3, <2>1
  <2>2. CASE r # 0
    <3>1. div_ceil(n, p) = d + 1 BY <1>3, <2>2
    <3> QED BY <1>1, <1>2, <1>4, <3>1
  <2> QED BY <2>1, <2>2
<1> QED BY <1>5 DEF FitsPages, n, p

-----------------------------------------------------------------------------
(* The steps of the loader.                                                *)

LEMMA InitElf == Init => ElfInv
<1> SUFFICES ASSUME Init PROVE ElfInv OBVIOUS
<1>1. NoImage \in Image
  <2>1. 0 \in Word BY WordAssumption DEF Word
  <2>2. <<>> \in Seq(Segment) BY EmptySeq
  <2> QED BY <2>1, <2>2 DEF NoImage, Image
<1>2. segments = <<>> /\ DOMAIN segments = {} /\ segments \in Seq(Segment)
  BY EmptySeq DEF Init
<1>3. memory \in [UserByte -> Int] BY DEF Init, Garbage
<1> QED BY <1>1, <1>2, <1>3 DEF Init, ElfInv, TypeOK, Ended, AcceptsWellFormed, OrderInv, FaultInv, InOrder

\* load starts afresh with whatever image it is given.
LEMMA LoadCalled ==
  ASSUME ElfInv, NEW i \in Image, load(i)
  PROVE  ElfInv'
<1>1. segments' = <<>> /\ DOMAIN segments' = {} /\ segments' \in Seq(Segment)
  BY EmptySeq DEF load
<1>2. memory' \in [UserByte -> Int] BY DEF load, Garbage
<1> QED BY <1>1, <1>2 DEF load, ElfInv, TypeOK, Ended, AcceptsWellFormed, OrderInv, FaultInv, InOrder

\* The order of segments is kept by steps that take none.
LEMMA OrderKept ==
  ASSUME ElfInv, UNCHANGED <<image, segments>>,
         phase' \in {"headers", "check"} =>
           phase \in {"headers", "check"} /\ next' \in {next, next + 1}
  PROVE  OrderInv'
<1> SUFFICES ASSUME Linked(image.ph)' PROVE InOrder' BY DEF OrderInv
<1>1. Linked(image.ph) BY DEF Linked, FitsPages, Apart
<1>2. InOrder BY <1>1 DEF ElfInv, OrderInv
<1>3. next \in Nat /\ Len(image.ph) \in Nat BY LenProperties DEF ElfInv, TypeOK, Image
<1>4. ASSUME phase' \in {"headers", "check"}, NEW b \in next' .. Len(image.ph)
      PROVE  b \in next .. Len(image.ph)
  <2>1. CASE next' = next BY <2>1
  <2>2. CASE next' = next + 1 BY <1>3, <2>2
  <2> QED BY <1>4, <2>1, <2>2
<1>5. (\A k \in DOMAIN segments : FitsPages(segments[k]))'
  BY <1>2 DEF InOrder, FitsPages
<1>6. (\A j, k \in DOMAIN segments : j < k => Apart(segments[j], segments[k]))'
  BY <1>2 DEF InOrder, Apart
<1>7. ASSUME phase' \in {"headers", "check"}, NEW j \in DOMAIN segments,
             NEW b \in next' .. Len(image.ph), image.ph[b].load
      PROVE  Apart(segments[j], image.ph[b])
  <2>1. b \in next .. Len(image.ph) /\ phase \in {"headers", "check"} BY <1>4, <1>7
  <2> QED BY <1>2, <1>7, <2>1 DEF InOrder
<1>8. (phase \in {"headers", "check"} =>
         \A j \in DOMAIN segments, b \in next .. Len(image.ph) :
           image.ph[b].load => Apart(segments[j], image.ph[b]))'
  BY <1>7 DEF Apart
<1> QED BY <1>5, <1>6, <1>8 DEF InOrder

LEMMA HeadersChecked ==
  ASSUME ElfInv, CheckHeaders
  PROVE  ElfInv'
<1>1. /\ UNCHANGED <<image, next, segments, mapped, memory>> /\ phase = "headers"
      /\ phase' \in {"check", "invalid"}
  BY DEF CheckHeaders
<1>2. TypeOK' /\ AcceptsWellFormed' BY <1>1 DEF ElfInv, TypeOK, Ended, AcceptsWellFormed, WellFormed
<1>3. OrderInv' BY <1>1, OrderKept
<1> QED BY <1>1, <1>2, <1>3 DEF ElfInv, FaultInv

LEMMA EntryChecked ==
  ASSUME ElfInv, CheckEntry
  PROVE  ElfInv'
<1> DEFINE phe == image.ph[next]
<1>1. /\ image \in Image /\ segments \in Seq(Segment) /\ next \in Nat \ {0} /\ next =< Len(image.ph)
      /\ UNCHANGED <<image, mapped, memory>> /\ phase = "check"
      /\ mapped \subseteq Int /\ memory \in [UserByte -> Int]
  BY DEF CheckEntry, ElfInv, TypeOK
<1>2. phe \in Segment
  <2>1. image.ph \in Seq(Segment) BY <1>1 DEF Image
  <2> QED BY <1>1, <2>1, ElementOfSeq
<1>3. CASE UNCHANGED segments
  <2>1. (next' = next + 1 \/ next' = next) /\ (phase' = phase \/ phase' = "invalid")
    BY <1>3 DEF CheckEntry
  <2>2. TypeOK' BY <1>1, <1>3, <2>1 DEF TypeOK, Ended
  <2>3. AcceptsWellFormed' BY <1>3 DEF ElfInv, AcceptsWellFormed, WellFormed, CheckEntry
  <2>4. OrderInv' BY <1>1, <1>3, <2>1, OrderKept
  <2> QED BY <1>1, <2>1, <2>2, <2>3, <2>4 DEF ElfInv, FaultInv
<1>4. CASE phe.load /\ SegmentOk(phe) /\ next' = next + 1 /\ segments' = Append(segments, phe) /\ UNCHANGED phase
  <2>1. WellFormed(phe) BY <1>1, <1>2, <1>4, SegmentOkExact DEF SegmentOk
  <2>2. phe.load /\ image.ph[next] = phe BY <1>4
  <2> HIDE DEF phe
  <2>3. /\ segments' \in Seq(Segment) /\ Len(segments') = Len(segments) + 1
        /\ \A k \in 1 .. Len(segments) : segments'[k] = segments[k]
        /\ segments'[Len(segments) + 1] = phe
        /\ Len(segments) \in Nat
    BY <1>1, <1>2, <1>4, AppendProperties, LenProperties
  <2>4. DOMAIN segments = 1 .. Len(segments) /\ DOMAIN segments' = 1 .. Len(segments) + 1
    BY <1>1, <2>3, LenProperties
  <2>5. AcceptsWellFormed'
    <3>1. ASSUME NEW k \in 1 .. Len(segments) + 1 PROVE WellFormed(segments'[k])
      <4>1. CASE k = Len(segments) + 1 BY <2>1, <2>3, <4>1
      <4>2. CASE k \in 1 .. Len(segments) BY <2>3, <2>4, <4>2 DEF ElfInv, AcceptsWellFormed
      <4> QED BY <2>3, <4>1, <4>2
    <3>2. image' = image BY <1>1
    <3> QED BY <2>4, <3>1, <3>2 DEF AcceptsWellFormed, WellFormed
  <2>6. TypeOK' BY <1>1, <1>4, <2>3 DEF TypeOK
  <2>7. ASSUME Linked(image.ph)
        PROVE  InOrder'
    <3>1. InOrder BY <2>7 DEF ElfInv, OrderInv
    <3>2. image.ph \in Seq(Segment) /\ Len(image.ph) \in Nat /\ DOMAIN image.ph = 1 .. Len(image.ph)
      BY <1>1, LenProperties DEF Image
    <3>3. next \in DOMAIN image.ph BY <1>1, <3>2
    <3>4. ASSUME NEW k \in 1 .. Len(segments) + 1 PROVE FitsPages(segments'[k])
      <4>1. CASE k = Len(segments) + 1 BY <2>2, <2>3, <2>7, <3>3, <4>1 DEF Linked
      <4>2. CASE k \in 1 .. Len(segments) BY <2>3, <2>4, <3>1, <4>2 DEF InOrder
      <4> QED BY <2>3, <4>1, <4>2
    <3>5. ASSUME NEW j \in 1 .. Len(segments) + 1, NEW k \in 1 .. Len(segments) + 1, j < k
          PROVE  Apart(segments'[j], segments'[k])
      <4>1. j \in 1 .. Len(segments) BY <2>3, <3>5
      <4>2. CASE k = Len(segments) + 1
        <5>1. next \in next .. Len(image.ph) BY <1>1, <3>2
        <5> QED BY <1>1, <2>2, <2>3, <2>4, <3>1, <4>1, <4>2, <5>1 DEF InOrder
      <4>3. CASE k \in 1 .. Len(segments) BY <2>3, <2>4, <3>1, <3>5, <4>1, <4>3 DEF InOrder
      <4> QED BY <2>3, <4>2, <4>3
    <3>6. ASSUME NEW j \in 1 .. Len(segments) + 1, NEW b \in next + 1 .. Len(image.ph), image.ph[b].load
          PROVE  Apart(segments'[j], image.ph[b])
      <4>1. b \in next .. Len(image.ph) /\ b \in DOMAIN image.ph /\ next < b BY <1>1, <3>2
      <4>2. CASE j = Len(segments) + 1
        BY <2>2, <2>3, <2>7, <3>3, <3>6, <4>1, <4>2 DEF Linked
      <4>3. CASE j \in 1 .. Len(segments) BY <1>1, <2>3, <2>4, <3>1, <3>6, <4>1, <4>3 DEF InOrder
      <4> QED BY <2>3, <4>2, <4>3
    <3>7. (\A k \in DOMAIN segments : FitsPages(segments[k]))' BY <2>4, <3>4 DEF FitsPages
    <3>8. (\A j, k \in DOMAIN segments : j < k => Apart(segments[j], segments[k]))'
      BY <2>4, <3>5 DEF Apart
    <3>9. (\A j \in DOMAIN segments, b \in next .. Len(image.ph) :
             image.ph[b].load => Apart(segments[j], image.ph[b]))'
      <4>1. next' = next + 1 /\ image' = image BY <1>1, <1>4
      <4> QED BY <2>4, <3>6, <4>1 DEF Apart
    <3> QED BY <3>7, <3>8, <3>9 DEF InOrder
  <2>8. OrderInv'
    <3>1. Linked(image.ph)' => Linked(image.ph) BY <1>1 DEF Linked, FitsPages, Apart
    <3> QED BY <1>1, <1>4, <2>7, <3>1 DEF OrderInv
  <2> QED BY <1>1, <1>4, <2>5, <2>6, <2>8 DEF ElfInv, FaultInv
<1> QED BY <1>3, <1>4 DEF CheckEntry

LEMMA ChecksDone ==
  ASSUME ElfInv, CheckDone
  PROVE  ElfInv'
<1>1. /\ segments \in Seq(Segment) /\ Len(segments) \in Nat /\ next' = 1
      /\ UNCHANGED <<image, segments, mapped, memory>>
      /\ \/ phase' = "load" /\ EntryMapped
         \/ phase' = "invalid"
  BY LenProperties DEF CheckDone, ElfInv, TypeOK
<1>2. TypeOK' BY <1>1 DEF ElfInv, TypeOK, Ended
<1>3. AcceptsWellFormed' BY <1>1 DEF ElfInv, AcceptsWellFormed, WellFormed
<1>4. phase' = "load" => LoadedSoFar'
  BY <1>1 DEF LoadedSoFar, EntryMapped
<1>5. OrderInv' BY <1>1, OrderKept
<1> QED BY <1>1, <1>2, <1>3, <1>4, <1>5 DEF ElfInv, FaultInv

\* Loading a segment puts it into memory, and leaves alone what segments with
\* lower addresses have there.
LEMMA LoadedIs ==
  ASSUME ElfInv, NEW phe \in Segment, WellFormed(phe), memory' = Loaded(phe)
  PROVE  /\ memory' \in [UserByte -> Int]
         /\ InMemory(phe)'
         /\ \A a \in UserByte : a < phe.v_addr => memory'[a] = memory[a]
<1>1. /\ phe.v_addr \in Nat /\ phe.size_file \in Nat /\ phe.size_mem \in Nat /\ phe.offset \in Nat
      /\ user_start \in Nat /\ user_end \in Nat /\ user_start =< phe.v_addr
      /\ phe.v_addr + phe.size_file + phe.size_mem =< user_end
  BY Accepted, ElfAssumption DEF WellFormed
<1>2. memory \in [UserByte -> Int] /\ UserByte \subseteq Int BY <1>1 DEF ElfInv, TypeOK, UserByte
<1>3. ASSUME NEW a \in UserByte
      PROVE  /\ memory'[a] \in Int
             /\ a - phe.v_addr \in 0 .. phe.size_file - 1 => memory'[a] = phe.offset + a - phe.v_addr
             /\ a - phe.v_addr \in phe.size_file .. phe.size_file + phe.size_mem - 1 => memory'[a] = Zero
             /\ a < phe.v_addr => memory'[a] = memory[a]
  <2>1. memory'[a] =
          CASE a - phe.v_addr \in 0 .. phe.size_file - 1 -> phe.offset + a - phe.v_addr
            [] a - phe.v_addr \in phe.size_file .. phe.size_file + phe.size_mem - 1 -> Zero
            [] OTHER -> memory[a]
    BY DEF Loaded
  <2>2. a \in Int /\ memory[a] \in Int /\ Zero \in Int BY <1>2 DEF Zero
  <2> HIDE DEF Zero
  <2> QED BY <1>1, <2>1, <2>2
<1>4. memory' \in [UserByte -> Int]
  <2>1. memory' = [a \in UserByte |-> memory'[a]] BY DEF Loaded
  <2> QED BY <1>3, <2>1
<1>5. ASSUME NEW b \in 0 .. phe.size_file - 1 PROVE memory'[phe.v_addr + b] = phe.offset + b
  <2>1. phe.v_addr + b \in UserByte /\ (phe.v_addr + b) - phe.v_addr = b BY <1>1 DEF UserByte
  <2> QED BY <1>1, <1>3, <2>1
<1>6. ASSUME NEW b \in phe.size_file .. phe.size_mem - 1 PROVE memory'[phe.v_addr + b] = Zero
  <2>1. phe.v_addr + b \in UserByte /\ (phe.v_addr + b) - phe.v_addr = b BY <1>1 DEF UserByte
  <2> QED BY <1>1, <1>3, <2>1
<1>7. InMemory(phe)' BY <1>5, <1>6 DEF InMemory, Zero
<1> QED BY <1>3, <1>4, <1>7

LEMMA SegmentLoaded ==
  ASSUME ElfInv, LoadSegment
  PROVE  ElfInv'
<1>1. /\ segments \in Seq(Segment) /\ next \in Nat \ {0} /\ next =< Len(segments) /\ phase = "load"
      /\ UNCHANGED <<image, segments>> /\ Len(segments) \in Nat
      /\ DOMAIN segments = 1 .. Len(segments)
      /\ mapped \subseteq Int /\ memory \in [UserByte -> Int] /\ LoadedSoFar
  BY LenProperties DEF LoadSegment, ElfInv, TypeOK
<1>2. PICK phe \in Segment : next \in 1 .. Len(segments) /\ phe = segments[next] /\ WellFormed(phe)
  <2>1. next \in 1 .. Len(segments) BY <1>1
  <2> QED BY <1>1, <2>1, ElementOfSeq DEF ElfInv, AcceptsWellFormed
<1>3. PagesOf(phe) \subseteq Int
  <2>1. \A x, y \in Int : x .. y \subseteq Int OBVIOUS
  <2>2. phe.v_addr \div page_size \in Nat BY <1>2, Accepted, ElfAssumption, DivMod
  <2>3. Plus(phe.size_file, phe.size_mem) \in Nat
    <3>1. phe.size_file + phe.size_mem \in Nat BY <1>2, Accepted
    <3> QED BY <3>1, WordAssumption DEF Plus
  <2>4. div_ceil(Plus(phe.size_file, phe.size_mem), page_size) \in Nat
    <3>1. PICK n \in Nat : n = Plus(phe.size_file, phe.size_mem) BY <2>3
    <3>2. n \div page_size \in Nat BY ElfAssumption, DivMod
    <3> QED BY <3>1, <3>2 DEF div_ceil
  <2> QED BY <2>1, <2>2, <2>4 DEF PagesOf
<1>4. AcceptsWellFormed' BY <1>1 DEF ElfInv, AcceptsWellFormed, WellFormed
<1>5. EntryMapped' BY <1>1 DEF LoadedSoFar, EntryMapped
<1>6. CASE OutOfMemory(PagesOf(phe)) /\ UNCHANGED <<next, memory>>
  <2>1. phase' = "no_memory" /\ mapped' \subseteq Int BY <1>1, <1>3, <1>6 DEF OutOfMemory
  <2>2. TypeOK' BY <1>1, <1>6, <2>1 DEF ElfInv, TypeOK, Ended
  <2>3. OrderInv' BY <1>1, <2>1, OrderKept
  <2> QED BY <1>4, <2>1, <2>2, <2>3 DEF ElfInv, FaultInv
<1>7. CASE /\ mapped' = mapped \cup PagesOf(phe)
           /\ \A a \in Words(MemSpan(phe)) : a \div page_size \in mapped'
           /\ memory' = Loaded(phe) /\ next' = next + 1 /\ UNCHANGED phase
  <2>1. /\ memory' \in [UserByte -> Int] /\ InMemory(phe)'
        /\ \A a \in UserByte : a < phe.v_addr => memory'[a] = memory[a]
    BY <1>2, <1>7, LoadedIs
  <2>2. TypeOK'
    <3>1. mapped' \subseteq Int
      <4>1. mapped' = mapped \cup PagesOf(phe) BY <1>7
      <4> HIDE <1>7
      <4> QED BY <1>1, <1>3, <4>1
    <3>2. next' \in Nat \ {0} /\ phase' = "load" BY <1>1, <1>7
    <3> QED BY <1>1, <2>1, <3>1, <3>2 DEF ElfInv, TypeOK
  <2>3. ASSUME NEW k \in 1 .. next PROVE Resident(segments[k])' /\ (Linked(image.ph) => InMemory(segments[k])')
    <3>1. CASE k = next
      <4>1. segments[k] = phe /\ segments'[k] = phe BY <1>1, <1>2, <3>1
      <4>2. Resident(phe)' BY <1>7 DEF Resident
      <4>3. Resident(segments[k])' BY <4>1, <4>2 DEF Resident
      <4>4. InMemory(segments[k])' BY <2>1, <4>1 DEF InMemory, Zero
      <4> QED BY <4>3, <4>4
    <3>2. CASE k # next
      <4>1. k \in 1 .. next - 1 /\ k \in 1 .. Len(segments) /\ k < next BY <1>1, <3>2
      <4>2. PICK o \in Segment : o = segments[k] BY <1>1, <4>1, ElementOfSeq
      <4>3. Resident(o) /\ (Linked(image.ph) => InMemory(o)) BY <1>1, <4>1, <4>2 DEF LoadedSoFar
      <4>4. WellFormed(o) BY <1>1, <4>1, <4>2 DEF ElfInv, AcceptsWellFormed
      <4>5. Resident(o)' BY <1>7, <4>3 DEF Resident
      <4>6. ASSUME Linked(image.ph) PROVE InMemory(o)'
        <5>1. o.v_addr + o.size_file =< phe.v_addr /\ o.v_addr + o.size_mem =< phe.v_addr
          BY <1>1, <1>2, <4>1, <4>2, <4>6 DEF ElfInv, OrderInv, InOrder, Apart
        <5>2. /\ o.v_addr \in Nat /\ o.size_file \in Nat /\ o.size_mem \in Nat /\ phe.v_addr \in Nat
              /\ user_start =< o.v_addr /\ user_end \in Nat /\ user_start \in Nat
              /\ o.v_addr + o.size_file + o.size_mem =< user_end
          BY <1>2, <4>4, Accepted, ElfAssumption DEF WellFormed
        <5>3. \A b \in Nat : b < o.size_file \/ b < o.size_mem => memory'[o.v_addr + b] = memory[o.v_addr + b]
          <6> SUFFICES ASSUME NEW b \in Nat, b < o.size_file \/ b < o.size_mem
                       PROVE  o.v_addr + b \in UserByte /\ o.v_addr + b < phe.v_addr
            BY <2>1
          <6> QED BY <5>1, <5>2 DEF UserByte
        <5>4. \A b \in 0 .. o.size_file - 1 : memory'[o.v_addr + b] = o.offset + b
          BY <4>3, <4>6, <5>2, <5>3 DEF InMemory
        <5>5. \A b \in o.size_file .. o.size_mem - 1 : memory'[o.v_addr + b] = Zero
          BY <4>3, <4>6, <5>2, <5>3 DEF InMemory
        <5> QED BY <5>4, <5>5 DEF InMemory, Zero
      <4> QED BY <1>1, <4>2, <4>5, <4>6
    <3> QED BY <3>1, <3>2
  <2>4. LoadedSoFar'
    <3>1. next' =< Len(segments') + 1 /\ next' - 1 = next BY <1>1, <1>7
    <3>2. Linked(image.ph)' => Linked(image.ph) BY <1>1 DEF Linked, FitsPages, Apart
    <3> QED BY <1>1, <1>5, <2>3, <3>1, <3>2 DEF LoadedSoFar
  <2>5. phase' = "load" BY <1>1, <1>7
  <2>6. OrderInv' BY <1>1, <2>5, OrderKept
  <2> QED BY <1>4, <2>2, <2>4, <2>5, <2>6 DEF ElfInv, FaultInv
<1>8. CASE /\ mapped' = mapped \cup PagesOf(phe)
           /\ ~ \A a \in Words(MemSpan(phe)) : a \div page_size \in mapped'
           /\ phase' = "fault" /\ UNCHANGED <<next, memory>>
  <2>1. TypeOK' BY <1>1, <1>3, <1>8 DEF ElfInv, TypeOK
  <2>2. ~ FitsPages(phe) BY <1>2, <1>8, PagesHold
  <2>3. FaultInv'
    <3>1. next' \in DOMAIN segments' /\ segments'[next'] = phe BY <1>1, <1>2, <1>8
    <3> QED BY <2>2, <3>1 DEF FaultInv, FitsPages
  <2>4. OrderInv' BY <1>1, <1>8, OrderKept
  <2> QED BY <1>4, <1>8, <2>1, <2>3, <2>4 DEF ElfInv
<1> QED BY <1>2, <1>6, <1>7, <1>8 DEF LoadSegment

LEMMA StackMapped ==
  ASSUME ElfInv, MapStack
  PROVE  ElfInv'
<1> DEFINE page == user_end \div page_size - 2
<1>1. /\ segments \in Seq(Segment) /\ next \in Nat \ {0} /\ next > Len(segments) /\ phase = "load"
      /\ UNCHANGED <<image, next, segments, memory>> /\ Len(segments) \in Nat
      /\ mapped \subseteq Int /\ LoadedSoFar
      /\ OutOfMemory({page}) \/ (mapped' = mapped \cup {page} /\ phase' = "loaded")
  BY LenProperties DEF MapStack, ElfInv, TypeOK
<1>2. page \in Int
  <2>1. user_end \in Nat /\ page_size \in Nat \ {0} BY ElfAssumption, WordAssumption
  <2>2. user_end \div page_size \in Nat BY <2>1, DivMod
  <2> QED BY <2>2
<1> HIDE DEF page
<1>3. AcceptsWellFormed' BY <1>1 DEF ElfInv, AcceptsWellFormed, WellFormed
<1>4. CASE OutOfMemory({page})
  <2>1. phase' = "no_memory" /\ mapped' \subseteq Int BY <1>1, <1>2, <1>4 DEF OutOfMemory
  <2>2. TypeOK' BY <1>1, <2>1 DEF ElfInv, TypeOK, Ended
  <2>3. OrderInv' BY <1>1, <2>1, OrderKept
  <2> QED BY <1>3, <2>1, <2>2, <2>3 DEF ElfInv, FaultInv
<1>5. CASE mapped' = mapped \cup {page} /\ phase' = "loaded"
  <2>1. TypeOK' BY <1>1, <1>2, <1>5 DEF ElfInv, TypeOK, Ended
  <2>2. next = Len(segments) + 1 BY <1>1 DEF LoadedSoFar
  <2>3. LoadedSoFar'
    BY <1>1, <1>5 DEF LoadedSoFar, EntryMapped, Linked, Apart, FitsPages, Resident, InMemory
  <2>4. OrderInv' BY <1>1, <1>5, OrderKept
  <2> QED BY <1>1, <1>3, <1>5, <2>1, <2>2, <2>3, <2>4 DEF ElfInv, FaultInv, page
<1> QED BY <1>1, <1>4, <1>5

LEMMA ElfStutter ==
  ASSUME ElfInv, UNCHANGED <<image, next, segments, mapped, memory>>, phase' \in {phase, "idle"}
  PROVE  ElfInv'
<1>1. TypeOK' /\ AcceptsWellFormed' BY DEF ElfInv, TypeOK, Ended, AcceptsWellFormed, WellFormed
<1>2. OrderInv' /\ FaultInv'
  <2>1. phase' = "fault" => phase = "fault" OBVIOUS
  <2>2. FaultInv' BY <2>1 DEF ElfInv, FaultInv, FitsPages
  <2> QED BY <2>2, OrderKept
<1>3. LoadedSoFar => LoadedSoFar'
  BY DEF LoadedSoFar, EntryMapped, Resident, Linked, Apart, FitsPages, InMemory
<1> QED BY <1>1, <1>2, <1>3 DEF ElfInv

LEMMA StepElf ==
  ASSUME ElfInv, Step
  PROVE  ElfInv'
BY HeadersChecked, EntryChecked, ChecksDone, SegmentLoaded, StackMapped DEF Step

\* The loader's inductive invariant, whatever images it is given.
THEOREM ElfInvariant == Spec => []ElfInv
<1>1. ElfInv /\ [Next]_vars => ElfInv'
  <2> SUFFICES ASSUME ElfInv, [Next]_vars PROVE ElfInv' OBVIOUS
  <2>1. CASE \E i \in Image : load(i) BY <2>1, LoadCalled
  <2>2. CASE Step BY <2>2, StepElf
  <2>3. CASE UNCHANGED vars BY <2>3, ElfStutter DEF vars
  <2> QED BY <2>1, <2>2, <2>3 DEF Next
<1> QED BY <1>1, InitElf, PTL DEF Spec


-----------------------------------------------------------------------------
(* Lists, by their least counterexample.                                   *)

\* A set of numbers that is not empty has a least one.
LEMMA Least ==
  ASSUME NEW S, S \subseteq Nat, S # {}
  PROVE  Min(S) \in S /\ Initrd!Min(S) = Min(S) /\ \A k \in S : Min(S) =< k
<1>1. PICK m \in S : \A k \in S : <<k, m>> \notin OpToRel(<, Nat)
  BY NatLessThanWellFounded, WFMin, Zenon
<1>2. \A k \in S : ~ k < m BY <1>1, Zenon DEF OpToRel
<1>3. \A k \in S : m =< k BY <1>2
<1>4. Min(S) = CHOOSE x \in S : \A k \in S : x =< k BY DEF Min
<1>5. Initrd!Min(S) = CHOOSE x \in S : \A k \in S : x =< k BY DEF Initrd!Min
<1>6. Min(S) \in S /\ \A k \in S : Min(S) =< k BY <1>3, <1>4, Zenon
<1> QED BY <1>4, <1>5, <1>6

\* What holds at 0 and goes on from each number to the next holds up to n.
LEMMA Reaches ==
  ASSUME NEW n \in Nat, NEW good, good \subseteq 0 .. n, 0 \in good,
         \A k \in 1 .. n : k - 1 \in good => k \in good
  PROVE  good = 0 .. n
<1> DEFINE bad == (0 .. n) \ good
<1>1. SUFFICES ASSUME bad # {} PROVE FALSE OBVIOUS
<1>2. PICK m \in bad : \A k \in bad : m =< k
  <2>1. bad \subseteq Nat OBVIOUS
  <2> HIDE DEF bad
  <2> QED BY <1>1, <2>1, Least
<1>3. m \in 1 .. n /\ m - 1 \in 0 .. n OBVIOUS
<1>4. m - 1 \in good BY <1>2, <1>3
<1> QED BY <1>3, <1>4

\* The recursive definition of DataEnd has a solution, which is its value.
LEMMA EndRecursion ==
  ASSUME NEW files, Len(files) \in Nat
  PROVE  \A n \in 0 .. Len(files) :
           Initrd!DataEnd(files)[n] =
             IF n = 0 THEN 0
             ELSE Initrd!DataEnd(files)[n - 1] + Initrd!pad_size(Initrd!DataEnd(files)[n - 1])
                  + Len(files[n].bytes)
<1> DEFINE StepOf(f, k) == IF k = 0 THEN 0
                           ELSE f[k - 1] + Initrd!pad_size(f[k - 1]) + Len(files[k].bytes)
           Solves(f, n) == f = [k \in 0 .. n |-> StepOf(f, k)]
           solvable == {n \in 0 .. Len(files) : \E f : Solves(f, n)}
<1>1. solvable = 0 .. Len(files)
  <2>1. 0 \in solvable
    <3> DEFINE g == [k \in 0 .. 0 |-> 0]
    <3>1. Solves(g, 0) OBVIOUS
    <3> HIDE DEF Solves
    <3> QED BY <3>1
  <2>2. ASSUME NEW n \in 1 .. Len(files), n - 1 \in solvable PROVE n \in solvable
    <3>1. PICK g : Solves(g, n - 1)
      <4> HIDE DEF Solves
      <4> QED BY <2>2
    <3> DEFINE h == [k \in 0 .. n |-> IF k = n THEN StepOf(g, n) ELSE g[k]]
    <3>2. ASSUME NEW k \in 0 .. n PROVE h[k] = StepOf(h, k)
      <4>1. n # 0 /\ h[n - 1] = g[n - 1] OBVIOUS
      <4>2. CASE k = n BY <4>1, <4>2
      <4>3. CASE k # n
        <5>1. k \in 0 .. n - 1 BY <4>3
        <5>2. g[k] = StepOf(g, k) BY <3>1, <5>1
        <5>3. k # 0 => h[k - 1] = g[k - 1] BY <5>1
        <5> QED BY <4>3, <5>2, <5>3
      <4> QED BY <4>2, <4>3
    <3>3. Solves(h, n) BY <3>2
    <3> HIDE DEF Solves
    <3> QED BY <3>3
  <2> HIDE DEF solvable
  <2>3. solvable \subseteq 0 .. Len(files) BY DEF solvable
  <2> QED BY <2>1, <2>2, <2>3, Reaches
<1>2. PICK f : Solves(f, Len(files))
  <2> HIDE DEF Solves
  <2> QED BY <1>1
<1> DEFINE end == CHOOSE g : Solves(g, Len(files))
<1>3. Solves(end, Len(files))
  <2> HIDE DEF Solves
  <2> QED BY <1>2
<1>4. Initrd!DataEnd(files) = end BY DEF Initrd!DataEnd
<1> HIDE DEF end
<1>5. \A n \in 0 .. Len(files) : end[n] = StepOf(end, n) BY <1>3
<1> QED BY <1>4, <1>5

\* So does that of Data.
LEMMA DataRecursion ==
  ASSUME NEW files, Len(files) \in Nat
  PROVE  \A n \in 0 .. Len(files) :
           Initrd!Data(files)[n] =
             IF n = 0 THEN <<>>
             ELSE Initrd!Data(files)[n - 1]
                  \o [i \in 1 .. Initrd!pad_size(Len(Initrd!Data(files)[n - 1])) |-> Initrd!PadByte]
                  \o files[n].bytes
<1> DEFINE StepOf(f, k) == IF k = 0 THEN <<>>
                           ELSE f[k - 1] \o [i \in 1 .. Initrd!pad_size(Len(f[k - 1])) |-> Initrd!PadByte]
                                \o files[k].bytes
           Solves(f, n) == f = [k \in 0 .. n |-> StepOf(f, k)]
           solvable == {n \in 0 .. Len(files) : \E f : Solves(f, n)}
<1>1. solvable = 0 .. Len(files)
  <2>1. 0 \in solvable
    <3> DEFINE g == [k \in 0 .. 0 |-> <<>>]
    <3>1. Solves(g, 0) OBVIOUS
    <3> HIDE DEF Solves
    <3> QED BY <3>1
  <2>2. ASSUME NEW n \in 1 .. Len(files), n - 1 \in solvable PROVE n \in solvable
    <3>1. PICK g : Solves(g, n - 1)
      <4> HIDE DEF Solves
      <4> QED BY <2>2
    <3> DEFINE h == [k \in 0 .. n |-> IF k = n THEN StepOf(g, n) ELSE g[k]]
    <3>2. ASSUME NEW k \in 0 .. n PROVE h[k] = StepOf(h, k)
      <4>1. n # 0 /\ h[n - 1] = g[n - 1] OBVIOUS
      <4>2. CASE k = n BY <4>1, <4>2
      <4>3. CASE k # n
        <5>1. k \in 0 .. n - 1 BY <4>3
        <5>2. g[k] = StepOf(g, k) BY <3>1, <5>1
        <5>3. k # 0 => h[k - 1] = g[k - 1] BY <5>1
        <5> QED BY <4>3, <5>2, <5>3
      <4> QED BY <4>2, <4>3
    <3>3. Solves(h, n) BY <3>2
    <3> HIDE DEF Solves
    <3> QED BY <3>3
  <2> HIDE DEF solvable
  <2>3. solvable \subseteq 0 .. Len(files) BY DEF solvable
  <2> QED BY <2>1, <2>2, <2>3, Reaches
<1>2. PICK f : Solves(f, Len(files))
  <2> HIDE DEF Solves
  <2> QED BY <1>1
<1> DEFINE data == CHOOSE g : Solves(g, Len(files))
<1>3. Solves(data, Len(files))
  <2> HIDE DEF Solves
  <2> QED BY <1>2
<1>4. Initrd!Data(files) = data BY DEF Initrd!Data
<1> HIDE DEF data
<1>5. \A n \in 0 .. Len(files) : data[n] = StepOf(data, n) BY <1>3
<1> QED BY <1>4, <1>5

-----------------------------------------------------------------------------
(* What mkinitrd writes.                                                   *)

\* Multiples are what leaves no remainder.
LEMMA MultipleOf ==
  ASSUME NEW y \in Nat \ {0}, NEW q \in Nat
  PROVE  y * q \in Nat /\ (y * q) % y = 0
<1> DEFINE x == y * q
           d == x \div y
           r == x % y
<1>1. x \in Nat OBVIOUS
<1>2. d \in Nat /\ r \in 0 .. y - 1 /\ x = y * d + r BY <1>1, DivMod
<1>3. q =< d BY <1>1, Quotient
<1>4. ~ (q + 1 =< d)
  <2>1. y * (q + 1) = x + y OBVIOUS
  <2>2. ~ (y * (q + 1) =< x) BY <1>1, <2>1
  <2>3. q + 1 \in Nat OBVIOUS
  <2> HIDE DEF x
  <2> QED BY <1>1, <2>2, <2>3, Quotient
<1>5. d = q BY <1>2, <1>3, <1>4
<1> QED BY <1>1, <1>2, <1>5

\* Padding aligns.
LEMMA Padded ==
  ASSUME NEW i \in Nat
  PROVE  Initrd!pad_size(i) \in Nat /\ \E q \in Nat : i + Initrd!pad_size(i) = Align * q
<1>1. Align \in Nat \ {0} BY ArchiveAssumption
<1> DEFINE d == i \div Align
           r == i % Align
<1>2. d \in Nat /\ r \in 0 .. Align - 1 /\ i = Align * d + r BY <1>1, DivMod
<1>3. Initrd!pad_size(i) = IF r = 0 THEN 0 ELSE Align - r BY DEF Initrd!pad_size
<1> HIDE DEF d, r
<1>4. Align * (d + 1) = Align * d + Align /\ Align * d \in Nat BY <1>1, <1>2
<1>5. CASE r = 0 BY <1>1, <1>2, <1>3, <1>4, <1>5
<1>6. CASE r # 0
  <2>1. Initrd!pad_size(i) = Align - r /\ d + 1 \in Nat BY <1>2, <1>3, <1>6
  <2>2. i + (Align - r) = Align * (d + 1) BY <1>1, <1>2, <1>4
  <2>3. i + Initrd!pad_size(i) = Align * (d + 1) BY <2>1, <2>2
  <2>4. Initrd!pad_size(i) \in Nat BY <1>1, <1>2, <2>1
  <2> QED BY <2>1, <2>3, <2>4
<1> QED BY <1>5, <1>6

\* Where the data of the k-th file begin.
Offset(files, k) == Initrd!DataEnd(files)[k - 1] + Initrd!pad_size(Initrd!DataEnd(files)[k - 1])

\* A file's name and bytes.
LEMMA FileIs ==
  ASSUME NEW files \in Seq(PackedFile), NEW k \in 1 .. Len(files)
  PROVE  /\ files[k] \in PackedFile /\ files[k].name \in STRING
         /\ files[k].bytes \in Seq(Nat) /\ Len(files[k].bytes) \in Nat
<1>1. files[k] \in PackedFile BY ElementOfSeq
<1>2. files[k].bytes \in Seq(Nat) BY <1>1 DEF PackedFile
<1> QED BY <1>1, <1>2, LenProperties DEF PackedFile

\* Files begin aligned, end where the next one's padding begins and follow one
\* another.
LEMMA Ends ==
  ASSUME NEW files \in Seq(PackedFile)
  PROVE  /\ \A n \in 0 .. Len(files) : Initrd!DataEnd(files)[n] \in Nat
         /\ \A k \in 1 .. Len(files) :
              /\ Offset(files, k) \in Nat
              /\ \E q \in Nat : Offset(files, k) = Align * q
              /\ Initrd!DataEnd(files)[k - 1] =< Offset(files, k)
              /\ Initrd!DataEnd(files)[k] = Offset(files, k) + Len(files[k].bytes)
         /\ \A n \in 0 .. Len(files) : \A k \in 0 .. n :
              Initrd!DataEnd(files)[k] =< Initrd!DataEnd(files)[n]
<1> DEFINE N == Len(files)
<1>0. N \in Nat BY LenProperties
<1>1. PICK end : /\ end = Initrd!DataEnd(files) /\ end[0] = 0
                 /\ \A n \in 1 .. N : end[n] = end[n - 1] + Initrd!pad_size(end[n - 1]) + Len(files[n].bytes)
  <2>1. \A n \in 0 .. N : Initrd!DataEnd(files)[n] =
             IF n = 0 THEN 0
             ELSE Initrd!DataEnd(files)[n - 1] + Initrd!pad_size(Initrd!DataEnd(files)[n - 1])
                  + Len(files[n].bytes)
    BY <1>0, EndRecursion
  <2>2. 0 \in 0 .. N /\ \A n \in 1 .. N : n \in 0 .. N /\ n # 0 BY <1>0
  <2> QED BY <2>1, <2>2
<1>2. \A k \in 1 .. N : Len(files[k].bytes) \in Nat BY FileIs
<1> HIDE DEF N
<1> DEFINE good == {n \in 0 .. N : end[n] \in Nat}
<1>3. good = 0 .. N
  <2>1. ASSUME NEW k \in 1 .. N, k - 1 \in good PROVE k \in good
    <3>1. end[k - 1] \in Nat /\ end[k] = end[k - 1] + Initrd!pad_size(end[k - 1]) + Len(files[k].bytes)
      BY <1>1, <2>1
    <3>2. Initrd!pad_size(end[k - 1]) \in Nat BY <3>1, Padded
    <3>3. end[k] \in Nat BY <1>2, <3>1, <3>2
    <3> QED BY <1>0, <3>3
  <2>2. 0 \in good /\ good \subseteq 0 .. N BY <1>0, <1>1
  <2> HIDE DEF good
  <2> QED BY <1>0, <2>1, <2>2, Reaches
<1>4. \A n \in 0 .. N : end[n] \in Nat BY <1>3
<1>5. ASSUME NEW k \in 1 .. N
      PROVE  /\ Offset(files, k) \in Nat /\ end[k - 1] \in Nat /\ end[k - 1] =< Offset(files, k)
             /\ \E q \in Nat : Offset(files, k) = Align * q
             /\ end[k] = Offset(files, k) + Len(files[k].bytes)
  <2>1. PICK i \in Nat : i = end[k - 1] BY <1>0, <1>4
  <2>2. Initrd!pad_size(i) \in Nat /\ \E q \in Nat : i + Initrd!pad_size(i) = Align * q BY Padded
  <2>3. Offset(files, k) = i + Initrd!pad_size(i) BY <1>1, <2>1 DEF Offset
  <2>4. end[k] = Offset(files, k) + Len(files[k].bytes) BY <1>1, <2>1, <2>3
  <2> QED BY <2>1, <2>2, <2>3, <2>4
<1> DEFINE grows == {n \in 0 .. N : \A k \in 0 .. n : end[k] =< end[n]}
<1>6. grows = 0 .. N
  <2>1. ASSUME NEW k \in 1 .. N, k - 1 \in grows PROVE k \in grows
    <3>1. end[k - 1] =< end[k] /\ end[k] \in Nat /\ end[k - 1] \in Nat
      <4>1. PICK o \in Nat, l \in Nat : o = Offset(files, k) /\ l = Len(files[k].bytes) BY <1>2, <1>5
      <4>2. end[k - 1] =< o /\ end[k] = o + l /\ end[k - 1] \in Nat BY <1>5, <4>1
      <4> QED BY <4>1, <4>2
    <3>2. ASSUME NEW j \in 0 .. k PROVE end[j] =< end[k]
      <4>1. CASE j = k BY <3>1, <4>1
      <4>2. CASE j # k
        <5>1. j \in 0 .. k - 1 /\ j \in 0 .. N BY <1>0, <4>2
        <5>2. end[j] =< end[k - 1] /\ end[j] \in Nat BY <1>4, <2>1, <5>1
        <5> QED BY <3>1, <5>2
      <4> QED BY <4>1, <4>2
    <3> QED BY <1>0, <3>2
  <2>2. 0 \in grows /\ grows \subseteq 0 .. N
    <3>1. end[0] =< end[0] BY <1>1
    <3> QED BY <1>0, <3>1
  <2> HIDE DEF grows
  <2> QED BY <1>0, <2>1, <2>2, Reaches
<1>7. \A n \in 0 .. N : \A k \in 0 .. n : end[k] =< end[n] BY <1>0, <1>6
<1>8. \A n \in 0 .. N : Initrd!DataEnd(files)[n] \in Nat BY <1>1, <1>4
<1>9. \A n \in 0 .. N : \A k \in 0 .. n : Initrd!DataEnd(files)[k] =< Initrd!DataEnd(files)[n] BY <1>1, <1>7
<1>10. \A k \in 1 .. N :
         /\ Offset(files, k) \in Nat
         /\ \E q \in Nat : Offset(files, k) = Align * q
         /\ Initrd!DataEnd(files)[k - 1] =< Offset(files, k)
         /\ Initrd!DataEnd(files)[k] = Offset(files, k) + Len(files[k].bytes)
  BY <1>1, <1>5
<1> QED BY <1>8, <1>9, <1>10 DEF N

\* The bytes printed for the first n files: as many as DataEnd counts, with each
\* file's where its offset says.
LEMMA DataIs ==
  ASSUME NEW files \in Seq(PackedFile), NEW n \in 0 .. Len(files)
  PROVE  /\ Initrd!Data(files)[n] \in Seq(Int) /\ Len(Initrd!Data(files)[n]) = Initrd!DataEnd(files)[n]
         /\ \A k \in 1 .. n : \A b \in 1 .. Len(files[k].bytes) :
              Initrd!Data(files)[n][Offset(files, k) + b] = files[k].bytes[b]
<1>0. PICK N \in Nat : N = Len(files) BY LenProperties
<1>1. PICK data : /\ data = Initrd!Data(files) /\ data[0] = <<>>
                  /\ \A j \in 1 .. N : data[j] = data[j - 1]
                       \o [i \in 1 .. Initrd!pad_size(Len(data[j - 1])) |-> Initrd!PadByte] \o files[j].bytes
  <2>1. \A j \in 0 .. N : Initrd!Data(files)[j] =
             IF j = 0 THEN <<>>
             ELSE Initrd!Data(files)[j - 1]
                  \o [i \in 1 .. Initrd!pad_size(Len(Initrd!Data(files)[j - 1])) |-> Initrd!PadByte]
                  \o files[j].bytes
    BY <1>0, DataRecursion
  <2>2. 0 \in 0 .. N /\ \A j \in 1 .. N : j \in 0 .. N /\ j # 0 BY <1>0
  <2> QED BY <2>1, <2>2
<1>2. PICK end : end = Initrd!DataEnd(files) OBVIOUS
<1>3. end[0] = 0
  <2>1. 0 \in 0 .. N BY <1>0
  <2> QED BY <1>0, <1>2, <2>1, EndRecursion
<1> DEFINE Exact(j) == /\ data[j] \in Seq(Int) /\ Len(data[j]) = end[j]
                       /\ \A k \in 1 .. j : \A b \in 1 .. Len(files[k].bytes) :
                            data[j][Offset(files, k) + b] = files[k].bytes[b]
           good == {j \in 0 .. N : Exact(j)}
<1>4. ASSUME NEW j \in 1 .. N, Exact(j - 1) PROVE Exact(j)
  <2>1. PICK d \in Seq(Int) : d = data[j - 1] BY <1>4
  <2>2. Len(d) = end[j - 1] /\ Len(d) \in Nat BY <1>4, <2>1, LenProperties
  <2>3. PICK p : p = [i \in 1 .. Initrd!pad_size(Len(d)) |-> Initrd!PadByte] OBVIOUS
  <2>4. Initrd!pad_size(Len(d)) \in Nat BY <2>2, Padded
  <2>5. p \in Seq(Int) /\ Len(p) = Initrd!pad_size(Len(d))
    <3>1. Initrd!PadByte \in Int BY DEF Initrd!PadByte
    <3>2. p \in [1 .. Initrd!pad_size(Len(d)) -> Int] BY <2>3, <3>1
    <3>3. p \in Seq(Int) BY <2>4, <3>2, SeqDef
    <3>4. DOMAIN p = 1 .. Len(p) /\ Len(p) \in Nat BY <3>3, LenProperties
    <3>5. DOMAIN p = 1 .. Initrd!pad_size(Len(d)) BY <2>3
    <3> QED BY <2>4, <3>3, <3>4, <3>5
  <2>6. files[j].bytes \in Seq(Int)
    <3>1. files[j].bytes \in Seq(Nat) BY <1>0, FileIs
    <3>2. PICK l \in Nat : files[j].bytes \in [1 .. l -> Nat] BY <3>1, LenProperties
    <3>3. files[j].bytes \in [1 .. l -> Int] BY <3>2
    <3> QED BY <3>3, SeqDef
  <2>7. PICK f \in Seq(Int) : f = files[j].bytes /\ files[j].bytes = f /\ Len(f) \in Nat
    BY <2>6, LenProperties
  <2>8. PICK ld \in Nat, lp \in Nat, lf \in Nat :
          ld = Len(d) /\ lp = Len(p) /\ lp = Initrd!pad_size(Len(d)) /\ lf = Len(f)
    BY <2>2, <2>4, <2>5, <2>7
  <2>9. PICK e \in Seq(Int) :
          /\ e = d \o p /\ Len(e) = ld + lp
          /\ \A i \in 1 .. ld + lp : e[i] = IF i =< ld THEN d[i] ELSE p[i - ld]
    <3>1. /\ d \o p \in Seq(Int) /\ Len(d \o p) = Len(d) + Len(p)
          /\ \A i \in 1 .. Len(d) + Len(p) : (d \o p)[i] = IF i =< Len(d) THEN d[i] ELSE p[i - Len(d)]
      BY <2>5, ConcatProperties
    <3> QED BY <2>8, <3>1
  <2>10. /\ data[j] \in Seq(Int) /\ Len(data[j]) = (ld + lp) + lf
         /\ \A i \in 1 .. (ld + lp) + lf :
              data[j][i] = IF i =< ld + lp THEN e[i] ELSE f[i - (ld + lp)]
    <3>1. data[j] = e \o f BY <1>1, <2>1, <2>3, <2>7, <2>9
    <3>2. /\ e \o f \in Seq(Int) /\ Len(e \o f) = Len(e) + Len(f)
          /\ \A i \in 1 .. Len(e) + Len(f) : (e \o f)[i] = IF i =< Len(e) THEN e[i] ELSE f[i - Len(e)]
      BY ConcatProperties
    <3> QED BY <2>8, <2>9, <3>1, <3>2
  <2>11. Offset(files, j) = ld + lp /\ end[j] = Offset(files, j) + lf
    <3>1. Offset(files, j) = ld + lp BY <1>2, <2>2, <2>8 DEF Offset
    <3>2. end[j] = Offset(files, j) + Len(files[j].bytes) BY <1>0, <1>2, Ends
    <3> QED BY <2>7, <2>8, <3>1, <3>2
  <2>12. Len(data[j]) = end[j] BY <2>10, <2>11
  <2>13. ASSUME NEW k \in 1 .. j, NEW b \in 1 .. Len(files[k].bytes)
         PROVE  data[j][Offset(files, k) + b] = files[k].bytes[b]
    <3>1. CASE k = j
      <4>1. b \in 1 .. lf /\ files[k].bytes = f BY <2>7, <2>8, <2>13, <3>1
      <4>2. PICK i \in Nat : i = Offset(files, k) + b /\ i = (ld + lp) + b BY <2>11, <3>1, <4>1
      <4>3. i \in 1 .. (ld + lp) + lf /\ ~ (i =< ld + lp) /\ i - (ld + lp) = b
        <5>1. PICK c \in 1 .. lf : c = b BY <4>1
        <5>2. i = (ld + lp) + c BY <4>2, <5>1
        <5>3. i \in 1 .. (ld + lp) + lf BY <5>2
        <5>4. ~ (i =< ld + lp) /\ i - (ld + lp) = c BY <5>2
        <5> QED BY <5>1, <5>3, <5>4
      <4>4. data[j][i] = f[b] BY <2>10, <4>3
      <4> QED BY <4>1, <4>2, <4>4
    <3>2. CASE k # j
      <4>1. k \in 1 .. j - 1 /\ k \in 1 .. N /\ j - 1 \in 0 .. N BY <1>0, <3>2
      <4>2. data[j - 1][Offset(files, k) + b] = files[k].bytes[b] BY <1>4, <4>1
      <4>3. PICK o \in Nat, l \in Nat :
              o = Offset(files, k) /\ l = Len(files[k].bytes) /\ end[k] = o + l /\ end[k] =< ld
        <5>1. Offset(files, k) \in Nat /\ end[k] = Offset(files, k) + Len(files[k].bytes)
          BY <1>0, <1>2, <4>1, Ends
        <5>2. k \in 0 .. j - 1 BY <4>1
        <5>3. end[k] =< end[j - 1] BY <1>0, <1>2, <4>1, <5>2, Ends
        <5>4. Len(files[k].bytes) \in Nat BY <1>0, <4>1, FileIs
        <5> QED BY <2>2, <2>8, <5>1, <5>3, <5>4
      <4>4. PICK i \in Nat : i = Offset(files, k) + b /\ i \in 1 .. ld
        <5>1. b \in 1 .. l BY <2>13, <4>3
        <5>2. PICK x \in Nat : x = o + b OBVIOUS
        <5>3. o + l =< ld BY <4>3
        <5>4. x \in 1 .. ld BY <2>8, <5>1, <5>2, <5>3
        <5> QED BY <4>3, <5>2, <5>4
      <4>5. i \in 1 .. (ld + lp) + lf /\ i =< ld + lp /\ i \in 1 .. ld + lp /\ i =< ld BY <2>8, <4>4
      <4>6. data[j][i] = d[i] BY <2>9, <2>10, <4>5
      <4> QED BY <2>1, <4>2, <4>4, <4>6
    <3> QED BY <3>1, <3>2
  <2> QED BY <2>10, <2>12, <2>13
<1>5. good = 0 .. N
  <2>1. Exact(0)
    <3>1. data[0] \in Seq(Int) /\ Len(data[0]) = 0 BY <1>1, EmptySeq
    <3> QED BY <1>3, <3>1
  <2> HIDE DEF Exact
  <2>2. 0 \in good /\ good \subseteq 0 .. N BY <1>0, <2>1
  <2>3. \A j \in 1 .. N : j - 1 \in good => j \in good BY <1>0, <1>4
  <2> HIDE DEF good
  <2> QED BY <1>0, <2>2, <2>3, Reaches
<1>6. Exact(n)
  <2> HIDE DEF Exact
  <2> QED BY <1>0, <1>5
<1> QED BY <1>1, <1>2, <1>6

\* Sequences of one length that agree everywhere are one.
LEMMA TableLength ==
  ASSUME NEW n \in Nat, NEW t, NEW S, t \in [1 .. n -> S]
  PROVE  t \in Seq(S) /\ Len(t) = n
<1>1. t \in Seq(S) BY SeqDef
<1>2. DOMAIN t = 1 .. Len(t) /\ Len(t) \in Nat BY <1>1, LenProperties
<1>3. DOMAIN t = 1 .. n OBVIOUS
<1> QED BY <1>1, <1>2, <1>3

\* An archive as written: the offsets of its table lead to the files' bytes, and
\* it ends with the last of them.
Packs(files, w, head, size, n) ==
  /\ n = Len(files) /\ files \in Seq(PackedFile)
  /\ head = ArchiveHeader + n * ArchiveEntry /\ ArchiveHeader =< head
  /\ n * ArchiveEntry \in Nat /\ n * ArchiveEntry =< head
  /\ w.magic = TRUE /\ w.written = TRUE /\ w.files = files /\ w.entry_size = ArchiveEntry
  /\ w.size = size /\ head =< size /\ initrd_start + size < WordSize /\ Len(w.entries) = n
  /\ \A k \in 1 .. n :
       /\ Offset(files, k) \in Nat /\ Len(files[k].bytes) \in Nat
       /\ w.entries[k].name = files[k].name /\ w.entries[k].terminated = TRUE
       /\ w.entries[k].offset = Offset(files, k)
       /\ w.entries[k].size = Len(files[k].bytes)
       /\ head + Offset(files, k) + Len(files[k].bytes) =< size
       /\ \A b \in 1 .. Len(files[k].bytes) :
            w.bytes[head + Offset(files, k) + b] = files[k].bytes[b]

LEMMA WrittenIs ==
  ASSUME NEW files \in FileLists
  PROVE  \E head \in Nat, size \in Nat, n \in Nat :
           Packs(files, Initrd!Written(files), head, size, n)
<1>1. files \in Seq(PackedFile) /\ initrd_start + Initrd!Written(files).size < WordSize
  BY ArchiveAssumption
<1>2. PICK n \in Nat : n = Len(files) BY <1>1, LenProperties
<1>3. PICK head \in Nat : /\ head = ArchiveHeader + n * ArchiveEntry /\ ArchiveHeader =< head
                          /\ n * ArchiveEntry \in Nat /\ n * ArchiveEntry =< head
  BY ArchiveAssumption
<1>4. PICK w : w = Initrd!Written(files) OBVIOUS
<1>5. PICK data \in Seq(Int) : data = Initrd!Data(files)[n] /\ Len(data) = Initrd!DataEnd(files)[n]
        /\ \A k \in 1 .. n : \A b \in 1 .. Len(files[k].bytes) :
              data[Offset(files, k) + b] = files[k].bytes[b]
  <2>1. n \in 0 .. Len(files) BY <1>2
  <2> QED BY <1>1, <1>2, <2>1, DataIs
<1>6. PICK end \in Nat : end = Initrd!DataEnd(files)[n] /\ end = Len(data) BY <1>5, LenProperties
<1>7. PICK hb \in Seq(Int) : hb = [i \in 1 .. head |-> Initrd!HeadByte] /\ Len(hb) = head
  <2>1. [i \in 1 .. head |-> Initrd!HeadByte] \in [1 .. head -> Int] BY DEF Initrd!HeadByte
  <2> QED BY <2>1, TableLength
<1>8. PICK bytes \in Seq(Int) :
        /\ bytes = hb \o data /\ Len(bytes) = head + end
        /\ \A i \in 1 .. head + end : bytes[i] = IF i =< head THEN hb[i] ELSE data[i - head]
  <2>1. /\ hb \o data \in Seq(Int) /\ Len(hb \o data) = Len(hb) + Len(data)
        /\ \A i \in 1 .. Len(hb) + Len(data) :
             (hb \o data)[i] = IF i =< Len(hb) THEN hb[i] ELSE data[i - Len(hb)]
    BY ConcatProperties
  <2> QED BY <1>6, <1>7, <2>1
<1>9. /\ w.magic = TRUE /\ w.written = TRUE /\ w.files = files /\ w.entry_size = ArchiveEntry
      /\ w.bytes = bytes /\ w.size = head + end /\ w.entries = Initrd!Table(files)
  <2>1. Initrd!file_entry_offset(Len(files)) = head BY <1>2, <1>3 DEF Initrd!file_entry_offset
  <2>2. bytes = [i \in 1 .. Initrd!file_entry_offset(Len(files)) |-> Initrd!HeadByte]
                  \o Initrd!Data(files)[Len(files)]
    BY <1>2, <1>5, <1>7, <1>8, <2>1
  <2> QED BY <1>4, <1>8, <2>2 DEF Initrd!Written
<1>10. PICK table : /\ table = Initrd!Table(files)
                    /\ table = [k \in 1 .. n |->
                          [name |-> files[k].name, terminated |-> TRUE,
                           offset |-> Offset(files, k), size |-> Len(files[k].bytes)]]
  BY <1>2 DEF Initrd!Table, Offset
<1>11. Len(table) = n
  <2>1. table \in [1 .. n -> {table[k] : k \in 1 .. n}] BY <1>10
  <2> QED BY <2>1, TableLength
<1>12. ASSUME NEW k \in 1 .. n
       PROVE  /\ Offset(files, k) \in Nat /\ Len(files[k].bytes) \in Nat
              /\ w.entries[k].name = files[k].name /\ w.entries[k].terminated = TRUE
              /\ w.entries[k].offset = Offset(files, k)
              /\ w.entries[k].size = Len(files[k].bytes)
              /\ head + Offset(files, k) + Len(files[k].bytes) =< head + end
              /\ \A b \in 1 .. Len(files[k].bytes) :
                   w.bytes[head + Offset(files, k) + b] = files[k].bytes[b]
  <2>1. PICK o \in Nat, l \in Nat : o = Offset(files, k) /\ l = Len(files[k].bytes) /\ o + l =< end
    <3>1. k \in 0 .. n /\ n \in 0 .. n /\ k \in 1 .. Len(files) BY <1>2
    <3>2. Offset(files, k) \in Nat /\ Initrd!DataEnd(files)[k] = Offset(files, k) + Len(files[k].bytes)
      BY <1>1, <3>1, Ends
    <3>3. Initrd!DataEnd(files)[k] =< Initrd!DataEnd(files)[n] BY <1>1, <1>2, <3>1, Ends
    <3>4. Len(files[k].bytes) \in Nat BY <1>1, <3>1, FileIs
    <3> QED BY <1>6, <3>2, <3>3, <3>4
  <2>0. o + l =< end BY <2>1
  <2>2. w.entries[k] = [name |-> files[k].name, terminated |-> TRUE,
                        offset |-> Offset(files, k), size |-> Len(files[k].bytes)]
    BY <1>9, <1>10
  <2>3. ASSUME NEW b \in 1 .. l PROVE bytes[(head + o) + b] = files[k].bytes[b]
    <3>1. PICK i \in Nat : i = (head + o) + b OBVIOUS
    <3>2. i \in 1 .. head + end /\ ~ (i =< head) /\ i - head = o + b BY <2>0, <3>1
    <3>3. bytes[i] = data[o + b] BY <1>8, <3>2
    <3>4. data[o + b] = files[k].bytes[b] BY <1>5, <2>1
    <3> QED BY <3>1, <3>3, <3>4
  <2>4. head + o + l =< head + end BY <2>0
  <2> QED BY <1>9, <2>1, <2>2, <2>3, <2>4
<1>13. PICK size \in Nat : size = head + end /\ head =< size OBVIOUS
<1>14. initrd_start + size < WordSize BY <1>1, <1>4, <1>9, <1>13
<1>15. Len(w.entries) = n BY <1>9, <1>10, <1>11
<1>16. w.size = size /\ \A k \in 1 .. n :
                /\ Offset(files, k) \in Nat /\ Len(files[k].bytes) \in Nat
                /\ w.entries[k].name = files[k].name /\ w.entries[k].terminated = TRUE
                /\ w.entries[k].offset = Offset(files, k)
                /\ w.entries[k].size = Len(files[k].bytes)
                /\ head + Offset(files, k) + Len(files[k].bytes) =< size
                /\ \A b \in 1 .. Len(files[k].bytes) :
                     w.bytes[head + Offset(files, k) + b] = files[k].bytes[b]
  BY <1>9, <1>12, <1>13
<1>17. Packs(files, w, head, size, n)
  BY <1>1, <1>2, <1>3, <1>9, <1>13, <1>14, <1>15, <1>16 DEF Packs
<1> QED BY <1>4, <1>17

-----------------------------------------------------------------------------
(* The steps of init.                                                      *)

\* What lies there is what the build wrote, or one of the others.
ArchiveKnown ==
  IF archive.written THEN archive.files \in FileLists /\ archive = Initrd!Written(archive.files)
                     ELSE archive \in OtherArchives

\* The table of any archive.
LEMMA TableIs ==
  ASSUME ArchiveKnown
  PROVE  /\ Len(archive.entries) \in Nat /\ archive.size \in Nat
         /\ \A k \in 1 .. Len(archive.entries) :
              archive.entries[k].offset \in Nat /\ archive.entries[k].size \in Nat
<1>1. CASE archive.written
  <2>1. PICK files \in FileLists : archive = Initrd!Written(files) BY <1>1 DEF ArchiveKnown
  <2>2. PICK head \in Nat, size \in Nat, n \in Nat : Packs(files, archive, head, size, n)
    BY <2>1, WrittenIs
  <2>3. Len(archive.entries) = n /\ archive.size = size BY <2>2 DEF Packs
  <2>4. ASSUME NEW k \in 1 .. n PROVE archive.entries[k].offset \in Nat /\ archive.entries[k].size \in Nat
    <3>1. archive.entries[k].offset = Offset(files, k) /\ Offset(files, k) \in Nat BY <2>2 DEF Packs
    <3>2. archive.entries[k].size = Len(files[k].bytes) /\ Len(files[k].bytes) \in Nat BY <2>2 DEF Packs
    <3> QED BY <3>1, <3>2
  <2> QED BY <2>3, <2>4
<1>2. CASE ~archive.written
  <2>1. archive.size \in Word /\ archive.entries \in Seq(TableEntry)
    BY <1>2, ArchiveAssumption DEF ArchiveKnown
  <2>2. Len(archive.entries) \in Nat BY <2>1, LenProperties
  <2>3. \A k \in 1 .. Len(archive.entries) : archive.entries[k] \in TableEntry
    BY <2>1, ElementOfSeq
  <2>4. Word \subseteq Nat BY WordAssumption DEF Word
  <2> QED BY <2>1, <2>2, <2>3, <2>4 DEF TableEntry
<1> QED BY <1>1, <1>2

LEMMA InitInitrd == Initrd!Init => ArchiveKnown /\ Initrd!InitrdInv
<1> SUFFICES ASSUME Initrd!Init PROVE ArchiveKnown /\ Initrd!InitrdInv OBVIOUS
<1>1. ArchiveKnown
  <2>1. CASE archive \in OtherArchives
    <3>1. ~archive.written BY <2>1, ArchiveAssumption
    <3> QED BY <2>1, <3>1 DEF ArchiveKnown
  <2>2. CASE archive \notin OtherArchives
    <3>1. PICK files \in FileLists : archive = Initrd!Written(files) BY <2>2 DEF Initrd!Init
    <3>2. archive.written = TRUE /\ archive.files = files BY <3>1, WrittenIs DEF Packs
    <3> QED BY <3>1, <3>2 DEF ArchiveKnown
  <2> QED BY <2>1, <2>2
<1>2. PICK n \in Nat : n = Len(archive.entries) BY <1>1, TableIs
<1>3. 1 \in 1 .. n + 1 /\ 1 .. 1 - 1 = {} OBVIOUS
<1> QED BY <1>1, <1>2, <1>3 DEF Initrd!Init, Initrd!InitrdInv, ArchiveKnown

\* What mkinitrd wrote passes the checks.
LEMMA WrittenPasses ==
  ASSUME ArchiveKnown, archive.written
  PROVE  /\ Initrd!HeaderOk
         /\ entry_count = 0 =>
              \A k \in 1 .. Len(archive.entries) : Initrd!EntryOk(archive.entries[k])
<1>1. PICK files \in FileLists : archive = Initrd!Written(files) BY DEF ArchiveKnown
<1>2. PICK head \in Nat, size \in Nat, n \in Nat : Packs(files, archive, head, size, n)
  BY <1>1, WrittenIs
<1>3. Initrd!HeaderOk
  <2>1. ArchiveHeader =< size BY <1>2, ArchiveAssumption DEF Packs
  <2>2. Len(archive.entries) * archive.entry_size =< archive.size BY <1>2, ArchiveAssumption DEF Packs
  <2> QED BY <1>2, <2>1, <2>2 DEF Initrd!HeaderOk, Packs
<1>4. ASSUME entry_count = 0, NEW k \in 1 .. n PROVE Initrd!EntryOk(archive.entries[k])
  <2>1. Initrd!data_offset = ArchiveHeader /\ ArchiveHeader \in Nat
    BY <1>4, ArchiveAssumption DEF Initrd!data_offset, Initrd!file_entry_offset
  <2>2. PICK o \in Nat, l \in Nat :
          archive.entries[k].offset = o /\ archive.entries[k].size = l /\ head + o + l =< size
    BY <1>2 DEF Packs
  <2>3. head + o + l =< size /\ ArchiveHeader =< head BY <1>2, <2>2 DEF Packs
  <2>4. ArchiveHeader + o =< size /\ ArchiveHeader + o + l =< size BY <2>1, <2>3
  <2> QED BY <1>2, <2>1, <2>2, <2>4 DEF Initrd!EntryOk, Packs
<1> QED BY <1>2, <1>3, <1>4 DEF Packs

LEMMA InitrdStep ==
  ASSUME ArchiveKnown, Initrd!InitrdInv, Initrd!Next
  PROVE  /\ ArchiveKnown' /\ Initrd!InitrdInv' /\ archive' = archive
         /\ reading \in {"header", "table"}
<1>0. PICK n \in Nat : n = Len(archive.entries) BY TableIs
<1>1. archive' = archive BY DEF Initrd!Next, Initrd!CheckHeader, Initrd!CheckEntry, Initrd!Accept
<1>2. ArchiveKnown' BY <1>1 DEF ArchiveKnown
<1>3. CASE Initrd!CheckHeader
  <2>1. archive.written => reading' = "table" BY <1>3, WrittenPasses DEF Initrd!CheckHeader
  <2> QED BY <1>1, <1>2, <1>3, <2>1 DEF Initrd!InitrdInv, Initrd!CheckHeader
<1>4. CASE Initrd!CheckEntry
  <2>0. /\ reading = "table" /\ entry_count = 0 /\ entry \in 1 .. n /\ UNCHANGED <<archive, entry_count>>
        /\ \A k \in 1 .. entry - 1 :
             ArchiveHeader + archive.entries[k].offset + archive.entries[k].size =< archive.size
    BY <1>0, <1>4 DEF Initrd!InitrdInv, Initrd!CheckEntry
  <2>1. Initrd!data_offset = ArchiveHeader
    BY <2>0, ArchiveAssumption DEF Initrd!data_offset, Initrd!file_entry_offset
  <2>2. CASE Initrd!EntryOk(archive.entries[entry]) /\ entry' = entry + 1 /\ UNCHANGED reading
    <3>1. ArchiveHeader + archive.entries[entry].offset + archive.entries[entry].size =< archive.size
      BY <2>1, <2>2 DEF Initrd!EntryOk
    <3>2. ASSUME NEW k \in 1 .. entry' - 1
          PROVE  ArchiveHeader + archive.entries[k].offset + archive.entries[k].size =< archive.size
      <4>1. k = entry \/ k \in 1 .. entry - 1 BY <2>0, <2>2
      <4> QED BY <2>0, <3>1, <4>1
    <3>3. entry' \in 1 .. n + 1 BY <2>0, <2>2
    <3> QED BY <1>0, <1>2, <2>0, <2>2, <3>2, <3>3 DEF Initrd!InitrdInv
  <2>3. CASE ~Initrd!EntryOk(archive.entries[entry]) /\ reading' = "invalid" /\ UNCHANGED entry
    <3>1. ~archive.written BY <1>0, <2>0, <2>3, WrittenPasses
    <3> QED BY <1>0, <1>2, <2>0, <2>3, <3>1 DEF Initrd!InitrdInv
  <2> QED BY <1>4, <2>2, <2>3 DEF Initrd!CheckEntry
<1>5. CASE Initrd!Accept
  <2>1. entry = n + 1 BY <1>0, <1>5 DEF Initrd!InitrdInv, Initrd!Accept
  <2> QED BY <1>0, <1>1, <1>2, <1>5, <2>1 DEF Initrd!InitrdInv, Initrd!Accept
<1> QED BY <1>3, <1>4, <1>5 DEF Initrd!Next

-----------------------------------------------------------------------------
(* What the kernel finds.                                                  *)

\* Names of an accepted archive are those of its files.
LEMMA NamedIs ==
  ASSUME ArchiveKnown, Initrd!InitrdInv, archive.written, reading = "accepted", NEW name
  PROVE  /\ DOMAIN archive.files = 1 .. Len(archive.files)
         /\ Initrd!Named(name) = {j \in DOMAIN archive.files : archive.files[j].name = name}
<1>1. PICK files \in FileLists : archive = Initrd!Written(files) BY DEF ArchiveKnown
<1>2. PICK head \in Nat, size \in Nat, n \in Nat : Packs(files, archive, head, size, n)
  BY <1>1, WrittenIs
<1>3. entry_count = n /\ archive.files = files /\ n = Len(files) /\ files \in Seq(PackedFile)
  BY <1>2 DEF Initrd!InitrdInv, Packs
<1>4. DOMAIN files = 1 .. n BY <1>3, LenProperties
<1>5. \A j \in 1 .. n : archive.entries[j].name = files[j].name BY <1>2 DEF Packs
<1> QED BY <1>3, <1>4, <1>5 DEF Initrd!Named

\* get_file leads to the bytes of the first file of that name.
Leads(name, first, file) ==
  /\ archive.files \in FileLists /\ archive.files \in Seq(PackedFile)
  /\ first = Min({j \in DOMAIN archive.files : archive.files[j].name = name})
  /\ file.data \in Word /\ file.size \in Word /\ file.size = Len(archive.files[first].bytes)
  /\ Initrd!Content(file) = archive.files[first].bytes
  /\ \A i \in 1 .. file.size :
       archive.bytes[file.data - initrd_start + i] = archive.files[first].bytes[i]

LEMMA Found ==
  ASSUME ArchiveKnown, Initrd!InitrdInv, archive.written, reading = "accepted",
         NEW name, Initrd!Named(name) # {}
  PROVE  \E first \in 1 .. Len(archive.files) : Leads(name, first, Initrd!get_file(name))
<1>1. PICK files \in FileLists : archive = Initrd!Written(files) BY DEF ArchiveKnown
<1>2. PICK head \in Nat, size \in Nat, n \in Nat : Packs(files, archive, head, size, n)
  BY <1>1, WrittenIs
<1>3. /\ entry_count = n /\ archive.files = files /\ n = Len(files) /\ files \in Seq(PackedFile)
      /\ initrd_start + size < WordSize
  BY <1>2 DEF Initrd!InitrdInv, Packs
<1>4. PICK names : /\ names = Initrd!Named(name)
                   /\ names = {j \in DOMAIN files : files[j].name = name} /\ names \subseteq 1 .. n
  BY <1>3, NamedIs
<1>5. PICK first \in 1 .. n : first = Min(names) /\ Initrd!Min(names) = first
  <2>1. names # {} /\ names \subseteq Nat BY <1>4
  <2> QED BY <1>4, <2>1, Least
<1>6. Initrd!data_offset = head
  BY <1>2, <1>3 DEF Packs, Initrd!data_offset, Initrd!file_entry_offset
<1>7. PICK e : e = archive.entries[first] OBVIOUS
<1>8. PICK o \in Nat, l \in Nat : o = e.offset /\ l = e.size /\ o = Offset(files, first)
                                  /\ l = Len(files[first].bytes) /\ head + o + l =< size
  BY <1>2, <1>7 DEF Packs
<1>9. head + o + l =< size BY <1>8
<1>10. PICK data \in Nat : data = (initrd_start + head) + o /\ data \in Word /\ l \in Word
  <2>1. initrd_start \in Nat /\ WordSize \in Nat BY ArchiveAssumption, WordAssumption
  <2>2. (initrd_start + head) + o < WordSize /\ l < WordSize BY <1>3, <1>9, <2>1
  <2> QED BY <2>1, <2>2 DEF Word
<1>11. PICK file : file = Initrd!get_file(name) /\ file = [data |-> data, size |-> l]
  <2>1. Initrd!get_file(name) =
          [data |-> Initrd!Plus(initrd_start, Initrd!Plus(head, o)), size |-> l]
    BY <1>4, <1>5, <1>6, <1>7, <1>8 DEF Initrd!get_file
  <2>2. \A x \in Nat : x < WordSize => x % WordSize = x BY WordAssumption
  <2>3. head + o < WordSize /\ initrd_start \in Nat BY <1>3, <1>9, ArchiveAssumption, WordAssumption
  <2>4. Initrd!Plus(head, o) = head + o BY <2>2, <2>3 DEF Initrd!Plus
  <2>5. initrd_start + (head + o) = data /\ data < WordSize
    BY <1>10, <2>3, WordAssumption DEF Word
  <2>6. Initrd!Plus(initrd_start, head + o) = data BY <2>2, <2>5 DEF Initrd!Plus
  <2> QED BY <2>1, <2>4, <2>6
<1>12. \A i \in 1 .. l : archive.bytes[data - initrd_start + i] = files[first].bytes[i]
  <2>1. ASSUME NEW i \in 1 .. l PROVE archive.bytes[data - initrd_start + i] = files[first].bytes[i]
    <3>0. archive.bytes[head + Offset(files, first) + i] = files[first].bytes[i] BY <1>2, <1>8 DEF Packs
    <3>1. archive.bytes[head + o + i] = files[first].bytes[i] BY <1>8, <3>0
    <3>2. PICK c \in Nat : c = i OBVIOUS
    <3>3. initrd_start \in Nat BY ArchiveAssumption
    <3>4. data - initrd_start + c = head + o + c BY <1>10, <3>3
    <3> QED BY <3>1, <3>2, <3>4
  <2> QED BY <2>1
<1>13. Initrd!Content(file) = files[first].bytes
  <2>1. files[first].bytes \in Seq(Nat) BY <1>3, FileIs
  <2>2. files[first].bytes = [i \in 1 .. l |-> files[first].bytes[i]]
    BY <1>8, <2>1, LenProperties
  <2>3. Initrd!Content(file) = [i \in 1 .. l |-> archive.bytes[data - initrd_start + i]]
    BY <1>11 DEF Initrd!Content
  <2> QED BY <1>12, <2>2, <2>3
<1>14. file.data = data /\ file.size = l BY <1>11
<1>15. file.data \in Word /\ file.size \in Word BY <1>10, <1>14
<1>16. \A i \in 1 .. file.size : archive.bytes[file.data - initrd_start + i] = files[first].bytes[i]
  BY <1>12, <1>14
<1>17. first = Min({j \in DOMAIN files : files[j].name = name}) BY <1>4, <1>5
<1>18. file.size = Len(files[first].bytes) BY <1>8, <1>14
<1>19. Leads(name, first, file) BY <1>3, <1>13, <1>15, <1>16, <1>17, <1>18 DEF Leads
<1> QED BY <1>3, <1>11, <1>19

\* What load is called with: an image of one of the files, in its place.
LEMMA ImageIs ==
  ASSUME ArchiveKnown, Initrd!InitrdInv, archive.written, reading = "accepted",
         NEW name, Initrd!Named(name) # {}
  PROVE  LET i == ImageAt(Initrd!get_file(name))
         IN  /\ i \in Image
             /\ i.base = Initrd!get_file(name).data /\ i.size = Initrd!get_file(name).size
<1>1. PICK file : file = Initrd!get_file(name) OBVIOUS
<1>2. PICK first \in 1 .. Len(archive.files) :
        /\ archive.files \in Seq(PackedFile) /\ file.data \in Word /\ file.size \in Word
        /\ Initrd!Content(file) = archive.files[first].bytes
  BY <1>1, Found DEF Leads
<1> DEFINE S == {archive.files[k] : k \in DOMAIN archive.files}
           f == CHOOSE f \in S : f.bytes = Initrd!Content(file)
<1>3. first \in DOMAIN archive.files BY <1>2, LenProperties
<1>4. f \in S
  <2>1. archive.files[first] \in S /\ archive.files[first].bytes = Initrd!Content(file) BY <1>2, <1>3
  <2> HIDE DEF S
  <2> QED BY <2>1
<1>5. ImageAt(file) = [base |-> file.data, size |-> file.size, sane |-> f.elf.sane,
                       ph_off |-> f.elf.ph_off, ent_size |-> f.elf.ent_size, ph |-> f.elf.ph,
                       entry |-> f.elf.entry]
  BY DEF ImageAt
<1> HIDE DEF f
<1>6. PICK k \in DOMAIN archive.files : f = archive.files[k] BY <1>4
<1>7. f \in PackedFile
  <2>1. k \in 1 .. Len(archive.files) BY <1>2, <1>6, LenProperties
  <2> QED BY <1>2, <1>6, <2>1, FileIs
<1>8. f.elf \in [sane : BOOLEAN, ph_off : Word, ent_size : Word, ph : Seq(Segment), entry : Word]
  BY <1>7 DEF PackedFile
<1>9. ImageAt(file) \in Image BY <1>2, <1>5, <1>8 DEF Image
<1> QED BY <1>1, <1>5, <1>9

-----------------------------------------------------------------------------
(* The steps of the whole.                                                 *)

Inv == ArchiveKnown /\ KernelInv

LEMMA InitKernel == KernelInit => Inv
<1> SUFFICES ASSUME KernelInit PROVE Inv OBVIOUS
<1>1. ElfInv /\ phase = "idle" BY InitElf DEF KernelInit, Init
<1>2. ArchiveKnown /\ Initrd!InitrdInv BY InitInitrd DEF KernelInit
<1>3. started \in 0 .. Len(programs)
  <2>1. Len(programs) \in Nat BY ArchiveAssumption, LenProperties
  <2> QED BY <2>1 DEF KernelInit
<1> QED BY <1>1, <1>2, <1>3 DEF Inv, KernelInv

LEMMA KernelStep ==
  ASSUME Inv, [KernelNext]_<<vars, initrdVars, started>>
  PROVE  Inv'
<1>0. ArchiveKnown /\ ElfInv /\ Initrd!InitrdInv /\ started \in 0 .. Len(programs) /\ Len(programs) \in Nat
  BY ArchiveAssumption, LenProperties DEF Inv, KernelInv
<1>1. ASSUME UNCHANGED initrdVars PROVE ArchiveKnown' /\ Initrd!InitrdInv'
  BY <1>0, <1>1 DEF initrdVars, ArchiveKnown, Initrd!InitrdInv
<1>2. ASSUME UNCHANGED initrdVars, NEW name
      PROVE  /\ Initrd!Named(name)' = Initrd!Named(name)
             /\ ImageAt(Initrd!get_file(name))' = ImageAt(Initrd!get_file(name))
  BY <1>2 DEF initrdVars, ImageAt, Initrd!Named, Initrd!get_file, Initrd!Content, Initrd!data_offset
<1>3. CASE ReadArchive
  <2>1. /\ ArchiveKnown' /\ Initrd!InitrdInv' /\ reading # "accepted" /\ UNCHANGED <<vars, started>>
    BY <1>0, <1>3, InitrdStep DEF ReadArchive
  <2>2. phase' = "idle" BY <2>1 DEF Inv, KernelInv, vars
  <2>3. ElfInv' BY <1>0, <2>1, ElfStutter DEF vars
  <2> QED BY <1>0, <2>1, <2>2, <2>3 DEF Inv, KernelInv
<1>4. CASE LoadTask
  <2>1. /\ archive.written /\ reading = "accepted" /\ started < Len(programs)
        /\ UNCHANGED initrdVars /\ started' = started + 1 /\ phase \in Ended
    BY <1>0, <1>4 DEF LoadTask, ArchiveRead, Initrd!InitrdInv
  <2>2. PICK name : name = programs[started'] OBVIOUS
  <2>3. started' \in 0 .. Len(programs) /\ started' > 0 BY <1>0, <2>1
  <2>4. ArchiveKnown' /\ Initrd!InitrdInv' BY <1>1, <2>1
  <2>5. CASE Initrd!Named(name) = {} /\ phase' = "idle" /\ UNCHANGED <<image, next, segments, mapped, memory>>
    <3>1. ElfInv' BY <1>0, <2>5, ElfStutter
    <3> QED BY <2>3, <2>4, <2>5, <3>1 DEF Inv, KernelInv
  <2>6. CASE Initrd!Named(name) # {} /\ load(ImageAt(Initrd!get_file(name)))
    <3>1. ImageAt(Initrd!get_file(name)) \in Image BY <1>0, <2>1, <2>6, ImageIs
    <3>2. ElfInv' BY <1>0, <2>6, <3>1, LoadCalled
    <3>3. image' = ImageAt(Initrd!get_file(name)) BY <2>6 DEF load
    <3>4. Initrd!Named(name)' # {} /\ image' = ImageAt(Initrd!get_file(name))'
      BY <1>2, <2>1, <2>6, <3>3
    <3>5. archive'.written /\ reading' = "accepted" BY <2>1 DEF initrdVars
    <3> QED BY <2>2, <2>3, <2>4, <3>2, <3>4, <3>5 DEF Inv, KernelInv
  <2> QED BY <1>4, <2>2, <2>5, <2>6 DEF LoadTask
<1>5. CASE LoadStep
  <2>1. Step /\ UNCHANGED <<initrdVars, started>> BY <1>5 DEF LoadStep
  <2>2. ElfInv' BY <1>0, <2>1, StepElf
  <2>3. phase # "idle" /\ image' = image
    BY <2>1 DEF Step, CheckHeaders, CheckEntry, CheckDone, LoadSegment, MapStack
  <2>4. PICK name : name = programs[started] OBVIOUS
  <2>5. /\ archive.written /\ reading = "accepted" /\ started > 0 /\ Initrd!Named(name) # {}
        /\ image = ImageAt(Initrd!get_file(name))
    BY <2>3, <2>4 DEF Inv, KernelInv
  <2>6. Initrd!Named(name)' # {} /\ image' = ImageAt(Initrd!get_file(name))' /\ programs[started'] = name
    BY <1>2, <2>1, <2>3, <2>4, <2>5
  <2>7. archive'.written /\ reading' = "accepted" /\ started' = started BY <2>1, <2>5 DEF initrdVars
  <2>8. ArchiveKnown' /\ Initrd!InitrdInv' BY <1>1, <2>1
  <2> QED BY <1>0, <2>2, <2>5, <2>6, <2>7, <2>8 DEF Inv, KernelInv
<1>6. CASE UNCHANGED <<vars, initrdVars, started>>
  <2>1. ElfInv' BY <1>0, <1>6, ElfStutter DEF vars
  <2>2. ArchiveKnown' /\ Initrd!InitrdInv' BY <1>1, <1>6
  <2>3. ASSUME phase # "idle"
        PROVE  /\ archive'.written /\ reading' = "accepted" /\ started' > 0
               /\ (Initrd!Named(programs[started]) # {})'
               /\ (image = ImageAt(Initrd!get_file(programs[started])))'
    <3>1. PICK name : name = programs[started] OBVIOUS
    <3>2. /\ archive.written /\ reading = "accepted" /\ started > 0 /\ Initrd!Named(name) # {}
          /\ image = ImageAt(Initrd!get_file(name))
      BY <2>3, <3>1 DEF Inv, KernelInv
    <3>3. Initrd!Named(name)' # {} /\ image' = ImageAt(Initrd!get_file(name))' /\ programs[started'] = name
      BY <1>2, <1>6, <3>1, <3>2 DEF vars
    <3> QED BY <1>6, <3>2, <3>3 DEF initrdVars
  <2>4. phase' = phase BY <1>6 DEF vars
  <2> QED BY <1>0, <1>6, <2>1, <2>2, <2>3, <2>4 DEF Inv, KernelInv
<1> QED BY <1>3, <1>4, <1>5, <1>6 DEF KernelNext

\* The inductive invariant: init finds what was packed, the loader loads what
\* init found.
THEOREM KernelInvariant == KernelSpec => []KernelInv
<1>1. Inv => KernelInv BY DEF Inv
<1> QED BY <1>1, InitKernel, KernelStep, PTL DEF KernelSpec

\* No segment gets past the checks of elf.cc by sums that wrap around, whatever
\* the images (elf.cc:118-150).
THEOREM AcceptsWellFormedHolds == KernelSpec => []AcceptsWellFormed
<1>1. KernelInv => AcceptsWellFormed BY DEF KernelInv, ElfInv
<1> QED BY <1>1, KernelInvariant, PTL

\* Headers and table leave the files' data aligned.
LEMMA AlignedHead ==
  ASSUME NEW n \in Nat, NEW q \in Nat
  PROVE  ((ArchiveHeader + n * ArchiveEntry) + Align * q) % Align = 0
<1>1. PICK h \in Nat : ArchiveHeader = Align * h
  <2>1. /\ ArchiveHeader \in Nat /\ Align \in Nat \ {0} /\ ArchiveHeader % Align = 0
    BY ArchiveAssumption
  <2>2. ArchiveHeader \div Align \in Nat /\ ArchiveHeader = Align * (ArchiveHeader \div Align) + 0
    BY <2>1, DivMod
  <2>3. PICK h \in Nat : h = ArchiveHeader \div Align BY <2>2
  <2>4. ArchiveHeader = Align * h BY <2>1, <2>2, <2>3
  <2> QED BY <2>4
<1>2. PICK e \in Nat : ArchiveEntry = Align * e
  <2>1. /\ ArchiveEntry \in Nat /\ Align \in Nat \ {0} /\ ArchiveEntry % Align = 0
    BY ArchiveAssumption
  <2>2. ArchiveEntry \div Align \in Nat /\ ArchiveEntry = Align * (ArchiveEntry \div Align) + 0
    BY <2>1, DivMod
  <2>3. PICK e \in Nat : e = ArchiveEntry \div Align BY <2>2
  <2>4. ArchiveEntry = Align * e BY <2>1, <2>2, <2>3
  <2> QED BY <2>4
<1>3. Align \in Nat \ {0} BY ArchiveAssumption
<1>4. (ArchiveHeader + n * ArchiveEntry) + Align * q = Align * (h + n * e + q) /\ h + n * e + q \in Nat
  BY <1>1, <1>2, <1>3
<1> QED BY <1>3, <1>4, MultipleOf

\* The kernel finds in its archive what mkinitrd wrote, and in any archive no
\* file that ends further behind it than the table is long (initrd.cc:90-134,
\* mkinitrd.pl).
THEOREM ArchiveExactHolds == KernelSpec => []ArchiveExact
<1>1. ASSUME Inv PROVE Initrd!FindsWritten
  <2>1. ArchiveKnown /\ Initrd!InitrdInv BY <1>1 DEF Inv, KernelInv
  <2>2. ASSUME archive.written, reading = "accepted", NEW k \in DOMAIN archive.files
        PROVE  LET name == archive.files[k].name
                   first == Initrd!Min({j \in DOMAIN archive.files : archive.files[j].name = name})
               IN  /\ Initrd!Named(name) # {}
                   /\ Initrd!Content(Initrd!get_file(name)) = archive.files[first].bytes
                   /\ (Initrd!data_offset + archive.entries[k].offset) % Align = 0
    <3>1. PICK name : name = archive.files[k].name OBVIOUS
    <3>2. PICK names : /\ names = {j \in DOMAIN archive.files : archive.files[j].name = name}
                       /\ Initrd!Named(name) = names /\ k \in names /\ names \subseteq Nat
      BY <2>1, <2>2, <3>1, NamedIs
    <3>3. Initrd!Min(names) = Min(names) BY <3>2, Least
    <3>4. Initrd!Content(Initrd!get_file(name)) = archive.files[Min(names)].bytes
      BY <2>1, <2>2, <3>2, Found DEF Leads
    <3>5. (Initrd!data_offset + archive.entries[k].offset) % Align = 0
      <4>1. PICK files \in FileLists : archive = Initrd!Written(files) BY <2>1, <2>2 DEF ArchiveKnown
      <4>2. PICK head \in Nat, size \in Nat, n \in Nat : Packs(files, archive, head, size, n)
        BY <4>1, WrittenIs
      <4>3. /\ entry_count = n /\ archive.files = files /\ n = Len(files) /\ files \in Seq(PackedFile)
            /\ head = ArchiveHeader + n * ArchiveEntry
        BY <2>1, <2>2, <4>2 DEF Initrd!InitrdInv, Packs
      <4>4. k \in 1 .. n BY <2>1, <2>2, <4>3, NamedIs
      <4>5. archive.entries[k].offset = Offset(files, k) BY <4>2, <4>4 DEF Packs
      <4>6. PICK q \in Nat : Offset(files, k) = Align * q BY <4>3, <4>4, Ends
      <4>7. Initrd!data_offset = ArchiveHeader + n * ArchiveEntry
        BY <4>3 DEF Initrd!data_offset, Initrd!file_entry_offset
      <4> QED BY <4>5, <4>6, <4>7, AlignedHead
    <3> QED BY <3>1, <3>2, <3>3, <3>4, <3>5
  <2>3. archive.written => reading # "invalid" BY <2>1 DEF Initrd!InitrdInv
  <2> QED BY <2>2, <2>3 DEF Initrd!FindsWritten
<1>2. ASSUME Inv PROVE Initrd!EndBounded
  <2>1. ArchiveKnown /\ Initrd!InitrdInv BY <1>2 DEF Inv, KernelInv
  <2>2. SUFFICES ASSUME NEW i \in 1 .. entry_count
                 PROVE  Initrd!data_offset + archive.entries[i].offset + archive.entries[i].size
                          =< archive.size + entry_count * ArchiveEntry
    BY DEF Initrd!EndBounded
  <2>3. PICK n \in Nat, size \in Nat : n = Len(archive.entries) /\ size = archive.size BY <2>1, TableIs
  <2>4. entry_count = n /\ entry = n + 1
    <3>1. reading = "accepted" BY <2>1, <2>2 DEF Initrd!InitrdInv
    <3> QED BY <2>1, <2>3, <3>1 DEF Initrd!InitrdInv
  <2>5. PICK o \in Nat, s \in Nat : o = archive.entries[i].offset /\ s = archive.entries[i].size
    BY <2>1, <2>2, <2>3, <2>4, TableIs
  <2>6. i \in 1 .. entry - 1 BY <2>2, <2>3, <2>4
  <2>7. ArchiveHeader + archive.entries[i].offset + archive.entries[i].size =< archive.size
    BY <2>1, <2>6 DEF Initrd!InitrdInv
  <2>8. ArchiveHeader + o + s =< size BY <2>3, <2>5, <2>7
  <2>9. PICK t \in Nat : t = n * ArchiveEntry BY ArchiveAssumption
  <2>10. (ArchiveHeader + t) + o + s =< size + t BY <2>8, ArchiveAssumption
  <2>11. Initrd!data_offset = ArchiveHeader + t
    BY <2>4, <2>9 DEF Initrd!data_offset, Initrd!file_entry_offset
  <2> QED BY <2>3, <2>4, <2>5, <2>9, <2>10, <2>11
<1>3. Inv => ArchiveExact BY <1>1, <1>2 DEF ArchiveExact
<1> QED BY <1>3, InitKernel, KernelStep, PTL DEF KernelSpec

\* The page below the end of user memory by one.
LEMMA StackPage == (user_end - page_size - 1) \div page_size = user_end \div page_size - 2
<1> DEFINE d == user_end \div page_size
<1>1. page_size \in Nat \ {0} /\ user_end \in Nat /\ user_end % page_size = 0 /\ 2 * page_size =< user_end
  BY ElfAssumption
<1>2. d \in Nat /\ user_end = page_size * d + 0 BY <1>1, DivMod
<1> HIDE DEF d
<1>3. d >= 2
  <2>1. ASSUME d =< 1 PROVE FALSE
    <3>1. page_size * d =< page_size * 1 BY <1>1, <1>2, <2>1, MulMono
    <3> QED BY <1>1, <1>2, <3>1
  <2> QED BY <1>2, <2>1
<1>4. PICK x \in Nat : x = user_end - page_size - 1 BY <1>1
<1>5. PICK e \in Nat : e = d - 2 BY <1>2, <1>3
<1>6. page_size * e = user_end - 2 * page_size /\ page_size * (e + 1) = user_end - page_size
  BY <1>1, <1>2, <1>5
<1>7. e =< x \div page_size /\ x \div page_size \in Nat
  <2>1. page_size * e =< x BY <1>1, <1>4, <1>6
  <2> QED BY <1>1, <2>1, Quotient
<1>8. ~ (e + 1 =< x \div page_size)
  <2>1. ~ (page_size * (e + 1) =< x) BY <1>1, <1>4, <1>6
  <2>2. e + 1 \in Nat OBVIOUS
  <2> QED BY <1>1, <2>1, <2>2, Quotient
<1> QED BY <1>4, <1>5, <1>7, <1>8 DEF d

\* The entry point is a word of the segment that contains it.
LEMMA EntryIn ==
  ASSUME ElfInv, NEW k \in DOMAIN segments, contains_word(MemSpan(segments[k]), image.entry)
  PROVE  image.entry \in Words(MemSpan(segments[k]))
<1>1. segments \in Seq(Segment) /\ image.entry \in Word BY DEF ElfInv, TypeOK, Image
<1>2. segments[k] \in Segment /\ WellFormed(segments[k])
  BY <1>1, LenProperties, ElementOfSeq DEF ElfInv, AcceptsWellFormed
<1>3. PICK s \in Span : s = MemSpan(segments[k]) /\ valid(s) /\ ~empty(s) BY <1>2, Accepted
<1>4. Words(s) = s.start .. LastWord(s) BY <1>3, WordsExact
<1>5. s.start =< image.entry /\ image.entry =< LastWord(s) BY <1>3 DEF contains_word
<1>6. s.start \in Int /\ LastWord(s) \in Int /\ image.entry \in Int
  BY <1>1, <1>3, LastExact, WordAssumption DEF Span, Word
<1> QED BY <1>3, <1>4, <1>5, <1>6

\* Whatever the build packs: the segments, entry point and stack of a program
\* that is loaded are mapped; if it was linked, its bytes are those that the
\* build packed under its name, with zeros after them, and loading it does not
\* fault; and if the copy of another faults, then at a segment that needs a page
\* more than its size (elf.cc, task.cc, initrd.cc, mkinitrd.pl).
THEOREM ProgramExactHolds == KernelSpec => []ProgramExact
<1>1. ASSUME Inv PROVE ProgramExact
  <2>0. ArchiveKnown /\ ElfInv /\ Initrd!InitrdInv BY <1>1 DEF Inv, KernelInv
  <2>1. CASE phase = "idle" BY <2>1 DEF ProgramExact
  <2>2. CASE phase # "idle"
    <3>1. PICK name : /\ name = programs[started] /\ Initrd!Named(name) # {}
                      /\ archive.written /\ reading = "accepted"
                      /\ image = ImageAt(Initrd!get_file(name))
      BY <1>1, <2>2 DEF Inv, KernelInv
    <3>2. PICK first, file :
            /\ first \in 1 .. Len(archive.files)
            /\ file = Initrd!get_file(name) /\ Leads(name, first, file)
      BY <2>0, <3>1, Found
    <3> DEFINE f == archive.files[first]
    <3>3. image.base = file.data /\ image.size = file.size
      BY <2>0, <3>1, <3>2, ImageIs
    <3>4. phase = "fault" => ~Linked(image.ph) /\ ~FitsPages(segments[next])
      BY <2>0 DEF ElfInv, OrderInv, FaultInv, InOrder
    <3>5. ASSUME phase = "loaded"
          PROVE  /\ image.entry \div page_size \in mapped
                 /\ (user_end - page_size - 1) \div page_size \in mapped
                 /\ \A k \in DOMAIN segments :
                      Resident(segments[k]) /\ (Linked(image.ph) => InMemory(segments[k]))
      <4>1. /\ LoadedSoFar /\ next = Len(segments) + 1
            /\ (user_end \div page_size - 2) \in mapped /\ segments \in Seq(Segment)
        BY <2>0, <3>5 DEF ElfInv, TypeOK
      <4>2. DOMAIN segments = 1 .. next - 1 BY <4>1, LenProperties
      <4>3. \A k \in DOMAIN segments :
              Resident(segments[k]) /\ (Linked(image.ph) => InMemory(segments[k]))
        BY <4>1, <4>2 DEF LoadedSoFar
      <4>4. image.entry \div page_size \in mapped
        <5>1. PICK k \in DOMAIN segments : contains_word(MemSpan(segments[k]), image.entry)
          BY <4>1 DEF LoadedSoFar, EntryMapped
        <5>2. image.entry \in Words(MemSpan(segments[k])) BY <2>0, <4>1, <4>2, <5>1, EntryIn
        <5> QED BY <4>3, <5>2 DEF Resident
      <4> QED BY <4>1, <4>3, <4>4, StackPage
    <3>6. ASSUME phase = "loaded", Linked(image.ph), NEW k \in DOMAIN segments
          PROVE  Faithful(segments[k])
      <4>1. PICK phe \in Segment : phe = segments[k] /\ WellFormed(phe) /\ InMemory(phe)
        <5>1. segments \in Seq(Segment) /\ WellFormed(segments[k]) BY <2>0 DEF ElfInv, TypeOK, AcceptsWellFormed
        <5>2. segments[k] \in Segment BY <5>1, LenProperties, ElementOfSeq
        <5> QED BY <3>5, <3>6, <5>1, <5>2
      <4>2. PICK v \in Nat, sf \in Nat, sm \in Nat, o \in Nat, base \in Nat, size \in Nat :
              /\ v = phe.v_addr /\ sf = phe.size_file /\ sm = phe.size_mem /\ o = phe.offset
              /\ base = image.base /\ size = image.size
        <5>1. image.base \in Nat /\ image.size \in Nat
          BY <2>0, WordAssumption DEF ElfInv, TypeOK, Image, Word
        <5> QED BY <4>1, <5>1, Accepted
      <4>3. ASSUME NEW b \in 1 .. sf
            PROVE  LET a == v + b - 1
                   IN  /\ ~ (memory[a] < 0)
                       /\ archive.bytes[base - initrd_start + 1 + memory[a]] = f.bytes[o + b]
        <5>1. PICK c \in 0 .. sf - 1 : c = b - 1 /\ v + b - 1 = v + c OBVIOUS
        <5>2. memory[v + c] = o + c BY <4>1, <4>2, <5>1 DEF InMemory
        <5>3. PICK i \in Nat : i = o + b OBVIOUS
        <5>4. i \in 1 .. size
          <6>1. sf > 0 /\ o + sf =< size BY <4>1, <4>2 DEF WellFormed
          <6> QED BY <5>3, <6>1
        <5>5. initrd_start \in Nat BY ArchiveAssumption
        <5>6. base - initrd_start + 1 + (o + c) = base - initrd_start + i BY <5>1, <5>3, <5>5
        <5>7. archive.bytes[base - initrd_start + i] = f.bytes[i] BY <3>2, <3>3, <4>2, <5>4 DEF Leads
        <5>8. ~ (o + c < 0) BY <5>1
        <5> QED BY <5>1, <5>2, <5>3, <5>6, <5>7, <5>8
      <4>4. ASSUME NEW b \in sf + 1 .. sm PROVE memory[v + b - 1] = Zero
        <5>1. PICK c \in sf .. sm - 1 : c = b - 1 /\ v + b - 1 = v + c OBVIOUS
        <5> QED BY <4>1, <4>2, <5>1 DEF InMemory
      <4>5. Zero < 0 BY DEF Zero
      <4>6. first = Min({j \in DOMAIN archive.files : archive.files[j].name = programs[started]})
        BY <3>1, <3>2 DEF Leads
      <4> QED BY <4>1, <4>2, <4>3, <4>4, <4>5, <4>6 DEF Faithful, ByteAt
    <3> QED BY <3>4, <3>5, <3>6 DEF ProgramExact
  <2> QED BY <2>1, <2>2
<1>2. Inv => ProgramExact BY <1>1
<1> QED BY <1>2, InitKernel, KernelStep, PTL DEF KernelSpec
=============================================================================

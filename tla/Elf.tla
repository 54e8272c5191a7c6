-------------------------------- MODULE Elf ---------------------------------
(***************************************************************************)
(* The program loader, kernel/src/elf.cc: it checks an image's headers     *)
(* with wrapping and checked sums of words, then maps, copies and zeroes   *)
(* one segment after the other in a fresh address space.                   *)
(*                                                                         *)
(* An image is its place in kernel memory and its size, the place of its   *)
(* program headers and the size claimed for one, the headers and the entry *)
(* point; `sane` stands for the fields that are compared with constants.   *)
(* Bytes of the image are known by their offset.                           *)
(***************************************************************************)
EXTENDS Span, Optional, Sequences

CONSTANTS
  page_size,       \* bytes per page
  user_start,      \* 1M
  user_end,        \* 3G, where kernel memory begins
  HeaderSize,      \* sizeof(Elf32Header)
  EntrySize,       \* sizeof(Elf32PhEntry)
  max_ph_segments  \* most program headers (16)

ASSUME ElfAssumption ==
  /\ page_size \in Nat \ {0} /\ max_ph_segments \in Nat
  /\ user_start \in Nat /\ user_end \in user_start .. WordSize - 1
  /\ user_end % page_size = 0 /\ 2 * page_size =< user_end
  /\ HeaderSize \in Word /\ EntrySize \in Word

Segment == [load : BOOLEAN, offset : Word, v_addr : Word, size_file : Word, size_mem : Word]
Image == [base : Word, size : Word, sane : BOOLEAN, ph_off : Word, ent_size : Word,
          ph : Seq(Segment), entry : Word]
NoImage == [base |-> 0, size |-> 0, sane |-> FALSE, ph_off |-> 0, ent_size |-> 0,
            ph |-> <<>>, entry |-> 0]

VARIABLES
  image,    \* what is loaded
  phase,    \* "idle", "headers", "check", "load", or how load ended
  next,     \* the header or segment whose turn it is
  segments, \* headers of segments to be loaded
  mapped,   \* user pages mapped
  memory    \* user memory: of each byte the offset in the image, zero or garbage

vars == <<image, phase, next, segments, mapped, memory>>

Ended == {"idle", "invalid", "no_memory", "loaded"}

Zero == 0 - 1
Garbage == 0 - 2

UserByte == user_start .. user_end - 1

Init ==
  /\ image = NoImage /\ phase = "idle" /\ next = 1 /\ segments = <<>>
  /\ mapped = {} /\ memory = [a \in UserByte |-> Garbage]

\* load is called for image i in a fresh address space.
load(i) ==
  /\ phase \in Ended
  /\ image' = i /\ phase' = "headers" /\ next' = 1 /\ segments' = <<>>
  /\ mapped' = {} /\ memory' = [a \in UserByte |-> Garbage]

-----------------------------------------------------------------------------
elf_span == span(image.base, image.size)
user_span == span(user_start, user_end - user_start)

safe_add(x, y) == IF add_overflows(x, y) THEN nullopt ELSE {x + y}
safe_mul(x, y) == IF x * y < WordSize THEN {x * y} ELSE nullopt

\* Only spans that do not wrap around.
make_span(start, sz) == require([s \in Span |-> valid(s)], {span(start, sz)})

\* The program headers lie in the image.
ph_span ==
  LET in_image == [s \in Span |-> contains(elf_span, s)]
      sized(x) == then([y \in Word |-> make_span(x, y)], safe_mul(Len(image.ph), image.ent_size))
  IN  require(in_image, then([x \in Word |-> sized(x)], safe_add(image.base, image.ph_off)))

HeadersOk ==
  /\ image.size >= HeaderSize /\ image.sane
  /\ Len(image.ph) \in 1 .. max_ph_segments /\ ph_span # nullopt

CheckHeaders ==
  /\ phase = "headers"
  /\ phase' = IF HeadersOk THEN "check" ELSE "invalid"
  /\ UNCHANGED <<image, next, segments, mapped, memory>>

\* Memory of a segment: first its bytes in the file, then size_mem zeros.
MemSpan(phe) == span(phe.v_addr, phe.size_file + phe.size_mem)

\* "Verify that the claimed memory fully resides in userspace."
mem_span(phe) ==
  LET in_userspace == [s \in Span |-> contains(user_span, s)]
  IN  require(in_userspace, then([x \in Word |-> make_span(phe.v_addr, x)], safe_add(phe.size_file, phe.size_mem)))

\* A check of the end only.
MutFileSpan(phe) == IF phe.offset =< image.size THEN {span(image.base + phe.offset, phe.size_file)} ELSE {}

\* "Verify that the referenced file data is contained within the ELF image."
file_span(phe) ==
  LET in_image == [s \in Span |-> empty(s) \/ contains(elf_span, s)]
  IN  require(in_image, then([x \in Word |-> make_span(x, phe.size_file)], safe_add(image.base, phe.offset)))

\* "Verify that the claimed memory does not overlap other segments": the span
\* compared is made of the other segment's offset in the file.
NoOverlap(phe) ==
  \A k \in DOMAIN segments :
    LET o == segments[k]
    IN  ~overlaps(MemSpan(phe), span(o.offset, Plus(o.size_file, o.size_mem)))

SegmentOk(phe) == mem_span(phe) # nullopt /\ file_span(phe) # nullopt /\ NoOverlap(phe)

CheckEntry ==
  /\ phase = "check" /\ next =< Len(image.ph)
  /\ LET phe == image.ph[next]
     IN  \/ ~phe.load /\ next' = next + 1 /\ UNCHANGED <<segments, phase>>
         \/ phe.load /\ SegmentOk(phe) /\ next' = next + 1
            /\ segments' = Append(segments, phe) /\ UNCHANGED phase
         \/ phe.load /\ ~SegmentOk(phe) /\ phase' = "invalid" /\ UNCHANGED <<next, segments>>
  /\ UNCHANGED <<image, mapped, memory>>

EntryMapped == \E k \in DOMAIN segments : contains_word(MemSpan(segments[k]), image.entry)

CheckDone ==
  /\ phase = "check" /\ next > Len(image.ph)
  /\ phase' = IF segments # <<>> /\ EntryMapped THEN "load" ELSE "invalid"
  /\ next' = 1
  /\ UNCHANGED <<image, segments, mapped, memory>>

-----------------------------------------------------------------------------
div_ceil(x, y) == IF x % y # 0 THEN x \div y + 1 ELSE x \div y

\* Only the pages that the segment's size fills.
MutPagesOf(phe) ==
  LET vp == phe.v_addr \div page_size
  IN  vp .. vp + (Plus(phe.size_file, phe.size_mem) \div page_size) - 1

\* From the page of the first byte, as many as the segment's size needs.
PagesOf(phe) ==
  LET vp == phe.v_addr \div page_size
  IN  vp .. vp + div_ceil(Plus(phe.size_file, phe.size_mem), page_size) - 1

\* memset from the start of the segment.
MutLoaded(phe) ==
  [a \in UserByte |->
     CASE a - phe.v_addr \in 0 .. phe.size_mem - 1 -> Zero
       [] a - phe.v_addr \in phe.size_mem .. phe.size_file - 1 -> phe.offset + a - phe.v_addr
       [] OTHER -> memory[a]]

\* memcpy and memset: size_file bytes of the image and size_mem zeros.
Loaded(phe) ==
  [a \in UserByte |->
     CASE a - phe.v_addr \in 0 .. phe.size_file - 1 -> phe.offset + a - phe.v_addr
       [] a - phe.v_addr \in phe.size_file .. phe.size_file + phe.size_mem - 1 -> Zero
       [] OTHER -> memory[a]]

\* Vmm::map_alloc fails with some of the pages mapped.
OutOfMemory(pages) ==
  \E n \in pages \ mapped : mapped' = mapped \cup {p \in pages : p < n} /\ phase' = "no_memory"

\* A write to a page that is not mapped is a page fault in the kernel.
LoadSegment ==
  /\ phase = "load" /\ next =< Len(segments)
  /\ LET phe == segments[next]
     IN  \/ OutOfMemory(PagesOf(phe)) /\ UNCHANGED <<next, memory>>
         \/ /\ mapped' = mapped \cup PagesOf(phe)
            /\ IF \A a \in Words(MemSpan(phe)) : a \div page_size \in mapped'
               THEN memory' = Loaded(phe) /\ next' = next + 1 /\ UNCHANGED phase
               ELSE phase' = "fault" /\ UNCHANGED <<next, memory>>
  /\ UNCHANGED <<image, segments>>

\* One page of stack, a page below the end of user memory.
MapStack ==
  /\ phase = "load" /\ next > Len(segments)
  /\ LET stack == {user_end \div page_size - 2}
     IN  \/ OutOfMemory(stack)
         \/ mapped' = mapped \cup stack /\ phase' = "loaded"
  /\ UNCHANGED <<image, next, segments, memory>>

Step == CheckHeaders \/ CheckEntry \/ CheckDone \/ LoadSegment \/ MapStack

Next == (\E i \in Image : load(i)) \/ Step

Spec == Init /\ [][Next]_vars

-----------------------------------------------------------------------------
\* A loader's promise for one segment, in sums that do not wrap: its memory is
\* user memory, and its bytes are the image's.
WellFormed(phe) ==
  /\ user_start =< phe.v_addr /\ phe.v_addr + phe.size_file + phe.size_mem =< user_end
  /\ phe.size_file + phe.size_mem > 0
  /\ phe.size_file > 0 => phe.offset + phe.size_file =< image.size

\* No segment gets past the checks by sums that wrap around.
AcceptsWellFormed == \A k \in DOMAIN segments : WellFormed(segments[k])

\* The pages of a segment's size hold it wherever it starts in the first.
FitsPages(phe) ==
  LET n == phe.size_file + phe.size_mem
  IN  (phe.v_addr % page_size) + n =< page_size * div_ceil(n, page_size)

\* Segments as the linker writes them: in their pages, in ascending order.
Apart(o, phe) == o.v_addr + o.size_file =< phe.v_addr /\ o.v_addr + o.size_mem =< phe.v_addr

Linked(ph) ==
  \A j, k \in DOMAIN ph : ph[j].load /\ ph[k].load =>
    FitsPages(ph[k]) /\ (j < k => Apart(ph[j], ph[k]))

TypeOK ==
  /\ image \in Image /\ segments \in Seq(Segment) /\ next \in Nat \ {0}
  /\ phase \in Ended \cup {"headers", "check", "load", "fault"}
  /\ mapped \subseteq Int /\ memory \in [UserByte -> Int]

\* What was linked in order is taken in order.
InOrder ==
  /\ \A k \in DOMAIN segments : FitsPages(segments[k])
  /\ \A j, k \in DOMAIN segments : j < k => Apart(segments[j], segments[k])
  /\ phase \in {"headers", "check"} =>
       \A j \in DOMAIN segments, b \in next .. Len(image.ph) :
         image.ph[b].load => Apart(segments[j], image.ph[b])

OrderInv == Linked(image.ph) => InOrder

\* The copy faults only where a segment needs a page more than its size.
FaultInv == phase = "fault" => next \in DOMAIN segments /\ ~FitsPages(segments[next])

\* A segment's bytes and the zeros that the file format asks for are where its
\* header says.
InMemory(phe) ==
  /\ \A b \in 0 .. phe.size_file - 1 : memory[phe.v_addr + b] = phe.offset + b
  /\ \A b \in phe.size_file .. phe.size_mem - 1 : memory[phe.v_addr + b] = Zero

Resident(phe) == \A a \in Words(MemSpan(phe)) : a \div page_size \in mapped

\* The segments before `next` have been loaded.
LoadedSoFar ==
  /\ next =< Len(segments) + 1 /\ EntryMapped
  /\ \A k \in 1 .. next - 1 :
       Resident(segments[k]) /\ (Linked(image.ph) => InMemory(segments[k]))

\* The inductive invariant of the loader.
ElfInv ==
  /\ TypeOK /\ AcceptsWellFormed /\ OrderInv /\ FaultInv
  /\ phase = "load" => LoadedSoFar
  /\ phase = "loaded" => /\ LoadedSoFar /\ next = Len(segments) + 1
                         /\ (user_end \div page_size - 2) \in mapped

\* A segment that passed the checks ("Verify that the claimed memory fully
\* resides in userspace", elf.cc:134) is loaded, or load says that it "could not
\* allocate memory for ELF image" (elf.cc:176): the copy that follows does not
\* fault (elf.cc:170-181).
NoFault == phase # "fault"

\* "Verify that the claimed memory does not overlap other segments."
\* (elf.cc:146)
SegmentsApart ==
  \A j, k \in DOMAIN segments : j # k => Words(MemSpan(segments[j])) \cap Words(MemSpan(segments[k])) = {}
=============================================================================

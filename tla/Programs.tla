------------------------------ MODULE Programs ------------------------------
(***************************************************************************)
(* From the build to user memory: mkinitrd packs programs, kmain reads the *)
(* archive (Initrd) and loads the programs it names (Elf), each into an    *)
(* address space of its own (kernel/src/kmain.cc and task.cc).             *)
(***************************************************************************)
EXTENDS Elf, FiniteSetsExt

CONSTANTS
  initrd_start,        \* where the archive lies in kernel memory
  ArchiveHeader,       \* sizeof(Initrd::header_t) (32)
  ArchiveEntry,        \* sizeof(Initrd::file_entry_t) (32)
  Align,               \* alignment of file data (8)
  FileLists,           \* lists of files: of each its name, bytes and headers
  OtherArchives,       \* archives that mkinitrd did not write
  programs             \* the names that kmain loads, in this order

VARIABLES archive, reading, entry, entry_count, \* those of Initrd
          started                               \* number of names looked up so far

Initrd == INSTANCE Initrd WITH HeaderSize <- ArchiveHeader, EntrySize <- ArchiveEntry

\* What the build packs, and what else may lie there.
PackedFile == [name : STRING, bytes : Seq(Nat),
               elf : [sane : BOOLEAN, ph_off : Word, ent_size : Word, ph : Seq(Segment), entry : Word]]
TableEntry == [name : STRING, terminated : BOOLEAN, offset : Word, size : Word]

ASSUME ArchiveAssumption ==
  /\ initrd_start \in Nat /\ programs \in Seq(STRING)
  /\ ArchiveHeader \in Nat \ {0} /\ ArchiveEntry \in Nat \ {0} /\ Align \in Nat \ {0}
  /\ ArchiveHeader % Align = 0 /\ ArchiveEntry % Align = 0
  /\ \A files \in FileLists :
       files \in Seq(PackedFile) /\ initrd_start + Initrd!Written(files).size < WordSize
  /\ \A a \in OtherArchives :
       ~a.written /\ a.size \in Word /\ a.entry_size \in Word /\ a.entries \in Seq(TableEntry)

initrdVars == <<archive, reading, entry, entry_count>>

KernelInit == Init /\ Initrd!Init /\ started = 0

-----------------------------------------------------------------------------
ReadArchive ==
  /\ Initrd!Next
  /\ UNCHANGED <<vars, started>>

\* init is over, whether it accepted the archive or not.
ArchiveRead == reading \in {"accepted", "invalid"}

\* What load finds at a place in the archive: the program whose bytes are there.
ImageAt(file) ==
  LET f == CHOOSE f \in {archive.files[k] : k \in DOMAIN archive.files} :
             f.bytes = Initrd!Content(file)
  IN  [base |-> file.data, size |-> file.size, sane |-> f.elf.sane, ph_off |-> f.elf.ph_off,
       ent_size |-> f.elf.ent_size, ph |-> f.elf.ph, entry |-> f.elf.entry]

\* load_task: a file that is not found leaves no task.  The kernel's archive is
\* linked into it, so what it finds in others does not matter.
LoadTask ==
  /\ archive.written /\ ArchiveRead /\ phase \in Ended /\ started < Len(programs)
  /\ started' = started + 1
  /\ LET name == programs[started']
     IN  IF Initrd!Named(name) = {}
         THEN phase' = "idle" /\ UNCHANGED <<image, next, segments, mapped, memory>>
         ELSE load(ImageAt(Initrd!get_file(name)))
  /\ UNCHANGED initrdVars

LoadStep ==
  /\ Step
  /\ UNCHANGED <<initrdVars, started>>

KernelNext == ReadArchive \/ LoadTask \/ LoadStep

KernelSpec == KernelInit /\ [][KernelNext]_<<vars, initrdVars, started>>

-----------------------------------------------------------------------------
\* initrd.cc:90-134: the kernel finds in its archive what mkinitrd wrote, and
\* whatever the numbers in a table, no file that it finds ends further behind
\* the archive than the table is long (Initrd says more).
ArchiveExact == Initrd!FindsWritten /\ Initrd!EndBounded

\* What memory holds at an address: a byte of the archive, zero or garbage.
ByteAt(a) == IF memory[a] < 0 THEN memory[a] ELSE archive.bytes[image.base - initrd_start + 1 + memory[a]]

\* The bytes that the build put into the archive under a segment's name are
\* where its header says, with zeros after them.
Faithful(phe) ==
  LET files == archive.files
      f == files[Min({j \in DOMAIN files : files[j].name = programs[started]})]
  IN  /\ \A b \in 1 .. phe.size_file : ByteAt(phe.v_addr + b - 1) = f.bytes[phe.offset + b]
      /\ \A b \in phe.size_file + 1 .. phe.size_mem : ByteAt(phe.v_addr + b - 1) = Zero

\* A program that is loaded has all its segments, its entry point and its stack
\* mapped.  If it was linked, it runs with the bytes that the build put into the
\* archive under its name, also those of segments loaded before others, and
\* loading it does not fault.  Other programs fault the kernel only while it
\* copies a segment that starts inside a page and needs one page more than its
\* size does, which is what elf.cc:171 maps (elf.cc, task.cc, initrd.cc).
ProgramExact ==
  /\ phase = "loaded" =>
       /\ \A k \in DOMAIN segments :
            Resident(segments[k]) /\ (Linked(image.ph) => Faithful(segments[k]))
       /\ image.entry \div page_size \in mapped
       /\ (user_end - page_size - 1) \div page_size \in mapped
  /\ phase = "fault" => ~Linked(image.ph) /\ ~FitsPages(segments[next])

\* The inductive invariant: what is loaded is what the archive holds under the
\* name whose turn it is.
KernelInv ==
  /\ ElfInv /\ Initrd!InitrdInv /\ started \in 0 .. Len(programs)
  /\ phase # "idle" =>
       /\ archive.written /\ reading = "accepted" /\ started > 0
       /\ Initrd!Named(programs[started]) # {}
       /\ image = ImageAt(Initrd!get_file(programs[started]))
=============================================================================

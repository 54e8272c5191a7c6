# A TLA+ model of the Grutto kernel

Grutto is a small 32 bit x86 kernel: a multiboot kernel in the higher half, a
page frame allocator, paging with recursive page tables, a heap, interrupts
through two 8259 controllers, a timer, consoles, an initrd with ELF programs
and a preemptive round-robin scheduler with user-mode threads.  These modules
model its core logic from the source under `src/kernel/src/` (written `K/`
below), check it with TLC on small instances, and prove the properties that
matter most with TLAPS for every value of the constants.

## Inventory

| component | source | state | operations | what makes it correct |
|---|---|---|---|---|
| ring buffer | `K/std/queue.hh` | slots, two indices, a length | enqueue, dequeue, destructor | it is a bounded FIFO and never touches a dead slot |
| ownership | `K/std/pointer.hh`, `either.hh` | `own_ptr`s on the way to the scheduler | move, release, destroy | a task has one owner at every step and is deleted when it has none |
| scheduler, tasks, system calls | `K/sched.cc`, `K/task.cc`, `K/syscall.cc` | current task, ready queue, saved frames, page directory, TSS stack | tick, yield, thread creation, start of the first task | no task lost, every thread sees its own registers and memory, no starvation |
| bitmap | `K/std/bitmap.hh` | one bit per page, count of free pages | find_contiguous, set_range | finds the first free run, the count is the number of free bits |
| page frame allocator | `K/mem/pmm.cc` | the bitmap, usable regions | init, alloc, free | no frame handed out twice, never a reserved one |
| paging | `K/mem/vmm.cc` | page directories, tables, recursive tables, TLB | init, map, unmap, map_alloc, unmap_free, clone_pd, switch_pd | a translation is what the tables say, kernel mappings are the same everywhere |
| kernel heap | `K/mem/kmm.cc`, `K/mem/dlmalloc.cc` | heap end; chunks, bins, trees, designated victim, top | more_core; malloc, memalign, free | every byte of the heap is mapped, what is handed out is nobody else's, free memory is found |
| interrupts | `K/int/*`, `K/gdt.cc` | GDT, IDT, interrupt controllers, IF and its software copy | stubs, shells, exception and interrupt handlers, end of interrupt, critical sections | every interrupt is acknowledged, registers come back, IF is what the flag says |
| program loader | `K/elf.cc` | none of its own | load | what it accepts is mapped whole |
| initrd | `K/initrd.cc` | table of files | init, get_file | files lie within the image |
| console and logging | `K/common/koi*`, `tty*`, `serial*` | output devices, cursor, cells | init stages, print, scroll | output goes to a mapped device and is not lost |
| boot | `K/kmain.cc`, `*.asm`, `K/multiboot*` | order of initialisation | kmain | nothing is used before it is set up |
| PCI | `K/pci.cc` | none | bus scan | devices stay where the BIOS put them |
| formatting, strings, flags | `K/std/fmt.hh`, `string.hh`, `K/cmdline.hh` | none | fmt, get_flag | what is printed says what was given, flags are words |
| type lists | `K/std/draken*.hh` | none | metafunctions | sort, cut and compare as they say |
| timer and time | `K/pit.cc`, `K/time.cc` | systick counter | tick, uptime, sleep | time does not go back |

They interact through calls on one processor.  Concurrency comes from the timer
and device interrupts (which run handlers to completion with interrupts off)
and from the preemption of user threads; there are no locks except critical
sections that turn interrupts off.  Nothing is persisted, so nothing recovers
from crashes: every failure of the kernel is a panic that stops the machine.

## What is hard

* *Preemption.* User code is interrupted between any two instructions; its
  registers, page directory and kernel stack are moved by `switch_task` in an
  order that matters, and a task that never ran has only half a frame.
* *Interrupts between two accesses.* The interrupt flag and the kernel's record
  of it are written one after the other; handlers write the record blindly.
* *The way in and out.* Stubs, shells, the structure of the frame, `iret` and
  selectors are written down in assembler, C++ and data that agree by convention.
* *Acknowledgement.* The end-of-interrupt command names no line. A system call
  goes through the same code and has none to acknowledge.
* *State in several places.* A page's translation is in a table, seen through
  a recursive table, cached in the TLB, and for kernel pages shared by all
  directories.  A free chunk is in a bin, in the bin's bit map and in the tags
  of its neighbours.
* *Order of initialisation.* Interrupts may print from `sti` on, while the page
  tables, the screens and the choice of the device still change.
* *Boundaries.* Word edges of the bitmap, page edges of the memory map, of
  segments and of the heap, powers of two of the allocator's trees, ends of
  lines and of buffers, sums of words that wrap around.
* *Partial failure.* `map_alloc` fails with some of its pages mapped.

The list with lines is `hazards` in `PROJECT.json`.

## Modules and the code they model

One module per component.  Its variables are the code's variables, its actions
the code's functions (under their names where there is one), each with all that
the function changes.  The `map` of `PROJECT.json` gives the lines of every
definition.  A definition whose name begins with `Mut` is a plausible wrong
version of the definition after it; no specification uses it, the mutation
tests put it in place of the right one.

| module | models | how |
|---|---|---|
| `Fifo` | what `Queue` promises | a bounded sequence; failure and destruction as states |
| `FixedQueue` | `K/std/queue.hh` | slots (each alive or not), `i_`, `j_`, `length_`; enqueue, dequeue, failing asserts, the destructor's loop one element at a time |
| `Ownership` | `own_ptr`, the Either and the calls a task passes through: `from_elf`, `make_thread`, `Right`, `then_do`, `add_task`, `exec_task`, `dequeue`, `switch_task` | extends `FixedQueue`: one step per move, construction or destruction; what each `own_ptr` holds, which tasks are on the heap |
| `Threads` | what user code is promised | registers and a space per thread, one running |
| `Sched` | `K/sched.cc`, `task.cc`, `syscall.cc`, the timer branch of `int/handlers.cc`, the end of `kmain.cc` | `current_task_`, `ready_queue`, every `task_t`, cr3, TSS stack, processor registers; handlers and system calls are one action each because the gates clear IF |
| `Bitmap` | `K/std/bitmap.hh` | a set of bits and the counter; the word-wise search with its two index levels, and the word behind the array |
| `Frames` | what a frame allocator promises | a pool and what callers hold |
| `Pmm` | `K/mem/pmm.cc` | `init` over a memory map, `alloc`, `free` on `Bitmap`; addresses in units that do not divide pages evenly |
| `AddressSpaces` | what paging promises | per space a map from pages to frames |
| `Vmm` | `K/mem/vmm.cc` but `init` | directories and tables in frames, the walk of the processor through them, the TLB, `get_ptab`, `map_one`, `map_alloc`, `clone_pd`, `switch_pd`; callers as in `elf.cc`, `kmm.cc`, `task.cc`, `tty-stream-text.cc`; `unmap` and `unmap_free`, which nothing calls yet, only in `SpecUnmap` |
| `BootPaging` | `target-bootstrap.asm`, `Vmm::init` | the tables the bootstrap makes, and init's steps; every access goes through the tables of the moment, so that one to a page that is not there is a fault |
| `Kmm` | `K/mem/kmm.cc` | `heap_size` in bytes and the pages mapped |
| `Chunks` | the chunks of `K/mem/dlmalloc.cc` | headers with their two bits, splitting and merging, rounding of requests |
| `Bins` | its bins | lists by size, tries by the bits of the size as functions from paths to rings, the bit maps, insertion, removal, the searches |
| `Dlmalloc` | `dlmalloc`, `dlfree`, `dlmemalign`, `sys_alloc`, `sys_trim` | extends `Kmm` and `Bins`: one action per call, branch by branch |
| `HeapChecks` | dlmalloc's `do_check_*` | the debugging code that the kernel's build leaves out, as invariants |
| `Critical` | `cli`, `sti`, `Critical` in `K/int/int.hh`, entry and exit of `int/handlers.cc`, `kmain.cc` | one step per access to flag or record; the control stack as a stack of frames |
| `Pic` | `K/int/pic.cc`, the acknowledgement in `handlers.cc` | requested and in-service lines of both controllers (external), the handler that runs |
| `Interrupts` | `K/gdt.cc`, the gates of `pic.cc`, `isr.asm`, `frame.hh`, `handlers.cc`, `switch_task`'s exchange of frames | extends `Pic`: registers and the kernel stack word by word; stub, shell, handler and return are steps |
| `Span` | `span_t` in `K/std/types2.hh`, `std/math-safe.hh` | words modulo `WordSize` |
| `Optional` | `K/std/optional.hh` | sets of at most one value |
| `Elf` | `K/elf.cc` | one step per header and per segment, with memory running out |
| `Initrd` | `K/initrd.cc`, `initrd/mkinitrd.pl` | what the packer computes in two loops, the checks entry by entry, `get_file` |
| `Programs` | `load_task` in `K/kmain.cc`, `from_elf` | composes `Initrd` and `Elf`: mkinitrd, archive, image, user memory |
| `Terminal` | `K/common/tty-stream-text.cc`, `tty-stream-video.cc` | cells and cursor of both screens, wrapping and scrolling |
| `Console` | `K/common/koi-stream.cc`, `tty-stream.cc`, `serial-stream.hh` | the devices, the stream of a line, the three stages of initialisation |
| `Boot` | `K/kmain.cc` | composes `Console`, `Terminal` and `BootPaging`: kmain place by place, interrupts that print, faults, the programs' prints |
| `Fmt` | `K/std/fmt.hh` | the parser of format strings and every converter, on sequences of characters |
| `Cmdline` | `K/multiboot-info.cc`, `K/std/string.hh`, `K/cmdline.hh` | what the boot loader gives, cut to the buffers, and the search for a word |
| `TypeLists` | `K/std/draken.hh`, `draken-ext.hh` | packs as sequences, metafunctions as operators |
| `PciScan` | `K/pci.cc` | functions and ranges of addresses; the sizing of a range and its restoration |

`MC*` modules only give constants their values, but for three that put several
modules into one run: in `MCMemory` a behaviour is one of the frame allocator or
of paging; in `MCLibrary` a behaviour is one of the queue, one of
ownership, or a single call of a pure function; in `MCInterrupts` one of the way
in and out of the kernel or one of the critical sections.  `*Proofs` modules
hold the theorems.

How the modules relate: `FixedQueue` refines `Fifo`, which is the sequence that
`Sched` uses as its queue; `Ownership` fills its slots with `own_ptr`s; `Sched`
refines `Threads`; `Interrupts` shows for the registers in detail what `Sched`
takes for granted (a handler sees and restores them all); `Pmm` extends
`Bitmap` and refines `Frames`, whose pool of free frames `Vmm` draws from with
the same first fit; `BootPaging` ends in the state `Vmm` starts from
(`InitExact`), and `Vmm` refines `AddressSpaces`; `Kmm` and `Elf` stand above it
and use only that `map_alloc` skips mapped pages and may stop half way;
`Dlmalloc` extends `Kmm`; `Programs` composes `Initrd` with `Elf`, and `Elf`
extends `Span`.

### Abstractions

* Register contents, bytes of files and frames are distinct values, so that a
  swapped or stale one shows.
* `Sched`: interrupts are on in kmain from `sti` to `cli` and in user code
  (`InterruptsOn`).  The test of `task.cc:59` for a null task is left out: the heap
  panics when it runs out, so `new` returns none.  The fields `stack` and `pc` of a task are read only before its first
  run; their later updates are left out.  A task's kernel stack is its number;
  its depth is not modelled.
* `Interrupts`: descriptors are what they hold and for whom; the words pushed
  are known by name.  The registers a task first runs with are called its own,
  except those `switch_task` leaves as they were (esi, the flags).
* `Vmm`: page flags are left out; `BootPaging` has the writable flag.  Operations
  are functions from memory to memory because nothing preempts the kernel in
  them (handlers map nothing).
* `Dlmalloc`: memory is counted in units of 8 bytes; payload is not kept; the
  foot of a free chunk and the size before it share a word as in the code.
* `Elf`: header fields only compared with constants are one Boolean `sane`.
  The sum `size_file + size_mem` is the code's; the file format counts the
  former in the latter, so the code maps and zeroes more than it needs, which
  `ProgramExact` shows to be harmless for ascending segments.  A page fault in
  the copy of a segment ends the loading (`"fault"`).  Headers are read
  with the size of the structure, whatever size the image claims for one.
* `Console`: the assertion that a framebuffer fits into its range of addresses
  (`tty-stream-video.cc:131`) is taken to hold (`ScreenAssumption`).
* `Boot`: a line is a few pieces; a piece is written at once on the serial line,
  character by character on a screen, as the critical sections have it.  The
  flags of a framebuffer's information are tested so that it always counts as
  there (`tty-stream.cc:39`): a boot loader that gives none leaves a text screen
  or a mode of no use.
* A kernel panic or a failed assertion is a state from which nothing happens.

## Runs

States are distinct states.  Every property of a passing run has a mutant of the
code that violates it.

| run | states | what it shows |
|---|---|---|
| `sched` | 64 757 | no task is lost or owned twice (`OneOwner`), user code has its own directory and kernel stack (`OwnSpace`), directories are shared within a process only, a switch finds a current task and only creation overflows the queue (parts of `SchedInv`), a waiting task is not overtaken (`NoOvertaking`) and runs (`EveryTaskRuns`), and preemption is invisible (`ImplementsThreads`) |
| `memory` | 15 272 | frames: the bits are the pool minus what is held and the counter agrees (parts of `PmmInv`), the search is first fit (`FirstFit`), nothing is handed out twice (`ImplementsFrames`); paging: the recursive table tells the truth (`RecursiveExact`), kernel memory is the same everywhere (`KernelShared`), a frame has one use (`OneUse`), the TLB is never stale (`TlbCoherent`), and all of it is address spaces, in which nothing is mapped over (`ImplementsAddressSpaces`) |
| `interrupts` | 158 385 | a handler finds vector, error code and every register where it looks for them, everything resumes with its own registers and with segments it may use (`EntryExact`), what is in service at the master is what is handled (`MasterInService`), the timer is always heard again (`TimerHeard`); open scopes mask interrupts (`CriticalMasks`), the record is right when it is read (`FlagExact`), scopes restore the flag (`RestoresIF`) |
| `heap` | 232 241 | dlmalloc's own checks pass in every state (`MallocStateChecks`), chunks tile the heap and fit what was asked for (`ChunksTile`), free chunks are where they are looked for and the search of the trees is right for every size (`BinsExact`), the heap lies on mapped pages (`Backed`), requests get what fits best (`BestFit`) |
| `boot` | 81 780 | the tables init leaves are exact (`InitExact`), screens show the end of what was printed (`ShowsTail`), writes hit mapped memory but for two named cases (`NoWildAccess`), nothing printed is lost with a serial line (`Heard`), and then the boot gets through (`BootsWithSerial`) |
| `programs` | 70 914 | what was packed is found, aligned and whole, and no sum in a table wraps past a check (`ArchiveExact`), none in a segment does (`AcceptsWellFormed`), a loaded program is mapped whole; a linked one loads without a fault and finds its own bytes and zeros, another faults only at a segment that needs a page more than its size (`ProgramExact`) |
| `library` | 32 458 | exactly the slots of the window are alive (`RingInv`), the ring is a FIFO (`ImplementsFifo`), tasks have one owner at every step (`OwnedOnce`), numbers, sizes, addresses, texts and spans are printed as meant (`FmtExact`), flags are words and names fit their fields (`FlagsExact`), the PCI scan moves no device (`PciExact`), type lists are sorted, cut and compared (`TypeListsExact`) |
| `pmm_4g` | violation | with memory up to the last page below 4G, a grant may end past 4G: the search judges by the word behind the bitmap (`bitmap.hh:78`) |
| `pic_slave` | violation | the slave is never acknowledged: its vectors are 0x30-0x37, the handler compares with 0x28-0x2f (`handlers.cc:128`) |
| `vmm_unmap` | violation | `invlpg` gets a page number, not an address (`vmm.cc:91`); without effect until `unmap` has a caller |
| `elf_fault` | violation | a segment that starts inside a page and ends in the next is accepted and gets a page too few, so that the copy faults (`elf.cc:171`) |
| `elf_overlap` | violation | overlapping segments are accepted, the other one's file offset is compared (`elf.cc:149`) |

The cases that `NoWildAccess` names: on a machine without a serial line, an
interrupt that is reported between `sti` and the moment the terminal is set
aside (or ever, if the flags say "serial") writes to a framebuffer that is no
longer mapped (`kmain.cc:53`); and a boot loader that gives no command line makes
`get_flag` read address 0 (`cmdline.hh:26`), which is no longer mapped either.

### Bounds, and why they are enough

* `sched`: a queue of two and up to four tasks: the queue can be full, and a task
  can be created too many; processes with two threads and two processes exist.
  `MaxTasks` bounds creations.  Every register of every task has its own value;
  words have 100 values.  `jiffies_per_slice` is the code's 1.
* `memory`, frames: four words of four bits: runs inside a word, over an edge, over a whole
  word; memory maps with ragged edges, empty regions and one past 4G;
  requests up to five frames (`MaxPages`).  `pmm_4g` has the maps that call the
  last page below 4G available.
* `interrupts`: two devices on each controller, of higher and lower priority than
  the slave's line, two tasks, exceptions with and without an error code.
  Every vector outside the exceptions has the same stub but for its number.
  `MaxDepth` 10 frames of control: handlers over and under scopes nested several
  deep.
* `memory`, paging: four tables of four pages, one of them recursive, nine frames (so that
  they run out), three spaces (the kernel's and two clones), runs of up to two
  pages (`MaxCount`), a TLB of one entry (an entry matters only for its own page, and `Evict`
  and `Access` replace it at any time).
* `heap`: pages of 8 units, three of them, so that growing, trimming and panic
  occur; sizes of 6 bits with four treebins over two powers of two, so that tries
  have depth; requests of 2, 3 and 8 units and one larger than the heap, aligned
  ones too, up to four pieces in use (`MaxLive`).
* `boot`: directories of 8 entries, the kernel's last 4; two images and two runs
  of free frames; text, usable and unusable video modes; seven command lines or
  none; screens of 3 by 2 cells, so that lines wrap and scroll; `MaxIrqs` 2
  interrupts that print, `MaxPrints` 2 prints of programs.
* `programs`: pages of four bytes, words of 96 values; segments with offsets,
  addresses and sizes before, at and behind every limit and near the top of the
  words, alone or beside a good one, linked programs of two segments with a gap
  or none, archives of up to three files with equal names and all alignments.
  Besides, segments that start inside a page, with and without room for their
  size in the pages that `elf.cc:171` maps, alone, before or after one that maps the
  page they start in, and at the end of user memory.
* `library`: three slots and five things, so that the indices meet at every
  position, wrap, and the queue overflows; numbers around every power that a
  width or unit turns at; every line of up to six characters of two letters and
  the space against four keys, buffers of 3 and 6; names of up to 4; packs of up
  to four values; devices with any two ranges of 4 to 64 addresses, and slots
  with and without further functions.

### Fairness

* `WF(Tick)` in `Sched`: the timer is periodic and user code runs with interrupts
  enabled (`sched.cc` sets IF in the frame), so ticks keep coming. Nothing is
  assumed of user code, which may never yield.
* In `Interrupts`, `WF` of the kernel's own steps on the way in and out and of the
  end of a critical section: they are finite code.  `SF(Device)`: the processor
  takes a pending interrupt at the first instruction boundary with IF set, so
  being deliverable again and again is enough.
* In `Boot`, `WF(Kmain)`: kmain is one thread of control that handlers return to;
  interrupts are bounded, as nothing says how many come.

## Proofs

All theorems hold for every value of the constants, from the named assumptions
on constants only, which TLC evaluates in the runs.  In the order of the system:

* `PmmProofs`.  `SearchIsFirstFit`: the word-wise search of `bitmap.hh`, with its
  two index levels and its shortcuts over full and empty words, returns the first
  run of clear bits there is, for every width of words; it needs that the last
  bit is set (`TopReserved` sees to that: no map calls the last page below 4G
  available), and `pmm_4g` shows why.  Then `init` frees exactly the usable pages
  (regions are apart, and the kernel's image lies in one: `PmmAssumption`), and
  `PmmInv` is inductive: the bitmap is the pool minus what callers hold, and the
  counter agrees.  `FirstFitHolds`, `GrantsInsideHolds` and the refinement of
  `Frames` follow.
* `VmmProofs`.  The inductive invariant `VmmInv` says of every memory that the
  operations leave: tables are where the directories say, the last kernel entry
  of each is the directory itself, kernel entries are those of `kernel_pd`,
  every frame is free or has one use, and the TLB holds only what the tables say.
  One lemma for each layer of `vmm.cc` says that memory *grows* and stays in
  order; then one for each action.  `RecursiveExactHolds`, `KernelSharedHolds`,
  `OneUseHolds`, `TlbCoherentHolds` and the refinement of `AddressSpaces`
  follow.  `VmmAssumption` is the layout: user tables, kernel tables, the heap
  before the recursive table, and frames for at least the kernel's tables.
* `SchedProofs`.  `SchedInv` is inductive.  `OneOwner` alone is not: it needs that
  tasks are counted (`CountInv`: all but the running one take a queue slot), that
  pids name directories (`PidInv`) and what each stage of boot leaves behind
  (`BootInv`).  `OneOwnerHolds`, `OwnSpaceHolds`, `SwitchIsSafe` and
  `ThreadsShareSpaceHolds` follow.  `NoOvertakingHolds` is an action property:
  each step leaves the queue alone, adds to its tail or rotates it.  With a second
  invariant, where each thread's registers are while it does not run, each step
  of the scheduler is one of `Threads` or a stutter (`SchedImplementsThreads`).
* `InterruptsProofs`.  `EntryInv` is inductive: it says for every step on the way
  in and out what lies on the kernel stack and whose registers these are, that
  saved frames and the ready queue agree on who waits and who runs, and that
  the selectors fit.  From it, `EntryExactHolds`.  The acknowledgement is
  proved for the controllers by themselves and as used by `isr.asm`
  (`EnterMasterInService`), for every set of devices: handlers run with the flag
  clear and line 2 belongs to the slave alone.
  In the same module, `CritInv` of `Critical` is inductive for every depth of
  nesting.  The properties speak of the running frame; the invariant must also
  say what each frame below will find when it resumes (`BelowInv`), and that above
  a frame that runs with the flag clear there are only scopes that found it clear
  (`AboveInv`).
* `LibraryProofs`.  `RingInv` is inductive: the window from the reader's index over
  `length_` slots, modulo the capacity, is exactly the alive slots, and it ends
  at the writer's index.  From it, `RingImplementsFifo`: each step of the ring is
  a step of `Fifo` on the sequence read off the window.  `OwnedOnceHolds` adds to
  it, for each place of a call that hands a task over, which `own_ptr` holds it
  there (`OwnInv`); with the window, a task has one owner between any two
  moves, and is deleted when it has none.
  Of the pure functions, `FlagsFound` says for every command line, cut to a buffer
  of any size or not, that `get_flag` finds exactly its words: the positions at
  which its loop stops have a closed form, which the recursive equation has as its
  only solution.  Texts hold no null character, and the key has a character
  and no space, as kmain's have.  `NamesFound` is the same for the names of the
  initrd.  `ScanExact` is about every machine whose ranges have the sizes that a
  probe can answer with, powers of two in the 8 bit words of `PciScan`.
  `FlagsExactHolds` and `PciExactHolds` apply them to the calls of `MCLibrary`, whose
  `Space` is the one of the run (`MCSpaceAssumption`).
* `ProgramsProofs`.  First the comparisons of spans, computed with ends that might
  wrap around, mean what they say of the words in them (`OverlapsMeans`,
  `ContainsMeans`).  Then `ElfInv`: what the loader has accepted and copied so far
  is what the headers say; from it `AcceptsWellFormedHolds` for every image.  Then
  mkinitrd's two loops, entry by entry, and init's checks of them
  (`ArchiveExactHolds`).  Last the two together (`KernelInv`,
  `ProgramExactHolds`), with no hypothesis on what is packed: a loaded program is
  mapped whole; one with the form the linker script gives it (`Linked`: segments
  in their pages, apart, in ascending order) does not fault and has its own bytes
  and zeros; and a fault comes only of a segment that does not fit its pages
  (`FaultInv`), since the pages mapped for one that does hold it (`PagesHold`).
* `HeapProofs`.  First `Kmm` by itself: `KmmInvariant`, `BackedHolds`,
  `OnePageAheadHolds` for every page size.  The argument is `NewPagesCover`: the run
  asked for starts where the old heap needs nothing more and ends where the new
  one needs nothing more; it rests on lemmas on division.
  Then the allocator above it.  No property of the run is inductive alone: that
  chunks tile the heap needs true tags, since merging believes them; that tags
  stay true needs that an unlinked chunk is in the bin its size names; and the
  bins need that neighbours of free chunks are in use, or a merge would leave a
  chunk in its bin.  `MallocInv` therefore says all of it.  Chunks lie in a row from 0
  to top, each with true tags for itself and its neighbour, no two free ones
  side by side; the victim is a free chunk or none; every other free chunk is in
  the list or ring of its size exactly once; each treebin is a trie in which the
  path of a node is made of the turns of its size (`Shape`); the bit maps tell which
  bins are filled; used chunks are what callers hold, large enough and
  aligned (`HeldFits`); the segment is the heap unless the kernel has panicked.
  An operation is followed branch by branch through a few intermediate states:
  a chunk out of the bins, split, handed out, merged with its neighbours, put back.
  `MallocInvariant` holds for every page size, width of words, number of treebins,
  set of requests and alignments; from it `ChunksTileHolds`, `MallocStateHolds`
  (dlmalloc's own checks pass), `BinsExactHolds` (with the search of the trees for
  every size) and the action property `BestFitHolds`.  The provers know nothing of
  powers of two; the laws used (`Pow...`) are proved from the number of subsets of a
  set.  `DlmallocAssumption` limits heap and requests, with their alignment, to what
  a word can express, since the code refuses the rest.
* `BootProofs`.  `BootInv` says at each place of kmain what devices and stream the
  console has, which tables memory holds and which streams the line under way may
  be on.  Under it lie two layers.  *Screens*: a screen is the tail of an endless
  roll of paper on which the same characters were typed (`Matches`), and typing
  one character on both keeps it so, scrolling included (`CharMatches`); hence
  `ShowsTailHolds` for every size of text and video screen.  *Tables*: memory is
  followed through init's eleven steps, from the bootstrap's tables by way of
  `init_pt` to the recursive table; each `map` paints a run over the translations
  so far (`MapPaints`), and at the switch the whole walk is known (`LateWalk`).
  That the runs do not meet comes from `LayoutAssumption` and
  `ScreenAssumption`, what `kernel.ld`, `target-bootstrap.asm` and `vmm.hh` lay down.
  From there, `InitExactHolds`, `NoWildAccessHolds` (with a screen or a serial line
  where the stream leads, nothing faults) and `HeardHolds`.

Induction over data, as over the pages of a run, the words of a bitmap or the
files of an archive, is done by the least counterexample: the set of numbers at
which a fact fails is not empty, so it has a least element (`Least`).  Loops are
recursive functions for that purpose, and for each there is a lemma that the
function exists.  The inductive invariants were checked with TLC before they
were proved; the runs keep the properties, whose mutants say more.

Only model-checked:

* liveness (`EveryTaskRuns`, `TimerHeard`, `BootsWithSerial`), which the prover
  cannot treat;
* `TypeListsExact`: packs are folded and sorted with operators that take operators
  as parameters, and the provers cannot instantiate an induction over those;
* `FmtExact`: a parser over any format string and converters that divide by
  powers modulo the word, whose arithmetic the provers do not find.

`library` checks both over bounded arguments.

## Not modelled

* *Time.*  Nothing the kernel runs reads it: `uptime` and `ksleep` are called by
  `spin` alone, which nothing calls.  Were it called, `uptime` would read a 64 bit
  counter in two halves (`time.hh:41`), between which a tick may carry.  The
  timer's set-up is three writes to ports.
* *dlmalloc's other entrances.*  The kernel has one contiguous segment and no mmap;
  realloc, calloc's clearing, independent and bulk allocation, mspaces and
  statistics have no callers.  A request of 2^32 - 64 bytes or more is refused
  with a null pointer before anything is changed.
* *The compiler.*  `cli` and `sti` are volatile asm without a memory clobber
  (`int.hh:30`): whether the record is written before or after them is taken from
  the source's order.
* *Stack depth.*  A task's kernel stack is 1 KiB below its saved frame
  (`task.hh:39`); how deep system calls nest is a matter of the build.
* *More than 32 available regions* overrun a vector that nothing reads
  (`pmm.cc:125`).  Memory up to 4G is in the run `pmm_4g` only; `memory` and the
  theorems are about maps whose last page the firmware keeps (`TopReserved`).
* *Failed loads.*  The page directory of a program that does not load is a raw
  pointer that nothing owns and is leaked; `Ownership` is about `own_ptr`s.
* *Formatting beyond its callers.*  `{S}` of numbers from 10^12 on divides by a
  power that has wrapped around (`fmt.hh:178`); type lists of mixed signedness are
  compared after conversion (`draken.hh:297`).  Neither has a caller.
* *Input, glyphs and colours* of the console, the timer's and serial line's port
  writes, the user's programs (their possible steps are `Sched`'s environment) and
  the build.

## Plan

The modules are complete as far as the list above says, and every safety property
of the runs is proved but `FmtExact` and `TypeListsExact`.  What would come next is
what the kernel's authors may add: callers of `unmap`, memory up to 4G, and input.

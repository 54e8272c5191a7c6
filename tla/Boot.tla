-------------------------------- MODULE Boot --------------------------------
(***************************************************************************)
(* The boot from the bootstrap to the first task (kmain.cc): the order in  *)
(* which the console, the page tables and the interrupts come up, with     *)
(* interrupts that print as soon as they are let in, and the programs that *)
(* print at the end.                                                       *)
(*                                                                         *)
(* Interrupts nobody handles print a warning; the timer's do not touch     *)
(* anything here.  A character on a screen is a step (put_char is a        *)
(* critical section), and so is a piece of a line on the serial line.      *)
(***************************************************************************)
EXTENDS Console

CONSTANTS
  Cmdlines, \* command lines: sets of flags, or Absent
  Videos,   \* what the boot loader set up: "text", "rgb" or, of no use, "odd"
  Texts,    \* what programs print, sequences of characters
  MaxIrqs,  \* bound: unhandled interrupts
  MaxPrints \* bound: prints by programs

ASSUME BootAssumption == Texts \subseteq Seq(STRING) /\ Videos \subseteq {"text", "rgb", "odd"}

VARIABLES
  pc,    \* where kmain is, or how it ended
  c,     \* the console
  m,     \* the memory of the page tables
  line,  \* the pieces left of the line that is being printed, and its stream
  iflag, \* the processor's interrupt flag
  cfg,   \* what the machine and the boot loader give
  irqs, prints

vars == <<pc, c, m, line, iflag, cfg, irqs, prints>>

NoLine == [stream |-> "dummy", pieces |-> <<>>]

Init ==
  /\ cfg \in [port : BOOLEAN, cmdline : Cmdlines, video : Videos, image : Images, pts : FreeRuns]
  /\ pc = "koi" /\ c = NewConsole /\ m = setup_paging(cfg.image)
  /\ line = NoLine /\ iflag = FALSE /\ irqs = 0 /\ prints = 0

Fine == ~ c.wild /\ ~ m.fault

\* kmain goes from one place to another once the line it prints is out.
Step(from, to) == pc = from /\ line.pieces = <<>> /\ Fine /\ pc' = to /\ UNCHANGED <<cfg, irqs, prints>>

Say(stream, pieces) == line' = [stream |-> stream, pieces |-> pieces]

Quiet == UNCHANGED <<line, iflag>>

-----------------------------------------------------------------------------
\* One piece goes out at once on the serial line, one character on a screen.
PutPiece ==
  /\ line.pieces # <<>> /\ Fine
  /\ LET piece == Head(line.pieces)
         where == IF line.stream = "koi" THEN c.stream ELSE line.stream
     IN  IF where = "tty" /\ Len(piece) > 1
         THEN /\ c' = Put(c, m, line.stream, <<Head(piece)>>)
              /\ line' = [line EXCEPT !.pieces[1] = Tail(@)]
         ELSE /\ c' = Put(c, m, line.stream, piece)
              /\ line' = [line EXCEPT !.pieces = Tail(@)]
  /\ UNCHANGED <<pc, m, iflag, cfg, irqs, prints>>

-----------------------------------------------------------------------------
(* cstart and kmain, up to sti.                                            *)

StartConsole == Step("koi", "levels") /\ c' = KoiInit(c, cfg.port) /\ Quiet /\ UNCHANGED m

ReadLevels == Step("levels", "map") /\ c' = KoiLevels(c, cfg.cmdline) /\ Quiet /\ UNCHANGED m

\* Pmm::init: the memory map, at length, and its total.
PrintMap ==
  /\ Step("map", "total") /\ Say(Stream(c, debug), <<<<"m">>, <<LF>>>>)
  /\ UNCHANGED <<c, m, iflag>>

PrintTotal ==
  /\ Step("total", "vmm") /\ Say(Stream(c, notice), <<<<"t">>, <<"1", "2">>, <<LF>>>>)
  /\ UNCHANGED <<c, m, iflag>>

VmmStep(from, to, memory) == Step(from, to) /\ m' = memory /\ Quiet /\ UNCHANGED c

VmmInit ==
  \/ VmmStep("vmm", "hook", StartInit(m, cfg.image))
  \/ VmmStep("hook", "init_pt", HookInitPt(m, cfg.image))
  \/ VmmStep("init_pt", "clear", FillInitPt(m, cfg.image, cfg.pts))
  \/ VmmStep("clear", "directory", ClearTables(m))
  \/ VmmStep("directory", "recursive", FillDirectory(m, cfg.image, cfg.pts))
  \/ VmmStep("recursive", "kernel", CopyRec(m, cfg.image))
  \/ VmmStep("kernel", "rodata", MapText(m, cfg.image))
  \/ VmmStep("rodata", "data", MapRodata(m, cfg.image))
  \/ VmmStep("data", "stack", MapData(m, cfg.image))
  \/ VmmStep("stack", "switch", MapStack(m))
  \/ VmmStep("switch", "sti", switch_pd(m, kernel_pd(cfg.image)))

Sti == Step("sti", "flags") /\ iflag' = TRUE /\ UNCHANGED <<c, m, line>>

-----------------------------------------------------------------------------
(* koi.init_after_mem_init().                                              *)

\* Without a command line this reads address 0, which is no longer mapped.
GetFlags ==
  /\ Step("flags", "detach") /\ Quiet /\ UNCHANGED m
  /\ c' = [c EXCEPT !.wild = cfg.cmdline = Absent]

TakeFromTty ==
  /\ Quiet /\ UNCHANGED m
  /\ IF "serial" \in cfg.cmdline THEN Step("detach", "choose") /\ UNCHANGED c
     ELSE Step("detach", "parameters") /\ c' = Detach(c)

\* tty-video's init says what it was given.
PrintParameters ==
  /\ Step("parameters", "tty") /\ UNCHANGED <<c, m, iflag>>
  /\ IF cfg.video = "text" THEN UNCHANGED line ELSE Say(Stream(c, debug), <<<<"v">>, <<LF>>>>)

StartText ==
  /\ cfg.video = "text" /\ Step("tty", "choose") /\ Quiet
  /\ m' = MapTextScreen(m) /\ c' = TextMoved(c)

StartVideo ==
  /\ cfg.video = "rgb" /\ Step("tty", "choose") /\ Quiet
  /\ m' = MapVideoScreen(m) /\ c' = VideoReady(c)

VideoUnusable ==
  /\ cfg.video = "odd" /\ Step("tty", "choose") /\ UNCHANGED <<m, iflag>>
  /\ c' = NoTerminal(c) /\ Say(Stream(c, warning), <<<<"w", LF>>>>)

Choose ==
  /\ UNCHANGED <<m, line>>
  /\ \E s \in {Chosen(c, cfg.cmdline)} :
       IF s = "none" THEN Step("choose", "hung") /\ iflag' = FALSE /\ UNCHANGED c
       ELSE Step("choose", "banner") /\ c' = [c EXCEPT !.stream = s] /\ UNCHANGED iflag

-----------------------------------------------------------------------------
(* The rest of kmain, and the programs.                                    *)

PrintBanner ==
  /\ Step("banner", "pci") /\ Say(Stream(c, notice), <<<<LF>>, <<"g", "r">>, <<LF>>>>)
  /\ UNCHANGED <<c, m, iflag>>

ScanPci ==
  /\ Step("pci", "initrd") /\ Say(Stream(c, null), <<<<"p">>, <<LF>>>>) /\ UNCHANGED <<c, m, iflag>>

\* Whatever the level is.
DumpInitrd ==
  Step("initrd", "cli") /\ Say("koi", <<<<"f">>, <<LF>>>>) /\ UNCHANGED <<c, m, iflag>>

Cli == Step("cli", "sched") /\ iflag' = FALSE /\ UNCHANGED <<c, m, line>>

\* The first task starts with interrupts on.
ExecTask == Step("sched", "user") /\ iflag' = TRUE /\ UNCHANGED <<c, m, line>>

\* A system call runs with interrupts off.
UserPrint ==
  /\ pc = "user" /\ Fine /\ prints < MaxPrints /\ prints' = prints + 1
  /\ \E text \in Texts : c' = Put(c, m, "koi", text)
  /\ UNCHANGED <<pc, m, line, iflag, cfg, irqs>>

-----------------------------------------------------------------------------
(* What comes in between.                                                  *)

\* Put through koi, whatever the state of things.
Irq ==
  /\ iflag /\ Fine /\ irqs < MaxIrqs /\ irqs' = irqs + 1
  /\ c' = Put(c, m, Stream(c, warning), <<"i", LF>>)
  /\ UNCHANGED <<pc, m, line, iflag, cfg, prints>>

\* A page fault or a failed assertion is reported, and everything stops; a
\* fault in the report is one more exception, until the stack is used up.
Exception ==
  /\ ~ Fine /\ pc \notin {"panic", "lost"}
  /\ \E calm \in {[c EXCEPT !.wild = FALSE]} :
       \E r \in {Put(calm, m, Stream(calm, critical), <<LF, "x">>)} :
         /\ pc' = IF r.wild THEN "lost" ELSE "panic"
         /\ c' = r
  /\ m' = [m EXCEPT !.fault = FALSE] /\ iflag' = FALSE /\ line' = NoLine
  /\ UNCHANGED <<cfg, irqs, prints>>

Kmain ==
  \/ PutPiece \/ StartConsole \/ ReadLevels \/ PrintMap \/ PrintTotal \/ VmmInit \/ Sti
  \/ GetFlags \/ TakeFromTty \/ PrintParameters \/ StartText \/ StartVideo \/ VideoUnusable
  \/ Choose \/ PrintBanner \/ ScanPci \/ DumpInitrd \/ Cli \/ ExecTask \/ Exception

Next == Kmain \/ UserPrint \/ Irq

\* The processor goes on executing kmain between interrupts.
Spec == Init /\ [][Next]_vars /\ WF_vars(Kmain)

-----------------------------------------------------------------------------
(* Properties.                                                             *)

Late == {"sti", "flags", "detach", "parameters", "tty", "choose", "banner", "pci", "initrd",
         "cli", "sched", "user"}

\* What the kernel's tables should say of a page.
Expected(v) ==
  LET image == cfg.image
      in(first, count) == v \in first .. first + count - 1
  IN  CASE in(kernel_vma, rodata_vma(image) - kernel_vma)            -> make_pte(kstatic_va_to_pa(v), FALSE)
        [] in(rodata_vma(image), data_vma(image) - rodata_vma(image)) -> make_pte(kstatic_va_to_pa(v), FALSE)
        [] in(data_vma(image), data_pages(image))                     -> make_pte(kstatic_va_to_pa(v), TRUE)
        [] in(va_kernel_stack, StackPages)   -> make_pte(kernel_stack + v - va_kernel_stack, TRUE)
        [] in(va_pts(FirstKernel), N - FirstKernel) -> make_pte(cfg.pts + v - va_pts(FirstKernel), TRUE)
        [] v = va_framebuffer /\ c.fb = "va"        -> make_pte(text_frame, TRUE)
        [] in(va_framebuffer, video_pages) /\ c.tty = "video" -> make_pte(video_frame + v - va_framebuffer, TRUE)
        [] OTHER -> NoEntry

\* From the switch on the processor sees exactly the kernel's image, with
\* text and constants read-only, its stack with unmapped pages around it, the
\* page tables themselves and the framebuffer, and nothing else: the state
\* Vmm starts from (Vmm::init).
InitExact == pc \in Late => \A v \in Page : Walk(m, v) = Expected(v)

\* Every screen shows the last rows of all that was printed on it, whoever
\* printed in between, with the cursor behind (put_char and scroll of both
\* drivers, the move of the text screen's framebuffer).
ShowsTail ==
  /\ Shows(c.text, TextScreen, c.typed.text)
  /\ Shows(c.video, VideoScreen(video_w, video_h), c.typed.video)

\* Nothing is written where no screen is mapped, with two exceptions: a
\* machine without a serial line on which an interrupt is reported between
\* sti and the moment the terminal is set aside (or never set aside, for it
\* was told to use the serial line), and a boot loader that gives no command
\* line (kmain, init_after_mem_init, get_flag).
NoWildAccess ==
  c.wild \/ pc = "lost" =>
    \/ cfg.cmdline = Absent
    \/ /\ irqs > 0 /\ ~ cfg.port
       /\ c.stream = "tty" /\ c.fb = "low"
       /\ pc \in {"flags", "detach", "lost"} \/ "serial" \in cfg.cmdline

\* With a serial line no character of an enabled level is ever lost, the
\* report of a page fault included: "if a serial device is connected, it will
\* be used instead" (init_after_mem_init, operator()).
Heard == c.serial => c.said = Len(c.wire) + Len(c.typed.text) + Len(c.typed.video)

\* With a serial line, a command line and a device that the flags leave to
\* print on, the boot gets to the first program (kmain).
BootsWithSerial ==
  cfg.port /\ cfg.cmdline # Absent /\ ~ ("tty" \in cfg.cmdline /\ ("serial" \in cfg.cmdline \/ cfg.video = "odd"))
    ~> pc = "user"
=============================================================================

------------------------------ MODULE Console ------------------------------
(***************************************************************************)
(* The console, koi (common/koi-stream.cc): a serial line, a terminal that *)
(* is a text screen or a video screen, the stream lines go to by default   *)
(* and the level below which they go nowhere.                              *)
(*                                                                         *)
(* The console is a record c, and a write takes the memory m of BootPaging *)
(* too: a screen is memory, and a character lands only where the tables of *)
(* the moment lead to the screen (else c.wild: a page fault).              *)
(***************************************************************************)
EXTENDS BootPaging, Terminal

CONSTANTS
  text_frame,      \* frame of the text mode's framebuffer, 0xb8000
  video_frame,     \* first frame of the video mode's framebuffer
  video_pages,     \* its pages
  va_framebuffer,  \* page at which either is mapped
  video_w, video_h \* size of the video mode in pixels

\* The text screen lies in low memory, the framebuffer's pages in a table of
\* their own (vmm.hh), and a video mode has room for a glyph.
ASSUME ScreenAssumption ==
  /\ text_frame \in 0 .. N - 1 /\ video_frame \in Nat /\ video_pages \in Nat \ {0}
  /\ va_framebuffer \in kernel_vma + N .. va_pts(0) - 1 /\ (va_framebuffer % N) + video_pages =< N
  /\ {video_w, video_h} \subseteq Nat /\ cw =< video_w /\ ch =< video_h

\* A set of flags is what the words of the command line amount to; a boot
\* loader need not give one.
Absent == {"absent"}

critical == 0
error == 1
warning == 2
notice == 3
debug == 4
null == 5

-----------------------------------------------------------------------------
(* The devices.                                                            *)

NewConsole ==
  [serial |-> FALSE, tty |-> "none", fb |-> "low", ll |-> notice, stream |-> "none",
   text |-> TextScreen, video |-> VideoScreen(video_w, video_h),
   wire |-> <<>>, typed |-> [text |-> <<>>, video |-> <<>>], said |-> 0, wild |-> FALSE]

Reaches(m, v, frame) == Walk(m, v) = make_pte(frame, TRUE)

TextPage(c) == IF c.fb = "low" THEN text_frame ELSE va_framebuffer

TextChar(c, m, x) ==
  IF Reaches(m, TextPage(c), text_frame)
  THEN [c EXCEPT !.text = put_char(@, x), !.typed.text = Append(@, x)]
  ELSE [c EXCEPT !.wild = TRUE]

VideoChar(c, m, x) ==
  IF \A i \in 0 .. video_pages - 1 : Reaches(m, va_framebuffer + i, video_frame + i)
  THEN [c EXCEPT !.video = put_char(@, x), !.typed.video = Append(@, x)]
  ELSE [c EXCEPT !.wild = TRUE]

TtyChar(c, m, x) ==
  CASE c.tty = "text"  -> TextChar(c, m, x)
    [] c.tty = "video" -> VideoChar(c, m, x)
    [] OTHER           -> c

-----------------------------------------------------------------------------
(* Which stream a line goes to is settled when it starts: koi(level). A    *)
(* line printed on koi itself looks for the default stream at each piece.  *)

Stream(c, level) ==
  CASE level > c.ll                      -> "dummy"
    [] level =< critical /\ c.serial     -> "serial"
    [] level > critical \/ ~ c.serial    -> IF c.stream # "none" THEN c.stream ELSE "koi"

OnStream(c, m, stream, x) ==
  CASE stream = "serial" -> [c EXCEPT !.wire = Append(@, x)]
    [] stream = "tty"    -> TtyChar(c, m, x)
    [] OTHER             -> c

\* One character of a line; nothing follows a page fault.
Char(c, m, stream, x) ==
  IF c.wild THEN c
  ELSE LET d == [c EXCEPT !.said = @ + (IF stream = "dummy" THEN 0 ELSE 1)]
       IN  OnStream(d, m, IF stream = "koi" THEN c.stream ELSE stream, x)

\* The console when the first k characters are out.
After(c, m, stream, chars) ==
  LET after[k \in 0 .. Len(chars)] == IF k = 0 THEN c ELSE Char(after[k - 1], m, stream, chars[k])
  IN  after

Put(c, m, stream, chars) == After(c, m, stream, chars)[Len(chars)]

-----------------------------------------------------------------------------
(* koi.init(), with the port the BIOS data area names; init_after_         *)
(* multiboot(), in which the last flag that is given wins; and the         *)
(* terminal's own second start.                                            *)

MutKoiInit(c, port) == [c EXCEPT !.serial = port, !.tty = "text", !.stream = "tty"]

KoiInit(c, port) ==
  [c EXCEPT !.serial = port, !.tty = "text", !.stream = IF port THEN "serial" ELSE "tty"]

Flagged == [critical |-> "log-critical", error |-> "log-error", warning |-> "log-warning",
            notice |-> "log-notice", debug |-> "log-debug"]

\* With no command line the words are read at address 0, where the interrupt
\* vectors of the BIOS lie; they are no flags.
Given(cmdline) == IF cmdline = Absent THEN {} ELSE cmdline

KoiLevels(c, cmdline) ==
  LET on == [critical |-> critical, error |-> error, warning |-> warning,
             notice |-> notice, debug |-> debug]
      set == {on[f] : f \in {g \in DOMAIN Flagged : Flagged[g] \in Given(cmdline)}}
  IN  IF set = {} THEN c ELSE [c EXCEPT !.ll = CHOOSE l \in set : \A k \in set : k =< l]

\* The stream is taken from the terminal while that starts again.
MutDetach(c) == c

Detach(c) == IF c.stream = "tty" THEN [c EXCEPT !.stream = "none"] ELSE c

\* The framebuffer is mapped where the kernel keeps it.
MapTextScreen(m) == map(m, va_framebuffer, text_frame, 1, TRUE)
MapVideoScreen(m) == map(m, va_framebuffer, video_frame, video_pages, TRUE)

TextMoved(c) == [c EXCEPT !.fb = "va"]
VideoReady(c) == [c EXCEPT !.tty = "video"]
NoTerminal(c) == [c EXCEPT !.tty = "none"]

\* What the console settles on, or "none" if it hangs.
Chosen(c, flags) ==
  CASE "serial" \notin flags /\ c.tty # "none" -> "tty"
    [] ("serial" \in flags \/ c.tty = "none") /\ "tty" \notin flags /\ c.serial -> "serial"
    [] OTHER -> "none"
=============================================================================

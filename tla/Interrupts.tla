----------------------------- MODULE Interrupts -----------------------------
(***************************************************************************)
(* The way in and out of the kernel: the segments of gdt.cc, the interrupt *)
(* gates of int/pic.cc, the stubs and shells of int/isr.asm, which build   *)
(* the frame the handlers work on, and the handlers of int/handlers.cc as  *)
(* far as they touch it.  Composed with the controllers of Pic.            *)
(*                                                                         *)
(* What a register holds is known by name, <<task, register>>, where it is *)
(* not a selector; the registers a task first runs with are called its     *)
(* own.  The stack is what was pushed since the interrupt, the last word   *)
(* last.                                                                   *)
(***************************************************************************)
EXTENDS Pic, Sequences

CONSTANTS First, Second, \* the task that kmain executes and the one it adds
          Faults         \* exceptions that occur, out of 0 .. 31

ASSUME TaskAssumption == First # Second /\ "kernel" \notin {First, Second}
ASSUME FaultAssumption == Faults \subseteq 0 .. 31

VARIABLES
  regs,    \* registers
  stack,
  pc,      \* "run", in the stub, the shell, a handler, on the way out, "stopped"
  vector,  \* of the interrupt or the exception under way
  current, \* the running task, or "kernel" during the boot
  ready,   \* the ready queue
  saved,   \* frames of the tasks, NoFrame for those not started
  left     \* for the properties: each task's registers when it was interrupted

cpu == <<regs, stack, pc, vector, current, ready, saved, left>>
allvars == <<vars, cpu>>

Tasks == {First, Second}
NoFrame == <<>>

General == {"eax", "ecx", "edx", "ebx", "ebp", "esi", "edi"}
Segments == {"ds", "es", "fs", "gs"}
Register == General \cup Segments \cup {"eip", "cs", "eflags", "esp", "ss"}

\* Gdt::init: flat segments, told apart by what they hold and for whom.
desc(kind, dpl) == [kind |-> kind, dpl |-> dpl]

kcode == desc("code", 0)
kdata == desc("data", 0)
ucode == desc("code", 3)
udata == desc("data", 3)

gdt == <<desc("null", 0), kcode, kdata, ucode, udata, desc("tss", 0)>>

\* Selectors name a descriptor by its index; each user of them has its own
\* constants.
Selector(index, rpl) == <<"selector", index, rpl>>

descriptor(selector) == IF selector[2] < Len(gdt) THEN gdt[selector[2] + 1] ELSE desc("none", 0)

\* asm_lgdt, exec_task, set_tss_sp, the shell's 0x10.
InitSegments == [code |-> Selector(1, 0), data |-> Selector(2, 0)]
UserSegments == [code |-> Selector(3, 3), data |-> Selector(4, 3)]
ss0 == Selector(2, 0)
shell_data == Selector(2, 0)

\* The zero a stub pushes, what a system call returns.
zero == <<"zero", "error">>
answer == <<"answer", "eax">>
number(v) == <<"vector", v>>

\* A task as it runs: flat user segments, its own values in the rest.
Registers(t) ==
  [r \in Register |->
     LET own == IF t = "kernel" THEN InitSegments ELSE UserSegments
     IN  CASE r \in Segments \cup {"ss"} -> own.data
           [] r = "cs"                   -> own.code
           [] OTHER                      -> <<t, r>>]

\* The privilege that a code selector asks for.
Privilege(selector) == selector[3]

InUserMode == Privilege(regs["cs"]) = 3

EnterInit ==
  /\ Init
  /\ regs = Registers("kernel") /\ stack = <<>> /\ pc = "run" /\ vector = None
  /\ current = "kernel" /\ ready = <<>> /\ saved = [t \in Tasks |-> NoFrame]
  /\ left = [t \in Tasks \cup {"kernel"} |-> Registers(t)]

-----------------------------------------------------------------------------
(* The processor.  Coming from user mode it switches to the stack of the   *)
(* task state segment and keeps the old one; some exceptions have an error *)
(* code: the table of exceptions of int/handlers.cc has them.              *)

\* The gates: every vector has one, of privilege 0 but for system calls.
idt_entry(v) == [dpl |-> IF v = syscall_vector THEN 3 ELSE 0, selector |-> Selector(1, 0)]

HasErrorCode == {8, 10, 11, 12, 13, 14, 17}

error(v) == <<"error", v>>

Pushed(r, v) ==
  (IF Privilege(r["cs"]) = 3 THEN <<r["ss"], r["esp"]>> ELSE <<>>)
  \o <<r["eflags"], r["cs"], r["eip"]>>
  \o (IF v \in HasErrorCode THEN <<error(v)>> ELSE <<>>)

Enter(v) ==
  /\ pc = "run" /\ pc' = "stub" /\ vector' = v
  /\ left' = [left EXCEPT ![current] = regs]
  /\ stack' = Pushed(regs, v)
  /\ regs' = [regs EXCEPT !["cs"] = idt_entry(v).selector, !["ss"] = IF InUserMode THEN ss0 ELSE @]
  /\ UNCHANGED <<current, ready, saved>>

Device == Deliver /\ Enter(handling')

\* int n in a program, which the gate may not let pass.
UserInt(n) ==
  /\ InUserMode /\ pc = "run"
  /\ \/ idt_entry(n).dpl = 3 /\ SystemCall /\ Enter(syscall_vector)
     \/ idt_entry(n).dpl = 0 /\ Enter(13) /\ iflag' = FALSE /\ UNCHANGED <<irr, isr, handling>>

Fault(v) == pc = "run" /\ Enter(v) /\ iflag' = FALSE /\ UNCHANGED <<irr, isr, handling>>

-----------------------------------------------------------------------------
(* The stubs, one for every vector.                                        *)

\* One exception too few.
MutErrorStubs == {8, 10, 11, 12, 13, 14}

\* DEF_EXCEPTION_HANDLER_ERRORCODE
ErrorStubs == {8, 10, 11, 12, 13, 14, 17}

\* A number is pushed by all, a zero by those the processor pushes no code for.
Stub(code) ==
  /\ pc = "stub" /\ pc' = "shell" /\ stack' = stack \o code \o <<number(vector)>>
  /\ UNCHANGED <<vars, regs, vector, current, ready, saved, left>>

ExceptionStub ==
  vector < 32 /\ Stub(IF vector \in ErrorStubs THEN <<>> ELSE <<zero>>)

InterruptStub == vector >= 32 /\ Stub(<<zero>>)

PushOrder == <<"eax", "ecx", "edx", "ebx", "esp", "ebp", "esi", "edi", "ds", "es", "fs", "gs">>
PopOrder == <<"gs", "fs", "es", "ds", "edi", "esi", "ebp", "esp", "ebx", "edx", "ecx", "eax">>

\* pusha and the segments; the handler runs on the kernel's.
Shell ==
  /\ pc = "shell" /\ pc' = "handler"
  /\ stack' = stack \o [i \in 1 .. Len(PushOrder) |-> regs[PushOrder[i]]]
  /\ regs' = [r \in DOMAIN regs |-> IF r \in Segments THEN shell_data ELSE regs[r]]
  /\ UNCHANGED <<vars, vector, current, ready, saved, left>>

-----------------------------------------------------------------------------
(* struct interrupt_frame, from the top of the stack down.                 *)
Fields == <<"gs", "fs", "es", "ds", "edi", "esi", "ebp", "esp", "ebx", "edx", "ecx", "eax",
            "int_no", "err_code", "eip", "cs", "eflags", "useresp", "ss">>

Top(k) == stack[Len(stack) + 1 - k]

FieldNo(f) == CHOOSE k \in 1 .. Len(Fields) : Fields[k] = f

\* Of an interrupt of the kernel itself the last two fields are not there.
Present == {Fields[k] : k \in 1 .. Len(stack)}

Frame == [f \in Present |-> Top(FieldNo(f))]

SetFrame(frame) ==
  stack' = [i \in 1 .. Len(stack) |->
              LET f == Fields[Len(stack) + 1 - i] IN IF f \in DOMAIN frame THEN frame[f] ELSE stack[i]]

\* switch_task: the frame of the next task, except that int_no stays; one that
\* has not started gets what it starts with, and esi, the flags and the
\* segments of the task it takes over from.
NewFields == {"edi", "ebp", "ebx", "edx", "ecx", "eax", "eip"}

NextFrame(t) ==
  IF saved[t] # NoFrame THEN [saved[t] EXCEPT !["int_no"] = Frame["int_no"]]
  ELSE [f \in NewFields \cup {"useresp"} |-> <<t, IF f = "useresp" THEN "esp" ELSE f>>]

maybe_switch_task ==
  IF ready = <<>> THEN UNCHANGED <<stack, saved, current, ready, left>>
  ELSE /\ SetFrame(NextFrame(Head(ready)))
       /\ saved' = [saved EXCEPT ![current] = Frame]
       /\ ready' = Append(Tail(ready), current)
       /\ current' = Head(ready)
       /\ left' = IF saved[Head(ready)] # NoFrame THEN left
                  ELSE [left EXCEPT ![Head(ready)]["esi"] = left[current]["esi"],
                                    ![Head(ready)]["eflags"] = left[current]["eflags"]]

\* SYS_GET_PID and SYS_GET_TID answer in eax; the other calls leave the frame.
Syscall ==
  \/ UNCHANGED <<stack, saved, current, ready, left>>
  \/ maybe_switch_task
  \/ /\ SetFrame([f \in {"eax"} |-> answer])
     /\ left' = [left EXCEPT ![current]["eax"] = answer]
     /\ UNCHANGED <<saved, current, ready>>

\* The timer's slice may be over.
Handler ==
  /\ pc = "handler" /\ vector >= 32 /\ pc' = "return"
  /\ CASE vector = 32             -> \/ maybe_switch_task
                                     \/ UNCHANGED <<stack, saved, current, ready, left>>
       [] vector = syscall_vector -> Syscall
       [] OTHER                   -> UNCHANGED <<stack, saved, current, ready, left>>
  /\ UNCHANGED <<vars, regs, vector>>

\* common_exception_handler ends in a panic.
ExceptionHandler ==
  /\ pc = "handler" /\ vector < 32 /\ pc' = "stopped"
  /\ UNCHANGED <<vars, regs, stack, vector, current, ready, saved, left>>

\* SYS_DBG_HALT hangs; SYS_THREAD_REJOIN and SYS_PROCESS_EXIT panic.
HaltingCall ==
  /\ pc = "handler" /\ vector = syscall_vector /\ pc' = "stopped"
  /\ UNCHANGED <<vars, regs, stack, vector, current, ready, saved, left>>

-----------------------------------------------------------------------------
\* The end of the handler, the shell's pops (popa drops esp), add esp, 8 and
\* iret, which takes the old stack too if it goes back to user mode.
Return ==
  /\ pc = "return" /\ pc' = "run"
  /\ common_interrupt_handler
  /\ LET above == Len(PopOrder) + 2
         popped(r) == Top(CHOOSE k \in 1 .. Len(PopOrder) : PopOrder[k] = r)
         user == Privilege(Top(above + 2)) = 3
     IN  regs' = [r \in DOMAIN regs |->
                    CASE r \in General \cup Segments -> popped(r)
                      [] r = "eip"    -> Top(above + 1)
                      [] r = "cs"     -> Top(above + 2)
                      [] r = "eflags" -> Top(above + 3)
                      [] r = "esp"    -> IF user THEN Top(above + 4) ELSE regs[r]
                      [] r = "ss"     -> IF user THEN Top(above + 5) ELSE regs[r]]
  /\ stack' = <<>> /\ vector' = None
  /\ UNCHANGED <<current, ready, saved, left>>

\* Critical sections while the kernel boots.
KernelCli == pc = "run" /\ current = "kernel" /\ Cli /\ UNCHANGED cpu
KernelSti == pc = "run" /\ current = "kernel" /\ Sti /\ UNCHANGED cpu

\* kmain's last lines: with interrupts off the tasks are made and one is
\* executed, with the user's segments and the interrupt flag set.
exec_task ==
  /\ pc = "run" /\ current = "kernel" /\ ~ iflag
  /\ current' = First /\ ready' = <<Second>> /\ regs' = Registers(First) /\ iflag' = TRUE
  /\ UNCHANGED <<irr, isr, handling, stack, pc, vector, saved, left>>

Work == ExceptionStub \/ InterruptStub \/ Shell \/ Handler \/ ExceptionHandler \/ HaltingCall \/ Return

EnterNext ==
  \/ \E d \in Devices : Raise(d[1], d[2]) /\ UNCHANGED cpu
  \/ Device \/ \E n \in {3, syscall_vector} : UserInt(n)
  \/ \E v \in Faults : Fault(v)
  \/ Work \/ KernelCli \/ KernelSti \/ exec_task

\* The kernel's code runs on; the processor looks for interrupts between any
\* two instructions that run with the flag set.
EnterFairness == WF_allvars(Work) /\ WF_allvars(KernelSti) /\ SF_allvars(Device)

EnterSpec == EnterInit /\ [][EnterNext]_allvars /\ EnterFairness

-----------------------------------------------------------------------------
\* A handler finds in its frame the vector, the error code if there is one,
\* and every register as the interrupted code had it; whatever runs next has
\* every register it had when it was interrupted, but for the answer of a
\* system call.
FramesExact ==
  /\ pc = "handler" =>
       /\ Frame["int_no"] = number(vector)
       /\ Frame["err_code"] = IF vector \in HasErrorCode THEN error(vector) ELSE zero
       /\ \A r \in General \cup Segments \cup {"eip", "cs", "eflags"} : Frame[r] = left[current][r]
       /\ Privilege(left[current]["cs"]) = 3 =>
            Frame["useresp"] = left[current]["esp"] /\ Frame["ss"] = left[current]["ss"]
  /\ pc = "return" => Frame["int_no"] = number(handling)
  /\ pc = "run" => regs = left[current]

\* Selectors are written down in four files.  They are at all times such that
\* the code may use them: the kernel's own in the kernel, the user's flat ones
\* in a program (gdt.cc:69, asm_lgdt, exec_task, idt_entry, the shells).
SegmentsFit ==
  /\ descriptor(regs["cs"]) = IF pc = "run" /\ current # "kernel" THEN ucode ELSE kcode
  /\ descriptor(regs["ss"]) = IF InUserMode THEN udata ELSE kdata
  /\ pc \in {"handler", "return", "run"} =>
       \A r \in Segments : descriptor(regs[r]) = IF InUserMode THEN udata ELSE kdata

\* The way in and out is exact for every vector, from wherever it comes
\* (isr.asm, frame.hh, switch_task).
EntryExact == FramesExact /\ SegmentsFit

\* The timer is always heard again, whatever the other devices, programs and
\* critical sections do, unless something has stopped the kernel: no missing
\* acknowledgement or busy line locks it out (handlers.cc:128, isr.asm).
TimerHeard == 0 \in irr["master"] ~> handling = 32 \/ pc = "stopped"

-----------------------------------------------------------------------------
\* The parts of the inductive invariant.  f is a function on S.
On(S, f) == f = [x \in S |-> f[x]]

Threads == Tasks \cup {"kernel"}

CpuTypeOK ==
  /\ pc \in {"run", "stub", "shell", "handler", "return", "stopped"}
  /\ current \in Threads
  /\ On(Register, regs) /\ On(Threads, left) /\ On(Tasks, saved)
  /\ \A t \in Threads : On(Register, left[t])

\* Of two tasks one runs and the other is ready, once the boot is over.
Turns == ready = CASE current = First -> <<Second>> [] current = Second -> <<First>> [] OTHER -> <<>>

Flat(r, own) == r["cs"] = own.code /\ \A s \in Segments \cup {"ss"} : r[s] = own.data

\* Who is interrupted runs with flat segments of its own.
LeftFlat ==
  /\ Flat(left["kernel"], InitSegments)
  /\ \A t \in Tasks : Flat(left[t], UserSegments)

\* A frame that holds the registers r.
Holds(frame, r) ==
  /\ \A f \in General \cup Segments \cup {"eip", "cs", "eflags"} : frame[f] = r[f]
  /\ Privilege(r["cs"]) = 3 => frame["useresp"] = r["esp"] /\ frame["ss"] = r["ss"]

\* A task that does not run waits in its frame, or has not started, as none
\* has during the boot.
SavedHolds ==
  /\ \A t \in Tasks \ {current} :
       IF saved[t] = NoFrame THEN left[t] = Registers(t)
       ELSE DOMAIN saved[t] = {Fields[k] : k \in 1 .. 19} /\ Holds(saved[t], left[t])
  /\ current = "kernel" => \A t \in Tasks : saved[t] = NoFrame

\* The kernel's code and stack segments, and its stack, which an interrupt of
\* its own does not change.
InKernel ==
  /\ regs["cs"] = InitSegments.code
  /\ regs["ss"] = ss0
  /\ current = "kernel" => regs["esp"] = left["kernel"]["esp"]

\* The stack on the way in, and the length of a whole frame.
Depth == IF current = "kernel" THEN 17 ELSE 19

Stacked ==
  /\ pc = "run" => stack = <<>>
  /\ pc = "stub" => stack = Pushed(left[current], vector)
  /\ pc = "shell" => stack = Pushed(left[current], vector)
                              \o (IF vector \in HasErrorCode THEN <<>> ELSE <<zero>>)
                              \o <<number(vector)>>
  /\ pc \in {"handler", "return"} => On(1 .. Depth, stack)

Entered ==
  /\ pc = "run" => handling = None /\ regs = left[current]
  /\ pc # "run" => InKernel /\ vector \in Nat /\ (vector >= 32 => vector = handling)
  /\ pc \in {"stub", "shell"} => \A r \in Register \ {"cs", "ss"} : regs[r] = left[current][r]
  /\ pc \in {"handler", "return"} =>
       (\A s \in Segments : regs[s] = shell_data) /\ Holds(Frame, left[current])
  /\ pc = "handler" => /\ Frame["int_no"] = number(vector)
                       /\ Frame["err_code"] = IF vector \in HasErrorCode THEN error(vector) ELSE zero
  /\ pc = "return" => Frame["int_no"] = number(handling)

EntryInv == PicInv /\ CpuTypeOK /\ Turns /\ LeftFlat /\ SavedHolds /\ Stacked /\ Entered
=============================================================================

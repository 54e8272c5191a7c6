------------------------------ MODULE Critical ------------------------------
(***************************************************************************)
(* Critical sections: the interrupt flag of the processor, the kernel's    *)
(* own record of it (Int::enabled_), and the code that moves both -        *)
(* Int::cli, Int::sti and the Critical scope of kernel/src/int/int.hh, the *)
(* entry and exit of int/handlers.cc, and kmain.cc, which turns interrupts *)
(* on and off again and at last enters user mode.                          *)
(*                                                                         *)
(* Each access to the flag or the record is a step of its own, and an      *)
(* interrupt may fall between any two while the flag is set.  The control  *)
(* stack of the processor is a stack of frames: what runs at the bottom,   *)
(* the scopes open on it and the handlers that interrupted it.             *)
(***************************************************************************)
EXTENDS Naturals

CONSTANT MaxDepth  \* bound on the frames of the control stack

ASSUME DepthAssumption == MaxDepth \in Nat /\ MaxDepth >= 1

VARIABLES flag,     \* the interrupt flag in eflags
          enabled_, \* Int::enabled_
          top,      \* the number of frames
          frame     \* the frames; the last one runs

critVars == <<flag, enabled_, top, frame>>

\* "was" records the interrupt flag at the start of a scope, for the
\* properties only.
StackFrame == [kind : {"none", "kmain", "user", "handler", "critical"},
               pc : {"boot", "sti", "run", "cli", "sched", "test", "enter", "entry", "exit"},
               active : BOOLEAN, was : BOOLEAN]

NoStackFrame == [kind |-> "none", pc |-> "run", active |-> FALSE, was |-> FALSE]
Booting == [kind |-> "kmain", pc |-> "boot", active |-> FALSE, was |-> FALSE]
InUser  == [kind |-> "user", pc |-> "run", active |-> FALSE, was |-> FALSE]

\* kmain starts with interrupts off.
CritInit ==
  /\ flag = FALSE /\ enabled_ = FALSE
  /\ top = 1
  /\ frame = [k \in 1 .. MaxDepth |-> IF k = 1 THEN Booting ELSE NoStackFrame]

At(kind, pc) == frame[top].kind = kind /\ frame[top].pc = pc

Goto(pc) == frame' = [frame EXCEPT ![top].pc = pc] /\ UNCHANGED top

Push(f) == top < MaxDepth /\ top' = top + 1 /\ frame' = [frame EXCEPT ![top + 1] = f]

Pop == top' = top - 1 /\ frame' = [frame EXCEPT ![top] = NoStackFrame]

-----------------------------------------------------------------------------
\* Int::cli and Int::sti: first the flag, then the record.
MutCli(step) ==
  \/ step = 2 /\ flag' = FALSE /\ UNCHANGED enabled_
  \/ step = 1 /\ enabled_' = FALSE /\ UNCHANGED flag

cli(step) ==
  \/ step = 1 /\ flag' = FALSE /\ UNCHANGED enabled_
  \/ step = 2 /\ enabled_' = FALSE /\ UNCHANGED flag

sti(step) ==
  \/ step = 1 /\ flag' = TRUE /\ UNCHANGED enabled_
  \/ step = 2 /\ enabled_' = TRUE /\ UNCHANGED flag

-----------------------------------------------------------------------------
(* kmain.cc: sti once memory is set up, cli before the scheduler, and the  *)
(* iret of exec_task, which loads an eflags with IF set.                   *)

KmainSti ==
  \/ At("kmain", "boot") /\ sti(1) /\ Goto("sti")
  \/ At("kmain", "sti") /\ sti(2) /\ Goto("run")

KmainCli ==
  \/ At("kmain", "run") /\ cli(1) /\ Goto("cli")
  \/ At("kmain", "cli") /\ cli(2) /\ Goto("sched")

EnterUser ==
  /\ At("kmain", "sched")
  /\ flag' = TRUE /\ UNCHANGED enabled_
  /\ frame' = [frame EXCEPT ![top] = InUser] /\ UNCHANGED top

-----------------------------------------------------------------------------
(* CRITICAL_SCOPE(), in kmain, in a handler or inside another scope.       *)

InKernelCode ==
  \/ At("kmain", "boot") \/ At("kmain", "run") \/ At("kmain", "sched")
  \/ At("handler", "run") \/ At("critical", "run")

OpenScope ==
  /\ InKernelCode
  /\ Push([kind |-> "critical", pc |-> "test", active |-> FALSE, was |-> flag])
  /\ UNCHANGED <<flag, enabled_>>

\* A scope that takes itself for the one that turned interrupts off.
MutTestEnabled ==
  /\ At("critical", "test")
  /\ Goto("enter")
  /\ UNCHANGED <<flag, enabled_>>

\* Critical(): if (Int::enabled())
TestEnabled ==
  /\ At("critical", "test")
  /\ \/ enabled_ /\ Goto("enter")
     \/ ~ enabled_ /\ Goto("run")
  /\ UNCHANGED <<flag, enabled_>>

\* Int::cli(); active = true;
TurnOff ==
  \/ At("critical", "enter") /\ cli(1) /\ Goto("cli")
  \/ /\ At("critical", "cli") /\ cli(2)
     /\ frame' = [frame EXCEPT ![top] = [kind |-> "critical", pc |-> "run", active |-> TRUE,
                                         was |-> frame[top].was]]
     /\ UNCHANGED top

\* ~Critical(): if (active) Int::sti();
CloseScope ==
  \/ At("critical", "run") /\ frame[top].active /\ sti(1) /\ Goto("sti")
  \/ At("critical", "sti") /\ sti(2) /\ Pop
  \/ At("critical", "run") /\ ~ frame[top].active /\ Pop /\ UNCHANGED <<flag, enabled_>>

-----------------------------------------------------------------------------
(* An interrupt gate clears IF, and iret restores the flag of the          *)
(* interrupted code, which was set.  System calls come in the same way.    *)

Interrupt ==
  /\ flag
  /\ Push([kind |-> "handler", pc |-> "entry", active |-> FALSE, was |-> TRUE])
  /\ flag' = FALSE /\ UNCHANGED enabled_

\* common_interrupt_handler: Int::enabled_ = false; ... Int::enabled_ = true;
HandlerEntry == At("handler", "entry") /\ enabled_' = FALSE /\ Goto("run") /\ UNCHANGED flag

MutHandlerExit == At("handler", "run") /\ Goto("exit") /\ UNCHANGED <<flag, enabled_>>

HandlerExit == At("handler", "run") /\ enabled_' = TRUE /\ Goto("exit") /\ UNCHANGED flag

Iret == At("handler", "exit") /\ flag' = TRUE /\ Pop /\ UNCHANGED enabled_

CritNext ==
  \/ KmainSti \/ KmainCli \/ EnterUser
  \/ OpenScope \/ TestEnabled \/ TurnOff \/ CloseScope
  \/ Interrupt \/ HandlerEntry \/ HandlerExit \/ Iret

CritSpec == CritInit /\ [][CritNext]_critVars

-----------------------------------------------------------------------------
CritTypeOK ==
  /\ flag \in BOOLEAN /\ enabled_ \in BOOLEAN
  /\ top \in 1 .. MaxDepth
  /\ frame \in [1 .. MaxDepth -> StackFrame]

\* From the end of a scope's constructor to the start of its destructor no
\* interrupt can come in, however scopes and handlers are nested
\* (int.hh:37-46).
CriticalMasks ==
  \A k \in 1 .. top : frame[k].kind = "critical" /\ frame[k].pc = "run" => ~ flag

\* Whenever kernel code may ask, Int::enabled_ is the processor's flag,
\* although interrupts fall between the accesses to the two and handlers set
\* the record to true without looking (handlers.cc:111, 127).
FlagExact == InKernelCode => (enabled_ <=> flag)

\* Handlers never nest: no scope opened inside one turns interrupts on.
OneHandler ==
  \A j, k \in 1 .. top : frame[j].kind = "handler" /\ frame[k].kind = "handler" => j = k

\* A scope leaves the interrupt flag as it found it.
RestoresIF ==
  [][ (frame[top].kind = "critical" /\ top' < top) => (flag' <=> frame[top].was) ]_critVars

-----------------------------------------------------------------------------
\* A frame that runs with the interrupt flag clear.
Off(f) ==
  \/ f.kind = "kmain" /\ f.pc \in {"boot", "cli", "sched"}
  \/ f.kind = "handler"
  \/ f.kind = "critical" /\ (~ f.was \/ f.pc \in {"cli", "run"})

Computing(f) ==
  \/ f.kind = "kmain" /\ f.pc \in {"boot", "run", "sched"}
  \/ f.kind \in {"handler", "critical"} /\ f.pc = "run"

\* A scope opened with interrupts off does nothing; one that turned them off
\* is the one that turns them on.
Proper(f) ==
  \/ f.kind = "kmain" /\ f.pc \in {"boot", "sti", "run", "cli", "sched"}
  \/ f.kind = "user" /\ f.pc = "run"
  \/ f.kind = "handler" /\ f.pc \in {"entry", "run", "exit"}
  \/ f.kind = "critical" /\ ~ f.was /\ f.pc \in {"test", "run"} /\ ~ f.active
  \/ f.kind = "critical" /\ f.was /\ f.pc \in {"test", "enter", "cli", "run", "sti"}
       /\ (f.pc = "run" => f.active)

ShapeInv ==
  /\ frame[1].kind \in {"kmain", "user"}
  /\ \A k \in 2 .. top : frame[k].kind \in {"handler", "critical"}
  /\ \A k \in 1 .. top : Proper(frame[k])

\* What the running frame says of the flag and of the record.
TopInv ==
  /\ flag <=> ~ Off(frame[top])
  /\ (Computing(frame[top]) \/ frame[top].pc \in {"test", "enter"}) /\ frame[top].kind # "user"
       => (enabled_ <=> flag)
  /\ frame[top].pc = "exit" => enabled_

\* What a frame says of the one it was put on, which resumes after it.
BelowInv ==
  \A k \in 2 .. top :
    /\ frame[k].kind = "handler" => ~ Off(frame[k - 1])
    /\ frame[k].kind = "critical" => /\ Computing(frame[k - 1])
                                     /\ frame[k].was <=> ~ Off(frame[k - 1])

\* Above a frame that runs with the flag clear there are only scopes that
\* found it clear.
AboveInv ==
  \A j, k \in 1 .. top : j < k /\ Off(frame[j]) => frame[k].kind = "critical" /\ ~ frame[k].was

\* The inductive invariant.
CritInv == CritTypeOK /\ ShapeInv /\ TopInv /\ BelowInv /\ AboveInv
=============================================================================

------------------------------- MODULE Sched --------------------------------
(***************************************************************************)
(* The scheduler of the kernel: kernel/src/sched.cc, task.cc, syscall.cc,  *)
(* the timer branch of int/handlers.cc and the part of kmain.cc that       *)
(* starts it.                                                              *)
(*                                                                         *)
(* There is one processor.  Interrupt gates clear IF, so an interrupt      *)
(* handler or a system call runs to its iret undisturbed: each is one      *)
(* action.  User code is interrupted between any two of its steps.         *)
(***************************************************************************)
EXTENDS Naturals, Sequences

CONSTANTS
  Cap,               \* capacity of ready_queue (64)
  jiffies_per_slice, \* timer ticks per time slice (1)
  WordSize,          \* number of values of a 32 bit word
  UserContexts,      \* the register files the code of each task computes
  Garbage,           \* register files found in uninitialised memory
  MaxTasks           \* bound on the tasks a behaviour creates

\* "eflags" stands for eflags (its interrupt flag) and the segment selectors.
Reg == {"edi", "esi", "ebp", "ebx", "edx", "ecx", "eax", "eip", "useresp", "eflags"}

Word == 0 .. WordSize - 1

\* vaddr_t::offset: unsigned 32 bit addition.
Offset(a, n) == (a + n) % WordSize

ASSUME SizeAssumption ==
  /\ Cap \in Nat \ {0}
  /\ jiffies_per_slice \in Nat \ {0}
  /\ WordSize \in Nat \ {0}
  /\ MaxTasks \in Nat /\ 2 =< MaxTasks /\ MaxTasks < WordSize

ASSUME ContextAssumption ==
  /\ UserContexts \in [1 .. MaxTasks -> SUBSET [Reg -> Word]]
  /\ Garbage \subseteq [Reg -> Word]

VARIABLES
  stage,         \* how far kmain is, "user", or the way the kernel stopped
  current_task_, \* the running task (0: null)
  ready_queue,   \* the tasks waiting for the processor
  task,          \* every task_t ever created; its index is its tid
  pcount,        \* processes created so far
  cr3,           \* the page directory in use
  esp0,          \* the task on whose kernel stack the next interrupt lands
  cpu,           \* the registers of user code
  jiffy          \* systick_counter % jiffies_per_slice

vars == <<stage, current_task_, ready_queue, task, pcount, cr3, esp0, cpu, jiffy>>

null == 0
kernel_pdir == 0

Task == [pid : Nat, pdir : Nat, started : BOOLEAN, stack : Word, pc : Word,
         frame : [Reg -> Word]]

Running == stage = "user"

Init ==
  /\ stage = "irqs_on"      \* kmain has called Int::sti() and not yet cli()
  /\ current_task_ = null
  /\ ready_queue = <<>>
  /\ task = <<>>
  /\ pcount = 0
  /\ cr3 = kernel_pdir
  /\ esp0 = null
  /\ cpu \in Garbage
  /\ jiffy = 0

-----------------------------------------------------------------------------
\* Queue::enqueue and dequeue of the ready queue (FixedQueue is its detail).
MutEnqueued(queue, t) == <<t>> \o queue

Enqueued(queue, t) == Append(queue, t)

\* The registers with which a task that has never run enters user mode: the
\* frame of the interrupted task with some of its registers replaced.
MutFirstFrame(f, t) == [t.frame EXCEPT !["eip"] = t.pc, !["useresp"] = t.stack]

FirstFrame(f, t) ==
  [r \in Reg |->
    CASE r \in {"edi", "ebp", "ebx", "edx", "ecx", "eax"} -> t.frame[r]
      [] r = "eip"     -> t.pc
      [] r = "useresp" -> t.stack
      [] OTHER         -> f[r]]

\* The page directory is switched only between processes: the next task's is
\* compared with the one of the task that was current before the moves.
MutPdirAfter(next) == IF task[next].pdir # task'[current_task_'].pdir THEN task[next].pdir ELSE cr3

PdirAfter(next) == IF task[next].pdir # task[current_task_].pdir THEN task[next].pdir ELSE cr3

MutSaved(next) == [task EXCEPT ![next].started = TRUE]

\* The stack and pc fields are read only before a task's first run, so that
\* their update in the task that is switched out is left out.
Saved(next) == [task EXCEPT ![current_task_].frame = cpu, ![next].started = TRUE]

\* own_ptr moves: the current task goes to the tail of the queue from which
\* `next` was taken, leaving `rest`.
switch_task(next, rest) ==
  \/ /\ current_task_ = null          \* dereferences the null current task
     /\ cr3' = task[next].pdir
     /\ esp0' = next
     /\ ready_queue' = rest
     /\ stage' = "null_task"
     /\ UNCHANGED <<current_task_, task, cpu>>
  \/ /\ current_task_ # null
     /\ Len(rest) >= Cap
     /\ stage' = "overflow"
     /\ UNCHANGED <<current_task_, ready_queue, task, cr3, esp0, cpu>>
  \/ /\ current_task_ # null
     /\ Len(rest) < Cap
     /\ ready_queue' = Enqueued(rest, current_task_)
     /\ current_task_' = next
     /\ task' = Saved(next)
     /\ cr3' = PdirAfter(next)
     /\ esp0' = next
     /\ cpu' = IF task[next].started THEN task[next].frame ELSE FirstFrame(cpu, task[next])
     /\ UNCHANGED stage

NoSwitch == UNCHANGED <<stage, current_task_, ready_queue, task, cr3, esp0, cpu>>

\* The next task is looked at but stays in the queue.
MutPeekSwitchTask ==
  \/ ready_queue = <<>> /\ NoSwitch
  \/ ready_queue # <<>> /\ switch_task(Head(ready_queue), ready_queue)

\* The task that is switched out needs a slot before the next one frees its own.
MutEnqueueFirst ==
  \/ /\ Len(ready_queue) = Cap /\ stage' = "overflow"
     /\ UNCHANGED <<current_task_, ready_queue, task, cr3, esp0, cpu>>
  \/ Len(ready_queue) < Cap /\ ready_queue # <<>> /\ switch_task(Head(ready_queue), Tail(ready_queue))
  \/ ready_queue = <<>> /\ NoSwitch

maybe_switch_task ==
  \/ ready_queue = <<>> /\ NoSwitch
  \/ ready_queue # <<>> /\ switch_task(Head(ready_queue), Tail(ready_queue))

\* A full queue is fatal, also when it is user code that asked for a thread.
add_task(t) ==
  \/ Len(ready_queue) = Cap /\ stage' = "overflow" /\ UNCHANGED ready_queue
  \/ Len(ready_queue) < Cap /\ ready_queue' = Enqueued(ready_queue, t) /\ UNCHANGED stage

-----------------------------------------------------------------------------
(* kmain: interrupts are on while devices and the initrd are initialised,  *)
(* off from the cli() before the scheduler is set up until the first task. *)

Cli ==
  /\ stage = "irqs_on"
  /\ stage' = "enqueue"
  /\ UNCHANGED <<current_task_, ready_queue, task, pcount, cr3, esp0, cpu, jiffy>>

\* The task_t that from_elf returns: its frame is never initialised, its page
\* directory is a fresh clone, its counters are the next ones.
from_elf(entry, garbage) ==
  [pid |-> pcount + 1, pdir |-> pcount + 1, started |-> FALSE,
   stack |-> entry["useresp"], pc |-> entry["eip"], frame |-> garbage]

\* load_and_enqueue_task("hello.elf"): a failure to find, clone or load the
\* program is dropped silently.
LoadAndEnqueue ==
  /\ stage = "enqueue"
  /\ \E entry \in UserContexts[Len(task) + 1], garbage \in Garbage :
       task' = Append(task, from_elf(entry, garbage))
  /\ pcount' = pcount + 1
  /\ ready_queue' = Enqueued(ready_queue, Len(task) + 1)
  /\ stage' = "execute"
  /\ UNCHANGED <<current_task_, cr3, esp0, cpu, jiffy>>

LoadFails ==
  /\ stage = "enqueue"
  /\ stage' = "execute"
  /\ UNCHANGED <<current_task_, ready_queue, task, pcount, cr3, esp0, cpu, jiffy>>

\* load_and_execute_task("hello2.elf") ends in the iret of exec_task.  The
\* registers it does not load hold what the kernel left in them.
LoadAndExecute ==
  /\ stage = "execute"
  /\ \E entry \in UserContexts[Len(task) + 1], garbage \in Garbage :
       /\ task' = Append(task, [from_elf(entry, garbage) EXCEPT !.started = TRUE])
       /\ cpu' = [garbage EXCEPT !["eip"] = entry["eip"], !["useresp"] = entry["useresp"],
                                 !["eflags"] = 1]
  /\ pcount' = pcount + 1
  /\ current_task_' = Len(task) + 1
  /\ cr3' = pcount + 1
  /\ esp0' = Len(task) + 1
  /\ stage' = "user"
  /\ UNCHANGED <<ready_queue, jiffy>>

\* kmain returns and cstart panics.
ExecuteFails ==
  /\ stage = "execute"
  /\ stage' = "stopped"
  /\ UNCHANGED <<current_task_, ready_queue, task, pcount, cr3, esp0, cpu, jiffy>>

-----------------------------------------------------------------------------
(* The timer interrupt, in the kernel's boot phase and in user mode.       *)

\* kmain without its cli().
MutInterruptsOn ==
  stage \in {"irqs_on", "enqueue", "execute"} \/ (Running /\ cpu["eflags"] = 1)

InterruptsOn == stage = "irqs_on" \/ (Running /\ cpu["eflags"] = 1)

Tick ==
  /\ InterruptsOn
  /\ jiffy' = (jiffy + 1) % jiffies_per_slice
  /\ \/ jiffy' = 0 /\ maybe_switch_task
     \/ jiffy' # 0 /\ NoSwitch
  /\ UNCHANGED pcount

\* User code computes: it may load every register but not clear IF.
Run ==
  /\ Running
  /\ \E c \in UserContexts[current_task_] : cpu' = [c EXCEPT !["eflags"] = cpu["eflags"]]
  /\ UNCHANGED <<stage, current_task_, ready_queue, task, pcount, cr3, esp0, jiffy>>

-----------------------------------------------------------------------------
(* System calls (int 0xca).  SYS_NOP, the printing calls and unknown       *)
(* numbers change none of this state.                                      *)

SysYield ==
  /\ Running
  /\ maybe_switch_task
  /\ UNCHANGED <<pcount, jiffy>>

\* The new thread starts from the frame its creator was last switched out
\* with, which is uninitialised if it never was.
make_thread(creator, f) ==
  [creator EXCEPT !.started = FALSE, !.pc = f["ebx"],
                  !.stack = Offset(f["ecx"], f["edx"]),
                  !.frame = [@ EXCEPT !["eax"] = f["esi"], !["ebx"] = f["edi"]]]

\* An allocation of the task_t that fails is a panic of the heap.
SysThreadCreate ==
  /\ Running
  /\ Len(task) < MaxTasks
  /\ task' = Append(task, make_thread(task[current_task_], cpu))
  /\ add_task(Len(task) + 1)
  /\ UNCHANGED <<current_task_, pcount, cr3, esp0, cpu, jiffy>>

SysGetPid ==
  /\ Running
  /\ cpu' = [cpu EXCEPT !["eax"] = task[current_task_].pid]
  /\ UNCHANGED <<stage, current_task_, ready_queue, task, pcount, cr3, esp0, jiffy>>

SysGetTid ==
  /\ Running
  /\ cpu' = [cpu EXCEPT !["eax"] = current_task_]
  /\ UNCHANGED <<stage, current_task_, ready_queue, task, pcount, cr3, esp0, jiffy>>

\* SYS_DBG_HALT hangs; SYS_THREAD_REJOIN and SYS_PROCESS_EXIT panic, and so
\* does every exception user code raises.
SysStop ==
  /\ Running
  /\ stage' = "stopped"
  /\ UNCHANGED <<current_task_, ready_queue, task, pcount, cr3, esp0, cpu, jiffy>>

Boot == Cli \/ LoadAndEnqueue \/ LoadFails \/ LoadAndExecute \/ ExecuteFails

Syscall == SysYield \/ SysThreadCreate \/ SysGetPid \/ SysGetTid \/ SysStop

Next == Boot \/ Tick \/ Run \/ Syscall

Spec == Init /\ [][Next]_vars

\* The timer (PIT) is periodic, and interrupts are on in user mode.
FairSpec == Spec /\ WF_vars(Tick)

-----------------------------------------------------------------------------
TypeOK ==
  /\ stage \in {"irqs_on", "enqueue", "execute", "user",
                "stopped", "overflow", "null_task"}
  /\ task \in Seq(Task)
  /\ current_task_ \in 0 .. Len(task)
  /\ ready_queue \in Seq(1 .. Len(task))
  /\ pcount \in Nat
  /\ cr3 \in Nat
  /\ esp0 \in 0 .. Len(task)
  /\ cpu \in [Reg -> Word]
  /\ jiffy \in 0 .. jiffies_per_slice - 1

\* Tasks are owned by exactly one place: none is lost, duplicated, or queued
\* while it runs, across creation, yields and preemption (sched.cc:50-52).
Waiting == {ready_queue[i] : i \in DOMAIN ready_queue}

OneOwner ==
  stage \in {"irqs_on", "enqueue", "execute", "user"} =>
    /\ \A i, j \in DOMAIN ready_queue : i # j => ready_queue[i] # ready_queue[j]
    /\ current_task_ \notin Waiting
    /\ Waiting \cup ({current_task_} \ {null}) = 1 .. Len(task)

\* User code runs in its own page directory and its next interrupt lands on
\* its own kernel stack, although page directory switches are skipped between
\* threads of one process (sched.cc:47-59).
OwnSpace == Running => cr3 = task[current_task_].pdir /\ esp0 = current_task_

\* Page directories are shared by the threads of a process and by no others.
ThreadsShareSpace ==
  \A s, t \in DOMAIN task : task[s].pid = task[t].pid <=> task[s].pdir = task[t].pdir

\* No timer interrupt ever finds a task to switch to while there is none to
\* switch from (sched.cc:36-43): kmain disables interrupts for that long.
NoNullSwitch == stage # "null_task"

\* The kernel runs out of queue slots only when a task is created beyond the
\* Cap waiting ones and the running one; a switch never overflows the queue.
OverflowOnlyOnCreate == stage = "overflow" => Len(task) = Cap + 2

\* Ready tasks are served in order: a task keeps its place behind those ahead
\* of it, newcomers and preempted tasks go behind everyone, and the processor
\* goes to the head (sched.cc:50, 117-129).
NoOvertaking ==
  [][ \/ ready_queue' = ready_queue
      \/ \E t \in 1 .. Len(task') : ready_queue' = Append(ready_queue, t)
      \/ /\ ready_queue # <<>> /\ current_task_' = Head(ready_queue)
         /\ ready_queue' = Append(Tail(ready_queue), current_task_) ]_vars

\* What the boot sequence has set up by the time interrupts reach user code.
BootInv ==
  /\ stage \in {"irqs_on", "enqueue"} => task = <<>> /\ ready_queue = <<>> /\ current_task_ = null
  /\ stage = "execute" => /\ current_task_ = null
                          /\ Len(task) = Len(ready_queue)
                          /\ Len(task) =< 1

\* Every task but the running one takes one slot of the ready queue.
CountInv ==
  /\ pcount =< Len(task) /\ Len(task) =< MaxTasks
  /\ Len(ready_queue) =< Cap
  /\ Running => current_task_ # null /\ Len(task) = Len(ready_queue) + 1

\* A task's page directory is the one cloned for its process.
PidInv == \A t \in DOMAIN task : task[t].pid = task[t].pdir /\ task[t].pid =< pcount

\* What is read of a started task is the frame it was switched out with.
StartedInv == Running => task[current_task_].started

\* The inductive invariant of the scheduler.
SchedInv ==
  /\ TypeOK /\ BootInv /\ CountInv /\ PidInv /\ StartedInv
  /\ OneOwner /\ OwnSpace /\ NoNullSwitch /\ OverflowOnlyOnCreate

\* The threads of Threads, seen in the state of the scheduler.
Registers ==
  [t \in 1 .. Len(task) |->
     IF t = current_task_ THEN cpu
     ELSE IF task[t].started THEN task[t].frame
     ELSE FirstFrame([r \in Reg |-> 0], task[t])]

Spaces == [t \in 1 .. Len(task) |-> task[t].pdir]

NeverRun == {t \in 1 .. Len(task) : t # current_task_ /\ ~ task[t].started}

Alive == stage \in {"irqs_on", "enqueue", "execute", "user"}

Abs == INSTANCE Threads WITH
  Inherited <- {"esi", "eflags"},
  regs <- Registers, space <- Spaces, fresh <- NeverRun,
  on <- current_task_, active <- cr3, alive <- Alive

\* Time slicing is invisible to user threads: whatever the interleaving of
\* ticks, yields and creations, each thread sees its own registers and memory.
ImplementsThreads == Abs!ThreadsSpec

\* Round robin starves nobody: a task that waits runs, unless the kernel stops.
EveryTaskRuns ==
  \A t \in 1 .. MaxTasks :
    (Running /\ t \in Waiting) ~> (current_task_ = t \/ ~ Running)
=============================================================================

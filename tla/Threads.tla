------------------------------ MODULE Threads -------------------------------
(***************************************************************************)
(* What the scheduler promises to user threads: each thread has registers  *)
(* and an address space of its own, exactly one thread runs at a time, and *)
(* being switched out and in again is invisible to it.  A thread that has  *)
(* never run is promised its entry point, its stack and its two context    *)
(* words, and nothing about the registers in Inherited.                    *)
(***************************************************************************)
EXTENDS Naturals, Sequences

CONSTANTS
  Reg,           \* the registers a user thread can see
  Inherited,     \* registers a first dispatch leaves as they were
  Offset(_, _)   \* address arithmetic

VARIABLES
  regs,    \* the register file of every thread, in the order of creation
  space,   \* the address space of every thread
  fresh,   \* threads that have not run yet
  on,      \* the running thread (0: none)
  active,  \* the address space the processor translates through
  alive    \* FALSE once the kernel has halted or panicked

threadsVars == <<regs, space, fresh, on, active, alive>>

ThreadsInit ==
  /\ regs = <<>>
  /\ space = <<>>
  /\ fresh = {}
  /\ on = 0
  /\ active = 0
  /\ alive = TRUE

\* One more thread, and nobody else's registers or address space change.
NewThread == Len(regs) + 1

Created ==
  /\ Len(regs') = NewThread /\ Len(space') = NewThread
  /\ regs' = Append(regs, regs'[NewThread])
  /\ space' = Append(space, space'[NewThread])

\* A process is loaded before any thread runs, in an address space of its own.
Load ==
  /\ alive /\ on = 0
  /\ Created
  /\ \A u \in DOMAIN space : space[u] # space'[NewThread]
  /\ \/ fresh' = fresh \cup {NewThread} /\ UNCHANGED <<on, active>>
     \/ on' = NewThread /\ active' = space'[NewThread] /\ UNCHANGED fresh
  /\ UNCHANGED alive

\* The running thread computes: nobody else's registers change.
Compute ==
  /\ alive /\ on # 0
  /\ regs' = [regs EXCEPT ![on] = regs'[on]]
  /\ UNCHANGED <<space, fresh, on, active, alive>>

\* The running thread creates a thread in its own address space.
Spawn ==
  /\ alive /\ on # 0
  /\ Created
  /\ regs'[NewThread]["eip"] = regs[on]["ebx"]
  /\ regs'[NewThread]["useresp"] = Offset(regs[on]["ecx"], regs[on]["edx"])
  /\ regs'[NewThread]["eax"] = regs[on]["esi"]
  /\ regs'[NewThread]["ebx"] = regs[on]["edi"]
  /\ space'[NewThread] = space[on]
  /\ fresh' = fresh \cup {NewThread}
  /\ UNCHANGED <<on, active>>
  /\ alive' \in BOOLEAN     \* there may be no room for it, which is fatal

\* Another thread gets the processor, with its own registers and memory.
Switch(t) ==
  /\ alive /\ on # 0 /\ t # on
  /\ on' = t
  /\ active' = space[t]
  /\ fresh' = fresh \ {t}
  /\ regs' = [regs EXCEPT ![t] = regs'[t]]
  /\ \A r \in Reg : regs'[t][r] = regs[t][r] \/ (t \in fresh /\ r \in Inherited)
  /\ UNCHANGED <<space, alive>>

Stop ==
  /\ alive
  /\ alive' = FALSE
  /\ UNCHANGED <<regs, space, fresh, on, active>>

ThreadsNext ==
  \/ Load
  \/ Compute
  \/ Spawn
  \/ \E t \in DOMAIN regs : Switch(t)
  \/ Stop

ThreadsSpec == ThreadsInit /\ [][ThreadsNext]_threadsVars
=============================================================================

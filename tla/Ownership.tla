----------------------------- MODULE Ownership -----------------------------
(***************************************************************************)
(* Who owns a task (std/pointer.hh, std/either.hh): a task lives on the    *)
(* heap until the own_ptr that holds it is destroyed.  On its way from the *)
(* loader or from a system call to the ready queue and to current_task_ it *)
(* is moved from one own_ptr to the next, through Right, the buffer of an  *)
(* Either, parameters and the slots of the queue.                          *)
(*                                                                         *)
(* Assignments to an own_ptr forget what it held before, as slots and      *)
(* buffers are raw memory to which nothing was assigned yet; an Either has *)
(* no destructor, so what is left in its buffer is never deleted.  All of  *)
(* this runs with interrupts off, one call after the other.                *)
(***************************************************************************)
EXTENDS FixedQueue

CONSTANT nullptr

ASSUME NullptrAssumption == nullptr \notin Thing \cup {null_item}

VARIABLES
  own,    \* what each own_ptr outside the queue holds
  live,   \* the tasks on the heap
  tag,    \* the Either's: whether its buffer holds a task or an error text
  caller, \* whose then_do it is: kmain's first or second load, or a system call;
          \* "none" where the queue is used by itself
  step    \* where the call is

ownVars == <<own, live, tag, caller, step>>

\* The own_ptrs outside the queue; one that does not exist holds nothing.
Holder == {"task", "hint", "either", "arg", "item", "current_task_"}

OwnInit ==
  /\ Init
  /\ own = [h \in Holder |-> nullptr] /\ live = {}
  /\ tag = FALSE /\ caller \in {"first", "none"} /\ step = "idle"

At(from, to) == step = from /\ step' = to

QueueAlone == UNCHANGED vars

-----------------------------------------------------------------------------
\* Mutants: what a slip in pointer.hh, either.hh or task.cc would make of the
\* definition that follows.
MutReleased(p) == p

\* What release() leaves behind of a pointer.
Released(p) == nullptr

\* to = move(from), in a map of own_ptrs.
Moved(o, from, to) == [o EXCEPT ![to] = o[from], ![from] = Released(o[from])]

\* ~own_ptr() of each of hs.
End(hs) ==
  /\ live' = live \ {own[h] : h \in hs}
  /\ own' = [h \in Holder |-> IF h \in hs THEN nullptr ELSE own[h]]

-----------------------------------------------------------------------------
(* Where tasks come from.                                                  *)

\* from_elf's and make_thread's new.
NewTask ==
  \E t \in Thing \ live : live' = live \cup {t} /\ own' = [own EXCEPT !["task"] = t]

\* from_elf makes a task of an image that loads, and an error of others.
from_elf ==
  /\ caller # "syscall" /\ QueueAlone /\ UNCHANGED caller
  /\ \/ At("idle", "right") /\ NewTask /\ UNCHANGED tag
     \/ At("idle", "then_do") /\ tag' = FALSE /\ UNCHANGED <<own, live>>

make_thread ==
  /\ caller = "syscall" /\ At("idle", "right") /\ NewTask
  /\ QueueAlone /\ UNCHANGED <<tag, caller>>

\* Right(move(task)).
Right ==
  /\ At("right", "wrap") /\ own' = Moved(own, "task", "hint")
  /\ QueueAlone /\ UNCHANGED <<live, tag, caller>>

\* operator=(Right_ &&).
AssignRight == own' = Moved(own, "hint", "either") /\ tag' = TRUE

\* Either(Right_ &&).
Either ==
  /\ At("wrap", "return") /\ AssignRight
  /\ QueueAlone /\ UNCHANGED <<live, caller>>

Return ==
  /\ At("return", "then_do") /\ End({"task", "hint"})
  /\ QueueAlone /\ UNCHANGED <<tag, caller>>

-----------------------------------------------------------------------------
(* Where they go.                                                          *)

\* then_do: the function is called with the value, if there is one.
then_do ==
  /\ QueueAlone /\ UNCHANGED <<live, tag, caller>>
  /\ \/ ~tag /\ At("then_do", "done") /\ UNCHANGED own
     \/ /\ tag /\ At("then_do", IF caller = "second" THEN "exec_task" ELSE "add_task")
        /\ own' = Moved(own, "either", "arg")

add_task ==
  /\ UNCHANGED <<live, tag, caller>>
  /\ \/ /\ At("add_task", "added") /\ enqueue(own["arg"])
        /\ own' = [own EXCEPT !["arg"] = Released(@)]
     \/ At("add_task", "failed") /\ Overflow /\ UNCHANGED own

Added ==
  /\ At("added", "done") /\ End({"arg"})
  /\ QueueAlone /\ UNCHANGED <<tag, caller>>

\* The boot's last call, which does not return.
exec_task ==
  /\ At("exec_task", "idle") /\ own["current_task_"] = nullptr
  /\ own' = Moved(own, "arg", "current_task_") /\ caller' = "syscall"
  /\ QueueAlone /\ UNCHANGED <<live, tag>>

\* The Either goes out of scope, and kmain loads the second program, or returns.
Done ==
  /\ At("done", IF caller = "second" THEN "returned" ELSE "idle")
  /\ own' = [own EXCEPT !["either"] = nullptr]
  /\ caller' = IF caller = "first" THEN "second" ELSE caller
  /\ QueueAlone /\ UNCHANGED <<live, tag>>

-----------------------------------------------------------------------------
(* maybe_switch_task.                                                      *)

\* dequeue() moves the oldest task out of its slot and destroys what is left.
Dequeue ==
  /\ caller = "syscall" /\ At("idle", "dequeued") /\ dequeue
  /\ own' = [own EXCEPT !["item"] = items[i_reader]]
  /\ live' = live \ {Released(items[i_reader])}
  /\ UNCHANGED <<tag, caller>>

\* return move(item), into the parameter of switch_task.
Dequeued ==
  /\ At("dequeued", "switch_task")
  /\ own' = [own EXCEPT !["arg"] = own["item"], !["item"] = nullptr]
  /\ live' = live \ {Released(own["item"])}
  /\ QueueAlone /\ UNCHANGED <<tag, caller>>

\* ready_queue.enqueue(move(current_task_)).
switch_task ==
  /\ At("switch_task", "switched") /\ enqueue(own["current_task_"])
  /\ own' = [own EXCEPT !["current_task_"] = Released(@)]
  /\ UNCHANGED <<live, tag, caller>>

\* current_task_ = move(task), and the parameter is destroyed.
Switched ==
  /\ At("switched", "idle")
  /\ own' = [own EXCEPT !["current_task_"] = own["arg"], !["arg"] = nullptr]
  /\ live' = live \ {Released(own["arg"])}
  /\ QueueAlone /\ UNCHANGED <<tag, caller>>

TaskNext ==
  \/ from_elf \/ make_thread \/ Right \/ Either \/ Return
  \/ then_do \/ add_task \/ Added \/ exec_task \/ Done
  \/ Dequeue \/ Dequeued \/ switch_task \/ Switched

OwnNext ==
  \/ caller = "none" /\ Next /\ UNCHANGED ownVars
  \/ caller # "none" /\ TaskNext

OwnSpec == OwnInit /\ [][OwnNext]_<<vars, ownVars>>
-----------------------------------------------------------------------------
Held == {own[h] : h \in Holder} \ {nullptr}
Waiting == {items[i] : i \in Slots} \ {null_item}

\* pointer.hh:49-62, queue.hh:64-91, sched.cc:50-52: at every step, the tasks
\* on the heap are those some own_ptr holds (none is lost, none deleted while
\* it is held) and no two own_ptrs hold the same one, so that none is deleted
\* twice or runs while it waits.
OwnedOnce ==
  caller # "none" =>
    /\ live = Held \cup Waiting /\ Held \cap Waiting = {}
    /\ \A h, g \in Holder : own[h] = own[g] /\ own[h] # nullptr => h = g
    /\ \A i, j \in Slots : items[i] = items[j] /\ items[i] # null_item => i = j
    /\ step = "idle" /\ caller = "syscall" => Held = {own["current_task_"]}

-----------------------------------------------------------------------------
\* The own_ptrs that hold a task where a call stands.
Holding ==
  (IF caller = "syscall" /\ step # "switched" THEN {"current_task_"} ELSE {}) \cup
  CASE step = "right"             -> {"task"}
    [] step = "wrap"              -> {"hint"}
    [] step = "return"            -> {"either"}
    [] step = "then_do"           -> IF tag THEN {"either"} ELSE {}
    [] step = "dequeued"          -> {"item"}
    [] step \in {"add_task", "exec_task", "failed", "switch_task", "switched"} -> {"arg"}
    [] step \in {"idle", "added", "done", "returned"} -> {}

Steps == {"idle", "right", "wrap", "return", "then_do", "add_task", "added", "failed", "done",
          "returned", "exec_task", "dequeued", "switch_task", "switched"}

OwnTypeOK ==
  /\ own \in [Holder -> Thing \cup {nullptr}] /\ live \subseteq Thing /\ tag \in BOOLEAN
  /\ caller \in {"first", "second", "syscall"} /\ step \in Steps

\* A call's task is where the call has brought it and nowhere else.
Placed ==
  /\ \A h \in Holder : own[h] # nullptr <=> h \in Holding
  /\ step = "return" => tag
  /\ step = "exec_task" => caller = "second"
  /\ step \in {"dequeued", "switch_task", "switched"} => caller = "syscall"

\* The inductive invariant of a queue of tasks.
OwnInv == RingInv /\ (caller # "none" => OwnTypeOK /\ Placed /\ OwnedOnce)
=============================================================================

------------------------------ MODULE MCSched -------------------------------
(* Sched for TLC: register files whose every register holds a value of its  *)
(* own, so that a swapped, stale or foreign register shows.                 *)
EXTENDS Sched

RegNo == [edi |-> 1, esi |-> 2, ebp |-> 3, ebx |-> 4, edx |-> 5, ecx |-> 6,
          eax |-> 7, eip |-> 8, useresp |-> 9, eflags |-> 0]

Context(v) == [r \in Reg |-> 10 * v + RegNo[r]]

MCUserContexts == [t \in 1 .. MaxTasks |-> {[Context(t) EXCEPT !["eflags"] = 1]}]
MCGarbage == {[Context(9) EXCEPT !["eflags"] = 0]}
=============================================================================

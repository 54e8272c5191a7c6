-------------------------------- MODULE Fifo --------------------------------
(***************************************************************************)
(* What kernel/src/std/queue.hh promises its users: a first-in first-out   *)
(* queue of at most Cap things.  Enqueueing into a full queue or           *)
(* dequeueing from an empty one is a kernel failure, after which nothing   *)
(* happens any more; destroying the queue takes every remaining thing out, *)
(* oldest first.                                                           *)
(***************************************************************************)
EXTENDS Naturals, Sequences

CONSTANTS
  Thing,    \* the values that can be queued
  Cap       \* the template parameter Cap

VARIABLES
  queue,    \* the things in the queue, oldest first
  taken,    \* what the last dequeue took out, as a set (empty before it)
  status    \* "alive", "failed", "dying" (in the destructor) or "gone"

fifoVars == <<queue, taken, status>>

FifoInit == queue = <<>> /\ taken = {} /\ status = "alive"

Put(x) ==
  /\ status = "alive"
  /\ Len(queue) < Cap
  /\ queue' = Append(queue, x)
  /\ UNCHANGED <<taken, status>>

Get ==
  /\ status \in {"alive", "dying"}
  /\ queue # <<>>
  /\ queue' = Tail(queue)
  /\ taken' = {Head(queue)}
  /\ UNCHANGED status

\* Overflow and underflow: stdfail() does not return.
Fail ==
  /\ status = "alive"
  /\ Len(queue) \in {0, Cap}
  /\ status' = "failed"
  /\ UNCHANGED <<queue, taken>>

Destroy ==
  /\ status = "alive"
  /\ status' = "dying"
  /\ UNCHANGED <<queue, taken>>

Destroyed ==
  /\ status = "dying"
  /\ queue = <<>>
  /\ status' = "gone"
  /\ UNCHANGED <<queue, taken>>

FifoNext == (\E x \in Thing : Put(x)) \/ Get \/ Fail \/ Destroy \/ Destroyed

FifoSpec == FifoInit /\ [][FifoNext]_fifoVars
=============================================================================

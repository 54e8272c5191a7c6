----------------------------- MODULE FixedQueue -----------------------------
(***************************************************************************)
(* kernel/src/std/queue.hh: the fixed capacity ring buffer that holds the  *)
(* scheduler's ready queue.                                                *)
(***************************************************************************)
EXTENDS Naturals, Sequences

CONSTANTS
  Thing,    \* the element type T
  Cap,      \* the template parameter Cap
  null_item \* null_item_t: what an unused slot holds

ASSUME CapAssumption == Cap \in Nat \ {0}
ASSUME NullAssumption == null_item \notin Thing

VARIABLES
  items,    \* the slots
  length_,
  i_writer, \* where the next item is written
  i_reader, \* where the next item is read
  taken,    \* the value returned by the last dequeue, as a set
  status    \* "alive", "failed" (after stdfail), "dying", "gone"

vars == <<items, length_, i_writer, i_reader, taken, status>>

Slots == 0 .. Cap - 1

Init ==
  /\ items = [i \in Slots |-> null_item]
  /\ length_ = 0
  /\ i_writer = 0
  /\ i_reader = 0
  /\ taken = {}
  /\ status = "alive"

\* Mutants: what a slip in queue.hh would make of the definition that follows.
MutIncrement(i) == IF i = Cap THEN 0 ELSE i + 1

increment(i) == IF i = Cap - 1 THEN 0 ELSE i + 1

enqueue(x) ==
  /\ status = "alive"
  /\ length_ # Cap
  /\ items' = [items EXCEPT ![i_writer] = x]
  /\ i_writer' = increment(i_writer)
  /\ length_' = length_ + 1
  /\ UNCHANGED <<i_reader, taken, status>>

Overflow ==
  /\ status = "alive"
  /\ length_ = Cap
  /\ status' = "failed"
  /\ UNCHANGED <<items, length_, i_writer, i_reader, taken>>

MutTakeNewest ==
  LET last == IF i_writer = 0 THEN Cap - 1 ELSE i_writer - 1 IN
  /\ length_ # 0
  /\ taken' = {items[last]}
  /\ items' = [items EXCEPT ![last] = null_item]
  /\ i_writer' = last
  /\ length_' = length_ - 1
  /\ UNCHANGED <<i_reader, status>>

\* The body shared by a call of dequeue and by the destructor's loop.
TakeOldest ==
  /\ length_ # 0
  /\ taken' = {items[i_reader]}
  /\ items' = [items EXCEPT ![i_reader] = null_item]
  /\ i_reader' = increment(i_reader)
  /\ length_' = length_ - 1
  /\ UNCHANGED <<i_writer, status>>

dequeue == status = "alive" /\ TakeOldest

Underflow ==
  /\ status = "alive"
  /\ length_ = 0
  /\ status' = "failed"
  /\ UNCHANGED <<items, length_, i_writer, i_reader, taken>>

\* ~FixedQueue(): while (length_) dequeue();
Destroy ==
  /\ status = "alive"
  /\ status' = "dying"
  /\ UNCHANGED <<items, length_, i_writer, i_reader, taken>>

DestroyOne == status = "dying" /\ TakeOldest

Destroyed ==
  /\ status = "dying"
  /\ length_ = 0
  /\ status' = "gone"
  /\ UNCHANGED <<items, length_, i_writer, i_reader, taken>>

Next ==
  \/ \E x \in Thing : enqueue(x)
  \/ dequeue
  \/ Overflow
  \/ Underflow
  \/ Destroy
  \/ DestroyOne
  \/ Destroyed

Spec == Init /\ [][Next]_vars

-----------------------------------------------------------------------------
TypeOK ==
  /\ items \in [Slots -> Thing \cup {null_item}]
  /\ length_ \in 0 .. Cap
  /\ i_writer \in Slots
  /\ i_reader \in Slots
  /\ taken \in SUBSET (Thing \cup {null_item})
  /\ status \in {"alive", "failed", "dying", "gone"}

\* The slot k places after the reader, wrapping at the end of the array.
Slot(k) == IF i_reader + k < Cap THEN i_reader + k ELSE i_reader + k - Cap

\* The writer is exactly length_ slots ahead of the reader, also when the
\* queue is full and the two indices coincide.
WriterAhead == i_writer = Slot(length_)

\* The slots between reader and writer hold things and every other slot has
\* been destroyed: no thing is kept alive, overwritten or destroyed twice.
ExactlyWindowLive ==
  \A k \in 0 .. Cap - 1 : items[Slot(k)] \in Thing <=> k < length_

\* The inductive invariant of the ring.
RingInv == TypeOK /\ WriterAhead /\ ExactlyWindowLive

\* The abstract queue the ring buffer stands for.
AbstractQueue == [k \in 1 .. length_ |-> items[Slot(k - 1)]]

Abs == INSTANCE Fifo WITH queue <- AbstractQueue

\* The ring buffer is a bounded FIFO: things leave in the order in which they
\* entered it, each once, whatever the positions of the two indices.
ImplementsFifo == Abs!FifoSpec
=============================================================================

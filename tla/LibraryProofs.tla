--------------------------- MODULE LibraryProofs ---------------------------
(***************************************************************************)
(* The ring buffer of kernel/src/std/queue.hh for every capacity and every *)
(* element type: its indices and slots never disagree, and it implements   *)
(* the bounded FIFO; the own_ptrs of kernel/src/std/pointer.hh that go     *)
(* through it: every task has one owner at every step; the words of every  *)
(* command line; and the ranges of every machine's devices.                *)
(***************************************************************************)
EXTENDS MCLibrary, SequenceTheorems, WellFoundedInduction, TLAPS

\* Incrementing an index steps to the next slot and stays within the array.
LEMMA IncrementIsNextSlot ==
  ASSUME TypeOK
  PROVE  /\ increment(i_reader) \in Slots
         /\ increment(i_writer) \in Slots
         /\ \A k \in 0 .. Cap - 1 : Slot(k) \in Slots
         /\ \A k \in 0 .. Cap - 2 :
              Slot(k + 1) = IF increment(i_reader) + k < Cap
                              THEN increment(i_reader) + k
                              ELSE increment(i_reader) + k - Cap
  BY CapAssumption DEF TypeOK, Slots, increment, Slot

\* Distinct distances from the reader are distinct slots.
LEMMA SlotInjective ==
  ASSUME TypeOK, NEW j \in 0 .. Cap - 1, NEW k \in 0 .. Cap - 1, Slot(j) = Slot(k)
  PROVE  j = k
  BY CapAssumption DEF TypeOK, Slots, Slot

\* A function on 1 .. n is a sequence of length n.
LEMMA FunctionIsSeq ==
  ASSUME NEW S, NEW n \in Nat, NEW f \in [1 .. n -> S]
  PROVE  f \in Seq(S) /\ Len(f) = n
  OBVIOUS

\* An empty ring satisfies the invariant.
LEMMA InitRing == Init => RingInv
  <1> SUFFICES ASSUME Init PROVE RingInv
    OBVIOUS
  <1>1. TypeOK
    BY CapAssumption DEF Init, TypeOK, Slots
  <1>2. WriterAhead
    BY CapAssumption DEF Init, WriterAhead, Slot
  <1>3. ExactlyWindowLive
    BY <1>1, CapAssumption, NullAssumption DEF Init, ExactlyWindowLive, Slot, Slots
  <1> QED
    BY <1>1, <1>2, <1>3 DEF RingInv

\* enqueue fills the first slot beyond the window.
LEMMA EnqueueRing ==
  ASSUME RingInv, NEW x \in Thing, enqueue(x)
  PROVE  RingInv'
  <1> USE CapAssumption
  <1>1. TypeOK'
    BY DEF RingInv, TypeOK, enqueue, increment, Slots
  <1>2. WriterAhead'
    BY DEF RingInv, TypeOK, enqueue, WriterAhead, Slot, Slots, increment
  <1>3. ASSUME NEW k \in 0 .. Cap - 1
        PROVE  items'[Slot(k)'] \in Thing <=> k < length_'
    <2>1. Slot(k)' = Slot(k) /\ Slot(k) \in Slots
      BY IncrementIsNextSlot DEF Slot, enqueue, RingInv
    <2>2. length_ \in 0 .. Cap - 1 /\ i_writer = Slot(length_)
      BY DEF RingInv, TypeOK, enqueue, WriterAhead
    <2>3. CASE k = length_
      BY <2>1, <2>2, <2>3 DEF RingInv, TypeOK, enqueue
    <2>4. CASE k # length_
      <3>1. Slot(k) # i_writer
        BY <2>2, <2>4, SlotInjective DEF RingInv
      <3>2. items'[Slot(k)] = items[Slot(k)]
        BY <2>1, <3>1 DEF RingInv, TypeOK, enqueue
      <3> QED
        BY <2>1, <2>2, <2>4, <3>2 DEF RingInv, TypeOK, ExactlyWindowLive, enqueue
    <2> QED
      BY <2>3, <2>4
  <1> QED
    BY <1>1, <1>2, <1>3 DEF RingInv, ExactlyWindowLive

\* dequeue empties the slot under the reader and moves the window by one.
LEMMA TakeRing ==
  ASSUME RingInv, TakeOldest
  PROVE  RingInv'
  <1> USE CapAssumption
  <1>1. TypeOK'
    BY NullAssumption DEF RingInv, TypeOK, TakeOldest, increment, Slots
  <1>2. WriterAhead'
    BY DEF RingInv, TypeOK, TakeOldest, WriterAhead, Slot, Slots, increment
  <1>3. ASSUME NEW k \in 0 .. Cap - 1
        PROVE  items'[Slot(k)'] \in Thing <=> k < length_'
    <2>1. i_reader = Slot(0) /\ i_reader \in Slots /\ length_ \in 1 .. Cap
      BY DEF RingInv, TypeOK, Slot, Slots, TakeOldest
    <2>2. CASE k = Cap - 1
      <3>1. Slot(k)' = i_reader
        BY <2>2 DEF RingInv, TypeOK, Slot, Slots, TakeOldest, increment
      <3>2. items'[i_reader] = null_item
        BY <2>1 DEF RingInv, TypeOK, TakeOldest
      <3> QED
        BY <2>1, <2>2, <3>1, <3>2, NullAssumption DEF TakeOldest
    <2>3. CASE k # Cap - 1
      <3>1. Slot(k)' = Slot(k + 1) /\ k + 1 \in 0 .. Cap - 1
        BY <2>3, IncrementIsNextSlot DEF Slot, TakeOldest, RingInv
      <3>2. Slot(k + 1) # i_reader /\ Slot(k + 1) \in Slots
        BY <2>1, <3>1, SlotInjective, IncrementIsNextSlot DEF RingInv
      <3>3. items'[Slot(k + 1)] = items[Slot(k + 1)]
        BY <3>2 DEF RingInv, TypeOK, TakeOldest
      <3> QED
        BY <2>1, <3>1, <3>3 DEF RingInv, ExactlyWindowLive, TakeOldest
    <2> QED
      BY <2>2, <2>3
  <1> QED
    BY <1>1, <1>2, <1>3 DEF RingInv, ExactlyWindowLive

\* A step that moves no thing keeps the ring as it is.
LEMMA StillRing ==
  ASSUME RingInv, UNCHANGED <<items, length_, i_writer, i_reader, taken>>,
         status' \in {"alive", "failed", "dying", "gone"}
  PROVE  RingInv'
  BY DEF RingInv, TypeOK, WriterAhead, ExactlyWindowLive, Slot, Slots

\* Every step of the queue preserves the ring invariant.
LEMMA NextRing == RingInv /\ [Next]_vars => RingInv'
  <1> SUFFICES ASSUME RingInv, [Next]_vars PROVE RingInv'
    OBVIOUS
  <1>1. ASSUME NEW x \in Thing, enqueue(x) PROVE RingInv'
    BY <1>1, EnqueueRing
  <1>2. CASE dequeue
    BY <1>2, TakeRing DEF dequeue
  <1>3. CASE Overflow \/ Underflow \/ Destroy \/ Destroyed
    BY <1>3, StillRing DEF Overflow, Underflow, Destroy, Destroyed
  <1>4. CASE DestroyOne
    BY <1>4, TakeRing DEF DestroyOne
  <1>5. CASE UNCHANGED vars
    BY <1>5, StillRing DEF vars, RingInv, TypeOK
  <1> QED
    BY <1>1, <1>2, <1>3, <1>4, <1>5 DEF Next

\* In every reachable state the writer is length_ slots ahead of the reader
\* and exactly the slots between them hold a live thing (queue.hh:54-91).
THEOREM RingInvariant == Spec => []RingInv
  BY InitRing, NextRing, PTL DEF Spec

-----------------------------------------------------------------------------
\* Writing behind the window appends to the abstract queue.
LEMMA EnqueuePuts ==
  ASSUME RingInv, NEW x \in Thing, enqueue(x)
  PROVE  Abs!Put(x)
  <1> USE CapAssumption
  <1>1. length_ \in 0 .. Cap - 1 /\ i_writer = Slot(length_)
    BY DEF RingInv, TypeOK, enqueue, WriterAhead
  <1>2. AbstractQueue \in Seq(Thing) /\ Len(AbstractQueue) = length_
    BY <1>1 DEF AbstractQueue, RingInv, ExactlyWindowLive
  <1>3. ASSUME NEW k \in 1 .. length_
        PROVE  items'[Slot(k - 1)'] = items[Slot(k - 1)]
    <2>1. Slot(k - 1)' = Slot(k - 1) /\ k - 1 \in 0 .. Cap - 1 /\ k - 1 # length_
      BY <1>1 DEF Slot, enqueue
    <2>2. Slot(k - 1) # i_writer /\ Slot(k - 1) \in Slots
      BY <1>1, <2>1, SlotInjective, IncrementIsNextSlot DEF RingInv
    <2> QED
      BY <2>1, <2>2 DEF RingInv, TypeOK, enqueue
  <1>4. ASSUME NEW k \in 0 .. Cap - 1, k = length_ PROVE items'[Slot(k)'] = x
    BY <1>1, <1>4, IncrementIsNextSlot DEF RingInv, TypeOK, enqueue, Slot
  <1>5. AbstractQueue' = Append(AbstractQueue, x)
    <2>1. AbstractQueue' = [k \in 1 .. length_ + 1 |-> items'[Slot(k - 1)']]
      BY <1>1 DEF AbstractQueue, enqueue
    <2>2. ASSUME NEW k \in 1 .. length_ + 1
          PROVE  AbstractQueue'[k] \in Thing /\ AbstractQueue'[k] = Append(AbstractQueue, x)[k]
      <3>1. AbstractQueue'[k] = items'[Slot(k - 1)']
        BY <2>1
      <3>2. CASE k = length_ + 1
        <4>1. k - 1 = length_ /\ k - 1 \in 0 .. Cap - 1
          BY <1>1, <3>2
        <4>2. AbstractQueue'[k] = x
          BY <1>4, <3>1, <4>1
        <4>3. Append(AbstractQueue, x)[k] = x
          BY <1>2, <3>2, AppendProperties
        <4> QED
          BY <4>2, <4>3
      <3>3. CASE k # length_ + 1
        <4>1. k \in 1 .. length_
          BY <1>1, <3>3
        <4>2. AbstractQueue'[k] = AbstractQueue[k]
          BY <1>3, <3>1, <4>1, Zenon DEF AbstractQueue
        <4> QED
          BY <1>2, <4>1, <4>2, AppendProperties, ElementOfSeq
      <3> QED
        BY <3>2, <3>3
    <2>3. AbstractQueue' \in Seq(Thing) /\ Len(AbstractQueue') = length_ + 1
      <3>1. AbstractQueue' \in [1 .. length_ + 1 -> Thing]
        BY <2>1, <2>2
      <3>2. length_ + 1 \in Nat
        BY <1>1
      <3> QED
        BY <3>1, <3>2, FunctionIsSeq
    <2> QED
      BY <1>2, <2>2, <2>3, AppendProperties, SeqEqual
  <1> QED
    BY <1>1, <1>2, <1>5 DEF Abs!Put, enqueue

\* Taking from under the reader takes the head of the abstract queue.
LEMMA TakeGets ==
  ASSUME RingInv, TakeOldest, status \in {"alive", "dying"}
  PROVE  Abs!Get
  <1> USE CapAssumption
  <1>1. length_ \in 1 .. Cap /\ length_' = length_ - 1 /\ i_reader = Slot(0) /\ i_reader \in Slots
    BY DEF RingInv, TypeOK, TakeOldest, Slot, Slots
  <1>2. AbstractQueue \in Seq(Thing) /\ Len(AbstractQueue) = length_
    BY <1>1 DEF AbstractQueue, RingInv, ExactlyWindowLive
  <1>3. AbstractQueue # <<>> /\ Head(AbstractQueue) = items[i_reader]
    BY <1>1, <1>2 DEF AbstractQueue
  <1>4. ASSUME NEW k \in 1 .. length_ - 1
        PROVE  items'[Slot(k - 1)'] = items[Slot(k)]
    <2>1. Slot(k - 1)' = Slot(k) /\ k \in 0 .. Cap - 1
      BY <1>1 DEF RingInv, TypeOK, Slot, Slots, TakeOldest, increment
    <2>2. Slot(k) # i_reader /\ Slot(k) \in Slots
      BY <1>1, <2>1, SlotInjective, IncrementIsNextSlot DEF RingInv
    <2> QED
      BY <2>1, <2>2 DEF RingInv, TypeOK, TakeOldest
  <1>5. AbstractQueue' = Tail(AbstractQueue)
    <2>1. AbstractQueue' = [k \in 1 .. length_ - 1 |-> items'[Slot(k - 1)']]
      BY <1>1 DEF AbstractQueue
    <2>2. /\ Tail(AbstractQueue) \in Seq(Thing)
          /\ Len(Tail(AbstractQueue)) = length_ - 1
      BY <1>2, <1>3, HeadTailProperties
    <2>3. ASSUME NEW k \in 1 .. length_ - 1
          PROVE  AbstractQueue'[k] \in Thing /\ AbstractQueue'[k] = Tail(AbstractQueue)[k]
      <3>1. AbstractQueue'[k] = items[Slot(k)]
        BY <1>4, <2>1
      <3>2. AbstractQueue[k + 1] = items[Slot(k)]
        BY <1>1 DEF AbstractQueue
      <3>3. Tail(AbstractQueue)[k] = AbstractQueue[k + 1]
        BY <1>2, <1>3, <2>2, HeadTailProperties
      <3> QED
        BY <1>1, <2>2, <3>1, <3>2, <3>3, ElementOfSeq
    <2>4. AbstractQueue' \in Seq(Thing) /\ Len(AbstractQueue') = length_ - 1
      <3>1. AbstractQueue' \in [1 .. length_ - 1 -> Thing]
        BY <2>1, <2>3
      <3>2. length_ - 1 \in Nat
        BY <1>1
      <3> QED
        BY <3>1, <3>2, FunctionIsSeq
    <2> QED
      BY <2>2, <2>3, <2>4, SeqEqual
  <1> QED
    BY <1>3, <1>5 DEF Abs!Get, TakeOldest

\* A step that leaves the ring alone leaves the abstract queue alone.
LEMMA StillAbstract ==
  ASSUME UNCHANGED <<items, length_, i_reader>>
  PROVE  AbstractQueue' = AbstractQueue
  BY DEF AbstractQueue, Slot

\* Overflow and underflow happen exactly when the abstract queue is full or empty.
LEMMA AbstractLength ==
  ASSUME RingInv
  PROVE  Len(AbstractQueue) = length_ /\ (AbstractQueue = <<>> <=> length_ = 0)
  <1>1. length_ \in Nat
    BY CapAssumption DEF RingInv, TypeOK
  <1>2. Len(AbstractQueue) = length_ /\ AbstractQueue \in [1 .. length_ -> {items[Slot(k - 1)] : k \in 1 .. length_}]
    BY <1>1 DEF AbstractQueue
  <1> QED
    BY <1>1, <1>2 DEF AbstractQueue

\* The ring buffer is a bounded first-in first-out queue (queue.hh:54-95).
THEOREM RingImplementsFifo == Spec => ImplementsFifo
  <1>1. Init => Abs!FifoInit
    <2> SUFFICES ASSUME Init PROVE Abs!FifoInit
      OBVIOUS
    <2>1. AbstractQueue = <<>>
      BY InitRing, AbstractLength DEF Init
    <2> QED
      BY <2>1 DEF Init, Abs!FifoInit
  <1>2. RingInv /\ [Next]_vars => [Abs!FifoNext]_(Abs!fifoVars)
    <2> SUFFICES ASSUME RingInv, [Next]_vars PROVE [Abs!FifoNext]_(Abs!fifoVars)
      OBVIOUS
    <2>1. ASSUME NEW x \in Thing, enqueue(x) PROVE Abs!FifoNext
      BY <2>1, EnqueuePuts DEF Abs!FifoNext
    <2>2. CASE dequeue \/ DestroyOne
      BY <2>2, TakeGets DEF dequeue, DestroyOne, Abs!FifoNext
    <2>3. CASE Overflow \/ Underflow
      BY <2>3, StillAbstract, AbstractLength DEF Overflow, Underflow, Abs!Fail, Abs!FifoNext
    <2>4. CASE Destroy
      BY <2>4, StillAbstract DEF Destroy, Abs!Destroy, Abs!FifoNext
    <2>5. CASE Destroyed
      BY <2>5, StillAbstract, AbstractLength DEF Destroyed, Abs!Destroyed, Abs!FifoNext
    <2>6. CASE UNCHANGED vars
      BY <2>6, StillAbstract DEF vars, Abs!fifoVars
    <2> QED
      BY <2>1, <2>2, <2>3, <2>4, <2>5, <2>6 DEF Next
  <1> QED
    BY <1>1, <1>2, RingInvariant, PTL DEF Spec, ImplementsFifo, Abs!FifoSpec

-----------------------------------------------------------------------------
(* Tasks in own_ptrs and in the slots of the queue.                        *)

\* No two own_ptrs, and no two slots, hold the same task.
HeldOnce == \A h, g \in Holder : own[h] = own[g] /\ own[h] # nullptr => h = g
WaitingOnce == \A i, j \in Slots : items[i] = items[j] /\ items[i] # null_item => i = j

\* enqueue adds a task that does not wait yet to those that do.
LEMMA EnqueueWaits ==
  ASSUME RingInv, WaitingOnce, NEW x \in Thing, x \notin Waiting, enqueue(x)
  PROVE  Waiting' = Waiting \cup {x} /\ WaitingOnce'
  <1>1. length_ \in 0 .. Cap - 1 /\ i_writer = Slot(length_) /\ i_writer \in Slots
    BY CapAssumption DEF RingInv, TypeOK, enqueue, WriterAhead
  <1>2. items[i_writer] = null_item
    BY <1>1 DEF RingInv, TypeOK, ExactlyWindowLive
  <1>3. /\ items \in [Slots -> Thing \cup {null_item}]
        /\ items' = [items EXCEPT ![i_writer] = x]
    BY DEF RingInv, TypeOK, enqueue
  <1>4. Waiting' = Waiting \cup {x}
    BY <1>1, <1>2, <1>3, NullAssumption DEF Waiting
  <1>5. WaitingOnce'
    BY <1>1, <1>3 DEF WaitingOnce, Waiting
  <1> QED
    BY <1>4, <1>5

\* dequeue takes a waiting task from those that wait.
LEMMA DequeueWaits ==
  ASSUME RingInv, WaitingOnce, TakeOldest
  PROVE  /\ items[i_reader] \in Thing /\ items[i_reader] \in Waiting
         /\ Waiting' = Waiting \ {items[i_reader]} /\ WaitingOnce'
  <1>1. i_reader = Slot(0) /\ i_reader \in Slots /\ 0 \in 0 .. Cap - 1 /\ 0 < length_
    BY CapAssumption DEF RingInv, TypeOK, TakeOldest, Slot, Slots
  <1>2. items[i_reader] \in Thing
    BY <1>1 DEF RingInv, ExactlyWindowLive
  <1>3. /\ items \in [Slots -> Thing \cup {null_item}]
        /\ items' = [items EXCEPT ![i_reader] = null_item]
    BY DEF RingInv, TypeOK, TakeOldest
  <1>4. items[i_reader] \in Waiting
    BY <1>1, <1>2, NullAssumption DEF Waiting
  <1>5. Waiting' = Waiting \ {items[i_reader]}
    BY <1>1, <1>2, <1>3, NullAssumption DEF Waiting, WaitingOnce
  <1>6. WaitingOnce'
    BY <1>1, <1>3 DEF WaitingOnce
  <1> QED
    BY <1>2, <1>4, <1>5, <1>6

\* A queue that is left alone keeps who waits.
LEMMA StillWaits ==
  ASSUME UNCHANGED vars
  PROVE  Waiting' = Waiting /\ (WaitingOnce => WaitingOnce') /\ (RingInv => RingInv')
  BY StillRing DEF vars, Waiting, WaitingOnce, RingInv, TypeOK

\* A move into an own_ptr that holds nothing loses no task and copies none.
LEMMA MoveKeeps ==
  ASSUME OwnTypeOK, HeldOnce, NEW h \in Holder, NEW g \in Holder, h # g, own[g] = nullptr,
         own' = Moved(own, h, g)
  PROVE  Held' = Held /\ HeldOnce' /\ own' \in [Holder -> Thing \cup {nullptr}]
  <1>1. own' = [[own EXCEPT ![g] = own[h]] EXCEPT ![h] = nullptr]
    BY DEF OwnTypeOK, Moved, Released
  <1>2. own' \in [Holder -> Thing \cup {nullptr}]
    BY <1>1 DEF OwnTypeOK
  <1>3. \A k \in Holder : own'[k] = IF k = h THEN nullptr ELSE IF k = g THEN own[h] ELSE own[k]
    BY <1>1 DEF OwnTypeOK
  <1>4. Held' = Held
    BY <1>3 DEF Held
  <1>5. HeldOnce'
    BY <1>3 DEF HeldOnce
  <1> QED
    BY <1>2, <1>4, <1>5

\* An own_ptr that held nothing gets a task that no other holds.
LEMMA GainKeeps ==
  ASSUME OwnTypeOK, HeldOnce, NEW g \in Holder, own[g] = nullptr, NEW x \in Thing, x \notin Held,
         own' = [own EXCEPT ![g] = x]
  PROVE  Held' = Held \cup {x} /\ HeldOnce' /\ own' \in [Holder -> Thing \cup {nullptr}]
  <1>1. own' \in [Holder -> Thing \cup {nullptr}]
    BY DEF OwnTypeOK
  <1>2. \A k \in Holder : own'[k] = IF k = g THEN x ELSE own[k]
    BY DEF OwnTypeOK
  <1>3. Held' = Held \cup {x}
    BY <1>2, NullptrAssumption DEF Held
  <1>4. HeldOnce'
    BY <1>2 DEF HeldOnce, Held
  <1> QED
    BY <1>1, <1>3, <1>4

\* An own_ptr gives up its task.
LEMMA LoseKeeps ==
  ASSUME OwnTypeOK, HeldOnce, NEW h \in Holder, own[h] # nullptr,
         own' = [own EXCEPT ![h] = nullptr]
  PROVE  Held' = Held \ {own[h]} /\ HeldOnce' /\ own' \in [Holder -> Thing \cup {nullptr}]
  <1>1. own' \in [Holder -> Thing \cup {nullptr}]
    BY DEF OwnTypeOK
  <1>2. \A k \in Holder : own'[k] = IF k = h THEN nullptr ELSE own[k]
    BY DEF OwnTypeOK
  <1>3. Held' = Held \ {own[h]}
    BY <1>2 DEF Held, HeldOnce
  <1>4. HeldOnce'
    BY <1>2 DEF HeldOnce
  <1> QED
    BY <1>1, <1>3, <1>4

\* Destroying own_ptrs that hold nothing deletes nothing.
LEMMA EndKeeps ==
  ASSUME OwnTypeOK, NEW hs \in SUBSET Holder, \A h \in hs : own[h] = nullptr, End(hs)
  PROVE  own' = own /\ live' = live
  <1>1. live' = live
    BY NullptrAssumption DEF End, OwnTypeOK
  <1>2. own' = own
    BY DEF End, OwnTypeOK
  <1> QED
    BY <1>1, <1>2

\* A step of a call that leaves the queue alone and moves its task on.
LEMMA StepOwned ==
  ASSUME OwnInv, caller # "none", QueueAlone, OwnTypeOK', Placed', HeldOnce',
         live' = live, Held' = Held
  PROVE  OwnInv'
  <1>1. Waiting' = Waiting /\ WaitingOnce' /\ RingInv'
    BY StillWaits DEF OwnInv, OwnedOnce, WaitingOnce, QueueAlone
  <1>2. step' = "idle" /\ caller' = "syscall" => Held' = {own'["current_task_"]}
    BY DEF OwnTypeOK, Placed, Holding, Held, Holder
  <1>3. OwnedOnce'
    BY <1>1, <1>2 DEF OwnInv, OwnedOnce, HeldOnce, WaitingOnce
  <1> QED
    BY <1>1, <1>3 DEF OwnInv

\* Where a call has its task, action by action: a move takes it along.
LEMMA MoveOwned ==
  ASSUME OwnInv, caller # "none", QueueAlone, UNCHANGED live,
         NEW h \in Holder, NEW g \in Holder, h # g, own[g] = nullptr, own' = Moved(own, h, g),
         tag' \in BOOLEAN, caller' \in {"first", "second", "syscall"}, step' \in Steps, Placed'
  PROVE  OwnInv'
  <1>1. OwnTypeOK /\ HeldOnce
    BY DEF OwnInv, OwnedOnce, HeldOnce
  <1>2. Held' = Held /\ HeldOnce' /\ own' \in [Holder -> Thing \cup {nullptr}]
    BY <1>1, MoveKeeps
  <1>3. OwnTypeOK'
    BY <1>1, <1>2 DEF OwnTypeOK
  <1> QED
    BY <1>2, <1>3, StepOwned

\* A call goes on without its task, or with it where it is.
LEMMA RestOwned ==
  ASSUME OwnInv, caller # "none", QueueAlone, UNCHANGED <<own, live>>,
         tag' \in BOOLEAN, caller' \in {"first", "second", "syscall"}, step' \in Steps, Placed'
  PROVE  OwnInv'
  <1>1. OwnTypeOK /\ HeldOnce
    BY DEF OwnInv, OwnedOnce, HeldOnce
  <1>2. Held' = Held /\ HeldOnce' /\ OwnTypeOK'
    BY <1>1 DEF Held, HeldOnce, OwnTypeOK
  <1> QED
    BY <1>2, StepOwned

\* A new task is in the loader's hands alone.
LEMMA NewOwned ==
  ASSUME OwnInv, caller # "none", step = "idle", QueueAlone, NewTask, step' = "right",
         UNCHANGED <<tag, caller>>
  PROVE  OwnInv'
  <1>1. OwnTypeOK /\ HeldOnce /\ Placed /\ RingInv /\ live = Held \cup Waiting
        /\ Held \cap Waiting = {} /\ WaitingOnce
    BY DEF OwnInv, OwnedOnce, HeldOnce, WaitingOnce
  <1>2. PICK t \in Thing \ live : live' = live \cup {t} /\ own' = [own EXCEPT !["task"] = t]
    BY DEF NewTask
  <1>3. own["task"] = nullptr /\ "task" \in Holder
    BY <1>1 DEF Placed, Holding, Holder
  <1>4. Held' = Held \cup {t} /\ HeldOnce' /\ own' \in [Holder -> Thing \cup {nullptr}]
    BY <1>1, <1>2, <1>3, GainKeeps
  <1>5. Waiting' = Waiting /\ WaitingOnce' /\ RingInv'
    BY <1>1, StillWaits DEF QueueAlone
  <1>6. OwnTypeOK'
    BY <1>1, <1>2, <1>4 DEF OwnTypeOK, Steps
  <1>7. Placed'
    BY <1>1, <1>2, NullptrAssumption DEF Placed, Holding, Holder, OwnTypeOK
  <1>8. OwnedOnce'
    BY <1>1, <1>2, <1>4, <1>5 DEF OwnedOnce, HeldOnce, WaitingOnce
  <1> QED
    BY <1>5, <1>6, <1>7, <1>8 DEF OwnInv

\* A task leaves an own_ptr for the queue: it is enqueued and let go.
LEMMA EnqueueOwned ==
  ASSUME OwnInv, caller # "none", NEW h \in Holder, own[h] # nullptr, enqueue(own[h]),
         own' = [own EXCEPT ![h] = Released(@)], UNCHANGED <<live, tag, caller>>,
         step' \in Steps \ {"idle"}, Placed'
  PROVE  OwnInv'
  <1>1. OwnTypeOK /\ HeldOnce /\ RingInv /\ live = Held \cup Waiting
        /\ Held \cap Waiting = {} /\ WaitingOnce
    BY DEF OwnInv, OwnedOnce, HeldOnce, WaitingOnce
  <1>2. own[h] \in Thing /\ own[h] \in Held
    BY <1>1 DEF OwnTypeOK, Held
  <1>3. own' = [own EXCEPT ![h] = nullptr]
    BY DEF Released
  <1>4. Held' = Held \ {own[h]} /\ HeldOnce' /\ own' \in [Holder -> Thing \cup {nullptr}]
    BY <1>1, <1>3, LoseKeeps
  <1>5. Waiting' = Waiting \cup {own[h]} /\ WaitingOnce'
    BY <1>1, <1>2, EnqueueWaits
  <1>6. RingInv'
    BY <1>1, <1>2, EnqueueRing
  <1>7. OwnTypeOK'
    BY <1>1, <1>4 DEF OwnTypeOK
  <1>8. OwnedOnce'
    BY <1>1, <1>2, <1>4, <1>5 DEF OwnedOnce, HeldOnce, WaitingOnce
  <1> QED
    BY <1>6, <1>7, <1>8 DEF OwnInv

\* The oldest task leaves its slot for dequeue's own_ptr.
LEMMA DequeueOwned == OwnInv /\ caller # "none" /\ Dequeue => OwnInv'
  <1> SUFFICES ASSUME OwnInv, caller # "none", Dequeue PROVE OwnInv'
    OBVIOUS
  <1>1. OwnTypeOK /\ HeldOnce /\ Placed /\ RingInv /\ live = Held \cup Waiting
        /\ Held \cap Waiting = {} /\ WaitingOnce
    BY DEF OwnInv, OwnedOnce, HeldOnce, WaitingOnce
  <1>2. TakeOldest /\ RingInv'
    BY <1>1, TakeRing DEF Dequeue, dequeue
  <1> DEFINE t == items[i_reader]
  <1>3. t \in Thing /\ t \in Waiting /\ Waiting' = Waiting \ {t} /\ WaitingOnce'
    BY <1>1, <1>2, DequeueWaits
  <1> HIDE DEF t
  <1>4. own["item"] = nullptr /\ "item" \in Holder
    BY <1>1 DEF Placed, Holding, Holder, Dequeue, At
  <1>5. own' = [own EXCEPT !["item"] = t] /\ live' = live
    BY <1>1, NullptrAssumption DEF Dequeue, Released, OwnTypeOK, t
  <1>6. Held' = Held \cup {t} /\ HeldOnce' /\ own' \in [Holder -> Thing \cup {nullptr}]
    BY <1>1, <1>3, <1>4, <1>5, GainKeeps
  <1>7. OwnTypeOK'
    BY <1>1, <1>5, <1>6 DEF OwnTypeOK, Dequeue, At, Steps
  <1>8. Placed'
    BY <1>1, <1>3, <1>5, NullptrAssumption DEF Placed, Holding, Holder, OwnTypeOK, Dequeue, At
  <1>9. OwnedOnce'
    BY <1>1, <1>3, <1>5, <1>6 DEF OwnedOnce, HeldOnce, WaitingOnce, Dequeue, At
  <1> QED
    BY <1>2, <1>7, <1>8, <1>9 DEF OwnInv

\* Every step of a call preserves the invariant.
LEMMA TaskOwned == OwnInv /\ caller # "none" /\ TaskNext => OwnInv'
  <1> SUFFICES ASSUME OwnInv, caller # "none", TaskNext PROVE OwnInv'
    OBVIOUS
  <1> USE DEF At, Steps
  <1>i. OwnTypeOK /\ Placed
    BY DEF OwnInv
  <1>1. CASE from_elf
    <2>1. CASE At("idle", "right") /\ NewTask /\ UNCHANGED tag
      BY <1>1, <2>1, NewOwned DEF from_elf
    <2>2. CASE At("idle", "then_do") /\ tag' = FALSE /\ UNCHANGED <<own, live>>
      <3>1. Placed'
        BY <1>1, <1>i, <2>2 DEF Placed, Holding, Holder, from_elf
      <3> QED
        BY <1>1, <1>i, <2>2, <3>1, RestOwned DEF from_elf, OwnTypeOK
    <2> QED
      BY <1>1, <2>1, <2>2 DEF from_elf
  <1>2. CASE make_thread
    BY <1>2, NewOwned DEF make_thread
  <1>3. CASE Right
    <2>1. own["hint"] = nullptr /\ {"task", "hint"} \subseteq Holder
      BY <1>3, <1>i DEF Placed, Holding, Holder, Right
    <2>2. Placed'
      BY <1>3, <1>i DEF Placed, Holding, Holder, Right, Moved, Released, OwnTypeOK
    <2> QED
      BY <1>3, <1>i, <2>1, <2>2, MoveOwned DEF Right, OwnTypeOK
  <1>4. CASE Either
    <2>1. own["either"] = nullptr /\ {"hint", "either"} \subseteq Holder
      BY <1>4, <1>i DEF Placed, Holding, Holder, Either
    <2>2. Placed'
      BY <1>4, <1>i DEF Placed, Holding, Holder, Either, AssignRight, Moved, Released, OwnTypeOK
    <2> QED
      BY <1>4, <1>i, <2>1, <2>2, MoveOwned DEF Either, AssignRight, OwnTypeOK
  <1>5. CASE Return
    <2>1. own["task"] = nullptr /\ own["hint"] = nullptr /\ {"task", "hint"} \subseteq Holder
      BY <1>5, <1>i DEF Placed, Holding, Holder, Return
    <2>2. own' = own /\ live' = live
      BY <1>5, <1>i, <2>1, EndKeeps DEF Return
    <2>3. Placed'
      BY <1>5, <1>i, <2>2 DEF Placed, Holding, Holder, Return
    <2> QED
      BY <1>5, <1>i, <2>2, <2>3, RestOwned DEF Return, OwnTypeOK
  <1>6. CASE then_do
    <2>1. CASE ~tag /\ At("then_do", "done") /\ UNCHANGED own
      <3>1. Placed'
        BY <1>6, <1>i, <2>1 DEF Placed, Holding, Holder, then_do
      <3> QED
        BY <1>6, <1>i, <2>1, <3>1, RestOwned DEF then_do, OwnTypeOK
    <2>2. CASE /\ tag /\ At("then_do", IF caller = "second" THEN "exec_task" ELSE "add_task")
               /\ own' = Moved(own, "either", "arg")
      <3>1. own["arg"] = nullptr /\ {"either", "arg"} \subseteq Holder
        BY <1>i, <2>2 DEF Placed, Holding, Holder
      <3>2. Placed'
        BY <1>6, <1>i, <2>2 DEF Placed, Holding, Holder, then_do, Moved, Released, OwnTypeOK
      <3> QED
        BY <1>6, <1>i, <2>2, <3>1, <3>2, MoveOwned DEF then_do, OwnTypeOK
    <2> QED
      BY <1>6, <2>1, <2>2 DEF then_do
  <1>7. CASE add_task
    <2>1. own["arg"] # nullptr /\ "arg" \in Holder
      BY <1>7, <1>i DEF Placed, Holding, Holder, add_task
    <2>2. CASE At("add_task", "added") /\ enqueue(own["arg"]) /\ own' = [own EXCEPT !["arg"] = Released(@)]
      <3>1. Placed'
        BY <1>7, <1>i, <2>2 DEF Placed, Holding, Holder, add_task, Released, OwnTypeOK
      <3> QED
        BY <1>7, <1>i, <2>1, <2>2, <3>1, EnqueueOwned DEF add_task
    <2>3. CASE At("add_task", "failed") /\ Overflow /\ UNCHANGED own
      <3>1. Placed' /\ OwnTypeOK' /\ RingInv'
        BY <1>7, <1>i, <2>3, StillRing DEF Placed, Holding, add_task, OwnTypeOK, OwnInv, Overflow
      <3>2. Held' = Held /\ Waiting' = Waiting
        BY <2>3 DEF Held, Waiting, Overflow
      <3>3. OwnedOnce'
        BY <1>7, <2>3, <3>2 DEF OwnInv, OwnedOnce, add_task, Overflow
      <3> QED
        BY <3>1, <3>3 DEF OwnInv
    <2> QED
      BY <1>7, <2>2, <2>3 DEF add_task
  <1>8. CASE Added
    <2>1. own["arg"] = nullptr /\ "arg" \in Holder
      BY <1>8, <1>i DEF Placed, Holding, Holder, Added
    <2>2. own' = own /\ live' = live
      BY <1>8, <1>i, <2>1, EndKeeps DEF Added
    <2>3. Placed'
      BY <1>8, <1>i, <2>2 DEF Placed, Holding, Holder, Added
    <2> QED
      BY <1>8, <1>i, <2>2, <2>3, RestOwned DEF Added, OwnTypeOK
  <1>9. CASE exec_task
    <2>1. own["current_task_"] = nullptr /\ {"arg", "current_task_"} \subseteq Holder
      BY <1>9 DEF exec_task, Holder
    <2>2. Placed'
      BY <1>9, <1>i DEF Placed, Holding, Holder, exec_task, Moved, Released, OwnTypeOK
    <2> QED
      BY <1>9, <1>i, <2>1, <2>2, MoveOwned DEF exec_task, OwnTypeOK
  <1>10. CASE Done
    <2>1. own["either"] = nullptr /\ "either" \in Holder
      BY <1>10, <1>i DEF Placed, Holding, Holder, Done
    <2>2. own' = own
      BY <1>10, <1>i, <2>1 DEF Done, OwnTypeOK
    <2>3. Placed'
      BY <1>10, <1>i, <2>2 DEF Placed, Holding, Holder, Done
    <2>4. caller' \in {"first", "second", "syscall"} /\ tag' \in BOOLEAN /\ step' \in Steps
      BY <1>10, <1>i DEF Done, OwnTypeOK
    <2> QED
      BY <1>10, <1>i, <2>2, <2>3, <2>4, RestOwned DEF Done
  <1>11. CASE Dequeue
    BY <1>11, DequeueOwned
  <1>12. CASE Dequeued
    <2>1. own["arg"] = nullptr /\ {"item", "arg"} \subseteq Holder
      BY <1>12, <1>i DEF Placed, Holding, Holder, Dequeued
    <2>2. own' = Moved(own, "item", "arg") /\ live' = live
      BY <1>12, <1>i, NullptrAssumption DEF Dequeued, Moved, Released, OwnTypeOK
    <2>3. Placed'
      BY <1>12, <1>i, <2>2 DEF Placed, Holding, Holder, Dequeued, Moved, Released, OwnTypeOK
    <2> QED
      BY <1>12, <1>i, <2>1, <2>2, <2>3, MoveOwned DEF Dequeued, OwnTypeOK
  <1>13. CASE switch_task
    <2>1. own["current_task_"] # nullptr /\ "current_task_" \in Holder
      BY <1>13, <1>i DEF Placed, Holding, Holder, switch_task
    <2>2. Placed'
      BY <1>13, <1>i DEF Placed, Holding, Holder, switch_task, Released, OwnTypeOK
    <2> QED
      BY <1>13, <1>i, <2>1, <2>2, EnqueueOwned DEF switch_task
  <1>14. CASE Switched
    <2>1. own["current_task_"] = nullptr /\ {"arg", "current_task_"} \subseteq Holder
      BY <1>14, <1>i DEF Placed, Holding, Holder, Switched
    <2>2. own' = Moved(own, "arg", "current_task_") /\ live' = live
      BY <1>14, <1>i, NullptrAssumption DEF Switched, Moved, Released, OwnTypeOK
    <2>3. Placed'
      BY <1>14, <1>i, <2>2 DEF Placed, Holding, Holder, Switched, Moved, Released, OwnTypeOK
    <2> QED
      BY <1>14, <1>i, <2>1, <2>2, <2>3, MoveOwned DEF Switched, OwnTypeOK
  <1> QED
    BY <1>1, <1>2, <1>3, <1>4, <1>5, <1>6, <1>7, <1>8, <1>9, <1>10, <1>11, <1>12, <1>13, <1>14 DEF TaskNext

\* At every step the tasks on the heap are those that one own_ptr or one slot
\* of the queue holds (pointer.hh:49-62, queue.hh:64-91, sched.cc:49-78).
THEOREM OwnedOnceHolds == OwnSpec => []OwnedOnce
  <1>1. OwnInit => OwnInv
    <2> SUFFICES ASSUME OwnInit PROVE OwnInv
      OBVIOUS
    <2>1. RingInv
      BY InitRing DEF OwnInit
    <2>2. (OwnTypeOK /\ Placed) \/ caller = "none"
      BY DEF OwnInit, OwnTypeOK, Placed, Holding, Steps
    <2>3. OwnedOnce
      BY DEF OwnInit, Init, OwnedOnce, Held, Waiting
    <2> QED
      BY <2>1, <2>2, <2>3 DEF OwnInv
  <1>2. OwnInv /\ [OwnNext]_<<vars, ownVars>> => OwnInv'
    <2> SUFFICES ASSUME OwnInv, [OwnNext]_<<vars, ownVars>> PROVE OwnInv'
      OBVIOUS
    <2>1. CASE caller = "none" /\ Next /\ UNCHANGED ownVars
      BY <2>1, NextRing DEF OwnInv, ownVars
    <2>2. CASE caller # "none" /\ TaskNext
      BY <2>2, TaskOwned
    <2>3. CASE UNCHANGED <<vars, ownVars>>
      <3>1. RingInv' /\ Waiting' = Waiting
        BY <2>3, StillWaits DEF OwnInv
      <3> QED
        <4>1. UNCHANGED ownVars /\ items' = items
          BY <2>3 DEF vars
        <4>2. /\ OwnTypeOK => OwnTypeOK'
              /\ Placed => Placed'
              /\ caller' = caller
          BY <4>1 DEF OwnTypeOK, Placed, Holding, ownVars
        <4>3. OwnedOnce => OwnedOnce'
          BY <3>1, <4>1 DEF OwnedOnce, Held, ownVars
        <4> QED
          BY <3>1, <4>2, <4>3 DEF OwnInv
    <2> QED
      BY <2>1, <2>2, <2>3 DEF OwnNext
  <1>3. OwnInv => OwnedOnce
    BY DEF OwnInv, OwnedOnce
  <1> QED
    BY <1>1, <1>2, <1>3, PTL DEF OwnSpec

-----------------------------------------------------------------------------
\* A set of numbers has a least element.
LEMMA Least ==
  ASSUME NEW S, S \subseteq Nat, S # {}
  PROVE  \E m \in S : \A k \in S : m =< k
<1>1. PICK m \in S : \A k \in S : <<k, m>> \notin OpToRel(<, Nat)
  BY NatLessThanWellFounded, WFMin, Zenon
<1>2. \A k \in S : ~ k < m BY <1>1, Zenon DEF OpToRel
<1> QED BY <1>2

\* Min is the least element, of a set of numbers that has one.
LEMMA MinIs ==
  ASSUME NEW S, S \subseteq Nat, S # {}
  PROVE  Min(S) \in S /\ \A k \in S : Min(S) =< k
<1>1. \E m \in S : \A k \in S : m =< k BY Least
<1>2. Min(S) = CHOOSE x \in S : \A k \in S : x =< k BY DEF Min
<1> QED BY <1>1, <1>2

\* Max is the greatest element, of a set of numbers with a bound.
LEMMA MaxIs ==
  ASSUME NEW n \in Nat, NEW S, S \subseteq 0 .. n, S # {}
  PROVE  Max(S) \in S /\ \A k \in S : Max(S) >= k
<1> DEFINE T == {n - k : k \in S}
<1>1. T \subseteq Nat /\ T # {}
  <2>1. \A k \in S : k \in 0 .. n OBVIOUS
  <2>2. \A k \in S : n - k \in Nat BY <2>1
  <2> QED BY <2>2
<1>2. PICK m \in T : \A k \in T : m =< k BY <1>1, Least
<1>3. PICK x \in S : m = n - x BY <1>2
<1>4. \A k \in S : x >= k BY <1>2, <1>3
<1>5. Max(S) = CHOOSE y \in S : \A k \in S : y >= k BY DEF Max
<1> QED BY <1>4, <1>5

-----------------------------------------------------------------------------
(* The words of a command line (cmdline.hh, std/string.hh).                *)

\* What comes before the first difference of two texts.
LEMMA AlikeIs ==
  ASSUME NEW C, NEW s1 \in Seq(C), NEW s2 \in Seq(C), NEW n \in Nat
  PROVE  /\ Alike(s1, s2, n) \in 0 .. n
         /\ Alike(s1, s2, n) =< Len(s1) /\ Alike(s1, s2, n) =< Len(s2)
         /\ \A j \in 1 .. Alike(s1, s2, n) : s1[j] = s2[j]
         /\ Alike(s1, s2, n) < n /\ Alike(s1, s2, n) < Len(s1) /\ Alike(s1, s2, n) < Len(s2)
              => s1[Alike(s1, s2, n) + 1] # s2[Alike(s1, s2, n) + 1]
<1> DEFINE S == {k \in 0 .. n : k =< Len(s1) /\ k =< Len(s2) /\ \A j \in 1 .. k : s1[j] = s2[j]}
           k == Alike(s1, s2, n)
<1>1. S \subseteq 0 .. n /\ 0 \in S OBVIOUS
<1>2. k = Max(S) BY DEF Alike
<1> HIDE DEF k, S
<1>3. k \in S /\ \A x \in S : k >= x BY <1>1, <1>2, MaxIs
<1>4. k \in 0 .. n /\ k =< Len(s1) /\ k =< Len(s2) /\ \A j \in 1 .. k : s1[j] = s2[j] BY <1>3 DEF S
<1>5. ASSUME k < n, k < Len(s1), k < Len(s2), s1[k + 1] = s2[k + 1] PROVE FALSE
  <2>1. k + 1 \in S BY <1>4, <1>5 DEF S
  <2> QED BY <1>3, <1>4, <2>1
<1> QED BY <1>4, <1>5 DEF k

\* str_prefix_of says what its name says, of texts without null characters.
LEMMA PrefixIs ==
  ASSUME NEW C, NUL \notin C, NEW key \in Seq(C), NEW s \in Seq(C)
  PROVE  str_prefix_of(key, s) <=> Len(key) =< Len(s) /\ \A j \in 1 .. Len(key) : key[j] = s[j]
<1> DEFINE k == Alike(key, s, Len(key))
<1>1. /\ k \in 0 .. Len(key) /\ k =< Len(s)
      /\ \A j \in 1 .. k : key[j] = s[j]
      /\ k < Len(key) /\ k < Len(s) => key[k + 1] # s[k + 1]
  BY AlikeIs
<1>2. str_prefix_of(key, s) <=> Char(key, k + 1) = NUL \/ Char(key, k + 1) = Char(s, k + 1)
  BY Zenon DEF str_prefix_of
<1> HIDE DEF k
<1>3. CASE k = Len(key)
  BY <1>1, <1>2, <1>3 DEF Char
<1>4. CASE k < Len(key)
  <2>1. Char(key, k + 1) = key[k + 1] /\ key[k + 1] \in C BY <1>1, <1>4 DEF Char
  <2>2. CASE k < Len(s)
    <3>1. Char(s, k + 1) = s[k + 1] BY <1>1, <2>2 DEF Char
    <3>2. ~ str_prefix_of(key, s) BY <1>1, <1>2, <1>4, <2>1, <2>2, <3>1
    <3>3. k + 1 \in 1 .. Len(key) /\ key[k + 1] # s[k + 1] BY <1>1, <1>4, <2>2
    <3> QED BY <3>2, <3>3
  <2>3. CASE k = Len(s)
    <3>1. Char(s, k + 1) = NUL BY <1>1, <2>3 DEF Char
    <3>2. ~ str_prefix_of(key, s) BY <1>2, <2>1, <3>1, Zenon
    <3>3. ~ Len(key) =< Len(s) BY <1>4, <2>3
    <3> QED BY <3>2, <3>3
  <2> QED BY <1>1, <2>2, <2>3
<1> QED BY <1>1, <1>3, <1>4

(* The beginning and the end of a word, and a key that is the word at i.   *)
Starts(line, i) == i = 1 \/ isspace(line[i - 1])
Ends(line, k)   == k = Len(line) \/ isspace(line[k + 1])

Stands(key, line, i) ==
  /\ i + Len(key) =< Len(line) + 1 /\ \A j \in 1 .. Len(key) : key[j] = line[i + j - 1]
  /\ Ends(line, i + Len(key) - 1)

(* What get_flag asks at a place, and the place it goes on from.           *)
Here(key, line, i) ==
  /\ str_prefix_of(key, SubSeq(line, i, Len(line)))
  /\ Char(line, i + Len(key)) = NUL \/ isspace(Char(line, i + Len(key)))

After(line, i) == Skip(TRUE, line, Skip(FALSE, line, i))

\* get_flag's question at a place is whether the key is a word's end there.
LEMMA HereIs ==
  ASSUME NEW C, NUL \notin C, NEW key \in Seq(C), NEW line \in Seq(C), NEW i \in 1 .. Len(line)
  PROVE  Here(key, line, i) <=> Stands(key, line, i)
<1> DEFINE rest == SubSeq(line, i, Len(line))
<1>1. rest \in Seq(C) /\ Len(rest) = Len(line) + 1 - i
      /\ \A j \in 1 .. Len(rest) : rest[j] = line[i + j - 1]
  OBVIOUS
<1> HIDE DEF rest
<1>2. str_prefix_of(key, rest) <=> Len(key) =< Len(rest) /\ \A j \in 1 .. Len(key) : key[j] = rest[j]
  BY <1>1, PrefixIs
<1>3. str_prefix_of(key, rest) <=>
        i + Len(key) =< Len(line) + 1 /\ \A j \in 1 .. Len(key) : key[j] = line[i + j - 1]
  BY <1>1, <1>2
<1>4. ASSUME i + Len(key) =< Len(line) + 1
      PROVE  Char(line, i + Len(key)) = NUL \/ isspace(Char(line, i + Len(key)))
               <=> Ends(line, i + Len(key) - 1)
  <2>1. CASE i + Len(key) = Len(line) + 1 BY <2>1 DEF Char, Ends
  <2>2. CASE i + Len(key) =< Len(line)
    <3>1. Char(line, i + Len(key)) = line[i + Len(key)] /\ line[i + Len(key)] \in C
      BY <2>2 DEF Char
    <3>2. (i + Len(key) - 1) + 1 = i + Len(key) /\ i + Len(key) - 1 # Len(line) BY <2>2
    <3> QED BY <3>1, <3>2 DEF Ends
  <2> QED BY <1>4, <2>1, <2>2
<1> QED BY <1>3, <1>4 DEF Here, Stands, rest

\* Skip stops where its name says, and what it passes over is alike.
LEMMA SkipIs ==
  ASSUME NEW C, NEW line \in Seq(C), NEW i \in 1 .. Len(line) + 1, NEW spaces \in BOOLEAN
  PROVE  /\ Skip(spaces, line, i) \in i .. Len(line) + 1
         /\ Skip(spaces, line, i) =< Len(line) => isspace(line[Skip(spaces, line, i)]) # spaces
         /\ \A k \in i .. Skip(spaces, line, i) - 1 : isspace(line[k]) = spaces
<1> DEFINE S == {k \in i .. Len(line) + 1 : k > Len(line) \/ isspace(line[k]) # spaces}
           m == Skip(spaces, line, i)
<1>1. S \subseteq Nat /\ Len(line) + 1 \in S OBVIOUS
<1>2. m = Min(S) BY DEF Skip
<1> HIDE DEF S, m
<1>3. m \in S /\ \A k \in S : m =< k BY <1>1, <1>2, MinIs
<1>4. m \in i .. Len(line) + 1 /\ (m =< Len(line) => isspace(line[m]) # spaces) BY <1>3 DEF S
<1>5. ASSUME NEW k \in i .. m - 1 PROVE isspace(line[k]) = spaces
  <2>1. k \notin S BY <1>3, <1>4
  <2>2. k \in i .. Len(line) + 1 BY <1>4
  <2> QED BY <2>1, <2>2 DEF S
<1> QED BY <1>4, <1>5 DEF m

\* From any place the loop goes on to the next word: none begins in between.
LEMMA AfterIs ==
  ASSUME NEW C, NEW line \in Seq(C), NEW i \in 1 .. Len(line)
  PROVE  /\ After(line, i) \in i + 1 .. Len(line) + 1
         /\ After(line, i) =< Len(line) =>
              Starts(line, After(line, i)) /\ ~ isspace(line[After(line, i)])
         /\ \A k \in i + 1 .. After(line, i) - 1 : ~ (Starts(line, k) /\ ~ isspace(line[k]))
<1> DEFINE j == Skip(FALSE, line, i)
           n == Skip(TRUE, line, j)
<1>1. /\ j \in i .. Len(line) + 1 /\ (j =< Len(line) => isspace(line[j]))
      /\ \A k \in i .. j - 1 : ~ isspace(line[k])
  <2>1. i \in 1 .. Len(line) + 1 /\ FALSE \in BOOLEAN OBVIOUS
  <2>2. /\ j \in i .. Len(line) + 1 /\ (j =< Len(line) => isspace(line[j]) # FALSE)
        /\ \A k \in i .. j - 1 : isspace(line[k]) = FALSE
    BY <2>1, SkipIs, Zenon
  <2> HIDE DEF j
  <2>3. \A c : (isspace(c) # FALSE => isspace(c)) /\ (isspace(c) = FALSE => ~ isspace(c))
    <3>1. ASSUME NEW c, ~ isspace(c) PROVE isspace(c) = FALSE BY <3>1, SMT DEF isspace
    <3>2. ASSUME NEW c, isspace(c) = FALSE PROVE ~ isspace(c) BY <3>2, SMT DEF isspace
    <3> QED BY <3>1, <3>2, Zenon
  <2>4. j =< Len(line) => isspace(line[j]) BY <2>2, <2>3, Zenon
  <2>5. \A k \in i .. j - 1 : ~ isspace(line[k]) BY <2>2, <2>3, Zenon
  <2> QED BY <2>2, <2>4, <2>5, Zenon
<1>2. /\ n \in j .. Len(line) + 1 /\ (n =< Len(line) => ~ isspace(line[n]))
      /\ \A k \in j .. n - 1 : isspace(line[k])
  <2> HIDE DEF j
  <2>1. j \in 1 .. Len(line) + 1 /\ TRUE \in BOOLEAN BY <1>1
  <2>2. /\ n \in j .. Len(line) + 1 /\ (n =< Len(line) => isspace(line[n]) # TRUE)
        /\ \A k \in j .. n - 1 : isspace(line[k]) = TRUE
    BY <2>1, SkipIs, Zenon
  <2> QED BY <2>2, Zenon DEF isspace
<1>3. After(line, i) = n BY DEF After
<1> HIDE DEF j, n
<1>4. n \in i + 1 .. Len(line) + 1
  BY <1>1, <1>2
<1>5. n =< Len(line) => n - 1 \in j .. n - 1 /\ n # 1
  BY <1>1, <1>2, <1>4
<1>6. n =< Len(line) => Starts(line, n)
  BY <1>2, <1>5 DEF Starts
<1>7. ASSUME NEW k \in i + 1 .. n - 1, Starts(line, k), ~ isspace(line[k]) PROVE FALSE
  <2>1. CASE k =< j
    <3>1. k # 1 /\ k - 1 \in i .. j - 1 BY <1>1, <2>1
    <3> QED BY <1>1, <1>7, <3>1 DEF Starts
  <2>2. CASE k > j BY <1>1, <1>2, <1>7, <2>2
  <2> QED BY <1>1, <2>1, <2>2
<1> QED BY <1>2, <1>3, <1>4, <1>6, <1>7

(* The equation that get_flag's loop solves.                               *)
Solves(f, key, line) ==
  f = [i \in 1 .. Len(line) + 1 |->
         i =< Len(line) /\ (Here(key, line, i) \/ f[After(line, i)])]

(* What it is true of: a place where the key stands, the first or that of  *)
(* a word.                                                                 *)
Found(key, line) ==
  [i \in 1 .. Len(line) + 1 |->
     /\ i =< Len(line)
     /\ \/ Here(key, line, i)
        \/ \E k \in i + 1 .. Len(line) : Starts(line, k) /\ ~ isspace(line[k]) /\ Here(key, line, k)]

LEMMA FoundSolves ==
  ASSUME NEW C, NEW key, NEW line \in Seq(C)
  PROVE  Solves(Found(key, line), key, line)
<1> DEFINE f == Found(key, line)
           Begins(k) == Starts(line, k) /\ ~ isspace(line[k]) /\ Here(key, line, k)
<1>1. ASSUME NEW i \in 1 .. Len(line)
      PROVE  (\E k \in i + 1 .. Len(line) : Begins(k)) <=> f[After(line, i)]
  <2> DEFINE n == After(line, i)
  <2>1. /\ n \in i + 1 .. Len(line) + 1
        /\ n =< Len(line) => Starts(line, n) /\ ~ isspace(line[n])
        /\ \A k \in i + 1 .. n - 1 : ~ (Starts(line, k) /\ ~ isspace(line[k]))
    BY AfterIs
  <2> HIDE DEF n
  <2>2. f[n] <=> n =< Len(line) /\ (Here(key, line, n) \/ \E k \in n + 1 .. Len(line) : Begins(k))
    <3>1. n \in 1 .. Len(line) + 1 BY <2>1
    <3> QED BY <3>1, Zenon DEF Found
  <2>3. ASSUME NEW k \in i + 1 .. Len(line), Begins(k) PROVE f[n]
    <3>1. k >= n BY <2>1, <2>3
    <3>2. n =< Len(line) BY <2>1, <3>1
    <3>3. CASE k = n BY <2>2, <2>3, <3>2, <3>3
    <3>4. CASE k # n
      <4>1. k \in n + 1 .. Len(line) BY <2>1, <3>1, <3>4
      <4> QED BY <2>2, <2>3, <3>2, <4>1
    <3> QED BY <3>3, <3>4
  <2>4. ASSUME f[n] PROVE \E k \in i + 1 .. Len(line) : Begins(k)
    <3>1. n \in i + 1 .. Len(line) BY <2>1, <2>2, <2>4
    <3>2. CASE Here(key, line, n)
      <4>1. Begins(n) BY <2>1, <3>1, <3>2
      <4> QED BY <3>1, <4>1
    <3>3. CASE \E k \in n + 1 .. Len(line) : Begins(k)
      <4>1. PICK k \in n + 1 .. Len(line) : Begins(k) BY <3>3
      <4>2. k \in i + 1 .. Len(line) BY <2>1, <4>1
      <4> QED BY <4>1, <4>2
    <3> QED BY <2>2, <2>4, <3>2, <3>3
  <2> QED BY <2>3, <2>4 DEF n
<1>2. \A i \in 1 .. Len(line) + 1 :
        f[i] = (i =< Len(line) /\ (Here(key, line, i) \/ f[After(line, i)]))
  <2>1. SUFFICES ASSUME NEW i \in 1 .. Len(line) + 1
                 PROVE  f[i] = (i =< Len(line) /\ (Here(key, line, i) \/ f[After(line, i)]))
    OBVIOUS
  <2>2. f[i] = (i =< Len(line) /\ (Here(key, line, i) \/ \E k \in i + 1 .. Len(line) : Begins(k)))
    BY Zenon DEF Found
  <2>3. i =< Len(line) => i \in 1 .. Len(line) OBVIOUS
  <2> QED BY <1>1, <2>2, <2>3, Zenon
<1>3. f = [i \in 1 .. Len(line) + 1 |-> f[i]] BY Zenon DEF Found
<1> HIDE DEF f
<1> QED BY <1>2, <1>3, Zenon DEF Solves, f

LEMMA OneSolution ==
  ASSUME NEW C, NEW key, NEW line \in Seq(C), NEW f, NEW g, Solves(f, key, line), Solves(g, key, line)
  PROVE  f = g
<1> DEFINE N == Len(line) + 1
           Bad == {d \in 0 .. N - 1 : f[N - d] # g[N - d]}
<1>1. ASSUME NEW i \in 1 .. N
      PROVE  /\ f[i] = (i =< Len(line) /\ (Here(key, line, i) \/ f[After(line, i)]))
             /\ g[i] = (i =< Len(line) /\ (Here(key, line, i) \/ g[After(line, i)]))
  BY Zenon DEF Solves
<1>2. Bad = {}
  <2>1. SUFFICES ASSUME Bad # {} PROVE FALSE
    OBVIOUS
  <2>2. Bad \subseteq Nat OBVIOUS
  <2> HIDE DEF Bad
  <2>3. PICK d \in Bad : \A e \in Bad : d =< e BY <2>1, <2>2, Least
  <2> DEFINE i == N - d
  <2>4. d \in 0 .. N - 1 /\ f[i] # g[i] BY <2>3 DEF Bad
  <2>5. i \in 1 .. N BY <2>4
  <2>6. ASSUME i =< Len(line) PROVE f[After(line, i)] = g[After(line, i)]
    <3> DEFINE n == After(line, i)
    <3>1. n \in i + 1 .. N
      <4>1. i \in 1 .. Len(line) BY <2>5, <2>6
      <4> HIDE DEF i
      <4> QED BY <4>1, AfterIs
    <3> HIDE DEF n
    <3>2. N - n \in 0 .. N - 1 /\ N - (N - n) = n /\ N - n < d BY <2>4, <2>5, <3>1
    <3>3. N - n \notin Bad BY <2>2, <2>3, <3>2
    <3>4. f[N - (N - n)] = g[N - (N - n)] BY <3>2, <3>3, Zenon DEF Bad
    <3>5. f[n] = g[n] BY <3>2, <3>4, Zenon
    <3> QED BY <3>5 DEF n
  <2> HIDE DEF i
  <2>7. f[i] = g[i] BY <1>1, <2>5, <2>6, Zenon
  <2> QED BY <2>4, <2>7 DEF i
<1>3. ASSUME NEW i \in 1 .. N PROVE f[i] = g[i]
  <2>1. N - i \in 0 .. N - 1 /\ N - (N - i) = i OBVIOUS
  <2>2. f[N - (N - i)] = g[N - (N - i)] BY <1>2, <2>1, Zenon
  <2> QED BY <2>1, <2>2, Zenon
<1>4. f = [i \in 1 .. N |-> f[i]] /\ g = [i \in 1 .. N |-> g[i]]
  <2>1. f = [i \in 1 .. N |-> (i =< Len(line) /\ (Here(key, line, i) \/ f[After(line, i)]))]
    BY Zenon DEF Solves
  <2>2. g = [i \in 1 .. N |-> (i =< Len(line) /\ (Here(key, line, i) \/ g[After(line, i)]))]
    BY Zenon DEF Solves
  <2> QED BY <1>1, <2>1, <2>2, Zenon
<1> QED BY <1>3, <1>4, Zenon

\* get_flag finds a key where a word begins and the key stands.
LEMMA GetFlagIs ==
  ASSUME NEW C, NUL \notin C, NEW key \in Seq(C), key # <<>>, \A j \in 1 .. Len(key) : ~ isspace(key[j]),
         NEW line \in Seq(C)
  PROVE  get_flag(key, line) <=> \E i \in 1 .. Len(line) : Starts(line, i) /\ Stands(key, line, i)
<1>1. get_flag(key, line) = (CHOOSE f : Solves(f, key, line))[1]
  BY Zenon DEF get_flag, Solves, Here, After
<1> DEFINE f == CHOOSE h : Solves(h, key, line)
<1>2. Solves(f, key, line) BY FoundSolves, Zenon
<1>3. f = Found(key, line)
  <2>1. Solves(Found(key, line), key, line) BY FoundSolves, Zenon
  <2> HIDE DEF f
  <2> QED BY <1>2, <2>1, OneSolution, Zenon
<1>4. get_flag(key, line) <=>
        /\ 1 =< Len(line)
        /\ \/ Here(key, line, 1)
           \/ \E k \in 1 + 1 .. Len(line) : Starts(line, k) /\ ~ isspace(line[k]) /\ Here(key, line, k)
  <2>1. 1 \in 1 .. Len(line) + 1 OBVIOUS
  <2> QED BY <1>1, <1>3, <2>1, Zenon DEF Found
<1>5. ASSUME NEW i \in 1 .. Len(line), Stands(key, line, i) PROVE ~ isspace(line[i])
  <2>1. 1 \in 1 .. Len(key) /\ i + 1 - 1 = i OBVIOUS
  <2> QED BY <1>5, <2>1 DEF Stands
<1>6. \A i \in 1 .. Len(line) : Here(key, line, i) <=> Stands(key, line, i) BY HereIs
<1>7. ASSUME get_flag(key, line) PROVE \E i \in 1 .. Len(line) : Starts(line, i) /\ Stands(key, line, i)
  <2>1. 1 \in 1 .. Len(line) /\ Starts(line, 1) BY <1>4, <1>7 DEF Starts
  <2>2. \A k \in 1 + 1 .. Len(line) : k \in 1 .. Len(line) OBVIOUS
  <2> QED BY <1>4, <1>6, <1>7, <2>1, <2>2, Zenon
<1>8. ASSUME NEW i \in 1 .. Len(line), Starts(line, i), Stands(key, line, i) PROVE get_flag(key, line)
  <2>1. 1 =< Len(line) OBVIOUS
  <2>2. i = 1 \/ i \in 1 + 1 .. Len(line) OBVIOUS
  <2> QED BY <1>4, <1>5, <1>6, <1>8, <2>1, <2>2, Zenon
<1> QED BY <1>7, <1>8

\* A key is one of the words exactly when it stands where one begins.
LEMMA WordsAre ==
  ASSUME NEW C, NEW key \in Seq(C), key # <<>>, \A j \in 1 .. Len(key) : ~ isspace(key[j]),
         NEW line \in Seq(C)
  PROVE  key \in Words(line) <=> \E i \in 1 .. Len(line) : Starts(line, i) /\ Stands(key, line, i)
<1>1. key \in Words(line) <=>
        \E i \in 1 .. Len(line), k \in 1 .. Len(line) :
          /\ key = SubSeq(line, i, k) /\ i =< k /\ \A j \in i .. k : ~ isspace(line[j])
          /\ Starts(line, i) /\ Ends(line, k)
  <2> DEFINE Are(r) == /\ r[1] =< r[2] /\ \A j \in r[1] .. r[2] : ~isspace(line[j])
                       /\ r[1] = 1 \/ isspace(line[r[1] - 1])
                       /\ r[2] = Len(line) \/ isspace(line[r[2] + 1])
  <2>1. Words(line) = {SubSeq(line, x[1], x[2]) : x \in {r \in (1 .. Len(line)) \X (1 .. Len(line)) : Are(r)}}
    BY Zenon DEF Words, Are
  <2>2. \A i, k : Are(<<i, k>>) <=> /\ i =< k /\ \A j \in i .. k : ~ isspace(line[j])
                                  /\ Starts(line, i) /\ Ends(line, k)
    BY DEF Starts, Ends
  <2> HIDE DEF Are
  <2>3. key \in Words(line) <=>
          \E i \in 1 .. Len(line), k \in 1 .. Len(line) : key = SubSeq(line, i, k) /\ Are(<<i, k>>)
    <3>1. ASSUME key \in Words(line)
          PROVE  \E i \in 1 .. Len(line), k \in 1 .. Len(line) : key = SubSeq(line, i, k) /\ Are(<<i, k>>)
      <4>1. PICK x \in (1 .. Len(line)) \X (1 .. Len(line)) : key = SubSeq(line, x[1], x[2]) /\ Are(x)
        BY <2>1, <3>1
      <4>2. x = <<x[1], x[2]>> /\ x[1] \in 1 .. Len(line) /\ x[2] \in 1 .. Len(line) OBVIOUS
      <4>3. Are(<<x[1], x[2]>>) BY <4>1, <4>2, Zenon
      <4> QED BY <4>1, <4>2, <4>3, Zenon
    <3>2. ASSUME NEW i \in 1 .. Len(line), NEW k \in 1 .. Len(line), key = SubSeq(line, i, k), Are(<<i, k>>)
          PROVE  key \in Words(line)
      <4>1. <<i, k>> \in {r \in (1 .. Len(line)) \X (1 .. Len(line)) : Are(r)} BY <3>2
      <4>2. SubSeq(line, <<i, k>>[1], <<i, k>>[2]) = key BY <3>2
      <4> QED BY <2>1, <4>1, <4>2, Zenon
    <3> QED BY <3>1, <3>2
  <2> QED BY <2>2, <2>3, Zenon
<1>2. ASSUME NEW i \in 1 .. Len(line), NEW k \in 1 .. Len(line), key = SubSeq(line, i, k), i =< k,
             Ends(line, k)
      PROVE  Stands(key, line, i)
  <2>1. Len(key) = k + 1 - i /\ \A j \in 1 .. Len(key) : key[j] = line[i + j - 1] BY <1>2
  <2>2. i + Len(key) - 1 = k BY <2>1
  <2> QED BY <1>2, <2>1, <2>2 DEF Stands
<1>3. ASSUME NEW i \in 1 .. Len(line), Stands(key, line, i)
      PROVE  LET k == i + Len(key) - 1
             IN  /\ k \in 1 .. Len(line) /\ i =< k /\ key = SubSeq(line, i, k) /\ Ends(line, k)
                 /\ \A j \in i .. k : ~ isspace(line[j])
  <2> DEFINE k == i + Len(key) - 1
  <2>1. Len(key) \in Nat \ {0} OBVIOUS
  <2>2. k \in 1 .. Len(line) /\ i =< k /\ Ends(line, k) BY <1>3, <2>1 DEF Stands
  <2>3. Len(SubSeq(line, i, k)) = Len(key) /\ SubSeq(line, i, k) \in Seq(C)
        /\ \A j \in 1 .. Len(key) : SubSeq(line, i, k)[j] = line[i + j - 1]
    BY <2>1, <2>2
  <2>4. key = SubSeq(line, i, k) BY <1>3, <2>3, SeqEqual DEF Stands
  <2>5. ASSUME NEW j \in i .. k PROVE ~ isspace(line[j])
    <3>1. j - i + 1 \in 1 .. Len(key) /\ i + (j - i + 1) - 1 = j BY <2>1
    <3> QED BY <1>3, <3>1 DEF Stands
  <2> QED BY <2>2, <2>4, <2>5
<1> QED BY <1>1, <1>2, <1>3

\* What fits is copied, and of the rest what fits.
LEMMA CopyIs ==
  ASSUME NEW C, NEW src \in Seq(C), NEW mx \in Nat \ {0}
  PROVE  /\ strncpy(src, mx) \in Seq(C)
         /\ Len(strncpy(src, mx)) = (IF Len(src) < mx THEN Len(src) ELSE mx - 1)
         /\ \A j \in 1 .. Len(strncpy(src, mx)) : strncpy(src, mx)[j] = src[j]
         /\ Len(src) < mx => strncpy(src, mx) = src
<1> DEFINE n == Min({Len(src), mx - 1})
           copy == strncpy(src, mx)
<1>1. n = IF Len(src) < mx THEN Len(src) ELSE mx - 1
  <2>1. {Len(src), mx - 1} \subseteq Nat OBVIOUS
  <2>2. n \in {Len(src), mx - 1} /\ \A k \in {Len(src), mx - 1} : n =< k BY <2>1, MinIs
  <2> HIDE DEF n
  <2> QED BY <2>2
<1>2. copy = SubSeq(src, 1, n) BY DEF strncpy
<1> HIDE DEF n, copy
<1>3. copy \in Seq(C) /\ Len(copy) = n /\ \A j \in 1 .. n : copy[j] = src[j] BY <1>1, <1>2
<1>4. Len(src) < mx => copy = src BY <1>1, <1>3, SeqEqual
<1> QED BY <1>1, <1>3, <1>4 DEF copy

\* A word of the part that fits is the beginning of a word of the whole.
LEMMA CutWord ==
  ASSUME NEW C, NUL \notin C, NEW whole \in Seq(C), NEW mx \in Nat \ {0}, NEW w \in Words(strncpy(whole, mx))
  PROVE  \E v \in Words(whole) : str_prefix_of(w, v)
<1> DEFINE line == strncpy(whole, mx)
<1>1. /\ line \in Seq(C) /\ Len(line) =< Len(whole)
      /\ \A j \in 1 .. Len(line) : line[j] = whole[j]
  BY CopyIs
<1> HIDE DEF line
<1>2. PICK i \in 1 .. Len(line), k \in 1 .. Len(line) :
        /\ w = SubSeq(line, i, k) /\ i =< k /\ \A j \in i .. k : ~ isspace(line[j]) /\ Starts(line, i)
  BY Zenon DEF Words, Starts, line
<1> DEFINE E == {e \in k .. Len(whole) : Ends(whole, e)}
<1>3. E \subseteq Nat /\ Len(whole) \in E BY <1>1 DEF Ends
<1>4. PICK e \in E : \A x \in E : e =< x BY <1>3, Least
<1>5. e \in k .. Len(whole) /\ Ends(whole, e) BY <1>4
<1>6. ASSUME NEW j \in i .. e PROVE ~ isspace(whole[j])
  <2>1. CASE j =< k
    <3>1. j \in i .. k /\ j \in 1 .. Len(line) BY <1>2, <1>5, <2>1
    <3>2. ~ isspace(line[j]) BY <1>2, <3>1
    <3> QED BY <1>1, <3>1, <3>2
  <2>2. CASE j > k
    <3>1. j - 1 \in k .. Len(whole) /\ j - 1 < e /\ (j - 1) + 1 = j BY <1>5, <2>2
    <3>2. ~ Ends(whole, j - 1) BY <1>4, <1>5, <3>1
    <3> QED BY <3>1, <3>2 DEF Ends
  <2> QED BY <2>1, <2>2
<1> DEFINE v == SubSeq(whole, i, e)
<1>7. Starts(whole, i)
  <2>1. i # 1 => i - 1 \in 1 .. Len(line) BY <1>2
  <2> QED BY <1>1, <1>2, <2>1 DEF Starts
<1>8. v \in Words(whole)
  <2>1. i \in 1 .. Len(whole) /\ e \in 1 .. Len(whole) /\ i =< e BY <1>1, <1>2, <1>5
  <2> DEFINE Are(r) == /\ r[1] =< r[2] /\ \A j \in r[1] .. r[2] : ~isspace(whole[j])
                       /\ r[1] = 1 \/ isspace(whole[r[1] - 1])
                       /\ r[2] = Len(whole) \/ isspace(whole[r[2] + 1])
  <2>2. Are(<<i, e>>) BY <1>5, <1>6, <1>7, <2>1 DEF Starts, Ends
  <2> HIDE DEF Are
  <2>3. <<i, e>> \in {r \in (1 .. Len(whole)) \X (1 .. Len(whole)) : Are(r)} BY <2>1, <2>2
  <2>4. Words(whole) = {SubSeq(whole, x[1], x[2]) : x \in {r \in (1 .. Len(whole)) \X (1 .. Len(whole)) : Are(r)}}
    BY Zenon DEF Words, Are
  <2>5. SubSeq(whole, <<i, e>>[1], <<i, e>>[2]) = v OBVIOUS
  <2> HIDE DEF v
  <2> QED BY <2>3, <2>4, <2>5, Zenon
<1>9. str_prefix_of(w, v)
  <2>1. w \in Seq(C) /\ Len(w) = k + 1 - i /\ \A j \in 1 .. Len(w) : w[j] = line[i + j - 1]
    BY <1>1, <1>2
  <2>2. v \in Seq(C) /\ Len(v) = e + 1 - i /\ \A j \in 1 .. Len(v) : v[j] = whole[i + j - 1]
    BY <1>1, <1>2, <1>5
  <2> HIDE DEF v
  <2>3. Len(w) =< Len(v) BY <1>5, <2>1, <2>2
  <2>4. \A j \in 1 .. Len(w) : i + j - 1 \in 1 .. Len(line) BY <1>2, <2>1
  <2>5. ASSUME NEW j \in 1 .. Len(w) PROVE w[j] = v[j]
    <3>1. w[j] = line[i + j - 1] /\ line[i + j - 1] = whole[i + j - 1] BY <1>1, <2>1, <2>4
    <3>2. j \in 1 .. Len(v) BY <2>1, <2>2, <2>3
    <3> QED BY <2>2, <3>1, <3>2
  <2> QED BY <2>1, <2>2, <2>3, <2>5, PrefixIs
<1> QED BY <1>8, <1>9

(* cmdline.hh:25-35: of every command line without null characters, cut to *)
(* the buffer or not, get_flag finds exactly the words, for every key of   *)
(* at least one character and no spaces.                                   *)
THEOREM FlagsFound ==
  ASSUME NEW C, NUL \notin C, max_cmdline \in Nat \ {0},
         NEW key \in Seq(C), key # <<>>, \A j \in 1 .. Len(key) : ~ isspace(key[j]),
         NEW info, info.cmdline \in Seq(C), NEW src, NEW mb \in init(src, info)
  PROVE  FlagsLaw(key, info, mb)
<1>1. /\ mb.flags = info.flags
      /\ mb.cmdline_ = Kept("cmdline" \in info.flags, info.cmdline, max_cmdline)
  <2>1. mb = [flags |-> info.flags,
              bootloader_name_ |-> Kept("name" \in info.flags, info.boot_loader_name, max_bootloader_name),
              cmdline_ |-> Kept("cmdline" \in info.flags, info.cmdline, max_cmdline)]
    BY Zenon DEF init
  <2> QED BY <2>1
<1>2. cmdline(mb) = {} <=> "cmdline" \notin info.flags BY <1>1 DEF cmdline
<1>3. ASSUME NEW line \in cmdline(mb)
      PROVE  /\ Len(line) < max_cmdline
             /\ get_flag(key, line) <=> key \in Words(line)
             /\ Len(info.cmdline) < max_cmdline => Words(line) = Words(info.cmdline)
             /\ \A w \in Words(line) : \E v \in Words(info.cmdline) : str_prefix_of(w, v)
  <2>1. line = strncpy(info.cmdline, max_cmdline) BY <1>1, <1>3 DEF cmdline, Kept
  <2>2. line \in Seq(C) /\ Len(line) < max_cmdline
        /\ (Len(info.cmdline) < max_cmdline => line = info.cmdline)
    BY <2>1, CopyIs
  <2>3. get_flag(key, line) <=> key \in Words(line) BY <2>2, GetFlagIs, WordsAre
  <2>4. \A w \in Words(line) : \E v \in Words(info.cmdline) : str_prefix_of(w, v)
    BY <2>1, CutWord, Zenon
  <2> QED BY <2>2, <2>3, <2>4
<1> QED BY <1>2, <1>3, Zenon DEF FlagsLaw

(* initrd.cc:48-65: of names without null characters, a name is found      *)
(* exactly when it is the one that was copied, which is cut when it does   *)
(* not fit.                                                                *)
THEOREM NamesFound ==
  ASSUME NEW C, NUL \notin C, NEW mx \in Nat \ {0}, NEW name \in Seq(C), NEW other \in Seq(C)
  PROVE  NameLaw(name, other, mx)
<1> DEFINE copy == strncpy(name, mx)
           k == Alike(other, copy, mx - 1)
<1>1. copy \in Seq(C) /\ Len(copy) < mx /\ (Len(name) < mx => copy = name) BY CopyIs
<1> HIDE DEF copy
<1>2. /\ k \in 0 .. mx - 1 /\ k =< Len(other) /\ k =< Len(copy)
      /\ \A j \in 1 .. k : other[j] = copy[j]
      /\ k < mx - 1 /\ k < Len(other) /\ k < Len(copy) => other[k + 1] # copy[k + 1]
  <2>2. copy \in Seq(C) BY <1>1
  <2> DEFINE n == mx - 1
  <2>1. n \in Nat OBVIOUS
  <2> HIDE DEF n
  <2>3. /\ Alike(other, copy, n) \in 0 .. n
        /\ Alike(other, copy, n) =< Len(other) /\ Alike(other, copy, n) =< Len(copy)
        /\ \A j \in 1 .. Alike(other, copy, n) : other[j] = copy[j]
        /\ Alike(other, copy, n) < n /\ Alike(other, copy, n) < Len(other) /\ Alike(other, copy, n) < Len(copy)
             => other[Alike(other, copy, n) + 1] # copy[Alike(other, copy, n) + 1]
    BY <2>1, <2>2, AlikeIs
  <2> QED BY <2>3, Zenon DEF n
<1>3. strneq(other, copy, mx) <=> Char(other, k + 1) = Char(copy, k + 1)
  BY DEF strneq
<1> HIDE DEF k
<1>4. ASSUME Char(other, k + 1) = Char(copy, k + 1) PROVE other = copy
  <2>1. CASE k < Len(copy)
    <3>1. Char(copy, k + 1) = copy[k + 1] /\ copy[k + 1] \in C BY <1>1, <1>2, <2>1 DEF Char
    <3>2. k < Len(other)
      <4>1. k = Len(other) => Char(other, k + 1) = NUL BY DEF Char
      <4> QED BY <1>2, <1>4, <3>1, <4>1
    <3>3. Char(other, k + 1) = other[k + 1] BY <1>2, <3>2 DEF Char
    <3>4. k < mx - 1 BY <1>1, <1>2, <2>1
    <3> QED BY <1>2, <1>4, <2>1, <3>1, <3>2, <3>3, <3>4
  <2>2. CASE k = Len(copy)
    <3>1. Char(copy, k + 1) = NUL BY <1>1, <2>2 DEF Char
    <3>2. k < Len(other) => Char(other, k + 1) = other[k + 1] /\ other[k + 1] \in C BY <1>2 DEF Char
    <3>3. k = Len(other) BY <1>2, <1>4, <3>1, <3>2
    <3> QED BY <1>1, <1>2, <2>2, <3>3, SeqEqual
  <2> QED BY <1>1, <1>2, <2>1, <2>2
<1>5. ASSUME other = copy PROVE Char(other, k + 1) = Char(copy, k + 1)
  BY <1>5
<1> QED BY <1>1, <1>3, <1>4, <1>5 DEF NameLaw, copy

-----------------------------------------------------------------------------
(* The scan of the PCI buses (pci.cc).                                     *)

(* The sizes of ranges, powers of two below the words' number, and the     *)
(* registers that decode them: of ports, which may be few, or of memory.   *)
RangeSizes == {4, 8, 16, 32, 64, 128}

IsRange(bar) ==
  /\ bar.size \in RangeSizes /\ \E k \in Nat : bar.base = k * bar.size /\ bar.base < Pci!Words
  /\ bar.kind = 1 \/ (bar.kind \in {0, 2, 4, 6, 8, 10, 12, 14} /\ bar.size >= 16)

Decoded == {bar \in [base : Nat, size : Nat, kind : Nat] : IsRange(bar)} \cup {Pci!NoBar}

\* A range comes back from the probing as it was, and its report is right.
LEMMA RangeProbed ==
  ASSUME NEW bar \in Decoded
  PROVE  /\ Pci!Probed(bar) = bar
         /\ bar.base + bar.kind # 0 =>
              Pci!Report(bar) = [at |-> bar.base - (bar.base % 16), io |-> bar.kind = 1,
                                 size |-> IF bar.size < 16 THEN 16 ELSE bar.size]
<1>1. CASE bar = Pci!NoBar
  BY <1>1 DEF Pci!NoBar, Pci!Probed, Pci!read_config
<1>2. CASE bar # Pci!NoBar
  <2>1. bar \in [base : Nat, size : Nat, kind : Nat] /\ IsRange(bar) BY <1>2 DEF Decoded
  <2>2. PICK k \in Nat : bar.base = k * bar.size /\ bar.base < 256 BY <2>1 DEF IsRange, Pci!Words
  <2>3. bar.kind \in 0 .. 14 /\ bar.kind < bar.size BY <2>1 DEF IsRange, RangeSizes
  <2> DEFINE at == bar.base
             n == bar.size
             d == bar.kind
  <2>4. n \in RangeSizes BY <2>1 DEF IsRange
  <2>5. (at + d) - ((at + d) % n) = at
    BY <2>2, <2>3, <2>4 DEF RangeSizes
  <2>6. Pci!Low(at + d) = (at + d) % 16 /\ Pci!High(at + d) = (at + d) - ((at + d) % 16)
    BY DEF Pci!Low, Pci!High
  <2> DEFINE ones == 240 + ((at + d) % 16)
  <2>7. Pci!Sizing(bar) = [bar EXCEPT !.base = ones - (ones % n)]
    BY <2>1, <2>4, <2>6 DEF Pci!Sizing, Pci!write_config, Pci!read_config, Pci!High, Pci!Low, Pci!Words, RangeSizes
  <2>8. Pci!Restored(bar) = bar
    <3>1. Pci!Restored(bar) = [Pci!Sizing(bar) EXCEPT !.base = (at + d) - ((at + d) % n)]
      BY <2>1, <2>4, <2>7 DEF Pci!Restored, Pci!write_config, Pci!read_config, RangeSizes
    <3>2. bar = [base |-> at, size |-> n, kind |-> d] BY <2>1, Zenon
    <3>3. [Pci!Sizing(bar) EXCEPT !.base = at] = [base |-> at, size |-> n, kind |-> d]
      BY <2>7, <3>2
    <3> QED BY <2>5, <3>1, <3>2, <3>3, Zenon
  <2>9. Pci!Probed(bar) = bar BY <2>8 DEF Pci!Probed
  <2>10. (at % 16) + d < 16 /\ (at + d) % 16 = (at % 16) + d
    BY <2>1, <2>2, <2>3, <2>4 DEF RangeSizes, IsRange
  <2>11. Pci!High(at + d) = at - (at % 16)
    <3>1. at \in Nat /\ d \in Nat BY <2>1
    <3>2. Pci!High(at + d) = (at + d) - ((at % 16) + d) BY <2>6, <2>10, Zenon
    <3> QED BY <3>1, <3>2
  <2>12. Pci!High(ones - (ones % n) + d) = 256 - (IF n < 16 THEN 16 ELSE n)
    <3>1. at \in Nat /\ d \in Nat BY <2>1
    <3>2. CASE n < 16
      <4>1. (ones - (ones % n) + d) \in 240 .. 255
        <5>1. n \in {4, 8} /\ d = 1 BY <2>1, <2>4, <3>1, <3>2 DEF RangeSizes, IsRange
        <5>2. ones \in 240 .. 255 BY <3>1
        <5>3. ones - (ones % n) + 1 \in 240 .. 255
          <6>1. CASE n = 4 BY <5>2, <6>1
          <6>2. CASE n = 8 BY <5>2, <6>2
          <6> QED BY <5>1, <6>1, <6>2
        <5> QED BY <5>1, <5>3
      <4>2. \A x \in 240 .. 255 : x - (x % 16) = 240 OBVIOUS
      <4> QED BY <3>2, <4>1, <4>2 DEF Pci!High, Pci!Low
    <3>3. CASE n >= 16
      <4>1. ones - (ones % n) = 256 - n
        BY <2>4, <2>10, <3>1, <3>3 DEF RangeSizes
      <4>3. d \in 0 .. 15 BY <2>3, <3>1
      <4>4. Pci!High(256 - n + d) = 256 - n
        <5>1. (256 - n) % 16 = 0 /\ 256 - n \in Nat BY <2>4, <3>3 DEF RangeSizes
        <5>2. (256 - n + d) - ((256 - n + d) % 16) = 256 - n
          BY <4>3, <5>1
        <5> QED BY <5>2, Zenon DEF Pci!High, Pci!Low
      <4>5. Pci!High(ones - (ones % n) + d) = 256 - n BY <4>1, <4>4, Zenon
      <4>6. ~ n < 16 BY <2>4, <3>3 DEF RangeSizes
      <4> QED BY <4>5, <4>6, Zenon
    <3> QED BY <2>4, <3>2, <3>3 DEF RangeSizes
  <2>13. ((at + d) % 2 = 1) <=> d = 1
    BY <2>1, <2>2, <2>4 DEF RangeSizes, IsRange
  <2>14. Pci!read_config(bar) = at + d /\ Pci!read_config(Pci!Sizing(bar)) = ones - (ones % n) + d
    BY <2>1, <2>7 DEF Pci!read_config
  <2>15. (256 - (256 - (IF n < 16 THEN 16 ELSE n))) % 256 = IF n < 16 THEN 16 ELSE n
    BY <2>4 DEF RangeSizes
  <2> QED
    <3> DEFINE io == (at + d) % 2 = 1
               sz == (256 - Pci!High(ones - (ones % n) + d)) % 256
    <3>2. Pci!Report(bar) = [at |-> Pci!High(at + d), io |-> io, size |-> sz]
      BY <2>14, Zenon DEF Pci!Report, Pci!Words
    <3>3. sz = IF n < 16 THEN 16 ELSE n BY <2>12, <2>15
    <3>4. io = (d = 1) BY <2>13, Zenon
    <3>5. Pci!Report(bar) = [at |-> at - (at % 16), io |-> d = 1, size |-> IF n < 16 THEN 16 ELSE n]
      BY <2>11, <3>2, <3>3, <3>4, Zenon
    <3> QED BY <2>9, <3>5, Zenon
<1> QED BY <1>1, <1>2

(* Whatever functions there are, on whatever slots, and whatever ranges    *)
(* they decode: the scan of pci.cc leaves all as it was, and reports the   *)
(* place and the size of each range.                                       *)
THEOREM ScanExact ==
  ASSUME NEW places, NEW devices \in [places -> [multi : BOOLEAN, bars : [1 .. 2 -> Decoded]]]
  PROVE  Pci!ScanLaw(devices)
<1>1. Pci!init(devices) = devices
  <2>1. \A p \in places :
          [devices[p] EXCEPT !.bars = [b \in DOMAIN @ |-> Pci!Probed(@[b])]] = devices[p]
    <3>1. SUFFICES ASSUME NEW p \in places
                   PROVE  [devices[p] EXCEPT !.bars = [b \in DOMAIN @ |-> Pci!Probed(@[b])]] = devices[p]
      OBVIOUS
    <3> DEFINE bars == devices[p].bars
    <3>2. bars \in [1 .. 2 -> Decoded] OBVIOUS
    <3>3. [b \in DOMAIN bars |-> Pci!Probed(bars[b])] = bars
      BY <3>2, RangeProbed
    <3> QED BY <3>3
  <2> QED BY <2>1 DEF Pci!init
<1>2. ASSUME NEW p \in Pci!Listed(devices), NEW b \in 1 .. 2
      PROVE  LET bar == devices[p].bars[b]
             IN  bar.base + bar.kind # 0 =>
                   [at |-> bar.base - (bar.base % 16), io |-> bar.kind = 1,
                    size |-> IF bar.size < 16 THEN 16 ELSE bar.size]
                     \in Pci!Prints(devices)[p]
  <2>1. p \in places BY DEF Pci!Listed
  <2>2. devices[p].bars \in [1 .. 2 -> Decoded] BY <2>1
  <2> DEFINE bar == devices[p].bars[b]
  <2>3. bar \in Decoded BY <2>2
  <2>4. Pci!read_config(bar) = bar.base + bar.kind BY DEF Pci!read_config
  <2>5. bar.base + bar.kind # 0 => Pci!Report(bar) \in Pci!Prints(devices)[p]
    BY <2>2, <2>4 DEF Pci!Prints
  <2> HIDE DEF bar
  <2>6. bar.base + bar.kind # 0 =>
          [at |-> bar.base - (bar.base % 16), io |-> bar.kind = 1,
           size |-> IF bar.size < 16 THEN 16 ELSE bar.size] \in Pci!Prints(devices)[p]
    BY <2>3, <2>5, RangeProbed
  <2> QED BY <2>6 DEF bar
<1> QED BY <1>1, <1>2 DEF Pci!ScanLaw

-----------------------------------------------------------------------------
(* What the run library asks of these is a part of it.                     *)

\* A call is one of those that are made, and stays.
LEMMA CallStays == MCSpec => [](call \in Calls \cup Readings \cup {Queue})
<1>1. MCInit => call \in Calls \cup Readings \cup {Queue} BY DEF MCInit
<1>2. call \in Calls \cup Readings \cup {Queue} /\ [MCNext]_<<vars, ownVars, call>>
        => (call \in Calls \cup Readings \cup {Queue})'
  BY Zenon DEF MCNext
<1> QED BY <1>1, <1>2, PTL DEF MCSpec

\* Which calls are which.
LEMMA CallsAre ==
  ASSUME call \in Calls \cup Readings \cup {Queue}
  PROVE  /\ call.is = "pci"  => call.devices \in Machines
         /\ call.is = "boot" => call.info \in Infos
         /\ call.is = "name" => call.name \in Names /\ call.other \in Names
<1>1. CASE call \in Calls
  <2>1. call.is \notin {"pci", "boot", "name"} BY <1>1 DEF Calls
  <2> QED BY <2>1
<1>2. CASE call \in Readings BY <1>2 DEF Readings
<1>3. CASE call = Queue BY <1>3 DEF Queue
<1> QED BY <1>1, <1>2, <1>3

\* The run's machines are machines.
LEMMA MachinesAre ==
  ASSUME NEW devices \in Machines
  PROVE  \E places : devices \in [places -> [multi : BOOLEAN, bars : [1 .. 2 -> Decoded]]]
<1>1. \A r \in Ranges : r \in Decoded
  <2>1. Pci!NoBar \in Decoded BY DEF Decoded
  <2>2. ASSUME NEW n \in {4, 16, 64}, NEW k \in 0 .. 3
        PROVE  [base |-> k * n, size |-> n, kind |-> 1] \in Decoded
    <3>1. k * n \in Nat /\ k * n < Pci!Words BY DEF Pci!Words
    <3>2. IsRange([base |-> k * n, size |-> n, kind |-> 1]) BY <3>1 DEF IsRange, RangeSizes
    <3> QED BY <3>1, <3>2 DEF Decoded
  <2>3. ASSUME NEW n \in {16, 64}, NEW k \in 0 .. 3
        PROVE  [base |-> k * n, size |-> n, kind |-> 8] \in Decoded
    <3>1. k * n \in Nat /\ k * n < Pci!Words BY DEF Pci!Words
    <3>2. IsRange([base |-> k * n, size |-> n, kind |-> 8]) BY <3>1 DEF IsRange, RangeSizes
    <3> QED BY <3>1, <3>2 DEF Decoded
  <2> QED BY <2>1, <2>2, <2>3 DEF Ranges
<1>2. ASSUME NEW r \in Decoded, NEW s \in Decoded, NEW multi \in BOOLEAN
      PROVE  Device(multi, r, s) \in [multi : BOOLEAN, bars : [1 .. 2 -> Decoded]]
  <2>1. <<r, s>> \in [1 .. 2 -> Decoded] OBVIOUS
  <2> QED BY <2>1 DEF Device
<1>3. [base |-> 64, size |-> 16, kind |-> 0] \in Decoded /\ Pci!NoBar \in Decoded
  <2> DEFINE bar == [base |-> 64, size |-> 16, kind |-> 0]
  <2>1. bar.base = 4 * bar.size /\ bar.base < Pci!Words BY DEF Pci!Words
  <2>2. bar.size \in RangeSizes /\ bar.kind \in {0, 2, 4, 6, 8, 10, 12, 14} /\ bar.size >= 16
    BY DEF RangeSizes
  <2>3. IsRange(bar) BY <2>1, <2>2 DEF IsRange
  <2>4. bar \in [base : Nat, size : Nat, kind : Nat] OBVIOUS
  <2> QED BY <2>3, <2>4 DEF Decoded
<1>4. ASSUME NEW r \in Ranges, NEW s \in Ranges, devices = Single(r, s)
      PROVE  \E places : devices \in [places -> [multi : BOOLEAN, bars : [1 .. 2 -> Decoded]]]
  <2>1. Device(FALSE, r, s) \in [multi : BOOLEAN, bars : [1 .. 2 -> Decoded]] BY <1>1, <1>2
  <2>2. Single(r, s) \in [{<<0, 0>>} -> [multi : BOOLEAN, bars : [1 .. 2 -> Decoded]]]
    BY <2>1 DEF Single
  <2> QED BY <1>4, <2>2
<1>5. ASSUME NEW multi \in BOOLEAN, NEW places, devices = Spread(multi, places)
      PROVE  \E there : devices \in [there -> [multi : BOOLEAN, bars : [1 .. 2 -> Decoded]]]
  <2>1. Device(multi, [base |-> 64, size |-> 16, kind |-> 0], Pci!NoBar)
          \in [multi : BOOLEAN, bars : [1 .. 2 -> Decoded]]
    BY <1>2, <1>3
  <2>2. Spread(multi, places) \in [places -> [multi : BOOLEAN, bars : [1 .. 2 -> Decoded]]]
    BY <2>1 DEF Spread
  <2> QED BY <1>5, <2>2
<1> QED BY <1>4, <1>5 DEF Machines

(* pci.cc:65-79: the scan moves no range and finds out how large it is, on *)
(* the machines of the run as on all (ScanExact).                          *)
THEOREM PciExactHolds == MCSpec => []PciExact
<1>1. call \in Calls \cup Readings \cup {Queue} => PciExact
  <2>1. SUFFICES ASSUME call \in Calls \cup Readings \cup {Queue}, call.is = "pci"
                 PROVE  Pci!ScanLaw(call.devices)
    BY Zenon DEF PciExact
  <2>2. call.devices \in Machines BY <2>1, CallsAre
  <2>3. \E places : call.devices \in [places -> [multi : BOOLEAN, bars : [1 .. 2 -> Decoded]]]
    BY <2>2, MachinesAre
  <2> QED BY <2>3, ScanExact
<1> QED BY <1>1, CallStays, PTL

\* A function to characters is a text.
LEMMA TextOf ==
  ASSUME NEW S, NEW T, S \subseteq T, NEW n \in Nat, NEW f \in [1 .. n -> S]
  PROVE  f \in Seq(T)
<1>1. f \in [1 .. n -> T] OBVIOUS
<1> QED BY <1>1, FunctionIsSeq

(* The characters of the run's texts.                                      *)
Chars == {"q", "v", "g", " "}

(* cmdline.hh:25-35, initrd.cc:48-65: a flag is found exactly when it is a *)
(* word of the line, and a name when it is the one that was copied, in the *)
(* texts of the run as in all (FlagsFound, NamesFound).                    *)
THEOREM FlagsExactHolds == MCSpec => []FlagsExact
<1>1. NUL \notin Chars BY DEF NUL, Chars
<1>2. \A key \in Keys : key \in Seq(Chars) /\ key # <<>> /\ \A j \in 1 .. Len(key) : ~ isspace(key[j])
  <2>1. ~ isspace("q") /\ ~ isspace("v") BY MCSpaceAssumption DEF isspace, MCSpace
  <2>2. "q" \in Chars /\ "v" \in Chars BY DEF Chars
  <2> HIDE DEF Chars
  <2>3. <<"q">> \in Seq(Chars) /\ <<"q">> # <<>> /\ \A j \in 1 .. Len(<<"q">>) : ~ isspace(<<"q">>[j])
    BY <2>1, <2>2
  <2>4. <<"v">> \in Seq(Chars) /\ <<"v">> # <<>> /\ \A j \in 1 .. Len(<<"v">>) : ~ isspace(<<"v">>[j])
    BY <2>1, <2>2
  <2>5. /\ <<"q", "v">> \in Seq(Chars) /\ <<"q", "v">> # <<>>
        /\ \A j \in 1 .. Len(<<"q", "v">>) : ~ isspace(<<"q", "v">>[j])
    BY <2>1, <2>2
  <2>6. /\ <<"v", "q", "v">> \in Seq(Chars) /\ <<"v", "q", "v">> # <<>>
        /\ \A j \in 1 .. Len(<<"v", "q", "v">>) : ~ isspace(<<"v", "q", "v">>[j])
    BY <2>1, <2>2
  <2> QED BY <2>3, <2>4, <2>5, <2>6, Zenon DEF Keys
<1>3. \A info \in Infos : info.cmdline \in Seq(Chars)
  <2>1. Lines \subseteq Seq(Chars)
    <3>0. \A k \in 0 .. 6 : k \in Nat OBVIOUS
    <3>1. \A k \in 0 .. 6 : \A f \in [1 .. k -> {"q", "v", " "}] : f \in Seq(Chars)
      <4>1. SUFFICES ASSUME NEW k \in 0 .. 6, NEW f \in [1 .. k -> {"q", "v", " "}] PROVE f \in Seq(Chars)
        OBVIOUS
      <4>2. {"q", "v", " "} \subseteq Chars BY Zenon DEF Chars
      <4> QED BY <3>0, <4>2, TextOf, Zenon
    <3> QED BY <3>1 DEF Lines
  <2>2. <<"q">> \in Seq(Chars) BY DEF Chars
  <2> QED BY <2>1, <2>2 DEF Infos
<1>4. Names \subseteq Seq(Chars)
  <2>1. \A k \in 0 .. 4 : \A f \in [1 .. k -> {"q", "v"}] : f \in Seq(Chars)
    <3>1. SUFFICES ASSUME NEW k \in 0 .. 4, NEW f \in [1 .. k -> {"q", "v"}] PROVE f \in Seq(Chars)
      OBVIOUS
    <3>2. {"q", "v"} \subseteq Chars /\ k \in Nat BY DEF Chars
    <3> QED BY <3>2, TextOf, Zenon
  <2> QED BY <2>1 DEF Names
<1>5. ASSUME call \in Calls \cup Readings \cup {Queue} PROVE FlagsExact
  <2>1. CASE call.is = "boot"
    <3>1. call.info.cmdline \in Seq(Chars) BY <1>3, <1>5, <2>1, CallsAre
    <3>2. ASSUME NEW mb \in init(call.src, call.info), NEW key \in Keys
          PROVE  FlagsLaw(key, call.info, mb)
      BY <1>1, <1>2, <3>1, <3>2, CmdlineAssumption, FlagsFound, Zenon
    <3> QED BY <2>1, <3>2, Zenon DEF FlagsExact
  <2>2. CASE call.is = "name"
    <3>1. call.name \in Seq(Chars) /\ call.other \in Seq(Chars) BY <1>4, <1>5, <2>2, CallsAre
    <3>2. NameLaw(call.name, call.other, 4) BY <1>1, <3>1, NamesFound
    <3> QED BY <2>2, <3>2 DEF FlagsExact
  <2>3. CASE call.is # "boot" /\ call.is # "name" BY <2>3 DEF FlagsExact
  <2> QED BY <2>1, <2>2, <2>3, Zenon
<1> QED BY <1>5, CallStays, PTL
=============================================================================

---------------------------- MODULE SchedProofs -----------------------------
(***************************************************************************)
(* The scheduler for every queue capacity, every number of tasks and every *)
(* content of the registers: no task is lost or owned twice, user code     *)
(* runs in its own address space, a task switch can neither find no        *)
(* current task nor overflow the ready queue, nobody is overtaken in the   *)
(* queue, and time slicing is invisible to user threads.                   *)
(***************************************************************************)
EXTENDS Sched, SequenceTheorems, TLAPS

\* Moving the head out of a queue and another element to its tail.
LEMMA Rotation ==
  ASSUME NEW S, NEW q \in Seq(S), q # <<>>, NEW c \in S
  PROVE  /\ Append(Tail(q), c) \in Seq(S)
         /\ Len(q) \in Nat \ {0}
         /\ Len(Tail(q)) = Len(q) - 1
         /\ Len(Append(Tail(q), c)) = Len(q)
         /\ \A i \in 1 .. Len(q) : Append(Tail(q), c)[i] = IF i = Len(q) THEN c ELSE q[i + 1]
         /\ Head(q) = q[1]
         /\ Tail(q) \in Seq(S)
  <1> DEFINE r == Tail(q)
  <1>1. Len(q) \in Nat \ {0} /\ Head(q) = q[1]
    BY EmptySeq, HeadTailProperties
  <1>2. r \in Seq(S) /\ Len(r) = Len(q) - 1 /\ \A i \in 1 .. Len(r) : r[i] = q[i + 1]
    BY HeadTailProperties
  <1> HIDE DEF r
  <1>3. /\ Append(r, c) \in Seq(S) /\ Len(Append(r, c)) = Len(r) + 1
        /\ \A i \in 1 .. Len(r) : Append(r, c)[i] = r[i]
        /\ Append(r, c)[Len(r) + 1] = c
    BY <1>2, AppendProperties
  <1>4. ASSUME NEW i \in 1 .. Len(q)
        PROVE  Append(r, c)[i] = IF i = Len(q) THEN c ELSE q[i + 1]
    <2>1. CASE i = Len(q)
      BY <1>1, <1>2, <1>3, <2>1
    <2>2. CASE i # Len(q)
      <3>1. i \in 1 .. Len(r)
        BY <1>1, <1>2, <2>2
      <3> QED
        BY <1>2, <1>3, <2>2, <3>1
    <2> QED
      BY <2>1, <2>2
  <1>5. Len(Append(r, c)) = Len(q)
    BY <1>1, <1>2, <1>3
  <1> QED
    BY <1>1, <1>2, <1>3, <1>4, <1>5, Zenon DEF r

\* The state in which kmain enables interrupts.
LEMMA InitSched == Init => SchedInv
  <1> SUFFICES ASSUME Init PROVE SchedInv
    OBVIOUS
  <1>1. task = <<>> /\ ready_queue = <<>> /\ Len(task) = 0 /\ Len(ready_queue) = 0
    BY DEF Init
  <1>2. DOMAIN task = {} /\ DOMAIN ready_queue = {} /\ 1 .. Len(task) = {}
    BY <1>1
  <1>3. TypeOK
    BY <1>1, SizeAssumption, ContextAssumption DEF Init, TypeOK, null, kernel_pdir
  <1>4. BootInv /\ CountInv /\ PidInv
    BY <1>1, <1>2, SizeAssumption DEF Init, BootInv, CountInv, PidInv, Running
  <1>5. OneOwner
    <2>1. Waiting = {}
      BY <1>2 DEF Waiting
    <2> QED
      BY <1>2, <2>1 DEF Init, OneOwner
  <1>6. StartedInv /\ OwnSpace /\ NoNullSwitch /\ OverflowOnlyOnCreate
    BY DEF Init, StartedInv, OwnSpace, NoNullSwitch, OverflowOnlyOnCreate, Running
  <1> QED
    BY <1>3, <1>4, <1>5, <1>6 DEF SchedInv

-----------------------------------------------------------------------------
\* A step that touches no task and no queue and leaves the phase alone.
LEMMA QuietStep ==
  ASSUME SchedInv,
         UNCHANGED <<stage, current_task_, ready_queue, task, pcount, cr3, esp0>>,
         cpu' \in [Reg -> Word], jiffy' \in 0 .. jiffies_per_slice - 1
  PROVE  SchedInv'
  BY DEF SchedInv, TypeOK, BootInv, CountInv, PidInv, StartedInv, OneOwner, OwnSpace,
         NoNullSwitch, OverflowOnlyOnCreate, Waiting, Running

\* Updates of one task_t: its saved frame, and the mark of its first run.
LEMMA FrameUpdate ==
  ASSUME NEW t \in Task, NEW f \in [Reg -> Word]
  PROVE  LET u == [t EXCEPT !.frame = f] IN
         u \in Task /\ u.pid = t.pid /\ u.pdir = t.pdir /\ u.started = t.started /\ u.frame = f
  BY DEF Task

LEMMA MarkUpdate ==
  ASSUME NEW t \in Task
  PROVE  LET u == [t EXCEPT !.started = TRUE] IN
         u \in Task /\ u.pid = t.pid /\ u.pdir = t.pdir /\ u.started /\ u.frame = t.frame
  BY DEF Task

\* What the saved tasks look like after a switch: only the frame of the task
\* switched out and the mark of the task switched in have changed.
LEMMA SavedTasks ==
  ASSUME SchedInv, current_task_ # null, NEW next \in 1 .. Len(task)
  PROVE  /\ Saved(next) \in Seq(Task)
         /\ Len(Saved(next)) = Len(task)
         /\ \A t \in 1 .. Len(task) : Saved(next)[t].pid = task[t].pid
                                   /\ Saved(next)[t].pdir = task[t].pdir
         /\ Saved(next)[next].started
         /\ \A t \in 1 .. Len(task) : t \notin {next, current_task_} => Saved(next)[t] = task[t]
         /\ next # current_task_ =>
              /\ Saved(next)[current_task_].started = task[current_task_].started
              /\ Saved(next)[current_task_].frame = cpu
  <1> DEFINE out == [task[current_task_] EXCEPT !.frame = cpu]
             mid == [task EXCEPT ![current_task_] = out]
             in == [mid[next] EXCEPT !.started = TRUE]
  <1>1. task \in Seq(Task) /\ Len(task) \in Nat /\ current_task_ \in 1 .. Len(task)
        /\ cpu \in [Reg -> Word]
    BY DEF SchedInv, TypeOK, null
  <1>2. \A t \in 1 .. Len(task) : task[t] \in Task
    BY <1>1, ElementOfSeq
  <1>3. out \in Task /\ out.pid = task[current_task_].pid /\ out.pdir = task[current_task_].pdir
        /\ out.started = task[current_task_].started /\ out.frame = cpu
    <2>1. PICK c \in Task : c = task[current_task_]
      BY <1>1, <1>2
    <2> QED
      BY <1>1, <2>1, FrameUpdate
  <1>4. Saved(next) = [mid EXCEPT ![next] = in]
    BY DEF Saved
  <1> HIDE DEF out
  <1>5. /\ mid \in Seq(Task) /\ Len(mid) = Len(task)
        /\ \A t \in 1 .. Len(task) : mid[t] = IF t = current_task_ THEN out ELSE task[t]
    BY <1>1, <1>3, ExceptSeq
  <1>6. mid[next] \in Task
    BY <1>5, ElementOfSeq
  <1> HIDE DEF mid
  <1>7. in \in Task /\ in.pid = mid[next].pid /\ in.pdir = mid[next].pdir /\ in.started
    BY <1>6, MarkUpdate
  <1> HIDE DEF in
  <1>8. /\ Saved(next) \in Seq(Task) /\ Len(Saved(next)) = Len(task)
        /\ \A t \in 1 .. Len(task) : Saved(next)[t] = IF t = next THEN in ELSE mid[t]
    BY <1>4, <1>5, <1>7, ExceptSeq
  <1> QED
    BY <1>1, <1>3, <1>5, <1>7, <1>8

\* A switch from a current task to the head of the ready queue: it neither
\* overflows the queue nor loses a task, and it leaves the processor in the
\* next task's page directory, because that is the current one's if no switch
\* of the page directory takes place.
LEMMA SwitchStep ==
  ASSUME SchedInv, Running, ready_queue # <<>>,
         switch_task(Head(ready_queue), Tail(ready_queue)),
         jiffy' \in 0 .. jiffies_per_slice - 1, UNCHANGED pcount
  PROVE  SchedInv'
  <1> DEFINE next == Head(ready_queue)
             n == Len(ready_queue)
  <1>1. /\ task \in Seq(Task) /\ Len(task) \in Nat /\ ready_queue \in Seq(1 .. Len(task))
        /\ current_task_ \in 1 .. Len(task) /\ current_task_ # null
        /\ cpu \in [Reg -> Word] /\ Len(ready_queue) =< Cap /\ Len(task) = n + 1
        /\ DOMAIN ready_queue = 1 .. n /\ Cap \in Nat
    BY SizeAssumption DEF SchedInv, TypeOK, CountInv, Running, null
  <1>2. /\ n \in Nat \ {0} /\ next = ready_queue[1] /\ next \in 1 .. Len(task)
        /\ Len(Tail(ready_queue)) = n - 1
    BY <1>1, Rotation, ElementOfSeq
  <1>3. /\ ready_queue' = Append(Tail(ready_queue), current_task_)
        /\ current_task_' = next /\ task' = Saved(next) /\ cr3' = PdirAfter(next)
        /\ esp0' = next /\ UNCHANGED stage
        /\ cpu' = IF task[next].started THEN task[next].frame ELSE FirstFrame(cpu, task[next])
    BY <1>1, <1>2 DEF switch_task, Enqueued
  <1>4. /\ ready_queue' \in Seq(1 .. Len(task)) /\ Len(ready_queue') = n
        /\ DOMAIN ready_queue' = 1 .. n
        /\ \A i \in 1 .. n : ready_queue'[i] = IF i = n THEN current_task_ ELSE ready_queue[i + 1]
    <2> DEFINE S == 1 .. Len(task)
               q == Append(Tail(ready_queue), current_task_)
    <2>1. ready_queue \in Seq(S) /\ current_task_ \in S
      BY <1>1
    <2> HIDE DEF S
    <2>2. /\ q \in Seq(S) /\ Len(q) = Len(ready_queue)
          /\ \A i \in 1 .. Len(ready_queue) :
               q[i] = IF i = Len(ready_queue) THEN current_task_ ELSE ready_queue[i + 1]
      BY <2>1, Rotation
    <2> HIDE DEF q
    <2>3. DOMAIN q = 1 .. n
      BY <2>2, LenProperties
    <2>4. ready_queue' = q
      BY <1>3 DEF q
    <2> QED
      BY <2>2, <2>3, <2>4 DEF S
  <1>5. /\ task' \in Seq(Task) /\ Len(task') = Len(task) /\ DOMAIN task' = DOMAIN task
        /\ DOMAIN task = 1 .. Len(task)
        /\ \A t \in 1 .. Len(task) : task'[t].pid = task[t].pid /\ task'[t].pdir = task[t].pdir
        /\ task'[next].started
    BY <1>1, <1>2, <1>3, SavedTasks
  <1> HIDE DEF next, n
  <1>6. cpu' \in [Reg -> Word] /\ cr3' \in Nat /\ cr3' = task'[next].pdir
    <2>1. task[next] \in Task
      BY <1>1, <1>2, ElementOfSeq
    <2>2. FirstFrame(cpu, task[next]) \in [Reg -> Word]
      BY <1>1, <2>1 DEF FirstFrame, Task, Reg
    <2>3. cr3 = task[current_task_].pdir /\ cr3 \in Nat
      BY DEF SchedInv, OwnSpace, TypeOK
    <2> QED
      BY <1>2, <1>3, <1>5, <2>1, <2>2, <2>3 DEF PdirAfter, Task
  <1>7. TypeOK'
    <2>1. current_task_' \in 0 .. Len(task') /\ esp0' \in 0 .. Len(task')
      BY <1>1, <1>2, <1>3, <1>5
    <2>2. ready_queue' \in Seq(1 .. Len(task'))
      BY <1>4, <1>5
    <2>3. stage' = "user" /\ pcount' \in Nat
      BY <1>3 DEF SchedInv, TypeOK, Running
    <2> QED
      BY <1>5, <1>6, <2>1, <2>2, <2>3 DEF TypeOK
  <1>8. BootInv' /\ CountInv' /\ PidInv'
    <2>1. BootInv'
      BY <1>3 DEF BootInv, Running
    <2>2. CountInv'
      BY <1>1, <1>2, <1>3, <1>4, <1>5 DEF SchedInv, CountInv, null
    <2>3. PidInv'
      BY <1>5 DEF SchedInv, PidInv
    <2> QED
      BY <2>1, <2>2, <2>3
  <1>9. OneOwner'
    <2>1. /\ \A i, j \in 1 .. n : i # j => ready_queue[i] # ready_queue[j]
          /\ \A i \in 1 .. n : ready_queue[i] # current_task_
          /\ \A t \in 1 .. Len(task) : t = current_task_ \/ \E i \in 1 .. n : t = ready_queue[i]
      BY <1>1 DEF SchedInv, OneOwner, Running, Waiting, n
    <2>2. \A i, j \in 1 .. n : i # j => ready_queue'[i] # ready_queue'[j]
      BY <1>2, <1>4, <2>1
    <2>3. \A i \in 1 .. n : ready_queue'[i] # next /\ ready_queue'[i] \in 1 .. Len(task)
      <3> SUFFICES ASSUME NEW i \in 1 .. n
                   PROVE  ready_queue'[i] # next /\ ready_queue'[i] \in 1 .. Len(task)
        OBVIOUS
      <3>1. ready_queue'[i] \in 1 .. Len(task)
        BY <1>4, ElementOfSeq
      <3>2. CASE i = n
        BY <1>2, <1>4, <2>1, <3>1, <3>2
      <3>3. CASE i # n
        <4>1. i + 1 \in 1 .. n /\ 1 \in 1 .. n /\ i + 1 # 1
          BY <1>2, <3>3
        <4>2. ready_queue'[i] = ready_queue[i + 1]
          BY <1>4, <3>3
        <4> QED
          BY <1>2, <2>1, <3>1, <4>1, <4>2
      <3> QED
        BY <3>2, <3>3
    <2>4. ASSUME NEW t \in 1 .. Len(task), t # next
          PROVE  \E i \in 1 .. n : t = ready_queue'[i]
      <3>1. CASE t = current_task_
        BY <1>2, <1>4, <3>1
      <3>2. CASE t # current_task_
        <4>1. PICK i \in 1 .. n : t = ready_queue[i]
          BY <2>1, <3>2
        <4>2. i # 1 /\ i - 1 \in 1 .. n /\ i - 1 # n /\ (i - 1) + 1 = i
          BY <1>2, <2>4, <4>1
        <4> QED
          BY <1>4, <4>1, <4>2
      <3> QED
        BY <3>1, <3>2
    <2>5. Waiting' = {ready_queue'[i] : i \in 1 .. n}
      BY <1>4 DEF Waiting
    <2>6. next # null
      BY <1>2 DEF null
    <2>7. Waiting' \cup ({next} \ {null}) = 1 .. Len(task)
      BY <1>2, <2>3, <2>4, <2>5, <2>6
    <2>8. next \notin Waiting'
      BY <2>3, <2>5
    <2> QED
      BY <1>3, <1>4, <1>5, <2>2, <2>7, <2>8 DEF OneOwner
  <1>10. StartedInv' /\ OwnSpace' /\ NoNullSwitch' /\ OverflowOnlyOnCreate'
    BY <1>3, <1>5, <1>6 DEF StartedInv, OwnSpace, NoNullSwitch, OverflowOnlyOnCreate, Running
  <1> QED
    BY <1>7, <1>8, <1>9, <1>10 DEF SchedInv

\* A new task at the tail of the queue is owned by the queue alone.
LEMMA NewTaskQueued ==
  ASSUME SchedInv, stage \in {"enqueue", "user"}, Len(ready_queue) < Cap, Len(task) < MaxTasks,
         NEW t \in Task, t.pid = t.pdir, t.pid =< pcount',
         task' = Append(task, t), ready_queue' = Append(ready_queue, Len(task) + 1),
         pcount' \in Nat, pcount =< pcount', pcount' =< pcount + 1,
         \/ stage = "enqueue" /\ stage' = "execute"
         \/ stage = "user" /\ stage' = "user",
         UNCHANGED <<current_task_, cr3, esp0, cpu, jiffy>>
  PROVE  SchedInv'
  <1> DEFINE n == Len(ready_queue)
             m == Len(task)
  <1>1. /\ task \in Seq(Task) /\ m \in Nat /\ ready_queue \in Seq(1 .. m) /\ n \in Nat
        /\ current_task_ \in 0 .. m /\ DOMAIN ready_queue = 1 .. n /\ DOMAIN task = 1 .. m
    BY LenProperties DEF SchedInv, TypeOK
  <1>2. /\ task' \in Seq(Task) /\ Len(task') = m + 1 /\ DOMAIN task' = 1 .. m + 1
        /\ \A s \in 1 .. m : task'[s] = task[s]
        /\ task'[m + 1] = t
    BY <1>1, AppendProperties, LenProperties
  <1>3. ready_queue \in Seq(1 .. m + 1)
    BY <1>1, SeqMonotonic
  <1>4. /\ ready_queue' \in Seq(1 .. m + 1) /\ Len(ready_queue') = n + 1
        /\ DOMAIN ready_queue' = 1 .. n + 1
        /\ \A i \in 1 .. n : ready_queue'[i] = ready_queue[i]
        /\ ready_queue'[n + 1] = m + 1
    BY <1>1, <1>3, AppendProperties, LenProperties
  <1> HIDE DEF n, m
  <1>5. TypeOK'
    <2>1. current_task_' \in 0 .. Len(task') /\ esp0' \in 0 .. Len(task')
      BY <1>1, <1>2 DEF SchedInv, TypeOK, m
    <2> QED
      BY <1>2, <1>4, <2>1 DEF SchedInv, TypeOK
  <1>6. BootInv'
    <2>1. ASSUME stage = "enqueue" PROVE m = 0 /\ n = 0 /\ current_task_ = null
      BY <2>1, EmptySeq DEF SchedInv, BootInv, n, m
    <2> QED
      BY <1>2, <1>4, <2>1 DEF BootInv
  <1>7. CountInv'
    <2>1. pcount \in Nat /\ pcount =< m /\ m < MaxTasks /\ n < Cap
      BY DEF SchedInv, TypeOK, CountInv, n, m
    <2>2. ASSUME stage = "user" PROVE current_task_ # null /\ m = n + 1
      BY <2>2 DEF SchedInv, CountInv, Running, n, m
    <2> QED
      BY <1>1, <1>2, <1>4, <2>1, <2>2, SizeAssumption DEF CountInv, Running
  <1>8. PidInv'
    <2> SUFFICES ASSUME NEW s \in 1 .. m + 1
                 PROVE  task'[s].pid = task'[s].pdir /\ task'[s].pid =< pcount'
      BY <1>2 DEF PidInv
    <2>1. CASE s = m + 1
      BY <1>2, <2>1
    <2>2. CASE s # m + 1
      <3>1. s \in 1 .. m /\ task'[s] = task[s] /\ task[s] \in Task
        BY <1>1, <1>2, <2>2, ElementOfSeq DEF m
      <3>2. task[s].pid = task[s].pdir /\ task[s].pid =< pcount /\ task[s].pid \in Nat /\ pcount \in Nat
        BY <1>1, <3>1 DEF SchedInv, PidInv, TypeOK, Task
      <3> QED
        BY <3>1, <3>2
    <2> QED
      BY <2>1, <2>2
  <1>9. OneOwner'
    <2>1. /\ \A i, j \in 1 .. n : i # j => ready_queue[i] # ready_queue[j]
          /\ \A i \in 1 .. n : ready_queue[i] # current_task_ /\ ready_queue[i] \in 1 .. m
          /\ \A s \in 1 .. m : s = current_task_ \/ \E i \in 1 .. n : s = ready_queue[i]
      <3>1. \A i \in 1 .. n : ready_queue[i] \in 1 .. m
        BY <1>1, ElementOfSeq DEF n
      <3> QED
        BY <1>1, <3>1 DEF SchedInv, OneOwner, Waiting, m, null
    <2>2. \A i, j \in 1 .. n + 1 : i # j => ready_queue'[i] # ready_queue'[j]
      BY <1>1, <1>4, <2>1
    <2>3. Waiting' = {ready_queue'[i] : i \in 1 .. n + 1}
      BY <1>4 DEF Waiting
    <2>4. \A i \in 1 .. n + 1 : ready_queue'[i] # current_task_ /\ ready_queue'[i] \in 1 .. m + 1
      BY <1>1, <1>4, <2>1
    <2>5. \A s \in 1 .. m + 1 : s = current_task_ \/ \E i \in 1 .. n + 1 : s = ready_queue'[i]
      <3> SUFFICES ASSUME NEW s \in 1 .. m + 1, s # current_task_
                   PROVE  \E i \in 1 .. n + 1 : s = ready_queue'[i]
        OBVIOUS
      <3>1. CASE s = m + 1
        BY <1>1, <1>4, <3>1
      <3>2. CASE s # m + 1
        <4>1. s \in 1 .. m
          BY <1>1, <3>2
        <4>2. PICK i \in 1 .. n : s = ready_queue[i]
          BY <2>1, <4>1
        <4> QED
          BY <1>1, <1>4, <4>2
      <3> QED
        BY <3>1, <3>2
    <2>6. current_task_ \notin Waiting' /\ Waiting' \cup ({current_task_} \ {null}) = 1 .. m + 1
      <3>1. current_task_ \notin Waiting' /\ Waiting' \subseteq 1 .. m + 1
        BY <2>3, <2>4
      <3>2. {current_task_} \ {null} \subseteq 1 .. m + 1
        BY <1>1 DEF null
      <3>3. ASSUME NEW s \in 1 .. m + 1, s # current_task_ PROVE s \in Waiting'
        BY <2>3, <2>5, <3>3
      <3>4. ASSUME NEW s \in 1 .. m + 1, s = current_task_ PROVE s \in {current_task_} \ {null}
        BY <1>1, <3>4 DEF null
      <3> QED
        BY <3>1, <3>2, <3>3, <3>4
    <2> QED
      BY <1>2, <1>4, <2>2, <2>6 DEF OneOwner
  <1>10. OwnSpace' /\ StartedInv'
    <2>1. ASSUME Running
          PROVE  current_task_ \in 1 .. m /\ task'[current_task_] = task[current_task_]
      BY <1>1, <1>2, <2>1 DEF SchedInv, CountInv, null
    <2> QED
      BY <2>1 DEF SchedInv, OwnSpace, StartedInv, Running
  <1>11. NoNullSwitch' /\ OverflowOnlyOnCreate'
    BY DEF NoNullSwitch, OverflowOnlyOnCreate
  <1> QED
    BY <1>5, <1>6, <1>7, <1>8, <1>9, <1>10, <1>11 DEF SchedInv

\* The task_t of a process that has been loaded.
LEMMA LoadedTask ==
  ASSUME SchedInv, stage \in {"enqueue", "execute"},
         NEW entry \in UserContexts[Len(task) + 1], NEW garbage \in Garbage
  PROVE  LET t == from_elf(entry, garbage) IN
         t \in Task /\ t.pid = pcount + 1 /\ t.pdir = pcount + 1 /\ ~ t.started
  <1>1. Len(task) + 1 \in 1 .. MaxTasks /\ pcount \in Nat
    <2>1. Len(task) \in Nat /\ Len(task) =< 1 /\ pcount \in Nat
      BY EmptySeq DEF SchedInv, TypeOK, BootInv
    <2> QED
      BY <2>1, SizeAssumption
  <1>2. entry \in [Reg -> Word] /\ garbage \in [Reg -> Word]
    BY <1>1, ContextAssumption
  <1>3. entry["useresp"] \in Word /\ entry["eip"] \in Word
    BY <1>2 DEF Reg
  <1> QED
    BY <1>1, <1>2, <1>3 DEF from_elf, Task

\* Running the first task makes it the owner of itself.
LEMMA FirstTaskRuns ==
  ASSUME SchedInv, LoadAndExecute
  PROVE  SchedInv'
  <1> DEFINE m == Len(task)
  <1>1. /\ task \in Seq(Task) /\ m \in Nat /\ ready_queue \in Seq(1 .. m) /\ m =< 1
        /\ Len(ready_queue) = m /\ current_task_ = null /\ pcount \in Nat /\ pcount =< m
        /\ DOMAIN ready_queue = 1 .. m /\ DOMAIN task = 1 .. m
        /\ jiffy \in 0 .. jiffies_per_slice - 1
    BY LenProperties DEF SchedInv, TypeOK, BootInv, CountInv, LoadAndExecute
  <1>2. PICK entry \in UserContexts[Len(task) + 1], garbage \in Garbage :
          /\ task' = Append(task, [from_elf(entry, garbage) EXCEPT !.started = TRUE])
          /\ cpu' = [garbage EXCEPT !["eip"] = entry["eip"], !["useresp"] = entry["useresp"],
                                    !["eflags"] = 1]
    BY DEF LoadAndExecute
  <1> DEFINE new == [from_elf(entry, garbage) EXCEPT !.started = TRUE]
  <1>3. entry \in [Reg -> Word] /\ garbage \in [Reg -> Word] /\ 1 \in Word /\ m + 1 =< MaxTasks
    BY <1>1, SizeAssumption, ContextAssumption DEF Word
  <1>4. new \in Task /\ new.pid = pcount + 1 /\ new.pdir = pcount + 1 /\ new.started
    <2> DEFINE loaded == from_elf(entry, garbage)
    <2>1. loaded \in Task /\ loaded.pid = pcount + 1 /\ loaded.pdir = pcount + 1
      BY <1>2, LoadedTask DEF LoadAndExecute
    <2> HIDE DEF loaded
    <2>2. [loaded EXCEPT !.started = TRUE] \in Task
          /\ [loaded EXCEPT !.started = TRUE].pid = loaded.pid
          /\ [loaded EXCEPT !.started = TRUE].pdir = loaded.pdir
          /\ [loaded EXCEPT !.started = TRUE].started
      BY <2>1, MarkUpdate
    <2> QED
      BY <2>1, <2>2 DEF loaded
  <1> HIDE DEF new
  <1>5. /\ task' \in Seq(Task) /\ Len(task') = m + 1 /\ DOMAIN task' = 1 .. m + 1
        /\ \A s \in 1 .. m : task'[s] = task[s]
        /\ task'[m + 1] = new
    <2>1. task' = Append(task, new)
      BY <1>2 DEF new
    <2> QED
      BY <1>1, <1>4, <2>1, AppendProperties, LenProperties
  <1>6. /\ pcount' = pcount + 1 /\ current_task_' = m + 1 /\ cr3' = pcount + 1 /\ esp0' = m + 1
        /\ stage' = "user" /\ stage = "execute" /\ UNCHANGED <<ready_queue, jiffy>>
    BY DEF LoadAndExecute
  <1>7. ready_queue \in Seq(1 .. m + 1)
    BY <1>1, SeqMonotonic
  <1> HIDE DEF m
  <1>8. TypeOK'
    <2>1. cpu' \in [Reg -> Word]
      BY <1>2, <1>3 DEF Reg
    <2>2. current_task_' \in 0 .. Len(task') /\ esp0' \in 0 .. Len(task')
      BY <1>1, <1>5, <1>6
    <2> QED
      BY <1>1, <1>5, <1>6, <1>7, <2>1, <2>2 DEF TypeOK
  <1>9. BootInv' /\ CountInv'
    BY <1>1, <1>3, <1>5, <1>6, SizeAssumption DEF BootInv, CountInv, Running, null, SchedInv
  <1>10. PidInv'
    <2> SUFFICES ASSUME NEW s \in 1 .. m + 1
                 PROVE  task'[s].pid = task'[s].pdir /\ task'[s].pid =< pcount'
      BY <1>5 DEF PidInv
    <2>1. CASE s = m + 1
      BY <1>1, <1>4, <1>5, <1>6, <2>1
    <2>2. CASE s # m + 1
      <3>1. s \in 1 .. m /\ task'[s] = task[s] /\ task[s] \in Task
        BY <1>1, <1>5, <2>2, ElementOfSeq DEF m
      <3>2. task[s].pid = task[s].pdir /\ task[s].pid =< pcount /\ task[s].pid \in Nat
        BY <1>1, <3>1 DEF SchedInv, PidInv, Task
      <3> QED
        BY <1>1, <1>6, <3>1, <3>2
    <2> QED
      BY <2>1, <2>2
  <1>11. OneOwner'
    <2>1. Waiting = 1 .. m /\ Waiting' = Waiting
      BY <1>1, <1>6 DEF SchedInv, OneOwner, Waiting, m
    <2>2. \A i, j \in DOMAIN ready_queue : i # j => ready_queue[i] # ready_queue[j]
      BY <1>6 DEF SchedInv, OneOwner
    <2>3. (1 .. m) \cup ({m + 1} \ {null}) = 1 .. m + 1 /\ m + 1 \notin 1 .. m
      BY <1>1 DEF null
    <2> QED
      BY <1>5, <1>6, <2>1, <2>2, <2>3 DEF OneOwner
  <1>12. StartedInv' /\ OwnSpace' /\ NoNullSwitch' /\ OverflowOnlyOnCreate'
    BY <1>4, <1>5, <1>6 DEF StartedInv, OwnSpace, NoNullSwitch, OverflowOnlyOnCreate
  <1> QED
    BY <1>8, <1>9, <1>10, <1>11, <1>12 DEF SchedInv

\* A task created by user code.
LEMMA ThreadCreated ==
  ASSUME SchedInv, SysThreadCreate
  PROVE  SchedInv'
  <1> DEFINE t == make_thread(task[current_task_], cpu)
             c == task[current_task_]
  <1>1. /\ task \in Seq(Task) /\ Len(task) \in Nat /\ current_task_ \in 1 .. Len(task)
        /\ cpu \in [Reg -> Word] /\ pcount \in Nat /\ ready_queue \in Seq(1 .. Len(task))
        /\ DOMAIN task = 1 .. Len(task)
    BY LenProperties DEF SchedInv, TypeOK, CountInv, SysThreadCreate, null
  <1>2. c \in Task /\ c.pid = c.pdir /\ c.pid =< pcount
    BY <1>1, ElementOfSeq DEF SchedInv, PidInv
  <1> HIDE DEF c
  <1>3. t \in Task /\ t.pid = c.pid /\ t.pdir = c.pdir
    <2>1. Offset(cpu["ecx"], cpu["edx"]) \in Word
      <3>1. cpu["ecx"] \in Nat /\ cpu["edx"] \in Nat
        BY <1>1 DEF Reg, Word
      <3> QED
        BY <3>1, SizeAssumption DEF Offset, Word
    <2>2. [c.frame EXCEPT !["eax"] = cpu["esi"], !["ebx"] = cpu["edi"]] \in [Reg -> Word]
      BY <1>1, <1>2 DEF Reg, Task
    <2>3. cpu["ebx"] \in Word
      BY <1>1 DEF Reg
    <2>4. t = [c EXCEPT !.started = FALSE, !.pc = cpu["ebx"],
                        !.stack = Offset(cpu["ecx"], cpu["edx"]),
                        !.frame = [c.frame EXCEPT !["eax"] = cpu["esi"], !["ebx"] = cpu["edi"]]]
      BY DEF make_thread, c
    <2> QED
      BY <1>2, <2>1, <2>2, <2>3, <2>4 DEF Task
  <1>4. task' = Append(task, t) /\ add_task(Len(task) + 1) /\ Len(task) < MaxTasks
        /\ stage = "user" /\ UNCHANGED <<current_task_, pcount, cr3, esp0, cpu, jiffy>>
    BY DEF SysThreadCreate, Running
  <1> HIDE DEF t
  <1>5. CASE Len(ready_queue) < Cap
    <2>1. ready_queue' = Append(ready_queue, Len(task) + 1) /\ stage' = "user"
      BY <1>1, <1>4, <1>5, SizeAssumption DEF add_task, Enqueued
    <2> QED
      BY <1>1, <1>2, <1>3, <1>4, <1>5, <2>1, NewTaskQueued
  <1>6. CASE Len(ready_queue) = Cap
    <2>1. stage' = "overflow" /\ ready_queue' = ready_queue
      BY <1>4, <1>6, SizeAssumption DEF add_task
    <2>2. /\ task' \in Seq(Task) /\ Len(task') = Len(task) + 1 /\ DOMAIN task' = 1 .. Len(task) + 1
          /\ \A s \in 1 .. Len(task) : task'[s] = task[s]
          /\ task'[Len(task) + 1] = t
      BY <1>1, <1>3, <1>4, AppendProperties, LenProperties
    <2>3. ready_queue' \in Seq(1 .. Len(task'))
      <3>1. 1 .. Len(task) \subseteq 1 .. Len(task) + 1
        BY <1>1
      <3> QED
        BY <1>1, <2>1, <2>2, <3>1, SeqMonotonic
    <2>4. TypeOK'
      <3>1. current_task_' \in 0 .. Len(task') /\ esp0' \in 0 .. Len(task')
        BY <1>1, <1>4, <2>2 DEF SchedInv, TypeOK
      <3> QED
        BY <1>4, <2>1, <2>2, <2>3, <3>1 DEF SchedInv, TypeOK
    <2>5. BootInv' /\ CountInv' /\ StartedInv' /\ OneOwner' /\ OwnSpace' /\ NoNullSwitch'
      BY <1>1, <1>4, <1>6, <2>1, <2>2, SizeAssumption
      DEF SchedInv, BootInv, CountInv, StartedInv, OneOwner, OwnSpace, NoNullSwitch, Running
    <2>6. PidInv'
      <3> SUFFICES ASSUME NEW s \in 1 .. Len(task) + 1
                   PROVE  task'[s].pid = task'[s].pdir /\ task'[s].pid =< pcount'
        BY <2>2 DEF PidInv
      <3>1. CASE s = Len(task) + 1
        BY <1>2, <1>3, <1>4, <2>2, <3>1
      <3>2. CASE s # Len(task) + 1
        <4>1. s \in 1 .. Len(task)
          BY <1>1, <3>2
        <4> QED
          BY <1>1, <1>4, <2>2, <4>1 DEF SchedInv, PidInv
      <3> QED
        BY <3>1, <3>2
    <2>7. OverflowOnlyOnCreate'
      BY <1>4, <1>6, <2>2, SizeAssumption DEF SchedInv, CountInv, OverflowOnlyOnCreate, Running
    <2> QED
      BY <2>4, <2>5, <2>6, <2>7 DEF SchedInv
  <1> QED
    BY <1>4, <1>5, <1>6 DEF add_task

\* The steps of kmain that set up no running task.
LEMMA BootSteps ==
  ASSUME SchedInv, Cli \/ LoadAndEnqueue \/ LoadFails \/ ExecuteFails
  PROVE  SchedInv'
  <1>1. CASE LoadAndEnqueue
    <2>1. PICK entry \in UserContexts[Len(task) + 1], garbage \in Garbage :
            task' = Append(task, from_elf(entry, garbage))
      BY <1>1 DEF LoadAndEnqueue
    <2>2. task = <<>> /\ ready_queue = <<>> /\ pcount \in Nat /\ Len(task) = 0 /\ Len(ready_queue) = 0
      BY <1>1, EmptySeq DEF SchedInv, BootInv, TypeOK, LoadAndEnqueue
    <2> DEFINE t == from_elf(entry, garbage)
    <2>4. t \in Task /\ t.pid = pcount + 1 /\ t.pdir = pcount + 1
      BY <1>1, LoadedTask DEF LoadAndEnqueue
    <2> HIDE DEF t
    <2>5. /\ ready_queue' = Append(ready_queue, Len(task) + 1) /\ pcount' = pcount + 1
          /\ stage = "enqueue" /\ stage' = "execute"
          /\ UNCHANGED <<current_task_, cr3, esp0, cpu, jiffy>>
      BY <1>1 DEF LoadAndEnqueue, Enqueued
    <2>6. t.pid = t.pdir /\ t.pid =< pcount' /\ pcount' \in Nat /\ pcount =< pcount'
          /\ pcount' =< pcount + 1 /\ Len(ready_queue) < Cap /\ Len(task) < MaxTasks
      BY <2>2, <2>4, <2>5, SizeAssumption
    <2> QED
      BY <2>1, <2>4, <2>5, <2>6, NewTaskQueued DEF t
  <1>2. CASE Cli \/ LoadFails \/ ExecuteFails
    <2>1. /\ UNCHANGED <<current_task_, ready_queue, task, pcount, cr3, esp0, cpu, jiffy>>
          /\ \/ stage = "irqs_on" /\ stage' = "enqueue"
             \/ stage = "enqueue" /\ stage' = "execute"
             \/ stage = "execute" /\ stage' = "stopped"
      BY <1>2 DEF Cli, LoadFails, ExecuteFails
    <2>2. stage = "enqueue" => Len(task) = 0 /\ Len(ready_queue) = 0
      BY EmptySeq DEF SchedInv, BootInv
    <2>3. TypeOK' /\ BootInv' /\ CountInv' /\ PidInv'
      BY <2>1, <2>2 DEF SchedInv, TypeOK, BootInv, CountInv, PidInv, Running
    <2>4. StartedInv' /\ OneOwner' /\ OwnSpace' /\ NoNullSwitch' /\ OverflowOnlyOnCreate'
      BY <2>1 DEF SchedInv, StartedInv, OneOwner, OwnSpace, NoNullSwitch, OverflowOnlyOnCreate, Running, Waiting
    <2> QED
      BY <2>3, <2>4 DEF SchedInv
  <1> QED
    BY <1>1, <1>2

\* maybe_switch_task, called by a tick or a yield, keeps the invariant.
LEMMA MaybeSwitchStep ==
  ASSUME SchedInv, stage = "irqs_on" \/ Running, maybe_switch_task,
         jiffy' \in 0 .. jiffies_per_slice - 1, UNCHANGED pcount
  PROVE  SchedInv'
  <1>1. CASE NoSwitch
    BY <1>1, QuietStep DEF NoSwitch, SchedInv, TypeOK
  <1>2. CASE ready_queue # <<>> /\ switch_task(Head(ready_queue), Tail(ready_queue))
    <2>1. Running
      BY <1>2 DEF SchedInv, BootInv
    <2> QED
      BY <1>2, <2>1, SwitchStep
  <1> QED
    BY <1>1, <1>2 DEF maybe_switch_task

\* Every step of the scheduler preserves its invariant.
LEMMA NextSched == SchedInv /\ [Next]_vars => SchedInv'
  <1> SUFFICES ASSUME SchedInv, [Next]_vars PROVE SchedInv'
    OBVIOUS
  <1>1. jiffy \in 0 .. jiffies_per_slice - 1 /\ cpu \in [Reg -> Word]
    BY DEF SchedInv, TypeOK
  <1>2. CASE Cli \/ LoadAndEnqueue \/ LoadFails \/ ExecuteFails
    BY <1>2, BootSteps
  <1>3. CASE LoadAndExecute
    BY <1>3, FirstTaskRuns
  <1>4. CASE Tick
    <2>1. (jiffy + 1) % jiffies_per_slice \in 0 .. jiffies_per_slice - 1
      BY <1>1, SizeAssumption
    <2>2. jiffy' \in 0 .. jiffies_per_slice - 1
      BY <1>4, <2>1 DEF Tick
    <2>3. CASE maybe_switch_task
      BY <1>4, <2>2, <2>3, MaybeSwitchStep DEF Tick, InterruptsOn
    <2>4. CASE NoSwitch
      BY <1>1, <1>4, <2>2, <2>4, QuietStep DEF Tick, NoSwitch
    <2> QED
      BY <1>4, <2>3, <2>4 DEF Tick
  <1>5. CASE Run
    <2>1. PICK c \in UserContexts[current_task_] : cpu' = [c EXCEPT !["eflags"] = cpu["eflags"]]
      BY <1>5 DEF Run
    <2>2. current_task_ \in 1 .. MaxTasks
      BY <1>5, SizeAssumption DEF Run, SchedInv, TypeOK, CountInv, null
    <2>3. cpu' \in [Reg -> Word]
      BY <1>1, <2>1, <2>2, ContextAssumption DEF Reg
    <2> QED
      BY <1>1, <1>5, <2>3, QuietStep DEF Run
  <1>6. CASE SysYield
    BY <1>1, <1>6, MaybeSwitchStep DEF SysYield
  <1>7. CASE SysThreadCreate
    BY <1>7, ThreadCreated
  <1>8. CASE SysGetPid \/ SysGetTid
    <2>1. current_task_ \in 1 .. Len(task) /\ task[current_task_] \in Task /\ Len(task) < WordSize
          /\ task[current_task_].pid < WordSize /\ Len(task) \in Nat
      <3>1. current_task_ \in 1 .. Len(task) /\ Len(task) < WordSize /\ pcount < WordSize
            /\ pcount \in Nat /\ task \in Seq(Task) /\ Len(task) \in Nat
        BY <1>8, SizeAssumption DEF SysGetPid, SysGetTid, SchedInv, TypeOK, CountInv, null
      <3>2. task[current_task_] \in Task
        BY <3>1, ElementOfSeq
      <3>3. task[current_task_].pid =< pcount /\ task[current_task_].pid \in Nat
        BY <3>1, <3>2 DEF SchedInv, PidInv, Task
      <3> QED
        BY <3>1, <3>2, <3>3, SizeAssumption
    <2>2. current_task_ \in Word /\ task[current_task_].pid \in Word
      BY <2>1, SizeAssumption DEF Word, Task
    <2>3. cpu' \in [Reg -> Word]
      BY <1>1, <1>8, <2>2 DEF SysGetPid, SysGetTid, Reg
    <2> QED
      BY <1>1, <1>8, <2>3, QuietStep DEF SysGetPid, SysGetTid
  <1>9. CASE SysStop
    <2>1. /\ UNCHANGED <<current_task_, ready_queue, task, pcount, cr3, esp0, cpu, jiffy>>
          /\ stage' = "stopped"
      BY <1>9 DEF SysStop
    <2> QED
      BY <2>1 DEF SchedInv, TypeOK, BootInv, CountInv, PidInv, StartedInv, OneOwner, OwnSpace,
                  NoNullSwitch, OverflowOnlyOnCreate, Running
  <1>10. CASE UNCHANGED vars
    BY <1>1, <1>10, QuietStep DEF vars
  <1> QED
    BY <1>2, <1>3, <1>4, <1>5, <1>6, <1>7, <1>8, <1>9, <1>10 DEF Next, Boot, Syscall

\* The inductive invariant holds in every reachable state of the scheduler.
THEOREM SchedInvariant == Spec => []SchedInv
  BY InitSched, NextSched, PTL DEF Spec

\* No task is ever lost, queued twice, or queued while it runs, and every task
\* ever created is still owned (sched.cc:50-52).
THEOREM OneOwnerHolds == Spec => []OneOwner
  <1>1. SchedInv => OneOwner
    BY DEF SchedInv
  <1> QED
    BY <1>1, SchedInvariant, PTL

\* User code always runs in its own page directory with its own kernel stack,
\* although switches of the page directory are skipped (sched.cc:54-59).
THEOREM OwnSpaceHolds == Spec => []OwnSpace
  <1>1. SchedInv => OwnSpace
    BY DEF SchedInv
  <1> QED
    BY <1>1, SchedInvariant, PTL

\* A timer interrupt never finds a waiting task while no task runs, and a task
\* switch never overflows the ready queue (sched.cc:36-50, 121-129).
THEOREM SwitchIsSafe == Spec => [](NoNullSwitch /\ OverflowOnlyOnCreate)
  <1>1. SchedInv => NoNullSwitch /\ OverflowOnlyOnCreate
    BY DEF SchedInv
  <1> QED
    BY <1>1, SchedInvariant, PTL

\* Threads share a page directory exactly when they share a process.
THEOREM ThreadsShareSpaceHolds == Spec => []ThreadsShareSpace
  <1>1. SchedInv => ThreadsShareSpace
    BY DEF SchedInv, PidInv, ThreadsShareSpace
  <1> QED
    BY <1>1, SchedInvariant, PTL

-----------------------------------------------------------------------------
(* What each step does to the queue, and to the threads a user sees.       *)

\* What a switch to the head of the ready queue changes.
LEMMA SwitchEffect ==
  ASSUME SchedInv, stage = "irqs_on" \/ Running, maybe_switch_task
  PROVE  \/ NoSwitch
         \/ /\ Running /\ UNCHANGED stage
            /\ ready_queue # <<>>
            /\ current_task_ \in 1 .. Len(task)
            /\ Head(ready_queue) \in 1 .. Len(task) \ {current_task_}
            /\ ready_queue' = Append(Tail(ready_queue), current_task_)
            /\ current_task_' = Head(ready_queue)
            /\ task' = Saved(Head(ready_queue))
            /\ cr3' = task[Head(ready_queue)].pdir
            /\ cpu' = IF task[Head(ready_queue)].started THEN task[Head(ready_queue)].frame
                      ELSE FirstFrame(cpu, task[Head(ready_queue)])
  <1> SUFFICES ASSUME ready_queue # <<>>, switch_task(Head(ready_queue), Tail(ready_queue))
               PROVE  /\ Running /\ UNCHANGED stage
                      /\ current_task_ \in 1 .. Len(task)
                      /\ Head(ready_queue) \in 1 .. Len(task) \ {current_task_}
                      /\ ready_queue' = Append(Tail(ready_queue), current_task_)
                      /\ current_task_' = Head(ready_queue)
                      /\ task' = Saved(Head(ready_queue))
                      /\ cr3' = task[Head(ready_queue)].pdir
                      /\ cpu' = IF task[Head(ready_queue)].started
                                THEN task[Head(ready_queue)].frame
                                ELSE FirstFrame(cpu, task[Head(ready_queue)])
    BY DEF maybe_switch_task
  <1>1. Running
    BY DEF SchedInv, BootInv
  <1>2. /\ current_task_ \in 1 .. Len(task) /\ current_task_ # null
        /\ ready_queue \in Seq(1 .. Len(task)) /\ Len(ready_queue) =< Cap
        /\ DOMAIN ready_queue = 1 .. Len(ready_queue) /\ Cap \in Nat
    BY <1>1, LenProperties, SizeAssumption DEF SchedInv, TypeOK, CountInv, null
  <1>3. /\ Len(ready_queue) \in Nat \ {0} /\ Head(ready_queue) = ready_queue[1]
        /\ Len(Tail(ready_queue)) = Len(ready_queue) - 1
    BY <1>2, Rotation
  <1>4. Head(ready_queue) \in 1 .. Len(task) /\ Head(ready_queue) \in Waiting
    BY <1>2, <1>3, ElementOfSeq DEF Waiting
  <1>5. Head(ready_queue) # current_task_
    BY <1>1, <1>4 DEF SchedInv, OneOwner, Running
  <1>6. /\ ready_queue' = Append(Tail(ready_queue), current_task_)
        /\ current_task_' = Head(ready_queue) /\ task' = Saved(Head(ready_queue))
        /\ cr3' = PdirAfter(Head(ready_queue)) /\ UNCHANGED stage
        /\ cpu' = IF task[Head(ready_queue)].started THEN task[Head(ready_queue)].frame
                  ELSE FirstFrame(cpu, task[Head(ready_queue)])
    BY <1>2, <1>3 DEF switch_task, Enqueued
  <1>7. cr3' = task[Head(ready_queue)].pdir
    BY <1>1, <1>6 DEF PdirAfter, SchedInv, OwnSpace
  <1> QED
    BY <1>1, <1>2, <1>4, <1>5, <1>6, <1>7

\* What a step may do to the ready queue.
InOrder ==
  \/ ready_queue' = ready_queue
  \/ \E t \in 1 .. Len(task') : ready_queue' = Append(ready_queue, t)
  \/ /\ ready_queue # <<>> /\ current_task_' = Head(ready_queue)
     /\ ready_queue' = Append(Tail(ready_queue), current_task_)

\* Every step leaves the queue alone, adds to its tail, or rotates it.
LEMMA QueueStep == SchedInv /\ [Next]_vars => InOrder
  <1> SUFFICES ASSUME SchedInv, [Next]_vars PROVE InOrder
    OBVIOUS
  <1>1. ASSUME maybe_switch_task, stage = "irqs_on" \/ Running PROVE InOrder
    BY <1>1, SwitchEffect DEF InOrder, NoSwitch
  <1>2. ASSUME NEW t, task' = Append(task, t), ready_queue' = Append(ready_queue, Len(task) + 1)
        PROVE  InOrder
    <2>1. Len(task) \in Nat /\ Len(task') = Len(task) + 1
      BY <1>2 DEF SchedInv, TypeOK
    <2> QED
      BY <1>2, <2>1 DEF InOrder
  <1>3. CASE LoadAndEnqueue
    BY <1>2, <1>3 DEF LoadAndEnqueue, Enqueued
  <1>4. CASE SysThreadCreate
    <2>1. ready_queue' = ready_queue \/ ready_queue' = Append(ready_queue, Len(task) + 1)
      BY <1>4 DEF SysThreadCreate, add_task, Enqueued
    <2> QED
      BY <1>2, <1>4, <2>1 DEF SysThreadCreate, InOrder
  <1>5. CASE Tick
    BY <1>1, <1>5 DEF Tick, InterruptsOn, NoSwitch, InOrder
  <1>6. CASE SysYield
    BY <1>1, <1>6 DEF SysYield
  <1>7. CASE \/ Cli \/ LoadFails \/ LoadAndExecute \/ ExecuteFails \/ Run
             \/ SysGetPid \/ SysGetTid \/ SysStop \/ UNCHANGED vars
    BY <1>7 DEF Cli, LoadFails, LoadAndExecute, ExecuteFails, Run, SysGetPid, SysGetTid, SysStop,
                vars, InOrder
  <1> QED
    BY <1>3, <1>4, <1>5, <1>6, <1>7 DEF Next, Boot, Syscall

\* Ready tasks are served in order: nobody is overtaken in the queue, and the
\* processor goes to its head (sched.cc:50, 117-129).
THEOREM NoOvertakingHolds == Spec => NoOvertaking
  <1>1. SchedInv /\ [Next]_vars => [InOrder]_vars
    BY QueueStep
  <1> QED
    BY <1>1, SchedInvariant, PTL DEF Spec, NoOvertaking, InOrder

-----------------------------------------------------------------------------
\* A function on 1 .. n + 1 that extends one on 1 .. n.
LEMMA Extension ==
  ASSUME NEW n \in Nat, NEW f, f = [t \in 1 .. n |-> f[t]],
         NEW g, g = [t \in 1 .. n + 1 |-> g[t]], \A t \in 1 .. n : g[t] = f[t]
  PROVE  Len(f) = n /\ Len(g) = n + 1 /\ g = Append(f, g[n + 1])
  <1> DEFINE S == {f[t] : t \in 1 .. n} \cup {g[n + 1]}
  <1>1. f \in [1 .. n -> S] /\ g \in [1 .. n + 1 -> S]
    <2>1. \A t \in 1 .. n + 1 : g[t] \in S
      <3>1. \A t \in 1 .. n + 1 : t \in 1 .. n \/ t = n + 1
        OBVIOUS
      <3> QED
        BY <3>1
    <2> HIDE DEF S
    <2>2. \A t \in 1 .. n : f[t] \in S
      BY <2>1
    <2>3. f \in [1 .. n -> S]
      <3>1. [t \in 1 .. n |-> f[t]] \in [1 .. n -> S]
        BY <2>2
      <3> QED
        BY <3>1, Zenon
    <2>4. g \in [1 .. n + 1 -> S]
      <3>1. [t \in 1 .. n + 1 |-> g[t]] \in [1 .. n + 1 -> S]
        BY <2>1
      <3> QED
        BY <3>1, Zenon
    <2> QED
      BY <2>3, <2>4
  <1> HIDE DEF S
  <1>2. f \in Seq(S) /\ Len(f) = n /\ g \in Seq(S) /\ Len(g) = n + 1
    BY <1>1, SeqDef, LenProperties
  <1>3. /\ Append(f, g[n + 1]) \in Seq(S) /\ Len(Append(f, g[n + 1])) = n + 1
        /\ \A t \in 1 .. n + 1 : Append(f, g[n + 1])[t] = g[t]
    <2>1. g[n + 1] \in S
      BY <1>1
    <2>2. PICK e \in S : e = g[n + 1]
      BY <2>1
    <2> DEFINE q == Append(f, e)
    <2>3. q \in Seq(S) /\ Len(q) = n + 1 /\ (\A t \in 1 .. n : q[t] = f[t]) /\ q[n + 1] = e
      BY <1>2, <2>2, AppendProperties
    <2> HIDE DEF q
    <2>4. ASSUME NEW t \in 1 .. n + 1 PROVE q[t] = g[t]
      <3>1. t \in 1 .. n \/ t = n + 1
        OBVIOUS
      <3> QED
        BY <2>2, <2>3, <3>1
    <2> QED
      BY <2>2, <2>3, <2>4 DEF q
  <1> QED
    BY <1>2, <1>3, SeqEqual

\* A task appended by the kernel is a thread added to those the user sees.
LEMMA ThreadAdded ==
  ASSUME SchedInv, NEW t \in Task, task' = Append(task, t),
         \/ UNCHANGED <<current_task_, cpu>>
         \/ current_task_ = null /\ current_task_' = Len(task) + 1
  PROVE  /\ Abs!Created /\ Abs!NewThread = Len(task) + 1
         /\ current_task_' # Len(task) + 1 /\ ~ t.started =>
              Registers'[Len(task) + 1] = FirstFrame([r \in Reg |-> 0], t)
         /\ Spaces'[Len(task) + 1] = t.pdir
         /\ NeverRun' = IF current_task_' # Len(task) + 1 /\ ~ t.started
                        THEN NeverRun \cup {Len(task) + 1} ELSE NeverRun
  <1> DEFINE m == Len(task)
  <1>1. /\ task \in Seq(Task) /\ m \in Nat /\ current_task_ \in 0 .. m
        /\ current_task_ # null => current_task_ \in 1 .. m
    BY DEF SchedInv, TypeOK, null
  <1>2. /\ Len(task') = m + 1
        /\ \A s \in 1 .. m : task'[s] = task[s]
        /\ task'[m + 1] = t
    BY <1>1, AppendProperties
  <1>3. \A s \in 1 .. m : s # m + 1 /\ s \in 1 .. m + 1
    BY <1>1
  <1>4. \A s \in 1 .. m : s = current_task_ <=> s = current_task_'
    BY <1>1, <1>3 DEF null
  <1> HIDE DEF m
  <1>5. /\ Registers = [s \in 1 .. m |-> Registers[s]]
        /\ Registers' = [s \in 1 .. m + 1 |-> Registers'[s]]
        /\ Spaces = [s \in 1 .. m |-> Spaces[s]]
        /\ Spaces' = [s \in 1 .. m + 1 |-> Spaces'[s]]
    BY <1>2 DEF Registers, Spaces, m
  <1>6. ASSUME NEW s \in 1 .. m
        PROVE  Registers'[s] = Registers[s] /\ Spaces'[s] = Spaces[s]
    <2>1. task'[s] = task[s] /\ s \in 1 .. m + 1 /\ (s = current_task_ <=> s = current_task_')
      BY <1>2, <1>3, <1>4
    <2>2. Spaces'[s] = Spaces[s]
      BY <1>2, <2>1 DEF Spaces, m
    <2>3. CASE s = current_task_
      <3>1. cpu' = cpu /\ s = current_task_'
        BY <1>1, <2>1, <2>3 DEF m, null
      <3>2. Registers[s] = cpu /\ Registers'[s] = cpu'
        BY <1>2, <2>1, <2>3, <3>1 DEF Registers, m
      <3> QED
        BY <2>2, <3>1, <3>2
    <2>4. CASE s # current_task_
      <3>1. Registers[s] = IF task[s].started THEN task[s].frame
                           ELSE FirstFrame([r \in Reg |-> 0], task[s])
        BY <2>4 DEF Registers, m
      <3>2. Registers'[s] = IF task'[s].started THEN task'[s].frame
                            ELSE FirstFrame([r \in Reg |-> 0], task'[s])
        BY <1>2, <2>1, <2>4 DEF Registers, FirstFrame
      <3> QED
        BY <2>1, <2>2, <3>1, <3>2 DEF FirstFrame
    <2> QED
      BY <2>3, <2>4
  <1>7. /\ Len(Registers) = m /\ Len(Registers') = m + 1
        /\ Registers' = Append(Registers, Registers'[m + 1])
        /\ Len(Spaces) = m /\ Len(Spaces') = m + 1
        /\ Spaces' = Append(Spaces, Spaces'[m + 1])
    <2>1. m \in Nat
      BY <1>1 DEF m
    <2>2. PICK f, g, h, k : f = Registers /\ g = Registers' /\ h = Spaces /\ k = Spaces'
      OBVIOUS
    <2>3. Len(f) = m /\ Len(g) = m + 1 /\ g = Append(f, g[m + 1])
      BY <1>5, <1>6, <2>1, <2>2, Extension
    <2>4. Len(h) = m /\ Len(k) = m + 1 /\ k = Append(h, k[m + 1])
      BY <1>5, <1>6, <2>1, <2>2, Extension
    <2> QED
      BY <2>2, <2>3, <2>4
  <1>8. Abs!Created /\ Abs!NewThread = m + 1
    BY <1>7 DEF Abs!Created, Abs!NewThread
  <1>9. m + 1 \in 1 .. m + 1
    BY <1>1 DEF m
  <1>10. /\ current_task_' # m + 1 /\ ~ t.started =>
              Registers'[m + 1] = FirstFrame([r \in Reg |-> 0], t)
         /\ Spaces'[m + 1] = t.pdir
    <2>1. Spaces'[m + 1] = t.pdir
      BY <1>2, <1>9 DEF Spaces
    <2>2. Registers'[m + 1] = IF m + 1 = current_task_' THEN cpu'
                              ELSE IF task'[m + 1].started THEN task'[m + 1].frame
                              ELSE FirstFrame([r \in Reg |-> 0], task'[m + 1])
      BY <1>2, <1>9 DEF Registers, FirstFrame
    <2> QED
      BY <1>2, <2>1, <2>2 DEF FirstFrame
  <1>11. NeverRun' = IF current_task_' # m + 1 /\ ~ t.started
                     THEN NeverRun \cup {m + 1} ELSE NeverRun
    <2>1. \A s : s \in 1 .. m + 1 <=> s \in 1 .. m \/ s = m + 1
      BY <1>1 DEF m
    <2>2. NeverRun' = {s \in 1 .. m + 1 : s # current_task_' /\ ~ task'[s].started}
      BY <1>2 DEF NeverRun
    <2>3. NeverRun = {s \in 1 .. m : s # current_task_ /\ ~ task[s].started}
      BY DEF NeverRun, m
    <2>4. ASSUME NEW s
          PROVE  s \in NeverRun' <=> \/ s \in NeverRun
                                     \/ s = m + 1 /\ current_task_' # m + 1 /\ ~ t.started
      BY <1>2, <1>3, <1>4, <2>1, <2>2, <2>3
    <2> QED
      BY <2>4
  <1> QED
    BY <1>8, <1>10, <1>11 DEF m

\* A switch to a waiting task gives it the registers it was promised.
LEMMA ThreadSwitched ==
  ASSUME SchedInv, Running, UNCHANGED stage, current_task_ \in 1 .. Len(task),
         NEW t \in 1 .. Len(task), t # current_task_, current_task_' = t,
         task' = Saved(t), cr3' = task[t].pdir,
         cpu' = IF task[t].started THEN task[t].frame ELSE FirstFrame(cpu, task[t])
  PROVE  t \in DOMAIN Registers /\ Abs!Switch(t)
  <1> DEFINE m == Len(task)
             c == current_task_
  <1>1. /\ m \in Nat /\ c # null /\ cpu \in [Reg -> Word] /\ task[c].started
        /\ task[t] \in Task
    BY ElementOfSeq DEF SchedInv, TypeOK, StartedInv, null
  <1>2. /\ Len(task') = m
        /\ \A s \in 1 .. m : task'[s].pdir = task[s].pdir
        /\ task'[t].started
        /\ \A s \in 1 .. m : s \notin {t, c} => task'[s] = task[s]
        /\ task'[c].started = task[c].started
        /\ task'[c].frame = cpu
    BY <1>1, SavedTasks
  <1> HIDE DEF m, c
  <1>3. DOMAIN Registers = 1 .. m /\ Spaces' = Spaces
    BY <1>2 DEF Registers, Spaces, m
  <1>4. ASSUME NEW s \in 1 .. m, s # t PROVE Registers'[s] = Registers[s]
    <2>1. CASE s = c
      <3>1. Registers[s] = cpu
        BY <2>1 DEF Registers, m, c
      <3>2. Registers'[s] = cpu
        BY <1>1, <1>2, <1>4, <2>1 DEF Registers
      <3> QED
        BY <3>1, <3>2
    <2>2. CASE s # c
      <3>1. task'[s] = task[s]
        BY <1>2, <1>4, <2>2
      <3>2. Registers[s] = IF task[s].started THEN task[s].frame
                           ELSE FirstFrame([r \in Reg |-> 0], task[s])
        BY <2>2 DEF Registers, m, c
      <3>3. Registers'[s] = IF task'[s].started THEN task'[s].frame
                            ELSE FirstFrame([r \in Reg |-> 0], task'[s])
        BY <1>2, <1>4, <2>2 DEF Registers, FirstFrame
      <3> QED
        BY <3>1, <3>2, <3>3 DEF FirstFrame
    <2> QED
      BY <2>1, <2>2
  <1>5. Registers' = [Registers EXCEPT ![t] = Registers'[t]]
    <2>1. Registers' = [s \in 1 .. m |-> Registers'[s]]
      BY <1>2 DEF Registers
    <2>2. [Registers EXCEPT ![t] = Registers'[t]]
            = [s \in 1 .. m |-> IF s = t THEN Registers'[t] ELSE Registers[s]]
      BY <1>3
    <2>3. PICK f, g : f = Registers /\ g = Registers'
      OBVIOUS
    <2> QED
      BY <1>4, <2>1, <2>2, <2>3
  <1>6. Registers'[t] = cpu'
    BY <1>2 DEF Registers, m
  <1>7. Registers[t] = IF task[t].started THEN task[t].frame
                       ELSE FirstFrame([r \in Reg |-> 0], task[t])
    BY DEF Registers, m
  <1>8. ASSUME NEW r \in Reg
        PROVE  Registers'[t][r] = Registers[t][r] \/ (t \in NeverRun /\ r \in {"esi", "eflags"})
    <2>1. CASE task[t].started
      BY <1>6, <1>7, <2>1
    <2>2. CASE ~ task[t].started /\ r \in {"esi", "eflags"}
      BY <2>2 DEF NeverRun, m
    <2>3. CASE ~ task[t].started /\ r \notin {"esi", "eflags"}
      BY <1>6, <1>7, <2>3 DEF FirstFrame, Reg
    <2> QED
      BY <2>1, <2>2, <2>3
  <1>9. NeverRun' = NeverRun \ {t}
    <2>1. ASSUME NEW s \in 1 .. m
          PROVE  s # t /\ ~ task'[s].started <=> s # c /\ ~ task[s].started /\ s # t
      BY <1>1, <1>2
    <2>2. NeverRun' = {s \in 1 .. m : s # t /\ ~ task'[s].started}
      BY <1>2 DEF NeverRun
    <2>3. NeverRun = {s \in 1 .. m : s # c /\ ~ task[s].started}
      BY DEF NeverRun, m, c
    <2> QED
      BY <2>1, <2>2, <2>3
  <1>10. Alive /\ Alive' = Alive
    BY DEF Running, Alive
  <1>11. cr3' = Spaces[t]
    BY DEF Spaces, m
  <1>12. t \in 1 .. m /\ c # 0
    BY <1>1 DEF m, null
  <1> QED
    BY <1>3, <1>5, <1>8, <1>9, <1>10, <1>11, <1>12 DEF Abs!Switch, c

\* The state in which kmain starts maps to one with no thread.
LEMMA InitThreads == Init => Abs!ThreadsInit
  <1> SUFFICES ASSUME Init PROVE Abs!ThreadsInit
    OBVIOUS
  <1>1. task = <<>> /\ Len(task) = 0 /\ 1 .. Len(task) = {}
    BY DEF Init
  <1>2. Registers = <<>> /\ Spaces = <<>> /\ NeverRun = {}
    BY <1>1 DEF Registers, Spaces, NeverRun
  <1> QED
    BY <1>2 DEF Init, Abs!ThreadsInit, Alive, null, kernel_pdir

\* A process loaded at boot gets a page directory that no task has.
LEMMA ProcessLoaded ==
  ASSUME SchedInv, stage \in {"enqueue", "execute"}, Alive',
         NEW t \in Task, t.pdir = pcount + 1, task' = Append(task, t),
         \/ ~ t.started /\ UNCHANGED <<current_task_, cpu, cr3>>
         \/ t.started /\ current_task_' = Len(task) + 1 /\ cr3' = pcount + 1
  PROVE  Abs!Load
  <1> DEFINE m == Len(task)
  <1>1. m \in Nat /\ current_task_ = null /\ pcount \in Nat /\ task \in Seq(Task)
    BY DEF SchedInv, TypeOK, BootInv
  <1>2. /\ Abs!Created /\ Abs!NewThread = m + 1 /\ Spaces'[m + 1] = t.pdir
        /\ NeverRun' = IF current_task_' # m + 1 /\ ~ t.started
                       THEN NeverRun \cup {m + 1} ELSE NeverRun
    BY <1>1, ThreadAdded
  <1>3. ASSUME NEW u \in DOMAIN Spaces PROVE Spaces[u] # Spaces'[m + 1]
    <2>1. u \in 1 .. m /\ Spaces[u] = task[u].pdir /\ DOMAIN task = 1 .. m
      BY <1>1 DEF Spaces
    <2>2. task[u].pdir =< pcount /\ task[u] \in Task
      BY <1>1, <2>1, ElementOfSeq DEF SchedInv, PidInv
    <2> QED
      BY <1>1, <1>2, <2>1, <2>2 DEF Task
  <1>4. Alive
    BY DEF Alive
  <1>5. m + 1 # 0
    BY <1>1
  <1> QED
    BY <1>1, <1>2, <1>3, <1>4, <1>5 DEF Abs!Load, null, Alive

\* The register file of thread s when the task s is t.
RegistersOf(s, t) ==
  IF s = current_task_ THEN cpu
  ELSE IF t.started THEN t.frame
  ELSE FirstFrame([r \in Reg |-> 0], t)

\* A step that changes one register of the running thread at most.
LEMMA ThreadComputes ==
  ASSUME SchedInv, Running, NEW f \in [Reg -> Word], cpu' = f,
         UNCHANGED <<stage, current_task_, task, cr3>>
  PROVE  Abs!Compute
  <1>1. current_task_ \in 1 .. Len(task) /\ current_task_ # 0
    BY DEF SchedInv, TypeOK, CountInv, null
  <1>2. Spaces' = Spaces /\ NeverRun' = NeverRun /\ Alive /\ Alive' = Alive
    BY DEF Spaces, NeverRun, Alive, Running
  <1>3. Registers' = [Registers EXCEPT ![current_task_] = Registers'[current_task_]]
    <2>1. Registers = [s \in 1 .. Len(task) |-> RegistersOf(s, task[s])]
      BY DEF Registers, RegistersOf
    <2>2. Registers' = [s \in 1 .. Len(task) |-> RegistersOf(s, task[s])']
      BY DEF Registers, RegistersOf
    <2>3. \A s \in 1 .. Len(task) : s # current_task_ => RegistersOf(s, task[s])' = RegistersOf(s, task[s])
      BY DEF RegistersOf, FirstFrame
    <2>4. Registers' = [s \in 1 .. Len(task) |-> Registers'[s]]
      BY <2>2
    <2>5. [Registers EXCEPT ![current_task_] = Registers'[current_task_]]
            = [s \in 1 .. Len(task) |-> IF s = current_task_ THEN Registers'[s] ELSE Registers[s]]
      BY <2>1
    <2>6. \A s \in 1 .. Len(task) : s # current_task_ => Registers'[s] = Registers[s]
      BY <2>1, <2>2, <2>3
    <2>7. PICK f1, g : f1 = Registers /\ g = Registers'
      OBVIOUS
    <2> QED
      BY <2>4, <2>5, <2>6, <2>7
  <1> QED
    BY <1>1, <1>2, <1>3 DEF Abs!Compute

\* A thread created by the running one, in its page directory.
LEMMA ThreadSpawned ==
  ASSUME SchedInv, SysThreadCreate
  PROVE  Abs!Spawn
  <1> DEFINE m == Len(task)
             c == task[current_task_]
             t == make_thread(task[current_task_], cpu)
  <1>1. /\ task \in Seq(Task) /\ m \in Nat /\ current_task_ \in 1 .. m /\ current_task_ # 0
        /\ cpu \in [Reg -> Word] /\ stage = "user"
    BY DEF SchedInv, TypeOK, CountInv, SysThreadCreate, Running, null
  <1>2. c \in Task
    BY <1>1, ElementOfSeq
  <1>3. /\ task' = Append(task, t) /\ UNCHANGED <<current_task_, cpu, cr3>>
    BY DEF SysThreadCreate
  <1> HIDE DEF c
  <1>4. t = [c EXCEPT !.started = FALSE, !.pc = cpu["ebx"],
                      !.stack = Offset(cpu["ecx"], cpu["edx"]),
                      !.frame = [c.frame EXCEPT !["eax"] = cpu["esi"], !["ebx"] = cpu["edi"]]]
    BY DEF make_thread, c
  <1>5. /\ [c.frame EXCEPT !["eax"] = cpu["esi"], !["ebx"] = cpu["edi"]] \in [Reg -> Word]
        /\ [c.frame EXCEPT !["eax"] = cpu["esi"], !["ebx"] = cpu["edi"]]["eax"] = cpu["esi"]
        /\ [c.frame EXCEPT !["eax"] = cpu["esi"], !["ebx"] = cpu["edi"]]["ebx"] = cpu["edi"]
    BY <1>1, <1>2 DEF Reg, Task
  <1>6. Offset(cpu["ecx"], cpu["edx"]) \in Word /\ cpu["ebx"] \in Word
    <2>1. cpu["ecx"] \in Nat /\ cpu["edx"] \in Nat /\ cpu["ebx"] \in Word
      BY <1>1 DEF Reg, Word
    <2> QED
      BY <2>1, SizeAssumption DEF Offset, Word
  <1> HIDE DEF t
  <1>7. /\ t \in Task /\ ~ t.started /\ t.pdir = c.pdir /\ t.pc = cpu["ebx"]
        /\ t.stack = Offset(cpu["ecx"], cpu["edx"])
        /\ t.frame["eax"] = cpu["esi"] /\ t.frame["ebx"] = cpu["edi"]
    BY <1>2, <1>4, <1>5, <1>6 DEF Task
  <1>8. /\ Abs!Created /\ Abs!NewThread = m + 1
        /\ current_task_' # m + 1 /\ ~ t.started =>
             Registers'[m + 1] = FirstFrame([r \in Reg |-> 0], t)
        /\ Spaces'[m + 1] = t.pdir
        /\ NeverRun' = IF current_task_' # m + 1 /\ ~ t.started
                       THEN NeverRun \cup {m + 1} ELSE NeverRun
    BY <1>3, <1>7, ThreadAdded
  <1>9. current_task_ # m + 1
    BY <1>1
  <1>10. Registers'[m + 1] = FirstFrame([r \in Reg |-> 0], t)
    BY <1>3, <1>7, <1>8, <1>9
  <1>11. /\ Registers'[m + 1]["eip"] = cpu["ebx"]
         /\ Registers'[m + 1]["useresp"] = Offset(cpu["ecx"], cpu["edx"])
         /\ Registers'[m + 1]["eax"] = cpu["esi"]
         /\ Registers'[m + 1]["ebx"] = cpu["edi"]
    BY <1>7, <1>10 DEF FirstFrame, Reg
  <1>12. Registers[current_task_] = cpu /\ Spaces[current_task_] = c.pdir
    BY <1>1 DEF Registers, Spaces, c
  <1>13. Alive /\ Alive' \in BOOLEAN
    BY <1>1 DEF Alive
  <1> HIDE DEF m
  <1> QED
    BY <1>1, <1>3, <1>7, <1>8, <1>9, <1>11, <1>12, <1>13 DEF Abs!Spawn

\* A step that leaves tasks and processor alone is one no thread sees, or the
\* end of the kernel.
LEMMA ThreadsUnseen ==
  ASSUME UNCHANGED <<task, current_task_, cpu, cr3>>, Alive' = Alive \/ (Alive /\ ~ Alive')
  PROVE  Abs!Stop \/ UNCHANGED Abs!threadsVars
  <1>1. Registers' = Registers /\ Spaces' = Spaces /\ NeverRun' = NeverRun
    BY DEF Registers, Spaces, NeverRun, FirstFrame
  <1>2. Alive \in BOOLEAN /\ Alive' \in BOOLEAN
    BY DEF Alive
  <1> QED
    BY <1>1, <1>2 DEF Abs!Stop, Abs!threadsVars

\* Every step of the scheduler is a step of the threads or leaves them alone.
LEMMA NextThreads == SchedInv /\ [Next]_vars => [Abs!ThreadsNext]_Abs!threadsVars
  <1> SUFFICES ASSUME SchedInv, [Next]_vars
               PROVE  Abs!ThreadsNext \/ UNCHANGED Abs!threadsVars
    OBVIOUS
  <1>1. ASSUME maybe_switch_task, stage = "irqs_on" \/ Running
        PROVE  Abs!ThreadsNext \/ UNCHANGED Abs!threadsVars
    <2>1. CASE NoSwitch
      BY <2>1, ThreadsUnseen DEF NoSwitch, Alive, Abs!ThreadsNext
    <2>2. CASE ~ NoSwitch
      <3>1. PICK t : t = Head(ready_queue)
        OBVIOUS
      <3>2. /\ Running /\ UNCHANGED stage /\ current_task_ \in 1 .. Len(task)
            /\ t \in 1 .. Len(task) /\ t # current_task_ /\ current_task_' = t
            /\ task' = Saved(t) /\ cr3' = task[t].pdir
            /\ cpu' = IF task[t].started THEN task[t].frame ELSE FirstFrame(cpu, task[t])
        BY <1>1, <2>2, <3>1, SwitchEffect
      <3>3. t \in DOMAIN Registers /\ Abs!Switch(t)
        BY <3>2, ThreadSwitched
      <3> QED
        BY <3>3 DEF Abs!ThreadsNext
    <2> QED
      BY <2>1, <2>2
  <1>2. CASE LoadAndEnqueue
    <2>1. PICK entry \in UserContexts[Len(task) + 1], garbage \in Garbage :
            task' = Append(task, from_elf(entry, garbage))
      BY <1>2 DEF LoadAndEnqueue
    <2>2. stage = "enqueue" /\ stage' = "execute" /\ UNCHANGED <<current_task_, cpu, cr3>>
      BY <1>2 DEF LoadAndEnqueue
    <2>3. PICK t : t = from_elf(entry, garbage)
      OBVIOUS
    <2>4. t \in Task /\ t.pdir = pcount + 1 /\ ~ t.started
      BY <2>1, <2>2, <2>3, LoadedTask
    <2> QED
      BY <2>1, <2>2, <2>3, <2>4, ProcessLoaded DEF Alive, Abs!ThreadsNext
  <1>3. CASE LoadAndExecute
    <2>1. PICK entry \in UserContexts[Len(task) + 1], garbage \in Garbage :
            task' = Append(task, [from_elf(entry, garbage) EXCEPT !.started = TRUE])
      BY <1>3 DEF LoadAndExecute
    <2>2. /\ stage = "execute" /\ stage' = "user"
          /\ current_task_' = Len(task) + 1 /\ cr3' = pcount + 1
      BY <1>3 DEF LoadAndExecute
    <2>3. PICK u : u = from_elf(entry, garbage)
      OBVIOUS
    <2>4. u \in Task /\ u.pdir = pcount + 1
      BY <2>1, <2>2, <2>3, LoadedTask
    <2>5. PICK t : t = [u EXCEPT !.started = TRUE]
      OBVIOUS
    <2>6. t \in Task /\ t.pdir = pcount + 1 /\ t.started
      BY <2>4, <2>5, MarkUpdate
    <2>7. task' = Append(task, t)
      BY <2>1, <2>3, <2>5
    <2> QED
      BY <2>2, <2>6, <2>7, ProcessLoaded DEF Alive, Abs!ThreadsNext
  <1>4. CASE Tick
    <2>1. CASE NoSwitch
      BY <2>1, ThreadsUnseen DEF NoSwitch, Alive, Abs!ThreadsNext
    <2>2. CASE maybe_switch_task
      BY <1>1, <1>4, <2>2 DEF Tick, InterruptsOn
    <2> QED
      BY <1>4, <2>1, <2>2 DEF Tick
  <1>5. CASE SysYield
    BY <1>1, <1>5 DEF SysYield
  <1>6. CASE SysThreadCreate
    BY <1>6, ThreadSpawned DEF Abs!ThreadsNext
  <1>7. CASE Run \/ SysGetPid \/ SysGetTid
    <2>1. cpu' \in [Reg -> Word]
      BY NextSched DEF SchedInv, TypeOK
    <2>2. Running /\ UNCHANGED <<stage, current_task_, task, cr3>>
      BY <1>7 DEF Run, SysGetPid, SysGetTid
    <2> QED
      BY <2>1, <2>2, ThreadComputes DEF Abs!ThreadsNext
  <1>8. CASE Cli \/ LoadFails \/ ExecuteFails \/ SysStop
    BY <1>8, ThreadsUnseen
    DEF Cli, LoadFails, ExecuteFails, SysStop, Running, Alive, Abs!ThreadsNext
  <1>9. CASE UNCHANGED vars
    BY <1>9, ThreadsUnseen DEF vars, Alive, Abs!ThreadsNext
  <1> QED
    BY <1>2, <1>3, <1>4, <1>5, <1>6, <1>7, <1>8, <1>9 DEF Next, Boot, Syscall

\* Time slicing is invisible to user threads: every behaviour of the scheduler
\* is one of Threads, in which each thread has registers and an address space
\* of its own (sched.cc:36-115, task.cc:28-70).
THEOREM SchedImplementsThreads == Spec => ImplementsThreads
  BY InitThreads, NextThreads, SchedInvariant, PTL DEF Spec, ImplementsThreads, Abs!ThreadsSpec
=============================================================================

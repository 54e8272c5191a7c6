-------------------------- MODULE InterruptsProofs --------------------------
(***************************************************************************)
(* The controllers and the way in and out of the kernel, for every set of  *)
(* devices and of exceptions: every handler acknowledges exactly its own   *)
(* interrupt to the master, and registers and segments survive stubs,      *)
(* shells, handlers and switches of tasks.  And critical sections, for     *)
(* every nesting of scopes and handlers: CritInv is inductive and implies  *)
(* the properties.                                                         *)
(***************************************************************************)
EXTENDS Interrupts, Critical, SequenceTheorems, TLAPS

\* A set of lines that is not empty has a highest priority.
LEMMA HighestIn ==
  ASSUME NEW S \in SUBSET (0 .. 7), S # {}
  PROVE  Highest(S) \in S
<1>1. \E n \in S : \A m \in S : n =< m
  <2> SUFFICES ASSUME \A n \in S : \E m \in S : m < n PROVE FALSE
    OBVIOUS
  <2>1. 0 \notin S /\ 1 \notin S /\ 2 \notin S /\ 3 \notin S
    OBVIOUS
  <2>2. 4 \notin S /\ 5 \notin S /\ 6 \notin S /\ 7 \notin S
    BY <2>1
  <2>3. \A n \in 0 .. 7 : n \in {0, 1, 2, 3, 4, 5, 6, 7}
    OBVIOUS
  <2>4. PICK n \in S : TRUE
    OBVIOUS
  <2>5. n \in {0, 1, 2, 3, 4, 5, 6, 7}
    BY <2>3
  <2> QED BY <2>1, <2>2, <2>5
<1> QED BY <1>1 DEF Highest

LEMMA HighestOne == ASSUME NEW n \in Nat PROVE EndOfInterrupt({n}) = {}
<1>1. \E x \in {n} : \A m \in {n} : x =< m
  OBVIOUS
<1>2. Highest({n}) \in {n}
  BY <1>1 DEF Highest
<1> QED BY <1>2 DEF EndOfInterrupt

LEMMA InitPic == Init => PicInv
  BY DEF Init, PicInv, TypeOK, MasterInService, None

\* A handler that runs is one of a master's line, of a slave's, or a call.
LEMMA InService ==
  ASSUME PicInv
  PROVE  /\ handling = None => isr["master"] = {}
         /\ handling # None => EndOfInterrupt(isr["master"]) = {}
<1>1. handling = None => isr["master"] = {}
  BY DEF PicInv, MasterInService, None
<1>2. CASE handling \in 32 .. 39
  <2>1. isr["master"] = {handling - 32}
    BY <1>2 DEF PicInv, MasterInService
  <2>2. handling - 32 \in Nat
    BY <1>2
  <2> QED BY <1>1, <2>1, <2>2, HighestOne
<1>3. CASE handling \in 48 .. 55
  <2>1. isr["master"] = {2}
    BY <1>3 DEF PicInv, MasterInService
  <2> QED BY <1>1, <2>1, HighestOne
<1>4. CASE handling \in {None, syscall_vector}
  <2>1. isr["master"] = {}
    BY <1>4 DEF PicInv, MasterInService, None, syscall_vector
  <2> QED BY <2>1 DEF EndOfInterrupt
<1> QED BY <1>1, <1>2, <1>3, <1>4 DEF PicInv, TypeOK

LEMMA NextPic == PicInv /\ [Next]_vars => PicInv'
<1> SUFFICES ASSUME PicInv, [Next]_vars PROVE PicInv'
  OBVIOUS
<1>t. /\ irr \in [{"master", "slave"} -> SUBSET (0 .. 7)]
      /\ isr \in [{"master", "slave"} -> SUBSET (0 .. 7)]
      /\ iflag \in BOOLEAN /\ 2 \notin irr["master"]
  BY DEF PicInv, TypeOK
<1>1. ASSUME NEW d \in Devices, Raise(d[1], d[2]) PROVE PicInv'
  <2>1. d[1] \in {"master", "slave"} /\ d[2] \in 0 .. 7 /\ (d[1] = "master" => d[2] # 2)
    BY DeviceAssumption
  <2>2. irr' = [irr EXCEPT ![d[1]] = @ \cup {d[2]}] /\ UNCHANGED <<isr, iflag, handling>>
    BY <1>1 DEF Raise
  <2>3. irr' \in [{"master", "slave"} -> SUBSET (0 .. 7)] /\ 2 \notin irr'["master"]
    BY <1>t, <2>1, <2>2
  <2> QED BY <2>2, <2>3 DEF PicInv, TypeOK, MasterInService
<1>2. CASE Deliver
  <2> DEFINE n == Highest(Deliverable)
             m == Highest(irr["slave"])
  <2>1. Deliverable \in SUBSET (0 .. 7) /\ Deliverable # {}
    BY <1>2, <1>t DEF Deliver, Deliverable, Requests
  <2>2. n \in Deliverable /\ n \in 0 .. 7
    BY <2>1, HighestIn
  <2>3. n = 2 => m \in 0 .. 7
    <3> SUFFICES ASSUME n = 2 PROVE m \in 0 .. 7
      OBVIOUS
    <3>1. irr["slave"] # {}
      BY <2>2, <1>t DEF Deliverable, Requests
    <3> QED BY <3>1, <1>t, HighestIn
  <2>4. handling = None
    BY <1>2 DEF Deliver, PicInv
  <2>5. isr["master"] = {}
    BY <2>4, InService
  <2>6. iflag' = FALSE
    BY <1>2 DEF Deliver
  <2>7. CASE /\ n # 2
             /\ irr' = [irr EXCEPT !["master"] = @ \ {n}]
             /\ isr' = [isr EXCEPT !["master"] = @ \cup {n}]
             /\ handling' = offset("master") + n
    <3> HIDE DEF n
    <3>1. handling' \in 32 .. 39 /\ isr'["master"] = {handling' - 32}
      BY <2>2, <2>5, <2>7, <1>t DEF offset
    <3>2. TypeOK' /\ 2 \notin irr'["master"]
      BY <2>2, <2>6, <2>7, <3>1, <1>t DEF TypeOK
    <3> QED BY <2>6, <3>1, <3>2 DEF PicInv, MasterInService
  <2>8. CASE /\ n = 2
             /\ irr' = [irr EXCEPT !["slave"] = @ \ {m}]
             /\ isr' = [isr EXCEPT !["master"] = @ \cup {2}, !["slave"] = @ \cup {m}]
             /\ handling' = offset("slave") + m
    <3>0. m \in 0 .. 7
      BY <2>3, <2>8
    <3> HIDE DEF n, m
    <3>1. handling' \in 48 .. 55 /\ isr'["master"] = {2}
      BY <3>0, <2>5, <2>8, <1>t DEF offset
    <3>2. irr' \in [{"master", "slave"} -> SUBSET (0 .. 7)] /\ 2 \notin irr'["master"]
      BY <3>0, <2>8, <1>t
    <3>3. isr["slave"] \cup {m} \in SUBSET (0 .. 7) /\ isr["master"] \cup {2} \in SUBSET (0 .. 7)
      BY <3>0, <1>t
    <3>4. isr' \in [{"master", "slave"} -> SUBSET (0 .. 7)]
      BY <3>3, <2>8, <1>t
    <3>5. TypeOK'
      BY <3>1, <3>2, <3>4, <2>6 DEF TypeOK
    <3> QED BY <2>6, <3>1, <3>2, <3>5 DEF PicInv, MasterInService
  <2> QED BY <1>2, <2>7, <2>8 DEF Deliver
<1>3. CASE SystemCall
  <2>1. isr["master"] = {}
    BY <1>3, InService DEF SystemCall, PicInv
  <2>2. handling' = 202 /\ iflag' = FALSE /\ irr' = irr /\ isr' = isr
    BY <1>3 DEF SystemCall, syscall_vector
  <2>3. TypeOK'
    BY <1>t, <2>2 DEF TypeOK, syscall_vector
  <2> QED BY <1>t, <2>1, <2>2, <2>3 DEF PicInv, MasterInService
<1>4. CASE common_interrupt_handler
  <2>1. isr' \in [{"master", "slave"} -> SUBSET (0 .. 7)]
    BY <1>4, <1>t DEF common_interrupt_handler, ack, EndOfInterrupt
  <2>2. isr'["master"] = {}
    BY <1>4, InService DEF common_interrupt_handler, ack
  <2>3. handling' = 0 /\ iflag' = TRUE /\ irr' = irr
    BY <1>4 DEF common_interrupt_handler, None
  <2>4. TypeOK'
    BY <1>t, <2>1, <2>3 DEF TypeOK, None
  <2> QED BY <1>t, <2>2, <2>3, <2>4 DEF PicInv, MasterInService, None
<1>5. CASE Cli \/ Sti
  BY <1>5, <1>t DEF Cli, Sti, PicInv, TypeOK, MasterInService, None
<1>6. CASE UNCHANGED vars
  BY <1>6 DEF vars, PicInv, TypeOK, MasterInService
<1> QED BY <1>1, <1>2, <1>3, <1>4, <1>5, <1>6 DEF Next

\* What is in service at the master is what the running handler handles
\* (handlers.cc:128), whatever devices there are.
THEOREM PicInvariant == Spec => []PicInv
  BY InitPic, NextPic, PTL DEF Spec

THEOREM MasterInServiceHolds == Spec => []MasterInService
<1>1. PicInv => MasterInService
  BY DEF PicInv
<1> QED BY <1>1, PicInvariant, PTL
-----------------------------------------------------------------------------
(* The frame.                                                              *)

LEMMA FieldsLength == Len(Fields) = 19
  BY DEF Fields

\* Every field has one place.
LEMMA FieldPlace == ASSUME NEW k \in 1 .. 19 PROVE FieldNo(Fields[k]) = k
  <1>1. ASSUME NEW j \in 1 .. 19, Fields[j] = Fields[k] PROVE j = k
    BY <1>1 DEF Fields
  <1> QED
    BY <1>1, FieldsLength DEF FieldNo

LEMMA FieldPlaces ==
  /\ Fields[1] = "gs" /\ Fields[2] = "fs" /\ Fields[3] = "es" /\ Fields[4] = "ds" /\ Fields[5] = "edi"
  /\ Fields[6] = "esi" /\ Fields[7] = "ebp" /\ Fields[8] = "esp" /\ Fields[9] = "ebx" /\ Fields[10] = "edx"
  /\ Fields[11] = "ecx" /\ Fields[12] = "eax" /\ Fields[13] = "int_no" /\ Fields[14] = "err_code"
  /\ Fields[15] = "eip" /\ Fields[16] = "cs" /\ Fields[17] = "eflags" /\ Fields[18] = "useresp"
  /\ Fields[19] = "ss"
  BY DEF Fields

\* The frame that a stack of so many words is.
FrameOf(s) == [f \in {Fields[k] : k \in 1 .. Len(s)} |-> s[Len(s) + 1 - FieldNo(f)]]

LEMMA FrameOfStack == Frame = FrameOf(stack) /\ Frame' = FrameOf(stack')
  BY DEF Frame, FrameOf, Present, Top

LEMMA FrameIs ==
  ASSUME NEW s, NEW n \in 17 .. 19, On(1 .. n, s)
  PROVE  /\ Len(s) = n
         /\ DOMAIN FrameOf(s) = {Fields[k] : k \in 1 .. n}
         /\ \A k \in 1 .. n : FrameOf(s)[Fields[k]] = s[n + 1 - k]
  <1>1. Len(s) = n
    BY DEF On
  <1>2. ASSUME NEW k \in 1 .. n PROVE FrameOf(s)[Fields[k]] = s[n + 1 - k]
    <2>1. FieldNo(Fields[k]) = k
      BY FieldPlace
    <2> QED
      BY <1>1, <2>1 DEF FrameOf
  <1> QED
    BY <1>1, <1>2 DEF FrameOf

\* What the handler writes into its frame, the rest of it stays.
LEMMA SetFrameIs ==
  ASSUME NEW n \in 17 .. 19, On(1 .. n, stack), NEW new, SetFrame(new)
  PROVE  /\ On(1 .. n, stack')
         /\ DOMAIN Frame = {Fields[k] : k \in 1 .. n} /\ DOMAIN Frame' = DOMAIN Frame
         /\ \A f \in DOMAIN Frame : Frame'[f] = IF f \in DOMAIN new THEN new[f] ELSE Frame[f]
  <1>1. /\ Len(stack) = n /\ DOMAIN Frame = {Fields[k] : k \in 1 .. n}
        /\ \A k \in 1 .. n : Frame[Fields[k]] = stack[n + 1 - k]
    BY FrameIs, FrameOfStack
  <1>2. stack' = [i \in 1 .. n |-> IF Fields[n + 1 - i] \in DOMAIN new THEN new[Fields[n + 1 - i]]
                                   ELSE stack[i]]
    BY <1>1 DEF SetFrame
  <1>3. On(1 .. n, stack')
    BY <1>2 DEF On
  <1>4. /\ DOMAIN Frame' = {Fields[k] : k \in 1 .. n}
        /\ \A k \in 1 .. n : Frame'[Fields[k]] = stack'[n + 1 - k]
    BY <1>3, FrameIs, FrameOfStack
  <1>5. ASSUME NEW k \in 1 .. n
        PROVE  Frame'[Fields[k]] = IF Fields[k] \in DOMAIN new THEN new[Fields[k]] ELSE Frame[Fields[k]]
    <2>1. n + 1 - k \in 1 .. n /\ n + 1 - (n + 1 - k) = k
      OBVIOUS
    <2> QED
      BY <1>1, <1>2, <1>4, <2>1
  <1> QED
    BY <1>1, <1>3, <1>4, <1>5

\* What is on the stack when the shell is reached, from user mode and from
\* the kernel.
Way(r, v) == Pushed(r, v) \o (IF v \in HasErrorCode THEN <<>> ELSE <<zero>>) \o <<number(v)>>

Code(v) == IF v \in HasErrorCode THEN error(v) ELSE zero

LEMMA OnSeq ==
  ASSUME NEW S, NEW s \in Seq(S)
  PROVE  On(1 .. Len(s), s)
  BY SeqDef DEF On

LEMMA WayIs ==
  ASSUME NEW r, NEW v
  PROVE  LET w == Way(r, v)
             m == IF Privilege(r["cs"]) = 3 THEN 7 ELSE 5
         IN  /\ On(1 .. m, w)
             /\ w[m] = number(v) /\ w[m - 1] = Code(v)
             /\ w[m - 2] = r["eip"] /\ w[m - 3] = r["cs"] /\ w[m - 4] = r["eflags"]
             /\ m = 7 => w[1] = r["ss"] /\ w[2] = r["esp"]
  <1> DEFINE a == r["ss"] b == r["esp"] c == r["eflags"] d == r["cs"] e == r["eip"] n == number(v)
             z == Code(v) user == Privilege(r["cs"]) = 3
             head == IF user THEN <<a, b>> ELSE <<>>
             code == IF v \in HasErrorCode THEN <<error(v)>> ELSE <<>>
             filler == IF v \in HasErrorCode THEN <<>> ELSE <<zero>>
             S == {a, b, c, d, e, n, z}
             m == IF user THEN 7 ELSE 5
             w == head \o <<c, d, e>> \o code \o filler \o <<n>>
  <1>1. Way(r, v) = w
    BY Zenon DEF Way, Pushed
  <1>2. code \in Seq(S) /\ filler \in Seq(S) /\ head \in Seq(S)
    <2>1. (v \in HasErrorCode => error(v) = z) /\ (v \notin HasErrorCode => zero = z)
      BY DEF Code
    <2>2. z \in S /\ a \in S /\ b \in S
      OBVIOUS
    <2> HIDE DEF z, a, b, S
    <2> QED
      BY <2>1, <2>2
  <1>3. Len(code) + Len(filler) = 1 /\ Len(head) = m - 5
    OBVIOUS
  <1>4. /\ v \in HasErrorCode => code[1] = z /\ Len(code) = 1
        /\ v \notin HasErrorCode => filler[1] = z /\ Len(code) = 0
        /\ user => head[1] = a /\ head[2] = b
    BY DEF Code
  <1>m. m \in {5, 7} /\ (user => m = 7) /\ (~user => m = 5)
    OBVIOUS
  <1> HIDE DEF a, b, c, d, e, n, z, head, code, filler, m, user
  <1>5. /\ head \o <<c, d, e>> \in Seq(S) /\ Len(head \o <<c, d, e>>) = m - 2
        /\ (head \o <<c, d, e>>)[m - 2] = e /\ (head \o <<c, d, e>>)[m - 3] = d
        /\ (head \o <<c, d, e>>)[m - 4] = c
        /\ user => (head \o <<c, d, e>>)[1] = a /\ (head \o <<c, d, e>>)[2] = b
    BY <1>2, <1>3, <1>4, <1>m
  <1> DEFINE h == head \o <<c, d, e>>
  <1> HIDE DEF h
  <1>6. /\ h \in Seq(S) /\ Len(h) = m - 2 /\ h[m - 2] = e /\ h[m - 3] = d /\ h[m - 4] = c
        /\ user => h[1] = a /\ h[2] = b
    BY <1>5 DEF h
  <1>7. w = h \o code \o filler \o <<n>>
    BY DEF h
  <1>8. /\ h \o code \o filler \in Seq(S) /\ Len(h \o code \o filler) = m - 1
        /\ (h \o code \o filler)[m - 1] = z
        /\ \A i \in 1 .. m - 2 : (h \o code \o filler)[i] = h[i]
    BY <1>2, <1>3, <1>4, <1>6, <1>m
  <1> DEFINE g == h \o code \o filler
  <1> HIDE DEF g
  <1>9. /\ g \in Seq(S) /\ Len(g) = m - 1 /\ g[m - 1] = z /\ \A i \in 1 .. m - 2 : g[i] = h[i]
    BY <1>8 DEF g
  <1>10. w = g \o <<n>>
    BY <1>7 DEF g
  <1> HIDE DEF w
  <1>11. w \in Seq(S) /\ Len(w) = m /\ w[m] = n /\ \A i \in 1 .. m - 1 : w[i] = g[i]
    <2>1. <<n>> \in Seq(S) /\ Len(<<n>>) = 1 /\ <<n>>[1] = n
      OBVIOUS
    <2> DEFINE t == <<n>>
    <2> HIDE DEF t, S
    <2>2. t \in Seq(S) /\ Len(t) = 1 /\ t[1] = n /\ w = g \o t
      BY <1>10, <2>1 DEF t
    <2>3. /\ w \in Seq(S) /\ Len(w) = Len(g) + Len(t)
          /\ \A i \in 1 .. Len(g) + Len(t) : w[i] = IF i =< Len(g) THEN g[i] ELSE t[i - Len(g)]
      BY <1>9, <2>2, ConcatProperties
    <2>4. Len(g) + Len(t) = m /\ m \in Nat /\ m - 1 = Len(g)
      BY <1>9, <1>m, <2>2
    <2>5. /\ w \in Seq(S) /\ Len(w) = m
          /\ \A i \in 1 .. m : w[i] = IF i =< m - 1 THEN g[i] ELSE t[i - (m - 1)]
      BY <2>3, <2>4
    <2> QED
      BY <1>m, <2>2, <2>5
  <1>12. On(1 .. m, w)
    BY <1>11, OnSeq
  <1>13. /\ w[m - 1] = z /\ w[m - 2] = e /\ w[m - 3] = d /\ w[m - 4] = c
         /\ user => w[1] = a /\ w[2] = b
    BY <1>6, <1>9, <1>11, <1>m
  <1>14. /\ On(1 .. m, Way(r, v))
         /\ Way(r, v)[m] = n /\ Way(r, v)[m - 1] = z /\ Way(r, v)[m - 2] = e
         /\ Way(r, v)[m - 3] = d /\ Way(r, v)[m - 4] = c
         /\ user => Way(r, v)[1] = a /\ Way(r, v)[2] = b
    BY <1>1, <1>11, <1>12, <1>13
  <1> QED
    BY <1>14, <1>m DEF a, b, c, d, e, n, z, user, m

\* The shell's pushes make the lower part of the frame.
LEMMA ShellPushes ==
  ASSUME NEW m \in {5, 7}, On(1 .. m, stack), Shell
  PROVE  /\ On(1 .. m + 12, stack')
         /\ \A k \in 1 .. 12 : stack'[m + 13 - k] = regs[Fields[k]]
         /\ \A i \in 1 .. m : stack'[i] = stack[i]
  <1> DEFINE pushed == [i \in 1 .. 12 |-> regs[PushOrder[i]]]
  <1>1. stack' = stack \o pushed
    <2>1. Len(PushOrder) = 12
      BY DEF PushOrder
    <2> QED
      BY <2>1 DEF Shell
  <1>2. Len(stack) = m /\ Len(pushed) = 12
    BY DEF On
  <1>3. \A k \in 1 .. 12 : PushOrder[13 - k] = Fields[k]
    <2>1. /\ PushOrder[1] = Fields[12] /\ PushOrder[2] = Fields[11] /\ PushOrder[3] = Fields[10]
          /\ PushOrder[4] = Fields[9] /\ PushOrder[5] = Fields[8] /\ PushOrder[6] = Fields[7]
          /\ PushOrder[7] = Fields[6] /\ PushOrder[8] = Fields[5] /\ PushOrder[9] = Fields[4]
          /\ PushOrder[10] = Fields[3] /\ PushOrder[11] = Fields[2] /\ PushOrder[12] = Fields[1]
      BY DEF PushOrder, Fields
    <2>2. \A k \in 1 .. 12 : k = 1 \/ k = 2 \/ k = 3 \/ k = 4 \/ k = 5 \/ k = 6 \/ k = 7 \/ k = 8
                             \/ k = 9 \/ k = 10 \/ k = 11 \/ k = 12
      OBVIOUS
    <2> QED
      BY <2>1, <2>2
  <1>4. \A k \in 1 .. 12 : pushed[13 - k] = regs[Fields[k]]
    <2>1. \A k \in 1 .. 12 : 13 - k \in 1 .. 12
      OBVIOUS
    <2> QED
      BY <1>3, <2>1
  <1> HIDE DEF pushed
  <1> DEFINE S == {stack[i] : i \in 1 .. m} \cup {pushed[i] : i \in 1 .. 12}
  <1>5. stack \in Seq(S) /\ pushed \in Seq(S)
    BY DEF On, pushed
  <1> HIDE DEF S
  <1>6. On(1 .. m + 12, stack')
    BY <1>1, <1>2, <1>5, OnSeq, ConcatProperties
  <1>7. \A i \in 1 .. m : stack'[i] = stack[i]
    BY <1>1, <1>2, <1>5
  <1>8. ASSUME NEW k \in 1 .. 12 PROVE stack'[m + 13 - k] = regs[Fields[k]]
    <2>1. m + 13 - k \in 1 .. m + 12 /\ ~(m + 13 - k =< m) /\ (m + 13 - k) - m = 13 - k
      OBVIOUS
    <2>2. stack'[m + 13 - k] = pushed[(m + 13 - k) - m]
      <3>1. \A i \in 1 .. m + 12 : stack'[i] = IF i =< m THEN stack[i] ELSE pushed[i - m]
        <4>1. \A i \in 1 .. Len(stack) + Len(pushed) :
                (stack \o pushed)[i] = IF i =< Len(stack) THEN stack[i] ELSE pushed[i - Len(stack)]
          BY <1>5, ConcatProperties
        <4> QED
          BY <1>1, <1>2, <4>1
      <3> QED
        BY <2>1, <3>1
    <2> QED
      BY <1>4, <2>1, <2>2
  <1> QED
    BY <1>6, <1>7, <1>8

-----------------------------------------------------------------------------
(* The steps.                                                              *)

\* The segments of the kernel and of the tasks are not the same.
LEMMA SegmentsAre ==
  /\ Privilege(InitSegments.code) = 0 /\ Privilege(UserSegments.code) = 3
  /\ idt_entry(syscall_vector).dpl = 3 /\ idt_entry(3).dpl = 0
  /\ InitSegments.data = ss0 /\ shell_data = ss0
  BY DEF InitSegments, UserSegments, Privilege, Selector, idt_entry, syscall_vector, ss0, shell_data

\* Who runs in user mode is a task.
LEMMA ModeIs ==
  ASSUME CpuTypeOK, LeftFlat
  PROVE  /\ current = "kernel" => Privilege(left[current]["cs"]) = 0
         /\ current # "kernel" => current \in Tasks /\ Privilege(left[current]["cs"]) = 3
  BY SegmentsAre, TaskAssumption DEF CpuTypeOK, LeftFlat, Flat, Threads, Tasks

\* The processor enters the kernel.
LEMMA EnterEntry ==
  ASSUME EntryInv, NEW v \in Nat, Enter(v), v >= 32 => v = handling', PicInv'
  PROVE  EntryInv'
  <1>1. pc = "run" /\ regs = left[current] /\ current \in Threads /\ CpuTypeOK /\ LeftFlat /\ pc' = "stub"
    BY DEF EntryInv, Entered, CpuTypeOK, Enter
  <1>2. left' = left
    BY <1>1 DEF CpuTypeOK, On, Enter
  <1>3. UNCHANGED <<current, ready, saved>> /\ vector' = v
    BY DEF Enter
  <1>4. InUserMode <=> current # "kernel"
    BY <1>1, ModeIs DEF InUserMode
  <1>5. /\ On(Register, regs') /\ regs'["cs"] = InitSegments.code /\ regs'["ss"] = ss0
        /\ \A r \in Register \ {"cs", "ss"} : regs'[r] = left[current][r]
    <2>1. regs' = [regs EXCEPT !["cs"] = InitSegments.code, !["ss"] = IF InUserMode THEN ss0 ELSE @]
      BY DEF Enter, idt_entry, InitSegments
    <2>2. regs["ss"] = ss0 \/ InUserMode
      BY <1>1, <1>4, SegmentsAre DEF LeftFlat, Flat
    <2>3. On(Register, regs) /\ "cs" \in Register /\ "ss" \in Register
      BY <1>1 DEF CpuTypeOK, Register
    <2>4. On(Register, regs')
      BY <2>1, <2>3 DEF On
    <2>5. regs'["cs"] = InitSegments.code /\ regs'["ss"] = ss0
      BY <2>1, <2>2, <2>3 DEF On
    <2>6. \A r \in Register \ {"cs", "ss"} : regs'[r] = left[current][r]
      BY <1>1, <2>1, <2>3 DEF On
    <2> QED
      BY <2>4, <2>5, <2>6
  <1>6. CpuTypeOK'
    BY <1>1, <1>2, <1>3, <1>5 DEF CpuTypeOK
  <1>7. Turns' /\ LeftFlat' /\ SavedHolds'
    BY <1>2, <1>3 DEF EntryInv, Turns, LeftFlat, SavedHolds
  <1>8. Stacked'
    BY <1>1, <1>2, <1>3 DEF Stacked, Enter
  <1>9. InKernel'
    BY <1>2, <1>3, <1>5 DEF InKernel, Register
  <1>10. Entered'
    BY <1>1, <1>2, <1>3, <1>5, <1>9 DEF Entered
  <1> QED
    BY <1>6, <1>7, <1>8, <1>10 DEF EntryInv

\* A stub completes the words of the processor.
LEMMA StubEntry ==
  ASSUME EntryInv, ExceptionStub \/ InterruptStub
  PROVE  EntryInv'
  <1>1. PicInv'
    <2>1. UNCHANGED vars
      BY DEF ExceptionStub, InterruptStub, Stub
    <2> QED
      BY <2>1 DEF EntryInv, PicInv, TypeOK, MasterInService, vars
  <1>2. /\ pc = "stub" /\ pc' = "shell" /\ UNCHANGED <<regs, vector, current, ready, saved, left, handling>>
        /\ stack' = stack \o (IF vector \in HasErrorCode THEN <<>> ELSE <<zero>>) \o <<number(vector)>>
    <2>1. vector \in Nat
      BY DEF EntryInv, Entered, ExceptionStub, InterruptStub, Stub
    <2>2. vector >= 32 => vector \notin HasErrorCode
      BY <2>1 DEF HasErrorCode
    <2> QED
      BY <2>2 DEF ExceptionStub, InterruptStub, Stub, ErrorStubs, HasErrorCode, vars
  <1>3. CpuTypeOK' /\ Turns' /\ LeftFlat' /\ SavedHolds' /\ (InKernel => InKernel')
    BY <1>2 DEF EntryInv, CpuTypeOK, Turns, LeftFlat, SavedHolds, InKernel
  <1>4. Stacked'
    BY <1>2 DEF EntryInv, Stacked
  <1>5. Entered'
    BY <1>2, <1>3 DEF EntryInv, Entered
  <1> QED
    BY <1>1, <1>3, <1>4, <1>5 DEF EntryInv

\* The shell completes the frame.
LEMMA ShellEntry ==
  ASSUME EntryInv, Shell
  PROVE  EntryInv'
  <1>1. PicInv'
    BY DEF EntryInv, Shell, PicInv, TypeOK, MasterInService, vars
  <1>2. pc = "shell" /\ pc' = "handler" /\ UNCHANGED <<vector, current, ready, saved, left, handling>>
    BY DEF Shell, vars
  <1>3. CpuTypeOK /\ LeftFlat /\ InKernel /\ \A r \in Register \ {"cs", "ss"} : regs[r] = left[current][r]
    BY <1>2 DEF EntryInv, Entered
  <1> DEFINE m == IF Privilege(left[current]["cs"]) = 3 THEN 7 ELSE 5
             w == Way(left[current], vector)
  <1>4. m \in {5, 7} /\ m + 12 = Depth /\ (m = 7 <=> Privilege(left[current]["cs"]) = 3)
    BY <1>3, ModeIs DEF Depth
  <1>5. stack = w
    BY <1>2 DEF EntryInv, Stacked, Way
  <1>6. /\ On(1 .. m, stack)
        /\ stack[m] = number(vector) /\ stack[m - 1] = Code(vector)
        /\ stack[m - 2] = left[current]["eip"] /\ stack[m - 3] = left[current]["cs"]
        /\ stack[m - 4] = left[current]["eflags"]
        /\ m = 7 => stack[1] = left[current]["ss"] /\ stack[2] = left[current]["esp"]
    BY <1>5, WayIs
  <1> HIDE DEF m, w
  <1>7. /\ On(1 .. m + 12, stack')
        /\ \A k \in 1 .. 12 : stack'[m + 13 - k] = regs[Fields[k]]
        /\ \A i \in 1 .. m : stack'[i] = stack[i]
    BY <1>4, <1>6, ShellPushes
  <1>8. /\ DOMAIN Frame' = {Fields[k] : k \in 1 .. m + 12}
        /\ \A k \in 1 .. m + 12 : Frame'[Fields[k]] = stack'[m + 13 - k]
    <2>1. m + 12 \in 17 .. 19 /\ \A k \in 1 .. m + 12 : (m + 12) + 1 - k = m + 13 - k
      BY <1>4
    <2> DEFINE n == m + 12
    <2>2. n \in 17 .. 19 /\ On(1 .. n, stack')
      BY <1>7, <2>1
    <2> HIDE DEF n
    <2>3. /\ DOMAIN Frame' = {Fields[k] : k \in 1 .. n}
          /\ \A k \in 1 .. n : Frame'[Fields[k]] = stack'[n + 1 - k]
      BY <2>2, FrameIs, FrameOfStack
    <2> QED
      BY <2>1, <2>3 DEF n
  <1>9. \A f \in General \cup Segments : Frame'[f] = left[current][f]
    <2>1. \A k \in 1 .. 12 : Frame'[Fields[k]] = regs[Fields[k]]
      <3> SUFFICES ASSUME NEW k \in 1 .. 12 PROVE Frame'[Fields[k]] = regs[Fields[k]]
        OBVIOUS
      <3>1. k \in 1 .. m + 12
        BY <1>4
      <3>2. Frame'[Fields[k]] = stack'[m + 13 - k]
        BY <1>8, <3>1
      <3>3. stack'[m + 13 - k] = regs[Fields[k]]
        BY <1>7
      <3> QED
        BY <3>2, <3>3
    <2>2. \A f \in General \cup Segments : \E k \in 1 .. 12 : f = Fields[k]
      BY FieldPlaces DEF General, Segments
    <2>3. \A f \in General \cup Segments : f \in Register \ {"cs", "ss"}
      BY DEF General, Segments, Register
    <2> QED
      BY <1>3, <2>1, <2>2, <2>3
  <1>10. /\ Frame'["int_no"] = number(vector) /\ Frame'["err_code"] = Code(vector)
         /\ Frame'["eip"] = left[current]["eip"] /\ Frame'["cs"] = left[current]["cs"]
         /\ Frame'["eflags"] = left[current]["eflags"]
         /\ m = 7 => Frame'["useresp"] = left[current]["esp"] /\ Frame'["ss"] = left[current]["ss"]
    <2>1. ASSUME NEW i \in 1 .. m PROVE Frame'[Fields[m + 13 - i]] = stack[i]
      <3>1. m + 13 - i \in 1 .. m + 12 /\ m + 13 - (m + 13 - i) = i
        BY <1>4
      <3> QED
        BY <1>7, <1>8, <3>1
    <2>2. CASE m = 5
      BY <1>6, <2>1, <2>2, FieldPlaces
    <2>3. CASE m = 7
      BY <1>6, <2>1, <2>3, FieldPlaces
    <2> QED
      BY <1>4, <2>2, <2>3
  <1>11. Holds(Frame', left[current])
    BY <1>4, <1>9, <1>10 DEF Holds
  <1>12. /\ On(Register, regs') /\ regs'["cs"] = regs["cs"] /\ regs'["ss"] = regs["ss"]
         /\ regs'["esp"] = regs["esp"] /\ \A s \in Segments : regs'[s] = shell_data
    BY <1>3 DEF Shell, CpuTypeOK, On, Register, Segments
  <1>13. CpuTypeOK'
    BY <1>2, <1>3, <1>12 DEF CpuTypeOK
  <1>14. Turns' /\ LeftFlat' /\ SavedHolds' /\ InKernel'
    BY <1>2, <1>3, <1>12 DEF EntryInv, Turns, LeftFlat, SavedHolds, InKernel
  <1>15. Stacked'
    BY <1>2, <1>4, <1>7 DEF Stacked, Depth
  <1>16. Entered'
    <2>1. Holds(Frame, left[current])'
      BY <1>2, <1>11 DEF Holds
    <2> QED
      BY <1>2, <1>10, <1>12, <1>14, <2>1 DEF EntryInv, Entered, Code
  <1> QED
    BY <1>1, <1>13, <1>14, <1>15, <1>16 DEF EntryInv

\* A step of the handler leaves the way back of who runs next in the frame.
LEMMA HandlerKeeps ==
  ASSUME EntryInv, pc = "handler", pc' = "return", vector >= 32, UNCHANGED <<vars, regs, vector>>,
         CpuTypeOK', Turns', LeftFlat', SavedHolds', current' = "kernel" <=> current = "kernel",
         current = "kernel" => left'["kernel"]["esp"] = left["kernel"]["esp"], On(1 .. Depth, stack'), Holds(Frame', left'[current']),
         Frame'["int_no"] = number(vector)
  PROVE  EntryInv'
  <1>1. PicInv'
    BY DEF EntryInv, PicInv, TypeOK, MasterInService, vars
  <1>2. InKernel'
    BY DEF EntryInv, Entered, InKernel
  <1>3. Stacked'
    BY DEF Stacked, Depth
  <1>4. Holds(Frame, left[current])'
    BY DEF Holds
  <1>5. Entered'
    BY <1>2, <1>4 DEF EntryInv, Entered, vars
  <1> QED
    BY <1>1, <1>3, <1>5 DEF EntryInv

\* Which fields of a frame there are.
LEMMA FieldsAre ==
  /\ {Fields[k] : k \in 1 .. 17} = General \cup Segments \cup {"esp", "int_no", "err_code", "eip", "cs", "eflags"}
  /\ {Fields[k] : k \in 1 .. 19} = General \cup Segments \cup {"esp", "int_no", "err_code", "eip", "cs", "eflags",
                                                               "useresp", "ss"}
  <1>1. \A k \in 1 .. 19 : k = 1 \/ k = 2 \/ k = 3 \/ k = 4 \/ k = 5 \/ k = 6 \/ k = 7 \/ k = 8 \/ k = 9
          \/ k = 10 \/ k = 11 \/ k = 12 \/ k = 13 \/ k = 14 \/ k = 15 \/ k = 16 \/ k = 17 \/ k = 18 \/ k = 19
    OBVIOUS
  <1> QED
    BY <1>1, FieldPlaces DEF General, Segments

\* The frame as it is left alone.
LEMMA LeaveEntry ==
  ASSUME EntryInv, pc = "handler", pc' = "return", vector >= 32, UNCHANGED <<vars, regs, vector>>,
         UNCHANGED <<stack, saved, current, ready, left>>
  PROVE  EntryInv'
  <1>1. CpuTypeOK' /\ Turns' /\ LeftFlat' /\ SavedHolds'
    BY DEF EntryInv, CpuTypeOK, Turns, LeftFlat, SavedHolds
  <1>2. On(1 .. Depth, stack)
    BY DEF EntryInv, Stacked
  <1>3. Frame' = Frame /\ Holds(Frame', left'[current']) /\ Frame'["int_no"] = number(vector)
    BY FrameOfStack DEF EntryInv, Entered
  <1> QED
    BY <1>1, <1>2, <1>3, HandlerKeeps

\* A system call answers in eax.
LEMMA AnswerEntry ==
  ASSUME EntryInv, pc = "handler", pc' = "return", vector >= 32, UNCHANGED <<vars, regs, vector>>,
         SetFrame([f \in {"eax"} |-> answer]), left' = [left EXCEPT ![current]["eax"] = answer],
         UNCHANGED <<saved, current, ready>>
  PROVE  EntryInv'
  <1>1. /\ On(1 .. Depth, stack) /\ Depth \in 17 .. 19 /\ Holds(Frame, left[current])
        /\ Frame["int_no"] = number(vector) /\ CpuTypeOK /\ LeftFlat
    BY DEF EntryInv, Stacked, Entered, Depth
  <1> DEFINE n == Depth
             new == [f \in {"eax"} |-> answer]
  <1>n. n \in 17 .. 19 /\ On(1 .. n, stack) /\ SetFrame(new)
    BY <1>1
  <1>e. DOMAIN new = {"eax"} /\ new["eax"] = answer
    OBVIOUS
  <1> HIDE DEF n, new
  <1>2. /\ On(1 .. n, stack')
        /\ DOMAIN Frame = {Fields[k] : k \in 1 .. n}
        /\ \A f \in DOMAIN Frame : Frame'[f] = IF f = "eax" THEN answer ELSE Frame[f]
    BY <1>n, <1>e, SetFrameIs
  <1>3. /\ On(Threads, left') /\ \A t \in Threads : On(Register, left'[t])
        /\ \A t \in Threads \ {current} : left'[t] = left[t]
        /\ \A r \in Register : left'[current][r] = IF r = "eax" THEN answer ELSE left[current][r]
    <2>1. /\ left' = [left EXCEPT ![current] = [@ EXCEPT !["eax"] = answer]] /\ current \in Threads
          /\ On(Threads, left) /\ \A t \in Threads : On(Register, left[t])
      BY <1>1 DEF CpuTypeOK
    <2>2. "eax" \in Register
      BY DEF Register, General
    <2>3. On(Threads, left')
      BY <2>1 DEF On
    <2>4. \A t \in Threads : left'[t] = IF t = current THEN [left[t] EXCEPT !["eax"] = answer] ELSE left[t]
      BY <2>1 DEF On
    <2>5. \A t \in Threads : On(Register, left'[t])
      BY <2>1, <2>2, <2>4 DEF On
    <2>6. \A r \in Register : left'[current][r] = IF r = "eax" THEN answer ELSE left[current][r]
      BY <2>1, <2>2, <2>4 DEF On
    <2> QED
      BY <2>3, <2>4, <2>5, <2>6
  <1>4. CpuTypeOK'
    BY <1>1, <1>3 DEF CpuTypeOK
  <1>5. Turns' /\ SavedHolds'
    BY <1>1, <1>3 DEF EntryInv, Turns, SavedHolds, Threads
  <1>6. LeftFlat'
    <2>1. \A t \in Threads, s \in Segments \cup {"ss", "cs"} : left'[t][s] = left[t][s]
      BY <1>1, <1>3 DEF Segments, Register, CpuTypeOK
    <2>2. "kernel" \in Threads /\ \A t \in Tasks : t \in Threads
      BY DEF Threads
    <2> QED
      BY <1>1, <2>1, <2>2 DEF LeftFlat, Flat
  <1>7. Holds(Frame', left'[current'])
    <2>1. \A f \in General \cup Segments \cup {"eip", "cs", "eflags"} : f \in DOMAIN Frame /\ f \in Register
      BY <1>1, <1>2, FieldsAre DEF n, Depth, Register
    <2>2. current # "kernel" => "useresp" \in DOMAIN Frame /\ "ss" \in DOMAIN Frame
      BY <1>2, FieldsAre DEF n, Depth
    <2>3. \A r \in {"cs", "esp", "ss"} : left'[current][r] = left[current][r]
      BY <1>3 DEF Register
    <2>4. Privilege(left[current]["cs"]) = 3 => current # "kernel"
      BY <1>1, ModeIs
    <2> QED
      BY <1>1, <1>2, <1>3, <2>1, <2>2, <2>3, <2>4 DEF Holds
  <1>8. Frame'["int_no"] = number(vector)
    BY <1>1, <1>2, FieldsAre DEF n, Depth
  <1>9. current = "kernel" => left'["kernel"]["esp"] = left["kernel"]["esp"]
    BY <1>3 DEF Register
  <1>10. On(1 .. Depth, stack')
    BY <1>2 DEF n
  <1> QED
    BY <1>4, <1>5, <1>6, <1>7, <1>8, <1>9, <1>10, HandlerKeeps

\* The frame of the task that takes over replaces that of the one that ran,
\* which is kept.
LEMMA SwitchEntry ==
  ASSUME EntryInv, pc = "handler", pc' = "return", vector >= 32, UNCHANGED <<vars, regs, vector>>,
         maybe_switch_task
  PROVE  EntryInv'
  <1>1. CASE ready = <<>>
    BY <1>1, LeaveEntry DEF maybe_switch_task
  <1>2. CASE ready # <<>>
    <2> DEFINE h == Head(ready)
    <2>1. /\ current \in Tasks /\ h \in Tasks /\ h # current /\ Tasks = {current, h}
          /\ ready' = <<current>> /\ current' = h /\ current # "kernel" /\ h # "kernel"
      <3>1. current \in Threads /\ Turns
        BY DEF EntryInv, CpuTypeOK
      <3>2. current = First \/ current = Second
        BY <1>2, <3>1 DEF Turns, Threads, Tasks
      <3>3. ready' = Append(Tail(ready), current) /\ current' = h
        BY <1>2 DEF maybe_switch_task
      <3>4. CASE current = First
        <4>1. ready = <<Second>>
          BY <3>1, <3>4 DEF Turns
        <4>2. h = Second /\ Append(Tail(ready), current) = <<current>>
          BY <4>1
        <4> QED
          BY <3>3, <3>4, <4>2, TaskAssumption DEF Tasks
      <3>5. CASE current = Second
        <4>1. ready = <<First>>
          BY <3>1, <3>5, TaskAssumption DEF Turns
        <4>2. h = First /\ Append(Tail(ready), current) = <<current>>
          BY <4>1
        <4> QED
          BY <3>3, <3>5, <4>2, TaskAssumption DEF Tasks
      <3> QED
        BY <3>2, <3>4, <3>5
    <2>2. /\ SetFrame(NextFrame(h)) /\ saved' = [saved EXCEPT ![current] = Frame]
          /\ left' = IF saved[h] # NoFrame THEN left
                     ELSE [left EXCEPT ![h]["esi"] = left[current]["esi"],
                                       ![h]["eflags"] = left[current]["eflags"]]
      BY <1>2 DEF maybe_switch_task
    <2> HIDE DEF h
    <2>3. /\ On(1 .. 19, stack) /\ Depth = 19 /\ Holds(Frame, left[current])
          /\ Frame["int_no"] = number(vector) /\ CpuTypeOK /\ LeftFlat /\ SavedHolds
      BY <2>1 DEF EntryInv, Stacked, Entered, Depth
    <2> DEFINE new == NextFrame(h)
    <2>4. SetFrame(new)
      BY <2>2
    <2> HIDE DEF new
    <2>5. /\ On(1 .. 19, stack') /\ DOMAIN Frame = {Fields[k] : k \in 1 .. 19}
          /\ \A f \in DOMAIN Frame : Frame'[f] = IF f \in DOMAIN new THEN new[f] ELSE Frame[f]
      <3> DEFINE n == 19
      <3>1. n \in 17 .. 19 /\ On(1 .. n, stack)
        BY <2>3
      <3> HIDE DEF n
      <3>2. /\ On(1 .. n, stack') /\ DOMAIN Frame = {Fields[k] : k \in 1 .. n}
            /\ \A f \in DOMAIN Frame : Frame'[f] = IF f \in DOMAIN new THEN new[f] ELSE Frame[f]
        BY <2>4, <3>1, SetFrameIs
      <3> QED
        BY <3>2 DEF n
    <2>6. DOMAIN Frame = General \cup Segments \cup {"esp", "int_no", "err_code", "eip", "cs", "eflags",
                                                     "useresp", "ss"}
      BY <2>5, FieldsAre
    <2>7. /\ On(Threads, left') /\ \A t \in Threads : On(Register, left'[t])
          /\ \A t \in Threads \ {h} : left'[t] = left[t]
          /\ saved[h] # NoFrame => left'[h] = left[h]
          /\ saved[h] = NoFrame => \A r \in Register :
               left'[h][r] = IF r \in {"esi", "eflags"} THEN left[current][r] ELSE left[h][r]
      <3>1. /\ h \in Threads /\ On(Threads, left) /\ \A t \in Threads : On(Register, left[t])
        BY <2>1, <2>3 DEF CpuTypeOK, Threads
      <3>2. CASE saved[h] # NoFrame
        BY <2>2, <3>1, <3>2
      <3>3. CASE saved[h] = NoFrame
        <4> DEFINE r1 == [left[h] EXCEPT !["esi"] = left[current]["esi"],
                                         !["eflags"] = left[current]["eflags"]]
        <4>1. left' = [left EXCEPT ![h] = r1]
          BY <2>2, <3>1, <3>3 DEF On
        <4>2. On(Register, r1)
          BY <3>1 DEF On, Register, General
        <4>3. \A r \in Register : r1[r] = IF r \in {"esi", "eflags"} THEN left[current][r] ELSE left[h][r]
          BY <3>1 DEF On
        <4> HIDE DEF r1
        <4>4. On(Threads, left') /\ left'[h] = r1 /\ \A t \in Threads \ {h} : left'[t] = left[t]
          BY <3>1, <4>1 DEF On
        <4> QED
          BY <3>1, <3>3, <4>2, <4>3, <4>4
      <3> QED
        BY <3>2, <3>3
    <2>8. On(Tasks, saved') /\ saved'[current] = Frame
      BY <2>1, <2>2, <2>3 DEF CpuTypeOK, On
    <2>9. CpuTypeOK'
      BY <2>1, <2>3, <2>7, <2>8 DEF CpuTypeOK, Threads
    <2>10. Turns'
      BY <2>1, TaskAssumption DEF Turns, Tasks
    <2>11. LeftFlat'
      <3>1. \A t \in Threads, s \in Segments \cup {"ss", "cs"} : left'[t][s] = left[t][s]
        BY <2>7 DEF Segments, Register
      <3>2. "kernel" \in Threads /\ \A t \in Tasks : t \in Threads
        BY DEF Threads
      <3> QED
        BY <2>3, <3>1, <3>2 DEF LeftFlat, Flat
    <2>12. SavedHolds'
      <3>1. left'[current] = left[current]
        BY <2>1, <2>7 DEF Threads
      <3>2. \A t \in Tasks \ {current'} : t = current
        BY <2>1
      <3>3. Frame # NoFrame
        <4>1. "gs" \in DOMAIN Frame
          BY <2>6 DEF Segments
        <4>2. DOMAIN NoFrame = {}
          BY DEF NoFrame
        <4> QED
          BY <4>1, <4>2
      <3> QED
        BY <2>1, <2>3, <2>5, <2>8, <3>1, <3>2, <3>3 DEF SavedHolds
    <2>13. Privilege(left'[h]["cs"]) = 3 /\ Privilege(left[current]["cs"]) = 3
      BY <2>1, <2>3, <2>11, SegmentsAre DEF LeftFlat, Flat
    <2>14. Holds(Frame', left'[h]) /\ Frame'["int_no"] = number(vector)
      <3>1. CASE saved[h] # NoFrame
        <4>1. Holds(saved[h], left[h]) /\ DOMAIN saved[h] = DOMAIN Frame /\ left'[h] = left[h]
          BY <2>1, <2>3, <2>5, <2>7, <3>1 DEF SavedHolds
        <4>2. new = [saved[h] EXCEPT !["int_no"] = Frame["int_no"]]
          BY <3>1 DEF new, NextFrame
        <4>3. \A f \in DOMAIN Frame : Frame'[f] = IF f = "int_no" THEN Frame["int_no"] ELSE saved[h][f]
          BY <2>5, <4>1, <4>2
        <4>4. Frame'["int_no"] = number(vector)
          BY <2>3, <2>6, <4>3
        <4>5. \A f \in General \cup Segments \cup {"eip", "cs", "eflags", "useresp", "ss"} :
                Frame'[f] = saved[h][f]
          BY <2>6, <4>3 DEF General, Segments
        <4> QED
          BY <4>1, <4>4, <4>5 DEF Holds
      <3>2. CASE saved[h] = NoFrame
        <4>1. left[h] = Registers(h)
          BY <2>1, <2>3, <3>2 DEF SavedHolds
        <4>2. new = [f \in NewFields \cup {"useresp"} |-> <<h, IF f = "useresp" THEN "esp" ELSE f>>]
          BY <3>2 DEF new, NextFrame
        <4>3. \A f \in DOMAIN Frame : Frame'[f] = IF f = "useresp" THEN <<h, "esp">>
                                                  ELSE IF f \in NewFields THEN <<h, f>> ELSE Frame[f]
          BY <2>5, <4>2
        <4>4. Frame'["int_no"] = number(vector)
          BY <2>3, <2>6, <4>3 DEF NewFields
        <4>5. \A f \in NewFields \cup {"esp"} : left[h][f] = <<h, f>> /\ left'[h][f] = left[h][f]
          BY <2>7, <3>2, <4>1 DEF Registers, NewFields, Register, General, Segments
        <4>6. \A f \in NewFields : Frame'[f] = left'[h][f]
          BY <2>6, <4>3, <4>5 DEF NewFields, General
        <4>7. Frame'["useresp"] = left'[h]["esp"]
          BY <2>6, <4>3, <4>5
        <4>8. \A f \in Segments \cup {"cs", "ss", "esi", "eflags"} : Frame'[f] = Frame[f]
          BY <2>6, <4>3 DEF NewFields, Segments, General
        <4>9. \A f \in {"esi", "eflags"} : Frame'[f] = left'[h][f]
          BY <2>3, <2>7, <3>2, <4>8 DEF Holds, General, Register
        <4>10. \A f \in Segments \cup {"cs", "ss"} : Frame'[f] = left'[h][f]
          <5>1. \A f \in Segments \cup {"cs", "ss"} : Frame[f] = left[current][f]
            BY <2>3, <2>13 DEF Holds
          <5>2. \A f \in Segments \cup {"cs", "ss"} : left[current][f] = left'[h][f]
            BY <2>1, <2>3, <2>11 DEF LeftFlat, Flat
          <5> QED
            BY <4>8, <5>1, <5>2
        <4>11. General = {"esi"} \cup (NewFields \ {"eip"}) /\ "eip" \in NewFields
          BY DEF General, NewFields
        <4>12. \A f \in General \cup Segments \cup {"eip", "cs", "eflags"} : Frame'[f] = left'[h][f]
          BY <4>6, <4>9, <4>10, <4>11
        <4> QED
          BY <4>4, <4>7, <4>10, <4>12 DEF Holds
      <3> QED
        BY <3>1, <3>2
    <2>15. Holds(Frame', left'[current']) /\ On(1 .. Depth, stack')
      BY <2>1, <2>3, <2>5, <2>14
    <2>16. /\ current' = "kernel" <=> current = "kernel"
           /\ current = "kernel" => left'["kernel"]["esp"] = left["kernel"]["esp"]
      BY <2>1
    <2> QED
      BY <2>9, <2>10, <2>11, <2>12, <2>14, <2>15, <2>16, HandlerKeeps
  <1> QED
    BY <1>1, <1>2

\* Every handler that returns.
LEMMA HandlersEntry ==
  ASSUME EntryInv, Handler
  PROVE  EntryInv'
  <1>1. pc = "handler" /\ pc' = "return" /\ vector >= 32 /\ UNCHANGED <<vars, regs, vector>>
    BY DEF Handler
  <1>2. \/ maybe_switch_task
        \/ UNCHANGED <<stack, saved, current, ready, left>>
        \/ /\ SetFrame([f \in {"eax"} |-> answer])
           /\ left' = [left EXCEPT ![current]["eax"] = answer]
           /\ UNCHANGED <<saved, current, ready>>
    BY DEF Handler, Syscall
  <1> QED
    BY <1>1, <1>2, SwitchEntry, LeaveEntry, AnswerEntry

-----------------------------------------------------------------------------
(* The way out, and the steps that are not of an interrupt.                *)

\* Which word of the stack each register is popped from.
LEMMA PopIs ==
  ASSUME NEW n \in 17 .. 19, On(1 .. n, stack)
  PROVE  /\ \A r \in General \cup Segments :
              Top(CHOOSE k \in 1 .. Len(PopOrder) : PopOrder[k] = r) = Frame[r]
         /\ Top(15) = Frame["eip"] /\ Top(16) = Frame["cs"] /\ Top(17) = Frame["eflags"]
         /\ n = 19 => Top(18) = Frame["useresp"] /\ Top(19) = Frame["ss"]
  <1>1. /\ Len(stack) = n
        /\ \A k \in 1 .. n : Frame[Fields[k]] = stack[n + 1 - k]
    BY FrameIs, FrameOfStack
  <1>2. \A k \in 1 .. n : Frame[Fields[k]] = Top(k)
    BY <1>1 DEF Top
  <1>3. ASSUME NEW r \in General \cup Segments
        PROVE  Top(CHOOSE k \in 1 .. Len(PopOrder) : PopOrder[k] = r) = Frame[r]
    <2>1. Len(PopOrder) = 12
      BY DEF PopOrder
    <2>2. \A k \in 1 .. 12 : PopOrder[k] = Fields[k]
      <3>1. /\ PopOrder[1] = Fields[1] /\ PopOrder[2] = Fields[2] /\ PopOrder[3] = Fields[3]
            /\ PopOrder[4] = Fields[4] /\ PopOrder[5] = Fields[5] /\ PopOrder[6] = Fields[6]
            /\ PopOrder[7] = Fields[7] /\ PopOrder[8] = Fields[8] /\ PopOrder[9] = Fields[9]
            /\ PopOrder[10] = Fields[10] /\ PopOrder[11] = Fields[11] /\ PopOrder[12] = Fields[12]
        BY DEF PopOrder, Fields
      <3>2. \A k \in 1 .. 12 : k = 1 \/ k = 2 \/ k = 3 \/ k = 4 \/ k = 5 \/ k = 6 \/ k = 7 \/ k = 8
                               \/ k = 9 \/ k = 10 \/ k = 11 \/ k = 12
        OBVIOUS
      <3> QED
        BY <3>1, <3>2
    <2> DEFINE p == CHOOSE k \in 1 .. 12 : PopOrder[k] = r
    <2>3. \E k \in 1 .. 12 : PopOrder[k] = r
      BY <2>2, FieldPlaces DEF General, Segments
    <2>4. p \in 1 .. 12 /\ PopOrder[p] = r
      BY <2>3
    <2>h. \A k \in 1 .. 12 : k \in 1 .. n
      OBVIOUS
    <2> HIDE DEF p
    <2>5. p \in 1 .. n /\ Fields[p] = r
      BY <2>2, <2>4, <2>h
    <2>6. Top(p) = Frame[r]
      BY <1>2, <2>5
    <2> QED
      BY <2>1, <2>6 DEF p
  <1>4. Top(15) = Frame["eip"] /\ Top(16) = Frame["cs"] /\ Top(17) = Frame["eflags"]
    BY <1>2, FieldPlaces
  <1>5. n = 19 => Top(18) = Frame["useresp"] /\ Top(19) = Frame["ss"]
    BY <1>2, FieldPlaces
  <1> QED
    BY <1>3, <1>4, <1>5

\* Who is returned to finds its registers.
LEMMA ReturnEntry ==
  ASSUME EntryInv, Return
  PROVE  EntryInv'
  <1>1. /\ pc = "return" /\ pc' = "run" /\ stack' = <<>> /\ common_interrupt_handler
        /\ UNCHANGED <<current, ready, saved, left>>
    BY DEF Return
  <1>2. PicInv' /\ handling' = None
    BY <1>1, NextPic DEF EntryInv, Next, common_interrupt_handler
  <1>3. /\ On(1 .. Depth, stack) /\ Depth \in 17 .. 19 /\ Holds(Frame, left[current])
        /\ CpuTypeOK /\ LeftFlat /\ InKernel /\ SavedHolds /\ Turns
    BY <1>1 DEF EntryInv, Stacked, Entered, Depth
  <1> DEFINE l == left[current]
             user == Privilege(l["cs"]) = 3
             popped(r) == Top(CHOOSE k \in 1 .. Len(PopOrder) : PopOrder[k] = r)
  <1>4. /\ current = "kernel" => Depth = 17 /\ ~ user
        /\ current # "kernel" => Depth = 19 /\ user /\ current \in Tasks
    BY <1>3, ModeIs DEF Depth
  <1>5. /\ \A r \in General \cup Segments : popped(r) = l[r]
        /\ Top(15) = l["eip"] /\ Top(16) = l["cs"] /\ Top(17) = l["eflags"]
        /\ user => Top(18) = l["esp"] /\ Top(19) = l["ss"]
    <2> DEFINE n == Depth
    <2>1. n \in 17 .. 19 /\ On(1 .. n, stack) /\ (user => n = 19)
      BY <1>3, <1>4
    <2> HIDE DEF n
    <2>2. /\ \A r \in General \cup Segments : popped(r) = Frame[r]
          /\ Top(15) = Frame["eip"] /\ Top(16) = Frame["cs"] /\ Top(17) = Frame["eflags"]
          /\ n = 19 => Top(18) = Frame["useresp"] /\ Top(19) = Frame["ss"]
      BY <2>1, PopIs
    <2> QED
      BY <1>3, <2>1, <2>2 DEF Holds
  <1>6. ~ user => regs["esp"] = l["esp"] /\ regs["ss"] = l["ss"]
    <2>1. CASE current = "kernel"
      BY <1>3, <2>1, SegmentsAre DEF InKernel, LeftFlat, Flat
    <2> QED
      BY <1>4, <2>1
  <1> HIDE DEF user, popped
  <1>7. regs' = [r \in DOMAIN regs |->
                    CASE r \in General \cup Segments -> popped(r)
                      [] r = "eip"    -> Top(15)
                      [] r = "cs"     -> Top(16)
                      [] r = "eflags" -> Top(17)
                      [] r = "esp"    -> IF user THEN Top(18) ELSE regs[r]
                      [] r = "ss"     -> IF user THEN Top(19) ELSE regs[r]]
    <2>1. Len(PopOrder) = 12
      BY DEF PopOrder
    <2>2. 12 + 2 + 1 = 15 /\ 12 + 2 + 2 = 16 /\ 12 + 2 + 3 = 17 /\ 12 + 2 + 4 = 18 /\ 12 + 2 + 5 = 19
      OBVIOUS
    <2>3. user <=> Privilege(Top(16)) = 3
      BY <1>5 DEF user
    <2>4. regs' = LET above == Len(PopOrder) + 2
                      to_user == Privilege(Top(above + 2)) = 3
                  IN  [r \in DOMAIN regs |->
                         CASE r \in General \cup Segments -> popped(r)
                           [] r = "eip"    -> Top(above + 1)
                           [] r = "cs"     -> Top(above + 2)
                           [] r = "eflags" -> Top(above + 3)
                           [] r = "esp"    -> IF to_user THEN Top(above + 4) ELSE regs[r]
                           [] r = "ss"     -> IF to_user THEN Top(above + 5) ELSE regs[r]]
      BY Zenon DEF Return, popped
    <2> QED
      BY <2>1, <2>2, <2>3, <2>4
  <1>8. ASSUME NEW r \in Register PROVE regs'[r] = l[r]
    <2>1. DOMAIN regs = Register
      BY <1>3 DEF CpuTypeOK, On
    <2>2. r \in General \cup Segments \/ r = "eip" \/ r = "cs" \/ r = "eflags" \/ r = "esp" \/ r = "ss"
      BY DEF Register
    <2>3. \A x \in {"eip", "cs", "eflags", "esp", "ss"} : x \notin General \cup Segments
      BY DEF General, Segments
    <2>4. CASE r \in General \cup Segments
      BY <1>5, <1>7, <2>1, <2>3, <2>4
    <2>5. CASE r \in {"eip", "cs", "eflags"}
      BY <1>5, <1>7, <2>1, <2>3, <2>5
    <2>6. CASE r \in {"esp", "ss"}
      BY <1>5, <1>6, <1>7, <2>1, <2>3, <2>6
    <2> QED
      BY <2>2, <2>4, <2>5, <2>6
  <1>9. On(Register, regs')
    <2> DEFINE val(r) == CASE r \in General \cup Segments -> popped(r)
                           [] r = "eip"    -> Top(15)
                           [] r = "cs"     -> Top(16)
                           [] r = "eflags" -> Top(17)
                           [] r = "esp"    -> IF user THEN Top(18) ELSE regs[r]
                           [] r = "ss"     -> IF user THEN Top(19) ELSE regs[r]
    <2>1. regs' = [r \in DOMAIN regs |-> val(r)] /\ DOMAIN regs = Register
      BY <1>3, <1>7, Zenon DEF CpuTypeOK, On
    <2> HIDE DEF val
    <2> QED
      BY <2>1 DEF On
  <1>10. regs' = l
    BY <1>3, <1>8, <1>9 DEF CpuTypeOK, On
  <1>11. CpuTypeOK' /\ Turns' /\ LeftFlat' /\ SavedHolds'
    BY <1>1, <1>3, <1>9 DEF CpuTypeOK, Turns, LeftFlat, SavedHolds
  <1>12. Stacked'
    BY <1>1 DEF Stacked
  <1>13. Entered'
    BY <1>1, <1>2, <1>10 DEF Entered
  <1> QED
    BY <1>2, <1>11, <1>12, <1>13 DEF EntryInv

\* What is not of the processor's registers and stacks stays.
LEMMA IdleEntry ==
  ASSUME EntryInv, PicInv', UNCHANGED cpu, handling' = handling \/ (pc = "run" /\ handling' = None)
  PROVE  EntryInv'
  <1>1. UNCHANGED <<regs, stack, pc, vector, current, ready, saved, left>>
    BY DEF cpu
  <1>2. CpuTypeOK' /\ Turns' /\ LeftFlat' /\ SavedHolds' /\ Stacked'
    BY <1>1 DEF EntryInv, CpuTypeOK, Turns, LeftFlat, SavedHolds, Stacked, Depth
  <1>3. InKernel => InKernel'
    BY <1>1 DEF InKernel
  <1>4. Frame' = Frame /\ Holds(Frame, left[current])' = Holds(Frame, left[current])
    BY <1>1, FrameOfStack DEF Holds
  <1>5. Entered'
    BY <1>1, <1>3, <1>4 DEF EntryInv, Entered
  <1> QED
    BY <1>2, <1>5 DEF EntryInv

\* A panic or a halt leaves everything as it was.
LEMMA StopEntry ==
  ASSUME EntryInv, ExceptionHandler \/ HaltingCall
  PROVE  EntryInv'
  <1>1. /\ pc = "handler" /\ pc' = "stopped"
        /\ UNCHANGED <<vars, regs, stack, vector, current, ready, saved, left>>
    BY DEF ExceptionHandler, HaltingCall
  <1>2. PicInv'
    BY <1>1 DEF EntryInv, PicInv, TypeOK, MasterInService, vars
  <1>3. CpuTypeOK' /\ Turns' /\ LeftFlat' /\ SavedHolds' /\ Stacked' /\ (InKernel => InKernel')
    BY <1>1 DEF EntryInv, CpuTypeOK, Turns, LeftFlat, SavedHolds, Stacked, InKernel, Depth
  <1>4. Entered'
    BY <1>1, <1>3 DEF EntryInv, Entered, vars
  <1> QED
    BY <1>2, <1>3, <1>4 DEF EntryInv

\* A device, a program or an exception interrupts.
LEMMA InterruptEntry ==
  ASSUME EntryInv, Device \/ (\E n \in {3, syscall_vector} : UserInt(n)) \/ (\E v \in Faults : Fault(v))
  PROVE  EntryInv'
  <1>1. PicInv
    BY DEF EntryInv
  <1>2. CASE Device
    <2>1. Deliver /\ Enter(handling')
      BY <1>2 DEF Device
    <2>2. PicInv'
      BY <1>1, <2>1, NextPic DEF Next
    <2>3. handling' \in Nat
      BY <2>2 DEF PicInv, TypeOK, None, syscall_vector
    <2> QED
      BY <2>1, <2>2, <2>3, EnterEntry
  <1>3. ASSUME NEW v \in Nat, v < 32, Enter(v), iflag' = FALSE, UNCHANGED <<irr, isr, handling>>
        PROVE  EntryInv'
    <2>1. handling = None
      BY <1>3 DEF EntryInv, Entered, Enter
    <2>2. [Next]_vars
      BY <1>1, <1>3, <2>1 DEF PicInv, TypeOK, Next, Cli, vars
    <2>3. PicInv'
      BY <1>1, <2>2, NextPic
    <2> QED
      BY <1>3, <2>3, EnterEntry
  <1>4. ASSUME NEW n \in {3, syscall_vector}, UserInt(n) PROVE EntryInv'
    <2>1. CASE SystemCall /\ Enter(syscall_vector)
      <3>1. PicInv' /\ handling' = syscall_vector
        BY <1>1, <2>1, NextPic DEF Next, SystemCall
      <3>2. syscall_vector \in Nat
        BY DEF syscall_vector
      <3> QED
        BY <2>1, <3>1, <3>2, EnterEntry
    <2>2. CASE Enter(13) /\ iflag' = FALSE /\ UNCHANGED <<irr, isr, handling>>
      <3> DEFINE v == 13
      <3>1. v \in Nat /\ v < 32 /\ Enter(v)
        BY <2>2
      <3> HIDE DEF v
      <3> QED
        BY <1>3, <2>2, <3>1
    <2> QED
      BY <1>4, <2>1, <2>2 DEF UserInt
  <1>5. ASSUME NEW v \in Faults, Fault(v) PROVE EntryInv'
    <2>1. v \in Nat /\ v < 32
      BY FaultAssumption
    <2> QED
      BY <1>3, <1>5, <2>1 DEF Fault
  <1> QED
    BY <1>2, <1>4, <1>5

\* The first task starts with its own registers.
LEMMA ExecEntry ==
  ASSUME EntryInv, exec_task
  PROVE  EntryInv'
  <1>1. /\ pc = "run" /\ current = "kernel" /\ ~ iflag /\ current' = First /\ ready' = <<Second>>
        /\ regs' = Registers(First) /\ iflag' = TRUE
        /\ UNCHANGED <<irr, isr, handling, stack, pc, vector, saved, left>>
    BY DEF exec_task
  <1>2. handling = None /\ CpuTypeOK /\ SavedHolds
    BY <1>1 DEF EntryInv, Entered
  <1>3. PicInv'
    BY <1>1, <1>2, NextPic DEF EntryInv, Next, Sti
  <1>4. First \in Tasks /\ Second \in Tasks /\ First # "kernel" /\ left[First] = Registers(First)
    BY <1>1, <1>2, TaskAssumption DEF SavedHolds, Tasks
  <1>5. On(Register, Registers(First))
    BY DEF Registers, On
  <1>6. CpuTypeOK'
    BY <1>1, <1>2, <1>4, <1>5 DEF CpuTypeOK, Threads
  <1>7. Turns' /\ LeftFlat'
    BY <1>1 DEF EntryInv, Turns, LeftFlat
  <1>8. SavedHolds'
    <2>1. \A t \in Tasks : saved[t] = NoFrame /\ left[t] = Registers(t)
      BY <1>1, <1>2, TaskAssumption DEF SavedHolds, Tasks
    <2> QED
      BY <1>1, <1>4, <2>1 DEF SavedHolds
  <1>9. Stacked'
    BY <1>1 DEF EntryInv, Stacked
  <1>10. Entered'
    BY <1>1, <1>2, <1>4 DEF Entered
  <1> QED
    BY <1>3, <1>6, <1>7, <1>8, <1>9, <1>10 DEF EntryInv

LEMMA InitEntry == EnterInit => EntryInv
  <1> SUFFICES ASSUME EnterInit PROVE EntryInv
    OBVIOUS
  <1>1. PicInv /\ handling = None
    BY InitPic DEF EnterInit, Init
  <1>2. \A t \in Threads : left[t] = Registers(t) /\ On(Register, left[t])
    BY DEF EnterInit, Registers, On, Threads
  <1>3. CpuTypeOK
    <2>1. "kernel" \in Threads /\ regs = Registers("kernel") /\ On(Register, regs)
      BY DEF EnterInit, Registers, On, Threads
    <2>2. On(Threads, left) /\ On(Tasks, saved)
      BY DEF EnterInit, On, Threads
    <2>3. pc = "run" /\ current = "kernel"
      BY DEF EnterInit
    <2> QED
      BY <1>2, <2>1, <2>2, <2>3 DEF CpuTypeOK
  <1>4. Turns
    BY TaskAssumption DEF EnterInit, Turns
  <1>5. \A t \in Threads : Flat(Registers(t), IF t = "kernel" THEN InitSegments ELSE UserSegments)
    BY DEF Registers, Flat, Register, Segments, General
  <1>6. LeftFlat
    <2>1. "kernel" \in Threads /\ \A t \in Tasks : t \in Threads /\ t # "kernel"
      BY TaskAssumption DEF Threads, Tasks
    <2> QED
      BY <1>2, <1>5, <2>1 DEF LeftFlat
  <1>7. SavedHolds
    BY <1>2 DEF EnterInit, SavedHolds, Threads
  <1>8. Stacked /\ Entered
    BY <1>1, <1>2 DEF EnterInit, Stacked, Entered, Threads
  <1> QED
    BY <1>1, <1>3, <1>4, <1>6, <1>7, <1>8 DEF EntryInv

LEMMA NextEntry == EntryInv /\ [EnterNext]_allvars => EntryInv'
  <1> SUFFICES ASSUME EntryInv, [EnterNext]_allvars PROVE EntryInv'
    OBVIOUS
  <1>p. PicInv
    BY DEF EntryInv
  <1>1. ASSUME NEW d \in Devices, Raise(d[1], d[2]), UNCHANGED cpu PROVE EntryInv'
    <2>1. PicInv' /\ handling' = handling
      BY <1>p, <1>1, NextPic DEF Next, Raise
    <2> QED
      BY <1>1, <2>1, IdleEntry
  <1>2. CASE Device \/ (\E n \in {3, syscall_vector} : UserInt(n)) \/ (\E v \in Faults : Fault(v))
    BY <1>2, InterruptEntry
  <1>3. CASE Work
    BY <1>3, StubEntry, ShellEntry, HandlersEntry, StopEntry, ReturnEntry DEF Work
  <1>4. CASE KernelCli \/ KernelSti
    <2>1. PicInv' /\ handling' = handling /\ UNCHANGED cpu
      BY <1>p, <1>4, NextPic DEF Next, KernelCli, KernelSti, Cli, Sti
    <2> QED
      BY <2>1, IdleEntry
  <1>5. CASE exec_task
    BY <1>5, ExecEntry
  <1>6. CASE UNCHANGED allvars
    <2>1. UNCHANGED vars /\ UNCHANGED cpu
      BY <1>6 DEF allvars
    <2>2. PicInv' /\ handling' = handling
      BY <1>p, <2>1, NextPic DEF vars
    <2> QED
      BY <2>1, <2>2, IdleEntry
  <1> QED
    BY <1>1, <1>2, <1>3, <1>4, <1>5, <1>6 DEF EnterNext

-----------------------------------------------------------------------------
\* Whoever runs, on whatever way in or out: the stack, the registers and the
\* saved frames are those of the parts of EntryInv.
THEOREM EntryInvariant == EnterSpec => []EntryInv
  <1> QED
    BY InitEntry, NextEntry, PTL DEF EnterSpec

\* What is in service at the master is what the running handler handles, with
\* the ways in and out of isr.asm too (handlers.cc:128).
THEOREM EnterMasterInService == EnterSpec => []MasterInService
  <1>1. EntryInv => MasterInService
    BY DEF EntryInv, PicInv
  <1> QED
    BY <1>1, EntryInvariant, PTL

\* A handler finds the registers of whoever was interrupted, and whoever runs
\* next finds its own; selectors always name the segment they stand for
\* (isr.asm, frame.hh, switch_task, gdt.cc:69).
THEOREM EntryExactHolds == EnterSpec => []EntryExact
  <1>1. ASSUME EntryInv PROVE FramesExact
    <2>1. pc = "run" => regs = left[current]
      BY <1>1 DEF EntryInv, Entered
    <2>2. pc \in {"handler", "return"} => Holds(Frame, left[current])
      BY <1>1 DEF EntryInv, Entered
    <2>3. pc = "handler" => /\ Frame["int_no"] = number(vector)
                            /\ Frame["err_code"] = IF vector \in HasErrorCode THEN error(vector) ELSE zero
      BY <1>1 DEF EntryInv, Entered
    <2>4. pc = "return" => Frame["int_no"] = number(handling)
      BY <1>1 DEF EntryInv, Entered
    <2> QED
      BY <2>1, <2>2, <2>3, <2>4 DEF FramesExact, Holds
  <1>2. ASSUME EntryInv PROVE SegmentsFit
    <2>1. CpuTypeOK /\ LeftFlat
      BY <1>2 DEF EntryInv
    <2>2. /\ descriptor(InitSegments.code) = kcode /\ descriptor(InitSegments.data) = kdata
          /\ descriptor(UserSegments.code) = ucode /\ descriptor(UserSegments.data) = udata
      BY DEF descriptor, InitSegments, UserSegments, Selector, gdt
    <2>3. CASE pc = "run"
      <3>1. regs = left[current]
        BY <1>2, <2>3 DEF EntryInv, Entered
      <3>2. CASE current = "kernel"
        <4>1. Flat(regs, InitSegments) /\ ~ InUserMode
          BY <2>1, <3>1, <3>2, ModeIs DEF LeftFlat, InUserMode
        <4> QED
          BY <2>2, <2>3, <3>2, <4>1 DEF SegmentsFit, Flat
      <3>3. CASE current # "kernel"
        <4>1. Flat(regs, UserSegments) /\ InUserMode
          BY <2>1, <3>1, <3>3, ModeIs DEF LeftFlat, InUserMode
        <4> QED
          BY <2>2, <2>3, <3>3, <4>1 DEF SegmentsFit, Flat
      <3> QED
        BY <3>2, <3>3
    <2>4. CASE pc # "run"
      <3>1. regs["cs"] = InitSegments.code /\ regs["ss"] = InitSegments.data
        BY <1>2, <2>4, SegmentsAre DEF EntryInv, Entered, InKernel
      <3>2. ~ InUserMode
        BY <3>1, SegmentsAre DEF InUserMode
      <3>3. pc \in {"handler", "return"} => \A r \in Segments : regs[r] = InitSegments.data
        BY <1>2, SegmentsAre DEF EntryInv, Entered
      <3> QED
        BY <2>2, <2>4, <3>1, <3>2, <3>3 DEF SegmentsFit
    <2> QED
      BY <2>3, <2>4
  <1>3. EntryInv => EntryExact
    BY <1>1, <1>2 DEF EntryExact
  <1> QED
    BY <1>3, EntryInvariant, PTL

-----------------------------------------------------------------------------
(* Critical sections.                                                      *)

LEMMA InitCrit == CritInit => CritInv
<1> SUFFICES ASSUME CritInit PROVE CritInv
  OBVIOUS
<1>0. NoStackFrame \in StackFrame /\ Booting \in StackFrame
  BY DEF NoStackFrame, Booting, StackFrame
<1>a. frame \in [1 .. MaxDepth -> StackFrame]
  BY <1>0 DEF CritInit
<1>b. 1 \in 1 .. MaxDepth
  BY DepthAssumption
<1>1. CritTypeOK
  BY <1>a, <1>b DEF CritInit, CritTypeOK
<1>2. frame[1] = Booting /\ top = 1
  BY DepthAssumption DEF CritInit
<1>3. ShapeInv
  BY <1>2 DEF CritInit, Booting, ShapeInv, Proper
<1>4. TopInv
  BY <1>2 DEF CritInit, Booting, TopInv, Off, Computing
<1>5. BelowInv /\ AboveInv
  BY <1>2 DEF BelowInv, AboveInv
<1> QED BY <1>1, <1>3, <1>4, <1>5 DEF CritInv

\* A step of the running frame that stays in its place keeps what the other
\* frames say of each other.
LEMMA InPlace ==
  ASSUME CritInv, NEW f \in StackFrame,
         frame' = [frame EXCEPT ![top] = f], top' = top,
         flag' \in BOOLEAN, enabled_' \in BOOLEAN,
         Proper(f),
         top = 1 => f.kind \in {"kmain", "user"},
         top # 1 => f.kind = frame[top].kind /\ f.was = frame[top].was,
         flag' <=> ~ Off(f),
         (Computing(f) \/ f.pc \in {"test", "enter"}) /\ f.kind # "user" => (enabled_' <=> flag'),
         f.pc = "exit" => enabled_'
  PROVE  CritInv'
<1>1. CritTypeOK'
  BY DEF CritInv, CritTypeOK
<1>2. \A k \in 1 .. top : frame'[k] = IF k = top THEN f ELSE frame[k]
  BY DEF CritInv, CritTypeOK
<1>3. top \in 1 .. MaxDepth /\ MaxDepth \in Nat
  BY DepthAssumption DEF CritInv, CritTypeOK
<1>4. ShapeInv'
  BY <1>2, <1>3 DEF CritInv, ShapeInv
<1>5. TopInv'
  BY <1>2, <1>3 DEF CritInv, TopInv
<1>6. BelowInv'
  BY <1>2, <1>3 DEF CritInv, BelowInv
<1>7. AboveInv'
  BY <1>2, <1>3 DEF CritInv, AboveInv
<1> QED BY <1>1, <1>4, <1>5, <1>6, <1>7 DEF CritInv

\* Putting a new frame on the stack.
LEMMA PushKeeps ==
  ASSUME CritInv, NEW f \in StackFrame, Push(f),
         flag' \in BOOLEAN, enabled_' \in BOOLEAN,
         Proper(f),
         \/ f.kind = "handler" /\ flag
         \/ f.kind = "critical" /\ Computing(frame[top]) /\ (f.was <=> flag),
         flag' <=> ~ Off(f),
         f.pc \notin {"entry", "exit"} => (enabled_' <=> flag'),
         f.pc # "run" /\ f.pc # "exit"
  PROVE  CritInv'
<1>1. top \in 1 .. MaxDepth /\ top + 1 \in 1 .. MaxDepth /\ MaxDepth \in Nat /\ top' = top + 1
  BY DepthAssumption DEF CritInv, CritTypeOK, Push
<1>2. /\ frame' = [frame EXCEPT ![top + 1] = f] /\ frame \in [1 .. MaxDepth -> StackFrame]
      /\ f.kind \in {"handler", "critical"}
  BY DEF CritInv, CritTypeOK, Push
<1>3. \A k \in 1 .. top' : frame'[k] = IF k = top' THEN f ELSE frame[k]
  BY <1>1, <1>2
<1>4. CritTypeOK'
  BY <1>1, <1>2 DEF CritTypeOK
<1>5. ShapeInv'
  BY <1>1, <1>2, <1>3 DEF CritInv, ShapeInv
<1>6. TopInv'
  BY <1>1, <1>2, <1>3 DEF TopInv, Computing, Proper
<1>7. flag <=> ~ Off(frame[top])
  BY DEF CritInv, TopInv
<1>8. BelowInv'
  BY <1>1, <1>2, <1>3, <1>7 DEF CritInv, BelowInv
<1>9. AboveInv'
  <2> SUFFICES ASSUME NEW j \in 1 .. top', NEW k \in 1 .. top', j < k, Off(frame'[j])
               PROVE  frame'[k].kind = "critical" /\ ~ frame'[k].was
    BY DEF AboveInv
  <2>1. CASE k # top'
    BY <1>1, <1>3, <2>1 DEF CritInv, AboveInv
  <2>2. CASE k = top'
    <3>1. Off(frame[j]) /\ j \in 1 .. top
      BY <1>1, <1>3, <2>2
    <3>2. j # top => frame[top].kind = "critical" /\ ~ frame[top].was
      BY <3>1, <1>1 DEF CritInv, AboveInv
    <3>3. Off(frame[top])
      BY <3>1, <3>2 DEF Off
    <3> QED BY <1>1, <1>2, <1>3, <1>7, <2>2, <3>3
  <2> QED BY <2>1, <2>2
<1> QED BY <1>4, <1>5, <1>6, <1>8, <1>9 DEF CritInv

\* Taking the last frame off: the one below resumes as it was left.
LEMMA PopKeeps ==
  ASSUME CritInv, Pop, top # 1,
         flag' \in BOOLEAN, enabled_' \in BOOLEAN,
         \/ frame[top].kind = "handler" /\ flag'
         \/ frame[top].kind = "critical" /\ (flag' <=> frame[top].was),
         enabled_' <=> flag'
  PROVE  CritInv'
<1>1. top \in 1 .. MaxDepth /\ top - 1 \in 1 .. MaxDepth /\ MaxDepth \in Nat /\ top' = top - 1
  BY DepthAssumption DEF CritInv, CritTypeOK, Pop
<1>2. frame' = [frame EXCEPT ![top] = NoStackFrame] /\ frame \in [1 .. MaxDepth -> StackFrame]
  BY DEF CritInv, CritTypeOK, Pop
<1>3. \A k \in 1 .. top' : frame'[k] = frame[k]
  BY <1>1, <1>2
<1>4. CritTypeOK'
  BY <1>1, <1>2 DEF CritTypeOK, StackFrame, NoStackFrame
<1>5. ShapeInv' /\ BelowInv' /\ AboveInv'
  BY <1>1, <1>3 DEF CritInv, ShapeInv, BelowInv, AboveInv
<1>6. flag' <=> ~ Off(frame[top - 1])
  BY <1>1 DEF CritInv, BelowInv
<1>7. frame[top - 1].pc = "exit" => enabled_'
  <2>1. CASE frame[top].kind = "handler"
    BY <2>1
  <2>2. CASE frame[top].kind = "critical"
    <3>1. Computing(frame[top - 1]) 
      BY <1>1, <2>2 DEF CritInv, BelowInv
    <3> QED BY <3>1 DEF Computing
  <2> QED BY <2>1, <2>2
<1>8. TopInv'
  BY <1>1, <1>3, <1>6, <1>7 DEF TopInv
<1> QED BY <1>4, <1>5, <1>8 DEF CritInv

\* The record a step to another place in the running frame leaves there.
Moved(p) == [kind |-> frame[top].kind, pc |-> p, active |-> frame[top].active, was |-> frame[top].was]

PC == {"boot", "sti", "run", "cli", "sched", "test", "enter", "entry", "exit"}

LEMMA GotoMoves ==
  ASSUME CritTypeOK, NEW p \in PC, Goto(p)
  PROVE  Moved(p) \in StackFrame /\ frame' = [frame EXCEPT ![top] = Moved(p)] /\ top' = top
<1> DEFINE old == frame[top]
<1>1. old \in StackFrame
  BY DEF CritTypeOK
<1>2. [old EXCEPT !.pc = p] = [kind |-> old.kind, pc |-> p, active |-> old.active, was |-> old.was]
  BY <1>1 DEF StackFrame
<1>3. frame' = [frame EXCEPT ![top] = [old EXCEPT !.pc = p]]
  BY DEF Goto
<1> QED BY <1>1, <1>2, <1>3 DEF StackFrame, Goto, Moved, PC

LEMMA GotoKeeps ==
  ASSUME CritInv, NEW p \in PC, Goto(p),
         flag' \in BOOLEAN, enabled_' \in BOOLEAN,
         Proper(Moved(p)),
         flag' <=> ~ Off(Moved(p)),
         (Computing(Moved(p)) \/ p \in {"test", "enter"}) /\ frame[top].kind # "user"
           => (enabled_' <=> flag'),
         p = "exit" => enabled_'
  PROVE  CritInv'
<1>1. Moved(p) \in StackFrame /\ frame' = [frame EXCEPT ![top] = Moved(p)] /\ top' = top
  BY GotoMoves DEF CritInv
<1>2. /\ Moved(p).kind = frame[top].kind /\ Moved(p).was = frame[top].was
      /\ Moved(p).pc = p
  BY DEF Moved
<1>3. top = 1 => Moved(p).kind \in {"kmain", "user"}
  BY <1>2 DEF CritInv, ShapeInv
<1> HIDE DEF Moved
<1> QED BY <1>1, <1>2, <1>3, InPlace

LEMMA CliSteps ==
  /\ cli(1) => flag' = FALSE /\ enabled_' = enabled_
  /\ cli(2) => enabled_' = FALSE /\ flag' = flag
  BY DEF cli

\* Every step of the kernel and of the processor keeps the invariant.
LEMMA NextCrit == CritInv /\ [CritNext]_critVars => CritInv'
<1> SUFFICES ASSUME CritInv, [CritNext]_critVars PROVE CritInv'
  OBVIOUS
<1>t. /\ top \in 1 .. MaxDepth /\ MaxDepth \in Nat
      /\ frame[top] \in StackFrame /\ Proper(frame[top])
      /\ top = 1 => frame[top].kind \in {"kmain", "user"}
      /\ top # 1 => frame[top].kind \in {"handler", "critical"}
  BY DepthAssumption DEF CritInv, CritTypeOK, ShapeInv
<1>i. flag \in BOOLEAN /\ enabled_ \in BOOLEAN /\ TopInv
  BY DEF CritInv, CritTypeOK
<1>1. CASE KmainSti
  <2>1. CASE At("kmain", "boot") /\ sti(1) /\ Goto("sti")
    BY <1>t, <1>i, <2>1, GotoKeeps DEF At, sti, Off, Computing, Proper, Moved, PC
  <2>2. CASE At("kmain", "sti") /\ sti(2) /\ Goto("run")
    BY <1>t, <1>i, <2>2, GotoKeeps DEF At, sti, Off, Computing, Proper, Moved, PC, TopInv
  <2> QED BY <1>1, <2>1, <2>2 DEF KmainSti
<1>2. CASE KmainCli
  <2>1. CASE At("kmain", "run") /\ cli(1) /\ Goto("cli")
    BY <1>t, <1>i, <2>1, CliSteps, GotoKeeps DEF At, Off, Computing, Proper, Moved, PC
  <2>2. CASE At("kmain", "cli") /\ cli(2) /\ Goto("sched")
    <3>1. flag' = FALSE /\ enabled_' = FALSE
      BY <1>i, <2>2, CliSteps DEF At, Off, TopInv
    <3>2. Proper(Moved("sched")) /\ Off(Moved("sched"))
      BY <2>2 DEF At, Off, Proper, Moved
    <3> QED BY <2>2, <3>1, <3>2, GotoKeeps DEF PC
  <2> QED BY <1>2, <2>1, <2>2 DEF KmainCli
<1>3. CASE EnterUser
  <2>1. InUser \in StackFrame /\ Proper(InUser) /\ ~ Off(InUser) /\ InUser.kind = "user" /\ InUser.pc = "run"
    BY DEF InUser, StackFrame, Proper, Off
  <2>2. top = 1
    BY <1>3, <1>t DEF EnterUser, At
  <2> QED BY <1>3, <1>i, <2>1, <2>2, InPlace DEF EnterUser
<1>4. CASE OpenScope
  <2> DEFINE f == [kind |-> "critical", pc |-> "test", active |-> FALSE, was |-> flag]
  <2>1. f \in StackFrame /\ Proper(f) /\ f.kind = "critical" /\ f.pc = "test" /\ f.was = flag
    BY <1>i DEF StackFrame, Proper
  <2>2. flag <=> ~ Off(f)
    BY <1>i DEF Off
  <2>3. Computing(frame[top])
    BY <1>4, <1>t DEF OpenScope, InKernelCode, At, Computing
  <2>4. frame[top].kind # "user"
    BY <1>4 DEF OpenScope, InKernelCode, At
  <2>5. enabled_ <=> flag
    BY <1>i, <2>3, <2>4 DEF TopInv
  <2>6. Push(f) /\ flag' = flag /\ enabled_' = enabled_
    BY <1>4 DEF OpenScope
  <2> HIDE DEF f
  <2> QED BY <1>i, <2>1, <2>2, <2>3, <2>5, <2>6, PushKeeps
<1>5. CASE TestEnabled
  <2>1. CASE enabled_ /\ Goto("enter")
    BY <1>5, <1>t, <1>i, <2>1, GotoKeeps DEF TestEnabled, At, Off, Computing, Proper, Moved, PC, TopInv
  <2>2. CASE ~ enabled_ /\ Goto("run")
    BY <1>5, <1>t, <1>i, <2>2, GotoKeeps DEF TestEnabled, At, Off, Computing, Proper, Moved, PC, TopInv
  <2> QED BY <1>5, <2>1, <2>2 DEF TestEnabled
<1>6. CASE TurnOff
  <2>1. CASE At("critical", "enter") /\ cli(1) /\ Goto("cli")
    BY <1>t, <1>i, <2>1, CliSteps, GotoKeeps DEF At, Off, Computing, Proper, Moved, PC
  <2>2. CASE /\ At("critical", "cli") /\ cli(2)
             /\ frame' = [frame EXCEPT ![top] = [kind |-> "critical", pc |-> "run", active |-> TRUE,
                                                 was |-> frame[top].was]]
             /\ UNCHANGED top
    <3> DEFINE f == [kind |-> "critical", pc |-> "run", active |-> TRUE, was |-> frame[top].was]
    <3>1. f \in StackFrame /\ f.kind = "critical" /\ f.was = frame[top].was /\ f.pc = "run"
      BY <1>t DEF StackFrame
    <3>2. Proper(f) /\ Off(f)
      BY <1>t, <2>2 DEF Proper, Off, At
    <3>3. frame[top].kind = "critical" /\ flag' = FALSE /\ enabled_' = FALSE
      BY <1>i, <2>2, CliSteps DEF At, Off, TopInv
    <3>4. frame' = [frame EXCEPT ![top] = f] /\ top' = top
      BY <2>2
    <3> HIDE DEF f
    <3>5. top # 1
      BY <1>t, <3>3
    <3> QED BY <3>1, <3>2, <3>3, <3>4, <3>5, InPlace
  <2> QED BY <1>6, <2>1, <2>2 DEF TurnOff
<1>7. CASE CloseScope
  <2>1. CASE At("critical", "run") /\ frame[top].active /\ sti(1) /\ Goto("sti")
    BY <1>t, <1>i, <2>1, GotoKeeps DEF At, sti, Off, Computing, Proper, Moved, PC
  <2>2. CASE At("critical", "sti") /\ sti(2) /\ Pop
    BY <1>t, <1>i, <2>2, PopKeeps DEF At, sti, Off, Proper, TopInv
  <2>3. CASE At("critical", "run") /\ ~ frame[top].active /\ Pop /\ UNCHANGED <<flag, enabled_>>
    BY <1>t, <1>i, <2>3, PopKeeps DEF At, Off, Computing, Proper, TopInv
  <2> QED BY <1>7, <2>1, <2>2, <2>3 DEF CloseScope
<1>8. CASE Interrupt
  <2> DEFINE f == [kind |-> "handler", pc |-> "entry", active |-> FALSE, was |-> TRUE]
  <2>1. f \in StackFrame /\ Proper(f) /\ Off(f) /\ f.kind = "handler" /\ f.pc = "entry"
    BY DEF StackFrame, Proper, Off
  <2>2. Push(f) /\ flag /\ flag' = FALSE /\ enabled_' = enabled_
    BY <1>8 DEF Interrupt
  <2> HIDE DEF f
  <2> QED BY <1>i, <2>1, <2>2, PushKeeps
<1>9. CASE HandlerEntry
  BY <1>9, <1>t, <1>i, GotoKeeps DEF HandlerEntry, At, Off, Computing, Proper, Moved, PC, TopInv
<1>10. CASE HandlerExit
  BY <1>10, <1>t, <1>i, GotoKeeps DEF HandlerExit, At, Off, Computing, Proper, Moved, PC, TopInv
<1>11. CASE Iret
  BY <1>11, <1>t, <1>i, PopKeeps DEF Iret, At, TopInv
<1>12. CASE UNCHANGED critVars
  BY <1>12 DEF critVars, CritInv, CritTypeOK, ShapeInv, TopInv, BelowInv, AboveInv
<1> QED BY <1>1, <1>2, <1>3, <1>4, <1>5, <1>6, <1>7, <1>8, <1>9, <1>10, <1>11, <1>12 DEF CritNext

\* The inductive invariant of the stack of scopes and handlers (int.hh,
\* handlers.cc) holds to every depth.
THEOREM CriticalInvariant == CritSpec => []CritInv
  BY InitCrit, NextCrit, PTL DEF CritSpec

\* A scope that is open keeps interrupts out, whatever it is nested in.
THEOREM CriticalMasksHolds == CritSpec => []CriticalMasks
<1>1. CritInv => CriticalMasks
  <2> SUFFICES ASSUME CritInv, NEW k \in 1 .. top, frame[k].kind = "critical", frame[k].pc = "run"
               PROVE  ~ flag
    BY DEF CriticalMasks
  <2>1. Off(frame[k])
    BY DEF Off
  <2>2. top \in 1 .. MaxDepth
    BY DEF CritInv, CritTypeOK
  <2>3. k # top => frame[top].kind = "critical" /\ ~ frame[top].was
    BY <2>1, <2>2, DepthAssumption DEF CritInv, AboveInv
  <2>4. Off(frame[top])
    BY <2>1, <2>3 DEF Off
  <2> QED BY <2>4 DEF CritInv, TopInv
<1> QED BY <1>1, CriticalInvariant, PTL

\* The kernel's record of the interrupt flag is right whenever it may be read.
THEOREM FlagExactHolds == CritSpec => []FlagExact
<1>1. CritInv => FlagExact
  BY DEF CritInv, TopInv, FlagExact, InKernelCode, At, Computing
<1> QED BY <1>1, CriticalInvariant, PTL

\* No handler interrupts another.
THEOREM OneHandlerHolds == CritSpec => []OneHandler
<1>1. CritInv => OneHandler
  <2> SUFFICES ASSUME CritInv, NEW j \in 1 .. top, NEW k \in 1 .. top, j < k,
                      frame[j].kind = "handler", frame[k].kind = "handler"
               PROVE  FALSE
    BY DepthAssumption DEF OneHandler, CritInv, CritTypeOK
  <2> QED BY DEF CritInv, AboveInv, Off
<1> QED BY <1>1, CriticalInvariant, PTL

\* A scope leaves the interrupt flag as it found it.
THEOREM RestoresIFHolds == CritSpec => RestoresIF
<1>1. CritInv /\ [CritNext]_critVars =>
        [(frame[top].kind = "critical" /\ top' < top) => (flag' <=> frame[top].was)]_critVars
  <2> SUFFICES ASSUME CritInv, CritNext, frame[top].kind = "critical", top' < top
               PROVE  flag' <=> frame[top].was
    OBVIOUS
  <2>t. top \in 1 .. MaxDepth /\ MaxDepth \in Nat /\ Proper(frame[top]) /\ TopInv
        /\ flag \in BOOLEAN /\ frame[top] \in StackFrame
    BY DepthAssumption DEF CritInv, CritTypeOK, ShapeInv
  <2>1. CloseScope
    BY <2>t DEF CritNext, KmainSti, KmainCli, EnterUser, OpenScope, TestEnabled, TurnOff, Interrupt,
                HandlerEntry, HandlerExit, Iret, At, Goto, Push
  <2> QED BY <2>1, <2>t DEF CloseScope, At, Goto, sti, Proper, TopInv, Off, StackFrame
<1> QED BY <1>1, CriticalInvariant, PTL DEF CritSpec, RestoresIF
=============================================================================

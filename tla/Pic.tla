-------------------------------- MODULE Pic ---------------------------------
(***************************************************************************)
(* Device interrupts: the two interrupt controllers as int/pic.cc sets     *)
(* them up, and the end-of-interrupt commands of common_interrupt_handler  *)
(* in int/handlers.cc.                                                     *)
(*                                                                         *)
(* The controllers (8259) are external.  Each latches requests (irr) and   *)
(* keeps the set of lines in service (isr); a request is passed on only    *)
(* while no line of the same or a higher priority, that is, of the same or *)
(* a lower number, is in service.  The slave hangs on line 2 of the        *)
(* master.  An end-of-interrupt takes the line of the highest priority out *)
(* of service.                                                             *)
(***************************************************************************)
EXTENDS Naturals

CONSTANT Devices  \* the lines with a device: pairs of a controller and a line

ASSUME DeviceAssumption ==
  /\ Devices \subseteq {"master", "slave"} \X (0 .. 7)
  /\ <<"master", 2>> \notin Devices

VARIABLES irr, isr, \* of each controller
          iflag,    \* the interrupt flag of the processor
          handling  \* the vector of the handler that runs, or None

vars == <<irr, isr, iflag, handling>>

None == 0
syscall_vector == 202   \* 0xca

\* Pic::init: the offsets of the two controllers' vectors.
offset(pic) == IF pic = "master" THEN 32 ELSE 48

Highest(lines) == CHOOSE n \in lines : \A m \in lines : n =< m

\* Pic::init leaves no line masked; kmain turns interrupts on after it.
Init ==
  /\ irr = [pic \in {"master", "slave"} |-> {}]
  /\ isr = [pic \in {"master", "slave"} |-> {}]
  /\ iflag = TRUE
  /\ handling = None

-----------------------------------------------------------------------------
(* External: devices and controllers.                                      *)

Raise(pic, n) ==
  /\ irr' = [irr EXCEPT ![pic] = @ \cup {n}]
  /\ UNCHANGED <<isr, iflag, handling>>

Free(pic, n) == \A m \in isr[pic] : n < m

\* What the master sees on its lines.
Requests == irr["master"] \cup {n \in {2} : \E m \in irr["slave"] : Free("slave", m)}

Deliverable == {n \in Requests : Free("master", n)}

\* The processor takes the interrupt: the gate clears the flag.
Deliver ==
  /\ iflag /\ Deliverable # {}
  /\ iflag' = FALSE
  /\ LET n == Highest(Deliverable)
         m == Highest(irr["slave"])
     IN  \/ /\ n # 2
            /\ irr' = [irr EXCEPT !["master"] = @ \ {n}]
            /\ isr' = [isr EXCEPT !["master"] = @ \cup {n}]
            /\ handling' = offset("master") + n
         \/ /\ n = 2
            /\ irr' = [irr EXCEPT !["slave"] = @ \ {m}]
            /\ isr' = [isr EXCEPT !["master"] = @ \cup {2}, !["slave"] = @ \cup {m}]
            /\ handling' = offset("slave") + m

EndOfInterrupt(lines) == IF lines = {} THEN {} ELSE lines \ {Highest(lines)}

-----------------------------------------------------------------------------
(* The kernel.                                                             *)

\* int 0xca, which comes in through the same handler and no controller.
SystemCall ==
  /\ iflag
  /\ iflag' = FALSE
  /\ handling' = syscall_vector
  /\ UNCHANGED <<irr, isr>>

\* Int::Pic::ack
ack(slave) ==
  isr' = [pic \in {"master", "slave"} |->
            IF pic = "master" \/ slave THEN EndOfInterrupt(isr[pic]) ELSE isr[pic]]

\* Acknowledging only what looks like a device's interrupt.
MutHandler ==
  /\ handling # None
  /\ IF handling < 40 THEN ack(FALSE) ELSE UNCHANGED isr
  /\ handling' = None
  /\ iflag' = TRUE
  /\ UNCHANGED irr

\* Leaving the timer's branch after a switch of tasks without acknowledging.
MutTimerReturns ==
  /\ handling # None
  /\ IF handling = 32 THEN UNCHANGED isr ELSE ack(handling >= 40 /\ handling < 48)
  /\ handling' = None
  /\ iflag' = TRUE
  /\ UNCHANGED irr

\* The end of every handler, and its iret.
common_interrupt_handler ==
  /\ handling # None
  /\ ack(handling >= 40 /\ handling < 48)
  /\ handling' = None
  /\ iflag' = TRUE
  /\ UNCHANGED irr

\* A critical section of the kernel.
Cli == handling = None /\ iflag /\ iflag' = FALSE /\ UNCHANGED <<irr, isr, handling>>

Sti == handling = None /\ ~ iflag /\ iflag' = TRUE /\ UNCHANGED <<irr, isr, handling>>

Next ==
  \/ \E d \in Devices : Raise(d[1], d[2])
  \/ Deliver \/ SystemCall \/ common_interrupt_handler \/ Cli \/ Sti

Spec == Init /\ [][Next]_vars

\* Handlers and critical sections end; the processor takes a pending
\* interrupt as soon as the flag is set, so that short periods with the flag
\* set, one after the other, are enough.
Fairness == WF_vars(common_interrupt_handler) /\ WF_vars(Sti) /\ SF_vars(Deliver)

FairSpec == Spec /\ Fairness

-----------------------------------------------------------------------------
TypeOK ==
  /\ irr \in [{"master", "slave"} -> SUBSET (0 .. 7)]
  /\ isr \in [{"master", "slave"} -> SUBSET (0 .. 7)]
  /\ iflag \in BOOLEAN
  /\ handling \in {None, syscall_vector} \cup 32 .. 39 \cup 48 .. 55

\* Every handler acknowledges to the master exactly the interrupt it handles:
\* nothing stays in service behind a handler's back, and the command that ends
\* a system call takes nobody else's line out of service (handlers.cc:128).
MasterInService ==
  isr["master"] = CASE handling \in 32 .. 39 -> {handling - 32}
                    [] handling \in 48 .. 55 -> {2}
                    [] OTHER -> {}

\* The inductive invariant: handlers run with the flag clear, and the master's
\* line 2 is the slave's alone.
PicInv ==
  /\ TypeOK
  /\ MasterInService
  /\ handling # None => ~ iflag
  /\ 2 \notin irr["master"]

\* An interrupt of the slave is acknowledged to the slave by the time its
\* handler has returned.
SlaveAcknowledged == handling = None => isr["slave"] = {}
=============================================================================

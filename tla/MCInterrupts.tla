---------------------------- MODULE MCInterrupts ----------------------------
(* Interrupts and critical sections for TLC: the timer and the keyboard on  *)
(* the master, a mouse and a disk on the slave.  A behaviour is one of the   *)
(* way in and out of the kernel or one of its critical sections.             *)
EXTENDS Interrupts, Critical

VARIABLE of \* which of the two

MCDevices == {<<"master", 0>>, <<"master", 1>>, <<"slave", 4>>, <<"slave", 6>>}

MCInit == of \in {"entries", "sections"} /\ EnterInit /\ CritInit

MCNext ==
  \/ of = "entries" /\ EnterNext /\ UNCHANGED <<of, critVars>>
  \/ of = "sections" /\ CritNext /\ UNCHANGED <<of, allvars>>

MCSpec == MCInit /\ [][MCNext]_<<of, allvars, critVars>> /\ EnterFairness
=============================================================================

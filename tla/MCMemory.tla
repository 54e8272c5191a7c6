------------------------------ MODULE MCMemory ------------------------------
(* The allocator of page frames and paging for TLC.  Paging knows the        *)
(* allocator by its free frames only, so that a behaviour is one of the two. *)
EXTENDS MCPmm, Vmm

VARIABLE of \* which of the two

MCInit ==
  /\ of \in {"frames", "paging"} /\ PmmInit /\ Init
  /\ of = "paging" => mmap = Plain

MCNext ==
  \/ of = "frames" /\ PmmNext /\ UNCHANGED <<of, vars>>
  \/ of = "paging" /\ Next /\ UNCHANGED <<of, pmmVars>>

MCSpec == MCInit /\ [][MCNext]_<<of, pmmVars, vars>>
=============================================================================

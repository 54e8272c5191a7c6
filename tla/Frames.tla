------------------------------- MODULE Frames -------------------------------
(***************************************************************************)
(* What a page frame allocator promises: once open, it hands out runs of   *)
(* frames of its pool that nobody holds, turns a request down only when no *)
(* run is long enough, and takes frames back.                              *)
(***************************************************************************)
EXTENDS Naturals

CONSTANTS Frame, MaxCount

VARIABLES pool,  \* the frames the allocator manages; {} until it is open
          held,  \* the frames its callers hold
          reply  \* the answer to the last request

Run(n, count) == n .. n + count - 1

NoReply == [kind |-> "none", page |-> 0, count |-> 0]

FramesInit == pool = {} /\ held = {} /\ reply = NoReply

\* The memory of the machine becomes known once.
Open == /\ pool = {} /\ held = {}
        /\ pool' \in SUBSET Frame
        /\ UNCHANGED <<held, reply>>

Grant(n, count) ==
  /\ Run(n, count) \subseteq pool \ held
  /\ held' = held \cup Run(n, count)
  /\ reply' = [kind |-> "granted", page |-> n, count |-> count]
  /\ UNCHANGED pool

Refuse(count) ==
  /\ \A n \in Frame : ~ Run(n, count) \subseteq pool \ held
  /\ reply' = [kind |-> "refused", page |-> 0, count |-> count]
  /\ UNCHANGED <<pool, held>>

Return(n, count) ==
  /\ Run(n, count) \subseteq held
  /\ held' = held \ Run(n, count)
  /\ reply' = NoReply
  /\ UNCHANGED pool

FramesNext ==
  \/ Open
  \/ \E count \in 1 .. MaxCount :
       \/ Refuse(count)
       \/ \E n \in Frame : Grant(n, count) \/ Return(n, count)

FramesSpec == FramesInit /\ [][FramesNext]_<<pool, held, reply>>
=============================================================================

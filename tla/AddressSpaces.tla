--------------------------- MODULE AddressSpaces ----------------------------
(***************************************************************************)
(* What the paging code promises: address spaces, each a map from pages to *)
(* frames.  The kernel's pages are the same in all of them.  A page that   *)
(* is mapped stays so, and one newly mapped gets a frame nobody else has.  *)
(* Tables, directories and translation caches do not show.                 *)
(***************************************************************************)
EXTENDS Integers

CONSTANTS Space, UserPage, KernelPage, None

VARIABLES
  maps,   \* the frame of every page of every space, or None
  spaces, \* the spaces created; 0 is the kernel's
  cur     \* the space in use

Used == {maps[s][v] : s \in spaces, v \in UserPage \cup KernelPage} \ {None}

\* The pages that the step maps in space s, each to a frame of its own.
NewIn(s) == {v \in UserPage \cup KernelPage : maps'[s][v] # maps[s][v]}
Fresh(s) ==
  /\ \A v \in NewIn(s) : maps[s][v] = None /\ maps'[s][v] \notin Used \cup {None}
  /\ \A v, w \in NewIn(s) : v # w => maps'[s][v] # maps'[s][w]

Init ==
  /\ maps = [s \in Space |-> [v \in UserPage \cup KernelPage |-> None]]
  /\ spaces = {0} /\ cur = 0

\* User pages become mapped in the space in use, and nowhere else.
MapUser ==
  /\ cur # 0
  /\ NewIn(cur) \subseteq UserPage /\ Fresh(cur)
  /\ \A s \in Space \ {cur} : NewIn(s) = {}
  /\ UNCHANGED <<spaces, cur>>

\* Kernel pages become mapped in all spaces at once.
MapKernel ==
  /\ NewIn(0) \subseteq KernelPage /\ Fresh(0)
  /\ \A s \in Space : \A v \in UserPage : maps'[s][v] = maps[s][v]
  /\ \A s \in spaces : \A v \in KernelPage : maps'[s][v] = maps'[0][v]
  /\ \A s \in Space \ spaces : NewIn(s) = {}
  /\ UNCHANGED <<spaces, cur>>

\* A new space has the kernel's pages and no user page.
Clone ==
  /\ \E s \in Space \ spaces :
       /\ spaces' = spaces \cup {s}
       /\ \A v \in KernelPage : maps'[s][v] = maps[0][v]
       /\ \A v \in UserPage : maps'[s][v] = None
       /\ \A t \in Space \ {s} : NewIn(t) = {}
  /\ UNCHANGED cur

Switch == cur' \in spaces /\ UNCHANGED <<maps, spaces>>

Next == MapUser \/ MapKernel \/ Clone \/ Switch

Spec == Init /\ [][Next]_<<maps, spaces, cur>>
=============================================================================

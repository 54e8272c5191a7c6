------------------------------ MODULE Optional ------------------------------
(***************************************************************************)
(* kernel/src/std/optional.hh: a value or none, as a set of at most one    *)
(* value.                                                                  *)
(***************************************************************************)

\* What is given to a chain is a function.
nullopt == {}

then(f, o) == UNION {f[x] : x \in o}

require(f, o) == {x \in o : f[x]}
=============================================================================

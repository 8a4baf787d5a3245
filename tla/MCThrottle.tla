----------------------------- MODULE MCThrottle ------------------------------
(***************************************************************************)
(* Small instances of Throttle.                                            *)
(***************************************************************************)
EXTENDS Throttle, MCDatabase, TLC

\* Calls of Check are taken in one order and are not interchangeable.
Symmetry == Permutations(RideIds) \cup Permutations(Requests)
=============================================================================

------------------------------ MODULE MCListAge -----------------------------
(***************************************************************************)
(* Small instances of ListAge.                                             *)
(***************************************************************************)
EXTENDS ListAge, MCDatabase, TLC

Symmetry == Permutations(RideIds) \cup Permutations(Requests)
=============================================================================

----------------------------- MODULE MCBackend ------------------------------
(***************************************************************************)
(* Small instances of Backend.                                             *)
(***************************************************************************)
EXTENDS Backend, MCDatabase, TLC

\* Users, driver ids, ride ids and request slots are interchangeable: no
\* definition compares them but for equality.
Symmetry ==
    Permutations(Users) \cup Permutations(DriverIds)
        \cup Permutations(RideIds) \cup Permutations(Requests)
=============================================================================

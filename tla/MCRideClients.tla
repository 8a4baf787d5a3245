--------------------------- MODULE MCRideClients ----------------------------
(***************************************************************************)
(* Small instances of RideClients.                                         *)
(***************************************************************************)
EXTENDS RideClients, MCDatabase, TLC

Symmetry ==
    Permutations(Users) \cup Permutations(DriverIds)
        \cup Permutations(RideIds) \cup Permutations(Requests)
=============================================================================

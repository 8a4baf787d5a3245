------------------------------- MODULE MCTaxi --------------------------------
(***************************************************************************)
(* Small instances of Taxi.                                                *)
(***************************************************************************)
EXTENDS Taxi, TLC

CONSTANTS SeedUser, SeedDriver, SeedPassenger, SeedRide

\* One driver of data.sql, and a ride another of its users has asked for.
TwoRows ==
    [drivers |-> [u \in Users |-> IF u = SeedUser THEN SeedDriver ELSE NoId],
     rides   |-> [i \in RideIds |->
                    IF i = SeedRide
                    THEN [passenger |-> SeedPassenger, driver |-> NoId, status |-> "pending"]
                    ELSE NoRide]]

Symmetry ==
    Permutations(DriverIds \ {SeedDriver}) \cup Permutations(Logins) \cup Permutations(Emails) \cup Permutations(Passwords)
=============================================================================

------------------------------- MODULE Faults --------------------------------
(***************************************************************************)
(* What may go wrong in the services, the same for all of them.            *)
(***************************************************************************)

CONSTANTS
    RedisMayFail,   \* whether a Redis command can fail or time out
    Faulty          \* whether an await can throw or the process can die there

ASSUME FaultAssumption == RedisMayFail \in BOOLEAN /\ Faulty \in BOOLEAN
=============================================================================

---------------------------- MODULE MCDatabase ------------------------------
(***************************************************************************)
(* What the tables of small instances hold to begin with.                  *)
(***************************************************************************)
EXTENDS Database

\* data.sql is not loaded.
NoRows == [drivers |-> [u \in Users |-> NoId], rides |-> [i \in RideIds |-> NoRide]]
=============================================================================

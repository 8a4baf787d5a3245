--------------------------- MODULE MCUserClients ----------------------------
(***************************************************************************)
(* Small instances of UserClients.                                         *)
(***************************************************************************)
EXTENDS UserClients, MCUserService
=============================================================================

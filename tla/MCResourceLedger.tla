-------------------------- MODULE MCResourceLedger --------------------------
(***************************************************************************)
(* A small instance of ResourceLedger for TLC: a home and a colony.        *)
(***************************************************************************)
EXTENDS ResourceLedger, TLC

CONSTANTS home, colony, ann, bob

MCOwnerOf == home :> ann @@ colony :> bob
=============================================================================

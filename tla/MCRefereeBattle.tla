-------------------------- MODULE MCRefereeBattle --------------------------
(***************************************************************************)
(* A small instance of RefereeBattle for TLC.                              *)
(***************************************************************************)
EXTENDS RefereeBattle
=============================================================================

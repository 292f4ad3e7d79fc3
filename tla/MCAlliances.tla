---------------------------- MODULE MCAlliances ----------------------------
(***************************************************************************)
(* A small instance of Alliances for TLC.  Players are interchangeable.    *)
(***************************************************************************)
EXTENDS Alliances, TLC

Anybody == Permutations(Players)
=============================================================================

----------------------- MODULE MCRandomnessCommitter -----------------------
(***************************************************************************)
(* Small instances of RandomnessCommitter for TLC.                         *)
(***************************************************************************)
EXTENDS RandomnessCommitter, TLC

MCSymmetry == Permutations(Replicas)
=============================================================================

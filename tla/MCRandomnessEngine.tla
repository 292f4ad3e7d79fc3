------------------------ MODULE MCRandomnessEngine ------------------------
(***************************************************************************)
(* Small instances of RandomnessEngine for TLC.                            *)
(***************************************************************************)
EXTENDS RandomnessEngine, TLC

\* Words, and the snapshots, are interchangeable.
MCSymmetry == Permutations(Words) \cup Permutations(Snapshots)
=============================================================================

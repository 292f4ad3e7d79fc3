----------------------- MODULE MCResolverTransactions -----------------------
(* Instances of ResolverTransactions for TLC. *)
EXTENDS ResolverTransactions, TLC

Interchangeable ==
    Permutations(Processes) \cup Permutations(BatchOps) \cup Permutations(PlainOps)

=============================================================================

-------------------------- MODULE MCManagedClient --------------------------
(* ManagedClient on small instances. *)
EXTENDS ManagedClient, TLC

Callers == Permutations(Queries)  \* queries are interchangeable in safety runs
=============================================================================

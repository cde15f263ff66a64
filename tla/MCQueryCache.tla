---- MODULE MCQueryCache ----
(* Bounds for QueryCache: the response to r1 has size 2, every other one size 1. *)
EXTENDS QueryCache, TLC
CONSTANT r1
MCSize == [r \in Requests |-> IF r = r1 THEN 2 ELSE 1]
Exchangeable == Permutations(Callers) \cup Permutations(Tasks)
====

---- MODULE MCSessionPool ----
(* Bounds for SessionPool: the queries are interchangeable, the members are not. *)
EXTENDS SessionPool, TLC
Exchangeable == Permutations(Queries)
====

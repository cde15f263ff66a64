--------------------------- MODULE MCAccountLogin ---------------------------
(* An instance of AccountLogin for TLC: the servers, and the users, are     *)
(* interchangeable.                                                          *)
EXTENDS AccountLogin, TLC

Symmetry == Permutations(Servers) \cup Permutations(Users)
=============================================================================

---------------------------- MODULE MCGameClient ----------------------------
(* GameClient on small instances. *)
EXTENDS GameClient, TLC

Slots == Permutations(Ops)  \* call slots are interchangeable in safety runs
=============================================================================

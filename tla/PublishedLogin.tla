--------------------------- MODULE PublishedLogin ---------------------------
(* What the persisted login state of a directory promises, whatever happens  *)
(* to the processes that write it: the published login is one the game has   *)
(* issued, and it is only ever replaced, in one step, by a newer one.        *)
EXTENDS Naturals

CONSTANT Dirs

VARIABLES issued,    \* how many logins the game has issued
          published  \* the login each directory's pointer names, 0 for none

vars == <<issued, published>>

Init == issued = 0 /\ published = [d \in Dirs |-> 0]

Issue == issued' = issued + 1 /\ UNCHANGED published

Publish(d) ==
  \E n \in published[d] + 1 .. issued :
    published' = [published EXCEPT ![d] = n] /\ UNCHANGED issued

Next == Issue \/ \E d \in Dirs : Publish(d)

Spec == Init /\ [][Next]_vars
=============================================================================

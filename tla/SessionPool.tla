---------------------------- MODULE SessionPool ----------------------------
(***************************************************************************)
(* The server's round robin over independent sessions.  A query scans the  *)
(* members from the shared cursor under the cursor's lock, one member at a *)
(* time while sessions move and cooldowns are set beside it; it runs on    *)
(* the first available member and nowhere else, and a transient failure    *)
(* cools that member down under the generation it was assigned with.       *)
(*                                                                         *)
(* A member's client and cache (ManagedClient, QueryCache) are reduced to  *)
(* the generation and to whether query_error refuses a protected query.    *)
(* Left out: the request counters, and pools of at most one member, where  *)
(* neither the cursor nor a cooldown plays a part.                         *)
(***************************************************************************)
EXTENDS Naturals

CONSTANTS
  N,        \* members of the pool
  Queries,  \* queries under way at the same time
  MaxGen    \* bound on the generations of a member's session

ASSUME PoolAssumption == N \in Nat \ {0, 1} /\ MaxGen \in Nat \ {0}

VARIABLES
  next,      \* SessionPool::next
  members,   \* per member: the session's generation, whether query_error refuses, and
             \* Member::cooldown, the generation it was set under or NoGen
  queries,
  passed,    \* history: queries given to others since a member was last chosen or unavailable
  failed     \* history: the generations of a member that a request failed under

vars == <<next, members, queries, passed, failed>>

Slots  == 0..(N - 1)
Gens   == 1..MaxGen
NoGen  == 0

IdleQuery == [pc |-> "idle", anonymous |-> FALSE, offset |-> 0, slot |-> 0, gen |-> 1, ran |-> 1]

TypeOK ==
  /\ next \in Slots
  /\ members \in [Slots -> [gen : Gens, refuses : BOOLEAN,
                            cooldown : 0..MaxGen]]
  /\ queries \in [Queries -> [pc : {"idle", "scan", "assigned", "named", "running", "failed", "cool"},
                              anonymous : BOOLEAN, offset : 0..N, slot : Slots,
                              gen : Gens, ran : Gens]]
  /\ passed \in [Slots -> Nat]
  /\ failed \in [Slots -> SUBSET Gens]

Init ==
  /\ next = 0
  /\ members = [m \in Slots |-> [gen |-> 1, refuses |-> FALSE, cooldown |-> NoGen]]
  /\ queries = [q \in Queries |-> IdleQuery]
  /\ passed = [m \in Slots |-> 0]
  /\ failed = [m \in Slots |-> {}]

Set(q, r) == queries' = [queries EXCEPT ![q] = r]

(* In this module a definition placed right before Cooling or Advanced   *)
(* is a slip in that one, which the runs catch.                            *)

(* Member::cooldown_error: a cooldown counts only for the session it was   *)
(* set under; one that does not count is cleared on the way.               *)
CoolingAnySession(m) == members[m].cooldown # NoGen
Cooling(m) == members[m].cooldown = members[m].gen

Unavailable(m, anonymous) == Cooling(m) \/ (members[m].refuses /\ ~anonymous)

Looked(m) ==
  members' = [members EXCEPT ![m].cooldown = IF Cooling(m) THEN @ ELSE NoGen]

(***************************************************************************)
(* Choosing a member.                                                      *)
(***************************************************************************)
Arrive(q, anonymous) ==
  /\ queries[q].pc = "idle"
  /\ \A p \in Queries : queries[p].pc # "scan"  \* the cursor's lock
  /\ Set(q, [IdleQuery EXCEPT !.pc = "scan", !.anonymous = anonymous])
  /\ UNCHANGED <<next, members, passed, failed>>

Candidate(q) == (next + queries[q].offset) % N

Skip(q) ==
  LET m == Candidate(q) IN
  /\ queries[q].pc = "scan" /\ queries[q].offset < N
  /\ Unavailable(m, queries[q].anonymous)
  /\ Looked(m)
  /\ Set(q, [queries[q] EXCEPT !.offset = @ + 1])
  /\ UNCHANGED <<next, passed, failed>>

AdvancedByOne(m)  == (next + 1) % N
AdvancedNoWrap(m) == m + 1
Advanced(m)       == (m + 1) % N

Choose(q) ==
  LET m == Candidate(q) IN
  /\ queries[q].pc = "scan" /\ queries[q].offset < N
  /\ ~Unavailable(m, queries[q].anonymous)
  /\ Looked(m)
  /\ next' = Advanced(m)
  /\ Set(q, [IdleQuery EXCEPT !.pc = "assigned", !.slot = m])
  /\ passed' = [k \in Slots |->
       IF k = m \/ Unavailable(k, FALSE) THEN 0 ELSE passed[k] + 1]
  /\ UNCHANGED failed

(* Every member is unavailable: the first error met is returned. *)
GiveUp(q) ==
  /\ queries[q].pc = "scan" /\ queries[q].offset = N
  /\ Set(q, IdleQuery)
  /\ UNCHANGED <<next, members, passed, failed>>

(***************************************************************************)
(* The assigned query.  It reads the generation once before the member's   *)
(* cache, which reads it again, and once after a failure.                  *)
(***************************************************************************)
ReadGeneration(q) ==
  /\ queries[q].pc = "assigned"
  /\ Set(q, [queries[q] EXCEPT !.pc = "named", !.gen = members[queries[q].slot].gen])
  /\ UNCHANGED <<next, members, passed, failed>>

EnterCache(q) ==
  /\ queries[q].pc = "named"
  /\ Set(q, [queries[q] EXCEPT !.pc = "running", !.ran = members[queries[q].slot].gen])
  /\ UNCHANGED <<next, members, passed, failed>>

Finish(q) ==  \* an answer, an error that cools nobody down, or a dropped call
  /\ queries[q].pc \in {"assigned", "named", "running", "failed", "cool"}
  /\ Set(q, IdleQuery)
  /\ UNCHANGED <<next, members, passed, failed>>

FailTransiently(q) ==  \* Transport, Timeout or Maintenance
  /\ queries[q].pc = "running"
  /\ Set(q, [queries[q] EXCEPT !.pc = "failed"])
  /\ failed' = [failed EXCEPT ![queries[q].slot] = @ \cup {queries[q].ran}]
  /\ UNCHANGED <<next, members, passed>>

StillAssigned(q) == members[queries[q].slot].gen = queries[q].gen

CheckGeneration(q) ==
  /\ queries[q].pc = "failed"
  /\ Set(q, IF StillAssigned(q) THEN [queries[q] EXCEPT !.pc = "cool"] ELSE IdleQuery)
  /\ UNCHANGED <<next, members, passed, failed>>

CoolDown(q) ==
  LET m == queries[q].slot IN
  /\ queries[q].pc = "cool"
  /\ members' = [members EXCEPT ![m].cooldown = queries[q].gen]
  /\ passed' = IF members[m].gen = queries[q].gen THEN [passed EXCEPT ![m] = 0] ELSE passed
  /\ Set(q, IdleQuery)
  /\ UNCHANGED <<next, failed>>

(***************************************************************************)
(* Time, sessions, and the health and status endpoints.                    *)
(***************************************************************************)
Elapse(m) ==  \* an elapsed cooldown is read like none
  /\ members[m].cooldown # NoGen
  /\ members' = [members EXCEPT ![m].cooldown = NoGen]
  /\ UNCHANGED <<next, queries, passed, failed>>

Probe(m) ==  \* ready() and status()
  /\ members[m].cooldown # NoGen
  /\ Looked(m)
  /\ UNCHANGED <<next, queries, passed, failed>>

SessionMoves(m) ==
  /\ \/ /\ members[m].gen < MaxGen
        /\ \E r \in BOOLEAN :
             members' = [members EXCEPT ![m].gen = @ + 1, ![m].refuses = r]
     \/ members' = [members EXCEPT ![m].refuses = ~@]
  /\ passed' = IF members'[m].refuses THEN [passed EXCEPT ![m] = 0] ELSE passed
  /\ UNCHANGED <<next, queries, failed>>

QueryStep(q) ==
  \/ Skip(q) \/ Choose(q) \/ GiveUp(q) \/ ReadGeneration(q) \/ EnterCache(q)
  \/ CheckGeneration(q) \/ CoolDown(q)

Next ==
  \/ \E q \in Queries : (\E a \in BOOLEAN : Arrive(q, a)) \/ QueryStep(q)
                          \/ FailTransiently(q) \/ Finish(q)
  \/ \E m \in Slots : Elapse(m) \/ Probe(m) \/ SessionMoves(m)

Spec == Init /\ [][Next]_vars

(***************************************************************************)
(* Properties                                                              *)
(***************************************************************************)

(* The rotation is fair (docs/session-pool.md: each valid query advances   *)
(* the shared cursor to the next available session): a member that stays   *)
(* available sees at most N - 1 queries go to others before it is chosen.  *)
(* A member that refuses or cools down starts over.                        *)
FairRotation == \A m \in Slots : passed[m] <= N - 1

(* Only a request that failed under a member's present session may keep    *)
(* that session out of the rotation: no failure is carried over a login,   *)
(* reload or version change, however late it is reported ("generation      *)
(* replacement clears its cooldown").                                      *)
OnlyOwnFailures == \A m \in Slots : Cooling(m) => members[m].gen \in failed[m]
=============================================================================

------------------------- MODULE SessionPoolProofs -------------------------
(***************************************************************************)
(* The pool's properties for every number of members, of queries and of    *)
(* generations.  Two arguments are made: about the cooldowns, which an     *)
(* earlier failure must justify, and about the cursor, which comes nearer  *)
(* to a waiting member with every query that is given to another one.      *)
(***************************************************************************)
EXTENDS SessionPool, TLAPS

MemberRecord == [gen : Gens, refuses : BOOLEAN, cooldown : 0..MaxGen]
QueryRecord ==
  [pc : {"idle", "scan", "assigned", "named", "running", "failed", "cool"},
   anonymous : BOOLEAN, offset : 0..N, slot : Slots, gen : Gens, ran : Gens]

(* A cooldown was set under a generation the member has had, and after a   *)
(* request that failed under it.                                           *)
Earned ==
  \A m \in Slots : members[m].cooldown # NoGen =>
    /\ members[m].cooldown <= members[m].gen
    /\ members[m].cooldown \in failed[m]

(* What is known of a query: the generations it has read are in order, the *)
(* one it ran under failed, and it cools down only if they are the same.   *)
Ordered(r) ==
  /\ r.pc \in {"named", "running", "failed", "cool"} => r.gen <= members[r.slot].gen
  /\ r.pc \in {"running", "failed", "cool"} => r.gen <= r.ran /\ r.ran <= members[r.slot].gen
  /\ r.pc \in {"failed", "cool"} => r.ran \in failed[r.slot]
  /\ r.pc = "cool" => r.ran = r.gen

(* How far the cursor is from a member.                                    *)
Ahead(m) == IF m >= next THEN m - next ELSE m - next + N

(* One query scans at a time, and whoever it has passed over, or whoever   *)
(* is unavailable, has started over; the others are near enough.           *)
Scanning == \A p, q \in Queries : queries[p].pc = "scan" /\ queries[q].pc = "scan" => p = q
Away     == \A m \in Slots : Unavailable(m, FALSE) => passed[m] = 0
Skipped  == \A q \in Queries : queries[q].pc = "scan" =>
              \A m \in Slots : Ahead(m) < queries[q].offset => passed[m] = 0
Near     == \A m \in Slots : passed[m] + Ahead(m) <= N - 1

IInv ==
  /\ TypeOK /\ Earned
  /\ \A q \in Queries : Ordered(queries[q])
  /\ Scanning /\ Away /\ Skipped /\ Near

(***************************************************************************)
(* The cursor's arithmetic.                                                *)
(***************************************************************************)

(* A sum of two positions wraps around at most once (pool.rs, slot).       *)
LEMMA Wraps ==
  ASSUME NEW n \in Nat \ {0}, NEW a \in Nat, a < 2 * n
  PROVE  a % n = IF a < n THEN a ELSE a - n
<1>1. CASE a < n
  BY <1>1
<1>2. CASE a >= n
  <2>1. a = n * 1 + (a - n) /\ 0 <= a - n /\ a - n < n
    BY <1>2
  <2> QED BY <2>1, <1>2
<1> QED BY <1>1, <1>2

(* The member a scan is at is as far from the cursor as it has gone.       *)
LEMMA CandidateAhead ==
  ASSUME TypeOK, NEW q \in Queries, queries[q].offset < N
  PROVE  Candidate(q) \in Slots /\ Ahead(Candidate(q)) = queries[q].offset
<1> DEFINE j == queries[q].offset
<1>1. N \in Nat \ {0, 1} /\ next \in 0..(N - 1) /\ j \in 0..N /\ j < N
  BY PoolAssumption DEF TypeOK, Slots
<1>2. next + j \in Nat /\ next + j < 2 * N /\ N \in Nat \ {0}
  BY <1>1
<1>3. (next + j) % N = IF next + j < N THEN next + j ELSE next + j - N
  <2>1. PICK a : a = next + j
    OBVIOUS
  <2>2. a \in Nat /\ a < 2 * N
    BY <1>2, <2>1
  <2>3. a % N = IF a < N THEN a ELSE a - N
    BY <1>2, <2>2, Wraps
  <2> QED BY <1>1, <1>2, <2>1, <2>2, <2>3
<1> HIDE DEF j
<1>4. Candidate(q) = IF next + j < N THEN next + j ELSE next + j - N
  BY <1>3 DEF Candidate, j
<1>5. Candidate(q) \in Slots /\ Ahead(Candidate(q)) = j
  BY <1>1, <1>4 DEF Slots, Ahead
<1> QED BY <1>5 DEF j

(* The cursor moves to the member after the chosen one.                    *)
LEMMA AdvancedNext ==
  ASSUME NEW m \in Slots
  PROVE  /\ Advanced(m) \in Slots
         /\ Advanced(m) = IF m < N - 1 THEN m + 1 ELSE 0
<1>1. m \in 0..(N - 1) /\ N \in Nat \ {0, 1}
  BY PoolAssumption DEF Slots
<1>2. m + 1 \in Nat /\ m + 1 < 2 * N /\ N \in Nat \ {0}
  BY <1>1
<1>3. (m + 1) % N = IF m + 1 < N THEN m + 1 ELSE m + 1 - N
  <2>1. PICK a : a = m + 1
    OBVIOUS
  <2>2. a \in Nat /\ a < 2 * N
    BY <1>2, <2>1
  <2>3. a % N = IF a < N THEN a ELSE a - N
    BY <1>2, <2>2, Wraps
  <2> QED BY <1>1, <1>2, <2>1, <2>2, <2>3
<1> QED BY <1>1, <1>3 DEF Advanced, Slots

(* The first query scans from a well-typed record.                         *)
LEMMA IdleTypes == IdleQuery \in QueryRecord /\ IdleQuery.pc = "idle" /\ NoGen \in 0..MaxGen
BY PoolAssumption DEF IdleQuery, QueryRecord, Slots, Gens, NoGen

(* The records of a well-typed state, and back.                            *)
LEMMA Records ==
  TypeOK <=> /\ next \in Slots
             /\ members \in [Slots -> MemberRecord]
             /\ queries \in [Queries -> QueryRecord]
             /\ passed \in [Slots -> Nat]
             /\ failed \in [Slots -> SUBSET Gens]
BY DEF TypeOK, MemberRecord, QueryRecord

(***************************************************************************)
(* One step.  The cases are the actions; a query's steps that leave the    *)
(* members and the cursor alone are taken together where that is enough.   *)
(***************************************************************************)

(* The steps of one query that touch nothing but its own record.           *)
Quiet(q) == Arrive(q, TRUE) \/ Arrive(q, FALSE) \/ GiveUp(q) \/ ReadGeneration(q)
              \/ EnterCache(q) \/ CheckGeneration(q) \/ Finish(q)

LEMMA NextCases ==
  ASSUME Next
  PROVE  \/ \E q \in Queries : Quiet(q) \/ Skip(q) \/ Choose(q) \/ CoolDown(q) \/ FailTransiently(q)
         \/ \E m \in Slots : Elapse(m) \/ Probe(m) \/ SessionMoves(m)
<1>1. CASE \E q \in Queries, a \in BOOLEAN : Arrive(q, a)
  BY <1>1 DEF Quiet
<1>2. CASE \E q \in Queries : QueryStep(q) \/ FailTransiently(q) \/ Finish(q)
  BY <1>2, Zenon DEF QueryStep, Quiet
<1> QED BY <1>1, <1>2 DEF Next

(* A query's own record stays well typed.                                  *)
LEMMA QuietTypes ==
  ASSUME TypeOK, NEW q \in Queries, Quiet(q)
  PROVE  /\ UNCHANGED <<next, members, passed, failed>>
         /\ \E r \in QueryRecord : queries' = [queries EXCEPT ![q] = r]
<1>1. queries[q] \in QueryRecord /\ queries[q].slot \in Slots
  BY Records DEF QueryRecord
<1>2. members[queries[q].slot].gen \in Gens
  BY <1>1, Records DEF MemberRecord
<1> QED BY <1>1, <1>2, IdleTypes
        DEF Quiet, Arrive, GiveUp, ReadGeneration, EnterCache, CheckGeneration, Finish, Set,
            QueryRecord

(* Types, every action.                                                    *)
LEMMA TypeStep ==
  ASSUME TypeOK, [Next]_vars
  PROVE  TypeOK'
<1> USE Records
<1>a. ASSUME NEW q \in Queries, Quiet(q) PROVE TypeOK'
  BY <1>a, QuietTypes, Zenon DEF TypeOK, QueryRecord
<1>b. ASSUME NEW q \in Queries, Skip(q) PROVE TypeOK'
  <2>1. queries[q] \in QueryRecord /\ queries[q].offset < N
    BY <1>b DEF Skip
  <2>2. Candidate(q) \in Slots
    BY <2>1, CandidateAhead
  <2>3. members' \in [Slots -> MemberRecord]
    BY <1>b, <2>2, IdleTypes DEF Skip, Looked, MemberRecord
  <2>4. [queries[q] EXCEPT !.offset = @ + 1] \in QueryRecord
    BY <2>1, PoolAssumption DEF QueryRecord
  <2>5. queries' \in [Queries -> QueryRecord]
    BY <1>b, <2>4 DEF Skip, Set
  <2> QED BY <1>b, <2>3, <2>5 DEF Skip, TypeOK, MemberRecord, QueryRecord
<1>c. ASSUME NEW q \in Queries, Choose(q) PROVE TypeOK'
  <2>1. queries[q] \in QueryRecord /\ queries[q].offset < N
    BY <1>c DEF Choose
  <2>2. Candidate(q) \in Slots
    BY <2>1, CandidateAhead
  <2>3. members' \in [Slots -> MemberRecord]
    BY <1>c, <2>2, IdleTypes DEF Choose, Looked, MemberRecord
  <2>4. queries' \in [Queries -> QueryRecord]
    BY <1>c, <2>2, IdleTypes DEF Choose, Set, QueryRecord
  <2>5. next' \in Slots
    BY <1>c, <2>2, AdvancedNext DEF Choose
  <2>6. passed' \in [Slots -> Nat]
    <3>1. \A k \in Slots : passed[k] \in Nat /\ passed[k] + 1 \in Nat
      OBVIOUS
    <3>2. \A k \in Slots : (IF k = Candidate(q) \/ Unavailable(k, FALSE) THEN 0 ELSE passed[k] + 1) \in Nat
      BY <3>1
    <3> QED BY <1>c, <3>2 DEF Choose
  <2> QED BY <1>c, <2>3, <2>4, <2>5, <2>6 DEF Choose, TypeOK, MemberRecord, QueryRecord
<1>d. ASSUME NEW q \in Queries, CoolDown(q) PROVE TypeOK'
  <2>1. queries[q].slot \in Slots /\ queries[q].gen \in 0..MaxGen
    BY PoolAssumption DEF QueryRecord, Gens
  <2>2. members' \in [Slots -> MemberRecord]
    BY <1>d, <2>1 DEF CoolDown, MemberRecord
  <2>3. passed' \in [Slots -> Nat] /\ queries' \in [Queries -> QueryRecord]
    BY <1>d, <2>1, IdleTypes DEF CoolDown, Set
  <2> QED BY <1>d, <2>2, <2>3 DEF CoolDown, TypeOK, MemberRecord, QueryRecord
<1>e. ASSUME NEW q \in Queries, FailTransiently(q) PROVE TypeOK'
  <2>1. queries[q] \in QueryRecord
    OBVIOUS
  <2>2. queries' \in [Queries -> QueryRecord]
    BY <1>e, <2>1 DEF FailTransiently, Set, QueryRecord
  <2>3. failed' \in [Slots -> SUBSET Gens]
    BY <1>e, <2>1 DEF FailTransiently, QueryRecord
  <2> QED BY <1>e, <2>2, <2>3 DEF FailTransiently, TypeOK, MemberRecord, QueryRecord
<1>f. ASSUME NEW m \in Slots, Elapse(m) \/ Probe(m) PROVE TypeOK'
  <2>1. members' \in [Slots -> MemberRecord]
    BY <1>f, IdleTypes DEF Elapse, Probe, Looked, MemberRecord
  <2> QED BY <1>f, <2>1 DEF Elapse, Probe, TypeOK, MemberRecord, QueryRecord
<1>g. ASSUME NEW m \in Slots, SessionMoves(m) PROVE TypeOK'
  <2>1. members' \in [Slots -> MemberRecord]
    <3>1. members[m] \in MemberRecord /\ members[m].gen \in 1..MaxGen
      BY DEF MemberRecord, Gens
    <3>2. ASSUME members[m].gen < MaxGen, NEW r \in BOOLEAN,
                 members' = [members EXCEPT ![m].gen = @ + 1, ![m].refuses = r]
          PROVE  members' \in [Slots -> MemberRecord]
      <4>1. members[m].gen + 1 \in Gens
        BY <3>1, <3>2, PoolAssumption DEF Gens
      <4> QED BY <3>1, <3>2, <4>1 DEF MemberRecord
    <3>3. CASE members' = [members EXCEPT ![m].refuses = ~@]
      BY <3>1, <3>3 DEF MemberRecord
    <3> QED BY <1>g, <3>2, <3>3 DEF SessionMoves
  <2>2. passed' \in [Slots -> Nat]
    BY <1>g DEF SessionMoves
  <2> QED BY <1>g, <2>1, <2>2 DEF SessionMoves, TypeOK, MemberRecord, QueryRecord
<1>h. CASE UNCHANGED vars
  BY <1>h DEF vars, TypeOK
<1> QED BY <1>a, <1>b, <1>c, <1>d, <1>e, <1>f, <1>g, <1>h, NextCases, Zenon

(* Looking at a member clears no cooldown that counts (cooldown_error).    *)
LEMMA LookedKeeps ==
  ASSUME TypeOK, NEW m \in Slots, Looked(m), NEW k \in Slots
  PROVE  /\ members'[k].gen = members[k].gen /\ members'[k].refuses = members[k].refuses
         /\ members'[k].cooldown = members[k].cooldown \/ members'[k].cooldown = NoGen
         /\ Cooling(k)' <=> Cooling(k)
<1>1. members \in [Slots -> MemberRecord] /\ members[k].gen \in Gens /\ members[k].gen # NoGen
  BY Records DEF MemberRecord, Gens, NoGen
<1> QED BY <1>1 DEF Looked, Cooling, MemberRecord

(* A cooldown keeps its reason, and a new one has one.                     *)
LEMMA EarnedStep ==
  ASSUME TypeOK, Earned, \A q \in Queries : Ordered(queries[q]), [Next]_vars
  PROVE  Earned'
<1> USE Records
<1>a. ASSUME NEW q \in Queries, Quiet(q) PROVE Earned'
  BY <1>a, QuietTypes, Zenon DEF Earned
<1>b. ASSUME NEW m \in Slots, Looked(m), UNCHANGED failed PROVE Earned'
  BY <1>b, LookedKeeps DEF Earned
<1>c. ASSUME NEW q \in Queries, Skip(q) \/ Choose(q) PROVE Earned'
  BY <1>b, <1>c, CandidateAhead, Zenon DEF Skip, Choose
<1>d. ASSUME NEW q \in Queries, CoolDown(q) PROVE Earned'
  <2>1. queries[q].slot \in Slots /\ queries[q].pc = "cool" /\ Ordered(queries[q])
    BY <1>d DEF CoolDown, QueryRecord
  <2>2. queries[q].gen <= members[queries[q].slot].gen /\ queries[q].gen \in failed[queries[q].slot]
    BY <2>1 DEF Ordered
  <2> QED BY <1>d, <2>1, <2>2 DEF CoolDown, Earned, MemberRecord
<1>e. ASSUME NEW q \in Queries, FailTransiently(q) PROVE Earned'
  BY <1>e DEF FailTransiently, Earned, QueryRecord
<1>f. ASSUME NEW m \in Slots, Elapse(m) PROVE Earned'
  BY <1>f DEF Elapse, Earned, MemberRecord
<1>g. ASSUME NEW m \in Slots, Probe(m) PROVE Earned'
  BY <1>b, <1>g, Zenon DEF Probe
<1>h. ASSUME NEW m \in Slots, SessionMoves(m) PROVE Earned'
  <2>1. ASSUME NEW k \in Slots
        PROVE  members'[k].cooldown = members[k].cooldown /\ members[k].gen <= members'[k].gen
    BY <1>h DEF SessionMoves, MemberRecord, Gens
  <2>2. ASSUME NEW k \in Slots
        PROVE  /\ members[k].gen \in Nat /\ members[k].cooldown \in Nat
               /\ members'[k].gen \in Nat
    BY TypeStep DEF TypeOK, Gens
  <2> QED BY <1>h, <2>1, <2>2 DEF SessionMoves, Earned
<1>i. CASE UNCHANGED vars
  BY <1>i DEF vars, Earned
<1> QED BY <1>a, <1>c, <1>d, <1>e, <1>f, <1>g, <1>h, <1>i, NextCases, Zenon

(* What is known of a query stays true when sessions move and others fail. *)
LEMMA KnownStays ==
  ASSUME TypeOK, TypeOK', NEW r \in QueryRecord, Ordered(r),
         \A m \in Slots : members[m].gen <= members'[m].gen /\ failed[m] \subseteq failed'[m]
  PROVE  Ordered(r)'
<1>1. r.slot \in Slots /\ r.gen \in Nat /\ r.ran \in Nat
  BY DEF QueryRecord, Gens
<1>2. members[r.slot].gen \in Nat /\ members'[r.slot].gen \in Nat
  BY <1>1 DEF TypeOK, Gens
<1> QED BY <1>1, <1>2 DEF Ordered

(* Every query's knowledge, every action.                                  *)
LEMMA OrderedStep ==
  ASSUME TypeOK, \A q \in Queries : Ordered(queries[q]), [Next]_vars
  PROVE  \A q \in Queries : Ordered(queries[q])'
<1> USE Records
<1>0. TypeOK'
  BY TypeStep
<1> SUFFICES ASSUME NEW p \in Queries PROVE Ordered(queries[p])'
  OBVIOUS
<1>1. queries[p] \in QueryRecord /\ Ordered(queries[p])
  OBVIOUS
<1>2. ASSUME queries'[p] = queries[p],
             \A m \in Slots : members[m].gen <= members'[m].gen /\ failed[m] \subseteq failed'[m]
      PROVE  Ordered(queries[p])'
  <2>1. PICK r \in QueryRecord : r = queries[p]
    BY <1>1
  <2>2. Ordered(r)'
    BY <1>0, <1>1, <1>2, <2>1, KnownStays
  <2> QED BY <1>2, <2>1, <2>2 DEF Ordered
<1>3. ASSUME queries'[p].pc \in {"idle", "scan", "assigned"} PROVE Ordered(queries[p])'
  BY <1>3 DEF Ordered
<1>4. \A m \in Slots : members[m].gen \in Nat
  BY DEF MemberRecord, Gens
<1>a. ASSUME NEW q \in Queries, Quiet(q) PROVE Ordered(queries[p])'
  <2>1. members' = members /\ failed' = failed /\ (p # q => queries'[p] = queries[p])
    BY <1>a, QuietTypes
  <2>2. CASE p # q
    BY <1>2, <1>4, <2>1, <2>2
  <2>3. CASE p = q /\ queries'[p].pc \in {"idle", "scan", "assigned"}
    BY <1>3, <2>3
  <2>4. CASE p = q /\ queries[p].pc = "assigned" /\ queries'[p] = [queries[p] EXCEPT !.pc = "named", !.gen = members[queries[p].slot].gen]
    BY <1>1, <1>4, <2>1, <2>4 DEF Ordered, QueryRecord
  <2>5. CASE p = q /\ queries[p].pc = "named" /\ queries'[p] = [queries[p] EXCEPT !.pc = "running", !.ran = members[queries[p].slot].gen]
    BY <1>1, <1>4, <2>1, <2>5 DEF Ordered, QueryRecord
  <2>6. CASE p = q /\ queries[p].pc = "failed" /\ StillAssigned(p) /\ queries'[p] = [queries[p] EXCEPT !.pc = "cool"]
    <3>1. queries[p].gen \in Nat /\ queries[p].ran \in Nat /\ queries[p].slot \in Slots
      BY DEF QueryRecord, Gens
    <3>2. /\ queries[p].gen <= queries[p].ran /\ queries[p].ran <= members[queries[p].slot].gen
          /\ queries[p].ran \in failed[queries[p].slot]
          /\ members[queries[p].slot].gen = queries[p].gen
      BY <1>1, <2>6 DEF Ordered, StillAssigned
    <3>3. queries[p].ran = queries[p].gen
      BY <3>1, <3>2
    <3>4. /\ queries'[p].pc = "cool" /\ queries'[p].gen = queries[p].gen
          /\ queries'[p].ran = queries[p].ran /\ queries'[p].slot = queries[p].slot
      BY <1>1, <2>6 DEF QueryRecord
    <3> QED BY <2>1, <3>1, <3>2, <3>3, <3>4 DEF Ordered
  <2>7. CASE p = q /\ (Arrive(q, TRUE) \/ Arrive(q, FALSE) \/ GiveUp(q) \/ Finish(q))
    BY <2>3, <2>7, IdleTypes DEF Arrive, GiveUp, Finish, Set, IdleQuery
  <2>8. CASE p = q /\ (ReadGeneration(q) \/ EnterCache(q))
    BY <2>4, <2>5, <2>8 DEF ReadGeneration, EnterCache, Set
  <2>9. CASE p = q /\ CheckGeneration(q)
    BY <2>3, <2>6, <2>9, IdleTypes DEF CheckGeneration, Set
  <2> QED BY <1>a, <2>2, <2>7, <2>8, <2>9 DEF Quiet
<1>b. ASSUME NEW q \in Queries, Skip(q) \/ Choose(q) PROVE Ordered(queries[p])'
  <2>1. Candidate(q) \in Slots
    BY <1>b, CandidateAhead DEF Skip, Choose
  <2>2. \A m \in Slots : members[m].gen <= members'[m].gen /\ failed[m] \subseteq failed'[m]
    <3>1. Looked(Candidate(q)) /\ failed' = failed
      BY <1>b DEF Skip, Choose
    <3>2. \A m \in Slots : members'[m].gen = members[m].gen
      BY <2>1, <3>1, LookedKeeps
    <3> QED BY <1>4, <3>1, <3>2
  <2>3. p = q => queries'[p].pc \in {"scan", "assigned"}
    BY <1>b, IdleTypes DEF Skip, Choose, Set, QueryRecord
  <2>4. p # q => queries'[p] = queries[p]
    BY <1>b DEF Skip, Choose, Set
  <2> QED BY <1>2, <1>3, <2>2, <2>3, <2>4
<1>c. ASSUME NEW q \in Queries, CoolDown(q) PROVE Ordered(queries[p])'
  <2>1. \A m \in Slots : members[m].gen <= members'[m].gen /\ failed[m] \subseteq failed'[m]
    BY <1>c, <1>4 DEF CoolDown, MemberRecord, QueryRecord
  <2>2. p = q => queries'[p].pc = "idle"
    BY <1>c, IdleTypes DEF CoolDown, Set
  <2>3. p # q => queries'[p] = queries[p]
    BY <1>c DEF CoolDown, Set
  <2> QED BY <1>2, <1>3, <2>1, <2>2, <2>3
<1>d. ASSUME NEW q \in Queries, FailTransiently(q) PROVE Ordered(queries[p])'
  <2>1. \A m \in Slots : members[m].gen <= members'[m].gen /\ failed[m] \subseteq failed'[m]
    BY <1>d, <1>4 DEF FailTransiently, QueryRecord
  <2>2. CASE p = q
    <3>1. queries'[p] = [queries[p] EXCEPT !.pc = "failed"] /\ queries[p].pc = "running"
      BY <1>d, <2>2 DEF FailTransiently, Set
    <3>2. queries[p].ran \in failed'[queries[p].slot] /\ members' = members
      BY <1>d, <2>2 DEF FailTransiently, QueryRecord
    <3> QED BY <1>1, <3>1, <3>2 DEF Ordered, QueryRecord
  <2>3. CASE p # q
    <3>1. queries'[p] = queries[p]
      BY <1>d, <2>3 DEF FailTransiently, Set
    <3> QED BY <1>2, <2>1, <3>1
  <2> QED BY <2>2, <2>3
<1>e. ASSUME NEW m \in Slots, Elapse(m) \/ Probe(m) \/ SessionMoves(m) PROVE Ordered(queries[p])'
  <2>1. \A k \in Slots : members[k].gen <= members'[k].gen /\ failed[k] \subseteq failed'[k]
    <3>1. CASE Elapse(m)
      BY <1>4, <3>1 DEF Elapse, MemberRecord
    <3>2. CASE Probe(m)
      BY <1>4, <3>2, LookedKeeps DEF Probe
    <3>3. CASE SessionMoves(m)
      <4>1. \A k \in Slots : members'[k].gen = members[k].gen \/ members'[k].gen = members[k].gen + 1
        BY <3>3 DEF SessionMoves, MemberRecord
      <4> QED BY <1>4, <3>3, <4>1 DEF SessionMoves
    <3> QED BY <1>e, <3>1, <3>2, <3>3
  <2> QED BY <1>2, <1>e, <2>1 DEF Elapse, Probe, SessionMoves
<1>f. CASE UNCHANGED vars
  BY <1>2, <1>4, <1>f DEF vars
<1> QED BY <1>a, <1>b, <1>c, <1>d, <1>e, <1>f, NextCases, Zenon

(* Whoever becomes unavailable starts over.                                *)
LEMMA AwayStep ==
  ASSUME TypeOK, Earned, Away, [Next]_vars
  PROVE  Away'
<1> USE Records
<1>a. ASSUME NEW q \in Queries, Quiet(q) PROVE Away'
  BY <1>a, QuietTypes, Zenon DEF Away, Unavailable, Cooling
<1>b. ASSUME NEW m \in Slots, Looked(m), passed' = passed PROVE Away'
  BY <1>b, LookedKeeps DEF Away, Unavailable
<1>c. ASSUME NEW q \in Queries, Skip(q) PROVE Away'
  BY <1>b, <1>c, CandidateAhead, Zenon DEF Skip
<1>d. ASSUME NEW q \in Queries, Choose(q) PROVE Away'
  <2>1. Candidate(q) \in Slots
    BY <1>d, CandidateAhead DEF Choose
  <2>2. ASSUME NEW k \in Slots, Unavailable(k, FALSE)' PROVE passed'[k] = 0
    <3>1. Unavailable(k, FALSE)
      BY <1>d, <2>1, <2>2, LookedKeeps DEF Choose, Unavailable
    <3> QED BY <1>d, <3>1 DEF Choose
  <2> QED BY <2>2 DEF Away
<1>e. ASSUME NEW q \in Queries, CoolDown(q) PROVE Away'
  <2>1. queries[q].slot \in Slots
    BY DEF QueryRecord
  <2> QED BY <1>e, <2>1 DEF CoolDown, Away, Unavailable, Cooling, MemberRecord
<1>f. ASSUME NEW q \in Queries, FailTransiently(q) PROVE Away'
  BY <1>f DEF FailTransiently, Away, Unavailable, Cooling
<1>g. ASSUME NEW m \in Slots, Elapse(m) PROVE Away'
  BY <1>g, IdleTypes DEF Elapse, Away, Unavailable, Cooling, MemberRecord, Gens, NoGen
<1>h. ASSUME NEW m \in Slots, Probe(m) PROVE Away'
  BY <1>b, <1>h, Zenon DEF Probe
<1>i. ASSUME NEW m \in Slots, SessionMoves(m) PROVE Away'
  <2>1. ASSUME NEW k \in Slots, k # m
        PROVE  /\ members'[k] = members[k] /\ passed'[k] = passed[k]
    BY <1>i, <2>1 DEF SessionMoves
  <2>2. members'[m].refuses => passed'[m] = 0
    BY <1>i DEF SessionMoves
  <2>3. members[m].gen \in Nat /\ members[m].cooldown \in Nat /\ members[m].gen # 0
    BY DEF MemberRecord, Gens
  <2>4. Cooling(m)' => Cooling(m)
    BY <1>i, <2>3 DEF SessionMoves, Cooling, Earned, MemberRecord, NoGen
  <2>5. passed'[m] = 0 \/ passed'[m] = passed[m]
    BY <1>i DEF SessionMoves
  <2> QED BY <2>1, <2>2, <2>4, <2>5 DEF Away, Unavailable, Cooling
<1>j. CASE UNCHANGED vars
  BY <1>j DEF vars, Away, Unavailable, Cooling
<1> QED BY <1>a, <1>c, <1>d, <1>e, <1>f, <1>g, <1>h, <1>i, <1>j, NextCases, Zenon

(* One scan at a time: the cursor's lock.                                  *)
LEMMA ScanningStep ==
  ASSUME TypeOK, Scanning, [Next]_vars
  PROVE  Scanning'
<1> USE Records
<1> DEFINE Scans(q) == queries[q].pc = "scan"
<1>1. ASSUME \A q \in Queries : Scans(q)' => Scans(q) PROVE Scanning'
  BY <1>1 DEF Scanning
<1>a. ASSUME NEW q \in Queries, Arrive(q, TRUE) \/ Arrive(q, FALSE) PROVE Scanning'
  <2>1. \A p \in Queries : p # q => ~Scans(p)'
    BY <1>a DEF Arrive, Set
  <2> QED BY <2>1 DEF Scanning
<1>b. ASSUME NEW q \in Queries, Skip(q) PROVE Scanning'
  <2>1. \A p \in Queries : Scans(p)' => Scans(p)
    BY <1>b DEF Skip, Set
  <2> QED BY <1>1, <2>1
<1>c. ASSUME NEW q \in Queries,
             GiveUp(q) \/ ReadGeneration(q) \/ EnterCache(q) \/ CheckGeneration(q) \/ Finish(q)
      PROVE  Scanning'
  <2>1. \A p \in Queries : Scans(p)' => Scans(p)
    BY <1>c, IdleTypes
       DEF GiveUp, ReadGeneration, EnterCache, CheckGeneration, Finish, Set, QueryRecord
  <2> QED BY <1>1, <2>1
<1>d. ASSUME NEW q \in Queries, Choose(q) \/ CoolDown(q) \/ FailTransiently(q) PROVE Scanning'
  <2>1. \A p \in Queries : Scans(p)' => Scans(p)
    <3>1. CASE Choose(q)
      BY <3>1 DEF Choose, Set, IdleQuery
    <3>2. CASE CoolDown(q)
      BY <3>2, IdleTypes DEF CoolDown, Set
    <3>3. CASE FailTransiently(q)
      BY <3>3 DEF FailTransiently, Set, QueryRecord
    <3> QED BY <1>d, <3>1, <3>2, <3>3
  <2> QED BY <1>1, <2>1
<1>e. ASSUME NEW m \in Slots, Elapse(m) \/ Probe(m) \/ SessionMoves(m) PROVE Scanning'
  BY <1>e DEF Elapse, Probe, SessionMoves, Scanning
<1>f. CASE UNCHANGED vars
  BY <1>f DEF vars, Scanning
<1> QED BY <1>a, <1>b, <1>c, <1>d, <1>e, <1>f, NextCases, Zenon DEF Quiet

(* The cursor: while it rests, counts only start over; when it moves, the  *)
(* members behind it were passed over and the others are one nearer.       *)
LEMMA CursorStep ==
  ASSUME TypeOK, Scanning, Away, Skipped, Near, [Next]_vars
  PROVE  Skipped' /\ Near'
<1> USE Records
<1>0. /\ N \in Nat /\ next \in 0..(N - 1) /\ Slots = 0..(N - 1)
      /\ \A m \in Slots : passed[m] \in Nat /\ Ahead(m) \in 0..(N - 1)
  BY PoolAssumption DEF Slots, Ahead
<1>1. ASSUME next' = next,
             \A m \in Slots : passed'[m] = passed[m] \/ passed'[m] = 0
      PROVE  Near'
  <2> SUFFICES ASSUME NEW m \in Slots PROVE passed'[m] + Ahead(m)' <= N - 1
    BY DEF Near
  <2>1. Ahead(m)' = Ahead(m)
    BY <1>1 DEF Ahead
  <2>2. passed[m] + Ahead(m) <= N - 1 /\ passed[m] \in Nat /\ Ahead(m) \in Nat
    BY <1>0 DEF Near
  <2>3. CASE passed'[m] = passed[m]
    BY <2>1, <2>2, <2>3
  <2>4. CASE passed'[m] = 0
    BY <1>0, <2>1, <2>2, <2>4
  <2> QED BY <1>1, <2>3, <2>4
<1>2. ASSUME next' = next,
             \A m \in Slots : passed'[m] = passed[m] \/ passed'[m] = 0,
             \A p \in Queries : queries'[p] = queries[p] \/ queries'[p].pc # "scan"
      PROVE  Skipped'
  BY <1>2 DEF Skipped, Ahead
<1>a. ASSUME NEW q \in Queries, Arrive(q, TRUE) \/ Arrive(q, FALSE) PROVE Skipped' /\ Near'
  <2>1. UNCHANGED <<next, passed>>
    BY <1>a DEF Arrive
  <2>2. \A p \in Queries : queries'[p].pc = "scan" => queries'[p].offset = 0
    BY <1>a DEF Arrive, Set, IdleQuery
  <2>3. \A m \in Slots : ~(Ahead(m)' < 0)
    BY <1>0, <2>1 DEF Ahead
  <2> QED BY <1>1, <2>1, <2>2, <2>3 DEF Skipped
<1>b. ASSUME NEW q \in Queries,
             GiveUp(q) \/ ReadGeneration(q) \/ EnterCache(q) \/ CheckGeneration(q) \/ Finish(q)
      PROVE  Skipped' /\ Near'
  <2>1. \A p \in Queries : queries'[p] = queries[p] \/ queries'[p].pc # "scan"
    BY <1>b, IdleTypes
       DEF GiveUp, ReadGeneration, EnterCache, CheckGeneration, Finish, Set, QueryRecord
  <2>2. UNCHANGED <<next, passed>>
    BY <1>b DEF GiveUp, ReadGeneration, EnterCache, CheckGeneration, Finish
  <2> QED BY <1>1, <1>2, <2>1, <2>2
<1>c. ASSUME NEW q \in Queries, Skip(q) PROVE Skipped' /\ Near'
  <2> DEFINE c == Candidate(q)
             j == queries[q].offset
  <2>1. UNCHANGED <<next, passed>> /\ queries[q].pc = "scan" /\ j \in Nat /\ j < N
    BY <1>c, PoolAssumption DEF Skip, QueryRecord
  <2>2. c \in Slots /\ Ahead(c) = j
    BY <2>1, CandidateAhead
  <2>3. passed[c] = 0
    BY <1>c, <2>2 DEF Skip, Away, Unavailable
  <2>4. ASSUME NEW m \in Slots, Ahead(m) < j + 1 PROVE passed[m] = 0
    <3>1. CASE Ahead(m) < j
      BY <2>1, <3>1 DEF Skipped
    <3>2. CASE Ahead(m) = j
      <4> HIDE DEF c, j
      <4>1. m = c
        BY <1>0, <2>2, <3>2 DEF Ahead
      <4> QED BY <2>3, <4>1
    <3>3. Ahead(m) \in Nat /\ j \in Nat
      BY <1>0, <2>1
    <3> HIDE DEF j
    <3> QED BY <2>4, <3>1, <3>2, <3>3
  <2>5. \A p \in Queries : p # q => queries'[p].pc # "scan"
    BY <1>c, <2>1 DEF Skip, Set, Scanning
  <2>6. queries'[q].offset = j + 1
    BY <1>c DEF Skip, Set, QueryRecord
  <2>7. \A m \in Slots : Ahead(m)' = Ahead(m)
    BY <2>1 DEF Ahead
  <2>8. Skipped'
    BY <2>1, <2>4, <2>5, <2>6, <2>7 DEF Skipped
  <2> QED BY <1>1, <2>1, <2>8
<1>d. ASSUME NEW q \in Queries, Choose(q) PROVE Skipped' /\ Near'
  <2> DEFINE c == Candidate(q)
             j == queries[q].offset
  <2>1. queries[q].pc = "scan" /\ j \in Nat /\ j < N
    BY <1>d, PoolAssumption DEF Choose, QueryRecord
  <2>2. c \in Slots /\ Ahead(c) = j
    BY <2>1, CandidateAhead
  <2>3. next' = IF c < N - 1 THEN c + 1 ELSE 0
    BY <1>d, <2>2, AdvancedNext DEF Choose
  <2>4. \A p \in Queries : queries'[p].pc # "scan"
    BY <1>d, <2>1 DEF Choose, Set, Scanning, IdleQuery
  <2>5. ASSUME NEW m \in Slots PROVE passed'[m] + Ahead(m)' <= N - 1
    <3>1. /\ passed'[m] \in {0, passed[m] + 1}
          /\ m = c => passed'[m] = 0
          /\ Ahead(m) < j => passed[m] = 0
      BY <1>d, <2>1 DEF Choose, Skipped
    <3>2. Ahead(m)' = IF m = c THEN N - 1
                      ELSE IF Ahead(m) < j THEN Ahead(m) - j - 1 + N ELSE Ahead(m) - j - 1
      <4>1. c \in 0..(N - 1) /\ m \in 0..(N - 1) /\ next \in 0..(N - 1) /\ N \in Nat
        BY <1>0, <2>2
      <4>2. next' \in 0..(N - 1)
        BY <2>2, <2>3, <4>1
      <4> HIDE DEF c, j
      <4>3. CASE c < N - 1
        <5>1. next' = c + 1
          BY <2>3, <4>3
        <5> QED BY <2>2, <4>1, <4>3, <5>1 DEF Ahead
      <4>4. CASE c = N - 1
        <5>1. next' = 0
          BY <2>3, <4>1, <4>4
        <5> QED BY <2>2, <4>1, <4>4, <5>1 DEF Ahead
      <4> QED BY <4>1, <4>3, <4>4
    <3>3. Ahead(m) = j => m = c
      <4> HIDE DEF c, j
      <4> QED BY <1>0, <2>2 DEF Ahead
    <3>4. passed[m] \in Nat /\ Ahead(m) \in 0..(N - 1) /\ passed[m] + Ahead(m) <= N - 1
      BY <1>0 DEF Near
    <3> HIDE DEF c, j
    <3>5. CASE m = c
      BY <1>0, <3>1, <3>2, <3>5
    <3>6. CASE m # c /\ Ahead(m) < j
      <4>1. passed'[m] = 0 \/ passed'[m] = 1
        BY <3>1, <3>6
      <4>2. Ahead(m)' = Ahead(m) - j - 1 + N /\ N \in Nat /\ Ahead(m) \in Nat
        BY <1>0, <3>2, <3>6
      <4>3. Ahead(m)' \in Nat /\ Ahead(m)' <= N - 2
        BY <2>1, <3>6, <4>2
      <4> QED BY <4>1, <4>2, <4>3
    <3>7. CASE m # c /\ Ahead(m) > j
      <4>1. passed'[m] = 0 \/ passed'[m] = passed[m] + 1
        BY <3>1
      <4>2. Ahead(m)' = Ahead(m) - j - 1 /\ N \in Nat /\ Ahead(m) \in Nat
        BY <1>0, <2>1, <3>2, <3>7
      <4>3. Ahead(m)' \in Nat /\ Ahead(m)' <= Ahead(m) - 1
        BY <2>1, <3>7, <4>2
      <4> QED BY <3>4, <4>1, <4>2, <4>3
    <3> QED BY <2>1, <3>3, <3>4, <3>5, <3>6, <3>7
  <2> QED BY <2>4, <2>5 DEF Skipped, Near
<1>e. ASSUME NEW q \in Queries, CoolDown(q) \/ FailTransiently(q) PROVE Skipped' /\ Near'
  <2>1. \A p \in Queries : queries'[p] = queries[p] \/ queries'[p].pc # "scan"
    BY <1>e, IdleTypes DEF CoolDown, FailTransiently, Set, QueryRecord
  <2>2. next' = next /\ \A m \in Slots : passed'[m] = passed[m] \/ passed'[m] = 0
    BY <1>e DEF CoolDown, FailTransiently
  <2> QED BY <1>1, <1>2, <2>1, <2>2
<1>f. ASSUME NEW m \in Slots, Elapse(m) \/ Probe(m) \/ SessionMoves(m) PROVE Skipped' /\ Near'
  <2>1. next' = next /\ queries' = queries /\ \A k \in Slots : passed'[k] = passed[k] \/ passed'[k] = 0
    BY <1>f DEF Elapse, Probe, SessionMoves
  <2> QED BY <1>1, <1>2, <2>1
<1>g. CASE UNCHANGED vars
  BY <1>1, <1>2, <1>g DEF vars
<1> QED BY <1>a, <1>b, <1>c, <1>d, <1>e, <1>f, <1>g, NextCases, Zenon DEF Quiet

(***************************************************************************)
(* The theorems                                                            *)
(***************************************************************************)

(* The inductive invariant: types, reasons of cooldowns, what queries      *)
(* know, and the cursor.                                                   *)
THEOREM PoolInvariance == Spec => []IInv
<1>1. Init => IInv
  <2> SUFFICES ASSUME Init PROVE IInv
    OBVIOUS
  <2>1. TypeOK
    BY PoolAssumption, IdleTypes DEF Init, TypeOK, Slots, Gens, NoGen, QueryRecord
  <2>2. Earned /\ Scanning /\ Skipped
    BY IdleTypes DEF Init, Earned, Scanning, Skipped
  <2>3. \A q \in Queries : Ordered(queries[q])
    BY IdleTypes DEF Init, Ordered
  <2>4. Away /\ Near
    BY PoolAssumption DEF Init, Away, Near, Ahead, Slots
  <2> QED BY <2>1, <2>2, <2>3, <2>4 DEF IInv
<1>2. IInv /\ [Next]_vars => IInv'
  BY TypeStep, EarnedStep, OrderedStep, AwayStep, ScanningStep, CursorStep, Zenon DEF IInv
<1> QED BY <1>1, <1>2, PTL DEF Spec

(* Every variable of the pool keeps its type.                              *)
THEOREM PoolTypes == Spec => []TypeOK
<1>1. IInv => TypeOK
  BY DEF IInv
<1> QED BY <1>1, PoolInvariance, PTL

(* Only a request that failed under a member's present session keeps that  *)
(* session out of the rotation.                                            *)
THEOREM OnlyOwnFailuresAlways == Spec => []OnlyOwnFailures
<1>1. IInv => OnlyOwnFailures
  BY Records DEF IInv, OnlyOwnFailures, Earned, Cooling, MemberRecord, Gens, NoGen
<1> QED BY <1>1, PoolInvariance, PTL

(* A member that stays available is chosen at the latest after N - 1       *)
(* others, for every size of the pool.                                     *)
THEOREM FairRotationAlways == Spec => []FairRotation
<1>1. IInv => FairRotation
  <2> SUFFICES ASSUME IInv, NEW m \in Slots PROVE passed[m] <= N - 1
    BY DEF FairRotation
  <2>1. N \in Nat /\ passed[m] \in Nat /\ Ahead(m) \in Nat
    BY Records, PoolAssumption DEF IInv, Ahead, Slots
  <2> QED BY <2>1 DEF IInv, Near
<1> QED BY <1>1, PoolInvariance, PTL
=============================================================================

-------------------------- MODULE QueryCacheProofs --------------------------
(***************************************************************************)
(* What is proved of QueryCache for any number of callers, tasks, requests *)
(* and generations: the flights, whose answer a caller is given, that the  *)
(* byte count is the size of what is cached, within both limits, and that  *)
(* nobody waits in vain.                                                   *)
(***************************************************************************)
EXTENDS QueryCache, FiniteSetTheorems, TLAPS

EntryRecord == [by : 1..MaxGen, fresh : BOOLEAN, touched : Nat]

Active == {t \in Tasks : tasks[t].pc # "idle"}

Typed ==
  /\ gen \in 1..MaxGen
  /\ tasks \in [Tasks -> TaskRecord]
  /\ callers \in [Callers -> CallerRecord]

(* Every entry was fetched under the generation of its key.                *)
Own ==
  /\ DOMAIN entries \subseteq Keys /\ IsFiniteSet(DOMAIN entries)
  /\ entries \in [DOMAIN entries -> EntryRecord]
  /\ \A k \in DOMAIN entries : entries[k].by = k.gen

(* One flight per task at work and one task per flight, within the limit.  *)
Flown ==
  /\ flights = {tasks[t].key : t \in Active}
  /\ \A t, u \in Active : tasks[t].key = tasks[u].key => t = u
  /\ IsFiniteSet(flights) /\ Cardinality(flights) <= MaxInflight

(* What holds of a task when g is the current generation: its key was read *)
(* earlier, "changed" is said of an older session only, and an answer was  *)
(* fetched under the generation of its key.                                *)
Sound(t, g) ==
  /\ t.key.gen <= g
  /\ t.pc = "fetched" /\ t.res = "changed" => t.key.gen # g
  /\ t.pc = "fetched" /\ t.res = "ok" => t.by = t.key.gen

(* The same of a caller, who waits for a flight of its own key and then    *)
(* knows what the task did.                                                *)
Informed(c, g) ==
  /\ c.key.gen <= g
  /\ c.pc = "wait" => c.flight = c.key
  /\ c.pc = "woken" /\ c.res = "changed" => c.key.gen # g
  /\ c.pc \in {"woken", "checked"} /\ c.res = "ok" => c.by = c.key.gen

IInv ==
  /\ Typed /\ Own /\ Flown
  /\ \A t \in Tasks : Sound(tasks[t], gen)
  /\ \A c \in Callers : Informed(callers[c], gen)

(***************************************************************************)
(* Records, generations and entries.                                       *)
(***************************************************************************)

(* The idle records are well typed (cache.rs, before any call).            *)
LEMMA IdleTypes ==
  /\ IdleTask \in TaskRecord /\ IdleCaller \in CallerRecord
  /\ SomeKey \in Keys /\ SomeKey.gen = 1
<1>1. 1 \in 1..MaxGen
  BY MaxGenAssumption
<1>2. (CHOOSE r \in Requests : TRUE) \in Requests
  BY CacheAssumption
<1>3. SomeKey \in Keys /\ SomeKey.gen = 1
  BY <1>1, <1>2 DEF SomeKey, Keys
<1> QED BY <1>1, <1>3 DEF IdleTask, IdleCaller, TaskRecord, CallerRecord, Results

(* The session's moves: a generation only ever grows, and no refusal       *)
(* changes it (SessionLifecycle).                                          *)
LEMMA GenStep ==
  ASSUME gen \in 1..MaxGen, NextLifecycle \/ UNCHANGED lifecycle
  PROVE  gen' \in 1..MaxGen /\ gen' >= gen
BY MaxGenAssumption DEF NextLifecycle, Refuse, Install, Rediscover, lifecycle

(* What is known of a record stays known when the session is replaced.     *)
LEMMA KnownStays ==
  ASSUME NEW g \in 1..MaxGen, NEW h \in 1..MaxGen, h >= g
  PROVE  /\ \A t \in TaskRecord : Sound(t, g) => Sound(t, h)
         /\ \A c \in CallerRecord : Informed(c, g) => Informed(c, h)
BY MaxGenAssumption DEF Sound, Informed, TaskRecord, CallerRecord, Keys

(* Renumbering the touches changes neither keys nor answers.               *)
LEMMA RankedKeeps ==
  ASSUME NEW f, IsFiniteSet(DOMAIN f), \A k \in DOMAIN f : f[k] \in EntryRecord
  PROVE  /\ DOMAIN Ranked(f) = DOMAIN f
         /\ Ranked(f) \in [DOMAIN f -> EntryRecord]
         /\ \A k \in DOMAIN f : Ranked(f)[k].by = f[k].by
<1>1. \A k \in DOMAIN f :
        Cardinality({j \in DOMAIN f : f[j].touched <= f[k].touched}) \in Nat
  <2> TAKE k \in DOMAIN f
  <2> DEFINE T == {j \in DOMAIN f : f[j].touched <= f[k].touched}
  <2>1. IsFiniteSet(T)
    BY FS_Subset
  <2> QED BY <2>1, FS_CardinalityType
<1> QED BY <1>1 DEF Ranked, EntryRecord

(***************************************************************************)
(* Sums of response sizes.  TotalSize is a fold over a set, which picks    *)
(* its elements in some order.  The induction over finite sets that its    *)
(* facts need is done with minimal counterexamples: the proper-subset      *)
(* relation is well founded (FiniteSetTheorems), so a claim that fails for *)
(* a finite set fails for one all of whose proper subsets satisfy it.      *)
(***************************************************************************)

(* Among finite sets with some property there is one none of whose proper  *)
(* subsets has it.                                                         *)
LEMMA MinimalSet ==
  ASSUME NEW S, NEW B \in SUBSET FiniteSubsetsOf(S), B # {}
  PROVE  \E T \in B : \A U \in B : U \subseteq T => U = T
<1>1. PICK T \in B : \A U \in B : ~(<<U, T>> \in StrictSubsetOrdering(S))
  BY FS_StrictSubsetOrderingWellFounded, WFMin
<1> QED BY <1>1 DEF StrictSubsetOrdering, FiniteSubsetsOf

(* The fold behind TotalSize, as a function that calls itself.             *)
Pick(s) == CHOOSE x \in s : TRUE
SumOn(S, f) == [s \in SUBSET S |-> IF s = {} THEN 0 ELSE Size[Pick(s).req] + f[s \ {Pick(s)}]]
Summed(S) == CHOOSE f : f = SumOn(S, f)

(* TotalSize is that fold (cache.rs, the sums over the entries).           *)
LEMMA TotalIsSummed ==
  ASSUME NEW S
  PROVE  TotalSize(S) = Summed(S)[S]
BY Zenon DEF TotalSize, MapThenSumSet, MapThenFoldSet, Summed, Pick, SumOn

(* A set that is not empty has something to pick.                          *)
LEMMA PickIn ==
  ASSUME NEW S, S # {}
  PROVE  Pick(S) \in S
BY DEF Pick

(* Two functions that add up sizes agree on the finite sets they share.    *)
LEMMA SumsAgree ==
  ASSUME NEW S, NEW T, NEW f, NEW g, f = SumOn(S, f), g = SumOn(T, g),
         NEW U, IsFiniteSet(U), U \subseteq S, U \subseteq T
  PROVE  f[U] = g[U]
<1> DEFINE B == {s \in FiniteSubsetsOf(U) : f[s] # g[s]}
<1>1. ASSUME B # {} PROVE FALSE
  <2>1. PICK s \in B : \A t \in B : t \subseteq s => t = s
    <3>1. B \in SUBSET FiniteSubsetsOf(U)
      OBVIOUS
    <3> HIDE DEF B
    <3> QED BY <1>1, <3>1, MinimalSet
  <2>2. s \in SUBSET S /\ s \in SUBSET T /\ IsFiniteSet(s)
    BY DEF FiniteSubsetsOf
  <2>3. f[s] = SumOn(S, f)[s] /\ g[s] = SumOn(T, g)[s]
    OBVIOUS
  <2>4. CASE s = {}
    BY <2>2, <2>3, <2>4 DEF SumOn
  <2>5. CASE s # {}
    <3>1. Pick(s) \in s
      BY <2>5, PickIn
    <3>2. IsFiniteSet(s \ {Pick(s)})
      BY <2>2, FS_RemoveElement
    <3>3. s \ {Pick(s)} \notin B
      BY <2>1, <3>1
    <3>4. f[s \ {Pick(s)}] = g[s \ {Pick(s)}]
      BY <3>2, <3>3 DEF FiniteSubsetsOf
    <3> QED BY <2>2, <2>3, <2>5, <3>4 DEF SumOn
  <2> QED BY <2>4, <2>5
<1>2. U \in FiniteSubsetsOf(U)
  BY DEF FiniteSubsetsOf
<1> QED BY <1>1, <1>2

(* There is such a function for every finite set: were there a set without *)
(* one, a smallest such set would have one after all.                      *)
LEMMA SumExists ==
  ASSUME NEW S, IsFiniteSet(S)
  PROVE  Summed(S) = SumOn(S, Summed(S))
<1> DEFINE B == {T \in FiniteSubsetsOf(S) : Summed(T) # SumOn(T, Summed(T))}
<1>1. ASSUME B # {} PROVE FALSE
  <2>1. PICK T \in B : \A U \in B : U \subseteq T => U = T
    <3>1. B \in SUBSET FiniteSubsetsOf(S)
      OBVIOUS
    <3> HIDE DEF B
    <3> QED BY <1>1, <3>1, MinimalSet
  <2>2. T \subseteq S /\ IsFiniteSet(T)
    BY DEF FiniteSubsetsOf
  <2>3. ASSUME NEW U, U \subseteq T, U # T
        PROVE  IsFiniteSet(U) /\ Summed(U) = SumOn(U, Summed(U))
    <3>1. IsFiniteSet(U) /\ U \in FiniteSubsetsOf(S)
      BY <2>2, <2>3, FS_Subset DEF FiniteSubsetsOf
    <3> QED BY <2>1, <2>3, <3>1
  <2> DEFINE part == [s \in SUBSET T |-> Summed(s)[s]]
             f    == SumOn(T, part)
  <2>4. \A s \in SUBSET T : s # T => f[s] = part[s]
    <3> SUFFICES ASSUME NEW s \in SUBSET T, s # T
                 PROVE  f[s] = part[s]
      OBVIOUS
    <3>1. Summed(s) = SumOn(s, Summed(s)) /\ IsFiniteSet(s)
      BY <2>3
    <3>2. Summed(s)[s] = SumOn(s, Summed(s))[s]
      BY <3>1
    <3>3. CASE s = {}
      BY <3>2, <3>3 DEF SumOn
    <3>4. CASE s # {}
      <4> DEFINE r == s \ {Pick(s)}
      <4>1. Pick(s) \in s
        BY <3>4, PickIn
      <4>2. r \subseteq T /\ r # T /\ r \subseteq s
        BY <4>1
      <4>3. Summed(r) = SumOn(r, Summed(r)) /\ IsFiniteSet(r)
        BY <4>2, <2>3
      <4>4. Summed(s)[r] = Summed(r)[r]
        BY <3>1, <4>2, <4>3, SumsAgree
      <4> QED BY <3>2, <3>4, <4>2, <4>4 DEF SumOn
    <3> QED BY <3>3, <3>4
  <2>5. f = SumOn(T, f)
    <3>1. \A s \in SUBSET T : s # {} => f[s \ {Pick(s)}] = part[s \ {Pick(s)}]
      BY <2>4, PickIn
    <3> HIDE DEF part
    <3> QED BY <3>1 DEF SumOn
  <2>6. Summed(T) = SumOn(T, Summed(T))
    <3> HIDE DEF f
    <3> QED BY <2>5 DEF Summed
  <2> QED BY <2>6
<1>2. S \in FiniteSubsetsOf(S)
  BY DEF FiniteSubsetsOf
<1> QED BY <1>1, <1>2

(* So the recursion of the fold computes: nothing is 0, and more is the    *)
(* element it picks and the sum of the rest.                               *)
LEMMA TotalStep ==
  ASSUME NEW S, IsFiniteSet(S)
  PROVE  TotalSize(S) = IF S = {} THEN 0 ELSE Size[Pick(S).req] + TotalSize(S \ {Pick(S)})
<1> DEFINE r == S \ {Pick(S)}
<1>1. Summed(S)[S] = SumOn(S, Summed(S))[S]
  BY SumExists
<1>2. IsFiniteSet(r)
  BY FS_RemoveElement
<1>3. Summed(S)[r] = Summed(r)[r]
  BY <1>2, SumExists, SumsAgree
<1> QED BY <1>1, <1>3, TotalIsSummed DEF SumOn

(* An empty cache holds no bytes (cache.rs, new).                          *)
LEMMA TotalEmpty == TotalSize({}) = 0
BY TotalStep, FS_EmptySet

(* A sum of response sizes is a number (cache.rs, Entry::bytes).           *)
LEMMA TotalNat ==
  ASSUME NEW S \in SUBSET Keys, IsFiniteSet(S)
  PROVE  TotalSize(S) \in Nat
<1> DEFINE B == {T \in FiniteSubsetsOf(S) : TotalSize(T) \notin Nat}
<1>1. ASSUME B # {} PROVE FALSE
  <2>1. PICK T \in B : \A U \in B : U \subseteq T => U = T
    <3>1. B \in SUBSET FiniteSubsetsOf(S)
      OBVIOUS
    <3> HIDE DEF B
    <3> QED BY <1>1, <3>1, MinimalSet
  <2>2. T \subseteq S /\ IsFiniteSet(T) /\ TotalSize(T) \notin Nat
    BY DEF FiniteSubsetsOf
  <2>3. T # {}
    BY <2>2, TotalEmpty
  <2>4. Pick(T) \in T /\ Size[Pick(T).req] \in Nat
    BY <2>2, <2>3, PickIn, CacheAssumption DEF Keys
  <2>5. IsFiniteSet(T \ {Pick(T)}) /\ T \ {Pick(T)} \notin B
    BY <2>1, <2>2, <2>4, FS_RemoveElement
  <2>6. TotalSize(T \ {Pick(T)}) \in Nat
    BY <2>2, <2>5 DEF FiniteSubsetsOf
  <2> QED BY <2>2, <2>3, <2>4, <2>6, TotalStep
<1>2. S \in FiniteSubsetsOf(S)
  BY DEF FiniteSubsetsOf
<1> QED BY <1>1, <1>2

(* Any entry may be taken out first: the order of the recursion does not   *)
(* matter (cache.rs, self.bytes -= entry.bytes).                           *)
LEMMA TotalTake ==
  ASSUME NEW S \in SUBSET Keys, IsFiniteSet(S), NEW k \in S
  PROVE  TotalSize(S) = Size[k.req] + TotalSize(S \ {k})
<1> DEFINE Fails(T, j) == TotalSize(T) # Size[j.req] + TotalSize(T \ {j})
           B == {T \in FiniteSubsetsOf(S) : \E j \in T : Fails(T, j)}
<1>1. ASSUME B # {} PROVE FALSE
  <2>1. PICK T \in B : \A U \in B : U \subseteq T => U = T
    <3>1. B \in SUBSET FiniteSubsetsOf(S)
      OBVIOUS
    <3> HIDE DEF B
    <3> QED BY <1>1, <3>1, MinimalSet
  <2>2. PICK j \in T : Fails(T, j)
    OBVIOUS
  <2>3. T \in SUBSET Keys /\ IsFiniteSet(T)
    BY DEF FiniteSubsetsOf
  <2>4. PICK p \in T : p = Pick(T)
    BY <2>2, PickIn
  <2>5. TotalSize(T) = Size[p.req] + TotalSize(T \ {p}) /\ p # j
    BY <2>2, <2>3, <2>4, TotalStep
  <2>6. ASSUME NEW U, U \subseteq T, U # T, NEW i \in U
        PROVE  TotalSize(U) = Size[i.req] + TotalSize(U \ {i})
    <3>1. U \in FiniteSubsetsOf(S) /\ U \notin B
      BY <2>1, <2>3, <2>6, FS_Subset DEF FiniteSubsetsOf
    <3> QED BY <3>1
  <2>7. TotalSize(T \ {p}) = Size[j.req] + TotalSize((T \ {p}) \ {j})
    BY <2>5, <2>6
  <2>8. TotalSize(T \ {j}) = Size[p.req] + TotalSize((T \ {j}) \ {p})
    BY <2>5, <2>6
  <2>9. PICK rest : rest = TotalSize((T \ {p}) \ {j})
    OBVIOUS
  <2>10. (T \ {p}) \ {j} = (T \ {j}) \ {p}
    OBVIOUS
  <2>11. TotalSize(T) = Size[p.req] + (Size[j.req] + rest)
    BY <2>5, <2>7, <2>9
  <2>12. TotalSize(T \ {j}) = Size[p.req] + rest
    BY <2>8, <2>9, <2>10
  <2>13. rest \in Nat /\ Size[j.req] \in Nat /\ Size[p.req] \in Nat
    BY <2>3, <2>9, FS_Subset, TotalNat, CacheAssumption DEF Keys
  <2> HIDE DEF B
  <2> QED BY <2>2, <2>11, <2>12, <2>13
<1>2. S \in FiniteSubsetsOf(S)
  BY DEF FiniteSubsetsOf
<1> QED BY <1>1, <1>2

(* A part and the rest add up to the whole (cache.rs, retain and the       *)
(* evictions).                                                             *)
LEMMA TotalMinus ==
  ASSUME NEW S \in SUBSET Keys, IsFiniteSet(S), NEW K \in SUBSET S
  PROVE  /\ TotalSize(S) = TotalSize(K) + TotalSize(S \ K)
         /\ TotalSize(S) \in Nat /\ TotalSize(K) \in Nat /\ TotalSize(S \ K) \in Nat
<1>n. \A T \in SUBSET S : IsFiniteSet(T) /\ TotalSize(T) \in Nat
  BY FS_Subset, TotalNat
<1> DEFINE B == {T \in FiniteSubsetsOf(S) : TotalSize(S) # TotalSize(T) + TotalSize(S \ T)}
<1>1. ASSUME B # {} PROVE FALSE
  <2>1. PICK T \in B : \A U \in B : U \subseteq T => U = T
    <3>1. B \in SUBSET FiniteSubsetsOf(S)
      OBVIOUS
    <3> HIDE DEF B
    <3> QED BY <1>1, <3>1, MinimalSet
  <2>2. T \subseteq S /\ TotalSize(S) # TotalSize(T) + TotalSize(S \ T)
    BY DEF FiniteSubsetsOf
  <2>3. T # {}
    <3>1. S \ {} = S
      OBVIOUS
    <3> QED BY <1>n, <2>2, <3>1, TotalEmpty
  <2>4. PICK j \in T : TRUE
    BY <2>3
  <2> DEFINE U == T \ {j}
             R == S \ T
  <2>5. TotalSize(S) = TotalSize(U) + TotalSize(S \ U)
    <3>1. U \in FiniteSubsetsOf(S) /\ U \notin B
      BY <1>n, <2>1, <2>2 DEF FiniteSubsetsOf
    <3> QED BY <3>1
  <2>6. TotalSize(T) = Size[j.req] + TotalSize(U)
    BY <1>n, <2>2, TotalTake
  <2>7. TotalSize(S \ U) = Size[j.req] + TotalSize(R)
    <3>1. j \in S \ U /\ (S \ U) \ {j} = R /\ S \ U \in SUBSET S
      BY <2>2
    <3> QED BY <1>n, <3>1, TotalTake
  <2>8. /\ TotalSize(U) \in Nat /\ TotalSize(R) \in Nat /\ TotalSize(S \ U) \in Nat
        /\ Size[j.req] \in Nat
    BY <1>n, <2>2, CacheAssumption DEF Keys
  <2> HIDE DEF B, U, R
  <2>9. TotalSize(S) # TotalSize(T) + TotalSize(R)
    BY <2>2 DEF R
  <2> QED BY <2>5, <2>6, <2>7, <2>8, <2>9
<1>2. K \in FiniteSubsetsOf(S)
  BY <1>n DEF FiniteSubsetsOf
<1> QED BY <1>1, <1>2, <1>n

(***************************************************************************)
(* Entries.                                                                *)
(***************************************************************************)

(* Dropping entries and touching one leaves every entry its answer         *)
(* (cache.rs, retain and the hit).                                         *)
LEMMA LookupOwn ==
  ASSUME Own, NEW c \in Callers, Lookup(c)
  PROVE  Own'
<1> DEFINE k    == callers[c].key
           K    == Retained(k.gen)
           kept == Restrict(entries, K)
           hit  == [kept EXCEPT ![k].touched = Now]
<1>1. K \subseteq DOMAIN entries /\ IsFiniteSet(K) /\ K \subseteq Keys
  BY FS_Subset DEF Retained, Own
<1>2. DOMAIN kept = K /\ \A j \in K : kept[j] \in EntryRecord /\ kept[j].by = j.gen
  BY <1>1 DEF Restrict, Own
<1>3. Now \in Nat
  BY FS_CardinalityType DEF Now, Own
<1>4. k \in K => DOMAIN hit = K /\ \A j \in K : hit[j] \in EntryRecord /\ hit[j].by = j.gen
  BY <1>2, <1>3 DEF EntryRecord
<1>5. entries' = Ranked(kept) \/ (k \in K /\ entries' = Ranked(hit))
  BY DEF Lookup, Hit
<1>6. CASE entries' = Ranked(kept)
  <2> HIDE DEF kept
  <2> QED BY <1>1, <1>2, <1>6, RankedKeeps DEF Own
<1>7. CASE k \in K /\ entries' = Ranked(hit)
  <2>1. DOMAIN hit = K /\ \A j \in K : hit[j] \in EntryRecord /\ hit[j].by = j.gen
    BY <1>4, <1>7
  <2> HIDE DEF hit, k
  <2> QED BY <1>1, <2>1, <1>7, RankedKeeps DEF Own
<1> QED BY <1>5, <1>6, <1>7

(* What is inserted was fetched under the generation of its key (cache.rs, *)
(* the generation is looked at again under the lock).                      *)
LEMMA StoreOwn ==
  ASSUME Typed, Own, NEW t \in Tasks, Sound(tasks[t], gen), Store(t)
  PROVE  Own'
<1>1. CASE ~Cacheable(t)
  BY <1>1 DEF Store, Own
<1>2. CASE Cacheable(t)
  <2> DEFINE k    == tasks[t].key
             gone == Evicted(Size[k.req])
             K    == (DOMAIN entries \ gone) \cup {k}
             new  == [by |-> tasks[t].by, fresh |-> TRUE, touched |-> Now]
             f    == [j \in K |-> IF j = k THEN new ELSE entries[j]]
  <2>1. entries' = Ranked(f)
    BY <1>2 DEF Store, Insert
  <2>2. Now \in Nat
    BY FS_CardinalityType DEF Now, Own
  <2>3. tasks[t].res = "ok" /\ tasks[t].by = k.gen /\ tasks[t].by \in 1..MaxGen /\ k \in Keys
    BY <1>2 DEF Cacheable, Result, Sound, Store, Typed, TaskRecord
  <2>4. new \in EntryRecord /\ new.by = k.gen
    BY <2>2, <2>3 DEF EntryRecord
  <2>5. IsFiniteSet(DOMAIN entries \ gone)
    BY FS_Subset DEF Own
  <2>6. IsFiniteSet(K) /\ K \subseteq Keys
    BY <2>3, <2>5, FS_AddElement DEF Own
  <2>7. DOMAIN f = K /\ \A j \in K : f[j] \in EntryRecord /\ f[j].by = j.gen
    <3> HIDE DEF new
    <3> QED BY <2>4 DEF Own
  <2> HIDE DEF f, K
  <2> QED BY <2>1, <2>6, <2>7, RankedKeeps DEF Own
<1> QED BY <1>1, <1>2

(***************************************************************************)
(* Callers.                                                                *)
(***************************************************************************)

(* The step of one caller, with the record it leaves.                      *)
Moves(c, r) == Set(c, r) /\ r \in CallerRecord /\ Informed(r, gen)

(* A step of a caller by itself leaves it well informed (cache.rs, query). *)
LEMMA CallerMoves ==
  ASSUME Typed, Own, NEW c \in Callers, Informed(callers[c], gen),
         \/ \E r \in Requests : Ask(c, r)
         \/ CallerStep(c) \/ Leave(c)
  PROVE  \E r \in CallerRecord : Moves(c, r)
<1> DEFINE s == callers[c]
<1>0. s \in CallerRecord /\ s.key.gen <= gen /\ gen \in 1..MaxGen /\ gen >= 1
  BY MaxGenAssumption DEF Typed, Informed
<1>i. IdleCaller \in CallerRecord /\ Informed(IdleCaller, gen)
  BY <1>0, IdleTypes DEF Informed, IdleCaller
<1>1. ASSUME NEW r \in Requests, Ask(c, r)
      PROVE  \E x \in CallerRecord : Moves(c, x)
  <2> DEFINE x == [IdleCaller EXCEPT !.pc = "asked", !.key.req = r]
  <2>1. x \in CallerRecord
    BY <1>i, Zenon DEF CallerRecord, Keys
  <2>2. x.pc = "asked" /\ x.key.gen = IdleCaller.key.gen
    BY <1>i DEF CallerRecord, Keys
  <2>3. Informed(x, gen)
    BY <1>i, <2>2 DEF Informed
  <2> QED BY <1>1, <2>1, <2>3 DEF Ask, Moves
<1>2. CASE ReadGeneration(c)
  <2> DEFINE x == [s EXCEPT !.pc = "keyed", !.key.gen = gen]
  <2>1. x \in CallerRecord
    BY <1>0, Zenon DEF CallerRecord, Keys
  <2>2. x.pc = "keyed" /\ x.key.gen = gen
    BY <1>0 DEF CallerRecord, Keys
  <2>3. Informed(x, gen)
    BY <1>0, <2>2 DEF Informed
  <2> QED BY <1>2, <2>1, <2>3 DEF ReadGeneration, Moves
<1>3. CASE Wake(c)
  <2> DEFINE x == [s EXCEPT !.pc = "checked"]
  <2>1. x \in CallerRecord /\ Informed(x, gen)
    BY <1>0, <1>3 DEF CallerRecord, Informed, Wake
  <2> QED BY <1>3, <1>i, <2>1 DEF Wake, Moves
<1>4. CASE Return(c)
  <2> DEFINE x == [IdleCaller EXCEPT !.pc = "served"]
  <2>1. x \in CallerRecord /\ Informed(x, gen)
    BY <1>i DEF CallerRecord, Informed, IdleCaller
  <2> QED BY <1>4, <1>i, <2>1 DEF Return, Moves
<1>5. CASE Leave(c)
  BY <1>5, <1>i DEF Leave, Moves
<1>6. CASE Lookup(c)
  <2> DEFINE k == s.key
  <2>1. ASSUME k \in Retained(k.gen), Hit(c)
        PROVE  \E x \in CallerRecord : Moves(c, x)
    <3> DEFINE x == [s EXCEPT !.pc = "checked", !.res = "ok", !.by = entries[k].by]
    <3>1. entries[k].by = k.gen /\ entries[k].by \in 1..MaxGen
      BY <2>1 DEF Retained, Own, EntryRecord
    <3>2. x \in CallerRecord /\ Informed(x, gen)
      BY <1>0, <3>1 DEF CallerRecord, Informed, Results
    <3> QED BY <1>i, <2>1, <3>2 DEF Hit, Moves
  <2>2. ASSUME Coalesce(c) \/ QueueFull(c) \/ Spawn(c)
        PROVE  \E x \in CallerRecord : Moves(c, x)
    <3> DEFINE x == [s EXCEPT !.pc = "wait", !.flight = k]
    <3>1. x \in CallerRecord /\ Informed(x, gen)
      BY <1>0 DEF CallerRecord, Informed
    <3>2. Coalesce(c) => Set(c, x)
      BY DEF Coalesce, Joins
    <3> QED BY <1>i, <2>2, <3>1, <3>2 DEF QueueFull, Spawn, Moves
  <2> QED BY <1>6, <2>1, <2>2 DEF Lookup
<1> QED BY <1>1, <1>2, <1>3, <1>4, <1>5, <1>6 DEF CallerStep

(* A flight that lands tells its waiters what it did: it waits for no      *)
(* other generation than theirs (cache.rs, the sender's last lines).       *)
LEMMA StoreCallers ==
  ASSUME Typed, NEW t \in Tasks, Sound(tasks[t], gen), Store(t),
         \A c \in Callers : Informed(callers[c], gen)
  PROVE  /\ callers' \in [Callers -> CallerRecord]
         /\ \A c \in Callers : Informed(callers'[c], gen)
<1>1. Result(t) \in Results /\ tasks[t].by \in 1..MaxGen
  BY DEF Result, Results, Typed, TaskRecord
<1>2. /\ Result(t) = "changed" => tasks[t].key.gen # gen
      /\ Result(t) = "ok" => tasks[t].by = tasks[t].key.gen
  BY DEF Result, Sound, Store
<1>3. ASSUME NEW c \in Callers
      PROVE  callers'[c] \in CallerRecord /\ Informed(callers'[c], gen)
  <2>1. CASE c \in Waiters(t)
    <3>1. callers'[c] = [callers[c] EXCEPT !.pc = "woken", !.res = Result(t), !.by = tasks[t].by]
      BY <2>1 DEF Store
    <3>2. callers[c].key = tasks[t].key /\ callers[c].key.gen <= gen
      BY <2>1 DEF Waiters, Informed
    <3> QED BY <1>1, <1>2, <3>1, <3>2 DEF Typed, CallerRecord, Informed
  <2>2. CASE c \notin Waiters(t)
    BY <2>2 DEF Store, Typed
  <2> QED BY <2>1, <2>2
<1>4. callers' \in [Callers -> CallerRecord]
  <2>1. callers' = [c \in Callers |-> callers'[c]]
    BY DEF Store
  <2> QED BY <1>3, <2>1
<1> QED BY <1>3, <1>4

(***************************************************************************)
(* Tasks and flights.                                                      *)
(***************************************************************************)

(* A lookup leaves the tasks alone or sends off an idle one for a key that *)
(* nobody fetches yet, within the limit (cache.rs, max_inflight).          *)
Departs(t, k) ==
  /\ t \in Tasks /\ tasks[t].pc = "idle" /\ k \in Keys /\ k.gen <= gen
  /\ k \notin flights /\ Cardinality(flights) < MaxInflight
  /\ tasks' = [tasks EXCEPT ![t] = [IdleTask EXCEPT !.pc = "run", !.key = k]]
  /\ flights' = flights \cup {k}

(* The lookup's effect on the tasks (cache.rs, query under the lock).      *)
LEMMA LookupFlights ==
  ASSUME Typed, NEW c \in Callers, Informed(callers[c], gen), Lookup(c)
  PROVE  UNCHANGED <<flights, tasks>> \/ \E t \in Tasks : Departs(t, callers[c].key)
<1> DEFINE k == callers[c].key
<1>1. k \in Keys /\ k.gen <= gen
  BY DEF Typed, CallerRecord, Informed
<1>2. CASE k \in Retained(k.gen)
  BY <1>2 DEF Lookup, Hit
<1>3. CASE k \notin Retained(k.gen) /\ k \in flights
  BY <1>3 DEF Lookup, Coalesce
<1>4. CASE k \notin Retained(k.gen) /\ k \notin flights
  <2>1. QueueFull(c) \/ Spawn(c)
    BY <1>4 DEF Lookup
  <2> QED BY <1>1, <1>4, <2>1 DEF QueueFull, Spawn, Departs
<1> QED BY <1>2, <1>3, <1>4

(* A departing flight takes a place of its own (cache.rs, flights.insert). *)
LEMMA DepartsFlown ==
  ASSUME Typed, Flown, NEW t \in Tasks, NEW k \in Keys, Departs(t, k)
  PROVE  /\ Flown'
         /\ tasks' \in [Tasks -> TaskRecord]
         /\ \A u \in Tasks : Sound(tasks[u], gen) => Sound(tasks'[u], gen)
<1> DEFINE x == [IdleTask EXCEPT !.pc = "run", !.key = k]
<1>1. x \in TaskRecord /\ x.pc = "run" /\ x.key = k
  BY IdleTypes DEF TaskRecord
<1>2. tasks' \in [Tasks -> TaskRecord] /\ tasks'[t] = x /\ \A u \in Tasks \ {t} : tasks'[u] = tasks[u]
  BY <1>1 DEF Departs, Typed
<1>3. \A u \in Tasks : Sound(tasks[u], gen) => Sound(tasks'[u], gen)
  BY <1>1, <1>2 DEF Departs, Sound
<1>4. Active' = Active \cup {t} /\ t \notin Active
  BY <1>1, <1>2 DEF Active, Departs
<1>5. flights' = {tasks'[u].key : u \in Active'}
  BY <1>1, <1>2, <1>4 DEF Departs, Flown, Active
<1>6. \A u, v \in Active' : tasks'[u].key = tasks'[v].key => u = v
  BY <1>1, <1>2, <1>4 DEF Departs, Flown, Active
<1>7. IsFiniteSet(flights') /\ Cardinality(flights') <= MaxInflight
  <2>1. flights' = flights \cup {k} /\ k \notin flights /\ Cardinality(flights) < MaxInflight
    BY DEF Departs
  <2>2. IsFiniteSet(flights) /\ Cardinality(flights) \in Nat
    BY FS_CardinalityType DEF Flown
  <2>3. IsFiniteSet(flights \cup {k}) /\ Cardinality(flights \cup {k}) = Cardinality(flights) + 1
    BY <2>1, <2>2, FS_AddElement
  <2> QED BY <2>1, <2>2, <2>3, CacheAssumption
<1> QED BY <1>2, <1>3, <1>5, <1>6, <1>7 DEF Flown

(* A fetch keeps its place while it fails or succeeds, and succeeds only   *)
(* on the session of its key (client lib.rs, execute).                     *)
LEMMA FetchFlown ==
  ASSUME Typed, Flown, NEW t \in Tasks, Sound(tasks[t], gen), NEW r \in Results, Fetch(t, r)
  PROVE  /\ Flown' /\ gen' = gen
         /\ tasks' \in [Tasks -> TaskRecord]
         /\ Sound(tasks'[t], gen) /\ \A u \in Tasks \ {t} : tasks'[u] = tasks[u]
<1>1. gen' = gen
  BY DEF Fetch, Refuse, lifecycle
<1>2. /\ r = "ok" => gen = tasks[t].key.gen
      /\ r = "changed" => gen # tasks[t].key.gen
  BY DEF Fetch, Results
<1> DEFINE x == [tasks[t] EXCEPT !.pc = "fetched", !.res = r, !.by = gen]
<1>3. x \in TaskRecord /\ x.pc = "fetched" /\ x.key = tasks[t].key /\ Sound(x, gen)
  BY <1>2 DEF TaskRecord, Typed, Sound
<1>4. tasks' = [tasks EXCEPT ![t] = x]
  BY DEF Fetch, Typed
<1>5. /\ tasks' \in [Tasks -> TaskRecord] /\ tasks'[t] = x
      /\ \A u \in Tasks \ {t} : tasks'[u] = tasks[u]
  <2> HIDE DEF x
  <2> QED BY <1>3, <1>4 DEF Typed
<1>6. Active' = Active /\ flights' = flights /\ \A u \in Tasks : tasks'[u].key = tasks[u].key
  BY <1>3, <1>5 DEF Active, Fetch
<1> QED BY <1>1, <1>3, <1>5, <1>6 DEF Flown, Active

(* A flight that lands gives back its own place (cache.rs,                 *)
(* flights.remove).                                                        *)
LEMMA StoreFlown ==
  ASSUME Typed, Flown, NEW t \in Tasks, Store(t)
  PROVE  /\ Flown'
         /\ tasks' \in [Tasks -> TaskRecord]
         /\ \A u \in Tasks : Sound(tasks[u], gen) => Sound(tasks'[u], gen)
<1>1. /\ tasks' \in [Tasks -> TaskRecord] /\ tasks'[t] = IdleTask
      /\ \A u \in Tasks \ {t} : tasks'[u] = tasks[u]
  BY IdleTypes DEF Store, Typed
<1>2. IdleTask.pc = "idle" /\ IdleTask.key.gen = 1
  BY IdleTypes DEF IdleTask
<1>3. \A u \in Tasks : Sound(tasks[u], gen) => Sound(tasks'[u], gen)
  BY <1>1, <1>2, MaxGenAssumption DEF Sound, Typed
<1>4. Active' = Active \ {t} /\ t \in Active
  BY <1>1, <1>2 DEF Active, Store
<1>5. flights' = flights \ {tasks[t].key}
  BY DEF Store, Landed
<1>6. flights' = {tasks'[u].key : u \in Active'}
  BY <1>1, <1>4, <1>5 DEF Flown, Active
<1>7. \A u, v \in Active' : tasks'[u].key = tasks'[v].key => u = v
  BY <1>1, <1>4 DEF Flown, Active
<1>8. IsFiniteSet(flights') /\ Cardinality(flights') <= MaxInflight
  <2>1. IsFiniteSet(flights) /\ Cardinality(flights) <= MaxInflight /\ flights' \subseteq flights
    BY <1>5 DEF Flown
  <2>2. /\ IsFiniteSet(flights') /\ Cardinality(flights') <= Cardinality(flights)
        /\ Cardinality(flights) \in Nat /\ Cardinality(flights') \in Nat
    BY <2>1, FS_Subset, FS_CardinalityType
  <2> QED BY <2>1, <2>2, CacheAssumption
<1> QED BY <1>1, <1>3, <1>6, <1>7, <1>8 DEF Flown

(***************************************************************************)
(* The invariant and what follows from it.                                 *)
(***************************************************************************)

(* The cache starts empty and with nothing under way (cache.rs, new).      *)
LEMMA InitInv == Init => IInv
<1> SUFFICES ASSUME Init PROVE IInv
  OBVIOUS
<1>1. Typed
  BY IdleTypes, MaxGenAssumption DEF Init, InitLifecycle, Typed
<1>2. Own
  BY FS_EmptySet DEF Init, Own
<1>3. Active = {}
  BY DEF Init, Active, IdleTask
<1>4. Flown
  BY <1>3, FS_EmptySet, CacheAssumption DEF Init, Flown
<1>5. /\ \A t \in Tasks : Sound(tasks[t], gen)
      /\ \A c \in Callers : Informed(callers[c], gen)
  BY IdleTypes DEF Init, InitLifecycle, Sound, Informed, IdleTask, IdleCaller
<1> QED BY <1>1, <1>2, <1>4, <1>5 DEF IInv

(* A caller's own step (cache.rs, query).                                  *)
LEMMA CallerInv ==
  ASSUME IInv, NEW c \in Callers,
         \/ \E r \in Requests : Ask(c, r)
         \/ CallerStep(c) \/ Leave(c)
  PROVE  IInv'
<1>1. PICK r \in CallerRecord : Moves(c, r)
  BY CallerMoves DEF IInv
<1>2. gen' = gen
  BY DEF Ask, CallerStep, ReadGeneration, Wake, Return, Lookup, Leave, lifecycle
<1>3. /\ callers' \in [Callers -> CallerRecord]
      /\ \A d \in Callers : Informed(callers'[d], gen')
  BY <1>1, <1>2 DEF Moves, Set, IInv, Typed
<1>4. CASE UNCHANGED Stored
  <2>1. Own' /\ Flown'
    BY <1>4 DEF Stored, IInv, Own, Flown, Active
  <2> QED BY <1>2, <1>3, <1>4, <2>1 DEF IInv, Typed, Stored
<1>5. CASE Lookup(c)
  <2>1. Own'
    BY <1>5, LookupOwn DEF IInv
  <2>2. /\ Flown' /\ tasks' \in [Tasks -> TaskRecord]
        /\ \A u \in Tasks : Sound(tasks'[u], gen)
    <3>1. CASE UNCHANGED <<flights, tasks>>
      BY <3>1 DEF IInv, Typed, Flown, Active
    <3>2. ASSUME NEW t \in Tasks, Departs(t, callers[c].key)
          PROVE  /\ Flown' /\ tasks' \in [Tasks -> TaskRecord]
                 /\ \A u \in Tasks : Sound(tasks'[u], gen)
      <4>1. callers[c].key \in Keys
        BY <3>2 DEF Departs
      <4> QED BY <3>2, <4>1, DepartsFlown DEF IInv
    <3> QED BY <1>5, <3>1, <3>2, LookupFlights DEF IInv
  <2> QED BY <1>2, <1>3, <2>1, <2>2 DEF IInv, Typed
<1> QED BY <1>4, <1>5 DEF Ask, CallerStep, ReadGeneration, Wake, Return, Leave

(* A task's step (cache.rs, the spawned task).                             *)
LEMMA TaskInv ==
  ASSUME IInv, NEW t \in Tasks, TaskStep(t)
  PROVE  IInv'
<1>1. ASSUME NEW r \in Results, Fetch(t, r) PROVE IInv'
  <2>1. /\ Flown' /\ gen' = gen
        /\ tasks' \in [Tasks -> TaskRecord]
        /\ Sound(tasks'[t], gen) /\ \A u \in Tasks \ {t} : tasks'[u] = tasks[u]
    BY <1>1, FetchFlown DEF IInv
  <2>2. UNCHANGED <<entries, callers>>
    BY <1>1 DEF Fetch
  <2>3. Own'
    BY <2>2 DEF IInv, Own
  <2> QED BY <2>1, <2>2, <2>3 DEF IInv, Typed
<1>2. CASE Store(t)
  <2>1. gen' = gen
    BY <1>2 DEF Store, lifecycle
  <2>2. Own' /\ Flown' /\ tasks' \in [Tasks -> TaskRecord]
    BY <1>2, StoreOwn, StoreFlown DEF IInv
  <2>3. \A u \in Tasks : Sound(tasks'[u], gen)
    BY <1>2, StoreFlown DEF IInv
  <2>4. callers' \in [Callers -> CallerRecord] /\ \A c \in Callers : Informed(callers'[c], gen)
    BY <1>2, StoreCallers DEF IInv
  <2> QED BY <2>1, <2>2, <2>3, <2>4 DEF IInv, Typed
<1> QED BY <1>1, <1>2 DEF TaskStep

(* Time passes, or the session moves on its own (SessionLifecycle).        *)
LEMMA OthersInv ==
  ASSUME IInv, SessionMoves \/ (\E k \in DOMAIN entries : Expire(k)) \/ UNCHANGED vars
  PROVE  IInv'
<1>1. UNCHANGED <<flights, tasks, callers>>
  BY DEF SessionMoves, Expire, vars, Stored
<1>2. gen' \in 1..MaxGen /\ gen' >= gen
  BY GenStep DEF IInv, Typed, SessionMoves, Expire, vars, lifecycle
<1>3. Own'
  <2>1. CASE UNCHANGED entries
    BY <2>1 DEF IInv, Own
  <2>2. ASSUME NEW k \in DOMAIN entries, Expire(k) PROVE Own'
    <3> DEFINE e == [entries[k] EXCEPT !.fresh = FALSE]
    <3>1. e \in EntryRecord /\ e.by = entries[k].by
      BY DEF IInv, Own, EntryRecord
    <3>2. entries' = [entries EXCEPT ![k] = e]
      BY <2>2 DEF Expire
    <3> HIDE DEF e
    <3> QED BY <3>1, <3>2 DEF IInv, Own
  <2> QED BY <2>1, <2>2 DEF SessionMoves, vars, Stored
<1>4. Flown'
  BY <1>1 DEF IInv, Flown, Active
<1>5. /\ \A t \in Tasks : Sound(tasks[t], gen')
      /\ \A c \in Callers : Informed(callers[c], gen')
  BY <1>2, KnownStays DEF IInv, Typed
<1> QED BY <1>1, <1>2, <1>3, <1>4, <1>5 DEF IInv, Typed

(* The invariant holds in every reachable state.                           *)
THEOREM CacheInvariance == Spec => []IInv
<1>1. IInv /\ [Next]_vars => IInv'
  BY CallerInv, TaskInv, OthersInv DEF Next
<1> QED BY <1>1, InitInv, PTL DEF Spec

(* One flight per key and one place per task at work (cache.rs, flights).  *)
THEOREM SingleFlightAlways == Spec => []SingleFlight
<1>1. IInv => SingleFlight
  BY DEF IInv, Flown, Active, SingleFlight
<1> QED BY <1>1, CacheInvariance, PTL

(* "changed" is told only to those whose own session changed (cache.rs,    *)
(* the flight's last look at the generation).                              *)
THEOREM ChangedIsOwnAlways == Spec => []ChangedIsOwn
<1>1. IInv => ChangedIsOwn
  BY DEF IInv, Informed, ChangedIsOwn
<1> QED BY <1>1, CacheInvariance, PTL

(* An answer is handed out only under the session that fetched it          *)
(* (cache.rs, the caller's last look at the generation).                   *)
THEOREM ServedIsolatedAlways == Spec => ServedIsolated
<1> DEFINE Isolated == \A c \in Callers : callers[c].pc # "served" /\ callers'[c].pc = "served"
                         => callers[c].by = gen /\ callers[c].key.gen = gen
<1>1. IInv /\ [Next]_vars => [Isolated]_vars
  <2> SUFFICES ASSUME IInv, Next, NEW c \in Callers,
                      callers[c].pc # "served", callers'[c].pc = "served"
               PROVE  callers[c].by = gen /\ callers[c].key.gen = gen
    OBVIOUS
  <2>1. Return(c)
    <3>1. ASSUME NEW d \in Callers, NEW x, Set(d, x)
          PROVE  d = c /\ x.pc = "served"
      BY <3>1 DEF Set, IInv, Typed
    <3>2. ASSUME NEW d \in Callers, NEW r \in Requests PROVE ~Ask(d, r)
      <4> DEFINE x == [IdleCaller EXCEPT !.pc = "asked", !.key.req = r]
      <4>1. x.pc = "asked"
        BY DEF IdleCaller
      <4>2. Ask(d, r) => Set(d, x)
        BY DEF Ask
      <4> HIDE DEF x
      <4> QED BY <3>1, <4>1, <4>2
    <3>3. ASSUME NEW d \in Callers, CallerStep(d) \/ Leave(d) PROVE Return(d)
      <4> DEFINE s == callers[d]
                 k == s.key
                 keyed   == [s EXCEPT !.pc = "keyed", !.key.gen = gen]
                 hit     == [s EXCEPT !.pc = "checked", !.res = "ok", !.by = entries[k].by]
                 wait(f) == [s EXCEPT !.pc = "wait", !.flight = f]
                 checked == [s EXCEPT !.pc = "checked"]
                 Left    == {IdleCaller, keyed, hit, checked, wait(k)}
      <4>1. s \in CallerRecord
        BY DEF IInv, Typed
      <4>2. \A x \in Left : x.pc # "served"
        <5>1. IdleCaller.pc = "idle"
          BY DEF IdleCaller
        <5>2. keyed.pc = "keyed"
          BY <4>1 DEF CallerRecord, Keys
        <5>3. hit.pc = "checked" /\ checked.pc = "checked" /\ wait(k).pc = "wait"
          BY <4>1 DEF CallerRecord
        <5> HIDE DEF s, k, keyed, hit, wait, checked
        <5> QED BY <5>1, <5>2, <5>3
      <4>3. Return(d) \/ \E x \in Left : Set(d, x)
        <5>1. Leave(d) => Set(d, IdleCaller)
          BY DEF Leave
        <5>2. ReadGeneration(d) => Set(d, keyed)
          BY DEF ReadGeneration
        <5>3. Wake(d) => Set(d, checked) \/ Set(d, IdleCaller)
          BY DEF Wake
        <5>4. Lookup(d) => Set(d, hit) \/ Set(d, wait(k)) \/ Set(d, IdleCaller)
          BY DEF Lookup, Hit, Coalesce, Joins, QueueFull, Spawn
        <5> HIDE DEF s, k, keyed, hit, wait, checked
        <5> QED BY <3>3, <5>1, <5>2, <5>3, <5>4 DEF CallerStep
      <4> HIDE DEF Left
      <4>4. ASSUME NEW x \in Left, Set(d, x) PROVE FALSE
        <5>1. x.pc = "served"
          BY <3>1, <4>4
        <5> QED BY <4>2, <5>1
      <4> QED BY <4>3, <4>4
    <3>4. ASSUME NEW t \in Tasks PROVE ~TaskStep(t)
      <4>1. ASSUME Store(t) PROVE FALSE
        <5>1. CASE c \in Waiters(t)
          <6>1. callers'[c] = [callers[c] EXCEPT !.pc = "woken", !.res = Result(t), !.by = tasks[t].by]
            BY <4>1, <5>1 DEF Store
          <6>2. callers[c] \in CallerRecord
            BY DEF IInv, Typed
          <6> QED BY <6>1, <6>2 DEF CallerRecord
        <5>2. CASE c \notin Waiters(t)
          BY <4>1, <5>2 DEF Store
        <5> QED BY <5>1, <5>2
      <4> QED BY <4>1 DEF TaskStep, Fetch
    <3>5. callers' # callers
      OBVIOUS
    <3>6. PICK d \in Callers : Return(d)
      BY <3>2, <3>3, <3>4, <3>5 DEF Next, SessionMoves, Expire
    <3>7. PICK x : Set(d, x)
      BY <3>6 DEF Return
    <3> QED BY <3>1, <3>6, <3>7
  <2> QED BY <2>1 DEF Return, StillCurrent, Set, IInv, Typed, Informed, IdleCaller
<1> QED BY <1>1, CacheInvariance, PTL DEF Spec, ServedIsolated

(***************************************************************************)
(* The limits.  That the byte count is exact rests on there being no entry *)
(* yet for what a task fetches, since the insert subtracts nothing for a   *)
(* key that it replaces; that the limits hold rests on the ranks, by which *)
(* dropping the n oldest entries really drops n of them.                   *)
(***************************************************************************)

(* Different entries have different ranks, from 1 to their number.         *)
Apart(f)  == \A j, k \in DOMAIN f : f[j].touched = f[k].touched => j = k
Placed(f) == Apart(f) /\ \A k \in DOMAIN f : f[k].touched \in 1..Cardinality(DOMAIN f)

Tight ==
  /\ Placed(entries)
  /\ BytesExact
  /\ \A t \in Active : tasks[t].key \notin DOMAIN entries

(* Renumbering gives ranks without gaps to entries that were touched at    *)
(* different times (cache.rs, last_access).                                *)
LEMMA RankedPlaced ==
  ASSUME NEW f, IsFiniteSet(DOMAIN f), \A k \in DOMAIN f : f[k] \in EntryRecord, Apart(f)
  PROVE  Placed(Ranked(f))
<1> DEFINE Upto(k) == {j \in DOMAIN f : f[j].touched <= f[k].touched}
<1>1. DOMAIN Ranked(f) = DOMAIN f
      /\ \A k \in DOMAIN f : Ranked(f)[k].touched = Cardinality(Upto(k))
  BY DEF Ranked
<1>2. \A k \in DOMAIN f : /\ k \in Upto(k) /\ Upto(k) \in SUBSET DOMAIN f
                          /\ f[k].touched \in Nat
  BY DEF EntryRecord
<1>3. \A k \in DOMAIN f : /\ IsFiniteSet(Upto(k)) /\ Cardinality(Upto(k)) \in Nat
                          /\ Cardinality(Upto(k)) <= Cardinality(DOMAIN f)
  <2> TAKE k \in DOMAIN f
  <2> HIDE DEF Upto
  <2> QED BY <1>2, FS_Subset, FS_CardinalityType
<1>4. \A k \in DOMAIN f : Cardinality(Upto(k)) # 0
  <2> TAKE k \in DOMAIN f
  <2> HIDE DEF Upto
  <2> QED BY <1>2, <1>3, FS_EmptySet
<1>5. ASSUME NEW j \in DOMAIN f, NEW k \in DOMAIN f, Cardinality(Upto(j)) = Cardinality(Upto(k)),
             f[j].touched <= f[k].touched
      PROVE  j = k
  <2>1. Upto(j) \in SUBSET Upto(k)
    BY <1>2, <1>5
  <2>2. Upto(j) = Upto(k)
    <3> HIDE DEF Upto
    <3> QED BY <1>3, <1>5, <2>1, FS_Subset
  <2>3. f[k].touched <= f[j].touched
    BY <1>2, <2>2
  <2>4. f[j].touched = f[k].touched
    BY <1>2, <1>5, <2>3
  <2> QED BY <2>4 DEF Apart
<1>6. Apart(Ranked(f))
  <2> SUFFICES ASSUME NEW j \in DOMAIN f, NEW k \in DOMAIN f,
                      Cardinality(Upto(j)) = Cardinality(Upto(k))
               PROVE  j = k
    <3> HIDE DEF Upto
    <3> QED BY <1>1 DEF Apart
  <2>1. f[j].touched <= f[k].touched \/ f[k].touched <= f[j].touched
    BY <1>2
  <2> HIDE DEF Upto
  <2> QED BY <1>5, <2>1
<1>7. \A k \in DOMAIN f : Cardinality(Upto(k)) \in 1..Cardinality(DOMAIN f)
  <2> TAKE k \in DOMAIN f
  <2>1. Cardinality(DOMAIN f) \in Nat
    BY FS_CardinalityType
  <2> HIDE DEF Upto
  <2> QED BY <1>3, <1>4, <2>1
<1> HIDE DEF Upto
<1> QED BY <1>1, <1>6, <1>7 DEF Placed

(* At most as many entries stay as are not among the n oldest (cache.rs,   *)
(* the eviction loop).                                                     *)
LEMMA OldestGo ==
  ASSUME Own, Placed(entries), NEW n \in 0..Cardinality(DOMAIN entries)
  PROVE  /\ Cardinality(DOMAIN entries) \in Nat
         /\ Cardinality(DOMAIN entries \ Oldest(n)) \in Nat
         /\ Cardinality(DOMAIN entries \ Oldest(n)) <= Cardinality(DOMAIN entries) - n
<1> DEFINE rest == DOMAIN entries \ Oldest(n)
           N    == Cardinality(DOMAIN entries)
           rank == [k \in rest |-> entries[k].touched]
<1>1. IsFiniteSet(rest) /\ Cardinality(rest) \in Nat /\ N \in Nat
  BY FS_Subset, FS_CardinalityType DEF Own
<1>2. \A k \in rest : rank[k] \in (n + 1)..N
  BY <1>1 DEF Oldest, Placed
<1>3. \A j, k \in rest : rank[j] = rank[k] => j = k
  BY DEF Placed, Apart
<1>4. rank \in Injection(rest, (n + 1)..N)
  BY <1>2, <1>3 DEF Injection, IsInjective
<1>5. IsFiniteSet((n + 1)..N) /\ Cardinality((n + 1)..N) = N - n
  <2>1. /\ IsFiniteSet((n + 1)..N)
        /\ Cardinality((n + 1)..N) = IF n + 1 > N THEN 0 ELSE N - (n + 1) + 1
    <3>1. n + 1 \in Int /\ N \in Int
      BY <1>1
    <3> HIDE DEF N
    <3> QED BY <3>1, FS_Interval
  <2>2. n \in 0..N
    OBVIOUS
  <2> HIDE DEF N
  <2> QED BY <1>1, <2>1, <2>2
<1>6. Cardinality(rest) <= Cardinality((n + 1)..N)
  <2> HIDE DEF rest, rank, N
  <2> QED BY <1>4, <1>5, FS_Injection
<1> QED BY <1>1, <1>5, <1>6

(* Evicting stops: dropping everything makes room, so there is a smallest  *)
(* number of the oldest entries that does (cache.rs, the eviction loop).   *)
LEMMA EvictedFits ==
  ASSUME Own, Placed(entries), NEW size
  PROVE  \E n \in 0..Cardinality(DOMAIN entries) : Fits(n, size) /\ Evicted(size) = Oldest(n)
<1> DEFINE N  == Cardinality(DOMAIN entries)
           Ns == {n \in 0..N : Fits(n, size)}
<1>1. N \in Nat
  BY FS_CardinalityType DEF Own
<1>2. N \in Ns
  <2>1. \A k \in DOMAIN entries : entries[k].touched <= N
    BY <1>1 DEF Placed
  <2>2. DOMAIN entries = Oldest(N)
    BY <2>1 DEF Oldest
  <2> QED BY <1>1, <2>2 DEF Fits
<1>3. PICK m \in Ns : \A n \in Ns : ~(<<n, m>> \in OpToRel(<, Nat))
  <2>1. Ns \in SUBSET Nat /\ Ns # {}
    BY <1>2
  <2> HIDE DEF Ns
  <2> QED BY <2>1, NatLessThanWellFounded, WFMin
<1>4. \A n \in Ns : m <= n
  <2> SUFFICES ASSUME NEW n \in Ns, n < m PROVE FALSE
    BY <1>1
  <2>1. n \in Nat /\ m \in Nat
    OBVIOUS
  <2>2. <<n, m>> \in OpToRel(<, Nat)
    BY <2>1 DEF OpToRel
  <2> HIDE DEF Ns
  <2> QED BY <1>3, <2>2
<1>5. Min(Ns) \in Ns
  <2> HIDE DEF Ns
  <2> QED BY <1>3, <1>4 DEF Min
<1> QED BY <1>5 DEF Evicted

(* A lookup recounts what it retains, which is never more than there was,  *)
(* and sends a task off only for what is not there (cache.rs, query).      *)
LEMMA LookupTight ==
  ASSUME IInv, Tight, NEW c \in Callers, Lookup(c)
  PROVE  Tight'
<1> DEFINE k    == callers[c].key
           K    == Retained(k.gen)
           kept == Restrict(entries, K)
           hit  == [kept EXCEPT ![k].touched = Now]
<1>1. /\ K \in SUBSET DOMAIN entries /\ DOMAIN entries \in SUBSET Keys
      /\ IsFiniteSet(DOMAIN entries) /\ IsFiniteSet(K)
  BY FS_Subset DEF Retained, IInv, Own
<1>2. /\ DOMAIN kept = K
      /\ \A j \in K : kept[j] \in EntryRecord /\ kept[j].touched = entries[j].touched
  BY <1>1 DEF Restrict, IInv, Own
<1>3. Now \in Nat /\ \A j \in DOMAIN entries : entries[j].touched < Now
  <2>1. Cardinality(DOMAIN entries) \in Nat
    BY <1>1, FS_CardinalityType
  <2> QED BY <2>1 DEF Now, Tight, Placed
<1>4. Apart(kept)
  <2> HIDE DEF kept, K
  <2> QED BY <1>1, <1>2 DEF Apart, Tight, Placed
<1>5. ASSUME k \in K
      PROVE  /\ DOMAIN hit = K /\ \A j \in K : hit[j] \in EntryRecord
             /\ Apart(hit)
  <2>1. DOMAIN hit = K /\ \A j \in K : hit[j] \in EntryRecord
    BY <1>2, <1>3 DEF EntryRecord
  <2>2. /\ hit[k].touched = Now
        /\ \A j \in K \ {k} : hit[j].touched = entries[j].touched
    <3> HIDE DEF K, k
    <3> QED BY <1>2, <1>5 DEF EntryRecord
  <2>3. \A j \in K : entries[j].touched # Now /\ entries[j].touched \in Nat
    BY <1>1, <1>3 DEF IInv, Own, EntryRecord
  <2> HIDE DEF hit, K, k
  <2> QED BY <1>1, <2>1, <2>2, <2>3 DEF Apart, Tight, Placed
<1>6. DOMAIN entries' = K /\ Placed(entries')
  <2>1. entries' = Ranked(kept) \/ (k \in K /\ entries' = Ranked(hit))
    BY DEF Lookup, Hit
  <2>2. DOMAIN Ranked(kept) = K /\ Placed(Ranked(kept))
    <3> HIDE DEF kept, K
    <3> QED BY <1>1, <1>2, <1>4, RankedKeeps, RankedPlaced
  <2>3. k \in K => DOMAIN Ranked(hit) = K /\ Placed(Ranked(hit))
    <3> HIDE DEF hit, K, k
    <3> QED BY <1>1, <1>5, RankedKeeps, RankedPlaced
  <2> HIDE DEF hit, kept, K, k
  <2> QED BY <2>1, <2>2, <2>3
<1>7. BytesExact'
  <2>1. bytes' = TotalSize(K)
    BY DEF Lookup
  <2>2. /\ TotalSize(K) <= bytes /\ bytes <= MaxBytes
        /\ TotalSize(K) \in Nat /\ bytes \in Nat
    <3>1. /\ TotalSize(DOMAIN entries) = TotalSize(K) + TotalSize(DOMAIN entries \ K)
          /\ TotalSize(DOMAIN entries) \in Nat /\ TotalSize(K) \in Nat
          /\ TotalSize(DOMAIN entries \ K) \in Nat
      <4> HIDE DEF K
      <4> QED BY <1>1, TotalMinus
    <3>2. bytes = TotalSize(DOMAIN entries) /\ bytes <= MaxBytes
      BY DEF Tight, BytesExact
    <3> HIDE DEF K
    <3> QED BY <3>1, <3>2
  <2>3. /\ Cardinality(K) <= Cardinality(DOMAIN entries)
        /\ Cardinality(K) \in Nat /\ Cardinality(DOMAIN entries) \in Nat
    <3> HIDE DEF K
    <3> QED BY <1>1, FS_Subset, FS_CardinalityType
  <2>4. Cardinality(K) <= Capacity
    <3>1. Cardinality(DOMAIN entries) <= Capacity
      BY DEF Tight, BytesExact
    <3> HIDE DEF K
    <3> QED BY <2>3, <3>1, CacheAssumption
  <2>5. TotalSize(K) <= MaxBytes
    <3> HIDE DEF K
    <3> QED BY <2>2, CacheAssumption
  <2> HIDE DEF K
  <2> QED BY <1>6, <2>1, <2>4, <2>5 DEF BytesExact
<1>8. \A t \in Active' : tasks'[t].key \notin K
  <2>1. CASE UNCHANGED <<flights, tasks>>
    BY <1>1, <2>1 DEF Tight, Active
  <2>2. ASSUME NEW t \in Tasks, Departs(t, k)
        PROVE  \A u \in Active' : tasks'[u].key \notin K
    <3>1. k \notin K
      BY <2>2 DEF Departs, Lookup, Hit
    <3>2. tasks'[t].key = k /\ \A u \in Tasks \ {t} : tasks'[u] = tasks[u]
      BY <2>2, IdleTypes DEF Departs, IInv, Typed, TaskRecord
    <3> HIDE DEF K, k
    <3> QED BY <1>1, <3>1, <3>2 DEF Tight, Active
  <2> QED BY <2>1, <2>2, LookupFlights DEF IInv
<1> HIDE DEF K
<1> QED BY <1>6, <1>7, <1>8 DEF Tight

(* An insert first makes room, in number and in bytes, and replaces        *)
(* nothing (cache.rs, insert_cache).                                       *)
LEMMA StoreTight ==
  ASSUME IInv, Tight, NEW t \in Tasks, Store(t)
  PROVE  Tight'
<1> DEFINE k    == tasks[t].key
           gone == Evicted(Size[k.req])
           kept == DOMAIN entries \ gone
           K    == kept \cup {k}
           new  == [by |-> tasks[t].by, fresh |-> TRUE, touched |-> Now]
           f    == [j \in K |-> IF j = k THEN new ELSE entries[j]]
<1>1. /\ DOMAIN entries \in SUBSET Keys /\ IsFiniteSet(DOMAIN entries)
      /\ k \in Keys /\ k \notin DOMAIN entries /\ t \in Active
  BY DEF IInv, Own, Typed, TaskRecord, Tight, Active, Store
<1>2. \A u \in Active' : u \in Active /\ tasks'[u].key = tasks[u].key /\ tasks[u].key # k
  <2>1. /\ tasks'[t] = IdleTask /\ IdleTask.pc = "idle"
        /\ \A u \in Tasks \ {t} : tasks'[u] = tasks[u]
    BY IdleTypes DEF Store, IdleTask, IInv, Typed
  <2> QED BY <1>1, <2>1 DEF IInv, Flown, Active
<1>3. CASE ~Cacheable(t)
  <2>1. UNCHANGED <<entries, bytes>>
    BY <1>3 DEF Store
  <2> QED BY <1>2, <2>1 DEF Tight, Placed, Apart, BytesExact
<1>4. CASE Cacheable(t)
  <2>1. /\ entries' = Ranked(f)
        /\ bytes' = bytes - TotalSize(gone) + Size[k.req]
        /\ Capacity > 0 /\ Size[k.req] <= MaxBytes
    BY <1>4 DEF Store, Insert, Cacheable
  <2>2. PICK n \in 0..Cardinality(DOMAIN entries) : Fits(n, Size[k.req]) /\ gone = Oldest(n)
    BY EvictedFits DEF IInv, Tight
  <2>3. /\ gone \in SUBSET DOMAIN entries /\ kept \in SUBSET DOMAIN entries
        /\ k \notin kept
    BY <1>1, <2>2 DEF Oldest
  <2>4. IsFiniteSet(kept) /\ IsFiniteSet(gone) /\ IsFiniteSet(K) /\ K \in SUBSET Keys
    <3>1. IsFiniteSet(kept) /\ IsFiniteSet(gone)
      <4> HIDE DEF kept, gone
      <4> QED BY <1>1, <2>3, FS_Subset
    <3>2. IsFiniteSet(K)
      <4> HIDE DEF kept
      <4> QED BY <3>1, FS_AddElement
    <3> QED BY <1>1, <3>1, <3>2
  <2>5. Now \in Nat /\ \A j \in DOMAIN entries : entries[j].touched < Now
    <3>1. Cardinality(DOMAIN entries) \in Nat
      BY <1>1, FS_CardinalityType
    <3> QED BY <3>1 DEF Now, Tight, Placed
  <2>6. /\ DOMAIN f = K /\ \A j \in K : f[j] \in EntryRecord
        /\ f[k].touched = Now /\ \A j \in kept : f[j] = entries[j]
    <3>1. new \in EntryRecord /\ new.touched = Now
      BY <2>5 DEF EntryRecord, IInv, Typed, TaskRecord
    <3> HIDE DEF new, gone
    <3> QED BY <1>1, <3>1 DEF IInv, Own
  <2>7. Apart(f)
    <3>1. \A j \in kept : /\ f[j].touched = entries[j].touched /\ f[j].touched # Now
                          /\ j \in DOMAIN entries
      BY <2>3, <2>5, <2>6 DEF IInv, Own, EntryRecord
    <3>2. \A i, j \in kept : f[i].touched = f[j].touched => i = j
      BY <3>1 DEF Tight, Placed, Apart
    <3> HIDE DEF f, kept, k
    <3> QED BY <2>6, <3>1, <3>2 DEF Apart
  <2>8. DOMAIN entries' = K /\ Placed(entries')
    <3> HIDE DEF f, K
    <3> QED BY <2>1, <2>4, <2>6, <2>7, RankedKeeps, RankedPlaced
  <2>9. PICK kb \in Nat, gb \in Nat, size \in Nat :
          /\ kb = TotalSize(kept) /\ gb = TotalSize(gone) /\ size = Size[k.req]
          /\ bytes = gb + kb
    <3>1. DOMAIN entries \ gone = kept
      OBVIOUS
    <3>2. /\ TotalSize(DOMAIN entries) = TotalSize(gone) + TotalSize(kept)
          /\ TotalSize(gone) \in Nat /\ TotalSize(kept) \in Nat
      <4> HIDE DEF gone, kept
      <4> QED BY <1>1, <2>3, <3>1, TotalMinus
    <3>3. Size[k.req] \in Nat
      BY <1>1, CacheAssumption DEF Keys
    <3> HIDE DEF gone, kept, k
    <3> QED BY <3>2, <3>3 DEF Tight, BytesExact
  <2>10. TotalSize(K) = size + kb /\ bytes' = kb + size
    <3>1. K \ {k} = kept /\ k \in K
      BY <2>3
    <3>2. TotalSize(K) = Size[k.req] + TotalSize(K \ {k})
      <4> HIDE DEF K
      <4> QED BY <2>4, <3>1, TotalTake
    <3>3. bytes' = bytes - gb + size
      BY <2>1, <2>9
    <3>4. TotalSize(K) = size + kb
      <4> HIDE DEF K, kept, k
      <4> QED BY <2>9, <3>1, <3>2
    <3> HIDE DEF K, kept, gone, k
    <3> QED BY <2>9, <3>3, <3>4
  <2>11. PICK kn \in Nat, N \in Nat :
           /\ kn = Cardinality(kept) /\ N = Cardinality(DOMAIN entries)
           /\ Cardinality(K) = kn + 1 /\ kn <= N - n
    <3>1. Cardinality(kept) \in Nat /\ Cardinality(DOMAIN entries) \in Nat
      <4> HIDE DEF kept
      <4> QED BY <1>1, <2>4, FS_CardinalityType
    <3>2. Cardinality(K) = Cardinality(kept) + 1
      <4> HIDE DEF kept
      <4> QED BY <2>3, <2>4, FS_AddElement
    <3>3. Cardinality(kept) <= Cardinality(DOMAIN entries) - n
      BY <2>2, OldestGo DEF IInv, Tight
    <3> HIDE DEF kept, K
    <3> QED BY <3>1, <3>2, <3>3
  <2>12. kb + size <= MaxBytes /\ kn + 1 <= Capacity
    <3>1. CASE DOMAIN entries = Oldest(n)
      <4>1. kept = {}
        BY <2>2, <3>1
      <4>2. kb = 0 /\ kn = 0
        <5> HIDE DEF kept
        <5> QED BY <2>9, <2>11, <4>1, TotalEmpty, FS_EmptySet
      <4>3. size <= MaxBytes /\ Capacity > 0
        BY <2>1, <2>9
      <4> QED BY <4>2, <4>3, CacheAssumption
    <3>2. CASE DOMAIN entries # Oldest(n)
      <4>1. N - n < Capacity /\ bytes - gb + size <= MaxBytes
        BY <2>2, <2>9, <2>11, <3>2 DEF Fits
      <4> QED BY <2>9, <2>11, <4>1, CacheAssumption
    <3> QED BY <3>1, <3>2
  <2>13. BytesExact'
    <3> HIDE DEF K
    <3> QED BY <2>8, <2>10, <2>11, <2>12 DEF BytesExact
  <2>14. \A u \in Active' : tasks'[u].key \notin K
    BY <1>2, <2>3 DEF Tight
  <2> HIDE DEF K
  <2> QED BY <2>8, <2>13, <2>14 DEF Tight
<1> QED BY <1>3, <1>4

(* No other step touches what is cached, or more than its age.             *)
LEMMA OthersTight ==
  ASSUME IInv, Tight,
         \/ \E c \in Callers : (\E r \in Requests : Ask(c, r)) \/ ReadGeneration(c) \/ Wake(c)
                                \/ Return(c) \/ Leave(c)
         \/ \E t \in Tasks, r \in Results : Fetch(t, r)
         \/ \E k \in DOMAIN entries : Expire(k)
         \/ SessionMoves \/ UNCHANGED vars
  PROVE  Tight'
<1>1. bytes' = bytes
  BY DEF Ask, ReadGeneration, Wake, Return, Leave, Fetch, Expire, SessionMoves, vars, Stored
<1>2. \A u \in Active' : u \in Active /\ tasks'[u].key = tasks[u].key
  <2>1. CASE UNCHANGED tasks
    BY <2>1 DEF Active
  <2>2. ASSUME NEW t \in Tasks, NEW r \in Results, Fetch(t, r)
        PROVE  \A u \in Active' : u \in Active /\ tasks'[u].key = tasks[u].key
    <3>1. /\ t \in Active /\ tasks'[t].key = tasks[t].key
          /\ \A u \in Tasks \ {t} : tasks'[u] = tasks[u]
      BY <2>2 DEF Fetch, Active, IInv, Typed, TaskRecord
    <3> QED BY <3>1 DEF Active
  <2> QED
    BY <2>1, <2>2 DEF Ask, ReadGeneration, Wake, Return, Leave, Expire, SessionMoves, vars, Stored
<1>3. DOMAIN entries' = DOMAIN entries /\ Placed(entries')
  <2>1. CASE UNCHANGED entries
    BY <2>1 DEF Tight
  <2>2. ASSUME NEW k \in DOMAIN entries, Expire(k)
        PROVE  DOMAIN entries' = DOMAIN entries /\ Placed(entries')
    <3>1. /\ DOMAIN entries' = DOMAIN entries
          /\ \A j \in DOMAIN entries : entries'[j].touched = entries[j].touched
      BY <2>2 DEF Expire, IInv, Own, EntryRecord
    <3> QED BY <3>1 DEF Tight, Placed, Apart
  <2> QED
    BY <2>1, <2>2 DEF Ask, ReadGeneration, Wake, Return, Leave, Fetch, SessionMoves, vars, Stored
<1> QED BY <1>1, <1>2, <1>3 DEF Tight, BytesExact

(* A fetch moves the session as a refused call does, and nothing else of   *)
(* the cache touches it (cache.rs holds the client behind a shared         *)
(* reference).                                                             *)
LEMMA SessionStep ==
  ASSUME [Next]_vars
  PROVE  [NextLifecycle]_lifecycle
BY DEF Next, Ask, CallerStep, ReadGeneration, Lookup, Wake, Return, Leave, TaskStep, Fetch, Store,
   Expire, SessionMoves, NextLifecycle, vars, lifecycle

(* The session's own variables keep their types (SessionLifecycle).        *)
LEMMA LifecycleStep ==
  ASSUME LifecycleTypeOK, [Next]_vars
  PROVE  LifecycleTypeOK'
BY SessionStep, MaxGenAssumption DEF LifecycleTypeOK, NextLifecycle, Refuse, Install, Rediscover,
   lifecycle, Blocks, Refusals, NoCred

(* What is proved of the whole state.                                      *)
LEMMA LimitsInvariance == Spec => [](IInv /\ Tight /\ LifecycleTypeOK)
<1>1. Init => IInv /\ Tight /\ LifecycleTypeOK
  <2> SUFFICES ASSUME Init PROVE IInv /\ Tight /\ LifecycleTypeOK
    OBVIOUS
  <2>1. DOMAIN entries = {} /\ bytes = 0
    BY DEF Init
  <2>2. BytesExact
    BY <2>1, TotalEmpty, FS_EmptySet, CacheAssumption DEF BytesExact
  <2>3. Tight
    BY <2>1, <2>2 DEF Tight, Placed, Apart
  <2>4. LifecycleTypeOK
    BY MaxGenAssumption DEF Init, InitLifecycle, LifecycleTypeOK, Blocks, NoCred
  <2> QED BY <2>3, <2>4, InitInv
<1>2. IInv /\ Tight /\ LifecycleTypeOK /\ [Next]_vars => (IInv /\ Tight /\ LifecycleTypeOK)'
  <2> SUFFICES ASSUME IInv, Tight, LifecycleTypeOK, [Next]_vars
               PROVE  IInv' /\ Tight' /\ LifecycleTypeOK'
    OBVIOUS
  <2>1. IInv'
    BY CallerInv, TaskInv, OthersInv DEF Next
  <2>2. Tight'
    BY LookupTight, StoreTight, OthersTight DEF Next, CallerStep, TaskStep
  <2> QED BY <2>1, <2>2, LifecycleStep
<1> QED BY <1>1, <1>2, PTL DEF Spec

(* The byte count, kept by additions, subtractions and recounts, is always *)
(* the size of what is cached, and neither limit is passed (cache.rs,      *)
(* insert_cache and retain).                                               *)
THEOREM BytesExactAlways == Spec => []BytesExact
<1>1. IInv /\ Tight /\ LifecycleTypeOK => BytesExact
  BY DEF Tight
<1> QED BY <1>1, LimitsInvariance, PTL

(* Every variable keeps its type; in particular the ranks of the entries   *)
(* run from 1 to their number.                                             *)
THEOREM CacheTypes == Spec => []TypeOK
<1>1. IInv /\ Tight /\ LifecycleTypeOK => TypeOK
  <2> SUFFICES ASSUME IInv, Tight, LifecycleTypeOK PROVE TypeOK
    OBVIOUS
  <2>1. bytes \in Nat
    BY TotalNat DEF IInv, Own, Tight, BytesExact
  <2>2. flights \subseteq Keys
    BY DEF IInv, Flown, Typed, TaskRecord, Active
  <2>3. entries \in [DOMAIN entries -> [by : 1..MaxGen, fresh : BOOLEAN,
                                       touched : 1..Cardinality(DOMAIN entries)]]
    <3>1. \A k \in DOMAIN entries :
            /\ entries[k] \in EntryRecord
            /\ entries[k].touched \in 1..Cardinality(DOMAIN entries)
      BY DEF IInv, Own, Tight, Placed
    <3>2. \A k \in DOMAIN entries :
            entries[k] \in [by : 1..MaxGen, fresh : BOOLEAN,
                           touched : 1..Cardinality(DOMAIN entries)]
      BY <3>1 DEF EntryRecord
    <3> QED BY <3>2 DEF IInv, Own
  <2> QED BY <2>1, <2>2, <2>3 DEF TypeOK, IInv, Own, Typed
<1> QED BY <1>1, LimitsInvariance, PTL

(* Beneath the cache is a session as the client promises it (cache.rs,     *)
(* query): what is proved here is about sessions that GameClient has       *)
(* (ClientImplements).                                                     *)
THEOREM CacheKeepsToTheLifecycle == Spec => SpecLifecycle
BY SessionStep, PTL DEF Spec, Init, SpecLifecycle

(***************************************************************************)
(* The waiters.  What AnswerComes rests on: who waits, waits for a flight  *)
(* that is under way, so the task that lands it finds and wakes them.      *)
(***************************************************************************)
Awaited == \A c \in Callers : callers[c].pc = "wait" => callers[c].flight \in flights

(* A caller that does not come to wait leaves the others where they are.   *)
LEMMA SetAwaited ==
  ASSUME Typed, Awaited, NEW c \in Callers, NEW x, Set(c, x), flights \subseteq flights',
         x.pc = "wait" => x.flight \in flights'
  PROVE  Awaited'
BY DEF Awaited, Set, Typed

(* A lookup waits for the flight that it found or started, under the lock  *)
(* that every flight lands under (cache.rs, query).                        *)
LEMMA LookupAwaited ==
  ASSUME Typed, Flown, Awaited, NEW c \in Callers, Lookup(c)
  PROVE  Awaited'
<1> DEFINE s == callers[c]
           k == s.key
           waits(f) == [s EXCEPT !.pc = "wait", !.flight = f]
           hit == [s EXCEPT !.pc = "checked", !.res = "ok", !.by = entries[k].by]
<1>1. /\ s \in CallerRecord /\ IdleCaller.pc = "idle" /\ hit.pc = "checked"
      /\ \A f : waits(f).pc = "wait" /\ waits(f).flight = f
  BY DEF Typed, CallerRecord, IdleCaller
<1>2. CASE k \in Retained(k.gen)
  <2>1. flights' = flights /\ (Set(c, hit) \/ Set(c, IdleCaller))
    BY <1>2 DEF Lookup, Hit
  <2> HIDE DEF hit
  <2> QED BY <1>1, <2>1, SetAwaited
<1>3. CASE k \notin Retained(k.gen) /\ k \in flights
  <2>1. PICK t \in Tasks : /\ Joins(k, t) /\ flights' = flights
                           /\ Set(c, waits(tasks[t].key))
    BY <1>3 DEF Lookup, Coalesce
  <2>2. tasks[t].key \in flights
    BY <2>1, <1>3 DEF Joins
  <2> HIDE DEF waits
  <2> QED BY <1>1, <2>1, <2>2, SetAwaited
<1>4. CASE k \notin Retained(k.gen) /\ k \notin flights
  <2>1. \/ flights' = flights /\ Set(c, IdleCaller)
        \/ flights' = flights \cup {k} /\ Set(c, waits(k))
    BY <1>4 DEF Lookup, QueueFull, Spawn
  <2> HIDE DEF waits
  <2> QED BY <1>1, <2>1, SetAwaited
<1> QED BY <1>2, <1>3, <1>4

(* A flight that lands wakes everybody who waits for it (cache.rs, the     *)
(* watch channel of a flight).                                             *)
LEMMA StoreAwaited ==
  ASSUME Typed, Awaited, NEW t \in Tasks, Store(t)
  PROVE  Awaited'
<1> SUFFICES ASSUME NEW c \in Callers, callers'[c].pc = "wait"
             PROVE  callers'[c].flight \in flights'
  BY DEF Awaited
<1>1. c \notin Waiters(t)
  <2>1. CASE c \in Waiters(t)
    <3>1. callers'[c] = [callers[c] EXCEPT !.pc = "woken", !.res = Result(t), !.by = tasks[t].by]
      BY <2>1 DEF Store
    <3> QED BY <3>1 DEF Typed, CallerRecord
  <2> QED BY <2>1
<1>2. callers'[c] = callers[c]
  BY <1>1 DEF Store
<1>3. callers[c].flight # tasks[t].key
  BY <1>1, <1>2 DEF Waiters
<1>4. callers[c].flight \in flights
  BY <1>2 DEF Awaited
<1>5. flights' = flights \ {tasks[t].key}
  BY DEF Store, Landed
<1> QED BY <1>2, <1>3, <1>4, <1>5

(* For every caller that waits there is a task at work that it will be     *)
(* woken by.                                                               *)
NobodyForgotten ==
  \A c \in Callers : callers[c].pc = "wait" =>
    \E t \in Active : c \in Waiters(t)

(* No caller is left waiting for a flight that nobody flies, though those  *)
(* who started it may have left, others may have joined in between, and    *)
(* the session may have been replaced (cache.rs, query).                   *)
THEOREM NobodyIsForgotten == Spec => []NobodyForgotten
<1>1. Init => Awaited
  BY DEF Init, Awaited, IdleCaller
<1>2. ASSUME IInv, Awaited, [Next]_vars PROVE Awaited'
  <2> USE <1>2 DEF IInv
  <2>1. ASSUME NEW c \in Callers, NEW r \in Requests, Ask(c, r) PROVE Awaited'
    <3>1. [IdleCaller EXCEPT !.pc = "asked", !.key.req = r].pc = "asked"
      BY DEF IdleCaller
    <3> QED BY <2>1, <3>1, SetAwaited DEF Ask, Stored
  <2>2. ASSUME NEW c \in Callers, CallerStep(c) \/ Leave(c) PROVE Awaited'
    <3>1. CASE ReadGeneration(c)
      <4>1. [callers[c] EXCEPT !.pc = "keyed", !.key.gen = gen].pc = "keyed"
        BY DEF Typed, CallerRecord
      <4> QED BY <3>1, <4>1, SetAwaited DEF ReadGeneration, Stored
    <3>2. CASE Lookup(c)
      BY <3>2, LookupAwaited
    <3>3. CASE Wake(c) \/ Return(c) \/ Leave(c)
      <4>1. /\ [callers[c] EXCEPT !.pc = "checked"].pc = "checked" /\ IdleCaller.pc = "idle"
            /\ [IdleCaller EXCEPT !.pc = "served"].pc = "served"
        BY DEF Typed, CallerRecord, IdleCaller
      <4>2. /\ flights' = flights
            /\ \/ Set(c, [callers[c] EXCEPT !.pc = "checked"]) \/ Set(c, IdleCaller)
               \/ Set(c, [IdleCaller EXCEPT !.pc = "served"])
        BY <3>3 DEF Wake, Return, Leave, Stored
      <4> QED BY <4>1, <4>2, SetAwaited
    <3> QED BY <2>2, <3>1, <3>2, <3>3 DEF CallerStep
  <2>3. ASSUME NEW t \in Tasks, TaskStep(t) PROVE Awaited'
    <3>1. CASE Store(t)
      BY <3>1, StoreAwaited
    <3>2. CASE \E r \in Results : Fetch(t, r)
      BY <3>2 DEF Fetch, Awaited
    <3> QED BY <2>3, <3>1, <3>2 DEF TaskStep
  <2>4. CASE (\E k \in DOMAIN entries : Expire(k)) \/ SessionMoves \/ UNCHANGED vars
    BY <2>4 DEF Expire, SessionMoves, Stored, vars, Awaited
  <2> QED BY <1>2, <2>1, <2>2, <2>3, <2>4 DEF Next
<1>3. IInv /\ Awaited => NobodyForgotten
  BY DEF IInv, Flown, Awaited, NobodyForgotten, Active, Waiters
<1> QED BY <1>1, <1>2, <1>3, CacheInvariance, PTL DEF Spec
=============================================================================

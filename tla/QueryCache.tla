----------------------------- MODULE QueryCache -----------------------------
(***************************************************************************)
(* The server's response cache over one session (SessionLifecycle).  A     *)
(* caller asks for a request; the cache answers from an entry, joins the   *)
(* flight that already fetches it, or starts a flight, a spawned task that *)
(* outlives its caller.  A critical section of the cache's lock is one     *)
(* action; between two of them, and between two looks at the client, the   *)
(* session may be blocked or replaced.                                     *)
(*                                                                         *)
(* Of the time stamp of an entry's last touch only the rank among the      *)
(* entries is kept; a response is known by its request and the generation  *)
(* that fetched it.  The stop token is left out: it only turns a wait or a *)
(* fetch into an error, as Leave and a failed Fetch do.                    *)
(***************************************************************************)
EXTENDS SessionLifecycle, FiniteSets, FiniteSetsExt

CONSTANTS
  Callers, Tasks,  \* callers of query(), and the tasks it may spawn
  Requests,        \* a method with its encoded request
  Anonymous,       \* the requests whose method is anonymous
  Size,            \* the size of each request's response
  Capacity, MaxBytes, MaxInflight  \* CacheOptions; a zero ttl acts as Capacity 0

ASSUME CacheAssumption ==
  /\ Requests # {} /\ Anonymous \subseteq Requests
  /\ Size \in [Requests -> Nat]
  /\ Capacity \in Nat /\ MaxBytes \in Nat /\ MaxInflight \in Nat
  /\ IsFiniteSet(Tasks) /\ Cardinality(Tasks) >= MaxInflight

VARIABLES
  entries,  \* State::cache; touched is 1 for the key least recently touched
  bytes,    \* State::bytes
  flights,  \* State::flights, its keys
  tasks,    \* the spawned fetches
  callers

vars == <<lifecycle, entries, bytes, flights, tasks, callers>>

Keys      == [gen : 1..MaxGen, req : Requests]
SomeKey   == [gen |-> 1, req |-> CHOOSE r \in Requests : TRUE]
Results   == {"ok", "failed", "changed"}  \* "changed" is ErrorKind::SessionChanged

(* by: the generation that fetched the answer; flight: the key of the one waited for. *)
IdleTask   == [pc |-> "idle", key |-> SomeKey, res |-> "ok", by |-> 1]
IdleCaller == [pc |-> "idle", key |-> SomeKey, flight |-> SomeKey, res |-> "ok", by |-> 1]

TaskRecord   == [pc : {"idle", "run", "fetched"}, key : Keys, res : Results, by : 1..MaxGen]
CallerRecord == [pc : {"idle", "asked", "keyed", "wait", "woken", "checked", "served"},
                 key : Keys, flight : Keys, res : Results, by : 1..MaxGen]

TypeOK ==
  /\ LifecycleTypeOK
  /\ DOMAIN entries \subseteq Keys
  /\ entries \in [DOMAIN entries -> [by : 1..MaxGen, fresh : BOOLEAN,
                                     touched : 1..Cardinality(DOMAIN entries)]]
  /\ bytes \in Nat
  /\ flights \subseteq Keys
  /\ tasks \in [Tasks -> TaskRecord]
  /\ callers \in [Callers -> CallerRecord]

Init ==
  /\ InitLifecycle
  /\ entries = [k \in {} |-> 0] /\ bytes = 0 /\ flights = {}
  /\ tasks = [t \in Tasks |-> IdleTask]
  /\ callers = [c \in Callers |-> IdleCaller]

IsAnonymous(k) == k.req \in Anonymous
MayUse(k)      == QueryError(IsAnonymous(k)) = "none"
Set(c, r)      == callers' = [callers EXCEPT ![c] = r]
Stored         == <<entries, bytes, flights, tasks>>

(***************************************************************************)
(* Before the lock: query_error, then generation.  The two actions after   *)
(* "keyed" give up by going back to idle.                                  *)
(***************************************************************************)
Ask(c, r) ==
  /\ callers[c].pc = "idle"
  /\ QueryError(r \in Anonymous) = "none"
  /\ Set(c, [IdleCaller EXCEPT !.pc = "asked", !.key.req = r])
  /\ UNCHANGED <<lifecycle, Stored>>

ReadGeneration(c) ==
  /\ callers[c].pc = "asked"
  /\ Set(c, [callers[c] EXCEPT !.pc = "keyed", !.key.gen = gen])
  /\ UNCHANGED <<lifecycle, Stored>>

(***************************************************************************)
(* Under the lock.  Every lookup first drops what is stale or of another   *)
(* generation than the caller's.  In this module a definition placed right *)
(* before Joins, Fits, Waiters, Landed or StillCurrent is a slip in that   *)
(* one, which the runs catch.                                              *)
(***************************************************************************)
TotalSize(K) == MapThenSumSet(LAMBDA k : Size[k.req], K)

Retained(g) == {k \in DOMAIN entries : k.gen = g /\ entries[k].fresh}

(* Ranks are renumbered from 1 when entries go or are touched; what is    *)
(* touched now comes after all others.                                     *)
Ranked(f) ==
  [k \in DOMAIN f |-> [by |-> f[k].by, fresh |-> f[k].fresh,
                       touched |-> Cardinality({j \in DOMAIN f : f[j].touched <= f[k].touched})]]
Now == Cardinality(DOMAIN entries) + 1

Hit(c) ==
  LET k    == callers[c].key
      kept == Restrict(entries, Retained(k.gen))
  IN /\ entries' = Ranked(IF MayUse(k) THEN [kept EXCEPT ![k].touched = Now] ELSE kept)
     /\ Set(c, IF MayUse(k)
               THEN [callers[c] EXCEPT !.pc = "checked", !.res = "ok", !.by = entries[k].by]
               ELSE IdleCaller)
     /\ UNCHANGED <<flights, tasks>>

JoinsAnyGeneration(k, t) == tasks[t].pc # "idle" /\ tasks[t].key.req = k.req
Joins(k, t) == tasks[t].pc # "idle" /\ tasks[t].key = k

Coalesce(c) ==
  \E t \in Tasks :
    /\ Joins(callers[c].key, t)
    /\ Set(c, [callers[c] EXCEPT !.pc = "wait", !.flight = tasks[t].key])
    /\ UNCHANGED <<flights, tasks>>

QueueFull(c) ==
  /\ Cardinality(flights) >= MaxInflight
  /\ Set(c, IdleCaller)
  /\ UNCHANGED <<flights, tasks>>

Spawn(c) ==
  /\ Cardinality(flights) < MaxInflight
  /\ \E t \in Tasks :
       /\ tasks[t].pc = "idle"
       /\ tasks' = [tasks EXCEPT ![t] = [IdleTask EXCEPT !.pc = "run", !.key = callers[c].key]]
  /\ flights' = flights \cup {callers[c].key}
  /\ Set(c, [callers[c] EXCEPT !.pc = "wait", !.flight = callers[c].key])

Lookup(c) ==
  LET k == callers[c].key IN
  /\ callers[c].pc = "keyed"
  /\ bytes' = TotalSize(Retained(k.gen))
  /\ IF k \in Retained(k.gen)
     THEN Hit(c)
     ELSE /\ entries' = Ranked(Restrict(entries, Retained(k.gen)))
          /\ IF k \in flights THEN Coalesce(c) ELSE QueueFull(c) \/ Spawn(c)
  /\ UNCHANGED lifecycle

(***************************************************************************)
(* The flight.  execute() answers on the session of its generation, or     *)
(* fails, perhaps because the game refuses; then the task takes the lock.  *)
(***************************************************************************)
Fetch(t, r) ==
  LET k == tasks[t].key IN
  /\ tasks[t].pc = "run"
  /\ tasks' = [tasks EXCEPT ![t].pc = "fetched", ![t].res = r, ![t].by = gen]
  /\ \/ r = "changed" /\ gen # k.gen /\ UNCHANGED lifecycle
     \/ r = "failed" /\ gen = k.gen /\ UNCHANGED lifecycle
     \/ r = "failed" /\ gen = k.gen /\ ~IsAnonymous(k) /\ MayUse(k) /\ \E e \in Refusals : Refuse(e)
     \/ r = "ok" /\ gen = k.gen /\ MayUse(k) /\ UNCHANGED lifecycle
  /\ UNCHANGED <<entries, bytes, flights, callers>>

Result(t) == IF gen # tasks[t].key.gen THEN "changed" ELSE tasks[t].res

Cacheable(t) ==
  /\ Result(t) = "ok"
  /\ MayUse(tasks[t].key)
  /\ Capacity > 0
  /\ Size[tasks[t].key.req] <= MaxBytes

(* Room is made from the oldest end: as few entries as leave a free place  *)
(* and enough bytes are dropped.                                           *)
Oldest(n) == {k \in DOMAIN entries : entries[k].touched <= n}

EvictsForCapacityOnly(n, size) == DOMAIN entries = Oldest(n) \/ Cardinality(DOMAIN entries) - n < Capacity
Fits(n, size) ==
  \/ DOMAIN entries = Oldest(n)
  \/ /\ Cardinality(DOMAIN entries) - n < Capacity
     /\ bytes - TotalSize(Oldest(n)) + size <= MaxBytes

Evicted(size) == Oldest(Min({n \in 0..Cardinality(DOMAIN entries) : Fits(n, size)}))

Insert(t) ==
  LET k    == tasks[t].key
      gone == Evicted(Size[k.req])
  IN /\ entries' = Ranked([j \in (DOMAIN entries \ gone) \cup {k} |->
                            IF j = k THEN [by |-> tasks[t].by, fresh |-> TRUE, touched |-> Now]
                            ELSE entries[j]])
     /\ bytes' = bytes - TotalSize(gone) + Size[k.req]

FirstWaiterOnly(t) ==
  LET W == {c \in Callers : callers[c].pc = "wait" /\ callers[c].flight = tasks[t].key}
  IN {c \in W : c = CHOOSE d \in W : TRUE}
Waiters(t) == {c \in Callers : callers[c].pc = "wait" /\ callers[c].flight = tasks[t].key}

LandedIfServed(t) == IF Waiters(t) = {} THEN {} ELSE {tasks[t].key}
Landed(t) == {tasks[t].key}

Store(t) ==
  /\ tasks[t].pc = "fetched"
  /\ IF Cacheable(t) THEN Insert(t) ELSE UNCHANGED <<entries, bytes>>
  /\ callers' = [c \in Callers |->
       IF c \in Waiters(t)
       THEN [callers[c] EXCEPT !.pc = "woken", !.res = Result(t), !.by = tasks[t].by]
       ELSE callers[c]]
  /\ flights' = flights \ Landed(t)
  /\ tasks' = [tasks EXCEPT ![t] = IdleTask]
  /\ UNCHANGED lifecycle

(***************************************************************************)
(* After the flight: query_error, then generation, then the answer.        *)
(***************************************************************************)
Wake(c) ==
  /\ callers[c].pc = "woken"
  /\ Set(c, IF MayUse(callers[c].key) THEN [callers[c] EXCEPT !.pc = "checked"] ELSE IdleCaller)
  /\ UNCHANGED <<lifecycle, Stored>>

AlwaysCurrent(c) == TRUE
StillCurrent(c)  == callers[c].key.gen = gen

Return(c) ==
  /\ callers[c].pc = "checked"
  /\ Set(c, IF StillCurrent(c) /\ callers[c].res = "ok"
            THEN [IdleCaller EXCEPT !.pc = "served"] ELSE IdleCaller)
  /\ UNCHANGED <<lifecycle, Stored>>

Leave(c) ==  \* the caller is done with its answer, or drops the call before it has one
  /\ callers[c].pc # "idle"
  /\ Set(c, IdleCaller)
  /\ UNCHANGED <<lifecycle, Stored>>

Expire(k) ==
  /\ k \in DOMAIN entries /\ entries[k].fresh
  /\ entries' = [entries EXCEPT ![k].fresh = FALSE]
  /\ UNCHANGED <<lifecycle, bytes, flights, tasks, callers>>

(* Login, reload, version discovery, and refusals of calls made elsewhere. *)
SessionMoves ==
  /\ NextLifecycle
  /\ UNCHANGED <<Stored, callers>>

TaskStep(t)   == (\E r \in Results : Fetch(t, r)) \/ Store(t)
CallerStep(c) == ReadGeneration(c) \/ Lookup(c) \/ Wake(c) \/ Return(c)

Next ==
  \/ \E c \in Callers : (\E r \in Requests : Ask(c, r)) \/ CallerStep(c) \/ Leave(c)
  \/ \E t \in Tasks : TaskStep(t)
  \/ \E k \in DOMAIN entries : Expire(k)
  \/ SessionMoves

Spec == Init /\ [][Next]_vars

(* The runtime polls every caller and task that can go on, and execute()   *)
(* has a timeout; nobody is forced to ask or to leave.                     *)
LiveSpec ==
  Spec /\ (\A c \in Callers : WF_vars(CallerStep(c))) /\ (\A t \in Tasks : WF_vars(TaskStep(t)))

(***************************************************************************)
(* Properties                                                              *)
(***************************************************************************)

(* cache.rs keeps bytes by additions, subtractions and a recount: it is    *)
(* always the size of what is cached, and neither limit is ever passed.    *)
(* The insert adds without subtracting what it replaces, so this rests on  *)
(* there never being two flights of one key.                               *)
BytesExact ==
  /\ bytes = TotalSize(DOMAIN entries)
  /\ bytes <= MaxBytes
  /\ Cardinality(DOMAIN entries) <= Capacity

(* No key is fetched twice at a time, and a place among the max_inflight   *)
(* flights is taken exactly while its task runs, whoever gives up waiting. *)
SingleFlight ==
  /\ flights = {tasks[t].key : t \in {u \in Tasks : tasks[u].pc # "idle"}}
  /\ \A t, u \in Tasks : tasks[t].pc # "idle" /\ tasks[u].pc # "idle" /\ tasks[t].key = tasks[u].key
                           => t = u
  /\ Cardinality(flights) <= MaxInflight

(* An answer is handed out only while the session that fetched it is still *)
(* the current one, and it is the answer to the caller's own request       *)
(* (docs/accounts.md: stale results cannot cross the session boundary).    *)
ServedIsolated ==
  [][\A c \in Callers : callers[c].pc # "served" /\ callers'[c].pc = "served"
       => callers[c].by = gen /\ callers[c].key.gen = gen]_vars

(* A caller is told that the session changed only if its own did: nobody   *)
(* inherits the failure of a flight of another session.                    *)
ChangedIsOwn ==
  \A c \in Callers : callers[c].pc = "woken" /\ callers[c].res = "changed"
    => callers[c].key.gen # gen

(* Every caller is answered, turned away or gone: no flight is forgotten,  *)
(* not even one joined by many or started by a caller that left.           *)
AnswerComes ==
  \A c \in Callers : callers[c].pc = "wait" ~> callers[c].pc # "wait"
=============================================================================

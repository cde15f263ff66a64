------------------------ MODULE ManagedClientProofs ------------------------
(***************************************************************************)
(* What is proved of ManagedClient for any number of queries, revisions    *)
(* and generations.                                                        *)
(***************************************************************************)
EXTENDS ManagedClient, TLAPS

(* What a query is told is a refusal, that there is no session, or nothing *)
(* (lib.rs, query_error).                                                  *)
LEMMA QueryErrorType ==
  ASSUME blocked \in Blocks
  PROVE  QueryError(FALSE) \in Refusals \cup {"auth_required", "none"}
BY DEF QueryError, Blocks, Refusals

(* The placeholder for an input never loaded is well typed as soon as      *)
(* there is an input revision (managed.rs, State::default).                *)
LEMMA NeverLoadedType ==
  ASSUME revision \in Revisions, MaxGen \in Nat
  PROVE  NeverLoaded \in Loads
<1>1. (CHOOSE r \in Revisions : TRUE) \in Revisions
  OBVIOUS
<1> QED BY <1>1 DEF NeverLoaded, Loads, NoGen

(***************************************************************************)
(* Type correctness.                                                       *)
(***************************************************************************)

(* Replacing one query's record by a well-typed one keeps them well typed. *)
LEMMA SetType ==
  ASSUME queries \in [Queries -> QueryRecord], NEW q \in Queries, NEW r \in QueryRecord, Set(q, r)
  PROVE  queries' \in [Queries -> QueryRecord]
BY DEF Set

(* The records that the steps of a query build (managed.rs, query_error,   *)
(* execute, observed).                                                     *)
LEMMA QueryRecords ==
  ASSUME NEW s \in QueryRecord, NEW g \in 0..MaxGen, NEW r \in Errors \cup {"ok"}, MaxGen \in Nat
  PROVE  /\ IdleQuery \in QueryRecord
         /\ [IdleQuery EXCEPT !.pc = "asked"] \in QueryRecord
         /\ [pc |-> "raised", gen |-> NoGen, seen |-> g, res |-> r] \in QueryRecord
         /\ [s EXCEPT !.pc = "report", !.gen = g] \in QueryRecord
         /\ [IdleQuery EXCEPT !.pc = "called", !.gen = g] \in QueryRecord
         /\ [s EXCEPT !.pc = "exec"] \in QueryRecord
         /\ [s EXCEPT !.pc = "report", !.seen = g, !.res = r] \in QueryRecord
         /\ [s EXCEPT !.pc = "observe"] \in QueryRecord
<1>1. 0 \in 0..MaxGen
  OBVIOUS
<1> USE DEF QueryRecord
<1>2. IdleQuery \in QueryRecord
  BY <1>1 DEF IdleQuery, NoGen
<1>3. [pc |-> "raised", gen |-> NoGen, seen |-> g, res |-> r] \in QueryRecord
  BY <1>1 DEF NoGen
<1>4. \A t \in QueryRecord : /\ [t EXCEPT !.pc = "asked"] \in QueryRecord
                             /\ [t EXCEPT !.pc = "called", !.gen = g] \in QueryRecord
  BY Zenon
<1>5. /\ [s EXCEPT !.pc = "report", !.gen = g] \in QueryRecord
      /\ [s EXCEPT !.pc = "exec"] \in QueryRecord
      /\ [s EXCEPT !.pc = "observe"] \in QueryRecord
  BY Zenon
<1>6. [s EXCEPT !.pc = "report", !.seen = g, !.res = r] \in QueryRecord
  BY Zenon
<1> QED BY <1>2, <1>3, <1>4, <1>5, <1>6, Zenon

(* The records that the steps of a worker build (managed.rs, the spawned   *)
(* task).                                                                  *)
LEMMA WorkerRecords ==
  ASSUME NEW w \in WorkerRecord, NEW g \in 0..MaxGen, NEW i \in BOOLEAN, NEW o \in Outcomes,
         MaxGen \in Nat
  PROVE  /\ IdleWorker \in WorkerRecord
         /\ [IdleWorker EXCEPT !.pc = "start", !.gen = g, !.initial = i] \in WorkerRecord
         /\ [w EXCEPT !.pc = "done", !.out = o] \in WorkerRecord
         /\ [w EXCEPT !.pc = "prelogin"] \in WorkerRecord
         /\ [w EXCEPT !.pc = "login"] \in WorkerRecord
         /\ [w EXCEPT !.pc = "persist"] \in WorkerRecord
<1>1. IdleWorker \in WorkerRecord
  <2>1. 0 \in 0..MaxGen /\ "ok" \in Outcomes
    BY DEF Outcomes
  <2> QED BY <2>1, Zenon DEF IdleWorker, WorkerRecord, NoGen
<1>2. \A v \in WorkerRecord :
        [v EXCEPT !.pc = "start", !.gen = g, !.initial = i] \in WorkerRecord
  BY Zenon DEF WorkerRecord
<1>3. [w EXCEPT !.pc = "done", !.out = o] \in WorkerRecord
  BY Zenon DEF WorkerRecord
<1>4. /\ [w EXCEPT !.pc = "prelogin"] \in WorkerRecord
      /\ [w EXCEPT !.pc = "login"] \in WorkerRecord
      /\ [w EXCEPT !.pc = "persist"] \in WorkerRecord
  BY Zenon DEF WorkerRecord
<1> QED BY <1>1, <1>2, <1>3, <1>4, Zenon

(* The records that the steps of the poller build (managed/versions.rs).   *)
LEMMA SyncRecords ==
  ASSUME NEW s \in SyncRecord, NEW g \in 0..MaxGen, MaxGen \in Nat
  PROVE  /\ IdleSync \in SyncRecord
         /\ [IdleSync EXCEPT !.pc = "begin"] \in SyncRecord
         /\ [s EXCEPT !.pc = "refresh", !.gen = g] \in SyncRecord
         /\ [s EXCEPT !.pc = "commit", !.changed = TRUE] \in SyncRecord
         /\ [s EXCEPT !.pc = "commit"] \in SyncRecord
         /\ [s EXCEPT !.pc = "adopt"] \in SyncRecord
         /\ [s EXCEPT !.pc = "commit", !.changed = TRUE, !.followed = TRUE] \in SyncRecord
<1>1. IdleSync \in SyncRecord
  <2>1. 0 \in 0..MaxGen
    OBVIOUS
  <2> QED BY <2>1, Zenon DEF IdleSync, SyncRecord, NoGen
<1>2. \A t \in SyncRecord : [t EXCEPT !.pc = "begin"] \in SyncRecord
  BY Zenon DEF SyncRecord
<1>3. [s EXCEPT !.pc = "refresh", !.gen = g] \in SyncRecord
  BY Zenon DEF SyncRecord
<1>4. /\ [s EXCEPT !.pc = "commit", !.changed = TRUE] \in SyncRecord
      /\ [s EXCEPT !.pc = "commit"] \in SyncRecord
      /\ [s EXCEPT !.pc = "adopt"] \in SyncRecord
  BY Zenon DEF SyncRecord
<1>5. [s EXCEPT !.pc = "commit", !.changed = TRUE, !.followed = TRUE] \in SyncRecord
  BY Zenon DEF SyncRecord
<1> QED BY <1>1, <1>2, <1>3, <1>4, <1>5, Zenon

(* What the critical section of observed() does: nothing, one of two       *)
(* spawns, or a new phase.                                                 *)
LEMMA ObserveCases ==
  ASSUME NEW q \in Queries, Observe(q)
  PROVE  /\ Set(q, IdleQuery)
         /\ UNCHANGED <<lifecycle, updating, sync, revision, unsaved>>
         /\ \/ UNCHANGED <<phase, attempted, initialAttempted, rejectedAttempt, cooling, worker,
                           runs, fault>>
            \/ /\ phase \notin Closed /\ MayStart /\ Spawn(TRUE)
               /\ initialAttempted # [gen |-> gen, rev |-> revision]
               /\ initialAttempted' = [gen |-> gen, rev |-> revision]
               /\ UNCHANGED <<attempted, cooling>>
            \/ /\ phase \notin Closed /\ MayStart /\ Spawn(FALSE)
               /\ attempted # gen
               /\ attempted' = gen /\ cooling' = TRUE
               /\ UNCHANGED initialAttempted
            \/ /\ phase \notin Closed
               /\ phase' = PhaseOf(queries[q].res)
               /\ UNCHANGED <<attempted, initialAttempted, rejectedAttempt, cooling, worker,
                             runs, fault>>
BY Zenon DEF Observe, StartsLoad, StartsLogin, AlreadyLoaded

(* A query's step leaves a well-typed state (managed.rs, query_error,      *)
(* execute, observed).                                                     *)
LEMMA QueryStepType ==
  ASSUME TypeOK, NEW q \in Queries, QueryStep(q)
  PROVE  TypeOK'
<1>g. MaxGen \in Nat /\ gen \in 0..MaxGen
  BY MaxGenAssumption DEF TypeOK, LifecycleTypeOK
<1>q. queries[q] \in QueryRecord
  BY DEF TypeOK
<1>r. /\ IdleQuery \in QueryRecord
      /\ [IdleQuery EXCEPT !.pc = "asked"] \in QueryRecord
      /\ [queries[q] EXCEPT !.pc = "report", !.gen = gen] \in QueryRecord
      /\ [IdleQuery EXCEPT !.pc = "called", !.gen = gen] \in QueryRecord
      /\ [queries[q] EXCEPT !.pc = "exec"] \in QueryRecord
      /\ [queries[q] EXCEPT !.pc = "observe"] \in QueryRecord
  <2>1. "ok" \in Errors \cup {"ok"}
    OBVIOUS
  <2> QED BY <1>g, <1>q, <2>1, QueryRecords
<1> USE DEF TypeOK, LifecycleTypeOK, Quiet, shared, history, lifecycle
<1>1. CASE AskError(q)
  BY <1>1, <1>r, SetType DEF AskError
<1>2. CASE InnerError(q)
  <2>1. QueryError(FALSE) # "none" => QueryError(FALSE) \in Errors \cup {"ok"}
    BY QueryErrorType DEF Errors
  <2>2. (IF QueryError(FALSE) = "none" THEN IdleQuery
         ELSE [pc |-> "raised", gen |-> NoGen, seen |-> gen, res |-> QueryError(FALSE)])
          \in QueryRecord
    BY <2>1, <1>g, <1>q, QueryRecords DEF Errors
  <2> QED BY <1>2, <2>2, SetType DEF InnerError
<1>3. CASE NameGeneration(q)
  <2>1. queries' \in [Queries -> QueryRecord]
    BY <1>3, <1>r, SetType DEF NameGeneration
  <2> QED BY <1>3, <2>1 DEF NameGeneration
<1>4. CASE CallExecute(q)
  <2>1. queries' \in [Queries -> QueryRecord]
    BY <1>4, <1>r, SetType DEF CallExecute
  <2> QED BY <1>4, <2>1 DEF CallExecute
<1>5. CASE AdmitExecute(q)
  <2>1. queries' \in [Queries -> QueryRecord]
    BY <1>5, <1>r, SetType DEF AdmitExecute
  <2> QED BY <1>5, <2>1 DEF AdmitExecute
<1>6. ASSUME NEW r \in Errors \cup {"ok"}, InnerExecute(q, r)
      PROVE  TypeOK'
  <2>1. Reported(q, r) \in QueryRecord /\ IdleQuery \in QueryRecord
    BY <1>g, <1>q, QueryRecords DEF Reported
  <2>2. queries' \in [Queries -> QueryRecord]
    BY <1>6, <2>1, SetType DEF InnerExecute
  <2>3. LifecycleTypeOK'
    BY <1>6 DEF InnerExecute, Refuse, Blocks
  <2> QED BY <1>6, <2>2, <2>3 DEF InnerExecute
<1>7. CASE Screen(q)
  BY <1>7, <1>r, SetType DEF Screen
<1>8. CASE Observe(q)
  <2>1. queries' \in [Queries -> QueryRecord]
    BY <1>8, <1>r, SetType, ObserveCases
  <2>2. \A r : PhaseOf(r) \in Phases
    BY DEF PhaseOf, Phases
  <2>3. ASSUME NEW i \in BOOLEAN, Spawn(i)
        PROVE  /\ phase' \in Phases
               /\ worker' \in WorkerRecord
               /\ rejectedAttempt' \in 0..MaxGen
               /\ fault' \in BOOLEAN
               /\ runs' \in [login : Nat, load : Nat]
    <3>1. worker' \in WorkerRecord
      BY <2>3, <1>g, WorkerRecords DEF Spawn, Outcomes
    <3>2. phase' \in Phases /\ rejectedAttempt' \in 0..MaxGen /\ fault' \in BOOLEAN
      <4>1. phase' = "recovering" /\ rejectedAttempt' = NoGen /\ fault' = FALSE
        BY <2>3, Zenon DEF Spawn
      <4>2. 0 \in 0..MaxGen
        BY <1>g
      <4> QED BY <4>1, <4>2, Zenon DEF Phases, NoGen
    <3>3. runs' \in [login : Nat, load : Nat]
      <4>1. runs' = [runs EXCEPT !.load = @ + 1] \/ runs' = [runs EXCEPT !.login = @ + 1]
        BY <2>3, Zenon DEF Spawn
      <4> QED BY <4>1
    <3> QED BY <3>1, <3>2, <3>3
  <2>4. [gen |-> gen, rev |-> revision] \in Loads
    BY <1>g DEF Loads
  <2>5. CASE UNCHANGED <<phase, attempted, initialAttempted, rejectedAttempt, cooling, worker,
                         runs, fault>>
    BY <1>8, <2>1, <2>5, ObserveCases
  <2>6. CASE Spawn(TRUE) /\ initialAttempted' = [gen |-> gen, rev |-> revision]
             /\ UNCHANGED <<attempted, cooling>>
    BY <1>8, <2>1, <2>3, <2>4, <2>6, ObserveCases
  <2>7. CASE Spawn(FALSE) /\ attempted' = gen /\ cooling' = TRUE /\ UNCHANGED initialAttempted
    BY <1>8, <1>g, <2>1, <2>3, <2>7, ObserveCases
  <2>8. CASE /\ phase' = PhaseOf(queries[q].res)
             /\ UNCHANGED <<attempted, initialAttempted, rejectedAttempt, cooling, worker,
                           runs, fault>>
    BY <1>8, <2>1, <2>2, <2>8, ObserveCases
  <2> QED BY <1>8, <2>5, <2>6, <2>7, <2>8, ObserveCases
<1> QED BY <1>1, <1>2, <1>3, <1>4, <1>5, <1>6, <1>7, <1>8 DEF QueryStep

(* So does a worker's (managed.rs, the spawned task; GameRecovery).        *)
LEMMA WorkerStepType ==
  ASSUME TypeOK, WorkerStep
  PROVE  TypeOK'
<1>g. MaxGen \in Nat /\ gen \in 0..MaxGen /\ worker \in WorkerRecord
  BY MaxGenAssumption DEF TypeOK, LifecycleTypeOK
<1>o. \A o \in Outcomes : [worker EXCEPT !.pc = "done", !.out = o] \in WorkerRecord
  BY <1>g, WorkerRecords
<1>w. /\ IdleWorker \in WorkerRecord
      /\ [worker EXCEPT !.pc = "prelogin"] \in WorkerRecord
      /\ [worker EXCEPT !.pc = "login"] \in WorkerRecord
      /\ [worker EXCEPT !.pc = "persist"] \in WorkerRecord
  BY <1>g, WorkerRecords DEF Outcomes
<1> USE DEF TypeOK, LifecycleTypeOK, Busy, Ends, shared, lifecycle
<1>1. CASE WorkerStart
  <2>1. LifecycleTypeOK'
    BY <1>1, <1>g DEF WorkerStart, Install, Blocks, NoCred
  <2>2. worker' \in WorkerRecord
    BY <1>1, <1>o, <1>w DEF WorkerStart, Outcomes
  <2> QED BY <1>1, <2>1, <2>2 DEF WorkerStart
<1>2. CASE WorkerPreLogin
  BY <1>2, <1>w DEF WorkerPreLogin
<1>3. CASE WorkerLogin
  <2>1. LifecycleTypeOK' /\ unsaved' \in 0..MaxGen
    BY <1>3, <1>g DEF WorkerLogin, Install, Blocks, NoCred
  <2> QED BY <1>3, <1>w, <2>1 DEF WorkerLogin
<1>4. CASE WorkerFails
  BY <1>4, <1>o DEF WorkerFails, Outcomes
<1>5. ASSUME NEW k \in Refusals, NEW c \in BOOLEAN, WorkerRefused(k, c)
      PROVE  TypeOK'
  <2>1. LifecycleTypeOK'
    BY <1>5 DEF WorkerRefused, Refuse, Barred, lifecycle, LifecycleTypeOK, Blocks
  <2>2. (CASE c -> "client_update"
           [] ~c /\ k = "authentication" -> "other"
           [] OTHER -> k) \in Outcomes
    BY DEF Outcomes, Refusals
  <2>3. worker' \in WorkerRecord
    BY <1>5, <2>2, <1>o DEF WorkerRefused
  <2> QED BY <1>5, <2>1, <2>3 DEF WorkerRefused
<1>6. ASSUME NEW o \in {"ok", "invalid_config", "other"}, WorkerPersist(o)
      PROVE  TypeOK'
  <2>1. worker' \in WorkerRecord
    BY <1>6, <1>o DEF WorkerPersist, Outcomes
  <2>2. unsaved' \in 0..MaxGen
    BY <1>6, <1>g DEF WorkerPersist, NoGen
  <2> QED BY <1>6, <2>1, <2>2 DEF WorkerPersist
<1>7. CASE WorkerEnds
  <2>1. phase' \in Phases
    BY <1>7 DEF WorkerEnds, PhaseAfter, ByErrorOnly, Phases
  <2>2. rejectedAttempt' \in 0..MaxGen
    BY <1>7 DEF WorkerEnds, WorkerRecord
  <2>3. fault' \in BOOLEAN
    BY <1>7 DEF WorkerEnds
  <2>4. runs' \in [login : Nat, load : Nat]
    BY <1>7 DEF WorkerEnds, NoRuns
  <2> QED BY <1>7, <1>w, <2>1, <2>2, <2>3, <2>4 DEF WorkerEnds
<1> QED BY <1>1, <1>2, <1>3, <1>4, <1>5, <1>6, <1>7 DEF WorkerStep

(* So does a step of the version poller (managed/versions.rs).             *)
LEMMA SyncType ==
  ASSUME TypeOK, SyncStart \/ SyncStep
  PROVE  TypeOK'
<1>g. MaxGen \in Nat /\ gen \in 0..MaxGen /\ sync \in SyncRecord
  BY MaxGenAssumption DEF TypeOK, LifecycleTypeOK
<1>s. /\ IdleSync \in SyncRecord
      /\ [IdleSync EXCEPT !.pc = "begin"] \in SyncRecord
      /\ [sync EXCEPT !.pc = "refresh", !.gen = gen] \in SyncRecord
      /\ [sync EXCEPT !.pc = "commit", !.changed = TRUE] \in SyncRecord
      /\ [sync EXCEPT !.pc = "commit"] \in SyncRecord
      /\ [sync EXCEPT !.pc = "adopt"] \in SyncRecord
      /\ [sync EXCEPT !.pc = "commit", !.changed = TRUE, !.followed = TRUE] \in SyncRecord
  BY <1>g, SyncRecords
<1> USE DEF TypeOK, LifecycleTypeOK, Polling, shared, history, lifecycle
<1>1. CASE SyncStart
  BY <1>1, <1>s DEF SyncStart
<1>2. CASE SyncReads
  BY <1>2, <1>s DEF SyncReads
<1>3. CASE SyncRefresh
  <2>1. LifecycleTypeOK'
    BY <1>3, <1>g DEF SyncRefresh, Rediscover, Blocks
  <2> QED BY <1>3, <1>s, <2>1 DEF SyncRefresh
<1>4. CASE SyncAdopt
  <2>1. LifecycleTypeOK'
    BY <1>4, <1>g DEF SyncAdopt, Rediscover, Blocks
  <2> QED BY <1>4, <1>s, <2>1 DEF SyncAdopt
<1>5. CASE SyncCommit
  <2>1. \A g \in 0..MaxGen : Carried(g) \in 0..MaxGen
    BY <1>g DEF Carried, NoGen
  <2>2. attempted' \in 0..MaxGen /\ rejectedAttempt' \in 0..MaxGen
    BY <1>5, <2>1 DEF SyncCommit
  <2>3. initialAttempted' \in Loads
    BY <1>5, <2>1 DEF SyncCommit, Loads
  <2>4. phase' \in Phases
    BY <1>5 DEF SyncCommit, Phases
  <2>5. runs' \in [login : Nat, load : Nat]
    BY <1>5 DEF SyncCommit, NoRuns
  <2> QED BY <1>5, <1>s, <2>2, <2>3, <2>4, <2>5 DEF SyncCommit
<1> QED BY <1>1, <1>2, <1>3, <1>4, <1>5 DEF SyncStep

(* And so do SIGHUP, a change of the account input, and time.              *)
LEMMA EnvironmentType ==
  ASSUME TypeOK,
         \/ \E c \in {NoCred, gen + 1} : Reload(c)
         \/ \E r \in Revisions : ChangeInput(r)
         \/ CooldownElapses
  PROVE  TypeOK'
<1>g. MaxGen \in Nat
  BY MaxGenAssumption
<1> USE DEF TypeOK, LifecycleTypeOK, shared, history, lifecycle
<1>1. ASSUME NEW c \in {NoCred, gen + 1}, Reload(c)
      PROVE  TypeOK'
  <2>1. LifecycleTypeOK'
    BY <1>1, <1>g DEF Reload, Install, Blocks, NoCred
  <2>2. initialAttempted' \in Loads
    BY <1>1, <1>g, NeverLoadedType DEF Reload
  <2>3. /\ attempted' \in 0..MaxGen
        /\ rejectedAttempt' \in 0..MaxGen
        /\ unsaved' \in 0..MaxGen
    BY <1>1, <1>g DEF Reload, NoGen
  <2> QED BY <1>1, <2>1, <2>2, <2>3 DEF Reload, Phases, NoRuns
<1>2. ASSUME NEW r \in Revisions, ChangeInput(r)
      PROVE  TypeOK'
  BY <1>2 DEF ChangeInput
<1>3. CASE CooldownElapses
  BY <1>3 DEF CooldownElapses
<1> QED BY <1>1, <1>2, <1>3

(* The server starts in a well-typed state.                                *)
LEMMA TypeInit ==
  ASSUME Init
  PROVE  TypeOK
<1>1. MaxGen \in Nat /\ 0 \in 0..MaxGen
  BY MaxGenAssumption
<1>2. NeverLoaded \in Loads
  BY <1>1, NeverLoadedType DEF Init
<1>3. LifecycleTypeOK
  BY MaxGenAssumption DEF Init, InitLifecycle, LifecycleTypeOK, Blocks, NoCred
<1>4. IdleQuery \in QueryRecord
  BY <1>1, Zenon DEF IdleQuery, QueryRecord, NoGen
<1>5. IdleWorker \in WorkerRecord
  BY <1>1, Zenon DEF IdleWorker, WorkerRecord, NoGen, Outcomes
<1>6. IdleSync \in SyncRecord
  BY <1>1, Zenon DEF IdleSync, SyncRecord, NoGen
<1> QED
  BY <1>1, <1>2, <1>3, <1>4, <1>5, <1>6 DEF Init, TypeOK, Phases, NoGen, NoRuns

(* Every step leaves one.                                                  *)
LEMMA TypeStep ==
  ASSUME TypeOK, [Next]_vars
  PROVE  TypeOK'
<1>1. CASE Next
  BY <1>1, QueryStepType, WorkerStepType, SyncType, EnvironmentType DEF Next
<1>2. CASE UNCHANGED vars
  BY <1>2 DEF vars, shared, history, lifecycle, TypeOK, LifecycleTypeOK
<1> QED BY <1>1, <1>2

(* Every variable keeps its type, whatever the interleaving.               *)
THEOREM TypeCorrect == Spec => []TypeOK
<1>1. Init => TypeOK
  BY TypeInit
<1>2. TypeOK /\ [Next]_vars => TypeOK'
  BY TypeStep
<1> QED BY <1>1, <1>2, PTL DEF Spec

(***************************************************************************)
(* Ownership, and the session that was installed but not persisted.  The   *)
(* invariants of the runs are not inductive: that the poller never turns   *)
(* persistence_failed away needs that it does not run then; that the       *)
(* unsaved session stays hidden needs to know which worker hides it until  *)
(* it ends; that it is never served needs that no query admitted before it *)
(* was installed carries its generation.                                   *)
(***************************************************************************)
Owned == OneOwner /\ (updating => phase \notin Closed)

Hiding ==
  \/ phase = "persistence_failed"
  \/ worker.pc = "persist" /\ gen # worker.gen
  \/ worker.pc = "done" /\ worker.out # "ok" /\ gen # worker.gen

Hidden == unsaved # NoGen => unsaved = gen /\ Hiding

Unserved ==
  \A q \in Queries : /\ queries[q].gen <= gen
                     /\ queries[q].pc = "exec" /\ unsaved # NoGen => queries[q].gen # unsaved

IInv == TypeOK /\ Owned /\ Hidden /\ Unserved

(* Apart from the critical section of observed(), a query's step leaves    *)
(* the phase, both owners, the generation and the attempts alone.          *)
LEMMA QuietQuery ==
  ASSUME NEW q \in Queries, QueryStep(q), ~Observe(q)
  PROVE  UNCHANGED <<gen, phase, updating, worker, sync, attempted, initialAttempted,
                      rejectedAttempt, revision, history>>
<1> USE DEF Quiet, shared, history, lifecycle
<1>1. CASE AskError(q)        BY <1>1 DEF AskError
<1>2. CASE InnerError(q)      BY <1>2 DEF InnerError
<1>3. CASE NameGeneration(q)  BY <1>3 DEF NameGeneration
<1>4. CASE CallExecute(q)     BY <1>4 DEF CallExecute
<1>5. CASE AdmitExecute(q)    BY <1>5 DEF AdmitExecute
<1>6. ASSUME NEW r \in Errors \cup {"ok"}, InnerExecute(q, r)
      PROVE  UNCHANGED <<gen, phase, updating, worker, sync, attempted, initialAttempted,
                         rejectedAttempt, revision, history>>
  BY <1>6 DEF InnerExecute, Refuse
<1>7. CASE Screen(q)          BY <1>7 DEF Screen
<1> QED BY <1>1, <1>2, <1>3, <1>4, <1>5, <1>6, <1>7 DEF QueryStep

(* The records a step puts in place of the worker's or the poller's, field *)
(* by field.                                                               *)
LEMMA OwnerFields ==
  ASSUME TypeOK
  PROVE  /\ IdleWorker.pc = "idle" /\ IdleSync.pc = "idle"
         /\ \A i \in BOOLEAN :
              LET w == [IdleWorker EXCEPT !.pc = "start", !.gen = gen, !.initial = i]
              IN  w.pc = "start" /\ w.gen = gen
         /\ \A p : [worker EXCEPT !.pc = p].pc = p /\ [worker EXCEPT !.pc = p].gen = worker.gen
         /\ \A o : LET w == [worker EXCEPT !.pc = "done", !.out = o]
                   IN  w.pc = "done" /\ w.gen = worker.gen /\ w.out = o
         /\ [IdleSync EXCEPT !.pc = "begin"].pc = "begin"
         /\ \A p : [sync EXCEPT !.pc = p].pc = p /\ [sync EXCEPT !.pc = p].gen = sync.gen
         /\ [sync EXCEPT !.pc = "refresh", !.gen = gen].pc = "refresh"
         /\ [sync EXCEPT !.pc = "refresh", !.gen = gen].gen = gen
         /\ [sync EXCEPT !.pc = "commit", !.changed = TRUE].pc = "commit"
         /\ [sync EXCEPT !.pc = "commit", !.changed = TRUE, !.followed = TRUE].pc = "commit"
<1>1. worker \in WorkerRecord /\ sync \in SyncRecord
  BY DEF TypeOK
<1>2. worker = [pc |-> worker.pc, gen |-> worker.gen, initial |-> worker.initial,
                out |-> worker.out]
  BY <1>1, Zenon DEF WorkerRecord
<1> QED BY <1>1 DEF WorkerRecord, SyncRecord, IdleWorker, IdleSync

(* Every step keeps one owner of the session at a time.                    *)
LEMMA OwnedStep ==
  ASSUME TypeOK, Owned, [Next]_vars
  PROVE  Owned'
<1> USE OwnerFields DEF Owned, OneOwner, Working
<1>1. CASE UNCHANGED vars
  BY <1>1 DEF vars, shared, lifecycle
<1>2. ASSUME NEW q \in Queries, QueryStep(q), ~Observe(q)
      PROVE  Owned'
  BY <1>2, QuietQuery DEF Closed
<1>3. ASSUME NEW q \in Queries, Observe(q)
      PROVE  Owned'
  <2>1. UNCHANGED <<gen, updating, sync>>
    BY <1>3, ObserveCases DEF lifecycle
  <2>2. CASE UNCHANGED <<phase, worker>>
    BY <2>1, <2>2 DEF Closed
  <2>3. ASSUME NEW i \in BOOLEAN, Spawn(i), phase \notin Closed, MayStart
        PROVE  Owned'
    <3>1. worker'.pc = "start" /\ worker'.gen = gen /\ phase' = "recovering"
      BY <2>3, Zenon DEF Spawn
    <3>2. ~updating /\ sync.pc = "idle"
      BY <2>3 DEF MayStart
    <3> QED BY <3>1, <3>2, <2>1
  <2>4. CASE phase \notin Closed /\ phase' = PhaseOf(queries[q].res) /\ UNCHANGED worker
    <3>1. phase' \notin Closed
      BY <2>4 DEF PhaseOf, Closed
    <3> QED BY <2>1, <2>4, <3>1 DEF Closed
  <2> QED BY <1>3, <2>2, <2>3, <2>4, ObserveCases
<1>4. CASE WorkerStart
  <2>1. UNCHANGED <<phase, updating, sync>> /\ worker.pc = "start"
    BY <1>4 DEF WorkerStart, Busy, shared
  <2>2. worker'.pc = "done" \/ (worker'.pc = "prelogin" /\ worker'.gen = worker.gen
                                  /\ UNCHANGED gen)
    <3>1. \A o : Ends(o) => worker'.pc = "done"
      BY DEF Ends, TypeOK, WorkerRecord
    <3>2. worker' = [worker EXCEPT !.pc = "prelogin"]
            => worker'.pc = "prelogin" /\ worker'.gen = worker.gen
      BY DEF TypeOK, WorkerRecord
    <3>3. \/ \E o \in {"invalid_config", "other"} : Ends(o)
          \/ worker' = [worker EXCEPT !.pc = "prelogin"] /\ UNCHANGED lifecycle
          \/ Ends("ok")
      BY <1>4, Zenon DEF WorkerStart
    <3> QED BY <3>1, <3>2, <3>3, Zenon DEF lifecycle
  <2> QED BY <2>1, <2>2 DEF Closed
<1>5. CASE WorkerPreLogin
  BY <1>5 DEF WorkerPreLogin, Busy, shared, lifecycle, Closed
<1>6. CASE WorkerLogin
  BY <1>6 DEF WorkerLogin, Busy, shared, Closed
<1>7. CASE WorkerFails
  BY <1>7 DEF WorkerFails, Ends, Busy, shared, lifecycle, Closed
<1>8. ASSUME NEW k \in Refusals, NEW c \in BOOLEAN, WorkerRefused(k, c)
      PROVE  Owned'
  BY <1>8 DEF WorkerRefused, Ends, Busy, shared, lifecycle, Refuse, Barred, Closed
<1>9. ASSUME NEW o \in {"ok", "invalid_config", "other"}, WorkerPersist(o)
      PROVE  Owned'
  BY <1>9 DEF WorkerPersist, Ends, Busy, shared, lifecycle, Closed
<1>10. CASE WorkerEnds
  <2>1. phase' # "recovering"
    BY <1>10 DEF WorkerEnds, PhaseAfter, ByErrorOnly
  <2> QED BY <1>10, <2>1 DEF WorkerEnds, lifecycle
<1>11. CASE SyncStart
  BY <1>11 DEF SyncStart, SyncMayStart, lifecycle, Closed
<1>12. CASE SyncReads
  BY <1>12 DEF SyncReads, Polling, shared, lifecycle
<1>13. CASE SyncRefresh
  <2>1. UNCHANGED <<phase, updating, worker>> /\ sync.pc = "refresh"
    BY <1>13 DEF SyncRefresh, Polling, shared
  <2>2. sync'.pc = "commit" \/ (sync'.pc = "adopt" /\ sync'.gen = sync.gen /\ UNCHANGED gen)
    <3>1. \/ sync' = [sync EXCEPT !.pc = "commit", !.changed = TRUE]
          \/ sync' = [sync EXCEPT !.pc = "commit"]
          \/ sync' = [sync EXCEPT !.pc = "adopt"] /\ UNCHANGED lifecycle
      BY <1>13, Zenon DEF SyncRefresh
    <3>2. UNCHANGED lifecycle => gen' = gen
      BY DEF lifecycle
    <3> QED BY <3>1, <3>2 DEF TypeOK, SyncRecord
  <2> QED BY <2>1, <2>2 DEF Closed
<1>14. CASE SyncAdopt
  <2>1. UNCHANGED <<phase, updating, worker>> /\ sync.pc = "adopt"
    BY <1>14 DEF SyncAdopt, Polling, shared
  <2>2. sync'.pc = "commit"
    <3>1. \/ sync' = [sync EXCEPT !.pc = "commit", !.changed = TRUE, !.followed = TRUE]
          \/ sync' = [sync EXCEPT !.pc = "commit"]
      BY <1>14, Zenon DEF SyncAdopt
    <3> QED BY <3>1 DEF TypeOK, SyncRecord
  <2> QED BY <2>1, <2>2 DEF Closed
<1>15. CASE SyncCommit
  <2>1. updating /\ phase \notin Closed /\ worker.pc = "idle"
    BY <1>15 DEF SyncCommit, Closed
  <2>2. phase' = "unverified" \/ phase' = phase
    BY <1>15 DEF SyncCommit
  <2>3. ~updating' /\ sync'.pc = "idle" /\ UNCHANGED <<gen, worker>>
    BY <1>15 DEF SyncCommit, lifecycle
  <2> QED BY <2>1, <2>2, <2>3 DEF Closed
<1>16. ASSUME NEW c \in {NoCred, gen + 1}, Reload(c)
       PROVE  Owned'
  BY <1>16 DEF Reload, MayReload, Closed
<1>17. ASSUME NEW r \in Revisions, ChangeInput(r)
       PROVE  Owned'
  BY <1>17 DEF ChangeInput, shared, lifecycle
<1>18. CASE CooldownElapses
  BY <1>18 DEF CooldownElapses, lifecycle
<1> QED
  BY <1>1, <1>2, <1>3, <1>4, <1>5, <1>6, <1>7, <1>8, <1>9, <1>10, <1>11, <1>12, <1>13, <1>14,
     <1>15, <1>16, <1>17, <1>18 DEF Next, WorkerStep, SyncStep

(* What the invariant says of an unsaved session: it is the current one,   *)
(* queries are turned away, the poller rests, and a worker that is still   *)
(* there has made its login.                                               *)
LEMMA UnsavedFacts ==
  ASSUME Owned, Hidden, unsaved # NoGen
  PROVE  /\ unsaved = gen /\ phase \in Closed /\ ~updating
         /\ worker.pc \in {"idle", "persist", "done"}
         /\ worker.pc # "idle" => gen # worker.gen
BY DEF Owned, OneOwner, Hidden, Hiding, Working, Closed

(* Every step keeps an unsaved session hidden.                             *)
LEMMA HiddenStep ==
  ASSUME TypeOK, Owned, Hidden, [Next]_vars
  PROVE  Hidden'
<1>1. CASE UNCHANGED vars
  BY <1>1 DEF vars, shared, history, lifecycle, Hidden, Hiding
<1>2. ASSUME NEW q \in Queries, QueryStep(q), ~Observe(q)
      PROVE  Hidden'
  BY <1>2, QuietQuery DEF Hidden, Hiding, history
<1>3. ASSUME NEW q \in Queries, Observe(q)
      PROVE  Hidden'
  <2>1. UNCHANGED <<gen, unsaved>>
    BY <1>3, ObserveCases DEF lifecycle
  <2>2. phase \in Closed => UNCHANGED <<phase, worker>>
    BY <1>3, ObserveCases
  <2> QED BY <2>1, <2>2, UnsavedFacts DEF Hidden, Hiding
<1>4. CASE WorkerStart \/ WorkerPreLogin \/ WorkerFails
  <2>1. unsaved' = unsaved /\ worker.pc \in {"start", "prelogin", "login"}
    BY <1>4 DEF WorkerStart, WorkerPreLogin, WorkerFails
  <2> QED BY <2>1, UnsavedFacts DEF Hidden
<1>5. CASE WorkerLogin
  <2>1. unsaved' = gen' /\ gen' = gen + 1 /\ gen = worker.gen /\ gen \in Nat
    BY <1>5, MaxGenAssumption DEF WorkerLogin, Install, TypeOK, LifecycleTypeOK
  <2>2. worker'.pc = "persist" /\ worker'.gen = worker.gen
    BY <1>5, OwnerFields DEF WorkerLogin
  <2> QED BY <2>1, <2>2 DEF Hidden, Hiding
<1>6. ASSUME NEW k \in Refusals, NEW c \in BOOLEAN, WorkerRefused(k, c)
      PROVE  Hidden'
  <2>1. unsaved' = unsaved /\ worker.pc \in {"prelogin", "login"}
    BY <1>6 DEF WorkerRefused
  <2> QED BY <2>1, UnsavedFacts DEF Hidden
<1>7. ASSUME NEW o \in {"ok", "invalid_config", "other"}, WorkerPersist(o)
      PROVE  Hidden'
  <2>1. worker.pc = "persist" /\ UNCHANGED gen
    BY <1>7 DEF WorkerPersist, lifecycle
  <2>2. worker'.pc = "done" /\ worker'.gen = worker.gen /\ worker'.out = o
    BY <1>7, OwnerFields DEF WorkerPersist, Ends
  <2>3. unsaved' = IF o = "ok" THEN NoGen ELSE unsaved
    BY <1>7 DEF WorkerPersist
  <2> QED BY <2>1, <2>2, <2>3, UnsavedFacts DEF Hidden, Hiding
<1>8. CASE WorkerEnds
  <2>1. worker.pc = "done" /\ UNCHANGED <<gen, unsaved>> /\ phase' = PhaseAfter(worker)
    BY <1>8 DEF WorkerEnds, lifecycle
  <2>2. ASSUME unsaved # NoGen
        PROVE  worker.out # "ok" /\ gen # worker.gen
    BY <2>1, <2>2 DEF Owned, OneOwner, Working, Hidden, Hiding
  <2>3. unsaved # NoGen => phase' = "persistence_failed"
    BY <2>1, <2>2 DEF PhaseAfter
  <2> QED BY <2>1, <2>3 DEF Hidden, Hiding
<1>9. CASE SyncStart
  BY <1>9 DEF SyncStart, lifecycle, history, Hidden, Hiding
<1>10. CASE SyncStep
  <2>1. unsaved' = unsaved /\ sync.pc # "idle"
    BY <1>10 DEF SyncStep, SyncReads, SyncRefresh, SyncAdopt, SyncCommit, Polling, history
  <2> QED BY <2>1, UnsavedFacts DEF Hidden, Owned, OneOwner
<1>11. ASSUME NEW c \in {NoCred, gen + 1}, Reload(c)
       PROVE  Hidden'
  BY <1>11 DEF Reload, Hidden
<1>12. ASSUME NEW r \in Revisions, ChangeInput(r)
       PROVE  Hidden'
  BY <1>12 DEF ChangeInput, shared, lifecycle, Hidden, Hiding
<1>13. CASE CooldownElapses
  BY <1>13 DEF CooldownElapses, lifecycle, history, Hidden, Hiding
<1> QED
  BY <1>1, <1>2, <1>3, <1>4, <1>5, <1>6, <1>7, <1>8, <1>9, <1>10, <1>11, <1>12, <1>13
     DEF Next, WorkerStep

(* A step that is not a query's leaves the queries alone, never lowers the *)
(* generation, and makes at most the session it installs the unsaved one.  *)
LEMMA OthersStep ==
  ASSUME TypeOK, [Next]_vars, \A q \in Queries : ~QueryStep(q)
  PROVE  /\ queries' = queries
         /\ gen' >= gen
         /\ unsaved' \in {unsaved, NoGen, gen + 1}
<1>g. gen \in Nat
  BY MaxGenAssumption DEF TypeOK, LifecycleTypeOK
<1> USE <1>g DEF shared, lifecycle, history
<1>1. CASE UNCHANGED vars
  BY <1>1 DEF vars
<1>2. CASE WorkerStart
  BY <1>2 DEF WorkerStart, Busy, Install
<1>3. CASE WorkerPreLogin \/ WorkerFails
  BY <1>3 DEF WorkerPreLogin, WorkerFails, Busy
<1>4. CASE WorkerLogin
  BY <1>4 DEF WorkerLogin, Busy, Install
<1>5. ASSUME NEW k \in Refusals, NEW c \in BOOLEAN, WorkerRefused(k, c)
      PROVE  /\ queries' = queries /\ gen' >= gen /\ unsaved' = unsaved
  BY <1>5 DEF WorkerRefused, Busy, Refuse, Barred, lifecycle
<1>6. ASSUME NEW o \in {"ok", "invalid_config", "other"}, WorkerPersist(o)
      PROVE  /\ queries' = queries /\ gen' >= gen /\ unsaved' \in {unsaved, NoGen}
  BY <1>6 DEF WorkerPersist, Busy
<1>7. CASE WorkerEnds
  BY <1>7 DEF WorkerEnds
<1>8. CASE SyncStart
  BY <1>8 DEF SyncStart
<1>9. CASE SyncStep
  <2>1. UNCHANGED <<queries, unsaved>>
    BY <1>9 DEF SyncStep, SyncReads, SyncRefresh, SyncAdopt, SyncCommit, Polling
  <2>2. UNCHANGED lifecycle \/ \E clears \in BOOLEAN : Rediscover(clears)
    BY <1>9, Zenon DEF SyncStep, SyncReads, SyncRefresh, SyncAdopt, SyncCommit
  <2> QED BY <2>1, <2>2 DEF Rediscover
<1>10. ASSUME NEW c \in {NoCred, gen + 1}, Reload(c)
       PROVE  /\ queries' = queries /\ gen' >= gen /\ unsaved' = NoGen
  BY <1>10 DEF Reload, Install
<1>11. ASSUME NEW r \in Revisions, ChangeInput(r)
       PROVE  /\ queries' = queries /\ gen' >= gen /\ unsaved' = unsaved
  BY <1>11 DEF ChangeInput
<1>12. CASE CooldownElapses
  BY <1>12 DEF CooldownElapses
<1> QED
  BY <1>1, <1>2, <1>3, <1>4, <1>5, <1>6, <1>7, <1>8, <1>9, <1>10, <1>11, <1>12
     DEF Next, WorkerStep

(* Every step keeps the unsaved session out of the hands of the queries    *)
(* that execute.                                                           *)
LEMMA UnservedStep ==
  ASSUME TypeOK, Owned, Hidden, Unserved, [Next]_vars
  PROVE  Unserved'
<1>g. gen \in Nat /\ NoGen <= gen /\ \A q \in Queries : queries[q].gen \in Nat
  BY MaxGenAssumption DEF TypeOK, LifecycleTypeOK, QueryRecord, NoGen
<1>1. CASE \A q \in Queries : ~QueryStep(q)
  <2>1. /\ queries' = queries /\ gen' >= gen /\ unsaved' \in {unsaved, NoGen, gen + 1}
        /\ gen' \in Nat
    BY <1>1, OthersStep, TypeStep, MaxGenAssumption DEF TypeOK, LifecycleTypeOK
  <2> QED BY <2>1, <1>g DEF Unserved, NoGen
<1>2. ASSUME NEW q \in Queries, QueryStep(q)
      PROVE  Unserved'
  <2>1. UNCHANGED <<gen, unsaved>>
    BY <1>2, QuietQuery, ObserveCases DEF lifecycle, history
  <2>2. \A p \in Queries \ {q} : queries'[p] = queries[p]
    BY <1>2, ObserveCases DEF QueryStep, AskError, InnerError, NameGeneration, CallExecute,
         AdmitExecute, InnerExecute, Screen, Set, TypeOK
  <2>3. /\ queries'[q].gen <= gen
        /\ queries'[q].pc = "exec" /\ unsaved # NoGen => queries'[q].gen # unsaved
    <3> USE <1>g DEF Set, TypeOK, QueryRecord, IdleQuery, Unserved
    <3>1. CASE AskError(q)        BY <3>1 DEF AskError
    <3>2. CASE InnerError(q)      BY <3>2 DEF InnerError
    <3>3. CASE NameGeneration(q)  BY <3>3 DEF NameGeneration
    <3>4. CASE CallExecute(q)     BY <3>4 DEF CallExecute
    <3>5. CASE AdmitExecute(q)
      <4>1. phase \in Closed => queries'[q] = IdleQuery
        BY <3>5 DEF AdmitExecute
      <4>2. phase \notin Closed => unsaved = NoGen
        BY UnsavedFacts
      <4>3. queries'[q].gen <= gen
        BY <3>5 DEF AdmitExecute
      <4> QED BY <4>1, <4>2, <4>3
    <3>6. ASSUME NEW r \in Errors \cup {"ok"}, InnerExecute(q, r)
          PROVE  queries'[q].gen <= gen /\ queries'[q].pc # "exec"
      <4>1. queries'[q] \in {IdleQuery, Reported(q, r)}
        BY <3>6 DEF InnerExecute
      <4>2. Reported(q, r).gen = queries[q].gen /\ Reported(q, r).pc = "report"
        BY DEF Reported
      <4> QED BY <4>1, <4>2
    <3>7. CASE Screen(q)          BY <3>7 DEF Screen
    <3>8. CASE Observe(q)
      <4>1. queries'[q] = IdleQuery
        BY <3>8 DEF Observe
      <4> QED BY <4>1
    <3> QED BY <1>2, <3>1, <3>2, <3>3, <3>4, <3>5, <3>6, <3>7, <3>8 DEF QueryStep
  <2> QED BY <2>1, <2>2, <2>3 DEF Unserved
<1> QED BY <1>1, <1>2

(* The conjunction is inductive.                                           *)
THEOREM Invariance == Spec => []IInv
<1>1. Init => IInv
  <2> SUFFICES ASSUME Init PROVE IInv
    OBVIOUS
  <2>1. TypeOK
    BY TypeInit
  <2>2. Owned /\ Hidden
    BY DEF Init, Owned, OneOwner, Working, Hidden, IdleWorker, IdleSync, NoGen, Closed
  <2>3. Unserved
    BY <2>1 DEF Init, InitLifecycle, Unserved, IdleQuery, NoGen
  <2> QED BY <2>1, <2>2, <2>3 DEF IInv
<1>2. IInv /\ [Next]_vars => IInv'
  BY TypeStep, OwnedStep, HiddenStep, UnservedStep DEF IInv
<1> QED BY <1>1, <1>2, PTL DEF Spec

(* One owner of the session at a time: never two workers, never a worker   *)
(* beside the poller, and nobody rotates the session under its owner       *)
(* (managed.rs, observed and reload; managed/versions.rs).                 *)
THEOREM OneOwnerAlways == Spec => []OneOwner
<1>1. IInv => OneOwner
  BY DEF IInv, Owned
<1> QED BY <1>1, Invariance, PTL

(* A session whose login was not persisted stays hidden until it is saved  *)
(* or the operator reloads (managed.rs, GameRecovery and the worker's end).*)
THEOREM UnsavedIsHiddenAlways == Spec => []UnsavedIsHidden
<1>1. IInv => UnsavedIsHidden
  BY UnsavedFacts DEF IInv, UnsavedIsHidden
<1> QED BY <1>1, Invariance, PTL

(* Nothing but the operator's reload leaves persistence_failed.            *)
THEOREM PersistenceFailedStays == Spec => PersistenceFailedIsFinal
<1> DEFINE Final == phase = "persistence_failed" /\ phase' # phase
                      => gen' = gen + 1 /\ ~Working /\ ~updating
<1>1. IInv /\ [Next]_vars => [Final]_vars
  <2> SUFFICES ASSUME IInv, Next, phase = "persistence_failed", phase' # phase
               PROVE  gen' = gen + 1 /\ ~Working /\ ~updating
    BY DEF vars, shared
  <2>1. ~Working /\ ~updating /\ sync.pc = "idle" /\ worker.pc = "idle"
    BY DEF IInv, Owned, OneOwner, Working, Closed
  <2>2. \A q \in Queries : ~QueryStep(q)
    BY QuietQuery, ObserveCases DEF Closed
  <2>3. ~WorkerStep
    BY <2>1 DEF WorkerStep, WorkerStart, WorkerPreLogin, WorkerLogin, WorkerFails, WorkerRefused,
         WorkerPersist, WorkerEnds
  <2>4. ~SyncStart /\ ~SyncStep
    BY <2>1 DEF SyncStart, SyncMayStart, Closed, SyncStep, SyncReads, SyncRefresh, SyncAdopt,
         SyncCommit
  <2>5. ~CooldownElapses /\ \A r \in Revisions : ~ChangeInput(r)
    BY DEF CooldownElapses, ChangeInput, shared
  <2>6. PICK c \in {NoCred, gen + 1} : Reload(c)
    BY <2>2, <2>3, <2>4, <2>5 DEF Next
  <2> QED BY <2>1, <2>6 DEF Reload, Install
<1> QED BY <1>1, Invariance, PTL DEF Spec, PersistenceFailedIsFinal

(* No protected query is answered under a session that is not saved, not   *)
(* even one that looked at the phase before the worker began.              *)
THEOREM UnsavedNeverServedAlways == Spec => UnsavedNeverServed
<1> DEFINE Saved == \A q \in Queries : queries[q].pc = "exec" /\ queries'[q].pc = "report"
                                          /\ queries'[q].res = "ok" => gen # unsaved
<1>1. IInv /\ [Next]_vars => [Saved]_vars
  <2> SUFFICES ASSUME IInv, Next, NEW p \in Queries,
                      queries[p].pc = "exec", queries'[p].pc = "report"
               PROVE  gen # unsaved
    BY DEF vars
  <2> USE DEF IInv
  <2>1. PICK q \in Queries : QueryStep(q)
    BY OthersStep
  <2>2. q = p
    BY <2>1, ObserveCases DEF QueryStep, AskError, InnerError, NameGeneration, CallExecute,
         AdmitExecute, InnerExecute, Screen, Set, TypeOK
  <2>3. \E r \in Errors \cup {"ok"} : InnerExecute(p, r)
    <3>1. /\ ~AskError(p) /\ ~InnerError(p) /\ ~NameGeneration(p) /\ ~CallExecute(p)
          /\ ~AdmitExecute(p) /\ ~Screen(p) /\ ~Observe(p)
      BY DEF AskError, InnerError, NameGeneration, CallExecute, AdmitExecute, Screen, Observe
    <3> QED BY <2>1, <2>2, <3>1 DEF QueryStep
  <2>4. queries[p].gen = gen
    BY <2>3 DEF InnerExecute, Set, TypeOK, IdleQuery
  <2> QED BY <2>4, MaxGenAssumption DEF Unserved, TypeOK, LifecycleTypeOK, NoGen
<1> QED BY <1>1, Invariance, PTL DEF Spec, UnsavedNeverServed

(***************************************************************************)
(* The attempts made for a credential and for an input.  That there is at  *)
(* most one is not inductive: a second is refused because the first is on  *)
(* record, under the current generation or, while the poller has renamed   *)
(* the session and not yet carried the record over, under the one it       *)
(* began with; or because its worker replaced the session and the phase    *)
(* stays persistence_failed.                                               *)
(***************************************************************************)
Recorded == IF sync.pc = "commit" /\ sync.changed THEN sync.gen ELSE gen

Superseded ==
  \/ phase = "persistence_failed"
  \/ worker.pc \in {"persist", "done"} /\ gen # worker.gen

LoginCounted ==
  /\ runs.login <= 1
  /\ runs.login > 0 => attempted = Recorded \/ Superseded

LoadCounted ==
  /\ runs.load <= 1
  /\ runs.load > 0 => initialAttempted = [gen |-> Recorded, rev |-> revision] \/ Superseded

(* What lets a spent attempt be made again: only a client version that the *)
(* last worker was refused for.                                            *)
Rearmable ==
  /\ rejectedAttempt # NoGen => fault /\ ~Working
  /\ sync.pc = "commit" => sync.gen # NoGen

Counted == LoginCounted /\ LoadCounted /\ Rearmable

(* The worker is superseded, or will be, only while protected queries are  *)
(* turned away (managed.rs, observed).                                     *)
LEMMA SupersededIsClosed ==
  ASSUME Owned
  PROVE  Superseded => phase \in Closed /\ ~updating /\ sync.pc = "idle"
BY DEF Superseded, Owned, OneOwner, Working, Closed

(* A step that touches neither the record nor the counters keeps them      *)
(* right, as long as the session is named as before and a superseded       *)
(* worker stays one.                                                       *)
LEMMA CountedFrame ==
  ASSUME Counted,
         UNCHANGED <<attempted, initialAttempted, rejectedAttempt, revision, runs, fault>>,
         Recorded' = Recorded,
         Superseded => Superseded',
         worker.pc = "idle" => worker'.pc = "idle",
         sync'.pc = "commit" => sync'.gen # NoGen
  PROVE  Counted'
BY DEF Counted, LoginCounted, LoadCounted, Rearmable, Working

(* A worker started for what is not on record is the first one (managed.rs,*)
(* observed).                                                              *)
LEMMA SpawnCounted ==
  ASSUME TypeOK, Owned, Counted, NEW q \in Queries, Observe(q)
  PROVE  Counted'
<1>1. UNCHANGED <<gen, updating, sync, revision>>
  BY ObserveCases DEF lifecycle
<1>2. runs = [login |-> runs.login, load |-> runs.load] /\ runs.login \in Nat /\ runs.load \in Nat
  BY DEF TypeOK
<1>3. CASE UNCHANGED <<phase, attempted, initialAttempted, rejectedAttempt, cooling, worker,
                       runs, fault>>
  BY <1>1, <1>3 DEF Counted, LoginCounted, LoadCounted, Rearmable, Recorded, Superseded, Working
<1>4. ASSUME phase \notin Closed, MayStart, NEW i \in BOOLEAN, Spawn(i)
      PROVE  /\ ~Superseded /\ Recorded = gen /\ Recorded' = gen
             /\ rejectedAttempt' = NoGen
             /\ sync'.pc # "commit"
  <2>1. ~Superseded
    BY <1>4, SupersededIsClosed
  <2>2. sync.pc = "idle"
    BY <1>4 DEF MayStart, Owned, OneOwner
  <2>3. rejectedAttempt' = NoGen
    BY <1>4 DEF Spawn
  <2> QED BY <1>1, <2>1, <2>2, <2>3 DEF Recorded
<1>5. CASE /\ phase \notin Closed /\ MayStart /\ Spawn(TRUE)
           /\ initialAttempted # [gen |-> gen, rev |-> revision]
           /\ initialAttempted' = [gen |-> gen, rev |-> revision]
           /\ UNCHANGED <<attempted, cooling>>
  <2>1. runs' = [runs EXCEPT !.load = @ + 1]
    BY <1>5 DEF Spawn
  <2>2. runs'.login = runs.login /\ runs'.load = runs.load + 1
    BY <1>2, <2>1
  <2>3. /\ ~Superseded /\ Recorded = gen /\ Recorded' = gen
        /\ rejectedAttempt' = NoGen /\ sync'.pc # "commit"
    BY <1>4, <1>5, Zenon
  <2>4. runs.load = 0
    BY <1>2, <1>5, <2>3 DEF Counted, LoadCounted
  <2> QED BY <1>1, <1>5, <2>2, <2>3, <2>4 DEF Counted, LoginCounted, LoadCounted, Rearmable
<1>6. CASE /\ phase \notin Closed /\ MayStart /\ Spawn(FALSE)
           /\ attempted # gen
           /\ attempted' = gen /\ cooling' = TRUE
           /\ UNCHANGED initialAttempted
  <2>1. runs' = [runs EXCEPT !.login = @ + 1]
    BY <1>6 DEF Spawn
  <2>2. runs'.login = runs.login + 1 /\ runs'.load = runs.load
    BY <1>2, <2>1
  <2>3. /\ ~Superseded /\ Recorded = gen /\ Recorded' = gen
        /\ rejectedAttempt' = NoGen /\ sync'.pc # "commit"
    BY <1>4, <1>6, Zenon
  <2>4. runs.login = 0
    BY <1>2, <1>6, <2>3 DEF Counted, LoginCounted
  <2> QED BY <1>1, <1>6, <2>2, <2>3, <2>4 DEF Counted, LoginCounted, LoadCounted, Rearmable
<1>7. CASE /\ phase \notin Closed
           /\ phase' = PhaseOf(queries[q].res)
           /\ UNCHANGED <<attempted, initialAttempted, rejectedAttempt, cooling, worker,
                         runs, fault>>
  <2>1. ~Superseded
    BY <1>7, SupersededIsClosed
  <2>2. Recorded' = Recorded
    BY <1>1 DEF Recorded
  <2>3. sync'.pc = "commit" => sync'.gen # NoGen
    BY <1>1 DEF Counted, Rearmable
  <2> QED BY <1>1, <1>7, <2>1, <2>2, <2>3, CountedFrame
<1> QED BY <1>3, <1>5, <1>6, <1>7, ObserveCases

(* A worker that fails leaves its attempt on record, one that succeeds     *)
(* settles the account (managed.rs, the spawned task).                     *)
LEMMA WorkerCounted ==
  ASSUME TypeOK, Owned, Counted, WorkerStep
  PROVE  Counted'
<1>s. worker.pc # "idle" /\ sync.pc = "idle" /\ UNCHANGED <<sync, revision>>
      /\ UNCHANGED <<attempted, initialAttempted>>
  BY DEF WorkerStep, WorkerStart, WorkerPreLogin, WorkerLogin, WorkerFails, WorkerRefused,
     WorkerPersist, WorkerEnds, Owned, OneOwner, Working, Busy, shared
<1>r. Recorded = gen /\ Recorded' = gen'
  BY <1>s DEF Recorded
<1>1. CASE WorkerStep /\ ~WorkerEnds
  <2>1. UNCHANGED <<rejectedAttempt, runs, fault>>
    BY <1>1 DEF WorkerStep, WorkerStart, WorkerPreLogin, WorkerLogin, WorkerFails, WorkerRefused,
       WorkerPersist, Busy, shared
  <2>2. (gen' = gen /\ (Superseded => Superseded')) \/ Superseded'
    <3> USE DEF Superseded, TypeOK, WorkerRecord, LifecycleTypeOK
    <3>1. CASE WorkerStart
      <4>1. worker.pc = "start" /\ phase' = phase
        BY <3>1 DEF WorkerStart, Busy, shared
      <4>2. UNCHANGED lifecycle \/ (Install(gen + 1) /\ Ends("ok") /\ gen = worker.gen)
        BY <3>1 DEF WorkerStart
      <4>3. UNCHANGED lifecycle => gen' = gen
        BY DEF lifecycle
      <4>4. Install(gen + 1) /\ Ends("ok") /\ gen = worker.gen => Superseded'
        BY DEF Install, Ends
      <4> QED BY <4>1, <4>2, <4>3, <4>4
    <3>2. CASE WorkerPreLogin
      BY <3>2 DEF WorkerPreLogin, lifecycle, Busy, shared
    <3>3. CASE WorkerLogin
      <4>1. gen = worker.gen /\ gen' = gen + 1
        BY <3>3 DEF WorkerLogin, Install
      <4>2. worker'.pc = "persist" /\ worker'.gen = worker.gen
        BY <3>3 DEF WorkerLogin
      <4> QED BY <4>1, <4>2
    <3>4. CASE WorkerFails
      BY <3>4 DEF WorkerFails, lifecycle, Busy, shared
    <3>5. ASSUME NEW k \in Refusals, NEW c \in BOOLEAN, WorkerRefused(k, c)
          PROVE  gen' = gen /\ (Superseded => Superseded')
      BY <3>5 DEF WorkerRefused, Refuse, Barred, lifecycle, Busy, shared
    <3>6. ASSUME NEW o \in {"ok", "invalid_config", "other"}, WorkerPersist(o)
          PROVE  gen' = gen /\ (Superseded => Superseded')
      BY <3>6 DEF WorkerPersist, Ends, lifecycle, Busy, shared
    <3> QED BY <1>1, <3>1, <3>2, <3>3, <3>4, <3>5, <3>6 DEF WorkerStep
  <2> QED
    BY <1>s, <1>r, <2>1, <2>2 DEF Counted, LoginCounted, LoadCounted, Rearmable, Working
<1>2. CASE WorkerEnds
  <2>1. /\ worker.pc = "done" /\ gen' = gen /\ worker' = IdleWorker
        /\ phase' = PhaseAfter(worker) /\ fault' = (worker.out = "client_update")
        /\ runs' = IF worker.out = "ok" THEN NoRuns ELSE runs
    BY <1>2 DEF WorkerEnds, lifecycle
  <2>2. Rearmable'
    <3>1. worker'.pc = "idle"
      BY <2>1 DEF IdleWorker
    <3>2. rejectedAttempt = NoGen
      BY <1>s DEF Counted, Rearmable, Working
    <3>3. rejectedAttempt' # NoGen => worker.out = "client_update"
      BY <1>2, <3>2 DEF WorkerEnds
    <3> QED BY <1>s, <2>1, <3>1, <3>3 DEF Rearmable, Working
  <2>3. CASE worker.out = "ok"
    BY <2>1, <2>2, <2>3 DEF NoRuns, Counted, LoginCounted, LoadCounted
  <2>4. CASE worker.out # "ok"
    <3>1. Superseded => Superseded'
      <4>1. Superseded => gen # worker.gen
        BY <2>1 DEF Superseded, Owned, OneOwner, Working
      <4> QED BY <2>1, <2>4, <4>1 DEF Superseded, PhaseAfter
    <3> QED
      BY <1>s, <1>r, <2>1, <2>2, <2>4, <3>1 DEF Counted, LoginCounted, LoadCounted
  <2> QED BY <2>3, <2>4
<1> QED BY <1>1, <1>2

(* Renaming a session takes its record along, and a record that does not   *)
(* bind any more is dropped together with what it counted (versions.rs,    *)
(* sync_versions).                                                         *)
LEMMA SyncCounted ==
  ASSUME TypeOK, Owned, Counted, SyncStart \/ SyncStep
  PROVE  Counted'
<1>t. sync \in SyncRecord /\ gen \in Nat /\ gen # NoGen
  BY MaxGenAssumption DEF TypeOK, LifecycleTypeOK, NoGen
<1>s. UNCHANGED <<worker, revision, fault>> /\ ~Superseded
  <2>1. UNCHANGED <<worker, revision, fault>>
    BY DEF SyncStart, SyncStep, SyncReads, SyncRefresh, SyncAdopt, SyncCommit, Polling, history
  <2>2. sync.pc # "idle" \/ phase \notin Closed
    BY DEF SyncStart, SyncMayStart, SyncStep, SyncReads, SyncRefresh, SyncAdopt, SyncCommit
  <2> QED BY <2>1, <2>2, SupersededIsClosed
<1>1. CASE SyncStart \/ SyncReads
  <2>1. sync.pc # "commit" /\ sync'.pc # "commit" /\ gen' = gen
    BY <1>1, OwnerFields DEF SyncStart, SyncReads, lifecycle
  <2>2. UNCHANGED <<attempted, initialAttempted, rejectedAttempt, runs>>
    BY <1>1 DEF SyncStart, SyncReads, Polling, shared, history
  <2> QED BY <1>s, <2>1, <2>2, CountedFrame DEF Recorded
<1>2. CASE SyncRefresh \/ SyncAdopt
  <2>1. UNCHANGED <<attempted, initialAttempted, rejectedAttempt, runs>>
    BY <1>2 DEF SyncRefresh, SyncAdopt, Polling, shared, history
  <2>2. sync.pc \in {"refresh", "adopt"} /\ gen = sync.gen
    BY <1>2 DEF SyncRefresh, SyncAdopt, Owned, OneOwner
  <2>3. \/ sync' = [sync EXCEPT !.pc = "commit", !.changed = TRUE]
        \/ sync' = [sync EXCEPT !.pc = "commit", !.changed = TRUE, !.followed = TRUE]
        \/ sync' = [sync EXCEPT !.pc = "commit"] /\ UNCHANGED lifecycle
        \/ sync' = [sync EXCEPT !.pc = "adopt"] /\ UNCHANGED lifecycle
    BY <1>2, Zenon DEF SyncRefresh, SyncAdopt
  <2>4. sync'.gen = sync.gen /\ Recorded' = gen
    BY <1>t, <2>2, <2>3 DEF Recorded, SyncRecord, lifecycle
  <2> QED BY <1>t, <1>s, <2>1, <2>2, <2>4, CountedFrame DEF Recorded
<1>3. CASE SyncCommit
  <2>1. sync.pc = "commit" /\ sync' = IdleSync /\ sync'.pc = "idle" /\ gen' = gen
    BY <1>3, OwnerFields DEF SyncCommit, lifecycle
  <2>2. Recorded' = gen
    BY <2>1 DEF Recorded
  <2>3. CASE ~sync.changed
    <3>1. UNCHANGED <<attempted, initialAttempted, rejectedAttempt>> /\ Recorded = gen
      BY <1>3, <2>3 DEF SyncCommit, Recorded
    <3>2. runs' = runs \/ runs' = NoRuns
      BY <1>3 DEF SyncCommit
    <3> QED
      BY <1>s, <2>1, <2>2, <3>1, <3>2
         DEF Counted, LoginCounted, LoadCounted, Rearmable, Working, NoRuns
  <2>4. CASE sync.changed
    <3>1. /\ attempted' = Carried(attempted)
          /\ initialAttempted' = [initialAttempted EXCEPT !.gen = Carried(@)]
          /\ rejectedAttempt' = Carried(rejectedAttempt)
          /\ runs' = IF sync.followed /\ fault THEN NoRuns ELSE runs
      BY <1>3, <2>4 DEF SyncCommit
    <3>2. rejectedAttempt' # NoGen => rejectedAttempt # NoGen
      BY <2>1, <3>1 DEF Carried, Counted, Rearmable
    <3>3. Rearmable'
      BY <1>s, <2>1, <3>2 DEF Counted, Rearmable, Working
    <3>4. CASE Rearms
      <4>1. runs' = NoRuns
        BY <2>1, <3>1, <3>4 DEF Rearms, Counted, Rearmable
      <4> QED BY <3>3, <4>1 DEF NoRuns, Counted, LoginCounted, LoadCounted
    <3>5. CASE ~Rearms
      <4>1. Carried(sync.gen) = gen /\ Recorded = sync.gen
        BY <2>1, <2>4, <3>5 DEF Carried, Recorded
      <4>2. initialAttempted = [gen |-> sync.gen, rev |-> revision]
              => initialAttempted' = [gen |-> gen, rev |-> revision]
        BY <3>1, <4>1
      <4>3. runs' = runs \/ runs' = NoRuns
        BY <3>1
      <4> QED
        BY <1>s, <2>2, <3>1, <3>3, <4>1, <4>2, <4>3
           DEF NoRuns, Counted, LoginCounted, LoadCounted
    <3> QED BY <3>4, <3>5
  <2> QED BY <2>3, <2>4
<1> QED BY <1>1, <1>2, <1>3 DEF SyncStep

(* Every step keeps the count.                                             *)
LEMMA CountedStep ==
  ASSUME TypeOK, Owned, Counted, [Next]_vars
  PROVE  Counted'
<1>1. CASE UNCHANGED vars
  BY <1>1 DEF vars, lifecycle, shared, history, Counted, LoginCounted, LoadCounted, Rearmable,
     Recorded, Superseded, Working
<1>2. ASSUME NEW q \in Queries, QueryStep(q), ~Observe(q)
      PROVE  Counted'
  BY <1>2, QuietQuery DEF history, Counted, LoginCounted, LoadCounted, Rearmable, Recorded,
     Superseded, Working
<1>3. ASSUME NEW q \in Queries, Observe(q)
      PROVE  Counted'
  BY <1>3, SpawnCounted
<1>4. ASSUME NEW c \in {NoCred, gen + 1}, Reload(c)
      PROVE  Counted'
  <2>1. sync.pc = "idle" /\ UNCHANGED sync /\ rejectedAttempt' = NoGen /\ runs' = NoRuns
    BY <1>4 DEF Reload, MayReload, Owned, OneOwner
  <2> QED BY <2>1 DEF NoRuns, Counted, LoginCounted, LoadCounted, Rearmable
<1>5. ASSUME NEW r \in Revisions, ChangeInput(r)
      PROVE  Counted'
  <2>1. /\ UNCHANGED <<gen, phase, worker, sync, attempted, rejectedAttempt, fault>>
        /\ runs' = [runs EXCEPT !.load = 0]
    BY <1>5 DEF ChangeInput, lifecycle, shared
  <2>2. runs'.login = runs.login /\ runs'.load = 0
    BY <2>1 DEF TypeOK
  <2> QED
    BY <2>1, <2>2 DEF Counted, LoginCounted, LoadCounted, Rearmable, Recorded, Superseded, Working
<1>6. CASE CooldownElapses
  BY <1>6 DEF CooldownElapses, lifecycle, history, Counted, LoginCounted, LoadCounted, Rearmable,
     Recorded, Superseded, Working
<1> QED
  BY <1>1, <1>2, <1>3, <1>4, <1>5, <1>6, WorkerCounted, SyncCounted DEF Next

(* At most one login is started for a credential and one load for an input *)
(* revision, however often the poller renames the session and whatever the *)
(* queries report (operations.md, Recovery).                               *)
THEOREM AttemptBudgetAlways == Spec => []AttemptBudget
<1>1. Init => TypeOK /\ Owned /\ Counted
  <2> SUFFICES ASSUME Init PROVE TypeOK /\ Owned /\ Counted
    OBVIOUS
  <2>1. TypeOK
    BY TypeInit
  <2>2. Owned
    BY DEF Init, Owned, OneOwner, Working, IdleWorker, IdleSync, NoGen, Closed
  <2>3. Counted
    BY DEF Init, IdleSync, NoRuns, Counted, LoginCounted, LoadCounted, Rearmable
  <2> QED BY <2>1, <2>2, <2>3
<1>2. TypeOK /\ Owned /\ Counted /\ [Next]_vars => (TypeOK /\ Owned /\ Counted)'
  BY TypeStep, OwnedStep, CountedStep
<1>3. Counted => AttemptBudget
  BY DEF Counted, LoginCounted, LoadCounted, AttemptBudget
<1> QED BY <1>1, <1>2, <1>3, PTL DEF Spec

(***************************************************************************)
(* The session moves as its contract says.                                 *)
(***************************************************************************)

(* Worker, poller, queries and the operator change the session through the *)
(* steps that the client promises, and never otherwise: what is proved     *)
(* here is about sessions that a client can have (ClientImplements).       *)
THEOREM KeepsToTheLifecycle == Spec => SpecLifecycle
<1>1. Init => InitLifecycle
  BY DEF Init
<1>2. ASSUME TypeOK, [Next]_vars
      PROVE  [NextLifecycle]_lifecycle
  <2> USE DEF NextLifecycle
  <2>1. ASSUME NEW q \in Queries, QueryStep(q)
        PROVE  UNCHANGED lifecycle \/ \E k \in Refusals : Refuse(k)
    <3>1. ASSUME NEW r \in Errors \cup {"ok"}, InnerExecute(q, r)
          PROVE  UNCHANGED lifecycle \/ (r \in Refusals /\ Refuse(r))
      BY <3>1 DEF InnerExecute, Refuse
    <3> QED BY <2>1, <3>1, ObserveCases
            DEF QueryStep, AskError, InnerError, NameGeneration, CallExecute, AdmitExecute, Screen
  <2>2. ASSUME WorkerStep
        PROVE  \/ UNCHANGED lifecycle
               \/ \E k \in Refusals : Refuse(k)
               \/ Install(gen + 1)
    <3>1. ASSUME NEW k \in Refusals, NEW c \in BOOLEAN, WorkerRefused(k, c)
          PROVE  UNCHANGED lifecycle \/ Refuse(k)
      BY <3>1 DEF WorkerRefused, Barred
    <3> QED BY <2>2, <3>1 DEF WorkerStep, WorkerStart, WorkerPreLogin, WorkerLogin, WorkerFails,
                              WorkerPersist, WorkerEnds
  <2>3. ASSUME SyncStart \/ SyncStep
        PROVE  UNCHANGED lifecycle \/ \E clears \in BOOLEAN : Rediscover(clears)
    BY <2>3 DEF SyncStart, SyncStep, SyncReads, SyncRefresh, SyncAdopt, SyncCommit
  <2>4. ASSUME NEW c \in {NoCred, gen + 1}, Reload(c)
        PROVE  Install(c)
    BY <2>4 DEF Reload
  <2>5. ASSUME CooldownElapses \/ \E r \in Revisions : ChangeInput(r)
        PROVE  UNCHANGED lifecycle
    BY <2>5 DEF CooldownElapses, ChangeInput
  <2>6. CASE UNCHANGED vars
    BY <2>6 DEF vars
  <2>7. Install(gen + 1) => NextLifecycle
    <3>1. gen + 1 \in {NoCred, gen + 1}
      OBVIOUS
    <3> QED BY <3>1
  <2> QED BY <1>2, <2>1, <2>2, <2>3, <2>4, <2>5, <2>6, <2>7 DEF Next
<1> QED BY <1>1, <1>2, TypeCorrect, PTL DEF Spec, SpecLifecycle

(***************************************************************************)
(* The member that the serving process is composed of.                     *)
(***************************************************************************)
SeenPhase == IF phase \in {"recovering", "persistence_failed"} THEN phase ELSE "open"

SeenWorker ==
  CASE worker.pc = "idle" -> "none"
    [] worker.pc \in {"prelogin", "login"} -> "sent"
    [] worker.pc = "persist" -> "unsaved"
    [] worker.pc = "done" -> IF worker.out = "ok" THEN "saved"
                             ELSE IF gen # worker.gen THEN "lost" ELSE "failed"
    [] OTHER -> "start"

Member == INSTANCE MemberTasks
            WITH phase <- SeenPhase, worker <- SeenWorker, calling <- (sync.pc # "idle")

(* A login that was installed and is to be saved has replaced the session  *)
(* that its worker began with.                                             *)
Replaced == worker.pc = "persist" => gen # worker.gen

Owning == TypeOK /\ Owned /\ Replaced

(* A query starts a worker, or sets a phase that leaves the member open.   *)
LEMMA MemberQuery ==
  ASSUME Owning, NEW q \in Queries, QueryStep(q)
  PROVE  Replaced' /\ [Member!NextMember]_(Member!member)
<1> USE DEF Owning
<1>1. CASE UNCHANGED <<gen, phase, worker, sync>>
  BY <1>1 DEF Replaced, Member!member, SeenPhase, SeenWorker
<1>2. CASE ~Observe(q)
  BY <1>1, <1>2, QuietQuery DEF shared
<1>3. ASSUME Observe(q), phase \notin Closed, MayStart, NEW i \in BOOLEAN, Spawn(i)
      PROVE  Replaced' /\ Member!Spawn
  <2>1. gen' = gen /\ sync' = sync
    BY <1>3, ObserveCases DEF lifecycle
  <2>2. worker.pc = "idle" /\ sync.pc = "idle" /\ phase \notin {"recovering", "persistence_failed"}
    BY <1>3 DEF Owned, OneOwner, Working, MayStart, Closed
  <2>3. worker'.pc = "start" /\ phase' = "recovering"
    BY <1>3 DEF Spawn, IdleWorker
  <2>4. SeenPhase = "open" /\ SeenWorker = "none" /\ SeenPhase' = "recovering" /\ SeenWorker' = "start"
    BY <2>2, <2>3 DEF SeenPhase, SeenWorker
  <2> QED BY <2>1, <2>2, <2>3, <2>4 DEF Replaced, Member!Spawn
<1>4. CASE /\ phase \notin Closed
           /\ phase' = PhaseOf(queries[q].res)
           /\ UNCHANGED <<gen, worker, sync>>
  <2>1. PhaseOf(queries[q].res) \notin {"recovering", "persistence_failed"}
    BY DEF PhaseOf
  <2>2. SeenPhase = "open" /\ SeenPhase' = "open"
    BY <1>4, <2>1 DEF SeenPhase, Closed
  <2> QED BY <1>4, <2>2 DEF Replaced, Member!member, SeenWorker
<1>5. CASE Observe(q)
  <2>1. UNCHANGED <<gen, sync>>
    BY <1>5, ObserveCases DEF lifecycle
  <2>2. CASE UNCHANGED <<phase, worker>>
    BY <1>1, <2>1, <2>2
  <2>3. CASE \E i \in BOOLEAN : phase \notin Closed /\ MayStart /\ Spawn(i)
    BY <1>3, <1>5, <2>3 DEF Member!NextMember
  <2>4. CASE phase \notin Closed /\ phase' = PhaseOf(queries[q].res) /\ worker' = worker
    BY <1>4, <2>1, <2>4
  <2> QED BY <1>5, <2>2, <2>3, <2>4, ObserveCases
<1> QED BY <1>2, <1>5

(* A worker goes on, or ends as its login did.                             *)
LEMMA MemberWorker ==
  ASSUME Owning, WorkerStep
  PROVE  Replaced' /\ [Member!NextMember]_(Member!member)
<1> USE DEF Owning
<1>w. worker \in WorkerRecord /\ gen \in Nat
  BY MaxGenAssumption DEF TypeOK, LifecycleTypeOK
<1>s. UNCHANGED sync
  BY DEF WorkerStep, WorkerStart, WorkerPreLogin, WorkerLogin, WorkerFails, WorkerRefused,
     WorkerPersist, WorkerEnds, Busy
<1>1. CASE WorkerStep /\ ~WorkerEnds
  <2>1. phase' = phase /\ SeenPhase' = SeenPhase
    BY <1>1 DEF WorkerStep, WorkerStart, WorkerPreLogin, WorkerLogin, WorkerFails, WorkerRefused,
       WorkerPersist, Busy, shared, SeenPhase
  <2>2. ASSUME NEW o \in Outcomes, Ends(o)
        PROVE  /\ worker'.pc = "done" /\ worker'.gen = worker.gen
               /\ SeenWorker' = IF o = "ok" THEN "saved"
                                ELSE IF gen' # worker.gen THEN "lost" ELSE "failed"
    <3>1. worker'.pc = "done" /\ worker'.gen = worker.gen /\ worker'.out = o
      BY <1>w, <2>2 DEF Ends, WorkerRecord
    <3> QED BY <3>1 DEF SeenWorker
  <2>3. CASE WorkerStart
    <3>1. worker.pc = "start" /\ SeenWorker = "start"
      BY <2>3 DEF WorkerStart, SeenWorker
    <3>2. CASE \E o \in {"invalid_config", "other"} : Ends(o) /\ UNCHANGED lifecycle
      <4>1. PICK o \in {"invalid_config", "other"} : Ends(o) /\ UNCHANGED lifecycle
        BY <3>2
      <4>2. gen' = gen /\ gen = worker.gen
        BY <3>1, <4>1 DEF lifecycle, Owned, OneOwner
      <4>3. SeenWorker' = "failed" /\ worker'.pc = "done"
        BY <2>2, <4>1, <4>2 DEF Outcomes
      <4> QED BY <1>s, <2>1, <3>1, <4>3
              DEF Replaced, Member!NextMember, Member!Works, Member!Goes
    <3>3. CASE worker' = [worker EXCEPT !.pc = "prelogin"]
      <4>1. worker'.pc = "prelogin"
        BY <1>w, <3>3 DEF WorkerRecord
      <4>2. SeenWorker' = "sent"
        BY <4>1 DEF SeenWorker
      <4> QED BY <1>s, <2>1, <3>1, <4>1, <4>2
              DEF Replaced, Member!NextMember, Member!Works, Member!Goes
    <3>4. CASE Ends("ok")
      <4>1. SeenWorker' = "saved" /\ worker'.pc = "done"
        BY <2>2, <3>4 DEF Outcomes
      <4> QED BY <1>s, <2>1, <3>1, <4>1
              DEF Replaced, Member!NextMember, Member!Works, Member!Goes
    <3> QED BY <2>3, <3>2, <3>3, <3>4 DEF WorkerStart
  <2>4. CASE WorkerPreLogin
    <3>1. worker.pc = "prelogin" /\ worker'.pc = "login"
      BY <1>w, <2>4 DEF WorkerPreLogin, WorkerRecord
    <3>2. SeenWorker = "sent" /\ SeenWorker' = "sent"
      BY <3>1 DEF SeenWorker
    <3> QED BY <1>s, <2>1, <3>1, <3>2 DEF Replaced, Member!member
  <2>5. CASE WorkerLogin
    <3>1. worker.pc = "login" /\ worker'.pc = "persist" /\ worker'.gen = gen /\ gen' = gen + 1
      BY <1>w, <2>5 DEF WorkerLogin, WorkerRecord, Install
    <3>2. SeenWorker = "sent" /\ SeenWorker' = "unsaved"
      BY <3>1 DEF SeenWorker
    <3> QED BY <1>w, <1>s, <2>1, <3>1, <3>2
            DEF Replaced, Member!NextMember, Member!Works, Member!Goes
  <2>6. ASSUME worker.pc \in {"prelogin", "login"}, gen' = gen,
               NEW o \in Outcomes \ {"ok"}, Ends(o)
        PROVE  Replaced' /\ Member!NextMember
    <3>1. gen = worker.gen /\ SeenWorker = "sent"
      BY <2>6 DEF Owned, OneOwner, SeenWorker
    <3>2. SeenWorker' = "failed" /\ worker'.pc = "done"
      BY <2>2, <2>6, <3>1
    <3> QED BY <1>s, <2>1, <3>1, <3>2
            DEF Replaced, Member!NextMember, Member!Works, Member!Goes
  <2>7. CASE WorkerFails
    <3>1. gen' = gen /\ worker.pc \in {"prelogin", "login"} /\ Ends("other")
      BY <2>7 DEF WorkerFails, lifecycle
    <3> QED BY <2>6, <3>1 DEF Outcomes
  <2>8. ASSUME NEW k \in Refusals, NEW c \in BOOLEAN, WorkerRefused(k, c)
        PROVE  Replaced' /\ Member!NextMember
    <3>1. gen' = gen /\ worker.pc \in {"prelogin", "login"}
      BY <2>8 DEF WorkerRefused, Refuse, Barred, lifecycle
    <3>2. PICK o \in Outcomes \ {"ok"} : Ends(o)
      BY <2>8 DEF WorkerRefused, Refusals, Outcomes
    <3> QED BY <2>6, <3>1, <3>2
  <2>9. ASSUME NEW o \in {"ok", "invalid_config", "other"}, WorkerPersist(o)
        PROVE  Replaced' /\ Member!NextMember
    <3>1. worker.pc = "persist" /\ Ends(o) /\ gen' = gen /\ gen # worker.gen
      BY <2>9 DEF WorkerPersist, lifecycle, Replaced
    <3>2. SeenWorker = "unsaved" /\ SeenWorker' \in {"saved", "lost"} /\ worker'.pc = "done"
      BY <2>2, <3>1 DEF SeenWorker, Outcomes
    <3> QED BY <1>s, <2>1, <3>2 DEF Replaced, Member!NextMember, Member!Works, Member!Goes
  <2> QED BY <1>1, <2>3, <2>4, <2>5, <2>7, <2>8, <2>9 DEF WorkerStep
<1>2. CASE WorkerEnds
  <2>1. /\ worker.pc = "done" /\ gen' = gen /\ worker' = IdleWorker /\ worker'.pc = "idle"
        /\ phase' = PhaseAfter(worker)
    BY <1>2 DEF WorkerEnds, lifecycle, IdleWorker
  <2>2. SeenWorker' = "none"
    BY <2>1 DEF SeenWorker
  <2>3. CASE worker.out = "ok"
    <3>1. SeenWorker = "saved" /\ SeenPhase' = "open"
      BY <2>1, <2>3 DEF SeenWorker, SeenPhase, PhaseAfter
    <3>2. Member!End("open")
      BY <1>s, <2>2, <3>1 DEF Member!End
    <3> QED BY <2>1, <3>2 DEF Replaced, Member!NextMember
  <2>4. CASE worker.out # "ok" /\ gen # worker.gen
    <3>1. SeenWorker = "lost" /\ SeenPhase' = "persistence_failed"
      BY <2>1, <2>4 DEF SeenWorker, SeenPhase, PhaseAfter
    <3>2. Member!End("persistence_failed")
      BY <1>s, <2>2, <3>1 DEF Member!End
    <3> QED BY <2>1, <3>2 DEF Replaced, Member!NextMember
  <2>5. CASE worker.out # "ok" /\ gen = worker.gen
    <3>1. SeenWorker = "failed"
      BY <2>1, <2>5 DEF SeenWorker
    <3>2. ByErrorOnly(worker) # "recovering"
      BY DEF ByErrorOnly
    <3>3. phase' # "recovering"
      BY <2>1, <2>5, <3>2 DEF PhaseAfter
    <3>4. SeenPhase' \in {"open", "persistence_failed"}
      BY <3>3 DEF SeenPhase
    <3>5. \E after \in {"open", "persistence_failed"} : Member!End(after)
      BY <1>s, <2>2, <3>1, <3>4 DEF Member!End
    <3> QED BY <2>1, <3>5 DEF Replaced, Member!NextMember
  <2> QED BY <2>3, <2>4, <2>5
<1> QED BY <1>1, <1>2

(* The poller takes the session of an open member, and gives it back.      *)
LEMMA MemberSync ==
  ASSUME Owning, SyncStart \/ SyncStep
  PROVE  Replaced' /\ [Member!NextMember]_(Member!member)
<1> USE DEF Owning
<1>y. sync \in SyncRecord
  BY DEF TypeOK
<1>w. worker' = worker
  BY DEF SyncStart, SyncStep, SyncReads, SyncRefresh, SyncAdopt, SyncCommit, Polling
<1>i. worker.pc = "idle" /\ phase \notin Closed
  BY DEF SyncStart, SyncMayStart, SyncStep, SyncReads, SyncRefresh, SyncAdopt, SyncCommit, Owned,
     OneOwner, Working, Closed
<1>p. SeenWorker' = SeenWorker /\ SeenPhase = "open" /\ Replaced'
  BY <1>w, <1>i DEF SeenWorker, SeenPhase, Closed, Replaced
<1>1. CASE SyncStart
  <2>1. sync.pc = "idle" /\ sync'.pc = "begin" /\ phase' = phase
    BY <1>1 DEF SyncStart, IdleSync
  <2>2. SeenPhase' = SeenPhase
    BY <2>1 DEF SeenPhase
  <2> QED BY <1>p, <2>1, <2>2 DEF Member!NextMember, Member!Call
<1>2. CASE SyncReads \/ SyncRefresh \/ SyncAdopt
  <2>1. phase' = phase
    BY <1>2 DEF SyncReads, SyncRefresh, SyncAdopt, Polling, shared
  <2>2. sync.pc # "idle" /\ sync'.pc # "idle"
    BY <1>2, <1>y DEF SyncReads, SyncRefresh, SyncAdopt, SyncRecord
  <2>3. SeenPhase' = SeenPhase
    BY <2>1 DEF SeenPhase
  <2> QED BY <1>p, <2>2, <2>3 DEF Member!member
<1>3. CASE SyncCommit
  <2>1. sync.pc = "commit" /\ sync'.pc = "idle" /\ phase' \in {phase, "unverified"}
    BY <1>3 DEF SyncCommit, IdleSync
  <2>2. SeenPhase' = SeenPhase
    BY <1>p, <2>1 DEF SeenPhase
  <2> QED BY <1>p, <2>1, <2>2 DEF Member!NextMember, Member!Answer
<1> QED BY <1>1, <1>2, <1>3 DEF SyncStep

(* ManagedClient implements the member that Gateway composes: whatever the *)
(* queries and the game do, its worker, its poller and its phase step as   *)
(* MemberTasks says (managed.rs, managed/versions.rs).                     *)
THEOREM MemberImplements == Spec => Member!SpecMember
<1>1. Init => Replaced /\ Member!InitMember
  BY DEF Init, IdleWorker, IdleSync, Replaced, Member!InitMember, SeenPhase, SeenWorker
<1>2. ASSUME IInv, Replaced, [Next]_vars
      PROVE  Replaced' /\ [Member!NextMember]_(Member!member)
  <2>0. Owning
    BY <1>2 DEF IInv, Owning
  <2>1. CASE UNCHANGED <<gen, phase, worker, sync>>
    BY <1>2, <2>1 DEF Replaced, Member!member, SeenPhase, SeenWorker
  <2>2. ASSUME NEW c \in {NoCred, gen + 1}, Reload(c)
        PROVE  Replaced' /\ Member!Reload
    <3>1. /\ worker.pc = "idle" /\ sync.pc = "idle" /\ phase # "recovering"
          /\ UNCHANGED <<worker, sync>> /\ phase' = "unverified"
      BY <2>0, <2>2 DEF Reload, MayReload, Owning, Owned, OneOwner, Working
    <3>2. SeenWorker' = SeenWorker /\ SeenPhase # "recovering" /\ SeenPhase' = "open"
      BY <3>1 DEF SeenWorker, SeenPhase
    <3> QED BY <3>1, <3>2 DEF Replaced, Member!Reload
  <2>3. CASE CooldownElapses \/ \E r \in Revisions : ChangeInput(r)
    BY <2>1, <2>3 DEF CooldownElapses, ChangeInput, lifecycle, shared
  <2>4. CASE UNCHANGED vars
    BY <2>1, <2>4 DEF vars, lifecycle, shared
  <2> QED BY <1>2, <2>0, <2>2, <2>3, <2>4, MemberQuery, MemberWorker, MemberSync
          DEF Next, Member!NextMember
<1> QED BY <1>1, <1>2, Invariance, PTL DEF Spec, Member!SpecMember
=============================================================================

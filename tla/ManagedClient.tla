---------------------------- MODULE ManagedClient ----------------------------
(***************************************************************************)
(* The server's ManagedClient: it watches the outcome of protected queries *)
(* and, when the game has refused the session or there is none, starts at  *)
(* most one background worker that loads or logs in a new one.  A version  *)
(* poller rotates the same session, and SIGHUP replaces it.  All of them   *)
(* meet in one mutex-protected State, between whose critical sections the  *)
(* inner client (SessionLifecycle) moves on its own.                       *)
(*                                                                         *)
(* Left out: anonymous queries, which touch nothing here; the status       *)
(* counters and last_error, which nothing reads but /v1/status; and the    *)
(* stop token, which only ends things early: to stop is to fail a worker   *)
(* and not to take the poller's or a query's next step.                    *)
(***************************************************************************)
EXTENDS SessionLifecycle

CONSTANTS
  Queries,      \* protected queries under way at the same time
  Revisions,    \* revisions of the account input
  HasRecovery,  \* whether ManagedClient::recovery is set
  HasLoader,    \* whether ManagedClient::initial_loader is set
  Follow        \* follow_client_updates

ASSUME ManagedAssumption ==
  /\ HasRecovery \in BOOLEAN
  /\ HasLoader \in BOOLEAN
  /\ Follow \in BOOLEAN

VARIABLES
  phase,            \* State::phase
  attempted,        \* State::attempted, 0 for None
  initialAttempted, \* State::initial_attempted, a generation and a revision
  rejectedAttempt,  \* State::version_rejected_attempt, 0 for None
  cooling,          \* whether the cooldown since last_attempt still runs
  updating,         \* State::version_updating
  worker,           \* the spawned recovery task
  sync,             \* the version poller
  queries,          \* the callers of query_error and execute
  revision,         \* what input_revision() would return now
  unsaved,          \* history: the session a worker installed but did not persist, or 0
  runs,             \* history: workers started for the current credential and input
  fault             \* history: the last worker was refused with CLIENT_UPDATE_REQUIRED

shared  == <<phase, attempted, initialAttempted, rejectedAttempt, cooling, updating>>
history == <<unsaved, runs, fault>>
vars    == <<lifecycle, shared, worker, sync, queries, revision, history>>

NoGen == 0
Phases == {"unverified", "ready", "recovering", "recovered", "reauthentication_required",
           "version_blocked", "device_conflict", "persistence_failed"}
ClosedWhileRecovering == {"recovering"}
Closed == {"recovering", "persistence_failed"}  \* phases that turn protected queries away

Errors   == Refusals \cup {"auth_required", "other"}
Outcomes == {"ok", "client_update", "version", "device", "invalid_config", "other"}

IdleWorker == [pc |-> "idle", gen |-> NoGen, initial |-> FALSE, out |-> "ok"]
IdleSync   == [pc |-> "idle", gen |-> NoGen, changed |-> FALSE, followed |-> FALSE]
IdleQuery  == [pc |-> "idle", gen |-> NoGen, seen |-> NoGen, res |-> "ok"]

NoRuns == [login |-> 0, load |-> 0]
NeverLoaded == [gen |-> NoGen, rev |-> CHOOSE r \in Revisions : TRUE]

WorkerRecord == [pc : {"idle", "start", "prelogin", "login", "persist", "done"},
                 gen : 0..MaxGen, initial : BOOLEAN, out : Outcomes]
SyncRecord   == [pc : {"idle", "begin", "refresh", "adopt", "commit"},
                 gen : 0..MaxGen, changed : BOOLEAN, followed : BOOLEAN]
QueryRecord  == [pc : {"idle", "asked", "called", "exec", "raised", "report", "observe"},
                 gen : 0..MaxGen, seen : 0..MaxGen, res : Errors \cup {"ok"}]
Loads        == [gen : 0..MaxGen, rev : Revisions]

TypeOK ==
  /\ LifecycleTypeOK
  /\ phase \in Phases
  /\ attempted \in 0..MaxGen /\ rejectedAttempt \in 0..MaxGen
  /\ initialAttempted \in Loads
  /\ cooling \in BOOLEAN /\ updating \in BOOLEAN
  /\ worker \in WorkerRecord
  /\ sync \in SyncRecord
  /\ queries \in [Queries -> QueryRecord]
  /\ revision \in Revisions
  /\ unsaved \in 0..MaxGen
  /\ runs \in [login : Nat, load : Nat]
  /\ fault \in BOOLEAN

Init ==
  /\ InitLifecycle
  /\ phase = "unverified"
  /\ attempted = NoGen /\ rejectedAttempt = NoGen
  /\ initialAttempted = NeverLoaded
  /\ cooling = FALSE /\ updating = FALSE
  /\ worker = IdleWorker
  /\ sync = IdleSync
  /\ queries = [q \in Queries |-> IdleQuery]
  /\ revision \in Revisions
  /\ unsaved = NoGen /\ runs = NoRuns /\ fault = FALSE

(***************************************************************************)
(* Protected queries.  query_error looks at the phase, then at the inner   *)
(* client, then reports what it saw under the generation it reads last.    *)
(*                                                                         *)
(* In this module the definition right before Closed, AdmitExecute,        *)
(* PhaseAfter, WorkerFails, SyncRefresh, SyncMayStart or Carried is a slip *)
(* in that one, which the runs catch.                                      *)
(***************************************************************************)
Set(q, r)  == queries' = [queries EXCEPT ![q] = r]
Quiet      == UNCHANGED <<shared, worker, sync, revision, history>>

AskError(q) ==
  /\ queries[q].pc = "idle" /\ phase \notin Closed
  /\ Set(q, [IdleQuery EXCEPT !.pc = "asked"])
  /\ UNCHANGED lifecycle /\ Quiet

InnerError(q) ==
  /\ queries[q].pc = "asked"
  /\ Set(q, IF QueryError(FALSE) = "none" THEN IdleQuery
            ELSE [pc |-> "raised", gen |-> NoGen, seen |-> gen, res |-> QueryError(FALSE)])
  /\ UNCHANGED lifecycle /\ Quiet

NameGeneration(q) ==
  /\ queries[q].pc = "raised"
  /\ Set(q, [queries[q] EXCEPT !.pc = "report", !.gen = gen])
  /\ UNCHANGED lifecycle /\ Quiet

(* execute(generation, ...): the caller has read the generation before;    *)
(* the phase is looked at once, then the inner client runs the query.      *)
CallExecute(q) ==
  /\ queries[q].pc = "idle"
  /\ Set(q, [IdleQuery EXCEPT !.pc = "called", !.gen = gen])
  /\ UNCHANGED lifecycle /\ Quiet

AdmitUnchecked(q) ==
  /\ queries[q].pc = "called"
  /\ Set(q, [queries[q] EXCEPT !.pc = "exec"])
  /\ UNCHANGED lifecycle /\ Quiet
AdmitExecute(q) ==
  /\ queries[q].pc = "called"
  /\ Set(q, IF phase \in Closed THEN IdleQuery ELSE [queries[q] EXCEPT !.pc = "exec"])
  /\ UNCHANGED lifecycle /\ Quiet

Reported(q, r) == [queries[q] EXCEPT !.pc = "report", !.seen = gen, !.res = r]

(* The inner call at the moment its outcome is settled: the game answers,  *)
(* refuses (and the client blocks the session), or the call fails locally. *)
InnerExecute(q, r) ==
  /\ queries[q].pc = "exec"
  /\ IF queries[q].gen # gen
     THEN r = "other" /\ Set(q, IdleQuery) /\ UNCHANGED lifecycle  \* SessionChanged
     ELSE /\ Set(q, Reported(q, r))
          /\ \/ r = "auth_required" /\ cred = NoCred /\ UNCHANGED lifecycle
             \/ r = "other" /\ cred # NoCred /\ UNCHANGED lifecycle
             \/ r = blocked /\ cred # NoCred /\ blocked # "none" /\ UNCHANGED lifecycle
             \/ r = "ok" /\ cred # NoCred /\ blocked = "none" /\ UNCHANGED lifecycle
             \/ cred # NoCred /\ blocked = "none" /\ Refuse(r)
  /\ Quiet

(* observed(): the checks made before the State mutex is taken. *)
Screen(q) ==
  /\ queries[q].pc = "report"
  /\ Set(q, IF queries[q].gen # gen THEN IdleQuery
            ELSE [queries[q] EXCEPT !.pc = "observe"])
  /\ UNCHANGED lifecycle /\ Quiet

PhaseOf(r) ==
  CASE r = "ok" -> "ready"
    [] r = "version" -> "version_blocked"
    [] r = "device" -> "device_conflict"
    [] r \in {"authentication", "auth_required"} -> "reauthentication_required"
    [] OTHER -> "unverified"

Spawn(initial) ==
  /\ worker' = [IdleWorker EXCEPT !.pc = "start", !.gen = gen, !.initial = initial]
  /\ phase' = "recovering"
  /\ rejectedAttempt' = NoGen
  /\ fault' = FALSE
  /\ runs' = IF initial THEN [runs EXCEPT !.load = @ + 1] ELSE [runs EXCEPT !.login = @ + 1]

(* observed(): the critical section.                                       *)
AlreadyLoaded(q) ==
  /\ queries[q].res = "auth_required" /\ HasLoader
  /\ initialAttempted = [gen |-> gen, rev |-> revision]

MayStart == ~updating

StartsLoad(q) ==
  /\ queries[q].res = "auth_required" /\ MayStart /\ HasLoader

StartsLogin(q) ==
  /\ queries[q].res = "authentication" /\ MayStart /\ HasRecovery
  /\ attempted # gen /\ ~cooling

Observe(q) ==
  /\ queries[q].pc = "observe"
  /\ Set(q, IdleQuery)
  /\ UNCHANGED <<lifecycle, updating, sync, revision, unsaved>>
  /\ IF queries[q].gen # gen \/ phase \in Closed \/ AlreadyLoaded(q)
     THEN UNCHANGED <<phase, attempted, initialAttempted, rejectedAttempt, cooling, worker,
                      runs, fault>>
     ELSE \/ /\ StartsLoad(q)
             /\ Spawn(TRUE)
             /\ initialAttempted' = [gen |-> gen, rev |-> revision]
             /\ UNCHANGED <<attempted, cooling>>
          \/ /\ StartsLogin(q)
             /\ Spawn(FALSE)
             /\ attempted' = gen /\ cooling' = TRUE
             /\ UNCHANGED initialAttempted
          \/ /\ ~StartsLoad(q) /\ ~StartsLogin(q)
             /\ phase' = PhaseOf(queries[q].res)
             /\ UNCHANGED <<attempted, initialAttempted, rejectedAttempt, cooling, worker,
                            runs, fault>>

(***************************************************************************)
(* The worker.  A login worker is GameRecovery::recover; a load worker     *)
(* installs a saved or imported session, or logs in for the first time.    *)
(***************************************************************************)
Busy == UNCHANGED <<shared, sync, queries, revision, runs, fault>>

Ends(o) == worker' = [worker EXCEPT !.pc = "done", !.out = o]

(* Local checks: any of them can fail, and a stale generation or a version *)
(* or device block always does.  A load worker may find a saved session.   *)
WorkerStart ==
  /\ worker.pc = "start"
  /\ \/ \E o \in {"invalid_config", "other"} : Ends(o) /\ UNCHANGED <<lifecycle, unsaved>>
     \/ /\ gen = worker.gen /\ blocked \notin Permanent
        /\ worker.initial => cred = NoCred \/ blocked = "authentication"
        /\ worker' = [worker EXCEPT !.pc = "prelogin"]
        /\ UNCHANGED <<lifecycle, unsaved>>
     \/ /\ worker.initial /\ gen = worker.gen
        /\ Install(gen + 1) /\ Ends("ok")
        /\ UNCHANGED unsaved
  /\ Busy

(* An RPC of the worker is refused: by the game, or by the client itself,  *)
(* which sends nothing on a session that a query got blocked for its       *)
(* version or its device meanwhile.                                        *)
Barred(k) == blocked \in Permanent /\ k = blocked /\ UNCHANGED lifecycle
WorkerRefused(k, clientUpdate) ==
  /\ worker.pc \in {"prelogin", "login"}
  /\ \/ Refuse(k) /\ (clientUpdate => k = "version")
     \/ Barred(k) /\ ~clientUpdate
  /\ Ends(CASE clientUpdate -> "client_update"
            [] ~clientUpdate /\ k = "authentication" -> "other"
            [] OTHER -> k)
  /\ UNCHANGED unsaved /\ Busy

RetriesForever ==
  /\ worker.pc \in {"prelogin", "login"}
  /\ worker' = [worker EXCEPT !.pc = "prelogin"]
  /\ UNCHANGED <<lifecycle, unsaved>> /\ Busy
WorkerFails ==  \* includes the 120 s deadline, the stop token and an absent role
  /\ worker.pc \in {"prelogin", "login"}
  /\ Ends("other")
  /\ UNCHANGED <<lifecycle, unsaved>> /\ Busy

WorkerPreLogin ==
  /\ worker.pc = "prelogin" /\ blocked \notin Permanent
  /\ worker' = [worker EXCEPT !.pc = "login"]
  /\ UNCHANGED <<lifecycle, unsaved>> /\ Busy

WorkerLogin ==
  /\ worker.pc = "login" /\ gen = worker.gen /\ blocked \notin Permanent
  /\ Install(gen + 1)
  /\ worker' = [worker EXCEPT !.pc = "persist"]
  /\ unsaved' = gen + 1
  /\ Busy

(* Identity check, cancellation check and persistence run in the poll that *)
(* brought the login's answer: no timer can come between.                  *)
WorkerPersist(o) ==
  /\ worker.pc = "persist" /\ o \in {"ok", "invalid_config", "other"}
  /\ Ends(o)
  /\ unsaved' = IF o = "ok" THEN NoGen ELSE unsaved
  /\ UNCHANGED lifecycle /\ Busy

ByErrorOnly(w) ==
  CASE w.out \in {"client_update", "version"} -> "version_blocked"
    [] w.out = "device" -> "device_conflict"
    [] w.out = "invalid_config" /\ ~w.initial -> "persistence_failed"
    [] OTHER -> "reauthentication_required"

PhaseAfter(w) ==
  CASE w.out = "ok" -> IF w.initial THEN "unverified" ELSE "recovered"
    [] w.out # "ok" -> IF gen # w.gen THEN "persistence_failed" ELSE ByErrorOnly(w)

WorkerEnds ==
  /\ worker.pc = "done"
  /\ phase' = PhaseAfter(worker)
  /\ rejectedAttempt' = IF worker.out = "client_update" /\ gen = worker.gen
                        THEN worker.gen ELSE rejectedAttempt
  /\ fault' = (worker.out = "client_update")
  /\ runs' = IF worker.out = "ok" THEN NoRuns ELSE runs
  /\ worker' = IdleWorker
  /\ UNCHANGED <<lifecycle, attempted, initialAttempted, cooling, updating, sync, queries,
                 revision, unsaved>>

(***************************************************************************)
(* The version poller: sync_versions.                                      *)
(***************************************************************************)
SyncIgnoresPhase == ~updating
SyncMayStart == ~updating /\ phase \notin Closed

SyncStart ==
  /\ sync.pc = "idle" /\ SyncMayStart
  /\ updating' = TRUE
  /\ sync' = [IdleSync EXCEPT !.pc = "begin"]
  /\ UNCHANGED <<lifecycle, phase, attempted, initialAttempted, rejectedAttempt, cooling,
                 worker, queries, revision, history>>

Polling == UNCHANGED <<shared, worker, queries, revision, history>>

SyncReads ==
  /\ sync.pc = "begin"
  /\ sync' = [sync EXCEPT !.pc = "refresh", !.gen = gen]
  /\ UNCHANGED lifecycle /\ Polling

RepeatsRefresh ==
  /\ sync.pc = "refresh"
  /\ UNCHANGED <<lifecycle, sync>> /\ Polling

(* refresh_versions: a changed pair is installed, which lifts the block    *)
(* of an explicit master mismatch; or nothing changes; or it fails.        *)
SyncRefresh ==
  /\ sync.pc = "refresh"
  /\ \/ /\ gen = sync.gen
        /\ \E clears \in BOOLEAN : Rediscover(clears)
        /\ sync' = [sync EXCEPT !.pc = "commit", !.changed = TRUE]
     \/ sync' = [sync EXCEPT !.pc = "commit"] /\ UNCHANGED lifecycle
     \/ Follow /\ sync' = [sync EXCEPT !.pc = "adopt"] /\ UNCHANGED lifecycle
  /\ Polling

(* CLIENT_UPDATE_REQUIRED: up to three patch releases are tried; the first *)
(* accepted one is installed and lifts the version block.                  *)
SyncAdopt ==
  /\ sync.pc = "adopt"
  /\ \/ /\ gen = sync.gen /\ Rediscover(TRUE)
        /\ sync' = [sync EXCEPT !.pc = "commit", !.changed = TRUE, !.followed = TRUE]
     \/ sync' = [sync EXCEPT !.pc = "commit"] /\ UNCHANGED lifecycle
  /\ Polling

(* The closing critical section: attempts made under the old generation    *)
(* are carried to the new one, unless a refused client version was the     *)
(* worker's reason to fail and a new one has been adopted.                 *)
Rearms == sync.followed /\ rejectedAttempt = sync.gen

NeverCarries(g) == g
Carried(g) ==
  IF g # sync.gen THEN g ELSE IF Rearms THEN NoGen ELSE gen

SyncCommit ==
  /\ sync.pc = "commit"
  /\ updating' = FALSE
  /\ IF sync.changed
     THEN /\ attempted' = Carried(attempted)
          /\ initialAttempted' = [initialAttempted EXCEPT !.gen = Carried(@)]
          /\ rejectedAttempt' = Carried(rejectedAttempt)
          /\ phase' = IF Rearms \/ QueryError(FALSE) = "none" THEN "unverified" ELSE phase
     ELSE UNCHANGED <<attempted, initialAttempted, rejectedAttempt, phase>>
  /\ sync' = IdleSync
  /\ runs' = IF sync.followed /\ fault THEN NoRuns ELSE runs
  /\ UNCHANGED <<lifecycle, cooling, worker, queries, revision, unsaved, fault>>

(***************************************************************************)
(* SIGHUP, the operator and time.                                          *)
(***************************************************************************)
MayReload == phase # "recovering" /\ ~updating

Reload(c) ==
  /\ MayReload
  /\ Install(c)
  /\ phase' = "unverified"
  /\ attempted' = NoGen /\ rejectedAttempt' = NoGen /\ initialAttempted' = NeverLoaded
  /\ cooling' = FALSE
  /\ unsaved' = NoGen /\ runs' = NoRuns /\ fault' = FALSE
  /\ UNCHANGED <<updating, worker, sync, queries, revision>>

ChangeInput(r) ==
  /\ revision # r
  /\ revision' = r
  /\ runs' = [runs EXCEPT !.load = 0]
  /\ UNCHANGED <<lifecycle, shared, worker, sync, queries, unsaved, fault>>

CooldownElapses ==
  /\ cooling /\ cooling' = FALSE
  /\ UNCHANGED <<lifecycle, phase, attempted, initialAttempted, rejectedAttempt, updating,
                 worker, sync, queries, revision, history>>

QueryStep(q) ==
  \/ AskError(q) \/ InnerError(q) \/ NameGeneration(q)
  \/ CallExecute(q) \/ AdmitExecute(q) \/ \E r \in Errors \cup {"ok"} : InnerExecute(q, r)
  \/ Screen(q) \/ Observe(q)

WorkerStep ==
  \/ WorkerStart \/ WorkerPreLogin \/ WorkerLogin \/ WorkerFails
  \/ \E k \in Refusals, c \in BOOLEAN : WorkerRefused(k, c)
  \/ \E o \in {"ok", "invalid_config", "other"} : WorkerPersist(o)
  \/ WorkerEnds

SyncStep == SyncReads \/ SyncRefresh \/ SyncAdopt \/ SyncCommit

Next ==
  \/ \E q \in Queries : QueryStep(q)
  \/ WorkerStep
  \/ SyncStart \/ SyncStep
  \/ \E c \in {NoCred, gen + 1} : Reload(c)
  \/ \E r \in Revisions : ChangeInput(r)
  \/ CooldownElapses

(* A worker has a deadline and every client call of the poller a timeout,  *)
(* so the tasks once spawned keep stepping; nothing makes a query arrive.  *)
Fairness == WF_vars(WorkerStep) /\ WF_vars(SyncStep)

Spec     == Init /\ [][Next]_vars
LiveSpec == Spec /\ Fairness

(***************************************************************************)
(* Properties                                                              *)
(***************************************************************************)
Working == worker.pc # "idle"

(* One owner of the session at a time (managed.rs observed, reload;        *)
(* versions.rs sync_versions): a worker runs exactly while the phase says  *)
(* so, the poller only while version_updating, never both; and until the   *)
(* owner itself installs a session, nobody rotates the one it works on.    *)
OneOwner ==
  /\ Working <=> phase = "recovering"
  /\ updating <=> sync.pc # "idle"
  /\ ~(Working /\ updating)
  /\ worker.pc \in {"start", "prelogin", "login"} => gen = worker.gen
  /\ sync.pc \in {"refresh", "adopt"} => gen = sync.gen

(* A login that was installed but not persisted is hidden: until it is     *)
(* saved or the operator reloads, the phase turns protected queries away.  *)
UnsavedIsHidden == unsaved # NoGen => unsaved = gen /\ phase \in Closed

(* ... and no protected query is ever answered under such a session, even  *)
(* one that looked at the phase before the worker began (docs/accounts.md: *)
(* "an unpersisted login is not treated as ready").                        *)
UnsavedNeverServed ==
  [][\A q \in Queries : queries[q].pc = "exec" /\ queries'[q].pc = "report"
                          /\ queries'[q].res = "ok" => gen # unsaved]_vars

(* PersistenceFailed is left only by the operator's reload, whatever       *)
(* queries, poller and late results do.                                    *)
PersistenceFailedIsFinal ==
  [][phase = "persistence_failed" /\ phase' # phase => gen' = gen + 1 /\ ~Working /\ ~updating]_vars

(* At most one login is started for a credential, and one load for an      *)
(* input revision, however often version discovery renames the session;    *)
(* only a worker refused with CLIENT_UPDATE_REQUIRED earns another, once a *)
(* new client version is adopted (operations.md, Recovery).                *)
AttemptBudget == runs.login <= 1 /\ runs.load <= 1

(* wait_idle returns, and a reload is not refused for ever. *)
WorkersEnd == Working ~> ~Working
SyncsEnd   == updating ~> ~updating

(* docs/accounts.md: "Cache generations change; stale results cannot cross *)
(* the session boundary."  A phase is set only by what was seen of the     *)
(* session that is current when it is set.                                 *)
StaleNeverCrosses ==
  [][\A q \in Queries : queries[q].pc = "observe" /\ queries'[q].pc = "idle" /\ phase' # phase
       => queries[q].seen = gen]_vars
=============================================================================

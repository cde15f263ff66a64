# moenotes-api in TLA+

TLA+ models of the moenotes-api gateway: the game client library (`client/`) and
the server that shares its sessions between HTTP callers (`server/`). They are
checked with TLC on small instances; what matters most is proved with TLAPS for
every instance. Line numbers refer to the repository this directory belongs to.

## The system

| Part | State | Operations | Interacts with |
|---|---|---|---|
| **Game client** `client/src/lib.rs`, `versions.rs`, `auth.rs`, `jp.rs` | one current `Session` (generation, credential, block, mismatch flag, device-override flag, cancel token) behind an `RwLock`; a serial slot with a rate interval; an admission semaphore | `execute`, `pre_login_with_sdk`, `login_with_sdk`, `register_jp`, `refresh_versions`, `adopt_client_version`, `replace_session`, `import_credentials` | the game over gRPC; called by everything below |
| **Managed recovery** `server/src/managed.rs`, `managed/versions.rs` | one mutex-protected `State`: phase, attempts made, cooldown, `version_updating`; at most one spawned worker, one version poller | `query_error`, `execute`, `observed`, the worker, `sync_versions`, `reload` | wraps the client as a `QueryClient`; asked by cache and pool |
| **Account loading** `server/src/accounts.rs` | the selected identity; files | `recover`, `input_revision`, `reset` | is the worker that ManagedClient starts for a missing session; uses the SDK login and the persisted login state |
| **Query cache** `server/src/cache.rs` | entries, byte count, flights; a spawned task per flight | `query` | one per session, asks ManagedClient |
| **Session pool** `server/src/pool.rs` | round-robin cursor, per member a cooldown | `query`, `ready`, `status` | one per region, over caches and managed clients |
| **Persisted login state** `server/src/operator.rs`, `client/src/session.rs`, `secret_file.rs` | snapshots, `current.json`, `pending.json`, `operator.lock` | `persist`, `credentials`, `sdk_login`, `game_login` | read and written by workers, reload and the CLI |
| **JP registration** `client/src/jp.rs`, `server/src/jp_operator.rs` | marker, raw response, credential file | `register_jp`, import of a retained response | CLI only |
| **SDK login** `client/src/sdk_http*` | one RSA and one password request | password login | account loading, CLI |
| **Runtime, main** `server/src/runtime.rs`, `main.rs` | members, stop token | start, SIGHUP reload, graceful shutdown | builds everything |
| **HTTP gateway** `server/src/lib.rs`, `regions.rs`, `diagnostics.rs` | 64 admission permits, requests in progress | one handler per route | pools |
| **Configuration and startup** `server/src/config.rs`, `config_file.rs`, `startup.rs` | the configuration, fixed once read | `inspect`, `from_text`, the template | decides what `main.rs` builds |
| **Requests** `server/src/path_routes.rs`, `query_params.rs`, `client/src/query.rs` | none | path and query parameters to a `Query` and a region | between gateway and pools |
| Projection, OpenAPI, transport, protobuf | none that survives a call | pure functions or I/O | |

### What is hard, and what makes each part correct

* **Game client.** Calls overlap at every await: the queue, the rate interval,
  the RPC. Meanwhile the session may be replaced or blocked, the caller may
  cancel, the timer may fire. Correct means: nothing authenticated leaves under
  a blocked session; an older call never overwrites a newer session; the
  one-time device override is spent once; every call returns.
* **Managed recovery.** Queries, worker, poller and SIGHUP meet in one mutex,
  but the session they talk about moves between their critical sections.
  Correct means: one owner of the session at a time; a login that was installed
  but not saved is never used; attempts are bounded per credential although
  version discovery keeps renaming the session; every worker and check ends.
* **Query cache.** Flights outlive their callers and sessions outlive neither.
  Correct means: an answer never crosses a session; nobody inherits another
  session's failure; one flight per key and none forgotten; exact byte count.
* **Session pool.** The scan is not atomic with the sessions it looks at.
  Correct means: fair rotation among the members that stay available; only a
  session's own failures cool it down.
* **Accounts and persisted logins.** A login is two SDK requests, two game
  requests and up to five files, and a server and an operator's command may both
  be at it in one directory; answers get lost and processes die between any two
  of these. Correct means: the published pointer leads to a complete pair of
  snapshots or nowhere, and never back; a password is sent only where no
  authorization is at hand; a server keeps to one account; a role is created
  only where that was asked for.
* **JP registration.** The request must not be repeated and its answer exists
  once. Correct means: one request per directory, whatever crashes; the answer
  kept before anything is made of it; no file overwritten.
* **Runtime, start-up, gateway.** One stop token reaches the queries, the
  workers and the pollers of every region, at whatever point they are, while
  requests go on arriving and a handler waits for whatever body its client has
  announced. Correct means: no login half done when the listener closes, and it
  does close whatever clients do; permits given back however a handler ends; a
  request asked of the region its path says; no two regions with one state
  directory.

The list of hazards, each at its line and with the property that covers it or
the reason why none does, is in `PROJECT.json`.

## The modules

| Module | Models | Used by |
|---|---|---|
| `SessionLifecycle` | abstract contract of the client's session: the current generation, its credential and its block, changed by `Refuse`, `Install`, `Rediscover` only | EXTENDed by `QueryCache` and `ManagedClient`; implemented by `GameClient` |
| `GameClient` | the client library, call by call | `MCGameClient` |
| `ManagedClient` | recovery worker, version poller, reload, queries' observations | `MCManagedClient`, `ManagedClientProofs` |
| `QueryCache` | cache, flights and waiters over one session | `MCQueryCache`, `QueryCacheProofs` |
| `SessionPool` | cursor, cooldowns, choice | `MCSessionPool` |
| `MemberTasks` | abstract contract of one member's tasks, the worker and the version poller, as the serving process sees them | implemented by `ManagedClient` and by every member of `Gateway` |
| `SdkHttp` | configurations, requests and answers of the SDK's login, as operators | `AccountLogin`, `Startup` |
| `PublishedLogin` | abstract contract of the state directories: what is published is a login the game issued, each later than the one before | implemented by `AccountLogin` |
| `AccountLogin` | account files, password login, role login, snapshots, pointers, the lock; servers and commands that stop, crash and restart | `MCAccountLogin` |
| `SecretFiles` | private files and directories: what may be read, what is created anew | `JpRegistration` |
| `JpRegistration` | registration, its marker and two files, the import, the JP account loader | `MCJpRegistration` |
| `Startup` | what a configuration and the files it points to come to, as operators | `Requests`, `Gateway` |
| `Requests` | routes, parameters, regions and refusals, as operators | `Gateway` |
| `Gateway` | the process from start to exit: requests, workers, version tasks, reload, shutdown | `MCGateway` |
| `GameClientProofs`, `ManagedClientProofs`, `QueryCacheProofs`, `SessionPoolProofs`, `JpRegistrationProofs`, `AccountLoginProofs`, `GatewayProofs` | theorems about the module of that name, with proofs | |
| `AccountPolicyProofs` | theorems about `AccountLogin` that rest on `AccountLoginProofs` | |

How they fit together: `GameClient` is shown by TLC, and proved, to implement
`SessionLifecycle` (refinement mapping: `cred` and `blocked` are fields of the
current session). `QueryCache` and `ManagedClient` then use the contract instead
of the client, so neither carries the client's queue. `SessionPool` needs of a
member only its generation and whether it refuses. Throughout, a UUID generation
becomes a counter: only equality is ever asked of it.

`AccountLogin` opens up the worker that `ManagedClient` starts: what is one step
there (`WorkerLogin`, `WorkerPersist`) is here every request and every file. What
it takes from `ManagedClient` is that one worker runs at a time and that nobody
else rotates the session meanwhile (`OneOwner`, proved). `Gateway` composes the
outsides of `ManagedClient`, `QueryCache` and `SessionPool`: of each it keeps
what it does with the stop token, and of a worker whether it holds a login that
the disk has not seen. What the two models of a member have in common is written
down in `MemberTasks`, and both are proved to keep to it: `ManagedClient`, whose
workers replace sessions, and every member of `Gateway`, whatever requests, the
signals and the other members do. That `Gateway` allows all that the contract
allows is not proved, and need not be true after the stop token has fired; one
sees it by comparing `MemberTasks` with `Gateway`'s `Work`, `Poll` and `Reload`.

### GameClient

A call is a record with a program counter: `queued` (waiting for the serial
lock), `paced` (sleeping out the interval), `sent`, `answered` and `finish` (the
last poll). `Begin` is `execute`/`session_for`/`try_acquire`, `Acquire` the lock
and the block check, `Send` the end of the sleep, `ReplyError`/`ReplyOk` what
follows the RPC, `Finish` the closures that install a session. The biased
`select!` of `lib.rs:345` is `Undisturbed`: a suspended call goes on only while
neither token has fired. A token that fires *during* the last poll is noticed
only where the code looks again, hence the separate steps from `Answer` on.
Superseded sessions are dropped: only calls that began with them hold them, and
nothing reads what such a call still writes there.

### ManagedClient

`phase`, `attempted`, `initialAttempted`, `rejectedAttempt`, `cooling` and
`updating` are the fields of `State`. A critical section is one action: `Observe`,
`WorkerEnds`, `SyncStart`, `SyncCommit`, `Reload`. A query goes through
`query_error` (`AskError`, `InnerError`, `NameGeneration`) or `execute`
(`CallExecute`, `AdmitExecute`, `InnerExecute`), then through the two halves of
`observed()` (`Screen` without the lock, `Observe` with it). `WorkerLogin` and
`WorkerPersist` are two steps because the new session is visible to queries in
between. A worker's call that the client turns away by itself, because its session
is blocked for good, ends as that block and not as a refusal of the game
(`Barred`). The stop token is left out: to stop is to fail a worker and not to take
a next step, both of which are in the model. `unsaved`, `runs` and `fault` are
history variables.

### QueryCache

Every critical section of the tokio mutex is an action (`Lookup`, `Store`); a
flight is a task with its key. Of the time stamps of the entries' last touches only
their order is kept, as a rank from 1. `by` records under which generation an answer was fetched, to be
able to say that answers are isolated.

### SessionPool

`Skip` and `Choose` are the iterations of the loop under the cursor's lock; the
lock is `Arrive`'s guard. `CheckGeneration` and `CoolDown` are separate because
the code reads the generation before it locks the cooldown.

### AccountLogin

A process is a server or an operator's command; `work` is the attempt it is at
and its `pc` the request that is out or the file operation that is next. `Load`
is the part of `AccountDirectoryClient::recover` before its first await,
`Recover` the same of `GameRecovery`, `SdkLogin` and `GameLogin` are the
commands. From there all of them share `Rsa`, `Password`, `SaveInitial` or
`SavePending`, `PreLogin`, `Issue` (the game), `Install`, `SaveSdk`, `SaveGame`
and `Publish`. `Fail` is every error, deadline, cancellation and lost answer, at
any of these. Which answers of the SDK are successes is computed from `SdkHttp`.
`lock` is the advisory lock on `operator.lock`, which the system gives back when
a process dies. A login that a failed attempt has left with the game is carried
out at the latest when the attempt fails.

### JpRegistration

A command has a `step`; the directory has a marker and, per name, a response and
a credential file. `Register` finds the directory empty, `Mark` creates the
marker, `Request` sends, `Reply` writes the answer and `Save` the credentials.
`requests` counts what each command has sent: an error, a lost answer or a crash
ends the command (`Fail`) and no step leads back to the request. `register_jp`
may end in `SessionChanged` after its files are written; the files are the same
as without, so this is no outcome of its own. `Place` is the operator, `Recover`
and `Reload` are the server.

### Startup, Requests, Gateway

`Startup` and `Requests` are operators, one per function, since nothing in that
code waits: `Outcome(c)` is "refused", "health_only" or "serving" and
`members(c)` are the sessions that come up; `Refusal(c, q)` is the status a
request gets before any pool is asked, 0 if one is. Values are reduced to what
the checks tell apart: a path is a name with a canonical name, an origin is a
host and a spelling, a number is a profile id of one of four kinds, positive,
zero or no number.

In `Gateway`, `main` is where `run()` is; a request goes through `Arrive`
(`diagnose`), `Admit` or `Answered` (`authenticate`), `Receive` if its client has
announced a body, `Refuse` or `Query`, and `Answer`. The extractors of a route
read the body whole before its handler runs (`lib.rs:171-177`,
`path_routes.rs:163` and `187`), and `authenticate` has taken the permit by then,
so a request in "body" holds one. `Disconnect` is a client that goes away while
its body or its answer is awaited. A request's `body` is "none", "empty" (announced,
then nothing in it) or "content". `Query` spawns a fetch that outlives the handler
(`cache.rs:127`); a fetch that is refused by the game reports in two steps,
`Screen` and `observed`, as in `ManagedClient`, and may start a worker. A worker
is `start`, `sent`, `installed`, `saving` and then over.

### Definitions that are there to be wrong

Next to some definitions stands a variant with a plausible mistake in it
(`SlotAlwaysFree`, `NeverCarries`, `LandedIfServed`, ...). No specification uses
them. Substituted for the real definition, each makes TLC report the property
named in `PROJECT.json`, which shows that the property can fail on these bounds.

## The runs

| Run | Instance | Checks |
|---|---|---|
| `client` | 3 callers, `queue_capacity` 2, 3 sessions, JP | `TypeOK`, `BlockedNeverSent`, `InstallsOverOwnSession`, `OverrideSpentOnce`, `ImplementsLifecycle` |
| `client_live` | 2 callers, capacity 1, 3 sessions, not JP | `CallsReturn` |
| `managed` | 2 queries, 1 input revision, 3 sessions, all features | `TypeOK`, `OneOwner`, `UnsavedIsHidden`, `UnsavedNeverServed`, `PersistenceFailedIsFinal` |
| `managed_budget` | 1 query, 2 revisions, 4 sessions | `AttemptBudget`, `WorkersEnd`, `SyncsEnd` |
| `cache` | 1 caller, 2 tasks, 3 requests (one anonymous, one of double size), capacity 2, 2 bytes | `TypeOK`, `BytesExact`, `SingleFlight` |
| `cache_callers` | 2 callers, 2 tasks, 1 request | `ServedIsolated`, `ChangedIsOwn`, `AnswerComes` |
| `pool` | 2 members of 3 generations, 2 queries | `TypeOK`, `FairRotation`, `OnlyOwnFailures` |
| `accounts` | 2 servers, 1 command, 2 users, 2 logins of the game | `TypeOK`, `PointerComplete`, `PasswordOnlyWhenNeeded`, `OneIdentity`, `OnlyWantedRoles`, `PublishedSpec` |
| `jp` | 2 commands, 2 names | `TypeOK`, `OneRequest`, `AnswerKeptFirst`, `NeverOverwritten`, `AnswerSaved` |
| `gateway` | 7 configurations, 5 kinds of requests, 2 at a time, 1 permit | `TypeOK`, `AdmissionExact`, `AsThePathSays`, `OwnState`, `QuietClose`, `ShutsDown` |
| `client_rejected` | 1 caller, 2 sessions | `RejectedTokenStaysBlocked` **is violated** |
| `managed_stale` | 1 query and the poller, 2 sessions | `StaleNeverCrosses` **is violated** |

Why the bounds are enough to be interesting:

* `MaxGen` bounds the sessions. Three let an operation of the first session meet
  the third, so "another session" is not just "the next one"; four let a login
  be attempted, renamed by discovery and attempted again, with a new client
  version adopted in between.
* Three calls in the client: one in the slot, one queued, one cancelled or
  refused at the same time. `QUEUE_CAPACITY` 2 admits all three.
* Two queries in the manager: both may be refused together, or one may be half
  way through `execute` while the other starts the worker.
* One caller in `cache` is enough for two flights because a caller may leave its
  flight behind; two callers in `cache_callers` share one. A response of size 2
  fills the cache by bytes, two of size 1 by count.
* Two members make every question about the cursor's wrap-around and skipping
  askable; the run was repeated once with three members.

* `accounts`: two logins of the game let one be published over another, by the
  same process or by the other one; two users let an account file be exchanged
  for another between two attempts. All of `config` (account files or not,
  `allow_create`, `sdk_ready`) is chosen at the start.
* `jp`: two commands are what a race for the marker takes, and two names let
  them not collide at a file.
* `gateway`: the configurations are two regions (one with a version task, one
  with a saved login, both with recovery), a directory of two rotating accounts,
  and one each whose regions share a state directory through a link, whose
  region has another one's name, whose login is incomplete, whose file is not
  private, which is not there. One permit for two requests is the limit of 64
  reached. The requests are one for the default region, one whose explicit
  region contradicts its profile id, one whose id names the other region, one
  whose query string repeats a key of the path and one without a valid key. The
  first two announce a body that stays empty, so both slots can be held by
  bodies to come; the last one announces content and is answered 401 without
  anything being awaited. The files and links (`Disk`) do not change while a
  process runs: a link moved after start-up is not exercised.

Deadlock is checked everywhere except in `gateway`, where a process that has
exited or refused to start does nothing more, and in `cache_callers`: once the last session
is blocked and every request needs one, every caller is turned away at once and
nothing is left to do.

### Fairness

* `GameClient`: weak fairness of `Abandon`, `Timeout` and the last poll of a
  call: tokio polls a woken task and fires its timers. Nothing is assumed of the
  game: `Answer` is not fair.
* `ManagedClient`: weak fairness of the spawned worker's and the poller's steps:
  the worker has a 120 s deadline and each client call of the poller the
  client's timeout. Queries, reloads and files are not fair.
* `QueryCache`: weak fairness of a caller that can go on and of the spawned task,
  whose `execute` has a timeout. Nobody is forced to ask or to leave.

* `JpRegistration`: weak fairness of the import: an operator with a kept answer
  whose name is free runs `jp-import-registration` at some time. This is an
  assumption about the operator, and what `AnswerSaved` says is that the code
  never gets into a state in which they would be refused. Nothing is assumed of
  the registration itself.
* `Gateway`: weak fairness of `run()`, of every handler, fetch, worker and
  version task: they are spawned tasks that wait for each other, for a call with
  a timeout (client, SDK, worker) or for an interval raced with the stop token.
  No request and no signal has to come. Nothing is assumed of the client whose
  body a handler awaits, since no deadline is set there: `Receive` and
  `Disconnect` are not fair.

  `ShutsDown` therefore says two things. After the signal the listener closes,
  whatever clients do. The process exits if no client withholds an announced
  body for ever; the premise is stated per slot, as `[]<>` of no body being
  pending. Without it the code gives no such promise: `axum::serve`'s graceful
  shutdown (`main.rs:302-321`) waits for every handler, and an authenticated
  client that announces a body and neither sends it nor goes away keeps its
  handler, its permit and the process. `docs/http-api.md:139`, "Graceful process
  shutdown cancels pending work", is about the queries in progress, of which it
  is true. A request begins in the model when its head has been read, and a
  client is taken to accept its answer.

### What the two violations show

* `client_rejected`. `docs/configuration.md:155`: "Rejected tokens and device
  conflicts are not cleared by version discovery." The error arm of
  `run_operation_response` protects version and device blocks but not an
  authentication block. Trace: a query is answered `TOKEN_ILLEGAL`; a pre-login
  of the recovery is answered `MASTER_VERSION_MISMATCH` and turns the block into
  a version block; discovery finds a changed pair and clears it. The session with
  the rejected credential is open again. The next query is then refused again by
  the game, so this costs a request rather than an answer.
* `managed_stale`. `docs/client.md:81`: results of replaced sessions "cannot be
  labeled or cached with the new generation". `ManagedClient::query_error` reads
  the inner error first and the generation afterwards. When the poller replaces
  the session in between, both checks of `observed()` pass and the new session's
  phase is set by a refusal of the old one.

## What is proved

`GameClientProofs` proves, for every set of calls, every capacity of the queue
and every bound on generations, under `ClientAssumption`:

| Theorem | Statement |
|---|---|
| `ClientInvariance` | `Spec => []IInv` |
| `BlockedIsNeverSent` | `Spec => BlockedNeverSent` |
| `InstallsAlwaysOverOwn` | `Spec => InstallsOverOwnSession` |
| `OverrideAlwaysSpentOnce` | `Spec => []OverrideSpentOnce` |
| `ClientImplements` | `Spec => ImplementsLifecycle` |
| `QueueInvariance` | `Spec => [](IInv /\ Lined)` |
| `ClientTypes` | `Spec => []TypeOK` |

* `Alone`: one call is in the serial slot, from the moment it gets it to its last
  poll. The order of the queue is not needed for this.
* `Lined`: every call that waits for the slot has exactly one place in the queue
  and nobody else has one. A call that is cancelled, superseded or timed out
  gives up its place wherever it stands, so `Return` names that place (`Place`)
  and removes it; `Removed` says what is left of a queue then. `ClientTypes`
  needs this for the type of the queue.
* `Cleared`: a call that sleeps out the interval is still not barred as long as
  its session is the current one. It was looked at before the sleep; what keeps
  it true is that only a call in the slot can block a session (`Alone`) and that
  whatever else changes a session changes its generation (`Begun`: no call is
  of a later one).
* The refinement takes `session.cred` and `session.blocked`. Every step that
  changes the session is a last poll or a replacement, and `SessionPoll` lists
  what a last poll may leave behind: a refusal, a spent override, a new
  credential or a discovery.

The theorems about `ManagedClient` and `QueryCache` are about any session that
keeps this contract, hence about the client's.

`ManagedClientProofs` proves, for every set of queries and revisions and every
bound on generations, under `MaxGenAssumption` (`MaxGen` is a positive natural)
and `ManagedAssumption` (the feature switches are Booleans):

| Theorem | Statement |
|---|---|
| `TypeCorrect` | `Spec => []TypeOK` |
| `Invariance` | `Spec => []IInv` |
| `OneOwnerAlways` | `Spec => []OneOwner` |
| `UnsavedIsHiddenAlways` | `Spec => []UnsavedIsHidden` |
| `PersistenceFailedStays` | `Spec => PersistenceFailedIsFinal` |
| `UnsavedNeverServedAlways` | `Spec => UnsavedNeverServed` |
| `AttemptBudgetAlways` | `Spec => []AttemptBudget` |
| `KeepsToTheLifecycle` | `Spec => SpecLifecycle` |
| `MemberImplements` | `Spec => Member!SpecMember` |

`OneOwner`, `UnsavedIsHidden` and `UnsavedNeverServed` are not inductive by
themselves. `IInv == TypeOK /\ Owned /\ Hidden /\ Unserved` adds:

* `Owned`: the poller does not run in a closed phase. Without it a closing
  critical section of the poller could turn `persistence_failed` into
  `unverified`.
* `Hiding`: *why* the phase is closed while a login is unsaved: the worker that
  installed it is about to persist it, or has failed to and will find that the
  generation moved, or the phase is `persistence_failed` already. With the phase
  alone the worker could end in any other one.
* `Unserved`: no query admitted by `execute` carries the unsaved generation. It
  read its generation before it looked at the phase, and a generation cannot be
  read before it exists.

`AttemptBudget` needs more, since what refuses a second attempt is not the
counter but the record of the first. `Counted == LoginCounted /\ LoadCounted /\
Rearmable` says:

* an attempt that was made is on record under `Recorded`, the generation its
  credential has now; while the poller has renamed the session and not yet
  carried the record over, that is the one it began with. Or the attempt has
  `Superseded` the session, and the phase is closed or about to be;
* `Rearmable`: what makes a spent attempt possible again is on record only after
  a worker was refused for the client version, and no worker is running.

`KeepsToTheLifecycle` closes the circle with `ClientImplements`: the sessions
these theorems are about move as a client's do. `MemberImplements` maps the phase to open,
recovering or `persistence_failed`, the worker to how far its login is
(`SeenWorker`), and the poller to whether it is at work. It rests on `Replaced`:
a worker that is about to persist has replaced the session it was started for,
and only a worker that has can end in "lost".

`IInv` and `Counted` were checked by TLC before they were proved. The step lemmas
(`TypeStep`, `OwnedStep`, `HiddenStep`, `UnservedStep`) have one case per action.

`QueryCacheProofs` proves, for every set of callers, tasks and requests, every
size of response and every bound on generations, under `MaxGenAssumption` and
`CacheAssumption` (there is a request, sizes and limits are naturals, and at
least `MaxInflight` tasks may be spawned):

| Theorem | Statement |
|---|---|
| `CacheInvariance` | `Spec => []IInv` |
| `SingleFlightAlways` | `Spec => []SingleFlight` |
| `ChangedIsOwnAlways` | `Spec => []ChangedIsOwn` |
| `ServedIsolatedAlways` | `Spec => ServedIsolated` |
| `BytesExactAlways` | `Spec => []BytesExact` |
| `CacheTypes` | `Spec => []TypeOK` |
| `CacheKeepsToTheLifecycle` | `Spec => SpecLifecycle` |
| `NobodyIsForgotten` | `Spec => []NobodyForgotten` |

None of them is inductive by itself. `IInv` adds to the types:

* `Own`: an entry was fetched under the generation of its key. A hit hands the
  entry's answer to the caller, so what the insert looked at under the lock has
  to survive expiry, eviction and touches.
* `Flown`: the flight table and the tasks at work correspond one to one, within
  the limit. It is what makes "the key is not in the table" mean "nobody fetches
  it".
* `Sound` and `Informed`: a task's or a caller's key was read at this generation
  or an earlier one, "changed" is said only once the generation has moved, and
  an answer is of the key's generation. Generations only grow (`GenStep`), so
  what is known stays true when the session is replaced (`KnownStays`).

`ServedIsolated` then follows from the caller's last look at the generation.

`BytesExact` rests on `Tight`:

* there is no entry for what a task at work fetches. The insert adds the new size
  and subtracts nothing for a key it replaces, so this is what makes its addition
  exact;
* `Placed`: the entries' ranks are different and run from 1 to their number, so
  dropping the `n` oldest ones drops `n` entries and the capacity is kept.

`NobodyForgotten` is the safety half of `AnswerComes`: the flight that a caller
waits for is under way (`Awaited`), hence by `Flown` there is a task that will
wake it. A lookup joins or starts the flight under the lock that every flight
lands under. What is left to TLC is that the task gets there.

The size of a set of entries is a fold of the community modules. That it adds up
(`TotalTake`, `TotalMinus`) is proved without induction over data: the strict subsets
of a finite set are well founded, so a sum that failed would fail for a set all
of whose strict subsets are right (`MinimalSet`, `SumsAgree`, `SumExists`).

`SessionPoolProofs` proves, for every pool of at least two members, any queries
and any bound on generations (`PoolAssumption`):

| Theorem | Statement |
|---|---|
| `PoolInvariance` | `Spec => []IInv` |
| `PoolTypes` | `Spec => []TypeOK` |
| `OnlyOwnFailuresAlways` | `Spec => []OnlyOwnFailures` |
| `FairRotationAlways` | `Spec => []FairRotation` |

* `Earned` and `Ordered`: a cooldown names a generation the member has had and
  that a request failed under. It is set long after the request read its
  generation, so what is carried along is that the generation of the assignment,
  the one it ran under and the member's own come in this order; the last look at
  the generation (`CheckGeneration`) closes the gap, and a session that moves
  after it makes the cooldown one that does not count.
* `Near`: `passed[m]` plus the distance from the cursor to `m` is at most `N - 1`.
  A query that another member gets brings the cursor nearer to `m`, or jumps
  over it; the latter only if `m` was found unavailable, and then it has started
  over (`Away`) and had nobody given to others since (`Skipped`), because one
  query scans at a time (`Scanning`).

`JpRegistrationProofs` proves, for every set of commands and names, under
`ConstantsAssumption` (the operator is no command):

| Theorem | Statement |
|---|---|
| `RegistrationInvariance` | `Spec => []IInv` |
| `RegistrationTypes` | `Spec => []TypeOK` |
| `OneRequestAlways` | `Spec => []OneRequest` |
| `AnswerKeptFirstAlways` | `Spec => []AnswerKeptFirst` |
| `NeverOverwrittenAlways` | `Spec => NeverOverwritten` |
| `AnswerStaysImportable` | `Spec => []Importable /\ [][Untouched]_vars` |

* `Unsent`: a command that has not come to its request has sent none. With it the
  types say that no command sends twice (`requests` is at most 1 for each), and
  `OneRequest` that no two commands do.
* `Marked`: who has made the marker is one command, from the moment of making it
  and ever after if it has sent its request; the marker is never removed.
* `Kept`: the answer is in its file before the credentials are written, hence a
  command between the two writes is part of the invariant.
* `Absent`: a name without an account file is free of any text.
* `Safe`: whatever bears an answer's name is a private file in a private
  directory. `AnswerStaysImportable` is the safety half of `AnswerSaved`: a
  usable answer, once kept, stays as it is, and the import accepts it until
  its name is taken.

`AccountLoginProofs` and `AccountPolicyProofs` prove, for every set of users,
servers and commands and any number of logins, under `ConstantsAssumption`:

| Theorem | Statement |
|---|---|
| `LoginInvariance` | `Spec => []IInv` |
| `LoginTypes` | `Spec => []TypeOK` |
| `PointerAlwaysComplete` | `Spec => []PointerComplete` |
| `PublishingImplements` | `Spec => PublishedSpec` |
| `PolicyInvariance` | `Spec => []Policy` |
| `PasswordAlwaysNeeded` | `Spec => []PasswordOnlyWhenNeeded` |
| `OneIdentityAlways` | `Spec => []OneIdentity` |
| `OnlyWantedRolesAlways` | `Spec => OnlyWantedRoles` |

* `Held`: who is at an attempt holds the lock of its directory. Everything that
  is said of a directory during an attempt rests on it.
* `Carried`: the login that the game issued to an attempt is newer than what its
  directory has published, and each snapshot is on disk before the next step. A
  crash loses the attempt and nothing of this.
* `Pointed`: what is published was issued, to a user, and is complete.
* `Policy`: what an attempt may do is decided where it begins (`Allowed`,
  `Needed`, `Single`), and no step in between widens it. `Started` and
  `Continued` split the actions into those two kinds.

The refinement mapping of `PublishingImplements` takes `serial`, the number of logins
the game has issued, and `current`, the pointers: `Issue` and `Publish` are the
two steps of `PublishedLogin`, and all others stutter.

`GatewayProofs` proves, for every finite set of slots, every disk, every set of
configurations and requests, under `GatewayAssumption` (at least
one permit; the requests and the sections of the configurations have the fields
that the code reads) and
`DiskAssumption`:

| Theorem | Statement |
|---|---|
| `GatewayInvariance` | `Spec => []IInv` |
| `GatewayTypes` | `Spec => []TypeOK` |
| `AdmissionAlwaysExact` | `Spec => []AdmissionExact` |
| `ClosesQuietly` | `Spec => []QuietClose` |
| `StatesAlwaysApart` | `Spec => []OwnState` |
| `AsksAsThePathSays` | `Spec => []AsThePathSays` |
| `OnlyProperQueriesAsk` | `Spec => []OnlyProperQueries` |
| `ShutdownOnlyAdvances` | `Spec => [][NothingComesBack]_vars` |
| `MembersImplement` | `Spec /\ m \in Members => Member(m)!SpecMember` |

* `Recovering`: a member is in recovery exactly while its worker runs, so no
  second one is started.
* `Waited`: what `run()` has waited for stays as it was found. A fetch may still
  report a refusal after the stop token has fired and start a worker, but such a
  worker sends nothing; this is why waiting for the members one after the other
  is enough.
* `Up`: a process that serves was given a configuration that may be served; with
  it `OwnState` follows from what `from_text` compares.

* `Asked`: what is fetched was asked of a member of the pool its request was
  handed to, and that request was not refused. `AsThePathSays` then follows from
  what the routes, the parameters and `from_text` do (`RouteMeans`,
  `NotRefused`, `SessionAt`, `AcceptedPathKept`): a pool has the sessions of its
  region, and values from the path cannot be displaced by the query string.
* `Entitled`: who holds a permit, or has a fetch under way, came with the API
  key. With `Asked` it gives `OnlyProperQueries`, which no run checks: whatever
  is asked of a member came by GET with the key, to a method that the mode lets
  through, with fields that the method has and all it requires.
* `AdmissionAlwaysExact` holds for every handler that still awaits its body, and for
  one whose body never comes: it keeps exactly one permit.
* `NothingComesBack` is what `ShutsDown` rests on: after the signal `run()` only goes
  forward, what it has waited for need not be waited for again, and a closed
  listener lets no request in. What is left to TLC is that each wait ends.
* `MembersImplement` is proved for each member by itself; `SpawnMember`, `WorkMember`
  and `PollMember` are the steps that move one, and `OthersMember` says that
  nothing else does.

Only model-checked: liveness (`CallsReturn`, `WorkersEnd`, `SyncsEnd`,
`AnswerComes`, `AnswerSaved`, `ShutsDown`), which the prover does not reach. Every
invariant and every action property that a passing run checks is stated by a
theorem.

## Not modelled

* Message contents, metadata, JSON and protobuf, TLS and gRPC: no property here
  depends on them. A response check that can fail is `malformed` in `ReplyOk`.
* Real time. An interval, a cooldown, a TTL or a deadline is an event that may
  happen at any later moment.
* The status counters and `last_error`, which are only displayed.
* Loss of power: a file operation that returned survives a crash, so the
  `sync_all` calls of `operator.rs` and `secret_file.rs` are not told apart from
  none. State files that somebody edits by hand.
* In `AccountLogin`, generations: see its head comment. In `Gateway`, the inside
  of the tasks (their own modules have it), the SIGHUP task's order over the
  members (each may be reloaded at any time), and the process that serves health
  only, beyond its start and end.
* The keys a start-up report lists as missing: `inspect` is modelled by its three
  outcomes. Limits on single numbers are one flag (`bounded`), type errors
  another (`typed`); the interval of the version checks has its own (`interval`),
  since `inspect` refuses it even while settings are missing.
* Eleven of the fifteen methods: they differ in their fields only, and each kind
  of field, list and policy is among the four. The projection of a response to
  its public fields and the OpenAPI document, which are pure translations of one
  value.
* `cache_login` of the SDK client, which nothing here calls, and its rate
  interval and busy limit: a client is made for each login and asks once at a
  time. `jp-check` and `auth-status`, which change nothing that lasts.
* Origins that differ in spelling only. `docs/configuration.md:115` says that
  duplicate origins are rejected; `config.rs:158` compares text, so an origin with
  its default port written out passes beside the same one without. `Startup` has
  both comparisons (`Spelled`, `SameOrigin`), and no property depends on it.

## Plan

1. **Proofs**: the converse of `MembersImplement`, that a member of `Gateway` can
   take each step of `MemberTasks` while the process serves, is about what is
   enabled and out of the prover's reach. A contract of the pool between
   `SessionPool` and `Gateway`, as `MemberTasks` is one of the member, is not.
2. **Projection** as a function over a small message schema, checked against the
   allowlist.

---------------------------- MODULE AccountLogin ----------------------------
(* How a session comes to be, outside the query path: the lazy login of an   *)
(* account file (server/src/accounts.rs), the recovery of a rejected session *)
(* (GameRecovery in server/src/managed.rs), the operator's sdk-login and     *)
(* game-login commands and the state directory they all share                *)
(* (server/src/operator.rs), with reload, shutdown, crash and restart        *)
(* (server/src/runtime.rs, server/src/main.rs).                              *)
(*                                                                           *)
(* Processes are servers and operator commands. Steps are the stretches of   *)
(* code between two awaits or two file operations. A finished file operation *)
(* survives a crash of the process (power loss is not modelled). Within one  *)
(* server ManagedClient runs one recovery at a time and refuses reloads and  *)
(* version adoptions meanwhile, so the generation a recovery started with    *)
(* stays current until its own login replaces it: the generation checks of   *)
(* this code pass, and generations are not represented.                      *)
EXTENDS Naturals, FiniteSets, SdkHttp

CONSTANTS Users,      \* SDK users; each owns one account file and one player
          ManualDir,  \* the state directory used without account files
          Servers,    \* server processes
          Commands,   \* operator command processes
          None,
          MaxLogins   \* bound: logins the game issues

Procs == Servers \cup Commands
Dirs == Users \cup {ManualDir}
Logins == 1 .. MaxLogins

ASSUME ConstantsAssumption ==
  /\ MaxLogins \in Nat
  /\ ManualDir \notin Users
  /\ None \notin Users /\ None \notin Procs /\ None # ManualDir
  /\ Servers \cap Commands = {}

VARIABLES
  config,    \* accounts: account files or manual login; allow_create; sdk_ready
  proc,      \* "up", "stopping" (the stop token is cancelled) or "down"
  session,   \* per process: its status and the login its credentials are from
  selected,  \* per server: selected_identity
  asked,     \* per server: whose secrets it has used since the last reset
  work,      \* per process: the attempt it is at
  lock,      \* per directory: who holds operator.lock
  initial,   \* per directory: initial-sdk.json exists
  pending,   \* per directory: whose authorization pending.json names
  sdkFiles, gameFiles,  \* per directory: the logins with such a snapshot
  current,   \* per directory: the login current.json names, 0 when absent
  serial,    \* the game: how many logins it has issued
  owner,     \* the game: the user of each login
  roles      \* the game: the users with a role

files == <<initial, pending, sdkFiles, gameFiles, current>>
game == <<serial, owner, roles>>
vars == <<config, proc, session, selected, asked, work, lock, files, game>>

Idle == [pc |-> "idle", kind |-> "none", dir |-> None, uid |-> None,
         allow |-> FALSE, login |-> 0]
Anonymous == [status |-> "anonymous", login |-> 0]
Loaded(n) == [status |-> "unverified", login |-> n]

PCs == {"idle", "rsa", "password", "save_initial", "save_pending", "pre_login",
        "login", "reply", "save_sdk", "save_game", "publish"}

TypeOK ==
  /\ config \in [accounts : BOOLEAN, allow_create : BOOLEAN, sdk_ready : BOOLEAN]
  /\ proc \in [Procs -> {"up", "stopping", "down"}]
  /\ session \in [Procs -> [status : {"anonymous", "unverified", "rejected", "blocked"},
                            login : 0 .. MaxLogins]]
  /\ selected \in [Servers -> Users \cup {None}]
  /\ asked \in [Servers -> SUBSET Users]
  /\ work \in [Procs -> [pc : PCs, kind : {"none", "load", "recover", "sdk_login", "game_login"},
                         dir : Dirs \cup {None}, uid : Users \cup {None},
                         allow : BOOLEAN, login : 0 .. MaxLogins]]
  /\ lock \in [Dirs -> Procs \cup {None}]
  /\ initial \in [Dirs -> BOOLEAN]
  /\ pending \in [Dirs -> Users \cup {None}]
  /\ sdkFiles \in [Dirs -> SUBSET Logins]
  /\ gameFiles \in [Dirs -> SUBSET Logins]
  /\ current \in [Dirs -> 0 .. MaxLogins]
  /\ serial \in 0 .. MaxLogins
  /\ owner \in [Logins -> Users \cup {None}]
  /\ roles \subseteq Users

Init ==
  /\ config \in [accounts : BOOLEAN, allow_create : BOOLEAN, sdk_ready : BOOLEAN]
  /\ proc = [p \in Procs |-> "up"]
  /\ session = [p \in Procs |-> Anonymous]
  /\ selected = [p \in Servers |-> None]
  /\ asked = [p \in Servers |-> {}]
  /\ work = [p \in Procs |-> Idle]
  /\ lock = [d \in Dirs |-> None]
  /\ initial = [d \in Dirs |-> FALSE]
  /\ pending = [d \in Dirs |-> None]
  /\ sdkFiles = [d \in Dirs |-> {}]
  /\ gameFiles = [d \in Dirs |-> {}]
  /\ current = [d \in Dirs |-> 0]
  /\ serial = 0
  /\ owner = [n \in Logins |-> None]
  /\ roles \in SUBSET Users

-----------------------------------------------------------------------------
(* The account directory, as any content an operator may give it.            *)

AccountFile == [user : Users, well_formed : BOOLEAN]

\* file_list(): the selected file alone, or every file with an account's name.
file_list(entries, chosen) == IF chosen = {} THEN entries ELSE entries \cap chosen

\* select(): exactly one file, private and well formed.
select(listed) ==
  IF listed = {} THEN "AuthenticationRequired"
  ELSE IF Cardinality(listed) # 1 \/ \E f \in listed : ~f.well_formed THEN "InvalidConfig"
  ELSE "selected"

Selectable ==
  {u \in Users : \E entries, chosen \in SUBSET AccountFile :
     LET listed == file_list(entries, chosen) IN
       select(listed) = "selected" /\ \A f \in listed : f.user = u}

-----------------------------------------------------------------------------
(* Starting and ending an attempt. Everything up to the first await is one   *)
(* step: the account file is read before the lock is taken, all else under   *)
(* it, and a try that finds the lock taken fails at once (QueueFull).        *)

\* A slip the runs catch: the advisory lock is not tried.
TakeLockUntried(p, d) == lock' = [lock EXCEPT ![d] = p]

TakeLock(p, d) == lock[d] = None /\ lock' = [lock EXCEPT ![d] = p]

Begin(p, attempt) == TakeLock(p, attempt.dir) /\ work' = [work EXCEPT ![p] = attempt]

\* However an attempt ends, its lock file is closed.
End(p) ==
  /\ work' = [work EXCEPT ![p] = Idle]
  /\ lock' = [d \in Dirs |-> IF lock[d] = p THEN None ELSE lock[d]]

Goto(p, pc) == work' = [work EXCEPT ![p].pc = pc] /\ UNCHANGED lock

\* p sends a secret of u, or holds a session of u whose queries will.
Asks(p, u) ==
  asked' = IF config.accounts THEN [asked EXCEPT ![p] = @ \cup {u}] ELSE asked

\* A slip the runs catch: the account selected last takes the place of the first.
PinLast(p, u) == selected' = [selected EXCEPT ![p] = u]

\* selected_identity: fixed by the first account a recovery selects, even when
\* that recovery then fails; another one is refused until a reload.
Pin(p, u) == selected[p] \in {None, u} /\ selected' = [selected EXCEPT ![p] = u]

Ready(p) == proc[p] = "up" /\ work[p].pc = "idle"

\* A slip the runs catch: initial-sdk.json is not looked for.
FirstRequestAnew(d) == "rsa"

\* A first login starts with the authorization it finds in initial-sdk.json.
FirstRequest(d) == IF initial[d] THEN "pre_login" ELSE "rsa"

\* AccountDirectoryClient::recover of a server without a session: refused (the
\* lock, the directory, the files, sdk_ready), or the saved session is loaded,
\* or a login begins, with the authorization saved before if there is one.
Load(p) ==
  \E u \in Selectable :
    /\ config.accounts /\ Ready(p) /\ session[p].status = "anonymous"
    /\ Pin(p, u)
    /\ \/ UNCHANGED <<session, asked, work, lock>>
       \/ /\ lock[u] = None /\ current[u] # 0
          /\ session' = [session EXCEPT ![p] = Loaded(current[u])]
          /\ Asks(p, u)
          /\ UNCHANGED <<work, lock>>
       \/ /\ current[u] = 0 /\ config.sdk_ready
          /\ Begin(p, [Idle EXCEPT !.pc = FirstRequest(u), !.kind = "load", !.dir = u, !.uid = u,
                                   !.allow = config.allow_create])
          /\ IF initial[u] THEN Asks(p, u) ELSE UNCHANGED asked
          /\ UNCHANGED session
    /\ UNCHANGED <<config, proc, files, game>>

\* GameRecovery::recover of a rejected session, in the directory d: it needs a
\* saved session of the same identity and logs in with the authorization saved
\* beside it.
Recovers(p, d) ==
  \/ UNCHANGED <<asked, work, lock>>
  \/ LET s == session[p].login IN
     /\ current[d] # 0 /\ s # 0 /\ owner[s] = owner[current[d]]
     /\ Begin(p, [Idle EXCEPT !.pc = "pre_login", !.kind = "recover", !.dir = d,
                              !.uid = owner[current[d]]])
     /\ Asks(p, owner[current[d]])

Recover(p) ==
  /\ Ready(p) /\ session[p].status = "rejected"
  /\ IF config.accounts
     THEN \E u \in Selectable : Pin(p, u) /\ Recovers(p, u)
     ELSE Recovers(p, ManualDir) /\ UNCHANGED selected
  /\ UNCHANGED <<config, proc, session, files, game>>

\* The operator's sdk-login of u, without account files only.
SdkLogin(c, u) ==
  /\ ~config.accounts /\ Ready(c)
  /\ Begin(c, [Idle EXCEPT !.pc = "rsa", !.kind = "sdk_login", !.dir = ManualDir, !.uid = u])
  /\ UNCHANGED <<config, proc, session, selected, asked, files, game>>

\* A slip the runs catch: game-login goes on without a pending authorization.
GameLoginWithoutPending(c, allow) ==
  /\ ~config.accounts /\ Ready(c)
  /\ Begin(c, [Idle EXCEPT !.pc = "pre_login", !.kind = "game_login", !.dir = ManualDir,
                           !.uid = pending[ManualDir], !.allow = allow])
  /\ session' = [session EXCEPT ![c] = Anonymous]
  /\ UNCHANGED <<config, proc, selected, asked, files, game>>

\* The operator's game-login with the pending authorization, in a client of
\* its own.
GameLogin(c, allow) ==
  /\ ~config.accounts /\ Ready(c) /\ pending[ManualDir] # None
  /\ Begin(c, [Idle EXCEPT !.pc = "pre_login", !.kind = "game_login", !.dir = ManualDir,
                           !.uid = pending[ManualDir], !.allow = allow])
  /\ session' = [session EXCEPT ![c] = Anonymous]
  /\ UNCHANGED <<config, proc, selected, asked, files, game>>

-----------------------------------------------------------------------------
(* The steps of an attempt. A program counter names the request that is out  *)
(* or the file operation that is next. Once the stop token is cancelled no   *)
(* answer is taken any more (every select is biased to it) and nothing more  *)
(* is sent; what comes after an answer runs to its end without an await.     *)

\* An error, a deadline or a cancellation, at any point: the attempt ends and
\* leaves what it has done so far. A lost answer is of this kind.
Fail(p) ==
  /\ work[p].pc # "idle"
  /\ End(p)
  /\ UNCHANGED <<config, proc, session, selected, asked, files, game>>

RsaOutcomes == {fetch_rsa(r) : r \in Reply}
PasswordOutcomes == {password_login(l, r) : l \in PasswordLogin, r \in Reply}

\* The RSA challenge is answered; the password is sent.
Rsa(p) ==
  /\ work[p].pc = "rsa" /\ proc[p] = "up"
  /\ \E outcome \in RsaOutcomes :
       IF outcome = "Success"
       THEN Goto(p, "password") /\ Asks(p, work[p].uid)
       ELSE End(p) /\ UNCHANGED asked
  /\ UNCHANGED <<config, proc, session, selected, files, game>>

\* The password is answered; a rejection, a challenge for instance, ends the
\* attempt: nothing is retried.
Password(p) ==
  /\ work[p].pc = "password" /\ proc[p] = "up"
  /\ \E outcome \in PasswordOutcomes :
       IF outcome = "Success"
       THEN Goto(p, IF work[p].kind = "load" THEN "save_initial" ELSE "save_pending")
       ELSE End(p)
  /\ UNCHANGED <<config, proc, session, selected, asked, files, game>>

\* The authorization of an account file is kept before it is first used, in a
\* new file; then the role is looked for with it.
SaveInitial(p) ==
  /\ work[p].pc = "save_initial" /\ ~initial[work[p].dir]
  /\ initial' = [initial EXCEPT ![work[p].dir] = TRUE]
  /\ Goto(p, "pre_login")
  /\ UNCHANGED <<config, proc, session, selected, asked, pending, sdkFiles, gameFiles, current, game>>

\* save_pending(): the authorization in a new file, then the pending pointer.
SavePending(p) ==
  /\ work[p].pc = "save_pending"
  /\ pending' = [pending EXCEPT ![work[p].dir] = work[p].uid]
  /\ End(p)
  /\ UNCHANGED <<config, proc, session, selected, asked, initial, sdkFiles, gameFiles, current, game>>

\* A slip the runs catch: the answer of the pre-login is not looked at.
PreLoginIgnored(p) ==
  /\ work[p].pc = "pre_login" /\ proc[p] = "up" /\ session[p].status # "blocked"
  /\ Goto(p, "login")
  /\ UNCHANGED <<config, proc, session, selected, asked, files, game>>

\* The pre-login is answered. Only who was allowed to create a role goes on
\* without one; a recovery never does.
PreLogin(p) ==
  /\ work[p].pc = "pre_login" /\ proc[p] = "up" /\ session[p].status # "blocked"
  /\ IF work[p].uid \in roles \/ work[p].allow THEN Goto(p, "login") ELSE End(p)
  /\ UNCHANGED <<config, proc, session, selected, asked, files, game>>

\* The game refuses a pre-login or a login: the session is marked, an
\* anonymous one too, and a version or device block is never weakened.
Refuse(p) ==
  /\ work[p].pc \in {"pre_login", "login"} /\ proc[p] = "up"
  /\ \E status \in {"rejected", "blocked"} :
       session' = [session EXCEPT ![p].status = IF @ = "blocked" THEN @ ELSE status]
  /\ End(p)
  /\ UNCHANGED <<config, proc, selected, asked, files, game>>

\* The game carries out the login that is out, whoever still waits for it.
Issue(p) ==
  /\ work[p].pc = "login" /\ serial < MaxLogins
  /\ serial' = serial + 1
  /\ owner' = [owner EXCEPT ![serial'] = work[p].uid]
  /\ roles' = roles \cup {work[p].uid}
  /\ work' = [work EXCEPT ![p].pc = "reply", ![p].login = serial']
  /\ UNCHANGED <<config, proc, session, selected, asked, lock, files>>

\* login_with_sdk() installs the session; a recovery checks that it is the
\* saved identity's before it goes on to save it.
Install(p) ==
  /\ work[p].pc = "reply" /\ proc[p] = "up"
  /\ session' = [session EXCEPT ![p] = Loaded(work[p].login)]
  /\ IF work[p].kind = "recover" /\ owner[work[p].login] # owner[current[work[p].dir]]
     THEN End(p) ELSE Goto(p, "save_sdk")
  /\ UNCHANGED <<config, proc, selected, asked, files, game>>

\* A slip the runs catch: the pointer is published before the session's snapshot is written.
SaveSdkThenPublish(p) ==
  /\ work[p].pc = "save_sdk"
  /\ sdkFiles' = [sdkFiles EXCEPT ![work[p].dir] = @ \cup {work[p].login}]
  /\ Goto(p, "publish")
  /\ UNCHANGED <<config, proc, session, selected, asked, initial, pending, gameFiles, current, game>>

\* persist(): two snapshots under a fresh name, the second refused when a query
\* has had the session marked meanwhile, and then the pointer.
SaveSdk(p) ==
  /\ work[p].pc = "save_sdk"
  /\ sdkFiles' = [sdkFiles EXCEPT ![work[p].dir] = @ \cup {work[p].login}]
  /\ Goto(p, "save_game")
  /\ UNCHANGED <<config, proc, session, selected, asked, initial, pending, gameFiles, current, game>>

SaveGame(p) ==
  /\ work[p].pc = "save_game" /\ session[p].status = "unverified"
  /\ gameFiles' = [gameFiles EXCEPT ![work[p].dir] = @ \cup {session[p].login}]
  /\ Goto(p, "publish")
  /\ UNCHANGED <<config, proc, session, selected, asked, initial, pending, sdkFiles, current, game>>

Publish(p) ==
  /\ work[p].pc = "publish"
  /\ current' = [current EXCEPT ![work[p].dir] = work[p].login]
  /\ End(p)
  /\ UNCHANGED <<config, proc, session, selected, asked, initial, pending, sdkFiles, gameFiles, game>>

-----------------------------------------------------------------------------
(* What happens to a server meanwhile.                                       *)

\* A query of this server has its session marked.
Mark(p) ==
  /\ proc[p] = "up" /\ session[p].status = "unverified"
  /\ \E status \in {"rejected", "blocked"} :
       session' = [session EXCEPT ![p].status = status]
  /\ UNCHANGED <<config, proc, selected, asked, work, lock, files, game>>

\* The session a server starts with or reloads: none yet with account files,
\* else what current.json names, read without the lock.
Fresh(p) ==
  /\ session' = [session EXCEPT ![p] =
       IF config.accounts \/ current[ManualDir] = 0 THEN Anonymous
       ELSE Loaded(current[ManualDir])]
  /\ selected' = [selected EXCEPT ![p] = None]
  /\ asked' = [asked EXCEPT ![p] = {}]

\* SIGHUP, refused by ManagedClient while a recovery runs.
Reload(p) ==
  /\ Ready(p)
  /\ Fresh(p)
  /\ UNCHANGED <<config, proc, work, lock, files, game>>

Stop(p) ==
  /\ proc[p] = "up"
  /\ proc' = [proc EXCEPT ![p] = "stopping"]
  /\ UNCHANGED <<config, session, selected, asked, work, lock, files, game>>

\* The process ends: after its recovery when told to stop, else anywhere.
Down(p) ==
  /\ proc' = [proc EXCEPT ![p] = "down"]
  /\ session' = [session EXCEPT ![p] = Anonymous]
  /\ selected' = [selected EXCEPT ![p] = None]
  /\ asked' = [asked EXCEPT ![p] = {}]

Exit(p) ==
  /\ proc[p] = "stopping" /\ work[p].pc = "idle"
  /\ Down(p)
  /\ UNCHANGED <<config, work, lock, files, game>>

Crash(p) ==
  /\ proc[p] # "down"
  /\ Down(p)
  /\ End(p)
  /\ UNCHANGED <<config, files, game>>

Restart(p) ==
  /\ proc[p] = "down"
  /\ proc' = [proc EXCEPT ![p] = "up"]
  /\ Fresh(p)
  /\ UNCHANGED <<config, work, lock, files, game>>

Advance(p) ==
  \/ Fail(p) \/ Rsa(p) \/ Password(p) \/ SaveInitial(p) \/ SavePending(p)
  \/ PreLogin(p) \/ Refuse(p) \/ Issue(p) \/ Install(p)
  \/ SaveSdk(p) \/ SaveGame(p) \/ Publish(p)

Next ==
  \/ \E p \in Procs : Advance(p)
  \/ \E p \in Servers :
       \/ Load(p) \/ Recover(p) \/ Mark(p) \/ Reload(p)
       \/ Stop(p) \/ Exit(p) \/ Crash(p) \/ Restart(p)
  \/ \E c \in Commands :
       \/ \E u \in Users : SdkLogin(c, u)
       \/ \E allow \in BOOLEAN : GameLogin(c, allow)

Spec == Init /\ [][Next]_vars

-----------------------------------------------------------------------------
(* Properties.                                                               *)

\* The pointer names two snapshots that are there, of one login and, in the
\* directory of an account, of that account: persist() publishes last and a
\* crash, a failed write or a stop between its three writes leaves the pointer
\* at the pair before.
PointerComplete ==
  \A d \in Dirs : current[d] # 0 =>
    /\ current[d] \in sdkFiles[d] \cap gameFiles[d]
    /\ d \in Users => owner[current[d]] = d

\* A password is sent only for an account that has neither an authorization nor
\* a session saved, and by one process at a time: a second server on the same
\* directory or a restart after a failed role login never asks again.
PasswordOnlyWhenNeeded ==
  \A p \in Procs :
    work[p].kind = "load" /\ work[p].pc \in {"rsa", "password", "save_initial"} =>
      /\ ~initial[work[p].dir] /\ current[work[p].dir] = 0
      /\ \A q \in Procs \ {p} : work[q].dir # work[p].dir

\* Until it is reloaded or restarted, a server with account files uses the
\* secrets of one account only, though the file it is given may be exchanged
\* between two recoveries and the first may fail before any session exists.
OneIdentity ==
  config.accounts => \A p \in Servers : Cardinality(asked[p]) <= 1

\* A role is created only for a login that was allowed to: an account file
\* under allow_create, or the operator's game-login with --allow-create. A
\* recovery never creates one.
OnlyWantedRoles ==
  [][\A u \in roles' \ roles : \E p \in Procs :
       /\ work[p].uid = u /\ work[p].allow
       /\ work[p].kind = "game_login" \/ (work[p].kind = "load" /\ config.allow_create)]_vars

\* The files keep the promise of PublishedLogin: whatever the processes do, the
\* login a pointer names is only ever replaced, at once, by a newer one. A
\* login held up between the game's answer and its snapshot never overwrites
\* one made meanwhile, because the lock is held from before the saved session
\* is read until after the pointer is written.
Published == INSTANCE PublishedLogin WITH issued <- serial, published <- current
PublishedSpec == Published!Spec
=============================================================================

------------------------- MODULE AccountLoginProofs -------------------------
(***************************************************************************)
(* What is proved of AccountLogin for any number of users, servers,        *)
(* commands and logins: what current.json leads to, and that publishing    *)
(* implements PublishedLogin, whatever crashes, stops and lost answers     *)
(* come between the steps of an attempt.                                   *)
(***************************************************************************)
EXTENDS AccountLogin, TLAPS

Attempts == [pc : PCs, kind : {"none", "load", "recover", "sdk_login", "game_login"},
             dir : Dirs \cup {None}, uid : Users \cup {None},
             allow : BOOLEAN, login : 0 .. MaxLogins]
Sessions == [status : {"anonymous", "unverified", "rejected", "blocked"}, login : 0 .. MaxLogins]

(* An attempt holds the lock of its directory from its first step to its   *)
(* last, and a process that is down is at none.                            *)
Held ==
  \A p \in Procs :
    /\ work[p].pc # "idle" =>
         work[p].dir \in Dirs /\ work[p].uid \in Users /\ lock[work[p].dir] = p
    /\ proc[p] = "down" => work[p].pc = "idle"

(* In the directory of an account it is that account's attempt.            *)
Own(w) == w.dir \in Users => w.uid = w.dir

(* The login that the game has issued to an attempt is newer than what is  *)
(* published, and it is at the disk as far as the attempt has come.        *)
Issued == {"reply", "save_sdk", "save_game", "publish"}
Carries(p) ==
  LET w == work[p] IN
  /\ w.pc \in Issued =>
       /\ w.login \in 1 .. serial /\ owner[w.login] = w.uid
       /\ current[w.dir] < w.login
  /\ w.pc \in Issued \ {"reply"} => session[p].login = w.login
  /\ w.pc \in {"save_game", "publish"} => w.login \in sdkFiles[w.dir]
  /\ w.pc = "publish" => w.login \in gameFiles[w.dir]

Carried == \A p \in Procs : Own(work[p]) /\ Carries(p)

(* What is published has been issued, to a user, and is complete.          *)
Pointed ==
  /\ \A n \in 1 .. serial : owner[n] \in Users
  /\ \A d \in Dirs : current[d] <= serial
  /\ PointerComplete

IInv == TypeOK /\ Held /\ Carried /\ Pointed

(***************************************************************************)
(* The types.                                                              *)
(***************************************************************************)

(* An attempt that begins is well typed, and so is the idle one.           *)
LEMMA IdleTypes == Idle \in Attempts /\ Anonymous \in Sessions
BY ConstantsAssumption DEF Idle, Anonymous, Attempts, Sessions, PCs

(* Beginning, going on and ending keep the types of attempts and locks     *)
(* (operator.rs, the lock file).                                           *)
LEMMA WorkTypes ==
  ASSUME TypeOK, NEW p \in Procs
  PROVE  /\ \A w \in Attempts : w.dir \in Dirs /\ Begin(p, w) =>
              work' \in [Procs -> Attempts] /\ lock' \in [Dirs -> Procs \cup {None}]
         /\ \A pc \in PCs : Goto(p, pc) =>
              work' \in [Procs -> Attempts] /\ lock' \in [Dirs -> Procs \cup {None}]
         /\ End(p) => work' \in [Procs -> Attempts] /\ lock' \in [Dirs -> Procs \cup {None}]
<1>1. work \in [Procs -> Attempts]
  BY DEF TypeOK, Attempts
<1>2. ASSUME NEW w \in Attempts, w.dir \in Dirs, Begin(p, w)
      PROVE  work' \in [Procs -> Attempts] /\ lock' \in [Dirs -> Procs \cup {None}]
  BY <1>1, <1>2 DEF TypeOK, Begin, TakeLock
<1>3. ASSUME NEW pc \in PCs, Goto(p, pc)
      PROVE  work' \in [Procs -> Attempts] /\ lock' \in [Dirs -> Procs \cup {None}]
  <2>1. [work[p] EXCEPT !.pc = pc] \in Attempts
    BY <1>1 DEF Attempts
  <2>2. work' = [work EXCEPT ![p] = [work[p] EXCEPT !.pc = pc]] /\ lock' = lock
    BY <1>3 DEF Goto
  <2> QED BY <1>1, <2>1, <2>2 DEF TypeOK
<1>4. ASSUME End(p)
      PROVE  work' \in [Procs -> Attempts] /\ lock' \in [Dirs -> Procs \cup {None}]
  BY <1>1, <1>4, IdleTypes DEF TypeOK, End
<1> QED BY <1>2, <1>3, <1>4

(* The account that is selected is a user's (accounts.rs, select).         *)
LEMMA SelectableUsers == Selectable \subseteq Users
BY DEF Selectable

(* A recovery's attempt is one of the saved session's owner.               *)
LEMMA RecoversTypes ==
  ASSUME TypeOK, Pointed, NEW p \in Servers, NEW d \in Dirs, Recovers(p, d)
  PROVE  /\ work' \in [Procs -> Attempts] /\ lock' \in [Dirs -> Procs \cup {None}]
         /\ asked' \in [Servers -> SUBSET Users]
<1>1. CASE UNCHANGED <<asked, work, lock>>
  BY <1>1 DEF TypeOK, Attempts
<1>2. CASE ~UNCHANGED <<asked, work, lock>>
  <2> DEFINE u == owner[current[d]]
             w == [Idle EXCEPT !.pc = "pre_login", !.kind = "recover", !.dir = d, !.uid = u]
  <2>1. current[d] # 0 /\ Begin(p, w) /\ Asks(p, u)
    BY <1>2 DEF Recovers
  <2>2. u \in Users
    BY <2>1 DEF TypeOK, Pointed
  <2>3. w \in Attempts /\ w.dir \in Dirs
    BY <2>2, IdleTypes DEF Idle, Attempts, PCs
  <2>4. p \in Procs
    BY DEF Procs
  <2>5. asked' \in [Servers -> SUBSET Users]
    BY <2>1, <2>2 DEF Asks, TypeOK
  <2> QED BY <2>1, <2>3, <2>4, <2>5, WorkTypes
<1> QED BY <1>1, <1>2

(* The session a process starts or is reloaded with is one that is saved   *)
(* (runtime.rs).                                                           *)
LEMMA FreshTypes ==
  ASSUME TypeOK, NEW p \in Servers, Fresh(p)
  PROVE  /\ session' \in [Procs -> Sessions]
         /\ selected' \in [Servers -> Users \cup {None}]
         /\ asked' \in [Servers -> SUBSET Users]
<1>1. Loaded(current[ManualDir]) \in Sessions
  BY DEF TypeOK, Loaded, Sessions, Dirs
<1> QED BY <1>1, IdleTypes DEF Fresh, TypeOK, Sessions

(* An attempt's steps up to the game's answer keep the types.              *)
LEMMA AskingTypes ==
  ASSUME TypeOK, Held, NEW p \in Procs,
         \/ Fail(p) \/ Rsa(p) \/ Password(p) \/ SaveInitial(p) \/ SavePending(p)
         \/ PreLogin(p) \/ Refuse(p)
  PROVE  TypeOK'
<1> USE DEF TypeOK
<1>1. CASE Fail(p)
  BY <1>1, WorkTypes DEF Fail, files, game, Attempts
<1>2. CASE Rsa(p)
  <2>1. PICK outcome \in RsaOutcomes :
          IF outcome = "Success"
          THEN Goto(p, "password") /\ Asks(p, work[p].uid) ELSE End(p) /\ UNCHANGED asked
    BY <1>2 DEF Rsa
  <2>2. work[p].uid \in Users
    BY <1>2 DEF Rsa, Held
  <2>3. asked' \in [Servers -> SUBSET Users]
    BY <2>1, <2>2 DEF Asks
  <2>4. work' \in [Procs -> Attempts] /\ lock' \in [Dirs -> Procs \cup {None}]
    BY <2>1, WorkTypes DEF PCs
  <2> QED BY <1>2, <2>3, <2>4 DEF Rsa, files, game, Attempts
<1>3. CASE Password(p)
  <2>1. Goto(p, "save_initial") \/ Goto(p, "save_pending") \/ End(p)
    BY <1>3 DEF Password
  <2>2. work' \in [Procs -> Attempts] /\ lock' \in [Dirs -> Procs \cup {None}]
    BY <2>1, WorkTypes DEF PCs
  <2> QED BY <1>3, <2>2 DEF Password, files, game, Attempts
<1>4. CASE SaveInitial(p)
  <2>1. work' \in [Procs -> Attempts] /\ lock' \in [Dirs -> Procs \cup {None}]
    BY <1>4, WorkTypes DEF SaveInitial, PCs
  <2> QED BY <1>4, <2>1 DEF SaveInitial, game, Attempts
<1>5. CASE SavePending(p)
  <2>1. work' \in [Procs -> Attempts] /\ lock' \in [Dirs -> Procs \cup {None}]
    BY <1>5, WorkTypes DEF SavePending
  <2>2. pending' \in [Dirs -> Users \cup {None}]
    BY <1>5 DEF SavePending
  <2> QED BY <1>5, <2>1, <2>2 DEF SavePending, game, Attempts
<1>6. CASE PreLogin(p)
  <2>1. Goto(p, "login") \/ End(p)
    BY <1>6 DEF PreLogin
  <2>2. work' \in [Procs -> Attempts] /\ lock' \in [Dirs -> Procs \cup {None}]
    BY <2>1, WorkTypes DEF PCs
  <2> QED BY <1>6, <2>2 DEF PreLogin, files, game, Attempts
<1>7. CASE Refuse(p)
  <2>1. work' \in [Procs -> Attempts] /\ lock' \in [Dirs -> Procs \cup {None}]
    BY <1>7, WorkTypes DEF Refuse
  <2>2. session' \in [Procs -> Sessions]
    BY <1>7 DEF Refuse, Sessions
  <2> QED BY <1>7, <2>1, <2>2 DEF Refuse, files, game, Attempts, Sessions
<1> QED BY <1>1, <1>2, <1>3, <1>4, <1>5, <1>6, <1>7

(* And so do those from the game's answer to the pointer.                  *)
LEMMA SavingTypes ==
  ASSUME TypeOK, Held, Carried, NEW p \in Procs,
         Issue(p) \/ Install(p) \/ SaveSdk(p) \/ SaveGame(p) \/ Publish(p)
  PROVE  TypeOK'
<1> USE DEF TypeOK
<1>1. CASE Issue(p)
  <2>1. serial' \in Logins /\ work[p].uid \in Users
    BY <1>1, ConstantsAssumption DEF Issue, Held, Logins
  <2>2. [work[p] EXCEPT !.pc = "reply", !.login = serial'] \in Attempts
    <3>1. work[p] \in Attempts
      BY DEF Attempts
    <3>2. "reply" \in PCs /\ serial' \in 0 .. MaxLogins
      BY <2>1 DEF PCs, Logins
    <3> QED BY <3>1, <3>2 DEF Attempts
  <2>3. work' \in [Procs -> Attempts]
    <3>1. work' = [work EXCEPT ![p] = [work[p] EXCEPT !.pc = "reply", !.login = serial']]
      BY <1>1 DEF Issue
    <3> QED BY <2>2, <3>1 DEF Attempts
  <2>4. serial' \in 0 .. MaxLogins /\ owner' \in [Logins -> Users \cup {None}] /\ roles' \subseteq Users
    BY <1>1, <2>1 DEF Issue, Logins
  <2> QED BY <1>1, <2>3, <2>4 DEF Issue, files, Attempts
<1>2. CASE Install(p)
  <2>1. Goto(p, "save_sdk") \/ End(p)
    BY <1>2 DEF Install
  <2>2. work' \in [Procs -> Attempts] /\ lock' \in [Dirs -> Procs \cup {None}]
    BY <2>1, WorkTypes DEF PCs
  <2>3. session' \in [Procs -> Sessions]
    BY <1>2 DEF Install, Loaded, Sessions
  <2> QED BY <1>2, <2>2, <2>3 DEF Install, files, game, Attempts, Sessions
<1>3. CASE SaveSdk(p)
  <2>1. work' \in [Procs -> Attempts] /\ lock' \in [Dirs -> Procs \cup {None}]
    BY <1>3, WorkTypes DEF SaveSdk, PCs
  <2>2. work[p].login \in Logins
    BY <1>3 DEF SaveSdk, Carried, Carries, Issued, Logins
  <2>3. sdkFiles' \in [Dirs -> SUBSET Logins]
    BY <1>3, <2>2 DEF SaveSdk
  <2> QED BY <1>3, <2>1, <2>3 DEF SaveSdk, game, Attempts
<1>4. CASE SaveGame(p)
  <2>1. work' \in [Procs -> Attempts] /\ lock' \in [Dirs -> Procs \cup {None}]
    BY <1>4, WorkTypes DEF SaveGame, PCs
  <2>2. session[p].login \in Logins
    <3>1. work[p].pc = "save_game" /\ Carries(p)
      BY <1>4 DEF SaveGame, Carried
    <3>2. work[p].login \in 1 .. serial /\ session[p].login = work[p].login
      BY <3>1 DEF Carries, Issued
    <3> QED BY <3>2 DEF Logins
  <2>3. gameFiles' \in [Dirs -> SUBSET Logins]
    BY <1>4, <2>2 DEF SaveGame
  <2> QED BY <1>4, <2>1, <2>3 DEF SaveGame, game, Attempts
<1>5. CASE Publish(p)
  <2>1. work' \in [Procs -> Attempts] /\ lock' \in [Dirs -> Procs \cup {None}]
    BY <1>5, WorkTypes DEF Publish
  <2> QED BY <1>5, <2>1 DEF Publish, game, Attempts
<1> QED BY <1>1, <1>2, <1>3, <1>4, <1>5

(* And what begins an attempt or happens to a process.                     *)
LEMMA ServerTypes ==
  ASSUME TypeOK, Held, Pointed, NEW p \in Servers,
         \/ Load(p) \/ Recover(p) \/ Mark(p) \/ Reload(p)
         \/ Stop(p) \/ Exit(p) \/ Crash(p) \/ Restart(p)
  PROVE  TypeOK'
<1> USE DEF TypeOK
<1>0. p \in Procs
  BY DEF Procs
<1>1. CASE Load(p)
  <2>1. PICK u \in Selectable :
          /\ Pin(p, u)
          /\ \/ UNCHANGED <<session, asked, work, lock>>
             \/ /\ session' = [session EXCEPT ![p] = Loaded(current[u])]
                /\ Asks(p, u)
                /\ UNCHANGED <<work, lock>>
             \/ /\ Begin(p, [Idle EXCEPT !.pc = FirstRequest(u), !.kind = "load", !.dir = u,
                                         !.uid = u, !.allow = config.allow_create])
                /\ IF initial[u] THEN Asks(p, u) ELSE UNCHANGED asked
                /\ UNCHANGED session
    BY <1>1 DEF Load
  <2>2. u \in Users /\ u \in Dirs
    BY SelectableUsers DEF Dirs
  <2>3. selected' \in [Servers -> Users \cup {None}]
    BY <2>1, <2>2 DEF Pin
  <2>4. asked' \in [Servers -> SUBSET Users]
    BY <2>1, <2>2 DEF Asks
  <2>5. Loaded(current[u]) \in Sessions
    BY <2>2 DEF Loaded, Sessions
  <2>6. session' \in [Procs -> Sessions]
    BY <2>1, <2>5 DEF Sessions
  <2> DEFINE w == [Idle EXCEPT !.pc = FirstRequest(u), !.kind = "load", !.dir = u,
                               !.uid = u, !.allow = config.allow_create]
  <2>7. w \in Attempts /\ w.dir \in Dirs
    BY <2>2, IdleTypes DEF Idle, Attempts, PCs, FirstRequest
  <2>8. work' \in [Procs -> Attempts] /\ lock' \in [Dirs -> Procs \cup {None}]
    <3>1. CASE UNCHANGED <<work, lock>>
      BY <3>1 DEF Attempts
    <3>2. CASE Begin(p, w)
      <4> HIDE DEF w
      <4> QED BY <1>0, <2>7, <3>2, WorkTypes
    <3> QED BY <2>1, <3>1, <3>2
  <2> QED BY <1>1, <2>3, <2>4, <2>6, <2>8 DEF Load, files, game, Attempts, Sessions
<1>2. CASE Recover(p)
  <2>1. /\ work' \in [Procs -> Attempts] /\ lock' \in [Dirs -> Procs \cup {None}]
        /\ asked' \in [Servers -> SUBSET Users]
        /\ selected' \in [Servers -> Users \cup {None}]
    <3>1. CASE config.accounts
      <4>1. PICK u \in Selectable : Pin(p, u) /\ Recovers(p, u)
        BY <1>2, <3>1 DEF Recover
      <4>2. u \in Users /\ u \in Dirs
        BY SelectableUsers DEF Dirs
      <4> QED BY <4>1, <4>2, RecoversTypes DEF Pin
    <3>2. CASE ~config.accounts
      <4>1. Recovers(p, ManualDir) /\ UNCHANGED selected /\ ManualDir \in Dirs
        BY <1>2, <3>2 DEF Recover, Dirs
      <4> QED BY <4>1, RecoversTypes
    <3> QED BY <3>1, <3>2
  <2> QED BY <1>2, <2>1 DEF Recover, files, game, Attempts
<1>3. CASE Mark(p)
  <2>1. session' \in [Procs -> Sessions]
    BY <1>0, <1>3 DEF Mark, Sessions
  <2> QED BY <1>3, <2>1 DEF Mark, files, game, Sessions
<1>4. CASE Reload(p)
  BY <1>4, FreshTypes DEF Reload, files, game, Sessions
<1>5. CASE Stop(p)
  BY <1>0, <1>5 DEF Stop, files, game
<1>6. ASSUME Down(p)
      PROVE  /\ proc' \in [Procs -> {"up", "stopping", "down"}]
             /\ session' \in [Procs -> Sessions]
             /\ selected' \in [Servers -> Users \cup {None}]
             /\ asked' \in [Servers -> SUBSET Users]
  BY <1>0, <1>6, IdleTypes DEF Down, Sessions
<1>7. CASE Exit(p)
  BY <1>6, <1>7 DEF Exit, files, game, Sessions
<1>8. CASE Crash(p)
  BY <1>0, <1>6, <1>8, WorkTypes DEF Crash, files, game, Sessions, Attempts
<1>9. CASE Restart(p)
  <2>1. proc' \in [Procs -> {"up", "stopping", "down"}]
    BY <1>9 DEF Restart
  <2> QED BY <1>9, <2>1, FreshTypes DEF Restart, files, game, Sessions
<1> QED BY <1>1, <1>2, <1>3, <1>4, <1>5, <1>7, <1>8, <1>9

(* And so do the operator's commands (operator.rs).                        *)
LEMMA CommandTypes ==
  ASSUME TypeOK, NEW c \in Commands,
         (\E u \in Users : SdkLogin(c, u)) \/ (\E allow \in BOOLEAN : GameLogin(c, allow))
  PROVE  TypeOK'
<1> USE DEF TypeOK
<1>0. c \in Procs /\ ManualDir \in Dirs
  BY DEF Procs, Dirs
<1>1. ASSUME NEW u \in Users, SdkLogin(c, u)
      PROVE  TypeOK'
  <2> DEFINE w == [Idle EXCEPT !.pc = "rsa", !.kind = "sdk_login", !.dir = ManualDir, !.uid = u]
  <2>1. w \in Attempts /\ w.dir \in Dirs
    BY <1>0, IdleTypes DEF Idle, Attempts, PCs
  <2>2. Begin(c, w)
    BY <1>1 DEF SdkLogin
  <2>3. work' \in [Procs -> Attempts] /\ lock' \in [Dirs -> Procs \cup {None}]
    <3> HIDE DEF w
    <3> QED BY <1>0, <2>1, <2>2, WorkTypes
  <2> QED BY <1>1, <2>3 DEF SdkLogin, files, game, Attempts
<1>2. ASSUME NEW allow \in BOOLEAN, GameLogin(c, allow)
      PROVE  TypeOK'
  <2> DEFINE w == [Idle EXCEPT !.pc = "pre_login", !.kind = "game_login", !.dir = ManualDir,
                               !.uid = pending[ManualDir], !.allow = allow]
  <2>1. w \in Attempts /\ w.dir \in Dirs
    BY <1>0, IdleTypes DEF Idle, Attempts, PCs
  <2>2. Begin(c, w)
    BY <1>2 DEF GameLogin
  <2>3. work' \in [Procs -> Attempts] /\ lock' \in [Dirs -> Procs \cup {None}]
    <3> HIDE DEF w
    <3> QED BY <1>0, <2>1, <2>2, WorkTypes
  <2>4. session' \in [Procs -> Sessions]
    BY <1>0, <1>2, IdleTypes DEF GameLogin, Sessions
  <2> QED BY <1>2, <2>3, <2>4 DEF GameLogin, files, game, Attempts, Sessions
<1> QED BY <1>1, <1>2

(* Every step keeps the types.                                             *)
LEMMA TypeStep ==
  ASSUME IInv, [Next]_vars
  PROVE  TypeOK'
<1>1. CASE Next
  BY <1>1, AskingTypes, SavingTypes, ServerTypes, CommandTypes DEF IInv, Next, Advance
<1>2. CASE UNCHANGED vars
  BY <1>2 DEF IInv, TypeOK, vars, files, game
<1> QED BY <1>1, <1>2

(***************************************************************************)
(* The steps, by what they do to the attempts.                             *)
(***************************************************************************)

Ended(p) == End(p) /\ \A q \in Procs \ {p} : proc'[q] = proc[q]

Moved(p) ==
  /\ work[p].pc # "idle" /\ work'[p].dir = work[p].dir /\ work'[p].uid = work[p].uid
  /\ \A q \in Procs \ {p} : work'[q] = work[q]
  /\ UNCHANGED <<lock, proc>>

Begun(p) ==
  /\ Ready(p) /\ UNCHANGED proc
  /\ \E w \in Attempts :
       /\ w.dir \in Dirs /\ w.uid \in Users /\ Own(w) /\ w.pc \notin Issued
       /\ Begin(p, w)

Stayed ==
  /\ UNCHANGED <<work, lock>>
  /\ \A q \in Procs : proc'[q] = "down" => proc[q] = "down" \/ work[q].pc = "idle"

(* A step ends an attempt, takes it further, begins one or leaves them be. *)
LEMMA Shape ==
  ASSUME IInv, [Next]_vars
  PROVE  Stayed \/ \E p \in Procs : Ended(p) \/ Moved(p) \/ Begun(p)
<1> USE DEF IInv
<1>1. ASSUME NEW p \in Procs, NEW pc \in PCs, work[p].pc # "idle", Goto(p, pc), UNCHANGED proc
      PROVE  Moved(p)
  BY <1>1 DEF Goto, Moved, TypeOK
<1>2. ASSUME NEW p \in Procs, End(p), UNCHANGED proc
      PROVE  Ended(p)
  BY <1>2 DEF Ended
<1>3. ASSUME NEW p \in Procs, Advance(p)
      PROVE  Ended(p) \/ Moved(p)
  <2>1. CASE Fail(p) \/ Refuse(p) \/ SavePending(p) \/ Publish(p)
    BY <1>2, <2>1 DEF Fail, Refuse, SavePending, Publish
  <2>2. CASE Rsa(p) \/ Password(p) \/ SaveInitial(p) \/ PreLogin(p)
    <3>1. work[p].pc # "idle" /\ UNCHANGED proc
      BY <2>2 DEF Rsa, Password, SaveInitial, PreLogin
    <3>2. End(p) \/ \E pc \in {"password", "save_initial", "save_pending", "pre_login", "login"} : Goto(p, pc)
      BY <2>2 DEF Rsa, Password, SaveInitial, PreLogin
    <3> QED BY <1>1, <1>2, <3>1, <3>2 DEF PCs
  <2>3. CASE Install(p) \/ SaveSdk(p) \/ SaveGame(p)
    <3>1. work[p].pc # "idle" /\ UNCHANGED proc
      BY <2>3 DEF Install, SaveSdk, SaveGame
    <3>2. End(p) \/ \E pc \in {"save_sdk", "save_game", "publish"} : Goto(p, pc)
      BY <2>3 DEF Install, SaveSdk, SaveGame
    <3> QED BY <1>1, <1>2, <3>1, <3>2 DEF PCs
  <2>4. CASE Issue(p)
    BY <2>4 DEF Issue, Moved, TypeOK
  <2> QED BY <1>3, <2>1, <2>2, <2>3, <2>4 DEF Advance
<1>4. ASSUME NEW p \in Servers, Load(p)
      PROVE  Stayed \/ Begun(p)
  <2>1. PICK u \in Selectable :
          \/ UNCHANGED <<work, lock>>
          \/ Begin(p, [Idle EXCEPT !.pc = FirstRequest(u), !.kind = "load", !.dir = u,
                                   !.uid = u, !.allow = config.allow_create])
    BY <1>4 DEF Load
  <2> DEFINE w == [Idle EXCEPT !.pc = FirstRequest(u), !.kind = "load", !.dir = u,
                               !.uid = u, !.allow = config.allow_create]
  <2>2. u \in Users /\ u \in Dirs
    BY SelectableUsers DEF Dirs
  <2>3. /\ w \in Attempts /\ w.dir \in Dirs /\ w.uid \in Users /\ w.dir = w.uid
        /\ w.pc \in {"rsa", "pre_login"}
    BY <2>2, IdleTypes DEF Idle, Attempts, PCs, FirstRequest, TypeOK
  <2>4. Ready(p) /\ UNCHANGED proc
    BY <1>4 DEF Load
  <2>5. CASE Begin(p, w)
    <3> HIDE DEF w
    <3> QED BY <2>3, <2>4, <2>5 DEF Begun, Own, Issued
  <2> QED BY <2>1, <2>4, <2>5 DEF Stayed
<1>5. ASSUME NEW p \in Servers, NEW d \in Dirs, Recovers(p, d), Ready(p), UNCHANGED proc
      PROVE  Stayed \/ Begun(p)
  <2> DEFINE u == owner[current[d]]
             w == [Idle EXCEPT !.pc = "pre_login", !.kind = "recover", !.dir = d, !.uid = u]
  <2>1. CASE UNCHANGED <<asked, work, lock>>
    BY <1>5, <2>1 DEF Stayed
  <2>2. CASE current[d] # 0 /\ Begin(p, w)
    <3>1. u \in Users /\ (d \in Users => u = d)
      BY <2>2 DEF TypeOK, Pointed, PointerComplete
    <3>2. /\ w \in Attempts /\ w.dir = d /\ w.uid = u /\ w.pc = "pre_login"
      BY <3>1, IdleTypes DEF Idle, Attempts, PCs
    <3> HIDE DEF w
    <3> QED BY <1>5, <2>2, <3>1, <3>2 DEF Begun, Own, Issued
  <2> QED BY <1>5, <2>1, <2>2 DEF Recovers
<1>6. ASSUME NEW p \in Servers, Recover(p)
      PROVE  Stayed \/ Begun(p)
  <2>1. Ready(p) /\ UNCHANGED proc
    BY <1>6 DEF Recover
  <2>2. \E d \in Dirs : Recovers(p, d)
    BY <1>6, SelectableUsers DEF Recover, Dirs
  <2> QED BY <1>5, <2>1, <2>2
<1>7. ASSUME NEW p \in Servers, Mark(p) \/ Reload(p) \/ Stop(p) \/ Exit(p) \/ Restart(p)
      PROVE  Stayed
  BY <1>7 DEF Mark, Reload, Stop, Exit, Restart, Down, Stayed, TypeOK
<1>8. ASSUME NEW p \in Servers, Crash(p)
      PROVE  Ended(p)
  BY <1>8 DEF Crash, Down, Ended, TypeOK
<1>9. ASSUME NEW c \in Commands, NEW u \in Users, SdkLogin(c, u)
      PROVE  Begun(c)
  <2> DEFINE w == [Idle EXCEPT !.pc = "rsa", !.kind = "sdk_login", !.dir = ManualDir, !.uid = u]
  <2>1. w \in Attempts /\ w.dir = ManualDir /\ w.uid = u /\ w.pc = "rsa"
    BY IdleTypes DEF Idle, Attempts, PCs, Dirs
  <2>2. Begin(c, w) /\ Ready(c) /\ UNCHANGED proc
    BY <1>9 DEF SdkLogin
  <2> HIDE DEF w
  <2> QED BY <2>1, <2>2, ConstantsAssumption DEF Begun, Own, Issued, Dirs
<1>10. ASSUME NEW c \in Commands, NEW allow \in BOOLEAN, GameLogin(c, allow)
       PROVE  Begun(c)
  <2> DEFINE w == [Idle EXCEPT !.pc = "pre_login", !.kind = "game_login", !.dir = ManualDir,
                               !.uid = pending[ManualDir], !.allow = allow]
  <2>1. pending[ManualDir] \in Users
    BY <1>10 DEF GameLogin, TypeOK, Dirs
  <2>2. w \in Attempts /\ w.dir = ManualDir /\ w.uid \in Users /\ w.pc = "pre_login"
    BY <2>1, IdleTypes DEF Idle, Attempts, PCs, Dirs
  <2>3. Begin(c, w) /\ Ready(c) /\ UNCHANGED proc
    BY <1>10 DEF GameLogin
  <2> HIDE DEF w
  <2> QED BY <2>2, <2>3, ConstantsAssumption DEF Begun, Own, Issued, Dirs
<1>11. CASE UNCHANGED vars
  BY <1>11 DEF Stayed, vars
<1> QED BY <1>3, <1>4, <1>6, <1>7, <1>8, <1>9, <1>10, <1>11 DEF Next, Procs

(***************************************************************************)
(* The lock.                                                               *)
(***************************************************************************)

(* Who is at an attempt keeps its lock until it ends (operator.rs, the     *)
(* advisory lock).                                                         *)
LEMMA HeldStep ==
  ASSUME IInv, [Next]_vars
  PROVE  Held'
<1> USE DEF IInv, TypeOK, Held
<1>1. CASE Stayed
  BY <1>1 DEF Stayed
<1>2. ASSUME NEW p \in Procs, Ended(p)
      PROVE  Held'
  BY <1>2, ConstantsAssumption DEF Ended, End, Idle
<1>3. ASSUME NEW p \in Procs, Moved(p)
      PROVE  Held'
  BY <1>3 DEF Moved
<1>4. ASSUME NEW p \in Procs, Begun(p)
      PROVE  Held'
  BY <1>4, ConstantsAssumption DEF Begun, Begin, TakeLock, Ready
<1> QED BY <1>1, <1>2, <1>3, <1>4, Shape

(* An attempt never leaves its directory.                                  *)
LEMMA OwnStep ==
  ASSUME IInv, [Next]_vars
  PROVE  \A q \in Procs : Own(work'[q])
<1> USE DEF IInv, TypeOK, Carried, Own
<1>1. CASE Stayed
  BY <1>1 DEF Stayed
<1>2. ASSUME NEW p \in Procs, Ended(p)
      PROVE  \A q \in Procs : Own(work'[q])
  BY <1>2, ConstantsAssumption DEF Ended, End, Idle
<1>3. ASSUME NEW p \in Procs, Moved(p)
      PROVE  \A q \in Procs : Own(work'[q])
  BY <1>3 DEF Moved
<1>4. ASSUME NEW p \in Procs, Begun(p)
      PROVE  \A q \in Procs : Own(work'[q])
  BY <1>4 DEF Begun, Begin
<1> QED BY <1>1, <1>2, <1>3, <1>4, Shape

(***************************************************************************)
(* The logins.                                                             *)
(***************************************************************************)

(* The game issues logins one after another and never gives one to another *)
(* user, and snapshots are only ever added (operator.rs, persist).         *)
LEMMA Growth ==
  ASSUME IInv, [Next]_vars
  PROVE  /\ serial' \in Nat /\ serial' >= serial
         /\ \A n \in 1 .. serial : owner'[n] = owner[n]
         /\ \A d \in Dirs : sdkFiles[d] \subseteq sdkFiles'[d] /\ gameFiles[d] \subseteq gameFiles'[d]
<1> USE DEF IInv, TypeOK
<1>1. ASSUME NEW p \in Procs, Issue(p)
      PROVE  /\ serial' = serial + 1 /\ UNCHANGED <<sdkFiles, gameFiles>>
             /\ \A n \in 1 .. serial : owner'[n] = owner[n]
  BY <1>1, ConstantsAssumption DEF Issue, files, Logins
<1>2. ASSUME NEW p \in Procs, SaveSdk(p) \/ SaveGame(p)
      PROVE  /\ UNCHANGED <<serial, owner>>
             /\ \A d \in Dirs : sdkFiles[d] \subseteq sdkFiles'[d] /\ gameFiles[d] \subseteq gameFiles'[d]
  <2>1. CASE SaveSdk(p)
    <3>1. \A d \in Dirs : sdkFiles'[d] \in {sdkFiles[d], sdkFiles[d] \cup {work[p].login}}
      BY <2>1 DEF SaveSdk
    <3> QED BY <2>1, <3>1 DEF SaveSdk, game
  <2>2. CASE SaveGame(p)
    <3>1. \A d \in Dirs : gameFiles'[d] \in {gameFiles[d], gameFiles[d] \cup {session[p].login}}
      BY <2>2 DEF SaveGame
    <3> QED BY <2>2, <3>1 DEF SaveGame, game
  <2> QED BY <1>2, <2>1, <2>2
<1>3. ASSUME NEW p \in Procs,
             \/ Fail(p) \/ Rsa(p) \/ Password(p) \/ SaveInitial(p) \/ SavePending(p)
             \/ PreLogin(p) \/ Refuse(p) \/ Install(p) \/ Publish(p)
      PROVE  UNCHANGED <<serial, owner, sdkFiles, gameFiles>>
  BY <1>3 DEF Fail, Rsa, Password, SaveInitial, SavePending, PreLogin, Refuse, Install, Publish,
              files, game
<1>4. ASSUME NEW p \in Servers,
             \/ Load(p) \/ Recover(p) \/ Mark(p) \/ Reload(p)
             \/ Stop(p) \/ Exit(p) \/ Crash(p) \/ Restart(p)
      PROVE  UNCHANGED <<serial, owner, sdkFiles, gameFiles>>
  BY <1>4 DEF Load, Recover, Mark, Reload, Stop, Exit, Crash, Restart, files, game
<1>5. ASSUME NEW c \in Commands,
             (\E u \in Users : SdkLogin(c, u)) \/ (\E allow \in BOOLEAN : GameLogin(c, allow))
      PROVE  UNCHANGED <<serial, owner, sdkFiles, gameFiles>>
  BY <1>5 DEF SdkLogin, GameLogin, files, game
<1>6. CASE UNCHANGED vars
  BY <1>6 DEF vars, files, game
<1>7. serial \in Nat /\ serial <= serial
  BY ConstantsAssumption
<1> QED BY <1>1, <1>2, <1>3, <1>4, <1>5, <1>6, <1>7 DEF Next, Advance

(* Nothing but Publish moves a pointer, and nothing but Issue has the game *)
(* issue a login.                                                          *)
LEMMA Pointers ==
  ASSUME [Next]_vars
  PROVE  \/ UNCHANGED <<serial, owner, current>>
         \/ \E p \in Procs : Issue(p) \/ Publish(p)
<1>1. ASSUME NEW p \in Procs,
             \/ Fail(p) \/ Rsa(p) \/ Password(p) \/ SaveInitial(p) \/ SavePending(p)
             \/ PreLogin(p) \/ Refuse(p) \/ Install(p) \/ SaveSdk(p) \/ SaveGame(p)
      PROVE  UNCHANGED <<serial, owner, current>>
  BY <1>1 DEF Fail, Rsa, Password, SaveInitial, SavePending, PreLogin, Refuse, Install,
              SaveSdk, SaveGame, files, game
<1>2. ASSUME NEW p \in Servers,
             \/ Load(p) \/ Recover(p) \/ Mark(p) \/ Reload(p)
             \/ Stop(p) \/ Exit(p) \/ Crash(p) \/ Restart(p)
      PROVE  UNCHANGED <<serial, owner, current>>
  BY <1>2 DEF Load, Recover, Mark, Reload, Stop, Exit, Crash, Restart, files, game
<1>3. ASSUME NEW c \in Commands,
             (\E u \in Users : SdkLogin(c, u)) \/ (\E allow \in BOOLEAN : GameLogin(c, allow))
      PROVE  UNCHANGED <<serial, owner, current>>
  BY <1>3 DEF SdkLogin, GameLogin, files, game
<1>4. CASE UNCHANGED vars
  BY <1>4 DEF vars, files, game
<1> QED BY <1>1, <1>2, <1>3, <1>4 DEF Next, Advance

(* The session of an attempt that has been issued a login changes by its   *)
(* own Install alone: whatever else happens to the process only marks it.  *)
LEMMA Sessioned ==
  ASSUME IInv, [Next]_vars, NEW q \in Procs
  PROVE  \/ work'[q] = work[q] /\ session'[q].login = session[q].login
         \/ work'[q].pc \notin Issued
         \/ Issue(q) \/ Install(q) \/ SaveSdk(q) \/ SaveGame(q)
<1> USE DEF IInv, TypeOK
<1>1. ASSUME NEW p \in Procs,
             \/ Fail(p) \/ Rsa(p) \/ Password(p) \/ SaveInitial(p) \/ SavePending(p)
             \/ PreLogin(p) \/ Refuse(p) \/ Publish(p)
      PROVE  IF p = q THEN work'[q].pc \notin Issued
             ELSE work'[q] = work[q] /\ session'[q] = session[q]
  <2>1. \/ End(p) \/ \E pc \in {"password", "save_initial", "save_pending", "pre_login", "login"} : Goto(p, pc)
    BY <1>1 DEF Fail, Rsa, Password, SaveInitial, SavePending, PreLogin, Refuse, Publish
  <2>2. IF p = q THEN work'[q].pc \notin Issued ELSE work'[q] = work[q]
    BY <2>1 DEF End, Idle, Goto, Issued
  <2>3. p # q => session'[q] = session[q]
    BY <1>1 DEF Fail, Rsa, Password, SaveInitial, SavePending, PreLogin, Refuse, Publish
  <2> QED BY <2>2, <2>3
<1>2. ASSUME NEW p \in Procs, p # q, Issue(p) \/ Install(p) \/ SaveSdk(p) \/ SaveGame(p)
      PROVE  work'[q] = work[q] /\ session'[q] = session[q]
  BY <1>2 DEF Issue, Install, SaveSdk, SaveGame, Goto, End
<1>3. ASSUME NEW p \in Servers, Load(p) \/ Recover(p)
      PROVE  work' = work \/ \E w : w.pc \notin Issued /\ work' = [work EXCEPT ![p] = w]
  <2>1. CASE Load(p)
    BY <2>1 DEF Load, Begin, FirstRequest, Idle, Issued
  <2>2. ASSUME NEW d \in Dirs, Recovers(p, d)
        PROVE  work' = work \/ \E w : w.pc \notin Issued /\ work' = [work EXCEPT ![p] = w]
    BY <2>2 DEF Recovers, Begin, Idle, Issued
  <2>3. CASE Recover(p)
    BY <2>2, <2>3, SelectableUsers DEF Recover, Dirs
  <2> QED BY <1>3, <2>1, <2>3
<1>4. ASSUME NEW p \in Servers,
             \/ Load(p) \/ Recover(p) \/ Mark(p) \/ Reload(p)
             \/ Stop(p) \/ Exit(p) \/ Crash(p) \/ Restart(p)
      PROVE  \/ work'[q] = work[q] /\ session'[q].login = session[q].login
             \/ work'[q].pc \notin Issued
  <2>0. p \in Procs
    BY DEF Procs
  <2>1. p # q => session'[q] = session[q]
    BY <1>4 DEF Load, Recover, Mark, Reload, Stop, Exit, Crash, Restart, Fresh, Down
  <2>2. CASE Load(p) \/ Recover(p)
    <3>1. work[p].pc = "idle"
      BY <2>2 DEF Load, Recover, Ready
    <3> QED BY <1>3, <2>0, <2>1, <2>2, <3>1 DEF Issued
  <2>3. CASE Mark(p)
    BY <2>0, <2>3 DEF Mark
  <2>4. CASE Reload(p) \/ Exit(p) \/ Restart(p)
    <3>1. work[p].pc = "idle" /\ work' = work
      BY <2>0, <2>4 DEF Reload, Exit, Restart, Ready, Held
    <3> QED BY <2>1, <3>1 DEF Issued
  <2>5. CASE Stop(p)
    BY <2>5 DEF Stop
  <2>6. CASE Crash(p)
    BY <2>0, <2>1, <2>6 DEF Crash, End, Idle, Issued
  <2> QED BY <1>4, <2>2, <2>3, <2>4, <2>5, <2>6
<1>5. ASSUME NEW c \in Commands,
             (\E u \in Users : SdkLogin(c, u)) \/ (\E allow \in BOOLEAN : GameLogin(c, allow))
      PROVE  \/ work'[q] = work[q] /\ session'[q] = session[q]
             \/ work'[q].pc \notin Issued
  <2>1. c # q => work'[q] = work[q] /\ session'[q] = session[q]
    BY <1>5 DEF SdkLogin, GameLogin, Begin
  <2>2. c = q => work'[q].pc \in {"rsa", "pre_login"}
    <3>0. c \in DOMAIN work
      BY DEF Procs
    <3>1. ASSUME NEW u \in Users, SdkLogin(c, u)
          PROVE  work'[c].pc = "rsa"
      <4> DEFINE a == [Idle EXCEPT !.pc = "rsa", !.kind = "sdk_login", !.dir = ManualDir, !.uid = u]
      <4>1. a.pc = "rsa" /\ work' = [work EXCEPT ![c] = a]
        BY <3>1 DEF SdkLogin, Begin, Idle
      <4> HIDE DEF a
      <4> QED BY <3>0, <4>1
    <3>2. ASSUME NEW allow \in BOOLEAN, GameLogin(c, allow)
          PROVE  work'[c].pc = "pre_login"
      <4> DEFINE a == [Idle EXCEPT !.pc = "pre_login", !.kind = "game_login", !.dir = ManualDir,
                                   !.uid = pending[ManualDir], !.allow = allow]
      <4>1. a.pc = "pre_login" /\ work' = [work EXCEPT ![c] = a]
        BY <3>2 DEF GameLogin, Begin, Idle
      <4> HIDE DEF a
      <4> QED BY <3>0, <4>1
    <3> QED BY <1>5, <3>1, <3>2
  <2> QED BY <2>1, <2>2 DEF Issued
<1>6. CASE UNCHANGED vars
  BY <1>6 DEF vars
<1>7. CASE \E p \in Procs : Advance(p)
  BY <1>1, <1>2, <1>7 DEF Advance
<1>8. CASE \E p \in Servers : \/ Load(p) \/ Recover(p) \/ Mark(p) \/ Reload(p)
                              \/ Stop(p) \/ Exit(p) \/ Crash(p) \/ Restart(p)
  BY <1>4, <1>8
<1>9. CASE \E c \in Commands : \/ \E u \in Users : SdkLogin(c, u)
                               \/ \E allow \in BOOLEAN : GameLogin(c, allow)
  BY <1>5, <1>9
<1> QED BY <1>6, <1>7, <1>8, <1>9 DEF Next

(* A pointer that moves moves to the login of the attempt that holds its   *)
(* directory's lock, which ends with that.                                 *)
LEMMA Publishing ==
  ASSUME IInv, NEW p \in Procs, Publish(p)
  PROVE  /\ work[p].dir \in Dirs
         /\ work[p].login \in 1 .. serial /\ owner[work[p].login] = work[p].uid
         /\ current[work[p].dir] < work[p].login
         /\ work[p].login \in sdkFiles[work[p].dir] \cap gameFiles[work[p].dir]
         /\ current' = [current EXCEPT ![work[p].dir] = work[p].login]
         /\ UNCHANGED <<serial, owner, sdkFiles, gameFiles>>
         /\ work'[p].pc = "idle"
         /\ \A q \in Procs \ {p} : work[q].pc # "idle" => work[q].dir # work[p].dir
<1>1. work[p].pc = "publish" /\ Carries(p)
  BY DEF Publish, IInv, Carried
<1>2. /\ work[p].login \in 1 .. serial /\ owner[work[p].login] = work[p].uid
      /\ current[work[p].dir] < work[p].login
      /\ work[p].login \in sdkFiles[work[p].dir] \cap gameFiles[work[p].dir]
  BY <1>1 DEF Carries, Issued
<1>3. work[p].dir \in Dirs
  BY <1>1 DEF IInv, Held
<1>4. work'[p].pc = "idle"
  BY DEF Publish, End, Idle, IInv, TypeOK
<1>5. \A q \in Procs \ {p} : work[q].pc # "idle" => work[q].dir # work[p].dir
  BY <1>1 DEF IInv, Held
<1> QED BY <1>2, <1>3, <1>4, <1>5 DEF Publish, game

(* What an attempt carries, it carries on (operator.rs, persist).          *)
LEMMA CarriesStep ==
  ASSUME IInv, [Next]_vars, NEW q \in Procs
  PROVE  Carries(q)'
<1> USE DEF IInv, TypeOK
<1>1. Carries(q) /\ (work[q].pc # "idle" => work[q].dir \in Dirs /\ work[q].uid \in Users)
  BY DEF Carried, Held
<1>2. CASE work'[q].pc \notin Issued
  BY <1>2 DEF Carries, Issued
<1>3. CASE work'[q] = work[q] /\ session'[q].login = session[q].login /\ work'[q].pc \in Issued
  <2>1. work[q].dir \in Dirs
    BY <1>1, <1>3 DEF Issued
  <2>2. current'[work[q].dir] = current[work[q].dir]
    <3>1. ASSUME NEW p \in Procs, Issue(p)
          PROVE  current' = current
      BY <3>1 DEF Issue, files
    <3>2. ASSUME NEW p \in Procs, Publish(p)
          PROVE  current'[work[q].dir] = current[work[q].dir]
      <4>1. p # q /\ work[q].pc # "idle"
        BY <1>3, <3>2, Publishing DEF Issued
      <4> QED BY <2>1, <3>2, <4>1, Publishing
    <3> QED BY <3>1, <3>2, Pointers
  <2>3. work[q].login \in 1 .. serial => work[q].login \in 1 .. serial' /\ owner'[work[q].login] = owner[work[q].login]
    BY Growth
  <2> QED BY <1>1, <1>3, <2>1, <2>2, <2>3, Growth DEF Carries, Issued
<1>4. CASE Issue(q)
  <2>1. /\ work'[q] = [work[q] EXCEPT !.pc = "reply", !.login = serial + 1]
        /\ serial' = serial + 1 /\ serial + 1 \in Logins
        /\ owner'[serial + 1] = work[q].uid /\ current' = current
    BY <1>4, ConstantsAssumption DEF Issue, files, Logins
  <2>2. work'[q].pc = "reply" /\ work'[q].login = serial' /\ work'[q].uid = work[q].uid /\ work'[q].dir = work[q].dir
    BY <2>1
  <2>3. work[q].dir \in Dirs /\ current[work[q].dir] <= serial
    BY <1>1, <1>4 DEF Issue, Pointed
  <2>4. serial' \in 1 .. serial' /\ current[work[q].dir] < serial'
    BY <2>1, <2>3
  <2> QED BY <2>1, <2>2, <2>4 DEF Carries, Issued
<1>5. CASE Install(q) /\ work'[q].pc \in Issued
  <2>1. /\ work[q].pc = "reply" /\ work' = [work EXCEPT ![q].pc = "save_sdk"]
        /\ session' = [session EXCEPT ![q] = Loaded(work[q].login)]
        /\ UNCHANGED <<current, serial, owner>>
    BY <1>5 DEF Install, End, Idle, Goto, Issued, files, game
  <2> QED BY <1>1, <2>1 DEF Carries, Issued, Loaded
<1>6. CASE SaveSdk(q)
  <2>1. /\ work[q].pc = "save_sdk" /\ work' = [work EXCEPT ![q].pc = "save_game"]
        /\ sdkFiles' = [sdkFiles EXCEPT ![work[q].dir] = @ \cup {work[q].login}]
        /\ UNCHANGED <<session, current, serial, owner>>
    BY <1>6 DEF SaveSdk, Goto, game
  <2> QED BY <1>1, <2>1 DEF Carries, Issued
<1>7. CASE SaveGame(q)
  <2>1. /\ work[q].pc = "save_game" /\ work' = [work EXCEPT ![q].pc = "publish"]
        /\ gameFiles' = [gameFiles EXCEPT ![work[q].dir] = @ \cup {session[q].login}]
        /\ UNCHANGED <<session, current, serial, owner, sdkFiles>>
    BY <1>7 DEF SaveGame, Goto, game
  <2> QED BY <1>1, <2>1 DEF Carries, Issued
<1> QED BY <1>2, <1>3, <1>4, <1>5, <1>6, <1>7, Sessioned

(* A pointer leads to a complete pair, of the account whose directory it   *)
(* is in (operator.rs, persist; accounts.rs, recover).                     *)
LEMMA PointedStep ==
  ASSUME IInv, [Next]_vars
  PROVE  Pointed'
<1> USE DEF IInv, TypeOK
<1>1. \A d \in Dirs : current[d] \in 0 .. serial
  BY DEF Pointed
<1>2. ASSUME UNCHANGED current
      PROVE  PointerComplete' /\ \A d \in Dirs : current'[d] <= serial'
  BY <1>1, <1>2, Growth DEF Pointed, PointerComplete
<1>3. ASSUME NEW p \in Procs, Issue(p)
      PROVE  Pointed'
  <2>1. /\ serial' = serial + 1 /\ serial + 1 \in Logins /\ current' = current
        /\ owner' = [owner EXCEPT ![serial + 1] = work[p].uid]
    BY <1>3, ConstantsAssumption DEF Issue, files, Logins
  <2>2. work[p].uid \in Users
    BY <1>3 DEF Issue, Held
  <2>3. \A n \in 1 .. serial' : n \in 1 .. serial \/ n = serial + 1
    BY <2>1
  <2>4. \A n \in 1 .. serial' : owner'[n] \in Users
    BY <2>1, <2>2, <2>3, Growth DEF Pointed
  <2> QED BY <1>2, <2>1, <2>4 DEF Pointed
<1>4. ASSUME NEW p \in Procs, Publish(p)
      PROVE  Pointed'
  <2>1. work[p].dir \in Users => owner[work[p].login] = work[p].dir
    BY <1>4, Publishing DEF Carried, Own
  <2>2. \A d \in Dirs : current'[d] # 0 =>
          current'[d] \in sdkFiles[d] \cap gameFiles[d] /\ (d \in Users => owner[current'[d]] = d)
    BY <1>4, <2>1, Publishing DEF Pointed, PointerComplete
  <2>3. \A d \in Dirs : current'[d] <= serial
    BY <1>4, Publishing DEF Pointed
  <2> QED BY <1>4, <2>2, <2>3, Publishing DEF Pointed, PointerComplete
<1>5. CASE UNCHANGED <<serial, owner, current>>
  BY <1>2, <1>5 DEF Pointed
<1> QED BY <1>3, <1>4, <1>5, Pointers

(* Nothing is locked, issued or published at first.                        *)
LEMMA InitIInv == Init => IInv
<1> SUFFICES ASSUME Init PROVE IInv
  OBVIOUS
<1>1. TypeOK
  BY IdleTypes, ConstantsAssumption DEF Init, TypeOK, Attempts, Sessions
<1>2. Held
  BY DEF Init, Held, Idle
<1>3. Carried
  BY ConstantsAssumption DEF Init, Carried, Carries, Own, Issued, Idle
<1>4. Pointed
  BY DEF Init, Pointed, PointerComplete
<1> QED BY <1>1, <1>2, <1>3, <1>4 DEF IInv

(***************************************************************************)
(* The theorems.                                                           *)
(***************************************************************************)

(* The inductive invariant holds in every reachable state.                 *)
THEOREM LoginInvariance == Spec => []IInv
<1>1. IInv /\ [Next]_vars => IInv'
  <2> SUFFICES ASSUME IInv, [Next]_vars PROVE IInv'
    OBVIOUS
  <2>1. Carried'
    BY OwnStep, CarriesStep DEF Carried
  <2> QED BY <2>1, TypeStep, HeldStep, PointedStep DEF IInv
<1> QED BY InitIInv, <1>1, PTL DEF Spec

(* The types hold in every reachable state.                                *)
THEOREM LoginTypes == Spec => []TypeOK
<1>1. IInv => TypeOK
  BY DEF IInv
<1> QED BY <1>1, LoginInvariance, PTL

(* current.json always leads to a complete pair of snapshots, and in an    *)
(* account's directory to that account's (operator.rs, persist).           *)
THEOREM PointerAlwaysComplete == Spec => []PointerComplete
<1>1. IInv => PointerComplete
  BY DEF IInv, Pointed
<1> QED BY <1>1, LoginInvariance, PTL

(* The attempts implement PublishedLogin: a pointer is only ever moved, in *)
(* one step, to a newer login that the game has issued.                    *)
THEOREM PublishingImplements == Spec => PublishedSpec
<1>1. Init => Published!Init
  BY DEF Init, Published!Init
<1>2. ASSUME IInv, [Next]_vars
      PROVE  [Published!Next]_(Published!vars)
  <2>1. ASSUME NEW p \in Procs, Issue(p)
        PROVE  Published!Issue
    BY <2>1 DEF Issue, files, Published!Issue
  <2>2. ASSUME NEW p \in Procs, Publish(p)
        PROVE  Published!Publish(work[p].dir)
    <3>1. work[p].login \in current[work[p].dir] + 1 .. serial
      BY <1>2, <2>2, Publishing DEF IInv, TypeOK
    <3> QED BY <1>2, <2>2, <3>1, Publishing DEF Published!Publish
  <2>3. ASSUME NEW p \in Procs, Publish(p)
        PROVE  work[p].dir \in Dirs
    BY <1>2, <2>3, Publishing
  <2> QED BY <1>2, <2>1, <2>2, <2>3, Pointers DEF Published!Next, Published!vars
<1> QED BY <1>1, <1>2, LoginInvariance, PTL DEF Spec, PublishedSpec, Published!Spec
=============================================================================

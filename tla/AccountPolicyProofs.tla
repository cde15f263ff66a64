------------------------ MODULE AccountPolicyProofs ------------------------
(***************************************************************************)
(* What is proved of AccountLogin about whose secrets are used, and what   *)
(* for: passwords, identities and new roles.  The invariant about files    *)
(* and logins that AccountLoginProofs proves carries most of it.           *)
(***************************************************************************)
EXTENDS AccountLoginProofs, FiniteSetTheorems

AskingPassword == {"rsa", "password", "save_initial"}

(* A role may be missing only where one may be created.                    *)
Allowed(p) ==
  LET w == work[p] IN
  /\ w.allow => w.kind = "game_login" \/ (w.kind = "load" /\ config.allow_create)
  /\ w.pc = "login" => w.uid \in roles \/ w.allow

(* While an account's password is used there is nothing to use instead.    *)
Needed(p) ==
  LET w == work[p] IN
  w.kind = "load" /\ w.pc \in AskingPassword => ~initial[w.dir] /\ current[w.dir] = 0

(* A server with account files works for the account it selected first.    *)
Single(p) ==
  config.accounts /\ p \in Servers =>
    /\ asked[p] \subseteq {selected[p]}
    /\ work[p].pc # "idle" => work[p].uid = selected[p]

(* Who is at no attempt is in no directory.                                *)
Resting(p) == work[p].pc = "idle" => work[p] = Idle

Policy == \A p \in Procs : Allowed(p) /\ Needed(p) /\ Single(p) /\ Resting(p)

(***************************************************************************)
(* The steps, by what they do to one attempt.                              *)
(***************************************************************************)

(* An attempt goes on as the one it is.                                    *)
Continued(q) ==
  /\ work[q].pc # "idle" /\ work'[q].pc # "idle"
  /\ work'[q].dir = work[q].dir /\ work'[q].uid = work[q].uid
  /\ work'[q].kind = work[q].kind /\ work'[q].allow = work[q].allow
  /\ work'[q].pc \in AskingPassword => work[q].pc \in AskingPassword
  /\ work'[q].pc = "login" => work[q].uid \in roles \/ work[q].allow

(* An attempt w of q begins.                                               *)
Started(q, w) ==
  /\ work[q].pc = "idle" /\ Begin(q, w)
  /\ \/ /\ w.kind = "load" /\ w.allow = config.allow_create /\ w.pc = FirstRequest(w.dir)
        /\ current[w.dir] = 0 /\ UNCHANGED <<initial, current>>
        /\ q \in Servers /\ selected'[q] = w.uid
     \/ /\ w.kind = "recover" /\ ~w.allow /\ w.pc = "pre_login"
        /\ config.accounts => q \in Servers /\ selected'[q] = w.uid
     \/ w.kind = "sdk_login" /\ ~w.allow /\ w.pc = "rsa" /\ ~config.accounts
     \/ w.kind = "game_login" /\ w.pc = "pre_login" /\ ~config.accounts

(* Going on to a later request or file is to continue.                     *)
LEMMA GotoContinues ==
  ASSUME TypeOK, NEW p \in Procs, work[p].pc # "idle",
         NEW pc \in PCs \ {"idle", "rsa", "login"},
         pc \in AskingPassword => work[p].pc \in AskingPassword, Goto(p, pc)
  PROVE  Continued(p)
BY DEF Goto, Continued, TypeOK

(* What a step of p does to p's own attempt, and to no other one.          *)
LEMMA OwnStepKinds ==
  ASSUME IInv, NEW p \in Procs, Advance(p)
  PROVE  /\ work'[p] = Idle \/ Continued(p)
         /\ \A q \in Procs \ {p} : work'[q] = work[q]
<1> USE DEF IInv, TypeOK
<1>1. ASSUME End(p)
      PROVE  work'[p] = Idle /\ \A q \in Procs \ {p} : work'[q] = work[q]
  BY <1>1 DEF End
<1>2. ASSUME NEW pc \in PCs, Goto(p, pc)
      PROVE  \A q \in Procs \ {p} : work'[q] = work[q]
  BY <1>2 DEF Goto
<1>3. CASE Fail(p) \/ Refuse(p) \/ SavePending(p) \/ Publish(p)
  BY <1>1, <1>3 DEF Fail, Refuse, SavePending, Publish
<1>4. CASE Rsa(p)
  <2>1. work[p].pc = "rsa" /\ (End(p) \/ Goto(p, "password"))
    BY <1>4 DEF Rsa
  <2> QED BY <1>1, <1>2, <2>1, GotoContinues DEF PCs, AskingPassword
<1>5. CASE Password(p)
  <2>1. work[p].pc = "password" /\ (End(p) \/ Goto(p, "save_initial") \/ Goto(p, "save_pending"))
    BY <1>5 DEF Password
  <2> QED BY <1>1, <1>2, <2>1, GotoContinues DEF PCs, AskingPassword
<1>6. CASE SaveInitial(p)
  <2>1. work[p].pc = "save_initial" /\ Goto(p, "pre_login")
    BY <1>6 DEF SaveInitial
  <2> QED BY <1>2, <2>1, GotoContinues DEF PCs, AskingPassword
<1>7. CASE PreLogin(p)
  <2>1. CASE End(p)
    BY <1>1, <2>1
  <2>2. CASE ~End(p)
    <3>1. /\ work[p].pc = "pre_login" /\ work' = [work EXCEPT ![p].pc = "login"]
          /\ work[p].uid \in roles \/ work[p].allow
      BY <1>7, <2>2 DEF PreLogin, Goto
    <3> QED BY <3>1 DEF Continued, AskingPassword
  <2> QED BY <2>1, <2>2
<1>8. CASE Issue(p)
  BY <1>8 DEF Issue, Continued, AskingPassword
<1>9. CASE Install(p) \/ SaveSdk(p) \/ SaveGame(p)
  <2>1. /\ work[p].pc # "idle"
        /\ End(p) \/ \E pc \in {"save_sdk", "save_game", "publish"} : Goto(p, pc)
    BY <1>9 DEF Install, SaveSdk, SaveGame
  <2> QED BY <1>1, <1>2, <2>1, GotoContinues DEF PCs, AskingPassword
<1> QED BY <1>3, <1>4, <1>5, <1>6, <1>7, <1>8, <1>9 DEF Advance

(* What begins an attempt of p or leaves all as they are.                  *)
LEMMA StartKinds ==
  ASSUME IInv, NEW p \in Procs,
         \/ p \in Servers /\ (Load(p) \/ Recover(p))
         \/ p \in Commands /\ \/ \E u \in Users : SdkLogin(p, u)
                              \/ \E allow \in BOOLEAN : GameLogin(p, allow)
  PROVE  work[p].pc = "idle" /\ (work' = work \/ \E w \in Attempts : Started(p, w))
<1> USE DEF IInv, TypeOK
<1>0. work[p].pc = "idle"
  BY DEF Load, Recover, SdkLogin, GameLogin, Ready
<1>1. ASSUME p \in Servers, Load(p)
      PROVE  work' = work \/ \E w \in Attempts : Started(p, w)
  <2>1. PICK u \in Selectable :
          /\ Pin(p, u)
          /\ \/ UNCHANGED work
             \/ /\ current[u] = 0
                /\ Begin(p, [Idle EXCEPT !.pc = FirstRequest(u), !.kind = "load", !.dir = u,
                                         !.uid = u, !.allow = config.allow_create])
    BY <1>1 DEF Load
  <2> DEFINE a == [Idle EXCEPT !.pc = FirstRequest(u), !.kind = "load", !.dir = u,
                               !.uid = u, !.allow = config.allow_create]
  <2>2. u \in Users
    BY SelectableUsers
  <2>3. /\ a \in Attempts /\ a.kind = "load" /\ a.dir = u /\ a.uid = u
        /\ a.pc = FirstRequest(u) /\ a.allow = config.allow_create
    BY <2>2, IdleTypes DEF Idle, Attempts, PCs, FirstRequest, Dirs
  <2>4. selected'[p] = u /\ UNCHANGED <<initial, current>>
    BY <1>1, <2>1 DEF Pin, Load, files
  <2>5. CASE current[u] = 0 /\ Begin(p, a)
    <3> HIDE DEF a
    <3>1. Started(p, a)
      BY <1>0, <1>1, <2>3, <2>4, <2>5 DEF Started
    <3> QED BY <2>3, <3>1
  <2> QED BY <2>1, <2>5
<1>2. ASSUME p \in Servers, NEW d \in Dirs, Recovers(p, d),
             config.accounts => d \in Users /\ selected'[p] = d
      PROVE  work' = work \/ \E w \in Attempts : Started(p, w)
  <2> DEFINE u == owner[current[d]]
             a == [Idle EXCEPT !.pc = "pre_login", !.kind = "recover", !.dir = d, !.uid = u]
  <2>1. CASE UNCHANGED <<asked, work, lock>>
    BY <2>1
  <2>2. CASE current[d] # 0 /\ Begin(p, a)
    <3>1. u \in Users /\ (d \in Users => u = d)
      BY <2>2 DEF Pointed, PointerComplete
    <3>2. /\ a \in Attempts /\ a.kind = "recover" /\ a.dir = d /\ a.uid = u
          /\ a.pc = "pre_login" /\ a.allow = FALSE
      BY <3>1, IdleTypes DEF Idle, Attempts, PCs
    <3> HIDE DEF a
    <3>3. Started(p, a)
      BY <1>0, <1>2, <2>2, <3>1, <3>2 DEF Started
    <3> QED BY <3>2, <3>3
  <2> QED BY <1>2, <2>1, <2>2 DEF Recovers
<1>3. ASSUME p \in Servers, Recover(p)
      PROVE  work' = work \/ \E w \in Attempts : Started(p, w)
  <2>1. CASE config.accounts
    <3>1. PICK u \in Selectable : Pin(p, u) /\ Recovers(p, u)
      BY <1>3, <2>1 DEF Recover
    <3>2. u \in Users /\ u \in Dirs /\ selected'[p] = u
      BY <1>3, <3>1, SelectableUsers DEF Dirs, Pin
    <3> QED BY <1>2, <1>3, <3>1, <3>2
  <2>2. CASE ~config.accounts
    BY <1>2, <1>3, <2>2 DEF Recover, Dirs
  <2> QED BY <2>1, <2>2
<1>4. ASSUME NEW u \in Users, SdkLogin(p, u)
      PROVE  \E w \in Attempts : Started(p, w)
  <2> DEFINE a == [Idle EXCEPT !.pc = "rsa", !.kind = "sdk_login", !.dir = ManualDir, !.uid = u]
  <2>1. a \in Attempts /\ a.kind = "sdk_login" /\ a.pc = "rsa" /\ a.allow = FALSE
    BY IdleTypes DEF Idle, Attempts, PCs, Dirs
  <2>2. Begin(p, a) /\ ~config.accounts
    BY <1>4 DEF SdkLogin
  <2> HIDE DEF a
  <2>3. Started(p, a)
    BY <1>0, <2>1, <2>2 DEF Started
  <2> QED BY <2>1, <2>3
<1>5. ASSUME NEW allow \in BOOLEAN, GameLogin(p, allow)
      PROVE  \E w \in Attempts : Started(p, w)
  <2> DEFINE a == [Idle EXCEPT !.pc = "pre_login", !.kind = "game_login", !.dir = ManualDir,
                               !.uid = pending[ManualDir], !.allow = allow]
  <2>1. a \in Attempts /\ a.kind = "game_login" /\ a.pc = "pre_login"
    BY IdleTypes DEF Idle, Attempts, PCs, Dirs
  <2>2. Begin(p, a) /\ ~config.accounts
    BY <1>5 DEF GameLogin
  <2> HIDE DEF a
  <2>3. Started(p, a)
    BY <1>0, <2>1, <2>2 DEF Started
  <2> QED BY <2>1, <2>3
<1> QED BY <1>0, <1>1, <1>3, <1>4, <1>5

(* What any step does to an attempt.                                       *)
LEMMA Kinds ==
  ASSUME IInv, [Next]_vars, NEW q \in Procs
  PROVE  work'[q] = work[q] \/ work'[q] = Idle \/ Continued(q) \/ \E w \in Attempts : Started(q, w)
<1> USE DEF IInv, TypeOK
<1>1. ASSUME NEW p \in Procs, Advance(p)
      PROVE  work'[q] = work[q] \/ work'[q] = Idle \/ Continued(q)
  BY <1>1, OwnStepKinds
<1>2. ASSUME NEW p \in Procs, work' = work \/ \E w \in Attempts : Started(p, w)
      PROVE  work'[q] = work[q] \/ \E w \in Attempts : Started(q, w)
  BY <1>2 DEF Started, Begin
<1>3. ASSUME NEW p \in Servers, Load(p) \/ Recover(p)
      PROVE  work'[q] = work[q] \/ \E w \in Attempts : Started(q, w)
  BY <1>2, <1>3, StartKinds DEF Procs
<1>4. ASSUME NEW c \in Commands, \/ \E u \in Users : SdkLogin(c, u)
                                 \/ \E allow \in BOOLEAN : GameLogin(c, allow)
      PROVE  work'[q] = work[q] \/ \E w \in Attempts : Started(q, w)
  BY <1>2, <1>4, StartKinds DEF Procs
<1>5. ASSUME NEW p \in Servers, Mark(p) \/ Reload(p) \/ Stop(p) \/ Exit(p) \/ Crash(p) \/ Restart(p)
      PROVE  work'[q] = work[q] \/ work'[q] = Idle
  BY <1>5 DEF Mark, Reload, Stop, Exit, Crash, Restart, End
<1>6. CASE UNCHANGED vars
  BY <1>6 DEF vars
<1> QED BY <1>1, <1>3, <1>4, <1>5, <1>6 DEF Next

(* Nothing but Issue makes a role, and nothing changes the configuration.  *)
LEMMA Roles ==
  ASSUME [Next]_vars
  PROVE  /\ config' = config
         /\ roles' = roles \/ \E p \in Procs : work[p].pc = "login" /\ roles' = roles \cup {work[p].uid}
<1>1. ASSUME NEW p \in Procs, Advance(p)
      PROVE  config' = config /\ (roles' = roles \/ (work[p].pc = "login" /\ roles' = roles \cup {work[p].uid}))
  <2>1. CASE Issue(p)
    BY <2>1 DEF Issue
  <2>2. CASE ~Issue(p)
    BY <1>1, <2>2 DEF Advance, Fail, Rsa, Password, SaveInitial, SavePending, PreLogin, Refuse,
                      Install, SaveSdk, SaveGame, Publish, files, game
  <2> QED BY <2>1, <2>2
<1>2. ASSUME NEW p \in Servers,
             \/ Load(p) \/ Recover(p) \/ Mark(p) \/ Reload(p)
             \/ Stop(p) \/ Exit(p) \/ Crash(p) \/ Restart(p)
      PROVE  config' = config /\ roles' = roles
  BY <1>2 DEF Load, Recover, Mark, Reload, Stop, Exit, Crash, Restart, files, game
<1>3. ASSUME NEW c \in Commands, \/ \E u \in Users : SdkLogin(c, u)
                                 \/ \E allow \in BOOLEAN : GameLogin(c, allow)
      PROVE  config' = config /\ roles' = roles
  BY <1>3 DEF SdkLogin, GameLogin, files, game
<1>4. CASE UNCHANGED vars
  BY <1>4 DEF vars, files, game
<1> QED BY <1>1, <1>2, <1>3, <1>4 DEF Next

(* A directory's authorization and pointer are made by the attempt in it,  *)
(* which then has done with the password.                                  *)
LEMMA Saved ==
  ASSUME IInv, [Next]_vars, NEW d \in Dirs
  PROVE  \/ initial'[d] = initial[d] /\ current'[d] = current[d]
         \/ \E p \in Procs : /\ work[p].pc # "idle" /\ work[p].dir = d
                             /\ work'[p].pc \in {"pre_login", "idle"}
<1> USE DEF IInv, TypeOK
<1>1. ASSUME NEW p \in Procs, SaveInitial(p)
      PROVE  \/ initial'[d] = initial[d] /\ current'[d] = current[d]
             \/ work[p].pc # "idle" /\ work[p].dir = d /\ work'[p].pc = "pre_login"
  BY <1>1 DEF SaveInitial, Goto
<1>2. ASSUME NEW p \in Procs, Publish(p)
      PROVE  \/ initial'[d] = initial[d] /\ current'[d] = current[d]
             \/ work[p].pc # "idle" /\ work[p].dir = d /\ work'[p].pc = "idle"
  BY <1>2 DEF Publish, End, Idle
<1>3. ASSUME NEW p \in Procs, Advance(p), ~SaveInitial(p), ~Publish(p)
      PROVE  UNCHANGED <<initial, current>>
  BY <1>3 DEF Advance, Fail, Rsa, Password, SavePending, PreLogin, Refuse, Issue,
              Install, SaveSdk, SaveGame, files, game
<1>4. ASSUME NEW p \in Servers,
             \/ Load(p) \/ Recover(p) \/ Mark(p) \/ Reload(p)
             \/ Stop(p) \/ Exit(p) \/ Crash(p) \/ Restart(p)
      PROVE  UNCHANGED <<initial, current>>
  BY <1>4 DEF Load, Recover, Mark, Reload, Stop, Exit, Crash, Restart, files, game
<1>5. ASSUME NEW c \in Commands, \/ \E u \in Users : SdkLogin(c, u)
                                 \/ \E allow \in BOOLEAN : GameLogin(c, allow)
      PROVE  UNCHANGED <<initial, current>>
  BY <1>5 DEF SdkLogin, GameLogin, files, game
<1>6. CASE UNCHANGED vars
  BY <1>6 DEF vars, files, game
<1> QED BY <1>1, <1>2, <1>3, <1>4, <1>5, <1>6 DEF Next

(***************************************************************************)
(* The three parts of the policy.                                          *)
(***************************************************************************)

(* A role is made only after the pre-login that allowed it (accounts.rs,   *)
(* operator.rs, allow_create).                                             *)
LEMMA AllowedStep ==
  ASSUME IInv, Policy, [Next]_vars, NEW q \in Procs
  PROVE  Allowed(q)'
<1>1. Allowed(q) /\ config' = config /\ roles \subseteq roles'
  BY Roles DEF Policy
<1>2. CASE work'[q] = work[q]
  BY <1>1, <1>2 DEF Allowed
<1>3. CASE work'[q] = Idle
  BY <1>3 DEF Allowed, Idle
<1>4. CASE Continued(q)
  BY <1>1, <1>4 DEF Allowed, Continued
<1>5. ASSUME NEW w \in Attempts, Started(q, w)
      PROVE  Allowed(q)'
  <2>1. work'[q] = w
    BY <1>5 DEF Started, Begin, IInv, TypeOK
  <2> QED BY <1>1, <1>5, <2>1 DEF Started, Allowed, FirstRequest
<1> QED BY <1>2, <1>3, <1>4, <1>5, Kinds

(* The directory is locked while the password is out, so what was missing  *)
(* before is missing still (accounts.rs, recover).                         *)
LEMMA NeededStep ==
  ASSUME IInv, Policy, [Next]_vars, NEW q \in Procs
  PROVE  Needed(q)'
<1> USE DEF IInv
<1>1. Needed(q)
  BY DEF Policy
<1>2. CASE work'[q] = Idle \/ work'[q].pc \notin AskingPassword
  BY <1>2 DEF Needed, Idle, AskingPassword
<1>3. CASE (work'[q] = work[q] \/ Continued(q)) /\ work'[q].pc \in AskingPassword
  <2>1. /\ work'[q].dir = work[q].dir /\ work'[q].kind = work[q].kind
        /\ work[q].pc \in AskingPassword
    BY <1>3 DEF Continued
  <2>2. work[q].dir \in Dirs /\ lock[work[q].dir] = q
    BY <2>1 DEF Held, AskingPassword
  <2>3. \A p \in Procs : work[p].pc # "idle" /\ work[p].dir = work[q].dir => p = q
    BY <2>2 DEF Held
  <2>4. initial'[work[q].dir] = initial[work[q].dir] /\ current'[work[q].dir] = current[work[q].dir]
    BY <1>3, <2>2, <2>3, Saved DEF AskingPassword
  <2> QED BY <1>1, <2>1, <2>4 DEF Needed
<1>4. ASSUME NEW w \in Attempts, Started(q, w)
      PROVE  Needed(q)'
  <2>1. work'[q] = w
    BY <1>4 DEF Started, Begin, TypeOK
  <2> QED BY <1>4, <2>1 DEF Started, Needed, FirstRequest, AskingPassword
<1> QED BY <1>2, <1>3, <1>4, Kinds

(* Whose secrets a server uses: the selected account's, and a new account  *)
(* is selected by a server that has none, or after a reset (accounts.rs,   *)
(* selected_identity).                                                     *)
LEMMA Secrets ==
  ASSUME IInv, [Next]_vars, config.accounts, NEW q \in Servers
  PROVE  \/ /\ selected'[q] = selected[q]
            /\ asked'[q] = asked[q] \/ (work[q].pc # "idle" /\ asked'[q] = asked[q] \cup {work[q].uid})
         \/ /\ work[q].pc = "idle" /\ selected[q] \in {None, selected'[q]}
            /\ asked'[q] \subseteq asked[q] \cup {selected'[q]}
         \/ asked'[q] = {} /\ work'[q].pc = "idle"
<1> USE DEF IInv, TypeOK
<1>0. q \in Procs
  BY DEF Procs
<1>1. ASSUME NEW p \in Procs, Advance(p)
      PROVE  /\ selected' = selected
             /\ asked'[q] = asked[q] \/ (work[q].pc # "idle" /\ asked'[q] = asked[q] \cup {work[q].uid})
  <2>1. CASE Rsa(p)
    BY <2>1 DEF Rsa, Asks
  <2>2. CASE ~Rsa(p)
    BY <1>1, <2>2 DEF Advance, Fail, Password, SaveInitial, SavePending, PreLogin, Refuse, Issue,
                      Install, SaveSdk, SaveGame, Publish
  <2> QED BY <2>1, <2>2
<1>2. ASSUME NEW p \in Servers, NEW u \in Users, Pin(p, u), work[p].pc = "idle",
             asked' = asked \/ Asks(p, u)
      PROVE  IF p = q
             THEN /\ work[q].pc = "idle" /\ selected[q] \in {None, selected'[q]}
                  /\ asked'[q] \subseteq asked[q] \cup {selected'[q]}
             ELSE selected'[q] = selected[q] /\ asked'[q] = asked[q]
  BY <1>2 DEF Pin, Asks
<1>3. ASSUME NEW p \in Servers, Load(p)
      PROVE  \E u \in Users : Pin(p, u) /\ work[p].pc = "idle" /\ (asked' = asked \/ Asks(p, u))
  BY <1>3, SelectableUsers DEF Load, Ready
<1>4. ASSUME NEW p \in Servers, Recover(p)
      PROVE  \E u \in Users : Pin(p, u) /\ work[p].pc = "idle" /\ (asked' = asked \/ Asks(p, u))
  <2>1. PICK u \in Selectable : Pin(p, u) /\ Recovers(p, u)
    BY <1>4 DEF Recover
  <2>2. u \in Users /\ u \in Dirs
    BY SelectableUsers DEF Dirs
  <2>3. current[u] # 0 => owner[current[u]] = u
    BY <2>2 DEF Pointed, PointerComplete
  <2>4. asked' = asked \/ Asks(p, u)
    BY <2>1, <2>3 DEF Recovers
  <2> QED BY <1>4, <2>1, <2>2, <2>4 DEF Recover, Ready
<1>5. ASSUME NEW p \in Servers, Mark(p) \/ Stop(p)
      PROVE  UNCHANGED <<selected, asked>>
  BY <1>5 DEF Mark, Stop
<1>6. ASSUME NEW p \in Servers, Reload(p) \/ Exit(p) \/ Crash(p) \/ Restart(p)
      PROVE  IF p = q THEN asked'[q] = {} /\ work'[q].pc = "idle"
             ELSE selected'[q] = selected[q] /\ asked'[q] = asked[q]
  <2>1. p = q => asked'[q] = {}
    BY <1>6 DEF Reload, Exit, Crash, Restart, Fresh, Down
  <2>2. p # q => selected'[q] = selected[q] /\ asked'[q] = asked[q]
    BY <1>6 DEF Reload, Exit, Crash, Restart, Fresh, Down
  <2>3. CASE Crash(p)
    BY <1>0, <2>1, <2>2, <2>3 DEF Crash, End, Idle
  <2>4. CASE Reload(p) \/ Exit(p) \/ Restart(p)
    BY <1>0, <2>1, <2>2, <2>4 DEF Reload, Exit, Restart, Ready, Held
  <2> QED BY <1>6, <2>3, <2>4
<1>7. ASSUME NEW c \in Commands, \/ \E u \in Users : SdkLogin(c, u)
                                 \/ \E allow \in BOOLEAN : GameLogin(c, allow)
      PROVE  UNCHANGED <<selected, asked>>
  BY <1>7 DEF SdkLogin, GameLogin
<1>8. CASE UNCHANGED vars
  BY <1>8 DEF vars
<1>9. CASE \E p \in Servers : Load(p) \/ Recover(p)
  BY <1>2, <1>3, <1>4, <1>9
<1> QED BY <1>1, <1>5, <1>6, <1>7, <1>8, <1>9 DEF Next

(* Nothing is left of an attempt that ended.                               *)
LEMMA RestingStep ==
  ASSUME IInv, Policy, [Next]_vars, NEW q \in Procs
  PROVE  Resting(q)'
<1>1. ASSUME NEW w \in Attempts, Started(q, w)
      PROVE  work'[q].pc # "idle"
  <2>1. work'[q] = w
    BY <1>1 DEF Started, Begin, IInv, TypeOK
  <2> QED BY <1>1, <2>1 DEF Started, FirstRequest
<1> QED BY <1>1, Kinds DEF Policy, Resting, Continued

(* And so a server keeps to the account it selected.                       *)
LEMMA SingleStep ==
  ASSUME IInv, Policy, [Next]_vars, NEW q \in Procs
  PROVE  Single(q)'
<1> SUFFICES ASSUME config.accounts, q \in Servers
             PROVE  /\ asked'[q] \subseteq {selected'[q]}
                    /\ work'[q].pc # "idle" => work'[q].uid = selected'[q]
  BY Roles DEF Single
<1>1. /\ asked[q] \subseteq {selected[q]} /\ asked[q] \subseteq Users /\ None \notin Users
      /\ work[q].pc # "idle" => work[q].uid = selected[q]
  BY ConstantsAssumption DEF Policy, Single, IInv, TypeOK
<1>2. asked'[q] \subseteq {selected'[q]}
  <2>1. TypeOK'
    BY TypeStep
  <2>2. selected[q] = None => asked[q] = {}
    BY <1>1
  <2>3. work'[q].pc = "idle" /\ asked'[q] = {} => asked'[q] \subseteq {selected'[q]}
    OBVIOUS
  <2> QED BY <1>1, <2>2, <2>3, Secrets
<1>3. ASSUME work'[q].pc # "idle"
      PROVE  work'[q].uid = selected'[q]
  <2>1. CASE work'[q] = work[q] \/ Continued(q)
    <3>1. work[q].pc # "idle" /\ work'[q].uid = work[q].uid
      BY <1>3, <2>1 DEF Continued
    <3>2. selected'[q] = selected[q]
      BY <1>3, <3>1, Secrets
    <3> QED BY <1>1, <3>1, <3>2
  <2>2. ASSUME NEW w \in Attempts, Started(q, w)
        PROVE  work'[q].uid = selected'[q]
    <3>1. work'[q] = w
      BY <2>2 DEF Started, Begin, IInv, TypeOK
    <3> QED BY <2>2, <3>1 DEF Started
  <2>3. work'[q] # Idle
    BY <1>3 DEF Idle
  <2> QED BY <2>1, <2>2, <2>3, Kinds
<1> QED BY <1>2, <1>3

(***************************************************************************)
(* The theorems.                                                           *)
(***************************************************************************)

(* The policy holds in every reachable state.                              *)
THEOREM PolicyInvariance == Spec => []Policy
<1>1. Init => Policy
  BY ConstantsAssumption DEF Init, Policy, Allowed, Needed, Single, Resting, Idle, AskingPassword
<1>2. IInv /\ Policy /\ [Next]_vars => Policy'
  <2> SUFFICES ASSUME IInv, Policy, [Next]_vars PROVE Policy'
    OBVIOUS
  <2> QED BY AllowedStep, NeededStep, SingleStep, RestingStep DEF Policy
<1> QED BY <1>1, <1>2, LoginInvariance, PTL DEF Spec

(* A password is sent only where there is nothing to use instead, and by   *)
(* one process at a time (accounts.rs, recover).                           *)
THEOREM PasswordAlwaysNeeded == Spec => []PasswordOnlyWhenNeeded
<1>1. IInv /\ Policy => PasswordOnlyWhenNeeded
  <2> SUFFICES ASSUME IInv, Policy, NEW p \in Procs,
                      work[p].kind = "load", work[p].pc \in AskingPassword
               PROVE  /\ ~initial[work[p].dir] /\ current[work[p].dir] = 0
                      /\ \A q \in Procs \ {p} : work[q].dir # work[p].dir
    BY DEF PasswordOnlyWhenNeeded, AskingPassword
  <2>1. ~initial[work[p].dir] /\ current[work[p].dir] = 0
    BY DEF Policy, Needed
  <2>2. \A q \in Procs \ {p} : work[q].dir # work[p].dir
    <3>1. work[p].dir \in Dirs /\ lock[work[p].dir] = p
      BY DEF IInv, Held, AskingPassword
    <3>2. None \notin Dirs
      BY ConstantsAssumption DEF Dirs
    <3>3. ASSUME NEW q \in Procs, q # p, work[q].dir = work[p].dir
          PROVE  FALSE
      <4>1. work[q].pc = "idle"
        BY <3>1, <3>3 DEF IInv, Held
      <4>2. work[q].dir = None
        BY <4>1 DEF Policy, Resting, Idle
      <4> QED BY <3>1, <3>2, <3>3, <4>2
    <3> QED BY <3>3
  <2> QED BY <2>1, <2>2
<1> QED BY <1>1, LoginInvariance, PolicyInvariance, PTL

(* Until it is reset, a server uses the secrets of one account             *)
(* (accounts.rs, selected_identity).                                       *)
THEOREM OneIdentityAlways == Spec => []OneIdentity
<1>1. IInv /\ Policy => OneIdentity
  <2> SUFFICES ASSUME IInv, Policy, config.accounts, NEW p \in Servers
               PROVE  Cardinality(asked[p]) <= 1
    BY DEF OneIdentity
  <2>1. asked[p] \subseteq {selected[p]}
    BY DEF Policy, Single, Procs
  <2>2. asked[p] = {} \/ asked[p] = {selected[p]}
    BY <2>1
  <2>3. Cardinality(asked[p]) \in {0, 1}
    BY <2>2, FS_EmptySet, FS_Singleton
  <2> QED BY <2>3
<1> QED BY <1>1, LoginInvariance, PolicyInvariance, PTL

(* A role is only made for a login that was allowed to make one            *)
(* (accounts.rs and operator.rs, allow_create).                            *)
THEOREM OnlyWantedRolesAlways == Spec => OnlyWantedRoles
<1> DEFINE Wanted ==
      \A u \in roles' \ roles : \E p \in Procs :
        /\ work[p].uid = u /\ work[p].allow
        /\ work[p].kind = "game_login" \/ (work[p].kind = "load" /\ config.allow_create)
<1>1. Policy /\ [Next]_vars => Wanted
  BY Roles DEF Policy, Allowed
<1>2. Wanted => [Wanted]_vars
  OBVIOUS
<1> QED BY <1>1, <1>2, PolicyInvariance, PTL DEF Spec, OnlyWantedRoles
=============================================================================

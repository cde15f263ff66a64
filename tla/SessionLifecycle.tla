-------------------------- MODULE SessionLifecycle --------------------------
(***************************************************************************)
(* What the game client promises about its session, seen by the modules    *)
(* that sit on top of it (QueryCache, ManagedClient).  A session is known  *)
(* by its generation; the current one carries a credential and possibly a  *)
(* block, the reason why the game refuses it.  Only four things happen to  *)
(* a session, and every other module changes these variables through the   *)
(* four actions below.  GameClient is shown to implement this module.      *)
(***************************************************************************)
EXTENDS Naturals

CONSTANT MaxGen  \* bound: generations are random UUIDs, here they count up

ASSUME MaxGenAssumption == MaxGen \in Nat \ {0}

VARIABLES
  gen,      \* generation of the current session
  cred,     \* the credential it carries, named by the generation that brought it in
  blocked   \* why the game refuses this session, or "none"

lifecycle == <<gen, cred, blocked>>

NoCred    == 0
Refusals  == {"authentication", "version", "device"}
Blocks    == Refusals \cup {"none"}
Permanent == {"version", "device"}  \* blocks that no later refusal may replace

LifecycleTypeOK ==
  /\ gen \in 1..MaxGen
  /\ cred \in NoCred..gen
  /\ blocked \in Blocks

InitLifecycle ==
  /\ gen = 1
  /\ cred \in {NoCred, 1}
  /\ blocked = "none"

(* The game refuses a call made on the current session. *)
Refuse(k) ==
  /\ k \in Refusals
  /\ blocked \notin Permanent
  /\ blocked' = k
  /\ UNCHANGED <<gen, cred>>

(* A session with another credential, or none, takes over: login,          *)
(* registration, import, or the operator's reload.  (InstallInPlace is the *)
(* slip of keeping the generation, which the runs catch.)                  *)
InstallInPlace(c) ==
  /\ gen < MaxGen
  /\ c \in {NoCred, gen + 1}
  /\ gen' = gen
  /\ cred' = c
  /\ blocked' = "none"

Install(c) ==
  /\ gen < MaxGen
  /\ c \in {NoCred, gen + 1}
  /\ gen' = gen + 1
  /\ cred' = c
  /\ blocked' = "none"

(* Version discovery: the same credential under new data or client         *)
(* versions.  clears says that the new versions are what the game had      *)
(* asked for.                                                              *)
Rediscover(clears) ==
  /\ gen < MaxGen
  /\ gen' = gen + 1
  /\ blocked' = IF clears /\ blocked = "version" THEN "none" ELSE blocked
  /\ UNCHANGED cred

NextLifecycle ==
  \/ \E k \in Refusals : Refuse(k)
  \/ \E c \in {NoCred, gen + 1} : Install(c)
  \/ \E clears \in BOOLEAN : Rediscover(clears)

SpecLifecycle == InitLifecycle /\ [][NextLifecycle]_lifecycle

(* What a caller is told before any call is made. *)
QueryError(anonymous) ==
  CASE anonymous         -> "none"
    [] ~anonymous /\ blocked # "none" -> blocked
    [] ~anonymous /\ blocked = "none" -> IF cred = NoCred THEN "auth_required" ELSE "none"
=============================================================================

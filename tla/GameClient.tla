----------------------------- MODULE GameClient -----------------------------
(***************************************************************************)
(* The client library: one Client, its current session and the calls that  *)
(* share it.  A call takes a snapshot of the session it starts with, gets  *)
(* an admission permit, waits for the one serial slot, waits out the rate  *)
(* interval, makes one RPC and, for the calls that end by installing a new *)
(* session, does so before it leaves the slot.  While it waits the session *)
(* may be replaced under it, its caller may cancel it, and its timer runs. *)
(*                                                                         *)
(* Kinds of call: "query" is any authenticated RPC (HTTP queries and the   *)
(* JP self-data probe), "anon" any anonymous query; "prelogin", "login",   *)
(* "register", "refresh" and "adopt" are the library's own operations.     *)
(* Request and response contents, metadata and configuration are left out. *)
(***************************************************************************)
EXTENDS Naturals, Sequences, FiniteSets, SequencesExt

CONSTANTS
  Ops,            \* call slots; a slot is reused once its call has returned
  QueueCapacity,  \* ClientOptions::queue_capacity
  MaxGen,         \* bound on the number of sessions installed
  JP              \* whether the session's region is "jp"

ASSUME ClientAssumption ==
  /\ QueueCapacity \in Nat
  /\ MaxGen \in Nat \ {0}
  /\ JP \in BOOLEAN

(* A superseded session is held by the calls that began with it and read   *)
(* by nothing else, so only the current one is kept; what such a call      *)
(* would still write into its own session is lost with it.                 *)
VARIABLES
  gen,       \* the current generation: sessions are counted, not random UUIDs
  session,   \* the current session
  ops,       \* the calls
  queue,     \* calls waiting for the serial slot, first come first served
  rejected,  \* history: the game has rejected the current credential
  honoured   \* history: it has accepted the current credential's override

vars == <<gen, session, ops, queue, rejected, honoured>>

NoCred   == 0
Refusals == {"authentication", "version", "device"}
Kinds    == {"query", "anon", "prelogin", "login", "register", "refresh", "adopt"}

Idle == [pc |-> "idle", kind |-> "none", gen |-> 0, cancel |-> FALSE, over |-> FALSE]
Session(c, b, m, o) == [cred |-> c, blocked |-> b, mismatch |-> m, override |-> o]

Anonymous(k)  == k # "query"
LoginCall(k)  == k \in {"prelogin", "login"}
Installing(k) == k \in {"login", "register", "refresh", "adopt"}

Waiting == {"queued", "paced", "sent"}              \* suspended at an await of `work`
Ending  == {"answered", "finish"}                   \* in the poll that ends the call
InSlot  == {"paced", "sent", "answered", "finish"}  \* holding the serial lock

TypeOK ==
  /\ gen \in 1..MaxGen
  /\ session \in [cred : NoCred..gen, blocked : Refusals \cup {"none"},
                  mismatch : BOOLEAN, override : BOOLEAN]
  /\ ops \in [Ops -> [pc : Waiting \cup Ending \cup {"idle"}, kind : Kinds \cup {"none"},
                      gen : 0..gen, cancel : BOOLEAN, over : BOOLEAN]]
  /\ queue \in Seq(Ops)
  /\ rejected \in BOOLEAN /\ honoured \in BOOLEAN

Init ==
  /\ gen = 1
  /\ \E c \in {NoCred, 1} : session = Session(c, "none", FALSE, FALSE)
  /\ ops = [o \in Ops |-> Idle]
  /\ queue = <<>>
  /\ rejected = FALSE /\ honoured = FALSE

(* Throughout, what stands right above SlotFree, Discovered (two of them), *)
(* NewSession, MayInstall or Timeout is a slip in that one, which the runs *)
(* catch.                                                                  *)

(* Where a waiting call stands in the queue. *)
Place(o) == CHOOSE i \in DOMAIN queue : queue[i] = o

(* A call returns to its caller; its permit and the serial slot, if it     *)
(* held them, are released, and a place in the queue is given up.  What    *)
(* the caller is told is left to the modules that use it and named in a    *)
(* comment here.                                                           *)
Return(o) ==
  /\ ops' = [ops EXCEPT ![o] = Idle]
  /\ queue' = IF ops[o].pc = "queued" THEN RemoveAt(queue, Place(o)) ELSE queue

(***************************************************************************)
(* A caller that has just read the current generation starts a call.  One  *)
(* that is turned away at once (SessionChanged, AuthenticationRequired,    *)
(* InvalidConfig, QueueFull) leaves no trace.                              *)
(***************************************************************************)
Admitted(k) ==
  /\ k = "query" => session.cred # NoCred
  /\ k = "register" => JP /\ session.cred = NoCred
  /\ Cardinality({p \in Ops : ops[p].pc # "idle"}) <= QueueCapacity

Begin(o, k) ==
  /\ ops[o].pc = "idle"
  /\ Admitted(k)
  /\ ops' = [ops EXCEPT ![o] = [Idle EXCEPT !.pc = "queued", !.kind = k, !.gen = gen]]
  /\ queue' = Append(queue, o)
  /\ UNCHANGED <<gen, session, rejected, honoured>>

(***************************************************************************)
(* Every poll of a call looks at its caller's token and at its session's   *)
(* token first (the biased select), so a suspended call goes on only while *)
(* neither has fired.  A token that fires during a poll goes unnoticed     *)
(* until the next one: for Acquire and Send that is the same as firing     *)
(* right after, but the poll that brings the answer ends the call, and     *)
(* both tokens may fire between its steps Answer, Reply... and Finish.     *)
(***************************************************************************)
Current(o)     == ops[o].gen = gen
Undisturbed(o) == ~ops[o].cancel /\ Current(o)

(* A block bars authenticated calls; only a version or device block bars   *)
(* login and registration too.                                             *)
Barred(k) ==
  /\ session.blocked # "none"
  /\ \/ ~Anonymous(k)
     \/ (LoginCall(k) \/ k = "register") /\ session.blocked \in {"version", "device"}

SlotAlwaysFree == TRUE
SlotFree == \A p \in Ops : ops[p].pc \notin InSlot

(* The head of the queue gets the slot.  The block is looked at here,      *)
(* before the rate interval is slept out.                                  *)
Acquire(o) ==
  /\ queue # <<>> /\ o = Head(queue)
  /\ Undisturbed(o) /\ SlotFree
  /\ IF Barred(ops[o].kind)
     THEN Return(o)  \* with the block's kind
     ELSE /\ ops' = [ops EXCEPT ![o].pc = "paced"]
          /\ queue' = Tail(queue)
  /\ UNCHANGED <<gen, session, rejected, honoured>>

(* The interval has passed: the request leaves, for a freshly registered   *)
(* JP credential with the device-override header.                          *)
Send(o) ==
  /\ ops[o].pc = "paced" /\ Undisturbed(o)
  /\ ops' = [ops EXCEPT ![o].pc = "sent",
                        ![o].over = JP /\ ~Anonymous(ops[o].kind) /\ session.override]
  /\ UNCHANGED <<gen, session, queue, rejected, honoured>>

(* The RPC has ended and the call is polled. *)
Answer(o) ==
  /\ ops[o].pc = "sent" /\ Undisturbed(o)
  /\ ops' = [ops EXCEPT ![o].pc = "answered"]
  /\ UNCHANGED <<gen, session, queue, rejected, honoured>>

(***************************************************************************)
(* The game's answers, by the last error code it sent, and their kinds.    *)
(***************************************************************************)
Codes == {"TOKEN_ILLEGAL", "MASTER_VERSION_MISMATCH", "CLIENT_UPDATE_REQUIRED",
          "CONCURRENT_DEVICE", "OTHER"}

KindOf(code) ==
  CASE code = "TOKEN_ILLEGAL" -> "authentication"
    [] code \in {"MASTER_VERSION_MISMATCH", "CLIENT_UPDATE_REQUIRED"} -> "version"
    [] code = "CONCURRENT_DEVICE" -> "device"
    [] OTHER -> "error"

(* A refusal blocks the session the call started with; it never replaces a *)
(* version or device block.                                                *)
Block(k, code) ==
  IF /\ ~Anonymous(k) \/ LoginCall(k)
     /\ KindOf(code) \in Refusals
     /\ session.blocked \notin {"version", "device"}
  THEN [session EXCEPT !.blocked = KindOf(code),
                       !.mismatch = (code = "MASTER_VERSION_MISMATCH")]
  ELSE session

ReplyError(o, code) ==
  LET k == ops[o].kind
  IN  /\ ops[o].pc = "answered"
      /\ session' = IF Current(o) THEN Block(k, code) ELSE session
      /\ rejected' = (rejected \/ (Current(o) /\ ~Anonymous(k) /\ code = "TOKEN_ILLEGAL"))
      /\ Return(o)  \* with KindOf(code)
      /\ UNCHANGED <<gen, honoured>>

(* A good answer.  malformed stands for every check of the response that   *)
(* can fail (descriptor, decoding, versions, credential, its storage).     *)
ReplyOk(o, malformed) ==
  LET spent == ops[o].over /\ Current(o)
  IN  /\ ops[o].pc = "answered"
      /\ session' = IF spent THEN [session EXCEPT !.override = FALSE] ELSE session
      /\ honoured' = (honoured \/ spent)
      /\ IF Undisturbed(o) /\ ~malformed /\ Installing(ops[o].kind)
         THEN ops' = [ops EXCEPT ![o].pc = "finish"] /\ UNCHANGED queue
         ELSE Return(o)  \* Cancelled, SessionChanged, Protocol, or the answer
      /\ UNCHANGED <<gen, rejected>>

(***************************************************************************)
(* The end of a call that installs a session: under the session lock the   *)
(* generation is looked at once more.  differs says, for version           *)
(* discovery, whether the answer differs from the current versions; an     *)
(* adopted client version may be the one already in use.                   *)
(***************************************************************************)
DiscoveredUnblocked(newClient) ==
  Session(session.cred, "none", FALSE, session.override)
DiscoveredRearmed(newClient) ==
  Session(session.cred, session.blocked, FALSE, JP)
Discovered(newClient) ==
  Session(session.cred,
          IF session.blocked = "version" /\ (newClient \/ session.mismatch)
          THEN "none" ELSE session.blocked,
          FALSE, session.override)

InstallIfUncancelled(o) == ops[o].cancel => ops[o].kind = "register"
MayInstall(o) == Current(o) /\ (ops[o].cancel => ops[o].kind = "register")

SameGeneration(s) == gen' = gen /\ session' = s /\ UNCHANGED <<rejected, honoured>>
NewSession(s) ==
  /\ gen' = gen + 1
  /\ session' = s
  /\ rejected' = (rejected /\ s.cred = session.cred)
  /\ honoured' = (honoured /\ s.cred = session.cred)

Finish(o, differs, newClient) ==
  LET k == ops[o].kind
  IN  /\ ops[o].pc = "finish"
      /\ newClient => k = "adopt" /\ differs
      /\ ~differs => k \in {"refresh", "adopt"}
      /\ IF MayInstall(o) /\ differs /\ gen < MaxGen
         THEN NewSession(CASE k = "login"    -> Session(gen + 1, "none", FALSE, FALSE)
                           [] k = "register" -> Session(gen + 1, "none", FALSE, TRUE)
                           [] OTHER          -> Discovered(newClient))
         ELSE UNCHANGED <<gen, session, rejected, honoured>>
              \* SessionChanged, Cancelled, or versions already current
      /\ Return(o)

(***************************************************************************)
(* The caller's token, and what ends a wait: a token or the call's timer.  *)
(***************************************************************************)
Cancel(o) ==
  /\ ops[o].pc # "idle" /\ ~ops[o].cancel
  /\ ops' = [ops EXCEPT ![o].cancel = TRUE]
  /\ UNCHANGED <<gen, session, queue, rejected, honoured>>

Abandon(o) ==  \* Cancelled or SessionChanged
  /\ ops[o].pc \in Waiting /\ ~Undisturbed(o)
  /\ Return(o)
  /\ UNCHANGED <<gen, session, rejected, honoured>>

TimeoutInQueue(o) ==
  /\ ops[o].pc = "queued" /\ Undisturbed(o)
  /\ Return(o)
  /\ UNCHANGED <<gen, session, rejected, honoured>>

Timeout(o) ==
  /\ ops[o].pc \in Waiting /\ Undisturbed(o)
  /\ Return(o)
  /\ UNCHANGED <<gen, session, rejected, honoured>>

(* Local replacement, with a credential or without; import_credentials     *)
(* does the same for the generation its caller has just read.              *)
Replace(c) ==
  /\ gen < MaxGen
  /\ NewSession(Session(c, "none", FALSE, FALSE))
  /\ UNCHANGED <<ops, queue>>

LastPoll(o) ==
  \/ \E code \in Codes : ReplyError(o, code)
  \/ \E malformed \in BOOLEAN : ReplyOk(o, malformed)
  \/ \E differs, newClient \in BOOLEAN : Finish(o, differs, newClient)

Next ==
  \/ \E o \in Ops : \/ \E k \in Kinds : Begin(o, k)
                    \/ Acquire(o) \/ Send(o) \/ Answer(o) \/ LastPoll(o)
                    \/ Cancel(o) \/ Abandon(o) \/ Timeout(o)
  \/ \E c \in {NoCred, gen + 1} : Replace(c)

(* The runtime polls a woken task and fires its timers; nothing is assumed *)
(* of the game, which may never answer.                                    *)
Fairness == \A o \in Ops :
  WF_vars(Abandon(o)) /\ WF_vars(Timeout(o)) /\ WF_vars(LastPoll(o))

Spec     == Init /\ [][Next]_vars
LiveSpec == Spec /\ Fairness

(***************************************************************************)
(* Properties                                                              *)
(***************************************************************************)

(* The block is read before the rate interval and used after it (lib.rs,   *)
(* `work`): still, no authenticated request ever leaves under a session    *)
(* that is blocked at that moment, and no login under a version or device  *)
(* block.                                                                  *)
BlockedNeverSent ==
  [][\A o \in Ops : ops[o].pc = "paced" /\ ops'[o].pc = "sent" =>
       LET k == ops[o].kind
       IN  /\ ~Anonymous(k) => session.blocked = "none"
           /\ LoginCall(k) => session.blocked \notin {"version", "device"}]_vars

(* A login, registration or version discovery replaces the very session it *)
(* began with: however the steps interleave, a session installed meanwhile *)
(* is never overwritten by an older call.                                  *)
InstallsOverOwnSession ==
  [][\A o \in Ops : ops[o].pc = "finish" /\ gen' # gen /\ ops'[o].pc = "idle"
       => Current(o)]_vars

(* The override header is a one-time right of a registered credential:     *)
(* once the game has accepted it no later session with that credential     *)
(* has it again, although version discovery copies the pending flag.       *)
OverrideSpentOnce == ~(session.override /\ honoured)

(* Every call returns: the queue, the slot and the RPC are all under the   *)
(* call's timer, whatever the game does.                                   *)
CallsReturn == \A o \in Ops : ops[o].pc # "idle" ~> ops[o].pc = "idle"

(* docs/configuration.md, "Automatic Data Versions": "Rejected tokens and  *)
(* device conflicts are not cleared by version discovery."  A credential   *)
(* the game has rejected stays blocked for as long as it is installed.     *)
RejectedTokenStaysBlocked == rejected => session.blocked # "none"

(* The session as QueryCache and ManagedClient see it. *)
Lifecycle == INSTANCE SessionLifecycle
               WITH cred <- session.cred, blocked <- session.blocked

ImplementsLifecycle == Lifecycle!SpecLifecycle
=============================================================================

------------------------------ MODULE Gateway ------------------------------
(* The serving process (server/src/main.rs, lib.rs, diagnostics.rs,          *)
(* runtime.rs): it comes up with its members, takes HTTP requests into a     *)
(* bounded number of handlers, reloads on SIGHUP, and on SIGTERM cancels,    *)
(* waits for its tasks and lets the last requests out.                       *)
(*                                                                           *)
(* Composed here from their outside: a member's worker and version poller    *)
(* (ManagedClient has the inside) and the task that fetches for a request    *)
(* (QueryCache and SessionPool). Kept of them is what they do with the stop  *)
(* token, and when they hold a login the disk has not seen.                  *)
EXTENDS Requests

CONSTANTS Configs,     \* a configuration file by name
          Menu,        \* a request that a client may make, by name
          Slots,       \* requests in progress at the same time
          Admission    \* admission permits, 64 in the code

ASSUME GatewayAssumption ==
  /\ Admission \in Nat \ {0} /\ IsFiniteSet(Slots)
  /\ \A n \in DOMAIN Menu : Request(Menu[n])
  /\ \A n \in DOMAIN Configs : \A r \in Sections(Configs[n]) : Section(r)

VARIABLES
  file,       \* the name of the configuration
  main,       \* where run() is
  awaited,    \* the members run() has waited for in its present loop
  inflight,   \* Diagnostics::inflight
  permits,    \* what the admission semaphore has left
  request,    \* per slot: the request and its handler
  fetch,      \* per slot: the task spawned to fetch for it
  worker,     \* per member: its recovery task
  poll,       \* per member: its version task
  phase       \* per member: whether queries are let through

tasks == <<fetch, worker, poll, phase>>
vars  == <<file, main, awaited, inflight, permits, request, tasks>>

\* What follows from the configuration and a request alone.
MembersOf == [name \in DOMAIN Configs |-> members(Configs[name])]
OutcomeOf == [name \in DOMAIN Configs |-> Outcome(Configs[name])]
RouteOf ==
  [name \in {n \in DOMAIN Configs : OutcomeOf[n] = "serving"} |->
     [n \in DOMAIN Menu |->
        LET q == Menu[n] c == Configs[name]
            asks == q.form \in {"path", "query"} /\ Routed(c, q) /\ Refusal(c, q) = 0 IN
        [known |-> Routed(c, q), free |-> q.form = "health", key |-> q.key = "good",
         awaits |-> AwaitsBody(q), asks |-> asks, place |-> IF asks THEN PoolFor(c, q) ELSE "own"]]]

Members == MembersOf[file]
Settings(m) == for_region(Configs[file], m.place)
Route(r) == RouteOf[file][request[r].q]
\* A worker loads or logs in only where there is something to do it with.
HasWorker(m) == Settings(m).recovery \/ Settings(m).accounts # Nothing

Idle   == [pc |-> "idle"]
NoTask == [pc |-> "none"]
Stopped   == main \in {"pollers", "workers", "closing", "exited"}
Listening == main \in {"serving", "pollers", "workers"}
Alive     == Listening \/ main = "closing"

TypeOK ==
  /\ file \in DOMAIN Configs
  /\ main \in {"starting", "refused", "health_only", "serving", "pollers", "workers",
               "closing", "exited"}
  /\ awaited \subseteq Members
  /\ inflight \in 0..Cardinality(Slots) /\ permits \in 0..Admission
  /\ request \in [Slots -> {Idle} \cup [pc : {"in", "body", "admitted", "waiting"}, q : DOMAIN Menu]]
  /\ fetch \in [Slots -> {NoTask} \cup
                         [pc : {"asked", "screened", "landed"}, q : DOMAIN Menu, member : Members]]
  /\ worker \in [Members -> {"none", "start", "sent", "installed", "saving",
                             "saved", "lost", "failed"}]
  /\ poll \in [Members -> {"off", "top", "calling", "resting", "over"}]
  /\ phase \in [Members -> {"open", "recovering", "persistence_failed"}]

Init ==
  /\ file \in DOMAIN Configs
  /\ main = "starting" /\ awaited = {}
  /\ inflight = 0 /\ permits = Admission
  /\ request = [r \in Slots |-> Idle]
  /\ fetch = [r \in Slots |-> NoTask]
  /\ worker = [m \in Members |-> "none"]
  /\ poll = [m \in Members |-> "off"]
  /\ phase = [m \in Members |-> "open"]

(* The definition right before state_identity, PathAccepted, Admit,          *)
(* Disconnect, WaitForWorkers or Rest is a slip in that one, which the runs  *)
(* catch.                                                                    *)
-----------------------------------------------------------------------------
(* run(): up, or not, and down again.                                        *)
Start ==
  /\ main = "starting"
  /\ \/ main' = OutcomeOf[file]
        /\ poll' = [m \in Members |->
                      IF OutcomeOf[file] = "serving" /\ Settings(m).sync THEN "top" ELSE "off"]
     \/ main' = "refused" /\ UNCHANGED poll        \* the address is taken
  /\ UNCHANGED <<file, awaited, inflight, permits, request, fetch, worker, phase>>

Standing == UNCHANGED <<file, inflight, permits, request, tasks>>

\* SIGTERM or Ctrl-C. Without a configuration there is nothing to wait for.
Terminate ==
  /\ main \in {"serving", "health_only"}
  /\ main' = IF main = "serving" THEN "pollers" ELSE "exited"
  /\ UNCHANGED awaited /\ Standing

\* stop.cancel() came with the signal; the version tasks are awaited one by
\* one, then every member until it is not Recovering, each looked at once.
PollerOver(m) == poll[m] \in {"off", "over"}
WaitForPollers ==
  /\ main = "pollers"
  /\ \A m \in Members : PollerOver(m)
  /\ main' = "workers" /\ awaited' = {}
  /\ Standing

wait_idle(m) ==
  /\ main = "workers" /\ m \notin awaited
  /\ phase[m] # "recovering"
  /\ awaited' = awaited \cup {m}
  /\ UNCHANGED main /\ Standing

CloseAtOnce ==
  /\ main = "workers"
  /\ main' = "closing"
  /\ UNCHANGED awaited /\ Standing
WaitForWorkers ==
  /\ main = "workers" /\ awaited = Members
  /\ main' = "closing"
  /\ UNCHANGED awaited /\ Standing

\* Only now is the listener closed; requests under way are let out.
Exit ==
  /\ main = "closing"
  /\ \A r \in Slots : request[r] = Idle
  /\ main' = "exited"
  /\ UNCHANGED awaited /\ Standing

-----------------------------------------------------------------------------
(* SIGHUP may come at any time, and the task that takes it reloads every     *)
(* member in turn, whether or not another one refuses: any member may be     *)
(* reloaded at any time, or refuse. It does while a worker or the poller     *)
(* owns the session, and when what is on disk does not load.                 *)
Reload(m) ==
  /\ Alive
  /\ phase[m] # "recovering" /\ poll[m] # "calling"
  /\ phase' = [phase EXCEPT ![m] = "open"]
  /\ UNCHANGED <<file, main, awaited, inflight, permits, request, fetch, worker, poll>>

-----------------------------------------------------------------------------
(* A request: diagnose, authenticate, the handler, the answer.               *)
Serving == UNCHANGED <<file, main, awaited, worker, poll, phase>>

Arrive(r, q) ==
  /\ Listening /\ request[r] = Idle /\ fetch[r] = NoTask
  /\ request' = [request EXCEPT ![r] = [pc |-> "in", q |-> q]]
  /\ inflight' = inflight + 1
  /\ UNCHANGED <<permits, fetch>> /\ Serving

\* Whatever way a handler ends, the guard is dropped, and the permit if it had one.
Leave(r) ==
  /\ request' = [request EXCEPT ![r] = Idle]
  /\ fetch' = IF fetch[r].pc = "landed" THEN [fetch EXCEPT ![r] = NoTask] ELSE fetch
  /\ inflight' = inflight - 1
  /\ permits' = IF request[r].pc = "in" THEN permits ELSE permits + 1

\* Behind its permit a handler that takes a body awaits it before anything else.
Entered(r) == IF Route(r).awaits THEN "body" ELSE "admitted"

\* Health needs no key, and an unknown route answers 404 without one.
Admissible(r) == Route(r).known /\ ~Route(r).free /\ Route(r).key
Answered(r) ==
  /\ request[r].pc = "in"
  /\ ~Admissible(r) \/ permits = 0   \* 200 or 404 without a key, 401; 429
  /\ Leave(r) /\ Serving

AdmitPastLimit(r) ==
  /\ request[r].pc = "in"
  /\ Admissible(r)
  /\ request' = [request EXCEPT ![r].pc = Entered(r)]
  /\ permits' = permits - 1
  /\ UNCHANGED <<inflight, fetch>> /\ Serving
Admit(r) ==
  /\ request[r].pc = "in"
  /\ Admissible(r)
  /\ permits > 0
  /\ request' = [request EXCEPT ![r].pc = Entered(r)]
  /\ permits' = permits - 1
  /\ UNCHANGED <<inflight, fetch>> /\ Serving

\* The client sends the body it announced, or enough of it to be refused; it
\* may never do so, and no deadline is set.
Receive(r) ==
  /\ request[r].pc = "body"
  /\ request' = [request EXCEPT ![r].pc = "admitted"]
  /\ UNCHANGED <<inflight, permits, fetch>> /\ Serving

\* Answered without a query: a supporting route, or a request refused.
Refuse(r) ==
  /\ request[r].pc = "admitted"
  /\ ~Route(r).asks
  /\ Leave(r) /\ Serving

\* SessionPool::query: nothing once stopped; a member of the region's pool, or
\* none that may be asked; its cache, which may answer or turn it away.
Query(r) ==
  /\ request[r].pc = "admitted"
  /\ Route(r).asks
  /\ \/ Leave(r)
     \/ /\ ~Stopped
        /\ \E m \in Members :
             /\ m.place = Route(r).place
             /\ fetch' = [fetch EXCEPT
                            ![r] = [pc |-> "asked", q |-> request[r].q, member |-> m]]
        /\ request' = [request EXCEPT ![r].pc = "waiting"]
        /\ UNCHANGED <<inflight, permits>>
  /\ Serving

\* The fetch landed, or the stop token ended the wait.
Answer(r) ==
  /\ request[r].pc = "waiting"
  /\ fetch[r].pc = "landed" \/ Stopped
  /\ Leave(r) /\ Serving

\* The client goes away: the handler is dropped where it waits, the fetch not.
DisconnectKeepingPermit(r) ==
  /\ request[r].pc \in {"body", "waiting"}
  /\ request' = [request EXCEPT ![r] = Idle]
  /\ fetch' = IF fetch[r].pc = "landed" THEN [fetch EXCEPT ![r] = NoTask] ELSE fetch
  /\ inflight' = inflight - 1
  /\ UNCHANGED permits /\ Serving
Disconnect(r) ==
  /\ request[r].pc \in {"body", "waiting"}
  /\ Leave(r) /\ Serving

-----------------------------------------------------------------------------
(* The fetch of a request: ManagedClient::execute and observed.              *)
Fetching == UNCHANGED <<file, main, awaited, inflight, permits, request>>
Land(r) ==
  fetch' = [fetch EXCEPT ![r] = IF request[r] = Idle THEN NoTask ELSE [@ EXCEPT !.pc = "landed"]]

\* The game answers, or the call fails, is cancelled or is turned away.
Fetched(r) ==
  /\ fetch[r].pc = "asked"
  /\ Land(r)
  /\ UNCHANGED <<worker, poll, phase>> /\ Fetching

\* The game refuses the session. observed() looks at the stop token first ...
Screen(r) ==
  /\ fetch[r].pc = "asked" /\ ~Stopped
  /\ fetch' = [fetch EXCEPT ![r].pc = "screened"]
  /\ UNCHANGED <<worker, poll, phase>> /\ Fetching

\* ... and then takes the lock: a worker may be spawned after the stop.
observed(r) ==
  /\ fetch[r].pc = "screened"
  /\ Land(r)
  /\ LET m == fetch[r].member IN
       \/ UNCHANGED <<worker, phase>>          \* attempted before, or cooling down
       \/ /\ phase[m] = "open" /\ poll[m] # "calling" /\ HasWorker(m)
          /\ worker' = [worker EXCEPT ![m] = "start"]
          /\ phase' = [phase EXCEPT ![m] = "recovering"]
  /\ UNCHANGED poll /\ Fetching

-----------------------------------------------------------------------------
(* The worker of a member. Every call it sends is given up when the token is *)
(* cancelled, and so is a login between being installed and being saved.     *)
Working == UNCHANGED <<file, main, awaited, inflight, permits, request, fetch, poll>>
Goes(m, from, to) ==
  /\ worker[m] = from
  /\ worker' = [worker EXCEPT ![m] = to]

Send(m)    == ~Stopped /\ Goes(m, "start", "sent") /\ UNCHANGED phase /\ Working
Load(m)    == Goes(m, "start", "saved") /\ UNCHANGED phase /\ Working  \* a session on disk
Install(m) == ~Stopped /\ Goes(m, "sent", "installed") /\ UNCHANGED phase /\ Working
Save(m)    == ~Stopped /\ Goes(m, "installed", "saving") /\ UNCHANGED phase /\ Working
Saves(m)   == Goes(m, "saving", "saved") /\ UNCHANGED phase /\ Working

Fail(m) ==
  /\ \/ Goes(m, "start", "failed") \/ Goes(m, "sent", "failed")
     \/ Goes(m, "installed", "lost") \/ Goes(m, "saving", "lost")
  /\ UNCHANGED phase /\ Working

End(m) ==
  /\ worker[m] \in {"saved", "lost", "failed"}
  /\ worker' = [worker EXCEPT ![m] = "none"]
  /\ \E p \in {"open", "persistence_failed"} :
       /\ worker[m] = "saved" => p = "open"
       /\ worker[m] = "lost" => p = "persistence_failed"
       /\ phase' = [phase EXCEPT ![m] = p]
  /\ Working

-----------------------------------------------------------------------------
(* The version task of a member.                                             *)
Polling == UNCHANGED <<file, main, awaited, inflight, permits, request, fetch, worker, phase>>
Turns(m, from, to) ==
  /\ poll[m] = from
  /\ poll' = [poll EXCEPT ![m] = to]

Look(m) ==
  /\ \/ Stopped /\ Turns(m, "top", "over")
     \/ ~Stopped /\ phase[m] = "open" /\ Turns(m, "top", "calling")
     \/ ~Stopped /\ phase[m] # "open" /\ Turns(m, "top", "resting")
  /\ Polling
Called(m) == Turns(m, "calling", "resting") /\ Polling

RestRegardless(m) == Turns(m, "resting", "calling") /\ Polling
Rest(m) ==
  /\ \/ Stopped /\ Turns(m, "resting", "over")
     \/ Turns(m, "resting", "top")
  /\ Polling

-----------------------------------------------------------------------------
Client(r) == Alive /\ (Receive(r) \/ Disconnect(r))
Handle(r) == Alive /\ (Answered(r) \/ Admit(r) \/ Refuse(r) \/ Query(r) \/ Answer(r))
Fetch(r)  == Alive /\ (Fetched(r) \/ Screen(r) \/ observed(r))
Work(m)   == Alive /\ (\/ Send(m) \/ Load(m) \/ Install(m) \/ Save(m) \/ Saves(m)
                      \/ Fail(m) \/ End(m))
Poll(m)   == Alive /\ (Look(m) \/ Called(m) \/ Rest(m))
Run       == Start \/ WaitForPollers \/ (\E m \in Members : wait_idle(m)) \/ WaitForWorkers \/ Exit

Next ==
  \/ Run \/ Terminate
  \/ \E r \in Slots :
       (\E q \in DOMAIN Menu : Arrive(r, q)) \/ Client(r) \/ Handle(r) \/ Fetch(r)
  \/ \E m \in Members : Reload(m) \/ Work(m) \/ Poll(m)

Spec == Init /\ [][Next]_vars

(* Tasks are scheduled, every call has a timeout, and handlers wait for      *)
(* nothing but them and the body their client announced. Nothing is assumed  *)
(* of a client: it need not make a request, send a body or go away; nor need *)
(* a signal come.                                                            *)
AllMembers == UNION {MembersOf[name] : name \in DOMAIN Configs}
Fairness ==
  /\ WF_vars(Run)
  /\ \A r \in Slots : WF_vars(Handle(r)) /\ WF_vars(Fetch(r))
  /\ \A m \in AllMembers : WF_vars(m \in Members /\ Work(m)) /\ WF_vars(m \in Members /\ Poll(m))
FairSpec == Spec /\ Fairness

-----------------------------------------------------------------------------
(* Properties                                                                *)

(* Admission (lib.rs authenticate, diagnostics.rs Guard): whichever way a    *)
(* handler ends, by an answer, a refusal or a client that goes away, the     *)
(* permits left are exactly those no handler holds, and inflight is exactly  *)
(* the number of requests in progress.                                       *)
AdmissionExact ==
  /\ permits = Admission - Cardinality({r \in Slots : request[r].pc \in {"body", "admitted", "waiting"}})
  /\ inflight = Cardinality({r \in Slots : request[r] # Idle})

(* Routing (path_routes.rs install and path_query, regions.rs, config.rs     *)
(* from_text): what is asked of a member is what the path says. Its session  *)
(* is one of the region the path names, or that the profile id belongs to,   *)
(* or else of the default one; and no value of the path is replaced, joined  *)
(* or dropped because of the query string.                                   *)
RightRegion(q, m) ==
  LET region == from_session(Settings(m).session.region) IN
  /\ q.region # "none" => region = q.region
  /\ Profile(q) /\ q.region # "jp" => region = from_profile_id(q.path.playerProfileId[1])
  /\ ~Profile(q) /\ q.region = "none" => m.place = "own"
PathKept(q) ==
  Path(q) => \A key \in DOMAIN q.path : Given(q)[key] = q.path[key]
AsThePathSays ==
  \A r \in Slots : fetch[r] # NoTask =>
    RightRegion(Menu[fetch[r].q], fetch[r].member) /\ PathKept(Menu[fetch[r].q])

(* Separation (config.rs state_identity and from_text, LoginConfig::validate *)
(* in operator.rs): two members of different regions that serve never save   *)
(* their logins in one directory, however the configuration spells it.       *)
OwnState ==
  Alive =>
    \A m, n \in Members :
      m.place # n.place /\ Settings(m).login # Nothing /\ Settings(n).login # Nothing
      => Disk.real[Settings(m).login.state_dir] # Disk.real[Settings(n).login.state_dir]

(* Shutdown (main.rs, managed.rs wait_idle, observed): once the listener is  *)
(* closed no member has a login under way at the game or unsaved, and no     *)
(* version task runs. A refusal observed across the stop may still spawn a   *)
(* worker, after its member was waited for; it never gets to send anything.  *)
QuietClose ==
  main \in {"closing", "exited"} =>
    \A m \in Members : worker[m] \notin {"sent", "installed", "saving"} /\ PollerOver(m)

(* Shutdown (main.rs, lib.rs authenticate and get): from the signal on the   *)
(* version tasks and the logins are waited out, whatever clients do, and the *)
(* listener closes. The process gets to its exit if no client that announced *)
(* a body withholds it for ever; a handler waits for it without a deadline.  *)
BodyPending(r) == request[r].pc = "body"
ShutsDown ==
  /\ Stopped ~> main \in {"closing", "exited"}
  /\ (\A r \in Slots : []<>~BodyPending(r)) => (Stopped ~> main = "exited")
=============================================================================

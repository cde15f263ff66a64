--------------------------- MODULE GatewayProofs ---------------------------
(***************************************************************************)
(* What is proved of Gateway for any configurations, requests and number   *)
(* of permits: the permits, what is still going on when the listener is    *)
(* closed, that regions have state directories of their own, and that what *)
(* is asked of a member is what the path of the request says.              *)
(***************************************************************************)
EXTENDS Gateway, FiniteSetTheorems, TLAPS

Requesting == {Idle} \cup [pc : {"in", "body", "admitted", "waiting"}, q : DOMAIN Menu]
Fetches == {NoTask} \cup [pc : {"asked", "screened", "landed"}, q : DOMAIN Menu, member : Members]
WorkerSteps == {"none", "start", "sent", "installed", "saving", "saved", "lost", "failed"}
PollSteps == {"off", "top", "calling", "resting", "over"}
Phases == {"open", "recovering", "persistence_failed"}

(* The types, but for the two counters.                                    *)
Typed ==
  /\ file \in DOMAIN Configs
  /\ main \in {"starting", "refused", "health_only", "serving", "pollers", "workers",
               "closing", "exited"}
  /\ awaited \subseteq Members
  /\ inflight \in Int /\ permits \in Nat
  /\ request \in [Slots -> Requesting]
  /\ fetch \in [Slots -> Fetches]
  /\ worker \in [Members -> WorkerSteps]
  /\ poll \in [Members -> PollSteps]
  /\ phase \in [Members -> Phases]

(* A process that is not up has nothing going on, and one that is up was   *)
(* given a configuration to serve.                                         *)
Up ==
  /\ main \in {"starting", "refused", "health_only"} =>
       \A m \in Members : worker[m] = "none" /\ poll[m] = "off"
  /\ Alive => OutcomeOf[file] = "serving"

(* A member is in recovery exactly while its worker runs.                  *)
Recovering == \A m \in Members : phase[m] = "recovering" <=> worker[m] # "none"

(* No login of m is under way at the game or unsaved.                      *)
Harmless(m) == worker[m] \notin {"sent", "installed", "saving"}

(* What run() has waited for stays as it was found.                        *)
Waited ==
  /\ main \in {"workers", "closing", "exited"} => \A m \in Members : PollerOver(m)
  /\ main = "workers" => \A m \in awaited : Harmless(m)
  /\ main \in {"closing", "exited"} => \A m \in Members : Harmless(m)

IInv == Typed /\ Up /\ Recovering /\ Waited /\ AdmissionExact

(***************************************************************************)
(* The initial states and the frame.                                       *)
(***************************************************************************)

(* Nothing is going on before run().                                       *)
LEMMA InitIInv == Init => IInv
<1> SUFFICES ASSUME Init PROVE IInv
  OBVIOUS
<1>1. Typed
  BY GatewayAssumption DEF Init, Typed, Requesting, Fetches, WorkerSteps, PollSteps, Phases
<1>2. Up /\ Recovering /\ Waited
  BY DEF Init, Up, Recovering, Waited, Alive, Listening
<1>3. AdmissionExact
  <2>1. {r \in Slots : request[r].pc \in {"body", "admitted", "waiting"}} = {}
    BY DEF Init, Idle
  <2>2. {r \in Slots : request[r] # Idle} = {}
    BY DEF Init
  <2>3. inflight = 0 /\ permits = Admission /\ Admission \in Nat
    BY GatewayAssumption DEF Init
  <2> QED BY <2>1, <2>2, <2>3, FS_EmptySet DEF AdmissionExact
<1> QED BY <1>1, <1>2, <1>3 DEF IInv

(* The configuration is read once.                                         *)
LEMMA FileStays ==
  ASSUME [Next]_vars
  PROVE  file' = file /\ Members' = Members /\ Fetches' = Fetches
<1>1. file' = file
  BY DEF Next, vars, Run, Start, WaitForPollers, wait_idle, WaitForWorkers, Exit, Terminate, Standing,
         Arrive, Handle, Client, Receive, Disconnect, Fetch, Reload, Work, Poll, Answered, Admit, Refuse, Query, Answer,
         Serving, Fetched, Screen, observed, Fetching, Send, Load, Install, Save, Saves, Fail, End,
         Working, Look, Called, Rest, Polling
<1> QED BY <1>1 DEF Members, Fetches

(***************************************************************************)
(* Requests.                                                               *)
(***************************************************************************)

Holding == {r \in Slots : request[r].pc \in {"body", "admitted", "waiting"}}
Busy == {r \in Slots : request[r] # Idle}

(* Who holds a permit and who is in progress, when one request moves on.   *)
LEMMA Counts ==
  ASSUME Typed, NEW r \in Slots, NEW x \in Requesting, request' = [request EXCEPT ![r] = x]
  PROVE  /\ Cardinality(Holding) \in Nat /\ Cardinality(Busy) \in Nat
         /\ r \in Holding => Cardinality(Holding) > 0
         /\ Cardinality(Holding') =
              IF x.pc \in {"body", "admitted", "waiting"}
              THEN IF r \in Holding THEN Cardinality(Holding) ELSE Cardinality(Holding) + 1
              ELSE IF r \in Holding THEN Cardinality(Holding) - 1 ELSE Cardinality(Holding)
         /\ Cardinality(Busy') =
              IF x # Idle
              THEN IF r \in Busy THEN Cardinality(Busy) ELSE Cardinality(Busy) + 1
              ELSE IF r \in Busy THEN Cardinality(Busy) - 1 ELSE Cardinality(Busy)
<1>1. IsFiniteSet(Holding) /\ IsFiniteSet(Busy)
  BY GatewayAssumption, FS_Subset DEF Holding, Busy
<1>2. Holding' = IF x.pc \in {"body", "admitted", "waiting"} THEN Holding \cup {r} ELSE Holding \ {r}
  BY DEF Holding, Typed
<1>3. Busy' = IF x # Idle THEN Busy \cup {r} ELSE Busy \ {r}
  BY DEF Busy, Typed
<1>4. Cardinality(Holding) \in Nat /\ Cardinality(Busy) \in Nat
  BY <1>1, FS_CardinalityType
<1>5. r \in Holding => Cardinality(Holding) > 0
  BY <1>1, <1>4, FS_EmptySet
<1>6. /\ Cardinality(Holding \cup {r}) =
           IF r \in Holding THEN Cardinality(Holding) ELSE Cardinality(Holding) + 1
      /\ Cardinality(Holding \ {r}) =
           IF r \in Holding THEN Cardinality(Holding) - 1 ELSE Cardinality(Holding)
  BY <1>1, FS_AddElement, FS_RemoveElement
<1>7. /\ Cardinality(Busy \cup {r}) =
           IF r \in Busy THEN Cardinality(Busy) ELSE Cardinality(Busy) + 1
      /\ Cardinality(Busy \ {r}) =
           IF r \in Busy THEN Cardinality(Busy) - 1 ELSE Cardinality(Busy)
  BY <1>1, FS_AddElement, FS_RemoveElement
<1> QED BY <1>2, <1>3, <1>4, <1>5, <1>6, <1>7

(* The property, in these terms.                                           *)
LEMMA Exactly ==
  AdmissionExact <=>
    permits = Admission - Cardinality(Holding) /\ inflight = Cardinality(Busy)
BY DEF AdmissionExact, Holding, Busy

(* A handler that ends gives back what it had (diagnostics.rs, Guard).     *)
LEMMA LeaveExact ==
  ASSUME Typed, AdmissionExact, NEW r \in Slots, request[r] # Idle, Leave(r)
  PROVE  /\ AdmissionExact' /\ inflight' \in Int /\ permits' \in Nat
         /\ request' \in [Slots -> Requesting]
<1>1. Idle \in Requesting /\ Idle.pc = "idle" /\ request' = [request EXCEPT ![r] = Idle]
  BY DEF Requesting, Idle, Leave
<1>2. request[r].pc \in {"in", "body", "admitted", "waiting"}
  BY DEF Typed, Requesting
<1>3. r \in Busy /\ (r \in Holding <=> request[r].pc # "in")
  BY <1>2 DEF Busy, Holding
<1>4. /\ permits' = IF r \in Holding THEN permits + 1 ELSE permits
      /\ inflight' = inflight - 1
  BY <1>3 DEF Leave
<1>5. /\ Cardinality(Holding) \in Nat /\ Cardinality(Busy) \in Nat
      /\ Cardinality(Holding') =
           IF r \in Holding THEN Cardinality(Holding) - 1 ELSE Cardinality(Holding)
      /\ Cardinality(Busy') = Cardinality(Busy) - 1
  BY <1>1, <1>3, Counts
<1>6. permits = Admission - Cardinality(Holding) /\ inflight = Cardinality(Busy)
  BY Exactly
<1>7. permits' = Admission - Cardinality(Holding') /\ inflight' = Cardinality(Busy')
  BY <1>4, <1>5, <1>6, GatewayAssumption
<1>8. AdmissionExact'
  BY <1>7 DEF AdmissionExact, Holding, Busy
<1> QED BY <1>1, <1>4, <1>8 DEF Typed

(* A handler that goes on.                                                 *)
LEMMA GoesOnExact ==
  ASSUME Typed, AdmissionExact, NEW r \in Slots, request[r] # Idle,
         NEW pc \in {"body", "admitted", "waiting"}, request' = [request EXCEPT ![r].pc = pc],
         permits' = IF request[r].pc = "in" THEN permits - 1 ELSE permits,
         request[r].pc = "in" => permits > 0, inflight' = inflight
  PROVE  /\ AdmissionExact' /\ inflight' \in Int /\ permits' \in Nat
         /\ request' \in [Slots -> Requesting]
<1> DEFINE x == [request[r] EXCEPT !.pc = pc]
<1>1. request[r] \in [pc : {"in", "body", "admitted", "waiting"}, q : DOMAIN Menu]
  BY DEF Typed, Requesting
<1>2. x \in Requesting /\ x.pc = pc /\ request' = [request EXCEPT ![r] = x]
  BY <1>1 DEF Requesting
<1>3. x # Idle
  BY <1>2 DEF Idle
<1>4. r \in Busy /\ (r \in Holding <=> request[r].pc # "in")
  BY <1>1 DEF Busy, Holding
<1> HIDE DEF x
<1>5. /\ Cardinality(Holding) \in Nat /\ Cardinality(Busy) \in Nat
      /\ Cardinality(Holding') =
           IF r \in Holding THEN Cardinality(Holding) ELSE Cardinality(Holding) + 1
      /\ Cardinality(Busy') = Cardinality(Busy)
  BY <1>2, <1>3, <1>4, Counts
<1>6. permits = Admission - Cardinality(Holding) /\ inflight = Cardinality(Busy)
  BY Exactly
<1>7. permits' = Admission - Cardinality(Holding') /\ inflight' = Cardinality(Busy')
  BY <1>4, <1>5, <1>6, GatewayAssumption
<1>8. AdmissionExact'
  BY <1>7 DEF AdmissionExact, Holding, Busy
<1> QED BY <1>2, <1>8 DEF Typed

(* A request comes in.                                                     *)
LEMMA ArriveExact ==
  ASSUME Typed, AdmissionExact, NEW r \in Slots, NEW q \in DOMAIN Menu, Arrive(r, q)
  PROVE  /\ AdmissionExact' /\ inflight' \in Int /\ permits' \in Nat
         /\ request' \in [Slots -> Requesting]
<1> DEFINE x == [pc |-> "in", q |-> q]
<1>1. x \in Requesting /\ x.pc = "in" /\ request' = [request EXCEPT ![r] = x]
  BY DEF Requesting, Arrive
<1>2. x # Idle
  BY <1>1 DEF Idle
<1>3. r \notin Busy /\ r \notin Holding
  BY DEF Busy, Holding, Arrive, Idle
<1> HIDE DEF x
<1>4. /\ Cardinality(Holding) \in Nat /\ Cardinality(Busy) \in Nat
      /\ Cardinality(Holding') = Cardinality(Holding)
      /\ Cardinality(Busy') = Cardinality(Busy) + 1
  BY <1>1, <1>2, <1>3, Counts
<1>5. permits' = Admission - Cardinality(Holding') /\ inflight' = Cardinality(Busy')
  BY <1>4, Exactly DEF Arrive
<1>6. AdmissionExact'
  BY <1>5 DEF AdmissionExact, Holding, Busy
<1> QED BY <1>1, <1>6 DEF Arrive, Typed

(* Every step of a request keeps the counts (lib.rs, diagnostics.rs).      *)
LEMMA RequestStep ==
  ASSUME Typed, AdmissionExact, NEW r \in Slots,
         (\E q \in DOMAIN Menu : Arrive(r, q)) \/ Handle(r) \/ Client(r)
  PROVE  /\ AdmissionExact' /\ inflight' \in Int /\ permits' \in Nat
         /\ request' \in [Slots -> Requesting]
<1>1. CASE \E q \in DOMAIN Menu : Arrive(r, q)
  BY <1>1, ArriveExact
<1>2. CASE Leave(r) /\ (Handle(r) \/ Client(r))
  <2>1. request[r] # Idle
    BY <1>2 DEF Handle, Client, Receive, Disconnect, Answered, Admit, Refuse, Query, Answer, Idle
  <2> QED BY <1>2, <2>1, LeaveExact
<1>3. CASE Admit(r)
  <2>1. /\ request[r] # Idle /\ request[r].pc = "in" /\ permits > 0
        /\ request' = [request EXCEPT ![r].pc = Entered(r)]
        /\ permits' = permits - 1 /\ inflight' = inflight
    BY <1>3 DEF Admit, Idle
  <2> DEFINE pc == Entered(r)
  <2>2. pc \in {"body", "admitted", "waiting"} /\ request' = [request EXCEPT ![r].pc = pc]
    BY <2>1 DEF Entered
  <2> HIDE DEF pc
  <2> QED BY <2>1, <2>2, GoesOnExact
<1>4. CASE Query(r) /\ ~Leave(r)
  <2>1. /\ request[r].pc = "admitted" /\ request' = [request EXCEPT ![r].pc = "waiting"]
        /\ UNCHANGED <<inflight, permits>> /\ request[r] # Idle
    BY <1>4 DEF Query, Idle
  <2> DEFINE pc == "waiting"
  <2>2. pc \in {"body", "admitted", "waiting"} /\ request' = [request EXCEPT ![r].pc = pc]
    BY <2>1
  <2> HIDE DEF pc
  <2>3. permits' = (IF request[r].pc = "in" THEN permits - 1 ELSE permits) /\ request[r].pc # "in"
    BY <2>1
  <2> QED BY <2>1, <2>2, <2>3, GoesOnExact
<1>5. CASE Receive(r)
  <2>1. /\ request[r].pc = "body" /\ request' = [request EXCEPT ![r].pc = "admitted"]
        /\ UNCHANGED <<inflight, permits>> /\ request[r] # Idle
    BY <1>5 DEF Receive, Idle
  <2> DEFINE pc == "admitted"
  <2>2. pc \in {"body", "admitted", "waiting"} /\ request' = [request EXCEPT ![r].pc = pc]
    BY <2>1
  <2> HIDE DEF pc
  <2>3. permits' = (IF request[r].pc = "in" THEN permits - 1 ELSE permits) /\ request[r].pc # "in"
    BY <2>1
  <2> QED BY <2>1, <2>2, <2>3, GoesOnExact
<1> QED BY <1>1, <1>2, <1>3, <1>4, <1>5 DEF Handle, Client, Disconnect, Answered, Refuse, Query, Answer

(* Where a request's fetch may go.                                         *)
LEMMA FetchTypes ==
  ASSUME Typed, NEW r \in Slots,
         (\E q \in DOMAIN Menu : Arrive(r, q)) \/ Handle(r) \/ Client(r) \/ Fetch(r)
  PROVE  fetch' \in [Slots -> Fetches]
<1> USE DEF Typed
<1>1. CASE Leave(r)
  BY <1>1 DEF Leave, Fetches
<1>2. CASE Query(r) /\ ~Leave(r)
  <2>1. request[r].pc = "admitted"
    BY <1>2 DEF Query
  <2>2. request[r].q \in DOMAIN Menu
    BY <2>1 DEF Requesting, Idle
  <2>3. PICK m \in Members : fetch' = [fetch EXCEPT ![r] = [pc |-> "asked", q |-> request[r].q, member |-> m]]
    BY <1>2 DEF Query
  <2> QED BY <2>2, <2>3 DEF Fetches
<1>3. CASE UNCHANGED fetch
  BY <1>3
<1>4. CASE Fetch(r)
  <2>1. fetch[r].pc \in {"asked", "screened"}
    BY <1>4 DEF Fetch, Fetched, Screen, observed
  <2>2. fetch[r] \in [pc : {"asked", "screened", "landed"}, q : DOMAIN Menu, member : Members]
    BY <2>1 DEF Fetches, NoTask
  <2>3. \A pc \in {"landed", "screened"} : [fetch[r] EXCEPT !.pc = pc] \in Fetches
    BY <2>2 DEF Fetches
  <2>4. \/ fetch' = [fetch EXCEPT ![r] = NoTask]
        \/ \E pc \in {"landed", "screened"} : fetch' = [fetch EXCEPT ![r] = [fetch[r] EXCEPT !.pc = pc]]
    BY <1>4 DEF Fetch, Fetched, Screen, observed, Land
  <2>5. NoTask \in Fetches
    BY DEF Fetches
  <2> QED BY <2>3, <2>4, <2>5
<1> QED BY <1>1, <1>2, <1>3, <1>4 DEF Arrive, Handle, Client, Receive, Disconnect, Answered, Admit, Refuse, Query, Answer

(***************************************************************************)
(* The types, action by action.                                            *)
(***************************************************************************)

(* What a start-up comes to (startup.rs).                                  *)
LEMMA Outcomes == OutcomeOf[file] \in {"refused", "health_only", "serving"} \/ file \notin DOMAIN Configs
BY DEF OutcomeOf, Outcome, inspect

(* run() keeps the types (main.rs).                                        *)
LEMMA RunTypes ==
  ASSUME Typed, Run \/ Terminate
  PROVE  Typed'
<1> USE DEF Typed
<1>0. file' = file /\ Members' = Members /\ Fetches' = Fetches
  BY FileStays DEF Next
<1>1. CASE Start
  <2>1. main' \in {"refused", "health_only", "serving"}
    BY <1>1, Outcomes DEF Start
  <2>2. poll' \in [Members -> PollSteps]
    BY <1>1 DEF Start, PollSteps
  <2> QED BY <1>0, <1>1, <2>1, <2>2 DEF Start
<1>2. CASE WaitForPollers \/ WaitForWorkers \/ Exit \/ Terminate
  BY <1>0, <1>2 DEF WaitForPollers, WaitForWorkers, Exit, Terminate, Standing, tasks
<1>3. ASSUME NEW m \in Members, wait_idle(m)
      PROVE  Typed'
  BY <1>0, <1>3 DEF wait_idle, Standing, tasks
<1> QED BY <1>1, <1>2, <1>3 DEF Run

(* So do requests and their fetches (lib.rs, managed.rs).                  *)
LEMMA RequestTypes ==
  ASSUME Typed, AdmissionExact, NEW r \in Slots,
         (\E q \in DOMAIN Menu : Arrive(r, q)) \/ Handle(r) \/ Client(r) \/ Fetch(r)
  PROVE  Typed'
<1> USE DEF Typed
<1>0. file' = file /\ Members' = Members /\ Fetches' = Fetches
  BY FileStays DEF Next
<1>1. CASE (\E q \in DOMAIN Menu : Arrive(r, q)) \/ Handle(r) \/ Client(r)
  <2>1. UNCHANGED <<main, awaited, worker, poll, phase>>
    BY <1>1 DEF Arrive, Handle, Client, Receive, Disconnect, Answered, Admit, Refuse, Query, Answer, Serving
  <2> QED BY <1>0, <1>1, <2>1, RequestStep, FetchTypes
<1>2. CASE Fetch(r)
  <2>1. UNCHANGED <<main, awaited, inflight, permits, request, poll>>
    BY <1>2 DEF Fetch, Fetched, Screen, observed, Fetching
  <2>2. /\ worker' \in [Members -> WorkerSteps]
        /\ phase' \in [Members -> Phases]
    BY <1>2 DEF Fetch, Fetched, Screen, observed, WorkerSteps, Phases
  <2> QED BY <1>0, <1>2, <2>1, <2>2, FetchTypes
<1> QED BY <1>1, <1>2

(* And the tasks of a member (managed.rs, managed/versions.rs).            *)
LEMMA MemberTypes ==
  ASSUME Typed, NEW m \in Members, Reload(m) \/ Work(m) \/ Poll(m)
  PROVE  Typed'
<1> USE DEF Typed
<1>0. file' = file /\ Members' = Members /\ Fetches' = Fetches
  BY FileStays DEF Next
<1>1. CASE Reload(m)
  BY <1>0, <1>1 DEF Reload, Phases
<1>2. CASE Work(m)
  <2>1. UNCHANGED <<main, awaited, inflight, permits, request, fetch, poll>>
    BY <1>2 DEF Work, Send, Load, Install, Save, Saves, Fail, End, Working
  <2>2. worker' \in [Members -> WorkerSteps] /\ phase' \in [Members -> Phases]
    BY <1>2 DEF Work, Send, Load, Install, Save, Saves, Fail, End, Goes, WorkerSteps, Phases
  <2> QED BY <1>0, <2>1, <2>2
<1>3. CASE Poll(m)
  <2>1. UNCHANGED <<main, awaited, inflight, permits, request, fetch, worker, phase>>
    BY <1>3 DEF Poll, Look, Called, Rest, Polling
  <2>2. poll' \in [Members -> PollSteps]
    BY <1>3 DEF Poll, Look, Called, Rest, Turns, PollSteps
  <2> QED BY <1>0, <2>1, <2>2
<1> QED BY <1>1, <1>2, <1>3

(* Nobody but the requests touches the permits.                            *)
LEMMA ExactStep ==
  ASSUME Typed, AdmissionExact, [Next]_vars
  PROVE  AdmissionExact'
<1>1. ASSUME NEW r \in Slots, (\E q \in DOMAIN Menu : Arrive(r, q)) \/ Handle(r) \/ Client(r)
      PROVE  AdmissionExact'
  BY <1>1, RequestStep
<1>2. CASE UNCHANGED <<request, permits, inflight>>
  BY <1>2 DEF AdmissionExact
<1>3. CASE Run \/ Terminate
  BY <1>2, <1>3 DEF Run, Start, WaitForPollers, wait_idle, WaitForWorkers, Exit, Terminate, Standing
<1>4. ASSUME NEW r \in Slots, Fetch(r)
      PROVE  AdmissionExact'
  BY <1>2, <1>4 DEF Fetch, Fetched, Screen, observed, Fetching
<1>5. ASSUME NEW m \in Members, Reload(m) \/ Work(m) \/ Poll(m)
      PROVE  AdmissionExact'
  BY <1>2, <1>5 DEF Reload, Work, Send, Load, Install, Save, Saves, Fail, End, Working,
                    Poll, Look, Called, Rest, Polling
<1> QED BY <1>1, <1>2, <1>3, <1>4, <1>5 DEF Next, vars

(* Every step keeps the types.                                             *)
LEMMA TypedStep ==
  ASSUME Typed, AdmissionExact, [Next]_vars
  PROVE  Typed'
<1>1. CASE UNCHANGED vars
  BY <1>1, FileStays DEF Typed, vars, tasks
<1> QED BY <1>1, RunTypes, RequestTypes, MemberTypes DEF Next

(***************************************************************************)
(* Shutdown.                                                               *)
(***************************************************************************)

(* Nothing goes on in a process that never served, and what serves was     *)
(* configured to (main.rs).                                                *)
LEMMA UpStep ==
  ASSUME IInv, [Next]_vars
  PROVE  Up'
<1> USE DEF IInv, Typed, Up, Alive, Listening
<1>0. file' = file /\ Members' = Members
  BY FileStays
<1>1. CASE Start
  BY <1>0, <1>1, Outcomes DEF Start
<1>2. CASE WaitForPollers \/ WaitForWorkers \/ Exit \/ Terminate \/ \E m \in Members : wait_idle(m)
  BY <1>0, <1>2 DEF WaitForPollers, wait_idle, WaitForWorkers, Exit, Terminate, Standing, tasks
<1>3. ASSUME NEW r \in Slots,
             (\E q \in DOMAIN Menu : Arrive(r, q)) \/ Handle(r) \/ Client(r)
      PROVE  Up'
  BY <1>0, <1>3 DEF Arrive, Handle, Client, Receive, Disconnect, Answered, Admit, Refuse, Query, Answer, Serving
<1>4. ASSUME NEW r \in Slots, Fetch(r)
      PROVE  Up'
  BY <1>0, <1>4 DEF Fetch, Fetched, Screen, observed, Fetching
<1>5. ASSUME NEW m \in Members, Reload(m) \/ Work(m) \/ Poll(m)
      PROVE  Up'
  <2>1. main' = main /\ Alive
    BY <1>5 DEF Reload, Work, Send, Load, Install, Save, Saves, Fail, End, Working,
                Poll, Look, Called, Rest, Polling
  <2> QED BY <1>0, <2>1
<1>6. CASE UNCHANGED vars
  BY <1>0, <1>6 DEF vars, tasks
<1> QED BY <1>1, <1>2, <1>3, <1>4, <1>5, <1>6 DEF Next, Run

(* A worker is started and ended together with its phase (managed.rs).     *)
LEMMA RecoveringStep ==
  ASSUME IInv, [Next]_vars
  PROVE  Recovering'
<1> USE DEF IInv, Typed, Recovering
<1>0. Members' = Members
  BY FileStays
<1>1. CASE UNCHANGED <<worker, phase>>
  BY <1>0, <1>1
<1>2. CASE Run \/ Terminate
  BY <1>1, <1>2 DEF Run, Start, WaitForPollers, wait_idle, WaitForWorkers, Exit, Terminate, Standing, tasks
<1>3. ASSUME NEW r \in Slots,
             (\E q \in DOMAIN Menu : Arrive(r, q)) \/ Handle(r) \/ Client(r)
      PROVE  Recovering'
  BY <1>1, <1>3 DEF Arrive, Handle, Client, Receive, Disconnect, Answered, Admit, Refuse, Query, Answer, Serving
<1>4. ASSUME NEW r \in Slots, Fetch(r)
      PROVE  Recovering'
  <2>1. CASE ~UNCHANGED <<worker, phase>>
    <3>1. PICK m : /\ worker' = [worker EXCEPT ![m] = "start"]
                   /\ phase' = [phase EXCEPT ![m] = "recovering"]
      BY <1>4, <2>1 DEF Fetch, Fetched, Screen, observed
    <3> QED BY <1>0, <3>1
  <2> QED BY <1>1, <2>1
<1>5. ASSUME NEW m \in Members, Work(m)
      PROVE  Recovering'
  <2>1. CASE End(m)
    <3>1. PICK p \in {"open", "persistence_failed"} :
            worker' = [worker EXCEPT ![m] = "none"] /\ phase' = [phase EXCEPT ![m] = p]
      BY <2>1 DEF End
    <3> QED BY <1>0, <3>1
  <2>2. CASE ~End(m)
    BY <1>0, <1>5, <2>2 DEF Work, Send, Load, Install, Save, Saves, Fail, Goes
  <2> QED BY <2>1, <2>2
<1>6. ASSUME NEW m \in Members, Reload(m) \/ Poll(m)
      PROVE  Recovering'
  BY <1>0, <1>6 DEF Reload, Poll, Look, Called, Rest, Polling
<1>7. CASE UNCHANGED vars
  BY <1>1, <1>7 DEF vars, tasks
<1> QED BY <1>2, <1>3, <1>4, <1>5, <1>6, <1>7 DEF Next

(* What a worker and a poller still do once the stop token is cancelled    *)
(* (managed.rs, managed/versions.rs).                                      *)
LEMMA StoppedTasks ==
  ASSUME IInv, [Next]_vars, Stopped, NEW m \in Members
  PROVE  (Harmless(m) => Harmless(m)') /\ (PollerOver(m) => PollerOver(m)')
<1> USE DEF IInv, Typed, Harmless, PollerOver
<1>0. Members' = Members
  BY FileStays
<1>1. CASE UNCHANGED <<worker, poll>>
  BY <1>1
<1>2. CASE Run \/ Terminate
  BY <1>1, <1>2 DEF Run, Start, WaitForPollers, wait_idle, WaitForWorkers, Exit, Terminate, Standing,
                    tasks, Stopped
<1>3. ASSUME NEW r \in Slots,
             (\E q \in DOMAIN Menu : Arrive(r, q)) \/ Handle(r) \/ Client(r)
      PROVE  UNCHANGED <<worker, poll>>
  BY <1>3 DEF Arrive, Handle, Client, Receive, Disconnect, Answered, Admit, Refuse, Query, Answer, Serving
<1>4. ASSUME NEW r \in Slots, Fetch(r)
      PROVE  poll' = poll /\ (worker' = worker \/ \E n : worker' = [worker EXCEPT ![n] = "start"])
  BY <1>4 DEF Fetch, Fetched, Screen, observed
<1>5. ASSUME NEW n \in Members, Work(n)
      PROVE  /\ poll' = poll
             /\ \/ worker[n] = "installed" /\ worker' = [worker EXCEPT ![n] = "lost"]
                \/ \E s \in {"none", "saved", "lost", "failed"} : worker' = [worker EXCEPT ![n] = s]
  BY <1>5 DEF Work, Send, Load, Install, Save, Saves, Fail, End, Goes, Working
<1>6. ASSUME NEW n \in Members, Poll(n)
      PROVE  worker' = worker /\ (PollerOver(m) => PollerOver(m)')
  BY <1>6 DEF Poll, Look, Called, Rest, Turns, Polling
<1>7. ASSUME NEW n \in Members, Reload(n)
      PROVE  UNCHANGED <<worker, poll>>
  BY <1>7 DEF Reload
<1>8. CASE UNCHANGED vars
  BY <1>1, <1>8 DEF vars, tasks
<1> QED BY <1>1, <1>2, <1>3, <1>4, <1>5, <1>6, <1>7, <1>8 DEF Next

(* Where run() is, and whom it has waited for (main.rs).                   *)
LEMMA WaitedStep ==
  ASSUME IInv, [Next]_vars
  PROVE  Waited'
<1> USE DEF IInv, Typed
<1>0. Members' = Members
  BY FileStays
<1>1. CASE main' = main /\ awaited' = awaited
  <2>1. CASE Stopped
    BY <1>0, <1>1, <2>1, StoppedTasks DEF Waited, Stopped
  <2>2. CASE ~Stopped
    BY <1>1, <2>2 DEF Waited, Stopped
  <2> QED BY <2>1, <2>2
<1>2. CASE Start
  BY <1>2, Outcomes DEF Start, Waited
<1>3. CASE Terminate
  BY <1>0, <1>3 DEF Terminate, Standing, tasks, Waited, Up, Harmless, PollerOver
<1>4. CASE WaitForPollers
  BY <1>0, <1>4 DEF WaitForPollers, Standing, tasks, Waited, PollerOver
<1>5. ASSUME NEW m \in Members, wait_idle(m)
      PROVE  Waited'
  BY <1>0, <1>5 DEF wait_idle, Standing, tasks, Waited, PollerOver, Harmless, Recovering
<1>6. CASE WaitForWorkers \/ Exit
  BY <1>0, <1>6 DEF WaitForWorkers, Exit, Standing, tasks, Waited, PollerOver, Harmless
<1>7. ASSUME NEW r \in Slots,
             \/ \E q \in DOMAIN Menu : Arrive(r, q)
             \/ Handle(r) \/ Client(r) \/ Fetch(r)
      PROVE  main' = main /\ awaited' = awaited
  BY <1>7 DEF Arrive, Handle, Client, Receive, Disconnect, Answered, Admit, Refuse, Query, Answer, Serving,
              Fetch, Fetched, Screen, observed, Fetching
<1>8. ASSUME NEW m \in Members, Reload(m) \/ Work(m) \/ Poll(m)
      PROVE  main' = main /\ awaited' = awaited
  BY <1>8 DEF Reload, Work, Send, Load, Install, Save, Saves, Fail, End, Working,
              Poll, Look, Called, Rest, Polling
<1>9. CASE UNCHANGED vars
  BY <1>1, <1>9 DEF vars
<1> QED BY <1>1, <1>2, <1>3, <1>4, <1>5, <1>6, <1>7, <1>8, <1>9 DEF Next, Run

(***************************************************************************)
(* State directories.                                                      *)
(***************************************************************************)

(* A configuration that comes up keeps its regions apart (config.rs,       *)
(* from_text and state_identity; operator.rs, LoginConfig::validate).      *)
LEMMA Apart ==
  ASSUME NEW n \in DOMAIN Configs, OutcomeOf[n] = "serving",
         NEW a \in members(Configs[n]), NEW b \in members(Configs[n]), a.place # b.place,
         for_region(Configs[n], a.place).login # Nothing,
         for_region(Configs[n], b.place).login # Nothing
  PROVE  Disk.real[for_region(Configs[n], a.place).login.state_dir]
           # Disk.real[for_region(Configs[n], b.place).login.state_dir]
<1> DEFINE c == Configs[n]
<1>1. inspect(c) = "configured" /\ comes_up(c)
  BY DEF OutcomeOf, Outcome, inspect
<1>2. from_text(c)
  BY <1>1 DEF inspect
<1>3. ASSUME NEW m \in members(c)
      PROVE  /\ m.place \in Places(c)
             /\ for_region(c, m.place).login = At(c, m.place).login
             /\ for_region(c, m.place).login # Nothing =>
                  exists(for_region(c, m.place).login.state_dir)
  <2>1. m.place \in Places(c)
    BY DEF members
  <2>2. At(c, m.place) \in Sections(c)
    BY <2>1 DEF At, Places, Sections
  <2>3. Section(At(c, m.place))
    BY <2>2, GatewayAssumption
  <2>4. for_region(c, m.place).login = At(c, m.place).login
    BY <2>3 DEF for_region, DefaultDirectory, Section
  <2>5. Runtime(for_region(c, m.place))
    BY <1>1 DEF comes_up
  <2>6. for_region(c, m.place).login # Nothing => private_dir(for_region(c, m.place).login.state_dir)
    BY <2>5 DEF Runtime, ValidLogin
  <2> QED BY <2>1, <2>4, <2>6, DiskAssumption DEF private_dir, exists
<1>4. state_identity(At(c, a.place).login.state_dir) # state_identity(At(c, b.place).login.state_dir)
  BY <1>2, <1>3 DEF from_text, DistinctStates
<1> QED BY <1>3, <1>4 DEF state_identity

(***************************************************************************)
(* Routing.                                                                *)
(***************************************************************************)

(* A request that its handler takes to a pool (path_routes.rs, lib.rs).    *)
Asks(c, q) == q.form \in {"path", "query"} /\ Routed(c, q) /\ Refusal(c, q) = 0

(* What has been fetched was asked of a member of the pool its request was *)
(* handed to, by a request that was not refused.                           *)
Asked ==
  \A r \in Slots : fetch[r] # NoTask =>
    LET q == Menu[fetch[r].q] IN
    /\ OutcomeOf[file] = "serving"
    /\ fetch[r].q \in DOMAIN Menu /\ fetch[r].member \in Members
    /\ Asks(Configs[file], q)
    /\ fetch[r].member.place = PoolFor(Configs[file], q)

(* What the table of routes says, for a configuration that serves.         *)
LEMMA RouteMeans ==
  ASSUME NEW n \in DOMAIN Configs, OutcomeOf[n] = "serving", NEW k \in DOMAIN Menu,
         RouteOf[n][k].asks
  PROVE  Asks(Configs[n], Menu[k]) /\ RouteOf[n][k].place = PoolFor(Configs[n], Menu[k])
<1> DEFINE q == Menu[k]
           c == Configs[n]
           a == q.form \in {"path", "query"} /\ Routed(c, q) /\ Refusal(c, q) = 0
           t == [known |-> Routed(c, q), free |-> q.form = "health", key |-> q.key = "good",
                 awaits |-> AwaitsBody(q), asks |-> a, place |-> IF a THEN PoolFor(c, q) ELSE "own"]
<1>1. RouteOf[n][k] = t
  BY DEF RouteOf
<1> HIDE DEF a
<1>2. RouteOf[n][k].asks = a
  BY <1>1
<1>3. a
  BY <1>2
<1>4. RouteOf[n][k].place = PoolFor(c, q)
  BY <1>1, <1>3
<1> QED BY <1>3, <1>4 DEF Asks, a

(* A request that is not refused has passed every check of its path, and   *)
(* the region it is for is configured (lib.rs, path_routes.rs).            *)
LEMMA NotRefused ==
  ASSUME NEW c, NEW q, Refusal(c, q) = 0
  PROVE  /\ Path(q) => PathAccepted(q) /\ RegionAccepted(q)
         /\ RegionOf(q) # "none" => Configured(c, RegionOf(q))
BY DEF Refusal, status

(* The session of a member is the one of its region's sections.            *)
LEMMA SessionAt ==
  ASSUME NEW c, NEW p, Section(At(c, p))
  PROVE  for_region(c, p).session = At(c, p).session
BY DEF for_region, DefaultDirectory, Section

(* The pool of a region that is configured (runtime.rs, with_pools).       *)
LEMMA PoolIsThere ==
  ASSUME NEW c, NEW region, Configured(c, region)
  PROVE  PoolOf(c, region) \in Places(c) /\ RegionAt(c, PoolOf(c, region)) = region
BY DEF Configured, PoolOf

(* No value of an accepted path is touched by the query string.            *)
LEMMA AcceptedPathKept ==
  ASSUME NEW q, Request(q), Path(q) => PathAccepted(q)
  PROVE  PathKept(q)
<1> SUFFICES ASSUME Path(q), NEW key \in DOMAIN q.path
             PROVE  Given(q)[key] = q.path[key]
  BY DEF PathKept
<1>1. key \notin DOMAIN q.raw
  BY DEF PathAccepted, PathKeys
<1>2. Given(q)[key] = q.path[key] \o <<>>
  BY <1>1 DEF Given, path_query, PathKeys
<1>3. q.path[key] \in Seq(Values)
  BY DEF Request, Raw
<1> QED BY <1>2, <1>3

(* A request that asks is handed to the pool of its region: the one in its *)
(* path, or the one its profile id belongs to, or else the default one.    *)
LEMMA HandedRight ==
  ASSUME NEW n \in DOMAIN Configs, NEW q, NEW p \in Places(Configs[n]), Asks(Configs[n], q),
         p = PoolFor(Configs[n], q)
  PROVE  LET region == from_session(for_region(Configs[n], p).session.region) IN
         /\ q.region # "none" => region = q.region
         /\ Profile(q) /\ q.region # "jp" => region = from_profile_id(q.path.playerProfileId[1])
         /\ ~Profile(q) /\ q.region = "none" => p = "own"
<1> DEFINE c == Configs[n]
           region == from_session(for_region(c, p).session.region)
<1>1. /\ Path(q) => RegionAccepted(q)
      /\ RegionOf(q) # "none" => Configured(c, RegionOf(q))
  BY NotRefused DEF Asks
<1>2. At(c, p) \in Sections(c)
  BY DEF At, Places, Sections
<1>3. region = RegionAt(c, p)
  <2>1. Section(At(c, p))
    BY <1>2, GatewayAssumption
  <2> QED BY <2>1, SessionAt DEF RegionAt
<1>4. RegionOf(q) # "none" => region = RegionOf(q)
  BY <1>1, <1>3, PoolIsThere DEF PoolFor
<1>5. CASE Profile(q) /\ q.region # "jp"
  <2>1. RegionOf(q) = from_profile_id(q.path.playerProfileId[1])
    BY <1>5 DEF RegionOf, Id
  <2>2. RegionOf(q) \in Regions /\ q.region \in {"none", RegionOf(q)}
    BY <1>1, <1>5 DEF Profile, RegionAccepted
  <2>3. RegionOf(q) # "none"
    BY <2>2 DEF Regions
  <2> QED BY <1>4, <1>5, <2>1, <2>2, <2>3
<1>6. CASE ~(Profile(q) /\ q.region # "jp")
  <2>1. RegionOf(q) = q.region
    BY <1>6 DEF RegionOf
  <2>2. q.region # "none" => region = q.region
    BY <1>4, <2>1
  <2>3. q.region = "none" => p = "own"
    BY <2>1 DEF PoolFor
  <2> QED BY <1>6, <2>2, <2>3
<1> QED BY <1>5, <1>6

(* A fetch is started by a handler whose request asks, and keeps to it.    *)
LEMMA AskedStep ==
  ASSUME IInv, Asked, [Next]_vars
  PROVE  Asked'
<1> USE DEF IInv, Typed
<1>0. file' = file /\ Members' = Members
  BY FileStays
<1>1. ASSUME \A r \in Slots : \/ fetch'[r] \in {fetch[r], NoTask}
                              \/ fetch[r] # NoTask /\ fetch'[r].q = fetch[r].q
                                                   /\ fetch'[r].member = fetch[r].member
      PROVE  Asked'
  BY <1>0, <1>1 DEF Asked
<1>2. ASSUME NEW r \in Slots, Leave(r)
      PROVE  Asked'
  BY <1>1, <1>2 DEF Leave
<1>3. ASSUME NEW r \in Slots, Handle(r), ~Leave(r), ~UNCHANGED fetch
      PROVE  Asked'
  <2>1. Query(r) /\ Alive
    BY <1>3 DEF Handle, Answered, Admit, Refuse, Answer
  <2>2. PICK m \in Members :
          /\ m.place = Route(r).place
          /\ fetch' = [fetch EXCEPT ![r] = [pc |-> "asked", q |-> request[r].q, member |-> m]]
    BY <1>3, <2>1 DEF Query
  <2>3. Route(r).asks /\ request[r].pc = "admitted"
    BY <2>1 DEF Query
  <2>4. request[r].q \in DOMAIN Menu
    BY <2>3 DEF Requesting, Idle
  <2>5. OutcomeOf[file] = "serving"
    BY <2>1 DEF Up
  <2>6. /\ Asks(Configs[file], Menu[request[r].q])
        /\ m.place = PoolFor(Configs[file], Menu[request[r].q])
    BY <2>2, <2>3, <2>4, <2>5, RouteMeans DEF Route
  <2>7. /\ fetch'[r] = [pc |-> "asked", q |-> request[r].q, member |-> m]
        /\ \A p \in Slots : p # r => fetch'[p] = fetch[p]
    BY <2>2
  <2> QED BY <1>0, <2>4, <2>5, <2>6, <2>7 DEF Asked
<1>4. CASE UNCHANGED fetch
  BY <1>1, <1>4
<1>5. ASSUME NEW r \in Slots, Fetch(r)
      PROVE  Asked'
  <2>1. fetch[r].pc \in {"asked", "screened"}
    BY <1>5 DEF Fetch, Fetched, Screen, observed
  <2>2. fetch[r] \in [pc : {"asked", "screened", "landed"}, q : DOMAIN Menu, member : Members]
        /\ fetch[r] # NoTask
    BY <2>1 DEF Fetches, NoTask
  <2>3. \/ fetch' = [fetch EXCEPT ![r] = NoTask]
        \/ \E pc \in {"landed", "screened"} : fetch' = [fetch EXCEPT ![r] = [fetch[r] EXCEPT !.pc = pc]]
    BY <1>5 DEF Fetch, Fetched, Screen, observed, Land
  <2>4. \A pc \in {"landed", "screened"} :
          [fetch[r] EXCEPT !.pc = pc].q = fetch[r].q /\ [fetch[r] EXCEPT !.pc = pc].member = fetch[r].member
    BY <2>2
  <2> QED BY <1>1, <2>2, <2>3, <2>4
<1>6. ASSUME NEW r \in Slots, \/ \E q \in DOMAIN Menu : Arrive(r, q)
                              \/ Client(r) /\ ~Leave(r)
      PROVE  UNCHANGED fetch
  BY <1>6 DEF Arrive, Client, Receive, Disconnect
<1>7. ASSUME NEW m \in Members, Reload(m) \/ Work(m) \/ Poll(m)
      PROVE  UNCHANGED fetch
  BY <1>7 DEF Reload, Work, Send, Load, Install, Save, Saves, Fail, End, Working,
              Poll, Look, Called, Rest, Polling
<1>8. CASE Run \/ Terminate
  BY <1>4, <1>8 DEF Run, Start, WaitForPollers, wait_idle, WaitForWorkers, Exit, Terminate, Standing, tasks
<1>9. CASE UNCHANGED vars
  BY <1>4, <1>9 DEF vars, tasks
<1> QED BY <1>2, <1>3, <1>4, <1>5, <1>6, <1>7, <1>8, <1>9 DEF Next

(* Who holds a permit came with the API key, to a route there is.          *)
Entitled ==
  \A r \in Slots :
    /\ request[r].pc \in {"body", "admitted", "waiting"} => Menu[request[r].q].key = "good"
    /\ fetch[r] # NoTask => Menu[fetch[r].q].key = "good"

(* The key is looked at before the permit is taken (lib.rs, authenticate). *)
LEMMA AdmitsEntitled ==
  ASSUME Typed, Up, Alive, NEW r \in Slots, Admit(r)
  PROVE  Menu[request[r].q].key = "good"
<1>1. OutcomeOf[file] = "serving" /\ file \in DOMAIN Configs
  BY DEF Up, Typed
<1>2. request[r].q \in DOMAIN Menu
  BY DEF Typed, Requesting, Idle, Admit
<1> DEFINE k == request[r].q
           q == Menu[k]
           c == Configs[file]
           asks == q.form \in {"path", "query"} /\ Routed(c, q) /\ Refusal(c, q) = 0
           good == q.key = "good"
<1>3. RouteOf[file][k] =
        [known |-> Routed(c, q), free |-> q.form = "health", key |-> good,
         awaits |-> AwaitsBody(q), asks |-> asks, place |-> IF asks THEN PoolFor(c, q) ELSE "own"]
  BY <1>1, <1>2 DEF RouteOf
<1> HIDE DEF asks, good
<1>4. RouteOf[file][k].key = good
  BY <1>3
<1>5. RouteOf[file][k].key
  BY DEF Admit, Admissible, Route
<1> QED BY <1>4, <1>5 DEF good

(* Nobody comes to a permit or a fetch otherwise.                          *)
LEMMA EntitledStep ==
  ASSUME IInv, Entitled, [Next]_vars
  PROVE  Entitled'
<1> USE DEF IInv, Typed
<1>1. ASSUME \A r \in Slots : \/ request'[r] = request[r]
                              \/ request'[r].pc \notin {"body", "admitted", "waiting"}
                              \/ request[r].pc \in {"body", "admitted", "waiting"} /\ request'[r].q = request[r].q,
             \A r \in Slots : \/ fetch'[r] \in {fetch[r], NoTask}
                              \/ fetch[r] # NoTask /\ fetch'[r].q = fetch[r].q
      PROVE  Entitled'
  BY <1>1 DEF Entitled
<1>2. ASSUME NEW r \in Slots, Leave(r)
      PROVE  Entitled'
  BY <1>1, <1>2 DEF Leave, Idle
<1>3. ASSUME NEW r \in Slots, NEW q \in DOMAIN Menu, Arrive(r, q)
      PROVE  Entitled'
  BY <1>1, <1>3 DEF Arrive
<1>4. ASSUME NEW r \in Slots, Handle(r), Admit(r)
      PROVE  Entitled'
  <2>1. Menu[request[r].q].key = "good"
    BY <1>4, AdmitsEntitled DEF Handle
  <2>2. /\ request[r] \in [pc : {"in", "body", "admitted", "waiting"}, q : DOMAIN Menu]
        /\ request' = [request EXCEPT ![r].pc = Entered(r)] /\ fetch' = fetch
    BY <1>4 DEF Admit, Requesting, Idle
  <2>3. request'[r].q = request[r].q /\ \A p \in Slots : p # r => request'[p] = request[p]
    BY <2>2
  <2> QED BY <2>1, <2>2, <2>3 DEF Entitled
<1>5. ASSUME NEW r \in Slots, Query(r), ~Leave(r)
      PROVE  Entitled'
  <2>1. request[r].pc = "admitted" /\ request' = [request EXCEPT ![r].pc = "waiting"]
    BY <1>5 DEF Query
  <2>2. request[r] \in [pc : {"in", "body", "admitted", "waiting"}, q : DOMAIN Menu]
    BY <2>1 DEF Requesting, Idle
  <2>3. request'[r].q = request[r].q /\ \A p \in Slots : p # r => request'[p] = request[p]
    BY <2>1, <2>2
  <2>4. PICK m \in Members : fetch' = [fetch EXCEPT ![r] = [pc |-> "asked", q |-> request[r].q, member |-> m]]
    BY <1>5 DEF Query
  <2>5. fetch'[r].q = request[r].q /\ \A p \in Slots : p # r => fetch'[p] = fetch[p]
    BY <2>4
  <2>6. Menu[request[r].q].key = "good"
    BY <2>1 DEF Entitled
  <2> QED BY <2>3, <2>5, <2>6, <2>1 DEF Entitled
<1>6. ASSUME NEW r \in Slots, Fetch(r)
      PROVE  Entitled'
  <2>1. fetch[r].pc \in {"asked", "screened"} /\ request' = request
    BY <1>6 DEF Fetch, Fetched, Screen, observed, Fetching
  <2>2. fetch[r] \in [pc : {"asked", "screened", "landed"}, q : DOMAIN Menu, member : Members]
        /\ fetch[r] # NoTask
    BY <2>1 DEF Fetches, NoTask
  <2>3. \/ fetch' = [fetch EXCEPT ![r] = NoTask]
        \/ \E pc \in {"landed", "screened"} : fetch' = [fetch EXCEPT ![r] = [fetch[r] EXCEPT !.pc = pc]]
    BY <1>6 DEF Fetch, Fetched, Screen, observed, Land
  <2>4. \A pc \in {"landed", "screened"} : [fetch[r] EXCEPT !.pc = pc].q = fetch[r].q
    BY <2>2
  <2> QED BY <1>1, <2>1, <2>2, <2>3, <2>4
<1>7. CASE UNCHANGED <<request, fetch>>
  BY <1>1, <1>7
<1>8. ASSUME NEW m \in Members, Reload(m) \/ Work(m) \/ Poll(m)
      PROVE  UNCHANGED <<request, fetch>>
  BY <1>8 DEF Reload, Work, Send, Load, Install, Save, Saves, Fail, End, Working,
              Poll, Look, Called, Rest, Polling
<1>9. CASE Run \/ Terminate
  BY <1>7, <1>9 DEF Run, Start, WaitForPollers, wait_idle, WaitForWorkers, Exit, Terminate, Standing, tasks
<1>10. CASE UNCHANGED vars
  BY <1>7, <1>10 DEF vars, tasks
<1>11. ASSUME NEW r \in Slots, Receive(r)
       PROVE  Entitled'
  <2>1. /\ request[r].pc = "body" /\ fetch' = fetch
        /\ request' = [request EXCEPT ![r].pc = "admitted"]
    BY <1>11 DEF Receive
  <2>2. request[r] \in [pc : {"in", "body", "admitted", "waiting"}, q : DOMAIN Menu]
    BY <2>1 DEF Requesting, Idle
  <2>3. request'[r].q = request[r].q /\ \A p \in Slots : p # r => request'[p] = request[p]
    BY <2>1, <2>2
  <2> QED BY <1>1, <2>1, <2>3
<1> QED BY <1>2, <1>3, <1>4, <1>5, <1>6, <1>7, <1>8, <1>9, <1>10, <1>11
        DEF Next, Handle, Client, Disconnect, Answered, Refuse, Query, Answer

(***************************************************************************)
(* The theorems.                                                           *)
(***************************************************************************)

(* The inductive invariant holds in every reachable state.                 *)
THEOREM GatewayInvariance == Spec => []IInv
<1>1. IInv /\ [Next]_vars => IInv'
  BY TypedStep, UpStep, RecoveringStep, WaitedStep, ExactStep DEF IInv
<1> QED BY InitIInv, <1>1, PTL DEF Spec

(* The types hold in every reachable state, and the counters stay within   *)
(* the slots and the permits there are.                                    *)
THEOREM GatewayTypes == Spec => []TypeOK
<1>1. IInv => TypeOK
  <2> SUFFICES ASSUME IInv PROVE TypeOK
    OBVIOUS
  <2>1. IsFiniteSet(Holding) /\ IsFiniteSet(Busy) /\ Cardinality(Busy) <= Cardinality(Slots)
    BY GatewayAssumption, FS_Subset DEF Holding, Busy
  <2>2. Cardinality(Holding) \in Nat /\ Cardinality(Busy) \in Nat /\ Cardinality(Slots) \in Nat
    BY <2>1, GatewayAssumption, FS_CardinalityType
  <2>3. permits = Admission - Cardinality(Holding) /\ inflight = Cardinality(Busy)
    BY Exactly DEF IInv
  <2>4. inflight \in 0..Cardinality(Slots) /\ permits \in 0..Admission
    BY <2>1, <2>2, <2>3, GatewayAssumption DEF IInv, Typed
  <2> QED BY <2>4 DEF IInv, Typed, TypeOK, Requesting, Fetches, WorkerSteps, PollSteps, Phases
<1> QED BY <1>1, GatewayInvariance, PTL

(* Permits and the requests in progress are counted exactly (lib.rs,       *)
(* diagnostics.rs).                                                        *)
THEOREM AdmissionAlwaysExact == Spec => []AdmissionExact
<1>1. IInv => AdmissionExact
  BY DEF IInv
<1> QED BY <1>1, GatewayInvariance, PTL

(* The listener is closed over no login under way (main.rs).               *)
THEOREM ClosesQuietly == Spec => []QuietClose
<1>1. IInv => QuietClose
  BY DEF IInv, Waited, Harmless, QuietClose
<1> QED BY <1>1, GatewayInvariance, PTL

(* Regions that serve have state directories of their own (config.rs).     *)
THEOREM StatesAlwaysApart == Spec => []OwnState
<1>1. IInv => OwnState
  <2> SUFFICES ASSUME IInv, Alive, NEW m \in Members, NEW n \in Members, m.place # n.place,
                      Settings(m).login # Nothing, Settings(n).login # Nothing
               PROVE  Disk.real[Settings(m).login.state_dir] # Disk.real[Settings(n).login.state_dir]
    BY DEF OwnState
  <2>1. file \in DOMAIN Configs /\ OutcomeOf[file] = "serving"
    BY DEF IInv, Typed, Up
  <2>2. m \in members(Configs[file]) /\ n \in members(Configs[file])
    BY <2>1 DEF Members, MembersOf
  <2> QED BY <2>1, <2>2, Apart DEF Settings
<1> QED BY <1>1, GatewayInvariance, PTL

(* What is asked of a member is what the path of the request says: its     *)
(* session is of the region that the path or the profile id names, or of   *)
(* the default one, and the query string changes nothing in the path       *)
(* (path_routes.rs, regions.rs, config.rs).                                *)
THEOREM AsksAsThePathSays == Spec => []AsThePathSays
<1>1. Init => Asked
  BY DEF Init, Asked
<1>2. IInv /\ Asked /\ [Next]_vars => Asked'
  BY AskedStep
<1>3. IInv /\ Asked => AsThePathSays
  <2> SUFFICES ASSUME IInv, Asked, NEW r \in Slots, fetch[r] # NoTask
               PROVE  RightRegion(Menu[fetch[r].q], fetch[r].member) /\ PathKept(Menu[fetch[r].q])
    BY DEF AsThePathSays
  <2> DEFINE q == Menu[fetch[r].q]
             m == fetch[r].member
             c == Configs[file]
  <2>1. /\ file \in DOMAIN Configs
        /\ fetch[r].q \in DOMAIN Menu /\ m \in Members
        /\ Asks(c, q) /\ m.place = PoolFor(c, q)
    BY DEF IInv, Typed, Asked
  <2>2. m.place \in Places(c)
    BY <2>1 DEF Members, MembersOf, members
  <2>3. RightRegion(q, m)
    BY <2>1, <2>2, HandedRight DEF RightRegion, Settings
  <2>4. Request(q)
    BY <2>1, GatewayAssumption
  <2>5. Path(q) => PathAccepted(q)
    BY <2>1, NotRefused DEF Asks
  <2> QED BY <2>3, <2>4, <2>5, AcceptedPathKept
<1> QED BY <1>1, <1>2, <1>3, GatewayInvariance, PTL DEF Spec

(* What reaches a member: a request by GET with the API key, to a gateway  *)
(* that serves queries, of a method that its mode does not withhold and    *)
(* with the fields of that method, the required ones among them.           *)
OnlyProperQueries ==
  \A r \in Slots : fetch[r] # NoTask =>
    LET q == Menu[fetch[r].q]
        c == Configs[file]
    IN  /\ q.key = "good" /\ q.get
        /\ mode(c) # "disabled" /\ permitted(mode(c), q.method)
        /\ required(q.method) \subseteq DOMAIN Given(q)
        /\ DOMAIN Given(q) \subseteq DOMAIN fields(q.method)

(* A member is asked nothing but proper queries, however requests arrive,  *)
(* leave and are answered (lib.rs, authenticate and the query handlers;    *)
(* path_routes.rs; query_params.rs).                                       *)
THEOREM OnlyProperQueriesAsk == Spec => []OnlyProperQueries
<1>1. Init => Asked /\ Entitled
  BY DEF Init, Asked, Entitled, Idle
<1>2. IInv /\ Asked /\ Entitled /\ [Next]_vars => Asked' /\ Entitled'
  BY AskedStep, EntitledStep
<1>3. Asked /\ Entitled => OnlyProperQueries
  <2> SUFFICES ASSUME Asked, Entitled, NEW r \in Slots, fetch[r] # NoTask
               PROVE  LET q == Menu[fetch[r].q]
                          c == Configs[file]
                      IN  /\ q.key = "good" /\ q.get
                          /\ mode(c) # "disabled" /\ permitted(mode(c), q.method)
                          /\ required(q.method) \subseteq DOMAIN Given(q)
                          /\ DOMAIN Given(q) \subseteq DOMAIN fields(q.method)
    BY DEF OnlyProperQueries
  <2> DEFINE q == Menu[fetch[r].q]
             c == Configs[file]
  <2>1. Asks(c, q) /\ q.key = "good"
    BY DEF Asked, Entitled
  <2>2. mode(c) # "disabled"
    BY <2>1 DEF Asks, Routed
  <2>3. q.get /\ permitted(mode(c), q.method) /\ parse(q.method, Given(q), q.legible)
    BY <2>1 DEF Asks, Refusal, status
  <2>4. /\ required(q.method) \subseteq DOMAIN Given(q)
        /\ DOMAIN Given(q) \subseteq DOMAIN fields(q.method)
    BY <2>3 DEF parse, validate
  <2> QED BY <2>1, <2>2, <2>3, <2>4
<1> QED BY <1>1, <1>2, <1>3, GatewayInvariance, PTL DEF Spec

(* How far a shutdown has come.                                            *)
Stage ==
  CASE main = "pollers" -> 1 [] main = "workers" -> 2 [] main = "closing" -> 3
    [] main = "exited" -> 4 [] OTHER -> 0

(* What ShutsDown rests on: from the signal on run() only goes forward,    *)
(* what it has waited for need not be waited for again, and once the       *)
(* listener is closed no request comes in.                                 *)
NothingComesBack ==
  Stopped =>
    /\ Stage' >= Stage
    /\ \A m \in Members : (PollerOver(m) => PollerOver(m)') /\ (Harmless(m) => Harmless(m)')
    /\ main = "closing" => \A r \in Slots : request[r] = Idle => request'[r] = Idle

(* No step of a process that shuts down undoes one before it (main.rs,     *)
(* managed.rs, managed/versions.rs).                                       *)
THEOREM ShutdownOnlyAdvances == Spec => [][NothingComesBack]_vars
<1>1. ASSUME IInv, [Next]_vars, Stopped
      PROVE  NothingComesBack
  <2> USE DEF Stopped
  <2>1. \A m \in Members : (PollerOver(m) => PollerOver(m)') /\ (Harmless(m) => Harmless(m)')
    BY <1>1, StoppedTasks
  <2>2. main' = main \/ WaitForPollers \/ WaitForWorkers \/ Exit
    BY <1>1 DEF Next, vars, Run, Start, WaitForPollers, wait_idle, WaitForWorkers, Exit, Terminate,
                Standing, Arrive, Handle, Client, Receive, Disconnect, Fetch, Reload, Work, Poll, Answered, Admit,
                Refuse, Query, Answer, Serving, Fetched, Screen, observed, Fetching, Send, Load,
                Install, Save, Saves, Fail, End, Working, Look, Called, Rest, Polling
  <2>3. Stage' >= Stage
    BY <2>2 DEF Stage, WaitForPollers, WaitForWorkers, Exit
  <2>4. ASSUME main = "closing", NEW r \in Slots, request[r] = Idle
        PROVE  request'[r] = Idle
    <3>1. \A p \in Slots, q \in DOMAIN Menu : ~Arrive(p, q)
      BY <2>4 DEF Arrive, Listening
    <3>2. ASSUME NEW p \in Slots, Handle(p) \/ Client(p)
          PROVE  p # r /\ \/ request' = [request EXCEPT ![p] = Idle]
                          \/ \E pc : request' = [request EXCEPT ![p].pc = pc]
      BY <2>4, <3>2 DEF Handle, Client, Receive, Disconnect, Answered, Admit, Refuse, Query, Answer, Leave, Idle
    <3>3. (\E p \in Slots : Handle(p) \/ Client(p)) \/ request' = request
      BY <1>1, <3>1 DEF Next, vars, Run, Start, WaitForPollers, wait_idle, WaitForWorkers, Exit, Terminate,
                Standing, Fetch, Reload, Work, Poll, Fetched, Screen, observed, Fetching, Send, Load,
                Install, Save, Saves, Fail, End, Working, Look, Called, Rest, Polling
    <3> QED BY <1>1, <2>4, <3>2, <3>3 DEF IInv, Typed
  <2> QED BY <2>1, <2>3, <2>4 DEF NothingComesBack
<1>2. IInv /\ [Next]_vars => [NothingComesBack]_vars
  BY <1>1 DEF NothingComesBack
<1> QED BY <1>2, GatewayInvariance, PTL DEF Spec

(***************************************************************************)
(* The members.                                                            *)
(***************************************************************************)
Unsaved == {"installed", "saving"}
SeenWorker(m) == IF worker[m] \in Unsaved THEN "unsaved" ELSE worker[m]

Member(m) == INSTANCE MemberTasks
               WITH phase <- phase[m], worker <- SeenWorker(m), calling <- (poll[m] = "calling")

(* A step that leaves the tasks of m alone is none of the member's.        *)
LEMMA OthersMember ==
  ASSUME NEW m, phase'[m] = phase[m], worker'[m] = worker[m],
         (poll'[m] = "calling") = (poll[m] = "calling")
  PROVE  UNCHANGED Member(m)!member
BY DEF Member!member, SeenWorker

(* A fetch that reports a refusal starts a worker where nobody owns the    *)
(* session (managed.rs, observed).                                         *)
LEMMA SpawnMember ==
  ASSUME IInv, NEW m \in Members, NEW r \in Slots, Fetch(r)
  PROVE  [Member(m)!NextMember]_(Member(m)!member)
<1> USE DEF IInv, Typed
<1>1. poll' = poll
  BY DEF Fetch, Fetched, Screen, observed
<1>2. CASE UNCHANGED <<worker, phase>>
  BY <1>1, <1>2, OthersMember
<1>3. CASE ~UNCHANGED <<worker, phase>>
  <2>1. PICK n : /\ phase[n] = "open" /\ poll[n] # "calling"
                 /\ worker' = [worker EXCEPT ![n] = "start"]
                 /\ phase' = [phase EXCEPT ![n] = "recovering"]
    BY <1>3 DEF Fetch, Fetched, Screen, observed
  <2>2. CASE n # m
    BY <1>1, <2>1, <2>2, OthersMember
  <2>3. CASE n = m
    <3>1. worker[m] = "none"
      BY <2>1, <2>3 DEF Recovering
    <3>2. worker'[m] = "start" /\ phase'[m] = "recovering"
      BY <2>1, <2>3
    <3>3. SeenWorker(m) = "none" /\ SeenWorker(m)' = "start"
      BY <3>1, <3>2 DEF SeenWorker, Unsaved
    <3> QED BY <1>1, <2>1, <2>3, <3>2, <3>3 DEF Member!NextMember, Member!Spawn
  <2> QED BY <2>2, <2>3
<1> QED BY <1>2, <1>3

(* A worker goes on and ends as its login did (managed.rs).                *)
LEMMA WorkMember ==
  ASSUME IInv, NEW m \in Members, NEW n \in Members, Work(n)
  PROVE  [Member(m)!NextMember]_(Member(m)!member)
<1> USE DEF IInv, Typed
<1>1. poll' = poll
  BY DEF Work, Send, Load, Install, Save, Saves, Fail, End, Working
<1>2. CASE n # m
  <2>1. worker'[m] = worker[m]
    BY <1>2 DEF Work, Send, Load, Install, Save, Saves, Fail, End, Goes
  <2>2. phase'[m] = phase[m]
    BY <1>2 DEF Work, Send, Load, Install, Save, Saves, Fail, End
  <2> QED BY <1>1, <2>1, <2>2, OthersMember
<1>3. CASE n = m /\ End(n)
  <2>1. PICK p \in {"open", "persistence_failed"} :
          /\ worker[m] = "saved" => p = "open"
          /\ worker[m] = "lost" => p = "persistence_failed"
          /\ phase' = [phase EXCEPT ![m] = p]
    BY <1>3 DEF End
  <2>2. /\ worker[m] \in {"saved", "lost", "failed"}
        /\ worker'[m] = "none" /\ phase'[m] = p
    BY <1>3, <2>1 DEF End
  <2>3. SeenWorker(m) = worker[m] /\ SeenWorker(m)' = "none"
    BY <2>2 DEF SeenWorker, Unsaved
  <2>4. Member(m)!End(p)
    BY <1>1, <2>1, <2>2, <2>3 DEF Member!End
  <2> QED BY <2>4 DEF Member!NextMember
<1>4. CASE n = m /\ ~End(n)
  <2>1. phase' = phase
    BY <1>4 DEF Work, Send, Load, Install, Save, Saves, Fail
  <2>2. \/ worker[m] = "start" /\ worker'[m] \in {"sent", "saved", "failed"}
        \/ worker[m] = "sent" /\ worker'[m] \in {"installed", "failed"}
        \/ worker[m] = "installed" /\ worker'[m] \in {"saving", "lost"}
        \/ worker[m] = "saving" /\ worker'[m] \in {"saved", "lost"}
    BY <1>4 DEF Work, Send, Load, Install, Save, Saves, Fail, Goes
  <2>3. \/ SeenWorker(m) = "start" /\ SeenWorker(m)' \in {"sent", "saved", "failed"}
        \/ SeenWorker(m) = "sent" /\ SeenWorker(m)' \in {"unsaved", "failed"}
        \/ SeenWorker(m) = "unsaved" /\ SeenWorker(m)' \in {"unsaved", "saved", "lost"}
    BY <2>2 DEF SeenWorker, Unsaved
  <2> QED BY <1>1, <2>1, <2>3 DEF Member!NextMember, Member!Works, Member!Goes, Member!member
<1> QED BY <1>2, <1>3, <1>4

(* The poller calls for an open member only, and a reload takes turns with *)
(* both tasks (managed/versions.rs; managed.rs, reload).                   *)
LEMMA PollMember ==
  ASSUME IInv, NEW m \in Members, NEW n \in Members, Poll(n) \/ Reload(n)
  PROVE  [Member(m)!NextMember]_(Member(m)!member)
<1> USE DEF IInv, Typed
<1>1. CASE Poll(n)
  <2>1. worker' = worker /\ phase' = phase /\ SeenWorker(m)' = SeenWorker(m)
    BY <1>1 DEF Poll, Look, Called, Rest, Polling, SeenWorker
  <2>2. CASE n # m
    <3>1. poll'[m] = poll[m]
      BY <1>1, <2>2 DEF Poll, Look, Called, Rest, Turns
    <3> QED BY <2>1, <3>1, OthersMember
  <2>3. CASE n = m
    <3>1. \/ phase[m] = "open" /\ poll[m] # "calling" /\ poll'[m] = "calling"
          \/ poll[m] = "calling" /\ poll'[m] # "calling"
          \/ poll[m] # "calling" /\ poll'[m] # "calling"
      BY <1>1, <2>3 DEF Poll, Look, Called, Rest, Turns
    <3> QED BY <2>1, <3>1
            DEF Member!NextMember, Member!Call, Member!Answer, Member!member
  <2> QED BY <2>2, <2>3
<1>2. CASE Reload(n)
  <2>1. worker' = worker /\ poll' = poll /\ SeenWorker(m)' = SeenWorker(m)
    BY <1>2 DEF Reload, SeenWorker
  <2>2. CASE n # m
    BY <1>2, <2>1, <2>2, OthersMember DEF Reload
  <2>3. CASE n = m
    BY <1>2, <2>1, <2>3 DEF Reload, Member!NextMember, Member!Reload
  <2> QED BY <2>2, <2>3
<1> QED BY <1>1, <1>2

(* What Gateway composes: each of its members is one whose tasks step as   *)
(* ManagedClient's do (MemberTasks, managed.rs), and no request, shutdown  *)
(* or other member makes it do anything else.                              *)
THEOREM MembersImplement ==
  ASSUME NEW CONSTANT m
  PROVE  Spec /\ m \in Members => Member(m)!SpecMember
<1>1. Init /\ m \in Members => Member(m)!InitMember
  BY DEF Init, Member!InitMember, SeenWorker, Unsaved
<1>2. ASSUME IInv, m \in Members, [Next]_vars
      PROVE  (m \in Members)' /\ [Member(m)!NextMember]_(Member(m)!member)
  <2>0. (m \in Members)'
    BY <1>2, FileStays
  <2>1. CASE UNCHANGED <<worker, poll, phase>>
    BY <1>2, <2>0, <2>1, OthersMember
  <2>2. CASE Start
    <3>1. UNCHANGED <<worker, phase>> /\ poll[m] # "calling" /\ poll'[m] # "calling"
      <4>1. main = "starting" /\ UNCHANGED <<worker, phase>>
        BY <2>2 DEF Start
      <4>2. poll[m] = "off"
        BY <1>2, <4>1 DEF IInv, Up
      <4>3. poll'[m] \in {"top", "off"}
        BY <1>2, <2>2, <4>2 DEF Start
      <4> QED BY <4>1, <4>2, <4>3
    <3> QED BY <1>2, <2>0, <3>1, OthersMember
  <2>3. CASE (Run \/ Terminate) /\ ~Start
    BY <2>1, <2>3 DEF Run, WaitForPollers, wait_idle, WaitForWorkers, Exit, Terminate, Standing, tasks
  <2>4. ASSUME NEW r \in Slots,
               (\E q \in DOMAIN Menu : Arrive(r, q)) \/ Handle(r) \/ Client(r)
        PROVE  UNCHANGED <<worker, poll, phase>>
    BY <2>4 DEF Arrive, Handle, Client, Receive, Disconnect, Answered, Admit, Refuse, Query, Answer, Serving
  <2>5. CASE UNCHANGED vars
    BY <2>1, <2>5 DEF vars, tasks
  <2> QED BY <1>2, <2>0, <2>1, <2>2, <2>3, <2>4, <2>5, SpawnMember, WorkMember, PollMember DEF Next
<1> QED BY <1>1, <1>2, GatewayInvariance, PTL DEF Spec, Member!SpecMember
=============================================================================

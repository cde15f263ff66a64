------------------------------ MODULE Requests ------------------------------
(* What the gateway reads in an HTTP request: the route, the region, the     *)
(* query parameters and the response policy (server/src/path_routes.rs,      *)
(* query_params.rs, projection.rs, the handlers of lib.rs, Region in         *)
(* regions.rs and Query in client/src/query.rs). Four methods stand for the  *)
(* fifteen: profile infers its region, event-ranking has a list,             *)
(* circle-search a text, and circle-recommendations is withheld.             *)
EXTENDS Naturals, Sequences, Startup

CONSTANT MaxList   \* how many values a list may have, 100 in the code

Methods == {"profile", "event-ranking", "circle-search", "circle-recommendations"}

\* Values: 11-digit profile ids by their first digit, other positive numbers,
\* zero, and texts that are not numbers.
ProfileIds == {"2.id", "3.id", "4.id", "9.id"}
Values  == ProfileIds \cup {"number", "zero", "text", ""}
Numbers == ProfileIds \cup {"number", "zero"}

Field == [kind : {"number", "text"}, list : BOOLEAN]
fields(method) ==
  CASE method = "profile" -> [playerProfileId |-> [kind |-> "number", list |-> FALSE]]
    [] method = "event-ranking" -> [eventId |-> [kind |-> "number", list |-> FALSE],
                                    ranks |-> [kind |-> "number", list |-> TRUE]]
    [] method = "circle-search" -> [name |-> [kind |-> "text", list |-> FALSE]]
    [] OTHER -> [f \in {} |-> [kind |-> "text", list |-> FALSE]]
required(method) ==
  CASE method = "profile" -> {"playerProfileId"}
    [] method = "event-ranking" -> {"eventId", "ranks"}
    [] OTHER -> {}

\* A query string is a function from its keys to the values written for each,
\* in order and at least one.
Raw(given) == \A key \in DOMAIN given : given[key] \in Seq(Values) /\ given[key] # <<>>
scalar(kind, v) == kind = "text" \/ v \in Numbers
insert(field, vs) == field.list \/ Len(vs) = 1

\* Query::validate: every number positive, a list not too long.
validate(method, given) ==
  /\ required(method) \subseteq DOMAIN given
  /\ \A key \in DOMAIN given :
       /\ Len(given[key]) <= MaxList
       /\ \A i \in DOMAIN given[key] :
            fields(method)[key].kind = "number" => given[key][i] # "zero"

\* query_params::parse, with Query::from_json: the query string is the query,
\* or it is refused.
parse(method, given, legible) ==
  /\ legible
  /\ DOMAIN given \subseteq DOMAIN fields(method)
  /\ \A key \in DOMAIN given :
       /\ insert(fields(method)[key], given[key])
       /\ \A i \in DOMAIN given[key] : scalar(fields(method)[key].kind, given[key][i])
  /\ validate(method, given)

-----------------------------------------------------------------------------
(* Routes. The path form names some fields in the path, the query form none; *)
(* either may be under an explicit region. The head of a request announces a *)
(* body or "none"; one that is announced may turn out to be "empty".         *)
Request(q) ==
  /\ q.key \in {"good", "bad"} /\ q.get \in BOOLEAN /\ q.legible \in BOOLEAN
  /\ q.body \in {"none", "empty", "content"}
  /\ q.form \in {"path", "query", "support", "health", "unknown"}
  /\ q.region \in Regions \cup {"none"} /\ q.method \in Methods
  /\ Raw(q.path) /\ Raw(q.raw)
Path(q) == q.form = "path"
\* method_for_path: the path form exists for the methods with path fields.
method_for_path(q) == Path(q) => q.method # "circle-recommendations"

\* path_query: the values in the path and then those in the query string. A
\* key of the path may not come again, and no value may be empty.
PathKeys(q) == DOMAIN q.path
path_query(q) ==
  [key \in PathKeys(q) \cup DOMAIN q.raw |->
     (IF key \in PathKeys(q) THEN q.path[key] ELSE <<>>) \o
     (IF key \in DOMAIN q.raw THEN q.raw[key] ELSE <<>>)]
PathWellFormed(q) ==
  \A key \in PathKeys(q) :
    /\ Len(q.path[key]) <= MaxList
    /\ \A i \in DOMAIN q.path[key] : q.path[key][i] # ""
PathAccepted(q) == PathWellFormed(q) /\ PathKeys(q) \cap DOMAIN q.raw = {}

Given(q) == IF Path(q) THEN path_query(q) ELSE q.raw

from_profile_id(id) ==
  CASE id = "2.id" -> "tw" [] id = "3.id" -> "en" [] id = "4.id" -> "kr"
    [] id = "9.id" -> "unsupported"
    [] OTHER -> "invalid"
Profile(q) == Path(q) /\ q.method = "profile"
Id(q) == q.path.playerProfileId[1]

\* The region a request is for; "none" is the default one. A profile path
\* carries its own, which an explicit region may not contradict. JP ids do not.
RegionOf(q) ==
  IF Profile(q) /\ q.region # "jp" THEN from_profile_id(Id(q)) ELSE q.region
RegionAccepted(q) ==
  Profile(q) =>
    IF q.region = "jp" THEN Id(q) \in Numbers \ {"zero"}
    ELSE /\ RegionOf(q) \in Regions
         /\ q.region \in {"none", RegionOf(q)}

-----------------------------------------------------------------------------
(* Policy.                                                                   *)
permitted(m, method) == m # "public" \/ method # "circle-recommendations"

\* HttpError: the status of a failure.
status(kind) ==
  CASE kind = "invalid_request" -> 400
    [] kind = "queue_full" -> 429
    [] kind = "timeout" -> 504
    [] kind \in {"authentication", "authentication_required", "version", "maintenance",
                 "device_conflict", "session_changed", "cancelled"} -> 503
    [] OTHER -> 502

\* Which requests a route takes: none but the supporting ones in disabled mode.
Routed(c, q) ==
  CASE q.form \in {"support", "health"} -> TRUE
    [] q.form = "unknown" -> FALSE
    [] OTHER -> mode(c) # "disabled" /\ method_for_path(q)

\* Whether a handler has to wait for its client, to see that the body is empty.
AwaitsBody(q) == q.get /\ q.form \in {"path", "query"} /\ q.body # "none"

\* What a handler answers before it asks a pool, 0 when it does ask one.
Refusal(c, q) ==
  IF ~q.get THEN 405
  ELSE IF q.body = "content" \/ (Path(q) /\ ~(PathAccepted(q) /\ RegionAccepted(q)))
  THEN status("invalid_request")
  ELSE IF ~permitted(mode(c), q.method) THEN 403
  ELSE IF ~parse(q.method, Given(q), q.legible) THEN status("invalid_request")
  ELSE IF RegionOf(q) # "none" /\ ~Configured(c, RegionOf(q)) THEN 503
  ELSE 0

\* The pool a request is handed to.
PoolFor(c, q) == IF RegionOf(q) = "none" THEN "own" ELSE PoolOf(c, RegionOf(q))
=============================================================================

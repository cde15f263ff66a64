------------------------------ MODULE Startup ------------------------------
(* What `serve` makes of a configuration and of the files it points to:      *)
(* refuse it, serve health only, or bring up one member per session          *)
(* (server/src/startup.rs, config.rs, config_file.rs, regions.rs, the        *)
(* constructors of runtime.rs, and SessionConfig of client/src/session.rs).  *)
(* Nothing here waits or asks the network, so these are operators; Gateway   *)
(* is the process. Texts are reduced to what the checks tell apart.          *)
EXTENDS Naturals, FiniteSets
Sdk == INSTANCE SdkHttp

\* The files the process sees: real is the canonical path of every path that
\* exists; dirs are directories and readable are regular files, both named
\* without a final link and without group or other permission bits; holds says
\* what a readable credentials or state file is for; accounts lists the files
\* of an account directory.
CONSTANTS Disk, MaxSessions

ASSUME DiskAssumption ==
  /\ Disk.dirs \cup Disk.readable \subseteq DOMAIN Disk.real
  /\ MaxSessions \in Nat \ {0}

Blank   == "blank"             \* a required text left out or left empty
None    == "none"              \* an optional text left out
Nothing == [is |-> "absent"]   \* a table that is not in the file
exists(path) == path \in DOMAIN Disk.real
private_dir(path) == path \in Disk.dirs
private_read(path) == path \in Disk.readable

-----------------------------------------------------------------------------
(* Regions and sessions.                                                     *)
Regions == {"tw", "en", "kr", "jp"}
from_session(name) ==
  CASE name \in {"hk", "tw", "hk-tw-mo"} -> "tw"
    [] name \in {"en", "kr", "jp"} -> name
    [] OTHER -> "none"

\* An origin is a host and a way to write it: with nothing after it, with a
\* slash, with the default port spelled out, or not as an origin at all.
origin(o) == o.form \in {"bare", "slash", "port"}
SameOrigin(a, b) == origin(a) /\ origin(b) /\ a.host = b.host
Spelled(o) == [o EXCEPT !.form = IF @ = "slash" THEN "bare" ELSE @]

Versions(s) ==
  IF s.region = "jp"
  THEN /\ s.platform = "android"
       /\ s.resource # None => s.master # None
       /\ s.master # "malformed"
  ELSE (s.master = None) = (s.resource = None)

\* SessionConfig::validate. Values that no header can carry are "unsendable".
metadata(s) == "unsendable" \notin {s.platform, s.client_version}
ValidSession(s) ==
  /\ origin(s.origin)
  /\ Blank \notin {s.region, s.platform, s.client_version}
  /\ \E a \in s.allowed_origins : SameOrigin(a, s.origin)
  /\ Versions(s)
  /\ metadata(s)

\* StaticCredentials: a file that can be used, and what it holds for a session.
from_file(path) == private_read(path) /\ path \in DOMAIN Disk.holds
Provides(path, s) ==
  /\ Disk.holds[path].region = s.region
  /\ SameOrigin(Disk.holds[path].origin, s.origin)
  /\ Disk.holds[path].complete
  /\ ~(s.region = "jp" /\ Disk.holds[path].bid)

-----------------------------------------------------------------------------
(* The sections of one region: session, credentials_file, login, accounts,   *)
(* recovery, version_sync. A login names its context and its SDK settings    *)
(* inline or in a file. interval says that the poll interval is within its   *)
(* limits, bounded that every other number is.                               *)
Section(r) ==
  DOMAIN r = {"session", "credentials", "login", "accounts", "recovery", "sync", "interval",
               "bounded"}

OneSource(source)  == source.is \in {"inline", "file"}
AtMostOne(source)  == source.is # "both"
validate_sources(l) ==
  /\ OneSource(l.context) /\ AtMostOne(l.sdk)
  /\ l.sdk.is = "file" => l.sdk.path # Blank
  /\ l.state_dir # Blank
has_sdk_http(l) == l.sdk.is \in {"inline", "file"}

sdk_client(l) ==
  /\ l.sdk.is = "file" => private_read(l.sdk.path)
  /\ Sdk!client(l.sdk.settings)
context(l) ==
  /\ validate_sources(l)
  /\ l.context.is = "file" => private_read(l.context.path)
  /\ l.context.given

\* LoginConfig::validate, pointer, credentials and approved_sdk.
ValidLogin(l, s) ==
  /\ private_dir(l.state_dir) /\ context(l) /\ ValidSession(s)
  /\ has_sdk_http(l) => sdk_client(l)
Saved(l) == l.state_dir \in DOMAIN Disk.holds
pointer(l, s) ==
  /\ Disk.holds[l.state_dir].region = s.region
  /\ Disk.holds[l.state_dir].origin = s.origin
credentials(l, s) == Saved(l) => pointer(l, s) /\ Provides(l.state_dir, s)
approved_sdk(l, s) == pointer(l, s) /\ Disk.holds[l.state_dir].sdk

valid_name(name) == name \notin {"hidden", "nested", "other_type"}
ValidAccounts(a) ==
  /\ a.directory # Blank
  /\ a.selected # None => valid_name(a.selected)
  /\ ~(a.strategy = "round_robin" /\ a.selected # None)
file_list(a) ==
  IF ~exists(a.directory) THEN {}
  ELSE IF a.selected # None THEN {a.selected} \cap Disk.accounts[a.directory]
  ELSE {f \in Disk.accounts[a.directory] : valid_name(f)}

\* A relation between two sections of one region, as validate_and_resolve has
\* it; paths are absolute once it is done.
Consistent(r) ==
  /\ r.bounded /\ r.interval
  /\ r.recovery => r.login # Nothing
  /\ r.login # Nothing \/ r.accounts # Nothing => r.credentials = None
  /\ IF r.session.region = "jp" THEN r.login = Nothing /\ ~r.recovery
     ELSE r.accounts # Nothing => r.login # Nothing /\ has_sdk_http(r.login)
DefaultDirectory(r) ==
  IF r.accounts # Nothing /\ r.session.region = "jp" /\ r.accounts.directory = "international"
  THEN [r EXCEPT !.accounts.directory = "jp"] ELSE r
validate_and_resolve(r) ==
  /\ Consistent(r)
  /\ ValidSession(r.session)
  /\ r.login # Nothing => validate_sources(r.login)
  /\ r.accounts # Nothing =>
       /\ r.accounts.strategy = "round_robin" => from_session(r.session.region) # "none"
       /\ ValidAccounts(DefaultDirectory(r).accounts)

-----------------------------------------------------------------------------
(* The whole file: own is the default region's sections, regions the others. *)
mode(c) == IF c.response_mode # None THEN c.response_mode
           ELSE IF c.experimental_raw THEN "raw" ELSE "public"

validate_api_key(key) == key = "good"
\* The key's file is opened and then looked at, so a link to it will do.
opened(path) == exists(path) /\ Disk.real[path] \in Disk.readable
read_api_key(c) ==
  /\ c.api_key.is \in {"inline", "file"}
  /\ c.api_key.is = "file" => opened(c.api_key.path)
  /\ validate_api_key(c.api_key.value)

Inline(r) == r.login # Nothing /\ (r.login.context.is = "inline" \/ r.login.sdk.is = "inline")
Exclusive(r) == r.login # Nothing => AtMostOne(r.login.context) /\ AtMostOne(r.login.sdk)
has_inline(c) ==
  \/ c.api_key.is = "inline" /\ c.api_key.value # Blank
  \/ Inline(c.own)
  \/ \E name \in DOMAIN c.regions : Inline(c.regions[name])
check_inline_permissions(c) ==
  /\ \A name \in DOMAIN c.regions : Exclusive(c.regions[name])
  /\ has_inline(c) => c.private

\* Two ways to write one directory. What does not exist yet has only its text.
Lexical(path) == path
state_identity(path) == IF exists(path) THEN Disk.real[path] ELSE path

Sections(c) == {c.own} \cup {c.regions[name] : name \in DOMAIN c.regions}
Places(c) == {"own"} \cup DOMAIN c.regions
At(c, place) == IF place = "own" THEN c.own ELSE c.regions[place]
for_region(c, place) == DefaultDirectory(At(c, place))

DistinctRegions(c) ==
  \A name \in DOMAIN c.regions :
    /\ from_session(c.own.session.region) # name
    /\ from_session(c.regions[name].session.region) = name
DistinctOrigins(c) ==
  \A p, q \in Places(c) :
    p # q => Spelled(At(c, p).session.origin) # Spelled(At(c, q).session.origin)
DistinctStates(c) ==
  \A p, q \in Places(c) :
    p # q /\ At(c, p).login # Nothing /\ At(c, q).login # Nothing
    => state_identity(At(c, p).login.state_dir) # state_identity(At(c, q).login.state_dir)

from_text(c) ==
  /\ c.typed /\ c.api_key.is \in {"inline", "file"}
  /\ ~(c.experimental_raw /\ c.response_mode \notin {None, "raw"})
  /\ Exclusive(c.own) /\ check_inline_permissions(c)
  /\ \A r \in Sections(c) : validate_and_resolve(r)
  /\ DistinctRegions(c) /\ DistinctOrigins(c) /\ DistinctStates(c)

-----------------------------------------------------------------------------
(* inspect: what is only missing leaves the process serving health; what is  *)
(* there and wrong ends it. It looks at the default region's sections alone. *)
NotThere(path) == path = Blank \/ ~exists(path)
SourceMissing(source) == source.is = "absent" \/ (source.is = "file" /\ NotThere(source.path))

KeyMissing(k) == k.is = "absent" \/ k.value = Blank \/ (k.is = "file" /\ NotThere(k.path))
KeyWrong(k) ==
  \/ k.is = "both"
  \/ k.is = "file" /\ ~NotThere(k.path) /\ ~opened(k.path)
  \/ ~KeyMissing(k) /\ ~validate_api_key(k.value)

SessionMissing(s) ==
  \/ Blank \in {s.region, s.platform, s.client_version, s.origin.form}
  \/ \A a \in s.allowed_origins : a.form = Blank

SdkIncomplete(settings) ==
  \/ settings.base_url = Blank \/ settings.app_key = "none"
  \/ ~settings.country \/ settings.allowed = {}
  \/ ~(Sdk!CommonFields \subseteq settings.given \cup settings.omit)
SdkWrong(settings) ==
  \/ settings.given \cap settings.omit # {}
  \/ ~(settings.given \cup settings.omit \subseteq Sdk!CommonFields)

LoginMissing(r) ==
  \/ /\ r.accounts # Nothing /\ r.session.region # "jp"
     /\ r.login = Nothing \/ r.login.sdk.is = "absent"
  \/ /\ r.login # Nothing
     /\ \/ SourceMissing(r.login.context) \/ NotThere(r.login.state_dir)
        \/ r.login.context.is = "inline" /\ ~r.login.context.given
        \/ r.login.sdk.is = "inline" /\ SdkIncomplete(r.login.sdk.settings)
        \/ r.login.sdk.is = "file" /\ NotThere(r.login.sdk.path)

Wrong(c) ==
  \/ ~c.typed \/ ~Exclusive(c.own) \/ ~check_inline_permissions(c) \/ KeyWrong(c.api_key)
  \/ ~c.own.interval
  \/ c.own.login # Nothing /\ c.own.login.sdk.is = "inline" /\ SdkWrong(c.own.login.sdk.settings)
Missing(c) ==
  \/ KeyMissing(c.api_key) \/ SessionMissing(c.own.session) \/ LoginMissing(c.own)
  \/ c.own.credentials # None /\ NotThere(c.own.credentials)

\* An absent file reads as an empty one; serve writes a template there first,
\* whose values are blank, and never over anything.
create(c) == IF c.file = "absent" THEN "template" ELSE c.file
inspect(c) ==
  CASE create(c) = "template" -> "health_only"
    [] create(c) = "unreadable" -> "refused"
    [] OTHER -> IF Wrong(c) THEN "refused"
                ELSE IF Missing(c) THEN "health_only"
                ELSE IF from_text(c) THEN "configured" ELSE "refused"

-----------------------------------------------------------------------------
(* The members: one per file of a rotating account directory, one for any    *)
(* other region. Each is checked locally, and none is asked for a secret.    *)
Rotates(r) == r.accounts # Nothing /\ r.accounts.strategy = "round_robin"
for_accounts(r) == IF Rotates(r) THEN file_list(r.accounts) ELSE {None}
Listed(r) ==
  Rotates(r) =>
    /\ exists(r.accounts.directory) => private_dir(r.accounts.directory)
    /\ Cardinality(file_list(r.accounts)) <= MaxSessions

members(c) ==
  UNION {{[place |-> p, account |-> f] : f \in for_accounts(for_region(c, p))} : p \in Places(c)}

\* Runtime::new, the same for every account of a region.
Runtime(r) ==
  /\ r.login # Nothing => ValidLogin(r.login, r.session)
  /\ r.accounts = Nothing =>
       IF r.login # Nothing
       THEN /\ credentials(r.login, r.session)
            /\ r.recovery /\ Saved(r.login) => approved_sdk(r.login, r.session)
       ELSE r.credentials # None => from_file(r.credentials) /\ Provides(r.credentials, r.session)
  /\ ValidSession(r.session)

\* Every region has one pool; the default one is that of the own sections.
RegionAt(c, p) == from_session(At(c, p).session.region)
with_pools(c) ==
  \A p, q \in Places(c) : p # q => RegionAt(c, p) # RegionAt(c, q)
PoolOf(c, region) == CHOOSE p \in Places(c) : RegionAt(c, p) = region
Configured(c, region) == \E p \in Places(c) : RegionAt(c, p) = region

comes_up(c) ==
  /\ \A p \in Places(c) : Listed(for_region(c, p))
  /\ \A m \in members(c) : Runtime(for_region(c, m.place))
  /\ with_pools(c) /\ read_api_key(c)

\* What the process becomes, unless it cannot listen.
Outcome(c) ==
  IF inspect(c) # "configured" THEN inspect(c)
  ELSE IF comes_up(c) THEN "serving" ELSE "refused"
=============================================================================

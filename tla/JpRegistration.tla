--------------------------- MODULE JpRegistration ---------------------------
(* The JP account directory: the operator's jp-register command, which has   *)
(* the game create an account, jp-import-registration, which makes good a    *)
(* registration that was answered but not saved, the operator's own files,   *)
(* and the server's loader that imports what it finds                        *)
(* (server/src/jp_operator.rs, client/src/jp.rs, JpAccountDirectoryClient in *)
(* server/src/accounts.rs).                                                  *)
(*                                                                           *)
(* Commands are processes of their own and may run at the same time, crash   *)
(* and fail at any step; nothing locks the directory. A finished file        *)
(* operation survives a crash of the process.                                *)
EXTENDS Naturals, SecretFiles

CONSTANTS Names,     \* account file names the operator gives
          Commands,  \* command processes, at most one run of each
          Own        \* an account the operator has had before

ASSUME ConstantsAssumption == Own \notin Commands

Accounts == Commands \cup {Own}   \* the account a command registers bears its name
Nobody == [account |-> Own, valid |-> FALSE]
Text == [account : Accounts, valid : BOOLEAN]
Missing == Entry("none", FALSE, FALSE, Nobody)

VARIABLES
  dir,         \* the account directory itself
  attempted,   \* registration.attempt exists
  response,    \* per name: the file NAME.response
  credential,  \* per name: the file NAME.json
  step,        \* per command: where it is
  name,        \* per command: the name it was given
  requests,    \* per command: how often it has sent the registration request
  session      \* the server's session: an account, or "anonymous"

vars == <<dir, attempted, response, credential, step, name, requests, session>>

Steps == {"new", "versions", "marker", "request", "sent", "credential", "over"}

\* A command sends its request once and for all: jp.rs tells its caller never
\* to retry an ambiguous failure.
TypeOK ==
  /\ dir \in [kind : {"dir", "link"}, private : BOOLEAN]
  /\ attempted \in BOOLEAN
  /\ response \in [Names -> File(Text)]
  /\ credential \in [Names -> File(Text)]
  /\ step \in [Commands -> Steps]
  /\ name \in [Commands -> Names]
  /\ requests \in [Commands -> 0..1]
  /\ session \in Accounts \cup {"anonymous"}

Init ==
  /\ dir \in [kind : {"dir", "link"}, private : BOOLEAN]
  /\ attempted = FALSE
  /\ response = [n \in Names |-> Missing]
  /\ credential = [n \in Names |-> Missing]
  /\ step = [c \in Commands |-> "new"]
  /\ name \in [Commands -> Names]
  /\ requests = [c \in Commands |-> 0]
  /\ session = "anonymous"

Goto(c, s) == step' = [step EXCEPT ![c] = s]

-----------------------------------------------------------------------------
(* jp-register, for a JP configuration without [login] and a plain name.     *)

Empty == ~attempted /\ \A n \in Names : response[n] = Missing /\ credential[n] = Missing

\* The directory must hold nothing, not even a marker of an attempt before;
\* then the versions are asked for, which takes a while.
Register(c) ==
  /\ step[c] = "new" /\ private_dir(dir) /\ Empty
  /\ Goto(c, "versions")
  /\ UNCHANGED <<dir, attempted, response, credential, name, requests, session>>

Versions(c) ==
  /\ step[c] = "versions"
  /\ Goto(c, "marker")
  /\ UNCHANGED <<dir, attempted, response, credential, name, requests, session>>

\* A slip the runs catch: the marker is opened, not made anew.
MarkAgain(c) ==
  /\ step[c] = "marker"
  /\ attempted' = TRUE
  /\ Goto(c, "request")
  /\ UNCHANGED <<dir, response, credential, name, requests, session>>

\* The marker is made by create_new: of two commands that found the directory
\* empty, one goes on.
Mark(c) ==
  /\ step[c] = "marker" /\ ~attempted
  /\ attempted' = TRUE
  /\ Goto(c, "request")
  /\ UNCHANGED <<dir, response, credential, name, requests, session>>

\* register_jp() of a client without credentials: both targets are still free;
\* the one request is sent.
Request(c) ==
  /\ step[c] = "request"
  /\ check_new(dir, credential[name[c]]) /\ check_new(dir, response[name[c]])
  /\ requests' = [requests EXCEPT ![c] = @ + 1]
  /\ Goto(c, "sent")
  /\ UNCHANGED <<dir, attempted, response, credential, name, session>>

\* A slip the runs catch: only an answer that cannot be used is kept.
ReplyIfInvalid(c) ==
  /\ step[c] = "sent" /\ check_new(dir, response[name[c]])
  /\ \E valid \in BOOLEAN :
       /\ response' = IF valid THEN response ELSE [response EXCEPT ![name[c]] =
            create(dir, @, [account |-> c, valid |-> valid])]
       /\ Goto(c, IF valid THEN "credential" ELSE "over")
  /\ UNCHANGED <<dir, attempted, credential, name, requests, session>>

\* The game has created the account; its answer is kept as it came, before it
\* is looked at.
Reply(c) ==
  /\ step[c] = "sent" /\ check_new(dir, response[name[c]])
  /\ \E valid \in BOOLEAN :
       /\ response' = [response EXCEPT ![name[c]] =
            create(dir, @, [account |-> c, valid |-> valid])]
       /\ Goto(c, IF valid THEN "credential" ELSE "over")
  /\ UNCHANGED <<dir, attempted, credential, name, requests, session>>

\* The credentials are saved, never over a file that appeared meanwhile; the
\* session is then installed in the command's own client, which exits.
Save(c) ==
  /\ step[c] = "credential"
  /\ credential' = [credential EXCEPT ![name[c]] =
       create(dir, @, [account |-> c, valid |-> TRUE])]
  /\ Goto(c, "over")
  /\ UNCHANGED <<dir, attempted, response, name, requests, session>>

\* A slip the runs catch: a request whose answer was lost is sent again.
RetryLost(c) ==
  /\ step[c] \notin {"new", "over"}
  /\ Goto(c, IF step[c] = "sent" THEN "request" ELSE "over")
  /\ UNCHANGED <<dir, attempted, response, credential, name, requests, session>>

\* An error, a deadline, a full disk or a crash ends the command anywhere. A
\* request already sent may have been carried out, and is not sent again.
Fail(c) ==
  /\ step[c] \notin {"new", "over"}
  /\ Goto(c, "over")
  /\ UNCHANGED <<dir, attempted, response, credential, name, requests, session>>

-----------------------------------------------------------------------------
(* jp-import-registration, the operator's own files, and the server.         *)

\* What can be read in a file and serve as credentials of this origin.
from_json(f) == private_read(f) /\ f.text.valid

\* A slip the runs catch: an import is refused like a registration once one was attempted.
ImportUnattempted(n) ==
  /\ private_dir(dir) /\ ~attempted
  /\ Readable(response[n]) /\ response[n].text.valid
  /\ credential[n].kind = "none"
  /\ credential' = [credential EXCEPT ![n] = create(dir, @, response[n].text)]
  /\ UNCHANGED <<dir, attempted, response, step, name, requests, session>>

\* Needs the retained answer and writes a new file, without any request.
Import(n) ==
  /\ private_dir(dir)
  /\ Readable(response[n]) /\ response[n].text.valid
  /\ credential[n].kind = "none"
  /\ credential' = [credential EXCEPT ![n] = create(dir, @, response[n].text)]
  /\ UNCHANGED <<dir, attempted, response, step, name, requests, session>>

\* The operator puts an account of their own into the directory.
Place(n) ==
  /\ credential[n].kind = "none"
  /\ \E kind \in {"file", "link"}, private, valid \in BOOLEAN :
       credential' = [credential EXCEPT ![n] =
         Entry(kind, private, TRUE, [account |-> Own, valid |-> valid])]
  /\ UNCHANGED <<dir, attempted, response, step, name, requests, session>>

\* JpAccountDirectoryClient::provider(): the one account file there is.
provider(n) ==
  /\ private_dir(dir)
  /\ \A m \in Names : credential[m].kind # "none" <=> m = n
  /\ from_json(credential[n])

\* The server's recovery of a session without credentials, and its reload.
Recover ==
  /\ session = "anonymous"
  /\ \E n \in Names : provider(n) /\ session' = credential[n].text.account
  /\ UNCHANGED <<dir, attempted, response, credential, step, name, requests>>

Reload ==
  /\ session' = "anonymous"
  /\ UNCHANGED <<dir, attempted, response, credential, step, name, requests>>

Advance(c) ==
  Register(c) \/ Versions(c) \/ Mark(c) \/ Request(c) \/ Reply(c) \/ Save(c) \/ Fail(c)

Next ==
  \/ \E c \in Commands : Advance(c)
  \/ \E n \in Names : Import(n) \/ Place(n)
  \/ Recover \/ Reload

\* The operator imports an answer that was kept but not saved.
Fairness == \A n \in Names : WF_vars(Import(n))

Spec == Init /\ [][Next]_vars
FairSpec == Spec /\ Fairness

-----------------------------------------------------------------------------
(* Properties.                                                               *)

\* However many commands find the directory empty, at most one registration is
\* ever requested for it: the marker is made, and only by one, before the
\* request, and stays after a lost answer, a failed write or a crash.
OneRequest ==
  \A c \in Commands : requests[c] > 0 =>
    requests[c] = 1 /\ \A d \in Commands \ {c} : requests[d] = 0

\* Credentials that registration leaves behind have the answer they came in
\* beside them, whoever wrote them: a command that fails or crashes between
\* its two writes has kept what it needs.
AnswerKeptFirst ==
  \A n \in Names : credential[n].text.account \in Commands =>
    response[n].text = credential[n].text

\* An account file is never replaced, also when the operator puts it there
\* while a registration under the same name is out.
NeverOverwritten ==
  [][\A n \in Names : credential[n] # Missing => credential'[n] = credential[n]]_vars

\* A valid answer that was kept becomes credentials unless the name is taken,
\* whatever happened to the command that received it.
AnswerSaved ==
  \A n \in Names :
    response[n].kind = "file" /\ response[n].text.valid ~> credential[n].kind # "none"
=============================================================================

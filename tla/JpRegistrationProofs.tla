------------------------ MODULE JpRegistrationProofs ------------------------
(***************************************************************************)
(* What is proved of JpRegistration for any number of commands and names:  *)
(* one request per directory, its answer kept before the credentials and   *)
(* fit for import ever after, and no account file replaced.  That a kept   *)
(* answer is imported at some time is liveness, and left to TLC.           *)
(***************************************************************************)
EXTENDS JpRegistration, TLAPS

(* A command holds the marker from the moment it made it until it ends,    *)
(* and ever after if it has sent its request.                              *)
Holds(c) == step[c] \in {"request", "sent", "credential"} \/ requests[c] > 0

(* No command comes back to its request once it has sent it.               *)
Unsent ==
  \A c \in Commands : step[c] \in {"new", "versions", "marker", "request"} => requests[c] = 0

(* The marker stays, and one command at most has made it.                  *)
Marked ==
  /\ \A c \in Commands : Holds(c) => attempted
  /\ \A c, d \in Commands : Holds(c) /\ Holds(d) => c = d

(* The answer behind what is in a credential file, or about to be.         *)
Keeps(n, account) ==
  response[n].kind = "file" /\ response[n].text = [account |-> account, valid |-> TRUE]

Kept ==
  /\ \A n \in Names : credential[n].text.account \in Commands =>
       response[n].kind = "file" /\ response[n].text = credential[n].text
  /\ \A c \in Commands : step[c] = "credential" => Keeps(name[c], c)

(* There is one way for an account file to be missing.                     *)
Absent == \A n \in Names : credential[n].kind = "none" => credential[n] = Missing

IInv == TypeOK /\ Unsent /\ Marked /\ Kept /\ Absent

(***************************************************************************)
(* Files.                                                                  *)
(***************************************************************************)

(* A text that is written becomes a file of its reader's kind              *)
(* (secret_file.rs, save_new).                                             *)
LEMMA CreateType ==
  ASSUME NEW d, NEW f \in File(Text), NEW text \in Text
  PROVE  create(d, f, text) \in File(Text)
BY DEF create, Written, Entry, File

(* What is there stays: no write replaces anything (secret_file.rs,        *)
(* check_new and persist_noclobber).                                       *)
LEMMA CreateKeeps ==
  ASSUME NEW d, NEW f, NEW text, f.kind # "none"
  PROVE  create(d, f, text) = f
BY DEF create, check_new

(* The texts that are written are texts.                                   *)
LEMMA Texts ==
  /\ Nobody \in Text /\ Missing \in File(Text) /\ Missing.kind = "none"
  /\ \A c \in Commands, valid \in BOOLEAN : [account |-> c, valid |-> valid] \in Text
  /\ \A valid \in BOOLEAN : [account |-> Own, valid |-> valid] \in Text
BY DEF Nobody, Text, Missing, Entry, File, Accounts

(***************************************************************************)
(* The initial states.                                                     *)
(***************************************************************************)

(* Nothing is attempted, sent or kept in an empty directory.               *)
LEMMA InitIInv == Init => IInv
<1> SUFFICES ASSUME Init PROVE IInv
  OBVIOUS
<1>1. TypeOK
  <2>1. requests \in [Commands -> 0..1]
    BY DEF Init
  <2>2. /\ response \in [Names -> File(Text)] /\ credential \in [Names -> File(Text)]
        /\ step \in [Commands -> Steps] /\ session \in Accounts \cup {"anonymous"}
    BY Texts DEF Init, Steps
  <2> QED BY <2>1, <2>2 DEF Init, TypeOK
<1>2. Unsent /\ Marked
  BY DEF Init, Unsent, Marked, Holds
<1>3. Kept
  BY ConstantsAssumption DEF Init, Kept, Keeps, Missing, Entry, Nobody
<1>4. Absent
  BY DEF Init, Absent
<1> QED BY <1>1, <1>2, <1>3, <1>4 DEF IInv

(***************************************************************************)
(* The types.                                                              *)
(***************************************************************************)

(* Every action keeps the types (jp_operator.rs, jp.rs, accounts.rs); a    *)
(* command that is about to send has not sent.                             *)
LEMMA TypeStep ==
  ASSUME TypeOK, Unsent, [Next]_vars
  PROVE  TypeOK'
<1> USE DEF TypeOK
<1>1. ASSUME NEW c \in Commands, Register(c) \/ Versions(c) \/ Mark(c) \/ Fail(c)
      PROVE  TypeOK'
  BY <1>1 DEF Register, Versions, Mark, Fail, Goto, Steps
<1>2. ASSUME NEW c \in Commands, Request(c)
      PROVE  TypeOK'
  <2>1. requests[c] = 0
    BY <1>2 DEF Request, Unsent
  <2>2. requests' \in [Commands -> 0..1] /\ step' \in [Commands -> Steps]
    BY <1>2, <2>1 DEF Request, Goto, Steps
  <2> QED BY <1>2, <2>2 DEF Request
<1>3. ASSUME NEW c \in Commands, Reply(c)
      PROVE  TypeOK'
  <2>1. PICK valid \in BOOLEAN :
          /\ response' = [response EXCEPT ![name[c]] =
               create(dir, response[name[c]], [account |-> c, valid |-> valid])]
          /\ Goto(c, IF valid THEN "credential" ELSE "over")
    BY <1>3 DEF Reply
  <2>2. create(dir, response[name[c]], [account |-> c, valid |-> valid]) \in File(Text)
    BY CreateType, Texts
  <2>3. response' \in [Names -> File(Text)] /\ step' \in [Commands -> Steps]
    BY <2>1, <2>2 DEF Goto, Steps
  <2> QED BY <1>3, <2>3 DEF Reply
<1>4. ASSUME NEW c \in Commands, Save(c)
      PROVE  TypeOK'
  <2>1. create(dir, credential[name[c]], [account |-> c, valid |-> TRUE]) \in File(Text)
    BY CreateType, Texts
  <2>2. credential' \in [Names -> File(Text)] /\ step' \in [Commands -> Steps]
    BY <1>4, <2>1 DEF Save, Goto, Steps
  <2> QED BY <1>4, <2>2 DEF Save
<1>5. ASSUME NEW n \in Names, Import(n)
      PROVE  TypeOK'
  <2>1. response[n].text \in Text
    BY DEF File
  <2>2. create(dir, credential[n], response[n].text) \in File(Text)
    BY <2>1, CreateType
  <2> QED BY <1>5, <2>2 DEF Import
<1>6. ASSUME NEW n \in Names, Place(n)
      PROVE  TypeOK'
  <2>1. PICK kind \in {"file", "link"}, private \in BOOLEAN, valid \in BOOLEAN :
          credential' = [credential EXCEPT ![n] =
            Entry(kind, private, TRUE, [account |-> Own, valid |-> valid])]
    BY <1>6 DEF Place
  <2>2. Entry(kind, private, TRUE, [account |-> Own, valid |-> valid]) \in File(Text)
    BY Texts DEF Entry, File
  <2> QED BY <1>6, <2>1, <2>2 DEF Place
<1>7. CASE Recover
  <2>1. PICK n \in Names : session' = credential[n].text.account
    BY <1>7 DEF Recover
  <2>2. credential[n].text.account \in Accounts
    BY DEF File, Text
  <2> QED BY <1>7, <2>1, <2>2 DEF Recover
<1>8. CASE Reload \/ UNCHANGED vars
  BY <1>8 DEF Reload, vars
<1> QED BY <1>1, <1>2, <1>3, <1>4, <1>5, <1>6, <1>7, <1>8 DEF Next, Advance

(* A step forward is never a step back to the request (jp.rs).             *)
LEMMA UnsentStep ==
  ASSUME TypeOK, Unsent, [Next]_vars
  PROVE  Unsent'
<1> USE DEF TypeOK, Unsent, Goto
<1>1. ASSUME NEW c \in Commands, Register(c) \/ Versions(c) \/ Mark(c) \/ Save(c) \/ Fail(c)
      PROVE  Unsent'
  BY <1>1 DEF Register, Versions, Mark, Save, Fail
<1>2. ASSUME NEW c \in Commands, Request(c)
      PROVE  Unsent'
  BY <1>2 DEF Request
<1>3. ASSUME NEW c \in Commands, Reply(c)
      PROVE  Unsent'
  BY <1>3 DEF Reply
<1>4. ASSUME NEW n \in Names, Import(n) \/ Place(n)
      PROVE  Unsent'
  BY <1>4 DEF Import, Place
<1>5. CASE Recover \/ Reload \/ UNCHANGED vars
  BY <1>5 DEF Recover, Reload, vars
<1> QED BY <1>1, <1>2, <1>3, <1>4, <1>5 DEF Next, Advance

(***************************************************************************)
(* The marker.                                                             *)
(***************************************************************************)

(* The marker is made by the command that finds none, and stays            *)
(* (jp_operator.rs, create_new).                                           *)
LEMMA MarkedStep ==
  ASSUME TypeOK, Marked, [Next]_vars
  PROVE  Marked'
<1> USE DEF TypeOK, Marked, Holds, Goto
<1>1. ASSUME NEW c \in Commands, Register(c) \/ Versions(c) \/ Save(c)
      PROVE  Marked'
  BY <1>1 DEF Register, Versions, Save
<1>2. ASSUME NEW c \in Commands, Mark(c)
      PROVE  Marked'
  BY <1>2 DEF Mark
<1>3. ASSUME NEW c \in Commands, Request(c)
      PROVE  Marked'
  BY <1>3 DEF Request
<1>4. ASSUME NEW c \in Commands, Reply(c)
      PROVE  Marked'
  BY <1>4 DEF Reply
<1>5. ASSUME NEW c \in Commands, Fail(c)
      PROVE  Marked'
  BY <1>5 DEF Fail
<1>6. ASSUME NEW n \in Names, Import(n) \/ Place(n)
      PROVE  Marked'
  BY <1>6 DEF Import, Place
<1>7. CASE Recover \/ Reload \/ UNCHANGED vars
  BY <1>7 DEF Recover, Reload, vars
<1> QED BY <1>1, <1>2, <1>3, <1>4, <1>5, <1>6, <1>7 DEF Next, Advance

(***************************************************************************)
(* The answer.                                                             *)
(***************************************************************************)

(* No command holding an answer waits under a name whose response is free, *)
(* and credentials are made of a kept answer only (jp.rs, save and import).*)
LEMMA KeptStep ==
  ASSUME TypeOK, Kept, [Next]_vars
  PROVE  Kept'
<1> USE DEF TypeOK, Kept, Keeps
<1>1. ASSUME NEW c \in Commands,
             Register(c) \/ Versions(c) \/ Mark(c) \/ Request(c) \/ Fail(c)
      PROVE  Kept'
  BY <1>1 DEF Register, Versions, Mark, Request, Fail, Goto
<1>2. ASSUME NEW c \in Commands, Reply(c)
      PROVE  Kept'
  <2>1. PICK valid \in BOOLEAN :
          /\ response' = [response EXCEPT ![name[c]] =
               create(dir, response[name[c]], [account |-> c, valid |-> valid])]
          /\ Goto(c, IF valid THEN "credential" ELSE "over")
    BY <1>2 DEF Reply
  <2>2. create(dir, response[name[c]], [account |-> c, valid |-> valid])
          = Written([account |-> c, valid |-> valid])
    BY <1>2 DEF Reply, create
  <2>3. /\ response'[name[c]].kind = "file"
        /\ response'[name[c]].text = [account |-> c, valid |-> valid]
    BY <2>1, <2>2 DEF Written, Entry
  <2>4. \A n \in Names : response[n].kind # "none" => response'[n] = response[n]
    BY <1>2, <2>1 DEF Reply, check_new
  <2>5. credential' = credential /\ name' = name
    BY <1>2 DEF Reply
  <2>6. \A d \in Commands : step'[d] = "credential" => (d = c /\ valid) \/ step[d] = "credential"
    BY <2>1 DEF Goto
  <2>7. \A n \in Names : credential'[n].text.account \in Commands =>
          response'[n].kind = "file" /\ response'[n].text = credential'[n].text
    BY <2>4, <2>5
  <2>8. \A d \in Commands : step'[d] = "credential" =>
          /\ response'[name[d]].kind = "file"
          /\ response'[name[d]].text = [account |-> d, valid |-> TRUE]
    BY <2>3, <2>4, <2>6
  <2> QED BY <2>5, <2>7, <2>8
<1>3. ASSUME NEW c \in Commands, Save(c)
      PROVE  Kept'
  <2> DEFINE made == create(dir, credential[name[c]], [account |-> c, valid |-> TRUE])
  <2>1. made = credential[name[c]] \/ made.text = [account |-> c, valid |-> TRUE]
    BY DEF create, Written, Entry
  <2>2. credential' = [credential EXCEPT ![name[c]] = made]
    BY <1>3 DEF Save
  <2>3. Keeps(name[c], c)
    BY <1>3 DEF Save
  <2>4. response' = response /\ name' = name
    BY <1>3 DEF Save
  <2>5. \A n \in Names : credential'[n].text.account \in Commands =>
          response[n].kind = "file" /\ response[n].text = credential'[n].text
    <3> HIDE DEF made
    <3> QED BY <2>1, <2>2, <2>3
  <2>6. \A d \in Commands : step'[d] = "credential" => step[d] = "credential"
    BY <1>3 DEF Save, Goto
  <2> QED BY <2>4, <2>5, <2>6
<1>4. ASSUME NEW n \in Names, Import(n)
      PROVE  Kept'
  <2> DEFINE made == create(dir, credential[n], response[n].text)
  <2>1. made = credential[n] \/ made.text = response[n].text
    BY DEF create, Written, Entry
  <2>2. credential' = [credential EXCEPT ![n] = made]
    BY <1>4 DEF Import
  <2>3. response[n].kind = "file"
    BY <1>4 DEF Import, Readable
  <2>4. UNCHANGED <<response, name, step>>
    BY <1>4 DEF Import
  <2>5. \A m \in Names : credential'[m].text.account \in Commands =>
          response[m].kind = "file" /\ response[m].text = credential'[m].text
    <3> HIDE DEF made
    <3> QED BY <2>1, <2>2, <2>3
  <2> QED BY <2>4, <2>5
<1>5. ASSUME NEW n \in Names, Place(n)
      PROVE  Kept'
  <2>1. UNCHANGED <<response, name, step>>
    BY <1>5 DEF Place
  <2>2. \A m \in Names : credential'[m].text.account \in Commands => credential'[m] = credential[m]
    BY <1>5, ConstantsAssumption DEF Place, Entry
  <2> QED BY <2>1, <2>2
<1>6. CASE Recover \/ Reload \/ UNCHANGED vars
  BY <1>6 DEF Recover, Reload, vars
<1> QED BY <1>1, <1>2, <1>3, <1>4, <1>5, <1>6 DEF Next, Advance

(***************************************************************************)
(* The account files.                                                      *)
(***************************************************************************)

(* A step leaves an account file as it is, or makes one where none was     *)
(* (secret_file.rs, and the operator's own care).                          *)
LEMMA CredentialStep ==
  ASSUME TypeOK, [Next]_vars, NEW n \in Names
  PROVE  credential'[n] = credential[n] \/ (credential[n].kind = "none" /\ credential'[n].kind # "none")
<1> USE DEF TypeOK
<1>1. ASSUME NEW d, NEW f, NEW text
      PROVE  create(d, f, text) = f \/ (f.kind = "none" /\ create(d, f, text).kind # "none")
  BY DEF create, check_new, Written, Entry
<1>2. ASSUME NEW c \in Commands, Save(c)
      PROVE  \E text : credential'[n] \in {credential[n], create(dir, credential[n], text)}
  BY <1>2 DEF Save
<1>3. ASSUME NEW m \in Names, Import(m)
      PROVE  \E text : credential'[n] \in {credential[n], create(dir, credential[n], text)}
  BY <1>3 DEF Import
<1>4. ASSUME NEW m \in Names, Place(m)
      PROVE  credential'[n] = credential[n] \/ (credential[n].kind = "none" /\ credential'[n].kind # "none")
  BY <1>4 DEF Place, Entry
<1>5. ASSUME NEW c \in Commands,
             \/ Register(c) \/ Versions(c) \/ Mark(c) \/ Request(c)
             \/ Reply(c) \/ Fail(c)
      PROVE  credential' = credential
  BY <1>5 DEF Register, Versions, Mark, Request, Reply, Fail
<1>6. ASSUME Recover \/ Reload \/ UNCHANGED vars
      PROVE  credential' = credential
  BY <1>6 DEF Recover, Reload, vars
<1> QED BY <1>1, <1>2, <1>3, <1>4, <1>5, <1>6 DEF Next, Advance

(* Nothing but its absence leaves a name free.                             *)
LEMMA AbsentStep ==
  ASSUME TypeOK, Absent, [Next]_vars
  PROVE  Absent'
BY CredentialStep DEF Absent, Missing

(***************************************************************************)
(* The theorems.                                                           *)
(***************************************************************************)

(* The inductive invariant holds in every reachable state.                 *)
THEOREM RegistrationInvariance == Spec => []IInv
<1>1. IInv /\ [Next]_vars => IInv'
  BY TypeStep, UnsentStep, MarkedStep, KeptStep, AbsentStep DEF IInv
<1> QED BY InitIInv, <1>1, PTL DEF Spec

(* The types hold in every reachable state.                                *)
THEOREM RegistrationTypes == Spec => []TypeOK
<1>1. IInv => TypeOK
  BY DEF IInv
<1> QED BY <1>1, RegistrationInvariance, PTL

(* At most one registration is ever requested in a directory               *)
(* (jp_operator.rs, the marker).                                           *)
THEOREM OneRequestAlways == Spec => []OneRequest
<1>1. IInv => OneRequest
  BY DEF IInv, TypeOK, Marked, Holds, OneRequest
<1> QED BY <1>1, RegistrationInvariance, PTL

(* Credentials that a registration left behind have their answer beside    *)
(* them (jp.rs, the order of the two writes).                              *)
THEOREM AnswerKeptFirstAlways == Spec => []AnswerKeptFirst
<1>1. IInv => AnswerKeptFirst
  BY DEF IInv, Kept, AnswerKeptFirst
<1> QED BY <1>1, RegistrationInvariance, PTL

(* No account file is ever replaced (secret_file.rs, save_new).            *)
THEOREM NeverOverwrittenAlways == Spec => NeverOverwritten
<1> DEFINE Stays == \A n \in Names : credential[n] # Missing => credential'[n] = credential[n]
<1>1. IInv /\ [Next]_vars => Stays
  BY CredentialStep DEF IInv, Absent
<1>2. Stays => [Stays]_vars
  OBVIOUS
<1> QED BY <1>1, <1>2, RegistrationInvariance, PTL DEF Spec, NeverOverwritten

(* Whatever has an answer's name is a private file in a private directory. *)
Safe == \A n \in Names : response[n].kind # "none" =>
          private_dir(dir) /\ Readable(response[n])

(* An answer that was kept is never touched again.                         *)
Untouched == \A n \in Names : response[n].kind # "none" => response'[n] = response[n]

(* Nobody writes an answer but the command that received it, into a name   *)
(* that is free (jp.rs, register_jp; secret_file.rs, save_new).            *)
LEMMA SafeStep ==
  ASSUME TypeOK, Safe, [Next]_vars
  PROVE  Safe' /\ Untouched
<1> USE DEF TypeOK
<1>1. ASSUME NEW c \in Commands, Reply(c)
      PROVE  Safe' /\ Untouched
  <2>1. PICK valid \in BOOLEAN :
          response' = [response EXCEPT ![name[c]] =
                         create(dir, response[name[c]], [account |-> c, valid |-> valid])]
    BY <1>1 DEF Reply
  <2>2. name[c] \in Names /\ check_new(dir, response[name[c]]) /\ dir' = dir
    BY <1>1 DEF Reply
  <2>3. response[name[c]].kind = "none" /\ private_dir(dir)
    BY <2>2 DEF check_new
  <2>4. response'[name[c]] = Written([account |-> c, valid |-> valid])
    BY <2>1, <2>2 DEF create
  <2>5. Readable(response'[name[c]])
    BY <2>4 DEF Written, Entry, Readable
  <2>6. \A n \in Names : n # name[c] => response'[n] = response[n]
    BY <2>1
  <2>7. private_dir(dir')
    BY <2>2, <2>3
  <2> QED BY <2>2, <2>3, <2>5, <2>6, <2>7 DEF Safe, Untouched
<1>2. CASE UNCHANGED <<dir, response>>
  BY <1>2 DEF Safe, Untouched
<1>3. ASSUME NEW c \in Commands, Advance(c), ~Reply(c)
      PROVE  UNCHANGED <<dir, response>>
  BY <1>3 DEF Advance, Register, Versions, Mark, Request, Save, Fail
<1>4. ASSUME NEW n \in Names, Import(n) \/ Place(n)
      PROVE  UNCHANGED <<dir, response>>
  BY <1>4 DEF Import, Place
<1>5. CASE Recover \/ Reload \/ UNCHANGED vars
  BY <1>2, <1>5 DEF Recover, Reload, vars
<1> QED BY <1>1, <1>2, <1>3, <1>4, <1>5 DEF Next

(* What jp-import-registration looks for, unless the name is taken.        *)
Importable ==
  \A n \in Names : response[n].kind = "file" /\ response[n].text.valid =>
    credential[n].kind # "none" \/ (private_dir(dir) /\ Readable(response[n]))

(* What AnswerSaved rests on: from the moment a usable answer is kept, and *)
(* however its command ends, it stays as it is and the import accepts it   *)
(* until its name is taken (jp_operator.rs, jp.rs).                        *)
THEOREM AnswerStaysImportable == Spec => []Importable /\ [][Untouched]_vars
<1>1. Init => Safe
  BY DEF Init, Safe, Missing, Entry
<1>2. IInv /\ Safe /\ [Next]_vars => Safe' /\ [Untouched]_vars
  BY SafeStep DEF IInv
<1>3. Safe => Importable
  BY DEF Safe, Importable
<1> QED BY <1>1, <1>2, <1>3, RegistrationInvariance, PTL DEF Spec
=============================================================================

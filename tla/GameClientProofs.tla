-------------------------- MODULE GameClientProofs --------------------------
(***************************************************************************)
(* What is proved of the client library for any number of calls, any       *)
(* capacity of its queue and any number of sessions: it implements the     *)
(* contract SessionLifecycle on which the theorems about ManagedClient and *)
(* QueryCache rest, and what is asked of its calls.  The order of the      *)
(* queue plays no part in that: that one call is in the serial slot does.  *)
(* Of the queue it is proved that the calls waiting for the slot are in it *)
(* once each, and no others.                                               *)
(***************************************************************************)
EXTENDS GameClient, SequenceTheorems, TLAPS

CallRecord ==
  [pc : Waiting \cup Ending \cup {"idle"}, kind : Kinds \cup {"none"},
   gen : Nat, cancel : BOOLEAN, over : BOOLEAN]

(* The sessions there can be when g is the latest generation.              *)
SessionRecord(g) ==
  [cred : 0..g, blocked : Refusals \cup {"none"}, mismatch : BOOLEAN, override : BOOLEAN]

(* The types, but for the queue and the order of generations in calls.     *)
Typed ==
  /\ gen \in 1..MaxGen
  /\ session \in SessionRecord(gen)
  /\ ops \in [Ops -> CallRecord]
  /\ rejected \in BOOLEAN /\ honoured \in BOOLEAN

(* Every call began with a session there has been.                         *)
Begun == \A o \in Ops : ops[o].gen <= gen

(* The serial slot holds one call.                                         *)
Alone == \A o, p \in Ops : ops[o].pc \in InSlot /\ ops[p].pc \in InSlot => o = p

(* A call that sleeps out the interval is still not barred, if its session *)
(* is still the current one: only a call in the slot can block a session,  *)
(* and whatever installs a session changes the generation.                 *)
Cleared == \A o \in Ops : ops[o].pc = "paced" /\ Current(o) => ~Barred(ops[o].kind)

IInv == Typed /\ Begun /\ Alone /\ Cleared /\ OverrideSpentOnce

(***************************************************************************)
(* The steps, by what they do to the session.                              *)
(***************************************************************************)

(* A call that is not in the slot afterwards, or was before.               *)
Leaves(o) ==
  /\ \A p \in Ops : p # o => ops'[p] = ops[p]
  /\ ops'[o] \in CallRecord
  /\ ops'[o].gen \in {ops[o].gen, gen, 0}

(* What a return leaves of a call.                                         *)
LEMMA Returned ==
  ASSUME Typed, NEW o \in Ops, Return(o)
  PROVE  Leaves(o) /\ ops' \in [Ops -> CallRecord] /\ ops'[o].pc = "idle"
<1>1. Idle \in CallRecord /\ Idle.pc = "idle" /\ Idle.gen = 0
  BY DEF Idle, CallRecord
<1> QED BY <1>1 DEF Return, Typed, Leaves

(* A step on one call that keeps it a call.                                *)
LEMMA CallTypes ==
  ASSUME Typed, NEW o \in Ops,
         \/ \E k \in Kinds : Begin(o, k)
         \/ Acquire(o) \/ Send(o) \/ Answer(o) \/ Cancel(o) \/ Abandon(o) \/ Timeout(o)
  PROVE  Leaves(o) /\ ops' \in [Ops -> CallRecord] /\ UNCHANGED <<gen, session, rejected, honoured>>
<1>0. ops \in [Ops -> CallRecord] /\ gen \in Nat
  BY DEF Typed
<1>1. ASSUME NEW k \in Kinds, Begin(o, k)
      PROVE  Leaves(o) /\ ops' \in [Ops -> CallRecord]
  <2>1. [Idle EXCEPT !.pc = "queued", !.kind = k, !.gen = gen] \in CallRecord
    BY <1>0 DEF Idle, CallRecord, Waiting
  <2>2. ops' = [ops EXCEPT ![o] = [Idle EXCEPT !.pc = "queued", !.kind = k, !.gen = gen]]
    BY <1>1 DEF Begin
  <2>3. ops'[o].gen = gen
    BY <1>0, <2>2 DEF Idle
  <2> QED BY <1>0, <2>1, <2>2, <2>3 DEF Leaves
<1>2. CASE Acquire(o)
  <2>1. CASE Return(o)
    BY <1>2, <2>1, Returned DEF Acquire
  <2>2. CASE ops' = [ops EXCEPT ![o].pc = "paced"]
    BY <1>0, <1>2, <2>2 DEF Acquire, Leaves, CallRecord, Waiting
  <2> QED BY <1>2, <2>1, <2>2 DEF Acquire
<1>3. CASE Send(o)
  <2>1. (JP /\ ~Anonymous(ops[o].kind) /\ session.override) \in BOOLEAN
    OBVIOUS
  <2>2. PICK b \in BOOLEAN : ops' = [ops EXCEPT ![o].pc = "sent", ![o].over = b]
    BY <1>3, <2>1 DEF Send
  <2>3. ops[o] \in CallRecord
    BY <1>0
  <2>4. /\ ops'[o] = [ops[o] EXCEPT !.pc = "sent", !.over = b]
        /\ \A p \in Ops : p # o => ops'[p] = ops[p]
        /\ DOMAIN ops' = Ops /\ ops' = [p \in Ops |-> ops'[p]]
    BY <1>0, <2>2
  <2>5. ops'[o] \in CallRecord /\ ops'[o].gen = ops[o].gen
    BY <2>3, <2>4 DEF CallRecord, Waiting
  <2>6. ops' \in [Ops -> CallRecord]
    BY <1>0, <2>4, <2>5
  <2> QED BY <1>3, <2>4, <2>5, <2>6 DEF Send, Leaves
<1>4. CASE Answer(o)
  BY <1>0, <1>4 DEF Answer, Leaves, CallRecord, Ending
<1>5. CASE Cancel(o)
  BY <1>0, <1>5 DEF Cancel, Leaves, CallRecord
<1>6. CASE Abandon(o) \/ Timeout(o)
  BY <1>6, Returned DEF Abandon, Timeout
<1> QED BY <1>1, <1>2, <1>3, <1>4, <1>5, <1>6
        DEF Begin, Acquire, Send, Answer, Cancel, Abandon, Timeout

(* The last poll of a call returns it, or keeps it in the slot to install. *)
LEMMA PollTypes ==
  ASSUME Typed, NEW o \in Ops, LastPoll(o)
  PROVE  /\ Leaves(o) /\ ops' \in [Ops -> CallRecord]
         /\ ops[o].pc \in InSlot
         /\ ops'[o].pc = "idle" \/ (ops'[o].pc = "finish" /\ ops'[o].gen = ops[o].gen)
<1>1. CASE Return(o)
  BY <1>1, Returned DEF LastPoll, ReplyError, ReplyOk, Finish, InSlot
<1>2. CASE ops[o].pc = "answered" /\ ops' = [ops EXCEPT ![o].pc = "finish"]
  BY <1>2 DEF Typed, Leaves, CallRecord, Ending, InSlot
<1> QED BY <1>1, <1>2 DEF LastPoll, ReplyError, ReplyOk, Finish

(* A session the poll may leave behind, by what it does to the generation. *)
LEMMA SessionPoll ==
  ASSUME Typed, NEW o \in Ops, LastPoll(o)
  PROVE  \/ /\ UNCHANGED <<gen, session>>
         \/ /\ gen' = gen /\ ops[o].pc = "answered"
            /\ \E k \in Refusals, m \in BOOLEAN :
                 session' = [session EXCEPT !.blocked = k, !.mismatch = m]
            /\ session.blocked \notin {"version", "device"}
         \/ /\ gen' = gen /\ session' = [session EXCEPT !.override = FALSE]
         \/ /\ gen < MaxGen /\ gen' = gen + 1 /\ ops[o].pc = "finish" /\ Current(o)
            /\ \/ \E v \in BOOLEAN : session' = Session(gen + 1, "none", FALSE, v)
               \/ \E n \in BOOLEAN : session' = Discovered(n)
<1>1. ASSUME NEW code \in Codes, ReplyError(o, code)
      PROVE  \/ UNCHANGED <<gen, session>>
             \/ /\ gen' = gen /\ ops[o].pc = "answered"
                /\ \E k \in Refusals, m \in BOOLEAN :
                     session' = [session EXCEPT !.blocked = k, !.mismatch = m]
                /\ session.blocked \notin {"version", "device"}
  <2>1. (code = "MASTER_VERSION_MISMATCH") \in BOOLEAN
    OBVIOUS
  <2> QED BY <1>1, <2>1 DEF ReplyError, Block
<1>2. ASSUME NEW b \in BOOLEAN, ReplyOk(o, b)
      PROVE  \/ UNCHANGED <<gen, session>>
             \/ gen' = gen /\ session' = [session EXCEPT !.override = FALSE]
  BY <1>2 DEF ReplyOk
<1>3. ASSUME NEW d \in BOOLEAN, NEW n \in BOOLEAN, Finish(o, d, n)
      PROVE  \/ UNCHANGED <<gen, session>>
             \/ /\ gen < MaxGen /\ gen' = gen + 1 /\ ops[o].pc = "finish" /\ Current(o)
                /\ \/ \E v \in BOOLEAN : session' = Session(gen + 1, "none", FALSE, v)
                   \/ \E m \in BOOLEAN : session' = Discovered(m)
  <2>1. CASE ~(MayInstall(o) /\ d /\ gen < MaxGen)
    BY <1>3, <2>1 DEF Finish
  <2>2. CASE MayInstall(o) /\ d /\ gen < MaxGen
    <3>1. NewSession(CASE ops[o].kind = "login"    -> Session(gen + 1, "none", FALSE, FALSE)
                       [] ops[o].kind = "register" -> Session(gen + 1, "none", FALSE, TRUE)
                       [] OTHER                    -> Discovered(n))
      BY <1>3, <2>2, Zenon DEF Finish
    <3>2. gen' = gen + 1 /\ ops[o].pc = "finish" /\ Current(o)
      BY <1>3, <2>2, <3>1 DEF Finish, MayInstall, NewSession
    <3>3. \/ session' = Session(gen + 1, "none", FALSE, FALSE)
          \/ session' = Session(gen + 1, "none", FALSE, TRUE)
          \/ session' = Discovered(n)
      BY <3>1 DEF NewSession
    <3> QED BY <2>2, <3>2, <3>3
  <2> QED BY <2>1, <2>2
<1> QED BY <1>1, <1>2, <1>3, Zenon DEF LastPoll

(* A session that a call installs is a session.                            *)
LEMMA SessionTypes ==
  ASSUME Typed, NEW n \in BOOLEAN, NEW v \in BOOLEAN, NEW c \in {NoCred, gen + 1}
  PROVE  /\ Session(c, "none", FALSE, v) \in SessionRecord(gen + 1)
         /\ Discovered(n) \in SessionRecord(gen + 1)
<1>1. c \in 0..(gen + 1) /\ session.cred \in 0..(gen + 1)
  BY ClientAssumption DEF Typed, SessionRecord, NoCred
<1>2. session.blocked \in Refusals \cup {"none"} /\ session.override \in BOOLEAN
  BY DEF Typed, SessionRecord
<1> QED BY <1>1, <1>2 DEF Session, Discovered, SessionRecord

(***************************************************************************)
(* One step.                                                               *)
(***************************************************************************)

(* The steps of a call before its last poll.                               *)
Moves(o) ==
  \/ \E k \in Kinds : Begin(o, k)
  \/ Acquire(o) \/ Send(o) \/ Answer(o) \/ Cancel(o) \/ Abandon(o) \/ Timeout(o)

LEMMA NextCases ==
  ASSUME Next
  PROVE  \/ \E o \in Ops : Moves(o) \/ LastPoll(o)
         \/ \E c \in {NoCred, gen + 1} : Replace(c)
BY Zenon DEF Next, Moves

(* Types, every action.                                                    *)
LEMMA TypedStep ==
  ASSUME Typed, [Next]_vars
  PROVE  Typed'
<1>1. ASSUME NEW o \in Ops, Moves(o) PROVE Typed'
  BY <1>1, CallTypes DEF Moves, Typed
<1>2. ASSUME NEW o \in Ops, LastPoll(o) PROVE Typed'
  <2>1. ops' \in [Ops -> CallRecord]
    BY <1>2, PollTypes
  <2>2. rejected' \in BOOLEAN /\ honoured' \in BOOLEAN
    BY <1>2 DEF LastPoll, ReplyError, ReplyOk, Finish, NewSession, Typed
  <2>3. gen' \in 1..MaxGen /\ session' \in SessionRecord(gen')
    <3>1. CASE UNCHANGED <<gen, session>>
      BY <3>1 DEF Typed
    <3>2. ASSUME gen' = gen, NEW k \in Refusals, NEW m \in BOOLEAN,
                 session' = [session EXCEPT !.blocked = k, !.mismatch = m]
          PROVE  gen' \in 1..MaxGen /\ session' \in SessionRecord(gen')
      BY <3>2 DEF Typed, SessionRecord
    <3>3. CASE gen' = gen /\ session' = [session EXCEPT !.override = FALSE]
      BY <3>3 DEF Typed, SessionRecord
    <3>4. ASSUME gen < MaxGen, gen' = gen + 1,
                 \/ \E v \in BOOLEAN : session' = Session(gen + 1, "none", FALSE, v)
                 \/ \E n \in BOOLEAN : session' = Discovered(n)
          PROVE  gen' \in 1..MaxGen /\ session' \in SessionRecord(gen')
      <4>1. gen' \in 1..MaxGen
        BY <3>4, ClientAssumption DEF Typed
      <4>2. session' \in SessionRecord(gen + 1)
        <5>1. gen + 1 \in {NoCred, gen + 1}
          OBVIOUS
        <5> QED BY <3>4, <5>1, SessionTypes
      <4> QED BY <3>4, <4>1, <4>2
    <3> QED BY <1>2, <3>1, <3>2, <3>3, <3>4, SessionPoll
  <2> QED BY <2>1, <2>2, <2>3 DEF Typed
<1>3. ASSUME NEW c \in {NoCred, gen + 1}, Replace(c) PROVE Typed'
  <2>1. gen' \in 1..MaxGen /\ gen' = gen + 1 /\ session' = Session(c, "none", FALSE, FALSE)
    BY <1>3, ClientAssumption DEF Replace, NewSession, Typed
  <2>2. session' \in SessionRecord(gen + 1)
    BY <2>1, SessionTypes
  <2>3. rejected' \in BOOLEAN /\ honoured' \in BOOLEAN /\ ops' = ops
    BY <1>3 DEF Replace, NewSession, Typed
  <2> QED BY <2>1, <2>2, <2>3 DEF Typed
<1>4. CASE UNCHANGED vars
  BY <1>4 DEF vars, Typed
<1> QED BY <1>1, <1>2, <1>3, <1>4, NextCases, Zenon

(* A call's session has been there, and no step takes one back.            *)
LEMMA BegunStep ==
  ASSUME Typed, Begun, [Next]_vars
  PROVE  Begun'
<1>0. gen \in Nat /\ \A o \in Ops : ops[o].gen \in Nat
  BY DEF Typed, CallRecord
<1>1. ASSUME NEW o \in Ops, Leaves(o), gen' = gen \/ gen' = gen + 1 PROVE Begun'
  <2>1. ops'[o].gen <= gen'
    BY <1>0, <1>1 DEF Leaves, Begun
  <2>2. \A p \in Ops : p # o => ops'[p].gen <= gen'
    BY <1>0, <1>1 DEF Leaves, Begun
  <2> QED BY <2>1, <2>2 DEF Begun
<1>2. ASSUME NEW o \in Ops, Moves(o) PROVE Begun'
  BY <1>1, <1>2, CallTypes DEF Moves
<1>3. ASSUME NEW o \in Ops, LastPoll(o) PROVE Begun'
  <2>1. gen' = gen \/ gen' = gen + 1
    BY <1>3, SessionPoll
  <2> QED BY <1>1, <1>3, <2>1, PollTypes
<1>4. ASSUME NEW c \in {NoCred, gen + 1}, Replace(c) PROVE Begun'
  BY <1>0, <1>4 DEF Replace, NewSession, Begun
<1>5. CASE UNCHANGED vars
  BY <1>5 DEF vars, Begun
<1> QED BY <1>2, <1>3, <1>4, <1>5, NextCases, Zenon

(* The slot is entered when it is free, and held until the call returns.   *)
LEMMA AloneStep ==
  ASSUME Typed, Alone, [Next]_vars
  PROVE  Alone'
<1>1. ASSUME NEW o \in Ops, Leaves(o), ops'[o].pc \in InSlot => ops[o].pc \in InSlot PROVE Alone'
  BY <1>1 DEF Leaves, Alone
<1>2. ASSUME NEW o \in Ops, Acquire(o) PROVE Alone'
  <2>1. SlotFree /\ Leaves(o)
    BY <1>2, CallTypes DEF Acquire
  <2> QED BY <2>1 DEF SlotFree, Leaves, Alone
<1>3. ASSUME NEW o \in Ops, NEW k \in Kinds, Begin(o, k) PROVE Alone'
  <2>1. ops'[o].pc = "queued" /\ Leaves(o)
    BY <1>3, CallTypes DEF Begin, Idle, Typed
  <2> QED BY <1>1, <2>1 DEF InSlot
<1>4. ASSUME NEW o \in Ops, Send(o) \/ Answer(o) \/ Cancel(o) PROVE Alone'
  <2>1. Leaves(o)
    BY <1>4, CallTypes
  <2>2. ops'[o].pc \in InSlot => ops[o].pc \in InSlot
    BY <1>4 DEF Send, Answer, Cancel, InSlot, Typed, CallRecord
  <2> QED BY <1>1, <2>1, <2>2
<1>5. ASSUME NEW o \in Ops, Abandon(o) \/ Timeout(o) PROVE Alone'
  BY <1>1, <1>5, Returned DEF Abandon, Timeout, InSlot
<1>6. ASSUME NEW o \in Ops, LastPoll(o) PROVE Alone'
  BY <1>1, <1>6, PollTypes
<1>7. CASE UNCHANGED <<ops>>
  BY <1>7 DEF Alone
<1> QED BY <1>2, <1>3, <1>4, <1>5, <1>6, <1>7, NextCases, Zenon DEF Moves, Replace, vars

(* The block that was looked at before the interval is as it was when the  *)
(* request leaves, or the session is another one.                          *)
LEMMA ClearedStep ==
  ASSUME Typed, Begun, Alone, Cleared, [Next]_vars
  PROVE  Cleared'
<1>0. gen \in Nat /\ ops \in [Ops -> CallRecord] /\ \A o \in Ops : ops[o].gen \in Nat
  BY DEF Typed, CallRecord
<1>1. ASSUME NEW o \in Ops, Leaves(o), UNCHANGED <<gen, session>>,
             ops'[o].pc = "paced" /\ ops'[o].gen = gen => ~Barred(ops'[o].kind)
      PROVE  Cleared'
  BY <1>1 DEF Leaves, Cleared, Current, Barred
<1>2. ASSUME NEW o \in Ops, Acquire(o) PROVE Cleared'
  <2>1. Leaves(o) /\ UNCHANGED <<gen, session>>
    BY <1>2, CallTypes
  <2>2. CASE Return(o)
    BY <1>1, <2>1, <2>2, Returned
  <2>3. CASE ~Barred(ops[o].kind) /\ ops' = [ops EXCEPT ![o].pc = "paced"]
    <3>1. ops'[o].kind = ops[o].kind
      BY <1>0, <2>3 DEF CallRecord
    <3> QED BY <1>1, <2>1, <2>3, <3>1
  <2> QED BY <1>2, <2>2, <2>3 DEF Acquire
<1>3. ASSUME NEW o \in Ops, NEW k \in Kinds, Begin(o, k) PROVE Cleared'
  <2>1. ops'[o].pc = "queued" /\ Leaves(o) /\ UNCHANGED <<gen, session>>
    BY <1>0, <1>3, CallTypes DEF Begin, Idle
  <2> QED BY <1>1, <2>1
<1>4. ASSUME NEW o \in Ops, Send(o) \/ Answer(o) PROVE Cleared'
  <2>1. ops'[o].pc # "paced"
    BY <1>0, <1>4 DEF Send, Answer, CallRecord
  <2> QED BY <1>1, <1>4, <2>1, CallTypes
<1>5. ASSUME NEW o \in Ops, Cancel(o) PROVE Cleared'
  <2>1. ops'[o].pc = ops[o].pc /\ ops'[o].kind = ops[o].kind /\ ops'[o].gen = ops[o].gen
    BY <1>0, <1>5 DEF Cancel, CallRecord
  <2>2. ops[o].pc = "paced" /\ ops[o].gen = gen => ~Barred(ops[o].kind)
    BY DEF Cleared, Current
  <2>3. Leaves(o) /\ UNCHANGED <<gen, session>>
    BY <1>5, CallTypes
  <2>4. ops'[o].pc = "paced" /\ ops'[o].gen = gen => ~Barred(ops'[o].kind)
    BY <2>1, <2>2
  <2> QED BY <1>1, <2>3, <2>4
<1>6. ASSUME NEW o \in Ops, Abandon(o) \/ Timeout(o) PROVE Cleared'
  <2>1. ops'[o].pc = "idle"
    BY <1>6, Returned DEF Abandon, Timeout
  <2> QED BY <1>1, <1>6, <2>1, CallTypes
<1>7. ASSUME NEW o \in Ops, LastPoll(o) PROVE Cleared'
  <2>1. ops'[o].pc # "paced" /\ ops[o].pc \in InSlot /\ Leaves(o)
    BY <1>7, PollTypes
  <2>2. \A p \in Ops : ops'[p].pc # "paced"
    BY <2>1 DEF Leaves, Alone, InSlot
  <2> QED BY <2>2 DEF Cleared
<1>8. ASSUME NEW c \in {NoCred, gen + 1}, Replace(c) PROVE Cleared'
  <2>1. gen' = gen + 1 /\ ops' = ops
    BY <1>8 DEF Replace, NewSession
  <2>2. \A o \in Ops : ops[o].gen # gen + 1
    BY <1>0 DEF Begun
  <2> QED BY <2>1, <2>2 DEF Cleared, Current
<1>9. CASE UNCHANGED vars
  BY <1>9 DEF vars, Cleared, Current, Barred
<1> QED BY <1>2, <1>3, <1>4, <1>5, <1>6, <1>7, <1>8, <1>9, NextCases, Zenon DEF Moves

(* Only a new credential has an override that has not been spent.          *)
LEMMA OverrideStep ==
  ASSUME Typed, OverrideSpentOnce, [Next]_vars
  PROVE  OverrideSpentOnce'
<1>0. gen \in Nat /\ session.cred \in 0..gen /\ session \in SessionRecord(gen)
  BY DEF Typed, SessionRecord
<1>1. ASSUME UNCHANGED <<session, honoured>> PROVE OverrideSpentOnce'
  BY <1>1 DEF OverrideSpentOnce
<1>2. ASSUME NEW o \in Ops, Moves(o) PROVE OverrideSpentOnce'
  BY <1>1, <1>2, CallTypes DEF Moves
<1>3. ASSUME NEW o \in Ops, NEW code \in Codes, ReplyError(o, code) PROVE OverrideSpentOnce'
  <2>1. session'.override = session.override /\ honoured' = honoured
    BY <1>0, <1>3 DEF ReplyError, Block, SessionRecord
  <2> QED BY <2>1 DEF OverrideSpentOnce
<1>4. ASSUME NEW o \in Ops, NEW b \in BOOLEAN, ReplyOk(o, b) PROVE OverrideSpentOnce'
  <2>1. CASE ops[o].over /\ Current(o)
    <3>1. session' = [session EXCEPT !.override = FALSE]
      BY <1>4, <2>1 DEF ReplyOk
    <3>2. session'.override = FALSE
      BY <1>0, <3>1 DEF SessionRecord
    <3> QED BY <3>2 DEF OverrideSpentOnce
  <2>2. CASE ~(ops[o].over /\ Current(o))
    <3>1. session' = session /\ honoured' = (honoured \/ FALSE)
      BY <1>4, <2>2 DEF ReplyOk
    <3> QED BY <3>1 DEF OverrideSpentOnce
  <2> QED BY <2>1, <2>2
<1>5. ASSUME NEW s, NewSession(s), s.override => s.cred = gen + 1 \/ s.override = session.override
      PROVE  OverrideSpentOnce'
  <2>1. s.cred = gen + 1 => s.cred # session.cred
    BY <1>0
  <2>2. CASE s.cred = gen + 1
    BY <1>5, <2>1, <2>2 DEF NewSession, OverrideSpentOnce
  <2>3. CASE s.override => s.override = session.override
    BY <1>5, <2>3, Zenon DEF NewSession, OverrideSpentOnce
  <2> QED BY <1>5, <2>2, <2>3
<1>6. ASSUME NEW o \in Ops, NEW d \in BOOLEAN, NEW n \in BOOLEAN, Finish(o, d, n)
      PROVE  OverrideSpentOnce'
  <2>1. CASE ~(MayInstall(o) /\ d /\ gen < MaxGen)
    BY <1>1, <1>6, <2>1 DEF Finish
  <2>2. CASE MayInstall(o) /\ d /\ gen < MaxGen
    <3> DEFINE s == CASE ops[o].kind = "login"    -> Session(gen + 1, "none", FALSE, FALSE)
                      [] ops[o].kind = "register" -> Session(gen + 1, "none", FALSE, TRUE)
                      [] OTHER                    -> Discovered(n)
    <3>1. NewSession(s)
      BY <1>6, <2>2, Zenon DEF Finish
    <3>2. s.cred = gen + 1 \/ s.override = session.override
      BY DEF Session, Discovered
    <3> HIDE DEF s
    <3> QED BY <1>5, <3>1, <3>2
  <2> QED BY <2>1, <2>2
<1>7. ASSUME NEW c \in {NoCred, gen + 1}, Replace(c) PROVE OverrideSpentOnce'
  <2>1. session'.override = FALSE
    BY <1>7 DEF Replace, NewSession, Session
  <2> QED BY <2>1 DEF OverrideSpentOnce
<1>8. CASE UNCHANGED vars
  BY <1>1, <1>8 DEF vars
<1> QED BY <1>2, <1>3, <1>4, <1>6, <1>7, <1>8, NextCases, Zenon DEF LastPoll

(***************************************************************************)
(* The theorems                                                            *)
(***************************************************************************)

(* The inductive invariant: types, who is in the slot, and what is still   *)
(* true of a call that sleeps there.                                       *)
THEOREM ClientInvariance == Spec => []IInv
<1>1. Init => IInv
  <2> SUFFICES ASSUME Init PROVE IInv
    OBVIOUS
  <2>1. Typed
    <3>1. PICK c \in {NoCred, 1} : session = Session(c, "none", FALSE, FALSE)
      BY DEF Init
    <3>2. session \in SessionRecord(1)
      BY <3>1 DEF Session, SessionRecord, NoCred
    <3>3. Idle \in CallRecord
      BY DEF Idle, CallRecord
    <3>4. ops \in [Ops -> CallRecord]
      BY <3>3 DEF Init
    <3>5. gen = 1 /\ gen \in 1..MaxGen
      BY ClientAssumption DEF Init
    <3>6. rejected \in BOOLEAN /\ honoured \in BOOLEAN
      BY DEF Init
    <3> QED BY <3>2, <3>4, <3>5, <3>6, Zenon DEF Typed
  <2>2. \A o \in Ops : ops[o].pc = "idle" /\ ops[o].gen = 0 /\ gen = 1
    BY DEF Init, Idle
  <2>3. ~honoured
    BY DEF Init
  <2> QED BY <2>1, <2>2, <2>3 DEF IInv, Begun, Alone, Cleared, InSlot, OverrideSpentOnce
<1>2. IInv /\ [Next]_vars => IInv'
  BY TypedStep, BegunStep, AloneStep, ClearedStep, OverrideStep, Zenon DEF IInv
<1> QED BY <1>1, <1>2, PTL DEF Spec

(* No call is sent under a session that is blocked for it at that moment,  *)
(* though the block was read before the interval (lib.rs, work).           *)
THEOREM BlockedIsNeverSent == Spec => BlockedNeverSent
<1>1. ASSUME IInv, [Next]_vars, NEW o \in Ops, ops[o].pc = "paced", ops'[o].pc = "sent"
      PROVE  Current(o)
  <2>1. ASSUME NEW p \in Ops, Moves(p) PROVE Current(o)
    <3>1. Leaves(p)
      BY <1>1, <2>1, CallTypes DEF IInv, Moves
    <3>2. p = o
      BY <1>1, <3>1 DEF Leaves
    <3>3. CASE Send(o)
      BY <3>3 DEF Send, Undisturbed
    <3>4. CASE Acquire(o)
      BY <1>1, <3>4 DEF Acquire, SlotFree, InSlot
    <3>5. CASE \E k \in Kinds : Begin(o, k)
      BY <1>1, <3>5 DEF Begin
    <3>6. CASE Answer(o)
      BY <1>1, <3>6 DEF Answer
    <3>7. CASE Cancel(o)
      BY <1>1, <3>7 DEF Cancel, IInv, Typed, CallRecord
    <3>8. CASE Abandon(o) \/ Timeout(o)
      BY <1>1, <3>8, Returned DEF Abandon, Timeout, IInv
    <3> QED BY <2>1, <3>2, <3>3, <3>4, <3>5, <3>6, <3>7, <3>8 DEF Moves
  <2>2. ASSUME NEW p \in Ops, LastPoll(p) PROVE Current(o)
    BY <1>1, <2>2, PollTypes DEF Leaves, IInv
  <2>3. ASSUME NEW c \in {NoCred, gen + 1}, Replace(c) PROVE Current(o)
    BY <1>1, <2>3 DEF Replace
  <2>4. CASE UNCHANGED vars
    BY <1>1, <2>4 DEF vars
  <2> QED BY <1>1, <2>1, <2>2, <2>3, <2>4, NextCases, Zenon
<1>2. ASSUME IInv, [Next]_vars
      PROVE  [\A o \in Ops : ops[o].pc = "paced" /\ ops'[o].pc = "sent" =>
                LET k == ops[o].kind
                IN  /\ ~Anonymous(k) => session.blocked = "none"
                    /\ LoginCall(k) => session.blocked \notin {"version", "device"}]_vars
  BY <1>1, <1>2 DEF IInv, Cleared, Barred
<1> QED BY <1>2, ClientInvariance, PTL DEF Spec, BlockedNeverSent

(* A call that installs a session replaces the one it began with.          *)
THEOREM InstallsAlwaysOverOwn == Spec => InstallsOverOwnSession
<1>1. ASSUME IInv, [Next]_vars, NEW o \in Ops,
             ops[o].pc = "finish", gen' # gen, ops'[o].pc = "idle"
      PROVE  Current(o)
  <2>1. ASSUME NEW p \in Ops, Moves(p) PROVE FALSE
    BY <1>1, <2>1, CallTypes DEF Moves, IInv
  <2>2. ASSUME NEW p \in Ops, LastPoll(p) PROVE Current(o)
    <3>1. Current(p) /\ Leaves(p)
      BY <1>1, <2>2, SessionPoll, PollTypes DEF IInv
    <3> QED BY <1>1, <3>1 DEF Leaves
  <2>3. ASSUME NEW c \in {NoCred, gen + 1}, Replace(c) PROVE FALSE
    BY <1>1, <2>3 DEF Replace
  <2> QED BY <1>1, <2>1, <2>2, <2>3, NextCases, Zenon DEF vars
<1>2. ASSUME IInv, [Next]_vars
      PROVE  [\A o \in Ops : ops[o].pc = "finish" /\ gen' # gen /\ ops'[o].pc = "idle"
                => Current(o)]_vars
  BY <1>1, <1>2, Zenon
<1> QED BY <1>2, ClientInvariance, PTL DEF Spec, InstallsOverOwnSession

(* The override of a registered credential is spent once (lib.rs).         *)
THEOREM OverrideAlwaysSpentOnce == Spec => []OverrideSpentOnce
<1>1. IInv => OverrideSpentOnce
  BY DEF IInv
<1> QED BY <1>1, ClientInvariance, PTL

(* The client implements the contract that ManagedClient and QueryCache    *)
(* are built on: a session is only refused, replaced or rediscovered.      *)
THEOREM ClientImplements == Spec => ImplementsLifecycle
<1>1. Init => Lifecycle!InitLifecycle
  BY DEF Init, Lifecycle!InitLifecycle, Lifecycle!NoCred, NoCred, Session
<1>2. ASSUME IInv, [Next]_vars
      PROVE  [Lifecycle!NextLifecycle]_(Lifecycle!lifecycle)
  <2>0. session \in SessionRecord(gen) /\ Typed
    BY <1>2 DEF IInv, Typed
  <2>1. ASSUME UNCHANGED <<gen, session>>
        PROVE  [Lifecycle!NextLifecycle]_(Lifecycle!lifecycle)
    BY <2>1 DEF Lifecycle!lifecycle
  <2>2. ASSUME NEW c \in {NoCred, gen + 1}, NEW v \in BOOLEAN, gen < MaxGen, gen' = gen + 1,
               session' = Session(c, "none", FALSE, v)
        PROVE  [Lifecycle!NextLifecycle]_(Lifecycle!lifecycle)
    <3>1. Lifecycle!Install(c)
      BY <2>2 DEF Lifecycle!Install, Lifecycle!NoCred, NoCred, Session
    <3> QED BY <3>1, <2>2 DEF Lifecycle!NextLifecycle, Lifecycle!NoCred, NoCred
  <2>3. ASSUME NEW o \in Ops, LastPoll(o)
        PROVE  [Lifecycle!NextLifecycle]_(Lifecycle!lifecycle)
    <3>1. ASSUME gen' = gen, NEW k \in Refusals, NEW m \in BOOLEAN,
                 session' = [session EXCEPT !.blocked = k, !.mismatch = m],
                 session.blocked \notin {"version", "device"}
          PROVE  Lifecycle!Refuse(k)
      BY <2>0, <3>1 DEF Lifecycle!Refuse, Lifecycle!Refusals, Lifecycle!Permanent, Refusals,
                        SessionRecord
    <3>2. CASE gen' = gen /\ session' = [session EXCEPT !.override = FALSE]
      BY <2>0, <3>2 DEF Lifecycle!lifecycle, SessionRecord
    <3>3. ASSUME gen < MaxGen, gen' = gen + 1, NEW n \in BOOLEAN, session' = Discovered(n)
          PROVE  Lifecycle!Rediscover(n \/ session.mismatch)
      BY <3>3 DEF Lifecycle!Rediscover, Discovered, Session
    <3>4. \A n \in BOOLEAN : (n \/ session.mismatch) \in BOOLEAN
      OBVIOUS
    <3>5. \A k \in Refusals : Lifecycle!Refuse(k) => Lifecycle!NextLifecycle
      BY DEF Lifecycle!NextLifecycle, Lifecycle!Refusals, Refusals
    <3>6. \A b \in BOOLEAN : Lifecycle!Rediscover(b) => Lifecycle!NextLifecycle
      BY DEF Lifecycle!NextLifecycle
    <3>7. gen + 1 \in {NoCred, gen + 1}
      OBVIOUS
    <3> QED BY <2>0, <2>1, <2>2, <2>3, <3>1, <3>2, <3>3, <3>4, <3>5, <3>6, <3>7, SessionPoll
  <2>4. ASSUME NEW o \in Ops, Moves(o)
        PROVE  [Lifecycle!NextLifecycle]_(Lifecycle!lifecycle)
    BY <2>0, <2>1, <2>4, CallTypes DEF Moves
  <2>5. ASSUME NEW c \in {NoCred, gen + 1}, Replace(c)
        PROVE  [Lifecycle!NextLifecycle]_(Lifecycle!lifecycle)
    BY <2>2, <2>5 DEF Replace, NewSession
  <2>6. CASE UNCHANGED vars
    BY <2>1, <2>6 DEF vars
  <2> QED BY <1>2, <2>3, <2>4, <2>5, <2>6, NextCases, Zenon
<1> QED BY <1>1, <1>2, ClientInvariance, PTL DEF Spec, ImplementsLifecycle, Lifecycle!SpecLifecycle

(***************************************************************************)
(* The queue.  That it is one, in every state, rests on where a call that  *)
(* gives up stands in it: every waiting call has one place.                *)
(***************************************************************************)
Lined ==
  /\ queue \in Seq(Ops)
  /\ \A i \in 1..Len(queue) : ops[queue[i]].pc = "queued"
  /\ \A o \in Ops : ops[o].pc = "queued" => \E i \in 1..Len(queue) : queue[i] = o
  /\ \A i, j \in 1..Len(queue) : queue[i] = queue[j] => i = j

(* What is left of a queue when one of its places is given up (RemoveAt).  *)
LEMMA Removed ==
  ASSUME NEW S, NEW q \in Seq(S), NEW i \in 1..Len(q)
  PROVE  /\ RemoveAt(q, i) \in Seq(S)
         /\ Len(RemoveAt(q, i)) = Len(q) - 1
         /\ \A j \in 1..(Len(q) - 1) : RemoveAt(q, i)[j] = IF j < i THEN q[j] ELSE q[j + 1]
<1> DEFINE front == SubSeq(q, 1, i - 1)
           back  == SubSeq(q, i + 1, Len(q))
<1>1. Len(q) \in Nat /\ \A j \in 1..Len(q) : q[j] \in S
  OBVIOUS
<1>2. /\ front \in Seq(S) /\ Len(front) = i - 1
      /\ \A j \in 1..(i - 1) : front[j] = q[j]
  OBVIOUS
<1>3. /\ back \in Seq(S) /\ Len(back) = Len(q) - i
      /\ \A j \in 1..(Len(q) - i) : back[j] = q[i + j]
  BY <1>1
<1>4. RemoveAt(q, i) = front \o back
  BY DEF RemoveAt
<1>5. /\ front \o back \in Seq(S)
      /\ Len(front \o back) = Len(front) + Len(back)
      /\ \A j \in 1..(Len(front) + Len(back)) :
           (front \o back)[j] = IF j <= Len(front) THEN front[j] ELSE back[j - Len(front)]
  <2> HIDE DEF front, back
  <2> QED BY <1>2, <1>3, ConcatProperties
<1>6. Len(RemoveAt(q, i)) = Len(q) - 1 /\ RemoveAt(q, i) \in Seq(S)
  <2> HIDE DEF front, back
  <2> QED BY <1>1, <1>2, <1>3, <1>4, <1>5
<1>7. ASSUME NEW j \in 1..(Len(q) - 1)
      PROVE  RemoveAt(q, i)[j] = IF j < i THEN q[j] ELSE q[j + 1]
  <2>1. RemoveAt(q, i)[j] = IF j <= i - 1 THEN front[j] ELSE back[j - (i - 1)]
    <3> HIDE DEF front, back
    <3> QED BY <1>1, <1>2, <1>3, <1>4, <1>5
  <2> HIDE DEF front, back
  <2>2. CASE j < i
    BY <1>1, <1>2, <2>1, <2>2
  <2>3. CASE ~(j < i)
    <3>1. j - (i - 1) \in 1..(Len(q) - i) /\ i + (j - (i - 1)) = j + 1 /\ ~(j <= i - 1)
      BY <1>1, <2>3
    <3>2. back[j - (i - 1)] = q[j + 1]
      BY <1>3, <3>1
    <3> QED BY <2>1, <2>3, <3>1, <3>2
  <2> QED BY <2>2, <2>3
<1> QED BY <1>6, <1>7

(* A call that returns gives up its own place in the queue (lib.rs: the    *)
(* future waiting for the serial lock is dropped).                         *)
LEMMA ReturnLined ==
  ASSUME Typed, Lined, NEW o \in Ops, Return(o)
  PROVE  Lined'
<1>1. ops'[o].pc = "idle" /\ \A p \in Ops : p # o => ops'[p] = ops[p]
  BY Returned DEF Leaves
<1>2. CASE ops[o].pc # "queued"
  <2>1. queue' = queue
    BY <1>2 DEF Return
  <2>2. \A i \in 1..Len(queue) : queue[i] \in Ops /\ queue[i] # o
    BY <1>2 DEF Lined
  <2> QED BY <1>1, <2>1, <2>2 DEF Lined
<1>3. CASE ops[o].pc = "queued"
  <2>1. PICK i \in 1..Len(queue) : queue[i] = o
    BY <1>3 DEF Lined
  <2>2. Place(o) = i
    <3>1. DOMAIN queue = 1..Len(queue)
      BY DEF Lined
    <3> QED BY <2>1, <3>1 DEF Place, Lined
  <2>3. queue' = RemoveAt(queue, i)
    BY <1>3, <2>2 DEF Return
  <2>4. /\ queue' \in Seq(Ops) /\ Len(queue') = Len(queue) - 1 /\ Len(queue) \in Nat
        /\ \A j \in 1..Len(queue') : queue'[j] = IF j < i THEN queue[j] ELSE queue[j + 1]
    <3>1. queue \in Seq(Ops) /\ Len(queue) \in Nat
      BY DEF Lined
    <3>2. /\ RemoveAt(queue, i) \in Seq(Ops) /\ Len(RemoveAt(queue, i)) = Len(queue) - 1
          /\ \A j \in 1..(Len(queue) - 1) :
               RemoveAt(queue, i)[j] = IF j < i THEN queue[j] ELSE queue[j + 1]
      BY <3>1, Removed
    <3> QED BY <2>3, <3>1, <3>2
  <2>5. \A j \in 1..Len(queue') :
          /\ j < i => j \in 1..Len(queue)
          /\ ~(j < i) => j + 1 \in 1..Len(queue)
    BY <2>4
  <2>6. \A j \in 1..Len(queue') : queue'[j] \in Ops /\ queue'[j] # o /\ ops[queue'[j]].pc = "queued"
    <3> TAKE j \in 1..Len(queue')
    <3>1. CASE j < i
      <4>1. j \in 1..Len(queue) /\ queue'[j] = queue[j] /\ j # i
        BY <2>4, <2>5, <3>1
      <4> QED BY <2>1, <4>1 DEF Lined
    <3>2. CASE ~(j < i)
      <4>1. j + 1 \in 1..Len(queue) /\ queue'[j] = queue[j + 1] /\ j + 1 # i
        BY <2>4, <2>5, <3>2
      <4> QED BY <2>1, <4>1 DEF Lined
    <3> QED BY <3>1, <3>2
  <2>7. \A j \in 1..Len(queue') : ops'[queue'[j]].pc = "queued"
    BY <1>1, <2>6
  <2>8. ASSUME NEW p \in Ops, ops'[p].pc = "queued"
        PROVE  \E j \in 1..Len(queue') : queue'[j] = p
    <3>1. p # o /\ ops[p].pc = "queued"
      BY <1>1, <2>8
    <3>2. PICK n \in 1..Len(queue) : queue[n] = p
      BY <3>1 DEF Lined
    <3>3. n # i
      BY <2>1, <3>1, <3>2
    <3>4. CASE n < i
      <4>1. n \in 1..Len(queue')
        BY <2>1, <2>4, <3>4
      <4> QED BY <2>4, <3>2, <3>4, <4>1
    <3>5. CASE i < n
      <4>1. n - 1 \in 1..Len(queue') /\ ~(n - 1 < i) /\ (n - 1) + 1 = n
        BY <2>1, <2>4, <3>5
      <4> QED BY <2>4, <3>2, <4>1
    <3> QED BY <3>3, <3>4, <3>5
  <2>9. ASSUME NEW j \in 1..Len(queue'), NEW n \in 1..Len(queue'), queue'[j] = queue'[n]
        PROVE  j = n
    <3> DEFINE at(x) == IF x < i THEN x ELSE x + 1
    <3>1. \A x \in 1..Len(queue') : at(x) \in 1..Len(queue) /\ queue'[x] = queue[at(x)]
      BY <2>4, <2>5
    <3>2. at(j) = at(n)
      <4> HIDE DEF at
      <4> QED BY <2>9, <3>1 DEF Lined
    <3> QED BY <2>4, <3>2
  <2> QED BY <2>4, <2>7, <2>8, <2>9 DEF Lined
<1> QED BY <1>2, <1>3

(* A call that waits joins at the end, the first is served, and whoever    *)
(* returns leaves: every waiting call keeps its one place.                 *)
LEMMA LinedStep ==
  ASSUME Typed, Lined, [Next]_vars
  PROVE  Lined'
<1>0. ops \in [Ops -> CallRecord] /\ queue \in Seq(Ops) /\ Len(queue) \in Nat
  BY DEF Typed, Lined
<1>1. ASSUME NEW o \in Ops, NEW k \in Kinds, Begin(o, k) PROVE Lined'
  <2>1. queue' = Append(queue, o) /\ ops[o].pc = "idle"
    BY <1>1 DEF Begin
  <2>2. ops'[o].pc = "queued" /\ \A p \in Ops : p # o => ops'[p] = ops[p]
    BY <1>0, <1>1 DEF Begin, Idle
  <2>3. /\ queue' \in Seq(Ops) /\ Len(queue') = Len(queue) + 1 /\ queue'[Len(queue) + 1] = o
        /\ \A i \in 1..Len(queue) : queue'[i] = queue[i]
    BY <1>0, <2>1
  <2>4. \A i \in 1..Len(queue) : queue[i] \in Ops /\ queue[i] # o
    BY <2>1 DEF Lined
  <2>5. \A i \in 1..Len(queue') : i \in 1..Len(queue) \/ i = Len(queue) + 1
    BY <1>0, <2>3
  <2>6. \A i \in 1..Len(queue') : ops'[queue'[i]].pc = "queued"
    BY <2>2, <2>3, <2>4, <2>5 DEF Lined
  <2>7. ASSUME NEW p \in Ops, ops'[p].pc = "queued"
        PROVE  \E i \in 1..Len(queue') : queue'[i] = p
    <3>1. CASE p = o
      <4>1. Len(queue) + 1 \in 1..Len(queue')
        BY <1>0, <2>3
      <4> QED BY <2>3, <3>1, <4>1
    <3>2. CASE p # o
      <4>1. PICK i \in 1..Len(queue) : queue[i] = p
        BY <2>2, <2>7, <3>2 DEF Lined
      <4>2. i \in 1..Len(queue')
        BY <1>0, <2>3
      <4> QED BY <2>3, <4>1, <4>2
    <3> QED BY <3>1, <3>2
  <2>8. \A i, j \in 1..Len(queue') : queue'[i] = queue'[j] => i = j
    BY <2>3, <2>4, <2>5 DEF Lined
  <2> QED BY <2>3, <2>6, <2>7, <2>8 DEF Lined
<1>2. ASSUME NEW o \in Ops, Acquire(o) PROVE Lined'
  <2>1. CASE Return(o)
    BY <2>1, ReturnLined
  <2>2. CASE ops' = [ops EXCEPT ![o].pc = "paced"] /\ queue' = Tail(queue)
    <3>1. queue # <<>> /\ o = queue[1] /\ Len(queue) >= 1
      BY <1>0, <1>2 DEF Acquire
    <3>2. /\ queue' \in Seq(Ops) /\ Len(queue') = Len(queue) - 1
          /\ \A i \in 1..Len(queue') : queue'[i] = queue[i + 1]
      BY <1>0, <2>2, <3>1
    <3>3. ops'[o].pc = "paced" /\ \A p \in Ops : p # o => ops'[p] = ops[p]
      BY <1>0, <2>2 DEF CallRecord
    <3>4. \A i \in 1..Len(queue') : i + 1 \in 1..Len(queue) /\ i + 1 # 1 /\ 1 \in 1..Len(queue)
      BY <1>0, <3>2
    <3>5. \A i \in 1..Len(queue') : queue'[i] \in Ops /\ queue'[i] # o
                                   /\ ops'[queue'[i]].pc = "queued"
      <4> TAKE i \in 1..Len(queue')
      <4>1. queue'[i] = queue[i + 1] /\ queue[i + 1] \in Ops /\ ops[queue[i + 1]].pc = "queued"
        BY <1>0, <3>2, <3>4 DEF Lined
      <4>2. queue[i + 1] # queue[1]
        BY <3>4 DEF Lined
      <4> QED BY <3>1, <3>3, <4>1, <4>2
    <3>6. ASSUME NEW p \in Ops, ops'[p].pc = "queued"
          PROVE  \E i \in 1..Len(queue') : queue'[i] = p
      <4>1. p # o /\ ops[p].pc = "queued"
        BY <3>3, <3>6
      <4>2. PICK n \in 1..Len(queue) : queue[n] = p
        BY <4>1 DEF Lined
      <4>3. n # 1
        BY <3>1, <4>1, <4>2
      <4>4. n - 1 \in 1..Len(queue') /\ (n - 1) + 1 = n
        BY <1>0, <3>2, <4>3
      <4> QED BY <3>2, <4>2, <4>4
    <3>7. ASSUME NEW i \in 1..Len(queue'), NEW j \in 1..Len(queue'), queue'[i] = queue'[j]
          PROVE  i = j
      <4>1. i + 1 = j + 1
        BY <3>2, <3>4, <3>7 DEF Lined
      <4> QED BY <1>0, <3>2, <4>1
    <3> QED BY <3>2, <3>5, <3>6, <3>7 DEF Lined
  <2> QED BY <1>2, <2>1, <2>2 DEF Acquire
<1>3. ASSUME queue' = queue, \A p \in Ops : ops'[p].pc = "queued" <=> ops[p].pc = "queued"
      PROVE  Lined'
  <2>1. \A i \in 1..Len(queue) : queue[i] \in Ops
    BY <1>0
  <2> QED BY <1>3, <2>1 DEF Lined
<1>4. ASSUME NEW o \in Ops, Send(o) \/ Answer(o) \/ Cancel(o) PROVE Lined'
  <2>1. CASE Send(o)
    <3>1. (JP /\ ~Anonymous(ops[o].kind) /\ session.override) \in BOOLEAN
      OBVIOUS
    <3>2. PICK b \in BOOLEAN : ops' = [ops EXCEPT ![o].pc = "sent", ![o].over = b]
      BY <2>1, <3>1 DEF Send
    <3>3. \A p \in Ops : ops'[p].pc = "queued" <=> ops[p].pc = "queued"
      BY <1>0, <2>1, <3>2 DEF Send, CallRecord
    <3> QED BY <1>3, <2>1, <3>3 DEF Send
  <2>2. CASE Answer(o)
    <3>1. \A p \in Ops : ops'[p].pc = "queued" <=> ops[p].pc = "queued"
      BY <1>0, <2>2 DEF Answer, CallRecord
    <3> QED BY <1>3, <2>2, <3>1 DEF Answer
  <2>3. CASE Cancel(o)
    <3>1. \A p \in Ops : ops'[p].pc = "queued" <=> ops[p].pc = "queued"
      BY <1>0, <2>3 DEF Cancel, CallRecord
    <3> QED BY <1>3, <2>3, <3>1 DEF Cancel
  <2> QED BY <1>4, <2>1, <2>2, <2>3
<1>5. ASSUME NEW o \in Ops, Abandon(o) \/ Timeout(o) PROVE Lined'
  BY <1>5, ReturnLined DEF Abandon, Timeout
<1>6. ASSUME NEW o \in Ops, LastPoll(o) PROVE Lined'
  <2>1. CASE Return(o)
    BY <2>1, ReturnLined
  <2>2. CASE ops[o].pc = "answered" /\ ops' = [ops EXCEPT ![o].pc = "finish"] /\ queue' = queue
    <3>1. \A p \in Ops : ops'[p].pc = "queued" <=> ops[p].pc = "queued"
      BY <1>0, <2>2 DEF CallRecord
    <3> QED BY <1>3, <2>2, <3>1
  <2> QED BY <1>6, <2>1, <2>2 DEF LastPoll, ReplyError, ReplyOk, Finish
<1>7. CASE UNCHANGED <<ops, queue>>
  BY <1>3, <1>7
<1> QED BY <1>1, <1>2, <1>4, <1>5, <1>6, <1>7, NextCases, Zenon DEF Moves, Replace, vars

(* The calls waiting for the slot are in the queue once each, and nobody   *)
(* else is: a call that gives up or is abandoned leaves no ghost behind    *)
(* that would be handed the slot.                                          *)
THEOREM QueueInvariance == Spec => [](IInv /\ Lined)
<1>1. Init => Lined
  <2> SUFFICES ASSUME Init PROVE Lined
    OBVIOUS
  <2>1. queue = <<>> /\ \A o \in Ops : ops[o].pc = "idle"
    BY DEF Init, Idle
  <2> QED BY <2>1 DEF Lined
<1>2. IInv /\ Lined /\ [Next]_vars => Lined'
  BY LinedStep DEF IInv
<1> QED BY <1>1, <1>2, ClientInvariance, PTL DEF Spec

(* Every variable keeps its type.                                          *)
THEOREM ClientTypes == Spec => []TypeOK
<1>1. IInv /\ Lined => TypeOK
  <2> SUFFICES ASSUME IInv, Lined PROVE TypeOK
    OBVIOUS
  <2>1. \A o \in Ops : ops[o].gen \in 0..gen
    BY DEF IInv, Begun, Typed, CallRecord
  <2>2. ops \in [Ops -> [pc : Waiting \cup Ending \cup {"idle"}, kind : Kinds \cup {"none"},
                        gen : 0..gen, cancel : BOOLEAN, over : BOOLEAN]]
    <3>1. \A o \in Ops : ops[o] \in [pc : Waiting \cup Ending \cup {"idle"}, kind : Kinds \cup {"none"},
                                     gen : 0..gen, cancel : BOOLEAN, over : BOOLEAN]
      BY <2>1 DEF IInv, Typed, CallRecord
    <3> QED BY <3>1 DEF IInv, Typed
  <2> QED BY <2>2 DEF TypeOK, IInv, Typed, SessionRecord, Lined, NoCred
<1> QED BY <1>1, QueueInvariance, PTL
=============================================================================

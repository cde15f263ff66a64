---------------------------- MODULE MemberTasks ----------------------------
(***************************************************************************)
(* What the tasks of one member of the server do to it, seen from outside: *)
(* the worker that loads or logs in a session, and the version poller      *)
(* (server/src/managed.rs, managed/versions.rs).  ManagedClient, which has *)
(* the inside of one member, and Gateway, which composes many of them with *)
(* the serving process, are both shown to implement this module.           *)
(***************************************************************************)

VARIABLES
  phase,    \* whether protected queries are let through
  worker,   \* the recovery task and how far its login is
  calling   \* whether the version poller owns the session

member == <<phase, worker, calling>>

(* "sent" is a login at the game, "unsaved" one that the client has        *)
(* installed and the disk has not seen, "saved" one that it has, or that   *)
(* came from it; "lost" and "failed" tell a login that will never be saved *)
(* from an attempt that changed nothing.                                   *)
InitMember == phase = "open" /\ worker = "none" /\ calling = FALSE

(* A worker is started only for a session that nobody owns. *)
Spawn ==
  /\ phase = "open" /\ worker = "none" /\ ~calling
  /\ phase' = "recovering" /\ worker' = "start"
  /\ UNCHANGED calling

Goes(from, to) == worker = from /\ worker' = to /\ UNCHANGED <<phase, calling>>

Works ==
  \/ Goes("start", "sent") \/ Goes("start", "saved") \/ Goes("sent", "unsaved")
  \/ Goes("unsaved", "saved")
  \/ Goes("start", "failed") \/ Goes("sent", "failed") \/ Goes("unsaved", "lost")

(* The worker's last critical section says what became of its login. *)
End(after) ==
  /\ worker \in {"saved", "lost", "failed"}
  /\ worker = "saved" => after = "open"
  /\ worker = "lost" => after = "persistence_failed"
  /\ worker' = "none" /\ phase' = after
  /\ UNCHANGED calling

(* SIGHUP is refused while the worker or the poller owns the session. *)
Reload ==
  /\ phase # "recovering" /\ ~calling
  /\ phase' = "open"
  /\ UNCHANGED <<worker, calling>>

Call   == phase = "open" /\ ~calling /\ calling' = TRUE /\ UNCHANGED <<phase, worker>>
Answer == calling /\ calling' = FALSE /\ UNCHANGED <<phase, worker>>

NextMember ==
  \/ Spawn \/ Works \/ (\E after \in {"open", "persistence_failed"} : End(after))
  \/ Reload \/ Call \/ Answer

SpecMember == InitMember /\ [][NextMember]_member
=============================================================================

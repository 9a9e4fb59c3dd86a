----------------------------- MODULE TaskSessions -----------------------------
(***************************************************************************)
(* What a transport session promises for the background tasks of its       *)
(* async-hinted calls, without handlers, lists, bindings and the loop that *)
(* cancels them.  A session owns the tasks whose ids it has answered, and  *)
(* no task has two owners.  A task runs once; it ends by itself, or is     *)
(* cancelled because a client asks or because its owner is going.  A       *)
(* session is gone when all it owns has ended, unless it was cut off.      *)
(***************************************************************************)
CONSTANTS Sessions, Tasks

VARIABLES
  phase,      \* of each session: "new", "open", "closing" or "closed"
  owned,      \* tasks each session owns
  life,       \* of each task: "none", "running", "ended" or "cancelled"
  requested,  \* tasks a client has asked to cancel
  severed     \* sessions cut off from outside

sessionsVars == <<phase, owned, life, requested, severed>>

Serving == \E s \in Sessions : phase[s] = "open"

Init ==
  /\ phase = [s \in Sessions |-> "new"] /\ owned = [s \in Sessions |-> {}]
  /\ life = [t \in Tasks |-> "none"]
  /\ requested = {} /\ severed = {}

Open(s) ==
  /\ phase[s] = "new"
  /\ phase' = [phase EXCEPT ![s] = "open"]
  /\ UNCHANGED <<owned, life, requested, severed>>

Sever(s) ==
  /\ phase[s] = "open"
  /\ severed' = severed \cup {s}
  /\ UNCHANGED <<phase, owned, life, requested>>

\* What a session owns is settled when it leaves.
Leave(s) ==
  /\ phase[s] = "open" /\ owned[s] # {}
  /\ phase' = [phase EXCEPT ![s] = "closing"]
  /\ UNCHANGED <<owned, life, requested, severed>>

Close(s) ==
  /\ \/ phase[s] = "open" /\ owned[s] = {}
     \/ phase[s] = "closing" /\ (s \in severed \/ \A t \in owned[s] : life[t] # "running")
  /\ phase' = [phase EXCEPT ![s] = "closed"]
  /\ UNCHANGED <<owned, life, requested, severed>>

Start(t) ==
  /\ Serving /\ life[t] = "none"
  /\ life' = [life EXCEPT ![t] = "running"]
  /\ UNCHANGED <<phase, owned, requested, severed>>

Own(s, t) ==
  /\ phase[s] = "open" /\ life[t] # "none" /\ \A w \in Sessions : t \notin owned[w]
  /\ owned' = [owned EXCEPT ![s] = @ \cup {t}]
  /\ UNCHANGED <<phase, life, requested, severed>>

Request(t) ==
  /\ Serving /\ life[t] # "none"
  /\ requested' = requested \cup {t}
  /\ UNCHANGED <<phase, owned, life, severed>>

Finish(t) ==
  /\ life[t] = "running"
  /\ life' = [life EXCEPT ![t] = "ended"]
  /\ UNCHANGED <<phase, owned, requested, severed>>

Cancel(t) ==
  /\ life[t] = "running"
  /\ t \in requested \/ \E s \in Sessions : phase[s] \in {"closing", "closed"} /\ t \in owned[s]
  /\ life' = [life EXCEPT ![t] = "cancelled"]
  /\ UNCHANGED <<phase, owned, requested, severed>>

Next ==
  \/ \E s \in Sessions : Open(s) \/ Sever(s) \/ Leave(s) \/ Close(s)
  \/ \E t \in Tasks : Start(t) \/ Request(t) \/ Finish(t) \/ Cancel(t)
  \/ \E s \in Sessions, t \in Tasks : Own(s, t)

Spec == Init /\ [][Next]_sessionsVars
==============================================================================

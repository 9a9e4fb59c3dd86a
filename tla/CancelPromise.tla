---------------------------- MODULE CancelPromise ----------------------------
(***************************************************************************)
(* What ExecutionRouter promises about cancellation, with no registry at   *)
(* all: a cancel reaches the call in flight under that id, a cancel that   *)
(* arrives before the call is remembered until the call is submitted, and  *)
(* nothing survives the completion of the call.  CancelTokens implements   *)
(* this specification as long as its bounded map never has to evict.       *)
(***************************************************************************)
CONSTANTS Calls,    \* invocations of handle_call
          Ids,      \* call ids (extras.call_id, _meta.progressToken or a uuid)
          NoId      \* the id of a call that has not been submitted

VARIABLES pc, callId, cancelled, asked

promiseVars == <<pc, callId, cancelled, asked>>

InFlight(c, id) == pc[c] = "running" /\ callId[c] = id

Init ==
  /\ pc = [c \in Calls |-> "idle"]
  /\ callId = [c \in Calls |-> NoId]
  /\ cancelled = [c \in Calls |-> FALSE]
  /\ asked = {}

\* A call is born cancelled exactly when its id has been cancelled beforehand.
Begin(c, id) ==
  /\ pc[c] = "idle"
  /\ \A d \in Calls : ~InFlight(d, id)
  /\ pc' = [pc EXCEPT ![c] = "running"]
  /\ callId' = [callId EXCEPT ![c] = id]
  /\ cancelled' = [cancelled EXCEPT ![c] = id \in asked]
  /\ UNCHANGED asked

\* A cancel reaches the call in flight and is otherwise kept for the next one.
Cancel(id) ==
  /\ asked' = asked \cup {id}
  /\ cancelled' = [c \in Calls |-> cancelled[c] \/ InFlight(c, id)]
  /\ UNCHANGED <<pc, callId>>

\* Completion settles whatever was asked for the id.
Finish(c) ==
  /\ pc[c] = "running"
  /\ pc' = [pc EXCEPT ![c] = "done"]
  /\ asked' = asked \ {callId[c]}
  /\ UNCHANGED <<callId, cancelled>>

Next ==
  \/ \E c \in Calls, id \in Ids : Begin(c, id)
  \/ \E id \in Ids : Cancel(id)
  \/ \E c \in Calls : Finish(c)

Spec == Init /\ [][Next]_promiseVars
==============================================================================

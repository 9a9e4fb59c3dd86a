------------------------------ MODULE AsyncTasks -----------------------------
(***************************************************************************)
(* Background tasks bound to transport sessions: AsyncTaskBridge           *)
(* (server/async_task_bridge.py), the two routes of handle_call_tool that  *)
(* reach it (server/factory.py) and the session bracket of the transports  *)
(* (server/transport.py).                                                  *)
(*                                                                         *)
(* Everything runs on one event loop, so the code between two awaits is    *)
(* one action and other handlers run during an await.  The manager is      *)
(* apcore's AsyncTaskManager: it creates tasks, runs them, and cancel()    *)
(* returns once the task has ended.  server.run of the mcp library does    *)
(* not return while a handler of its session runs.                         *)
(***************************************************************************)
EXTENDS Naturals, FiniteSets

CONSTANTS Requests,   \* tool calls that submit or cancel a task
          Sessions,   \* transport sessions (uuid4 per connection)
          Tasks,      \* task ids the manager can hand out: max_tasks of them
          Routes,     \* ways a call can submit: "hinted" (a tool with an async hint)
                      \* and "meta" (__apcore_task_submit)
          NoSession, NoTask,
          Client       \* a caller of __apcore_task_cancel

ASSUME AsyncAssumption ==
  /\ Routes \subseteq {"hinted", "meta"}
  /\ NoSession \notin Sessions
  /\ Client \notin Sessions
  /\ NoTask \notin Tasks

VARIABLES
  session,          \* life of each session
  tracked,          \* _session_tasks: the task ids under each session key
  doomed,           \* ids cancel_session_tasks still has to visit
  victim,           \* id whose cancellation cancel_session_tasks awaits
  bound,            \* keys of _progress_bindings
  status,           \* the manager's view of each task
  pc,               \* where each handler is
  origin,           \* session the handler runs under (transport_session_var)
  route,            \* how the handler submits: one of Routes
  progress,         \* the request carries a progress token
  task,             \* task a handler has created or is cancelling
  interrupted,      \* sessions whose scope was cancelled from outside
  asked,            \* who has called manager.cancel on each task: sessions being
                    \* torn down, and Client for __apcore_task_cancel
  answered          \* history: tasks whose envelope went back in each session

bridgeVars == <<tracked, doomed, victim, bound>>
handlerVars == <<pc, origin, route, progress, task>>
managerVars == <<status, asked>>
vars == <<session, bridgeVars, managerVars, handlerVars, interrupted, answered>>

Live(t) == status[t] \in {"pending", "running"}
Busy(s) == \E r \in Requests : origin[r] = s /\ pc[r] \notin {"idle", "done"}

Init ==
  /\ session = [s \in Sessions |-> "new"]
  /\ tracked = [s \in Sessions |-> {}]
  /\ doomed = [s \in Sessions |-> {}]
  /\ victim = [s \in Sessions |-> NoTask]
  /\ bound = {}
  /\ status = [t \in Tasks |-> "none"]
  /\ pc = [r \in Requests |-> "idle"]
  /\ origin = [r \in Requests |-> NoSession]
  /\ route = [r \in Requests |-> "none"]
  /\ progress = [r \in Requests |-> FALSE]
  /\ task = [r \in Requests |-> NoTask]
  /\ interrupted = {}
  /\ answered = [s \in Sessions |-> {}]
  /\ asked = [t \in Tasks |-> {}]

------------------------------------------------------------------------------
(* Handlers *)

\* handle_call_tool up to `await manager.submit`: both routes install the
\* progress sink; only the hinted route passes the session key.
Submit(r, s, how, wantsProgress) ==
  /\ pc[r] = "idle" /\ session[s] = "open"
  /\ pc' = [pc EXCEPT ![r] = "submitting"]
  /\ origin' = [origin EXCEPT ![r] = s]
  /\ route' = [route EXCEPT ![r] = how]
  /\ progress' = [progress EXCEPT ![r] = wantsProgress]
  /\ UNCHANGED <<session, bridgeVars, managerVars, task, interrupted, answered>>

\* The manager accepts: the task exists although the handler has not resumed.
Accept(r, t) ==
  /\ pc[r] = "submitting" /\ status[t] = "none"
  /\ status' = [status EXCEPT ![t] = "pending"]
  /\ pc' = [pc EXCEPT ![r] = "accepted"]
  /\ task' = [task EXCEPT ![r] = t]
  /\ UNCHANGED <<session, bridgeVars, asked, origin, route, progress, interrupted, answered>>

\* The manager refuses, at its limit or for reasons of its own: the handler answers
\* an error and records nothing.
Reject(r) ==
  /\ pc[r] = "submitting"
  /\ pc' = [pc EXCEPT ![r] = "done"]
  /\ UNCHANGED <<session, bridgeVars, managerVars, origin, route, progress, task,
                 interrupted, answered>>

\* Slips the runs must catch: the handler does not await submit; one list of
\* tasks for every session.
RecordedUnawaited(r) ==
  /\ pc[r] \in {"submitting", "accepted"}
  /\ pc' = [pc EXCEPT ![r] = "done"]
  /\ tracked' = [tracked EXCEPT ![origin[r]] = @ \cup {task[r]}]
  /\ answered' = [answered EXCEPT ![origin[r]] = @ \cup {task[r]}]
  /\ UNCHANGED <<session, doomed, victim, bound, managerVars, origin, route, progress, task,
                 interrupted>>
RecordedForAll(r) ==
  /\ pc[r] = "accepted"
  /\ pc' = [pc EXCEPT ![r] = "done"]
  /\ tracked' = [s \in Sessions |-> tracked[s] \cup {task[r]}]
  /\ answered' = [answered EXCEPT ![origin[r]] = @ \cup {task[r]}]
  /\ UNCHANGED <<session, doomed, victim, bound, managerVars, origin, route, progress, task,
                 interrupted>>

\* The handler resumes: it binds the progress token and, when it was given a
\* session key, lists the task under it; then it answers the envelope.
Recorded(r) ==
  /\ pc[r] = "accepted"
  /\ pc' = [pc EXCEPT ![r] = "done"]
  /\ bound' = IF progress[r] THEN bound \cup {task[r]} ELSE bound
  /\ tracked' = IF route[r] = "hinted"
                THEN [tracked EXCEPT ![origin[r]] = @ \cup {task[r]}] ELSE tracked
  /\ answered' = [answered EXCEPT ![origin[r]] = @ \cup {task[r]}]
  /\ UNCHANGED <<session, doomed, victim, managerVars, origin, route, progress, task,
                 interrupted>>

\* __apcore_task_cancel of a known task, up to `await manager.cancel`.  Any
\* session may cancel any task.
CancelTool(r, s, t) ==
  /\ pc[r] = "idle" /\ session[s] = "open" /\ status[t] # "none"
  /\ pc' = [pc EXCEPT ![r] = "cancelling"]
  /\ origin' = [origin EXCEPT ![r] = s]
  /\ task' = [task EXCEPT ![r] = t]
  /\ asked' = [asked EXCEPT ![t] = @ \cup {Client}]
  /\ UNCHANGED <<session, bridgeVars, status, route, progress, interrupted, answered>>

\* manager.cancel returns and the binding is dropped.
CancelToolDone(r) ==
  /\ pc[r] = "cancelling" /\ ~Live(task[r])
  /\ pc' = [pc EXCEPT ![r] = "done"]
  /\ bound' = bound \ {task[r]}
  /\ UNCHANGED <<session, tracked, doomed, victim, managerVars, origin, route, progress, task,
                 interrupted, answered>>

\* The handler is cancelled at its await (notifications/cancelled, or the
\* session's scope): whatever follows the await does not happen.
Abort(r) ==
  /\ pc[r] \in {"submitting", "accepted", "cancelling"}
  /\ pc' = [pc EXCEPT ![r] = "done"]
  /\ UNCHANGED <<session, bridgeVars, managerVars, origin, route, progress, task,
                 interrupted, answered>>

------------------------------------------------------------------------------
(* The manager's tasks *)

Start(t) ==
  /\ status[t] = "pending"
  /\ status' = [status EXCEPT ![t] = "running"]
  /\ UNCHANGED <<session, bridgeVars, asked, handlerVars, interrupted, answered>>

End(t, how) ==
  /\ status[t] = "running"
  /\ status' = [status EXCEPT ![t] = how]
  /\ UNCHANGED <<session, bridgeVars, asked, handlerVars, interrupted, answered>>

ManagerCancels(t) ==
  /\ Live(t) /\ asked[t] # {}
  /\ status' = [status EXCEPT ![t] = "cancelled"]
  /\ UNCHANGED <<session, bridgeVars, asked, handlerVars, interrupted, answered>>

------------------------------------------------------------------------------
(* Sessions *)

\* _scoped_session is entered: transport_session_var is set for the handlers.
Connect(s) ==
  /\ session[s] = "new"
  /\ session' = [session EXCEPT ![s] = "open"]
  /\ UNCHANGED <<bridgeVars, managerVars, handlerVars, interrupted, answered>>

\* The client closes its stream, or the scope around _run_scoped is cancelled.
Disconnect(s, fromOutside) ==
  /\ session[s] = "open"
  /\ session' = [session EXCEPT ![s] = "draining"]
  /\ interrupted' = IF fromOutside THEN interrupted \cup {s} ELSE interrupted
  /\ UNCHANGED <<bridgeVars, managerVars, handlerVars, answered>>

\* server.run has returned: cancel_session_tasks pops the session's list.
Teardown(s) ==
  /\ session[s] = "draining" /\ ~Busy(s)
  /\ session' = [session EXCEPT ![s] = IF tracked[s] = {} THEN "closed" ELSE "ending"]
  /\ doomed' = [doomed EXCEPT ![s] = tracked[s]]
  /\ tracked' = [tracked EXCEPT ![s] = {}]
  /\ UNCHANGED <<victim, bound, managerVars, handlerVars, interrupted, answered>>

\* The loop of cancel_session_tasks reaches its next id.
TeardownVisit(s, t) ==
  /\ session[s] = "ending" /\ victim[s] = NoTask /\ t \in doomed[s]
  /\ victim' = [victim EXCEPT ![s] = t]
  /\ asked' = [asked EXCEPT ![t] = @ \cup {s}]
  /\ UNCHANGED <<session, tracked, doomed, bound, status, handlerVars, interrupted, answered>>

\* Slips the runs must catch: the loop stops after one task, the binding stays,
\* and a task that ended by itself is awaited for ever.
ResumeStopping(s) ==
  /\ victim[s] # NoTask /\ ~Live(victim[s])
  /\ bound' = bound \ {victim[s]}
  /\ doomed' = [doomed EXCEPT ![s] = {}]
  /\ victim' = [victim EXCEPT ![s] = NoTask]
  /\ session' = [session EXCEPT ![s] = "closed"]
  /\ UNCHANGED <<tracked, managerVars, handlerVars, interrupted, answered>>
ResumeKeepingBinding(s) ==
  /\ victim[s] # NoTask /\ ~Live(victim[s])
  /\ doomed' = [doomed EXCEPT ![s] = @ \ {victim[s]}]
  /\ victim' = [victim EXCEPT ![s] = NoTask]
  /\ session' = [session EXCEPT ![s] = IF doomed[s] = {victim[s]} THEN "closed" ELSE "ending"]
  /\ UNCHANGED <<tracked, bound, managerVars, handlerVars, interrupted, answered>>
ResumeIfCancelled(s) ==
  /\ victim[s] # NoTask /\ status[victim[s]] = "cancelled"
  /\ bound' = bound \ {victim[s]}
  /\ doomed' = [doomed EXCEPT ![s] = @ \ {victim[s]}]
  /\ victim' = [victim EXCEPT ![s] = NoTask]
  /\ session' = [session EXCEPT ![s] = IF doomed[s] = {victim[s]} THEN "closed" ELSE "ending"]
  /\ UNCHANGED <<tracked, managerVars, handlerVars, interrupted, answered>>

\* manager.cancel returns, or raises because the task is already done: either
\* way the binding is popped and the loop goes on.
TeardownResume(s) ==
  /\ victim[s] # NoTask /\ ~Live(victim[s])
  /\ bound' = bound \ {victim[s]}
  /\ doomed' = [doomed EXCEPT ![s] = @ \ {victim[s]}]
  /\ victim' = [victim EXCEPT ![s] = NoTask]
  /\ session' = [session EXCEPT ![s] = IF doomed[s] = {victim[s]} THEN "closed" ELSE "ending"]
  /\ UNCHANGED <<tracked, managerVars, handlerVars, interrupted, answered>>

\* In a cancelled scope an await raises CancelledError, which `except Exception`
\* does not catch: the ids left in the popped list are forgotten.
TeardownInterrupted(s) ==
  /\ s \in interrupted /\ victim[s] # NoTask
  /\ session' = [session EXCEPT ![s] = "closed"]
  /\ doomed' = [doomed EXCEPT ![s] = {}]
  /\ victim' = [victim EXCEPT ![s] = NoTask]
  /\ UNCHANGED <<tracked, bound, managerVars, handlerVars, interrupted, answered>>

------------------------------------------------------------------------------
Handler(r) ==
  \/ \E s \in Sessions, how \in Routes, p \in BOOLEAN : Submit(r, s, how, p)
  \/ \E t \in Tasks : Accept(r, t)
  \/ Reject(r)
  \/ Recorded(r)
  \/ \E s \in Sessions, t \in Tasks : CancelTool(r, s, t)
  \/ CancelToolDone(r)
  \/ Abort(r)

Manager(t) == Start(t) \/ (\E how \in {"completed", "failed"} : End(t, how)) \/ ManagerCancels(t)

Transport(s) ==
  \/ Connect(s)
  \/ \E fromOutside \in BOOLEAN : Disconnect(s, fromOutside)
  \/ Teardown(s)
  \/ \E t \in Tasks : TeardownVisit(s, t)
  \/ TeardownResume(s)
  \/ TeardownInterrupted(s)

Next ==
  \/ \E r \in Requests : Handler(r)
  \/ \E t \in Tasks : Manager(t)
  \/ \E s \in Sessions : Transport(s)

\* The event loop resumes every handler and every teardown that can go on, and
\* the manager delivers every cancellation; clients and modules owe nothing.
Fairness ==
  /\ \A r \in Requests : /\ WF_vars(\E t \in Tasks : Accept(r, t))
                         /\ WF_vars(Reject(r))
                         /\ WF_vars(Recorded(r))
                         /\ WF_vars(CancelToolDone(r))
  /\ \A t \in Tasks : WF_vars(ManagerCancels(t))
  /\ \A s \in Sessions : /\ WF_vars(Teardown(s))
                         /\ WF_vars(\E t \in Tasks : TeardownVisit(s, t))
                         /\ WF_vars(TeardownResume(s))

Spec == Init /\ [][Next]_vars
FairSpec == Spec /\ Fairness

------------------------------------------------------------------------------
(* Properties *)

TypeOK ==
  /\ session \in [Sessions -> {"new", "open", "draining", "ending", "closed"}]
  /\ tracked \in [Sessions -> SUBSET Tasks]
  /\ doomed \in [Sessions -> SUBSET Tasks]
  /\ victim \in [Sessions -> Tasks \cup {NoTask}]
  /\ bound \subseteq Tasks
  /\ status \in [Tasks -> {"none", "pending", "running", "completed", "failed", "cancelled"}]
  /\ pc \in [Requests -> {"idle", "submitting", "accepted", "cancelling", "done"}]
  /\ origin \in [Requests -> Sessions \cup {NoSession}]
  /\ route \in [Requests -> Routes \cup {"none"}]
  /\ progress \in [Requests -> BOOLEAN]
  /\ task \in [Requests -> Tasks \cup {NoTask}]
  /\ interrupted \subseteq Sessions
  /\ asked \in [Tasks -> SUBSET (Sessions \cup {Client})]
  /\ answered \in [Sessions -> SUBSET Tasks]

\* The tasks of session s that an async-hinted call started and answered.
Hinted(s) == {t \in answered[s] : \E r \in Requests : route[r] = "hinted" /\ task[r] = t}

\* cancel_session_tasks reaches every task of the session: once a session whose
\* scope was not cancelled from outside is closed, no task an async-hinted call
\* answered in it still runs, whatever the tasks, the other sessions and the
\* cancel tool did during its awaits (async_task_bridge.py:200-222).
DisconnectCancelsTracked ==
  \A s \in Sessions \ interrupted : session[s] = "closed" => \A t \in Hinted(s) : ~Live(t)

\* The same of their progress bindings: none outlives the session.
NoBindingOutlivesSession ==
  \A s \in Sessions \ interrupted : session[s] = "closed" => bound \cap Hinted(s) = {}

\* Sessions are isolated: the end of a session cancels only tasks it was given
\* the id of, and not before server.run has returned for it
\* (transport.py:91-122).
TeardownStaysInSession ==
  \A t \in Tasks, s \in Sessions :
    s \in asked[t] => t \in Hinted(s) /\ session[s] \in {"ending", "closed"}

\* What transport.py:79-81 says of set_async_task_bridge: any task submitted
\* under a session is cancelled when its client disconnects.  The meta tool
\* __apcore_task_submit passes no session key, so its tasks run on.
DisconnectCancelsAll ==
  \A s \in Sessions \ interrupted : session[s] = "closed" => \A t \in answered[s] : ~Live(t)

\* Disconnect cleanup ends: a session that is being torn down is closed in the
\* end, although its tasks may end by themselves or be cancelled by a client
\* while cancel_session_tasks awaits them.
DisconnectsComplete == \A s \in Sessions : session[s] = "draining" ~> session[s] = "closed"

\* Towards its clients the bridge is what TaskSessions specifies: whatever runs during
\* its awaits, a session ends the tasks it answered for async-hinted calls and no other.
Phase == [s \in Sessions |-> IF session[s] = "draining" THEN "open"
                             ELSE IF session[s] = "ending" THEN "closing" ELSE session[s]]
Life == [t \in Tasks |-> IF Live(t) THEN "running"
                         ELSE IF status[t] \in {"completed", "failed"} THEN "ended" ELSE status[t]]
Owned == [s \in Sessions |-> Hinted(s)]
Requested == {t \in Tasks : Client \in asked[t]}
Contract == INSTANCE TaskSessions WITH phase <- Phase, owned <- Owned, life <- Life,
                                       requested <- Requested, severed <- interrupted
ImplementsContract == Contract!Spec
==============================================================================

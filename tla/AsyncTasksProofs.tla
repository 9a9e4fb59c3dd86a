-------------------------- MODULE AsyncTasksProofs ---------------------------
(***************************************************************************)
(* What AsyncTasks guarantees for every number of handlers, sessions and   *)
(* tasks: the end of a session reaches every task the bridge tracks for    *)
(* it, and no task of another session.                                     *)
(*                                                                         *)
(* The invariant splits in two.  Ownership is about handlers: one handler  *)
(* creates a task, and an id nobody has created has no envelope, no list   *)
(* and no canceller.  SessionState is about sessions: until teardown the   *)
(* list of a session is exactly what its hinted calls answered; from then  *)
(* on every such task is still to be visited or has ended.                 *)
(***************************************************************************)
EXTENDS AsyncTasks, TLAPS

\* What a handler holds at each of its awaits.
Phases ==
  \A r \in Requests :
    /\ pc[r] = "idle" => route[r] = "none" /\ task[r] = NoTask /\ origin[r] = NoSession
    /\ pc[r] = "submitting" => route[r] # "none" /\ task[r] = NoTask /\ origin[r] \in Sessions
    /\ pc[r] = "accepted" => route[r] # "none" /\ task[r] \in Tasks /\ origin[r] \in Sessions
    /\ pc[r] = "cancelling" => route[r] = "none" /\ task[r] \in Tasks /\ origin[r] \in Sessions

OneCreator ==
  \A r, q \in Requests :
    route[r] # "none" /\ route[q] # "none" /\ task[r] = task[q] /\ task[r] # NoTask => r = q

KnownTasks ==
  /\ \A r \in Requests : task[r] # NoTask => status[task[r]] # "none"
  /\ \A s \in Sessions : \A t \in answered[s] : status[t] # "none"
  /\ \A r \in Requests : pc[r] = "accepted" => \A s \in Sessions : task[r] \notin answered[s]

Ownership == TypeOK /\ Phases /\ OneCreator /\ KnownTasks

SessionState(s) ==
  /\ session[s] \in {"new", "open", "draining"} =>
       tracked[s] = Hinted(s) /\ doomed[s] = {} /\ victim[s] = NoTask
  /\ session[s] \in {"new", "ending", "closed"} => ~Busy(s)
  /\ session[s] = "closed" => doomed[s] = {} /\ victim[s] = NoTask
  /\ doomed[s] \subseteq Hinted(s)
  /\ victim[s] # NoTask => victim[s] \in doomed[s]
  /\ session[s] \in {"ending", "closed"} /\ s \notin interrupted =>
       \A t \in Hinted(s) \ doomed[s] : ~Live(t) /\ t \notin bound

IInv == Ownership /\ (\A s \in Sessions : SessionState(s)) /\ TeardownStaysInSession

------------------------------------------------------------------------------
(* Ownership *)

LEMMA InitOwnership == Init => Ownership
BY AsyncAssumption DEF Init, Ownership, TypeOK, Phases, OneCreator, KnownTasks

LEMMA HandlerKeepsOwnership ==
  ASSUME Ownership, NEW r \in Requests, Handler(r)
  PROVE  Ownership'
<1> USE AsyncAssumption DEF Ownership
<1>1. ASSUME NEW s \in Sessions, NEW how \in Routes, NEW p \in BOOLEAN, Submit(r, s, how, p)
      PROVE  Ownership'
  <2>1. TypeOK'
    BY <1>1 DEF Submit, TypeOK, bridgeVars, managerVars
  <2>2. Phases' /\ OneCreator'
    BY <1>1 DEF Submit, TypeOK, bridgeVars, managerVars, Phases, OneCreator
  <2>3. KnownTasks'
    BY <1>1 DEF Submit, TypeOK, bridgeVars, managerVars, Phases, KnownTasks
  <2> QED BY <2>1, <2>2, <2>3
<1>2. ASSUME NEW t \in Tasks, Accept(r, t) PROVE Ownership'
  <2>1. TypeOK'
    BY <1>2 DEF Accept, TypeOK, bridgeVars
  <2>2. Phases'
    BY <1>2 DEF Accept, TypeOK, bridgeVars, Phases
  <2>3. OneCreator'
    BY <1>2 DEF Accept, TypeOK, bridgeVars, Phases, OneCreator, KnownTasks
  <2>4. KnownTasks'
    BY <1>2 DEF Accept, TypeOK, bridgeVars, Phases, KnownTasks
  <2> QED BY <2>1, <2>2, <2>3, <2>4
<1>3. ASSUME Reject(r) PROVE Ownership'
  BY <1>3 DEF Reject, TypeOK, bridgeVars, managerVars, Phases, OneCreator, KnownTasks
<1>4. ASSUME Recorded(r) PROVE Ownership'
  <2>0. task[r] \in Tasks /\ origin[r] \in Sessions /\ status[task[r]] # "none"
    BY <1>4 DEF Recorded, Phases, KnownTasks
  <2>1. TypeOK'
    BY <1>4, <2>0 DEF Recorded, TypeOK, managerVars
  <2>2. Phases' /\ OneCreator'
    BY <1>4 DEF Recorded, TypeOK, managerVars, Phases, OneCreator
  <2>3. KnownTasks'
    <3>1. ASSUME NEW s \in Sessions PROVE answered'[s] \subseteq answered[s] \cup {task[r]}
      BY <1>4 DEF Recorded, TypeOK
    <3>2. ASSUME NEW q \in Requests, pc'[q] = "accepted" PROVE task[q] # task[r]
      BY <1>4, <3>2 DEF Recorded, TypeOK, Phases, OneCreator
    <3> QED BY <1>4, <2>0, <3>1, <3>2 DEF Recorded, TypeOK, managerVars, KnownTasks
  <2> QED BY <2>1, <2>2, <2>3
<1>5. ASSUME NEW s \in Sessions, NEW t \in Tasks, CancelTool(r, s, t) PROVE Ownership'
  <2>1. TypeOK'
    BY <1>5 DEF CancelTool, TypeOK, bridgeVars
  <2>2. Phases' /\ OneCreator'
    BY <1>5 DEF CancelTool, TypeOK, bridgeVars, Phases, OneCreator
  <2>3. KnownTasks'
    BY <1>5 DEF CancelTool, TypeOK, bridgeVars, Phases, KnownTasks
  <2> QED BY <2>1, <2>2, <2>3
<1>6. ASSUME CancelToolDone(r) PROVE Ownership'
  BY <1>6 DEF CancelToolDone, TypeOK, managerVars, Phases, OneCreator, KnownTasks
<1>7. ASSUME Abort(r) PROVE Ownership'
  BY <1>7 DEF Abort, TypeOK, bridgeVars, managerVars, Phases, OneCreator, KnownTasks
<1> QED BY <1>1, <1>2, <1>3, <1>4, <1>5, <1>6, <1>7 DEF Handler

LEMMA ManagerKeepsOwnership ==
  ASSUME Ownership, NEW t \in Tasks, Manager(t)
  PROVE  Ownership'
<1> USE AsyncAssumption DEF Ownership
<1>1. ASSUME Start(t) PROVE Ownership'
  BY <1>1 DEF Start, TypeOK, bridgeVars, handlerVars, Phases, OneCreator, KnownTasks
<1>2. ASSUME NEW how \in {"completed", "failed"}, End(t, how) PROVE Ownership'
  BY <1>2 DEF End, TypeOK, bridgeVars, handlerVars, Phases, OneCreator, KnownTasks
<1>3. ASSUME ManagerCancels(t) PROVE Ownership'
  BY <1>3 DEF ManagerCancels, TypeOK, bridgeVars, handlerVars, Phases, OneCreator, KnownTasks
<1> QED BY <1>1, <1>2, <1>3 DEF Manager

LEMMA TransportKeepsOwnership ==
  ASSUME Ownership, NEW s \in Sessions, Transport(s)
  PROVE  Ownership'
<1> USE AsyncAssumption DEF Ownership
<1>1. UNCHANGED <<status, handlerVars, answered>>
  BY DEF Transport, Connect, Disconnect, Teardown, TeardownVisit, TeardownResume,
         TeardownInterrupted, managerVars
<1>2. Phases' /\ OneCreator' /\ KnownTasks'
  BY <1>1 DEF handlerVars, Phases, OneCreator, KnownTasks
<1>3. TypeOK'
  <2>1. ASSUME Connect(s) PROVE TypeOK'
    BY <2>1 DEF Connect, TypeOK, bridgeVars, handlerVars, managerVars
  <2>2. ASSUME NEW b \in BOOLEAN, Disconnect(s, b) PROVE TypeOK'
    BY <2>2 DEF Disconnect, TypeOK, bridgeVars, handlerVars, managerVars
  <2>3. ASSUME Teardown(s) PROVE TypeOK'
    BY <2>3 DEF Teardown, TypeOK, handlerVars, managerVars
  <2>4. ASSUME NEW t \in Tasks, TeardownVisit(s, t) PROVE TypeOK'
    BY <2>4 DEF TeardownVisit, TypeOK, handlerVars
  <2>5. ASSUME TeardownResume(s) PROVE TypeOK'
    BY <2>5 DEF TeardownResume, TypeOK, handlerVars, managerVars
  <2>6. ASSUME TeardownInterrupted(s) PROVE TypeOK'
    BY <2>6 DEF TeardownInterrupted, TypeOK, handlerVars, managerVars
  <2> QED BY <2>1, <2>2, <2>3, <2>4, <2>5, <2>6 DEF Transport
<1> QED BY <1>2, <1>3

------------------------------------------------------------------------------
(* Sessions *)

LEMMA InitSessions == Init => (\A s \in Sessions : SessionState(s)) /\ TeardownStaysInSession
BY AsyncAssumption DEF Init, SessionState, Hinted, Busy, TeardownStaysInSession

\* Only the handler that records its task adds to what a session owns.
LEMMA QuietHandlers ==
  ASSUME Ownership, NEW r \in Requests,
         \/ \E s \in Sessions, how \in Routes, p \in BOOLEAN : Submit(r, s, how, p)
         \/ \E t \in Tasks : Accept(r, t)
         \/ \E s \in Sessions, t \in Tasks : CancelTool(r, s, t)
         \/ Reject(r) \/ CancelToolDone(r) \/ Abort(r)
  PROVE  \A s \in Sessions : Hinted(s)' = Hinted(s)
<1> USE AsyncAssumption DEF Ownership
<1>1. answered' = answered
  BY DEF Submit, Accept, CancelTool, Reject, CancelToolDone, Abort
<1>2. ASSUME NEW s \in Sessions, NEW t \in answered[s], NEW q \in Requests
      PROVE  (route'[q] = "hinted" /\ task'[q] = t) <=> (route[q] = "hinted" /\ task[q] = t)
  <2>1. t # NoTask /\ status[t] # "none"
    BY DEF TypeOK, KnownTasks
  <2>2. CASE \E w \in Sessions, how \in Routes, p \in BOOLEAN : Submit(r, w, how, p)
    BY <2>1, <2>2 DEF Submit, TypeOK, Phases
  <2>3. CASE \E u \in Tasks : Accept(r, u)
    BY <2>1, <2>3 DEF Accept, TypeOK, Phases
  <2>4. CASE \E w \in Sessions, u \in Tasks : CancelTool(r, w, u)
    BY <2>1, <2>4 DEF CancelTool, TypeOK, Phases
  <2>5. CASE Reject(r) \/ CancelToolDone(r) \/ Abort(r)
    BY <2>5 DEF Reject, CancelToolDone, Abort
  <2> QED BY <2>2, <2>3, <2>4, <2>5
<1> QED BY <1>1, <1>2 DEF Hinted

\* A handler that stays within its phases touches no session but through Recorded.
LEMMA HandlerKeepsSessions ==
  ASSUME IInv, NEW r \in Requests, Handler(r)
  PROVE  (\A s \in Sessions : SessionState(s)') /\ TeardownStaysInSession'
<1> USE AsyncAssumption DEF IInv, Ownership
<1>1. CASE \/ \E s \in Sessions, how \in Routes, p \in BOOLEAN : Submit(r, s, how, p)
           \/ \E t \in Tasks : Accept(r, t)
           \/ \E s \in Sessions, t \in Tasks : CancelTool(r, s, t)
           \/ Reject(r) \/ CancelToolDone(r) \/ Abort(r)
  <2>1. /\ UNCHANGED <<session, tracked, doomed, victim, interrupted, answered>>
        /\ bound' \subseteq bound
        /\ \A t \in Tasks : asked'[t] \cap Sessions = asked[t] \cap Sessions
    BY <1>1 DEF Submit, Accept, CancelTool, Reject, CancelToolDone, Abort, bridgeVars,
                managerVars, TypeOK
  <2>2. \A s \in Sessions : \A t \in answered[s] : Live(t)' => Live(t)
    BY <1>1 DEF Submit, Accept, CancelTool, Reject, CancelToolDone, Abort, managerVars,
                KnownTasks, TypeOK, Live
  <2>3. \A s \in Sessions : Hinted(s)' = Hinted(s)
    BY <1>1, QuietHandlers
  <2>4. ASSUME NEW s \in Sessions, session[s] \in {"new", "ending", "closed"}, ~Busy(s)
        PROVE  ~Busy(s)'
    BY <1>1, <2>4 DEF Submit, Accept, CancelTool, Reject, CancelToolDone, Abort, Busy,
                      Phases, TypeOK
  <2>5. ASSUME NEW s \in Sessions PROVE SessionState(s)'
    <3>1. Hinted(s) \subseteq answered[s]
      BY DEF Hinted
    <3> QED BY <2>1, <2>2, <2>3, <2>4, <3>1 DEF SessionState
  <2>6. TeardownStaysInSession'
    BY <2>1, <2>3 DEF TeardownStaysInSession
  <2> QED BY <2>5, <2>6
<1>2. ASSUME Recorded(r) PROVE (\A s \in Sessions : SessionState(s)') /\ TeardownStaysInSession'
  <2> DEFINE o == origin[r]
             k == task[r]
  <2>1. /\ o \in Sessions /\ k \in Tasks /\ route[r] # "none" /\ pc[r] = "accepted"
        /\ \A s \in Sessions : k \notin answered[s]
    BY <1>2 DEF Recorded, Phases, KnownTasks
  <2>2. Busy(o) /\ session[o] \in {"open", "draining"}
    BY <2>1 DEF Busy, SessionState, TypeOK
  <2>3. /\ UNCHANGED <<session, doomed, victim, interrupted, route, task, origin, status, asked>>
        /\ \A s \in Sessions \ {o} : answered'[s] = answered[s] /\ tracked'[s] = tracked[s]
        /\ answered'[o] = answered[o] \cup {k}
        /\ bound' \subseteq bound \cup {k}
        /\ pc' = [pc EXCEPT ![r] = "done"]
    BY <1>2, <2>1 DEF Recorded, TypeOK, managerVars
  <2>4. \A s \in Sessions \ {o} : Hinted(s)' = Hinted(s)
    BY <2>3 DEF Hinted
  <2>5. tracked'[o] = IF route[r] = "hinted" THEN tracked[o] \cup {k} ELSE tracked[o]
    BY <1>2, <2>1 DEF Recorded, TypeOK
  <2>6. Hinted(o)' = IF route[r] = "hinted" THEN Hinted(o) \cup {k} ELSE Hinted(o)
    <3>1. (\E q \in Requests : route[q] = "hinted" /\ task[q] = k) <=> route[r] = "hinted"
      BY <2>1 DEF OneCreator
    <3> QED BY <2>3, <3>1 DEF Hinted
  <2>7. \A s \in Sessions : ~Busy(s) => ~Busy(s)'
    BY <2>3 DEF Busy, TypeOK
  <2>8. \A t \in Tasks : Live(t)' <=> Live(t)
    BY <2>3 DEF Live
  <2>9. ASSUME NEW s \in Sessions PROVE SessionState(s)'
    <3>1. CASE s = o
      BY <3>1, <2>2, <2>3, <2>5, <2>6 DEF SessionState
    <3>2. CASE s # o
      <4>1. SessionState(s) /\ Hinted(s) \subseteq answered[s] /\ answered[s] \subseteq Tasks
        BY DEF Hinted, TypeOK
      <4> QED BY <3>2, <4>1, <2>1, <2>3, <2>4, <2>7, <2>8 DEF SessionState
    <3> QED BY <3>1, <3>2
  <2>10. TeardownStaysInSession'
    BY <2>3, <2>4, <2>6 DEF TeardownStaysInSession
  <2> QED BY <2>9, <2>10
<1> QED BY <1>1, <1>2 DEF Handler

\* The manager only starts and ends tasks.
LEMMA ManagerKeepsSessions ==
  ASSUME IInv, NEW t \in Tasks, Manager(t)
  PROVE  (\A s \in Sessions : SessionState(s)') /\ TeardownStaysInSession'
<1>1. /\ UNCHANGED <<session, bridgeVars, asked, handlerVars, interrupted, answered>>
      /\ \A u \in Tasks : Live(u)' => Live(u)
  BY DEF Manager, Start, End, ManagerCancels, Live, IInv, Ownership, TypeOK
<1>2. \A s \in Sessions : Hinted(s)' = Hinted(s) /\ Hinted(s) \subseteq Tasks
  BY <1>1 DEF Hinted, handlerVars, IInv, Ownership, TypeOK
<1>3. \A s \in Sessions : ~Busy(s) => ~Busy(s)'
  BY <1>1 DEF Busy, handlerVars
<1>4. \A s \in Sessions : SessionState(s)'
  BY <1>1, <1>2, <1>3 DEF SessionState, bridgeVars, IInv
<1>5. TeardownStaysInSession'
  BY <1>1, <1>2 DEF TeardownStaysInSession, IInv
<1> QED BY <1>4, <1>5

\* A transport step only moves its own session along.
LEMMA TransportKeepsSessions ==
  ASSUME IInv, NEW s \in Sessions, Transport(s)
  PROVE  (\A w \in Sessions : SessionState(w)') /\ TeardownStaysInSession'
<1> USE AsyncAssumption DEF IInv, Ownership
<1>1. /\ UNCHANGED <<status, handlerVars, answered>>
      /\ bound' \subseteq bound
      /\ \A w \in Sessions \ {s} :
           /\ session'[w] = session[w] /\ tracked'[w] = tracked[w]
           /\ doomed'[w] = doomed[w] /\ victim'[w] = victim[w]
           /\ w \in interrupted' <=> w \in interrupted
  BY DEF Transport, Connect, Disconnect, Teardown, TeardownVisit, TeardownResume,
         TeardownInterrupted, managerVars, bridgeVars, TypeOK
<1>2. \A w \in Sessions : /\ Hinted(w)' = Hinted(w) /\ (Busy(w)' <=> Busy(w))
                        /\ Hinted(w) \subseteq Tasks
  BY <1>1 DEF Hinted, Busy, handlerVars, TypeOK
<1>3. \A t \in Tasks : Live(t)' <=> Live(t)
  BY <1>1 DEF Live
<1>4. ASSUME NEW w \in Sessions, w # s PROVE SessionState(w)'
  BY <1>1, <1>2, <1>3, <1>4 DEF SessionState
<1>5. SessionState(s)'
  <2> USE <1>1, <1>2, <1>3
  <2>1. CASE Connect(s)
    BY <2>1 DEF Connect, bridgeVars, SessionState, TypeOK
  <2>2. CASE \E b \in BOOLEAN : Disconnect(s, b)
    BY <2>2 DEF Disconnect, bridgeVars, SessionState, TypeOK
  <2>3. CASE Teardown(s)
    BY <2>3 DEF Teardown, SessionState, TypeOK
  <2>4. CASE \E t \in Tasks : TeardownVisit(s, t)
    BY <2>4 DEF TeardownVisit, SessionState, TypeOK
  <2>5. CASE TeardownResume(s)
    BY <2>5 DEF TeardownResume, SessionState, TypeOK
  <2>6. CASE TeardownInterrupted(s)
    BY <2>6 DEF TeardownInterrupted, SessionState, TypeOK
  <2> QED BY <2>1, <2>2, <2>3, <2>4, <2>5, <2>6 DEF Transport
<1>6. TeardownStaysInSession'
  <2>1. CASE \E t \in Tasks : TeardownVisit(s, t)
    BY <2>1, <1>2 DEF TeardownVisit, TypeOK, SessionState, TeardownStaysInSession
  <2>2. CASE asked' = asked
    <3>1. ASSUME session[s] \in {"ending", "closed"} PROVE session'[s] \in {"ending", "closed"}
      BY <3>1 DEF Transport, Connect, Disconnect, Teardown, TeardownVisit, TeardownResume,
                  TeardownInterrupted, TypeOK
    <3> QED BY <2>2, <3>1, <1>1, <1>2 DEF TeardownStaysInSession
  <2> QED BY <2>1, <2>2 DEF Transport, Connect, Disconnect, Teardown, TeardownResume,
                            TeardownInterrupted, managerVars
<1> QED BY <1>4, <1>5, <1>6

------------------------------------------------------------------------------
(* The theorems *)

LEMMA StepKeepsIInv == IInv /\ [Next]_vars => IInv'
<1> SUFFICES ASSUME IInv, [Next]_vars PROVE IInv'
  OBVIOUS
<1>1. ASSUME NEW r \in Requests, Handler(r) PROVE IInv'
  BY <1>1, HandlerKeepsOwnership, HandlerKeepsSessions DEF IInv
<1>2. ASSUME NEW t \in Tasks, Manager(t) PROVE IInv'
  BY <1>2, ManagerKeepsOwnership, ManagerKeepsSessions DEF IInv
<1>3. ASSUME NEW s \in Sessions, Transport(s) PROVE IInv'
  BY <1>3, TransportKeepsOwnership, TransportKeepsSessions DEF IInv
<1>4. CASE UNCHANGED vars
  BY <1>4 DEF vars, bridgeVars, managerVars, handlerVars, IInv, Ownership, TypeOK, Phases,
              OneCreator, KnownTasks, SessionState, TeardownStaysInSession, Hinted, Busy, Live
<1> QED BY <1>1, <1>2, <1>3, <1>4 DEF Next

\* Ownership and SessionState hold in every reachable state.
THEOREM Invariance == Spec => []IInv
<1>1. Init => IInv
  BY InitOwnership, InitSessions DEF IInv
<1> QED BY <1>1, StepKeepsIInv, PTL DEF Spec

\* Every variable keeps its type.
THEOREM TypeCorrect == Spec => []TypeOK
<1>1. IInv => TypeOK
  BY DEF IInv, Ownership
<1> QED BY <1>1, Invariance, PTL

\* When a session whose scope was not cancelled is closed, no task a hinted
\* call answered in it still runs.
THEOREM TrackedAreCancelled == Spec => []DisconnectCancelsTracked
<1>1. IInv => DisconnectCancelsTracked
  BY DEF IInv, SessionState, DisconnectCancelsTracked
<1> QED BY <1>1, Invariance, PTL

\* Nor is any of these tasks still bound to a progress token.
THEOREM BindingsAreDropped == Spec => []NoBindingOutlivesSession
<1>1. IInv => NoBindingOutlivesSession
  BY DEF IInv, SessionState, NoBindingOutlivesSession
<1> QED BY <1>1, Invariance, PTL

\* The end of a session cancels no task of another.
THEOREM SessionsAreIsolated == Spec => []TeardownStaysInSession
<1>1. IInv => TeardownStaysInSession
  BY DEF IInv
<1> QED BY <1>1, Invariance, PTL

------------------------------------------------------------------------------
(* Where every submission takes the hinted route, the end of a session reaches *)
(* every task answered in it.                                                  *)

\* An envelope names a task that some submission created.
Answerers ==
  \A s \in Sessions : \A t \in answered[s] :
    \E r \in Requests : route[r] # "none" /\ task[r] = t

LEMMA StepKeepsAnswerers ==
  ASSUME IInv, Answerers, [Next]_vars
  PROVE  Answerers'
<1> USE AsyncAssumption
<1>1. TypeOK /\ Phases
  BY DEF IInv, Ownership
\* No handler changes the task or the route of a submission that has its task.
<1>2. ASSUME NEW q \in Requests, route[q] # "none", task[q] # NoTask
      PROVE  route'[q] # "none" /\ task'[q] = task[q]
  <2>1. ASSUME NEW r \in Requests, Handler(r)
        PROVE  route'[q] # "none" /\ task'[q] = task[q]
    BY <1>1, <1>2, <2>1 DEF Handler, Submit, Accept, Reject, Recorded, CancelTool,
                            CancelToolDone, Abort, Phases, TypeOK
  <2>2. ASSUME UNCHANGED handlerVars PROVE route'[q] # "none" /\ task'[q] = task[q]
    BY <1>2, <2>2 DEF handlerVars
  <2> QED BY <2>1, <2>2 DEF Next, vars, Manager, Start, End, ManagerCancels, Transport,
                            Connect, Disconnect, Teardown, TeardownVisit, TeardownResume,
                            TeardownInterrupted
<1>3. SUFFICES ASSUME NEW s \in Sessions, NEW t \in answered'[s]
               PROVE  \E r \in Requests : route'[r] # "none" /\ task'[r] = t
  BY DEF Answerers
<1>4. CASE t \in answered[s]
  <2>1. PICK r \in Requests : route[r] # "none" /\ task[r] = t
    BY <1>4 DEF Answerers
  <2>2. task[r] # NoTask
    BY <2>1, <1>4, <1>1 DEF TypeOK
  <2> QED BY <2>1, <2>2, <1>2
<1>5. CASE t \notin answered[s]
  <2>1. PICK r \in Requests : Recorded(r)
    BY <1>5 DEF Next, vars, Handler, Submit, Accept, Reject, CancelTool, CancelToolDone, Abort,
                Manager, Start, End, ManagerCancels, Transport, Connect, Disconnect, Teardown,
                TeardownVisit, TeardownResume, TeardownInterrupted
  <2>2. pc[r] = "accepted" /\ t = task[r] /\ task' = task /\ route' = route
    BY <2>1, <1>5, <1>1 DEF Recorded, TypeOK
  <2> QED BY <2>2, <1>1 DEF Phases
<1> QED BY <1>4, <1>5

\* What transport.py says of the bridge holds of async-hinted calls alone: a task
\* outlives its session only where __apcore_task_submit created it.
THEOREM HintedAreAllCancelled ==
  ASSUME Routes \subseteq {"hinted"} PROVE Spec => []DisconnectCancelsAll
<1>1. Init => Answerers
  BY DEF Init, Answerers
<1>2. IInv /\ Answerers /\ [Next]_vars => Answerers'
  BY StepKeepsAnswerers
<1>3. IInv /\ Answerers => DisconnectCancelsAll
  <2> SUFFICES ASSUME IInv, Answerers, NEW s \in Sessions \ interrupted, session[s] = "closed",
                      NEW t \in answered[s]
               PROVE  ~Live(t)
    BY DEF DisconnectCancelsAll
  <2>1. PICK r \in Requests : route[r] # "none" /\ task[r] = t
    BY DEF Answerers
  <2>2. route[r] = "hinted"
    BY <2>1 DEF IInv, Ownership, TypeOK
  <2>3. t \in Hinted(s)
    BY <2>1, <2>2 DEF Hinted
  <2> QED BY <2>3 DEF IInv, SessionState
<1> QED BY <1>1, <1>2, <1>3, Invariance, PTL DEF Spec

------------------------------------------------------------------------------
(* The bridge implements TaskSessions *)

LEMMA InitImplements == Init => Contract!Init
<1> SUFFICES ASSUME Init PROVE Contract!Init
  OBVIOUS
<1>1. Phase = [s \in Sessions |-> "new"] /\ Life = [t \in Tasks |-> "none"]
  BY DEF Init, Phase, Life, Live
<1>2. Owned = [s \in Sessions |-> {}] /\ Requested = {}
  BY DEF Init, Owned, Requested, Hinted
<1> QED BY <1>1, <1>2 DEF Init, Contract!Init

\* Each part of the mapping depends on a part of the state.
LEMMA MappedFrom ==
  /\ session' = session => Phase' = Phase
  /\ (\A s \in Sessions : Hinted(s)' = Hinted(s)) => Owned' = Owned
  /\ status' = status => Life' = Life
  /\ asked' = asked => Requested' = Requested
BY DEF Phase, Owned, Life, Live, Requested

\* While a handler is at an await its session serves.
LEMMA BusyIsOpen ==
  ASSUME IInv, NEW r \in Requests, pc[r] \notin {"idle", "done"}
  PROVE  origin[r] \in Sessions /\ Phase[origin[r]] = "open"
<1>1. origin[r] \in Sessions
  BY DEF IInv, Ownership, TypeOK, Phases
<1>2. session[origin[r]] \in {"open", "draining"}
  BY <1>1 DEF IInv, Ownership, TypeOK, SessionState, Busy
<1> QED BY <1>1, <1>2 DEF Phase

LEMMA HandlerImplements ==
  ASSUME IInv, NEW r \in Requests, Handler(r)
  PROVE  [Contract!Next]_(Contract!sessionsVars)
<1> USE AsyncAssumption
<1>1. TypeOK /\ Phases /\ Ownership
  BY DEF IInv, Ownership
<1>2. CASE \/ \E s \in Sessions, how \in Routes, p \in BOOLEAN : Submit(r, s, how, p)
           \/ Reject(r) \/ CancelToolDone(r) \/ Abort(r)
  <2>1. UNCHANGED <<session, status, asked, interrupted>>
    BY <1>2 DEF Submit, Reject, CancelToolDone, Abort, managerVars
  <2>2. \A s \in Sessions : Hinted(s)' = Hinted(s)
    BY <1>1, <1>2, QuietHandlers
  <2> QED BY <2>1, <2>2, MappedFrom DEF Contract!sessionsVars
<1>3. ASSUME NEW t \in Tasks, Accept(r, t) PROVE Contract!Start(t)
  <2>1. Contract!Serving
    BY <1>3, BusyIsOpen DEF Accept, Contract!Serving
  <2>2. Life[t] = "none" /\ Life' = [Life EXCEPT ![t] = "running"]
    BY <1>1, <1>3 DEF Accept, Life, Live, TypeOK
  <2>3. UNCHANGED <<session, asked, interrupted>>
    BY <1>3 DEF Accept
  <2>4. \A s \in Sessions : Hinted(s)' = Hinted(s)
    BY <1>1, <1>3, QuietHandlers
  <2> QED BY <2>1, <2>2, <2>3, <2>4, MappedFrom DEF Contract!Start
<1>4. ASSUME NEW s \in Sessions, NEW t \in Tasks, CancelTool(r, s, t) PROVE Contract!Request(t)
  <2>1. Contract!Serving
    <3>1. Phase[s] = "open"
      BY <1>4 DEF CancelTool, Phase
    <3> QED BY <3>1 DEF Contract!Serving
  <2>2. Life[t] # "none"
    BY <1>1, <1>4 DEF CancelTool, Life, Live, TypeOK
  <2>3. Requested' = Requested \cup {t}
    BY <1>1, <1>4 DEF CancelTool, Requested, TypeOK
  <2>4. UNCHANGED <<session, status, interrupted>>
    BY <1>4 DEF CancelTool
  <2>5. \A w \in Sessions : Hinted(w)' = Hinted(w)
    BY <1>1, <1>4, QuietHandlers
  <2> QED BY <2>1, <2>2, <2>3, <2>4, <2>5, MappedFrom DEF Contract!Request
<1>5. CASE Recorded(r)
  <2> DEFINE o == origin[r]
             t == task[r]
  <2>1. pc[r] = "accepted" /\ t \in Tasks /\ status[t] # "none"
        /\ UNCHANGED <<session, status, asked, interrupted, route, task>>
    BY <1>1, <1>5 DEF Recorded, Phases, Ownership, KnownTasks, managerVars
  <2>2. o \in Sessions /\ Phase[o] = "open"
    BY <2>1, BusyIsOpen
  <2>3. answered' = [answered EXCEPT ![o] = @ \cup {t}]
    BY <1>5 DEF Recorded
  <2>4. UNCHANGED <<Phase, Life, Requested, interrupted>>
    BY <2>1, MappedFrom
  <2>5. CASE route[r] = "hinted"
    <3>1. Owned' = [Owned EXCEPT ![o] = @ \cup {t}]
      <4>1. \A w \in Sessions : answered'[w] = IF w = o THEN answered[w] \cup {t} ELSE answered[w]
        BY <1>1, <2>3 DEF TypeOK
      <4>2. \A w \in Sessions : Hinted(w)' = IF w = o THEN Hinted(w) \cup {t} ELSE Hinted(w)
        BY <2>1, <2>5, <4>1 DEF Hinted
      <4> HIDE DEF o, t
      <4> QED BY <2>2, <4>2 DEF Owned
    <3>2. Life[t] # "none"
      BY <2>1, <1>1 DEF Life, Live, TypeOK
    <3>3. \A w \in Sessions : t \notin Owned[w]
      BY <1>1, <2>1 DEF Owned, Hinted, Ownership, KnownTasks
    <3>4. Contract!Own(o, t)
      BY <2>2, <2>4, <3>1, <3>2, <3>3 DEF Contract!Own
    <3> QED BY <2>1, <2>2, <3>4 DEF Contract!Next
  <2>6. CASE route[r] # "hinted"
    <3>1. ~\E q \in Requests : route[q] = "hinted" /\ task[q] = t
      BY <1>1, <2>1, <2>6 DEF Ownership, OneCreator, Phases
    <3>2. \A w \in Sessions : Hinted(w)' = Hinted(w)
      BY <1>1, <2>1, <2>2, <2>3, <3>1 DEF Hinted, TypeOK
    <3> QED BY <2>4, <3>2, MappedFrom DEF Contract!sessionsVars
  <2> QED BY <2>5, <2>6
<1> QED BY <1>2, <1>3, <1>4, <1>5 DEF Handler, Contract!Next

LEMMA ManagerImplements ==
  ASSUME IInv, NEW t \in Tasks, Manager(t)
  PROVE  [Contract!Next]_(Contract!sessionsVars)
<1>1. TypeOK /\ TeardownStaysInSession
  BY DEF IInv, Ownership
<1>2. /\ UNCHANGED <<session, asked, interrupted>>
      /\ \A s \in Sessions : Hinted(s)' = Hinted(s)
  BY DEF Manager, Start, End, ManagerCancels, handlerVars, Hinted
<1>3. UNCHANGED <<Phase, Owned, Requested, interrupted>>
  BY <1>2, MappedFrom
<1>4. CASE Start(t)
  <2>1. Life' = Life
    BY <1>1, <1>4 DEF Start, Life, Live, TypeOK
  <2> QED BY <1>3, <2>1 DEF Contract!sessionsVars
<1>5. ASSUME NEW how \in {"completed", "failed"}, End(t, how) PROVE Contract!Finish(t)
  <2>1. Life[t] = "running" /\ Life' = [Life EXCEPT ![t] = "ended"]
    BY <1>1, <1>5 DEF End, Life, Live, TypeOK
  <2> QED BY <1>3, <2>1 DEF Contract!Finish
<1>6. ASSUME ManagerCancels(t) PROVE Contract!Cancel(t)
  <2>1. Life[t] = "running" /\ Life' = [Life EXCEPT ![t] = "cancelled"]
    BY <1>1, <1>6 DEF ManagerCancels, Life, Live, TypeOK
  <2>2. CASE Client \in asked[t]
    BY <1>3, <2>1, <2>2 DEF Requested, Contract!Cancel
  <2>3. CASE Client \notin asked[t]
    <3>1. PICK s \in Sessions : s \in asked[t]
      BY <1>1, <1>6, <2>3 DEF ManagerCancels, TypeOK
    <3>2. t \in Owned[s] /\ Phase[s] \in {"closing", "closed"}
      BY <1>1, <3>1 DEF TeardownStaysInSession, Owned, Phase
    <3> QED BY <1>3, <2>1, <3>2 DEF Contract!Cancel
  <2> QED BY <2>2, <2>3
<1> QED BY <1>4, <1>5, <1>6 DEF Manager, Contract!Next

LEMMA TransportImplements ==
  ASSUME IInv, IInv', NEW s \in Sessions, Transport(s)
  PROVE  [Contract!Next]_(Contract!sessionsVars)
<1> USE AsyncAssumption
<1>1. TypeOK /\ SessionState(s) /\ SessionState(s)'
  BY DEF IInv, Ownership
<1>2. /\ status' = status
      /\ \A w \in Sessions : Hinted(w)' = Hinted(w)
  BY DEF Transport, Connect, Disconnect, Teardown, TeardownVisit, TeardownResume,
         TeardownInterrupted, managerVars, handlerVars, Hinted
<1>3. UNCHANGED <<Owned, Life>>
  BY <1>2, MappedFrom
<1>4. CASE Connect(s)
  <2>1. Phase[s] = "new" /\ Phase' = [Phase EXCEPT ![s] = "open"]
    BY <1>1, <1>4 DEF Connect, Phase, TypeOK
  <2>2. UNCHANGED <<Requested, interrupted>>
    BY <1>4, MappedFrom DEF Connect, managerVars
  <2> QED BY <1>3, <2>1, <2>2 DEF Contract!Next, Contract!Open
<1>5. ASSUME NEW b \in BOOLEAN, Disconnect(s, b) PROVE [Contract!Next]_(Contract!sessionsVars)
  <2>1. Phase[s] = "open" /\ Phase' = Phase
    BY <1>1, <1>5 DEF Disconnect, Phase, TypeOK
  <2>2. Requested' = Requested
    BY <1>5, MappedFrom DEF Disconnect, managerVars
  <2>3. interrupted' \in {interrupted, interrupted \cup {s}}
    BY <1>5 DEF Disconnect
  <2> QED BY <1>3, <2>1, <2>2, <2>3 DEF Contract!Next, Contract!Sever, Contract!sessionsVars
<1>6. CASE Teardown(s)
  <2>1. Phase[s] = "open" /\ Owned[s] = tracked[s]
    BY <1>1, <1>6 DEF Teardown, Phase, Owned, SessionState
  <2>2. Phase' = [Phase EXCEPT ![s] = IF Owned[s] = {} THEN "closed" ELSE "closing"]
    BY <1>1, <1>6, <2>1 DEF Teardown, Phase, TypeOK
  <2>3. UNCHANGED <<Requested, interrupted>>
    BY <1>6, MappedFrom DEF Teardown, managerVars
  <2>4. CASE Owned[s] = {}
    BY <1>3, <2>1, <2>2, <2>3, <2>4 DEF Contract!Next, Contract!Close
  <2>5. CASE Owned[s] # {}
    BY <1>3, <2>1, <2>2, <2>3, <2>5 DEF Contract!Next, Contract!Leave
  <2> QED BY <2>4, <2>5
<1>7. ASSUME NEW t \in Tasks, TeardownVisit(s, t) PROVE UNCHANGED Contract!sessionsVars
  <2>1. session' = session /\ interrupted' = interrupted
    BY <1>7 DEF TeardownVisit
  <2>2. Requested' = Requested
    BY <1>1, <1>7 DEF TeardownVisit, Requested, TypeOK
  <2> QED BY <1>3, <2>1, <2>2, MappedFrom DEF Contract!sessionsVars
<1>8. CASE TeardownResume(s) \/ TeardownInterrupted(s)
  <2>1. session[s] = "ending" /\ session' \in {session, [session EXCEPT ![s] = "closed"]}
    BY <1>1, <1>8 DEF TeardownResume, TeardownInterrupted, SessionState, TypeOK
  <2>2. UNCHANGED <<Requested, interrupted>>
    BY <1>8, MappedFrom DEF TeardownResume, TeardownInterrupted, managerVars
  <2>3. CASE session' = session
    BY <1>3, <2>2, <2>3, MappedFrom DEF Contract!sessionsVars
  <2>4. CASE session' = [session EXCEPT ![s] = "closed"]
    <3>1. Phase[s] = "closing" /\ Phase' = [Phase EXCEPT ![s] = "closed"]
      BY <1>1, <2>1, <2>4 DEF Phase, TypeOK
    <3>2. s \in interrupted \/ \A t \in Owned[s] : Life[t] # "running"
      <4> SUFFICES ASSUME s \notin interrupted, NEW t \in Hinted(s) PROVE Life[t] # "running"
        BY DEF Owned
      <4>1. session'[s] = "closed"
        BY <1>1, <2>4 DEF TypeOK
      <4>2. t \in Hinted(s)' /\ t \notin doomed'[s] /\ s \notin interrupted'
        BY <1>1, <1>2, <2>2, <4>1 DEF SessionState
      <4>3. ~Live(t)' /\ t \in Tasks
        BY <1>1, <4>1, <4>2 DEF SessionState, Hinted, TypeOK
      <4> QED BY <1>2, <4>3 DEF Live, Life
    <3> QED BY <1>3, <2>2, <3>1, <3>2 DEF Contract!Next, Contract!Close
  <2> QED BY <2>1, <2>3, <2>4
<1> QED BY <1>4, <1>5, <1>6, <1>7, <1>8 DEF Transport

LEMMA StepImplements ==
  ASSUME IInv, [Next]_vars
  PROVE  [Contract!Next]_(Contract!sessionsVars)
<1>1. IInv'
  BY StepKeepsIInv
<1>2. CASE UNCHANGED vars
  <2>1. \A s \in Sessions : Hinted(s)' = Hinted(s)
    BY <1>2 DEF vars, handlerVars, Hinted
  <2> QED BY <1>2, <2>1, MappedFrom DEF vars, managerVars, Contract!sessionsVars
<1> QED BY <1>1, <1>2, HandlerImplements, ManagerImplements, TransportImplements DEF Next

\* However many sessions, calls and tasks there are, and whatever happens while the
\* bridge awaits, its sessions keep what TaskSessions promises of them.
THEOREM Implements == Spec => ImplementsContract
<1>1. IInv /\ [Next]_vars => [Contract!Next]_(Contract!sessionsVars)
  BY StepImplements
<1> QED BY <1>1, InitImplements, Invariance, PTL DEF Spec, ImplementsContract, Contract!Spec
==============================================================================

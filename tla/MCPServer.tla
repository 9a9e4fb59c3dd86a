------------------------------- MODULE MCPServer ------------------------------
(***************************************************************************)
(* An MCPServer in a background thread (server/server.py) beside other     *)
(* programs of the process that want stdout.  start() creates the thread   *)
(* and waits for it to be ready; the thread builds the application inside  *)
(* its output scope, runs the serving task on a loop of its own, cancels   *)
(* it, closes the loop and leaves the scope; stop() reaches the loop from  *)
(* any thread.  An error that ends the thread is left in _start_error.     *)
(*                                                                         *)
(* One thread calls start() and wait().  _stopped is set but never read.   *)
(***************************************************************************)
EXTENDS StdioOwnership

CONSTANTS Thread,     \* the context of the server's thread
          Task,       \* the context of its serving task
          Stoppers    \* callers of stop()

Hosts == Contexts \ {Thread, Task}

\* start() makes a thread of its own for the server and its task.
ASSUME ServerAssumption ==
  /\ Thread \in Contexts /\ Task \in Contexts /\ Thread # Task
  /\ \A c \in Contexts : ThreadOf[c] = ThreadOf[Thread] <=> c \in {Thread, Task}

VARIABLES
  stdio,       \* the transport is stdio
  run,         \* where the thread is
  loop,        \* _loop: "none", "open" or "closed"
  stopQueued,  \* a loop.stop is scheduled on the loop
  task,        \* the serving task
  failed,      \* an exception is on its way out of _run
  startError,  \* _start_error is set
  started,     \* _started is set
  starter,     \* the caller of start() and wait()
  stopper      \* each caller of stop()

threadVars == <<run, loop, stopQueued, task, failed>>
callerVars == <<starter, stopper>>
serverVars == <<stdio, threadVars, startError, started, callerVars>>
vars == <<stdioVars, serverVars>>

Init ==
  /\ StdioInit
  /\ stdio \in BOOLEAN
  /\ run = "none" /\ loop = "none" /\ stopQueued = FALSE
  /\ task = "none" /\ failed = FALSE
  /\ startError = FALSE /\ started = FALSE
  /\ starter = "idle" /\ stopper = [u \in Stoppers |-> "idle"]

------------------------------------------------------------------------------
(* Callers *)

Start ==
  /\ starter = "idle"
  /\ starter' = "starting"
  /\ run' = "entering"
  /\ UNCHANGED <<stdioVars, stdio, loop, stopQueued, task, failed, startError, started, stopper>>

\* _started.wait(timeout=10) returns, in time or not, and start() raises if it
\* finds an error.
StartReturns ==
  /\ starter = "starting"
  /\ starter' = IF startError THEN "raised" ELSE IF started THEN "returned" ELSE "timedOut"
  /\ UNCHANGED <<stdioVars, stdio, threadVars, startError, started, stopper>>

Wait ==
  /\ starter \in {"returned", "raised", "timedOut"} /\ run = "ended"
  /\ starter' = "joined"
  /\ UNCHANGED <<stdioVars, stdio, threadVars, startError, started, stopper>>

\* stop() is called, once start() has returned or too soon to be sure of a loop.
StopCall(u) ==
  /\ stopper[u] = "idle"
  /\ stopper' = [stopper EXCEPT ![u] = IF starter = "returned" THEN "stopping" ELSE "hasty"]
  /\ UNCHANGED <<stdioVars, stdio, threadVars, startError, started, starter>>

\* It schedules loop.stop if there is a loop; one that is closed already raises.
StopEffect(u) ==
  /\ stopper[u] \in {"stopping", "hasty"}
  /\ stopQueued' = (stopQueued \/ loop = "open")
  /\ stopper' = [stopper EXCEPT ![u] = "done"]
  /\ UNCHANGED <<stdioVars, stdio, run, loop, task, failed, startError, started, starter>>

------------------------------------------------------------------------------
(* The thread *)

Quiet == UNCHANGED <<stdio, loop, stopQueued, task, startError, started, callerVars>>

\* output_scope(transport)
Enter ==
  /\ run = "entering"
  /\ \/ ~stdio /\ run' = "building" /\ UNCHANGED <<stdioVars, failed>>
     \/ stdio /\ Claim(Thread) /\ UNCHANGED <<run, failed>>
     \/ stdio /\ ClaimDenied(Thread) /\ run' = "except" /\ failed' = TRUE
     \/ stdio /\ Own(Thread) /\ run' = "building" /\ UNCHANGED failed
     \/ stdio /\ OwnRefused(Thread) /\ run' = "except" /\ failed' = TRUE
  /\ Quiet

\* _build_app and _build_serve_coro succeed and the loop is made, or one raises.
Build ==
  /\ run = "building"
  /\ \/ run' = "ready" /\ loop' = "open" /\ UNCHANGED failed
     \/ run' = "leaving" /\ failed' = TRUE /\ UNCHANGED loop
  /\ UNCHANGED <<stdioVars, stdio, stopQueued, task, startError, started, callerVars>>

\* _started is set, the task is created in a copy of this context.
Ready ==
  /\ run = "ready"
  /\ run' = "serving" /\ started' = TRUE /\ task' = "created"
  /\ IF stdio THEN Inherit(Task) ELSE UNCHANGED stdioVars
  /\ UNCHANGED <<stdio, loop, stopQueued, failed, startError, callerVars>>

\* run_until_complete(serve_task) returns or raises: the task is done, or the
\* loop was stopped under it.
ServeReturns ==
  /\ run = "serving" /\ task = "done"
  /\ run' = "finalizing"
  /\ UNCHANGED <<stdioVars, stdio, loop, stopQueued, task, failed, startError, started, callerVars>>

ServeStopped ==
  /\ run = "serving" /\ stopQueued
  /\ run' = "finalizing" /\ stopQueued' = FALSE
  /\ failed' = (failed \/ task # "done")
  /\ UNCHANGED <<stdioVars, stdio, loop, task, startError, started, callerVars>>

\* Slip the runs must catch: a running task is waited for but not cancelled.
FinalizeWaits ==
  /\ run = "finalizing" /\ task = "created"
  /\ task' = "done"
  /\ UNCHANGED <<stdioVars, stdio, run, loop, stopQueued, failed, startError, started, callerVars>>

\* _finalize_loop: cancel the serving task, wait for it, finish what is left.
FinalizeCancels ==
  /\ run = "finalizing" /\ task \in {"created", "running"}
  /\ task' = IF task = "created" THEN "done" ELSE "cancelling"
  /\ UNCHANGED <<stdioVars, stdio, run, loop, stopQueued, failed, startError, started, callerVars>>

Finalized ==
  /\ run = "finalizing" /\ task = "done"
  /\ run' = "closing"
  /\ UNCHANGED <<stdioVars, stdio, loop, stopQueued, task, failed, startError, started, callerVars>>

\* A loop.stop scheduled late ends the loop under _finalize_loop.
FinalizeStopped ==
  /\ run = "finalizing" /\ stopQueued
  /\ run' = "closing" /\ stopQueued' = FALSE /\ failed' = TRUE
  /\ UNCHANGED <<stdioVars, stdio, loop, task, startError, started, callerVars>>

CloseLoop ==
  /\ run = "closing"
  /\ run' = "leaving" /\ loop' = "closed" /\ stopQueued' = FALSE
  /\ UNCHANGED <<stdioVars, stdio, task, failed, startError, started, callerVars>>

\* The output scope is left; poisoning stdout raises.
Leave ==
  /\ run = "leaving"
  /\ \/ ~stdio /\ run' = "except" /\ UNCHANGED <<stdioVars, failed>>
     \/ stdio /\ Disown(Thread) /\ UNCHANGED <<run, failed>>
     \/ stdio /\ Restore(Thread) /\ failed' = (failed \/ poisoned') /\ UNCHANGED run
     \/ stdio /\ Unlock(Thread) /\ run' = "except" /\ UNCHANGED failed
  /\ Quiet

\* Slip the runs must catch: start() is woken before the error is stored.
ExceptSignalsFirst ==
  /\ run = "except"
  /\ run' = IF failed THEN "signalling" ELSE "ended"
  /\ started' = (started \/ failed)
  /\ UNCHANGED <<stdioVars, stdio, loop, stopQueued, task, failed, startError, callerVars>>

\* except Exception: store the error, then wake start() up.
Except ==
  /\ run = "except"
  /\ run' = IF failed THEN "signalling" ELSE "ended"
  /\ startError' = failed
  /\ UNCHANGED <<stdioVars, stdio, loop, stopQueued, task, failed, started, callerVars>>

Signal ==
  /\ run = "signalling"
  /\ run' = "ended" /\ started' = TRUE
  /\ UNCHANGED <<stdioVars, stdio, loop, stopQueued, task, failed, startError, callerVars>>

------------------------------------------------------------------------------
(* The serving task, while the loop runs *)

LoopRuns == run \in {"serving", "finalizing"}
TaskLeaves == IF Task \in serving THEN TransportExit(Task) ELSE UNCHANGED stdioVars
TaskQuiet == UNCHANGED <<stdio, run, loop, stopQueued, startError, started, callerVars>>

\* The transport starts.
TaskServes ==
  /\ LoopRuns /\ task = "created"
  /\ task' = "running"
  /\ IF stdio THEN TransportEnter(Task) ELSE UNCHANGED stdioVars
  /\ UNCHANGED failed /\ TaskQuiet

\* It ends because its clients are gone, or fails: a port in use, for one.
\* uvicorn's SystemExit is no Exception and goes unrecorded.
TaskEnds ==
  /\ LoopRuns /\ task = "running"
  /\ task' = "done"
  /\ TaskLeaves
  /\ failed' \in {failed, TRUE} /\ TaskQuiet

\* It has been cancelled and its cleanup is over.
TaskUnwinds ==
  /\ LoopRuns /\ task = "cancelling"
  /\ task' = "done"
  /\ TaskLeaves
  /\ UNCHANGED failed /\ TaskQuiet

------------------------------------------------------------------------------
ServerThread ==
  \/ Enter \/ Build \/ Ready \/ ServeReturns \/ ServeStopped
  \/ FinalizeCancels \/ Finalized \/ FinalizeStopped \/ CloseLoop \/ Leave
  \/ Except \/ Signal

Next ==
  \/ Start \/ StartReturns \/ Wait
  \/ \E u \in Stoppers : StopCall(u) \/ StopEffect(u)
  \/ ServerThread
  \/ TaskServes \/ TaskEnds \/ TaskUnwinds
  \/ \E c \in Hosts : Host(c) /\ UNCHANGED serverVars

\* The thread runs, its loop delivers what is scheduled and a cancelled task
\* finishes its cleanup.  Clients need not leave, hosts need not finish.
Fairness ==
  /\ WF_vars(ServerThread) /\ WF_vars(TaskUnwinds)
  /\ WF_vars(\E u \in Stoppers : StopEffect(u))

Spec == Init /\ [][Next]_vars
FairSpec == Spec /\ Fairness

TypeOK ==
  /\ StdioTypeOK
  /\ stdio \in BOOLEAN
  /\ run \in {"none", "entering", "building", "ready", "serving", "finalizing", "closing",
              "leaving", "except", "signalling", "ended"}
  /\ loop \in {"none", "open", "closed"} /\ stopQueued \in BOOLEAN
  /\ task \in {"none", "created", "running", "cancelling", "done"}
  /\ failed \in BOOLEAN /\ startError \in BOOLEAN /\ started \in BOOLEAN
  /\ starter \in {"idle", "starting", "returned", "raised", "timedOut", "joined"}
  /\ stopper \in [Stoppers -> {"idle", "stopping", "hasty", "done"}]

\* start() returns normally only when there is a loop: a claim on stdout that is
\* denied or an application that cannot be built is raised to the caller, who
\* reads _start_error in another thread than the one that sets it.
StartReportsFailure == starter = "returned" => loop # "none"

\* A stop() after start() has returned ends the thread, whatever it was doing:
\* it serves, it ends by itself, or it finalizes already.
StopStops == \A u \in Stoppers : stopper[u] = "stopping" ~> run = "ended"

\* What the docstring of _finalize_loop promises (server/server.py:238): the loop
\* it owns is cleaned up before process stdout is released.
CleanupBeforeRelease == At(Thread, "leaving") => Task \notin serving
==============================================================================

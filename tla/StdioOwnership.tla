---------------------------- MODULE StdioOwnership ---------------------------
(***************************************************************************)
(* Ownership of process stdout while it carries the MCP protocol           *)
(* (_stdio.py).  Execution contexts (threads, and tasks that copied the    *)
(* context of the scope they were created in) enter and leave scopes:      *)
(* configured_output redirects diagnostics while it loads configuration,   *)
(* stdio_output claims the protocol channel, and a transport inside it     *)
(* claims it once more.  Redirection is shared and counted; the claim is   *)
(* exclusive in the process.  What runs under _diagnostics_lock is one     *)
(* action; the steps of a claim are actions of their own.                  *)
(*                                                                         *)
(* fd1 is where a write to stdout goes: file descriptor 1, or sys.stdout   *)
(* and the stream handlers when stdout has no descriptor.  An owner object *)
(* is identified with the context that created it; each context claims at  *)
(* most once.  Nested scopes that are no transport change nothing.         *)
(***************************************************************************)
EXTENDS Naturals, FiniteSets

CONSTANTS Contexts,   \* execution contexts
          Threads,    \* their threads
          ThreadOf,   \* the thread each context runs on
          NoContext

ASSUME StdioAssumption ==
  /\ ThreadOf \in [Contexts -> Threads]
  /\ NoContext \notin Contexts

VARIABLES
  lock,      \* holder of _owner_lock
  owner,     \* _owner
  claimed,   \* owners whose transport_active is set
  scope,     \* _owner_context in each context
  users,     \* users of the shared redirection, 0 when there is none
  fd1,       \* where stdout goes: "protocol" or "diagnostics"
  poisoned,  \* _poisoned_reason is set
  boot,      \* contexts inside the bootstrap scope of configured_output
  stage,     \* how far each context is with stdio_output
  serving    \* contexts inside stdio_output(transport=True)

claimVars == <<lock, owner, claimed, scope>>
diagnosticVars == <<users, fd1, poisoned>>
stdioVars == <<claimVars, diagnosticVars, boot, stage, serving>>

StdioInit ==
  /\ lock = NoContext /\ owner = NoContext
  /\ claimed = {}
  /\ scope = [c \in Contexts |-> NoContext]
  /\ users = 0 /\ fd1 = "protocol" /\ poisoned = FALSE
  /\ boot = {}
  /\ stage = [c \in Contexts |-> "out"]
  /\ serving = {}

At(c, s) == stage[c] = s
Goto(c, s) == stage' = [stage EXCEPT ![c] = s]

\* current is _owner and current.thread_id == get_ident()
Nested(c) ==
  scope[c] # NoContext /\ scope[c] = owner /\ ThreadOf[c] = ThreadOf[owner]

------------------------------------------------------------------------------
(* The shared redirection *)

\* Slip the runs must catch: the poison is not looked at.
DiagnosticEnterAnyway ==
  /\ users' = users + 1
  /\ fd1' = "diagnostics"
  /\ UNCHANGED poisoned

\* _diagnostic_scope is entered: the first user redirects.
DiagnosticEnter ==
  /\ ~poisoned
  /\ users' = users + 1
  /\ fd1' = "diagnostics"
  /\ UNCHANGED poisoned

\* It cannot be entered: stdout is poisoned, or the first user fails to redirect,
\* which leaves everything as it was.
DiagnosticRefused == poisoned \/ users = 0

\* Slip the runs must catch: whoever leaves first restores.
DiagnosticExitEager ==
  /\ users' = users - 1
  /\ fd1' = "protocol"
  /\ UNCHANGED poisoned
\* It is left: the last user restores stdout, or, when the flush or the dup2
\* fails, leaves it on the diagnostic destination for good.
DiagnosticExit ==
  /\ users' = users - 1
  /\ IF users > 1 THEN UNCHANGED <<fd1, poisoned>>
     ELSE \/ fd1' = "protocol" /\ UNCHANGED poisoned
          \/ poisoned' = TRUE /\ UNCHANGED fd1

\* configured_output, outermost: configuration is loaded under redirection.
BootEnter(c) ==
  /\ At(c, "out") /\ c \notin boot
  /\ DiagnosticEnter
  /\ boot' = boot \cup {c}
  /\ UNCHANGED <<claimVars, stage, serving>>

BootRefused(c) ==
  /\ At(c, "out") /\ c \notin boot
  /\ DiagnosticRefused
  /\ Goto(c, "done")
  /\ UNCHANGED <<claimVars, diagnosticVars, boot, serving>>

\* The claim was made or refused, an HTTP transport needs none, or loading failed.
BootExit(c) ==
  /\ c \in boot /\ stage[c] \in {"out", "owning", "done"}
  /\ DiagnosticExit
  /\ boot' = boot \ {c}
  /\ Goto(c, IF At(c, "out") THEN "done" ELSE stage[c])
  /\ UNCHANGED <<claimVars, serving>>

------------------------------------------------------------------------------
(* The claim *)

\* A task or a worker thread started inside the owner's scope copies its context.
Inherit(c) ==
  /\ At(c, "out") /\ scope[c] = NoContext /\ owner # NoContext
  /\ scope' = [scope EXCEPT ![c] = owner]
  /\ UNCHANGED <<lock, owner, claimed, diagnosticVars, boot, stage, serving>>

\* Slip the runs must catch: the claim is not exclusive.
ClaimAnyway(c) ==
  /\ At(c, "out") /\ ~Nested(c)
  /\ lock' = c
  /\ Goto(c, "claiming")
  /\ UNCHANGED <<owner, claimed, scope, diagnosticVars, boot, serving>>

\* stdio_output outside any scope of this thread: acquire(blocking=False).
Claim(c) ==
  /\ At(c, "out") /\ ~Nested(c)
  /\ lock = NoContext
  /\ lock' = c
  /\ Goto(c, "claiming")
  /\ UNCHANGED <<owner, claimed, scope, diagnosticVars, boot, serving>>

ClaimDenied(c) ==
  /\ At(c, "out") /\ ~Nested(c)
  /\ lock # NoContext
  /\ Goto(c, "done")
  /\ UNCHANGED <<claimVars, diagnosticVars, boot, serving>>

Own(c) ==
  /\ At(c, "claiming")
  /\ DiagnosticEnter
  /\ owner' = c
  /\ scope' = [scope EXCEPT ![c] = c]
  /\ Goto(c, "owning")
  /\ UNCHANGED <<lock, claimed, boot, serving>>

\* Slip the runs must catch: the lock is not released when redirection fails.
OwnRefusedLocked(c) ==
  /\ At(c, "claiming")
  /\ DiagnosticRefused
  /\ Goto(c, "done")
  /\ UNCHANGED <<claimVars, diagnosticVars, boot, serving>>

\* Redirection is refused: the finally gives the lock back.
OwnRefused(c) ==
  /\ At(c, "claiming")
  /\ DiagnosticRefused
  /\ lock' = NoContext
  /\ Goto(c, "done")
  /\ UNCHANGED <<owner, claimed, scope, diagnosticVars, boot, serving>>

\* Leaving takes three steps: the owner, the redirection, the lock.
Disown(c) ==
  /\ At(c, "owning") /\ c \notin boot /\ c \notin serving
  /\ owner' = NoContext
  /\ scope' = [scope EXCEPT ![c] = NoContext]
  /\ Goto(c, "leaving")
  /\ UNCHANGED <<lock, claimed, diagnosticVars, boot, serving>>

\* Slip the runs must catch: the redirection is left more than once.
RestoreAgain(c) ==
  /\ At(c, "leaving")
  /\ DiagnosticExit
  /\ UNCHANGED <<claimVars, boot, stage, serving>>

Restore(c) ==
  /\ At(c, "leaving")
  /\ DiagnosticExit
  /\ Goto(c, "unlocking")
  /\ UNCHANGED <<claimVars, boot, serving>>

Unlock(c) ==
  /\ At(c, "unlocking")
  /\ lock' = NoContext
  /\ Goto(c, "done")
  /\ UNCHANGED <<owner, claimed, scope, diagnosticVars, boot, serving>>

------------------------------------------------------------------------------
(* Transports *)

\* run_stdio enters stdio_output(transport=True) inside the owner's scope.
TransportEnter(c) ==
  /\ stage[c] \in {"out", "owning"} /\ Nested(c) /\ c \notin boot /\ c \notin serving
  /\ owner \notin claimed
  /\ claimed' = claimed \cup {owner}
  /\ serving' = serving \cup {c}
  /\ UNCHANGED <<lock, owner, scope, diagnosticVars, boot, stage>>

\* A second active transport is refused.
TransportDenied(c) ==
  /\ At(c, "out") /\ Nested(c) /\ owner \in claimed /\ c \notin serving
  /\ Goto(c, "done")
  /\ UNCHANGED <<claimVars, diagnosticVars, boot, serving>>

TransportExit(c) ==
  /\ c \in serving
  /\ claimed' = claimed \ {scope[c]}
  /\ serving' = serving \ {c}
  /\ UNCHANGED <<lock, owner, scope, diagnosticVars, boot, stage>>

------------------------------------------------------------------------------
\* A program that serves: serve() or async code of the host on its own thread.
\* asyncio.run has ended its tasks by the time it leaves the scope.
Host(c) ==
  \/ BootEnter(c) \/ BootRefused(c) \/ BootExit(c)
  \/ Inherit(c)
  \/ Claim(c) \/ ClaimDenied(c) \/ Own(c) \/ OwnRefused(c)
  \/ TransportEnter(c) \/ TransportDenied(c) \/ TransportExit(c)
  \/ (\A d \in serving : scope[d] # c) /\ Disown(c)
  \/ Restore(c) \/ Unlock(c)

StdioTypeOK ==
  /\ lock \in Contexts \cup {NoContext} /\ owner \in Contexts \cup {NoContext}
  /\ claimed \subseteq Contexts /\ scope \in [Contexts -> Contexts \cup {NoContext}]
  /\ users \in Nat /\ fd1 \in {"protocol", "diagnostics"} /\ poisoned \in BOOLEAN
  /\ boot \subseteq Contexts /\ serving \subseteq Contexts
  /\ stage \in [Contexts -> {"out", "claiming", "owning", "leaving", "unlocking", "done"}]

\* Nothing but the protocol reaches the channel while a transport uses it: stdout
\* is redirected for as long, although others share the redirection and leave it.
ProtocolIsClean == serving # {} => fd1 = "diagnostics" /\ users > 0

Holding == {"claiming", "owning", "leaving", "unlocking"}
Guards ==
  {<<c, "boot">> : c \in boot} \cup {<<c, "claim">> : c \in {d \in Contexts : stage[d] \in {"owning", "leaving"}}}

Channel == INSTANCE ExclusiveChannel WITH
  Users <- Contexts, Nobody <- NoContext, holder <- lock,
  inside <- {c \in Contexts : stage[c] \in Holding}, guards <- Guards,
  using <- serving, output <- fd1, broken <- poisoned

\* Lock, counter and context variables make an exclusive channel, however threads
\* and tasks enter and leave, fail on the way in or fail to restore: one transport
\* at a time, under a claim and a redirection that others share (_stdio.py:154);
\* stdout is given back by the last to leave or never again (_stdio.py:83); and a
\* claim that failed or ended locks nobody out (_stdio.py:184).
ImplementsChannel == Channel!Spec

\* A process of such programs alone.
StdioSpec == StdioInit /\ [][\E c \in Contexts : Host(c)]_stdioVars
==============================================================================

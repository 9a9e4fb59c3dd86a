---------------------------- MODULE MCPServerProofs ---------------------------
(***************************************************************************)
(* Programs that claim stdout implement ExclusiveChannel, for any number   *)
(* of contexts on any number of threads; and so does an MCPServer beside   *)
(* them, while it is stopped once.                                         *)
(*                                                                         *)
(* Balanced ties together what _stdio.py keeps apart: the lock and the     *)
(* owner belong to the context inside a claim, the counter counts the      *)
(* guards that stand.  It survives anything.  OneServes, that a transport  *)
(* is nested in the owner's scope, needs whoever gives up ownership to     *)
(* wait for its transports: hosts do, and Sheltered says when a server     *)
(* does.                                                                   *)
(***************************************************************************)
EXTENDS MCPServer, FiniteSetTheorems, TLAPS

\* The lock and the owner are those of the context inside a claim.
OneClaim == \A c \in Contexts :
  /\ stage[c] \in Holding <=> lock = c
  /\ stage[c] = "owning" <=> owner = c

\* The counter counts, and stdout is redirected while it does.
Counted ==
  /\ IsFiniteSet(Guards) /\ users = Cardinality(Guards)
  /\ Guards # {} => fd1 = "diagnostics"

Balanced == StdioTypeOK /\ OneClaim /\ Counted

\* One transport, in the owner's scope and on its thread, has its mark.
OneServes ==
  /\ \A d \in serving : Nested(d)
  /\ \A d, e \in serving : d = e
  /\ claimed = IF serving = {} THEN {} ELSE {owner}

\* Whatever a context does to stdout, and what of it leaves the guards alone.
Keeping(c) ==
  \/ BootRefused(c) \/ Inherit(c) \/ Claim(c) \/ ClaimDenied(c) \/ OwnRefused(c)
  \/ TransportEnter(c) \/ TransportDenied(c) \/ TransportExit(c) \/ Disown(c) \/ Unlock(c)
Acts(c) == BootEnter(c) \/ BootExit(c) \/ Own(c) \/ Restore(c) \/ Keeping(c)

\* It gives up ownership with nobody in its scope.
Alone(c) == Disown(c) => \A d \in serving : scope[d] # c

------------------------------------------------------------------------------
(* Guards come and go one at a time *)

LEMMA GuardAdded ==
  ASSUME Counted, DiagnosticEnter, NEW g, g \notin Guards, Guards' = Guards \cup {g}
  PROVE  Counted'
<1>1. IsFiniteSet(Guards') /\ Cardinality(Guards') = Cardinality(Guards) + 1
  BY FS_AddElement DEF Counted
<1> QED BY <1>1 DEF Counted, DiagnosticEnter

LEMMA GuardRemoved ==
  ASSUME Counted, DiagnosticExit, NEW g \in Guards, Guards' = Guards \ {g}
  PROVE  /\ Counted'
         /\ users > 1 <=> Guards' # {}
<1>1. IsFiniteSet(Guards') /\ Cardinality(Guards') = Cardinality(Guards) - 1
  BY FS_RemoveElement DEF Counted
<1>2. Cardinality(Guards) \in Nat /\ Cardinality(Guards') \in Nat
  BY <1>1, FS_CardinalityType DEF Counted
<1>3. Guards' = {} <=> Cardinality(Guards') = 0
  BY <1>1, FS_EmptySet
<1>4. users > 1 <=> Guards' # {}
  BY <1>1, <1>2, <1>3 DEF Counted
<1> QED BY <1>1, <1>4 DEF Counted, DiagnosticExit

LEMMA GuardsKept ==
  ASSUME Counted, UNCHANGED diagnosticVars, Guards' = Guards
  PROVE  Counted'
BY DEF Counted, diagnosticVars

\* Which guard an action adds or removes.
LEMMA GuardFacts ==
  ASSUME Balanced, NEW c \in Contexts
  PROVE  /\ BootEnter(c) => <<c, "boot">> \notin Guards /\ Guards' = Guards \cup {<<c, "boot">>}
         /\ Own(c) => <<c, "claim">> \notin Guards /\ Guards' = Guards \cup {<<c, "claim">>}
         /\ BootExit(c) => <<c, "boot">> \in Guards /\ Guards' = Guards \ {<<c, "boot">>}
         /\ Restore(c) => <<c, "claim">> \in Guards /\ Guards' = Guards \ {<<c, "claim">>}
         /\ Keeping(c) => Guards' = Guards /\ UNCHANGED diagnosticVars
<1> USE DEF Balanced, StdioTypeOK, Guards, Goto, At
<1>1. BootEnter(c) => <<c, "boot">> \notin Guards /\ Guards' = Guards \cup {<<c, "boot">>}
  BY DEF BootEnter
<1>2. Own(c) => <<c, "claim">> \notin Guards /\ Guards' = Guards \cup {<<c, "claim">>}
  BY DEF Own
<1>3. BootExit(c) => <<c, "boot">> \in Guards /\ Guards' = Guards \ {<<c, "boot">>}
  BY DEF BootExit
<1>4. Restore(c) => <<c, "claim">> \in Guards /\ Guards' = Guards \ {<<c, "claim">>}
  BY DEF Restore
<1>5. Keeping(c) => Guards' = Guards /\ UNCHANGED diagnosticVars
  BY DEF Keeping, BootRefused, Inherit, Claim, ClaimDenied, OwnRefused, TransportEnter,
         TransportDenied, TransportExit, Disown, Unlock
<1> QED BY <1>1, <1>2, <1>3, <1>4, <1>5

------------------------------------------------------------------------------
(* Nothing upsets the balance *)

LEMMA InitBalanced == StdioInit => Balanced /\ OneServes
<1> SUFFICES ASSUME StdioInit PROVE Balanced /\ OneServes
  OBVIOUS
<1>1. Guards = {}
  BY DEF StdioInit, Guards
<1>2. Counted
  BY <1>1, FS_EmptySet DEF Counted, StdioInit
<1> QED BY <1>2, StdioAssumption DEF Balanced, StdioInit, StdioTypeOK, OneClaim, OneServes, Holding

LEMMA ActsCounted ==
  ASSUME Balanced, NEW c \in Contexts, Acts(c)
  PROVE  /\ Counted'
         /\ BootExit(c) \/ Restore(c) => (users > 1 <=> Guards' # {})
<1>1. CASE BootEnter(c)
  <2>1. ~BootExit(c) /\ ~Restore(c)
    BY <1>1 DEF BootEnter, BootExit, Restore, At
  <2> QED BY <1>1, <2>1, GuardFacts, GuardAdded DEF Balanced, BootEnter
<1>2. CASE Own(c)
  <2>1. ~BootExit(c) /\ ~Restore(c)
    BY <1>2 DEF Own, BootExit, Restore, At
  <2> QED BY <1>2, <2>1, GuardFacts, GuardAdded DEF Balanced, Own
<1>3. CASE BootExit(c)
  BY <1>3, GuardFacts, GuardRemoved DEF Balanced, BootExit
<1>4. CASE Restore(c)
  BY <1>4, GuardFacts, GuardRemoved DEF Balanced, Restore
<1>5. CASE Keeping(c) /\ ~BootExit(c) /\ ~Restore(c)
  BY <1>5, GuardFacts, GuardsKept DEF Balanced
<1> QED BY <1>1, <1>2, <1>3, <1>4, <1>5 DEF Acts

LEMMA ActsBalanced ==
  ASSUME Balanced, NEW c \in Contexts, Acts(c)
  PROVE  Balanced'
<1> USE DEF Goto, At
<1>1. Counted' /\ users' \in Nat
  BY ActsCounted, FS_CardinalityType DEF Counted
<1>2. StdioTypeOK'
  <2> USE DEF Balanced, StdioTypeOK, claimVars
  <2>1. CASE BootRefused(c) \/ ClaimDenied(c) \/ TransportDenied(c) \/ Claim(c)
    BY <2>1 DEF BootRefused, ClaimDenied, TransportDenied, Claim, diagnosticVars
  <2>2. CASE OwnRefused(c) \/ Unlock(c) \/ Disown(c) \/ Inherit(c)
    BY <2>2 DEF OwnRefused, Unlock, Disown, Inherit, diagnosticVars
  <2>3. CASE TransportEnter(c) \/ TransportExit(c)
    BY <2>3 DEF TransportEnter, TransportExit, Nested, diagnosticVars
  <2>4. CASE BootEnter(c) \/ Own(c)
    BY <1>1, <2>4 DEF BootEnter, Own, DiagnosticEnter
  <2>5. CASE BootExit(c) \/ Restore(c)
    BY <1>1, <2>5 DEF BootExit, Restore, DiagnosticExit
  <2> QED BY <2>1, <2>2, <2>3, <2>4, <2>5 DEF Acts, Keeping
<1>3. OneClaim'
  <2> USE DEF Balanced, StdioTypeOK, OneClaim, Holding
  <2>1. CASE Claim(c) \/ OwnRefused(c) \/ Unlock(c)
    BY <2>1, StdioAssumption DEF Claim, OwnRefused, Unlock
  <2>2. CASE Own(c) \/ Disown(c)
    BY <2>2, StdioAssumption DEF Own, Disown
  <2>3. CASE BootRefused(c) \/ ClaimDenied(c) \/ TransportDenied(c) \/ BootExit(c) \/ Restore(c)
    BY <2>3 DEF BootRefused, ClaimDenied, TransportDenied, BootExit, Restore, claimVars
  <2>4. CASE Inherit(c) \/ TransportEnter(c) \/ TransportExit(c) \/ BootEnter(c)
    BY <2>4 DEF Inherit, TransportEnter, TransportExit, BootEnter, claimVars
  <2> QED BY <2>1, <2>2, <2>3, <2>4 DEF Acts, Keeping
<1> QED BY <1>1, <1>2, <1>3 DEF Balanced

LEMMA IdleBalanced ==
  ASSUME UNCHANGED stdioVars
  PROVE  /\ Balanced => Balanced'
         /\ OneServes => OneServes'
         /\ UNCHANGED Channel!channelVars
<1> USE DEF stdioVars, claimVars, diagnosticVars
<1>1. Guards' = Guards /\ {d \in Contexts : stage[d] \in Holding}' = {d \in Contexts : stage[d] \in Holding}
  BY DEF Guards
<1>2. Balanced => Balanced'
  BY <1>1, GuardsKept DEF Balanced, StdioTypeOK, OneClaim
<1>3. OneServes => OneServes'
  BY DEF OneServes, Nested
<1>4. UNCHANGED Channel!channelVars
  BY <1>1 DEF Channel!channelVars
<1> QED BY <1>2, <1>3, <1>4

------------------------------------------------------------------------------
(* Whoever gives up ownership alone keeps the channel exclusive *)

Keeps == OneServes' /\ [Channel!Next]_(Channel!channelVars)

LEMMA RedirectionKeeps ==
  ASSUME Balanced, OneServes, NEW c \in Contexts,
         BootEnter(c) \/ BootExit(c) \/ Own(c) \/ Restore(c)
  PROVE  Keeps
<1> USE DEF Goto, At
<1>1. <<c, "boot">> \in Contexts \X {"boot", "claim"} /\ <<c, "claim">> \in Contexts \X {"boot", "claim"}
  OBVIOUS
<1>2. BootExit(c) \/ Restore(c) => (users > 1 <=> Guards' # {})
  BY ActsCounted DEF Acts
<1>3. BootEnter(c) \/ BootExit(c) => OneServes'
  BY DEF BootEnter, BootExit, claimVars, OneServes, Nested
<1>4. Own(c) \/ Restore(c) => serving = {}
  BY DEF Own, Restore, Balanced, StdioTypeOK, OneClaim, OneServes, Nested, Holding
<1>5. Own(c) \/ Restore(c) => OneServes'
  BY <1>4 DEF Own, Restore, claimVars, OneServes
<1>6. BootEnter(c) \/ BootExit(c) \/ Own(c) \/ Restore(c) =>
        {d \in Contexts : stage[d] \in Holding}' = {d \in Contexts : stage[d] \in Holding}
  BY DEF BootEnter, BootExit, Own, Restore, Balanced, StdioTypeOK, Holding
<1>7. CASE BootEnter(c)
  <2>1. Channel!Guard(<<c, "boot">>)
    BY <1>6, <1>7, GuardFacts DEF Channel!Guard, BootEnter, DiagnosticEnter, claimVars
  <2> QED BY <1>1, <1>3, <1>7, <2>1 DEF Keeps, Channel!Next
<1>8. CASE BootExit(c)
  <2>1. Channel!Unguard(<<c, "boot">>)
    BY <1>2, <1>6, <1>8, GuardFacts DEF Channel!Unguard, BootExit, DiagnosticExit, claimVars
  <2> QED BY <1>1, <1>3, <1>8, <2>1 DEF Keeps, Channel!Next
<1>9. CASE Own(c)
  <2>1. Channel!Guard(<<c, "claim">>)
    BY <1>6, <1>9, GuardFacts DEF Channel!Guard, Own, DiagnosticEnter
  <2> QED BY <1>1, <1>5, <1>9, <2>1 DEF Keeps, Channel!Next
<1>10. CASE Restore(c)
  <2>1. Channel!Unguard(<<c, "claim">>)
    BY <1>2, <1>4, <1>6, <1>10, GuardFacts DEF Channel!Unguard, Restore, DiagnosticExit, claimVars
  <2> QED BY <1>1, <1>5, <1>10, <2>1 DEF Keeps, Channel!Next
<1> QED BY <1>7, <1>8, <1>9, <1>10

LEMMA ClaimKeeps ==
  ASSUME Balanced, OneServes, NEW c \in Contexts, Claim(c) \/ OwnRefused(c) \/ Unlock(c)
  PROVE  Keeps
<1> USE DEF Goto, At, Balanced, StdioTypeOK
<1>1. Guards' = Guards
  BY GuardFacts DEF Keeping
<1>2. OneServes'
  BY DEF Claim, OwnRefused, Unlock, OneServes, Nested
<1>3. CASE Claim(c)
  <2>1. Channel!Enter(c)
    BY <1>1, <1>3 DEF Channel!Enter, Claim, Holding, diagnosticVars
  <2> QED BY <1>2, <2>1 DEF Keeps, Channel!Next
<1>4. CASE OwnRefused(c) \/ Unlock(c)
  <2>1. lock = c /\ <<c, "claim">> \notin Guards
    BY <1>4 DEF OwnRefused, Unlock, OneClaim, Holding, Guards
  <2>2. Channel!Leave(c)
    BY <1>1, <1>4, <2>1 DEF Channel!Leave, OwnRefused, Unlock, Holding, diagnosticVars
  <2> QED BY <1>2, <2>2 DEF Keeps, Channel!Next
<1> QED BY <1>3, <1>4

LEMMA TransportKeeps ==
  ASSUME Balanced, OneServes, NEW c \in Contexts, TransportEnter(c) \/ TransportExit(c)
  PROVE  Keeps
<1>1. Guards' = Guards
  BY GuardFacts DEF Keeping
<1>2. CASE TransportEnter(c)
  <2>1. serving = {} /\ owner \in Contexts /\ lock = owner /\ <<owner, "claim">> \in Guards
    BY <1>2 DEF TransportEnter, Balanced, StdioTypeOK, OneClaim, OneServes, Nested, Guards, Holding
  <2>2. OneServes'
    BY <1>2, <2>1 DEF TransportEnter, OneServes, Nested
  <2>3. Channel!Use(c)
    BY <1>1, <1>2, <2>1 DEF Channel!Use, TransportEnter, diagnosticVars
  <2> QED BY <2>2, <2>3 DEF Keeps, Channel!Next
<1>3. CASE TransportExit(c)
  <2>1. serving = {c} /\ scope[c] = owner
    BY <1>3 DEF TransportExit, OneServes, Nested
  <2>2. OneServes'
    BY <1>3, <2>1 DEF TransportExit, OneServes, Nested
  <2>3. Channel!Finish(c)
    BY <1>1, <1>3 DEF Channel!Finish, TransportExit, diagnosticVars
  <2> QED BY <2>2, <2>3 DEF Keeps, Channel!Next
<1> QED BY <1>2, <1>3

\* What the channel does not see: refusals, inheritance and the end of ownership.
LEMMA UnseenKeeps ==
  ASSUME Balanced, OneServes, NEW c \in Contexts, Alone(c),
         BootRefused(c) \/ ClaimDenied(c) \/ Inherit(c) \/ TransportDenied(c) \/ Disown(c)
  PROVE  Keeps
<1> USE DEF BootRefused, ClaimDenied, Inherit, TransportDenied, Disown, Goto, At
<1>1. Guards' = Guards /\ {d \in Contexts : stage[d] \in Holding}' = {d \in Contexts : stage[d] \in Holding}
  BY GuardFacts DEF Keeping, Balanced, StdioTypeOK, Holding
<1>2. OneServes'
  <2>1. CASE Disown(c)
    <3>1. serving = {}
      BY <2>1 DEF Alone, Balanced, OneClaim, OneServes, Nested
    <3> QED BY <2>1, <3>1 DEF OneServes
  <2>2. CASE ~Disown(c)
    <3>1. owner' = owner /\ claimed' = claimed /\ serving' = serving
      BY <2>2 DEF claimVars
    <3>2. \A d \in serving : scope'[d] = scope[d]
      BY <2>2 DEF claimVars, OneServes, Nested, Balanced, StdioTypeOK
    <3> QED BY <3>1, <3>2 DEF OneServes, Nested
  <2> QED BY <2>1, <2>2
<1>3. UNCHANGED Channel!channelVars
  BY <1>1 DEF Channel!channelVars, claimVars, diagnosticVars
<1> QED BY <1>2, <1>3 DEF Keeps

LEMMA ActsKeep ==
  ASSUME Balanced, OneServes, NEW c \in Contexts, Acts(c), Alone(c)
  PROVE  Keeps
BY RedirectionKeeps, ClaimKeeps, TransportKeeps, UnseenKeeps DEF Acts, Keeping

------------------------------------------------------------------------------
(* A process of hosts *)

LEMMA HostActs == ASSUME NEW c \in Contexts, Host(c) PROVE Acts(c) /\ Alone(c)
<1>1. Acts(c)
  BY DEF Host, Acts, Keeping
<1>2. ASSUME Disown(c) PROVE \A d \in serving : scope[d] # c
  BY <1>2 DEF Host, Disown, BootEnter, BootRefused, BootExit, Inherit, Claim, ClaimDenied, Own,
              OwnRefused, TransportEnter, TransportDenied, TransportExit, Restore, Unlock, Goto, At,
              claimVars, diagnosticVars
<1> QED BY <1>1, <1>2 DEF Alone

LEMMA HostsKeep ==
  Balanced /\ OneServes /\ [\E c \in Contexts : Host(c)]_stdioVars => Balanced' /\ Keeps
BY ActsBalanced, ActsKeep, HostActs, IdleBalanced DEF Keeps

\* Every reachable state of a process of such programs satisfies the invariant.
THEOREM StdioInvariance == StdioSpec => [](Balanced /\ OneServes)
<1>1. Balanced /\ OneServes /\ [\E c \in Contexts : Host(c)]_stdioVars => Balanced' /\ OneServes'
  BY HostsKeep DEF Keeps
<1> QED BY <1>1, InitBalanced, PTL DEF StdioSpec

LEMMA InitChannel == StdioInit => Channel!Init
BY DEF StdioInit, Channel!Init, Guards, Holding

\* However many contexts claim stdout, redirect it and serve on however many threads,
\* together they are one exclusive channel (_stdio.py).
THEOREM StdioIsExclusive == StdioSpec => ImplementsChannel
<1>1. Balanced /\ OneServes /\ [\E c \in Contexts : Host(c)]_stdioVars
        => [Channel!Next]_(Channel!channelVars)
  BY HostsKeep DEF Keeps
<1> QED BY <1>1, InitChannel, StdioInvariance, PTL DEF StdioSpec, ImplementsChannel, Channel!Spec

LEMMA CleanWhileBalanced == Balanced /\ OneServes => ProtocolIsClean
<1> SUFFICES ASSUME Balanced, OneServes, NEW d \in serving PROVE fd1 = "diagnostics" /\ users > 0
  BY DEF ProtocolIsClean
<1>1. <<owner, "claim">> \in Guards
  BY DEF Balanced, StdioTypeOK, OneClaim, OneServes, Nested, Guards
<1>2. Cardinality(Guards) \in Nat /\ Cardinality(Guards) # 0
  BY <1>1, FS_CardinalityType, FS_EmptySet DEF Balanced, Counted
<1> QED BY <1>1, <1>2 DEF Balanced, Counted

\* While a transport serves, nothing but the protocol reaches stdout (_stdio.py:154).
THEOREM StdioIsClean == StdioSpec => []ProtocolIsClean
BY CleanWhileBalanced, StdioInvariance, PTL

------------------------------------------------------------------------------
(* What a server does to stdout *)

\* Every step of the composition is one of a context, or none; and only the server's
\* thread gives up ownership without looking at who is in its scope.
LEMMA StdioPart ==
  ASSUME [Next]_vars
  PROVE  \/ UNCHANGED stdioVars
         \/ \E c \in Contexts : Acts(c) /\ (c = Thread \/ Alone(c))
<1>1. CASE UNCHANGED vars
  BY <1>1 DEF vars
<1>2. CASE Start \/ StartReturns \/ Wait \/ \E u \in Stoppers : StopCall(u) \/ StopEffect(u)
  BY <1>2 DEF Start, StartReturns, Wait, StopCall, StopEffect
<1>3. CASE Enter \/ Leave
  BY <1>3, ServerAssumption DEF Enter, Leave, Acts, Keeping
<1>4. CASE Ready \/ TaskServes \/ TaskEnds \/ TaskUnwinds
  <2>1. \/ UNCHANGED stdioVars
        \/ Inherit(Task) \/ TransportEnter(Task) \/ TransportExit(Task)
    BY <1>4 DEF Ready, TaskServes, TaskEnds, TaskUnwinds, TaskLeaves
  <2>2. Inherit(Task) \/ TransportEnter(Task) \/ TransportExit(Task) => Acts(Task) /\ ~Disown(Task)
    <3>1. Inherit(Task) => ~Disown(Task)
      BY DEF Inherit, Disown, At
    <3>2. TransportEnter(Task) => ~Disown(Task)
      BY DEF TransportEnter, Disown
    <3>3. TransportExit(Task) => ~Disown(Task)
      BY DEF TransportExit, Disown
    <3> QED BY <3>1, <3>2, <3>3 DEF Acts, Keeping
  <2> QED BY <2>1, <2>2, ServerAssumption DEF Alone
<1>5. CASE Build \/ ServeReturns \/ ServeStopped \/ FinalizeCancels \/ Finalized \/ FinalizeStopped
           \/ CloseLoop \/ Except \/ Signal
  BY <1>5 DEF Build, ServeReturns, ServeStopped, FinalizeCancels, Finalized, FinalizeStopped,
              CloseLoop, Except, Signal
<1>6. ASSUME NEW c \in Hosts, Host(c)
      PROVE  Acts(c) /\ Alone(c)
  BY <1>6, HostActs DEF Hosts
<1> QED BY <1>1, <1>2, <1>3, <1>4, <1>5, <1>6 DEF Next, ServerThread, Hosts

LEMMA BalancedInductive == Balanced /\ [Next]_vars => Balanced'
BY StdioPart, ActsBalanced, IdleBalanced

------------------------------------------------------------------------------
(* What callers are told, for any number of calls of stop() *)

OwnTypeOK ==
  /\ stdio \in BOOLEAN
  /\ run \in {"none", "entering", "building", "ready", "serving", "finalizing", "closing",
              "leaving", "except", "signalling", "ended"}
  /\ loop \in {"none", "open", "closed"} /\ stopQueued \in BOOLEAN
  /\ task \in {"none", "created", "running", "cancelling", "done"}
  /\ failed \in BOOLEAN /\ startError \in BOOLEAN /\ started \in BOOLEAN
  /\ starter \in {"idle", "starting", "returned", "raised", "timedOut", "joined"}
  /\ stopper \in [Stoppers -> {"idle", "stopping", "hasty", "done"}]

\* started is set with a loop in place, or with an error stored before.
Reporting ==
  /\ starter = "idle" => run = "none"
  /\ run \in {"ready", "serving", "finalizing", "closing"} => loop = "open"
  /\ run \notin {"signalling", "ended"} => ~startError
  /\ run = "signalling" => startError
  /\ started => loop # "none" \/ startError
  /\ StartReportsFailure

LEMMA OwnTypeInductive == Balanced /\ OwnTypeOK /\ [Next]_vars => OwnTypeOK'
<1> SUFFICES ASSUME Balanced, OwnTypeOK, [Next]_vars PROVE OwnTypeOK'
  OBVIOUS
<1>0. poisoned' \in BOOLEAN
  BY BalancedInductive DEF Balanced, StdioTypeOK
<1> USE DEF OwnTypeOK, threadVars, callerVars
<1>1. CASE Start \/ StartReturns \/ Wait
  BY <1>1 DEF Start, StartReturns, Wait
<1>2. ASSUME NEW u \in Stoppers, StopCall(u) PROVE OwnTypeOK'
  BY <1>2 DEF StopCall
<1>3. ASSUME NEW u \in Stoppers, StopEffect(u) PROVE OwnTypeOK'
  BY <1>3 DEF StopEffect
<1>4. CASE Enter \/ Build \/ Ready
  BY <1>4 DEF Enter, Build, Ready, Quiet
<1>5. CASE ServeReturns \/ ServeStopped \/ FinalizeCancels
  <2>1. CASE ServeStopped
    <3>1. failed' \in BOOLEAN
      BY <2>1 DEF ServeStopped
    <3> QED BY <2>1, <3>1 DEF ServeStopped
  <2>2. CASE ServeReturns \/ FinalizeCancels
    BY <2>2 DEF ServeReturns, FinalizeCancels
  <2> QED BY <1>5, <2>1, <2>2
<1>6. CASE Finalized \/ FinalizeStopped \/ CloseLoop
  BY <1>6 DEF Finalized, FinalizeStopped, CloseLoop
<1>7. CASE Leave
  <2>1. failed' \in BOOLEAN
    BY <1>0, <1>7 DEF Leave
  <2> QED BY <1>7, <2>1 DEF Leave, Quiet
<1>8. CASE Except \/ Signal
  BY <1>8 DEF Except, Signal
<1>9. CASE TaskServes \/ TaskEnds \/ TaskUnwinds
  BY <1>9 DEF TaskServes, TaskEnds, TaskUnwinds, TaskQuiet
<1>10. CASE UNCHANGED serverVars
  BY <1>10 DEF serverVars
<1> QED BY <1>1, <1>2, <1>3, <1>4, <1>5, <1>6, <1>7, <1>8, <1>9, <1>10 DEF Next, ServerThread, vars

LEMMA ReportingInductive == Reporting /\ [Next]_vars => Reporting'
<1> SUFFICES ASSUME Reporting, [Next]_vars PROVE Reporting'
  OBVIOUS
<1> USE DEF Reporting, StartReportsFailure, threadVars, callerVars
<1>1. CASE Start \/ StartReturns \/ Wait
  BY <1>1 DEF Start, StartReturns, Wait
<1>2. CASE \E u \in Stoppers : StopCall(u) \/ StopEffect(u)
  BY <1>2 DEF StopCall, StopEffect
<1>3. CASE Enter
  BY <1>3 DEF Enter, Quiet
<1>4. CASE Build \/ Ready
  BY <1>4 DEF Build, Ready
<1>5. CASE ServeReturns \/ ServeStopped \/ FinalizeCancels
  BY <1>5 DEF ServeReturns, ServeStopped, FinalizeCancels
<1>6. CASE Finalized \/ FinalizeStopped \/ CloseLoop
  BY <1>6 DEF Finalized, FinalizeStopped, CloseLoop
<1>7. CASE Leave
  BY <1>7 DEF Leave, Quiet
<1>8. CASE Except \/ Signal
  BY <1>8 DEF Except, Signal
<1>9. CASE TaskServes \/ TaskEnds \/ TaskUnwinds
  <2>1. UNCHANGED <<run, loop, startError, started, starter>>
    BY <1>9 DEF TaskServes, TaskEnds, TaskUnwinds, TaskQuiet
  <2> QED BY <2>1
<1>10. CASE UNCHANGED serverVars
  BY <1>10 DEF serverVars
<1> QED BY <1>1, <1>2, <1>3, <1>4, <1>5, <1>6, <1>7, <1>8, <1>9, <1>10 DEF Next, ServerThread, vars

\* Every reachable state of a server and its hosts is balanced, and what its callers
\* know of it is what happened.
THEOREM Invariance == Spec => [](Balanced /\ OwnTypeOK /\ Reporting)
<1>1. Init => Balanced /\ OwnTypeOK /\ Reporting
  BY InitBalanced DEF Init, OwnTypeOK, Reporting, StartReportsFailure
<1> QED BY <1>1, BalancedInductive, OwnTypeInductive, ReportingInductive, PTL DEF Spec

\* The variables keep their types: the counter of the redirection never runs below
\* zero, whoever stops the server how often (_stdio.py:83).
THEOREM TypeCorrect == Spec => []TypeOK
<1>1. Balanced /\ OwnTypeOK => TypeOK
  BY DEF Balanced, OwnTypeOK, TypeOK
<1> QED BY <1>1, Invariance, PTL

\* A start that failed is never reported as one that worked (server/server.py:137).
THEOREM FailuresAreReported == Spec => []StartReportsFailure
<1>1. Reporting => StartReportsFailure
  BY DEF Reporting
<1> QED BY <1>1, Invariance, PTL

------------------------------------------------------------------------------
(* A server whose cleanup ends before it gives up ownership *)

LEMMA CleanServerKeeps ==
  Balanced /\ OneServes /\ [Next]_vars /\ CleanupBeforeRelease' => Keeps
<1> SUFFICES ASSUME Balanced, OneServes, [Next]_vars, CleanupBeforeRelease' PROVE Keeps
  OBVIOUS
<1>1. ASSUME Disown(Thread), NEW d \in serving PROVE scope[d] # Thread
  <2>1. At(Thread, "leaving")' /\ serving' = serving /\ Thread \notin serving /\ owner = Thread
    BY <1>1, ServerAssumption DEF Disown, Goto, At, Balanced, StdioTypeOK, OneClaim
  <2>2. d \notin {Thread, Task} /\ d \in Contexts
    BY <2>1 DEF CleanupBeforeRelease, Balanced, StdioTypeOK
  <2>3. ThreadOf[d] # ThreadOf[Thread]
    BY <2>2, ServerAssumption
  <2> QED BY <2>1, <2>3 DEF OneServes, Nested
<1>2. CASE UNCHANGED stdioVars
  BY <1>2, IdleBalanced DEF Keeps
<1>3. ASSUME NEW c \in Contexts, Acts(c), c = Thread \/ Alone(c) PROVE Keeps
  <2>1. Alone(c)
    BY <1>1, <1>3 DEF Alone
  <2> QED BY <1>3, <2>1, ActsKeep
<1> QED BY <1>2, <1>3, StdioPart

\* However often it is stopped, a server that never gives up stdout under a transport
\* is, with its hosts, one exclusive channel (server/server.py:238).
THEOREM CleanServersAreExclusive == Spec /\ []CleanupBeforeRelease => ImplementsChannel
<1>1. Init => Balanced /\ OneServes /\ Channel!Init
  BY InitBalanced, InitChannel DEF Init
<1>2. Balanced /\ OneServes /\ [Next]_vars /\ CleanupBeforeRelease'
        => /\ Balanced' /\ OneServes'
           /\ [Channel!Next]_(Channel!channelVars)
  BY BalancedInductive, CleanServerKeeps DEF Keeps
<1> QED BY <1>1, <1>2, PTL DEF Spec, ImplementsChannel, Channel!Spec

------------------------------------------------------------------------------
(* A server that is stopped once *)

OneStop == \A u, v \in Stoppers : u = v

\* The task is inside its transport only while the loop can still be driven to the end
\* of its cleanup: a stop that may end the loop early has no second to follow it.
Sheltered ==
  /\ Task \in serving => task \in {"running", "cancelling"} /\ run \in {"serving", "finalizing"}
  /\ run = "finalizing" /\ task # "done" => ~stopQueued /\ \A u \in Stoppers : stopper[u] = "done"
  /\ stopQueued => \E u \in Stoppers : stopper[u] = "done"
  /\ At(Thread, "leaving") => stdio /\ run = "leaving"

LEMMA HostsSpare ==
  ASSUME StdioTypeOK, NEW c \in Hosts, Host(c)
  PROVE  /\ stage'[Thread] = stage[Thread]
         /\ Task \in serving' <=> Task \in serving
<1>1. c \in Contexts /\ c # Thread /\ c # Task /\ Thread \in Contexts
  BY ServerAssumption DEF Hosts
<1> QED BY <1>1 DEF Host, BootEnter, BootRefused, BootExit, Inherit, Claim, ClaimDenied, Own,
           OwnRefused, Disown, TransportEnter, TransportDenied, TransportExit, Restore, Unlock,
           Goto, StdioTypeOK

LEMMA ShelteredInductive ==
  OneStop /\ Balanced /\ OwnTypeOK /\ Reporting /\ Sheltered /\ [Next]_vars => Sheltered'
<1> SUFFICES ASSUME OneStop, Balanced, OwnTypeOK, Reporting, Sheltered, [Next]_vars PROVE Sheltered'
  OBVIOUS
<1>0. Thread \in Contexts /\ Task \in Contexts /\ Thread # Task
      /\ stage \in [Contexts -> {"out", "claiming", "owning", "leaving", "unlocking", "done"}]
  BY ServerAssumption DEF Balanced, StdioTypeOK
<1> USE DEF Sheltered, threadVars, callerVars, At, Goto
<1>1. CASE Start \/ StartReturns \/ Wait
  BY <1>1 DEF Start, StartReturns, Wait, stdioVars, Reporting
<1>2. ASSUME NEW u \in Stoppers, StopCall(u) PROVE Sheltered'
  BY <1>2 DEF StopCall, stdioVars, OwnTypeOK
<1>3. ASSUME NEW u \in Stoppers, StopEffect(u) PROVE Sheltered'
  BY <1>3 DEF StopEffect, stdioVars, OwnTypeOK
<1>4. CASE Enter
  <2>1. Task \notin serving' /\ run \notin {"serving", "finalizing"}
    BY <1>4 DEF Enter, Claim, ClaimDenied, Own, OwnRefused, stdioVars
  <2>2. stage'[Thread] # "leaving"
    BY <1>0, <1>4 DEF Enter, Claim, ClaimDenied, Own, OwnRefused, stdioVars
  <2>3. run' # "finalizing" /\ UNCHANGED <<stopQueued, stopper>>
    BY <1>4 DEF Enter, Quiet
  <2> QED BY <2>1, <2>2, <2>3
<1>5. CASE Build
  BY <1>5 DEF Build, stdioVars
<1>6. CASE Ready
  BY <1>0, <1>6 DEF Ready, Inherit, stdioVars
<1>7. CASE ServeReturns \/ ServeStopped
  BY <1>7 DEF ServeReturns, ServeStopped, OneStop, stdioVars
<1>8. CASE FinalizeCancels \/ Finalized \/ FinalizeStopped \/ CloseLoop
  BY <1>8 DEF FinalizeCancels, Finalized, FinalizeStopped, CloseLoop, stdioVars
<1>9. CASE Leave
  <2>1. Task \notin serving' /\ run' # "finalizing" /\ UNCHANGED <<stdio, stopQueued, stopper>>
    BY <1>9 DEF Leave, Quiet, Disown, Restore, Unlock, stdioVars
  <2>2. stage'[Thread] = "leaving" => stdio /\ run' = "leaving"
    BY <1>0, <1>9 DEF Leave, Disown, Restore, Unlock, stdioVars
  <2> QED BY <2>1, <2>2 DEF Quiet
<1>10. CASE Except \/ Signal
  BY <1>10 DEF Except, Signal, stdioVars
<1>11. CASE TaskServes
  BY <1>0, <1>11 DEF TaskServes, TaskQuiet, LoopRuns, TransportEnter, stdioVars
<1>12. CASE TaskEnds \/ TaskUnwinds
  <2>1. Task \notin serving' /\ stage' = stage
    BY <1>12 DEF TaskEnds, TaskUnwinds, TaskLeaves, TransportExit, stdioVars
  <2>2. task' = "done" /\ UNCHANGED <<stdio, run, stopQueued, stopper>>
    BY <1>12 DEF TaskEnds, TaskUnwinds, TaskQuiet
  <2> QED BY <2>1, <2>2
<1>13. ASSUME NEW c \in Hosts, Host(c), UNCHANGED serverVars PROVE Sheltered'
  BY <1>13, HostsSpare DEF serverVars, Balanced
<1>14. CASE UNCHANGED vars
  BY <1>14 DEF vars, serverVars, stdioVars
<1> QED BY <1>1, <1>2, <1>3, <1>4, <1>5, <1>6, <1>7, <1>8, <1>9, <1>10, <1>11, <1>12, <1>13, <1>14
    DEF Next, ServerThread

\* A server that is stopped once ends its transport before it gives up stdout, whatever
\* it was doing: what its docstring promises, and a second stop breaks
\* (server/server.py:228).
THEOREM OneStopCleansUp == ASSUME OneStop PROVE Spec => []CleanupBeforeRelease
<1>1. Init => Sheltered
  BY ServerAssumption DEF Init, StdioInit, Sheltered, At
<1>2. Sheltered => CleanupBeforeRelease
  BY DEF Sheltered, CleanupBeforeRelease
<1>3. Balanced /\ OwnTypeOK /\ Reporting /\ Sheltered /\ [Next]_vars => Sheltered'
  BY ShelteredInductive
<1> QED BY <1>1, <1>2, <1>3, Invariance, PTL DEF Spec

\* And so server and hosts are one exclusive channel.
THEOREM ServerIsExclusive == ASSUME OneStop PROVE Spec => ImplementsChannel
BY OneStopCleansUp, CleanServersAreExclusive, PTL
==============================================================================

--------------------------- MODULE ExclusiveChannel ---------------------------
(***************************************************************************)
(* What ownership of stdout promises the process, without its locks,       *)
(* counters and context variables.  The channel that carries the protocol  *)
(* is also where the host writes.  Whoever needs it undisturbed puts up a  *)
(* guard, and as long as one stands the host's writes go elsewhere.  One   *)
(* party at a time is inside with a claim; under its guard one transport   *)
(* at a time uses the channel.  The last guard to go gives the channel     *)
(* back, or breaks it, and a broken channel is never given back or used.   *)
(***************************************************************************)
CONSTANTS Users, Nobody

VARIABLES
  holder,  \* whose claim it is
  inside,  \* users inside a claim
  guards,  \* pairs of a user and what it guards: its start-up or its claim
  using,   \* the transports that write the protocol
  output,  \* where the host's writes go: "protocol" or "diagnostics"
  broken

channelVars == <<holder, inside, guards, using, output, broken>>

Init ==
  /\ holder = Nobody /\ inside = {} /\ guards = {} /\ using = {}
  /\ output = "protocol" /\ broken = FALSE

Enter(u) ==
  /\ holder = Nobody
  /\ holder' = u /\ inside' = inside \cup {u}
  /\ UNCHANGED <<guards, using, output, broken>>

\* Whoever leaves locks nobody out, whether its claim worked out or not.
Leave(u) ==
  /\ holder = u /\ <<u, "claim">> \notin guards
  /\ holder' = Nobody /\ inside' = inside \ {u}
  /\ UNCHANGED <<guards, using, output, broken>>

Guard(g) ==
  /\ g \notin guards /\ ~broken
  /\ guards' = guards \cup {g} /\ output' = "diagnostics"
  /\ UNCHANGED <<holder, inside, using, broken>>

Unguard(g) ==
  /\ g \in guards /\ (g[2] = "claim" => using = {})
  /\ guards' = guards \ {g}
  /\ IF guards' # {} THEN UNCHANGED <<output, broken>>
     ELSE \/ output' = "protocol" /\ UNCHANGED broken
          \/ broken' = TRUE /\ UNCHANGED output
  /\ UNCHANGED <<holder, inside, using>>

Use(u) ==
  /\ using = {} /\ <<holder, "claim">> \in guards
  /\ using' = {u}
  /\ UNCHANGED <<holder, inside, guards, output, broken>>

Finish(u) ==
  /\ u \in using
  /\ using' = using \ {u}
  /\ UNCHANGED <<holder, inside, guards, output, broken>>

Next ==
  \/ \E u \in Users : Enter(u) \/ Leave(u) \/ Use(u) \/ Finish(u)
  \/ \E g \in Users \X {"boot", "claim"} : Guard(g) \/ Unguard(g)

Spec == Init /\ [][Next]_channelVars
==============================================================================

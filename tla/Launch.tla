-------------------------------- MODULE Launch --------------------------------
(***************************************************************************)
(* From a command line or a call of serve() or async_serve() to a server   *)
(* that listens, and back (__main__.py, __init__.py, APCoreMCP.serve and   *)
(* async_serve, configured_output).  The Config Bus is loaded once to      *)
(* choose the output scope, again to construct the server and again to     *)
(* serve it; its file may be edited in between.  What comes out is the     *)
(* policy under which the requests of Authentication arrive.               *)
(*                                                                         *)
(* Other owners of stdout, what construction does with modules and ACLs    *)
(* and what a transport does are left to StdioOwnership, APCoreMCP and     *)
(* AsyncTasks: here they succeed or fail.                                  *)
(***************************************************************************)
EXTENDS Authentication, Naturals

CONSTANTS Situations,   \* ways to launch, each with the Config Bus at the start
          Buses,        \* what the Config Bus may be edited to
          Unset,        \* a key the Config Bus does not have
          MaxEdits      \* bound on edits

Transports == {"stdio", "streamable-http", "sse"}

Launches == [entry : {"cli", "serve", "embed"}, transport : Transports \cup {"unknown"},
             host : {"legal", "empty"}, port : {"legal", "outOfRange"},
             dir : {"none", "found", "missing", "file"},       \* --extensions-dir
             spec : {"none", "loads", "fails", "badHeader"},   \* --from-openapi
             prefix : BOOLEAN, longName : BOOLEAN,
             key : {"none", "good", "blank", "missing"},       \* or an authenticator
             requires : BOOLEAN, exempt : SUBSET Routes,
             explorer : BOOLEAN, under : {"own", "shared", "bare"},  \* explorer_prefix
             execute : BOOLEAN, store : BOOLEAN, hooks : BOOLEAN,
             visitors : SUBSET Requests]

BusKeys == [transport : Transports \cup {"unknown", Unset}, host : {"legal", Unset},
            port : {"legal", "outOfRange", Unset}, explorer : BOOLEAN \cup {Unset},
            under : {"own", "shared", "bare", Unset},
            requires : BOOLEAN \cup {Unset}, openapi : BOOLEAN]

ASSUME LaunchAssumption ==
  /\ Situations \subseteq [launch : Launches, bus : BusKeys]
  /\ Buses \subseteq BusKeys
  /\ MaxEdits \in Nat

VARIABLES
  launch, bus, edits,
  step,      \* how far the launch is, or its cleanup
  selected,  \* _selected_transport
  claim,     \* who claimed stdout: "none", the output "scope" or the "transport"
  required,  \* _require_auth of the constructed server
  eff,       \* transport, host, port, explorer and its prefix in effect
  store,     \* the approval store: "idle", "started" or "stopped"
  hooks,     \* on_startup and on_shutdown that have run
  result     \* "none", "returned", "raised" or an exit code

busVars == <<launch, bus, edits>>
resourceVars == <<claim, store, hooks>>
launchVars == <<busVars, step, selected, required, eff, resourceVars, result>>
vars == <<authVars, launchVars>>

Init ==
  /\ AuthInit
  /\ \E s \in Situations : launch = s.launch /\ bus = s.bus
  /\ edits = 0 /\ step = "invoked" /\ selected = "none" /\ claim = "none"
  /\ required = launch.requires
  /\ eff = [transport |-> launch.transport, host |-> launch.host, port |-> launch.port,
            explorer |-> launch.explorer, under |-> launch.under]
  /\ store = "idle" /\ hooks = {} /\ result = "none"

Proceed(from, to) == step = from /\ step' = to

\* Slip the runs must catch: a key the Config Bus does not have replaces it too.
OverrideConfigured(configured, given) == configured

\* A value of the Config Bus replaces what the caller gave.
Override(configured, given) == IF configured # Unset THEN configured ELSE given

Edit ==
  /\ edits < MaxEdits /\ step \in {"invoked", "checking", "constructing", "configuring"}
  /\ edits' = edits + 1
  /\ bus' \in Buses \ {bus}
  /\ UNCHANGED <<authVars, launch, step, selected, required, eff, resourceVars, result>>

------------------------------------------------------------------------------
(* The output scope *)

\* Slip the runs must catch: the scope is chosen without the Config Bus.
ConfiguredTransportAsGiven == launch.transport
ConfiguredTransport == Override(bus.transport, launch.transport)

\* configured_output, around everything else: stdio claims stdout.  That fails when
\* somebody else has it, and so may loading the Config Bus.  An embedding host keeps
\* its stdout.
Select ==
  /\ step = "invoked"
  /\ \/ /\ launch.entry # "embed"
        /\ selected' = ConfiguredTransport
        /\ claim' = IF ConfiguredTransport = "stdio" THEN "scope" ELSE "none"
        /\ step' = IF launch.entry = "cli" THEN "checking" ELSE "constructing"
        /\ UNCHANGED result
     \/ /\ launch.entry # "embed"
        /\ step' = "exited"
        /\ result' = IF launch.entry = "cli" THEN "exit1" ELSE "raised"
        /\ UNCHANGED <<selected, claim>>
     \/ /\ launch.entry = "embed"
        /\ step' = "constructing"
        /\ UNCHANGED <<selected, claim, result>>
  /\ UNCHANGED <<authVars, busVars, required, eff, store, hooks>>

\* A failure leaves the scope with what it will be reported as.
Fail(from) ==
  /\ Proceed(from, "leaving")
  /\ result' = IF launch.entry = "cli" THEN "exit2" ELSE "raised"

------------------------------------------------------------------------------
(* The command line *)

\* The reasons of _run to refuse, in its order, with their exit codes.
Refusals == <<
  [holds |-> launch.port = "outOfRange", code |-> "exit2"],
  [holds |-> launch.dir = "none" /\ launch.spec = "none" /\ ~bus.openapi, code |-> "exit2"],
  [holds |-> launch.dir # "none" /\ launch.spec # "none" /\ ~launch.prefix, code |-> "exit2"],
  [holds |-> launch.dir \in {"missing", "file"}, code |-> "exit1"],
  [holds |-> launch.longName, code |-> "exit1"],
  [holds |-> launch.spec = "badHeader", code |-> "exit2"],
  [holds |-> launch.spec = "fails", code |-> "exit1"],
  [holds |-> launch.key = "missing", code |-> "exit1"]>>

Refused == {i \in DOMAIN Refusals : Refusals[i].holds}

CheckArgs ==
  /\ IF Refused = {} THEN Proceed("checking", "constructing") /\ UNCHANGED result
     ELSE /\ Proceed("checking", "leaving")
          /\ \E i \in Refused : (\A j \in Refused : i <= j) /\ result' = Refusals[i].code
  /\ UNCHANGED <<authVars, busVars, selected, required, eff, resourceVars>>

\* A key file that is blank makes no authenticator.
Authenticator ==
  IF launch.key # "good" THEN "none" ELSE IF launch.entry = "cli" THEN "jwt" ELSE "custom"

------------------------------------------------------------------------------
(* The server is constructed, configured and built *)

\* Without a backend of its own the command line leaves it to mcp.openapi, which
\* may be gone; other things may fail too.
NoBackend == launch.entry = "cli" /\ launch.dir = "none" /\ launch.spec = "none" /\ ~bus.openapi

Construct ==
  /\ \/ /\ ~NoBackend
        /\ Proceed("constructing", "configuring")
        /\ required' = Override(bus.requires, launch.requires)
        /\ UNCHANGED result
     \/ Fail("constructing") /\ UNCHANGED required
  /\ UNCHANGED <<authVars, busVars, selected, eff, resourceVars>>

\* serve() loads the Config Bus once more, which may fail; async_serve() takes what
\* it is given.  The prefix of the explorer is looked at as the caller gave it, before
\* the Config Bus may replace it and may turn the explorer on.
Configure ==
  /\ \/ /\ launch.explorer => launch.under # "bare"
        /\ Proceed("configuring", "building")
        /\ eff' = IF launch.entry = "embed" THEN eff
                  ELSE [transport |-> Override(bus.transport, launch.transport),
                        host |-> Override(bus.host, launch.host),
                        port |-> Override(bus.port, launch.port),
                        explorer |-> Override(bus.explorer, launch.explorer),
                        under |-> Override(bus.under, launch.under)]
        /\ UNCHANGED result
     \/ /\ launch.entry # "embed" \/ (launch.explorer /\ launch.under = "bare")
        /\ Fail("configuring") /\ UNCHANGED eff
  /\ UNCHANGED <<authVars, busVars, selected, required, resourceVars>>

Served == IF launch.entry = "embed" THEN "streamable-http" ELSE eff.transport

\* Slip the runs must catch: the prefix is the caller's, whatever the Config Bus says.
ExemptedAsGiven == launch.exempt \cup
  (IF eff.explorer THEN {"explore"} ELSE {}) \cup
  (IF eff.explorer /\ launch.under = "shared" THEN {"message"} ELSE {})

\* exempt_paths by name, and every path that starts with the explorer's prefix: its
\* own, and those of messages if the prefix is one of theirs.
Exempted == launch.exempt \cup
  (IF eff.explorer THEN {"explore"} ELSE {}) \cup
  (IF eff.explorer /\ eff.under = "shared" THEN {"message"} ELSE {})

\* Slip the runs must catch: what the caller gave decides.
AuthPolicyAsGiven(carries) ==
  [authenticator |-> Authenticator, requires |-> launch.requires,
   exempt |-> Exempted,
   main |-> Served # "sse", execute |-> eff.explorer /\ launch.execute, carries |-> carries]

\* _build_auth_middleware, the explorer's mount and the transport's application.
AuthPolicy(carries) ==
  [authenticator |-> Authenticator, requires |-> required,
   exempt |-> Exempted,
   main |-> Served # "sse", execute |-> eff.explorer /\ launch.execute, carries |-> carries]

\* Starlette mounts nothing on a path that does not start with "/".
Mountable == Served \in {"streamable-http", "sse"} /\ eff.explorer => eff.under # "bare"

\* _build_serve_coro, or its counterpart in async_serve.
Build ==
  /\ \/ /\ Mountable
        /\ Proceed("building", IF launch.entry = "embed" THEN "storing" ELSE "hooking")
        /\ UNCHANGED result
        /\ IF Served \in {"streamable-http", "sse"}
           THEN \E b \in BOOLEAN : BuildApp(AuthPolicy(b))
           ELSE UNCHANGED authVars
     \/ Fail("building") /\ UNCHANGED authVars
  /\ UNCHANGED <<busVars, selected, required, eff, resourceVars>>

------------------------------------------------------------------------------
(* It is served *)

\* Slip the runs must catch: on_startup is called inside the try.
OnStartupGuarded ==
  /\ \/ Proceed("hooking", "storing") /\ UNCHANGED result
        /\ hooks' = IF launch.hooks THEN {"startup"} ELSE {}
     \/ /\ launch.hooks /\ Proceed("hooking", "shutting")
        /\ result' = IF launch.entry = "cli" THEN "exit2" ELSE "raised"
        /\ UNCHANGED hooks
  /\ UNCHANGED <<authVars, busVars, selected, required, eff, claim, store>>

\* on_startup may raise; on_shutdown is not for that.
OnStartup ==
  /\ \/ Proceed("hooking", "storing") /\ UNCHANGED result
        /\ hooks' = IF launch.hooks THEN {"startup"} ELSE {}
     \/ launch.hooks /\ Fail("hooking") /\ UNCHANGED hooks
  /\ UNCHANGED <<authVars, busVars, selected, required, eff, claim, store>>

StartStore ==
  /\ Proceed("storing", "opening")
  /\ store' = IF launch.store THEN "started" ELSE "idle"
  /\ UNCHANGED <<authVars, busVars, selected, required, eff, claim, hooks, result>>

LegalEndpoint == eff.host = "legal" /\ eff.port = "legal"

\* run_stdio claims stdout if its scope has not; run_sse and run_streamable_http
\* validate where they listen; anything else is no transport.
MayListen ==
  \/ launch.entry = "embed"
  \/ Served = "stdio"
  \/ Served \in {"streamable-http", "sse"} /\ LegalEndpoint

Listen ==
  /\ MayListen
  /\ Proceed("opening", "listening")
  /\ claim' = IF Served = "stdio" /\ claim = "none" THEN "transport" ELSE claim
  /\ UNCHANGED <<authVars, busVars, selected, required, eff, store, hooks, result>>

\* The transport refuses or fails at once: stdout claimed, or a port in
\* use, which makes uvicorn leave with SystemExit(1).
ListenFails ==
  /\ Proceed("opening", "stopping")
  /\ IF launch.entry = "cli" THEN result' \in {"exit1", "exit2"} ELSE result' = "raised"
  /\ UNCHANGED <<authVars, busVars, selected, required, eff, resourceVars>>

Serve ==
  /\ step = "listening" /\ Served # "stdio"
  /\ \E q \in launch.visitors : Request(q)
  /\ UNCHANGED launchVars

------------------------------------------------------------------------------
(* And it ends: every finally runs *)

\* The transport returns or raises.
TransportEnds ==
  /\ Proceed("listening", "stopping")
  /\ claim' = IF claim = "transport" THEN "none" ELSE claim
  /\ \/ result' = IF launch.entry = "cli" THEN "exit0" ELSE "returned"
     \/ result' = IF launch.entry = "cli" THEN "exit2" ELSE "raised"
  /\ UNCHANGED <<authVars, busVars, selected, required, eff, store, hooks>>

StopStore ==
  /\ Proceed("stopping", IF launch.entry = "embed" THEN "exited" ELSE "shutting")
  /\ store' = IF launch.store THEN "stopped" ELSE store
  /\ UNCHANGED <<authVars, busVars, selected, required, eff, claim, hooks, result>>

OnShutdown ==
  /\ Proceed("shutting", "leaving")
  /\ hooks' = IF launch.hooks THEN hooks \cup {"shutdown"} ELSE hooks
  /\ UNCHANGED <<authVars, busVars, selected, required, eff, claim, store, result>>

\* The output scope is left.
Release ==
  /\ Proceed("leaving", "exited")
  /\ claim' = "none"
  /\ UNCHANGED <<authVars, busVars, selected, required, eff, store, hooks, result>>

------------------------------------------------------------------------------
Next ==
  \/ Edit \/ Select \/ CheckArgs \/ Construct \/ Configure \/ Build
  \/ OnStartup \/ StartStore \/ Listen \/ ListenFails \/ Serve
  \/ TransportEnds \/ StopStore \/ OnShutdown \/ Release

Spec == Init /\ [][Next]_vars

LaunchTypeOK ==
  /\ launch \in Launches /\ bus \in BusKeys /\ edits \in 0..MaxEdits
  /\ step \in {"invoked", "checking", "constructing", "configuring", "building", "hooking",
               "storing", "opening", "listening", "stopping", "shutting", "leaving", "exited"}
  /\ selected \in Transports \cup {"unknown", "none"}
  /\ claim \in {"none", "scope", "transport"} /\ required \in BOOLEAN
  /\ eff \in [transport : Transports \cup {"unknown"}, host : {"legal", "empty"},
              port : {"legal", "outOfRange"}, explorer : BOOLEAN,
              under : {"own", "shared", "bare"}]
  /\ store \in {"idle", "started", "stopped"} /\ hooks \subseteq {"startup", "shutdown"}
  /\ result \in {"none", "returned", "raised", "exit0", "exit1", "exit2"}

TypeOK == AuthTypeOK /\ LaunchTypeOK

\* The transport that runs is the one the output scope was chosen for, stdout is
\* reserved for it exactly when it is stdio, and it listens at a legal address
\* whatever source the address came from: the Config Bus is loaded three times and
\* says the same as long as nobody edits it (_stdio.py:42, apcore_mcp.py:993).
ServedAsSelected == step = "listening" /\ edits = 0 /\ launch.entry # "embed" =>
  /\ Served = selected
  /\ claim = IF Served = "stdio" THEN "scope" ELSE "none"
  /\ Served # "stdio" => LegalEndpoint

\* Whichever step failed, all that was acquired is released and nothing else: the
\* claim on stdout, the approval store, and on_shutdown follows on_startup and only
\* it (apcore_mcp.py:1017, apcore_mcp.py:937, _stdio.py:213).
Unwound == step = "exited" =>
  /\ claim = "none" /\ store # "started"
  /\ "shutdown" \in hooks <=> "startup" \in hooks

\* The answer to whether identity is required comes from the Config Bus if it is
\* there and from the caller if it is not, and it is the answer every tool call
\* meets: none runs for a message whose sender was not identified, on a path that
\* was exempted neither by name nor by the prefix the explorer has in effect
\* (__main__.py:396, apcore_mcp.py:551 and 1002, auth/middleware.py:89).  The
\* comment "explicit kwargs always win at runtime" (apcore_mcp.py:542) says
\* otherwise: where the Config Bus requires identity and the caller does not, it is
\* required here and in the code.
EnforcedAsLaunched ==
  /\ edits = 0 /\ Authenticator # "none" /\ Override(bus.requires, launch.requires)
  /\ "message" \notin launch.exempt /\ (eff.explorer => eff.under # "shared")
  => \A q \in Requests : acted[q] # Idle /\ route[q] = "message" => verified[q] # None
==============================================================================

------------------------------- MODULE APCoreMCP ------------------------------
(***************************************************************************)
(* How a server is put together: APCoreMCP.__init__ and                    *)
(* _build_serve_coro (apcore_mcp.py), with the OpenAPI backend             *)
(* (openapi_backend.py), the access rules, the listing of tools            *)
(* (server/factory.py) and the registry listener (server/listener.py),     *)
(* while other threads of the process register and unregister modules.     *)
(*                                                                         *)
(* The registry belongs to apcore: registering an id twice fails, and an   *)
(* event is handled in the thread that caused it, after the change.  One   *)
(* server is made of one configuration.  Names, filters, explorer,         *)
(* authentication and pipeline strategy are left out.                      *)
(***************************************************************************)
EXTENDS FiniteSets, AclBuilder, ErrorMapper, SchemaConverter

CONSTANTS
  Modules,        \* legal module ids
  IllegalIds,     \* ids the registry would refuse
  ReadOnlySystem, \* the ids of read-only system modules
  Reserved,       \* ids that start with the reserved prefix
  Unbuildable,    \* modules whose input schema no tool can have
  WithSchema,     \* modules that declare an output schema
  Documented,     \* modules that have documentation
  Projectable,    \* the system modules that may be read as resources
  Surface,        \* the management surface that each module is part of
  Setups,         \* configurations
  NoExport, NoReply,
  Hosts,          \* threads that register and unregister modules
  MaxEvents       \* bounds how often they do

ASSUME CatalogAssumption ==
  /\ ReadOnlySystem \cup Reserved \cup Unbuildable \cup WithSchema \cup Documented \subseteq Modules
  /\ Projectable \subseteq ReadOnlySystem
  /\ Surface \in [Modules -> {"none", "health", "usage", "manifest", "control"}]
  /\ IllegalIds \cap Modules = {} /\ MaxEvents \in Nat
  /\ \A s \in Setups :
       /\ s.modules \subseteq Modules /\ s.openapi.scanned \subseteq Modules \cup IllegalIds
       /\ s.acl.entries \in Seq(Entry) /\ s.error \in Error /\ s.schema \in Dicts

VARIABLES
  setup,     \* the configuration
  phase,     \* where the server's own thread is
  pending,   \* modules the loop it is in has still to visit
  registry,  \* ids of the modules there are
  written,   \* history: those the OpenAPI backend has registered
  acl,       \* the executor's ACL
  tools,     \* modules listed as tools
  masks,     \* modules in the output schema map
  docs,      \* modules whose documentation is a resource
  projected, \* system modules that are resources
  surfaces,  \* management surfaces in the initialization options
  hears,     \* the events the listener has subscribed to
  listed,    \* RegistryListener._tools
  host,      \* each thread: idle, or in a callback for a module
  raced,     \* history: modules with events at the same time, or while subscribing
  announced, \* history: modules whose registration the listener was told of
  vanished,  \* history: modules unregistered while the server started
  events,    \* how many events there were
  exported,  \* what to_openai_tools returns for a module
  reply      \* the envelope of a failed call

listingVars == <<masks, docs, projected, surfaces>>
serverVars == <<phase, pending, written, acl, tools, listingVars, hears>>
hostVars == <<listed, host, raced, announced, vanished, events>>
edgeVars == <<exported, reply>>
vars == <<setup, registry, serverVars, hostVars, edgeVars>>

Idle == [at |-> "idle"]
In(at, m) == [at |-> at, module |-> m]

Init ==
  /\ setup \in Setups
  /\ phase = "new" /\ pending = {}
  /\ registry = setup.modules /\ written = {}
  /\ acl = setup.executorAcl
  /\ tools = {} /\ hears = {}
  /\ masks = {} /\ docs = {} /\ projected = {} /\ surfaces = {}
  /\ listed = {} /\ host = [t \in Hosts |-> Idle]
  /\ raced = {} /\ announced = {} /\ vanished = {} /\ events = 0
  /\ exported = NoExport /\ reply = NoReply

Goto(p, rest) == phase' = p /\ pending' = rest

------------------------------------------------------------------------------
(* Construction *)

\* The source is absent, a registry or an executor.
HasOther == setup.source # "none"

\* build_openapi_backend_from_config and openapi_backend, up to the preflight: what
\* is scanned and legal may be registered when the configuration is complete and
\* no id is taken.
LegalScan == setup.openapi.scanned \ IllegalIds
Writable ==
  LET o == setup.openapi
  IN /\ o.section = "mapping" /\ o.spec # "missing"
     /\ HasOther => o.prefix
     /\ o.spec # "blank" /\ o.loads
     /\ LegalScan \cap registry = {}
     /\ o.baseUrl

Backend ==
  /\ phase = "new"
  /\ \/ setup.openapi.section = "none" /\ HasOther /\ Goto("configuring", {})
     \/ setup.openapi.section = "none" /\ ~HasOther /\ Goto("noBackend", {})
     \/ setup.openapi.section # "none" /\ Writable /\ Goto("writing", LegalScan)
     \/ setup.openapi.section # "none" /\ ~Writable /\ Goto("noBackend", {})
  /\ UNCHANGED <<setup, registry, written, acl, tools, listingVars, hears, hostVars, edgeVars>>

\* Slip the runs must catch: a module the registry refuses ends the start.
WriteOrRefuse(m) ==
  /\ phase = "writing" /\ m \in pending
  /\ IF m \in registry THEN Goto("noBackend", {}) ELSE Goto("writing", pending \ {m})
  /\ registry' = registry \cup {m}
  /\ written' = IF m \in registry THEN written ELSE written \cup {m}
  /\ UNCHANGED <<setup, acl, tools, listingVars, hears, hostVars, edgeVars>>

\* The writer registers a module; one registered meanwhile is reported, not replaced.
Write(m) ==
  /\ phase = "writing" /\ m \in pending
  /\ Goto("writing", pending \ {m})
  /\ registry' = registry \cup {m}
  /\ written' = IF m \in registry THEN written ELSE written \cup {m}
  /\ UNCHANGED <<setup, acl, tools, listingVars, hears, hostVars, edgeVars>>

Written ==
  /\ phase = "writing" /\ pending = {}
  /\ Goto("configuring", {})
  /\ UNCHANGED <<setup, registry, written, acl, tools, listingVars, hears, hostVars, edgeVars>>

\* _load_config_bus_overrides: its middleware and its rules may be malformed.
Overrides == [usable |-> setup.middleware /\ Build(setup.acl).kind # "refused",
              acl |-> Build(setup.acl)]

\* resolve_executor: without any ACL given an executor keeps its own.
Installed(given) == IF given # NoAcl THEN given ELSE acl

\* A caller's ACL wins over a configured one.
Configure ==
  /\ phase = "configuring"
  /\ IF Overrides.usable
     THEN /\ Goto("constructed", {})
          /\ acl' = Installed(IF setup.callerAcl # NoAcl THEN setup.callerAcl ELSE Overrides.acl)
     ELSE Goto("badConfig", {}) /\ UNCHANGED acl
  /\ UNCHANGED <<setup, registry, written, tools, listingVars, hears, hostVars, edgeVars>>

\* to_openai_tools: one schema that cannot be converted fails the export.
Export ==
  /\ phase = "constructed" /\ registry # {} /\ exported = NoExport
  /\ exported' = ConvertSchema(setup.schema)
  /\ UNCHANGED <<setup, registry, serverVars, hostVars, reply>>

------------------------------------------------------------------------------
(* Serving *)

\* Slip the runs must catch: the schemas that mask are collected first.
PassesMasksFirst == <<"masks", "tools", "docs">>
\* _build_server_components lists the registry three times ...
Passes == <<"tools", "masks", "docs">>

Begin ==
  /\ phase = "constructed"
  /\ Goto(Passes[1], registry)
  /\ UNCHANGED <<setup, registry, written, acl, tools, listingVars, hears, hostVars, edgeVars>>

\* register_resource_handlers lists it for both kinds of resources.
NextPass(i) ==
  /\ phase = Passes[i] /\ pending = {}
  /\ Goto(Passes[i + 1], registry)
  /\ projected' = IF Passes[i + 1] = "docs" THEN registry \cap Projectable ELSE projected
  /\ UNCHANGED <<setup, registry, written, acl, tools, masks, docs, surfaces, hears, hostVars, edgeVars>>

\* ... and once more, for what build_init_options advertises.
Advertise ==
  /\ phase = Passes[Len(Passes)] /\ pending = {}
  /\ Goto("listening", {})
  /\ surfaces' = {Surface[m] : m \in registry} \ {"none"}
  /\ UNCHANGED <<setup, registry, written, acl, tools, masks, docs, projected, hears, hostVars, edgeVars>>

\* build_tool fails for a reserved id and for a schema no tool can have.
Buildable == Modules \ (Reserved \cup Unbuildable)

\* build_tools: what cannot be built is left out, a reserved id ends the start.
ListTool(m) ==
  /\ phase = "tools" /\ m \in pending
  /\ LET found == m \in registry \ ReadOnlySystem
     IN IF found /\ m \in Reserved THEN Goto("badTools", {}) /\ UNCHANGED tools
        ELSE /\ Goto("tools", pending \ {m})
             /\ tools' = IF found /\ m \in Buildable THEN tools \cup {m} ELSE tools
  /\ UNCHANGED <<setup, registry, written, acl, listingVars, hears, hostVars, edgeVars>>

\* _build_output_schema_map
MapSchema(m) ==
  /\ phase = "masks" /\ m \in pending
  /\ Goto("masks", pending \ {m})
  /\ masks' = IF setup.redacts /\ m \in registry \cap WithSchema THEN masks \cup {m} ELSE masks
  /\ UNCHANGED <<setup, registry, written, acl, tools, docs, projected, surfaces, hears, hostVars, edgeVars>>

\* register_resource_handlers keeps the documentation there was.
Document(m) ==
  /\ phase = "docs" /\ m \in pending
  /\ Goto("docs", pending \ {m})
  /\ docs' = IF m \in registry \cap Documented THEN docs \cup {m} ELSE docs
  /\ UNCHANGED <<setup, registry, written, acl, tools, masks, projected, surfaces, hears, hostVars, edgeVars>>

\* RegistryListener.start subscribes to one event after the other.
Listen ==
  /\ phase = "listening"
  /\ IF ~setup.dynamic \/ hears # {}
     THEN /\ Goto("serving", {})
          /\ hears' = IF setup.dynamic THEN {"register", "unregister"} ELSE {}
     ELSE Goto("listening", {}) /\ hears' = {"register"}
  /\ UNCHANGED <<setup, registry, written, acl, tools, listingVars, hostVars, edgeVars>>

\* A tool call has failed with the error of this configuration.
CallFails ==
  /\ phase = "serving" /\ reply = NoReply
  /\ reply' = ToMcpError(setup.error)
  /\ UNCHANGED <<setup, registry, serverVars, hostVars, exported>>

------------------------------------------------------------------------------
(* Other threads *)

Starting == phase \in {"tools", "masks", "docs"}
Busy(m) == \E t \in Hosts : host[t] # Idle /\ host[t].module = m

Event(t, m) ==
  /\ setup.live /\ host[t] = Idle /\ events < MaxEvents
  /\ events' = events + 1
  /\ raced' = IF Busy(m) \/ hears = {"register"} THEN raced \cup {m} ELSE raced
  /\ UNCHANGED <<setup, serverVars, listed, edgeVars>>

Register(t, m) ==
  /\ Event(t, m) /\ m \notin registry
  /\ registry' = registry \cup {m}
  /\ host' = IF "register" \in hears THEN [host EXCEPT ![t] = In("registering", m)] ELSE host
  /\ announced' = IF "register" \in hears THEN announced \cup {m} ELSE announced
  /\ UNCHANGED vanished

Unregister(t, m) ==
  /\ Event(t, m) /\ m \in registry
  /\ registry' = registry \ {m}
  /\ host' = IF "unregister" \in hears THEN [host EXCEPT ![t] = In("unregistering", m)] ELSE host
  /\ announced' = announced \ {m}
  /\ vanished' = IF Starting THEN vanished \cup {m} ELSE vanished

Callback == UNCHANGED <<setup, registry, serverVars, raced, announced, vanished, events, edgeVars>>

\* _on_register: the definition is read and the tool built ...
OnRegister(t) ==
  /\ host[t].at = "registering"
  /\ host' = [host EXCEPT ![t] =
       IF host[t].module \in registry \cap Buildable
       THEN In("inserting", host[t].module) ELSE Idle]
  /\ UNCHANGED listed /\ Callback

\* ... and inserted under the lock.
Insert(t) ==
  /\ host[t].at = "inserting"
  /\ host' = [host EXCEPT ![t] = Idle]
  /\ listed' = listed \cup {host[t].module}
  /\ Callback

\* Slip the runs must catch: the definition is looked up here too.
OnUnregisterLooksUp(t) ==
  /\ host[t].at = "unregistering"
  /\ host' = [host EXCEPT ![t] = Idle]
  /\ listed' = IF host[t].module \in registry THEN listed \ {host[t].module} ELSE listed
  /\ Callback

\* _on_unregister
OnUnregister(t) ==
  /\ host[t].at = "unregistering"
  /\ host' = [host EXCEPT ![t] = Idle]
  /\ listed' = listed \ {host[t].module}
  /\ Callback

------------------------------------------------------------------------------
ServerStep ==
  \/ Backend \/ Written \/ Configure \/ Begin \/ Advertise \/ Listen
  \/ \E i \in 1..(Len(Passes) - 1) : NextPass(i)
  \/ \E m \in Modules : Write(m) \/ ListTool(m) \/ MapSchema(m) \/ Document(m)

EdgeStep == Export \/ CallFails

HostStep(t) ==
  \/ \E m \in Modules : Register(t, m) \/ Unregister(t, m)
  \/ OnRegister(t) \/ Insert(t) \/ OnUnregister(t)

Next == ServerStep \/ EdgeStep \/ \E t \in Hosts : HostStep(t)

Spec == Init /\ [][Next]_vars

------------------------------------------------------------------------------
(* Properties *)

Started == phase \in {"constructed", "tools", "masks", "docs", "listening", "serving"}

\* An OpenAPI document that is refused has registered nothing, as its error message
\* says (openapi_backend.py:274), although modules come and go between its preflight
\* and the writing.
RefusedWritesNothing == phase = "noBackend" => written = {}

\* What has been constructed runs under the ACL of its caller; without one under every
\* configured rule, in order and with its restrictions; without both under its own.
ServedUnderItsAcl ==
  Started =>
    CASE setup.callerAcl # NoAcl -> acl = setup.callerAcl
      [] setup.callerAcl = NoAcl /\ setup.acl.kind # "none" ->
           /\ acl.kind = "acl" /\ acl.default = setup.acl.default
           /\ Len(acl.rules) = Len(setup.acl.entries)
           /\ \A i \in DOMAIN acl.rules :
                /\ acl.rules[i].effect = setup.acl.entries[i].effect
                /\ acl.rules[i].approval = setup.acl.entries[i].approval
                /\ acl.rules[i].conditions = setup.acl.entries[i].conditions
      [] OTHER -> acl = setup.executorAcl

\* The listings from which a server is made agree although others change the registry
\* between them: a tool with an output schema is masked by it, a documented tool has
\* its documentation as a resource, and the surface of every tool and every resource
\* is advertised.  A module that was unregistered in between may be back and lack any
\* of them (apcore_mcp.py:702, server/factory.py:671, apcore_mcp.py:747).
ListingsAgree == phase \in {"listening", "serving"} =>
  /\ setup.redacts => tools \cap WithSchema \subseteq masks \cup vanished
  /\ tools \cap Documented \subseteq docs \cup vanished
  /\ \A m \in (tools \cup projected) \ vanished : Surface[m] \in surfaces \cup {"none"}

\* When no callback for a module is under way the listener has it if and only if it
\* was announced and is still there, unless its events met each other or the
\* subscription (server/listener.py:85).
ListenerFollows ==
  \A m \in Modules \ raced : ~Busy(m) =>
    /\ m \in listed => m \in registry
    /\ m \in announced \cap Buildable => m \in listed

Answered == reply # NoReply
Hidden(e) ==
  \/ e.class \notin {"cancelled", "taskLimit", "circuitOpen", "module", "lookalike"}
  \/ e.class \in {"module", "lookalike"} /\ e.code \in InternalCodes \cup {"ACL_DENIED"}

\* A client learns nothing of errors that are not apcore's, of internal ones and of
\* refused access but that they happened; and an error rebuilt from the wire, known
\* only by its code, is answered as the one of the class (adapters/errors.py:196).
ErrorsAnsweredInKind == Answered =>
  /\ Hidden(setup.error) =>
       /\ reply.message \notin {"own", "fields", "step"}
       /\ reply.details = "none" /\ reply.guidance = "absent"
  /\ <<setup.error.class, setup.error.code>> \in
       {<<"taskLimit", "TASK_LIMIT_EXCEEDED">>, <<"circuitOpen", "CIRCUIT_BREAKER_OPEN">>}
       => ToMcpError([setup.error EXCEPT !.class = "lookalike"]) = reply

Concluded == exported # NoExport /\ "defs" \in KeysAt(setup.schema, <<>>)

\* What is exported is what the schema says when its references are followed, keys
\* beside a reference winning, and nothing else but that objects are closed where they
\* leave other properties open and that the whole is an object's schema.  Data such
\* as a default stay as they are (adapters/schema.py:105, 219).
ExportedMeansTheSame == Concluded /\ exported # Raised =>
  LET said == WithoutDefs(Reading(setup.schema))
      corrected == "properties" \in KeysAt(said, <<>>) /\ ~SaysObject(said, <<>>)
  IN /\ exported \in Dicts
     /\ said \ exported \subseteq IF corrected THEN Part(said, <<"type">>) ELSE {}
     /\ exported \ said \subseteq
          {<< <<"type">>, "object">>}
            \cup {<<Append(p, "additionalProperties"), "false">> : p \in ObjectSchemas(exported)}
     /\ \A p \in ObjectSchemas(exported) : "additionalProperties" \in KeysAt(exported, p)
     /\ "properties" \in KeysAt(exported, <<>>) => SaysObject(exported, <<>>)

\* An export fails for a circle, a missing definition or too much depth and for nothing
\* else, unless a reference stands beside keys that hold references themselves
\* (adapters/schema.py:178, 190).
RefusedForCause == Concluded =>
  /\ Unending(setup.schema) => exported = Raised
  /\ exported = Raised => Unending(setup.schema) \/ BesideRef(setup.schema)
==============================================================================

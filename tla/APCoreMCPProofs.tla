--------------------------- MODULE APCoreMCPProofs ---------------------------
(***************************************************************************)
(* Theorems about the assembly of a server, for any catalogue of modules,  *)
(* any configurations and any number of threads that change the registry   *)
(* any number of times.  Each property has an invariant of its own.  What  *)
(* becomes of a schema is proved for schemas of any size and depth.        *)
(***************************************************************************)
EXTENDS APCoreMCP, JsonValuesProofs

\* The order of the passes.
LEMMA PassOrder ==
  /\ Passes[1] = "tools" /\ Passes[2] = "masks" /\ Passes[3] = "docs"
  /\ Len(Passes) = 3
BY DEF Passes

\* The configuration never changes.
LEMMA SetupStays == [Next]_vars => setup' = setup
BY DEF Next, ServerStep, EdgeStep, HostStep, vars, Backend, Written, Configure, Begin, Advertise, Listen, NextPass, Write,
       ListTool, MapSchema, Document, Export, CallFails, Register, Unregister, Event,
       OnRegister, Insert, OnUnregister, Callback

------------------------------------------------------------------------------
(* What the OpenAPI backend has written *)

NothingYet == phase \in {"new", "noBackend"} => written = {}

LEMMA NothingYetInductive == NothingYet /\ [Next]_vars => NothingYet'
<1> SUFFICES ASSUME NothingYet, [Next]_vars PROVE NothingYet'
  OBVIOUS
<1>1. CASE ServerStep
  BY <1>1, PassOrder
     DEF ServerStep, NothingYet, Backend, Written, Configure, Begin, Advertise, Listen, NextPass,
         Write, ListTool, MapSchema, Document, Goto
<1>2. CASE EdgeStep
  BY <1>2 DEF EdgeStep, NothingYet, Export, CallFails, serverVars
<1>3. ASSUME NEW t \in Hosts, HostStep(t) PROVE NothingYet'
  BY <1>3 DEF HostStep, NothingYet, Register, Unregister, Event, OnRegister, Insert, OnUnregister,
              Callback, serverVars
<1>4. CASE UNCHANGED vars
  BY <1>4 DEF vars, serverVars, NothingYet
<1> QED BY <1>1, <1>2, <1>3, <1>4 DEF Next

\* A document that is refused has registered nothing, whatever it holds and whoever
\* else registers modules meanwhile (openapi_backend.py:274).
THEOREM RefusalsWriteNothing == Spec => []RefusedWritesNothing
<1>1. Init => NothingYet
  BY DEF Init, NothingYet
<1>2. NothingYet => RefusedWritesNothing
  BY DEF NothingYet, RefusedWritesNothing
<1> QED BY <1>1, <1>2, NothingYetInductive, PTL DEF Spec

------------------------------------------------------------------------------
(* The ACL that is installed *)

\* What is built of a section that is there and not refused has its default and every
\* one of its rules, in order.
LEMMA BuildFacts ==
  ASSUME NEW section, section.entries \in Seq(Entry),
         Build(section).kind # "refused", section.kind # "none"
  PROVE  /\ Build(section).kind = "acl" /\ Build(section).default = section.default
         /\ Len(Build(section).rules) = Len(section.entries)
         /\ \A i \in DOMAIN Build(section).rules :
              Build(section).rules[i] = Rule(section.entries[i])
<1> DEFINE rules == Rules(section.entries)
<1>1. Build(section) = Acl(section.default, rules)
  BY DEF Build, Refused
<1>2. /\ DOMAIN rules = 1..Len(section.entries) /\ Len(section.entries) \in Nat
      /\ \A i \in DOMAIN rules : rules[i] = Rule(section.entries[i])
  BY DEF Rules
<1>3. Len(rules) = Len(section.entries)
  <2>1. \A i \in 1..Len(section.entries) : rules[i] \in {Rule(section.entries[j]) : j \in DOMAIN section.entries}
    BY <1>2
  <2>2. rules \in Seq({Rule(section.entries[j]) : j \in DOMAIN section.entries})
    BY <1>2, <2>1 DEF Rules
  <2> QED BY <1>2, <2>2
<1> QED BY <1>1, <1>2, <1>3 DEF Acl

Unconfigured == phase \in {"new", "writing", "configuring"} => acl = setup.executorAcl
AclInv == setup \in Setups /\ Unconfigured /\ ServedUnderItsAcl

LEMMA ConfigureInstalls == AclInv /\ Configure => ServedUnderItsAcl'
<1> SUFFICES ASSUME AclInv, Configure, Overrides.usable PROVE ServedUnderItsAcl'
  BY DEF Configure, Goto, ServedUnderItsAcl, Started
<1>1. /\ setup' = setup /\ acl = setup.executorAcl /\ Build(setup.acl).kind # "refused"
      /\ acl' = Installed(IF setup.callerAcl # NoAcl THEN setup.callerAcl ELSE Build(setup.acl))
  BY DEF Configure, AclInv, Unconfigured, Overrides
<1>2. setup.acl.entries \in Seq(Entry)
  BY CatalogAssumption DEF AclInv
<1>3. CASE setup.callerAcl # NoAcl
  BY <1>1, <1>3 DEF Installed, ServedUnderItsAcl
<1>4. CASE setup.callerAcl = NoAcl /\ setup.acl.kind # "none"
  <2>1. Build(setup.acl).kind = "acl"
    BY <1>1, <1>2, <1>4, BuildFacts
  <2>2. acl' = Build(setup.acl)
    BY <1>1, <1>4, <2>1 DEF Installed, NoAcl
  <2>3. /\ acl'.kind = "acl" /\ acl'.default = setup.acl.default
        /\ Len(acl'.rules) = Len(setup.acl.entries)
        /\ \A i \in DOMAIN acl'.rules : acl'.rules[i] = Rule(setup.acl.entries[i])
    BY <1>1, <1>2, <1>4, <2>2, BuildFacts
  <2>4. \A i \in DOMAIN acl'.rules :
          /\ acl'.rules[i].effect = setup.acl.entries[i].effect
          /\ acl'.rules[i].approval = setup.acl.entries[i].approval
          /\ acl'.rules[i].conditions = setup.acl.entries[i].conditions
    <3> TAKE i \in DOMAIN acl'.rules
    <3>1. acl'.rules[i] = Rule(setup.acl.entries[i])
      BY <2>3
    <3> QED BY <3>1 DEF Rule
  <2> QED BY <1>1, <1>4, <2>3, <2>4 DEF ServedUnderItsAcl
<1>5. CASE setup.callerAcl = NoAcl /\ setup.acl.kind = "none"
  <2>1. acl' = setup.executorAcl
    BY <1>1, <1>5 DEF Installed, Build
  <2> QED BY <1>1, <1>5, <2>1 DEF ServedUnderItsAcl
<1> QED BY <1>3, <1>4, <1>5

LEMMA AclInductive == AclInv /\ [Next]_vars => AclInv'
<1> SUFFICES ASSUME AclInv, [Next]_vars PROVE Unconfigured' /\ ServedUnderItsAcl'
  BY SetupStays DEF AclInv
<1>1. CASE Configure
  BY <1>1, ConfigureInstalls DEF Configure, Goto, Unconfigured
<1>2. ASSUME acl' = acl, Started' => Started,
             phase' \in {"new", "writing", "configuring"} => phase \in {"new", "writing", "configuring"}
      PROVE  Unconfigured' /\ ServedUnderItsAcl'
  BY <1>2, SetupStays DEF AclInv, Unconfigured, ServedUnderItsAcl
<1>3. CASE ServerStep
  BY <1>1, <1>2, <1>3, PassOrder
     DEF ServerStep, Backend, Written, Begin, Advertise, Listen, NextPass, Write, ListTool,
         MapSchema, Document, Goto, Started
<1>4. CASE EdgeStep
  BY <1>2, <1>4 DEF EdgeStep, Export, CallFails, serverVars, Started
<1>5. ASSUME NEW t \in Hosts, HostStep(t) PROVE Unconfigured' /\ ServedUnderItsAcl'
  BY <1>2, <1>5 DEF HostStep, Register, Unregister, Event, OnRegister, Insert, OnUnregister,
                    Callback, serverVars, Started
<1>6. CASE UNCHANGED vars
  BY <1>2, <1>6 DEF vars, serverVars, Started
<1> QED BY <1>3, <1>4, <1>5, <1>6 DEF Next

\* For any rules and any number of them the ACL a server runs under is the caller's,
\* or every configured rule, or the executor's own (apcore_mcp.py:556).
THEOREM AclIsTheOneMeant == Spec => []ServedUnderItsAcl
<1>1. Init => AclInv
  BY DEF Init, AclInv, Unconfigured, ServedUnderItsAcl, Started
<1>2. AclInv => ServedUnderItsAcl
  BY DEF AclInv
<1> QED BY <1>1, <1>2, AclInductive, PTL DEF Spec

------------------------------------------------------------------------------
(* The envelopes of errors *)

Replies == setup \in Setups /\ reply \in {NoReply, ToMcpError(setup.error)}

LEMMA RepliesInductive == Replies /\ [Next]_vars => Replies'
<1> SUFFICES ASSUME Replies, [Next]_vars PROVE reply' \in {NoReply, ToMcpError(setup.error)}
  BY SetupStays DEF Replies
<1>1. CASE CallFails
  BY <1>1 DEF CallFails
<1>2. reply' = reply \/ CallFails
  BY DEF Next, ServerStep, EdgeStep, HostStep, vars, Backend, Written, Configure, Begin, Advertise,
         Listen, NextPass, Write, ListTool, MapSchema, Document, Export, Register, Unregister,
         Event, OnRegister, Insert, OnUnregister, Callback, edgeVars
<1> QED BY <1>1, <1>2 DEF Replies

\* Hidden errors answer with fixed words and no more.
LEMMA HiddenFacts ==
  ASSUME NEW e \in Error, Hidden(e)
  PROVE  /\ ToMcpError(e).message \notin {"own", "fields", "step"}
         /\ ToMcpError(e).details = "none" /\ ToMcpError(e).guidance = "absent"
<1>1. CASE e.class \notin {"cancelled", "taskLimit", "circuitOpen", "module", "lookalike"}
  BY <1>1 DEF ToMcpError, Internal, Envelope
<1>2. CASE e.class \in {"module", "lookalike"} /\ e.code \in InternalCodes \cup {"ACL_DENIED"}
  <2>1. ToMcpError(e) = ApcoreError(e)
    BY <1>2 DEF ToMcpError
  <2>2. ApcoreError(e) \in {Envelope(e.code, "generic", "none"), Envelope(e.code, "denied", "none")}
    BY <1>2 DEF ApcoreError, InternalCodes
  <2> QED BY <2>1, <2>2 DEF Envelope
<1> QED BY <1>1, <1>2 DEF Hidden

\* An error that lost its class on the wire is known by its code.
LEMMA WireFacts ==
  ASSUME NEW e \in Error,
         <<e.class, e.code>> \in {<<"taskLimit", "TASK_LIMIT_EXCEEDED">>,
                                  <<"circuitOpen", "CIRCUIT_BREAKER_OPEN">>}
  PROVE  ToMcpError([e EXCEPT !.class = "lookalike"]) = ToMcpError(e)
<1> DEFINE l == [e EXCEPT !.class = "lookalike"]
<1>1. l.class = "lookalike" /\ l.code = e.code /\ l.details = e.details /\ l.hints = e.hints
  BY DEF Error
<1>2. CASE e.class = "taskLimit" /\ e.code = "TASK_LIMIT_EXCEEDED"
  <2>1. ToMcpError(l) = TaskLimit(l) /\ ToMcpError(e) = TaskLimit(e)
    BY <1>1, <1>2 DEF ToMcpError, ApcoreError, InternalCodes
  <2> QED BY <1>1, <2>1 DEF TaskLimit, Hinted, RawDetails
<1>3. CASE e.class = "circuitOpen" /\ e.code = "CIRCUIT_BREAKER_OPEN"
  <2>1. ToMcpError(l) = CircuitBreaker(l) /\ ToMcpError(e) = CircuitBreaker(e)
    BY <1>1, <1>3 DEF ToMcpError, ApcoreError, InternalCodes
  <2> QED BY <1>1, <2>1 DEF CircuitBreaker, Hinted, RawDetails
<1> QED BY <1>2, <1>3

\* Whatever the error, nothing hidden is told and what lost its class is answered as
\* the one that has it (adapters/errors.py:196).
THEOREM ErrorsAreAnsweredInKind == Spec => []ErrorsAnsweredInKind
<1>1. Init => Replies
  BY DEF Init, Replies
<1>2. Replies => ErrorsAnsweredInKind
  <2> SUFFICES ASSUME Replies, Answered PROVE ErrorsAnsweredInKind
    BY DEF ErrorsAnsweredInKind
  <2>1. setup.error \in Error /\ reply = ToMcpError(setup.error)
    BY CatalogAssumption DEF Replies, Answered
  <2> QED BY <2>1, HiddenFacts, WireFacts DEF ErrorsAnsweredInKind
<1> QED BY <1>1, <1>2, RepliesInductive, PTL DEF Spec

------------------------------------------------------------------------------
(* The listings *)

\* While the server starts, what it has listed is there or has vanished, and the pass
\* it is in has done or will do what the property asks of it.
Sustained ==
  /\ ~Starting /\ phase \notin {"listening", "serving", "badTools"} => tools = {}
  /\ phase \notin {"docs", "listening", "serving"} => projected = {}
  /\ Starting => (tools \cup projected) \ vanished \subseteq registry
Masked ==
  /\ phase = "masks" /\ setup.redacts => tools \cap WithSchema \subseteq masks \cup pending \cup vanished
  /\ phase \in {"docs", "listening", "serving"} /\ setup.redacts
       => tools \cap WithSchema \subseteq masks \cup vanished
Described ==
  /\ phase = "docs" => tools \cap Documented \subseteq docs \cup pending \cup vanished
  /\ phase \in {"listening", "serving"} => tools \cap Documented \subseteq docs \cup vanished
Advertised ==
  phase \in {"listening", "serving"} =>
    \A m \in (tools \cup projected) \ vanished : Surface[m] \in surfaces \cup {"none"}
ListingInv == Sustained /\ Masked /\ Described /\ Advertised

LEMMA ServerKeepsListings == ListingInv /\ ServerStep => ListingInv'
<1> SUFFICES ASSUME ListingInv, ServerStep PROVE ListingInv'
  OBVIOUS
<1> USE DEF ListingInv, Sustained, Masked, Described, Advertised, Starting, Goto
<1>1. CASE Backend \/ Written \/ Configure \/ Listen
  BY <1>1 DEF Backend, Written, Configure, Listen, hostVars, listingVars
<1>2. CASE Begin
  BY <1>2, PassOrder DEF Begin, hostVars, listingVars
<1>3. CASE Advertise
  <2>1. /\ phase = "docs" /\ pending = {} /\ phase' = "listening"
        /\ surfaces' = {Surface[m] : m \in registry} \ {"none"}
        /\ UNCHANGED <<setup, registry, tools, masks, docs, projected, vanished>>
    BY <1>3, PassOrder DEF Advertise, hostVars
  <2>2. Advertised'
    BY <2>1
  <2> QED BY <2>1, <2>2
<1>4. ASSUME NEW i \in 1..(Len(Passes) - 1), NextPass(i) PROVE ListingInv'
  <2>1. i = 1 \/ i = 2
    BY PassOrder
  <2>2. CASE i = 1
    BY <1>4, <2>2, PassOrder DEF NextPass, hostVars
  <2>3. CASE i = 2
    BY <1>4, <2>3, PassOrder DEF NextPass, hostVars
  <2> QED BY <2>1, <2>2, <2>3
<1>5. ASSUME NEW m \in Modules, Write(m) PROVE ListingInv'
  BY <1>5 DEF Write, hostVars, listingVars
<1>6. ASSUME NEW m \in Modules, ListTool(m) PROVE ListingInv'
  BY <1>6 DEF ListTool, hostVars, listingVars
<1>7. ASSUME NEW m \in Modules, MapSchema(m) PROVE ListingInv'
  BY <1>7 DEF MapSchema, hostVars
<1>8. ASSUME NEW m \in Modules, Document(m) PROVE ListingInv'
  BY <1>8 DEF Document, hostVars
<1> QED BY <1>1, <1>2, <1>3, <1>4, <1>5, <1>6, <1>7, <1>8 DEF ServerStep

LEMMA ListingInductive == ListingInv /\ [Next]_vars => ListingInv'
<1> SUFFICES ASSUME ListingInv, [Next]_vars PROVE ListingInv'
  OBVIOUS
<1> USE DEF ListingInv, Sustained, Masked, Described, Advertised, Starting
<1>1. CASE EdgeStep
  BY <1>1 DEF EdgeStep, Export, CallFails, serverVars, listingVars, hostVars
<1>2. ASSUME NEW t \in Hosts, HostStep(t) PROVE ListingInv'
  <2>1. ASSUME NEW m \in Modules, Register(t, m) PROVE ListingInv'
    BY <2>1 DEF Register, Event, serverVars, listingVars
  <2>2. ASSUME NEW m \in Modules, Unregister(t, m) PROVE ListingInv'
    BY <2>2 DEF Unregister, Event, serverVars, listingVars
  <2>3. CASE OnRegister(t) \/ Insert(t) \/ OnUnregister(t)
    BY <2>3 DEF OnRegister, Insert, OnUnregister, Callback, serverVars, listingVars
  <2> QED BY <1>2, <2>1, <2>2, <2>3 DEF HostStep
<1>3. CASE UNCHANGED vars
  BY <1>3 DEF vars, serverVars, listingVars, hostVars
<1> QED BY <1>1, <1>2, <1>3, ServerKeepsListings DEF Next

\* Whatever registers and unregisters modules while a server starts, its four listings
\* of the registry agree on those that stay (apcore_mcp.py:702, server/factory.py:671).
THEOREM ListingsDoAgree == Spec => []ListingsAgree
<1>1. Init => ListingInv
  BY DEF Init, ListingInv, Sustained, Masked, Described, Advertised, Starting
<1>2. ListingInv => ListingsAgree
  BY DEF ListingInv, Masked, Described, Advertised, ListingsAgree
<1> QED BY <1>1, <1>2, ListingInductive, PTL DEF Spec

------------------------------------------------------------------------------
(* The listener *)

Callbacks == {"registering", "inserting", "unregistering"}
HostStates == {Idle} \cup [at : Callbacks, module : Modules]

\* Nobody is told before the listener subscribes, which it does last.
Subscribed ==
  /\ host \in [Hosts -> HostStates]
  /\ hears \in {{}, {"register"}, {"register", "unregister"}}
  /\ phase \notin {"listening", "serving"} => hears = {}
  /\ hears # {} => setup.dynamic
  /\ hears = {} => listed = {} /\ announced = {} /\ \A t \in Hosts : host[t] = Idle

\* A callback for a module that no other event met finds it as its own event left it.
Undisturbed ==
  \A t \in Hosts : host[t] # Idle /\ host[t].module \notin raced =>
    /\ \A u \in Hosts \ {t} : host[u] = Idle \/ host[u].module # host[t].module
    /\ host[t].at = "registering" => host[t].module \in registry
    /\ host[t].at = "inserting" => host[t].module \in registry \cap Buildable
    /\ host[t].at = "unregistering" => host[t].module \notin registry \cup announced

ListenerInv == Subscribed /\ Undisturbed /\ ListenerFollows

LEMMA HostStateFacts ==
  /\ \A m : In("registering", m) # Idle /\ In("inserting", m) # Idle /\ In("unregistering", m) # Idle
  /\ \A at, m : In(at, m).at = at /\ In(at, m).module = m
  /\ \A m \in Modules : /\ In("registering", m) \in HostStates
                        /\ In("inserting", m) \in HostStates
                        /\ In("unregistering", m) \in HostStates
  /\ \A h \in HostStates \ {Idle} : h.module \in Modules /\ h.at \in Callbacks
  /\ Idle \in HostStates /\ Idle.at \notin Callbacks
<1>1. \A m : In("registering", m) # Idle /\ In("inserting", m) # Idle /\ In("unregistering", m) # Idle
  <2> TAKE m
  <2>1. Idle.at = "idle" /\ \A a : In(a, m).at = a
    BY DEF Idle, In
  <2> QED BY <2>1
<1>2. Idle.at \notin Callbacks
  BY DEF Idle, Callbacks
<1> QED BY <1>1, <1>2 DEF In, HostStates, Callbacks

LEMMA ServerKeepsListener == ListenerInv /\ ServerStep => ListenerInv'
<1> SUFFICES ASSUME ListenerInv, ServerStep PROVE ListenerInv'
  OBVIOUS
<1>1. UNCHANGED <<setup, hostVars>>
  BY DEF ServerStep, Backend, Written, Configure, Begin, Advertise, Listen, NextPass, Write,
         ListTool, MapSchema, Document
<1>2. CASE \E m \in Modules : Write(m)
  <2>1. hears = {} /\ hears' = hears /\ phase' = "writing"
    BY <1>2 DEF Write, Goto, ListenerInv, Subscribed
  <2>2. listed = {} /\ announced = {} /\ \A t \in Hosts : host[t] = Idle
    BY <2>1 DEF ListenerInv, Subscribed
  <2> QED BY <1>1, <2>1, <2>2 DEF hostVars, ListenerInv, Subscribed, Undisturbed, ListenerFollows
<1>3. ASSUME registry' = registry, Subscribed' PROVE ListenerInv'
  <2>1. Undisturbed'
    BY <1>1, <1>3 DEF hostVars, ListenerInv, Undisturbed, Buildable
  <2>2. ListenerFollows'
    BY <1>1, <1>3 DEF hostVars, ListenerInv, ListenerFollows, Busy, Buildable
  <2> QED BY <1>3, <2>1, <2>2 DEF ListenerInv
<1>4. CASE Listen
  <2>1. IF setup.dynamic THEN hears' # {} ELSE hears' = {} /\ hears = {}
    BY <1>4 DEF Listen, ListenerInv, Subscribed
  <2>2. Subscribed'
    BY <1>1, <1>4, <2>1 DEF Listen, Goto, hostVars, ListenerInv, Subscribed
  <2> QED BY <1>3, <1>4, <2>2 DEF Listen
<1>5. CASE /\ registry' = registry /\ hears' = hears
           /\ phase' \notin {"listening", "serving"} => hears = {}
  <2>1. Subscribed'
    BY <1>1, <1>5 DEF hostVars, ListenerInv, Subscribed
  <2> QED BY <1>3, <1>5, <2>1
<1>6. \/ \E m \in Modules : Write(m)
      \/ Listen
      \/ /\ registry' = registry /\ hears' = hears
         /\ phase' \notin {"listening", "serving"} => hears = {}
  BY PassOrder
     DEF ServerStep, Backend, Written, Configure, Begin, Advertise, NextPass, ListTool,
         MapSchema, Document, Goto, ListenerInv, Subscribed
<1> QED BY <1>2, <1>4, <1>5, <1>6

LEMMA EventsKeepListener ==
  ASSUME ListenerInv, NEW t \in Hosts, NEW m \in Modules, Register(t, m) \/ Unregister(t, m)
  PROVE  ListenerInv'
<1> USE HostStateFacts
<1>1. /\ host[t] = Idle /\ setup' = setup /\ phase' = phase /\ hears' = hears /\ listed' = listed
      /\ raced' = IF Busy(m) \/ hears = {"register"} THEN raced \cup {m} ELSE raced
      /\ \A n : n # m => (n \in registry' <=> n \in registry) /\ (n \in announced' <=> n \in announced)
      /\ host' = host \/ \E at \in {"registering", "unregistering"} : host' = [host EXCEPT ![t] = In(at, m)]
      /\ hears = {} => host' = host /\ announced' \subseteq announced
  BY DEF Register, Unregister, Event, serverVars, ListenerInv, Subscribed
<1>2. Subscribed'
  <2>1. host' \in [Hosts -> HostStates]
    BY <1>1 DEF ListenerInv, Subscribed
  <2> QED BY <1>1, <2>1 DEF ListenerInv, Subscribed
<1>3. \A u \in Hosts : u # t => host'[u] = host[u]
  BY <1>1 DEF ListenerInv, Subscribed
<1>4. \A n : n # m => (Busy(n)' <=> Busy(n))
  <2> SUFFICES ASSUME NEW n, n # m PROVE Busy(n)' <=> Busy(n)
    OBVIOUS
  <2>1. host'[t] = Idle \/ host'[t].module = m
    BY <1>1 DEF ListenerInv, Subscribed
  <2> QED BY <1>1, <1>3, <2>1 DEF Busy
<1>5. CASE m \in raced'
  <2>1. Undisturbed'
    <3> SUFFICES ASSUME NEW u \in Hosts, host'[u] # Idle, host'[u].module \notin raced'
                 PROVE  /\ \A v \in Hosts \ {u} : host'[v] = Idle \/ host'[v].module # host'[u].module
                        /\ host'[u].at = "registering" => host'[u].module \in registry'
                        /\ host'[u].at = "inserting" => host'[u].module \in registry' \cap Buildable
                        /\ host'[u].at = "unregistering" => host'[u].module \notin registry' \cup announced'
      BY DEF Undisturbed, Buildable
    <3>1. host'[t] = Idle \/ host'[t].module = m
      BY <1>1 DEF ListenerInv, Subscribed
    <3>2. u # t /\ host'[u] = host[u] /\ host[u].module # m /\ host[u].module \notin raced
      BY <1>1, <1>3, <1>5, <3>1
    <3> QED BY <1>1, <1>3, <3>1, <3>2 DEF ListenerInv, Undisturbed
  <2>2. ListenerFollows'
    BY <1>1, <1>4, <1>5 DEF ListenerInv, ListenerFollows, Buildable
  <2> QED BY <1>2, <2>1, <2>2 DEF ListenerInv
<1>6. CASE m \notin raced'
  <2>1. ~Busy(m) /\ hears # {"register"} /\ raced' = raced /\ m \notin raced
    BY <1>1, <1>6
  <2>2. \A u \in Hosts : host[u] = Idle \/ host[u].module # m
    BY <2>1 DEF Busy
  <2>3. CASE hears = {}
    <3>1. host' = host /\ listed' = {} /\ announced' = {} /\ \A u \in Hosts : host[u] = Idle
      BY <1>1, <2>3 DEF ListenerInv, Subscribed
    <3> QED BY <1>2, <3>1 DEF ListenerInv, Undisturbed, ListenerFollows
  <2>4. CASE hears = {"register", "unregister"}
    <3>1. \/ host'[t] = In("registering", m) /\ m \in registry'
          \/ host'[t] = In("unregistering", m) /\ m \notin registry' \cup announced'
      BY <2>4 DEF Register, Unregister, ListenerInv, Subscribed
    <3>2. Busy(m)'
      BY <3>1 DEF Busy
    <3>3. Undisturbed'
      BY <1>1, <1>3, <2>1, <2>2, <3>1 DEF ListenerInv, Undisturbed, Buildable
    <3>4. ListenerFollows'
      BY <1>1, <1>4, <2>1, <3>2 DEF ListenerInv, ListenerFollows, Buildable
    <3> QED BY <1>2, <3>3, <3>4 DEF ListenerInv
  <2> QED BY <2>1, <2>3, <2>4 DEF ListenerInv, Subscribed
<1> QED BY <1>5, <1>6

LEMMA CallbacksKeepListener ==
  ASSUME ListenerInv, NEW t \in Hosts, OnRegister(t) \/ Insert(t) \/ OnUnregister(t)
  PROVE  ListenerInv'
<1> USE HostStateFacts
<1> DEFINE m == host[t].module
<1>1. /\ host[t] # Idle /\ m \in Modules
      /\ UNCHANGED <<setup, registry, phase, hears, raced, announced>>
  <2>1. host[t].at \in Callbacks
    BY DEF OnRegister, Insert, OnUnregister, Callbacks
  <2>2. host[t] \in HostStates \ {Idle}
    BY <2>1 DEF ListenerInv, Subscribed
  <2>3. UNCHANGED <<setup, registry, phase, hears, raced, announced>>
    BY DEF OnRegister, Insert, OnUnregister, Callback, serverVars
  <2> QED BY <2>2, <2>3
<1>2. /\ \A u \in Hosts : u # t => host'[u] = host[u]
      /\ host' \in [Hosts -> HostStates]
      /\ \/ host'[t] = Idle
         \/ host'[t] = In("inserting", m) /\ host[t].at = "registering" /\ m \in registry \cap Buildable
  <2>1. host \in [Hosts -> HostStates]
    BY DEF ListenerInv, Subscribed
  <2>2. \/ host' = [host EXCEPT ![t] = Idle]
        \/ /\ host' = [host EXCEPT ![t] = In("inserting", m)]
           /\ host[t].at = "registering" /\ m \in registry \cap Buildable
    BY DEF OnRegister, Insert, OnUnregister
  <2>3. Idle \in HostStates /\ In("inserting", m) \in HostStates
    BY <1>1
  <2> QED BY <2>1, <2>2, <2>3
<1>3. \A n : n # m => (n \in listed' <=> n \in listed)
  BY DEF OnRegister, Insert, OnUnregister
<1>4. Subscribed'
  BY <1>1, <1>2 DEF ListenerInv, Subscribed
<1>5. Undisturbed'
  <2> SUFFICES ASSUME NEW u \in Hosts, host'[u] # Idle, host'[u].module \notin raced
               PROVE  /\ \A v \in Hosts \ {u} : host'[v] = Idle \/ host'[v].module # host'[u].module
                      /\ host'[u].at = "registering" => host'[u].module \in registry
                      /\ host'[u].at = "inserting" => host'[u].module \in registry \cap Buildable
                      /\ host'[u].at = "unregistering" => host'[u].module \notin registry \cup announced
    BY <1>1 DEF Undisturbed, Buildable
  <2>1. host[u] # Idle /\ host'[u].module = host[u].module
    BY <1>1, <1>2
  <2>2. \A v \in Hosts \ {u} : host'[v] = Idle \/ host'[v].module # host'[u].module
    BY <1>1, <1>2, <2>1 DEF ListenerInv, Undisturbed
  <2>3. CASE u = t
    BY <1>2, <2>2, <2>3
  <2>4. CASE u # t
    BY <1>2, <2>1, <2>2, <2>4 DEF ListenerInv, Undisturbed
  <2> QED BY <2>3, <2>4
<1>6. ListenerFollows'
  <2> SUFFICES ASSUME NEW n \in Modules \ raced, ~Busy(n)'
               PROVE  /\ n \in listed' => n \in registry
                      /\ n \in announced \cap Buildable => n \in listed'
    BY <1>1 DEF ListenerFollows, Buildable
  <2>1. CASE n # m
    <3>1. ~Busy(n)
      BY <1>1, <1>2, <2>1 DEF Busy
    <3> QED BY <1>3, <2>1, <3>1 DEF ListenerInv, ListenerFollows
  <2>2. CASE n = m
    <3>1. host'[t] = Idle
      BY <1>2, <2>2 DEF Busy
    <3>2. \A u \in Hosts \ {t} : host[u] = Idle \/ host[u].module # m
      BY <1>1, <2>2 DEF ListenerInv, Undisturbed
    <3>3. CASE OnRegister(t)
      <4>1. m \in registry /\ m \notin Buildable /\ listed' = listed
        BY <1>1, <2>2, <3>1, <3>3 DEF OnRegister, ListenerInv, Subscribed, Undisturbed
      <4> QED BY <2>2, <4>1
    <3>4. CASE Insert(t)
      <4>1. m \in registry /\ m \in listed'
        BY <1>1, <2>2, <3>4 DEF Insert, ListenerInv, Undisturbed
      <4> QED BY <2>2, <4>1
    <3>5. CASE OnUnregister(t)
      <4>1. m \notin announced /\ m \notin listed'
        BY <1>1, <2>2, <3>5 DEF OnUnregister, ListenerInv, Undisturbed
      <4> QED BY <2>2, <4>1
    <3> QED BY <3>3, <3>4, <3>5
  <2> QED BY <2>1, <2>2
<1> QED BY <1>4, <1>5, <1>6 DEF ListenerInv

LEMMA ListenerInductive == ListenerInv /\ [Next]_vars => ListenerInv'
<1> SUFFICES ASSUME ListenerInv, [Next]_vars PROVE ListenerInv'
  OBVIOUS
<1>1. CASE UNCHANGED <<setup, registry, phase, hears, listed, host, raced, announced>>
  BY <1>1 DEF ListenerInv, Subscribed, Undisturbed, ListenerFollows, Busy, Buildable
<1>2. CASE EdgeStep
  BY <1>1, <1>2 DEF EdgeStep, Export, CallFails, serverVars, hostVars
<1>3. ASSUME NEW t \in Hosts, HostStep(t) PROVE ListenerInv'
  BY <1>3, EventsKeepListener, CallbacksKeepListener DEF HostStep
<1>4. CASE UNCHANGED vars
  BY <1>1, <1>4 DEF vars, serverVars, hostVars
<1> QED BY <1>2, <1>3, <1>4, ServerKeepsListener DEF Next

\* However many threads change the registry, the listener holds a module exactly when
\* it should once the callbacks for it are done (server/listener.py:85).
THEOREM ListenerDoesFollow == Spec => []ListenerFollows
<1>1. Init => ListenerInv
  BY HostStateFacts DEF Init, ListenerInv, Subscribed, Undisturbed, ListenerFollows
<1>2. ListenerInv => ListenerFollows
  BY DEF ListenerInv
<1> QED BY <1>1, <1>2, ListenerInductive, PTL DEF Spec

------------------------------------------------------------------------------
(* Schemas *)

\* Reading visits places of a schema and inlining builds a tree: two recursions over the
\* same ways.  First each visit is related to the tree that is inlined there, from the
\* root downwards (Reached) and from the depth limit upwards (ReadingGoesOn).  Then a
\* circle, in which inlining meets a name again, is related to reading without end
\* (Circles).

(* Places *)

\* What is there at a place.
LEMMA PlaceFacts ==
  ASSUME NEW t \in Trees
  PROVE  /\ Places(t) \subseteq Paths /\ <<>> \in Places(t)
         /\ \A p \in Places(t) : <<p, Value(t, p)>> \in t /\ Value(t, p) \in Leaves \cup {"dict"}
         /\ \A p, v : <<p, v>> \in t => p \in Places(t) /\ v = Value(t, p)
         /\ \A p \in Paths : \A k \in KeysAt(t, p) :
              k \in Keys /\ Append(p, k) \in Places(t) /\ <<p, "dict">> \in t
         /\ \A p \in Paths : \A k \in Keys : Append(p, k) \in Places(t) => k \in KeysAt(t, p)
<1>1. ASSUME NEW n \in t PROVE n = <<n[1], n[2]>> /\ n[1] \in Places(t) /\ n[1] \in Paths
  BY <1>1, TreeFacts DEF Places
<1>2. Places(t) \subseteq Paths
  BY <1>1 DEF Places
<1>3. <<>> \in Places(t)
  BY DEF Places, Trees, IsTree
<1>4. ASSUME NEW p \in Places(t)
      PROVE  <<p, Value(t, p)>> \in t /\ Value(t, p) \in Leaves \cup {"dict"}
  <2>1. \E n \in t : n[1] = p
    BY DEF Places
  <2> DEFINE n == CHOOSE n \in t : n[1] = p
  <2>2. n \in t /\ n[1] = p
    BY <2>1
  <2>3. Value(t, p) = n[2]
    BY DEF Value
  <2> HIDE DEF n
  <2> QED BY <2>2, <2>3, TreeFacts
<1>5. ASSUME NEW p, NEW v, <<p, v>> \in t PROVE p \in Places(t) /\ v = Value(t, p)
  <2>1. p \in Places(t)
    BY <1>5, <1>1
  <2>2. <<p, Value(t, p)>> \in t
    BY <1>4, <2>1
  <2>3. <<p, v>> = <<p, Value(t, p)>>
    BY <1>5, <2>2, TreeFacts
  <2> QED BY <2>1, <2>3
<1>6. ASSUME NEW p \in Paths, NEW k \in KeysAt(t, p)
      PROVE  k \in Keys /\ Append(p, k) \in Places(t) /\ <<p, "dict">> \in t
  <2>1. k \in Keys
    BY KeysFacts
  <2>2. PICK n \in t : IsPrefix(Append(p, k), n[1])
    BY <2>1, KeysFacts
  <2>3. Append(p, k) \in Paths /\ n[1] \in Paths /\ IsStrictPrefix(p, n[1])
    BY <2>1, <2>2, <1>1, AppendPath
  <2>4. <<p, "dict">> \in t
    BY <2>3, TreeFacts
  <2>5. Append(p, k) = n[1] \/ IsStrictPrefix(Append(p, k), n[1])
    BY <2>2, <2>3, StrictPrefix
  <2>6. Append(p, k) \in Places(t)
    <3>1. CASE Append(p, k) = n[1]
      BY <3>1, <1>1
    <3>2. CASE IsStrictPrefix(Append(p, k), n[1])
      <4>1. <<Append(p, k), "dict">> \in t
        BY <2>3, <3>2, TreeFacts
      <4> QED BY <4>1, <1>5
    <3> QED BY <2>5, <3>1, <3>2
  <2> QED BY <2>1, <2>4, <2>6
<1>7. ASSUME NEW p \in Paths, NEW k \in Keys, Append(p, k) \in Places(t)
      PROVE  k \in KeysAt(t, p)
  <2>1. PICK n \in t : n[1] = Append(p, k)
    BY <1>7 DEF Places
  <2>2. IsPrefix(Append(p, k), n[1])
    BY <2>1, <1>1, StrictPrefix
  <2> QED BY <2>2, KeysFacts
<1> HIDE DEF Places, Value, KeysAt
<1> QED BY <1>2, <1>3, <1>4, <1>5, <1>6, <1>7

\* Where the node at p leads to.
LEMMA Ways ==
  ASSUME NEW t \in Trees, NEW p \in Places(t)
  PROVE  /\ p \in Paths
         /\ Own(t, p) \subseteq Keys
         /\ \A k \in Own(t, p) : Append(p, k) \in Places(t) /\ Value(t, p) = "dict"
         /\ IsRef(t, p) => Value(t, p) = "dict"
         /\ IsRef(t, p) /\ Known(t, p) => Target(t, p) \in Places(t) /\ Name(t, p) \in Leaves
<1>1. p \in Paths
  BY PlaceFacts
<1>2. ASSUME NEW k \in KeysAt(t, p)
      PROVE  k \in Keys /\ Append(p, k) \in Places(t) /\ Value(t, p) = "dict"
  BY <1>1, PlaceFacts
<1>3. ASSUME Known(t, p) PROVE Target(t, p) \in Places(t) /\ Name(t, p) \in Leaves
  <2>1. Name(t, p) \in KeysAt(t, <<"defs">>) /\ Name(t, p) \in Leaves
    BY <1>3 DEF Known
  <2>2. <<"defs">> \in Paths
    BY SchemaAssumption DEF Paths
  <2>3. Append(<<"defs">>, Name(t, p)) = <<"defs", Name(t, p)>>
    <3> DEFINE n == Name(t, p)  a == Append(<<"defs">>, n)  b == <<"defs", n>>
    <3>0. {"defs", n} # {} /\ <<"defs">> \in Seq({"defs", n}) /\ Len(<<"defs">>) = 1
      OBVIOUS
    <3>1. a \in Seq({"defs", n}) /\ Len(a) = 2 /\ a[1] = "defs" /\ a[2] = n
      BY <3>0, AppendProperties
    <3>2. b \in Seq({"defs", n}) /\ Len(b) = 2 /\ b[1] = "defs" /\ b[2] = n
      OBVIOUS
    <3> HIDE DEF a, b, n
    <3>3. \A i \in 1 .. 2 : a[i] = b[i]
      BY <3>1, <3>2
    <3>4. a = b
      BY <3>1, <3>2, <3>3, SeqEqual
    <3> QED BY <3>4 DEF a, b, n
  <2> QED BY <2>1, <2>2, <2>3, PlaceFacts DEF Target
<1>4. Own(t, p) \subseteq KeysAt(t, p) /\ (IsRef(t, p) => KeysAt(t, p) # {})
  BY DEF Own, IsRef
<1> HIDE DEF Own, IsRef, Known, Name, Target, Places, Value, KeysAt
<1> QED BY <1>1, <1>2, <1>3, <1>4

------------------------------------------------------------------------------
(* Visits *)

\* All visits there can be.
TheVisits(t) == Paths \X Places(t) \X (SUBSET Keys)

BesideKeys(t, p) == IF Own(t, p) = {} THEN {} ELSE Own(t, p) \cup {"*"}

\* A visit leads to visits, and the recursion that counts them is defined everywhere.
LEMMA VisitsFromAre ==
  ASSUME NEW t \in Trees, NEW v \in TheVisits(t)
  PROVE  VisitsFrom(t, v) \in SUBSET TheVisits(t)
<1> DEFINE q == v[1]  p == v[2]  h == v[3]
<1>1. q \in Paths /\ p \in Places(t) /\ h \in SUBSET Keys
  BY DEF TheVisits
<1> HIDE DEF q, p, h
<1>2. ASSUME NEW k \in Own(t, p)
      PROVE  <<Append(q, k), Append(p, k), IF k \in h THEN Keys ELSE {}>> \in TheVisits(t)
  <2>1. k \in Keys /\ Append(p, k) \in Places(t)
    BY <1>1, Ways
  <2>2. Append(q, k) \in Paths
    BY <1>1, <2>1, AppendPath
  <2> QED BY <2>1, <2>2 DEF TheVisits
<1>3. ASSUME IsRef(t, p), Known(t, p)
      PROVE  <<q, Target(t, p), h \cup BesideKeys(t, p)>> \in TheVisits(t)
  <2>1. Target(t, p) \in Places(t) /\ Own(t, p) \in SUBSET Keys
    BY <1>1, <1>3, Ways
  <2>2. BesideKeys(t, p) \in SUBSET Keys
    BY <2>1, SchemaAssumption DEF BesideKeys
  <2> QED BY <1>1, <2>1, <2>2 DEF TheVisits
<1>4. VisitsFrom(t, v) =
        {<<Append(q, k), Append(p, k), IF k \in h THEN Keys ELSE {}>> : k \in Own(t, p)}
        \cup IF IsRef(t, p) /\ Known(t, p) THEN {<<q, Target(t, p), h \cup BesideKeys(t, p)>>} ELSE {}
  BY DEF VisitsFrom, BesideKeys, q, p, h
<1> QED BY <1>2, <1>3, <1>4

LEMMA VisitsAre ==
  ASSUME NEW t \in Trees
  PROVE  /\ Visits(t, 0) = {Root}
         /\ \A n \in Nat : /\ Visits(t, n) \in SUBSET TheVisits(t)
                           /\ Visits(t, n + 1) = UNION {VisitsFrom(t, v) : v \in Visits(t, n)}
<1> DEFINE S == SUBSET TheVisits(t)
           step == [V \in S |-> UNION {VisitsFrom(t, v) : v \in V}]
           F(f) == [i \in Nat |-> IF i = 0 THEN {Root}
                                  ELSE UNION {VisitsFrom(t, v) : v \in f[i - 1]}]
           visits == CHOOSE f : f = F(f)
<1>1. {Root} \in S
  <2>1. <<>> \in Paths /\ <<>> \in Places(t)
    BY PlaceFacts DEF Paths
  <2> QED BY <2>1 DEF Root, TheVisits
<1>2. step \in [S -> S]
  <2>1. ASSUME NEW V \in S PROVE UNION {VisitsFrom(t, v) : v \in V} \in S
    BY VisitsFromAre
  <2> QED BY <2>1
<1>3a. PICK f \in [Nat -> S] : Unrolls(f, {Root}, step)
  <2> HIDE DEF S, step
  <2> QED BY <1>1, <1>2, Iterates
<1>3. f \in [Nat -> S] /\ f[0] = {Root} /\ \A i \in Nat : f[i + 1] = step[f[i]]
  <2> HIDE DEF S, step
  <2> QED BY <1>3a DEF Unrolls
<1>4. f = F(f)
  <2>1. ASSUME NEW i \in Nat PROVE f[i] = F(f)[i]
    <3>1. CASE i = 0
      BY <1>3, <3>1
    <3>2. CASE i # 0
      <4>1. i - 1 \in Nat /\ (i - 1) + 1 = i
        BY <3>2
      <4>2. f[i] = step[f[i - 1]] /\ f[i - 1] \in S
        BY <1>3, <4>1
      <4> QED BY <3>2, <4>2
    <3> QED BY <3>1, <3>2
  <2> QED BY <1>3, <2>1
<1>5. visits = F(visits)
  <2> HIDE DEF F
  <2> QED BY <1>4
<1>6. \A n : Visits(t, n) = visits[n]
  BY DEF Visits
<1> HIDE DEF visits
<1>7. visits[0] = {Root}
  BY <1>5
<1>8. ASSUME NEW n \in Nat
      PROVE  visits[n + 1] = UNION {VisitsFrom(t, v) : v \in visits[n]}
  <2>1. visits[n + 1] = F(visits)[n + 1]
    BY <1>5
  <2>2. n + 1 \in Nat /\ n + 1 # 0 /\ (n + 1) - 1 = n
    OBVIOUS
  <2> QED BY <2>1, <2>2
<1>9. ASSUME NEW n \in Nat PROVE visits[n] \in S
  <2> DEFINE Bad == {i \in Nat : visits[i] \notin S}
  <2>1. CASE Bad # {}
    <3>1. Bad \in SUBSET Nat
      OBVIOUS
    <3>2. PICK m \in Bad : \A i \in Bad : m <= i
      <4> HIDE DEF Bad
      <4> QED BY <2>1, <3>1, LeastNatural
    <3>3. m # 0
      BY <1>1, <1>7
    <3>4. m - 1 \in Nat /\ (m - 1) + 1 = m /\ ~(m <= m - 1)
      BY <3>3
    <3>5. visits[m - 1] \in S
      BY <3>2, <3>4
    <3>6. visits[m] = UNION {VisitsFrom(t, v) : v \in visits[m - 1]}
      BY <1>8, <3>4
    <3> QED BY <3>5, <3>6, VisitsFromAre
  <2> QED BY <2>1
<1> QED BY <1>6, <1>7, <1>8, <1>9

\* Where a visit leads to.
LEMMA Visited ==
  ASSUME NEW t \in Trees, NEW n \in Nat, NEW q, NEW p, NEW h, <<q, p, h>> \in Visits(t, n)
  PROVE  /\ q \in Paths /\ p \in Places(t) /\ h \in SUBSET Keys
         /\ \A k \in Own(t, p) :
              <<Append(q, k), Append(p, k), IF k \in h THEN Keys ELSE {}>> \in Visits(t, n + 1)
         /\ IsRef(t, p) /\ Known(t, p) =>
              <<q, Target(t, p), h \cup BesideKeys(t, p)>> \in Visits(t, n + 1)
<1>1. <<q, p, h>> \in TheVisits(t) /\ VisitsFrom(t, <<q, p, h>>) \subseteq Visits(t, n + 1)
  BY VisitsAre
<1>2. q \in Paths /\ p \in Places(t) /\ h \in SUBSET Keys
  BY <1>1 DEF TheVisits
<1>3. VisitsFrom(t, <<q, p, h>>) =
        {<<Append(q, k), Append(p, k), IF k \in h THEN Keys ELSE {}>> : k \in Own(t, p)}
        \cup IF IsRef(t, p) /\ Known(t, p) THEN {<<q, Target(t, p), h \cup BesideKeys(t, p)>>} ELSE {}
  BY DEF VisitsFrom, BesideKeys
<1> QED BY <1>1, <1>2, <1>3

\* Where a visit comes from.
LeadsTo(t, q, p, h, w) ==
  \/ \E k \in Own(t, p) : w = <<Append(q, k), Append(p, k), IF k \in h THEN Keys ELSE {}>>
  \/ IsRef(t, p) /\ Known(t, p) /\ w = <<q, Target(t, p), h \cup BesideKeys(t, p)>>

LEMMA VisitedFrom ==
  ASSUME NEW t \in Trees, NEW n \in Nat, NEW w \in Visits(t, n + 1)
  PROVE  \E q, p, h : <<q, p, h>> \in Visits(t, n) /\ LeadsTo(t, q, p, h, w)
<1>1. PICK v \in Visits(t, n) : w \in VisitsFrom(t, v)
  BY VisitsAre
<1>2. v \in TheVisits(t)
  BY VisitsAre
<1> DEFINE q == v[1]  p == v[2]  h == v[3]
<1>3. v = <<q, p, h>>
  BY <1>2 DEF TheVisits
<1>4. VisitsFrom(t, v) =
        {<<Append(q, k), Append(p, k), IF k \in h THEN Keys ELSE {}>> : k \in Own(t, p)}
        \cup IF IsRef(t, p) /\ Known(t, p) THEN {<<q, Target(t, p), h \cup BesideKeys(t, p)>>} ELSE {}
  BY DEF VisitsFrom, BesideKeys
<1> HIDE DEF q, p, h
<1>5. <<q, p, h>> \in Visits(t, n)
  BY <1>3
<1>6. LeadsTo(t, q, p, h, w)
  BY <1>1, <1>4 DEF LeadsTo
<1> QED BY <1>5, <1>6

------------------------------------------------------------------------------
(* What inlining makes of a node *)

\* A node n of what is under the key k.
Under(k, n) == << <<k>> \o n[1], n[2]>>

\* What an object is made of.
MadeOf(o, f) ==
  \A m : m \in o <=> \/ m = << <<>>, "dict">>
                    \/ \E k \in DOMAIN f : \E n \in f[k] : m = Under(k, n)

\* An object of trees has their nodes, each under its key.
LEMMA ObjectIs ==
  ASSUME NEW K \in SUBSET Keys, NEW f, DOMAIN f = K, \A k \in K : f[k] \in Trees
  PROVE  /\ Object(f) \in Dicts
         /\ KeysAt(Object(f), <<>>) = K
         /\ MadeOf(Object(f), f)
<1> DEFINE o == Object(f)
<1>0. <<>> \in Paths /\ Len(<<>>) = 0
  BY DEF Paths
<1>1. \A m : m \in o <=>
        \/ m = << <<>>, "dict">>
        \/ \E k \in K : \E n \in f[k] : m = Under(k, n)
  <2> DEFINE G(k) == {Under(k, n) : n \in f[k]}
  <2>1. o = {<< <<>>, "dict">>} \cup UNION {G(k) : k \in K}
    BY DEF Object, EmptyDict, Under
  <2>2. \A m, k : m \in G(k) <=> \E n \in f[k] : m = Under(k, n)
    OBVIOUS
  <2> HIDE DEF G, o
  <2>3. \A m : m \in o <=> m = << <<>>, "dict">> \/ \E k \in K : m \in G(k)
    BY <2>1
  <2> QED BY <2>2, <2>3 DEF o
<1>2. ASSUME NEW k \in K, NEW n \in f[k]
      PROVE  /\ k \in Keys /\ f[k] \in Trees
             /\ n[1] \in Paths /\ n[2] \in Leaves \cup {"dict"} /\ n = <<n[1], n[2]>>
             /\ <<k>> \o n[1] \in Paths /\ <<k>> \o n[1] # <<>>
             /\ Under(k, n)[1] = <<k>> \o n[1] /\ Under(k, n)[2] = n[2] /\ Under(k, n)[1] # <<>>
             /\ Under(k, n) \in Paths \X (Leaves \cup {"dict"})
  <2>1. k \in Keys /\ f[k] \in Trees
    OBVIOUS
  <2>2. n[1] \in Paths /\ n[2] \in Leaves \cup {"dict"} /\ n = <<n[1], n[2]>>
    BY <2>1, TreeFacts
  <2>3. <<k>> \o n[1] \in Paths /\ <<k>> \o n[1] # <<>>
    BY <2>1, <2>2, ConsPath
  <2>4. Under(k, n)[1] = <<k>> \o n[1] /\ Under(k, n)[2] = n[2]
    BY DEF Under
  <2>4a. Under(k, n)[1] # <<>>
    BY <2>3, <2>4
  <2>5. Under(k, n) \in Paths \X (Leaves \cup {"dict"})
    BY <2>2, <2>3 DEF Under
  <2> QED BY <2>1, <2>2, <2>3, <2>4, <2>4a, <2>5
<1> HIDE DEF o
<1>3. o \in SUBSET (Paths \X (Leaves \cup {"dict"}))
  <2> SUFFICES ASSUME NEW m \in o PROVE m \in Paths \X (Leaves \cup {"dict"})
    OBVIOUS
  <2>1. CASE m = << <<>>, "dict">>
    BY <1>0, <2>1
  <2>2. CASE \E k \in K : \E n \in f[k] : m = Under(k, n)
    <3>1. PICK k \in K : \E n \in f[k] : m = Under(k, n)
      BY <2>2
    <3>2. PICK n \in f[k] : m = Under(k, n)
      BY <3>1
    <3> QED BY <1>2, <3>2
  <2> QED BY <1>1, <2>1, <2>2
<1>4. ASSUME NEW m \in o, NEW n \in o, m[1] = n[1] PROVE m = n
  <2>1. CASE m = << <<>>, "dict">>
    <3>1. m[1] = <<>>
      BY <2>1
    <3>2. ~\E k \in K : \E x \in f[k] : n = Under(k, x)
      BY <1>2, <1>4, <3>1
    <3> QED BY <1>1, <2>1, <3>2
  <2>2. CASE n = << <<>>, "dict">>
    <3>1. n[1] = <<>>
      BY <2>2
    <3>2. ~\E k \in K : \E x \in f[k] : m = Under(k, x)
      BY <1>2, <1>4, <3>1
    <3> QED BY <1>1, <2>2, <3>2
  <2>3. CASE m # << <<>>, "dict">> /\ n # << <<>>, "dict">>
    <3>1. PICK k \in K : \E x \in f[k] : m = Under(k, x)
      BY <1>1, <2>3
    <3>1a. PICK x \in f[k] : m = Under(k, x)
      BY <3>1
    <3>2. PICK l \in K : \E y \in f[l] : n = Under(l, y)
      BY <1>1, <2>3
    <3>2a. PICK y \in f[l] : n = Under(l, y)
      BY <3>2
    <3>3. k = l /\ x[1] = y[1]
      <4>1. /\ k \in Keys /\ l \in Keys /\ x[1] \in Paths /\ y[1] \in Paths
            /\ <<k>> \o x[1] = <<l>> \o y[1]
        <5>1. Under(k, x)[1] = <<k>> \o x[1] /\ Under(l, y)[1] = <<l>> \o y[1]
          BY <1>2
        <5> QED BY <1>2, <1>4, <3>1a, <3>2a, <5>1
      <4> DEFINE p == x[1]  r == y[1]
      <4>2. k \in Keys /\ l \in Keys /\ p \in Paths /\ r \in Paths /\ <<k>> \o p = <<l>> \o r
        BY <4>1
      <4> HIDE DEF p, r
      <4>3. k = l /\ p = r
        BY <4>2, ConsFacts
      <4> QED BY <4>3 DEF p, r
    <3>4. x = y
      BY <1>2, <3>3, TreeFacts
    <3> QED BY <3>1a, <3>2a, <3>3, <3>4
  <2> QED BY <2>1, <2>2, <2>3
<1>5. ASSUME NEW n \in o, NEW p \in Paths, IsStrictPrefix(p, n[1])
      PROVE  <<p, "dict">> \in o
  <2>1. CASE p = <<>>
    BY <1>1, <2>1
  <2>2. CASE p # <<>>
    <3>1. n # << <<>>, "dict">>
      <4>1. Len(p) \in Nat
        BY DEF Paths
      <4>2. ~IsStrictPrefix(p, <<>>)
        BY <1>0, <4>1, StrictPrefix
      <4> QED BY <1>5, <4>2
    <3>2. PICK k \in K : \E x \in f[k] : n = Under(k, x)
      BY <1>1, <3>1
    <3>2a. PICK x \in f[k] : n = Under(k, x)
      BY <3>2
    <3>3. p[1] \in Keys /\ Tail(p) \in Paths /\ p = <<p[1]>> \o Tail(p)
      BY <2>2, PathCases
    <3> DEFINE l == p[1]  q == Tail(p)
    <3>4. l \in Keys /\ q \in Paths /\ p = <<l>> \o q
      BY <3>3
    <3> HIDE DEF l, q
    <3>5. l = k /\ IsStrictPrefix(q, x[1])
      <4>1. /\ k \in Keys /\ x[1] \in Paths
            /\ IsStrictPrefix(<<l>> \o q, <<k>> \o x[1])
        BY <1>2, <1>5, <3>2a, <3>4
      <4> QED BY <3>4, <4>1, ConsFacts
    <3>6. <<q, "dict">> \in f[k]
      BY <1>2, <3>4, <3>5, TreeFacts
    <3>7. <<p, "dict">> = Under(k, <<q, "dict">>)
      BY <3>4, <3>5 DEF Under
    <3> QED BY <1>1, <3>6, <3>7
  <2> QED BY <2>1, <2>2
<1>6. << <<>>, "dict">> \in o
  BY <1>1
<1>7. o \in Trees
  <2>1. \E n \in o : n[1] = <<>>
    BY <1>6
  <2> QED BY <1>3, <1>4, <1>5, <2>1, IsATree
<1>8. ASSUME NEW k \in Keys PROVE k \in KeysAt(o, <<>>) <=> k \in K
  <2>0. Append(<<>>, k) = <<k>> \o <<>> /\ <<k>> \o <<>> = <<k>>
    BY <1>0, AppendIsConcat, ConcatEmptySeq DEF Paths
  <2>1. ASSUME k \in K PROVE k \in KeysAt(o, <<>>)
    <3>1. PICK n \in f[k] : n[1] = <<>>
      BY <2>1 DEF Trees, IsTree
    <3>2. Under(k, n) \in o /\ Under(k, n)[1] = Append(<<>>, k)
      BY <1>1, <1>2, <2>0, <2>1, <3>1
    <3>3. Append(<<>>, k) \in Places(o)
      BY <3>2 DEF Places
    <3> QED BY <1>0, <1>7, <3>3, PlaceFacts
  <2>2. ASSUME k \in KeysAt(o, <<>>) PROVE k \in K
    <3>1. Append(<<>>, k) \in Places(o)
      BY <1>0, <1>7, <2>2, PlaceFacts
    <3>2. PICK n \in o : n[1] = <<k>> \o <<>>
      BY <2>0, <3>1 DEF Places
    <3>3. <<k>> \o <<>> # <<>>
      BY <1>0, ConsPath
    <3>3a. n # << <<>>, "dict">>
      <4>1. n[1] # <<>>
        BY <3>2, <3>3
      <4> QED BY <4>1
    <3>4. PICK l \in K : \E x \in f[l] : n = Under(l, x)
      BY <1>1, <3>3a
    <3>4a. PICK x \in f[l] : n = Under(l, x)
      BY <3>4
    <3>5. k = l
      <4>1. l \in Keys /\ x[1] \in Paths /\ <<k>> \o <<>> = <<l>> \o x[1]
        BY <1>2, <3>2, <3>4a
      <4> QED BY <1>0, <4>1, ConsFacts
    <3> QED BY <3>5
  <2> QED BY <2>1, <2>2
<1>9. KeysAt(o, <<>>) = K
  BY <1>0, <1>7, <1>8, KeysFacts
<1> QED BY <1>1, <1>6, <1>7, <1>9 DEF o, Dicts, MadeOf

\* Keys beside a reference and a definition make an object.
LEMMA BesideIs ==
  ASSUME NEW s \in Dicts, NEW t \in Trees
  PROVE  Beside(s, t) \in Dicts
<1> DEFINE b == Beside(s, t)
           shown(m) == m[1] # <<>> /\ m[1][1] \notin KeysAt(s, <<>>) \cup {"*"}
<1>0. <<>> \in Paths /\ Len(<<>>) = 0 /\ s \in Trees /\ << <<>>, "dict">> \in s
  BY DictFacts DEF Paths
<1>1. \A m : m \in b <=> m \in s \/ (m \in t /\ shown(m))
  BY DEF Beside
<1> HIDE DEF b
<1>2. b \in SUBSET (Paths \X (Leaves \cup {"dict"}))
  BY <1>0, <1>1 DEF Trees
\* Nothing of s shares its first key with what is shown of t.
<1>3. ASSUME NEW m \in s, NEW n \in t, shown(n), m[1] = n[1] PROVE FALSE
  <2>1. m[1] \in Paths /\ m[1] # <<>> /\ m = <<m[1], m[2]>>
    BY <1>0, <1>3, TreeFacts
  <2>2. m[1][1] \in Keys
    BY <2>1, PathCases
  <2>3. Len(m[1]) \in Nat /\ Len(m[1]) # 0
    BY <2>1 DEF Paths
  <2>4. IsPrefix(<<>>, m[1])
    BY <1>0, <2>1, PrefixByIndex
  <2>5. IsStrictPrefix(<<>>, m[1])
    BY <1>0, <2>1, <2>4, StrictPrefix
  <2>6. m[1][1] \in KeysAt(s, <<>>)
    <3>1. Len(<<>>) + 1 = 1
      BY <1>0
    <3> QED BY <2>5, <3>1 DEF KeysAt
  <2> QED BY <1>3, <2>6
<1>4. ASSUME NEW m \in b, NEW n \in b, m[1] = n[1] PROVE m = n
  <2>1. CASE m \in s /\ n \in s
    BY <1>0, <1>4, <2>1, TreeFacts
  <2>2. CASE m \in t /\ n \in t
    BY <1>4, <2>2, TreeFacts
  <2> QED BY <1>1, <1>3, <1>4, <2>1, <2>2
<1>5. ASSUME NEW n \in b, NEW p \in Paths, IsStrictPrefix(p, n[1]) PROVE <<p, "dict">> \in b
  <2>1. CASE n \in s
    BY <1>0, <1>1, <1>5, <2>1, TreeFacts
  <2>2. CASE n \in t /\ shown(n)
    <3>1. <<p, "dict">> \in t /\ n[1] \in Paths
      BY <1>5, <2>2, TreeFacts
    <3>2. CASE p = <<>>
      BY <1>0, <1>1, <3>2
    <3>3. CASE p # <<>>
      <4>1. Len(p) \in Nat /\ Len(p) # 0 /\ \A i \in 1 .. Len(p) : p[i] = n[1][i]
        BY <1>5, <3>1, <3>3, StrictPrefix, PrefixByIndex DEF Paths
      <4>2. p[1] = n[1][1]
        BY <4>1
      <4>3. shown(<<p, "dict">>)
        BY <2>2, <3>3, <4>2
      <4> QED BY <1>1, <3>1, <4>3
    <3> QED BY <3>2, <3>3
  <2> QED BY <1>1, <2>1, <2>2
<1>6. << <<>>, "dict">> \in b
  BY <1>0, <1>1
<1>7. \E n \in b : n[1] = <<>>
  BY <1>6
<1>8. b \in Trees
  BY <1>2, <1>4, <1>5, <1>7, IsATree
<1> QED BY <1>6, <1>8 DEF Dicts, b

\* Depths and sets of followed names that inlining comes to.
Depths == 0 .. MaxRefDepth + 1
Seens == SUBSET Leaves

\* The names followed at p or before, and whether p leads nowhere.
SeenAt(t, p, seen) == IF IsRef(t, p) THEN seen \cup {Name(t, p)} ELSE seen
Lost(t, p, seen) == IsRef(t, p) /\ (Name(t, p) \in seen \/ ~Known(t, p))

\* What InlineAt needs of a node, by what it is.
LEMMA InlineCases ==
  ASSUME NEW f, NEW t, NEW p, NEW seen, NEW depth
  PROVE  LET s == SeenAt(t, p, seen)
             own == [k \in Own(t, p) |-> f[<<Append(p, k), s, depth + 1>>]]
             target == f[<<Target(t, p), s, depth + 1>>]
             r == InlineAt(f, t, p, seen, depth)
         IN /\ depth > MaxRefDepth => r = Raised
            /\ Lost(t, p, seen) => r = Raised
            /\ IsRef(t, p) /\ target = Raised => r = Raised
            /\ (\E k \in Own(t, p) : own[k] = Raised) => r = Raised
            /\ \/ depth > MaxRefDepth
               \/ Lost(t, p, seen)
               \/ IsRef(t, p) /\ target = Raised
               \/ \E k \in Own(t, p) : own[k] = Raised
               \/ /\ ~IsRef(t, p) /\ KeysAt(t, p) = {}
                  /\ r = Leaf(Value(t, p))
               \/ /\ ~IsRef(t, p) /\ KeysAt(t, p) # {}
                  /\ r = Object(own)
               \/ /\ IsRef(t, p) /\ Own(t, p) = {}
                  /\ r = target
               \/ /\ IsRef(t, p) /\ Own(t, p) # {}
                  /\ r = Beside(Object(own), target)
<1> DEFINE s == SeenAt(t, p, seen)
           own == [k \in Own(t, p) |-> f[<<Append(p, k), s, depth + 1>>]]
           target == f[<<Target(t, p), s, depth + 1>>]
           r == InlineAt(f, t, p, seen, depth)
<1>1. r = IF \/ depth > MaxRefDepth
             \/ IsRef(t, p) /\ (Name(t, p) \in seen \/ ~Known(t, p) \/ target = Raised)
             \/ \E k \in Own(t, p) : own[k] = Raised
          THEN Raised
          ELSE IF ~IsRef(t, p) THEN IF KeysAt(t, p) = {} THEN Leaf(Value(t, p)) ELSE Object(own)
          ELSE IF Own(t, p) = {} THEN target ELSE Beside(Object(own), target)
  BY DEF InlineAt, SeenAt
<1> HIDE DEF own, target, r, s
<1>2. /\ depth > MaxRefDepth => r = Raised
      /\ Lost(t, p, seen) => r = Raised
      /\ IsRef(t, p) /\ target = Raised => r = Raised
      /\ (\E k \in Own(t, p) : own[k] = Raised) => r = Raised
  BY <1>1 DEF Lost
<1>3. \/ depth > MaxRefDepth
      \/ Lost(t, p, seen)
      \/ IsRef(t, p) /\ target = Raised
      \/ \E k \in Own(t, p) : own[k] = Raised
      \/ ~IsRef(t, p) /\ KeysAt(t, p) = {} /\ r = Leaf(Value(t, p))
      \/ ~IsRef(t, p) /\ KeysAt(t, p) # {} /\ r = Object(own)
      \/ IsRef(t, p) /\ Own(t, p) = {} /\ r = target
      \/ IsRef(t, p) /\ Own(t, p) # {} /\ r = Beside(Object(own), target)
  BY <1>1 DEF Lost
<1> QED BY <1>2, <1>3 DEF own, target, r, s

LEMMA LostIsRaised ==
  ASSUME NEW f, NEW t, NEW p, NEW seen, NEW depth, Lost(t, p, seen)
  PROVE  InlineAt(f, t, p, seen, depth) = Raised
BY InlineCases

\* A name that is followed is a leaf.
LEMMA SeenIs ==
  ASSUME NEW t \in Trees, NEW p \in Places(t), NEW seen \in Seens, ~Lost(t, p, seen)
  PROVE  SeenAt(t, p, seen) \in Seens
BY Ways DEF SeenAt, Lost, Seens

\* What a node becomes is a matter of what the nodes it leads to become.
LEMMA SameInline ==
  ASSUME NEW t \in Trees, NEW p \in Places(t), NEW seen \in Seens, NEW f, NEW g,
         NEW d \in 0 .. MaxRefDepth, NEW e \in 0 .. MaxRefDepth,
         \A q \in Places(t) : \A s \in Seens : f[<<q, s, d + 1>>] = g[<<q, s, e + 1>>]
  PROVE  InlineAt(f, t, p, seen, d) = InlineAt(g, t, p, seen, e)
<1>1. CASE Lost(t, p, seen)
  <2>1. InlineAt(f, t, p, seen, d) = Raised
    BY <1>1, LostIsRaised
  <2>2. InlineAt(g, t, p, seen, e) = Raised
    BY <1>1, LostIsRaised
  <2> QED BY <2>1, <2>2
<1>2. CASE ~Lost(t, p, seen)
  <2>1. SeenAt(t, p, seen) \in Seens
    BY <1>2, SeenIs
  <2> DEFINE s == IF IsRef(t, p) THEN seen \cup {Name(t, p)} ELSE seen
  <2>2. s \in Seens
    BY <2>1 DEF SeenAt
  <2>3. \A k \in Own(t, p) : Append(p, k) \in Places(t)
    BY Ways
  <2>4. [k \in Own(t, p) |-> f[<<Append(p, k), s, d + 1>>]]
        = [k \in Own(t, p) |-> g[<<Append(p, k), s, e + 1>>]]
    <3> HIDE DEF s
    <3> QED BY <2>2, <2>3
  <2>5. IsRef(t, p) => f[<<Target(t, p), s, d + 1>>] = g[<<Target(t, p), s, e + 1>>]
    <3> HIDE DEF s
    <3> QED BY <1>2, <2>2, Ways DEF Lost
  <2>6. d > MaxRefDepth <=> e > MaxRefDepth
    <3>1. MaxRefDepth \in Nat
      BY SchemaAssumption
    <3> QED BY <3>1
  <2> QED BY <2>4, <2>5, <2>6 DEF InlineAt
<1> QED BY <1>1, <1>2

LEMMA InlineIs ==
  ASSUME NEW t \in Trees, NEW p \in Places(t), NEW seen \in Seens, NEW f,
         NEW d \in 0 .. MaxRefDepth,
         \A q \in Places(t) : \A s \in Seens : f[<<q, s, d + 1>>] \in Trees \cup {Raised}
  PROVE  InlineAt(f, t, p, seen, d) \in Trees \cup {Raised}
<1> DEFINE s == SeenAt(t, p, seen)
           own == [k \in Own(t, p) |-> f[<<Append(p, k), s, d + 1>>]]
           target == f[<<Target(t, p), s, d + 1>>]
           r == InlineAt(f, t, p, seen, d)
<1>1. CASE Lost(t, p, seen)
  BY <1>1, LostIsRaised
<1>2. CASE ~Lost(t, p, seen)
  <2>1. s \in Seens
    BY <1>2, SeenIs
  <2>2. \A k \in Own(t, p) : own[k] \in Trees \cup {Raised}
    <3> HIDE DEF s
    <3> QED BY <2>1, Ways
  <2>3. IsRef(t, p) => target \in Trees \cup {Raised}
    <3> HIDE DEF s
    <3> QED BY <1>2, <2>1, Ways DEF Lost
  <2>4. \/ r = Raised
        \/ r = Leaf(Value(t, p))
        \/ r = Object(own) /\ \A k \in Own(t, p) : own[k] # Raised
        \/ r = target /\ IsRef(t, p)
        \/ /\ r = Beside(Object(own), target) /\ IsRef(t, p) /\ target # Raised
           /\ \A k \in Own(t, p) : own[k] # Raised
    BY InlineCases
  <2>5. DOMAIN own = Own(t, p) /\ Own(t, p) \in SUBSET Keys
    BY Ways
  <2>6. Value(t, p) \in Leaves \cup {"dict"}
    BY PlaceFacts
  <2> HIDE DEF own, target, r
  <2>7. CASE \A k \in Own(t, p) : own[k] # Raised
    <3>1. Object(own) \in Dicts
      BY <2>2, <2>5, <2>7, ObjectIs
    <3> QED BY <2>3, <2>4, <2>6, <3>1, LeafIsATree, BesideIs DEF Dicts, r
  <2> QED BY <2>3, <2>4, <2>6, <2>7, LeafIsATree DEF r
<1> QED BY <1>1, <1>2

------------------------------------------------------------------------------
(* Inlining is defined everywhere *)

\* The function that InlineRefs defines by recursion.
Inlining(t) ==
  CHOOSE f : f = [a \in Places(t) \X (SUBSET Leaves) \X (0 .. MaxRefDepth + 1) |->
                    InlineAt(f, t, a[1], a[2], a[3])]

LEMMA InliningIs ==
  ASSUME NEW t \in Trees
  PROVE  \A p \in Places(t) : \A seen \in Seens : \A depth \in Depths :
           /\ Inlining(t)[<<p, seen, depth>>] = InlineAt(Inlining(t), t, p, seen, depth)
           /\ Inlining(t)[<<p, seen, depth>>] \in Trees \cup {Raised}
<1> DEFINE D == Places(t) \X Seens
           R == Trees \cup {Raised}
           S == [D -> R]
           wide(g) == [a \in Places(t) \X Seens \X {1} |-> g[<<a[1], a[2]>>]]
           step == [g \in S |-> [x \in D |-> InlineAt(wide(g), t, x[1], x[2], 0)]]
           none == [x \in D |-> Raised]
           F(f) == [a \in Places(t) \X Seens \X Depths |-> InlineAt(f, t, a[1], a[2], a[3])]
<1>0. MaxRefDepth \in Nat
  BY SchemaAssumption
<1>1. none \in S
  OBVIOUS
<1>2. ASSUME NEW g \in S, NEW p \in Places(t), NEW seen \in Seens
      PROVE  wide(g)[<<p, seen, 1>>] = g[<<p, seen>>] /\ g[<<p, seen>>] \in R
  <2>1. wide(g)[<<p, seen, 1>>] = g[<<p, seen>>]
    OBVIOUS
  <2>2. <<p, seen>> \in D
    OBVIOUS
  <2> HIDE DEF D, R
  <2> QED BY <2>1, <2>2
<1> HIDE DEF wide, none
<1>3. step \in [S -> S]
  <2>1. ASSUME NEW g \in S, NEW x \in D
        PROVE  InlineAt(wide(g), t, x[1], x[2], 0) \in R
    <3>1. x[1] \in Places(t) /\ x[2] \in Seens
      OBVIOUS
    <3>2. \A q \in Places(t) : \A s \in Seens : wide(g)[<<q, s, 0 + 1>>] \in R
      <4>1. 0 + 1 = 1
        OBVIOUS
      <4> HIDE DEF S, R
      <4> QED BY <1>2, <4>1
    <3>3. 0 \in 0 .. MaxRefDepth
      BY <1>0
    <3> QED BY <3>1, <3>2, <3>3, InlineIs
  <2> HIDE DEF D, R
  <2> QED BY <2>1
<1>4a. PICK h \in [Nat -> S] : Unrolls(h, none, step)
  <2> HIDE DEF S, step
  <2> QED BY <1>1, <1>3, Iterates
<1>4. h \in [Nat -> S] /\ h[0] = none /\ \A i \in Nat : h[i + 1] = step[h[i]]
  <2> HIDE DEF S, step
  <2> QED BY <1>4a DEF Unrolls
<1> DEFINE f == [a \in Places(t) \X Seens \X Depths |->
                   h[(MaxRefDepth + 1) - a[3]][<<a[1], a[2]>>]]
<1>5. ASSUME NEW p \in Places(t), NEW seen \in Seens, NEW depth \in Depths
      PROVE  /\ f[<<p, seen, depth>>] = h[(MaxRefDepth + 1) - depth][<<p, seen>>]
             /\ f[<<p, seen, depth>>] \in R
  <2>1. f[<<p, seen, depth>>] = h[(MaxRefDepth + 1) - depth][<<p, seen>>]
    OBVIOUS
  <2>2. (MaxRefDepth + 1) - depth \in Nat
    BY <1>0 DEF Depths
  <2>3. h[(MaxRefDepth + 1) - depth] \in S /\ <<p, seen>> \in D
    BY <2>2
  <2>4. h[(MaxRefDepth + 1) - depth][<<p, seen>>] \in R
    <3> HIDE DEF D, R
    <3> QED BY <2>3
  <2> QED BY <2>1, <2>4
<1>6. ASSUME NEW p \in Places(t), NEW seen \in Seens, NEW depth \in Depths
      PROVE  f[<<p, seen, depth>>] = InlineAt(f, t, p, seen, depth)
  <2>1. CASE depth = MaxRefDepth + 1
    <3>1. f[<<p, seen, depth>>] = none[<<p, seen>>]
      <4>1. f[<<p, seen, depth>>] = h[(MaxRefDepth + 1) - depth][<<p, seen>>]
        BY <1>5
      <4>2. (MaxRefDepth + 1) - depth = 0
        BY <1>0, <2>1
      <4> HIDE DEF f
      <4> QED BY <1>4, <4>1, <4>2
    <3>2. none[<<p, seen>>] = Raised
      BY DEF none
    <3>3. InlineAt(f, t, p, seen, depth) = Raised
      <4>1. depth > MaxRefDepth
        BY <1>0, <2>1
      <4> HIDE DEF f
      <4> QED BY <4>1, InlineCases
    <3> QED BY <3>1, <3>2, <3>3
  <2>2. CASE depth # MaxRefDepth + 1
    <3> DEFINE i == MaxRefDepth - depth  g == h[i]
    <3>1. depth \in 0 .. MaxRefDepth /\ i \in Nat /\ (MaxRefDepth + 1) - depth = i + 1
      BY <1>0, <2>2 DEF Depths
    <3>2. g \in S /\ h[i + 1] = step[g]
      <4> HIDE DEF i, S, step
      <4> QED BY <1>4, <3>1
    <3>3. f[<<p, seen, depth>>] = step[g][<<p, seen>>]
      <4> HIDE DEF f, step, g, S
      <4> QED BY <1>5, <3>1, <3>2
    <3>4. step[g][<<p, seen>>] = InlineAt(wide(g), t, p, seen, 0)
      <4>1. <<p, seen>> \in D
        OBVIOUS
      <4> HIDE DEF D, g, S
      <4> QED BY <3>2, <4>1
    <3>5. ASSUME NEW q \in Places(t), NEW s \in Seens
          PROVE  wide(g)[<<q, s, 0 + 1>>] = f[<<q, s, depth + 1>>]
      <4>1. depth + 1 \in Depths /\ (MaxRefDepth + 1) - (depth + 1) = i
        BY <1>0, <3>1 DEF Depths
      <4>2. f[<<q, s, depth + 1>>] = g[<<q, s>>]
        <5> HIDE DEF f, i
        <5> QED BY <1>5, <4>1
      <4>3. wide(g)[<<q, s, 1>>] = g[<<q, s>>]
        <5> HIDE DEF g, S
        <5> QED BY <1>2, <3>2
      <4> HIDE DEF f, g
      <4> QED BY <4>2, <4>3
    <3>6. 0 \in 0 .. MaxRefDepth
      BY <1>0
    <3>7. InlineAt(wide(g), t, p, seen, 0) = InlineAt(f, t, p, seen, depth)
      <4> HIDE DEF f, g
      <4> QED BY <3>1, <3>5, <3>6, SameInline
    <3> HIDE DEF f, g, step
    <3> QED BY <3>3, <3>4, <3>7
  <2> QED BY <2>1, <2>2
<1>7. f = F(f)
  <2> DEFINE G == F(f)
  <2>1. ASSUME NEW p \in Places(t), NEW seen \in Seens, NEW depth \in Depths
        PROVE  f[<<p, seen, depth>>] = InlineAt(f, t, p, seen, depth)
    BY <1>6
  <2> QED BY <2>1
<1> DEFINE r == CHOOSE g : g = F(g)
<1>8. Inlining(t) = r
  BY DEF Inlining, Depths, Seens
<1>9. r = F(r)
  <2> HIDE DEF F, f
  <2> QED BY <1>7
<1>10. ASSUME NEW p \in Places(t), NEW seen \in Seens, NEW depth \in Depths
       PROVE  r[<<p, seen, depth>>] = InlineAt(r, t, p, seen, depth)
  <2> HIDE DEF r
  <2>1. r[<<p, seen, depth>>] = F(r)[<<p, seen, depth>>]
    BY <1>9
  <2>2. F(r)[<<p, seen, depth>>] = InlineAt(r, t, p, seen, depth)
    OBVIOUS
  <2> QED BY <2>1, <2>2
\* Whatever it is at greater depths decides what it is at a depth.
<1>11. ASSUME NEW p \in Places(t), NEW seen \in Seens, NEW depth \in Depths
       PROVE  r[<<p, seen, depth>>] \in R
  <2> HIDE DEF r, R
  <2> DEFINE Good(n) == \A q \in Places(t) : \A s \in Seens : r[<<q, s, (MaxRefDepth + 1) - n>>] \in R
             Bad == {n \in Nat : n <= MaxRefDepth + 1 /\ ~Good(n)}
  <2>1. CASE Bad # {}
    <3>1. PICK n \in Bad : \A m \in Bad : n <= m
      <4>1. Bad \in SUBSET Nat
        OBVIOUS
      <4> HIDE DEF Bad
      <4> QED BY <2>1, <4>1, LeastNatural
    <3>2. n \in Nat /\ n <= MaxRefDepth + 1 /\ (MaxRefDepth + 1) - n \in Depths
      BY <1>0 DEF Depths
    <3>3. CASE n = 0
      <4>1. ASSUME NEW q \in Places(t), NEW s \in Seens
            PROVE  r[<<q, s, (MaxRefDepth + 1) - n>>] = Raised
        <5>1. (MaxRefDepth + 1) - n > MaxRefDepth
          BY <1>0, <3>3
        <5>2. InlineAt(r, t, q, s, (MaxRefDepth + 1) - n) = Raised
          BY <5>1, InlineCases
        <5> QED BY <1>10, <3>2, <5>2
      <4>2. Good(n)
        BY <4>1 DEF R
      <4> QED BY <4>2
    <3>4. CASE n # 0
      <4> DEFINE d == (MaxRefDepth + 1) - n
      <4>1. n - 1 \in Nat /\ n - 1 <= MaxRefDepth + 1 /\ ~(n <= n - 1)
            /\ d \in 0 .. MaxRefDepth /\ d \in Depths /\ (MaxRefDepth + 1) - (n - 1) = d + 1
        BY <1>0, <3>2, <3>4 DEF Depths
      <4>2. Good(n - 1)
        <5> HIDE DEF Good
        <5> QED BY <3>1, <4>1
      <4>3. \A q \in Places(t) : \A s \in Seens : r[<<q, s, d + 1>>] \in R
        <5> HIDE DEF d
        <5> QED BY <4>1, <4>2
      <4> HIDE DEF d
      <4>4. ASSUME NEW q \in Places(t), NEW s \in Seens PROVE r[<<q, s, d>>] \in R
        <5>1. InlineAt(r, t, q, s, d) \in R
          BY <4>1, <4>3, InlineIs DEF R
        <5> QED BY <1>10, <4>1, <5>1
      <4>5. Good(n)
        BY <4>4 DEF d
      <4> QED BY <4>5
    <3> QED BY <3>3, <3>4
  <2>2. CASE Bad = {}
    <3>1. (MaxRefDepth + 1) - depth \in Nat /\ (MaxRefDepth + 1) - depth <= MaxRefDepth + 1
          /\ (MaxRefDepth + 1) - ((MaxRefDepth + 1) - depth) = depth
      BY <1>0 DEF Depths
    <3>2. Good((MaxRefDepth + 1) - depth)
      <4> HIDE DEF Good
      <4> QED BY <2>2, <3>1
    <3> QED BY <3>1, <3>2
  <2> QED BY <2>1, <2>2
<1> HIDE DEF r, F, R
<1> QED BY <1>8, <1>10, <1>11 DEF R

LEMMA InlineRefsIs == ASSUME NEW t PROVE InlineRefs(t) = Inlining(t)[<< <<>>, {}, 0>>]
BY DEF InlineRefs, Inlining

Inlined(t, p, seen, depth) == Inlining(t)[<<p, seen, depth>>]

\* A node of what is inlined is the node's own, one of a child or one of the definition.
SaidItself(t, p, m) == m = << <<>>, Value(t, p)>> /\ (IsRef(t, p) => Own(t, p) # {})
ShowsThrough(t, p, m) ==
  Own(t, p) = {} \/ (m[1] # <<>> /\ m[1][1] \notin Own(t, p) \cup {"*"})

LEMMA InlinedNodes ==
  ASSUME NEW t \in Trees, NEW p \in Places(t), NEW seen \in Seens, NEW depth \in Depths,
         Inlined(t, p, seen, depth) # Raised
  PROVE  LET s == SeenAt(t, p, seen)
         IN /\ depth \in 0 .. MaxRefDepth /\ depth + 1 \in Depths
            /\ ~Lost(t, p, seen) /\ s \in Seens
            /\ Inlined(t, p, seen, depth) \in Trees
            /\ \A k \in Own(t, p) : /\ Inlined(t, Append(p, k), s, depth + 1) # Raised
                                    /\ Inlined(t, Append(p, k), s, depth + 1) \in Trees
            /\ IsRef(t, p) => /\ Inlined(t, Target(t, p), s, depth + 1) # Raised
                              /\ Inlined(t, Target(t, p), s, depth + 1) \in Trees
            /\ \A m : m \in Inlined(t, p, seen, depth) <=>
                 \/ SaidItself(t, p, m)
                 \/ \E k \in Own(t, p) :
                      \E n \in Inlined(t, Append(p, k), s, depth + 1) : m = Under(k, n)
                 \/ /\ IsRef(t, p) /\ m \in Inlined(t, Target(t, p), s, depth + 1)
                    /\ ShowsThrough(t, p, m)
<1> DEFINE f == Inlining(t)
           s == SeenAt(t, p, seen)
           own == [k \in Own(t, p) |-> f[<<Append(p, k), s, depth + 1>>]]
           target == f[<<Target(t, p), s, depth + 1>>]
           r == f[<<p, seen, depth>>]
<1>1. r = InlineAt(f, t, p, seen, depth) /\ r \in Trees \cup {Raised} /\ r # Raised
  BY InliningIs DEF Inlined
<1>2. /\ ~(depth > MaxRefDepth) /\ ~Lost(t, p, seen)
      /\ IsRef(t, p) => target # Raised
      /\ \A k \in Own(t, p) : own[k] # Raised
      /\ \/ ~IsRef(t, p) /\ KeysAt(t, p) = {} /\ r = Leaf(Value(t, p))
         \/ ~IsRef(t, p) /\ KeysAt(t, p) # {} /\ r = Object(own)
         \/ IsRef(t, p) /\ Own(t, p) = {} /\ r = target
         \/ IsRef(t, p) /\ Own(t, p) # {} /\ r = Beside(Object(own), target)
  <2>1. r = InlineAt(f, t, p, seen, depth) /\ r # Raised
    BY <1>1
  <2> QED BY <2>1, InlineCases
<1>3. MaxRefDepth \in Nat /\ depth \in 0 .. MaxRefDepth /\ depth + 1 \in Depths
  <2>1. MaxRefDepth \in Nat
    BY SchemaAssumption
  <2> QED BY <1>2, <2>1 DEF Depths
<1>4. s \in Seens
  BY <1>2, SeenIs
<1>5. ASSUME NEW k \in Own(t, p)
      PROVE  /\ own[k] \in Trees /\ own[k] # Raised
             /\ own[k] = Inlined(t, Append(p, k), s, depth + 1)
  <2>1. Append(p, k) \in Places(t)
    BY Ways
  <2>2. own[k] = f[<<Append(p, k), s, depth + 1>>]
    OBVIOUS
  <2> HIDE DEF own, s
  <2>3. f[<<Append(p, k), s, depth + 1>>] \in Trees \cup {Raised}
    BY <1>3, <1>4, <2>1, InliningIs
  <2> QED BY <1>2, <2>2, <2>3 DEF Inlined
<1>6. IsRef(t, p) => target \in Trees /\ target # Raised
  <2>1. IsRef(t, p) => Target(t, p) \in Places(t)
    BY <1>2, Ways DEF Lost
  <2> HIDE DEF s
  <2> QED BY <1>2, <1>3, <1>4, <2>1, InliningIs
<1>7. /\ DOMAIN own = Own(t, p) /\ Own(t, p) \in SUBSET Keys
      /\ KeysAt(t, p) = {} => Own(t, p) = {} /\ ~IsRef(t, p)
      /\ KeysAt(t, p) # {} => Value(t, p) = "dict"
  <2>1. ASSUME NEW k \in KeysAt(t, p) PROVE Value(t, p) = "dict"
    BY PlaceFacts
  <2> QED BY <2>1, Ways DEF Own, IsRef
<1>8. /\ Object(own) \in Dicts /\ KeysAt(Object(own), <<>>) = Own(t, p)
      /\ \A m : m \in Object(own) <=>
           \/ m = << <<>>, "dict">>
           \/ \E k \in Own(t, p) : \E n \in own[k] : m = Under(k, n)
  <2>1. DOMAIN own = Own(t, p) /\ Own(t, p) \in SUBSET Keys /\ \A k \in Own(t, p) : own[k] \in Trees
    BY <1>5, <1>7
  <2> DEFINE K == Own(t, p)
  <2>2. K \in SUBSET Keys /\ DOMAIN own = K /\ \A k \in K : own[k] \in Trees
    BY <2>1
  <2> HIDE DEF own, K
  <2>3. /\ Object(own) \in Dicts /\ KeysAt(Object(own), <<>>) = K
        /\ MadeOf(Object(own), own)
    BY <2>2, ObjectIs
  <2> QED BY <2>1, <2>3 DEF K, MadeOf
<1> DEFINE Child(m) == \E k \in Own(t, p) : \E n \in Inlined(t, Append(p, k), s, depth + 1) :
                         m = Under(k, n)
<1>9. \A m : m \in Object(own) <=> m = << <<>>, "dict">> \/ Child(m)
  <2> HIDE DEF own, s
  <2> QED BY <1>5, <1>8
<1>10. ASSUME NEW m
       PROVE  m \in r <=> \/ SaidItself(t, p, m)
                          \/ Child(m)
                          \/ IsRef(t, p) /\ m \in target /\ ShowsThrough(t, p, m)
  <2>0. m \in Object(own) <=> m = << <<>>, "dict">> \/ Child(m)
    BY <1>9
  <2>1. CASE ~IsRef(t, p) /\ KeysAt(t, p) = {} /\ r = Leaf(Value(t, p))
    <3>1. ~Child(m)
      BY <1>7, <2>1 DEF Child
    <3>2. m \in r <=> m = << <<>>, Value(t, p)>>
      BY <2>1 DEF Leaf
    <3>3. SaidItself(t, p, m) <=> m = << <<>>, Value(t, p)>>
      BY <2>1 DEF SaidItself
    <3> QED BY <2>1, <3>1, <3>2, <3>3
  <2>2. CASE ~IsRef(t, p) /\ KeysAt(t, p) # {} /\ r = Object(own)
    <3>1. SaidItself(t, p, m) <=> m = << <<>>, "dict">>
      BY <1>7, <2>2 DEF SaidItself
    <3> HIDE DEF Child, own, target, r, s, f
    <3> QED BY <2>0, <2>2, <3>1
  <2>3. CASE IsRef(t, p) /\ Own(t, p) = {} /\ r = target
    <3>1. ~Child(m)
      BY <2>3 DEF Child
    <3>2. ~SaidItself(t, p, m) /\ ShowsThrough(t, p, m)
      BY <2>3 DEF SaidItself, ShowsThrough
    <3> HIDE DEF Child, own, target, r, s, f
    <3> QED BY <2>3, <3>1, <3>2
  <2>4. CASE IsRef(t, p) /\ Own(t, p) # {} /\ r = Beside(Object(own), target)
    <3>1. Value(t, p) = "dict"
      BY <1>7, <2>4 DEF IsRef
    <3>2. m \in r <=> \/ m \in Object(own)
                      \/ /\ m \in target
                         /\ m[1] # <<>> /\ m[1][1] \notin KeysAt(Object(own), <<>>) \cup {"*"}
      <4> HIDE DEF Child, own, target, r, s, f
      <4> QED BY <2>4 DEF Beside
    <3>3. m \in r <=> m \in Object(own) \/ (m \in target /\ ShowsThrough(t, p, m))
      <4> HIDE DEF Child, own, target, r, s, f
      <4> QED BY <1>8, <2>4, <3>2 DEF ShowsThrough
    <3>4. SaidItself(t, p, m) <=> m = << <<>>, "dict">>
      BY <2>4, <3>1 DEF SaidItself
    <3> HIDE DEF Child, own, target, r, s, f
    <3> QED BY <2>0, <2>4, <3>3, <3>4
  <2> QED BY <1>2, <2>1, <2>2, <2>3, <2>4
<1>11. \A m : m \in Inlined(t, p, seen, depth) <=>
             \/ SaidItself(t, p, m)
             \/ Child(m)
             \/ /\ IsRef(t, p) /\ m \in Inlined(t, Target(t, p), s, depth + 1)
                /\ ShowsThrough(t, p, m)
  <2> HIDE DEF Child, own, s, f
  <2> QED BY <1>10 DEF Inlined, f
<1>12. /\ Inlined(t, p, seen, depth) \in Trees
       /\ \A k \in Own(t, p) : /\ Inlined(t, Append(p, k), s, depth + 1) # Raised
                               /\ Inlined(t, Append(p, k), s, depth + 1) \in Trees
       /\ IsRef(t, p) => /\ Inlined(t, Target(t, p), s, depth + 1) # Raised
                         /\ Inlined(t, Target(t, p), s, depth + 1) \in Trees
  <2> HIDE DEF own, s
  <2> QED BY <1>1, <1>5, <1>6 DEF Inlined
<1> HIDE DEF s
<1> QED BY <1>2, <1>3, <1>4, <1>11, <1>12 DEF s

------------------------------------------------------------------------------
(* What is read is inlined, and what is inlined is read *)

\* A node as it is read at q, and whether keys beside a reference leave it visible.
Moved(q, m) == <<q \o m[1], m[2]>>
Visible(m, h) == h = {} \/ (m[1] # <<>> /\ m[1][1] \notin h)

\* Moving a node to where it is read.
LEMMA MovedIs ==
  ASSUME NEW q \in Paths
  PROVE  /\ \A v : Moved(q, << <<>>, v>>) = <<q, v>>
         /\ \A v, h : Visible(<< <<>>, v>>, h) <=> h = {}
         /\ \A k \in Keys : \A n : n[1] \in Paths => Moved(q, Under(k, n)) = Moved(Append(q, k), n)
         /\ \A k \in Keys : \A n, h : n[1] \in Paths => (Visible(Under(k, n), h) <=> k \notin h)
<1>0. q \in Seq(Keys)
  BY DEF Paths
<1>1. ASSUME NEW v PROVE Moved(q, << <<>>, v>>) = <<q, v>>
  BY <1>0, ConcatEmptySeq DEF Moved
<1>2. \A v, h : Visible(<< <<>>, v>>, h) <=> h = {}
  BY DEF Visible
<1>3. ASSUME NEW k \in Keys, NEW n, n[1] \in Paths
      PROVE  /\ Moved(q, Under(k, n)) = Moved(Append(q, k), n)
             /\ \A h : Visible(Under(k, n), h) <=> k \notin h
  <2>1. Under(k, n)[1] = <<k>> \o n[1] /\ Under(k, n)[2] = n[2]
    BY DEF Under
  <2>2. q \o (<<k>> \o n[1]) = Append(q, k) \o n[1]
    BY <1>3, AppendConcat
  <2>3. Moved(q, Under(k, n)) = Moved(Append(q, k), n)
    BY <2>1, <2>2 DEF Moved
  <2>4. <<k>> \o n[1] # <<>> /\ (<<k>> \o n[1])[1] = k
    BY <1>3, ConsPath
  <2> HIDE DEF Under
  <2>5. ASSUME NEW h PROVE Visible(Under(k, n), h) <=> k \notin h
    <3>1. Under(k, n)[1] # <<>> /\ Under(k, n)[1][1] = k
      BY <2>1, <2>4
    <3>2. Visible(Under(k, n), h) <=> (h = {} \/ k \notin h)
      BY <3>1 DEF Visible
    <3> QED BY <3>2
  <2> QED BY <2>3, <2>5
<1> QED BY <1>1, <1>2, <1>3

\* What a visit finds is inlined, and what is not hidden of it is in the whole.
Reaches(t, d, q, p, h) ==
  \E seen \in Seens :
    /\ Inlined(t, p, seen, d) # Raised
    /\ \A m \in Inlined(t, p, seen, d) : Visible(m, h) => Moved(q, m) \in InlineRefs(t)

\* What a visit that is reached leads to is reached.
LEMMA Reached ==
  ASSUME NEW t \in Trees, NEW d \in Depths, NEW q, NEW p, NEW h,
         <<q, p, h>> \in Visits(t, d), Reaches(t, d, q, p, h)
  PROVE  /\ d \in 0 .. MaxRefDepth /\ d + 1 \in Depths
         /\ IsRef(t, p) => Known(t, p)
         /\ \A k \in Own(t, p) :
              Reaches(t, d + 1, Append(q, k), Append(p, k), IF k \in h THEN Keys ELSE {})
         /\ IsRef(t, p) => Reaches(t, d + 1, q, Target(t, p), h \cup BesideKeys(t, p))
         /\ h = {} /\ (IsRef(t, p) => Own(t, p) # {}) => <<q, Value(t, p)>> \in InlineRefs(t)
<1>0. d \in Nat /\ MaxRefDepth \in Nat
  BY SchemaAssumption DEF Depths
<1>1. q \in Paths /\ p \in Places(t) /\ h \in SUBSET Keys
  BY <1>0, Visited
<1>2. PICK seen \in Seens :
        /\ Inlined(t, p, seen, d) # Raised
        /\ \A m \in Inlined(t, p, seen, d) : Visible(m, h) => Moved(q, m) \in InlineRefs(t)
  BY DEF Reaches
<1> DEFINE s == SeenAt(t, p, seen)
           u == Inlined(t, p, seen, d)
<1>3. /\ d \in 0 .. MaxRefDepth /\ d + 1 \in Depths
      /\ ~Lost(t, p, seen) /\ s \in Seens
      /\ u \in Trees
      /\ \A k \in Own(t, p) : /\ Inlined(t, Append(p, k), s, d + 1) # Raised
                              /\ Inlined(t, Append(p, k), s, d + 1) \in Trees
      /\ IsRef(t, p) => /\ Inlined(t, Target(t, p), s, d + 1) # Raised
                        /\ Inlined(t, Target(t, p), s, d + 1) \in Trees
      /\ \A m : m \in u <=>
           \/ SaidItself(t, p, m)
           \/ \E k \in Own(t, p) : \E n \in Inlined(t, Append(p, k), s, d + 1) : m = Under(k, n)
           \/ /\ IsRef(t, p) /\ m \in Inlined(t, Target(t, p), s, d + 1)
              /\ ShowsThrough(t, p, m)
  BY <1>1, <1>2, InlinedNodes
<1> HIDE DEF s, u
<1>4. \A m \in u : Visible(m, h) => Moved(q, m) \in InlineRefs(t)
  BY <1>2 DEF u
<1>5. ASSUME NEW k \in Own(t, p)
      PROVE  Reaches(t, d + 1, Append(q, k), Append(p, k), IF k \in h THEN Keys ELSE {})
  <2>0. k \in Keys
    BY <1>1, Ways
  <2>1. ASSUME NEW n \in Inlined(t, Append(p, k), s, d + 1),
               Visible(n, IF k \in h THEN Keys ELSE {})
        PROVE  Moved(Append(q, k), n) \in InlineRefs(t)
    <3>1. n[1] \in Paths
      BY <1>3, TreeFacts
    <3>2. k \notin h
      <4> SUFFICES ASSUME k \in h PROVE FALSE
        OBVIOUS
      <4>1. Visible(n, Keys)
        BY <2>1
      <4>2. n[1] # <<>> /\ n[1][1] \notin Keys
        BY <2>0, <4>1 DEF Visible
      <4> QED BY <3>1, <4>2, PathCases
    <3>3. Under(k, n) \in u
      BY <1>3
    <3>4. Moved(q, Under(k, n)) \in InlineRefs(t)
      BY <1>1, <1>4, <2>0, <3>1, <3>2, <3>3, MovedIs
    <3> QED BY <1>1, <2>0, <3>1, <3>4, MovedIs
  <2> QED BY <1>3, <2>1 DEF Reaches
<1>6. ASSUME IsRef(t, p)
      PROVE  Reaches(t, d + 1, q, Target(t, p), h \cup BesideKeys(t, p))
  <2>1. ASSUME NEW n \in Inlined(t, Target(t, p), s, d + 1),
               Visible(n, h \cup BesideKeys(t, p))
        PROVE  Moved(q, n) \in InlineRefs(t)
    <3>1. Visible(n, h) /\ ShowsThrough(t, p, n)
      BY <2>1 DEF Visible, ShowsThrough, BesideKeys
    <3>2. n \in u
      BY <1>3, <1>6, <3>1
    <3> QED BY <1>4, <3>1, <3>2
  <2> QED BY <1>3, <1>6, <2>1 DEF Reaches
<1>7. ASSUME h = {}, IsRef(t, p) => Own(t, p) # {}
      PROVE  <<q, Value(t, p)>> \in InlineRefs(t)
  <2> DEFINE m == << <<>>, Value(t, p)>>
  <2>1. m \in u
    BY <1>3, <1>7 DEF SaidItself
  <2>2. Visible(m, h) /\ Moved(q, m) = <<q, Value(t, p)>>
    BY <1>1, <1>7, MovedIs
  <2> HIDE DEF m
  <2> QED BY <1>4, <2>1, <2>2
<1> QED BY <1>3, <1>5, <1>6, <1>7 DEF Lost

\* By induction over the steps from the root every visit is reached.
LEMMA AllReached ==
  ASSUME NEW t \in Trees, InlineRefs(t) # Raised
  PROVE  \A d \in Depths : \A q, p, h : <<q, p, h>> \in Visits(t, d) => Reaches(t, d, q, p, h)
<1>0. MaxRefDepth \in Nat
  BY SchemaAssumption
<1> DEFINE Good(d) == \A q, p, h : <<q, p, h>> \in Visits(t, d) => Reaches(t, d, q, p, h)
           Bad == {d \in Nat : d <= MaxRefDepth + 1 /\ ~Good(d)}
<1>1. Good(0)
  <2> SUFFICES ASSUME NEW q, NEW p, NEW h, <<q, p, h>> \in Visits(t, 0)
               PROVE  Reaches(t, 0, q, p, h)
    OBVIOUS
  <2>1. q = <<>> /\ p = <<>> /\ h = {}
    BY VisitsAre DEF Root
  <2>2. {} \in Seens /\ Inlined(t, <<>>, {}, 0) = InlineRefs(t) /\ 0 \in Depths /\ <<>> \in Places(t)
    BY <1>0, InlineRefsIs, PlaceFacts DEF Seens, Inlined, Depths
  <2>3. InlineRefs(t) \in Trees
    BY <2>2, InliningIs DEF Inlined
  <2>4. ASSUME NEW m \in InlineRefs(t) PROVE Moved(<<>>, m) \in InlineRefs(t)
    <3>1. m = <<m[1], m[2]>> /\ m[1] \in Paths
      BY <2>3, TreeFacts
    <3>2. <<>> \o m[1] = m[1]
      BY <3>1, ConcatEmptySeq DEF Paths
    <3> QED BY <3>1, <3>2 DEF Moved
  <2> QED BY <2>1, <2>2, <2>4 DEF Reaches
<1>2. ASSUME NEW d \in Nat, d + 1 <= MaxRefDepth + 1, Good(d) PROVE Good(d + 1)
  <2>0. d \in Depths
    BY <1>0, <1>2 DEF Depths
  <2> SUFFICES ASSUME NEW q, NEW p, NEW h, <<q, p, h>> \in Visits(t, d + 1)
               PROVE  Reaches(t, d + 1, q, p, h)
    OBVIOUS
  <2>1. PICK q0, p0, h0 : <<q0, p0, h0>> \in Visits(t, d) /\ LeadsTo(t, q0, p0, h0, <<q, p, h>>)
    BY VisitedFrom
  <2>2. Reaches(t, d, q0, p0, h0)
    BY <1>2, <2>1
  <2>3. /\ \A k \in Own(t, p0) :
             Reaches(t, d + 1, Append(q0, k), Append(p0, k), IF k \in h0 THEN Keys ELSE {})
        /\ IsRef(t, p0) => Reaches(t, d + 1, q0, Target(t, p0), h0 \cup BesideKeys(t, p0))
    BY <2>0, <2>1, <2>2, Reached
  <2>4. ASSUME NEW k \in Own(t, p0),
               <<q, p, h>> = <<Append(q0, k), Append(p0, k), IF k \in h0 THEN Keys ELSE {}>>
        PROVE  Reaches(t, d + 1, q, p, h)
    <3>1. q = Append(q0, k) /\ p = Append(p0, k) /\ h = IF k \in h0 THEN Keys ELSE {}
      BY <2>4
    <3> QED BY <2>3, <3>1
  <2>5. ASSUME IsRef(t, p0), <<q, p, h>> = <<q0, Target(t, p0), h0 \cup BesideKeys(t, p0)>>
        PROVE  Reaches(t, d + 1, q, p, h)
    BY <2>3, <2>5
  <2> QED BY <2>1, <2>4, <2>5 DEF LeadsTo
<1>3. Bad = {}
  <2> SUFFICES ASSUME Bad # {} PROVE FALSE
    OBVIOUS
  <2>1. Bad \in SUBSET Nat
    OBVIOUS
  <2>2. PICK d \in Bad : \A e \in Bad : d <= e
    <3> HIDE DEF Bad
    <3> QED BY <2>1, LeastNatural
  <2> HIDE DEF Good
  <2>3. d \in Nat /\ d <= MaxRefDepth + 1 /\ ~Good(d) /\ d # 0
    BY <1>1
  <2>4. d - 1 \in Nat /\ (d - 1) + 1 = d /\ d - 1 <= MaxRefDepth + 1 /\ ~(d <= d - 1)
    BY <1>0, <2>3
  <2>5. Good(d - 1)
    BY <2>2, <2>4
  <2> QED BY <1>2, <2>3, <2>4, <2>5
<1> HIDE DEF Good
<1>4. \A d \in Depths : Good(d)
  BY <1>0, <1>3 DEF Depths
<1> QED BY <1>4 DEF Good

\* What is not raised on comes to an end and says all that is read.
LEMMA InlinedEnds ==
  ASSUME NEW t \in Trees, InlineRefs(t) # Raised
  PROVE  ~Unending(t) /\ Reading(t) \subseteq InlineRefs(t)
<1>0. MaxRefDepth \in Nat
  BY SchemaAssumption
<1>1. ASSUME NEW d \in Depths, NEW v \in Visits(t, d)
      PROVE  /\ v = <<v[1], v[2], v[3]>>
             /\ d \in 0 .. MaxRefDepth /\ (IsRef(t, v[2]) => Known(t, v[2]))
             /\ v[3] = {} /\ (IsRef(t, v[2]) => Own(t, v[2]) # {})
                  => <<v[1], Value(t, v[2])>> \in InlineRefs(t)
  <2>1. d \in Nat
    BY DEF Depths
  <2>2. v = <<v[1], v[2], v[3]>>
    BY <2>1, VisitsAre DEF TheVisits
  <2>3. Reaches(t, d, v[1], v[2], v[3])
    BY <2>2, AllReached
  <2> DEFINE q == v[1] p == v[2] h == v[3]
  <2>4. <<q, p, h>> \in Visits(t, d) /\ Reaches(t, d, q, p, h)
    BY <2>2, <2>3
  <2> HIDE DEF q, p, h
  <2>5. /\ d \in 0 .. MaxRefDepth
        /\ IsRef(t, p) => Known(t, p)
        /\ h = {} /\ (IsRef(t, p) => Own(t, p) # {}) => <<q, Value(t, p)>> \in InlineRefs(t)
    BY <2>4, Reached
  <2> QED BY <2>2, <2>5 DEF q, p, h
<1>2. Visits(t, MaxRefDepth + 1) = {}
  <2>1. MaxRefDepth + 1 \in Depths /\ MaxRefDepth + 1 \notin 0 .. MaxRefDepth
    BY <1>0 DEF Depths
  <2> QED BY <1>1, <2>1
<1>3. 0 .. MaxRefDepth \subseteq Depths
  BY <1>0 DEF Depths
<1>4. ~Unending(t)
  BY <1>1, <1>2, <1>3 DEF Unending
<1>5. Reading(t) \subseteq InlineRefs(t)
  <2> SUFFICES ASSUME NEW n \in 0 .. MaxRefDepth, NEW v \in Visits(t, n),
                      v[3] = {}, IsRef(t, v[2]) => Own(t, v[2]) # {}
               PROVE  <<v[1], Value(t, v[2])>> \in InlineRefs(t)
    BY DEF Reading
  <2> QED BY <1>1, <1>3
<1> QED BY <1>4, <1>5

\* Conversely all that is inlined is read.
IsRead(t, d, q, p, h) ==
  \A seen \in Seens :
    Inlined(t, p, seen, d) # Raised =>
      \A m \in Inlined(t, p, seen, d) : Visible(m, h) => Moved(q, m) \in Reading(t)

\* What is inlined of a node is read, if all that is inlined one step on is.
LEMMA ReadingGoesOn ==
  ASSUME NEW t \in Trees, NEW d \in Depths, NEW q, NEW p, NEW h, <<q, p, h>> \in Visits(t, d),
         d + 1 \in Depths => \A q1, p1, h1 : <<q1, p1, h1>> \in Visits(t, d + 1) =>
                                             IsRead(t, d + 1, q1, p1, h1)
  PROVE  IsRead(t, d, q, p, h)
<1>0. d \in Nat /\ MaxRefDepth \in Nat
  BY SchemaAssumption DEF Depths
<1>1. q \in Paths /\ p \in Places(t) /\ h \in SUBSET Keys
  BY <1>0, Visited
<1> SUFFICES ASSUME NEW seen \in Seens, Inlined(t, p, seen, d) # Raised,
                    NEW m \in Inlined(t, p, seen, d), Visible(m, h)
             PROVE  Moved(q, m) \in Reading(t)
  BY DEF IsRead
<1> DEFINE s == SeenAt(t, p, seen)
<1>2. /\ d \in 0 .. MaxRefDepth /\ d + 1 \in Depths
      /\ ~Lost(t, p, seen) /\ s \in Seens
      /\ \A k \in Own(t, p) : /\ Inlined(t, Append(p, k), s, d + 1) # Raised
                              /\ Inlined(t, Append(p, k), s, d + 1) \in Trees
      /\ IsRef(t, p) => Inlined(t, Target(t, p), s, d + 1) # Raised
      /\ \/ SaidItself(t, p, m)
         \/ \E k \in Own(t, p) : \E n \in Inlined(t, Append(p, k), s, d + 1) : m = Under(k, n)
         \/ /\ IsRef(t, p) /\ m \in Inlined(t, Target(t, p), s, d + 1)
            /\ ShowsThrough(t, p, m)
  BY <1>1, InlinedNodes
<1> HIDE DEF s
<1>3. CASE SaidItself(t, p, m)
  <2>1. m = << <<>>, Value(t, p)>> /\ (IsRef(t, p) => Own(t, p) # {})
    BY <1>3 DEF SaidItself
  <2>2. h = {} /\ Moved(q, m) = <<q, Value(t, p)>>
    BY <1>1, <2>1, MovedIs
  <2>3. <<q, p, h>> \in UNION {Visits(t, n) : n \in 0 .. MaxRefDepth}
    BY <1>2
  <2>4. <<q, p, h>>[1] = q /\ <<q, p, h>>[2] = p /\ <<q, p, h>>[3] = h
    OBVIOUS
  <2> QED BY <2>1, <2>2, <2>3, <2>4 DEF Reading
<1>4. ASSUME NEW k \in Own(t, p), NEW n \in Inlined(t, Append(p, k), s, d + 1), m = Under(k, n)
      PROVE  Moved(q, m) \in Reading(t)
  <2>1. k \in Keys /\ n[1] \in Paths
    BY <1>1, <1>2, Ways, TreeFacts
  <2>2. k \notin h
    BY <1>1, <1>4, <2>1, MovedIs
  <2>3. <<Append(q, k), Append(p, k), IF k \in h THEN Keys ELSE {}>> \in Visits(t, d + 1)
    BY <1>0, Visited
  <2>4. <<Append(q, k), Append(p, k), {}>> \in Visits(t, d + 1)
    BY <2>2, <2>3
  <2>5. IsRead(t, d + 1, Append(q, k), Append(p, k), {})
    BY <1>2, <2>4
  <2>6. Visible(n, {})
    BY DEF Visible
  <2>7. Moved(Append(q, k), n) \in Reading(t)
    BY <1>2, <2>5, <2>6 DEF IsRead
  <2> QED BY <1>1, <1>4, <2>1, <2>7, MovedIs
<1>5. ASSUME IsRef(t, p), m \in Inlined(t, Target(t, p), s, d + 1), ShowsThrough(t, p, m)
      PROVE  Moved(q, m) \in Reading(t)
  <2>1. <<q, Target(t, p), h \cup BesideKeys(t, p)>> \in Visits(t, d + 1)
    BY <1>0, <1>2, <1>5, Visited DEF Lost
  <2>2. IsRead(t, d + 1, q, Target(t, p), h \cup BesideKeys(t, p))
    BY <1>2, <2>1
  <2>3. Visible(m, h \cup BesideKeys(t, p))
    BY <1>5 DEF Visible, ShowsThrough, BesideKeys
  <2> QED BY <1>2, <1>5, <2>2, <2>3 DEF IsRead
<1> QED BY <1>2, <1>3, <1>4, <1>5

\* By induction from the depth limit upwards all that is inlined is read.
LEMMA AllIsRead ==
  ASSUME NEW t \in Trees, InlineRefs(t) # Raised
  PROVE  InlineRefs(t) \subseteq Reading(t)
<1>0. MaxRefDepth \in Nat
  BY SchemaAssumption
<1> DEFINE Good(n) == \A q, p, h : <<q, p, h>> \in Visits(t, (MaxRefDepth + 1) - n) =>
                                   IsRead(t, (MaxRefDepth + 1) - n, q, p, h)
           Bad == {n \in Nat : n <= MaxRefDepth + 1 /\ ~Good(n)}
<1>1. ASSUME NEW n \in Nat, n <= MaxRefDepth + 1, n = 0 \/ Good(n - 1) PROVE Good(n)
  <2> DEFINE d == (MaxRefDepth + 1) - n
  <2>1. d \in Depths /\ (d + 1 \in Depths => n # 0 /\ (MaxRefDepth + 1) - (n - 1) = d + 1)
    BY <1>0, <1>1 DEF Depths
  <2>2. d + 1 \in Depths => \A q1, p1, h1 : <<q1, p1, h1>> \in Visits(t, d + 1) =>
                                            IsRead(t, d + 1, q1, p1, h1)
    <3> HIDE DEF d
    <3> QED BY <1>1, <2>1
  <2> HIDE DEF d
  <2>3. \A q, p, h : <<q, p, h>> \in Visits(t, d) => IsRead(t, d, q, p, h)
    BY <2>1, <2>2, ReadingGoesOn
  <2> QED BY <2>3 DEF d
<1>2. Bad = {}
  <2> SUFFICES ASSUME Bad # {} PROVE FALSE
    OBVIOUS
  <2>1. Bad \in SUBSET Nat
    OBVIOUS
  <2>2. PICK n \in Bad : \A m \in Bad : n <= m
    <3> HIDE DEF Bad
    <3> QED BY <2>1, LeastNatural
  <2> HIDE DEF Good
  <2>3. n \in Nat /\ n <= MaxRefDepth + 1 /\ ~Good(n) /\ n # 0
    BY <1>1
  <2>4. n - 1 \in Nat /\ n - 1 <= MaxRefDepth + 1 /\ ~(n <= n - 1)
    BY <1>0, <2>3
  <2>5. Good(n - 1)
    BY <2>2, <2>4
  <2> QED BY <1>1, <2>3, <2>5
<1>3. Good(MaxRefDepth + 1)
  <2> HIDE DEF Good
  <2> QED BY <1>0, <1>2
<1>4. \A q, p, h : <<q, p, h>> \in Visits(t, 0) => IsRead(t, 0, q, p, h)
  <2>1. (MaxRefDepth + 1) - (MaxRefDepth + 1) = 0
    BY <1>0
  <2> QED BY <1>3, <2>1
<1>5. IsRead(t, 0, <<>>, <<>>, {})
  <2>1. << <<>>, <<>>, {}>> \in Visits(t, 0)
    BY VisitsAre DEF Root
  <2> QED BY <1>4, <2>1
<1>6. {} \in Seens /\ Inlined(t, <<>>, {}, 0) = InlineRefs(t) /\ 0 \in Depths /\ <<>> \in Places(t)
  BY <1>0, InlineRefsIs, PlaceFacts DEF Seens, Inlined, Depths
<1>7. InlineRefs(t) \in Trees
  BY <1>6, InliningIs DEF Inlined
<1>8. ASSUME NEW m \in InlineRefs(t) PROVE m \in Reading(t)
  <2>1. m = <<m[1], m[2]>> /\ m[1] \in Paths
    BY <1>7, TreeFacts
  <2>2. <<>> \o m[1] = m[1]
    BY <2>1, ConcatEmptySeq DEF Paths
  <2>3. Moved(<<>>, m) = m /\ Visible(m, {})
    BY <2>1, <2>2 DEF Moved, Visible
  <2>4. Moved(<<>>, m) \in Reading(t)
    BY <1>5, <1>6, <2>3 DEF IsRead
  <2> QED BY <2>3, <2>4
<1> QED BY <1>8

------------------------------------------------------------------------------
(* Nothing else is refused *)

\* Reading comes to p in i steps.
VisitedAt(t, p, i) == \E q, h : <<q, p, h>> \in Visits(t, i)

\* Places are visited from places.
LEMMA GoesOn ==
  ASSUME NEW t \in Trees, NEW i \in Nat, NEW p, VisitedAt(t, p, i)
  PROVE  /\ p \in Places(t)
         /\ \A k \in Own(t, p) : VisitedAt(t, Append(p, k), i + 1)
         /\ IsRef(t, p) /\ Known(t, p) => VisitedAt(t, Target(t, p), i + 1)
<1>1. PICK q, h : <<q, p, h>> \in Visits(t, i)
  BY DEF VisitedAt
<1>2. /\ p \in Places(t)
      /\ \A k \in Own(t, p) :
           <<Append(q, k), Append(p, k), IF k \in h THEN Keys ELSE {}>> \in Visits(t, i + 1)
      /\ IsRef(t, p) /\ Known(t, p) =>
           <<q, Target(t, p), h \cup BesideKeys(t, p)>> \in Visits(t, i + 1)
  BY <1>1, Visited
<1> QED BY <1>2 DEF VisitedAt

\* Reading comes to p again from the definition n.
Around(t, n, p) ==
  \A i \in Nat : VisitedAt(t, <<"defs", n>>, i) => \E j \in Nat : j >= i /\ VisitedAt(t, p, j)
\* There is no reference at p or below.
NoRefBelow(t, p) == \A q \in Places(t) : IsPrefix(p, q) => ~IsRef(t, q)

\* The way around can be taken from everything p leads to.
LEMMA AroundGoesOn ==
  ASSUME NEW t \in Trees, NEW n, NEW p, Around(t, n, p)
  PROVE  /\ \A k \in Own(t, p) : Around(t, n, Append(p, k))
         /\ IsRef(t, p) /\ Known(t, p) => Around(t, n, Target(t, p))
<1>1. ASSUME NEW i \in Nat, VisitedAt(t, <<"defs", n>>, i)
      PROVE  \E j \in Nat : /\ j >= i
                            /\ \A k \in Own(t, p) : VisitedAt(t, Append(p, k), j)
                            /\ IsRef(t, p) /\ Known(t, p) => VisitedAt(t, Target(t, p), j)
  <2>1. PICK j \in Nat : j >= i /\ VisitedAt(t, p, j)
    BY <1>1 DEF Around
  <2>2. j + 1 \in Nat /\ j + 1 >= i
    BY <2>1
  <2> QED BY <2>1, <2>2, GoesOn
<1>2. ASSUME NEW k \in Own(t, p) PROVE Around(t, n, Append(p, k))
  BY <1>1 DEF Around
<1>3. ASSUME IsRef(t, p), Known(t, p) PROVE Around(t, n, Target(t, p))
  BY <1>1, <1>3 DEF Around
<1> QED BY <1>2, <1>3

\* A circle has no end.
LEMMA Circles ==
  ASSUME NEW t \in Trees, ~Unending(t), NEW i \in Nat, NEW p, VisitedAt(t, p, i),
         IsRef(t, p), Known(t, p)
  PROVE  ~Around(t, Name(t, p), p)
<1>0. MaxRefDepth \in Nat
  BY SchemaAssumption
<1> SUFFICES ASSUME Around(t, Name(t, p), p) PROVE FALSE
  OBVIOUS
<1> DEFINE At(j) == VisitedAt(t, Target(t, p), j)
<1>1. Target(t, p) = <<"defs", Name(t, p)>>
  BY DEF Target
<1>2. At(i + 1)
  BY GoesOn
<1>3. ASSUME NEW j \in Nat, At(j) PROVE \E l \in Nat : l > j /\ At(l)
  <2>1. PICK l \in Nat : l >= j /\ VisitedAt(t, p, l)
    BY <1>1, <1>3 DEF Around
  <2>2. At(l + 1) /\ l + 1 \in Nat /\ l + 1 > j
    BY <2>1, GoesOn
  <2> QED BY <2>2
\* Nothing is visited after as many steps as the limit allows.
<1>4. ASSUME NEW j \in Nat, j > MaxRefDepth PROVE Visits(t, j) = {}
  <2> DEFINE Bad == {l \in Nat : l > MaxRefDepth /\ Visits(t, l) # {}}
  <2> SUFFICES ASSUME Bad # {} PROVE FALSE
    BY <1>4
  <2>1. Bad \in SUBSET Nat
    OBVIOUS
  <2>2. PICK l \in Bad : \A m \in Bad : l <= m
    <3> HIDE DEF Bad
    <3> QED BY <2>1, LeastNatural
  <2>3. l # MaxRefDepth + 1
    BY DEF Unending
  <2>4. l - 1 \in Nat /\ (l - 1) + 1 = l /\ l - 1 > MaxRefDepth /\ ~(l <= l - 1)
    BY <1>0, <2>3
  <2>5. Visits(t, l - 1) = {}
    BY <2>2, <2>4
  <2>6. Visits(t, l) = UNION {VisitsFrom(t, v) : v \in Visits(t, l - 1)}
    BY <2>4, VisitsAre
  <2>7. Visits(t, l) = {}
    BY <2>5, <2>6
  <2> QED BY <2>7
<1>5. ASSUME NEW j \in Nat, At(j) PROVE j <= MaxRefDepth
  BY <1>0, <1>4, <1>5 DEF VisitedAt
<1> DEFINE Left == {n \in Nat : n <= MaxRefDepth /\ At(MaxRefDepth - n)}
<1>6. ASSUME NEW j \in Nat, At(j)
      PROVE  MaxRefDepth - j \in Left /\ MaxRefDepth - j \in Nat
  <2> HIDE DEF At
  <2>1. j <= MaxRefDepth
    BY <1>5, <1>6
  <2>2. MaxRefDepth - j \in Nat /\ MaxRefDepth - j <= MaxRefDepth
        /\ MaxRefDepth - (MaxRefDepth - j) = j
    BY <1>0, <2>1
  <2> QED BY <1>6, <2>2
<1> HIDE DEF At
<1>7. Left # {} /\ Left \in SUBSET Nat
  BY <1>2, <1>6
<1>8. PICK n \in Left : \A m \in Left : n <= m
  <2> HIDE DEF Left
  <2> QED BY <1>7, LeastNatural
<1>9. n \in Nat /\ n <= MaxRefDepth /\ MaxRefDepth - n \in Nat /\ At(MaxRefDepth - n)
  BY <1>0, <1>8
<1>10. PICK l \in Nat : l > MaxRefDepth - n /\ At(l)
  BY <1>3, <1>9
<1>11. MaxRefDepth - l \in Left /\ MaxRefDepth - l \in Nat
  BY <1>6, <1>10
<1> HIDE DEF Left
<1>12. n <= MaxRefDepth - l
  BY <1>8, <1>11
<1> QED BY <1>0, <1>9, <1>10, <1>12

\* The names followed on the way to p do not come again, unless in a circle.
Fresh(t, p, seen) == (\A n \in seen : Around(t, n, p)) \/ NoRefBelow(t, p)

\* Below a node without references there are none.
LEMMA NoRefGoesOn ==
  ASSUME NEW t \in Trees, NEW p \in Places(t), NoRefBelow(t, p)
  PROVE  ~IsRef(t, p) /\ \A k \in Own(t, p) : NoRefBelow(t, Append(p, k))
<1>1. p \in Paths
  BY Ways
<1>2. ~IsRef(t, p)
  BY <1>1, StrictPrefix DEF NoRefBelow
<1>3. ASSUME NEW k \in Own(t, p), NEW q \in Places(t), IsPrefix(Append(p, k), q) PROVE ~IsRef(t, q)
  <2>1. k \in Keys /\ q \in Paths
    BY Ways
  <2>2. IsPrefix(p, q)
    BY <1>1, <1>3, <2>1, AppendPath, StrictPrefix
  <2> QED BY <2>2 DEF NoRefBelow
<1> QED BY <1>2, <1>3 DEF NoRefBelow

\* What is visited without a circle is inlined if what it leads to is.
LEMMA NotRaised ==
  ASSUME NEW t \in Trees, ~Unending(t), ~BesideRef(t),
         NEW d \in 0 .. MaxRefDepth, NEW p, VisitedAt(t, p, d), NEW seen \in Seens, Fresh(t, p, seen),
         \A q : \A s \in Seens : VisitedAt(t, q, d + 1) /\ Fresh(t, q, s) =>
                                 Inlined(t, q, s, d + 1) # Raised
  PROVE  Inlined(t, p, seen, d) # Raised
<1>0. MaxRefDepth \in Nat /\ d \in Nat /\ d \in Depths /\ d + 1 \in Depths /\ ~(d > MaxRefDepth)
  <2>1. MaxRefDepth \in Nat
    BY SchemaAssumption
  <2> QED BY <2>1 DEF Depths
<1>1. /\ p \in Places(t)
      /\ \A k \in Own(t, p) : VisitedAt(t, Append(p, k), d + 1)
      /\ IsRef(t, p) /\ Known(t, p) => VisitedAt(t, Target(t, p), d + 1)
  BY <1>0, GoesOn
<1>2. IsRef(t, p) => Known(t, p)
  <2>1. PICK q, h : <<q, p, h>> \in Visits(t, d)
    BY DEF VisitedAt
  <2>2. <<q, p, h>>[2] = p
    OBVIOUS
  <2> QED BY <2>1, <2>2 DEF Unending
<1>3. ~Lost(t, p, seen)
  <2> SUFFICES ASSUME IsRef(t, p), Name(t, p) \in seen PROVE FALSE
    BY <1>2 DEF Lost
  <2>1. ~NoRefBelow(t, p)
    BY <1>1, NoRefGoesOn
  <2>2. Around(t, Name(t, p), p)
    BY <2>1 DEF Fresh
  <2> QED BY <1>0, <1>2, <2>2, Circles
<1> DEFINE s == SeenAt(t, p, seen)
<1>4. s \in Seens
  BY <1>1, <1>3, SeenIs
<1>5. ASSUME NEW k \in Own(t, p) PROVE Inlined(t, Append(p, k), s, d + 1) # Raised
  <2>1. CASE IsRef(t, p)
    <3>1. NoRefBelow(t, Append(p, k))
      BY <1>1, <2>1 DEF BesideRef, NoRefBelow
    <3> HIDE DEF s
    <3> QED BY <1>1, <1>4, <3>1 DEF Fresh
  <2>2. CASE ~IsRef(t, p)
    <3>1. s = seen
      BY <2>2 DEF SeenAt
    <3>2. Fresh(t, Append(p, k), seen)
      BY <1>1, AroundGoesOn, NoRefGoesOn DEF Fresh
    <3> HIDE DEF s
    <3> QED BY <1>1, <1>4, <3>1, <3>2
  <2> QED BY <2>1, <2>2
<1>6. ASSUME IsRef(t, p) PROVE Inlined(t, Target(t, p), s, d + 1) # Raised
  <2>1. ~NoRefBelow(t, p)
    BY <1>1, <1>6, NoRefGoesOn
  <2>2. \A n \in seen : Around(t, n, Target(t, p))
    BY <1>2, <1>6, <2>1, AroundGoesOn DEF Fresh
  <2>3. Around(t, Name(t, p), Target(t, p))
    <3>1. \A i \in Nat : i >= i
      OBVIOUS
    <3> QED BY <3>1 DEF Around, Target
  <2>4. Fresh(t, Target(t, p), s)
    BY <1>6, <2>2, <2>3 DEF Fresh, SeenAt
  <2> HIDE DEF s
  <2> QED BY <1>1, <1>2, <1>4, <1>6, <2>4
<1> DEFINE f == Inlining(t)
           own == [k \in Own(t, p) |-> f[<<Append(p, k), s, d + 1>>]]
           target == f[<<Target(t, p), s, d + 1>>]
           r == InlineAt(f, t, p, seen, d)
<1>7. \A k \in Own(t, p) : own[k] # Raised /\ own[k] \in Trees
  <2>1. ASSUME NEW k \in Own(t, p)
        PROVE  f[<<Append(p, k), s, d + 1>>] # Raised /\ f[<<Append(p, k), s, d + 1>>] \in Trees
    <3>1. Append(p, k) \in Places(t)
      BY <1>1, Ways
    <3> HIDE DEF s
    <3> QED BY <1>0, <1>4, <1>5, <3>1, InliningIs DEF Inlined
  <2> QED BY <2>1
<1>8. IsRef(t, p) => target # Raised /\ target \in Trees
  <2>1. IsRef(t, p) => Target(t, p) \in Places(t)
    BY <1>1, <1>2, Ways
  <2> HIDE DEF s
  <2> QED BY <1>0, <1>4, <1>6, <2>1, InliningIs DEF Inlined
<1>9. \/ r = Leaf(Value(t, p))
      \/ r = Object(own)
      \/ IsRef(t, p) /\ r = target
      \/ r = Beside(Object(own), target)
  <2>1. \/ d > MaxRefDepth
        \/ Lost(t, p, seen)
        \/ IsRef(t, p) /\ target = Raised
        \/ \E k \in Own(t, p) : own[k] = Raised
        \/ ~IsRef(t, p) /\ KeysAt(t, p) = {} /\ r = Leaf(Value(t, p))
        \/ ~IsRef(t, p) /\ KeysAt(t, p) # {} /\ r = Object(own)
        \/ IsRef(t, p) /\ Own(t, p) = {} /\ r = target
        \/ IsRef(t, p) /\ Own(t, p) # {} /\ r = Beside(Object(own), target)
    BY InlineCases
  <2> HIDE DEF own, target, r
  <2> QED BY <1>0, <1>3, <1>7, <1>8, <2>1
<1>10. r # Raised
  <2>1. Leaf(Value(t, p)) # Raised
    BY DEF Leaf, Raised
  <2>2. Object(own) # Raised /\ Beside(Object(own), target) # Raised
    BY DEF Object, EmptyDict, Beside, Raised
  <2> HIDE DEF own, target, r
  <2> QED BY <1>8, <1>9, <2>1, <2>2
<1>11. Inlined(t, p, seen, d) = r
  BY <1>0, <1>1, InliningIs DEF Inlined
<1> QED BY <1>10, <1>11

\* By induction from the depth limit upwards nothing that ends is refused.
LEMMA InlinesWhatEnds ==
  ASSUME NEW t \in Trees, ~Unending(t), ~BesideRef(t)
  PROVE  InlineRefs(t) # Raised
<1>0. MaxRefDepth \in Nat
  BY SchemaAssumption
<1> DEFINE Good(n) == \A p : \A seen \in Seens :
                        VisitedAt(t, p, (MaxRefDepth + 1) - n) /\ Fresh(t, p, seen) =>
                        Inlined(t, p, seen, (MaxRefDepth + 1) - n) # Raised
           Bad == {n \in Nat : n <= MaxRefDepth + 1 /\ ~Good(n)}
<1>1. Good(0)
  <2>1. (MaxRefDepth + 1) - 0 = MaxRefDepth + 1 /\ Visits(t, MaxRefDepth + 1) = {}
    BY <1>0 DEF Unending
  <2> QED BY <2>1 DEF VisitedAt
<1>2. ASSUME NEW n \in Nat, n <= MaxRefDepth + 1, n # 0, Good(n - 1) PROVE Good(n)
  <2> DEFINE d == (MaxRefDepth + 1) - n
  <2>1. d \in 0 .. MaxRefDepth /\ (MaxRefDepth + 1) - (n - 1) = d + 1
    BY <1>0, <1>2
  <2>2. \A q : \A s \in Seens : VisitedAt(t, q, d + 1) /\ Fresh(t, q, s) =>
                                Inlined(t, q, s, d + 1) # Raised
    <3> HIDE DEF d
    <3> QED BY <1>2, <2>1
  <2> HIDE DEF d
  <2>3. ASSUME NEW p, NEW seen \in Seens, VisitedAt(t, p, d), Fresh(t, p, seen)
        PROVE  Inlined(t, p, seen, d) # Raised
    BY <2>1, <2>2, <2>3, NotRaised
  <2> QED BY <2>3 DEF d
<1>3. Bad = {}
  <2> SUFFICES ASSUME Bad # {} PROVE FALSE
    OBVIOUS
  <2>1. Bad \in SUBSET Nat
    OBVIOUS
  <2>2. PICK n \in Bad : \A m \in Bad : n <= m
    <3> HIDE DEF Bad
    <3> QED BY <2>1, LeastNatural
  <2> HIDE DEF Good
  <2>3. n \in Nat /\ n <= MaxRefDepth + 1 /\ ~Good(n) /\ n # 0
    BY <1>1
  <2>4. n - 1 \in Nat /\ n - 1 <= MaxRefDepth + 1 /\ ~(n <= n - 1)
    BY <1>0, <2>3
  <2>5. Good(n - 1)
    BY <2>2, <2>4
  <2> QED BY <1>2, <2>3, <2>5
<1>4. Good(MaxRefDepth + 1)
  <2> HIDE DEF Good
  <2> QED BY <1>0, <1>3
<1>5. (MaxRefDepth + 1) - (MaxRefDepth + 1) = 0
  BY <1>0
<1>6. VisitedAt(t, <<>>, 0) /\ {} \in Seens /\ Fresh(t, <<>>, {})
  BY VisitsAre DEF VisitedAt, Root, Seens, Fresh
<1>7. Inlined(t, <<>>, {}, 0) # Raised
  BY <1>4, <1>5, <1>6
<1> QED BY <1>7, InlineRefsIs DEF Inlined

\* Inlining a schema with definitions gives what following its references reads, or
\* nothing.  It gives nothing if reading does not end within the depth limit or comes
\* to a definition that is missing, and in no other case unless a reference stands
\* beside keys that hold references (adapters/schema.py:105, 178, 190).
THEOREM InlineRefsReads ==
  ASSUME NEW t \in Dicts, "defs" \in KeysAt(t, <<>>)
  PROVE  /\ Unending(t) => InlineRefs(t) = Raised
         /\ InlineRefs(t) = Raised => Unending(t) \/ BesideRef(t)
         /\ InlineRefs(t) # Raised => InlineRefs(t) \in Dicts /\ InlineRefs(t) = Reading(t)
<1>0. t \in Trees /\ <<>> \in Paths
  BY DictFacts DEF Paths
<1>1. ASSUME InlineRefs(t) # Raised
      PROVE  InlineRefs(t) \in Dicts /\ InlineRefs(t) = Reading(t) /\ ~Unending(t)
  <2>1. InlineRefs(t) = Reading(t) /\ ~Unending(t)
    BY <1>0, <1>1, InlinedEnds, AllIsRead
  <2>2. {} \in Seens /\ Inlined(t, <<>>, {}, 0) = InlineRefs(t) /\ 0 \in Depths /\ <<>> \in Places(t)
    <3>1. MaxRefDepth \in Nat
      BY SchemaAssumption
    <3> QED BY <1>0, <3>1, InlineRefsIs, PlaceFacts DEF Seens, Inlined, Depths
  <2>3. SaidItself(t, <<>>, << <<>>, "dict">>)
    <3>1. IsRef(t, <<>>) => "defs" \in Own(t, <<>>)
      BY DEF Own
    <3>2. << <<>>, "dict">> \in t
      BY DictFacts
    <3>3. Value(t, <<>>) = "dict"
      BY <1>0, <3>2, PlaceFacts
    <3> QED BY <3>1, <3>3 DEF SaidItself
  <2>4. Inlined(t, <<>>, {}, 0) \in Trees
    BY <1>0, <1>1, <2>2, InliningIs DEF Inlined
  <2>5. << <<>>, "dict">> \in Inlined(t, <<>>, {}, 0)
    BY <1>0, <1>1, <2>2, <2>3, InlinedNodes
  <2> QED BY <2>1, <2>2, <2>4, <2>5 DEF Dicts
<1>2. ~Unending(t) /\ ~BesideRef(t) => InlineRefs(t) # Raised
  BY <1>0, InlinesWhatEnds
<1> QED BY <1>1, <1>2

------------------------------------------------------------------------------
(* Objects *)

\* What an object schema is depends on the dicts and lists above it.
LEMMA SameKind ==
  ASSUME NEW x, NEW y, NEW p \in Paths,
         \A q \in Paths : (IsDict(x, q) <=> IsDict(y, q)) /\ (IsList(x, q) <=> IsList(y, q))
  PROVE  Kind(x, p) = Kind(y, p)
<1> DEFINE F(t, f) == [i \in 0 .. Len(p) |->
                         IF i = 0 THEN "schema" ELSE KindBelow(f[i - 1], p[i], t, SubSeq(p, 1, i))]
<1>1. ASSUME NEW f PROVE F(x, f) = F(y, f)
  <2>1. ASSUME NEW i \in 0 .. Len(p), i # 0
        PROVE  KindBelow(f[i - 1], p[i], x, SubSeq(p, 1, i)) = KindBelow(f[i - 1], p[i], y, SubSeq(p, 1, i))
    <3>1. SubSeq(p, 1, i) \in Paths
      BY <2>1, SubSeqProperties DEF Paths
    <3>2. \A kind, k : KindBelow(kind, k, x, SubSeq(p, 1, i)) = KindBelow(kind, k, y, SubSeq(p, 1, i))
      BY <3>1 DEF KindBelow
    <3> QED BY <3>2
  <2> QED BY <2>1
<1> HIDE DEF F
<1>2. \A f : f = F(x, f) <=> f = F(y, f)
  BY <1>1
<1>3. (CHOOSE f : f = F(x, f)) = (CHOOSE f : f = F(y, f))
  BY <1>2
<1>4. Kind(x, p) = (CHOOSE f : f = F(x, f))[Len(p)] /\ Kind(y, p) = (CHOOSE f : f = F(y, f))[Len(p)]
  BY DEF Kind, F
<1> QED BY <1>3, <1>4

\* What closing adds: a key to each open object schema.
Closing == "additionalProperties"
Open(x) == {p \in ObjectSchemas(x) : Closing \notin KeysAt(x, p)}

\* Where a type stands.
LEMMA TypePaths ==
  ASSUME NEW p \in Paths
  PROVE  /\ p \o <<"type">> = Append(p, "type")
         /\ p \o <<"type", "*">> = Append(Append(p, "type"), "*")
         /\ Append(p, "type") \in Paths
<1>1. /\ "type" \in Keys /\ "*" \in Keys /\ p \in Seq(Keys)
      /\ <<"type">> \in Seq(Keys) /\ <<"*">> \in Seq(Keys)
  BY SchemaAssumption DEF Paths
<1>2. p \o <<"type">> = Append(p, "type") /\ Append(p, "type") \in Paths
  BY <1>1, Appended, AppendPath
<1>3. Append(p, "type") \o <<"*">> = Append(Append(p, "type"), "*")
  BY <1>1, <1>2, Appended
<1>4. (p \o <<"type">>) \o <<"*">> = p \o (<<"type">> \o <<"*">>)
  BY <1>1, ConcatAssociative
<1>5. <<"type">> \o <<"*">> = <<"type", "*">>
  <2>1. <<"type">> \in Paths
    BY <1>1 DEF Paths
  <2>2. <<"type">> \o <<"*">> = Append(<<"type">>, "*")
    BY <1>1, <2>1, Appended
  <2> DEFINE a == Append(<<"type">>, "*")
  <2>3. a \in Paths /\ Len(a) = 2 /\ a[1] = "type" /\ a[2] = "*"
    BY <1>1, <2>1, AppendProperties DEF Paths
  <2> HIDE DEF a
  <2>4. a = <<"type", "*">>
    BY <2>3 DEF Paths
  <2> QED BY <2>2, <2>4 DEF a
<1> QED BY <1>2, <1>3, <1>4, <1>5

\* What closing an object adds.
LEMMA ClosedNodes ==
  ASSUME NEW x \in Dicts
  PROVE  /\ Close(x) \in Dicts
         /\ \A m : m \in Close(x) <=> m \in x \/ \E p \in Open(x) : m = <<Append(p, Closing), "false">>
         /\ Open(x) \subseteq Paths
<1>0. x \in Trees /\ << <<>>, "dict">> \in x /\ Closing \in Keys /\ "false" \in Leaves
  BY DictFacts, SchemaAssumption DEF Closing
<1> DEFINE c == Close(x)  new(p) == <<Append(p, Closing), "false">>
<1>1. \A m : m \in c <=> m \in x \/ \E p \in Open(x) : m = new(p)
  BY DEF Close, Open, Closing
<1>2. ASSUME NEW p \in Open(x)
      PROVE  /\ p \in Paths /\ <<p, "dict">> \in x /\ Append(p, Closing) \in Paths
             /\ Append(p, Closing) \notin Places(x)
  <2>1. p \in Places(x) /\ <<p, "dict">> \in x /\ Closing \notin KeysAt(x, p)
    BY DEF Open, ObjectSchemas, IsDict, Holds
  <2>2. p \in Paths
    BY <1>0, <2>1, PlaceFacts
  <2> QED BY <1>0, <2>1, <2>2, PlaceFacts, AppendPath
<1> HIDE DEF c
<1>3. ASSUME NEW m \in c
      PROVE  m = <<m[1], m[2]>> /\ m[1] \in Paths /\ m[2] \in Leaves \cup {"dict"}
  <2>1. CASE m \in x
    BY <1>0, <2>1, TreeFacts
  <2>2. CASE \E p \in Open(x) : m = new(p)
    <3>1. PICK p \in Open(x) : m = new(p)
      BY <2>2
    <3>2. m[1] = Append(p, Closing) /\ m[2] = "false" /\ m = <<Append(p, Closing), "false">>
      BY <3>1
    <3> QED BY <1>0, <1>2, <3>2
  <2> QED BY <1>1, <2>1, <2>2
<1>4. c \in SUBSET (Paths \X (Leaves \cup {"dict"}))
  BY <1>3
<1>5. ASSUME NEW m \in x, NEW p \in Open(x) PROVE m[1] # Append(p, Closing)
  <2>1. m[1] \in Places(x)
    BY DEF Places
  <2> QED BY <1>2, <2>1
<1>6. ASSUME NEW m \in c, NEW n \in c, m[1] = n[1] PROVE m = n
  <2>1. CASE m \in x /\ n \in x
    BY <1>0, <1>6, <2>1, TreeFacts
  <2>2. CASE m \in x /\ \E p \in Open(x) : n = new(p)
    BY <1>5, <1>6, <2>2
  <2>3. CASE n \in x /\ \E p \in Open(x) : m = new(p)
    BY <1>5, <1>6, <2>3
  <2>4. CASE (\E p \in Open(x) : m = new(p)) /\ (\E p \in Open(x) : n = new(p))
    BY <1>6, <2>4
  <2> QED BY <1>1, <2>1, <2>2, <2>3, <2>4
<1>7. ASSUME NEW n \in c, NEW q \in Paths, IsStrictPrefix(q, n[1]) PROVE <<q, "dict">> \in c
  <2>1. CASE n \in x
    BY <1>0, <1>1, <1>7, <2>1, TreeFacts
  <2>2. ASSUME NEW p \in Open(x), n = new(p) PROVE <<q, "dict">> \in c
    <3>1. IsPrefix(q, p)
      BY <1>0, <1>2, <1>7, <2>2, Appended
    <3>2. p = q \/ IsStrictPrefix(q, p)
      BY <1>2, <3>1, StrictPrefix
    <3>3. IsStrictPrefix(q, p) => <<q, "dict">> \in x
      <4> DEFINE d == <<p, "dict">>
      <4>1. d \in x /\ d[1] = p
        BY <1>2
      <4> HIDE DEF d
      <4> QED BY <1>0, <4>1, TreeFacts
    <3> QED BY <1>1, <1>2, <3>2, <3>3
  <2> QED BY <1>1, <2>1, <2>2
<1>8. << <<>>, "dict">> \in c
  BY <1>0, <1>1
<1>9. \E n \in c : n[1] = <<>>
  BY <1>8
<1>10. c \in Trees
  BY <1>4, <1>6, <1>7, <1>9, IsATree
<1> QED BY <1>1, <1>2, <1>8, <1>10 DEF c, Dicts

\* Closing changes no key but its own and nothing that makes an object schema.
LEMMA ClosedKeys ==
  ASSUME NEW x \in Dicts, NEW p \in Paths
  PROVE  /\ \A k \in Keys : k \in KeysAt(Close(x), p) <=> k \in KeysAt(x, p) \/ (k = Closing /\ p \in Open(x))
         /\ Holds(Close(x), p, "dict") <=> Holds(x, p, "dict")
         /\ IsDict(Close(x), p) <=> IsDict(x, p)
         /\ IsList(Close(x), p) <=> IsList(x, p)
         /\ SaysObject(Close(x), p) <=> SaysObject(x, p)
         /\ IsObject(Close(x), p) <=> IsObject(x, p)
<1> DEFINE c == Close(x)
<1>0. /\ x \in Trees /\ c \in Trees /\ Closing \in Keys /\ Open(x) \subseteq Paths
      /\ \A m : m \in c <=> m \in x \/ \E o \in Open(x) : m = <<Append(o, Closing), "false">>
  BY DictFacts, ClosedNodes, SchemaAssumption DEF Closing
<1> HIDE DEF c
<1>1. ASSUME NEW k \in Keys
      PROVE  k \in KeysAt(c, p) <=> k \in KeysAt(x, p) \/ (k = Closing /\ p \in Open(x))
  <2> DEFINE a == Append(p, k)
  <2>1. /\ k \in KeysAt(c, p) <=> a \in Places(c)
        /\ k \in KeysAt(x, p) <=> a \in Places(x)
    BY <1>0, PlaceFacts
  <2>2. ASSUME NEW o \in Open(x) PROVE a = Append(o, Closing) <=> p = o /\ k = Closing
    <3>1. o \in Paths
      BY <1>0, <2>2
    <3>2. Append(p, k) = Append(o, Closing) => p = o /\ k = Closing
      BY <1>0, <3>1, SameAppended
    <3> QED BY <3>2
  <2> HIDE DEF a
  <2>3. ASSUME a \in Places(c) PROVE a \in Places(x) \/ (k = Closing /\ p \in Open(x))
    <3>1. PICK n \in c : n[1] = a
      BY <2>3 DEF Places
    <3>2. CASE n \in x
      BY <3>1, <3>2 DEF Places
    <3>3. CASE \E o \in Open(x) : n = <<Append(o, Closing), "false">>
      BY <2>2, <3>1, <3>3
    <3> QED BY <1>0, <3>2, <3>3
  <2>4. ASSUME a \in Places(x) PROVE a \in Places(c)
    BY <1>0, <2>4 DEF Places
  <2>5. ASSUME k = Closing, p \in Open(x) PROVE a \in Places(c)
    <3> DEFINE n == <<a, "false">>
    <3>1. n \in c /\ n[1] = a
      BY <1>0, <2>5 DEF a
    <3> QED BY <3>1 DEF Places
  <2> QED BY <2>1, <2>3, <2>4, <2>5
<1>2. Holds(c, p, "dict") <=> Holds(x, p, "dict")
  BY <1>0 DEF Holds
<1>3. IsList(c, p) <=> IsList(x, p)
  BY <1>1, SchemaAssumption DEF IsList, Closing
<1>4. ASSUME NEW q \in Paths, NEW l \in Keys, l # Closing, NEW v
      PROVE  Holds(c, Append(q, l), v) <=> Holds(x, Append(q, l), v)
  <2>1. ASSUME NEW o \in Open(x) PROVE Append(q, l) # Append(o, Closing)
    BY <1>0, <1>4, <2>1, Appended
  <2> QED BY <1>0, <2>1 DEF Holds
<1>5. \A v : /\ Holds(c, p \o <<"type">>, v) <=> Holds(x, p \o <<"type">>, v)
             /\ Holds(c, p \o <<"type", "*">>, v) <=> Holds(x, p \o <<"type", "*">>, v)
  <2> SUFFICES ASSUME NEW v
               PROVE  /\ Holds(c, p \o <<"type">>, v) <=> Holds(x, p \o <<"type">>, v)
                      /\ Holds(c, p \o <<"type", "*">>, v) <=> Holds(x, p \o <<"type", "*">>, v)
    OBVIOUS
  <2>1. "type" \in Keys /\ "*" \in Keys /\ "type" # Closing /\ "*" # Closing
    BY SchemaAssumption DEF Closing
  <2>2. /\ Holds(c, Append(p, "type"), v) <=> Holds(x, Append(p, "type"), v)
        /\ Holds(c, Append(Append(p, "type"), "*"), v) <=> Holds(x, Append(Append(p, "type"), "*"), v)
    BY <1>4, <2>1, TypePaths
  <2> QED BY <2>2, TypePaths
<1>6. SaysObject(c, p) <=> SaysObject(x, p)
  BY <1>5 DEF SaysObject
<1>7. "properties" \in KeysAt(c, p) <=> "properties" \in KeysAt(x, p)
  BY <1>1, SchemaAssumption DEF Closing
<1>8. IsObject(c, p) <=> IsObject(x, p)
  BY <1>5, <1>6, <1>7 DEF IsObject
<1> QED BY <1>1, <1>2, <1>3, <1>6, <1>8 DEF IsDict, c

\* Closing leaves the object schemas what they are, and none of them open.
LEMMA ClosedObjects ==
  ASSUME NEW x \in Dicts
  PROVE  /\ ObjectSchemas(Close(x)) = ObjectSchemas(x)
         /\ \A p \in ObjectSchemas(x) : Closing \in KeysAt(Close(x), p)
<1> DEFINE c == Close(x)
<1>0. x \in Trees /\ c \in Trees
  BY DictFacts, ClosedNodes
<1>1. ASSUME NEW t \in Trees
      PROVE  ObjectSchemas(t) = {p \in Paths : /\ Holds(t, p, "dict") /\ IsDict(t, p)
                                               /\ Kind(t, p) = "schema" /\ IsObject(t, p)}
  <2>1. Places(t) \subseteq Paths /\ \A p : Holds(t, p, "dict") => p \in Places(t)
    BY PlaceFacts DEF Holds
  <2>2. \A p : IsDict(t, p) => Holds(t, p, "dict")
    BY DEF IsDict
  <2> HIDE DEF IsDict
  <2> QED BY <2>1, <2>2 DEF ObjectSchemas
<1>2. ASSUME NEW p \in Paths
      PROVE  /\ Holds(c, p, "dict") <=> Holds(x, p, "dict")
             /\ IsDict(c, p) <=> IsDict(x, p)
             /\ IsObject(c, p) <=> IsObject(x, p)
             /\ Kind(c, p) = Kind(x, p)
  <2>1. \A q \in Paths : (IsDict(c, q) <=> IsDict(x, q)) /\ (IsList(c, q) <=> IsList(x, q))
    BY ClosedKeys
  <2>2. Kind(c, p) = Kind(x, p)
    BY <2>1, SameKind
  <2> QED BY <2>2, ClosedKeys
<1> HIDE DEF c
<1>3. ObjectSchemas(c) = ObjectSchemas(x)
  BY <1>0, <1>1, <1>2
<1>4. ASSUME NEW p \in ObjectSchemas(x) PROVE Closing \in KeysAt(c, p)
  <2>1. p \in Paths /\ Closing \in Keys
    BY <1>0, <1>1, SchemaAssumption DEF Closing
  <2>2. Closing \in KeysAt(x, p) \/ p \in Open(x)
    BY DEF Open
  <2> QED BY <2>1, <2>2, ClosedKeys DEF c
<1> QED BY <1>3, <1>4 DEF c

\* What is left of an object without all under a key.
LEMMA Pruned ==
  ASSUME NEW x \in Dicts, NEW k \in Keys
  PROVE  x \ Part(x, <<k>>) \in Dicts
<1> DEFINE r == <<k>>  y == x \ Part(x, r)
<1>0. /\ x \in Trees /\ << <<>>, "dict">> \in x /\ r \in Paths /\ <<>> \in Paths
      /\ Len(<<>>) = 0 /\ Len(r) = 1
  BY DictFacts DEF Paths
<1> HIDE DEF r
<1>1. \A m : m \in y <=> m \in x /\ ~IsPrefix(r, m[1])
  BY DEF Part
<1> HIDE DEF y
<1>2. y \in SUBSET (Paths \X (Leaves \cup {"dict"})) /\ \A m, n \in y : m[1] = n[1] => m = n
  BY <1>0, <1>1, TreeFacts
<1>3. ~IsPrefix(r, <<>>)
  BY <1>0, RootIsFirst
<1>4. << <<>>, "dict">> \in y
  BY <1>0, <1>1, <1>3
<1>5. ASSUME NEW n \in y, NEW p \in Paths, IsStrictPrefix(p, n[1]) PROVE <<p, "dict">> \in y
  <2>1. n \in x /\ n[1] \in Paths /\ <<p, "dict">> \in x
    BY <1>0, <1>1, <1>5, TreeFacts
  <2>2. ~IsPrefix(r, p)
    BY <1>0, <1>1, <1>5, <2>1, StrictPrefix, PrefixTransitive
  <2> QED BY <1>1, <2>1, <2>2
<1>6. \E n \in y : n[1] = <<>>
  BY <1>4
<1>7. y \in Trees
  BY <1>2, <1>5, <1>6, IsATree
<1> QED BY <1>4, <1>7 DEF Dicts, y, r

\* A schema is typed without a change to what it says, but that a type other than
\* object gives way where there are properties.
LEMMA TypedIs ==
  ASSUME NEW x \in Dicts
  PROVE  /\ Typed(x) \in Dicts
         /\ x \ Typed(x) \subseteq IF "properties" \in KeysAt(x, <<>>) /\ ~SaysObject(x, <<>>)
                                   THEN Part(x, <<"type">>) ELSE {}
         /\ Typed(x) \ x \subseteq {<< <<"type">>, "object">>}
         /\ "properties" \in KeysAt(Typed(x), <<>>) => SaysObject(Typed(x), <<>>)
<1> DEFINE kept == x \ Part(x, <<"type">>)  node == << <<"type">>, "object">>
           y == kept \cup {node}
<1>0. /\ x \in Trees /\ <<>> \in Paths /\ Len(<<>>) = 0 /\ "type" \in Keys /\ "object" \in Leaves
      /\ <<"type">> \in Paths /\ Len(<<"type">>) = 1
      /\ kept \in Dicts /\ kept \in Trees /\ << <<>>, "dict">> \in kept
  <2>1. "type" \in Keys
    BY SchemaAssumption
  <2> QED BY <2>1, DictFacts, Pruned, SchemaAssumption DEF Paths
<1>1. <<"type">> = Append(<<>>, "type") /\ <<>> \o <<"type">> = <<"type">>
  BY <1>0, Appended, ConcatEmptySeq DEF Paths
<1>2. CASE "type" \in KeysAt(x, <<>>) /\ ("properties" \in KeysAt(x, <<>>) => SaysObject(x, <<>>))
  BY <1>2 DEF Typed
<1>3. CASE ~("type" \in KeysAt(x, <<>>) /\ ("properties" \in KeysAt(x, <<>>) => SaysObject(x, <<>>)))
  <2>1. Typed(x) = y
    BY <1>3 DEF Typed
  <2>2. y \in Dicts
    <3>1. \A m \in kept : m[1] # <<"type">>
      BY <1>0, StrictPrefix DEF Part
    <3> HIDE DEF kept
    <3>2. node \in Paths \X (Leaves \cup {"dict"}) /\ node[1] = <<"type">>
      BY <1>0
    <3>3. y \in SUBSET (Paths \X (Leaves \cup {"dict"}))
      BY <1>0, <3>2 DEF Trees
    <3>4. \A m, n \in y : m[1] = n[1] => m = n
      <4> SUFFICES ASSUME NEW m \in y, NEW n \in y, m[1] = n[1] PROVE m = n
        OBVIOUS
      <4>1. CASE m \in kept /\ n \in kept
        BY <1>0, <4>1, TreeFacts
      <4> QED BY <3>1, <3>2, <4>1
    <3>5. ASSUME NEW n \in y, NEW p \in Paths, IsStrictPrefix(p, n[1]) PROVE <<p, "dict">> \in y
      <4>1. CASE n \in kept
        BY <1>0, <3>5, <4>1, TreeFacts
      <4>2. CASE n = node
        <5>1. IsPrefix(p, <<>>)
          <6>1. IsStrictPrefix(p, Append(<<>>, "type"))
            BY <1>1, <3>2, <3>5, <4>2
          <6>2. \A q \in Paths : IsStrictPrefix(q, Append(<<>>, "type")) <=> IsPrefix(q, <<>>)
            BY <1>0, Appended
          <6> QED BY <6>1, <6>2
        <5>2. p = <<>>
          BY <5>1, RootIsFirst
        <5> QED BY <1>0, <5>2
      <4> QED BY <4>1, <4>2
    <3>6. << <<>>, "dict">> \in y /\ \E n \in y : n[1] = <<>>
      BY <1>0
    <3>7. y \in Trees
      BY <3>3, <3>4, <3>5, <3>6, IsATree
    <3> QED BY <3>6, <3>7 DEF Dicts
  <2>3. "type" \notin KeysAt(x, <<>>) => Part(x, <<"type">>) = {}
    <3>1. "type" \in KeysAt(x, <<>>) <=> \E n \in x : IsPrefix(Append(<<>>, "type"), n[1])
      BY <1>0, KeysFacts
    <3> QED BY <1>1, <3>1 DEF Part
  <2>4. x \ y \subseteq Part(x, <<"type">>) /\ y \ x \subseteq {node}
    OBVIOUS
  <2>5. SaysObject(y, <<>>)
    BY <1>1 DEF SaysObject, Holds
  <2> QED BY <1>3, <2>1, <2>2, <2>3, <2>4, <2>5
<1> QED BY <1>2, <1>3

\* What is refused has a cause, and what is converted means what is read.
LEMMA Converted ==
  ASSUME NEW t \in Dicts, "defs" \in KeysAt(t, <<>>)
  PROVE  /\ ConvertSchema(t) = Raised <=> InlineRefs(t) = Raised
         /\ InlineRefs(t) # Raised =>
              /\ WithoutDefs(Reading(t)) \in Dicts
              /\ ConvertSchema(t) = Close(Typed(WithoutDefs(Reading(t))))
<1>1. t # EmptyDict
  <2>1. t \in Trees /\ <<>> \in Paths /\ Len(<<>>) = 0 /\ Append(<<>>, "defs") \in Places(t)
    BY DictFacts, PlaceFacts DEF Paths
  <2>2. PICK n \in t : n[1] = Append(<<>>, "defs")
    BY <2>1 DEF Places
  <2>3. n[1] # <<>>
    BY <2>2
  <2> QED BY <2>3 DEF EmptyDict
<1>2. CASE InlineRefs(t) = Raised
  BY <1>2 DEF ConvertSchema
<1>3. CASE InlineRefs(t) # Raised
  <2>1. InlineRefs(t) \in Dicts /\ InlineRefs(t) = Reading(t)
    BY <1>3, InlineRefsReads
  <2>2. ConvertSchema(t) = Close(Typed(WithoutDefs(Reading(t))))
    BY <1>1, <1>3, <2>1 DEF ConvertSchema
  <2>3. WithoutDefs(Reading(t)) \in Dicts
    BY <2>1, Pruned, SchemaAssumption DEF WithoutDefs
  <2>4. ConvertSchema(t) \in Dicts
    BY <2>2, <2>3, TypedIs, ClosedNodes
  <2>5. ConvertSchema(t) # Raised
    BY <2>4, DictFacts DEF Raised
  <2> QED BY <1>3, <2>2, <2>3, <2>5
<1> QED BY <1>2, <1>3

------------------------------------------------------------------------------
(* What is exported *)

Exports == setup \in Setups /\ exported \in {NoExport, ConvertSchema(setup.schema)}

LEMMA ExportsInductive == Exports /\ [Next]_vars => Exports'
<1> SUFFICES ASSUME Exports, [Next]_vars PROVE exported' \in {exported, ConvertSchema(setup.schema)}
  BY SetupStays DEF Exports
<1> QED BY DEF Next, ServerStep, EdgeStep, HostStep, vars, serverVars, hostVars, edgeVars,
       Backend, Written, Configure, Begin, Advertise, Listen, NextPass, Write, ListTool, MapSchema,
       Document, Goto, Export, CallFails, Register, Unregister, Event, OnRegister, Insert,
       OnUnregister, Callback

\* For any schema an export fails for a circle, a missing definition or too much depth
\* and for nothing else, unless a reference stands beside keys that hold references
\* (adapters/schema.py:178, 190).
THEOREM RefusalsHaveCause == Spec => []RefusedForCause
<1>1. Init => Exports
  BY DEF Init, Exports
<1>2. Exports => RefusedForCause
  <2> SUFFICES ASSUME Exports, Concluded
               PROVE  /\ Unending(setup.schema) => exported = Raised
                      /\ exported = Raised => Unending(setup.schema) \/ BesideRef(setup.schema)
    BY DEF RefusedForCause
  <2>1. setup.schema \in Dicts
    BY CatalogAssumption DEF Exports
  <2>2. "defs" \in KeysAt(setup.schema, <<>>) /\ exported = ConvertSchema(setup.schema)
    BY DEF Exports, Concluded
  <2>3. ConvertSchema(setup.schema) = Raised <=> InlineRefs(setup.schema) = Raised
    BY <2>1, <2>2, Converted
  <2> QED BY <2>1, <2>2, <2>3, InlineRefsReads
<1> QED BY <1>1, <1>2, ExportsInductive, PTL DEF Spec

\* For any schema what is exported is what following its references reads, the keys
\* beside a reference winning, but for the types and the closings that strict mode
\* adds (adapters/schema.py:105, 219).
THEOREM ExportsMeanTheSame == Spec => []ExportedMeansTheSame
<1>1. Init => Exports
  BY DEF Init, Exports
<1>2. Exports => ExportedMeansTheSame
  <2> SUFFICES ASSUME Exports, Concluded, exported # Raised PROVE ExportedMeansTheSame
    BY DEF ExportedMeansTheSame
  <2> DEFINE t == setup.schema  said == WithoutDefs(Reading(t))  typed == Typed(said)
             corrected == "properties" \in KeysAt(said, <<>>) /\ ~SaysObject(said, <<>>)
  <2>1. t \in Dicts
    BY CatalogAssumption DEF Exports
  <2>2. "defs" \in KeysAt(t, <<>>) /\ exported = ConvertSchema(t)
    BY DEF Exports, Concluded
  <2> HIDE DEF t
  <2>3. said \in Dicts /\ exported = Close(Typed(said))
    BY <2>1, <2>2, Converted
  <2> HIDE DEF said
  <2>4. /\ typed \in Dicts /\ typed \ said \subseteq {<< <<"type">>, "object">>}
        /\ said \ typed \subseteq IF corrected THEN Part(said, <<"type">>) ELSE {}
        /\ "properties" \in KeysAt(typed, <<>>) => SaysObject(typed, <<>>)
    BY <2>3, TypedIs
  <2>5. exported = Close(typed)
    BY <2>3
  <2> HIDE DEF typed, corrected
  <2>6. /\ exported \in Dicts /\ ObjectSchemas(exported) = ObjectSchemas(typed)
        /\ \A p \in ObjectSchemas(exported) : "additionalProperties" \in KeysAt(exported, p)
    BY <2>4, <2>5, ClosedNodes, ClosedObjects DEF Closing
  <2>7. /\ typed \subseteq exported
        /\ \A m \in exported \ typed :
             m \in {<<Append(p, "additionalProperties"), "false">> : p \in ObjectSchemas(exported)}
    <3>1. Open(typed) \subseteq ObjectSchemas(exported)
      BY <2>6 DEF Open
    <3>2. \A m : m \in exported <=>
            m \in typed \/ \E p \in Open(typed) : m = <<Append(p, "additionalProperties"), "false">>
      BY <2>4, <2>5, ClosedNodes DEF Closing
    <3> QED BY <3>1, <3>2
  <2>8. said \ exported \subseteq IF corrected THEN Part(said, <<"type">>) ELSE {}
    BY <2>4, <2>7
  <2>9. exported \ said \subseteq
          {<< <<"type">>, "object">>}
            \cup {<<Append(p, "additionalProperties"), "false">> : p \in ObjectSchemas(exported)}
    BY <2>4, <2>7
  <2>10. "properties" \in KeysAt(exported, <<>>) => SaysObject(exported, <<>>)
    <3>1. <<>> \in Paths /\ "properties" \in Keys /\ "properties" # Closing
      BY SchemaAssumption DEF Paths, Closing
    <3> QED BY <2>4, <2>5, <3>1, ClosedKeys
  <2> QED BY <2>6, <2>8, <2>9, <2>10 DEF ExportedMeansTheSame, said, corrected, t
<1> QED BY <1>1, <1>2, ExportsInductive, PTL DEF Spec
==============================================================================

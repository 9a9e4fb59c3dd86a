------------------------------- MODULE Dispatch -------------------------------
(***************************************************************************)
(* A tool call from handle_call_tool (server/factory.py) through the       *)
(* router's _dispatch, _handle_call_async and _handle_stream               *)
(* (server/router.py) back to _build_call_result.                          *)
(*                                                                         *)
(* The handler picks a route once.  The bridges answer for themselves      *)
(* (AsyncTasks, ApprovalStore); a submitted task is answered with an       *)
(* envelope; a plain call with one result; a stream sends each chunk as a  *)
(* notification, masked, and answers with the merge of the raw chunks,     *)
(* masked again.  What the tools advertise and which schemas mask their    *)
(* results are snapshots of the registry taken at the start, whether a     *)
(* module is async-hinted is looked up at each call.                       *)
(*                                                                         *)
(* Values, their merge and their masking are those of DeepMerge; Valid     *)
(* stands for the JSON schema validator.  Calls share nothing but the      *)
(* registry.                                                               *)
(* Texts, trace metadata and pipeline traces are left out.                 *)
(***************************************************************************)
EXTENDS DeepMerge

CONSTANTS
  Calls, Modules, TaskTools, ApprovalTools,
  WithSchema,      \* modules that declare an output schema
  ObjectSchema,    \* modules whose output schema is of an object
  Secrets,         \* the secret fields of each module's results
  Results,         \* values that modules return and yield
  Envelope,        \* what a submission is answered with
  Valid(_, _),
  Setups,          \* configurations of the server
  Replaceable,     \* modules that may be replaced, once each
  MaxChunks        \* bounds the chunks of a stream

Tools == Modules \cup TaskTools \cup ApprovalTools
Requests == [tool : Tools, progress : BOOLEAN, modern : BOOLEAN]

ASSUME DispatchAssumption ==
  /\ ObjectSchema \subseteq Modules /\ WithSchema \subseteq Modules /\ Replaceable \subseteq Modules
  /\ Modules \cap (TaskTools \cup ApprovalTools) = {}
  /\ Secrets \in [Modules -> SUBSET (Paths \ {<<>>})]
  /\ Results \subseteq Trees /\ Envelope \in Dicts
  /\ Setups \subseteq [tasks : BOOLEAN, approvals : BOOLEAN, streams : BOOLEAN,
                       redacts : BOOLEAN, plain : BOOLEAN]
  /\ MaxChunks \in Nat

\* apcore's redaction of what a module returns.
Redact(m, t) == Mask(t, Secrets[m])

VARIABLES
  setup,       \* the configuration
  hinted,      \* modules that are async-hinted now
  replaced,    \* history: modules replaced since the start
  advertised,  \* modules listed with an output schema
  masked,      \* _output_schema_map
  phase, request, \* of each call
  chunk,       \* of each stream, the chunk being sent
  message,     \* and the notification it is sent in
  acc,         \* accumulated
  delivered,   \* notifications the client has received
  seen,        \* history: the client's own merge of them
  accepted,    \* calls whose task the manager has accepted
  leaked,      \* history: calls for which redaction has failed
  answer       \* of each call

snapshotVars == <<setup, advertised, masked>>
streamVars == <<chunk, message, acc, delivered, seen>>
registryVars == <<hinted, replaced>>
vars == <<snapshotVars, registryVars, phase, request, streamVars, accepted, leaked, answer>>

NoTree == {}
NoAnswer == [error |-> FALSE, data |-> NoTree, structured |-> FALSE]
Error == [error |-> TRUE, data |-> NoTree, structured |-> FALSE]

\* Slip the runs must catch: async modules are listed with an output schema too.
ListedAll == ObjectSchema
\* build_tool: what build_tools lists with an output schema.
Listed == ObjectSchema \ hinted

Init ==
  /\ setup \in Setups
  /\ hinted \in SUBSET Modules /\ replaced = {}
  /\ advertised = Listed
  /\ masked = IF setup.redacts THEN WithSchema ELSE {}
  /\ phase = [c \in Calls |-> "idle"]
  /\ request \in [Calls -> Requests]
  /\ chunk = [c \in Calls |-> EmptyDict] /\ message = [c \in Calls |-> EmptyDict]
  /\ acc = [c \in Calls |-> EmptyDict]
  /\ delivered = [c \in Calls |-> <<>>] /\ seen = [c \in Calls |-> EmptyDict]
  /\ accepted = {} /\ leaked = {}
  /\ answer = [c \in Calls |-> NoAnswer]

------------------------------------------------------------------------------
(* Helpers *)

Tool(c) == request[c].tool
At(c, p) == phase[c] = p
Goto(c, p) == phase' = [phase EXCEPT ![c] = p]

IsBridgeTool(n) ==
  \/ setup.tasks /\ n \in TaskTools
  \/ setup.approvals /\ n \in ApprovalTools
IsTask(n) == setup.tasks /\ n \in hinted

\* _maybe_redact: it fails open.
MaybeRedact(c, t) ==
  IF Tool(c) \in masked THEN {Redact(Tool(c), t), t} ELSE {t}
Note(c, t, u) ==
  leaked' = IF Tool(c) \in masked /\ u # Redact(Tool(c), t) THEN leaked \cup {c} ELSE leaked

\* _format_result: a custom formatter's text is no JSON object, unless it fails.
IsJson == IF setup.plain THEN {TRUE} ELSE BOOLEAN

\* Slip the runs must catch: only objects are held against the schema.
ResultIfObject(c, t, json) ==
  LET structured == request[c].modern /\ json /\ t \in Dicts
      refused == structured /\ Tool(c) \in advertised /\ ~Valid(Tool(c), t)
  IN IF refused THEN Error ELSE [error |-> FALSE, data |-> t, structured |-> structured]

\* _build_call_result of a success: a client that knows structured output gets the
\* object, and an error without it when the advertised schema is not met.
Result(c, t, json) ==
  LET structured == request[c].modern /\ json /\ t \in Dicts
      refused == /\ request[c].modern /\ Tool(c) \in advertised
                 /\ ~(structured /\ Valid(Tool(c), t))
  IN IF refused THEN Error ELSE [error |-> FALSE, data |-> t, structured |-> structured]

Reply(c, a) == Goto(c, "answered") /\ answer' = [answer EXCEPT ![c] = a]
Quiet == UNCHANGED <<snapshotVars, registryVars, request>>

------------------------------------------------------------------------------
(* The routes *)

ToBridge(c) ==
  /\ At(c, "idle") /\ IsBridgeTool(Tool(c))
  /\ Goto(c, "bridge")
  /\ Quiet /\ UNCHANGED <<streamVars, accepted, leaked, answer>>

BridgeAnswers(c) ==
  /\ At(c, "bridge")
  /\ \/ Reply(c, Result(c, Envelope, TRUE)) \/ Reply(c, Error)
  /\ Quiet /\ UNCHANGED <<streamVars, accepted, leaked>>

ToTasks(c) ==
  /\ At(c, "idle") /\ ~IsBridgeTool(Tool(c)) /\ IsTask(Tool(c))
  /\ Goto(c, "submitting")
  /\ Quiet /\ UNCHANGED <<streamVars, accepted, leaked, answer>>

Submitted(c) ==
  /\ At(c, "submitting")
  /\ accepted' = accepted \cup {c}
  /\ Reply(c, Result(c, Envelope, TRUE))
  /\ Quiet /\ UNCHANGED <<streamVars, leaked>>

ToRouter(c) ==
  /\ At(c, "idle") /\ ~IsBridgeTool(Tool(c)) /\ ~IsTask(Tool(c))
  /\ Goto(c, IF setup.streams /\ request[c].progress THEN "streaming" ELSE "calling")
  /\ Quiet /\ UNCHANGED <<streamVars, accepted, leaked, answer>>

\* The lookup, the trace context or the input validation refuses the call.
Refuse(c) ==
  /\ At(c, "idle") /\ ~IsBridgeTool(Tool(c))
  /\ Reply(c, Error)
  /\ Quiet /\ UNCHANGED <<streamVars, accepted, leaked>>

\* The manager, the executor, the stream or a notification raises, or the stream
\* yields what is no dict.
Fail(c) ==
  /\ phase[c] \in {"submitting", "calling", "streaming", "sending"}
  /\ Reply(c, Error)
  /\ Quiet /\ UNCHANGED <<streamVars, accepted, leaked>>

\* The handler is cancelled at an await; nobody is answered.
Abort(c) ==
  /\ phase[c] \in {"bridge", "submitting", "calling", "streaming", "sending"}
  /\ Goto(c, "cancelled")
  /\ Quiet /\ UNCHANGED <<streamVars, accepted, leaked, answer>>

\* Slip the runs must catch: the result is checked before it is masked.
CalledCheckedFirst(c) ==
  /\ At(c, "calling") /\ Tool(c) \in Modules
  /\ \E t \in Results : \E u \in MaybeRedact(c, t), json \in IsJson :
       LET r == Result(c, t, json)
       IN Note(c, t, u) /\ Reply(c, IF r.error THEN r ELSE [r EXCEPT !.data = u])
  /\ Quiet /\ UNCHANGED <<streamVars, accepted>>

\* call_async returns.
Called(c) ==
  /\ At(c, "calling") /\ Tool(c) \in Modules
  /\ \E t \in Results : \E u \in MaybeRedact(c, t), json \in IsJson :
       Note(c, t, u) /\ Reply(c, Result(c, u, json))
  /\ Quiet /\ UNCHANGED <<streamVars, accepted>>

------------------------------------------------------------------------------
(* Streams *)

\* Slip the runs must catch: the isinstance check of chunks is dropped.
YieldedAny(c) ==
  /\ At(c, "streaming") /\ Tool(c) \in Modules /\ Len(delivered[c]) < MaxChunks
  /\ \E t \in Results : \E u \in MaybeRedact(c, t) :
       /\ chunk' = [chunk EXCEPT ![c] = t] /\ message' = [message EXCEPT ![c] = u]
       /\ Note(c, t, u)
  /\ Goto(c, "sending")
  /\ Quiet /\ UNCHANGED <<acc, delivered, seen, accepted, answer>>

\* The stream yields a chunk, and its notification, masked, is being sent.
Yielded(c) ==
  /\ At(c, "streaming") /\ Tool(c) \in Modules /\ Len(delivered[c]) < MaxChunks
  /\ \E t \in Results \cap Dicts : \E u \in MaybeRedact(c, t) :
       /\ chunk' = [chunk EXCEPT ![c] = t] /\ message' = [message EXCEPT ![c] = u]
       /\ Note(c, t, u)
  /\ Goto(c, "sending")
  /\ Quiet /\ UNCHANGED <<acc, delivered, seen, accepted, answer>>

\* Slip the runs must catch: the accumulated result wins over the chunk.
SentBehind(c) ==
  /\ At(c, "sending")
  /\ delivered' = [delivered EXCEPT ![c] = Append(@, message[c])]
  /\ seen' = [seen EXCEPT ![c] = Merge(@, message[c])]
  /\ acc' = [acc EXCEPT ![c] = Merge(chunk[c], @)]
  /\ Goto(c, "streaming")
  /\ Quiet /\ UNCHANGED <<chunk, message, accepted, leaked, answer>>

\* send_notification has returned: the raw chunk is merged.
Sent(c) ==
  /\ At(c, "sending")
  /\ delivered' = [delivered EXCEPT ![c] = Append(@, message[c])]
  /\ seen' = [seen EXCEPT ![c] = Merge(@, message[c])]
  /\ acc' = [acc EXCEPT ![c] = Merge(@, chunk[c])]
  /\ Goto(c, "streaming")
  /\ Quiet /\ UNCHANGED <<chunk, message, accepted, leaked, answer>>

\* Slip the runs must catch: chunks were masked, so the result is not masked again.
StreamEndsUnmasked(c) ==
  /\ At(c, "streaming") /\ Tool(c) \in Modules
  /\ \E json \in IsJson : Reply(c, Result(c, acc[c], json))
  /\ Quiet /\ UNCHANGED <<streamVars, accepted, leaked>>

StreamEnds(c) ==
  /\ At(c, "streaming") /\ Tool(c) \in Modules
  /\ \E u \in MaybeRedact(c, acc[c]), json \in IsJson :
       Note(c, acc[c], u) /\ Reply(c, Result(c, u, json))
  /\ Quiet /\ UNCHANGED <<streamVars, accepted>>

------------------------------------------------------------------------------
\* A module is replaced by one with or without an async hint.
Replace(m) ==
  /\ m \in Replaceable \ replaced
  /\ replaced' = replaced \cup {m}
  /\ hinted' = IF m \in hinted THEN hinted \ {m} ELSE hinted \cup {m}
  /\ UNCHANGED <<snapshotVars, phase, request, streamVars, accepted, leaked, answer>>

Next ==
  \/ \E c \in Calls :
       \/ ToBridge(c) \/ BridgeAnswers(c)
       \/ ToTasks(c) \/ Submitted(c)
       \/ ToRouter(c) \/ Refuse(c) \/ Fail(c) \/ Abort(c) \/ Called(c)
       \/ Yielded(c) \/ Sent(c) \/ StreamEnds(c)
  \/ \E m \in Modules : Replace(m)

Spec == Init /\ [][Next]_vars

Answered(c) == At(c, "answered") /\ ~answer[c].error

TypeOK ==
  /\ setup \in Setups
  /\ hinted \subseteq Modules /\ replaced \subseteq Modules /\ advertised \subseteq ObjectSchema /\ masked \subseteq WithSchema
  /\ phase \in [Calls -> {"idle", "bridge", "submitting", "calling", "streaming", "sending",
                          "answered", "cancelled"}]
  /\ request \in [Calls -> Requests]
  /\ chunk \in [Calls -> Dicts] /\ message \in [Calls -> Dicts]
  /\ acc \in [Calls -> Dicts] /\ seen \in [Calls -> Dicts]
  /\ delivered \in [Calls -> Seq(Dicts)]
  /\ accepted \subseteq Calls /\ leaked \subseteq Calls
  /\ answer \in [Calls -> [error : BOOLEAN, data : Trees \cup {NoTree}, structured : BOOLEAN]]

\* A client that merges the notifications of a stream as they arrive ends with the
\* answer, although notifications are masked one by one and the answer is the
\* masked merge of the raw chunks (server/router.py:787, 804).
StreamedAnswer ==
  \A c \in Calls :
    Answered(c) /\ delivered[c] # <<>> /\ c \notin leaked => answer[c].data = seen[c]

\* A secret field of a module's result reaches the client neither in a notification
\* nor in the answer, unless redaction itself failed.
NothingSecretLeaves ==
  \A c \in Calls :
    /\ Tool(c) \in masked /\ c \notin leaked /\ c \notin accepted
    => /\ \A i \in DOMAIN delivered[c] : Redact(Tool(c), delivered[c][i]) = delivered[c][i]
       /\ Answered(c) => Redact(Tool(c), answer[c].data) = answer[c].data

\* Where a tool is listed with an output schema, what a client that can read it gets
\* is an object, as masked, that meets it (server/factory.py:215-223).
AdvertisedIsKept ==
  \A c \in Calls :
    Answered(c) /\ request[c].modern /\ Tool(c) \in advertised
    => answer[c].structured /\ answer[c].data \in Dicts /\ Valid(Tool(c), answer[c].data)

\* Whoever starts a task gets its id: a tool that submits is not listed with an
\* output schema, which would turn the envelope into an error, unless its module was
\* replaced by an async one after it had been listed (server/factory.py:420-426).
SubmissionAnswered ==
  \A c \in accepted : Tool(c) \notin replaced => answer[c].data = Envelope

\* What a client has merged of a stream is the last write of every path it received,
\* in a merge that stops recursing at the cap (server/router.py:30-44 and 801).  The
\* docstring of _handle_stream says "accumulates via shallow merge"
\* (server/router.py:763-765); the class (line 60), the comment at the call (line 800)
\* and the code merge deeply, which is what is stated here.
MergeIsLastWrite ==
  \A c \in Calls : Nodes(seen[c]) = LastWrites(delivered[c])
==============================================================================

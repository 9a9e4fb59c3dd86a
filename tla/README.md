# A TLA+ model of apcore-mcp

apcore-mcp serves the modules of an apcore registry as MCP tools. This directory
holds TLA+ modules of the parts of the bridge in which order, failure and bounds
matter, the TLC configurations that check them on small instances, and TLAPS
proofs of their safety properties for every size.

## The system

Paths are relative to `src/src/apcore_mcp/`.

| component | state it keeps | operations | what makes it correct |
|---|---|---|---|
| cancel-token registry, `server/router.py` | `_cancel_tokens`, an ordered map of at most 4096 tokens | `handle_call` registers and releases, `cancel` signals or leaves a tombstone | a cancel reaches the call in flight under its id, or else waits for the next; the slot of a call ends with it |
| async task bridge, `server/async_task_bridge.py` | `_session_tasks`, `_progress_bindings`; the tasks themselves belong to apcore's manager | `submit`, meta tools, `cancel_session_tasks` | a session takes its tasks with it and leaves those of others alone |
| transports, `server/transport.py` | `transport_session_var` per connection | `_scoped_session`, `_run_scoped`, the three `run_*` and two `build_*` | every session is torn down once, and the teardown ends |
| tool-call handler, `server/factory.py` | none of its own | `handle_list_tools`, `handle_call_tool`, resources | each call takes exactly one route; what is listed agrees |
| approval store, handler and bridge, `approval_store.py`, `adapters/approval.py`, `server/approval_bridge.py` | `_records`, `_events`, timers, a sweep task | save, resolve, poll, wait, sweep, start, stop | decisions are kept long enough and never taken back; memory is bounded |
| call dispatch and streaming, `server/router.py` | an accumulator per streamed call | `_dispatch`, `_handle_call_async`, `_handle_stream`, `_deep_merge` | one result per call, redacted, with the chunks in order |
| stdio ownership, `_stdio.py` | the owner lock, the depth of the redirection, its poisoned flag | `stdio_output`, `output_scope`, `_diagnostic_scope` | one protocol channel at a time; diagnostics never reach it |
| server lifecycle, `server/server.py` | a thread, its loop, the `_started` and `_stop` events | `start`, `wait`, `stop` | `stop` stops it and `wait` returns |
| registry listener, `server/listener.py` | `_tools` | `_on_register`, `_on_unregister` | the tools follow the registry |
| configuration and assembly, `apcore_mcp.py`, `config.py`, `__init__.py` | the settings of one server | `APCoreMCP`, `serve`, `async_serve` | a server starts with what was configured, or not at all; whatever fails, what was acquired is released |
| command line, `__main__.py` | none | `main`, `_run` | bad arguments are refused before anything is started; what was asked for is what is served |
| authentication, `auth/`, `explorer/__init__.py` | `auth_identity_var`, an identity per context | `AuthMiddleware`, `JWTAuthenticator`, the explorer's hook | a tool runs under the identity verified for it; none is left behind |
| pure adapters, `adapters/`, `acl_builder.py`, `openapi_backend.py`, `converters/` | none | schema inlining, error mapping, names, rules | total functions that meet their reference |

Four interactions carry most of the risk. A tool call goes through
`handle_call_tool`, which either enters the router (registering a cancel token)
or hands the call to the task bridge, which outlives the request. A transport
brackets its session with `_scoped_session`, whose exit calls back into the
bridge and awaits the manager once per task. `serve` starts and stops the sweep
of the approval store, while the timers of the store belong to whichever event
loop was running when they were armed. The middleware publishes an identity in a
context variable, and a handler started in a copy of some context reads it.

What is hard to test: several handlers suspended at an await while a session
ends; cancellation delivered at any await; the same client-chosen id used by two
calls; a map at its cap; timers that outlive their purpose or die with their
loop; a server stopped while it starts. `PROJECT.json` lists each such place at
its line.

## Plan

| step | modules | state |
|---|---|---|
| 1. cancel tokens and their abstract specification | `CancelTokens`, `CancelPromise` | modelled, proved |
| 2. task bridge and transports together, and what a session promises | `AsyncTasks`, `TaskSessions` | modelled, safety and refinement proved |
| 3. approval store and handler, and the gate a poll sees | `ApprovalStore`, `ApprovalGate` | modelled, proved |
| 4. ownership of stdout and its abstract specification, an exclusive channel | `StdioOwnership`, `ExclusiveChannel` | modelled, proved |
| 5. server lifecycle, composed with 4 | `MCPServer` | modelled; safety proved, the refinement for one `stop` |
| 6. assembly, registry listener, ACL rules, errors, schemas, OpenAPI backend | `APCoreMCP`, `AclBuilder`, `ErrorMapper`, `SchemaConverter` | modelled, proved |
| 7. dispatch and streaming, the merge | `Dispatch`, `DeepMerge`, `JsonValues` | modelled, proved |
| 8. authentication: the identity of a request across tasks | `Authentication` | modelled, proved |
| 9. launch: command line, configuration and its precedence, cleanup; composed with 8 | `Launch` | modelled, proved |
| 10. names and their inverse | | to do |

`DeepMerge` and `SchemaConverter` recurse over data. They are written as recursive
functions over the paths of a JSON value, so that they can be proved about.

## The modules

Every component has an `MC_` module that gives its constants small values, and a
`...Proofs` module where something is proved. The operators marked as slips in a module are plausible
faults of the code; they are no part of `Next`, and each property is known to
fail when its slip takes the place of the right operator.

### CancelTokens

`slot` and `order` are the ordered map `_cancel_tokens`, `cancelled` the flag of
the token each call created. `Begin` is `handle_call` up to the dispatch,
`Finish` its `finally`, `CancelFound` and `CancelUnknown` the two branches of
`cancel`. Each runs under `_cancel_lock`, so each is one action. What happens
between `Begin` and `Finish` is not the registry's business. `owed` and `since`
are history variables: ids cancelled since their last release, and ids
registered while a call was running. `UniqueIds` says whether clients may use
one id for two calls at a time; they may, so only `Implements` and
`AllCancellable` assume not.

`CancelPromise` is the specification without a map: a set of ids somebody asked
to cancel. `CancelTokens` implements it when the map has room for every id and
ids are unique in flight, with the mapping `asked <- {i : Signalled(i)}`.

### AsyncTasks

One event loop: the code between two awaits is one action, and others run at an
await. A handler that submits goes through `Submit` (up to `await manager.submit`),
`Accept` or `Reject` (the manager's answer), and `Recorded` (binding, session list,
envelope); `Abort` is a handler cancelled at its await. The cancel tool is
`CancelTool` and `CancelToolDone`. A session is opened by `Connect`, ended by
`Disconnect`, and torn down by `Teardown` (the list is popped), `TeardownVisit` and
`TeardownResume` (each `await manager.cancel`), or cut short by
`TeardownInterrupted` when its scope is itself cancelled. The manager's tasks
(`Start`, `End`, `ManagerCancels`) are external: apcore's `AsyncTaskManager`, whose
`cancel` returns once the task has ended. So is the mcp library's `Server.run`,
which returns after its handlers have. The loop over the popped list is modelled
in any order, which includes the order of the code. The same routes exist a
second time in the router as a fallback when no handler took them; they call the
same bridge operations.

`TaskSessions` is what clients see of it: who owns a task, and what ends it. The
mapping forgets handlers, lists and bindings: a session is open until its list is
popped (`Phase`), a task runs from the moment the manager accepts it (`Life`), and a
session owns the tasks its hinted calls have answered (`Owned`). What a session that
is cut off leaves running is left open, as it is in the code; tasks of the meta route
have no owner.

### ApprovalStore

`status` is `_records`, `events` is `_events`, `waiting` the ids somebody awaits.
`RequestApproval` is `request_approval` up to the notify callback, with the
eviction and the insertion of `save_pending`, which does not suspend;
`Notified` is the return of the callback. `Resolve`, `Check`, `Wait` are the calls
of those names, `PendingTimer` and `ResolvedTimer` the two `call_later` callbacks,
`Sweep` one round of the sweep task. `Stop`, `EndLoop` and `Start` restart the
server: `async_serve` stops the sweep and leaves the loop to the application,
`serve` ends the loop, and with it the timers, waiters and suspended handlers.
Time is discrete and does not pass while something is due. A timer of a record
that is gone would do nothing, so it is dropped with the record. Two records of
one instant may be evicted in either order. The timeout of
`wait_for_resolution` is left out: it only takes waiters away.

`ApprovalGate` has neither timers nor loops: a verdict per approval, and the reasons
for which one may be forgotten. An id without a record is forgotten when it has been
asked for and unasked otherwise (`Verdict`); a restart of the server is invisible.

### StdioOwnership, ExclusiveChannel and MCPServer

`StdioOwnership` is `_stdio.py`. `lock` and `owner` are the process-wide claim,
`scope` the context variable `_owner_context` of each execution context, `users`
and `fd1` the shared redirection, `poisoned` its terminal state. What runs under
`_diagnostics_lock` is one action; a claim is `Claim` (the lock), `Own` (redirection
and owner) or `OwnRefused`, and is given up in the reverse order by `Disown`,
`Restore`, `Unlock`. `TransportEnter` and `TransportExit` are
`stdio_output(transport=True)` in the context of the claim or a copy of it
(`Inherit`: a task copies the context it was created in). `BootEnter` and `BootExit`
are the scope of `configured_output`. Flushing and `dup2` may fail.

`ExclusiveChannel` is what the process promises with all this: who is inside a
transport, at most one; where stdout leads while somebody is; that it leads back
once nobody is, unless it was spoilt, and then never again. `StdioOwnership`
implements it (`ImplementsChannel`), by itself when there are only hosts
(`StdioSpec`) and composed with the server.

`MCPServer` extends it with `server/server.py`: a thread that claims stdout, builds
the application, serves on a loop of its own, finalizes, closes the loop and leaves
the scope; its error path (`Except`, `Signal`); `start`, `wait` and callers of `stop`.
The serving task is a context on the same thread. A stop is two actions, the
check of `_loop` with `call_soon_threadsafe` and its effect on the loop. The hosts
beside it are other programs of the process that use stdout.

Left out: scopes nested in a claim that are no transport, which change nothing; a
second caller of `start`; `_stopped`, which is set and never read.

### Dispatch and DeepMerge

One state machine per call, from `handle_call_tool` over the approval bridge, the
task bridge (whose inside is `AsyncTasks`) or the router back to
`_build_call_result`. A handler suspends where `phase` changes: `ToTasks` and
`Submitted` stand around `await bridge.submit`, `Yielded` and `Sent` around the
notification of one chunk. `acc` is `accumulated`, `seen` a history variable: the
merge the client makes of its notifications. `Fail` and `Abort` end a call at any
await. Chunks and results are any JSON values of a given set, secret fields any
paths; only whether a result is valid is a choice of the instance.

`JsonValues` has a value as the set of its nodes: a path of keys and what is there,
a leaf or `"dict"`. `DeepMerge` gives `_deep_merge` with its depth cap as a recursive
function over the paths at which both objects have a dict, the masking of secret
fields, and a reference without recursion: the last write of each path
(`LastWrites`).

### APCoreMCP, AclBuilder, ErrorMapper, SchemaConverter

`APCoreMCP` follows `__init__` and `_build_serve_coro` in the thread that starts the
server: `Backend` and `Write` are the OpenAPI backend up to its preflight and each
registration after it, `Configure` the Config Bus and the ACL, `Begin`, `ListTool`,
`NextPass`, `MapSchema`, `Document` and `Advertise` the four listings of the
registry (tools, schemas that mask, resources, surfaces), `Listen` the two
subscriptions. `Export` and `CallFails` ask for the OpenAI tools and for the
envelope of an error. Host threads change the registry in between and run the
listener's callbacks, `OnRegister` before and `Insert` under the lock. `written`,
`raced`, `announced` and `vanished` are history variables. The other three modules
are pure operators: the checks of each access rule in their order, the dispatch on
errors, and the conversion of schemas.

In `SchemaConverter` a schema is a JSON value; a list is an object with one item,
under the key `"*"`, since what is done to one item is done to all. `InlineRefs` is
a recursive function of a place in the schema, the names followed on the way
(`seen_refs`) and the depth. The reference, `Reading`, knows no such set. It visits
places step by step, each for a path of the result: from a node to its children and
from a reference to its definition, while what stands beside a reference hides what
the definition has under the same keys. `Unending` says that visits go on below the
depth limit or meet a definition that is missing. `Kind` is how the code comes to
take a node for a schema: a `default` or an `enum` is not closed.

### Authentication and Launch

`Authentication` follows HTTP requests. `var` is `auth_identity_var` in each context;
a context (`worker`) is whatever the ASGI server runs a request in, and may carry
one request after another. `Check`, `CheckExempt` and `CancelCheck` are the
middleware up to its `await self._app`, `Leave` its `finally`; `Hook`, `ExplorerCall`
and `Unhook` are a call of the explorer inside it. `OpenSession` and `Post` are the
two sides of an SSE connection, or of the one session of a Streamable HTTP
application; `Handle` is the handler of a message, in a copy of the context of its
sender or of the session's task: that choice is the mcp library's (`carries`), and
both are checked. A token is reduced to its scheme, to whether it verifies and to
whom it names; another authenticator may answer anything and raise. `verified` and
`confirmed` are history variables. `policy` is what the application was built with.

`Launch` extends it with the way there: `Select` is `configured_output` with the
first load of the Config Bus, `CheckArgs` the refusals of the command line in their
order, `Construct` the second load (`__init__`), `Configure` the third (`serve`),
`Build` the application under the `AuthPolicy` that results; then hooks, store and
transport, `Serve` for the requests, and every `finally` on the way back. Each step
may fail, and `Edit` changes the configuration between two loads. `claim` is
whoever has stdout, in less detail than `StdioOwnership` has it. `eff` is what a launch
goes by after `Configure`: transport, host, port, and whether there is an explorer and
under which prefix (`"own"` to it, `"shared"` with the paths of messages, or `"bare"`,
without its slash, which Starlette does not mount). `async_serve` is the
entry `"embed"`: it reads the Config Bus in `__init__` only, and leaves stdout and the
hooks to its host.

## What the runs check

| run | instance | what it shows |
|---|---|---|
| `cancel_registry` | 3 calls, 3 ids, a map of 2 | five invariants; two entries and three ids make eviction, reuse and overlap happen |
| `cancel_promise` | 3 calls, 2 ids, a map of 2 | the registry implements `CancelPromise` |
| `cancel_overlap` | the same, ids reused | finding: two calls of one id, the second cannot be cancelled |
| `async_tasks` | 2 handlers, one per route, 2 sessions, 2 tasks | four invariants, every disconnect ends, under fairness, and the bridge implements `TaskSessions`; 2 sessions compete for a task |
| `async_disconnect` | 3 handlers, 2 sessions, 2 tasks | finding: a task of `__apcore_task_submit` survives its session |
| `approval_store` | 3 approvals, cap 2, both TTLs 1, 3 ticks | two invariants, two action properties, and the store implements `ApprovalGate` |
| `approval_decision` | 3 approvals, cap 2, both TTLs 2 | finding: a decision deleted by the timer of the pending record |
| `server_lifecycle` | a server, its task, a host with a task, one `stop` | `start` reports failures, the whole implements `ExclusiveChannel`, `stop` stops under fairness |
| `server_stop` | the same, two calls of `stop` | finding: the second cuts the cleanup short and stdout is released early |
| `dispatch` | one call, two modules, both bridges, streams of 3 chunks of 3 levels, a merge capped at 1 | six invariants over all 32 configurations |
| `server_assembly` | 5 modules (one system, one unbuildable, one reserved), 2 host threads, 3 events | seven invariants over five families of configurations |
| `launch` | 3 900 situations without requests; 8 launches with 2 requests in 2 contexts under 2 identities; 1 edit | six invariants of the way up, of the requests and of the way down; the prefix of the explorer comes from either source and is of each kind |

Requests, ids and clocks are finite in the instances, so the models of tasks and
approvals may stop; deadlock is not an error there, nor where a server has stopped
or a call has been answered. The bounds in guards are `MaxTime` (`Tick`), long
enough for a record to be decided at its last instant, to expire, and to be swept
after a restart; `MaxChunks` (`Yielded`), enough for an object to be written, replaced by a
leaf, and written again; `MaxEvents` (`Event`), enough for a module to go,
come back and go again, or for two threads to race. `MaxDepth` and `MaxRefDepth` are
the code's own caps, lowered so that the small values of the instances reach them.
One call is enough in `dispatch` because calls share nothing but the registry. Calls, handlers and approvals are each
used once, so a repeated client is several of them. In `launch` one edit is enough to
tell each load of the configuration from the next, two requests to follow each other
in a context, to share a session or to nest, and two identities to be confused.
Situations with requests and those with refusals are separate, since what refuses a
launch never meets a request. Symmetry is used in the runs
that check safety only, over sets whose members the specification never tells
apart.

Fairness (`AsyncTasks`): the event loop resumes each handler and each teardown
that can go on, and the manager delivers each cancellation it was asked for.
Clients, callbacks and the modules themselves owe nothing: a task may run for
ever unless it is cancelled. Fairness is weak throughout, since a resumption
once possible stays possible.

Fairness (`MCPServer`): the server's thread runs, its loop runs a callback another
thread has scheduled on it, and a cancelled serving task finishes its cleanup.
Whoever calls `start` or `stop`, the serving task while nobody cancels it, and the
hosts owe nothing.

## What is proved

TLAPS proves every safety property of the passing runs for every value of the
constants that satisfies the named assumptions, which say where constants lie and
nothing of what the operators do with them. `ImplementsChannel` is proved of a
server with one caller of `stop`, which
is the instance `server_lifecycle` checks. Types and `PendingBounded` of the
approval store are proved and left out of its run, where `ImplementsGate` bounds the
undecided approvals.

Three of the four findings have a theorem that gives their extent: the statement
TLC refutes holds where the one thing the counterexample needs is excluded.
`AllCancellable` excludes ids used twice at a time and more ids than the map holds,
`HintedAreAllCancelled` the meta route, `OneStopCleansUp` a second `stop`. No condition
on the constants does the same for `DecisionKeptForTTL`, short of a `resolved_ttl` of 0:
an approval can always be decided so late that its pending timer comes first.

- `CancelTokensProofs`: `order` and `slot` describe one map; a stored token belongs
  to a call in flight; a stored signal is in `owed`. For `Cancellable` the
  invariant says more: the ids behind a call's own in `order` are all in
  `since[c]`, so that being evicted costs `MaxTokens` other ids.
  Initial states and steps map to `CancelPromise`, under the assumptions `Roomy`
  (the map holds every id) and `UniqueIds`; a call in flight then holds its slot
  (`SlotHeld`), which is also why it can be cancelled.
- `AsyncTasksProofs`: the invariant follows an answered task from the handler to
  `tracked`, from there to `doomed` and `victim`, until it has ended; and says that
  what a session tracks, it answered. The same invariant carries each step over to
  `TaskSessions`: `OneCreator` and `KnownTasks` give a task one owner, `SessionState`
  that a session closes when what it owns has ended.
- `ApprovalStoreProofs`: the invariant ties the timers, events and waiters to the
  status of their record and places the next sweep after the deadlines it has to
  meet; both action properties follow from it step by step, and so do the steps of
  `ApprovalGate`: whatever `Replace` takes away is the evicted record, or past a
  deadline (`DeletionForgets`).
- `JsonValuesProofs` has what the next two rest on. The provers have no induction over
  data; what takes its place is induction over a depth, in the form that the least
  number with a property exists or none has it (`LeastNatural`), and the fact that a
  function may be defined by its first value and each next one (`Iterates`). The rest
  is about paths and trees.
- `DispatchProofs`: for calls and streams of any number and length, JSON values of any
  shape, secret fields at any depth and any depth cap. `MergeIs` gives the recursive
  merge a closed form, the overlay and what of the base it does not erase, from the cap
  upwards: a level agrees with it if the level below does (`MergeStep`). With that
  form, `MaskMerge` says that masking chunks and masking their merge agree, and
  `MergeWrites` that one more merged chunk is one more write of each of its paths. The
  invariant then says that `seen` is the mask of `acc` while no redaction has failed,
  and that its nodes are the last writes of what was delivered.
- `APCoreMCPProofs`: for any catalogue of modules, configurations, host threads and
  number of events. Each property has an invariant of its own: what a pass has
  listed is done or still pending (`ListingInv`); a callback whose module no other
  event met finds the registry as its own event left it (`ListenerInv`); the ACL is
  the executor's until it is configured, and then the lemma `BuildFacts` says what is
  made of the rules.

  For schemas the theorem is `InlineRefsReads`: for any schema with definitions and any
  depth limit, what inlining builds is what the reference reads, or nothing; it builds
  nothing if reading does not end, and in no other case unless a reference stands beside
  keys that hold references. Inlining is defined everywhere because whatever it is at
  greater depths decides what it is at a depth (`InliningIs`). That all that is read is
  inlined goes by the steps from the root (`Reached`), that all that is inlined is read
  by the depth from the limit upwards (`ReadingGoesOn`). The hard part is that no schema
  is refused without need, since the code refuses a name it has followed before. While a
  name is in `seen` there is a way from its definition to the node (`Around`, kept by
  every step but the one beside a reference, which is the exception), so meeting it again
  means that the way can be taken without end (`Circles`): nothing that ends is refused
  (`InlinesWhatEnds`). For the rest, closing adds one key to each object schema and
  leaves what makes it one (`ClosedKeys`, `ClosedObjects`), and typing the root changes
  nothing but its type (`TypedIs`). `ExportsMeanTheSame` and `RefusalsHaveCause` follow.
- `MCPServerProofs`: for any number of hosts, tasks and threads, and a server beside
  them. The invariant has two parts, which need different things. `Balanced` says that
  lock, owner and the depth of the redirection describe one state: who is between
  `Claim` and `Unlock` holds the lock, and the counter counts the guards that stand. It
  survives every step of every program, however often the server is stopped, and
  `TypeCorrect` and, with `Reporting` for the thread, `FailuresAreReported` follow.
  `OneServes` says that the one transport is nested in the owner's scope. It needs
  whoever gives up ownership to have ended its transports: hosts do (`StdioIsExclusive`),
  a server does when `CleanupBeforeRelease` holds (`CleanServersAreExclusive`), and that
  holds with one caller of `stop` (`OneStopCleansUp`, by `Sheltered`: while the task
  serves, the loop that drives it is open and nobody is left to stop it). Together they
  give `ServerIsExclusive`.
- `LaunchProofs`: first authentication by itself, for any requests, contexts,
  credentials and policy. The invariant says what the variable of a context holds at
  each point of the request in it (what was verified, or what the hook confirmed), that
  a context has one request, and what each restores: the nested restorations then meet.
  Steps of a launch that are not the building of the application or a request leave
  authentication alone, so `LaunchImplements` carries these theorems over; the invariant
  of the launch itself says, for each step, what has been acquired, and that `eff` and
  `required` come from the present configuration while nobody has edited it.

Only model-checked: the liveness of `async_tasks` and `server_lifecycle`, which
needs fairness, and the four findings, which are counterexamples. A schema without
definitions or without anything is converted in the run, but the two properties and
their theorems speak of schemas that have definitions.

## Not modelled, and known limits

The components without a module are listed in `PROJECT.json` with their status.
Observations from reading the code that no run shows:

- The docstring of `cancel` calls a cancel after completion a no-op
  (`server/router.py:628`); it leaves a tombstone that cancels the next call of
  that id. `CancelPromise` describes what the code does, and `NoStaleCancellation`
  speaks of signals from before the last release of an id, not of these.
- The docstring of `_handle_stream` (`server/router.py:763-765`) and two remarks in
  its tests (`tests/server/test_router_stream.py:107` and 185) say that chunks are
  merged shallowly. The docstring of the class (line 60), the comment at the call
  (line 800) and the code (line 801) say deeply, down to the cap: `MergeIsLastWrite`
  is about that.
- Nothing under `src/src` calls `ExecutionRouter.cancel`.
- The "hard cap" of the approval store (`approval_store.py:61`) is exceeded when
  every stored record is resolved; `PendingBounded` is what holds.
- Step 5 of the approval flow (`server/approval_bridge.py:35`) needs an approval id
  that the router does not forward.
- `start()` and the thread: a `stop()` before the thread has made its loop is lost
  (`server/server.py:159`), which `StopStops` excepts; `_started` is set (line 221)
  before the transport binds, so `start()` may return and the port be in use;
  `start()` after a stop does nothing.
- That `run_stdio` is always inside an outer output scope is taken from its callers
  (`serve`, the server's thread, the command line).
- The bridge of the server is built without a redactor (`apcore_mcp.py:717`), and
  redaction needs a declared output schema.
- The router has a second copy of the bridge's routes, for calls that reach it
  directly; it is not modelled.
- In `dispatch` a replaced module changes its async hint only, and redaction masks
  whole fields by their path. Alias names (`factory.py:379`) are left out.
- `_inline_refs` reports a circle where there is none: beside a `$ref` the referenced
  name counts as visited, so `{"$ref": "#/$defs/A", "$defs": {"A": ..., "B":
  {"$ref": "#/$defs/A"}}}` is refused (`adapters/schema.py:190` and 219), although the
  docstring (line 176) announces an error for circles and depth only.
  `RefusedForCause` excepts these schemas (`BesideRef`). A definition that is missing
  raises a `KeyError`, not the `ValueError` of line 248. A `$ref` inside literal data (a
  `default`, an `enum`) is followed like any other, by the code and by `Reading`.
- One schema that cannot be converted fails the whole of `to_openai_tools`, where
  `build_tools` leaves the module out.
- The docstring of `main` (`__main__.py:212`) gives exit code 1 to an invalid port;
  `parser.error` exits with 2, as `Refusals` has it. A port in use makes uvicorn leave
  with `SystemExit(1)`, which `except Exception` (`__main__.py:403`) lets through.
- `serve` checks the explorer's prefix before the Config Bus replaces it
  (`apcore_mcp.py:975` and 1002), and does not check it at all when the Config Bus turns
  the explorer on: a prefix without its slash then fails the launch when the explorer is
  mounted (`Mountable`), if Starlette is as strict as it is taken to be. A prefix that
  other paths start with exempts them from authentication: `EnforcedAsLaunched` excepts
  it, whoever gave the prefix in effect (`eff.under = "shared"`).
- A key file that is blank makes no authenticator, and `--jwt-require-auth` then
  requires nothing (`__main__.py:342`).
- The three loads of the configuration are not compared. After an edit between them a
  transport may run that stdout was not prepared for; `ServedAsSelected` is about
  launches without one. A default of the namespace (`config.py:14`) replaces an argument
  if apcore's `Config.get` returns it; the model takes either for possible.
- Where the handlers of a Streamable HTTP session run in the context of its task, they
  see no identity: `ActsAsVerified` says so for `carries = FALSE`, and which of the two
  holds depends on the installed mcp library.
- "explicit kwargs always win" (`apcore_mcp.py:542`) is not so for name, log level,
  input validation and required authentication: the Config Bus value is assigned
  over the argument, and `serve` does the same with transport, host, port, explorer and
  its prefix. `Override` follows the code, and `EnforcedAsLaunched` with it. A configured log level is stored and never applied.
- A malformed ACL or middleware section is found after the OpenAPI document has been
  written to the caller's registry; a second attempt collides with it.
- The listener starts after the tools were listed, so a module registered between is
  in neither; its `tools` are read by nobody, and `tools/list` stays what it was at
  the start although `README.md:371` says `dynamic` rebuilds tools; it does not skip
  the read-only system modules as `build_tools` does; `async_serve` starts none.
- `ListenerFollows` excepts modules whose events met each other: the late insertion
  at `server/listener.py:90` may undo an unregistration.
- `start` and `stop` of the approval store, and `on_shutdown`, do not fail in `Launch`.
- `server_assembly` converts one schema per configuration, with scalar types and one
  keyword of each group; the location of a document, names, filters and the pipeline
  are not modelled. A resource is read from the listing it came from, or by one more
  tool call.

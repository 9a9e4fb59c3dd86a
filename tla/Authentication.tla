---------------------------- MODULE Authentication ----------------------------
(***************************************************************************)
(* Identity of HTTP requests (auth/, explorer/__init__.py, and the places  *)
(* that read it).  AuthMiddleware asks the authenticator who sends a       *)
(* request, publishes the answer in the context variable auth_identity_var *)
(* while the application runs, and puts back what it found.  An explorer   *)
(* call authenticates once more, inside.  Tools are run by handlers: the   *)
(* task of a session starts one for every message, in a copy of a context. *)
(*                                                                         *)
(* Whoever calls the ASGI application owns the context it runs in and may  *)
(* use it for one request after another.  Authenticators, the application  *)
(* between the middleware and the handlers and the mcp library are         *)
(* external; whether the library starts a handler in the context of the    *)
(* message's sender or of the session's task is part of the policy.        *)
(***************************************************************************)
CONSTANTS Requests,     \* HTTP requests
          Workers,      \* execution contexts that carry them
          Identities,
          Credentials,  \* what a request may present, see JWTAnswers
          None,         \* no identity
          Raised,       \* the authenticator raised
          Idle,         \* nothing ran, or not yet
          Main,         \* the one session of a Streamable HTTP application
          Unbuilt

Routes == {"plain", "open", "message", "explore"}

\* How the application is put together: see AuthPolicy in Launch.
Policy == [authenticator : {"none", "jwt", "custom"}, requires : BOOLEAN,
           exempt : SUBSET Routes, main : BOOLEAN, execute : BOOLEAN, carries : BOOLEAN]

ASSUME AuthAssumption ==
  /\ None \notin Identities /\ Raised \notin Identities \cup {None}
  /\ Idle \notin Identities \cup {None}
  /\ Main \notin Requests /\ Idle \notin Requests \cup {Main} \cup Workers
  /\ Idle \notin Credentials /\ Unbuilt \notin Policy
  /\ Credentials \subseteq [scheme : {"bearer", "other"}, token : {"blank", "bad", "good"},
                            id : Identities \cup {None}]

VARIABLES
  policy,     \* of the application, once it is built
  sessions,   \* open sessions: Main, or the requests that opened them
  var,        \* auth_identity_var in each context
  at,         \* where each request is
  worker,     \* the context it runs in
  route, credential,
  saved,      \* what the middleware restores
  hookSaved,  \* what the explorer's hook restores
  verified,   \* history: what the authenticator answered to the middleware
  confirmed,  \* history: what it answered to the hook
  sentTo,     \* the session its message went to
  carried,    \* the identity in the context its message was sent from
  acted       \* the identity its tool ran under

requestVars == <<at, worker, route, credential>>
toolVars == <<sentTo, carried, acted>>
authVars == <<policy, sessions, var, requestVars, saved, hookSaved, verified, confirmed, toolVars>>

AuthInit ==
  /\ policy = Unbuilt /\ sessions = {}
  /\ var = [w \in Workers |-> None]
  /\ at = [q \in Requests |-> "new"]
  /\ worker = [q \in Requests |-> Idle] /\ route = [q \in Requests |-> "plain"]
  /\ credential = [q \in Requests |-> Idle]
  /\ saved = [q \in Requests |-> None] /\ hookSaved = [q \in Requests |-> None]
  /\ verified = [q \in Requests |-> None] /\ confirmed = [q \in Requests |-> None]
  /\ sentTo = [q \in Requests |-> Idle]
  /\ carried = [q \in Requests |-> None] /\ acted = [q \in Requests |-> Idle]

Active == {"checking", "inApp", "hooked", "answered"}
Free(w) == \A q \in Requests : worker[q] = w => at[q] \notin Active
Goto(q, a) == at' = [at EXCEPT ![q] = a]
Here(q) == var[worker[q]]

Authenticates == policy.authenticator # "none"

------------------------------------------------------------------------------
(* What the authenticator may answer *)

\* JWTAuthenticator: a bearer token that decodes, has the claims required and
\* names somebody.  It may have expired by the time it is asked.
JWTAnswers(c) ==
  IF c.scheme = "bearer" /\ c.token = "good" THEN {c.id, None} ELSE {None}

\* Another one may answer anything, and raise.
Answers(q) ==
  IF policy.authenticator = "jwt" THEN JWTAnswers(credential[q])
  ELSE Identities \cup {None, Raised}

------------------------------------------------------------------------------
(* The application and its requests *)

BuildApp(p) ==
  /\ policy = Unbuilt
  /\ policy' = p
  /\ sessions' = IF p.main THEN {Main} ELSE {}
  /\ UNCHANGED <<var, requestVars, saved, hookSaved, verified, confirmed, toolVars>>

\* Without an authenticator there is no middleware.
Arrive(q) ==
  /\ policy # Unbuilt /\ at[q] = "new"
  /\ \E w \in Workers : Free(w) /\ worker' = [worker EXCEPT ![q] = w]
  /\ \E r \in Routes : (r = "open" => ~policy.main) /\ route' = [route EXCEPT ![q] = r]
  /\ \E c \in Credentials : credential' = [credential EXCEPT ![q] = c]
  /\ Goto(q, IF Authenticates THEN "checking" ELSE "inApp")
  /\ UNCHANGED <<policy, sessions, var, saved, hookSaved, verified, confirmed, toolVars>>

Exempt(q) == route[q] \in policy.exempt

Admit(q, i) ==
  /\ Goto(q, "inApp")
  /\ var' = [var EXCEPT ![worker[q]] = i]
  /\ saved' = [saved EXCEPT ![q] = Here(q)]
  /\ verified' = [verified EXCEPT ![q] = i]

TurnAway(q) == Goto(q, "done") /\ UNCHANGED <<var, saved, verified>>

\* An exempt path needs no identity, but has one if the authenticator finds it.
CheckExempt(q) ==
  /\ at[q] = "checking" /\ Exempt(q)
  /\ \E a \in Answers(q) : Admit(q, IF a = Raised THEN None ELSE a)
  /\ UNCHANGED <<policy, sessions, worker, route, credential, hookSaved, confirmed, toolVars>>

\* Slip the runs must catch: require_auth is not asked for.
CheckLeniently(q) ==
  /\ at[q] = "checking" /\ ~Exempt(q)
  /\ \E a \in Answers(q) : IF a = Raised THEN TurnAway(q) ELSE Admit(q, a)
  /\ UNCHANGED <<policy, sessions, worker, route, credential, hookSaved, confirmed, toolVars>>

\* Elsewhere an exception fails the request, and no identity is a 401 if one is required.
Check(q) ==
  /\ at[q] = "checking" /\ ~Exempt(q)
  /\ \E a \in Answers(q) :
       IF a = Raised \/ (a = None /\ policy.requires) THEN TurnAway(q) ELSE Admit(q, a)
  /\ UNCHANGED <<policy, sessions, worker, route, credential, hookSaved, confirmed, toolVars>>

\* The request is cancelled while the authenticator works.
CancelCheck(q) ==
  /\ at[q] = "checking"
  /\ TurnAway(q)
  /\ UNCHANGED <<policy, sessions, worker, route, credential, hookSaved, confirmed, toolVars>>

\* Slip the runs must catch: the identity is reset only when the application returns.
LeaveKeeping(q) ==
  /\ at[q] \in {"inApp", "answered"}
  /\ Goto(q, "done")
  /\ sessions' = sessions \ {q}
  /\ var' \in {var, [var EXCEPT ![worker[q]] = IF Authenticates THEN saved[q] ELSE @]}
  /\ UNCHANGED <<policy, worker, route, credential, saved, hookSaved, verified, confirmed, toolVars>>

\* The application returns, raises or is cancelled: the finally resets in any
\* case.  The session that an SSE request opened ends with it.
Leave(q) ==
  /\ at[q] \in {"inApp", "answered"}
  /\ Goto(q, "done")
  /\ sessions' = sessions \ {q}
  /\ var' = [var EXCEPT ![worker[q]] = IF Authenticates THEN saved[q] ELSE @]
  /\ UNCHANGED <<policy, worker, route, credential, saved, hookSaved, verified, confirmed, toolVars>>

------------------------------------------------------------------------------
(* Sessions and the handlers of their messages *)

\* GET /sse: the session runs in the context of this request.
OpenSession(q) ==
  /\ at[q] = "inApp" /\ route[q] = "open" /\ q \notin sessions
  /\ sessions' = sessions \cup {q}
  /\ UNCHANGED <<policy, var, requestVars, saved, hookSaved, verified, confirmed, toolVars>>

\* The message is handed to the task of the session.
Post(q) ==
  /\ at[q] = "inApp" /\ route[q] = "message" /\ sentTo[q] = Idle
  /\ \E s \in sessions : sentTo' = [sentTo EXCEPT ![q] = s]
  /\ carried' = [carried EXCEPT ![q] = Here(q)]
  /\ UNCHANGED <<policy, sessions, var, requestVars, saved, hookSaved, verified, confirmed, acted>>

\* The session of a Streamable HTTP application starts before there are requests.
SessionIdentity(s) == IF s = Main THEN None ELSE Here(s)

\* handle_call_tool passes the identity it reads; the router reads its own
\* context when it is given none.
Resolve(given, here) == IF given # None THEN given ELSE here

\* The handler reads the identity in the copy of a context it was started with.
Handle(q) ==
  /\ sentTo[q] \in sessions /\ acted[q] = Idle
  /\ LET i == IF policy.carries THEN carried[q] ELSE SessionIdentity(sentTo[q])
     IN  acted' = [acted EXCEPT ![q] = Resolve(i, i)]
  /\ UNCHANGED <<policy, sessions, var, requestVars, saved, hookSaved, verified, confirmed,
                 sentTo, carried>>

------------------------------------------------------------------------------
(* Explorer calls *)

\* Slip the runs must catch: the identity is confirmed but not published.
HookWithoutSet(q) ==
  /\ at[q] = "inApp" /\ route[q] = "explore" /\ policy.execute
  /\ IF Authenticates
     THEN \E a \in Answers(q) \cap Identities :
            /\ Goto(q, "hooked")
            /\ hookSaved' = [hookSaved EXCEPT ![q] = Here(q)]
            /\ confirmed' = [confirmed EXCEPT ![q] = a]
     ELSE Goto(q, "hooked") /\ UNCHANGED <<hookSaved, confirmed>>
  /\ UNCHANGED <<policy, sessions, var, worker, route, credential, saved, verified, toolVars>>

\* auth_hook: no identity, and the call is refused.
Hook(q) ==
  /\ at[q] = "inApp" /\ route[q] = "explore" /\ policy.execute
  /\ IF Authenticates
     THEN \E a \in Answers(q) :
            IF a \in {None, Raised} THEN Goto(q, "answered") /\ UNCHANGED <<var, hookSaved, confirmed>>
            ELSE /\ Goto(q, "hooked")
                 /\ var' = [var EXCEPT ![worker[q]] = a]
                 /\ hookSaved' = [hookSaved EXCEPT ![q] = Here(q)]
                 /\ confirmed' = [confirmed EXCEPT ![q] = a]
     ELSE Goto(q, "hooked") /\ UNCHANGED <<var, hookSaved, confirmed>>
  /\ UNCHANGED <<policy, sessions, worker, route, credential, saved, verified, toolVars>>

\* router.handle_call without extra
ExplorerCall(q) ==
  /\ at[q] = "hooked" /\ acted[q] = Idle
  /\ acted' = [acted EXCEPT ![q] = Resolve(None, Here(q))]
  /\ UNCHANGED <<policy, sessions, var, requestVars, saved, hookSaved, verified, confirmed,
                 sentTo, carried>>

\* The call is over, or is cancelled.
Unhook(q) ==
  /\ at[q] = "hooked"
  /\ Goto(q, "answered")
  /\ var' = [var EXCEPT ![worker[q]] = IF Authenticates THEN hookSaved[q] ELSE @]
  /\ UNCHANGED <<policy, sessions, worker, route, credential, saved, hookSaved, verified,
                 confirmed, toolVars>>

------------------------------------------------------------------------------
Request(q) ==
  \/ Arrive(q) \/ CheckExempt(q) \/ Check(q) \/ CancelCheck(q) \/ Leave(q)
  \/ OpenSession(q) \/ Post(q) \/ Handle(q)
  \/ Hook(q) \/ ExplorerCall(q) \/ Unhook(q)

AuthNext == (\E p \in Policy : BuildApp(p)) \/ (\E q \in Requests : Request(q))

AuthSpec == AuthInit /\ [][AuthNext]_authVars

Answered == Identities \cup {None}

AuthTypeOK ==
  /\ policy \in Policy \cup {Unbuilt} /\ sessions \subseteq Requests \cup {Main}
  /\ var \in [Workers -> Answered]
  /\ at \in [Requests -> {"new", "done"} \cup Active]
  /\ worker \in [Requests -> Workers \cup {Idle}] /\ route \in [Requests -> Routes]
  /\ credential \in [Requests -> Credentials \cup {Idle}]
  /\ saved \in [Requests -> Answered] /\ hookSaved \in [Requests -> Answered]
  /\ verified \in [Requests -> Answered] /\ confirmed \in [Requests -> Answered]
  /\ sentTo \in [Requests -> Requests \cup {Main, Idle}]
  /\ carried \in [Requests -> Answered] /\ acted \in [Requests -> Answered \cup {Idle}]

\* A tool runs as whoever was verified for it, however requests overlap in time
\* and follow one another in a context: an explorer call as the hook confirmed,
\* a message as its own request or, when handlers run in the session's context,
\* as the request that opened the session was (auth/middleware.py:97,
\* explorer/__init__.py:41, server/factory.py:548, server/router.py:601).
ActsAsVerified == \A q \in Requests : acted[q] # Idle =>
  acted[q] = IF route[q] = "explore" THEN confirmed[q]
             ELSE IF policy.carries THEN verified[q]
             ELSE IF sentTo[q] = Main THEN None ELSE verified[sentTo[q]]

\* Under require_auth no tool runs for a request on a path that is not exempt
\* unless its sender was identified, nor in a session whose opener was not; and
\* where there is an authenticator the explorer runs nothing anonymously, although
\* its paths are exempt (auth/middleware.py:89, explorer/__init__.py:39).
IdentityIsRequired == \A q \in Requests : acted[q] # Idle /\ Authenticates =>
  /\ route[q] = "explore" => acted[q] # None
  /\ policy.requires /\ ~Exempt(q) => verified[q] # None
  /\ policy.requires /\ sentTo[q] \in Requests /\ "open" \notin policy.exempt
       => verified[sentTo[q]] # None

\* A context that no request uses carries no identity, whatever way the last one
\* ended: refused, failed, cancelled at any await, in the hook or outside
\* (auth/middleware.py:101, explorer/__init__.py:45).
ContextsAreClean == \A w \in Workers : Free(w) => var[w] = None
==============================================================================

------------------------------ MODULE LaunchProofs -----------------------------
(***************************************************************************)
(* What Authentication guarantees for any number of requests, contexts,    *)
(* identities and policies, and that it is what requests meet however the  *)
(* server was launched: Launch implements it, and so has its properties.   *)
(*                                                                         *)
(* The invariant of Authentication says of each context that one request   *)
(* at most is in it and what it then carries (InContext), and of each      *)
(* request what its tool and its session may rely on (OfTool).  It needs   *)
(* no more than that the application is built before requests arrive.      *)
(* The invariant of Launch says what each step may rely on: what was read  *)
(* of the Config Bus as long as nobody edits it, and what is to be         *)
(* released.                                                               *)
(***************************************************************************)
EXTENDS Launch, TLAPS

------------------------------------------------------------------------------
(* Authentication *)

Admitted == {"inApp", "hooked", "answered"}

OneEach ==
  /\ \A q \in Requests : at[q] \in Active => worker[q] \in Workers
  /\ \A p, q \in Requests :
       at[p] \in Active /\ at[q] \in Active /\ worker[p] = worker[q] => p = q

\* What the context of a request carries, and what will be put back.
InContext(q) ==
  /\ at[q] \in {"new", "checking"} => verified[q] = None /\ confirmed[q] = None /\ saved[q] = None
  /\ at[q] = "checking" => Authenticates /\ Here(q) = None
  /\ at[q] \in {"inApp", "answered"} => Here(q) = verified[q] /\ saved[q] = None
  /\ at[q] = "hooked" => Here(q) = confirmed[q] /\ saved[q] = None
  /\ at[q] = "hooked" /\ Authenticates => hookSaved[q] = verified[q] /\ confirmed[q] # None
  /\ ~Authenticates => verified[q] = None /\ confirmed[q] = None
  /\ at[q] \in Admitted /\ Authenticates /\ policy.requires /\ ~Exempt(q) => verified[q] # None

Contexts == OneEach /\ ContextsAreClean /\ (\A q \in Requests : InContext(q))

\* What was sent and what has run.
OfTool(q) ==
  /\ at[q] \in {"new", "checking"} => sentTo[q] = Idle /\ acted[q] = Idle
  /\ at[q] # "new" => policy # Unbuilt /\ credential[q] \in Credentials
  /\ sentTo[q] # Idle => route[q] = "message" /\ carried[q] = verified[q] /\ at[q] \in Admitted \cup {"done"}
  /\ sentTo[q] # Idle /\ Authenticates /\ policy.requires /\ ~Exempt(q) => verified[q] # None
  /\ sentTo[q] \in Requests =>
       at[sentTo[q]] \in Admitted \cup {"done"} /\ route[sentTo[q]] = "open"
  /\ acted[q] # Idle /\ sentTo[q] = Idle =>
       route[q] = "explore" /\ at[q] \in {"hooked", "answered", "done"}
  /\ at[q] = "hooked" => route[q] = "explore"

SessionsAreLive ==
  /\ policy = Unbuilt => sessions = {}
  /\ \A s \in sessions \ {Main} : at[s] = "inApp" /\ route[s] = "open"

AInv == AuthTypeOK /\ Contexts /\ (\A q \in Requests : OfTool(q)) /\ SessionsAreLive
          /\ ActsAsVerified /\ IdentityIsRequired

------------------------------------------------------------------------------
LEMMA InitAInv == AuthInit => AInv
<1> SUFFICES ASSUME AuthInit PROVE AInv
  OBVIOUS
<1> USE AuthAssumption DEF AuthInit
<1>1. AuthTypeOK
  BY DEF AuthTypeOK, Routes, Answered
<1>2. Contexts
  <2>1. Authenticates \in BOOLEAN
    BY DEF Authenticates
  <2> QED BY <2>1 DEF Contexts, OneEach, ContextsAreClean, InContext, Active, Admitted, Free, Here
<1>3. SessionsAreLive /\ \A q \in Requests : OfTool(q)
  BY DEF SessionsAreLive, OfTool, Admitted
<1>4. ActsAsVerified /\ IdentityIsRequired
  BY DEF ActsAsVerified, IdentityIsRequired
<1> QED BY <1>1, <1>2, <1>3, <1>4 DEF AInv

LEMMA BuildKeepsAInv ==
  ASSUME AInv, NEW p \in Policy, BuildApp(p)
  PROVE  AInv'
<1> USE AuthAssumption DEF BuildApp
<1>0. \A q \in Requests : at[q] = "new"
  BY DEF AInv, OfTool
<1>1. AuthTypeOK'
  BY DEF AInv, AuthTypeOK, requestVars, toolVars
<1>2. ContextsAreClean' /\ OneEach'
  BY <1>0 DEF AInv, Contexts, OneEach, ContextsAreClean, Active, Free, requestVars
<1>3. ASSUME NEW q \in Requests PROVE InContext(q)'
  BY <1>0, <1>3 DEF AInv, Contexts, InContext, Admitted, requestVars, Here
<1>4. SessionsAreLive' /\ \A q \in Requests : OfTool(q)'
  BY <1>0 DEF AInv, AuthTypeOK, SessionsAreLive, OfTool, Admitted, requestVars, toolVars
<1>5. ActsAsVerified' /\ IdentityIsRequired'
  BY <1>0 DEF AInv, OfTool, ActsAsVerified, IdentityIsRequired, requestVars, toolVars
<1> QED BY <1>1, <1>2, <1>3, <1>4, <1>5 DEF AInv, Contexts

\* A request in flight: the application is there, and its context is its own.
LEMMA InFlight ==
  ASSUME AInv, NEW q \in Requests, at[q] \in Active
  PROVE  /\ policy \in Policy /\ worker[q] \in Workers
         /\ \A p \in Requests : at[p] \in Active /\ p # q => worker[p] # worker[q]
BY DEF AInv, AuthTypeOK, Contexts, OneEach, OfTool, Active

\* What a step leaves alone stays as it was.
LEMMA OtherContexts ==
  ASSUME AInv, NEW p \in Requests, policy' = policy, at'[p] = at[p], worker'[p] = worker[p],
         route'[p] = route[p], saved'[p] = saved[p], hookSaved'[p] = hookSaved[p],
         verified'[p] = verified[p], confirmed'[p] = confirmed[p],
         at[p] \in Active => var'[worker[p]] = var[worker[p]]
  PROVE  InContext(p)'
BY DEF AInv, Contexts, InContext, Admitted, Active, Here, Authenticates, Exempt

LEMMA ArriveKeepsAInv ==
  ASSUME AInv, NEW q \in Requests, Arrive(q)
  PROVE  AInv'
<1> USE AuthAssumption
<1>0. PICK w \in Workers : Free(w) /\ worker' = [worker EXCEPT ![q] = w]
  BY DEF Arrive
<1>1. AuthTypeOK'
  BY DEF AInv, AuthTypeOK, Arrive, Goto, Active, toolVars
<1>2. OneEach' /\ ContextsAreClean'
  BY <1>0 DEF AInv, AuthTypeOK, Contexts, OneEach, ContextsAreClean, Arrive, Goto, Active, Free
<1>3. ASSUME NEW p \in Requests PROVE InContext(p)'
  <2>1. CASE p = q
    <3>1. var[w] = None /\ worker'[q] = w /\ at'[q] = IF Authenticates THEN "checking" ELSE "inApp"
      BY <1>0 DEF AInv, AuthTypeOK, Contexts, ContextsAreClean, Arrive, Goto
    <3>2. verified[q] = None /\ confirmed[q] = None /\ saved[q] = None
      BY DEF AInv, Contexts, InContext, Arrive
    <3> QED BY <2>1, <3>1, <3>2 DEF InContext, Arrive, Here, Authenticates, Admitted
  <2>2. CASE p # q
    BY <2>2, OtherContexts DEF AInv, AuthTypeOK, Arrive, Goto
  <2> QED BY <2>1, <2>2
<1>4. SessionsAreLive' /\ \A p \in Requests : OfTool(p)'
  BY DEF AInv, AuthTypeOK, SessionsAreLive, OfTool, Arrive, Goto, Admitted, toolVars,
     Authenticates, Exempt
<1>5. ActsAsVerified' /\ IdentityIsRequired'
  BY DEF AInv, AuthTypeOK, OfTool, ActsAsVerified, IdentityIsRequired, Arrive, Goto, toolVars,
         Authenticates, Exempt
<1> QED BY <1>1, <1>2, <1>3, <1>4, <1>5 DEF AInv, Contexts

------------------------------------------------------------------------------
(* The middleware *)

\* A check that lets the request in, with the identity the context then carries.
LEMMA AdmitKeepsAInv ==
  ASSUME AInv, NEW q \in Requests, NEW i \in Answered, at[q] = "checking", Admit(q, i),
         i = None => Exempt(q) \/ ~policy.requires,
         UNCHANGED <<policy, sessions, worker, route, credential, hookSaved, confirmed, toolVars>>
  PROVE  AInv'
<1> USE AuthAssumption
<1>0. /\ at[q] \in Active /\ at' = [at EXCEPT ![q] = "inApp"]
      /\ var' = [var EXCEPT ![worker[q]] = i] /\ Here(q) = None
      /\ verified' = [verified EXCEPT ![q] = i] /\ saved' = [saved EXCEPT ![q] = None]
      /\ sentTo[q] = Idle /\ acted[q] = Idle /\ Authenticates
  BY DEF Admit, Goto, Active, AInv, Contexts, InContext, OfTool
<1>1. AuthTypeOK'
  BY <1>0 DEF AInv, AuthTypeOK, Active, Answered, toolVars
<1>2. OneEach' /\ ContextsAreClean'
  BY <1>0, InFlight DEF AInv, AuthTypeOK, Contexts, OneEach, ContextsAreClean, Active, Free
<1>3. ASSUME NEW p \in Requests PROVE InContext(p)'
  <2>1. CASE p = q
    BY <1>0, <2>1, InFlight DEF AInv, AuthTypeOK, Contexts, InContext, Here, Authenticates, Admitted, Exempt
  <2>2. CASE p # q
    BY <1>0, <2>2, InFlight, OtherContexts DEF AInv, AuthTypeOK
  <2> QED BY <2>1, <2>2
<1>4. SessionsAreLive' /\ \A p \in Requests : OfTool(p)'
  BY <1>0 DEF AInv, AuthTypeOK, SessionsAreLive, OfTool, Admitted, toolVars,
     Authenticates, Exempt
<1>5. ActsAsVerified' /\ IdentityIsRequired'
  BY <1>0 DEF AInv, AuthTypeOK, OfTool, ActsAsVerified, IdentityIsRequired, Admitted, toolVars,
              Authenticates, Exempt
<1> QED BY <1>1, <1>2, <1>3, <1>4, <1>5 DEF AInv, Contexts

\* A request that ends leaves its context as the middleware found it.
LEMMA EndKeepsAInv ==
  ASSUME AInv, NEW q \in Requests, at[q] \in Active, Goto(q, "done"),
         var' = [var EXCEPT ![worker[q]] = None], sessions' = sessions \ {q},
         UNCHANGED <<policy, worker, route, credential, saved, hookSaved, verified, confirmed, toolVars>>
  PROVE  AInv'
<1> USE AuthAssumption DEF Goto
<1>1. AuthTypeOK'
  BY DEF AInv, AuthTypeOK, Answered, toolVars
<1>2. OneEach' /\ ContextsAreClean'
  BY InFlight DEF AInv, AuthTypeOK, Contexts, OneEach, ContextsAreClean, Active, Free
<1>3. ASSUME NEW p \in Requests PROVE InContext(p)'
  <2>1. CASE p = q
    BY <2>1 DEF AInv, AuthTypeOK, Contexts, InContext, Authenticates, Admitted
  <2>2. CASE p # q
    BY <2>2, InFlight, OtherContexts DEF AInv, AuthTypeOK
  <2> QED BY <2>1, <2>2
<1>4. SessionsAreLive' /\ \A p \in Requests : OfTool(p)'
  BY DEF AInv, AuthTypeOK, SessionsAreLive, OfTool, Active, Admitted, toolVars,
     Authenticates, Exempt
<1>5. ActsAsVerified' /\ IdentityIsRequired'
  BY DEF AInv, ActsAsVerified, IdentityIsRequired, toolVars, Authenticates, Exempt
<1> QED BY <1>1, <1>2, <1>3, <1>4, <1>5 DEF AInv, Contexts

\* What the authenticator answers is an identity, none or an exception.
LEMMA AnswersAreKnown ==
  ASSUME NEW q \in Requests, credential[q] \in Credentials
  PROVE  Answers(q) \subseteq Answered \cup {Raised}
BY AuthAssumption DEF Answers, JWTAnswers, Answered

\* A request that is turned away had changed nothing.
LEMMA TurnAwayKeepsAInv ==
  ASSUME AInv, NEW q \in Requests, at[q] = "checking", TurnAway(q),
         UNCHANGED <<policy, sessions, worker, route, credential, hookSaved, confirmed, toolVars>>
  PROVE  AInv'
<1>1. at[q] \in Active /\ sessions' = sessions \ {q}
  BY AuthAssumption DEF AInv, SessionsAreLive, Active
<1>2. var' = [var EXCEPT ![worker[q]] = None]
  BY <1>1, InFlight DEF AInv, AuthTypeOK, Contexts, InContext, Here, TurnAway
<1> QED BY <1>1, <1>2, EndKeepsAInv DEF TurnAway

LEMMA MiddlewareKeepsAInv ==
  ASSUME AInv, NEW q \in Requests, CheckExempt(q) \/ Check(q) \/ CancelCheck(q) \/ Leave(q)
  PROVE  AInv'
<1>0. at[q] = "checking" => Answers(q) \subseteq Answered \cup {Raised}
  BY AnswersAreKnown DEF AInv, OfTool
<1>1. CASE CheckExempt(q)
  <2>1. PICK a \in Answers(q) : Admit(q, IF a = Raised THEN None ELSE a)
    BY <1>1 DEF CheckExempt
  <2>2. (IF a = Raised THEN None ELSE a) \in Answered
    BY <1>0, <1>1 DEF CheckExempt, Answered
  <2> QED BY <1>1, <2>1, <2>2, AdmitKeepsAInv DEF CheckExempt
<1>2. CASE Check(q)
  <2>1. PICK a \in Answers(q) :
          IF a = Raised \/ (a = None /\ policy.requires) THEN TurnAway(q) ELSE Admit(q, a)
    BY <1>2 DEF Check
  <2>2. CASE a = Raised \/ (a = None /\ policy.requires)
    BY <1>2, <2>1, <2>2, TurnAwayKeepsAInv DEF Check
  <2>3. CASE ~(a = Raised \/ (a = None /\ policy.requires))
    <3>1. a \in Answered
      BY <1>0, <1>2, <2>3 DEF Check
    <3> QED BY <1>2, <2>1, <2>3, <3>1, AdmitKeepsAInv DEF Check
  <2> QED BY <2>2, <2>3
<1>3. CASE CancelCheck(q)
  BY <1>3, TurnAwayKeepsAInv DEF CancelCheck
<1>4. CASE Leave(q)
  <2>1. at[q] \in Active /\ policy \in Policy
    BY <1>4, InFlight DEF Leave, Active
  <2>2. Authenticates => saved[q] = None
    BY <1>4 DEF Leave, AInv, Contexts, InContext
  <2>3. ~Authenticates => Here(q) = None
    BY <1>4 DEF Leave, AInv, Contexts, InContext
  <2>4. var' = [var EXCEPT ![worker[q]] = None]
    BY <1>4, <2>1, <2>2, <2>3, InFlight DEF Leave, Here, AInv, AuthTypeOK
  <2> QED BY <1>4, <2>1, <2>4, EndKeepsAInv DEF Leave
<1> QED BY <1>1, <1>2, <1>3, <1>4

------------------------------------------------------------------------------
(* Sessions and tools *)

LEMMA ToolKeepsAInv ==
  ASSUME AInv, NEW q \in Requests, OpenSession(q) \/ Post(q) \/ Handle(q) \/ ExplorerCall(q)
  PROVE  AInv'
<1> USE AuthAssumption
<1>1. /\ UNCHANGED <<policy, var, at, worker, route, credential, saved, hookSaved, verified, confirmed>>
      /\ at[q] # "new"
  BY DEF AInv, AuthTypeOK, OfTool, OpenSession, Post, Handle, ExplorerCall, requestVars
<1>2. Contexts'
  BY <1>1 DEF AInv, Contexts, OneEach, ContextsAreClean, InContext, Free, Here, Authenticates, Exempt
<1>3. CASE OpenSession(q)
  <2>1. AuthTypeOK'
    BY <1>1, <1>3 DEF AInv, AuthTypeOK, OpenSession, toolVars
  <2>2. SessionsAreLive' /\ \A p \in Requests : OfTool(p)'
    BY <1>1, <1>3 DEF AInv, SessionsAreLive, OfTool, OpenSession, toolVars,
     Authenticates, Exempt
  <2>3. ActsAsVerified' /\ IdentityIsRequired'
    BY <1>1, <1>3 DEF AInv, ActsAsVerified, IdentityIsRequired, OpenSession, toolVars,
                      Authenticates, Exempt
  <2> QED BY <1>2, <2>1, <2>2, <2>3 DEF AInv
<1>4. CASE Post(q)
  <2>0. PICK s \in sessions : sentTo' = [sentTo EXCEPT ![q] = s]
    BY <1>4 DEF Post
  <2>1. AuthTypeOK'
    BY <1>1, <1>4, <2>0, InFlight DEF AInv, AuthTypeOK, Post, Here, Active
  <2>2. s = Main \/ (s \in Requests /\ at[s] = "inApp" /\ route[s] = "open")
    BY <2>0 DEF AInv, AuthTypeOK, SessionsAreLive
  <2>3. SessionsAreLive' /\ \A p \in Requests : OfTool(p)'
    BY <1>1, <1>4, <2>0, <2>2 DEF AInv, AuthTypeOK, Contexts, InContext, SessionsAreLive, OfTool, Post, Admitted,
     Authenticates, Exempt
  <2>4. acted[q] = Idle
    BY <1>4 DEF AInv, OfTool, Post
  <2>5. ActsAsVerified' /\ IdentityIsRequired'
    BY <1>1, <1>4, <2>0, <2>4 DEF AInv, AuthTypeOK, ActsAsVerified, IdentityIsRequired, Post,
                      Authenticates, Exempt
  <2> QED BY <1>2, <2>1, <2>3, <2>5 DEF AInv
<1>5. CASE Handle(q)
  <2>0. PICK i : /\ i = IF policy.carries THEN carried[q] ELSE SessionIdentity(sentTo[q])
                 /\ acted' = [acted EXCEPT ![q] = i]
    BY <1>5 DEF Handle, Resolve
  <2>1. sentTo[q] = Main \/ (sentTo[q] \in Requests /\ at[sentTo[q]] = "inApp")
    BY <1>5 DEF Handle, AInv, AuthTypeOK, SessionsAreLive
  <2>2. i = IF policy.carries THEN verified[q]
            ELSE IF sentTo[q] = Main THEN None ELSE verified[sentTo[q]]
    BY <2>0, <2>1 DEF AInv, Contexts, InContext, OfTool, SessionIdentity
  <2>3. i \in Answered /\ sentTo[q] # Idle
    BY <2>1, <2>2 DEF AInv, AuthTypeOK, Answered
  <2>4. AuthTypeOK'
    BY <1>1, <1>5, <2>0, <2>3 DEF AInv, AuthTypeOK, Handle
  <2>5. SessionsAreLive' /\ \A p \in Requests : OfTool(p)'
    BY <1>1, <1>5, <2>0, <2>3 DEF AInv, AuthTypeOK, SessionsAreLive, OfTool, Handle, Admitted,
     Authenticates, Exempt
  <2>6. ActsAsVerified'
    BY <1>1, <1>5, <2>0, <2>2, <2>3 DEF AInv, AuthTypeOK, OfTool, ActsAsVerified, Handle
  <2>7. IdentityIsRequired'
    <3>1. sentTo[q] \in Requests => InContext(sentTo[q]) /\ route[sentTo[q]] = "open"
      BY DEF AInv, Contexts, OfTool
    <3>2. route[q] # "explore"
      BY <2>3 DEF AInv, OfTool
    <3>3. OfTool(q)
      BY DEF AInv
    <3> QED BY <1>1, <1>5, <2>0, <2>1, <2>3, <3>1, <3>2, <3>3 DEF AInv, AuthTypeOK, OfTool,
               IdentityIsRequired, Handle, InContext, Admitted, Authenticates, Exempt
  <2> QED BY <1>2, <2>4, <2>5, <2>6, <2>7 DEF AInv
<1>6. CASE ExplorerCall(q)
  <2>1. acted' = [acted EXCEPT ![q] = confirmed[q]] /\ route[q] = "explore"
    BY <1>6 DEF ExplorerCall, Resolve, AInv, Contexts, InContext, OfTool
  <2>2. AuthTypeOK'
    BY <1>1, <1>6, <2>1 DEF AInv, AuthTypeOK, ExplorerCall
  <2>3. SessionsAreLive' /\ \A p \in Requests : OfTool(p)'
    BY <1>1, <1>6, <2>1 DEF AInv, AuthTypeOK, SessionsAreLive, OfTool, ExplorerCall,
     Authenticates, Exempt
  <2>4. ActsAsVerified' /\ IdentityIsRequired'
    BY <1>1, <1>6, <2>1 DEF AInv, AuthTypeOK, Contexts, InContext, OfTool, ActsAsVerified, IdentityIsRequired,
        ExplorerCall, Authenticates, Exempt, Admitted
  <2> QED BY <1>2, <2>2, <2>3, <2>4 DEF AInv
<1> QED BY <1>3, <1>4, <1>5, <1>6

------------------------------------------------------------------------------
(* The hook of the explorer *)

LEMMA HookKeepsAInv ==
  ASSUME AInv, NEW q \in Requests, Hook(q) \/ Unhook(q)
  PROVE  AInv'
<1> USE AuthAssumption
<1>1. /\ UNCHANGED <<policy, sessions, worker, route, credential, saved, verified, toolVars>>
      /\ at[q] \in {"inApp", "hooked"} /\ at'[q] \in {"hooked", "answered"}
      /\ at' = [at EXCEPT ![q] = at'[q]] /\ route[q] = "explore"
  BY DEF Hook, Unhook, Goto, AInv, AuthTypeOK, OfTool
<1>2. at[q] \in Active /\ at'[q] \in Active /\ at[q] \in Admitted
  BY <1>1 DEF Active, Admitted
<1>3. /\ var' = [var EXCEPT ![worker[q]] = var'[worker[q]]] /\ var'[worker[q]] \in Answered
      /\ hookSaved' = [hookSaved EXCEPT ![q] = hookSaved'[q]] /\ hookSaved'[q] \in Answered
      /\ confirmed' = [confirmed EXCEPT ![q] = confirmed'[q]] /\ confirmed'[q] \in Answered
      /\ InContext(q)'
  <2>0. /\ policy \in Policy /\ worker[q] \in Workers
        /\ Answers(q) \subseteq Answered \cup {Raised} /\ InContext(q)
    BY <1>1, <1>2, InFlight, AnswersAreKnown DEF AInv, Contexts, OfTool
  <2>1. CASE Hook(q) /\ Authenticates
    <3>1. PICK a \in Answers(q) :
            IF a \in {None, Raised} THEN Goto(q, "answered") /\ UNCHANGED <<var, hookSaved, confirmed>>
            ELSE /\ Goto(q, "hooked")
                 /\ var' = [var EXCEPT ![worker[q]] = a]
                 /\ hookSaved' = [hookSaved EXCEPT ![q] = Here(q)]
                 /\ confirmed' = [confirmed EXCEPT ![q] = a]
      BY <2>1 DEF Hook
    <3>2. at[q] = "inApp" /\ Here(q) = verified[q]
      BY <2>0, <2>1 DEF Hook, InContext
    <3> QED BY <1>1, <2>0, <2>1, <3>1, <3>2 DEF AInv, AuthTypeOK, InContext, Here, Goto, Authenticates,
               Exempt, Admitted, Answered
  <2>2. CASE Hook(q) /\ ~Authenticates
    BY <1>1, <2>0, <2>2 DEF Hook, AInv, AuthTypeOK, InContext, Here, Goto, Authenticates, Admitted, Answered
  <2>3. CASE Unhook(q)
    BY <1>1, <2>0, <2>3 DEF Unhook, AInv, AuthTypeOK, InContext, Here, Goto, Authenticates, Exempt,
       Admitted, Answered
  <2> QED BY <2>1, <2>2, <2>3
<1>4. AuthTypeOK'
  BY <1>1, <1>2, <1>3 DEF AInv, AuthTypeOK, toolVars
<1>5. OneEach' /\ ContextsAreClean'
  <2>0. /\ OneEach /\ ContextsAreClean /\ worker' = worker /\ var \in [Workers -> Answered]
        /\ worker[q] \in Workers /\ at[q] \in Active
        /\ \A p \in Requests : at'[p] \in Active <=> at[p] \in Active
    BY <1>1, <1>2, InFlight DEF AInv, AuthTypeOK, Contexts
  <2>1. OneEach'
    BY <2>0 DEF OneEach
  <2>2. \A w \in Workers : Free(w)' <=> Free(w)
    BY <2>0 DEF Free
  <2>3. ContextsAreClean'
    BY <1>3, <2>0, <2>2 DEF ContextsAreClean, Free
  <2> QED BY <2>1, <2>3
<1>6. ASSUME NEW p \in Requests, p # q PROVE InContext(p)'
  BY <1>1, <1>2, <1>3, <1>6, InFlight, OtherContexts DEF AInv, AuthTypeOK
<1>7. SessionsAreLive' /\ \A p \in Requests : OfTool(p)'
  BY <1>1, <1>2 DEF AInv, AuthTypeOK, SessionsAreLive, OfTool, toolVars, Admitted, Authenticates, Exempt
<1>8. \A p \in Requests : acted[p] # Idle => confirmed'[p] = confirmed[p]
  <2>1. Hook(q) => acted[q] = Idle
    BY <1>1 DEF Hook, AInv, OfTool
  <2> QED BY <1>3, <2>1 DEF Unhook, AInv, AuthTypeOK
<1>9. ActsAsVerified' /\ IdentityIsRequired'
  BY <1>1, <1>8 DEF AInv, ActsAsVerified, IdentityIsRequired, toolVars, Authenticates, Exempt
<1> QED BY <1>3, <1>4, <1>5, <1>6, <1>7, <1>9 DEF AInv, Contexts

------------------------------------------------------------------------------
(* The theorems *)

LEMMA StepKeepsAInv == AInv /\ [AuthNext]_authVars => AInv'
<1> SUFFICES ASSUME AInv, [AuthNext]_authVars PROVE AInv'
  OBVIOUS
<1>1. ASSUME NEW p \in Policy, BuildApp(p) PROVE AInv'
  BY <1>1, BuildKeepsAInv
<1>2. ASSUME NEW q \in Requests, Request(q) PROVE AInv'
  BY <1>2, ArriveKeepsAInv, MiddlewareKeepsAInv, ToolKeepsAInv, HookKeepsAInv DEF Request
<1>3. CASE UNCHANGED authVars
  <2>1. AuthTypeOK' /\ Contexts'
    BY <1>3 DEF authVars, requestVars, toolVars, AInv, AuthTypeOK, Contexts, OneEach,
                ContextsAreClean, InContext, Free, Here, Authenticates, Exempt
  <2>2. SessionsAreLive' /\ \A q \in Requests : OfTool(q)'
    BY <1>3 DEF authVars, requestVars, toolVars, AInv, SessionsAreLive, OfTool, Authenticates, Exempt
  <2>3. ActsAsVerified' /\ IdentityIsRequired'
    BY <1>3 DEF authVars, requestVars, toolVars, AInv, ActsAsVerified, IdentityIsRequired,
                Authenticates, Exempt
  <2> QED BY <2>1, <2>2, <2>3 DEF AInv
<1> QED BY <1>1, <1>2, <1>3 DEF AuthNext

\* The invariant holds in every reachable state.
THEOREM Invariance == AuthSpec => []AInv
BY InitAInv, StepKeepsAInv, PTL DEF AuthSpec

\* Every variable keeps its type.
THEOREM TypeCorrect == AuthSpec => []AuthTypeOK
<1>1. AInv => AuthTypeOK
  BY DEF AInv
<1> QED BY <1>1, Invariance, PTL

\* A tool runs under the identity that was verified for it.
THEOREM VerifiedIdentities == AuthSpec => []ActsAsVerified
<1>1. AInv => ActsAsVerified
  BY DEF AInv
<1> QED BY <1>1, Invariance, PTL

\* No tool runs for somebody unidentified where an identity is required.
THEOREM IdentitiesAreRequired == AuthSpec => []IdentityIsRequired
<1>1. AInv => IdentityIsRequired
  BY DEF AInv
<1> QED BY <1>1, Invariance, PTL

\* No identity is left in a context.
THEOREM NothingIsLeft == AuthSpec => []ContextsAreClean
<1>1. AInv => ContextsAreClean
  BY DEF AInv, Contexts
<1> QED BY <1>1, Invariance, PTL

------------------------------------------------------------------------------
(* Launch *)

Early == {"invoked", "checking", "constructing", "configuring", "building", "hooking"}
Open == {"storing", "opening", "listening", "stopping", "shutting"}

\* What has been acquired.
Acquired ==
  /\ step \in Early => store = "idle" /\ hooks = {}
  /\ step \in Open => "shutdown" \notin hooks
  /\ step \in Open /\ launch.entry # "embed" /\ launch.hooks => "startup" \in hooks
  /\ launch.entry = "embed" => claim = "none" /\ hooks = {} /\ step \notin {"hooking", "shutting"}
  /\ step \in {"leaving", "exited"} => ("shutdown" \in hooks <=> "startup" \in hooks)
  /\ "startup" \in hooks => launch.hooks
  /\ store = "started" => launch.store /\ step \in {"opening", "listening", "stopping"}
  /\ step \in {"invoked", "exited"} => claim = "none"
  /\ claim = "transport" => step = "listening"

\* What was read, and the policy that came of it.
Read == edits = 0 =>
  /\ step \notin {"invoked", "stopping", "shutting", "leaving", "exited"} /\ launch.entry # "embed" =>
       /\ selected = ConfiguredTransport
       /\ claim = IF ConfiguredTransport = "stdio" THEN "scope" ELSE "none"
  /\ step \notin {"invoked", "checking", "constructing", "leaving", "exited"} =>
       required = Override(bus.requires, launch.requires)
  /\ step \in {"building", "hooking", "storing", "opening", "listening"} /\ launch.entry # "embed" =>
       eff.transport = ConfiguredTransport
  /\ step = "listening" /\ launch.entry # "embed" /\ eff.transport # "stdio" => LegalEndpoint

Policied == policy # Unbuilt =>
  /\ policy = AuthPolicy(policy.carries)
  /\ step \notin {"invoked", "checking", "constructing", "configuring", "building"}
  /\ edits = 0 => required = Override(bus.requires, launch.requires)

LInv == LaunchTypeOK /\ Acquired /\ Read /\ Policied

------------------------------------------------------------------------------
LEMMA InitLInv == Init => LInv
<1> SUFFICES ASSUME Init PROVE LInv
  OBVIOUS
<1>0. PICK s \in Situations : launch = s.launch /\ bus = s.bus
  BY DEF Init
<1>1. launch \in Launches /\ bus \in BusKeys
  BY <1>0, LaunchAssumption
<1>2. LaunchTypeOK
  BY <1>1, LaunchAssumption DEF Init, LaunchTypeOK, Launches
<1> QED BY <1>1, <1>2 DEF Init, AuthInit, LInv, Acquired, Read, Policied, Early, Open

LEMMA BusOverrides ==
  ASSUME LaunchTypeOK
  PROVE  /\ Override(bus.transport, launch.transport) \in Transports \cup {"unknown"}
         /\ Override(bus.host, launch.host) \in {"legal", "empty"}
         /\ Override(bus.port, launch.port) \in {"legal", "outOfRange"}
         /\ Override(bus.explorer, launch.explorer) \in BOOLEAN
         /\ Override(bus.under, launch.under) \in {"own", "shared", "bare"}
         /\ Override(bus.requires, launch.requires) \in BOOLEAN
BY DEF LaunchTypeOK, Launches, BusKeys, Override

\* Before the server is built.
LEMMA PreparingKeepsLInv ==
  ASSUME LInv, Edit \/ Select \/ CheckArgs \/ Construct \/ Configure
  PROVE  LInv'
<1> USE LaunchAssumption DEF LInv, Proceed, Fail, busVars, resourceVars
<1>1. CASE Edit
  <2>1. LaunchTypeOK'
    BY <1>1 DEF Edit, LaunchTypeOK
  <2>2. Acquired' /\ Read' /\ Policied'
    BY <1>1 DEF Edit, LaunchTypeOK, Acquired, Read, Policied, Early, Open, authVars
  <2> QED BY <2>1, <2>2
<1>2. CASE Select
  <2>1. LaunchTypeOK'
    BY <1>2, BusOverrides DEF Select, LaunchTypeOK, ConfiguredTransport
  <2>2. Acquired' /\ Read' /\ Policied'
    BY <1>2 DEF Select, Acquired, Read, Policied, Early, Open, authVars, ConfiguredTransport, LegalEndpoint
  <2> QED BY <2>1, <2>2
<1>3. CASE CheckArgs
  <2>1. LaunchTypeOK'
    <3>1. \A i \in 1..8 : Refusals[i].code \in {"exit1", "exit2"}
      BY DEF Refusals
    <3>2. Refused \subseteq 1..8
      BY DEF Refused, Refusals
    <3> QED BY <1>3, <3>1, <3>2 DEF CheckArgs, LaunchTypeOK
  <2>2. Acquired' /\ Read' /\ Policied'
    BY <1>3 DEF CheckArgs, Acquired, Read, Policied, Early, Open, authVars, ConfiguredTransport, LegalEndpoint
  <2> QED BY <2>1, <2>2
<1>4. CASE Construct
  <2>1. LaunchTypeOK'
    BY <1>4, BusOverrides DEF Construct, LaunchTypeOK
  <2>2. Acquired' /\ Read' /\ Policied'
    BY <1>4 DEF Construct, Acquired, Read, Policied, Early, Open, authVars, ConfiguredTransport, LegalEndpoint
  <2> QED BY <2>1, <2>2
<1>5. CASE Configure
  <2>1. LaunchTypeOK'
    BY <1>5, BusOverrides DEF Configure, LaunchTypeOK
  <2>2. Acquired' /\ Read' /\ Policied'
    BY <1>5 DEF Configure, Acquired, Read, Policied, Early, Open, authVars, ConfiguredTransport, LegalEndpoint
  <2> QED BY <2>1, <2>2
<1> QED BY <1>1, <1>2, <1>3, <1>4, <1>5

\* While it is built and served.
LEMMA ServingKeepsLInv ==
  ASSUME LInv, Build \/ OnStartup \/ StartStore \/ Listen \/ ListenFails
  PROVE  LInv'
<1> USE LaunchAssumption DEF LInv, Proceed, Fail, busVars, resourceVars
<1>0. launch.entry \in {"cli", "serve", "embed"}
  BY DEF LaunchTypeOK, Launches
<1>1. CASE Build
  <2>0. UNCHANGED <<launch, bus, edits, selected, required, eff, claim, store, hooks>>
    BY <1>1 DEF Build
  <2>1. LaunchTypeOK' /\ Acquired' /\ Read'
    BY <1>1, <2>0 DEF Build, LaunchTypeOK, Acquired, Read, Early, Open, ConfiguredTransport
  <2>2. ASSUME UNCHANGED policy PROVE Policied'
    BY <1>1, <2>2 DEF Build, Policied
  <2>3. ASSUME step' # "leaving", \E b \in BOOLEAN : BuildApp(AuthPolicy(b)) PROVE Policied'
    <3>1. PICK b \in BOOLEAN : policy' = AuthPolicy(b)
      BY <2>3 DEF BuildApp
    <3>2. policy'.carries = b
      BY <3>1 DEF AuthPolicy
    <3>3. step = "building" /\ step' \in {"storing", "hooking"}
      BY <1>1, <2>3 DEF Build
    <3>4. edits = 0 => required = Override(bus.requires, launch.requires)
      BY <3>3 DEF Read
    <3>5. AuthPolicy(b)' = AuthPolicy(b)
      BY <2>0 DEF AuthPolicy, Exempted, Served, Authenticator
    <3> QED BY <2>0, <3>1, <3>2, <3>3, <3>4, <3>5 DEF Policied
  <2> QED BY <1>1, <2>1, <2>2, <2>3 DEF Build, authVars
<1>2. CASE OnStartup
  BY <1>2 DEF OnStartup, LaunchTypeOK, Acquired, Read, Policied, Early, Open, authVars, ConfiguredTransport, AuthPolicy, Exempted, Served, Authenticator, LegalEndpoint
<1>3. CASE StartStore
  BY <1>3 DEF StartStore, LaunchTypeOK, Acquired, Read, Policied, Early, Open, authVars, ConfiguredTransport, AuthPolicy, Exempted, Served, Authenticator, LegalEndpoint
<1>4. CASE Listen
  BY <1>4 DEF Listen, MayListen, LaunchTypeOK, Acquired, Read, Policied, Early, Open, authVars, ConfiguredTransport, AuthPolicy, Exempted, Served, Authenticator, LegalEndpoint
<1>5. CASE ListenFails
  BY <1>5 DEF ListenFails, LaunchTypeOK, Acquired, Read, Policied, Early, Open, authVars, ConfiguredTransport, AuthPolicy, Exempted, Served, Authenticator, LegalEndpoint
<1> QED BY <1>1, <1>2, <1>3, <1>4, <1>5

LEMMA EndingKeepsLInv ==
  ASSUME LInv, TransportEnds \/ StopStore \/ OnShutdown \/ Release
  PROVE  LInv'
<1> USE LaunchAssumption DEF LInv, Proceed, busVars, LaunchTypeOK, Acquired, Read, Policied, Early, Open,
                             authVars, ConfiguredTransport, AuthPolicy, Exempted, Served, Authenticator, LegalEndpoint
<1>1. CASE TransportEnds
  BY <1>1 DEF TransportEnds
<1>2. CASE StopStore
  BY <1>2 DEF StopStore
<1>3. CASE OnShutdown
  BY <1>3 DEF OnShutdown
<1>4. CASE Release
  BY <1>4 DEF Release
<1> QED BY <1>1, <1>2, <1>3, <1>4

\* A request changes nothing of the launch, and never the policy.
LEMMA ServeKeepsLInv ==
  ASSUME LInv, Serve \/ UNCHANGED vars
  PROVE  LInv'
<1>1. UNCHANGED launchVars
  BY DEF Serve, vars
<1>2. policy' = policy
  BY DEF Serve, vars, authVars, Request, Arrive, CheckExempt, Check, CancelCheck, Leave, OpenSession,
         Post, Handle, Hook, ExplorerCall, Unhook
<1> QED BY <1>1, <1>2 DEF launchVars, busVars, resourceVars, LInv, LaunchTypeOK, Acquired, Read, Policied,
    ConfiguredTransport, AuthPolicy, Exempted, Served, Authenticator, LegalEndpoint

LEMMA LaunchKeepsLInv == LInv /\ [Next]_vars => LInv'
BY PreparingKeepsLInv, ServingKeepsLInv, EndingKeepsLInv, ServeKeepsLInv DEF Next

\* What the steps of a launch rely on holds throughout.
THEOREM LaunchInvariance == Spec => []LInv
BY InitLInv, LaunchKeepsLInv, PTL DEF Spec

------------------------------------------------------------------------------
(* Launch implements Authentication *)

LEMMA PolicyIsOne ==
  ASSUME LaunchTypeOK, NEW b \in BOOLEAN
  PROVE  AuthPolicy(b) \in Policy
<1>1. Exempted \subseteq Routes
  BY DEF LaunchTypeOK, Launches, Exempted, Routes
<1>2. /\ Authenticator \in {"none", "jwt", "custom"} /\ required \in BOOLEAN
      /\ eff.explorer \in BOOLEAN /\ launch.execute \in BOOLEAN
  BY DEF LaunchTypeOK, Launches, Authenticator
<1> QED BY <1>1, <1>2 DEF AuthPolicy, Policy

LEMMA LaunchStep == LInv /\ [Next]_vars => [AuthNext]_authVars
<1> SUFFICES ASSUME LInv, [Next]_vars PROVE [AuthNext]_authVars
  OBVIOUS
<1>1. CASE Build
  <2>1. CASE \E b \in BOOLEAN : BuildApp(AuthPolicy(b))
    BY <2>1, PolicyIsOne DEF LInv, AuthNext
  <2> QED BY <1>1, <2>1 DEF Build
<1>2. CASE Serve
  BY <1>2 DEF Serve, AuthNext, LInv, LaunchTypeOK, Launches
<1>3. CASE UNCHANGED authVars
  BY <1>3
<1> QED BY <1>1, <1>2, <1>3 DEF Next, vars, Edit, Select, CheckArgs, Construct, Configure, OnStartup,
    StartStore, Listen, ListenFails, TransportEnds, StopStore, OnShutdown, Release

\* Whatever the launch, the requests it serves behave as Authentication says.
THEOREM LaunchImplements == Spec => AuthSpec
<1>1. Init => AuthInit
  BY DEF Init
<1> QED BY <1>1, LaunchStep, LaunchInvariance, PTL DEF Spec, AuthSpec

LEMMA BothInvariants == Spec => [](LInv /\ AInv)
BY LaunchInvariance, LaunchImplements, Invariance, PTL

------------------------------------------------------------------------------
(* The theorems *)

\* Every variable keeps its type.
THEOREM LaunchTypeCorrect == Spec => []TypeOK
<1>1. LInv /\ AInv => TypeOK
  BY DEF LInv, AInv, TypeOK
<1> QED BY <1>1, BothInvariants, PTL

\* A tool of a launched server runs under the identity verified for it.
THEOREM LaunchedActAsVerified == Spec => []ActsAsVerified
BY LaunchImplements, VerifiedIdentities, PTL

\* No context of a launched server keeps an identity.
THEOREM LaunchedAreClean == Spec => []ContextsAreClean
BY LaunchImplements, NothingIsLeft, PTL

\* The transport that runs is the one stdout was reserved for.
THEOREM SelectionIsServed == Spec => []ServedAsSelected
<1>1. LInv => ServedAsSelected
  BY DEF LInv, Acquired, Read, ServedAsSelected, Served
<1> QED BY <1>1, LaunchInvariance, PTL

\* What was acquired is released, whichever step failed.
THEOREM AllUnwinds == Spec => []Unwound
<1>1. LInv => Unwound
  BY DEF LInv, Acquired, Unwound
<1> QED BY <1>1, LaunchInvariance, PTL

\* The requirement the launch asked for is the one every tool call meets.
THEOREM AskedIsEnforced == Spec => []EnforcedAsLaunched
<1>1. LInv /\ AInv => EnforcedAsLaunched
  <2> SUFFICES ASSUME LInv, AInv, edits = 0, Authenticator # "none",
                      Override(bus.requires, launch.requires),
                      "message" \notin launch.exempt, eff.explorer => eff.under # "shared",
                      NEW q \in Requests, acted[q] # Idle, route[q] = "message"
               PROVE  verified[q] # None
    BY DEF EnforcedAsLaunched
  <2>1. policy # Unbuilt
    BY DEF AInv, AuthTypeOK, OfTool, Active
  <2>2. policy = AuthPolicy(policy.carries) /\ required
    BY <2>1 DEF LInv, Policied
  <2>3. "message" \notin Exempted
    BY DEF Exempted
  <2>4. Authenticates /\ policy.requires /\ ~Exempt(q)
    BY <2>2, <2>3 DEF AuthPolicy, Authenticates, Exempt
  <2> QED BY <2>4 DEF AInv, IdentityIsRequired
<1> QED BY <1>1, BothInvariants, PTL
==============================================================================

----------------------------- MODULE ApprovalGate -----------------------------
(***************************************************************************)
(* What the approval gate promises an agent that polls, without timers,    *)
(* sweeps, events, loops and restarts.  An approval is asked for once and  *)
(* decided at most once.  It is forgotten when a deadline of its own has   *)
(* passed, or when it is the oldest of those still undecided and the gate  *)
(* has no room for one more.  A poll never learns more than the verdict,   *)
(* and what is forgotten counts as rejected.                               *)
(***************************************************************************)
EXTENDS Naturals, FiniteSets

CONSTANTS Ids,         \* approvals
          Capacity,    \* undecided approvals the gate has room for
          PendingTTL,  \* how long an approval is kept from when it was asked for
          ResolvedTTL  \* how long it is kept from when it was decided

VARIABLES
  clock,
  verdict,    \* "unasked", "pending", "approved", "rejected" or "forgotten"
  askedAt, decidedAt,
  told        \* what the last poll returned for each approval

gateVars == <<clock, verdict, askedAt, decidedAt, told>>

Known == {id \in Ids : verdict[id] \notin {"unasked", "forgotten"}}
Undecided == {id \in Ids : verdict[id] = "pending"}
Oldest == {id \in Undecided : \A other \in Undecided : askedAt[id] <= askedAt[other]}

\* One of the deadlines of a known approval has passed.
Expired(id) ==
  \/ id \in Known /\ clock >= askedAt[id] + PendingTTL
  \/ id \in Known \ Undecided /\ clock >= decidedAt[id] + ResolvedTTL

Init ==
  /\ clock = 0
  /\ verdict = [id \in Ids |-> "unasked"]
  /\ askedAt = [id \in Ids |-> 0]
  /\ decidedAt = [id \in Ids |-> 0]
  /\ told = [id \in Ids |-> "nothing"]

\* The approvals of gone are forgotten, and those of asked are new.
Turn(gone, asked) ==
  /\ verdict' = [id \in Ids |-> IF id \in asked THEN "pending"
                               ELSE IF id \in gone THEN "forgotten" ELSE verdict[id]]
  /\ askedAt' = [id \in Ids |-> IF id \in asked THEN clock
                               ELSE IF id \in gone THEN 0 ELSE askedAt[id]]
  /\ decidedAt' = [id \in Ids |-> IF id \in gone \cup asked THEN 0 ELSE decidedAt[id]]
  /\ UNCHANGED <<clock, told>>

Ask(id) ==
  /\ verdict[id] = "unasked"
  /\ \/ Turn({}, {id})
     \/ Cardinality(Known) >= Capacity /\ \E old \in Oldest : Turn({old}, {id})
  /\ Cardinality(Undecided') <= Capacity

Decide(id, decision) ==
  /\ verdict[id] = "pending"
  /\ verdict' = [verdict EXCEPT ![id] = decision]
  /\ decidedAt' = [decidedAt EXCEPT ![id] = clock]
  /\ UNCHANGED <<clock, askedAt, told>>

\* Deadlines that have passed may be noticed late, and together.
Forget == \E gone \in SUBSET {id \in Ids : Expired(id)} : Turn(gone, {})

Tell(id) ==
  /\ verdict[id] # "unasked"
  /\ told' = [told EXCEPT ![id] = IF verdict[id] = "forgotten" THEN "rejected" ELSE verdict[id]]
  /\ UNCHANGED <<clock, verdict, askedAt, decidedAt>>

Pass == clock' = clock + 1 /\ UNCHANGED <<verdict, askedAt, decidedAt, told>>

Next ==
  \/ Pass
  \/ \E id \in Ids : Ask(id) \/ Tell(id) \/ \E d \in {"approved", "rejected"} : Decide(id, d)
  \/ Forget

Spec == Init /\ [][Next]_gateVars
==============================================================================

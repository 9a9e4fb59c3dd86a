---------------------------- MODULE ApprovalStore ----------------------------
(***************************************************************************)
(* Approvals that are polled for: InMemoryApprovalStore                    *)
(* (approval_store.py), StorageBackedApprovalHandler (adapters/approval.py)*)
(* and the __apcore_approval_check tool (server/approval_bridge.py).       *)
(*                                                                         *)
(* Everything runs on one event loop.  async_serve stops the sweep task    *)
(* and leaves the loop and its timers to the application; serve ends the   *)
(* loop too.  The store outlives both: when the server is served again the *)
(* records are there, the call_later timers of an ended loop are not.      *)
(* Time is discrete, and a loop fires what is due before time goes on.     *)
(***************************************************************************)
EXTENDS Naturals, FiniteSets

CONSTANTS Ids,            \* approval ids, one uuid4 per request_approval
          MaxRecords,     \* max_records
          PendingTTL,     \* pending_ttl
          ResolvedTTL,    \* resolved_ttl
          SweepInterval,  \* sweep_interval
          MaxTime         \* bound of the model's clock

ASSUME ApprovalAssumption ==
  /\ IsFiniteSet(Ids)
  /\ MaxRecords \in Nat \ {0}
  /\ PendingTTL \in Nat /\ ResolvedTTL \in Nat
  /\ SweepInterval \in Nat \ {0}
  /\ MaxTime \in Nat

VARIABLES
  clock,          \* time.monotonic()
  loop,           \* the event loop runs
  sweeping,       \* the sweep task runs: the server is being served
  startedAt,      \* when the sweep task was started
  sweepAt,        \* when the sweep task wakes up next
  status,         \* _records: "none" when there is no record
  createdAt,      \* created_at
  resolvedAt,     \* resolved_at
  armedPending,   \* records whose pending_ttl timer is scheduled
  armedResolved,  \* records whose resolved_ttl timer is scheduled
  events,         \* keys of _events
  waiting,        \* ids whose event somebody awaits in wait_for_resolution
  pc,             \* where request_approval is for each id
  told            \* what the agent's last poll returned for each id

loopVars == <<clock, loop, sweeping, startedAt, sweepAt>>
timerVars == <<armedPending, armedResolved>>
recordVars == <<status, createdAt, resolvedAt, timerVars, events, waiting>>
clientVars == <<pc, told>>
vars == <<loopVars, recordVars, clientVars>>

Stored == {id \in Ids : status[id] # "none"}
Pending == {id \in Ids : status[id] = "pending"}

\* Slip the runs must catch: the last key of the OrderedDict, not the first.
NewestPending == {id \in Pending : \A other \in Pending : createdAt[id] >= createdAt[other]}

\* The pending records no pending record is older than.
OldestPending == {id \in Pending : \A other \in Pending : createdAt[id] <= createdAt[other]}

\* When a stored record is due to go.
Deadline(id) == IF status[id] = "pending" THEN createdAt[id] + PendingTTL
                                          ELSE resolvedAt[id] + ResolvedTTL

Init ==
  /\ clock = 0 /\ loop = TRUE /\ sweeping = TRUE /\ startedAt = 0 /\ sweepAt = SweepInterval
  /\ status = [id \in Ids |-> "none"]
  /\ createdAt = [id \in Ids |-> 0]
  /\ resolvedAt = [id \in Ids |-> 0]
  /\ armedPending = {} /\ armedResolved = {}
  /\ events = {} /\ waiting = {}
  /\ pc = [id \in Ids |-> "idle"]
  /\ told = [id \in Ids |-> "nothing"]

------------------------------------------------------------------------------
(* The store *)

\* Slip the runs must catch: the event of a popped record is never set.
ReplaceSilently(gone, added) ==
  /\ status' = [id \in Ids |-> IF id \in added THEN "pending"
                              ELSE IF id \in gone THEN "none" ELSE status[id]]
  /\ createdAt' = [id \in Ids |-> IF id \in added THEN clock ELSE createdAt[id]]
  /\ armedPending' = (armedPending \ gone) \cup added
  /\ armedResolved' = armedResolved \ gone
  /\ events' = (events \ gone) \cup added
  /\ UNCHANGED <<resolvedAt, waiting>>

\* _delete_record of each of gone, and then the records of added are stored: the
\* event is popped with its record and set, which wakes whoever awaits it.  What
\* a timer of a popped record would still do is nothing, so it is dropped here.
Replace(gone, added) ==
  /\ status' = [id \in Ids |-> IF id \in added THEN "pending"
                              ELSE IF id \in gone THEN "none" ELSE status[id]]
  /\ createdAt' = [id \in Ids |-> IF id \in added THEN clock
                                 ELSE IF id \in gone THEN 0 ELSE createdAt[id]]
  /\ resolvedAt' = [id \in Ids |-> IF id \in gone \cup added THEN 0 ELSE resolvedAt[id]]
  /\ armedPending' = (armedPending \ gone) \cup added
  /\ armedResolved' = armedResolved \ gone
  /\ events' = (events \ gone) \cup added
  /\ waiting' = waiting \ (events \cap gone)

DeleteRecords(gone) == Replace(gone, {})

\* Slip the runs must catch: eviction of the oldest record whatever its status.
EvictableAny ==
  IF Cardinality(Stored) >= MaxRecords
  THEN {{id} : id \in {i \in Stored : \A other \in Stored : createdAt[i] <= createdAt[other]}}
  ELSE {{}}

\* What save_pending evicts: one of the oldest pending records when the store is
\* full, nothing when it is not or holds only resolved ones.
Evictable ==
  IF Cardinality(Stored) >= MaxRecords /\ Pending # {}
  THEN {{id} : id \in OldestPending} ELSE {{}}

\* request_approval up to `await self._notify`: save_pending does not suspend.
RequestApproval(id) ==
  /\ loop /\ pc[id] = "idle"
  /\ \E evicted \in Evictable : Replace(evicted, {id})
  /\ pc' = [pc EXCEPT ![id] = "notifying"]
  /\ UNCHANGED <<loopVars, told>>

\* The notify callback returns or raises: the agent gets the approval id.
Notified(id) ==
  /\ loop /\ pc[id] = "notifying"
  /\ pc' = [pc EXCEPT ![id] = "answered"]
  /\ UNCHANGED <<loopVars, recordVars, told>>

\* Slip the runs must catch: a second decision overrides the first.
ResolveAgain(id, decision) ==
  /\ loop /\ status[id] # "none"
  /\ status' = [status EXCEPT ![id] = decision]
  /\ resolvedAt' = [resolvedAt EXCEPT ![id] = clock]
  /\ events' = events \ {id}
  /\ waiting' = waiting \ {id}
  /\ armedResolved' = armedResolved \cup {id}
  /\ UNCHANGED <<loopVars, createdAt, armedPending, clientVars>>

\* resolve() of a pending record, by whoever the callback told.  The pending
\* timer stays scheduled.  For any other id it returns False and does nothing.
Resolve(id, decision) ==
  /\ loop /\ status[id] = "pending"
  /\ status' = [status EXCEPT ![id] = decision]
  /\ resolvedAt' = [resolvedAt EXCEPT ![id] = clock]
  /\ events' = events \ {id}
  /\ waiting' = waiting \ (events \cap {id})
  /\ armedResolved' = armedResolved \cup {id}
  /\ UNCHANGED <<loopVars, createdAt, armedPending, clientVars>>

\* __apcore_approval_check: check_approval reads the record, and an id that has
\* none is rejected.
Check(id) ==
  /\ loop /\ pc[id] = "answered"
  /\ told' = [told EXCEPT ![id] = IF status[id] = "none" THEN "rejected" ELSE status[id]]
  /\ UNCHANGED <<loopVars, recordVars, pc>>

\* wait_for_resolution awaits the event while there is one.
Wait(id) ==
  /\ loop /\ id \in events
  /\ waiting' = waiting \cup {id}
  /\ UNCHANGED <<loopVars, status, createdAt, resolvedAt, timerVars, events, clientVars>>

------------------------------------------------------------------------------
(* Timers and the sweep *)

PendingDue(id) == id \in armedPending /\ clock >= createdAt[id] + PendingTTL
ResolvedDue(id) == id \in armedResolved /\ clock >= resolvedAt[id] + ResolvedTTL

\* call_later(pending_ttl, _delete_record), whatever became of the record.
PendingTimer(id) ==
  /\ loop /\ PendingDue(id)
  /\ DeleteRecords({id})
  /\ UNCHANGED <<loopVars, clientVars>>

ResolvedTimer(id) ==
  /\ loop /\ ResolvedDue(id)
  /\ DeleteRecords({id})
  /\ UNCHANGED <<loopVars, clientVars>>

\* Slip the runs must catch: the sweep forgets decided records.
SweepPending ==
  /\ sweeping /\ clock >= sweepAt
  /\ DeleteRecords({id \in Pending : clock > Deadline(id)})
  /\ sweepAt' = clock + SweepInterval
  /\ UNCHANGED <<clock, loop, sweeping, startedAt, clientVars>>

\* _sweep, then asyncio.sleep again.
Sweep ==
  /\ sweeping /\ clock >= sweepAt
  /\ DeleteRecords({id \in Stored : clock > Deadline(id)})
  /\ sweepAt' = clock + SweepInterval
  /\ UNCHANGED <<clock, loop, sweeping, startedAt, clientVars>>

\* Time passes when the loop has nothing left to do at this instant.
Tick ==
  /\ clock < MaxTime
  /\ sweeping => clock < sweepAt
  /\ loop => \A id \in Ids : ~PendingDue(id) /\ ~ResolvedDue(id)
  /\ clock' = clock + 1
  /\ UNCHANGED <<loop, sweeping, startedAt, sweepAt, recordVars, clientVars>>

------------------------------------------------------------------------------
(* The server *)

\* stop(), when serving ends.
Stop ==
  /\ sweeping
  /\ sweeping' = FALSE /\ startedAt' = 0 /\ sweepAt' = 0
  /\ UNCHANGED <<clock, loop, recordVars, clientVars>>

\* The loop ends, and its timers, waiters and handlers with it.
EndLoop ==
  /\ loop /\ ~sweeping
  /\ loop' = FALSE
  /\ armedPending' = {} /\ armedResolved' = {} /\ waiting' = {}
  /\ pc' = [id \in Ids |-> IF pc[id] = "notifying" THEN "lost" ELSE pc[id]]
  /\ UNCHANGED <<clock, sweeping, startedAt, sweepAt, status, createdAt, resolvedAt, events, told>>

\* The server is served (again), on a new loop if the last one has ended:
\* start() creates a sweep task.
Start ==
  /\ ~sweeping
  /\ loop' = TRUE /\ sweeping' = TRUE
  /\ startedAt' = clock /\ sweepAt' = clock + SweepInterval
  /\ UNCHANGED <<clock, recordVars, clientVars>>

------------------------------------------------------------------------------
Store(id) ==
  \/ RequestApproval(id) \/ Notified(id) \/ Check(id) \/ Wait(id)
  \/ \E decision \in {"approved", "rejected"} : Resolve(id, decision)
  \/ PendingTimer(id) \/ ResolvedTimer(id)

Next == (\E id \in Ids : Store(id)) \/ Sweep \/ Tick \/ Stop \/ EndLoop \/ Start

Spec == Init /\ [][Next]_vars

------------------------------------------------------------------------------
(* Properties *)

TypeOK ==
  /\ clock \in Nat /\ startedAt \in Nat /\ sweepAt \in Nat
  /\ loop \in BOOLEAN /\ sweeping \in BOOLEAN
  /\ status \in [Ids -> {"none", "pending", "approved", "rejected"}]
  /\ createdAt \in [Ids -> Nat] /\ resolvedAt \in [Ids -> Nat]
  /\ armedPending \subseteq Ids /\ armedResolved \subseteq Ids
  /\ events \subseteq Ids /\ waiting \subseteq Ids
  /\ pc \in [Ids -> {"idle", "notifying", "answered", "lost"}]
  /\ told \in [Ids -> {"nothing", "pending", "approved", "rejected"}]

\* max_records bounds the approvals that wait for a decision (resolved ones come
\* on top of them).
PendingBounded == Cardinality(Pending) <= MaxRecords

\* The agent finds the decision that was made until the first of the record's
\* two deadlines, whatever is saved, evicted, swept or restarted meanwhile.
Decided(id) == status[id] \in {"approved", "rejected"}
KeepsDecisions ==
  \A id \in Ids : Decided(id) /\ status'[id] # status[id] =>
    \/ clock >= resolvedAt[id] + ResolvedTTL
    \/ clock >= createdAt[id] + PendingTTL
DecisionKept == [][KeepsDecisions]_vars

\* A lost timer is made up for: while the server is served no record is older
\* than one sweep interval past its deadline, or past the start of the sweep.
ExpiredAreSwept ==
  sweeping => \A id \in Stored :
    \/ clock <= Deadline(id) + SweepInterval
    \/ clock <= startedAt + SweepInterval

\* Nobody waits in vain: an event somebody awaits is that of an approval still
\* undecided, so a decision, a timer or the sweep will set it.
NoLostWakeup == \A id \in waiting : status[id] = "pending" /\ id \in events

\* The gate fails closed for good: once the agent has been told "rejected",
\* because of the decision or because the record was gone, no later poll says
\* otherwise, and an approval is never taken back to "pending".
KeepsAnswers ==
  \A id \in Ids : /\ told[id] = "rejected" => told'[id] = "rejected"
                  /\ told[id] = "approved" => told'[id] # "pending"
AnswersAreFinal == [][KeepsAnswers]_vars

\* What the class comment says of resolved records (approval_store.py:55-56):
\* they are deleted after resolved_ttl, long enough for the agent to poll.  The
\* pending_ttl timer resolve() leaves scheduled may fire before.
DecisionKeptForTTL ==
  [][\A id \in Ids : Decided(id) /\ status'[id] # status[id] =>
       clock >= resolvedAt[id] + ResolvedTTL]_vars

\* Seen through its records alone, the store is the gate that ApprovalGate
\* specifies: restarts, lost timers and evictions never bring an approval back,
\* settle it twice, or lose one that is not due or the oldest of too many.
Verdict == [id \in Ids |-> IF status[id] # "none" THEN status[id]
                           ELSE IF pc[id] = "idle" THEN "unasked" ELSE "forgotten"]
Gate == INSTANCE ApprovalGate WITH Capacity <- MaxRecords, verdict <- Verdict,
                                   askedAt <- createdAt, decidedAt <- resolvedAt
ImplementsGate == Gate!Spec
==============================================================================

------------------------- MODULE ApprovalStoreProofs -------------------------
(***************************************************************************)
(* What ApprovalStore guarantees for every number of approvals and every   *)
(* choice of the limits.                                                   *)
(*                                                                         *)
(* The invariant says when each timer is due (Timers), why a record whose  *)
(* timer went with an earlier loop is still reached (Swept), that events   *)
(* belong to undecided records (Undecided) and what an answer already      *)
(* given implies of the record (Answers).                                  *)
(***************************************************************************)
EXTENDS ApprovalStore, FiniteSetTheorems, TLAPS

\* A timer belongs to a record, is not overdue while the loop runs, and is gone
\* when it does not; nor is the sweep overdue.
Timers ==
  /\ \A id \in armedPending : status[id] # "none"
  /\ \A id \in armedResolved : Decided(id)
  /\ ~loop => armedPending = {} /\ armedResolved = {}
  /\ \A id \in armedPending : clock <= createdAt[id] + PendingTTL
  /\ \A id \in armedResolved : clock <= resolvedAt[id] + ResolvedTTL
  /\ sweeping => loop /\ clock <= sweepAt

\* The timer that ends the record at its deadline is scheduled.
Timed(id) ==
  \/ status[id] = "pending" /\ id \in armedPending
  \/ Decided(id) /\ id \in armedResolved

\* Without its timer a record is reached by the first sweep past its deadline.
Swept ==
  sweeping => \A id \in Stored :
    \/ Timed(id)
    \/ sweepAt <= Deadline(id) + SweepInterval
    \/ sweepAt <= startedAt + SweepInterval

Undecided == events = Pending /\ waiting \subseteq events

Answers ==
  \A id \in Ids :
    /\ pc[id] = "idle" => status[id] = "none"
    /\ told[id] # "nothing" => pc[id] = "answered"
    /\ told[id] = "rejected" => status[id] \in {"none", "rejected"}
    /\ told[id] = "approved" => status[id] \in {"none", "approved"}

IInv == TypeOK /\ Timers /\ Swept /\ Undecided /\ Answers /\ PendingBounded

------------------------------------------------------------------------------
(* Replacing records *)

\* What Replace does to each record when the new ones had no predecessor.
Replaced(gone, added) ==
  /\ status' \in [Ids -> {"none", "pending", "approved", "rejected"}]
  /\ createdAt' \in [Ids -> Nat] /\ resolvedAt' \in [Ids -> Nat]
  /\ armedPending' \subseteq Ids /\ armedResolved' \subseteq Ids
  /\ events' \subseteq Ids /\ waiting' \subseteq Ids
  /\ \A id \in Ids \ (gone \cup added) :
       /\ status'[id] = status[id] /\ createdAt'[id] = createdAt[id]
       /\ resolvedAt'[id] = resolvedAt[id]
       /\ id \in armedPending' <=> id \in armedPending
       /\ id \in armedResolved' <=> id \in armedResolved
  /\ \A id \in gone \ added :
       status'[id] = "none" /\ id \notin armedPending' /\ id \notin armedResolved'
  /\ \A id \in added :
       /\ status'[id] = "pending" /\ createdAt'[id] = clock
       /\ id \in armedPending' /\ id \notin armedResolved'

LEMMA ReplaceFacts ==
  ASSUME IInv, NEW gone \in SUBSET Ids, NEW added \in SUBSET Ids,
         \A id \in added : status[id] = "none", Replace(gone, added)
  PROVE  Replaced(gone, added) /\ Undecided'
<1> USE DEF IInv, TypeOK, Replace
<1>1. Undecided'
  <2>1. events' = Pending'
    BY DEF Undecided, Pending
  <2>2. waiting' \subseteq events'
    BY DEF Undecided
  <2> QED BY <2>1, <2>2 DEF Undecided
<1>2. \A id \in added : id \notin armedResolved
  BY DEF Timers, Decided
<1>3. Replaced(gone, added)
  BY <1>2 DEF Replaced
<1> QED BY <1>1, <1>3

\* A step that replaces records at a fixed instant keeps the timers right.
LEMMA ReplaceKeepsTimers ==
  ASSUME IInv, NEW gone \in SUBSET Ids, NEW added \in SUBSET Ids,
         Replaced(gone, added), loop, UNCHANGED <<clock, loop, sweeping>>,
         clock <= sweepAt => clock <= sweepAt'
  PROVE  Timers'
<1> USE ApprovalAssumption DEF IInv, TypeOK, Timers, Replaced, Decided
<1>1. ASSUME NEW id \in armedPending'
      PROVE  status'[id] # "none" /\ clock <= createdAt'[id] + PendingTTL
  <2>1. CASE id \in added
    BY <2>1
  <2>2. CASE id \in Ids \ (gone \cup added)
    BY <2>2, <1>1
  <2> QED BY <2>1, <2>2, <1>1
<1>2. ASSUME NEW id \in armedResolved'
      PROVE  Decided(id)' /\ clock <= resolvedAt'[id] + ResolvedTTL
  <2>1. id \in Ids \ (gone \cup added)
    BY <1>2
  <2> QED BY <2>1, <1>2
<1> QED BY <1>1, <1>2

\* No more than MaxRecords approvals wait once the evicted ones are gone.
LEMMA PendingCount ==
  ASSUME IInv, NEW id \in Ids, status[id] = "none", NEW evicted \in Evictable,
         Replace(evicted, {id})
  PROVE  PendingBounded'
<1> USE ApprovalAssumption
<1>1. /\ Pending \subseteq Stored /\ IsFiniteSet(Stored) /\ IsFiniteSet(Pending)
      /\ id \notin Pending
      /\ Cardinality(Pending) \in Nat /\ Cardinality(Stored) \in Nat
      /\ Cardinality(Pending) <= Cardinality(Stored)
  BY FS_Subset, FS_CardinalityType DEF Pending, Stored
<1>2. Pending' = (Pending \ evicted) \cup {id}
  BY DEF Replace, Pending, IInv, TypeOK
<1>3. CASE evicted = {}
  <2>1. Cardinality(Pending') = Cardinality(Pending) + 1
    BY <1>1, <1>2, <1>3, FS_AddElement
  <2>2. Cardinality(Pending) < MaxRecords
    <3>1. CASE Cardinality(Stored) >= MaxRecords /\ Pending # {}
      BY <3>1, <1>3 DEF Evictable
    <3>2. CASE Pending = {}
      BY <3>2, FS_EmptySet
    <3>3. CASE ~(Cardinality(Stored) >= MaxRecords)
      BY <3>3, <1>1
    <3> QED BY <3>1, <3>2, <3>3
  <2> QED BY <2>1, <2>2, <1>1 DEF PendingBounded
<1>4. CASE evicted # {}
  <2>1. PICK old \in Pending : evicted = {old}
    BY <1>4 DEF Evictable, OldestPending
  <2>2. IsFiniteSet(Pending \ {old}) /\ Cardinality(Pending \ {old}) = Cardinality(Pending) - 1
    BY <2>1, <1>1, FS_RemoveElement
  <2>3. Cardinality(Pending') = Cardinality(Pending \ {old}) + 1
    BY <2>1, <2>2, <1>1, <1>2, FS_AddElement
  <2>4. Cardinality(Pending') = Cardinality(Pending)
    BY <2>2, <2>3, <1>1
  <2> QED BY <2>4 DEF PendingBounded, IInv
<1> QED BY <1>3, <1>4

\* Deleting records or deciding one does not add to the pending ones.
LEMMA FewerPending ==
  ASSUME IInv, Pending' \subseteq Pending
  PROVE  PendingBounded'
<1>1. IsFiniteSet(Pending)
  BY ApprovalAssumption, FS_Subset DEF Pending
<1>2. /\ IsFiniteSet(Pending') /\ Cardinality(Pending') <= Cardinality(Pending)
      /\ Cardinality(Pending) \in Nat /\ Cardinality(Pending') \in Nat
  BY <1>1, FS_Subset, FS_CardinalityType
<1> QED BY <1>2, ApprovalAssumption DEF IInv, PendingBounded

\* Deleting records keeps everything but, for lack of its premise, Swept.
LEMMA DeletionFacts ==
  ASSUME IInv, NEW gone \in SUBSET Ids, DeleteRecords(gone),
         loop, UNCHANGED <<clock, loop, sweeping, startedAt, clientVars>>,
         sweepAt' \in Nat, clock <= sweepAt => clock <= sweepAt'
  PROVE  /\ TypeOK' /\ Timers' /\ Undecided' /\ Answers' /\ PendingBounded'
         /\ Replaced(gone, {})
<1>1. Replaced(gone, {}) /\ Undecided'
  BY ReplaceFacts DEF DeleteRecords
<1>2. Timers'
  BY <1>1, ReplaceKeepsTimers
<1>3. TypeOK'
  BY <1>1 DEF Replaced, TypeOK, IInv, clientVars
<1>4. Answers'
  BY <1>1 DEF Replaced, Answers, TypeOK, IInv, clientVars
<1>5. Pending' \subseteq Pending
  BY <1>1 DEF Replaced, Pending, IInv, TypeOK
<1> QED BY <1>1, <1>2, <1>3, <1>4, <1>5, FewerPending

------------------------------------------------------------------------------
(* One lemma per action that touches records *)

LEMMA RequestKeeps ==
  ASSUME IInv, NEW id \in Ids, RequestApproval(id)
  PROVE  IInv' /\ KeepsDecisions /\ KeepsAnswers
<1>1. PICK evicted \in Evictable : Replace(evicted, {id})
  BY DEF RequestApproval
<1>2. evicted \in SUBSET Ids /\ \A old \in evicted : status[old] = "pending"
  BY DEF Evictable, OldestPending, Pending
<1>3. /\ status[id] = "none" /\ pc[id] = "idle" /\ loop
      /\ UNCHANGED <<loopVars, told>> /\ pc' = [pc EXCEPT ![id] = "notifying"]
  BY DEF RequestApproval, IInv, Answers
<1>4. Replaced(evicted, {id}) /\ Undecided'
  BY <1>1, <1>2, <1>3, ReplaceFacts
<1>5. Timers'
  BY <1>2, <1>3, <1>4, ReplaceKeepsTimers DEF loopVars
<1>6. TypeOK'
  BY <1>3, <1>4 DEF Replaced, TypeOK, IInv, loopVars
<1>7. Answers'
  BY <1>2, <1>3, <1>4 DEF Replaced, Answers, TypeOK, IInv, loopVars
<1>8. Swept'
  <2> SUFFICES ASSUME sweeping', NEW i \in Stored'
               PROVE  (\/ Timed(i) \/ sweepAt <= Deadline(i) + SweepInterval
                       \/ sweepAt <= startedAt + SweepInterval)'
    BY DEF Swept
  <2>1. CASE i = id
    BY <2>1, <1>4 DEF Replaced, Timed
  <2>2. CASE i # id
    <3>1. i \in Ids \ (evicted \cup {id}) /\ i \in Stored
      BY <2>2, <1>4 DEF Replaced, Stored
    <3>2. /\ Deadline(i)' = Deadline(i) /\ (Timed(i) => Timed(i)')
          /\ sweeping /\ sweepAt' = sweepAt /\ startedAt' = startedAt
      BY <3>1, <1>3, <1>4 DEF Replaced, Timed, Decided, Deadline, loopVars
    <3> QED BY <3>1, <3>2 DEF Swept, IInv
  <2> QED BY <2>1, <2>2
<1>9. PendingBounded'
  BY <1>1, <1>3, PendingCount
<1>10. KeepsDecisions
  BY <1>2, <1>3, <1>4 DEF Replaced, KeepsDecisions, Decided
<1>11. KeepsAnswers
  BY <1>3 DEF KeepsAnswers
<1> QED BY <1>4, <1>5, <1>6, <1>7, <1>8, <1>9, <1>10, <1>11 DEF IInv

LEMMA ResolveKeeps ==
  ASSUME IInv, NEW id \in Ids, NEW decision \in {"approved", "rejected"}, Resolve(id, decision)
  PROVE  IInv' /\ KeepsDecisions /\ KeepsAnswers
<1> USE ApprovalAssumption
<1>1. TypeOK'
  BY DEF Resolve, IInv, TypeOK, loopVars, clientVars
<1>2. Timers'
  BY DEF Resolve, IInv, TypeOK, Timers, Decided, loopVars
<1>3. Swept'
  BY DEF Resolve, IInv, TypeOK, Swept, Timed, Decided, Deadline, Stored, loopVars
<1>4. Undecided'
  BY DEF Resolve, IInv, TypeOK, Undecided, Pending
<1>5. Answers'
  BY DEF Resolve, IInv, TypeOK, Answers, clientVars
<1>6. PendingBounded'
  <2>1. Pending' \subseteq Pending
    BY DEF Resolve, IInv, TypeOK, Pending
  <2> QED BY <2>1, FewerPending
<1>7. KeepsDecisions /\ KeepsAnswers
  BY DEF Resolve, IInv, TypeOK, KeepsDecisions, KeepsAnswers, Decided, clientVars
<1> QED BY <1>1, <1>2, <1>3, <1>4, <1>5, <1>6, <1>7 DEF IInv

\* Either timer: the deleted record is past one of its deadlines.
LEMMA TimerKeeps ==
  ASSUME IInv, NEW id \in Ids, PendingTimer(id) \/ ResolvedTimer(id)
  PROVE  IInv' /\ KeepsDecisions /\ KeepsAnswers
<1>1. /\ loop /\ DeleteRecords({id}) /\ UNCHANGED <<loopVars, clientVars>>
      /\ clock >= createdAt[id] + PendingTTL \/ clock >= resolvedAt[id] + ResolvedTTL
  BY DEF PendingTimer, ResolvedTimer, PendingDue, ResolvedDue
<1>2. /\ TypeOK' /\ Timers' /\ Undecided' /\ Answers' /\ PendingBounded'
      /\ Replaced({id}, {})
  <2>1. sweepAt' \in Nat
    BY <1>1 DEF IInv, TypeOK, loopVars
  <2> QED BY <1>1, <2>1, DeletionFacts DEF loopVars
<1>3. Swept'
  BY <1>1, <1>2 DEF Replaced, Swept, Timed, Decided, Deadline, Stored, IInv, loopVars
<1>4. KeepsDecisions /\ KeepsAnswers
  BY <1>1, <1>2 DEF Replaced, KeepsDecisions, KeepsAnswers, clientVars
<1> QED BY <1>2, <1>3, <1>4 DEF IInv

\* What the sweep leaves is not past its deadline, so the next sweep is within
\* one interval of it.
LEMMA SweepKeeps ==
  ASSUME IInv, Sweep
  PROVE  IInv' /\ KeepsDecisions /\ KeepsAnswers
<1> USE ApprovalAssumption
<1> DEFINE gone == {id \in Stored : clock > Deadline(id)}
<1>1. /\ DeleteRecords(gone) /\ gone \in SUBSET Ids /\ sweepAt' = clock + SweepInterval
      /\ sweeping /\ loop /\ UNCHANGED <<clock, loop, sweeping, startedAt, clientVars>>
  BY DEF Sweep, Stored, IInv, Timers
<1>2. sweepAt' \in Nat /\ clock <= sweepAt'
  BY <1>1 DEF IInv, TypeOK
<1>3. /\ TypeOK' /\ Timers' /\ Undecided' /\ Answers' /\ PendingBounded'
      /\ Replaced(gone, {})
  BY <1>1, <1>2, DeletionFacts
<1>4. Swept'
  <2> SUFFICES ASSUME NEW i \in Stored' PROVE sweepAt' <= Deadline(i)' + SweepInterval
    BY DEF Swept
  <2>1. i \in Ids \ gone /\ i \in Stored
    BY <1>1, <1>3 DEF Replaced, Stored
  <2>2. clock <= Deadline(i) /\ Deadline(i)' = Deadline(i) /\ Deadline(i) \in Nat
    BY <2>1, <1>3 DEF Replaced, Deadline, IInv, TypeOK
  <2> QED BY <2>2, <1>1 DEF IInv, TypeOK
<1>5. KeepsDecisions
  <2> SUFFICES ASSUME NEW id \in Ids, Decided(id), status'[id] # status[id]
               PROVE  clock >= resolvedAt[id] + ResolvedTTL
    BY DEF KeepsDecisions
  <2>1. id \in gone
    BY <1>1, <1>3 DEF Replaced
  <2> QED BY <2>1 DEF Deadline, Decided, IInv, TypeOK
<1>6. KeepsAnswers
  BY <1>1 DEF KeepsAnswers, clientVars
<1> QED BY <1>3, <1>4, <1>5, <1>6 DEF IInv

\* The steps that leave the records alone.
LEMMA HandlersKeep ==
  ASSUME IInv, NEW id \in Ids, Notified(id) \/ Check(id) \/ Wait(id)
  PROVE  IInv' /\ KeepsDecisions /\ KeepsAnswers
<1>1. /\ UNCHANGED <<loopVars, status, createdAt, resolvedAt, timerVars, events>>
      /\ waiting' \subseteq events
  BY DEF Notified, Check, Wait, recordVars, IInv, Undecided
<1>2. TypeOK' /\ Answers'
  <2>1. CASE Notified(id)
    BY <2>1 DEF Notified, IInv, TypeOK, Answers, loopVars, recordVars, timerVars
  <2>2. CASE Check(id)
    BY <2>2 DEF Check, IInv, TypeOK, Answers, loopVars, recordVars, timerVars
  <2>3. CASE Wait(id)
    BY <2>3 DEF Wait, IInv, TypeOK, Answers, loopVars, clientVars, timerVars
  <2> QED BY <2>1, <2>2, <2>3
<1>3. Timers'
  BY <1>1 DEF IInv, Timers, Decided, loopVars, timerVars
<1>4. Swept'
  BY <1>1 DEF IInv, Swept, Timed, Stored, Deadline, Decided, loopVars, timerVars
<1>5. Undecided' /\ Pending' = Pending
  BY <1>1 DEF IInv, Undecided, Pending
<1>6. PendingBounded' /\ KeepsDecisions
  BY <1>1, <1>5 DEF IInv, PendingBounded, KeepsDecisions
<1>7. KeepsAnswers
  BY DEF Notified, Check, Wait, KeepsAnswers, clientVars, IInv, Answers, TypeOK
<1> QED BY <1>2, <1>3, <1>4, <1>5, <1>6, <1>7 DEF IInv

LEMMA ClockKeeps ==
  ASSUME IInv, Tick \/ Stop \/ EndLoop \/ Start
  PROVE  IInv' /\ KeepsDecisions /\ KeepsAnswers
<1> USE ApprovalAssumption
<1>1. /\ UNCHANGED <<status, createdAt, resolvedAt, events, told>>
      /\ waiting' \subseteq waiting
  BY DEF Tick, Stop, EndLoop, Start, recordVars, clientVars
<1>2. TypeOK'
  <2>1. CASE Tick
    BY <2>1 DEF Tick, IInv, TypeOK, recordVars, clientVars, timerVars
  <2>2. CASE Stop
    BY <2>2 DEF Stop, IInv, TypeOK, recordVars, clientVars, timerVars
  <2>3. CASE EndLoop
    BY <2>3 DEF EndLoop, IInv, TypeOK
  <2>4. CASE Start
    BY <2>4 DEF Start, IInv, TypeOK, recordVars, clientVars, timerVars
  <2> QED BY <2>1, <2>2, <2>3, <2>4
<1>3. Timers'
  <2>1. CASE Tick
    <3>1. /\ sweeping => clock < sweepAt
          /\ clock' = clock + 1
          /\ UNCHANGED <<loop, sweeping, sweepAt, armedPending, armedResolved>>
      BY <2>1 DEF Tick, recordVars, timerVars
    <3>2. /\ \A id \in armedPending : clock < createdAt[id] + PendingTTL
          /\ \A id \in armedResolved : clock < resolvedAt[id] + ResolvedTTL
      BY <2>1 DEF Tick, PendingDue, ResolvedDue, IInv, TypeOK, Timers
    <3>3. \A id \in Ids : createdAt[id] + PendingTTL \in Nat /\ resolvedAt[id] + ResolvedTTL \in Nat
      BY DEF IInv, TypeOK
    <3> QED BY <3>1, <3>2, <3>3, <1>1 DEF IInv, TypeOK, Timers, Decided
  <2>2. CASE Stop
    BY <2>2 DEF Stop, IInv, Timers, Decided, recordVars, timerVars
  <2>3. CASE EndLoop
    BY <2>3 DEF EndLoop, Timers
  <2>4. CASE Start
    BY <2>4 DEF Start, IInv, TypeOK, Timers, Decided, recordVars, timerVars
  <2> QED BY <2>1, <2>2, <2>3, <2>4
<1>4. Swept'
  <2>1. CASE Tick
    BY <2>1 DEF Tick, IInv, Swept, Timed, Stored, Deadline, Decided, recordVars, timerVars
  <2>2. CASE Stop \/ EndLoop
    BY <2>2 DEF Stop, EndLoop, Swept
  <2>3. CASE Start
    BY <2>3 DEF Start, Swept, IInv, TypeOK
  <2> QED BY <2>1, <2>2, <2>3
<1>5. Undecided' /\ Pending' = Pending
  BY <1>1 DEF IInv, Undecided, Pending
<1>6. Answers'
  <2>1. \A id \in Ids :
          /\ pc'[id] = "idle" => pc[id] = "idle"
          /\ pc[id] = "answered" => pc'[id] = "answered"
    BY DEF Tick, Stop, EndLoop, Start, clientVars, IInv, TypeOK
  <2> QED BY <1>1, <2>1 DEF IInv, Answers
<1>7. PendingBounded' /\ KeepsDecisions /\ KeepsAnswers
  BY <1>1, <1>5 DEF IInv, PendingBounded, KeepsDecisions, KeepsAnswers
<1> QED BY <1>2, <1>3, <1>4, <1>5, <1>6, <1>7 DEF IInv

------------------------------------------------------------------------------
(* The theorems *)

LEMMA InitEstablishes == Init => IInv
<1> SUFFICES ASSUME Init PROVE IInv
  OBVIOUS
<1>1. Stored = {} /\ Pending = {}
  BY DEF Init, Stored, Pending
<1>2. PendingBounded
  BY <1>1, FS_EmptySet, ApprovalAssumption DEF PendingBounded
<1> QED BY <1>1, <1>2, ApprovalAssumption DEF Init, IInv, TypeOK, Timers, Swept, Undecided, Answers

LEMMA StepKeeps ==
  ASSUME IInv, [Next]_vars
  PROVE  IInv' /\ [KeepsDecisions]_vars /\ [KeepsAnswers]_vars
<1>1. CASE Next
  BY <1>1, RequestKeeps, ResolveKeeps, TimerKeeps, SweepKeeps, HandlersKeep, ClockKeeps
     DEF Next, Store
<1>2. CASE UNCHANGED vars
  BY <1>2 DEF vars, loopVars, recordVars, clientVars, timerVars, IInv, TypeOK, Timers, Swept,
              Undecided, Answers, PendingBounded, Timed, Decided, Stored, Pending, Deadline
<1> QED BY <1>1, <1>2

\* The timers, the sweep, the events and the answers agree with the records in
\* every reachable state.
THEOREM Invariance == Spec => []IInv
<1>1. IInv /\ [Next]_vars => IInv'
  BY StepKeeps
<1> QED BY <1>1, InitEstablishes, PTL DEF Spec

\* Every variable keeps its type.
THEOREM TypeCorrect == Spec => []TypeOK
<1>1. IInv => TypeOK
  BY DEF IInv
<1> QED BY <1>1, Invariance, PTL

\* No more than max_records approvals are undecided.
THEOREM Bounded == Spec => []PendingBounded
<1>1. IInv => PendingBounded
  BY DEF IInv
<1> QED BY <1>1, Invariance, PTL

\* While the server is served, a record is gone one sweep interval after its
\* deadline or after the start of the sweep, whichever is later.
THEOREM Collected == Spec => []ExpiredAreSwept
<1>1. IInv => ExpiredAreSwept
  <2> SUFFICES ASSUME IInv, sweeping, NEW id \in Stored
               PROVE  \/ clock <= Deadline(id) + SweepInterval
                      \/ clock <= startedAt + SweepInterval
    BY DEF ExpiredAreSwept
  <2>1. Deadline(id) \in Nat /\ clock \in Nat /\ sweepAt \in Nat /\ startedAt \in Nat
    BY ApprovalAssumption DEF IInv, TypeOK, Deadline, Stored
  <2>2. CASE Timed(id)
    BY <2>1, <2>2, ApprovalAssumption DEF IInv, Timers, Timed, Deadline, Decided, Stored
  <2>3. CASE ~Timed(id)
    BY <2>1, <2>3, ApprovalAssumption DEF IInv, Swept, Timers
  <2> QED BY <2>2, <2>3
<1> QED BY <1>1, Invariance, PTL

\* Whoever awaits a resolution awaits an event that is still to be set.
THEOREM NobodyForgotten == Spec => []NoLostWakeup
<1>1. IInv => NoLostWakeup
  BY DEF IInv, Undecided, NoLostWakeup, Pending
<1> QED BY <1>1, Invariance, PTL

\* A decision stays readable until the first of its record's two deadlines.
THEOREM DecisionsAreKept == Spec => DecisionKept
<1>1. IInv /\ [Next]_vars => [KeepsDecisions]_vars
  BY StepKeeps
<1> QED BY <1>1, Invariance, PTL DEF Spec, DecisionKept

\* A rejection is final, and an approval never becomes pending again.
THEOREM AnswersStand == Spec => AnswersAreFinal
<1>1. IInv /\ [Next]_vars => [KeepsAnswers]_vars
  BY StepKeeps
<1> QED BY <1>1, Invariance, PTL DEF Spec, AnswersAreFinal

------------------------------------------------------------------------------
(* The store implements the gate *)

LEMMA InitImplements == Init => Gate!Init
<1> SUFFICES ASSUME Init PROVE Gate!Init
  OBVIOUS
<1>1. Verdict = [id \in Ids |-> "unasked"]
  BY DEF Init, Verdict
<1> QED BY <1>1 DEF Init, Gate!Init

\* The gate counts as the store does: each instantiates FiniteSets.
LEMMA SameCardinality == ASSUME NEW S PROVE Gate!Cardinality(S) = Cardinality(S)
BY DEF Cardinality, Gate!Cardinality

\* The gate knows exactly the stored records.
LEMMA GateSets ==
  ASSUME TypeOK
  PROVE  Gate!Known = Stored /\ Gate!Undecided = Pending /\ Gate!Oldest = OldestPending
<1>1. Gate!Known = Stored
  BY DEF Gate!Known, Stored, Verdict, TypeOK
<1>2. Gate!Undecided = Pending
  BY DEF Gate!Undecided, Pending, Verdict
<1>3. Gate!Oldest = OldestPending
  BY <1>2 DEF Gate!Oldest, OldestPending
<1> QED BY <1>1, <1>2, <1>3

\* Replacing records turns the verdicts: who was asked is not idle, and who is
\* asked for now is idle no longer.
LEMMA ReplaceTurns ==
  ASSUME IInv, NEW gone \in SUBSET Stored, NEW added \in SUBSET Ids, Replace(gone, added),
         \A id \in Ids \ added : pc'[id] = pc[id], UNCHANGED <<clock, told>>
  PROVE  Gate!Turn(gone, added)
<1>1. \A id \in gone : pc[id] # "idle"
  BY DEF Stored, IInv, Answers
<1>2. Verdict' = [id \in Ids |-> IF id \in added THEN "pending"
                                 ELSE IF id \in gone THEN "forgotten" ELSE Verdict[id]]
  BY <1>1 DEF Replace, Verdict, IInv, TypeOK
<1> QED BY <1>2 DEF Replace, Gate!Turn

LEMMA RequestAsks ==
  ASSUME IInv, NEW id \in Ids, RequestApproval(id)
  PROVE  Gate!Ask(id)
<1>1. PICK evicted \in Evictable : Replace(evicted, {id})
  BY DEF RequestApproval
<1>2. /\ Verdict[id] = "unasked" /\ status[id] = "none"
      /\ \A i \in Ids \ {id} : pc'[i] = pc[i]
      /\ UNCHANGED <<clock, told>>
  BY DEF RequestApproval, Verdict, loopVars, IInv, TypeOK, Answers
<1>3. Evictable \subseteq SUBSET Stored
  BY DEF Evictable, OldestPending, Pending, Stored
<1>4. Gate!Turn(evicted, {id})
  BY <1>1, <1>2, <1>3, ReplaceTurns
<1>5. TypeOK /\ TypeOK' /\ PendingBounded'
  BY RequestKeeps DEF IInv
<1>6. Gate!Cardinality(Gate!Undecided') <= MaxRecords
  <2>1. Gate!Undecided' = Pending'
    BY DEF Gate!Undecided, Pending, Verdict
  <2> QED BY <2>1, <1>5, SameCardinality DEF PendingBounded
<1>7. CASE evicted = {}
  BY <1>2, <1>4, <1>6, <1>7 DEF Gate!Ask
<1>8. CASE evicted # {}
  <2>1. Cardinality(Stored) >= MaxRecords /\ \E old \in OldestPending : evicted = {old}
    BY <1>8 DEF Evictable
  <2> QED BY <2>1, <1>2, <1>4, <1>5, <1>6, GateSets, SameCardinality DEF Gate!Ask
<1> QED BY <1>7, <1>8

LEMMA ResolveDecides ==
  ASSUME IInv, NEW id \in Ids, NEW decision \in {"approved", "rejected"}, Resolve(id, decision)
  PROVE  Gate!Decide(id, decision)
<1>1. Verdict[id] = "pending"
  BY DEF Resolve, Verdict
<1>2. Verdict' = [Verdict EXCEPT ![id] = decision]
  BY DEF Resolve, Verdict, clientVars, IInv, TypeOK
<1> QED BY <1>1, <1>2 DEF Resolve, Gate!Decide, loopVars, clientVars

LEMMA CheckTells ==
  ASSUME IInv, NEW id \in Ids, Check(id)
  PROVE  Gate!Tell(id)
<1>1. /\ Verdict[id] # "unasked" /\ Verdict' = Verdict
      /\ Verdict[id] = IF status[id] = "none" THEN "forgotten" ELSE status[id]
      /\ status[id] # "forgotten"
  BY DEF Check, Verdict, recordVars, IInv, TypeOK
<1> QED BY <1>1 DEF Check, Gate!Tell, recordVars, loopVars

\* A timer or the sweep deletes what a deadline of has passed.
LEMMA DeletionForgets ==
  ASSUME IInv, NEW gone \in SUBSET Stored, DeleteRecords(gone), UNCHANGED <<clock, clientVars>>,
         \A id \in gone : \/ clock >= createdAt[id] + PendingTTL
                          \/ Decided(id) /\ clock >= resolvedAt[id] + ResolvedTTL
  PROVE  Gate!Forget
<1>1. Gate!Turn(gone, {})
  BY ReplaceTurns DEF DeleteRecords, clientVars
<1>2. \A id \in gone : id \in Gate!Known /\ (Decided(id) => id \notin Gate!Undecided)
  BY GateSets DEF IInv, Decided, Pending
<1>3. gone \in SUBSET {id \in Ids : Gate!Expired(id)}
  BY <1>2 DEF Gate!Expired, Stored
<1> QED BY <1>1, <1>3 DEF Gate!Forget

LEMMA TimersForget ==
  ASSUME IInv, NEW id \in Ids, PendingTimer(id) \/ ResolvedTimer(id)
  PROVE  Gate!Forget
<1>1. /\ DeleteRecords({id}) /\ UNCHANGED <<clock, clientVars>>
      /\ \/ clock >= createdAt[id] + PendingTTL
         \/ Decided(id) /\ clock >= resolvedAt[id] + ResolvedTTL
      /\ id \in Stored
  BY DEF PendingTimer, ResolvedTimer, PendingDue, ResolvedDue, loopVars, IInv, Timers, Decided,
         Stored
<1> QED BY <1>1, DeletionForgets

LEMMA SweepForgets ==
  ASSUME IInv, Sweep
  PROVE  Gate!Forget
<1> DEFINE gone == {id \in Stored : clock > Deadline(id)}
<1>1. DeleteRecords(gone) /\ UNCHANGED <<clock, clientVars>>
  BY DEF Sweep
<1>2. ASSUME NEW id \in gone
      PROVE  \/ clock >= createdAt[id] + PendingTTL
             \/ Decided(id) /\ clock >= resolvedAt[id] + ResolvedTTL
  BY ApprovalAssumption DEF Deadline, Decided, Stored, IInv, TypeOK
<1>3. gone \in SUBSET Stored
  OBVIOUS
<1> HIDE DEF gone
<1> QED BY <1>1, <1>2, <1>3, DeletionForgets

\* Handlers that touch no record, the server and its loop: nothing to see.
LEMMA OthersStutter ==
  ASSUME IInv,
         \/ \E id \in Ids : Notified(id) \/ Wait(id)
         \/ Stop \/ EndLoop \/ Start \/ UNCHANGED vars
  PROVE  UNCHANGED Gate!gateVars
<1>1. UNCHANGED <<clock, status, createdAt, resolvedAt, told>>
  BY DEF Notified, Wait, Stop, EndLoop, Start, vars, loopVars, recordVars, clientVars
<1>2. \A id \in Ids : (pc'[id] = "idle") <=> (pc[id] = "idle")
  BY DEF Notified, Wait, Stop, EndLoop, Start, vars, clientVars, IInv, TypeOK
<1>3. Verdict' = Verdict
  BY <1>1, <1>2 DEF Verdict
<1> QED BY <1>1, <1>3 DEF Gate!gateVars

LEMMA StepImplements ==
  ASSUME IInv, [Next]_vars
  PROVE  [Gate!Next]_(Gate!gateVars)
<1>1. ASSUME NEW id \in Ids, RequestApproval(id) PROVE Gate!Next
  BY <1>1, RequestAsks DEF Gate!Next
<1>2. ASSUME NEW id \in Ids, NEW d \in {"approved", "rejected"}, Resolve(id, d) PROVE Gate!Next
  BY <1>2, ResolveDecides DEF Gate!Next
<1>3. ASSUME NEW id \in Ids, Check(id) PROVE Gate!Next
  BY <1>3, CheckTells DEF Gate!Next
<1>4. ASSUME NEW id \in Ids, PendingTimer(id) \/ ResolvedTimer(id) PROVE Gate!Next
  BY <1>4, TimersForget DEF Gate!Next
<1>5. CASE Sweep
  BY <1>5, SweepForgets DEF Gate!Next
<1>6. CASE Tick
  <2>1. Verdict' = Verdict
    BY <1>6 DEF Tick, Verdict, recordVars, clientVars
  <2> QED BY <2>1, <1>6 DEF Tick, Gate!Next, Gate!Pass, recordVars, clientVars
<1>7. CASE \/ \E id \in Ids : Notified(id) \/ Wait(id)
           \/ Stop \/ EndLoop \/ Start \/ UNCHANGED vars
  BY <1>7, OthersStutter
<1> QED BY <1>1, <1>2, <1>3, <1>4, <1>5, <1>6, <1>7 DEF Next, Store

\* The store keeps what the gate promises, whatever its limits and however often
\* the server and its loop are restarted.
THEOREM Implements == Spec => ImplementsGate
<1>1. IInv /\ [Next]_vars => [Gate!Next]_(Gate!gateVars)
  BY StepImplements
<1> QED BY <1>1, InitImplements, Invariance, PTL DEF Spec, ImplementsGate, Gate!Spec
==============================================================================

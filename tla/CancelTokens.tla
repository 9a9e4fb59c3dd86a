---------------------------- MODULE CancelTokens -----------------------------
(***************************************************************************)
(* The call_id -> CancelToken registry of ExecutionRouter                  *)
(* (server/router.py).  handle_call registers a token before it dispatches *)
(* and releases the slot in a finally; cancel() signals the token it finds *)
(* or leaves a tombstone.  Every access is under _cancel_lock, so each     *)
(* critical section is one action; a dispatch spans the steps in between.  *)
(*                                                                         *)
(* _cancel_tokens is an OrderedDict: slot is its content and order its     *)
(* insertion order, oldest first.  A token is identified with the call     *)
(* that created it; cancelled[c] is its flag.  A tombstone is a token of   *)
(* no call, cancelled when it is created.                                  *)
(***************************************************************************)
EXTENDS Naturals, Sequences, SequencesExt, FiniteSets

CONSTANTS Calls,      \* invocations of handle_call
          Ids,        \* call ids: extras.call_id, _meta.progressToken or a uuid
          MaxTokens,  \* _CANCEL_TOKENS_MAX
          UniqueIds,  \* clients never reuse the id of a call still in flight
          Free,       \* no entry for this id
          Tombstone,  \* a cancelled token no call owns
          NoId        \* call_id of a call that has not been submitted

ASSUME CancelAssumption ==
  /\ MaxTokens \in Nat \ {0}
  /\ UniqueIds \in BOOLEAN
  /\ Free \notin Calls
  /\ Tombstone \notin Calls
  /\ Free # Tombstone
  /\ NoId \notin Ids

VARIABLES
  pc,         \* where each handle_call is: "idle", "running" or "done"
  callId,     \* the id each call registered under
  cancelled,  \* is_cancelled of the token each call created
  slot,       \* _cancel_tokens: the token stored under each id
  order,      \* insertion order of the ids in _cancel_tokens, oldest first
  owed,       \* history: ids cancelled since their slot was last released
  since       \* history: ids registered while each call was in flight, its own
              \* among them when another call used it at the same time

vars == <<pc, callId, cancelled, slot, order, owed, since>>

Tokens == Calls \cup {Tombstone}

InFlight(c, id) == pc[c] = "running" /\ callId[c] = id
Present == ToSet(order)

------------------------------------------------------------------------------
(* The OrderedDict *)

\* The ids without id, which occurs at most once: dict.pop(id, None).
Without(s, id) ==
  IF id \in ToSet(s) THEN RemoveAt(s, CHOOSE i \in DOMAIN s : s[i] = id) ELSE s

\* Slips the runs must catch: one entry too many, and popitem(last=True).
EvictLate(s) ==
  IF Len(s) > MaxTokens + 1 THEN SubSeq(s, Len(s) - MaxTokens, Len(s)) ELSE s
EvictNewest(s) == SubSeq(s, 1, IF Len(s) > MaxTokens THEN MaxTokens ELSE Len(s))

\* _evict_cancel_tokens_locked: popitem(last=False) until the size is legal.
Evict(s) ==
  IF Len(s) > MaxTokens THEN SubSeq(s, Len(s) - MaxTokens + 1, Len(s)) ELSE s

\* Store token under id, move_to_end and evict.
Put(id, token) ==
  /\ order' = Evict(Append(Without(order, id), id))
  /\ slot' = [i \in Ids |-> IF i \notin ToSet(order') THEN Free
                            ELSE IF i = id THEN token ELSE slot[i]]

\* pop(id, None)
Release(id) ==
  /\ order' = Without(order, id)
  /\ slot' = [slot EXCEPT ![id] = Free]

\* Calls in flight see one more registration.
Crowd(id) == [c \in Calls |-> IF pc[c] = "running" THEN since[c] \cup {id} ELSE since[c]]

\* existing is not None and existing.is_cancelled
Signalled(id) == slot[id] = Tombstone \/ \E c \in Calls : slot[id] = c /\ cancelled[c]

------------------------------------------------------------------------------
Init ==
  /\ pc = [c \in Calls |-> "idle"]
  /\ callId = [c \in Calls |-> NoId]
  /\ cancelled = [c \in Calls |-> FALSE]
  /\ slot = [i \in Ids |-> Free]
  /\ order = <<>>
  /\ owed = {}
  /\ since = [c \in Calls |-> {}]

\* Slips: the tombstone is ignored; a call without an id is not given a uuid.
BeginAfresh(c, id) ==
  /\ pc[c] = "idle"
  /\ UniqueIds => \A d \in Calls : ~InFlight(d, id)
  /\ pc' = [pc EXCEPT ![c] = "running"]
  /\ callId' = [callId EXCEPT ![c] = id]
  /\ Put(id, c)
  /\ since' = Crowd(id)
  /\ UNCHANGED <<cancelled, owed>>
BeginWithoutId(c, id) ==
  /\ pc[c] = "idle"
  /\ pc' = [pc EXCEPT ![c] = "running"]
  /\ Put(NoId, c)
  /\ UNCHANGED <<callId, cancelled, owed, since>>

\* handle_call up to the dispatch: a fresh token inherits the cancellation of
\* the token it replaces, then takes the slot.
Begin(c, id) ==
  /\ pc[c] = "idle"
  /\ UniqueIds => \A d \in Calls : ~InFlight(d, id)
  /\ pc' = [pc EXCEPT ![c] = "running"]
  /\ callId' = [callId EXCEPT ![c] = id]
  /\ cancelled' = [cancelled EXCEPT ![c] = Signalled(id)]
  /\ Put(id, c)
  /\ since' = [Crowd(id) EXCEPT ![c] = IF \E d \in Calls : InFlight(d, id)
                                       THEN {id} ELSE {}]
  /\ UNCHANGED owed

\* cancel(call_id) finds a token: signal it.  A tombstone is already signalled.
CancelFound(id) ==
  /\ slot[id] # Free
  /\ cancelled' = [c \in Calls |-> cancelled[c] \/ slot[id] = c]
  /\ owed' = owed \cup {id}
  /\ UNCHANGED <<pc, callId, slot, order, since>>

\* cancel(call_id) finds nothing: leave a tombstone.
CancelUnknown(id) ==
  /\ slot[id] = Free
  /\ Put(id, Tombstone)
  /\ owed' = owed \cup {id}
  /\ since' = Crowd(id)
  /\ UNCHANGED <<pc, callId, cancelled>>

\* Slips: an early return skips the finally; a cancelled token is left behind.
FinishLeaking(c) ==
  /\ pc[c] = "running"
  /\ pc' = [pc EXCEPT ![c] = "done"]
  /\ UNCHANGED <<callId, cancelled, slot, order, owed, since>>
FinishKeeping(c) ==
  /\ pc[c] = "running"
  /\ pc' = [pc EXCEPT ![c] = "done"]
  /\ IF cancelled[c] THEN UNCHANGED <<slot, order>> ELSE Release(callId[c])
  /\ owed' = owed \ {callId[c]}
  /\ UNCHANGED <<callId, cancelled, since>>

\* The dispatch returns, raises or is itself cancelled: the finally releases
\* the slot of the call's id, whoever owns it by then.
Finish(c) ==
  /\ pc[c] = "running"
  /\ pc' = [pc EXCEPT ![c] = "done"]
  /\ Release(callId[c])
  /\ owed' = owed \ {callId[c]}
  /\ UNCHANGED <<callId, cancelled, since>>

Next ==
  \/ \E c \in Calls, id \in Ids : Begin(c, id)
  \/ \E id \in Ids : CancelFound(id) \/ CancelUnknown(id)
  \/ \E c \in Calls : Finish(c)

Spec == Init /\ [][Next]_vars

------------------------------------------------------------------------------
TypeOK ==
  /\ pc \in [Calls -> {"idle", "running", "done"}]
  /\ callId \in [Calls -> Ids \cup {NoId}]
  /\ cancelled \in [Calls -> BOOLEAN]
  /\ slot \in [Ids -> Tokens \cup {Free}]
  /\ order \in Seq(Ids)
  /\ owed \in SUBSET Ids
  /\ since \in [Calls -> SUBSET Ids]

\* The map never outgrows _CANCEL_TOKENS_MAX, holds each id once, and slot and
\* order describe the same map (_evict_cancel_tokens_locked is called by both
\* writers, and a re-registered id is moved rather than listed twice).
RegistryBounded ==
  /\ Len(order) <= MaxTokens
  /\ IsInjective(order)
  /\ Present = {i \in Ids : slot[i] # Free}

\* A slot is held by a call in flight under that id, or by a tombstone: once no
\* call is in flight nothing but tombstones is left (the finally of handle_call
\* "so the map doesn't grow unboundedly").
SlotsAreInFlight ==
  \A i \in Ids, c \in Calls : slot[i] = c => InFlight(c, i)

\* A signal stored for an id was asked for since the id was last released: a release
\* takes the signal of its id with it, so that a signal cancels one call at most and
\* none comes from before the last call of its id ended.  One from after it does
\* cancel the next call of that id, although the docstring of cancel() says that
\* "After-complete cancels are a no-op" (server/router.py:628).
NoStaleCancellation ==
  \A i \in Ids : Signalled(i) => i \in owed

\* A call whose id nobody else uses at the same time can be found by cancel()
\* until MaxTokens other ids have been registered after it: eviction is strictly
\* oldest first, and nobody else releases its slot.
InFlightCancellable ==
  \A c \in Calls : \A i \in Ids :
    InFlight(c, i) /\ i \notin since[c] /\ slot[i] # c => Cardinality(since[c]) >= MaxTokens

\* "an inbound notifications/cancelled ... cooperatively cancels in-flight work":
\* every call in flight can be found by cancel().
InFlightWorkCancellable ==
  \A c \in Calls : pc[c] = "running" => slot[callId[c]] = c

\* As long as the ids in use fit the map, the registry is invisible: what the
\* calls see is what CancelPromise specifies.
Promise == INSTANCE CancelPromise WITH asked <- {i \in Ids : Signalled(i)}
ImplementsPromise == Promise!Spec
==============================================================================

------------------------------- MODULE Outbox -------------------------------
(* The transactional outbox: events committed by the services, claimed in     *)
(* batches by several polling workers, published to the broker and marked.    *)
(*                                                                            *)
(* Both server.js and workers/outbox.js start a worker, so more than one runs *)
(* against the table.  The claim is a READ COMMITTED transaction: ClaimSelect *)
(* is its first findMany, ClaimLock its updateMany, second findMany and       *)
(* commit.  What a worker works from afterwards is the snapshot it claimed,   *)
(* while the row may move on: the lock may expire or be taken over.           *)
EXTENDS Naturals, FiniteSets

CONSTANTS
  Event,        \* events, numbered in the order of createdAt
  Worker,       \* polling workers
  MaxAttempts,  \* QUEUE_MAX_ATTEMPTS: failures before an event is dead-lettered
  BatchSize,    \* rows of one claim
  MaxFailures,  \* bound: failed publications (or marks) of one event
  MaxStops      \* bound: batches abandoned by a crash or a database error

ASSUME OutboxAssumption ==
  /\ Event \subseteq Nat /\ IsFiniteSet(Event)
  /\ MaxAttempts \in Nat \ {0}
  /\ BatchSize \in Nat \ {0}
  /\ MaxFailures \in Nat /\ MaxStops \in Nat

VARIABLES
  emitted,    \* events whose transaction has committed
  outbox,     \* [Event -> Row]
  selected,   \* [Worker -> SUBSET Event]: ids of a claim before its update
  batch,      \* [Worker -> SUBSET Snapshot]: claimed events still to publish
  result,     \* [Worker -> SUBSET Result]: the event published and not yet marked
  delivered,  \* history: events the broker has accepted at least once
  failures,   \* history: [Event -> Nat], failed publications or marks
  stops       \* abandoned batches so far

vars == <<emitted, outbox, selected, batch, result, delivered, failures, stops>>

LockState == {"FREE", "HELD", "EXPIRED"}
Row       == [attempts : Nat, processed : BOOLEAN, dead : BOOLEAN,
              lock : LockState, due : BOOLEAN]
Snapshot  == [id : Event, attempts : Nat]
Result    == [event : Snapshot, ok : BOOLEAN]

NewRow == [attempts |-> 0, processed |-> FALSE, dead |-> FALSE,
           lock |-> "FREE", due |-> TRUE]

Settled(row) == row.processed \/ row.dead

(* The types, and one pass of a worker at a time: it claims nothing while an  *)
(* event of its last claim is unpublished or unmarked (outbox.worker.js:40).  *)
OutboxTypeOK ==
  /\ emitted \subseteq Event
  /\ outbox \in [Event -> Row]
  /\ selected \in [Worker -> SUBSET Event]
  /\ batch \in [Worker -> SUBSET Snapshot]
  /\ result \in [Worker -> SUBSET Result]
  /\ delivered \subseteq Event
  /\ failures \in [Event -> Nat]
  /\ stops \in Nat
  /\ \A w \in Worker : selected[w] # {} => batch[w] = {} /\ result[w] = {}

OutboxInit ==
  /\ emitted = {}
  /\ outbox = [e \in Event |-> NewRow]
  /\ selected = [w \in Worker |-> {}]
  /\ batch = [w \in Worker |-> {}]
  /\ result = [w \in Worker |-> {}]
  /\ delivered = {}
  /\ failures = [e \in Event |-> 0]
  /\ stops = 0

-----------------------------------------------------------------------------
(* A service commits its transaction, and the event with it. *)
Emit(e) ==
  /\ e \notin emitted
  /\ emitted' = emitted \cup {e}
  /\ UNCHANGED <<outbox, selected, batch, result, delivered, failures, stops>>

(* Mutant: the pass ends without awaiting the mark of its last event. *)
IdleOnceSent(w) == selected[w] = {} /\ batch[w] = {}

(* A tick starts no pass while the worker's last pass is running. *)
Idle(w) == selected[w] = {} /\ batch[w] = {} /\ result[w] = {}

(* Mutant: only free locks are claimed, an expired one never. *)
ClaimableIfFree(row) == ~row.processed /\ ~row.dead /\ row.due /\ row.lock = "FREE"

Claimable(row) == ~row.processed /\ ~row.dead /\ row.due /\ row.lock # "HELD"

Candidates == {e \in emitted : Claimable(outbox[e])}

(* orderBy createdAt asc, take limit *)
Oldest(S) == {e \in S : Cardinality({d \in S : d < e}) < BatchSize}

ClaimSelect(w) ==
  /\ Idle(w)
  /\ Candidates # {}
  /\ selected' = [selected EXCEPT ![w] = Oldest(Candidates)]
  /\ UNCHANGED <<emitted, outbox, batch, result, delivered, failures, stops>>

(* Mutant: the update takes every selected id. *)
LockableAlways(row) == TRUE

(* The update rechecks that the event is not settled, and not that its lock is *)
(* still free: a lock taken by another worker since the select is taken over.  *)
Lockable(row) == ~row.processed /\ ~row.dead

ClaimLock(w) ==
  LET locked == {e \in selected[w] : Lockable(outbox[e])} IN
  /\ selected[w] # {}
  /\ outbox' = [e \in Event |-> IF e \in locked
                                  THEN [outbox[e] EXCEPT !.lock = "HELD"]
                                  ELSE outbox[e]]
  /\ batch' = [batch EXCEPT ![w] =
                 {[id |-> e, attempts |-> outbox[e].attempts] : e \in locked}]
  /\ selected' = [selected EXCEPT ![w] = {}]
  /\ UNCHANGED <<emitted, result, delivered, failures, stops>>

(* broker.publish resolves. *)
Publish(w, m) ==
  /\ m \in batch[w] /\ result[w] = {}
  /\ batch' = [batch EXCEPT ![w] = @ \ {m}]
  /\ result' = [result EXCEPT ![w] = {[event |-> m, ok |-> TRUE]}]
  /\ delivered' = delivered \cup {m.id}
  /\ UNCHANGED <<emitted, outbox, selected, failures, stops>>

(* broker.publish rejects, before or after the broker has accepted the event. *)
PublishThrows(w, m) ==
  /\ m \in batch[w] /\ result[w] = {}
  /\ failures[m.id] < MaxFailures
  /\ batch' = [batch EXCEPT ![w] = @ \ {m}]
  /\ result' = [result EXCEPT ![w] = {[event |-> m, ok |-> FALSE]}]
  /\ delivered' \in {delivered, delivered \cup {m.id}}
  /\ failures' = [failures EXCEPT ![m.id] = @ + 1]
  /\ UNCHANGED <<emitted, outbox, selected, stops>>

(* Mutant: the event is marked after the try and catch, published or not. *)
MarkProcessedAlways(w, r) ==
  /\ r \in result[w]
  /\ outbox' = [outbox EXCEPT ![r.event.id].processed = TRUE,
                              ![r.event.id].lock = "FREE"]
  /\ result' = [result EXCEPT ![w] = {}]
  /\ UNCHANGED <<emitted, selected, batch, delivered, failures, stops>>

(* outboxRepository.processed, inside the same try as the publication. *)
MarkProcessed(w, r) ==
  /\ r \in result[w] /\ r.ok
  /\ outbox' = [outbox EXCEPT ![r.event.id].processed = TRUE,
                              ![r.event.id].lock = "FREE"]
  /\ result' = [result EXCEPT ![w] = {}]
  /\ UNCHANGED <<emitted, selected, batch, delivered, failures, stops>>

(* It throws: the catch treats the published event as one that failed. *)
MarkThrows(w, r) ==
  /\ r \in result[w] /\ r.ok
  /\ failures[r.event.id] < MaxFailures
  /\ result' = [result EXCEPT ![w] = {[r EXCEPT !.ok = FALSE]}]
  /\ failures' = [failures EXCEPT ![r.event.id] = @ + 1]
  /\ UNCHANGED <<emitted, outbox, selected, batch, delivered, stops>>

(* Mutant: an event is given up one failure early. *)
ExhaustedEarly(attempts) == attempts + 1 >= MaxAttempts

(* The catch: attempts, the dead letter (or null) and the lock are written    *)
(* from the snapshot, whatever another worker has written since.              *)
Exhausted(attempts) == attempts >= MaxAttempts

MarkFailed(w, r) ==
  LET attempts == r.event.attempts + 1 IN
  /\ r \in result[w] /\ ~r.ok
  /\ outbox' = [outbox EXCEPT ![r.event.id].attempts = attempts,
                              ![r.event.id].dead = Exhausted(attempts),
                              ![r.event.id].due = FALSE,
                              ![r.event.id].lock = "FREE"]
  /\ result' = [result EXCEPT ![w] = {}]
  /\ UNCHANGED <<emitted, selected, batch, delivered, failures, stops>>

(* The process stops, or the claim or the catch throws and runOnce rejects:    *)
(* the batch is dropped and its rows stay locked.                              *)
Abandon(w) ==
  /\ ~Idle(w)
  /\ stops < MaxStops
  /\ selected' = [selected EXCEPT ![w] = {}]
  /\ batch' = [batch EXCEPT ![w] = {}]
  /\ result' = [result EXCEPT ![w] = {}]
  /\ stops' = stops + 1
  /\ UNCHANGED <<emitted, outbox, delivered, failures>>

(* Time passes: lockTimeoutMs since lockedAt, and nextAttemptAt. *)
LockExpires(e) ==
  /\ outbox[e].lock = "HELD"
  /\ outbox' = [outbox EXCEPT ![e].lock = "EXPIRED"]
  /\ UNCHANGED <<emitted, selected, batch, result, delivered, failures, stops>>

BackoffElapsed(e) ==
  /\ ~outbox[e].due
  /\ outbox' = [outbox EXCEPT ![e].due = TRUE]
  /\ UNCHANGED <<emitted, selected, batch, result, delivered, failures, stops>>

-----------------------------------------------------------------------------
Pass(w) ==
  \/ ClaimSelect(w)
  \/ ClaimLock(w)
  \/ \E m \in batch[w] : Publish(w, m) \/ PublishThrows(w, m)
  \/ \E r \in result[w] : MarkProcessed(w, r) \/ MarkThrows(w, r) \/ MarkFailed(w, r)

Clock(e) == LockExpires(e) \/ BackoffElapsed(e)

OutboxNext ==
  \/ \E e \in Event : Emit(e) \/ Clock(e)
  \/ \E w \in Worker : Pass(w) \/ Abandon(w)

(* A worker polls every second and runs its pass to the end; time passes. *)
OutboxFairness ==
  /\ \A w \in Worker : WF_vars(Pass(w))
  /\ \A e \in Event : WF_vars(LockExpires(e)) /\ WF_vars(BackoffElapsed(e))

OutboxSpec == OutboxInit /\ [][OutboxNext]_vars /\ OutboxFairness

-----------------------------------------------------------------------------
(* No event is lost: a row is marked processed only when the broker has       *)
(* accepted its event, whichever worker marked it and from whatever snapshot. *)
ProcessedWasDelivered == \A e \in Event : outbox[e].processed => e \in delivered

(* An event is given up only after MaxAttempts failures of its own, and its   *)
(* count never passes the limit, although workers overwrite one another's     *)
(* counts with what they read when they claimed it.                           *)
GivenUpOnlyExhausted ==
  \A e \in Event :
    /\ outbox[e].attempts <= MaxAttempts
    /\ outbox[e].dead => failures[e] >= MaxAttempts

(* A claim never takes an event that another worker has settled between the   *)
(* claim's select and its update.                                             *)
ClaimsOnlyUnsettled ==
  [][\A w \in Worker : \A m \in batch'[w] \ batch[w] : ~Settled(outbox[m.id])]_vars

(* Every committed event is in the end processed or dead-lettered for good:   *)
(* neither a crash that leaves it locked, nor a stale failure that revives a  *)
(* dead letter, leaves it waiting for ever.                                   *)
EventuallySettled ==
  \A e \in Event : (e \in emitted) ~> [](Settled(outbox[e]))
=============================================================================

--------------------------- MODULE Outbox_proofs ---------------------------
(***************************************************************************)
(* No event is lost and none is given up early, for any number of events   *)
(* and workers and any limits.  What makes the two facts inductive is what *)
(* a worker holds: a result that is ok was delivered, and a snapshot, stale *)
(* as it may be, counts no more failures than there were and was taken     *)
(* below the limit.                                                        *)
(***************************************************************************)
EXTENDS Outbox, TLAPS

(* What a worker still holds of the rows it claimed.                       *)
SnapshotSound(m) == m.attempts < MaxAttempts /\ m.attempts <= failures[m.id]

ResultSound(r) ==
  /\ SnapshotSound(r.event)
  /\ r.ok => r.event.id \in delivered
  /\ ~r.ok => r.event.attempts < failures[r.event.id]

RowSound(e) ==
  /\ outbox[e].processed => e \in delivered
  /\ outbox[e].attempts <= MaxAttempts
  /\ outbox[e].attempts <= failures[e]
  /\ outbox[e].attempts = MaxAttempts <=> outbox[e].dead

OutboxInv ==
  /\ OutboxTypeOK
  /\ \A e \in Event : RowSound(e)
  /\ \A w \in Worker : \A m \in batch[w] : SnapshotSound(m)
  /\ \A w \in Worker : \A r \in result[w] : ResultSound(r)

LEMMA InitSound == OutboxInit => OutboxInv
BY OutboxAssumption
   DEF OutboxInit, OutboxInv, OutboxTypeOK, Row, NewRow, LockState, RowSound

(***************************************************************************)
(* What the steps do to a row, a batch and a result, spelled out.          *)
(***************************************************************************)

(* A step that rewrites the one row of a result and clears the result.     *)
Rewrites(w, e, row) ==
  /\ outbox' = [outbox EXCEPT ![e] = row]
  /\ result' = [result EXCEPT ![w] = {}]
  /\ UNCHANGED <<emitted, selected, batch, delivered, failures, stops>>

LEMMA RewriteKeeps ==
  ASSUME OutboxInv, NEW w \in Worker, NEW e \in Event, NEW row \in Row,
         Rewrites(w, e, row),
         row.processed => e \in delivered,
         row.attempts <= MaxAttempts, row.attempts <= failures[e],
         row.attempts = MaxAttempts <=> row.dead
  PROVE  OutboxInv'
<1>1. outbox' \in [Event -> Row] /\ result' \in [Worker -> SUBSET Result]
  BY DEF OutboxInv, OutboxTypeOK, Rewrites
<1>2. OutboxTypeOK'
  BY <1>1 DEF OutboxInv, OutboxTypeOK, Rewrites
<1>3. ASSUME NEW x \in Event PROVE RowSound(x)'
  <2>1. CASE x = e
    <3>1. outbox'[x] = row
      BY <2>1 DEF Rewrites, OutboxInv, OutboxTypeOK
    <3> QED
      BY <2>1, <3>1 DEF RowSound, Rewrites
  <2>2. CASE x # e
    <3>1. outbox'[x] = outbox[x]
      BY <2>2 DEF Rewrites, OutboxInv, OutboxTypeOK
    <3> QED
      BY <3>1 DEF RowSound, Rewrites, OutboxInv
  <2> QED
    BY <2>1, <2>2
<1>4. \A v \in Worker : \A m \in batch'[v] : SnapshotSound(m)'
  BY DEF Rewrites, OutboxInv, SnapshotSound
<1>5. \A v \in Worker : \A r \in result'[v] : ResultSound(r)'
  <2>1. \A v \in Worker : result'[v] \subseteq result[v]
    BY DEF Rewrites, OutboxInv, OutboxTypeOK
  <2> QED
    BY <2>1 DEF Rewrites, OutboxInv, ResultSound, SnapshotSound
<1> QED
  BY <1>2, <1>3, <1>4, <1>5 DEF OutboxInv

(* A step that publishes m or fails to: the result is all that is new, and *)
(* the counts and the deliveries only grow.                                *)
LEMMA GrowthKeeps ==
  ASSUME OutboxInv, OutboxTypeOK',
         outbox' = outbox, delivered \subseteq delivered',
         \A e \in Event : failures[e] <= failures'[e],
         \A w \in Worker : batch'[w] \subseteq batch[w],
         \A w \in Worker : \A r \in result'[w] : r \in result[w] \/ ResultSound(r)'
  PROVE  OutboxInv'
<1>1. \A e \in Event : failures[e] \in Nat /\ failures'[e] \in Nat
  BY DEF OutboxInv, OutboxTypeOK
<1>2. ASSUME NEW e \in Event PROVE RowSound(e)'
  <2>1. RowSound(e) /\ outbox[e].attempts \in Nat
    BY DEF OutboxInv, OutboxTypeOK, Row
  <2> QED
    BY <1>1, <2>1 DEF RowSound
<1>3. ASSUME NEW m \in Snapshot, SnapshotSound(m) PROVE SnapshotSound(m)'
  BY <1>1, <1>3 DEF Snapshot, SnapshotSound
<1>4. \A w \in Worker : \A m \in batch'[w] : SnapshotSound(m)'
  BY <1>3 DEF OutboxInv, OutboxTypeOK
<1>5. ASSUME NEW r \in Result, ResultSound(r) PROVE ResultSound(r)'
  <2>1. r.event \in Snapshot /\ r.event.id \in Event /\ r.event.attempts \in Nat
    BY DEF Result, Snapshot
  <2> QED
    BY <1>1, <1>3, <1>5, <2>1 DEF ResultSound
<1>6. \A w \in Worker : \A r \in result'[w] : ResultSound(r)'
  BY <1>5 DEF OutboxInv, OutboxTypeOK
<1> QED
  BY <1>2, <1>4, <1>6 DEF OutboxInv

(***************************************************************************)
(* The invariant survives each step.                                       *)
(***************************************************************************)
LEMMA MarkKeeps ==
  ASSUME OutboxInv, NEW w \in Worker, NEW r \in result[w],
         MarkProcessed(w, r) \/ MarkFailed(w, r)
  PROVE  OutboxInv'
<1> DEFINE e == r.event.id
           row == outbox[e]
<1>1. /\ r \in Result /\ e \in Event /\ r.event.attempts \in Nat
      /\ row \in Row /\ failures[e] \in Nat /\ RowSound(e) /\ ResultSound(r)
  BY DEF OutboxInv, OutboxTypeOK, Result, Snapshot
<1>2. CASE MarkProcessed(w, r)
  <2> DEFINE new == [row EXCEPT !.processed = TRUE, !.lock = "FREE"]
  <2>1. new \in Row /\ new.attempts = row.attempts /\ new.dead = row.dead
    BY <1>1 DEF Row, LockState
  <2>2. Rewrites(w, e, new)
    BY <1>1, <1>2 DEF MarkProcessed, Rewrites, OutboxInv, OutboxTypeOK
  <2>3. e \in delivered
    BY <1>1, <1>2 DEF MarkProcessed, ResultSound
  <2>4. /\ new.attempts <= MaxAttempts /\ new.attempts <= failures[e]
        /\ new.attempts = MaxAttempts <=> new.dead
    BY <1>1, <2>1 DEF RowSound
  <2> HIDE DEF new
  <2> QED
    BY <1>1, <2>1, <2>2, <2>3, <2>4, RewriteKeeps
<1>3. CASE MarkFailed(w, r)
  <2> DEFINE attempts == r.event.attempts + 1
             gone == Exhausted(attempts)
             new == [row EXCEPT !.attempts = attempts, !.dead = gone,
                                !.due = FALSE, !.lock = "FREE"]
  <2>0. /\ attempts \in Nat
        /\ gone \in BOOLEAN
        /\ gone <=> attempts >= MaxAttempts
    BY <1>1 DEF Exhausted
  <2> HIDE DEF attempts, gone
  <2>1. /\ new \in Row /\ new.attempts = attempts
        /\ new.dead = gone
        /\ new.processed = row.processed
    BY <1>1, <2>0 DEF Row, LockState
  <2>2. Rewrites(w, e, new)
    BY <1>1, <1>3 DEF MarkFailed, Rewrites, OutboxInv, OutboxTypeOK, attempts, gone
  <2>3. new.processed => e \in delivered
    BY <1>1, <2>1 DEF RowSound
  <2>4. attempts <= MaxAttempts /\ attempts <= failures[e]
    BY <1>1, <1>3, OutboxAssumption DEF MarkFailed, ResultSound, SnapshotSound, attempts
  <2>5. new.attempts = MaxAttempts <=> new.dead
    <3> HIDE DEF new
    <3> QED
      BY <2>0, <2>1, <2>4, OutboxAssumption
  <2> HIDE DEF new
  <2> QED
    BY <1>1, <2>1, <2>2, <2>3, <2>4, <2>5, RewriteKeeps
<1> QED
  BY <1>2, <1>3

LEMMA PublishKeeps ==
  ASSUME OutboxInv, NEW w \in Worker, NEW m \in batch[w],
         Publish(w, m) \/ PublishThrows(w, m)
  PROVE  OutboxInv'
<1>1. m \in Snapshot /\ m.id \in Event /\ failures[m.id] \in Nat /\ SnapshotSound(m)
  BY DEF OutboxInv, OutboxTypeOK, Snapshot
<1> DEFINE r(ok) == [event |-> m, ok |-> ok]
<1>2. \A ok \in BOOLEAN : r(ok) \in Result
  BY <1>1 DEF Result
<1>3. CASE Publish(w, m)
  <2>1. OutboxTypeOK'
    BY <1>1, <1>2, <1>3 DEF Publish, OutboxInv, OutboxTypeOK
  <2>2. \A v \in Worker : batch'[v] \subseteq batch[v]
    BY <1>3 DEF Publish, OutboxInv, OutboxTypeOK
  <2>3. ResultSound(r(TRUE))'
    BY <1>1, <1>3 DEF Publish, ResultSound, SnapshotSound
  <2>4. \A v \in Worker : \A q \in result'[v] : q \in result[v] \/ q = r(TRUE)
    BY <1>3 DEF Publish, OutboxInv, OutboxTypeOK
  <2>5. outbox' = outbox /\ delivered \subseteq delivered' /\ failures' = failures
    BY <1>3 DEF Publish
  <2>6. \A e \in Event : failures[e] <= failures'[e]
    BY <2>5 DEF OutboxInv, OutboxTypeOK
  <2> HIDE DEF r
  <2> QED
    BY <2>1, <2>2, <2>3, <2>4, <2>5, <2>6, GrowthKeeps
<1>4. CASE PublishThrows(w, m)
  <2>1. failures' \in [Event -> Nat] /\ delivered' \subseteq Event
    BY <1>1, <1>4 DEF PublishThrows, OutboxInv, OutboxTypeOK
  <2>2. OutboxTypeOK'
    BY <1>1, <1>2, <1>4, <2>1 DEF PublishThrows, OutboxInv, OutboxTypeOK
  <2>3. \A v \in Worker : batch'[v] \subseteq batch[v]
    BY <1>4 DEF PublishThrows, OutboxInv, OutboxTypeOK
  <2>4. failures'[m.id] = failures[m.id] + 1
    BY <1>1, <1>4 DEF PublishThrows, OutboxInv, OutboxTypeOK
  <2>5. ResultSound(r(FALSE))'
    BY <1>1, <2>4 DEF ResultSound, SnapshotSound, Snapshot
  <2>6. \A v \in Worker : \A q \in result'[v] : q \in result[v] \/ q = r(FALSE)
    BY <1>4 DEF PublishThrows, OutboxInv, OutboxTypeOK
  <2>7. outbox' = outbox /\ delivered \subseteq delivered'
    BY <1>4 DEF PublishThrows
  <2>8. \A e \in Event : failures[e] <= failures'[e]
    BY <1>4 DEF PublishThrows, OutboxInv, OutboxTypeOK
  <2> HIDE DEF r
  <2> QED
    BY <2>2, <2>3, <2>5, <2>6, <2>7, <2>8, GrowthKeeps
<1> QED
  BY <1>3, <1>4

LEMMA MarkThrowsKeeps ==
  ASSUME OutboxInv, NEW w \in Worker, NEW r \in result[w], MarkThrows(w, r)
  PROVE  OutboxInv'
<1> DEFINE thrown == [r EXCEPT !.ok = FALSE]
           e == r.event.id
<1>1. r \in Result /\ e \in Event /\ r.event.attempts \in Nat /\ failures[e] \in Nat
      /\ ResultSound(r)
  BY DEF OutboxInv, OutboxTypeOK, Result, Snapshot
<1>2. thrown \in Result /\ thrown.event = r.event /\ ~thrown.ok
  BY <1>1 DEF Result
<1>3. failures' \in [Event -> Nat] /\ failures'[e] = failures[e] + 1
  BY <1>1 DEF MarkThrows, OutboxInv, OutboxTypeOK
<1>4. result' = [result EXCEPT ![w] = {thrown}]
  BY DEF MarkThrows
<1>5. outbox' = outbox /\ delivered' = delivered /\ batch' = batch
  BY DEF MarkThrows
<1>6. \A x \in Event : failures[x] <= failures'[x]
  BY DEF MarkThrows, OutboxInv, OutboxTypeOK
<1>7. ResultSound(thrown)'
  BY <1>1, <1>2, <1>3 DEF ResultSound, SnapshotSound
<1> HIDE DEF thrown
<1>8. OutboxTypeOK'
  BY <1>2, <1>3, <1>4 DEF MarkThrows, OutboxInv, OutboxTypeOK
<1>9. \A v \in Worker : \A q \in result'[v] : q \in result[v] \/ q = thrown
  BY <1>4 DEF OutboxInv, OutboxTypeOK
<1> QED
  BY <1>5, <1>6, <1>7, <1>8, <1>9, GrowthKeeps

(* Locks and due times: no row gains an attempt, and a snapshot is taken of *)
(* a row that is not dead, so below the limit.                             *)
LEMMA ClaimLockKeeps ==
  ASSUME OutboxInv, NEW w \in Worker, ClaimLock(w)
  PROVE  OutboxInv'
<1> DEFINE locked == {e \in selected[w] : Lockable(outbox[e])}
           taken  == {[id |-> e, attempts |-> outbox[e].attempts] : e \in locked}
<1>1. selected[w] \subseteq Event
  BY DEF OutboxInv, OutboxTypeOK
<1>2. \A e \in Event : /\ outbox'[e] \in Row
                       /\ outbox'[e].attempts = outbox[e].attempts
                       /\ outbox'[e].dead = outbox[e].dead
                       /\ outbox'[e].processed = outbox[e].processed
  BY DEF ClaimLock, OutboxInv, OutboxTypeOK, Row, LockState
<1>3. taken \subseteq Snapshot
  BY <1>1 DEF OutboxInv, OutboxTypeOK, Row, Snapshot
<1>4. \A m \in taken : SnapshotSound(m)
  <2> SUFFICES ASSUME NEW e \in locked
               PROVE  SnapshotSound([id |-> e, attempts |-> outbox[e].attempts])
    OBVIOUS
  <2>1. /\ e \in Event /\ RowSound(e) /\ ~outbox[e].dead
        /\ outbox[e].attempts \in Nat
    BY <1>1 DEF Lockable, OutboxInv, OutboxTypeOK, Row
  <2> QED
    BY <2>1, OutboxAssumption DEF RowSound, SnapshotSound
<1>5. /\ batch' = [batch EXCEPT ![w] = taken]
      /\ selected' = [selected EXCEPT ![w] = {}]
      /\ UNCHANGED <<emitted, result, delivered, failures, stops>>
  BY DEF ClaimLock
<1>6. outbox' \in [Event -> Row]
  BY <1>2 DEF ClaimLock
<1> HIDE DEF taken
<1>7. OutboxTypeOK'
  BY <1>3, <1>5, <1>6 DEF OutboxInv, OutboxTypeOK
<1>8. \A e \in Event : RowSound(e)'
  BY <1>2, <1>5 DEF OutboxInv, RowSound
<1>9. \A v \in Worker : \A m \in batch'[v] : SnapshotSound(m)'
  BY <1>4, <1>5 DEF OutboxInv, OutboxTypeOK, SnapshotSound
<1>10. \A v \in Worker : \A r \in result'[v] : ResultSound(r)'
  BY <1>5 DEF OutboxInv, ResultSound, SnapshotSound
<1> QED
  BY <1>7, <1>8, <1>9, <1>10 DEF OutboxInv

LEMMA ClockKeeps ==
  ASSUME OutboxInv, NEW e \in Event, Clock(e)
  PROVE  OutboxInv'
<1>1. \A x \in Event : /\ outbox'[x] \in Row
                       /\ outbox'[x].attempts = outbox[x].attempts
                       /\ outbox'[x].dead = outbox[x].dead
                       /\ outbox'[x].processed = outbox[x].processed
  <2>0. /\ outbox \in [Event -> Row] /\ outbox[e] \in Row
    BY DEF OutboxInv, OutboxTypeOK
  <2> DEFINE expired == [outbox[e] EXCEPT !.lock = "EXPIRED"]
             due == [outbox[e] EXCEPT !.due = TRUE]
  <2>1. \A row \in {expired, due} :
          /\ row \in Row /\ row.attempts = outbox[e].attempts
          /\ row.dead = outbox[e].dead /\ row.processed = outbox[e].processed
    BY <2>0 DEF Row, LockState
  <2>2. \E row \in {expired, due} : outbox' = [outbox EXCEPT ![e] = row]
    BY <2>0 DEF Clock, LockExpires, BackoffElapsed
  <2> HIDE DEF expired, due
  <2> QED
    BY <2>0, <2>1, <2>2
<1>2. UNCHANGED <<emitted, selected, batch, result, delivered, failures, stops>>
  BY DEF Clock, LockExpires, BackoffElapsed
<1>3. outbox' \in [Event -> Row]
  BY <1>1 DEF Clock, LockExpires, BackoffElapsed, OutboxInv, OutboxTypeOK
<1> QED
  BY <1>1, <1>2, <1>3
  DEF OutboxInv, OutboxTypeOK, RowSound, ResultSound, SnapshotSound

(* The other steps drop what a worker holds, or concern no row.            *)
LEMMA QuietKeeps ==
  ASSUME OutboxInv,
         \/ \E e \in Event : Emit(e)
         \/ \E w \in Worker : ClaimSelect(w) \/ Abandon(w)
  PROVE  OutboxInv'
<1>1. OutboxTypeOK'
  <2>1. ASSUME NEW e \in Event, Emit(e) PROVE OutboxTypeOK'
    BY <2>1 DEF Emit, OutboxInv, OutboxTypeOK
  <2>2. ASSUME NEW w \in Worker, ClaimSelect(w) PROVE OutboxTypeOK'
    <3>1. Oldest(Candidates) \subseteq Event
      BY DEF Oldest, Candidates, OutboxInv, OutboxTypeOK
    <3> QED
      BY <2>2, <3>1 DEF ClaimSelect, Idle, OutboxInv, OutboxTypeOK
  <2>3. ASSUME NEW w \in Worker, Abandon(w) PROVE OutboxTypeOK'
    BY <2>3 DEF Abandon, OutboxInv, OutboxTypeOK
  <2> QED
    BY <2>1, <2>2, <2>3
<1>2. outbox' = outbox /\ delivered' = delivered /\ failures' = failures
  BY DEF Emit, ClaimSelect, Abandon
<1>3. \A w \in Worker : batch'[w] \subseteq batch[w] /\ result'[w] \subseteq result[w]
  BY DEF Emit, ClaimSelect, Abandon, OutboxInv, OutboxTypeOK
<1>4. \A e \in Event : failures[e] <= failures'[e]
  BY <1>2 DEF OutboxInv, OutboxTypeOK
<1> QED
  BY <1>1, <1>2, <1>3, <1>4, GrowthKeeps

LEMMA InvStep == ASSUME OutboxInv, [OutboxNext]_vars PROVE OutboxInv'
<1>1. CASE UNCHANGED vars
  BY <1>1 DEF vars, OutboxInv, OutboxTypeOK, RowSound, ResultSound, SnapshotSound
<1> QED
  BY <1>1, QuietKeeps, ClockKeeps, ClaimLockKeeps, PublishKeeps, MarkKeeps, MarkThrowsKeeps
  DEF OutboxNext, Pass

LEMMA Sound == OutboxSpec => []OutboxInv
BY InitSound, InvStep, PTL DEF OutboxSpec

(***************************************************************************)
(* The theorems.                                                           *)
(***************************************************************************)

(* Every reachable state of the outbox and its workers has its types.      *)
THEOREM OutboxTypeCorrect == OutboxSpec => []OutboxTypeOK
<1>1. OutboxInv => OutboxTypeOK
  BY DEF OutboxInv
<1> QED
  BY <1>1, Sound, PTL

(* A row is marked processed only when the broker has accepted its event,  *)
(* however many workers overlap, crash or lose their locks.                *)
THEOREM NoEventLost == OutboxSpec => []ProcessedWasDelivered
<1>1. OutboxInv => ProcessedWasDelivered
  BY DEF OutboxInv, RowSound, ProcessedWasDelivered
<1> QED
  BY <1>1, Sound, PTL

(* An event is given up only after MaxAttempts failures, and its count     *)
(* never passes the limit, whatever stale counts are written.              *)
THEOREM GivenUpLate == OutboxSpec => []GivenUpOnlyExhausted
<1>1. OutboxInv => GivenUpOnlyExhausted
  <2> SUFFICES ASSUME OutboxInv, NEW e \in Event
               PROVE  /\ outbox[e].attempts <= MaxAttempts
                      /\ outbox[e].dead => failures[e] >= MaxAttempts
    BY DEF GivenUpOnlyExhausted
  <2>1. RowSound(e) /\ outbox[e].attempts \in Nat /\ failures[e] \in Nat
    BY DEF OutboxInv, OutboxTypeOK, Row
  <2> QED
    BY <2>1, OutboxAssumption DEF RowSound
<1> QED
  BY <1>1, Sound, PTL

(* A claim takes no event that is settled by the time it is locked.        *)
THEOREM ClaimsUnsettled == OutboxSpec => ClaimsOnlyUnsettled
<1>1. ASSUME OutboxInv, [OutboxNext]_vars, NEW w \in Worker,
             NEW m \in batch'[w] \ batch[w]
      PROVE  ~Settled(outbox[m.id])
  <2>1. ASSUME NEW v \in Worker, ClaimLock(v)
        PROVE  ~Settled(outbox[m.id])
    BY <2>1 DEF ClaimLock, Lockable, Settled, OutboxInv, OutboxTypeOK
  <2>2. ASSUME NEW v \in Worker, ClaimSelect(v) \/ Abandon(v)
        PROVE  batch'[w] \subseteq batch[w]
    BY <1>1, <2>2 DEF ClaimSelect, Abandon, OutboxInv, OutboxTypeOK
  <2>3. ASSUME NEW v \in Worker, NEW n \in batch[v],
               Publish(v, n) \/ PublishThrows(v, n)
        PROVE  batch'[w] \subseteq batch[w]
    BY <1>1, <2>3 DEF Publish, PublishThrows, OutboxInv, OutboxTypeOK
  <2>4. ASSUME NEW v \in Worker, NEW r \in result[v],
               MarkProcessed(v, r) \/ MarkThrows(v, r) \/ MarkFailed(v, r)
        PROVE  batch'[w] \subseteq batch[w]
    BY <2>4 DEF MarkProcessed, MarkThrows, MarkFailed
  <2>5. ASSUME NEW e \in Event, Emit(e) \/ Clock(e)
        PROVE  batch'[w] \subseteq batch[w]
    BY <2>5 DEF Emit, Clock, LockExpires, BackoffElapsed
  <2>6. CASE UNCHANGED vars
    BY <2>6 DEF vars
  <2> QED
    BY <1>1, <2>1, <2>2, <2>3, <2>4, <2>5, <2>6 DEF OutboxNext, Pass
<1>2. OutboxInv /\ [OutboxNext]_vars
        => [\A w \in Worker : \A m \in batch'[w] \ batch[w] :
              ~Settled(outbox[m.id])]_vars
  BY <1>1
<1> QED
  BY <1>2, Sound, PTL DEF OutboxSpec, ClaimsOnlyUnsettled

(***************************************************************************)
(* A dead letter is revived by a worker that writes what it claimed before *)
(* (outbox.repository.js): that is the only way, and it comes to an end.   *)
(***************************************************************************)

(* A worker still has a snapshot of the event.                             *)
Holds(w, e) ==
  \/ \E m \in batch[w] : m.id = e
  \/ \E r \in result[w] : r.event.id = e

Done(e) == Settled(outbox[e]) /\ \A w \in Worker : ~Holds(w, e)

LEMMA DoneStays ==
  ASSUME OutboxInv, [OutboxNext]_vars, NEW e \in Event, Done(e)
  PROVE  Done(e)'
<1>1. ASSUME NEW w \in Worker, ClaimLock(w)
      PROVE  Done(e)'
  <2>1. outbox'[e] = outbox[e] /\ result' = result
    BY <1>1 DEF ClaimLock, Lockable, Done, Settled
  <2>2. ASSUME NEW v \in Worker, NEW m \in batch'[v]
        PROVE  m.id # e
    BY <1>1, <2>2 DEF ClaimLock, Lockable, Done, Settled, Holds, OutboxInv, OutboxTypeOK
  <2> QED
    BY <2>1, <2>2 DEF Done, Settled, Holds
<1>2. ASSUME NEW w \in Worker, NEW m \in batch[w], Publish(w, m) \/ PublishThrows(w, m)
      PROVE  Done(e)'
  <2>1. m.id # e /\ outbox' = outbox
    BY <1>2 DEF Done, Holds, Publish, PublishThrows
  <2>2. ASSUME NEW v \in Worker
        PROVE  /\ batch'[v] \subseteq batch[v]
               /\ \A r \in result'[v] : r \in result[v] \/ r.event = m
    BY <1>2 DEF Publish, PublishThrows, OutboxInv, OutboxTypeOK
  <2> QED
    BY <2>1, <2>2 DEF Done, Settled, Holds
<1>3. ASSUME NEW w \in Worker, NEW r \in result[w],
             MarkProcessed(w, r) \/ MarkThrows(w, r) \/ MarkFailed(w, r)
      PROVE  Done(e)'
  <2>1. r.event.id # e
    BY DEF Done, Holds
  <2>2. outbox'[e] = outbox[e] /\ batch' = batch
    BY <1>3, <2>1 DEF MarkProcessed, MarkThrows, MarkFailed, OutboxInv, OutboxTypeOK
  <2>3. ASSUME NEW v \in Worker
        PROVE  \A s \in result'[v] : s \in result[v] \/ s.event = r.event
    BY <1>3, <2>3 DEF MarkProcessed, MarkThrows, MarkFailed, OutboxInv, OutboxTypeOK, Result
  <2> QED
    BY <2>1, <2>2, <2>3 DEF Done, Settled, Holds
<1>4. ASSUME NEW w \in Worker, ClaimSelect(w) \/ Abandon(w)
      PROVE  Done(e)'
  <2>1. ASSUME NEW v \in Worker
        PROVE  batch'[v] \subseteq batch[v] /\ result'[v] \subseteq result[v]
    BY <1>4 DEF ClaimSelect, Abandon, OutboxInv, OutboxTypeOK
  <2> QED
    BY <1>4, <2>1 DEF ClaimSelect, Abandon, Done, Settled, Holds
<1>5. ASSUME NEW d \in Event, Emit(d) \/ Clock(d)
      PROVE  Done(e)'
  <2>1. /\ outbox'[e].processed = outbox[e].processed
        /\ outbox'[e].dead = outbox[e].dead
        /\ batch' = batch /\ result' = result
    BY <1>5 DEF Emit, Clock, LockExpires, BackoffElapsed, OutboxInv, OutboxTypeOK, Row
  <2> QED
    BY <2>1 DEF Done, Settled, Holds
<1>6. CASE UNCHANGED vars
  BY <1>6 DEF vars, Done, Settled, Holds
<1> QED
  BY <1>1, <1>2, <1>3, <1>4, <1>5, <1>6 DEF OutboxNext, Pass

(* Once an event is processed or dead-lettered and no worker has a snapshot*)
(* of it, it is settled for good: no claim takes it up again, and no stale *)
(* count revives it.                                                       *)
SettledForGood == \A e \in Event : [](Done(e) => []Settled(outbox[e]))

THEOREM SettledEventsStay == OutboxSpec => SettledForGood
<1>1. ASSUME NEW e \in Event
      PROVE  OutboxSpec => [](Done(e) => []Settled(outbox[e]))
  <2>1. OutboxInv /\ [OutboxNext]_vars /\ Done(e) => Done(e)'
    BY DoneStays
  <2>2. Done(e) => Settled(outbox[e])
    BY DEF Done
  <2> QED
    BY <2>1, <2>2, Sound, PTL DEF OutboxSpec
<1> QED
  BY <1>1 DEF SettledForGood
=============================================================================

---------------------------- MODULE EventDelivery ----------------------------
(* What becomes of one event after the outbox has published it to RabbitMQ:   *)
(* copies of it wait in the queue of its topic, consumers turn a copy into    *)
(* notifications and mails, and a failed copy goes through delay queues back  *)
(* to the queue until its attempts are used up.                               *)
(*                                                                            *)
(* Every delay queue is bound by the event's routing key, so a failed copy is *)
(* published into all that exist, not only into the one of its attempt.       *)
EXTENDS Naturals, FiniteSets

CONSTANTS
  Consumer,       \* processes that consume the queue
  Recipient,      \* participants to notify
  DeliveryMax,    \* QUEUE_MAX_ATTEMPTS
  MaxPublished,   \* bound: publications by the outbox
  MaxDropped      \* bound: connections lost with a copy unacknowledged

ASSUME EventDeliveryAssumption ==
  /\ DeliveryMax \in Nat \ {0}
  /\ MaxPublished \in Nat /\ MaxDropped \in Nat
  /\ IsFiniteSet(Consumer)

Attempt    == 1..DeliveryMax
DelayQueue == 1..(DeliveryMax - 1)

VARIABLES
  ready,        \* [Attempt -> Nat]: copies in the queue by x-attempt
  delayQueues,  \* delay queues that exist
  delayed,      \* [DelayQueue -> [Attempt -> Nat]]: copies in a delay queue
  consumer,     \* [Consumer -> ConsumerState]
  notified,     \* [Recipient -> Nat]: Notification rows of the event
  published,    \* publications so far
  dropped,      \* connections lost so far
  handled,      \* history: a handler has finished
  exhausted     \* history: a copy has used up its attempts

deliveryVars == <<ready, delayQueues, delayed, consumer, notified, published,
                  dropped, handled, exhausted>>

ConsumerStage == {"idle", "handling", "mailing", "failed", "published"}
ConsumerState == [stage : ConsumerStage, attempt : 0..DeliveryMax]
IdleConsumer  == [stage |-> "idle", attempt |-> 0]

EventDeliveryTypeOK ==
  /\ ready \in [Attempt -> Nat]
  /\ delayQueues \subseteq DelayQueue
  /\ delayed \in [DelayQueue -> [Attempt -> Nat]]
  /\ consumer \in [Consumer -> ConsumerState]
  /\ \A c \in Consumer : consumer[c].stage # "idle" => consumer[c].attempt \in Attempt
  /\ notified \in [Recipient -> Nat]
  /\ published \in 0..MaxPublished
  /\ dropped \in 0..MaxDropped
  /\ handled \in BOOLEAN /\ exhausted \in BOOLEAN

EventDeliveryInit ==
  /\ ready = [a \in Attempt |-> 0]
  /\ delayQueues = {}
  /\ delayed = [q \in DelayQueue |-> [a \in Attempt |-> 0]]
  /\ consumer = [c \in Consumer |-> IdleConsumer]
  /\ notified = [u \in Recipient |-> 0]
  /\ published = 0
  /\ dropped = 0
  /\ handled = FALSE
  /\ exhausted = FALSE

-----------------------------------------------------------------------------
Stage(c, s) == consumer' = [consumer EXCEPT ![c].stage = s]

(* The outbox delivers at least once. *)
PublishEvent ==
  /\ published < MaxPublished
  /\ published' = published + 1
  /\ ready' = [ready EXCEPT ![1] = @ + 1]
  /\ UNCHANGED <<delayQueues, delayed, consumer, notified, dropped, handled, exhausted>>

Receive(c) ==
  /\ consumer[c].stage = "idle"
  /\ \E a \in Attempt :
       /\ ready[a] > 0
       /\ ready' = [ready EXCEPT ![a] = @ - 1]
       /\ consumer' = [consumer EXCEPT ![c] = [stage |-> "handling", attempt |-> a]]
  /\ UNCHANGED <<delayQueues, delayed, notified, published, dropped, handled, exhausted>>

(* Mutant: rows are inserted for a copy whatever an earlier one has inserted. *)
StoreNotificationsAgain(c) ==
  /\ consumer[c].stage = "handling"
  /\ notified' = [u \in Recipient |-> notified[u] + 1]
  /\ Stage(c, "mailing")
  /\ UNCHANGED <<ready, delayQueues, delayed, published, dropped, handled, exhausted>>

(* createMany with skipDuplicates: one row for a user and an event *)
StoreNotifications(c) ==
  /\ consumer[c].stage = "handling"
  /\ notified' = [u \in Recipient |-> 1]
  /\ Stage(c, "mailing")
  /\ UNCHANGED <<ready, delayQueues, delayed, published, dropped, handled, exhausted>>

(* The mails are sent, again for a copy that failed half way; then the ack. *)
Finish(c) ==
  /\ consumer[c].stage = "mailing"
  /\ consumer' = [consumer EXCEPT ![c] = IdleConsumer]
  /\ handled' = TRUE
  /\ UNCHANGED <<ready, delayQueues, delayed, notified, published, dropped, exhausted>>

HandlerFails(c) ==
  /\ consumer[c].stage \in {"handling", "mailing"}
  /\ Stage(c, "failed")
  /\ UNCHANGED <<ready, delayQueues, delayed, notified, published, dropped, handled, exhausted>>

(* Mutant: the copy keeps its attempt. *)
NextAttemptSame(a) == a

(* x-attempt of the copy *)
NextAttempt(a) == a + 1

(* The delay queue of the attempt is declared and bound, and the copy goes    *)
(* into every delay queue there is.                                           *)
Retry(c) ==
  LET a == consumer[c].attempt IN
  /\ consumer[c].stage = "failed" /\ a < DeliveryMax
  /\ delayQueues' = delayQueues \cup {a}
  /\ delayed' = [q \in DelayQueue |->
       IF q \in delayQueues' THEN [delayed[q] EXCEPT ![NextAttempt(a)] = @ + 1]
       ELSE delayed[q]]
  /\ Stage(c, "published")
  /\ UNCHANGED <<ready, notified, published, dropped, handled, exhausted>>

(* The exchange for dead letters has no queue: the copy is gone. *)
GiveUp(c) ==
  /\ consumer[c].stage = "failed" /\ consumer[c].attempt = DeliveryMax
  /\ exhausted' = TRUE
  /\ Stage(c, "published")
  /\ UNCHANGED <<ready, delayQueues, delayed, notified, published, dropped, handled>>

AckFailed(c) ==
  /\ consumer[c].stage = "published"
  /\ consumer' = [consumer EXCEPT ![c] = IdleConsumer]
  /\ UNCHANGED <<ready, delayQueues, delayed, notified, published, dropped, handled, exhausted>>

(* The connection is lost: what was not acknowledged is delivered again.  An  *)
(* ack may be lost with it, after the handler has finished.                   *)
ConnectionLost(c) ==
  /\ dropped < MaxDropped
  /\ consumer[c].stage # "idle"
  /\ dropped' = dropped + 1
  /\ ready' = [ready EXCEPT ![consumer[c].attempt] = @ + 1]
  /\ handled' \in {handled, handled \/ consumer[c].stage = "mailing"}
  /\ consumer' = [consumer EXCEPT ![c] = IdleConsumer]
  /\ UNCHANGED <<delayQueues, delayed, notified, published, exhausted>>

(* A copy's time in the delay queue is over. *)
Redeliver(q) ==
  /\ \E a \in Attempt :
       /\ delayed[q][a] > 0
       /\ delayed' = [delayed EXCEPT ![q][a] = @ - 1]
       /\ ready' = [ready EXCEPT ![a] = @ + 1]
  /\ UNCHANGED <<delayQueues, consumer, notified, published, dropped, handled, exhausted>>

(* An unused delay queue goes, with the copies other attempts have put there: *)
(* only a declaration is a use, and it lasts longer than the queue's own      *)
(* copies stay.                                                               *)
DelayQueueExpires(q) ==
  /\ q \in delayQueues
  /\ delayed[q][q + 1] = 0
  /\ delayQueues' = delayQueues \ {q}
  /\ delayed' = [delayed EXCEPT ![q] = [a \in Attempt |-> 0]]
  /\ UNCHANGED <<ready, consumer, notified, published, dropped, handled, exhausted>>

ConsumerStep(c) ==
  Receive(c) \/ StoreNotifications(c) \/ Finish(c) \/ HandlerFails(c)
  \/ Retry(c) \/ GiveUp(c) \/ AckFailed(c)

EventDeliveryNext ==
  \/ PublishEvent
  \/ \E c \in Consumer : ConsumerStep(c) \/ ConnectionLost(c)
  \/ \E q \in DelayQueue : Redeliver(q) \/ DelayQueueExpires(q)

(* Consumers go on, and the broker returns a delayed copy. *)
EventDeliveryFairness ==
  /\ WF_deliveryVars(\E c \in Consumer : ConsumerStep(c))
  /\ WF_deliveryVars(\E q \in DelayQueue : Redeliver(q))

EventDeliverySpec ==
  EventDeliveryInit /\ [][EventDeliveryNext]_deliveryVars /\ EventDeliveryFairness

-----------------------------------------------------------------------------
(* A recipient has at most one notification of the event, also when it is     *)
(* published again or a copy is handled again after a mail failed             *)
(* (notification.consumer.repository.js createMany); a handled event has one  *)
(* for every recipient.                                                       *)
NotifiedOnce ==
  \A u \in Recipient : notified[u] <= 1 /\ (handled => notified[u] = 1)

(* An event that was published and neither handled nor given up is still on   *)
(* its way: in the queue, with a consumer that has yet to deal with it, or in  *)
(* the delay queue it was retried through (rabbitmq-broker.js), which does not *)
(* expire under it.                                                           *)
OnItsWay ==
  \/ \E a \in Attempt : ready[a] > 0
  \/ \E c \in Consumer : consumer[c].stage \in {"handling", "mailing", "failed"}
  \/ \E q \in DelayQueue : delayed[q][q + 1] > 0

EventSurvives == published > 0 => handled \/ exhausted \/ OnItsWay

(* A published event is handled in the end, or its attempts are used up. *)
EventSettles == published > 0 ~> handled \/ exhausted
==============================================================================

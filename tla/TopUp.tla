-------------------------------- MODULE TopUp --------------------------------
(* A business tops up its wallet through the provider's hosted checkout.      *)
(*                                                                            *)
(* One WalletTopUp exists per idempotency key, and several requests may carry *)
(* the same key.  The money is reported twice, by the provider's webhook and  *)
(* by the reconciliation the payments page starts, under two event ids.       *)
(* Events are applied in SERIALIZABLE transactions, one step each; the        *)
(* provider calls between the transactions are steps of their own.            *)
EXTENDS Naturals

CONSTANTS
  TopUp,        \* idempotency keys, each with at most one top-up
  Request,      \* concurrent createTopUp requests
  KeyOf         \* [Request -> TopUp]: the key a request carries

ASSUME TopUpAssumption == KeyOf \in [Request -> TopUp]

VARIABLES
  topUps,       \* [TopUp -> TopUpRow]
  checkout,     \* [TopUp -> CheckoutState]: the provider's session
  topUpCall,    \* [Request -> CallState]: what a request is waiting for
  checking,     \* [TopUp -> SUBSET Outcome]: answer a reconciliation works from
  reported,     \* SUBSET (TopUp \X Channel): recorded PaymentProviderEvent ids
  credited,     \* [TopUp -> Nat]: wallet credits posted for the top-up
  failedCalls   \* history: top-ups a provider call has failed for

topUpVars == <<topUps, checkout, topUpCall, checking, reported, credited, failedCalls>>

TopUpStatus   == {"NONE", "PENDING", "COMPLETED", "FAILED"}
TopUpRow      == [status : TopUpStatus, ref : BOOLEAN]
CheckoutState == {"NONE", "OPEN", "PROCESSING", "PAID", "DECLINED", "EXPIRED"}
CallState     == {"idle", "asking", "opened", "refused"}
Channel       == {"webhook", "reconcile"}
Outcome       == {"paid", "failed"}

TopUpTypeOK ==
  /\ topUps \in [TopUp -> TopUpRow]
  /\ checkout \in [TopUp -> CheckoutState]
  /\ topUpCall \in [Request -> CallState]
  /\ checking \in [TopUp -> SUBSET Outcome]
  /\ reported \subseteq TopUp \X Channel
  /\ credited \in [TopUp -> Nat]
  /\ failedCalls \subseteq TopUp

TopUpInit ==
  /\ topUps = [t \in TopUp |-> [status |-> "NONE", ref |-> FALSE]]
  /\ checkout = [t \in TopUp |-> "NONE"]
  /\ topUpCall = [r \in Request |-> "idle"]
  /\ checking = [t \in TopUp |-> {}]
  /\ reported = {}
  /\ credited = [t \in TopUp |-> 0]
  /\ failedCalls = {}

-----------------------------------------------------------------------------
(* createTopUp up to the provider call.  The row is found by its key or       *)
(* created; a COMPLETED top-up, or one with a checkout, is returned as it is. *)
(* A FAILED one without a checkout goes to the provider again.                *)
StartTopUp(r) ==
  LET t == KeyOf[r] IN
  /\ topUpCall[r] = "idle"
  /\ topUps[t].status # "COMPLETED" /\ ~topUps[t].ref
  /\ topUps' = [topUps EXCEPT ![t].status = IF @ = "NONE" THEN "PENDING" ELSE @]
  /\ topUpCall' = [topUpCall EXCEPT ![r] = "asking"]
  /\ UNCHANGED <<checkout, checking, reported, credited, failedCalls>>

(* The provider opens a session, the same one for the same idempotency key. *)
ProviderOpens(r) ==
  LET t == KeyOf[r] IN
  /\ topUpCall[r] = "asking"
  /\ topUpCall' = [topUpCall EXCEPT ![r] = "opened"]
  /\ checkout' = [checkout EXCEPT ![t] = IF @ = "NONE" THEN "OPEN" ELSE @]
  /\ UNCHANGED <<topUps, checking, reported, credited, failedCalls>>

(* The call fails or times out; the provider may have opened the session. *)
ProviderFails(r) ==
  LET t == KeyOf[r] IN
  /\ topUpCall[r] = "asking"
  /\ topUpCall' = [topUpCall EXCEPT ![r] = "refused"]
  /\ checkout' \in {checkout, [checkout EXCEPT ![t] = IF @ = "NONE" THEN "OPEN" ELSE @]}
  /\ failedCalls' = failedCalls \cup {t}
  /\ UNCHANGED <<topUps, checking, reported, credited>>

(* updateMany where status PENDING *)
MarkFailed(r) ==
  /\ topUpCall[r] = "refused"
  /\ topUps' = [topUps EXCEPT ![KeyOf[r]].status = IF @ = "PENDING" THEN "FAILED" ELSE @]
  /\ topUpCall' = [topUpCall EXCEPT ![r] = "idle"]
  /\ UNCHANGED <<checkout, checking, reported, credited, failedCalls>>

(* updateMany where providerRef null, whatever the status: the url of the     *)
(* checkout is stored and returned with it.                                   *)
SaveRef(r) ==
  /\ topUpCall[r] = "opened"
  /\ topUps' = [topUps EXCEPT ![KeyOf[r]].ref = TRUE]
  /\ topUpCall' = [topUpCall EXCEPT ![r] = "idle"]
  /\ UNCHANGED <<checkout, checking, reported, credited, failedCalls>>

(* The process stops, or the database refuses the write. *)
AbandonTopUp(r) ==
  /\ topUpCall[r] # "idle"
  /\ topUpCall' = [topUpCall EXCEPT ![r] = "idle"]
  /\ UNCHANGED <<topUps, checkout, checking, reported, credited, failedCalls>>

-----------------------------------------------------------------------------
(* The buyer at the provider: a session is reachable once its url was stored. *)
CheckoutNext == [OPEN |-> {"PROCESSING", "PAID", "EXPIRED"},
                 PROCESSING |-> {"PAID", "DECLINED"}]

CheckoutMoves(t) ==
  /\ checkout[t] \in DOMAIN CheckoutNext
  /\ \E c \in CheckoutNext[checkout[t]] :
       /\ c # "EXPIRED" => topUps[t].ref
       /\ checkout' = [checkout EXCEPT ![t] = c]
  /\ UNCHANGED <<topUps, topUpCall, checking, reported, credited, failedCalls>>

(* Mutant: the event's id is the only thing that keeps it from being applied. *)
ApplyEventAgain(t, via, outcome) ==
  /\ topUps[t].ref
  /\ IF <<t, via>> \in reported
       THEN UNCHANGED <<topUps, reported, credited>>
       ELSE /\ topUps' = [topUps EXCEPT ![t].status =
                            IF outcome = "paid" THEN "COMPLETED" ELSE "FAILED"]
            /\ credited' = [credited EXCEPT ![t] = IF outcome = "paid" THEN @ + 1 ELSE @]
            /\ reported' = reported \cup {<<t, via>>}

(* processVerifiedTopUp, one SERIALIZABLE transaction: a recorded event       *)
(* changes nothing; one that agrees with a settled top-up is only recorded,   *)
(* one that does not is refused; a PENDING top-up is settled, and credited if *)
(* it was paid.                                                               *)
ApplyEvent(t, via, outcome) ==
  LET final == IF outcome = "paid" THEN "COMPLETED" ELSE "FAILED"
      isNew == <<t, via>> \notin reported
  IN
  /\ topUps[t].ref
  /\ topUps' = [topUps EXCEPT ![t].status = IF isNew /\ @ = "PENDING" THEN final ELSE @]
  /\ credited' = [credited EXCEPT ![t] =
       IF isNew /\ topUps[t].status = "PENDING" /\ outcome = "paid" THEN @ + 1 ELSE @]
  /\ reported' = IF topUps[t].status \in {"PENDING", final}
                   THEN reported \cup {<<t, via>>} ELSE reported

(* The provider's webhook, which it may send any number of times; an expired  *)
(* session is not an event normalizedStripeEvent accepts.                     *)
Webhook(t) ==
  /\ \/ checkout[t] = "PAID" /\ ApplyEvent(t, "webhook", "paid")
     \/ checkout[t] = "DECLINED" /\ ApplyEvent(t, "webhook", "failed")
  /\ UNCHANGED <<checkout, topUpCall, checking, failedCalls>>

(* Mutant: a session that is not paid is taken for a failed one. *)
CheckedUnpaidFails(c) == IF c = "PAID" THEN {"paid"} ELSE {"failed"}

(* checkIntent: paid, failed once the session has expired, or neither. *)
Checked(c) == CASE c = "PAID" -> {"paid"} [] c = "EXPIRED" -> {"failed"} [] OTHER -> {}

(* reconcilePendingTopUps picks a PENDING top-up and asks the provider. *)
CheckTopUp(t) ==
  /\ topUps[t].status = "PENDING" /\ topUps[t].ref
  /\ checking[t] = {}
  /\ checking' = [checking EXCEPT ![t] = Checked(checkout[t])]
  /\ UNCHANGED <<topUps, checkout, topUpCall, reported, credited, failedCalls>>

Reconcile(t) ==
  /\ \E outcome \in checking[t] : ApplyEvent(t, "reconcile", outcome)
  /\ checking' = [checking EXCEPT ![t] = {}]
  /\ UNCHANGED <<checkout, topUpCall, failedCalls>>

-----------------------------------------------------------------------------
TopUpRequest(r) ==
  \/ StartTopUp(r) \/ ProviderOpens(r) \/ ProviderFails(r)
  \/ MarkFailed(r) \/ SaveRef(r) \/ AbandonTopUp(r)

TopUpNext ==
  \/ \E r \in Request : TopUpRequest(r)
  \/ \E t \in TopUp : CheckoutMoves(t) \/ Webhook(t) \/ CheckTopUp(t) \/ Reconcile(t)

(* The provider repeats a webhook until it is answered. *)
TopUpFairness == \A t \in TopUp : WF_topUpVars(Webhook(t))

TopUpSpec == TopUpInit /\ [][TopUpNext]_topUpVars /\ TopUpFairness

-----------------------------------------------------------------------------
(* The wallet is credited exactly once for a completed top-up, never for      *)
(* another, and only for a session the buyer has paid, however webhook,       *)
(* reconciliation and retries of the request overlap (wallet.service.js       *)
(* processVerifiedTopUp).                                                     *)
CreditedAsPaid ==
  \A t \in TopUp :
    /\ credited[t] = IF topUps[t].status = "COMPLETED" THEN 1 ELSE 0
    /\ topUps[t].status = "COMPLETED" => checkout[t] = "PAID"

(* What the buyer has paid can still reach the wallet, unless a provider call  *)
(* failed: the row has its provider reference and is not settled against the  *)
(* buyer, and only a top-up that was credited has its webhook recorded, so    *)
(* that the next one is not taken for a repetition.                           *)
PaidCanBeCredited ==
  \A t \in TopUp :
    checkout[t] = "PAID" /\ t \notin failedCalls =>
      /\ topUps[t].ref /\ topUps[t].status \in {"PENDING", "COMPLETED"}
      /\ <<t, "webhook">> \in reported => topUps[t].status = "COMPLETED"

(* What the buyer has paid reaches the wallet, unless a provider call of that *)
(* top-up failed: the call's FAILED is final, and a checkout opened by a      *)
(* later request with the same key is paid in vain.                           *)
PaidIsCredited ==
  \A t \in TopUp :
    checkout[t] = "PAID" ~> topUps[t].status = "COMPLETED" \/ t \in failedCalls
==============================================================================

------------------------------- MODULE Payout --------------------------------
(* Payouts of one released payment: the creator requests, administrators      *)
(* decide or correct by hand, the provider transfers and reports.             *)
(*                                                                            *)
(* Every transaction is READ COMMITTED, so a decision is a read, a claim, a   *)
(* provider call and a final write, and other calls come in between.  Each    *)
(* createPayout call gets a reference of its own from the provider: transfer  *)
(* number k, reported by one event that may be delivered several times.       *)
EXTENDS Naturals, Sequences, FiniteSets
LOCAL INSTANCE Functions

CONSTANTS
  Admin,         \* concurrent administrator calls
  Delivery,      \* concurrent deliveries of provider events
  Earned,        \* available earnings, in payouts of this payment
  MaxPayouts,    \* bound: payout rows
  MaxTransfers,  \* bound: provider transfers
  MaxRequests,   \* bound: requests past their check at one time
  MaxReopened    \* bound: payouts an administrator sets back to PENDING

ASSUME PayoutAssumption ==
  /\ Earned \in Nat /\ MaxPayouts \in Nat /\ MaxTransfers \in Nat
  /\ MaxRequests \in Nat /\ MaxReopened \in Nat
  /\ IsFiniteSet(Admin)

VARIABLES
  payouts,       \* sequence of PayoutRow, by creation
  requests,      \* requests that found no payout and have not created one
  adminCall,     \* [Admin -> AdminCall]
  transfers,     \* sequence of payout numbers: what the provider was asked to pay
  events,        \* [1..MaxTransfers -> EventRow]: PaymentProviderEvent of a transfer
  deliveries,    \* [Delivery -> DeliveryCall]
  debits,        \* [1..MaxPayouts -> Nat]: ledger debits of the creator's earnings
  reopened       \* history: [1..MaxPayouts -> Nat], times set back to PENDING

payoutVars ==
  <<payouts, requests, adminCall, transfers, events, deliveries, debits, reopened>>

PayoutStatus == {"PENDING", "PROCESSING", "PAID", "FAILED", "CANCELLED"}
PayoutRow    == [status : PayoutStatus, ref : 0..MaxTransfers]
AdminStep    == {"idle", "claiming", "sending", "sent", "failed", "correcting"}
AdminCall    == [step : AdminStep, payout : 0..MaxPayouts, ref : 0..MaxTransfers]
EventRow     == {"NONE", "PROCESSED", "REJECTED"}
DeliveryCall == [step : {"idle", "apply", "reject"}, ref : 0..MaxTransfers,
                 payout : 0..MaxPayouts]

NoAdminCall == [step |-> "idle", payout |-> 0, ref |-> 0]
NoDelivery  == [step |-> "idle", ref |-> 0, payout |-> 0]

PayoutTypeOK ==
  /\ payouts \in Seq(PayoutRow) /\ Len(payouts) <= MaxPayouts
  /\ requests \in 0..MaxRequests
  /\ adminCall \in [Admin -> AdminCall]
  /\ transfers \in Seq(1..MaxPayouts) /\ Len(transfers) <= MaxTransfers
  /\ events \in [1..MaxTransfers -> EventRow]
  /\ deliveries \in [Delivery -> DeliveryCall]
  /\ debits \in [1..MaxPayouts -> Nat]
  /\ reopened \in [1..MaxPayouts -> Nat]

PayoutInit ==
  /\ payouts = <<>>
  /\ requests = 0
  /\ adminCall = [a \in Admin |-> NoAdminCall]
  /\ transfers = <<>>
  /\ events = [k \in 1..MaxTransfers |-> "NONE"]
  /\ deliveries = [d \in Delivery |-> NoDelivery]
  /\ debits = [p \in 1..MaxPayouts |-> 0]
  /\ reopened = [p \in 1..MaxPayouts |-> 0]

-----------------------------------------------------------------------------
(* requestPayout: the payment is RELEASED and has no open or paid payout ... *)
RequestRead ==
  /\ requests < MaxRequests
  /\ \A p \in DOMAIN payouts : payouts[p].status \notin {"PENDING", "PROCESSING", "PAID"}
  /\ requests' = requests + 1
  /\ UNCHANGED <<payouts, adminCall, transfers, events, deliveries, debits, reopened>>

Debited == FoldFunction(+, 0, debits)

(* ... and another transaction creates it, if the earnings cover it. *)
RequestCreate ==
  /\ requests > 0
  /\ requests' = requests - 1
  /\ \/ /\ Debited < Earned
        /\ Len(payouts) < MaxPayouts
        /\ payouts' = Append(payouts, [status |-> "PENDING", ref |-> 0])
     \/ /\ Debited >= Earned
        /\ UNCHANGED payouts
  /\ UNCHANGED <<adminCall, transfers, events, deliveries, debits, reopened>>

(* decidePayout reads a PENDING payout. *)
DecideRead(a, p) ==
  /\ adminCall[a].step = "idle"
  /\ payouts[p].status = "PENDING"
  /\ adminCall' = [adminCall EXCEPT ![a] = [step |-> "claiming", payout |-> p, ref |-> 0]]
  /\ UNCHANGED <<payouts, requests, transfers, events, deliveries, debits, reopened>>

(* Mutant: the claim trusts the read. *)
ClaimableFromRead(p) == TRUE

(* updateMany where status PENDING *)
StillPending(p) == payouts[p].status = "PENDING"

Claim(a) ==
  LET p == adminCall[a].payout IN
  /\ adminCall[a].step = "claiming"
  /\ \/ /\ StillPending(p)
        /\ \/ /\ payouts' = [payouts EXCEPT ![p].status = "PROCESSING"]
              /\ adminCall' = [adminCall EXCEPT ![a].step = "sending"]
           \/ /\ payouts' = [payouts EXCEPT ![p].status = "CANCELLED"]
              /\ adminCall' = [adminCall EXCEPT ![a] = NoAdminCall]
     \/ /\ ~StillPending(p)
        /\ adminCall' = [adminCall EXCEPT ![a] = NoAdminCall]
        /\ UNCHANGED payouts
  /\ UNCHANGED <<requests, transfers, events, deliveries, debits, reopened>>

(* provider.createPayout: a new transfer, and the answer may be lost. *)
SendPayout(a) ==
  /\ adminCall[a].step = "sending"
  /\ \/ /\ Len(transfers) < MaxTransfers
        /\ transfers' = Append(transfers, adminCall[a].payout)
        /\ \/ adminCall' = [adminCall EXCEPT ![a] =
                [step |-> "sent", payout |-> @.payout, ref |-> Len(transfers) + 1]]
           \/ adminCall' = [adminCall EXCEPT ![a].step = "failed"]
     \/ /\ adminCall' = [adminCall EXCEPT ![a].step = "failed"]
        /\ UNCHANGED transfers
  /\ UNCHANGED <<payouts, requests, events, deliveries, debits, reopened>>

(* updateMany where status PROCESSING; a payout that moved on keeps no trace  *)
(* of the transfer (PAYOUT_STATE_CHANGED).                                    *)
SavePayoutRef(a) ==
  /\ adminCall[a].step = "sent"
  /\ payouts' = [payouts EXCEPT ![adminCall[a].payout].ref =
       IF payouts[adminCall[a].payout].status = "PROCESSING" THEN adminCall[a].ref ELSE @]
  /\ adminCall' = [adminCall EXCEPT ![a] = NoAdminCall]
  /\ UNCHANGED <<requests, transfers, events, deliveries, debits, reopened>>

PayoutFailed(a) ==
  /\ adminCall[a].step = "failed"
  /\ payouts' = [payouts EXCEPT ![adminCall[a].payout].status =
       IF @ = "PROCESSING" THEN "FAILED" ELSE @]
  /\ adminCall' = [adminCall EXCEPT ![a] = NoAdminCall]
  /\ UNCHANGED <<requests, transfers, events, deliveries, debits, reopened>>

Correctable == {"PENDING", "PROCESSING", "FAILED"}

(* reconcilePayout reads a payout that is not final ... *)
CorrectRead(a, p) ==
  /\ adminCall[a].step = "idle"
  /\ payouts[p].status \in Correctable
  /\ adminCall' = [adminCall EXCEPT ![a] = [step |-> "correcting", payout |-> p, ref |-> 0]]
  /\ UNCHANGED <<payouts, requests, transfers, events, deliveries, debits, reopened>>

(* ... and updates it by id: a status written in between is overwritten. *)
CorrectWrite(a) ==
  LET p == adminCall[a].payout IN
  /\ adminCall[a].step = "correcting"
  /\ \E s \in Correctable :
       /\ payouts' = [payouts EXCEPT ![p].status = s]
       /\ IF s = "PENDING" /\ payouts[p].status # "PENDING"
            THEN reopened[p] < MaxReopened /\ reopened' = [reopened EXCEPT ![p] = @ + 1]
            ELSE UNCHANGED reopened
  /\ adminCall' = [adminCall EXCEPT ![a] = NoAdminCall]
  /\ UNCHANGED <<requests, transfers, events, deliveries, debits>>

(* The process stops between two transactions of an administrator's call. *)
AbandonCall(a) ==
  /\ adminCall[a].step # "idle"
  /\ adminCall' = [adminCall EXCEPT ![a] = NoAdminCall]
  /\ UNCHANGED <<payouts, requests, transfers, events, deliveries, debits, reopened>>

-----------------------------------------------------------------------------
(* processVerifiedEvent for payout.succeeded: the transaction looks for a     *)
(* recorded event and for the payout of the reference.                        *)
EventRead(d, k) ==
  /\ deliveries[d].step = "idle"
  /\ events[k] = "NONE"
  /\ \/ \E p \in DOMAIN payouts :
          /\ payouts[p].ref = k
          /\ deliveries' = [deliveries EXCEPT ![d] = [step |-> "apply", ref |-> k, payout |-> p]]
     \/ /\ \A p \in DOMAIN payouts : payouts[p].ref # k
        /\ deliveries' = [deliveries EXCEPT ![d] = [step |-> "reject", ref |-> k, payout |-> 0]]
  /\ UNCHANGED <<payouts, requests, adminCall, transfers, events, debits, reopened>>

(* Mutant: the event id is not unique in the database. *)
NewToDatabaseAlways(k) == TRUE

(* paymentProviderEvent.create: providerEventId is unique. *)
NewToDatabase(k) == events[k] = "NONE"

(* It writes PAID over whatever status the payout has, records the event and  *)
(* posts the debit; a second copy fails on the event id and rolls back.       *)
EventApply(d) ==
  LET k == deliveries[d].ref
      p == deliveries[d].payout
  IN
  /\ deliveries[d].step = "apply"
  /\ IF NewToDatabase(k)
       THEN /\ payouts' = [payouts EXCEPT ![p].status = "PAID"]
            /\ events' = [events EXCEPT ![k] = "PROCESSED"]
            /\ debits' = [debits EXCEPT ![p] = @ + 1]
            /\ deliveries' = [deliveries EXCEPT ![d] = NoDelivery]
       ELSE /\ deliveries' = [deliveries EXCEPT ![d].step = "reject"]
            /\ UNCHANGED <<payouts, events, debits>>
  /\ UNCHANGED <<requests, adminCall, transfers, reopened>>

(* The catch upserts a failure reason, onto a processed event as well; from   *)
(* then on every delivery of the event is refused.                            *)
EventReject(d) ==
  /\ deliveries[d].step = "reject"
  /\ events' = [events EXCEPT ![deliveries[d].ref] = "REJECTED"]
  /\ deliveries' = [deliveries EXCEPT ![d] = NoDelivery]
  /\ UNCHANGED <<payouts, requests, adminCall, transfers, debits, reopened>>

AdminStepOf(a) ==
  \/ \E p \in DOMAIN payouts : DecideRead(a, p) \/ CorrectRead(a, p)
  \/ Claim(a) \/ SendPayout(a) \/ SavePayoutRef(a) \/ PayoutFailed(a)
  \/ CorrectWrite(a) \/ AbandonCall(a)

PayoutNext ==
  \/ RequestRead \/ RequestCreate
  \/ \E a \in Admin : AdminStepOf(a)
  \/ \E d \in Delivery :
       (\E k \in DOMAIN transfers : EventRead(d, k)) \/ EventApply(d) \/ EventReject(d)

PayoutSpec == PayoutInit /\ [][PayoutNext]_payoutVars

-----------------------------------------------------------------------------
TransfersOf(p) == {k \in DOMAIN transfers : transfers[k] = p}

(* A payout is debited at most once for each transfer of it, and is PAID only *)
(* after a debit, whatever copies of its events arrive together and whatever  *)
(* administrators write meanwhile (processVerifiedEvent, reconcilePayout).    *)
DebitedOncePerTransfer ==
  \A p \in DOMAIN payouts :
    /\ debits[p] <= Cardinality(TransfersOf(p))
    /\ payouts[p].status = "PAID" => debits[p] > 0

(* Two administrators never send one payout twice: a second transfer needs    *)
(* the payout set back to PENDING by hand (the claim of decidePayout).        *)
TransferredAsApproved ==
  \A p \in DOMAIN payouts : Cardinality(TransfersOf(p)) <= 1 + reopened[p]
==============================================================================

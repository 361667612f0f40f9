--------------------------- MODULE Services_proofs ---------------------------
(* Proofs for the services around an engagement, one section per module: an   *)
(* inductive invariant, the steps that keep it, and the theorems.             *)
EXTENDS MCServices, FiniteSetTheorems, SequenceTheorems, TLAPS

-----------------------------------------------------------------------------
(* TopUp *)

(* Besides what the property says, an answer that reports a payment was given *)
(* for a paid session, and a paid session stays paid.                         *)
TopUpInv ==
  /\ TopUpTypeOK
  /\ CreditedAsPaid
  /\ \A t \in TopUp : "paid" \in checking[t] => checkout[t] = "PAID"

LEMMA StatusWritten ==
  ASSUME NEW f \in [TopUp -> TopUpRow], NEW t \in TopUp, NEW s \in TopUpStatus,
         NEW g, g = [f EXCEPT ![t].status = s]
  PROVE  /\ g \in [TopUp -> TopUpRow]
         /\ g[t].status = s
         /\ \A u \in TopUp : u # t => g[u] = f[u]
  BY DEF TopUpRow

(* What an event does to a top-up keeps the credits right.                    *)
LEMMA EventApplied ==
  ASSUME TopUpInv, NEW t \in TopUp, NEW via \in Channel, NEW outcome \in Outcome,
         outcome = "paid" => checkout[t] = "PAID",
         ApplyEvent(t, via, outcome), UNCHANGED checkout
  PROVE  /\ topUps' \in [TopUp -> TopUpRow]
         /\ credited' \in [TopUp -> Nat]
         /\ reported' \subseteq TopUp \X Channel
         /\ CreditedAsPaid'
<1> DEFINE final == IF outcome = "paid" THEN "COMPLETED" ELSE "FAILED"
           isNew == <<t, via>> \notin reported
           settles == isNew /\ topUps[t].status = "PENDING"
           status == IF settles THEN final ELSE topUps[t].status
<1> USE DEF TopUpInv, TopUpTypeOK, CreditedAsPaid
<1>1. final \in {"COMPLETED", "FAILED"}
  OBVIOUS
<1>2. topUps[t] \in TopUpRow /\ credited[t] \in Nat
  OBVIOUS
<1>3. reported' \subseteq TopUp \X Channel
  BY DEF ApplyEvent
<1>4. topUps' = [topUps EXCEPT ![t].status = status]
  BY DEF ApplyEvent
<1>5. credited' = [credited EXCEPT ![t] = IF settles /\ outcome = "paid" THEN @ + 1 ELSE @]
  BY DEF ApplyEvent
<1>6. status \in TopUpStatus
  BY <1>1, <1>2 DEF TopUpRow, TopUpStatus
<1> HIDE DEF final, isNew, status
<1>7. topUps' \in [TopUp -> TopUpRow]
  BY <1>4, <1>6, StatusWritten
<1>8. credited' \in [TopUp -> Nat]
  BY <1>2, <1>5
<1>9. ASSUME NEW u \in TopUp PROVE
        /\ credited'[u] = IF topUps'[u].status = "COMPLETED" THEN 1 ELSE 0
        /\ topUps'[u].status = "COMPLETED" => checkout'[u] = "PAID"
  <2>1. CASE u # t
    BY <2>1, <1>4, <1>5, <1>6, StatusWritten
  <2>2. CASE u = t
    <3>1. topUps'[t].status = IF settles THEN final ELSE topUps[t].status
      BY <1>4, <1>6, StatusWritten DEF status
    <3>2. credited'[t] = IF settles /\ outcome = "paid" THEN credited[t] + 1 ELSE credited[t]
      BY <1>2, <1>5
    <3>3. settles => credited[t] = 0
      BY <1>2
    <3> QED
      BY <2>2, <3>1, <3>2, <3>3 DEF final
  <2> QED
    BY <2>1, <2>2
<1> QED
  BY <1>3, <1>7, <1>8, <1>9

LEMMA TopUpInvStep == TopUpInv /\ [TopUpNext]_topUpVars => TopUpInv'
<1> SUFFICES ASSUME TopUpInv, [TopUpNext]_topUpVars PROVE TopUpInv'
  OBVIOUS
<1> USE TopUpAssumption DEF TopUpInv, TopUpTypeOK, CreditedAsPaid
<1>1. ASSUME NEW r \in Request, StartTopUp(r) PROVE TopUpInv'
  BY <1>1 DEF StartTopUp, TopUpRow, TopUpStatus, CallState
<1>2. ASSUME NEW r \in Request, ProviderOpens(r) PROVE TopUpInv'
  BY <1>2 DEF ProviderOpens, CheckoutState, CallState
<1>3. ASSUME NEW r \in Request, ProviderFails(r) PROVE TopUpInv'
  BY <1>3 DEF ProviderFails, CheckoutState, CallState
<1>4. ASSUME NEW r \in Request, MarkFailed(r) PROVE TopUpInv'
  BY <1>4 DEF MarkFailed, TopUpRow, TopUpStatus, CallState
<1>5. ASSUME NEW r \in Request, SaveRef(r) PROVE TopUpInv'
  BY <1>5 DEF SaveRef, TopUpRow, CallState
<1>6. ASSUME NEW r \in Request, AbandonTopUp(r) PROVE TopUpInv'
  BY <1>6 DEF AbandonTopUp, CallState
<1>7. ASSUME NEW t \in TopUp, CheckoutMoves(t) PROVE TopUpInv'
  BY <1>7 DEF CheckoutMoves, CheckoutNext, CheckoutState
<1>8. ASSUME NEW t \in TopUp, Webhook(t) PROVE TopUpInv'
  <2>1. PICK outcome \in Outcome :
          (outcome = "paid" => checkout[t] = "PAID") /\ ApplyEvent(t, "webhook", outcome)
    BY <1>8 DEF Webhook, Outcome
  <2>2. UNCHANGED <<checkout, topUpCall, checking, failedCalls>>
    BY <1>8 DEF Webhook
  <2> QED
    BY <2>1, <2>2, EventApplied DEF Channel
<1>9. ASSUME NEW t \in TopUp, CheckTopUp(t) PROVE TopUpInv'
  BY <1>9 DEF CheckTopUp, Checked, Outcome
<1>10. ASSUME NEW t \in TopUp, Reconcile(t) PROVE TopUpInv'
  <2>1. PICK outcome \in checking[t] : ApplyEvent(t, "reconcile", outcome)
    BY <1>10 DEF Reconcile
  <2>2. UNCHANGED <<checkout, topUpCall, failedCalls>>
    BY <1>10 DEF Reconcile
  <2>3. checking' \in [TopUp -> SUBSET Outcome]
        /\ \A u \in TopUp : checking'[u] \subseteq checking[u]
    BY <1>10 DEF Reconcile
  <2> QED
    BY <2>1, <2>2, <2>3, EventApplied DEF Channel
<1>11. CASE UNCHANGED topUpVars
  BY <1>11 DEF topUpVars
<1> QED
  BY <1>1, <1>2, <1>3, <1>4, <1>5, <1>6, <1>7, <1>8, <1>9, <1>10, <1>11
  DEF TopUpNext, TopUpRequest

(* In every instance a completed top-up was paid by the buyer and is credited *)
(* exactly once (processVerifiedTopUp).                                       *)
THEOREM TopUpsCreditedAsPaid == TopUpSpec => []CreditedAsPaid
<1>1. TopUpInit => TopUpInv
  BY DEF TopUpInit, TopUpInv, TopUpTypeOK, CreditedAsPaid, TopUpRow, TopUpStatus,
         CheckoutState, CallState
<1>2. TopUpInv => CreditedAsPaid
  BY DEF TopUpInv
<1> QED
  BY <1>1, <1>2, TopUpInvStep, PTL DEF TopUpSpec

(* A checkout that exists belongs to a row; a row is settled against the      *)
(* buyer only after a failed call or when the buyer did not pay; a webhook is *)
(* recorded only for a checkout that is over; and the answers still on their  *)
(* way agree with that.                                                       *)
CheckoutOK(t) ==
  /\ topUps[t].status = "NONE" => checkout[t] = "NONE" /\ checking[t] = {}
  /\ topUps[t].status = "FAILED" /\ t \notin failedCalls => checkout[t] \in {"DECLINED", "EXPIRED"}
  /\ "failed" \in checking[t] => checkout[t] = "EXPIRED"
  /\ checkout[t] = "PAID" => topUps[t].ref
  /\ <<t, "webhook">> \in reported => checkout[t] \in {"PAID", "DECLINED"}

AskingOK(r) ==
  /\ topUpCall[r] # "idle" => topUps[KeyOf[r]].status # "NONE"
  /\ topUpCall[r] = "refused" => KeyOf[r] \in failedCalls

CreditableInv ==
  /\ TopUpInv
  /\ \A t \in TopUp : CheckoutOK(t)
  /\ \A r \in Request : AskingOK(r)
  /\ PaidCanBeCredited

(* An event settles a PENDING top-up as it says, and changes no other row.    *)
SettlesRow(t, via, outcome) ==
  /\ \A u \in TopUp : topUps'[u].ref = topUps[u].ref
  /\ \A u \in TopUp : u # t => topUps'[u].status = topUps[u].status
  /\ \/ topUps'[t].status = topUps[t].status
     \/ /\ topUps[t].status = "PENDING" /\ <<t, via>> \notin reported
        /\ topUps'[t].status = IF outcome = "paid" THEN "COMPLETED" ELSE "FAILED"
  /\ reported' \subseteq reported \cup {<<t, via>>}
  /\ <<t, via>> \in reported' \ reported =>
       topUps'[t].status = IF outcome = "paid" THEN "COMPLETED" ELSE "FAILED"

LEMMA EventSettlesRow ==
  ASSUME TopUpTypeOK, NEW t \in TopUp, NEW via \in Channel, NEW outcome \in Outcome,
         ApplyEvent(t, via, outcome)
  PROVE  SettlesRow(t, via, outcome)
  BY DEF TopUpTypeOK, TopUpRow, ApplyEvent, SettlesRow

LEMMA CreditableInvStep ==
  CreditableInv /\ [TopUpNext]_topUpVars => CreditableInv'
<1> SUFFICES ASSUME CreditableInv, [TopUpNext]_topUpVars PROVE CreditableInv'
  OBVIOUS
<1> USE TopUpAssumption DEF CreditableInv
<1>0. TopUpInv' /\ TopUpTypeOK /\ CreditedAsPaid
      /\ \A t \in TopUp : "paid" \in checking[t] => checkout[t] = "PAID"
  BY TopUpInvStep DEF TopUpInv
<1> USE DEF CheckoutOK, AskingOK, PaidCanBeCredited
<1>1. ASSUME NEW r \in Request, StartTopUp(r) PROVE CreditableInv'
  BY <1>0, <1>1 DEF StartTopUp, TopUpTypeOK, TopUpRow
<1>2. ASSUME NEW r \in Request, ProviderOpens(r) PROVE CreditableInv'
  BY <1>0, <1>2 DEF ProviderOpens, TopUpTypeOK
<1>3. ASSUME NEW r \in Request, ProviderFails(r) PROVE CreditableInv'
  BY <1>0, <1>3 DEF ProviderFails, TopUpTypeOK
<1>4. ASSUME NEW r \in Request, MarkFailed(r) PROVE CreditableInv'
  BY <1>0, <1>4 DEF MarkFailed, TopUpTypeOK, TopUpRow
<1>5. ASSUME NEW r \in Request, SaveRef(r) PROVE CreditableInv'
  BY <1>0, <1>5 DEF SaveRef, TopUpTypeOK, TopUpRow
<1>6. ASSUME NEW r \in Request, AbandonTopUp(r) PROVE CreditableInv'
  BY <1>0, <1>6 DEF AbandonTopUp, TopUpTypeOK
<1>7. ASSUME NEW t \in TopUp, CheckoutMoves(t) PROVE CreditableInv'
  BY <1>0, <1>7 DEF CheckoutMoves, CheckoutNext, TopUpTypeOK, TopUpRow, TopUpStatus, CreditedAsPaid
<1>8. ASSUME NEW t \in TopUp, Webhook(t) PROVE CreditableInv'
  <2>1. PICK outcome \in Outcome :
          /\ checkout[t] = IF outcome = "paid" THEN "PAID" ELSE "DECLINED"
          /\ ApplyEvent(t, "webhook", outcome)
    BY <1>8 DEF Webhook, Outcome
  <2>2. UNCHANGED <<checkout, topUpCall, checking, failedCalls>>
    BY <1>8 DEF Webhook
  <2>3. SettlesRow(t, "webhook", outcome)
    BY <1>0, <2>1, EventSettlesRow DEF Channel
  <2>4. outcome \in {"paid", "failed"}
    BY DEF Outcome
  <2>5. \A u \in TopUp : CheckoutOK(u)'
    BY <2>1, <2>2, <2>3, <2>4 DEF SettlesRow
  <2>6. \A r \in Request : AskingOK(r)'
    BY <2>2, <2>3, <2>4 DEF SettlesRow
  <2>7. PaidCanBeCredited'
    BY <2>1, <2>2, <2>3, <2>4 DEF SettlesRow
  <2> QED
    BY <1>0, <2>5, <2>6, <2>7
<1>9. ASSUME NEW t \in TopUp, CheckTopUp(t) PROVE CreditableInv'
  BY <1>0, <1>9 DEF CheckTopUp, Checked, TopUpTypeOK
<1>10. ASSUME NEW t \in TopUp, Reconcile(t) PROVE CreditableInv'
  <2>1. PICK outcome \in checking[t] : ApplyEvent(t, "reconcile", outcome)
    BY <1>10 DEF Reconcile
  <2>2. UNCHANGED <<checkout, topUpCall, failedCalls>>
    BY <1>10 DEF Reconcile
  <2>3. \A u \in TopUp : checking'[u] \subseteq checking[u]
    BY <1>0, <1>10 DEF Reconcile, TopUpTypeOK
  <2>4. SettlesRow(t, "reconcile", outcome)
    BY <1>0, <2>1, EventSettlesRow DEF Channel, TopUpTypeOK
  <2>5. \/ outcome = "paid" /\ checkout[t] = "PAID"
        \/ outcome = "failed" /\ checkout[t] = "EXPIRED"
    <3>1. outcome \in Outcome /\ outcome \in checking[t]
      BY <1>0, <2>1 DEF TopUpTypeOK
    <3> QED
      BY <1>0, <3>1 DEF Outcome
  <2>6. \A u \in TopUp : CheckoutOK(u)'
    BY <2>2, <2>3, <2>4, <2>5 DEF SettlesRow
  <2>7. \A r \in Request : AskingOK(r)'
    BY <2>2, <2>4, <2>5 DEF SettlesRow
  <2>8. PaidCanBeCredited'
    BY <2>2, <2>4, <2>5 DEF SettlesRow
  <2> QED
    BY <1>0, <2>6, <2>7, <2>8
<1>11. CASE UNCHANGED topUpVars
  BY <1>0, <1>11 DEF topUpVars
<1> QED
  BY <1>1, <1>2, <1>3, <1>4, <1>5, <1>6, <1>7, <1>8, <1>9, <1>10, <1>11
  DEF TopUpNext, TopUpRequest

LEMMA CreditableInvInit == TopUpInit => CreditableInv
  BY TopUpAssumption
  DEF TopUpInit, CreditableInv, TopUpInv, TopUpTypeOK, CreditedAsPaid, TopUpRow, TopUpStatus,
      CheckoutState, CallState, CheckoutOK, AskingOK, PaidCanBeCredited

(* In every instance what the buyer has paid can still reach the wallet,      *)
(* unless a provider call failed (createTopUp, processVerifiedTopUp).         *)
THEOREM PaidStaysCreditable == TopUpSpec => []PaidCanBeCredited
<1>1. CreditableInv => PaidCanBeCredited
  BY DEF CreditableInv
<1> QED
  BY <1>1, CreditableInvInit, CreditableInvStep, PTL DEF TopUpSpec

-----------------------------------------------------------------------------
(* Payout *)

PayoutNumber == 1..Len(payouts)
Sending(p)   == {a \in Admin : adminCall[a].step = "sending" /\ adminCall[a].payout = p}
Reported(p)  == {k \in TransfersOf(p) : events[k] # "NONE"}
Awaiting(p)  == IF p \in PayoutNumber /\ payouts[p].status = "PENDING" THEN 1 ELSE 0

AdminOK(c) ==
  /\ c.step # "idle" => c.payout \in PayoutNumber
  /\ c.step = "sent" => c.ref \in TransfersOf(c.payout)

DeliveryOK(c) ==
  /\ c.step = "apply" => c.payout \in PayoutNumber /\ c.ref \in TransfersOf(c.payout)
  /\ c.step # "idle" => c.ref \in DOMAIN transfers

Referred ==
  /\ \A k \in DOMAIN transfers : transfers[k] \in PayoutNumber
  /\ \A p \in PayoutNumber : payouts[p].ref # 0 => payouts[p].ref \in TransfersOf(p)
  /\ \A a \in Admin : AdminOK(adminCall[a])
  /\ \A d \in Delivery : DeliveryOK(deliveries[d])

Counted(p) ==
  /\ debits[p] <= Cardinality(Reported(p))
  /\ Cardinality(TransfersOf(p)) + Cardinality(Sending(p)) + Awaiting(p) <= 1 + reopened[p]

(* Every reference names a transfer of its payout; a debit has a reported     *)
(* transfer of its own; a transfer, or a claim that will make one, has a      *)
(* decision of its own.                                                       *)
PayoutInv ==
  /\ PayoutTypeOK
  /\ Referred
  /\ \A p \in 1..MaxPayouts : Counted(p)
  /\ \A p \in PayoutNumber : payouts[p].status = "PAID" => debits[p] > 0

LEMMA PayoutTyped ==
  ASSUME PayoutTypeOK
  PROVE  /\ DOMAIN payouts = PayoutNumber /\ PayoutNumber \subseteq 1..MaxPayouts
         /\ Len(payouts) \in Nat
         /\ \A p \in PayoutNumber : payouts[p] \in PayoutRow
         /\ Len(transfers) \in Nat
         /\ DOMAIN transfers = 1..Len(transfers) /\ 1..Len(transfers) \subseteq 1..MaxTransfers
         /\ \A k \in DOMAIN transfers : transfers[k] \in 1..MaxPayouts
  BY PayoutAssumption DEF PayoutTypeOK, PayoutNumber

LEMMA PayoutCounts ==
  ASSUME PayoutTypeOK, NEW p
  PROVE  /\ IsFiniteSet(TransfersOf(p)) /\ Cardinality(TransfersOf(p)) \in Nat
         /\ IsFiniteSet(Reported(p)) /\ Cardinality(Reported(p)) \in Nat
         /\ IsFiniteSet(Sending(p)) /\ Cardinality(Sending(p)) \in Nat
         /\ Cardinality(Reported(p)) <= Cardinality(TransfersOf(p))
<1>1. TransfersOf(p) \subseteq 1..Len(transfers) /\ Len(transfers) \in Nat
  BY PayoutTyped DEF TransfersOf
<1>2. IsFiniteSet(1..Len(transfers))
  BY <1>1, FS_Interval
<1>3. IsFiniteSet(TransfersOf(p))
  BY <1>1, <1>2, FS_Subset
<1>4. Reported(p) \subseteq TransfersOf(p) /\ Sending(p) \subseteq Admin
  BY DEF Reported, Sending
<1>5. /\ IsFiniteSet(Reported(p)) /\ IsFiniteSet(Sending(p))
      /\ Cardinality(Reported(p)) <= Cardinality(TransfersOf(p))
  BY <1>3, <1>4, FS_Subset, PayoutAssumption
<1> QED
  BY <1>3, <1>5, FS_CardinalityType

LEMMA RowSet ==
  ASSUME PayoutTypeOK, NEW p \in PayoutNumber, NEW new \in PayoutRow,
         payouts' = [payouts EXCEPT ![p] = new]
  PROVE  /\ payouts' \in Seq(PayoutRow) /\ Len(payouts') = Len(payouts)
         /\ payouts'[p] = new
         /\ \A q \in PayoutNumber : q # p => payouts'[q] = payouts[q]
<1>1. payouts \in Seq(PayoutRow) /\ p \in 1..Len(payouts)
  BY DEF PayoutTypeOK, PayoutNumber
<1> QED
  BY <1>1, ExceptSeq DEF PayoutNumber

LEMMA StatusSet ==
  ASSUME PayoutTypeOK, NEW p \in PayoutNumber, NEW s \in PayoutStatus,
         payouts' = [payouts EXCEPT ![p].status = s]
  PROVE  /\ payouts' \in Seq(PayoutRow) /\ Len(payouts') = Len(payouts)
         /\ payouts'[p].status = s /\ payouts'[p].ref = payouts[p].ref
         /\ \A q \in PayoutNumber : q # p => payouts'[q] = payouts[q]
<1> DEFINE new == [payouts[p] EXCEPT !.status = s]
<1>1. payouts[p] \in PayoutRow
  BY PayoutTyped
<1>2. new \in PayoutRow /\ new.status = s /\ new.ref = payouts[p].ref
  BY <1>1 DEF PayoutRow
<1>3. payouts' = [payouts EXCEPT ![p] = new]
  OBVIOUS
<1> HIDE DEF new
<1> QED
  BY <1>2, <1>3, RowSet

LEMMA RefSet ==
  ASSUME PayoutTypeOK, NEW p \in PayoutNumber, NEW k \in 0..MaxTransfers,
         payouts' = [payouts EXCEPT ![p].ref = k]
  PROVE  /\ payouts' \in Seq(PayoutRow) /\ Len(payouts') = Len(payouts)
         /\ payouts'[p].status = payouts[p].status /\ payouts'[p].ref = k
         /\ \A q \in PayoutNumber : q # p => payouts'[q] = payouts[q]
<1> DEFINE new == [payouts[p] EXCEPT !.ref = k]
<1>1. payouts[p] \in PayoutRow
  BY PayoutTyped
<1>2. new \in PayoutRow /\ new.status = payouts[p].status /\ new.ref = k
  BY <1>1 DEF PayoutRow
<1>3. payouts' = [payouts EXCEPT ![p] = new]
  OBVIOUS
<1> HIDE DEF new
<1> QED
  BY <1>2, <1>3, RowSet

LEMMA StepSet ==
  ASSUME PayoutTypeOK, NEW a \in Admin, NEW s \in AdminStep,
         adminCall' = [adminCall EXCEPT ![a].step = s]
  PROVE  \E c \in AdminCall :
           /\ adminCall' = [adminCall EXCEPT ![a] = c]
           /\ c.step = s /\ c.payout = adminCall[a].payout /\ c.ref = adminCall[a].ref
<1> DEFINE c == [adminCall[a] EXCEPT !.step = s]
<1>1. adminCall[a] \in AdminCall
  BY DEF PayoutTypeOK
<1>2. c \in AdminCall /\ c.step = s /\ c.payout = adminCall[a].payout /\ c.ref = adminCall[a].ref
  BY <1>1 DEF AdminCall
<1>3. adminCall' = [adminCall EXCEPT ![a] = c]
  OBVIOUS
<1> HIDE DEF c
<1> QED
  BY <1>2, <1>3

(* An administrator's write that makes no transfer and claims nothing.        *)
LEMMA AdminWrites ==
  ASSUME PayoutInv, NEW a \in Admin, NEW c \in AdminCall, c.step # "sending", AdminOK(c),
         adminCall' = [adminCall EXCEPT ![a] = c],
         UNCHANGED <<requests, transfers, events, deliveries, debits>>,
         payouts' \in Seq(PayoutRow), Len(payouts') = Len(payouts),
         reopened' \in [1..MaxPayouts -> Nat],
         \A p \in PayoutNumber :
           /\ payouts'[p].ref # 0 => payouts'[p].ref \in TransfersOf(p)
           /\ payouts'[p].status = "PAID" => payouts[p].status = "PAID",
         \A p \in 1..MaxPayouts : Awaiting(p)' + reopened[p] <= Awaiting(p) + reopened'[p]
  PROVE  PayoutInv'
<1>1. PayoutTypeOK'
  BY DEF PayoutInv, PayoutTypeOK
<1>2. /\ PayoutNumber' = PayoutNumber
      /\ \A p : TransfersOf(p)' = TransfersOf(p)
      /\ \A p : Reported(p)' = Reported(p)
  BY DEF PayoutNumber, TransfersOf, Reported
<1>3. ASSUME NEW b \in Admin PROVE AdminOK(adminCall[b])'
  <2>1. AdminOK(adminCall'[b])
    BY DEF PayoutInv, PayoutTypeOK, Referred
  <2> QED
    BY <1>2, <2>1 DEF AdminOK
<1>4. ASSUME NEW d \in Delivery PROVE DeliveryOK(deliveries[d])'
  BY <1>2 DEF PayoutInv, Referred, DeliveryOK
<1>5. Referred'
  BY <1>2, <1>3, <1>4 DEF PayoutInv, Referred
<1>6. ASSUME NEW p \in 1..MaxPayouts PROVE Counted(p)'
  <2>1. Sending(p)' \subseteq Sending(p)
    BY DEF Sending, PayoutInv, PayoutTypeOK
  <2>2. Cardinality(Sending(p)') <= Cardinality(Sending(p)) /\ Cardinality(Sending(p)') \in Nat
    BY <2>1, PayoutCounts, FS_Subset, FS_CardinalityType DEF PayoutInv
  <2>3. Cardinality(Sending(p)) \in Nat /\ Cardinality(TransfersOf(p)) \in Nat
    BY PayoutCounts DEF PayoutInv
  <2>4. Awaiting(p) \in Nat /\ Awaiting(p)' \in Nat /\ reopened[p] \in Nat /\ reopened'[p] \in Nat
    BY DEF Awaiting, PayoutInv, PayoutTypeOK
  <2>5. /\ debits[p] <= Cardinality(Reported(p))
        /\ Cardinality(TransfersOf(p)) + Cardinality(Sending(p)) + Awaiting(p) <= 1 + reopened[p]
    BY DEF PayoutInv, Counted
  <2>6. Awaiting(p)' + reopened[p] <= Awaiting(p) + reopened'[p]
    OBVIOUS
  <2>7. debits'[p] <= Cardinality(Reported(p)')
    BY <1>2, <2>5
  <2>8. Cardinality(TransfersOf(p)') = Cardinality(TransfersOf(p))
    BY <1>2
  <2>9. Cardinality(TransfersOf(p)') + Cardinality(Sending(p)') + Awaiting(p)' <= 1 + reopened'[p]
    <3> DEFINE t == Cardinality(TransfersOf(p))
               s == Cardinality(Sending(p))
               s1 == Cardinality(Sending(p)')
               w == Awaiting(p)
               w1 == Awaiting(p)'
               r == reopened[p]
               r1 == reopened'[p]
    <3>1. /\ t \in Nat /\ s \in Nat /\ s1 \in Nat /\ w \in Nat /\ w1 \in Nat
          /\ r \in Nat /\ r1 \in Nat
          /\ s1 <= s /\ w1 + r <= w + r1 /\ t + s + w <= 1 + r
      BY <2>2, <2>3, <2>4, <2>5, <2>6
    <3> HIDE DEF t, s, s1, w, w1, r, r1
    <3>2. t + s1 + w1 <= 1 + r1
      BY <3>1
    <3> QED
      BY <2>8, <3>2 DEF t, s1, w1, r1
  <2> QED
    BY <2>7, <2>9 DEF Counted
<1>7. \A p \in PayoutNumber : payouts'[p].status = "PAID" => debits'[p] > 0
  BY DEF PayoutInv
<1> QED
  BY <1>1, <1>2, <1>5, <1>6, <1>7 DEF PayoutInv

LEMMA NumbersOK ==
  ASSUME PayoutTypeOK, NEW p \in 1..MaxPayouts
  PROVE  /\ Awaiting(p) \in Nat /\ reopened[p] \in Nat /\ debits[p] \in Nat
         /\ Cardinality(TransfersOf(p)) \in Nat /\ Cardinality(Sending(p)) \in Nat
         /\ Cardinality(Reported(p)) \in Nat
<1>1. Awaiting(p) \in Nat /\ reopened[p] \in Nat /\ debits[p] \in Nat
  BY DEF Awaiting, PayoutTypeOK
<1> QED
  BY <1>1, PayoutCounts

(* A claim turns the decision that was awaited into a transfer to be made.    *)
LEMMA PayoutClaimed ==
  ASSUME PayoutInv, NEW a \in Admin, NEW p \in PayoutNumber,
         adminCall[a].step = "claiming", adminCall[a].payout = p,
         payouts[p].status = "PENDING",
         payouts' = [payouts EXCEPT ![p].status = "PROCESSING"],
         adminCall' = [adminCall EXCEPT ![a].step = "sending"],
         UNCHANGED <<requests, transfers, events, deliveries, debits, reopened>>
  PROVE  PayoutInv'
<1>0. PayoutTypeOK /\ Referred
  BY DEF PayoutInv
<1>1. /\ payouts' \in Seq(PayoutRow) /\ Len(payouts') = Len(payouts)
      /\ payouts'[p].status = "PROCESSING" /\ payouts'[p].ref = payouts[p].ref
      /\ \A q \in PayoutNumber : q # p => payouts'[q] = payouts[q]
  BY <1>0, StatusSet DEF PayoutStatus
<1>2. PICK c \in AdminCall :
        /\ adminCall' = [adminCall EXCEPT ![a] = c]
        /\ c.step = "sending" /\ c.payout = p
  BY <1>0, StepSet DEF AdminStep
<1>3. PayoutTypeOK'
  BY <1>0, <1>1, <1>2 DEF PayoutTypeOK
<1>4. /\ PayoutNumber' = PayoutNumber
      /\ \A q : TransfersOf(q)' = TransfersOf(q)
      /\ \A q : Reported(q)' = Reported(q)
  BY <1>1 DEF PayoutNumber, TransfersOf, Reported
<1>5. ASSUME NEW b \in Admin PROVE AdminOK(adminCall[b])'
  <2>1. AdminOK(adminCall'[b])
    BY <1>0, <1>2 DEF PayoutTypeOK, Referred, AdminOK
  <2> QED
    BY <1>4, <2>1 DEF AdminOK
<1>6. ASSUME NEW d \in Delivery PROVE DeliveryOK(deliveries[d])'
  BY <1>0, <1>4 DEF Referred, DeliveryOK
<1>7. ASSUME NEW q \in PayoutNumber, payouts'[q].ref # 0 PROVE payouts'[q].ref \in TransfersOf(q)
  BY <1>0, <1>1, <1>7 DEF Referred
<1>8. Referred'
  BY <1>0, <1>4, <1>5, <1>6, <1>7 DEF Referred
<1>9. ASSUME NEW q \in 1..MaxPayouts PROVE Counted(q)'
  <2>1. CASE q = p
    <3>1. Sending(p)' = Sending(p) \cup {a} /\ a \notin Sending(p)
      BY <1>0, <1>2 DEF Sending, PayoutTypeOK
    <3>2. Cardinality(Sending(p)') = Cardinality(Sending(p)) + 1
      <4>1. IsFiniteSet(Sending(p))
        BY <1>0, PayoutCounts
      <4> QED
        BY <3>1, <4>1, FS_AddElement
    <3>3. Awaiting(p) = 1 /\ Awaiting(p)' = 0
      BY <1>1, <1>4 DEF Awaiting
    <3> QED
      BY <1>0, <1>4, <2>1, <3>2, <3>3, NumbersOK DEF PayoutInv, Counted
  <2>2. CASE q # p
    <3>1. Sending(q)' = Sending(q)
      BY <1>0, <1>2, <2>2 DEF Sending, PayoutTypeOK
    <3>2. Awaiting(q)' = Awaiting(q)
      BY <1>1, <1>4, <2>2 DEF Awaiting
    <3> QED
      BY <1>4, <3>1, <3>2 DEF PayoutInv, Counted
  <2> QED
    BY <2>1, <2>2
<1>10. ASSUME NEW q \in PayoutNumber, payouts'[q].status = "PAID" PROVE debits'[q] > 0
  BY <1>1, <1>10 DEF PayoutInv
<1> QED
  BY <1>3, <1>4, <1>8, <1>9, <1>10 DEF PayoutInv

(* A transfer uses up the claim; its number is new.                           *)
LEMMA TransferMade ==
  ASSUME PayoutInv, NEW a \in Admin, NEW p \in PayoutNumber, NEW c \in AdminCall,
         adminCall[a].step = "sending", adminCall[a].payout = p,
         Len(transfers) < MaxTransfers, transfers' = Append(transfers, p),
         c.step \in {"sent", "failed"}, c.payout = p,
         c.step = "sent" => c.ref = Len(transfers) + 1,
         adminCall' = [adminCall EXCEPT ![a] = c],
         UNCHANGED <<payouts, requests, events, deliveries, debits, reopened>>
  PROVE  PayoutInv'
<1> DEFINE n == Len(transfers) + 1
<1>0. PayoutTypeOK /\ Referred
  BY DEF PayoutInv
<1>1. /\ transfers' \in Seq(1..MaxPayouts) /\ Len(transfers') = n
      /\ transfers'[n] = p /\ \A k \in 1..Len(transfers) : transfers'[k] = transfers[k]
      /\ DOMAIN transfers' = 1..n /\ DOMAIN transfers = 1..Len(transfers) /\ Len(transfers) \in Nat
  BY <1>0, PayoutTyped DEF PayoutTypeOK
<1>2. PayoutTypeOK'
  <2>1. adminCall' \in [Admin -> AdminCall]
    BY <1>0 DEF PayoutTypeOK
  <2>2. n <= MaxTransfers
    BY <1>1, PayoutAssumption
  <2> HIDE DEF n
  <2> QED
    BY <1>0, <1>1, <2>1, <2>2 DEF PayoutTypeOK
<1>3. /\ TransfersOf(p)' = TransfersOf(p) \cup {n} /\ n \notin TransfersOf(p)
      /\ \A q : q # p => TransfersOf(q)' = TransfersOf(q)
      /\ \A q : TransfersOf(q) \subseteq TransfersOf(q)' /\ Reported(q) \subseteq Reported(q)'
  <2>1. 1..n = (1..Len(transfers)) \cup {n} /\ n \notin 1..Len(transfers)
    BY <1>1
  <2> HIDE DEF n
  <2>2. \A q : TransfersOf(q)' = {k \in 1..n : transfers'[k] = q}
              /\ TransfersOf(q) = {k \in 1..Len(transfers) : transfers[k] = q}
    BY <1>1 DEF TransfersOf
  <2>3. /\ TransfersOf(p)' = TransfersOf(p) \cup {n} /\ n \notin TransfersOf(p)
        /\ \A q : q # p => TransfersOf(q)' = TransfersOf(q)
    BY <1>1, <2>1, <2>2
  <2>4. \A q : TransfersOf(q) \subseteq TransfersOf(q)'
    BY <1>1, <2>1, <2>2
  <2>5. \A q : Reported(q) \subseteq Reported(q)'
    BY <2>4 DEF Reported
  <2> QED
    BY <2>3, <2>4, <2>5
<1>4. PayoutNumber' = PayoutNumber
  BY DEF PayoutNumber
<1> HIDE DEF n
<1>5. ASSUME NEW b \in Admin PROVE AdminOK(adminCall[b])'
  <2>1. CASE b = a
    BY <1>0, <1>3, <1>4, <2>1 DEF AdminOK, PayoutTypeOK, n
  <2>2. CASE b # a
    <3>1. adminCall'[b] = adminCall[b] /\ AdminOK(adminCall[b])
      BY <1>0, <2>2 DEF PayoutTypeOK, Referred
    <3> QED
      BY <1>3, <1>4, <3>1 DEF AdminOK
  <2> QED
    BY <2>1, <2>2
<1>6. ASSUME NEW d \in Delivery PROVE DeliveryOK(deliveries[d])'
  <2>1. DeliveryOK(deliveries[d]) /\ deliveries'[d] = deliveries[d]
    BY <1>0 DEF Referred
  <2>2. 1..Len(transfers) \subseteq 1..n
    BY <1>1 DEF n
  <2> QED
    BY <1>1, <1>3, <1>4, <2>1, <2>2 DEF DeliveryOK
<1>7. \A q \in PayoutNumber : payouts'[q].ref # 0 => payouts'[q].ref \in TransfersOf(q)'
  BY <1>0, <1>3 DEF Referred
<1>8. \A k \in DOMAIN transfers' : transfers'[k] \in PayoutNumber
  <2>1. \A k \in 1..n : k = n \/ k \in 1..Len(transfers)
    BY <1>1 DEF n
  <2> QED
    BY <1>0, <1>1, <2>1 DEF Referred
<1>9. Referred'
  BY <1>4, <1>5, <1>6, <1>7, <1>8 DEF Referred
<1>10. ASSUME NEW q \in 1..MaxPayouts PROVE Counted(q)'
  <2>1. Cardinality(Reported(q)) <= Cardinality(Reported(q)')
    <3>1. Reported(q) \subseteq Reported(q)'
      BY <1>3
    <3>2. IsFiniteSet(Reported(q)')
      <4>1. Reported(q)' \subseteq TransfersOf(q) \cup {n}
        BY <1>3 DEF Reported
      <4>2. IsFiniteSet(TransfersOf(q) \cup {n})
        BY <1>0, PayoutCounts, FS_AddElement
      <4> QED
        BY <4>1, <4>2, FS_Subset
    <3> QED
      BY <3>1, <3>2, FS_Subset
  <2>2. Cardinality(Reported(q)') \in Nat /\ debits'[q] = debits[q]
    <3>1. IsFiniteSet(TransfersOf(q)')
      BY <1>0, <1>3, PayoutCounts, FS_AddElement
    <3>2. Reported(q)' \subseteq TransfersOf(q)'
      BY DEF Reported
    <3> QED
      BY <3>1, <3>2, FS_Subset, FS_CardinalityType
  <2>3. debits'[q] <= Cardinality(Reported(q)')
    BY <1>0, <2>1, <2>2, NumbersOK DEF PayoutInv, Counted
  <2>4. Awaiting(q)' = Awaiting(q)
    BY <1>4 DEF Awaiting
  <2>5. Cardinality(TransfersOf(q)') + Cardinality(Sending(q)')
          = Cardinality(TransfersOf(q)) + Cardinality(Sending(q))
    <3>1. CASE q = p
      <4>1. Cardinality(TransfersOf(p)') = Cardinality(TransfersOf(p)) + 1
        BY <1>0, <1>3, PayoutCounts, FS_AddElement
      <4>2. Sending(p)' = Sending(p) \ {a} /\ a \in Sending(p)
        BY <1>0 DEF Sending, PayoutTypeOK
      <4>3. Cardinality(Sending(p)') = Cardinality(Sending(p)) - 1
        BY <1>0, <4>2, PayoutCounts, FS_RemoveElement
      <4> QED
        BY <1>0, <3>1, <4>1, <4>3, NumbersOK
    <3>2. CASE q # p
      <4>1. Sending(q)' = Sending(q) /\ TransfersOf(q)' = TransfersOf(q)
        BY <1>0, <1>3, <3>2 DEF Sending, PayoutTypeOK
      <4> QED
        BY <4>1
    <3> QED
      BY <3>1, <3>2
  <2> QED
    BY <2>3, <2>4, <2>5 DEF PayoutInv, Counted
<1>11. \A q \in PayoutNumber : payouts'[q].status = "PAID" => debits'[q] > 0
  BY DEF PayoutInv
<1> QED
  BY <1>2, <1>4, <1>9, <1>10, <1>11 DEF PayoutInv

(* A new payout has neither transfers nor claims, and one decision to wait for. *)
LEMMA PayoutCreated ==
  ASSUME PayoutInv, Len(payouts) < MaxPayouts,
         payouts' = Append(payouts, [status |-> "PENDING", ref |-> 0]),
         requests' \in 0..MaxRequests,
         UNCHANGED <<adminCall, transfers, events, deliveries, debits, reopened>>
  PROVE  PayoutInv'
<1> DEFINE new == [status |-> "PENDING", ref |-> 0]
<1>0. PayoutTypeOK /\ Referred
  BY DEF PayoutInv
<1>a. PICK n \in Nat : n = Len(payouts) + 1
  BY <1>0, PayoutTyped
<1>1. new \in PayoutRow /\ new.status = "PENDING" /\ new.ref = 0
  BY PayoutAssumption DEF PayoutRow, PayoutStatus
<1> HIDE DEF new
<1>2. /\ payouts' \in Seq(PayoutRow) /\ Len(payouts') = n /\ payouts'[n] = new
      /\ \A q \in PayoutNumber : payouts'[q] = payouts[q]
  BY <1>0, <1>1, <1>a DEF PayoutTypeOK, PayoutNumber, new
<1>3. /\ PayoutNumber' = PayoutNumber \cup {n} /\ n \notin PayoutNumber /\ n \in 1..MaxPayouts
      /\ n <= MaxPayouts
  BY <1>0, <1>2, <1>a, PayoutTyped, PayoutAssumption DEF PayoutNumber
<1>4. PayoutTypeOK'
  BY <1>0, <1>2, <1>3 DEF PayoutTypeOK
<1>5. /\ \A q : TransfersOf(q)' = TransfersOf(q) /\ Sending(q)' = Sending(q)
      /\ \A q : Reported(q)' = Reported(q)
  BY DEF TransfersOf, Sending, Reported
<1>6. /\ \A b \in Admin : AdminOK(adminCall[b])'
      /\ \A d \in Delivery : DeliveryOK(deliveries[d])'
      /\ \A k \in DOMAIN transfers' : transfers'[k] \in PayoutNumber'
  BY <1>0, <1>3, <1>5 DEF Referred, AdminOK, DeliveryOK
<1>7. ASSUME NEW q \in PayoutNumber', payouts'[q].ref # 0
      PROVE  payouts'[q].ref \in TransfersOf(q)'
  BY <1>0, <1>1, <1>2, <1>3, <1>5, <1>7 DEF Referred
<1>8. Referred'
  BY <1>6, <1>7 DEF Referred
<1>9. ASSUME NEW q \in 1..MaxPayouts PROVE Counted(q)'
  <2>1. CASE q = n
    <3>1. TransfersOf(n) = {} /\ Sending(n) = {}
      <4>1. \A b \in Admin : adminCall[b].step = "sending" => adminCall[b].payout \in PayoutNumber
        BY <1>0 DEF Referred, AdminOK
      <4> QED
        BY <1>0, <1>3, <4>1 DEF Referred, TransfersOf, Sending
    <3>2. Cardinality(TransfersOf(n)') = 0 /\ Cardinality(Sending(n)') = 0
      <4>1. TransfersOf(n)' = {} /\ Sending(n)' = {}
        BY <1>5, <3>1
      <4> QED
        BY <4>1, FS_EmptySet
    <3>3. Awaiting(n)' = 1
      BY <1>1, <1>2, <1>3 DEF Awaiting
    <3>4. reopened'[n] \in Nat
      BY <1>0, <1>3 DEF PayoutTypeOK
    <3>5. debits'[q] <= Cardinality(Reported(q)')
      BY <1>5 DEF PayoutInv, Counted
    <3> QED
      BY <2>1, <3>2, <3>3, <3>4, <3>5 DEF Counted
  <2>2. CASE q # n
    <3>1. Awaiting(q)' = Awaiting(q)
      BY <1>2, <1>3, <2>2 DEF Awaiting
    <3> QED
      BY <1>5, <3>1 DEF PayoutInv, Counted
  <2> QED
    BY <2>1, <2>2
<1>10. ASSUME NEW q \in PayoutNumber', payouts'[q].status = "PAID" PROVE debits'[q] > 0
  BY <1>1, <1>2, <1>3, <1>10 DEF PayoutInv
<1> QED
  BY <1>4, <1>8, <1>9, <1>10 DEF PayoutInv

(* What a delivery records, unless it is the one that pays.                   *)
LEMMA DeliveryMoves ==
  ASSUME PayoutInv, NEW d \in Delivery, NEW c \in DeliveryCall, DeliveryOK(c),
         deliveries' = [deliveries EXCEPT ![d] = c],
         events' \in [1..MaxTransfers -> EventRow],
         \A k \in 1..MaxTransfers : events[k] # "NONE" => events'[k] # "NONE",
         UNCHANGED <<payouts, requests, adminCall, transfers, debits, reopened>>
  PROVE  PayoutInv'
<1>0. PayoutTypeOK /\ Referred
  BY DEF PayoutInv
<1>1. PayoutTypeOK'
  BY <1>0 DEF PayoutTypeOK
<1>2. PayoutNumber' = PayoutNumber
      /\ \A q : TransfersOf(q)' = TransfersOf(q) /\ Sending(q)' = Sending(q) /\ Awaiting(q)' = Awaiting(q)
  BY DEF PayoutNumber, TransfersOf, Sending, Awaiting
<1>3. ASSUME NEW e \in Delivery PROVE DeliveryOK(deliveries[e])'
  <2>1. DeliveryOK(deliveries'[e])
    BY <1>0 DEF PayoutTypeOK, Referred
  <2> QED
    BY <1>2, <2>1 DEF DeliveryOK
<1>4. Referred'
  BY <1>0, <1>2, <1>3 DEF Referred, AdminOK
<1>5. ASSUME NEW q \in 1..MaxPayouts PROVE Counted(q)'
  <2>1. Reported(q) \subseteq Reported(q)' /\ Reported(q)' \subseteq TransfersOf(q)
    BY <1>0, PayoutTyped DEF Reported, TransfersOf
  <2>2. IsFiniteSet(TransfersOf(q))
    BY <1>0, PayoutCounts
  <2>3. IsFiniteSet(Reported(q)')
    BY <2>1, <2>2, FS_Subset
  <2>4. Cardinality(Reported(q)) <= Cardinality(Reported(q)') /\ Cardinality(Reported(q)') \in Nat
    BY <2>1, <2>3, FS_Subset, FS_CardinalityType
  <2>5. debits'[q] <= Cardinality(Reported(q)')
    BY <1>0, <2>4, NumbersOK DEF PayoutInv, Counted
  <2> QED
    BY <1>2, <2>5 DEF PayoutInv, Counted
<1>6. \A q \in PayoutNumber : payouts'[q].status = "PAID" => debits'[q] > 0
  BY DEF PayoutInv
<1> QED
  BY <1>1, <1>2, <1>4, <1>5, <1>6 DEF PayoutInv

(* The delivery that pays is the first to record its event.                   *)
LEMMA EventPays ==
  ASSUME PayoutInv, NEW d \in Delivery, NEW p \in PayoutNumber, NEW k \in TransfersOf(p),
         events[k] = "NONE",
         payouts' = [payouts EXCEPT ![p].status = "PAID"],
         events' = [events EXCEPT ![k] = "PROCESSED"],
         debits' = [debits EXCEPT ![p] = @ + 1],
         deliveries' = [deliveries EXCEPT ![d] = NoDelivery],
         UNCHANGED <<requests, adminCall, transfers, reopened>>
  PROVE  PayoutInv'
<1>0. PayoutTypeOK /\ Referred
  BY DEF PayoutInv
<1>1. /\ payouts' \in Seq(PayoutRow) /\ Len(payouts') = Len(payouts)
      /\ payouts'[p].status = "PAID" /\ payouts'[p].ref = payouts[p].ref
      /\ \A q \in PayoutNumber : q # p => payouts'[q] = payouts[q]
  BY <1>0, StatusSet DEF PayoutStatus
<1>2. k \in DOMAIN transfers /\ k \in 1..MaxTransfers /\ p \in 1..MaxPayouts
  BY <1>0, PayoutTyped DEF TransfersOf
<1>3. NoDelivery \in DeliveryCall /\ DeliveryOK(NoDelivery)
  BY PayoutAssumption DEF NoDelivery, DeliveryCall, DeliveryOK
<1>4. PayoutTypeOK'
  <2>1. deliveries' \in [Delivery -> DeliveryCall]
    BY <1>0, <1>3 DEF PayoutTypeOK
  <2>2. events' \in [1..MaxTransfers -> EventRow] /\ debits' \in [1..MaxPayouts -> Nat]
    BY <1>0, <1>2 DEF PayoutTypeOK, EventRow
  <2> QED
    BY <1>0, <1>1, <2>1, <2>2 DEF PayoutTypeOK
<1>5. PayoutNumber' = PayoutNumber
      /\ \A q : TransfersOf(q)' = TransfersOf(q) /\ Sending(q)' = Sending(q)
  BY <1>1 DEF PayoutNumber, TransfersOf, Sending
<1>6. ASSUME NEW e \in Delivery PROVE DeliveryOK(deliveries[e])'
  <2>1. DeliveryOK(deliveries'[e])
    BY <1>0, <1>3 DEF PayoutTypeOK, Referred
  <2> QED
    BY <1>5, <2>1 DEF DeliveryOK
<1>7. ASSUME NEW b \in Admin PROVE AdminOK(adminCall[b])'
  BY <1>0, <1>5 DEF Referred, AdminOK
<1>8. ASSUME NEW q \in PayoutNumber, payouts'[q].ref # 0 PROVE payouts'[q].ref \in TransfersOf(q)
  BY <1>0, <1>1, <1>8 DEF Referred
<1>9. Referred'
  BY <1>0, <1>5, <1>6, <1>7, <1>8 DEF Referred
<1>10. ASSUME NEW q \in 1..MaxPayouts PROVE Counted(q)'
  <2>1. IsFiniteSet(Reported(q)) /\ Awaiting(q) \in Nat /\ Cardinality(Reported(q)) \in Nat
        /\ debits[q] \in Nat
    BY <1>0, PayoutCounts, NumbersOK
  <2>2. debits'[q] <= Cardinality(Reported(q)')
    <3>1. CASE q = p
      <4>1. Reported(p)' = Reported(p) \cup {k} /\ k \notin Reported(p)
        BY <1>0, <1>2, PayoutTyped DEF Reported, TransfersOf, PayoutTypeOK
      <4>2. Cardinality(Reported(p)') = Cardinality(Reported(p)) + 1
        BY <2>1, <3>1, <4>1, FS_AddElement
      <4>3. debits'[p] = debits[p] + 1
        BY <1>0, <1>2 DEF PayoutTypeOK
      <4>4. debits[p] <= Cardinality(Reported(p))
        BY <1>2 DEF PayoutInv, Counted
      <4> QED
        BY <2>1, <3>1, <4>2, <4>3, <4>4
    <3>2. CASE q # p
      <4>1. Reported(q)' = Reported(q)
        BY <1>0, <1>2, <3>2, PayoutTyped DEF Reported, TransfersOf, PayoutTypeOK
      <4>2. debits'[q] = debits[q]
        BY <1>0, <3>2 DEF PayoutTypeOK
      <4> QED
        BY <4>1, <4>2 DEF PayoutInv, Counted
    <3> QED
      BY <3>1, <3>2
  <2>3. Awaiting(q)' <= Awaiting(q) /\ Awaiting(q)' \in Nat
    BY <1>1, <1>5 DEF Awaiting
  <2>4. Cardinality(TransfersOf(q)') + Cardinality(Sending(q)') + Awaiting(q)' <= 1 + reopened'[q]
    BY <1>0, <1>5, <2>1, <2>3, NumbersOK DEF PayoutInv, Counted
  <2> QED
    BY <2>2, <2>4 DEF Counted
<1>11. ASSUME NEW q \in PayoutNumber, payouts'[q].status = "PAID" PROVE debits'[q] > 0
  <2>1. debits' \in [1..MaxPayouts -> Nat] /\ q \in 1..MaxPayouts
    BY <1>0, <1>4, PayoutTyped DEF PayoutTypeOK
  <2>2. CASE q = p
    BY <1>0, <1>2, <2>2 DEF PayoutTypeOK
  <2>3. CASE q # p
    BY <1>0, <1>1, <1>11, <2>1, <2>3 DEF PayoutInv, PayoutTypeOK
  <2> QED
    BY <2>2, <2>3
<1> QED
  BY <1>4, <1>5, <1>9, <1>10, <1>11 DEF PayoutInv

LEMMA PayoutInvInit == PayoutInit => PayoutInv
<1> SUFFICES ASSUME PayoutInit PROVE PayoutInv
  OBVIOUS
<1> USE PayoutAssumption DEF PayoutInit
<1>1. PayoutTypeOK
  <2>1. NoAdminCall \in AdminCall /\ NoDelivery \in DeliveryCall
    BY DEF NoAdminCall, AdminCall, AdminStep, NoDelivery, DeliveryCall
  <2> QED
    BY <2>1 DEF PayoutTypeOK, EventRow
<1>2. PayoutNumber = {} /\ DOMAIN transfers = {}
  BY DEF PayoutNumber
<1>3. Referred
  BY <1>2 DEF Referred, AdminOK, DeliveryOK, NoAdminCall, NoDelivery
<1>4. ASSUME NEW p \in 1..MaxPayouts PROVE Counted(p)
  <2>1. TransfersOf(p) = {} /\ Sending(p) = {} /\ Reported(p) = {} /\ Awaiting(p) = 0
    BY <1>2 DEF TransfersOf, Sending, Reported, Awaiting, NoAdminCall
  <2>2. Cardinality({}) = 0
    BY FS_EmptySet
  <2> QED
    BY <2>1, <2>2 DEF Counted
<1> QED
  BY <1>1, <1>2, <1>3, <1>4 DEF PayoutInv

LEMMA PayoutInvStep == PayoutInv /\ [PayoutNext]_payoutVars => PayoutInv'
<1> SUFFICES ASSUME PayoutInv, [PayoutNext]_payoutVars PROVE PayoutInv'
  OBVIOUS
<1>0. PayoutTypeOK /\ Referred
  BY DEF PayoutInv
<1>a. /\ \A p \in PayoutNumber : payouts[p].ref # 0 => payouts[p].ref \in TransfersOf(p)
      /\ \A a \in Admin : AdminOK(adminCall[a]) /\ adminCall[a] \in AdminCall
      /\ DOMAIN payouts = PayoutNumber /\ payouts \in Seq(PayoutRow)
      /\ reopened \in [1..MaxPayouts -> Nat]
      /\ \A p \in 1..MaxPayouts : Awaiting(p) \in Nat /\ reopened[p] \in Nat
  BY <1>0, PayoutTyped, NumbersOK DEF Referred, PayoutTypeOK
<1>b. NoAdminCall \in AdminCall /\ NoAdminCall.step = "idle" /\ AdminOK(NoAdminCall)
  BY PayoutAssumption DEF NoAdminCall, AdminCall, AdminStep, AdminOK
<1>1. ASSUME requests' \in 0..MaxRequests,
             UNCHANGED <<payouts, adminCall, transfers, events, deliveries, debits, reopened>>
      PROVE  PayoutInv'
  <2>1. PayoutTypeOK'
    BY <1>0, <1>1 DEF PayoutTypeOK
  <2>2. /\ PayoutNumber' = PayoutNumber
        /\ \A p : /\ TransfersOf(p)' = TransfersOf(p) /\ Sending(p)' = Sending(p)
                  /\ Reported(p)' = Reported(p) /\ Awaiting(p)' = Awaiting(p)
    BY <1>1 DEF PayoutNumber, TransfersOf, Sending, Reported, Awaiting
  <2>3. Referred'
    BY <1>0, <1>1, <2>2 DEF Referred, AdminOK, DeliveryOK
  <2>4. \A p \in 1..MaxPayouts : Counted(p)'
    BY <1>1, <2>2 DEF PayoutInv, Counted
  <2> QED
    BY <1>1, <2>1, <2>2, <2>3, <2>4 DEF PayoutInv
<1>2. CASE RequestRead
  <2>1. requests' \in 0..MaxRequests
    BY <1>0, <1>2, PayoutAssumption DEF RequestRead, PayoutTypeOK
  <2> QED
    BY <1>1, <1>2, <2>1 DEF RequestRead
<1>3. CASE RequestCreate
  <2>1. requests' \in 0..MaxRequests
    BY <1>0, <1>3, PayoutAssumption DEF RequestCreate, PayoutTypeOK
  <2>2. CASE UNCHANGED payouts
    BY <1>1, <1>3, <2>1, <2>2 DEF RequestCreate
  <2>3. CASE Len(payouts) < MaxPayouts /\ payouts' = Append(payouts, [status |-> "PENDING", ref |-> 0])
    BY <1>3, <2>1, <2>3, PayoutCreated DEF RequestCreate
  <2> QED
    BY <1>3, <2>2, <2>3 DEF RequestCreate
(* An administrator's call that moves on and leaves the payouts alone.        *)
<1>4. ASSUME NEW a \in Admin, NEW c \in AdminCall, c.step # "sending", AdminOK(c),
             adminCall' = [adminCall EXCEPT ![a] = c],
             UNCHANGED <<payouts, requests, transfers, events, deliveries, debits, reopened>>
      PROVE  PayoutInv'
  <2>1. \A p \in 1..MaxPayouts : Awaiting(p)' + reopened[p] <= Awaiting(p) + reopened'[p]
    <3>1. \A p \in 1..MaxPayouts : Awaiting(p)' = Awaiting(p) /\ reopened'[p] = reopened[p]
      BY <1>4 DEF Awaiting, PayoutNumber
    <3> QED
      BY <1>a, <3>1
  <2> QED
    BY <1>4, <1>a, <2>1, AdminWrites
(* One that gives a payout a status: not PAID, and PENDING only by a decision.*)
<1>5. ASSUME NEW a \in Admin, NEW p \in PayoutNumber, NEW s \in PayoutStatus,
             payouts' = [payouts EXCEPT ![p].status = s],
             adminCall' = [adminCall EXCEPT ![a] = NoAdminCall],
             s = "PAID" => payouts[p].status = "PAID",
             \/ s = "PENDING" => payouts[p].status = "PENDING"
                /\ UNCHANGED reopened
             \/ reopened' = [reopened EXCEPT ![p] = @ + 1],
             reopened' \in [1..MaxPayouts -> Nat],
             \A q \in 1..MaxPayouts : reopened'[q] >= reopened[q],
             UNCHANGED <<requests, transfers, events, deliveries, debits>>
      PROVE  PayoutInv'
  <2>1. /\ payouts' \in Seq(PayoutRow) /\ Len(payouts') = Len(payouts)
        /\ payouts'[p].status = s /\ payouts'[p].ref = payouts[p].ref
        /\ \A q \in PayoutNumber : q # p => payouts'[q] = payouts[q]
    BY <1>0, <1>5, StatusSet
  <2>2. PayoutNumber' = PayoutNumber
    BY <2>1 DEF PayoutNumber
  <2>3. ASSUME NEW q \in 1..MaxPayouts
        PROVE  Awaiting(q)' + reopened[q] <= Awaiting(q) + reopened'[q]
    <3>1. /\ reopened[q] \in Nat /\ reopened'[q] \in Nat /\ reopened'[q] >= reopened[q]
          /\ Awaiting(q) \in 0..1 /\ Awaiting(q)' \in 0..1
      BY <1>5, <1>a DEF Awaiting
    <3>2. CASE q # p \/ s # "PENDING" \/ payouts[p].status = "PENDING"
      <4>1. Awaiting(q)' <= Awaiting(q)
        BY <2>1, <2>2, <3>1, <3>2 DEF Awaiting
      <4> QED
        BY <3>1, <4>1
    <3>3. CASE q = p /\ s = "PENDING" /\ payouts[p].status # "PENDING"
      <4>1. reopened'[q] = reopened[q] + 1
        BY <1>5, <1>a, <3>3
      <4> QED
        BY <3>1, <4>1
    <3> QED
      BY <3>2, <3>3
  <2>4. ASSUME NEW q \in PayoutNumber
        PROVE  /\ payouts'[q].ref # 0 => payouts'[q].ref \in TransfersOf(q)
               /\ payouts'[q].status = "PAID" => payouts[q].status = "PAID"
    BY <1>5, <1>a, <2>1
  <2> QED
    BY <1>5, <1>b, <2>1, <2>3, <2>4, AdminWrites
<1>6. ASSUME NEW a \in Admin, AdminStepOf(a) PROVE PayoutInv'
  <2>1. ASSUME NEW p \in PayoutNumber, DecideRead(a, p) \/ CorrectRead(a, p) PROVE PayoutInv'
    <3>1. PICK s \in {"claiming", "correcting"} :
            adminCall' = [adminCall EXCEPT ![a] = [step |-> s, payout |-> p, ref |-> 0]]
      BY <2>1 DEF DecideRead, CorrectRead
    <3> DEFINE c == [step |-> s, payout |-> p, ref |-> 0]
    <3>2. p \in 0..MaxPayouts
      BY <1>0, PayoutTyped, PayoutAssumption
    <3>3. c \in AdminCall /\ c.step # "sending" /\ AdminOK(c)
      BY <3>2, PayoutAssumption DEF AdminCall, AdminStep, AdminOK
    <3> HIDE DEF c
    <3> QED
      BY <1>4, <2>1, <3>1, <3>3 DEF DecideRead, CorrectRead, c
  <2>2. CASE Claim(a)
    <3> DEFINE p == adminCall[a].payout
    <3>1. p \in PayoutNumber /\ adminCall[a].step = "claiming"
      BY <1>a, <2>2 DEF Claim, AdminOK
    <3>2. CASE /\ payouts[p].status = "PENDING"
               /\ payouts' = [payouts EXCEPT ![p].status = "PROCESSING"]
               /\ adminCall' = [adminCall EXCEPT ![a].step = "sending"]
      BY <2>2, <3>1, <3>2, PayoutClaimed DEF Claim
    <3>3. CASE /\ payouts' = [payouts EXCEPT ![p].status = "CANCELLED"]
               /\ adminCall' = [adminCall EXCEPT ![a] = NoAdminCall]
      <4>1. \A q \in 1..MaxPayouts : reopened[q] >= reopened[q]
        BY <1>a
      <4> QED
        BY <1>5, <1>a, <2>2, <3>1, <3>3, <4>1 DEF Claim, PayoutStatus
    <3>4. CASE /\ adminCall' = [adminCall EXCEPT ![a] = NoAdminCall]
               /\ UNCHANGED payouts
      BY <1>4, <1>b, <2>2, <3>4 DEF Claim
    <3> QED
      BY <2>2, <3>2, <3>3, <3>4 DEF Claim, StillPending
  <2>3. CASE SendPayout(a)
    <3>1. adminCall[a].step = "sending" /\ adminCall[a].payout \in PayoutNumber
      BY <1>a, <2>3 DEF SendPayout, AdminOK
    <3>2. ASSUME adminCall' = [adminCall EXCEPT ![a].step = "failed"]
          PROVE  \E c \in AdminCall :
                   /\ adminCall' = [adminCall EXCEPT ![a] = c]
                   /\ c.step = "failed" /\ c.payout = adminCall[a].payout
      BY <1>0, <3>2, StepSet DEF AdminStep
    <3>3. CASE /\ UNCHANGED transfers
               /\ adminCall' = [adminCall EXCEPT ![a].step = "failed"]
      <4>1. PICK c \in AdminCall :
              /\ adminCall' = [adminCall EXCEPT ![a] = c]
              /\ c.step = "failed" /\ c.payout = adminCall[a].payout
        BY <3>2, <3>3
      <4>2. AdminOK(c)
        BY <3>1, <4>1 DEF AdminOK
      <4> QED
        BY <1>4, <2>3, <3>3, <4>1, <4>2 DEF SendPayout
    <3>4. CASE /\ Len(transfers) < MaxTransfers
               /\ transfers' = Append(transfers, adminCall[a].payout)
               /\ adminCall' = [adminCall EXCEPT ![a].step = "failed"]
      <4>1. PICK c \in AdminCall :
              /\ adminCall' = [adminCall EXCEPT ![a] = c]
              /\ c.step = "failed" /\ c.payout = adminCall[a].payout
        BY <3>2, <3>4
      <4> QED
        BY <2>3, <3>1, <3>4, <4>1, TransferMade DEF SendPayout
    <3>5. CASE /\ Len(transfers) < MaxTransfers
               /\ transfers' = Append(transfers, adminCall[a].payout)
               /\ adminCall' = [adminCall EXCEPT ![a] =
                    [step |-> "sent", payout |-> @.payout, ref |-> Len(transfers) + 1]]
      <4> DEFINE c == [step |-> "sent", payout |-> adminCall[a].payout, ref |-> Len(transfers) + 1]
      <4>1. Len(transfers) + 1 \in 0..MaxTransfers /\ adminCall[a].payout \in 0..MaxPayouts
        BY <1>0, <3>1, <3>5, PayoutTyped, PayoutAssumption
      <4>2. c \in AdminCall /\ c.step = "sent" /\ c.payout = adminCall[a].payout
            /\ c.ref = Len(transfers) + 1
        BY <4>1 DEF AdminCall, AdminStep
      <4>3. adminCall' = [adminCall EXCEPT ![a] = c]
        BY <3>5
      <4> HIDE DEF c
      <4> QED
        BY <2>3, <3>1, <3>5, <4>2, <4>3, TransferMade DEF SendPayout
    <3> QED
      BY <2>3, <3>3, <3>4, <3>5 DEF SendPayout
  <2>4. CASE SavePayoutRef(a)
    <3> DEFINE p == adminCall[a].payout
               k == IF payouts[p].status = "PROCESSING" THEN adminCall[a].ref ELSE payouts[p].ref
    <3>1. p \in PayoutNumber /\ adminCall[a].ref \in TransfersOf(p)
      BY <1>a, <2>4 DEF SavePayoutRef, AdminOK
    <3>2. payouts' = [payouts EXCEPT ![p].ref = k]
      BY <2>4 DEF SavePayoutRef
    <3>3. k \in 0..MaxTransfers /\ (k # 0 => k \in TransfersOf(p))
      <4>1. adminCall[a].ref \in 0..MaxTransfers
        BY <1>a DEF AdminCall
      <4>2. payouts[p].ref \in 0..MaxTransfers /\ (payouts[p].ref # 0 => payouts[p].ref \in TransfersOf(p))
        BY <1>0, <1>a, <3>1, PayoutTyped DEF PayoutRow
      <4> QED
        BY <3>1, <4>1, <4>2
    <3> HIDE DEF k, p
    <3>4. /\ payouts' \in Seq(PayoutRow) /\ Len(payouts') = Len(payouts)
          /\ payouts'[p].status = payouts[p].status /\ payouts'[p].ref = k
          /\ \A q \in PayoutNumber : q # p => payouts'[q] = payouts[q]
      BY <1>0, <3>1, <3>2, <3>3, RefSet
    <3>5. ASSUME NEW q \in 1..MaxPayouts
          PROVE  Awaiting(q)' + reopened[q] <= Awaiting(q) + reopened[q]
      <4>1. Awaiting(q)' = Awaiting(q)
        BY <3>4 DEF Awaiting, PayoutNumber
      <4> QED
        BY <1>a, <4>1
    <3>6. ASSUME NEW q \in PayoutNumber
          PROVE  /\ payouts'[q].ref # 0 => payouts'[q].ref \in TransfersOf(q)
                 /\ payouts'[q].status = "PAID" => payouts[q].status = "PAID"
      BY <1>a, <3>3, <3>4
    <3> QED
      BY <1>a, <1>b, <2>4, <3>4, <3>5, <3>6, AdminWrites DEF SavePayoutRef
  <2>5. CASE PayoutFailed(a)
    <3> DEFINE p == adminCall[a].payout
               s == IF payouts[p].status = "PROCESSING" THEN "FAILED" ELSE payouts[p].status
    <3>1. p \in PayoutNumber
      BY <1>a, <2>5 DEF PayoutFailed, AdminOK
    <3>2. payouts' = [payouts EXCEPT ![p].status = s]
      BY <2>5 DEF PayoutFailed
    <3>3. /\ s \in PayoutStatus /\ (s = "PAID" => payouts[p].status = "PAID")
          /\ (s = "PENDING" => payouts[p].status = "PENDING")
      BY <1>0, <3>1, PayoutTyped DEF PayoutRow, PayoutStatus
    <3>4. \A q \in 1..MaxPayouts : reopened[q] >= reopened[q]
      BY <1>a
    <3> HIDE DEF p, s
    <3> QED
      BY <1>5, <1>a, <2>5, <3>1, <3>2, <3>3, <3>4 DEF PayoutFailed
  <2>6. CASE CorrectWrite(a)
    <3> DEFINE p == adminCall[a].payout
    <3>1. p \in PayoutNumber /\ p \in 1..MaxPayouts
      BY <1>0, <1>a, <2>6, PayoutTyped DEF CorrectWrite, AdminOK
    <3>2. PICK s \in Correctable :
            /\ payouts' = [payouts EXCEPT ![p].status = s]
            /\ IF s = "PENDING" /\ payouts[p].status # "PENDING"
                 THEN reopened' = [reopened EXCEPT ![p] = @ + 1]
                 ELSE UNCHANGED reopened
      BY <2>6 DEF CorrectWrite
    <3>3. s \in PayoutStatus /\ s # "PAID"
      BY DEF Correctable, PayoutStatus
    <3>4. /\ reopened' \in [1..MaxPayouts -> Nat]
          /\ \A q \in 1..MaxPayouts : reopened'[q] >= reopened[q]
      <4>1. CASE UNCHANGED reopened
        BY <1>a, <4>1
      <4>2. CASE reopened' = [reopened EXCEPT ![p] = @ + 1]
        <5>1. \A q \in 1..MaxPayouts : reopened'[q] = IF q = p THEN reopened[p] + 1 ELSE reopened[q]
          BY <1>a, <3>1, <4>2
        <5> QED
          BY <1>a, <3>1, <4>2, <5>1
      <4> QED
        BY <3>2, <4>1, <4>2
    <3> HIDE DEF p
    <3> QED
      BY <1>5, <2>6, <3>1, <3>2, <3>3, <3>4 DEF CorrectWrite
  <2>7. CASE AbandonCall(a)
    BY <1>4, <1>b, <2>7 DEF AbandonCall
  <2> QED
    BY <1>6, <1>a, <2>1, <2>2, <2>3, <2>4, <2>5, <2>6, <2>7 DEF AdminStepOf
<1>7. ASSUME NEW d \in Delivery, NEW k \in DOMAIN transfers, EventRead(d, k) PROVE PayoutInv'
  <2>1. PICK c \in {[step |-> "reject", ref |-> k, payout |-> 0]}
                   \cup {[step |-> "apply", ref |-> k, payout |-> p] :
                           p \in {q \in DOMAIN payouts : payouts[q].ref = k}} :
          deliveries' = [deliveries EXCEPT ![d] = c]
    BY <1>7 DEF EventRead
  <2>2. k \in 0..MaxTransfers /\ k # 0
    BY <1>0, PayoutTyped, PayoutAssumption
  <2>3. \A p \in PayoutNumber : p \in 0..MaxPayouts
    BY <1>0, PayoutTyped, PayoutAssumption
  <2>4. c \in DeliveryCall
    BY <1>a, <2>1, <2>2, <2>3, PayoutAssumption DEF DeliveryCall
  <2>5. DeliveryOK(c)
    BY <1>a, <2>1, <2>2 DEF DeliveryOK
  <2> QED
    BY <1>0, <1>7, <2>1, <2>4, <2>5, DeliveryMoves DEF EventRead, PayoutTypeOK
<1>8. ASSUME NEW d \in Delivery, EventApply(d) PROVE PayoutInv'
  <2> DEFINE k == deliveries[d].ref
             p == deliveries[d].payout
  <2>1. p \in PayoutNumber /\ k \in TransfersOf(p) /\ deliveries[d].step = "apply"
    BY <1>0, <1>8 DEF EventApply, Referred, DeliveryOK
  <2>2. CASE events[k] = "NONE"
    BY <1>8, <2>1, <2>2, EventPays DEF EventApply, NewToDatabase
  <2>3. CASE events[k] # "NONE"
    <3> DEFINE c == [deliveries[d] EXCEPT !.step = "reject"]
    <3>1. deliveries' = [deliveries EXCEPT ![d] = c] /\ UNCHANGED <<payouts, events, debits>>
      BY <1>8, <2>3 DEF EventApply, NewToDatabase
    <3>2. deliveries[d] \in DeliveryCall
      BY <1>0 DEF PayoutTypeOK
    <3>3. c \in DeliveryCall /\ c.step = "reject" /\ c.ref = k
      BY <3>2 DEF DeliveryCall
    <3>4. DeliveryOK(c)
      BY <2>1, <3>3 DEF DeliveryOK, TransfersOf
    <3> HIDE DEF c
    <3> QED
      BY <1>0, <1>8, <3>1, <3>3, <3>4, DeliveryMoves DEF EventApply, PayoutTypeOK
  <2> QED
    BY <2>2, <2>3
<1>9. ASSUME NEW d \in Delivery, EventReject(d) PROVE PayoutInv'
  <2>1. NoDelivery \in DeliveryCall /\ DeliveryOK(NoDelivery)
    BY PayoutAssumption DEF NoDelivery, DeliveryCall, DeliveryOK
  <2>2. /\ events' \in [1..MaxTransfers -> EventRow]
        /\ \A k \in 1..MaxTransfers : events[k] # "NONE" => events'[k] # "NONE"
    BY <1>0, <1>9 DEF EventReject, PayoutTypeOK, EventRow
  <2> QED
    BY <1>9, <2>1, <2>2, DeliveryMoves DEF EventReject
<1>10. CASE UNCHANGED payoutVars
  BY <1>0, <1>1, <1>10 DEF payoutVars, PayoutTypeOK
<1> QED
  BY <1>2, <1>3, <1>6, <1>7, <1>8, <1>9, <1>10 DEF PayoutNext

(* For any number of payouts, deliveries and administrators: a transfer is    *)
(* debited once at the most.                                                  *)
THEOREM TransfersDebitedOnce == PayoutSpec => []DebitedOncePerTransfer
<1>1. PayoutInv => DebitedOncePerTransfer
  <2> SUFFICES ASSUME PayoutInv, NEW p \in DOMAIN payouts
               PROVE  /\ debits[p] <= Cardinality(TransfersOf(p))
                      /\ payouts[p].status = "PAID" => debits[p] > 0
    BY DEF DebitedOncePerTransfer
  <2>1. p \in PayoutNumber /\ p \in 1..MaxPayouts /\ PayoutTypeOK
    BY PayoutTyped DEF PayoutInv
  <2>2. debits[p] <= Cardinality(Reported(p))
    BY <2>1 DEF PayoutInv, Counted
  <2> QED
    BY <2>1, <2>2, PayoutCounts, NumbersOK DEF PayoutInv
<1> QED
  BY <1>1, PayoutInvInit, PayoutInvStep, PTL DEF PayoutSpec

(* And one transfer is made for each decision of an administrator.            *)
THEOREM TransfersAreDecided == PayoutSpec => []TransferredAsApproved
<1>1. PayoutInv => TransferredAsApproved
  <2> SUFFICES ASSUME PayoutInv, NEW p \in DOMAIN payouts
               PROVE  Cardinality(TransfersOf(p)) <= 1 + reopened[p]
    BY DEF TransferredAsApproved
  <2>1. p \in 1..MaxPayouts /\ PayoutTypeOK
    BY PayoutTyped DEF PayoutInv
  <2>2. Cardinality(TransfersOf(p)) + Cardinality(Sending(p)) + Awaiting(p) <= 1 + reopened[p]
    BY <2>1 DEF PayoutInv, Counted
  <2> QED
    BY <2>1, <2>2, NumbersOK
<1> QED
  BY <1>1, PayoutInvInit, PayoutInvStep, PTL DEF PayoutSpec

-----------------------------------------------------------------------------
(* Acceptance *)

(* What a decided request may rely on at its write, whatever came in between. *)
CallOK(c) ==
  LET row == sources[c.source] IN
  /\ c.move.kind = row.kind
  /\ c.version <= row.version
  /\ c.move.op # "CREATE" =>
       /\ row.status # "NONE"
       /\ c.move.kind = "proposal" /\ c.version = row.version /\ row.status # "DELETED"
            => row.status \in c.move.from

IsSourceCall(c) == c # NoCall /\ c.move \in Moves

AcceptanceInv ==
  /\ sources \in [Source -> SourceRow]
  /\ workspaces \in [Source -> 0..1]
  /\ handler \in [Handler -> {NoCall} \cup SourceCall \cup CampaignCall]
  /\ \A h \in Handler : IsSourceCall(handler[h]) => CallOK(handler[h])
  /\ AcceptedHasWorkspace

CampaignTyped == campaign \in CampaignRow

DecidedStatus == OpenStatus \cup AcceptedStatus \cup (RefusedStatus \ {"DELETED"})

MoveOK(m) ==
  /\ m.kind \in SourceKind /\ m.to \in DecidedStatus
  /\ m.op = "CREATE" => m.from = {"NONE"} /\ m.to \in OpenStatus
  /\ m.op # "CREATE" => m.from \subseteq OpenStatus
  /\ m.kind = "invitation" /\ m.op # "CREATE" => m.from = {"PENDING"}
  /\ m.op = "CANCEL" => m.to = "CANCELLED"
  /\ m.to = "CANCELLED" => m.op = "CANCEL"

LEMMA MovesAreOK == \A m \in Moves : MoveOK(m)
<1> SUFFICES ASSUME NEW m \in Moves PROVE MoveOK(m)
  OBVIOUS
<1> USE DEF MoveOK, SourceKind, DecidedStatus, OpenStatus, AcceptedStatus, RefusedStatus,
            AllowedCreator, AllowedBusiness, Undecided, Move
<1>1. CASE m \in OfferMoves
  BY <1>1 DEF OfferMoves
<1>2. CASE m \in ProposalMoves
  BY <1>2 DEF ProposalMoves
<1>3. CASE m \in InvitationMoves
  BY <1>3 DEF InvitationMoves
<1> QED
  BY <1>1, <1>2, <1>3 DEF Moves

LEMMA CampaignMovesDiffer == \A m \in CampaignMoves : m \notin Moves
<1>1. \A m \in CampaignMoves : m.kind = "campaign"
  BY DEF CampaignMoves, Move
<1>2. \A m \in Moves : m.kind # "campaign"
  BY MovesAreOK DEF MoveOK, SourceKind
<1> QED
  BY <1>1, <1>2

LEMMA SourceCalls ==
  ASSUME AcceptanceInv, NEW h \in Handler, IsSourceCall(handler[h])
  PROVE  handler[h] \in SourceCall
<1>1. handler[h] \in SourceCall \cup CampaignCall
  BY DEF AcceptanceInv, IsSourceCall
<1>2. \A c \in CampaignCall : c.move \in CampaignMoves
  BY DEF CampaignCall
<1> QED
  BY <1>1, <1>2, CampaignMovesDiffer DEF IsSourceCall

(* A row that is not accepted has no workspace, but for the two ends that     *)
(* overtake an acceptance.                                                    *)
LEMMA NoWorkspaceYet ==
  ASSUME AcceptanceInv, NEW s \in Source,
         sources[s].status \in {"NONE"} \cup OpenStatus
  PROVE  workspaces[s] = 0
<1>1. workspaces[s] > 0 =>
         sources[s].status \in AcceptedStatus \cup {"DELETED", "CANCELLED"}
  BY DEF AcceptanceInv, AcceptedHasWorkspace
<1>2. workspaces[s] \in 0..1
  BY DEF AcceptanceInv
<1> QED
  BY <1>1, <1>2 DEF OpenStatus, AcceptedStatus

(* What the checked write can find: a row to create, a row still open, or, for*)
(* the cancellation that checks nothing, an invitation already decided.       *)
LEMMA WriteFinds ==
  ASSUME AcceptanceInv, NEW h \in Handler, IsSourceCall(handler[h]), StillHolds(handler[h])
  PROVE  LET c == handler[h]
             row == sources[c.source]
         IN  \/ c.move.op = "CREATE" /\ row.status = "NONE"
             \/ c.move.op # "CREATE" /\ row.status \in OpenStatus
             \/ /\ c.move.op = "CANCEL" /\ row.kind = "invitation"
                /\ row.status \notin {"NONE", "DELETED"}
<1> DEFINE c == handler[h]
           row == sources[c.source]
<1>1. c \in SourceCall /\ c.source \in Source /\ c.move \in Moves
  BY SourceCalls DEF SourceCall
<1>2. CallOK(c) /\ MoveOK(c.move)
  BY <1>1, MovesAreOK DEF AcceptanceInv
<1>3. CASE c.move.op = "CREATE"
  BY <1>3 DEF StillHolds, CanCreate
<1>4. CASE c.move.op # "CREATE"
  <2>1. c.move.kind \in SourceKind /\ c.move.kind = row.kind
    BY <1>2 DEF MoveOK, CallOK
  <2>2. CASE c.move.kind = "offer"
    BY <1>2, <1>4, <2>2 DEF StillHolds, MoveOK
  <2>3. CASE c.move.kind = "proposal"
    BY <1>2, <1>4, <2>3 DEF StillHolds, MoveOK, CallOK
  <2>4. CASE c.move.kind = "invitation"
    <3>1. row.status = "PENDING" \/ (c.move.op = "CANCEL" /\ row.status # "DELETED")
      BY <1>4, <2>4 DEF StillHolds
    <3>2. row.status # "NONE"
      BY <1>2, <1>4 DEF CallOK
    <3>3. row.kind = "invitation" /\ "PENDING" \in OpenStatus
      BY <2>1, <2>4 DEF OpenStatus
    <3> QED
      BY <1>4, <3>1, <3>2, <3>3
  <2> QED
    BY <2>1, <2>2, <2>3, <2>4 DEF SourceKind
<1> QED
  BY <1>3, <1>4

LEMMA RowWritten ==
  ASSUME sources \in [Source -> SourceRow], NEW s \in Source, NEW st \in SourceStatus,
         NEW answered \in BOOLEAN,
         sources' = [sources EXCEPT ![s] =
           [kind |-> @.kind, status |-> st,
            version |-> IF answered THEN @.version ELSE @.version + 1]]
  PROVE  /\ sources' \in [Source -> SourceRow]
         /\ sources'[s].status = st /\ sources'[s].kind = sources[s].kind
         /\ sources'[s].version = IF answered THEN sources[s].version
                                  ELSE sources[s].version + 1
         /\ \A x \in Source : x # s => sources'[x] = sources[x]
<1> DEFINE v == IF answered THEN sources[s].version ELSE sources[s].version + 1
           new == [kind |-> sources[s].kind, status |-> st, version |-> v]
<1>1. sources' = [sources EXCEPT ![s] = new]
  OBVIOUS
<1>2. sources[s].kind \in SourceKind /\ v \in Nat
  BY DEF SourceRow
<1> HIDE DEF v
<1>3. new \in SourceRow
  BY <1>2 DEF SourceRow
<1>4. new.status = st /\ new.kind = sources[s].kind /\ new.version = v
  OBVIOUS
<1> HIDE DEF new
<1>5. /\ sources' \in [Source -> SourceRow]
      /\ sources'[s] = new
      /\ \A x \in Source : x # s => sources'[x] = sources[x]
  BY <1>1, <1>3
<1> QED
  BY <1>4, <1>5 DEF v

LEMMA CallsStay ==
  ASSUME AcceptanceInv, NEW h \in Handler,
         handler' = [handler EXCEPT ![h] = NoCall],
         sources' \in [Source -> SourceRow],
         \A x \in Source :
           /\ sources'[x].kind = sources[x].kind
           /\ sources'[x].version >= sources[x].version
           /\ sources[x].status # "NONE" => sources'[x].status # "NONE"
           /\ \/ sources'[x].status \in {sources[x].status, "DELETED"}
              \/ sources[x].kind # "proposal"
              \/ sources'[x].version > sources[x].version
  PROVE  /\ handler' \in [Handler -> {NoCall} \cup SourceCall \cup CampaignCall]
         /\ \A g \in Handler : IsSourceCall(handler'[g]) => CallOK(handler[g])'
<1>1. handler' \in [Handler -> {NoCall} \cup SourceCall \cup CampaignCall]
  BY DEF AcceptanceInv
<1>2. ASSUME NEW g \in Handler, IsSourceCall(handler'[g]) PROVE CallOK(handler[g])'
  <2> DEFINE c == handler[g]
  <2>1. handler'[g] = c /\ IsSourceCall(c)
    BY <1>2 DEF AcceptanceInv, IsSourceCall
  <2>2. c \in SourceCall /\ c.source \in Source /\ c.version \in Nat
    BY <2>1, SourceCalls DEF SourceCall
  <2>3. CallOK(c)
    BY <2>1 DEF AcceptanceInv
  <2>4. sources[c.source] \in SourceRow /\ sources'[c.source] \in SourceRow
    BY <2>2 DEF AcceptanceInv
  <2>5. sources[c.source].version \in Nat /\ sources'[c.source].version \in Nat
    BY <2>4 DEF SourceRow
  <2> HIDE DEF c
  <2>6. /\ c.move.kind = sources'[c.source].kind /\ c.version <= sources'[c.source].version
        /\ c.move.op # "CREATE" => sources'[c.source].status # "NONE"
    BY <2>2, <2>3, <2>5 DEF CallOK
  <2>7. ASSUME c.move.op # "CREATE", c.move.kind = "proposal",
               c.version = sources'[c.source].version, sources'[c.source].status # "DELETED"
        PROVE  sources'[c.source].status \in c.move.from
    <3>1. c.version = sources[c.source].version
      BY <2>2, <2>3, <2>5, <2>7 DEF CallOK
    <3>2. /\ sources[c.source].kind = "proposal"
          /\ ~(sources'[c.source].version > sources[c.source].version)
      BY <2>3, <2>5, <2>7, <3>1 DEF CallOK
    <3>3. sources'[c.source].status = sources[c.source].status
      BY <2>2, <2>7, <3>2
    <3> QED
      <4>1. sources[c.source].status # "DELETED"
        BY <2>7, <3>3
      <4> QED
        BY <2>3, <2>7, <3>1, <3>3, <4>1 DEF CallOK
  <2> QED
    BY <2>1, <2>6, <2>7 DEF CallOK
<1> QED
  BY <1>1, <1>2

Stages == [s \in Source |-> StageOf(s)]

LEMMA StageChanges ==
  ASSUME NEW s \in Source,
         \A x \in Source : x # s => sources'[x] = sources[x] /\ workspaces'[x] = workspaces[x]
  PROVE  Stages' = [Stages EXCEPT ![s] = StageOf(s)']
<1>1. \A x \in Source : x # s => StageOf(x)' = StageOf(x)
  BY DEF StageOf
<1> HIDE DEF StageOf
<1> QED
  BY <1>1 DEF Stages

LEMMA StageCases ==
  ASSUME NEW s \in Source
  PROVE  /\ workspaces[s] > 0 => StageOf(s) = "connected"
         /\ ~(workspaces[s] > 0) /\ sources[s].status = "NONE" => StageOf(s) = "none"
         /\ ~(workspaces[s] > 0) /\ sources[s].status \in OpenStatus => StageOf(s) = "open"
         /\ ~(workspaces[s] > 0) /\ sources[s].status \notin {"NONE"} \cup OpenStatus
              => StageOf(s) = "closed"
<1>1. workspaces[s] > 0 => StageOf(s) = "connected"
  BY DEF StageOf
<1>2. ~(workspaces[s] > 0) /\ sources[s].status = "NONE" => StageOf(s) = "none"
  BY DEF StageOf, OpenStatus
<1>3. ~(workspaces[s] > 0) /\ sources[s].status \in OpenStatus => StageOf(s) = "open"
  BY DEF StageOf, OpenStatus
<1>4. ~(workspaces[s] > 0) /\ sources[s].status \notin {"NONE"} \cup OpenStatus
        => StageOf(s) = "closed"
  BY DEF StageOf
<1> QED
  BY <1>1, <1>2, <1>3, <1>4

LEMMA NewStage ==
  ASSUME NEW s \in Source
  PROVE  /\ workspaces'[s] > 0 => StageOf(s)' = "connected"
         /\ ~(workspaces'[s] > 0) /\ sources'[s].status = "NONE" => StageOf(s)' = "none"
         /\ ~(workspaces'[s] > 0) /\ sources'[s].status \in OpenStatus => StageOf(s)' = "open"
         /\ ~(workspaces'[s] > 0) /\ sources'[s].status \notin {"NONE"} \cup OpenStatus
              => StageOf(s)' = "closed"
<1>1. workspaces'[s] > 0 => StageOf(s)' = "connected"
  BY DEF StageOf
<1>2. ~(workspaces'[s] > 0) /\ sources'[s].status = "NONE" => StageOf(s)' = "none"
  BY DEF StageOf, OpenStatus
<1>3. ~(workspaces'[s] > 0) /\ sources'[s].status \in OpenStatus => StageOf(s)' = "open"
  BY DEF StageOf, OpenStatus
<1>4. ~(workspaces'[s] > 0) /\ sources'[s].status \notin {"NONE"} \cup OpenStatus
        => StageOf(s)' = "closed"
  BY DEF StageOf
<1> QED
  BY <1>1, <1>2, <1>3, <1>4

EngagementStep == Engage!EngagementNext \/ (Stages' = Stages /\ workspaces' = workspaces)

LEMMA WriteImplements ==
  ASSUME AcceptanceInv, NEW s \in Source, NEW to \in DecidedStatus,
         sources' \in [Source -> SourceRow], sources'[s].status = to,
         \A x \in Source : x # s => sources'[x] = sources[x],
         \/ sources[s].status = "NONE" /\ to \in OpenStatus
         \/ sources[s].status \in OpenStatus
         \/ sources[s].status # "NONE" /\ to = "CANCELLED",
         workspaces' = IF to \in AcceptedStatus THEN [workspaces EXCEPT ![s] = 1]
                       ELSE workspaces
  PROVE  workspaces' \in [Source -> 0..1] /\ EngagementStep
<1>1. workspaces \in [Source -> 0..1] /\ Stages \in [Source -> {"none", "open", "connected", "closed"}]
  BY DEF AcceptanceInv, Stages, StageOf
<1>2. workspaces' \in [Source -> 0..1]
  BY <1>1
<1>3. Stages' = [Stages EXCEPT ![s] = StageOf(s)'] /\ Stages[s] = StageOf(s)
  <2>1. \A x \in Source : x # s => workspaces'[x] = workspaces[x]
    BY <1>1
  <2> QED
    BY <2>1, StageChanges DEF Stages
<1> USE DEF EngagementStep, Engage!EngagementNext
<1>4. CASE to \in AcceptedStatus
  <2>1. sources[s].status \in OpenStatus /\ workspaces[s] = 0
    BY <1>4, NoWorkspaceYet DEF AcceptedStatus, OpenStatus
  <2>2. workspaces' = [workspaces EXCEPT ![s] = @ + 1] /\ workspaces'[s] = 1
    BY <1>1, <1>4, <2>1
  <2>3. StageOf(s) = "open" /\ StageOf(s)' = "connected"
    BY <1>1, <1>2, <2>1, <2>2, NewStage, StageCases DEF OpenStatus
  <2>4. Engage!Connect(s)
    BY <1>3, <2>2, <2>3 DEF Engage!Connect, Stages
  <2> QED
    BY <1>2, <2>4
<1>5. CASE to \in OpenStatus
  <2>1. workspaces' = workspaces /\ workspaces[s] = 0
    BY <1>5, NoWorkspaceYet DEF AcceptedStatus, OpenStatus
  <2>2. StageOf(s)' = "open"
    BY <1>1, <1>2, <1>5, <2>1, NewStage DEF OpenStatus
  <2>3. CASE sources[s].status = "NONE"
    <3>1. StageOf(s) = "none"
      BY <2>1, <2>3, StageCases
    <3>2. Engage!Approach(s)
      BY <1>3, <2>1, <2>2, <3>1 DEF Engage!Approach, Stages
    <3> QED
      BY <1>2, <3>2
  <2>4. CASE sources[s].status \in OpenStatus
    <3>1. StageOf(s) = "open"
      BY <2>1, <2>4, StageCases DEF OpenStatus
    <3>2. Stages' = Stages
      BY <1>1, <1>3, <2>2, <3>1
    <3> QED
      BY <1>2, <2>1, <3>2
  <2>5. to # "CANCELLED"
    BY <1>5 DEF OpenStatus
  <2> QED
    BY <2>3, <2>4, <2>5
<1>6. CASE to \in RefusedStatus
  <2>1. workspaces' = workspaces /\ sources[s].status # "NONE"
    BY <1>6 DEF AcceptedStatus, OpenStatus, RefusedStatus
  <2>2. CASE workspaces[s] = 1
    <3>1. StageOf(s)' = "connected" /\ StageOf(s) = "connected"
      BY <1>1, <1>2, <2>1, <2>2, NewStage, StageCases DEF OpenStatus
    <3>2. Stages' = Stages
      BY <1>1, <1>3, <3>1
    <3> QED
      BY <1>2, <2>1, <3>2
  <2>3. CASE workspaces[s] = 0
    <3>1. StageOf(s)' = "closed" /\ StageOf(s) \in {"open", "closed"}
      BY <1>2, <1>6, <2>1, <2>3, NewStage, StageCases DEF RefusedStatus, OpenStatus
    <3>2. Engage!Close({s})
      BY <1>1, <1>3, <2>1, <3>1 DEF Engage!Close, Stages
    <3> QED
      BY <1>2, <3>2
  <2> QED
    BY <1>1, <2>2, <2>3
<1> QED
  BY <1>4, <1>5, <1>6 DEF DecidedStatus

AcceptanceGoal == AcceptanceInv' /\ EngagementStep

(* Reads and edits of the campaign change neither rows nor workspaces.        *)
LEMMA RowsStay ==
  ASSUME AcceptanceInv, UNCHANGED <<sources, workspaces>>,
         handler' \in [Handler -> {NoCall} \cup SourceCall \cup CampaignCall],
         \A h \in Handler : IsSourceCall(handler'[h]) => CallOK(handler'[h])
  PROVE  AcceptanceGoal
<1>1. AcceptedHasWorkspace'
  BY DEF AcceptanceInv, AcceptedHasWorkspace
<1>2. Stages' = Stages
  BY DEF Stages, StageOf
<1>3. \A h \in Handler : IsSourceCall(handler'[h]) => CallOK(handler[h])'
  BY DEF CallOK
<1> QED
  BY <1>1, <1>2, <1>3 DEF AcceptanceGoal, AcceptanceInv, EngagementStep, IsSourceCall

LEMMA RequestEnds ==
  ASSUME AcceptanceInv, NEW h \in Handler,
         UNCHANGED <<sources, workspaces>>, handler' = [handler EXCEPT ![h] = NoCall]
  PROVE  AcceptanceGoal
<1>1. handler' \in [Handler -> {NoCall} \cup SourceCall \cup CampaignCall]
  BY DEF AcceptanceInv
<1>2. \A g \in Handler : IsSourceCall(handler'[g]) => CallOK(handler'[g])
  BY DEF AcceptanceInv, IsSourceCall
<1> QED
  BY <1>1, <1>2, RowsStay

LEMMA SourceRead ==
  ASSUME AcceptanceInv, NEW h \in Handler, NEW s \in Source, NEW m \in Moves, ReadSource(h, s, m)
  PROVE  AcceptanceGoal
<1> DEFINE c == [move |-> m, source |-> s, version |-> sources[s].version]
<1>1. /\ m.kind = sources[s].kind /\ sources[s].status \in m.from
      /\ handler' = [handler EXCEPT ![h] = c] /\ UNCHANGED <<sources, workspaces>>
  BY DEF ReadSource
<1>2. sources[s].version \in Nat
  BY DEF AcceptanceInv, SourceRow
<1>3. c \in SourceCall
  BY <1>2 DEF SourceCall
<1>4. c.move = m /\ c.source = s /\ c.version = sources[s].version
  OBVIOUS
<1>5. CallOK(c)
  <2>1. MoveOK(m)
    BY MovesAreOK
  <2>2. m.op # "CREATE" => sources[s].status # "NONE"
    BY <1>1, <2>1 DEF MoveOK, OpenStatus
  <2> HIDE DEF c
  <2> QED
    BY <1>1, <1>2, <1>4, <2>2 DEF CallOK
<1> HIDE DEF c
<1>6. handler' \in [Handler -> {NoCall} \cup SourceCall \cup CampaignCall]
  BY <1>1, <1>3 DEF AcceptanceInv
<1>7. ASSUME NEW g \in Handler, IsSourceCall(handler'[g]) PROVE CallOK(handler'[g])
  BY <1>1, <1>5, <1>7 DEF AcceptanceInv
<1> QED
  BY <1>1, <1>6, <1>7, RowsStay

LEMMA CampaignRead ==
  ASSUME AcceptanceInv, CampaignTyped, NEW h \in Handler, NEW m \in CampaignMoves, ReadCampaign(h, m)
  PROVE  AcceptanceGoal
<1> DEFINE c == [move |-> m, version |-> campaign.version]
<1>1. handler' = [handler EXCEPT ![h] = c] /\ UNCHANGED <<sources, workspaces>>
  BY DEF ReadCampaign
<1>2. c \in CampaignCall /\ ~IsSourceCall(c)
  BY CampaignMovesDiffer DEF CampaignTyped, CampaignRow, CampaignCall, IsSourceCall
<1> HIDE DEF c
<1>3. handler' \in [Handler -> {NoCall} \cup SourceCall \cup CampaignCall]
  BY <1>1, <1>2 DEF AcceptanceInv
<1>4. ASSUME NEW g \in Handler, IsSourceCall(handler'[g]) PROVE CallOK(handler'[g])
  BY <1>1, <1>2, <1>4 DEF AcceptanceInv
<1> QED
  BY <1>1, <1>3, <1>4, RowsStay

LEMMA SourceWritten ==
  ASSUME AcceptanceInv, NEW h \in Handler, WriteSource(h)
  PROVE  AcceptanceGoal
<1> DEFINE c == handler[h]
           s == c.source
           to == c.move.to
<1>1. IsSourceCall(c) /\ c \in SourceCall /\ s \in Source /\ c.move \in Moves /\ MoveOK(c.move)
  BY SourceCalls, MovesAreOK DEF WriteSource, IsSourceCall, SourceCall
<1>2. handler' = [handler EXCEPT ![h] = NoCall]
  BY DEF WriteSource
<1>3. CASE UNCHANGED <<sources, workspaces>>
  BY <1>2, <1>3, RequestEnds
<1>4. CASE /\ StillHolds(c)
           /\ sources' = [sources EXCEPT ![s] =
                [kind |-> @.kind, status |-> to,
                 version |-> IF c.move.kind = "invitation" THEN @.version ELSE @.version + 1]]
           /\ workspaces' = Bootstrapped(c)
  <2>1. to \in DecidedStatus /\ to \in SourceStatus
    BY <1>1 DEF MoveOK, DecidedStatus, SourceStatus
  <2>2. /\ sources' \in [Source -> SourceRow]
        /\ sources'[s].status = to /\ sources'[s].kind = sources[s].kind
        /\ sources'[s].version = IF c.move.kind = "invitation" THEN sources[s].version
                                 ELSE sources[s].version + 1
        /\ \A x \in Source : x # s => sources'[x] = sources[x]
    BY <1>1, <1>4, <2>1, RowWritten DEF AcceptanceInv
  <2>3. \/ c.move.op = "CREATE" /\ sources[s].status = "NONE"
        \/ c.move.op # "CREATE" /\ sources[s].status \in OpenStatus
        \/ /\ c.move.op = "CANCEL" /\ sources[s].kind = "invitation"
           /\ sources[s].status \notin {"NONE", "DELETED"}
    BY <1>1, <1>4, WriteFinds
  <2>4. \/ sources[s].status = "NONE" /\ to \in OpenStatus
        \/ sources[s].status \in OpenStatus
        \/ sources[s].status # "NONE" /\ to = "CANCELLED"
    BY <1>1, <2>3 DEF MoveOK
  <2>5. to \in AcceptedStatus => workspaces[s] = 0
    BY <1>1, <2>4, NoWorkspaceYet DEF AcceptedStatus, OpenStatus
  <2>6. workspaces' = IF to \in AcceptedStatus THEN [workspaces EXCEPT ![s] = 1] ELSE workspaces
    <3>1. CASE to \in AcceptedStatus
      <4>1. Bootstrapped(c) = [workspaces EXCEPT ![s] = @ + 1]
        BY <2>5, <3>1 DEF Bootstrapped
      <4>2. workspaces[s] + 1 = 1
        BY <2>5, <3>1
      <4> QED
        BY <1>4, <3>1, <4>1, <4>2
    <3>2. CASE to \notin AcceptedStatus
      BY <1>4, <3>2 DEF Bootstrapped
    <3> QED
      BY <3>1, <3>2
  <2>7. workspaces' \in [Source -> 0..1] /\ EngagementStep
    BY <1>1, <2>1, <2>2, <2>4, <2>6, WriteImplements
  <2>8. sources[s].version \in Nat /\ c.move.kind = sources[s].kind
    BY <1>1 DEF AcceptanceInv, SourceRow, CallOK
  <2>9. to # "NONE"
    BY <2>1 DEF DecidedStatus, OpenStatus, AcceptedStatus, RefusedStatus
  <2>10. \A x \in Source :
           /\ sources'[x].kind = sources[x].kind
           /\ sources'[x].version >= sources[x].version
           /\ sources[x].status # "NONE" => sources'[x].status # "NONE"
           /\ \/ sources'[x].status \in {sources[x].status, "DELETED"}
              \/ sources[x].kind # "proposal"
              \/ sources'[x].version > sources[x].version
    <3>1. \A x \in Source : sources[x].version \in Nat
      BY DEF AcceptanceInv, SourceRow
    <3> QED
      BY <2>2, <2>8, <2>9, <3>1
  <2>11. /\ handler' \in [Handler -> {NoCall} \cup SourceCall \cup CampaignCall]
         /\ \A g \in Handler : IsSourceCall(handler'[g]) => CallOK(handler[g])'
    BY <1>2, <2>2, <2>10, CallsStay
  <2>12. ASSUME NEW x \in Source
         PROVE  /\ sources'[x].status \in AcceptedStatus => workspaces'[x] = 1
                /\ workspaces'[x] > 0 =>
                     \/ sources'[x].status \in AcceptedStatus \cup {"DELETED"}
                     \/ sources'[x].kind = "invitation" /\ sources'[x].status = "CANCELLED"
    <3>1. CASE x # s
      <4>1. workspaces'[x] = workspaces[x] /\ sources'[x] = sources[x]
        BY <2>2, <2>6, <3>1 DEF AcceptanceInv
      <4> QED
        BY <4>1 DEF AcceptanceInv, AcceptedHasWorkspace
    <3>2. CASE x = s /\ to \in AcceptedStatus
      BY <1>1, <2>2, <2>6, <3>2 DEF AcceptanceInv
    <3>3. CASE x = s /\ to \notin AcceptedStatus
      <4>1. workspaces'[s] = workspaces[s] /\ workspaces[s] \in 0..1
        BY <1>1, <2>6, <3>3 DEF AcceptanceInv
      <4>2. CASE sources[s].status \in {"NONE"} \cup OpenStatus
        <5>1. workspaces'[s] = 0
          BY <1>1, <4>1, <4>2, NoWorkspaceYet
        <5> QED
          BY <2>2, <3>3, <5>1
      <4>3. CASE sources[s].status \notin {"NONE"} \cup OpenStatus
        <5>1. to = "CANCELLED" /\ sources[s].kind = "invitation"
          BY <1>1, <2>3, <4>3 DEF MoveOK
        <5> QED
          BY <2>2, <3>3, <5>1
      <4> QED
        BY <4>2, <4>3
    <3> QED
      BY <3>1, <3>2, <3>3
  <2> QED
    BY <2>2, <2>7, <2>11, <2>12
    DEF AcceptanceGoal, AcceptanceInv, AcceptedHasWorkspace, IsSourceCall
<1> QED
  BY <1>3, <1>4 DEF WriteSource

(* What goes with the campaign is closed at once, except what is connected.   *)
LEMMA CampaignRemoved ==
  ASSUME AcceptanceInv, NEW h \in Handler, RemoveCampaign(h)
  PROVE  AcceptanceGoal
<1> DEFINE Gone(x) == InCampaign(x) /\ sources[x].status # "NONE"
           S == {x \in Source : Gone(x) /\ workspaces[x] = 0}
<1>1. /\ handler' = [handler EXCEPT ![h] = NoCall] /\ UNCHANGED workspaces
      /\ sources' = [x \in Source |-> IF Gone(x) THEN [sources[x] EXCEPT !.status = "DELETED"]
                                      ELSE sources[x]]
  BY DEF RemoveCampaign
<1>2. ASSUME NEW x \in Source, NEW new, new = [sources[x] EXCEPT !.status = "DELETED"]
      PROVE  /\ new \in SourceRow /\ new.status = "DELETED"
             /\ new.kind = sources[x].kind /\ new.version = sources[x].version
  <2>1. sources[x] \in SourceRow /\ "DELETED" \in SourceStatus
    BY DEF AcceptanceInv, SourceStatus, RefusedStatus
  <2> QED
    BY <1>2, <2>1 DEF SourceRow
<1> HIDE DEF Gone
<1>3. \A x \in Source :
        /\ Gone(x) => /\ sources'[x] \in SourceRow /\ sources'[x].status = "DELETED"
                      /\ sources'[x].kind = sources[x].kind
                      /\ sources'[x].version = sources[x].version
        /\ ~Gone(x) => sources'[x] = sources[x]
  BY <1>1, <1>2
<1>4. sources' \in [Source -> SourceRow]
  <2>1. \A x \in Source : sources'[x] \in SourceRow
    BY <1>3 DEF AcceptanceInv
  <2>2. sources' = [x \in Source |-> sources'[x]]
    BY <1>1
  <2> QED
    BY <2>1, <2>2
<1>5. \A x \in Source :
        /\ sources'[x].kind = sources[x].kind
        /\ sources'[x].version >= sources[x].version
        /\ sources[x].status # "NONE" => sources'[x].status # "NONE"
        /\ sources'[x].status \in {sources[x].status, "DELETED"}
  <2>1. \A x \in Source : sources[x].version \in Nat
    BY DEF AcceptanceInv, SourceRow
  <2> QED
    BY <1>3, <2>1
<1>6. /\ handler' \in [Handler -> {NoCall} \cup SourceCall \cup CampaignCall]
      /\ \A g \in Handler : IsSourceCall(handler'[g]) => CallOK(handler[g])'
  BY <1>1, <1>4, <1>5, CallsStay
<1>7. ASSUME NEW x \in Source
      PROVE  /\ sources'[x].status \in AcceptedStatus => workspaces'[x] = 1
             /\ workspaces'[x] > 0 =>
                  \/ sources'[x].status \in AcceptedStatus \cup {"DELETED"}
                  \/ sources'[x].kind = "invitation" /\ sources'[x].status = "CANCELLED"
  <2>1. CASE Gone(x)
    BY <1>3, <2>1 DEF AcceptedStatus
  <2>2. CASE ~Gone(x)
    BY <1>1, <1>3, <2>2 DEF AcceptanceInv, AcceptedHasWorkspace
  <2> QED
    BY <2>1, <2>2
<1>8. AcceptanceInv'
  BY <1>1, <1>4, <1>6, <1>7 DEF AcceptanceInv, AcceptedHasWorkspace, IsSourceCall
<1>9. Engage!Close(S)
  <2>1. \A x \in S : StageOf(x) \in {"open", "closed"}
    <3>1. ASSUME NEW x \in S PROVE StageOf(x) \in {"open", "closed"}
      <4>1. x \in Source /\ sources[x].status # "NONE" /\ ~(workspaces[x] > 0)
        BY DEF Gone
      <4> QED
        BY <4>1, StageCases
    <3> QED
      BY <3>1
  <2>2. ASSUME NEW x \in Source PROVE StageOf(x)' = IF x \in S THEN "closed" ELSE StageOf(x)
    <3>1. CASE x \in S
      <4>1. Gone(x) /\ workspaces[x] = 0
        BY <3>1
      <4>2. workspaces' = workspaces /\ sources'[x].status = "DELETED"
        BY <1>1, <1>3, <4>1
      <4>3. ~(workspaces'[x] > 0)
        BY <4>1, <4>2
      <4> QED
        BY <3>1, <4>2, <4>3, NewStage DEF OpenStatus
    <3>2. CASE x \notin S /\ Gone(x)
      <4>1. workspaces[x] > 0 /\ workspaces'[x] > 0
        BY <1>1, <3>2 DEF AcceptanceInv
      <4> QED
        BY <3>2, <4>1, NewStage, StageCases
    <3>3. CASE ~Gone(x)
      <4>1. x \notin S /\ sources'[x] = sources[x] /\ workspaces'[x] = workspaces[x]
        BY <1>1, <1>3, <3>3
      <4>2. StageOf(x)' = StageOf(x)
        BY <4>1 DEF StageOf
      <4> QED
        BY <4>1, <4>2
    <3> QED
      BY <3>1, <3>2, <3>3
  <2> HIDE DEF S
  <2>3. Stages' = [x \in Source |-> IF x \in S THEN "closed" ELSE Stages[x]]
    BY <2>2 DEF Stages
  <2>4. \A x \in S : Stages[x] \in {"open", "closed"}
    BY <2>1 DEF Stages, S
  <2> QED
    BY <1>1, <2>3, <2>4 DEF Engage!Close, Stages
<1>10. S \in SUBSET Source
  OBVIOUS
<1> HIDE DEF S
<1> QED
  BY <1>8, <1>9, <1>10 DEF AcceptanceGoal, EngagementStep, Engage!EngagementNext

LEMMA CampaignStaysTyped ==
  ASSUME AcceptanceInv, CampaignTyped, [AcceptanceNext]_acceptanceVars
  PROVE  CampaignTyped'
<1> USE DEF CampaignTyped, CampaignRow
<1>1. ASSUME NEW h \in Handler, WriteCampaign(h) PROVE CampaignTyped'
  <2> DEFINE c == handler[h]
  <2>1. c.move.to \in CampaignStatus
    BY <1>1 DEF WriteCampaign, CampaignMoves, Move, CampaignStatus
  <2>2. CASE UNCHANGED campaign
    BY <2>2
  <2>3. CASE campaign' = [status |-> c.move.to,
                          version |-> IF c.move.op = "SUBMIT" THEN campaign.version
                                      ELSE campaign.version + 1]
    BY <2>1, <2>3
  <2> QED
    BY <1>1, <2>2, <2>3 DEF WriteCampaign
<1>2. ASSUME NEW h \in Handler, RemoveCampaign(h) PROVE CampaignTyped'
  <2>1. campaign' = [campaign EXCEPT !.status = "DELETED"] /\ "DELETED" \in CampaignStatus
    BY <1>2 DEF RemoveCampaign, CampaignStatus
  <2> QED
    BY <2>1
<1>3. ASSUME NEW h \in Handler,
             \/ \E s \in Source, m \in Moves : ReadSource(h, s, m)
             \/ \E m \in CampaignMoves : ReadCampaign(h, m)
             \/ WriteSource(h)
      PROVE  CampaignTyped'
  BY <1>3 DEF ReadSource, ReadCampaign, WriteSource
<1>4. CASE UNCHANGED acceptanceVars
  BY <1>4 DEF acceptanceVars
<1> QED
  BY <1>1, <1>2, <1>3, <1>4 DEF AcceptanceNext

LEMMA AcceptanceStep ==
  ASSUME AcceptanceInv, CampaignTyped, [AcceptanceNext]_acceptanceVars
  PROVE  AcceptanceGoal
<1>1. ASSUME NEW h \in Handler, NEW s \in Source, NEW m \in Moves, ReadSource(h, s, m)
      PROVE  AcceptanceGoal
  BY <1>1, SourceRead
<1>2. ASSUME NEW h \in Handler, NEW m \in CampaignMoves, ReadCampaign(h, m)
      PROVE  AcceptanceGoal
  BY <1>2, CampaignRead
<1>3. ASSUME NEW h \in Handler, WriteSource(h) PROVE AcceptanceGoal
  BY <1>3, SourceWritten
<1>4. ASSUME NEW h \in Handler, WriteCampaign(h) PROVE AcceptanceGoal
  BY <1>4, RequestEnds DEF WriteCampaign
<1>5. ASSUME NEW h \in Handler, RemoveCampaign(h) PROVE AcceptanceGoal
  BY <1>5, CampaignRemoved
<1>6. CASE UNCHANGED acceptanceVars
  BY <1>6, RowsStay DEF acceptanceVars, AcceptanceInv
<1> QED
  BY <1>1, <1>2, <1>3, <1>4, <1>5, <1>6 DEF AcceptanceNext

LEMMA AcceptanceInvInit == AcceptanceInit => AcceptanceInv /\ CampaignTyped /\ Engage!EngagementInit
<1> SUFFICES ASSUME AcceptanceInit
             PROVE  AcceptanceInv /\ CampaignTyped /\ Engage!EngagementInit
  OBVIOUS
<1>1. PICK kindOf \in [Source -> SourceKind] :
        sources = [s \in Source |-> [kind |-> kindOf[s], status |-> "NONE", version |-> 0]]
  BY DEF AcceptanceInit
<1>2. /\ workspaces = [s \in Source |-> 0] /\ handler = [h \in Handler |-> NoCall]
      /\ campaign = [status |-> "DRAFT", version |-> 1]
  BY DEF AcceptanceInit
<1>3. ASSUME NEW s \in Source PROVE sources[s] \in SourceRow /\ sources[s].status = "NONE"
  BY <1>1 DEF SourceRow, SourceStatus
<1>4. sources \in [Source -> SourceRow]
  BY <1>1, <1>3
<1>5. \A s \in Source : ~(workspaces[s] > 0)
  <2>1. \A s \in Source : workspaces[s] = 0
    BY <1>2
  <2>2. ~(0 > 0)
    OBVIOUS
  <2> QED
    BY <2>1, <2>2
<1>6. AcceptedHasWorkspace
  BY <1>3, <1>5 DEF AcceptedHasWorkspace, AcceptedStatus
<1>7. handler \in [Handler -> {NoCall} \cup SourceCall \cup CampaignCall]
      /\ \A h \in Handler : ~IsSourceCall(handler[h])
  BY <1>2 DEF IsSourceCall
<1>8. AcceptanceInv
  BY <1>2, <1>4, <1>6, <1>7 DEF AcceptanceInv
<1>9. CampaignTyped
  BY <1>2 DEF CampaignTyped, CampaignRow, CampaignStatus
<1>10. \A s \in Source : StageOf(s) = "none"
  BY <1>3, <1>5, StageCases
<1>11. Engage!EngagementInit
  BY <1>2, <1>10 DEF Engage!EngagementInit
<1> QED
  BY <1>8, <1>9, <1>11

(* For any number of offers, proposals, invitations and requests: accepted is *)
(* having exactly one workspace.                                              *)
THEOREM AcceptedIsConnected == AcceptanceSpec => []AcceptedHasWorkspace
<1>1. AcceptanceInv => AcceptedHasWorkspace
  BY DEF AcceptanceInv
<1>2. AcceptanceInv /\ CampaignTyped /\ [AcceptanceNext]_acceptanceVars
        => AcceptanceInv' /\ CampaignTyped'
  BY AcceptanceStep, CampaignStaysTyped DEF AcceptanceGoal
<1> QED
  BY <1>1, <1>2, AcceptanceInvInit, PTL DEF AcceptanceSpec

(* The three ways to a collaboration implement one promise: an approach ends  *)
(* connected once, or closed, and for good.                                   *)
THEOREM AcceptanceImplementsEngagement == AcceptanceSpec => ImplementsEngagement
<1>1. AcceptanceInv /\ CampaignTyped /\ [AcceptanceNext]_acceptanceVars
        => AcceptanceInv' /\ CampaignTyped' /\ [Engage!EngagementNext]_(Engage!engagementVars)
  BY AcceptanceStep, CampaignStaysTyped
  DEF AcceptanceGoal, EngagementStep, Stages, Engage!engagementVars
<1> QED
  BY <1>1, AcceptanceInvInit, PTL DEF AcceptanceSpec, ImplementsEngagement, Engage!EngagementSpec

-----------------------------------------------------------------------------
(* Reviews *)

(* What a pending request has read stays true until it writes: reviews are    *)
(* never deleted, and an approval stays in the history.                       *)
ReviewsInv ==
  /\ ReviewsTypeOK
  /\ ShownByBoth
  /\ windowPassed => everPassed
  /\ sweep # {} => everPassed
  /\ \A p \in Party : consent[p] = "APPROVED" => p \in everApproved
  /\ \A r \in ReviewRequest : \A c \in reviewCall[r] :
       /\ c.step = "submitMutual" => Counterparts(c.party) \subseteq Reviewed
       /\ c.step = "publish" => Counterparts(c.party) \subseteq everApproved

LEMMA ReviewsInvInit == ReviewsInit => ReviewsInv
<1> SUFFICES ASSUME ReviewsInit PROVE ReviewsInv
  OBVIOUS
<1> USE DEF ReviewsInit
<1>1. reviewCall \in [ReviewRequest -> ReviewCall]
  BY DEF ReviewCall
<1>2. ReviewsTypeOK
  BY <1>1 DEF ReviewsTypeOK, ReviewState, Decision
<1>3. ShownByBoth
  BY DEF ShownByBoth
<1>4. \A r \in ReviewRequest : reviewCall[r] = {}
  OBVIOUS
<1> QED
  BY <1>2, <1>3, <1>4 DEF ReviewsInv

LEMMA CallsKeepReviewsInv ==
  ASSUME ReviewsInv, NEW r \in ReviewRequest, NEW p \in Party, NEW step \in ReviewStep,
         Calls(r, p, step),
         step = "submitMutual" => Counterparts(p) \subseteq Reviewed,
         step = "publish" => Counterparts(p) \subseteq everApproved
  PROVE  ReviewsInv'
<1> USE DEF ReviewsInv, ReviewsTypeOK
<1>1. reviewCall' = [reviewCall EXCEPT ![r] = {[party |-> p, step |-> step]}]
      /\ UNCHANGED <<completed, windowPassed, reviews, consent, showcased, sweep, everPassed,
                     everApproved>>
  BY DEF Calls
<1>2. reviewCall' \in [ReviewRequest -> ReviewCall]
  BY <1>1 DEF ReviewCall
<1>3. Reviewed' = Reviewed /\ Counterparts(p)' = Counterparts(p)
  BY <1>1 DEF Reviewed, Counterparts
<1>4. \A q \in ReviewRequest : \A c \in reviewCall'[q] :
        /\ c.step = "submitMutual" => Counterparts(c.party) \subseteq Reviewed
        /\ c.step = "publish" => Counterparts(c.party) \subseteq everApproved
  BY <1>1
<1> QED
  BY <1>1, <1>2, <1>3, <1>4 DEF ShownByBoth, Counterparts

LEMMA ReviewsInvStep == ReviewsInv /\ [ReviewsNext]_reviewVars => ReviewsInv'
<1> SUFFICES ASSUME ReviewsInv, [ReviewsNext]_reviewVars PROVE ReviewsInv'
  OBVIOUS
<1> USE DEF ReviewsInv, ReviewsTypeOK
<1>0. CASE CompletionUndone
  BY <1>0 DEF CompletionUndone, ShownByBoth, Reviewed, Counterparts
<1>1. CASE CollaborationCompletes
  BY <1>1 DEF CollaborationCompletes, ShownByBoth, Reviewed, Counterparts
<1>2. CASE WindowPasses
  BY <1>2 DEF WindowPasses, ShownByBoth, Reviewed, Counterparts
<1>3. ASSUME NEW r \in ReviewRequest, NEW p \in Party, SubmitRead(r, p) PROVE ReviewsInv'
  BY <1>3, CallsKeepReviewsInv DEF SubmitRead, ReviewStep
<1>4. ASSUME NEW r \in ReviewRequest, NEW p \in Party, ConsentRead(r, p) PROVE ReviewsInv'
  <2>1. CounterpartApproved(p) => Counterparts(p) \subseteq everApproved
    BY DEF CounterpartApproved, Counterparts
  <2> QED
    BY <1>4, <2>1, CallsKeepReviewsInv DEF ConsentRead, ReviewStep
<1>5. ASSUME NEW r \in ReviewRequest, NEW p \in Party, DeclineRead(r, p) PROVE ReviewsInv'
  BY <1>5, CallsKeepReviewsInv DEF DeclineRead, ReviewStep
<1>6. ASSUME NEW r \in ReviewRequest, SubmitWrite(r) PROVE ReviewsInv'
  <2>1. PICK c \in reviewCall[r] :
          /\ c.step \in {"submit", "submitMutual"}
          /\ IF reviews[c.party] = "NONE"
               THEN reviews' = Revealed(c.party, c.step = "submitMutual")
               ELSE UNCHANGED reviews
    BY <1>6 DEF SubmitWrite
  <2>2. reviewCall' = [reviewCall EXCEPT ![r] = {}]
        /\ UNCHANGED <<completed, windowPassed, consent, showcased, sweep, everPassed,
                       everApproved>>
    BY <1>6 DEF SubmitWrite
  <2>3. c.party \in Party
    BY DEF ReviewCall
  <2>4. reviews' \in [Party -> ReviewState] /\ Reviewed \subseteq Reviewed'
    BY <2>1, <2>3 DEF Revealed, ReviewState, Reviewed
  <2>5. CASE reviews' = reviews
    BY <2>2, <2>5 DEF ShownByBoth, Reviewed, Counterparts, ReviewCall
  <2>6. CASE reviews' = [reviews EXCEPT ![c.party] = "HIDDEN"]
    <3>1. (\E p \in Party : reviews'[p] = "PUBLISHED") => \E p \in Party : reviews[p] = "PUBLISHED"
      BY <2>6
    <3>2. Reviewed = Party => Reviewed' = Party
      BY <2>4 DEF Reviewed
    <3> QED
      BY <2>2, <2>4, <3>1, <3>2 DEF ShownByBoth, Counterparts, ReviewCall
  <2>7. CASE reviews' = [q \in Party |-> "PUBLISHED"]
    <3>1. Reviewed' = Party
      BY <2>7 DEF Reviewed
    <3> QED
      BY <2>2, <2>4, <3>1 DEF ShownByBoth, Counterparts, ReviewCall
  <2> QED
    BY <2>1, <2>5, <2>6, <2>7 DEF Revealed
<1>7. ASSUME NEW r \in ReviewRequest, ConsentWrite(r) PROVE ReviewsInv'
  <2>1. PICK c \in reviewCall[r] :
          \/ /\ c.step \in {"approve", "publish"}
             /\ c.step = "publish" => ~showcased
             /\ consent' = [consent EXCEPT ![c.party] = "APPROVED"]
             /\ showcased' = (showcased \/ c.step = "publish")
             /\ everApproved' = everApproved \cup {c.party}
          \/ /\ c.step = "publish" /\ showcased
             /\ UNCHANGED <<consent, showcased, everApproved>>
          \/ /\ c.step = "decline"
             /\ consent' = [consent EXCEPT ![c.party] = "DECLINED"]
             /\ UNCHANGED <<showcased, everApproved>>
    BY <1>7 DEF ConsentWrite
  <2>2. reviewCall' = [reviewCall EXCEPT ![r] = {}]
        /\ UNCHANGED <<completed, windowPassed, reviews, sweep, everPassed>>
    BY <1>7 DEF ConsentWrite
  <2>3. c.party \in Party
    BY DEF ReviewCall
  <2>4. everApproved \subseteq everApproved' /\ everApproved' \subseteq Party
    BY <2>1, <2>3
  <2>5. consent' \in [Party -> Decision] /\ showcased' \in BOOLEAN
    BY <2>1, <2>3 DEF Decision
  <2>6. \A p \in Party : consent'[p] = "APPROVED" => p \in everApproved'
    BY <2>1, <2>3
  <2>7. showcased' => everApproved' = Party
    <3>1. CASE showcased
      BY <2>4, <3>1 DEF ShownByBoth
    <3>2. CASE ~showcased /\ c.step = "publish"
      <4>1. Party \ {c.party} \subseteq everApproved
        BY <3>2 DEF Counterparts
      <4>2. everApproved' = everApproved \cup {c.party}
        BY <2>1, <3>2
      <4> QED
        BY <2>3, <2>4, <4>1, <4>2
    <3>3. CASE ~showcased /\ c.step # "publish"
      BY <2>1, <3>3
    <3> QED
      BY <3>1, <3>2, <3>3
  <2>8. Reviewed' = Reviewed
    BY <2>2 DEF Reviewed
  <2> QED
    BY <2>2, <2>4, <2>5, <2>6, <2>7, <2>8 DEF ShownByBoth, Counterparts, ReviewCall
<1>8. ASSUME NEW r \in ReviewRequest, AbandonReviewCall(r) PROVE ReviewsInv'
  BY <1>8 DEF AbandonReviewCall, ShownByBoth, Reviewed, Counterparts, ReviewCall
<1>9. CASE SweepRead
  BY <1>9 DEF SweepRead, Stale, ShownByBoth, Reviewed, Counterparts
<1>10. CASE SweepWrite
  <2>1. /\ everPassed'
        /\ UNCHANGED <<completed, windowPassed, consent, showcased, reviewCall, everPassed,
                       everApproved>>
    BY <1>10 DEF SweepWrite
  <2>2. reviews' \in [Party -> ReviewState] /\ Reviewed \subseteq Reviewed' /\ sweep' = {}
    BY <1>10 DEF SweepWrite, ReviewState, Reviewed
  <2> QED
    BY <2>1, <2>2 DEF ShownByBoth, Counterparts
<1>11. CASE SweepStops
  BY <1>11 DEF SweepStops, ShownByBoth, Reviewed, Counterparts
<1>12. CASE UNCHANGED reviewVars
  BY <1>12 DEF reviewVars, ShownByBoth, Reviewed, Counterparts
<1> QED
  BY <1>0, <1>1, <1>2, <1>3, <1>4, <1>5, <1>6, <1>7, <1>8, <1>9, <1>10, <1>11, <1>12
  DEF ReviewsNext

(* For any number of requests: no review and no work is shown on the word of  *)
(* one party (submit, giveShowcaseConsent).                                   *)
THEOREM NothingShownByOne == ReviewsSpec => []ShownByBoth
<1>1. ReviewsInv => ShownByBoth
  BY DEF ReviewsInv
<1> QED
  BY <1>1, ReviewsInvInit, ReviewsInvStep, PTL DEF ReviewsSpec

-----------------------------------------------------------------------------
(* SocialSync *)

Busy(i) == {y \in Syncer : syncing[y] = i}

(* A row that can be claimed has used up none of its allowance: one           *)
(* synchronisation, and one more for each connection into it.                 *)
SocialInv ==
  /\ SocialTypeOK
  /\ account.id <= rows
  /\ \A y \in Syncer : syncing[y] <= rows
  /\ \A s \in OAuthState : connected[s] = IF oauth[s] = "CONSUMED" THEN 1 ELSE 0
  /\ \A i \in 1..MaxRows :
       /\ Cardinality(Busy(i)) <= 1 + reconnected[i]
       /\ account.id = i /\ account.status # "SYNCING" => Cardinality(Busy(i)) <= reconnected[i]
  /\ SyncingIsWorkedOn

LEMMA AccountWritten ==
  ASSUME SocialTypeOK, NEW s \in SyncStatus, NEW new, new = [account EXCEPT !.status = s]
  PROVE  new \in Account /\ new.id = account.id /\ new.status = s
  BY DEF SocialTypeOK, Account

LEMMA BusyCounts ==
  ASSUME SocialTypeOK, NEW i \in 1..MaxRows
  PROVE  IsFiniteSet(Busy(i)) /\ Cardinality(Busy(i)) \in Nat
  BY SocialSyncAssumption, FS_Subset, FS_CardinalityType DEF Busy

(* Steps that leave the synchronisations and the connections alone.           *)
LEMMA SameBusy ==
  ASSUME UNCHANGED syncing, NEW i \in 1..MaxRows
  PROVE  Busy(i)' = Busy(i)
  BY DEF Busy

LEMMA LessBusy ==
  ASSUME SocialTypeOK, NEW y \in Syncer, syncing[y] # 0,
         syncing' = [syncing EXCEPT ![y] = 0], NEW i \in 1..MaxRows
  PROVE  /\ Cardinality(Busy(i)') <= Cardinality(Busy(i))
         /\ i = syncing[y] => Cardinality(Busy(i)') = Cardinality(Busy(i)) - 1
         /\ Cardinality(Busy(i)') \in Nat
<1>1. Busy(i)' = Busy(i) \ {y} /\ (i = syncing[y] => y \in Busy(i))
  BY SocialSyncAssumption DEF Busy, SocialTypeOK
<1>2. IsFiniteSet(Busy(i)) /\ Cardinality(Busy(i)) \in Nat
  BY BusyCounts
<1>3. Cardinality(Busy(i) \ {y}) =
        IF y \in Busy(i) THEN Cardinality(Busy(i)) - 1 ELSE Cardinality(Busy(i))
  BY <1>2, FS_RemoveElement
<1>4. Cardinality(Busy(i) \ {y}) \in Nat
  BY <1>2, FS_RemoveElement, FS_CardinalityType
<1> QED
  BY <1>1, <1>2, <1>3, <1>4

LEMMA SocialInvInit == SocialInit => SocialInv
<1> SUFFICES ASSUME SocialInit PROVE SocialInv
  OBVIOUS
<1> USE SocialSyncAssumption DEF SocialInit
<1>1. SocialTypeOK
  BY DEF SocialTypeOK, NoAccount, Account, SyncStatus, OAuthStatus, WebhookState
<1>2. ASSUME NEW i \in 1..MaxRows PROVE Cardinality(Busy(i)) = 0
  <2>1. Busy(i) = {}
    BY DEF Busy
  <2> QED
    BY <2>1, FS_EmptySet
<1> QED
  BY <1>1, <1>2 DEF SocialInv, SyncingIsWorkedOn, NoAccount

LEMMA SocialInvStep == SocialInv /\ [SocialNext]_socialVars => SocialInv'
<1> SUFFICES ASSUME SocialInv, [SocialNext]_socialVars PROVE SocialInv'
  OBVIOUS
<1> USE SocialSyncAssumption DEF SocialInv, SocialTypeOK
<1>a. account.id \in 0..MaxRows
  BY DEF Account
<1>0. \A i \in 1..MaxRows : Cardinality(Busy(i)) \in Nat
  BY BusyCounts
<1>1. ASSUME NEW s \in OAuthState, Authorize(s) \/ StateExpires(s) PROVE SocialInv'
  BY <1>0, <1>1, SameBusy DEF Authorize, StateExpires, OAuthStatus, SyncingIsWorkedOn
<1>2. ASSUME NEW c \in OAuthCall, NEW s \in OAuthState, CallbackRead(c, s) PROVE SocialInv'
  BY <1>0, <1>2, SameBusy DEF CallbackRead, SyncingIsWorkedOn
<1>3. ASSUME NEW c \in OAuthCall, CallbackFails(c) PROVE SocialInv'
  BY <1>0, <1>3, SameBusy DEF CallbackFails, SyncingIsWorkedOn
<1>4. ASSUME NEW c \in OAuthCall, CompleteConnection(c) PROVE SocialInv'
  <2>1. PICK s \in oauthCall[c] :
          \/ /\ ~ClaimableState(s)
             /\ UNCHANGED <<account, rows, oauth, connected, reconnected>>
          \/ /\ ClaimableState(s)
             /\ oauth' = [oauth EXCEPT ![s] = "CONSUMED"]
             /\ connected' = [connected EXCEPT ![s] = @ + 1]
             /\ \/ /\ account.id = 0 /\ rows < MaxRows
                   /\ rows' = rows + 1
                   /\ account' = [id |-> rows + 1, status |-> "HEALTHY"]
                   /\ UNCHANGED reconnected
                \/ /\ account.id # 0
                   /\ account' = [account EXCEPT !.status = "HEALTHY"]
                   /\ reconnected' = [reconnected EXCEPT ![account.id] = @ + 1]
                   /\ UNCHANGED rows
    BY <1>4 DEF CompleteConnection
  <2>2. oauthCall' = [oauthCall EXCEPT ![c] = {}] /\ UNCHANGED <<syncing, stopped, received>>
    BY <1>4 DEF CompleteConnection
  <2>3. s \in OAuthState /\ oauthCall' \in [OAuthCall -> SUBSET OAuthState]
    BY <2>2
  <2>4. CASE UNCHANGED <<account, rows, oauth, connected, reconnected>>
    BY <1>0, <2>2, <2>3, <2>4, SameBusy DEF SyncingIsWorkedOn
  <2>5. CASE ClaimableState(s)
    <3>1. /\ oauth' \in [OAuthState -> OAuthStatus]
          /\ connected' \in [OAuthState -> Nat]
          /\ \A u \in OAuthState : connected'[u] = IF oauth'[u] = "CONSUMED" THEN 1 ELSE 0
      <4>1. oauth' = [oauth EXCEPT ![s] = "CONSUMED"] /\ connected' = [connected EXCEPT ![s] = @ + 1]
        BY <2>1, <2>5
      <4>2. oauth[s] = "OPEN" /\ connected[s] = 0
        BY <2>3, <2>5 DEF ClaimableState
      <4> QED
        BY <2>3, <4>1, <4>2 DEF OAuthStatus
    <3>2. CASE /\ account.id = 0 /\ rows < MaxRows
               /\ rows' = rows + 1
               /\ account' = [id |-> rows + 1, status |-> "HEALTHY"]
               /\ UNCHANGED reconnected
      <4>1. account' \in Account /\ rows' \in 0..MaxRows /\ account'.id = rows + 1
            /\ account'.status = "HEALTHY" /\ rows + 1 \in 1..MaxRows
        BY <3>2 DEF Account, SyncStatus
      <4>2. Busy(rows + 1) = {}
        BY <4>1 DEF Busy
      <4>3. Cardinality(Busy(rows + 1)) = 0
        BY <4>2, FS_EmptySet
      <4>4. \A i \in 1..MaxRows : account'.id = i => i = rows + 1
        BY <4>1
      <4> QED
        <5>1. ASSUME NEW i \in 1..MaxRows PROVE
                /\ Cardinality(Busy(i)') <= 1 + reconnected'[i]
                /\ account'.id = i => Cardinality(Busy(i)') <= reconnected'[i]
          <6>1. Busy(i)' = Busy(i) /\ Cardinality(Busy(i)) \in Nat /\ reconnected[i] \in Nat
            BY <1>0, <2>2, SameBusy
          <6>2. i = rows + 1 => Cardinality(Busy(i)) = 0
            BY <4>3
          <6> QED
            BY <3>2, <4>4, <6>1, <6>2
        <5>2. SyncingIsWorkedOn'
          BY <4>1 DEF SyncingIsWorkedOn
        <5>3. \A y \in Syncer : syncing'[y] <= rows'
          BY <1>a, <2>2, <3>2
        <5> QED
          BY <2>2, <2>3, <3>1, <3>2, <4>1, <5>1, <5>2, <5>3
    <3>3. CASE /\ account.id # 0
               /\ account' = [account EXCEPT !.status = "HEALTHY"]
               /\ reconnected' = [reconnected EXCEPT ![account.id] = @ + 1]
               /\ UNCHANGED rows
      <4>1. account' \in Account /\ account'.id = account.id /\ account'.status = "HEALTHY"
            /\ account.id \in 1..MaxRows
        BY <1>a, <3>3, AccountWritten DEF SyncStatus
      <4>2. /\ reconnected' \in [1..MaxRows -> Nat]
            /\ \A i \in 1..MaxRows : reconnected'[i] >= reconnected[i]
            /\ reconnected'[account.id] = reconnected[account.id] + 1
        BY <3>3, <4>1
      <4>3. ASSUME NEW i \in 1..MaxRows PROVE
              /\ Cardinality(Busy(i)') <= 1 + reconnected'[i]
              /\ account'.id = i => Cardinality(Busy(i)') <= reconnected'[i]
        BY <1>0, <2>2, <4>1, <4>2, SameBusy
      <4> QED
        BY <2>2, <2>3, <3>1, <3>3, <4>1, <4>2, <4>3 DEF SyncingIsWorkedOn
    <3> QED
      BY <2>1, <2>5, <3>2, <3>3
  <2> QED
    BY <2>1, <2>4, <2>5
<1>5. CASE CreateManual
  <2>1. /\ UNCHANGED <<oauth, oauthCall, connected, syncing, reconnected, stopped, received>>
        /\ account.id = 0 /\ rows < MaxRows /\ rows' = rows + 1
        /\ account' = [id |-> rows + 1, status |-> "MANUAL"]
    BY <1>5 DEF CreateManual
  <2>2. account' \in Account /\ rows' \in 0..MaxRows /\ account'.id = rows + 1
        /\ account'.status = "MANUAL" /\ rows + 1 \in 1..MaxRows
    BY <2>1 DEF Account, SyncStatus
  <2>3. Busy(rows + 1) = {}
    BY <2>2 DEF Busy
  <2>4. Cardinality(Busy(rows + 1)) = 0
    BY <2>3, FS_EmptySet
  <2>5. ASSUME NEW i \in 1..MaxRows PROVE
          /\ Cardinality(Busy(i)') <= 1 + reconnected'[i]
          /\ account'.id = i => Cardinality(Busy(i)') <= reconnected'[i]
    <3>1. Busy(i)' = Busy(i) /\ Cardinality(Busy(i)) \in Nat /\ reconnected[i] \in Nat
      BY <1>0, <2>1, SameBusy
    <3>2. i = rows + 1 => Cardinality(Busy(i)) = 0
      BY <2>4
    <3> QED
      BY <2>1, <2>2, <3>1, <3>2
  <2>6. SyncingIsWorkedOn'
    BY <2>2 DEF SyncingIsWorkedOn
  <2>7. \A y \in Syncer : syncing'[y] <= rows'
    BY <1>a, <2>1
  <2> QED
    BY <2>1, <2>2, <2>5, <2>6, <2>7
<1>6. CASE Disconnect
  BY <1>0, <1>6, SameBusy DEF Disconnect, NoAccount, Account, SyncStatus, SyncingIsWorkedOn
<1>7. ASSUME NEW y \in Syncer, ClaimSync(y) PROVE SocialInv'
  <2>1. /\ syncing[y] = 0 /\ account.id # 0 /\ account.status # "SYNCING"
        /\ syncing' = [syncing EXCEPT ![y] = account.id]
        /\ account' = [account EXCEPT !.status = "SYNCING"]
        /\ UNCHANGED <<rows, oauth, oauthCall, connected, reconnected, stopped, received>>
    BY <1>7 DEF ClaimSync, Syncable
  <2>2. account' \in Account /\ account'.id = account.id /\ account'.status = "SYNCING"
        /\ account.id \in 1..MaxRows
    BY <1>a, <2>1, AccountWritten DEF SyncStatus
  <2>3. ASSUME NEW i \in 1..MaxRows PROVE Cardinality(Busy(i)') <= 1 + reconnected[i]
    <3>1. CASE i # account.id
      <4>1. Busy(i)' = Busy(i)
        BY <2>1, <3>1 DEF Busy
      <4> QED
        BY <1>0, <4>1
    <3>2. CASE i = account.id
      <4>1. Busy(i)' = Busy(i) \cup {y}
        BY <2>1, <3>2 DEF Busy
      <4>2. y \notin Busy(i) /\ IsFiniteSet(Busy(i))
        BY <2>1, <2>2, <3>2, BusyCounts DEF Busy
      <4>3. Cardinality(Busy(i)') = Cardinality(Busy(i)) + 1
        BY <4>1, <4>2, FS_AddElement
      <4> QED
        BY <1>0, <2>1, <3>2, <4>3
    <3> QED
      BY <3>1, <3>2
  <2>4. /\ syncing' \in [Syncer -> 0..MaxRows] /\ syncing'[y] = account.id
        /\ \A z \in Syncer : syncing'[z] <= rows
    BY <1>a, <2>1
  <2> QED
    BY <2>1, <2>2, <2>3, <2>4 DEF SyncingIsWorkedOn
<1>8. ASSUME NEW y \in Syncer, FinishSync(y) PROVE SocialInv'
  <2>1. PICK result \in {"HEALTHY"} \cup FailedStatus :
          /\ syncing[y] # 0
          /\ account' = IF account.id = syncing[y] THEN [account EXCEPT !.status = result]
                        ELSE account
          /\ syncing' = [syncing EXCEPT ![y] = 0]
          /\ UNCHANGED <<rows, oauth, oauthCall, connected, reconnected, stopped, received>>
    BY <1>8 DEF FinishSync
  <2>2. /\ account' \in Account /\ account'.id = account.id
        /\ account.id # syncing[y] => account' = account
        /\ account.id = syncing[y] => account'.status # "SYNCING"
    BY <2>1 DEF Account, SyncStatus, FailedStatus
  <2>3. \A i \in 1..MaxRows :
          /\ Cardinality(Busy(i)') <= Cardinality(Busy(i))
          /\ i = syncing[y] => Cardinality(Busy(i)') = Cardinality(Busy(i)) - 1
          /\ Cardinality(Busy(i)') \in Nat
    BY <2>1, LessBusy
  <2>4. ASSUME NEW i \in 1..MaxRows PROVE
          /\ Cardinality(Busy(i)') <= 1 + reconnected[i]
          /\ account'.id = i /\ account'.status # "SYNCING" => Cardinality(Busy(i)') <= reconnected[i]
    BY <1>0, <2>2, <2>3
  <2>5. syncing' \in [Syncer -> 0..MaxRows] /\ \A z \in Syncer : z # y => syncing'[z] = syncing[z]
    BY <2>1
  <2>6. SyncingIsWorkedOn'
    BY <2>1, <2>2, <2>5 DEF SyncingIsWorkedOn
  <2> QED
    BY <2>1, <2>2, <2>4, <2>5, <2>6
<1>9. ASSUME NEW y \in Syncer, SyncStops(y) PROVE SocialInv'
  <2>1. /\ syncing[y] # 0
        /\ stopped' = stopped \cup {syncing[y]}
        /\ syncing' = [syncing EXCEPT ![y] = 0]
        /\ UNCHANGED <<account, rows, oauth, oauthCall, connected, reconnected, received>>
    BY <1>9 DEF SyncStops
  <2>2. \A i \in 1..MaxRows :
          Cardinality(Busy(i)') <= Cardinality(Busy(i)) /\ Cardinality(Busy(i)') \in Nat
    BY <2>1, LessBusy
  <2>3. ASSUME NEW i \in 1..MaxRows PROVE
          /\ Cardinality(Busy(i)') <= 1 + reconnected[i]
          /\ account.id = i /\ account.status # "SYNCING" => Cardinality(Busy(i)') <= reconnected[i]
    BY <1>0, <2>2
  <2>4. syncing' \in [Syncer -> 0..MaxRows] /\ \A z \in Syncer : z # y => syncing'[z] = syncing[z]
    BY <2>1
  <2>5. SyncingIsWorkedOn'
    BY <2>1, <2>4 DEF SyncingIsWorkedOn
  <2>6. /\ account' \in Account /\ rows' \in 0..MaxRows
        /\ oauth' \in [OAuthState -> OAuthStatus]
        /\ oauthCall' \in [OAuthCall -> SUBSET OAuthState]
        /\ connected' \in [OAuthState -> Nat]
        /\ reconnected' \in [1..MaxRows -> Nat]
        /\ received' \in [WebhookEvent -> WebhookState]
        /\ \A s \in OAuthState : connected'[s] = IF oauth'[s] = "CONSUMED" THEN 1 ELSE 0
    BY <2>1
  <2>7. stopped' \subseteq 1..MaxRows
    <3>1. syncing[y] \in 1..MaxRows
      BY <2>1
    <3> QED
      BY <2>1, <3>1
  <2>8. account'.id <= rows' /\ \A z \in Syncer : syncing'[z] <= rows'
    BY <1>a, <2>1
  <2>9. SocialTypeOK'
    BY <2>4, <2>6, <2>7
  <2>10. ASSUME NEW i \in 1..MaxRows PROVE
          /\ Cardinality(Busy(i)') <= 1 + reconnected'[i]
          /\ account'.id = i /\ account'.status # "SYNCING" => Cardinality(Busy(i)') <= reconnected'[i]
    BY <2>1, <2>3
  <2> HIDE DEF SocialTypeOK
  <2> QED
    BY <2>5, <2>6, <2>8, <2>9, <2>10
<1>10. ASSUME NEW e \in WebhookEvent, StoreWebhook(e) PROVE SocialInv'
  BY <1>0, <1>10, SameBusy DEF StoreWebhook, WebhookState, SyncingIsWorkedOn
<1>11. ASSUME NEW e \in WebhookEvent, MarkStale(e) PROVE SocialInv'
  <2>1. /\ received' = [received EXCEPT ![e] = "HANDLED"]
        /\ account' = IF account.id # 0 /\ account.status \in {"HEALTHY", "ERROR", "STALE"}
                        THEN [account EXCEPT !.status = "STALE"] ELSE account
        /\ UNCHANGED <<rows, oauth, oauthCall, connected, syncing, reconnected, stopped>>
    BY <1>11 DEF MarkStale
  <2>2. /\ account' \in Account /\ account'.id = account.id
        /\ account'.status = "SYNCING" <=> account.status = "SYNCING"
    BY <2>1 DEF Account, SyncStatus
  <2>3. received' \in [WebhookEvent -> WebhookState]
    BY <2>1 DEF WebhookState
  <2>4. ASSUME NEW i \in 1..MaxRows PROVE
          /\ Cardinality(Busy(i)') <= 1 + reconnected'[i]
          /\ account'.id = i /\ account'.status # "SYNCING" => Cardinality(Busy(i)') <= reconnected'[i]
    BY <2>1, <2>2, SameBusy
  <2>5. SyncingIsWorkedOn'
    BY <2>1, <2>2 DEF SyncingIsWorkedOn
  <2>6. /\ rows' \in 0..MaxRows /\ syncing' \in [Syncer -> 0..MaxRows]
        /\ reconnected' \in [1..MaxRows -> Nat] /\ stopped' \subseteq 1..MaxRows
        /\ account'.id <= rows' /\ \A y \in Syncer : syncing'[y] <= rows'
    BY <2>1, <2>2
  <2>7. /\ oauth' \in [OAuthState -> OAuthStatus]
        /\ oauthCall' \in [OAuthCall -> SUBSET OAuthState]
        /\ connected' \in [OAuthState -> Nat]
        /\ \A s \in OAuthState : connected'[s] = IF oauth'[s] = "CONSUMED" THEN 1 ELSE 0
    BY <2>1
  <2>8. SocialTypeOK'
    BY <2>2, <2>3, <2>6, <2>7
  <2> HIDE DEF SocialTypeOK
  <2> QED
    BY <2>4, <2>5, <2>6, <2>7, <2>8
<1>12. CASE UNCHANGED socialVars
  BY <1>0, <1>12, SameBusy DEF socialVars, SyncingIsWorkedOn
<1> QED
  BY <1>1, <1>2, <1>3, <1>4, <1>5, <1>6, <1>7, <1>8, <1>9, <1>10, <1>11, <1>12 DEF SocialNext

(* Whatever callbacks are repeated: an authorization makes one connection,    *)
(* and synchronisations of a row overlap only by a new connection.            *)
THEOREM ConnectedAndSyncedOnce == SocialSpec => []OncePerConnection
<1>1. SocialInv => OncePerConnection
  BY DEF SocialInv, OncePerConnection, Busy
<1> QED
  BY <1>1, SocialInvInit, SocialInvStep, PTL DEF SocialSpec

(* A row that says SYNCING is being synchronised, or its process stopped.     *)
THEOREM NoOrphanedSync == SocialSpec => []SyncingIsWorkedOn
<1>1. SocialInv => SyncingIsWorkedOn
  BY DEF SocialInv
<1> QED
  BY <1>1, SocialInvInit, SocialInvStep, PTL DEF SocialSpec

-----------------------------------------------------------------------------
(* Leases *)

LeasesInv == LeasesTypeOK /\ RunsUnderLease

LEMMA LeasesInvInit == LeasesInit => LeasesInv
<1> SUFFICES ASSUME LeasesInit PROVE LeasesInv
  OBVIOUS
<1>1. lease \in [owner : Runner \cup {NoRunner}, expired : BOOLEAN]
  BY DEF LeasesInit, NoLease
<1>2. jobStep \in [Runner -> JobStep] /\ attempt \in [Runner -> 0..JobAttempts]
  BY LeasesAssumption DEF LeasesInit, JobStep
<1>4. LeasesTypeOK
  BY <1>1, <1>2 DEF LeasesInit, LeasesTypeOK
<1>3. RunsUnderLease
  BY DEF LeasesInit, RunsUnderLease, Holding
<1> QED
  BY <1>3, <1>4 DEF LeasesInv

(* The row is written by a run that has got the lease, and kept otherwise.    *)
LEMMA RowTyped ==
  ASSUME LeasesTypeOK, NEW r \in Runner, UNCHANGED lease \/ Own(r)
  PROVE  lease' \in [owner : Runner \cup {NoRunner}, expired : BOOLEAN]
<1>1. CASE UNCHANGED lease
  BY <1>1 DEF LeasesTypeOK
<1>2. CASE Own(r)
  BY <1>2 DEF Own
<1> QED
  BY <1>1, <1>2

(* A step that leaves the lease alone, and only takes runs out of Holding or  *)
(* moves them within it.                                                      *)
LEMMA LeaseStays ==
  ASSUME LeasesInv, UNCHANGED lease,
         \A r \in Runner : jobStep'[r] \in Holding /\ r \notin outlived'
                             => jobStep[r] \in Holding /\ r \notin outlived
  PROVE  RunsUnderLease'
  BY DEF LeasesInv, RunsUnderLease

(* A run that has just got the lease: nobody else was under it.               *)
LEMMA LeaseOwned ==
  ASSUME LeasesInv, NEW r \in Runner, Own(r), UNCHANGED outlived,
         jobStep[r] \notin Holding, lease = NoLease \/ lease.expired
  PROVE  RunsUnderLease'
<1> SUFFICES ASSUME NEW x \in Runner, jobStep'[x] \in Holding, x \notin outlived'
             PROVE  lease' = [owner |-> x, expired |-> FALSE]
  BY DEF RunsUnderLease
<1>1. CASE x = r
  BY <1>1 DEF Own
<1>2. CASE x # r
  <2>1. jobStep[x] \in Holding /\ x \notin outlived
    BY <1>2 DEF Own, LeasesInv, LeasesTypeOK
  <2>2. lease = [owner |-> x, expired |-> FALSE]
    BY <2>1 DEF LeasesInv, RunsUnderLease
  <2> QED
    BY <2>2, LeasesAssumption DEF NoLease
<1> QED
  BY <1>1, <1>2

LEMMA LeasesInvStep == LeasesInv /\ [LeasesNext]_leaseVars => LeasesInv'
<1> SUFFICES ASSUME LeasesInv, [LeasesNext]_leaseVars PROVE LeasesInv'
  OBVIOUS
<1> USE LeasesAssumption
<1>a. LeasesTypeOK /\ RunsUnderLease
  BY DEF LeasesInv
<1>b. \A r \in Runner : jobStep[r] \in JobStep
  BY <1>a DEF LeasesTypeOK
<1>1. CASE Schedule \/ UNCHANGED leaseVars
  <2>1. UNCHANGED <<lease, jobStep, attempt, tooEarly, outlived>> /\ scheduled' \in BOOLEAN
    BY <1>1, <1>a DEF Schedule, leaseVars, LeasesTypeOK
  <2>2. LeasesTypeOK'
    BY <1>a, <2>1 DEF LeasesTypeOK
  <2>3. RunsUnderLease'
    BY <2>1, LeaseStays
  <2> QED
    BY <2>2, <2>3 DEF LeasesInv
<1>2. CASE LeaseExpires
  <2>1. lease' \in [owner : Runner \cup {NoRunner}, expired : BOOLEAN]
    BY <1>2, <1>a DEF LeaseExpires, LeasesTypeOK
  <2>2. LeasesTypeOK'
    BY <1>2, <1>a, <2>1 DEF LeaseExpires, LeasesTypeOK
  <2>3. RunsUnderLease'
    BY <1>2, <1>a DEF LeaseExpires, RunsUnderLease
  <2> QED
    BY <2>2, <2>3 DEF LeasesInv
<1>3. ASSUME NEW r \in Runner, LeaseAction(r) PROVE LeasesInv'
  <2>1. CASE Trigger(r)
    <3>1. LeasesTypeOK'
      BY <2>1, <1>a DEF Trigger, LeasesTypeOK, JobStep, Holding
    <3>2. RunsUnderLease'
      BY <2>1, <1>a, LeaseStays DEF Trigger, LeasesTypeOK, Holding
    <3> QED
      BY <3>1, <3>2 DEF LeasesInv
  <2>2. CASE CreateLease(r)
    <3>0. /\ UNCHANGED lease \/ Own(r)
          /\ jobStep' \in [Runner -> JobStep]
          /\ \A x \in Runner : jobStep[x] \in Holding => jobStep'[x] \in Holding
      BY <2>2, <1>a DEF CreateLease, Own, LeasesTypeOK, JobStep, Holding
    <3>1. LeasesTypeOK'
      BY <2>2, <1>a, <3>0, RowTyped DEF CreateLease, LeasesTypeOK
    <3>2. RunsUnderLease'
      <4>1. CASE lease = NoLease /\ Own(r)
        BY <2>2, <4>1, LeaseOwned DEF CreateLease, Holding
      <4>2. CASE ~(lease = NoLease /\ Own(r))
        BY <2>2, <4>2, <1>a, LeaseStays DEF CreateLease, LeasesTypeOK, Holding
      <4> QED
        BY <4>1, <4>2
    <3> QED
      BY <3>1, <3>2 DEF LeasesInv
  <2>3. CASE TakeLease(r)
    <3>0. /\ UNCHANGED lease \/ Own(r)
          /\ jobStep' \in [Runner -> JobStep]
          /\ \A x \in Runner : jobStep[x] \in Holding => jobStep'[x] \in Holding
      BY <2>3, <1>a DEF TakeLease, Own, LeasesTypeOK, JobStep, Holding
    <3>1. LeasesTypeOK'
      BY <2>3, <1>a, <3>0, RowTyped DEF TakeLease, LeasesTypeOK
    <3>2. RunsUnderLease'
      <4>1. CASE Takeable(r) /\ Own(r)
        BY <2>3, <4>1, LeaseOwned DEF TakeLease, Takeable, Holding
      <4>2. CASE ~(Takeable(r) /\ Own(r))
        BY <2>3, <4>2, <1>a, LeaseStays DEF TakeLease, LeasesTypeOK, Holding
      <4> QED
        BY <4>1, <4>2
    <3> QED
      BY <3>1, <3>2 DEF LeasesInv
  <2>4. CASE BeginRun(r)
    <3>1. LeasesTypeOK'
      BY <2>4, <1>a DEF BeginRun, LeasesTypeOK, JobStep, Holding
    <3>2. RunsUnderLease'
      BY <2>4, <1>a, LeaseStays DEF BeginRun, LeasesTypeOK, Holding
    <3> QED
      BY <3>1, <3>2 DEF LeasesInv
  <2>5. CASE AttemptSucceeds(r) \/ AttemptFails(r)
    <3>1. LeasesTypeOK'
      BY <2>5, <1>a DEF AttemptSucceeds, AttemptFails, AttemptLeft, LeasesTypeOK, JobStep, Holding
    <3>2. RunsUnderLease'
      BY <2>5, <1>a, LeaseStays DEF AttemptSucceeds, AttemptFails, LeasesTypeOK, Holding
    <3> QED
      BY <3>1, <3>2 DEF LeasesInv
  <2>6. CASE Release(r)
    <3>1. lease' \in [owner : Runner \cup {NoRunner}, expired : BOOLEAN]
      BY <2>6, <1>a DEF Release, LeasesTypeOK, NoLease
    <3>2. LeasesTypeOK'
      BY <2>6, <1>a, <3>1 DEF Release, Leave, LeasesTypeOK, JobStep, Holding
    <3>3. ASSUME NEW x \in Runner, jobStep'[x] \in Holding, x \notin outlived'
          PROVE  lease' = [owner |-> x, expired |-> FALSE]
      <4>1. x # r /\ jobStep[x] \in Holding /\ x \notin outlived
        BY <2>6, <1>a, <3>3 DEF Release, Leave, LeasesTypeOK, Holding
      <4>2. lease = [owner |-> x, expired |-> FALSE]
        BY <1>a, <4>1 DEF RunsUnderLease
      <4>3. lease.owner # r
        BY <4>1, <4>2
      <4> QED
        BY <2>6, <4>2, <4>3 DEF Release
    <3>4. RunsUnderLease'
      BY <3>3 DEF RunsUnderLease
    <3> QED
      BY <3>2, <3>4 DEF LeasesInv
  <2>7. CASE RunStops(r)
    <3>1. LeasesTypeOK'
      BY <2>7, <1>a DEF RunStops, Leave, LeasesTypeOK, JobStep, Holding
    <3>2. RunsUnderLease'
      BY <2>7, <1>a, LeaseStays DEF RunStops, Leave, LeasesTypeOK, Holding
    <3> QED
      BY <3>1, <3>2 DEF LeasesInv
  <2> QED
    BY <1>3, <2>1, <2>2, <2>3, <2>4, <2>5, <2>6, <2>7 DEF LeaseAction
<1> QED
  BY <1>1, <1>2, <1>3 DEF LeasesNext

(* For any number of processes: two runs of a job overlap only if one has     *)
(* outlived its lease, and never because a late run released the lease of     *)
(* the run that took it over.                                                 *)
THEOREM RunsHoldTheLease == LeasesSpec => []RunsUnderLease
<1>1. LeasesInv => RunsUnderLease
  BY DEF LeasesInv
<1> QED
  BY <1>1, LeasesInvInit, LeasesInvStep, PTL DEF LeasesSpec

-----------------------------------------------------------------------------
(* EventDelivery *)

(* The rows are complete before the first mail, and none is ever added.       *)
EventDeliveryInv ==
  /\ consumer \in [Consumer -> ConsumerState]
  /\ notified \in [Recipient -> 0..1]
  /\ handled \in BOOLEAN
  /\ handled \/ (\E c \in Consumer : consumer[c].stage = "mailing")
       => \A u \in Recipient : notified[u] = 1

LEMMA StageWritten ==
  ASSUME consumer \in [Consumer -> ConsumerState], NEW c \in Consumer,
         NEW s \in ConsumerStage, Stage(c, s)
  PROVE  /\ consumer' \in [Consumer -> ConsumerState]
         /\ consumer'[c].stage = s
         /\ \A d \in Consumer : d # c => consumer'[d] = consumer[d]
  BY DEF Stage, ConsumerState

LEMMA ConsumerIdle ==
  ASSUME consumer \in [Consumer -> ConsumerState], NEW c \in Consumer,
         consumer' = [consumer EXCEPT ![c] = IdleConsumer]
  PROVE  /\ consumer' \in [Consumer -> ConsumerState]
         /\ consumer'[c].stage = "idle"
         /\ \A d \in Consumer : d # c => consumer'[d] = consumer[d]
<1>1. IdleConsumer \in ConsumerState
  BY EventDeliveryAssumption DEF IdleConsumer, ConsumerState, ConsumerStage
<1> QED
  BY <1>1 DEF IdleConsumer

(* A step of a consumer that stores nothing and does not come to the mails.   *)
LEMMA StoresNothing ==
  ASSUME EventDeliveryInv, NEW c \in Consumer,
         UNCHANGED notified, handled' \in BOOLEAN,
         handled' => handled \/ consumer[c].stage = "mailing",
         consumer' \in [Consumer -> ConsumerState],
         consumer'[c].stage # "mailing",
         \A d \in Consumer : d # c => consumer'[d] = consumer[d]
  PROVE  EventDeliveryInv'
  BY DEF EventDeliveryInv

LEMMA EventDeliveryInvStep ==
  EventDeliveryInv /\ [EventDeliveryNext]_deliveryVars => EventDeliveryInv'
<1> SUFFICES ASSUME EventDeliveryInv, [EventDeliveryNext]_deliveryVars
             PROVE  EventDeliveryInv'
  OBVIOUS
<1>a. consumer \in [Consumer -> ConsumerState] /\ handled \in BOOLEAN
  BY DEF EventDeliveryInv
<1>1. CASE UNCHANGED <<consumer, notified, handled>>
  BY <1>1 DEF EventDeliveryInv
<1>2. ASSUME NEW c \in Consumer, Receive(c) PROVE EventDeliveryInv'
  <2>1. PICK a \in Attempt :
          consumer' = [consumer EXCEPT ![c] = [stage |-> "handling", attempt |-> a]]
    BY <1>2 DEF Receive
  <2>2. [stage |-> "handling", attempt |-> a] \in ConsumerState
    BY EventDeliveryAssumption DEF ConsumerState, ConsumerStage, Attempt
  <2>3. UNCHANGED <<notified, handled>>
    BY <1>2 DEF Receive
  <2>4. /\ consumer' \in [Consumer -> ConsumerState]
        /\ consumer'[c].stage = "handling"
        /\ \A d \in Consumer : d # c => consumer'[d] = consumer[d]
    BY <1>a, <2>1, <2>2
  <2> QED
    BY <1>a, <2>3, <2>4, StoresNothing
<1>3. ASSUME NEW c \in Consumer, StoreNotifications(c) PROVE EventDeliveryInv'
  <2>1. /\ Stage(c, "mailing") /\ "mailing" \in ConsumerStage
        /\ notified' = [u \in Recipient |-> 1] /\ UNCHANGED handled
    BY <1>3 DEF StoreNotifications, ConsumerStage
  <2>2. consumer' \in [Consumer -> ConsumerState]
    BY <1>a, <2>1, StageWritten
  <2> QED
    BY <1>a, <2>1, <2>2 DEF EventDeliveryInv
<1>4. ASSUME NEW c \in Consumer, Finish(c) PROVE EventDeliveryInv'
  BY <1>a, <1>4, ConsumerIdle, StoresNothing DEF Finish
<1>5. ASSUME NEW c \in Consumer, HandlerFails(c) PROVE EventDeliveryInv'
  BY <1>a, <1>5, StageWritten, StoresNothing DEF HandlerFails, ConsumerStage
<1>6. ASSUME NEW c \in Consumer, Retry(c) \/ GiveUp(c) PROVE EventDeliveryInv'
  <2>1. Stage(c, "published") /\ UNCHANGED <<notified, handled>> /\ "published" \in ConsumerStage
    BY <1>6 DEF Retry, GiveUp, ConsumerStage
  <2> QED
    BY <1>a, <2>1, StageWritten, StoresNothing
<1>7. ASSUME NEW c \in Consumer, AckFailed(c) PROVE EventDeliveryInv'
  BY <1>a, <1>7, ConsumerIdle, StoresNothing DEF AckFailed
<1>8. ASSUME NEW c \in Consumer, ConnectionLost(c) PROVE EventDeliveryInv'
  <2>1. /\ consumer' = [consumer EXCEPT ![c] = IdleConsumer] /\ UNCHANGED notified
        /\ handled' \in BOOLEAN /\ (handled' => handled \/ consumer[c].stage = "mailing")
    BY <1>a, <1>8 DEF ConnectionLost
  <2> QED
    BY <1>a, <2>1, ConsumerIdle, StoresNothing
<1>9. CASE PublishEvent \/ \E q \in DelayQueue : Redeliver(q) \/ DelayQueueExpires(q)
  <2>1. UNCHANGED <<consumer, notified, handled>>
    BY <1>9 DEF PublishEvent, Redeliver, DelayQueueExpires
  <2> QED
    BY <1>1, <2>1
<1>10. CASE UNCHANGED deliveryVars
  BY <1>1, <1>10 DEF deliveryVars
<1> QED
  BY <1>2, <1>3, <1>4, <1>5, <1>6, <1>7, <1>8, <1>9, <1>10
  DEF EventDeliveryNext, ConsumerStep

LEMMA EventDeliveryInvInit == EventDeliveryInit => EventDeliveryInv
<1> SUFFICES ASSUME EventDeliveryInit PROVE EventDeliveryInv
  OBVIOUS
<1>1. IdleConsumer \in ConsumerState /\ IdleConsumer.stage = "idle"
  BY EventDeliveryAssumption DEF IdleConsumer, ConsumerState, ConsumerStage
<1>2. \A c \in Consumer : consumer[c].stage # "mailing"
  BY <1>1 DEF EventDeliveryInit
<1>3. consumer \in [Consumer -> ConsumerState]
  BY <1>1 DEF EventDeliveryInit
<1>4. notified \in [Recipient -> 0..1] /\ handled = FALSE
  BY DEF EventDeliveryInit
<1> QED
  BY <1>2, <1>3, <1>4 DEF EventDeliveryInv

(* However often an event is published, copied by the delay queues and        *)
(* handled again, by any number of consumers: one notification a recipient.   *)
THEOREM NobodyNotifiedTwice == EventDeliverySpec => []NotifiedOnce
<1>1. EventDeliveryInv => NotifiedOnce
  BY DEF EventDeliveryInv, NotifiedOnce
<1> QED
  BY <1>1, EventDeliveryInvInit, EventDeliveryInvStep, PTL DEF EventDeliverySpec

(* The types, and that the event is not lost: a failed copy goes to the queue *)
(* of its own attempt, which returns it and does not expire before.           *)
SurvivalInv == EventDeliveryTypeOK /\ EventSurvives

(* A consumer that is at work holds a copy with its attempt.                  *)
ConsumersTyped ==
  /\ consumer \in [Consumer -> ConsumerState]
  /\ \A c \in Consumer : consumer[c].stage # "idle" => consumer[c].attempt \in Attempt

LEMMA StageKeepsAttempt ==
  ASSUME ConsumersTyped, NEW c \in Consumer, NEW s \in ConsumerStage, Stage(c, s),
         consumer[c].stage # "idle"
  PROVE  /\ ConsumersTyped' /\ consumer'[c].stage = s
         /\ \A d \in Consumer : d # c => consumer'[d] = consumer[d]
  BY DEF Stage, ConsumersTyped, ConsumerState

LEMMA IdleIsTyped ==
  ASSUME ConsumersTyped, NEW c \in Consumer, consumer' = [consumer EXCEPT ![c] = IdleConsumer]
  PROVE  /\ ConsumersTyped'
         /\ \A d \in Consumer : d # c => consumer'[d] = consumer[d]
<1>1. IdleConsumer \in ConsumerState /\ IdleConsumer.stage = "idle"
  BY EventDeliveryAssumption DEF IdleConsumer, ConsumerState, ConsumerStage
<1> QED
  BY <1>1 DEF ConsumersTyped

LEMMA SurvivalInvInit == EventDeliveryInit => SurvivalInv
<1> SUFFICES ASSUME EventDeliveryInit PROVE SurvivalInv
  OBVIOUS
<1>1. IdleConsumer \in ConsumerState /\ IdleConsumer.stage = "idle"
  BY EventDeliveryAssumption DEF IdleConsumer, ConsumerState, ConsumerStage
<1>2. ConsumersTyped
  BY <1>1 DEF EventDeliveryInit, ConsumersTyped
<1>3. 0 \in 0..MaxPublished /\ 0 \in 0..MaxDropped
  BY EventDeliveryAssumption
<1>4. /\ ready \in [Attempt -> Nat] /\ delayQueues \subseteq DelayQueue
      /\ delayed \in [DelayQueue -> [Attempt -> Nat]] /\ notified \in [Recipient -> Nat]
      /\ handled \in BOOLEAN /\ exhausted \in BOOLEAN
  BY DEF EventDeliveryInit
<1>5. published = 0 /\ published \in 0..MaxPublished /\ dropped \in 0..MaxDropped
  BY <1>3 DEF EventDeliveryInit
<1> QED
  BY <1>2, <1>4, <1>5 DEF SurvivalInv, EventDeliveryTypeOK, EventSurvives, ConsumersTyped

LEMMA SurvivalInvStep == SurvivalInv /\ [EventDeliveryNext]_deliveryVars => SurvivalInv'
<1> SUFFICES ASSUME SurvivalInv, [EventDeliveryNext]_deliveryVars PROVE SurvivalInv'
  OBVIOUS
<1>a. /\ ConsumersTyped /\ EventSurvives
      /\ ready \in [Attempt -> Nat] /\ delayQueues \subseteq DelayQueue
      /\ delayed \in [DelayQueue -> [Attempt -> Nat]] /\ notified \in [Recipient -> Nat]
      /\ published \in 0..MaxPublished /\ dropped \in 0..MaxDropped
      /\ handled \in BOOLEAN /\ exhausted \in BOOLEAN
  BY DEF SurvivalInv, EventDeliveryTypeOK, ConsumersTyped
<1>b. DeliveryMax \in Nat \ {0} /\ MaxPublished \in Nat /\ MaxDropped \in Nat
  BY EventDeliveryAssumption
<1>c. ASSUME ConsumersTyped', EventSurvives',
             ready' \in [Attempt -> Nat], delayQueues' \subseteq DelayQueue,
             delayed' \in [DelayQueue -> [Attempt -> Nat]], notified' \in [Recipient -> Nat],
             published' \in 0..MaxPublished, dropped' \in 0..MaxDropped,
             handled' \in BOOLEAN, exhausted' \in BOOLEAN
      PROVE  SurvivalInv'
  BY <1>c DEF SurvivalInv, EventDeliveryTypeOK, ConsumersTyped
<1>1. CASE PublishEvent
  <2>1. 1 \in Attempt /\ ready[1] \in Nat
    BY <1>a, <1>b DEF Attempt
  <2>2. ready' \in [Attempt -> Nat] /\ ready'[1] > 0
    BY <1>1, <1>a, <2>1 DEF PublishEvent
  <2>3. UNCHANGED <<delayQueues, delayed, consumer, notified, dropped, handled, exhausted>>
        /\ published' \in 0..MaxPublished
    BY <1>1, <1>a, <1>b DEF PublishEvent
  <2>4. EventSurvives'
    BY <2>1, <2>2 DEF EventSurvives, OnItsWay
  <2> QED
    BY <1>a, <1>c, <2>2, <2>3, <2>4 DEF ConsumersTyped
<1>2. ASSUME NEW c \in Consumer, Receive(c) PROVE SurvivalInv'
  <2>1. PICK a \in Attempt :
          /\ ready[a] > 0 /\ ready' = [ready EXCEPT ![a] = @ - 1]
          /\ consumer' = [consumer EXCEPT ![c] = [stage |-> "handling", attempt |-> a]]
    BY <1>2 DEF Receive
  <2>2. ready' \in [Attempt -> Nat]
    BY <1>a, <2>1
  <2>3. [stage |-> "handling", attempt |-> a] \in ConsumerState
    BY <1>b DEF ConsumerState, ConsumerStage, Attempt
  <2>4. ConsumersTyped' /\ consumer'[c].stage = "handling"
    BY <1>a, <2>1, <2>3 DEF ConsumersTyped
  <2>5. EventSurvives'
    BY <2>4 DEF EventSurvives, OnItsWay
  <2>6. UNCHANGED <<delayQueues, delayed, notified, published, dropped, handled, exhausted>>
    BY <1>2 DEF Receive
  <2> QED
    BY <1>a, <1>c, <2>2, <2>4, <2>5, <2>6
<1>3. ASSUME NEW c \in Consumer, StoreNotifications(c) \/ HandlerFails(c) PROVE SurvivalInv'
  <2>1. PICK s \in {"mailing", "failed"} : Stage(c, s)
    BY <1>3 DEF StoreNotifications, HandlerFails
  <2>2. /\ consumer[c].stage # "idle" /\ notified' \in [Recipient -> Nat]
        /\ UNCHANGED <<ready, delayQueues, delayed, published, dropped, handled, exhausted>>
    BY <1>3, <1>a DEF StoreNotifications, HandlerFails
  <2>3. ConsumersTyped' /\ consumer'[c].stage = s
    BY <1>a, <2>1, <2>2, StageKeepsAttempt DEF ConsumerStage
  <2>4. EventSurvives'
    BY <2>3 DEF EventSurvives, OnItsWay
  <2> QED
    BY <1>a, <1>c, <2>2, <2>3, <2>4
<1>4. ASSUME NEW c \in Consumer, Finish(c) PROVE SurvivalInv'
  <2>1. /\ handled' = TRUE /\ consumer' = [consumer EXCEPT ![c] = IdleConsumer]
        /\ UNCHANGED <<ready, delayQueues, delayed, notified, published, dropped, exhausted>>
    BY <1>4 DEF Finish
  <2> QED
    BY <1>a, <1>c, <2>1, IdleIsTyped DEF EventSurvives
<1>5. ASSUME NEW c \in Consumer, Retry(c) PROVE SurvivalInv'
  <2> DEFINE a == consumer[c].attempt
  <2>1. consumer[c].stage = "failed" /\ a < DeliveryMax /\ Stage(c, "published")
    BY <1>5 DEF Retry
  <2>2. ConsumersTyped' /\ a \in Attempt
    BY <1>a, <2>1, StageKeepsAttempt DEF ConsumerStage, ConsumersTyped
  <2>3. a \in DelayQueue /\ a + 1 \in Attempt
    BY <1>b, <2>1, <2>2 DEF DelayQueue, Attempt
  <2>4. /\ delayQueues' = delayQueues \cup {a}
        /\ delayed' = [q \in DelayQueue |->
             IF q \in delayQueues' THEN [delayed[q] EXCEPT ![a + 1] = @ + 1] ELSE delayed[q]]
        /\ UNCHANGED <<ready, notified, published, dropped, handled, exhausted>>
    BY <1>5 DEF Retry, NextAttempt
  <2>5. delayQueues' \subseteq DelayQueue
    BY <1>a, <2>3, <2>4
  <2> HIDE DEF a
  <2>6. delayed' \in [DelayQueue -> [Attempt -> Nat]]
    <3>1. ASSUME NEW q \in DelayQueue PROVE delayed'[q] \in [Attempt -> Nat]
      <4>1. delayed[q] \in [Attempt -> Nat] /\ delayed[q][a + 1] \in Nat
        BY <1>a, <2>3
      <4>2. CASE q \in delayQueues'
        <5>1. delayed'[q] = [delayed[q] EXCEPT ![a + 1] = @ + 1]
          BY <2>4, <4>2
        <5> QED
          BY <2>3, <4>1, <5>1
      <4>3. CASE q \notin delayQueues'
        BY <2>4, <4>1, <4>3
      <4> QED
        BY <4>2, <4>3
    <3> QED
      BY <2>4, <3>1
  <2>7. delayed'[a][a + 1] > 0
    <3>1. delayed[a] \in [Attempt -> Nat] /\ delayed[a][a + 1] \in Nat
      BY <1>a, <2>3
    <3>2. delayed'[a] = [delayed[a] EXCEPT ![a + 1] = @ + 1]
      BY <2>3, <2>4
    <3> QED
      BY <2>3, <3>1, <3>2
  <2>8. EventSurvives'
    BY <2>3, <2>7 DEF EventSurvives, OnItsWay
  <2> QED
    BY <1>a, <1>c, <2>2, <2>4, <2>5, <2>6, <2>8
<1>6. ASSUME NEW c \in Consumer, GiveUp(c) PROVE SurvivalInv'
  <2>1. /\ consumer[c].stage = "failed" /\ exhausted' = TRUE /\ Stage(c, "published")
        /\ UNCHANGED <<ready, delayQueues, delayed, notified, published, dropped, handled>>
    BY <1>6 DEF GiveUp
  <2>2. ConsumersTyped'
    BY <1>a, <2>1, StageKeepsAttempt DEF ConsumerStage
  <2> QED
    BY <1>a, <1>c, <2>1, <2>2 DEF EventSurvives
<1>7. ASSUME NEW c \in Consumer, AckFailed(c) PROVE SurvivalInv'
  <2>1. /\ consumer[c].stage = "published" /\ consumer' = [consumer EXCEPT ![c] = IdleConsumer]
        /\ UNCHANGED <<ready, delayQueues, delayed, notified, published, dropped, handled, exhausted>>
    BY <1>7 DEF AckFailed
  <2>2. ConsumersTyped' /\ \A d \in Consumer : d # c => consumer'[d] = consumer[d]
    BY <1>a, <2>1, IdleIsTyped
  <2>3. EventSurvives'
    BY <1>a, <2>1, <2>2 DEF EventSurvives, OnItsWay
  <2> QED
    BY <1>a, <1>c, <2>1, <2>2, <2>3
<1>8. ASSUME NEW c \in Consumer, ConnectionLost(c) PROVE SurvivalInv'
  <2> DEFINE a == consumer[c].attempt
  <2>1. /\ consumer[c].stage # "idle" /\ consumer' = [consumer EXCEPT ![c] = IdleConsumer]
        /\ ready' = [ready EXCEPT ![a] = @ + 1]
        /\ UNCHANGED <<delayQueues, delayed, notified, published, exhausted>>
    BY <1>8 DEF ConnectionLost
  <2>2. handled' \in BOOLEAN /\ dropped' \in 0..MaxDropped
    <3>1. handled' \in {handled, handled \/ consumer[c].stage = "mailing"}
      BY <1>8 DEF ConnectionLost
    <3>2. dropped < MaxDropped /\ dropped' = dropped + 1
      BY <1>8 DEF ConnectionLost
    <3>3. dropped' \in 0..MaxDropped
      BY <1>a, <1>b, <3>2
    <3>4. handled' \in BOOLEAN
      BY <1>a, <3>1
    <3> QED
      BY <3>3, <3>4
  <2>3. a \in Attempt
    BY <1>a, <2>1 DEF ConsumersTyped
  <2> HIDE DEF a
  <2>4. ready' \in [Attempt -> Nat] /\ ready'[a] > 0
    BY <1>a, <2>1, <2>3
  <2>5. EventSurvives'
    BY <2>3, <2>4 DEF EventSurvives, OnItsWay
  <2> QED
    BY <1>a, <1>c, <2>1, <2>2, <2>4, <2>5, IdleIsTyped
<1>9. ASSUME NEW q \in DelayQueue, Redeliver(q) PROVE SurvivalInv'
  <2>1. PICK a \in Attempt :
          /\ delayed[q][a] > 0 /\ delayed' = [delayed EXCEPT ![q][a] = @ - 1]
          /\ ready' = [ready EXCEPT ![a] = @ + 1]
    BY <1>9 DEF Redeliver
  <2>2. UNCHANGED <<delayQueues, consumer, notified, published, dropped, handled, exhausted>>
    BY <1>9 DEF Redeliver
  <2>3. delayed[q] \in [Attempt -> Nat] /\ delayed[q][a] \in Nat
    BY <1>a
  <2>4. delayed' \in [DelayQueue -> [Attempt -> Nat]]
    BY <1>a, <2>1, <2>3
  <2>5. ready' \in [Attempt -> Nat] /\ ready'[a] > 0
    BY <1>a, <2>1
  <2>6. EventSurvives'
    BY <2>5 DEF EventSurvives, OnItsWay
  <2> QED
    BY <1>a, <1>c, <2>2, <2>4, <2>5, <2>6 DEF ConsumersTyped
<1>10. ASSUME NEW q \in DelayQueue, DelayQueueExpires(q) PROVE SurvivalInv'
  <2>1. /\ delayed[q][q + 1] = 0
        /\ delayQueues' = delayQueues \ {q}
        /\ delayed' = [delayed EXCEPT ![q] = [a \in Attempt |-> 0]]
        /\ UNCHANGED <<ready, consumer, notified, published, dropped, handled, exhausted>>
    BY <1>10 DEF DelayQueueExpires
  <2>2. delayed' \in [DelayQueue -> [Attempt -> Nat]] /\ delayQueues' \subseteq DelayQueue
    BY <1>a, <2>1
  <2>3. \A p \in DelayQueue : delayed[p][p + 1] > 0 => delayed'[p] = delayed[p]
    BY <1>a, <2>1
  <2>4. EventSurvives'
    BY <1>a, <2>1, <2>3 DEF EventSurvives, OnItsWay
  <2> QED
    BY <1>a, <1>c, <2>1, <2>2, <2>4 DEF ConsumersTyped
<1>11. CASE UNCHANGED deliveryVars
  BY <1>11 DEF deliveryVars, SurvivalInv, EventDeliveryTypeOK, EventSurvives, OnItsWay
<1> QED
  BY <1>1, <1>2, <1>3, <1>4, <1>5, <1>6, <1>7, <1>8, <1>9, <1>10, <1>11
  DEF EventDeliveryNext, ConsumerStep

(* In every instance an event that was published is handled, given up after   *)
(* its attempts, or still on its way, whatever fails and expires              *)
(* (rabbitmq-broker.js).                                                      *)
THEOREM EventIsNotLost == EventDeliverySpec => []EventSurvives
<1>1. SurvivalInv => EventSurvives
  BY DEF SurvivalInv
<1> QED
  BY <1>1, SurvivalInvInit, SurvivalInvStep, PTL DEF EventDeliverySpec

-----------------------------------------------------------------------------
(* Sessions *)

(* What the requests carry, as far as their writes depend on it.              *)
WorkOK(w) ==
  /\ w.kind \in {"refresh", "reuse", "logout"} => w.token \in Token
  /\ w.kind = "verify" => w.code \in Code
  /\ w.kind \in {"verify", "reset"} => w.version \in Version

LEMMA WorkCarries == \A w \in Work : WorkOK(w)
<1> SUFFICES ASSUME NEW w \in Work PROVE WorkOK(w)
  OBVIOUS
<1>1. CASE w \in [kind : {"none"}]
  BY <1>1 DEF WorkOK
<1>2. CASE w \in [kind : {"refresh", "reuse", "logout"}, token : Token]
  BY <1>2 DEF WorkOK
<1>3. CASE w \in [kind : {"replace"}, seen : SUBSET Code]
  BY <1>3 DEF WorkOK
<1>4. CASE w \in [kind : {"verify"}, code : Code, version : Version]
  BY <1>4 DEF WorkOK
<1>5. CASE w \in [kind : {"reset"}, version : Version]
  BY <1>5 DEF WorkOK
<1> QED
  BY <1>1, <1>2, <1>3, <1>4, <1>5 DEF Work

(* The sessions: the tokens of every family end with the last one issued.     *)
TokensInv ==
  /\ issued \in [Family -> 0..MaxTokens]
  /\ live \subseteq Token
  /\ OneLiveToken

(* The recovery: nothing is granted or set for what does not exist yet.       *)
RecoveryInv ==
  /\ session \in Version
  /\ codesSent \in 0..MaxCodes
  /\ openCodes \subseteq 1..codesSent
  /\ granted \in [Code -> Nat]
  /\ resets \in [Version -> Nat]
  /\ \A k \in Code : k > codesSent => granted[k] = 0
  /\ RecoveredOnce

SessionsInv == TokensInv /\ RecoveryInv /\ work \in [Call -> Work]

LEMMA TokensEnded ==
  ASSUME TokensInv, UNCHANGED issued, live' \subseteq live
  PROVE  TokensInv'
  BY DEF TokensInv, OneLiveToken

LEMMA SessionsEnded ==
  ASSUME NEW ended, ended \subseteq live, EndSessions(ended)
  PROVE  live' \subseteq live /\ session < MaxSession /\ session' = session + 1
  BY DEF EndSessions

LEMMA RecoveryKept ==
  ASSUME RecoveryInv, session' \in Version, session' >= session,
         UNCHANGED <<codesSent, granted, resets>>, openCodes' \subseteq openCodes
  PROVE  RecoveryInv'
<1>1. ASSUME NEW k \in Code PROVE granted'[k] + (IF k \in openCodes' THEN 1 ELSE 0) <= 1
  <2>1. granted'[k] = granted[k] /\ granted[k] \in Nat
    BY DEF RecoveryInv
  <2>2. granted[k] + (IF k \in openCodes THEN 1 ELSE 0) <= 1
    BY DEF RecoveryInv, RecoveredOnce
  <2>3. k \in openCodes' => k \in openCodes
    OBVIOUS
  <2> QED
    BY <2>1, <2>2, <2>3
<1>2. \A v \in Version : resets'[v] <= IF v < session' THEN 1 ELSE 0
  BY SessionsAssumption DEF RecoveryInv, RecoveredOnce, Version
<1> QED
  BY <1>1, <1>2 DEF RecoveryInv, RecoveredOnce

LEMMA WorkBegun ==
  ASSUME work \in [Call -> Work], NEW c \in Call, NEW w \in Work, Begin(c, w)
  PROVE  work' \in [Call -> Work]
  BY DEF Begin

LEMMA WorkDone ==
  ASSUME work \in [Call -> Work], NEW c \in Call, Done(c)
  PROVE  work' \in [Call -> Work]
<1>1. NoWork \in Work
  BY DEF NoWork, Work
<1> QED
  BY <1>1 DEF Done

LEMMA SessionsInvInit == SessionsInit => SessionsInv
<1> SUFFICES ASSUME SessionsInit PROVE SessionsInv
  OBVIOUS
<1> USE SessionsAssumption
<1>1. TokensInv
  BY DEF SessionsInit, TokensInv, OneLiveToken
<1>2. RecoveryInv
  BY DEF SessionsInit, RecoveryInv, RecoveredOnce, Version, Code
<1>3. work \in [Call -> Work]
  BY DEF SessionsInit, NoWork, Work
<1> QED
  BY <1>1, <1>2, <1>3 DEF SessionsInv

(* Of two refreshes with one token the second finds it revoked.               *)
LEMMA TokensRotated ==
  ASSUME SessionsInv, NEW c \in Call, Rotate(c)
  PROVE  TokensInv' /\ work' \in [Call -> Work]
<1> DEFINE t == work[c].token
           f == t[1]
<1>1. work[c] \in Work /\ WorkOK(work[c]) /\ work[c].kind = "refresh"
  BY WorkCarries DEF SessionsInv, Rotate
<1>2. t \in Token /\ f \in Family
  BY <1>1 DEF WorkOK, Token
<1>3. CASE /\ Rotatable(t) /\ issued[f] < MaxTokens
           /\ issued' = [issued EXCEPT ![f] = @ + 1]
           /\ live' = (live \ {t}) \cup {<<f, issued[f] + 1>>}
           /\ Done(c)
  <2>1. issued' \in [Family -> 0..MaxTokens] /\ <<f, issued[f] + 1>> \in Token
    BY <1>2, <1>3, SessionsAssumption DEF SessionsInv, TokensInv, Token
  <2>2. live' \subseteq Token
    BY <1>3, <2>1 DEF SessionsInv, TokensInv
  <2>3. ASSUME NEW u \in live' PROVE u[2] = issued'[u[1]]
    <3>1. CASE u = <<f, issued[f] + 1>>
      BY <1>2, <1>3, <3>1 DEF SessionsInv, TokensInv
    <3>2. CASE u # <<f, issued[f] + 1>>
      <4>1. u \in live /\ u # t /\ u \in Token /\ t \in live
        BY <1>3, <3>2 DEF SessionsInv, TokensInv, Rotatable
      <4>2. u[2] = issued[u[1]] /\ t[2] = issued[t[1]]
        BY <4>1 DEF SessionsInv, TokensInv, OneLiveToken
      <4>3. u[1] # f
        BY <1>2, <4>1, <4>2 DEF Token
      <4> QED
        BY <1>2, <1>3, <4>1, <4>2, <4>3 DEF SessionsInv, TokensInv, Token
    <3> QED
      BY <3>1, <3>2
  <2>4. work' \in [Call -> Work]
    BY <1>3, WorkDone DEF SessionsInv
  <2> QED
    BY <2>1, <2>2, <2>3, <2>4 DEF TokensInv, OneLiveToken
<1>4. CASE /\ work' = [work EXCEPT ![c].kind = "reuse"]
           /\ UNCHANGED <<issued, live>>
  <2>1. [work[c] EXCEPT !.kind = "reuse"] \in Work
    <3>1. work[c] \in [kind : {"refresh", "reuse", "logout"}, token : Token]
      BY <1>1 DEF Work
    <3> QED
      BY <3>1 DEF Work
  <2>2. work' \in [Call -> Work]
    BY <1>4, <2>1 DEF SessionsInv
  <2>3. TokensInv'
    BY <1>4, TokensEnded DEF SessionsInv
  <2> QED
    BY <2>2, <2>3
<1> QED
  BY <1>3, <1>4 DEF Rotate

(* Of two verifications of one code the second finds it consumed.             *)
LEMMA CodeConsumed ==
  ASSUME SessionsInv, NEW c \in Call, ConsumeCode(c)
  PROVE  RecoveryInv'
<1> DEFINE k == work[c].code
<1>1. k \in Code
  BY WorkCarries DEF SessionsInv, ConsumeCode, WorkOK
<1>2. UNCHANGED <<session, codesSent, resets>>
  BY DEF ConsumeCode
<1>3. CASE ~Consumable(k)
  <2>1. UNCHANGED <<openCodes, granted>>
    BY <1>3 DEF ConsumeCode
  <2> QED
    BY <1>2, <2>1, SessionsAssumption, RecoveryKept DEF SessionsInv, RecoveryInv, Version
<1>4. CASE Consumable(k)
  <2>1. openCodes' = openCodes \ {k} /\ granted' = [granted EXCEPT ![k] = @ + 1]
    BY <1>4 DEF ConsumeCode
  <2>2. k \in openCodes /\ granted \in [Code -> Nat]
    BY <1>4 DEF Consumable, SessionsInv, RecoveryInv
  <2>3. granted[k] = 0 /\ k <= codesSent
    BY <1>1, <2>2 DEF SessionsInv, RecoveryInv, RecoveredOnce, Code
  <2>4. \A j \in Code : granted'[j] + (IF j \in openCodes' THEN 1 ELSE 0) <= 1
    BY <1>1, <2>1, <2>2, <2>3 DEF SessionsInv, RecoveryInv, RecoveredOnce
  <2>5. granted' \in [Code -> Nat] /\ \A j \in Code : j > codesSent => granted'[j] = 0
    BY <1>1, <2>1, <2>2, <2>3 DEF SessionsInv, RecoveryInv, Code
  <2>6. openCodes' \subseteq 1..codesSent
    BY <2>1 DEF SessionsInv, RecoveryInv
  <2> QED
    BY <1>2, <2>4, <2>5, <2>6 DEF SessionsInv, RecoveryInv, RecoveredOnce
<1> QED
  BY <1>3, <1>4

(* A new code joins those that its request has not seen.                      *)
LEMMA CodeReplaced ==
  ASSUME SessionsInv, NEW c \in Call, ReplaceCode(c)
  PROVE  RecoveryInv'
<1> DEFINE n == codesSent + 1
<1>1. /\ codesSent < MaxCodes /\ codesSent' = n
      /\ openCodes' = (openCodes \ work[c].seen) \cup {n}
      /\ UNCHANGED <<session, granted, resets>>
  BY DEF ReplaceCode
<1>2. n \in Code /\ n \in 1..MaxCodes /\ granted[n] = 0
  BY <1>1, SessionsAssumption DEF SessionsInv, RecoveryInv, Code
<1>3. openCodes' \subseteq 1..codesSent' /\ codesSent' \in 0..MaxCodes
  <2>1. openCodes \subseteq 1..codesSent /\ codesSent \in Nat
    BY SessionsAssumption DEF SessionsInv, RecoveryInv
  <2>2. 1..codesSent \subseteq 1..n /\ n \in 1..n
    BY <2>1
  <2>3. openCodes' \subseteq openCodes \cup {n}
    BY <1>1
  <2>4. openCodes' \subseteq 1..n
    BY <2>1, <2>2, <2>3
  <2>5. n \in 0..MaxCodes
    BY <1>2, SessionsAssumption
  <2> HIDE DEF n
  <2> QED
    BY <1>1, <2>4, <2>5
<1>4. \A j \in Code : granted'[j] + (IF j \in openCodes' THEN 1 ELSE 0) <= 1
  BY <1>1, <1>2 DEF SessionsInv, RecoveryInv, RecoveredOnce
<1>5. \A j \in Code : j > codesSent' => granted'[j] = 0
  BY <1>1, <1>2 DEF SessionsInv, RecoveryInv, Code
<1> QED
  BY <1>1, <1>3, <1>4, <1>5 DEF SessionsInv, RecoveryInv, RecoveredOnce

(* The version that allows a password to be set moves as it is set.           *)
LEMMA PasswordReset ==
  ASSUME SessionsInv, NEW c \in Call, ResetPassword(c)
  PROVE  TokensInv' /\ RecoveryInv'
<1> DEFINE v == work[c].version
<1>1. v \in Version
  BY WorkCarries DEF SessionsInv, ResetPassword, WorkOK
<1>2. UNCHANGED <<issued, codesSent, openCodes, granted>>
  BY DEF ResetPassword
<1>3. CASE Resettable(v) /\ EndSessions(live) /\ resets' = [resets EXCEPT ![v] = @ + 1]
  <2>1. live' \subseteq live /\ session < MaxSession /\ session' = session + 1
    BY <1>3, SessionsEnded
  <2>2. session = v /\ session \in Version /\ resets \in [Version -> Nat]
    BY <1>3 DEF Resettable, SessionsInv, RecoveryInv
  <2>3. session' \in Version
    BY <2>1, <2>2, SessionsAssumption DEF Version
  <2>4. resets[v] = 0
    BY <1>1, <2>2 DEF SessionsInv, RecoveryInv, RecoveredOnce, Version
  <2>5. resets' \in [Version -> Nat]
    BY <1>1, <1>3, <2>2
  <2>6. \A w \in Version : resets'[w] <= IF w < session' THEN 1 ELSE 0
    BY <1>1, <1>3, <2>1, <2>2, <2>4, SessionsAssumption
    DEF SessionsInv, RecoveryInv, RecoveredOnce, Version
  <2>7. RecoveryInv'
    BY <1>2, <2>3, <2>5, <2>6 DEF SessionsInv, RecoveryInv, RecoveredOnce
  <2> QED
    BY <1>2, <2>1, <2>7, TokensEnded DEF SessionsInv
<1>4. CASE UNCHANGED <<session, live, resets>>
  <2>1. TokensInv'
    BY <1>2, <1>4, TokensEnded DEF SessionsInv
  <2>2. RecoveryInv'
    BY <1>2, <1>4, SessionsAssumption, RecoveryKept DEF SessionsInv, RecoveryInv, Version
  <2> QED
    BY <2>1, <2>2
<1> QED
  BY <1>3, <1>4 DEF ResetPassword

LEMMA SessionsInvStep == SessionsInv /\ [SessionsNext]_sessionVars => SessionsInv'
<1> SUFFICES ASSUME SessionsInv, [SessionsNext]_sessionVars PROVE SessionsInv'
  OBVIOUS
<1>a. TokensInv /\ RecoveryInv /\ work \in [Call -> Work]
  BY DEF SessionsInv
<1>b. UNCHANGED <<issued, live>> => TokensInv'
  BY <1>a, TokensEnded
<1>c. UNCHANGED <<session, codesSent, openCodes, granted, resets>> => RecoveryInv'
  BY <1>a, SessionsAssumption, RecoveryKept DEF RecoveryInv, Version
<1>d. ASSUME NEW ended, ended \subseteq live, EndSessions(ended),
             UNCHANGED <<issued, codesSent, openCodes, granted, resets>>
      PROVE  TokensInv' /\ RecoveryInv'
  <2>1. live' \subseteq live /\ session < MaxSession /\ session' = session + 1
    BY <1>d, SessionsEnded
  <2>2. session' \in Version /\ session' >= session
    BY <1>a, <2>1, SessionsAssumption DEF RecoveryInv, Version
  <2> QED
    BY <1>a, <1>d, <2>1, <2>2, TokensEnded, RecoveryKept
<1>1. ASSUME NEW f \in Family, SignIn(f) PROVE SessionsInv'
  <2>1. /\ issued[f] = 0 /\ MaxTokens > 0
        /\ issued' = [issued EXCEPT ![f] = 1] /\ live' = live \cup {<<f, 1>>}
    BY <1>1 DEF SignIn
  <2>2. issued' \in [Family -> 0..MaxTokens] /\ <<f, 1>> \in Token
    BY <1>a, <2>1, SessionsAssumption DEF TokensInv, Token
  <2>3. \A t \in live : t[1] # f
    BY <1>a, <2>1 DEF TokensInv, OneLiveToken, Token
  <2>4. \A t \in live' : t[2] = issued'[t[1]]
    BY <1>a, <2>1, <2>3 DEF TokensInv, OneLiveToken, Token
  <2>5. TokensInv'
    BY <1>a, <2>1, <2>2, <2>4 DEF TokensInv, OneLiveToken
  <2> QED
    BY <1>1, <1>a, <1>c, <2>5 DEF SignIn, SessionsInv
<1>2. ASSUME NEW c \in Call, NEW t \in Token, ReadToken(c, t) \/ ReadLogout(c, t) PROVE SessionsInv'
  <2>1. PICK kind \in {"refresh", "reuse", "logout"} : Begin(c, [kind |-> kind, token |-> t])
    BY <1>2 DEF ReadToken, ReadLogout
  <2>2. [kind |-> kind, token |-> t] \in Work
    BY DEF Work
  <2>3. work' \in [Call -> Work]
    BY <1>a, <2>1, <2>2, WorkBegun
  <2> QED
    BY <1>b, <1>c, <2>1, <2>3 DEF Begin, SessionsInv
<1>3. ASSUME NEW c \in Call, ReadCodes(c) PROVE SessionsInv'
  <2>1. openCodes \in SUBSET Code
    BY <1>a, SessionsAssumption DEF RecoveryInv, Code
  <2>2. [kind |-> "replace", seen |-> openCodes] \in Work
    BY <2>1 DEF Work
  <2> QED
    BY <1>3, <1>a, <1>b, <1>c, <2>2, WorkBegun DEF ReadCodes, Begin, SessionsInv
<1>4. ASSUME NEW c \in Call, ReadCode(c) PROVE SessionsInv'
  <2>1. PICK k \in openCodes : Begin(c, [kind |-> "verify", code |-> k, version |-> session])
    BY <1>4 DEF ReadCode
  <2>2. k \in Code /\ session \in Version
    BY <1>a, SessionsAssumption DEF RecoveryInv, Code
  <2>3. [kind |-> "verify", code |-> k, version |-> session] \in Work
    BY <2>2 DEF Work
  <2> QED
    BY <1>a, <1>b, <1>c, <2>1, <2>3, WorkBegun DEF Begin, SessionsInv
<1>5. ASSUME NEW c \in Call, ReadReset(c) PROVE SessionsInv'
  <2>1. [kind |-> "reset", version |-> session] \in Work
    BY <1>a DEF RecoveryInv, Work
  <2> QED
    BY <1>5, <1>a, <1>b, <1>c, <2>1, WorkBegun DEF ReadReset, Begin, SessionsInv
<1>6. ASSUME NEW c \in Call, CallStops(c) PROVE SessionsInv'
  BY <1>6, <1>a, <1>b, <1>c, WorkDone DEF CallStops, SessionsInv
<1>7. ASSUME NEW c \in Call, Rotate(c) PROVE SessionsInv'
  BY <1>7, <1>c, TokensRotated DEF Rotate, SessionsInv
<1>8. ASSUME NEW c \in Call, InvalidateFamily(c) PROVE SessionsInv'
  BY <1>8, <1>a, <1>d, WorkDone DEF InvalidateFamily, SessionsInv
<1>9. ASSUME NEW c \in Call, Logout(c) PROVE SessionsInv'
  BY <1>9, <1>a, <1>c, TokensEnded, WorkDone DEF Logout, SessionsInv
<1>10. ASSUME NEW c \in Call, ReplaceCode(c) PROVE SessionsInv'
  BY <1>10, <1>a, <1>b, CodeReplaced, WorkDone DEF ReplaceCode, SessionsInv
<1>11. ASSUME NEW c \in Call, ConsumeCode(c) PROVE SessionsInv'
  BY <1>11, <1>a, <1>b, CodeConsumed, WorkDone DEF ConsumeCode, SessionsInv
<1>12. ASSUME NEW c \in Call, ResetPassword(c) PROVE SessionsInv'
  BY <1>12, <1>a, PasswordReset, WorkDone DEF ResetPassword, SessionsInv
<1>13. CASE LogoutAll
  BY <1>13, <1>a, <1>d DEF LogoutAll, SessionsInv
<1>14. ASSUME NEW k \in Code, CodeNotSent(k) PROVE SessionsInv'
  <2>1. session >= session
    BY <1>a, SessionsAssumption DEF RecoveryInv, Version
  <2>2. RecoveryInv'
    BY <1>14, <1>a, <2>1, RecoveryKept DEF CodeNotSent, RecoveryInv
  <2> QED
    BY <1>14, <1>a, <1>b, <2>2 DEF CodeNotSent, SessionsInv
<1>15. CASE UNCHANGED sessionVars
  BY <1>15, <1>a, <1>b, <1>c DEF sessionVars, SessionsInv
<1> QED
  BY <1>1, <1>2, <1>3, <1>4, <1>5, <1>6, <1>7, <1>8, <1>9, <1>10, <1>11, <1>12, <1>13,
     <1>14, <1>15 DEF SessionsNext

(* A reset token carries the version its code was read with.                  *)
LEMMA ResetTokensTyped ==
  SessionsInv /\ resetTokens \subseteq Version /\ [SessionsNext]_sessionVars
    => resetTokens' \subseteq Version
<1> SUFFICES ASSUME SessionsInv, resetTokens \subseteq Version, [SessionsNext]_sessionVars
             PROVE  resetTokens' \subseteq Version
  OBVIOUS
<1>1. ASSUME NEW c \in Call, ConsumeCode(c) PROVE resetTokens' \subseteq Version
  <2>1. work[c].kind = "verify" /\ resetTokens' \subseteq resetTokens \cup {work[c].version}
    BY <1>1 DEF ConsumeCode
  <2>2. work[c].version \in Version
    BY <2>1, WorkCarries DEF SessionsInv, WorkOK
  <2> QED
    BY <2>1, <2>2
<1>2. CASE UNCHANGED resetTokens
  BY <1>2
<1> QED
  BY <1>1, <1>2
  DEF SessionsNext, sessionVars, SignIn, ReadToken, ReadLogout, ReadCodes, ReadCode, ReadReset,
      CallStops, Begin, Rotate, InvalidateFamily, Logout, LogoutAll, ReplaceCode, CodeNotSent,
      ResetPassword

(* For any number of tabs and requests, a family has no live token but the    *)
(* one issued last.                                                           *)
THEOREM FamilyHasOneToken == SessionsSpec => []OneLiveToken
<1>1. SessionsInv => OneLiveToken
  BY DEF SessionsInv, TokensInv
<1> QED
  BY <1>1, SessionsInvInit, SessionsInvStep, PTL DEF SessionsSpec

(* Whatever requests are repeated or overlap: one reset token for a code, one *)
(* password for a version.                                                    *)
THEOREM PasswordRecoveredOnce == SessionsSpec => []RecoveredOnce
<1>1. SessionsInv => RecoveredOnce
  BY DEF SessionsInv, RecoveryInv
<1> QED
  BY <1>1, SessionsInvInit, SessionsInvStep, PTL DEF SessionsSpec

-----------------------------------------------------------------------------
(* ClientSession *)

(* The token a restore has been given is no one else's: not the tab's, not    *)
(* the one a refresh was started with, not another restore's.                 *)
TokensHeld ==
  /\ \A c \in AuthAction :
       /\ authCall[c].kind = "signIn" => authCall[c].person \in Person
       /\ authCall[c].kind = "me" =>
            /\ authCall[c].token \in 1..Len(tokenOf)
            /\ authCall[c].token # token
            /\ tokenOf[authCall[c].token] = authCall[c].person
            /\ \A a \in refreshing : authCall[c].token # a.token
            /\ \A d \in AuthAction \ {c} :
                 authCall[d].kind = "me" => authCall[d].token # authCall[c].token
  /\ \A r \in ApiCall :
       /\ apiCall[r].token <= Len(tokenOf)
       /\ apiCall[r].waiting => refreshing # {}
       /\ apiCall[r].kind # "none" => apiCall[r].person \in Person
  /\ \A a \in refreshing : a.token <= Len(tokenOf)

(* Until accounts are mixed up, a refresh is for the account of the token it  *)
(* was started with, and so is what waits for it while the token is the same. *)
OnePerson ==
  /\ shownUser # Nobody => token # 0 /\ tokenOf[token] = shownUser
  /\ \A r \in ApiCall :
       /\ apiCall[r].kind # "none" =>
            apiCall[r].token # 0 /\ tokenOf[apiCall[r].token] = apiCall[r].person
       /\ apiCall[r].current => apiCall[r].person = shownUser
       /\ apiCall[r].waiting =>
            \A a \in refreshing : a.token = token => apiCall[r].person = tokenOf[a.token]
  /\ \A a \in refreshing : a.token # 0 /\ a.person \in {tokenOf[a.token], Nobody}
  /\ dataOwner \in {shownUser, Nobody}
  /\ items \subseteq {shownUser}

ClientInv == ClientTypeOK /\ TokensHeld /\ (~mixed => OnePerson)

LEMMA ClientInvInit == ClientInit => ClientInv
<1> SUFFICES ASSUME ClientInit PROVE ClientInv
  OBVIOUS
<1>1. PICK c \in AuthAction, p \in Person \cup {Nobody} :
        authCall = [x \in AuthAction |-> IF x = c
          THEN [kind |-> "restore", person |-> p, token |-> 0, current |-> TRUE]
          ELSE NoAuth]
  BY DEF ClientInit
<1>2. ClientTypeOK
  <2>1. tokenOf \in Seq(Person) /\ Len(tokenOf) = 0
    BY DEF ClientInit
  <2>2. authCall \in [AuthAction -> AuthRow]
    BY <1>1, ClientAssumption DEF AuthRow, Access, NoAuth
  <2>3. apiCall \in [ApiCall -> ApiRow]
    BY ClientAssumption DEF ClientInit, ApiRow, Access, NoApi
  <2>4. /\ token = 0 /\ shownUser = Nobody /\ refreshing = {} /\ items = {}
        /\ dataOwner = Nobody /\ mixed = FALSE
    BY DEF ClientInit
  <2>5. token \in 0..Len(tokenOf) /\ Len(tokenOf) <= MaxAccess
    BY <2>1, <2>4, ClientAssumption
  <2>6. /\ shownUser \in Person \cup {Nobody} /\ dataOwner \in Person \cup {Nobody}
        /\ items \subseteq Person
    BY <2>4
  <2> QED
    BY <2>1, <2>2, <2>3, <2>4, <2>5, <2>6, Zenon DEF ClientTypeOK
<1>3. TokensHeld /\ OnePerson
  BY <1>1, ClientAssumption DEF ClientInit, TokensHeld, OnePerson, NoAuth, NoApi
<1> QED
  BY <1>2, <1>3 DEF ClientInv

(* Appending a token keeps the accounts of those before it. *)
LEMMA TokenGiven ==
  ASSUME ClientInv, NEW p \in Person, Given(p)
  PROVE  /\ tokenOf' \in Seq(Person) /\ Len(tokenOf') <= MaxAccess
         /\ Newest \in Access /\ Newest = Len(tokenOf) + 1
         /\ Len(tokenOf) \in Nat /\ Len(tokenOf') = Len(tokenOf) + 1
         /\ tokenOf'[Newest] = p
         /\ \A n \in 1..Len(tokenOf) : tokenOf'[n] = tokenOf[n]
BY ClientAssumption DEF ClientInv, ClientTypeOK, Given, Newest, Access

(* Another user is shown, and another of the tokens held. *)
LEMMA AnotherShown ==
  ASSUME ClientInv, NEW p \in Person \cup {Nobody}, Shows(p),
         UNCHANGED <<refreshing, mixed>>,
         tokenOf' \in Seq(Person), Len(tokenOf') <= MaxAccess, Len(tokenOf) <= Len(tokenOf'),
         \A n \in 1..Len(tokenOf) : tokenOf'[n] = tokenOf[n],
         token' \in 0..Len(tokenOf'),
         authCall' \in [AuthAction -> AuthRow],
         p # Nobody => token' # 0 /\ tokenOf'[token'] = p,
         \A a \in refreshing : a.token # 0 => a.token # token',
         \A c \in AuthAction :
           \/ /\ authCall'[c].kind = authCall[c].kind
              /\ authCall'[c].token = authCall[c].token
              /\ authCall'[c].person = authCall[c].person
           \/ authCall'[c].kind = "none",
         \A c \in AuthAction : authCall'[c].kind = "me" => authCall'[c].token # token'
  PROVE  ClientInv'
<1>1. ClientTypeOK'
  <2>1. apiCall' \in [ApiCall -> ApiRow]
    <3>1. apiCall \in [ApiCall -> ApiRow]
      BY DEF ClientInv, ClientTypeOK
    <3>2. \A r \in ApiCall : [apiCall[r] EXCEPT !.current = FALSE] \in ApiRow
      BY <3>1 DEF ApiRow
    <3> QED
      BY <3>2 DEF Shows
  <2>2. /\ shownUser' \in Person \cup {Nobody} /\ dataOwner' \in Person \cup {Nobody}
        /\ items' \subseteq Person
    BY DEF ClientInv, ClientTypeOK, Shows
  <2>3. mixed' \in BOOLEAN /\ refreshing' \in {{}} \cup {{a} : a \in Refresh}
    BY DEF ClientInv, ClientTypeOK
  <2> QED
    BY <2>1, <2>2, <2>3 DEF ClientTypeOK
<1>2. \A r \in ApiCall : /\ apiCall'[r].kind = apiCall[r].kind
                          /\ apiCall'[r].token = apiCall[r].token
                          /\ apiCall'[r].person = apiCall[r].person
                          /\ apiCall'[r].waiting = apiCall[r].waiting
                          /\ ~apiCall'[r].current
                          /\ apiCall[r].token \in Nat
  BY ClientAssumption DEF ClientInv, ClientTypeOK, Shows, ApiRow, Access
<1>3. \A a \in refreshing : a.token \in Nat
  BY ClientAssumption DEF ClientInv, ClientTypeOK, Refresh, Access
<1>4. Len(tokenOf) \in Nat /\ Len(tokenOf') \in Nat
  BY DEF ClientInv, ClientTypeOK
<1>5. TokensHeld'
  <2>1. ASSUME NEW c \in AuthAction, authCall'[c].kind = "me"
        PROVE  /\ authCall'[c].token \in 1..Len(tokenOf')
               /\ authCall'[c].token # token'
               /\ tokenOf'[authCall'[c].token] = authCall'[c].person
               /\ \A a \in refreshing' : authCall'[c].token # a.token
               /\ \A d \in AuthAction \ {c} :
                    authCall'[d].kind = "me" => authCall'[d].token # authCall'[c].token
    BY <2>1, <1>4 DEF ClientInv, TokensHeld
  <2>2. \A c \in AuthAction : authCall'[c].kind = "signIn" => authCall'[c].person \in Person
    BY DEF ClientInv, TokensHeld
  <2>3. \A r \in ApiCall :
          /\ apiCall'[r].token <= Len(tokenOf')
          /\ apiCall'[r].waiting => refreshing' # {}
          /\ apiCall'[r].kind # "none" => apiCall'[r].person \in Person
    BY <1>2, <1>4 DEF ClientInv, TokensHeld
  <2>4. \A a \in refreshing' : a.token <= Len(tokenOf')
    BY <1>3, <1>4 DEF ClientInv, TokensHeld
  <2> QED
    BY <2>1, <2>2, <2>3, <2>4 DEF TokensHeld
<1>6. ASSUME ~mixed PROVE OnePerson'
  <2>1. OnePerson /\ shownUser' = p
    BY <1>6 DEF ClientInv, Shows
  <2>2. \A a \in refreshing : a.token # 0 /\ a.token # token' /\ tokenOf'[a.token] = tokenOf[a.token]
    BY <2>1, <1>3, <1>4 DEF OnePerson, ClientInv, TokensHeld
  <2>3. \A r \in ApiCall :
          /\ apiCall'[r].kind # "none" =>
               apiCall'[r].token # 0 /\ tokenOf'[apiCall'[r].token] = apiCall'[r].person
          /\ apiCall'[r].current => apiCall'[r].person = shownUser'
    BY <2>1, <1>2, <1>4 DEF OnePerson, ClientInv, TokensHeld
  <2>4. dataOwner' \in {shownUser', Nobody} /\ items' \subseteq {shownUser'}
    BY <2>1, ClientAssumption DEF OnePerson, Shows
  <2> QED
    BY <2>1, <2>2, <2>3, <2>4 DEF OnePerson
<1> QED
  BY <1>1, <1>5, <1>6 DEF ClientInv

(* What is in flight changes, and nothing the tab shows. *)
LEMMA NothingNewShown ==
  ASSUME ClientInv, ShowsNothingNew, UNCHANGED <<refreshing, mixed>>,
         tokenOf' \in Seq(Person), Len(tokenOf') <= MaxAccess, Len(tokenOf) <= Len(tokenOf'),
         \A n \in 1..Len(tokenOf) : tokenOf'[n] = tokenOf[n],
         authCall' \in [AuthAction -> AuthRow],
         \A c \in AuthAction :
           \/ /\ authCall'[c].kind = authCall[c].kind
              /\ authCall'[c].token = authCall[c].token
              /\ authCall'[c].person = authCall[c].person
           \/ authCall'[c].kind \notin {"me", "signIn"}
           \/ authCall'[c].kind = "signIn" /\ authCall'[c].person \in Person
  PROVE  ClientInv'
<1>1. ClientTypeOK'
  BY ClientAssumption DEF ClientInv, ClientTypeOK, ShowsNothingNew
<1>2. TokensHeld'
  BY DEF ClientInv, ClientTypeOK, TokensHeld, ShowsNothingNew, ApiRow, AuthRow, Access, Refresh
<1>3. ASSUME ~mixed PROVE OnePerson'
  BY <1>3, ClientAssumption DEF ClientInv, ClientTypeOK, TokensHeld, OnePerson, ShowsNothingNew,
     ApiRow, Access, Refresh
<1> QED
  BY <1>1, <1>2, <1>3 DEF ClientInv

LEMMA CallsSuperseded ==
  ASSUME NEW calls \in [AuthAction -> AuthRow]
  PROVE  /\ Superseded(calls) \in [AuthAction -> AuthRow]
         /\ \A d \in AuthAction :
              /\ Superseded(calls)[d].kind = calls[d].kind
              /\ Superseded(calls)[d].token = calls[d].token
              /\ Superseded(calls)[d].person = calls[d].person
BY DEF Superseded, AuthRow

LEMMA ClientTyped ==
  ASSUME ClientInv
  PROVE  /\ tokenOf \in Seq(Person) /\ Len(tokenOf) \in Nat /\ Len(tokenOf) <= MaxAccess
         /\ token \in 0..Len(tokenOf) /\ token \in Access /\ 0 \in Access
         /\ authCall \in [AuthAction -> AuthRow] /\ NoAuth \in AuthRow
         /\ apiCall \in [ApiCall -> ApiRow] /\ NoApi \in ApiRow
         /\ \A x \in ApiCall : apiCall[x].token \in Nat /\ apiCall[x].token <= Len(tokenOf)
         /\ \A a \in refreshing : a \in Refresh /\ a.token \in Nat /\ a.token <= Len(tokenOf)
BY ClientAssumption DEF ClientInv, ClientTypeOK, TokensHeld, AuthRow, NoAuth, ApiRow, NoApi,
   Access, Refresh

LEMMA SessionForgotten ==
  ASSUME ClientInv, NEW calls \in [AuthAction -> AuthRow], ResetAuth(calls),
         \A d \in AuthAction : calls[d] = authCall[d] \/ calls[d].kind = "none",
         UNCHANGED <<tokenOf, refreshing, mixed>>
  PROVE  ClientInv'
<1>1. token' = 0 /\ Shows(Nobody) /\ authCall' = Superseded(calls)
  BY DEF ResetAuth
<1>2. authCall' \in [AuthAction -> AuthRow]
  BY <1>1, CallsSuperseded
<1>3. \A d \in AuthAction :
        \/ /\ authCall'[d].kind = authCall[d].kind
           /\ authCall'[d].token = authCall[d].token
           /\ authCall'[d].person = authCall[d].person
        \/ authCall'[d].kind = "none"
  BY <1>1, CallsSuperseded
<1>4. \A d \in AuthAction : authCall'[d].kind = "me" => authCall'[d].token # token'
  BY <1>1, <1>3, ClientTyped DEF ClientInv, TokensHeld
<1> QED
  BY <1>1, <1>2, <1>3, <1>4, ClientTyped, AnotherShown

LEMMA AuthSteps ==
  ASSUME ClientInv, NEW c \in AuthAction,
         \/ RestoreRefreshed(c) \/ Restored(c) \/ RestoreFails(c)
         \/ (\E p \in Person : SignInClicked(c, p)) \/ SignedIn(c) \/ SignInFails(c)
  PROVE  ClientInv'
<1>t. /\ tokenOf \in Seq(Person) /\ Len(tokenOf) \in Nat /\ Len(tokenOf) <= MaxAccess
      /\ token \in 0..Len(tokenOf)
      /\ authCall \in [AuthAction -> AuthRow] /\ NoAuth \in AuthRow
      /\ \A a \in refreshing : a.token \in Nat /\ a.token <= Len(tokenOf)
  BY ClientTyped
<1>f. /\ Finished(c) \in [AuthAction -> AuthRow] /\ Finished(c)[c].kind = "none"
      /\ \A d \in AuthAction \ {c} : Finished(c)[d] = authCall[d]
  BY <1>t DEF Finished, NoAuth
<1>1. CASE RestoreFails(c)
  <2>1. CASE ResetAuth(Finished(c))
    <3>1. \A d \in AuthAction : Finished(c)[d] = authCall[d] \/ Finished(c)[d].kind = "none"
      BY <1>f
    <3> QED
      BY <1>1, <2>1, <3>1, <1>f, SessionForgotten DEF RestoreFails
  <2>2. CASE authCall' = Finished(c) /\ ShowsNothingNew
    BY <1>1, <2>2, <1>f, <1>t, NothingNewShown DEF RestoreFails
  <2> QED
    BY <1>1, <2>1, <2>2 DEF RestoreFails
<1>2. CASE SignInFails(c)
  BY <1>2, <1>f, <1>t, NothingNewShown DEF SignInFails
<1>3. ASSUME NEW p \in Person, SignInClicked(c, p) PROVE ClientInv'
  <2> DEFINE row == [kind |-> "signIn", person |-> p, token |-> 0, current |-> TRUE]
  <2>1. row \in AuthRow
    BY ClientAssumption DEF AuthRow, Access
  <2>2. /\ authCall' \in [AuthAction -> AuthRow] /\ authCall'[c] = row
        /\ \A d \in AuthAction \ {c} : authCall'[d] = Superseded(authCall)[d]
    BY <1>3, <1>t, <2>1, CallsSuperseded DEF SignInClicked
  <2>3. \A d \in AuthAction :
          \/ /\ authCall'[d].kind = authCall[d].kind
             /\ authCall'[d].token = authCall[d].token
             /\ authCall'[d].person = authCall[d].person
          \/ authCall'[d].kind = "signIn" /\ authCall'[d].person \in Person
    BY <2>2, <1>t, CallsSuperseded
  <2> QED
    BY <1>3, <1>t, <2>2, <2>3, NothingNewShown DEF SignInClicked
<1>4. CASE Restored(c)
  <2>1. CASE token' = authCall[c].token /\ Shows(authCall[c].person)
    <3> DEFINE q == authCall[c].person
    <3>1. /\ q \in Person /\ token' \in 1..Len(tokenOf) /\ tokenOf[token'] = q
          /\ \A a \in refreshing : a.token # token'
          /\ \A d \in AuthAction \ {c} : authCall[d].kind = "me" => authCall[d].token # token'
      BY <1>4, <2>1, <1>t DEF Restored, ClientInv, TokensHeld
    <3> QED
      BY <1>4, <2>1, <3>1, <1>f, <1>t, AnotherShown DEF Restored
  <2>2. CASE ShowsNothingNew
    BY <1>4, <2>2, <1>f, <1>t, NothingNewShown DEF Restored
  <2> QED
    BY <1>4, <2>1, <2>2 DEF Restored
<1>5. CASE SignedIn(c)
  <2> DEFINE q == authCall[c].person
  <2>1. q \in Person /\ Given(q) /\ authCall' = Finished(c)
    BY <1>5 DEF SignedIn, ClientInv, TokensHeld
  <2>2. /\ tokenOf' \in Seq(Person) /\ Len(tokenOf') <= MaxAccess
        /\ Newest = Len(tokenOf) + 1 /\ Len(tokenOf') = Len(tokenOf) + 1
        /\ tokenOf'[Newest] = q
        /\ \A n \in 1..Len(tokenOf) : tokenOf'[n] = tokenOf[n]
    BY <2>1, TokenGiven
  <2>3. CASE token' = Newest /\ Shows(q)
    <3>1. \A d \in AuthAction : authCall'[d].kind = "me" => authCall'[d].token # token'
      BY <2>1, <2>2, <2>3, <1>f, <1>t DEF ClientInv, TokensHeld
    <3>2. \A a \in refreshing : a.token # token'
      BY <2>2, <2>3, <1>t
    <3> QED
      <4>1. \A d \in AuthAction : authCall'[d] = authCall[d] \/ authCall'[d].kind = "none"
        BY <2>1, <1>f
      <4>2. /\ authCall' \in [AuthAction -> AuthRow]
            /\ Len(tokenOf) <= Len(tokenOf') /\ token' \in 0..Len(tokenOf')
        BY <2>1, <2>2, <2>3, <1>f, <1>t
      <4>3. UNCHANGED <<refreshing, mixed>> /\ token' # 0 /\ tokenOf'[token'] = q
        BY <1>5, <2>2, <2>3, <1>t DEF SignedIn
      <4> QED
        BY <2>1, <2>2, <2>3, <3>1, <3>2, <4>1, <4>2, <4>3, AnotherShown
  <2>4. CASE ShowsNothingNew
    <3>1. \A d \in AuthAction : authCall'[d] = authCall[d] \/ authCall'[d].kind = "none"
      BY <2>1, <1>f
    <3>2. authCall' \in [AuthAction -> AuthRow] /\ Len(tokenOf) <= Len(tokenOf')
      BY <2>1, <2>2, <1>f, <1>t
    <3>3. UNCHANGED <<refreshing, mixed>>
      BY <1>5 DEF SignedIn
    <3> QED
      BY <2>2, <2>4, <3>1, <3>2, <3>3, NothingNewShown
  <2> QED
    BY <1>5, <2>3, <2>4 DEF SignedIn
<1>6. CASE RestoreRefreshed(c)
  <2> DEFINE q == authCall[c].person
  <2>1. q \in Person /\ Given(q)
    BY <1>6, <1>t DEF RestoreRefreshed, AuthRow
  <2>2. /\ tokenOf' \in Seq(Person) /\ Len(tokenOf') <= MaxAccess /\ Newest \in Access
        /\ Newest = Len(tokenOf) + 1 /\ Len(tokenOf') = Len(tokenOf) + 1
        /\ tokenOf'[Newest] = q
        /\ \A n \in 1..Len(tokenOf) : tokenOf'[n] = tokenOf[n]
    BY <2>1, TokenGiven
  <2>3. /\ authCall' \in [AuthAction -> AuthRow]
        /\ authCall'[c].kind = "me" /\ authCall'[c].token = Newest /\ authCall'[c].person = q
        /\ \A d \in AuthAction \ {c} : authCall'[d] = authCall[d]
    BY <1>6, <1>t, <2>2 DEF RestoreRefreshed, AuthRow
  <2>4. ClientTypeOK'
    BY <1>6, <2>2, <2>3, <1>t DEF RestoreRefreshed, ShowsNothingNew, ClientInv, ClientTypeOK
  <2>5. UNCHANGED <<token, shownUser, apiCall, items, dataOwner, refreshing, mixed>>
    BY <1>6 DEF RestoreRefreshed, ShowsNothingNew
  <2>6. TokensHeld'
    <3>1. ASSUME NEW d \in AuthAction, authCall'[d].kind = "me"
          PROVE  /\ authCall'[d].token \in 1..Len(tokenOf')
                 /\ authCall'[d].token # token
                 /\ tokenOf'[authCall'[d].token] = authCall'[d].person
                 /\ \A a \in refreshing : authCall'[d].token # a.token
      BY <3>1, <2>2, <2>3, <1>t DEF ClientInv, TokensHeld
    <3>2. ASSUME NEW d \in AuthAction, NEW x \in AuthAction \ {d},
                 authCall'[d].kind = "me", authCall'[x].kind = "me"
          PROVE  authCall'[x].token # authCall'[d].token
      BY <3>2, <2>2, <2>3, <1>t DEF ClientInv, TokensHeld
    <3>3. \A d \in AuthAction : authCall'[d].kind = "signIn" => authCall'[d].person \in Person
      BY <2>3 DEF ClientInv, TokensHeld
    <3>4. \A r \in ApiCall :
            /\ apiCall[r].token <= Len(tokenOf')
            /\ apiCall[r].waiting => refreshing # {}
            /\ apiCall[r].kind # "none" => apiCall[r].person \in Person
      BY <2>2, <1>t, ClientAssumption DEF ClientInv, ClientTypeOK, TokensHeld, ApiRow, Access
    <3>5. \A a \in refreshing : a.token <= Len(tokenOf')
      BY <2>2, <1>t
    <3> QED
      BY <2>5, <3>1, <3>2, <3>3, <3>4, <3>5 DEF TokensHeld
  <2>7. ASSUME ~mixed PROVE OnePerson'
    <3>1. \A r \in ApiCall : apiCall[r].token \in Nat /\ apiCall[r].token <= Len(tokenOf)
      BY ClientAssumption DEF ClientInv, ClientTypeOK, TokensHeld, ApiRow, Access
    <3> QED
      BY <2>2, <2>5, <2>7, <3>1, <1>t DEF ClientInv, OnePerson
  <2> QED
    BY <2>4, <2>5, <2>6, <2>7 DEF ClientInv
<1> QED
  BY <1>1, <1>2, <1>3, <1>4, <1>5, <1>6

(* What the tab does with the answers to its requests. *)
LEMMA ApiSteps ==
  ASSUME ClientInv, NEW r \in ApiCall,
         \/ \E kind \in {"load", "action", "profile"} : Send(r, kind)
         \/ Loaded(r) \/ Acted(r) \/ ProfileSaved(r) \/ CallFails(r)
  PROVE  ClientInv'
<1>t. /\ tokenOf \in Seq(Person) /\ Len(tokenOf) \in Nat /\ Len(tokenOf) <= MaxAccess
      /\ token \in 0..Len(tokenOf) /\ 0 \in Access /\ NoApi \in ApiRow
      /\ apiCall \in [ApiCall -> ApiRow]
      /\ \A x \in ApiCall : apiCall[x].token \in Nat /\ apiCall[x].token <= Len(tokenOf)
  BY ClientTyped
<1>u. UNCHANGED <<tokenOf, token, authCall, refreshing>>
  BY DEF Send, Loaded, Acted, ProfileSaved, CallFails
<1>h. ASSUME \A x \in ApiCall :
               /\ apiCall'[x].token <= Len(tokenOf)
               /\ apiCall'[x].waiting => apiCall[x].waiting
               /\ apiCall'[x].kind # "none" => apiCall'[x].person \in Person
      PROVE  TokensHeld'
  BY <1>h, <1>u DEF ClientInv, TokensHeld
<1>a. ASSUME Answered(r)
      PROVE  /\ apiCall' \in [ApiCall -> ApiRow] /\ apiCall'[r] = NoApi
             /\ \A x \in ApiCall \ {r} : apiCall'[x] = apiCall[x]
             /\ TokensHeld'
  <2>1. /\ apiCall' \in [ApiCall -> ApiRow] /\ apiCall'[r] = NoApi
        /\ \A x \in ApiCall \ {r} : apiCall'[x] = apiCall[x]
    BY <1>a, <1>t DEF Answered
  <2>2. \A x \in ApiCall :
          /\ apiCall'[x].token <= Len(tokenOf)
          /\ apiCall'[x].waiting => apiCall[x].waiting
          /\ apiCall'[x].kind # "none" => apiCall'[x].person \in Person
    BY <2>1, <1>t DEF NoApi, ClientInv, TokensHeld
  <2> QED
    BY <2>1, <2>2, <1>h
<1>o. ASSUME Answered(r), ~mixed, UNCHANGED <<shownUser, mixed>>,
             dataOwner' \in {shownUser, Nobody}, items' \subseteq {shownUser}
      PROVE  OnePerson'
  BY <1>o, <1>a, <1>u DEF ClientInv, OnePerson, NoApi
<1>1. ASSUME NEW kind \in {"load", "action", "profile"}, Send(r, kind) PROVE ClientInv'
  <2> DEFINE row == [kind |-> kind, person |-> shownUser, token |-> token,
                     waiting |-> FALSE, retried |-> FALSE, current |-> TRUE]
  <2>1. shownUser \in Person /\ row \in ApiRow
    <3>1. shownUser \in Person /\ token \in Access
      BY <1>1, <1>t, ClientAssumption DEF Send, ClientInv, ClientTypeOK, Access
    <3> QED
      BY <3>1 DEF ApiRow
  <2>2. /\ apiCall' \in [ApiCall -> ApiRow] /\ apiCall'[r] = row
        /\ \A x \in ApiCall \ {r} :
             /\ apiCall'[x].kind = apiCall[x].kind /\ apiCall'[x].token = apiCall[x].token
             /\ apiCall'[x].person = apiCall[x].person
             /\ apiCall'[x].waiting = apiCall[x].waiting
             /\ apiCall'[x].current => apiCall[x].current
    BY <1>1, <1>t, <2>1 DEF Send, ApiRow
  <2>3. ClientTypeOK'
    BY <1>1, <2>2 DEF Send, ClientInv, ClientTypeOK
  <2>4. \A x \in ApiCall :
          /\ apiCall'[x].token <= Len(tokenOf)
          /\ apiCall'[x].waiting => apiCall[x].waiting
          /\ apiCall'[x].kind # "none" => apiCall'[x].person \in Person
    BY <1>t, <2>1, <2>2 DEF ClientInv, TokensHeld
  <2>5. ASSUME ~mixed PROVE OnePerson'
    <3>1. OnePerson /\ UNCHANGED <<shownUser, items, dataOwner, tokenOf, token, refreshing>>
      BY <1>1, <2>5 DEF Send, ClientInv
    <3>2. shownUser # Nobody /\ token # 0 /\ tokenOf[token] = shownUser
      BY <1>1, <3>1 DEF Send, OnePerson
    <3> QED
      BY <2>2, <3>1, <3>2 DEF OnePerson
  <2>6. mixed' = mixed
    BY <1>1 DEF Send
  <2> QED
    BY <2>3, <2>4, <2>5, <2>6, <1>h DEF ClientInv
<1>2. CASE Loaded(r)
  <2>1. Answered(r) /\ UNCHANGED <<shownUser, mixed>>
    BY <1>2 DEF Loaded
  <2>2. Data(r) \in Person /\ apiCall[r].person \in Person
    BY <1>2, <1>t DEF Loaded, Sent, Data, ClientInv, TokensHeld
  <2>3. ClientTypeOK'
    BY <1>2, <2>1, <2>2, <1>a DEF Loaded, ClientInv, ClientTypeOK
  <2>4. ASSUME ~mixed PROVE OnePerson'
    <3>1. OnePerson
      BY <2>4 DEF ClientInv
    <3>2. Data(r) = apiCall[r].person /\ (apiCall[r].current => apiCall[r].person = shownUser)
      BY <1>2, <3>1 DEF Loaded, Sent, Data, OnePerson
    <3>3. dataOwner' \in {shownUser, Nobody} /\ items' \subseteq {shownUser}
      BY <1>2, <3>1, <3>2 DEF Loaded, LoadCurrent, OnePerson
    <3> QED
      BY <2>1, <2>4, <3>3, <1>o
  <2> QED
    BY <2>1, <2>3, <2>4, <1>a DEF ClientInv
<1>3. CASE Acted(r)
  <2>1. Answered(r) /\ UNCHANGED <<shownUser, mixed, dataOwner>>
    BY <1>3 DEF Acted
  <2>2. Data(r) \in Person
    BY <1>3, <1>t DEF Acted, Sent, Data
  <2>3. ClientTypeOK'
    BY <1>3, <2>1, <2>2, <1>a DEF Acted, ClientInv, ClientTypeOK
  <2>4. ASSUME ~mixed PROVE OnePerson'
    <3>1. OnePerson
      BY <2>4 DEF ClientInv
    <3>2. Data(r) = apiCall[r].person
      BY <1>3, <3>1 DEF Acted, Sent, Data, OnePerson
    <3>3. items' \subseteq {shownUser} /\ dataOwner \in {shownUser, Nobody}
      BY <1>3, <3>1, <3>2 DEF Acted, ActsForUser, OnePerson
    <3> QED
      BY <2>1, <2>4, <3>3, <1>o
  <2> QED
    BY <2>1, <2>3, <2>4, <1>a DEF ClientInv
<1>4. CASE CallFails(r)
  <2>1. Answered(r) /\ UNCHANGED <<shownUser, mixed, dataOwner, items>>
    BY <1>4 DEF CallFails
  <2>2. ClientTypeOK'
    BY <2>1, <1>a, <1>u DEF ClientInv, ClientTypeOK
  <2>3. ASSUME ~mixed PROVE OnePerson'
    <3>1. dataOwner \in {shownUser, Nobody} /\ items \subseteq {shownUser}
      BY <2>3 DEF ClientInv, OnePerson
    <3> QED
      BY <2>1, <2>3, <3>1, <1>o
  <2> QED
    BY <2>1, <2>2, <2>3, <1>a DEF ClientInv
<1>5. CASE ProfileSaved(r)
  <2>1. Data(r) \in Person
    BY <1>5, <1>t DEF ProfileSaved, Sent, Data
  <2>2. /\ apiCall' \in [ApiCall -> ApiRow] /\ apiCall'[r] = NoApi
        /\ \A x \in ApiCall \ {r} :
             /\ apiCall'[x].kind = apiCall[x].kind /\ apiCall'[x].token = apiCall[x].token
             /\ apiCall'[x].person = apiCall[x].person
             /\ apiCall'[x].waiting = apiCall[x].waiting
             /\ ~apiCall'[x].current
    BY <1>5, <1>t DEF ProfileSaved, ApiRow
  <2>3. ClientTypeOK'
    BY <1>5, <2>1, <2>2 DEF ProfileSaved, ClientInv, ClientTypeOK
  <2>4. \A x \in ApiCall :
          /\ apiCall'[x].token <= Len(tokenOf)
          /\ apiCall'[x].waiting => apiCall[x].waiting
          /\ apiCall'[x].kind # "none" => apiCall'[x].person \in Person
    BY <1>t, <2>2 DEF NoApi, ClientInv, TokensHeld
  <2>5. ASSUME ~mixed' PROVE OnePerson'
    <3>1. OnePerson /\ apiCall[r].person = shownUser
      BY <1>5, <2>5 DEF ProfileSaved, ClientInv
    <3>2. Data(r) = shownUser
      BY <1>5, <3>1 DEF ProfileSaved, Sent, Data, OnePerson
    <3>3. shownUser' = shownUser /\ dataOwner' \in {shownUser, Nobody} /\ items' \subseteq {shownUser}
      BY <1>5, <3>1, <3>2 DEF ProfileSaved, OnePerson
    <3> QED
      BY <2>2, <3>1, <3>3, <1>u DEF OnePerson, NoApi
  <2> QED
    BY <2>3, <2>4, <2>5, <1>h DEF ClientInv
<1> QED
  BY <1>1, <1>2, <1>3, <1>4, <1>5

(* What a refresh does with the requests that wait for it. *)
LEMMA RefreshSteps ==
  ASSUME ClientInv,
         \/ \E r \in ApiCall, p \in Person \cup {Nobody} : Unauthorized(r, p)
         \/ Refreshed \/ RefreshFails
  PROVE  ClientInv'
<1>t. /\ tokenOf \in Seq(Person) /\ Len(tokenOf) \in Nat /\ Len(tokenOf) <= MaxAccess
      /\ token \in 0..Len(tokenOf) /\ 0 \in Access /\ token \in Access /\ NoApi \in ApiRow
      /\ apiCall \in [ApiCall -> ApiRow]
      /\ \A x \in ApiCall : apiCall[x].token \in Nat /\ apiCall[x].token <= Len(tokenOf)
      /\ \A a \in refreshing : a \in Refresh /\ a.token \in Nat /\ a.token <= Len(tokenOf)
  BY ClientTyped
<1>g. /\ GiveUpWaiting \in [ApiCall -> ApiRow]
      /\ \A x \in ApiCall : ~GiveUpWaiting[x].waiting
                           /\ GiveUpWaiting[x] \in {NoApi, apiCall[x]}
  BY <1>t DEF GiveUpWaiting, NoApi
<1>1. ASSUME NEW r \in ApiCall, NEW p \in Person \cup {Nobody}, Unauthorized(r, p)
      PROVE  ClientInv'
  <2>1. apiCall[r].person \in Person
    BY <1>1 DEF Unauthorized, ClientInv, TokensHeld
  <2>2. /\ apiCall' \in [ApiCall -> ApiRow] /\ apiCall'[r].waiting
        /\ \A x \in ApiCall :
             /\ apiCall'[x].kind = apiCall[x].kind /\ apiCall'[x].token = apiCall[x].token
             /\ apiCall'[x].person = apiCall[x].person
             /\ apiCall'[x].current = apiCall[x].current
             /\ x # r => apiCall'[x].waiting = apiCall[x].waiting
    BY <1>1, <1>t DEF Unauthorized, ApiRow
  <2>3. UNCHANGED <<tokenOf, token, shownUser, authCall, items, dataOwner>>
    BY <1>1 DEF Unauthorized
  <2>4. refreshing' = IF refreshing = {} THEN {[person |-> p, token |-> token]} ELSE refreshing
    BY <1>1 DEF Unauthorized
  <2>5. [person |-> p, token |-> token] \in Refresh
    BY <1>t DEF Refresh
  <2>6. ClientTypeOK'
    BY <1>1, <2>2, <2>3, <2>4, <2>5 DEF Unauthorized, ClientInv, ClientTypeOK
  <2>7. TokensHeld'
    <3>1. refreshing' # {} /\ \A a \in refreshing' : a \in refreshing \/ a.token = token
      <4>1. CASE refreshing = {}
        BY <2>4, <4>1
      <4>2. CASE refreshing # {}
        BY <2>4, <4>2
      <4> QED
        BY <4>1, <4>2
    <3> QED
      BY <2>2, <2>3, <3>1, <1>t DEF ClientInv, TokensHeld
  <2>8. ASSUME ~mixed' PROVE OnePerson'
    <3>1. OnePerson /\ apiCall[r].person = shownUser /\ ~mixed
      BY <1>1, <2>8 DEF Unauthorized, ClientInv
    <3>2. refreshing = {} => p \in {shownUser, Nobody}
      BY <1>1, <2>8 DEF Unauthorized
    <3>4. token # 0 /\ tokenOf[token] = shownUser
      BY <2>1, <3>1, ClientAssumption DEF OnePerson
    <3>5. \A a \in refreshing' : a.token # 0 /\ a.person \in {tokenOf[a.token], Nobody}
      BY <2>4, <3>1, <3>2, <3>4 DEF OnePerson
    <3>6. ASSUME NEW x \in ApiCall, apiCall'[x].waiting, NEW a \in refreshing', a.token = token
          PROVE  apiCall[x].person = tokenOf[a.token]
      <4>1. CASE x = r
        BY <4>1, <3>1, <3>4, <3>6
      <4>2. CASE x # r
        BY <4>2, <2>2, <2>4, <3>1, <3>6 DEF OnePerson, ClientInv, TokensHeld
      <4> QED
        BY <4>1, <4>2
    <3> QED
      BY <2>2, <2>3, <3>1, <3>5, <3>6 DEF OnePerson
  <2> QED
    BY <2>6, <2>7, <2>8 DEF ClientInv
<1>2. CASE Refreshed
  <2>1. PICK a \in refreshing :
          /\ a.person # Nobody /\ Given(a.person)
          /\ \/ /\ token = a.token /\ token' = Newest
                /\ apiCall' = [r \in ApiCall |-> IF apiCall[r].waiting
                     THEN [apiCall[r] EXCEPT !.token = Newest, !.waiting = FALSE, !.retried = TRUE]
                     ELSE apiCall[r]]
             \/ apiCall' = GiveUpWaiting /\ UNCHANGED token
    BY <1>2 DEF Refreshed, SameToken
  <2>2. a.person \in Person /\ refreshing = {a}
    BY <2>1, <1>t DEF Refresh, ClientInv, ClientTypeOK
  <2>3. /\ tokenOf' \in Seq(Person) /\ Len(tokenOf') <= MaxAccess /\ Newest \in Access
        /\ Newest = Len(tokenOf) + 1 /\ Len(tokenOf') = Len(tokenOf) + 1
        /\ tokenOf'[Newest] = a.person
        /\ \A n \in 1..Len(tokenOf) : tokenOf'[n] = tokenOf[n]
    BY <2>1, <2>2, TokenGiven
  <2>4. UNCHANGED <<shownUser, authCall, items, dataOwner, mixed>> /\ refreshing' = {}
    BY <1>2 DEF Refreshed
  <2>5. /\ apiCall' \in [ApiCall -> ApiRow]
        /\ \A x \in ApiCall :
             /\ ~apiCall'[x].waiting
             /\ \/ apiCall'[x] \in {NoApi, apiCall[x]}
                \/ /\ apiCall[x].waiting /\ token = a.token /\ apiCall'[x].token = Newest
                   /\ apiCall'[x].kind = apiCall[x].kind
                   /\ apiCall'[x].person = apiCall[x].person
                   /\ apiCall'[x].current = apiCall[x].current
    <3>1. CASE apiCall' = GiveUpWaiting
      BY <3>1, <1>g
    <3>2. CASE /\ token = a.token
               /\ apiCall' = [r \in ApiCall |-> IF apiCall[r].waiting
                    THEN [apiCall[r] EXCEPT !.token = Newest, !.waiting = FALSE, !.retried = TRUE]
                    ELSE apiCall[r]]
      BY <3>2, <2>3, <1>t DEF ApiRow
    <3> QED
      BY <2>1, <3>1, <3>2
  <2>6. token' = token \/ (token = a.token /\ token' = Newest)
    BY <2>1
  <2>7. ClientTypeOK'
    BY <2>3, <2>4, <2>5, <2>6, <1>t DEF ClientInv, ClientTypeOK
  <2>8. TokensHeld'
    <3>1. ASSUME NEW c \in AuthAction, authCall'[c].kind = "me"
          PROVE  /\ authCall'[c].token \in 1..Len(tokenOf') /\ authCall'[c].token # token'
                 /\ tokenOf'[authCall'[c].token] = authCall'[c].person
                 /\ \A d \in AuthAction \ {c} :
                      authCall'[d].kind = "me" => authCall'[d].token # authCall'[c].token
      BY <3>1, <2>3, <2>4, <2>6, <1>t DEF ClientInv, TokensHeld
    <3>2. \A c \in AuthAction : authCall'[c].kind = "signIn" => authCall'[c].person \in Person
      BY <2>4 DEF ClientInv, TokensHeld
    <3>3. \A x \in ApiCall :
            /\ apiCall'[x].token <= Len(tokenOf')
            /\ apiCall'[x].kind # "none" => apiCall'[x].person \in Person
      BY <2>3, <2>5, <1>t DEF ClientInv, TokensHeld, NoApi
    <3> QED
      BY <2>4, <2>5, <3>1, <3>2, <3>3 DEF TokensHeld
  <2>9. ASSUME ~mixed PROVE OnePerson'
    <3>1. OnePerson
      BY <2>9 DEF ClientInv
    <3>2. a.person = tokenOf[a.token] /\ a.token \in 1..Len(tokenOf)
      <4>1. a.person # Nobody
        BY <2>1
      <4>2. a.token # 0 /\ a.person \in {tokenOf[a.token], Nobody}
        BY <3>1 DEF OnePerson
      <4> QED
        BY <4>1, <4>2, <1>t
    <3>3. shownUser # Nobody => token' # 0 /\ tokenOf'[token'] = shownUser
      BY <2>3, <2>6, <3>1, <3>2, <1>t DEF OnePerson
    <3>4. \A x \in ApiCall :
            /\ apiCall'[x].kind # "none" =>
                 apiCall'[x].token # 0 /\ tokenOf'[apiCall'[x].token] = apiCall'[x].person
            /\ apiCall'[x].current => apiCall'[x].person = shownUser
      BY <2>3, <2>5, <3>1, <3>2, <1>t DEF OnePerson, NoApi
    <3> QED
      BY <2>4, <2>5, <3>1, <3>3, <3>4 DEF OnePerson
  <2> QED
    BY <2>4, <2>7, <2>8, <2>9 DEF ClientInv
<1>3. CASE RefreshFails
  <2>1. UNCHANGED <<tokenOf, mixed>> /\ refreshing' = {}
    BY <1>3 DEF RefreshFails
  <2>2. \/ /\ authCall' = Superseded(authCall) /\ token' = 0 /\ shownUser' = Nobody
           /\ items' = {} /\ dataOwner' = Nobody
           /\ apiCall' = [r \in ApiCall |-> [GiveUpWaiting[r] EXCEPT !.current = FALSE]]
        \/ /\ apiCall' = GiveUpWaiting
           /\ UNCHANGED <<authCall, token, shownUser, items, dataOwner>>
    BY <1>3 DEF RefreshFails
  <2>3. /\ apiCall' \in [ApiCall -> ApiRow]
        /\ \A x \in ApiCall :
             /\ ~apiCall'[x].waiting
             /\ apiCall'[x].kind # "none" =>
                  /\ apiCall'[x].kind = apiCall[x].kind /\ apiCall'[x].token = apiCall[x].token
                  /\ apiCall'[x].person = apiCall[x].person
             /\ apiCall'[x].token <= Len(tokenOf)
             /\ apiCall'[x].current => /\ shownUser' = shownUser /\ apiCall[x].current
                                      /\ apiCall'[x].person = apiCall[x].person
    <3>1. CASE /\ shownUser' = Nobody
               /\ apiCall' = [r \in ApiCall |-> [GiveUpWaiting[r] EXCEPT !.current = FALSE]]
      <4>1. apiCall' \in [ApiCall -> ApiRow]
        BY <3>1, <1>g DEF ApiRow
      <4>2. \A x \in ApiCall :
              /\ apiCall'[x].kind = GiveUpWaiting[x].kind
              /\ apiCall'[x].token = GiveUpWaiting[x].token
              /\ apiCall'[x].person = GiveUpWaiting[x].person
              /\ ~apiCall'[x].waiting
              /\ ~apiCall'[x].current
        BY <3>1, <1>g DEF ApiRow
      <4> QED
        BY <4>1, <4>2, <1>g, <1>t DEF NoApi
    <3>2. CASE apiCall' = GiveUpWaiting /\ shownUser' = shownUser
      BY <3>2, <1>g, <1>t DEF NoApi
    <3> QED
      BY <2>2, <3>1, <3>2
  <2>4. /\ authCall' \in [AuthAction -> AuthRow]
        /\ \A c \in AuthAction : /\ authCall'[c].kind = authCall[c].kind
                                /\ authCall'[c].token = authCall[c].token
                                /\ authCall'[c].person = authCall[c].person
    <3>1. authCall \in [AuthAction -> AuthRow]
      BY ClientTyped
    <3>2. CASE authCall' = Superseded(authCall)
      BY <3>1, <3>2, CallsSuperseded
    <3>3. CASE authCall' = authCall
      BY <3>1, <3>3
    <3> QED
      BY <2>2, <3>2, <3>3
  <2>5. token' \in {0, token}
    BY <2>2
  <2>6. ClientTypeOK'
    BY <2>1, <2>2, <2>3, <2>4, <2>5, <1>t DEF ClientInv, ClientTypeOK
  <2>7. TokensHeld'
    <3>1. TokensHeld
      BY DEF ClientInv
    <3>2. ASSUME NEW c \in AuthAction
          PROVE  /\ authCall'[c].kind = "signIn" => authCall'[c].person \in Person
                 /\ authCall'[c].kind = "me" =>
                      /\ authCall'[c].token \in 1..Len(tokenOf')
                      /\ authCall'[c].token # token'
                      /\ tokenOf'[authCall'[c].token] = authCall'[c].person
                      /\ \A d \in AuthAction \ {c} :
                           authCall'[d].kind = "me" => authCall'[d].token # authCall'[c].token
      <4>1. authCall[c].token \in 1..Len(tokenOf) => authCall[c].token # 0
        OBVIOUS
      <4> QED
        BY <2>1, <2>4, <2>5, <3>1, <4>1 DEF TokensHeld
    <3>3. \A r \in ApiCall :
            /\ apiCall'[r].token <= Len(tokenOf') /\ ~apiCall'[r].waiting
            /\ apiCall'[r].kind # "none" => apiCall'[r].person \in Person
      BY <2>1, <2>3, <3>1 DEF TokensHeld
    <3> QED
      BY <2>1, <3>2, <3>3 DEF TokensHeld
  <2>8. ASSUME ~mixed PROVE OnePerson'
    BY <2>1, <2>2, <2>3, <2>8, <1>t DEF ClientInv, OnePerson
  <2> QED
    BY <2>1, <2>6, <2>7, <2>8 DEF ClientInv
<1> QED
  BY <1>1, <1>2, <1>3

LEMMA ClientInvStep == ClientInv /\ [ClientNext]_clientVars => ClientInv'
<1> SUFFICES ASSUME ClientInv, [ClientNext]_clientVars PROVE ClientInv'
  OBVIOUS
<1>1. CASE UNCHANGED clientVars
  BY <1>1 DEF clientVars, ClientInv, ClientTypeOK, TokensHeld, OnePerson
<1>2. CASE SignOut
  BY <1>2, ClientTyped, SessionForgotten DEF SignOut
<1> QED
  BY <1>1, <1>2, AuthSteps, ApiSteps, RefreshSteps DEF ClientNext

(* For any accounts and any number of requests in flight: until accounts are  *)
(* mixed up, a tab belongs to one person.                                     *)
THEOREM TabStaysWithOnePerson == ClientSpec => []TabOfOnePerson
<1>1. ClientInv => TabOfOnePerson
  BY DEF ClientInv, OnePerson, TabOfOnePerson
<1> QED
  BY <1>1, ClientInvInit, ClientInvStep, PTL DEF ClientSpec

-----------------------------------------------------------------------------
(* The services together *)

ServicesInv ==
  /\ CreditableInv /\ PayoutInv /\ AcceptanceInv /\ CampaignTyped
  /\ ReviewsInv /\ SocialInv /\ LeasesInv /\ EventDeliveryInv /\ SurvivalInv
  /\ SessionsInv /\ resetTokens \subseteq Version /\ ClientInv

(* A step of the services is a step or a stutter of each of them.             *)
LEMMA OneServiceMoves ==
  ASSUME [ServicesNext]_allVars
  PROVE  /\ [TopUpNext]_topUpVars /\ [PayoutNext]_payoutVars
         /\ [AcceptanceNext]_acceptanceVars /\ [ReviewsNext]_reviewVars
         /\ [SocialNext]_socialVars /\ [LeasesNext]_leaseVars
         /\ [EventDeliveryNext]_deliveryVars /\ [SessionsNext]_sessionVars
         /\ [ClientNext]_clientVars
  BY DEF ServicesNext, allVars, TopUpMoves, PayoutMoves, AcceptanceMoves, ReviewsMove,
         SocialMoves, LeasesMove, EventDeliveryMoves, SessionsMove, ClientMoves

LEMMA ServicesInvInit == ServicesInit => ServicesInv
<1>1. SessionsInit => resetTokens \subseteq Version
  BY DEF SessionsInit
<1> QED
  BY <1>1, CreditableInvInit, PayoutInvInit, AcceptanceInvInit, ReviewsInvInit, SocialInvInit,
     LeasesInvInit, EventDeliveryInvInit, SurvivalInvInit, SessionsInvInit, ClientInvInit
  DEF ServicesInit, ServicesInv

LEMMA ServicesInvStep == ServicesInv /\ [ServicesNext]_allVars => ServicesInv'
<1> SUFFICES ASSUME ServicesInv, [ServicesNext]_allVars PROVE ServicesInv'
  OBVIOUS
<1>1. AcceptanceInv' /\ CampaignTyped'
  BY OneServiceMoves, AcceptanceStep, CampaignStaysTyped DEF ServicesInv, AcceptanceGoal
<1>2. CreditableInv' /\ PayoutInv' /\ ReviewsInv' /\ SocialInv' /\ LeasesInv'
  BY OneServiceMoves, CreditableInvStep, PayoutInvStep, ReviewsInvStep, SocialInvStep,
     LeasesInvStep DEF ServicesInv
<1>3. EventDeliveryInv' /\ SurvivalInv' /\ SessionsInv' /\ resetTokens' \subseteq Version
      /\ ClientInv'
  BY OneServiceMoves, EventDeliveryInvStep, SurvivalInvStep, SessionsInvStep, ResetTokensTyped,
     ClientInvStep DEF ServicesInv
<1> QED
  BY <1>1, <1>2, <1>3 DEF ServicesInv

(* In every instance the state of the services has its types.                 *)
THEOREM ServicesTypeCorrect == ServicesSpec => []ServicesTypeOK
<1>1. ServicesInv => ServicesTypeOK
  <2> SUFFICES ASSUME ServicesInv PROVE ServicesTypeOK
    OBVIOUS
  <2>1. TopUpTypeOK /\ PayoutTypeOK /\ ReviewsTypeOK /\ SocialTypeOK /\ LeasesTypeOK
        /\ EventDeliveryTypeOK /\ ClientTypeOK
    BY DEF ServicesInv, CreditableInv, TopUpInv, PayoutInv, ReviewsInv, SocialInv, LeasesInv,
           SurvivalInv, ClientInv
  <2>2. AcceptanceTypeOK
    BY DEF ServicesInv, AcceptanceInv, CampaignTyped, AcceptanceTypeOK
  <2>3. SessionsTypeOK
    BY DEF ServicesInv, SessionsInv, TokensInv, RecoveryInv, SessionsTypeOK
  <2> QED
    BY <2>1, <2>2, <2>3 DEF ServicesTypeOK
<1> QED
  BY <1>1, ServicesInvInit, ServicesInvStep, PTL DEF ServicesSpec
==============================================================================

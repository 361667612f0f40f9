------------------------ MODULE EscrowPromise_proofs ------------------------
(***************************************************************************)
(* What follows from the agreement of payment rows and ledger: a settled   *)
(* payment changes again only by an award, never by a current one, and     *)
(* every step but a stale award is a step of Custody or leaves custody     *)
(* alone.                                                                  *)
(***************************************************************************)
EXTENDS EscrowLedger_proofs

(* Once a payment is released or refunded in full, only the write of an    *)
(* award touches it.                                                       *)
LEMMA SettledUntouched ==
  ASSUME TypeInv, [Next]_vars, NEW c \in Collab,
         payment[c].status \in {"RELEASED", "REFUNDED"},
         Accounted(payment[c], book[c], status[c]),
         \A k \in Case : ~AwardWrite(c, k)
  PROVE  payment'[c] = payment[c] /\ book'[c] = book[c]
<1>1. payment[c] \in Payment /\ ~IsHeld(payment[c])
  BY RowTypes DEF IsHeld
<1>2. ASSUME NEW d \in Collab, MoneyStep(d)
      PROVE  payment'[c] = payment[c] /\ book'[c] = book[c]
  <2>1. CASE d # c
    BY <1>2, <2>1 DEF MoneyStep, Fund, Release, ReleaseAgain, Refund, TypeInv, TypeOK
  <2>2. CASE d = c
    <3>1. ASSUME NEW rate \in CommissionRates, NEW fee \in BarterFees,
                 Fund(c, rate, fee)
          PROVE  FALSE
      BY <3>1 DEF Fund, Accounted
    <3>2. ASSUME Release(c)
          PROVE  FALSE
      BY <1>1, <3>2 DEF Release
    <3>3. ASSUME NEW percent \in RefundPercents,
                 NEW x \in 1 .. (payment[c].amount - payment[c].refunded),
                 Refund(c, x, percent)
          PROVE  FALSE
      <4>1. payment[c].status = "REFUNDED"
        BY <3>3 DEF Refund
      <4>2. payment[c].amount <= payment[c].refunded
        BY <4>1 DEF Accounted
      <4>3. payment[c].amount \in Nat /\ payment[c].refunded \in Nat
        BY <1>1 DEF Payment
      <4> QED
        BY <4>2, <4>3
    <3>4. ReleaseAgain(c) => payment'[c] = payment[c] /\ book'[c] = book[c]
      BY DEF ReleaseAgain
    <3> QED
      BY <1>2, <2>2, <3>1, <3>2, <3>3, <3>4 DEF MoneyStep
  <2> QED
    BY <2>1, <2>2
<1>3. ASSUME NEW d \in Collab, NEW k \in Case, DisputeStep(d, k)
      PROVE  payment'[c] = payment[c] /\ book'[c] = book[c]
  <2>1. CASE AwardWrite(d, k)
    <3>1. d # c
      BY <2>1
    <3> QED
      BY <2>1, <3>1 DEF AwardWrite, TypeInv, TypeOK
  <2>2. CASE ~AwardWrite(d, k)
    BY <1>3, <2>2 DEF DisputeStep, OpenDisputeRead, FreezeContractRead,
         CreateDispute, EditCaseRead, EditCaseWrite, AwardRead, AwardAbort
  <2> QED
    BY <2>1, <2>2
<1> QED
  BY <1>2, <1>3 DEF Next, vars, TopUp, Progress, RetentionFailed

(* An award begins only for a payment that is held. *)
LEMMA AwardsBegin ==
  ASSUME TypeInv, [Next]_vars, NEW c \in Collab, ~IsHeld(payment[c]), NEW k \in Case
  PROVE  award'[c][k] \in {award[c][k], NoAward}
<1>1. ASSUME NEW d \in Collab, NEW j \in Case, DisputeStep(d, j)
      PROVE  award'[c][k] \in {award[c][k], NoAward}
  <2>1. ASSUME NEW percent \in AwardPercents, AwardRead(d, j, percent)
        PROVE  award'[c][k] = award[c][k]
    <3>1. d # c
      BY <2>1 DEF AwardRead
    <3> QED
      BY <2>1, <3>1 DEF AwardRead, TypeInv, TypeOK
  <2>2. ASSUME AwardWrite(d, j) \/ AwardAbort(d, j)
        PROVE  award'[c][k] \in {award[c][k], NoAward}
    <3>1. award' = [award EXCEPT ![d] = [award[d] EXCEPT ![j] = NoAward]]
      BY <2>2 DEF AwardWrite, AwardAbort
    <3>2. award \in [Collab -> [Case -> [read : Payment, percent : 0 .. 100]]]
      BY DEF TypeInv, TypeOK
    <3> QED
      BY <3>1, <3>2
  <2>3. ASSUME NEW new, \/ OpenDisputeRead(d, j) \/ FreezeContractRead(d, j)
                        \/ CreateDispute(d, j) \/ EditCaseRead(d, j, new)
                        \/ EditCaseWrite(d, j)
        PROVE  award' = award
    BY <2>3 DEF OpenDisputeRead, FreezeContractRead, CreateDispute, EditCaseRead,
       EditCaseWrite
  <2> QED
    BY <1>1, <2>1, <2>2, <2>3 DEF DisputeStep
<1>2. ASSUME NEW d \in Collab, MoneyStep(d)
      PROVE  award' = award
  BY <1>2 DEF MoneyStep, Fund, Release, ReleaseAgain, Refund
<1> QED
  BY <1>1, <1>2 DEF Next, vars, TopUp, Progress, RetentionFailed

(* As long as no award is stale, nothing settles a payment a second time.  *)
THEOREM SettlementIsFinal == Spec /\ [][AwardsCurrent]_vars => SettledIsFinal
<1>1. TypeInv /\ LedgerInv /\ [Next]_vars /\ [AwardsCurrent]_vars
        => [\A c \in Collab :
              payment[c].status \in {"RELEASED", "REFUNDED"}
                => payment'[c] = payment[c] /\ book'[c] = book[c]]_vars
  <2> SUFFICES ASSUME TypeInv, LedgerInv, [Next]_vars, AwardsCurrent, NEW c \in Collab,
                      payment[c].status \in {"RELEASED", "REFUNDED"}
               PROVE  payment'[c] = payment[c] /\ book'[c] = book[c]
    OBVIOUS
  <2>1. ASSUME NEW k \in Case, AwardWrite(c, k)
        PROVE  FALSE
    <3>1. payment[c] = award[c][k].read /\ AwardInFlight(c, k)
      BY <2>1 DEF AwardsCurrent, StaleAward, AwardWrite
    <3> QED
      BY <3>1 DEF TypeInv, AwardsReadHeld, IsHeld
  <2>2. Accounted(payment[c], book[c], status[c])
    BY RowTypes, ConsistentIsAccounted DEF LedgerInv, Sound
  <2> QED
    BY <2>1, <2>2, SettledUntouched
<1> QED
  BY <1>1, LedgerAgrees, PTL DEF Spec, SettledIsFinal

(* A payment that was released or refunded in full, of which no award is   *)
(* in flight.                                                              *)
Over(c) ==
  /\ payment[c].status \in {"RELEASED", "REFUNDED"}
  /\ \A k \in Case : ~AwardInFlight(c, k)

(* Stale awards or not, such a payment never changes again: neither refund *)
(* nor release (wallet.service.js) settles it a second time, and no award  *)
(* begins (dispute.service.js:99).  Only an award that read it earlier can.*)
OnlyAwardsResettle ==
  [][\A c \in Collab :
       Over(c) => Over(c)' /\ payment'[c] = payment[c] /\ book'[c] = book[c]]_vars

THEOREM ResettledOnlyByAwards == Spec => OnlyAwardsResettle
<1>1. TypeInv /\ StaleInv /\ [Next]_vars
        => [\A c \in Collab :
              Over(c) => Over(c)' /\ payment'[c] = payment[c]
                                 /\ book'[c] = book[c]]_vars
  <2> SUFFICES ASSUME TypeInv, StaleInv, [Next]_vars, NEW c \in Collab, Over(c)
               PROVE  Over(c)' /\ payment'[c] = payment[c] /\ book'[c] = book[c]
    OBVIOUS
  <2>1. \A k \in Case : ~AwardWrite(c, k)
    BY DEF AwardWrite, Over
  <2>2. Accounted(payment[c], book[c], status[c])
    BY DEF StaleInv, IsSound, Sound
  <2>3. payment'[c] = payment[c] /\ book'[c] = book[c]
    BY <2>1, <2>2, SettledUntouched DEF Over
  <2>4. ASSUME NEW k \in Case
        PROVE  award'[c][k] = NoAward
    BY AwardsBegin DEF Over, AwardInFlight, IsHeld
  <2> QED
    BY <2>3, <2>4 DEF Over, AwardInFlight, NoAward, NoPayment
<1> QED
  BY <1>1, StaleAlways, PTL DEF Spec, OnlyAwardsResettle
-----------------------------------------------------------------------------
(* The variables of Custody as functions of the ledger. *)
Held     == [c \in Collab |-> book[c].pending + book[c].platform]
Paid     == [c \in Collab |-> book[c].available + book[c].earned]
Returned == [c \in Collab |-> book[c].returned]

(* How a consistent payment is held, paid out or returned.                 *)
LEMMA MoneyOf ==
  ASSUME NEW p \in Payment, NEW b \in Book, NEW r, NEW s, Consistent(p, b, r, s)
  PROVE  /\ b.pending + b.platform = IF IsHeld(p) THEN p.creator + p.fee ELSE 0
         /\ b.available + b.earned
              = IF p.status = "RELEASED" THEN p.creator + p.fee ELSE 0
         /\ b.returned = p.refunded
         /\ p.amount = p.creator + p.fee + p.refunded
         /\ IsHeld(p) => p.creator + p.fee > 0
         /\ p.status = "NONE" => p.refunded = 0
         /\ p.creator \in Nat /\ p.fee \in Nat /\ p.refunded \in Nat
<1>1. /\ p.creator \in Nat /\ p.fee \in Nat /\ p.amount \in Nat /\ p.refunded \in Nat
  BY DEF Payment
<1>2. CASE IsHeld(p)
  BY <1>1, <1>2 DEF Consistent, IsHeld
<1>3. CASE ~IsHeld(p)
  BY <1>1, <1>3 DEF Consistent, IsHeld
<1> QED
  BY <1>2, <1>3

(* What is held of, paid from and returned of a payment.                   *)
HeldOf(p) == IF IsHeld(p) THEN p.creator + p.fee ELSE 0
PaidOf(p) == IF p.status = "RELEASED" THEN p.creator + p.fee ELSE 0

(* A step that replaces the book of one collaboration, seen from Custody.  *)
LEMMA CustodyOf ==
  ASSUME TypeInv, LedgerInv, TypeInv', LedgerInv', NEW c \in Collab,
         book' = [book EXCEPT ![c] = book'[c]]
  PROVE  /\ Held' = [Held EXCEPT ![c] = Held'[c]]
         /\ Paid' = [Paid EXCEPT ![c] = Paid'[c]]
         /\ Returned' = [Returned EXCEPT ![c] = Returned'[c]]
         /\ Held[c] = HeldOf(payment[c]) /\ Held'[c] = HeldOf(payment'[c])
         /\ Paid[c] = PaidOf(payment[c]) /\ Paid'[c] = PaidOf(payment'[c])
         /\ Returned[c] = payment[c].refunded /\ Returned'[c] = payment'[c].refunded
         /\ Held \in [Collab -> Int] /\ Paid \in [Collab -> Int]
         /\ Returned \in [Collab -> Int]
<1>1. /\ Consistent(payment[c], book[c], revenue[c], status[c])
      /\ Consistent(payment'[c], book'[c], revenue'[c], status'[c])
  BY DEF LedgerInv, Consistent, IsHeld
<1>2. payment[c] \in Payment /\ book[c] \in Book
  BY RowTypes
<1>3. payment'[c] \in Payment /\ book'[c] \in Book
  BY DEF TypeInv, TypeOK
<1>4. /\ book[c].pending + book[c].platform = HeldOf(payment[c])
      /\ book[c].available + book[c].earned = PaidOf(payment[c])
      /\ book[c].returned = payment[c].refunded
  BY <1>1, <1>2, MoneyOf DEF HeldOf, PaidOf
<1>5. /\ book'[c].pending + book'[c].platform = HeldOf(payment'[c])
      /\ book'[c].available + book'[c].earned = PaidOf(payment'[c])
      /\ book'[c].returned = payment'[c].refunded
  BY <1>1, <1>3, MoneyOf DEF HeldOf, PaidOf
<1>6. /\ Held' = [Held EXCEPT ![c] = Held'[c]]
      /\ Paid' = [Paid EXCEPT ![c] = Paid'[c]]
      /\ Returned' = [Returned EXCEPT ![c] = Returned'[c]]
  BY DEF Held, Paid, Returned, TypeInv, TypeOK
<1>7. /\ Held \in [Collab -> Int] /\ Paid \in [Collab -> Int]
      /\ Returned \in [Collab -> Int]
  <2>1. ASSUME NEW d \in Collab
        PROVE  /\ book[d].pending + book[d].platform \in Int
               /\ book[d].available + book[d].earned \in Int
               /\ book[d].returned \in Int
    BY RowTypes DEF Book
  <2> QED
    BY <2>1 DEF Held, Paid, Returned
<1> QED
  BY <1>4, <1>5, <1>6, <1>7 DEF Held, Paid, Returned

(* Custody's steps, read with Held, Paid and Returned for its variables.   *)
LEMMA CustodySteps ==
  ASSUME NEW c \in Collab
  PROVE  /\ Promise!Fund(c) <=>
              /\ Held[c] = 0 /\ Paid[c] = 0 /\ Returned[c] = 0
              /\ Held'[c] \in 1 .. wallet[Owner[c]]
              /\ wallet' = [wallet EXCEPT ![Owner[c]] = @ - Held'[c]]
              /\ Held' = [Held EXCEPT ![c] = Held'[c]]
              /\ Paid' = Paid /\ Returned' = Returned
         /\ Promise!Return(c) <=>
              /\ Held[c] - Held'[c] \in 1 .. Held[c]
              /\ wallet' = [wallet EXCEPT ![Owner[c]] = @ + (Held[c] - Held'[c])]
              /\ Held' = [Held EXCEPT ![c] = @ - (Held[c] - Held'[c])]
              /\ Returned' = [Returned EXCEPT ![c] = @ + (Held[c] - Held'[c])]
              /\ Paid' = Paid
         /\ Promise!Settle(c) <=>
              /\ Held[c] > 0 /\ Paid[c] = 0
              /\ Held[c] - Paid'[c] \in 0 .. Held[c]
              /\ wallet' = [wallet EXCEPT ![Owner[c]] = @ + (Held[c] - Paid'[c])]
              /\ Held' = [Held EXCEPT ![c] = 0]
              /\ Paid' = [Paid EXCEPT ![c] = Held[c] - (Held[c] - Paid'[c])]
              /\ Returned' = [Returned EXCEPT ![c] = @ + (Held[c] - Paid'[c])]
BY DEF Promise!Fund, Promise!Return, Promise!Settle, Held, Paid, Returned

LEMMA FundKeeps ==
  ASSUME TypeInv, LedgerInv, NEW c \in Collab, NEW rate \in CommissionRates,
         NEW barterFee \in BarterFees, Fund(c, rate, barterFee)
  PROVE  Promise!Fund(c)
<1> DEFINE f == CollaborationFinance(TermsOf[c], rate, barterFee)
<1>1. TypeInv' /\ LedgerInv'
  BY FundType, FundStep, OneCollaboration DEF LedgerInv, IsConsistent
<1>2. /\ status[c] = "PAYMENT_PENDING"
      /\ f.payable \in 1 .. wallet[Owner[c]]
      /\ wallet' = [wallet EXCEPT ![Owner[c]] = @ - f.payable]
      /\ payment' = [payment EXCEPT ![c] =
                       [status |-> "FUNDED", amount |-> f.payable,
                        creator |-> f.creator, fee |-> f.fee, refunded |-> 0]]
      /\ book' = [book EXCEPT ![c] = Posted(book[c], FundingBatch(f))]
  BY DEF Fund
<1>3. f.creator + f.fee = f.payable
  <2>1. /\ TermsOf[c] \in [kind : {"PAID", "BARTER", "HYBRID"}, cash : Nat]
        /\ rate \in 0 .. 100 /\ barterFee \in Nat
    BY EscrowAssumption
  <2> QED
    BY <2>1, FundingSplitIsExact
<1> HIDE DEF f
<1>4. book' = [book EXCEPT ![c] = book'[c]]
  BY <1>2 DEF TypeInv, TypeOK
<1>5. /\ payment[c].status = "NONE" /\ payment[c].refunded = 0
  <2>1. Consistent(payment[c], book[c], revenue[c], "PAYMENT_PENDING")
    BY <1>2 DEF LedgerInv
  <2>2. payment[c].status = "NONE"
    BY <2>1 DEF Consistent
  <2>3. payment[c] \in Payment /\ book[c] \in Book
    BY RowTypes
  <2> QED
    BY <2>1, <2>2, <2>3, MoneyOf
<1>6. HeldOf(payment[c]) = 0 /\ PaidOf(payment[c]) = 0
  BY <1>5 DEF HeldOf, PaidOf, IsHeld
<1>7. HeldOf(payment'[c]) = f.payable /\ PaidOf(payment'[c]) = 0
      /\ payment'[c].refunded = 0
  BY <1>2, <1>3 DEF HeldOf, PaidOf, IsHeld, TypeInv, TypeOK
<1>8. /\ Held[c] = 0 /\ Paid[c] = 0 /\ Returned[c] = 0
      /\ Held'[c] = f.payable /\ Paid'[c] = 0 /\ Returned'[c] = 0
      /\ Held' = [Held EXCEPT ![c] = Held'[c]]
  BY <1>1, <1>4, <1>5, <1>6, <1>7, CustodyOf
<1>9. Paid' = Paid /\ Returned' = Returned
  BY <1>1, <1>4, <1>8, CustodyOf
<1> QED
  BY <1>2, <1>8, <1>9, CustodySteps

LEMMA ReleaseKeeps ==
  ASSUME TypeInv, LedgerInv, NEW c \in Collab, Release(c)
  PROVE  Promise!Settle(c)
<1> DEFINE p == payment[c]
           h == p.creator + p.fee
<1>1. TypeInv' /\ LedgerInv'
  BY ReleaseType, ReleaseStep, OneCollaboration DEF LedgerInv, IsConsistent
<1>2. /\ IsHeld(p) /\ wallet' = wallet
      /\ payment' = [payment EXCEPT ![c] = [p EXCEPT !.status = "RELEASED"]]
      /\ book' = [book EXCEPT ![c] = book'[c]]
  BY DEF Release, TypeInv, TypeOK
<1>3. h \in Nat /\ h > 0
  <2>1. Consistent(p, book[c], revenue[c], status[c])
    BY DEF LedgerInv
  <2> QED
    BY <1>2, <2>1, RowTypes, MoneyOf
<1>4. /\ HeldOf(p) = h /\ PaidOf(p) = 0 /\ HeldOf(payment'[c]) = 0
      /\ PaidOf(payment'[c]) = h /\ payment'[c].refunded = p.refunded
  <2>1. p \in Payment
    BY RowTypes
  <2>2. payment'[c] = [p EXCEPT !.status = "RELEASED"]
    BY <1>2 DEF TypeInv, TypeOK
  <2> QED
    BY <1>2, <2>1, <2>2 DEF HeldOf, PaidOf, IsHeld, Payment
<1> HIDE DEF h
<1>5. /\ Held[c] = h /\ Paid[c] = 0 /\ Held'[c] = 0 /\ Paid'[c] = h
      /\ Returned'[c] = Returned[c]
      /\ Held' = [Held EXCEPT ![c] = Held'[c]] /\ Paid' = [Paid EXCEPT ![c] = Paid'[c]]
      /\ Returned' = [Returned EXCEPT ![c] = Returned'[c]]
      /\ Returned \in [Collab -> Int]
  BY <1>1, <1>2, <1>4, CustodyOf
<1>6. Owner[c] \in User /\ wallet \in [User -> Nat]
  BY EscrowAssumption DEF TypeInv, TypeOK
<1>7. /\ h - h = 0 /\ h - 0 = h /\ Held[c] - Paid'[c] = 0
      /\ Held[c] - (Held[c] - Paid'[c]) = h
  BY <1>3, <1>5
<1>8. /\ wallet' = [wallet EXCEPT ![Owner[c]] = @ + (Held[c] - Paid'[c])]
      /\ Returned' = [Returned EXCEPT ![c] = @ + (Held[c] - Paid'[c])]
  <2>1. wallet = [wallet EXCEPT ![Owner[c]] = @ + 0]
    BY <1>6
  <2>2. Returned' = [Returned EXCEPT ![c] = @ + 0]
    BY <1>5
  <2> QED
    BY <1>2, <1>7, <2>1, <2>2
<1>9. /\ Held' = [Held EXCEPT ![c] = 0]
      /\ Paid' = [Paid EXCEPT ![c] = Held[c] - (Held[c] - Paid'[c])]
      /\ Held[c] > 0 /\ Paid[c] = 0 /\ Held[c] - Paid'[c] \in 0 .. Held[c]
  BY <1>3, <1>5, <1>7
<1> QED
  BY <1>8, <1>9, CustodySteps

LEMMA RefundKeeps ==
  ASSUME TypeInv, LedgerInv, NEW c \in Collab, NEW percent \in RefundPercents,
         NEW x \in 1 .. (payment[c].amount - payment[c].refunded),
         Refund(c, x, percent)
  PROVE  Promise!Return(c)
<1> DEFINE p == payment[c]
           creator == RefundCreatorShare(p.creator, x, p.amount - p.refunded)
           platform == x - creator
           full == p.refunded + x = p.amount
           h == p.creator + p.fee
           q == payment'[c]
<1>1. TypeInv' /\ LedgerInv'
  BY RefundType, RefundStep, OneCollaboration DEF LedgerInv, IsConsistent
<1>2. /\ p.status \notin {"NONE", "RELEASED"}
      /\ payment' = [payment EXCEPT ![c] =
           [p EXCEPT !.status   = IF full THEN "REFUNDED" ELSE "PARTIALLY_REFUNDED",
                     !.creator  = @ - creator,
                     !.fee      = @ - platform,
                     !.refunded = @ + x]]
      /\ book' = [book EXCEPT ![c] = Posted(book[c], RefundBatch(creator, platform))]
      /\ wallet' = [wallet EXCEPT ![Owner[c]] = @ + x]
  BY DEF Refund
<1>3. p \in Payment /\ book[c] \in Book /\ book' = [book EXCEPT ![c] = book'[c]]
  BY <1>2, RowTypes DEF TypeInv, TypeOK
<1>4. /\ p.creator \in Nat /\ p.fee \in Nat /\ p.refunded \in Nat /\ x \in Nat
      /\ p.amount = h + p.refunded /\ x > 0 /\ x <= h
      /\ creator \in Nat /\ creator <= p.creator
  <2>1. Consistent(p, book[c], revenue[c], status[c])
    BY DEF LedgerInv
  <2>2. /\ p.creator \in Nat /\ p.fee \in Nat /\ p.refunded \in Nat
        /\ p.amount = h + p.refunded
    BY <1>3, <2>1, MoneyOf
  <2>3. x \in Nat /\ x > 0 /\ x <= h
    BY <2>2
  <2>4. creator \in 0 .. p.creator
    BY <1>3, RefundShare
  <2> QED
    BY <2>2, <2>3, <2>4
<1>5. IsHeld(p)
  <2>1. p.status # "REFUNDED"
    <3> SUFFICES ASSUME p.status = "REFUNDED" PROVE FALSE
      OBVIOUS
    <3>1. p.creator = 0 /\ p.fee = 0
      BY DEF LedgerInv, Consistent
    <3> QED
      BY <1>4, <3>1
  <2> QED
    BY <1>2, <1>3, <2>1 DEF IsHeld, Payment, PaymentStatus
<1>6. /\ q.status = IF full THEN "REFUNDED" ELSE "PARTIALLY_REFUNDED"
      /\ q.creator = p.creator - creator /\ q.fee = p.fee - platform
      /\ q.refunded = p.refunded + x
  <2>1. q = [p EXCEPT !.status   = IF full THEN "REFUNDED" ELSE "PARTIALLY_REFUNDED",
                      !.creator  = @ - creator,
                      !.fee      = @ - platform,
                      !.refunded = @ + x]
    BY <1>2 DEF TypeInv, TypeOK
  <2> QED
    BY <1>3, <2>1 DEF Payment
<1>7. full <=> h - x = 0
  BY <1>4
<1>8. q.creator + q.fee = h - x
  BY <1>4, <1>6
<1>9. HeldOf(p) = h /\ PaidOf(p) = 0 /\ PaidOf(q) = 0
  BY <1>2, <1>5, <1>6 DEF HeldOf, PaidOf
<1>10. HeldOf(q) = h - x
  BY <1>6, <1>7, <1>8 DEF HeldOf, IsHeld
<1> HIDE DEF p, q, h, creator, platform, full
<1>11. /\ Held[c] = h /\ Held'[c] = h - x /\ Paid'[c] = Paid[c]
       /\ Returned'[c] = Returned[c] + x
       /\ Held' = [Held EXCEPT ![c] = Held'[c]] /\ Paid' = [Paid EXCEPT ![c] = Paid'[c]]
       /\ Returned' = [Returned EXCEPT ![c] = Returned'[c]]
       /\ Paid \in [Collab -> Int]
  BY <1>1, <1>3, <1>6, <1>9, <1>10, CustodyOf DEF p, q
<1>12. h \in Nat
  BY <1>4 DEF h
<1>13. Held[c] - Held'[c] = x /\ x \in 1 .. Held[c]
  BY <1>4, <1>11, <1>12
<1>14. Paid' = Paid
  BY <1>11
<1>15. Held' = [Held EXCEPT ![c] = @ - x]
  BY <1>11
<1>16. Returned' = [Returned EXCEPT ![c] = @ + x]
  BY <1>11
<1> QED
  BY <1>2, <1>13, <1>14, <1>15, <1>16, CustodySteps

LEMMA AwardKeeps ==
  ASSUME TypeInv, LedgerInv, NEW c \in Collab, NEW k \in Case, AwardWrite(c, k),
         ~StaleAward(c, k)
  PROVE  Promise!Settle(c)
<1> DEFINE p == payment[c]
           percent == award[c][k].percent
           a == DisputeAward(p.creator + p.fee, p.fee, percent)
           h == p.creator + p.fee
           q == payment'[c]
<1>1. TypeInv' /\ LedgerInv'
  BY AwardWriteType, AwardStep, OneCollaboration DEF LedgerInv, IsConsistent
<1>2. award[c][k].read = p /\ AwardInFlight(c, k)
  BY DEF AwardWrite, StaleAward
<1>3. /\ payment' = [payment EXCEPT ![c] = Awarded(p, a, percent > 0)]
      /\ wallet' = [wallet EXCEPT ![Owner[c]] = @ + a.business]
  BY <1>2 DEF AwardWrite
<1>4. book' = [book EXCEPT ![c] = book'[c]]
  BY DEF AwardWrite, TypeInv, TypeOK
<1>5. IsHeld(p) /\ p \in Payment /\ book[c] \in Book /\ percent \in 0 .. 100
  BY <1>2, RowTypes DEF TypeInv, TypeOK, AwardsReadHeld
<1>6. p.creator \in Nat /\ p.fee \in Nat /\ h \in Nat /\ h > 0
  <2>1. Consistent(p, book[c], revenue[c], status[c])
    BY DEF LedgerInv
  <2> QED
    BY <1>5, <2>1, MoneyOf
<1>7. /\ a.creator \in Nat /\ a.fee \in Nat /\ a.business \in 0 .. h
      /\ a.creator + a.fee = h - a.business
      /\ percent = 0 => a.creator = 0 /\ a.fee = 0
  <2> HIDE DEF p
  <2>1. /\ a.creator \in 0 .. p.creator /\ a.fee \in 0 .. p.fee /\ a.business \in 0 .. h
        /\ a.creator + a.fee + a.business = h
    BY <1>5, <1>6, AwardSplit
  <2>2. percent = 0 => a.creator = 0 /\ a.fee = 0
    BY <1>6, NothingAwarded
  <2> QED
    BY <1>6, <2>1, <2>2
<1>8. q = Awarded(p, a, percent > 0)
  BY <1>3 DEF TypeInv, TypeOK
<1> HIDE DEF p, q, h, a, percent
<1>9. HeldOf(q) = 0 /\ q.refunded = p.refunded + a.business
  BY <1>8 DEF Awarded, HeldOf, IsHeld
<1>10. PaidOf(q) = h - a.business
  <2>1. CASE percent > 0
    BY <1>7, <1>8, <2>1 DEF Awarded, PaidOf
  <2>2. CASE percent = 0
    BY <1>7, <1>8, <2>2 DEF Awarded, PaidOf
  <2> QED
    BY <1>5, <2>1, <2>2
<1>11. HeldOf(p) = h /\ PaidOf(p) = 0
  BY <1>5 DEF HeldOf, PaidOf, IsHeld, h
<1>12. /\ Held[c] = h /\ Held'[c] = 0 /\ Paid[c] = 0 /\ Paid'[c] = h - a.business
       /\ Returned'[c] = Returned[c] + a.business
       /\ Held' = [Held EXCEPT ![c] = Held'[c]] /\ Paid' = [Paid EXCEPT ![c] = Paid'[c]]
       /\ Returned' = [Returned EXCEPT ![c] = Returned'[c]]
  BY <1>1, <1>4, <1>9, <1>10, <1>11, CustodyOf DEF p, q
<1>13. /\ Held[c] - Paid'[c] = a.business /\ a.business \in 0 .. Held[c]
       /\ Held[c] > 0 /\ Paid[c] = 0
  BY <1>6, <1>7, <1>12
<1>14. Held' = [Held EXCEPT ![c] = 0]
  BY <1>12
<1>15. Paid' = [Paid EXCEPT ![c] = Held[c] - (Held[c] - Paid'[c])]
  BY <1>12, <1>13
<1>16. Returned' = [Returned EXCEPT ![c] = @ + a.business]
  BY <1>12
<1> QED
  BY <1>3, <1>13, <1>14, <1>15, <1>16, CustodySteps

(* The steps that move no money leave custody alone.                       *)
LEMMA CustodyUntouched ==
  ASSUME UNCHANGED <<wallet, book>>
  PROVE  UNCHANGED Promise!vars
BY DEF Promise!vars

LEMMA PromiseStep ==
  ASSUME TypeInv, LedgerInv, [Next /\ AwardsCurrent]_vars
  PROVE  [Promise!Next]_(Promise!vars)
<1>1. ASSUME NEW u \in User, NEW x \in TopUpAmounts, TopUp(u, x)
      PROVE  Promise!Deposit(u)
  <2>1. x \in Nat /\ x > 0
    BY EscrowAssumption
  <2>2. wallet' = [wallet EXCEPT ![u] = wallet'[u]] /\ wallet'[u] = wallet[u] + x
        /\ wallet[u] \in Nat
    BY <1>1 DEF TopUp, TypeInv, TypeOK
  <2>3. wallet'[u] > wallet[u]
    BY <2>1, <2>2
  <2> QED
    BY <1>1, <2>2, <2>3 DEF TopUp, Promise!Deposit
<1>2. ASSUME NEW c \in Collab, MoneyStep(c)
      PROVE  Promise!Fund(c) \/ Promise!Return(c) \/ Promise!Settle(c)
               \/ UNCHANGED Promise!vars
  <2>1. ReleaseAgain(c) => UNCHANGED Promise!vars
    BY CustodyUntouched DEF ReleaseAgain
  <2> QED
    BY <1>2, <2>1, FundKeeps, ReleaseKeeps, RefundKeeps DEF MoneyStep
<1>3. ASSUME NEW c \in Collab, NEW k \in Case, DisputeStep(c, k), AwardsCurrent
      PROVE  Promise!Settle(c) \/ UNCHANGED Promise!vars
  <2>1. CASE AwardWrite(c, k)
    BY <1>3, <2>1, AwardKeeps DEF AwardsCurrent
  <2>2. CASE ~AwardWrite(c, k)
    <3>1. UNCHANGED <<wallet, book>>
      BY <1>3, <2>2 DEF DisputeStep, OpenDisputeRead, FreezeContractRead,
           CreateDispute, EditCaseRead, EditCaseWrite, AwardRead, AwardAbort
    <3> QED
      BY <3>1, CustodyUntouched
  <2> QED
    BY <2>1, <2>2
<1>4. ASSUME NEW c \in Collab, NEW new \in {"IN_REVIEW", "PUBLISHED", "PROVEN"},
             Progress(c, new)
      PROVE  UNCHANGED Promise!vars
  BY <1>4, CustodyUntouched DEF Progress
<1>5. ASSUME NEW c \in Collab, RetentionFailed(c)
      PROVE  UNCHANGED Promise!vars
  BY <1>5, CustodyUntouched DEF RetentionFailed
<1>6. CASE UNCHANGED vars
  BY <1>6, CustodyUntouched DEF vars
<1> QED
  BY <1>1, <1>2, <1>3, <1>4, <1>5, <1>6 DEF Next, Promise!Next

(* Escrow implements Custody as long as no award is stale: in every        *)
(* interleaving money leaves custody only back to its wallet or in one     *)
(* settlement that empties custody.                                        *)
THEOREM EscrowKeepsPromise == Spec /\ [][AwardsCurrent]_vars => KeepsPromise
<1>1. Init => Promise!Init
  BY DEF Init, NoBook, Promise!Init
<1>2. TypeInv /\ LedgerInv /\ [Next]_vars /\ [AwardsCurrent]_vars
        => [Promise!Next]_(Promise!vars)
  BY PromiseStep
<1> QED
  BY <1>1, <1>2, LedgerAgrees, PTL DEF Spec, KeepsPromise, Promise!Spec

(* What a SERIALIZABLE resolveAward (dispute.service.js:81-152) would give:*)
(* then no award is stale and everything above holds without condition.    *)
THEOREM SerialAwardsSuffice ==
  ASSUME SerialAwards
  PROVE  Spec => /\ [](HeldMatchesLedger /\ EarnedAsRecorded /\ RevenueMatchesLedger)
                 /\ SettledIsFinal /\ KeepsPromise
<1>1. AwardsCurrent
  BY DEF AwardsCurrent, StaleAward, AwardWrite
<1>2. [Next]_vars => [AwardsCurrent]_vars
  BY <1>1
<1>3. Spec => [][AwardsCurrent]_vars
  BY <1>2, PTL DEF Spec
<1> QED
  BY <1>3, HeldIsLedger, EarningsAreRecorded, RevenueIsLedger, SettlementIsFinal,
     EscrowKeepsPromise, PTL
=============================================================================

------------------------ MODULE EscrowLedger_proofs ------------------------
(***************************************************************************)
(* The payment row, its ledger entries, its PlatformRevenue row and the    *)
(* status of its collaboration agree in every state up to the first award  *)
(* that is written on stale reads.  Such an award can only hit a payment   *)
(* that it or another request has settled; what remains true even then is  *)
(* proved after it, without any assumption on awards.                      *)
(***************************************************************************)
EXTENDS Escrow_proofs

(* The agreement for one collaboration: the inductive invariant.  Beyond   *)
(* what Escrow's invariants say, it records that the parts of a payment    *)
(* add up, that a held payment still holds something, and that a           *)
(* collaboration waiting for payment has none.                             *)
Consistent(p, b, r, s) ==
  /\ p.creator + p.fee + p.refunded = p.amount
  /\ IF IsHeld(p) THEN p.creator + p.fee > 0 /\ b.pending = p.creator /\ b.platform = p.fee
                  ELSE b.pending = 0 /\ b.platform = 0
  /\ IF p.status = "RELEASED" THEN b.available = p.creator /\ b.earned = p.fee
                              ELSE b.available = 0 /\ b.earned = 0
  /\ p.status \in {"NONE", "REFUNDED"} => p.creator = 0 /\ p.fee = 0
  /\ p.status = "NONE" => p.amount = 0
  /\ b.returned = p.refunded
  /\ r.amount = b.platform + b.earned
  /\ r.status = "NONE" => r.amount = 0
  /\ r.status = "PENDING" => b.earned = 0
  /\ r.status = "EARNED" => b.platform = 0
  /\ s = "COMPLETED" => p.status = "RELEASED"
  /\ s = "CANCELLED" => p.status = "REFUNDED"
  /\ s = "PAYMENT_PENDING" => p.status = "NONE"

LedgerInv ==
  \A c \in Collab : Consistent(payment[c], book[c], revenue[c], status[c])

(* An award is written for a payment that is no longer the one it read.    *)
StaleAward(c, k) == AwardWrite(c, k) /\ payment[c] # award[c][k].read

AwardsCurrent == \A c \in Collab, k \in Case : ~StaleAward(c, k)

(* A step writes the rows of one collaboration.                            *)
Writes(c, p, b, r, s) ==
  /\ payment' = [payment EXCEPT ![c] = p] /\ book' = [book EXCEPT ![c] = b]
  /\ revenue' = [revenue EXCEPT ![c] = r] /\ status' = [status EXCEPT ![c] = s]

WritesConsistent(c) ==
  \E p, b, r, s : Writes(c, p, b, r, s) /\ Consistent(p, b, r, s)

LEMMA LedgerInit == Init => LedgerInv
BY DEF Init, LedgerInv, Consistent, IsHeld, NoPayment, NoBook, NoRevenue

(* What a step that writes the rows of one collaboration makes of the rows *)
(* of all.                                                                 *)
LEMMA RowsWritten ==
  ASSUME TypeInv, NEW c \in Collab, NEW p, NEW b, NEW r, NEW s, Writes(c, p, b, r, s),
         NEW d \in Collab
  PROVE  IF d = c
           THEN payment'[d] = p /\ book'[d] = b /\ revenue'[d] = r /\ status'[d] = s
           ELSE /\ payment'[d] = payment[d] /\ book'[d] = book[d]
                /\ revenue'[d] = revenue[d] /\ status'[d] = status[d]
BY DEF Writes, TypeInv, TypeOK

LEMMA OneCollaboration ==
  ASSUME TypeInv, LedgerInv, NEW c \in Collab, WritesConsistent(c)
  PROVE  LedgerInv'
<1>1. PICK p, b, r, s : Writes(c, p, b, r, s) /\ Consistent(p, b, r, s)
  BY DEF WritesConsistent
<1> SUFFICES ASSUME NEW d \in Collab
             PROVE  Consistent(payment'[d], book'[d], revenue'[d], status'[d])
  BY DEF LedgerInv, Consistent, IsHeld
<1>2. CASE d = c
  BY <1>1, <1>2, RowsWritten
<1>3. CASE d # c
  BY <1>1, <1>3, RowsWritten DEF LedgerInv
<1> QED
  BY <1>2, <1>3

LEMMA FundConsistent ==
  ASSUME NEW p \in Payment, NEW b \in Book, NEW r \in Revenue,
         Consistent(p, b, r, "PAYMENT_PENDING"),
         NEW f \in [payable : Nat, creator : Nat, fee : Nat],
         f.payable = f.creator + f.fee, f.payable > 0
  PROVE  Consistent([status |-> "FUNDED", amount |-> f.payable,
                     creator |-> f.creator, fee |-> f.fee, refunded |-> 0],
                    Posted(b, FundingBatch(f)), RevenueCreated(r, f.fee),
                    "IN_PROGRESS")
<1>1. /\ b.pending = 0 /\ b.platform = 0 /\ b.available = 0 /\ b.earned = 0
      /\ b.returned = 0 /\ r.amount = 0
  <2>1. p.status = "NONE"
    BY DEF Consistent
  <2>2. /\ b.pending = 0 /\ b.platform = 0 /\ b.available = 0 /\ b.earned = 0
        /\ b.returned = p.refunded /\ p.amount = 0 /\ p.creator = 0 /\ p.fee = 0
        /\ p.creator + p.fee + p.refunded = p.amount /\ r.amount = b.platform + b.earned
    BY <2>1 DEF Consistent, IsHeld
  <2>3. p.refunded \in Nat
    BY DEF Payment
  <2> QED
    BY <2>2, <2>3
<1>2. f.creator \in Nat /\ f.fee \in Nat
  OBVIOUS
<1>3. Posted(b, FundingBatch(f))
        = [pending |-> f.creator, platform |-> f.fee, available |-> 0, earned |-> 0,
           returned |-> 0]
  BY <1>1, <1>2 DEF Posted, FundingBatch
<1>4. /\ RevenueCreated(r, f.fee).amount = f.fee
      /\ RevenueCreated(r, f.fee).status = "NONE" => f.fee = 0
      /\ RevenueCreated(r, f.fee).status = "EARNED" => f.fee = 0
  BY <1>1, <1>2 DEF RevenueCreated
<1> QED
  BY <1>2, <1>3, <1>4 DEF Consistent, IsHeld

LEMMA ReleaseConsistent ==
  ASSUME NEW p \in Payment, NEW b \in Book, NEW r \in Revenue, NEW s,
         Consistent(p, b, r, s), IsHeld(p)
  PROVE  Consistent([p EXCEPT !.status = "RELEASED"],
                    Posted(b, SettlementBatch(p)), RevenueReleased(r), "COMPLETED")
BY DEF Consistent, IsHeld, Payment, Book, Revenue, Posted, SettlementBatch,
       RevenueReleased

LEMMA RefundConsistent ==
  ASSUME NEW p \in Payment, NEW b \in Book, NEW r \in Revenue, NEW s,
         Consistent(p, b, r, s), p.status \notin {"NONE", "RELEASED"},
         NEW x \in 1 .. (p.amount - p.refunded),
         NEW creator, NEW platform, NEW full \in BOOLEAN,
         creator = RefundCreatorShare(p.creator, x, p.amount - p.refunded),
         platform = x - creator,
         full <=> p.refunded + x = p.amount
  PROVE  Consistent([p EXCEPT !.status   = IF full THEN "REFUNDED"
                                                   ELSE "PARTIALLY_REFUNDED",
                              !.creator  = @ - creator,
                              !.fee      = @ - platform,
                              !.refunded = @ + x],
                    Posted(b, RefundBatch(creator, platform)),
                    RevenueRefunded(r, platform, full),
                    IF full THEN "CANCELLED" ELSE s)
<1>1. /\ p.creator \in Nat /\ p.fee \in Nat /\ p.amount \in Nat /\ p.refunded \in Nat
      /\ b.pending \in Int /\ b.platform \in Int /\ b.available \in Int
      /\ b.earned \in Int /\ b.returned \in Int /\ r.amount \in Nat
  BY DEF Payment, Book, Revenue
<1>2. p.amount - p.refunded = p.creator + p.fee
  BY <1>1 DEF Consistent
<1>3. IsHeld(p)
  BY <1>1, <1>2 DEF Consistent, Payment, PaymentStatus, IsHeld
<1>4. creator \in 0 .. p.creator /\ platform \in 0 .. p.fee
  BY <1>1, <1>2, RefundSplitFits
<1>5. /\ b.pending = p.creator /\ b.platform = p.fee /\ b.available = 0 /\ b.earned = 0
      /\ b.returned = p.refunded /\ r.amount = p.fee
      /\ r.status = "NONE" => r.amount = 0
      /\ r.status = "EARNED" => p.fee = 0
  BY <1>1, <1>3 DEF Consistent, IsHeld
<1>10. x \in Nat /\ creator \in Nat /\ platform \in Nat /\ creator + platform = x
       /\ creator <= p.creator /\ platform <= p.fee
  BY <1>1, <1>4
<1>6. full <=> (p.creator - creator = 0 /\ p.fee - platform = 0)
  <2>1. full <=> x = p.creator + p.fee
    BY <1>1, <1>2, <1>10
  <2> QED
    BY <1>1, <1>10, <2>1
<1> DEFINE q == [p EXCEPT !.status   = IF full THEN "REFUNDED"
                                               ELSE "PARTIALLY_REFUNDED",
                          !.creator  = @ - creator,
                          !.fee      = @ - platform,
                          !.refunded = @ + x]
<1>7. /\ q.status = IF full THEN "REFUNDED" ELSE "PARTIALLY_REFUNDED"
      /\ q.creator = p.creator - creator /\ q.fee = p.fee - platform
      /\ q.refunded = p.refunded + x /\ q.amount = p.amount
  BY DEF Payment
<1> DEFINE t == RevenueRefunded(r, platform, full)
<1>8. /\ t.amount = p.fee - platform
      /\ t.status = "NONE" => t.amount = 0
      /\ t.status = "EARNED" => t.amount = 0
  BY <1>1, <1>4, <1>5, <1>6 DEF RevenueRefunded
<1> DEFINE e == Posted(b, RefundBatch(creator, platform))
<1>9. /\ e.pending = p.creator - creator /\ e.platform = p.fee - platform
      /\ e.available = 0 /\ e.earned = 0 /\ e.returned = p.refunded + x
  BY <1>1, <1>4, <1>5 DEF Posted, RefundBatch
<1> HIDE DEF q, t, e
<1>11. Consistent(q, e, t, IF full THEN "CANCELLED" ELSE s)
  <2>1. q.creator + q.fee + q.refunded = q.amount
    BY <1>1, <1>2, <1>4, <1>7, <1>10
  <2>2. CASE full
    BY <1>1, <1>4, <1>6, <1>7, <1>8, <1>9, <2>1, <2>2 DEF Consistent, IsHeld
  <2>3. CASE ~full
    <3>1. q.creator + q.fee > 0
      BY <1>1, <1>4, <1>6, <1>7, <1>10, <2>3
    <3>2. s \notin {"COMPLETED", "CANCELLED", "PAYMENT_PENDING"}
      BY <1>3 DEF Consistent, IsHeld
    <3>3. Consistent(q, e, t, s)
      <4>1. q.status = "PARTIALLY_REFUNDED"
        BY <1>7, <2>3
      <4>2. e.pending = q.creator /\ e.platform = q.fee /\ e.returned = q.refunded
        BY <1>7, <1>9
      <4>3. t.amount = e.platform + e.earned /\ (t.status = "EARNED" => e.platform = 0)
        BY <1>1, <1>8, <1>9, <1>10
      <4> QED
        BY <1>8, <1>9, <2>1, <3>1, <3>2, <4>1, <4>2, <4>3 DEF Consistent, IsHeld
    <3> QED
      BY <2>3, <3>3
  <2> QED
    BY <2>2, <2>3
<1> QED
  BY <1>11 DEF q, e, t

(* An award that gives the creator's side nothing leaves no fee either. *)
LEMMA NothingAwarded ==
  ASSUME NEW total \in Nat, total > 0, NEW fee \in 0 .. total
  PROVE  /\ DisputeAward(total, fee, 0).creator = 0
         /\ DisputeAward(total, fee, 0).fee = 0
<1>1. RoundHalfUp(total * 0, 100) = 0
  BY DEF RoundHalfUp
<1>2. RoundHalfUp(0 * fee, total) \in 0 .. 0
  BY RoundShareAtMost
<1>3. RoundHalfUp(0 * fee, total) = 0
  BY <1>2
<1> QED
  BY <1>1, <1>3 DEF DisputeAward

LEMMA AwardConsistent ==
  ASSUME NEW p \in Payment, NEW b \in Book, NEW r \in Revenue, NEW s,
         Consistent(p, b, r, s), IsHeld(p), NEW percent \in 0 .. 100,
         NEW a, a = DisputeAward(p.creator + p.fee, p.fee, percent)
  PROVE  Consistent(Awarded(p, a, percent > 0),
                    Posted(b, AwardBatch(a, NonNegative(p.creator - a.creator),
                                            NonNegative(p.fee - a.fee))),
                    RevenueAwarded(r, a.fee),
                    IF percent > 0 THEN "COMPLETED" ELSE "CANCELLED")
<1>1. /\ p.creator \in Nat /\ p.fee \in Nat /\ p.amount \in Nat /\ p.refunded \in Nat
      /\ b.pending \in Int /\ b.platform \in Int /\ b.available \in Int
      /\ b.earned \in Int /\ b.returned \in Int /\ r.amount \in Nat
  BY DEF Payment, Book, Revenue
<1>2. /\ p.creator + p.fee > 0 /\ p.creator + p.fee + p.refunded = p.amount
      /\ b.pending = p.creator /\ b.platform = p.fee /\ b.available = 0 /\ b.earned = 0
      /\ b.returned = p.refunded /\ r.amount = p.fee
      /\ r.status = "NONE" => r.amount = 0
  BY <1>1 DEF Consistent, IsHeld
<1>3. /\ a.creator \in 0 .. p.creator /\ a.fee \in 0 .. p.fee
      /\ a.business \in 0 .. (p.creator + p.fee)
      /\ a.creator + a.fee + a.business = p.creator + p.fee
  BY <1>2, AwardSplit
<1>4. /\ a.creator \in Nat /\ a.fee \in Nat /\ a.business \in Nat
      /\ a.creator <= p.creator /\ a.fee <= p.fee
  BY <1>1, <1>3
<1>5. percent = 0 => a.creator = 0 /\ a.fee = 0
  BY <1>1, <1>2, NothingAwarded
<1> DEFINE e == Posted(b, AwardBatch(a, NonNegative(p.creator - a.creator),
                                        NonNegative(p.fee - a.fee)))
           t == RevenueAwarded(r, a.fee)
           q == Awarded(p, a, percent > 0)
<1>6. /\ NonNegative(p.creator - a.creator) = p.creator - a.creator
      /\ NonNegative(p.fee - a.fee) = p.fee - a.fee
  BY <1>1, <1>4 DEF NonNegative
<1>7. /\ e.pending = 0 /\ e.platform = 0 /\ e.available = a.creator
      /\ e.earned = a.fee /\ e.returned = p.refunded + a.business
  BY <1>1, <1>2, <1>3, <1>4, <1>6 DEF Posted, AwardBatch
<1>8. t.amount = a.fee /\ t.status # "PENDING" /\ (t.status = "NONE" => a.fee = 0)
  <2>1. CASE r.status = "NONE"
    BY <1>1, <1>2, <1>4, <2>1 DEF RevenueAwarded
  <2>2. CASE r.status # "NONE"
    BY <1>4, <2>2 DEF RevenueAwarded
  <2> QED
    BY <2>1, <2>2
<1>9. /\ q.status = IF percent > 0 THEN "RELEASED" ELSE "REFUNDED"
      /\ q.creator = a.creator /\ q.fee = a.fee /\ q.amount = p.amount
      /\ q.refunded = p.refunded + a.business
  BY DEF Awarded
<1>10. q.creator + q.fee + q.refunded = q.amount
  BY <1>1, <1>2, <1>3, <1>4, <1>9
<1> HIDE DEF e, t, q
<1>11. CASE percent > 0
  <2>1. q.status = "RELEASED"
    BY <1>9, <1>11
  <2>2. t.amount = e.platform + e.earned
    BY <1>4, <1>7, <1>8
  <2>3. t.status = "NONE" => t.amount = 0
    BY <1>8
  <2>4. Consistent(q, e, t, "COMPLETED")
    BY <1>7, <1>8, <1>9, <1>10, <2>1, <2>2, <2>3 DEF Consistent, IsHeld
  <2> QED
    BY <1>11, <2>4 DEF e, t, q
<1>12. CASE percent = 0
  <2>1. q.status = "REFUNDED" /\ ~(percent > 0)
    BY <1>9, <1>12
  <2>2. Consistent(q, e, t, "CANCELLED")
    BY <1>5, <1>7, <1>8, <1>9, <1>10, <1>12, <2>1 DEF Consistent, IsHeld
  <2> QED
    BY <2>1, <2>2 DEF e, t, q
<1> QED
  BY <1>11, <1>12

(* The types of the rows of one collaboration. *)
LEMMA RowTypes ==
  ASSUME TypeInv, NEW c \in Collab
  PROVE  /\ payment[c] \in Payment /\ book[c] \in Book /\ revenue[c] \in Revenue
         /\ payment = [payment EXCEPT ![c] = payment[c]]
         /\ book = [book EXCEPT ![c] = book[c]]
         /\ revenue = [revenue EXCEPT ![c] = revenue[c]]
         /\ status = [status EXCEPT ![c] = status[c]]
BY DEF TypeInv, TypeOK

(* Each operation on a consistent payment leaves it consistent.            *)
IsConsistent(c) == Consistent(payment[c], book[c], revenue[c], status[c])

LEMMA FundStep ==
  ASSUME TypeInv, NEW c \in Collab, IsConsistent(c), NEW rate \in CommissionRates,
         NEW barterFee \in BarterFees, Fund(c, rate, barterFee)
  PROVE  WritesConsistent(c)
<1> DEFINE f == CollaborationFinance(TermsOf[c], rate, barterFee)
           p == [status |-> "FUNDED", amount |-> f.payable, creator |-> f.creator,
                 fee |-> f.fee, refunded |-> 0]
<1>1. /\ TermsOf[c] \in [kind : {"PAID", "BARTER", "HYBRID"}, cash : Nat]
      /\ rate \in 0 .. 100 /\ barterFee \in Nat
  BY EscrowAssumption
<1>2. f \in [payable : Nat, creator : Nat, fee : Nat] /\ f.payable = f.creator + f.fee
  BY <1>1, FundingSplitIsExact
<1> HIDE DEF f
<1>3. /\ f.payable \in 1 .. wallet[Owner[c]] /\ status[c] = "PAYMENT_PENDING"
      /\ payment' = [payment EXCEPT ![c] = p]
      /\ book' = [book EXCEPT ![c] = Posted(book[c], FundingBatch(f))]
      /\ revenue' = [revenue EXCEPT ![c] = RevenueCreated(revenue[c], f.fee)]
      /\ status' = [status EXCEPT ![c] = "IN_PROGRESS"]
  BY DEF Fund, f
<1>4. f.payable > 0
  BY <1>2, <1>3
<1>5. Consistent(payment[c], book[c], revenue[c], "PAYMENT_PENDING")
  BY <1>3 DEF IsConsistent
<1>6. Consistent(p, Posted(book[c], FundingBatch(f)),
                 RevenueCreated(revenue[c], f.fee), "IN_PROGRESS")
  BY <1>2, <1>4, <1>5, RowTypes, FundConsistent
<1> HIDE DEF p
<1> QED
  BY <1>3, <1>6 DEF WritesConsistent, Writes

LEMMA ReleaseStep ==
  ASSUME TypeInv, NEW c \in Collab, IsConsistent(c), Release(c)
  PROVE  WritesConsistent(c)
<1> DEFINE p == [payment[c] EXCEPT !.status = "RELEASED"]
<1>1. /\ IsHeld(payment[c])
      /\ payment' = [payment EXCEPT ![c] = p]
      /\ book' = [book EXCEPT ![c] = Posted(book[c], SettlementBatch(payment[c]))]
      /\ revenue' = [revenue EXCEPT ![c] = RevenueReleased(revenue[c])]
      /\ status' = [status EXCEPT ![c] = "COMPLETED"]
  BY DEF Release
<1>2. Consistent(p, Posted(book[c], SettlementBatch(payment[c])),
                 RevenueReleased(revenue[c]), "COMPLETED")
  BY <1>1, RowTypes, ReleaseConsistent DEF IsConsistent
<1> HIDE DEF p
<1> QED
  BY <1>1, <1>2 DEF WritesConsistent, Writes

LEMMA RefundStep ==
  ASSUME TypeInv, NEW c \in Collab, IsConsistent(c), NEW percent \in RefundPercents,
         NEW x \in 1 .. (payment[c].amount - payment[c].refunded),
         Refund(c, x, percent)
  PROVE  WritesConsistent(c)
<1> DEFINE p == payment[c]
           creator == RefundCreatorShare(p.creator, x, p.amount - p.refunded)
           platform == x - creator
           full == p.refunded + x = p.amount
           q == [p EXCEPT !.status   = IF full THEN "REFUNDED" ELSE "PARTIALLY_REFUNDED",
                          !.creator  = @ - creator,
                          !.fee      = @ - platform,
                          !.refunded = @ + x]
           s == IF full THEN "CANCELLED" ELSE status[c]
<1>1. /\ p.status \notin {"NONE", "RELEASED"}
      /\ payment' = [payment EXCEPT ![c] = q]
      /\ book' = [book EXCEPT ![c] = Posted(book[c], RefundBatch(creator, platform))]
      /\ revenue' = [revenue EXCEPT ![c] = RevenueRefunded(revenue[c], platform, full)]
      /\ status' = IF full THEN [status EXCEPT ![c] = "CANCELLED"] ELSE status
  BY DEF Refund
<1>2. status' = [status EXCEPT ![c] = s]
  BY <1>1, RowTypes
<1>3. Consistent(p, book[c], revenue[c], status[c])
  BY DEF IsConsistent
<1>4. p \in Payment /\ book[c] \in Book /\ revenue[c] \in Revenue /\ full \in BOOLEAN
  BY RowTypes
<1>5. x \in 1 .. (p.amount - p.refunded)
  OBVIOUS
<1>6. full <=> p.refunded + x = p.amount
  OBVIOUS
<1>7. /\ creator = RefundCreatorShare(p.creator, x, p.amount - p.refunded)
      /\ platform = x - creator
  OBVIOUS
<1> HIDE DEF p, creator, platform, full
<1>8. Consistent(q, Posted(book[c], RefundBatch(creator, platform)),
                 RevenueRefunded(revenue[c], platform, full), s)
  BY <1>1, <1>3, <1>4, <1>5, <1>6, <1>7, RefundConsistent
<1> HIDE DEF q, s
<1> QED
  BY <1>1, <1>2, <1>8 DEF WritesConsistent, Writes

LEMMA AwardStep ==
  ASSUME TypeInv, NEW c \in Collab, IsConsistent(c), NEW k \in Case, AwardWrite(c, k),
         ~StaleAward(c, k)
  PROVE  WritesConsistent(c)
<1> DEFINE p == payment[c]
           percent == award[c][k].percent
           a == DisputeAward(p.creator + p.fee, p.fee, percent)
           q == Awarded(p, a, percent > 0)
           e == Posted(book[c], AwardBatch(a, NonNegative(p.creator - a.creator),
                                              NonNegative(p.fee - a.fee)))
           s == IF percent > 0 THEN "COMPLETED" ELSE "CANCELLED"
<1>1. award[c][k].read = p /\ AwardInFlight(c, k)
  BY DEF AwardWrite, StaleAward
<1>2. /\ payment' = [payment EXCEPT ![c] = q]
      /\ book' = [book EXCEPT ![c] = e]
      /\ revenue' = [revenue EXCEPT ![c] = RevenueAwarded(revenue[c], a.fee)]
      /\ status' = [status EXCEPT ![c] = s]
  BY <1>1 DEF AwardWrite
<1>3. IsHeld(p)
  BY <1>1 DEF TypeInv, AwardsReadHeld
<1>4. percent \in 0 .. 100
  BY DEF TypeInv, TypeOK
<1>5. Consistent(p, book[c], revenue[c], status[c])
  BY DEF IsConsistent
<1>6. a = DisputeAward(p.creator + p.fee, p.fee, percent)
  OBVIOUS
<1> HIDE DEF percent, a
<1>7. Consistent(q, e, RevenueAwarded(revenue[c], a.fee), s)
  BY <1>3, <1>4, <1>5, <1>6, RowTypes, AwardConsistent
<1> HIDE DEF p, q, e, s
<1> QED
  BY <1>2, <1>7 DEF WritesConsistent, Writes

(* The steps that write only the status of a collaboration, or no row of   *)
(* its money at all.                                                       *)
LEMMA StatusStep ==
  ASSUME TypeInv, NEW c \in Collab,
         \/ ReleaseAgain(c)
         \/ \E new \in {"IN_REVIEW", "PUBLISHED", "PROVEN"} : Progress(c, new)
         \/ RetentionFailed(c)
  PROVE  \E s \in {"COMPLETED", "IN_REVIEW", "PUBLISHED", "PROVEN", "DISPUTED"} :
           /\ Writes(c, payment[c], book[c], revenue[c], s) /\ award' = award
           /\ s = "COMPLETED" => payment[c].status = "RELEASED"
<1>1. PICK s \in {"COMPLETED", "IN_REVIEW", "PUBLISHED", "PROVEN", "DISPUTED"} :
        /\ status' = [status EXCEPT ![c] = s]
        /\ s = "COMPLETED" => payment[c].status = "RELEASED"
  BY DEF ReleaseAgain, Progress, RetentionFailed
<1>2. UNCHANGED <<payment, book, revenue, award>>
  BY DEF ReleaseAgain, Progress, RetentionFailed
<1> QED
  BY <1>1, <1>2, RowTypes DEF Writes

LEMMA StatusConsistent ==
  ASSUME TypeInv, NEW c \in Collab, IsConsistent(c),
         \/ ReleaseAgain(c)
         \/ \E new \in {"IN_REVIEW", "PUBLISHED", "PROVEN"} : Progress(c, new)
         \/ RetentionFailed(c)
  PROVE  WritesConsistent(c)
<1>1. PICK s \in {"COMPLETED", "IN_REVIEW", "PUBLISHED", "PROVEN", "DISPUTED"} :
        /\ Writes(c, payment[c], book[c], revenue[c], s)
        /\ s = "COMPLETED" => payment[c].status = "RELEASED"
  BY StatusStep
<1>2. Consistent(payment[c], book[c], revenue[c], s)
  BY <1>1 DEF IsConsistent, Consistent
<1> QED
  BY <1>1, <1>2 DEF WritesConsistent

LEMMA UntouchedStep ==
  ASSUME LedgerInv, UNCHANGED <<payment, book, revenue, status>>
  PROVE  LedgerInv'
BY DEF LedgerInv, Consistent, IsHeld

LEMMA LedgerStep == TypeInv /\ LedgerInv /\ [Next /\ AwardsCurrent]_vars => LedgerInv'
<1> SUFFICES ASSUME TypeInv, LedgerInv, [Next /\ AwardsCurrent]_vars
             PROVE  LedgerInv'
  OBVIOUS
<1>1. \A c \in Collab : IsConsistent(c)
  BY DEF LedgerInv, IsConsistent
<1>2. ASSUME NEW u \in User, NEW x \in TopUpAmounts, TopUp(u, x)
      PROVE  LedgerInv'
  BY <1>2, UntouchedStep DEF TopUp
<1>3. ASSUME NEW c \in Collab, MoneyStep(c)
      PROVE  LedgerInv'
  BY <1>1, <1>3, FundStep, ReleaseStep, RefundStep, StatusConsistent, OneCollaboration
  DEF MoneyStep
<1>4. ASSUME NEW c \in Collab, NEW k \in Case, DisputeStep(c, k), AwardsCurrent
      PROVE  LedgerInv'
  <2>1. CASE AwardWrite(c, k)
    BY <1>1, <1>4, <2>1, AwardStep, OneCollaboration DEF AwardsCurrent
  <2>2. CASE ~AwardWrite(c, k)
    <3>1. UNCHANGED <<payment, book, revenue, status>>
      BY <1>4, <2>2 DEF DisputeStep, OpenDisputeRead, FreezeContractRead,
           CreateDispute, EditCaseRead, EditCaseWrite, AwardRead, AwardAbort
    <3> QED
      BY <3>1, UntouchedStep
  <2> QED
    BY <2>1, <2>2
<1>5. ASSUME NEW c \in Collab,
             \/ \E new \in {"IN_REVIEW", "PUBLISHED", "PROVEN"} : Progress(c, new)
             \/ RetentionFailed(c)
      PROVE  LedgerInv'
  BY <1>1, <1>5, StatusConsistent, OneCollaboration
<1>6. CASE UNCHANGED vars
  BY <1>6, UntouchedStep DEF vars
<1> QED
  BY <1>2, <1>3, <1>4, <1>5, <1>6 DEF Next

(* The inductive invariant holds as long as no award is stale.             *)
LEMMA LedgerAgrees == Spec /\ [][AwardsCurrent]_vars => [](TypeInv /\ LedgerInv)
<1>1. Init => TypeInv /\ LedgerInv
  BY TypeInit, LedgerInit
<1>2. TypeInv /\ LedgerInv /\ [Next]_vars /\ [AwardsCurrent]_vars => (TypeInv /\ LedgerInv)'
  BY TypeStep, LedgerStep
<1> QED
  BY <1>1, <1>2, PTL DEF Spec

(* wallet.service.js:221-414, dispute.service.js:81-152: in every          *)
(* interleaving, a held payment row says what the ledger still holds.      *)
THEOREM HeldIsLedger == Spec /\ [][AwardsCurrent]_vars => []HeldMatchesLedger
<1>1. TypeInv /\ LedgerInv => HeldMatchesLedger
  BY DEF LedgerInv, Consistent, HeldMatchesLedger
<1> QED
  BY <1>1, LedgerAgrees, PTL

(* Creator and platform earn exactly what a released payment row says.     *)
THEOREM EarningsAreRecorded == Spec /\ [][AwardsCurrent]_vars => []EarnedAsRecorded
<1>1. TypeInv /\ LedgerInv => EarnedAsRecorded
  BY DEF LedgerInv, Consistent, EarnedAsRecorded
<1> QED
  BY <1>1, LedgerAgrees, PTL

(* The PlatformRevenue rows agree with the platform's ledger accounts.     *)
THEOREM RevenueIsLedger == Spec /\ [][AwardsCurrent]_vars => []RevenueMatchesLedger
<1>1. TypeInv /\ LedgerInv => RevenueMatchesLedger
  BY DEF LedgerInv, Consistent, RevenueMatchesLedger
<1> QED
  BY <1>1, LedgerAgrees, PTL
-----------------------------------------------------------------------------
(***************************************************************************)
(* Awards on stale reads.  resolveAward writes a payment that another      *)
(* operation may have refunded, released or awarded since it was read; the *)
(* row then no longer says what the ledger holds.  What remains true in    *)
(* every state of the code as it is: the books of a payment add up to its  *)
(* amount and its status agrees with the collaboration's; and until it is  *)
(* released or refunded in full it is as Consistent as above, because an   *)
(* award always settles the payment it hits.                               *)
(***************************************************************************)
Accounted(p, b, s) ==
  /\ p.amount = b.pending + b.platform + b.available + b.earned + b.returned
  /\ b.returned = p.refunded
  /\ p.status = "REFUNDED" => p.amount <= p.refunded
  /\ s = "COMPLETED" => p.status = "RELEASED"
  /\ s = "CANCELLED" => p.status = "REFUNDED"
  /\ s = "PAYMENT_PENDING" => p.status = "NONE"

Sound(p, b, r, s) ==
  /\ Accounted(p, b, s)
  /\ p.status \notin {"RELEASED", "REFUNDED"} => Consistent(p, b, r, s)

(* What an award in flight has read of a payment: its amount, which stays, *)
(* and a division of what was then not refunded.                           *)
ReadSound(read, p) ==
  /\ read.creator + read.fee + read.refunded = read.amount
  /\ read.amount = p.amount
  /\ read.refunded <= p.refunded

ReadsSound(c) ==
  \A k \in Case : AwardInFlight(c, k) => ReadSound(award[c][k].read, payment[c])

IsSound(c) == Sound(payment[c], book[c], revenue[c], status[c])

StaleInv == \A c \in Collab : IsSound(c) /\ ReadsSound(c)

LEMMA ConsistentIsAccounted ==
  ASSUME NEW p \in Payment, NEW b \in Book, NEW r, NEW s, Consistent(p, b, r, s)
  PROVE  Sound(p, b, r, s)
<1>1. /\ p.creator \in Nat /\ p.fee \in Nat /\ p.amount \in Nat /\ p.refunded \in Nat
      /\ b.pending \in Int /\ b.platform \in Int /\ b.available \in Int
      /\ b.earned \in Int /\ b.returned \in Int
  BY DEF Payment, Book
<1>2. /\ p.amount = b.pending + b.platform + b.available + b.earned + b.returned
      /\ b.returned = p.refunded
      /\ p.status = "REFUNDED" => p.amount <= p.refunded
  <2>1. p.status \in {"NONE", "FUNDED", "PARTIALLY_REFUNDED", "RELEASED", "REFUNDED"}
    BY DEF Payment, PaymentStatus
  <2>2. CASE IsHeld(p)
    BY <1>1, <2>2 DEF Consistent, IsHeld
  <2>3. CASE p.status = "RELEASED"
    BY <1>1, <2>3 DEF Consistent, IsHeld
  <2>4. CASE p.status \in {"NONE", "REFUNDED"}
    <3>1. /\ p.creator = 0 /\ p.fee = 0 /\ p.creator + p.fee + p.refunded = p.amount
          /\ b.pending = 0 /\ b.platform = 0 /\ b.available = 0 /\ b.earned = 0
          /\ b.returned = p.refunded
      BY <2>4 DEF Consistent, IsHeld
    <3> QED
      BY <1>1, <3>1
  <2> QED
    BY <2>1, <2>2, <2>3, <2>4 DEF IsHeld
<1>3. /\ s = "COMPLETED" => p.status = "RELEASED"
      /\ s = "CANCELLED" => p.status = "REFUNDED"
      /\ s = "PAYMENT_PENDING" => p.status = "NONE"
  BY DEF Consistent
<1> QED
  BY <1>2, <1>3 DEF Sound, Accounted

LEMMA StaleInit == Init => StaleInv
BY DEF Init, StaleInv, IsSound, ReadsSound, Sound, Accounted, Consistent, IsHeld,
       AwardInFlight, NoPayment, NoBook, NoRevenue

(* No award starts: one in flight keeps what it has read or ends.          *)
NoNewReads == \A c \in Collab, k \in Case : award'[c][k] \in {award[c][k], NoAward}

(* A step that writes sound rows of one collaboration.  Its amount is set  *)
(* by funding only, which no award can have read across.                   *)
LEMMA SoundWritten ==
  ASSUME TypeInv, StaleInv, NEW c \in Collab, NEW p \in Payment, NEW b, NEW r, NEW s,
         Writes(c, p, b, r, s), Sound(p, b, r, s), NoNewReads,
         payment[c].status = "NONE" \/ p.amount = payment[c].amount,
         payment[c].refunded <= p.refunded
  PROVE  StaleInv'
<1> SUFFICES ASSUME NEW d \in Collab
             PROVE  /\ Sound(payment'[d], book'[d], revenue'[d], status'[d])
                    /\ \A k \in Case :
                         award'[d][k] # NoAward
                           => ReadSound(award'[d][k].read, payment'[d])
  BY DEF StaleInv, IsSound, ReadsSound, Sound, Accounted, Consistent, IsHeld,
         AwardInFlight, ReadSound, NoAward, NoPayment
<1>1. CASE d # c
  <2>1. /\ payment'[d] = payment[d] /\ book'[d] = book[d]
        /\ revenue'[d] = revenue[d] /\ status'[d] = status[d]
    BY <1>1, RowsWritten
  <2> QED
    BY <2>1 DEF StaleInv, IsSound, ReadsSound, NoNewReads, AwardInFlight
<1>2. CASE d = c
  <2>1. /\ payment'[c] = p /\ book'[c] = b /\ revenue'[c] = r /\ status'[c] = s
    BY <1>2, RowsWritten
  <2>2. ASSUME NEW k \in Case, award'[c][k] # NoAward
        PROVE  ReadSound(award'[c][k].read, p)
    <3> DEFINE read == award[c][k].read
               q == payment[c]
    <3>1. award'[c][k] = award[c][k] /\ AwardInFlight(c, k)
      BY <2>2 DEF NoNewReads, AwardInFlight
    <3>2. ReadSound(read, q) /\ read.creator + read.fee > 0
      BY <3>1 DEF StaleInv, ReadsSound, TypeInv, AwardsReadHeld
    <3>3. read \in Payment /\ q \in Payment
      BY DEF TypeInv, TypeOK
    <3>4. IsSound(c)
      BY DEF StaleInv
    <3>5. q.status = "NONE" => q.amount = 0
      BY <3>4 DEF IsSound, Sound, Consistent
    <3>6. q.status = "NONE" \/ p.amount = q.amount
      OBVIOUS
    <3>7. q.refunded <= p.refunded
      OBVIOUS
    <3> HIDE DEF read, q
    <3>8. /\ read.creator \in Nat /\ read.fee \in Nat /\ read.refunded \in Nat
          /\ read.amount \in Nat /\ q.amount \in Nat /\ q.refunded \in Nat
          /\ p.refunded \in Nat
      BY <3>3 DEF Payment
    <3>9. q.status # "NONE"
      BY <3>2, <3>5, <3>8 DEF ReadSound
    <3>10. ReadSound(read, p)
      BY <3>2, <3>6, <3>7, <3>8, <3>9 DEF ReadSound
    <3> QED
      BY <3>1, <3>10 DEF read
  <2> QED
    BY <1>2, <2>1, <2>2
<1> QED
  BY <1>1, <1>2

LEMMA SoundFromConsistent ==
  ASSUME TypeInv, TypeInv', StaleInv, NEW c \in Collab, WritesConsistent(c), NoNewReads,
         payment[c].status = "NONE" \/ payment'[c].amount = payment[c].amount,
         payment[c].refunded <= payment'[c].refunded
  PROVE  StaleInv'
<1>1. PICK p, b, r, s : Writes(c, p, b, r, s) /\ Consistent(p, b, r, s)
  BY DEF WritesConsistent
<1>2. payment'[c] = p /\ book'[c] = b
  BY <1>1, RowsWritten
<1>3. p \in Payment /\ b \in Book
  BY <1>2 DEF TypeInv, TypeOK
<1>4. Sound(p, b, r, s)
  BY <1>1, <1>3, ConsistentIsAccounted
<1> QED
  BY <1>1, <1>2, <1>3, <1>4, SoundWritten

(* A payment that is not settled is consistent: it can be funded, released *)
(* or refunded as if no award were ever stale.                             *)
LEMMA FundSound ==
  ASSUME TypeInv, TypeInv', StaleInv, NEW c \in Collab, NEW rate \in CommissionRates,
         NEW barterFee \in BarterFees, Fund(c, rate, barterFee)
  PROVE  StaleInv'
<1> DEFINE p == payment[c]
<1>1. p.status = "NONE" /\ IsConsistent(c)
  BY DEF Fund, StaleInv, IsSound, Sound, Accounted, IsConsistent
<1>2. p.refunded <= payment'[c].refunded
  <2>1. p \in Payment /\ payment'[c] \in Payment
    BY DEF TypeInv, TypeOK
  <2>2. /\ p.creator + p.fee + p.refunded = p.amount
        /\ p.creator = 0 /\ p.fee = 0 /\ p.amount = 0
    BY <1>1 DEF IsConsistent, Consistent
  <2> HIDE DEF p
  <2>3. p.refunded \in Nat /\ payment'[c].refunded \in Nat
    BY <2>1 DEF Payment
  <2> QED
    BY <2>2, <2>3
<1>3. NoNewReads
  BY DEF Fund, NoNewReads
<1> QED
  BY <1>1, <1>2, <1>3, FundStep, SoundFromConsistent

LEMMA ReleaseSound ==
  ASSUME TypeInv, TypeInv', StaleInv, NEW c \in Collab, Release(c)
  PROVE  StaleInv'
<1>1. IsConsistent(c)
  BY DEF Release, IsHeld, StaleInv, IsSound, Sound, IsConsistent
<1>2. /\ payment'[c].amount = payment[c].amount
      /\ payment'[c].refunded = payment[c].refunded
      /\ payment[c].refunded \in Nat
  <2>1. payment'[c] = [payment[c] EXCEPT !.status = "RELEASED"]
    BY DEF Release, TypeInv, TypeOK
  <2> QED
    BY <2>1, RowTypes DEF Payment
<1>3. NoNewReads
  BY DEF Release, NoNewReads
<1> QED
  BY <1>1, <1>2, <1>3, ReleaseStep, SoundFromConsistent

LEMMA RefundSound ==
  ASSUME TypeInv, TypeInv', StaleInv, NEW c \in Collab, NEW percent \in RefundPercents,
         NEW x \in 1 .. (payment[c].amount - payment[c].refunded),
         Refund(c, x, percent)
  PROVE  StaleInv'
<1> DEFINE p == payment[c]
<1>1. /\ p.amount \in Nat /\ p.refunded \in Nat /\ x \in Nat
      /\ x > 0 /\ x <= p.amount - p.refunded
  BY RowTypes DEF Payment
<1>2. IsConsistent(c)
  <2>1. Sound(p, book[c], revenue[c], status[c])
    BY DEF StaleInv, IsSound
  <2>2. p.status # "REFUNDED"
    BY <1>1, <2>1 DEF Sound, Accounted
  <2> QED
    BY <2>1, <2>2 DEF Refund, Sound, IsConsistent
<1>3. payment'[c].amount = p.amount /\ payment'[c].refunded = p.refunded + x
  BY RowTypes DEF Refund, Payment, TypeInv, TypeOK
<1>4. NoNewReads
  BY DEF Refund, NoNewReads
<1> QED
  BY <1>1, <1>2, <1>3, <1>4, RefundStep, SoundFromConsistent

LEMMA StatusSound ==
  ASSUME TypeInv, StaleInv, NEW c \in Collab,
         \/ ReleaseAgain(c)
         \/ \E new \in {"IN_REVIEW", "PUBLISHED", "PROVEN"} : Progress(c, new)
         \/ RetentionFailed(c)
  PROVE  StaleInv'
<1> DEFINE p == payment[c]
<1>1. PICK s \in {"COMPLETED", "IN_REVIEW", "PUBLISHED", "PROVEN", "DISPUTED"} :
        /\ Writes(c, p, book[c], revenue[c], s) /\ award' = award
        /\ s = "COMPLETED" => p.status = "RELEASED"
  BY StatusStep
<1>2. Sound(p, book[c], revenue[c], s)
  BY <1>1 DEF StaleInv, IsSound, Sound, Accounted, Consistent
<1>3. NoNewReads
  BY <1>1 DEF NoNewReads
<1>4. p \in Payment /\ p.refunded <= p.refunded
  BY RowTypes DEF Payment
<1> HIDE DEF p
<1> QED
  BY <1>1, <1>2, <1>3, <1>4, SoundWritten DEF p

(* What an award makes of a payment it may have read long ago: its books   *)
(* still add up, and if it returns everything, nothing is left of it.      *)
LEMMA AwardAccounted ==
  ASSUME NEW p \in Payment, NEW b \in Book, NEW s, Accounted(p, b, s),
         NEW read \in Payment, ReadSound(read, p), read.creator + read.fee > 0,
         NEW percent \in 0 .. 100,
         NEW a, a = DisputeAward(read.creator + read.fee, read.fee, percent),
         NEW creatorBack \in Nat, NEW platformBack \in Nat,
         creatorBack + platformBack = a.business
  PROVE  Sound(Awarded(p, a, percent > 0),
               Posted(b, AwardBatch(a, creatorBack, platformBack)), revenue,
               IF percent > 0 THEN "COMPLETED" ELSE "CANCELLED")
<1>1. /\ p.amount \in Nat /\ p.refunded \in Nat
      /\ b.pending \in Int /\ b.platform \in Int /\ b.available \in Int
      /\ b.earned \in Int /\ b.returned \in Int
      /\ read.creator \in Nat /\ read.fee \in Nat /\ read.refunded \in Nat
      /\ read.amount \in Nat
  BY DEF Payment, Book
<1>2. /\ a.creator \in Nat /\ a.fee \in Nat /\ a.business \in Nat
      /\ a.creator + a.fee + a.business = read.creator + read.fee
  <2>1. /\ a.creator \in 0 .. read.creator /\ a.fee \in 0 .. read.fee
        /\ a.business \in 0 .. (read.creator + read.fee)
        /\ a.creator + a.fee + a.business = read.creator + read.fee
    BY AwardSplit
  <2> QED
    BY <1>1, <2>1
<1>3. percent = 0 => a.creator = 0 /\ a.fee = 0
  <2>1. read.creator + read.fee \in Nat /\ read.fee \in 0 .. (read.creator + read.fee)
    BY <1>1
  <2> QED
    BY <2>1, NothingAwarded
<1>4. percent = 0 => p.amount <= p.refunded + a.business
  BY <1>1, <1>2, <1>3 DEF ReadSound
<1> DEFINE q == Awarded(p, a, percent > 0)
           e == Posted(b, AwardBatch(a, creatorBack, platformBack))
<1>5. /\ q.status = IF percent > 0 THEN "RELEASED" ELSE "REFUNDED"
      /\ q.amount = p.amount /\ q.refunded = p.refunded + a.business
  BY DEF Awarded
<1>6. /\ e.pending = b.pending - (a.creator + creatorBack)
      /\ e.platform = b.platform - (a.fee + platformBack)
      /\ e.available = b.available + a.creator /\ e.earned = b.earned + a.fee
      /\ e.returned = b.returned + (creatorBack + platformBack)
  BY <1>1, <1>2 DEF Posted, AwardBatch
<1> HIDE DEF q, e
<1>7. /\ q.amount = e.pending + e.platform + e.available + e.earned + e.returned
      /\ e.returned = q.refunded
  BY <1>1, <1>2, <1>5, <1>6 DEF Accounted
<1>8. CASE percent > 0
  <2>1. q.status = "RELEASED"
    BY <1>5, <1>8
  <2>2. Sound(q, e, revenue, "COMPLETED")
    BY <1>7, <2>1 DEF Sound, Accounted
  <2> QED
    BY <1>8, <2>2 DEF q, e
<1>9. CASE ~(percent > 0)
  <2>1. q.status = "REFUNDED" /\ q.amount <= q.refunded
    BY <1>4, <1>5, <1>9
  <2>2. Sound(q, e, revenue, "CANCELLED")
    BY <1>7, <2>1 DEF Sound, Accounted
  <2> QED
    BY <1>9, <2>2 DEF q, e
<1> QED
  BY <1>8, <1>9

(* Only the consistency of an unsettled payment is about its revenue row.  *)
LEMMA SettledIgnoresRevenue ==
  ASSUME NEW p, NEW b, NEW r, NEW t, NEW s, Sound(p, b, r, s),
         p.status \in {"RELEASED", "REFUNDED"}
  PROVE  Sound(p, b, t, s)
BY DEF Sound

LEMMA AwardSound ==
  ASSUME TypeInv, TypeInv', StaleInv, NEW c \in Collab, NEW k \in Case, AwardWrite(c, k)
  PROVE  StaleInv'
<1> DEFINE p == payment[c]
           read == award[c][k].read
           percent == award[c][k].percent
           a == DisputeAward(read.creator + read.fee, read.fee, percent)
           creatorBack == NonNegative(read.creator - a.creator)
           platformBack == NonNegative(read.fee - a.fee)
           q == Awarded(p, a, percent > 0)
           e == Posted(book[c], AwardBatch(a, creatorBack, platformBack))
           t == RevenueAwarded(revenue[c], a.fee)
           s == IF percent > 0 THEN "COMPLETED" ELSE "CANCELLED"
<1>1. /\ AwardInFlight(c, k) /\ creatorBack + platformBack = a.business
      /\ Writes(c, q, e, t, s)
      /\ award' = [award EXCEPT ![c][k] = NoAward]
  BY DEF AwardWrite, Writes
<1>2. /\ p \in Payment /\ read \in Payment /\ percent \in 0 .. 100 /\ book[c] \in Book
  BY DEF TypeInv, TypeOK
<1>3. read.creator + read.fee > 0 /\ ReadSound(read, p) /\ Accounted(p, book[c], status[c])
  BY <1>1 DEF TypeInv, AwardsReadHeld, StaleInv, ReadsSound, IsSound, Sound
<1>4. a = DisputeAward(read.creator + read.fee, read.fee, percent)
  OBVIOUS
<1>5. NoNewReads
  BY <1>1 DEF NoNewReads, TypeInv, TypeOK
<1>6. a.creator \in Nat /\ a.fee \in Nat /\ a.business \in Nat
  <2> HIDE DEF a, p, read, percent
  <2>1. read.creator \in Nat /\ read.fee \in Nat
    BY <1>2 DEF Payment
  <2>2. /\ a.creator \in 0 .. read.creator /\ a.fee \in 0 .. read.fee
        /\ a.business \in 0 .. (read.creator + read.fee)
    BY <1>2, <1>3, <1>4, AwardSplit
  <2> QED
    BY <2>1, <2>2
<1>7. creatorBack \in Nat /\ platformBack \in Nat
  <2> HIDE DEF a, read
  <2>1. read.creator - a.creator \in Int /\ read.fee - a.fee \in Int
    BY <1>2, <1>6 DEF Payment
  <2> QED
    BY <2>1 DEF NonNegative
<1> HIDE DEF p, read, percent, a, creatorBack, platformBack
<1>8. Sound(q, e, revenue, s)
  BY <1>1, <1>2, <1>3, <1>4, <1>7, AwardAccounted
<1>9. /\ q.status \in {"RELEASED", "REFUNDED"} /\ q.amount = p.amount
      /\ q.refunded = p.refunded + a.business
  BY DEF Awarded
<1>10. q = payment'[c]
  BY <1>1, RowsWritten
<1>11. q \in Payment
  BY <1>10 DEF TypeInv, TypeOK
<1> HIDE DEF q, e, t, s
<1>12. Sound(q, e, t, s)
  BY <1>8, <1>9, SettledIgnoresRevenue
<1>13. payment[c].refunded <= q.refunded /\ q.amount = payment[c].amount
  BY <1>2, <1>6, <1>9 DEF p, Payment
<1> QED
  BY <1>1, <1>5, <1>11, <1>12, <1>13, SoundWritten

(* A new award reads the payment as it is, and that one is held.           *)
LEMMA AwardReadSound ==
  ASSUME TypeInv, StaleInv, NEW c \in Collab, NEW k \in Case,
         NEW percent \in AwardPercents, AwardRead(c, k, percent)
  PROVE  StaleInv'
<1>1. /\ UNCHANGED <<payment, book, revenue, status>> /\ IsHeld(payment[c])
      /\ award' = [award EXCEPT ![c][k] = [read |-> payment[c], percent |-> percent]]
  BY DEF AwardRead
<1>2. ReadSound(payment[c], payment[c])
  <2>1. IsConsistent(c)
    BY <1>1 DEF IsHeld, StaleInv, IsSound, Sound, IsConsistent
  <2>2. payment[c].refunded \in Nat
    BY RowTypes DEF Payment
  <2> QED
    BY <2>1, <2>2 DEF ReadSound, IsConsistent, Consistent
<1>3. ASSUME NEW d \in Collab, NEW j \in Case, award'[d][j] # NoAward
      PROVE  ReadSound(award'[d][j].read, payment'[d])
  <2>1. CASE d = c /\ j = k
    BY <1>1, <1>2, <2>1 DEF TypeInv, TypeOK
  <2>2. CASE ~(d = c /\ j = k)
    <3>1. award'[d][j] = award[d][j]
      BY <1>1, <2>2 DEF TypeInv, TypeOK
    <3> QED
      BY <1>1, <1>3, <3>1 DEF StaleInv, ReadsSound, AwardInFlight
  <2> QED
    BY <2>1, <2>2
<1> QED
  BY <1>1, <1>3 DEF StaleInv, IsSound, ReadsSound, AwardInFlight, Sound, Accounted,
     Consistent, IsHeld, ReadSound, NoAward, NoPayment

LEMMA RowsKept ==
  ASSUME StaleInv, UNCHANGED <<payment, book, revenue, status>>, NoNewReads
  PROVE  StaleInv'
<1>1. ASSUME NEW c \in Collab, NEW k \in Case, award'[c][k] # NoAward
      PROVE  ReadSound(award'[c][k].read, payment[c])
  BY <1>1 DEF StaleInv, ReadsSound, NoNewReads, AwardInFlight
<1> QED
  BY <1>1 DEF StaleInv, IsSound, ReadsSound, AwardInFlight, Sound, Accounted,
     Consistent, IsHeld, ReadSound, NoAward, NoPayment

LEMMA StaleStep == TypeInv /\ StaleInv /\ [Next]_vars => StaleInv'
<1> SUFFICES ASSUME TypeInv, StaleInv, [Next]_vars
             PROVE  StaleInv'
  OBVIOUS
<1>1. TypeInv'
  BY TypeStep
<1>2. ASSUME NEW c \in Collab, MoneyStep(c)
      PROVE  StaleInv'
  BY <1>1, <1>2, FundSound, ReleaseSound, RefundSound, StatusSound DEF MoneyStep
<1>3. ASSUME NEW c \in Collab, NEW k \in Case, DisputeStep(c, k)
      PROVE  StaleInv'
  <2>1. AwardAbort(c, k) => StaleInv'
    BY RowsKept DEF AwardAbort, NoNewReads, TypeInv, TypeOK
  <2>2. ASSUME NEW new, \/ OpenDisputeRead(c, k) \/ FreezeContractRead(c, k)
                        \/ CreateDispute(c, k) \/ EditCaseRead(c, k, new)
                        \/ EditCaseWrite(c, k)
        PROVE  StaleInv'
    <3>1. UNCHANGED <<payment, book, revenue, status, award>>
      BY <2>2 DEF OpenDisputeRead, FreezeContractRead, CreateDispute, EditCaseRead,
         EditCaseWrite
    <3> QED
      BY <3>1, RowsKept DEF NoNewReads
  <2> QED
    BY <1>1, <1>3, <2>1, <2>2, AwardReadSound, AwardSound DEF DisputeStep
<1>4. ASSUME NEW c \in Collab,
             \/ \E new \in {"IN_REVIEW", "PUBLISHED", "PROVEN"} : Progress(c, new)
             \/ RetentionFailed(c)
      PROVE  StaleInv'
  BY <1>4, StatusSound
<1>5. CASE UNCHANGED vars \/ \E u \in User, x \in TopUpAmounts : TopUp(u, x)
  <2>1. UNCHANGED <<payment, book, revenue, status, award>>
    BY <1>5 DEF vars, TopUp
  <2> QED
    BY <2>1, RowsKept DEF NoNewReads
<1> QED
  BY <1>2, <1>3, <1>4, <1>5 DEF Next

LEMMA StaleAlways == Spec => [](TypeInv /\ StaleInv)
<1>1. Init => TypeInv /\ StaleInv
  BY TypeInit, StaleInit
<1>2. TypeInv /\ StaleInv /\ [Next]_vars => (TypeInv /\ StaleInv)'
  BY TypeStep, StaleStep
<1> QED
  BY <1>1, <1>2, PTL DEF Spec

(* Whatever stale awards do to a payment row, its ledger entries add up:   *)
(* what was funded is held, earned or returned, and what was returned is   *)
(* the sum of its PaymentRefund rows.                                      *)
THEOREM MoneyIsNotLost == Spec => []NothingLost
<1>1. TypeInv /\ StaleInv => NothingLost
  BY DEF StaleInv, IsSound, Sound, Accounted, NothingLost
<1> QED
  BY <1>1, StaleAlways, PTL

(* A collaboration is COMPLETED or CANCELLED only as its money says.       *)
THEOREM StatusFollowsMoney == Spec => []FinalStatusFollowsMoney
<1>1. TypeInv /\ StaleInv => FinalStatusFollowsMoney
  BY DEF StaleInv, IsSound, Sound, Accounted, FinalStatusFollowsMoney
<1> QED
  BY <1>1, StaleAlways, PTL

(* A payment that can still be released, refunded or awarded               *)
(* (wallet.service.js:221-414) is what the ledger holds for it, and has    *)
(* paid nobody, even when awards are stale: only settled rows drift.       *)
HeldIsBacked ==
  \A c \in Collab :
    IsHeld(payment[c])
      => /\ book[c].pending = payment[c].creator /\ book[c].platform = payment[c].fee
         /\ book[c].available = 0 /\ book[c].earned = 0
         /\ revenue[c].amount = payment[c].fee

THEOREM HeldStaysBacked == Spec => []HeldIsBacked
<1>1. TypeInv /\ StaleInv => HeldIsBacked
  <2> SUFFICES ASSUME TypeInv, StaleInv, NEW c \in Collab, IsHeld(payment[c])
               PROVE  /\ book[c].pending = payment[c].creator
                      /\ book[c].platform = payment[c].fee
                      /\ book[c].available = 0 /\ book[c].earned = 0
                      /\ revenue[c].amount = payment[c].fee
    BY DEF HeldIsBacked
  <2>1. Consistent(payment[c], book[c], revenue[c], status[c])
    BY DEF StaleInv, IsSound, Sound, IsHeld
  <2>2. payment[c].fee \in Nat
    BY RowTypes DEF Payment
  <2> QED
    BY <2>1, <2>2 DEF Consistent, IsHeld
<1> QED
  BY <1>1, StaleAlways, PTL
=============================================================================

--------------------------- MODULE Escrow_proofs ---------------------------
(***************************************************************************)
(* What holds of Escrow in every interleaving, whether or not an award     *)
(* commits on stale reads: type correctness, and that no money appears or  *)
(* disappears.                                                             *)
(***************************************************************************)
EXTENDS Escrow, FinanceRules_proofs

USE EscrowAssumption

(* An award in flight has read a held payment with something to divide.    *)
AwardsReadHeld ==
  \A c \in Collab, k \in Case :
    AwardInFlight(c, k) => /\ IsHeld(award[c][k].read)
                           /\ award[c][k].read.creator + award[c][k].read.fee > 0

TypeInv == TypeOK /\ AwardsReadHeld

(* Every action keeps the in-flight awards as they are, starts one or ends *)
(* one.                                                                    *)
LEMMA AwardsStayHeld ==
  ASSUME TypeInv, award' = award
  PROVE  AwardsReadHeld'
BY DEF TypeInv, AwardsReadHeld, AwardInFlight, IsHeld, NoAward, NoPayment

(* What a division of a held payment by an award is made of. *)
LEMMA AwardSplit ==
  ASSUME NEW p \in Payment, p.creator + p.fee > 0, NEW percent \in 0 .. 100
  PROVE  LET a == DisputeAward(p.creator + p.fee, p.fee, percent)
         IN  /\ a.creator \in 0 .. p.creator
             /\ a.fee \in 0 .. p.fee
             /\ a.business \in 0 .. (p.creator + p.fee)
             /\ a.creator + a.fee + a.business = p.creator + p.fee
<1> DEFINE total == p.creator + p.fee
<1>1. /\ p.creator \in Nat /\ p.fee \in Nat
      /\ total \in Nat /\ total > 0 /\ p.fee \in 0 .. total
      /\ total - p.fee = p.creator
  BY DEF Payment
<1> HIDE DEF total
<1>2. LET a == DisputeAward(total, p.fee, percent)
      IN  /\ a.creator \in 0 .. (total - p.fee)
          /\ a.fee \in 0 .. p.fee
          /\ a.business \in 0 .. total
          /\ a.creator + a.fee + a.business = total
  BY <1>1, DisputeAwardBalances
<1> QED
  BY <1>1, <1>2 DEF total

(* Posting a batch leaves a book with an integer in every account. *)
LEMMA PostedType ==
  ASSUME NEW b \in Book, NEW batch \in Book
  PROVE  Posted(b, batch) \in Book
BY DEF Book, Posted

LEMMA RevenueType ==
  ASSUME NEW r \in Revenue, NEW n \in Int, NEW full \in BOOLEAN
  PROVE  /\ RevenueCreated(r, n) \in Revenue
         /\ RevenueReleased(r) \in Revenue
         /\ RevenueRefunded(r, n, full) \in Revenue
         /\ RevenueAwarded(r, n) \in Revenue
BY DEF Revenue, RevenueStatus, RevenueCreated, RevenueReleased, RevenueRefunded,
       RevenueAwarded

LEMMA TypeInit == Init => TypeInv
BY DEF Init, TypeInv, TypeOK, AwardsReadHeld, AwardInFlight, Payment, Revenue, Book,
       NoPayment, NoBook, NoRevenue, NoAward, PaymentStatus, RevenueStatus,
       CollabStatus, DisputeStatus

LEMMA TopUpType ==
  ASSUME TypeInv, NEW u \in User, NEW x \in TopUpAmounts, TopUp(u, x)
  PROVE  TypeInv'
<1>1. TypeOK'
  BY DEF TypeInv, TypeOK, TopUp
<1>2. AwardsReadHeld'
  BY AwardsStayHeld DEF TopUp
<1> QED
  BY <1>1, <1>2 DEF TypeInv

LEMMA FundType ==
  ASSUME TypeInv, NEW c \in Collab, NEW rate \in CommissionRates,
         NEW barterFee \in BarterFees, Fund(c, rate, barterFee)
  PROVE  TypeInv'
<1> DEFINE f == CollaborationFinance(TermsOf[c], rate, barterFee)
<1>1. f \in [payable : Nat, creator : Nat, fee : Nat]
  <2>1. /\ TermsOf[c] \in [kind : {"PAID", "BARTER", "HYBRID"}, cash : Nat]
        /\ rate \in 0 .. 100 /\ barterFee \in Nat
    OBVIOUS
  <2> QED
    BY <2>1, FundingSplitIsExact
<1> HIDE DEF f
<1>2. /\ Owner[c] \in User
      /\ f.payable \in 1 .. wallet[Owner[c]]
      /\ wallet' = [wallet EXCEPT ![Owner[c]] = @ - f.payable]
  BY DEF Fund, f
<1>3. wallet' \in [User -> Nat]
  BY <1>1, <1>2 DEF TypeInv, TypeOK
<1>4. payment' \in [Collab -> Payment]
  <2>1. [status |-> "FUNDED", amount |-> f.payable, creator |-> f.creator,
         fee |-> f.fee, refunded |-> 0] \in Payment
    BY <1>1 DEF Payment, PaymentStatus
  <2> QED
    BY <2>1 DEF Fund, f, TypeInv, TypeOK
<1>5. book' \in [Collab -> Book]
  <2>1. FundingBatch(f) \in Book
    BY <1>1 DEF FundingBatch, Book
  <2>2. book' = [book EXCEPT ![c] = Posted(book[c], FundingBatch(f))]
    BY DEF Fund, f
  <2> QED
    BY <2>1, <2>2, PostedType DEF TypeInv, TypeOK
<1>6. revenue' \in [Collab -> Revenue]
  <2>1. f.fee \in Int
    BY <1>1
  <2>2. revenue' = [revenue EXCEPT ![c] = RevenueCreated(revenue[c], f.fee)]
    BY DEF Fund, f
  <2>3. RevenueCreated(revenue[c], f.fee) \in Revenue
    BY <2>1, RevenueType DEF TypeInv, TypeOK
  <2> QED
    BY <2>2, <2>3 DEF TypeInv, TypeOK
<1>7. TypeOK'
  BY <1>3, <1>4, <1>5, <1>6 DEF Fund, TypeInv, TypeOK, CollabStatus
<1>8. AwardsReadHeld'
  BY AwardsStayHeld DEF Fund
<1> QED
  BY <1>7, <1>8 DEF TypeInv

LEMMA ReleaseType ==
  ASSUME TypeInv, NEW c \in Collab, Release(c)
  PROVE  TypeInv'
<1>1. payment[c] \in Payment /\ book[c] \in Book
  BY DEF TypeInv, TypeOK
<1>2. payment' \in [Collab -> Payment]
  <2>1. [payment[c] EXCEPT !.status = "RELEASED"] \in Payment
    BY <1>1 DEF Payment, PaymentStatus
  <2>2. payment' = [payment EXCEPT ![c] = [payment[c] EXCEPT !.status = "RELEASED"]]
    BY DEF Release
  <2> QED
    BY <2>1, <2>2 DEF TypeInv, TypeOK
<1>3. book' \in [Collab -> Book]
  <2>1. SettlementBatch(payment[c]) \in Book
    BY <1>1 DEF SettlementBatch, Book, Payment
  <2>2. book' = [book EXCEPT ![c] = Posted(book[c], SettlementBatch(payment[c]))]
    BY DEF Release
  <2> QED
    BY <1>1, <2>1, <2>2, PostedType DEF TypeInv, TypeOK
<1>4. revenue' \in [Collab -> Revenue]
  BY RevenueType DEF Release, TypeInv, TypeOK
<1>5. TypeOK'
  BY <1>2, <1>3, <1>4 DEF Release, TypeInv, TypeOK, CollabStatus
<1>6. AwardsReadHeld'
  BY AwardsStayHeld DEF Release
<1> QED
  BY <1>5, <1>6 DEF TypeInv

(* A refund takes no more from the creator than is pending for the creator. *)
LEMMA RefundShare ==
  ASSUME NEW p \in Payment, NEW x \in 1 .. (p.amount - p.refunded)
  PROVE  RefundCreatorShare(p.creator, x, p.amount - p.refunded) \in 0 .. p.creator
<1> DEFINE remaining == p.amount - p.refunded
<1>1. /\ p.creator \in Nat /\ remaining \in Nat /\ remaining > 0
      /\ x \in Nat /\ x <= remaining
  BY DEF Payment
<1> HIDE DEF remaining
<1>2. RefundCreatorShare(p.creator, x, remaining) \in 0 .. p.creator
  BY <1>1, RoundShareAtMost DEF RefundCreatorShare
<1> QED
  BY <1>2 DEF remaining

LEMMA RefundType ==
  ASSUME TypeInv, NEW c \in Collab, NEW percent \in RefundPercents,
         NEW x \in 1 .. (payment[c].amount - payment[c].refunded),
         Refund(c, x, percent)
  PROVE  TypeInv'
<1> DEFINE p == payment[c]
           creator == RefundCreatorShare(p.creator, x, p.amount - p.refunded)
           platform == x - creator
           full == p.refunded + x = p.amount
<1>1. /\ p \in Payment /\ book[c] \in Book /\ Owner[c] \in User
      /\ revenue[c] \in Revenue
  BY DEF TypeInv, TypeOK
<1>2. creator \in 0 .. p.creator
  BY <1>1, RefundShare
<1>3. /\ payment' = [payment EXCEPT ![c] =
           [p EXCEPT !.status   = IF full THEN "REFUNDED" ELSE "PARTIALLY_REFUNDED",
                     !.creator  = @ - creator,
                     !.fee      = @ - platform,
                     !.refunded = @ + x]]
      /\ platform <= p.fee
      /\ book' = [book EXCEPT ![c] = Posted(book[c], RefundBatch(creator, platform))]
      /\ wallet' = [wallet EXCEPT ![Owner[c]] = @ + x]
      /\ revenue' = [revenue EXCEPT ![c] = RevenueRefunded(@, platform, full)]
      /\ status' \in {status, [status EXCEPT ![c] = "CANCELLED"]}
      /\ UNCHANGED <<toppedUp, dispute, edit, award>>
  BY DEF Refund
<1>4. platform \in Int /\ x \in Nat /\ full \in BOOLEAN
  BY <1>1, <1>2 DEF Payment
<1> HIDE DEF creator, platform, full
<1>5. payment' \in [Collab -> Payment]
  <2>1. /\ p.creator - creator \in Nat
        /\ p.fee - platform \in Nat
        /\ p.refunded + x \in Nat
    BY <1>1, <1>2, <1>3, <1>4 DEF Payment
  <2>2. [p EXCEPT !.status   = IF full THEN "REFUNDED" ELSE "PARTIALLY_REFUNDED",
                  !.creator  = @ - creator,
                  !.fee      = @ - platform,
                  !.refunded = @ + x] \in Payment
    BY <1>1, <2>1 DEF Payment, PaymentStatus
  <2> QED
    BY <1>3, <2>2 DEF TypeInv, TypeOK
<1>6. book' \in [Collab -> Book]
  <2>1. RefundBatch(creator, platform) \in Book
    BY <1>2, <1>4 DEF RefundBatch, Book
  <2> QED
    BY <1>1, <1>3, <2>1, PostedType DEF TypeInv, TypeOK
<1>7. wallet' \in [User -> Nat]
  BY <1>1, <1>3, <1>4 DEF TypeInv, TypeOK
<1>8. revenue' \in [Collab -> Revenue]
  BY <1>1, <1>3, <1>4, RevenueType DEF TypeInv, TypeOK
<1>9. TypeOK'
  BY <1>3, <1>5, <1>6, <1>7, <1>8 DEF TypeInv, TypeOK, CollabStatus
<1>10. AwardsReadHeld'
  BY <1>3, AwardsStayHeld
<1> QED
  BY <1>9, <1>10 DEF TypeInv

(* Writing one row of a table of disputes. *)
LEMMA RowWritten ==
  ASSUME NEW S, NEW f \in [Collab -> [Case -> S]], NEW c \in Collab, NEW k \in Case,
         NEW s \in S
  PROVE  [f EXCEPT ![c] = [f[c] EXCEPT ![k] = s]] \in [Collab -> [Case -> S]]
<1>1. [f[c] EXCEPT ![k] = s] \in [Case -> S]
  OBVIOUS
<1> QED
  BY <1>1

(* The steps that leave money and awards alone. *)
LEMMA CaseType ==
  ASSUME TypeInv, NEW c \in Collab, NEW k \in Case,
         \/ OpenDisputeRead(c, k)
         \/ FreezeContractRead(c, k)
         \/ CreateDispute(c, k)
         \/ \E new \in {"ACTIVE", "CLOSED"} : EditCaseRead(c, k, new)
         \/ EditCaseWrite(c, k)
  PROVE  TypeInv'
<1>1. /\ UNCHANGED <<wallet, toppedUp, payment, book, revenue, status, award>>
  BY DEF OpenDisputeRead, FreezeContractRead, CreateDispute, EditCaseRead, EditCaseWrite
<1>2. /\ edit[c][k] \in {"NONE", "ACTIVE", "CLOSED"}
      /\ edit[c] \in [Case -> {"NONE", "ACTIVE", "CLOSED"}]
      /\ dispute[c] \in [Case -> DisputeStatus]
  BY DEF TypeInv, TypeOK
<1>3. \/ dispute' = dispute
      \/ \E s \in DisputeStatus :
           dispute' = [dispute EXCEPT ![c] = [dispute[c] EXCEPT ![k] = s]]
  BY <1>2 DEF DisputeStatus, OpenDisputeRead, FreezeContractRead, CreateDispute,
              EditCaseRead, EditCaseWrite
<1>4. \/ edit' = edit
      \/ \E s \in {"NONE", "ACTIVE", "CLOSED"} :
           edit' = [edit EXCEPT ![c] = [edit[c] EXCEPT ![k] = s]]
  BY DEF OpenDisputeRead, FreezeContractRead, CreateDispute, EditCaseRead, EditCaseWrite
<1>5. dispute' \in [Collab -> [Case -> DisputeStatus]]
  <2>1. dispute \in [Collab -> [Case -> DisputeStatus]]
    BY DEF TypeInv, TypeOK
  <2>2. ASSUME NEW s \in DisputeStatus
        PROVE  [dispute EXCEPT ![c] = [dispute[c] EXCEPT ![k] = s]]
                 \in [Collab -> [Case -> DisputeStatus]]
    BY <2>1, RowWritten
  <2> QED
    BY <1>3, <2>1, <2>2
<1>6. edit' \in [Collab -> [Case -> {"NONE", "ACTIVE", "CLOSED"}]]
  <2>1. edit \in [Collab -> [Case -> {"NONE", "ACTIVE", "CLOSED"}]]
    BY DEF TypeInv, TypeOK
  <2>2. ASSUME NEW s \in {"NONE", "ACTIVE", "CLOSED"}
        PROVE  [edit EXCEPT ![c] = [edit[c] EXCEPT ![k] = s]]
                 \in [Collab -> [Case -> {"NONE", "ACTIVE", "CLOSED"}]]
    BY <2>1, RowWritten
  <2> QED
    BY <1>4, <2>1, <2>2
<1> QED
  BY <1>1, <1>5, <1>6, AwardsStayHeld DEF TypeInv, TypeOK

LEMMA StatusType ==
  ASSUME TypeInv, NEW c \in Collab,
         \/ ReleaseAgain(c)
         \/ \E new \in {"IN_REVIEW", "PUBLISHED", "PROVEN"} : Progress(c, new)
         \/ RetentionFailed(c)
  PROVE  TypeInv'
<1>1. UNCHANGED <<wallet, toppedUp, payment, book, revenue, edit, award>>
  BY DEF ReleaseAgain, Progress, RetentionFailed
<1>2. status' \in [Collab -> CollabStatus]
  BY DEF TypeInv, TypeOK, CollabStatus, ReleaseAgain, Progress, RetentionFailed
<1>3. \/ dispute' = dispute
      \/ \E k \in Case :
           dispute' = [dispute EXCEPT ![c] = [dispute[c] EXCEPT ![k] = "ACTIVE"]]
  BY DEF ReleaseAgain, Progress, RetentionFailed
<1>4. dispute' \in [Collab -> [Case -> DisputeStatus]]
  <2>1. dispute \in [Collab -> [Case -> DisputeStatus]] /\ "ACTIVE" \in DisputeStatus
    BY DEF TypeInv, TypeOK, DisputeStatus
  <2>2. ASSUME NEW k \in Case
        PROVE  [dispute EXCEPT ![c] = [dispute[c] EXCEPT ![k] = "ACTIVE"]]
                 \in [Collab -> [Case -> DisputeStatus]]
    BY <2>1, RowWritten
  <2> QED
    BY <1>3, <2>1, <2>2
<1> QED
  BY <1>1, <1>2, <1>4, AwardsStayHeld DEF TypeInv, TypeOK

LEMMA AwardReadType ==
  ASSUME TypeInv, NEW c \in Collab, NEW k \in Case, NEW percent \in AwardPercents,
         AwardRead(c, k, percent)
  PROVE  TypeInv'
<1> DEFINE a == [read |-> payment[c], percent |-> percent]
<1>1. /\ award' = [award EXCEPT ![c] = [award[c] EXCEPT ![k] = a]]
      /\ IsHeld(payment[c]) /\ payment[c].creator + payment[c].fee > 0
      /\ UNCHANGED <<wallet, toppedUp, payment, book, revenue, status, dispute, edit>>
  BY DEF AwardRead
<1>2. a \in [read : Payment, percent : 0 .. 100]
  BY DEF TypeInv, TypeOK
<1>3. TypeOK'
  BY <1>1, <1>2 DEF TypeInv, TypeOK
<1>4. AwardsReadHeld'
  <2> SUFFICES ASSUME NEW d \in Collab, NEW j \in Case, AwardInFlight(d, j)'
               PROVE  /\ IsHeld(award'[d][j].read)
                      /\ award'[d][j].read.creator + award'[d][j].read.fee > 0
    BY DEF AwardsReadHeld, IsHeld
  <2>1. CASE d = c /\ j = k
    BY <1>1, <2>1 DEF TypeInv, TypeOK
  <2>2. CASE ~(d = c /\ j = k)
    <3>1. award'[d][j] = award[d][j]
      BY <1>1, <2>2 DEF TypeInv, TypeOK
    <3> QED
      BY <3>1 DEF TypeInv, AwardsReadHeld, AwardInFlight
  <2> QED
    BY <2>1, <2>2
<1> QED
  BY <1>3, <1>4 DEF TypeInv

(* An award leaves the flight: what the others have read is unchanged. *)
LEMMA AwardEnds ==
  ASSUME TypeInv, NEW c \in Collab, NEW k \in Case,
         award' = [award EXCEPT ![c] = [award[c] EXCEPT ![k] = NoAward]]
  PROVE  /\ award' \in [Collab -> [Case -> [read : Payment, percent : 0 .. 100]]]
         /\ AwardsReadHeld'
<1>1. NoAward \in [read : Payment, percent : 0 .. 100]
  BY DEF NoAward, NoPayment, Payment, PaymentStatus
<1>2. award' \in [Collab -> [Case -> [read : Payment, percent : 0 .. 100]]]
  BY <1>1 DEF TypeInv, TypeOK
<1>3. AwardsReadHeld'
  <2> SUFFICES ASSUME NEW d \in Collab, NEW j \in Case, AwardInFlight(d, j)'
               PROVE  /\ IsHeld(award'[d][j].read)
                      /\ award'[d][j].read.creator + award'[d][j].read.fee > 0
    BY DEF AwardsReadHeld, IsHeld
  <2>1. ~(d = c /\ j = k)
    BY DEF AwardInFlight, TypeInv, TypeOK
  <2>2. award'[d][j] = award[d][j]
    BY <2>1 DEF TypeInv, TypeOK
  <2> QED
    BY <2>2 DEF TypeInv, AwardsReadHeld, AwardInFlight
<1> QED
  BY <1>2, <1>3

LEMMA AwardWriteType ==
  ASSUME TypeInv, NEW c \in Collab, NEW k \in Case, AwardWrite(c, k)
  PROVE  TypeInv'
<1> DEFINE p == award[c][k].read
           a == DisputeAward(p.creator + p.fee, p.fee, award[c][k].percent)
           creatorBack == NonNegative(p.creator - a.creator)
           platformBack == NonNegative(p.fee - a.fee)
           released == award[c][k].percent > 0
<1>1. /\ p \in Payment /\ award[c][k].percent \in 0 .. 100
  BY DEF TypeInv, TypeOK
<1>2. p.creator + p.fee > 0
  BY DEF AwardWrite, TypeInv, AwardsReadHeld
<1>3. /\ payment[c] \in Payment /\ book[c] \in Book /\ revenue[c] \in Revenue
      /\ Owner[c] \in User
      /\ dispute[c] \in [Case -> DisputeStatus]
  BY DEF TypeInv, TypeOK
<1>4. a.creator \in Nat /\ a.fee \in Nat /\ a.business \in Nat
  <2> HIDE DEF p
  <2>1. /\ a.creator \in 0 .. p.creator /\ a.fee \in 0 .. p.fee
        /\ a.business \in 0 .. (p.creator + p.fee)
    BY <1>1, <1>2, <1>3, AwardSplit
  <2> QED
    BY <1>1, <1>2, <1>3, <2>1 DEF Payment
<1>5. /\ payment' = [payment EXCEPT ![c] = Awarded(@, a, released)]
      /\ book' = [book EXCEPT ![c] =
                    Posted(book[c], AwardBatch(a, creatorBack, platformBack))]
      /\ wallet' = [wallet EXCEPT ![Owner[c]] = @ + a.business]
      /\ revenue' = [revenue EXCEPT ![c] = RevenueAwarded(@, a.fee)]
      /\ status' = [status EXCEPT ![c] = IF released THEN "COMPLETED" ELSE "CANCELLED"]
      /\ dispute' = [dispute EXCEPT ![c] = [dispute[c] EXCEPT ![k] = "CLOSED"]]
      /\ award' = [award EXCEPT ![c] = [award[c] EXCEPT ![k] = NoAward]]
      /\ UNCHANGED <<toppedUp, edit>>
  BY DEF AwardWrite
<1>6. creatorBack \in Nat /\ platformBack \in Nat
  BY <1>1, <1>2, <1>3, <1>4 DEF NonNegative, Payment
<1> HIDE DEF p, a, creatorBack, platformBack, released
<1>7. payment' \in [Collab -> Payment]
  <2>1. Awarded(payment[c], a, released) \in Payment
    BY <1>3, <1>4 DEF Awarded, Payment, PaymentStatus
  <2> QED
    BY <1>5, <2>1 DEF TypeInv, TypeOK
<1>8. book' \in [Collab -> Book]
  <2>1. AwardBatch(a, creatorBack, platformBack) \in Book
    BY <1>4, <1>6 DEF AwardBatch, Book
  <2> QED
    BY <1>1, <1>2, <1>3, <1>5, <2>1, PostedType DEF TypeInv, TypeOK
<1>9. wallet' \in [User -> Nat]
  BY <1>1, <1>2, <1>3, <1>4, <1>5 DEF TypeInv, TypeOK
<1>10. revenue' \in [Collab -> Revenue]
  <2>1. a.fee \in Int /\ TRUE \in BOOLEAN
    BY <1>4
  <2>2. RevenueAwarded(revenue[c], a.fee) \in Revenue
    BY <1>3, <2>1, RevenueType
  <2> QED
    BY <1>5, <2>2 DEF TypeInv, TypeOK
<1>11. dispute' \in [Collab -> [Case -> DisputeStatus]]
  <2>1. dispute \in [Collab -> [Case -> DisputeStatus]] /\ "CLOSED" \in DisputeStatus
    BY DEF TypeInv, TypeOK, DisputeStatus
  <2> QED
    BY <1>5, <2>1, RowWritten
<1>12. TypeOK'
  BY <1>5, <1>7, <1>8, <1>9, <1>10, <1>11, AwardEnds DEF TypeInv, TypeOK, CollabStatus
<1> QED
  BY <1>5, <1>12, AwardEnds DEF TypeInv

LEMMA AwardAbortType ==
  ASSUME TypeInv, NEW c \in Collab, NEW k \in Case, AwardAbort(c, k)
  PROVE  TypeInv'
BY AwardEnds DEF AwardAbort, TypeInv, TypeOK

LEMMA TypeStep == TypeInv /\ [Next]_vars => TypeInv'
<1> SUFFICES ASSUME TypeInv, [Next]_vars
             PROVE  TypeInv'
  OBVIOUS
<1>1. ASSUME NEW u \in User, NEW x \in TopUpAmounts, TopUp(u, x)
      PROVE  TypeInv'
  BY <1>1, TopUpType
<1>2. ASSUME NEW c \in Collab, MoneyStep(c)
      PROVE  TypeInv'
  BY <1>2, FundType, ReleaseType, RefundType, StatusType DEF MoneyStep
<1>3. ASSUME NEW c \in Collab, NEW k \in Case, DisputeStep(c, k)
      PROVE  TypeInv'
  BY <1>3, CaseType, AwardReadType, AwardWriteType, AwardAbortType DEF DisputeStep
<1>4. ASSUME NEW c \in Collab, NEW new \in {"IN_REVIEW", "PUBLISHED", "PROVEN"},
             Progress(c, new)
      PROVE  TypeInv'
  BY <1>4, StatusType
<1>5. ASSUME NEW c \in Collab, RetentionFailed(c)
      PROVE  TypeInv'
  BY <1>5, StatusType
<1>6. CASE UNCHANGED vars
  BY <1>6 DEF vars, TypeInv, TypeOK, AwardsReadHeld, AwardInFlight
<1> QED
  BY <1>1, <1>2, <1>3, <1>4, <1>5, <1>6 DEF Next

(* In every interleaving, awards on stale reads included, the variables    *)
(* keep their types.  The part that could fail: no wallet is overdrawn by  *)
(* concurrent funding, and no payment row is refunded below zero.          *)
THEOREM TypeCorrect == Spec => []TypeOK
<1>1. Spec => []TypeInv
  BY TypeInit, TypeStep, PTL DEF Spec
<1>2. TypeInv => TypeOK
  BY DEF TypeInv
<1> QED
  BY <1>1, <1>2, PTL
-----------------------------------------------------------------------------
(* What the ledger holds of one payment. *)
HeldIn(b) == b.pending + b.platform + b.available + b.earned

LEMMA OwnedIsFinite ==
  ASSUME NEW u \in User
  PROVE  IsFiniteSet(OwnedBy(u)) /\ OwnedBy(u) \in SUBSET Collab
BY FiniteCollabs, FS_Subset DEF OwnedBy

LEMMA ConservedInit == Init => MoneyConserved
<1> SUFFICES ASSUME Init, NEW u \in User
             PROVE  toppedUp[u] = wallet[u] + SumFunctionOnSet(InLedger, OwnedBy(u))
  BY DEF MoneyConserved
<1>1. \A c \in OwnedBy(u) : InLedger[c] = 0
  BY DEF InLedger, OwnedBy, Init, NoBook
<1>2. SumFunctionOnSet(InLedger, OwnedBy(u)) = 0
  BY <1>1, OwnedIsFinite, SumOfZeros
<1> QED
  BY <1>2 DEF Init

(* A step that moves x between the wallet of an owner and one of its       *)
(* payments: only this owner's sum changes, and by what its wallet did.    *)
LEMMA MovedWithin ==
  ASSUME TypeInv, MoneyConserved, NEW c \in Collab, NEW b \in Book, NEW x \in Int,
         HeldIn(b) = HeldIn(book[c]) - x,
         book' = [book EXCEPT ![c] = b],
         wallet' = [wallet EXCEPT ![Owner[c]] = @ + x],
         toppedUp' = toppedUp
  PROVE  MoneyConserved'
<1> SUFFICES ASSUME NEW u \in User
             PROVE  toppedUp'[u] = wallet'[u] + SumFunctionOnSet(InLedger', OwnedBy(u))
  BY DEF MoneyConserved, OwnedBy
<1>1. ASSUME NEW d \in Collab
      PROVE  /\ InLedger[d] = HeldIn(book[d]) /\ InLedger[d] \in Int
             /\ InLedger'[d] = HeldIn(book'[d]) /\ InLedger'[d] \in Int
             /\ d # c => InLedger'[d] = InLedger[d]
  <2>1. book[d] \in Book /\ book'[d] = IF d = c THEN b ELSE book[d]
    BY DEF TypeInv, TypeOK
  <2> QED
    BY <2>1 DEF InLedger, HeldIn, Book
<1>2. InLedger'[c] - InLedger[c] = -x
  <2>1. book'[c] = b
    BY DEF TypeInv, TypeOK
  <2> QED
    BY <1>1, <2>1
<1>3. IsFiniteSet(OwnedBy(u)) /\ OwnedBy(u) \in SUBSET Collab
  BY OwnedIsFinite
<1>4. /\ SumFunctionOnSet(InLedger, OwnedBy(u)) \in Int
      /\ SumFunctionOnSet(InLedger', OwnedBy(u)) =
           SumFunctionOnSet(InLedger, OwnedBy(u))
             + (IF c \in OwnedBy(u) THEN InLedger'[c] - InLedger[c] ELSE 0)
  BY <1>1, <1>3, SumChange
<1>5. c \in OwnedBy(u) <=> u = Owner[c]
  BY DEF OwnedBy
<1>6. wallet[u] \in Int /\ wallet'[u] = wallet[u] + (IF u = Owner[c] THEN x ELSE 0)
  BY DEF TypeInv, TypeOK
<1>7. toppedUp[u] = wallet[u] + SumFunctionOnSet(InLedger, OwnedBy(u))
  BY DEF MoneyConserved
<1> DEFINE before == SumFunctionOnSet(InLedger, OwnedBy(u))
           after == SumFunctionOnSet(InLedger', OwnedBy(u))
<1> HIDE DEF before, after
<1>8. /\ before \in Int /\ after = before + (IF u = Owner[c] THEN -x ELSE 0)
      /\ toppedUp[u] = wallet[u] + before
  BY <1>2, <1>4, <1>5, <1>7 DEF before, after
<1>9. toppedUp'[u] = wallet'[u] + after
  BY <1>6, <1>8
<1> QED
  BY <1>9 DEF after

LEMMA Unmoved ==
  ASSUME MoneyConserved, UNCHANGED <<wallet, toppedUp, book>>
  PROVE  MoneyConserved'
BY DEF MoneyConserved, InLedger, OwnedBy

LEMMA TopUpConserves ==
  ASSUME TypeInv, MoneyConserved, NEW u \in User, NEW x \in TopUpAmounts, TopUp(u, x)
  PROVE  MoneyConserved'
<1>1. InLedger' = InLedger
  BY DEF TopUp, InLedger
<1> SUFFICES ASSUME NEW w \in User
             PROVE  toppedUp'[w] = wallet'[w] + SumFunctionOnSet(InLedger, OwnedBy(w))
  BY <1>1 DEF MoneyConserved, OwnedBy
<1>2. /\ toppedUp[w] = wallet[w] + SumFunctionOnSet(InLedger, OwnedBy(w))
      /\ toppedUp[w] \in Nat /\ wallet[w] \in Nat /\ x \in Nat
  BY DEF MoneyConserved, TypeInv, TypeOK
<1>3. SumFunctionOnSet(InLedger, OwnedBy(w)) \in Int
  <2>1. \A c \in Collab : InLedger[c] \in Int
    BY DEF InLedger, TypeInv, TypeOK, Book
  <2> QED
    BY <2>1, OwnedIsFinite, SumChange
<1> DEFINE sum == SumFunctionOnSet(InLedger, OwnedBy(w))
<1> HIDE DEF sum
<1>4. sum \in Int /\ toppedUp[w] = wallet[w] + sum
  BY <1>2, <1>3 DEF sum
<1>5. toppedUp'[w] = toppedUp[w] + (wallet'[w] - wallet[w]) /\ wallet'[w] \in Nat
  BY <1>2 DEF TopUp, TypeInv, TypeOK
<1>6. toppedUp'[w] = wallet'[w] + sum
  BY <1>2, <1>4, <1>5
<1> QED
  BY <1>6 DEF sum

LEMMA FundConserves ==
  ASSUME TypeInv, MoneyConserved, NEW c \in Collab, NEW rate \in CommissionRates,
         NEW barterFee \in BarterFees, Fund(c, rate, barterFee)
  PROVE  MoneyConserved'
<1> DEFINE f == CollaborationFinance(TermsOf[c], rate, barterFee)
<1>1. f \in [payable : Nat, creator : Nat, fee : Nat] /\ f.payable = f.creator + f.fee
  <2> DEFINE terms == TermsOf[c]
  <2>1. /\ terms \in [kind : {"PAID", "BARTER", "HYBRID"}, cash : Nat]
        /\ rate \in 0 .. 100 /\ barterFee \in Nat
    OBVIOUS
  <2> HIDE DEF terms
  <2>2. LET g == CollaborationFinance(terms, rate, barterFee)
        IN  /\ g \in [payable : Nat, creator : Nat, fee : Nat]
            /\ g.payable = g.creator + g.fee
    BY <2>1, FundingSplitIsExact
  <2> QED
    BY <2>2 DEF terms
<1> DEFINE b == Posted(book[c], FundingBatch(f))
<1>2. /\ book' = [book EXCEPT ![c] = b] /\ toppedUp' = toppedUp
      /\ wallet' = [wallet EXCEPT ![Owner[c]] = @ - f.payable]
  BY DEF Fund
<1> HIDE DEF f
<1>3. book[c] \in Book /\ wallet[Owner[c]] \in Int
  BY DEF TypeInv, TypeOK
<1>4. FundingBatch(f) \in Book /\ -f.payable \in Int
  BY <1>1 DEF FundingBatch, Book
<1>5. b \in Book
  BY <1>3, <1>4, PostedType
<1>6. HeldIn(b) = HeldIn(book[c]) - (-f.payable)
  BY <1>1, <1>3 DEF HeldIn, Posted, FundingBatch, Book
<1>7. wallet' = [wallet EXCEPT ![Owner[c]] = @ + (-f.payable)]
  BY <1>1, <1>2, <1>3
<1> HIDE DEF b
<1> QED
  BY <1>2, <1>4, <1>5, <1>6, <1>7, MovedWithin

LEMMA ReleaseConserves ==
  ASSUME TypeInv, MoneyConserved, NEW c \in Collab, Release(c)
  PROVE  MoneyConserved'
<1> DEFINE b == Posted(book[c], SettlementBatch(payment[c]))
<1>1. /\ book' = [book EXCEPT ![c] = b] /\ toppedUp' = toppedUp /\ wallet' = wallet
  BY DEF Release
<1>2. book[c] \in Book /\ payment[c] \in Payment /\ wallet \in [User -> Nat]
  BY DEF TypeInv, TypeOK
<1>3. b \in Book /\ HeldIn(b) = HeldIn(book[c]) - 0
  BY <1>2 DEF HeldIn, Posted, SettlementBatch, Book, Payment
<1>4. 0 \in Int /\ wallet' = [wallet EXCEPT ![Owner[c]] = @ + 0]
  BY <1>1, <1>2
<1> HIDE DEF b
<1> QED
  BY <1>1, <1>3, <1>4, MovedWithin

LEMMA RefundConserves ==
  ASSUME TypeInv, MoneyConserved, NEW c \in Collab, NEW percent \in RefundPercents,
         NEW x \in 1 .. (payment[c].amount - payment[c].refunded),
         Refund(c, x, percent)
  PROVE  MoneyConserved'
<1> DEFINE p == payment[c]
           creator == RefundCreatorShare(p.creator, x, p.amount - p.refunded)
           platform == x - creator
           b == Posted(book[c], RefundBatch(creator, platform))
<1>1. /\ book' = [book EXCEPT ![c] = b] /\ toppedUp' = toppedUp
      /\ wallet' = [wallet EXCEPT ![Owner[c]] = @ + x]
  BY DEF Refund
<1>2. p \in Payment /\ book[c] \in Book
  BY DEF TypeInv, TypeOK
<1>3. creator \in 0 .. p.creator
  BY <1>2, RefundShare
<1>4. x \in Int /\ creator \in Int /\ platform \in Int /\ creator + platform = x
  BY <1>2, <1>3 DEF Payment
<1> HIDE DEF creator, platform
<1>5. b \in Book /\ HeldIn(b) = HeldIn(book[c]) - x
  BY <1>2, <1>4 DEF HeldIn, Posted, RefundBatch, Book
<1> HIDE DEF b
<1> QED
  BY <1>1, <1>4, <1>5, MovedWithin

(* Even an award that writes what it decided from a payment that has since *)
(* changed moves no more than it credits: walletDisputeSettlement checks   *)
(* that its parts add up before it posts.                                  *)
LEMMA AwardConserves ==
  ASSUME TypeInv, MoneyConserved, NEW c \in Collab, NEW k \in Case, AwardWrite(c, k)
  PROVE  MoneyConserved'
<1> DEFINE p == award[c][k].read
           a == DisputeAward(p.creator + p.fee, p.fee, award[c][k].percent)
           creatorBack == NonNegative(p.creator - a.creator)
           platformBack == NonNegative(p.fee - a.fee)
           b == Posted(book[c], AwardBatch(a, creatorBack, platformBack))
<1>1. p \in Payment /\ award[c][k].percent \in 0 .. 100 /\ book[c] \in Book
  BY DEF TypeInv, TypeOK
<1>2. p.creator + p.fee > 0
  BY DEF AwardWrite, TypeInv, AwardsReadHeld
<1>3. /\ book' = [book EXCEPT ![c] = b] /\ toppedUp' = toppedUp
      /\ wallet' = [wallet EXCEPT ![Owner[c]] = @ + a.business]
      /\ creatorBack + platformBack = a.business
  BY DEF AwardWrite
<1>4. a.creator \in Nat /\ a.fee \in Nat /\ a.business \in Nat
  <2> HIDE DEF p
  <2>1. /\ a.creator \in 0 .. p.creator /\ a.fee \in 0 .. p.fee
        /\ a.business \in 0 .. (p.creator + p.fee)
    BY <1>1, <1>2, AwardSplit
  <2> QED
    BY <1>1, <2>1 DEF Payment
<1>5. creatorBack \in Nat /\ platformBack \in Nat
  BY <1>1, <1>4 DEF NonNegative, Payment
<1> HIDE DEF p, a, creatorBack, platformBack
<1>6. a.business \in Int /\ b \in Book /\ HeldIn(b) = HeldIn(book[c]) - a.business
  BY <1>1, <1>3, <1>4, <1>5 DEF HeldIn, Posted, AwardBatch, Book
<1> HIDE DEF b
<1> QED
  BY <1>3, <1>6, MovedWithin

LEMMA ConservedStep == TypeInv /\ MoneyConserved /\ [Next]_vars => MoneyConserved'
<1> SUFFICES ASSUME TypeInv, MoneyConserved, [Next]_vars
             PROVE  MoneyConserved'
  OBVIOUS
<1>1. ASSUME NEW u \in User, NEW x \in TopUpAmounts, TopUp(u, x)
      PROVE  MoneyConserved'
  BY <1>1, TopUpConserves
<1>2. ASSUME NEW c \in Collab, MoneyStep(c)
      PROVE  MoneyConserved'
  <2>1. CASE ReleaseAgain(c)
    BY <2>1, Unmoved DEF ReleaseAgain
  <2> QED
    BY <1>2, <2>1, FundConserves, ReleaseConserves, RefundConserves DEF MoneyStep
<1>3. ASSUME NEW c \in Collab, NEW k \in Case, DisputeStep(c, k)
      PROVE  MoneyConserved'
  <2>1. CASE AwardWrite(c, k)
    BY <2>1, AwardConserves
  <2>2. CASE ~AwardWrite(c, k)
    BY <1>3, <2>2, Unmoved
    DEF DisputeStep, OpenDisputeRead, FreezeContractRead, CreateDispute, EditCaseRead,
        EditCaseWrite, AwardRead, AwardAbort
  <2> QED
    BY <2>1, <2>2
<1>4. ASSUME NEW c \in Collab, NEW new \in {"IN_REVIEW", "PUBLISHED", "PROVEN"},
             Progress(c, new)
      PROVE  MoneyConserved'
  BY <1>4, Unmoved DEF Progress
<1>5. ASSUME NEW c \in Collab, RetentionFailed(c)
      PROVE  MoneyConserved'
  BY <1>5, Unmoved DEF RetentionFailed
<1>6. CASE UNCHANGED vars
  BY <1>6, Unmoved DEF vars
<1> QED
  BY <1>1, <1>2, <1>3, <1>4, <1>5, <1>6 DEF Next

(* However many collaborations share a wallet and however their operations *)
(* interleave, awards on stale reads included, what a business topped up   *)
(* is in its wallet or in the ledger entries of its payments.              *)
THEOREM MoneyIsConserved == Spec => []MoneyConserved
<1>1. Spec => []TypeInv
  BY TypeInit, TypeStep, PTL DEF Spec
<1> QED
  BY <1>1, ConservedInit, ConservedStep, PTL DEF Spec
=============================================================================

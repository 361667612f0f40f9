------------------------------- MODULE Escrow -------------------------------
(***************************************************************************)
(* The wallet-funded payment of a collaboration, from funding to release,  *)
(* refund or dispute award: payments/wallet.service.js, the wallet rules   *)
(* of payments/ledger.service.js, disputes/dispute.service.js and the      *)
(* dispute operations of admin/admin.service.js.                           *)
(*                                                                         *)
(* wallet.service.js runs every operation in one SERIALIZABLE transaction  *)
(* (wallet.repository.js:4), so each is one action here.  The dispute and  *)
(* admin services use PostgreSQL's default READ COMMITTED: an operation    *)
(* that writes what it decided from an earlier read is split into a read   *)
(* step and a write step, and any other operation may commit in between.   *)
(***************************************************************************)
EXTENDS FinanceRules, FiniteSets, Functions

CONSTANTS
  User,            \* the businesses
  Collab,          \* collaborations whose contract is ACTIVE
  Owner,           \* the business of each collaboration
  TermsOf,         \* the agreed terms of each collaboration
  CommissionRates, \* values the platform setting "commission" takes
  BarterFees,      \* values the platform setting "barterPlatformFee" takes
  RefundPercents,  \* the percentages the setting "refundPolicy" allows
  AwardPercents,   \* the creator's percentage of an award: 0, 100 or a split
  TopUpAmounts,    \* amounts of a verified wallet top-up
  MaxToppedUp,     \* bound: what one business tops up in total
  Case,            \* bound: the disputes one collaboration can have
  SerialAwards     \* TRUE: an award whose reads are stale does not commit

ASSUME EscrowAssumption ==
  /\ Owner \in [Collab -> User]
  /\ TermsOf \in [Collab -> [kind : {"PAID", "BARTER", "HYBRID"}, cash : Nat]]
  /\ CommissionRates \subseteq 0 .. 100
  /\ BarterFees \subseteq Nat
  /\ RefundPercents \subseteq 0 .. 100
  /\ AwardPercents \subseteq 0 .. 100
  /\ TopUpAmounts \subseteq Nat \ {0}
  /\ MaxToppedUp \in Nat
  /\ SerialAwards \in BOOLEAN

(* A business's wallet is compared with the sum over its collaborations. *)
ASSUME FiniteCollabs == IsFiniteSet(Collab)

VARIABLES
  wallet,    \* LedgerAccount balance of business-wallet:<user>, credit positive
  toppedUp,  \* what provider-clearing has credited to each wallet
  payment,   \* the funding Payment of each collaboration
  book,      \* the ledger entries of that payment, summed by account
  revenue,   \* its PlatformRevenue row
  status,    \* Collaboration.status
  dispute,   \* TrustCase.status of the disputes of each collaboration
  edit,      \* the status an uncommitted addEvidence or resolveCase will write
  award      \* what an uncommitted resolveAward has read

vars == <<wallet, toppedUp, payment, book, revenue, status, dispute, edit, award>>
-----------------------------------------------------------------------------
PaymentStatus == {"NONE", "FUNDED", "PARTIALLY_REFUNDED", "RELEASED", "REFUNDED"}
RevenueStatus == {"NONE", "PENDING", "EARNED", "REFUNDED"}
CollabStatus  == {"PAYMENT_PENDING", "IN_PROGRESS", "IN_REVIEW", "PUBLISHED",
                  "PROVEN", "DISPUTED", "COMPLETED", "CANCELLED"}

(* ACTIVE: TrustCase.status is OPEN, UNDER_REVIEW or ESCALATED; CLOSED: it *)
(* is RESOLVED or DISMISSED.  OPENING: open() or freezeContract() has made *)
(* its checks and not yet created the row.                                 *)
DisputeStatus == {"NONE", "OPENING", "ACTIVE", "CLOSED"}

(* refunded: the sum of the payment's REFUNDED PaymentRefund rows.         *)
Payment == [status : PaymentStatus, amount : Nat, creator : Nat, fee : Nat,
            refunded : Nat]

Revenue == [status : RevenueStatus, amount : Nat]

(* Net credit of each account over the entries that carry the paymentId:   *)
(* creator-pending, platform-pending, creator-available, platform-revenue, *)
(* and what went back to business-wallet.  The escrow account is credited  *)
(* and debited in full within the funding batch, so it stays at zero.      *)
Book == [pending : Int, platform : Int, available : Int, earned : Int,
         returned : Int]

NoPayment == [status |-> "NONE", amount |-> 0, creator |-> 0, fee |-> 0,
              refunded |-> 0]
NoBook    == [pending |-> 0, platform |-> 0, available |-> 0, earned |-> 0,
              returned |-> 0]
NoRevenue == [status |-> "NONE", amount |-> 0]
NoAward   == [read |-> NoPayment, percent |-> 0]

(* Mutant: a released payment can be released or awarded again. *)
HeldOrReleased(p) == p.status \in {"FUNDED", "PARTIALLY_REFUNDED", "RELEASED"}

IsHeld(p) == p.status \in {"FUNDED", "PARTIALLY_REFUNDED"}

ActiveDisputes(c) == {k \in Case : dispute[c][k] = "ACTIVE"}

AwardInFlight(c, k) == award[c][k] # NoAward

Init ==
  /\ wallet   = [u \in User |-> 0]
  /\ toppedUp = [u \in User |-> 0]
  /\ payment  = [c \in Collab |-> NoPayment]
  /\ book     = [c \in Collab |-> NoBook]
  /\ revenue  = [c \in Collab |-> NoRevenue]
  /\ status   = [c \in Collab |-> "PAYMENT_PENDING"]
  /\ dispute  = [c \in Collab |-> [k \in Case |-> "NONE"]]
  /\ edit     = [c \in Collab |-> [k \in Case |-> "NONE"]]
  /\ award    = [c \in Collab |-> [k \in Case |-> NoAward]]
-----------------------------------------------------------------------------
(* walletService.processVerifiedTopUp once the provider event is accepted. *)
TopUp(u, x) ==
  /\ toppedUp[u] + x <= MaxToppedUp
  /\ wallet'   = [wallet EXCEPT ![u] = @ + x]
  /\ toppedUp' = [toppedUp EXCEPT ![u] = @ + x]
  /\ UNCHANGED <<payment, book, revenue, status, dispute, edit, award>>

(* The batches of ledgerRules.walletFunding, walletSettlement,             *)
(* walletRefund and walletDisputeSettlement: what each adds to an account. *)
FundingBatch(f) ==
  [pending |-> f.creator, platform |-> f.fee, available |-> 0, earned |-> 0,
   returned |-> 0]

(* Mutant: the creator is paid the platform's commission too. *)
GrossSettlementBatch(p) ==
  [pending |-> -p.creator, platform |-> -p.fee, available |-> p.creator + p.fee,
   earned |-> 0, returned |-> 0]

SettlementBatch(p) ==
  [pending |-> -p.creator, platform |-> -p.fee, available |-> p.creator,
   earned |-> p.fee, returned |-> 0]

RefundBatch(creator, platform) ==
  [pending |-> -creator, platform |-> -platform, available |-> 0, earned |-> 0,
   returned |-> creator + platform]

AwardBatch(split, creatorBack, platformBack) ==
  [pending |-> -(split.creator + creatorBack), platform |-> -(split.fee + platformBack),
   available |-> split.creator, earned |-> split.fee,
   returned |-> creatorBack + platformBack]

(* Mutant: a balance is set to the amount posted. *)
Overwritten(b, batch) == batch

(* postLedgerBatch: account balances are incremented, never overwritten. *)
Posted(b, batch) ==
  [pending   |-> b.pending + batch.pending,
   platform  |-> b.platform + batch.platform,
   available |-> b.available + batch.available,
   earned    |-> b.earned + batch.earned,
   returned  |-> b.returned + batch.returned]

(* What happens to the PlatformRevenue row, if the payment has one, when   *)
(* it is funded with a fee, released, refunded by platform out of the fee, *)
(* or awarded with fee left for the platform.                              *)
RevenueCreated(r, fee) ==
  IF fee > 0 THEN [status |-> "PENDING", amount |-> fee] ELSE r

RevenueReleased(r) ==
  IF r.status = "NONE" THEN r ELSE [status |-> "EARNED", amount |-> r.amount]

(* Mutant: a refund leaves the PlatformRevenue row as it is. *)
RevenueKept(r, platform, full) == r

RevenueRefunded(r, platform, full) ==
  IF r.status = "NONE" \/ platform <= 0 THEN r
  ELSE IF full \/ r.amount <= platform
    THEN [status |-> "REFUNDED", amount |-> 0]
    ELSE [status |-> r.status, amount |-> r.amount - platform]

RevenueAwarded(r, fee) ==
  IF r.status = "NONE" THEN r
  ELSE IF fee > 0 THEN [status |-> "EARNED", amount |-> fee]
                  ELSE [status |-> "REFUNDED", amount |-> 0]

(* walletService.fundCollaboration.  A ledger batch with a posting of zero *)
(* is rejected, so a payable amount of zero cannot be funded.              *)
Fund(c, rate, barterFee) ==
  LET f == CollaborationFinance(TermsOf[c], rate, barterFee) IN
  /\ payment[c].status \notin {"FUNDED", "PARTIALLY_REFUNDED", "RELEASED"}
  /\ status[c] = "PAYMENT_PENDING"
  /\ AcceptedTerms(TermsOf[c])
  /\ f.payable \in 1 .. wallet[Owner[c]]
  /\ payment' = [payment EXCEPT ![c] =
                   [status |-> "FUNDED", amount |-> f.payable,
                    creator |-> f.creator, fee |-> f.fee, refunded |-> 0]]
  /\ wallet'  = [wallet EXCEPT ![Owner[c]] = @ - f.payable]
  /\ book'    = [book EXCEPT ![c] = Posted(@, FundingBatch(f))]
  /\ revenue' = [revenue EXCEPT ![c] = RevenueCreated(@, f.fee)]
  /\ status'  = [status EXCEPT ![c] = "IN_PROGRESS"]
  /\ UNCHANGED <<toppedUp, dispute, edit, award>>

(* walletService.release of a funded payment: it does not look at disputes *)
(* and overwrites whatever status the collaboration has.                   *)
Release(c) ==
  /\ IsHeld(payment[c])
  /\ payment' = [payment EXCEPT ![c] = [@ EXCEPT !.status = "RELEASED"]]
  /\ book'    = [book EXCEPT ![c] = Posted(@, SettlementBatch(payment[c]))]
  /\ revenue' = [revenue EXCEPT ![c] = RevenueReleased(@)]
  /\ status'  = [status EXCEPT ![c] = "COMPLETED"]
  /\ UNCHANGED <<wallet, toppedUp, dispute, edit, award>>

(* Mutant: release completes a collaboration whose payment is not held. *)
ReleaseNothing(c) ==
  /\ ~IsHeld(payment[c]) /\ status[c] # "COMPLETED"
  /\ status' = [status EXCEPT ![c] = "COMPLETED"]
  /\ UNCHANGED <<wallet, toppedUp, payment, book, revenue, dispute, edit, award>>

(* walletService.release of a payment released before. *)
ReleaseAgain(c) ==
  /\ payment[c].status = "RELEASED" /\ status[c] # "COMPLETED"
  /\ status' = [status EXCEPT ![c] = "COMPLETED"]
  /\ UNCHANGED <<wallet, toppedUp, payment, book, revenue, dispute, edit, award>>

(* walletService.refund of x, by the business or an administrator, under a *)
(* policy that allows percent of what remains.                             *)
Refund(c, x, percent) ==
  LET p         == payment[c]
      remaining == p.amount - p.refunded
      creator   == RefundCreatorShare(p.creator, x, remaining)
      platform  == x - creator
      full      == p.refunded + x = p.amount
  IN
  /\ p.status \notin {"NONE", "RELEASED"}
  /\ x \in 1 .. remaining
  /\ x <= RoundHalfUp(remaining * percent, 100)
  /\ platform <= p.fee
  /\ payment' = [payment EXCEPT ![c] =
       [p EXCEPT !.status   = IF full THEN "REFUNDED" ELSE "PARTIALLY_REFUNDED",
                 !.creator  = @ - creator,
                 !.fee      = @ - platform,
                 !.refunded = @ + x]]
  /\ book' = [book EXCEPT ![c] = Posted(@, RefundBatch(creator, platform))]
  /\ wallet' = [wallet EXCEPT ![Owner[c]] = @ + x]
  /\ revenue' = [revenue EXCEPT ![c] = RevenueRefunded(@, platform, full)]
  /\ status' = IF full THEN [status EXCEPT ![c] = "CANCELLED"] ELSE status
  /\ UNCHANGED <<toppedUp, dispute, edit, award>>
-----------------------------------------------------------------------------
(* disputeService.open up to its transaction: the state of the             *)
(* collaboration and the absence of an active dispute are read here.       *)
OpenDisputeRead(c, k) ==
  /\ status[c] \notin {"COMPLETED", "CANCELLED"}
  /\ ActiveDisputes(c) = {}
  /\ dispute[c][k] = "NONE"
  /\ dispute' = [dispute EXCEPT ![c][k] = "OPENING"]
  /\ UNCHANGED <<wallet, toppedUp, payment, book, revenue, status, edit, award>>

(* The check of adminService.freezeContract: any collaboration passes. *)
FreezeContractRead(c, k) ==
  /\ ActiveDisputes(c) = {}
  /\ dispute[c][k] = "NONE"
  /\ dispute' = [dispute EXCEPT ![c][k] = "OPENING"]
  /\ UNCHANGED <<wallet, toppedUp, payment, book, revenue, status, edit, award>>

(* The row is created; neither of the two looks again. *)
CreateDispute(c, k) ==
  /\ dispute[c][k] = "OPENING"
  /\ dispute' = [dispute EXCEPT ![c][k] = "ACTIVE"]
  /\ UNCHANGED <<wallet, toppedUp, payment, book, revenue, status, edit, award>>

(* disputeService.addEvidence (new = ACTIVE: the case is UNDER_REVIEW) and *)
(* adminService.resolveCase (ACTIVE: ESCALATE; CLOSED: RESOLVE or DISMISS) *)
(* read that the case is not closed ...                                    *)
EditCaseRead(c, k, new) ==
  /\ dispute[c][k] = "ACTIVE"
  /\ edit[c][k] = "NONE"
  /\ edit' = [edit EXCEPT ![c][k] = new]
  /\ UNCHANGED <<wallet, toppedUp, payment, book, revenue, status, dispute, award>>

(* ... and then write its new status, whatever it has become. *)
EditCaseWrite(c, k) ==
  /\ edit[c][k] # "NONE"
  /\ dispute' = [dispute EXCEPT ![c][k] = edit[c][k]]
  /\ edit' = [edit EXCEPT ![c][k] = "NONE"]
  /\ UNCHANGED <<wallet, toppedUp, payment, book, revenue, status, award>>
-----------------------------------------------------------------------------
(* The reads of disputeService.resolveAward: an open case and the payment  *)
(* it will divide.  A second call for the same case posts the same ledger  *)
(* batch and the same provider reference, so one in flight is enough.      *)
AwardRead(c, k, percent) ==
  /\ dispute[c][k] = "ACTIVE"
  /\ IsHeld(payment[c])
  /\ payment[c].creator + payment[c].fee > 0
  /\ ~AwardInFlight(c, k)
  /\ award' = [award EXCEPT ![c][k] = [read |-> payment[c], percent |-> percent]]
  /\ UNCHANGED <<wallet, toppedUp, payment, book, revenue, status, dispute, edit>>

NonNegative(n) == IF n > 0 THEN n ELSE 0

(* Mutants: an award does not settle the payment row; it writes no         *)
(* PaymentRefund row for the business's part.                              *)
AwardedStillHeld(p, split, released) ==
  [p EXCEPT !.creator = split.creator, !.fee = split.fee,
            !.refunded = @ + split.business]

AwardedWithoutRefundRow(p, split, released) ==
  [p EXCEPT !.status = IF released THEN "RELEASED" ELSE "REFUNDED",
            !.creator = split.creator, !.fee = split.fee]

Awarded(p, split, released) ==
  [status   |-> IF released THEN "RELEASED" ELSE "REFUNDED",
   amount   |-> p.amount,
   creator  |-> split.creator,
   fee      |-> split.fee,
   refunded |-> p.refunded + split.business]

(* Its writes, all by primary key and none conditional on what was read.   *)
(* The ledger batch is ledgerRules.walletDisputeSettlement's.              *)
AwardWrite(c, k) ==
  LET p        == award[c][k].read
      split    == DisputeAward(p.creator + p.fee, p.fee, award[c][k].percent)
      creatorBack  == NonNegative(p.creator - split.creator)
      platformBack == NonNegative(p.fee - split.fee)
      released == award[c][k].percent > 0
  IN
  /\ AwardInFlight(c, k)
  /\ SerialAwards => payment[c] = p
  /\ creatorBack + platformBack = split.business
  /\ book' = [book EXCEPT ![c] = Posted(@, AwardBatch(split, creatorBack, platformBack))]
  /\ wallet' = [wallet EXCEPT ![Owner[c]] = @ + split.business]
  /\ payment' = [payment EXCEPT ![c] = Awarded(@, split, released)]
  /\ revenue' = [revenue EXCEPT ![c] = RevenueAwarded(@, split.fee)]
  /\ status'  = [status EXCEPT ![c] = IF released THEN "COMPLETED" ELSE "CANCELLED"]
  /\ dispute' = [dispute EXCEPT ![c][k] = "CLOSED"]
  /\ award'   = [award EXCEPT ![c][k] = NoAward]
  /\ UNCHANGED <<toppedUp, edit>>

(* The transaction rolls back: a lost connection, a crash or, if it were   *)
(* SERIALIZABLE, a serialization failure.                                  *)
AwardAbort(c, k) ==
  /\ AwardInFlight(c, k)
  /\ award' = [award EXCEPT ![c][k] = NoAward]
  /\ UNCHANGED <<wallet, toppedUp, payment, book, revenue, status, dispute, edit>>
-----------------------------------------------------------------------------
(* The delivery services write the status of a collaboration that has been *)
(* funded, from a status they read earlier: deliverableService.submit and  *)
(* review, reviewService.submitProof and moderateProof.                    *)
Progress(c, new) ==
  /\ payment[c].status # "NONE"
  /\ status' = [status EXCEPT ![c] = new]
  /\ UNCHANGED <<wallet, toppedUp, payment, book, revenue, dispute, edit, award>>

(* lifecycleService.run: a publication was removed within its retention    *)
(* period.                                                                 *)
RetentionFailed(c) ==
  /\ payment[c].status # "NONE"
  /\ status' = [status EXCEPT ![c] = "DISPUTED"]
  /\ IF ActiveDisputes(c) = {}
       THEN \E k \in Case : /\ dispute[c][k] = "NONE"
                            /\ dispute' = [dispute EXCEPT ![c][k] = "ACTIVE"]
       ELSE UNCHANGED dispute
  /\ UNCHANGED <<wallet, toppedUp, payment, book, revenue, edit, award>>
-----------------------------------------------------------------------------
MoneyStep(c) ==
  \/ \E rate \in CommissionRates, fee \in BarterFees : Fund(c, rate, fee)
  \/ Release(c)
  \/ ReleaseAgain(c)
  \/ \E percent \in RefundPercents :
       \E x \in 1 .. (payment[c].amount - payment[c].refunded) : Refund(c, x, percent)

DisputeStep(c, k) ==
  \/ OpenDisputeRead(c, k)
  \/ FreezeContractRead(c, k)
  \/ CreateDispute(c, k)
  \/ \E new \in {"ACTIVE", "CLOSED"} : EditCaseRead(c, k, new)
  \/ EditCaseWrite(c, k)
  \/ \E percent \in AwardPercents : AwardRead(c, k, percent)
  \/ AwardWrite(c, k)
  \/ AwardAbort(c, k)

Next ==
  \/ \E u \in User, x \in TopUpAmounts : TopUp(u, x)
  \/ \E c \in Collab : MoneyStep(c)
  \/ \E c \in Collab, k \in Case : DisputeStep(c, k)
  \/ \E c \in Collab, new \in {"IN_REVIEW", "PUBLISHED", "PROVEN"} : Progress(c, new)
  \/ \E c \in Collab : RetentionFailed(c)

Spec == Init /\ [][Next]_vars
-----------------------------------------------------------------------------
(* No wallet is overdrawn (walletAvailability would hide it), no payment   *)
(* row goes below zero, and every status is one of its enum.               *)
TypeOK ==
  /\ wallet   \in [User -> Nat]
  /\ toppedUp \in [User -> 0 .. MaxToppedUp]
  /\ payment  \in [Collab -> Payment]
  /\ book     \in [Collab -> Book]
  /\ revenue  \in [Collab -> Revenue]
  /\ status   \in [Collab -> CollabStatus]
  /\ dispute  \in [Collab -> [Case -> DisputeStatus]]
  /\ edit     \in [Collab -> [Case -> {"NONE", "ACTIVE", "CLOSED"}]]
  /\ award    \in [Collab -> [Case -> [read : Payment, percent : 0 .. 100]]]

(* What the ledger accounts of a payment hold: all but what was returned.  *)
InLedger == [c \in Collab |-> book[c].pending + book[c].platform
                                + book[c].available + book[c].earned]

OwnedBy(u) == {c \in Collab : Owner[c] = u}

(* Every hundredth a business topped up is in its wallet or in the ledger  *)
(* entries of its payments: the accounts of ledger.service.js add up       *)
(* across collaborations that share one wallet.                            *)
MoneyConserved ==
  \A u \in User :
    toppedUp[u] = wallet[u] + SumFunctionOnSet(InLedger, OwnedBy(u))

(* A payment that is held is exactly what the ledger still holds for it,   *)
(* and one that was settled has nothing left to pay out.  Refunds, awards  *)
(* and releases post from the payment row, so a row that has drifted from  *)
(* the ledger would pay out money nobody deposited.                        *)
HeldMatchesLedger ==
  \A c \in Collab :
    IF IsHeld(payment[c])
      THEN /\ book[c].pending  = payment[c].creator
           /\ book[c].platform = payment[c].fee
      ELSE book[c].pending = 0 /\ book[c].platform = 0

(* What was funded is held, earned or returned, and what was returned is   *)
(* the sum of the PaymentRefund rows, from which refund computes what may  *)
(* still be refunded.                                                      *)
NothingLost ==
  \A c \in Collab :
    LET b == book[c] IN
    /\ payment[c].amount
         = b.pending + b.platform + b.available + b.earned + b.returned
    /\ b.returned = payment[c].refunded

(* Creator and platform earn from a payment only by its release or award,  *)
(* and then what its row says.                                             *)
EarnedAsRecorded ==
  \A c \in Collab :
    IF payment[c].status = "RELEASED"
      THEN /\ book[c].available = payment[c].creator
           /\ book[c].earned    = payment[c].fee
      ELSE book[c].available = 0 /\ book[c].earned = 0

(* The PlatformRevenue row, which the admin reports add up, agrees with    *)
(* the two platform accounts of the ledger.                                *)
RevenueMatchesLedger ==
  \A c \in Collab :
    /\ revenue[c].amount = book[c].platform + book[c].earned
    /\ revenue[c].status = "PENDING" => book[c].earned = 0
    /\ revenue[c].status = "EARNED"  => book[c].platform = 0

(* However the stale status writes of the delivery services interleave, a  *)
(* collaboration is COMPLETED only if its payment was released and         *)
(* CANCELLED only if it was refunded in full.                              *)
FinalStatusFollowsMoney ==
  \A c \in Collab :
    /\ status[c] = "COMPLETED" => payment[c].status = "RELEASED"
    /\ status[c] = "CANCELLED" => payment[c].status = "REFUNDED"

(* A payment that was released or refunded in full, and its ledger         *)
(* entries, never change again: no refund, release or award settles it a   *)
(* second time.                                                            *)
SettledIsFinal ==
  [][\A c \in Collab :
       payment[c].status \in {"RELEASED", "REFUNDED"}
         => payment'[c] = payment[c] /\ book'[c] = book[c]]_vars

(* A released payment is not divided again by an award                     *)
(* (dispute.service.js:99 "Released settlement cannot be awarded again."). *)
ReleasedIsNotAwarded ==
  [][\A c \in Collab :
       payment[c].status = "RELEASED" => payment'[c] = payment[c]]_vars

(* While a dispute is active before and after a step, a funded payment is  *)
(* neither refunded nor released: API.md:56 says that an active dispute    *)
(* forbids release, refund and payout (PAYMENT_FROZEN_BY_DISPUTE).         *)
FrozenWhileDisputed ==
  [][\A c \in Collab :
       /\ IsHeld(payment[c])
       /\ ActiveDisputes(c) \cap {k \in Case : dispute'[c][k] = "ACTIVE"} # {}
       => payment'[c] = payment[c]]_vars

(* A collaboration has at most one active dispute (dispute.service.js:44   *)
(* "An active dispute already exists.").                                   *)
OneActiveDispute == \A c \in Collab : Cardinality(ActiveDisputes(c)) <= 1

(* COMPLETED and CANCELLED are terminal (collaboration.state.js:14-15).    *)
TerminalStatusIsFinal ==
  [][\A c \in Collab :
       status[c] \in {"COMPLETED", "CANCELLED"} => status'[c] = status[c]]_vars

(* The abstract promise: custody holds both pending accounts. *)
Promise == INSTANCE Custody WITH
  held <- [c \in Collab |-> book[c].pending + book[c].platform],
  paid <- [c \in Collab |-> book[c].available + book[c].earned],
  returned <- [c \in Collab |-> book[c].returned]

(* Every behaviour of the wallet code is one the promise allows. *)
KeepsPromise == Promise!Spec
=============================================================================

------------------------------ MODULE Delivery ------------------------------
(***************************************************************************)
(* How the work on a collaboration is delivered, accepted, published and   *)
(* paid: deliverables/deliverable.service.js, the proofs of publication of *)
(* reviews/review.service.js and the scheduled run of                      *)
(* collaborations/lifecycle.service.js, composed with Escrow, whose        *)
(* Release every acceptance ends in.                                       *)
(*                                                                         *)
(* All three services load the collaboration, decide, and write in a later *)
(* READ COMMITTED transaction that checks nothing again.  A decision that  *)
(* is not yet committed is a record in calls; a crash loses it.            *)
(***************************************************************************)
EXTENDS Escrow, Sequences

CONSTANTS
  MaxItems,        \* bound: the deliverables submitted for a collaboration
  RevisionLimit,   \* Contract.revisionLimit
  BeforePercent,   \* refundPolicy.beforeWorkPercent
  AfterPercent,    \* refundPolicy.afterWorkPercent
  MaxCalls         \* bound: requests in flight on one collaboration

ASSUME DeliveryAssumption ==
  /\ MaxItems \in Nat /\ RevisionLimit \in Nat /\ MaxCalls \in Nat
  /\ {BeforePercent, AfterPercent} \subseteq RefundPercents

VARIABLES
  items,     \* the deliverables of each collaboration, oldest first
  proof,     \* PublishProof.status of its publication
  autoDue,   \* autoApprovalDueAt is set
  settleDue, \* settlementDueAt is set
  calls      \* decisions taken and not yet written

deliveryVars == <<items, proof, autoDue, settleDue, calls>>
allVars == <<vars, deliveryVars>>

(* A deliverable is sent back at most RevisionLimit times. *)
Item == {i \in [status  : {"SUBMITTED", "REVISION_REQUESTED", "APPROVED"},
                version : 1 .. RevisionLimit + 1, revises : 0 .. MaxItems] :
           i.status = "REVISION_REQUESTED" => i.version <= RevisionLimit}

ProofStatus == {"NONE", "VERIFYING", "RETENTION_PENDING", "RETENTION_PASSED",
                "REMOVED", "REJECTED"}

(* Deliverables that no later one revises. *)
Latest(c) == {i \in DOMAIN items[c] :
                \A j \in DOMAIN items[c] : items[c][j].revises # i}

WithStatus(c, s) == {i \in Latest(c) : items[c][i].status = s}

(* Mutant: every() of an empty list is true. *)
NoneMissing(c) == WithStatus(c, "APPROVED") = Latest(c)

AllApproved(c) == Latest(c) # {} /\ WithStatus(c, "APPROVED") = Latest(c)

(* The payments walletFunding(collaboration) accepts. *)
IsFunding(p) == IsHeld(p) \/ p.status = "RELEASED"

(* Mutant: one revision more than the contract allows. *)
OneMoreRevision(item) == item.version <= RevisionLimit + 1

RevisionLeft(item) == item.version <= RevisionLimit

(* With item i decided, every deliverable that counts is accepted. *)
Completes(c, i, decision) ==
  /\ Latest(c) \ {i} \subseteq WithStatus(c, "APPROVED")
  /\ i \in Latest(c) => decision = "APPROVED"

release == [op |-> "release"]

DeliveryInit ==
  /\ Init
  /\ items     = [c \in Collab |-> <<>>]
  /\ proof     = [c \in Collab |-> "NONE"]
  /\ autoDue   = [c \in Collab |-> FALSE]
  /\ settleDue = [c \in Collab |-> FALSE]
  /\ calls     = [c \in Collab |-> {}]
-----------------------------------------------------------------------------
(* A request has read the collaboration and will write what call says. *)
Decide(c, call) ==
  /\ Cardinality(calls[c]) < MaxCalls
  /\ calls' = [calls EXCEPT ![c] = @ \cup {call}]
  /\ UNCHANGED <<vars, items, proof, autoDue, settleDue>>

(* The process stops, or the transaction fails, before the decision is     *)
(* written; the release that follows an acceptance is lost the same way.   *)
Crash(c) ==
  /\ \E call \in calls[c] : calls' = [calls EXCEPT ![c] = @ \ {call}]
  /\ UNCHANGED <<vars, items, proof, autoDue, settleDue>>

(* deliverableService.submit: a new deliverable (revises = 0), or the      *)
(* revision of one the business sent back.  copy tells requests that ask   *)
(* for the same from one another.                                          *)
SubmitRead(c, revises) ==
  /\ status[c] \in {"IN_PROGRESS", "IN_REVIEW"}
  /\ IsHeld(payment[c])
  /\ revises # 0 => /\ revises \in WithStatus(c, "REVISION_REQUESTED")
                    /\ RevisionLeft(items[c][revises])
  /\ \E n \in 1 .. MaxCalls :
       LET call == [op |-> "submit", revises |-> revises, copy |-> n]
       IN  call \notin calls[c] /\ Decide(c, call)

SubmitWrite(c, call) ==
  /\ call \in calls[c] /\ call.op = "submit"
  /\ Len(items[c]) < MaxItems
  /\ items' = [items EXCEPT ![c] = Append(@,
       [status  |-> "SUBMITTED", revises |-> call.revises,
        version |-> IF call.revises = 0 THEN 1
                                        ELSE items[c][call.revises].version + 1])]
  /\ Progress(c, "IN_REVIEW")
  /\ autoDue' = [autoDue EXCEPT ![c] = TRUE]
  /\ calls' = [calls EXCEPT ![c] = @ \ {call}]
  /\ UNCHANGED <<proof, settleDue>>

(* deliverableService.review of a submitted deliverable. *)
ReviewRead(c, i, decision) ==
  /\ status[c] \in {"IN_PROGRESS", "IN_REVIEW"}
  /\ items[c][i].status = "SUBMITTED"
  /\ decision = "REVISION_REQUESTED" => RevisionLeft(items[c][i])
  /\ Completes(c, i, decision) => IsFunding(payment[c])
  /\ Decide(c, [op |-> "review", item |-> i, decision |-> decision])

(* Deliverables whose row a transaction has updated and not committed. *)
Locked(c) == {i \in DOMAIN items[c] :
                \E call \in calls[c] : call.op = "commitReview" /\ call.item = i}

(* Its transaction updates the row and counts the approvals it can see:    *)
(* its own, and those that are committed.                                  *)
ReviewCount(c, call) ==
  /\ call \in calls[c] /\ call.op = "review"
  /\ call.item \notin Locked(c)
  /\ calls' = [calls EXCEPT ![c] = (@ \ {call}) \cup
       {[op |-> "commitReview", item |-> call.item, decision |-> call.decision,
         completed |-> Completes(c, call.item, call.decision)]}]
  /\ UNCHANGED <<vars, items, proof, autoDue, settleDue>>

(* It commits; who has counted the last one starts the release, in a       *)
(* transaction of its own.                                                 *)
ReviewCommit(c, call) ==
  /\ call \in calls[c] /\ call.op = "commitReview"
  /\ items' = [items EXCEPT ![c][call.item].status = call.decision]
  /\ IF call.completed
       THEN /\ Progress(c, "IN_REVIEW")
            /\ autoDue' = [autoDue EXCEPT ![c] = FALSE]
            /\ calls' = [calls EXCEPT ![c] = (@ \ {call}) \cup {release}]
       ELSE /\ calls' = [calls EXCEPT ![c] = @ \ {call}]
            /\ UNCHANGED <<vars, autoDue>>
  /\ UNCHANGED <<proof, settleDue>>

(* deliverableService.review called again after the last approval, the way *)
(* a business retries an acceptance whose release failed.                  *)
AcceptAgain(c) ==
  /\ status[c] \in {"IN_PROGRESS", "IN_REVIEW"}
  /\ AllApproved(c)
  /\ IsFunding(payment[c])
  /\ release \notin calls[c]
  /\ Decide(c, release)

(* Mutant: the acceptance completes the collaboration, paid or not. *)
CompleteUnpaid(c) ==
  /\ release \in calls[c]
  /\ status' = [status EXCEPT ![c] = "COMPLETED"]
  /\ calls' = [calls EXCEPT ![c] = @ \ {release}]
  /\ UNCHANGED <<wallet, toppedUp, payment, book, revenue, dispute, edit, award,
                 items, proof, autoDue, settleDue>>

(* paymentPort.releaseWalletFunding: Release, or nothing to release. *)
ReleaseCall(c) ==
  /\ release \in calls[c]
  /\ \/ Release(c)
     \/ ReleaseAgain(c)
     \/ /\ ~IsHeld(payment[c])
        /\ payment[c].status = "RELEASED" => status[c] = "COMPLETED"
        /\ UNCHANGED vars
  /\ calls' = [calls EXCEPT ![c] = @ \ {release}]
  /\ UNCHANGED <<items, proof, autoDue, settleDue>>
-----------------------------------------------------------------------------
(* lifecycleService.run, by schedule.  Auto-approval of the deliverables   *)
(* still waiting when the review window closes ...                         *)
AutoApproveRead(c) ==
  /\ status[c] = "IN_REVIEW"
  /\ autoDue[c]
  /\ WithStatus(c, "SUBMITTED") # {}
  /\ Decide(c, [op |-> "autoApprove", pending |-> WithStatus(c, "SUBMITTED")])

AutoApproveWrite(c, call) ==
  /\ call \in calls[c] /\ call.op = "autoApprove"
  /\ call.pending \cap Locked(c) = {}
  /\ items' = [items EXCEPT ![c] =
       [i \in DOMAIN @ |-> IF i \in call.pending
                             THEN [@[i] EXCEPT !.status = "APPROVED"] ELSE @[i]]]
  /\ autoDue' = [autoDue EXCEPT ![c] = FALSE]
  /\ calls' = [calls EXCEPT ![c] = @ \ {call}]
  /\ UNCHANGED <<vars, proof, settleDue>>

(* Mutant: only work whose review window has closed is reconciled. *)
SettleOverdue(c) ==
  /\ autoDue[c] /\ status[c] = "IN_REVIEW" /\ IsHeld(payment[c])
  /\ AllApproved(c) /\ release \notin calls[c]
  /\ calls' = [calls EXCEPT ![c] = @ \cup {release}]
  /\ UNCHANGED <<vars, items, proof, autoDue, settleDue>>

(* ... the release of accepted work whose own release was lost ...         *)
SettleAccepted(c) ==
  /\ status[c] = "IN_REVIEW"
  /\ IsHeld(payment[c])
  /\ AllApproved(c)
  /\ release \notin calls[c]
  /\ calls' = [calls EXCEPT ![c] = @ \cup {release}]
  /\ UNCHANGED <<vars, items, proof, autoDue, settleDue>>

(* ... the check of a publication at the end of its retention period: the *)
(* social network is asked between the read and the write by id ...        *)
RetentionRead(c, live) ==
  /\ proof[c] = "RETENTION_PENDING"
  /\ Decide(c, [op |-> "retention", live |-> live])

RetentionWrite(c, call) ==
  /\ call \in calls[c] /\ call.op = "retention"
  /\ \/ /\ call.live
        /\ proof' = [proof EXCEPT ![c] = "RETENTION_PASSED"]
        /\ UNCHANGED <<vars, settleDue>>
     \/ /\ ~call.live
        /\ proof' = [proof EXCEPT ![c] = "REMOVED"]
        /\ RetentionFailed(c)
        /\ settleDue' = [settleDue EXCEPT ![c] = FALSE]
  /\ calls' = [calls EXCEPT ![c] = @ \ {call}]
  /\ UNCHANGED <<items, autoDue>>

(* ... and the release of published work after the dispute window.         *)
SettlePublished(c) ==
  /\ status[c] = "PROVEN"
  /\ settleDue[c]
  /\ ActiveDisputes(c) = {}
  /\ proof[c] \in {"RETENTION_PENDING", "RETENTION_PASSED"}
  /\ IsFunding(payment[c])
  /\ release \notin calls[c]
  /\ calls' = [calls EXCEPT ![c] = @ \cup {release}]
  /\ UNCHANGED <<vars, items, proof, autoDue, settleDue>>
-----------------------------------------------------------------------------
(* reviewService.submitProof waits for the social network to verify the    *)
(* post between reading the collaboration's status and writing.            *)
SubmitProofRead(c, verified) ==
  /\ status[c] \in {"IN_REVIEW", "PUBLISHED", "COMPLETED"}
  /\ proof[c] = "NONE"
  /\ Decide(c, [op |-> "submitProof", verified |-> verified,
                completed |-> status[c] = "COMPLETED"])

(* The status a proof gives the collaboration, unless it was COMPLETED.    *)
Published(c, call) ==
  IF call.completed
    THEN UNCHANGED <<vars, settleDue>>
    ELSE /\ Progress(c, IF call.verified THEN "PROVEN" ELSE "PUBLISHED")
         /\ settleDue' = [settleDue EXCEPT ![c] = call.verified]

SubmitProofWrite(c, call) ==
  /\ call \in calls[c] /\ call.op = "submitProof"
  /\ proof[c] = "NONE"
  /\ \E i \in DOMAIN items[c] : items[c][i].status = "APPROVED"
  /\ proof' = [proof EXCEPT ![c] =
       IF call.verified THEN "RETENTION_PENDING" ELSE "VERIFYING"]
  /\ Published(c, call)
  /\ calls' = [calls EXCEPT ![c] = @ \ {call}]
  /\ UNCHANGED <<items, autoDue>>

(* reviewService.moderateProof: an administrator decides. *)
ModerateProofRead(c, verified) ==
  /\ proof[c] = "VERIFYING"
  /\ Decide(c, [op |-> "moderate", verified |-> verified,
                completed |-> status[c] = "COMPLETED"])

(* The decision is written by id, whatever the proof is by then. *)
ApproveProof(c, call) ==
  /\ call \in calls[c] /\ call.op = "moderate" /\ call.verified
  /\ proof' = [proof EXCEPT ![c] = "RETENTION_PENDING"]
  /\ Published(c, call)
  /\ calls' = [calls EXCEPT ![c] = @ \ {call}]
  /\ UNCHANGED <<items, autoDue>>

RejectProof(c, call) ==
  /\ call \in calls[c] /\ call.op = "moderate" /\ ~call.verified
  /\ proof' = [proof EXCEPT ![c] = "REJECTED"]
  /\ calls' = [calls EXCEPT ![c] = @ \ {call}]
  /\ UNCHANGED <<vars, items, autoDue, settleDue>>
-----------------------------------------------------------------------------
(* walletService.refund with the policy in force: work has started with    *)
(* the first deliverable, or with a workspace task somebody picked up.     *)
RefundByPolicy(c) ==
  /\ \E started \in {TRUE, items[c] # <<>>} :
       \E x \in 1 .. (payment[c].amount - payment[c].refunded) :
         Refund(c, x, IF started THEN AfterPercent ELSE BeforePercent)
  /\ UNCHANGED deliveryVars

(* The disputes of Escrow; an award also clears settlementDueAt. *)
Dispute(c, k) ==
  /\ DisputeStep(c, k)
  /\ settleDue' = IF AwardInFlight(c, k) /\ payment' # payment
                    THEN [settleDue EXCEPT ![c] = FALSE] ELSE settleDue
  /\ UNCHANGED <<items, proof, autoDue, calls>>

Pay ==
  /\ \/ \E u \in User, x \in TopUpAmounts : TopUp(u, x)
     \/ \E c \in Collab, rate \in CommissionRates, fee \in BarterFees : Fund(c, rate, fee)
  /\ UNCHANGED deliveryVars

Deliver(c) ==
  \/ \E revises \in 0 .. MaxItems : SubmitRead(c, revises)
  \/ \E i \in DOMAIN items[c], decision \in {"APPROVED", "REVISION_REQUESTED"} :
       ReviewRead(c, i, decision)
  \/ AcceptAgain(c)
  \/ \E call \in calls[c] :
       SubmitWrite(c, call) \/ ReviewCount(c, call) \/ ReviewCommit(c, call)

Publish(c) ==
  \/ \E verified \in BOOLEAN : SubmitProofRead(c, verified) \/ ModerateProofRead(c, verified)
  \/ \E call \in calls[c] :
       SubmitProofWrite(c, call) \/ ApproveProof(c, call) \/ RejectProof(c, call)

Lifecycle(c) ==
  \/ AutoApproveRead(c)
  \/ \E live \in BOOLEAN : RetentionRead(c, live)
  \/ \E call \in calls[c] : AutoApproveWrite(c, call) \/ RetentionWrite(c, call)
  \/ SettleAccepted(c)
  \/ SettlePublished(c)

DeliveryNext ==
  \/ Pay
  \/ \E c \in Collab : RefundByPolicy(c)
  \/ \E c \in Collab, k \in Case : Dispute(c, k)
  \/ \E c \in Collab : Deliver(c) \/ Publish(c) \/ Lifecycle(c)
  \/ \E c \in Collab : ReleaseCall(c) \/ Crash(c)

(* The lifecycle job runs on a schedule, so a candidate it keeps finding   *)
(* is taken up; a release that is tried again and again is not killed      *)
(* every time.                                                             *)
DeliveryFairness ==
  \A c \in Collab : /\ WF_allVars(SettleAccepted(c))
                    /\ SF_allVars(ReleaseCall(c))

DeliverySpec == DeliveryInit /\ [][DeliveryNext]_allVars /\ DeliveryFairness
-----------------------------------------------------------------------------
(* Every deliverable is one a creator may have submitted under the         *)
(* contract's revision limit, however many reviews were decided on stale   *)
(* reads (deliverable.service.js:53-54, 126-127).                          *)
DeliveryTypeOK ==
  /\ items     \in [Collab -> Seq(Item)]
  /\ proof     \in [Collab -> ProofStatus]
  /\ autoDue   \in [Collab -> BOOLEAN]
  /\ settleDue \in [Collab -> BOOLEAN]

(* The delivery services reach the money only through Escrow's operations: *)
(* everything proved of Escrow holds of the whole.                         *)
ImplementsEscrow == Spec

(* Only an award pays a creator who has not delivered anything: a release  *)
(* follows a submitted deliverable, through whatever stale decisions.      *)
PaidOnlyForWork ==
  [][\A c \in Collab :
       /\ IsHeld(payment[c]) /\ payment'[c].status = "RELEASED"
       /\ \A k \in Case : ~AwardInFlight(c, k)
       => items[c] # <<>>]_allVars

(* Accepted work does not wait for its money for ever, whatever crashes:   *)
(* lifecycle.service.js:38-40 reconciles an approval whose release did not *)
(* happen, until the payment is settled.  Only the creator stops this, by  *)
(* submitting more work or by entering a publication, which has a          *)
(* settlement of its own.                                                  *)
Accepted(c) == status[c] = "IN_REVIEW" /\ AllApproved(c) /\ IsHeld(payment[c])
AcceptedIsPaid ==
  \A c \in Collab :
    Accepted(c) ~> ~IsHeld(payment[c]) \/ ~AllApproved(c) \/ proof[c] # "NONE"
=============================================================================

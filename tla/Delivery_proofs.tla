-------------------------- MODULE Delivery_proofs --------------------------
(***************************************************************************)
(* The delivery services reach money, statuses and disputes only through   *)
(* the operations of Escrow, so what is proved of Escrow holds of them.    *)
(* Their own state: the deliverables stay within the revision limit and    *)
(* nothing is released for which nothing was delivered.                    *)
(***************************************************************************)
EXTENDS Delivery, EscrowPromise_proofs

(* The work on a deliverable: at most the status of the collaboration.     *)
LEMMA DeliverStep ==
  ASSUME NEW c \in Collab, Deliver(c)
  PROVE  Progress(c, "IN_REVIEW") \/ UNCHANGED vars
<1>1. ASSUME NEW call, SubmitWrite(c, call) \/ ReviewCount(c, call) \/ ReviewCommit(c, call)
      PROVE  Progress(c, "IN_REVIEW") \/ UNCHANGED vars
  BY <1>1 DEF SubmitWrite, ReviewCount, ReviewCommit
<1> QED
  BY <1>1 DEF Deliver, SubmitRead, ReviewRead, AcceptAgain, Decide

LEMMA PublishStep ==
  ASSUME NEW c \in Collab, Publish(c)
  PROVE  (\E new \in {"PUBLISHED", "PROVEN"} : Progress(c, new)) \/ UNCHANGED vars
<1>1. ASSUME NEW call, SubmitProofWrite(c, call) \/ ApproveProof(c, call)
      PROVE  (\E new \in {"PUBLISHED", "PROVEN"} : Progress(c, new)) \/ UNCHANGED vars
  <2>1. Published(c, call)
    BY <1>1 DEF SubmitProofWrite, ApproveProof
  <2> QED
    BY <2>1 DEF Published
<1>2. ASSUME NEW call, RejectProof(c, call)
      PROVE  UNCHANGED vars
  BY <1>2 DEF RejectProof
<1> QED
  BY <1>1, <1>2 DEF Publish, SubmitProofRead, ModerateProofRead, Decide

LEMMA LifecycleStep ==
  ASSUME NEW c \in Collab, Lifecycle(c)
  PROVE  RetentionFailed(c) \/ UNCHANGED vars
BY DEF Lifecycle, AutoApproveRead, Decide, AutoApproveWrite, SettleAccepted,
       RetentionRead, RetentionWrite, SettlePublished

LEMMA RefundByPolicyStep ==
  ASSUME NEW c \in Collab, RefundByPolicy(c)
  PROVE  MoneyStep(c)
<1>1. BeforePercent \in RefundPercents /\ AfterPercent \in RefundPercents
  BY DeliveryAssumption
<1>2. PICK started \in {TRUE, items[c] # <<>>},
           x \in 1 .. (payment[c].amount - payment[c].refunded) :
             Refund(c, x, IF started THEN AfterPercent ELSE BeforePercent)
  BY DEF RefundByPolicy
<1>3. \E percent \in RefundPercents : Refund(c, x, percent)
  BY <1>1, <1>2
<1> QED
  BY <1>3 DEF MoneyStep

(* Every step of the whole is a step of Escrow or leaves it alone.         *)
LEMMA DeliveryStep == [DeliveryNext]_allVars => [Next]_vars
<1> SUFFICES ASSUME [DeliveryNext]_allVars
             PROVE  Next \/ UNCHANGED vars
  OBVIOUS
<1>1. CASE Pay
  BY <1>1 DEF Pay, Next, MoneyStep
<1>2. ASSUME NEW c \in Collab, RefundByPolicy(c)
      PROVE  Next
  BY <1>2, RefundByPolicyStep DEF Next
<1>3. ASSUME NEW c \in Collab, NEW k \in Case, Dispute(c, k)
      PROVE  Next
  BY <1>3 DEF Dispute, Next
<1>4. ASSUME NEW c \in Collab, Deliver(c) \/ Publish(c) \/ Lifecycle(c)
      PROVE  Next \/ UNCHANGED vars
  BY <1>4, DeliverStep, PublishStep, LifecycleStep DEF Next
<1>5. ASSUME NEW c \in Collab, ReleaseCall(c) \/ Crash(c)
      PROVE  Next \/ UNCHANGED vars
  BY <1>5 DEF ReleaseCall, Crash, Next, MoneyStep
<1>6. CASE UNCHANGED allVars
  BY <1>6 DEF allVars
<1> QED
  BY <1>1, <1>2, <1>3, <1>4, <1>5, <1>6 DEF DeliveryNext

(* deliverable.service.js, review.service.js and lifecycle.service.js      *)
(* implement Escrow.                                                       *)
THEOREM DeliveryImplementsEscrow == DeliverySpec => ImplementsEscrow
<1>1. DeliveryInit => Init
  BY DEF DeliveryInit
<1> QED
  BY <1>1, DeliveryStep, PTL DEF DeliverySpec, ImplementsEscrow, Spec

(* As long as no award commits on stale reads, the delivery services keep  *)
(* the promise of Custody, whatever they have decided and not written.     *)
THEOREM DeliveryKeepsPromise ==
  DeliverySpec /\ [][AwardsCurrent]_vars => KeepsPromise
BY DeliveryImplementsEscrow, EscrowKeepsPromise, PTL DEF ImplementsEscrow
-----------------------------------------------------------------------------
(* A decision that waits to be written. *)
Call ==
  {release}
    \cup [op : {"submit"}, revises : 0 .. MaxItems, copy : Nat]
    \cup [op : {"review"}, item : Nat, decision : {"APPROVED", "REVISION_REQUESTED"}]
    \cup [op : {"commitReview"}, item : Nat, decision : {"APPROVED", "REVISION_REQUESTED"},
          completed : BOOLEAN]
    \cup [op : {"autoApprove"}, pending : SUBSET Nat]
    \cup [op : {"retention"}, live : BOOLEAN]
    \cup [op : {"submitProof", "moderate"}, verified : BOOLEAN, completed : BOOLEAN]

(* What a decision still relies on when it is written, of the deliverables *)
(* there are then: that the one it is about exists and may be sent back,   *)
(* and that one was delivered at all.                                      *)
CallSound(its, call) ==
  /\ call.op = "submit" /\ call.revises # 0
       => call.revises \in DOMAIN its /\ its[call.revises].version <= RevisionLimit
  /\ call.op \in {"review", "commitReview"}
       => /\ call.item \in DOMAIN its
          /\ call.decision = "REVISION_REQUESTED"
               => its[call.item].version <= RevisionLimit
  /\ call.op \in {"release", "review", "commitReview", "moderate", "retention"} => its # <<>>

WorkSound(its, pr, cs) ==
  /\ \A call \in cs : CallSound(its, call)
  /\ pr # "NONE" => its # <<>>

DeliveryInv ==
  /\ DeliveryTypeOK
  /\ calls \in [Collab -> SUBSET Call]
  /\ \A c \in Collab : WorkSound(items[c], proof[c], calls[c])

(***************************************************************************)
(* Deliverables: they are appended and their statuses rewritten, but none  *)
(* disappears and none changes its version.                                *)
(***************************************************************************)
Grown(a, b) == \A i \in DOMAIN a : i \in DOMAIN b /\ b[i].version = a[i].version

LEMMA GrownIsSound ==
  ASSUME NEW a \in Seq(Item), NEW b \in Seq(Item), Grown(a, b),
         NEW call, CallSound(a, call)
  PROVE  CallSound(b, call)
<1>1. a # <<>> => b # <<>>
  <2>1. a # <<>> => 1 \in DOMAIN a
    OBVIOUS
  <2>2. b = <<>> => DOMAIN b = {}
    OBVIOUS
  <2> QED
    BY <2>1, <2>2 DEF Grown
<1>2. ASSUME NEW i \in DOMAIN a
      PROVE  i \in DOMAIN b /\ b[i].version = a[i].version
  BY DEF Grown
<1> QED
  BY <1>1, <1>2, Zenon DEF CallSound

LEMMA GrownKeepsWork ==
  ASSUME NEW a \in Seq(Item), NEW b \in Seq(Item), Grown(a, b), NEW pr, NEW cs,
         WorkSound(a, pr, cs)
  PROVE  WorkSound(b, pr, cs)
<1>1. a # <<>> => b # <<>>
  <2>1. a # <<>> => 1 \in DOMAIN a
    OBVIOUS
  <2>2. b = <<>> => DOMAIN b = {}
    OBVIOUS
  <2> QED
    BY <2>1, <2>2 DEF Grown
<1>2. \A call \in cs : CallSound(b, call)
  BY GrownIsSound DEF WorkSound
<1> QED
  BY <1>1, <1>2 DEF WorkSound

LEMMA Deliverable ==
  ASSUME NEW its \in Seq(Item), NEW i \in DOMAIN its
  PROVE  /\ its[i] \in Item /\ i \in Nat
         /\ its[i].version \in 1 .. RevisionLimit + 1 /\ its[i].revises \in 0 .. MaxItems
         /\ its[i].status = "REVISION_REQUESTED" => its[i].version <= RevisionLimit
<1>1. its[i] \in Item /\ i \in Nat
  OBVIOUS
<1> QED
  BY <1>1 DEF Item

LEMMA Appended ==
  ASSUME NEW its \in Seq(Item), NEW item \in Item
  PROVE  /\ Append(its, item) \in Seq(Item)
         /\ Grown(its, Append(its, item))
BY DEF Grown

(* A deliverable is accepted, or sent back while its version allows.       *)
LEMMA Decided ==
  ASSUME NEW item \in Item, NEW s \in {"APPROVED", "REVISION_REQUESTED"},
         s = "REVISION_REQUESTED" => item.version <= RevisionLimit
  PROVE  /\ [item EXCEPT !.status = s] \in Item
         /\ [item EXCEPT !.status = s].version = item.version
BY DEF Item

LEMMA Rewritten ==
  ASSUME NEW its \in Seq(Item), NEW i \in DOMAIN its, NEW item \in Item,
         item.version = its[i].version
  PROVE  /\ [its EXCEPT ![i] = item] \in Seq(Item)
         /\ Grown(its, [its EXCEPT ![i] = item])
BY DEF Grown

(***************************************************************************)
(* A step of one collaboration: the others are as they were.               *)
(***************************************************************************)
LEMMA OneDelivery ==
  ASSUME DeliveryInv, NEW c \in Collab,
         NEW its \in Seq(Item), items' = [items EXCEPT ![c] = its],
         NEW pr \in ProofStatus, proof' = [proof EXCEPT ![c] = pr],
         NEW cs \in SUBSET Call, calls' = [calls EXCEPT ![c] = cs],
         autoDue' \in [Collab -> BOOLEAN], settleDue' \in [Collab -> BOOLEAN],
         WorkSound(its, pr, cs)
  PROVE  DeliveryInv'
<1>1. DeliveryTypeOK'
  BY DEF DeliveryInv, DeliveryTypeOK
<1>2. calls' \in [Collab -> SUBSET Call]
  BY DEF DeliveryInv
<1>3. ASSUME NEW d \in Collab
      PROVE  WorkSound(items'[d], proof'[d], calls'[d])
  <2>1. CASE d = c
    BY <2>1 DEF DeliveryInv, DeliveryTypeOK
  <2>2. CASE d # c
    <3>1. items'[d] = items[d] /\ proof'[d] = proof[d] /\ calls'[d] = calls[d]
      BY <2>2 DEF DeliveryInv, DeliveryTypeOK
    <3> QED
      BY <3>1 DEF DeliveryInv
  <2> QED
    BY <2>1, <2>2
<1>4. (\A d \in Collab : WorkSound(items[d], proof[d], calls[d]))'
  BY <1>3 DEF WorkSound, CallSound
<1> QED
  BY <1>1, <1>2, <1>4 DEF DeliveryInv

(* What the invariant says of one collaboration. *)
LEMMA OneOf ==
  ASSUME DeliveryInv, NEW c \in Collab
  PROVE  /\ items[c] \in Seq(Item) /\ proof[c] \in ProofStatus
         /\ calls[c] \in SUBSET Call
         /\ WorkSound(items[c], proof[c], calls[c])
         /\ items = [items EXCEPT ![c] = items[c]]
         /\ proof = [proof EXCEPT ![c] = proof[c]]
         /\ calls = [calls EXCEPT ![c] = calls[c]]
         /\ autoDue \in [Collab -> BOOLEAN] /\ settleDue \in [Collab -> BOOLEAN]
BY DEF DeliveryInv, DeliveryTypeOK

(* A decision that is sound when it is taken joins the others.             *)
LEMMA DecideKeeps ==
  ASSUME DeliveryInv, NEW c \in Collab, NEW call \in Call, CallSound(items[c], call),
         calls' = [calls EXCEPT ![c] = calls[c] \cup {call}],
         UNCHANGED <<items, proof, autoDue, settleDue>>
  PROVE  DeliveryInv'
<1> DEFINE cs == calls[c] \cup {call}
<1>1. cs \in SUBSET Call /\ WorkSound(items[c], proof[c], cs)
  BY OneOf DEF WorkSound
<1> HIDE DEF cs
<1>2. calls' = [calls EXCEPT ![c] = cs]
  BY DEF cs
<1> QED
  BY <1>1, <1>2, OneOf, OneDelivery

(* Decisions are dropped, or written without a new deliverable or proof.   *)
LEMMA DroppedKeeps ==
  ASSUME DeliveryInv, NEW c \in Collab, NEW cs \in SUBSET calls[c],
         calls' = [calls EXCEPT ![c] = cs],
         autoDue' \in [Collab -> BOOLEAN], settleDue' \in [Collab -> BOOLEAN],
         UNCHANGED <<items, proof>>
  PROVE  DeliveryInv'
<1>1. cs \in SUBSET Call /\ WorkSound(items[c], proof[c], cs)
  BY OneOf DEF WorkSound
<1> QED
  BY <1>1, OneOf, OneDelivery

LEMMA QuietKeeps ==
  ASSUME DeliveryInv, UNCHANGED <<items, proof, calls, autoDue>>,
         settleDue' \in [Collab -> BOOLEAN]
  PROVE  DeliveryInv'
BY DEF DeliveryInv, DeliveryTypeOK, WorkSound, CallSound

(***************************************************************************)
(* The actions.                                                            *)
(***************************************************************************)
LEMMA SubmitReadKeeps ==
  ASSUME DeliveryInv, NEW c \in Collab, NEW revises \in 0 .. MaxItems,
         SubmitRead(c, revises)
  PROVE  DeliveryInv'
<1>1. PICK n \in 1 .. MaxCalls :
        Decide(c, [op |-> "submit", revises |-> revises, copy |-> n])
  BY DEF SubmitRead
<1> DEFINE call == [op |-> "submit", revises |-> revises, copy |-> n]
<1>2. call \in Call
  BY DeliveryAssumption DEF Call
<1>3. CallSound(items[c], call)
  <2>1. revises # 0 => revises \in DOMAIN items[c] /\ items[c][revises].version <= RevisionLimit
    BY DEF SubmitRead, WithStatus, Latest, RevisionLeft
  <2> QED
    BY <2>1 DEF CallSound
<1>4. /\ calls' = [calls EXCEPT ![c] = calls[c] \cup {call}]
      /\ UNCHANGED <<items, proof, autoDue, settleDue>>
  BY <1>1 DEF Decide
<1> HIDE DEF call
<1> QED
  BY <1>2, <1>3, <1>4, DecideKeeps

LEMMA ReviewReadKeeps ==
  ASSUME DeliveryInv, NEW c \in Collab, NEW i \in DOMAIN items[c],
         NEW decision \in {"APPROVED", "REVISION_REQUESTED"}, ReviewRead(c, i, decision)
  PROVE  DeliveryInv'
<1> DEFINE call == [op |-> "review", item |-> i, decision |-> decision]
<1>1. items[c] \in Seq(Item) /\ i \in Nat
  BY OneOf, Deliverable
<1>2. call \in Call
  BY <1>1 DEF Call
<1>3. CallSound(items[c], call)
  <2>1. decision = "REVISION_REQUESTED" => items[c][i].version <= RevisionLimit
    BY DEF ReviewRead, RevisionLeft
  <2>2. items[c] # <<>>
    OBVIOUS
  <2> QED
    BY <2>1, <2>2 DEF CallSound
<1>4. /\ calls' = [calls EXCEPT ![c] = calls[c] \cup {call}]
      /\ UNCHANGED <<items, proof, autoDue, settleDue>>
  BY DEF ReviewRead, Decide
<1> HIDE DEF call
<1> QED
  BY <1>2, <1>3, <1>4, DecideKeeps

(* A release is decided only when every latest deliverable is accepted.    *)
LEMMA ReleaseDecided ==
  ASSUME DeliveryInv, NEW c \in Collab, AllApproved(c)
  PROVE  release \in Call /\ CallSound(items[c], release)
<1>1. items[c] # <<>>
  BY DEF AllApproved, Latest
<1> QED
  BY <1>1 DEF CallSound, release, Call

LEMMA AcceptedKeeps ==
  ASSUME DeliveryInv, NEW c \in Collab, AcceptAgain(c) \/ SettleAccepted(c)
  PROVE  DeliveryInv'
<1>1. AllApproved(c)
  BY DEF AcceptAgain, SettleAccepted
<1>2. /\ calls' = [calls EXCEPT ![c] = calls[c] \cup {release}]
      /\ UNCHANGED <<items, proof, autoDue, settleDue>>
  BY DEF AcceptAgain, SettleAccepted, Decide
<1> QED
  BY <1>1, <1>2, ReleaseDecided, DecideKeeps

LEMMA SettlePublishedKeeps ==
  ASSUME DeliveryInv, NEW c \in Collab, SettlePublished(c)
  PROVE  DeliveryInv'
<1>1. items[c] # <<>>
  BY OneOf DEF SettlePublished, WorkSound
<1>2. release \in Call /\ CallSound(items[c], release)
  BY <1>1 DEF CallSound, release, Call
<1>3. /\ calls' = [calls EXCEPT ![c] = calls[c] \cup {release}]
      /\ UNCHANGED <<items, proof, autoDue, settleDue>>
  BY DEF SettlePublished
<1> QED
  BY <1>2, <1>3, DecideKeeps

LEMMA SubmitWriteKeeps ==
  ASSUME DeliveryInv, NEW c \in Collab, NEW call \in calls[c], SubmitWrite(c, call)
  PROVE  DeliveryInv'
<1> DEFINE item == [status  |-> "SUBMITTED", revises |-> call.revises,
                    version |-> IF call.revises = 0 THEN 1
                                  ELSE items[c][call.revises].version + 1]
           cs == calls[c] \ {call}
<1>1. /\ items[c] \in Seq(Item) /\ calls[c] \in SUBSET Call
      /\ WorkSound(items[c], proof[c], calls[c])
  BY OneOf
<1>2. call.op = "submit"
  BY DEF SubmitWrite
<1>3. call.revises \in 0 .. MaxItems
  BY <1>1, <1>2 DEF Call, release
<1>4. call.revises # 0 => /\ call.revises \in DOMAIN items[c]
                          /\ items[c][call.revises].version <= RevisionLimit
  BY <1>1, <1>2 DEF WorkSound, CallSound
<1>5. item.version \in 1 .. RevisionLimit + 1
  <2>1. CASE call.revises = 0
    BY <2>1, DeliveryAssumption
  <2>2. CASE call.revises # 0
    <3>1. items[c][call.revises].version \in 1 .. RevisionLimit + 1
      BY <1>1, <1>4, <2>2, Deliverable
    <3> QED
      BY <1>4, <2>2, <3>1, DeliveryAssumption
  <2> QED
    BY <2>1, <2>2
<1>6. item \in Item
  BY <1>3, <1>5 DEF Item
<1>7. /\ items' = [items EXCEPT ![c] = Append(items[c], item)]
      /\ calls' = [calls EXCEPT ![c] = cs]
      /\ proof' = proof /\ settleDue' = settleDue
      /\ autoDue' = [autoDue EXCEPT ![c] = TRUE]
  BY DEF SubmitWrite
<1>8. WorkSound(items[c], proof[c], cs) /\ cs \in SUBSET Call
  BY <1>1 DEF WorkSound
<1> HIDE DEF item, cs
<1>9. Append(items[c], item) \in Seq(Item) /\ WorkSound(Append(items[c], item), proof[c], cs)
  BY <1>1, <1>6, <1>8, Appended, GrownKeepsWork
<1>10. proof[c] \in ProofStatus /\ proof' = [proof EXCEPT ![c] = proof[c]]
  BY <1>7, OneOf
<1>11. autoDue' \in [Collab -> BOOLEAN] /\ settleDue' \in [Collab -> BOOLEAN]
  BY <1>7, OneOf
<1> QED
  BY <1>7, <1>8, <1>9, <1>10, <1>11, OneDelivery

LEMMA ReviewCountKeeps ==
  ASSUME DeliveryInv, NEW c \in Collab, NEW call \in calls[c], ReviewCount(c, call)
  PROVE  DeliveryInv'
<1> DEFINE completed == Completes(c, call.item, call.decision)
           counted   == [op |-> "commitReview", item |-> call.item,
                         decision |-> call.decision, completed |-> completed]
           cs        == (calls[c] \ {call}) \cup {counted}
<1>1. /\ calls[c] \in SUBSET Call
      /\ WorkSound(items[c], proof[c], calls[c])
  BY OneOf
<1>2. call.op = "review"
  BY DEF ReviewCount
<1>3. call.item \in Nat /\ call.decision \in {"APPROVED", "REVISION_REQUESTED"}
  BY <1>1, <1>2 DEF Call, release
<1>4. completed \in BOOLEAN
  BY DEF Completes
<1> HIDE DEF completed
<1>5. counted \in Call
  BY <1>3, <1>4 DEF Call
<1>6. CallSound(items[c], counted)
  BY <1>1, <1>2 DEF WorkSound, CallSound
<1>7. /\ calls' = [calls EXCEPT ![c] = cs]
      /\ UNCHANGED <<items, proof, autoDue, settleDue>>
  BY DEF ReviewCount, completed
<1> HIDE DEF counted
<1>8. cs \in SUBSET Call /\ WorkSound(items[c], proof[c], cs)
  BY <1>1, <1>5, <1>6 DEF WorkSound
<1> HIDE DEF cs
<1> QED
  BY <1>7, <1>8, OneOf, OneDelivery

LEMMA ReviewCommitKeeps ==
  ASSUME DeliveryInv, NEW c \in Collab, NEW call \in calls[c], ReviewCommit(c, call)
  PROVE  DeliveryInv'
<1> DEFINE item == [items[c][call.item] EXCEPT !.status = call.decision]
           its == [items[c] EXCEPT ![call.item] = item]
           cs == calls'[c]
<1>1. /\ items[c] \in Seq(Item) /\ calls[c] \in SUBSET Call
      /\ WorkSound(items[c], proof[c], calls[c])
  BY OneOf
<1>2. call.op = "commitReview"
  BY DEF ReviewCommit
<1>3. call.decision \in {"APPROVED", "REVISION_REQUESTED"}
  BY <1>1, <1>2 DEF Call, release
<1>4. /\ call.item \in DOMAIN items[c]
      /\ call.decision = "REVISION_REQUESTED"
           => items[c][call.item].version <= RevisionLimit
      /\ items[c] # <<>>
  BY <1>1, <1>2 DEF WorkSound, CallSound
<1>5. item \in Item /\ item.version = items[c][call.item].version
  BY <1>1, <1>3, <1>4, Deliverable, Decided
<1>6. items' = [items EXCEPT ![c] = its] /\ proof' = proof /\ settleDue' = settleDue
  BY DEF ReviewCommit
<1>7. autoDue' \in {autoDue, [autoDue EXCEPT ![c] = FALSE]}
  BY DEF ReviewCommit
<1>8. /\ calls' = [calls EXCEPT ![c] = cs]
      /\ cs \subseteq calls[c] \cup {release}
  <2>1. \/ calls' = [calls EXCEPT ![c] = calls[c] \ {call}]
        \/ calls' = [calls EXCEPT ![c] = (calls[c] \ {call}) \cup {release}]
    BY DEF ReviewCommit
  <2>2. calls \in [Collab -> SUBSET Call]
    BY DEF DeliveryInv
  <2> QED
    BY <2>1, <2>2
<1>9. CallSound(items[c], release) /\ release \in Call
  BY <1>4 DEF CallSound, release, Call
<1>10. cs \in SUBSET Call /\ WorkSound(items[c], proof[c], cs)
  BY <1>1, <1>8, <1>9 DEF WorkSound
<1> HIDE DEF item, cs
<1>11. its \in Seq(Item) /\ Grown(items[c], its)
  BY <1>1, <1>4, <1>5, Rewritten
<1> HIDE DEF its
<1>12. WorkSound(its, proof[c], cs)
  BY <1>1, <1>10, <1>11, GrownKeepsWork
<1>13. proof[c] \in ProofStatus /\ proof' = [proof EXCEPT ![c] = proof[c]]
  BY <1>6, OneOf
<1>14. autoDue' \in [Collab -> BOOLEAN] /\ settleDue' \in [Collab -> BOOLEAN]
  BY <1>6, <1>7, OneOf
<1> QED
  BY <1>6, <1>8, <1>10, <1>11, <1>12, <1>13, <1>14, OneDelivery

LEMMA AutoApproveKeeps ==
  ASSUME DeliveryInv, NEW c \in Collab, NEW call \in calls[c], AutoApproveWrite(c, call)
  PROVE  DeliveryInv'
<1> DEFINE its == [i \in DOMAIN items[c] |->
                     IF i \in call.pending
                       THEN [items[c][i] EXCEPT !.status = "APPROVED"] ELSE items[c][i]]
           cs == calls[c] \ {call}
<1>1. /\ items[c] \in Seq(Item) /\ calls[c] \in SUBSET Call
      /\ WorkSound(items[c], proof[c], calls[c])
  BY OneOf
<1>2. /\ items' = [items EXCEPT ![c] = its] /\ proof' = proof
      /\ settleDue' = settleDue /\ autoDue' = [autoDue EXCEPT ![c] = FALSE]
      /\ calls' = [calls EXCEPT ![c] = cs]
  BY DEF AutoApproveWrite
<1>3. ASSUME NEW i \in DOMAIN items[c]
      PROVE  its[i] \in Item /\ its[i].version = items[c][i].version
  <2>1. items[c][i] \in Item
    BY <1>1, Deliverable
  <2>2. /\ [items[c][i] EXCEPT !.status = "APPROVED"] \in Item
        /\ [items[c][i] EXCEPT !.status = "APPROVED"].version = items[c][i].version
    BY <2>1, Decided
  <2> QED
    BY <2>1, <2>2
<1>4. DOMAIN its = DOMAIN items[c] /\ DOMAIN its = 1 .. Len(items[c])
  BY <1>1
<1>5. its = [i \in 1 .. Len(items[c]) |-> its[i]]
  BY <1>4
<1>6. cs \in SUBSET Call /\ WorkSound(items[c], proof[c], cs)
  BY <1>1 DEF WorkSound
<1> HIDE DEF its, cs
<1>7. its \in Seq(Item)
  <2>1. Len(items[c]) \in Nat /\ \A i \in 1 .. Len(items[c]) : its[i] \in Item
    BY <1>1, <1>3, <1>4
  <2> QED
    BY <1>5, <2>1
<1>8. Grown(items[c], its)
  BY <1>3, <1>4 DEF Grown
<1>9. WorkSound(its, proof[c], cs)
  BY <1>1, <1>6, <1>7, <1>8, GrownKeepsWork
<1>10. proof[c] \in ProofStatus /\ proof' = [proof EXCEPT ![c] = proof[c]]
  BY <1>2, OneOf
<1>11. autoDue' \in [Collab -> BOOLEAN] /\ settleDue' \in [Collab -> BOOLEAN]
  BY <1>2, OneOf
<1> QED
  BY <1>2, <1>6, <1>7, <1>9, <1>10, <1>11, OneDelivery

LEMMA ReleaseCallKeeps ==
  ASSUME DeliveryInv, NEW c \in Collab, ReleaseCall(c) \/ Crash(c)
  PROVE  DeliveryInv'
<1>1. /\ \E cs \in SUBSET calls[c] : calls' = [calls EXCEPT ![c] = cs]
      /\ UNCHANGED <<items, proof, autoDue, settleDue>>
  BY DEF ReleaseCall, Crash
<1> QED
  BY <1>1, OneOf, DroppedKeeps

LEMMA RetentionReadKeeps ==
  ASSUME DeliveryInv, NEW c \in Collab, NEW live \in BOOLEAN, RetentionRead(c, live)
  PROVE  DeliveryInv'
<1> DEFINE call == [op |-> "retention", live |-> live]
<1>1. call \in Call
  BY DEF Call
<1>2. CallSound(items[c], call)
  <2>1. items[c] # <<>>
    BY OneOf DEF RetentionRead, WorkSound
  <2> QED
    BY <2>1 DEF CallSound
<1>3. /\ calls' = [calls EXCEPT ![c] = calls[c] \cup {call}]
      /\ UNCHANGED <<items, proof, autoDue, settleDue>>
  BY DEF RetentionRead, Decide
<1> HIDE DEF call
<1> QED
  BY <1>1, <1>2, <1>3, DecideKeeps

(* A proof is written by id: that there is work behind it was so when it   *)
(* was read.                                                               *)
LEMMA RetentionWriteKeeps ==
  ASSUME DeliveryInv, NEW c \in Collab, NEW call \in calls[c], RetentionWrite(c, call)
  PROVE  DeliveryInv'
<1> DEFINE cs == calls[c] \ {call}
<1>1. calls[c] \in SUBSET Call /\ WorkSound(items[c], proof[c], calls[c])
  BY OneOf
<1>2. PICK pr \in {"RETENTION_PASSED", "REMOVED"} : proof' = [proof EXCEPT ![c] = pr]
  BY DEF RetentionWrite
<1>3. UNCHANGED <<items, autoDue>> /\ calls' = [calls EXCEPT ![c] = cs]
  BY DEF RetentionWrite
<1>4. autoDue' \in [Collab -> BOOLEAN] /\ settleDue' \in [Collab -> BOOLEAN]
  BY <1>3, OneOf DEF RetentionWrite
<1>5. items[c] # <<>>
  BY <1>1 DEF RetentionWrite, WorkSound, CallSound
<1>6. pr \in ProofStatus /\ cs \in SUBSET Call /\ WorkSound(items[c], pr, cs)
  BY <1>1, <1>5 DEF WorkSound, ProofStatus
<1> HIDE DEF cs
<1> QED
  BY <1>2, <1>3, <1>4, <1>6, OneOf, OneDelivery

LEMMA ProofReadKeeps ==
  ASSUME DeliveryInv, NEW c \in Collab,
         \E verified \in BOOLEAN : SubmitProofRead(c, verified) \/ ModerateProofRead(c, verified)
  PROVE  DeliveryInv'
<1>1. PICK op \in {"submitProof", "moderate"}, verified \in BOOLEAN :
        /\ Decide(c, [op |-> op, verified |-> verified, completed |-> status[c] = "COMPLETED"])
        /\ op = "moderate" => proof[c] # "NONE"
  BY DEF SubmitProofRead, ModerateProofRead
<1> DEFINE call == [op |-> op, verified |-> verified, completed |-> status[c] = "COMPLETED"]
<1>2. call \in Call
  BY DEF Call
<1>3. CallSound(items[c], call)
  <2>1. op = "moderate" => items[c] # <<>>
    BY <1>1, OneOf DEF WorkSound
  <2> QED
    BY <2>1 DEF CallSound
<1>4. /\ calls' = [calls EXCEPT ![c] = calls[c] \cup {call}]
      /\ UNCHANGED <<items, proof, autoDue, settleDue>>
  BY <1>1 DEF Decide
<1> HIDE DEF call
<1> QED
  BY <1>2, <1>3, <1>4, DecideKeeps

LEMMA ProofWriteKeeps ==
  ASSUME DeliveryInv, NEW c \in Collab, NEW call \in calls[c],
         SubmitProofWrite(c, call) \/ ApproveProof(c, call)
  PROVE  DeliveryInv'
<1> DEFINE cs == calls[c] \ {call}
<1>1. /\ call \in Call /\ WorkSound(items[c], proof[c], calls[c])
      /\ calls[c] \in SUBSET Call
  BY OneOf
<1>2. call.op \in {"submitProof", "moderate"}
  BY DEF SubmitProofWrite, ApproveProof
<1>3. call.verified \in BOOLEAN
  BY <1>1, <1>2 DEF Call, release
<1>4. items[c] # <<>>
  <2>1. CASE SubmitProofWrite(c, call)
    BY <2>1 DEF SubmitProofWrite
  <2>2. CASE ApproveProof(c, call)
    BY <1>1, <2>2 DEF ApproveProof, WorkSound, CallSound
  <2> QED
    BY <2>1, <2>2
<1>5. PICK pr \in {"RETENTION_PENDING", "VERIFYING"} : proof' = [proof EXCEPT ![c] = pr]
  BY DEF SubmitProofWrite, ApproveProof
<1>6. /\ UNCHANGED <<items, autoDue>> /\ calls' = [calls EXCEPT ![c] = cs]
      /\ Published(c, call)
  BY DEF SubmitProofWrite, ApproveProof
<1>7. settleDue' \in [Collab -> BOOLEAN] /\ autoDue' \in [Collab -> BOOLEAN]
  BY <1>3, <1>6, OneOf DEF Published
<1>8. pr \in ProofStatus /\ cs \in SUBSET Call /\ WorkSound(items[c], pr, cs)
  BY <1>1, <1>4 DEF WorkSound, ProofStatus
<1> HIDE DEF cs
<1> QED
  BY <1>5, <1>6, <1>7, <1>8, OneOf, OneDelivery

LEMMA RejectKeeps ==
  ASSUME DeliveryInv, NEW c \in Collab, NEW call \in calls[c], RejectProof(c, call)
  PROVE  DeliveryInv'
<1> DEFINE cs == calls[c] \ {call}
<1>1. /\ proof' = [proof EXCEPT ![c] = "REJECTED"]
      /\ calls' = [calls EXCEPT ![c] = cs]
      /\ UNCHANGED <<items, autoDue, settleDue>>
  BY DEF RejectProof
<1>2. calls[c] \in SUBSET Call /\ WorkSound(items[c], proof[c], calls[c])
  BY OneOf
<1>3. items[c] # <<>>
  BY <1>2 DEF RejectProof, WorkSound, CallSound
<1>4. /\ "REJECTED" \in ProofStatus /\ cs \in SUBSET Call
      /\ WorkSound(items[c], "REJECTED", cs)
  BY <1>2, <1>3 DEF WorkSound, ProofStatus
<1> HIDE DEF cs
<1> QED
  BY <1>1, <1>4, OneOf, OneDelivery

LEMMA DeliveryInvInit == DeliveryInit => DeliveryInv
BY DEF DeliveryInit, DeliveryInv, DeliveryTypeOK, WorkSound, CallSound, ProofStatus

LEMMA DeliveryInvStep == DeliveryInv /\ [DeliveryNext]_allVars => DeliveryInv'
<1> SUFFICES ASSUME DeliveryInv, [DeliveryNext]_allVars
             PROVE  DeliveryInv'
  OBVIOUS
<1>1. settleDue \in [Collab -> BOOLEAN]
  BY DEF DeliveryInv, DeliveryTypeOK
<1>2. CASE Pay \/ (\E c \in Collab : RefundByPolicy(c)) \/ UNCHANGED allVars
  BY <1>1, <1>2, QuietKeeps DEF Pay, RefundByPolicy, deliveryVars, allVars
<1>3. ASSUME NEW c \in Collab, NEW k \in Case, Dispute(c, k)
      PROVE  DeliveryInv'
  BY <1>1, <1>3, QuietKeeps DEF Dispute
<1>4. ASSUME NEW c \in Collab, Deliver(c)
      PROVE  DeliveryInv'
  BY <1>4, SubmitReadKeeps, ReviewReadKeeps, AcceptedKeeps, SubmitWriteKeeps,
     ReviewCountKeeps, ReviewCommitKeeps DEF Deliver
<1>5. ASSUME NEW c \in Collab, Publish(c)
      PROVE  DeliveryInv'
  BY <1>5, ProofReadKeeps, RejectKeeps, ProofWriteKeeps DEF Publish
<1>6. ASSUME NEW c \in Collab, Lifecycle(c)
      PROVE  DeliveryInv'
  <2>1. CASE AutoApproveRead(c)
    <3> DEFINE call == [op |-> "autoApprove", pending |-> WithStatus(c, "SUBMITTED")]
    <3>1. WithStatus(c, "SUBMITTED") \subseteq Nat
      BY OneOf DEF WithStatus, Latest
    <3>2. call \in Call /\ CallSound(items[c], call)
      BY <3>1 DEF Call, CallSound
    <3>3. /\ calls' = [calls EXCEPT ![c] = calls[c] \cup {call}]
          /\ UNCHANGED <<items, proof, autoDue, settleDue>>
      BY <2>1 DEF AutoApproveRead, Decide
    <3> HIDE DEF call
    <3> QED
      BY <3>2, <3>3, DecideKeeps
  <2> QED
    BY <1>6, <2>1, AutoApproveKeeps, AcceptedKeeps, RetentionReadKeeps,
       RetentionWriteKeeps, SettlePublishedKeeps DEF Lifecycle
<1>7. ASSUME NEW c \in Collab, ReleaseCall(c) \/ Crash(c)
      PROVE  DeliveryInv'
  BY <1>7, ReleaseCallKeeps
<1> QED
  BY <1>2, <1>3, <1>4, <1>5, <1>6, <1>7 DEF DeliveryNext

LEMMA DeliveryAlways == DeliverySpec => []DeliveryInv
BY DeliveryInvInit, DeliveryInvStep, PTL DEF DeliverySpec

(* Whatever reviews and submissions were decided on stale reads, every     *)
(* deliverable is one the contract's revision limit allows.                *)
THEOREM DeliveryTypeCorrect == DeliverySpec => []DeliveryTypeOK
<1>1. DeliveryInv => DeliveryTypeOK
  BY DEF DeliveryInv
<1> QED
  BY <1>1, DeliveryAlways, PTL

(* The steps after which a held payment is released.                       *)
LEMMA ReleasedBy ==
  ASSUME TypeInv, [DeliveryNext]_allVars, NEW c \in Collab, IsHeld(payment[c]),
         payment'[c].status = "RELEASED"
  PROVE  release \in calls[c] \/ \E k \in Case : AwardInFlight(c, k)
<1> SUFFICES ASSUME \A k \in Case : ~AwardInFlight(c, k)
             PROVE  release \in calls[c]
  OBVIOUS
<1>1. payment'[c] # payment[c]
  BY DEF IsHeld
<1>2. payment \in [Collab -> Payment]
  BY DEF TypeInv, TypeOK
<1>3. CASE Pay
  <2>1. PICK d \in Collab, rate \in CommissionRates, fee \in BarterFees : Fund(d, rate, fee)
    BY <1>1, <1>3 DEF Pay, TopUp
  <2>2. d # c
    BY <2>1 DEF Fund, IsHeld
  <2>3. payment'[c] = payment[c]
    BY <1>2, <2>1, <2>2 DEF Fund
  <2> QED
    BY <1>1, <2>3
<1>4. ASSUME NEW d \in Collab, RefundByPolicy(d)
      PROVE  FALSE
  <2>1. PICK percent, x : Refund(d, x, percent)
    BY <1>4 DEF RefundByPolicy
  <2>2. payment'[d].status \in {"REFUNDED", "PARTIALLY_REFUNDED"}
    BY <1>2, <2>1 DEF Refund, Payment
  <2>3. d # c => payment'[c] = payment[c]
    BY <1>2, <2>1 DEF Refund
  <2> QED
    BY <1>1, <2>2, <2>3
<1>5. ASSUME NEW d \in Collab, NEW k \in Case, Dispute(d, k)
      PROVE  FALSE
  <2>1. CASE AwardWrite(d, k)
    <3>1. d # c
      BY <2>1 DEF AwardWrite
    <3> QED
      BY <1>1, <1>2, <2>1, <3>1 DEF AwardWrite
  <2> QED
    BY <1>1, <1>5, <2>1
    DEF Dispute, DisputeStep, OpenDisputeRead, FreezeContractRead, CreateDispute,
        EditCaseRead, EditCaseWrite, AwardRead, AwardAbort
<1>6. ASSUME NEW d \in Collab, Deliver(d) \/ Publish(d) \/ Lifecycle(d)
      PROVE  FALSE
  BY <1>1, <1>6, DeliverStep, PublishStep, LifecycleStep
  DEF Progress, RetentionFailed, vars
<1>7. ASSUME NEW d \in Collab, ReleaseCall(d)
      PROVE  release \in calls[c]
  <2>1. d # c => payment'[c] = payment[c]
    BY <1>2, <1>7 DEF ReleaseCall, Release, ReleaseAgain, vars
  <2> QED
    BY <1>1, <1>7, <2>1 DEF ReleaseCall
<1>8. CASE UNCHANGED allVars \/ \E d \in Collab : Crash(d)
  BY <1>1, <1>8 DEF allVars, vars, Crash
<1> QED
  BY <1>3, <1>4, <1>5, <1>6, <1>7, <1>8 DEF DeliveryNext

(* What the steps do to the status of a collaboration in review whose      *)
(* payment is held before and after and has no publication.                *)
LEMMA MoneyStepHeld ==
  ASSUME TypeInv, NEW c \in Collab, MoneyStep(c), IsHeld(payment[c]), IsHeld(payment'[c])
  PROVE  status'[c] = status[c]
<1>1. ASSUME NEW rate \in CommissionRates, NEW fee \in BarterFees, Fund(c, rate, fee)
      PROVE  FALSE
  BY <1>1 DEF Fund, IsHeld
<1>2. ASSUME Release(c)
      PROVE  FALSE
  <2>1. payment'[c].status = "RELEASED"
    BY <1>2, RowTypes DEF Release, TypeInv, TypeOK, Payment
  <2> QED
    BY <2>1 DEF IsHeld
<1>3. ~ReleaseAgain(c)
  BY DEF ReleaseAgain, IsHeld
<1>4. ASSUME NEW percent \in RefundPercents,
             NEW x \in 1 .. (payment[c].amount - payment[c].refunded),
             Refund(c, x, percent)
      PROVE  status'[c] = status[c]
  <2> DEFINE full == payment[c].refunded + x = payment[c].amount
  <2>1. payment'[c].status = IF full THEN "REFUNDED" ELSE "PARTIALLY_REFUNDED"
    BY <1>4, RowTypes DEF Refund, TypeInv, TypeOK, Payment
  <2>2. status' = IF full THEN [status EXCEPT ![c] = "CANCELLED"] ELSE status
    BY <1>4 DEF Refund
  <2>3. ~full
    BY <2>1 DEF IsHeld
  <2> QED
    BY <2>2, <2>3
<1> QED
  BY <1>1, <1>2, <1>3, <1>4 DEF MoneyStep

LEMMA PublishHeld ==
  ASSUME TypeInv, DeliveryTypeOK, NEW c \in Collab, NEW d \in Collab, Publish(d),
         proof[c] = "NONE", proof'[c] = "NONE"
  PROVE  status'[c] = status[c]
<1>1. ASSUME NEW call, SubmitProofWrite(d, call) \/ ApproveProof(d, call)
      PROVE  status'[c] = status[c]
  <2>1. d # c
    BY <1>1 DEF SubmitProofWrite, ApproveProof, DeliveryTypeOK
  <2>2. Published(d, call)
    BY <1>1 DEF SubmitProofWrite, ApproveProof
  <2> QED
    BY <2>1, <2>2 DEF Published, Progress, vars, TypeInv, TypeOK
<1>2. ASSUME NEW call, RejectProof(d, call)
      PROVE  status'[c] = status[c]
  BY <1>2 DEF RejectProof, vars
<1> QED
  BY <1>1, <1>2 DEF Publish, SubmitProofRead, ModerateProofRead, Decide, vars

LEMMA LifecycleHeld ==
  ASSUME TypeInv, DeliveryTypeOK, NEW c \in Collab, NEW d \in Collab, Lifecycle(d),
         proof'[c] = "NONE"
  PROVE  status'[c] = status[c]
<1>1. ASSUME NEW call, RetentionWrite(d, call)
      PROVE  status'[c] = status[c]
  <2>1. d # c
    BY <1>1 DEF RetentionWrite, DeliveryTypeOK
  <2> QED
    BY <1>1, <2>1 DEF RetentionWrite, RetentionFailed, vars, TypeInv, TypeOK
<1> QED
  BY <1>1 DEF Lifecycle, AutoApproveRead, RetentionRead, Decide, AutoApproveWrite,
     SettleAccepted, SettlePublished, vars

(* Only an award pays a creator who delivered nothing: a release was       *)
(* decided when something had been delivered, and deliverables stay.       *)
THEOREM ReleasePaysWork == DeliverySpec => PaidOnlyForWork
<1>1. DeliverySpec => []TypeInv
  <2>1. Spec => []TypeInv
    BY TypeInit, TypeStep, PTL DEF Spec
  <2> QED
    BY <2>1, DeliveryImplementsEscrow, PTL DEF ImplementsEscrow
<1>2. TypeInv /\ DeliveryInv /\ [DeliveryNext]_allVars
        => [\A c \in Collab :
              /\ IsHeld(payment[c]) /\ payment'[c].status = "RELEASED"
              /\ \A k \in Case : ~AwardInFlight(c, k)
              => items[c] # <<>>]_allVars
  <2> SUFFICES ASSUME TypeInv, DeliveryInv, [DeliveryNext]_allVars, NEW c \in Collab,
                      IsHeld(payment[c]), payment'[c].status = "RELEASED",
                      \A k \in Case : ~AwardInFlight(c, k)
               PROVE  items[c] # <<>>
    OBVIOUS
  <2>1. release \in calls[c]
    BY ReleasedBy
  <2> QED
    BY <2>1, OneOf DEF WorkSound, CallSound, release
<1> QED
  BY <1>1, <1>2, DeliveryAlways, PTL DEF DeliverySpec, PaidOnlyForWork
-----------------------------------------------------------------------------
(* Accepted work that is not paid stays what the lifecycle job looks for   *)
(* (lifecycle.repository.js:9): no write of another service takes the      *)
(* collaboration out of IN_REVIEW before its payment is settled, more work *)
(* is submitted or a publication is entered.  It is the safety side of     *)
(* AcceptedIsPaid: what is left to fairness is that the job finds it.      *)
AcceptedStaysDue ==
  [][\A c \in Collab :
       /\ Accepted(c) /\ proof[c] = "NONE"
       /\ IsHeld(payment'[c]) /\ AllApproved(c)' /\ proof'[c] = "NONE"
       => Accepted(c)']_allVars

THEOREM AcceptedWorkStaysDue == DeliverySpec => AcceptedStaysDue
<1>1. DeliverySpec => []TypeInv
  <2>1. Spec => []TypeInv
    BY TypeInit, TypeStep, PTL DEF Spec
  <2> QED
    BY <2>1, DeliveryImplementsEscrow, PTL DEF ImplementsEscrow
<1>2. TypeInv /\ DeliveryInv /\ [DeliveryNext]_allVars
        => [\A c \in Collab :
              /\ Accepted(c) /\ proof[c] = "NONE"
              /\ IsHeld(payment'[c]) /\ AllApproved(c)' /\ proof'[c] = "NONE"
              => Accepted(c)']_allVars
  <2> SUFFICES ASSUME TypeInv, DeliveryInv, [DeliveryNext]_allVars, NEW c \in Collab,
                      status[c] = "IN_REVIEW", IsHeld(payment[c]), proof[c] = "NONE",
                      IsHeld(payment'[c]), proof'[c] = "NONE"
               PROVE  status'[c] = "IN_REVIEW"
    BY DEF Accepted, IsHeld
  <2>1. ASSUME NEW d \in Collab, MoneyStep(d)
        PROVE  status'[c] = "IN_REVIEW"
    <3>1. CASE d # c
      BY <2>1, <3>1 DEF MoneyStep, Fund, Release, ReleaseAgain, Refund, TypeInv, TypeOK
    <3>2. CASE d = c
      BY <2>1, <3>2, MoneyStepHeld
    <3> QED
      BY <3>1, <3>2
  <2>2. ASSUME NEW d \in Collab, NEW k \in Case, DisputeStep(d, k)
        PROVE  status'[c] = "IN_REVIEW"
    <3>1. CASE AwardWrite(d, k)
      <4>1. d # c
        BY <3>1 DEF AwardWrite, Awarded, IsHeld, TypeInv, TypeOK
      <4> QED
        BY <3>1, <4>1 DEF AwardWrite, TypeInv, TypeOK
    <3>2. CASE ~AwardWrite(d, k)
      BY <2>2, <3>2 DEF DisputeStep, OpenDisputeRead, FreezeContractRead,
         CreateDispute, EditCaseRead, EditCaseWrite, AwardRead, AwardAbort
    <3> QED
      BY <3>1, <3>2
  <2>3. ASSUME NEW d \in Collab, Publish(d)
        PROVE  status'[c] = "IN_REVIEW"
    BY <2>3, PublishHeld DEF DeliveryInv
  <2>4. ASSUME NEW d \in Collab, Deliver(d)
        PROVE  status'[c] = "IN_REVIEW"
    BY <2>4, DeliverStep DEF Progress, vars, TypeInv, TypeOK
  <2>5. ASSUME NEW d \in Collab, Lifecycle(d)
        PROVE  status'[c] = "IN_REVIEW"
    BY <2>5, LifecycleHeld DEF DeliveryInv
  <2>6. ASSUME NEW d \in Collab, ReleaseCall(d) \/ Crash(d)
        PROVE  MoneyStep(d) \/ status' = status
    BY <2>6 DEF ReleaseCall, Crash, vars, MoneyStep
  <2>7. ASSUME NEW d \in Collab, RefundByPolicy(d)
        PROVE  MoneyStep(d)
    BY <2>7, RefundByPolicyStep
  <2>8. CASE Pay
    <3>1. (\E d \in Collab : MoneyStep(d)) \/ status' = status
      BY <2>8 DEF Pay, MoneyStep, TopUp
    <3> QED
      BY <2>1, <3>1
  <2>9. CASE UNCHANGED allVars
    BY <2>9 DEF allVars, vars
  <2> QED
    BY <2>1, <2>2, <2>3, <2>4, <2>5, <2>6, <2>7, <2>8, <2>9 DEF DeliveryNext, Dispute
<1> QED
  BY <1>1, <1>2, DeliveryAlways, PTL DEF DeliverySpec, AcceptedStaysDue
-----------------------------------------------------------------------------
(* The stale decisions of the delivery services and of the lifecycle job   *)
(* make or lose no money.                                                  *)
THEOREM DeliveryConservesMoney == DeliverySpec => []MoneyConserved
BY DeliveryImplementsEscrow, MoneyIsConserved, PTL DEF ImplementsEscrow

(* Whatever the delivery services write late, and whatever stale awards do:*)
(* the books of a payment add up, a payment that can still be released or  *)
(* refunded is what the ledger holds for it, and a collaboration is        *)
(* COMPLETED or CANCELLED only as its money says.                          *)
THEOREM DeliveryKeepsLedger ==
  DeliverySpec => [](NothingLost /\ HeldIsBacked /\ FinalStatusFollowsMoney)
BY DeliveryImplementsEscrow, MoneyIsNotLost, HeldStaysBacked, StatusFollowsMoney, PTL
DEF ImplementsEscrow

(* And as long as no award is stale, a settled payment is final too.       *)
THEOREM DeliverySettlesOnce ==
  DeliverySpec /\ [][AwardsCurrent]_vars => []HeldMatchesLedger /\ SettledIsFinal
BY DeliveryImplementsEscrow, HeldIsLedger, SettlementIsFinal, PTL DEF ImplementsEscrow
=============================================================================

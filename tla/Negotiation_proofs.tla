------------------------ MODULE Negotiation_proofs ------------------------
(***************************************************************************)
(* What holds of negotiated terms and signatures in every interleaving,    *)
(* for any terms, any number of versions and any number of requests in     *)
(* flight; and what holds besides while no write was decided on stale      *)
(* reads.                                                                  *)
(***************************************************************************)
EXTENDS Negotiation, TLAPS

USE NegotiationAssumption

(* A request's reads name versions that exist, and what its operation has  *)
(* checked was so when it read; the terms of a version never change.       *)
CallSound(call) ==
  LET v == call.collab.termsVersion IN
  /\ v \in 1 .. Len(agreements)
  /\ call.collab.terms = agreements[v].terms
  /\ call.op = "approveAgreement" =>
       agreements[v].locked /\ call.collab.status = "AGREEMENT_REVIEW"
  /\ call.op = "approveContract" =>
       /\ call.contract.current \in 1 .. Len(versions)
       /\ call.contract.status = "PENDING_APPROVAL"
  /\ call.op \notin {"approveAgreement", "approveContract"} =>
       call.collab.status \in NegotiationStatus

(* While nothing has raced, the contract and the collaboration agree.      *)
InStep ==
  /\ contract.status # "ACTIVE" => funded = {}
  /\ contract.status \in {"PENDING_APPROVAL", "ACTIVE"} =>
       /\ versions[contract.current].terms = collab.terms
       /\ contract.terms = collab.terms
  /\ contract.status = "ACTIVE" =>
       /\ versions[contract.current].approved = Party
       /\ collab.status \in {"PAYMENT_PENDING", "IN_PROGRESS"}
       /\ funded \subseteq {collab.terms}

NegotiationInv ==
  /\ NegotiationTypeOK
  /\ TermsAreLatest
  /\ SignedWasAgreed
  /\ Len(agreements) > 0
  /\ contract.status \in {"PENDING_APPROVAL", "ACTIVE"} => contract.current > 0
  /\ \A call \in calls : CallSound(call)
  /\ ~raced => InStep

(***************************************************************************)
(* Ranges, sequences and records, each fact once.                          *)
(***************************************************************************)
LEMMA InRange ==
  ASSUME NEW m \in Nat, NEW n \in Nat, m <= n, NEW v \in 1 .. m
  PROVE  v \in 1 .. n
OBVIOUS

LEMMA InRangeOrAbove ==
  ASSUME NEW m \in Nat, NEW n \in Nat, NEW v \in 1 .. n
  PROVE  v \in 1 .. m \/ (n # m /\ v \in (m + 1) .. n)
OBVIOUS

LEMMA Element ==
  ASSUME NEW S, NEW s \in Seq(S), NEW i \in 1 .. Len(s)
  PROVE  s[i] \in S
OBVIOUS

LEMMA Replaced ==
  ASSUME NEW S, NEW s \in Seq(S), NEW i \in 1 .. Len(s), NEW e \in S,
         NEW new, new = [s EXCEPT ![i] = e]
  PROVE  /\ new \in Seq(S) /\ Len(new) = Len(s) /\ new[i] = e
         /\ \A k \in 1 .. Len(s) : k # i => new[k] = s[k]
OBVIOUS

(* A row that moves on: its status and version change.                     *)
LEMMA CollabMoved ==
  ASSUME NEW c \in Collaboration, NEW new,
         NEW status \in NegotiationStatus \cup {"PAYMENT_PENDING", "IN_PROGRESS"},
         new = [c EXCEPT !.status = status, !.version = c.version + 1]
  PROVE  /\ new \in Collaboration /\ new.terms = c.terms
         /\ new.termsVersion = c.termsVersion /\ new.status = status
<1>1. c.version + 1 \in Nat /\ c.termsVersion \in Nat
  BY DEF Collaboration
<1> QED
  BY <1>1 DEF Collaboration

LEMMA Approved ==
  ASSUME NEW a \in Agreement, NEW p \in SUBSET Party
  PROVE  /\ [a EXCEPT !.approved = p] \in Agreement
         /\ [a EXCEPT !.approved = p].approved = p
         /\ [a EXCEPT !.approved = p].terms = a.terms
         /\ [a EXCEPT !.approved = p].locked <=> a.locked
<1> DEFINE new == [a EXCEPT !.approved = p]
<1>1. new = [terms |-> a.terms, locked |-> a.locked, approved |-> p]
  BY DEF Agreement
<1>2. a.terms \in Terms /\ a.locked \in BOOLEAN
  BY DEF Agreement
<1> QED
  BY <1>1, <1>2, Zenon DEF Agreement

LEMMA Locked ==
  ASSUME NEW a \in Agreement, NEW new, new = [a EXCEPT !.locked = TRUE]
  PROVE  /\ new \in Agreement /\ new.approved = a.approved
         /\ new.terms = a.terms /\ new.locked
<1>1. a.terms \in Terms /\ a.approved \in SUBSET Party
  BY DEF Agreement
<1>2. a = [terms |-> a.terms, locked |-> a.locked, approved |-> a.approved]
  BY DEF Agreement
<1>3. new = [terms |-> a.terms, locked |-> TRUE, approved |-> a.approved]
  BY <1>2, Zenon
<1> QED
  BY <1>1, <1>3, Zenon DEF Agreement

LEMMA Signed ==
  ASSUME NEW a \in ContractVersion, NEW p \in SUBSET Party
  PROVE  /\ [a EXCEPT !.approved = p] \in ContractVersion
         /\ [a EXCEPT !.approved = p].approved = p
         /\ [a EXCEPT !.approved = p].terms = a.terms
BY DEF ContractVersion

LEMMA InitNegotiation == NegotiationInit => NegotiationInv
<1> SUFFICES ASSUME NegotiationInit PROVE NegotiationInv
  OBVIOUS
<1>1. /\ agreements = <<Draft(FirstTerms)>> /\ Len(agreements) = 1
      /\ Draft(FirstTerms) \in Agreement /\ agreements \in Seq(Agreement)
      /\ agreements[1].terms = FirstTerms
  BY DEF NegotiationInit, Draft, Agreement
<1>2. versions = <<>> /\ Len(versions) = 0 /\ versions \in Seq(ContractVersion)
      /\ DOMAIN versions = {}
  BY DEF NegotiationInit
<1>3. collab \in Collaboration /\ contract \in Contract
  BY DEF NegotiationInit, Collaboration, NegotiationStatus, Contract
<1>4. NegotiationTypeOK
  <2>1. Len(versions) = contract.current
    BY <1>2 DEF NegotiationInit
  <2>2. funded \subseteq Terms /\ calls \subseteq Call /\ raced \in BOOLEAN
    BY DEF NegotiationInit
  <2> QED
    BY <1>1, <1>2, <1>3, <2>1, <2>2 DEF NegotiationTypeOK
<1>5. TermsAreLatest
  BY <1>1 DEF NegotiationInit, TermsAreLatest
<1>6. contract.status = "DRAFT" /\ funded = {} /\ calls = {} /\ ~raced
  BY DEF NegotiationInit
<1>7. SignedWasAgreed
  BY <1>2, <1>6 DEF SignedWasAgreed
<1> QED
  BY <1>1, <1>4, <1>5, <1>6, <1>7 DEF NegotiationInv, InStep

(***************************************************************************)
(* Versions only grow: none is removed or renumbered, none changes its     *)
(* terms, loses its lock or an approval.                                   *)
(***************************************************************************)
VersionsGrow ==
  /\ Len(agreements) <= Len(agreements')
  /\ \A a \in 1 .. Len(agreements) :
       /\ agreements'[a].terms = agreements[a].terms
       /\ agreements[a].locked => agreements'[a].locked
       /\ agreements[a].approved \subseteq agreements'[a].approved
  /\ Len(versions) <= Len(versions')
  /\ \A v \in 1 .. Len(versions) :
       /\ versions'[v].terms = versions[v].terms
       /\ versions[v].approved \subseteq versions'[v].approved

LEMMA GrowingKeepsCalls ==
  ASSUME NegotiationInv, NegotiationTypeOK', VersionsGrow, calls' \subseteq calls
  PROVE  \A call \in calls' : CallSound(call)'
<1> SUFFICES ASSUME NEW call \in calls' PROVE CallSound(call)'
  OBVIOUS
<1> DEFINE v == call.collab.termsVersion
<1>1. CallSound(call)
  BY DEF NegotiationInv
<1>2. /\ Len(agreements) \in Nat /\ Len(agreements') \in Nat
      /\ Len(versions) \in Nat /\ Len(versions') \in Nat
  BY DEF NegotiationInv, NegotiationTypeOK
<1>3. /\ v \in 1 .. Len(agreements) /\ v \in 1 .. Len(agreements')
      /\ agreements'[v].terms = agreements[v].terms
      /\ agreements[v].locked => agreements'[v].locked
  BY <1>1, <1>2 DEF CallSound, VersionsGrow
<1>4. call.op = "approveContract" => call.contract.current \in 1 .. Len(versions')
  BY <1>1, <1>2 DEF CallSound, VersionsGrow
<1> QED
  BY <1>1, <1>3, <1>4 DEF CallSound

(* A version that was agreed stays agreed, a signature stays given.        *)
LEMMA GrowingKeepsSigned ==
  ASSUME NegotiationInv, NegotiationTypeOK', VersionsGrow,
         Len(versions') = Len(versions) \/ \E a \in 1 .. Len(agreements') :
           /\ agreements'[a].locked /\ agreements'[a].approved = Party
           /\ \A v \in (Len(versions) + 1) .. Len(versions') :
                versions'[v].terms = agreements'[a].terms,
         contract'.status = "ACTIVE" /\ contract.status # "ACTIVE" =>
           \E v \in 1 .. Len(versions') : versions'[v].approved = Party
  PROVE  SignedWasAgreed'
<1>1. /\ DOMAIN versions = 1 .. Len(versions) /\ DOMAIN versions' = 1 .. Len(versions')
      /\ DOMAIN agreements = 1 .. Len(agreements)
      /\ DOMAIN agreements' = 1 .. Len(agreements')
      /\ Len(versions) \in Nat /\ Len(versions') \in Nat
      /\ Len(agreements) \in Nat /\ Len(agreements') \in Nat
  BY DEF NegotiationInv, NegotiationTypeOK
<1>0. /\ \A a \in 1 .. Len(agreements') : agreements'[a].approved \subseteq Party
      /\ \A v \in 1 .. Len(versions') : versions'[v].approved \subseteq Party
  <2>1. /\ \A a \in 1 .. Len(agreements') : agreements'[a] \in Agreement
        /\ \A v \in 1 .. Len(versions') : versions'[v] \in ContractVersion
    BY DEF NegotiationTypeOK
  <2> QED
    BY <2>1 DEF Agreement, ContractVersion
<1>2. ASSUME NEW v \in 1 .. Len(versions)
      PROVE  \E a \in 1 .. Len(agreements') :
               /\ agreements'[a].locked /\ agreements'[a].approved = Party
               /\ agreements'[a].terms = versions'[v].terms
  <2>1. PICK a \in 1 .. Len(agreements) :
          /\ agreements[a].locked /\ agreements[a].approved = Party
          /\ agreements[a].terms = versions[v].terms
    BY <1>1 DEF NegotiationInv, SignedWasAgreed, Both
  <2>2. a \in 1 .. Len(agreements')
    BY <1>1, InRange DEF VersionsGrow
  <2>3. agreements[a].approved \subseteq agreements'[a].approved
    BY <2>1 DEF VersionsGrow
  <2>4. agreements'[a].approved = Party
    BY <1>0, <2>1, <2>2, <2>3
  <2>5. agreements'[a].locked /\ agreements'[a].terms = versions'[v].terms
    BY <2>1 DEF VersionsGrow
  <2> QED
    BY <2>2, <2>4, <2>5
<1>3. ASSUME NEW v \in 1 .. Len(versions')
      PROVE  \E a \in 1 .. Len(agreements') :
               /\ agreements'[a].locked /\ agreements'[a].approved = Party
               /\ agreements'[a].terms = versions'[v].terms
  <2>1. CASE v \in 1 .. Len(versions)
    BY <1>2, <2>1
  <2>2. CASE v \notin 1 .. Len(versions)
    <3>1. Len(versions') # Len(versions) /\ v \in (Len(versions) + 1) .. Len(versions')
      BY <1>1, <2>2, InRangeOrAbove
    <3> QED
      BY <3>1
  <2> QED
    BY <2>1, <2>2
<1>4. ASSUME contract'.status = "ACTIVE"
      PROVE  \E v \in 1 .. Len(versions') : versions'[v].approved = Party
  <2>1. CASE contract.status = "ACTIVE"
    <3>1. PICK v \in 1 .. Len(versions) : versions[v].approved = Party
      BY <1>1, <2>1 DEF NegotiationInv, SignedWasAgreed
    <3>2. v \in 1 .. Len(versions')
      BY <1>1, InRange DEF VersionsGrow
    <3>3. versions[v].approved \subseteq versions'[v].approved
      BY <3>1 DEF VersionsGrow
    <3>4. versions'[v].approved = Party
      BY <1>0, <3>1, <3>2, <3>3
    <3> QED
      BY <3>2, <3>4
  <2>2. CASE contract.status # "ACTIVE"
    BY <1>4, <2>2
  <2> QED
    BY <2>1, <2>2
<1> QED
  BY <1>1, <1>3, <1>4 DEF SignedWasAgreed, Both

(* What every step that adds a version of the terms has in common.         *)
LEMMA AppendAgreement ==
  ASSUME NegotiationInv, NEW call, NEW t \in Terms, NewVersion(call, t),
         versions' = versions
  PROVE  /\ agreements' \in Seq(Agreement) /\ Len(agreements') = Len(agreements) + 1
         /\ agreements'[Len(agreements')].terms = t
         /\ VersionsGrow
<1>1. Draft(t) \in Agreement /\ Draft(t).terms = t
  BY DEF Draft, Agreement
<1>2. agreements' = Append(agreements, Draft(t)) /\ agreements \in Seq(Agreement)
  BY DEF NewVersion, NegotiationInv, NegotiationTypeOK
<1>3. /\ agreements' \in Seq(Agreement) /\ Len(agreements') = Len(agreements) + 1
      /\ agreements'[Len(agreements) + 1] = Draft(t)
      /\ \A a \in 1 .. Len(agreements) : agreements'[a] = agreements[a]
  BY <1>1, <1>2
<1>4. Len(agreements) \in Nat /\ Len(versions) \in Nat
  BY <1>2 DEF NegotiationInv, NegotiationTypeOK
<1> QED
  BY <1>1, <1>3, <1>4 DEF VersionsGrow

LEMMA StillSome ==
  ASSUME NegotiationInv, NegotiationTypeOK', VersionsGrow
  PROVE  Len(agreements') > 0
<1>1. Len(agreements) \in Nat /\ Len(agreements') \in Nat /\ Len(agreements) > 0
  BY DEF NegotiationInv, NegotiationTypeOK
<1>2. Len(agreements) <= Len(agreements')
  BY DEF VersionsGrow
<1> QED
  BY <1>1, <1>2

(* A call in flight, unpacked.                                             *)
LEMMA CallFacts ==
  ASSUME NegotiationInv, NEW call \in calls
  PROVE  /\ call.party \in Party /\ call.terms \in Terms
         /\ call.collab \in Collaboration /\ call.contract \in Contract
         /\ CallSound(call)
         /\ agreements \in Seq(Agreement) /\ versions \in Seq(ContractVersion)
         /\ Len(agreements) \in Nat /\ Len(versions) \in Nat
         /\ collab \in Collaboration /\ contract \in Contract
         /\ funded \subseteq Terms
BY DEF NegotiationInv, NegotiationTypeOK, Call

(* While nothing has raced, what a call has read is what there is.         *)
LEMMA Fresh ==
  ASSUME NEW call, Written(call), ~raced'
  PROVE  ~raced /\ call.collab = collab /\ call.contract = contract
BY DEF Written

LEMMA WrittenType ==
  ASSUME NegotiationInv, NEW call \in calls, Written(call)
  PROVE  calls' \subseteq Call /\ raced' \in BOOLEAN /\ calls' \subseteq calls
BY DEF Written, NegotiationInv, NegotiationTypeOK

(***************************************************************************)
(* One lemma for each kind of step.                                        *)
(***************************************************************************)
LEMMA ReadKeeps ==
  ASSUME NegotiationInv, NEW op \in Op, NEW party \in Party, NEW t \in Terms,
         Read(op, party, t)
  PROVE  NegotiationInv'
<1> DEFINE call == [op |-> op, party |-> party, collab |-> collab,
                    contract |-> contract, terms |-> t]
<1>1. call \in Call
  BY DEF Call, NegotiationInv, NegotiationTypeOK
<1>2. calls' = calls \cup {call}
      /\ UNCHANGED <<collab, contract, agreements, versions, funded, raced>>
  BY DEF Read
<1>3. /\ Len(agreements) \in Nat /\ Len(versions) \in Nat
      /\ collab.termsVersion = Len(agreements) /\ collab.termsVersion \in Nat
      /\ collab.terms = agreements[Len(agreements)].terms
      /\ Len(versions) = contract.current /\ contract.current \in Nat
      /\ contract.status = "PENDING_APPROVAL" => contract.current > 0
  BY DEF NegotiationInv, NegotiationTypeOK, TermsAreLatest, Collaboration, Contract
<1>4. Len(agreements) > 0
  BY DEF NegotiationInv
<1>5. CallSound(call)
  <2>1. /\ call.op = op /\ call.collab = collab /\ call.contract = contract
    OBVIOUS
  <2>2. Allowed(op, party)
    BY DEF Read
  <2> HIDE DEF call
  <2>3. collab.termsVersion \in 1 .. Len(agreements)
    BY <1>3, <1>4
  <2>4. CASE op = "approveAgreement"
    <3>1. collab.status = "AGREEMENT_REVIEW" /\ agreements[Len(agreements)].locked
      BY <2>2, <2>4 DEF Allowed
    <3>2. agreements[collab.termsVersion].locked
      BY <1>3, <3>1
    <3>3. call.collab.termsVersion \in 1 .. Len(agreements)
          /\ call.collab.terms = agreements[call.collab.termsVersion].terms
      BY <1>3, <2>1, <2>3
    <3> QED
      BY <2>1, <2>4, <3>1, <3>2, <3>3, Zenon DEF CallSound
  <2>5. CASE op = "approveContract"
    <3>1. contract.status = "PENDING_APPROVAL"
      BY <2>2, <2>5 DEF Allowed
    <3>2. contract.current \in 1 .. Len(versions)
      BY <1>3, <3>1
    <3> QED
      BY <1>3, <2>1, <2>3, <2>5, <3>1, <3>2 DEF CallSound
  <2>6. CASE op \notin {"approveAgreement", "approveContract"}
    <3>1. collab.status \in NegotiationStatus
      BY <2>2, <2>6 DEF Allowed, Op, NegotiationStatus
    <3> QED
      BY <1>3, <2>1, <2>3, <2>6, <3>1 DEF CallSound
  <2> QED
    BY <2>4, <2>5, <2>6
<1> HIDE DEF call
<1>6. \A c \in calls' : CallSound(c)'
  BY <1>2, <1>5 DEF CallSound, NegotiationInv
<1>7. NegotiationTypeOK'
  BY <1>1, <1>2 DEF NegotiationInv, NegotiationTypeOK
<1> QED
  BY <1>2, <1>6, <1>7
  DEF NegotiationInv, TermsAreLatest, SignedWasAgreed, InStep

LEMMA QuietKeeps ==
  ASSUME NegotiationInv, calls' \subseteq calls,
         UNCHANGED <<collab, contract, agreements, versions, funded, raced>>
  PROVE  NegotiationInv'
BY DEF NegotiationInv, NegotiationTypeOK, TermsAreLatest, SignedWasAgreed, InStep,
       CallSound

LEMMA UpdateKeeps ==
  ASSUME NegotiationInv, NEW call \in calls, UpdateTerms(call)
  PROVE  NegotiationInv'
<1>1. /\ agreements' \in Seq(Agreement) /\ Len(agreements') = Len(agreements) + 1
      /\ agreements'[Len(agreements')].terms = call.terms /\ VersionsGrow
  BY CallFacts, AppendAgreement DEF UpdateTerms
<1>2. /\ collab' = [status |-> "NEGOTIATION", terms |-> call.terms,
                    termsVersion |-> collab.termsVersion + 1,
                    version |-> collab.version + 1]
      /\ collab' \in Collaboration
  BY CallFacts DEF UpdateTerms, Collaboration, NegotiationStatus
<1>3. contract' \in Contract /\ contract'.status = "DRAFT"
      /\ contract'.current = contract.current
  BY CallFacts DEF UpdateTerms, Contract
<1>4. NegotiationTypeOK'
  BY <1>1, <1>2, <1>3, WrittenType DEF UpdateTerms, NegotiationInv, NegotiationTypeOK
<1>5. TermsAreLatest'
  BY <1>1, <1>2 DEF TermsAreLatest, NegotiationInv
<1>6. SignedWasAgreed'
  BY <1>1, <1>3, <1>4, GrowingKeepsSigned DEF UpdateTerms
<1>7. ~raced' => InStep'
  <2> SUFFICES ASSUME ~raced' PROVE funded' = {}
    BY <1>3 DEF InStep
  <2>1. ~raced /\ call.collab = collab
    BY Fresh DEF UpdateTerms
  <2>2. call.collab.status \in NegotiationStatus
    BY CallFacts DEF CallSound, UpdateTerms
  <2> QED
    BY <2>1, <2>2 DEF NegotiationInv, InStep, NegotiationStatus, UpdateTerms
<1>8. \A c \in calls' : CallSound(c)'
  BY <1>1, <1>4, WrittenType, GrowingKeepsCalls DEF UpdateTerms
<1>9. Len(agreements') > 0
  BY <1>1, <1>4, StillSome
<1> QED
  BY <1>9, <1>3, <1>4, <1>5, <1>6, <1>7, <1>8 DEF NegotiationInv

LEMMA LockKeeps ==
  ASSUME NegotiationInv, NEW call \in calls, LockAgreement(call)
  PROVE  NegotiationInv'
<1> DEFINE v == call.collab.termsVersion
<1>1. v \in 1 .. Len(agreements) /\ agreements[v] \in Agreement
  BY CallFacts, Element DEF CallSound
<1>2. agreements' = [agreements EXCEPT ![v] = [agreements[v] EXCEPT !.locked = TRUE]]
  BY DEF LockAgreement
<1> DEFINE new == [agreements[v] EXCEPT !.locked = TRUE]
<1>3. /\ new \in Agreement /\ new.approved = agreements[v].approved
      /\ new.terms = agreements[v].terms /\ new.locked
  BY <1>1, Locked, Zenon
<1> HIDE DEF new, v
<1>4a. /\ agreements' \in Seq(Agreement) /\ Len(agreements') = Len(agreements)
       /\ agreements'[v] = new
       /\ \A k \in 1 .. Len(agreements) : k # v => agreements'[k] = agreements[k]
  <2>1. agreements' = [agreements EXCEPT ![v] = new]
    BY <1>2 DEF new
  <2>2. agreements \in Seq(Agreement)
    BY CallFacts
  <2> QED
    BY <1>1, <1>3, <2>1, <2>2, Replaced
<1>4. /\ agreements' \in Seq(Agreement) /\ Len(agreements') = Len(agreements)
      /\ \A a \in 1 .. Len(agreements) :
           /\ agreements'[a].terms = agreements[a].terms
           /\ agreements[a].locked => agreements'[a].locked
           /\ agreements[a].approved = agreements'[a].approved
  BY <1>3, <1>4a
<1>5. VersionsGrow
  BY <1>4, CallFacts DEF VersionsGrow, LockAgreement
<1>6. /\ collab' \in Collaboration /\ collab'.terms = collab.terms
      /\ collab'.termsVersion = collab.termsVersion /\ collab'.status = "AGREEMENT_REVIEW"
  <2>1. collab' = [collab EXCEPT !.status = "AGREEMENT_REVIEW",
                                 !.version = collab.version + 1]
    BY DEF LockAgreement
  <2>2. "AGREEMENT_REVIEW" \in NegotiationStatus \cup {"PAYMENT_PENDING", "IN_PROGRESS"}
    BY DEF NegotiationStatus
  <2>3. collab \in Collaboration
    BY CallFacts
  <2> QED
    BY <2>1, <2>2, <2>3, CollabMoved
<1>7. NegotiationTypeOK'
  BY <1>4, <1>6, WrittenType DEF LockAgreement, NegotiationInv, NegotiationTypeOK
<1>8. TermsAreLatest'
  BY <1>4, <1>6, CallFacts, <1>1 DEF TermsAreLatest, NegotiationInv
<1>9. SignedWasAgreed'
  BY <1>5, <1>7, GrowingKeepsSigned DEF LockAgreement
<1>10. ~raced' => InStep'
  <2> SUFFICES ASSUME ~raced' PROVE InStep'
    OBVIOUS
  <2>1. InStep
    BY Fresh DEF LockAgreement, NegotiationInv
  <2>2. collab.status = "NEGOTIATION"
    BY DEF LockAgreement
  <2> QED
    BY <1>6, <2>1, <2>2 DEF InStep, LockAgreement
<1>11. \A c \in calls' : CallSound(c)'
  BY <1>5, <1>7, WrittenType, GrowingKeepsCalls DEF LockAgreement
<1>12. Len(agreements') > 0
  BY <1>5, <1>7, StillSome
<1>13. contract' = contract
  BY DEF LockAgreement
<1> QED
  BY <1>7, <1>8, <1>9, <1>10, <1>11, <1>12, <1>13 DEF NegotiationInv

LEMMA ChangesKeep ==
  ASSUME NegotiationInv, NEW call \in calls, RequestChanges(call)
  PROVE  NegotiationInv'
<1> DEFINE v == call.collab.termsVersion
           terms == IF call.op = "requestContractChanges"
                      THEN agreements[v].terms ELSE call.collab.terms
<1>1. /\ v \in 1 .. Len(agreements) /\ v = Len(agreements)
      /\ terms = agreements[v].terms /\ terms \in Terms
  <2>1. v \in 1 .. Len(agreements) /\ call.collab.terms = agreements[v].terms
    BY CallFacts DEF CallSound
  <2>0. agreements[v] \in Agreement
    BY <2>1, CallFacts, Element
  <2>2. agreements[v].terms \in Terms
    BY <2>0 DEF Agreement
  <2>3. v = Len(agreements)
    BY DEF RequestChanges, NewVersion
  <2> QED
    BY <2>1, <2>2, <2>3
<1>2. NewVersion(call, terms)
  BY DEF RequestChanges
<1> HIDE DEF terms
<1>3. /\ agreements' \in Seq(Agreement) /\ Len(agreements') = Len(agreements) + 1
      /\ agreements'[Len(agreements')].terms = terms /\ VersionsGrow
  BY <1>1, <1>2, AppendAgreement DEF RequestChanges
<1>4. /\ collab' \in Collaboration /\ collab'.terms = collab.terms
      /\ collab'.termsVersion = v + 1 /\ collab'.status = "NEGOTIATION"
  <2> DEFINE m == v + 1
             n == collab.version + 1
  <2>1. m \in Nat /\ n \in Nat /\ collab \in Collaboration
    BY <1>1, CallFacts DEF Collaboration
  <2>2. collab' = [collab EXCEPT !.status = "NEGOTIATION", !.version = n,
                                 !.termsVersion = m]
    BY DEF RequestChanges
  <2> HIDE DEF m, n
  <2>3. /\ collab' \in Collaboration /\ collab'.terms = collab.terms
        /\ collab'.termsVersion = m /\ collab'.status = "NEGOTIATION"
    BY <2>1, <2>2 DEF Collaboration, NegotiationStatus
  <2> QED
    BY <2>3 DEF m
<1>5. contract' \in Contract /\ contract'.status = "CHANGES_REQUESTED"
      /\ contract'.current = contract.current
  <2>1. contract' = [contract EXCEPT !.status = "CHANGES_REQUESTED", !.terms = terms]
    BY DEF RequestChanges, terms
  <2> QED
    BY <1>1, <2>1, CallFacts DEF Contract
<1>6. NegotiationTypeOK'
  BY <1>3, <1>4, <1>5, WrittenType DEF RequestChanges, NegotiationInv, NegotiationTypeOK
<1>7. TermsAreLatest'
  BY <1>1, <1>3, <1>4 DEF TermsAreLatest, NegotiationInv
<1>8. SignedWasAgreed'
  BY <1>3, <1>5, <1>6, GrowingKeepsSigned DEF RequestChanges
<1>9. ~raced' => InStep'
  <2> SUFFICES ASSUME ~raced' PROVE funded' = {}
    BY <1>5 DEF InStep
  <2>1. ~raced /\ call.collab = collab
    BY Fresh DEF RequestChanges
  <2>2. call.collab.status \in NegotiationStatus
    BY CallFacts DEF CallSound, RequestChanges
  <2> QED
    BY <2>1, <2>2 DEF NegotiationInv, InStep, NegotiationStatus, RequestChanges
<1>10. \A c \in calls' : CallSound(c)'
  BY <1>3, <1>6, WrittenType, GrowingKeepsCalls DEF RequestChanges
<1>11. Len(agreements') > 0
  BY <1>3, <1>6, StillSome
<1> QED
  BY <1>5, <1>6, <1>7, <1>8, <1>9, <1>10, <1>11 DEF NegotiationInv

LEMMA AgreementKeeps ==
  ASSUME NegotiationInv, NEW call \in calls, ApproveAgreement(call)
  PROVE  NegotiationInv'
<1> DEFINE v == call.collab.termsVersion
           approved == agreements[v].approved \cup {call.party}
           new == [terms |-> agreements[v].terms, approved |-> {}]
<1>1. /\ v \in 1 .. Len(agreements) /\ agreements[v] \in Agreement
      /\ agreements[v].locked /\ approved \subseteq Party /\ new \in ContractVersion
      /\ agreements[v].terms \in Terms /\ call.collab.status = "AGREEMENT_REVIEW"
  <2>1. /\ v \in 1 .. Len(agreements) /\ call.op = "approveAgreement"
        /\ agreements[v].locked /\ call.collab.status = "AGREEMENT_REVIEW"
    BY CallFacts DEF CallSound, ApproveAgreement
  <2>2. agreements[v] \in Agreement
    BY <2>1, CallFacts, Element
  <2>3. agreements[v].terms \in Terms /\ agreements[v].approved \subseteq Party
    BY <2>2 DEF Agreement
  <2>4. approved \subseteq Party
    BY <2>3, CallFacts
  <2>5. new \in ContractVersion
    BY <2>3 DEF ContractVersion
  <2> QED
    BY <2>1, <2>2, <2>3, <2>4, <2>5
<1>2. /\ agreements' = [agreements EXCEPT ![v] = [agreements[v] EXCEPT !.approved = approved]]
      /\ IF approved = Party
           THEN /\ versions' = Append(versions, new)
                /\ contract' = [status |-> "PENDING_APPROVAL", terms |-> agreements[v].terms,
                                current |-> contract.current + 1]
                /\ collab' = [collab EXCEPT !.status = "CONTRACT_REVIEW",
                                            !.version = collab.version + 1]
           ELSE UNCHANGED <<versions, contract, collab>>
      /\ Written(call) /\ funded' = funded
  BY DEF ApproveAgreement, Both, NextContractVersion
<1> DEFINE signed == [agreements[v] EXCEPT !.approved = approved]
<1>3. /\ signed \in Agreement /\ signed.approved = approved
      /\ signed.terms = agreements[v].terms /\ signed.locked
  BY <1>1, Approved
<1>4a. /\ agreements' \in Seq(Agreement) /\ Len(agreements') = Len(agreements)
       /\ agreements'[v] = signed
       /\ \A k \in 1 .. Len(agreements) : k # v => agreements'[k] = agreements[k]
  <2>1. agreements' = [agreements EXCEPT ![v] = signed]
    BY <1>2
  <2>2. agreements \in Seq(Agreement)
    BY CallFacts
  <2> HIDE DEF signed, v
  <2> QED
    BY <1>1, <1>3, <2>1, <2>2, Replaced
<1> HIDE DEF signed
<1>4. /\ agreements' \in Seq(Agreement) /\ Len(agreements') = Len(agreements)
      /\ agreements'[v].approved = approved /\ agreements'[v].terms = agreements[v].terms
      /\ agreements'[v].locked
      /\ \A a \in 1 .. Len(agreements) :
           /\ agreements'[a].terms = agreements[a].terms
           /\ agreements[a].locked => agreements'[a].locked
           /\ agreements[a].approved \subseteq agreements'[a].approved
  BY <1>1, <1>3, <1>4a
<1>5. collab' \in Collaboration /\ collab'.terms = collab.terms
      /\ collab'.termsVersion = collab.termsVersion
  <2>1. CASE approved = Party
    BY <1>2, <2>1, CallFacts, CollabMoved DEF NegotiationStatus
  <2>2. CASE approved # Party
    BY <1>2, <2>2, CallFacts
  <2> QED
    BY <2>1, <2>2
<1>6. /\ versions' \in Seq(ContractVersion) /\ contract' \in Contract
      /\ Len(versions') = contract'.current
      /\ Len(versions) <= Len(versions')
      /\ \A k \in 1 .. Len(versions) : versions'[k] = versions[k]
      /\ \A k \in (Len(versions) + 1) .. Len(versions') : versions'[k] = new
  <2>0. Len(versions) = contract.current /\ contract.current \in Nat
    BY CallFacts DEF NegotiationInv, NegotiationTypeOK, Contract
  <2>1. CASE approved = Party
    <3>1. /\ versions' = Append(versions, new)
          /\ contract' = [status |-> "PENDING_APPROVAL", terms |-> agreements[v].terms,
                          current |-> contract.current + 1]
      BY <1>2, <2>1
    <3> HIDE DEF new
    <3>2. contract' \in Contract /\ contract'.current = contract.current + 1
      BY <1>1, <2>0, <3>1 DEF Contract
    <3> QED
      BY <1>1, <2>0, <3>1, <3>2, CallFacts
  <2>2. CASE approved # Party
    BY <1>2, <2>0, <2>2, CallFacts
  <2> QED
    BY <2>1, <2>2
<1>7. VersionsGrow
  BY <1>4, <1>6, CallFacts DEF VersionsGrow
<1>8. NegotiationTypeOK'
  BY <1>2, <1>4, <1>5, <1>6, WrittenType DEF NegotiationInv, NegotiationTypeOK
<1>9. TermsAreLatest'
  BY <1>1, <1>4, <1>5, CallFacts DEF TermsAreLatest, NegotiationInv
<1>10. SignedWasAgreed'
  <2>1. Len(versions') = Len(versions) \/
          (approved = Party /\ \A k \in (Len(versions) + 1) .. Len(versions') :
                                 versions'[k].terms = agreements'[v].terms)
    BY <1>2, <1>4, <1>6
  <2>2. contract'.status = "ACTIVE" => contract.status = "ACTIVE"
    BY <1>2
  <2> HIDE DEF new, approved
  <2> QED
    BY <1>1, <1>4, <1>7, <1>8, <2>1, <2>2, GrowingKeepsSigned
<1>11. ~raced' => InStep'
  <2> SUFFICES ASSUME ~raced' PROVE InStep'
    OBVIOUS
  <2>1. InStep /\ call.collab = collab
    BY <1>2, Fresh DEF NegotiationInv
  <2>2. /\ collab.status = "AGREEMENT_REVIEW" /\ v = Len(agreements)
        /\ agreements[v].terms = collab.terms
    BY <1>1, <2>1 DEF NegotiationInv, TermsAreLatest
  <2>3. contract.status # "ACTIVE" /\ funded = {}
    BY <2>1, <2>2 DEF InStep
  <2>4. CASE approved = Party
    <3>1. /\ contract'.status = "PENDING_APPROVAL"
          /\ contract'.terms = agreements[v].terms
      BY <1>2, <2>4
    <3>2. contract'.current = Len(versions) + 1 /\ Len(versions') = Len(versions) + 1
      BY <1>2, <1>6, <2>4, CallFacts DEF NegotiationInv, NegotiationTypeOK
    <3>3. versions'[contract'.current].terms = agreements[v].terms
      BY <1>6, <3>2, CallFacts
    <3> QED
      BY <1>2, <1>5, <2>2, <2>3, <3>1, <3>3 DEF InStep
  <2>5. CASE approved # Party
    BY <1>2, <2>1, <2>5 DEF InStep
  <2> QED
    BY <2>4, <2>5
<1>12. \A c \in calls' : CallSound(c)'
  BY <1>2, <1>7, <1>8, WrittenType, GrowingKeepsCalls
<1>13. contract'.status \in {"PENDING_APPROVAL", "ACTIVE"} => contract'.current > 0
  <2>1. contract.current \in Nat
    BY CallFacts DEF Contract
  <2> QED
    BY <1>2, <2>1 DEF NegotiationInv
<1>14. Len(agreements') > 0
  BY <1>7, <1>8, StillSome
<1> QED
  BY <1>8, <1>9, <1>10, <1>11, <1>12, <1>13, <1>14 DEF NegotiationInv

LEMMA ContractKeeps ==
  ASSUME NegotiationInv, NEW call \in calls, ApproveContract(call)
  PROVE  NegotiationInv'
<1> DEFINE v == call.contract.current
           approved == versions[v].approved \cup {call.party}
<1>1. /\ v \in 1 .. Len(versions) /\ versions[v] \in ContractVersion
      /\ approved \subseteq Party /\ call.contract.status = "PENDING_APPROVAL"
  <2>1. v \in 1 .. Len(versions) /\ call.contract.status = "PENDING_APPROVAL"
    BY CallFacts DEF CallSound, ApproveContract
  <2>2. versions[v] \in ContractVersion
    BY <2>1, CallFacts, Element
  <2>3. versions[v].approved \subseteq Party
    BY <2>2 DEF ContractVersion
  <2>4. approved \subseteq Party
    BY <2>3, CallFacts
  <2> QED
    BY <2>1, <2>2, <2>4
<1>2. /\ versions' = [versions EXCEPT ![v] = [versions[v] EXCEPT !.approved = approved]]
      /\ IF approved = Party
           THEN /\ contract' = [contract EXCEPT !.status = "ACTIVE"]
                /\ collab' = [collab EXCEPT !.status = "PAYMENT_PENDING",
                                            !.version = collab.version + 1]
           ELSE UNCHANGED <<contract, collab>>
      /\ Written(call) /\ UNCHANGED <<agreements, funded>>
  BY DEF ApproveContract, Both
<1> DEFINE signed == [versions[v] EXCEPT !.approved = approved]
<1>3. /\ signed \in ContractVersion /\ signed.approved = approved
      /\ signed.terms = versions[v].terms
  BY <1>1, Signed
<1>4a. /\ versions' \in Seq(ContractVersion) /\ Len(versions') = Len(versions)
       /\ versions'[v] = signed
       /\ \A k \in 1 .. Len(versions) : k # v => versions'[k] = versions[k]
  <2>1. versions' = [versions EXCEPT ![v] = signed]
    BY <1>2
  <2>2. versions \in Seq(ContractVersion)
    BY CallFacts
  <2> HIDE DEF signed, v
  <2> QED
    BY <1>1, <1>3, <2>1, <2>2, Replaced
<1> HIDE DEF signed
<1>4. /\ versions' \in Seq(ContractVersion) /\ Len(versions') = Len(versions)
      /\ versions'[v].approved = approved
      /\ \A k \in 1 .. Len(versions) :
           /\ versions'[k].terms = versions[k].terms
           /\ versions[k].approved \subseteq versions'[k].approved
  BY <1>1, <1>3, <1>4a
<1>5. /\ collab' \in Collaboration /\ collab'.terms = collab.terms
      /\ collab'.termsVersion = collab.termsVersion
      /\ contract' \in Contract /\ contract'.current = contract.current
      /\ contract'.terms = contract.terms
  <2>1. CASE approved = Party
    <3>1. /\ collab' \in Collaboration /\ collab'.terms = collab.terms
          /\ collab'.termsVersion = collab.termsVersion
      BY <1>2, <2>1, CallFacts, CollabMoved
    <3>2. contract' = [contract EXCEPT !.status = "ACTIVE"]
      BY <1>2, <2>1
    <3>3. /\ contract' \in Contract /\ contract'.current = contract.current
          /\ contract'.terms = contract.terms
      BY <3>2, CallFacts DEF Contract
    <3> QED
      BY <3>1, <3>3
  <2>2. CASE approved # Party
    BY <1>2, <2>2, CallFacts
  <2> QED
    BY <2>1, <2>2
<1>6. VersionsGrow
  BY <1>2, <1>4, CallFacts DEF VersionsGrow
<1>7. NegotiationTypeOK'
  BY <1>2, <1>4, <1>5, WrittenType DEF NegotiationInv, NegotiationTypeOK
<1>8. TermsAreLatest'
  BY <1>2, <1>5 DEF TermsAreLatest, NegotiationInv
<1>9. contract'.status = "ACTIVE" /\ contract.status # "ACTIVE" => approved = Party
  BY <1>2
<1>10. SignedWasAgreed'
  <2> HIDE DEF approved
  <2> QED
    BY <1>1, <1>4, <1>6, <1>7, <1>9, GrowingKeepsSigned
<1>11. ~raced' => InStep'
  <2> SUFFICES ASSUME ~raced' PROVE InStep'
    OBVIOUS
  <2>1. InStep /\ call.contract = contract
    BY <1>2, Fresh DEF NegotiationInv
  <2>2. /\ contract.status = "PENDING_APPROVAL" /\ v = contract.current /\ funded' = {}
        /\ versions[v].terms = collab.terms /\ contract.terms = collab.terms
    BY <1>1, <1>2, <2>1 DEF InStep
  <2>3. versions'[contract'.current].terms = collab'.terms /\ contract'.terms = collab'.terms
    BY <1>1, <1>4, <1>5, <2>2
  <2>4. contract'.status = "ACTIVE" =>
          /\ versions'[contract'.current].approved = Party
          /\ collab'.status = "PAYMENT_PENDING"
    BY <1>2, <1>4, <1>5, <1>9, <2>2, CallFacts DEF Collaboration
  <2> QED
    BY <2>2, <2>3, <2>4 DEF InStep
<1>12. \A c \in calls' : CallSound(c)'
  BY <1>2, <1>6, <1>7, WrittenType, GrowingKeepsCalls
<1>13. contract'.status \in {"PENDING_APPROVAL", "ACTIVE"} => contract'.current > 0
  BY <1>1, <1>4, <1>7, CallFacts DEF NegotiationTypeOK
<1>14. Len(agreements') > 0
  BY <1>6, <1>7, StillSome
<1> QED
  BY <1>7, <1>8, <1>10, <1>11, <1>12, <1>13, <1>14 DEF NegotiationInv

LEMMA FundKeeps ==
  ASSUME NegotiationInv, Fund
  PROVE  NegotiationInv'
<1>1. /\ collab' \in Collaboration /\ collab'.terms = collab.terms
      /\ collab'.termsVersion = collab.termsVersion /\ collab'.status = "IN_PROGRESS"
      /\ funded' = {collab.terms} /\ collab.terms \in Terms
  <2>1. collab \in Collaboration
    BY DEF NegotiationInv, NegotiationTypeOK
  <2>2. collab.terms \in Terms
    BY <2>1 DEF Collaboration
  <2> QED
    BY <2>1, <2>2, CollabMoved DEF Fund
<1>2. contract.status = "ACTIVE"
      /\ UNCHANGED <<contract, agreements, versions, calls, raced>>
  BY DEF Fund
<1>3. NegotiationTypeOK'
  BY <1>1, <1>2 DEF NegotiationInv, NegotiationTypeOK
<1>4. TermsAreLatest' /\ SignedWasAgreed' /\ \A call \in calls' : CallSound(call)'
  BY <1>1, <1>2 DEF NegotiationInv, TermsAreLatest, SignedWasAgreed, CallSound
<1>5. ~raced' => InStep'
  BY <1>1, <1>2 DEF NegotiationInv, InStep
<1> QED
  BY <1>2, <1>3, <1>4, <1>5 DEF NegotiationInv

LEMMA NegotiationStep ==
  ASSUME NegotiationInv, [NegotiationNext]_vars PROVE NegotiationInv'
<1>1. CASE UNCHANGED vars
  BY <1>1, QuietKeeps DEF vars
<1>2. ASSUME NEW call \in calls, Abort(call) PROVE NegotiationInv'
  BY <1>2, QuietKeeps DEF Abort
<1>3. ASSUME NEW call \in calls, Write(call) PROVE NegotiationInv'
  BY <1>3, UpdateKeeps, LockKeeps, ChangesKeep, AgreementKeeps, ContractKeeps DEF Write
<1> QED
  BY <1>1, <1>2, <1>3, ReadKeeps, FundKeeps DEF NegotiationNext

LEMMA Negotiated == NegotiationSpec => []NegotiationInv
BY InitNegotiation, NegotiationStep, PTL DEF NegotiationSpec

(***************************************************************************)
(* The theorems.                                                           *)
(***************************************************************************)

(* Rows and requests have their types, and contract versions are numbered  *)
(* without a gap, whatever approvals race to create one.                   *)
THEOREM NegotiationTypeCorrect == NegotiationSpec => []NegotiationTypeOK
<1>1. NegotiationInv => NegotiationTypeOK
  BY DEF NegotiationInv
<1> QED
  BY <1>1, Negotiated, PTL

(* The collaboration always carries the terms of its newest agreement      *)
(* version: no concurrent proposal or request for changes loses one.       *)
THEOREM NoProposalLost == NegotiationSpec => []TermsAreLatest
<1>1. NegotiationInv => TermsAreLatest
  BY DEF NegotiationInv
<1> QED
  BY <1>1, Negotiated, PTL

(* Whatever races, contract versions say what both parties approved, and   *)
(* no contract is active without both signatures on one of them.           *)
THEOREM SignedTermsWereAgreed == NegotiationSpec => []SignedWasAgreed
<1>1. NegotiationInv => SignedWasAgreed
  BY DEF NegotiationInv
<1> QED
  BY <1>1, Negotiated, PTL

(* While no write is decided on stale reads, the active contract is the    *)
(* one both signed, and the collaboration is funded on its terms.          *)
THEOREM ActiveContractIsSigned == NegotiationSpec => []ActiveIsSigned
<1>1. NegotiationInv => ActiveIsSigned
  BY DEF NegotiationInv, ActiveIsSigned, InStep
<1> QED
  BY <1>1, Negotiated, PTL
=============================================================================

---------------------------- MODULE Negotiation ----------------------------
(***************************************************************************)
(* From an accepted offer to a funded collaboration: the versioned terms   *)
(* and their agreement (collaborations/collaboration.service.js), the      *)
(* contract and its signatures (contracts/contract.service.js), and the    *)
(* funding that takes its price from the collaboration's terms.            *)
(*                                                                         *)
(* Each operation loads the collaboration or the contract, decides, and    *)
(* writes in a later READ COMMITTED transaction: a request in calls.  What *)
(* keeps two of them apart is only what their writes check: the version of *)
(* the collaboration (updateTerms, lockAgreement), an approval not yet     *)
(* given, and the unique numbers of agreement and contract versions.       *)
(***************************************************************************)
EXTENDS Naturals, Sequences, FiniteSets

CONSTANTS
  Terms,        \* the terms the parties may propose, price included
  FirstTerms,   \* the terms of the accepted offer
  MaxVersions,  \* bound: agreement versions
  MaxCalls      \* bound: requests in flight

ASSUME NegotiationAssumption ==
  /\ FirstTerms \in Terms
  /\ MaxVersions \in Nat \ {0}
  /\ MaxCalls \in Nat

VARIABLES
  collab,      \* the Collaboration row
  contract,    \* the Contract row; terms: its snapshot of them
  agreements,  \* AgreementVersion rows, by version
  versions,    \* ContractVersion rows, by version
  funded,      \* the terms the collaboration was funded on, if it was
  calls,       \* requests that have read and not yet written
  raced        \* history: a write was decided on rows that have changed since

vars == <<collab, contract, agreements, versions, funded, calls, raced>>
-----------------------------------------------------------------------------
Party == {"creator", "business"}

NegotiationStatus == {"NEGOTIATION", "AGREEMENT_REVIEW", "CONTRACT_REVIEW"}

Collaboration == [status : NegotiationStatus \cup {"PAYMENT_PENDING", "IN_PROGRESS"},
                  terms : Terms, termsVersion : Nat, version : Nat]

Contract == [status : {"DRAFT", "PENDING_APPROVAL", "CHANGES_REQUESTED", "ACTIVE"},
             current : Nat, terms : Terms]

Agreement == [terms : Terms, locked : BOOLEAN, approved : SUBSET Party]

ContractVersion == [terms : Terms, approved : SUBSET Party]

Op == {"updateTerms", "lockAgreement", "approveAgreement", "requestAgreementChanges",
       "approveContract", "requestContractChanges"}

(* What a request has read, and the terms it proposes if it does. *)
Call == [op : Op, party : Party, collab : Collaboration, contract : Contract,
         terms : Terms]

Draft(t) == [terms |-> t, locked |-> FALSE, approved |-> {}]

(* Mutant: one signature is enough. *)
Either(approved) == approved # {}

Both(approved) == approved = Party

(* offerService: the workspace of an accepted offer. *)
NegotiationInit ==
  /\ collab = [status |-> "NEGOTIATION", terms |-> FirstTerms, termsVersion |-> 1,
               version |-> 1]
  /\ contract = [status |-> "DRAFT", current |-> 0, terms |-> FirstTerms]
  /\ agreements = <<Draft(FirstTerms)>>
  /\ versions = <<>>
  /\ funded = {}
  /\ calls = {}
  /\ raced = FALSE
-----------------------------------------------------------------------------
(* The checks each operation makes on what it has loaded. *)
Allowed(op, party) ==
  CASE op = "updateTerms" -> collab.status \in NegotiationStatus
    [] op = "lockAgreement" -> collab.status = "NEGOTIATION"
    [] op = "approveAgreement" ->
         LET latest == agreements[Len(agreements)] IN
         collab.status = "AGREEMENT_REVIEW" /\ latest.locked /\ party \notin latest.approved
    [] op = "requestAgreementChanges" ->
         collab.status \in {"AGREEMENT_REVIEW", "CONTRACT_REVIEW"}
    [] op = "approveContract" -> contract.status = "PENDING_APPROVAL"
    [] op = "requestContractChanges" ->
         /\ contract.status = "PENDING_APPROVAL"
         /\ collab.status \in {"AGREEMENT_REVIEW", "CONTRACT_REVIEW"}

Read(op, party, t) ==
  /\ Cardinality(calls) < MaxCalls
  /\ Allowed(op, party)
  /\ op = "updateTerms" \/ t = collab.terms
  /\ calls' = calls \cup {[op |-> op, party |-> party, collab |-> collab,
                           contract |-> contract, terms |-> t]}
  /\ UNCHANGED <<collab, contract, agreements, versions, funded, raced>>

(* The request fails, or its transaction does. *)
Abort(call) ==
  /\ calls' = calls \ {call}
  /\ UNCHANGED <<collab, contract, agreements, versions, funded, raced>>

(* The call has written. *)
Written(call) ==
  /\ calls' = calls \ {call}
  /\ raced' = (raced \/ call.collab # collab \/ call.contract # contract)

(* Mutant: the number of a new version is not unique. *)
VersionNotChecked(call, t) == agreements' = Append(agreements, Draft(t))

(* A new agreement version, numbered after the one that was read: the      *)
(* unique index refuses it if another request has taken the number.        *)
NewVersion(call, t) ==
  /\ Len(agreements) = call.collab.termsVersion
  /\ agreements' = Append(agreements, Draft(t))

(* collaborationService.updateTerms *)
UpdateTerms(call) ==
  /\ call \in calls /\ call.op = "updateTerms"
  /\ Len(agreements) < MaxVersions
  /\ collab.version = call.collab.version
  /\ NewVersion(call, call.terms)
  /\ collab' = [status |-> "NEGOTIATION", terms |-> call.terms,
                termsVersion |-> collab.termsVersion + 1, version |-> collab.version + 1]
  /\ contract' = [contract EXCEPT !.status = "DRAFT", !.terms = call.terms]
  /\ Written(call)
  /\ UNCHANGED <<versions, funded>>

(* collaborationService.lockAgreement *)
LockAgreement(call) ==
  /\ call \in calls /\ call.op = "lockAgreement"
  /\ collab.version = call.collab.version
  /\ collab.status = "NEGOTIATION"
  /\ collab' = [collab EXCEPT !.status = "AGREEMENT_REVIEW", !.version = @ + 1]
  /\ agreements' = [agreements EXCEPT ![call.collab.termsVersion].locked = TRUE]
  /\ Written(call)
  /\ UNCHANGED <<contract, versions, funded>>

(* Mutant: a contract version takes the number of its agreement version. *)
AgreementNumber(v) == v

NextContractVersion(v) == contract.current + 1

(* collaborationService.approveAgreement: the row of the version that was  *)
(* read is updated and read again, so the second party sees the first; the *)
(* collaboration and the contract are written as they were meant to be.    *)
ApproveAgreement(call) ==
  LET v        == call.collab.termsVersion
      approved == agreements[v].approved \cup {call.party}
  IN
  /\ call \in calls /\ call.op = "approveAgreement"
  /\ call.party \notin agreements[v].approved
  /\ agreements' = [agreements EXCEPT ![v].approved = approved]
  /\ IF Both(approved)
       THEN /\ versions' = Append(versions, [terms |-> agreements[v].terms,
                                             approved |-> {}])
            /\ contract' = [status |-> "PENDING_APPROVAL", terms |-> agreements[v].terms,
                            current |-> NextContractVersion(v)]
            /\ collab' = [collab EXCEPT !.status = "CONTRACT_REVIEW", !.version = @ + 1]
       ELSE UNCHANGED <<versions, contract, collab>>
  /\ Written(call)
  /\ UNCHANGED funded

(* collaborationService.requestAgreementChanges and                        *)
(* contractService.requestChanges: a new version of the same terms.        *)
RequestChanges(call) ==
  LET terms == IF call.op = "requestContractChanges"
                 THEN agreements[call.collab.termsVersion].terms
                 ELSE call.collab.terms
  IN
  /\ call \in calls
  /\ call.op \in {"requestAgreementChanges", "requestContractChanges"}
  /\ Len(agreements) < MaxVersions
  /\ NewVersion(call, terms)
  /\ collab' = [collab EXCEPT !.status = "NEGOTIATION", !.version = @ + 1,
                              !.termsVersion = call.collab.termsVersion + 1]
  /\ contract' = [contract EXCEPT !.status = "CHANGES_REQUESTED", !.terms = terms]
  /\ Written(call)
  /\ UNCHANGED <<versions, funded>>

(* contractService.approve: the version that was current when it was read  *)
(* is signed, and the second signature activates the contract.             *)
ApproveContract(call) ==
  LET v        == call.contract.current
      approved == versions[v].approved \cup {call.party}
  IN
  /\ call \in calls /\ call.op = "approveContract"
  /\ call.party \notin versions[v].approved
  /\ versions' = [versions EXCEPT ![v].approved = approved]
  /\ IF Both(approved)
       THEN /\ call.collab.status = "CONTRACT_REVIEW"
            /\ contract' = [contract EXCEPT !.status = "ACTIVE"]
            /\ collab' = [collab EXCEPT !.status = "PAYMENT_PENDING", !.version = @ + 1]
       ELSE UNCHANGED <<contract, collab>>
  /\ Written(call)
  /\ UNCHANGED <<agreements, funded>>

(* walletService.fundCollaboration, in one SERIALIZABLE transaction: the   *)
(* price is computed from the terms of the collaboration.                  *)
Fund ==
  /\ funded = {}
  /\ contract.status = "ACTIVE"
  /\ collab.status = "PAYMENT_PENDING"
  /\ funded' = {collab.terms}
  /\ collab' = [collab EXCEPT !.status = "IN_PROGRESS", !.version = @ + 1]
  /\ UNCHANGED <<contract, agreements, versions, calls, raced>>
-----------------------------------------------------------------------------
Write(call) ==
  \/ UpdateTerms(call)
  \/ LockAgreement(call)
  \/ ApproveAgreement(call)
  \/ RequestChanges(call)
  \/ ApproveContract(call)

NegotiationNext ==
  \/ \E op \in Op, party \in Party, t \in Terms : Read(op, party, t)
  \/ \E call \in calls : Write(call) \/ Abort(call)
  \/ Fund

NegotiationSpec == NegotiationInit /\ [][NegotiationNext]_vars
-----------------------------------------------------------------------------
(* The types, and the numbering: the current contract version is the last  *)
(* one, whatever approvals race to create it.                              *)
NegotiationTypeOK ==
  /\ collab \in Collaboration
  /\ contract \in Contract
  /\ agreements \in Seq(Agreement)
  /\ versions \in Seq(ContractVersion)
  /\ funded \subseteq Terms
  /\ calls \subseteq Call
  /\ raced \in BOOLEAN
  /\ Len(versions) = contract.current

(* The terms of the collaboration are those of its newest agreement        *)
(* version, which is the one termsVersion names: no proposal is lost to a  *)
(* concurrent one.                                                         *)
TermsAreLatest ==
  /\ collab.termsVersion = Len(agreements)
  /\ collab.terms = agreements[Len(agreements)].terms

(* Even on stale reads, a contract version only says what both parties     *)
(* approved in one locked agreement version, and a contract is active only *)
(* once both have signed one of its versions.                              *)
SignedWasAgreed ==
  /\ \A v \in DOMAIN versions : \E a \in DOMAIN agreements :
       /\ agreements[a].locked /\ Both(agreements[a].approved)
       /\ agreements[a].terms = versions[v].terms
  /\ contract.status = "ACTIVE" => \E v \in DOMAIN versions : versions[v].approved = Party

(* As long as no write was decided on rows that have changed since, an     *)
(* active contract is the version both signed, it says what the            *)
(* collaboration says, and that is what is funded.                         *)
ActiveIsSigned ==
  ~raced /\ contract.status = "ACTIVE" =>
    /\ versions[contract.current].approved = Party
    /\ versions[contract.current].terms = collab.terms
    /\ contract.terms = collab.terms
    /\ collab.status \in {"PAYMENT_PENDING", "IN_PROGRESS"}
    /\ funded \subseteq {collab.terms}

(* A collaboration is funded on terms both parties have signed: updating   *)
(* the terms resets the approvals given before                             *)
(* (collaboration.service.js:131 "Existing approvals were reset.").        *)
FundedAsSigned ==
  \A t \in funded : \E v \in DOMAIN versions :
    versions[v].approved = Party /\ versions[v].terms = t
=============================================================================

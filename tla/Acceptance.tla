----------------------------- MODULE Acceptance ------------------------------
(* How a collaboration comes to exist: a direct offer, a proposal to a        *)
(* campaign, or an invitation to one, until one side accepts.                 *)
(*                                                                            *)
(* Every handler reads the row, decides on what it read, and writes in a      *)
(* later READ COMMITTED transaction.  The three kinds differ in what that     *)
(* write checks again: offers their version and status, proposals their       *)
(* version, answers to invitations their status, cancellations nothing.       *)
EXTENDS Naturals

CONSTANTS
  Source,       \* offers, proposals and invitations
  Handler,      \* concurrent requests
  MaxVersion    \* bound: versions of an offer, a proposal or the campaign

ASSUME AcceptanceAssumption == MaxVersion \in Nat

VARIABLES
  campaign,     \* the campaign of the proposals and invitations
  sources,      \* [Source -> SourceRow]
  workspaces,   \* [Source -> Nat]: collaborations created for the source
  handler       \* [Handler -> HandlerCall]: what a request has read and decided

acceptanceVars == <<campaign, sources, workspaces, handler>>

CampaignStatus == {"DRAFT", "OPEN", "PAUSED", "ARCHIVED", "DELETED"}

(* DELETED is a row that went with its campaign. *)
OpenStatus ==
  {"PENDING_CREATOR_RESPONSE", "CHANGES_REQUESTED", "INTERESTED",
   "COUNTER_PROPOSAL_SENT", "SUBMITTED", "SHORTLISTED", "COUNTERED", "PENDING"}
AcceptedStatus == {"APPROVED", "ACCEPTED"}
RefusedStatus  ==
  {"DECLINED", "DECLINED_BY_BUSINESS", "WITHDRAWN", "REJECTED", "CANCELLED", "DELETED"}
SourceStatus == {"NONE"} \cup OpenStatus \cup AcceptedStatus \cup RefusedStatus

SourceKind   == {"offer", "proposal", "invitation"}
SourceRow    == [kind : SourceKind, status : SourceStatus, version : Nat]
CampaignRow  == [status : CampaignStatus, version : Nat]

AllowedCreator  == {"PENDING_CREATOR_RESPONSE", "CHANGES_REQUESTED"}
AllowedBusiness == {"INTERESTED", "COUNTER_PROPOSAL_SENT"}
Undecided       == {"SUBMITTED", "SHORTLISTED", "COUNTERED"}

Move(kind, op, from, to) == [kind |-> kind, op |-> op, from |-> from, to |-> to]

(* create, creatorRespond, businessDecide and approve *)
OfferMoves ==
  {Move("offer", "CREATE", {"NONE"}, "PENDING_CREATOR_RESPONSE"),
   Move("offer", "INTERESTED", AllowedCreator, "INTERESTED"),
   Move("offer", "COUNTER", AllowedCreator, "COUNTER_PROPOSAL_SENT"),
   Move("offer", "DECLINE", AllowedCreator, "DECLINED"),
   Move("offer", "REQUEST_CHANGES", AllowedBusiness, "CHANGES_REQUESTED"),
   Move("offer", "DECLINE", AllowedBusiness, "DECLINED_BY_BUSINESS"),
   Move("offer", "APPROVE", AllowedBusiness, "APPROVED")}

(* create, update, withdraw and decide *)
ProposalMoves ==
  {Move("proposal", "CREATE", {"NONE"}, "SUBMITTED"),
   Move("proposal", "UPDATE", {"SUBMITTED", "COUNTERED"}, "SUBMITTED"),
   Move("proposal", "WITHDRAW", Undecided, "WITHDRAWN"),
   Move("proposal", "SHORTLIST", {"SUBMITTED", "COUNTERED"}, "SHORTLISTED"),
   Move("proposal", "COUNTER", {"SUBMITTED", "SHORTLISTED"}, "COUNTERED"),
   Move("proposal", "ACCEPT", Undecided, "ACCEPTED"),
   Move("proposal", "REJECT", Undecided, "REJECTED")}

(* invite, respond and cancel *)
InvitationMoves ==
  {Move("invitation", "CREATE", {"NONE"}, "PENDING"),
   Move("invitation", "ACCEPT", {"PENDING"}, "ACCEPTED"),
   Move("invitation", "DECLINE", {"PENDING"}, "DECLINED"),
   Move("invitation", "CANCEL", {"PENDING"}, "CANCELLED")}

Moves == OfferMoves \cup ProposalMoves \cup InvitationMoves

(* publish (with manual review the campaign waits PAUSED), pause, archive and *)
(* remove.                                                                    *)
CampaignMoves ==
  {Move("campaign", "PUBLISH", {"DRAFT", "PAUSED"}, "OPEN"),
   Move("campaign", "SUBMIT", {"DRAFT", "PAUSED"}, "PAUSED"),
   Move("campaign", "PAUSE", {"OPEN"}, "PAUSED"),
   Move("campaign", "ARCHIVE", {"DRAFT", "OPEN", "PAUSED", "ARCHIVED"}, "ARCHIVED"),
   Move("campaign", "REMOVE", {"DRAFT"}, "DELETED")}

SourceCall   == [move : Moves, source : Source, version : Nat]
CampaignCall == [move : CampaignMoves, version : Nat]
NoCall == [version |-> 0]

AcceptanceTypeOK ==
  /\ campaign \in CampaignRow
  /\ sources \in [Source -> SourceRow]
  /\ workspaces \in [Source -> Nat]
  /\ \A h \in Handler : handler[h] \in {NoCall} \cup SourceCall \cup CampaignCall

AcceptanceInit ==
  /\ campaign = [status |-> "DRAFT", version |-> 1]
  /\ \E kindOf \in [Source -> SourceKind] :
       sources = [s \in Source |-> [kind |-> kindOf[s], status |-> "NONE", version |-> 0]]
  /\ workspaces = [s \in Source |-> 0]
  /\ handler = [h \in Handler |-> NoCall]

-----------------------------------------------------------------------------
InCampaign(s) == sources[s].kind # "offer"

(* The handler reads the row and decides.  Creating or updating a proposal,   *)
(* and inviting, need an open campaign.                                       *)
ReadSource(h, s, m) ==
  /\ handler[h] = NoCall
  /\ m.kind = sources[s].kind /\ sources[s].status \in m.from
  /\ m.kind # "offer" /\ m.op \in {"CREATE", "UPDATE"} => campaign.status = "OPEN"
  /\ handler' = [handler EXCEPT ![h] =
                   [move |-> m, source |-> s, version |-> sources[s].version]]
  /\ UNCHANGED <<campaign, sources, workspaces>>

(* A row can be created once, while its campaign exists; a deleted row is     *)
(* changed by nobody.                                                         *)
CanCreate(s) == sources[s].status = "NONE" /\ (InCampaign(s) => campaign.status # "DELETED")

(* Mutant: the write of a proposal trusts the status that was read. *)
StillHoldsByRead(c) ==
  LET row == sources[c.source] IN
  IF c.move.op = "CREATE" THEN CanCreate(c.source)
  ELSE CASE c.move.kind = "offer"      -> row.version = c.version /\ row.status \in c.move.from
         [] c.move.kind = "proposal"   -> row.status # "DELETED"
         [] c.move.kind = "invitation" ->
              row.status = "PENDING" \/ (c.move.op = "CANCEL" /\ row.status # "DELETED")

(* The where of the handler's write; CANCEL updates by id. *)
StillHolds(c) ==
  LET row == sources[c.source] IN
  IF c.move.op = "CREATE" THEN CanCreate(c.source)
  ELSE CASE c.move.kind = "offer"      -> row.version = c.version /\ row.status \in c.move.from
         [] c.move.kind = "proposal"   -> row.version = c.version /\ row.status # "DELETED"
         [] c.move.kind = "invitation" ->
              row.status = "PENDING" \/ (c.move.op = "CANCEL" /\ row.status # "DELETED")

(* Mutant: only the approval of an offer creates the workspace. *)
BootstrappedIfOffer(c) ==
  IF c.move.to = "APPROVED" THEN [workspaces EXCEPT ![c.source] = @ + 1] ELSE workspaces

(* The workspace is created in the transaction of the acceptance; a proposal  *)
(* or an invitation that has one already keeps it (bootstrapCollaboration).   *)
Bootstrapped(c) ==
  IF c.move.to \in AcceptedStatus /\ (c.move.kind # "offer" => workspaces[c.source] = 0)
    THEN [workspaces EXCEPT ![c.source] = @ + 1]
    ELSE workspaces

WriteSource(h) ==
  LET c == handler[h] IN
  /\ c # NoCall /\ c.move \in Moves
  /\ \/ /\ StillHolds(c)
        /\ sources[c.source].version < MaxVersion
        /\ sources' = [sources EXCEPT ![c.source] =
             [kind |-> @.kind, status |-> c.move.to,
              version |-> IF c.move.kind = "invitation" THEN @.version ELSE @.version + 1]]
        /\ workspaces' = Bootstrapped(c)
     \/ /\ ~StillHolds(c)
        /\ UNCHANGED <<sources, workspaces>>
  /\ handler' = [handler EXCEPT ![h] = NoCall]
  /\ UNCHANGED campaign

-----------------------------------------------------------------------------
(* remove reads a DRAFT without proposals; invitations are not looked at. *)
ReadCampaign(h, m) ==
  /\ handler[h] = NoCall
  /\ campaign.status \in m.from
  /\ m.op = "REMOVE" => \A s \in Source :
                            sources[s].kind = "proposal" => sources[s].status = "NONE"
  /\ handler' = [handler EXCEPT ![h] = [move |-> m, version |-> campaign.version]]
  /\ UNCHANGED <<campaign, sources, workspaces>>

(* updateOwned checks the version; the submission for review updates by id. *)
WriteCampaign(h) ==
  LET c == handler[h] IN
  /\ c # NoCall /\ c.move \in CampaignMoves /\ c.move.op # "REMOVE"
  /\ \/ /\ campaign.status # "DELETED"
        /\ c.move.op = "SUBMIT" \/ campaign.version = c.version
        /\ campaign.version < MaxVersion
        /\ campaign' = [status |-> c.move.to,
                        version |-> IF c.move.op = "SUBMIT" THEN campaign.version
                                    ELSE campaign.version + 1]
     \/ /\ \/ campaign.status = "DELETED"
           \/ c.move.op # "SUBMIT" /\ campaign.version # c.version
        /\ UNCHANGED campaign
  /\ handler' = [handler EXCEPT ![h] = NoCall]
  /\ UNCHANGED <<sources, workspaces>>

(* The row is deleted by id, whatever happened since the read, and with it    *)
(* its proposals and invitations; workspaces keep existing without it.        *)
RemoveCampaign(h) ==
  LET c == handler[h] IN
  /\ c # NoCall /\ c.move \in CampaignMoves /\ c.move.op = "REMOVE"
  /\ campaign' = [campaign EXCEPT !.status = "DELETED"]
  /\ sources' = [s \in Source |-> IF InCampaign(s) /\ sources[s].status # "NONE"
                                    THEN [sources[s] EXCEPT !.status = "DELETED"]
                                    ELSE sources[s]]
  /\ handler' = [handler EXCEPT ![h] = NoCall]
  /\ UNCHANGED workspaces

AcceptanceNext ==
  \E h \in Handler :
    \/ \E s \in Source, m \in Moves : ReadSource(h, s, m)
    \/ \E m \in CampaignMoves : ReadCampaign(h, m)
    \/ WriteSource(h) \/ WriteCampaign(h) \/ RemoveCampaign(h)

AcceptanceSpec == AcceptanceInit /\ [][AcceptanceNext]_acceptanceVars

-----------------------------------------------------------------------------
StageOf(s) ==
  IF workspaces[s] > 0 THEN "connected"
  ELSE CASE sources[s].status = "NONE"       -> "none"
         [] sources[s].status \in OpenStatus -> "open"
         [] OTHER                            -> "closed"

Engage == INSTANCE Engagement WITH
            stage <- [s \in Source |-> StageOf(s)], connections <- workspaces

(* Whatever requests race, an approach that was refused never gets a          *)
(* workspace, and one that has a workspace has exactly one and keeps it.      *)
ImplementsEngagement == Engage!EngagementSpec

(* An offer or a proposal is accepted exactly when its workspace exists: the  *)
(* two are written together and no later answer overwrites the acceptance.    *)
(* (A cancelled invitation may have one: cancel updates by id.)               *)
AcceptedHasWorkspace ==
  \A s \in Source :
    /\ sources[s].status \in AcceptedStatus => workspaces[s] = 1
    /\ workspaces[s] > 0 =>
         \/ sources[s].status \in AcceptedStatus \cup {"DELETED"}
         \/ sources[s].kind = "invitation" /\ sources[s].status = "CANCELLED"
==============================================================================

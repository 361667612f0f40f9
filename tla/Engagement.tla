----------------------------- MODULE Engagement ------------------------------
(* What every way of starting a collaboration promises: an approach is made,  *)
(* and ends either connected, with one workspace, or closed, and for good.    *)
EXTENDS Naturals

CONSTANT Source   \* offers, proposals and invitations

VARIABLES
  stage,          \* [Source -> Stage]
  connections     \* [Source -> Nat]: workspaces created for the source

engagementVars == <<stage, connections>>

Stage == {"none", "open", "connected", "closed"}

EngagementInit ==
  /\ stage = [s \in Source |-> "none"]
  /\ connections = [s \in Source |-> 0]

Approach(s) ==
  /\ stage[s] = "none"
  /\ stage' = [stage EXCEPT ![s] = "open"]
  /\ UNCHANGED connections

Connect(s) ==
  /\ stage[s] = "open"
  /\ stage' = [stage EXCEPT ![s] = "connected"]
  /\ connections' = [connections EXCEPT ![s] = @ + 1]

(* Several at once when their campaign is deleted. *)
Close(S) ==
  /\ \A s \in S : stage[s] \in {"open", "closed"}
  /\ stage' = [s \in Source |-> IF s \in S THEN "closed" ELSE stage[s]]
  /\ UNCHANGED connections

EngagementNext ==
  \/ \E s \in Source : Approach(s) \/ Connect(s)
  \/ \E S \in SUBSET Source : Close(S)

EngagementSpec == EngagementInit /\ [][EngagementNext]_engagementVars
==============================================================================

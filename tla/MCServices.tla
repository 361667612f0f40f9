----------------------------- MODULE MCServices ------------------------------
(* The services around the escrow, each on its own, for TLC: one of them is   *)
(* chosen at the start and moves, the others stay in their initial states.    *)
(* They share no variable, so a run of all at once would only multiply their  *)
(* states.  The services that stay have nothing to do: no fair action of      *)
(* theirs is enabled in their initial states.                                 *)
EXTENDS TopUp, Payout, Acceptance, Reviews, SocialSync, Leases, EventDelivery, Sessions,
        ClientSession

VARIABLE active     \* the service that moves

Service == {"topUp", "payout", "acceptance", "reviews", "social", "leases",
            "eventDelivery", "sessions", "client"}

allVars == <<active, topUpVars, payoutVars, acceptanceVars, reviewVars, socialVars,
             leaseVars, deliveryVars, sessionVars, clientVars>>

(* Requests 1 and 2 carry one idempotency key. *)
KeyOfRequest == [r \in Request |-> 1]

(* Nothing tells the requests of a tab, or the accounts, from one another: one *)
(* of them stands for all at the start.                                       *)
SomeAction == CHOOSE c \in AuthAction : TRUE
SomePerson == CHOOSE p \in Person : TRUE

ServicesTypeOK ==
  /\ TopUpTypeOK /\ PayoutTypeOK /\ AcceptanceTypeOK /\ ReviewsTypeOK
  /\ SocialTypeOK /\ LeasesTypeOK /\ EventDeliveryTypeOK /\ SessionsTypeOK
  /\ ClientTypeOK

ServicesInit ==
  /\ active \in Service
  /\ TopUpInit /\ PayoutInit /\ AcceptanceInit /\ ReviewsInit
  /\ SocialInit /\ LeasesInit /\ EventDeliveryInit /\ SessionsInit
  /\ ClientInit
  /\ active # "acceptance" => \A s \in Source : sources[s].kind = "offer"
  /\ authCall[SomeAction].kind = "restore"
  /\ authCall[SomeAction].person \in
       IF active = "client" THEN {Nobody, SomePerson} ELSE {Nobody}

TopUpMoves ==
  /\ active = "topUp" /\ TopUpNext
  /\ UNCHANGED <<payoutVars, acceptanceVars, reviewVars, socialVars, leaseVars,
                 deliveryVars, sessionVars, clientVars>>

PayoutMoves ==
  /\ active = "payout" /\ PayoutNext
  /\ UNCHANGED <<topUpVars, acceptanceVars, reviewVars, socialVars, leaseVars,
                 deliveryVars, sessionVars, clientVars>>

AcceptanceMoves ==
  /\ active = "acceptance" /\ AcceptanceNext
  /\ UNCHANGED <<topUpVars, payoutVars, reviewVars, socialVars, leaseVars,
                 deliveryVars, sessionVars, clientVars>>

ReviewsMove ==
  /\ active = "reviews" /\ ReviewsNext
  /\ UNCHANGED <<topUpVars, payoutVars, acceptanceVars, socialVars, leaseVars,
                 deliveryVars, sessionVars, clientVars>>

SocialMoves ==
  /\ active = "social" /\ SocialNext
  /\ UNCHANGED <<topUpVars, payoutVars, acceptanceVars, reviewVars, leaseVars,
                 deliveryVars, sessionVars, clientVars>>

LeasesMove ==
  /\ active = "leases" /\ LeasesNext
  /\ UNCHANGED <<topUpVars, payoutVars, acceptanceVars, reviewVars, socialVars,
                 deliveryVars, sessionVars, clientVars>>

EventDeliveryMoves ==
  /\ active = "eventDelivery" /\ EventDeliveryNext
  /\ UNCHANGED <<topUpVars, payoutVars, acceptanceVars, reviewVars, socialVars,
                 leaseVars, sessionVars, clientVars>>

SessionsMove ==
  /\ active = "sessions" /\ SessionsNext
  /\ UNCHANGED <<topUpVars, payoutVars, acceptanceVars, reviewVars, socialVars,
                 leaseVars, deliveryVars, clientVars>>

(* After an unguarded answer nothing is claimed of a tab, and it is not        *)
(* followed any further.                                                      *)
ClientMoves ==
  /\ active = "client" /\ ClientNext /\ ~mixed'
  /\ UNCHANGED <<topUpVars, payoutVars, acceptanceVars, reviewVars, socialVars,
                 leaseVars, deliveryVars, sessionVars>>

ServicesNext ==
  /\ UNCHANGED active
  /\ \/ TopUpMoves \/ PayoutMoves \/ AcceptanceMoves \/ ReviewsMove
     \/ SocialMoves \/ LeasesMove \/ EventDeliveryMoves \/ SessionsMove
     \/ ClientMoves

ServicesSpec ==
  /\ ServicesInit /\ [][ServicesNext]_allVars
  /\ TopUpFairness /\ ReviewsFairness /\ LeasesFairness /\ EventDeliveryFairness
==============================================================================

------------------------------ MODULE MCEscrow ------------------------------
(* Instances of Escrow for TLC: one collaboration with two disputes, and   *)
(* two collaborations that draw on the wallet of one business.             *)
EXTENDS Escrow

CONSTANTS u1, c1, c2

OneUser == {u1}

OneCollab == {c1}
OneOwner  == [c \in OneCollab |-> u1]
OneTerms  == [c \in OneCollab |-> [kind |-> "PAID", cash |-> 5]]

TwoCollabs == {c1, c2}
SameOwner  == [c \in TwoCollabs |-> u1]
TwoTerms   == [c \in TwoCollabs |->
                 IF c = c1 THEN [kind |-> "HYBRID", cash |-> 3]
                           ELSE [kind |-> "BARTER", cash |-> 0]]
=============================================================================

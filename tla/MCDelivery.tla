----------------------------- MODULE MCDelivery -----------------------------
(* One collaboration, delivered and disputed, for TLC. *)
EXTENDS Delivery

CONSTANTS u1, c1

OneUser   == {u1}
OneCollab == {c1}
OneOwner  == [c \in OneCollab |-> u1]
OneTerms  == [c \in OneCollab |-> [kind |-> "PAID", cash |-> 2]]
=============================================================================

--------------------------- MODULE MCNegotiation ---------------------------
(* Two rival proposals and two requests in flight, for TLC. *)
EXTENDS Negotiation

CONSTANTS t1, t2

TwoTerms == {t1, t2}
=============================================================================

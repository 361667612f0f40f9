------------------------------ MODULE MCOutbox ------------------------------
(* Two events and two workers, for TLC: every snapshot of one worker can be   *)
(* stale because of the other.                                                *)
EXTENDS Outbox

CONSTANTS w1, w2

TwoWorkers == {w1, w2}
=============================================================================

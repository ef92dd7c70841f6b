------------------------------ MODULE MCOutbox ------------------------------
(* Instances of Outbox for TLC. *)
EXTENDS Outbox

CONSTANTS j1, j2, w1, w2

(* A checkout that calls for every step.                                   *)
FullNeeds == [j \in Jobs |-> Steps]
=============================================================================

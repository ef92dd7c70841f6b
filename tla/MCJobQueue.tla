----------------------------- MODULE MCJobQueue -----------------------------
(* Instances of JobQueue for TLC. *)
EXTENDS JobQueue

CONSTANTS j1, j2, l1, l2, t1, t2

(* One server with two permits, and two servers with one each.             *)
OneServer  == [t \in Tasks |-> l1]
TwoServers == [t \in Tasks |-> IF t = t1 THEN l1 ELSE l2]
=============================================================================

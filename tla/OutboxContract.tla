--------------------------- MODULE OutboxContract ---------------------------
(***************************************************************************)
(* What a committed checkout is promised by the operational outbox,        *)
(* whatever its workers do: its follow-up steps are recorded in their      *)
(* order and each at most once, and the finalized sale is announced to the *)
(* outside (once or more often) only when everything before is recorded.   *)
(***************************************************************************)
EXTENDS Naturals

CONSTANTS Jobs, Needs, Webhook

VARIABLES owed,  \* the committed checkouts
          done,  \* [Jobs -> set of recorded steps]
          told   \* the checkouts announced to the outside

vars == << owed, done, told >>

Init == owed = {} /\ done = [j \in Jobs |-> {}] /\ told = {}

AllBefore(j, k) == \A i \in Needs[j] : i < k => i \in done[j]

Promise(j) ==
    /\ j \notin owed
    /\ owed' = owed \cup {j}
    /\ UNCHANGED << done, told >>

Record(j, k) ==
    /\ j \in owed /\ k \in Needs[j] \ done[j] /\ k # Webhook
    /\ AllBefore(j, k)
    /\ done' = [done EXCEPT ![j] = @ \cup {k}]
    /\ UNCHANGED << owed, told >>

Announce(j) ==
    /\ j \in owed /\ Webhook \in Needs[j]
    /\ AllBefore(j, Webhook)
    /\ told' = told \cup {j}
    /\ done' \in {done, [done EXCEPT ![j] = @ \cup {Webhook}]}
    /\ UNCHANGED owed

Next == \E j \in Jobs : \/ Promise(j) \/ Announce(j)
                        \/ \E k \in Needs[j] : Record(j, k)

Spec == Init /\ [][Next]_vars
=============================================================================

------------------------------- MODULE Outbox -------------------------------
(***************************************************************************)
(* The PostgreSQL operational outbox: one row of operational_outbox per    *)
(* committed checkout, and the workers that claim rows and run the         *)
(* checkout's follow-up work (server/src/logic/operational_outbox.rs).     *)
(*                                                                         *)
(* A claim is a lease that nobody renews: a row left in 'processing' for   *)
(* five minutes is claimed again, while its first worker may still run.    *)
(* The updates that end an attempt name the row only by id, so a worker    *)
(* whose lease lapsed still writes.  What keeps the follow-up work sound   *)
(* is that each step is keyed in the database; this module models both.    *)
(***************************************************************************)
EXTENDS Naturals, Sequences

CONSTANTS
    Jobs,         \* outbox rows, one per checkout transaction
    Workers,      \* run_worker tasks, one per server process
    NoJob,        \* a worker that holds no claim
    MaxAttempts,  \* operational_outbox.max_attempts
    MaxFaults,    \* bound: crashes, lost updates and overrun leases
    Needs         \* the steps each job's payload calls for

(* The statements of process_checkout_post_commit, in their order.         *)
Pipeline == << "checkout_recovery", "commission", "access_log", "loyalty",
               "wedding_activity", "rms_r2s", "rms_payment_task",
               "sale_checkout", "webhook" >>
Steps == 1 .. Len(Pipeline)

(* Steps that insert a keyed header row and, only when the insert took     *)
(* place, a second row in a separate statement: notification and fan-out   *)
(* to staff, task and task item.                                           *)
TwoPhase == { k \in Steps :
                Pipeline[k] \in {"checkout_recovery", "rms_r2s", "rms_payment_task"} }

Loyalty == 4
Webhook == 9

ASSUME OutboxAssumption ==
    /\ NoJob \notin Jobs
    /\ MaxAttempts \in Nat \ {0}
    /\ MaxFaults \in Nat
    /\ Pipeline[Loyalty] = "loyalty" /\ Pipeline[Webhook] = "webhook"
    /\ Needs \in [Jobs -> SUBSET Steps]

VARIABLES
    \* the row
    status, attempts, due, lapsed,
    \* the database and the outside world: is the transaction there, which
    \* keyed rows exist, which two-phase steps got their second row, how often
    \* points were accrued, which failure alerts and webhook posts went out
    exists, applied, reached, points, alerted, posted,
    \* the worker's ClaimedJob and its place in the pipeline
    job, copy, at, pc,
    \* history: jobs whose lease lapsed under a live worker, faults so far
    overran, faults

rowVars    == << status, attempts, due, lapsed >>
effectVars == << exists, applied, reached, points, alerted, posted >>
workerVars == << job, copy, at, pc >>
ghostVars  == << overran, faults >>
vars == << rowVars, effectVars, workerVars, ghostVars >>

Statuses == {"absent", "pending", "processing", "completed", "failed", "purged"}
Places   == {"idle", "inspect", "run", "accrue", "half", "finish", "retry"}

TypeOK ==
    /\ status \in [Jobs -> Statuses]
    /\ attempts \in [Jobs -> Nat]
    /\ due \in [Jobs -> BOOLEAN]
    /\ lapsed \in [Jobs -> BOOLEAN]
    /\ exists \in [Jobs -> BOOLEAN]
    /\ applied \in [Jobs -> SUBSET Steps]
    /\ reached \in [Jobs -> SUBSET Steps]
    /\ points \in [Jobs -> Nat]
    /\ alerted \in SUBSET Jobs
    /\ posted \in SUBSET Jobs
    /\ job \in [Workers -> Jobs \cup {NoJob}]
    /\ copy \in [Workers -> Nat]
    /\ at \in [Workers -> Steps \cup {0}]
    /\ pc \in [Workers -> Places]
    /\ overran \in SUBSET Jobs
    /\ faults \in Nat

Init ==
    /\ status = [j \in Jobs |-> "absent"]
    /\ attempts = [j \in Jobs |-> 0]
    /\ due = [j \in Jobs |-> FALSE]
    /\ lapsed = [j \in Jobs |-> FALSE]
    /\ exists = [j \in Jobs |-> FALSE]
    /\ applied = [j \in Jobs |-> {}]
    /\ reached = [j \in Jobs |-> {}]
    /\ points = [j \in Jobs |-> 0]
    /\ alerted = {}
    /\ posted = {}
    /\ job = [w \in Workers |-> NoJob]
    /\ copy = [w \in Workers |-> 0]
    /\ at = [w \in Workers |-> 0]
    /\ pc = [w \in Workers |-> "idle"]
    /\ overran = {}
    /\ faults = 0

Held(j) == \E w \in Workers : job[w] = j

-----------------------------------------------------------------------------
(* The row outside a worker.                                               *)

(* The checkout transaction commits, and the row with it.                  *)
Enqueue(j) ==
    /\ status[j] = "absent"
    /\ status' = [status EXCEPT ![j] = "pending"]
    /\ due' = [due EXCEPT ![j] = TRUE]
    /\ exists' = [exists EXCEPT ![j] = TRUE]
    /\ UNCHANGED << attempts, lapsed, applied, reached, points, alerted, posted,
                    workerVars, ghostVars >>

(* available_at, set in the future by a retry, is reached.                 *)
BackoffElapses(j) ==
    /\ status[j] = "pending" /\ ~due[j]
    /\ due' = [due EXCEPT ![j] = TRUE]
    /\ UNCHANGED << status, attempts, lapsed, effectVars, workerVars, ghostVars >>

(* locked_at is five minutes old.  That a worker is still at work on the   *)
(* row then is a fault: it waited on locks, on the pool or on the webhook. *)
LeaseLapses(j) ==
    /\ status[j] = "processing" /\ ~lapsed[j]
    /\ Held(j) => faults < MaxFaults
    /\ lapsed' = [lapsed EXCEPT ![j] = TRUE]
    /\ overran' = IF Held(j) THEN overran \cup {j} ELSE overran
    /\ faults' = IF Held(j) THEN faults + 1 ELSE faults
    /\ UNCHANGED << status, attempts, due, effectVars, workerVars >>

(* run_cleanup, 30 or 90 days after the row was settled: no attempt lasts  *)
(* that long.                                                              *)
Purge(j) ==
    /\ status[j] \in {"completed", "failed"} /\ ~Held(j)
    /\ status' = [status EXCEPT ![j] = "purged"]
    /\ UNCHANGED << attempts, due, lapsed, effectVars, workerVars, ghostVars >>

(* An administrative cleanup deletes the transaction between attempts.     *)
Orphan(j) ==
    /\ exists[j] /\ ~Held(j)
    /\ exists' = [exists EXCEPT ![j] = FALSE]
    /\ UNCHANGED << rowVars, applied, reached, points, alerted, posted,
                    workerVars, ghostVars >>

-----------------------------------------------------------------------------
(* One iteration of run_worker.                                            *)

(* Variants, for the mutants of the checks: the status test dropped, the   *)
(* age of the lease dropped, the stale branch dropped.                     *)
ClaimableAnyStatus(j) == due[j] \/ lapsed[j]
ClaimableNoLease(j)   == status[j] \in {"pending", "processing"} /\ due[j]
ClaimableNoStale(j)   == status[j] = "pending" /\ due[j]

Claimable(j) ==
    \/ status[j] = "pending" /\ due[j]
    \/ status[j] = "processing" /\ lapsed[j]

Claim(w, j) ==
    /\ pc[w] = "idle" /\ Claimable(j)
    /\ status' = [status EXCEPT ![j] = "processing"]
    /\ attempts' = [attempts EXCEPT ![j] = @ + 1]
    /\ lapsed' = [lapsed EXCEPT ![j] = FALSE]
    /\ job' = [job EXCEPT ![w] = j]
    /\ copy' = [copy EXCEPT ![w] = attempts[j] + 1]
    /\ pc' = [pc EXCEPT ![w] = "inspect"]
    /\ UNCHANGED << due, effectVars, at, ghostVars >>

(* A job whose transaction is gone is discarded: it ends as a success.     *)
Inspect(w) ==
    /\ pc[w] = "inspect"
    /\ IF exists[job[w]]
         THEN at' = [at EXCEPT ![w] = 1] /\ pc' = [pc EXCEPT ![w] = "run"]
         ELSE at' = at /\ pc' = [pc EXCEPT ![w] = "finish"]
    /\ UNCHANGED << rowVars, effectVars, job, copy, ghostVars >>

(* Go on to the next statement, or to finish_job after the last one.       *)
Advance(w) ==
    IF at[w] = Len(Pipeline)
      THEN at' = at /\ pc' = [pc EXCEPT ![w] = "finish"]
      ELSE at' = [at EXCEPT ![w] = @ + 1] /\ pc' = [pc EXCEPT ![w] = "run"]

(* A step the payload does not call for, or whose keyed row exists already *)
(* (ON CONFLICT DO NOTHING, and transaction_loyalty_accrual read first).   *)
(* The webhook has no row of its own here: it is posted again.             *)
Skip(w) ==
    /\ pc[w] = "run"
    /\ \/ at[w] \notin Needs[job[w]]
       \/ at[w] \in applied[job[w]] /\ at[w] # Webhook
    /\ Advance(w)
    /\ UNCHANGED << rowVars, effectVars, job, copy, ghostVars >>

RunStep(w) ==
    LET j == job[w]
        k == at[w]
    IN  /\ pc[w] = "run"
        /\ k \in Needs[j]
        /\ \/ k = Webhook
           \/ k \notin applied[j]
        /\ IF k = Loyalty
             THEN /\ pc' = [pc EXCEPT ![w] = "accrue"]
                  /\ UNCHANGED << at, applied, posted >>
             ELSE /\ applied' = [applied EXCEPT ![j] = @ \cup {k}]
                  /\ posted' = IF k = Webhook THEN posted \cup {j} ELSE posted
                  /\ IF k \in TwoPhase
                       THEN at' = at /\ pc' = [pc EXCEPT ![w] = "half"]
                       ELSE Advance(w)
        /\ UNCHANGED << rowVars, exists, reached, points, alerted, job, copy, ghostVars >>

(* The second statement of a two-phase step.                               *)
FanOut(w) ==
    /\ pc[w] = "half"
    /\ reached' = [reached EXCEPT ![job[w]] = @ \cup {at[w]}]
    /\ Advance(w)
    /\ UNCHANGED << rowVars, exists, applied, points, alerted, posted, job, copy, ghostVars >>

(* Variant: neither the second look nor the primary key. *)
AccrueUnguarded(w) ==
    /\ pc[w] = "accrue"
    /\ applied' = [applied EXCEPT ![job[w]] = @ \cup {Loyalty}]
    /\ points' = [points EXCEPT ![job[w]] = @ + 1]
    /\ Advance(w)
    /\ UNCHANGED << rowVars, exists, reached, alerted, posted, job, copy, ghostVars >>

(* try_accrue_for_order's own transaction: points and guard row together.  *)
(* When another attempt got there first the second look at the guard ends  *)
(* it quietly, or its primary key does, as an error.                       *)
Accrue(w) ==
    LET j == job[w]
    IN  /\ pc[w] = "accrue"
        /\ IF Loyalty \notin applied[j]
             THEN /\ applied' = [applied EXCEPT ![j] = @ \cup {Loyalty}]
                  /\ points' = [points EXCEPT ![j] = @ + 1]
                  /\ Advance(w)
             ELSE /\ UNCHANGED << applied, points >>
                  /\ \/ Advance(w)
                     \/ at' = at /\ pc' = [pc EXCEPT ![w] = "retry"]
        /\ UNCHANGED << rowVars, exists, reached, alerted, posted, job, copy, ghostVars >>

(* Variants: an error is logged and taken for the end of the pipeline, or  *)
(* for the end of its step.                                                *)
StepFailsQuietly(w) ==
    /\ pc[w] \in {"inspect", "run", "accrue", "half"}
    /\ pc' = [pc EXCEPT ![w] = "finish"]
    /\ UNCHANGED << rowVars, effectVars, job, copy, at, ghostVars >>
StepFailsOnward(w) ==
    /\ pc[w] \in {"run", "accrue", "half"}
    /\ Advance(w)
    /\ UNCHANGED << rowVars, effectVars, job, copy, ghostVars >>

(* Any statement, or the webhook's HTTP call, can fail: the rest of the    *)
(* pipeline is abandoned.  The post may have been received nevertheless.   *)
StepFails(w) ==
    /\ pc[w] \in {"inspect", "run", "accrue", "half"}
    /\ pc' = [pc EXCEPT ![w] = "retry"]
    /\ posted' \in IF pc[w] = "run" /\ at[w] = Webhook /\ Webhook \in Needs[job[w]]
                     THEN {posted, posted \cup {job[w]}} ELSE {posted}
    /\ UNCHANGED << rowVars, exists, applied, reached, points, alerted,
                    job, copy, at, ghostVars >>

Release(w) ==
    /\ job' = [job EXCEPT ![w] = NoJob]
    /\ copy' = [copy EXCEPT ![w] = 0]
    /\ at' = [at EXCEPT ![w] = 0]
    /\ pc' = [pc EXCEPT ![w] = "idle"]

(* finish_job: by id alone, whoever holds the row now.                     *)
Finish(w) ==
    /\ pc[w] = "finish"
    /\ status' = [status EXCEPT ![job[w]] = "completed"]
    /\ lapsed' = [lapsed EXCEPT ![job[w]] = FALSE]
    /\ Release(w)
    /\ UNCHANGED << attempts, due, effectVars, ghostVars >>

(* Variant of the test for the last attempt, one too late.                 *)
LastAttemptLate(w) == copy[w] > MaxAttempts

LastAttempt(w) == copy[w] >= MaxAttempts

(* retry_or_fail: the worker's copy of attempts decides, the row is named  *)
(* by id alone.  The alert may itself fail; its error is only logged.      *)
RetryOrFail(w) ==
    LET j == job[w]
        failed == LastAttempt(w)
    IN  /\ pc[w] = "retry"
        /\ status' = [status EXCEPT ![j] = IF failed THEN "failed" ELSE "pending"]
        /\ due' = IF failed THEN due ELSE [due EXCEPT ![j] = FALSE]
        /\ lapsed' = [lapsed EXCEPT ![j] = FALSE]
        /\ alerted' \in IF failed THEN {alerted, alerted \cup {j}} ELSE {alerted}
        /\ Release(w)
        /\ UNCHANGED << attempts, exists, applied, reached, points, posted, ghostVars >>

(* The process dies, or the update that ends the attempt fails and is only *)
(* logged: the row stays in 'processing' until its lease lapses.           *)
Vanish(w) ==
    /\ pc[w] # "idle"
    /\ faults < MaxFaults
    /\ faults' = faults + 1
    /\ Release(w)
    /\ UNCHANGED << rowVars, effectVars, overran >>

Work(w) ==
    \/ Inspect(w) \/ Skip(w) \/ RunStep(w) \/ FanOut(w) \/ Accrue(w)
    \/ StepFails(w) \/ Finish(w) \/ RetryOrFail(w)

Next ==
    \/ \E j \in Jobs : \/ Enqueue(j) \/ BackoffElapses(j) \/ LeaseLapses(j)
                       \/ Purge(j) \/ Orphan(j)
    \/ \E w \in Workers, j \in Jobs : Claim(w, j)
    \/ \E w \in Workers : Work(w) \/ Vanish(w)

(* The worker's loop never stops (a two second ticker); ORDER BY           *)
(* available_at hands out the longest-waiting row first, so no row is      *)
(* passed over for ever; clocks advance.                                   *)
Fairness ==
    /\ \A w \in Workers : WF_vars(Work(w))
    /\ \A j \in Jobs : /\ SF_vars(\E w \in Workers : Claim(w, j))
                       /\ WF_vars(BackoffElapses(j))
                       /\ WF_vars(LeaseLapses(j))

Spec == Init /\ [][Next]_vars
FairSpec == Spec /\ Fairness

-----------------------------------------------------------------------------
(* Properties.                                                             *)

(* finish_job is only reached through the whole pipeline: whatever was     *)
(* retried, overrun or crashed before, a completed job has a keyed row for *)
(* every step its payload calls for, unless its transaction is gone.       *)
CompletedIsDone ==
    \A j \in Jobs :
        status[j] = "completed" /\ exists[j] => Needs[j] \subseteq applied[j]

(* Two attempts that overlap, or an attempt repeated from the start, never *)
(* give the customer the points of a sale twice, nor the guard without the *)
(* points (loyalty::try_accrue_for_order).                                 *)
PointsOnce ==
    \A j \in Jobs : points[j] = IF Loyalty \in applied[j] THEN 1 ELSE 0

(* The outside world hears of a finalized transaction only after every     *)
(* internal record of it has been written.                                 *)
WebhookLast ==
    \A j \in posted : \A k \in Needs[j] : k < Webhook => k \in applied[j]

(* As long as no lease of the job lapsed under a live worker, one worker   *)
(* at most is at work on it, and its row says so.                          *)
SoleHolder ==
    \A j \in Jobs \ overran :
        \A w \in Workers : job[w] = j =>
            /\ status[j] = "processing" /\ ~lapsed[j]
            /\ copy[w] = attempts[j]
            /\ \A v \in Workers : job[v] = j => v = w

(* A row is claimed beyond max_attempts only at the cost of a fault each   *)
(* time (the stale branch of claim_next does not look at attempts), and an *)
(* administrator is told that a job failed only when its attempts were     *)
(* really used up, also when a stale worker writes the row.                *)
AttemptBudget ==
    /\ \A j \in Jobs : attempts[j] <= MaxAttempts + faults
    /\ \A j \in alerted : attempts[j] >= MaxAttempts

(* A completed row is never put back to work, except by a worker whose     *)
(* lease lapsed while it was running.                                      *)
CompletedStays ==
    [][\A j \in Jobs : status[j] = "completed" /\ j \notin overran
                            => status'[j] \in {"completed", "purged"}]_vars

(* Every committed checkout's follow-up ends, for good, as completed or as *)
(* failed for review: no crash leaves a row in 'processing' for ever.      *)
Settled == {"completed", "failed", "purged"}
EveryJobSettles ==
    \A j \in Jobs : (status[j] # "absent") ~> [](status[j] \in Settled)

(* Seen from the sale, the outbox is its contract and nothing more: owed   *)
(* at commit, recorded in order and once, announced after that.            *)
Contract == INSTANCE OutboxContract WITH
    owed <- { j \in Jobs : status[j] # "absent" }, done <- applied, told <- posted
ContractSpec == Contract!Spec
=============================================================================

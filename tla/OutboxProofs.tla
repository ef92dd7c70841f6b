---------------------------- MODULE OutboxProofs ----------------------------
(* Theorems about Outbox, for any jobs, workers, payloads and bounds. *)
EXTENDS Outbox, FiniteSetTheorems, TLAPS

(* The constants of the pipeline, computed.                                *)
LEMMA PipelineFacts ==
    /\ Len(Pipeline) = 9
    /\ Steps = 1 .. 9
    /\ Loyalty \in Steps /\ Webhook \in Steps
    /\ Loyalty \notin TwoPhase /\ Webhook \notin TwoPhase
    /\ TwoPhase \subseteq Steps
BY DEF Pipeline, Steps, Loyalty, Webhook, TwoPhase

(* A worker's place and its claim agree, and what it has behind it is      *)
(* recorded: the pipeline is walked from the start by every attempt.       *)
WorkerOK ==
    \A w \in Workers :
        /\ pc[w] = "idle" <=> job[w] = NoJob
        /\ job[w] # NoJob => status[job[w]] \notin {"absent", "purged"}
        /\ pc[w] \in {"run", "accrue", "half"} =>
             /\ at[w] \in Steps
             /\ \A k \in Needs[job[w]] : k < at[w] => k \in applied[job[w]]
        /\ pc[w] = "accrue" => at[w] = Loyalty /\ Loyalty \in Needs[job[w]]
        /\ pc[w] = "half" => at[w] \in applied[job[w]]
        /\ pc[w] = "finish" => \/ ~exists[job[w]]
                               \/ Needs[job[w]] \subseteq applied[job[w]]

(* The types hold at the start.                                            *)
LEMMA TypeInit == Init => TypeOK
<1> USE OutboxAssumption
<1> QED BY DEF Init, TypeOK, Statuses, Places

(* Every action keeps the types. *)
LEMMA TypeStep == TypeOK /\ WorkerOK /\ [Next]_vars => TypeOK' 
<1> SUFFICES ASSUME TypeOK, WorkerOK, [Next]_vars PROVE TypeOK'
  OBVIOUS
<1> USE OutboxAssumption, PipelineFacts DEF TypeOK
<1>1. ASSUME NEW j \in Jobs, Enqueue(j) PROVE TypeOK'
  BY <1>1 DEF Enqueue, Statuses, workerVars, ghostVars
<1>2. ASSUME NEW j \in Jobs, BackoffElapses(j) PROVE TypeOK'
  BY <1>2 DEF BackoffElapses, effectVars, workerVars, ghostVars
<1>3. ASSUME NEW j \in Jobs, LeaseLapses(j) PROVE TypeOK'
  BY <1>3 DEF LeaseLapses, effectVars, workerVars
<1>4. ASSUME NEW j \in Jobs, Purge(j) PROVE TypeOK'
  BY <1>4 DEF Purge, Statuses, effectVars, workerVars, ghostVars
<1>5. ASSUME NEW j \in Jobs, Orphan(j) PROVE TypeOK'
  BY <1>5 DEF Orphan, rowVars, workerVars, ghostVars
<1>6. ASSUME NEW w \in Workers, NEW j \in Jobs, Claim(w, j) PROVE TypeOK'
  BY <1>6 DEF Claim, Statuses, Places, effectVars, ghostVars
<1>7. ASSUME NEW w \in Workers, Inspect(w) PROVE TypeOK'
  BY <1>7 DEF Inspect, Places, rowVars, effectVars, ghostVars
<1>8. ASSUME NEW w \in Workers, Skip(w) PROVE TypeOK'
  BY <1>8 DEF Skip, Advance, WorkerOK, Places, rowVars, effectVars, ghostVars
<1>9. ASSUME NEW w \in Workers, RunStep(w) PROVE TypeOK'
  <2>1. job[w] \in Jobs /\ at[w] \in Steps
    BY <1>9 DEF RunStep, WorkerOK
  <2> QED BY <1>9, <2>1 DEF RunStep, Advance, Places, rowVars, ghostVars
<1>10. ASSUME NEW w \in Workers, FanOut(w) PROVE TypeOK'
  <2>1. job[w] \in Jobs /\ at[w] \in Steps
    BY <1>10 DEF FanOut, WorkerOK
  <2> QED BY <1>10, <2>1 DEF FanOut, Advance, Places, rowVars, ghostVars
<1>11. ASSUME NEW w \in Workers, Accrue(w) PROVE TypeOK'
  <2>1. job[w] \in Jobs /\ at[w] \in Steps
    BY <1>11 DEF Accrue, WorkerOK
  <2> QED BY SMTT(60), <1>11, <2>1 DEF Accrue, Advance, Places, rowVars, ghostVars
<1>12. ASSUME NEW w \in Workers, StepFails(w) PROVE TypeOK'
  <2>1. job[w] \in Jobs
    BY <1>12 DEF StepFails, WorkerOK
  <2> QED BY <1>12, <2>1 DEF StepFails, Places, rowVars, ghostVars
<1>13. ASSUME NEW w \in Workers, Finish(w) PROVE TypeOK'
  BY <1>13 DEF Finish, Release, Statuses, Places, effectVars, ghostVars
<1>14. ASSUME NEW w \in Workers, RetryOrFail(w) PROVE TypeOK'
  <2>1. job[w] \in Jobs
    BY <1>14 DEF RetryOrFail, WorkerOK
  <2> QED BY <1>14, <2>1 DEF RetryOrFail, Release, Statuses, Places, ghostVars
<1>15. ASSUME NEW w \in Workers, Vanish(w) PROVE TypeOK'
  BY <1>15 DEF Vanish, Release, Places, rowVars, effectVars
<1>16. CASE UNCHANGED vars
  BY <1>16 DEF vars, rowVars, effectVars, workerVars, ghostVars
<1> QED
  BY <1>1, <1>2, <1>3, <1>4, <1>5, <1>6, <1>7, <1>8, <1>9, <1>10, <1>11, <1>12,
     <1>13, <1>14, <1>15, <1>16 DEF Next, Work

(* Every worker keeps its agreement with the row and the record.  An       *)
(* action of one worker only adds to applied and never takes a row out of  *)
(* the reach of another, so the others are untouched by it.                *)
LEMMA WorkerStep == TypeOK /\ WorkerOK /\ [Next]_vars => WorkerOK'
<1> SUFFICES ASSUME TypeOK, WorkerOK, [Next]_vars PROVE WorkerOK'
  OBVIOUS
<1> USE OutboxAssumption, PipelineFacts DEF TypeOK, WorkerOK
<1>1. ASSUME NEW j \in Jobs, Enqueue(j) PROVE WorkerOK'
  BY <1>1 DEF Enqueue, workerVars, ghostVars
<1>2. ASSUME NEW j \in Jobs, BackoffElapses(j) PROVE WorkerOK'
  BY <1>2 DEF BackoffElapses, effectVars, workerVars, ghostVars
<1>3. ASSUME NEW j \in Jobs, LeaseLapses(j) PROVE WorkerOK'
  BY <1>3 DEF LeaseLapses, effectVars, workerVars
<1>4. ASSUME NEW j \in Jobs, Purge(j) PROVE WorkerOK'
  BY <1>4 DEF Purge, Held, effectVars, workerVars, ghostVars
<1>5. ASSUME NEW j \in Jobs, Orphan(j) PROVE WorkerOK'
  BY <1>5 DEF Orphan, Held, rowVars, workerVars, ghostVars
<1>6. ASSUME NEW w \in Workers, NEW j \in Jobs, Claim(w, j) PROVE WorkerOK'
  BY <1>6 DEF Claim, effectVars, ghostVars
<1>7. ASSUME NEW w \in Workers, Inspect(w) PROVE WorkerOK'
  BY <1>7 DEF Inspect, rowVars, effectVars, ghostVars
<1>8. ASSUME NEW w \in Workers, Skip(w) PROVE WorkerOK'
  BY <1>8 DEF Skip, Advance, rowVars, effectVars, ghostVars
<1>9. ASSUME NEW w \in Workers, RunStep(w) PROVE WorkerOK'
  BY <1>9 DEF RunStep, Advance, rowVars, ghostVars
<1>10. ASSUME NEW w \in Workers, FanOut(w) PROVE WorkerOK'
  <2>1. \A k \in Needs[job[w]] : k <= at[w] => k \in applied[job[w]]
    BY <1>10 DEF FanOut
  <2>2. at[w] \in Steps /\ job[w] \in Jobs
    BY <1>10 DEF FanOut
  <2>3. UNCHANGED << status, exists, applied, job >>
    BY <1>10 DEF FanOut, rowVars
  <2>4. CASE at[w] = 9
    BY <1>10, <2>1, <2>2, <2>3, <2>4 DEF FanOut, Advance
  <2>5. CASE at[w] # 9
    BY <1>10, <2>1, <2>2, <2>3, <2>5 DEF FanOut, Advance
  <2> QED BY <2>4, <2>5
<1>11. ASSUME NEW w \in Workers, Accrue(w) PROVE WorkerOK'
  BY SMTT(60), <1>11 DEF Accrue, Advance, rowVars, ghostVars
<1>12. ASSUME NEW w \in Workers, StepFails(w) PROVE WorkerOK'
  BY <1>12 DEF StepFails, rowVars, ghostVars
<1>13. ASSUME NEW w \in Workers, Finish(w) PROVE WorkerOK'
  BY <1>13 DEF Finish, Release, effectVars, ghostVars
<1>14. ASSUME NEW w \in Workers, RetryOrFail(w) PROVE WorkerOK'
  BY <1>14 DEF RetryOrFail, Release, ghostVars
<1>15. ASSUME NEW w \in Workers, Vanish(w) PROVE WorkerOK'
  BY <1>15 DEF Vanish, Release, rowVars, effectVars
<1>16. CASE UNCHANGED vars
  BY <1>16 DEF vars, rowVars, effectVars, workerVars, ghostVars
<1> QED
  BY <1>1, <1>2, <1>3, <1>4, <1>5, <1>6, <1>7, <1>8, <1>9, <1>10, <1>11, <1>12,
     <1>13, <1>14, <1>15, <1>16 DEF Next, Work

(* The workers are idle at the start.                                      *)
LEMMA WorkerInit == Init => WorkerOK
BY OutboxAssumption DEF Init, WorkerOK

(* Types and workers together are the base of every other invariant. *)
Base == TypeOK /\ WorkerOK

(* Types and workers are right throughout.                                 *)
THEOREM BaseInvariant == Spec => []Base
<1>1. Init => Base
  BY TypeInit, WorkerInit DEF Base
<1>2. Base /\ [Next]_vars => Base'
  BY TypeStep, WorkerStep DEF Base
<1> QED BY <1>1, <1>2, PTL DEF Spec

(* Type correctness of the outbox. *)
THEOREM TypeCorrect == Spec => []TypeOK
<1>1. Base => TypeOK
  BY DEF Base
<1> QED BY <1>1, BaseInvariant, PTL

-----------------------------------------------------------------------------
(* The three facts about what is on record, inductive on top of Base.      *)
Recorded == CompletedIsDone /\ PointsOnce /\ WebhookLast

(* Nothing is on record at the start.                                      *)
LEMMA RecordedInit == Init => Recorded
BY DEF Init, Recorded, CompletedIsDone, PointsOnce, WebhookLast

(* Every step keeps the three facts.                                       *)
LEMMA RecordedStep == Base /\ Recorded /\ [Next]_vars => Recorded'
<1> SUFFICES ASSUME TypeOK, WorkerOK, Recorded, [Next]_vars PROVE Recorded'
  BY DEF Base
<1> USE OutboxAssumption, PipelineFacts
        DEF TypeOK, WorkerOK, Recorded, CompletedIsDone, PointsOnce, WebhookLast
<1>1. ASSUME NEW j \in Jobs, Enqueue(j) PROVE Recorded'
  BY <1>1 DEF Enqueue
<1>2. ASSUME NEW j \in Jobs, BackoffElapses(j) PROVE Recorded'
  BY <1>2 DEF BackoffElapses, effectVars
<1>3. ASSUME NEW j \in Jobs, LeaseLapses(j) PROVE Recorded'
  BY <1>3 DEF LeaseLapses, effectVars
<1>4. ASSUME NEW j \in Jobs, Purge(j) PROVE Recorded'
  BY <1>4 DEF Purge, effectVars
<1>5. ASSUME NEW j \in Jobs, Orphan(j) PROVE Recorded'
  BY <1>5 DEF Orphan, rowVars
<1>6. ASSUME NEW w \in Workers, NEW j \in Jobs, Claim(w, j) PROVE Recorded'
  BY <1>6 DEF Claim, effectVars
<1>7. ASSUME NEW w \in Workers, Inspect(w) PROVE Recorded'
  BY <1>7 DEF Inspect, rowVars, effectVars
<1>8. ASSUME NEW w \in Workers, Skip(w) PROVE Recorded'
  BY <1>8 DEF Skip, rowVars, effectVars
<1>9. ASSUME NEW w \in Workers, RunStep(w) PROVE Recorded'
  <2>1. CASE at[w] = Loyalty
    BY <1>9, <2>1 DEF RunStep, rowVars
  <2>2. CASE at[w] # Loyalty
    BY SMTT(60), <1>9, <2>2 DEF RunStep, rowVars
  <2> QED BY <2>1, <2>2
<1>10. ASSUME NEW w \in Workers, FanOut(w) PROVE Recorded'
  BY <1>10 DEF FanOut, rowVars
<1>11. ASSUME NEW w \in Workers, Accrue(w) PROVE Recorded'
  BY SMTT(60), <1>11 DEF Accrue, rowVars
<1>12. ASSUME NEW w \in Workers, StepFails(w) PROVE Recorded'
  BY <1>12 DEF StepFails, rowVars
<1>13. ASSUME NEW w \in Workers, Finish(w) PROVE Recorded'
  BY <1>13 DEF Finish, effectVars
<1>14. ASSUME NEW w \in Workers, RetryOrFail(w) PROVE Recorded'
  BY <1>14 DEF RetryOrFail
<1>15. ASSUME NEW w \in Workers, Vanish(w) PROVE Recorded'
  BY <1>15 DEF Vanish, rowVars, effectVars
<1>16. CASE UNCHANGED vars
  BY <1>16 DEF vars, rowVars, effectVars
<1> QED
  BY <1>1, <1>2, <1>3, <1>4, <1>5, <1>6, <1>7, <1>8, <1>9, <1>10, <1>11, <1>12,
     <1>13, <1>14, <1>15, <1>16 DEF Next, Work

(* They hold throughout.                                                   *)
LEMMA RecordedInvariant == Spec => []Recorded
<1> QED BY RecordedInit, RecordedStep, BaseInvariant, PTL DEF Spec

(* A completed job has a keyed record of every step its payload calls for, *)
(* however its attempts were cut short, repeated or overlapped.            *)
THEOREM CompletedJobsAreDone == Spec => []CompletedIsDone
<1>1. Recorded => CompletedIsDone
  BY DEF Recorded
<1> QED BY <1>1, RecordedInvariant, PTL

(* Loyalty points of a sale are accrued once, with their guard row. *)
THEOREM PointsAccruedOnce == Spec => []PointsOnce
<1>1. Recorded => PointsOnce
  BY DEF Recorded
<1> QED BY <1>1, RecordedInvariant, PTL

(* The webhook is posted only after all internal records are written. *)
THEOREM WebhookIsLast == Spec => []WebhookLast
<1>1. Recorded => WebhookLast
  BY DEF Recorded
<1> QED BY <1>1, RecordedInvariant, PTL

-----------------------------------------------------------------------------
(* Leases.  SoleHolder is inductive by itself: a pending row has no holder *)
(* and a lapsed one no living holder, so a claim always finds the row free.*)
LEMMA SoleHolderInit == Init => SoleHolder
BY OutboxAssumption DEF Init, SoleHolder

(* Every step keeps the sole holder.                                       *)
LEMMA SoleHolderStep == Base /\ SoleHolder /\ [Next]_vars => SoleHolder'
<1> SUFFICES ASSUME TypeOK, WorkerOK, SoleHolder, [Next]_vars PROVE SoleHolder'
  BY DEF Base
<1> USE OutboxAssumption DEF TypeOK, WorkerOK, SoleHolder
<1>1. ASSUME NEW j \in Jobs, Enqueue(j) PROVE SoleHolder'
  BY <1>1 DEF Enqueue, workerVars, ghostVars
<1>2. ASSUME NEW j \in Jobs, BackoffElapses(j) PROVE SoleHolder'
  BY <1>2 DEF BackoffElapses, workerVars, ghostVars
<1>3. ASSUME NEW j \in Jobs, LeaseLapses(j) PROVE SoleHolder'
  <2>1. CASE Held(j)
    BY <1>3, <2>1 DEF LeaseLapses, workerVars
  <2>2. CASE ~Held(j)
    BY <1>3, <2>2 DEF LeaseLapses, Held, workerVars
  <2> QED BY <2>1, <2>2
<1>4. ASSUME NEW j \in Jobs, Purge(j) PROVE SoleHolder'
  BY <1>4 DEF Purge, Held, workerVars, ghostVars
<1>5. ASSUME NEW j \in Jobs, Orphan(j) PROVE SoleHolder'
  BY <1>5 DEF Orphan, rowVars, workerVars, ghostVars
<1>6. ASSUME NEW w \in Workers, NEW j \in Jobs, Claim(w, j) PROVE SoleHolder'
  <2>1. j \notin overran => \A v \in Workers : job[v] # j
    BY <1>6 DEF Claim, Claimable
  <2>2. j \in overran => \A i \in Jobs \ overran : i # j
    OBVIOUS
  <2> QED BY <1>6, <2>1, <2>2 DEF Claim, ghostVars
<1>7. ASSUME NEW w \in Workers, Inspect(w) PROVE SoleHolder'
  BY <1>7 DEF Inspect, rowVars, ghostVars
<1>8. ASSUME NEW w \in Workers, Skip(w) PROVE SoleHolder'
  BY <1>8 DEF Skip, rowVars, ghostVars
<1>9. ASSUME NEW w \in Workers, RunStep(w) PROVE SoleHolder'
  BY <1>9 DEF RunStep, rowVars, ghostVars
<1>10. ASSUME NEW w \in Workers, FanOut(w) PROVE SoleHolder'
  BY <1>10 DEF FanOut, rowVars, ghostVars
<1>11. ASSUME NEW w \in Workers, Accrue(w) PROVE SoleHolder'
  BY <1>11 DEF Accrue, rowVars, ghostVars
<1>12. ASSUME NEW w \in Workers, StepFails(w) PROVE SoleHolder'
  BY <1>12 DEF StepFails, rowVars, ghostVars
<1>13. ASSUME NEW w \in Workers, Finish(w) PROVE SoleHolder'
  BY <1>13 DEF Finish, Release, ghostVars
<1>14. ASSUME NEW w \in Workers, RetryOrFail(w) PROVE SoleHolder'
  BY <1>14 DEF RetryOrFail, Release, ghostVars
<1>15. ASSUME NEW w \in Workers, Vanish(w) PROVE SoleHolder'
  BY <1>15 DEF Vanish, Release, rowVars
<1>16. CASE UNCHANGED vars
  BY <1>16 DEF vars, rowVars, workerVars, ghostVars
<1> QED
  BY <1>1, <1>2, <1>3, <1>4, <1>5, <1>6, <1>7, <1>8, <1>9, <1>10, <1>11, <1>12,
     <1>13, <1>14, <1>15, <1>16 DEF Next, Work

(* Without an overrun lease a job is never in two workers' hands. *)
THEOREM OneHolderAtATime == Spec => []SoleHolder
<1> QED BY SoleHolderInit, SoleHolderStep, BaseInvariant, PTL DEF Spec

(* Without an overrun lease a completed row is final. *)
THEOREM CompletedIsFinal == Spec => CompletedStays
<1> DEFINE Stays == \A j \in Jobs : status[j] = "completed" /\ j \notin overran
                                       => status'[j] \in {"completed", "purged"}
<1>1. ASSUME TypeOK, WorkerOK, SoleHolder, [Next]_vars PROVE Stays
  <2> SUFFICES ASSUME NEW j \in Jobs, status[j] = "completed", j \notin overran
               PROVE status'[j] \in {"completed", "purged"}
    OBVIOUS
  <2>1. \A w \in Workers : job[w] # j
    BY <1>1 DEF SoleHolder
  <2> USE <1>1, <2>1 DEF TypeOK, WorkerOK
  <2>2. CASE \E i \in Jobs : Enqueue(i) \/ Purge(i)
    BY <2>2 DEF Enqueue, Purge
  <2>3. CASE \E i \in Jobs : BackoffElapses(i) \/ LeaseLapses(i) \/ Orphan(i)
    BY <2>3 DEF BackoffElapses, LeaseLapses, Orphan, rowVars
  <2>4. CASE \E w \in Workers, i \in Jobs : Claim(w, i)
    BY <2>4 DEF Claim, Claimable
  <2>5. CASE \E w \in Workers : Finish(w) \/ RetryOrFail(w)
    BY <2>5 DEF Finish, RetryOrFail
  <2>6. CASE \E w \in Workers : \/ Inspect(w) \/ Skip(w) \/ RunStep(w) \/ FanOut(w)
                                \/ Accrue(w) \/ StepFails(w) \/ Vanish(w)
    BY <2>6 DEF Inspect, Skip, RunStep, FanOut, Accrue, StepFails, Vanish, rowVars
  <2>7. CASE UNCHANGED vars
    BY <2>7 DEF vars, rowVars
  <2> QED BY <2>2, <2>3, <2>4, <2>5, <2>6, <2>7 DEF Next, Work
<1>2. Base /\ SoleHolder /\ [Next]_vars => [Stays]_vars
  BY <1>1 DEF Base
<1> QED BY <1>2, BaseInvariant, OneHolderAtATime, PTL DEF Spec, CompletedStays

-----------------------------------------------------------------------------
(* The attempt budget.  The row of a job becomes claimable when it is       *)
(* enqueued, when an attempt that was not the last gives it back, or after  *)
(* a fault; and every attempt gives it back at most once, since no two are  *)
(* made with the same copy of the counter.  The budget counts these.       *)

(* Attempts short of the last one that were made and are over.             *)
GivenBack(j) ==
    { c \in 1 .. MaxAttempts - 1 :
        c <= attempts[j] /\ \A w \in Workers : job[w] = j => copy[w] # c }

(* The row is there to be claimed, now or when its lease lapses: nobody     *)
(* works under the latest claim.                                           *)
ToClaim(j) ==
    \/ status[j] = "pending"
    \/ /\ status[j] = "processing"
       /\ lapsed[j] \/ \A w \in Workers : job[w] = j => copy[w] # attempts[j]

Counted(j) ==
    IF status[j] = "absent" THEN attempts[j] = 0
    ELSE attempts[j] + (IF ToClaim(j) THEN 1 ELSE 0)
             <= 1 + Cardinality(GivenBack(j)) + faults

CopiesOK ==
    /\ \A w \in Workers : job[w] # NoJob => copy[w] \in 1 .. attempts[job[w]]
    /\ \A v, w \in Workers :
          job[v] = job[w] /\ job[w] # NoJob /\ copy[v] = copy[w] => v = w

BudgetOK ==
    /\ CopiesOK
    /\ \A j \in Jobs : Counted(j)
    /\ \A j \in alerted : attempts[j] >= MaxAttempts

(* Attempts given back are among the first MaxAttempts - 1, and counted.   *)
LEMMA GivenBackFacts ==
    ASSUME NEW S \in SUBSET (1 .. MaxAttempts - 1)
    PROVE  /\ IsFiniteSet(S) /\ Cardinality(S) \in Nat
           /\ Cardinality(S) <= MaxAttempts - 1
           /\ \A T \in SUBSET S :
                 /\ Cardinality(T) \in Nat /\ Cardinality(T) <= Cardinality(S)
                 /\ T # S => Cardinality(T) + 1 <= Cardinality(S)
<1>1. MaxAttempts - 1 \in Nat
  BY OutboxAssumption
<1>2. IsFiniteSet(1 .. MaxAttempts - 1)
  BY <1>1, FS_Interval
<1>3. Cardinality(1 .. MaxAttempts - 1) = MaxAttempts - 1
  BY <1>1, FS_Interval
<1>4. /\ IsFiniteSet(S) /\ Cardinality(S) \in Nat
      /\ Cardinality(S) <= MaxAttempts - 1
  BY <1>2, <1>3, FS_Subset, FS_CardinalityType
<1>5. ASSUME NEW T \in SUBSET S
      PROVE  /\ Cardinality(T) \in Nat /\ Cardinality(T) <= Cardinality(S)
             /\ T # S => Cardinality(T) + 1 <= Cardinality(S)
  <2>1. /\ IsFiniteSet(T) /\ Cardinality(T) <= Cardinality(S)
        /\ Cardinality(S) = Cardinality(T) => S = T
    BY <1>4, FS_Subset
  <2>2. Cardinality(T) \in Nat
    BY <2>1, FS_CardinalityType
  <2> QED BY <1>4, <2>1, <2>2
<1> QED BY <1>4, <1>5

(* What gives a row back has been counted, or is a fault.                  *)
LEMMA CountedStays ==
    ASSUME TypeOK, NEW j \in Jobs, Counted(j), status[j] # "absent",
           status'[j] # "absent", attempts'[j] = attempts[j],
           GivenBack(j) \subseteq GivenBack(j)', faults' \in {faults, faults + 1},
           ToClaim(j)' =>
               ToClaim(j) \/ faults' = faults + 1 \/ GivenBack(j) # GivenBack(j)'
    PROVE  Counted(j)'
<1> DEFINE n == Cardinality(GivenBack(j))
           m == Cardinality(GivenBack(j)')
<1>1. GivenBack(j)' \in SUBSET (1 .. MaxAttempts - 1)
  BY DEF GivenBack
<1>2. /\ n \in Nat /\ m \in Nat /\ n <= m
      /\ GivenBack(j) # GivenBack(j)' => n + 1 <= m
  BY <1>1, GivenBackFacts
<1>3. attempts[j] \in Nat /\ faults \in Nat
  BY DEF TypeOK
<1>4. /\ attempts[j] + (IF ToClaim(j) THEN 1 ELSE 0) <= 1 + n + faults
  BY DEF Counted
<1> HIDE DEF n, m
<1>5. attempts[j] + (IF ToClaim(j)' THEN 1 ELSE 0) <= 1 + m + faults'
  BY <1>2, <1>3, <1>4
<1> QED BY <1>5 DEF Counted, n, m

(* A job that the step leaves alone.                                       *)
LEMMA CountedSame ==
    ASSUME TypeOK, NEW j \in Jobs, Counted(j), faults' \in {faults, faults + 1},
           status'[j] = status[j], attempts'[j] = attempts[j],
           lapsed'[j] = lapsed[j],
           \A w \in Workers : job'[w] = j <=> job[w] = j,
           \A w \in Workers : job[w] = j => copy'[w] = copy[w]
    PROVE  Counted(j)'
<1>1. GivenBack(j)' = GivenBack(j) /\ (ToClaim(j)' <=> ToClaim(j))
  BY DEF GivenBack, ToClaim
<1>2. CASE status[j] = "absent"
  BY <1>2 DEF Counted
<1>3. CASE status[j] # "absent"
  BY <1>1, <1>3, CountedStays
<1> QED BY <1>2, <1>3

(* A worker gives its claim up.                                            *)
LEMMA ReleaseCopies ==
    ASSUME TypeOK, CopiesOK, NEW w \in Workers, Release(w), attempts' = attempts
    PROVE  /\ CopiesOK'
           /\ \A v \in Workers : job'[v] = IF v = w THEN NoJob ELSE job[v]
           /\ \A v \in Workers : v # w => copy'[v] = copy[v]
           /\ \A j \in Jobs : GivenBack(j) \subseteq GivenBack(j)'
<1> USE OutboxAssumption
<1>1. /\ \A v \in Workers : job'[v] = IF v = w THEN NoJob ELSE job[v]
      /\ \A v \in Workers : v # w => copy'[v] = copy[v]
  BY DEF Release, TypeOK
<1>2. CopiesOK'
  BY <1>1 DEF CopiesOK
<1>3. \A j \in Jobs : GivenBack(j) \subseteq GivenBack(j)'
  BY <1>1 DEF GivenBack
<1> QED BY <1>1, <1>2, <1>3

(* Nothing has been claimed.                                               *)
LEMMA BudgetInit == Init => BudgetOK
BY OutboxAssumption DEF Init, BudgetOK, CopiesOK, Counted

(* Every step keeps the count: a claim uses up what made the row claimable.*)
LEMMA BudgetStep == Base /\ BudgetOK /\ [Next]_vars => BudgetOK'
<1> SUFFICES ASSUME TypeOK, WorkerOK, BudgetOK, [Next]_vars PROVE BudgetOK'
  BY DEF Base
<1> USE OutboxAssumption
<1>1. CASE UNCHANGED << status, attempts, lapsed, alerted, job, copy, faults >>
  <2>1. \A j \in Jobs : Counted(j)'
    BY <1>1, CountedSame DEF BudgetOK
  <2> QED BY <1>1, <2>1 DEF BudgetOK, CopiesOK
<1>2. ASSUME NEW j \in Jobs, Enqueue(j) PROVE BudgetOK'
  <2>1. /\ status[j] = "absent" /\ status'[j] = "pending"
        /\ \A i \in Jobs : i # j => status'[i] = status[i]
        /\ UNCHANGED << attempts, lapsed, alerted, job, copy, faults >>
    BY <1>2 DEF Enqueue, TypeOK, workerVars, ghostVars
  <2>2. Counted(j)'
    <3>1. attempts'[j] = 0 /\ faults' \in Nat
      BY <2>1 DEF BudgetOK, Counted, TypeOK
    <3>2. Cardinality(GivenBack(j)') \in Nat
      <4>1. GivenBack(j)' \in SUBSET (1 .. MaxAttempts - 1)
        BY DEF GivenBack
      <4> QED BY <4>1, GivenBackFacts
    <3>3. 0 + (IF ToClaim(j)' THEN 1 ELSE 0)
              <= 1 + Cardinality(GivenBack(j)') + faults'
      BY <3>1, <3>2
    <3> QED BY <2>1, <3>1, <3>3 DEF Counted
  <2>3. \A i \in Jobs : i # j => Counted(i)'
    BY <2>1, CountedSame DEF BudgetOK
  <2> QED BY <2>1, <2>2, <2>3 DEF BudgetOK, CopiesOK
<1>3. ASSUME NEW j \in Jobs, LeaseLapses(j) PROVE BudgetOK'
  <2>1. /\ status[j] = "processing" /\ faults' \in {faults, faults + 1}
        /\ Held(j) => faults' = faults + 1
        /\ \A i \in Jobs : i # j => lapsed'[i] = lapsed[i]
        /\ UNCHANGED << status, attempts, alerted, job, copy >>
    BY <1>3 DEF LeaseLapses, TypeOK, effectVars, workerVars
  <2>2. ~Held(j) => ToClaim(j)
    BY <2>1 DEF Held, ToClaim
  <2>3. GivenBack(j)' = GivenBack(j)
    BY <2>1 DEF GivenBack
  <2>4. Counted(j)'
    BY <2>1, <2>2, <2>3, CountedStays DEF BudgetOK
  <2>5. \A i \in Jobs : i # j => Counted(i)'
    BY <2>1, CountedSame DEF BudgetOK
  <2> QED BY <2>1, <2>4, <2>5 DEF BudgetOK, CopiesOK
<1>4. ASSUME NEW j \in Jobs, Purge(j) PROVE BudgetOK'
  <2>1. /\ status[j] # "absent" /\ status'[j] = "purged"
        /\ \A i \in Jobs : i # j => status'[i] = status[i]
        /\ UNCHANGED << attempts, lapsed, alerted, job, copy, faults >>
    BY <1>4 DEF Purge, TypeOK, effectVars, workerVars, ghostVars
  <2>2. GivenBack(j)' = GivenBack(j) /\ ~ToClaim(j)'
    BY <2>1 DEF GivenBack, ToClaim
  <2>3. Counted(j)'
    BY <2>1, <2>2, CountedStays DEF BudgetOK
  <2>4. \A i \in Jobs : i # j => Counted(i)'
    BY <2>1, CountedSame DEF BudgetOK
  <2> QED BY <2>1, <2>3, <2>4 DEF BudgetOK, CopiesOK
<1>5. ASSUME NEW w \in Workers, NEW j \in Jobs, Claim(w, j) PROVE BudgetOK'
  <2>1. /\ status'[j] = "processing" /\ lapsed'[j] = FALSE
        /\ attempts'[j] = attempts[j] + 1
        /\ job'[w] = j /\ copy'[w] = attempts[j] + 1
        /\ \A i \in Jobs : i # j =>
              /\ status'[i] = status[i] /\ lapsed'[i] = lapsed[i]
              /\ attempts'[i] = attempts[i]
        /\ \A v \in Workers : v # w => job'[v] = job[v] /\ copy'[v] = copy[v]
        /\ UNCHANGED << alerted, faults >>
    BY <1>5 DEF Claim, TypeOK, effectVars, ghostVars
  <2>2. job[w] = NoJob /\ attempts[j] \in Nat /\ faults \in Nat /\ ToClaim(j)
    BY <1>5 DEF Claim, Claimable, WorkerOK, TypeOK, ToClaim
  <2>3. CopiesOK'
    <3>1. \A v \in Workers : v # w /\ job[v] = j => copy[v] \in 1 .. attempts[j]
      BY DEF BudgetOK, CopiesOK
    <3>2. \A v \in Workers : v # w /\ job[v] = j =>
              copy'[v] \in 1 .. attempts'[j] /\ copy'[v] # copy'[w]
      BY <2>1, <2>2, <3>1
    <3>3. copy'[w] \in 1 .. attempts'[j]
      BY <2>1, <2>2
    <3>4. \A v \in Workers : v # w /\ job[v] # j /\ job[v] # NoJob =>
              copy'[v] \in 1 .. attempts'[job[v]]
      BY <2>1 DEF BudgetOK, CopiesOK, TypeOK
    <3> QED BY <2>1, <3>2, <3>3, <3>4 DEF BudgetOK, CopiesOK
  <2>4. Counted(j)'
    <3>1. GivenBack(j) \subseteq GivenBack(j)'
      <4> SUFFICES ASSUME NEW c \in GivenBack(j) PROVE c \in GivenBack(j)'
        OBVIOUS
      <4>1. c \in 1 .. MaxAttempts - 1 /\ c <= attempts[j]
        BY DEF GivenBack
      <4>2. c <= attempts'[j] /\ c # copy'[w]
        BY <2>1, <2>2, <4>1
      <4> QED BY <2>1, <2>2, <4>1, <4>2 DEF GivenBack
    <3>2. ~ToClaim(j)'
      BY <2>1 DEF ToClaim
    <3>3. /\ Cardinality(GivenBack(j)) \in Nat
          /\ Cardinality(GivenBack(j)') \in Nat
          /\ Cardinality(GivenBack(j)) <= Cardinality(GivenBack(j)')
      <4>1. GivenBack(j)' \in SUBSET (1 .. MaxAttempts - 1)
        BY DEF GivenBack
      <4> QED BY <3>1, <4>1, GivenBackFacts
    <3>4. attempts[j] + 1 <= 1 + Cardinality(GivenBack(j)) + faults
      <4>1. status[j] # "absent"
        BY <2>2 DEF ToClaim
      <4> QED BY <2>2, <4>1 DEF BudgetOK, Counted
    <3>5. attempts'[j] + 0 <= 1 + Cardinality(GivenBack(j)') + faults'
      BY <2>1, <2>2, <3>3, <3>4
    <3> QED BY <2>1, <3>2, <3>5 DEF Counted
  <2>5. \A i \in Jobs : i # j => Counted(i)'
    BY <2>1, <2>2, CountedSame DEF BudgetOK
  <2>6. \A i \in alerted' : attempts'[i] >= MaxAttempts
    BY <2>1, <2>2 DEF BudgetOK, TypeOK
  <2> QED BY <2>3, <2>4, <2>5, <2>6 DEF BudgetOK
<1>6. ASSUME NEW w \in Workers, Finish(w) \/ RetryOrFail(w) \/ Vanish(w)
      PROVE  BudgetOK'
  <2>1. Release(w) /\ attempts' = attempts
    BY <1>6 DEF Finish, RetryOrFail, Vanish, rowVars
  <2>2. PICK j \in Jobs : j = job[w] /\ status[j] # "absent"
    BY <1>6 DEF Finish, RetryOrFail, Vanish, WorkerOK, TypeOK
  <2>3. /\ CopiesOK'
        /\ \A v \in Workers : job'[v] = IF v = w THEN NoJob ELSE job[v]
        /\ \A v \in Workers : v # w => copy'[v] = copy[v]
        /\ \A i \in Jobs : GivenBack(i) \subseteq GivenBack(i)'
    BY <2>1, ReleaseCopies DEF BudgetOK
  <2>4. /\ faults' \in {faults, faults + 1} /\ status'[j] # "absent"
        /\ \A i \in Jobs : i # j =>
              status'[i] = status[i] /\ lapsed'[i] = lapsed[i]
    BY <1>6, <2>2
    DEF Finish, RetryOrFail, Vanish, rowVars, ghostVars, effectVars, TypeOK
  <2>5. ToClaim(j)' =>
            ToClaim(j) \/ faults' = faults + 1 \/ GivenBack(j) # GivenBack(j)'
    <3>1. CASE Finish(w)
      BY <2>2, <3>1 DEF Finish, ToClaim, TypeOK
    <3>2. CASE Vanish(w)
      BY <3>2 DEF Vanish
    <3>3. CASE RetryOrFail(w) /\ LastAttempt(w)
      BY <2>2, <3>3 DEF RetryOrFail, ToClaim, TypeOK
    <3>4. CASE RetryOrFail(w) /\ ~LastAttempt(w)
      <4>1. copy[w] \in 1 .. attempts[j]
        BY <2>2 DEF BudgetOK, CopiesOK
      <4>2. /\ copy[w] \in 1 .. MaxAttempts - 1 /\ copy[w] <= attempts[j]
        BY <3>4, <4>1 DEF LastAttempt, TypeOK
      <4>3. \A v \in Workers : v # w /\ job[v] = j => copy[v] # copy[w]
        BY <2>2 DEF BudgetOK, CopiesOK
      <4>4. copy[w] \in GivenBack(j)' /\ copy[w] \notin GivenBack(j)
        BY <2>1, <2>2, <2>3, <4>2, <4>3 DEF GivenBack
      <4> QED BY <4>4
    <3> QED BY <1>6, <3>1, <3>2, <3>3, <3>4
  <2>6. Counted(j)'
    BY <2>1, <2>2, <2>3, <2>4, <2>5, CountedStays DEF BudgetOK
  <2>7. \A i \in Jobs : i # j => Counted(i)'
    BY <2>1, <2>2, <2>3, <2>4, CountedSame DEF BudgetOK
  <2>8. \A i \in alerted' : attempts'[i] >= MaxAttempts
    <3>1. copy[w] \in 1 .. attempts[j]
      BY <2>2 DEF BudgetOK, CopiesOK
    <3>2. \/ alerted' = alerted
          \/ alerted' = alerted \cup {j} /\ copy[w] >= MaxAttempts
      BY <1>6, <2>2
      DEF Finish, RetryOrFail, Vanish, effectVars, LastAttempt
    <3> QED BY <2>1, <3>1, <3>2 DEF BudgetOK, TypeOK
  <2> QED BY <2>3, <2>6, <2>7, <2>8 DEF BudgetOK
<1> QED
  BY <1>1, <1>2, <1>3, <1>4, <1>5, <1>6
  DEF Next, Work, vars, rowVars, effectVars, workerVars, ghostVars,
      BackoffElapses, Orphan, Inspect, Skip, RunStep, FanOut, Accrue, StepFails

(* Beyond max_attempts a row is claimed at the cost of a fault each time,   *)
(* and an alert tells that its attempts were really used up.               *)
THEOREM AttemptBudgetHolds == Spec => []AttemptBudget
<1>1. TypeOK /\ BudgetOK => AttemptBudget
  <2> SUFFICES ASSUME TypeOK, BudgetOK, NEW j \in Jobs
               PROVE  attempts[j] <= MaxAttempts + faults
    BY DEF AttemptBudget, BudgetOK
  <2>1. attempts[j] \in Nat /\ faults \in Nat /\ MaxAttempts \in Nat \ {0}
    BY OutboxAssumption DEF TypeOK
  <2>2. /\ Cardinality(GivenBack(j)) \in Nat
        /\ Cardinality(GivenBack(j)) <= MaxAttempts - 1
    <3>1. GivenBack(j) \in SUBSET (1 .. MaxAttempts - 1)
      BY DEF GivenBack
    <3> QED BY <3>1, GivenBackFacts
  <2>3. Counted(j)
    BY DEF BudgetOK
  <2> QED BY <2>1, <2>2, <2>3 DEF Counted
<1>2. Base => TypeOK
  BY DEF Base
<1> QED
  BY <1>1, <1>2, BudgetInit, BudgetStep, BaseInvariant, PTL DEF Spec

-----------------------------------------------------------------------------
(* The outbox implements OutboxContract: Enqueue promises, a step with a   *)
(* row of its own records, the webhook announces, all else stutters.       *)
Owed == { j \in Jobs : status[j] # "absent" }

(* Every behaviour of the outbox is one of the contract.                   *)
THEOREM OutboxImplementsContract == Spec => ContractSpec
<1>1. Init => Contract!Init
  BY DEF Init, Contract!Init
<1>2. ASSUME TypeOK, WorkerOK, [Next]_vars
      PROVE  [Contract!Next]_(Contract!vars)
  <2> DEFINE CNext == Contract!Next
             CSame == UNCHANGED << Owed, applied, posted >>
  <2> SUFFICES CNext \/ CSame
    BY DEF Contract!vars, Owed
  <2> USE <1>2, OutboxAssumption, PipelineFacts DEF TypeOK, WorkerOK
  <2>1. ASSUME NEW j \in Jobs, Enqueue(j) PROVE CNext
    <3>1. Contract!Promise(j)
      BY <2>1 DEF Enqueue, Contract!Promise
    <3> QED BY <3>1 DEF Contract!Next
  <2>2. ASSUME NEW j \in Jobs,
               BackoffElapses(j) \/ LeaseLapses(j) \/ Purge(j) \/ Orphan(j)
        PROVE CSame
    BY <2>2 DEF BackoffElapses, LeaseLapses, Purge, Orphan, Owed, rowVars, effectVars
  <2>3. ASSUME NEW w \in Workers, NEW j \in Jobs, Claim(w, j) PROVE CSame
    BY <2>3 DEF Claim, Claimable, Owed, effectVars
  <2>4. ASSUME NEW w \in Workers, Inspect(w) \/ Skip(w) \/ FanOut(w) \/ Vanish(w)
        PROVE CSame
    BY <2>4 DEF Inspect, Skip, FanOut, Vanish, Owed, rowVars, effectVars
  <2>5. ASSUME NEW w \in Workers, Finish(w) \/ RetryOrFail(w) PROVE CSame
    BY <2>5 DEF Finish, RetryOrFail, Owed, effectVars
  <2>6. ASSUME NEW w \in Workers, RunStep(w) PROVE CNext \/ CSame
    <3>1. job[w] \in Jobs /\ at[w] \in Needs[job[w]] /\ job[w] \in Owed
      BY <2>6 DEF RunStep, Owed
    <3>2. UNCHANGED Owed
      BY <2>6 DEF RunStep, Owed, rowVars
    <3>3. CASE at[w] = Loyalty
      BY <2>6, <3>2, <3>3 DEF RunStep, Loyalty, Webhook
    <3>4. CASE at[w] = Webhook
      <4>1. Contract!Announce(job[w])
        BY <2>6, <3>1, <3>2, <3>4
           DEF RunStep, Owed, Loyalty, Webhook, Contract!Announce, Contract!AllBefore
      <4> QED BY <3>1, <4>1 DEF Contract!Next
    <3>5. CASE at[w] # Loyalty /\ at[w] # Webhook
      <4>1. Contract!Record(job[w], at[w])
        BY <2>6, <3>1, <3>2, <3>5
           DEF RunStep, Owed, Contract!Record, Contract!AllBefore
      <4> QED BY <3>1, <4>1 DEF Contract!Next
    <3> QED BY <3>3, <3>4, <3>5
  <2>7. ASSUME NEW w \in Workers, Accrue(w) PROVE CNext \/ CSame
    <3>1. job[w] \in Jobs /\ Loyalty \in Needs[job[w]] /\ job[w] \in Owed
      BY <2>7 DEF Accrue, Owed
    <3>2. UNCHANGED Owed
      BY <2>7 DEF Accrue, Owed, rowVars
    <3>3. CASE Loyalty \in applied[job[w]]
      BY <2>7, <3>2, <3>3 DEF Accrue
    <3>4. CASE Loyalty \notin applied[job[w]]
      <4>1. Contract!Record(job[w], Loyalty)
        BY <2>7, <3>1, <3>2, <3>4
           DEF Accrue, Owed, Loyalty, Webhook, Contract!Record, Contract!AllBefore
      <4> QED BY <3>1, <4>1 DEF Contract!Next
    <3> QED BY <3>3, <3>4
  <2>8. ASSUME NEW w \in Workers, StepFails(w) PROVE CNext \/ CSame
    <3>1. job[w] \in Jobs /\ job[w] \in Owed /\ UNCHANGED << Owed, applied >>
      BY <2>8 DEF StepFails, Owed, rowVars
    <3>2. CASE posted' = posted
      BY <3>1, <3>2
    <3>3. CASE posted' # posted
      <4>1. Contract!Announce(job[w])
        BY <2>8, <3>1, <3>3 DEF StepFails, Owed, Contract!Announce, Contract!AllBefore
      <4> QED BY <3>1, <4>1 DEF Contract!Next
    <3> QED BY <3>2, <3>3
  <2>9. CASE UNCHANGED vars
    BY <2>9 DEF vars, Owed, rowVars, effectVars
  <2> QED
    BY <2>1, <2>2, <2>3, <2>4, <2>5, <2>6, <2>7, <2>8, <2>9 DEF Next, Work
<1>3. Base /\ [Next]_vars => [Contract!Next]_(Contract!vars)
  BY <1>2 DEF Base
<1> QED BY <1>1, <1>3, BaseInvariant, PTL DEF Spec, ContractSpec, Contract!Spec
=============================================================================

---------------------------- MODULE JobQueueProofs ----------------------------
(* Theorems about JobQueue, for any jobs, servers, permits and faults; the  *)
(* last two speak of a single server, as deployed.                          *)
EXTENDS JobQueue, TLAPS

(* Where a loop and a task can be, and when they have a job.               *)
PlacesOK ==
    /\ \A l \in Loops :
          /\ pc[l] \in {"idle", "scan", "stale", "reset", "push", "load",
                        "drop", "stamp", "spawn"}
          /\ job[l] = NoJob <=> pc[l] \in {"idle", "scan"}
    /\ \A t \in Tasks :
          /\ pc[t] \in {"idle", "run", "succeeded", "complete", "unlist_done",
                        "erred", "fail", "unlist_failed", "requeue"}
          /\ job[t] = NoJob <=> pc[t] = "idle"

(* A job that was never queued is nowhere.                                 *)
Unqueued(j) ==
    data[j] = Absent =>
        /\ queue[j] = 0 /\ processing[j] = 0 /\ dead[j] = 0 /\ runs[j] = 0
        /\ \A l \in Loops : todo[l][j] = 0
        /\ \A a \in Agents : job[a] # j

(* A job is on one list at most, and has one holder at most, who has it     *)
(* listed as processed or off every list.                                   *)
Sole(j) ==
    /\ \A a, b \in Holders(j) : a = b
    /\ queue[j] + processing[j] + dead[j] <= 1
    /\ \A a \in Holders(j) :
          IF InTransit(a) THEN queue[j] + processing[j] + dead[j] = 0
                          ELSE processing[j] = 1

(* What a holder knows of the record is what it is.                        *)
Known(j) ==
    \A a \in Holders(j) :
        /\ pc[a] \in {"stamp", "complete", "fail", "unlist_failed", "requeue"} =>
              got[a] = data[j]
        /\ data[j] = Gone => pc[a] \in {"load", "drop", "reset"}
        /\ pc[a] = "drop" => data[j] = Gone
        /\ pc[a] = "reset" => got[a] # Gone
        /\ pc[a] = "unlist_done" => data[j].status = "completed"

(* A record is only gone, or read as gone, when its job is on no list.     *)
Kept(j) ==
    /\ Waiting(j) => \/ queue[j] + processing[j] > 0
                     \/ \E a \in Holders(j) : InTransit(a)
    /\ data[j] = Gone =>
          queue[j] = 0 /\ processing[j] = 0 /\ Holders(j) = {}
    /\ \A a \in Agents :
          job[a] = j /\ pc[a] = "stale" /\ got[a] = Gone => data[j] = Gone

(* A job is given up only when its retries are used up.                    *)
GivenUp(j) ==
    dead[j] > 0 => data[j] = Gone \/ data[j].attempts >= MaxRetries

IInv ==
    /\ TypeOK /\ PlacesOK
    /\ \A j \in Jobs : Unqueued(j)
    /\ \A j \in Jobs \ shared : Sole(j) /\ Known(j) /\ GivenUp(j)
    /\ \A j \in Jobs \ (shared \cup lost) : Kept(j)

(* One server, and so one loop.                                            *)
SoleServer == \A l, m \in Loops : l = m

(* A job at work was stamped within the processing timeout, unless it       *)
(* overran, and then nobody is about to recover it.                         *)
Stamped(j) ==
    /\ \A a \in Holders(j) :
          a \in Tasks \/ pc[a] = "spawn" => data[j].started = "recent"
    /\ \A l \in Loops : job[l] = j /\ pc[l] = "stale" => Holders(j) = {}

(* How many runs a record accounts for: before, in, and after a run.       *)
Before(r) == IF r.attempts < MaxRetries THEN r.attempts ELSE MaxRetries - 1
After(r)  == IF r.attempts < MaxRetries THEN r.attempts ELSE MaxRetries

Running(a) ==
    pc[a] \in {"run", "succeeded", "complete", "unlist_done", "erred", "fail"}

Budget(j) ==
    /\ runs[j] <= MaxRetries + faults
    /\ \A a \in Holders(j) :
          /\ Running(a) => runs[j] <= Before(data[j]) + 1 + faults
          /\ pc[a] \in {"unlist_failed", "requeue"} =>
                runs[j] <= After(data[j]) + faults
          /\ pc[a] \in {"load", "stamp", "spawn", "push"} /\ data[j] # Gone =>
                runs[j] <= Before(data[j]) + faults
          /\ pc[a] = "reset" => runs[j] <= Before(got[a]) + faults
    /\ Holders(j) = {} /\ queue[j] + processing[j] > 0 /\ data[j] # Gone =>
          runs[j] <= Before(data[j]) + faults
    /\ \A l \in Loops :
          job[l] = j /\ pc[l] = "stale" /\ got[l] # Gone /\ processing[j] > 0 =>
              runs[j] <= Before(got[l]) + faults
                         + (IF Holders(j) = {} THEN 0 ELSE 1)

ServerInv ==
    /\ \A j \in Jobs \ overran : Stamped(j)
    /\ RecoveredAfterTimeout
    /\ \A j \in Jobs \ shared : Budget(j)

-----------------------------------------------------------------------------
(* The agents, and their jobs.                                             *)
LEMMA AgentFacts ==
    /\ \A l \in Loops : l \in Agents /\ l \notin Tasks
    /\ \A t \in Tasks : t \in Agents /\ t \notin Loops /\ Owner[t] \in Loops
    /\ \A a \in Agents : a \in Loops \/ a \in Tasks
    /\ NoJob \notin Jobs
  BY JobQueueAssumption DEF Agents

(* The records the commands write.                                         *)
LEMMA RecordFacts ==
    /\ Absent \in Records /\ Gone \in Records /\ Absent # Gone
    /\ [Absent EXCEPT !.status = "pending"] \in Records \ {Absent, Gone}
  BY DEF Records, Absent, Gone

(* A record that ages changes neither its status nor its attempts.         *)
LEMMA AgedRecord ==
    ASSUME NEW r \in Records
    PROVE  /\ Aged(r) \in Records
           /\ Aged(r).status = r.status /\ Aged(r).attempts = r.attempts
           /\ Aged(r) = Gone <=> r = Gone
           /\ Aged(r) = Absent <=> r = Absent
  BY DEF Aged, Records, Gone, Absent

(* A status written into a record leaves the rest of it.                   *)
LEMMA WrittenRecord ==
    ASSUME NEW r \in Records,
           NEW s \in {"pending", "processing", "completed", "failed"}
    PROVE  /\ [r EXCEPT !.status = s] \in Records
           /\ [r EXCEPT !.status = s].status = s
           /\ [r EXCEPT !.status = s].attempts = r.attempts
           /\ [r EXCEPT !.status = s].started = r.started
           /\ [r EXCEPT !.status = s] \notin {Gone, Absent}
  BY DEF Records, Gone, Absent

(* A status and a stamp written into a record leave its attempts.          *)
LEMMA StampedRecord ==
    ASSUME NEW r \in Records,
           NEW s \in {"pending", "processing"}, NEW at \in {"never", "recent"}
    PROVE  /\ [r EXCEPT !.status = s, !.started = at] \in Records
           /\ [r EXCEPT !.status = s, !.started = at].status = s
           /\ [r EXCEPT !.status = s, !.started = at].attempts = r.attempts
           /\ [r EXCEPT !.status = s, !.started = at].started = at
           /\ [r EXCEPT !.status = s, !.started = at] \notin {Gone, Absent}
  BY DEF Records, Gone, Absent

(* A failed run costs one attempt.                                         *)
LEMMA FailedRecord ==
    ASSUME NEW r \in Records,
           NEW f, f = [r EXCEPT !.status = "failed", !.attempts = @ + 1]
    PROVE  /\ f \in Records
           /\ f.status = "failed" /\ f.attempts = r.attempts + 1
           /\ f.started = r.started
           /\ f \notin {Gone, Absent}
  <1>1. /\ f.status = "failed" /\ f.attempts = r.attempts + 1
        /\ f.started = r.started /\ r.attempts \in Nat
    BY DEF Records
  <1>2. f \in Records
    <2>1. f = [status |-> "failed", attempts |-> r.attempts + 1,
               started |-> r.started]
      BY DEF Records
    <2>2. QED BY <1>1, <2>1 DEF Records
  <1>3. QED BY <1>1, <1>2 DEF Gone, Absent

(* A list with an id more, or less.                                        *)
LEMMA ListFacts ==
    ASSUME NEW list \in [Jobs -> Nat], NEW k \in Jobs
    PROVE  /\ Push(list, k) \in [Jobs -> Nat]
           /\ Remove(list, k) \in [Jobs -> Nat]
           /\ Push(list, k)[k] = list[k] + 1
           /\ list[k] = 0 => Remove(list, k)[k] = 0
           /\ list[k] > 0 => Remove(list, k)[k] = list[k] - 1
           /\ \A j \in Jobs : j # k => /\ Push(list, k)[j] = list[j]
                                       /\ Remove(list, k)[j] = list[j]
  BY DEF Push, Remove

-----------------------------------------------------------------------------
(* Types and places.                                                       *)

Typed == TypeOK /\ PlacesOK

(* An agent has a job except when idle or scanning.                        *)
LEMMA JobOf ==
    ASSUME Typed, NEW a \in Agents
    PROVE  /\ job[a] \in Jobs \cup {NoJob}
           /\ pc[a] \in {"idle", "scan"} <=> job[a] = NoJob
           /\ pc[a] \notin {"idle", "scan"} => job[a] \in Jobs
  <1>1. job[a] \in Jobs \cup {NoJob}
    BY DEF Typed, TypeOK
  <1>2. pc[a] \in {"idle", "scan"} <=> job[a] = NoJob
    BY AgentFacts DEF Typed, PlacesOK
  <1>3. QED BY <1>1, <1>2

(* Types are kept by the steps around the agents,                          *)
LEMMA AroundTyped ==
    ASSUME Typed, NEW j \in Jobs, Enqueue(j) \/ Age(j) \/ Expire(j)
    PROVE  Typed'
  <1> USE AgentFacts, RecordFacts, AgedRecord, ListFacts
      DEF lists, agentVars, ghosts
  <1>1. CASE Enqueue(j)
    BY <1>1 DEF Enqueue, Typed, TypeOK, PlacesOK
  <1>2. CASE Age(j)
    BY <1>2 DEF Age, Typed, TypeOK, PlacesOK
  <1>3. CASE Expire(j)
    BY <1>3 DEF Expire, Typed, TypeOK, PlacesOK
  <1>4. QED BY <1>1, <1>2, <1>3

(* by those of a loop,                                                     *)
LEMMA LoopTyped ==
    ASSUME Typed, NEW l \in Loops, Loop(l) \/ \E j \in Jobs : Pop(l, j)
    PROVE  Typed'
  <1> USE AgentFacts DEF lists, agentVars, ghosts
  <1>1. CASE Scan(l)
    BY <1>1 DEF Scan, Goto, Typed, TypeOK, PlacesOK, Places
  <1>2. ASSUME NEW j \in Jobs, Look(l, j) PROVE Typed'
    <2>1. todo' \in [Loops -> [Jobs -> Nat]]
      BY <1>2 DEF Look, Typed, TypeOK
    <2>2. CASE UNCHANGED << job, got, pc >>
      BY <1>2, <2>1, <2>2 DEF Look, Typed, TypeOK, PlacesOK, Places
    <2>3. CASE /\ job' = [job EXCEPT ![l] = j]
               /\ got' = [got EXCEPT ![l] = data[j]]
               /\ pc' = [pc EXCEPT ![l] = "stale"]
      BY <1>2, <2>1, <2>3 DEF Look, Typed, TypeOK, PlacesOK, Places
    <2>4. QED BY <1>2, <2>2, <2>3 DEF Look
  <1>3. CASE Unlist(l)
    <2>1. job[l] \in Jobs
      BY <1>3, AgentFacts, JobOf DEF Unlist
    <2>2. processing' \in [Jobs -> Nat] /\ shared' \in SUBSET Jobs
      BY SMTT(60), <1>3, <2>1, ListFacts DEF Unlist, Typed, TypeOK
    <2>3. CASE LetGo(l, "scan")
      BY <1>3, <2>2, <2>3, RecordFacts
      DEF Unlist, LetGo, Typed, TypeOK, PlacesOK, Places
    <2>4. CASE Goto(l, "reset") /\ UNCHANGED got
      BY <1>3, <2>2, <2>4
      DEF Unlist, Goto, Typed, TypeOK, PlacesOK, Places
    <2>5. QED BY <1>3, <2>3, <2>4 DEF Unlist
  <1>4. CASE Reset(l)
    <2>1. job[l] \in Jobs
      BY <1>4, AgentFacts, JobOf DEF Reset
    <2>2. data' \in [Jobs -> Records]
      BY ZenonT(60), <1>4, <2>1, StampedRecord DEF Reset, Typed, TypeOK
    <2>3. QED
      BY <1>4, <2>2 DEF Reset, Goto, Typed, TypeOK, PlacesOK, Places
  <1>5. CASE PushBack(l)
    <2>1. job[l] \in Jobs
      BY <1>5, AgentFacts, JobOf DEF PushBack
    <2>2. queue' \in [Jobs -> Nat]
      BY <1>5, <2>1, ListFacts DEF PushBack, Typed, TypeOK
    <2>3. QED
      BY <1>5, <2>2, RecordFacts DEF PushBack, LetGo, Typed, TypeOK, PlacesOK, Places
  <1>6. CASE PopNothing(l)
    BY <1>6 DEF PopNothing, Goto, Typed, TypeOK, PlacesOK, Places
  <1>7. CASE Load(l)
    <2>1. job[l] \in Jobs
      BY <1>7, AgentFacts, JobOf DEF Load
    <2>2. QED
      BY <1>7, <2>1 DEF Load, Goto, Typed, TypeOK, PlacesOK, Places
  <1>8. CASE Drop(l)
    <2>1. job[l] \in Jobs
      BY <1>8, AgentFacts, JobOf DEF Drop
    <2>2. processing' \in [Jobs -> Nat]
      BY <1>8, <2>1, ListFacts DEF Drop, Typed, TypeOK
    <2>3. QED
      BY <1>8, <2>2, RecordFacts DEF Drop, LetGo, Typed, TypeOK, PlacesOK, Places
  <1>9. CASE Stamp(l)
    <2>1. job[l] \in Jobs
      BY <1>9, AgentFacts, JobOf DEF Stamp
    <2>2. data' \in [Jobs -> Records]
      BY ZenonT(60), <1>9, <2>1, StampedRecord DEF Stamp, Typed, TypeOK
    <2>3. QED
      BY <1>9, <2>2 DEF Stamp, Goto, Typed, TypeOK, PlacesOK, Places
  <1>10. ASSUME NEW t \in Tasks, Spawn(l, t) PROVE Typed'
    <2>1. job[l] \in Jobs
      BY <1>10, AgentFacts, JobOf DEF Spawn
    <2>2. runs' \in [Jobs -> Nat]
      BY <1>10, <2>1 DEF Spawn, Typed, TypeOK
    <2>3. /\ job' \in [Agents -> Jobs \cup {NoJob}]
          /\ got' \in [Agents -> Records]
          /\ pc' \in [Agents -> Places]
      BY <1>10, <2>1, RecordFacts DEF Spawn, Typed, TypeOK, Places
    <2>4. TypeOK'
      BY <1>10, <2>2, <2>3 DEF Spawn, Typed, TypeOK
    <2>5. /\ job' = [job EXCEPT ![l] = NoJob, ![t] = job[l]]
          /\ pc' = [pc EXCEPT ![l] = "idle", ![t] = "run"]
      BY <1>10 DEF Spawn
    <2>6. job'[l] = NoJob /\ pc'[l] = "idle" /\ job'[t] = job[l] /\ pc'[t] = "run"
      BY <2>5 DEF Typed, TypeOK
    <2>7. \A a \in Agents : a # l /\ a # t => job'[a] = job[a] /\ pc'[a] = pc[a]
      BY <2>5 DEF Typed, TypeOK
    <2>8. PlacesOK'
      BY <2>1, <2>6, <2>7 DEF Typed, PlacesOK
    <2>9. QED BY <2>4, <2>8 DEF Typed
  <1>11. ASSUME NEW j \in Jobs, Pop(l, j) PROVE Typed'
    <2>1. queue' \in [Jobs -> Nat] /\ processing' \in [Jobs -> Nat]
      BY <1>11, ListFacts DEF Pop, Typed, TypeOK
    <2>2. QED BY <1>11, <2>1 DEF Pop, Typed, TypeOK, PlacesOK, Places
  <1>12. QED
    BY <1>1, <1>2, <1>3, <1>4, <1>5, <1>6, <1>7, <1>8, <1>9, <1>10, <1>11
    DEF Loop

(* What fail writes.                                                       *)
LEMMA FailWrites ==
    ASSUME Typed, NEW t \in Tasks, Fail(t), got[t] # Gone
    PROVE  \E r \in Records :
              /\ r.status = "failed" /\ r.attempts = got[t].attempts + 1
              /\ r.started = got[t].started
              /\ r \notin {Gone, Absent}
              /\ data' = [data EXCEPT ![job[t]] = r]
              /\ got' = [got EXCEPT ![t] = r]
  <1> DEFINE r == [got[t] EXCEPT !.status = "failed", !.attempts = @ + 1]
  <1>1. data' = [data EXCEPT ![job[t]] = r] /\ got' = [got EXCEPT ![t] = r]
    BY DEF Fail
  <1>2. /\ r \in Records
        /\ r.status = "failed" /\ r.attempts = got[t].attempts + 1
        /\ r.started = got[t].started /\ r \notin {Gone, Absent}
    BY ZenonT(60), FailedRecord, AgentFacts DEF Typed, TypeOK
  <1> HIDE DEF r
  <1>3. QED BY <1>1, <1>2

(* by those of a task,                                                     *)
LEMMA TaskTyped ==
    ASSUME Typed, NEW t \in Tasks, Task(t)
    PROVE  Typed'
  <1> USE AgentFacts DEF lists, agentVars, ghosts
  <1>1. job[t] \in Jobs
    BY JobOf DEF Task, Handle, ReadRecord, Complete, UnlistCompleted, Fail,
       UnlistFailed, Requeue
  <1>2. CASE Handle(t)
    <2>1. PICK place \in {"succeeded", "erred"} :
              pc' = [pc EXCEPT ![t] = place] /\ UNCHANGED job
      BY <1>2 DEF Handle, Goto
    <2>2. QED
      BY <1>1, <1>2, <2>1 DEF Handle, Typed, TypeOK, PlacesOK, Places
  <1>3. CASE ReadRecord(t)
    <2>1. got' \in [Agents -> Records]
      BY <1>1, <1>3 DEF ReadRecord, Typed, TypeOK
    <2>2. QED
      BY <1>1, <1>3, <2>1 DEF ReadRecord, Goto, Typed, TypeOK, PlacesOK, Places
  <1>4. CASE Complete(t)
    <2>1. data' \in [Jobs -> Records]
      BY <1>1, <1>4, WrittenRecord DEF Complete, Typed, TypeOK
    <2>2. QED
      BY <1>4, <2>1 DEF Complete, Goto, Typed, TypeOK, PlacesOK, Places
  <1>5. CASE UnlistCompleted(t)
    <2>1. processing' \in [Jobs -> Nat]
      BY <1>1, <1>5, ListFacts DEF UnlistCompleted, Typed, TypeOK
    <2>2. QED
      BY <1>5, <2>1, RecordFacts
      DEF UnlistCompleted, LetGo, Typed, TypeOK, PlacesOK, Places
  <1>6. CASE Fail(t)
    <2>1. data' \in [Jobs -> Records] /\ got' \in [Agents -> Records]
      <3>1. CASE got[t] = Gone
        BY <1>6, <3>1 DEF Fail, Typed, TypeOK
      <3>2. CASE got[t] # Gone
        <4>1. PICK r \in Records : /\ data' = [data EXCEPT ![job[t]] = r]
                                   /\ got' = [got EXCEPT ![t] = r]
          BY <1>6, <3>2, FailWrites
        <4>2. QED BY <1>1, <4>1 DEF Typed, TypeOK
      <3>3. QED BY <3>1, <3>2
    <2>2. QED
      BY <1>6, <2>1 DEF Fail, Goto, Typed, TypeOK, PlacesOK, Places
  <1>7. CASE UnlistFailed(t)
    <2>1. processing' \in [Jobs -> Nat]
      BY <1>1, <1>7, ListFacts DEF UnlistFailed, Typed, TypeOK
    <2>2. CASE LetGo(t, "idle")
      BY <1>7, <2>1, <2>2, RecordFacts
      DEF UnlistFailed, LetGo, Typed, TypeOK, PlacesOK, Places
    <2>3. CASE Goto(t, "requeue") /\ UNCHANGED got
      BY <1>1, <1>7, <2>1, <2>3
      DEF UnlistFailed, Goto, Typed, TypeOK, PlacesOK, Places
    <2>4. QED BY <1>7, <2>2, <2>3 DEF UnlistFailed
  <1>8. CASE Requeue(t)
    <2>1. queue' \in [Jobs -> Nat] /\ dead' \in [Jobs -> Nat]
      <3>1. Push(queue, job[t]) \in [Jobs -> Nat]
        BY <1>1, ListFacts DEF Typed, TypeOK
      <3>2. Push(dead, job[t]) \in [Jobs -> Nat]
        BY <1>1, ListFacts DEF Typed, TypeOK
      <3>3. QED BY <1>8, <3>1, <3>2 DEF Requeue, Typed, TypeOK
    <2>2. QED
      BY <1>8, <2>1, RecordFacts
      DEF Requeue, LetGo, Typed, TypeOK, PlacesOK, Places
  <1>9. QED BY <1>2, <1>3, <1>4, <1>5, <1>6, <1>7, <1>8 DEF Task

(* by an agent that dies,                                                  *)
LEMMA AbortTyped ==
    ASSUME Typed, NEW a \in Agents, Abort(a)
    PROVE  Typed'
  <1>1. lost' \in SUBSET Jobs
    BY JobOf DEF Abort, Typed, TypeOK
  <1>2. todo' \in [Loops -> [Jobs -> Nat]] /\ faults' \in Nat
    BY DEF Abort, Nothing, Typed, TypeOK
  <1>3. QED
    BY <1>1, <1>2, AgentFacts, RecordFacts
    DEF Abort, LetGo, lists, Typed, TypeOK, PlacesOK, Places

(* and so by every step.                                                   *)
LEMMA TypedStep ==
    ASSUME Typed, [Next]_vars
    PROVE  Typed'
  <1>1. CASE UNCHANGED vars
    BY <1>1 DEF vars, lists, agentVars, ghosts, Typed, TypeOK, PlacesOK
  <1>2. QED BY <1>1, AroundTyped, LoopTyped, TaskTyped, AbortTyped DEF Next

-----------------------------------------------------------------------------
(* A step is about one job; what it leaves of another is all that the       *)
(* invariants say of that.                                                  *)

Untouched(j) ==
    /\ queue'[j] = queue[j] /\ processing'[j] = processing[j]
    /\ dead'[j] = dead[j] /\ data'[j] = data[j] /\ runs'[j] = runs[j]
    /\ \A a \in Agents :
          /\ job'[a] = j <=> job[a] = j
          /\ job[a] = j => pc'[a] = pc[a] /\ got'[a] = got[a]
    /\ \A l \in Loops :
          todo'[l][j] # 0 => todo[l][j] # 0 \/ processing[j] # 0
    /\ j \in shared' <=> j \in shared
    /\ j \in overran' <=> j \in overran
    /\ j \in lost' <=> j \in lost
    /\ faults' \in {faults, faults + 1}

JobInv(j) ==
    /\ Unqueued(j)
    /\ j \notin shared => Sole(j) /\ Known(j) /\ GivenUp(j)
    /\ j \notin shared \cup lost => Kept(j)

ServerJobInv(j) ==
    /\ j \notin overran => Stamped(j)
    /\ j \in shared => j \in overran
    /\ j \notin shared => Budget(j)

(* A job the step leaves alone keeps its holders and what they know,       *)
LEMMA UntouchedHolders ==
    ASSUME NEW j \in Jobs, Untouched(j)
    PROVE  /\ Holders(j)' = Holders(j)
           /\ \A a \in Holders(j) :
                 a \in Agents /\ pc'[a] = pc[a] /\ got'[a] = got[a]
  BY DEF Untouched, Holders

(* its invariant,                                                          *)
LEMMA UntouchedJob ==
    ASSUME Typed, NEW j \in Jobs, Untouched(j), JobInv(j)
    PROVE  JobInv(j)'
  <1>1. Unqueued(j)'
    BY DEF Untouched, JobInv, Unqueued
  <1>2. ASSUME j \notin shared
        PROVE  (Sole(j) /\ Known(j) /\ GivenUp(j))'
    <2>1. Sole(j)'
      BY <1>2, UntouchedHolders DEF JobInv, Untouched, Sole, InTransit
    <2>2. Known(j)'
      BY <1>2, UntouchedHolders DEF JobInv, Untouched, Known
    <2>3. GivenUp(j)'
      BY <1>2 DEF JobInv, Untouched, GivenUp
    <2>4. QED BY <2>1, <2>2, <2>3
  <1>3. ASSUME j \notin shared \cup lost
        PROVE  Kept(j)'
    BY <1>3, UntouchedHolders DEF JobInv, Untouched, Kept, Waiting, InTransit
  <1>4. QED BY <1>1, <1>2, <1>3 DEF JobInv, Untouched

(* and the invariant of a single server.                                   *)
LEMMA UntouchedServer ==
    ASSUME Typed, NEW j \in Jobs, Untouched(j), ServerJobInv(j)
    PROVE  ServerJobInv(j)'
  <1>1. ASSUME j \notin overran
        PROVE  Stamped(j)'
    BY <1>1, UntouchedHolders, AgentFacts DEF ServerJobInv, Untouched, Stamped
  <1>2. ASSUME j \notin shared
        PROVE  Budget(j)'
    <2>1. /\ runs[j] \in Nat /\ faults \in Nat /\ MaxRetries \in Nat
          /\ \A r \in Records : Before(r) \in Nat /\ After(r) \in Nat
          /\ data[j] \in Records /\ \A a \in Agents : got[a] \in Records
      BY JobQueueAssumption DEF Typed, TypeOK, Before, After, Records
    <2>2. Budget(j)
      BY <1>2 DEF ServerJobInv
    <2>3. /\ runs'[j] = runs[j] /\ data'[j] = data[j]
          /\ queue'[j] = queue[j] /\ processing'[j] = processing[j]
          /\ faults' \in {faults, faults + 1}
      BY DEF Untouched
    <2>4. \A l \in Loops : job'[l] = j => /\ job[l] = j /\ l \in Agents
                                          /\ pc'[l] = pc[l] /\ got'[l] = got[l]
      BY AgentFacts DEF Untouched
    <2> QED
      BY <2>1, <2>2, <2>3, <2>4, UntouchedHolders
      DEF Budget, Running, Before, After
  <1>3. QED BY <1>1, <1>2 DEF ServerJobInv, Untouched

(* Pushing or removing one job leaves the others on their lists.           *)
LEMMA ListElsewhere ==
    ASSUME Typed, NEW k \in Jobs, NEW i \in Jobs, i # k
    PROVE  /\ Push(queue, k)[i] = queue[i] /\ Remove(queue, k)[i] = queue[i]
           /\ Push(processing, k)[i] = processing[i]
           /\ Remove(processing, k)[i] = processing[i]
           /\ Push(dead, k)[i] = dead[i]
  BY ZenonT(60), ListFacts DEF Typed, TypeOK

(* What a step of an agent changes is about its job, before or after.      *)
LEMMA LoopTouches ==
    ASSUME Typed, NEW l \in Loops, Loop(l) \/ \E j \in Jobs : Pop(l, j),
           NEW i \in Jobs, i # job[l], i # job'[l]
    PROVE  Untouched(i)
  <1> USE AgentFacts DEF lists, agentVars, ghosts, Typed, TypeOK
  <1>1. CASE Scan(l)
    BY <1>1 DEF Scan, Goto, Untouched
  <1>2. ASSUME NEW j \in Jobs, Look(l, j) PROVE Untouched(i)
    <2>1. \A m \in Loops : todo'[m][i] # 0 => todo[m][i] # 0
      BY <1>2 DEF Look
    <2>2. \/ UNCHANGED << job, got, pc >>
          \/ /\ job' = [job EXCEPT ![l] = j]
             /\ got' = [got EXCEPT ![l] = data[j]]
             /\ pc' = [pc EXCEPT ![l] = "stale"]
      BY <1>2 DEF Look
    <2>3. \A a \in Agents :
              /\ job'[a] = i <=> job[a] = i
              /\ job[a] = i => pc'[a] = pc[a] /\ got'[a] = got[a]
      BY <2>2
    <2>4. QED BY <1>2, <2>1, <2>3 DEF Look, Untouched
  <1>3. CASE Unlist(l)
    <2>1. job[l] \in Jobs
      BY <1>3, JobOf DEF Unlist
    <2>2. processing'[i] = processing[i] /\ (i \in shared' <=> i \in shared)
      BY <1>3, <2>1, ListElsewhere DEF Unlist
    <2>3. LetGo(l, "scan") \/ (Goto(l, "reset") /\ UNCHANGED got)
      BY <1>3 DEF Unlist
    <2>4. \A a \in Agents :
              /\ job'[a] = i <=> job[a] = i
              /\ job[a] = i => pc'[a] = pc[a] /\ got'[a] = got[a]
      BY <2>3 DEF Goto, LetGo
    <2>5. QED BY <1>3, <2>2, <2>4 DEF Unlist, Untouched
  <1>4. CASE Reset(l)
    BY <1>4, JobOf DEF Reset, Goto, Untouched
  <1>5. CASE PushBack(l)
    <2>1. job[l] \in Jobs
      BY <1>5, JobOf DEF PushBack
    <2>2. queue'[i] = queue[i]
      BY SMTT(60), <1>5, <2>1, ListFacts DEF PushBack
    <2>3. QED BY <1>5, <2>2 DEF PushBack, LetGo, Untouched
  <1>6. CASE PopNothing(l)
    BY <1>6 DEF PopNothing, Goto, Untouched
  <1>7. CASE Load(l)
    BY <1>7 DEF Load, Goto, Untouched
  <1>8. CASE Drop(l)
    <2>1. job[l] \in Jobs
      BY <1>8, JobOf DEF Drop
    <2>2. processing'[i] = processing[i]
      BY SMTT(60), <1>8, <2>1, ListFacts DEF Drop
    <2>3. QED BY <1>8, <2>2 DEF Drop, LetGo, Untouched
  <1>9. CASE Stamp(l)
    BY <1>9, JobOf DEF Stamp, Goto, Untouched
  <1>10. ASSUME NEW t \in Tasks, Spawn(l, t) PROVE Untouched(i)
    BY <1>10, JobOf DEF Spawn, Untouched, PlacesOK
  <1>11. ASSUME NEW j \in Jobs, Pop(l, j) PROVE Untouched(i)
    <2>1. i # j /\ queue'[i] = queue[i] /\ processing'[i] = processing[i]
      BY <1>11, ListElsewhere DEF Pop
    <2>2. QED BY <1>11, <2>1 DEF Pop, Untouched
  <1>12. QED
    BY <1>1, <1>2, <1>3, <1>4, <1>5, <1>6, <1>7, <1>8, <1>9, <1>10, <1>11
    DEF Loop

(* A task touches no job but its own,                                      *)
LEMMA TaskTouches ==
    ASSUME Typed, NEW t \in Tasks, Task(t), NEW i \in Jobs, i # job[t]
    PROVE  Untouched(i)
  <1> USE AgentFacts DEF lists, agentVars, ghosts, Typed, TypeOK
  <1>1. job[t] \in Jobs
    BY JobOf DEF Task, Handle, ReadRecord, Complete, UnlistCompleted, Fail,
       UnlistFailed, Requeue
  <1>2. CASE Handle(t)
    BY <1>2 DEF Handle, Goto, Untouched
  <1>3. CASE ReadRecord(t)
    BY <1>3 DEF ReadRecord, Goto, Untouched
  <1>4. CASE Complete(t)
    <2>1. data'[i] = data[i]
      BY <1>1, <1>4 DEF Complete
    <2>2. QED BY <1>4, <2>1 DEF Complete, Goto, Untouched
  <1>5. CASE UnlistCompleted(t)
    <2>1. processing'[i] = processing[i]
      BY <1>1, <1>5, ListElsewhere DEF UnlistCompleted
    <2>2. QED BY <1>5, <2>1 DEF UnlistCompleted, LetGo, Untouched
  <1>6. CASE Fail(t)
    <2>1. /\ data'[i] = data[i]
          /\ \A a \in Agents : a # t => got'[a] = got[a]
      <3>1. CASE got[t] = Gone
        BY <1>6, <3>1 DEF Fail
      <3>2. CASE got[t] # Gone
        <4>1. PICK r \in Records : /\ data' = [data EXCEPT ![job[t]] = r]
                                   /\ got' = [got EXCEPT ![t] = r]
          BY <1>6, <3>2, FailWrites
        <4>2. QED BY <1>1, <4>1
      <3>3. QED BY <3>1, <3>2
    <2>2. QED BY <1>6, <2>1 DEF Fail, Goto, Untouched
  <1>7. CASE UnlistFailed(t)
    <2>1. processing'[i] = processing[i]
      BY <1>1, <1>7, ListElsewhere DEF UnlistFailed
    <2>2. LetGo(t, "idle") \/ (Goto(t, "requeue") /\ UNCHANGED got)
      BY <1>7 DEF UnlistFailed
    <2>3. \A a \in Agents :
              /\ job'[a] = i <=> job[a] = i
              /\ job[a] = i => pc'[a] = pc[a] /\ got'[a] = got[a]
      BY <2>2 DEF Goto, LetGo
    <2>4. QED BY <1>7, <2>1, <2>3 DEF UnlistFailed, Untouched
  <1>8. CASE Requeue(t)
    <2>1. Push(queue, job[t])[i] = queue[i] /\ Push(dead, job[t])[i] = dead[i]
      BY <1>1, ListElsewhere
    <2>2. queue'[i] = queue[i] /\ dead'[i] = dead[i]
      BY <1>8, <2>1 DEF Requeue
    <2>3. QED BY <1>8, <2>2 DEF Requeue, LetGo, Untouched
  <1>9. QED BY <1>2, <1>3, <1>4, <1>5, <1>6, <1>7, <1>8 DEF Task

(* nor does an agent that dies,                                            *)
LEMMA AbortTouches ==
    ASSUME Typed, NEW a \in Agents, Abort(a), NEW i \in Jobs, i # job[a]
    PROVE  Untouched(i)
  <1>1. \A l \in Loops : todo'[l][i] # 0 => todo[l][i] # 0
    BY DEF Abort, Nothing, Typed, TypeOK
  <1>2. i \in lost' <=> i \in lost
    BY DEF Abort
  <1>3. \A b \in Agents :
            /\ job'[b] = i <=> job[b] = i
            /\ job[b] = i => pc'[b] = pc[b] /\ got'[b] = got[b]
    <2>1. i # NoJob
      BY AgentFacts
    <2>2. QED BY <2>1 DEF Abort, LetGo, Typed, TypeOK
  <1>4. QED
    BY <1>1, <1>2, <1>3 DEF Abort, lists, Untouched

(* nor the steps around the agents.                                        *)
LEMMA AroundTouches ==
    ASSUME Typed, NEW j \in Jobs, Enqueue(j) \/ Age(j) \/ Expire(j),
           NEW i \in Jobs, i # j
    PROVE  Untouched(i)
  <1> USE DEF lists, agentVars, ghosts, Typed, TypeOK
  <1>1. CASE Enqueue(j)
    BY ZenonT(60), <1>1, ListFacts DEF Enqueue, Untouched
  <1>2. CASE Age(j)
    BY <1>2 DEF Age, Untouched
  <1>3. CASE Expire(j)
    BY <1>3 DEF Expire, Untouched
  <1>4. QED BY <1>1, <1>2, <1>3

-----------------------------------------------------------------------------
(* The job of a step.  Most steps are those of a holder, with no other      *)
(* holder beside it: what the invariants say is then about this agent.      *)

Holds(a, j) == job[a] = j /\ pc[a] # "stale"

HolderAt(a, j) ==
    /\ queue[j] + processing[j] + dead[j] <= 1
    /\ GivenUp(j)
    /\ Holds(a, j) =>
          /\ IF InTransit(a) THEN queue[j] + processing[j] + dead[j] = 0
                             ELSE processing[j] = 1
          /\ pc[a] \in {"stamp", "complete", "fail", "unlist_failed",
                        "requeue"} => got[a] = data[j]
          /\ data[j] = Gone => pc[a] \in {"load", "drop", "reset"}
          /\ pc[a] = "drop" => data[j] = Gone
          /\ pc[a] = "reset" => got[a] # Gone
          /\ pc[a] = "unlist_done" => data[j].status = "completed"

KeptAt(a, j) ==
    /\ Waiting(j) => \/ queue[j] + processing[j] > 0
                     \/ Holds(a, j) /\ InTransit(a)
    /\ data[j] = Gone => queue[j] = 0 /\ processing[j] = 0 /\ ~Holds(a, j)

OnlyBy(a) ==
    \A b \in Agents \ {a} :
        job'[b] = job[b] /\ pc'[b] = pc[b] /\ got'[b] = got[b]

(* A step of the holder of a job keeps the invariant if it does so for the  *)
(* holder: there is no other.                                              *)
LEMMA HolderMove ==
    ASSUME Typed, NEW j \in Jobs, JobInv(j),
           NEW a \in Agents, Holds(a, j), OnlyBy(a),
           data'[j] # Absent, pc'[a] # "stale",
           shared' = shared, lost \subseteq lost',
           j \notin shared /\ HolderAt(a, j) => HolderAt(a, j)',
           j \notin shared \cup lost' /\ HolderAt(a, j) /\ KeptAt(a, j) =>
               KeptAt(a, j)'
    PROVE  JobInv(j)'
  <1>1. Unqueued(j)'
    BY DEF Unqueued
  <1>2. ASSUME j \notin shared
        PROVE  /\ \A b \in Holders(j) : b = a
               /\ \A b \in Holders(j)' : b = a /\ Holds(a, j)'
               /\ HolderAt(a, j)'
    <2>1. a \in Holders(j)
      BY DEF Holds, Holders
    <2>2. \A b \in Holders(j) : b = a
      BY <1>2, <2>1 DEF JobInv, Sole
    <2>3. \A b \in Holders(j)' : b = a /\ Holds(a, j)'
      BY <2>2 DEF Holders, OnlyBy, Holds
    <2>4. HolderAt(a, j)
      BY <1>2, <2>1 DEF JobInv, Sole, Known, HolderAt
    <2>5. QED BY <1>2, <2>2, <2>3, <2>4
  <1>3. ASSUME j \notin shared
        PROVE  (Sole(j) /\ Known(j) /\ GivenUp(j))'
    BY <1>2, <1>3 DEF HolderAt, Sole, Known
  <1>4. ASSUME j \notin shared \cup lost'
        PROVE  Kept(j)'
    <2>1. a \in Holders(j) /\ Kept(j) /\ data[j] # Gone
      BY <1>4 DEF Holds, Holders, JobInv, Kept
    <2>2. HolderAt(a, j) /\ KeptAt(a, j)
      BY <1>2, <1>4, <2>1
      DEF Kept, KeptAt, HolderAt, JobInv, Sole, Known, Holds
    <2>3. KeptAt(a, j)'
      BY <1>4, <2>2
    <2>4. \A b \in Agents :
              ~ (job'[b] = j /\ pc'[b] = "stale" /\ got'[b] = Gone)
      BY <2>1 DEF Kept, OnlyBy
    <2>5. Holds(a, j)' => a \in Holders(j)'
      BY DEF Holds, Holders
    <2>6. ~Holds(a, j)' => Holders(j)' = {}
      BY <1>2, <1>4
    <2>7. QED BY <2>3, <2>4, <2>5, <2>6 DEF KeptAt, Kept
  <1>5. QED BY <1>1, <1>3, <1>4 DEF JobInv

(* With one server: the stamp and the budget, of the only holder.          *)
StampedAt(a, j) ==
    Holds(a, j) /\ (a \in Tasks \/ pc[a] = "spawn") =>
        data[j].started = "recent"

BudgetAt(a, j) ==
    /\ runs[j] <= MaxRetries + faults
    /\ Holds(a, j) =>
          /\ Running(a) => runs[j] <= Before(data[j]) + 1 + faults
          /\ pc[a] \in {"unlist_failed", "requeue"} =>
                runs[j] <= After(data[j]) + faults
          /\ pc[a] \in {"load", "stamp", "spawn", "push"} /\ data[j] # Gone =>
                runs[j] <= Before(data[j]) + faults
          /\ pc[a] = "reset" => runs[j] <= Before(got[a]) + faults
    /\ ~Holds(a, j) /\ queue[j] + processing[j] > 0 /\ data[j] # Gone =>
          runs[j] <= Before(data[j]) + faults

(* What the budget counts with are natural numbers.                        *)
LEMMA BudgetNumbers ==
    ASSUME Typed
    PROVE  /\ \A r \in Records : Before(r) \in Nat /\ After(r) \in Nat
           /\ \A j \in Jobs : /\ runs[j] \in Nat /\ data[j] \in Records
                             /\ queue[j] \in Nat /\ processing[j] \in Nat
                             /\ dead[j] \in Nat
           /\ \A a \in Agents : got[a] \in Records
           /\ faults \in Nat /\ MaxRetries \in Nat \ {0}
  BY JobQueueAssumption DEF Typed, TypeOK, Before, After, Records

(* The same for the invariant of a single server.                          *)
LEMMA ServerMove ==
    ASSUME SoleServer, Typed, NEW j \in Jobs, JobInv(j), ServerJobInv(j),
           NEW a \in Agents, Holds(a, j), OnlyBy(a), pc'[a] # "stale",
           shared' = shared, overran' = overran, runs'[j] = runs[j],
           faults' \in {faults, faults + 1},
           processing'[j] > 0 => processing[j] > 0,
           HolderAt(a, j) /\ StampedAt(a, j) => StampedAt(a, j)',
           HolderAt(a, j) /\ BudgetAt(a, j) => BudgetAt(a, j)',
           HolderAt(a, j) =>
               Holds(a, j)' \/ processing'[j] = 0 \/ faults' = faults + 1
    PROVE  ServerJobInv(j)'
  <1>1. a \in Holders(j)
    BY DEF Holds, Holders
  <1>2. ASSUME NEW l \in Loops, job'[l] = j, pc'[l] = "stale"
        PROVE  /\ l \in Agents /\ l # a /\ job[l] = j /\ pc[l] = "stale"
               /\ got'[l] = got[l] /\ l \notin Holders(j)
    BY <1>2, AgentFacts DEF OnlyBy, Holders
  <1>3. ASSUME j \notin shared
        PROVE  /\ \A b \in Holders(j) : b = a
               /\ \A b \in Holders(j)' : b = a /\ Holds(a, j)'
               /\ HolderAt(a, j)
    <2>1. \A b \in Holders(j) : b = a
      BY <1>1, <1>3 DEF JobInv, Sole
    <2>2. \A b \in Holders(j)' : b = a /\ Holds(a, j)'
      BY <2>1 DEF Holders, OnlyBy, Holds
    <2>3. HolderAt(a, j)
      BY <1>1, <1>3 DEF JobInv, Sole, Known, HolderAt
    <2>4. QED BY <2>1, <2>2, <2>3
  <1>4. ASSUME j \notin overran
        PROVE  Stamped(j)'
    <2>1. j \notin shared /\ Stamped(j)
      BY <1>4 DEF ServerJobInv
    <2>2. \A l \in Loops : ~ (job'[l] = j /\ pc'[l] = "stale")
      BY <1>1, <1>2, <2>1 DEF Stamped
    <2>3. StampedAt(a, j)
      BY <1>1, <2>1 DEF Stamped, StampedAt
    <2>4. StampedAt(a, j)'
      BY <1>3, <2>1, <2>3
    <2>5. QED BY <1>3, <2>1, <2>2, <2>4 DEF Stamped, StampedAt
  <1>5. ASSUME j \notin shared
        PROVE  Budget(j)'
    <2>1. Budget(j)
      BY <1>5 DEF ServerJobInv
    <2>2. BudgetAt(a, j)
      BY <1>1, <2>1 DEF Budget, BudgetAt
    <2>3. BudgetAt(a, j)'
      BY <1>3, <1>5, <2>2
    <2>4. \A b \in Holders(j)' : b = a /\ Holds(a, j)'
      BY <1>3, <1>5
    <2>5. Holds(a, j)' => a \in Holders(j)'
      BY DEF Holds, Holders
    <2>6. ASSUME NEW l \in Loops, job'[l] = j, pc'[l] = "stale",
                 got'[l] # Gone, processing'[j] > 0
          PROVE  runs'[j] <= Before(got'[l]) + faults'
                             + (IF Holders(j)' = {} THEN 0 ELSE 1)
      <3>1. /\ l \in Agents /\ job[l] = j /\ pc[l] = "stale" /\ got'[l] = got[l]
        BY <1>2, <2>6
      <3>2. processing[j] > 0 => runs[j] <= Before(got[l]) + faults + 1
        BY <1>1, <2>1, <2>6, <3>1 DEF Budget
      <3>3. processing[j] > 0
        BY <2>6
      <3>4. QED
        BY <1>3, <1>5, <2>5, <2>6, <3>1, <3>2, <3>3, BudgetNumbers
    <2>7. QED BY <2>3, <2>4, <2>5, <2>6 DEF Budget, BudgetAt
  <1>6. QED BY <1>4, <1>5 DEF ServerJobInv

(* The loop's steps with a job in its hand keep the job's invariants.      *)
LEMMA LoopHolder ==
    ASSUME Typed, NEW l \in Loops, NEW j \in Jobs, JobInv(j), Holds(l, j),
           \/ Reset(l) \/ PushBack(l) \/ Load(l) \/ Drop(l) \/ Stamp(l)
    PROVE  /\ JobInv(j)'
           /\ SoleServer /\ ServerJobInv(j) => ServerJobInv(j)'
  <1> USE AgentFacts
  <1>1. /\ job[l] = j /\ data[j] \in Records /\ got[l] \in Records
        /\ queue[j] \in Nat /\ processing[j] \in Nat /\ dead[j] \in Nat
        /\ data[j] # Absent
        /\ OnlyBy(l)
        /\ UNCHANGED ghosts
    <2>1. OnlyBy(l)
      BY DEF OnlyBy, Reset, PushBack, Load, Drop, Stamp, Goto, LetGo, Typed,
         TypeOK
    <2>2. UNCHANGED ghosts
      BY DEF Reset, PushBack, Load, Drop, Stamp
    <2>3. QED
      BY <2>1, <2>2 DEF Holds, JobInv, Unqueued, Typed, TypeOK
  <1>2. CASE Reset(l)
    <2>1. PICK r \in Records : /\ r = [got[l] EXCEPT !.status = "pending",
                                                     !.started = "never"]
                               /\ r.status = "pending"
                               /\ r.attempts = got[l].attempts
                               /\ r \notin {Gone, Absent}
      BY <1>1, StampedRecord
    <2>2. /\ job'[l] = j /\ pc'[l] = "push" /\ data'[j] = r /\ pc[l] = "reset"
          /\ UNCHANGED << lists, lost, shared >>
      BY <1>1, <1>2, <2>1 DEF Reset, Goto, ghosts, Typed, TypeOK
    <2>3. HolderAt(l, j) => HolderAt(l, j)'
      BY <1>1, <2>1, <2>2 DEF HolderAt, GivenUp, Holds, InTransit, lists
    <2>4. HolderAt(l, j) /\ KeptAt(l, j) => KeptAt(l, j)'
      BY <1>1, <2>1, <2>2 DEF HolderAt, KeptAt, Waiting, Holds, InTransit, lists
    <2>5. HolderAt(l, j) /\ StampedAt(l, j) => StampedAt(l, j)'
      BY <1>1, <2>1, <2>2 DEF HolderAt, StampedAt, lists, Holds
    <2>6. HolderAt(l, j) /\ BudgetAt(l, j) => BudgetAt(l, j)'
      BY <1>1, <2>1, <2>2, BudgetNumbers
      DEF HolderAt, BudgetAt, Running, Before, After, lists, ghosts, Holds, InTransit
    <2>7. /\ processing'[j] > 0 => processing[j] > 0
          /\ HolderAt(l, j) => Holds(l, j)' \/ processing'[j] = 0
      BY <1>1, <2>1, <2>2 DEF HolderAt, lists, Holds, InTransit
    <2>8. QED BY <1>1, <2>1, <2>2, <2>3, <2>4, <2>5, <2>6, <2>7,
       HolderMove, ServerMove DEF ghosts
  <1>3. CASE PushBack(l)
    <2>1. /\ job'[l] = NoJob /\ pc'[l] = "scan" /\ pc[l] = "push"
          /\ queue'[j] = queue[j] + 1
          /\ UNCHANGED << processing, dead, data, lost, shared >>
      BY <1>1, <1>3, ListFacts DEF PushBack, LetGo, ghosts, Typed, TypeOK
    <2>2. HolderAt(l, j) => HolderAt(l, j)'
      BY <1>1, <2>1 DEF HolderAt, GivenUp, Holds, InTransit
    <2>3. HolderAt(l, j) /\ KeptAt(l, j) => KeptAt(l, j)'
      BY <1>1, <2>1 DEF HolderAt, KeptAt, Waiting, Holds, InTransit
    <2>4. HolderAt(l, j) /\ StampedAt(l, j) => StampedAt(l, j)'
      BY <1>1, <2>1 DEF HolderAt, StampedAt, Holds
    <2>5. HolderAt(l, j) /\ BudgetAt(l, j) => BudgetAt(l, j)'
      BY <1>1, <2>1, BudgetNumbers
      DEF HolderAt, BudgetAt, Running, Before, After, ghosts, Holds, InTransit
    <2>6. /\ processing'[j] > 0 => processing[j] > 0
          /\ HolderAt(l, j) => Holds(l, j)' \/ processing'[j] = 0
      BY <1>1, <2>1 DEF HolderAt, Holds, InTransit
    <2>7. QED BY <1>1, <2>1, <2>2, <2>3, <2>4, <2>5, <2>6,
       HolderMove, ServerMove DEF ghosts
  <1>4. CASE Load(l)
    <2>1. /\ job'[l] = j /\ pc[l] = "load" /\ got'[l] = data[j]
          /\ pc'[l] = IF data[j] = Gone THEN "drop" ELSE "stamp"
          /\ UNCHANGED << lists, data, lost, shared >>
      BY <1>1, <1>4 DEF Load, Goto, ghosts, Typed, TypeOK
    <2>2. HolderAt(l, j) => HolderAt(l, j)'
      BY <1>1, <2>1 DEF HolderAt, GivenUp, Holds, InTransit, lists
    <2>3. HolderAt(l, j) /\ KeptAt(l, j) => KeptAt(l, j)'
      BY <1>1, <2>1 DEF HolderAt, KeptAt, Waiting, Holds, InTransit, lists
    <2>4. HolderAt(l, j) /\ StampedAt(l, j) => StampedAt(l, j)'
      BY <1>1, <2>1 DEF HolderAt, StampedAt, lists, Holds
    <2>5. HolderAt(l, j) /\ BudgetAt(l, j) => BudgetAt(l, j)'
      BY <1>1, <2>1, BudgetNumbers
      DEF HolderAt, BudgetAt, Running, Before, After, lists, ghosts, Holds, InTransit
    <2>6. /\ processing'[j] > 0 => processing[j] > 0
          /\ HolderAt(l, j) => Holds(l, j)' \/ processing'[j] = 0
      BY <1>1, <2>1 DEF HolderAt, lists, Holds, InTransit
    <2>7. QED BY <1>1, <2>1, <2>2, <2>3, <2>4, <2>5, <2>6,
       HolderMove, ServerMove DEF ghosts
  <1>5. CASE Drop(l)
    <2>1. /\ job'[l] = NoJob /\ pc'[l] = "idle" /\ pc[l] = "drop"
          /\ processing[j] = 0 => processing'[j] = 0
          /\ processing[j] > 0 => processing'[j] = processing[j] - 1
          /\ UNCHANGED << queue, dead, data, lost, shared >>
      BY SMTT(60), <1>1, <1>5, ListFacts DEF Drop, LetGo, ghosts, Typed, TypeOK
    <2>2. HolderAt(l, j) => HolderAt(l, j)'
      BY <1>1, <2>1 DEF HolderAt, GivenUp, Holds, InTransit
    <2>3. HolderAt(l, j) /\ KeptAt(l, j) => KeptAt(l, j)'
      BY <1>1, <2>1 DEF HolderAt, KeptAt, Waiting, Holds, InTransit
    <2>4. HolderAt(l, j) /\ StampedAt(l, j) => StampedAt(l, j)'
      BY <1>1, <2>1 DEF HolderAt, StampedAt, Holds
    <2>5. HolderAt(l, j) /\ BudgetAt(l, j) => BudgetAt(l, j)'
      BY <1>1, <2>1, BudgetNumbers
      DEF HolderAt, BudgetAt, Running, Before, After, ghosts, Holds, InTransit
    <2>6. /\ processing'[j] > 0 => processing[j] > 0
          /\ HolderAt(l, j) => Holds(l, j)' \/ processing'[j] = 0
      BY <1>1, <2>1 DEF HolderAt, Holds, InTransit
    <2>7. QED BY <1>1, <2>1, <2>2, <2>3, <2>4, <2>5, <2>6,
       HolderMove, ServerMove DEF ghosts
  <1>6. CASE Stamp(l)
    <2>1. PICK r \in Records : /\ r = [got[l] EXCEPT !.status = "processing",
                                                     !.started = "recent"]
                               /\ r.status = "processing"
                               /\ r.attempts = got[l].attempts
                               /\ r \notin {Gone, Absent}
      BY <1>1, StampedRecord
    <2>2. /\ job'[l] = j /\ pc'[l] = "spawn" /\ data'[j] = r /\ pc[l] = "stamp"
          /\ UNCHANGED << lists, lost, shared >>
      BY <1>1, <1>6, <2>1 DEF Stamp, Goto, ghosts, Typed, TypeOK
    <2>3. HolderAt(l, j) => HolderAt(l, j)'
      BY <1>1, <2>1, <2>2 DEF HolderAt, GivenUp, Holds, InTransit, lists
    <2>4. HolderAt(l, j) /\ KeptAt(l, j) => KeptAt(l, j)'
      BY <1>1, <2>1, <2>2 DEF HolderAt, KeptAt, Waiting, Holds, InTransit, lists
    <2>5. HolderAt(l, j) /\ StampedAt(l, j) => StampedAt(l, j)'
      BY <1>1, <2>1, <2>2 DEF HolderAt, StampedAt, lists, Holds
    <2>6. HolderAt(l, j) /\ BudgetAt(l, j) => BudgetAt(l, j)'
      BY <1>1, <2>1, <2>2, BudgetNumbers
      DEF HolderAt, BudgetAt, Running, Before, After, lists, ghosts, Holds, InTransit
    <2>7. /\ processing'[j] > 0 => processing[j] > 0
          /\ HolderAt(l, j) => Holds(l, j)' \/ processing'[j] = 0
      BY <1>1, <2>1, <2>2 DEF HolderAt, lists, Holds, InTransit
    <2>8. QED BY <1>1, <2>1, <2>2, <2>3, <2>4, <2>5, <2>6, <2>7,
       HolderMove, ServerMove DEF ghosts
  <1>7. QED BY <1>2, <1>3, <1>4, <1>5, <1>6

(* The task's steps keep the invariants of its job.                        *)
LEMMA TaskHolder ==
    ASSUME Typed, NEW t \in Tasks, NEW j \in Jobs, JobInv(j), job[t] = j, Task(t)
    PROVE  /\ JobInv(j)'
           /\ SoleServer /\ ServerJobInv(j) => ServerJobInv(j)'
  <1> USE AgentFacts
  <1>1. /\ Holds(t, j) /\ data[j] \in Records /\ got[t] \in Records
        /\ queue[j] \in Nat /\ processing[j] \in Nat /\ dead[j] \in Nat
        /\ data[j] # Absent /\ MaxRetries \in Nat
        /\ UNCHANGED ghosts
    <2>1. UNCHANGED ghosts
      BY DEF Task, Handle, ReadRecord, Complete, UnlistCompleted, Fail,
         UnlistFailed, Requeue
    <2>2. QED
      BY <2>1, JobQueueAssumption
      DEF Holds, JobInv, Unqueued, Typed, TypeOK, PlacesOK
  <1>2. CASE Handle(t)
    <2>1. /\ job'[t] = j /\ pc[t] = "run" /\ pc'[t] \in {"succeeded", "erred"}
          /\ UNCHANGED << lists, data, lost, shared >> /\ OnlyBy(t)
      BY <1>1, <1>2 DEF Handle, Goto, ghosts, Typed, TypeOK, OnlyBy
    <2>2. HolderAt(t, j) => HolderAt(t, j)'
      BY <1>1, <2>1 DEF HolderAt, GivenUp, Holds, InTransit, lists
    <2>3. HolderAt(t, j) /\ KeptAt(t, j) => KeptAt(t, j)'
      BY <1>1, <2>1 DEF HolderAt, KeptAt, Waiting, Holds, InTransit, lists
    <2>4. HolderAt(t, j) /\ StampedAt(t, j) => StampedAt(t, j)'
      BY <1>1, <2>1 DEF HolderAt, StampedAt, lists, Holds
    <2>5. HolderAt(t, j) /\ BudgetAt(t, j) => BudgetAt(t, j)'
      BY <1>1, <2>1, BudgetNumbers
      DEF HolderAt, BudgetAt, Running, Before, After, lists, ghosts, Holds, InTransit
    <2>6. /\ processing'[j] > 0 => processing[j] > 0
          /\ HolderAt(t, j) => Holds(t, j)' \/ processing'[j] = 0
      BY <1>1, <2>1 DEF HolderAt, lists, Holds, InTransit
    <2>7. QED BY <1>1, <2>1, <2>2, <2>3, <2>4, <2>5, <2>6,
       HolderMove, ServerMove DEF ghosts
  <1>3. CASE ReadRecord(t)
    <2>1. /\ job'[t] = j /\ got'[t] = data[j]
          /\ pc[t] \in {"succeeded", "erred"} /\ pc'[t] \in {"complete", "fail"}
          /\ UNCHANGED << lists, data, lost, shared >> /\ OnlyBy(t)
      BY <1>1, <1>3 DEF ReadRecord, Goto, ghosts, Typed, TypeOK, OnlyBy
    <2>2. HolderAt(t, j) => HolderAt(t, j)'
      BY <1>1, <2>1 DEF HolderAt, GivenUp, Holds, InTransit, lists
    <2>3. HolderAt(t, j) /\ KeptAt(t, j) => KeptAt(t, j)'
      BY <1>1, <2>1 DEF HolderAt, KeptAt, Waiting, Holds, InTransit, lists
    <2>4. HolderAt(t, j) /\ StampedAt(t, j) => StampedAt(t, j)'
      BY <1>1, <2>1 DEF HolderAt, StampedAt, lists, Holds
    <2>5. HolderAt(t, j) /\ BudgetAt(t, j) => BudgetAt(t, j)'
      BY <1>1, <2>1, BudgetNumbers
      DEF HolderAt, BudgetAt, Running, Before, After, lists, ghosts, Holds, InTransit
    <2>6. /\ processing'[j] > 0 => processing[j] > 0
          /\ HolderAt(t, j) => Holds(t, j)' \/ processing'[j] = 0
      BY <1>1, <2>1 DEF HolderAt, lists, Holds, InTransit
    <2>7. QED BY <1>1, <2>1, <2>2, <2>3, <2>4, <2>5, <2>6,
       HolderMove, ServerMove DEF ghosts
  <1>4. CASE Complete(t)
    <2>1. PICK r \in Records : /\ r = [got[t] EXCEPT !.status = "completed"]
                               /\ r.status = "completed"
                               /\ r.attempts = got[t].attempts
                               /\ r.started = got[t].started
                               /\ r \notin {Gone, Absent}
      BY <1>1, WrittenRecord
    <2>2. /\ job'[t] = j /\ pc[t] = "complete" /\ pc'[t] = "unlist_done"
          /\ data'[j] = IF got[t] = Gone THEN data[j] ELSE r
          /\ UNCHANGED << lists, lost, shared >> /\ OnlyBy(t)
      BY <1>1, <1>4, <2>1 DEF Complete, Goto, ghosts, Typed, TypeOK, OnlyBy
    <2>3. HolderAt(t, j) => HolderAt(t, j)'
      BY <1>1, <2>1, <2>2 DEF HolderAt, GivenUp, Holds, InTransit, lists
    <2>4. HolderAt(t, j) /\ KeptAt(t, j) => KeptAt(t, j)'
      BY <1>1, <2>1, <2>2 DEF HolderAt, KeptAt, Waiting, Holds, InTransit, lists
    <2>5. HolderAt(t, j) /\ StampedAt(t, j) => StampedAt(t, j)'
      BY <1>1, <2>1, <2>2 DEF HolderAt, StampedAt, lists, Holds
    <2>6. HolderAt(t, j) /\ BudgetAt(t, j) => BudgetAt(t, j)'
      BY <1>1, <2>1, <2>2, BudgetNumbers
      DEF HolderAt, BudgetAt, Running, Before, After, lists, ghosts, Holds, InTransit
    <2>7. /\ processing'[j] > 0 => processing[j] > 0
          /\ HolderAt(t, j) => Holds(t, j)' \/ processing'[j] = 0
      BY <1>1, <2>1, <2>2 DEF HolderAt, lists, Holds, InTransit
    <2>8. QED BY <1>1, <2>1, <2>2, <2>3, <2>4, <2>5, <2>6, <2>7,
       HolderMove, ServerMove DEF ghosts
  <1>5. CASE UnlistCompleted(t)
    <2>1. /\ job'[t] = NoJob /\ pc'[t] = "idle" /\ pc[t] = "unlist_done"
          /\ processing[j] = 0 => processing'[j] = 0
          /\ processing[j] > 0 => processing'[j] = processing[j] - 1
          /\ UNCHANGED << queue, dead, data, lost, shared >> /\ OnlyBy(t)
      BY SMTT(60), <1>1, <1>5, ListFacts
      DEF UnlistCompleted, LetGo, ghosts, Typed, TypeOK, OnlyBy
    <2>2. HolderAt(t, j) => HolderAt(t, j)'
      BY <1>1, <2>1 DEF HolderAt, GivenUp, Holds, InTransit
    <2>3. HolderAt(t, j) /\ KeptAt(t, j) => KeptAt(t, j)'
      BY <1>1, <2>1 DEF HolderAt, KeptAt, Waiting, Holds, InTransit
    <2>4. HolderAt(t, j) /\ StampedAt(t, j) => StampedAt(t, j)'
      BY <1>1, <2>1 DEF HolderAt, StampedAt, Holds
    <2>5. HolderAt(t, j) /\ BudgetAt(t, j) => BudgetAt(t, j)'
      BY <1>1, <2>1, BudgetNumbers
      DEF HolderAt, BudgetAt, Running, Before, After, ghosts, Holds, InTransit
    <2>6. /\ processing'[j] > 0 => processing[j] > 0
          /\ HolderAt(t, j) => Holds(t, j)' \/ processing'[j] = 0
      BY <1>1, <2>1 DEF HolderAt, Holds, InTransit
    <2>7. QED BY <1>1, <2>1, <2>2, <2>3, <2>4, <2>5, <2>6,
       HolderMove, ServerMove DEF ghosts
  <1>6. CASE Fail(t)
    <2>1. /\ job'[t] = j /\ pc[t] = "fail" /\ pc'[t] = "unlist_failed"
          /\ UNCHANGED << lists, lost, shared >>
          /\ \/ got[t] = Gone /\ UNCHANGED << data, got >>
             \/ \E r \in Records :
                   /\ r.status = "failed" /\ r.attempts = got[t].attempts + 1
                   /\ r.started = got[t].started
                   /\ r \notin {Gone, Absent}
                   /\ data' = [data EXCEPT ![j] = r]
                   /\ got' = [got EXCEPT ![t] = r]
      BY <1>1, <1>6, FailWrites DEF Fail, Goto, ghosts, Typed, TypeOK
    <2>2. OnlyBy(t)
      BY <1>6, <2>1 DEF OnlyBy, Fail, Goto, Typed, TypeOK
    <2>3. PICK r \in Records :
              \/ got[t] = Gone /\ data'[j] = data[j] /\ got'[t] = got[t]
              \/ /\ r.status = "failed" /\ r.attempts = got[t].attempts + 1
                 /\ r.started = got[t].started
                 /\ r \notin {Gone, Absent} /\ data'[j] = r /\ got'[t] = r
      BY <1>1, <2>1, RecordFacts DEF Typed, TypeOK
    <2>4. got[t].attempts \in Nat
      BY <1>1 DEF Records
    <2>5. HolderAt(t, j) => HolderAt(t, j)'
      BY <1>1, <2>1, <2>3, <2>4 DEF HolderAt, GivenUp, Holds, InTransit, lists
    <2>6. HolderAt(t, j) /\ KeptAt(t, j) => KeptAt(t, j)'
      BY <1>1, <2>1, <2>3 DEF HolderAt, KeptAt, Waiting, Holds, InTransit, lists
    <2>7. data'[j] # Absent
      BY <1>1, <2>3
    <2>8. HolderAt(t, j) /\ StampedAt(t, j) => StampedAt(t, j)'
      BY <1>1, <2>1, <2>2, <2>3, <2>4 DEF HolderAt, StampedAt, lists, Holds
    <2>9. HolderAt(t, j) /\ BudgetAt(t, j) => BudgetAt(t, j)'
      BY <1>1, <2>1, <2>2, <2>3, <2>4, BudgetNumbers
      DEF HolderAt, BudgetAt, Running, Before, After, lists, ghosts, Holds, InTransit
    <2>10. /\ processing'[j] > 0 => processing[j] > 0
           /\ HolderAt(t, j) => Holds(t, j)' \/ processing'[j] = 0
      BY <1>1, <2>1, <2>2, <2>3, <2>4 DEF HolderAt, lists, Holds, InTransit
    <2>11. pc'[t] # "stale"
      BY <2>1
    <2>12. JobInv(j)'
      BY <1>1, <2>2, <2>5, <2>6, <2>7, <2>11, HolderMove DEF ghosts
    <2>13. ASSUME SoleServer, ServerJobInv(j) PROVE ServerJobInv(j)'
      BY <1>1, <2>2, <2>8, <2>9, <2>10, <2>11, <2>13, ServerMove DEF ghosts
    <2>14. QED BY <2>12, <2>13
  <1>7. CASE UnlistFailed(t)
    <2>1. /\ pc[t] = "unlist_failed"
          /\ processing[j] = 0 => processing'[j] = 0
          /\ processing[j] > 0 => processing'[j] = processing[j] - 1
          /\ UNCHANGED << queue, dead, data, lost, shared >>
      <3>1. processing' = Remove(processing, j) /\ processing \in [Jobs -> Nat]
        BY <1>1, <1>7 DEF UnlistFailed, Holds, Typed, TypeOK
      <3>2. QED BY <1>1, <1>7, <3>1, ListFacts DEF UnlistFailed, ghosts
    <2>2. \/ got[t] = Gone /\ LetGo(t, "idle")
          \/ got[t] # Gone /\ Goto(t, "requeue") /\ UNCHANGED got
      BY <1>7 DEF UnlistFailed
    <2>3. /\ OnlyBy(t)
          /\ \/ got[t] = Gone /\ job'[t] = NoJob /\ pc'[t] = "idle"
             \/ /\ got[t] # Gone /\ job'[t] = j /\ pc'[t] = "requeue"
                /\ got'[t] = got[t]
      BY <1>1, <2>2 DEF OnlyBy, Goto, LetGo, Typed, TypeOK
    <2>4. HolderAt(t, j) => HolderAt(t, j)'
      <3>1. CASE got[t] = Gone
        BY <1>1, <2>1, <2>3, <3>1 DEF HolderAt, GivenUp, Holds, InTransit
      <3>2. CASE got[t] # Gone
        BY <1>1, <2>1, <2>3, <3>2 DEF HolderAt, GivenUp, Holds, InTransit
      <3>3. QED BY <3>1, <3>2
    <2>5. HolderAt(t, j) /\ KeptAt(t, j) => KeptAt(t, j)'
      BY <1>1, <2>1, <2>3 DEF HolderAt, KeptAt, Waiting, Holds, InTransit
    <2>6. HolderAt(t, j) /\ StampedAt(t, j) => StampedAt(t, j)'
      BY <1>1, <2>1, <2>2, <2>3 DEF HolderAt, StampedAt, Holds
    <2>7. HolderAt(t, j) /\ BudgetAt(t, j) => BudgetAt(t, j)'
      BY <1>1, <2>1, <2>2, <2>3, BudgetNumbers
      DEF HolderAt, BudgetAt, Running, Before, After, ghosts, Holds, InTransit
    <2>8. /\ processing'[j] > 0 => processing[j] > 0
          /\ HolderAt(t, j) => Holds(t, j)' \/ processing'[j] = 0
      BY <1>1, <2>1, <2>2, <2>3 DEF HolderAt, Holds, InTransit
    <2>9. QED BY <1>1, <2>1, <2>3, <2>4, <2>5, <2>6, <2>7, <2>8,
       HolderMove, ServerMove DEF ghosts
  <1>8. CASE Requeue(t)
    <2>1. /\ pc[t] = "requeue" /\ job'[t] = NoJob /\ pc'[t] = "idle"
          /\ OnlyBy(t) /\ UNCHANGED << processing, data, lost, shared >>
      BY <1>1, <1>8 DEF Requeue, LetGo, ghosts, Typed, TypeOK, OnlyBy
    <2>2. \/ /\ got[t].attempts < MaxRetries
             /\ queue'[j] = queue[j] + 1 /\ dead' = dead
          \/ /\ ~ got[t].attempts < MaxRetries
             /\ dead'[j] = dead[j] + 1 /\ queue' = queue
      <3>1. \/ /\ got[t].attempts < MaxRetries
               /\ queue' = Push(queue, j) /\ dead' = dead
            \/ /\ ~ got[t].attempts < MaxRetries
               /\ dead' = Push(dead, j) /\ queue' = queue
        BY <1>1, <1>8 DEF Requeue, RetriesLeft
      <3>2. queue \in [Jobs -> Nat] /\ dead \in [Jobs -> Nat]
        BY DEF Typed, TypeOK
      <3>3. Push(queue, j)[j] = queue[j] + 1 /\ Push(dead, j)[j] = dead[j] + 1
        BY <3>2, ListFacts
      <3>4. QED BY <3>1, <3>3
    <2>3. got[t].attempts \in Nat
      BY <1>1 DEF Records
    <2>4. HolderAt(t, j) => HolderAt(t, j)'
      <3> SUFFICES ASSUME HolderAt(t, j) PROVE HolderAt(t, j)'
        OBVIOUS
      <3>1. /\ got[t] = data[j]
            /\ queue[j] = 0 /\ processing[j] = 0 /\ dead[j] = 0
        <4>1. InTransit(t)
          BY <2>1 DEF InTransit
        <4>2. got[t] = data[j] /\ queue[j] + processing[j] + dead[j] = 0
          BY <1>1, <2>1, <4>1 DEF HolderAt
        <4>3. QED BY <1>1, <4>2
      <3>2. queue'[j] + processing'[j] + dead'[j] <= 1
        BY <1>1, <2>1, <2>2, <3>1
      <3>3. GivenUp(j)'
        BY <1>1, <2>1, <2>2, <2>3, <3>1 DEF GivenUp
      <3>4. ~Holds(t, j)'
        BY <1>1, <2>1 DEF Holds
      <3>5. QED BY <3>2, <3>3, <3>4 DEF HolderAt
    <2>5. HolderAt(t, j) /\ KeptAt(t, j) => KeptAt(t, j)'
      BY <1>1, <2>1, <2>2 DEF HolderAt, KeptAt, Waiting, Holds, InTransit
    <2>6. HolderAt(t, j) /\ StampedAt(t, j) => StampedAt(t, j)'
      BY <1>1, <2>1, <2>2, <2>3 DEF HolderAt, StampedAt, Holds
    <2>7. HolderAt(t, j) /\ BudgetAt(t, j) => BudgetAt(t, j)'
      <3> SUFFICES ASSUME HolderAt(t, j), BudgetAt(t, j) PROVE BudgetAt(t, j)'
        OBVIOUS
      <3>1. got[t] = data[j] /\ queue[j] + processing[j] = 0
        BY <1>1, <2>1 DEF HolderAt, InTransit
      <3>2. /\ runs[j] <= After(data[j]) + faults
            /\ runs[j] <= MaxRetries + faults
        BY <1>1, <2>1 DEF BudgetAt
      <3>3. runs'[j] = runs[j] /\ faults' = faults /\ data'[j] = data[j]
        BY <1>1, <2>1 DEF ghosts
      <3>4. ~Holds(t, j)'
        BY <2>1, <1>1, AgentFacts DEF Holds
      <3>5. queue'[j] + processing'[j] > 0 =>
                runs[j] <= Before(data[j]) + faults
        BY <2>1, <2>2, <3>1, <3>2 DEF Before, After
      <3>6. QED BY <3>2, <3>3, <3>4, <3>5 DEF BudgetAt
    <2>8. HolderAt(t, j) => processing[j] = 0 /\ processing'[j] = 0
      BY <1>1, <2>1 DEF HolderAt, Holds, InTransit
    <2>10. processing'[j] > 0 => processing[j] > 0
      BY <2>1
    <2>9. QED BY <1>1, <2>1, <2>4, <2>5, <2>6, <2>7, <2>8, <2>10,
       HolderMove, ServerMove DEF ghosts
  <1>9. QED
    BY <1>2, <1>3, <1>4, <1>5, <1>6, <1>7, <1>8 DEF Task

(* A fault of a holder, and of a loop that has only read the record.       *)
LEMMA AbortJob ==
    ASSUME Typed, NEW a \in Agents, NEW j \in Jobs, JobInv(j), job[a] = j,
           Abort(a)
    PROVE  JobInv(j)'
  <1>1. /\ data[j] \in Records /\ data[j] # Absent /\ j # NoJob
        /\ queue[j] \in Nat /\ processing[j] \in Nat /\ dead[j] \in Nat
    BY AgentFacts DEF JobInv, Unqueued, Typed, TypeOK
  <1>2. /\ job'[a] = NoJob /\ pc'[a] = "idle" /\ OnlyBy(a)
        /\ UNCHANGED << lists, data, shared >>
        /\ lost' = IF InTransit(a) THEN lost \cup {j} ELSE lost
    BY <1>1 DEF Abort, LetGo, OnlyBy, InTransit, Typed, TypeOK
  <1>3. CASE Holds(a, j)
    <2>1. HolderAt(a, j) => HolderAt(a, j)'
      BY <1>1, <1>2 DEF HolderAt, GivenUp, Holds, InTransit, lists
    <2>2. j \notin lost' /\ HolderAt(a, j) /\ KeptAt(a, j) => KeptAt(a, j)'
      BY <1>1, <1>2, <1>3
      DEF HolderAt, KeptAt, Waiting, Holds, InTransit, lists
    <2>3. QED BY <1>1, <1>2, <1>3, <2>1, <2>2, HolderMove
  <1>4. CASE ~Holds(a, j)
    <2>1. /\ Holders(j)' = Holders(j) /\ a \notin Holders(j)
          /\ \A b \in Holders(j) :
                /\ b \in Agents /\ job'[b] = job[b] /\ pc'[b] = pc[b]
                /\ got'[b] = got[b]
          /\ lost' = lost
      BY <1>1, <1>2, <1>4 DEF Holders, Holds, OnlyBy, InTransit
    <2>2. Unqueued(j)'
      BY <1>1, <1>2 DEF Unqueued
    <2>3. (Sole(j) /\ Known(j) /\ GivenUp(j)) =>
              (Sole(j) /\ Known(j) /\ GivenUp(j))'
      BY <1>2, <2>1 DEF Sole, Known, GivenUp, InTransit, lists
    <2>4. Kept(j) => Kept(j)'
      BY <1>2, <2>1 DEF Kept, Waiting, InTransit, OnlyBy, lists
    <2>5. QED BY <1>2, <2>1, <2>2, <2>3, <2>4 DEF JobInv
  <1>5. QED BY <1>3, <1>4

(* The steps by which an agent comes to a job.                             *)
LEMMA LookJob ==
    ASSUME Typed, NEW l \in Loops, NEW j \in Jobs, JobInv(j), Look(l, j)
    PROVE  JobInv(j)'
  <1> USE AgentFacts
  <1>1. data[j] # Absent /\ job[l] = NoJob /\ pc[l] = "scan"
    BY DEF Look, JobInv, Unqueued, Typed, TypeOK, PlacesOK
  <1>2. /\ UNCHANGED << lists, data, lost, shared >>
        /\ OnlyBy(l)
        /\ \/ job'[l] = NoJob /\ pc'[l] = "scan"
           \/ job'[l] = j /\ pc'[l] = "stale" /\ got'[l] = data[j]
    BY <1>1 DEF Look, OnlyBy, ghosts, Typed, TypeOK
  <1>3. /\ Holders(j)' = Holders(j)
        /\ \A b \in Holders(j) :
              /\ b \in Agents /\ job'[b] = job[b] /\ pc'[b] = pc[b]
              /\ got'[b] = got[b]
    BY <1>1, <1>2 DEF Holders, OnlyBy
  <1>4. Unqueued(j)'
    BY <1>1, <1>2 DEF Unqueued
  <1>5. (Sole(j) /\ Known(j) /\ GivenUp(j)) =>
            (Sole(j) /\ Known(j) /\ GivenUp(j))'
    BY <1>2, <1>3 DEF Sole, Known, GivenUp, InTransit, lists
  <1>6. Kept(j) => Kept(j)'
    BY <1>1, <1>2, <1>3 DEF Kept, Waiting, InTransit, OnlyBy, lists
  <1>7. QED BY <1>2, <1>4, <1>5, <1>6 DEF JobInv

(* A job taken from the queue has one holder then: the loop.               *)
LEMMA PopJob ==
    ASSUME Typed, NEW l \in Loops, NEW j \in Jobs, JobInv(j), Pop(l, j)
    PROVE  JobInv(j)'
  <1> USE AgentFacts
  <1>1. /\ data[j] # Absent /\ job[l] = NoJob /\ pc[l] = "scan"
        /\ queue[j] \in Nat /\ processing[j] \in Nat /\ dead[j] \in Nat
        /\ queue[j] > 0
    BY DEF Pop, JobInv, Unqueued, Typed, TypeOK, PlacesOK
  <1>2. /\ queue'[j] = queue[j] - 1 /\ processing'[j] = processing[j] + 1
        /\ UNCHANGED << dead, data, lost, shared >>
        /\ job'[l] = j /\ pc'[l] = "load" /\ got'[l] = got[l] /\ OnlyBy(l)
    BY <1>1, ListFacts DEF Pop, OnlyBy, ghosts, Typed, TypeOK
  <1>3. Unqueued(j)'
    BY <1>1, <1>2 DEF Unqueued
  <1>4. ASSUME j \notin shared
        PROVE  Holders(j) = {} /\ Holders(j)' = {l}
    <2>1. Holders(j) = {}
      BY <1>1, <1>4 DEF JobInv, Sole, Holders, InTransit
    <2>2. QED BY <1>2, <2>1 DEF Holders, OnlyBy
  <1>5. ASSUME j \notin shared
        PROVE  (Sole(j) /\ Known(j) /\ GivenUp(j))'
    <2>1. Sole(j)'
      BY <1>1, <1>2, <1>4, <1>5 DEF JobInv, Sole, InTransit
    <2>2. Known(j)' /\ GivenUp(j)'
      BY <1>2, <1>4, <1>5 DEF JobInv, Known, GivenUp
    <2>3. QED BY <2>1, <2>2
  <1>6. ASSUME j \notin shared \cup lost
        PROVE  Kept(j)'
    BY <1>1, <1>2, <1>4, <1>6
    DEF JobInv, Kept, Waiting, InTransit, OnlyBy
  <1>7. QED BY <1>2, <1>3, <1>5, <1>6 DEF JobInv

(* Only one loop finds a stale job still listed, and becomes its holder.   *)
LEMMA UnlistJob ==
    ASSUME Typed, NEW l \in Loops, NEW j \in Jobs, JobInv(j), job[l] = j,
           Unlist(l)
    PROVE  JobInv(j)'
  <1> USE AgentFacts
  <1>1. /\ data[j] # Absent /\ pc[l] = "stale" /\ l \notin Holders(j)
        /\ queue[j] \in Nat /\ processing[j] \in Nat /\ dead[j] \in Nat
    BY DEF Unlist, Holders, JobInv, Unqueued, Typed, TypeOK
  <1>2. /\ UNCHANGED << queue, dead, data, lost >> /\ OnlyBy(l)
        /\ processing[j] = 0 => processing'[j] = 0
        /\ processing[j] > 0 => processing'[j] = processing[j] - 1
        /\ shared' = IF processing[j] > 0 /\ Holders(j) # {}
                     THEN shared \cup {j} ELSE shared
    <2>1. processing' = Remove(processing, j) /\ processing \in [Jobs -> Nat]
      BY DEF Unlist, Typed, TypeOK
    <2>2. LetGo(l, "scan") \/ (Goto(l, "reset") /\ UNCHANGED got)
      BY DEF Unlist
    <2>3. OnlyBy(l)
      BY <2>2 DEF OnlyBy, Goto, LetGo, Typed, TypeOK
    <2>4. QED BY <2>1, <2>3, ListFacts DEF Unlist
  <1>3. \/ /\ processing[j] > 0 /\ got[l] # Gone
           /\ job'[l] = j /\ pc'[l] = "reset" /\ got'[l] = got[l]
        \/ /\ processing[j] = 0 \/ got[l] = Gone
           /\ job'[l] = NoJob /\ pc'[l] = "scan"
    BY <1>1 DEF Unlist, Goto, LetGo, Typed, TypeOK
  <1>4. Unqueued(j)'
    BY <1>1, <1>2 DEF Unqueued
  <1>5. CASE processing[j] = 0
    <2>1. /\ Holders(j)' = Holders(j)
          /\ \A b \in Holders(j) :
                /\ b \in Agents /\ job'[b] = job[b] /\ pc'[b] = pc[b]
                /\ got'[b] = got[b]
      BY <1>1, <1>2, <1>3, <1>5 DEF Holders, OnlyBy
    <2>2. (Sole(j) /\ Known(j) /\ GivenUp(j)) =>
              (Sole(j) /\ Known(j) /\ GivenUp(j))'
      BY <1>2, <1>5, <2>1 DEF Sole, Known, GivenUp, InTransit
    <2>3. Kept(j) => Kept(j)'
      BY <1>2, <1>3, <1>5, <2>1 DEF Kept, Waiting, InTransit, OnlyBy
    <2>4. QED BY <1>2, <1>4, <1>5, <2>2, <2>3 DEF JobInv
  <1>6. CASE processing[j] > 0 /\ Holders(j) = {}
    <2>1. Holders(j)' = IF got[l] # Gone THEN {l} ELSE {}
      BY <1>2, <1>3, <1>6 DEF Holders, OnlyBy
    <2>2. (Sole(j) /\ Known(j) /\ GivenUp(j)) =>
              (Sole(j) /\ Known(j) /\ GivenUp(j))'
      <3>1. Sole(j) => Sole(j)'
        <4>1. /\ queue'[j] = queue[j] /\ dead'[j] = dead[j]
              /\ processing'[j] = processing[j] - 1
          BY <1>2, <1>6
        <4>2. \A a \in Holders(j)' : a = l /\ InTransit(a)'
          BY <1>3, <1>6, <2>1 DEF InTransit
        <4>3. QED BY <1>1, <1>6, <4>1, <4>2 DEF Sole
      <3>2. Known(j)'
        <4>1. \A a \in Holders(j)' : a = l /\ pc'[l] = "reset" /\ got'[l] # Gone
          BY <1>3, <1>6, <2>1
        <4>2. QED BY <4>1 DEF Known
      <3>3. GivenUp(j) => GivenUp(j)'
        BY <1>2 DEF GivenUp
      <3>4. QED BY <3>1, <3>2, <3>3
    <2>3. Kept(j) => Kept(j)'
      BY <1>1, <1>2, <1>3, <1>6, <2>1
      DEF Kept, Waiting, InTransit, OnlyBy
    <2>4. QED BY <1>2, <1>4, <1>6, <2>2, <2>3 DEF JobInv
  <1>7. CASE processing[j] > 0 /\ Holders(j) # {}
    BY <1>2, <1>4, <1>7 DEF JobInv
  <1>8. QED BY <1>1, <1>5, <1>6, <1>7

(* The loop hands its job to a task, which is its one holder then.         *)
LEMMA SpawnJob ==
    ASSUME Typed, NEW l \in Loops, NEW t \in Tasks, NEW j \in Jobs, JobInv(j),
           job[l] = j, Spawn(l, t)
    PROVE  JobInv(j)'
  <1> USE AgentFacts
  <1>1. /\ data[j] # Absent /\ pc[l] = "spawn" /\ pc[t] = "idle" /\ job[t] = NoJob
        /\ l # t /\ l \in Holders(j)
    BY DEF Spawn, Holders, JobInv, Unqueued, Typed, TypeOK, PlacesOK
  <1>2. /\ UNCHANGED << lists, data, lost, shared >>
        /\ job' = [job EXCEPT ![l] = NoJob, ![t] = j]
        /\ pc' = [pc EXCEPT ![l] = "idle", ![t] = "run"]
        /\ got' = [got EXCEPT ![l] = Absent]
    BY DEF Spawn
  <1>3. /\ job'[l] = NoJob /\ job'[t] = j /\ pc'[t] = "run"
        /\ \A b \in Agents : b # l /\ b # t =>
              job'[b] = job[b] /\ pc'[b] = pc[b] /\ got'[b] = got[b]
    BY <1>1, <1>2 DEF Typed, TypeOK
  <1>4. Unqueued(j)'
    BY <1>1, <1>2 DEF Unqueued
  <1>5. ASSUME j \notin shared
        PROVE  Holders(j)' = {t} /\ Holders(j) = {l}
    <2>1. \A b \in Holders(j) : b = l
      BY <1>1, <1>5 DEF JobInv, Sole
    <2>2. QED BY <1>1, <1>3, <2>1 DEF Holders
  <1>6. ASSUME j \notin shared
        PROVE  (Sole(j) /\ Known(j) /\ GivenUp(j))'
    <2>1. Sole(j)'
      BY <1>1, <1>2, <1>3, <1>5, <1>6 DEF JobInv, Sole, InTransit, lists
    <2>2. Known(j)' /\ GivenUp(j)'
      BY <1>1, <1>2, <1>3, <1>5, <1>6 DEF JobInv, Known, GivenUp, lists
    <2>3. QED BY <2>1, <2>2
  <1>7. ASSUME j \notin shared \cup lost
        PROVE  Kept(j)'
    <2>1. Kept(j) /\ data[j] # Gone /\ ~InTransit(l)
      BY <1>1, <1>7 DEF JobInv, Kept, InTransit
    <2>2. Waiting(j)' => queue'[j] + processing'[j] > 0
      BY <1>2, <1>5, <1>7, <2>1 DEF Kept, Waiting, lists
    <2>3. \A b \in Agents :
              ~ (job'[b] = j /\ pc'[b] = "stale" /\ got'[b] = Gone)
      BY <1>3, <2>1 DEF Kept
    <2>4. data'[j] # Gone
      BY <1>2, <2>1
    <2>5. QED BY <2>2, <2>3, <2>4 DEF Kept
  <1>8. QED BY <1>2, <1>4, <1>6, <1>7 DEF JobInv

(* Enqueueing, ageing and expiry keep the invariant of the job.            *)
LEMMA AroundJob ==
    ASSUME Typed, NEW j \in Jobs, JobInv(j), Enqueue(j) \/ Age(j) \/ Expire(j)
    PROVE  JobInv(j)'
  <1>1. /\ data[j] \in Records
        /\ queue[j] \in Nat /\ processing[j] \in Nat /\ dead[j] \in Nat
        /\ \A a \in Agents : got[a] \in Records
    BY DEF Typed, TypeOK
  <1>2. CASE Enqueue(j)
    <2>1. /\ queue[j] = 0 /\ processing[j] = 0 /\ dead[j] = 0
          /\ \A a \in Agents : job[a] # j
      BY <1>2 DEF Enqueue, JobInv, Unqueued
    <2>2. /\ queue'[j] = 1 /\ UNCHANGED << processing, dead, agentVars, shared >>
          /\ data'[j] \in Records \ {Absent, Gone}
      BY <1>2, <2>1, RecordFacts, ListFacts
      DEF Enqueue, ghosts, Typed, TypeOK
    <2>3. Holders(j)' = {} /\ \A a \in Agents : job'[a] # j
      BY <2>1, <2>2 DEF Holders, agentVars
    <2>4. QED
      BY <2>1, <2>2, <2>3
      DEF JobInv, Unqueued, Sole, Known, GivenUp, Kept, Waiting
  <1>3. CASE Age(j)
    <2>1. /\ data'[j] = Aged(data[j])
          /\ UNCHANGED << lists, job, pc, shared, lost, todo, runs >>
          /\ \A a \in Agents : job[a] = j => got'[a] = Aged(got[a])
      BY <1>3 DEF Age, Typed, TypeOK
    <2>2. /\ data'[j].status = data[j].status
          /\ data'[j].attempts = data[j].attempts
          /\ data'[j] = Gone <=> data[j] = Gone
          /\ data'[j] = Absent <=> data[j] = Absent
          /\ \A a \in Agents : job[a] = j => (got'[a] = Gone <=> got[a] = Gone)
      BY <1>1, <2>1, AgedRecord
    <2>3. Holders(j)' = Holders(j)
      BY <2>1 DEF Holders
    <2>4. \A a \in Holders(j) : a \in Agents /\ job[a] = j
      BY DEF Holders
    <2>5. Unqueued(j)'
      BY <2>1, <2>2 DEF JobInv, Unqueued, lists
    <2>6. Sole(j) => Sole(j)'
      BY <2>1, <2>3 DEF Sole, InTransit, lists
    <2>7. Known(j) => Known(j)'
      BY <2>1, <2>2, <2>3, <2>4 DEF Known
    <2>8. GivenUp(j) => GivenUp(j)'
      BY <2>1, <2>2 DEF GivenUp, lists
    <2>9. Kept(j) => Kept(j)'
      BY <2>1, <2>2, <2>3 DEF Kept, Waiting, InTransit, lists
    <2>10. QED BY <2>1, <2>5, <2>6, <2>7, <2>8, <2>9 DEF JobInv
  <1>4. CASE Expire(j)
    <2>1. /\ data'[j] = Gone /\ Holders(j) = {}
          /\ UNCHANGED << lists, agentVars, shared >>
          /\ lost' = IF queue[j] + processing[j] > 0 THEN lost \cup {j} ELSE lost
      BY <1>4 DEF Expire, Typed, TypeOK
    <2>2. Holders(j)' = {}
      BY <2>1 DEF Holders, agentVars
    <2>3. QED
      BY <1>1, <2>1, <2>2, RecordFacts
      DEF JobInv, Unqueued, Sole, Known, GivenUp, Kept, Waiting, Gone, lists
  <1>5. QED BY <1>2, <1>3, <1>4

(* Every step keeps what the invariants say of every job.                  *)
LEMMA JobInvStep ==
    ASSUME Typed, \A j \in Jobs : JobInv(j), [Next]_vars, NEW i \in Jobs
    PROVE  JobInv(i)'
  <1> USE AgentFacts
  <1>1. CASE UNCHANGED vars
    <2>1. Untouched(i)
      BY <1>1 DEF Untouched, vars, lists, agentVars, ghosts
    <2>2. QED BY <2>1, UntouchedJob
  <1>2. ASSUME NEW j \in Jobs, Enqueue(j) \/ Age(j) \/ Expire(j)
        PROVE  JobInv(i)'
    BY <1>2, AroundJob, AroundTouches, UntouchedJob
  <1>3. ASSUME NEW l \in Loops, Loop(l) \/ \E j \in Jobs : Pop(l, j)
        PROVE  JobInv(i)'
    <2>1. CASE i # job[l] /\ i # job'[l]
      BY <1>3, <2>1, LoopTouches, UntouchedJob
    <2>2. CASE job[l] = i \/ job'[l] = i
      <3>1. CASE Scan(l) \/ PopNothing(l)
        <4>1. UNCHANGED job /\ job[l] = NoJob
          BY <3>1 DEF Scan, PopNothing, Goto, Typed, PlacesOK
        <4>2. QED BY <1>3, <2>1, <4>1
      <3>2. CASE \/ Reset(l) \/ PushBack(l) \/ Load(l) \/ Drop(l) \/ Stamp(l)
        <4>1. job[l] = i /\ pc[l] # "stale"
          BY <2>2, <3>2 DEF Reset, PushBack, Load, Drop, Stamp, Goto, LetGo,
             Typed, TypeOK
        <4>2. QED BY <3>2, <4>1, LoopHolder DEF Holds
      <3>3. CASE Unlist(l)
        <4>1. job[l] = i
          BY <2>2, <3>3 DEF Unlist, Goto, LetGo, Typed, TypeOK
        <4>2. QED BY <3>3, <4>1, UnlistJob
      <3>4. ASSUME NEW j \in Jobs, Look(l, j)
            PROVE  JobInv(i)'
        <4>1. i = j
          BY <2>2, <3>4 DEF Look, Typed, TypeOK, PlacesOK
        <4>2. QED BY <3>4, <4>1, LookJob
      <3>5. ASSUME NEW j \in Jobs, Pop(l, j)
            PROVE  JobInv(i)'
        <4>1. i = j
          BY <2>2, <3>5 DEF Pop, Typed, TypeOK, PlacesOK
        <4>2. QED BY <3>5, <4>1, PopJob
      <3>6. ASSUME NEW t \in Tasks, Spawn(l, t)
            PROVE  JobInv(i)'
        <4>1. job'[l] = NoJob
          BY <3>6 DEF Spawn, Typed, TypeOK
        <4>2. QED BY <2>2, <3>6, <4>1, SpawnJob
      <3>7. QED
        BY <1>3, <3>1, <3>2, <3>3, <3>4, <3>5, <3>6 DEF Loop
    <2>3. QED BY <2>1, <2>2
  <1>4. ASSUME NEW t \in Tasks, Task(t)
        PROVE  JobInv(i)'
    BY <1>4, TaskHolder, TaskTouches, UntouchedJob
  <1>5. ASSUME NEW a \in Agents, Abort(a)
        PROVE  JobInv(i)'
    BY <1>5, AbortJob, AbortTouches, UntouchedJob
  <1>6. QED BY <1>1, <1>2, <1>3, <1>4, <1>5 DEF Next

-----------------------------------------------------------------------------
(* The same steps with one server: stamps and budgets.                     *)

(* The holders stay as they are, and no loop comes to recover the job.     *)
LEMMA ServerStays ==
    ASSUME Typed, NEW j \in Jobs, ServerJobInv(j), Holders(j)' = Holders(j),
           \A b \in Holders(j) : pc'[b] = pc[b] /\ got'[b] = got[b],
           data'[j] = data[j], runs'[j] = runs[j],
           queue'[j] = queue[j], processing'[j] = processing[j],
           shared' = shared, overran' = overran,
           faults' \in {faults, faults + 1},
           \A l \in Loops : job'[l] = j /\ pc'[l] = "stale" =>
               job[l] = j /\ pc[l] = "stale" /\ got'[l] = got[l]
    PROVE  ServerJobInv(j)'
  <1>1. Stamped(j) => Stamped(j)'
    BY DEF Stamped
  <1>2. Budget(j) => Budget(j)'
    BY BudgetNumbers, AgentFacts DEF Budget, Running, Holders
  <1>3. QED BY <1>1, <1>2 DEF ServerJobInv

(* A holder that dies leaves its job listed, or it costs a fault.          *)
LEMMA AbortServer ==
    ASSUME SoleServer, Typed, NEW a \in Agents, NEW j \in Jobs, JobInv(j),
           ServerJobInv(j), job[a] = j, Abort(a)
    PROVE  ServerJobInv(j)'
  <1>1. /\ j # NoJob /\ job'[a] = NoJob /\ pc'[a] = "idle" /\ OnlyBy(a)
        /\ UNCHANGED << lists, data, runs, overran, shared >>
        /\ faults' = faults + 1
    BY AgentFacts DEF Abort, LetGo, OnlyBy, Typed, TypeOK
  <1>2. CASE Holds(a, j)
    <2>1. StampedAt(a, j)'
      BY <1>1 DEF StampedAt, Holds
    <2>2. ASSUME HolderAt(a, j), BudgetAt(a, j) PROVE BudgetAt(a, j)'
      <3>1. ~Holds(a, j)'
        BY <1>1 DEF Holds
      <3>2. queue[j] + processing[j] > 0 /\ data[j] # Gone =>
                runs[j] <= Before(data[j]) + faults + 1
        <4> SUFFICES ASSUME queue[j] + processing[j] > 0, data[j] # Gone
                     PROVE  runs[j] <= Before(data[j]) + faults + 1
          OBVIOUS
        <4>1. ~InTransit(a)
          BY <1>2, <2>2, BudgetNumbers DEF HolderAt
        <4>2. After(data[j]) <= Before(data[j]) + 1
          BY BudgetNumbers DEF After, Before, Records
        <4>3. pc[a] \in {"load", "drop", "stamp", "spawn", "unlist_failed"}
                 \/ Running(a)
          BY <1>2, <4>1, AgentFacts
          DEF InTransit, Running, Holds, Typed, PlacesOK
        <4>4. pc[a] # "drop"
          BY <1>2, <2>2 DEF HolderAt
        <4>5. QED
          BY <1>2, <2>2, <4>2, <4>3, <4>4, BudgetNumbers DEF BudgetAt
      <3>3. QED BY <1>1, <2>2, <3>1, <3>2, BudgetNumbers DEF BudgetAt, lists
    <2>3. processing'[j] > 0 => processing[j] > 0
      BY <1>1 DEF lists
    <2>4. QED
      BY <1>1, <1>2, <2>1, <2>2, <2>3, ServerMove
  <1>3. CASE ~Holds(a, j)
    <2>1. /\ Holders(j)' = Holders(j)
          /\ \A b \in Holders(j) : pc'[b] = pc[b] /\ got'[b] = got[b]
          /\ \A l \in Loops : job'[l] = j /\ pc'[l] = "stale" =>
               job[l] = j /\ pc[l] = "stale" /\ got'[l] = got[l]
      BY <1>1, <1>3, AgentFacts DEF Holders, Holds, OnlyBy
    <2>2. QED BY <1>1, <2>1, ServerStays DEF lists
  <1>4. QED BY <1>2, <1>3

(* A look at a listed job decides on its record: stale after the timeout    *)
(* only.                                                                   *)
LEMMA LookServer ==
    ASSUME SoleServer, Typed, NEW l \in Loops, NEW j \in Jobs, JobInv(j),
           ServerJobInv(j), Look(l, j)
    PROVE  ServerJobInv(j)'
  <1>1. job[l] = NoJob /\ pc[l] = "scan" /\ j # NoJob /\ l \in Agents
    BY AgentFacts DEF Look, Typed, TypeOK, PlacesOK
  <1>2. UNCHANGED << lists, data, ghosts >> /\ OnlyBy(l)
    BY DEF Look, OnlyBy, Typed, TypeOK
  <1>3. CASE UNCHANGED << job, got, pc >>
    <2>1. Holders(j)' = Holders(j)
      BY <1>3 DEF Holders
    <2>2. QED BY <1>2, <1>3, <2>1, ServerStays DEF lists, ghosts
  <1>4. CASE /\ Stale(data[j]) /\ job'[l] = j /\ got'[l] = data[j]
             /\ pc'[l] = "stale"
    <2>1. /\ Holders(j)' = Holders(j)
          /\ \A b \in Holders(j) :
                /\ b \in Tasks /\ job[b] = j
                /\ pc'[b] = pc[b] /\ got'[b] = got[b]
      BY <1>1, <1>2, <1>4, AgentFacts DEF Holders, OnlyBy, SoleServer
    <2>2. \A m \in Loops : m = l
      BY DEF SoleServer
    <2>3. ASSUME j \notin overran
          PROVE  Stamped(j)'
      <3>1. Holders(j) = {}
        BY <1>4, <2>1, <2>3 DEF ServerJobInv, Stamped, Stale
      <3>2. QED BY <2>1, <3>1 DEF Stamped
    <2>4. ASSUME j \notin shared
          PROVE  Budget(j)'
      <3>1. Budget(j)
        BY <2>4 DEF ServerJobInv
      <3>2. ASSUME data[j] # Gone, processing[j] > 0
            PROVE  runs[j] <= Before(data[j]) + faults
                              + (IF Holders(j) = {} THEN 0 ELSE 1)
        <4>1. CASE Holders(j) = {}
          BY <3>1, <3>2, <4>1, BudgetNumbers DEF Budget
        <4>2. ASSUME NEW b \in Holders(j)
              PROVE  runs[j] <= Before(data[j]) + faults + 1
          <5>1. After(data[j]) <= Before(data[j]) + 1
            BY BudgetNumbers DEF After, Before, Records
          <5>2. Running(b) \/ pc[b] \in {"unlist_failed", "requeue"}
            BY <2>1, <4>2, AgentFacts DEF Running, Typed, PlacesOK
          <5>3. QED BY <3>1, <4>2, <5>1, <5>2, BudgetNumbers DEF Budget
        <4>3. QED BY <4>1, <4>2, BudgetNumbers
      <3>3. QED
        BY <1>2, <1>4, <2>1, <2>2, <3>1, <3>2
        DEF Budget, Running, lists, ghosts
    <2>5. QED BY <1>2, <2>3, <2>4 DEF ServerJobInv, ghosts
  <1>5. QED
    BY <1>1, <1>3, <1>4 DEF Look, Typed, TypeOK

(* Taking a job from the queue keeps what a single server relies on,       *)
LEMMA PopServer ==
    ASSUME SoleServer, Typed, NEW l \in Loops, NEW j \in Jobs, JobInv(j),
           ServerJobInv(j), Pop(l, j)
    PROVE  ServerJobInv(j)'
  <1>1. /\ queue[j] \in Nat /\ processing[j] \in Nat /\ dead[j] \in Nat
        /\ queue[j] > 0 /\ pc[l] = "scan" /\ l \in Agents
        /\ \A m \in Loops : m = l
    BY AgentFacts DEF Pop, SoleServer, Typed, TypeOK
  <1>2. /\ UNCHANGED << data, ghosts >>
        /\ job'[l] = j /\ pc'[l] = "load" /\ OnlyBy(l)
    BY <1>1 DEF Pop, OnlyBy, Typed, TypeOK
  <1>3. ASSUME j \notin shared
        PROVE  Holders(j) = {} /\ Holders(j)' = {l}
    <2>1. Holders(j) = {}
      BY <1>1, <1>3 DEF JobInv, Sole, Holders, InTransit
    <2>2. QED BY <1>1, <1>2, <2>1 DEF Holders, OnlyBy
  <1>4. ASSUME j \notin overran
        PROVE  Stamped(j)'
    BY <1>1, <1>2, <1>3, <1>4, AgentFacts DEF ServerJobInv, Stamped
  <1>5. ASSUME j \notin shared
        PROVE  Budget(j)'
    <2>1. Budget(j) /\ Holders(j) = {} /\ Holders(j)' = {l}
      BY <1>3, <1>5 DEF ServerJobInv
    <2>2. runs[j] <= MaxRetries + faults
      BY <2>1 DEF Budget
    <2>3. data[j] # Gone => runs[j] <= Before(data[j]) + faults
      BY <1>1, <2>1 DEF Budget
    <2>4. QED
      BY <1>1, <1>2, <2>1, <2>2, <2>3 DEF Budget, Running, ghosts
  <1>6. QED BY <1>2, <1>4, <1>5 DEF ServerJobInv, ghosts

(* so does taking a stale one off the list,                                *)
LEMMA UnlistServer ==
    ASSUME SoleServer, Typed, NEW l \in Loops, NEW j \in Jobs, JobInv(j),
           ServerJobInv(j), job[l] = j, Unlist(l)
    PROVE  ServerJobInv(j)'
  <1>1. /\ pc[l] = "stale" /\ l \in Agents /\ l \notin Holders(j) /\ j # NoJob
        /\ queue[j] \in Nat /\ processing[j] \in Nat /\ dead[j] \in Nat
        /\ \A m \in Loops : m = l
    BY AgentFacts DEF Unlist, Holders, SoleServer, Typed, TypeOK
  <1>2. /\ UNCHANGED << queue, dead, data, runs, overran, lost, faults >>
        /\ OnlyBy(l)
        /\ processing[j] = 0 => processing'[j] = 0
        /\ processing[j] > 0 => processing'[j] = processing[j] - 1
        /\ shared' = IF processing[j] > 0 /\ Holders(j) # {}
                     THEN shared \cup {j} ELSE shared
    <2>1. processing' = Remove(processing, j) /\ processing \in [Jobs -> Nat]
      BY DEF Unlist, Typed, TypeOK
    <2>2. LetGo(l, "scan") \/ (Goto(l, "reset") /\ UNCHANGED got)
      BY DEF Unlist
    <2>3. OnlyBy(l)
      BY <2>2 DEF OnlyBy, Goto, LetGo, Typed, TypeOK
    <2>4. QED BY <2>1, <2>3, ListFacts DEF Unlist
  <1>3. \/ /\ processing[j] > 0 /\ got[l] # Gone
           /\ job'[l] = j /\ pc'[l] = "reset" /\ got'[l] = got[l]
        \/ /\ processing[j] = 0 \/ got[l] = Gone
           /\ job'[l] = NoJob /\ pc'[l] = "scan"
    BY <1>1 DEF Unlist, Goto, LetGo, Typed, TypeOK
  <1>4. CASE processing[j] = 0
    <2>1. /\ Holders(j)' = Holders(j)
          /\ \A b \in Holders(j) : pc'[b] = pc[b] /\ got'[b] = got[b]
          /\ \A m \in Loops : ~ (job'[m] = j /\ pc'[m] = "stale")
      BY <1>1, <1>2, <1>3, <1>4 DEF Holders, OnlyBy
    <2>2. QED BY <1>2, <1>4, <2>1, ServerStays
  <1>5. CASE processing[j] > 0 /\ Holders(j) = {}
    <2>1. /\ Holders(j)' = IF got[l] # Gone THEN {l} ELSE {}
          /\ \A m \in Loops : ~ (job'[m] = j /\ pc'[m] = "stale")
      BY <1>1, <1>2, <1>3, <1>5 DEF Holders, OnlyBy
    <2>2. Stamped(j)'
      BY <1>1, <1>3, <1>5, <2>1, AgentFacts DEF Stamped
    <2>3. ASSUME j \notin shared
          PROVE  Budget(j)'
      <3>1. Budget(j)
        BY <2>3 DEF ServerJobInv
      <3>2. got[l] # Gone => runs[j] <= Before(got[l]) + faults
        BY <1>1, <1>5, <3>1, BudgetNumbers DEF Budget
      <3>3. queue'[j] + processing'[j] = 0
        BY <1>1, <1>2, <1>5, <2>3 DEF JobInv, Sole
      <3>4. runs[j] <= MaxRetries + faults
        BY <3>1 DEF Budget
      <3>5. \A a \in Holders(j)' :
                a = l /\ got[l] # Gone /\ pc'[l] = "reset" /\ got'[l] = got[l]
        BY <1>3, <1>5, <2>1
      <3>6. QED
        BY <1>2, <2>1, <3>2, <3>3, <3>4, <3>5 DEF Budget, Running
    <2>4. QED BY <1>2, <1>5, <2>2, <2>3 DEF ServerJobInv
  <1>6. CASE processing[j] > 0 /\ Holders(j) # {}
    <2>1. j \in overran
      BY <1>1, <1>6 DEF ServerJobInv, Stamped
    <2>2. QED BY <1>2, <1>6, <2>1 DEF ServerJobInv
  <1>7. QED BY <1>1, <1>4, <1>5, <1>6

(* handing it to a task,                                                   *)
LEMMA SpawnServer ==
    ASSUME SoleServer, Typed, NEW l \in Loops, NEW t \in Tasks, NEW j \in Jobs,
           JobInv(j), ServerJobInv(j), job[l] = j, Spawn(l, t)
    PROVE  ServerJobInv(j)'
  <1>1. /\ pc[l] = "spawn" /\ l # t /\ l \in Holders(j) /\ j # NoJob
        /\ t \in Agents /\ l \in Agents /\ \A m \in Loops : m = l
    BY AgentFacts DEF Spawn, Holders, SoleServer
  <1>2. /\ UNCHANGED << lists, data, overran, shared, lost, faults >>
        /\ job' = [job EXCEPT ![l] = NoJob, ![t] = j]
        /\ pc' = [pc EXCEPT ![l] = "idle", ![t] = "run"]
        /\ runs'[j] = runs[j] + 1
    BY DEF Spawn, Typed, TypeOK
  <1>3. /\ job'[l] = NoJob /\ job'[t] = j /\ pc'[t] = "run"
        /\ \A b \in Agents : b # l /\ b # t =>
              job'[b] = job[b] /\ pc'[b] = pc[b]
    BY <1>1, <1>2 DEF Typed, TypeOK
  <1>4. ASSUME j \notin shared
        PROVE  Holders(j)' = {t} /\ Holders(j) = {l}
    <2>1. \A b \in Holders(j) : b = l
      BY <1>1, <1>4 DEF JobInv, Sole
    <2>2. QED BY <1>1, <1>3, <2>1 DEF Holders
  <1>5. \A m \in Loops : job'[m] # j
    BY <1>1, <1>3
  <1>6. ASSUME j \notin overran
        PROVE  Stamped(j)'
    <2>1. data[j].started = "recent"
      BY <1>1, <1>6 DEF ServerJobInv, Stamped
    <2>2. QED BY <1>2, <1>5, <2>1 DEF Stamped
  <1>7. ASSUME j \notin shared
        PROVE  Budget(j)'
    <2>1. data[j] # Gone
      BY <1>1, <1>7 DEF JobInv, Known
    <2>2. runs[j] <= Before(data[j]) + faults
      BY <1>1, <1>7, <2>1 DEF ServerJobInv, Budget
    <2>3. Before(data[j]) + 1 <= MaxRetries
      BY BudgetNumbers DEF Before, Records
    <2>4. /\ runs'[j] <= MaxRetries + faults'
          /\ runs'[j] <= Before(data'[j]) + 1 + faults'
      BY <1>2, <2>2, <2>3, BudgetNumbers
    <2>5. QED
      BY <1>3, <1>4, <1>5, <1>7, <2>4 DEF Budget
  <1>8. QED BY <1>2, <1>6, <1>7 DEF ServerJobInv

(* and enqueueing, ageing and expiry.                                      *)
LEMMA AroundServer ==
    ASSUME Typed, NEW j \in Jobs, JobInv(j), ServerJobInv(j),
           Enqueue(j) \/ Age(j) \/ Expire(j)
    PROVE  ServerJobInv(j)'
  <1>1. CASE Enqueue(j)
    <2>1. runs[j] = 0 /\ \A a \in Agents : job[a] # j
      BY <1>1 DEF Enqueue, JobInv, Unqueued
    <2>2. /\ UNCHANGED << agentVars, ghosts >>
          /\ data'[j] \in Records
      BY <1>1, RecordFacts DEF Enqueue, Typed, TypeOK
    <2>3. Holders(j)' = {} /\ \A a \in Agents : job'[a] # j
      BY <2>1, <2>2 DEF Holders, agentVars
    <2>4. Before(data'[j]) \in Nat
      BY <2>2, BudgetNumbers
    <2>5. Stamped(j)'
      BY <2>3, AgentFacts DEF Stamped
    <2>6. Budget(j)'
      BY <2>1, <2>2, <2>3, <2>4, BudgetNumbers, AgentFacts DEF Budget, ghosts
    <2>7. QED BY <2>2, <2>5, <2>6 DEF ServerJobInv, ghosts
  <1>2. CASE Age(j)
    <2>1. /\ data'[j] = Aged(data[j])
          /\ UNCHANGED << lists, job, pc, shared, runs >>
          /\ \A a \in Agents : job[a] = j => got'[a] = Aged(got[a])
          /\ overran' = IF Holders(j) # {} THEN overran \cup {j} ELSE overran
          /\ faults' \in {faults, faults + 1}
      BY <1>2 DEF Age, Typed, TypeOK
    <2>2. /\ Before(data'[j]) = Before(data[j]) /\ After(data'[j]) = After(data[j])
          /\ data'[j] = Gone <=> data[j] = Gone
          /\ \A a \in Agents : job[a] = j =>
                /\ got'[a] = Gone <=> got[a] = Gone
                /\ Before(got'[a]) = Before(got[a])
      BY <2>1, AgedRecord, BudgetNumbers DEF Before, After
    <2>3. /\ Holders(j)' = Holders(j)
          /\ \A a \in Holders(j) : a \in Agents /\ job[a] = j /\ pc'[a] = pc[a]
      BY <2>1 DEF Holders
    <2>4. ASSUME j \notin overran'
          PROVE  Stamped(j)'
      BY <2>1, <2>3, <2>4 DEF Stamped
    <2>5. ASSUME j \notin shared
          PROVE  Budget(j)'
      <3>1. Budget(j)
        BY <2>5 DEF ServerJobInv
      <3>2. /\ runs'[j] <= MaxRetries + faults'
            /\ \A a \in Holders(j) :
                  /\ Running(a) => runs'[j] <= Before(data'[j]) + 1 + faults'
                  /\ pc[a] \in {"unlist_failed", "requeue"} =>
                        runs'[j] <= After(data'[j]) + faults'
                  /\ pc[a] \in {"load", "stamp", "spawn", "push"}
                        /\ data'[j] # Gone =>
                        runs'[j] <= Before(data'[j]) + faults'
                  /\ pc[a] = "reset" => runs'[j] <= Before(got'[a]) + faults'
        BY <2>1, <2>2, <2>3, <3>1, BudgetNumbers DEF Budget
      <3>3. Holders(j) = {} /\ queue[j] + processing[j] > 0 /\ data'[j] # Gone =>
                runs'[j] <= Before(data'[j]) + faults'
        BY <2>1, <2>2, <3>1, BudgetNumbers DEF Budget
      <3>4. \A l \in Loops :
                job[l] = j /\ pc[l] = "stale" /\ got'[l] # Gone
                   /\ processing[j] > 0 =>
                    runs'[j] <= Before(got'[l]) + faults'
                               + (IF Holders(j) = {} THEN 0 ELSE 1)
        BY <2>1, <2>2, <3>1, BudgetNumbers, AgentFacts DEF Budget
      <3>5. QED
        BY <2>1, <2>3, <3>2, <3>3, <3>4 DEF Budget, Running, lists
    <2>6. QED BY <2>1, <2>4, <2>5 DEF ServerJobInv
  <1>3. CASE Expire(j)
    <2>1. /\ data'[j] = Gone /\ Holders(j) = {}
          /\ UNCHANGED << lists, agentVars, shared, overran, runs >>
          /\ faults' \in {faults, faults + 1}
      BY <1>3 DEF Expire, Typed, TypeOK
    <2>2. Holders(j)' = {}
      BY <2>1 DEF Holders, agentVars
    <2>3. Stamped(j)'
      BY <2>2 DEF Stamped
    <2>4. Budget(j) => Budget(j)'
      BY <2>1, <2>2, BudgetNumbers, AgentFacts DEF Budget, lists, agentVars
    <2>5. QED BY <2>1, <2>3, <2>4 DEF ServerJobInv
  <1>4. QED BY <1>1, <1>2, <1>3

(* With one server, every step keeps the stamps and budgets as well.       *)
LEMMA ServerStep ==
    ASSUME SoleServer, Typed, \A j \in Jobs : JobInv(j) /\ ServerJobInv(j),
           [Next]_vars, NEW i \in Jobs
    PROVE  ServerJobInv(i)'
  <1> USE AgentFacts
  <1>1. CASE UNCHANGED vars
    <2>1. Untouched(i)
      BY <1>1 DEF Untouched, vars, lists, agentVars, ghosts
    <2>2. QED BY <2>1, UntouchedServer
  <1>2. ASSUME NEW j \in Jobs, Enqueue(j) \/ Age(j) \/ Expire(j)
        PROVE  ServerJobInv(i)'
    BY <1>2, AroundServer, AroundTouches, UntouchedServer
  <1>3. ASSUME NEW l \in Loops, Loop(l) \/ \E j \in Jobs : Pop(l, j)
        PROVE  ServerJobInv(i)'
    <2>1. CASE i # job[l] /\ i # job'[l]
      BY <1>3, <2>1, LoopTouches, UntouchedServer
    <2>2. CASE job[l] = i \/ job'[l] = i
      <3>1. CASE Scan(l) \/ PopNothing(l)
        <4>1. UNCHANGED job /\ job[l] = NoJob
          BY <3>1 DEF Scan, PopNothing, Goto, Typed, PlacesOK
        <4>2. QED BY <1>3, <2>1, <4>1
      <3>2. CASE \/ Reset(l) \/ PushBack(l) \/ Load(l) \/ Drop(l) \/ Stamp(l)
        <4>1. job[l] = i /\ pc[l] # "stale"
          BY <2>2, <3>2 DEF Reset, PushBack, Load, Drop, Stamp, Goto, LetGo,
             Typed, TypeOK
        <4>2. QED BY <3>2, <4>1, LoopHolder DEF Holds
      <3>3. CASE Unlist(l)
        <4>1. job[l] = i
          BY <2>2, <3>3 DEF Unlist, Goto, LetGo, Typed, TypeOK
        <4>2. QED BY <3>3, <4>1, UnlistServer
      <3>4. ASSUME NEW j \in Jobs, Look(l, j)
            PROVE  ServerJobInv(i)'
        <4>1. i = j
          BY <2>2, <3>4 DEF Look, Typed, TypeOK, PlacesOK
        <4>2. QED BY <3>4, <4>1, LookServer
      <3>5. ASSUME NEW j \in Jobs, Pop(l, j)
            PROVE  ServerJobInv(i)'
        <4>1. i = j
          BY <2>2, <3>5 DEF Pop, Typed, TypeOK, PlacesOK
        <4>2. QED BY <3>5, <4>1, PopServer
      <3>6. ASSUME NEW t \in Tasks, Spawn(l, t)
            PROVE  ServerJobInv(i)'
        <4>1. job'[l] = NoJob
          BY <3>6 DEF Spawn, Typed, TypeOK
        <4>2. QED BY <2>2, <3>6, <4>1, SpawnServer
      <3>7. QED
        BY <1>3, <3>1, <3>2, <3>3, <3>4, <3>5, <3>6 DEF Loop
    <2>3. QED BY <2>1, <2>2
  <1>4. ASSUME NEW t \in Tasks, Task(t)
        PROVE  ServerJobInv(i)'
    BY <1>4, TaskHolder, TaskTouches, UntouchedServer
  <1>5. ASSUME NEW a \in Agents, Abort(a)
        PROVE  ServerJobInv(i)'
    BY <1>5, AbortServer, AbortTouches, UntouchedServer
  <1>6. QED BY <1>1, <1>2, <1>3, <1>4, <1>5 DEF Next

-----------------------------------------------------------------------------
(* The invariants.                                                         *)

(* IInv, job by job.                                                       *)
LEMMA JobByJob ==
    ASSUME TypeOK
    PROVE  /\ IInv <=> Typed /\ \A j \in Jobs : JobInv(j)
           /\ ServerInv <=> \A j \in Jobs : ServerJobInv(j)
  <1>1. shared \in SUBSET Jobs
    BY DEF TypeOK
  <1>2. QED
    BY <1>1 DEF IInv, Typed, JobInv, ServerInv, ServerJobInv,
       RecoveredAfterTimeout

(* Nothing is queued, and nobody has a job, at the start.                  *)
LEMMA InitHolds ==
    Init => IInv /\ ServerInv
  <1> SUFFICES ASSUME Init PROVE IInv /\ ServerInv
    OBVIOUS
  <1>1. TypeOK /\ PlacesOK
    BY AgentFacts, RecordFacts DEF Init, TypeOK, PlacesOK, Places, Nothing
  <1>2. \A j \in Jobs : Holders(j) = {} /\ \A a \in Agents : job[a] # j
    BY AgentFacts DEF Init, Holders
  <1>3. ASSUME NEW j \in Jobs
        PROVE  JobInv(j) /\ ServerJobInv(j)
    <2>1. /\ data[j] = Absent /\ queue[j] = 0 /\ processing[j] = 0
          /\ dead[j] = 0 /\ runs[j] = 0 /\ faults = 0 /\ shared = {}
          /\ \A l \in Loops : todo[l][j] = 0
      BY DEF Init, Nothing
    <2>2. JobInv(j)
      BY <1>2, <2>1, RecordFacts
      DEF JobInv, Unqueued, Sole, Known, GivenUp, Kept, Waiting, Absent
    <2>3. Stamped(j) /\ Budget(j)
      BY <1>2, <2>1, AgentFacts, JobQueueAssumption DEF Stamped, Budget
    <2>4. QED BY <2>1, <2>2, <2>3 DEF ServerJobInv
  <1>4. QED BY <1>1, <1>3, JobByJob DEF Typed

(* IInv is inductive, and ServerInv with it when there is one server.      *)
LEMMA InvStep ==
    /\ IInv /\ [Next]_vars => IInv'
    /\ SoleServer /\ IInv /\ ServerInv /\ [Next]_vars => ServerInv'
  <1>1. ASSUME IInv, [Next]_vars
        PROVE  Typed /\ Typed' /\ \A j \in Jobs : JobInv(j) /\ JobInv(j)'
    <2>1. Typed /\ \A j \in Jobs : JobInv(j)
      BY <1>1, JobByJob DEF IInv
    <2>2. Typed'
      BY <1>1, <2>1, TypedStep
    <2>3. QED BY <1>1, <2>1, <2>2, JobInvStep
  <1>2. ASSUME IInv, [Next]_vars
        PROVE  IInv'
    <2>1. /\ TypeOK' /\ PlacesOK' /\ shared' \in SUBSET Jobs
          /\ \A j \in Jobs : JobInv(j)'
      BY <1>1, <1>2 DEF Typed, TypeOK
    <2>2. QED BY <2>1 DEF IInv, JobInv
  <1>3. ASSUME SoleServer, IInv, ServerInv, [Next]_vars
        PROVE  ServerInv'
    <2>1. \A j \in Jobs : ServerJobInv(j)
      BY <1>3, JobByJob DEF IInv
    <2>2. \A j \in Jobs : ServerJobInv(j)'
      BY <1>1, <1>3, <2>1, ServerStep
    <2>3. shared' \in SUBSET Jobs
      BY <1>1, <1>3 DEF Typed, TypeOK
    <2>4. QED
      BY <2>2, <2>3 DEF ServerInv, ServerJobInv, RecoveredAfterTimeout
  <1>4. QED BY <1>2, <1>3

(* The invariant holds throughout, for any number of servers,              *)
LEMMA IInvariant == Spec => []IInv
  <1>1. Init => IInv
    BY InitHolds
  <1>2. IInv /\ [Next]_vars => IInv'
    BY InvStep
  <1>3. QED BY <1>1, <1>2, PTL DEF Spec

(* and with it, for a single server, what only holds there.                *)
LEMMA ServerInvariant ==
    ASSUME SoleServer
    PROVE  Spec => [](IInv /\ ServerInv)
  <1>1. Init => IInv /\ ServerInv
    BY InitHolds
  <1>2. IInv /\ ServerInv /\ [Next]_vars => (IInv /\ ServerInv)'
    BY InvStep
  <1>3. QED BY <1>1, <1>2, PTL DEF Spec

-----------------------------------------------------------------------------
(* Every variable keeps its type: in particular no list ever holds an id    *)
(* less than no times.                                                      *)
THEOREM TypeCorrect == Spec => []TypeOK
  <1>1. IInv => TypeOK
    BY DEF IInv
  <1>2. QED BY <1>1, IInvariant, PTL

(* A job that recovery did not take from a live holder is never with two    *)
(* tasks, however many servers pop, recover and retry.                      *)
THEOREM SoleTaskHolds == Spec => []SoleTask
  <1>1. IInv => SoleTask
    <2> SUFFICES ASSUME IInv, NEW j \in Jobs \ shared, NEW a \in Tasks,
                        NEW b \in Tasks, job[a] = j, job[b] = j
                 PROVE  a = b
      BY DEF SoleTask
    <2>1. a \in Holders(j) /\ b \in Holders(j)
      BY AgentFacts DEF IInv, PlacesOK, Holders
    <2>2. QED BY <2>1 DEF IInv, Sole
  <1>2. QED BY <1>1, IInvariant, PTL

(* A job that waits is on a list or with the agent that moves it, unless a  *)
(* fault between two lists lost it or it was taken from a live holder.      *)
THEOREM NotLostHolds == Spec => []NotLost
  <1>1. IInv => NotLost
    BY DEF IInv, NotLost, Kept
  <1>2. QED BY <1>1, IInvariant, PTL

(* With one server, a job is only taken from a holder that had it for the   *)
(* whole processing timeout.                                                *)
THEOREM RecoveredAfterTimeoutHolds ==
    ASSUME SoleServer
    PROVE  Spec => []RecoveredAfterTimeout
  <1>1. IInv /\ ServerInv => RecoveredAfterTimeout
    BY DEF ServerInv
  <1>2. QED BY <1>1, ServerInvariant, PTL

(* With one server, each run of a job beyond max_retries was paid for with  *)
(* a fault, and a job is given up once, with its retries used up.           *)
THEOREM RunBudgetHolds ==
    ASSUME SoleServer
    PROVE  Spec => []RunBudget
  <1>1. IInv /\ ServerInv => RunBudget
    <2> SUFFICES ASSUME IInv, ServerInv, NEW j \in Jobs \ shared
                 PROVE  /\ runs[j] <= MaxRetries + faults
                        /\ dead[j] > 0 =>
                              /\ dead[j] = 1 /\ queue[j] = 0
                              /\ data[j] = Gone \/ data[j].attempts >= MaxRetries
      BY DEF RunBudget
    <2>1. runs[j] <= MaxRetries + faults
      BY DEF ServerInv, Budget
    <2>2. dead[j] \in Nat /\ queue[j] \in Nat /\ processing[j] \in Nat
      BY DEF IInv, TypeOK
    <2>3. queue[j] + processing[j] + dead[j] <= 1 /\ GivenUp(j)
      BY DEF IInv, Sole
    <2>4. dead[j] > 0 => dead[j] = 1 /\ queue[j] = 0
      BY <2>2, <2>3
    <2>5. dead[j] > 0 => data[j] = Gone \/ data[j].attempts >= MaxRetries
      BY <2>3 DEF GivenUp
    <2>6. QED BY <2>1, <2>4, <2>5
  <1>2. QED BY <1>1, ServerInvariant, PTL
=============================================================================

------------------------------ MODULE JobQueue ------------------------------
(***************************************************************************)
(* The Redis job queue: a list of waiting job ids, a list of the ids being *)
(* processed, a dead letter list, and one record per job                   *)
(* (server/src/jobs/queue.rs), with the loop of each server that moves     *)
(* jobs between them and the tasks it spawns (server/src/jobs/worker.rs).  *)
(*                                                                         *)
(* Only the pop from one list to the next is atomic.  Every other move is  *)
(* a sequence of Redis commands between which the process can die or       *)
(* another can step in; each command is an action here.  A list is the     *)
(* number of times it holds each id: no property depends on the order.     *)
(***************************************************************************)
EXTENDS Naturals

CONSTANTS
    Jobs,
    Loops,        \* the dequeue loop of each server process
    Tasks,        \* permits of the job semaphores, and the tasks holding them
    Owner,        \* the loop each permit belongs to
    NoJob,
    MaxRetries,   \* config.max_retries
    MaxFaults,    \* bound: processes that die, commands that fail, overruns
    MaxRuns       \* bound: runs of a job; two tasks at one job can go on for ever

ASSUME JobQueueAssumption ==
    /\ Loops \cap Tasks = {}
    /\ Owner \in [Tasks -> Loops]
    /\ NoJob \notin Jobs
    /\ MaxRetries \in Nat \ {0}
    /\ MaxFaults \in Nat
    /\ MaxRuns > MaxRetries + MaxFaults

Agents == Loops \cup Tasks

VARIABLES
    queue, processing, dead,   \* the lists
    data,                      \* the job records
    job, got, pc,              \* an agent's job, the record it read, its place
    todo,                      \* ids of LRANGE a loop has yet to look at
    runs,                      \* history: how often a handler was started,
    overran,                   \* jobs whose processing timeout passed while held,
    shared,                    \* jobs recovered while another agent held them,
    lost,                      \* jobs dropped by a fault between two lists
    faults

lists == << queue, processing, dead >>
agentVars == << job, got, pc, todo >>
ghosts == << runs, overran, shared, lost, faults >>
vars == << lists, data, agentVars, ghosts >>

(* started_at: never set, set within processing_timeout, set before that.  *)
Records ==
    [status: {"absent", "gone", "pending", "processing", "completed", "failed"},
     attempts: Nat,
     started: {"never", "recent", "stale"}]
Absent == [status |-> "absent", attempts |-> 0, started |-> "never"]
Gone   == [status |-> "gone", attempts |-> 0, started |-> "never"]

Places == {"idle", "scan", "stale", "reset", "push", "load", "drop", "stamp", "spawn",
           "run", "succeeded", "complete", "unlist_done",
           "erred", "fail", "unlist_failed", "requeue"}

TypeOK ==
    /\ queue \in [Jobs -> Nat]
    /\ processing \in [Jobs -> Nat]
    /\ dead \in [Jobs -> Nat]
    /\ data \in [Jobs -> Records]
    /\ job \in [Agents -> Jobs \cup {NoJob}]
    /\ got \in [Agents -> Records]
    /\ pc \in [Agents -> Places]
    /\ todo \in [Loops -> [Jobs -> Nat]]
    /\ runs \in [Jobs -> Nat]
    /\ overran \in SUBSET Jobs
    /\ shared \in SUBSET Jobs
    /\ lost \in SUBSET Jobs
    /\ faults \in Nat

Nothing == [j \in Jobs |-> 0]

Init ==
    /\ queue = Nothing /\ processing = Nothing /\ dead = Nothing
    /\ data = [j \in Jobs |-> Absent]
    /\ job = [a \in Agents |-> NoJob]
    /\ got = [a \in Agents |-> Absent]
    /\ pc = [a \in Agents |-> "idle"]
    /\ todo = [l \in Loops |-> Nothing]
    /\ runs = Nothing
    /\ overran = {} /\ shared = {} /\ lost = {}
    /\ faults = 0

(* LPUSH, and LREM with count 1.                                           *)
Push(list, j) == [list EXCEPT ![j] = @ + 1]
Remove(list, j) == IF list[j] > 0 THEN [list EXCEPT ![j] = @ - 1] ELSE list

(* Who works on a job, or is moving it; a loop that has only read its      *)
(* record, on the way to recovering it, does not.                          *)
Holders(j) == { a \in Agents : job[a] = j /\ pc[a] # "stale" }

(* Agent a goes on, with or without its job.                               *)
Goto(a, place) == pc' = [pc EXCEPT ![a] = place] /\ UNCHANGED job
LetGo(a, place) ==
    /\ pc' = [pc EXCEPT ![a] = place]
    /\ job' = [job EXCEPT ![a] = NoJob]
    /\ got' = [got EXCEPT ![a] = Absent]

-----------------------------------------------------------------------------
(* Around the workers.                                                     *)

(* enqueue: the record first, so that no id is listed without one.         *)
Enqueue(j) ==
    /\ data[j] = Absent
    /\ data' = [data EXCEPT ![j] = [Absent EXCEPT !.status = "pending"]]
    /\ queue' = Push(queue, j)
    /\ UNCHANGED << processing, dead, agentVars, ghosts >>

(* processing_timeout passes since started_at, in the record and in every  *)
(* copy.  A task is cut off after as long (job_timeout), so that someone   *)
(* still holds the job then is a fault: delayed, or clocks that differ.    *)
Aged(r) == IF r.started = "recent" THEN [r EXCEPT !.started = "stale"] ELSE r
Age(j) ==
    /\ data[j].started = "recent"
    /\ Holders(j) # {} => faults < MaxFaults
    /\ data' = [data EXCEPT ![j] = Aged(@)]
    /\ got' = [a \in Agents |-> IF job[a] = j THEN Aged(got[a]) ELSE got[a]]
    /\ overran' = IF Holders(j) # {} THEN overran \cup {j} ELSE overran
    /\ faults' = IF Holders(j) # {} THEN faults + 1 ELSE faults
    /\ UNCHANGED << lists, job, pc, todo, runs, shared, lost >>

(* A record not written for a day expires.  For a job that still waits     *)
(* (no server has run for a day) this is a fault.                          *)
Expire(j) ==
    LET waits == queue[j] + processing[j] > 0
    IN  /\ data[j].status \notin {"absent", "gone"} /\ Holders(j) = {}
        /\ waits => faults < MaxFaults
        /\ data' = [data EXCEPT ![j] = Gone]
        /\ lost' = IF waits THEN lost \cup {j} ELSE lost
        /\ faults' = IF waits THEN faults + 1 ELSE faults
        /\ UNCHANGED << lists, agentVars, runs, overran, shared >>

-----------------------------------------------------------------------------
(* The loop: recover_stale_processing_jobs, then the pop.                  *)

Scan(l) ==
    /\ pc[l] = "idle"
    /\ \E t \in Tasks : Owner[t] = l /\ pc[t] = "idle"
    /\ todo' = [todo EXCEPT ![l] = processing]
    /\ Goto(l, "scan")
    /\ UNCHANGED << lists, data, got, ghosts >>

(* Variants: everything is stale, or only what was stamped is.             *)
StaleAlways(r) == TRUE
StaleWhenStamped(r) == r.started = "stale"

Stale(r) == r.started # "recent"

Look(l, j) ==
    /\ pc[l] = "scan" /\ todo[l][j] > 0
    /\ todo' = [todo EXCEPT ![l][j] = @ - 1]
    /\ IF Stale(data[j])
         THEN /\ job' = [job EXCEPT ![l] = j]
              /\ got' = [got EXCEPT ![l] = data[j]]
              /\ pc' = [pc EXCEPT ![l] = "stale"]
         ELSE UNCHANGED << job, got, pc >>
    /\ UNCHANGED << lists, data, ghosts >>

(* LREM tells whether someone else took the id off the list meanwhile.     *)
Unlist(l) ==
    LET j == job[l]
    IN  /\ pc[l] = "stale"
        /\ processing' = Remove(processing, j)
        /\ shared' = IF processing[j] > 0 /\ Holders(j) # {} THEN shared \cup {j} ELSE shared
        /\ IF processing[j] > 0 /\ got[l] # Gone
             THEN Goto(l, "reset") /\ UNCHANGED got
             ELSE LetGo(l, "scan")
        /\ UNCHANGED << queue, dead, data, todo, runs, overran, lost, faults >>

Reset(l) ==
    /\ pc[l] = "reset"
    /\ data' = [data EXCEPT ![job[l]] =
                   [got[l] EXCEPT !.status = "pending", !.started = "never"]]
    /\ Goto(l, "push")
    /\ UNCHANGED << lists, got, todo, ghosts >>

PushBackNot(l) ==        \* variant: the id is not put back
    /\ pc[l] = "push"
    /\ LetGo(l, "scan")
    /\ UNCHANGED << lists, data, todo, ghosts >>

PushBack(l) ==
    /\ pc[l] = "push"
    /\ queue' = Push(queue, job[l])
    /\ LetGo(l, "scan")
    /\ UNCHANGED << processing, dead, data, todo, ghosts >>

PopKeeping(l, j) ==      \* variant: the id stays in the queue
    /\ pc[l] = "scan" /\ todo[l] = Nothing
    /\ queue[j] > 0
    /\ processing' = Push(processing, j)
    /\ job' = [job EXCEPT ![l] = j]
    /\ pc' = [pc EXCEPT ![l] = "load"]
    /\ UNCHANGED << queue, dead, data, got, todo, ghosts >>

(* BRPOPLPUSH.                                                             *)
Pop(l, j) ==
    /\ pc[l] = "scan" /\ todo[l] = Nothing
    /\ queue[j] > 0
    /\ queue' = Remove(queue, j)
    /\ processing' = Push(processing, j)
    /\ job' = [job EXCEPT ![l] = j]
    /\ pc' = [pc EXCEPT ![l] = "load"]
    /\ UNCHANGED << dead, data, got, todo, ghosts >>

PopNothing(l) ==
    /\ pc[l] = "scan" /\ todo[l] = Nothing /\ queue = Nothing
    /\ Goto(l, "idle")
    /\ UNCHANGED << lists, data, got, todo, ghosts >>

Load(l) ==
    /\ pc[l] = "load"
    /\ got' = [got EXCEPT ![l] = data[job[l]]]
    /\ Goto(l, IF data[job[l]] = Gone THEN "drop" ELSE "stamp")
    /\ UNCHANGED << lists, data, todo, ghosts >>

Drop(l) ==
    /\ pc[l] = "drop"
    /\ processing' = Remove(processing, job[l])
    /\ LetGo(l, "idle")
    /\ UNCHANGED << queue, dead, data, todo, ghosts >>

Stamp(l) ==
    /\ pc[l] = "stamp"
    /\ data' = [data EXCEPT ![job[l]] =
                   [got[l] EXCEPT !.status = "processing", !.started = "recent"]]
    /\ Goto(l, "spawn")
    /\ UNCHANGED << lists, got, todo, ghosts >>

Spawn(l, t) ==
    /\ pc[l] = "spawn" /\ Owner[t] = l /\ pc[t] = "idle"
    /\ runs[job[l]] < MaxRuns
    /\ job' = [job EXCEPT ![l] = NoJob, ![t] = job[l]]
    /\ got' = [got EXCEPT ![l] = Absent]
    /\ pc' = [pc EXCEPT ![l] = "idle", ![t] = "run"]
    /\ runs' = [runs EXCEPT ![job[l]] = @ + 1]
    /\ UNCHANGED << lists, data, todo, overran, shared, lost, faults >>

-----------------------------------------------------------------------------
(* A task: process_job.                                                    *)

(* The handler returns, or is cut off by job_timeout.                      *)
Handle(t) ==
    /\ pc[t] = "run"
    /\ Goto(t, "succeeded") \/ Goto(t, "erred")
    /\ UNCHANGED << lists, data, got, todo, ghosts >>

(* complete and fail begin alike, with the record as it is now.            *)
ReadRecord(t) ==
    /\ pc[t] \in {"succeeded", "erred"}
    /\ got' = [got EXCEPT ![t] = data[job[t]]]
    /\ Goto(t, IF pc[t] = "succeeded" THEN "complete" ELSE "fail")
    /\ UNCHANGED << lists, data, todo, ghosts >>

Complete(t) ==
    /\ pc[t] = "complete"
    /\ data' = IF got[t] = Gone THEN data
               ELSE [data EXCEPT ![job[t]] = [got[t] EXCEPT !.status = "completed"]]
    /\ Goto(t, "unlist_done")
    /\ UNCHANGED << lists, got, todo, ghosts >>

UnlistCompletedNot(t) ==  \* variant: the id stays among those processed
    /\ pc[t] = "unlist_done"
    /\ LetGo(t, "idle")
    /\ UNCHANGED << lists, data, todo, ghosts >>

UnlistCompleted(t) ==
    /\ pc[t] = "unlist_done"
    /\ processing' = Remove(processing, job[t])
    /\ LetGo(t, "idle")
    /\ UNCHANGED << queue, dead, data, todo, ghosts >>

Fail(t) ==
    LET r == [got[t] EXCEPT !.status = "failed", !.attempts = @ + 1]
    IN  /\ pc[t] = "fail"
        /\ IF got[t] = Gone THEN UNCHANGED << data, got >>
           ELSE /\ data' = [data EXCEPT ![job[t]] = r]
                /\ got' = [got EXCEPT ![t] = r]
        /\ Goto(t, "unlist_failed")
        /\ UNCHANGED << lists, todo, ghosts >>

(* Unlike recovery, fail does not ask whether the id was still listed.     *)
UnlistFailed(t) ==
    /\ pc[t] = "unlist_failed"
    /\ processing' = Remove(processing, job[t])
    /\ IF got[t] = Gone THEN LetGo(t, "idle") ELSE Goto(t, "requeue") /\ UNCHANGED got
    /\ UNCHANGED << queue, dead, data, todo, ghosts >>

RetriesLeft(r) == r.attempts < MaxRetries

(* The record stays 'failed', with its old started_at, until the next pop. *)
Requeue(t) ==
    /\ pc[t] = "requeue"
    /\ IF RetriesLeft(got[t])
         THEN queue' = Push(queue, job[t]) /\ UNCHANGED dead
         ELSE dead' = Push(dead, job[t]) /\ UNCHANGED queue
    /\ LetGo(t, "idle")
    /\ UNCHANGED << processing, data, todo, ghosts >>

-----------------------------------------------------------------------------
(* The process dies, or a Redis command fails and its error ends the loop's*)
(* turn or the task.  A job taken off one list and not yet on the other is *)
(* then on none.                                                           *)
Abort(a) ==
    /\ pc[a] # "idle"
    /\ faults < MaxFaults
    /\ faults' = faults + 1
    /\ lost' = IF pc[a] \in {"reset", "push", "requeue"} THEN lost \cup {job[a]} ELSE lost
    /\ LetGo(a, "idle")
    /\ todo' = IF a \in Loops THEN [todo EXCEPT ![a] = Nothing] ELSE todo
    /\ UNCHANGED << lists, data, runs, overran, shared >>

Loop(l) ==
    \/ Scan(l) \/ Unlist(l) \/ Reset(l) \/ PushBack(l) \/ PopNothing(l)
    \/ Load(l) \/ Drop(l) \/ Stamp(l)
    \/ \E j \in Jobs : Look(l, j)
    \/ \E t \in Tasks : Spawn(l, t)

Task(t) ==
    \/ Handle(t) \/ ReadRecord(t) \/ Complete(t) \/ UnlistCompleted(t)
    \/ Fail(t) \/ UnlistFailed(t) \/ Requeue(t)

Next ==
    \/ \E j \in Jobs : Enqueue(j) \/ Age(j) \/ Expire(j)
    \/ \E l \in Loops : Loop(l) \/ \E j \in Jobs : Pop(l, j)
    \/ \E t \in Tasks : Task(t)
    \/ \E a \in Agents : Abort(a)

Spec == Init /\ [][Next]_vars

(* The loop runs as long as its process, handlers are cut off after        *)
(* job_timeout, clocks advance; the list is a queue, so no id is passed    *)
(* over for ever.                                                          *)
Fairness ==
    /\ \A l \in Loops : WF_vars(Loop(l))
    /\ \A t \in Tasks : WF_vars(Task(t))
    /\ \A j \in Jobs : /\ SF_vars(\E l \in Loops : Pop(l, j))
                       /\ WF_vars(Age(j))
FairSpec == Spec /\ Fairness

-----------------------------------------------------------------------------
(* Properties.                                                             *)

Waiting(j) == data[j].status \in {"pending", "processing", "failed"} /\ dead[j] = 0

(* A job that is neither completed nor given up is on a list, or in the    *)
(* hands of the agent that is moving it: recovery, retries and late tasks  *)
(* never drop it.  Only a fault between LREM and LPUSH does (lost).        *)
InTransit(a) == pc[a] \in {"reset", "push", "requeue"}
NotLost ==
    \A j \in Jobs \ (lost \cup shared) : Waiting(j) =>
        \/ queue[j] + processing[j] > 0
        \/ \E a \in Holders(j) : InTransit(a)

(* A job is taken from a worker that is still at it only when it has held  *)
(* the job for the whole processing timeout.                               *)
RecoveredAfterTimeout == shared \subseteq overran

(* Unless it was recovered from a live worker, a job has one worker.       *)
SoleTask ==
    \A j \in Jobs \ shared : \A a, b \in Tasks :
        job[a] = j /\ job[b] = j => a = b

(* Only a job whose retries are used up is given up, and once; and runs    *)
(* beyond max_retries cost a fault each: recovery after a crash does not   *)
(* count as an attempt, and a job whose worker died after completing it,   *)
(* but before LREM, runs again.                                            *)
RunBudget ==
    \A j \in Jobs \ shared :
        /\ runs[j] <= MaxRetries + faults
        /\ dead[j] > 0 =>
              dead[j] = 1 /\ queue[j] = 0
              /\ (data[j] = Gone \/ data[j].attempts >= MaxRetries)

(* Every job is completed or given up in the end, unless a fault lost it.  *)
EveryJobSettles ==
    \A j \in Jobs : (queue[j] > 0) ~>
        (data[j].status = "completed" \/ dead[j] > 0 \/ j \in lost \cup shared)
=============================================================================

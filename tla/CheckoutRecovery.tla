-------------------------- MODULE CheckoutRecovery --------------------------
(***************************************************************************)
(* A sale whose answer is late: the register's offline queue               *)
(* (client/src/lib/offlineQueue.ts, useCartCheckout.ts, serverRecovery.ts),*)
(* the recovery jobs that mirror it on the Main Hub and their replay by a  *)
(* Manager (server/src/api/recovery.rs), the checkout they repeat          *)
(* (server/src/logic/transaction_checkout.rs) and the Z-close of the till  *)
(* they belong to (server/src/api/sessions.rs).                            *)
(*                                                                         *)
(* One till group with one workstation.  Every request to the server may   *)
(* be lost on the way there or back, or arrive after its sender gave up;   *)
(* the register application may be restarted; the Manager's request may    *)
(* be dropped between its transactions.                                    *)
(*                                                                         *)
(* Not here: copies of a job restored on a sibling lane, paid pickups and  *)
(* receipt prints, partial checkouts ('processing'), a till that spans     *)
(* several business days, mismatching fingerprints, unfinished Helcim      *)
(* attempts.                                                               *)
(***************************************************************************)
EXTENDS Naturals, FiniteSets

CONSTANTS
    Checkouts,      \* checkout_client_id values: the sales rung up
    Managers,       \* replays of recovery jobs at work at the same time
    None

ASSUME CheckoutRecoveryAssumption ==
    /\ IsFiniteSet(Checkouts)
    /\ None \notin Checkouts

VARIABLES
    phase,      \* lifecycle of the till group's sessions
    closed,     \* how it was closed: "no", "ordinary", "manager"
    report,     \* the Z-report: the sales it counts
    sale,       \* the Transaction Record of each checkout
    job,        \* operational_recovery_job of each queued item
    evidence,   \* items with a register_post_close_checkout_recovery row
    ack,        \* "clear" once the workstation acknowledged an empty queue
    cart,       \* the cart of each checkout
    queue,      \* the browser's store: status of each queued item
    locked,     \* the workstation's reconciling lock (session storage)
    tried,      \* automaticResolutionAttempted
    call,       \* the register's checkout requests: past authentication and
                \* the unlocked lookup of a committed sale, or answered
    stale,      \* checkout requests nobody waits for any more
    mirror,     \* the server's answers to the mirrored items
    resolving,  \* resolve requests the server has authenticated: the status
                \* the item had when its queue sent them
    count,      \* what the station report under way counted
    manager     \* the replays past their checkout: the job to finalize

till == << phase, closed, report, ack >>
client == << cart, queue, locked, tried, mirror, count >>
net == << call, stale, resolving >>
books == << sale, job, evidence >>
vars == << till, client, net, books, manager >>

\* A sale saved while offline is queued as pending and flushed; one whose
\* answer never came is recorded as a blocker beside the open cart.
Items == Checkouts \X {"offline", "unconfirmed"}
Callers == Checkouts \X {"cart", "offline"}

Offline(c) == << c, "offline" >>
Unconfirmed(c) == << c, "unconfirmed" >>

NotSold == [closed |-> FALSE, by |-> "nobody"]
Sold(c) == sale[c] # NotSold

TypeOK ==
    /\ phase \in {"open", "reconciling", "closed"}
    /\ closed \in {"no", "ordinary", "manager"}
    /\ (closed = "no") = (phase # "closed")
    /\ report \subseteq Checkouts
    /\ sale \in [Checkouts -> [closed: BOOLEAN,
                     by: {"nobody", "register", "offline", "unconfirmed"}]]
    /\ job \in [Items -> {"none", "pending", "blocked",
                          "by_register", "by_manager"}]
    /\ evidence \subseteq Items
    /\ ack \in {"clear", None}
    /\ cart \in [Checkouts -> {"open", "ringing", "done"}]
    /\ queue \in [Items -> {"none", "pending", "blocked"}]
    /\ \A c \in Checkouts : queue[Unconfirmed(c)] # "pending"
    /\ locked \in BOOLEAN
    /\ tried \subseteq Items
    /\ call \in [Callers -> {"idle", "authorized", "ok", "refused"}]
    /\ stale \subseteq Checkouts
    /\ mirror \in [Items -> {"idle", "pending", "blocked", "resolved"}]
    /\ resolving \in [Items -> {"none", "pending", "blocked"}]
    /\ count \in {"clear", "held", None}
    /\ manager \in [Managers -> Items \cup {None}]

Init ==
    /\ phase = "open" /\ closed = "no" /\ report = {} /\ ack = None
    /\ sale = [c \in Checkouts |-> NotSold]
    /\ job = [i \in Items |-> "none"]
    /\ evidence = {}
    /\ cart = [c \in Checkouts |-> "open"]
    /\ queue = [i \in Items |-> "none"]
    /\ locked = FALSE /\ tried = {}
    /\ call = [x \in Callers |-> "idle"] /\ stale = {}
    /\ mirror = [i \in Items |-> "idle"]
    /\ resolving = [i \in Items |-> "none"]
    /\ count = None
    /\ manager = [m \in Managers |-> None]
-----------------------------------------------------------------------------
(* The mirrored job (upsert_recovery_job).                                 *)

Resolved(status) == status \in {"by_register", "by_manager"}

\* Mutant: the last mirror wins.
UpsertLatest(i, status) == IF Resolved(job[i]) THEN job[i] ELSE status

\* The server's upsert: neither a settled nor a blocked job is moved by it.
Upsert(i, status) == IF job[i] \in {"none", "pending"} THEN status ELSE job[i]

\* A stored item is posted at once; nobody waits for the answer.
Store(i, status) ==
    /\ queue' = [queue EXCEPT ![i] = status]
    /\ \/ /\ phase # "closed"
          /\ job' = [job EXCEPT ![i] = Upsert(i, status)]
       \/ UNCHANGED job
-----------------------------------------------------------------------------
(* The cart (useCartCheckout).                                             *)

\* The station's token is good until the close; a committed sale is answered
\* again before any other check.
Authorize(x) ==
    call' = [call EXCEPT ![x] = IF phase = "closed" THEN "refused"
                                ELSE IF Sold(x[1]) THEN "ok"
                                ELSE "authorized"]

Ring(c) ==
    /\ cart[c] = "open" /\ ~locked
    /\ cart' = [cart EXCEPT ![c] = "ringing"]
    /\ UNCHANGED << till, queue, locked, tried, mirror, count, net, books,
                    manager >>

\* The device is offline, or the sale is an approved card whose answer was
\* lost: a new item, the customer leaves with a Pending Sync receipt.
SaveOffline(c) ==
    /\ cart[c] = "ringing" /\ call[<< c, "cart" >>] = "idle"
    /\ cart' = [cart EXCEPT ![c] = "done"]
    /\ Store(Offline(c), "pending")
    /\ UNCHANGED << till, locked, tried, mirror, count, net, sale, evidence,
                    manager >>

SendCheckout(c) ==
    /\ cart[c] = "ringing" /\ call[<< c, "cart" >>] = "idle"
    /\ Authorize(<< c, "cart" >>)
    /\ UNCHANGED << till, client, stale, resolving, books, manager >>

\* Given up for good: the cart stays open beside a blocker.
RecordBlocker(c) ==
    /\ cart[c] = "ringing" /\ call[<< c, "cart" >>] = "idle"
    /\ cart' = [cart EXCEPT ![c] = "open"]
    /\ Store(Unconfirmed(c), "blocked")
    /\ UNCHANGED << till, locked, tried, mirror, count, net, sale, evidence,
                    manager >>

CheckoutRefused(c) ==
    /\ call[<< c, "cart" >>] = "refused"
    /\ call' = [call EXCEPT ![<< c, "cart" >>] = "idle"]
    /\ cart' = [cart EXCEPT ![c] = "open"]
    /\ UNCHANGED << till, queue, locked, tried, mirror, count, stale,
                    resolving, books, manager >>
-----------------------------------------------------------------------------
(* The checkout on the server.                                             *)

\* Mutant: the session was only looked at before it is locked.
MaySellUnlocked(recovery) == TRUE

\* The session row is locked; only a Manager's replay may pass a session
\* that is not open.
MaySell(recovery) == recovery \/ phase = "open"

Insert(c, who) ==
    sale' = [sale EXCEPT ![c] = [closed |-> phase = "closed", by |-> who]]

RecordSale(x) ==
    /\ call[x] = "authorized"
    /\ IF MaySell(FALSE)
       THEN /\ call' = [call EXCEPT ![x] = "ok"]
            /\ IF Sold(x[1]) THEN UNCHANGED sale ELSE Insert(x[1], "register")
       ELSE /\ call' = [call EXCEPT ![x] = "refused"]
            /\ UNCHANGED sale
    /\ UNCHANGED << till, client, stale, resolving, job, evidence, manager >>

\* The caller's timeout, a lost request or answer, a server error.
Lose(x) ==
    /\ call[x] # "idle"
    /\ call' = [call EXCEPT ![x] = "idle"]
    /\ IF call[x] = "authorized" /\ phase # "closed"
       THEN stale' \in {stale, stale \cup {x[1]}} ELSE UNCHANGED stale
    /\ UNCHANGED << till, client, resolving, books, manager >>

\* A request nobody waits for goes on, or dies.
Straggle(c) ==
    /\ c \in stale
    /\ stale' = stale \ {c}
    /\ IF MaySell(FALSE) /\ ~Sold(c) THEN Insert(c, "register")
       ELSE UNCHANGED sale
    /\ UNCHANGED << till, client, call, resolving, job, evidence, manager >>
-----------------------------------------------------------------------------
(* The flush of the queue, and what follows an answered checkout.          *)

Flush(c) ==
    /\ queue[Offline(c)] = "pending" /\ resolving[Offline(c)] = "none"
    /\ call[Offline(c)] = "idle"
    /\ Authorize(Offline(c))
    /\ UNCHANGED << till, client, stale, resolving, books, manager >>

\* Mutant: a 4xx answer drops the item.
FlushDrops(c) ==
    /\ call[Offline(c)] = "refused"
    /\ call' = [call EXCEPT ![Offline(c)] = "idle"]
    /\ queue' = [queue EXCEPT ![Offline(c)] = "none"]
    /\ UNCHANGED << till, cart, locked, tried, mirror, count, stale,
                    resolving, books, manager >>

\* A 4xx answer keeps the item, as a blocker.
FlushRefused(c) ==
    /\ call[Offline(c)] = "refused"
    /\ call' = [call EXCEPT ![Offline(c)] = "idle"]
    /\ IF queue[Offline(c)] = "pending" THEN Store(Offline(c), "blocked")
       ELSE UNCHANGED << queue, job >>
    /\ UNCHANGED << till, cart, locked, tried, mirror, count, stale,
                    resolving, sale, evidence, manager >>

\* completeQueuedCheckoutAuditSync: mirror, then ask to resolve.  The item is
\* only removed once the server has the job settled.
AuditSync(i) ==
    /\ phase # "closed"
    /\ job' = [job EXCEPT ![i] = Upsert(i, queue[i])]
    /\ IF Resolved(job'[i])
       THEN /\ queue' = [queue EXCEPT ![i] = "none"]
            /\ UNCHANGED resolving
       ELSE /\ resolving' = [resolving EXCEPT ![i] = queue[i]]
            /\ UNCHANGED queue

NoAuditSync == UNCHANGED << job, queue, resolving >>

FlushDone(c) ==
    /\ call[Offline(c)] = "ok"
    /\ call' = [call EXCEPT ![Offline(c)] = "idle"]
    /\ IF queue[Offline(c)] = "none" THEN NoAuditSync
       ELSE AuditSync(Offline(c))
    /\ UNCHANGED << till, cart, locked, tried, mirror, count, stale, sale,
                    evidence, manager >>

CheckoutDone(c) ==
    /\ call[<< c, "cart" >>] = "ok"
    /\ call' = [call EXCEPT ![<< c, "cart" >>] = "idle"]
    /\ cart' = [cart EXCEPT ![c] = "done"]
    /\ \/ /\ queue[Unconfirmed(c)] = "blocked"
          /\ resolving[Unconfirmed(c)] = "none"
          /\ AuditSync(Unconfirmed(c))
       \/ NoAuditSync
    /\ UNCHANGED << till, locked, tried, mirror, count, stale, sale, evidence,
                    manager >>

\* A committed sale of the job's own session is what resolves it.
Verified(i) == Sold(i[1])

\* resolve_recovery_job, authenticated before and in a transaction of its own.
\* Without its answer the queue stores the item again as it was.
ServeResolve(i) ==
    /\ resolving[i] # "none"
    /\ resolving' = [resolving EXCEPT ![i] = "none"]
    /\ \/ /\ job[i] \in {"pending", "blocked", "by_register"} /\ Verified(i)
          /\ job' = [job EXCEPT ![i] = "by_register"]
          /\ queue' \in {[queue EXCEPT ![i] = "none"],
                         [queue EXCEPT ![i] = resolving[i]]}
       \/ /\ queue' = [queue EXCEPT ![i] = resolving[i]]
          /\ UNCHANGED job
    /\ UNCHANGED << till, cart, locked, tried, mirror, count, call, stale,
                    sale, evidence, manager >>
-----------------------------------------------------------------------------
(* The mirror of the queue (syncCheckoutRecoveryWithServer).               *)

Seen(status) == IF Resolved(status) THEN "resolved" ELSE status

\* upsert_recovery_job refuses a session that is no longer open.
Mirror(i) ==
    /\ queue[i] # "none" /\ mirror[i] = "idle" /\ phase # "closed"
    /\ job' = [job EXCEPT ![i] = Upsert(i, queue[i])]
    /\ mirror' \in {mirror, [mirror EXCEPT ![i] = Seen(job'[i])]}
    /\ UNCHANGED << till, cart, queue, locked, tried, count, net, sale,
                    evidence, manager >>

Adopted(i, status) ==
    [queue EXCEPT ![i] = IF status = "resolved" \/ @ = "none" THEN "none"
                         ELSE status]

\* The item takes the status the server answered, whatever it has by now.
Adopt(i) ==
    /\ mirror[i] # "idle"
    /\ mirror' = [mirror EXCEPT ![i] = "idle"]
    /\ queue' = Adopted(i, mirror[i])
    /\ UNCHANGED << till, cart, locked, tried, count, net, books, manager >>

\* After a mirror the closed session refused, the record is read by its key,
\* with staff access.
AdoptPrior(i) ==
    /\ phase = "closed" /\ mirror[i] = "idle" /\ job[i] # "none"
    /\ queue' = Adopted(i, Seen(job[i]))
    /\ UNCHANGED << till, cart, locked, tried, mirror, count, net, books,
                    manager >>

\* An unconfirmed item is resolved by itself, tried once per run of the app.
AutoResolve(c) ==
    /\ mirror[Unconfirmed(c)] = "blocked"
    /\ queue[Unconfirmed(c)] # "none"
    /\ Unconfirmed(c) \notin tried
    /\ resolving[Unconfirmed(c)] = "none"
    /\ tried' = tried \cup {Unconfirmed(c)}
    /\ AuditSync(Unconfirmed(c))
    /\ mirror' = [mirror EXCEPT ![Unconfirmed(c)] = "idle"]
    /\ UNCHANGED << till, cart, locked, count, call, stale, sale, evidence,
                    manager >>

\* The queue is in IndexedDB and outlives the application, the cart is saved
\* with its checkout_client_id; the lock goes with the window.
Restart ==
    /\ cart' = [c \in Checkouts |-> IF cart[c] = "ringing" THEN "open"
                                    ELSE cart[c]]
    /\ call' = [x \in Callers |-> "idle"]
    /\ stale' = stale \cup {c \in Checkouts :
                             /\ phase # "closed"
                             /\ \E x \in Callers :
                                    x[1] = c /\ call[x] = "authorized"}
    /\ mirror' = [i \in Items |-> "idle"]
    /\ locked' \in {locked, FALSE}
    /\ tried' = {}
    /\ count' = None
    /\ UNCHANGED << till, queue, resolving, books, manager >>
-----------------------------------------------------------------------------
(* The Manager's replay (replay_checkout_recovery_job).                    *)

\* execute_recovery_checkout: the sale, with the state of the session, or the
\* one that is there.
Execute(m, i) ==
    /\ manager[m] = None /\ job[i] # "none"
    /\ MaySell(TRUE)
    /\ manager' = [manager EXCEPT ![m] = i]
    /\ IF Sold(i[1]) THEN UNCHANGED sale ELSE Insert(i[1], i[2])
    /\ UNCHANGED << till, client, net, job, evidence >>

\* Mutant: only the session's state of the moment counts.
PostCloseNow(i) == phase = "closed"

\* What the sale's activity log says, if this job's replay recorded it;
\* otherwise whether the session is closed by now.
PostClose(i) ==
    IF sale[i[1]].by = i[2] THEN sale[i[1]].closed
    ELSE i \in evidence \/ phase = "closed"

\* A job the register resolved has no Manager audit and refuses this one.
Finalize(m) ==
    LET i == manager[m] IN
    /\ i # None
    /\ manager' = [manager EXCEPT ![m] = None]
    /\ IF Resolved(job[i]) THEN UNCHANGED << job, evidence >>
       ELSE /\ job' = [job EXCEPT ![i] = "by_manager"]
            /\ evidence' = IF PostClose(i) THEN evidence \cup {i} ELSE evidence
    /\ UNCHANGED << till, client, net, sale >>

DropReplay(m) ==
    /\ manager[m] # None
    /\ manager' = [manager EXCEPT ![m] = None]
    /\ UNCHANGED << till, client, net, books >>
-----------------------------------------------------------------------------
(* The Z-close.                                                            *)

BeginReconcile ==
    /\ phase = "open"
    /\ phase' = "reconciling"
    /\ UNCHANGED << closed, report, ack, client, net, books, manager >>

RestoreSelling ==
    /\ phase = "reconciling"
    /\ phase' = "open" /\ ack' = None
    /\ UNCHANGED << closed, report, client, net, books, manager >>

\* reportStationCloseStatus: count, read the phase and lock, acknowledge.
CountQueue ==
    /\ count = None /\ phase # "closed"
    /\ count' = IF \E i \in Items : queue[i] # "none" THEN "held" ELSE "clear"
    /\ UNCHANGED << till, cart, queue, locked, tried, mirror, net, books,
                    manager >>

Acknowledge ==
    /\ count # None
    /\ count' = None
    /\ \/ /\ phase = "reconciling"
          /\ locked' = TRUE
          /\ ack' \in {ack, IF count = "clear" THEN "clear" ELSE None}
       \/ /\ phase = "open"
          /\ locked' = FALSE
          /\ UNCHANGED ack
       \/ UNCHANGED << locked, ack >>
    /\ UNCHANGED << phase, closed, report, cart, queue, tried, mirror, net,
                    books, manager >>

OpenJobs == {i \in Items : job[i] \in {"pending", "blocked"}}

\* What a Manager must answer for.
Unresolved == OpenJobs # {} \/ ack # "clear"

\* It drops the tokens of the station: requests and a report under way only
\* find a closed session from now on.
CloseTill ==
    /\ phase # "closed"
    /\ phase' = "closed" /\ ack' = None /\ count' = None /\ stale' = {}
    /\ closed' = IF Unresolved THEN "manager" ELSE "ordinary"
    /\ report' = {c \in Checkouts : Sold(c)}
    /\ UNCHANGED << cart, queue, locked, tried, mirror, call, resolving, books,
                    manager >>
-----------------------------------------------------------------------------
Cart(c) ==
    Ring(c) \/ SaveOffline(c) \/ SendCheckout(c) \/ RecordBlocker(c)
    \/ CheckoutRefused(c) \/ CheckoutDone(c)

QueueStep(c) == Flush(c) \/ FlushRefused(c) \/ FlushDone(c) \/ AutoResolve(c)

Mirrored(i) ==
    Mirror(i) \/ Adopt(i) \/ AdoptPrior(i) \/ ServeResolve(i)

Replay(m) ==
    (\E i \in Items : Execute(m, i)) \/ Finalize(m) \/ DropReplay(m)

Till ==
    BeginReconcile \/ RestoreSelling \/ CountQueue \/ Acknowledge
    \/ CloseTill

Next ==
    \/ \E c \in Checkouts : Cart(c) \/ QueueStep(c)
    \/ \E x \in Callers : RecordSale(x) \/ Lose(x)
    \/ \E c \in Checkouts : Straggle(c)
    \/ \E i \in Items : Mirrored(i)
    \/ \E m \in Managers : Replay(m)
    \/ Restart
    \/ Till

Spec == Init /\ [][Next]_vars
-----------------------------------------------------------------------------
(* Once a customer has left, the sale is recorded or its only copy is still *)
(* in the queue (dequeueCheckout, replayQueuedCheckout): no answer, block,  *)
(* restart, mirror or resolution takes the copy away before.                *)
NothingForgotten ==
    \A c \in Checkouts :
        cart[c] = "done" => Sold(c) \/ queue[Offline(c)] # "none"

(* A sale the register itself recorded is in the Z-report of its till: no    *)
(* request gets past the close it raced with (the session lock).            *)
RegisterSalesReported ==
    \A c \in Checkouts :
        Sold(c) /\ phase = "closed" /\ sale[c].by = "register" => c \in report

(* A sale that a Manager's replay recorded is in the Z-report or has         *)
(* post-close evidence once its job is settled by a Manager, and never both. *)
EvidenceIsExact ==
    \A i \in Items :
        sale[i[1]].by = i[2] /\ job[i] = "by_manager" /\ phase = "closed" =>
            (i \in evidence) = (i[1] \notin report)

(* A blocked job waits for its settlement: a late mirror of the time when    *)
(* the item was pending does not set it back (upsert_recovery_job).          *)
BlockedStays ==
    [][\A i \in Items :
        /\ job[i] = "blocked" => job'[i] # "pending"
        /\ Resolved(job[i]) => job'[i] = job[i]]_vars
=============================================================================

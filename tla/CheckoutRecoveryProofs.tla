------------------------ MODULE CheckoutRecoveryProofs ------------------------
(* Theorems about CheckoutRecovery, for any checkouts and any replays.     *)
EXTENDS CheckoutRecovery, TLAPS

(* What counts as settled, at the register, in the mirror, in the job and  *)
(* at a Manager's, has its sale.                                           *)
SettledIsSold ==
    /\ \A x \in Callers : call[x] = "ok" => Sold(x[1])
    /\ \A i \in Items :
          Resolved(job[i]) \/ mirror[i] = "resolved" => Sold(i[1])
    /\ \A m \in Managers : manager[m] # None => Sold(manager[m][1])

(* An unconfirmed item is a blocker wherever it is kept.                   *)
UnconfirmedBlocks ==
    \A c \in Checkouts :
        /\ job[Unconfirmed(c)] # "pending"
        /\ resolving[Unconfirmed(c)] # "pending"
        /\ mirror[Unconfirmed(c)] # "pending"

(* The Z-report has the sales made before the close; those made after it   *)
(* say so.                                                                 *)
ReportOK ==
    /\ \A c \in report : Sold(c)
    /\ phase # "closed" => report = {}
    /\ \A c \in Checkouts :
          Sold(c) => (sale[c].closed <=> phase = "closed" /\ c \notin report)

(* Evidence is written with the settlement, and says when the sale was.    *)
EvidenceOK ==
    /\ \A i \in evidence : job[i] = "by_manager"
    /\ \A i \in Items :
          job[i] = "by_manager" /\ sale[i[1]].by = i[2] =>
              (i \in evidence <=> sale[i[1]].closed)

IInv ==
    /\ TypeOK /\ NothingForgotten /\ RegisterSalesReported
    /\ SettledIsSold /\ UnconfirmedBlocks /\ ReportOK /\ EvidenceOK
-----------------------------------------------------------------------------
(* An item is one of the two kinds of its checkout.                        *)
LEMMA ItemKinds ==
    /\ \A i \in Items :
          /\ i[1] \in Checkouts /\ i[2] \in {"offline", "unconfirmed"}
          /\ i = Offline(i[1]) \/ i = Unconfirmed(i[1])
    /\ \A c \in Checkouts :
          /\ Offline(c) \in Items /\ Unconfirmed(c) \in Items
          /\ Offline(c)[1] = c /\ Unconfirmed(c)[1] = c
          /\ Offline(c) # Unconfirmed(c)
          /\ Offline(c) \in Callers /\ << c, "cart" >> \in Callers
    /\ \A x \in Callers : x[1] \in Checkouts
    /\ \A c \in Checkouts : \A d \in Checkouts : Unconfirmed(d) # Offline(c)
    /\ \A c \in Checkouts : \A d \in Checkouts :
          Unconfirmed(d) = Unconfirmed(c) => c = d
  BY DEF Items, Callers, Offline, Unconfirmed

(* The two invariants that say what each variable may hold.                *)
Kinds == TypeOK /\ UnconfirmedBlocks

(* Only these steps change the queue, the jobs or the requests to resolve. *)
LEMMA QueueTouched ==
    ASSUME [Next]_vars
    PROVE  \/ UNCHANGED << queue, job, resolving >>
           \/ \E c \in Checkouts :
                 \/ SaveOffline(c) \/ RecordBlocker(c) \/ CheckoutDone(c)
                 \/ FlushRefused(c) \/ FlushDone(c) \/ AutoResolve(c)
           \/ \E i \in Items :
                 Mirror(i) \/ Adopt(i) \/ AdoptPrior(i) \/ ServeResolve(i)
           \/ \E m \in Managers : Finalize(m)
  BY DEF Next, vars, till, client, net, books, Cart, QueueStep, Mirrored,
         Replay, Till, Ring, SendCheckout, CheckoutRefused, RecordSale, Lose,
         Straggle, Flush, Execute, DropReplay, Restart, BeginReconcile,
         RestoreSelling, CountQueue, Acknowledge, CloseTill

(* Only these steps change the sales.                                      *)
LEMMA SaleTouched ==
    ASSUME [Next]_vars
    PROVE  \/ UNCHANGED sale
           \/ \E x \in Callers : RecordSale(x)
           \/ \E c \in Checkouts : Straggle(c)
           \/ \E m \in Managers, i \in Items : Execute(m, i)
  BY DEF Next, vars, till, client, net, books, Cart, QueueStep, Mirrored,
         Replay, Till, Ring, SaveOffline, SendCheckout, RecordBlocker,
         CheckoutRefused, CheckoutDone, Flush, FlushRefused, FlushDone,
         AutoResolve, Mirror, Adopt, AdoptPrior, ServeResolve, Lose,
         Finalize, DropReplay, Restart, BeginReconcile, RestoreSelling,
         CountQueue, Acknowledge, CloseTill

(* The states of an item in the queue, in the mirror's answer, in a request *)
(* to resolve and in its job: an unconfirmed item is never pending.         *)
QueueKinds ==
    /\ queue \in [Items -> {"none", "pending", "blocked"}]
    /\ \A c \in Checkouts : queue[Unconfirmed(c)] # "pending"

JobKinds ==
    /\ job \in [Items -> {"none", "pending", "blocked",
                          "by_register", "by_manager"}]
    /\ \A c \in Checkouts : job[Unconfirmed(c)] # "pending"

ResolvingKinds ==
    /\ resolving \in [Items -> {"none", "pending", "blocked"}]
    /\ \A c \in Checkouts : resolving[Unconfirmed(c)] # "pending"

MirrorKinds ==
    /\ mirror \in [Items -> {"idle", "pending", "blocked", "resolved"}]
    /\ \A c \in Checkouts : mirror[Unconfirmed(c)] # "pending"

(* Storing an item keeps the kinds of the queue and of the jobs.           *)
LEMMA StoreKinds ==
    ASSUME QueueKinds, JobKinds,
           NEW i \in Items, NEW status \in {"pending", "blocked"},
           \A c \in Checkouts : i = Unconfirmed(c) => status # "pending",
           Store(i, status)
    PROVE  QueueKinds' /\ JobKinds'
  <1>1. QueueKinds'
    BY ItemKinds DEF QueueKinds, Store
  <1>2. CASE UNCHANGED job
    BY <1>1, <1>2 DEF JobKinds
  <1>3. CASE job' = [job EXCEPT ![i] = Upsert(i, status)]
    <2>1. /\ Upsert(i, status) \in {"pending", "blocked", "by_register",
                                    "by_manager"}
          /\ \A c \in Checkouts :
                i = Unconfirmed(c) => Upsert(i, status) # "pending"
      BY DEF JobKinds, Upsert
    <2>2. QED BY <1>1, <1>3, <2>1, ItemKinds DEF JobKinds
  <1>4. QED BY <1>2, <1>3 DEF Store

(* So does an audit sync of an item that is in the queue.                  *)
LEMMA AuditSyncKinds ==
    ASSUME QueueKinds, JobKinds, ResolvingKinds,
           NEW i \in Items, queue[i] # "none", AuditSync(i)
    PROVE  QueueKinds' /\ JobKinds' /\ ResolvingKinds'
  <1>1. queue[i] \in {"pending", "blocked"}
    BY DEF QueueKinds
  <1>2. \A c \in Checkouts : i = Unconfirmed(c) => queue[i] # "pending"
    BY DEF QueueKinds
  <1>3. JobKinds'
    BY <1>1, <1>2, ItemKinds DEF JobKinds, AuditSync, Upsert
  <1>4. QueueKinds' /\ ResolvingKinds'
    <2>1. \/ queue' = [queue EXCEPT ![i] = "none"] /\ UNCHANGED resolving
          \/ resolving' = [resolving EXCEPT ![i] = queue[i]] /\ UNCHANGED queue
      BY DEF AuditSync
    <2>2. CASE queue' = [queue EXCEPT ![i] = "none"] /\ UNCHANGED resolving
      BY <2>2, ItemKinds DEF QueueKinds, ResolvingKinds
    <2>3. CASE /\ resolving' = [resolving EXCEPT ![i] = queue[i]]
               /\ UNCHANGED queue
      BY <1>1, <1>2, <2>3, ItemKinds DEF QueueKinds, ResolvingKinds
    <2>4. QED BY <2>1, <2>2, <2>3
  <1>5. QED BY <1>3, <1>4

(* Every step keeps the kinds of what the queue, its mirror, the requests   *)
(* to resolve and the jobs hold.                                            *)
LEMMA KindsStep ==
    ASSUME QueueKinds, JobKinds, ResolvingKinds, MirrorKinds, [Next]_vars
    PROVE  QueueKinds' /\ JobKinds' /\ ResolvingKinds'
  <1>1. CASE UNCHANGED << queue, job, resolving >>
    BY <1>1 DEF QueueKinds, JobKinds, ResolvingKinds
  <1>2. ASSUME NEW c \in Checkouts, SaveOffline(c)
        PROVE  QueueKinds' /\ JobKinds' /\ ResolvingKinds'
    <2>1. QueueKinds' /\ JobKinds'
      BY <1>2, StoreKinds, ItemKinds DEF SaveOffline
    <2>2. QED BY <1>2, <2>1 DEF SaveOffline, net, ResolvingKinds
  <1>3. ASSUME NEW c \in Checkouts, RecordBlocker(c)
        PROVE  QueueKinds' /\ JobKinds' /\ ResolvingKinds'
    <2>1. QueueKinds' /\ JobKinds'
      BY <1>3, StoreKinds, ItemKinds DEF RecordBlocker
    <2>2. QED BY <1>3, <2>1 DEF RecordBlocker, net, ResolvingKinds
  <1>4. ASSUME NEW c \in Checkouts, CheckoutDone(c)
        PROVE  QueueKinds' /\ JobKinds' /\ ResolvingKinds'
    <2>1. CASE NoAuditSync
      BY <2>1 DEF NoAuditSync, QueueKinds, JobKinds, ResolvingKinds
    <2>2. CASE AuditSync(Unconfirmed(c)) /\ queue[Unconfirmed(c)] = "blocked"
      BY <2>2, AuditSyncKinds, ItemKinds
    <2>3. QED BY <1>4, <2>1, <2>2 DEF CheckoutDone
  <1>5. ASSUME NEW c \in Checkouts, FlushRefused(c)
        PROVE  QueueKinds' /\ JobKinds' /\ ResolvingKinds'
    <2>1. CASE UNCHANGED << queue, job >>
      BY <1>5, <2>1 DEF FlushRefused, QueueKinds, JobKinds, ResolvingKinds
    <2>2. CASE Store(Offline(c), "blocked")
      <3>1. QueueKinds' /\ JobKinds'
        BY <2>2, StoreKinds, ItemKinds
      <3>2. QED BY <1>5, <3>1 DEF FlushRefused, ResolvingKinds
    <2>3. QED BY <1>5, <2>1, <2>2 DEF FlushRefused
  <1>6. ASSUME NEW c \in Checkouts, FlushDone(c)
        PROVE  QueueKinds' /\ JobKinds' /\ ResolvingKinds'
    <2>1. CASE NoAuditSync
      BY <2>1 DEF NoAuditSync, QueueKinds, JobKinds, ResolvingKinds
    <2>2. CASE AuditSync(Offline(c)) /\ queue[Offline(c)] # "none"
      BY <2>2, AuditSyncKinds, ItemKinds
    <2>3. QED BY <1>6, <2>1, <2>2 DEF FlushDone
  <1>7. ASSUME NEW c \in Checkouts, AutoResolve(c)
        PROVE  QueueKinds' /\ JobKinds' /\ ResolvingKinds'
    BY <1>7, AuditSyncKinds, ItemKinds DEF AutoResolve
  <1>8. ASSUME NEW i \in Items, Mirror(i)
        PROVE  QueueKinds' /\ JobKinds' /\ ResolvingKinds'
    <2>1. /\ queue[i] \in {"pending", "blocked"}
          /\ \A c \in Checkouts : i = Unconfirmed(c) => queue[i] # "pending"
      BY <1>8 DEF Mirror, QueueKinds
    <2>2. JobKinds'
      BY <1>8, <2>1, ItemKinds DEF Mirror, JobKinds, Upsert
    <2>3. QED BY <1>8, <2>2 DEF Mirror, net, QueueKinds, ResolvingKinds
  <1>9. ASSUME NEW i \in Items, Adopt(i)
        PROVE  QueueKinds' /\ JobKinds' /\ ResolvingKinds'
    <2>1. QueueKinds'
      BY <1>9, ItemKinds DEF Adopt, Adopted, QueueKinds, MirrorKinds
    <2>2. QED BY <1>9, <2>1 DEF Adopt, net, books, JobKinds, ResolvingKinds
  <1>10. ASSUME NEW i \in Items, AdoptPrior(i)
         PROVE  QueueKinds' /\ JobKinds' /\ ResolvingKinds'
    <2>1. QueueKinds'
      BY <1>10, ItemKinds
      DEF AdoptPrior, Adopted, Seen, Resolved, QueueKinds, JobKinds
    <2>2. QED
      BY <1>10, <2>1 DEF AdoptPrior, net, books, JobKinds, ResolvingKinds
  <1>11. ASSUME NEW i \in Items, ServeResolve(i)
         PROVE  QueueKinds' /\ JobKinds' /\ ResolvingKinds'
    <2>1. ResolvingKinds'
      BY <1>11, ItemKinds DEF ServeResolve, ResolvingKinds
    <2>2. QueueKinds'
      <3>1. \/ queue' = [queue EXCEPT ![i] = "none"]
            \/ queue' = [queue EXCEPT ![i] = resolving[i]]
        BY <1>11 DEF ServeResolve
      <3>2. CASE queue' = [queue EXCEPT ![i] = "none"]
        BY <3>2, ItemKinds DEF QueueKinds
      <3>3. CASE queue' = [queue EXCEPT ![i] = resolving[i]]
        <4>1. /\ resolving[i] \in {"none", "pending", "blocked"}
              /\ \A c \in Checkouts :
                    i = Unconfirmed(c) => resolving[i] # "pending"
          BY DEF ResolvingKinds
        <4>2. QED BY <3>3, <4>1, ItemKinds DEF QueueKinds
      <3>4. QED BY <3>1, <3>2, <3>3
    <2>3. JobKinds'
      <3>1. job' = [job EXCEPT ![i] = "by_register"] \/ UNCHANGED job
        BY <1>11 DEF ServeResolve
      <3>2. QED BY <3>1, ItemKinds DEF JobKinds
    <2>4. QED BY <2>1, <2>2, <2>3
  <1>12. ASSUME NEW m \in Managers, Finalize(m)
         PROVE  QueueKinds' /\ JobKinds' /\ ResolvingKinds'
    <2>1. UNCHANGED << queue, resolving >>
      BY <1>12 DEF Finalize, client, net
    <2>2. \/ UNCHANGED job
          \/ job' = [job EXCEPT ![manager[m]] = "by_manager"]
      BY <1>12 DEF Finalize
    <2>3. QED
      BY ZenonT(60), <2>1, <2>2, ItemKinds DEF QueueKinds, JobKinds, ResolvingKinds
  <1>13. QED
    BY <1>1, <1>2, <1>3, <1>4, <1>5, <1>6, <1>7, <1>8, <1>9, <1>10, <1>11,
       <1>12, QueueTouched

(* So do the answers of the mirror.                                        *)
LEMMA MirrorStep ==
    ASSUME QueueKinds, JobKinds, MirrorKinds, [Next]_vars
    PROVE  MirrorKinds'
  <1>1. CASE UNCHANGED mirror
    BY <1>1 DEF MirrorKinds
  <1>2. ASSUME NEW i \in Items, Mirror(i)
        PROVE  MirrorKinds'
    <2>1. /\ queue[i] \in {"pending", "blocked"}
          /\ \A c \in Checkouts : i = Unconfirmed(c) => queue[i] # "pending"
      BY <1>2 DEF Mirror, QueueKinds
    <2>2. job'[i] = Upsert(i, queue[i])
      BY <1>2 DEF Mirror, JobKinds
    <2>3. /\ Seen(job'[i]) \in {"pending", "blocked", "resolved"}
          /\ \A c \in Checkouts : i = Unconfirmed(c) => Seen(job'[i]) # "pending"
      BY <2>1, <2>2 DEF Upsert, Seen, Resolved, JobKinds
    <2>4. CASE mirror' = [mirror EXCEPT ![i] = Seen(job'[i])]
      BY <2>3, <2>4, ItemKinds DEF MirrorKinds
    <2>5. QED BY <1>1, <1>2, <2>4 DEF Mirror
  <1>3. ASSUME NEW i \in Items, mirror' = [mirror EXCEPT ![i] = "idle"]
        PROVE  MirrorKinds'
    BY <1>3, ItemKinds DEF MirrorKinds
  <1>4. ASSUME NEW c \in Checkouts, AutoResolve(c)
        PROVE  MirrorKinds'
    BY <1>3, <1>4, ItemKinds DEF AutoResolve
  <1>5. CASE Restart
    BY <1>5, ItemKinds DEF Restart, MirrorKinds
  <1>6. ASSUME NEW i \in Items, Adopt(i)
        PROVE  MirrorKinds'
    BY <1>3, <1>6 DEF Adopt
  <1>7. \/ UNCHANGED mirror
        \/ Restart
        \/ \E i \in Items : Mirror(i) \/ Adopt(i)
        \/ \E c \in Checkouts : AutoResolve(c)
    BY DEF Next, vars, till, client, net, books, Cart, QueueStep, Mirrored,
           Replay, Till, Ring, SaveOffline, SendCheckout, RecordBlocker,
           CheckoutRefused, CheckoutDone, Flush, FlushRefused, FlushDone,
           AdoptPrior, ServeResolve, RecordSale, Lose, Straggle, Execute,
           Finalize, DropReplay, BeginReconcile, RestoreSelling, CountQueue,
           Acknowledge, CloseTill
  <1>8. QED BY <1>1, <1>2, <1>4, <1>5, <1>6, <1>7

(* The other variables keep their types.                                   *)
Records ==
    /\ phase \in {"open", "reconciling", "closed"}
    /\ closed \in {"no", "ordinary", "manager"}
    /\ (closed = "no") <=> (phase # "closed")
    /\ report \subseteq Checkouts
    /\ sale \in [Checkouts -> [closed: BOOLEAN,
                     by: {"nobody", "register", "offline", "unconfirmed"}]]
    /\ evidence \subseteq Items
    /\ ack \in {"clear", None}
Station ==
    /\ cart \in [Checkouts -> {"open", "ringing", "done"}]
    /\ locked \in BOOLEAN
    /\ tried \subseteq Items
    /\ call \in [Callers -> {"idle", "authorized", "ok", "refused"}]
    /\ stale \subseteq Checkouts
    /\ count \in {"clear", "held", None}
    /\ manager \in [Managers -> Items \cup {None}]

(* TypeOK and UnconfirmedBlocks are the conjunction of the parts below.    *)
LEMMA KindsAreTypes ==
    TypeOK /\ UnconfirmedBlocks <=>
        /\ QueueKinds /\ JobKinds /\ ResolvingKinds /\ MirrorKinds
        /\ Records /\ Station
  BY DEF TypeOK, UnconfirmedBlocks, QueueKinds, JobKinds, ResolvingKinds,
         MirrorKinds, Records, Station

(* What a commit writes of a sale is of its type.                          *)
LEMMA SaleType ==
    ASSUME NEW who \in {"register", "offline", "unconfirmed"}
    PROVE  [closed |-> phase = "closed", by |-> who] \in
               [closed: BOOLEAN,
                by: {"nobody", "register", "offline", "unconfirmed"}]
  OBVIOUS

(* Every step keeps the types of the server's records.                     *)
LEMMA RecordsStep ==
    ASSUME Records, manager \in [Managers -> Items \cup {None}], [Next]_vars
    PROVE  Records'
  <1>1. sale' \in [Checkouts -> [closed: BOOLEAN,
                     by: {"nobody", "register", "offline", "unconfirmed"}]]
    <2>1. \/ UNCHANGED sale
          \/ \E c \in Checkouts,
                who \in {"register", "offline", "unconfirmed"} : Insert(c, who)
      <3>1. ASSUME NEW x \in Callers, RecordSale(x)
            PROVE  UNCHANGED sale \/ Insert(x[1], "register")
        BY <3>1 DEF RecordSale
      <3>2. ASSUME NEW c \in Checkouts, Straggle(c)
            PROVE  UNCHANGED sale \/ Insert(c, "register")
        BY <3>2 DEF Straggle
      <3>3. ASSUME NEW m \in Managers, NEW i \in Items, Execute(m, i)
            PROVE  UNCHANGED sale \/ Insert(i[1], i[2])
        BY <3>3 DEF Execute
      <3>4. QED BY SaleTouched, ItemKinds, <3>1, <3>2, <3>3
    <2>2. QED BY ZenonT(60), <2>1, SaleType DEF Records, Insert
  <1>2. evidence' \subseteq Items
    <2>1. \/ UNCHANGED evidence
          \/ \E m \in Managers :
                /\ manager[m] # None
                /\ evidence' \in {evidence, evidence \cup {manager[m]}}
      BY DEF Next, vars, till, client, net, books, Cart, QueueStep, Mirrored,
             Replay, Till, Ring, SaveOffline, SendCheckout, RecordBlocker,
             CheckoutRefused, CheckoutDone, Flush, FlushRefused, FlushDone,
             AutoResolve, Mirror, Adopt, AdoptPrior, ServeResolve, RecordSale,
             Lose, Straggle, Execute, Finalize, DropReplay, Restart,
             BeginReconcile, RestoreSelling, CountQueue, Acknowledge, CloseTill
    <2>2. QED BY <2>1 DEF Records
  <1>3. CASE UNCHANGED till
    BY <1>1, <1>2, <1>3 DEF Records, till
  <1>4. CASE Till
    BY <1>1, <1>2, <1>4 DEF Records, till, Till, BeginReconcile,
       RestoreSelling, CountQueue, Acknowledge, CloseTill
  <1>5. UNCHANGED till \/ Till
    BY DEF Next, vars, Cart, QueueStep, Mirrored, Replay, Ring, SaveOffline,
           SendCheckout, RecordBlocker, CheckoutRefused, CheckoutDone, Flush,
           FlushRefused, FlushDone, AutoResolve, Mirror, Adopt, AdoptPrior,
           ServeResolve, RecordSale, Lose, Straggle, Execute, Finalize,
           DropReplay, Restart
  <1>6. QED BY <1>3, <1>4, <1>5

(* Every step keeps the types of the register's state.                     *)
LEMMA StationStep ==
    ASSUME QueueKinds, JobKinds, Station, [Next]_vars
    PROVE  Station'
  <1> USE ItemKinds DEF Station, till, client, net, books
  <1>1. CASE UNCHANGED vars
    BY <1>1 DEF vars
  <1>2. ASSUME NEW c \in Checkouts, Cart(c) PROVE Station'
    BY <1>2 DEF Cart, Ring, SaveOffline, SendCheckout, RecordBlocker,
       CheckoutRefused, CheckoutDone, Authorize
  <1>3. ASSUME NEW c \in Checkouts, QueueStep(c) PROVE Station'
    BY ZenonT(60), <1>3 DEF QueueStep, Flush, FlushRefused, FlushDone, AutoResolve,
       Authorize
  <1>4. ASSUME NEW x \in Callers, RecordSale(x) PROVE Station'
    BY ZenonT(60), <1>4 DEF RecordSale
  <1>5. ASSUME NEW x \in Callers, Lose(x) PROVE Station'
    BY <1>5 DEF Lose
  <1>6. ASSUME NEW c \in Checkouts, Straggle(c) PROVE Station'
    BY <1>6 DEF Straggle
  <1>7. ASSUME NEW i \in Items, Mirrored(i) PROVE Station'
    BY <1>7 DEF Mirrored, Mirror, Adopt, AdoptPrior, ServeResolve
  <1>8. ASSUME NEW m \in Managers, Replay(m) PROVE Station'
    <2>1. UNCHANGED << cart, locked, tried, call, stale, count >>
      BY <1>8 DEF Replay, Execute, Finalize, DropReplay
    <2>2. \/ \E i \in Items : manager' = [manager EXCEPT ![m] = i]
          \/ manager' = [manager EXCEPT ![m] = None]
      BY <1>8 DEF Replay, Execute, Finalize, DropReplay
    <2>3. QED BY <2>1, <2>2
  <1>9. CASE Restart
    BY <1>9 DEF Restart
  <1>10. CASE Till
    BY <1>10 DEF Till, BeginReconcile, RestoreSelling, CountQueue,
       Acknowledge, CloseTill
  <1>11. QED
    BY <1>1, <1>2, <1>3, <1>4, <1>5, <1>6, <1>7, <1>8, <1>9, <1>10 DEF Next

(* Every step keeps the types, and an unconfirmed item blocking.           *)
LEMMA TypeStep ==
    ASSUME TypeOK, UnconfirmedBlocks, [Next]_vars
    PROVE  TypeOK' /\ UnconfirmedBlocks'
  <1>1. /\ QueueKinds /\ JobKinds /\ ResolvingKinds /\ MirrorKinds
        /\ Records /\ Station
    BY KindsAreTypes
  <1>2. /\ QueueKinds' /\ JobKinds' /\ ResolvingKinds' /\ MirrorKinds'
        /\ Records' /\ Station'
    BY <1>1, KindsStep, MirrorStep, RecordsStep, StationStep DEF Station
  <1>3. QED
    BY <1>2 DEF TypeOK, UnconfirmedBlocks, QueueKinds, JobKinds,
       ResolvingKinds, MirrorKinds, Records, Station
-----------------------------------------------------------------------------
(* A sale is made once, by the register in an open session or by a replay;  *)
(* the step leaves the session, the jobs and the evidence alone.            *)
LEMMA SaleMoves ==
    ASSUME TypeOK, [Next]_vars, NEW c \in Checkouts
    PROVE  \/ sale'[c] = sale[c]
           \/ /\ ~Sold(c) /\ Sold(c)'
              /\ sale'[c].closed = (phase = "closed")
              /\ sale'[c].by = "register" => phase = "open"
              /\ UNCHANGED << till, job, evidence >>
  <1>1. ASSUME NEW d \in Checkouts, ~Sold(d),
               NEW who \in {"register", "offline", "unconfirmed"},
               Insert(d, who), UNCHANGED << till, job, evidence >>,
               who = "register" => phase = "open"
        PROVE  \/ sale'[c] = sale[c]
               \/ /\ ~Sold(c) /\ Sold(c)'
                  /\ sale'[c].closed = (phase = "closed")
                  /\ sale'[c].by = "register" => phase = "open"
                  /\ UNCHANGED << till, job, evidence >>
    <2>1. sale'[c] = IF c = d THEN [closed |-> phase = "closed", by |-> who]
                     ELSE sale[c]
      BY <1>1 DEF Insert, TypeOK
    <2>2. CASE c = d
      <3>1. /\ sale'[c].closed = (phase = "closed")
            /\ sale'[c].by = who
        BY <2>1, <2>2
      <3>2. sale'[c] # NotSold
        BY <3>1 DEF NotSold
      <3>3. QED BY <1>1, <2>2, <3>1, <3>2 DEF Sold
    <2>3. QED BY <2>1, <2>2
  <1>2. ASSUME NEW x \in Callers, RecordSale(x)
        PROVE  \/ UNCHANGED sale
               \/ /\ ~Sold(x[1]) /\ Insert(x[1], "register")
                  /\ UNCHANGED << till, job, evidence >> /\ phase = "open"
    BY <1>2 DEF RecordSale, MaySell
  <1>3. ASSUME NEW d \in Checkouts, Straggle(d)
        PROVE  \/ UNCHANGED sale
               \/ /\ ~Sold(d) /\ Insert(d, "register")
                  /\ UNCHANGED << till, job, evidence >> /\ phase = "open"
    BY <1>3 DEF Straggle, MaySell
  <1>4. ASSUME NEW m \in Managers, NEW i \in Items, Execute(m, i)
        PROVE  \/ UNCHANGED sale
               \/ /\ ~Sold(i[1]) /\ Insert(i[1], i[2])
                  /\ UNCHANGED << till, job, evidence >>
    BY <1>4 DEF Execute
  <1>5. QED BY <1>1, <1>2, <1>3, <1>4, SaleTouched, ItemKinds

(* A sale, once recorded, is not undone or changed.                        *)
LEMMA SoldStays ==
    ASSUME TypeOK, [Next]_vars, NEW c \in Checkouts, Sold(c)
    PROVE  Sold(c)' /\ sale'[c] = sale[c]
  BY SaleMoves DEF Sold

(* What a step does to the job of an item: the mirror moves it among the    *)
(* open states and never back from blocked, the register settles it when    *)
(* its sale is there, and so does a Manager's replay past its checkout, with *)
(* the evidence.                                                            *)
Mirrors(i) == job[i] \in {"none", "pending"} /\ job'[i] \in {"pending", "blocked"}
Settles(i) ==
    job[i] \in {"pending", "blocked"} /\ Sold(i[1]) /\ job'[i] = "by_register"
Repairs(i) ==
    /\ ~Resolved(job[i]) /\ job'[i] = "by_manager"
    /\ \E m \in Managers : manager[m] = i /\ manager[m] # None
    /\ evidence' = IF PostClose(i) THEN evidence \cup {i} ELSE evidence

(* What any step can do to the recovery job of an item.                    *)
LEMMA JobMoves ==
    ASSUME TypeOK, UnconfirmedBlocks, [Next]_vars, NEW i \in Items
    PROVE  \/ job'[i] = job[i]
           \/ Mirrors(i)
           \/ Settles(i)
           \/ Repairs(i)
  <1> USE ItemKinds
  <1>1. ASSUME NEW j \in Items, NEW status \in {"pending", "blocked"},
               job' = [job EXCEPT ![j] = Upsert(j, status)]
        PROVE  job'[i] = job[i] \/ Mirrors(i)
    BY <1>1 DEF Upsert, Mirrors, TypeOK
  <1>2. ASSUME NEW j \in Items, AuditSync(j), queue[j] # "none"
        PROVE  job'[i] = job[i] \/ Mirrors(i)
    <2>1. queue[j] \in {"pending", "blocked"}
      BY <1>2 DEF TypeOK
    <2>2. job' = [job EXCEPT ![j] = Upsert(j, queue[j])]
      BY <1>2 DEF AuditSync
    <2>3. QED BY <1>1, <2>1, <2>2
  <1>3. ASSUME NEW j \in Items, NEW status \in {"pending", "blocked"},
               Store(j, status)
        PROVE  job'[i] = job[i] \/ Mirrors(i)
    BY <1>1, <1>3 DEF Store
  <1>4. ASSUME NEW c \in Checkouts,
               \/ SaveOffline(c) \/ RecordBlocker(c) \/ FlushRefused(c)
        PROVE  job'[i] = job[i] \/ Mirrors(i)
    BY <1>3, <1>4 DEF SaveOffline, RecordBlocker, FlushRefused
  <1>5. ASSUME NEW c \in Checkouts,
               CheckoutDone(c) \/ FlushDone(c) \/ AutoResolve(c)
        PROVE  job'[i] = job[i] \/ Mirrors(i)
    BY <1>2, <1>5 DEF CheckoutDone, FlushDone, AutoResolve, NoAuditSync
  <1>6. ASSUME NEW j \in Items, Mirror(j)
        PROVE  job'[i] = job[i] \/ Mirrors(i)
    BY <1>1, <1>6 DEF Mirror, TypeOK
  <1>7. ASSUME NEW j \in Items, Adopt(j) \/ AdoptPrior(j)
        PROVE  job'[i] = job[i]
    BY <1>7 DEF Adopt, AdoptPrior, books
  <1>8. ASSUME NEW j \in Items, ServeResolve(j)
        PROVE  job'[i] = job[i] \/ Settles(i)
    <2>1. \/ UNCHANGED job
          \/ /\ job[j] \in {"pending", "blocked", "by_register"} /\ Sold(j[1])
             /\ job' = [job EXCEPT ![j] = "by_register"]
      BY <1>8 DEF ServeResolve, Verified
    <2>2. QED BY <2>1 DEF Settles, TypeOK
  <1>9. ASSUME NEW m \in Managers, Finalize(m)
        PROVE  job'[i] = job[i] \/ Repairs(i)
    <2> DEFINE j == manager[m]
    <2>1. /\ j # None
          /\ \/ UNCHANGED job
             \/ /\ ~Resolved(job[j])
                /\ job' = [job EXCEPT ![j] = "by_manager"]
                /\ evidence' = IF PostClose(j) THEN evidence \cup {j}
                               ELSE evidence
      BY <1>9 DEF Finalize
    <2>2. QED BY <2>1 DEF Repairs, TypeOK
  <1>10. QED BY <1>4, <1>5, <1>6, <1>7, <1>8, <1>9, QueueTouched

(* What changes the queue: an item is stored, or taken away once it is      *)
(* settled; nothing else takes it away.                                     *)
LEMMA QueueMoves ==
    ASSUME TypeOK, UnconfirmedBlocks, SettledIsSold, [Next]_vars,
           NEW i \in Items, queue'[i] = "none", queue[i] # "none"
    PROVE  Sold(i[1])
  <1> USE ItemKinds
  <1>1. ASSUME NEW j \in Items, NEW status \in {"pending", "blocked"},
               Store(j, status)
        PROVE  FALSE
    BY <1>1 DEF Store, TypeOK
  <1>2. ASSUME NEW j \in Items, AuditSync(j), queue[j] # "none"
        PROVE  Sold(i[1])
    <2>1. i = j /\ Resolved(job'[j])
      BY <1>2 DEF AuditSync, TypeOK
    <2>2. job'[j] = Upsert(j, queue[j])
      BY <1>2 DEF AuditSync, TypeOK
    <2>3. Resolved(job[j])
      BY <2>1, <2>2 DEF Upsert, Resolved, TypeOK
    <2>4. QED BY <2>1, <2>3 DEF SettledIsSold
  <1>3. ASSUME NEW c \in Checkouts,
               \/ SaveOffline(c) \/ RecordBlocker(c) \/ FlushRefused(c)
        PROVE  FALSE
    BY <1>1, <1>3 DEF SaveOffline, RecordBlocker, FlushRefused
  <1>4. ASSUME NEW c \in Checkouts,
               CheckoutDone(c) \/ FlushDone(c) \/ AutoResolve(c)
        PROVE  Sold(i[1])
    BY <1>2, <1>4 DEF CheckoutDone, FlushDone, AutoResolve, NoAuditSync
  <1>5. ASSUME NEW j \in Items, Adopt(j)
        PROVE  Sold(i[1])
    <2>1. i = j /\ mirror[j] \in {"idle", "resolved"}
      BY <1>5 DEF Adopt, Adopted, TypeOK
    <2>2. QED BY <1>5, <2>1 DEF Adopt, SettledIsSold
  <1>6. ASSUME NEW j \in Items, AdoptPrior(j)
        PROVE  Sold(i[1])
    <2>1. i = j /\ Resolved(job[j])
      BY <1>6 DEF AdoptPrior, Adopted, Seen, TypeOK
    <2>2. QED BY <2>1 DEF SettledIsSold
  <1>7. ASSUME NEW j \in Items, ServeResolve(j)
        PROVE  Sold(i[1])
    <2>1. resolving[j] \in {"pending", "blocked"}
      BY <1>7 DEF ServeResolve, TypeOK
    <2>2. \/ Sold(j[1]) /\ queue' = [queue EXCEPT ![j] = "none"]
          \/ queue' = [queue EXCEPT ![j] = resolving[j]]
      BY <1>7 DEF ServeResolve, Verified
    <2>3. QED BY <2>1, <2>2 DEF TypeOK
  <1>8. ASSUME NEW j \in Items, Mirror(j)
        PROVE  FALSE
    BY <1>8 DEF Mirror
  <1>9. ASSUME NEW m \in Managers, Finalize(m)
        PROVE  FALSE
    BY <1>9 DEF Finalize, client
  <1>10. QED BY <1>3, <1>4, <1>5, <1>6, <1>7, <1>8, <1>9, QueueTouched

(* A cart is done once the sale is stored offline, or made.                *)
LEMMA CartMoves ==
    ASSUME TypeOK, SettledIsSold, [Next]_vars, NEW c \in Checkouts,
           cart'[c] = "done", cart[c] # "done"
    PROVE  Sold(c) \/ queue'[Offline(c)] # "none"
  <1>1. \/ UNCHANGED cart
        \/ Restart
        \/ \E d \in Checkouts :
              \/ Ring(d) \/ SaveOffline(d) \/ RecordBlocker(d)
              \/ CheckoutRefused(d) \/ CheckoutDone(d)
    BY DEF Next, vars, till, client, net, books, Cart, QueueStep, Mirrored,
           Replay, Till, SendCheckout, Flush, FlushRefused, FlushDone,
           AutoResolve, Mirror, Adopt, AdoptPrior, ServeResolve, RecordSale,
           Lose, Straggle, Execute, Finalize, DropReplay, BeginReconcile,
           RestoreSelling, CountQueue, Acknowledge, CloseTill
  <1>2. CASE Restart
    BY <1>2 DEF Restart, TypeOK
  <1>3. ASSUME NEW d \in Checkouts,
               Ring(d) \/ RecordBlocker(d) \/ CheckoutRefused(d)
        PROVE  FALSE
    BY <1>3 DEF Ring, RecordBlocker, CheckoutRefused, TypeOK
  <1>4. ASSUME NEW d \in Checkouts, SaveOffline(d)
        PROVE  queue'[Offline(c)] # "none"
    BY <1>4, ItemKinds DEF SaveOffline, Store, TypeOK
  <1>5. ASSUME NEW d \in Checkouts, CheckoutDone(d)
        PROVE  Sold(c)
    <2>1. c = d
      BY <1>5 DEF CheckoutDone, TypeOK
    <2>2. << c, "cart" >> \in Callers /\ << c, "cart" >>[1] = c
      BY ItemKinds
    <2>3. QED BY <1>5, <2>1, <2>2 DEF CheckoutDone, SettledIsSold
  <1>6. QED BY <1>1, <1>2, <1>3, <1>4, <1>5

(* No step lets a ringing checkout drop out of queue, job and sale.        *)
LEMMA NothingForgottenStep ==
    ASSUME TypeOK, UnconfirmedBlocks, SettledIsSold, NothingForgotten,
           [Next]_vars
    PROVE  NothingForgotten'
  <1> SUFFICES ASSUME NEW c \in Checkouts, cart'[c] = "done"
               PROVE  Sold(c)' \/ queue'[Offline(c)] # "none"
    BY DEF NothingForgotten
  <1>1. CASE Sold(c)
    BY <1>1, SoldStays
  <1>2. CASE ~Sold(c) /\ cart[c] # "done"
    BY <1>2, CartMoves
  <1>3. CASE ~Sold(c) /\ cart[c] = "done"
    <2>1. queue[Offline(c)] # "none"
      BY <1>3 DEF NothingForgotten
    <2>2. Offline(c) \in Items /\ Offline(c)[1] = c
      BY ItemKinds
    <2>3. queue'[Offline(c)] = "none" => Sold(Offline(c)[1])
      BY <2>1, <2>2, QueueMoves
    <2>4. QED BY <1>3, <2>2, <2>3
  <1>4. QED BY <1>1, <1>2, <1>3

(* The till changes by a close, which writes the report, or before it.      *)
LEMMA TillMoves ==
    ASSUME TypeOK, [Next]_vars
    PROVE  \/ UNCHANGED << phase, report >>
           \/ CloseTill
           \/ phase # "closed" /\ phase' # "closed" /\ UNCHANGED << report, sale >>
  BY DEF Next, vars, till, client, net, books, Cart, QueueStep, Mirrored,
         Replay, Till, Ring, SaveOffline, SendCheckout, RecordBlocker,
         CheckoutRefused, CheckoutDone, Flush, FlushRefused, FlushDone,
         AutoResolve, Mirror, Adopt, AdoptPrior, ServeResolve, RecordSale,
         Lose, Straggle, Execute, Finalize, DropReplay, Restart,
         BeginReconcile, RestoreSelling, CountQueue, Acknowledge

(* The drawer's report keeps counting the sales of the register.           *)
LEMMA ReportStep ==
    ASSUME TypeOK, ReportOK, RegisterSalesReported, [Next]_vars
    PROVE  ReportOK' /\ RegisterSalesReported'
  <1> DEFINE Right(c) ==
        /\ c \in report => Sold(c)
        /\ Sold(c) => (sale[c].closed <=> phase = "closed" /\ c \notin report)
        /\ Sold(c) /\ phase = "closed" /\ sale[c].by = "register" => c \in report
  <1>1. \A c \in Checkouts : Right(c)
    BY DEF ReportOK, RegisterSalesReported
  <1>2. phase' # "closed" => report' = {}
    BY TillMoves DEF ReportOK, CloseTill
  <1>3. ASSUME NEW c \in Checkouts
        PROVE  Right(c)'
    <2>1. Right(c) /\ (phase # "closed" => c \notin report)
      BY <1>1 DEF ReportOK
    <2>2. CASE CloseTill
      <3>1. /\ phase # "closed" /\ phase' = "closed" /\ UNCHANGED sale
            /\ report' = {d \in Checkouts : Sold(d)}
        BY <2>2 DEF CloseTill, books
      <3>2. QED BY <2>1, <3>1 DEF Sold
    <2>3. CASE UNCHANGED << phase, report >>
      <3>1. CASE sale'[c] = sale[c]
        BY <2>1, <2>3, <3>1 DEF Sold
      <3>2. CASE sale'[c] # sale[c]
        <4>1. /\ ~Sold(c)
              /\ sale'[c].closed = (phase = "closed")
              /\ sale'[c].by = "register" => phase = "open"
          BY <3>2, SaleMoves
        <4>2. QED BY <2>1, <2>3, <4>1
      <3>3. QED BY <3>1, <3>2
    <2>4. CASE /\ phase # "closed" /\ phase' # "closed"
               /\ UNCHANGED << report, sale >>
      BY <2>1, <2>4 DEF Sold
    <2>5. QED BY <2>2, <2>3, <2>4, TillMoves
  <1>4. report' \subseteq Checkouts
    BY TillMoves DEF TypeOK, CloseTill
  <1>5. QED BY <1>2, <1>3, <1>4 DEF ReportOK, RegisterSalesReported

(* Only a Manager's settlement writes evidence.                            *)
LEMMA EvidenceMoves ==
    ASSUME TypeOK, [Next]_vars
    PROVE  \/ UNCHANGED evidence
           \/ \E m \in Managers :
                 /\ manager[m] \in Items /\ ~Resolved(job[manager[m]])
                 /\ job' = [job EXCEPT ![manager[m]] = "by_manager"]
                 /\ evidence' \in {evidence, evidence \cup {manager[m]}}
  <1>1. ASSUME NEW m \in Managers, Finalize(m)
        PROVE  \/ UNCHANGED evidence
               \/ /\ manager[m] \in Items /\ ~Resolved(job[manager[m]])
                  /\ job' = [job EXCEPT ![manager[m]] = "by_manager"]
                  /\ evidence' \in {evidence, evidence \cup {manager[m]}}
    BY <1>1 DEF Finalize, TypeOK
  <1>2. UNCHANGED evidence \/ \E m \in Managers : Finalize(m)
    BY DEF Next, vars, till, client, net, books, Cart, QueueStep, Mirrored,
           Replay, Till, Ring, SaveOffline, SendCheckout, RecordBlocker,
           CheckoutRefused, CheckoutDone, Flush, FlushRefused, FlushDone,
           AutoResolve, Mirror, Adopt, AdoptPrior, ServeResolve, RecordSale,
           Lose, Straggle, Execute, DropReplay, Restart, BeginReconcile,
           RestoreSelling, CountQueue, Acknowledge, CloseTill
  <1>3. QED BY <1>1, <1>2

(* The evidence keeps to the items closed over, whoever settles them.      *)
LEMMA EvidenceStep ==
    ASSUME TypeOK, UnconfirmedBlocks, SettledIsSold, EvidenceOK, [Next]_vars
    PROVE  EvidenceOK'
  <1>1. \A i \in evidence' : job'[i] = "by_manager"
    <2>1. CASE UNCHANGED evidence
      <3> SUFFICES ASSUME NEW i \in evidence
                   PROVE  job'[i] = "by_manager"
        BY <2>1
      <3>1. job[i] = "by_manager" /\ i \in Items
        BY DEF EvidenceOK, TypeOK
      <3>2. QED BY <3>1, JobMoves DEF Mirrors, Settles, Repairs, Resolved
    <2>2. ASSUME NEW m \in Managers,
                 /\ manager[m] \in Items /\ ~Resolved(job[manager[m]])
                 /\ job' = [job EXCEPT ![manager[m]] = "by_manager"]
                 /\ evidence' \in {evidence, evidence \cup {manager[m]}}
          PROVE  \A i \in evidence' : job'[i] = "by_manager"
      BY <2>2 DEF EvidenceOK, TypeOK
    <2>3. QED BY <2>1, <2>2, EvidenceMoves
  <1>2. ASSUME NEW i \in Items, job'[i] = "by_manager",
               sale'[i[1]].by = i[2]
        PROVE  i \in evidence' <=> sale'[i[1]].closed
    <2>1. i[1] \in Checkouts
      BY ItemKinds
    <2>2. CASE job[i] = "by_manager"
      <3>1. Sold(i[1])
        BY <2>2 DEF SettledIsSold, Resolved
      <3>2. sale'[i[1]] = sale[i[1]]
        BY <2>1, <3>1, SoldStays
      <3>3. i \in evidence' <=> i \in evidence
        BY <2>2, EvidenceMoves DEF Resolved
      <3>4. QED BY <1>2, <2>2, <3>2, <3>3 DEF EvidenceOK
    <2>3. CASE job[i] # "by_manager"
      <3>1. Repairs(i)
        BY <1>2, <2>3, JobMoves DEF Mirrors, Settles
      <3>2. Sold(i[1])
        <4>1. PICK m \in Managers : manager[m] = i /\ manager[m] # None
          BY <3>1 DEF Repairs
        <4>2. QED BY <4>1 DEF SettledIsSold
      <3>3. sale'[i[1]] = sale[i[1]]
        BY <2>1, <3>2, SoldStays
      <3>4. i \notin evidence
        BY <2>3 DEF EvidenceOK
      <3>5. PostClose(i) <=> sale[i[1]].closed
        BY <1>2, <3>3 DEF PostClose
      <3>6. QED BY <3>1, <3>3, <3>4, <3>5 DEF Repairs
    <2>4. QED BY <2>2, <2>3
  <1>3. QED BY <1>1, <1>2 DEF EvidenceOK

(* What is settled has its sale, in every step.                            *)
LEMMA SettledStep ==
    ASSUME TypeOK, UnconfirmedBlocks, SettledIsSold, [Next]_vars
    PROVE  SettledIsSold'
  <1>1. \A i \in Items : Sold(i[1]) => Sold(i[1])'
    BY SoldStays, ItemKinds
  <1>2. ASSUME NEW i \in Items, Resolved(job'[i])
        PROVE  Sold(i[1])
    <2>1. CASE Resolved(job[i])
      BY <2>1 DEF SettledIsSold
    <2>2. CASE ~Resolved(job[i])
      <3>1. Settles(i) \/ Repairs(i)
        BY <1>2, <2>2, JobMoves DEF Mirrors, Resolved
      <3>2. QED BY <3>1 DEF Settles, Repairs, SettledIsSold
    <2>3. QED BY <2>1, <2>2
  <1>3. ASSUME NEW i \in Items, mirror'[i] = "resolved"
        PROVE  Sold(i[1])
    <2>1. ASSUME NEW j \in Items, Mirror(j), mirror'[i] # mirror[i]
          PROVE  Sold(i[1])
      <3>1. i = j /\ mirror'[i] = Seen(job'[i])
        BY <2>1 DEF Mirror, TypeOK
      <3>2. CASE Resolved(job'[i])
        BY <1>2, <3>2
      <3>3. CASE ~Resolved(job'[i])
        <4>1. queue[i] \in {"pending", "blocked"}
          BY <2>1, <3>1 DEF Mirror, TypeOK
        <4>2. job'[i] = Upsert(i, queue[i])
          BY <2>1, <3>1 DEF Mirror, TypeOK
        <4>3. job'[i] # "resolved"
          BY <4>1, <4>2 DEF Upsert, TypeOK
        <4>4. QED BY <1>3, <3>1, <3>3, <4>3 DEF Seen
      <3>4. QED BY <3>2, <3>3
    <2>2. \/ UNCHANGED mirror
          \/ Restart
          \/ \E j \in Items : Mirror(j) \/ Adopt(j)
          \/ \E c \in Checkouts : AutoResolve(c)
      BY DEF Next, vars, till, client, net, books, Cart, QueueStep, Mirrored,
             Replay, Till, Ring, SaveOffline, SendCheckout, RecordBlocker,
             CheckoutRefused, CheckoutDone, Flush, FlushRefused, FlushDone,
             AdoptPrior, ServeResolve, RecordSale, Lose, Straggle, Execute,
             Finalize, DropReplay, BeginReconcile, RestoreSelling, CountQueue,
             Acknowledge, CloseTill
    <2>3. CASE mirror'[i] = mirror[i]
      BY <1>3, <2>3 DEF SettledIsSold
    <2>4. CASE Restart
      BY <1>3, <2>4 DEF Restart
    <2>5. ASSUME NEW j \in Items, Adopt(j)
          PROVE  mirror'[i] = mirror[i]
      BY <1>3, <2>5 DEF Adopt, TypeOK
    <2>6. ASSUME NEW c \in Checkouts, AutoResolve(c)
          PROVE  mirror'[i] = mirror[i]
      BY <1>3, <2>6 DEF AutoResolve, TypeOK
    <2>7. QED BY <2>1, <2>2, <2>3, <2>4, <2>5, <2>6
  <1>4. ASSUME NEW m \in Managers, manager'[m] # None
        PROVE  Sold(manager[m][1])'
    <2>1. \/ UNCHANGED manager
          \/ \E n \in Managers, i \in Items : Execute(n, i)
          \/ \E n \in Managers : manager' = [manager EXCEPT ![n] = None]
      BY DEF Next, vars, till, client, net, books, Cart, QueueStep, Mirrored,
             Replay, Till, Ring, SaveOffline, SendCheckout, RecordBlocker,
             CheckoutRefused, CheckoutDone, Flush, FlushRefused, FlushDone,
             AutoResolve, Mirror, Adopt, AdoptPrior, ServeResolve, RecordSale,
             Lose, Straggle, Finalize, DropReplay, Restart, BeginReconcile,
             RestoreSelling, CountQueue, Acknowledge, CloseTill
    <2>2. CASE manager'[m] = manager[m]
      <3>1. manager[m] \in Items /\ Sold(manager[m][1])
        BY <1>4, <2>2 DEF SettledIsSold, TypeOK
      <3>2. QED BY <1>1, <2>2, <3>1
    <2>3. ASSUME NEW n \in Managers, NEW i \in Items, Execute(n, i),
                 manager'[m] # manager[m]
          PROVE  Sold(manager[m][1])'
      <3>1. manager'[m] = i
        BY <2>3 DEF Execute, TypeOK
      <3>2. CASE Sold(i[1])
        BY <1>1, <3>1, <3>2
      <3>3. CASE ~Sold(i[1])
        <4>1. Insert(i[1], i[2]) /\ i[1] \in Checkouts /\ i[2] # "nobody"
          BY <2>3, <3>3, ItemKinds DEF Execute
        <4>2. sale'[i[1]].by = i[2]
          BY <4>1 DEF Insert, TypeOK
        <4>3. Sold(i[1])'
          BY <4>1, <4>2 DEF Sold, NotSold
        <4>4. QED BY <3>1, <4>3
      <3>4. QED BY <3>2, <3>3
    <2>4. QED BY <1>4, <2>1, <2>2, <2>3 DEF TypeOK
  <1>5. ASSUME NEW x \in Callers, call'[x] = "ok"
        PROVE  Sold(x[1])'
    <2>1. x[1] \in Checkouts
      BY ItemKinds
    <2>2. CASE call[x] = "ok"
      BY <2>1, <2>2, SoldStays DEF SettledIsSold
    <2>3. CASE call[x] # "ok"
      <3>1. ASSUME NEW y \in Callers, Authorize(y)
            PROVE  Sold(x[1])
        BY <1>5, <2>3, <3>1 DEF Authorize, TypeOK
      <3>2. ASSUME NEW y \in Callers, RecordSale(y)
            PROVE  Sold(x[1])'
        <4>1. x = y /\ MaySell(FALSE)
          BY ZenonT(60), <1>5, <2>3, <3>2 DEF RecordSale, TypeOK
        <4>2. Sold(x[1]) \/ Insert(x[1], "register")
          BY <3>2, <4>1 DEF RecordSale
        <4>3. CASE Sold(x[1])
          BY <2>1, <4>3, SoldStays
        <4>4. CASE Insert(x[1], "register")
          <5>1. sale'[x[1]].by = "register"
            BY <2>1, <4>4 DEF Insert, TypeOK
          <5>2. QED BY <5>1 DEF Sold, NotSold
        <4>5. QED BY <4>2, <4>3, <4>4
      <3>3. \/ UNCHANGED call
            \/ Restart
            \/ \E y \in Callers :
                  \/ Authorize(y)
                  \/ RecordSale(y)
                  \/ call' = [call EXCEPT ![y] = "idle"]
        BY ItemKinds
        DEF Next, vars, till, client, net, books, Cart, QueueStep, Mirrored,
            Replay, Till, Ring, SaveOffline, SendCheckout, RecordBlocker,
            CheckoutRefused, CheckoutDone, Flush, FlushRefused, FlushDone,
            AutoResolve, Mirror, Adopt, AdoptPrior, ServeResolve, Lose,
            Straggle, Execute, Finalize, DropReplay, BeginReconcile,
            RestoreSelling, CountQueue, Acknowledge, CloseTill
      <3>4. QED
        BY ZenonT(60), <1>5, <2>1, <2>3, <3>1, <3>2, <3>3, SoldStays DEF Restart, TypeOK
    <2>4. QED BY <2>2, <2>3
  <1>6. QED BY <1>1, <1>2, <1>3, <1>4, <1>5 DEF SettledIsSold

-----------------------------------------------------------------------------
(* No checkout has begun.                                                  *)
LEMMA InitHolds == Init => IInv
  <1> SUFFICES ASSUME Init PROVE IInv
    OBVIOUS
  <1>1. \A c \in Checkouts : ~Sold(c)
    BY DEF Init, Sold
  <1>2. TypeOK /\ UnconfirmedBlocks
    BY ItemKinds DEF Init, TypeOK, UnconfirmedBlocks, NotSold
  <1>3. NothingForgotten /\ RegisterSalesReported /\ ReportOK
    BY <1>1 DEF Init, NothingForgotten, RegisterSalesReported, ReportOK
  <1>4. SettledIsSold /\ EvidenceOK
    BY DEF Init, SettledIsSold, EvidenceOK, Resolved
  <1>5. QED BY <1>2, <1>3, <1>4 DEF IInv

(* Every step keeps the invariant.                                         *)
LEMMA InvStep == IInv /\ [Next]_vars => IInv'
  BY TypeStep, NothingForgottenStep, ReportStep, SettledStep, EvidenceStep
  DEF IInv

(* The invariant holds throughout.                                         *)
LEMMA IInvariant == Spec => []IInv
  BY InitHolds, InvStep, PTL DEF Spec

(* Every variable keeps its type (TypeOK).                                 *)
THEOREM TypeCorrect == Spec => []TypeOK
  <1>1. IInv => TypeOK
    BY DEF IInv
  <1>2. QED BY <1>1, IInvariant, PTL

(* Once a customer has left, the sale is recorded or its copy is queued, for *)
(* any number of checkouts, replays, lost answers and restarts.              *)
THEOREM NothingForgottenHolds == Spec => []NothingForgotten
  <1>1. IInv => NothingForgotten
    BY DEF IInv
  <1>2. QED BY <1>1, IInvariant, PTL

(* No sale of the register's own gets past the close of its till.          *)
THEOREM RegisterSalesReportedHolds == Spec => []RegisterSalesReported
  <1>1. IInv => RegisterSalesReported
    BY DEF IInv
  <1>2. QED BY <1>1, IInvariant, PTL

(* A Manager's settlement leaves evidence exactly for a sale the Z-report   *)
(* does not count, whatever closed the till between its two transactions.   *)
THEOREM EvidenceIsExactHolds == Spec => []EvidenceIsExact
  <1>1. IInv => EvidenceIsExact
    <2> SUFFICES ASSUME IInv, NEW i \in Items, sale[i[1]].by = i[2],
                        job[i] = "by_manager", phase = "closed"
                 PROVE  i \in evidence <=> i[1] \notin report
      BY DEF EvidenceIsExact
    <2>1. i[1] \in Checkouts /\ Sold(i[1])
      BY ItemKinds DEF IInv, SettledIsSold, Resolved
    <2>2. QED BY <2>1 DEF IInv, ReportOK, EvidenceOK
  <1>2. QED BY <1>1, IInvariant, PTL

(* A blocked job is only ever settled, and a settled one keeps its verdict. *)
THEOREM BlockedStaysHolds == Spec => BlockedStays
  <1>1. IInv /\ [Next]_vars =>
            [\A i \in Items :
                /\ job[i] = "blocked" => job'[i] # "pending"
                /\ Resolved(job[i]) => job'[i] = job[i]]_vars
    <2> SUFFICES ASSUME IInv, [Next]_vars, NEW i \in Items
                 PROVE  /\ job[i] = "blocked" => job'[i] # "pending"
                        /\ Resolved(job[i]) => job'[i] = job[i]
      OBVIOUS
    <2>1. \/ job'[i] = job[i]
          \/ Mirrors(i) \/ Settles(i) \/ Repairs(i)
      BY JobMoves DEF IInv
    <2>2. QED BY <2>1 DEF Mirrors, Settles, Repairs, Resolved
  <1>2. QED BY <1>1, IInvariant, PTL DEF Spec, BlockedStays
=============================================================================

---------------------------- MODULE HelcimEvents ----------------------------
(***************************************************************************)
(* helcim_event_log: the ledger that decides which delivery of a webhook   *)
(* is processed (record_helcim_event, post_helcim_webhook and              *)
(* replay_helcim_event in server/src/api/webhooks.rs).                     *)
(*                                                                         *)
(* A delivery claims its event's row for three minutes; processing is cut  *)
(* off after two and a half.  CardTerminal takes from here that an event   *)
(* acts on the payment attempts once (its variable heard).                 *)
(***************************************************************************)
EXTENDS Naturals

CONSTANTS
    Events,     \* webhook-id values
    Ignored,    \* those of a type ROS does not handle
    Handlers,   \* requests: deliveries by Helcim, replays by staff
    NoEvent,
    MaxFaults   \* bound: crashes, lost or late markings

ASSUME HelcimEventsAssumption ==
    /\ Ignored \subseteq Events
    /\ NoEvent \notin Events
    /\ MaxFaults \in Nat

VARIABLES
    row,      \* processing_status
    lapsed,   \* the claim is older than the processing lease
    applied,  \* committed transactions of the event's handler
    event,    \* what a handler is at work on
    pc,       \* idle, work, failing (its error is still to be marked)
    overran,  \* history: events whose lease lapsed under a live handler
    faults

logVars == << row, lapsed, applied, event, pc, overran, faults >>

Final == {"processed", "ignored"}

LogTypeOK ==
    /\ row \in [Events -> {"absent", "received", "failed"} \cup Final]
    /\ lapsed \in [Events -> BOOLEAN]
    /\ applied \in [Events -> Nat]
    /\ event \in [Handlers -> Events \cup {NoEvent}]
    /\ pc \in [Handlers -> {"idle", "work", "failing"}]
    /\ \A h \in Handlers : pc[h] = "idle" <=> event[h] = NoEvent
    /\ overran \in SUBSET Events
    /\ faults \in Nat

LogInit ==
    /\ row = [e \in Events |-> "absent"]
    /\ lapsed = [e \in Events |-> FALSE]
    /\ applied = [e \in Events |-> 0]
    /\ event = [h \in Handlers |-> NoEvent]
    /\ pc = [h \in Handlers |-> "idle"]
    /\ overran = {}
    /\ faults = 0

At(e, place) == { h \in Handlers : event[h] = e /\ pc[h] = place }

Stop(h) ==
    /\ event' = [event EXCEPT ![h] = NoEvent]
    /\ pc' = [pc EXCEPT ![h] = "idle"]

Claim(h, e) ==
    /\ pc[h] = "idle"
    /\ row' = [row EXCEPT ![e] = "received"]
    /\ lapsed' = [lapsed EXCEPT ![e] = FALSE]
    /\ event' = [event EXCEPT ![h] = e]
    /\ pc' = [pc EXCEPT ![h] = "work"]
    /\ UNCHANGED << applied, overran, faults >>

(* Variants, for the mutants: a lapsed lease is never taken over, it does  *)
(* not protect, a final event is claimed again.                            *)
ClaimableNoLapse(e) == row[e] \in {"absent", "failed"}
ClaimableNoLease(e) == row[e] \in {"absent", "failed", "received"}
ClaimableFinal(e)   == row[e] # "received" \/ lapsed[e]

(* The INSERT ... ON CONFLICT DO UPDATE ... WHERE of record_helcim_event.  *)
(* Any other delivery is answered without touching the row.                *)
Claimable(e) ==
    \/ row[e] \in {"absent", "failed"}
    \/ row[e] = "received" /\ lapsed[e]

DeliverEvent(h, e) == Claimable(e) /\ Claim(h, e)

Replay(h, e) == row[e] = "failed" /\ Claim(h, e)

(* The lease outlives the processing timeout: only a handler still waiting *)
(* to mark its error can be overtaken, and that is a fault.                *)
LeaseLapses(e) ==
    /\ row[e] = "received" /\ ~lapsed[e]
    /\ At(e, "work") = {}
    /\ At(e, "failing") # {} => faults < MaxFaults
    /\ lapsed' = [lapsed EXCEPT ![e] = TRUE]
    /\ overran' = IF At(e, "failing") # {} THEN overran \cup {e} ELSE overran
    /\ faults' = IF At(e, "failing") # {} THEN faults + 1 ELSE faults
    /\ UNCHANGED << row, applied, event, pc >>

(* The handler's transaction commits, with mark_helcim_event_processed in  *)
(* it.  A timeout may fall on the commit: done, but reported as an error.  *)
Process(h) ==
    LET e == event[h]
    IN  /\ pc[h] = "work" /\ e \notin Ignored
        /\ row' = [row EXCEPT ![e] = "processed"]
        /\ applied' = [applied EXCEPT ![e] = @ + 1]
        /\ \/ Stop(h)
           \/ pc' = [pc EXCEPT ![h] = "failing"] /\ UNCHANGED event
        /\ UNCHANGED << lapsed, overran, faults >>

Ignore(h) ==
    /\ pc[h] = "work" /\ event[h] \in Ignored
    /\ row' = [row EXCEPT ![event[h]] = "ignored"]
    /\ Stop(h)
    /\ UNCHANGED << lapsed, applied, overran, faults >>

(* Helcim does not answer, a statement fails, or time is up.               *)
Fail(h) ==
    /\ pc[h] = "work" /\ event[h] \notin Ignored
    /\ pc' = [pc EXCEPT ![h] = "failing"]
    /\ UNCHANGED << row, lapsed, applied, event, overran, faults >>

MarkFailedAlways(h) ==     \* variant: whatever became of the row
    /\ pc[h] = "failing"
    /\ row' = [row EXCEPT ![event[h]] = "failed"]
    /\ Stop(h)
    /\ UNCHANGED << lapsed, applied, overran, faults >>

(* mark_helcim_event_failed: only while the row is 'received', but without *)
(* asking whose claim that is.                                             *)
MarkFailed(h) ==
    LET e == event[h]
    IN  /\ pc[h] = "failing"
        /\ row' = IF row[e] = "received" THEN [row EXCEPT ![e] = "failed"] ELSE row
        /\ Stop(h)
        /\ UNCHANGED << lapsed, applied, overran, faults >>

(* The process dies, or the marking fails: the claim is left to lapse.     *)
Vanish(h) ==
    /\ pc[h] # "idle"
    /\ faults < MaxFaults
    /\ faults' = faults + 1
    /\ Stop(h)
    /\ UNCHANGED << row, lapsed, applied, overran >>

LogNext ==
    \/ \E h \in Handlers, e \in Events : DeliverEvent(h, e) \/ Replay(h, e)
    \/ \E h \in Handlers : \/ Process(h) \/ Ignore(h) \/ Fail(h)
                           \/ MarkFailed(h) \/ Vanish(h)
    \/ \E e \in Events : LeaseLapses(e)

LogSpec == LogInit /\ [][LogNext]_logVars

(* Helcim retries what was not acknowledged, clocks advance, and Helcim's  *)
(* API answers in the end.                                                 *)
LogFairness ==
    /\ \A e \in Events : /\ SF_logVars(\E h \in Handlers : DeliverEvent(h, e))
                         /\ WF_logVars(LeaseLapses(e))
                         /\ SF_logVars(\E h \in Handlers : event[h] = e /\ Process(h))
    /\ \A h \in Handlers : WF_logVars(Process(h) \/ Ignore(h) \/ Fail(h) \/ MarkFailed(h))
LogFairSpec == LogSpec /\ LogFairness

-----------------------------------------------------------------------------
(* Properties.                                                             *)

(* However often an event is delivered and replayed, and whatever crashed, *)
(* it acts on payments once, and a processed row says that it did.         *)
ActsOnce ==
    \A e \in Events :
        /\ row[e] = "processed" => applied[e] > 0
        /\ row[e] \in {"absent", "failed"} /\ e \notin overran => applied[e] = 0
        /\ e \notin overran => applied[e] <= 1

(* Duplicate events do not re-enter processing once processed or ignored;  *)
(* in particular an error reported after the commit does not reopen them.  *)
FinalStays == [][\A e \in Events : row[e] \in Final => row'[e] = row[e]]_logVars

(* Whoever is at work on an event holds its row.                           *)
WorkerHoldsRow ==
    \A e \in Events \ overran : \A h \in At(e, "work") :
        row[e] = "received" /\ ~lapsed[e] /\ At(e, "work") = {h}

(* No event stays half-processed: it ends up processed or ignored.         *)
EventsSettle == \A e \in Events : row[e] # "absent" ~> [](row[e] \in Final)
=============================================================================

----------------------------- MODULE QboJournal -----------------------------
(***************************************************************************)
(* The daily journal of one business date on its way to QuickBooks: the    *)
(* staging rows of qbo_sync_logs, their refreshes while the day's facts    *)
(* still change (server/src/logic/qbo_journal.rs), approval, posting,      *)
(* retry and void (server/src/api/qbo.rs, server/src/jobs/qbo_sync.rs).    *)
(*                                                                         *)
(* A refresh, a posting and a void are requests that read, wait for the    *)
(* database or for QuickBooks, and write.  A request to QuickBooks may     *)
(* arrive long after its sender stopped waiting, and its answer may be     *)
(* lost.  QuickBooks answers a request id it remembers with the entry it   *)
(* made for it.                                                            *)
(*                                                                         *)
(* Not here: the journal's lines and their validation (a refused request   *)
(* is one that takes no step), which rows a new row says it revises, and   *)
(* access tokens.                                                          *)
(***************************************************************************)
EXTENDS Naturals, Sequences, FiniteSets

CONSTANTS
    Posters,        \* requests and jobs that post a row
    Voiders,        \* requests that void one
    None,
    Unnamed,        \* journal_entry_id 'UNKNOWN'
    MaxRows,        \* bound: staging rows of the date
    MaxFacts,       \* bound: states of the day's activity
    MaxEntries,     \* bound: journal entries QuickBooks makes
    MaxForgotten    \* bound: rows whose request id it forgets

ASSUME QboJournalAssumption ==
    /\ MaxRows \in Nat /\ MaxFacts \in Nat \ {0}
    /\ MaxEntries \in Nat /\ MaxForgotten \in Nat
    /\ None \notin Nat /\ Unnamed \notin Nat /\ None # Unnamed

VARIABLES
    facts,      \* the day's activity, as a journal made now would show it
    rows,       \* qbo_sync_logs, oldest first
    proposer,   \* ensure_pending_daily_journal, one at a time for a date
    poster,     \* the posting requests
    voider,     \* the row a void request has asked QuickBooks to delete
    wire,       \* create requests QuickBooks may still get
    entries,    \* journal entries in QuickBooks
    known,      \* request ids QuickBooks remembers, with their entries
    asked,      \* entries QuickBooks was asked to delete
    lapsed,     \* history: rows whose request id it no longer knows
    outdated    \* history: rows posted with a payload read before a revert

quickbooks == << wire, entries, known, asked, lapsed >>
vars == << facts, rows, proposer, poster, voider, quickbooks, outdated >>

Open == {"pending", "needs_review"}

Idle == [at |-> "idle", row |-> 0, payload |-> 0, from |-> "approved"]

RowRecords ==
    [status: Open \cup {"approved", "syncing", "failed", "synced", "voided"},
     payload: 1..MaxFacts,
     entry: (1..MaxEntries) \cup {None, Unnamed}]

EntryRecords == [row: 1..MaxRows, payload: 1..MaxFacts, live: BOOLEAN]

RequestIds == {<< r >> : r \in 1..MaxRows}

TypeOK ==
    /\ facts \in 1..MaxFacts
    /\ rows \in Seq(RowRecords) /\ Len(rows) <= MaxRows
    /\ proposer = None \/ proposer \in [row: 0..MaxRows, payload: 1..MaxFacts]
    /\ poster \in [Posters -> [at: {"idle", "read", "wait"}, row: 0..MaxRows,
                               payload: 0..MaxFacts,
                               from: {"approved", "failed"}]]
    /\ voider \in [Voiders -> 0..MaxRows]
    /\ wire \subseteq [id: RequestIds, row: 1..MaxRows, payload: 1..MaxFacts]
    /\ entries \in Seq(EntryRecords) /\ Len(entries) <= MaxEntries
    /\ known \subseteq [id: RequestIds, entry: 1..MaxEntries]
    /\ asked \subseteq 1..MaxEntries
    /\ lapsed \subseteq 1..MaxRows /\ outdated \subseteq 1..MaxRows

Init ==
    /\ facts = 1 /\ rows = << >> /\ proposer = None
    /\ poster = [p \in Posters |-> Idle]
    /\ voider = [v \in Voiders |-> 0]
    /\ wire = {} /\ entries = << >> /\ known = {} /\ asked = {}
    /\ lapsed = {} /\ outdated = {}

Rows == DOMAIN rows
Status(r) == rows[r].status
SetStatus(r, status) == rows' = [rows EXCEPT ![r].status = status]

\* A sale, a return or a correction on the date.
Activity ==
    /\ facts < MaxFacts
    /\ facts' = facts + 1
    /\ UNCHANGED << rows, proposer, poster, voider, quickbooks, outdated >>
-----------------------------------------------------------------------------
(* ensure_pending_daily_journal, after a Z-close, at 2 AM or by hand.      *)

NewestOpen ==
    LET open == {r \in Rows : Status(r) \in Open} IN
    IF open = {} THEN 0 ELSE CHOOSE r \in open : \A s \in open : s <= r

\* The date's rows and facts are read.
BeginPropose ==
    /\ proposer = None
    /\ proposer' = [row |-> NewestOpen, payload |-> facts]
    /\ UNCHANGED << facts, rows, poster, voider, quickbooks, outdated >>

\* Mutant: the row is refreshed whatever became of it.
AnyRow(r) == TRUE

\* Only a row still open is refreshed.
Refreshable(r) == Status(r) \in Open

\* qbo_sync_logs_one_pending_per_date_uidx
MayBePending(r) == \A s \in Rows : Status(s) = "pending" => s = r

FinishPropose(status) ==
    LET r == proposer.row IN
    /\ proposer # None
    /\ \/ /\ r # 0 /\ Refreshable(r)
          /\ status = "pending" => MayBePending(r)
          /\ rows' = [rows EXCEPT ![r].status = status,
                                  ![r].payload = proposer.payload]
       \/ /\ r = 0 /\ Len(rows) < MaxRows
          /\ status = "pending" => MayBePending(0)
          /\ rows' = Append(rows, [status |-> status, entry |-> None,
                                   payload |-> proposer.payload])
    /\ proposer' = None
    /\ UNCHANGED << facts, poster, voider, quickbooks, outdated >>

\* The row was approved meanwhile, the index refuses, an error, a crash.
AbortPropose ==
    /\ proposer # None
    /\ proposer' = None
    /\ UNCHANGED << facts, rows, poster, voider, quickbooks, outdated >>
-----------------------------------------------------------------------------
Approve(r) ==
    /\ Status(r) = "pending"
    /\ SetStatus(r, "approved")
    /\ UNCHANGED << facts, proposer, poster, voider, quickbooks, outdated >>

\* Mutant: a failed posting can be reverted as well.
RevertableFailed(r) == Status(r) \in {"approved", "failed"}

Revertable(r) == Status(r) = "approved"

Revert(r) ==
    /\ Revertable(r) /\ MayBePending(r)
    /\ SetStatus(r, "pending")
    /\ UNCHANGED << facts, proposer, poster, voider, quickbooks, outdated >>
-----------------------------------------------------------------------------
(* Posting: sync_staging and the job handle_sync_approved take an approved *)
(* row, retry_failed a failed one.                                         *)

\* The row is read and the request body built from its payload.
ReadRow(p, r) ==
    /\ poster[p] = Idle /\ Status(r) \in {"approved", "failed"}
    /\ poster' = [poster EXCEPT
          ![p] = [at |-> "read", row |-> r, payload |-> rows[r].payload,
                  from |-> Status(r)]]
    /\ UNCHANGED << facts, rows, proposer, voider, quickbooks, outdated >>

\* Mutant: a retry has a request id of its own.
RequestIdPerTry(p) == << poster[p].row, poster[p].from >>

\* qbo_journal_request_id: the same for every posting of a row.
RequestId(p) == << poster[p].row >>

\* Mutant: a row in 'syncing' can be claimed too.
ClaimableSyncing(p) == Status(poster[p].row) \in {poster[p].from, "syncing"}

\* Claimed in the status it was read in.
Claimable(p) == Status(poster[p].row) = poster[p].from

\* The row becomes 'syncing', and the entry is posted.
Claim(p) ==
    LET r == poster[p].row IN
    /\ poster[p].at = "read" /\ Claimable(p)
    /\ SetStatus(r, "syncing")
    /\ poster' = [poster EXCEPT ![p].at = "wait"]
    /\ wire' = wire \cup {[id |-> RequestId(p), row |-> r,
                           payload |-> poster[p].payload]}
    /\ outdated' = IF poster[p].payload = rows[r].payload THEN outdated
                   ELSE outdated \cup {r}
    /\ UNCHANGED << facts, proposer, voider, entries, known, asked, lapsed >>

\* QuickBooks, outside the code: a request is taken up, or never arrives.
Remembered(id) == {k \in known : k.id = id}

MakeEntry(m) ==
    /\ m \in wire
    /\ wire' = wire \ {m}
    /\ IF Remembered(m.id) # {} THEN UNCHANGED << entries, known >>
       ELSE /\ Len(entries) < MaxEntries
            /\ entries' = Append(entries, [row |-> m.row, live |-> TRUE,
                                           payload |-> m.payload])
            /\ known' = known \cup {[id |-> m.id, entry |-> Len(entries) + 1]}
    /\ UNCHANGED << facts, rows, proposer, poster, voider, asked, lapsed,
                    outdated >>

\* After a day it has forgotten the request id.
Forget(k) ==
    /\ k \in known /\ Cardinality(lapsed) < MaxForgotten
    /\ known' = known \ {k}
    /\ lapsed' = lapsed \cup {entries[k.entry].row}
    /\ UNCHANGED << facts, rows, proposer, poster, voider, wire, entries,
                    asked, outdated >>

\* What is written after the answer is written only to a row in 'syncing'.
Settle(p, status, entry) ==
    LET r == poster[p].row IN
    /\ poster' = [poster EXCEPT ![p] = Idle]
    /\ rows' = IF Status(r) # "syncing" THEN rows
               ELSE [rows EXCEPT ![r].status = status, ![r].entry = entry]

\* The answer may be a success whose body cannot be read.
Posted(p) ==
    /\ poster[p].at = "wait"
    /\ \E k \in Remembered(RequestId(p)) :
          \E entry \in {k.entry, Unnamed} : Settle(p, "synced", entry)
    /\ UNCHANGED << facts, proposer, voider, quickbooks, outdated >>

\* QuickBooks refuses the entry; or there is no answer, and the request may
\* still get there.  A request refused or lost is one never taken up.
Failed(p) ==
    /\ poster[p].at = "wait"
    /\ Settle(p, "failed", rows[poster[p].row].entry)
    /\ UNCHANGED << facts, proposer, voider, quickbooks, outdated >>

\* Another claimed the row; the caller went away; a crash, or the last write
\* fails.  Nothing takes up a row left in 'syncing'.
Drop(p) ==
    /\ poster[p] # Idle
    /\ poster' = [poster EXCEPT ![p] = Idle]
    /\ UNCHANGED << facts, rows, proposer, voider, quickbooks, outdated >>
-----------------------------------------------------------------------------
(* void_synced.                                                            *)

\* The entry is read in QuickBooks, for its SyncToken, and its deletion asked.
AskVoid(v, r) ==
    /\ voider[v] = 0 /\ Status(r) = "synced"
    /\ rows[r].entry \in DOMAIN entries /\ entries[rows[r].entry].live
    /\ voider' = [voider EXCEPT ![v] = r]
    /\ asked' = asked \cup {rows[r].entry}
    /\ UNCHANGED << facts, rows, proposer, poster, wire, entries, known,
                    lapsed, outdated >>

DeleteEntry(e) ==
    /\ e \in asked /\ entries[e].live
    /\ entries' = [entries EXCEPT ![e].live = FALSE]
    /\ UNCHANGED << facts, rows, proposer, poster, voider, wire, known, asked,
                    lapsed, outdated >>

Deleted(r) == ~entries[rows[r].entry].live

Voided(v) ==
    /\ voider[v] # 0 /\ Deleted(voider[v])
    /\ SetStatus(voider[v], "voided")
    /\ voider' = [voider EXCEPT ![v] = 0]
    /\ UNCHANGED << facts, proposer, poster, quickbooks, outdated >>

\* No success: the row stays as it is, but for its error message.
VoidFails(v) ==
    /\ voider[v] # 0
    /\ voider' = [voider EXCEPT ![v] = 0]
    /\ UNCHANGED << facts, rows, proposer, poster, quickbooks, outdated >>
-----------------------------------------------------------------------------
Next ==
    \/ Activity
    \/ BeginPropose \/ AbortPropose
    \/ \E status \in Open : FinishPropose(status)
    \/ \E r \in Rows : Approve(r) \/ Revert(r)
    \/ \E p \in Posters :
          (\E r \in Rows : ReadRow(p, r)) \/ Claim(p) \/ Posted(p)
          \/ Failed(p) \/ Drop(p)
    \/ \E m \in wire : MakeEntry(m)
    \/ \E k \in known : Forget(k)
    \/ \E v \in Voiders :
          (\E r \in Rows : AskVoid(v, r)) \/ Voided(v) \/ VoidFails(v)
    \/ \E e \in asked : DeleteEntry(e)

Spec == Init /\ [][Next]_vars
-----------------------------------------------------------------------------
(* However often a row is posted and retried, QuickBooks has one entry of it *)
(* (qbo_journal_request_id), unless it forgot the first request before.      *)
OneEntryPerRow ==
    \A d, e \in DOMAIN entries :
        entries[d].row = entries[e].row /\ entries[d].row \notin lapsed => d = e

(* A row whose entry is in QuickBooks, or may still get there, can be seen to *)
(* be posted or failed: it never is back for review, approved or voided.      *)
NothingHidden ==
    \A r \in Rows \ lapsed :
        /\ \/ \E e \in DOMAIN entries : entries[e].row = r /\ entries[e].live
           \/ Remembered(<< r >>) = {} /\ \E m \in wire : m.row = r
        => Status(r) \in {"syncing", "failed", "synced"}

(* The entry a synced row names is in QuickBooks, with the lines the row      *)
(* shows, as long as nobody asked to delete it, however refreshes, reverts,   *)
(* approvals and retries came between; a posting that read its row before a   *)
(* revert is the exception.                                                   *)
BooksAgree ==
    \A r \in Rows : Status(r) = "synced" /\ rows[r].entry # Unnamed =>
        LET e == entries[rows[r].entry] IN
        /\ e.row = r
        /\ e.live \/ rows[r].entry \in asked
        /\ e.payload = rows[r].payload \/ r \in outdated \cup lapsed

(* One request at a time waits for QuickBooks' answer about a row, and the    *)
(* row is 'syncing' meanwhile.                                                *)
OnePoster ==
    \A p, q \in Posters : poster[p].at = "wait" =>
        /\ Status(poster[p].row) = "syncing"
        /\ poster[q].at = "wait" /\ poster[q].row = poster[p].row => q = p
=============================================================================

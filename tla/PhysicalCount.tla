--------------------------- MODULE PhysicalCount ---------------------------
(***************************************************************************)
(* A physical inventory count of one variant taken while the store sells   *)
(* (server/src/logic/physical_inventory.rs): the session, the scans that   *)
(* devices buffer and repeat, the review, and the publication, which       *)
(* writes an absolute stock.  Around it run the writers of the same stock: *)
(* checkout, order pickup, returns, and the receipts and adjustments that  *)
(* look for an active session first.                                       *)
(*                                                                         *)
(* Each action is one database statement or one transaction, except where  *)
(* a transaction reads before it locks: those are two actions.  NOW() is   *)
(* the reading of a clock that every stamped transaction advances.         *)
(* Variables under "the store" are not in the database: they say where     *)
(* the units really are.                                                   *)
(***************************************************************************)
EXTENDS Integers, Sequences, FiniteSets, Sums

CONSTANTS
    InitialStock,  \* units on the shelf, and on the books, when it all starts
    Scans,         \* client_scan_id of the scans a device takes, one unit each
    None,          \* NULL
    MaxClock       \* bound: stamped transactions

ASSUME PhysicalCountAssumption ==
    InitialStock \in Nat /\ MaxClock \in Nat /\ None \notin Int

VARIABLES
    onHand,     \* product_variants.stock_on_hand
    ledger,     \* inventory_transactions of the variant
    lines,      \* transaction_lines of the variant, with booked_at
    session,    \* physical_inventory_sessions
    count,      \* physical_inventory_counts
    applied,    \* client_scan_ids in inventory_count_scan_stream
    pending,    \* is a discovered item pending?
    clock,
    inFlight,   \* scan requests that found the session open
    publisher,  \* publish_session: "idle", or past its movement check
    mover,      \* a receipt or adjustment past its session check: its NOW()
    marked, unmarked,  \* the store: shelf units scanned, and not yet scanned
    taken,      \* the store: scans a device holds
    owed,       \* the store: ordered units not yet collected
    gone,       \* the store: a scanned unit left without a sale, or came too late
    openedAt,   \* history: length of the ledger when the session was opened
    escaped     \* history: a movement the movement check could not see

server == << onHand, ledger, lines, session, count, applied, pending, clock >>
requests == << inFlight, publisher, mover >>
floor == << marked, unmarked, taken, owed, gone >>
countVars == << server, requests, floor, openedAt, escaped >>

NonSale == {"return_in", "receipt_or_adjustment"}
Statuses == {"none", "open", "reviewing", "published", "cancelled"}
Stamps == 0..MaxClock

(* marked is a fact of the store: did the sale take a unit already scanned? *)
LineRows == [at: Stamps, marked: BOOLEAN]
Movements == [type: NonSale \cup {"sale", "physical_inventory"}, delta: Int, at: Stamps]

CountTypeOK ==
    /\ onHand \in Int
    /\ ledger \in Seq(Movements)
    /\ lines \in Seq(LineRows)
    /\ session \in [status: Statuses, startedAt: Stamps]
    /\ count \in [row: BOOLEAN, counted: Nat, adjusted: Nat \cup {None}, lastScan: Stamps]
    /\ applied \subseteq taken /\ inFlight \subseteq taken /\ taken \subseteq Scans
    /\ pending \in BOOLEAN /\ gone \in BOOLEAN /\ escaped \in BOOLEAN
    /\ clock \in Stamps
    /\ publisher \in {"idle", "checked"}
    /\ mover \in Stamps \cup {None}
    /\ marked \in Nat /\ unmarked \in Nat /\ owed \in Nat
    /\ openedAt \in 0..Len(ledger)

CountInit ==
    /\ onHand = InitialStock
    /\ ledger = << >> /\ lines = << >>
    /\ session = [status |-> "none", startedAt |-> 0]
    /\ count = [row |-> FALSE, counted |-> 0, adjusted |-> None, lastScan |-> 0]
    /\ applied = {} /\ pending = FALSE /\ clock = 0
    /\ inFlight = {} /\ publisher = "idle" /\ mover = None
    /\ marked = 0 /\ unmarked = InitialStock
    /\ taken = {} /\ owed = 0 /\ gone = FALSE
    /\ openedAt = 0 /\ escaped = FALSE

Now == clock + 1
Tick == clock < MaxClock /\ clock' = Now
Active == session.status \in {"open", "reviewing"}

(* Every writer of the stock posts the same delta to the ledger.           *)
Post(type, delta, at) ==
    /\ onHand' = onHand + delta
    /\ ledger' = Append(ledger, [type |-> type, delta |-> delta, at |-> at])

(* A unit leaves the shelf, one that was scanned or one that was not.      *)
TakeOff(m) ==
    IF m THEN marked > 0 /\ marked' = marked - 1 /\ UNCHANGED unmarked
         ELSE unmarked > 0 /\ unmarked' = unmarked - 1 /\ UNCHANGED marked

-----------------------------------------------------------------------------
(* Writers of the stock.                                                   *)

(* Checkout of a Take Now line: the line and the decrement commit together. *)
Sell(m) ==
    /\ Tick /\ TakeOff(m)
    /\ lines' = Append(lines, [at |-> Now, marked |-> m])
    /\ Post("sale", -1, Now)
    /\ UNCHANGED << session, count, applied, pending, requests, taken, owed, gone, openedAt,
                    escaped >>

(* Checkout of a special, wedding or layaway line: booked, nothing moves.  *)
BookForLater ==
    /\ Tick
    /\ lines' = Append(lines, [at |-> Now, marked |-> FALSE])
    /\ owed' = owed + 1
    /\ UNCHANGED << onHand, ledger, session, count, applied, pending, requests,
                    marked, unmarked, taken, gone, openedAt, escaped >>

(* An ordered unit is handed over: a 'sale' in the ledger, and no new line. *)
PickUpOrder(m) ==
    /\ owed > 0 /\ Tick /\ TakeOff(m)
    /\ owed' = owed - 1
    /\ gone' = (gone \/ m)
    /\ Post("sale", -1, Now)
    /\ UNCHANGED << lines, session, count, applied, pending, requests, taken, openedAt,
                    escaped >>

(* A return is restocked.  Returns do not look for an active session.      *)
Return ==
    /\ \E i \in 1..Len(ledger) : ledger[i].type = "sale"
    /\ Tick
    /\ unmarked' = unmarked + 1
    /\ Post("return_in", 1, Now)
    /\ escaped' = (escaped \/ publisher = "checked")
    /\ UNCHANGED << lines, session, count, applied, pending, requests, marked, taken, owed,
                    gone, openedAt >>

(* A PO receipt or a stock adjustment begins its transaction, finds no     *)
(* active session, and goes on to lock the variant.                        *)
BeginMove ==
    /\ mover = None /\ ~Active /\ Tick
    /\ mover' = Now
    /\ UNCHANGED << onHand, ledger, lines, session, count, applied, pending, inFlight,
                    publisher, floor, openedAt, escaped >>

(* It commits, stamped with the time it began.  A decrease needs stock.    *)
CommitMove(delta) ==
    /\ mover # None
    /\ onHand + delta >= 0
    /\ \/ delta = 1 /\ unmarked' = unmarked + 1 /\ UNCHANGED << marked, gone >>
       \/ delta = -1 /\ \E m \in BOOLEAN : TakeOff(m) /\ gone' = (gone \/ m)
    /\ Post("receipt_or_adjustment", delta, mover)
    /\ mover' = None
    /\ escaped' = (escaped \/ publisher = "checked" \/ (Active /\ mover < session.startedAt))
    /\ UNCHANGED << lines, session, count, applied, pending, clock, inFlight, publisher, taken,
                    owed, openedAt >>

(* It is refused after all (quantity ordered, availability), or dies.      *)
AbortMove ==
    /\ mover # None
    /\ mover' = None
    /\ UNCHANGED << server, inFlight, publisher, floor, openedAt, escaped >>

(* The store: a unit disappears, which is what counts are for.             *)
Shrink(m) ==
    /\ TakeOff(m)
    /\ gone' = (gone \/ m)
    /\ UNCHANGED << server, requests, taken, owed, openedAt, escaped >>

-----------------------------------------------------------------------------
(* The count.                                                              *)

OpenSession ==
    /\ session.status = "none" /\ Tick
    /\ session' = [status |-> "open", startedAt |-> Now]
    /\ openedAt' = Len(ledger)
    /\ UNCHANGED << onHand, ledger, lines, count, applied, pending, requests, floor, escaped >>

(* The store: a device scans a unit and buffers the scan.  A quantity that *)
(* a reviewer has entered already is not raised by it.                     *)
TakeScan(s) ==
    /\ session.status = "open" /\ s \notin taken /\ unmarked > 0
    /\ taken' = taken \cup {s}
    /\ marked' = marked + 1 /\ unmarked' = unmarked - 1
    /\ gone' = (gone \/ count.adjusted # None)
    /\ UNCHANGED << server, requests, owed, openedAt, escaped >>

(* A request of the device, which repeats it until it has an answer, finds *)
(* the session open.                                                       *)
SendScan(s) ==
    /\ session.status = "open" /\ s \in taken \ inFlight
    /\ inFlight' = inFlight \cup {s}
    /\ UNCHANGED << server, publisher, mover, floor, openedAt, escaped >>

(* The scan id is claimed, and then the unit added.                        *)
CountScan(s) ==
    IF s \in applied
    THEN UNCHANGED << applied, count, clock >>
    ELSE /\ Tick
         /\ applied' = applied \cup {s}
         /\ count' = [count EXCEPT !.row = TRUE, !.counted = @ + 1, !.lastScan = Now]

(* upsert_count, on a request past the status check.                       *)
ApplyScan(s) ==
    /\ s \in inFlight
    /\ CountScan(s)
    /\ inFlight' = inFlight \ {s}
    /\ UNCHANGED << onHand, ledger, lines, session, pending, publisher, mover, floor, openedAt,
                    escaped >>

(* An unknown barcode is recorded, and resolved or ignored.                *)
RecordDiscovered ==
    /\ session.status = "open" /\ ~pending
    /\ pending' = TRUE
    /\ UNCHANGED << onHand, ledger, lines, session, count, applied, clock, requests, floor,
                    openedAt, escaped >>
ResolveDiscovered ==
    /\ pending
    /\ pending' = FALSE
    /\ UNCHANGED << onHand, ledger, lines, session, count, applied, clock, requests, floor,
                    openedAt, escaped >>

(* move_to_review waits for a publisher's lock on the session row, and     *)
(* gives an uncounted variant a row of zero.                               *)
MoveToReview ==
    /\ publisher = "idle" /\ session.status = "open"
    /\ session' = [session EXCEPT !.status = "reviewing"]
    /\ count' = [count EXCEPT !.row = TRUE]
    /\ UNCHANGED << onHand, ledger, lines, applied, pending, clock, requests, floor, openedAt,
                    escaped >>

(* The reviewer counts the shelf again and enters what is there.           *)
Recount ==
    /\ Active /\ count.row /\ Tick
    /\ count' = [count EXCEPT !.adjusted = marked + unmarked, !.lastScan = Now]
    /\ marked' = marked + unmarked /\ unmarked' = 0
    /\ lines' = [i \in DOMAIN lines |-> [lines[i] EXCEPT !.marked = FALSE]]
    /\ gone' = FALSE
    /\ UNCHANGED << onHand, ledger, session, applied, pending, requests, taken, owed, openedAt,
                    escaped >>

CancelSession ==
    /\ publisher = "idle" /\ Active
    /\ session' = [session EXCEPT !.status = "cancelled"]
    /\ UNCHANGED << onHand, ledger, lines, count, applied, pending, clock, requests, floor,
                    openedAt, escaped >>

-----------------------------------------------------------------------------
(* Publication.                                                            *)

(* Mutant: the movement check leaves out returns.                          *)
BlockingNoReturns(move) ==
    move.type = "receipt_or_adjustment" /\ move.at >= session.startedAt

(* The movement check: committed rows stamped since the count began.       *)
Blocking(move) == move.type \in NonSale /\ move.at >= session.startedAt

(* publish_session locks the session row and makes its checks.             *)
CheckPublish ==
    /\ publisher = "idle" /\ session.status = "reviewing"
    /\ ~pending
    /\ ~ \E i \in 1..Len(ledger) : Blocking(ledger[i])
    /\ publisher' = "checked"
    /\ UNCHANGED << server, inFlight, mover, floor, openedAt, escaped >>

(* Mutant: all sales since the session began come off the count.           *)
CutoffAtStart == session.startedAt

(* build_review_tx: sales booked since the last scan come off the count;   *)
(* an uncounted variant is compared from the start of the session.         *)
Cutoff ==
    IF count.counted > 0 \/ count.adjusted # None THEN count.lastScan ELSE session.startedAt
Effective == IF count.adjusted = None THEN count.counted ELSE count.adjusted
SalesSince(t) == Cardinality({i \in DOMAIN lines : lines[i].at >= t})
FinalStock ==
    LET left == Effective - SalesSince(Cutoff) IN IF left > 0 THEN left ELSE 0

(* Mutant: the ledger gets the difference from the uncorrected count.      *)
DeltaOfCount == Effective - onHand

(* The row's delta, from the stock read under the variant lock.            *)
Delta == FinalStock - onHand

(* The variant is locked, the review computed, the stock written.          *)
Publish ==
    /\ publisher = "checked" /\ Tick
    /\ IF Delta = 0 THEN UNCHANGED << onHand, ledger >>
       ELSE /\ onHand' = FinalStock
            /\ ledger' = Append(ledger,
                    [type |-> "physical_inventory", delta |-> Delta, at |-> Now])
    /\ session' = [session EXCEPT !.status = "published"]
    /\ count' = [count EXCEPT !.row = TRUE]
    /\ publisher' = "idle"
    /\ UNCHANGED << lines, applied, pending, inFlight, mover, floor, openedAt, escaped >>

(* A movement row without a cost, an error or a crash rolls it back.       *)
AbortPublish ==
    /\ publisher = "checked"
    /\ publisher' = "idle"
    /\ UNCHANGED << server, inFlight, mover, floor, openedAt, escaped >>

-----------------------------------------------------------------------------
CountNext ==
    \/ \E m \in BOOLEAN : Sell(m) \/ PickUpOrder(m) \/ Shrink(m)
    \/ BookForLater \/ Return
    \/ BeginMove \/ AbortMove \/ \E delta \in {-1, 1} : CommitMove(delta)
    \/ OpenSession \/ MoveToReview \/ Recount \/ CancelSession
    \/ \E s \in Scans : TakeScan(s) \/ SendScan(s) \/ ApplyScan(s)
    \/ RecordDiscovered \/ ResolveDiscovered
    \/ CheckPublish \/ Publish \/ AbortPublish

CountSpec == CountInit /\ [][CountNext]_countVars

-----------------------------------------------------------------------------
(* Properties.                                                             *)

(* The stock on hand is the opening stock plus every movement of the       *)
(* ledger: the absolute write of a publication posts the difference from   *)
(* the stock it replaces, not from the one the reviewer saw.               *)
Posted == SumTo([i \in 1..Len(ledger) |-> ledger[i].delta], Len(ledger))
LedgerExact == onHand = InitialStock + Posted

(* A count that went straight: all units scanned and all scans in, every   *)
(* sale since the count began took a counted unit exactly if it came after *)
(* the last scan, no counted unit left without a sale, and none was        *)
(* scanned when the reviewer had entered the count.                        *)
Straight ==
    /\ unmarked = 0 /\ ~gone
    /\ count.adjusted = None => taken \subseteq applied
    /\ \A i \in DOMAIN lines : lines[i].at >= session.startedAt =>
           (lines[i].marked <=> count.lastScan \in 1..lines[i].at)

(* Publishing a straight count leaves on the books what is on the shelf,   *)
(* whatever was sold, returned or lost before, during and after it.        *)
PublishedIsShelf ==
    [][publisher = "checked" /\ session'.status = "published" /\ session.status # "published"
       /\ Straight => onHand' = marked + unmarked]_countVars

(* A publication overwrites a return, receipt or adjustment made since the *)
(* count began only if it came after the movement check, or began before   *)
(* the count and committed during it.  A comment in publish_session and    *)
(* the readiness audit say that it never does.                             *)
MovedDuringCount == \E i \in openedAt + 1 .. Len(ledger) : ledger[i].type \in NonSale
Publishes == session.status = "reviewing" /\ session'.status = "published"
OverwritesOnlyUnseen == [][Publishes /\ MovedDuringCount => escaped]_countVars

=============================================================================

---------------------------- MODULE CardTerminal ----------------------------
(***************************************************************************)
(* Card-present payments: payment_provider_attempts, the physical readers, *)
(* and the four parties that write an attempt without waiting for each     *)
(* other.  These are the request that dispatches the purchase and stores   *)
(* the provider's reply, the provider's webhooks, the polls of the         *)
(* register and of staff (api/payments.rs, api/webhooks.rs), and the       *)
(* checkout that attaches an approval to a sale                            *)
(* (logic/transaction_checkout.rs).                                        *)
(*                                                                         *)
(* Nothing locks an attempt across a call to the provider.  Each party     *)
(* reads, asks Helcim, and writes under whatever condition its UPDATE      *)
(* carries; the model keeps those conditions and nothing else.             *)
(***************************************************************************)
EXTENDS Naturals, Sequences

CONSTANTS
    Checkouts,     \* checkout_client_id values
    Terminals,     \* physical readers, one per register
    Pollers,       \* requests that load an attempt (stream, badge, Restore)
    Intents,       \* what they are after
    NoCheckout, NoTerminal,
    MaxStarts,     \* bound: purchases started in all
    MaxReads,      \* bound: cards tried on one purchase
    MaxPolls       \* bound: times an attempt is loaded, when positive

ASSUME CardTerminalAssumption ==
    /\ NoCheckout \notin Checkouts
    /\ NoTerminal \notin Terminals
    /\ MaxStarts \in Nat
    /\ MaxReads \in Nat
    /\ MaxPolls \in Nat
    /\ "look" \in Intents
    /\ Intents \subseteq {"look", "physical_cancel", "ros_error"}

Attempts == 1 .. MaxStarts    \* numbered in the order of created_at

VARIABLES
    \* payment_provider_attempts: status, error_code, which card transaction
    \* provider_transaction_id names (0: NULL), whether raw_audit_reference
    \* is set, whether the row is more than five minutes old
    status, error, ref, audit, old, checkout, terminal,
    started,
    \* the dispatching request: sending, delivered, refused, done
    call,
    \* Helcim: the attempt each reader shows (0: ready screen), the card
    \* transactions under each attempt's invoice, cancel events in flight,
    \* card transactions whose event has been processed
    showing, reads, canceling, heard,
    \* polls: where, of which attempt, the status and card transaction read
    \* from the row, Helcim's answer (kind, card transaction found), whether
    \* the reader may still try again, what the caller is after
    place, target, saw, asked, verdict, found, again, intent,
    \* transactions and payment_transactions
    sale, attached,
    \* history: attempts ever recorded approved, those of them whose dispatch
    \* was answered only afterwards, polls so far
    confirmed, late, polls

rowVars    == << status, error, ref, audit, old, checkout, terminal, started >>
helcimVars == << showing, reads, canceling, heard >>
pollVars   == << place, target, saw, asked, verdict, found, again, intent, polls >>
saleVars   == << sale, attached >>
vars == << rowVars, call, helcimVars, pollVars, saleVars, confirmed, late >>

Statuses == {"none", "pending", "approved", "failed", "expired", "canceled"}
Errors   == {"none", "outcome_unknown", "rejected", "retry_declined", "declined",
             "released", "orphaned", "ros_recovered", "physical_cancel",
             "terminal_cancel"}
Verdicts == {"nothing", "window_over", "watch", "invoice", "no_match",
             "declined", "approved"}
Reads    == 0 .. MaxReads

TypeOK ==
    /\ status \in [Attempts -> Statuses]
    /\ error \in [Attempts -> Errors]
    /\ ref \in [Attempts -> Reads]
    /\ audit \in [Attempts -> BOOLEAN]
    /\ old \in [Attempts -> BOOLEAN]
    /\ checkout \in [Attempts -> Checkouts \cup {NoCheckout}]
    /\ terminal \in [Attempts -> Terminals \cup {NoTerminal}]
    /\ started \in 0 .. MaxStarts
    /\ call \in [Attempts -> {"none", "sending", "delivered", "refused", "done"}]
    /\ showing \in [Terminals -> Attempts \cup {0}]
    /\ reads \in [Attempts -> Seq({"declined", "approved"})]
    /\ \A a \in Attempts : Len(reads[a]) \in Reads
    /\ canceling \in SUBSET Attempts
    /\ heard \in [Attempts -> SUBSET Reads]
    /\ place \in [Pollers -> {"idle", "store", "release", "resolve"}]
    /\ target \in [Pollers -> Attempts \cup {0}]
    /\ saw \in [Pollers -> Statuses]
    /\ asked \in [Pollers -> Reads]
    /\ verdict \in [Pollers -> Verdicts]
    /\ found \in [Pollers -> Reads]
    /\ again \in [Pollers -> BOOLEAN]
    /\ intent \in [Pollers -> Intents]
    /\ sale \in [Checkouts -> {"open", "sold", "manual"}]
    /\ attached \in SUBSET Attempts
    /\ confirmed \in SUBSET Attempts
    /\ late \in SUBSET Attempts
    /\ polls \in 0 .. MaxPolls

Init ==
    /\ status = [a \in Attempts |-> "none"]
    /\ error = [a \in Attempts |-> "none"]
    /\ ref = [a \in Attempts |-> 0]
    /\ audit = [a \in Attempts |-> FALSE]
    /\ old = [a \in Attempts |-> FALSE]
    /\ checkout = [a \in Attempts |-> NoCheckout]
    /\ terminal = [a \in Attempts |-> NoTerminal]
    /\ started = 0
    /\ call = [a \in Attempts |-> "none"]
    /\ showing = [t \in Terminals |-> 0]
    /\ reads = [a \in Attempts |-> << >>]
    /\ canceling = {}
    /\ heard = [a \in Attempts |-> {}]
    /\ place = [p \in Pollers |-> "idle"]
    /\ target = [p \in Pollers |-> 0]
    /\ saw = [p \in Pollers |-> "none"]
    /\ asked = [p \in Pollers |-> 0]
    /\ verdict = [p \in Pollers |-> "nothing"]
    /\ found = [p \in Pollers |-> 0]
    /\ again = [p \in Pollers |-> FALSE]
    /\ intent = [p \in Pollers |-> "look"]
    /\ sale = [c \in Checkouts |-> "open"]
    /\ attached = {}
    /\ confirmed = {}
    /\ late = {}
    /\ polls = 0

(* uq_payment_provider_attempts_active_device: one pending row per reader. *)
(* A statement that would make a second one fails and changes nothing.     *)
IndexFree(a) ==
    \A b \in Attempts \ {a} : status[b] = "pending" => terminal[b] # terminal[a]

(* Set a row's outcome.                                                    *)
Write(a, s, e, r) ==
    /\ s = "pending" => IndexFree(a)
    /\ status' = [status EXCEPT ![a] = s]
    /\ error' = [error EXCEPT ![a] = e]
    /\ ref' = [ref EXCEPT ![a] = r]
    /\ audit' = [audit EXCEPT ![a] = TRUE]
    /\ confirmed' = IF s = "approved" THEN confirmed \cup {a} ELSE confirmed
    /\ UNCHANGED << old, checkout, terminal, started >>

-----------------------------------------------------------------------------
(* The register: start_helcim_purchase.                                    *)

(* Variants, here and below, are for the mutants of the checks.  Here: the *)
(* checkout's approvals are not looked for.                                *)
ApprovalWaitingNever(c) == FALSE

(* reject_conflicting_helcim_attempt_before_dispatch, under the checkout's *)
(* advisory lock: an approval not yet attached to the sale.                *)
ApprovalWaiting(c) ==
    \E a \in Attempts \ attached : checkout[a] = c /\ status[a] = "approved"

(* One transaction: release whatever the reader is reserved for, refuse a  *)
(* checkout that is sold or has an approval waiting, insert the attempt.   *)
(* A repeated request for the same checkout only loads its pending row.    *)
StartPurchase(c, t) ==
    LET a == started + 1
        released == { b \in Attempts : status[b] = "pending" /\ terminal[b] = t }
    IN  /\ a \in Attempts
        /\ \A b \in released : checkout[b] # c
        /\ sale[c] = "open"
        /\ ~ApprovalWaiting(c)
        /\ started' = a
        /\ checkout' = [checkout EXCEPT ![a] = c]
        /\ terminal' = [terminal EXCEPT ![a] = t]
        /\ status' = [b \in Attempts |-> IF b = a THEN "pending"
                                         ELSE IF b \in released THEN "expired"
                                         ELSE status[b]]
        /\ error' = [b \in Attempts |->
                        IF b \in released /\ error[b] = "none" THEN "released" ELSE error[b]]
        /\ call' = [call EXCEPT ![a] = "sending"]
        /\ UNCHANGED << ref, audit, old, helcimVars, pollVars, saleVars, confirmed, late >>

(* The single dispatch reaches Helcim; the reader has no queue.            *)
Deliver(a) ==
    /\ call[a] = "sending"
    /\ IF showing[terminal[a]] = 0
         THEN /\ showing' = [showing EXCEPT ![terminal[a]] = a]
              /\ call' = [call EXCEPT ![a] = "delivered"]
         ELSE /\ call' = [call EXCEPT ![a] = "refused"]
              /\ UNCHANGED showing
    /\ UNCHANGED << rowVars, reads, canceling, heard, pollVars, saleVars, confirmed, late >>

(* The reply is stored, by id alone.                                       *)
Answered(a) ==
    /\ call' = [call EXCEPT ![a] = "done"]
    /\ late' = IF a \in confirmed THEN late \cup {a} ELSE late
    /\ UNCHANGED << old, checkout, terminal, started, helcimVars, pollVars, saleVars, confirmed >>

(* 202: the reply's references replace the row's; of a purchase nobody has *)
(* paid yet it names no card transaction.                                  *)
Accepted(a) ==
    /\ call[a] = "delivered"
    /\ ref' = [ref EXCEPT ![a] = 0]
    /\ audit' = [audit EXCEPT ![a] = TRUE]
    /\ UNCHANGED << status, error >>
    /\ Answered(a)

(* Refused by Helcim, or never sent.                                       *)
Rejected(a) ==
    /\ call[a] \in {"sending", "refused"}
    /\ status' = [status EXCEPT ![a] = "failed"]
    /\ error' = [error EXCEPT ![a] = "rejected"]
    /\ UNCHANGED << ref, audit >>
    /\ Answered(a)

(* A timeout, a lost connection or a 5xx: the outcome stays open.          *)
Unknown(a) ==
    /\ call[a] \in {"sending", "delivered", "refused"}
    /\ IF IndexFree(a)
         THEN /\ status' = [status EXCEPT ![a] = "pending"]
              /\ error' = [error EXCEPT ![a] = "outcome_unknown"]
         ELSE UNCHANGED << status, error >>
    /\ UNCHANGED << ref, audit >>
    /\ Answered(a)

(* The server stops before it has stored a reply.                          *)
Crash(a) ==
    /\ call[a] \in {"sending", "delivered", "refused"}
    /\ call' = [call EXCEPT ![a] = "done"]
    /\ UNCHANGED << rowVars, helcimVars, pollVars, saleVars, confirmed, late >>

(* HELCIM_TERMINAL_PENDING_TIMEOUT_MINUTES pass.                           *)
Age(a) ==
    /\ status[a] # "none" /\ ~old[a]
    /\ old' = [old EXCEPT ![a] = TRUE]
    /\ UNCHANGED << status, error, ref, audit, checkout, terminal, started, call,
                    helcimVars, pollVars, saleVars, confirmed, late >>

-----------------------------------------------------------------------------
(* The customer at the reader (external).                                  *)

(* A declined card leaves the purchase on the reader, offering Try Again.  *)
ReadCard(t, outcome) ==
    LET a == showing[t]
    IN  /\ a # 0 /\ Len(reads[a]) < MaxReads
        /\ reads' = [reads EXCEPT ![a] = Append(@, outcome)]
        /\ showing' = IF outcome = "approved" THEN [showing EXCEPT ![t] = 0] ELSE showing
        /\ UNCHANGED << rowVars, call, canceling, heard, pollVars, saleVars, confirmed, late >>

(* Canceled at the reader, or timed out there without an event.            *)
LeaveReader(t) ==
    /\ showing[t] # 0
    /\ showing' = [showing EXCEPT ![t] = 0]
    /\ canceling' \in {canceling, canceling \cup {showing[t]}}
    /\ UNCHANGED << rowVars, call, reads, heard, pollVars, saleVars, confirmed, late >>

-----------------------------------------------------------------------------
(* Webhooks.  Deliveries are delayed, reordered or lost; the event ledger  *)
(* keeps one event from being processed twice.                             *)

(* Variant: any attempt the invoice names is written.                      *)
CandidateAlways(a, i) == TRUE

(* handle_helcim_card_transaction's search: by card transaction, whatever  *)
(* the row's status, else by invoice among the rows still open to it.      *)
Candidate(a, i) ==
    \/ ref[a] = i
    \/ status[a] = "pending"
    \/ status[a] = "failed" /\ error[a] = "outcome_unknown"
    \/ status[a] = "failed" /\ error[a] = "declined" /\ reads[a][i] = "approved"

(* An approval also replaces the Manual Card tender of a sale recorded     *)
(* meanwhile.  A decline keeps a terminal purchase pending.                *)
CardTransactionEvent(a, i) ==
    LET approved == reads[a][i] = "approved"
        c == checkout[a]
        replaces == approved /\ sale[c] = "manual" /\ a \notin attached
    IN  /\ i \in 1 .. Len(reads[a]) /\ i \notin heard[a]
        /\ heard' = [heard EXCEPT ![a] = @ \cup {i}]
        /\ IF Candidate(a, i)
             THEN /\ IF approved THEN Write(a, "approved", "none", i)
                                 ELSE Write(a, "pending", "retry_declined", i)
                  /\ sale' = IF replaces THEN [sale EXCEPT ![c] = "sold"] ELSE sale
                  /\ attached' = IF replaces THEN attached \cup {a} ELSE attached
             ELSE UNCHANGED << rowVars, saleVars, confirmed >>
        /\ UNCHANGED << call, showing, reads, canceling, pollVars, late >>

(* handle_helcim_terminal_cancel: the event names a reader, not a purchase *)
(* (nor, in the smallest case, an amount).  It is taken for the reader's   *)
(* pending attempt unless a newer one, or an older expired one, makes that *)
(* unsafe; ten minutes after its creation an attempt is out of its reach.  *)
SafeCancelCandidateAnyOlder(a, t) ==     \* variant: older attempts ignored
    /\ status[a] = "pending" /\ terminal[a] = t
    /\ \A b \in Attempts : terminal[b] = t => b <= a

SafeCancelCandidate(a, t) ==
    /\ status[a] = "pending" /\ terminal[a] = t
    /\ \A b \in Attempts : terminal[b] = t => b <= a
    /\ \A b \in Attempts : b < a /\ terminal[b] = t => status[b] # "expired"

TerminalCancelEvent(b) ==
    /\ b \in canceling
    /\ canceling' = canceling \ {b}
    /\ LET match == { a \in Attempts : SafeCancelCandidate(a, terminal[b]) }
       IN  \/ \E a \in match : Write(a, "canceled", "terminal_cancel", ref[a])
           \/ /\ \A a \in match : old[a]
              /\ UNCHANGED << rowVars, confirmed >>
    /\ UNCHANGED << call, showing, reads, heard, pollVars, saleVars, late >>

-----------------------------------------------------------------------------
(* Polls: load_helcim_attempt and release_helcim_terminal_attempt.         *)

(* select_helcim_invoice_recovery_position: the invoice's one approval, or *)
(* its only movement when declines count too; 0 when there is none such.   *)
InvoiceMatch(a, approvedOnly) ==
    LET rows == 1 .. Len(reads[a])
        approvals == { i \in rows : reads[a][i] = "approved" }
        matching == IF approvals = {} /\ ~approvedOnly THEN rows ELSE approvals
    IN  IF \E i \in rows : matching = {i}
          THEN CHOOSE i \in rows : matching = {i} ELSE 0

(* What refresh_helcim_attempt_from_provider asks, and learns, for a row   *)
(* as it stands: the kind of answer, and the card transaction it is about. *)
Answer(a) ==
    IF status[a] = "pending" /\ error[a] = "retry_declined"
      THEN IF old[a] THEN << "window_over", 0 >>
                     ELSE << "watch", InvoiceMatch(a, TRUE) >>
    ELSE IF ref[a] = 0
      THEN IF reads[a] = << >> THEN << "no_match", 0 >>
                               ELSE << "invoice", InvoiceMatch(a, FALSE) >>
    ELSE IF reads[a][ref[a]] = "approved"
      THEN << "approved", ref[a] >>
    ELSE << "declined", IF status[a] = "failed" \/ ~old[a]
                          THEN InvoiceMatch(a, ~old[a]) ELSE 0 >>

(* Load the row and ask Helcim, which may not answer.  A decline within    *)
(* five minutes of the request leaves the reader free to try again.        *)
Poll(p, a, k, reply) ==
    /\ place[p] = "idle"
    /\ status[a] \in {"pending", "failed", "expired"}
    /\ reply \in { Answer(a), << "nothing", 0 >> }
    /\ place' = [place EXCEPT ![p] = "store"]
    /\ target' = [target EXCEPT ![p] = a]
    /\ saw' = [saw EXCEPT ![p] = status[a]]
    /\ asked' = [asked EXCEPT ![p] = ref[a]]
    /\ verdict' = [verdict EXCEPT ![p] = reply[1]]
    /\ found' = [found EXCEPT ![p] = reply[2]]
    /\ again' = [again EXCEPT ![p] = ~old[a]]
    /\ intent' = [intent EXCEPT ![p] = k]
    /\ MaxPolls > 0 => polls < MaxPolls
    /\ polls' = IF MaxPolls > 0 THEN polls + 1 ELSE polls
    /\ UNCHANGED << rowVars, call, helcimVars, saleVars, confirmed, late >>

(* Variant: an attempt already finalized as failed is left alone.          *)
CanRecoverOpenOnly(p) ==
    /\ found[p] # 0
    /\ status[target[p]] \in {"pending", "expired"} /\ ref[target[p]] = 0

(* The UPDATE of recover_helcim_attempt_by_invoice.                        *)
CanRecover(p) ==
    LET a == target[p]
        approved == reads[a][found[p]] = "approved"
    IN  /\ found[p] # 0
        /\ saw[p] = "failed" => approved
        /\ \/ status[a] \in {"pending", "expired"} /\ ref[a] = 0
           \/ saw[p] = "failed" /\ status[a] = "failed"

(* Variant: a single movement on the invoice is taken for an approval.     *)
RecoverAsApproved(p) == Write(target[p], "approved", "none", found[p])

Recover(p) ==
    IF reads[target[p]][found[p]] = "approved"
      THEN Write(target[p], "approved", "none", found[p])
      ELSE Write(target[p], "failed", "declined", found[p])

NoWrite == UNCHANGED << rowVars, confirmed >>

(* Go on to a later part of the request, or end it; the answer is spent.   *)
Leave(p, next) ==
    /\ place' = [place EXCEPT ![p] = next]
    /\ target' = IF next = "idle" THEN [target EXCEPT ![p] = 0] ELSE target
    /\ intent' = IF next = "idle" THEN [intent EXCEPT ![p] = "look"] ELSE intent
    /\ saw' = [saw EXCEPT ![p] = "none"]
    /\ asked' = [asked EXCEPT ![p] = 0]
    /\ verdict' = [verdict EXCEPT ![p] = "nothing"]
    /\ found' = [found EXCEPT ![p] = 0]
    /\ again' = [again EXCEPT ![p] = FALSE]
    /\ UNCHANGED polls

(* The UPDATE of expire_stale_evidence_free_helcim_terminal_attempt.       *)
Orphaned(a) ==
    status[a] = "pending" /\ ref[a] = 0 /\ ~audit[a] /\ error[a] = "none" /\ old[a]

ExpireOrphan(a) ==
    /\ status' = [status EXCEPT ![a] = "expired"]
    /\ error' = [error EXCEPT ![a] = "orphaned"]
    /\ UNCHANGED << ref, audit, old, checkout, terminal, started, confirmed >>

(* The updates of refresh_helcim_attempt_from_provider: each carries the   *)
(* condition under which the answer still applies to the row as it is now. *)
StoreWindowOver(p) ==
    LET a == target[p]
    IN  /\ verdict[p] = "window_over"
        /\ IF status[a] = "pending" /\ error[a] = "retry_declined"
             THEN Write(a, "failed", "declined", ref[a]) ELSE NoWrite

StoreInvoice(p) ==
    /\ verdict[p] \in {"watch", "invoice"}
    /\ IF CanRecover(p) THEN Recover(p) ELSE NoWrite

StoreNoMatch(p) ==
    /\ verdict[p] = "no_match"
    /\ IF Orphaned(target[p]) THEN ExpireOrphan(target[p]) ELSE NoWrite

StoreApproved(p) ==
    LET a == target[p]
    IN  /\ verdict[p] = "approved"
        /\ IF \/ status[a] \in {"pending", "expired"}
              \/ saw[p] = "failed" /\ status[a] = "failed"
             THEN Write(a, "approved", "none", asked[p]) ELSE NoWrite

StoreDeclined(p) ==
    LET a == target[p]
    IN  /\ verdict[p] = "declined"
        /\ IF CanRecover(p) THEN Recover(p)
           ELSE IF status[a] \in {"pending", "expired"} /\ ~again[p]
             THEN Write(a, "failed", "declined", asked[p])
           ELSE IF status[a] \in {"pending", "expired", "failed"} /\ again[p] /\ IndexFree(a)
             THEN Write(a, "pending", "retry_declined", asked[p])
           ELSE NoWrite

(* A request to release the attempt goes on if the refresh left it pending.*)
Store(p) ==
    /\ place[p] = "store"
    /\ \/ StoreWindowOver(p) \/ StoreInvoice(p) \/ StoreNoMatch(p)
       \/ StoreApproved(p) \/ StoreDeclined(p)
       \/ verdict[p] = "nothing" /\ NoWrite
    /\ Leave(p, IF /\ intent[p] # "look"
                   /\ \/ status'[target[p]] = "pending"
                      \/ saw[p] = "pending" /\ status' = status
                  THEN "release" ELSE "idle")
    /\ UNCHANGED << call, helcimVars, saleVars, late >>

(* Staff have seen the request gone from the reader and confirm it.        *)
ReleaseCanceled(p) ==
    LET a == target[p]
    IN  /\ place[p] = "release" /\ intent[p] = "physical_cancel"
        /\ showing[terminal[a]] # a
        /\ IF status[a] = "pending"
             THEN Write(a, "expired", "physical_cancel", ref[a]) ELSE NoWrite
        /\ Leave(p, "idle")
        /\ UNCHANGED << call, helcimVars, saleVars, late >>

(* Staff report a local error instead: the invoice is searched once more.  *)
Evidence(a) == ref[a] # 0 \/ error[a] # "none"

ReleaseAsks(p) ==
    LET a == target[p]
    IN  /\ place[p] = "release" /\ intent[p] = "ros_error"
        /\ \/ /\ status[a] # "pending" \/ Evidence(a)
              /\ Leave(p, "idle")
           \/ /\ status[a] = "pending" /\ ~Evidence(a)
              /\ place' = [place EXCEPT ![p] = "resolve"]
              /\ saw' = [saw EXCEPT ![p] = "pending"]
              /\ verdict' = [verdict EXCEPT ![p] = Answer(a)[1]]
              /\ found' = [found EXCEPT ![p] = Answer(a)[2]]
              /\ UNCHANGED << target, asked, again, intent, polls >>
           \/ Leave(p, "idle")      \* Helcim does not answer
        /\ UNCHANGED << rowVars, call, helcimVars, saleVars, confirmed, late >>

ReleaseRosError(p) ==
    LET a == target[p]
    IN  /\ place[p] = "resolve"
        /\ \/ StoreInvoice(p)
           \/ /\ verdict[p] = "no_match"
              /\ IF status[a] = "pending" /\ ~Evidence(a)
                   THEN Write(a, "expired", "ros_recovered", 0) ELSE NoWrite
        /\ Leave(p, "idle")
        /\ UNCHANGED << call, helcimVars, saleVars, late >>

-----------------------------------------------------------------------------
(* The checkout.                                                           *)

(* The expired attempts reject_unattached_helcim_attempt lets pass.        *)
Accounted == {"physical_cancel", "orphaned", "ros_recovered"}

UnattachedOpenOnly(a, c, splits) ==      \* variant: approvals not asked for
    /\ checkout[a] = c
    /\ \/ status[a] = "pending"
       \/ status[a] = "expired" /\ error[a] \notin Accounted

Unattached(a, c, splits) ==
    /\ checkout[a] = c
    /\ \/ status[a] = "pending"
       \/ status[a] = "expired" /\ error[a] \notin Accounted
       \/ status[a] = "failed" /\ error[a] = "outcome_unknown"
       \/ status[a] = "approved" /\ a \notin splits

(* execute_checkout: the card splits name approved attempts of this very   *)
(* checkout that no payment has used (validate_helcim_payment_splits).     *)
Checkout(c, splits, tender) ==
    /\ sale[c] = "open"
    /\ \A a \in splits : checkout[a] = c /\ status[a] = "approved" /\ a \notin attached
    /\ \A a \in Attempts : ~Unattached(a, c, splits)
    /\ tender = "manual" => splits = {}
    /\ sale' = [sale EXCEPT ![c] = tender]
    /\ attached' = attached \cup splits
    /\ UNCHANGED << rowVars, call, helcimVars, pollVars, confirmed, late >>

Next ==
    \/ \E c \in Checkouts, t \in Terminals : StartPurchase(c, t)
    \/ \E a \in Attempts : \/ Deliver(a) \/ Accepted(a) \/ Rejected(a) \/ Unknown(a)
                           \/ Crash(a) \/ Age(a) \/ TerminalCancelEvent(a)
                           \/ \E i \in Reads : CardTransactionEvent(a, i)
    \/ \E t \in Terminals : \/ LeaveReader(t)
                            \/ \E o \in {"declined", "approved"} : ReadCard(t, o)
    \/ \E p \in Pollers : \/ \E a \in Attempts, k \in Intents :
                              \E reply \in { Answer(a), << "nothing", 0 >> } : Poll(p, a, k, reply)
                          \/ Store(p) \/ ReleaseCanceled(p)
                          \/ ReleaseAsks(p) \/ ReleaseRosError(p)
    \/ \E a \in 1 .. started, splits \in SUBSET (1 .. started), tender \in {"sold", "manual"} :
          Checkout(checkout[a], splits, tender)

Spec == Init /\ [][Next]_vars

(* Someone keeps asking, Helcim is reached again and again, clocks advance.*)
Fairness ==
    /\ \A a \in Attempts : /\ WF_vars(Age(a))
                            /\ SF_vars(\E p \in Pollers : Poll(p, a, "look", Answer(a)))
    /\ \A p \in Pollers : WF_vars(Store(p) \/ ReleaseCanceled(p) \/ ReleaseAsks(p)
                                   \/ ReleaseRosError(p))
FairSpec == Spec /\ Fairness

-----------------------------------------------------------------------------
(* Properties.                                                             *)

Charged(a) == \E i \in 1 .. Len(reads[a]) : reads[a][i] = "approved"

(* ROS never has an approval on record that Helcim did not give, nor ties  *)
(* a sale to an attempt nobody was charged for.                            *)
ApprovalsAreReal ==
    /\ \A a \in confirmed \cup attached : Charged(a)
    /\ \A a \in Attempts : status[a] = "approved" => a \in confirmed

(* Once a purchase's dispatch has been answered, no poll, webhook, release *)
(* or routing change takes a recorded approval back.                       *)
ApprovalFinal ==
    [][\A a \in Attempts :
          status[a] = "approved" /\ call[a] = "done" => status'[a] = "approved"]_vars

(* No purchase is dispatched for a checkout that is sold, or has an        *)
(* approval still to be attached.  late: see ApprovalProtected.            *)
Starts(a, c) == status[a] = "none" /\ status'[a] = "pending" /\ checkout'[a] = c
NoSecondPurchase ==
    [][\A a \in Attempts, c \in Checkouts : Starts(a, c) =>
          /\ sale[c] = "open"
          /\ \A b \in confirmed : checkout[b] = c => b \in attached \cup late]_vars

(* A sale takes with it every approval ROS has on record for its checkout. *)
SaleTakesApprovals ==
    [][\A c \in Checkouts : sale[c] = "open" /\ sale'[c] # "open" =>
          \A b \in confirmed : checkout[b] = c => b \in attached' \cup late]_vars

(* A confirmed approval is protected from a duplicate charge and attached  *)
(* before the checkout is recorded, whenever the reply to its dispatch     *)
(* comes back.                                                             *)
ApprovalProtected ==
    [][\A a \in Attempts, c \in Checkouts : Starts(a, c) =>
          \A b \in confirmed : checkout[b] = c => b \in attached]_vars

(* A charge ends up on record, for good, if someone keeps asking for it:   *)
(* only an attempt ROS believes canceled is never asked about again.       *)
ChargeRecorded ==
    \A a \in Attempts : Charged(a) ~> [](status[a] \in {"approved", "canceled"})

(* A purchase the customer paid is taken for canceled only by a cancel     *)
(* event that came late, of an earlier purchase on that reader on which a  *)
(* card had been declined; never when the earlier one was merely released  *)
(* to make room.                                                           *)
CancelTakenForAnother ==
    \A a \in Attempts : status[a] = "canceled" /\ Charged(a) =>
        \E b \in Attempts :
            b < a /\ terminal[b] = terminal[a] /\ reads[b] # << >> /\ ~Charged(b)
=============================================================================

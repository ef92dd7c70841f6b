----------------------------- MODULE CardRefund -----------------------------
(***************************************************************************)
(* Refunds of one Transaction Record paid with one Helcim card charge      *)
(* (server/src/api/transactions.rs, process_refund and its helpers).       *)
(*                                                                         *)
(* A refund to cash, gift card or store credit is one database             *)
(* transaction.  A refund to the card is four steps with no lock held      *)
(* between them: a first transaction that only validates and is rolled     *)
(* back, the reservation of a durable provider attempt, a second           *)
(* validation before the call, and after the call the transaction that     *)
(* records return, payment and queue.  Requests interleave, are dropped    *)
(* with their connection, and are repeated by the register under the same  *)
(* refund_tender_id; Helcim decides when it likes and its answer may be    *)
(* lost.  Each call reverses the charge while its batch is open and refunds *)
(* it afterwards, and the two have keys of their own at Helcim: one attempt *)
(* may be two requests.  Amounts count money, and so does merchandise.     *)
(*                                                                         *)
(* Not here: voided and cancelled records, exchange remainders, the manual *)
(* external refund, wedding payers, records with more than one charge.     *)
(***************************************************************************)
EXTENDS Integers, FiniteSets, Sequences, Sums

CONSTANTS
    Tenders,        \* refund_tender_id values the register sends
    Handlers,       \* requests the server works on at the same time
    None,
    Charge,         \* what the card was charged: the whole sale
    Cancellations,  \* bound: values of the item cancellations
    MaxAttempts     \* bound: rows of payment_provider_attempts

ASSUME CardRefundAssumption ==
    /\ Charge \in Nat \ {0}
    /\ Cancellations \subseteq Nat \ {0}
    /\ MaxAttempts \in Nat
    /\ None \notin Tenders

VARIABLES
    plan,       \* what the register sends with each tender
    ledger,     \* the committed refunds, in order
    queue,      \* the newest committed row of transaction_refund_queue
    cancelled,  \* value of the items cancelled apart from any refund
    attempts,   \* payment_provider_attempts of refunds of the charge
    handler,    \* the card refund requests at work
    reached,    \* Helcim: the requests it has received
    moved,      \* Helcim: the requests it granted
    declined,   \* Helcim: the requests it declined
    batch,      \* Helcim: the settlement batch of the charge
    abandoned   \* history: attempts Helcim may have refunded, marked as failed

helcim == << reached, moved, declined, batch >>
books == << ledger, queue, cancelled >>
vars == << plan, books, attempts, handler, helcim, abandoned >>

Plans ==
    [method: {"card", "cash"}, amount: 1..Charge,
     staged: 0..Charge]     \* value of the return lines sent along

AttemptIds == 1..MaxAttempts

\* HelcimCardReturnAction.  A request to Helcim is an attempt with the action
\* it was sent as: a refund goes under the attempt's key, a reversal under
\* that key with -reverse.
Actions == {"refund", "reverse"}

\* The idempotency key: queue row, refunded so far, amount.  A queue row that
\* was rolled back has an id of its own that never comes again, 0 for each.
Keys == [queue: Nat, refunded: 0..Charge, amount: 1..Charge]

AttemptRecords ==
    [tender: Tenders, key: Keys,
     base: BOOLEAN,             \* FALSE: the key has a -retry- suffix
     status: {"pending", "failed", "approved"},
     code: {"none", "outcome_unknown", "before_call", "request_rejected",
            "declined", "mismatch"},
     fresh: BOOLEAN]            \* within the safe replay window

Idle ==
    [at |-> "idle", tender |-> None, key |-> None, attempt |-> 0,
     action |-> "refund", dispatched |-> FALSE]

HandlerRecords ==
    [at: {"reserve", "retry", "recheck", "lookup", "send", "wait", "attach"},
     tender: Tenders, key: Keys, attempt: 0..MaxAttempts, action: Actions,
     dispatched: BOOLEAN]       \* provider_attempt_may_have_been_dispatched

LedgerEntries == [tender: Tenders, attempt: 0..MaxAttempts]

TypeOK ==
    /\ plan \in [Tenders -> Plans]
    /\ ledger \in Seq(LedgerEntries)
    /\ queue \in [id: Nat, open: BOOLEAN]
    /\ attempts \in Seq(AttemptRecords) /\ Len(attempts) <= MaxAttempts
    /\ handler \in [Handlers -> HandlerRecords \cup {Idle}]
    /\ \A h \in Handlers :
          handler[h].at \in {"recheck", "lookup", "send", "wait", "attach"} =>
              handler[h].attempt \in DOMAIN attempts
    /\ reached \subseteq (DOMAIN attempts) \X Actions
    /\ moved \subseteq reached
    /\ declined \subseteq reached \ moved
    /\ batch \in {"open", "closed"}
    /\ abandoned \subseteq DOMAIN attempts
    /\ cancelled \in 0..Charge

Init ==
    /\ plan \in [Tenders -> {p \in Plans :
                                p.staged = 0 \/ p.staged >= p.amount}]
    /\ ledger = << >>
    /\ queue = [id |-> 0, open |-> FALSE]
    /\ attempts = << >>
    /\ handler = [h \in Handlers |-> Idle]
    /\ reached = {} /\ moved = {} /\ declined = {}
    /\ batch = "open"
    /\ abandoned = {}
    /\ cancelled = 0
-----------------------------------------------------------------------------
(* The books of the record.                                                *)

StagedOf(entry) == plan[entry.tender].staged
AmountOf(entry) == plan[entry.tender].amount
CardAmountOf(entry) == IF entry.attempt = 0 THEN 0 ELSE AmountOf(entry)

Returned ==
    cancelled + SumTo([i \in DOMAIN ledger |-> StagedOf(ledger[i])], Len(ledger))

Refunded ==
    SumTo([i \in DOMAIN ledger |-> AmountOf(ledger[i])], Len(ledger))

CardRefunded ==
    SumTo([i \in DOMAIN ledger |-> CardAmountOf(ledger[i])], Len(ledger))

Attached == {ledger[i].attempt : i \in DOMAIN ledger} \ {0}

\* A completed refund of the tender is answered again, not repeated.
Completed(t) == \E i \in DOMAIN ledger : ledger[i].tender = t

\* The staged return lines apply; with them the record has an open queue row
\* and paid credit of at least the amount.
Credit(t) == Returned + plan[t].staged - Refunded

Fits(t) ==
    /\ Returned + plan[t].staged <= Charge
    /\ queue.open \/ plan[t].staged > 0
    /\ plan[t].amount <= Credit(t)

FitsCard(t) == Fits(t) /\ plan[t].amount <= Charge - CardRefunded

\* The commit: return, payment with its allocation, queue, amount_paid.
Record(t, a) ==
    /\ ledger' = Append(ledger, [tender |-> t, attempt |-> a])
    /\ queue' = [id |-> IF queue.open THEN queue.id ELSE queue.id + 1,
                 open |-> plan[t].amount < Credit(t)]
    /\ UNCHANGED cancelled

\* Order items not handed over are cancelled, with a reason and without a
\* tender: what they were sold for is to be refunded later.
CancelItems(value) ==
    /\ Returned + value <= Charge
    /\ cancelled' = cancelled + value
    /\ queue' = [id |-> IF queue.open THEN queue.id ELSE queue.id + 1,
                 open |-> TRUE]
    /\ UNCHANGED << plan, ledger, attempts, handler, helcim, abandoned >>
-----------------------------------------------------------------------------
(* The first transaction.                                                  *)

RefundAtOnce(t) ==
    /\ plan[t].method = "cash"
    /\ ~Completed(t)
    /\ Fits(t)
    /\ Record(t, 0)
    /\ UNCHANGED << plan, attempts, handler, helcim, abandoned >>

BaseKey(t) ==
    [queue |-> IF queue.open THEN queue.id ELSE 0,
     refunded |-> CardRefunded, amount |-> plan[t].amount]

WithKey(key) ==
    {a \in DOMAIN attempts :
        attempts[a].base /\ key.queue # 0 /\ attempts[a].key = key}

Approved(a) == attempts[a].status = "approved" /\ attempts[a].code = "none"

Mismatched(a) == attempts[a].code = "mismatch"

\* The same refund is asked for again after its approval was stored but not
\* recorded: it is recorded now, and Helcim is not called.
Restore(t) ==
    /\ plan[t].method = "card"
    /\ ~Completed(t)
    /\ FitsCard(t)
    /\ \E a \in WithKey(BaseKey(t)) :
          Approved(a) /\ a \notin Attached /\ Record(t, a)
    /\ UNCHANGED << plan, attempts, handler, helcim, abandoned >>

BeginCardRefund(h, t) ==
    /\ handler[h].at = "idle"
    /\ plan[t].method = "card"
    /\ ~Completed(t)
    /\ FitsCard(t)
    /\ \A a \in WithKey(BaseKey(t)) : ~Approved(a) /\ ~Mismatched(a)
    /\ handler' = [handler EXCEPT
          ![h] = [at |-> "reserve", tender |-> t, key |-> BaseKey(t),
                  attempt |-> 0, action |-> "refund", dispatched |-> FALSE]]
    /\ UNCHANGED << plan, books, attempts, helcim, abandoned >>
-----------------------------------------------------------------------------
(* The reservation: create_pending_card_refund_attempt, under an advisory  *)
(* lock on the original charge.                                            *)

\* Mutant: an approved refund no longer reserves the charge.
UnresolvedPending(a) == attempts[a].status = "pending"

Unresolved(a) ==
    \/ attempts[a].status = "pending"
    \/ attempts[a].status = "approved" /\ a \notin Attached

Reserved(except) == \E a \in DOMAIN attempts \ except : Unresolved(a)

\* The outcome is stored by id, whatever the row says by then.
Mark(a, status, code) ==
    attempts' = [attempts EXCEPT ![a].status = status, ![a].code = code]

Insert(h, isBase) ==
    /\ Len(attempts) < MaxAttempts
    /\ attempts' = Append(attempts,
          [tender |-> handler[h].tender, key |-> handler[h].key,
           base |-> isBase, status |-> "pending", code |-> "none",
           fresh |-> TRUE])
    /\ handler' = [handler EXCEPT ![h].at = "recheck",
                                  ![h].attempt = Len(attempts) + 1]

ReserveNew(h) ==
    /\ handler[h].at = "reserve"
    /\ WithKey(handler[h].key) = {}
    /\ ~Reserved({})
    /\ Insert(h, TRUE)
    /\ UNCHANGED << plan, books, helcim, abandoned >>

\* An attempt under the same key whose outcome is unknown is sent again with
\* that key; one approved meanwhile is used; one that failed before the call
\* is made pending again.
ReserveSame(h) ==
    /\ handler[h].at = "reserve"
    /\ \E a \in WithKey(handler[h].key) :
          /\ ~Reserved({a})
          /\ \/ attempts[a].status = "pending"
                /\ attempts[a].code = "outcome_unknown"
                /\ attempts[a].fresh
             \/ Approved(a)
             \/ attempts[a].code = "before_call"
          /\ IF attempts[a].code = "before_call" THEN Mark(a, "pending", "none")
             ELSE UNCHANGED attempts
          /\ handler' = [handler EXCEPT
                ![h].at = "recheck", ![h].attempt = a,
                ![h].dispatched = attempts[a].code # "before_call"]
    /\ UNCHANGED << plan, books, helcim, abandoned >>

\* A refund declined or rejected under the key is tried under a new one, in a
\* second reservation.
ReserveAfterFailure(h) ==
    /\ handler[h].at = "reserve"
    /\ \E a \in WithKey(handler[h].key) :
          /\ ~Reserved({a})
          /\ attempts[a].code \in {"declined", "request_rejected"}
    /\ handler' = [handler EXCEPT ![h].at = "retry"]
    /\ UNCHANGED << plan, books, attempts, helcim, abandoned >>

ReserveRetry(h) ==
    /\ handler[h].at = "retry"
    /\ ~Reserved({})
    /\ Insert(h, FALSE)
    /\ UNCHANGED << plan, books, helcim, abandoned >>
-----------------------------------------------------------------------------
(* The second transaction, the provider lookups and the call.              *)

Attempt(h) == attempts[handler[h].attempt]

\* Attempts Helcim may have moved money for, or may yet.
Open == {r[1] : r \in reached \ declined}

Release(h) == handler' = [handler EXCEPT ![h] = Idle]

\* Mutant: a failure before this call forgets an earlier one.
FailBeforeAnyCall(h) == Mark(handler[h].attempt, "failed", "before_call")

\* record_card_refund_pre_dispatch_failure
FailBeforeCall(h) ==
    IF handler[h].dispatched THEN UNCHANGED attempts
    ELSE Mark(handler[h].attempt, "failed", "before_call")

\* Mutant: what is left to refund is not looked at again.
StillAtWork(h) == handler[h].at # "idle"

CanProceed(h) == FitsCard(handler[h].tender)

Recheck(h) ==
    /\ handler[h].at = "recheck"
    /\ CanProceed(h) /\ ~Approved(handler[h].attempt) /\ Attempt(h).fresh
    /\ handler' = [handler EXCEPT ![h].at = "lookup"]
    /\ UNCHANGED << plan, books, attempts, helcim, abandoned >>

\* The attempt was found approved: no call, the open transaction records it.
\* payment_transactions takes a provider refund id once.
RecheckApproved(h) ==
    /\ handler[h].at = "recheck"
    /\ CanProceed(h) /\ Approved(handler[h].attempt)
    /\ handler[h].attempt \notin Attached
    /\ Record(handler[h].tender, handler[h].attempt)
    /\ Release(h)
    /\ UNCHANGED << plan, attempts, helcim, abandoned >>

\* The credit or the capacity is gone, the replay window has closed, or the
\* drawer the request came from: drawers are not followed here, as a closed one
\* only makes this check fail, or the one before the commit (Drop).
RecheckFails(h) ==
    /\ handler[h].at = "recheck"
    /\ FailBeforeCall(h)
    /\ Release(h)
    /\ UNCHANGED << plan, books, helcim, abandoned >>

\* card_return_action.  Nothing is refunded yet under a key that says so, and
\* the whole charge in an open batch is reversed; part of it must wait.
ReturnAction(key) ==
    IF batch = "closed" THEN {"refund"}
    ELSE IF key.refunded = 0 /\ key.amount = Charge THEN {"reverse"} ELSE {}

\* Helcim is asked about the charge and its batch: every call, a replay too,
\* chooses its action anew.
Lookup(h) ==
    /\ handler[h].at = "lookup"
    /\ \E action \in ReturnAction(handler[h].key) :
          handler' = [handler EXCEPT ![h].at = "send", ![h].action = action]
    /\ UNCHANGED << plan, books, attempts, helcim, abandoned >>

\* Helcim could not be asked, or the batch admits no action, or the replay
\* window closed meanwhile.
LookupFails(h) ==
    /\ \/ handler[h].at = "lookup"
       \/ handler[h].at = "send" /\ ~Attempt(h).fresh
    /\ FailBeforeCall(h)
    /\ Release(h)
    /\ UNCHANGED << plan, books, helcim, abandoned >>

Request(h) == << handler[h].attempt, handler[h].action >>

Send(h) ==
    /\ handler[h].at = "send" /\ Attempt(h).fresh
    /\ reached' = reached \cup {Request(h)}
    /\ handler' = [handler EXCEPT ![h].at = "wait"]
    /\ UNCHANGED << plan, books, attempts, moved, declined, batch, abandoned >>

\* The rate limit, or a 4xx answer to a request Helcim did not take up.
SendRejected(h) ==
    LET a == handler[h].attempt IN
    /\ handler[h].at = "send" /\ Attempt(h).fresh
    /\ Mark(a, "failed", "request_rejected")
    /\ abandoned' = abandoned \cup ({a} \cap Open)
    /\ Release(h)
    /\ UNCHANGED << plan, books, helcim >>

\* Helcim judges each request by itself, once.
HelcimRefunds(r) ==
    /\ r \in reached \ (moved \cup declined)
    /\ moved' = moved \cup {r}
    /\ UNCHANGED << plan, books, attempts, handler, reached, declined, batch,
                    abandoned >>

HelcimDeclines(r) ==
    /\ r \in reached \ (moved \cup declined)
    /\ declined' = declined \cup {r}
    /\ UNCHANGED << plan, books, attempts, handler, reached, moved, batch,
                    abandoned >>

BatchCloses ==
    /\ batch = "open"
    /\ batch' = "closed"
    /\ UNCHANGED << plan, books, attempts, handler, reached, moved, declined,
                    abandoned >>

AnswerApproved(h) ==
    LET a == handler[h].attempt IN
    /\ handler[h].at = "wait" /\ Request(h) \in moved
    /\ \/ /\ Mark(a, "approved", "none")
          /\ handler' = [handler EXCEPT ![h].at = "attach"]
       \/ /\ Mark(a, "approved", "mismatch")
          /\ Release(h)
    /\ UNCHANGED << plan, books, helcim, abandoned >>

\* The answer to this request alone; another of the attempt is not thought of.
AnswerDeclined(h) ==
    /\ handler[h].at = "wait" /\ Request(h) \in declined
    /\ Mark(handler[h].attempt, "failed", "declined")
    /\ Release(h)
    /\ UNCHANGED << plan, books, helcim, abandoned >>

NoAnswer(h) ==
    /\ handler[h].at = "wait"
    /\ Mark(handler[h].attempt, "pending", "outcome_unknown")
    /\ Release(h)
    /\ UNCHANGED << plan, books, helcim, abandoned >>
-----------------------------------------------------------------------------
(* The third transaction.                                                  *)

\* Mutant: the ledger takes the same provider refund a second time.
AttachAgain(h) ==
    /\ handler[h].at = "attach"
    /\ CanProceed(h)
    /\ Record(handler[h].tender, handler[h].attempt)
    /\ Release(h)
    /\ UNCHANGED << plan, attempts, helcim, abandoned >>

Attach(h) ==
    /\ handler[h].at = "attach"
    /\ CanProceed(h)
    /\ handler[h].attempt \notin Attached
    /\ Record(handler[h].tender, handler[h].attempt)
    /\ Release(h)
    /\ UNCHANGED << plan, attempts, helcim, abandoned >>

\* The request ends with an error, or with its connection or the server, and
\* leaves what it stored.
Drop(h) ==
    /\ handler[h].at # "idle"
    /\ Release(h)
    /\ UNCHANGED << plan, books, attempts, helcim, abandoned >>

\* The safe replay window of an attempt closes; Helcim remembers keys longer.
\* Only a pending attempt is asked for its age: of another, this can wait.
WindowCloses(a) ==
    /\ attempts[a].fresh /\ attempts[a].status = "pending"
    /\ attempts' = [attempts EXCEPT ![a].fresh = FALSE]
    /\ UNCHANGED << plan, books, handler, helcim, abandoned >>

Next ==
    \/ \E t \in Tenders : RefundAtOnce(t) \/ Restore(t)
    \/ \E h \in Handlers :
          \/ \E t \in Tenders : BeginCardRefund(h, t)
          \/ ReserveNew(h) \/ ReserveSame(h)
          \/ ReserveAfterFailure(h) \/ ReserveRetry(h)
          \/ Recheck(h) \/ RecheckApproved(h) \/ RecheckFails(h)
          \/ Lookup(h) \/ LookupFails(h) \/ Send(h) \/ SendRejected(h)
          \/ AnswerApproved(h) \/ AnswerDeclined(h) \/ NoAnswer(h)
          \/ Attach(h) \/ Drop(h)
    \/ \E r \in reached : HelcimRefunds(r) \/ HelcimDeclines(r)
    \/ \E a \in DOMAIN attempts : WindowCloses(a)
    \/ \E value \in Cancellations : CancelItems(value)
    \/ BatchCloses

Spec == Init /\ [][Next]_vars
-----------------------------------------------------------------------------
(* Properties.                                                             *)

\* However cash and card refunds interleave across the calls, the books never
\* give back more than the merchandise returned, nor more than the charge to
\* the card (validate_refund_capacity_in_tx, at each of the three places).
RefundsCovered ==
    /\ Refunded <= Returned
    /\ Returned <= Charge
    /\ CardRefunded <= Charge

\* A card refund in the ledger is one Helcim made, of that amount, and none is
\* recorded twice, by whichever of several requests for the same attempt
\* comes to record it.
AttachedIsReal ==
    /\ Attached \subseteq {r[1] : r \in moved}
    /\ \A i, j \in DOMAIN ledger :
          i # j => ledger[i].attempt # ledger[j].attempt \/ ledger[i].attempt = 0
    /\ \A i \in DOMAIN ledger : ledger[i].attempt # 0 =>
          plan[ledger[i].tender].amount = attempts[ledger[i].attempt].key.amount

\* Attempts sent both ways of which one request was declined: what the answer
\* says of that one, the row says of both.
Split ==
    {a \in {r[1] : r \in declined} : \A c \in Actions : << a, c >> \in reached}

\* Helcim never holds refunds of two attempts that the books have not taken
\* in: while it may yet move money for one no other is sent, across retries,
\* replays, closed windows and dropped requests, nor while the second request
\* of the same attempt is out.  The exceptions are an attempt whose replay was
\* rejected, which the code forgets it had sent before, and one split.
OneOutstanding ==
    Cardinality(Open \ (Attached \cup abandoned \cup Split)) <= 1

\* An attempt marked failed is one Helcim will never refund, but for those two
\* kinds (mark_card_refund_attempt_failed).
FailedMeansNoMoney ==
    \A a \in DOMAIN attempts \ (abandoned \cup Split) :
        attempts[a].status = "failed" => a \notin Open

\* What the guide for interrupted approvals promises: a refund asked for again
\* after its approval was stored, when no request for it is at work any more,
\* finds that approval (Restore) and does not begin a refund of its own.
RestoreFindsApproval ==
    [][\A h \in Handlers, a \in DOMAIN attempts :
        ~ /\ handler[h].at = "idle" /\ handler'[h].at = "reserve"
          /\ \A g \in Handlers : handler[g].tender # handler'[h].tender
          /\ attempts[a].tender = handler'[h].tender
          /\ Approved(a) /\ a \notin Attached]_vars
=============================================================================

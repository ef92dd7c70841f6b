------------------------- MODULE CardTerminalProofs -------------------------
(* Theorems about CardTerminal, for any checkouts, readers, pollers,        *)
(* purchases, cards and polls, and about the event ledger its webhooks     *)
(* come through (HelcimEvents).                                            *)
EXTENDS CardTerminal, HelcimEvents, TLAPS

(* A row exists from the start of its purchase, and names a reader.        *)
RowsOK ==
    \A a \in Attempts :
        IF a <= started
          THEN status[a] # "none" /\ terminal[a] \in Terminals
          ELSE /\ status[a] = "none" /\ error[a] = "none" /\ call[a] = "none"
               /\ a \notin confirmed

(* The purchase has left its reader, for good.                             *)
OffReader(a) ==
    call[a] \in {"delivered", "done"} /\ \A t \in Terminals : showing[t] # a

(* What a reader shows is a delivered purchase of its own, not yet paid;    *)
(* cards are only tried on delivered purchases; and one whose cancel event  *)
(* is on its way left the reader unpaid.                                   *)
ReadersOK ==
    /\ \A t \in Terminals : showing[t] # 0 =>
          /\ terminal[showing[t]] = t
          /\ call[showing[t]] \in {"delivered", "done"}
          /\ ~Charged(showing[t])
    /\ \A a \in Attempts : call[a] \in {"none", "sending", "refused"} => reads[a] = << >>
    /\ \A a \in canceling : OffReader(a) /\ ~Charged(a)

(* What a poll took from Helcim is still on the invoice when it is stored. *)
PollOK(p) ==
    /\ place[p] # "idle" => target[p] \in 1 .. started
    /\ place[p] = "release" => asked[p] = 0
    /\ place[p] \in {"store", "resolve"} =>
          /\ found[p] <= Len(reads[target[p]])
          /\ asked[p] <= Len(reads[target[p]])
          /\ verdict[p] = "approved" =>
                asked[p] > 0 /\ reads[target[p]][asked[p]] = "approved"
          /\ verdict[p] = "declined" => reads[target[p]] # << >>
PollsOK == \A p \in Pollers : PollOK(p)

(* A row names card transactions of its invoice, and an approval stays on   *)
(* it, unless the reply to its own dispatch came after it.                 *)
RefOK(a) ==
    /\ ref[a] <= Len(reads[a])
    /\ status[a] = "approved" => ref[a] = 0 \/ reads[a][ref[a]] = "approved"
    /\ a \in confirmed \ late => status[a] = "approved"
    /\ error[a] = "retry_declined" => reads[a] # << >>
RefsOK == \A a \in Attempts : RefOK(a)

(* An earlier purchase on the same reader left it after a declined card.   *)
Earlier(a) ==
    \E b \in Attempts :
        /\ b < a /\ terminal[b] = terminal[a] /\ reads[b] # << >>
        /\ OffReader(b) /\ ~Charged(b)

(* How a purchase ended: failed after a declined card or without having     *)
(* reached its reader; canceled for its own cancel event or for that of an  *)
(* earlier purchase.                                                       *)
EndOK(a) ==
    /\ status[a] = "failed" =>
          reads[a] # << >> \/ (OffReader(a) /\ a \notin canceling)
    /\ status[a] = "canceled" =>
          Earlier(a) \/ (OffReader(a) /\ a \notin canceling /\ ~Charged(a))
EndsOK == \A a \in Attempts : EndOK(a)

(* The partial unique index: one pending row per reader.                   *)
OnePending ==
    \A a, b \in Attempts :
        status[a] = "pending" /\ status[b] = "pending" /\ terminal[a] = terminal[b]
            => a = b

IInv ==
    /\ TypeOK /\ RowsOK /\ ReadersOK /\ PollsOK /\ RefsOK /\ EndsOK
    /\ OnePending /\ ApprovalsAreReal

-----------------------------------------------------------------------------
(* Helcim's answers.                                                       *)

(* The attempts, and the card transactions of one.                         *)
LEMMA AttemptFacts ==
    /\ Attempts \subseteq Nat \ {0}
    /\ \A a, b \in Attempts : a \in Nat /\ b \in Nat /\ (a <= b \/ b < a)
    /\ NoTerminal \notin Terminals /\ NoCheckout \notin Checkouts
    /\ MaxReads \in Nat /\ MaxStarts \in Nat /\ MaxPolls \in Nat
    /\ "look" \in Intents /\ Intents \subseteq {"look", "physical_cancel", "ros_error"}
  BY CardTerminalAssumption DEF Attempts

(* The card transactions of an attempt can only be followed by more.       *)
LEMMA ReadsType ==
    ASSUME TypeOK, NEW a \in Attempts
    PROVE  /\ reads[a] \in Seq({"declined", "approved"})
           /\ Len(reads[a]) \in Nat /\ Len(reads[a]) <= MaxReads
           /\ ref[a] \in Nat
           /\ \A i \in 1 .. Len(reads[a]) :
                 reads[a][i] \in {"declined", "approved"} /\ i \in Reads
           /\ reads[a] = << >> <=> Len(reads[a]) = 0
  <1>1. reads[a] \in Seq({"declined", "approved"}) /\ Len(reads[a]) \in Reads
    BY DEF TypeOK
  <1>2. ref[a] \in Nat
    BY AttemptFacts DEF TypeOK, Reads
  <1>3. QED BY <1>1, <1>2, AttemptFacts DEF Reads

(* What an invoice search finds is on the invoice.                         *)
LEMMA MatchFacts ==
    ASSUME TypeOK, NEW a \in Attempts, NEW only
    PROVE  InvoiceMatch(a, only) \in 0 .. Len(reads[a])
  <1> DEFINE rows == 1 .. Len(reads[a])
             approvals == { i \in rows : reads[a][i] = "approved" }
             matching == IF approvals = {} /\ ~only THEN rows ELSE approvals
  <1>1. InvoiceMatch(a, only) =
            IF \E i \in rows : matching = {i}
              THEN CHOOSE i \in rows : matching = {i} ELSE 0
    BY DEF InvoiceMatch
  <1>2. \A i \in rows : i \in 0 .. Len(reads[a])
    BY ReadsType
  <1>3. 0 \in 0 .. Len(reads[a])
    BY ReadsType
  <1> HIDE DEF matching, rows
  <1>4. QED BY <1>1, <1>2, <1>3

(* A poll learns of an approval, or a decline, of a card transaction that   *)
(* is on the invoice.                                                      *)
LEMMA AnswerFacts ==
    ASSUME TypeOK, NEW a \in Attempts, RefOK(a)
    PROVE  /\ Answer(a)[1] \in Verdicts
           /\ Answer(a)[2] \in 0 .. Len(reads[a])
           /\ Answer(a)[1] = "approved" =>
                 ref[a] > 0 /\ reads[a][ref[a]] = "approved"
           /\ Answer(a)[1] = "declined" => reads[a] # << >>
           /\ ref[a] = 0 /\ error[a] = "none" =>
                 Answer(a)[1] \in {"no_match", "invoice"}
  <1>1. /\ InvoiceMatch(a, TRUE) \in 0 .. Len(reads[a])
        /\ InvoiceMatch(a, FALSE) \in 0 .. Len(reads[a])
        /\ InvoiceMatch(a, ~old[a]) \in 0 .. Len(reads[a])
        /\ 0 \in 0 .. Len(reads[a])
    <2>1. /\ InvoiceMatch(a, TRUE) \in 0 .. Len(reads[a])
          /\ InvoiceMatch(a, FALSE) \in 0 .. Len(reads[a])
      BY MatchFacts
    <2>2. InvoiceMatch(a, ~old[a]) \in 0 .. Len(reads[a])
      BY MatchFacts
    <2>3. Len(reads[a]) \in Nat
      BY ReadsType
    <2>4. 0 \in 0 .. Len(reads[a])
      BY <2>3
    <2>5. QED BY <2>1, <2>2, <2>4
  <1>2. ref[a] \in 0 .. Len(reads[a]) /\ ref[a] \in Nat /\ Len(reads[a]) \in Nat
    BY ReadsType DEF RefOK
  <1>3. CASE status[a] = "pending" /\ error[a] = "retry_declined"
    BY <1>1, <1>3 DEF Answer, Verdicts
  <1>4. CASE /\ ~ (status[a] = "pending" /\ error[a] = "retry_declined")
             /\ ref[a] = 0
    BY <1>1, <1>4 DEF Answer, Verdicts
  <1>5. CASE /\ ~ (status[a] = "pending" /\ error[a] = "retry_declined")
             /\ ref[a] # 0
    <2>1. reads[a] # << >> /\ ref[a] > 0
      BY <1>2, <1>5, ReadsType
    <2>2. CASE reads[a][ref[a]] = "approved"
      BY <1>2, <1>5, <2>1, <2>2 DEF Answer, Verdicts
    <2>3. CASE reads[a][ref[a]] # "approved"
      BY <1>1, <1>5, <2>1, <2>3 DEF Answer, Verdicts
    <2>4. QED BY <2>2, <2>3
  <1>6. QED BY <1>3, <1>4, <1>5

-----------------------------------------------------------------------------
(* Types, a part of the state at a time.                                   *)

RowTypes ==
    /\ status \in [Attempts -> Statuses]
    /\ error \in [Attempts -> Errors]
    /\ ref \in [Attempts -> Reads]
    /\ audit \in [Attempts -> BOOLEAN]
    /\ old \in [Attempts -> BOOLEAN]
    /\ checkout \in [Attempts -> Checkouts \cup {NoCheckout}]
    /\ terminal \in [Attempts -> Terminals \cup {NoTerminal}]
    /\ started \in 0 .. MaxStarts
    /\ confirmed \in SUBSET Attempts

CallTypes ==
    /\ call \in [Attempts -> {"none", "sending", "delivered", "refused", "done"}]
    /\ late \in SUBSET Attempts

HelcimTypes ==
    /\ showing \in [Terminals -> Attempts \cup {0}]
    /\ reads \in [Attempts -> Seq({"declined", "approved"})]
    /\ \A a \in Attempts : Len(reads[a]) \in Reads
    /\ canceling \in SUBSET Attempts
    /\ heard \in [Attempts -> SUBSET Reads]

PollTypes ==
    /\ place \in [Pollers -> {"idle", "store", "release", "resolve"}]
    /\ target \in [Pollers -> Attempts \cup {0}]
    /\ saw \in [Pollers -> Statuses]
    /\ asked \in [Pollers -> Reads]
    /\ verdict \in [Pollers -> Verdicts]
    /\ found \in [Pollers -> Reads]
    /\ again \in [Pollers -> BOOLEAN]
    /\ intent \in [Pollers -> Intents]
    /\ polls \in 0 .. MaxPolls

SaleTypes ==
    /\ sale \in [Checkouts -> {"open", "sold", "manual"}]
    /\ attached \in SUBSET Attempts

(* TypeOK is the conjunction of the parts.                                 *)
LEMMA TypeParts ==
    /\ TypeOK <=> RowTypes /\ CallTypes /\ HelcimTypes /\ PollTypes /\ SaleTypes
    /\ TypeOK' <=> /\ RowTypes' /\ CallTypes' /\ HelcimTypes' /\ PollTypes'
                   /\ SaleTypes'
  BY DEF TypeOK, RowTypes, CallTypes, HelcimTypes, PollTypes, SaleTypes

(* A write of one row.                                                     *)
LEMMA WriteTypes ==
    ASSUME RowTypes, NEW a, NEW s \in Statuses, NEW e \in Errors, NEW r \in Reads,
           a \in Attempts, Write(a, s, e, r)
    PROVE  RowTypes'
  BY DEF RowTypes, Write

(* The end of a part of a poll.                                            *)
LEMMA LeaveTypes ==
    ASSUME PollTypes, NEW p \in Pollers, NEW next \in {"idle", "release"},
           Leave(p, next)
    PROVE  PollTypes'
  <1>1. "none" \in Statuses /\ 0 \in Reads /\ "nothing" \in Verdicts
    BY AttemptFacts DEF Statuses, Reads, Verdicts
  <1>2. QED BY <1>1, AttemptFacts DEF PollTypes, Leave

(* What a poll may write of its attempt.                                   *)
LEMMA StoreRowTypes ==
    ASSUME TypeOK, NEW p \in Pollers, target[p] \in Attempts,
           \/ StoreWindowOver(p) \/ StoreInvoice(p) \/ StoreNoMatch(p)
           \/ StoreApproved(p) \/ StoreDeclined(p) \/ NoWrite
    PROVE  RowTypes'
  <1> DEFINE a == target[p]
  <1>1. /\ ref[a] \in Reads /\ asked[p] \in Reads /\ found[p] \in Reads
        /\ {"pending", "approved", "failed", "expired"} \subseteq Statuses
        /\ {"none", "declined", "retry_declined", "orphaned"} \subseteq Errors
        /\ RowTypes /\ a \in Attempts
    BY TypeParts DEF TypeOK, Statuses, Errors
  <1>2. NoWrite => RowTypes'
    BY <1>1 DEF NoWrite, rowVars, RowTypes
  <1>3. Recover(p) => RowTypes'
    BY <1>1, WriteTypes DEF Recover
  <1>4. ExpireOrphan(a) => RowTypes'
    BY <1>1 DEF ExpireOrphan, RowTypes
  <1> HIDE DEF a
  <1>5. ASSUME NEW s \in Statuses, NEW e \in Errors, NEW r \in Reads,
               Write(a, s, e, r)
        PROVE  RowTypes'
    BY <1>1, <1>5, WriteTypes
  <1>6. StoreWindowOver(p) => RowTypes'
    BY <1>1, <1>2, <1>5 DEF StoreWindowOver, a
  <1>7. StoreInvoice(p) => RowTypes'
    BY <1>2, <1>3 DEF StoreInvoice
  <1>8. StoreNoMatch(p) => RowTypes'
    BY <1>2, <1>4 DEF StoreNoMatch, a
  <1>9. StoreApproved(p) => RowTypes'
    BY <1>1, <1>2, <1>5 DEF StoreApproved, a
  <1>10. StoreDeclined(p) => RowTypes'
    BY <1>1, <1>2, <1>3, <1>5 DEF StoreDeclined, a
  <1>11. QED BY <1>2, <1>6, <1>7, <1>8, <1>9, <1>10

(* Which steps change the rows: the others leave them.                     *)
LEMMA RowTypesStep ==
    ASSUME TypeOK, RowsOK, PollsOK, RefsOK, [Next]_vars
    PROVE  RowTypes'
  <1> USE AttemptFacts
  <1>1. RowTypes /\ \A a \in Attempts : ref[a] \in Reads
    BY TypeParts DEF RowTypes
  <1>2. CASE UNCHANGED rowVars /\ UNCHANGED confirmed
    BY <1>1, <1>2 DEF rowVars, RowTypes
  <1>3. ASSUME NEW c \in Checkouts, NEW t \in Terminals, StartPurchase(c, t)
        PROVE  RowTypes'
    <2>1. started + 1 \in Attempts /\ started' = started + 1
      BY <1>3 DEF StartPurchase
    <2>2. started' \in 0 .. MaxStarts
      BY <1>1, <2>1 DEF Attempts, RowTypes
    <2>3. /\ status' \in [Attempts -> Statuses]
          /\ error' \in [Attempts -> Errors]
      BY <1>1, <1>3 DEF StartPurchase, RowTypes, Statuses, Errors
    <2>4. QED BY <1>1, <1>3, <2>1, <2>2, <2>3 DEF StartPurchase, RowTypes
  <1>4. ASSUME NEW a \in Attempts, Accepted(a) \/ Rejected(a) \/ Unknown(a)
        PROVE  RowTypes'
    <2>1. CASE Accepted(a)
      BY <1>1, <2>1 DEF Accepted, Answered, RowTypes, Reads
    <2>2. CASE Rejected(a)
      BY <1>1, <2>2 DEF Rejected, Answered, RowTypes, Statuses, Errors
    <2>3. CASE Unknown(a)
      BY <1>1, <2>3 DEF Unknown, Answered, RowTypes, Statuses, Errors
    <2>4. QED BY <1>4, <2>1, <2>2, <2>3
  <1>5. ASSUME NEW a \in Attempts, Age(a)
        PROVE  RowTypes'
    BY <1>1, <1>5 DEF Age, RowTypes
  <1>6. ASSUME NEW a \in Attempts, TerminalCancelEvent(a)
        PROVE  RowTypes'
    <2>1. \/ \E b \in Attempts : Write(b, "canceled", "terminal_cancel", ref[b])
          \/ UNCHANGED << rowVars, confirmed >>
      BY <1>6 DEF TerminalCancelEvent
    <2>2. QED BY <1>1, <1>2, <2>1, WriteTypes DEF Statuses, Errors
  <1>7. ASSUME NEW a \in Attempts, NEW i \in Reads, CardTransactionEvent(a, i)
        PROVE  RowTypes'
    <2>1. \/ Write(a, "approved", "none", i)
          \/ Write(a, "pending", "retry_declined", i)
          \/ UNCHANGED << rowVars, confirmed >>
      BY <1>7 DEF CardTransactionEvent
    <2>2. QED BY <1>1, <1>2, <2>1, WriteTypes DEF Statuses, Errors
  <1>8. ASSUME NEW p \in Pollers,
               Store(p) \/ ReleaseCanceled(p) \/ ReleaseRosError(p)
        PROVE  RowTypes'
    <2>1. target[p] \in Attempts
      <3>1. place[p] # "idle"
        BY <1>8 DEF Store, ReleaseCanceled, ReleaseRosError
      <3>2. QED BY <1>1, <3>1 DEF PollsOK, PollOK, RowTypes, Attempts
    <2>2. CASE Store(p)
      BY <2>1, <2>2, StoreRowTypes DEF Store
    <2>3. CASE ReleaseCanceled(p)
      <3>1. \/ Write(target[p], "expired", "physical_cancel", ref[target[p]])
            \/ NoWrite
        BY <2>3 DEF ReleaseCanceled
      <3>2. QED
        BY <1>1, <1>2, <2>1, <3>1, WriteTypes DEF NoWrite, Statuses, Errors
    <2>4. CASE ReleaseRosError(p)
      <3>1. \/ StoreInvoice(p) \/ NoWrite
            \/ Write(target[p], "expired", "ros_recovered", 0)
        BY <2>4 DEF ReleaseRosError
      <3>2. "expired" \in Statuses /\ "ros_recovered" \in Errors /\ 0 \in Reads
        BY DEF Statuses, Errors, Reads
      <3>3. QED
        BY <1>1, <2>1, <3>1, <3>2, StoreRowTypes, WriteTypes
    <2>5. QED BY <1>8, <2>2, <2>3, <2>4
  <1>9. QED
    BY <1>2, <1>3, <1>4, <1>5, <1>6, <1>7, <1>8
    DEF Next, vars, Deliver, Crash, LeaveReader, ReadCard, Poll, ReleaseAsks,
        Checkout

(* The dispatches keep their types.                                        *)
LEMMA CallTypesStep ==
    ASSUME TypeOK, [Next]_vars
    PROVE  CallTypes'
  <1>1. CallTypes /\ confirmed \in SUBSET Attempts
    BY TypeParts DEF RowTypes
  <1>2. ASSUME NEW c \in Checkouts, NEW t \in Terminals, StartPurchase(c, t)
        PROVE  CallTypes'
    BY <1>1, <1>2 DEF StartPurchase, CallTypes
  <1>3. ASSUME NEW a \in Attempts,
               Deliver(a) \/ Accepted(a) \/ Rejected(a) \/ Unknown(a) \/ Crash(a)
        PROVE  CallTypes'
    <2>1. CASE Deliver(a)
      BY <1>1, <2>1 DEF Deliver, CallTypes
    <2>2. CASE Answered(a)
      BY <1>1, <2>2 DEF Answered, CallTypes
    <2>3. CASE Crash(a)
      BY <1>1, <2>3 DEF Crash, CallTypes
    <2>4. QED BY <1>3, <2>1, <2>2, <2>3 DEF Accepted, Rejected, Unknown
  <1>4. CASE UNCHANGED << call, late >>
    BY <1>1, <1>4 DEF CallTypes
  <1>5. QED
    BY SMTT(60), <1>2, <1>3, <1>4
    DEF Next, vars, Age, TerminalCancelEvent, CardTransactionEvent, LeaveReader,
        ReadCard, Poll, Store, ReleaseCanceled, ReleaseAsks, ReleaseRosError,
        Checkout

(* Helcim's side keeps its types.                                          *)
LEMMA HelcimTypesStep ==
    ASSUME TypeOK, [Next]_vars
    PROVE  HelcimTypes'
  <1>1. HelcimTypes
    BY TypeParts
  <1>2. ASSUME NEW a \in Attempts, Deliver(a)
        PROVE  HelcimTypes'
    BY <1>1, <1>2 DEF Deliver, HelcimTypes
  <1>3. ASSUME NEW a \in Attempts, TerminalCancelEvent(a)
        PROVE  HelcimTypes'
    BY <1>1, <1>3 DEF TerminalCancelEvent, HelcimTypes
  <1>4. ASSUME NEW a \in Attempts, NEW i \in Reads, CardTransactionEvent(a, i)
        PROVE  HelcimTypes'
    BY <1>1, <1>4 DEF CardTransactionEvent, HelcimTypes
  <1>5. ASSUME NEW t \in Terminals, NEW o \in {"declined", "approved"},
               ReadCard(t, o)
        PROVE  HelcimTypes'
    <2>1. PICK a \in Attempts : a = showing[t]
      BY <1>1, <1>5 DEF ReadCard, HelcimTypes
    <2>2. /\ Len(reads[a]) < MaxReads /\ reads' = [reads EXCEPT ![a] = Append(@, o)]
          /\ showing' \in {showing, [showing EXCEPT ![t] = 0]}
      BY <1>5, <2>1 DEF ReadCard
    <2>3. reads[a] \in Seq({"declined", "approved"}) /\ Len(reads[a]) \in Nat
      BY <2>1, ReadsType
    <2>4. /\ Append(reads[a], o) \in Seq({"declined", "approved"})
          /\ Len(Append(reads[a], o)) \in Reads
      BY <2>2, <2>3, AttemptFacts DEF Reads
    <2>5. QED BY <1>1, <1>5, <2>1, <2>2, <2>4 DEF ReadCard, HelcimTypes
  <1>6. ASSUME NEW t \in Terminals, LeaveReader(t)
        PROVE  HelcimTypes'
    BY <1>1, <1>6 DEF LeaveReader, HelcimTypes
  <1>7. CASE UNCHANGED helcimVars
    BY <1>1, <1>7 DEF HelcimTypes, helcimVars
  <1>8. QED
    BY <1>2, <1>3, <1>4, <1>5, <1>6, <1>7
    DEF Next, vars, StartPurchase, Answered, Accepted, Rejected, Unknown, Crash,
        Age, Poll, Store, ReleaseCanceled, ReleaseAsks, ReleaseRosError, Checkout

(* The polls keep their types: what Helcim answers is within the bounds.   *)
LEMMA PollTypesStep ==
    ASSUME TypeOK, PollsOK, RefsOK, [Next]_vars
    PROVE  PollTypes'
  <1>1. PollTypes /\ RowTypes
    BY TypeParts
  <1>2. ASSUME NEW p \in Pollers, NEW a \in Attempts, NEW k \in Intents,
               NEW reply \in { Answer(a), << "nothing", 0 >> },
               Poll(p, a, k, reply)
        PROVE  PollTypes'
    <2>1. reply[1] \in Verdicts /\ reply[2] \in Reads
      <3>1. Answer(a)[1] \in Verdicts /\ Answer(a)[2] \in 0 .. Len(reads[a])
        BY AnswerFacts DEF RefsOK
      <3>2. Answer(a)[2] \in Reads
        BY <3>1, ReadsType, AttemptFacts DEF Reads
      <3>3. "nothing" \in Verdicts /\ 0 \in Reads
        BY AttemptFacts DEF Verdicts, Reads
      <3>4. CASE reply = Answer(a)
        BY <3>1, <3>2, <3>4
      <3>5. CASE reply = << "nothing", 0 >>
        BY <3>3, <3>5
      <3>6. QED BY <1>2, <3>4, <3>5
    <2>2. /\ status[a] \in Statuses /\ ref[a] \in Reads /\ (~old[a]) \in BOOLEAN
      BY DEF TypeOK
    <2>3. polls' \in 0 .. MaxPolls
      BY <1>1, <1>2, AttemptFacts DEF Poll, PollTypes
    <2>4. again' \in [Pollers -> BOOLEAN]
      BY <1>1, <1>2 DEF Poll, PollTypes
    <2>5. QED BY <1>1, <1>2, <2>1, <2>2, <2>3, <2>4 DEF Poll, PollTypes
  <1>3. ASSUME NEW p \in Pollers,
               Leave(p, "idle") \/ Leave(p, "release")
        PROVE  PollTypes'
    BY <1>1, <1>3, LeaveTypes
  <1>4. ASSUME NEW p \in Pollers, ReleaseAsks(p)
        PROVE  PollTypes'
    <2>1. CASE Leave(p, "idle")
      BY <1>3, <2>1
    <2>2. CASE /\ status[target[p]] = "pending"
               /\ place' = [place EXCEPT ![p] = "resolve"]
               /\ saw' = [saw EXCEPT ![p] = "pending"]
               /\ verdict' = [verdict EXCEPT ![p] = Answer(target[p])[1]]
               /\ found' = [found EXCEPT ![p] = Answer(target[p])[2]]
               /\ UNCHANGED << target, asked, again, intent, polls >>
      <3>1. PICK a \in Attempts : a = target[p]
        BY <1>1, <1>4, AttemptFacts
        DEF ReleaseAsks, PollsOK, PollOK, RowTypes, Attempts
      <3>2. Answer(a)[1] \in Verdicts /\ Answer(a)[2] \in 0 .. Len(reads[a])
        BY AnswerFacts DEF RefsOK
      <3>3. Answer(a)[2] \in Reads
        BY <3>2, ReadsType, AttemptFacts DEF Reads
      <3>4. "pending" \in Statuses
        BY DEF Statuses
      <3>5. QED BY <1>1, <2>2, <3>1, <3>2, <3>3, <3>4 DEF PollTypes
    <2>3. QED BY <1>4, <2>1, <2>2 DEF ReleaseAsks
  <1>5. CASE UNCHANGED pollVars
    BY <1>1, <1>5 DEF PollTypes, pollVars
  <1>6. QED
    BY <1>2, <1>3, <1>4, <1>5
    DEF Next, vars, StartPurchase, Answered, Accepted, Rejected, Unknown, Crash,
        Age, Deliver, TerminalCancelEvent, CardTransactionEvent, LeaveReader,
        ReadCard, Store, ReleaseCanceled, ReleaseRosError, Checkout

(* The sales keep their types.                                             *)
LEMMA SaleTypesStep ==
    ASSUME TypeOK, [Next]_vars
    PROVE  SaleTypes'
  <1>1. SaleTypes /\ started \in 0 .. MaxStarts
    BY TypeParts DEF RowTypes
  <1>2. ASSUME NEW a \in Attempts, NEW i \in Reads, CardTransactionEvent(a, i)
        PROVE  SaleTypes'
    BY <1>1, <1>2 DEF CardTransactionEvent, SaleTypes, saleVars
  <1>3. ASSUME NEW c, NEW splits \in SUBSET (1 .. started),
               NEW tender \in {"sold", "manual"}, Checkout(c, splits, tender)
        PROVE  SaleTypes'
    <2>1. splits \in SUBSET Attempts
      BY <1>1, AttemptFacts DEF Attempts
    <2>2. QED BY <1>1, <1>3, <2>1 DEF Checkout, SaleTypes
  <1>4. CASE UNCHANGED saleVars
    BY <1>1, <1>4 DEF SaleTypes, saleVars
  <1>5. QED
    BY ZenonT(60), <1>2, <1>3, <1>4
    DEF Next, vars, StartPurchase, Answered, Accepted, Rejected, Unknown, Crash,
        Age, Deliver, TerminalCancelEvent, LeaveReader, ReadCard, Poll, Store,
        ReleaseCanceled, ReleaseAsks, ReleaseRosError

-----------------------------------------------------------------------------
(* The readers.                                                            *)

(* Card transactions are only added, and only under a purchase that its     *)
(* reader shows.                                                           *)
Grows(a) ==
    /\ Len(reads[a]) <= Len(reads'[a])
    /\ \A i \in 1 .. Len(reads[a]) : reads'[a][i] = reads[a][i]
    /\ (\A t \in Terminals : showing[t] # a) => reads'[a] = reads[a]

(* Every step only adds card transactions, at the reader.                  *)
LEMMA ReadsGrow ==
    ASSUME TypeOK, [Next]_vars, NEW a \in Attempts
    PROVE  Grows(a)
  <1>1. reads[a] \in Seq({"declined", "approved"}) /\ Len(reads[a]) \in Nat
    BY ReadsType
  <1>2. CASE reads' = reads
    BY <1>1, <1>2 DEF Grows
  <1>3. ASSUME NEW t \in Terminals, NEW o \in {"declined", "approved"},
               ReadCard(t, o)
        PROVE  Grows(a)
    <2>1. CASE a = showing[t]
      <3>1. reads'[a] = Append(reads[a], o)
        BY <1>3, <2>1 DEF ReadCard, TypeOK
      <3>2. QED BY <1>1, <2>1, <3>1 DEF Grows
    <2>2. CASE a # showing[t]
      <3>1. reads'[a] = reads[a]
        BY <1>3, <2>2 DEF ReadCard, TypeOK
      <3>2. QED BY <1>1, <3>1 DEF Grows
    <2>3. QED BY <2>1, <2>2
  <1>4. QED
    BY ZenonT(60), <1>2, <1>3
    DEF Next, vars, helcimVars, StartPurchase, Answered, Accepted, Rejected,
        Unknown, Crash, Age, Deliver, TerminalCancelEvent, CardTransactionEvent,
        LeaveReader, Poll, Store, ReleaseCanceled, ReleaseAsks, ReleaseRosError,
        Checkout

(* A charge is not undone, and what left its reader is not charged later.  *)
LEMMA ChargesStay ==
    ASSUME TypeOK, NEW a \in Attempts, Grows(a)
    PROVE  /\ Charged(a) => Charged(a)'
           /\ reads[a] # << >> => reads'[a] # << >>
           /\ OffReader(a) => (Charged(a)' <=> Charged(a))
  <1>1. reads[a] \in Seq({"declined", "approved"}) /\ Len(reads[a]) \in Nat
    BY ReadsType
  <1>2. Charged(a) => Charged(a)'
    <2> SUFFICES ASSUME Charged(a) PROVE Charged(a)'
      OBVIOUS
    <2>1. PICK i \in 1 .. Len(reads[a]) : reads[a][i] = "approved"
      BY DEF Charged
    <2>2. reads'[a][i] = "approved" /\ Len(reads[a]) <= Len(reads'[a])
      BY <2>1 DEF Grows
    <2>3. CASE Len(reads'[a]) \in Nat
      <3>1. i \in 1 .. Len(reads'[a])
        BY <1>1, <2>2, <2>3
      <3>2. QED BY <2>2, <3>1 DEF Charged
    <2>4. QED BY <2>3
  <1>3. reads[a] # << >> => reads'[a] # << >>
    BY <1>1 DEF Grows
  <1>4. OffReader(a) => (Charged(a)' <=> Charged(a))
    BY DEF OffReader, Grows, Charged
  <1>5. QED BY <1>2, <1>3, <1>4

(* A purchase that left its reader does not come back to it, and no cancel  *)
(* event of it follows.                                                    *)
LEMMA OffStays ==
    ASSUME TypeOK, RowsOK, [Next]_vars, NEW a \in Attempts, OffReader(a)
    PROVE  OffReader(a)' /\ (a \in canceling' => a \in canceling)
  <1> USE DEF OffReader
  <1>1. /\ call[a] \in {"delivered", "done"} /\ \A t \in Terminals : showing[t] # a
        /\ a <= started /\ a # started + 1 /\ a # 0
    <2>1. a <= started /\ started \in Nat /\ a \in Nat /\ a # 0
      BY AttemptFacts DEF RowsOK, TypeOK
    <2>2. QED BY <2>1
  <1>2. ASSUME NEW c \in Checkouts, NEW t \in Terminals, StartPurchase(c, t)
        PROVE  OffReader(a)' /\ canceling' = canceling
    BY <1>1, <1>2 DEF StartPurchase, helcimVars, TypeOK
  <1>3. ASSUME NEW b \in Attempts,
               Deliver(b) \/ Accepted(b) \/ Rejected(b) \/ Unknown(b) \/ Crash(b)
        PROVE  OffReader(a)' /\ canceling' = canceling
    <2>1. CASE Deliver(b)
      <3>1. b # a
        BY <1>1, <2>1 DEF Deliver
      <3>2. QED BY <1>1, <2>1, <3>1 DEF Deliver, TypeOK
    <2>2. CASE Answered(b)
      BY <1>1, <2>2 DEF Answered, helcimVars, TypeOK
    <2>3. CASE Crash(b)
      BY <1>1, <2>3 DEF Crash, helcimVars, TypeOK
    <2>4. QED BY <1>3, <2>1, <2>2, <2>3 DEF Accepted, Rejected, Unknown
  <1>4. ASSUME NEW t \in Terminals,
               LeaveReader(t) \/ \E o \in {"declined", "approved"} : ReadCard(t, o)
        PROVE  OffReader(a)' /\ (a \in canceling' => a \in canceling)
    <2>1. /\ call' = call /\ showing' \in {showing, [showing EXCEPT ![t] = 0]}
          /\ canceling' \in {canceling, canceling \cup {showing[t]}}
      BY <1>4 DEF LeaveReader, ReadCard
    <2>2. QED BY <1>1, <2>1 DEF TypeOK
  <1>5. CASE UNCHANGED << call, showing >> /\ canceling' \subseteq canceling
    BY <1>1, <1>5
  <1>6. QED
    BY <1>2, <1>3, <1>4, <1>5
    DEF Next, vars, helcimVars, Age, TerminalCancelEvent, CardTransactionEvent,
        Poll, Store, ReleaseCanceled, ReleaseAsks, ReleaseRosError, Checkout

(* A purchase gets its reader and its checkout when it starts.             *)
LEMMA StartsAlone ==
    ASSUME [Next]_vars
    PROVE  \/ UNCHANGED << started, terminal, checkout >>
           \/ \E c \in Checkouts, t \in Terminals : StartPurchase(c, t)
  <1>1. \A p \in Pollers :
            Store(p) \/ ReleaseCanceled(p) \/ ReleaseRosError(p) =>
                UNCHANGED << started, terminal, checkout >>
    BY DEF Store, StoreWindowOver, StoreInvoice, StoreNoMatch, StoreApproved,
       StoreDeclined, Recover, ExpireOrphan, NoWrite, rowVars, Write,
       ReleaseCanceled, ReleaseRosError
  <1>2. \A a \in Attempts : TerminalCancelEvent(a) =>
            UNCHANGED << started, terminal, checkout >>
    BY DEF TerminalCancelEvent, Write, rowVars
  <1>3. \A a \in Attempts, i \in Reads : CardTransactionEvent(a, i) =>
            UNCHANGED << started, terminal, checkout >>
    BY DEF CardTransactionEvent, Write, rowVars
  <1>4. \A a \in Attempts :
            Accepted(a) \/ Rejected(a) \/ Unknown(a) =>
                UNCHANGED << started, terminal, checkout >>
    BY DEF Accepted, Rejected, Unknown, Answered
  <1>5. QED
    BY <1>1, <1>2, <1>3, <1>4
    DEF Next, vars, rowVars, Crash, Age, Deliver, LeaveReader, ReadCard, Poll,
        ReleaseAsks, Checkout

(* The readers keep their invariant.                                       *)
LEMMA ReadersStep ==
    ASSUME TypeOK, RowsOK, ReadersOK, [Next]_vars
    PROVE  ReadersOK'
  <1> USE AttemptFacts
  <1>1. /\ \A a \in Attempts : Grows(a)
        /\ \A a \in Attempts : OffReader(a) =>
              OffReader(a)' /\ (a \in canceling' => a \in canceling)
        /\ \A a \in Attempts : OffReader(a) => (Charged(a)' <=> Charged(a))
    BY ReadsGrow, OffStays, ChargesStay
  <1>2. \A t \in Terminals : showing[t] # 0 =>
            /\ showing[t] \in Attempts /\ showing[t] <= started
            /\ showing[t] # started + 1
    <2> SUFFICES ASSUME NEW t \in Terminals, showing[t] # 0
                 PROVE  /\ showing[t] \in Attempts /\ showing[t] <= started
                        /\ showing[t] # started + 1
      OBVIOUS
    <2>1. showing[t] \in Attempts /\ call[showing[t]] # "none"
      BY DEF ReadersOK, TypeOK
    <2>2. showing[t] <= started
      BY <2>1 DEF RowsOK
    <2>3. started \in Nat
      BY DEF TypeOK
    <2>4. showing[t] \in Nat
      BY <2>1
    <2>5. QED BY <2>1, <2>2, <2>3, <2>4
  <1>3. ASSUME UNCHANGED << reads, showing >>,
               \A t \in Terminals : showing[t] # 0 =>
                   /\ terminal'[showing[t]] = terminal[showing[t]]
                   /\ call'[showing[t]] \in {"delivered", "done"},
               \A a \in Attempts : call'[a] \in {"none", "sending", "refused"} =>
                   call[a] \in {"none", "sending", "refused"},
               canceling' \subseteq canceling
        PROVE  ReadersOK'
    <2>1. \A a \in Attempts : Charged(a)' <=> Charged(a)
      BY <1>3 DEF Charged
    <2>2. \A t \in Terminals : showing'[t] # 0 =>
              /\ terminal'[showing'[t]] = t
              /\ call'[showing'[t]] \in {"delivered", "done"}
              /\ ~Charged(showing[t])'
      BY <1>2, <1>3, <2>1 DEF ReadersOK, Charged
    <2>3. \A a \in canceling' : OffReader(a)' /\ ~Charged(a)'
      BY <1>1, <1>3, <2>1 DEF ReadersOK, TypeOK
    <2>4. QED BY <1>3, <2>2, <2>3 DEF ReadersOK
  <1>4. ASSUME NEW c \in Checkouts, NEW t \in Terminals, StartPurchase(c, t)
        PROVE  ReadersOK'
    <2>1. /\ started + 1 \in Attempts
          /\ call' = [call EXCEPT ![started + 1] = "sending"]
          /\ terminal' = [terminal EXCEPT ![started + 1] = t]
          /\ UNCHANGED helcimVars
      BY <1>4 DEF StartPurchase
    <2>2. call[started + 1] = "none"
      BY <2>1 DEF RowsOK, TypeOK
    <2>3. QED
      BY <1>2, <1>3, <2>1, <2>2 DEF ReadersOK, helcimVars, TypeOK
  <1>5. ASSUME NEW a \in Attempts, Deliver(a)
        PROVE  ReadersOK'
    <2>1. /\ reads[a] = << >> /\ a \notin canceling
          /\ terminal[a] \in Terminals /\ call[a] = "sending"
      BY <1>5 DEF Deliver, ReadersOK, RowsOK, OffReader
    <2>2. /\ UNCHANGED << rowVars, reads, canceling >>
          /\ ~Charged(a) /\ ~Charged(a)'
      BY <1>5, <2>1 DEF Deliver, Charged
    <2>3. CASE showing[terminal[a]] = 0
      <3>1. /\ showing' = [showing EXCEPT ![terminal[a]] = a]
            /\ call' = [call EXCEPT ![a] = "delivered"]
        BY <1>5, <2>3 DEF Deliver
      <3>2. \A t \in Terminals : showing'[t] # 0 =>
              /\ terminal'[showing'[t]] = t
              /\ call'[showing'[t]] \in {"delivered", "done"}
              /\ ~Charged(showing[t])'
        <4> SUFFICES ASSUME NEW t \in Terminals, showing'[t] # 0
                     PROVE  /\ terminal[showing'[t]] = t
                            /\ call'[showing'[t]] \in {"delivered", "done"}
                            /\ ~Charged(showing[t])'
          BY <2>2 DEF rowVars
        <4>1. CASE t = terminal[a]
          <5>1. showing'[t] = a /\ call'[a] = "delivered"
            BY <2>1, <3>1, <4>1 DEF TypeOK
          <5>2. QED BY <2>2, <4>1, <5>1 DEF Charged
        <4>2. CASE t # terminal[a]
          <5>1. PICK b \in Attempts : b = showing[t] /\ showing'[t] = b
            BY ZenonT(60), <1>2, <3>1, <4>2 DEF TypeOK
          <5>2. /\ terminal[b] = t /\ call[b] \in {"delivered", "done"}
                /\ ~Charged(b) /\ b # a
            BY <1>2, <2>1, <4>2, <5>1 DEF ReadersOK
          <5>3. ~Charged(b)' /\ call'[b] = call[b]
            BY <2>2, <3>1, <5>2 DEF Charged, TypeOK
          <5>4. QED BY <5>1, <5>2, <5>3 DEF Charged
        <4>3. QED BY <4>1, <4>2
      <3>3. \A b \in canceling' : OffReader(b)' /\ ~Charged(b)'
        BY <1>1, <2>2 DEF ReadersOK, TypeOK
      <3>4. \A b \in Attempts :
                call'[b] \in {"none", "sending", "refused"} => reads'[b] = << >>
        BY <2>2, <3>1 DEF ReadersOK, TypeOK
      <3>5. QED BY <3>2, <3>3, <3>4 DEF ReadersOK
    <2>4. CASE showing[terminal[a]] # 0
      <3>1. showing' = showing /\ call' = [call EXCEPT ![a] = "refused"]
        BY <1>5, <2>4 DEF Deliver
      <3>2. \A t \in Terminals : showing[t] # 0 => showing[t] # a
        BY <2>1 DEF ReadersOK
      <3>3. QED
        BY <1>2, <1>3, <2>1, <2>2, <3>1, <3>2 DEF ReadersOK, rowVars, TypeOK
    <2>5. QED BY <2>3, <2>4
  <1>6. ASSUME NEW a \in Attempts,
               Accepted(a) \/ Rejected(a) \/ Unknown(a) \/ Crash(a)
        PROVE  ReadersOK'
    <2>1. /\ call' = [call EXCEPT ![a] = "done"]
          /\ UNCHANGED << helcimVars, terminal >>
      BY <1>6 DEF Accepted, Rejected, Unknown, Crash, Answered, rowVars
    <2>2. QED BY <1>2, <1>3, <2>1 DEF ReadersOK, helcimVars, TypeOK
  <1>7. ASSUME NEW t \in Terminals, NEW o \in {"declined", "approved"},
               ReadCard(t, o)
        PROVE  ReadersOK'
    <2>1. PICK a \in Attempts : a = showing[t]
      BY <1>7 DEF ReadCard, TypeOK
    <2>2. /\ a # 0 /\ reads' = [reads EXCEPT ![a] = Append(@, o)]
          /\ showing' = IF o = "approved" THEN [showing EXCEPT ![t] = 0]
                        ELSE showing
          /\ UNCHANGED << rowVars, call, canceling >>
      BY <1>7, <2>1 DEF ReadCard
    <2>3. /\ terminal[a] = t /\ call[a] \in {"delivered", "done"} /\ ~Charged(a)
      BY <2>1, <2>2 DEF ReadersOK
    <2>4. \A b \in Attempts : b # a => reads'[b] = reads[b]
      BY <2>2 DEF TypeOK
    <2>5. o = "declined" => ~Charged(a)'
      <3> SUFFICES ASSUME o = "declined" PROVE ~Charged(a)'
        OBVIOUS
      <3>1. reads[a] \in Seq({"declined", "approved"})
        BY ReadsType
      <3>2. reads'[a] = Append(reads[a], "declined")
        BY <2>2 DEF TypeOK
      <3>3. QED BY <2>3, <3>1, <3>2 DEF Charged
    <2>6. \A u \in Terminals : showing'[u] # 0 =>
              /\ terminal'[showing'[u]] = u
              /\ call'[showing'[u]] \in {"delivered", "done"}
              /\ ~Charged(showing[u])'
      <3> SUFFICES ASSUME NEW u \in Terminals, showing'[u] # 0
                   PROVE  /\ terminal[showing'[u]] = u
                          /\ call[showing'[u]] \in {"delivered", "done"}
                          /\ ~Charged(showing[u])'
        BY <2>2 DEF rowVars
      <3>1. CASE u = t
        <4>1. o = "declined" /\ showing'[u] = a
          BY <2>1, <2>2, <3>1 DEF TypeOK
        <4>2. QED BY <2>3, <2>5, <3>1, <4>1 DEF Charged
      <3>2. CASE u # t
        <4>1. PICK b \in Attempts : b = showing[u] /\ showing'[u] = b
          BY ZenonT(60), <1>2, <2>2, <3>2 DEF TypeOK
        <4>2. /\ terminal[b] = u /\ call[b] \in {"delivered", "done"}
              /\ ~Charged(b) /\ b # a
          BY <1>2, <2>3, <3>2, <4>1 DEF ReadersOK
        <4>3. ~Charged(b)'
          BY <2>4, <4>2 DEF Charged
        <4>4. QED BY <4>1, <4>2, <4>3 DEF Charged
      <3>3. QED BY <3>1, <3>2
    <2>7. \A b \in canceling' : OffReader(b)' /\ ~Charged(b)'
      BY <1>1, <2>2 DEF ReadersOK, TypeOK
    <2>8. \A b \in Attempts :
              call'[b] \in {"none", "sending", "refused"} => reads'[b] = << >>
      BY <2>2, <2>3, <2>4 DEF ReadersOK
    <2>9. QED BY <2>6, <2>7, <2>8 DEF ReadersOK
  <1>8. ASSUME NEW t \in Terminals, LeaveReader(t)
        PROVE  ReadersOK'
    <2>1. PICK a \in Attempts : a = showing[t]
      BY <1>8 DEF LeaveReader, TypeOK
    <2>2. /\ a # 0 /\ showing' = [showing EXCEPT ![t] = 0]
          /\ canceling' \in {canceling, canceling \cup {a}}
          /\ UNCHANGED << rowVars, call, reads >>
      BY <1>8, <2>1 DEF LeaveReader
    <2>3. /\ terminal[a] = t /\ call[a] \in {"delivered", "done"} /\ ~Charged(a)
      BY <2>1, <2>2 DEF ReadersOK
    <2>4. \A b \in Attempts : Charged(b)' <=> Charged(b)
      BY <2>2 DEF Charged
    <2>5. OffReader(a)'
      <3>1. \A u \in Terminals : u # t => showing[u] # a
        BY <2>2, <2>3 DEF ReadersOK
      <3>2. QED BY <2>2, <2>3, <3>1 DEF OffReader, TypeOK
    <2>6. \A b \in canceling' : OffReader(b)' /\ ~Charged(b)'
      BY <1>1, <2>2, <2>3, <2>4, <2>5 DEF ReadersOK, TypeOK
    <2>7. \A u \in Terminals : showing'[u] # 0 =>
              /\ terminal'[showing'[u]] = u
              /\ call'[showing'[u]] \in {"delivered", "done"}
              /\ ~Charged(showing[u])'
      <3> SUFFICES ASSUME NEW u \in Terminals, showing'[u] # 0
                   PROVE  /\ terminal[showing'[u]] = u
                          /\ call[showing'[u]] \in {"delivered", "done"}
                          /\ ~Charged(showing[u])'
        BY <2>2 DEF rowVars
      <3>1. PICK b \in Attempts : b = showing[u] /\ showing'[u] = b
        BY ZenonT(60), <1>2, <2>2 DEF TypeOK
      <3>2. terminal[b] = u /\ call[b] \in {"delivered", "done"} /\ ~Charged(b)
        BY <1>2, <3>1 DEF ReadersOK
      <3>3. QED BY <2>4, <3>1, <3>2 DEF Charged
    <2>8. QED BY <2>2, <2>6, <2>7 DEF ReadersOK
  <1>9. CASE UNCHANGED << call, showing, reads, terminal >>
             /\ canceling' \subseteq canceling
    BY <1>2, <1>3, <1>9 DEF ReadersOK
  <1>10. CASE UNCHANGED terminal
    <2> DEFINE Quiet == /\ UNCHANGED << call, showing, reads >>
                        /\ canceling' \subseteq canceling
    <2>1. ASSUME Quiet PROVE ReadersOK'
      BY <1>9, <1>10, <2>1
    <2>2. ASSUME NEW a \in Attempts, Age(a) \/ TerminalCancelEvent(a) PROVE Quiet
      BY <2>2 DEF Age, TerminalCancelEvent, helcimVars
    <2>3. ASSUME NEW a \in Attempts, NEW i \in Reads, CardTransactionEvent(a, i)
          PROVE  Quiet
      BY <2>3 DEF CardTransactionEvent, helcimVars
    <2>4. ASSUME NEW p \in Pollers, NEW a \in Attempts, NEW k \in Intents,
                 NEW reply, Poll(p, a, k, reply)
          PROVE  Quiet
      BY <2>4 DEF Poll, helcimVars
    <2>5. ASSUME NEW p \in Pollers,
                 \/ Store(p) \/ ReleaseCanceled(p)
                 \/ ReleaseAsks(p) \/ ReleaseRosError(p)
          PROVE  Quiet
      BY <2>5 DEF Store, ReleaseCanceled, ReleaseAsks, ReleaseRosError, helcimVars
    <2>6. ASSUME NEW c, NEW splits, NEW tender, Checkout(c, splits, tender)
          PROVE  Quiet
      BY <2>6 DEF Checkout, helcimVars
    <2>7. CASE UNCHANGED vars
      BY <2>1, <2>7 DEF vars, helcimVars
    <2> HIDE DEF Quiet
    <2>8. CASE Next
      BY <1>4, <1>5, <1>6, <1>7, <1>8, <2>1, <2>2, <2>3, <2>4, <2>5, <2>6, <2>8
      DEF Next
    <2>9. QED BY <2>7, <2>8
  <1>11. QED BY <1>4, <1>10, StartsAlone

-----------------------------------------------------------------------------
(* The polls.                                                              *)

(* What a poll knows stays true of an invoice that grows.                  *)
LEMMA PollStays ==
    ASSUME TypeOK, NEW p \in Pollers, PollOK(p),
           \A a \in Attempts : Grows(a), started' \in {started, started + 1},
           place'[p] = place[p], target'[p] = target[p],
           found'[p] = found[p], asked'[p] = asked[p], verdict'[p] = verdict[p],
           [Next]_vars
    PROVE  PollOK(p)'
  <1>1. started \in Nat /\ \A a \in 1 .. started : a \in Attempts /\ a \in 1 .. started'
    BY AttemptFacts DEF TypeOK, Attempts
  <1>2. CASE place[p] = "idle"
    BY <1>2 DEF PollOK
  <1>3. CASE place[p] # "idle"
    <2>1. PICK a \in Attempts : a = target[p] /\ a \in 1 .. started'
      BY <1>1, <1>3 DEF PollOK
    <2>2. Grows(a) /\ Len(reads[a]) \in Nat /\ Len(reads'[a]) \in Nat
      <3>1. HelcimTypes'
        BY HelcimTypesStep
      <3>2. QED BY <3>1, ReadsType, AttemptFacts DEF HelcimTypes, Reads
    <2>3. found[p] \in Nat /\ asked[p] \in Nat
      BY AttemptFacts DEF TypeOK, Reads
    <2>4. ASSUME place[p] \in {"store", "resolve"}
          PROVE  /\ found[p] <= Len(reads'[a])
                 /\ asked[p] <= Len(reads'[a])
                 /\ verdict[p] = "approved" =>
                       asked[p] > 0 /\ reads'[a][asked[p]] = "approved"
                 /\ verdict[p] = "declined" => reads'[a] # << >>
      <3>1. /\ found[p] <= Len(reads[a]) /\ asked[p] <= Len(reads[a])
            /\ verdict[p] = "approved" =>
                   asked[p] > 0 /\ reads[a][asked[p]] = "approved"
            /\ verdict[p] = "declined" => reads[a] # << >>
        BY <2>1, <2>4 DEF PollOK
      <3>2. reads[a] # << >> => reads'[a] # << >>
        BY <2>2, ChargesStay
      <3>3. asked[p] > 0 => asked[p] \in 1 .. Len(reads[a])
        BY <2>2, <2>3, <3>1
      <3>4. QED BY <2>2, <2>3, <3>1, <3>2, <3>3 DEF Grows
    <2>5. QED BY <2>1, <2>4 DEF PollOK
  <1>4. QED BY <1>2, <1>3

(* The polls keep their invariant.                                         *)
LEMMA PollsStep ==
    ASSUME TypeOK, RowsOK, PollsOK, RefsOK, [Next]_vars
    PROVE  PollsOK'
  <1>1. \A a \in Attempts : Grows(a)
    BY ReadsGrow
  <1>2. started \in Nat /\ started' \in {started, started + 1}
    BY StartsAlone DEF StartPurchase, TypeOK
  <1>3. \A a \in 1 .. started : a \in Attempts /\ a \in 1 .. started'
    BY <1>2, AttemptFacts DEF Attempts, TypeOK
  <1>4. ASSUME UNCHANGED << place, target, found, asked, verdict >>
        PROVE  PollsOK'
    BY <1>1, <1>2, <1>4, PollStays DEF PollsOK
  <1>5. ASSUME NEW p \in Pollers,
               \A q \in Pollers \ {p} :
                   /\ place'[q] = place[q] /\ target'[q] = target[q]
                   /\ found'[q] = found[q] /\ asked'[q] = asked[q]
                   /\ verdict'[q] = verdict[q],
               PollOK(p)'
        PROVE  PollsOK'
    <2>1. ASSUME NEW q \in Pollers PROVE PollOK(q)'
      <3>1. CASE q = p
        BY <1>5, <3>1
      <3>2. CASE q # p
        BY <1>1, <1>2, <1>5, <3>2, PollStays DEF PollsOK
      <3>3. QED BY <3>1, <3>2
    <2>2. QED BY <2>1 DEF PollsOK
  <1>6. ASSUME NEW p \in Pollers, NEW next \in {"idle", "release"},
               Leave(p, next), place[p] # "idle"
        PROVE  PollsOK'
    <2>1. /\ place'[p] = next /\ asked'[p] = 0
          /\ next = "release" => target'[p] = target[p]
      BY <1>6 DEF Leave, TypeOK
    <2>2. target[p] \in 1 .. started'
      BY <1>3, <1>6 DEF PollsOK, PollOK
    <2>3. PollOK(p)'
      BY <1>6, <2>1, <2>2 DEF PollOK
    <2>4. \A q \in Pollers \ {p} :
              /\ place'[q] = place[q] /\ target'[q] = target[q]
              /\ found'[q] = found[q] /\ asked'[q] = asked[q]
              /\ verdict'[q] = verdict[q]
      BY <1>6 DEF Leave, TypeOK
    <2>5. QED BY <1>5, <2>3, <2>4
  <1>7. ASSUME NEW p \in Pollers, NEW a \in Attempts, NEW k \in Intents,
               NEW reply \in { Answer(a), << "nothing", 0 >> },
               Poll(p, a, k, reply)
        PROVE  PollsOK'
    <2>1. /\ place'[p] = "store" /\ target'[p] = a /\ asked'[p] = ref[a]
          /\ verdict'[p] = reply[1] /\ found'[p] = reply[2] /\ reads' = reads
          /\ started' = started /\ status[a] # "none"
      BY <1>7 DEF Poll, helcimVars, rowVars, TypeOK
    <2>2. RefOK(a) /\ a \in 1 .. started /\ Len(reads[a]) \in Nat
      BY SMTT(60), <2>1, ReadsType, AttemptFacts DEF RowsOK, RefsOK, TypeOK
    <2>3. /\ reply[2] <= Len(reads[a])
          /\ reply[1] = "approved" => ref[a] > 0 /\ reads[a][ref[a]] = "approved"
          /\ reply[1] = "declined" => reads[a] # << >>
      <3>1. CASE reply = Answer(a)
        BY <2>2, <3>1, AnswerFacts
      <3>2. CASE reply = << "nothing", 0 >>
        BY <2>2, <3>2
      <3>3. QED BY <1>7, <3>1, <3>2
    <2>4. PollOK(p)'
      BY <2>1, <2>2, <2>3 DEF PollOK, RefOK
    <2>5. \A q \in Pollers \ {p} :
              /\ place'[q] = place[q] /\ target'[q] = target[q]
              /\ found'[q] = found[q] /\ asked'[q] = asked[q]
              /\ verdict'[q] = verdict[q]
      BY <1>7 DEF Poll, TypeOK
    <2>6. QED BY <1>5, <2>4, <2>5
  <1>8. ASSUME NEW p \in Pollers, ReleaseAsks(p)
        PROVE  PollsOK'
    <2>1. CASE Leave(p, "idle")
      BY <1>6, <1>8, <2>1 DEF ReleaseAsks
    <2>2. CASE ~Leave(p, "idle")
      <3>1. PICK a \in Attempts : a = target[p] /\ a \in 1 .. started'
        BY <1>3, <1>8 DEF ReleaseAsks, PollsOK, PollOK
      <3>2. /\ ~Evidence(a)
            /\ place' = [place EXCEPT ![p] = "resolve"]
            /\ verdict' = [verdict EXCEPT ![p] = Answer(a)[1]]
            /\ found' = [found EXCEPT ![p] = Answer(a)[2]]
            /\ UNCHANGED << target, asked, reads >>
        BY <1>8, <2>2, <3>1 DEF ReleaseAsks, helcimVars
      <3>3. /\ Answer(a)[1] \in {"no_match", "invoice"}
            /\ Answer(a)[2] \in 0 .. Len(reads[a]) /\ Len(reads[a]) \in Nat
        BY <3>2, AnswerFacts, ReadsType DEF Evidence, RefsOK
      <3>4. asked[p] = 0
        BY <1>8 DEF ReleaseAsks, PollsOK, PollOK
      <3>5. PollOK(p)'
        BY <3>1, <3>2, <3>3, <3>4 DEF PollOK, TypeOK
      <3>6. \A q \in Pollers \ {p} :
                /\ place'[q] = place[q] /\ target'[q] = target[q]
                /\ found'[q] = found[q] /\ asked'[q] = asked[q]
                /\ verdict'[q] = verdict[q]
        BY <3>2 DEF TypeOK
      <3>7. QED BY <1>5, <3>5, <3>6
    <2>3. QED BY <2>1, <2>2
  <1>9. ASSUME NEW p \in Pollers,
               Store(p) \/ ReleaseCanceled(p) \/ ReleaseRosError(p)
        PROVE  PollsOK'
    <2>1. place[p] # "idle" /\ (Leave(p, "idle") \/ Leave(p, "release"))
      BY <1>9 DEF Store, ReleaseCanceled, ReleaseRosError
    <2>2. QED BY <1>6, <2>1
  <1>10. QED
    BY ZenonT(60), <1>4, <1>7, <1>8, <1>9
    DEF Next, vars, pollVars, StartPurchase, Answered, Accepted, Rejected,
        Unknown, Crash, Age, Deliver, TerminalCancelEvent, CardTransactionEvent,
        LeaveReader, ReadCard, Checkout

-----------------------------------------------------------------------------
(* The rows.                                                               *)

(* A cancel event is taken for this purchase.                              *)
CancelTaken(a) ==
    \E b \in canceling \ canceling' : SafeCancelCandidate(a, terminal[b])

(* What any step may do to a row.                                          *)
RowStep(a) ==
    /\ ref'[a] <= Len(reads[a])
    /\ status'[a] = "approved" =>
          /\ a \in confirmed'
          /\ ref'[a] = 0 \/ reads[a][ref'[a]] = "approved"
    /\ a \in confirmed' => a \in confirmed \/ Charged(a)
    /\ a \in confirmed' \ late' => status'[a] = "approved"
    /\ error'[a] = "retry_declined" => reads[a] # << >>
    /\ status'[a] = "failed" =>
          \/ reads[a] # << >> \/ status[a] = "failed"
          \/ call[a] \in {"sending", "refused"} /\ call'[a] = "done"
    /\ status'[a] = "canceled" => status[a] = "canceled" \/ CancelTaken(a)
    /\ status[a] = "approved" /\ call[a] = "done" => status'[a] = "approved"
    /\ a <= started => status'[a] # "none"
    /\ a > started' => /\ status'[a] = "none" /\ error'[a] = "none"
                       /\ a \notin confirmed'

Same(a) ==
    /\ status'[a] = status[a] /\ error'[a] = error[a] /\ ref'[a] = ref[a]
    /\ a \in confirmed' <=> a \in confirmed

RowInv == TypeOK /\ RowsOK /\ RefsOK /\ OnePending /\ ApprovalsAreReal

(* A row whose outcome stays is stepped correctly.                         *)
LEMMA SameStep ==
    ASSUME RowInv, NEW a \in Attempts, Same(a), late \subseteq late',
           started' \in {started, started + 1}
    PROVE  RowStep(a)
  <1>1. a \in Nat /\ started \in Nat
    BY AttemptFacts DEF RowInv, TypeOK
  <1>2. RefOK(a) /\ (status[a] = "approved" => a \in confirmed)
    BY DEF RowInv, RefsOK, ApprovalsAreReal
  <1>3. IF a <= started THEN status[a] # "none"
        ELSE status[a] = "none" /\ error[a] = "none" /\ a \notin confirmed
    BY DEF RowInv, RowsOK
  <1>4. QED BY <1>1, <1>2, <1>3 DEF Same, RefOK, RowStep

(* Steps that leave the outcome of every row.                              *)
LEMMA RowsKept ==
    ASSUME RowInv, \A a \in Attempts : Same(a), late \subseteq late',
           UNCHANGED << started, terminal >>
    PROVE  OnePending' /\ \A a \in Attempts : RowStep(a)
  <1>1. started' \in {started, started + 1}
    OBVIOUS
  <1>2. \A a \in Attempts : RowStep(a)
    BY <1>1, SameStep
  <1>3. OnePending'
    BY DEF Same, OnePending, RowInv
  <1>4. QED BY <1>2, <1>3

(* An outcome that is written, under its condition.                        *)
LEMMA WriteStep ==
    ASSUME RowInv, NEW a \in Attempts, a <= started,
           NEW s \in {"pending", "approved", "failed", "expired", "canceled"},
           NEW e, NEW r \in Nat, Write(a, s, e, r), late' = late,
           r <= Len(reads[a]),
           s = "approved" => r > 0 /\ reads[a][r] = "approved",
           s # "approved" => status[a] # "approved",
           e = "retry_declined" \/ s = "failed" => reads[a] # << >>,
           s = "canceled" => CancelTaken(a)
    PROVE  OnePending' /\ \A b \in Attempts : RowStep(b)
  <1>1. /\ status' = [status EXCEPT ![a] = s] /\ error' = [error EXCEPT ![a] = e]
        /\ ref' = [ref EXCEPT ![a] = r]
        /\ confirmed' = IF s = "approved" THEN confirmed \cup {a} ELSE confirmed
        /\ UNCHANGED << started, terminal >>
        /\ s = "pending" => IndexFree(a)
    BY DEF Write
  <1>2. /\ status'[a] = s /\ error'[a] = e /\ ref'[a] = r
        /\ \A b \in Attempts : b # a => Same(b)
    BY <1>1 DEF RowInv, TypeOK, Same
  <1>3. started \in Nat /\ a \in Nat /\ Len(reads[a]) \in Nat
    BY AttemptFacts, ReadsType DEF RowInv, TypeOK
  <1>4. \A b \in Attempts : b # a => RowStep(b)
    BY <1>1, <1>2, SameStep
  <1>5. RowStep(a)
    <2>1. RefOK(a)
      BY DEF RowInv, RefsOK
    <2>2. s = "approved" => Charged(a)
      BY <1>3 DEF Charged
    <2>3. QED BY <1>1, <1>2, <1>3, <2>1, <2>2 DEF RowStep, RefOK
  <1>6. OnePending'
    <2> SUFFICES ASSUME NEW b \in Attempts, NEW d \in Attempts,
                        status'[b] = "pending", status'[d] = "pending",
                        terminal[b] = terminal[d], b # d
                 PROVE  FALSE
      BY <1>1 DEF OnePending
    <2>1. b # a /\ d # a => FALSE
      BY <1>2 DEF Same, OnePending, RowInv
    <2>2. b = a => FALSE
      BY <1>1, <1>2 DEF Same, IndexFree
    <2>3. d = a => FALSE
      BY <1>1, <1>2 DEF Same, IndexFree
    <2>4. QED BY <2>1, <2>2, <2>3
  <1>7. QED BY <1>4, <1>5, <1>6

(* A start releases what the reader is reserved for, and adds one row.     *)
LEMMA StartStep ==
    ASSUME RowInv, NEW c \in Checkouts, NEW t \in Terminals, StartPurchase(c, t)
    PROVE  OnePending' /\ \A b \in Attempts : RowStep(b)
  <1> DEFINE a == started + 1
  <1>1. /\ a \in Attempts /\ started' = a
        /\ status' = [b \in Attempts |->
              IF b = a THEN "pending"
              ELSE IF status[b] = "pending" /\ terminal[b] = t THEN "expired"
              ELSE status[b]]
        /\ error' = [b \in Attempts |->
              IF (status[b] = "pending" /\ terminal[b] = t) /\ error[b] = "none"
              THEN "released" ELSE error[b]]
        /\ terminal' = [terminal EXCEPT ![a] = t]
        /\ UNCHANGED << ref, confirmed, late >>
    BY DEF StartPurchase
  <1>2. started \in Nat /\ a \in Nat /\ started' = started + 1
    BY <1>1 DEF RowInv, TypeOK
  <1>3. /\ status[a] = "none" /\ error[a] = "none" /\ a \notin confirmed
    BY <1>1, <1>2 DEF RowInv, RowsOK
  <1> HIDE DEF a
  <1>4. ASSUME NEW b \in Attempts
        PROVE  RowStep(b)
    <2>1. CASE b = a
      BY <1>1, <1>2, <1>3, <2>1 DEF RowStep, RowInv, RefsOK, RefOK, a
    <2>2. CASE b # a /\ status[b] = "pending" /\ terminal[b] = t
      <3>1. /\ status'[b] = "expired" /\ error'[b] \in {error[b], "released"}
            /\ ref'[b] = ref[b] /\ (b \in confirmed' <=> b \in confirmed)
        BY <1>1, <2>2
      <3>2. RefOK(b) /\ b <= started /\ b \in Nat
        BY <1>2, <2>2, AttemptFacts DEF RowInv, RefsOK, RowsOK
      <3>3. QED BY <1>1, <1>2, <2>2, <3>1, <3>2 DEF RowStep, RefOK
    <2>3. CASE b # a /\ ~ (status[b] = "pending" /\ terminal[b] = t)
      <3>1. Same(b)
        BY <1>1, <2>3 DEF Same
      <3>2. QED BY <1>1, <1>2, <3>1, SameStep
    <2>4. QED BY <2>1, <2>2, <2>3
  <1>5. OnePending'
    <2> SUFFICES ASSUME NEW b \in Attempts, NEW d \in Attempts,
                        status'[b] = "pending", status'[d] = "pending",
                        terminal'[b] = terminal'[d], b # d
                 PROVE  FALSE
      BY DEF OnePending
    <2>1. \A e \in Attempts : terminal'[e] = IF e = a THEN t ELSE terminal[e]
      BY <1>1 DEF RowInv, TypeOK
    <2>2. \A e \in Attempts : e # a /\ status'[e] = "pending" =>
              status[e] = "pending" /\ terminal[e] # t
      BY <1>1
    <2>3. QED BY <2>1, <2>2 DEF RowInv, OnePending
  <1>6. QED BY <1>4, <1>5

(* The reply takes an approval back only before its call is done, and says  *)
(* so in late.                                                             *)
LEMMA ReplyStep ==
    ASSUME RowInv, NEW a \in Attempts, Accepted(a) \/ Rejected(a) \/ Unknown(a)
    PROVE  OnePending' /\ \A b \in Attempts : RowStep(b)
  <1>1. /\ call' = [call EXCEPT ![a] = "done"]
        /\ late' = IF a \in confirmed THEN late \cup {a} ELSE late
        /\ UNCHANGED << started, terminal, confirmed >>
    BY DEF Accepted, Rejected, Unknown, Answered
  <1>2. /\ call[a] \in {"sending", "delivered", "refused"} /\ call'[a] = "done"
        /\ a <= started /\ a \in Nat /\ started \in Nat /\ status[a] # "none"
        /\ late \subseteq late' /\ a \notin confirmed' \ late'
    <2>1. call[a] \in {"sending", "delivered", "refused"} /\ call'[a] = "done"
      BY <1>1 DEF Accepted, Rejected, Unknown, RowInv, TypeOK
    <2>2. a <= started /\ status[a] # "none"
      BY <2>1 DEF RowInv, RowsOK
    <2>3. a \in Nat /\ started \in Nat
      BY AttemptFacts DEF RowInv, TypeOK
    <2>4. QED BY <1>1, <2>1, <2>2, <2>3
  <1>3. RefOK(a) /\ 0 <= Len(reads[a])
    BY ReadsType DEF RowInv, RefsOK
  <1>4. /\ status[a] = "approved" => a \in confirmed
        /\ a \in Attempts
    BY DEF RowInv, ApprovalsAreReal
  <1>5. CASE Accepted(a)
    <2>1. /\ status' = status /\ error' = error /\ ref'[a] = 0
          /\ call[a] = "delivered"
          /\ \A b \in Attempts : b # a => Same(b)
      BY <1>1, <1>5 DEF Accepted, Same, RowInv, TypeOK
    <2>2. RowStep(a)
      BY <1>1, <1>2, <1>3, <1>4, <2>1 DEF RowStep, RefOK
    <2>3. OnePending'
      BY <1>1, <2>1 DEF OnePending, RowInv
    <2>4. QED BY <1>1, <1>2, <2>1, <2>2, <2>3, SameStep
  <1>6. CASE Rejected(a)
    <2>1. /\ status' = [status EXCEPT ![a] = "failed"]
          /\ error' = [error EXCEPT ![a] = "rejected"]
          /\ ref' = ref /\ call[a] \in {"sending", "refused"}
      BY <1>6 DEF Rejected
    <2>2. /\ status'[a] = "failed" /\ error'[a] = "rejected"
          /\ \A b \in Attempts : b # a => Same(b)
      BY <1>1, <2>1 DEF Same, RowInv, TypeOK
    <2>3. RowStep(a)
      BY <1>1, <1>2, <1>3, <2>1, <2>2 DEF RowStep, RefOK
    <2>4. OnePending'
      BY <1>1, <2>2 DEF OnePending, RowInv, Same
    <2>5. QED BY <1>1, <1>2, <2>2, <2>3, <2>4, SameStep
  <1>7. CASE Unknown(a)
    <2>1. CASE IndexFree(a)
      <3>1. /\ status' = [status EXCEPT ![a] = "pending"]
            /\ error' = [error EXCEPT ![a] = "outcome_unknown"]
            /\ ref' = ref
        BY <1>7, <2>1 DEF Unknown
      <3>2. /\ status'[a] = "pending" /\ error'[a] = "outcome_unknown"
            /\ \A b \in Attempts : b # a => Same(b)
        BY <1>1, <3>1 DEF Same, RowInv, TypeOK
      <3>3. RowStep(a)
        BY <1>1, <1>2, <1>3, <3>1, <3>2 DEF RowStep, RefOK
      <3>4. OnePending'
        BY <1>1, <2>1, <3>2 DEF OnePending, RowInv, Same, IndexFree
      <3>5. QED BY <1>1, <1>2, <3>2, <3>3, <3>4, SameStep
    <2>2. CASE ~IndexFree(a)
      <3>1. \A b \in Attempts : Same(b)
        BY <1>1, <1>7, <2>2 DEF Unknown, Same
      <3>2. QED BY <1>1, <1>2, <3>1, RowsKept
    <2>3. QED BY <2>1, <2>2
  <1>8. QED BY <1>5, <1>6, <1>7

(* A card event writes what Helcim's card transaction says, and no approval *)
(* is declined by it.                                                      *)
LEMMA EventStep ==
    ASSUME RowInv, ReadersOK, NEW a \in Attempts, NEW i \in Reads,
           CardTransactionEvent(a, i)
    PROVE  OnePending' /\ \A b \in Attempts : RowStep(b)
  <1>1. /\ i \in 1 .. Len(reads[a]) /\ i \in Nat /\ i > 0 /\ i <= Len(reads[a])
        /\ reads[a] # << >> /\ late' = late
    BY ReadsType DEF CardTransactionEvent, RowInv
  <1>2. a <= started
    <2>1. call[a] # "none"
      BY <1>1 DEF ReadersOK
    <2>2. QED BY <2>1 DEF RowInv, RowsOK
  <1>3. CASE UNCHANGED << rowVars, confirmed >>
    <2>1. \A b \in Attempts : Same(b)
      BY <1>3 DEF Same, rowVars
    <2>2. QED BY <1>1, <1>3, <2>1, RowsKept DEF rowVars
  <1>4. CASE Candidate(a, i) /\ Write(a, "approved", "none", i)
             /\ reads[a][i] = "approved"
    BY <1>1, <1>2, <1>4, WriteStep
  <1>5. CASE /\ Candidate(a, i) /\ Write(a, "pending", "retry_declined", i)
             /\ reads[a][i] # "approved"
    <2>1. status[a] # "approved"
      BY <1>1, <1>5 DEF Candidate, RowInv, RefsOK, RefOK
    <2>2. QED BY <1>1, <1>2, <1>5, <2>1, WriteStep
  <1>6. QED BY <1>3, <1>4, <1>5 DEF CardTransactionEvent

(* A cancel event writes a pending purchase that it is taken for.          *)
LEMMA CancelStep ==
    ASSUME RowInv, NEW b \in Attempts, TerminalCancelEvent(b)
    PROVE  OnePending' /\ \A a \in Attempts : RowStep(a)
  <1>1. b \in canceling \ canceling' /\ late' = late
    BY DEF TerminalCancelEvent
  <1>2. CASE UNCHANGED << rowVars, confirmed >>
    <2>1. \A a \in Attempts : Same(a)
      BY <1>2 DEF Same, rowVars
    <2>2. QED BY <1>1, <1>2, <2>1, RowsKept DEF rowVars
  <1>3. ASSUME NEW a \in Attempts, SafeCancelCandidate(a, terminal[b]),
               Write(a, "canceled", "terminal_cancel", ref[a])
        PROVE  OnePending' /\ \A d \in Attempts : RowStep(d)
    <2>1. CancelTaken(a) /\ status[a] = "pending"
      BY <1>1, <1>3 DEF CancelTaken, SafeCancelCandidate
    <2>2. a <= started
      BY <2>1 DEF RowInv, RowsOK
    <2>3. ref[a] \in Nat /\ ref[a] <= Len(reads[a])
      BY ReadsType DEF RowInv, RefsOK, RefOK
    <2>4. QED BY <1>1, <1>3, <2>1, <2>2, <2>3, WriteStep
  <1>4. QED BY <1>2, <1>3 DEF TerminalCancelEvent

(* A poll writes what it found only under the conditions of its updates.   *)
LEMMA StoreStep ==
    ASSUME RowInv, PollsOK, NEW p \in Pollers,
           place[p] \in {"store", "resolve"}, late' = late,
           \/ StoreWindowOver(p) \/ StoreInvoice(p) \/ StoreNoMatch(p)
           \/ StoreApproved(p) \/ StoreDeclined(p) \/ NoWrite
    PROVE  OnePending' /\ \A b \in Attempts : RowStep(b)
  <1>1. PICK a \in Attempts : a = target[p] /\ a <= started
    <2>1. target[p] \in 1 .. started
      BY DEF PollsOK, PollOK
    <2>2. started \in 0 .. MaxStarts
      BY DEF RowInv, TypeOK
    <2>3. QED BY <2>1, <2>2, AttemptFacts DEF Attempts
  <1>2. /\ ref[a] \in Nat /\ Len(reads[a]) \in Nat
        /\ found[p] \in Nat /\ asked[p] \in Nat
        /\ found[p] <= Len(reads[a]) /\ asked[p] <= Len(reads[a])
        /\ verdict[p] = "approved" =>
              asked[p] > 0 /\ reads[a][asked[p]] = "approved"
        /\ verdict[p] = "declined" => reads[a] # << >>
    BY <1>1, ReadsType, AttemptFacts DEF PollsOK, PollOK, RowInv, TypeOK, Reads
  <1>3. RefOK(a)
    BY DEF RowInv, RefsOK
  <1>4. CASE NoWrite
    <2>1. \A b \in Attempts : Same(b)
      BY <1>4 DEF Same, NoWrite, rowVars
    <2>2. QED BY <1>4, <2>1, RowsKept DEF NoWrite, rowVars
  <1>5. ASSUME NEW s \in {"pending", "approved", "failed"}, NEW e,
               NEW r \in Nat, Write(a, s, e, r), r <= Len(reads[a]),
               s = "approved" => r > 0 /\ reads[a][r] = "approved",
               s # "approved" => status[a] # "approved",
               e = "retry_declined" \/ s = "failed" => reads[a] # << >>
        PROVE  OnePending' /\ \A b \in Attempts : RowStep(b)
    BY <1>1, <1>5, WriteStep
  <1>6. ASSUME CanRecover(p), Recover(p)
        PROVE  OnePending' /\ \A b \in Attempts : RowStep(b)
    <2>1. /\ found[p] > 0 /\ status[a] # "approved" /\ reads[a] # << >>
      BY <1>1, <1>2, <1>6, ReadsType DEF CanRecover, RowInv
    <2>2. CASE reads[a][found[p]] = "approved"
      BY <1>1, <1>2, <1>5, <1>6, <2>1, <2>2 DEF Recover
    <2>3. CASE reads[a][found[p]] # "approved"
      BY <1>1, <1>2, <1>5, <1>6, <2>1, <2>3 DEF Recover
    <2>4. QED BY <2>2, <2>3
  <1>7. CASE StoreWindowOver(p)
    <2>1. CASE status[a] = "pending" /\ error[a] = "retry_declined"
      BY <1>1, <1>2, <1>3, <1>5, <1>7, <2>1 DEF StoreWindowOver, RefOK
    <2>2. CASE ~ (status[a] = "pending" /\ error[a] = "retry_declined")
      BY <1>1, <1>4, <1>7, <2>2 DEF StoreWindowOver
    <2>3. QED BY <2>1, <2>2
  <1>8. CASE StoreInvoice(p)
    BY <1>4, <1>6, <1>8 DEF StoreInvoice
  <1>9. CASE StoreNoMatch(p)
    <2>1. CASE ExpireOrphan(a) /\ Orphaned(a)
      <3>1. /\ status'[a] = "expired" /\ error'[a] = "orphaned"
            /\ status[a] = "pending" /\ ref' = ref /\ confirmed' = confirmed
            /\ UNCHANGED << started, terminal >>
            /\ \A b \in Attempts : b # a => Same(b)
        BY <2>1 DEF ExpireOrphan, Orphaned, RowInv, TypeOK, Same
      <3>2. a \in Nat /\ started \in Nat
        BY AttemptFacts DEF RowInv, TypeOK
      <3>3. RowStep(a)
        BY <1>1, <1>3, <3>1, <3>2 DEF RowStep, RefOK
      <3>4. OnePending'
        BY <3>1 DEF Same, OnePending, RowInv
      <3>5. QED BY <3>1, <3>3, <3>4, SameStep
    <2>2. QED BY <1>1, <1>4, <1>9, <2>1 DEF StoreNoMatch
  <1>10. CASE StoreApproved(p)
    <2>1. CASE Write(a, "approved", "none", asked[p])
      BY <1>2, <1>5, <1>10, <2>1 DEF StoreApproved
    <2>2. QED BY <1>1, <1>4, <1>10, <2>1 DEF StoreApproved
  <1>11. CASE StoreDeclined(p)
    <2>1. CASE CanRecover(p)
      BY <1>6, <1>11, <2>1 DEF StoreDeclined
    <2>2. CASE Write(a, "failed", "declined", asked[p])
               /\ status[a] \in {"pending", "expired"}
      BY <1>2, <1>5, <1>11, <2>2 DEF StoreDeclined
    <2>3. CASE Write(a, "pending", "retry_declined", asked[p])
               /\ status[a] \in {"pending", "expired", "failed"}
      BY <1>2, <1>5, <1>11, <2>3 DEF StoreDeclined
    <2>4. QED BY <1>1, <1>4, <1>11, <2>1, <2>2, <2>3 DEF StoreDeclined
  <1>12. QED BY <1>4, <1>7, <1>8, <1>9, <1>10, <1>11

(* Staff's confirmation, and the search after a local error, expire only a  *)
(* purchase that is pending.                                               *)
LEMMA ReleaseStep ==
    ASSUME RowInv, PollsOK, NEW p \in Pollers,
           Store(p) \/ ReleaseCanceled(p) \/ ReleaseRosError(p)
    PROVE  OnePending' /\ \A b \in Attempts : RowStep(b)
  <1>1. PICK a \in Attempts : a = target[p] /\ a <= started
    BY AttemptFacts
    DEF PollsOK, PollOK, RowInv, TypeOK, Attempts, Store, ReleaseCanceled,
        ReleaseRosError
  <1>2. ref[a] \in Nat /\ 0 <= Len(reads[a]) /\ ref[a] <= Len(reads[a])
    BY ReadsType DEF RowInv, RefsOK, RefOK
  <1>3. CASE Store(p)
    BY <1>3, StoreStep DEF Store
  <1>4. CASE NoWrite /\ late' = late
    <2>1. \A b \in Attempts : Same(b)
      BY <1>4 DEF Same, NoWrite, rowVars
    <2>2. QED BY <1>4, <2>1, RowsKept DEF NoWrite, rowVars
  <1>5. CASE ReleaseCanceled(p)
    <2>1. CASE /\ status[a] = "pending"
               /\ Write(a, "expired", "physical_cancel", ref[a])
      BY <1>1, <1>2, <1>5, <2>1, WriteStep DEF ReleaseCanceled
    <2>2. QED BY <1>1, <1>4, <1>5, <2>1 DEF ReleaseCanceled
  <1>6. CASE ReleaseRosError(p)
    <2>1. CASE /\ status[a] = "pending"
               /\ Write(a, "expired", "ros_recovered", 0)
      BY <1>1, <1>2, <1>6, <2>1, WriteStep DEF ReleaseRosError
    <2>2. CASE StoreInvoice(p)
      BY <1>6, <2>2, StoreStep DEF ReleaseRosError
    <2>3. QED BY <1>1, <1>4, <1>6, <2>1, <2>2 DEF ReleaseRosError
  <1>7. QED BY <1>3, <1>5, <1>6

(* What any step does to the rows.                                         *)
LEMMA RowsStep ==
    ASSUME RowInv, ReadersOK, PollsOK, [Next]_vars
    PROVE  OnePending' /\ \A b \in Attempts : RowStep(b)
  <1>1. CASE /\ UNCHANGED << status, error, ref, started, terminal, confirmed >>
             /\ late' = late
    <2>1. \A b \in Attempts : Same(b)
      BY <1>1 DEF Same
    <2>2. QED BY <1>1, <2>1, RowsKept
  <1>2. ASSUME NEW c \in Checkouts, NEW t \in Terminals, StartPurchase(c, t)
        PROVE  OnePending' /\ \A b \in Attempts : RowStep(b)
    BY <1>2, StartStep
  <1>3. ASSUME NEW a \in Attempts,
               Accepted(a) \/ Rejected(a) \/ Unknown(a)
        PROVE  OnePending' /\ \A b \in Attempts : RowStep(b)
    BY <1>3, ReplyStep
  <1>4. ASSUME NEW a \in Attempts, TerminalCancelEvent(a)
        PROVE  OnePending' /\ \A b \in Attempts : RowStep(b)
    BY <1>4, CancelStep
  <1>5. ASSUME NEW a \in Attempts, NEW i \in Reads, CardTransactionEvent(a, i)
        PROVE  OnePending' /\ \A b \in Attempts : RowStep(b)
    BY <1>5, EventStep
  <1>6. ASSUME NEW p \in Pollers,
               Store(p) \/ ReleaseCanceled(p) \/ ReleaseRosError(p)
        PROVE  OnePending' /\ \A b \in Attempts : RowStep(b)
    BY <1>6, ReleaseStep
  <1>7. QED
    BY <1>1, <1>2, <1>3, <1>4, <1>5, <1>6
    DEF Next, vars, rowVars, Deliver, Crash, Age, LeaveReader, ReadCard, Poll,
        ReleaseAsks, Checkout

(* Only a purchase that started has been dispatched.                       *)
LEMMA CallStep ==
    ASSUME TypeOK, RowsOK, [Next]_vars, NEW a \in Attempts, a > started'
    PROVE  call'[a] = "none"
  <1>1. /\ started \in Nat /\ started' \in {started, started + 1} /\ a \in Nat
    BY StartsAlone, AttemptFacts DEF StartPurchase, TypeOK
  <1>2. call[a] = "none"
    BY <1>1 DEF RowsOK
  <1>3. ASSUME NEW c \in Checkouts, NEW t \in Terminals, StartPurchase(c, t)
        PROVE  call'[a] = "none"
    BY <1>1, <1>2, <1>3 DEF StartPurchase, TypeOK
  <1>4. ASSUME NEW b \in Attempts,
               Deliver(b) \/ Accepted(b) \/ Rejected(b) \/ Unknown(b) \/ Crash(b)
        PROVE  call'[a] = "none"
    <2>1. /\ call[b] # "none"
          /\ \E x : call' = [call EXCEPT ![b] = x]
      BY <1>4 DEF Deliver, Accepted, Rejected, Unknown, Crash, Answered
    <2>2. QED BY <1>2, <2>1 DEF TypeOK
  <1>5. CASE call' = call
    BY <1>2, <1>5
  <1>6. QED
    BY ZenonT(60), <1>3, <1>4, <1>5
    DEF Next, vars, Age, TerminalCancelEvent, CardTransactionEvent, LeaveReader,
        ReadCard, Poll, Store, ReleaseCanceled, ReleaseAsks, ReleaseRosError,
        Checkout

(* A purchase that is refused, or given up before it reached its reader,    *)
(* is off it.                                                              *)
LEMMA NeverShown ==
    ASSUME TypeOK, ReadersOK, [Next]_vars, NEW a \in Attempts,
           call[a] \in {"sending", "refused"}, call'[a] = "done"
    PROVE  OffReader(a)' /\ a \notin canceling'
  <1>1. /\ \A t \in Terminals : showing[t] # a
        /\ a \notin canceling
    BY AttemptFacts DEF ReadersOK, OffReader
  <1>2. ASSUME NEW b \in Attempts, Deliver(b)
        PROVE  FALSE
    BY <1>2 DEF Deliver, TypeOK
  <1>3. ASSUME NEW t \in Terminals,
               LeaveReader(t) \/ \E o \in {"declined", "approved"} : ReadCard(t, o)
        PROVE  FALSE
    BY <1>3 DEF LeaveReader, ReadCard
  <1>4. showing' = showing /\ canceling' \subseteq canceling
    BY SMTT(60), <1>2, <1>3
    DEF Next, vars, helcimVars, StartPurchase, Answered, Accepted, Rejected,
        Unknown, Crash, Age, TerminalCancelEvent, CardTransactionEvent, Poll,
        Store, ReleaseCanceled, ReleaseAsks, ReleaseRosError, Checkout
  <1>5. QED BY <1>1, <1>4 DEF OffReader

(* A row stays with its reader, and exists from its start.                 *)
LEMMA RowsOKStep ==
    ASSUME RowInv, ReadersOK, PollsOK, [Next]_vars
    PROVE  /\ RowsOK'
           /\ \A a \in Attempts : a <= started =>
                 terminal'[a] = terminal[a] /\ checkout'[a] = checkout[a]
  <1> USE DEF RowInv
  <1>1. started \in Nat
    BY AttemptFacts DEF TypeOK
  <1>2. \A a \in Attempts : a <= started =>
            terminal'[a] = terminal[a] /\ checkout'[a] = checkout[a]
    <2>1. CASE UNCHANGED << started, terminal, checkout >>
      BY <2>1
    <2>2. ASSUME NEW c \in Checkouts, NEW t \in Terminals, StartPurchase(c, t)
          PROVE  \A a \in Attempts : a <= started =>
                    terminal'[a] = terminal[a] /\ checkout'[a] = checkout[a]
      BY <1>1, <2>2, AttemptFacts DEF StartPurchase, TypeOK
    <2>3. QED BY <2>1, <2>2, StartsAlone
  <1>3. \A a \in Attempts : a <= started' =>
            status'[a] # "none" /\ terminal'[a] \in Terminals
    <2>1. CASE UNCHANGED << started, terminal >>
      BY <2>1, RowsStep DEF RowStep, RowsOK
    <2>2. ASSUME NEW c \in Checkouts, NEW t \in Terminals, StartPurchase(c, t)
          PROVE  \A a \in Attempts : a <= started' =>
                    status'[a] # "none" /\ terminal'[a] \in Terminals
      <3> SUFFICES ASSUME NEW a \in Attempts, a <= started'
                   PROVE  status'[a] # "none" /\ terminal'[a] \in Terminals
        OBVIOUS
      <3>1. CASE a = started + 1
        BY <2>2, <3>1 DEF StartPurchase, TypeOK
      <3>2. CASE a # started + 1
        <4>1. a <= started
          BY <1>1, <2>2, <3>2, AttemptFacts DEF StartPurchase
        <4>2. QED BY <1>2, <4>1, RowsStep DEF RowStep, RowsOK
      <3>3. QED BY <3>1, <3>2
    <2>3. QED BY <2>1, <2>2, StartsAlone
  <1>4. started' \in Nat
    BY <1>1, StartsAlone DEF StartPurchase
  <1>5. \A a \in Attempts : ~(a <= started') =>
            /\ status'[a] = "none" /\ error'[a] = "none" /\ call'[a] = "none"
            /\ a \notin confirmed'
    <2>1. \A a \in Attempts : ~(a <= started') => a > started'
      BY <1>4, AttemptFacts
    <2>2. QED BY <2>1, RowsStep, CallStep DEF RowStep
  <1>6. QED BY <1>2, <1>3, <1>5 DEF RowsOK

(* A row's card transactions stay on its invoice.                          *)
LEMMA RefsStep ==
    ASSUME RowInv, ReadersOK, PollsOK, [Next]_vars
    PROVE  RefsOK'
  <1> USE DEF RowInv
  <1> SUFFICES ASSUME NEW a \in Attempts PROVE RefOK(a)'
    BY DEF RefsOK
  <1>1. RowStep(a) /\ Grows(a)
    BY RowsStep, ReadsGrow
  <1>2. Len(reads[a]) \in Nat /\ Len(reads'[a]) \in Nat /\ ref'[a] \in Nat
    <2>1. HelcimTypes' /\ RowTypes'
      BY HelcimTypesStep, RowTypesStep
    <2>2. QED BY <2>1, ReadsType, AttemptFacts DEF HelcimTypes, RowTypes, Reads
  <1>3. ref'[a] <= Len(reads[a]) /\ ref'[a] <= Len(reads'[a])
    BY <1>1, <1>2 DEF RowStep, Grows
  <1>4. status'[a] = "approved" => ref'[a] = 0 \/ reads'[a][ref'[a]] = "approved"
    BY <1>1, <1>2, <1>3 DEF RowStep, Grows
  <1>5. error'[a] = "retry_declined" => reads'[a] # << >>
    BY <1>1, ChargesStay DEF RowStep
  <1>6. QED BY <1>1, <1>3, <1>4, <1>5 DEF RefOK, RowStep

(* An approval is recorded, or attached to a sale, only of a charged card. *)
LEMMA RealStep ==
    ASSUME RowInv, ReadersOK, PollsOK, [Next]_vars
    PROVE  ApprovalsAreReal'
  <1> USE DEF RowInv
  <1>1. \A a \in Attempts :
            /\ Charged(a) => Charged(a)'
            /\ a \in confirmed' => a \in confirmed \/ Charged(a)
            /\ status'[a] = "approved" => a \in confirmed'
    BY RowsStep, ReadsGrow, ChargesStay DEF RowStep
  <1>2. confirmed' \subseteq Attempts /\ attached' \subseteq Attempts
    BY RowTypesStep, SaleTypesStep DEF RowTypes, SaleTypes
  <1>3. \A a \in attached' : a \in attached \/ Charged(a)
    <2>1. ASSUME NEW a \in Attempts, NEW i \in Reads, CardTransactionEvent(a, i)
          PROVE  \A b \in attached' : b \in attached \/ Charged(b)
      BY <2>1 DEF CardTransactionEvent, saleVars, Charged
    <2>2. ASSUME NEW c, NEW splits \in SUBSET (1 .. started),
                 NEW tender \in {"sold", "manual"}, Checkout(c, splits, tender)
          PROVE  \A b \in attached' : b \in attached \/ Charged(b)
      <3> SUFFICES ASSUME NEW b \in attached', b \notin attached
                   PROVE  Charged(b)
        OBVIOUS
      <3>1. status[b] = "approved"
        BY <2>2 DEF Checkout
      <3>2. QED BY <1>2, <3>1 DEF ApprovalsAreReal
    <2>3. CASE attached' = attached
      BY <2>3
    <2>4. QED
      BY SMTT(60), <2>1, <2>2, <2>3
      DEF Next, vars, saleVars, StartPurchase, Answered, Accepted, Rejected,
          Unknown, Crash, Age, Deliver, TerminalCancelEvent, LeaveReader,
          ReadCard, Poll, Store, ReleaseCanceled, ReleaseAsks, ReleaseRosError
  <1>4. \A a \in confirmed' \cup attached' : Charged(a)'
    BY <1>1, <1>2, <1>3 DEF ApprovalsAreReal
  <1>5. QED BY <1>1, <1>4 DEF ApprovalsAreReal

(* An earlier purchase's decline is not forgotten.                         *)
LEMMA EarlierStays ==
    ASSUME RowInv, ReadersOK, PollsOK, [Next]_vars, NEW a \in Attempts,
           a <= started, Earlier(a)
    PROVE  Earlier(a)'
  <1>1. PICK b \in Attempts :
            /\ b < a /\ terminal[b] = terminal[a] /\ reads[b] # << >>
            /\ OffReader(b) /\ ~Charged(b)
    BY DEF Earlier
  <1>2. b <= started
    BY <1>1 DEF OffReader, RowInv, RowsOK
  <1>3. OffReader(b)' /\ ~Charged(b)' /\ reads'[b] # << >>
    BY <1>1, OffStays, ReadsGrow, ChargesStay DEF RowInv
  <1>4. terminal'[b] = terminal'[a]
    BY <1>1, <1>2, RowsOKStep
  <1>5. QED BY <1>1, <1>3, <1>4 DEF Earlier

(* A purchase takes the cancel event of another only after a declined card. *)
LEMMA CancelMeans ==
    ASSUME RowInv, ReadersOK, EndsOK, [Next]_vars, NEW a \in Attempts,
           CancelTaken(a)
    PROVE  \/ Earlier(a)
           \/ OffReader(a) /\ ~Charged(a) /\ a \notin canceling'
  <1> USE DEF RowInv
  <1>1. PICK b \in canceling \ canceling' : SafeCancelCandidate(a, terminal[b])
    BY DEF CancelTaken
  <1>2. b \in Attempts /\ OffReader(b) /\ ~Charged(b) /\ b \in canceling
    BY <1>1 DEF TypeOK, ReadersOK
  <1>3. CASE b = a
    BY <1>1, <1>2, <1>3
  <1>4. CASE b # a
    <2>1. /\ status[a] = "pending" /\ terminal[a] = terminal[b]
          /\ b < a /\ status[b] # "expired"
      BY <1>1, <1>2, <1>4, AttemptFacts DEF SafeCancelCandidate
    <2>2. status[b] # "pending"
      BY <1>2, <1>4, <2>1 DEF OnePending
    <2>3. status[b] # "approved"
      BY <1>2 DEF ApprovalsAreReal
    <2>4. status[b] # "none"
      BY <1>2 DEF OffReader, RowsOK
    <2>5. status[b] \in {"failed", "canceled"}
      BY <1>2, <2>1, <2>2, <2>3, <2>4 DEF TypeOK, Statuses
    <2>6. CASE status[b] = "failed"
      <3>1. reads[b] # << >>
        BY <1>2, <2>6 DEF EndsOK, EndOK
      <3>2. QED BY <1>2, <2>1, <3>1 DEF Earlier
    <2>7. CASE status[b] = "canceled"
      <3>1. Earlier(b)
        BY <1>2, <2>7 DEF EndsOK, EndOK
      <3>2. PICK d \in Attempts :
                /\ d < b /\ terminal[d] = terminal[b] /\ reads[d] # << >>
                /\ OffReader(d) /\ ~Charged(d)
        BY <3>1 DEF Earlier
      <3>3. d \in Nat /\ b \in Nat /\ a \in Nat
        BY <1>2, AttemptFacts
      <3>4. d < a
        BY <2>1, <3>2, <3>3
      <3>5. QED BY <2>1, <3>2, <3>4 DEF Earlier
    <2>8. QED BY <2>5, <2>6, <2>7
  <1>5. QED BY <1>3, <1>4

(* How the purchases ended stays true of them.                             *)
LEMMA EndsStep ==
    ASSUME RowInv, ReadersOK, PollsOK, EndsOK, [Next]_vars
    PROVE  EndsOK'
  <1> USE DEF RowInv
  <1> SUFFICES ASSUME NEW a \in Attempts PROVE EndOK(a)'
    BY DEF EndsOK
  <1>1. RowStep(a) /\ Grows(a) /\ EndOK(a)
    BY RowsStep, ReadsGrow DEF EndsOK
  <1>2. OffReader(a) =>
            /\ OffReader(a)' /\ (a \in canceling' => a \in canceling)
            /\ (Charged(a)' <=> Charged(a))
    BY <1>1, OffStays, ChargesStay
  <1>3. reads[a] # << >> => reads'[a] # << >>
    BY <1>1, ChargesStay
  <1>4. ASSUME status'[a] = "failed"
        PROVE  reads'[a] # << >> \/ (OffReader(a)' /\ a \notin canceling')
    <2>1. CASE reads[a] # << >>
      BY <1>3, <2>1
    <2>2. CASE status[a] = "failed"
      BY <1>1, <1>2, <1>3, <2>2 DEF EndOK
    <2>3. CASE call[a] \in {"sending", "refused"} /\ call'[a] = "done"
      BY <2>3, NeverShown
    <2>4. QED BY <1>1, <1>4, <2>1, <2>2, <2>3 DEF RowStep
  <1>5. ASSUME status'[a] = "canceled"
        PROVE  \/ Earlier(a)'
               \/ OffReader(a)' /\ a \notin canceling' /\ ~Charged(a)'
    <2>1. /\ a <= started
          /\ \/ Earlier(a)
             \/ OffReader(a) /\ ~Charged(a) /\ a \notin canceling'
      <3>1. CASE status[a] = "canceled"
        BY <1>1, <1>2, <3>1 DEF EndOK, RowsOK
      <3>2. CASE CancelTaken(a)
        BY <3>2, CancelMeans DEF CancelTaken, SafeCancelCandidate, RowsOK
      <3>3. QED BY <1>1, <1>5, <3>1, <3>2 DEF RowStep
    <2>2. QED BY <1>2, <2>1, EarlierStays
  <1>6. QED BY <1>4, <1>5 DEF EndOK

-----------------------------------------------------------------------------
(* The invariant.                                                          *)

(* Nothing has started.                                                    *)
LEMMA InitHolds == Init => IInv
  <1> SUFFICES ASSUME Init PROVE IInv
    OBVIOUS
  <1> USE AttemptFacts DEF Init
  <1>1. TypeOK
    BY DEF TypeOK, Statuses, Errors, Reads, Verdicts
  <1>2. RowsOK /\ OnePending /\ ApprovalsAreReal
    BY DEF RowsOK, OnePending, ApprovalsAreReal
  <1>3. ReadersOK /\ PollsOK
    BY DEF ReadersOK, PollsOK, PollOK
  <1>4. RefsOK /\ EndsOK
    BY DEF RefsOK, RefOK, EndsOK, EndOK
  <1>5. QED BY <1>1, <1>2, <1>3, <1>4 DEF IInv

(* Every step keeps the invariant.                                         *)
LEMMA InvStep == IInv /\ [Next]_vars => IInv'
  <1> SUFFICES ASSUME IInv, [Next]_vars PROVE IInv'
    OBVIOUS
  <1>1. RowInv /\ ReadersOK /\ PollsOK /\ EndsOK
    BY DEF IInv, RowInv
  <1>2. TypeOK'
    BY <1>1, RowTypesStep, CallTypesStep, HelcimTypesStep, PollTypesStep,
       SaleTypesStep, TypeParts DEF RowInv
  <1>3. RowsOK' /\ RefsOK' /\ ApprovalsAreReal' /\ EndsOK' /\ OnePending'
    BY <1>1, RowsOKStep, RefsStep, RealStep, EndsStep, RowsStep
  <1>4. ReadersOK' /\ PollsOK'
    BY <1>1, ReadersStep, PollsStep DEF RowInv
  <1>5. QED BY <1>2, <1>3, <1>4 DEF IInv

(* The invariant holds throughout.                                         *)
THEOREM IInvariant == Spec => []IInv
  BY InitHolds, InvStep, PTL DEF Spec

-----------------------------------------------------------------------------
(* The theorems.                                                           *)

(* Every variable keeps its type.                                          *)
THEOREM TypeCorrect == Spec => []TypeOK
  <1>1. IInv => TypeOK
    BY DEF IInv
  <1>2. QED BY <1>1, IInvariant, PTL

(* Whatever order the reply, the events, the polls and the checkout come   *)
(* in, no approval is on record, and none attached to a sale, of a card    *)
(* that Helcim did not charge.                                             *)
THEOREM ApprovalsAreRealHolds == Spec => []ApprovalsAreReal
  <1>1. IInv => ApprovalsAreReal
    BY DEF IInv
  <1>2. QED BY <1>1, IInvariant, PTL

(* A paid purchase is taken for canceled only by the late cancel event of  *)
(* an earlier purchase on the same reader, whose card had been declined.   *)
THEOREM CancelTakenForAnotherHolds == Spec => []CancelTakenForAnother
  <1>1. IInv => CancelTakenForAnother
    <2> SUFFICES ASSUME IInv, NEW a \in Attempts, status[a] = "canceled",
                        Charged(a)
                 PROVE  \E b \in Attempts :
                            /\ b < a /\ terminal[b] = terminal[a]
                            /\ reads[b] # << >> /\ ~Charged(b)
      BY DEF CancelTakenForAnother
    <2>1. Earlier(a)
      BY DEF IInv, EndsOK, EndOK
    <2>2. QED BY <2>1 DEF Earlier
  <1>2. QED BY <1>1, IInvariant, PTL

(* An approval stays on record once the dispatch of its purchase has been   *)
(* answered: no poll, webhook, release or new purchase takes it back.      *)
THEOREM ApprovalFinalHolds == Spec => ApprovalFinal
  <1>1. IInv /\ [Next]_vars =>
          [\A a \in Attempts :
              status[a] = "approved" /\ call[a] = "done"
                  => status'[a] = "approved"]_vars
    <2> SUFFICES ASSUME IInv, [Next]_vars, NEW a \in Attempts,
                        status[a] = "approved", call[a] = "done"
                 PROVE  status'[a] = "approved"
      OBVIOUS
    <2>1. RowStep(a)
      BY RowsStep DEF IInv, RowInv
    <2>2. QED BY <2>1 DEF RowStep
  <1>2. QED BY <1>1, IInvariant, PTL DEF Spec, ApprovalFinal

(* A purchase starts only for a checkout that is open, and all of whose     *)
(* approvals have been attached, except one that was on record before the  *)
(* reply to its own dispatch came.                                         *)
THEOREM NoSecondPurchaseHolds == Spec => NoSecondPurchase
  <1>1. IInv /\ [Next]_vars =>
          [\A a \in Attempts, c \in Checkouts : Starts(a, c) =>
              /\ sale[c] = "open"
              /\ \A b \in confirmed :
                    checkout[b] = c => b \in attached \cup late]_vars
    <2> SUFFICES ASSUME IInv, [Next]_vars, NEW a \in Attempts,
                        NEW c \in Checkouts, Starts(a, c)
                 PROVE  /\ sale[c] = "open"
                        /\ \A b \in confirmed :
                              checkout[b] = c => b \in attached \cup late
      OBVIOUS
    <2>1. started \in Nat /\ a > started /\ RowStep(a) /\ checkout'[a] = c
      <3>1. started \in Nat /\ a \in Nat
        BY AttemptFacts DEF IInv, TypeOK
      <3>2. status[a] = "none" /\ checkout'[a] = c
        BY DEF Starts
      <3>3. ~ (a <= started)
        BY <3>2 DEF IInv, RowsOK
      <3>4. RowStep(a)
        BY RowsStep DEF IInv, RowInv
      <3>5. QED BY <3>1, <3>2, <3>3, <3>4
    <2>2. ~ (a > started')
      BY <2>1 DEF RowStep, Starts
    <2>3. PICK d \in Checkouts, t \in Terminals : StartPurchase(d, t)
      BY <2>1, <2>2, StartsAlone
    <2>4. a = started + 1 /\ started + 1 \in Attempts
      BY <2>1, <2>2, <2>3, AttemptFacts DEF StartPurchase
    <2>5. d = c
      BY <2>1, <2>3, <2>4 DEF StartPurchase, IInv, TypeOK
    <2>6. sale[c] = "open" /\ ~ApprovalWaiting(c)
      BY <2>3, <2>5 DEF StartPurchase
    <2>7. ASSUME NEW b \in confirmed, checkout[b] = c, b \notin late
          PROVE  b \in attached
      <3>1. b \in Attempts /\ status[b] = "approved"
        BY <2>7 DEF IInv, TypeOK, RefsOK, RefOK
      <3>2. QED BY <2>6, <2>7, <3>1 DEF ApprovalWaiting
    <2>8. QED BY <2>6, <2>7
  <1>2. QED BY <1>1, IInvariant, PTL DEF Spec, NoSecondPurchase

(* A checkout is recorded only together with all its approvals, with the    *)
(* same exception.                                                         *)
THEOREM SaleTakesApprovalsHolds == Spec => SaleTakesApprovals
  <1>1. IInv /\ [Next]_vars =>
          [\A c \in Checkouts : sale[c] = "open" /\ sale'[c] # "open" =>
              \A b \in confirmed :
                  checkout[b] = c => b \in attached' \cup late]_vars
    <2> SUFFICES ASSUME IInv, [Next]_vars, NEW c \in Checkouts,
                        sale[c] = "open", sale'[c] # "open",
                        NEW b \in confirmed, checkout[b] = c, b \notin late
                 PROVE  b \in attached'
      OBVIOUS
    <2>1. b \in Attempts /\ status[b] = "approved"
      BY DEF IInv, TypeOK, RefsOK, RefOK
    <2>2. ASSUME NEW a \in Attempts, NEW i \in Reads, CardTransactionEvent(a, i)
          PROVE  sale'[c] = sale[c]
      BY <2>2 DEF CardTransactionEvent, saleVars, IInv, TypeOK
    <2>3. ASSUME NEW a \in 1 .. started, NEW splits \in SUBSET (1 .. started),
                 NEW tender \in {"sold", "manual"},
                 Checkout(checkout[a], splits, tender)
          PROVE  b \in attached'
      <3>1. checkout[a] = c
        BY <2>3 DEF Checkout, IInv, TypeOK
      <3>2. ~Unattached(b, c, splits) /\ attached' = attached \cup splits
        BY <2>1, <2>3, <3>1 DEF Checkout
      <3>3. QED BY <2>1, <3>2 DEF Unattached
    <2>4. CASE sale' = sale
      BY <2>4
    <2>5. QED
      BY ZenonT(60), <2>2, <2>3, <2>4
      DEF Next, vars, saleVars, StartPurchase, Answered, Accepted, Rejected,
          Unknown, Crash, Age, Deliver, TerminalCancelEvent, LeaveReader,
          ReadCard, Poll, Store, ReleaseCanceled, ReleaseAsks, ReleaseRosError
  <1>2. QED BY <1>1, IInvariant, PTL DEF Spec, SaleTakesApprovals
-----------------------------------------------------------------------------
(* The event ledger, from which CardTerminal takes that an event acts on   *)
(* the attempts once (its variable heard): theorems about HelcimEvents,    *)
(* for any events, handlers and faults.                                    *)

(* As long as no lease of an event lapsed under a live handler, one        *)
(* handler at most has it, and the row is that handler's claim; after a    *)
(* commit that was reported as an error the row is already final.          *)
HolderOK ==
    \A e \in Events \ overran : \A h \in Handlers : event[h] = e =>
        /\ \A g \in Handlers : event[g] = e => g = h
        /\ pc[h] = "work" => row[e] = "received"
        /\ pc[h] = "failing" => row[e] \in {"received", "processed"}
        /\ row[e] = "received" => ~lapsed[e]

(* The row tells what the handlers of its event have committed.            *)
RecordOK ==
    \A e \in Events :
        /\ row[e] = "processed" => applied[e] > 0 /\ e \notin Ignored
        /\ row[e] = "ignored" => e \in Ignored
        /\ e \notin overran /\ row[e] = "processed" => applied[e] = 1
        /\ e \notin overran /\ row[e] # "processed" => applied[e] = 0

LedgerInv == LogTypeOK /\ HolderOK /\ RecordOK

(* No event has come.                                                      *)
LEMMA LedgerInit == LogInit => LedgerInv
<1> USE HelcimEventsAssumption
<1> QED BY DEF LogInit, LedgerInv, LogTypeOK, HolderOK, RecordOK, Final

(* Claim is the only way into work; who may call it is decided by the row. *)
LEMMA LedgerClaim ==
    ASSUME LedgerInv, NEW h \in Handlers, NEW e \in Events,
           Claimable(e), Claim(h, e)
    PROVE  LedgerInv'
<1>0. row[e] \in {"absent", "failed"} \/ (row[e] = "received" /\ lapsed[e])
  BY DEF Claimable
<1> USE HelcimEventsAssumption DEF LedgerInv
<1>1. LogTypeOK'
  BY DEF LogTypeOK, Claim
<1>2. HolderOK'
  <2>1. e \notin overran => \A g \in Handlers : event[g] # e
    BY <1>0 DEF HolderOK, LogTypeOK
  <2> QED BY <2>1 DEF HolderOK, LogTypeOK, Claim
<1>3. RecordOK'
  BY <1>0 DEF RecordOK, LogTypeOK, Claim
<1> QED BY <1>1, <1>2, <1>3

(* Every step keeps the invariant.                                         *)
LEMMA LedgerNext == LedgerInv /\ [LogNext]_logVars => LedgerInv'
<1> SUFFICES ASSUME LedgerInv, [LogNext]_logVars PROVE LedgerInv'
  OBVIOUS
<1>1. ASSUME NEW h \in Handlers, NEW e \in Events, DeliverEvent(h, e) PROVE LedgerInv'
  BY <1>1, LedgerClaim DEF DeliverEvent
<1>2. ASSUME NEW h \in Handlers, NEW e \in Events, Replay(h, e) PROVE LedgerInv'
  BY <1>2, LedgerClaim DEF Replay, Claimable
<1> USE HelcimEventsAssumption DEF LedgerInv, Final
<1>3. ASSUME NEW h \in Handlers, Process(h) PROVE LedgerInv'
  <2>1. event[h] \in Events /\ event[h] # NoEvent
    BY <1>3 DEF Process, LogTypeOK
  <2>2. LogTypeOK'
    BY <1>3, <2>1 DEF LogTypeOK, Process, Stop
  <2>3. HolderOK'
    BY <1>3, <2>1 DEF HolderOK, LogTypeOK, Process, Stop
  <2>4. RecordOK'
    <3>1. event[h] \notin overran => applied[event[h]] = 0
      BY <1>3, <2>1 DEF RecordOK, HolderOK, Process
    <3> QED BY <1>3, <2>1, <3>1 DEF RecordOK, LogTypeOK, Process
  <2> QED BY <2>2, <2>3, <2>4
<1>4. ASSUME NEW h \in Handlers, Ignore(h) PROVE LedgerInv'
  <2>1. event[h] \in Events /\ event[h] # NoEvent
    BY <1>4 DEF Ignore, LogTypeOK
  <2>2. LogTypeOK'
    BY <1>4, <2>1 DEF LogTypeOK, Ignore, Stop
  <2>3. HolderOK'
    BY <1>4, <2>1 DEF HolderOK, LogTypeOK, Ignore, Stop
  <2>4. RecordOK'
    <3>1. event[h] \notin overran => applied[event[h]] = 0
      BY <1>4, <2>1 DEF RecordOK, HolderOK, Ignore
    <3> QED BY <1>4, <2>1, <3>1 DEF RecordOK, LogTypeOK, Ignore
  <2> QED BY <2>2, <2>3, <2>4
<1>5. ASSUME NEW h \in Handlers, Fail(h) PROVE LedgerInv'
  BY <1>5 DEF Fail, LogTypeOK, HolderOK, RecordOK
<1>6. ASSUME NEW h \in Handlers, MarkFailed(h) PROVE LedgerInv'
  <2>1. event[h] \in Events /\ event[h] # NoEvent
    BY <1>6 DEF MarkFailed, LogTypeOK
  <2>2. LogTypeOK'
    BY <1>6, <2>1 DEF LogTypeOK, MarkFailed, Stop
  <2>3. HolderOK'
    BY <1>6, <2>1 DEF HolderOK, LogTypeOK, MarkFailed, Stop
  <2>4. RecordOK'
    BY <1>6, <2>1 DEF RecordOK, LogTypeOK, MarkFailed
  <2> QED BY <2>2, <2>3, <2>4
<1>7. ASSUME NEW h \in Handlers, Vanish(h) PROVE LedgerInv'
  BY <1>7 DEF Vanish, Stop, LogTypeOK, HolderOK, RecordOK
<1>8. ASSUME NEW e \in Events, LeaseLapses(e) PROVE LedgerInv'
  <2>1. LogTypeOK'
    BY <1>8 DEF LeaseLapses, LogTypeOK
  <2>2. HolderOK'
    <3>1. e \notin overran' => \A h \in Handlers : event[h] # e
      BY <1>8 DEF LeaseLapses, At, LogTypeOK
    <3> QED BY <1>8, <3>1 DEF LeaseLapses, HolderOK, LogTypeOK
  <2>3. RecordOK'
    BY <1>8 DEF LeaseLapses, RecordOK, LogTypeOK
  <2> QED BY <2>1, <2>2, <2>3
<1>9. CASE UNCHANGED logVars
  BY <1>9 DEF logVars, LogTypeOK, HolderOK, RecordOK
<1> QED
  BY <1>1, <1>2, <1>3, <1>4, <1>5, <1>6, <1>7, <1>8, <1>9 DEF LogNext

(* The invariant holds throughout.                                         *)
LEMMA LedgerInductive == LogSpec => []LedgerInv
BY LedgerInit, LedgerNext, PTL DEF LogSpec

(* The ledger's fields keep their types, and a handler is busy exactly     *)
(* when it has an event.                                                   *)
THEOREM LedgerTypeCorrect == LogSpec => []LogTypeOK
<1>1. LedgerInv => LogTypeOK
  BY DEF LedgerInv
<1> QED BY <1>1, LedgerInductive, PTL

(* However an event is delivered, replayed, timed out or abandoned, it     *)
(* acts on payments once, unless its lease lapsed under a live handler.    *)
THEOREM EventsActOnce == LogSpec => []ActsOnce
<1>1. LedgerInv => ActsOnce
  <2> SUFFICES ASSUME LedgerInv, NEW e \in Events
               PROVE  /\ row[e] = "processed" => applied[e] > 0
                      /\ row[e] \in {"absent", "failed"} /\ e \notin overran => applied[e] = 0
                      /\ e \notin overran => applied[e] <= 1
    BY DEF ActsOnce
  <2>1. applied[e] \in Nat
    BY DEF LedgerInv, LogTypeOK
  <2> QED BY <2>1 DEF LedgerInv, RecordOK
<1> QED BY <1>1, LedgerInductive, PTL

(* The conditional upsert is a lease: whoever is at work on an event holds *)
(* its row, alone.                                                         *)
THEOREM LeaseHeldAtWork == LogSpec => []WorkerHoldsRow
<1>1. LedgerInv => WorkerHoldsRow
  BY DEF LedgerInv, WorkerHoldsRow, HolderOK, LogTypeOK, At
<1> QED BY <1>1, LedgerInductive, PTL

(* No delivery, replay or late error moves a processed or ignored row,     *)
(* overrun leases included.                                                *)
THEOREM FinalEventsStay == LogSpec => FinalStays
<1>1. LedgerInv /\ [LogNext]_logVars
        => [\A e \in Events : row[e] \in Final => row'[e] = row[e]]_logVars
  <2> SUFFICES ASSUME LedgerInv, LogNext, NEW e \in Events, row[e] \in Final
               PROVE  row'[e] = row[e]
    OBVIOUS
  <2>1. ASSUME NEW h \in Handlers, NEW f \in Events, DeliverEvent(h, f) \/ Replay(h, f)
        PROVE  row'[e] = row[e]
    BY <2>1 DEF DeliverEvent, Replay, Claimable, Claim, LedgerInv, LogTypeOK, Final
  <2>2. ASSUME NEW h \in Handlers, Process(h) \/ Ignore(h) PROVE row'[e] = row[e]
    BY <2>2 DEF Process, Ignore, LedgerInv, LogTypeOK, RecordOK, Final
  <2>3. ASSUME NEW h \in Handlers, Fail(h) \/ MarkFailed(h) \/ Vanish(h)
        PROVE  row'[e] = row[e]
    BY <2>3 DEF Fail, MarkFailed, Vanish, LedgerInv, LogTypeOK, Final
  <2>4. ASSUME NEW f \in Events, LeaseLapses(f) PROVE row'[e] = row[e]
    BY <2>4 DEF LeaseLapses
  <2> QED BY <2>1, <2>2, <2>3, <2>4 DEF LogNext
<1> QED BY <1>1, LedgerInductive, PTL DEF LogSpec, FinalStays
=============================================================================

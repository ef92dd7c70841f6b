--------------------------- MODULE CardRefundProofs ---------------------------
(* Theorems about CardRefund, for any tenders, requests, charge and bound. *)
EXTENDS CardRefund, DataLemmas, FiniteSetTheorems

(* The request works on an attempt.                                        *)
Holding == {"recheck", "lookup", "send", "wait", "attach"}
Holds(h, a) == handler[h].at \in Holding /\ handler[h].attempt = a

(* The attempts of which Helcim has received, granted or declined one of   *)
(* the two requests.                                                       *)
Sent == {r[1] : r \in reached}
Granted == {r[1] : r \in moved}
Refused == {r[1] : r \in declined}

(* What a stored outcome says of Helcim.                                   *)
CodesOK ==
    \A a \in DOMAIN attempts :
        /\ attempts[a].status = "approved" => a \in Granted
        /\ attempts[a].code = "outcome_unknown" => a \in Sent
        /\ attempts[a].code = "before_call" => a \notin Sent
        /\ attempts[a].code = "before_call" => attempts[a].status = "failed"

(* A request that sends, or waits, works on an attempt Helcim may know; one *)
(* that has not sent it, on an attempt nobody sent.                        *)
HandlersOK ==
    \A h \in Handlers :
        LET a == handler[h].attempt IN
        /\ handler[h].at \in {"recheck", "lookup", "send"} =>
              (handler[h].dispatched <=> a \in Sent)
        /\ handler[h].at \in {"wait", "attach"} => a \in Sent
        /\ handler[h].at = "attach" => a \in Granted

(* An attempt Helcim has not received has one request at most, and none    *)
(* once it failed.                                                         *)
SoleSender ==
    \A a \in DOMAIN attempts \ Sent :
        /\ \A g, h \in Handlers : Holds(g, a) /\ Holds(h, a) => g = h
        /\ attempts[a].status = "failed" => \A h \in Handlers : ~ Holds(h, a)

(* The amount of an attempt is that of the tender that works on it.        *)
AmountsOK ==
    \A h \in Handlers :
        handler[h].at # "idle" =>
            /\ handler[h].key.amount = plan[handler[h].tender].amount
            /\ handler[h].at \in Holding =>
                  attempts[handler[h].attempt].key = handler[h].key

(* The charge is reserved for one attempt at a time.                       *)
Outstanding(a) ==
    Unresolved(a) /\ a \notin Refused \cup Attached \cup abandoned
OneUnresolved ==
    \A a, b \in DOMAIN attempts : Outstanding(a) /\ Outstanding(b) => a = b

(* A request that has no attempt yet has sent none.                        *)
Fresh ==
    \A h \in Handlers :
        handler[h].at \in {"reserve", "retry"} => ~handler[h].dispatched

Core ==
    /\ FailedMeansNoMoney
    /\ CodesOK /\ HandlersOK /\ SoleSender /\ AmountsOK /\ OneUnresolved
    /\ Fresh

IInv ==
    /\ TypeOK /\ RefundsCovered /\ AttachedIsReal
    /\ Core
-----------------------------------------------------------------------------
(* What the pieces of a step do.                                           *)

(* How the attempts Helcim knows of lie: both requests of an attempt are at *)
(* Helcim when one is declined and the other not.                          *)
LEMMA HelcimSets ==
    ASSUME TypeOK
    PROVE  /\ Granted \subseteq Open /\ Open \subseteq Sent
           /\ Refused \subseteq Sent /\ Sent \subseteq DOMAIN attempts
           /\ Sent \subseteq Open \cup Refused
           /\ Split \subseteq Refused /\ Open \cap Refused \subseteq Split
<1>1. /\ reached \subseteq (DOMAIN attempts) \X Actions
      /\ moved \subseteq reached /\ declined \subseteq reached \ moved
  BY DEF TypeOK
<1>2. /\ Granted \subseteq Open /\ Open \subseteq Sent
      /\ Refused \subseteq Sent /\ Sent \subseteq DOMAIN attempts
      /\ Sent \subseteq Open \cup Refused
  BY <1>1 DEF Granted, Open, Sent, Refused
<1>3. Split \subseteq Refused
  BY DEF Split, Refused
<1>4. ASSUME NEW a \in Open \cap Refused
      PROVE  a \in Split
  <2>1. PICK r \in reached \ declined, s \in declined : r[1] = a /\ s[1] = a
    BY <1>4 DEF Open, Refused
  <2>2. /\ r = << a, r[2] >> /\ s = << a, s[2] >>
        /\ r[2] \in Actions /\ s[2] \in Actions /\ r[2] # s[2]
    BY <1>1, <2>1
  <2>3. Actions = {r[2], s[2]}
    BY <2>2 DEF Actions
  <2> QED BY <1>1, <1>4, <2>1, <2>2, <2>3 DEF Split, Refused
<1> QED BY <1>2, <1>3, <1>4

(* A step Helcim does not take part in.                                    *)
LEMMA HelcimStays ==
    ASSUME UNCHANGED helcim
    PROVE  /\ Sent' = Sent /\ Granted' = Granted /\ Refused' = Refused
           /\ Open' = Open /\ Split' = Split
BY DEF helcim, Sent, Granted, Refused, Open, Split

(* What was returned with refunds is an amount.                            *)
LEMMA StagedIsNat ==
    ASSUME TypeOK
    PROVE  SumTo([i \in DOMAIN ledger |-> StagedOf(ledger[i])], Len(ledger)) \in Nat
<1>1. Len(ledger) \in Nat /\ DOMAIN ledger = 1 .. Len(ledger)
  BY DEF TypeOK
<1>2. \A i \in DOMAIN ledger : ledger[i].tender \in Tenders
  <2>1. \A i \in DOMAIN ledger : ledger[i] \in LedgerEntries
    BY DEF TypeOK
  <2> QED BY <2>1 DEF LedgerEntries
<1>3. \A t \in Tenders : plan[t].staged \in Nat
  BY CardRefundAssumption DEF TypeOK, Plans
<1> QED BY <1>1, <1>2, <1>3, SumNat DEF StagedOf

(* The sums over the ledger are amounts.                                   *)
LEMMA SumsAreNat ==
    ASSUME TypeOK
    PROVE  Returned \in Nat /\ Refunded \in Nat /\ CardRefunded \in Nat
<1>1. Len(ledger) \in Nat /\ DOMAIN ledger = 1 .. Len(ledger)
  BY DEF TypeOK
<1>2. \A i \in DOMAIN ledger :
         StagedOf(ledger[i]) \in Nat /\ AmountOf(ledger[i]) \in Nat
         /\ CardAmountOf(ledger[i]) \in Nat
  <2>1. \A i \in DOMAIN ledger : ledger[i].tender \in Tenders
    <3>1. \A i \in DOMAIN ledger : ledger[i] \in LedgerEntries
      BY DEF TypeOK
    <3> QED BY <3>1 DEF LedgerEntries
  <2>2. \A t \in Tenders : plan[t].staged \in Nat /\ plan[t].amount \in Nat
    BY CardRefundAssumption DEF TypeOK, Plans
  <2> QED BY <2>1, <2>2 DEF StagedOf, AmountOf, CardAmountOf
<1>3. Returned \in Nat
  <2>1. SumTo([i \in DOMAIN ledger |-> StagedOf(ledger[i])], Len(ledger)) \in Nat
    BY StagedIsNat
  <2>2. cancelled \in Nat
    BY CardRefundAssumption DEF TypeOK
  <2> QED BY <2>1, <2>2 DEF Returned
<1>4. Refunded \in Nat
  BY <1>1, <1>2, SumNat DEF Refunded
<1>5. CardRefunded \in Nat
  BY <1>1, <1>2, SumNat DEF CardRefunded
<1> QED BY <1>3, <1>4, <1>5

(* A commit adds its entry to the ledger and its amounts to the sums.      *)
LEMMA Recorded ==
    ASSUME TypeOK, NEW t \in Tenders, NEW a \in 0..MaxAttempts, Record(t, a),
           UNCHANGED plan
    PROVE  /\ ledger' \in Seq(LedgerEntries)
           /\ queue' \in [id: Nat, open: BOOLEAN]
           /\ DOMAIN ledger' = DOMAIN ledger \cup {Len(ledger) + 1}
           /\ Len(ledger) + 1 \notin DOMAIN ledger
           /\ \A i \in DOMAIN ledger : ledger'[i] = ledger[i]
           /\ ledger'[Len(ledger) + 1].tender = t
           /\ ledger'[Len(ledger) + 1].attempt = a
           /\ Returned' = Returned + plan[t].staged
           /\ Refunded' = Refunded + plan[t].amount
           /\ CardRefunded' = CardRefunded + (IF a = 0 THEN 0 ELSE plan[t].amount)
           /\ Attached' = Attached \cup ({a} \ {0})
<1> DEFINE n == Len(ledger)
           entry == [tender |-> t, attempt |-> a]
<1>1. n \in Nat /\ DOMAIN ledger = 1 .. n
  BY DEF TypeOK
<1>2. /\ ledger' = Append(ledger, entry)
      /\ entry \in LedgerEntries
  BY DEF Record, LedgerEntries
<1>3. /\ ledger' \in Seq(LedgerEntries)
      /\ Len(ledger') = n + 1 /\ DOMAIN ledger' = 1 .. n + 1
      /\ \A i \in 1 .. n : ledger'[i] = ledger[i]
      /\ ledger'[n + 1] = entry
  <2> HIDE DEF entry
  <2> QED BY <1>1, <1>2 DEF TypeOK
<1>4. queue' \in [id: Nat, open: BOOLEAN]
  <2>1. queue.id \in Nat
    BY DEF TypeOK
  <2>2. (plan[t].amount < Credit(t)) \in BOOLEAN
    OBVIOUS
  <2> QED BY <2>1, <2>2 DEF Record
<1>5. Returned' = Returned + plan[t].staged
  <2> DEFINE F == [i \in DOMAIN ledger |-> StagedOf(ledger[i])]
             G == [i \in DOMAIN ledger' |-> StagedOf(ledger'[i])]
  <2>1. Returned = cancelled + SumTo(F, n) /\ Returned' = cancelled + SumTo(G, n + 1)
    BY <1>3 DEF Returned, StagedOf, Record
  <2>2. \A i \in 1 .. n : F[i] = G[i]
    BY <1>1, <1>3
  <2>3. G[n + 1] = plan[t].staged
    BY <1>1, <1>3 DEF StagedOf
  <2>4. /\ \A i \in 1 .. n : F[i] \in Nat
        /\ plan[t].staged \in Nat /\ cancelled \in Nat
    <3>1. \A i \in 1 .. n : ledger[i].tender \in Tenders
      <4>1. \A i \in 1 .. n : ledger[i] \in LedgerEntries
        BY <1>1 DEF TypeOK
      <4> QED BY <4>1 DEF LedgerEntries
    <3>2. \A u \in Tenders : plan[u].staged \in Nat
      BY CardRefundAssumption DEF TypeOK, Plans
    <3> QED BY <1>1, <3>1, <3>2, CardRefundAssumption DEF StagedOf, TypeOK
  <2> HIDE DEF F, G
  <2>5. SumTo(G, n + 1) = SumTo(F, n) + plan[t].staged /\ SumTo(F, n) \in Nat
    BY <1>1, <2>2, <2>3, <2>4, SumExtends, SumNat
  <2> QED BY <2>1, <2>4, <2>5
<1>6. Refunded' = Refunded + plan[t].amount
  <2> DEFINE F == [i \in DOMAIN ledger |-> AmountOf(ledger[i])]
             G == [i \in DOMAIN ledger' |-> AmountOf(ledger'[i])]
  <2>1. Refunded = SumTo(F, n) /\ Refunded' = SumTo(G, n + 1)
    BY <1>3 DEF Refunded, AmountOf
  <2>2. \A i \in 1 .. n : F[i] = G[i]
    BY <1>1, <1>3
  <2>3. G[n + 1] = plan[t].amount
    BY <1>1, <1>3 DEF AmountOf
  <2> HIDE DEF F, G
  <2> QED BY <1>1, <2>1, <2>2, <2>3, SumExtends
<1>7. CardRefunded' = CardRefunded + (IF a = 0 THEN 0 ELSE plan[t].amount)
  <2> DEFINE F == [i \in DOMAIN ledger |-> CardAmountOf(ledger[i])]
             G == [i \in DOMAIN ledger' |-> CardAmountOf(ledger'[i])]
  <2>1. CardRefunded = SumTo(F, n) /\ CardRefunded' = SumTo(G, n + 1)
    BY <1>3 DEF CardRefunded, CardAmountOf, AmountOf
  <2>2. \A i \in 1 .. n : F[i] = G[i]
    BY <1>1, <1>3
  <2>3. G[n + 1] = IF a = 0 THEN 0 ELSE plan[t].amount
    BY <1>1, <1>3 DEF CardAmountOf, AmountOf
  <2> HIDE DEF F, G
  <2> QED BY <1>1, <2>1, <2>2, <2>3, SumExtends
<1>8. Attached' = Attached \cup ({a} \ {0})
  <2>1. \A i \in DOMAIN ledger' :
           ledger'[i].attempt = IF i = n + 1 THEN a ELSE ledger[i].attempt
    BY <1>1, <1>3
  <2>2. DOMAIN ledger' = DOMAIN ledger \cup {n + 1} /\ n + 1 \notin DOMAIN ledger
    BY <1>1, <1>3
  <2> HIDE DEF n
  <2> QED BY <2>1, <2>2 DEF Attached
<1> QED BY <1>1, <1>3, <1>4, <1>5, <1>6, <1>7, <1>8

(* An outcome stored by id leaves the rest of the row and the other rows.  *)
LEMMA Marked ==
    ASSUME TypeOK, NEW a \in DOMAIN attempts,
           NEW st \in {"pending", "failed", "approved"},
           NEW cd \in {"none", "outcome_unknown", "before_call", "request_rejected",
                       "declined", "mismatch"},
           Mark(a, st, cd)
    PROVE  /\ attempts' \in Seq(AttemptRecords) /\ Len(attempts') = Len(attempts)
           /\ DOMAIN attempts' = DOMAIN attempts
           /\ \A b \in DOMAIN attempts :
                 /\ attempts'[b].status = IF b = a THEN st ELSE attempts[b].status
                 /\ attempts'[b].code = IF b = a THEN cd ELSE attempts[b].code
                 /\ attempts'[b].key = attempts[b].key
<1> DEFINE new == [attempts[a] EXCEPT !.status = st, !.code = cd]
<1>1. attempts[a] \in AttemptRecords
  BY DEF TypeOK
<1>2. /\ new \in AttemptRecords
      /\ new.status = st /\ new.code = cd /\ new.key = attempts[a].key
  BY <1>1 DEF AttemptRecords
<1>3. attempts' = [attempts EXCEPT ![a] = new]
  BY DEF Mark
<1> HIDE DEF new
<1>4. /\ attempts' \in Seq(AttemptRecords) /\ Len(attempts') = Len(attempts)
      /\ DOMAIN attempts' = DOMAIN attempts
      /\ \A b \in DOMAIN attempts : attempts'[b] = IF b = a THEN new ELSE attempts[b]
  <2>1. attempts \in Seq(AttemptRecords) /\ new \in AttemptRecords
    BY <1>2 DEF TypeOK
  <2> QED BY <1>3, <2>1, SeqUpdate
<1> QED BY <1>2, <1>4

(* A reservation adds a pending attempt with the key of its request.       *)
LEMMA Inserted ==
    ASSUME TypeOK, NEW h \in Handlers, NEW isBase \in BOOLEAN,
           handler[h].at \in {"reserve", "retry"}, Insert(h, isBase)
    PROVE  /\ attempts' \in Seq(AttemptRecords) /\ Len(attempts') <= MaxAttempts
           /\ DOMAIN attempts' = DOMAIN attempts \cup {Len(attempts) + 1}
           /\ Len(attempts) + 1 \notin DOMAIN attempts
           /\ \A b \in DOMAIN attempts : attempts'[b] = attempts[b]
           /\ attempts'[Len(attempts) + 1].status = "pending"
           /\ attempts'[Len(attempts) + 1].code = "none"
           /\ attempts'[Len(attempts) + 1].key = handler[h].key
<1> DEFINE new == [tender |-> handler[h].tender, key |-> handler[h].key,
                   base |-> isBase, status |-> "pending", code |-> "none",
                   fresh |-> TRUE]
<1>1. attempts' = Append(attempts, new) /\ Len(attempts) < MaxAttempts
  BY DEF Insert
<1>2. handler[h] \in HandlerRecords
  BY DEF TypeOK, Idle
<1>3. new \in AttemptRecords
  BY <1>2 DEF HandlerRecords, AttemptRecords
<1>4. new.status = "pending" /\ new.code = "none" /\ new.key = handler[h].key
  OBVIOUS
<1> HIDE DEF new
<1>5. Len(attempts) \in Nat /\ MaxAttempts \in Nat
  BY CardRefundAssumption DEF TypeOK
<1> QED BY <1>1, <1>3, <1>4, <1>5 DEF TypeOK

(* A request at work holds a full record.                                  *)
LEMMA Busy ==
    ASSUME TypeOK, NEW h \in Handlers, handler[h].at # "idle"
    PROVE  handler[h] \in HandlerRecords
BY DEF TypeOK, Idle

(* The request's record alone is written.                                  *)
LEMMA HandlerSet ==
    ASSUME TypeOK, NEW h \in Handlers, NEW new \in HandlerRecords \cup {Idle},
           handler' = [handler EXCEPT ![h] = new]
    PROVE  /\ handler' \in [Handlers -> HandlerRecords \cup {Idle}]
           /\ \A g \in Handlers : handler'[g] = IF g = h THEN new ELSE handler[g]
BY DEF TypeOK

(* A request that ends lets go of everything it held.                      *)
LEMMA Released ==
    ASSUME TypeOK, NEW h \in Handlers, Release(h)
    PROVE  /\ handler' \in [Handlers -> HandlerRecords \cup {Idle}]
           /\ \A g \in Handlers : handler'[g] = IF g = h THEN Idle ELSE handler[g]
           /\ Idle.at = "idle"
BY HandlerSet DEF Release, Idle
-----------------------------------------------------------------------------
(* Types.                                                                  *)

(* The part of TypeOK that speaks of the attempt a request works on.       *)
Attempting ==
    \A h \in Handlers :
        handler[h].at \in Holding => handler[h].attempt \in DOMAIN attempts

(* A request keeps its attempt while the table only grows.                 *)
Kept(h) ==
    \/ handler'[h].at \notin Holding
    \/ handler[h].at \in Holding /\ handler'[h].attempt = handler[h].attempt
    \/ handler'[h].attempt \in DOMAIN attempts'

(* Requests keep to attempts of the table as long as it only grows.        *)
LEMMA AttemptingStays ==
    ASSUME TypeOK, DOMAIN attempts \subseteq DOMAIN attempts', \A h \in Handlers : Kept(h)
    PROVE  Attempting'
BY DEF TypeOK, Attempting, Kept, Holding

(* The key a tender's first attempt gets carries the planned amount.       *)
LEMMA BaseKeyType ==
    ASSUME TypeOK, RefundsCovered, NEW t \in Tenders
    PROVE  BaseKey(t) \in Keys /\ BaseKey(t).amount = plan[t].amount
<1>1. CardRefunded \in 0..Charge
  BY SumsAreNat, CardRefundAssumption DEF RefundsCovered
<1>2. plan[t].amount \in 1..Charge
  BY DEF TypeOK, Plans
<1>3. (IF queue.open THEN queue.id ELSE 0) \in Nat
  BY DEF TypeOK
<1> QED BY <1>1, <1>2, <1>3 DEF BaseKey, Keys

(* The commit of a refund whose request, if any, ends.                     *)
LEMMA RecordType ==
    ASSUME TypeOK, NEW t \in Tenders, NEW a \in 0..MaxAttempts, Record(t, a),
           handler' = handler \/ \E h \in Handlers : Release(h),
           UNCHANGED << plan, attempts, helcim, abandoned >>
    PROVE  TypeOK'
<1>1. ledger' \in Seq(LedgerEntries) /\ queue' \in [id: Nat, open: BOOLEAN]
  BY Recorded
<1>2. /\ handler' \in [Handlers -> HandlerRecords \cup {Idle}]
      /\ \A h \in Handlers : Kept(h)
  <2>1. CASE handler' = handler
    BY <2>1 DEF TypeOK, Kept
  <2>2. CASE \E h \in Handlers : Release(h)
    BY <2>2, Released DEF Kept, Holding
  <2> QED BY <2>1, <2>2
<1>3. Attempting'
  BY <1>2, AttemptingStays
<1>4. cancelled' = cancelled
  BY DEF Record
<1> QED BY <1>1, <1>2, <1>3, <1>4 DEF helcim, TypeOK, Attempting, Holding

(* The outcome of an attempt is stored and its request ends.               *)
LEMMA MarkType ==
    ASSUME TypeOK, NEW h \in Handlers, NEW a \in DOMAIN attempts,
           UNCHANGED attempts \/ \E st \in {"pending", "failed", "approved"},
               cd \in {"none", "outcome_unknown", "before_call", "request_rejected",
                       "declined", "mismatch"} : Mark(a, st, cd),
           Release(h), UNCHANGED << plan, books, helcim >>,
           abandoned' \subseteq DOMAIN attempts
    PROVE  TypeOK'
<1>1. /\ attempts' \in Seq(AttemptRecords) /\ Len(attempts') = Len(attempts)
      /\ DOMAIN attempts' = DOMAIN attempts
  BY Marked DEF TypeOK
<1>2. /\ handler' \in [Handlers -> HandlerRecords \cup {Idle}]
      /\ \A g \in Handlers : Kept(g)
  BY Released DEF Kept, Holding
<1>3. Attempting'
  BY <1>1, <1>2, AttemptingStays
<1> QED BY <1>1, <1>2, <1>3 DEF helcim, books, TypeOK, Attempting, Holding

(* Only the request's own record changes.                                  *)
LEMMA HandlerType ==
    ASSUME TypeOK, NEW h \in Handlers, NEW new \in HandlerRecords \cup {Idle},
           handler' = [handler EXCEPT ![h] = new],
           new.at \in Holding => new.attempt \in DOMAIN attempts,
           UNCHANGED << plan, books, attempts, moved, declined, batch, abandoned >>,
           \/ reached' = reached
           \/ reached' = reached \cup {<< new.attempt, new.action >>} /\ new.at \in Holding
              /\ new.action \in Actions
    PROVE  TypeOK'
<1>1. /\ handler' \in [Handlers -> HandlerRecords \cup {Idle}]
      /\ \A g \in Handlers : Kept(g)
  <2>1. /\ handler' \in [Handlers -> HandlerRecords \cup {Idle}]
        /\ \A g \in Handlers : handler'[g] = IF g = h THEN new ELSE handler[g]
    BY HandlerSet
  <2> QED BY <2>1 DEF Kept
<1>2. Attempting'
  BY <1>1, AttemptingStays
<1>3. reached' \subseteq (DOMAIN attempts) \X Actions /\ reached \subseteq reached'
  BY DEF TypeOK
<1> QED BY <1>1, <1>2, <1>3 DEF books, TypeOK, Attempting, Holding

(* A reservation.                                                          *)
LEMMA InsertType ==
    ASSUME TypeOK, NEW h \in Handlers, NEW isBase \in BOOLEAN,
           handler[h].at \in {"reserve", "retry"}, Insert(h, isBase),
           UNCHANGED << plan, books, helcim, abandoned >>
    PROVE  TypeOK'
<1> DEFINE new == [handler[h] EXCEPT !.at = "recheck", !.attempt = Len(attempts) + 1]
<1>1. /\ attempts' \in Seq(AttemptRecords) /\ Len(attempts') <= MaxAttempts
      /\ DOMAIN attempts' = DOMAIN attempts \cup {Len(attempts) + 1}
  BY Inserted
<1>2. handler' = [handler EXCEPT ![h] = new]
  BY DEF Insert
<1>3. /\ new \in HandlerRecords
      /\ new.attempt = Len(attempts) + 1
  <2>1. handler[h] \in HandlerRecords
    BY Busy
  <2>2. Len(attempts) + 1 \in 0..MaxAttempts
    BY CardRefundAssumption DEF Insert, TypeOK
  <2> QED BY <2>1, <2>2 DEF HandlerRecords
<1> HIDE DEF new
<1>4. /\ handler' \in [Handlers -> HandlerRecords \cup {Idle}]
      /\ \A g \in Handlers : Kept(g)
  <2>1. /\ handler' \in [Handlers -> HandlerRecords \cup {Idle}]
        /\ \A g \in Handlers : handler'[g] = IF g = h THEN new ELSE handler[g]
    BY <1>2, <1>3, HandlerSet
  <2> QED BY <1>1, <1>3, <2>1 DEF Kept
<1>5. Attempting'
  BY <1>1, <1>4, AttemptingStays
<1> QED BY <1>1, <1>4, <1>5 DEF helcim, books, TypeOK, Attempting, Holding

(* A record with one field written is one of the same kind.                *)
LEMMA HandlerFields ==
    ASSUME NEW r \in HandlerRecords
    PROVE  /\ \A at \in {"reserve", "retry", "recheck", "lookup", "send", "wait", "attach"} :
                 /\ [r EXCEPT !.at = at] \in HandlerRecords
                 /\ [r EXCEPT !.at = at].at = at
                 /\ [r EXCEPT !.at = at].attempt = r.attempt
                 /\ [r EXCEPT !.at = at].tender = r.tender
                 /\ [r EXCEPT !.at = at].key = r.key
                 /\ [r EXCEPT !.at = at].dispatched = r.dispatched
                 /\ [r EXCEPT !.at = at].action = r.action
BY DEF HandlerRecords

(* The record ReserveSame leaves.                                          *)
Resumed(h, a) ==
    [handler[h] EXCEPT !.at = "recheck", !.attempt = a,
                       !.dispatched = attempts[a].code # "before_call"]

(* The three fields that resuming an attempt writes, as one record.        *)
LEMMA ResumedIs ==
    ASSUME NEW h, NEW a
    PROVE  [handler EXCEPT ![h].at = "recheck", ![h].attempt = a,
                           ![h].dispatched = attempts[a].code # "before_call"]
           = [handler EXCEPT ![h] = Resumed(h, a)]
BY DEF Resumed

(* A request that resumes an attempt goes on under its own tender and key. *)
LEMMA ResumedRecord ==
    ASSUME TypeOK, NEW h \in Handlers, handler[h].at = "reserve",
           NEW a \in DOMAIN attempts
    PROVE  /\ Resumed(h, a) \in HandlerRecords
           /\ Resumed(h, a).at = "recheck" /\ Resumed(h, a).attempt = a
           /\ Resumed(h, a).tender = handler[h].tender /\ Resumed(h, a).key = handler[h].key
           /\ Resumed(h, a).dispatched <=> attempts[a].code # "before_call"
<1>1. handler[h] \in HandlerRecords
  BY Busy
<1>2. a \in 0..MaxAttempts
  BY CardRefundAssumption DEF TypeOK
<1>3. (attempts[a].code # "before_call") \in BOOLEAN
  OBVIOUS
<1> QED BY <1>1, <1>2, <1>3 DEF Resumed, HandlerRecords

(* The record BeginCardRefund leaves.                                      *)
Begun(t) ==
    [at |-> "reserve", tender |-> t, key |-> BaseKey(t), attempt |-> 0,
     action |-> "refund", dispatched |-> FALSE]

(* A request begins with the amount its tender was planned for.            *)
LEMMA BegunRecord ==
    ASSUME TypeOK, RefundsCovered, NEW t \in Tenders
    PROVE  /\ Begun(t) \in HandlerRecords /\ Begun(t).at = "reserve"
           /\ Begun(t).key.amount = plan[Begun(t).tender].amount
<1>1. BaseKey(t) \in Keys /\ BaseKey(t).amount = plan[t].amount
  BY BaseKeyType
<1>2. 0 \in 0..MaxAttempts /\ "refund" \in Actions
  BY CardRefundAssumption DEF Actions
<1> QED BY <1>1, <1>2 DEF Begun, HandlerRecords

(* What the lookup decides is written with the step to the call.           *)
LEMMA LookupChooses ==
    ASSUME NEW h \in Handlers, Lookup(h)
    PROVE  \E action \in Actions :
              handler' = [handler EXCEPT ![h] =
                             [handler[h] EXCEPT !.at = "send", !.action = action]]
<1>1. ReturnAction(handler[h].key) \subseteq Actions
  BY DEF ReturnAction, Actions
<1> QED BY <1>1 DEF Lookup

(* The record the lookup leaves.                                           *)
LEMMA ChosenRecord ==
    ASSUME NEW r \in HandlerRecords, NEW action \in Actions
    PROVE  LET new == [r EXCEPT !.at = "send", !.action = action]
           IN  /\ new \in HandlerRecords /\ new.at = "send"
               /\ new.attempt = r.attempt /\ new.key = r.key
               /\ new.tender = r.tender /\ new.dispatched = r.dispatched
BY DEF HandlerRecords

(* Every step keeps the types.                                             *)
LEMMA TypeStep == TypeOK /\ RefundsCovered /\ [Next]_vars => TypeOK'
<1> SUFFICES ASSUME TypeOK, RefundsCovered, [Next]_vars PROVE TypeOK'
  OBVIOUS
<1>0. /\ DOMAIN attempts \subseteq 1..MaxAttempts /\ 0 \in 0..MaxAttempts
      /\ \A h \in Handlers : handler[h].at # "idle" => handler[h] \in HandlerRecords
      /\ \A h \in Handlers : handler[h].at # "idle" => handler[h].tender \in Tenders
      /\ \A h \in Handlers :
            handler[h].at \in Holding => handler[h].attempt \in DOMAIN attempts
      /\ abandoned \subseteq DOMAIN attempts
  BY Busy, CardRefundAssumption DEF TypeOK, Holding, HandlerRecords
<1>1. ASSUME NEW t \in Tenders, RefundAtOnce(t) PROVE TypeOK'
  BY <1>0, <1>1, RecordType DEF RefundAtOnce
<1>2. ASSUME NEW t \in Tenders, Restore(t) PROVE TypeOK'
  <2>1. PICK a \in DOMAIN attempts : Record(t, a)
    BY <1>2 DEF Restore, WithKey
  <2> QED BY <1>0, <1>2, <2>1, RecordType DEF Restore
<1>3. ASSUME NEW h \in Handlers, NEW t \in Tenders, BeginCardRefund(h, t) PROVE TypeOK'
  <2>1. handler' = [handler EXCEPT ![h] = Begun(t)]
    BY <1>3 DEF BeginCardRefund, Begun
  <2>2. UNCHANGED << plan, books, attempts, helcim, abandoned >>
    BY <1>3 DEF BeginCardRefund
  <2> QED BY <2>1, <2>2, BegunRecord, HandlerType DEF Holding, helcim
<1>4. ASSUME NEW h \in Handlers, ReserveNew(h) \/ ReserveRetry(h) PROVE TypeOK'
  BY <1>4, InsertType DEF ReserveNew, ReserveRetry
<1>5. ASSUME NEW h \in Handlers, ReserveSame(h) PROVE TypeOK'
  <2>1. PICK a \in DOMAIN attempts :
           /\ \/ Mark(a, "pending", "none")
              \/ UNCHANGED attempts
           /\ handler' = [handler EXCEPT ![h] = Resumed(h, a)]
    BY ZenonT(60), <1>5, ResumedIs DEF ReserveSame, WithKey
  <2>2. /\ attempts' \in Seq(AttemptRecords) /\ Len(attempts') = Len(attempts)
        /\ DOMAIN attempts' = DOMAIN attempts
    BY <2>1, Marked DEF TypeOK
  <2>3. /\ Resumed(h, a) \in HandlerRecords
        /\ Resumed(h, a).at = "recheck" /\ Resumed(h, a).attempt = a
    BY <1>5, ResumedRecord DEF ReserveSame
  <2>4. /\ handler' \in [Handlers -> HandlerRecords \cup {Idle}]
        /\ \A g \in Handlers : handler'[g] = IF g = h THEN Resumed(h, a) ELSE handler[g]
    BY <2>1, <2>3, HandlerSet
  <2>5. \A g \in Handlers : Kept(g)
    BY <2>2, <2>3, <2>4 DEF Kept
  <2>6. Attempting'
    BY <2>2, <2>5, AttemptingStays
  <2>7. UNCHANGED << plan, books, helcim, abandoned >>
    BY <1>5 DEF ReserveSame
  <2> QED BY <2>2, <2>4, <2>6, <2>7 DEF TypeOK, Attempting, Holding, helcim, books
<1>6. ASSUME NEW h \in Handlers, ReserveAfterFailure(h) PROVE TypeOK'
  <2>1. /\ handler' = [handler EXCEPT ![h] = [handler[h] EXCEPT !.at = "retry"]]
        /\ handler[h] \in HandlerRecords
        /\ UNCHANGED << plan, books, attempts, helcim, abandoned >>
    BY <1>0, <1>6 DEF ReserveAfterFailure
  <2> QED BY <2>1, HandlerFields, HandlerType DEF Holding, helcim
<1>7. ASSUME NEW h \in Handlers, Recheck(h) PROVE TypeOK'
  <2>1. /\ handler' = [handler EXCEPT ![h] = [handler[h] EXCEPT !.at = "lookup"]]
        /\ handler[h] \in HandlerRecords /\ handler[h].attempt \in DOMAIN attempts
        /\ UNCHANGED << plan, books, attempts, helcim, abandoned >>
    BY <1>0, <1>7 DEF Recheck, Holding
  <2> QED BY <2>1, HandlerFields, HandlerType DEF Holding, helcim
<1>8. ASSUME NEW h \in Handlers, RecheckApproved(h) \/ Attach(h) PROVE TypeOK'
  <2>1. handler[h].tender \in Tenders /\ handler[h].attempt \in 0..MaxAttempts
    BY <1>0, <1>8 DEF RecheckApproved, Attach, Holding
  <2> QED BY <1>8, <2>1, RecordType DEF RecheckApproved, Attach
<1>9. ASSUME NEW h \in Handlers, RecheckFails(h) \/ LookupFails(h) PROVE TypeOK'
  <2>1. handler[h].attempt \in DOMAIN attempts
    BY <1>0, <1>9 DEF RecheckFails, LookupFails, Holding
  <2> QED BY <1>0, <1>9, <2>1, MarkType DEF RecheckFails, LookupFails, FailBeforeCall
<1>10. ASSUME NEW h \in Handlers, Send(h) PROVE TypeOK'
  <2>1. /\ handler' = [handler EXCEPT ![h] = [handler[h] EXCEPT !.at = "wait"]]
        /\ handler[h] \in HandlerRecords /\ handler[h].attempt \in DOMAIN attempts
        /\ UNCHANGED << plan, books, attempts, moved, declined, batch, abandoned >>
        /\ reached' = reached \cup {<< handler[h].attempt, handler[h].action >>}
    BY <1>0, <1>10 DEF Send, Request, Holding
  <2>2. handler[h].action \in Actions
    BY <2>1 DEF HandlerRecords
  <2> QED BY <2>1, <2>2, HandlerFields, HandlerType DEF Holding
<1>11. ASSUME NEW h \in Handlers, SendRejected(h) PROVE TypeOK'
  <2>1. handler[h].attempt \in DOMAIN attempts
    BY <1>0, <1>11 DEF SendRejected, Holding
  <2> QED BY <1>0, <1>11, <2>1, MarkType DEF SendRejected
<1>12. ASSUME NEW r \in reached, HelcimRefunds(r) \/ HelcimDeclines(r) PROVE TypeOK'
  BY <1>12 DEF HelcimRefunds, HelcimDeclines, TypeOK, books
<1>13. ASSUME NEW h \in Handlers, AnswerDeclined(h) \/ NoAnswer(h) PROVE TypeOK'
  <2>1. handler[h].attempt \in DOMAIN attempts
    BY <1>0, <1>13 DEF AnswerDeclined, NoAnswer, Holding
  <2> QED BY <1>0, <1>13, <2>1, MarkType DEF AnswerDeclined, NoAnswer
<1>14. ASSUME NEW h \in Handlers, AnswerApproved(h) PROVE TypeOK'
  <2>1. PICK a \in DOMAIN attempts : a = handler[h].attempt
    BY <1>0, <1>14 DEF AnswerApproved, Holding
  <2>2. CASE Release(h)
    BY <1>0, <1>14, <2>1, <2>2, MarkType DEF AnswerApproved
  <2>3. CASE ~ Release(h)
    <3>1. /\ handler' = [handler EXCEPT ![h] = [handler[h] EXCEPT !.at = "attach"]]
          /\ handler[h] \in HandlerRecords
          /\ Mark(a, "approved", "none")
          /\ UNCHANGED << plan, books, helcim, abandoned >>
      BY <1>0, <1>14, <2>1, <2>3 DEF AnswerApproved
    <3>2. /\ attempts' \in Seq(AttemptRecords) /\ Len(attempts') = Len(attempts)
          /\ DOMAIN attempts' = DOMAIN attempts
      BY <3>1, Marked
    <3>3. /\ handler' \in [Handlers -> HandlerRecords \cup {Idle}]
          /\ \A g \in Handlers :
                handler'[g] = IF g = h THEN [handler[h] EXCEPT !.at = "attach"] ELSE handler[g]
      BY <3>1, HandlerFields, HandlerSet
    <3>4. \A g \in Handlers : Kept(g)
      <4>1. handler'[h].attempt = a
        BY <2>1, <3>1, <3>3, HandlerFields
      <4>2. \A g \in Handlers : g # h => handler'[g] = handler[g]
        BY <3>3
      <4> QED BY <3>2, <4>1, <4>2 DEF Kept
    <3>5. Attempting'
      BY <3>2, <3>4, AttemptingStays
    <3> QED BY <3>1, <3>2, <3>3, <3>5 DEF TypeOK, Attempting, Holding, helcim, books
  <2> QED BY <2>2, <2>3
<1>15. ASSUME NEW h \in Handlers, Drop(h) PROVE TypeOK'
  <2>1. handler' = [handler EXCEPT ![h] = Idle] /\ Idle.at \notin Holding
        /\ UNCHANGED << plan, books, attempts, helcim, abandoned >>
    BY <1>15 DEF Drop, Release, Idle, Holding
  <2> QED BY <2>1, HandlerType DEF helcim
<1>17. ASSUME NEW a \in DOMAIN attempts, WindowCloses(a) PROVE TypeOK'
  <2> DEFINE new == [attempts[a] EXCEPT !.fresh = FALSE]
  <2>1. new \in AttemptRecords /\ attempts \in Seq(AttemptRecords)
    <3>1. attempts[a] \in AttemptRecords /\ attempts \in Seq(AttemptRecords)
      BY DEF TypeOK
    <3> QED BY <3>1 DEF AttemptRecords
  <2>2. attempts' = [attempts EXCEPT ![a] = new]
        /\ UNCHANGED << plan, books, handler, helcim, abandoned >>
    BY <1>17 DEF WindowCloses
  <2> HIDE DEF new
  <2>3. /\ attempts' \in Seq(AttemptRecords) /\ Len(attempts') = Len(attempts)
        /\ DOMAIN attempts' = DOMAIN attempts
    BY <2>1, <2>2, SeqUpdate
  <2> QED BY <2>2, <2>3 DEF TypeOK, helcim, books
<1>18. CASE UNCHANGED vars
  BY <1>18 DEF vars, helcim, books, TypeOK
<1>19. ASSUME BatchCloses PROVE TypeOK'
  BY <1>19 DEF BatchCloses, TypeOK, books
<1>20. ASSUME NEW value \in Cancellations, CancelItems(value) PROVE TypeOK'
  <2>1. cancelled + value <= Charge /\ cancelled + value \in Nat
    <3>1. SumTo([i \in DOMAIN ledger |-> StagedOf(ledger[i])], Len(ledger)) \in Nat
      BY StagedIsNat
    <3> QED BY <1>20, <3>1, CardRefundAssumption DEF CancelItems, Returned, TypeOK
  <2>2. cancelled' \in 0..Charge /\ queue' \in [id: Nat, open: BOOLEAN]
    BY <1>20, <2>1, CardRefundAssumption DEF CancelItems, TypeOK
  <2> QED BY <1>20, <2>2 DEF CancelItems, TypeOK, helcim
<1>21. ASSUME NEW h \in Handlers, Lookup(h) PROVE TypeOK'
  <2>1. PICK action \in Actions :
           handler' = [handler EXCEPT ![h] =
                          [handler[h] EXCEPT !.at = "send", !.action = action]]
    BY <1>21, LookupChooses
  <2>2. /\ handler[h] \in HandlerRecords /\ handler[h].attempt \in DOMAIN attempts
        /\ UNCHANGED << plan, books, attempts, helcim, abandoned >>
    BY <1>0, <1>21 DEF Lookup, Holding
  <2> QED BY <2>1, <2>2, ChosenRecord, HandlerType DEF Holding, helcim
<1> QED BY <1>1, <1>2, <1>3, <1>4, <1>5, <1>6, <1>7, <1>8, <1>9, <1>10, <1>11, <1>12,
           <1>13, <1>14, <1>15, <1>17, <1>18, <1>19, <1>20, <1>21 DEF Next
-----------------------------------------------------------------------------
(* What the requests hold and what is stored of Helcim.                    *)

(* A request ends, is begun or goes on to ask for its attempt.             *)
Moves(g) ==
    \/ handler'[g].at = "idle"
    \/ /\ handler'[g].at \in {"reserve", "retry"}
       /\ handler'[g].key.amount = plan[handler'[g].tender].amount
       /\ ~handler'[g].dispatched
    \/ /\ \/ handler'[g].at = handler[g].at
          \/ handler[g].at = "recheck" /\ handler'[g].at = "lookup"
          \/ handler[g].at = "lookup" /\ handler'[g].at = "send"
       /\ handler'[g].attempt = handler[g].attempt
       /\ handler'[g].key = handler[g].key
       /\ handler'[g].tender = handler[g].tender
       /\ handler'[g].dispatched = handler[g].dispatched

(* Steps that neither store an outcome nor reach Helcim.                   *)
LEMMA Framed ==
    ASSUME TypeOK, Core, UNCHANGED << plan, attempts, helcim, abandoned >>,
           Attached \subseteq Attached', \A g \in Handlers : Moves(g)
    PROVE  Core'
<1> USE DEF Holding, Moves
<1>00. /\ Sent' = Sent /\ Granted' = Granted /\ Refused' = Refused
       /\ Open' = Open /\ Split' = Split
  BY HelcimStays
<1>0. \A g \in Handlers :
         handler'[g].at \in Holding =>
            /\ handler[g].at \in Holding /\ handler'[g].attempt = handler[g].attempt
            /\ handler'[g].dispatched = handler[g].dispatched
  BY DEF Holding
<1>1. FailedMeansNoMoney'
  BY <1>00 DEF Core, FailedMeansNoMoney
<1>2. CodesOK'
  BY <1>00 DEF Core, CodesOK
<1>3. HandlersOK'
  BY <1>00 DEF Core, HandlersOK
<1>4. SoleSender'
  BY <1>00, <1>0 DEF Core, SoleSender, Holds
<1>5. AmountsOK'
  BY DEF Core, AmountsOK
<1>6. OneUnresolved'
  BY <1>00 DEF Core, OneUnresolved, Outstanding, Unresolved
<1>7. Fresh'
  BY DEF Core, Fresh
<1> QED BY <1>1, <1>2, <1>3, <1>4, <1>5, <1>6, <1>7 DEF Core

(* Storing an outcome that Helcim bears out.                               *)
LEMMA MarkedCore ==
    ASSUME TypeOK, Core, NEW h \in Handlers, NEW a \in DOMAIN attempts,
           handler[h].at \in Holding, handler[h].attempt = a,
           NEW st \in {"pending", "failed", "approved"},
           NEW cd \in {"none", "outcome_unknown", "before_call", "request_rejected",
                       "declined", "mismatch"},
           Mark(a, st, cd),
           UNCHANGED << plan, ledger >>, UNCHANGED helcim,
           abandoned \subseteq abandoned',
           st = "failed" => a \notin Open \/ a \in Split \cup abandoned',
           st = "approved" => a \in Granted,
           cd = "outcome_unknown" => a \in Sent,
           cd = "before_call" => a \notin Sent /\ st = "failed",
           a \in Sent \/ st = "failed",
           \A g \in Handlers : g # h => handler'[g] = handler[g],
           \/ handler'[h].at = "idle"
           \/ /\ handler'[h].at = "attach" /\ a \in Granted
              /\ handler'[h].attempt = a /\ handler'[h].key = handler[h].key
              /\ handler'[h].tender = handler[h].tender
    PROVE  Core'
<1>00. /\ Sent' = Sent /\ Granted' = Granted /\ Refused' = Refused
       /\ Open' = Open /\ Split' = Split
       /\ Granted \subseteq Sent
  BY HelcimStays, HelcimSets
<1>0. /\ DOMAIN attempts' = DOMAIN attempts
      /\ \A b \in DOMAIN attempts :
            /\ attempts'[b].status = IF b = a THEN st ELSE attempts[b].status
            /\ attempts'[b].code = IF b = a THEN cd ELSE attempts[b].code
            /\ attempts'[b].key = attempts[b].key
  BY Marked
<1>1. FailedMeansNoMoney'
  BY <1>00, <1>0 DEF Core, FailedMeansNoMoney
<1>2. CodesOK'
  BY <1>00, <1>0 DEF Core, CodesOK
<1>3. HandlersOK'
  BY <1>00, <1>0 DEF Core, HandlersOK, TypeOK
<1>4. SoleSender'
  <2>1. Sent' = Sent
    BY <1>00
  <2>2. ASSUME NEW b \in DOMAIN attempts, NEW g \in Handlers,
               handler'[g].at \in Holding, handler'[g].attempt = b
        PROVE  Holds(g, b)
    BY <2>2 DEF Holds, Holding
  <2>3. ASSUME NEW g \in Handlers, a \notin Sent,
               handler'[g].at \in Holding, handler'[g].attempt = a
        PROVE  FALSE
    <3>1. Holds(g, a) /\ Holds(h, a)
      BY <2>2, <2>3 DEF Holds
    <3>2. g = h
      BY <2>3, <3>1 DEF Core, SoleSender
    <3> QED BY <1>00, <2>3, <3>2 DEF Holding
  <2>4. \A b \in DOMAIN attempts \ Sent : b # a => attempts'[b].status = attempts[b].status
    BY <1>0
  <2> QED BY <1>0, <2>1, <2>2, <2>3, <2>4 DEF Core, SoleSender, Holds
<1>5. AmountsOK'
  BY SMTT(60), <1>0 DEF Core, AmountsOK, Holding, TypeOK
<1>6. OneUnresolved'
  <2>1. Attached' = Attached
    BY DEF Attached
  <2>2. attempts[a].status \in {"pending", "failed", "approved"}
    <3>1. attempts[a] \in AttemptRecords
      BY DEF TypeOK
    <3> QED BY <3>1 DEF AttemptRecords
  <2>3. Outstanding(a)' => Outstanding(a)
    <3>1. Sent \subseteq Open \cup Refused /\ Split \subseteq Refused
      BY HelcimSets
    <3> QED BY <1>00, <1>0, <2>1, <2>2, <3>1
               DEF Core, FailedMeansNoMoney, Outstanding, Unresolved
  <2>4. \A b \in DOMAIN attempts : b # a => (Outstanding(b)' => Outstanding(b))
    BY <1>00, <1>0, <2>1 DEF Outstanding, Unresolved
  <2> QED BY <1>0, <2>3, <2>4 DEF Core, OneUnresolved
<1>7. Fresh'
  BY DEF Core, Fresh
<1> QED BY <1>1, <1>2, <1>3, <1>4, <1>5, <1>6, <1>7 DEF Core

(* A reservation: nobody works on the new attempt yet, and no other is     *)
(* unresolved.                                                             *)
LEMMA InsertCore ==
    ASSUME TypeOK, Core, NEW h \in Handlers, NEW isBase \in BOOLEAN,
           handler[h].at \in {"reserve", "retry"}, ~Reserved({}), Insert(h, isBase),
           UNCHANGED << plan, books, helcim, abandoned >>
    PROVE  Core'
<1> USE DEF books
<1>00. /\ Sent' = Sent /\ Granted' = Granted /\ Refused' = Refused
       /\ Open' = Open /\ Split' = Split
       /\ Open \subseteq Sent /\ Sent \subseteq DOMAIN attempts
  <2>1. UNCHANGED helcim
    OBVIOUS
  <2> QED BY <2>1, HelcimStays, HelcimSets
<1>0. PICK n : n = Len(attempts) + 1
  OBVIOUS
<1>1. /\ DOMAIN attempts' = DOMAIN attempts \cup {n} /\ n \notin DOMAIN attempts
      /\ \A b \in DOMAIN attempts : attempts'[b] = attempts[b]
      /\ attempts'[n].status = "pending" /\ attempts'[n].code = "none"
      /\ attempts'[n].key = handler[h].key
      /\ n \notin Sent
  BY <1>00, <1>0, Inserted
<1>2. /\ \A g \in Handlers : g # h => handler'[g] = handler[g]
      /\ handler'[h].at = "recheck" /\ handler'[h].attempt = n
      /\ handler'[h].key = handler[h].key /\ handler'[h].tender = handler[h].tender
      /\ ~handler'[h].dispatched
  <2>1. handler[h] \in HandlerRecords
    BY Busy
  <2>2. ~handler[h].dispatched
    BY DEF Core, Fresh
  <2>3. handler' = [handler EXCEPT ![h] = [handler[h] EXCEPT !.at = "recheck", !.attempt = n]]
    BY <1>0 DEF Insert
  <2> QED BY <2>1, <2>2, <2>3 DEF TypeOK, HandlerRecords
<1>3. FailedMeansNoMoney'
  BY <1>00, <1>1 DEF Core, FailedMeansNoMoney
<1>4. CodesOK'
  BY <1>00, <1>1 DEF Core, CodesOK
<1>5. HandlersOK'
  BY <1>00, <1>1, <1>2 DEF Core, HandlersOK
<1>6. SoleSender'
  <2>1. \A g \in Handlers : g # h => ~ Holds(g, n)'
    BY <1>1, <1>2 DEF TypeOK, Holds, Holding
  <2>2. \A b \in DOMAIN attempts : \A g \in Handlers : Holds(g, b)' => Holds(g, b)
    BY <1>1, <1>2 DEF Holds
  <2> QED BY <1>00, <1>1, <2>1, <2>2 DEF Core, SoleSender
<1>7. AmountsOK'
  <2>1. \A g \in Handlers : handler[g].at \in Holding => handler[g].attempt \in DOMAIN attempts
    BY DEF TypeOK, Holding
  <2>2. Holding' = Holding /\ "recheck" \in Holding /\ "idle" \notin Holding
    BY DEF Holding
  <2> QED BY <1>1, <1>2, <2>1, <2>2 DEF Core, AmountsOK
<1>8. OneUnresolved'
  <2>1. \A b \in DOMAIN attempts : ~ Unresolved(b)
    BY DEF Reserved
  <2>2. \A b \in DOMAIN attempts : ~ Outstanding(b)'
    BY <1>1, <2>1 DEF Outstanding, Unresolved, Attached
  <2> QED BY <1>1, <2>2 DEF OneUnresolved
<1>9. Fresh'
  BY <1>2 DEF Core, Fresh
<1> QED BY <1>3, <1>4, <1>5, <1>6, <1>7, <1>8, <1>9 DEF Core

(* An attempt taken up again is the only one unresolved, and if it failed  *)
(* before its call nobody works on it.                                     *)
LEMMA ResumeCore ==
    ASSUME TypeOK, Core, NEW h \in Handlers, ReserveSame(h)
    PROVE  Core'
<1> USE DEF books
<1>0. PICK a \in WithKey(handler[h].key) :
         /\ ~Reserved({a})
         /\ \/ attempts[a].status = "pending" /\ attempts[a].code = "outcome_unknown"
            \/ Approved(a)
            \/ attempts[a].code = "before_call"
         /\ IF attempts[a].code = "before_call" THEN Mark(a, "pending", "none")
            ELSE UNCHANGED attempts
         /\ handler' = [handler EXCEPT ![h] = Resumed(h, a)]
  BY ResumedIs DEF ReserveSame
<1>1. /\ a \in DOMAIN attempts /\ attempts[a].key = handler[h].key
      /\ handler[h].at = "reserve"
      /\ UNCHANGED << plan, books, helcim, abandoned >>
  BY DEF WithKey, ReserveSame
<1>00. /\ Sent' = Sent /\ Granted' = Granted /\ Refused' = Refused
       /\ Open' = Open /\ Split' = Split
       /\ Granted \subseteq Sent /\ Open \subseteq Sent
  BY <1>1, HelcimStays, HelcimSets
<1>2. /\ DOMAIN attempts' = DOMAIN attempts
      /\ \A b \in DOMAIN attempts :
            /\ attempts'[b].key = attempts[b].key
            /\ b # a => attempts'[b].status = attempts[b].status
                       /\ attempts'[b].code = attempts[b].code
      /\ \/ UNCHANGED attempts /\ attempts[a].code # "before_call"
         \/ /\ attempts[a].code = "before_call"
            /\ attempts'[a].status = "pending" /\ attempts'[a].code = "none"
  BY <1>0, <1>1, Marked
<1>3. /\ \A g \in Handlers : g # h => handler'[g] = handler[g]
      /\ handler'[h].at = "recheck" /\ handler'[h].attempt = a
      /\ handler'[h].key = handler[h].key /\ handler'[h].tender = handler[h].tender
      /\ handler'[h].dispatched <=> attempts[a].code # "before_call"
  <2>1. /\ Resumed(h, a) \in HandlerRecords
        /\ Resumed(h, a).at = "recheck" /\ Resumed(h, a).attempt = a
        /\ Resumed(h, a).tender = handler[h].tender /\ Resumed(h, a).key = handler[h].key
        /\ Resumed(h, a).dispatched <=> attempts[a].code # "before_call"
    BY <1>1, ResumedRecord
  <2>2. \A g \in Handlers : handler'[g] = IF g = h THEN Resumed(h, a) ELSE handler[g]
    BY <1>0, <2>1, HandlerSet
  <2> QED BY <2>1, <2>2
<1>4. /\ attempts[a].code # "before_call" => a \in Sent
      /\ attempts[a].code = "before_call" =>
            /\ a \notin Sent
            /\ \A g \in Handlers : ~ Holds(g, a)
  BY <1>00, <1>0, <1>1 DEF Core, CodesOK, SoleSender, Approved
<1>5. FailedMeansNoMoney'
  BY <1>00, <1>1, <1>2, <1>4 DEF Core, FailedMeansNoMoney
<1>6. CodesOK'
  BY <1>00, <1>1, <1>2 DEF Core, CodesOK
<1>7. HandlersOK'
  BY <1>00, <1>1, <1>2, <1>3, <1>4 DEF Core, HandlersOK
<1>8. SoleSender'
  <2>1. \A b \in DOMAIN attempts : \A g \in Handlers :
           Holds(g, b)' => Holds(g, b) \/ (g = h /\ b = a)
    BY <1>3 DEF Holds
  <2>2. Sent' = Sent
    BY <1>00
  <2> QED BY <1>1, <1>2, <1>4, <2>1, <2>2 DEF Core, SoleSender
<1>9. AmountsOK'
  <2>1. \A g \in Handlers : handler[g].at \in Holding => handler[g].attempt \in DOMAIN attempts
    BY DEF TypeOK, Holding
  <2>2. "idle" \notin Holding
    BY DEF Holding
  <2> QED BY <1>1, <1>2, <1>3, <2>1, <2>2 DEF Core, AmountsOK
<1>10. OneUnresolved'
  <2>1. \A b \in DOMAIN attempts : b # a => ~ Unresolved(b)
    BY <1>0 DEF Reserved
  <2>2. \A b \in DOMAIN attempts : b # a => ~ Outstanding(b)'
    BY <1>1, <1>2, <2>1 DEF Outstanding, Unresolved, Attached
  <2> QED BY <1>2, <2>2 DEF OneUnresolved
<1>11. Fresh'
  BY <1>3 DEF Core, Fresh
<1> QED BY <1>5, <1>6, <1>7, <1>8, <1>9, <1>10, <1>11 DEF Core

(* The call: an attempt not sent before has this request only.             *)
LEMMA SendCore ==
    ASSUME TypeOK, Core, NEW h \in Handlers, Send(h)
    PROVE  Core'
<1>0. PICK a \in DOMAIN attempts, c \in Actions :
         a = handler[h].attempt /\ c = handler[h].action
  <2>1. handler[h].action \in Actions
    BY Busy DEF Send, HandlerRecords
  <2> QED BY <2>1 DEF Send, TypeOK
<1>1. /\ handler[h].at = "send" /\ reached' = reached \cup {<< a, c >>}
      /\ UNCHANGED << plan, books, attempts, moved, declined, abandoned >>
      /\ Holds(h, a)
  BY <1>0 DEF Send, Request, Holds, Holding
<1>2. /\ \A g \in Handlers : g # h => handler'[g] = handler[g]
      /\ handler'[h].at = "wait" /\ handler'[h].attempt = a
      /\ handler'[h].key = handler[h].key /\ handler'[h].tender = handler[h].tender
  <2>1. /\ handler' = [handler EXCEPT ![h] = [handler[h] EXCEPT !.at = "wait"]]
        /\ handler[h] \in HandlerRecords
    BY Busy DEF Send
  <2> QED BY ZenonT(60), <1>0, <2>1, HandlerFields, HandlerSet
<1>3. a \notin Sent =>
         attempts[a].status # "failed" /\ \A g \in Handlers : Holds(g, a) => g = h
  BY <1>1 DEF Core, SoleSender
<1>4. /\ Sent' = Sent \cup {a} /\ Granted' = Granted /\ Refused' = Refused
      /\ Open' \subseteq Open \cup {a} /\ Split \subseteq Split'
  <2>1. << a, c >>[1] = a
    OBVIOUS
  <2>2. Sent' = Sent \cup {a} /\ Granted' = Granted /\ Refused' = Refused
    BY <1>1, <2>1 DEF Sent, Granted, Refused
  <2>3. Open' \subseteq Open \cup {a}
    BY <1>1, <2>1 DEF Open
  <2>4. Split \subseteq Split'
    BY <1>1 DEF Split
  <2> QED BY <2>2, <2>3, <2>4
<1>5. a \in Sent => a \in Open \/ a \notin Open' \/ a \in Split'
  <2> SUFFICES ASSUME a \in Sent, a \notin Open, a \in Open' PROVE a \in Split'
    OBVIOUS
  <2>1. a \in Refused
    BY HelcimSets
  <2>2. PICK s \in declined : s[1] = a
    BY <2>1 DEF Refused
  <2>3. PICK r \in reached' \ declined' : r[1] = a
    BY DEF Open
  <2>4. /\ reached' \subseteq (DOMAIN attempts) \X Actions
        /\ s \in reached' /\ r \in reached' /\ s # r
    BY <1>1, <2>2, <2>3 DEF TypeOK
  <2>5. /\ r = << a, r[2] >> /\ s = << a, s[2] >>
        /\ r[2] \in Actions /\ s[2] \in Actions /\ r[2] # s[2]
    BY <2>2, <2>3, <2>4
  <2>6. Actions = {r[2], s[2]}
    BY <2>5 DEF Actions
  <2>7. s \in declined'
    BY <1>1, <2>2
  <2> QED BY <2>2, <2>4, <2>5, <2>6, <2>7 DEF Split
<1>6. FailedMeansNoMoney'
  BY <1>1, <1>3, <1>4, <1>5 DEF Core, FailedMeansNoMoney
<1>7. CodesOK'
  <2>1. attempts[a].code = "before_call" => a \notin Sent /\ attempts[a].status = "failed"
    BY DEF Core, CodesOK
  <2> QED BY <1>1, <1>3, <1>4, <2>1 DEF Core, CodesOK
<1>8. HandlersOK'
  BY <1>1, <1>2, <1>3, <1>4 DEF Core, HandlersOK, Holds, Holding
<1>9. SoleSender'
  BY <1>1, <1>2, <1>4 DEF Core, SoleSender, Holds, Holding
<1>10. AmountsOK'
  BY <1>1, <1>2 DEF Core, AmountsOK, Holds, Holding
<1>11. OneUnresolved'
  BY <1>1, <1>4 DEF Core, OneUnresolved, Outstanding, Unresolved, Attached, books
<1>12. Fresh'
  BY <1>2 DEF Core, Fresh
<1> QED BY <1>6, <1>7, <1>8, <1>9, <1>10, <1>11, <1>12 DEF Core

(* Helcim decides.                                                         *)
LEMMA HelcimCore ==
    ASSUME TypeOK, Core, NEW r \in reached, HelcimRefunds(r) \/ HelcimDeclines(r)
    PROVE  Core'
<1>1. /\ UNCHANGED << plan, books, attempts, handler, reached, abandoned >>
      /\ moved \subseteq moved' /\ declined \subseteq declined'
  BY DEF HelcimRefunds, HelcimDeclines
<1>2. /\ Sent' = Sent /\ Granted \subseteq Granted' /\ Refused \subseteq Refused'
      /\ Open' \subseteq Open /\ Split \subseteq Split'
  BY <1>1 DEF Sent, Granted, Refused, Open, Split
<1>3. FailedMeansNoMoney' /\ CodesOK' /\ HandlersOK' /\ Fresh'
  BY <1>1, <1>2 DEF Core, FailedMeansNoMoney, CodesOK, HandlersOK, Fresh
<1>4. SoleSender' /\ AmountsOK'
  BY <1>1, <1>2 DEF Core, SoleSender, AmountsOK, Holds
<1>5. OneUnresolved'
  BY <1>1, <1>2 DEF Core, OneUnresolved, Outstanding, Unresolved, Attached, books
<1> QED BY <1>3, <1>4, <1>5 DEF Core

(* The end of an attempt's window leaves what the handlers rely on.        *)
LEMMA WindowCore ==
    ASSUME TypeOK, Core, NEW a \in DOMAIN attempts, WindowCloses(a)
    PROVE  Core'
<1>1. /\ UNCHANGED << plan, books, handler, helcim, abandoned >>
      /\ DOMAIN attempts' = DOMAIN attempts
      /\ \A b \in DOMAIN attempts :
            /\ attempts'[b].status = attempts[b].status
            /\ attempts'[b].code = attempts[b].code
            /\ attempts'[b].key = attempts[b].key
  <2>1. attempts' = [attempts EXCEPT ![a] = [attempts[a] EXCEPT !.fresh = FALSE]]
    BY DEF WindowCloses
  <2>2. attempts[a] \in AttemptRecords
    BY DEF TypeOK
  <2> QED BY <2>1, <2>2 DEF WindowCloses, AttemptRecords
<1>00. /\ Sent' = Sent /\ Granted' = Granted /\ Refused' = Refused
       /\ Open' = Open /\ Split' = Split
  BY <1>1, HelcimStays
<1>2. FailedMeansNoMoney' /\ CodesOK' /\ HandlersOK' /\ Fresh'
  BY <1>00, <1>1 DEF Core, FailedMeansNoMoney, CodesOK, HandlersOK, Fresh
<1>3. SoleSender'
  BY <1>00, <1>1 DEF Core, SoleSender, Holds
<1>4. AmountsOK'
  BY <1>1 DEF Core, AmountsOK, TypeOK, Holding
<1>5. OneUnresolved'
  BY <1>00, <1>1 DEF Core, OneUnresolved, Outstanding, Unresolved, Attached, books
<1> QED BY <1>2, <1>3, <1>4, <1>5 DEF Core

(* So does the settlement of the batch.                                    *)
LEMMA BatchCore ==
    ASSUME TypeOK, Core, BatchCloses
    PROVE  Core'
<1>1. /\ UNCHANGED << plan, books, attempts, handler, abandoned >>
      /\ Sent' = Sent /\ Granted' = Granted /\ Refused' = Refused
      /\ Open' = Open /\ Split' = Split
  BY DEF BatchCloses, Sent, Granted, Refused, Open, Split
<1>2. FailedMeansNoMoney' /\ CodesOK' /\ HandlersOK' /\ Fresh'
  BY <1>1 DEF Core, FailedMeansNoMoney, CodesOK, HandlersOK, Fresh
<1>3. SoleSender' /\ AmountsOK'
  BY <1>1 DEF Core, SoleSender, AmountsOK, Holds
<1>4. OneUnresolved'
  BY <1>1 DEF Core, OneUnresolved, Outstanding, Unresolved, Attached, books
<1> QED BY <1>2, <1>3, <1>4 DEF Core

(* The commit of a refund does not touch it.                               *)
LEMMA RecordCore ==
    ASSUME TypeOK, Core, NEW t \in Tenders, NEW a \in 0..MaxAttempts, Record(t, a),
           handler' = handler \/ \E h \in Handlers : Release(h),
           UNCHANGED << plan, attempts, helcim, abandoned >>
    PROVE  Core'
<1>1. Attached \subseteq Attached'
  BY Recorded
<1>2. \A g \in Handlers : Moves(g)
  BY Released DEF Moves
<1> QED BY <1>1, <1>2, Framed

(* Every step keeps what is said of attempts, codes and handlers.          *)
LEMMA CoreStep == IInv /\ [Next]_vars => Core'
<1> SUFFICES ASSUME TypeOK, Core, RefundsCovered, [Next]_vars PROVE Core'
  BY DEF IInv
<1>0. /\ DOMAIN attempts \subseteq 1..MaxAttempts /\ 0 \in 0..MaxAttempts
      /\ \A h \in Handlers : handler[h].at # "idle" => handler[h] \in HandlerRecords
      /\ \A h \in Handlers : handler[h].at # "idle" => handler[h].tender \in Tenders
      /\ \A h \in Handlers :
            handler[h].at \in Holding => handler[h].attempt \in DOMAIN attempts
      /\ Granted \subseteq Sent /\ Refused \subseteq Sent /\ Open \subseteq Sent
      /\ Open \cap Refused \subseteq Split
  BY Busy, CardRefundAssumption, HelcimSets DEF TypeOK, Holding, HandlerRecords
<1>00. ASSUME UNCHANGED ledger PROVE Attached' = Attached
  BY <1>00 DEF Attached
<1>1. ASSUME NEW t \in Tenders, RefundAtOnce(t) PROVE Core'
  BY <1>0, <1>1, RecordCore DEF RefundAtOnce
<1>2. ASSUME NEW t \in Tenders, Restore(t) PROVE Core'
  <2>1. PICK a \in DOMAIN attempts : Record(t, a)
    BY <1>2 DEF Restore, WithKey
  <2> QED BY <1>0, <1>2, <2>1, RecordCore DEF Restore
<1>3. ASSUME NEW h \in Handlers, NEW t \in Tenders, BeginCardRefund(h, t) PROVE Core'
  <2>1. /\ handler' = [handler EXCEPT ![h] = Begun(t)]
        /\ UNCHANGED << plan, books, attempts, helcim, abandoned >>
    BY <1>3 DEF BeginCardRefund, Begun
  <2>2. /\ Begun(t) \in HandlerRecords /\ Begun(t).at = "reserve"
        /\ Begun(t).key.amount = plan[Begun(t).tender].amount
        /\ ~Begun(t).dispatched
    BY BegunRecord DEF Begun
  <2>3. \A g \in Handlers : handler'[g] = IF g = h THEN Begun(t) ELSE handler[g]
    BY <2>1, <2>2, HandlerSet
  <2>4. \A g \in Handlers : Moves(g)
    BY <2>2, <2>3 DEF Moves
  <2> QED BY <1>00, <2>1, <2>4, Framed DEF books
<1>4. ASSUME NEW h \in Handlers, ReserveNew(h) \/ ReserveRetry(h) PROVE Core'
  BY <1>4, InsertCore DEF ReserveNew, ReserveRetry
<1>5. ASSUME NEW h \in Handlers, ReserveSame(h) PROVE Core'
  BY <1>5, ResumeCore
<1>6. ASSUME NEW h \in Handlers, ReserveAfterFailure(h) \/ Recheck(h) PROVE Core'
  <2>1. PICK at \in {"retry", "lookup"} :
           /\ handler' = [handler EXCEPT ![h] = [handler[h] EXCEPT !.at = at]]
           /\ handler[h] \in HandlerRecords
           /\ \/ handler[h].at = "reserve" /\ at = "retry"
              \/ handler[h].at = "recheck" /\ at = "lookup"
           /\ UNCHANGED << plan, books, attempts, helcim, abandoned >>
    BY <1>0, <1>6 DEF ReserveAfterFailure, Recheck
  <2>2. \A g \in Handlers : g # h => handler'[g] = handler[g]
    BY <2>1, HandlerFields, HandlerSet
  <2>3. /\ handler'[h].at = at
        /\ handler'[h].attempt = handler[h].attempt
        /\ handler'[h].key = handler[h].key
        /\ handler'[h].tender = handler[h].tender
        /\ handler'[h].dispatched = handler[h].dispatched
    <3>1. handler'[h] = [handler[h] EXCEPT !.at = at]
      BY <2>1, HandlerFields, HandlerSet
    <3>2. handler[h] \in HandlerRecords
      BY <2>1
    <3> QED BY <3>1, <3>2, HandlerFields
  <2>4. handler[h].at = "reserve" =>
           /\ handler[h].key.amount = plan[handler[h].tender].amount
           /\ ~handler[h].dispatched
    BY DEF Core, AmountsOK, Fresh
  <2>5. Moves(h)
    BY <2>1, <2>3, <2>4 DEF Moves
  <2>6. \A g \in Handlers : Moves(g)
    BY <2>2, <2>5 DEF Moves
  <2> QED BY <1>00, <2>1, <2>6, Framed DEF books
<1>7. ASSUME NEW h \in Handlers, RecheckApproved(h) \/ Attach(h) PROVE Core'
  <2>1. handler[h].tender \in Tenders /\ handler[h].attempt \in 0..MaxAttempts
    BY <1>0, <1>7 DEF RecheckApproved, Attach, Holding
  <2> QED BY <1>7, <2>1, RecordCore DEF RecheckApproved, Attach
<1>8. ASSUME NEW h \in Handlers, Release(h), UNCHANGED << plan, books, attempts, helcim, abandoned >>
      PROVE  Core'
  <2>1. \A g \in Handlers : Moves(g)
    BY <1>8, Released DEF Moves
  <2> QED BY <1>00, <1>8, <2>1, Framed DEF books
<1>9. ASSUME NEW h \in Handlers, RecheckFails(h) \/ LookupFails(h) PROVE Core'
  <2>1. PICK a \in DOMAIN attempts : a = handler[h].attempt
    BY <1>0, <1>9 DEF RecheckFails, LookupFails, Holding
  <2>2. /\ handler[h].at \in {"recheck", "lookup", "send"} /\ Release(h)
        /\ UNCHANGED << plan, books, helcim, abandoned >>
        /\ handler[h].dispatched \/ Mark(a, "failed", "before_call")
        /\ handler[h].dispatched => UNCHANGED attempts
    BY <1>9, <2>1 DEF RecheckFails, LookupFails, FailBeforeCall
  <2>3. handler[h].dispatched <=> a \in Sent
    BY <2>1, <2>2 DEF Core, HandlersOK
  <2>4. CASE handler[h].dispatched
    BY <1>8, <2>2, <2>4
  <2>5. CASE ~handler[h].dispatched
    BY <1>0, <2>1, <2>2, <2>3, <2>5, Released, MarkedCore DEF Holding, books
  <2> QED BY <2>4, <2>5
<1>10. ASSUME NEW h \in Handlers, Send(h) PROVE Core'
  BY <1>10, SendCore
<1>11. ASSUME NEW h \in Handlers, SendRejected(h) PROVE Core'
  <2>1. PICK a \in DOMAIN attempts : a = handler[h].attempt
    BY <1>0, <1>11 DEF SendRejected, Holding
  <2>2. /\ handler[h].at = "send" /\ Release(h)
        /\ UNCHANGED << plan, books, helcim >>
        /\ Mark(a, "failed", "request_rejected")
        /\ abandoned' = abandoned \cup ({a} \cap Open)
    BY <1>11, <2>1 DEF SendRejected
  <2> QED BY <2>1, <2>2, Released, MarkedCore DEF Holding, books
<1>12. ASSUME NEW r \in reached, HelcimRefunds(r) \/ HelcimDeclines(r) PROVE Core'
  BY <1>12, HelcimCore
<1>13. ASSUME NEW h \in Handlers, AnswerDeclined(h) PROVE Core'
  <2>1. PICK a \in DOMAIN attempts : a = handler[h].attempt
    BY <1>0, <1>13 DEF AnswerDeclined, Holding
  <2>2. /\ handler[h].at = "wait" /\ Release(h) /\ a \in Refused
        /\ UNCHANGED << plan, books, helcim, abandoned >>
        /\ Mark(a, "failed", "declined")
    <3>1. Request(h) \in declined /\ Request(h)[1] = a
      BY <1>13, <2>1 DEF AnswerDeclined, Request
    <3> QED BY <1>13, <2>1, <3>1 DEF AnswerDeclined, Refused
  <2> QED BY <1>0, <2>1, <2>2, Released, MarkedCore DEF Holding, books
<1>14. ASSUME NEW h \in Handlers, NoAnswer(h) PROVE Core'
  <2>1. PICK a \in DOMAIN attempts : a = handler[h].attempt
    BY <1>0, <1>14 DEF NoAnswer, Holding
  <2>2. /\ handler[h].at = "wait" /\ Release(h)
        /\ UNCHANGED << plan, books, helcim, abandoned >>
        /\ Mark(a, "pending", "outcome_unknown")
    BY <1>14, <2>1 DEF NoAnswer
  <2>3. a \in Sent
    BY <2>1, <2>2 DEF Core, HandlersOK
  <2> QED BY <2>1, <2>2, <2>3, Released, MarkedCore DEF Holding, books
<1>15. ASSUME NEW h \in Handlers, AnswerApproved(h) PROVE Core'
  <2>1. PICK a \in DOMAIN attempts : a = handler[h].attempt
    BY <1>0, <1>15 DEF AnswerApproved, Holding
  <2>2. /\ handler[h].at = "wait" /\ a \in Granted /\ a \in Sent
        /\ UNCHANGED << plan, books, helcim, abandoned >>
    <3>1. Request(h) \in moved /\ Request(h)[1] = a
      BY <1>15, <2>1 DEF AnswerApproved, Request
    <3>2. a \in Granted
      BY <3>1 DEF Granted
    <3> QED BY <1>0, <1>15, <3>2 DEF AnswerApproved
  <2>3. CASE Mark(a, "approved", "mismatch") /\ Release(h)
    BY <2>1, <2>2, <2>3, Released, MarkedCore DEF Holding, books
  <2>4. CASE /\ Mark(a, "approved", "none")
             /\ handler' = [handler EXCEPT ![h] = [handler[h] EXCEPT !.at = "attach"]]
    <3>1. handler[h] \in HandlerRecords
      BY <1>0, <2>2
    <3>2. /\ \A g \in Handlers : g # h => handler'[g] = handler[g]
          /\ handler'[h].at = "attach"
          /\ handler'[h].attempt = a
          /\ handler'[h].key = handler[h].key
          /\ handler'[h].tender = handler[h].tender
      BY ZenonT(60), <2>1, <2>4, <3>1, HandlerFields, HandlerSet
    <3> QED BY <2>1, <2>2, <2>4, <3>2, MarkedCore DEF Holding, books
  <2> QED BY <1>15, <2>1, <2>3, <2>4 DEF AnswerApproved
<1>16. ASSUME NEW h \in Handlers, Drop(h) PROVE Core'
  BY <1>8, <1>16 DEF Drop
<1>18. ASSUME NEW a \in DOMAIN attempts, WindowCloses(a) PROVE Core'
  BY <1>18, WindowCore
<1>19. CASE UNCHANGED vars
  <2>1. \A h \in Handlers : Moves(h)
    BY <1>19 DEF vars, Moves
  <2> QED BY <1>00, <1>19, <2>1, Framed DEF vars, books
<1>20. ASSUME BatchCloses PROVE Core'
  BY <1>20, BatchCore
<1>21. ASSUME NEW value \in Cancellations, CancelItems(value) PROVE Core'
  <2>1. \A h \in Handlers : Moves(h)
    BY <1>21 DEF CancelItems, Moves
  <2> QED BY <1>00, <1>21, <2>1, Framed DEF CancelItems
<1>22. ASSUME NEW h \in Handlers, Lookup(h) PROVE Core'
  <2>1. PICK action \in Actions :
           handler' = [handler EXCEPT ![h] =
                          [handler[h] EXCEPT !.at = "send", !.action = action]]
    BY <1>22, LookupChooses
  <2>2. /\ handler[h] \in HandlerRecords /\ handler[h].at = "lookup"
        /\ UNCHANGED << plan, books, attempts, helcim, abandoned >>
    BY <1>0, <1>22 DEF Lookup
  <2> DEFINE new == [handler[h] EXCEPT !.at = "send", !.action = action]
  <2>3. /\ new \in HandlerRecords /\ new.at = "send"
        /\ new.attempt = handler[h].attempt /\ new.key = handler[h].key
        /\ new.tender = handler[h].tender /\ new.dispatched = handler[h].dispatched
    BY <2>2, ChosenRecord
  <2> HIDE DEF new
  <2>4. \A g \in Handlers : handler'[g] = IF g = h THEN new ELSE handler[g]
    BY <2>1, <2>3, HandlerSet DEF new
  <2>5. \A g \in Handlers : Moves(g)
    BY <2>2, <2>3, <2>4 DEF Moves
  <2> QED BY <1>00, <2>2, <2>5, Framed DEF books
<1> QED BY <1>1, <1>2, <1>3, <1>4, <1>5, <1>6, <1>7, <1>9, <1>10, <1>11, <1>12,
           <1>13, <1>14, <1>15, <1>16, <1>18, <1>19,
           <1>20, <1>21, <1>22 DEF Next
-----------------------------------------------------------------------------
(* The money.                                                              *)

(* Every commit is covered, and one of a card refund records an attempt    *)
(* Helcim made, of its own amount, for the first time.                     *)
Covered(t, a) ==
    /\ Record(t, a) /\ Fits(t)
    /\ \/ a = 0
       \/ /\ a \in DOMAIN attempts /\ FitsCard(t)
          /\ a \in Granted /\ a \notin Attached
          /\ attempts[a].key.amount = plan[t].amount

(* Money moves in the books only by a commit that its tender covers.       *)
LEMMA CommitsAreCovered ==
    ASSUME IInv, [Next]_vars
    PROVE  \/ UNCHANGED << plan, ledger, cancelled >>
           \/ /\ UNCHANGED << plan, ledger >>
              /\ \E value \in Nat : /\ cancelled' = cancelled + value
                                   /\ Returned + value <= Charge
           \/ /\ UNCHANGED << plan, attempts, helcim >>
              /\ \E t \in Tenders, a \in 0..MaxAttempts : Covered(t, a)
<1> USE DEF IInv
<1> DEFINE Goal == \/ UNCHANGED << plan, ledger, cancelled >>
                   \/ /\ UNCHANGED << plan, ledger >>
                      /\ \E value \in Nat : /\ cancelled' = cancelled + value
                                           /\ Returned + value <= Charge
                   \/ /\ UNCHANGED << plan, attempts, helcim >>
                      /\ \E t \in Tenders, a \in 0..MaxAttempts : Covered(t, a)
<1>0. DOMAIN attempts \subseteq 0..MaxAttempts /\ 0 \in 0..MaxAttempts
  BY CardRefundAssumption DEF TypeOK
<1>1. ASSUME NEW t \in Tenders, RefundAtOnce(t) PROVE Goal
  BY <1>0, <1>1 DEF RefundAtOnce, Covered
<1>2. ASSUME NEW t \in Tenders, Restore(t) PROVE Goal
  <2>1. PICK a \in WithKey(BaseKey(t)) : Approved(a) /\ a \notin Attached /\ Record(t, a)
    BY <1>2 DEF Restore
  <2>2. a \in DOMAIN attempts /\ attempts[a].key = BaseKey(t)
    BY DEF WithKey
  <2>3. a \in Granted
    BY <2>1, <2>2 DEF Core, CodesOK, Approved
  <2>4. attempts[a].key.amount = plan[t].amount
    BY <2>2, BaseKeyType
  <2>5. Covered(t, a)
    BY <1>2, <2>1, <2>2, <2>3, <2>4 DEF Restore, Covered, FitsCard
  <2> QED BY <1>0, <1>2, <2>2, <2>5 DEF Restore
<1>3. ASSUME NEW h \in Handlers, RecheckApproved(h) \/ Attach(h) PROVE Goal
  <2>1. PICK t, a : t = handler[h].tender /\ a = handler[h].attempt
    OBVIOUS
  <2>2. handler[h].at \in {"recheck", "attach"} /\ handler[h].at \in Holding
    BY <1>3 DEF RecheckApproved, Attach, Holding
  <2>3. t \in Tenders /\ a \in DOMAIN attempts
    BY <2>1, <2>2, Busy DEF TypeOK, Holding, HandlerRecords
  <2>4. a \in Granted
    BY <1>3, <2>1, <2>3 DEF RecheckApproved, Attach, Core, CodesOK, HandlersOK, Approved
  <2>5. attempts[a].key.amount = plan[t].amount
    BY <2>1, <2>2 DEF Core, AmountsOK
  <2>6. Covered(t, a)
    BY <1>3, <2>1, <2>3, <2>4, <2>5
       DEF RecheckApproved, Attach, CanProceed, FitsCard, Covered
  <2> QED BY <1>0, <1>3, <2>3, <2>6 DEF RecheckApproved, Attach
<1>4. ASSUME NEW value \in Cancellations, CancelItems(value) PROVE Goal
  BY <1>4, CardRefundAssumption DEF CancelItems
<1>5. \/ UNCHANGED << plan, ledger, cancelled >>
      \/ \E value \in Cancellations : CancelItems(value)
      \/ \E t \in Tenders : RefundAtOnce(t) \/ Restore(t)
      \/ \E h \in Handlers : RecheckApproved(h) \/ Attach(h)
  BY ZenonT(60) DEF Next, vars, books, helcim, BeginCardRefund, ReserveNew, ReserveSame, ReserveRetry,
         ReserveAfterFailure, Recheck, RecheckFails, Lookup, LookupFails, Send, SendRejected,
         AnswerApproved, AnswerDeclined, NoAnswer, Drop, HelcimRefunds, HelcimDeclines,
         BatchCloses, WindowCloses
<1> QED BY <1>1, <1>2, <1>3, <1>4, <1>5

(* The table only grows, keeps its keys, and Helcim takes nothing back.    *)
LEMMA KeysStay ==
    ASSUME IInv, [Next]_vars
    PROVE  /\ Granted \subseteq Granted'
           /\ \A a \in DOMAIN attempts :
                 a \in DOMAIN attempts' /\ attempts'[a].key = attempts[a].key
<1> USE DEF IInv
<1> DEFINE Stay == \A a \in DOMAIN attempts :
                      a \in DOMAIN attempts' /\ attempts'[a].key = attempts[a].key
<1>1. Granted \subseteq Granted'
  <2>1. moved \subseteq moved'
    BY DEF Next, vars, books, helcim, RefundAtOnce, Restore, BeginCardRefund, ReserveNew,
           ReserveSame, ReserveRetry, ReserveAfterFailure, Recheck, RecheckApproved,
           RecheckFails, Lookup, LookupFails, Send, SendRejected, AnswerApproved,
           AnswerDeclined, NoAnswer, Attach, Drop, HelcimRefunds, HelcimDeclines,
           BatchCloses, WindowCloses, CancelItems
  <2> QED BY <2>1 DEF Granted
<1>2. ASSUME NEW a \in DOMAIN attempts,
             NEW st \in {"pending", "failed", "approved"},
             NEW cd \in {"none", "outcome_unknown", "before_call", "request_rejected",
                         "declined", "mismatch"}, Mark(a, st, cd)
      PROVE  Stay
  BY <1>2, Marked
<1>3. ASSUME NEW h \in Handlers, RecheckFails(h) \/ LookupFails(h) \/ SendRejected(h)
                                \/ AnswerApproved(h) \/ AnswerDeclined(h) \/ NoAnswer(h)
      PROVE  Stay
  <2>1. handler[h].attempt \in DOMAIN attempts
    BY <1>3 DEF TypeOK, RecheckFails, LookupFails, SendRejected, AnswerApproved,
                AnswerDeclined, NoAnswer
  <2> QED BY <1>2, <1>3, <2>1 DEF RecheckFails, LookupFails, SendRejected, AnswerApproved,
                                  AnswerDeclined, NoAnswer, FailBeforeCall
<1>4. ASSUME NEW h \in Handlers, ReserveNew(h) \/ ReserveRetry(h) PROVE Stay
  BY <1>4, Inserted DEF ReserveNew, ReserveRetry
<1>5. ASSUME NEW h \in Handlers, ReserveSame(h) PROVE Stay
  BY <1>2, <1>5 DEF ReserveSame, WithKey
<1>6. ASSUME NEW a \in DOMAIN attempts, WindowCloses(a) PROVE Stay
  <2>1. attempts' = [attempts EXCEPT ![a] = [attempts[a] EXCEPT !.fresh = FALSE]]
    BY <1>6 DEF WindowCloses
  <2>2. attempts[a] \in AttemptRecords
    BY DEF TypeOK
  <2> QED BY <2>1, <2>2 DEF AttemptRecords
<1>7. \/ UNCHANGED attempts
      \/ \E h \in Handlers : \/ RecheckFails(h) \/ LookupFails(h) \/ SendRejected(h)
                             \/ AnswerApproved(h) \/ AnswerDeclined(h) \/ NoAnswer(h)
                             \/ ReserveNew(h) \/ ReserveRetry(h) \/ ReserveSame(h)
      \/ \E a \in DOMAIN attempts : WindowCloses(a)
  BY DEF Next, vars, RefundAtOnce, Restore, BeginCardRefund, ReserveAfterFailure, Recheck,
         RecheckApproved, Lookup, Send, Attach, Drop, HelcimRefunds, HelcimDeclines,
         BatchCloses, CancelItems
<1> QED BY <1>1, <1>3, <1>4, <1>5, <1>6, <1>7

(* So the refunds stay covered, and what is attached stays real.           *)
LEMMA MoneyStep == IInv /\ [Next]_vars => RefundsCovered' /\ AttachedIsReal'
<1> SUFFICES ASSUME IInv, [Next]_vars PROVE RefundsCovered' /\ AttachedIsReal'
  OBVIOUS
<1>0. TypeOK /\ RefundsCovered /\ AttachedIsReal
  BY DEF IInv
<1>1. ASSUME UNCHANGED << plan, ledger >>, NEW value \in Nat,
             cancelled' = cancelled + value, value = 0 \/ Returned + value <= Charge
      PROVE  RefundsCovered' /\ AttachedIsReal'
  <2>1. /\ Returned' = Returned + value
        /\ Refunded' = Refunded /\ CardRefunded' = CardRefunded
        /\ Attached' = Attached
    <3>1. SumTo([i \in DOMAIN ledger |-> StagedOf(ledger[i])], Len(ledger)) \in Nat
      BY <1>0, StagedIsNat
    <3>2. Returned' = Returned + value
      BY <1>0, <1>1, <3>1, CardRefundAssumption DEF Returned, StagedOf, TypeOK
    <3> QED BY <1>1, <3>2
               DEF Refunded, CardRefunded, Attached, AmountOf, CardAmountOf
  <2>2. RefundsCovered'
    BY <1>0, <1>1, <2>1, SumsAreNat, CardRefundAssumption DEF RefundsCovered
  <2>3. Attached \subseteq Granted /\ Granted \subseteq DOMAIN attempts
    BY <1>0, HelcimSets DEF AttachedIsReal, Granted
  <2>4. \A i \in DOMAIN ledger :
           ledger[i].attempt # 0 => ledger[i].attempt \in DOMAIN attempts
    BY <2>3 DEF Attached
  <2>5. AttachedIsReal'
    BY <1>0, <1>1, <2>1, <2>3, <2>4, KeysStay DEF AttachedIsReal, Granted
  <2> QED BY <2>2, <2>5
<1>2. ASSUME NEW t \in Tenders, NEW a \in 0..MaxAttempts, Covered(t, a),
             UNCHANGED << plan, attempts, helcim >>
      PROVE  RefundsCovered' /\ AttachedIsReal'
  <2>0. PICK n : n = Len(ledger) + 1
    OBVIOUS
  <2>1. /\ DOMAIN ledger' = DOMAIN ledger \cup {n} /\ n \notin DOMAIN ledger
        /\ \A i \in DOMAIN ledger : ledger'[i] = ledger[i]
        /\ ledger'[n].tender = t /\ ledger'[n].attempt = a
        /\ Returned' = Returned + plan[t].staged
        /\ Refunded' = Refunded + plan[t].amount
        /\ CardRefunded' = CardRefunded + (IF a = 0 THEN 0 ELSE plan[t].amount)
        /\ Attached' = Attached \cup ({a} \ {0})
    BY <1>0, <1>2, <2>0, Recorded DEF Covered
  <2>2. /\ Returned \in Nat /\ Refunded \in Nat /\ CardRefunded \in Nat
        /\ plan[t].staged \in Nat /\ plan[t].amount \in Nat /\ Charge \in Nat
    BY SMTT(60), <1>0, SumsAreNat, CardRefundAssumption DEF TypeOK, Plans
  <2>3. RefundsCovered'
    BY <1>0, <1>2, <2>1, <2>2 DEF Covered, Fits, FitsCard, Credit, RefundsCovered
  <2>4. Attached' \subseteq Granted'
    BY <1>0, <1>2, <2>1 DEF Covered, AttachedIsReal, Granted, helcim
  <2>5. \A i \in DOMAIN ledger : ledger[i].attempt # a \/ a = 0
    BY <1>2 DEF Covered, Attached
  <2>6. AttachedIsReal'
    BY <1>0, <1>2, <2>1, <2>4, <2>5 DEF Covered, AttachedIsReal, Granted
  <2> QED BY <2>3, <2>6
<1>3. CASE UNCHANGED << plan, ledger, cancelled >>
  <2>1. cancelled' = cancelled + 0 /\ 0 \in Nat
    BY <1>0, <1>3, CardRefundAssumption DEF TypeOK
  <2> QED BY <1>1, <1>3, <2>1
<1> QED BY <1>1, <1>2, <1>3, CommitsAreCovered
-----------------------------------------------------------------------------
(* The theorems.                                                           *)

(* Nothing has been refunded or attempted.                                 *)
LEMMA InitHolds == Init => IInv
<1> SUFFICES ASSUME Init PROVE IInv
  OBVIOUS
<1>1. TypeOK
  BY CardRefundAssumption DEF Init, TypeOK, Idle
<1>2. Core
  BY DEF Init, Core, FailedMeansNoMoney, CodesOK, HandlersOK, SoleSender, AmountsOK,
         OneUnresolved, Outstanding, Unresolved, Fresh, Holds, Holding, Idle
<1>3. Returned = 0 /\ Refunded = 0 /\ CardRefunded = 0
  BY SumEmpty DEF Init, Returned, Refunded, CardRefunded
<1>4. RefundsCovered /\ AttachedIsReal
  BY <1>3, CardRefundAssumption DEF Init, RefundsCovered, AttachedIsReal, Attached, Idle
<1> QED BY <1>1, <1>2, <1>4 DEF IInv

(* The invariant holds throughout.                                         *)
LEMMA IInvariant == Spec => []IInv
<1>1. IInv /\ [Next]_vars => IInv'
  <2>1. IInv /\ [Next]_vars => TypeOK'
    BY TypeStep DEF IInv
  <2> QED BY <2>1, CoreStep, MoneyStep DEF IInv
<1> QED BY <1>1, InitHolds, PTL DEF Spec

(* Every variable keeps its type.                                          *)
THEOREM TypeCorrect == Spec => []TypeOK
<1>1. IInv => TypeOK
  BY DEF IInv
<1> QED BY <1>1, IInvariant, PTL

(* The books never give back more than was returned, nor more to the card  *)
(* than it was charged (validate_refund_capacity_in_tx).                   *)
THEOREM RefundsCoveredHolds == Spec => []RefundsCovered
<1>1. IInv => RefundsCovered
  BY DEF IInv
<1> QED BY <1>1, IInvariant, PTL

(* A card refund in the ledger is one Helcim made, of that amount, once    *)
(* (process_refund, restore_approved_card_refund).                         *)
THEOREM AttachedIsRealHolds == Spec => []AttachedIsReal
<1>1. IInv => AttachedIsReal
  BY DEF IInv
<1> QED BY <1>1, IInvariant, PTL

(* An attempt marked failed is one Helcim will never refund, but for those *)
(* of which a replay was rejected (mark_card_refund_attempt_failed) and    *)
(* those sent both ways, as a reversal and as a refund, of which one was   *)
(* declined (process_refund).                                              *)
THEOREM FailedMeansNoMoneyHolds == Spec => []FailedMeansNoMoney
<1>1. IInv => FailedMeansNoMoney
  BY DEF IInv, Core
<1> QED BY <1>1, IInvariant, PTL

(* Helcim holds refunds of at most one attempt that the books have not     *)
(* taken in, with one request or two, but for the same two kinds           *)
(* (create_pending_card_refund_attempt).                                   *)
THEOREM OneOutstandingHolds == Spec => []OneOutstanding
<1>1. IInv => OneOutstanding
  <2> SUFFICES ASSUME IInv PROVE OneOutstanding
    OBVIOUS
  <2> DEFINE Out == Open \ (Attached \cup abandoned \cup Split)
  <2>1. \A a \in Out : a \in DOMAIN attempts /\ Outstanding(a)
    <3>1. \A a \in DOMAIN attempts : attempts[a].status \in {"pending", "failed", "approved"}
      <4>1. \A a \in DOMAIN attempts : attempts[a] \in AttemptRecords
        BY DEF IInv, TypeOK
      <4> QED BY <4>1 DEF AttemptRecords
    <3>2. /\ Open \subseteq DOMAIN attempts
          /\ Open \cap Refused \subseteq Split
      BY HelcimSets DEF IInv
    <3> QED BY <3>1, <3>2 DEF IInv, Core, FailedMeansNoMoney, Outstanding, Unresolved
  <2>2. \A a, b \in Out : a = b
    BY <2>1 DEF IInv, Core, OneUnresolved
  <2>3. Out = {} \/ \E a : Out = {a}
    BY <2>2
  <2>4. Cardinality(Out) = 0 \/ Cardinality(Out) = 1
    BY <2>3, FS_EmptySet, FS_Singleton
  <2> QED BY <2>4 DEF OneOutstanding
<1> QED BY <1>1, IInvariant, PTL
=============================================================================

-------------------------- MODULE InventoryProofs --------------------------
(* Theorems about the stock of a variant: under a physical count           *)
(* (PhysicalCount, any opening stock and any number of scans, sales and    *)
(* movements), and under its order lines (Fulfilment, any lines,           *)
(* quantities and bounds).                                                 *)
EXTENDS PhysicalCount, Fulfilment, DataLemmas, FiniteSetTheorems

-----------------------------------------------------------------------------
(* PhysicalCount.                                                          *)

(* A session starts once, nothing is scanned before it does, and only one  *)
(* in review is being published.                                           *)
SessionOK ==
    /\ session.status = "none" => /\ taken = {} /\ count.adjusted = None
                                  /\ marked = 0 /\ publisher = "idle"
    /\ session.status # "none" => session.startedAt \in 1 .. clock
    /\ publisher = "checked" => session.status = "reviewing"

(* The row counts the scans applied, and is stamped if it counts anything. *)
TallyOK ==
    /\ IsFiniteSet(taken) /\ count.counted = Cardinality(applied)
    /\ IF count.counted > 0 \/ count.adjusted # None
         THEN count.lastScan \in session.startedAt .. clock
         ELSE count.lastScan = 0

(* Sales of units that had been scanned or entered.                        *)
MarkedSales == {i \in DOMAIN lines : lines[i].marked}

(* Such a sale was made during the count; and as long as no counted unit   *)
(* left in another way, the counted units are on the shelf or sold.        *)
ShelfOK ==
    /\ \A i \in DOMAIN lines :
          lines[i].marked => session.status # "none" /\ lines[i].at >= session.startedAt
    /\ ~gone => marked + Cardinality(MarkedSales)
                  = IF count.adjusted = None THEN Cardinality(taken) ELSE count.adjusted

(* What the movement check looks for, it sees.                             *)
SeenOK ==
    ~escaped =>
        /\ Active => \A i \in openedAt + 1 .. Len(ledger) :
                        ledger[i].type \in NonSale => ledger[i].at >= session.startedAt
        /\ publisher = "checked" => \A i \in 1 .. Len(ledger) : ~Blocking(ledger[i])

CountIInv == CountTypeOK /\ LedgerExact /\ SessionOK /\ TallyOK /\ ShelfOK /\ SeenOK

-----------------------------------------------------------------------------
(* Types.                                                                  *)

(* The sales that come off the count are finitely many, so the stock a     *)
(* publication writes is a natural number.                                 *)
LEMMA FinalStockType ==
    ASSUME CountTypeOK
    PROVE  /\ \A t : SalesSince(t) \in Nat
           /\ Effective \in Nat /\ FinalStock \in Nat /\ Delta \in Int
<1>1. ASSUME NEW t PROVE SalesSince(t) \in Nat
  <2>1. Len(lines) \in Nat /\ DOMAIN lines = 1 .. Len(lines)
    BY DEF CountTypeOK
  <2>2. IsFiniteSet(1 .. Len(lines))
    BY <2>1, FS_Interval
  <2>3. IsFiniteSet({i \in DOMAIN lines : lines[i].at >= t})
    BY <2>1, <2>2, FS_Subset
  <2> QED BY <2>3, FS_CardinalityType DEF SalesSince
<1>2. Effective \in Nat
  BY DEF Effective, CountTypeOK
<1>3. FinalStock \in Nat
  <2>1. SalesSince(Cutoff) \in Nat
    BY <1>1
  <2> QED BY <1>2, <2>1 DEF FinalStock
<1>4. Delta \in Int
  BY <1>3 DEF Delta, CountTypeOK
<1> QED BY <1>1, <1>2, <1>3, <1>4

(* Posting keeps the books typed and the ledger growing.                   *)
LEMMA PostType ==
    ASSUME CountTypeOK, NEW type \in NonSale \cup {"sale", "physical_inventory"},
           NEW delta \in Int, NEW at \in Stamps, Post(type, delta, at)
    PROVE  onHand' \in Int /\ ledger' \in Seq(Movements) /\ Len(ledger') = Len(ledger) + 1
<1>1. [type |-> type, delta |-> delta, at |-> at] \in Movements
  BY DEF Movements
<1>2. onHand' = onHand + delta
      /\ ledger' = Append(ledger, [type |-> type, delta |-> delta, at |-> at])
  BY DEF Post
<1>3. onHand \in Int /\ ledger \in Seq(Movements)
  BY DEF CountTypeOK
<1> QED BY <1>1, <1>2, <1>3, SeqAppend

LEMMA TakeOffType ==
    ASSUME CountTypeOK, NEW m \in BOOLEAN, TakeOff(m)
    PROVE  marked' \in Nat /\ unmarked' \in Nat
BY DEF CountTypeOK, TakeOff

LEMMA TickType ==
    ASSUME CountTypeOK, Tick
    PROVE  Now \in Stamps /\ clock' = Now /\ Now = clock + 1 /\ clock' \in Stamps
           /\ clock \in Nat
BY PhysicalCountAssumption DEF CountTypeOK, Tick, Now, Stamps

LEMMA CountTypeNext ==
    ASSUME CountTypeOK, [CountNext]_countVars
    PROVE  CountTypeOK'
<1> USE DEF server, requests, floor
<1>0. openedAt \in Nat /\ openedAt <= Len(ledger) /\ Len(ledger) \in Nat
  BY DEF CountTypeOK
<1>1. ASSUME NEW m \in BOOLEAN, Sell(m) PROVE CountTypeOK'
  <2>1. Tick /\ TakeOff(m) /\ Post("sale", -1, Now)
    BY <1>1 DEF Sell
  <2>2. lines' \in Seq(LineRows)
    <3>1. [at |-> Now, marked |-> m] \in LineRows
      BY <2>1, TickType DEF LineRows
    <3>2. lines \in Seq(LineRows) /\ lines' = Append(lines, [at |-> Now, marked |-> m])
      BY <1>1 DEF Sell, CountTypeOK
    <3> QED BY <3>1, <3>2, SeqAppend
  <2>3. onHand' \in Int /\ ledger' \in Seq(Movements) /\ Len(ledger') = Len(ledger) + 1
    <3>1. -1 \in Int /\ "sale" \in NonSale \cup {"sale", "physical_inventory"}
      OBVIOUS
    <3>2. Now \in Stamps
      BY <2>1, TickType
    <3> QED BY <2>1, <3>1, <3>2, PostType
  <2>4. marked' \in Nat /\ unmarked' \in Nat /\ clock' \in Stamps
    BY <2>1, TakeOffType, TickType
  <2> QED BY <1>0, <1>1, <2>2, <2>3, <2>4 DEF CountTypeOK, Sell
<1>2. ASSUME BookForLater PROVE CountTypeOK'
  <2>1. Tick
    BY <1>2 DEF BookForLater
  <2>2. lines' \in Seq(LineRows)
    <3>1. [at |-> Now, marked |-> FALSE] \in LineRows
      BY <2>1, TickType DEF LineRows
    <3>2. lines \in Seq(LineRows) /\ lines' = Append(lines, [at |-> Now, marked |-> FALSE])
      BY <1>2 DEF BookForLater, CountTypeOK
    <3> QED BY <3>1, <3>2, SeqAppend
  <2> QED BY <1>2, <2>1, <2>2, TickType DEF CountTypeOK, BookForLater
<1>3. ASSUME NEW m \in BOOLEAN, PickUpOrder(m) PROVE CountTypeOK'
  <2>1. Tick /\ TakeOff(m) /\ Post("sale", -1, Now)
    BY <1>3 DEF PickUpOrder
  <2>2. onHand' \in Int /\ ledger' \in Seq(Movements) /\ Len(ledger') = Len(ledger) + 1
    <3>1. -1 \in Int /\ "sale" \in NonSale \cup {"sale", "physical_inventory"}
      OBVIOUS
    <3>2. Now \in Stamps
      BY <2>1, TickType
    <3> QED BY <2>1, <3>1, <3>2, PostType
  <2>3. marked' \in Nat /\ unmarked' \in Nat /\ clock' \in Stamps
    BY <2>1, TakeOffType, TickType
  <2>4. owed' \in Nat /\ gone' \in BOOLEAN
    BY <1>3 DEF CountTypeOK, PickUpOrder
  <2> QED BY <1>0, <1>3, <2>2, <2>3, <2>4 DEF CountTypeOK, PickUpOrder
<1>4. ASSUME Return PROVE CountTypeOK'
  <2>1. Tick /\ Post("return_in", 1, Now)
    BY <1>4 DEF Return
  <2>2. onHand' \in Int /\ ledger' \in Seq(Movements) /\ Len(ledger') = Len(ledger) + 1
    BY <2>1, TickType, PostType DEF NonSale
  <2>3. Now \in Stamps /\ clock' \in Stamps
    BY <2>1, TickType
  <2> QED BY <1>0, <1>4, <2>2, <2>3, SMTT(60) DEF CountTypeOK, Return
<1>5. ASSUME BeginMove PROVE CountTypeOK'
  BY <1>5, TickType DEF CountTypeOK, BeginMove
<1>6. ASSUME NEW delta \in {-1, 1}, CommitMove(delta) PROVE CountTypeOK'
  <2>1. mover \in Stamps /\ Post("receipt_or_adjustment", delta, mover)
    BY <1>6 DEF CommitMove, CountTypeOK
  <2>2. onHand' \in Int /\ ledger' \in Seq(Movements) /\ Len(ledger') = Len(ledger) + 1
    BY <2>1, PostType DEF NonSale
  <2>3. marked' \in Nat /\ unmarked' \in Nat /\ gone' \in BOOLEAN
    BY <1>6, TakeOffType DEF CommitMove, CountTypeOK
  <2>4. mover' \in Stamps \cup {None} /\ escaped' \in BOOLEAN
    BY <1>6 DEF CommitMove, CountTypeOK
  <2> QED BY <1>0, <1>6, <2>2, <2>3, <2>4 DEF CountTypeOK, CommitMove
<1>7. ASSUME AbortMove PROVE CountTypeOK'
  BY <1>7 DEF CountTypeOK, AbortMove
<1>8. ASSUME NEW m \in BOOLEAN, Shrink(m) PROVE CountTypeOK'
  <2>1. marked' \in Nat /\ unmarked' \in Nat /\ gone' \in BOOLEAN
    BY <1>8, TakeOffType DEF Shrink, CountTypeOK
  <2> QED BY <1>8, <2>1 DEF CountTypeOK, Shrink
<1>9. ASSUME OpenSession PROVE CountTypeOK'
  BY <1>0, <1>9, TickType DEF CountTypeOK, OpenSession, Statuses
<1>10. ASSUME NEW s \in Scans, TakeScan(s) PROVE CountTypeOK'
  BY <1>10 DEF CountTypeOK, TakeScan
<1>11. ASSUME NEW s \in Scans, SendScan(s) PROVE CountTypeOK'
  BY <1>11 DEF CountTypeOK, SendScan
<1>12. ASSUME NEW s \in Scans, ApplyScan(s) PROVE CountTypeOK'
  <2>1. CASE s \in applied
    BY <1>12, <2>1 DEF CountTypeOK, ApplyScan, CountScan
  <2>2. CASE s \notin applied
    <3>1. Tick /\ applied' = applied \cup {s}
          /\ count' = [count EXCEPT !.row = TRUE, !.counted = @ + 1, !.lastScan = Now]
      BY <1>12, <2>2 DEF ApplyScan, CountScan
    <3>2. count' \in [row: BOOLEAN, counted: Nat, adjusted: Nat \cup {None}, lastScan: Stamps]
      <4>1. Now \in Stamps
        BY <3>1, TickType
      <4>2. count.counted + 1 \in Nat
        BY DEF CountTypeOK
      <4>3. count \in [row: BOOLEAN, counted: Nat, adjusted: Nat \cup {None}, lastScan: Stamps]
        BY DEF CountTypeOK
      <4> QED BY <3>1, <4>1, <4>2, <4>3
    <3> QED BY <1>12, <3>1, <3>2, TickType DEF CountTypeOK, ApplyScan
  <2> QED BY <2>1, <2>2
<1>13. ASSUME RecordDiscovered \/ ResolveDiscovered PROVE CountTypeOK'
  BY <1>13 DEF CountTypeOK, RecordDiscovered, ResolveDiscovered
<1>14. ASSUME MoveToReview PROVE CountTypeOK'
  BY <1>14 DEF CountTypeOK, MoveToReview, Statuses
<1>15. ASSUME Recount PROVE CountTypeOK'
  <2>1. lines' \in Seq(LineRows)
    <3>1. lines \in Seq(LineRows) /\ DOMAIN lines = 1 .. Len(lines) /\ Len(lines) \in Nat
      BY DEF CountTypeOK
    <3>2. \A i \in DOMAIN lines : [lines[i] EXCEPT !.marked = FALSE] \in LineRows
      <4>1. \A i \in DOMAIN lines : lines[i] \in LineRows
        BY <3>1
      <4> QED BY <4>1 DEF LineRows
    <3> QED BY <1>15, <3>1, <3>2 DEF Recount
  <2>2. count' \in [row: BOOLEAN, counted: Nat, adjusted: Nat \cup {None}, lastScan: Stamps]
    <3>1. marked + unmarked \in Nat /\ Now \in Stamps
      BY <1>15, TickType DEF CountTypeOK, Recount
    <3>2. count' = [count EXCEPT !.adjusted = marked + unmarked, !.lastScan = Now]
      BY <1>15 DEF Recount
    <3> QED BY <3>1, <3>2 DEF CountTypeOK
  <2>3. marked' \in Nat /\ unmarked' \in Nat /\ clock' \in Stamps
    BY <1>15, TickType DEF CountTypeOK, Recount
  <2> QED BY <1>15, <2>1, <2>2, <2>3 DEF CountTypeOK, Recount
<1>16. ASSUME CancelSession PROVE CountTypeOK'
  BY <1>16 DEF CountTypeOK, CancelSession, Statuses
<1>17. ASSUME CheckPublish \/ AbortPublish PROVE CountTypeOK'
  BY <1>17 DEF CountTypeOK, CheckPublish, AbortPublish
<1>18. ASSUME Publish PROVE CountTypeOK'
  <2>1. Tick
    BY <1>18 DEF Publish
  <2>2. onHand' \in Int /\ ledger' \in Seq(Movements) /\ Len(ledger) <= Len(ledger')
    <3>1. CASE Delta = 0
      BY <1>0, <1>18, <3>1 DEF Publish, CountTypeOK
    <3>2. CASE Delta # 0
      <4>1. [type |-> "physical_inventory", delta |-> Delta, at |-> Now] \in Movements
        BY <2>1, TickType, FinalStockType DEF Movements
      <4>2. ledger' = Append(ledger, [type |-> "physical_inventory", delta |-> Delta,
                                      at |-> Now])
            /\ onHand' = FinalStock
        BY <1>18, <3>2 DEF Publish
      <4>3. ledger \in Seq(Movements)
        BY DEF CountTypeOK
      <4>4. ledger' \in Seq(Movements) /\ Len(ledger') = Len(ledger) + 1
        BY <4>1, <4>2, <4>3, SeqAppend
      <4> QED BY <1>0, <4>2, <4>4, FinalStockType
    <3> QED BY <3>1, <3>2
  <2>3. openedAt' \in 0 .. Len(ledger')
    BY <1>0, <1>18, <2>2 DEF Publish, CountTypeOK
  <2> QED BY <1>18, <2>1, <2>2, <2>3, TickType DEF CountTypeOK, Publish, Statuses
<1>19. ASSUME UNCHANGED countVars PROVE CountTypeOK'
  BY <1>19 DEF CountTypeOK, countVars
<1> QED
  BY <1>1, <1>2, <1>3, <1>4, <1>5, <1>6, <1>7, <1>8, <1>9, <1>10, <1>11, <1>12,
     <1>13, <1>14, <1>15, <1>16, <1>17, <1>18, <1>19 DEF CountNext

-----------------------------------------------------------------------------
(* The books.                                                              *)

(* A movement posted to both keeps the stock and the ledger together.      *)
LEMMA PostExact ==
    ASSUME CountTypeOK, LedgerExact, NEW move \in Movements,
           ledger' = Append(ledger, move), onHand' = onHand + move.delta
    PROVE  LedgerExact'
<1> DEFINE n == Len(ledger)
           f == [i \in 1 .. n |-> ledger[i].delta]
           g == [i \in 1 .. Len(ledger') |-> ledger'[i].delta]
<1>1. ledger \in Seq(Movements) /\ n \in Nat
  BY DEF CountTypeOK
<1>2. /\ Len(ledger') = n + 1 /\ ledger'[n + 1] = move
      /\ \A i \in 1 .. n : ledger'[i] = ledger[i]
  <2>1. DOMAIN ledger = 1 .. n
    BY <1>1, SeqAppend
  <2> QED BY <1>1, <2>1, SeqAppend
<1>3. \A i \in 1 .. n : f[i] = g[i]
  BY <1>1, <1>2
<1>4. g[n + 1] = move.delta /\ move.delta \in Int
  BY <1>1, <1>2 DEF Movements
<1>5. \A i \in 1 .. n : f[i] \in Int
  <2>1. \A i \in 1 .. n : ledger[i] \in Movements
    BY <1>1
  <2>2. \A m \in Movements : m.delta \in Int
    BY DEF Movements
  <2> QED BY <2>1, <2>2
<1>6. Posted = SumTo(f, n) /\ Posted' = SumTo(g, n + 1)
  BY <1>2 DEF Posted
<1> HIDE DEF f, g, n
<1>7. SumTo(g, n + 1) = SumTo(f, n) + g[n + 1]
  BY <1>1, <1>3, SumExtends
<1>8. SumTo(f, n) \in Int
  BY <1>1, <1>5, SumInt
<1> QED
  BY <1>4, <1>6, <1>7, <1>8, PhysicalCountAssumption DEF LedgerExact

LEMMA ExactNext ==
    ASSUME CountTypeOK, LedgerExact, [CountNext]_countVars
    PROVE  LedgerExact'
<1> USE DEF server, requests, floor
<1>1. CASE UNCHANGED << onHand, ledger >>
  BY <1>1 DEF LedgerExact, Posted
<1>2. ASSUME NEW type \in NonSale \cup {"sale", "physical_inventory"}, NEW delta \in Int,
             NEW at \in Stamps, Post(type, delta, at)
      PROVE  LedgerExact'
  <2> DEFINE move == [type |-> type, delta |-> delta, at |-> at]
  <2>1. move \in Movements /\ move.delta = delta
    BY DEF Movements
  <2>2. ledger' = Append(ledger, move) /\ onHand' = onHand + move.delta
    BY <1>2, <2>1 DEF Post
  <2> HIDE DEF move
  <2> QED BY <2>1, <2>2, PostExact
<1>3. -1 \in Int /\ {"sale", "return_in", "receipt_or_adjustment"}
                       \subseteq NonSale \cup {"sale", "physical_inventory"}
  BY DEF NonSale
<1>4. ASSUME NEW m \in BOOLEAN, Sell(m) \/ PickUpOrder(m) PROVE LedgerExact'
  <2>1. Tick /\ Post("sale", -1, Now)
    BY <1>4 DEF Sell, PickUpOrder
  <2> QED BY <1>2, <1>3, <2>1, TickType
<1>5. ASSUME Return PROVE LedgerExact'
  <2>1. Tick /\ Post("return_in", 1, Now)
    BY <1>5 DEF Return
  <2> QED BY <1>2, <1>3, <2>1, TickType
<1>6. ASSUME NEW delta \in {-1, 1}, CommitMove(delta) PROVE LedgerExact'
  <2>1. mover \in Stamps /\ Post("receipt_or_adjustment", delta, mover)
    BY <1>6 DEF CommitMove, CountTypeOK
  <2>2. delta \in Int
    OBVIOUS
  <2> QED BY <1>2, <1>3, <2>1, <2>2
<1>7. ASSUME Publish PROVE LedgerExact'
  <2>1. CASE Delta = 0
    BY <1>1, <1>7, <2>1 DEF Publish
  <2>2. CASE Delta # 0
    <3>1. Delta \in Int /\ FinalStock \in Nat /\ onHand \in Int
      BY FinalStockType DEF CountTypeOK
    <3>2. onHand' = onHand + Delta
      BY <1>7, <2>2, <3>1 DEF Publish, Delta
    <3>3. Post("physical_inventory", Delta, Now)
      BY <1>7, <2>2, <3>2 DEF Publish, Post
    <3>4. Now \in Stamps
      BY <1>7, TickType DEF Publish
    <3> QED BY <1>2, <3>1, <3>3, <3>4
  <2> QED BY <2>1, <2>2
<1>8. QED
  BY <1>1, <1>4, <1>5, <1>6, <1>7
  DEF CountNext, countVars, BookForLater, BeginMove, AbortMove, Shrink, OpenSession, TakeScan,
      SendScan, ApplyScan, RecordDiscovered, ResolveDiscovered, MoveToReview, Recount,
      CancelSession, CheckPublish, AbortPublish

-----------------------------------------------------------------------------
(* The session, and what it counts.                                        *)

LEMMA ClockAdvances ==
    ASSUME CountTypeOK, [CountNext]_countVars
    PROVE  clock \in Nat /\ clock' \in Nat /\ clock <= clock'
<1>1. clock \in Nat
  BY PhysicalCountAssumption DEF CountTypeOK, Stamps
<1>2. clock' = clock \/ clock' = clock + 1
  BY DEF CountNext, countVars, server, Tick, Now, Sell, PickUpOrder, Shrink, BookForLater,
         Return, BeginMove, AbortMove, CommitMove, OpenSession, MoveToReview, Recount,
         CancelSession, TakeScan, SendScan, ApplyScan, CountScan, RecordDiscovered,
         ResolveDiscovered, CheckPublish, Publish, AbortPublish
<1> QED BY <1>1, <1>2

LEMMA SessionNext ==
    ASSUME CountTypeOK, SessionOK, [CountNext]_countVars
    PROVE  SessionOK'
<1> USE DEF server, requests, floor, Active
<1>1. clock \in Nat /\ clock' \in Nat /\ clock <= clock' /\ session.startedAt \in Nat
      /\ marked \in Nat
  BY ClockAdvances DEF CountTypeOK, Stamps
<1>2. CASE UNCHANGED << session, taken, count, marked, publisher >>
  BY <1>1, <1>2 DEF SessionOK
<1>3. ASSUME NEW m \in BOOLEAN, TakeOff(m), UNCHANGED << session, taken, count, publisher >>
      PROVE  SessionOK'
  <2>1. session.status # "none" \/ marked' = marked
    BY <1>1, <1>3 DEF SessionOK, TakeOff
  <2> QED BY <1>1, <1>3, <2>1 DEF SessionOK
<1>4. ASSUME NEW m \in BOOLEAN, Sell(m) \/ PickUpOrder(m) \/ Shrink(m) PROVE SessionOK'
  BY <1>3, <1>4 DEF Sell, PickUpOrder, Shrink
<1>5. ASSUME NEW delta \in {-1, 1}, CommitMove(delta) PROVE SessionOK'
  BY <1>2, <1>3, <1>5 DEF CommitMove
<1>6. ASSUME OpenSession PROVE SessionOK'
  <2>1. session' = [status |-> "open", startedAt |-> clock + 1] /\ clock' = clock + 1
    BY <1>6 DEF OpenSession, Tick, Now
  <2>2. publisher' = "idle"
    BY <1>6 DEF OpenSession, SessionOK
  <2> QED BY <1>1, <2>1, <2>2 DEF SessionOK
<1>7. ASSUME NEW s \in Scans, TakeScan(s) PROVE SessionOK'
  BY <1>7 DEF SessionOK, TakeScan
<1>8. ASSUME NEW s \in Scans, ApplyScan(s) PROVE SessionOK'
  <2>1. session.status # "none"
    BY <1>8 DEF ApplyScan, SessionOK, CountTypeOK
  <2> QED BY <1>1, <1>8, <2>1 DEF SessionOK, ApplyScan
<1>9. ASSUME Recount PROVE SessionOK'
  BY <1>1, <1>9 DEF SessionOK, Recount
<1>10. ASSUME MoveToReview \/ CancelSession PROVE SessionOK'
  BY <1>1, <1>10 DEF SessionOK, MoveToReview, CancelSession, CountTypeOK
<1>11. ASSUME CheckPublish \/ AbortPublish PROVE SessionOK'
  BY <1>1, <1>11 DEF SessionOK, CheckPublish, AbortPublish
<1>12. ASSUME Publish PROVE SessionOK'
  BY <1>1, <1>12 DEF SessionOK, Publish, CountTypeOK
<1> QED
  BY <1>2, <1>4, <1>5, <1>6, <1>7, <1>8, <1>9, <1>10, <1>11, <1>12
  DEF CountNext, countVars, BookForLater, Return, BeginMove, AbortMove, SendScan,
      RecordDiscovered, ResolveDiscovered

LEMMA TallyNext ==
    ASSUME CountTypeOK, SessionOK, TallyOK, [CountNext]_countVars
    PROVE  TallyOK'
<1> USE DEF server, requests, floor, Active
<1>1. /\ clock \in Nat /\ clock' \in Nat /\ clock <= clock'
      /\ session.startedAt \in Nat /\ count.lastScan \in Nat /\ count.counted \in Nat
  BY ClockAdvances DEF CountTypeOK, Stamps
<1>2. IsFiniteSet(applied) /\ applied \subseteq taken
  BY FS_Subset DEF CountTypeOK, TallyOK
<1>3. CASE UNCHANGED << session, count, taken, applied >>
  BY <1>1, <1>3 DEF TallyOK
<1>4. ASSUME OpenSession PROVE TallyOK'
  <2>1. taken = {} /\ applied = {} /\ count.adjusted = None
    BY <1>2, <1>4 DEF OpenSession, SessionOK
  <2>2. count.counted = 0 /\ count.lastScan = 0
    BY <1>1, <2>1, FS_EmptySet DEF TallyOK
  <2> QED BY <1>4, <2>1, <2>2 DEF TallyOK, OpenSession
<1>5. ASSUME NEW s \in Scans, TakeScan(s) PROVE TallyOK'
  <2>1. IsFiniteSet(taken')
    BY <1>5, FS_AddElement DEF TakeScan, TallyOK
  <2> QED BY <1>5, <2>1 DEF TallyOK, TakeScan
<1>6. ASSUME NEW s \in Scans, ApplyScan(s) PROVE TallyOK'
  <2>1. CASE s \in applied
    BY <1>3, <1>6, <2>1 DEF ApplyScan, CountScan
  <2>2. CASE s \notin applied
    <3>1. /\ applied' = applied \cup {s} /\ clock' = clock + 1
          /\ count' = [count EXCEPT !.row = TRUE, !.counted = @ + 1, !.lastScan = clock + 1]
          /\ UNCHANGED << taken, session >>
      BY <1>6, <2>2 DEF ApplyScan, CountScan, Tick, Now
    <3>2. Cardinality(applied') = Cardinality(applied) + 1
      BY <1>2, <2>2, <3>1, FS_AddElement
    <3>3. /\ count'.counted = count.counted + 1 /\ count'.adjusted = count.adjusted
          /\ count'.lastScan = clock + 1
      BY <3>1 DEF CountTypeOK
    <3>4. session.startedAt <= clock
      BY <1>1, <1>6 DEF SessionOK, ApplyScan, CountTypeOK
    <3> QED BY <1>1, <3>1, <3>2, <3>3, <3>4 DEF TallyOK
  <2> QED BY <2>1, <2>2
<1>7. ASSUME Recount PROVE TallyOK'
  <2>1. /\ count' = [count EXCEPT !.adjusted = marked + unmarked, !.lastScan = clock + 1]
        /\ clock' = clock + 1 /\ UNCHANGED << taken, applied, session >>
    BY <1>7 DEF Recount, Tick, Now
  <2>2. /\ count'.counted = count.counted /\ count'.adjusted = marked + unmarked
        /\ count'.lastScan = clock + 1
    BY <2>1 DEF CountTypeOK
  <2>3. marked + unmarked \in Nat /\ marked + unmarked # None
    BY PhysicalCountAssumption DEF CountTypeOK
  <2>4. session.startedAt <= clock
    BY <1>1, <1>7 DEF SessionOK, Recount
  <2> QED BY <1>1, <2>1, <2>2, <2>3, <2>4 DEF TallyOK
<1>8. ASSUME MoveToReview \/ CancelSession \/ Publish PROVE TallyOK'
  <2>1. /\ count'.counted = count.counted /\ count'.adjusted = count.adjusted
        /\ count'.lastScan = count.lastScan /\ session'.startedAt = session.startedAt
        /\ UNCHANGED << taken, applied >>
    BY <1>8 DEF CountTypeOK, MoveToReview, CancelSession, Publish
  <2> QED BY <1>1, <2>1 DEF TallyOK
<1> QED
  BY <1>3, <1>4, <1>5, <1>6, <1>7, <1>8
  DEF CountNext, countVars, Sell, PickUpOrder, Shrink, BookForLater, Return, BeginMove,
      AbortMove, CommitMove, SendScan, RecordDiscovered, ResolveDiscovered, CheckPublish,
          AbortPublish

-----------------------------------------------------------------------------
(* The shelf, and the sales of what was counted.                           *)

LEMMA MarkedFinite ==
    ASSUME CountTypeOK
    PROVE  IsFiniteSet(MarkedSales) /\ Cardinality(MarkedSales) \in Nat
<1>1. Len(lines) \in Nat /\ DOMAIN lines = 1 .. Len(lines)
  BY DEF CountTypeOK
<1>2. IsFiniteSet(1 .. Len(lines))
  BY <1>1, FS_Interval
<1>3. IsFiniteSet(MarkedSales)
  BY <1>1, <1>2, FS_Subset DEF MarkedSales
<1> QED BY <1>3, FS_CardinalityType

(* A new line is one more marked sale, or none.                            *)
LEMMA MarkedAppend ==
    ASSUME CountTypeOK, NEW sold \in LineRows, lines' = Append(lines, sold)
    PROVE  /\ Cardinality(MarkedSales')
                = Cardinality(MarkedSales) + (IF sold.marked THEN 1 ELSE 0)
           /\ \A i \in DOMAIN lines' : \/ i \in DOMAIN lines /\ lines'[i] = lines[i]
                                       \/ lines'[i] = sold
<1>1. lines \in Seq(LineRows)
  BY DEF CountTypeOK
<1>2. /\ DOMAIN lines' = DOMAIN lines \cup {Len(lines) + 1}
      /\ Len(lines) + 1 \notin DOMAIN lines
      /\ \A i \in DOMAIN lines : lines'[i] = lines[i]
      /\ lines'[Len(lines) + 1] = sold
  BY <1>1, SeqAppend
<1>3. CASE sold.marked
  <2>1. MarkedSales' = MarkedSales \cup {Len(lines) + 1}
    BY <1>2, <1>3 DEF MarkedSales
  <2>2. Len(lines) + 1 \notin MarkedSales
    BY <1>2 DEF MarkedSales
  <2> QED BY <1>2, <1>3, <2>1, <2>2, MarkedFinite, FS_AddElement
<1>4. CASE ~sold.marked
  <2>1. MarkedSales' = MarkedSales
    BY <1>2, <1>4 DEF MarkedSales
  <2> QED BY <1>2, <1>4, <2>1, MarkedFinite
<1> QED BY <1>3, <1>4

LEMMA ShelfNext ==
    ASSUME CountTypeOK, SessionOK, TallyOK, ShelfOK, [CountNext]_countVars
    PROVE  ShelfOK'
<1> USE DEF server, requests, floor, Active
<1> DEFINE Base == IF count.adjusted = None THEN Cardinality(taken) ELSE count.adjusted
<1>1. /\ clock \in Nat /\ session.startedAt \in Nat /\ marked \in Nat /\ unmarked \in Nat
      /\ Cardinality(MarkedSales) \in Nat
  BY ClockAdvances, MarkedFinite DEF CountTypeOK, Stamps
<1>2. CASE UNCHANGED << lines, session, count, taken, marked, gone >>
  BY <1>2 DEF ShelfOK, MarkedSales
(* A unit leaves without a sale.                                           *)
<1>3. ASSUME NEW m \in BOOLEAN, TakeOff(m), gone' = (gone \/ m),
             UNCHANGED << lines, session, count, taken >>
      PROVE  ShelfOK'
  BY <1>3 DEF ShelfOK, MarkedSales, TakeOff, CountTypeOK
<1>4. ASSUME NEW m \in BOOLEAN, PickUpOrder(m) \/ Shrink(m) PROVE ShelfOK'
  BY <1>3, <1>4 DEF PickUpOrder, Shrink
<1>5. ASSUME NEW delta \in {-1, 1}, CommitMove(delta) PROVE ShelfOK'
  BY <1>2, <1>3, <1>5 DEF CommitMove
<1>6. ASSUME NEW m \in BOOLEAN, Sell(m) PROVE ShelfOK'
  <2> DEFINE sold == [at |-> clock + 1, marked |-> m]
  <2>1. /\ TakeOff(m) /\ lines' = Append(lines, sold)
        /\ UNCHANGED << session, count, taken, gone >>
    BY <1>6 DEF Sell, Now
  <2>2. sold \in LineRows /\ sold.marked = m /\ sold.at = clock + 1
    BY <1>6, TickType DEF LineRows, Sell
  <2> HIDE DEF sold
  <2>3. m => session.status # "none" /\ sold.at >= session.startedAt
    BY <1>1, <2>1, <2>2 DEF TakeOff, SessionOK
  <2>4. marked' = marked - (IF m THEN 1 ELSE 0)
    BY <1>1, <2>1 DEF TakeOff
  <2>5. /\ Cardinality(MarkedSales') = Cardinality(MarkedSales) + (IF m THEN 1 ELSE 0)
        /\ \A i \in DOMAIN lines' : \/ i \in DOMAIN lines /\ lines'[i] = lines[i]
                                    \/ lines'[i] = sold
    BY <2>1, <2>2, MarkedAppend
  <2>6. \A i \in DOMAIN lines' : lines'[i].marked
            => session'.status # "none" /\ lines'[i].at >= session'.startedAt
    BY <2>1, <2>2, <2>3, <2>5 DEF ShelfOK
  <2>7. ~gone' => marked' + Cardinality(MarkedSales') = Base'
    <3>1. ~gone => marked + Cardinality(MarkedSales) = Base
      BY DEF ShelfOK
    <3>2. Base' = Base /\ gone' = gone
      BY <2>1
    <3> HIDE DEF Base
    <3> QED BY <1>1, <2>4, <2>5, <3>1, <3>2
  <2> QED BY <2>6, <2>7 DEF ShelfOK
<1>7. ASSUME BookForLater PROVE ShelfOK'
  <2> DEFINE sold == [at |-> clock + 1, marked |-> FALSE]
  <2>1. /\ lines' = Append(lines, sold)
        /\ UNCHANGED << session, count, taken, gone, marked >>
    BY <1>7 DEF BookForLater, Now
  <2>2. sold \in LineRows /\ sold.marked = FALSE
    BY <1>7, TickType DEF LineRows, BookForLater
  <2> HIDE DEF sold
  <2>3. /\ Cardinality(MarkedSales') = Cardinality(MarkedSales)
        /\ \A i \in DOMAIN lines' : \/ i \in DOMAIN lines /\ lines'[i] = lines[i]
                                    \/ lines'[i] = sold
    BY <1>1, <2>1, <2>2, MarkedAppend
  <2> QED BY <2>1, <2>2, <2>3 DEF ShelfOK
<1>8. ASSUME OpenSession PROVE ShelfOK'
  BY <1>8 DEF ShelfOK, OpenSession, MarkedSales
<1>9. ASSUME NEW s \in Scans, TakeScan(s) PROVE ShelfOK'
  <2>1. Cardinality(taken') = Cardinality(taken) + 1 /\ Cardinality(taken) \in Nat
    BY <1>9, FS_AddElement, FS_CardinalityType DEF TakeScan, TallyOK
  <2>2. MarkedSales' = MarkedSales
    BY <1>9 DEF TakeScan, MarkedSales
  <2>3. /\ marked' = marked + 1 /\ gone' = (gone \/ count.adjusted # None)
        /\ UNCHANGED << lines, session, count >>
    BY <1>9 DEF TakeScan
  <2>4. ~gone' => marked' + Cardinality(MarkedSales') = Base'
    <3> SUFFICES ASSUME ~gone'
                 PROVE  marked' + Cardinality(MarkedSales') = Cardinality(taken')
      BY <2>3
    <3>1. marked + Cardinality(MarkedSales) = Cardinality(taken)
      BY <2>3 DEF ShelfOK
    <3> QED BY <1>1, <2>1, <2>2, <2>3, <3>1
  <2> QED BY <2>3, <2>4 DEF ShelfOK
<1>10. ASSUME Recount PROVE ShelfOK'
  <2>1. \A i \in DOMAIN lines' : ~lines'[i].marked
    <3>1. lines' = [i \in DOMAIN lines |-> [lines[i] EXCEPT !.marked = FALSE]]
      BY <1>10 DEF Recount
    <3>2. \A i \in DOMAIN lines : lines[i] \in LineRows
      BY DEF CountTypeOK
    <3> QED BY <3>1, <3>2 DEF LineRows
  <2>2. MarkedSales' = {}
    BY <2>1 DEF MarkedSales
  <2>3. Cardinality(MarkedSales') = 0
    BY <2>2, FS_EmptySet
  <2>4. /\ count'.adjusted = marked + unmarked /\ marked' = marked + unmarked
    BY <1>10 DEF Recount, CountTypeOK
  <2>5. marked + unmarked \in Nat /\ marked + unmarked # None
    BY <1>1, PhysicalCountAssumption
  <2> QED BY <2>1, <2>3, <2>4, <2>5 DEF ShelfOK
<1>11. ASSUME NEW s \in Scans, ApplyScan(s) PROVE ShelfOK'
  <2>1. count'.adjusted = count.adjusted /\ UNCHANGED << lines, session, taken, marked, gone >>
    BY <1>11 DEF ApplyScan, CountScan, CountTypeOK
  <2> QED BY <2>1 DEF ShelfOK, MarkedSales
<1>12. ASSUME MoveToReview \/ CancelSession \/ Publish PROVE ShelfOK'
  <2>1. /\ count'.adjusted = count.adjusted /\ session'.startedAt = session.startedAt
        /\ session'.status # "none" /\ UNCHANGED << lines, taken, marked, gone >>
    BY <1>12 DEF MoveToReview, CancelSession, Publish, CountTypeOK
  <2> QED BY <2>1 DEF ShelfOK, MarkedSales
<1> QED
  BY <1>2, <1>4, <1>5, <1>6, <1>7, <1>8, <1>9, <1>10, <1>11, <1>12
  DEF CountNext, countVars, Return, BeginMove, AbortMove, SendScan, RecordDiscovered,
      ResolveDiscovered, CheckPublish, AbortPublish

-----------------------------------------------------------------------------
(* What the movement check sees.                                           *)

LEMMA SeenNext ==
    ASSUME CountTypeOK, SessionOK, SeenOK, [CountNext]_countVars
    PROVE  SeenOK'
<1> USE DEF server, requests, floor, Active
<1>1. /\ clock \in Nat /\ session.startedAt \in Nat /\ openedAt \in Nat
      /\ Len(ledger) \in Nat /\ openedAt <= Len(ledger) /\ ledger \in Seq(Movements)
      /\ mover \in Nat \cup {None}
  BY ClockAdvances DEF CountTypeOK, Stamps
<1>2. CASE UNCHANGED << ledger, session, publisher, openedAt, escaped >>
  BY <1>2 DEF SeenOK, Blocking
(* A movement is posted: a sale, one stamped during the count while no     *)
(* publication is past its check, or one that escapes.                     *)
<1>3. ASSUME NEW move \in Movements, ledger' = Append(ledger, move),
             UNCHANGED << session, publisher, openedAt >>, escaped => escaped',
             \/ move.type = "sale"
             \/ escaped'
             \/ publisher # "checked" /\ (Active => move.at >= session.startedAt)
      PROVE  SeenOK'
  <2>1. /\ Len(ledger') = Len(ledger) + 1 /\ ledger'[Len(ledger) + 1] = move
        /\ \A i \in 1 .. Len(ledger) : ledger'[i] = ledger[i]
    <3>1. DOMAIN ledger = 1 .. Len(ledger)
      BY <1>1
    <3> QED BY <1>1, <1>3, <3>1, SeqAppend
  <2>2. \A i \in 1 .. Len(ledger') : i = Len(ledger) + 1 \/ i \in 1 .. Len(ledger)
    BY <1>1, <2>1
  <2>3. \A i \in openedAt' + 1 .. Len(ledger') :
            i = Len(ledger) + 1 \/ i \in openedAt + 1 .. Len(ledger)
    BY <1>1, <1>3, <2>1
  <2>4. SUFFICES ASSUME ~escaped'
                 PROVE  /\ Active' => \A i \in openedAt' + 1 .. Len(ledger') :
                              ledger'[i].type \in NonSale => ledger'[i].at >= session'.startedAt
                        /\ publisher' = "checked" =>
                              \A i \in 1 .. Len(ledger') :
                                  ~(/\ ledger'[i].type \in NonSale
                                    /\ ledger'[i].at >= session'.startedAt)
    BY DEF SeenOK, Blocking
  <2>5. "sale" \notin NonSale
    BY DEF NonSale
  <2>6. ASSUME Active', NEW i \in openedAt' + 1 .. Len(ledger'), ledger'[i].type \in NonSale
        PROVE  ledger'[i].at >= session'.startedAt
    <3>1. openedAt + 1 .. Len(ledger) \subseteq 1 .. Len(ledger)
      BY <1>1
    <3> QED BY <1>3, <2>1, <2>3, <2>4, <2>5, <2>6, <3>1 DEF SeenOK
  <2>7. ASSUME publisher' = "checked", NEW i \in 1 .. Len(ledger')
        PROVE  ~(ledger'[i].type \in NonSale /\ ledger'[i].at >= session'.startedAt)
    BY <1>3, <2>1, <2>2, <2>4, <2>5, <2>7 DEF SeenOK, Blocking
  <2> QED BY <2>6, <2>7
<1>4. ASSUME NEW m \in BOOLEAN, Sell(m) \/ PickUpOrder(m) PROVE SeenOK'
  <2> DEFINE move == [type |-> "sale", delta |-> -1, at |-> Now]
  <2>1. move \in Movements /\ move.type = "sale"
    BY <1>4, TickType DEF Sell, PickUpOrder, Movements
  <2>2. ledger' = Append(ledger, move) /\ UNCHANGED << session, publisher, openedAt, escaped >>
    BY <1>4 DEF Sell, PickUpOrder, Post
  <2> HIDE DEF move
  <2> QED BY <1>3, <2>1, <2>2
<1>5. ASSUME Return PROVE SeenOK'
  <2> DEFINE move == [type |-> "return_in", delta |-> 1, at |-> Now]
  <2>1. move \in Movements /\ move.at = clock + 1
    BY <1>5, TickType DEF Return, Movements, NonSale
  <2>2. /\ ledger' = Append(ledger, move) /\ UNCHANGED << session, publisher, openedAt >>
        /\ escaped' = (escaped \/ publisher = "checked")
    BY <1>5 DEF Return, Post
  <2> HIDE DEF move
  <2>3. Active => move.at >= session.startedAt
    BY <1>1, <2>1 DEF SessionOK
  <2> QED BY <1>3, <2>1, <2>2, <2>3
<1>6. ASSUME NEW delta \in {-1, 1}, CommitMove(delta) PROVE SeenOK'
  <2> DEFINE move == [type |-> "receipt_or_adjustment", delta |-> delta, at |-> mover]
  <2>1. move \in Movements /\ move.at = mover /\ mover \in Nat
    BY <1>1, <1>6 DEF CommitMove, Movements, NonSale, CountTypeOK
  <2>2. /\ ledger' = Append(ledger, move) /\ UNCHANGED << session, publisher, openedAt >>
        /\ escaped' = (escaped \/ publisher = "checked"
                       \/ (Active /\ mover < session.startedAt))
    BY <1>6 DEF CommitMove, Post
  <2> HIDE DEF move
  <2>3. escaped' \/ (publisher # "checked" /\ (Active => move.at >= session.startedAt))
    <3>1. CASE publisher = "checked" \/ (Active /\ mover < session.startedAt)
      BY <2>2, <3>1
    <3>2. CASE publisher # "checked" /\ ~(Active /\ mover < session.startedAt)
      BY <1>1, <2>1, <3>2
    <3> QED BY <3>1, <3>2
  <2> QED BY <1>3, <2>1, <2>2, <2>3
<1>7. ASSUME OpenSession PROVE SeenOK'
  <2>1. /\ session'.status = "open" /\ openedAt' = Len(ledger) /\ ledger' = ledger
        /\ publisher' = "idle"
    BY <1>7 DEF OpenSession, SessionOK
  <2>2. openedAt' + 1 .. Len(ledger') = {}
    BY <1>1, <2>1
  <2> QED BY <2>1, <2>2 DEF SeenOK
<1>8. ASSUME MoveToReview \/ CancelSession PROVE SeenOK'
  <2>1. /\ session'.startedAt = session.startedAt /\ publisher = "idle" /\ Active
        /\ UNCHANGED << ledger, publisher, openedAt, escaped >>
    BY <1>8 DEF MoveToReview, CancelSession, CountTypeOK
  <2> QED BY <2>1 DEF SeenOK
<1>9. ASSUME CheckPublish PROVE SeenOK'
  BY <1>9 DEF SeenOK, CheckPublish, Blocking
<1>10. ASSUME AbortPublish PROVE SeenOK'
  BY <1>10 DEF SeenOK, AbortPublish
<1>11. ASSUME Publish PROVE SeenOK'
  BY <1>11 DEF SeenOK, Publish, CountTypeOK
<1> QED
  BY <1>2, <1>4, <1>5, <1>6, <1>7, <1>8, <1>9, <1>10, <1>11
  DEF CountNext, countVars, BookForLater, BeginMove, AbortMove, Shrink, TakeScan, SendScan,
      ApplyScan, RecordDiscovered, ResolveDiscovered, Recount

-----------------------------------------------------------------------------
(* The invariant, and what follows from it.                                *)

LEMMA CountInitOK == CountInit => CountIInv
<1> SUFFICES ASSUME CountInit PROVE CountIInv
  OBVIOUS
<1> USE PhysicalCountAssumption DEF CountInit
<1>1. CountTypeOK
  <2>1. /\ session \in [status: Statuses, startedAt: Stamps]
        /\ count \in [row: BOOLEAN, counted: Nat, adjusted: Nat \cup {None}, lastScan: Stamps]
    BY DEF Statuses, Stamps
  <2>2. ledger \in Seq(Movements) /\ lines \in Seq(LineRows) /\ Len(ledger) = 0
    OBVIOUS
  <2>3. /\ onHand \in Int /\ marked \in Nat /\ unmarked \in Nat /\ owed \in Nat
        /\ clock \in Stamps /\ openedAt \in 0 .. Len(ledger)
    BY <2>2 DEF Stamps
  <2>4. applied \subseteq taken /\ inFlight \subseteq taken /\ taken \subseteq Scans
    OBVIOUS
  <2>5. /\ pending \in BOOLEAN /\ gone \in BOOLEAN /\ escaped \in BOOLEAN
        /\ publisher \in {"idle", "checked"} /\ mover \in Stamps \cup {None}
    OBVIOUS
  <2> HIDE DEF CountInit
  <2> QED BY <2>1, <2>2, <2>3, <2>4, <2>5 DEF CountTypeOK
<1>2. LedgerExact
  <2>1. Posted = 0
    BY SumEmpty DEF Posted
  <2> QED BY <2>1 DEF LedgerExact
<1>3. SessionOK
  BY DEF SessionOK
<1>4. TallyOK
  BY FS_EmptySet DEF TallyOK
<1>5. ShelfOK
  <2>1. MarkedSales = {}
    BY DEF MarkedSales
  <2> QED BY <2>1, FS_EmptySet DEF ShelfOK
<1>6. SeenOK
  BY DEF SeenOK, Active
<1> QED BY <1>1, <1>2, <1>3, <1>4, <1>5, <1>6 DEF CountIInv

(* The invariant holds throughout.                                         *)
LEMMA CountInductive == CountSpec => []CountIInv
<1>1. CountIInv /\ [CountNext]_countVars => CountIInv'
  BY CountTypeNext, ExactNext, SessionNext, TallyNext, ShelfNext, SeenNext DEF CountIInv
<1> QED BY <1>1, CountInitOK, PTL DEF CountSpec

(* Every variable keeps its type; in particular no unit is counted, taken  *)
(* off the shelf or owed below zero.                                       *)
THEOREM CountTypeCorrect == CountSpec => []CountTypeOK
<1>1. CountIInv => CountTypeOK
  BY DEF CountIInv
<1> QED BY <1>1, CountInductive, PTL

(* Whatever sells, returns, moves and publishes, the stock on hand is the  *)
(* opening stock plus the ledger: a publication posts the difference from  *)
(* the stock it overwrites.                                                *)
THEOREM LedgerStaysExact == CountSpec => []LedgerExact
<1>1. CountIInv => LedgerExact
  BY DEF CountIInv
<1> QED BY <1>1, CountInductive, PTL

(* A count that went straight has counted the shelf: the sales that come   *)
(* off it at publication are those of units it had counted.                *)
LEMMA StraightCount ==
    ASSUME CountIInv, session.status # "none", Straight
    PROVE  FinalStock = marked + unmarked
<1> USE DEF CountIInv
<1>1. /\ marked \in Nat /\ Cardinality(MarkedSales) \in Nat /\ unmarked = 0 /\ ~gone
      /\ session.startedAt \in Nat /\ session.startedAt >= 1
      /\ count.lastScan \in Nat /\ count.counted \in Nat
      /\ \A i \in DOMAIN lines : lines[i].at \in Nat
  <2>1. \A i \in DOMAIN lines : lines[i] \in LineRows
    BY DEF CountTypeOK
  <2> QED BY <2>1, MarkedFinite DEF Straight, CountTypeOK, Stamps, SessionOK, LineRows
<1>2. Effective = marked + Cardinality(MarkedSales)
  <2>1. CASE count.adjusted = None
    <3>1. taken = applied
      BY <2>1 DEF Straight, CountTypeOK
    <3> QED BY <1>1, <2>1, <3>1 DEF Effective, TallyOK, ShelfOK
  <2>2. CASE count.adjusted # None
    BY <1>1, <2>2 DEF Effective, ShelfOK
  <2> QED BY <2>1, <2>2
<1>3. CASE count.counted > 0 \/ count.adjusted # None
  <2>1. Cutoff = count.lastScan /\ count.lastScan >= session.startedAt
    BY <1>1, <1>3 DEF Cutoff, TallyOK
  <2>2. MarkedSales = {i \in DOMAIN lines : lines[i].at >= Cutoff}
    <3>1. ASSUME NEW i \in DOMAIN lines
          PROVE  lines[i].marked <=> lines[i].at >= count.lastScan
      <4>1. lines[i].marked => lines[i].at >= session.startedAt
        BY DEF ShelfOK
      <4>2. lines[i].at >= session.startedAt
               => (lines[i].marked <=> count.lastScan \in 1 .. lines[i].at)
        BY DEF Straight
      <4> QED BY <1>1, <2>1, <4>1, <4>2
    <3> QED BY <2>1, <3>1 DEF MarkedSales
  <2>3. SalesSince(Cutoff) = Cardinality(MarkedSales)
    BY <2>2 DEF SalesSince
  <2> QED BY <1>1, <1>2, <2>3 DEF FinalStock
<1>4. CASE ~(count.counted > 0 \/ count.adjusted # None)
  <2>1. Effective = 0 /\ marked = 0
    BY <1>1, <1>2, <1>4 DEF Effective
  <2> QED BY <1>1, <2>1, FinalStockType DEF FinalStock
<1> QED BY <1>3, <1>4

(* A session is published by a publication that was past its checks.       *)
LEMMA OnlyPublish ==
    ASSUME CountTypeOK, CountNext, session'.status = "published", session.status # "published"
    PROVE  Publish
<1>1. CASE session' = session
  BY <1>1
<1>2. ASSUME OpenSession PROVE FALSE
  BY <1>2 DEF OpenSession
<1>3. ASSUME MoveToReview \/ CancelSession PROVE FALSE
  BY <1>3 DEF MoveToReview, CancelSession, CountTypeOK
<1> QED
  BY <1>1, <1>2, <1>3
  DEF CountNext, server, requests, floor, Sell, PickUpOrder, Shrink, BookForLater, Return,
      BeginMove, AbortMove, CommitMove, Recount, TakeScan, SendScan, ApplyScan,
      RecordDiscovered, ResolveDiscovered, CheckPublish, AbortPublish

(* Publishing a straight count leaves on the books what is on the shelf.   *)
THEOREM StraightCountsPublishTheShelf == CountSpec => PublishedIsShelf
<1>1. CountIInv /\ [CountNext]_countVars
        => [publisher = "checked" /\ session'.status = "published"
            /\ session.status # "published" /\ Straight
            => onHand' = marked + unmarked]_countVars
  <2> SUFFICES ASSUME CountIInv, CountNext, publisher = "checked",
                      session'.status = "published", session.status # "published", Straight
               PROVE  onHand' = marked + unmarked
    OBVIOUS
  <2>1. Publish
    BY OnlyPublish DEF CountIInv
  <2>2. onHand' = FinalStock
    <3>1. FinalStock \in Nat /\ onHand \in Int
      BY FinalStockType DEF CountIInv, CountTypeOK
    <3> QED BY <2>1, <3>1 DEF Publish, Delta
  <2>3. session.status # "none"
    BY DEF CountIInv, SessionOK
  <2> QED BY <2>2, <2>3, StraightCount
<1> QED BY <1>1, CountInductive, PTL DEF CountSpec, PublishedIsShelf

(* A publication overwrites a return, receipt or adjustment of the count's *)
(* own time only if that came after the movement check, or began before    *)
(* the count and committed during it.                                      *)
THEOREM OnlyUnseenMovesAreOverwritten == CountSpec => OverwritesOnlyUnseen
<1>1. CountIInv /\ [CountNext]_countVars => [Publishes /\ MovedDuringCount => escaped]_countVars
  <2> SUFFICES ASSUME CountIInv, CountNext, Publishes, MovedDuringCount, ~escaped
               PROVE  FALSE
    BY DEF CountIInv, CountTypeOK
  <2>1. publisher = "checked"
    BY OnlyPublish DEF CountIInv, Publishes, Publish
  <2>2. PICK i \in openedAt + 1 .. Len(ledger) : ledger[i].type \in NonSale
    BY DEF MovedDuringCount
  <2>3. ledger[i].at >= session.startedAt
    BY <2>2 DEF CountIInv, SeenOK, Active, Publishes
  <2>4. i \in 1 .. Len(ledger)
    BY DEF CountIInv, CountTypeOK
  <2> QED BY <2>1, <2>2, <2>3, <2>4 DEF CountIInv, SeenOK, Blocking
<1> QED BY <1>1, CountInductive, PTL DEF CountSpec, OverwritesOnlyUnseen
-----------------------------------------------------------------------------
(* Fulfilment.                                                             *)

(* Nothing has been done for a line that was not sold.                     *)
FreshOK ==
    \A l \in Lines : line[l].status = "none" =>
        custody[l] = 0 /\ po[l].status = "none" /\ po[l].received = 0

(* Units that are, or should be, reserved for a special order of which its *)
(* own PO line brought n: all that remain once the line is received.       *)
DueIn(row, n) ==
    IF ~(row.status = "open" /\ row.kind = "special_order" /\ ~row.fulfilled) THEN 0
    ELSE IF row.received THEN row.quantity - row.removed
         ELSE Least(n, row.quantity - row.removed)
Due == Total([l \in Lines |-> DueIn(line[l], po[l].received)])

(* Units set aside for a layaway.                                          *)
AsideIn(row) ==
    IF row.status = "open" /\ row.kind = "layaway" /\ ~row.fulfilled
    THEN row.quantity - row.removed ELSE 0
Aside == Total([l \in Lines |-> AsideIn(line[l])])

DueOK == ~overdrawn => Due <= reserved /\ Aside <= layaway

IInv == TypeOK /\ FreshOK /\ BooksMatchShelf /\ DueOK

-----------------------------------------------------------------------------
(* Sums over the lines.                                                    *)

LEMMA TotalChange ==
    ASSUME NEW f, NEW g, NEW l \in Lines,
           \A k \in Lines : f[k] \in Int /\ g[k] \in Int,
           \A k \in Lines : k # l => f[k] = g[k]
    PROVE  /\ Total(g) = Total(f) + (g[l] - f[l])
           /\ Total(f) \in Int /\ Total(g) \in Int
<1>1. SumAlong(ListOf(Lines), g) = SumAlong(ListOf(Lines), f) + (g[l] - f[l])
  BY FulfilmentAssumption, SetSumChange
<1>2. SumAlong(ListOf(Lines), f) \in Int /\ SumAlong(ListOf(Lines), g) \in Int
  BY FulfilmentAssumption, SetSumInt
<1> QED BY <1>1, <1>2 DEF Total, LineList

LEMMA TotalNat ==
    ASSUME NEW f, \A k \in Lines : f[k] \in Nat
    PROVE  Total(f) \in Nat /\ \A k \in Lines : f[k] <= Total(f)
BY FulfilmentAssumption, SetSumNat DEF Total, LineList

LEMMA TotalLeq ==
    ASSUME NEW f, NEW g, \A k \in Lines : f[k] \in Int /\ g[k] \in Int /\ f[k] <= g[k]
    PROVE  Total(f) <= Total(g) /\ Total(f) \in Int /\ Total(g) \in Int
BY FulfilmentAssumption, SetSumLeq, SetSumInt DEF Total, LineList

(* What a line record says in numbers.                                     *)
LEMMA LineNumbers ==
    ASSUME TypeOK, NEW l \in Lines
    PROVE  /\ line[l] \in LineRecords /\ po[l].received \in Nat
           /\ line[l].quantity \in Nat /\ line[l].removed \in Nat
           /\ Remaining(l) \in Nat /\ Remaining(l) <= line[l].quantity
           /\ Remaining(l) = line[l].quantity - line[l].removed
           /\ line[l].quantity <= MaxQuantity /\ MaxQuantity \in Nat
           /\ custody[l] \in Nat /\ custody[l] <= MaxQuantity
           /\ custody[l] <= Held /\ Held \in Nat /\ shelf \in Nat
<1>1. line[l] \in LineRecords /\ line[l].removed <= line[l].quantity
      /\ po[l].received \in Nat /\ custody[l] \in 0 .. MaxQuantity /\ shelf \in Nat
  BY DEF TypeOK
<1>2. line[l].quantity \in 1 .. MaxQuantity /\ line[l].removed \in 0 .. MaxQuantity
  BY <1>1 DEF LineRecords, Quantities
<1>3. custody[l] <= Held /\ Held \in Nat
  <2>1. \A k \in Lines : custody[k] \in Nat
    BY FulfilmentAssumption DEF TypeOK
  <2> QED BY <2>1, TotalNat DEF Held
<1> QED BY <1>1, <1>2, <1>3, FulfilmentAssumption DEF Remaining

LEMMA HeldNat ==
    ASSUME TypeOK
    PROVE  Held \in Nat
<1>1. \A k \in Lines : custody[k] \in Nat
  BY FulfilmentAssumption DEF TypeOK
<1> QED BY <1>1, TotalNat DEF Held

(* Units of a line come into custody, or leave it.                         *)
LEMMA CustodyChange ==
    ASSUME TypeOK, NEW l \in Lines, NEW c \in 0 .. MaxQuantity,
           custody' = [custody EXCEPT ![l] = c]
    PROVE  /\ Held' = Held + (c - custody[l]) /\ Held' \in Int
           /\ custody' \in [Lines -> 0 .. MaxQuantity]
<1>1. custody \in [Lines -> 0 .. MaxQuantity] /\ MaxQuantity \in Nat
  BY FulfilmentAssumption DEF TypeOK
<1>2. \A k \in Lines : custody[k] \in Int /\ custody'[k] \in Int
  BY <1>1
<1>3. \A k \in Lines : k # l => custody[k] = custody'[k]
  BY <1>1
<1>4. Total(custody') = Total(custody) + (custody'[l] - custody[l])
      /\ Total(custody') \in Int
  BY <1>2, <1>3, TotalChange
<1> QED BY <1>1, <1>4 DEF Held

(* One line is written.                                                    *)
LEMMA LineWrite ==
    ASSUME TypeOK, NEW l \in Lines, NEW r \in LineRecords, r.removed <= r.quantity,
           line' = [line EXCEPT ![l] = r]
    PROVE  /\ line' \in [Lines -> LineRecords]
           /\ \A k \in Lines : line'[k].removed <= line'[k].quantity
           /\ \A k \in Lines : line'[k] = IF k = l THEN r ELSE line[k]
BY DEF TypeOK

(* What a line is due, in numbers.                                         *)
LEMMA DueNumbers ==
    ASSUME NEW row \in LineRecords, row.removed <= row.quantity, NEW n \in Nat
    PROVE  /\ row.quantity \in Nat /\ row.removed \in Nat /\ row.quantity <= MaxQuantity
           /\ DueIn(row, n) \in Nat /\ AsideIn(row) \in Nat
           /\ DueIn(row, n) <= row.quantity - row.removed
BY FulfilmentAssumption DEF LineRecords, Quantities, DueIn, AsideIn, Least

(* What is promised stays set aside if the line written gets no more than  *)
(* its bucket does.                                                        *)
LEMMA DueStep ==
    ASSUME TypeOK, TypeOK', DueOK, NEW l \in Lines,
           \A k \in Lines : k # l => line'[k] = line[k] /\ po'[k].received = po[k].received,
           ~overdrawn' =>
               /\ ~overdrawn
               /\ DueIn(line'[l], po'[l].received) - DueIn(line[l], po[l].received)
                     <= reserved' - reserved
               /\ AsideIn(line'[l]) - AsideIn(line[l]) <= layaway' - layaway
    PROVE  DueOK'
<1> DEFINE f == [k \in Lines |-> DueIn(line[k], po[k].received)]
           g == [k \in Lines |-> DueIn(line'[k], po'[k].received)]
           a == [k \in Lines |-> AsideIn(line[k])]
           b == [k \in Lines |-> AsideIn(line'[k])]
<1>1. /\ \A k \in Lines : line[k] \in LineRecords /\ line[k].removed <= line[k].quantity
                          /\ po[k].received \in Nat
      /\ \A k \in Lines : line'[k] \in LineRecords /\ line'[k].removed <= line'[k].quantity
                          /\ po'[k].received \in Nat
  BY FulfilmentAssumption DEF TypeOK
<1>2. \A k \in Lines : f[k] \in Int /\ g[k] \in Int /\ a[k] \in Int /\ b[k] \in Int
  <2>1. ASSUME NEW k \in Lines PROVE f[k] \in Int /\ a[k] \in Int
    BY <1>1, DueNumbers
  <2>2. ASSUME NEW k \in Lines PROVE g[k] \in Int /\ b[k] \in Int
    <3>1. DueIn(line'[k], po'[k].received) \in Nat /\ AsideIn(line'[k]) \in Nat
      <4> DEFINE row == line'[k]
                 n == po'[k].received
      <4>1. row \in LineRecords /\ row.removed <= row.quantity /\ n \in Nat
        BY <1>1
      <4> HIDE DEF row, n
      <4>2. DueIn(row, n) \in Nat /\ AsideIn(row) \in Nat
        BY <4>1, DueNumbers
      <4> QED BY <4>2 DEF row, n
    <3> QED BY <3>1
  <2> QED BY <2>1, <2>2
<1>3. \A k \in Lines : k # l => f[k] = g[k] /\ a[k] = b[k]
  OBVIOUS
<1>4. /\ f[l] = DueIn(line[l], po[l].received) /\ g[l] = DueIn(line'[l], po'[l].received)
      /\ a[l] = AsideIn(line[l]) /\ b[l] = AsideIn(line'[l])
  OBVIOUS
<1>5. Due = Total(f) /\ Due' = Total(g) /\ Aside = Total(a) /\ Aside' = Total(b)
  BY DEF Due, Aside
<1> HIDE DEF f, g, a, b
<1>6. Total(g) = Total(f) + (g[l] - f[l]) /\ Total(f) \in Int
  BY <1>2, <1>3, TotalChange
<1>7. Total(b) = Total(a) + (b[l] - a[l]) /\ Total(a) \in Int
  BY <1>2, <1>3, TotalChange
<1>8. reserved \in Int /\ reserved' \in Int /\ layaway \in Int /\ layaway' \in Int
  BY DEF TypeOK
<1>9. SUFFICES ASSUME ~overdrawn' PROVE Due' <= reserved' /\ Aside' <= layaway'
  BY DEF DueOK
<1>10. Due <= reserved /\ Aside <= layaway
  BY <1>9 DEF DueOK
<1> QED BY <1>2, <1>4, <1>5, <1>6, <1>7, <1>8, <1>9, <1>10

-----------------------------------------------------------------------------
(* Every action keeps the invariant: checkout.                             *)

(* The row a line gets at checkout.                                        *)
NewRow(kind, q) ==
    [status |-> "open", kind |-> kind, quantity |-> q, removed |-> 0,
     fulfilled |-> kind \in {"takeaway", "pickup_later"},
     lifecycle |-> CASE kind = "pickup_later" -> "ready_for_pickup"
                     [] kind = "takeaway" -> "picked_up"
                     [] OTHER -> "ntbo",
     received |-> FALSE]

LEMMA BookRow ==
    ASSUME IInv, NEW l \in Lines, line[l].status = "none", NEW kind \in Kinds,
           NEW q \in Quantities, Book(l, kind, q)
    PROVE  /\ line' \in [Lines -> LineRecords]
           /\ \A k \in Lines : line'[k].removed <= line'[k].quantity
           /\ \A k \in Lines : line'[k] = IF k = l THEN NewRow(kind, q) ELSE line[k]
           /\ custody[l] = 0 /\ q \in Nat
           /\ DueIn(line[l], po[l].received) = 0 /\ AsideIn(line[l]) = 0
           /\ DueIn(line'[l], po[l].received) = 0
           /\ AsideIn(line'[l]) = IF kind = "layaway" THEN q ELSE 0
<1> DEFINE row == NewRow(kind, q)
<1>1. row \in LineRecords /\ row.removed <= row.quantity /\ q \in Nat
  BY FulfilmentAssumption DEF NewRow, LineRecords, Kinds, Quantities
<1>2. line' = [line EXCEPT ![l] = row]
  BY DEF Book, NewRow
<1>3. /\ row.status = "open" /\ row.kind = kind /\ row.quantity = q /\ row.removed = 0
      /\ (row.fulfilled <=> kind \in {"takeaway", "pickup_later"}) /\ ~row.received
  BY DEF NewRow
<1> HIDE DEF row
<1>4. /\ line' \in [Lines -> LineRecords]
      /\ \A k \in Lines : line'[k].removed <= line'[k].quantity
      /\ \A k \in Lines : line'[k] = IF k = l THEN row ELSE line[k]
  BY <1>1, <1>2, LineWrite DEF IInv
<1>5. custody[l] = 0 /\ po[l].received = 0
  BY DEF IInv, FreshOK
<1>6. DueIn(line[l], po[l].received) = 0 /\ AsideIn(line[l]) = 0
  BY DEF DueIn, AsideIn
<1>7. DueIn(row, 0) = 0 /\ AsideIn(row) = IF kind = "layaway" THEN q ELSE 0
  <2>1. DueIn(row, 0) = 0
    BY <1>1, <1>3 DEF DueIn, Least
  <2>2. CASE kind = "layaway"
    <3>1. ~row.fulfilled /\ row.quantity - row.removed = q
      <4>1. kind \notin {"takeaway", "pickup_later"}
        BY <2>2
      <4> QED BY <1>1, <1>3, <4>1
    <3>2. AsideIn(row) = q
      BY <1>3, <2>2, <3>1 DEF AsideIn
    <3> QED BY <2>1, <2>2, <3>2
  <2>3. CASE kind # "layaway"
    BY <1>3, <2>1, <2>3 DEF AsideIn
  <2> QED BY <2>2, <2>3
<1> QED BY <1>1, <1>4, <1>5, <1>6, <1>7 DEF row

LEMMA SellTakeawayOK ==
    ASSUME IInv, NEW l \in Lines, NEW q \in Quantities, SellTakeaway(l, q)
    PROVE  IInv'
<1> USE DEF books, store
<1>1. /\ line' \in [Lines -> LineRecords]
      /\ \A k \in Lines : line'[k].removed <= line'[k].quantity
      /\ \A k \in Lines : line'[k] = IF k = l THEN NewRow("takeaway", q) ELSE line[k]
      /\ q \in Nat /\ DueIn(line[l], po[l].received) = 0 /\ AsideIn(line[l]) = 0
      /\ DueIn(line'[l], po[l].received) = 0 /\ AsideIn(line'[l]) = 0
  BY BookRow DEF SellTakeaway, Kinds
<1>2. /\ shelf - Held >= q /\ shelf' = shelf - q /\ stock' = stock - q
      /\ UNCHANGED << po, reserved, layaway, bought, custody, misposted, phantom, overdrawn >>
  BY DEF SellTakeaway, Loose
<1>3. TypeOK'
  BY <1>1, <1>2, HeldNat DEF IInv, TypeOK
<1>4. FreshOK'
  BY <1>1, <1>2 DEF IInv, FreshOK, NewRow
<1>5. BooksMatchShelf'
  <2>1. Held' = Held
    BY <1>2 DEF Held
  <2> QED BY <1>1, <1>2, <2>1, HeldNat DEF IInv, TypeOK, BooksMatchShelf
<1>6. DueOK'
  BY <1>1, <1>2, <1>3, DueStep DEF IInv, TypeOK
<1> QED BY <1>3, <1>4, <1>5, <1>6 DEF IInv

LEMMA SellPickupLaterOK ==
    ASSUME IInv, NEW l \in Lines, NEW q \in Quantities, SellPickupLater(l, q)
    PROVE  IInv'
<1> USE DEF books, store
<1>1. /\ line' \in [Lines -> LineRecords]
      /\ \A k \in Lines : line'[k].removed <= line'[k].quantity
      /\ \A k \in Lines : line'[k] = IF k = l THEN NewRow("pickup_later", q) ELSE line[k]
      /\ q \in Nat /\ DueIn(line[l], po[l].received) = 0 /\ AsideIn(line[l]) = 0
      /\ DueIn(line'[l], po[l].received) = 0 /\ AsideIn(line'[l]) = 0 /\ custody[l] = 0
  BY BookRow DEF SellPickupLater, Kinds
<1>2. /\ stock - reserved - layaway >= q /\ stock' = stock - q
      /\ custody' = [custody EXCEPT ![l] = q]
      /\ UNCHANGED << po, reserved, layaway, bought, shelf, misposted, phantom, overdrawn >>
  BY DEF SellPickupLater, Available
<1>3. Held' = Held + q /\ custody' \in [Lines -> 0 .. MaxQuantity]
  <2>1. q \in 0 .. MaxQuantity
    BY <1>1 DEF Quantities
  <2>2. Held' = Held + (q - custody[l]) /\ custody' \in [Lines -> 0 .. MaxQuantity]
    BY <1>2, <2>1, CustodyChange DEF IInv
  <2> QED BY <1>1, <2>2, HeldNat DEF IInv
<1>4. TypeOK'
  BY <1>1, <1>2, <1>3 DEF IInv, TypeOK
<1>5. FreshOK'
  <2>1. \A k \in Lines : k # l => custody'[k] = custody[k]
    BY <1>2 DEF IInv, TypeOK
  <2> QED BY <1>1, <1>2, <2>1 DEF IInv, FreshOK, NewRow
<1>6. BooksMatchShelf'
  BY <1>1, <1>2, <1>3, HeldNat DEF IInv, TypeOK, BooksMatchShelf
<1>7. DueOK'
  BY <1>1, <1>2, <1>4, DueStep DEF IInv, TypeOK
<1> QED BY <1>4, <1>5, <1>6, <1>7 DEF IInv

LEMMA BookOrderOK ==
    ASSUME IInv, NEW l \in Lines, NEW kind \in Ordered, NEW q \in Quantities,
           BookOrder(l, kind, q)
    PROVE  IInv'
<1> USE DEF books, store
<1>1. /\ line' \in [Lines -> LineRecords]
      /\ \A k \in Lines : line'[k].removed <= line'[k].quantity
      /\ \A k \in Lines : line'[k] = IF k = l THEN NewRow(kind, q) ELSE line[k]
      /\ q \in Nat /\ DueIn(line[l], po[l].received) = 0 /\ AsideIn(line[l]) = 0
      /\ DueIn(line'[l], po[l].received) = 0
      /\ AsideIn(line'[l]) = IF kind = "layaway" THEN q ELSE 0
  BY BookRow DEF BookOrder, Kinds, Ordered
<1>2. /\ layaway' = layaway + (IF kind = "layaway" THEN q ELSE 0)
      /\ UNCHANGED << po, stock, reserved, bought, shelf, custody, misposted, phantom, overdrawn >>
  BY DEF BookOrder
<1>3. TypeOK'
  BY <1>1, <1>2 DEF IInv, TypeOK
<1>4. FreshOK'
  BY <1>1, <1>2 DEF IInv, FreshOK, NewRow
<1>5. BooksMatchShelf'
  BY <1>2 DEF IInv, BooksMatchShelf, Held
<1>6. DueOK'
  <2>1. AsideIn(line'[l]) - AsideIn(line[l]) <= layaway' - layaway
    BY <1>1, <1>2 DEF IInv, TypeOK
  <2> QED BY <1>1, <1>2, <1>3, <2>1, DueStep DEF IInv, TypeOK
<1> QED BY <1>3, <1>4, <1>5, <1>6 DEF IInv

-----------------------------------------------------------------------------
(* Procurement.                                                            *)

(* Actions that move no units and write no more of a line than its         *)
(* lifecycle and its purchase order's status.                              *)
LEMMA PaperworkOK ==
    ASSUME IInv, NEW l \in Lines, line[l].status # "none",
           NEW next \in {"ntbo", "ordered", "received", "ready_for_pickup", "picked_up"},
           NEW p \in {"none", "draft", "submitted", "closed"},
           line' = [line EXCEPT ![l].lifecycle = next],
           po' = [po EXCEPT ![l].status = p],
           UNCHANGED << books, bought, store, misposted, phantom, overdrawn >>
    PROVE  IInv'
<1> USE DEF books, store
<1> DEFINE row == [line[l] EXCEPT !.lifecycle = next]
<1>1. /\ row \in LineRecords /\ row.removed <= row.quantity /\ row.status = line[l].status
      /\ row.kind = line[l].kind /\ row.fulfilled = line[l].fulfilled
      /\ row.received = line[l].received /\ row.quantity = line[l].quantity
      /\ row.removed = line[l].removed
  BY DEF IInv, TypeOK, LineRecords
<1>2. line' = [line EXCEPT ![l] = row]
  OBVIOUS
<1> HIDE DEF row
<1>3. /\ line' \in [Lines -> LineRecords]
      /\ \A k \in Lines : line'[k].removed <= line'[k].quantity
      /\ \A k \in Lines : line'[k] = IF k = l THEN row ELSE line[k]
  BY <1>1, <1>2, LineWrite DEF IInv
<1>4. /\ po' \in [Lines -> [status: {"none", "draft", "submitted", "closed"},
                            received: 0 .. MaxQuantity]]
      /\ \A k \in Lines : po'[k].received = po[k].received
      /\ \A k \in Lines : k # l => po'[k] = po[k]
  BY DEF IInv, TypeOK
<1>5. TypeOK'
  BY <1>3, <1>4 DEF IInv, TypeOK
<1>6. FreshOK'
  BY <1>1, <1>3, <1>4 DEF IInv, FreshOK
<1>7. BooksMatchShelf'
  BY DEF IInv, BooksMatchShelf, Held
<1>8. DueOK'
  <2>1. DueIn(line'[l], po'[l].received) = DueIn(line[l], po[l].received)
        /\ AsideIn(line'[l]) = AsideIn(line[l])
    BY <1>1, <1>3, <1>4 DEF DueIn, AsideIn
  <2>2. /\ DueIn(line[l], po[l].received) \in Nat /\ AsideIn(line[l]) \in Nat
        /\ reserved \in Nat /\ layaway \in Nat
    BY LineNumbers, DueNumbers DEF IInv, TypeOK
  <2>3. \A k \in Lines : k # l => line'[k] = line[k] /\ po'[k].received = po[k].received
    BY <1>3, <1>4
  <2> QED BY <1>5, <2>1, <2>2, <2>3, DueStep DEF IInv
<1> QED BY <1>5, <1>6, <1>7, <1>8 DEF IInv

LEMMA CreatePoOK ==
    ASSUME IInv, NEW l \in Lines, CreatePo(l)
    PROVE  IInv'
<1>1. line' = [line EXCEPT ![l].lifecycle = line[l].lifecycle]
  BY DEF CreatePo, IInv, TypeOK, LineRecords
<1>2. line[l].lifecycle \in {"ntbo", "ordered", "received", "ready_for_pickup", "picked_up"}
  BY DEF IInv, TypeOK, LineRecords
<1>3. line[l].status # "none" /\ po' = [po EXCEPT ![l].status = "draft"]
      /\ UNCHANGED << books, bought, store, misposted, phantom, overdrawn >>
  BY DEF CreatePo
<1> QED BY <1>1, <1>2, <1>3, PaperworkOK

LEMMA SubmitPoOK ==
    ASSUME IInv, NEW l \in Lines, SubmitPo(l)
    PROVE  IInv'
<1> DEFINE next == IF line[l].lifecycle = "ntbo" THEN "ordered" ELSE line[l].lifecycle
<1>1. line' = [line EXCEPT ![l].lifecycle = next]
  BY DEF SubmitPo, IInv, TypeOK, LineRecords
<1>2. next \in {"ntbo", "ordered", "received", "ready_for_pickup", "picked_up"}
  BY DEF IInv, TypeOK, LineRecords
<1>3. line[l].status # "none" /\ po' = [po EXCEPT ![l].status = "submitted"]
      /\ UNCHANGED << books, bought, store, misposted, phantom, overdrawn >>
  BY DEF SubmitPo, IInv, FreshOK
<1> HIDE DEF next
<1> QED BY <1>1, <1>2, <1>3, PaperworkOK

LEMMA TransitionOK ==
    ASSUME IInv, NEW l \in Lines, NEW next \in ManualStates, Transition(l, next)
    PROVE  IInv'
<1>1. po' = [po EXCEPT ![l].status = po[l].status]
  BY DEF Transition, IInv, TypeOK
<1>2. po[l].status \in {"none", "draft", "submitted", "closed"}
      /\ next \in {"ntbo", "ordered", "received", "ready_for_pickup", "picked_up"}
  BY DEF IInv, TypeOK, ManualStates
<1>3. line[l].status # "none" /\ line' = [line EXCEPT ![l].lifecycle = next]
      /\ UNCHANGED << books, bought, store, misposted, phantom, overdrawn >>
  BY DEF Transition
<1> QED BY <1>1, <1>2, <1>3, PaperworkOK

(* What is reserved of n units received: all, or what is in demand.        *)
LEMMA ReservedNumbers ==
    ASSUME TypeOK, NEW n \in Nat
    PROVE  /\ ReservedOf(n) \in Nat
           /\ \A l \in Lines : line[l].status = "open" /\ line[l].kind = "special_order"
                               /\ ~line[l].fulfilled =>
                  Least(Remaining(l), n) <= ReservedOf(n)
<1> DEFINE S == {l \in Lines : line[l].kind = "special_order" /\ ~line[l].fulfilled /\ Live(l)}
           f == [l \in Lines |-> IF l \in S THEN Remaining(l) ELSE 0]
<1>1. \A l \in Lines : f[l] \in Nat
  BY LineNumbers
<1>2. OpenDemand = Total(f)
  BY DEF OpenDemand, RemainingOn
<1>3. \A l \in S : f[l] = Remaining(l) /\ Remaining(l) \in Nat
  BY LineNumbers
<1>4. \A l \in Lines : line[l].status = "open" /\ line[l].kind = "special_order"
                       /\ ~line[l].fulfilled => l \in S
  BY DEF Live
<1> HIDE DEF f, S
<1>5. OpenDemand \in Nat /\ \A l \in Lines : f[l] <= OpenDemand
  BY <1>1, <1>2, TotalNat
<1>6. ReservedOf(n) \in Nat
  BY <1>5 DEF ReservedOf, Least
<1>7. ASSUME NEW l \in Lines, l \in S PROVE Least(Remaining(l), n) <= ReservedOf(n)
  <2>1. Remaining(l) \in Nat /\ Remaining(l) <= OpenDemand
    BY <1>3, <1>5, <1>7
  <2> QED BY <1>5, <2>1 DEF ReservedOf, Least
<1> QED BY <1>4, <1>6, <1>7

LEMMA ReceiveForStockOK ==
    ASSUME IInv, NEW n \in Quantities, ReceiveForStock(n)
    PROVE  IInv'
<1>1. n \in Nat
  BY FulfilmentAssumption DEF Quantities
<1>2. /\ bought + n <= MaxForStock /\ bought' = bought + n
      /\ stock' = stock + n /\ shelf' = shelf + n /\ reserved' = reserved + ReservedOf(n)
      /\ UNCHANGED << line, po, layaway, custody, misposted, phantom, overdrawn >>
  BY DEF ReceiveForStock, Receive
<1>3. ReservedOf(n) \in Nat
  BY <1>1, ReservedNumbers DEF IInv
<1>4. TypeOK'
  BY <1>1, <1>2, <1>3, FulfilmentAssumption DEF IInv, TypeOK
<1>5. FreshOK'
  BY <1>2 DEF IInv, FreshOK
<1>6. BooksMatchShelf'
  <2>1. Held' = Held
    BY <1>2 DEF Held
  <2> QED BY <1>1, <1>2, <2>1, HeldNat DEF IInv, TypeOK, BooksMatchShelf
<1>7. DueOK'
  <2>1. Due' = Due /\ Aside' = Aside
    BY <1>2 DEF Due, Aside
  <2>2. Due \in Int
    <3> DEFINE f == [l \in Lines |-> DueIn(line[l], po[l].received)]
    <3>1. \A l \in Lines : f[l] \in Nat
      BY LineNumbers, DueNumbers DEF IInv, TypeOK
    <3>2. Due = Total(f)
      BY DEF Due
    <3> HIDE DEF f
    <3> QED BY <3>1, <3>2, TotalNat
  <2> QED BY <1>2, <1>3, <2>1, <2>2 DEF IInv, DueOK, TypeOK
<1> QED BY <1>4, <1>5, <1>6, <1>7 DEF IInv

LEMMA ReceiveLinkedOK ==
    ASSUME IInv, NEW l \in Lines, NEW n \in Quantities, ReceiveLinked(l, n)
    PROVE  IInv'
<1> DEFINE total == po[l].received + n
           full == total = line[l].quantity
           turns == full /\ ~line[l].fulfilled /\ line[l].lifecycle # "picked_up"
           row == IF turns THEN [line[l] EXCEPT !.lifecycle = "received", !.received = TRUE]
                  ELSE line[l]
<1>1. /\ line[l] \in LineRecords /\ line[l].removed <= line[l].quantity
      /\ line[l].quantity \in Nat /\ line[l].removed \in Nat /\ line[l].quantity <= MaxQuantity
      /\ n \in Nat /\ po[l].received \in Nat /\ MaxQuantity \in Nat
  BY LineNumbers, FulfilmentAssumption DEF IInv, TypeOK, Quantities
<1>2. /\ po[l].status = "submitted" /\ total <= line[l].quantity
      /\ stock' = stock + n /\ shelf' = shelf + n /\ reserved' = reserved + ReservedOf(n)
      /\ UNCHANGED << layaway, bought, custody, misposted, phantom, overdrawn >>
      /\ po' = [po EXCEPT ![l].received = @ + n, ![l].status = IF full THEN "closed" ELSE @]
      /\ line' = [line EXCEPT ![l] = row]
  BY DEF ReceiveLinked, Receive, IInv, TypeOK
<1>3. /\ row \in LineRecords /\ row.status = line[l].status /\ row.kind = line[l].kind
      /\ row.fulfilled = line[l].fulfilled /\ row.quantity = line[l].quantity
      /\ row.removed = line[l].removed /\ row.removed <= row.quantity
      /\ row.received = (line[l].received \/ turns)
  BY <1>1 DEF LineRecords
<1>4. /\ line' \in [Lines -> LineRecords]
      /\ \A k \in Lines : line'[k].removed <= line'[k].quantity
      /\ \A k \in Lines : line'[k] = IF k = l THEN row ELSE line[k]
  <2> HIDE DEF row
  <2> QED BY <1>2, <1>3, LineWrite DEF IInv
<1>5. /\ po' \in [Lines -> [status: {"none", "draft", "submitted", "closed"},
                            received: 0 .. MaxQuantity]]
      /\ \A k \in Lines : k # l => po'[k] = po[k]
      /\ po'[l].received = total
  <2>1. total \in 0 .. MaxQuantity
    BY <1>1, <1>2
  <2> DEFINE st == IF full THEN "closed" ELSE po[l].status
             p == [po[l] EXCEPT !.received = @ + n, !.status = IF full THEN "closed" ELSE @]
  <2>2. po' = [po EXCEPT ![l] = p]
    BY <1>2
  <2>3. st \in {"none", "draft", "submitted", "closed"}
    BY <1>2
  <2>4. /\ po[l] \in [status: {"none", "draft", "submitted", "closed"},
                     received: 0 .. MaxQuantity]
        /\ po \in [Lines -> [status: {"none", "draft", "submitted", "closed"},
                             received: 0 .. MaxQuantity]]
    BY DEF IInv, TypeOK
  <2>5. /\ p \in [status: {"none", "draft", "submitted", "closed"}, received: 0 .. MaxQuantity]
        /\ p.received = total
    BY <2>1, <2>3, <2>4
  <2> HIDE DEF p, st, total
  <2> QED BY <2>2, <2>4, <2>5
<1>6. ReservedOf(n) \in Nat
  BY <1>1, ReservedNumbers DEF IInv
<1>7. TypeOK'
  BY <1>1, <1>2, <1>4, <1>5, <1>6 DEF IInv, TypeOK
<1>8. FreshOK'
  <2>1. line[l].status # "none"
    BY <1>2 DEF IInv, FreshOK
  <2> QED BY <1>2, <1>3, <1>4, <1>5, <2>1 DEF IInv, FreshOK
<1>9. BooksMatchShelf'
  <2>1. Held' = Held
    BY <1>2 DEF Held
  <2> QED BY <1>1, <1>2, <2>1, HeldNat DEF IInv, TypeOK, BooksMatchShelf
<1>10. DueOK'
  <2> HIDE DEF row, turns
  <2>1. line'[l] = row
    BY <1>4
  <2>2. AsideIn(row) = AsideIn(line[l])
    BY <1>3 DEF AsideIn
  <2>3. DueIn(row, total) - DueIn(line[l], po[l].received) <= ReservedOf(n)
    <3> DEFINE rest == line[l].quantity - line[l].removed
    <3>1. CASE line[l].status = "open" /\ line[l].kind = "special_order" /\ ~line[l].fulfilled
      <4>1. Least(rest, n) <= ReservedOf(n)
        BY <1>1, <3>1, ReservedNumbers DEF IInv, Remaining
      <4>2. DueIn(line[l], po[l].received)
              = IF line[l].received THEN rest ELSE Least(po[l].received, rest)
        BY <3>1 DEF DueIn
      <4>3. DueIn(row, total) = IF row.received THEN rest ELSE Least(total, rest)
        BY <1>3, <3>1 DEF DueIn
      <4>4. DueIn(row, total) = IF line[l].received THEN rest ELSE Least(total, rest)
        <5>1. CASE turns
          <6>1. row.received /\ total = line[l].quantity
            BY <1>3, <5>1 DEF turns
          <6>2. Least(total, rest) = rest
            BY <1>1, <6>1 DEF Least
          <6> QED BY <4>3, <6>1, <6>2
        <5>2. CASE ~turns
          BY <1>3, <4>3, <5>2
        <5> QED BY <5>1, <5>2
      <4> HIDE DEF full
      <4> QED BY <1>1, <1>6, <4>1, <4>2, <4>4 DEF Least
    <3>2. CASE ~(/\ line[l].status = "open" /\ line[l].kind = "special_order"
                 /\ ~line[l].fulfilled)
      BY <1>3, <1>6, <3>2 DEF DueIn
    <3> QED BY <3>1, <3>2
  <2>4. AsideIn(line[l]) \in Nat /\ reserved \in Nat /\ layaway \in Nat
    BY <1>1, DueNumbers DEF IInv, TypeOK
  <2>5. /\ DueIn(line'[l], po'[l].received) - DueIn(line[l], po[l].received)
              <= reserved' - reserved
        /\ AsideIn(line'[l]) - AsideIn(line[l]) <= layaway' - layaway
    <3>1. po'[l].received = total
      BY <1>5
    <3> HIDE DEF total
    <3> QED BY <1>2, <1>6, <2>1, <2>2, <2>3, <2>4, <3>1
  <2>6. \A k \in Lines : k # l => line'[k] = line[k] /\ po'[k].received = po[k].received
    BY <1>4, <1>5
  <2> QED BY <1>2, <1>7, <2>5, <2>6, DueStep DEF IInv
<1> QED BY <1>7, <1>8, <1>9, <1>10 DEF IInv

-----------------------------------------------------------------------------
(* Release.                                                                *)

(* The movement of a release, by pickup or by shipment.                    *)
LEMMA ReleaseOK ==
    ASSUME IInv, NEW l \in Lines, Live(l), Claimable(l), Loose >= Remaining(l),
           TakeFromStock(l), shelf' = shelf - Remaining(l),
           line' = [line EXCEPT ![l].fulfilled = TRUE, ![l].lifecycle = "picked_up"],
           UNCHANGED << po, bought, custody, phantom >>
    PROVE  IInv'
<1> DEFINE row == [line[l] EXCEPT !.fulfilled = TRUE, !.lifecycle = "picked_up"]
<1>1. /\ line[l] \in LineRecords /\ line[l].removed <= line[l].quantity
      /\ line[l].quantity \in Nat /\ line[l].removed \in Nat
      /\ Remaining(l) = line[l].quantity - line[l].removed /\ shelf \in Nat /\ Held \in Nat
      /\ stock \in Int /\ reserved \in Nat /\ layaway \in Nat /\ misposted \in Nat
      /\ phantom \in Nat /\ po[l].received \in Nat
  BY LineNumbers DEF IInv, TypeOK
<1>2. /\ row \in LineRecords /\ row.removed <= row.quantity /\ row.status = line[l].status
      /\ row.fulfilled
  BY <1>1 DEF LineRecords
<1>3. /\ line' \in [Lines -> LineRecords]
      /\ \A k \in Lines : line'[k].removed <= line'[k].quantity
      /\ \A k \in Lines : line'[k] = IF k = l THEN row ELSE line[k]
  <2>1. line' = [line EXCEPT ![l] = row]
    OBVIOUS
  <2> HIDE DEF row
  <2> QED BY <1>2, <2>1, LineWrite DEF IInv
<1> HIDE DEF row
<1>4. /\ stock' = stock - line[l].quantity
      /\ reserved' = IF line[l].kind = "special_order"
                     THEN AtLeastZero(reserved - line[l].quantity) ELSE reserved
      /\ layaway' = IF line[l].kind = "layaway"
                    THEN AtLeastZero(layaway - line[l].quantity) ELSE layaway
      /\ misposted' = misposted + line[l].removed
      /\ ~overdrawn' => /\ ~overdrawn /\ ~(line[l].removed > 0)
                        /\ line[l].kind = "special_order" => line[l].received
      /\ overdrawn' \in BOOLEAN
  BY DEF TakeFromStock, Leaves
<1>5. /\ reserved' \in Nat /\ layaway' \in Nat
      /\ reserved' >= reserved - (IF line[l].kind = "special_order" THEN line[l].quantity ELSE 0)
      /\ layaway' >= layaway - (IF line[l].kind = "layaway" THEN line[l].quantity ELSE 0)
  BY <1>1, <1>4 DEF AtLeastZero
<1>6. TypeOK'
  <2>1. shelf' \in Nat
    BY <1>1 DEF Loose
  <2> QED BY <1>1, <1>3, <1>4, <1>5, <2>1 DEF IInv, TypeOK
<1>7. FreshOK'
  BY <1>2, <1>3 DEF IInv, FreshOK
<1>8. BooksMatchShelf'
  <2>1. Held' = Held
    BY DEF Held
  <2> QED BY <1>1, <1>4, <2>1 DEF IInv, BooksMatchShelf, Loose
<1>9. DueOK'
  <2>1. DueIn(line'[l], po'[l].received) = 0 /\ AsideIn(line'[l]) = 0
    BY <1>2, <1>3 DEF DueIn, AsideIn
  <2>2. ASSUME ~overdrawn'
        PROVE  /\ line[l].kind = "special_order" =>
                      DueIn(line[l], po[l].received) = line[l].quantity
               /\ line[l].kind = "layaway" => AsideIn(line[l]) = line[l].quantity
    BY <1>1, <1>4, <2>2 DEF DueIn, AsideIn, Live, Claimable
  <2>3. DueIn(line[l], po[l].received) \in Nat /\ AsideIn(line[l]) \in Nat
    BY <1>1, DueNumbers
  <2>4. ASSUME ~overdrawn'
        PROVE  /\ DueIn(line'[l], po'[l].received) - DueIn(line[l], po[l].received)
                      <= reserved' - reserved
               /\ AsideIn(line'[l]) - AsideIn(line[l]) <= layaway' - layaway
    <3> DEFINE u == IF line[l].kind = "special_order" THEN line[l].quantity ELSE 0
               v == IF line[l].kind = "layaway" THEN line[l].quantity ELSE 0
               due == DueIn(line[l], po[l].received)
               aside == AsideIn(line[l])
    <3>1. /\ u \in Nat /\ v \in Nat /\ due \in Nat /\ aside \in Nat
          /\ u <= due /\ v <= aside
          /\ reserved' >= reserved - u /\ layaway' >= layaway - v
      BY <1>1, <1>5, <2>2, <2>3, <2>4
    <3> HIDE DEF u, v, due, aside
    <3>2. 0 - due <= reserved' - reserved /\ 0 - aside <= layaway' - layaway
      BY <1>1, <1>5, <3>1
    <3> QED BY <2>1, <3>2 DEF due, aside
  <2> QED BY <1>3, <1>4, <1>6, <2>4, DueStep DEF IInv
<1> QED BY <1>6, <1>7, <1>8, <1>9 DEF IInv

(* Units kept for a Pick Up Later customer are handed over.                *)
LEMMA PickUpHeldOK ==
    ASSUME IInv, NEW l \in Lines, PickUpHeld(l)
    PROVE  IInv'
<1> USE DEF books
<1> DEFINE row == [line[l] EXCEPT !.lifecycle = "picked_up"]
<1>1. /\ line[l] \in LineRecords /\ line[l].removed <= line[l].quantity
      /\ shelf \in Nat /\ Held \in Nat /\ custody[l] \in Nat /\ custody[l] <= Held
      /\ po[l].received \in Nat /\ MaxQuantity \in Nat
  BY LineNumbers DEF IInv, TypeOK
<1>2. /\ custody[l] <= shelf
      /\ shelf' = shelf - custody[l] /\ custody' = [custody EXCEPT ![l] = 0]
      /\ line' = [line EXCEPT ![l] = row]
      /\ UNCHANGED << po, stock, reserved, layaway, bought, misposted, phantom, overdrawn >>
  BY DEF PickUpHeld
<1>3. /\ row \in LineRecords /\ row.removed <= row.quantity /\ row.status = line[l].status
      /\ row.kind = line[l].kind /\ row.fulfilled = line[l].fulfilled
      /\ row.received = line[l].received /\ row.quantity = line[l].quantity
      /\ row.removed = line[l].removed
  BY <1>1 DEF LineRecords
<1> HIDE DEF row
<1>4. /\ line' \in [Lines -> LineRecords]
      /\ \A k \in Lines : line'[k].removed <= line'[k].quantity
      /\ \A k \in Lines : line'[k] = IF k = l THEN row ELSE line[k]
  BY <1>2, <1>3, LineWrite DEF IInv
<1>5. Held' = Held - custody[l] /\ custody' \in [Lines -> 0 .. MaxQuantity]
  <2>1. 0 \in 0 .. MaxQuantity
    BY <1>1
  <2>2. Held' = Held + (0 - custody[l]) /\ custody' \in [Lines -> 0 .. MaxQuantity]
    BY <1>2, <2>1, CustodyChange DEF IInv
  <2> QED BY <1>1, <2>2
<1>6. TypeOK'
  <2>1. shelf' \in Nat
    BY <1>1, <1>2
  <2> QED BY <1>2, <1>4, <1>5, <2>1 DEF IInv, TypeOK
<1>7. FreshOK'
  <2>1. \A k \in Lines : custody'[k] = IF k = l THEN 0 ELSE custody[k]
    BY <1>2 DEF IInv, TypeOK
  <2> QED BY <1>2, <1>3, <1>4, <2>1 DEF IInv, FreshOK
<1>8. BooksMatchShelf'
  BY <1>1, <1>2, <1>5 DEF IInv, TypeOK, BooksMatchShelf
<1>9. DueOK'
  <2>1. DueIn(line'[l], po'[l].received) = DueIn(line[l], po[l].received)
        /\ AsideIn(line'[l]) = AsideIn(line[l])
    BY <1>2, <1>3, <1>4 DEF DueIn, AsideIn
  <2>2. /\ DueIn(line[l], po[l].received) \in Nat /\ AsideIn(line[l]) \in Nat
        /\ reserved \in Nat /\ layaway \in Nat
    BY <1>1, DueNumbers DEF IInv, TypeOK
  <2>3. \A k \in Lines : k # l => line'[k] = line[k] /\ po'[k].received = po[k].received
    BY <1>2, <1>4
  <2> QED BY <1>2, <1>6, <2>1, <2>2, <2>3, DueStep DEF IInv
<1> QED BY <1>6, <1>7, <1>8, <1>9 DEF IInv

-----------------------------------------------------------------------------
(* Returns and cancellations.                                              *)

(* Units come off a line: what it is due does not grow, and what it has    *)
(* set aside shrinks by that much.                                         *)
LEMMA RemoveRow ==
    ASSUME IInv, NEW l \in Lines, NEW n \in Quantities, n <= Remaining(l), Remove(l, n)
    PROVE  /\ line' \in [Lines -> LineRecords]
           /\ \A k \in Lines : line'[k].removed <= line'[k].quantity
           /\ \A k \in Lines : k # l => line'[k] = line[k]
           /\ line'[l].status = line[l].status
           /\ n \in Nat
           /\ DueIn(line[l], po[l].received) \in Nat /\ AsideIn(line[l]) \in Nat
           /\ DueIn(line'[l], po[l].received) <= DueIn(line[l], po[l].received)
           /\ DueIn(line'[l], po[l].received) \in Nat
           /\ line[l].kind = "special_order" /\ line[l].status = "open" /\ line[l].received
                 /\ ~line[l].fulfilled =>
              DueIn(line'[l], po[l].received) = DueIn(line[l], po[l].received) - n
           /\ AsideIn(line'[l]) = AsideIn(line[l])
                - (IF line[l].status = "open" /\ line[l].kind = "layaway" /\ ~line[l].fulfilled
                   THEN n ELSE 0)
<1> DEFINE row == [line[l] EXCEPT !.removed = @ + n]
<1>1. /\ line[l] \in LineRecords /\ line[l].removed <= line[l].quantity
      /\ line[l].quantity \in Nat /\ line[l].removed \in Nat
      /\ line[l].quantity <= MaxQuantity /\ MaxQuantity \in Nat
      /\ Remaining(l) = line[l].quantity - line[l].removed
      /\ n \in Nat /\ po[l].received \in Nat
  BY LineNumbers, FulfilmentAssumption DEF IInv, TypeOK, Quantities
<1>2. /\ row \in LineRecords /\ row.status = line[l].status
      /\ row.kind = line[l].kind /\ row.fulfilled = line[l].fulfilled
      /\ row.received = line[l].received /\ row.quantity = line[l].quantity
      /\ row.removed = line[l].removed + n /\ row.removed <= row.quantity
  <2>1. line[l].removed + n \in 0 .. MaxQuantity
    BY <1>1
  <2> QED BY <1>1, <2>1 DEF LineRecords
<1>3. line' = [line EXCEPT ![l] = row]
  BY DEF Remove
<1> HIDE DEF row
<1>4. /\ line' \in [Lines -> LineRecords]
      /\ \A k \in Lines : line'[k].removed <= line'[k].quantity
      /\ \A k \in Lines : line'[k] = IF k = l THEN row ELSE line[k]
  BY <1>2, <1>3, LineWrite DEF IInv
<1>5. /\ DueIn(line[l], po[l].received) \in Nat /\ AsideIn(line[l]) \in Nat
      /\ DueIn(row, po[l].received) \in Nat
  BY <1>1, <1>2, DueNumbers
<1>6. /\ DueIn(row, po[l].received) <= DueIn(line[l], po[l].received)
      /\ line[l].kind = "special_order" /\ line[l].status = "open" /\ line[l].received
            /\ ~line[l].fulfilled =>
         DueIn(row, po[l].received) = DueIn(line[l], po[l].received) - n
  BY <1>1, <1>2 DEF DueIn, Least
<1>7. AsideIn(row) = AsideIn(line[l])
         - (IF line[l].status = "open" /\ line[l].kind = "layaway" /\ ~line[l].fulfilled
            THEN n ELSE 0)
  BY <1>1, <1>2 DEF AsideIn
<1> QED BY <1>1, <1>2, <1>4, <1>5, <1>6, <1>7

LEMMA ReturnGoodsOK ==
    ASSUME IInv, NEW l \in Lines, NEW n \in Quantities, NEW restock \in BOOLEAN,
           ReturnGoods(l, n, restock)
    PROVE  IInv'
<1> DEFINE kept == Least(n, custody[l])
           there == Least(kept, shelf)
<1>1. /\ line[l].status # "none" /\ line[l].fulfilled /\ n <= Remaining(l) /\ Remove(l, n)
      /\ stock' = IF restock THEN stock + n ELSE stock
      /\ custody' = [custody EXCEPT ![l] = @ - kept]
      /\ shelf' = IF restock THEN shelf + n - kept ELSE shelf - there
      /\ phantom' = IF restock THEN phantom ELSE phantom - (kept - there)
      /\ UNCHANGED << po, reserved, layaway, bought, misposted, overdrawn >>
  BY DEF ReturnGoods
<1>2. /\ line' \in [Lines -> LineRecords]
      /\ \A k \in Lines : line'[k].removed <= line'[k].quantity
      /\ \A k \in Lines : k # l => line'[k] = line[k]
      /\ line'[l].status = line[l].status /\ n \in Nat
      /\ DueIn(line[l], po[l].received) \in Nat /\ AsideIn(line[l]) \in Nat
      /\ DueIn(line'[l], po[l].received) \in Nat
      /\ DueIn(line'[l], po[l].received) <= DueIn(line[l], po[l].received)
      /\ AsideIn(line'[l]) = AsideIn(line[l])
  BY <1>1, RemoveRow
<1>3. /\ custody[l] \in Nat /\ custody[l] <= Held /\ Held \in Nat /\ shelf \in Nat
      /\ custody[l] <= MaxQuantity /\ MaxQuantity \in Nat
      /\ kept \in Nat /\ kept <= custody[l] /\ kept <= n
  BY <1>2, LineNumbers DEF IInv, Least
<1>4. Held' = Held - kept /\ custody' \in [Lines -> 0 .. MaxQuantity]
  <2>1. custody[l] - kept \in 0 .. MaxQuantity
    BY <1>3
  <2>2. Held' = Held + ((custody[l] - kept) - custody[l])
        /\ custody' \in [Lines -> 0 .. MaxQuantity]
    <3>1. custody' = [custody EXCEPT ![l] = custody[l] - kept]
      BY <1>1
    <3> HIDE DEF kept
    <3> QED BY <2>1, <3>1, CustodyChange DEF IInv
  <2> QED BY <1>3, <2>2
<1> HIDE DEF kept
<1>5. /\ stock \in Int /\ misposted \in Nat /\ phantom \in Nat
      /\ stock = shelf - Held - misposted + phantom /\ Held <= shelf + phantom
  BY DEF IInv, TypeOK, BooksMatchShelf
(* Of the units kept, those that never were there are among the phantoms.  *)
<1>6. /\ there \in Nat /\ there <= kept /\ there <= shelf
      /\ kept - there \in Nat /\ kept - there <= phantom
      /\ kept <= Held
  BY <1>3, <1>5 DEF Least
<1> HIDE DEF there
<1>7. TypeOK'
  <2>1. shelf' \in Nat /\ stock' \in Int /\ phantom' \in Nat
    <3>1. CASE restock
      BY <1>1, <1>2, <1>3, <1>5, <3>1
    <3>2. CASE ~restock
      BY <1>1, <1>3, <1>5, <1>6, <3>2
    <3> QED BY <3>1, <3>2
  <2> QED BY <1>1, <1>2, <1>4, <2>1 DEF IInv, TypeOK
<1>8. FreshOK'
  <2>1. \A k \in Lines : k # l => custody'[k] = custody[k]
    BY <1>1 DEF IInv, TypeOK
  <2> QED BY <1>1, <1>2, <2>1 DEF IInv, FreshOK
<1>9. BooksMatchShelf'
  <2>1. CASE restock
    BY <1>1, <1>2, <1>3, <1>4, <1>5, <2>1 DEF BooksMatchShelf
  <2>2. CASE ~restock
    BY <1>1, <1>3, <1>4, <1>5, <1>6, <2>2 DEF BooksMatchShelf
  <2> QED BY <2>1, <2>2
<1>10. DueOK'
  <2>1. reserved \in Nat /\ layaway \in Nat
    BY DEF IInv, TypeOK
  <2>2. /\ DueIn(line'[l], po'[l].received) - DueIn(line[l], po[l].received)
              <= reserved' - reserved
        /\ AsideIn(line'[l]) - AsideIn(line[l]) <= layaway' - layaway
    BY <1>1, <1>2, <2>1
  <2> QED BY <1>1, <1>2, <1>7, <2>2, DueStep DEF IInv
<1> QED BY <1>7, <1>8, <1>9, <1>10 DEF IInv

LEMMA ReturnOpenOK ==
    ASSUME IInv, NEW l \in Lines, NEW n \in Quantities, NEW restock \in BOOLEAN,
           ReturnOpen(l, n, restock)
    PROVE  IInv'
<1> USE DEF books, store
<1>1. /\ line[l].status # "none" /\ n <= Remaining(l) /\ Remove(l, n)
      /\ stock' = IF restock THEN stock + n ELSE stock
      /\ phantom' = IF restock THEN phantom + n ELSE phantom
      /\ UNCHANGED << po, reserved, layaway, bought, shelf, custody, misposted, overdrawn >>
  BY DEF ReturnOpen
<1>2. /\ line' \in [Lines -> LineRecords]
      /\ \A k \in Lines : line'[k].removed <= line'[k].quantity
      /\ \A k \in Lines : k # l => line'[k] = line[k]
      /\ line'[l].status = line[l].status /\ n \in Nat
      /\ DueIn(line[l], po[l].received) \in Nat /\ AsideIn(line[l]) \in Nat
      /\ DueIn(line'[l], po[l].received) \in Nat
      /\ DueIn(line'[l], po[l].received) <= DueIn(line[l], po[l].received)
      /\ AsideIn(line'[l]) = AsideIn(line[l])
           - (IF line[l].status = "open" /\ line[l].kind = "layaway" /\ ~line[l].fulfilled
              THEN n ELSE 0)
  BY <1>1, RemoveRow
<1>3. TypeOK'
  BY <1>1, <1>2 DEF IInv, TypeOK
<1>4. FreshOK'
  BY <1>1, <1>2 DEF IInv, FreshOK
<1>5. BooksMatchShelf'
  <2>1. Held' = Held
    BY <1>1 DEF Held
  <2> QED BY <1>1, <1>2, <2>1, HeldNat DEF IInv, TypeOK, BooksMatchShelf
<1>6. DueOK'
  <2>1. reserved \in Nat /\ layaway \in Nat
    BY DEF IInv, TypeOK
  <2>2. /\ DueIn(line'[l], po'[l].received) - DueIn(line[l], po[l].received)
              <= reserved' - reserved
        /\ AsideIn(line'[l]) - AsideIn(line[l]) <= layaway' - layaway
    BY <1>1, <1>2, <2>1
  <2> QED BY <1>1, <1>2, <1>3, <2>2, DueStep DEF IInv
<1> QED BY <1>3, <1>4, <1>5, <1>6 DEF IInv

LEMMA CancelUnitsOK ==
    ASSUME IInv, NEW l \in Lines, NEW n \in Quantities, CancelUnits(l, n)
    PROVE  IInv'
<1> USE DEF books, store
<1>1. /\ line[l].status = "open" /\ ~line[l].fulfilled /\ n <= Remaining(l) /\ Remove(l, n)
      /\ reserved' = IF InReserve(l) THEN reserved - Least(reserved, n) ELSE reserved
      /\ layaway' = IF line[l].kind = "layaway" THEN layaway - Least(layaway, n) ELSE layaway
      /\ ~overdrawn' => ~overdrawn /\ (InReserve(l) => line[l].received)
      /\ overdrawn' \in BOOLEAN
      /\ UNCHANGED << po, stock, bought, shelf, custody, misposted, phantom >>
  BY DEF CancelUnits, Live
<1>2. /\ line' \in [Lines -> LineRecords]
      /\ \A k \in Lines : line'[k].removed <= line'[k].quantity
      /\ \A k \in Lines : k # l => line'[k] = line[k]
      /\ line'[l].status = line[l].status /\ n \in Nat
      /\ DueIn(line[l], po[l].received) \in Nat /\ AsideIn(line[l]) \in Nat
      /\ DueIn(line'[l], po[l].received) \in Nat
      /\ DueIn(line'[l], po[l].received) <= DueIn(line[l], po[l].received)
      /\ line[l].kind = "special_order" /\ line[l].received =>
         DueIn(line'[l], po[l].received) = DueIn(line[l], po[l].received) - n
      /\ AsideIn(line'[l])
           = AsideIn(line[l]) - (IF line[l].kind = "layaway" THEN n ELSE 0)
  BY <1>1, RemoveRow
<1>3. reserved \in Nat /\ layaway \in Nat
  BY DEF IInv, TypeOK
<1>4. /\ reserved' \in Nat /\ layaway' \in Nat
      /\ reserved' >= reserved - (IF InReserve(l) THEN n ELSE 0)
      /\ layaway' >= layaway - (IF line[l].kind = "layaway" THEN n ELSE 0)
  BY <1>1, <1>2, <1>3 DEF Least
<1>5. TypeOK'
  BY <1>1, <1>2, <1>4 DEF IInv, TypeOK
<1>6. FreshOK'
  BY <1>1, <1>2 DEF IInv, FreshOK
<1>7. BooksMatchShelf'
  BY <1>1 DEF IInv, BooksMatchShelf, Held
<1>8. DueOK'
  <2>1. ASSUME ~overdrawn'
        PROVE  DueIn(line'[l], po[l].received) - DueIn(line[l], po[l].received)
                  <= reserved' - reserved
    <3>1. CASE InReserve(l)
      BY <1>1, <1>2, <1>3, <1>4, <2>1, <3>1 DEF InReserve
    <3>2. CASE ~InReserve(l)
      BY <1>1, <1>2, <1>3, <3>2
    <3> QED BY <3>1, <3>2
  <2>2. AsideIn(line'[l]) - AsideIn(line[l]) <= layaway' - layaway
    BY <1>2, <1>3, <1>4
  <2> QED BY <1>1, <1>2, <1>5, <2>1, <2>2, DueStep DEF IInv
<1> QED BY <1>5, <1>6, <1>7, <1>8 DEF IInv

(* An order is cancelled, forfeited or not: it is promised nothing more.   *)
LEMMA CancelledOK ==
    ASSUME IInv, NEW l \in Lines, line' = [line EXCEPT ![l].status = "cancelled"],
           layaway' \in Nat, overdrawn' \in BOOLEAN,
           ~overdrawn' => /\ ~overdrawn
                          /\ layaway' >= layaway - AsideIn(line[l]),
           UNCHANGED << po, stock, reserved, bought, store, misposted, phantom >>
    PROVE  IInv'
<1> USE DEF store
<1> DEFINE row == [line[l] EXCEPT !.status = "cancelled"]
<1>1. /\ line[l] \in LineRecords /\ line[l].removed <= line[l].quantity
      /\ po[l].received \in Nat
  BY LineNumbers DEF IInv
<1>2. row \in LineRecords /\ row.removed <= row.quantity /\ row.status = "cancelled"
  BY <1>1 DEF LineRecords
<1>3. line' = [line EXCEPT ![l] = row]
  OBVIOUS
<1> HIDE DEF row
<1>4. /\ line' \in [Lines -> LineRecords]
      /\ \A k \in Lines : line'[k].removed <= line'[k].quantity
      /\ \A k \in Lines : line'[k] = IF k = l THEN row ELSE line[k]
  BY <1>2, <1>3, LineWrite DEF IInv
<1>5. TypeOK'
  BY <1>4 DEF IInv, TypeOK
<1>6. FreshOK'
  BY <1>2, <1>4 DEF IInv, FreshOK
<1>7. BooksMatchShelf'
  BY DEF IInv, BooksMatchShelf, Held
<1>8. DueOK'
  <2>1. DueIn(line'[l], po'[l].received) = 0 /\ AsideIn(line'[l]) = 0
    BY <1>2, <1>4 DEF DueIn, AsideIn
  <2>2. /\ DueIn(line[l], po[l].received) \in Nat /\ AsideIn(line[l]) \in Nat
        /\ reserved \in Nat /\ layaway \in Nat
    BY <1>1, DueNumbers DEF IInv, TypeOK
  <2>3. ~overdrawn' =>
           /\ DueIn(line'[l], po'[l].received) - DueIn(line[l], po[l].received)
                 <= reserved' - reserved
           /\ AsideIn(line'[l]) - AsideIn(line[l]) <= layaway' - layaway
    BY <2>1, <2>2
  <2> QED BY <1>4, <1>5, <2>3, DueStep DEF IInv
<1> QED BY <1>5, <1>6, <1>7, <1>8 DEF IInv

LEMMA CancelOrderOK ==
    ASSUME IInv, NEW l \in Lines, CancelOrder(l)
    PROVE  IInv'
<1>1. AsideIn(line[l]) \in Nat /\ layaway \in Nat /\ overdrawn \in BOOLEAN
  BY LineNumbers, DueNumbers DEF IInv, TypeOK
<1>2. /\ line' = [line EXCEPT ![l].status = "cancelled"]
      /\ UNCHANGED << po, stock, reserved, layaway, bought, store, misposted, phantom, overdrawn >>
  BY DEF CancelOrder, books
<1>3. layaway' \in Nat /\ overdrawn' \in BOOLEAN /\ layaway' >= layaway - AsideIn(line[l])
  BY <1>1, <1>2
<1> QED BY <1>2, <1>3, CancelledOK

LEMMA ForfeitOK ==
    ASSUME IInv, NEW l \in Lines, Forfeit(l)
    PROVE  IInv'
<1>1. /\ line[l].quantity \in Nat /\ line[l].removed \in Nat /\ layaway \in Nat
  BY LineNumbers DEF IInv, TypeOK
<1>2. /\ line[l].status = "open" /\ line[l].kind = "layaway"
      /\ line' = [line EXCEPT ![l].status = "cancelled"]
      /\ layaway' = AtLeastZero(layaway - line[l].quantity)
      /\ overdrawn' \in BOOLEAN
      /\ ~overdrawn' => ~overdrawn /\ ~line[l].fulfilled /\ ~(line[l].removed > 0)
      /\ UNCHANGED << po, stock, reserved, bought, store, misposted, phantom >>
  BY DEF Forfeit, Live
<1>3. layaway' \in Nat /\ layaway' >= layaway - line[l].quantity
  BY <1>1, <1>2 DEF AtLeastZero
<1>4. ~overdrawn' => AsideIn(line[l]) = line[l].quantity
  BY <1>1, <1>2 DEF AsideIn
<1> QED BY <1>2, <1>3, <1>4, CancelledOK

-----------------------------------------------------------------------------
(* The invariant, and what follows from it.                                *)

LEMMA InitOK == Init => IInv
<1> SUFFICES ASSUME Init PROVE IInv
  OBVIOUS
<1> DEFINE row == [status |-> "none", kind |-> "takeaway", quantity |-> 1, removed |-> 0,
                   fulfilled |-> FALSE, lifecycle |-> "ntbo", received |-> FALSE]
<1>1. /\ line = [l \in Lines |-> row]
      /\ po = [l \in Lines |-> [status |-> "none", received |-> 0]]
      /\ custody = [l \in Lines |-> 0]
      /\ stock = OpeningStock /\ shelf = OpeningStock /\ reserved = 0 /\ layaway = 0
      /\ bought = 0 /\ misposted = 0 /\ phantom = 0 /\ overdrawn = FALSE
  BY DEF Init
<1>2. /\ row \in LineRecords /\ row.removed <= row.quantity /\ row.status = "none"
      /\ DueIn(row, 0) = 0 /\ AsideIn(row) = 0
  BY FulfilmentAssumption DEF LineRecords, Kinds, Quantities, DueIn, AsideIn
<1> HIDE DEF row
<1>3. TypeOK
  <2>1. /\ line \in [Lines -> LineRecords]
        /\ \A l \in Lines : line[l].removed <= line[l].quantity
    BY <1>1, <1>2
  <2>2. /\ po \in [Lines -> [status: {"none", "draft", "submitted", "closed"},
                             received: 0 .. MaxQuantity]]
        /\ custody \in [Lines -> 0 .. MaxQuantity]
    BY <1>1, FulfilmentAssumption
  <2>3. /\ stock \in Int /\ shelf \in Nat /\ reserved \in Nat /\ layaway \in Nat
        /\ bought \in 0 .. MaxForStock /\ misposted \in Nat /\ phantom \in Nat
    BY <1>1, FulfilmentAssumption
  <2>4. overdrawn \in BOOLEAN
    BY <1>1
  <2> QED BY <2>1, <2>2, <2>3, <2>4 DEF TypeOK
<1>4. FreshOK
  BY <1>1, <1>2 DEF FreshOK
<1>5. ASSUME NEW f, \A l \in Lines : f[l] = 0 PROVE Total(f) = 0
  BY <1>5, FulfilmentAssumption, SetSumZero DEF Total, LineList
<1>6. BooksMatchShelf
  <2>1. Held = 0
    BY <1>1, <1>5 DEF Held
  <2> QED BY <1>1, <2>1, FulfilmentAssumption DEF BooksMatchShelf
<1>7. DueOK
  <2>1. Due = 0
    <3> DEFINE f == [l \in Lines |-> DueIn(line[l], po[l].received)]
    <3>1. \A l \in Lines : f[l] = 0
      BY <1>1, <1>2
    <3> HIDE DEF f
    <3>2. Total(f) = 0
      BY <1>5, <3>1
    <3> QED BY <3>2 DEF Due, f
  <2>2. Aside = 0
    <3> DEFINE f == [l \in Lines |-> AsideIn(line[l])]
    <3>1. \A l \in Lines : f[l] = 0
      BY <1>1, <1>2
    <3> HIDE DEF f
    <3>2. Total(f) = 0
      BY <1>5, <3>1
    <3> QED BY <3>2 DEF Aside, f
  <2> QED BY <1>1, <2>1, <2>2 DEF DueOK
<1> QED BY <1>3, <1>4, <1>6, <1>7 DEF IInv

LEMMA NextOK == IInv /\ [Next]_vars => IInv'
<1> SUFFICES ASSUME IInv, [Next]_vars PROVE IInv'
  OBVIOUS
<1>1. ASSUME NEW l \in Lines, NEW q \in Quantities,
             SellTakeaway(l, q) \/ SellPickupLater(l, q)
             \/ \E kind \in Ordered : BookOrder(l, kind, q)
      PROVE  IInv'
  BY <1>1, SellTakeawayOK, SellPickupLaterOK, BookOrderOK
<1>2. ASSUME NEW l \in Lines, NEW q \in Quantities, ReceiveLinked(l, q) PROVE IInv'
  BY <1>2, ReceiveLinkedOK
<1>3. ASSUME NEW l \in Lines, NEW q \in Quantities,
             (\E restock \in BOOLEAN : ReturnGoods(l, q, restock) \/ ReturnOpen(l, q, restock))
             \/ CancelUnits(l, q)
      PROVE  IInv'
  BY <1>3, ReturnGoodsOK, ReturnOpenOK, CancelUnitsOK
<1>4. ASSUME NEW l \in Lines,
             CreatePo(l) \/ SubmitPo(l) \/ \E next \in ManualStates : Transition(l, next)
      PROVE  IInv'
  BY <1>4, CreatePoOK, SubmitPoOK, TransitionOK
<1>5. ASSUME NEW l \in Lines, CancelOrder(l) \/ Forfeit(l) PROVE IInv'
  BY <1>5, CancelOrderOK, ForfeitOK
<1>6. ASSUME NEW l \in Lines, PickUp(l) \/ Ship(l) PROVE IInv'
  BY <1>6, ReleaseOK DEF PickUp, Ship
<1>7. ASSUME NEW l \in Lines, PickUpHeld(l) PROVE IInv'
  BY <1>7, PickUpHeldOK
<1>8. ASSUME NEW n \in Quantities, ReceiveForStock(n) PROVE IInv'
  BY <1>8, ReceiveForStockOK
<1>9. CASE UNCHANGED vars
  BY <1>9 DEF vars, books, store, IInv, TypeOK, FreshOK, BooksMatchShelf, Held, DueOK, Due,
              Aside
<1> QED BY <1>1, <1>2, <1>3, <1>4, <1>5, <1>6, <1>7, <1>8, <1>9 DEF Next

(* The invariant holds throughout.                                         *)
LEMMA Inductive == Spec => []IInv
BY InitOK, NextOK, PTL DEF Spec

(* Every variable keeps its type; in particular no bucket and no shelf     *)
(* goes below zero.                                                        *)
THEOREM TypeCorrect == Spec => []TypeOK
<1>1. IInv => TypeOK
  BY DEF IInv
<1> QED BY <1>1, Inductive, PTL

(* Through sales, receipts, releases, returns and cancellations the books  *)
(* agree with the building, and what is kept for a Pick Up Later customer  *)
(* is there.  They differ by the units that releases of partly cancelled   *)
(* lines took off twice, and by those that an explicit restock of units    *)
(* never handed over made up.                                              *)
THEOREM BooksAlwaysMatchShelf == Spec => []BooksMatchShelf
<1>1. IInv => BooksMatchShelf
  BY DEF IInv
<1> QED BY <1>1, Inductive, PTL

(* Received special orders and layaways keep their units, until a line     *)
(* releases units that were not held for it.                               *)
THEOREM PromisesAreKept == Spec => []PromisesKept
<1>1. IInv => PromisesKept
  <2> SUFFICES ASSUME IInv, ~overdrawn PROVE Promised <= reserved /\ SetAside <= layaway
    BY DEF PromisesKept
  <2>1. Promised <= Due /\ Promised \in Int /\ Due \in Int
    <3> DEFINE S == {l \in Lines : Live(l) /\ line[l].kind = "special_order"
                                   /\ line[l].received /\ ~line[l].fulfilled}
               f == [l \in Lines |-> IF l \in S THEN Remaining(l) ELSE 0]
               g == [l \in Lines |-> DueIn(line[l], po[l].received)]
    <3>1. \A l \in Lines : f[l] \in Int /\ g[l] \in Int /\ f[l] <= g[l]
      <4> SUFFICES ASSUME NEW l \in Lines PROVE f[l] \in Int /\ g[l] \in Int /\ f[l] <= g[l]
        OBVIOUS
      <4>1. DueIn(line[l], po[l].received) \in Nat /\ Remaining(l) \in Nat
        BY LineNumbers, DueNumbers DEF IInv, TypeOK
      <4>2. l \in S => DueIn(line[l], po[l].received) = Remaining(l)
        BY DEF DueIn, Live, Remaining
      <4> HIDE DEF S
      <4> QED BY <4>1, <4>2
    <3>2. Promised = Total(f) /\ Due = Total(g)
      BY DEF Promised, RemainingOn, Due
    <3> HIDE DEF f, g
    <3> QED BY <3>1, <3>2, TotalLeq
  <2>2. SetAside = Aside
    BY DEF SetAside, Aside, RemainingOn, AsideIn, Live, Remaining
  <2> QED BY <2>1, <2>2 DEF IInv, DueOK, TypeOK
<1> QED BY <1>1, Inductive, PTL
=============================================================================

-------------------------- MODULE QboJournalProofs --------------------------
(* Theorems about QboJournal, for any requests and bounds.                 *)
EXTENDS QboJournal, DataLemmas

(* A row is posted from the moment a request has claimed it.               *)
PostedStatuses == {"syncing", "failed", "synced", "voided"}
PostedRow(r) == r \in Rows /\ Status(r) \in PostedStatuses

(* The entry a synced or voided row names is its own; a voided row's is    *)
(* deleted.                                                                *)
RowsOK ==
    \A r \in Rows :
        /\ Status(r) \in {"synced", "voided"} =>
              \/ rows[r].entry = Unnamed /\ Status(r) = "synced"
              \/ /\ rows[r].entry \in DOMAIN entries
                 /\ entries[rows[r].entry].row = r
        /\ Status(r) = "voided" => ~entries[rows[r].entry].live

(* What is on the wire, or in QuickBooks, is of a posted row, and has its  *)
(* lines unless it was read before a revert.                               *)
WireOK ==
    \A m \in wire :
        /\ m.id = << m.row >>
        /\ PostedRow(m.row)
        /\ m.payload = rows[m.row].payload \/ m.row \in outdated

EntriesOK ==
    \A e \in DOMAIN entries :
        LET r == entries[e].row IN
        /\ PostedRow(r)
        /\ entries[e].payload = rows[r].payload \/ r \in outdated
        /\ entries[e].live \/ e \in asked

(* QuickBooks knows one entry for a request id; of a row whose request id  *)
(* it never forgot, it knows every entry.                                  *)
KnownOK ==
    /\ \A k \in known :
          k.entry \in DOMAIN entries /\ k.id = << entries[k.entry].row >>
    /\ \A k, l \in known : k.id = l.id => k = l
    /\ \A e \in DOMAIN entries :
          entries[e].row \in lapsed \/ \E k \in known : k.entry = e

(* What the requests hold.                                                 *)
RequestsOK ==
    /\ proposer # None => proposer.row \in Rows \cup {0}
    /\ \A p \in Posters :
          poster[p].at # "idle" =>
              poster[p].row \in Rows /\ poster[p].payload # 0
    /\ \A v \in Voiders :
          voider[v] # 0 =>
              /\ voider[v] \in Rows
              /\ Status(voider[v]) \in {"synced", "voided"}
              /\ rows[voider[v]].entry \in DOMAIN entries
    /\ asked \subseteq DOMAIN entries

IInv ==
    TypeOK /\ RowsOK /\ WireOK /\ EntriesOK /\ KnownOK /\ RequestsOK /\ OnePoster
-----------------------------------------------------------------------------
(* The operators.                                                          *)

(* The newest open row is one of the rows, when there is one.              *)
LEMMA NewestOpenIsRow ==
    ASSUME TypeOK PROVE NewestOpen \in Rows \cup {0}
<1> DEFINE open == {r \in Rows : Status(r) \in Open}
<1>1. CASE open = {}
  BY <1>1 DEF NewestOpen
<1>2. CASE open # {}
  <2>1. Len(rows) \in Nat /\ Rows = 1 .. Len(rows)
    BY DEF TypeOK, Rows
  <2>2. open \subseteq 0 .. Len(rows)
    BY <2>1
  <2>3. \E r \in open : \A s \in open : s <= r
    BY <1>2, <2>1, <2>2, GreatestElement
  <2>4. NewestOpen = CHOOSE r \in open : \A s \in open : s <= r
    BY <1>2 DEF NewestOpen
  <2>5. NewestOpen \in open
    <3> HIDE DEF open
    <3> QED BY <2>3, <2>4
  <2> QED BY <2>5
<1> QED BY <1>1, <1>2

(* A row that changes its status keeps its place, its lines and its entry. *)
LEMMA StatusSet ==
    ASSUME TypeOK, NEW r \in Rows, NEW status \in {"pending", "approved", "syncing", "voided"},
           SetStatus(r, status)
    PROVE  /\ rows' \in Seq(RowRecords) /\ Len(rows') = Len(rows) /\ Rows' = Rows
           /\ \A q \in Rows :
                 /\ Status(q)' = IF q = r THEN status ELSE Status(q)
                 /\ rows'[q].payload = rows[q].payload
                 /\ rows'[q].entry = rows[q].entry
<1> USE DEF TypeOK, Rows
<1>1. rows[r] \in RowRecords
  OBVIOUS
<1>2. [rows[r] EXCEPT !.status = status] \in RowRecords
  BY <1>1 DEF RowRecords, Open
<1>3. rows' = [rows EXCEPT ![r] = [rows[r] EXCEPT !.status = status]]
  BY DEF SetStatus
<1>4. rows' \in Seq(RowRecords) /\ Len(rows') = Len(rows) /\ DOMAIN rows' = DOMAIN rows
  BY <1>2, <1>3
<1> QED BY <1>3, <1>4, <1>1 DEF Status, RowRecords

(* A refreshed or settled row: all others stay as they are.                *)
LEMMA RowWritten ==
    ASSUME TypeOK, NEW r \in Rows, NEW new \in RowRecords,
           rows' = [rows EXCEPT ![r] = new]
    PROVE  /\ rows' \in Seq(RowRecords) /\ Len(rows') = Len(rows) /\ Rows' = Rows
           /\ \A q \in Rows : rows'[q] = IF q = r THEN new ELSE rows[q]
BY DEF TypeOK, Rows

(* What Settle leaves of the row and of the request.                       *)
LEMMA Settled ==
    ASSUME TypeOK, NEW p \in Posters, NEW status \in {"failed", "synced"},
           NEW entry \in (1..MaxEntries) \cup {None, Unnamed},
           poster[p].row \in Rows, Settle(p, status, entry)
    PROVE  /\ rows' \in Seq(RowRecords) /\ Len(rows') = Len(rows) /\ Rows' = Rows
           /\ \A q \in Rows :
                 /\ rows'[q].payload = rows[q].payload
                 /\ \/ rows'[q] = rows[q] /\ ~(q = poster[p].row /\ Status(q) = "syncing")
                    \/ /\ q = poster[p].row /\ Status(q) = "syncing"
                       /\ Status(q)' = status /\ rows'[q].entry = entry
<1> DEFINE r == poster[p].row
           new == [rows[r] EXCEPT !.status = status, !.entry = entry]
<1>1. rows[r] \in RowRecords
  BY DEF TypeOK, Rows
<1>2. new \in RowRecords
  BY <1>1 DEF RowRecords
<1>3. CASE Status(r) # "syncing"
  <2>1. rows' = rows
    BY <1>3 DEF Settle
  <2> QED BY <2>1, <1>3 DEF TypeOK, Rows
<1>4. CASE Status(r) = "syncing"
  <2>1. rows' = [rows EXCEPT ![r] = new]
    BY <1>4 DEF Settle
  <2>2. /\ rows' \in Seq(RowRecords) /\ Len(rows') = Len(rows) /\ Rows' = Rows
        /\ \A q \in Rows : rows'[q] = IF q = r THEN new ELSE rows[q]
    BY <1>2, <2>1, RowWritten
  <2>3. new.status = status /\ new.entry = entry /\ new.payload = rows[r].payload
    BY <1>1 DEF RowRecords
  <2> HIDE DEF new
  <2> QED BY <2>2, <2>3, <1>4 DEF Status
<1> QED BY <1>3, <1>4

(* What FinishPropose leaves: one open row refreshed, or a new one.        *)
LEMMA Proposed ==
    ASSUME TypeOK, RequestsOK, NEW status \in Open, FinishPropose(status)
    PROVE  /\ rows' \in Seq(RowRecords) /\ Len(rows') \in Len(rows)..MaxRows
           /\ \A q \in Rows' \ Rows : Status(q)' \in Open
           /\ \A q \in Rows :
                 \/ rows'[q] = rows[q]
                 \/ Status(q) \in Open /\ Status(q)' \in Open
<1> DEFINE r == proposer.row
<1> USE DEF TypeOK, Rows
<1>0. proposer \in [row: 0..MaxRows, payload: 1..MaxFacts] /\ Len(rows) \in Nat /\ MaxRows \in Nat
  BY QboJournalAssumption DEF FinishPropose
<1>1. CASE r # 0
  <2> DEFINE new == [rows[r] EXCEPT !.status = status, !.payload = proposer.payload]
  <2>1. r \in Rows /\ Status(r) \in Open
    BY <1>1 DEF FinishPropose, RequestsOK, Refreshable
  <2>2. rows[r] \in RowRecords
    BY <2>1
  <2>3. new \in RowRecords /\ new.status = status
    BY <1>0, <2>2 DEF RowRecords
  <2>4. rows' = [rows EXCEPT ![r] = new]
    BY <1>1 DEF FinishPropose
  <2>5. /\ rows' \in Seq(RowRecords) /\ Len(rows') = Len(rows) /\ Rows' = Rows
        /\ \A q \in Rows : rows'[q] = IF q = r THEN new ELSE rows[q]
    BY <2>1, <2>3, <2>4, RowWritten
  <2> HIDE DEF new
  <2> QED BY <1>0, <2>1, <2>3, <2>5 DEF Status
<1>2. CASE r = 0
  <2> DEFINE new == [status |-> status, entry |-> None, payload |-> proposer.payload]
  <2>1. rows' = Append(rows, new) /\ Len(rows) < MaxRows
    BY <1>2 DEF FinishPropose
  <2>2. new \in RowRecords
    BY <1>0 DEF RowRecords
  <2>3. /\ rows' \in Seq(RowRecords) /\ Len(rows') = Len(rows) + 1
        /\ \A q \in Rows : rows'[q] = rows[q]
        /\ rows'[Len(rows) + 1] = new
    BY <2>1, <2>2
  <2>4. Rows' \ Rows \subseteq {Len(rows) + 1}
    BY <1>0, <2>3
  <2> QED BY <1>0, <2>1, <2>3, <2>4 DEF Status
<1> QED BY <1>1, <1>2
-----------------------------------------------------------------------------
(* Types.                                                                  *)

(* No row has been proposed, and no request made.                          *)
LEMMA InitHolds == Init => IInv
BY QboJournalAssumption
   DEF Init, IInv, TypeOK, RowsOK, WireOK, EntriesOK, KnownOK, RequestsOK, OnePoster,
       Rows, Idle

(* Every step keeps the types.                                             *)
LEMMA TypeStep == TypeOK /\ RequestsOK /\ KnownOK /\ [Next]_vars => TypeOK'
<1> SUFFICES ASSUME TypeOK, RequestsOK, KnownOK, [Next]_vars PROVE TypeOK'
  OBVIOUS
<1> USE QboJournalAssumption
<1> DEFINE Handlers == [at: {"idle", "read", "wait"}, row: 0..MaxRows,
                        payload: 0..MaxFacts, from: {"approved", "failed"}]
<1>0. /\ \A r \in Rows : r \in 1..MaxRows /\ rows[r] \in RowRecords
      /\ \A e \in DOMAIN entries : entries[e] \in EntryRecords
      /\ poster \in [Posters -> Handlers]
      /\ Idle \in Handlers
  BY DEF TypeOK, Rows, Idle
<1> USE DEF quickbooks
<1>1. ASSUME Activity PROVE TypeOK'
  BY <1>1 DEF Activity, TypeOK
<1>2. ASSUME BeginPropose PROVE TypeOK'
  <2>1. NewestOpen \in 0..MaxRows
    BY <1>0, NewestOpenIsRow
  <2> QED BY <1>2, <2>1 DEF BeginPropose, TypeOK
<1>3. ASSUME AbortPropose PROVE TypeOK'
  BY <1>3 DEF AbortPropose, TypeOK
<1>4. ASSUME NEW status \in Open, FinishPropose(status) PROVE TypeOK'
  <2>1. rows' \in Seq(RowRecords) /\ Len(rows') <= MaxRows
    BY <1>4, Proposed
  <2>2. proposer' = None /\ UNCHANGED << facts, poster, voider, quickbooks, outdated >>
    BY <1>4 DEF FinishPropose
  <2> QED BY <2>1, <2>2 DEF TypeOK
<1>5. ASSUME NEW r \in Rows, Approve(r) PROVE TypeOK'
  <2>1. rows' \in Seq(RowRecords) /\ Len(rows') = Len(rows)
    BY <1>5, StatusSet DEF Approve
  <2> QED BY <1>5, <2>1 DEF Approve, TypeOK
<1>6. ASSUME NEW r \in Rows, Revert(r) PROVE TypeOK'
  <2>1. rows' \in Seq(RowRecords) /\ Len(rows') = Len(rows)
    BY <1>6, StatusSet DEF Revert
  <2> QED BY <1>6, <2>1 DEF Revert, TypeOK
<1>7. ASSUME NEW p \in Posters, NEW r \in Rows, ReadRow(p, r) PROVE TypeOK'
  <2> DEFINE new == [at |-> "read", row |-> r, payload |-> rows[r].payload,
                     from |-> Status(r)]
  <2>1. new \in Handlers
    BY <1>0, <1>7 DEF ReadRow, RowRecords
  <2>2. poster' \in [Posters -> Handlers]
    BY <1>0, <1>7, <2>1 DEF ReadRow
  <2> QED BY <1>7, <2>2 DEF ReadRow, TypeOK
<1>8. ASSUME NEW p \in Posters, Claim(p) PROVE TypeOK'
  <2> DEFINE r == poster[p].row
             m == [id |-> RequestId(p), row |-> r, payload |-> poster[p].payload]
  <2>1. r \in Rows /\ r \in 1..MaxRows /\ poster[p].payload \in 1..MaxFacts
    BY <1>0, <1>8 DEF Claim, RequestsOK
  <2>2. rows' \in Seq(RowRecords) /\ Len(rows') = Len(rows)
    BY <1>8, <2>1, StatusSet DEF Claim
  <2>3. poster' \in [Posters -> Handlers]
    BY <1>0, <1>8 DEF Claim
  <2>4. m \in [id: RequestIds, row: 1..MaxRows, payload: 1..MaxFacts]
    BY <2>1 DEF RequestId, RequestIds
  <2>5. wire' = wire \cup {m} /\ outdated' \subseteq outdated \cup {r}
        /\ UNCHANGED << facts, proposer, voider, entries, known, asked, lapsed >>
    BY <1>8 DEF Claim
  <2> HIDE DEF r, m
  <2> QED BY <2>1, <2>2, <2>3, <2>4, <2>5 DEF TypeOK
<1>9. ASSUME NEW m \in wire, MakeEntry(m) PROVE TypeOK'
  <2> DEFINE e == [row |-> m.row, live |-> TRUE, payload |-> m.payload]
             k == [id |-> m.id, entry |-> Len(entries) + 1]
  <2>1. UNCHANGED << facts, rows, proposer, poster, voider, asked, lapsed, outdated >>
        /\ wire' \subseteq wire
    BY <1>9 DEF MakeEntry
  <2>2. CASE UNCHANGED << entries, known >>
    BY <2>1, <2>2 DEF TypeOK
  <2>3. CASE /\ Len(entries) < MaxEntries
             /\ entries' = Append(entries, e)
             /\ known' = known \cup {k}
    <3>1. e \in EntryRecords /\ k \in [id: RequestIds, entry: 1..MaxEntries]
      BY <2>3 DEF TypeOK, EntryRecords
    <3>2. entries' \in Seq(EntryRecords) /\ Len(entries') <= MaxEntries
      <4> HIDE DEF e
      <4> QED BY <2>3, <3>1 DEF TypeOK
    <3> HIDE DEF e, k
    <3> QED BY <2>1, <2>3, <3>1, <3>2 DEF TypeOK
  <2> QED BY <1>9, <2>2, <2>3 DEF MakeEntry
<1>10. ASSUME NEW k \in known, Forget(k) PROVE TypeOK'
  <2>1. entries[k.entry].row \in 1..MaxRows
    BY <1>0 DEF KnownOK, EntryRecords
  <2> QED BY <1>10, <2>1 DEF Forget, TypeOK
<1>11. ASSUME NEW p \in Posters, Posted(p) PROVE TypeOK'
  <2>1. PICK entry \in (1..MaxEntries) \cup {None, Unnamed} : Settle(p, "synced", entry)
    BY <1>11 DEF Posted, Remembered, TypeOK
  <2>2. poster[p].row \in Rows
    BY <1>11 DEF Posted, RequestsOK
  <2>3. rows' \in Seq(RowRecords) /\ Len(rows') = Len(rows)
    BY <2>1, <2>2, Settled
  <2>4. poster' \in [Posters -> Handlers]
    BY <1>0, <2>1 DEF Settle
  <2> QED BY <1>11, <2>3, <2>4 DEF Posted, TypeOK
<1>12. ASSUME NEW p \in Posters, Failed(p) PROVE TypeOK'
  <2>1. poster[p].row \in Rows
    BY <1>12 DEF Failed, RequestsOK
  <2>2. rows[poster[p].row].entry \in (1..MaxEntries) \cup {None, Unnamed}
    BY <1>0, <2>1 DEF RowRecords
  <2>3. rows' \in Seq(RowRecords) /\ Len(rows') = Len(rows)
    BY <1>12, <2>1, <2>2, Settled DEF Failed
  <2>4. poster' \in [Posters -> Handlers]
    BY <1>0, <1>12 DEF Failed, Settle
  <2> QED BY <1>12, <2>3, <2>4 DEF Failed, TypeOK
<1>13. ASSUME NEW p \in Posters, Drop(p) PROVE TypeOK'
  <2>1. poster' \in [Posters -> Handlers]
    BY <1>0, <1>13 DEF Drop
  <2> QED BY <1>13, <2>1 DEF Drop, TypeOK
<1>14. ASSUME NEW v \in Voiders, NEW r \in Rows, AskVoid(v, r) PROVE TypeOK'
  <2>1. rows[r].entry \in 1..MaxEntries
    BY <1>14 DEF AskVoid, TypeOK
  <2>2. voider' \in [Voiders -> 0..MaxRows]
    BY <1>0, <1>14 DEF AskVoid, TypeOK
  <2> QED BY <1>14, <2>1, <2>2 DEF AskVoid, TypeOK
<1>15. ASSUME NEW e \in asked, DeleteEntry(e) PROVE TypeOK'
  <2>1. e \in DOMAIN entries
    BY DEF RequestsOK
  <2>2. [entries[e] EXCEPT !.live = FALSE] \in EntryRecords
    BY ZenonT(60), <1>0, <2>1 DEF EntryRecords
  <2>3. entries' = [entries EXCEPT ![e] = [entries[e] EXCEPT !.live = FALSE]]
    BY <1>15 DEF DeleteEntry
  <2>4. entries' \in Seq(EntryRecords) /\ Len(entries') = Len(entries)
    <3> DEFINE new == [entries[e] EXCEPT !.live = FALSE]
    <3> HIDE DEF new
    <3> QED BY <2>1, <2>2, <2>3 DEF TypeOK
  <2> QED BY <1>15, <2>4 DEF DeleteEntry, TypeOK
<1>16. ASSUME NEW v \in Voiders, Voided(v) PROVE TypeOK'
  <2>1. voider[v] \in Rows
    BY <1>16 DEF Voided, RequestsOK
  <2>2. rows' \in Seq(RowRecords) /\ Len(rows') = Len(rows)
    BY <1>16, <2>1, StatusSet DEF Voided
  <2> QED BY <1>16, <2>2 DEF Voided, TypeOK
<1>17. ASSUME NEW v \in Voiders, VoidFails(v) PROVE TypeOK'
  BY <1>17 DEF VoidFails, TypeOK
<1>18. CASE UNCHANGED vars
  BY <1>18 DEF vars, TypeOK
<1> QED
  BY <1>1, <1>2, <1>3, <1>4, <1>5, <1>6, <1>7, <1>8, <1>9, <1>10, <1>11, <1>12,
     <1>13, <1>14, <1>15, <1>16, <1>17, <1>18 DEF Next
-----------------------------------------------------------------------------
(* The rest of the invariant.                                              *)

(* Which steps touch what.                                                 *)
LEMMA Touched ==
    ASSUME [Next]_vars
    PROVE  /\ \/ UNCHANGED rows
              \/ \E status \in Open : FinishPropose(status)
              \/ \E r \in Rows : Approve(r) \/ Revert(r)
              \/ \E p \in Posters : Claim(p) \/ Posted(p) \/ Failed(p)
              \/ \E v \in Voiders : Voided(v)
           /\ \/ UNCHANGED wire
              \/ \E p \in Posters : Claim(p)
              \/ \E m \in wire : MakeEntry(m)
           /\ \/ UNCHANGED << entries, known, lapsed >>
              \/ \E m \in wire : MakeEntry(m)
              \/ \E k \in known : Forget(k)
              \/ \E e \in asked : DeleteEntry(e)
           /\ outdated \subseteq outdated' /\ asked \subseteq asked'
           /\ \/ UNCHANGED poster
              \/ \E p \in Posters : Claim(p) \/ Posted(p) \/ Failed(p) \/ Drop(p)
              \/ \E p \in Posters, r \in Rows : ReadRow(p, r)
           /\ \/ UNCHANGED voider
              \/ \E v \in Voiders : Voided(v) \/ VoidFails(v)
              \/ \E v \in Voiders, r \in Rows : AskVoid(v, r)
<1> QED BY DEF Next, vars, quickbooks, Activity, BeginPropose, FinishPropose, AbortPropose,
               Approve, Revert, ReadRow, Claim, MakeEntry, Forget, Posted, Failed, Drop,
               AskVoid, DeleteEntry, Voided, VoidFails

(* A posted row stays one, with its lines: it is claimed from 'approved'   *)
(* or 'failed', and neither refreshed, approved nor reverted again.        *)
PostedKept ==
    /\ Rows \subseteq Rows'
    /\ \A r : PostedRow(r) => PostedRow(r)' /\ rows'[r].payload = rows[r].payload

(* No step changes the lines of a posted row, or takes its status back.    *)
LEMMA PostedStays == ASSUME IInv, [Next]_vars PROVE PostedKept
<1> USE DEF IInv
<1>1. CASE UNCHANGED rows
  BY <1>1 DEF PostedKept, Rows, PostedRow, Status
<1>2. ASSUME NEW status \in Open, FinishPropose(status) PROVE PostedKept
  <2>1. /\ rows' \in Seq(RowRecords) /\ Len(rows') \in Len(rows)..MaxRows
        /\ \A q \in Rows : rows'[q] = rows[q] \/ Status(q) \in Open
    BY <1>2, Proposed
  <2>2. Rows \subseteq Rows'
    BY <2>1 DEF Rows, TypeOK
  <2> QED BY <2>1, <2>2 DEF PostedKept, PostedRow, PostedStatuses, Status, Open
<1>3. ASSUME NEW r \in Rows, NEW s \in {"pending", "approved"}, SetStatus(r, s),
             Status(r) \notin PostedStatuses
      PROVE  PostedKept
  BY <1>3, StatusSet DEF PostedKept, PostedRow
<1>4. ASSUME NEW r \in Rows, NEW s \in {"syncing", "voided"}, SetStatus(r, s)
      PROVE  PostedKept
  BY <1>4, StatusSet DEF PostedKept, PostedRow, PostedStatuses
<1>5. ASSUME NEW p \in Posters, NEW s \in {"failed", "synced"},
             NEW entry \in (1..MaxEntries) \cup {None, Unnamed},
             poster[p].row \in Rows, Settle(p, s, entry)
      PROVE  PostedKept
  BY <1>5, Settled DEF PostedKept, PostedRow, PostedStatuses, Status
<1>6. ASSUME NEW r \in Rows, Approve(r) \/ Revert(r) PROVE PostedKept
  BY <1>3, <1>6 DEF Approve, Revert, Revertable, PostedStatuses
<1>7. ASSUME NEW p \in Posters, Claim(p) \/ Posted(p) \/ Failed(p) PROVE PostedKept
  <2>1. poster[p].row \in Rows
    BY <1>7 DEF Claim, Posted, Failed, RequestsOK
  <2>2. CASE Claim(p)
    BY <1>4, <2>1, <2>2 DEF Claim
  <2>3. CASE Posted(p)
    <3>1. PICK entry \in (1..MaxEntries) \cup {None, Unnamed} : Settle(p, "synced", entry)
      BY <2>3 DEF Posted, Remembered, TypeOK
    <3> QED BY <1>5, <2>1, <3>1
  <2>4. CASE Failed(p)
    <3>1. rows[poster[p].row] \in RowRecords
      BY <2>1 DEF TypeOK, Rows
    <3>2. rows[poster[p].row].entry \in (1..MaxEntries) \cup {None, Unnamed}
      BY <3>1 DEF RowRecords
    <3> QED BY <1>5, <2>1, <2>4, <3>2 DEF Failed
  <2> QED BY <1>7, <2>2, <2>3, <2>4
<1>8. ASSUME NEW v \in Voiders, Voided(v) PROVE PostedKept
  BY <1>4, <1>8 DEF Voided, RequestsOK
<1> QED BY <1>1, <1>2, <1>6, <1>7, <1>8, Touched

(* An entry is never anyone else's, nor alive again.                       *)
EntriesKept ==
    /\ DOMAIN entries \subseteq DOMAIN entries'
    /\ \A e \in DOMAIN entries :
          /\ entries'[e].row = entries[e].row
          /\ entries'[e].payload = entries[e].payload
          /\ entries'[e].live => entries[e].live

(* What a request taken up leaves.                                         *)
LEMMA EntryMade ==
    ASSUME TypeOK, NEW m \in wire, MakeEntry(m)
    PROVE  \/ UNCHANGED << entries, known >>
           \/ /\ Remembered(m.id) = {}
              /\ DOMAIN entries' = DOMAIN entries \cup {Len(entries) + 1}
              /\ Len(entries) + 1 \notin DOMAIN entries
              /\ \A e \in DOMAIN entries : entries'[e] = entries[e]
              /\ entries'[Len(entries) + 1] =
                    [row |-> m.row, live |-> TRUE, payload |-> m.payload]
              /\ known' = known \cup {[id |-> m.id, entry |-> Len(entries) + 1]}
<1> DEFINE e == [row |-> m.row, live |-> TRUE, payload |-> m.payload]
<1>1. CASE entries' = Append(entries, e)
  <2> HIDE DEF e
  <2>1. /\ DOMAIN entries' = DOMAIN entries \cup {Len(entries) + 1}
        /\ Len(entries) + 1 \notin DOMAIN entries
        /\ \A d \in DOMAIN entries : entries'[d] = entries[d]
        /\ entries'[Len(entries) + 1] = e
    BY <1>1 DEF TypeOK
  <2> USE DEF e
  <2>2. CASE Remembered(m.id) # {}
    BY <2>2 DEF MakeEntry
  <2>3. CASE Remembered(m.id) = {}
    BY <2>1, <2>3 DEF MakeEntry
  <2> QED BY <2>2, <2>3
<1> QED BY <1>1 DEF MakeEntry

(* A deletion ends one entry and leaves the others.                        *)
LEMMA EntryDeleted ==
    ASSUME TypeOK, RequestsOK, NEW e \in asked, DeleteEntry(e)
    PROVE  /\ DOMAIN entries' = DOMAIN entries
           /\ \A d \in DOMAIN entries :
                 entries'[d] = IF d = e THEN [entries[e] EXCEPT !.live = FALSE] ELSE entries[d]
           /\ entries[e] \in EntryRecords
<1>1. e \in DOMAIN entries
  BY DEF RequestsOK
<1> QED BY <1>1 DEF DeleteEntry, TypeOK

(* No step gives an entry to another row, or revives it.                   *)
LEMMA EntriesStay == ASSUME IInv, [Next]_vars PROVE EntriesKept
<1> USE DEF IInv, EntriesKept
<1>1. CASE UNCHANGED entries
  BY <1>1
<1>2. ASSUME NEW m \in wire, MakeEntry(m) PROVE EntriesKept
  BY <1>2, EntryMade
<1>3. ASSUME NEW e \in asked, DeleteEntry(e) PROVE EntriesKept
  BY ZenonT(60), <1>3, EntryDeleted DEF EntryRecords
<1>4. ASSUME NEW k \in known, Forget(k) PROVE EntriesKept
  BY <1>1, <1>4 DEF Forget
<1> QED BY <1>1, <1>2, <1>3, <1>4, Touched

(* Every step keeps what a request on the wire says of its row,            *)
LEMMA WireStep == ASSUME IInv, [Next]_vars PROVE WireOK'
<1> USE DEF IInv
<1>1. ASSUME NEW m \in wire, m \in wire'
      PROVE  /\ m.id = << m.row >> /\ PostedRow(m.row)'
             /\ m.payload = rows'[m.row].payload \/ m.row \in outdated'
  BY PostedStays, Touched DEF WireOK, PostedKept
<1>2. CASE wire' \subseteq wire
  BY <1>1, <1>2 DEF WireOK
<1>3. ASSUME NEW p \in Posters, Claim(p) PROVE WireOK'
  <2>1. PICK r \in Rows : r = poster[p].row
    BY <1>3 DEF Claim, RequestsOK
  <2>2. PICK m : m = [id |-> << r >>, row |-> r, payload |-> poster[p].payload]
    OBVIOUS
  <2>3. wire' = wire \cup {m}
    BY <1>3, <2>1, <2>2 DEF Claim, RequestId
  <2>4. PostedRow(r)'
    BY <1>3, <2>1, StatusSet DEF Claim, PostedRow, PostedStatuses
  <2>5. m.payload = rows'[r].payload \/ r \in outdated'
    BY <1>3, <2>1, <2>2, StatusSet DEF Claim
  <2>6. m.id = << r >> /\ m.row = r
    BY <2>2
  <2> QED BY <1>1, <2>3, <2>4, <2>5, <2>6 DEF WireOK
<1>4. ASSUME NEW m \in wire, MakeEntry(m) PROVE WireOK'
  BY <1>2, <1>4 DEF MakeEntry
<1> QED BY <1>2, <1>3, <1>4, Touched

(* what an entry says of its row,                                          *)
LEMMA EntriesStep == ASSUME IInv, [Next]_vars PROVE EntriesOK'
<1> USE DEF IInv
<1>1. ASSUME NEW e \in DOMAIN entries
      PROVE  /\ PostedRow(entries[e].row)'
             /\ \/ entries'[e].payload = rows'[entries'[e].row].payload
                \/ entries'[e].row \in outdated'
             /\ entries[e].live \/ e \in asked'
  <2>1. PICK r : r = entries[e].row
    OBVIOUS
  <2>2. r = entries'[e].row /\ entries'[e].payload = entries[e].payload
    BY <2>1, EntriesStay DEF EntriesKept
  <2>3. PostedRow(r) /\ (entries[e].payload = rows[r].payload \/ r \in outdated)
    BY <2>1 DEF EntriesOK
  <2>4. PostedRow(r)' /\ rows'[r].payload = rows[r].payload
    BY <2>3, PostedStays DEF PostedKept
  <2>5. outdated \subseteq outdated' /\ asked \subseteq asked'
    BY Touched
  <2> QED BY <2>2, <2>3, <2>4, <2>5 DEF EntriesOK
<1>2. CASE UNCHANGED entries
  BY <1>1, <1>2 DEF EntriesOK
<1>3. ASSUME NEW m \in wire, MakeEntry(m) PROVE EntriesOK'
  <2>1. \/ UNCHANGED << entries, known >>
        \/ /\ DOMAIN entries' = DOMAIN entries \cup {Len(entries) + 1}
           /\ \A e \in DOMAIN entries : entries'[e] = entries[e]
           /\ entries'[Len(entries) + 1] =
                 [row |-> m.row, live |-> TRUE, payload |-> m.payload]
    BY <1>3, EntryMade
  <2>2. /\ PostedRow(m.row)'
        /\ m.payload = rows'[m.row].payload \/ m.row \in outdated'
    BY PostedStays, Touched DEF WireOK, PostedKept
  <2>3. CASE UNCHANGED << entries, known >>
    BY <1>2, <2>3
  <2>4. CASE ~ UNCHANGED << entries, known >>
    <3>1. PICK n : n = Len(entries) + 1
      OBVIOUS
    <3>2. /\ DOMAIN entries' = DOMAIN entries \cup {n}
          /\ entries'[n].row = m.row /\ entries'[n].payload = m.payload /\ entries'[n].live
      BY <2>1, <2>4, <3>1
    <3>3. \A e \in DOMAIN entries : entries'[e].live = entries[e].live
      BY <2>1, <2>4
    <3> QED BY <1>1, <2>2, <3>2, <3>3 DEF EntriesOK
  <2> QED BY <2>3, <2>4
<1>4. ASSUME NEW e \in asked, DeleteEntry(e) PROVE EntriesOK'
  <2>1. /\ DOMAIN entries' = DOMAIN entries
        /\ \A d \in DOMAIN entries : d # e => entries'[d] = entries[d]
    BY <1>4, EntryDeleted
  <2>2. e \in asked'
    BY Touched
  <2> QED BY <1>1, <2>1, <2>2 DEF EntriesOK
<1>5. ASSUME NEW k \in known, Forget(k) PROVE EntriesOK'
  BY <1>2, <1>5 DEF Forget
<1> QED BY <1>2, <1>3, <1>4, <1>5, Touched

(* what a row knows of its entry,                                          *)
LEMMA KnownStep == ASSUME IInv, [Next]_vars PROVE KnownOK'
<1> USE DEF IInv
<1>1. CASE UNCHANGED << entries, known, lapsed >>
  BY <1>1 DEF KnownOK
<1>2. ASSUME NEW m \in wire, MakeEntry(m) PROVE KnownOK'
  <2> DEFINE n == Len(entries) + 1
             new == [id |-> m.id, entry |-> n]
  <2>1. UNCHANGED lapsed
    BY <1>2 DEF MakeEntry
  <2>2. CASE UNCHANGED << entries, known >>
    BY <1>1, <2>1, <2>2
  <2>3. CASE ~ UNCHANGED << entries, known >>
    <3>1. /\ \A k \in known : k.id # m.id
          /\ DOMAIN entries' = DOMAIN entries \cup {n} /\ n \notin DOMAIN entries
          /\ \A e \in DOMAIN entries : entries'[e] = entries[e]
          /\ entries'[n].row = m.row
          /\ known' = known \cup {new}
      <4>1. /\ Remembered(m.id) = {}
            /\ DOMAIN entries' = DOMAIN entries \cup {n} /\ n \notin DOMAIN entries
            /\ \A e \in DOMAIN entries : entries'[e] = entries[e]
            /\ entries'[n] = [row |-> m.row, live |-> TRUE, payload |-> m.payload]
            /\ known' = known \cup {new}
        BY <1>2, <2>3, EntryMade
      <4>2. \A k \in known : k.id # m.id
        BY <4>1 DEF Remembered
      <4> QED BY <4>1, <4>2
    <3>2. new.id = m.id /\ new.entry = n /\ m.id = << m.row >>
      BY DEF WireOK
    <3> HIDE DEF new, n
    <3> QED BY <2>1, <3>1, <3>2 DEF KnownOK
  <2> QED BY <2>2, <2>3
<1>3. ASSUME NEW k \in known, Forget(k) PROVE KnownOK'
  BY <1>3 DEF Forget, KnownOK
<1>4. ASSUME NEW e \in asked, DeleteEntry(e) PROVE KnownOK'
  <2>1. DOMAIN entries' = DOMAIN entries /\ \A d \in DOMAIN entries : entries'[d].row = entries[d].row
    BY ZenonT(60), <1>4, EntryDeleted DEF EntryRecords
  <2> QED BY <1>4, <2>1 DEF DeleteEntry, KnownOK
<1> QED BY <1>1, <1>2, <1>3, <1>4, Touched

(* What a step makes of a row's entry.                                     *)
LEMMA RowsStep == ASSUME IInv, [Next]_vars PROVE RowsOK'
<1> USE DEF IInv
<1> DEFINE Named(r) == /\ rows'[r].entry \in DOMAIN entries
                       /\ entries[rows'[r].entry].row = r
           Kept(r) == \/ r \in Rows /\ rows'[r] = rows[r]
                      \/ Status(r)' \notin {"synced", "voided"}
                      \/ Status(r)' = "synced" /\ (rows'[r].entry = Unnamed \/ Named(r))
                      \/ Status(r)' = "voided" /\ Named(r) /\ ~entries[rows'[r].entry].live
<1>1. ASSUME \A r \in Rows' : Kept(r) PROVE RowsOK'
  <2> SUFFICES ASSUME NEW r \in Rows'
               PROVE  /\ Status(r)' \in {"synced", "voided"} =>
                            \/ rows'[r].entry = Unnamed /\ Status(r)' = "synced"
                            \/ /\ rows'[r].entry \in DOMAIN entries'
                               /\ entries'[rows'[r].entry].row = r
                      /\ Status(r)' = "voided" => ~entries'[rows'[r].entry].live
    BY DEF RowsOK
  <2>1. \A e \in DOMAIN entries :
           /\ e \in DOMAIN entries' /\ entries'[e].row = entries[e].row
           /\ entries'[e].live => entries[e].live
    BY EntriesStay DEF EntriesKept
  <2>2. CASE r \in Rows /\ rows'[r] = rows[r]
    BY <2>1, <2>2 DEF RowsOK, Status
  <2> QED BY <1>1, <2>1, <2>2
<1>2. CASE UNCHANGED rows
  BY <1>1, <1>2 DEF Rows
<1>3. ASSUME NEW status \in Open, FinishPropose(status) PROVE RowsOK'
  <2>1. /\ \A q \in Rows' \ Rows : Status(q)' \in Open
        /\ \A q \in Rows : rows'[q] = rows[q] \/ Status(q)' \in Open
    BY <1>3, Proposed
  <2> QED BY <1>1, <2>1 DEF Open
<1>4. ASSUME NEW r \in Rows, NEW s \in {"pending", "approved", "syncing"}, SetStatus(r, s)
      PROVE  RowsOK'
  <2>1. /\ Rows' = Rows
        /\ \A q \in Rows : q # r => rows'[q] = rows[q]
        /\ Status(r)' = s
    BY <1>4, StatusSet DEF SetStatus, TypeOK, Rows
  <2> QED BY <1>1, <2>1
<1>5. ASSUME NEW r \in Rows, Approve(r) \/ Revert(r) PROVE RowsOK'
  BY <1>4, <1>5 DEF Approve, Revert
<1>6. ASSUME NEW p \in Posters, Claim(p) PROVE RowsOK'
  BY <1>4, <1>6 DEF Claim, RequestsOK
<1>7. ASSUME NEW p \in Posters, Posted(p) PROVE RowsOK'
  <2>1. poster[p].row \in Rows
    BY <1>7 DEF Posted, RequestsOK
  <2>2. PICK k \in Remembered(RequestId(p)) :
           \E entry \in {k.entry, Unnamed} : Settle(p, "synced", entry)
    BY <1>7 DEF Posted
  <2>5. PICK entry \in {k.entry, Unnamed} : Settle(p, "synced", entry)
    BY <2>2
  <2>3. k.entry \in DOMAIN entries /\ entries[k.entry].row = poster[p].row
        /\ k.entry \in 1..MaxEntries
    BY DEF Remembered, RequestId, KnownOK, TypeOK
  <2>6. entry \in (1..MaxEntries) \cup {None, Unnamed}
    BY <2>3
  <2>4. /\ Rows' = Rows
        /\ \A q \in Rows :
              \/ rows'[q] = rows[q]
              \/ q = poster[p].row /\ Status(q)' = "synced" /\ rows'[q].entry = entry
    BY ZenonT(60), <2>1, <2>5, <2>6, Settled
  <2> QED BY <1>1, <2>2, <2>3, <2>4
<1>8. ASSUME NEW p \in Posters, Failed(p) PROVE RowsOK'
  <2>1. poster[p].row \in Rows
    BY <1>8 DEF Failed, RequestsOK
  <2>2. rows[poster[p].row] \in RowRecords
    BY <2>1 DEF TypeOK, Rows
  <2>3. rows[poster[p].row].entry \in (1..MaxEntries) \cup {None, Unnamed}
    BY <2>2 DEF RowRecords
  <2>4. /\ Rows' = Rows
        /\ \A q \in Rows : rows'[q] = rows[q] \/ Status(q)' = "failed"
    BY <1>8, <2>1, <2>3, Settled DEF Failed
  <2> QED BY <1>1, <2>4
<1>9. ASSUME NEW v \in Voiders, Voided(v) PROVE RowsOK'
  <2>1. PICK r \in Rows : r = voider[v]
    BY <1>9 DEF Voided, RequestsOK
  <2>2. /\ rows[r].entry \in DOMAIN entries
        /\ Status(r) \in {"synced", "voided"} /\ ~entries[rows[r].entry].live
    BY <1>9, <2>1 DEF Voided, Deleted, RequestsOK
  <2>3. entries[rows[r].entry].row = r
    <3>1. rows[r].entry # Unnamed
      BY <2>2, QboJournalAssumption DEF TypeOK
    <3> QED BY <2>2, <3>1 DEF RowsOK
  <2>4. /\ Rows' = Rows
        /\ \A q \in Rows : q # r => rows'[q] = rows[q]
        /\ Status(r)' = "voided" /\ rows'[r].entry = rows[r].entry
    BY ZenonT(60), <1>9, <2>1, StatusSet DEF Voided, SetStatus, TypeOK, Rows
  <2> QED BY <1>1, <2>2, <2>3, <2>4
<1> QED BY <1>2, <1>3, <1>5, <1>6, <1>7, <1>8, <1>9, Touched

(* A synced row can only be voided, and keeps the entry it names.          *)
LEMMA SyncedStays ==
    ASSUME IInv, [Next]_vars
    PROVE  \A q \in Rows : Status(q) \in {"synced", "voided"} =>
              /\ q \in Rows' /\ Status(q)' \in {"synced", "voided"}
              /\ rows'[q].entry = rows[q].entry
<1> USE DEF IInv
<1> DEFINE Kept == \A q \in Rows : Status(q) \in {"synced", "voided"} =>
                      /\ q \in Rows' /\ Status(q)' \in {"synced", "voided"}
                      /\ rows'[q].entry = rows[q].entry
<1>1. CASE UNCHANGED rows
  BY <1>1 DEF Rows, Status
<1>2. ASSUME NEW status \in Open, FinishPropose(status) PROVE Kept
  <2>1. \A q \in Rows : rows'[q] = rows[q] \/ Status(q) \in Open
    BY <1>2, Proposed
  <2>2. Rows \subseteq Rows'
    BY PostedStays DEF PostedKept
  <2> QED BY <2>1, <2>2 DEF Status, Open
<1>3. ASSUME NEW r \in Rows, NEW s \in {"pending", "approved", "syncing"}, SetStatus(r, s),
             Status(r) \notin {"synced", "voided"}
      PROVE  Kept
  BY <1>3, StatusSet
<1>4. ASSUME NEW r \in Rows, Approve(r) \/ Revert(r) PROVE Kept
  BY <1>3, <1>4 DEF Approve, Revert, Revertable
<1>5. ASSUME NEW p \in Posters, Claim(p) PROVE Kept
  <2>1. poster[p].row \in Rows /\ poster[p].from \in {"approved", "failed"}
    BY <1>5 DEF Claim, RequestsOK, TypeOK
  <2> QED BY <1>3, <1>5, <2>1 DEF Claim, Claimable
<1>6. ASSUME NEW p \in Posters, NEW s \in {"failed", "synced"},
             NEW entry \in (1..MaxEntries) \cup {None, Unnamed},
             poster[p].row \in Rows, Settle(p, s, entry)
      PROVE  Kept
  BY <1>6, Settled DEF Status
<1>7. ASSUME NEW p \in Posters, Posted(p) \/ Failed(p) PROVE Kept
  <2>1. poster[p].row \in Rows
    BY <1>7 DEF Posted, Failed, RequestsOK
  <2>2. rows[poster[p].row] \in RowRecords
    BY <2>1 DEF TypeOK, Rows
  <2>3. rows[poster[p].row].entry \in (1..MaxEntries) \cup {None, Unnamed}
    BY <2>2 DEF RowRecords
  <2>4. \E s \in {"failed", "synced"}, entry \in (1..MaxEntries) \cup {None, Unnamed} :
           Settle(p, s, entry)
    BY <1>7, <2>3 DEF Posted, Failed, Remembered, TypeOK
  <2> QED BY <1>6, <2>1, <2>4
<1>8. ASSUME NEW v \in Voiders, Voided(v) PROVE Kept
  <2>1. voider[v] \in Rows
    BY <1>8 DEF Voided, RequestsOK
  <2> QED BY <1>8, <2>1, StatusSet DEF Voided
<1> QED BY <1>1, <1>2, <1>4, <1>5, <1>7, <1>8, Touched

(* What a step makes of a request: it reads a row, claims it, or ends.      *)
LEMMA RequestMoves ==
    ASSUME TypeOK, [Next]_vars
    PROVE  \A p \in Posters :
              \/ poster'[p] = poster[p]
              \/ poster'[p].at = "idle"
              \/ Claim(p) /\ poster'[p] = [poster[p] EXCEPT !.at = "wait"]
              \/ \E r \in Rows : ReadRow(p, r)
<1> SUFFICES ASSUME NEW p \in Posters
             PROVE  \/ poster'[p] = poster[p]
                    \/ poster'[p].at = "idle"
                    \/ Claim(p) /\ poster'[p] = [poster[p] EXCEPT !.at = "wait"]
                    \/ \E r \in Rows : ReadRow(p, r)
  OBVIOUS
<1>0. poster = [q \in Posters |-> poster[q]]
  BY DEF TypeOK
<1>1. ASSUME NEW q \in Posters, Claim(q)
      PROVE  poster' = [poster EXCEPT ![q] = [poster[q] EXCEPT !.at = "wait"]]
  BY <1>1 DEF Claim
<1>2. ASSUME NEW q \in Posters, Posted(q) \/ Failed(q) \/ Drop(q)
      PROVE  poster' = [poster EXCEPT ![q] = Idle]
  BY <1>2 DEF Posted, Failed, Drop, Settle
<1>3. ASSUME NEW q \in Posters, NEW r \in Rows, ReadRow(q, r)
      PROVE  q # p => poster'[p] = poster[p]
  BY <1>0, <1>3 DEF ReadRow
<1> QED BY <1>0, <1>1, <1>2, <1>3, Touched DEF Idle

(* what the requests at work hold,                                         *)
LEMMA RequestsStep == ASSUME IInv, [Next]_vars PROVE RequestsOK'
<1> USE DEF IInv
<1>1. proposer' # None => proposer'.row \in Rows' \cup {0}
  <2>1. Rows \subseteq Rows'
    BY PostedStays DEF PostedKept
  <2>2. CASE UNCHANGED proposer
    BY <2>1, <2>2 DEF RequestsOK
  <2>3. CASE BeginPropose
    BY <2>1, <2>3, NewestOpenIsRow DEF BeginPropose
  <2>4. proposer' = proposer \/ proposer' = None \/ BeginPropose
    BY DEF Next, vars, quickbooks, Activity, FinishPropose, AbortPropose,
           Approve, Revert, ReadRow, Claim, MakeEntry, Forget, Posted, Failed, Drop,
           AskVoid, DeleteEntry, Voided, VoidFails
  <2> QED BY <2>2, <2>3, <2>4
<1>2. ASSUME NEW p \in Posters, poster'[p].at # "idle"
      PROVE  poster'[p].row \in Rows' /\ poster'[p].payload # 0
  <2>1. Rows \subseteq Rows'
    BY PostedStays DEF PostedKept
  <2>2. \/ poster'[p].row = poster[p].row /\ poster'[p].payload = poster[p].payload
           /\ poster[p].at # "idle"
        \/ \E r \in Rows : ReadRow(p, r)
    <3>1. ASSUME Claim(p), poster'[p] = [poster[p] EXCEPT !.at = "wait"]
          PROVE  poster'[p].row = poster[p].row /\ poster'[p].payload = poster[p].payload
                 /\ poster[p].at # "idle"
      BY <3>1 DEF Claim, TypeOK
    <3> QED BY <1>2, <3>1, RequestMoves
  <2>3. ASSUME NEW r \in Rows, ReadRow(p, r)
        PROVE  poster'[p].row = r /\ poster'[p].payload # 0
    <3>1. rows[r] \in RowRecords
      BY DEF TypeOK, Rows
    <3> QED BY <2>3, <3>1 DEF ReadRow, TypeOK, RowRecords
  <2> QED BY <2>1, <2>2, <2>3 DEF RequestsOK
<1>3. ASSUME NEW v \in Voiders, NEW r, r = voider'[v], r # 0
      PROVE  /\ r \in Rows'
             /\ Status(r)' \in {"synced", "voided"}
             /\ rows'[r].entry \in DOMAIN entries'
  <2>1. \/ voider'[v] = voider[v]
        \/ \E q \in Rows : AskVoid(v, q) /\ r = q
    <3>1. voider \in [Voiders -> 0..MaxRows]
      BY DEF TypeOK
    <3>2. ASSUME NEW w \in Voiders, Voided(w) \/ VoidFails(w)
          PROVE  voider' = [voider EXCEPT ![w] = 0]
      BY <3>2 DEF Voided, VoidFails
    <3>3. ASSUME NEW w \in Voiders, NEW q \in Rows, AskVoid(w, q)
          PROVE  voider' = [voider EXCEPT ![w] = q]
      BY <3>3 DEF AskVoid
    <3> QED BY <1>3, <3>1, <3>2, <3>3, Touched
  <2>3. /\ r \in Rows /\ Status(r) \in {"synced", "voided"}
        /\ rows[r].entry \in DOMAIN entries
    BY <1>3, <2>1 DEF RequestsOK, AskVoid
  <2>4. /\ r \in Rows' /\ Status(r)' \in {"synced", "voided"}
        /\ rows'[r].entry = rows[r].entry
    BY <2>3, SyncedStays
  <2>5. DOMAIN entries \subseteq DOMAIN entries'
    BY EntriesStay DEF EntriesKept
  <2> QED BY <2>3, <2>4, <2>5
<1>4. asked' \subseteq DOMAIN entries'
  <2>1. DOMAIN entries \subseteq DOMAIN entries'
    BY EntriesStay DEF EntriesKept
  <2>2. asked' \subseteq asked \cup DOMAIN entries
    BY DEF Next, vars, quickbooks, Activity, BeginPropose, FinishPropose, AbortPropose,
           Approve, Revert, ReadRow, Claim, MakeEntry, Forget, Posted, Failed, Drop,
           AskVoid, DeleteEntry, Voided, VoidFails
  <2> QED BY <2>1, <2>2 DEF RequestsOK
<1>5. \A v \in Voiders :
         voider'[v] # 0 =>
            /\ voider'[v] \in Rows'
            /\ rows'[voider'[v]].status \in {"synced", "voided"}
            /\ rows'[voider'[v]].entry \in DOMAIN entries'
  BY <1>3 DEF Status
<1> QED BY <1>1, <1>2, <1>4, <1>5 DEF RequestsOK, Status

(* and that one request at most posts a row.                               *)
LEMMA OnePosterStep == ASSUME IInv, [Next]_vars PROVE OnePoster'
<1> USE DEF IInv
<1> DEFINE Waits(p) == poster[p].at = "wait"
<1>1. ASSUME NEW p \in Posters, Claim(p) PROVE OnePoster'
  <2>1. PICK r \in Rows : r = poster[p].row
    BY <1>1 DEF Claim, RequestsOK
  <2>2. /\ Status(r) # "syncing" /\ Status(r)' = "syncing"
        /\ \A q \in Rows : q # r => Status(q)' = Status(q)
    <3>1. SetStatus(r, "syncing") /\ Status(r) = poster[p].from
      BY <1>1, <2>1 DEF Claim, Claimable
    <3>2. poster[p].from \in {"approved", "failed"}
      BY DEF TypeOK
    <3> QED BY <2>1, <3>1, <3>2, StatusSet
  <2>3. /\ \A q \in Posters : q # p => poster'[q] = poster[q]
        /\ poster'[p].row = r /\ poster'[p].at = "wait"
    BY <1>1, <2>1 DEF Claim, TypeOK
  <2>4. \A q \in Posters : Waits(q) => poster[q].row \in Rows /\ poster[q].row # r
    BY <2>2 DEF OnePoster, RequestsOK
  <2> QED BY <2>1, <2>2, <2>3, <2>4 DEF OnePoster
<1>2. CASE ~ \E p \in Posters : Claim(p)
  <2>1. \A p \in Posters : poster'[p].at = "wait" => poster'[p] = poster[p]
    <3>1. ASSUME NEW p \in Posters, NEW r \in Rows, ReadRow(p, r)
          PROVE  poster'[p].at # "wait"
      BY <3>1 DEF ReadRow, TypeOK
    <3> QED BY <1>2, <3>1, RequestMoves DEF Idle
  <2>2. ASSUME NEW p \in Posters, poster'[p].at = "wait"
        PROVE  rows'[poster[p].row].status = "syncing"
    <3>1. PICK r \in Rows : r = poster[p].row
      BY <2>1, <2>2 DEF RequestsOK
    <3>2. Status(r) = "syncing" /\ poster[p].at = "wait"
      BY <2>1, <2>2, <3>1 DEF OnePoster
    <3>3. CASE UNCHANGED rows
      BY <3>1, <3>2, <3>3 DEF Status
    <3>4. ASSUME NEW status \in Open, FinishPropose(status) PROVE Status(r)' = "syncing"
      <4>1. rows'[r] = rows[r] \/ Status(r) \in Open
        BY <3>4, Proposed
      <4> QED BY <3>2, <4>1 DEF Open, Status
    <3>5. ASSUME NEW q \in Rows, Approve(q) \/ Revert(q) PROVE Status(r)' = "syncing"
      BY <3>2, <3>5, StatusSet DEF Approve, Revert, Revertable
    <3>6. ASSUME NEW q \in Posters, Posted(q) \/ Failed(q) PROVE Status(r)' = "syncing"
      <4>1. q # p
        <5>1. poster' = [poster EXCEPT ![q] = Idle]
          BY <3>6 DEF Posted, Failed, Settle
        <5> QED BY <2>1, <2>2, <5>1 DEF TypeOK, Idle
      <4>2. poster[q].row # r /\ poster[q].row \in Rows
        BY <3>1, <3>2, <3>6, <4>1 DEF OnePoster, Posted, Failed, RequestsOK
      <4>3. rows' = rows \/ \E s, entry : rows' = [rows EXCEPT ![poster[q].row].status = s,
                                                ![poster[q].row].entry = entry]
        BY <3>6 DEF Posted, Failed, Settle
      <4> QED BY <3>2, <4>2, <4>3 DEF Status, TypeOK, Rows
    <3>7. ASSUME NEW v \in Voiders, Voided(v) PROVE Status(r)' = "syncing"
      <4>1. voider[v] \in Rows /\ Status(voider[v]) # "syncing"
        BY <3>7 DEF Voided, RequestsOK
      <4> QED BY <3>2, <3>7, <4>1, StatusSet DEF Voided
    <3> QED BY <1>2, <3>1, <3>3, <3>4, <3>5, <3>6, <3>7, Touched DEF Status
  <2> QED BY <2>1, <2>2 DEF OnePoster, Status
<1> QED BY <1>1, <1>2
-----------------------------------------------------------------------------
(* The theorems.                                                           *)

(* Every step keeps the invariant.                                         *)
LEMMA InvStep == IInv /\ [Next]_vars => IInv'
BY TypeStep, RowsStep, WireStep, EntriesStep, KnownStep, RequestsStep, OnePosterStep DEF IInv

(* The invariant holds throughout.                                         *)
LEMMA IInvariant == Spec => []IInv
BY InitHolds, InvStep, PTL DEF Spec

(* Every variable keeps its type.                                          *)
THEOREM TypeCorrect == Spec => []TypeOK
<1>1. IInv => TypeOK
  BY DEF IInv
<1> QED BY <1>1, IInvariant, PTL

(* One request at a time waits for QuickBooks' answer about a row, and the *)
(* row is 'syncing' meanwhile (the guarded claim of sync_staging).         *)
THEOREM OnePosterHolds == Spec => []OnePoster
<1>1. IInv => OnePoster
  BY DEF IInv
<1> QED BY <1>1, IInvariant, PTL

(* However often a row is posted and retried, QuickBooks has one entry of  *)
(* it (qbo_journal_request_id), unless it forgot the first request before. *)
THEOREM OneEntryPerRowHolds == Spec => []OneEntryPerRow
<1>1. IInv => OneEntryPerRow
  BY DEF IInv, KnownOK, OneEntryPerRow
<1> QED BY <1>1, IInvariant, PTL

(* The entry a synced row names is in QuickBooks with the lines the row    *)
(* shows (void_synced, sync_staging), but for the cases it names.          *)
THEOREM BooksAgreeHolds == Spec => []BooksAgree
<1>1. IInv => BooksAgree
  BY DEF IInv, RowsOK, EntriesOK, BooksAgree
<1> QED BY <1>1, IInvariant, PTL

(* A row whose entry is in QuickBooks, or may still get there, is never    *)
(* back for review, approved or voided.                                    *)
THEOREM NothingHiddenHolds == Spec => []NothingHidden
<1>1. IInv => NothingHidden
  <2> SUFFICES ASSUME IInv, NEW r \in Rows \ lapsed,
                      \/ \E e \in DOMAIN entries : entries[e].row = r /\ entries[e].live
                      \/ Remembered(<< r >>) = {} /\ \E m \in wire : m.row = r
               PROVE  Status(r) \in {"syncing", "failed", "synced"}
    BY DEF NothingHidden
  <2> USE DEF IInv
  <2>1. Status(r) \in PostedStatuses
    BY DEF EntriesOK, WireOK, PostedRow
  <2>2. CASE Status(r) = "voided"
    <3>1. PICK d \in DOMAIN entries : entries[d].row = r /\ ~entries[d].live
      BY <2>2 DEF RowsOK
    <3>2. PICK k \in known : k.entry = d
      BY <3>1 DEF KnownOK
    <3>3. k.id = << r >>
      BY <3>1, <3>2 DEF KnownOK
    <3>4. \A e \in DOMAIN entries : entries[e].row = r => e = d
      BY <3>1, <3>2, <3>3 DEF KnownOK
    <3> QED BY <3>1, <3>3, <3>4 DEF Remembered
  <2> QED BY <2>1, <2>2 DEF PostedStatuses
<1> QED BY <1>1, IInvariant, PTL
=============================================================================

----------------------------- MODULE Fulfilment -----------------------------
(***************************************************************************)
(* Customer order lines of one variant and the stock they draw on, from    *)
(* checkout through purchase order, receipt and lifecycle to pickup or     *)
(* shipment, with returns and cancellations on the way                     *)
(* (server/src/api/transactions.rs, api/purchase_orders.rs,                *)
(* api/order_lifecycle.rs, logic/order_line_cancellation.rs,               *)
(* logic/transaction_returns.rs, logic/transaction_checkout.rs).           *)
(*                                                                         *)
(* Every handler locks its transaction row, or its PO row, and then the    *)
(* variant, and commits once: one action each.  Each line is the only line *)
(* of its transaction and, once linked, has a PO line of its own; the      *)
(* store also buys the variant for stock.  The module counts units; shelf, *)
(* custody and brought say where the units really are.                     *)
(***************************************************************************)
EXTENDS Integers, FiniteSets, Sums

CONSTANTS
    Lines,          \* transaction lines of the variant
    MaxQuantity,    \* bound: units on a line
    MaxUnits,       \* bound: units on all lines
    Overrides,      \* do managers override what is not ready?
    OpeningStock,   \* units in the store before the first line
    MaxForStock     \* bound: units bought for stock

ASSUME FulfilmentAssumption ==
    /\ IsFiniteSet(Lines)
    /\ MaxQuantity \in Nat \ {0}
    /\ MaxUnits \in Nat
    /\ Overrides \in BOOLEAN
    /\ OpeningStock \in Nat
    /\ MaxForStock \in Nat

VARIABLES
    line,       \* transaction_lines
    po,         \* the PO line linked to each line
    stock, reserved, layaway,   \* product_variants
    bought,     \* units received for stock
    shelf,      \* the store: units in the building
    custody,    \* the store: sold units of each line waiting to be picked up
    misposted,  \* history: units taken off the books that never left
    phantom,    \* the store: units on the books that never came back
    overdrawn   \* history: a line released units that were not held for it

books == << stock, reserved, layaway >>
store == << shelf, custody >>
vars == << line, po, books, bought, store, misposted, phantom, overdrawn >>

Kinds == {"takeaway", "pickup_later", "special_order", "layaway"}
Ordered == {"special_order", "layaway"}   \* leave the stock when released
Quantities == 1..MaxQuantity

LineRecords ==
    [status: {"none", "open", "cancelled"},      \* of its transaction
     kind: Kinds, quantity: Quantities,
     removed: 0..MaxQuantity,                    \* transaction_return_lines
     fulfilled: BOOLEAN,
     lifecycle: {"ntbo", "ordered", "received", "ready_for_pickup", "picked_up"},
     received: BOOLEAN]                          \* received_at IS NOT NULL

TypeOK ==
    /\ line \in [Lines -> LineRecords]
    /\ \A l \in Lines : line[l].removed <= line[l].quantity
    /\ po \in [Lines -> [status: {"none", "draft", "submitted", "closed"},
                         received: 0..MaxQuantity]]
    /\ stock \in Int /\ reserved \in Nat /\ layaway \in Nat
    /\ bought \in 0..MaxForStock
    /\ shelf \in Nat /\ custody \in [Lines -> 0..MaxQuantity]
    /\ misposted \in Nat /\ phantom \in Nat /\ overdrawn \in BOOLEAN

Init ==
    /\ line = [l \in Lines |->
          [status |-> "none", kind |-> "takeaway", quantity |-> 1, removed |-> 0,
           fulfilled |-> FALSE, lifecycle |-> "ntbo", received |-> FALSE]]
    /\ po = [l \in Lines |-> [status |-> "none", received |-> 0]]
    /\ stock = OpeningStock /\ reserved = 0 /\ layaway = 0
    /\ bought = 0
    /\ shelf = OpeningStock /\ custody = [l \in Lines |-> 0]
    /\ misposted = 0 /\ phantom = 0 /\ overdrawn = FALSE

LineList == ListOf(Lines)
Total(f) == SumAlong(LineList, f)

Remaining(l) == line[l].quantity - line[l].removed
RemainingOn(lines) == Total([l \in Lines |-> IF l \in lines THEN Remaining(l) ELSE 0])
Live(l) == line[l].status = "open"

Held == Total(custody)
Loose == shelf - Held   \* units nobody has bought yet

AtLeastZero(n) == IF n < 0 THEN 0 ELSE n
Least(m, n) == IF m < n THEN m ELSE n

-----------------------------------------------------------------------------
(* Checkout.                                                               *)

Book(l, kind, q) ==
    /\ Total([k \in Lines |-> IF line[k].status = "none" THEN 0 ELSE line[k].quantity]) + q
          <= MaxUnits
    /\ line' = [line EXCEPT ![l] =
           [status |-> "open", kind |-> kind, quantity |-> q, removed |-> 0,
            fulfilled |-> kind \in {"takeaway", "pickup_later"},
            lifecycle |-> CASE kind = "pickup_later" -> "ready_for_pickup"
                            [] kind = "takeaway" -> "picked_up"
                            [] OTHER -> "ntbo",
            received |-> FALSE]]

(* Take Now: the stock may go below zero, the customer has the goods.      *)
SellTakeaway(l, q) ==
    /\ line[l].status = "none" /\ Loose >= q
    /\ Book(l, "takeaway", q)
    /\ stock' = stock - q /\ shelf' = shelf - q
    /\ UNCHANGED << po, reserved, layaway, bought, custody, misposted, phantom, overdrawn >>

Available(q) == stock - reserved - layaway >= q

(* Pick Up Later: sold and off the stock at once, kept for the customer.   *)
SellPickupLater(l, q) ==
    /\ line[l].status = "none"
    /\ Available(q)
    /\ Book(l, "pickup_later", q)
    /\ stock' = stock - q
    /\ custody' = [custody EXCEPT ![l] = q]
    /\ UNCHANGED << po, reserved, layaway, bought, shelf, misposted, phantom, overdrawn >>

(* A special (custom, wedding) order moves nothing, a layaway is set aside. *)
BookOrder(l, kind, q) ==
    /\ line[l].status = "none"
    /\ Book(l, kind, q)
    /\ layaway' = layaway + (IF kind = "layaway" THEN q ELSE 0)
    /\ UNCHANGED << po, stock, reserved, bought, store, misposted, phantom, overdrawn >>

-----------------------------------------------------------------------------
(* Procurement.                                                            *)

(* create_po_from_ntbo: a PO line for the full quantity of the line.       *)
CreatePo(l) ==
    /\ line[l].status # "none" /\ line[l].kind # "takeaway" /\ ~line[l].fulfilled
    /\ line[l].lifecycle = "ntbo" /\ po[l].status = "none"
    /\ po' = [po EXCEPT ![l].status = "draft"]
    /\ UNCHANGED << line, books, bought, store, misposted, phantom, overdrawn >>

SubmitPo(l) ==
    /\ po[l].status = "draft"
    /\ po' = [po EXCEPT ![l].status = "submitted"]
    /\ line' = IF line[l].lifecycle = "ntbo"
               THEN [line EXCEPT ![l].lifecycle = "ordered"] ELSE line
    /\ UNCHANGED << books, bought, store, misposted, phantom, overdrawn >>

(* Units ordered and not handed over, those already reserved included.     *)
OpenDemand ==
    RemainingOn({l \in Lines :
        line[l].kind = "special_order" /\ ~line[l].fulfilled /\ Live(l)})

(* Mutant: received units are not set aside for open orders.               *)
ReserveNothing(n) == 0

ReservedOf(n) == Least(OpenDemand, n)

(* receive_po: the units enter the stock, and as many as there is open     *)
(* demand for are reserved.                                                *)
Receive(n) ==
    /\ stock' = stock + n
    /\ shelf' = shelf + n
    /\ reserved' = reserved + ReservedOf(n)

(* A linked line is received when its PO line is, whatever its lifecycle   *)
(* was before.                                                             *)
ReceiveLinked(l, n) ==
    /\ po[l].status = "submitted"
    /\ po[l].received + n <= line[l].quantity
    /\ Receive(n)
    /\ LET full == po[l].received + n = line[l].quantity
       IN  /\ po' = [po EXCEPT ![l].received = @ + n,
                               ![l].status = IF full THEN "closed" ELSE @]
           /\ line' = IF full /\ ~line[l].fulfilled /\ line[l].lifecycle # "picked_up"
                      THEN [line EXCEPT ![l].lifecycle = "received", ![l].received = TRUE]
                      ELSE line
    /\ UNCHANGED << layaway, bought, custody, misposted, phantom, overdrawn >>

ReceiveForStock(n) ==
    /\ bought + n <= MaxForStock
    /\ bought' = bought + n
    /\ Receive(n)
    /\ UNCHANGED << line, po, layaway, custody, misposted, phantom, overdrawn >>

-----------------------------------------------------------------------------
(* Lifecycle and release.                                                  *)

(* A manual transition; ready needs a receipt or a manager's override.     *)
Transition(l, next) ==
    /\ line[l].status # "none" /\ line[l].kind # "takeaway"
    /\ next = "ready_for_pickup" => line[l].received \/ Overrides
    /\ line' = [line EXCEPT ![l].lifecycle = next]
    /\ UNCHANGED << po, books, bought, store, misposted, phantom, overdrawn >>

(* The movement of a release: the line's whole quantity leaves the stock,  *)
(* and its bucket, whatever was removed from the line before.              *)
Leaves(l) == line[l].quantity
TakeFromStock(l) ==
    /\ stock' = stock - Leaves(l)
    /\ reserved' = IF line[l].kind = "special_order"
                   THEN AtLeastZero(reserved - line[l].quantity) ELSE reserved
    /\ layaway' = IF line[l].kind = "layaway"
                  THEN AtLeastZero(layaway - line[l].quantity) ELSE layaway
    /\ misposted' = misposted + line[l].removed
    /\ overdrawn' = (overdrawn \/ line[l].removed > 0
                               \/ (line[l].kind = "special_order" /\ ~line[l].received))

(* The lines a release may claim: unfulfilled, with units remaining.       *)
Claimable(l) == ~line[l].fulfilled /\ Remaining(l) > 0

(* mark_transaction_pickup of an ordered line.  The goods have to be there. *)
PickUp(l) ==
    /\ Live(l) /\ line[l].kind \in Ordered /\ Claimable(l)
    /\ line[l].lifecycle = "ready_for_pickup" \/ Overrides
    /\ Loose >= Remaining(l)
    /\ TakeFromStock(l)
    /\ shelf' = shelf - Remaining(l)
    /\ line' = [line EXCEPT ![l].fulfilled = TRUE, ![l].lifecycle = "picked_up"]
    /\ UNCHANGED << po, bought, custody, phantom >>

(* Mutant: the release of a Pick Up Later line takes it off the stock again. *)
PickUpHeldAgain(l) ==
    /\ Live(l) /\ line[l].kind = "pickup_later" /\ Remaining(l) > 0
    /\ line[l].lifecycle # "picked_up"
    /\ custody[l] <= shelf
    /\ TakeFromStock(l)
    /\ shelf' = shelf - custody[l]
    /\ custody' = [custody EXCEPT ![l] = 0]
    /\ line' = [line EXCEPT ![l].lifecycle = "picked_up"]
    /\ UNCHANGED << po, bought, phantom >>

(* The same for Pick Up Later, which was fulfilled and paid at checkout.   *)
PickUpHeld(l) ==
    /\ Live(l) /\ line[l].kind = "pickup_later" /\ Remaining(l) > 0
    /\ line[l].lifecycle # "picked_up"
    /\ line[l].lifecycle = "ready_for_pickup" \/ Overrides
    /\ custody[l] <= shelf
    /\ shelf' = shelf - custody[l]
    /\ custody' = [custody EXCEPT ![l] = 0]
    /\ line' = [line EXCEPT ![l].lifecycle = "picked_up"]
    /\ UNCHANGED << po, books, bought, misposted, phantom, overdrawn >>

(* mark_transaction_ship: claims, moves the stock and sets picked_up.      *)
Ship(l) ==
    /\ Live(l) /\ Claimable(l)
    /\ line[l].lifecycle = "ready_for_pickup" \/ Overrides
    /\ Loose >= Remaining(l)
    /\ TakeFromStock(l)
    /\ shelf' = shelf - Remaining(l)
    /\ line' = [line EXCEPT ![l].fulfilled = TRUE, ![l].lifecycle = "picked_up"]
    /\ UNCHANGED << po, bought, custody, phantom >>

-----------------------------------------------------------------------------
(* Returns and cancellations.                                              *)

Remove(l, n) == line' = [line EXCEPT ![l].removed = @ + n]

(* A return of n units that the customer has, or that are kept for them:   *)
(* restocked goods are on the shelf, the others are not.  A unit that was   *)
(* sold off the books and never was there goes off them with its sale, or   *)
(* stays on them.  A refund returns lines of a cancelled record too.       *)
ReturnGoods(l, n, restock) ==
    /\ line[l].status # "none" /\ line[l].fulfilled /\ n <= Remaining(l)
    /\ Remove(l, n)
    /\ stock' = IF restock THEN stock + n ELSE stock
    /\ LET kept == Least(n, custody[l])
           there == Least(kept, shelf)
       IN  /\ custody' = [custody EXCEPT ![l] = @ - kept]
           /\ shelf' = IF restock THEN shelf + n - kept ELSE shelf - there
           /\ phantom' = IF restock THEN phantom ELSE phantom - (kept - there)
    /\ UNCHANGED << po, reserved, layaway, bought, misposted, overdrawn >>

(* A return of units never handed over.  By default it restocks nothing,   *)
(* but an explicit restock is obeyed, and nothing comes in with it.        *)
ReturnOpen(l, n, restock) ==
    /\ line[l].status # "none" /\ ~line[l].fulfilled /\ n <= Remaining(l)
    /\ Remove(l, n)
    /\ stock' = IF restock THEN stock + n ELSE stock
    /\ phantom' = IF restock THEN phantom + n ELSE phantom
    /\ UNCHANGED << po, reserved, layaway, bought, store, misposted, overdrawn >>

(* Order-line cancellation releases the bucket the units are in.           *)
InReserve(l) ==
    /\ line[l].kind = "special_order"
    /\ line[l].received \/ line[l].lifecycle \in {"received", "ready_for_pickup"}
CancelUnits(l, n) ==
    /\ Live(l) /\ ~line[l].fulfilled /\ n <= Remaining(l)
    /\ Remove(l, n)
    /\ reserved' = IF InReserve(l) THEN reserved - Least(reserved, n) ELSE reserved
    /\ layaway' = IF line[l].kind = "layaway" THEN layaway - Least(layaway, n) ELSE layaway
    /\ overdrawn' = (overdrawn \/ (InReserve(l) /\ ~line[l].received))
    /\ UNCHANGED << po, stock, bought, store, misposted, phantom >>

(* Cancelling an unpaid order changes its status and nothing else; with a  *)
(* forfeiture reason the layaway units of the whole line are let go.       *)
CancelOrder(l) ==
    /\ Live(l)
    /\ line' = [line EXCEPT ![l].status = "cancelled"]
    /\ UNCHANGED << po, books, bought, store, misposted, phantom, overdrawn >>
Forfeit(l) ==
    /\ Live(l) /\ line[l].kind = "layaway"
    /\ line' = [line EXCEPT ![l].status = "cancelled"]
    /\ layaway' = AtLeastZero(layaway - line[l].quantity)
    /\ overdrawn' = (overdrawn \/ line[l].fulfilled \/ line[l].removed > 0)
    /\ UNCHANGED << po, stock, reserved, bought, store, misposted, phantom >>

-----------------------------------------------------------------------------
ManualStates == {"ntbo", "ordered", "ready_for_pickup"}

Next ==
    \/ \E l \in Lines, q \in Quantities :
          \/ SellTakeaway(l, q) \/ SellPickupLater(l, q)
          \/ \E kind \in Ordered : BookOrder(l, kind, q)
          \/ ReceiveLinked(l, q)
          \/ \E restock \in BOOLEAN :
                ReturnGoods(l, q, restock) \/ ReturnOpen(l, q, restock)
          \/ CancelUnits(l, q)
    \/ \E l \in Lines :
          \/ CreatePo(l) \/ SubmitPo(l) \/ CancelOrder(l) \/ Forfeit(l)
          \/ \E next \in ManualStates : Transition(l, next)
          \/ PickUp(l) \/ PickUpHeld(l) \/ Ship(l)
    \/ \E n \in Quantities : ReceiveForStock(n)

Spec == Init /\ [][Next]_vars

-----------------------------------------------------------------------------
(* Properties.                                                             *)

(* The books agree with the building: the stock is what stands there less  *)
(* the sold units in custody, and less the units of lines that were partly *)
(* cancelled before their release, which the release takes off the stock a *)
(* second way, and more by what an explicit restock of units never handed  *)
(* over put on the books.  And what is kept for a Pick Up Later customer   *)
(* is there, whatever is sold, handed over or shipped to others, but for   *)
(* as many units as the books make up.                                     *)
BooksMatchShelf ==
    /\ stock = shelf - Held - misposted + phantom
    /\ Held <= shelf + phantom

(* The units promised to received orders, and to layaways, stay set aside: *)
(* no release, cancellation or receipt for another line lets them go,      *)
(* unless a line released units that were not held for it.                 *)
Promised == RemainingOn({l \in Lines :
    Live(l) /\ line[l].kind = "special_order" /\ line[l].received /\ ~line[l].fulfilled})
SetAside == RemainingOn({l \in Lines :
    Live(l) /\ line[l].kind = "layaway" /\ ~line[l].fulfilled})
PromisesKept == ~overdrawn => Promised <= reserved /\ SetAside <= layaway
=============================================================================

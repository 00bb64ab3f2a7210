----------------------------- MODULE OrderStock -----------------------------
(***************************************************************************)
(* The order lifecycle and the stock it moves                              *)
(* (packages/modules/orders/src/orders.ts, inventory-bridge.ts and         *)
(* packages/modules/inventory/src).                                        *)
(*                                                                         *)
(* A transition of an order is one database transaction: it locks the      *)
(* order's row, and then, line by line, reads what the order still holds   *)
(* from its own movements, locks the item's row and moves the stock.  The  *)
(* handler that restocks a refunded order                                  *)
(* (packages/event-dispatch/src/refund-restock.ts) moves stock the same    *)
(* way but locks no order.  Reads are READ COMMITTED: they see what other  *)
(* transactions have committed and what their own has done.                *)
(*                                                                         *)
(* The movements of inventory_adjustments are kept as the sums the code    *)
(* asks for: held[o][i] is the sum of reservedDelta, taken[o][i] minus the *)
(* sum of onHandDelta, over the movements that reference order o.          *)
(***************************************************************************)
EXTENDS Integers, FiniteSets, Sums

CONSTANTS
    Orders,
    Lines,          \* order lines of a stocked type with a tracked item
    Items,          \* rows of inventory_items
    OrderOf,        \* the order of a line
    ItemOf,         \* the item of a line
    Qty,            \* the quantity of a line
    Sandbox,        \* orders whose environment is "test"
    Refundable,     \* orders that may be refunded in full, restock wanted
    FirstOnHand,    \* on_hand at the start
    Procs,          \* concurrent transactions
    OperatorKinds,  \* kinds of movement operators record by hand
    MaxManual       \* bound: movements, archivings and changes of the settings by hand

ASSUME LinesAssumption ==
    /\ IsFiniteSet(Lines)
    /\ OrderOf \in [Lines -> Orders]
    /\ ItemOf \in [Lines -> Items]
    /\ Qty \in [Lines -> Nat \ {0}]
ASSUME OrdersAssumption == Sandbox \subseteq Orders /\ Refundable \subseteq Orders
ASSUME FirstOnHandAssumption == FirstOnHand \in [Items -> Nat]
ASSUME MaxManualAssumption == MaxManual \in Nat

Movements == {"reserve", "release", "fulfill", "refund-release", "refund-return"}
Keys == Lines \X Movements

VARIABLES
    status,     \* orders.status
    delivery,   \* the status of the order's fulfillment
    refunded,   \* orders with a payment.refunded event
    settings,   \* the inventory module: enabled, allowNegativeStock
    archived,   \* items whose status is archived
    onHand,     \* on_hand, committed
    reserved,   \* reserved, committed
    held,       \* sum of reservedDelta per order and item, committed
    taken,      \* minus the sum of onHandDelta, committed
    keys,       \* idempotency keys of committed movements
    task,       \* what each transaction does
    order,      \* to which order: one, while it has a task
    negative,   \* the policy it read: allowNegativeStock
    left,       \* the lines it has not come to
    step,       \* where in a line it is
    line,       \* the line: one, while step is not next
    seen,       \* the quantity it read for the line
    locks,      \* items whose rows it has locked
    dHeld,      \* its own uncommitted movements, per item
    dTaken,
    dKeys,
    spent       \* steps operators took by hand, and those that changed the settings

rows == <<onHand, reserved, held, taken, keys>>
lives == <<status, delivery, refunded>>
admin == <<settings, archived, spent>>
txns == <<task, order, negative, left, step, line, seen, locks, dHeld, dTaken, dKeys>>
vars == <<rows, lives, admin, txns>>

Statuses == {"absent", "draft", "placed", "confirmed", "processing", "fulfilled",
             "cancelled", "deleted"}
Deliveries == {"none", "open", "fulfilled", "failed", "cancelled"}
Tasks == {"none", "place", "cancel", "fulfil", "restock"}
Steps == {"next", "move", "back", "return"}
Nothing == [i \in Items |-> 0]

LinesOf(o) == {l \in Lines : OrderOf[l] = o}
LinesFor(o, i) == {l \in LinesOf(o) : ItemOf[l] = i}
Ordered(o, i) == Over(LinesFor(o, i), Qty)

Init ==
    /\ status = [o \in Orders |-> "absent"]
    /\ delivery = [o \in Orders |-> "none"]
    /\ refunded = {}
    /\ settings = [enabled |-> TRUE, negative |-> FALSE]
    /\ archived = {}
    /\ onHand = FirstOnHand
    /\ reserved = Nothing
    /\ held = [o \in Orders |-> Nothing]
    /\ taken = [o \in Orders |-> Nothing]
    /\ keys = {}
    /\ task = [p \in Procs |-> "none"]
    /\ order = [p \in Procs |-> {}]
    /\ negative = [p \in Procs |-> FALSE]
    /\ left = [p \in Procs |-> {}]
    /\ step = [p \in Procs |-> "next"]
    /\ line = [p \in Procs |-> {}]
    /\ seen = [p \in Procs |-> 0]
    /\ locks = [p \in Procs |-> {}]
    /\ dHeld = [p \in Procs |-> Nothing]
    /\ dTaken = [p \in Procs |-> Nothing]
    /\ dKeys = [p \in Procs |-> {}]
    /\ spent = [manual |-> 0, settings |-> 0]

-----------------------------------------------------------------------------
(* A row lock is held until the transaction ends.  Restocking locks no     *)
(* order.                                                                  *)
OrderFree(o) == \A p \in Procs : task[p] \in {"none", "restock"} \/ o \notin order[p]
ItemFree(p, i) == \A q \in Procs \ {p} : i \notin locks[q]

(* The transitions that move no stock.                                     *)
Create(o) ==
    /\ status[o] = "absent"
    /\ status' = [status EXCEPT ![o] = "draft"]
    /\ UNCHANGED <<delivery, refunded, rows, admin, txns>>

DeleteDraft(o) ==
    /\ OrderFree(o)
    /\ status[o] = "draft"
    /\ status' = [status EXCEPT ![o] = "deleted"]
    /\ UNCHANGED <<delivery, refunded, rows, admin, txns>>

Advance(o, from, to) ==
    /\ OrderFree(o)
    /\ status[o] = from
    /\ status' = [status EXCEPT ![o] = to]
    /\ UNCHANGED <<delivery, refunded, rows, admin, txns>>

EnsureFulfillment(o) ==
    /\ OrderFree(o)
    /\ status[o] \in {"confirmed", "processing"}
    /\ delivery[o] = "none"
    /\ delivery' = [delivery EXCEPT ![o] = "open"]
    /\ UNCHANGED <<status, refunded, rows, admin, txns>>

(* pending and in_progress are both open.  A transition that locked the    *)
(* order has locked its fulfillment too.                                   *)
SetDelivery(o, to) ==
    /\ OrderFree(o)
    /\ delivery[o] = "open"
    /\ to \in {"fulfilled", "failed", "cancelled"}
    /\ delivery' = [delivery EXCEPT ![o] = to]
    /\ UNCHANGED <<status, refunded, rows, admin, txns>>

(* The order's payment is refunded in full, and the goods are to go back.  *)
Refund(o) ==
    /\ o \in Refundable \ refunded
    /\ status[o] \notin {"absent", "draft", "deleted"}
    /\ refunded' = refunded \cup {o}
    /\ UNCHANGED <<status, delivery, rows, admin, txns>>

-----------------------------------------------------------------------------
(* What operators do to the stock and to the settings.                     *)
ByHand(changes) ==
    /\ spent.manual < MaxManual
    /\ spent' = [manual |-> spent.manual + 1, settings |-> spent.settings + changes]

Archive(i) ==
    /\ ByHand(0)
    /\ \A p \in Procs : i \notin locks[p]
    /\ i \notin archived
    /\ reserved[i] = 0
    /\ archived' = archived \cup {i}
    /\ UNCHANGED <<rows, lives, settings, txns>>

Unarchive(i) ==
    /\ i \in archived
    /\ archived' = archived \ {i}
    /\ UNCHANGED <<rows, lives, settings, spent, txns>>

OnHandDelta(kind) ==
    CASE kind \in {"receive", "customer_return", "correction_in"} -> 1
      [] kind \in {"sale", "damage", "correction_out", "fulfill_reserved"} -> -1
      [] OTHER -> 0
ReservedDelta(kind) ==
    CASE kind = "reserve" -> 1
      [] kind \in {"release", "fulfill_reserved"} -> -1
      [] OTHER -> 0

(* nextInventoryBalance: the balance a movement would leave is allowed.    *)
Accepts(oh, rs, neg) == rs >= 0 /\ (neg \/ oh - rs >= 0)

Adjust(i, kind) ==
    /\ kind \in OperatorKinds
    /\ ByHand(0)
    /\ \A p \in Procs : i \notin locks[p]
    /\ i \notin archived
    /\ Accepts(onHand[i] + OnHandDelta(kind), reserved[i] + ReservedDelta(kind),
               settings.negative)
    /\ onHand' = [onHand EXCEPT ![i] = @ + OnHandDelta(kind)]
    /\ reserved' = [reserved EXCEPT ![i] = @ + ReservedDelta(kind)]
    /\ UNCHANGED <<held, taken, keys, lives, settings, archived, txns>>

ChangeSettings(new) ==
    /\ ByHand(1)
    /\ new # settings
    /\ settings' = new
    /\ UNCHANGED <<rows, lives, archived, txns>>

-----------------------------------------------------------------------------
(* A transaction begins: the order is locked and its transition checked,   *)
(* the policy is read, and with it the lines to go through.                *)
Begin(p, o, what) ==
    /\ task[p] = "none"
    /\ task' = [task EXCEPT ![p] = what]
    /\ order' = [order EXCEPT ![p] = {o}]
    /\ negative' = [negative EXCEPT ![p] = settings.negative]
    /\ left' = [left EXCEPT ![p] =
                    IF o \in Sandbox \/ ~ settings.enabled THEN {} ELSE LinesOf(o)]
    /\ UNCHANGED <<rows, lives, admin, step, line, seen, locks, dHeld, dTaken, dKeys>>

BeginPlace(p, o) ==
    /\ OrderFree(o)
    /\ status[o] = "draft"
    /\ Begin(p, o, "place")

BeginCancel(p, o) ==
    /\ OrderFree(o)
    /\ status[o] \in {"draft", "placed", "confirmed", "processing"}
    /\ delivery[o] # "fulfilled"
    /\ Begin(p, o, "cancel")

BeginFulfil(p, o) ==
    /\ OrderFree(o)
    /\ status[o] = "processing"
    /\ delivery[o] = "fulfilled"
    /\ Begin(p, o, "fulfil")

(* The drain delivers payment.refunded at least once.                      *)
BeginRestock(p, o) ==
    /\ o \in refunded
    /\ Begin(p, o, "restock")

(* The rows a transaction's statement sees: committed ones and its own.    *)
HeldSeen(p, o, i) == held[o][i] + dHeld[p][i]
TakenSeen(p, o, i) == taken[o][i] + dTaken[p][i]
Smaller(m, n) == IF m < n THEN m ELSE n

Turn(p, to, l, n) ==
    /\ step' = [step EXCEPT ![p] = to]
    /\ line' = [line EXCEPT ![p] = IF to = "next" THEN {} ELSE {l}]
    /\ left' = [left EXCEPT ![p] = @ \ {l}]
    /\ seen' = [seen EXCEPT ![p] = n]

AtLine(p, o, l) ==
    /\ task[p] # "none"
    /\ order[p] = {o}
    /\ step[p] = "next"
    /\ l \in left[p]

(* Placing asks for the whole line.                                        *)
ReadQuantity(p, o, l) ==
    /\ AtLine(p, o, l)
    /\ task[p] = "place"
    /\ Turn(p, "move", l, Qty[l])
    /\ UNCHANGED <<rows, lives, admin, task, order, negative, locks, dHeld, dTaken, dKeys>>

(* Mutant: a release gives the whole line back.                            *)
ReadHeldWhole(p, o, l) ==
    /\ AtLine(p, o, l)
    /\ task[p] \in {"cancel", "fulfil", "restock"}
    /\ Turn(p, "move", l, Qty[l])
    /\ UNCHANGED <<rows, lives, admin, task, order, negative, locks, dHeld, dTaken, dKeys>>

(* outstandingReservation, read before the item's row is locked.           *)
ReadHeld(p, o, l) ==
    /\ AtLine(p, o, l)
    /\ task[p] \in {"cancel", "fulfil", "restock"}
    /\ HeldSeen(p, o, ItemOf[l]) > 0
    /\ Turn(p, "move", l, Smaller(HeldSeen(p, o, ItemOf[l]), Qty[l]))
    /\ UNCHANGED <<rows, lives, admin, task, order, negative, locks, dHeld, dTaken, dKeys>>

ReadNothingHeld(p, o, l) ==
    /\ AtLine(p, o, l)
    /\ task[p] \in {"cancel", "fulfil", "restock"}
    /\ HeldSeen(p, o, ItemOf[l]) <= 0
    /\ Turn(p, IF task[p] = "restock" THEN "back" ELSE "next", l, 0)
    /\ UNCHANGED <<rows, lives, admin, task, order, negative, locks, dHeld, dTaken, dKeys>>

(* consumedQuantity, after the refund's release.                           *)
ReadTaken(p, o, l) ==
    /\ order[p] = {o}
    /\ step[p] = "back"
    /\ line[p] = {l}
    /\ TakenSeen(p, o, ItemOf[l]) > 0
    /\ Turn(p, "return", l, Smaller(TakenSeen(p, o, ItemOf[l]), Qty[l]))
    /\ UNCHANGED <<rows, lives, admin, task, order, negative, locks, dHeld, dTaken, dKeys>>

ReadNothingTaken(p, o, l) ==
    /\ order[p] = {o}
    /\ step[p] = "back"
    /\ line[p] = {l}
    /\ TakenSeen(p, o, ItemOf[l]) <= 0
    /\ Turn(p, "next", l, 0)
    /\ UNCHANGED <<rows, lives, admin, task, order, negative, locks, dHeld, dTaken, dKeys>>

(* What a task moves at a step, and how a movement counts.                 *)
Movement(what, at) ==
    CASE at = "return" -> "refund-return"
      [] what = "place" -> "reserve"
      [] what = "cancel" -> "release"
      [] what = "fulfil" -> "fulfill"
      [] OTHER -> "refund-release"
HeldDelta(m) ==
    CASE m = "reserve" -> 1
      [] m \in {"release", "fulfill", "refund-release"} -> -1
      [] OTHER -> 0
TakenDelta(m) ==
    CASE m = "fulfill" -> 1
      [] m = "refund-return" -> -1
      [] OTHER -> 0

(* Mutant: the key names the order and not the line.                       *)
KeyOfOrder(l, m) == <<CHOOSE k \in LinesOf(OrderOf[l]) : TRUE, m>>

KeyOf(l, m) == <<l, m>>

(* Mutant: a key that was used before is not noticed.                      *)
IsNewAlways(p, k) == TRUE

IsNew(p, k) == k \notin keys \cup dKeys[p]

AtMove(p, o, l) ==
    /\ order[p] = {o}
    /\ step[p] \in {"move", "return"}
    /\ line[p] = {l}

AfterMove(p) == IF task[p] = "restock" /\ step[p] = "move" THEN "back" ELSE "next"

(* Mutant: the item's row is read without a lock.                          *)
LockItemNever(p, l) ==
    /\ ItemOf[l] \notin archived
    /\ UNCHANGED locks

LockItem(p, l) ==
    /\ ItemFree(p, ItemOf[l])
    /\ ItemOf[l] \notin archived
    /\ locks' = [locks EXCEPT ![p] = @ \cup {ItemOf[l]}]

(* applyInventoryAdjustmentInTx: lock the item, look for the key, check    *)
(* the balance the movement would leave, write it.                         *)
Move(p, o, l) ==
    /\ AtMove(p, o, l)
    /\ LockItem(p, l)
    /\ LET m == Movement(task[p], step[p])
           i == ItemOf[l]
           h == HeldDelta(m) * seen[p]
           t == TakenDelta(m) * seen[p] IN
       /\ IsNew(p, KeyOf(l, m))
       /\ Accepts(onHand[i] - dTaken[p][i] - t, reserved[i] + dHeld[p][i] + h, negative[p])
       /\ dHeld' = [dHeld EXCEPT ![p][i] = @ + h]
       /\ dTaken' = [dTaken EXCEPT ![p][i] = @ + t]
       /\ dKeys' = [dKeys EXCEPT ![p] = @ \cup {KeyOf(l, m)}]
    /\ Turn(p, AfterMove(p), l, 0)
    /\ UNCHANGED <<rows, lives, admin, task, order, negative>>

(* The movement was made before: its row is returned, nothing is written.  *)
MoveAgain(p, o, l) ==
    /\ AtMove(p, o, l)
    /\ LockItem(p, l)
    /\ ~ IsNew(p, KeyOf(l, Movement(task[p], step[p])))
    /\ Turn(p, AfterMove(p), l, 0)
    /\ UNCHANGED <<rows, lives, admin, task, order, negative, dHeld, dTaken, dKeys>>

Clear(p) ==
    /\ task' = [task EXCEPT ![p] = "none"]
    /\ order' = [order EXCEPT ![p] = {}]
    /\ negative' = [negative EXCEPT ![p] = FALSE]
    /\ left' = [left EXCEPT ![p] = {}]
    /\ step' = [step EXCEPT ![p] = "next"]
    /\ line' = [line EXCEPT ![p] = {}]
    /\ seen' = [seen EXCEPT ![p] = 0]
    /\ locks' = [locks EXCEPT ![p] = {}]
    /\ dHeld' = [dHeld EXCEPT ![p] = Nothing]
    /\ dTaken' = [dTaken EXCEPT ![p] = Nothing]
    /\ dKeys' = [dKeys EXCEPT ![p] = {}]

NewStatus(what, old) ==
    CASE what = "place" -> "placed"
      [] what = "cancel" -> "cancelled"
      [] what = "fulfil" -> "fulfilled"
      [] OTHER -> old

(* The movements, the order's status and the delivery it cascades to       *)
(* become visible together.                                                *)
Commit(p, o) ==
    /\ task[p] # "none"
    /\ order[p] = {o}
    /\ step[p] = "next"
    /\ left[p] = {}
    /\ onHand' = [i \in Items |-> onHand[i] - dTaken[p][i]]
    /\ reserved' = [i \in Items |-> reserved[i] + dHeld[p][i]]
    /\ held' = [held EXCEPT ![o] = [i \in Items |-> held[o][i] + dHeld[p][i]]]
    /\ taken' = [taken EXCEPT ![o] = [i \in Items |-> taken[o][i] + dTaken[p][i]]]
    /\ keys' = keys \cup dKeys[p]
    /\ status' = [status EXCEPT ![o] = NewStatus(task[p], @)]
    /\ delivery' = [delivery EXCEPT ![o] =
                        IF task[p] = "cancel" /\ @ = "open" THEN "cancelled" ELSE @]
    /\ Clear(p)
    /\ UNCHANGED <<refunded, admin>>

(* A movement is refused, the item is archived, the database breaks a      *)
(* deadlock or the process dies: nothing of the transaction remains.       *)
RollBack(p) ==
    /\ task[p] # "none"
    /\ Clear(p)
    /\ UNCHANGED <<rows, lives, admin>>

-----------------------------------------------------------------------------
OrderStep(o) ==
    \/ Create(o) \/ DeleteDraft(o)
    \/ Advance(o, "placed", "confirmed") \/ Advance(o, "confirmed", "processing")
    \/ EnsureFulfillment(o)
    \/ \E to \in Deliveries : SetDelivery(o, to)
    \/ Refund(o)

OperatorStep ==
    \/ \E i \in Items : Archive(i) \/ Unarchive(i) \/ \E k \in OperatorKinds : Adjust(i, k)
    \/ \E new \in [enabled : BOOLEAN, negative : BOOLEAN] : ChangeSettings(new)

TxnStep(p, o) ==
    \/ BeginPlace(p, o) \/ BeginCancel(p, o) \/ BeginFulfil(p, o) \/ BeginRestock(p, o)
    \/ \E l \in LinesOf(o) :
        \/ ReadQuantity(p, o, l) \/ ReadHeld(p, o, l) \/ ReadNothingHeld(p, o, l)
        \/ ReadTaken(p, o, l) \/ ReadNothingTaken(p, o, l)
        \/ Move(p, o, l) \/ MoveAgain(p, o, l)
    \/ Commit(p, o)

Next ==
    \/ \E o \in Orders : OrderStep(o)
    \/ OperatorStep
    \/ \E p \in Procs : RollBack(p) \/ \E o \in Orders : TxnStep(p, o)

Spec == Init /\ [][Next]_vars

-----------------------------------------------------------------------------
Balances == [Items -> Int]

TypeOK ==
    /\ status \in [Orders -> Statuses]
    /\ delivery \in [Orders -> Deliveries]
    /\ refunded \subseteq Refundable
    /\ settings \in [enabled : BOOLEAN, negative : BOOLEAN]
    /\ archived \subseteq Items
    /\ onHand \in Balances
    /\ reserved \in [Items -> Nat]
    /\ held \in [Orders -> Balances]
    /\ taken \in [Orders -> Balances]
    /\ keys \subseteq Keys
    /\ task \in [Procs -> Tasks]
    /\ order \in [Procs -> SUBSET Orders]
    /\ negative \in [Procs -> BOOLEAN]
    /\ left \in [Procs -> SUBSET Lines]
    /\ step \in [Procs -> Steps]
    /\ line \in [Procs -> SUBSET Lines]
    /\ seen \in [Procs -> Nat]
    /\ locks \in [Procs -> SUBSET Items]
    /\ dHeld \in [Procs -> Balances]
    /\ dTaken \in [Procs -> Balances]
    /\ dKeys \in [Procs -> SUBSET Keys]
    /\ spent \in [manual : 0..MaxManual, settings : Nat]

(* However many buyers are placing orders at once, and whatever operators  *)
(* write off meanwhile, no more is promised than is on the shelf.          *)
NoOversell ==
    spent.settings = 0 => \A i \in Items : onHand[i] - reserved[i] >= 0

(* While the settings stay as they are, the stock an order has moved is    *)
(* what its status says: held from placing on, off the shelf once it is    *)
(* fulfilled, and back when it is cancelled.  Sandbox orders move nothing. *)
StockFollowsOrder ==
    spent.settings = 0 =>
        \A o \in Orders \ refunded, i \in Items :
            LET full == IF o \in Sandbox THEN 0 ELSE Ordered(o, i) IN
            /\ held[o][i] =
                IF status[o] \in {"placed", "confirmed", "processing"} THEN full ELSE 0
            /\ taken[o][i] = IF status[o] = "fulfilled" THEN full ELSE 0

(* An order never holds and takes more than was ordered, and restocking    *)
(* puts back no more than the order took, however often and wherever in    *)
(* the lifecycle the refund's event is delivered.  The second needs the    *)
(* order to name the item in one line: two deliveries that each come to    *)
(* another line first both find there what one of them returns.            *)
ReturnsAreBacked ==
    \A o \in Orders, i \in Items :
        /\ held[o][i] + taken[o][i] <= Ordered(o, i)
        /\ (\A l, m \in LinesFor(o, i) : l = m) => taken[o][i] >= 0

(* An order that is not refunded never gives back more than it holds.      *)
HoldsAreSound ==
    \A o \in Orders \ refunded, i \in Items : held[o][i] >= 0

(* "Summing this order's own movements gives the amount genuinely still    *)
(* held": no order, refunded or not, ever gives back what it does not hold.*)
NoHoldBelowZero == \A o \in Orders, i \in Items : held[o][i] >= 0

(* "shipment ships / order fulfilled: fulfill_reserved, the goods          *)
(* physically leave": a fulfilled order's goods were taken off the shelf.  *)
FulfilledWasTaken ==
    \A l \in Lines :
        LET o == OrderOf[l] IN
        status[o] = "fulfilled" /\ o \notin Sandbox =>
            <<l, "fulfill">> \in keys

(* "cancelled: release, give the stock back": an order that is over holds  *)
(* nothing.                                                                *)
CancelledHoldsNothing ==
    \A o \in Orders, i \in Items : status[o] = "cancelled" => held[o][i] = 0

(* .. and what an order holds can be given back.                           *)
HoldsCanBeReleased ==
    \A o \in Orders, i \in Items :
        settings.enabled /\ held[o][i] > 0 =>
            Accepts(onHand[i], reserved[i] - held[o][i], settings.negative)

=============================================================================

-------------------------- MODULE OrderStockProofs --------------------------
(***************************************************************************)
(* For any orders, lines, items and quantities, any number of transactions *)
(* and any interleaving: stock is never promised twice, what an order holds*)
(* and has taken follows its status, and what goes back was taken.         *)
(***************************************************************************)
EXTENDS OrderStock, FiniteSetTheorems, SumTheorems

USE LinesAssumption, OrdersAssumption, FirstOnHandAssumption, MaxManualAssumption
    DEF LinesAssumption, OrdersAssumption, FirstOnHandAssumption, MaxManualAssumption

(***************************************************************************)
(* What a transaction is doing.                                            *)
(***************************************************************************)

(* A transaction that has not begun has done nothing.                      *)
IdleIsEmpty(p) ==
    task[p] = "none" =>
        /\ order[p] = {} /\ left[p] = {} /\ line[p] = {} /\ step[p] = "next"
        /\ locks[p] = {} /\ dHeld[p] = Nothing /\ dTaken[p] = Nothing /\ dKeys[p] = {}

(* One that has works on the lines of one order, one at a time.            *)
WorksOnOrder(p) ==
    task[p] # "none" =>
        \E o \in Orders :
            /\ order[p] = {o}
            /\ left[p] \subseteq LinesOf(o) /\ line[p] \subseteq LinesOf(o)
            /\ \A k \in dKeys[p] : k[1] \in LinesOf(o)

LineAtHand(p) ==
    /\ step[p] = "next" => line[p] = {}
    /\ \A l \in line[p] : line[p] = {l} /\ l \notin left[p]
    /\ step[p] \in {"back", "return"} => task[p] = "restock"

(* It writes to rows it has locked, and to no row another one has.         *)
WritesAreLocked(p) ==
    /\ \A i \in Items : i \notin locks[p] => dHeld[p][i] = 0 /\ dTaken[p][i] = 0
    /\ \A k \in dKeys[p] : ItemOf[k[1]] \in locks[p]

LocksExclude == \A p, q \in Procs : p # q => locks[p] \cap locks[q] = {}

Txn(p) == IdleIsEmpty(p) /\ WorksOnOrder(p) /\ LineAtHand(p) /\ WritesAreLocked(p)
Txns == (\A p \in Procs : Txn(p)) /\ LocksExclude

(* While the settings stay, every transaction read the policy they state.  *)
PolicyStands ==
    spent.settings = 0 =>
        /\ settings = [enabled |-> TRUE, negative |-> FALSE]
        /\ \A p \in Procs : ~ negative[p]

(* The balances hold also with what a transaction is about to commit.      *)
BalancesStand ==
    \A p \in Procs : \A i \in locks[p] :
        /\ reserved[i] + dHeld[p][i] >= 0
        /\ spent.settings = 0 =>
            onHand[i] - dTaken[p][i] - (reserved[i] + dHeld[p][i]) >= 0

Stock == PolicyStands /\ BalancesStand /\ NoOversell
IInv == TypeOK /\ Txns /\ Stock

(***************************************************************************)
(* Which of it each step touches.                                          *)
(***************************************************************************)

(* A step of one transaction leaves the others as they are.                *)
OthersStay(p) ==
    \A q \in Procs : q # p =>
        /\ task'[q] = task[q] /\ order'[q] = order[q] /\ negative'[q] = negative[q]
        /\ left'[q] = left[q] /\ step'[q] = step[q] /\ line'[q] = line[q]
        /\ seen'[q] = seen[q] /\ locks'[q] = locks[q]
        /\ dHeld'[q] = dHeld[q] /\ dTaken'[q] = dTaken[q] /\ dKeys'[q] = dKeys[q]

(* Steps of orders and operators leave the transactions as they are.       *)
LEMMA TxnsStay == ASSUME Txns, UNCHANGED txns PROVE Txns'
  BY DEF Txns, Txn, IdleIsEmpty, WorksOnOrder, LineAtHand, WritesAreLocked, LocksExclude, txns,
         LinesOf, Nothing

(* .. and most leave the balances and the settings.                        *)
LEMMA StockStays ==
    ASSUME Stock, UNCHANGED txns, UNCHANGED <<onHand, reserved, settings, spent>>
    PROVE  Stock'
  BY DEF Stock, PolicyStands, BalancesStand, NoOversell, txns

LEMMA InitIInv == Init => IInv
<1> SUFFICES ASSUME Init PROVE IInv
  OBVIOUS
<1> USE DEF Init, Nothing
<1>1. TypeOK
  BY DEF TypeOK, Statuses, Deliveries, Tasks, Steps, Balances
<1>2. Txns
  BY DEF Txns, Txn, IdleIsEmpty, WorksOnOrder, LineAtHand, WritesAreLocked, LocksExclude
<1>3. Stock
  BY DEF Stock, PolicyStands, BalancesStand, NoOversell
<1> QED BY <1>1, <1>2, <1>3 DEF IInv

(* Transitions without stock leave the balances alone.                     *)
LEMMA OrderIInv ==
    ASSUME IInv, NEW o \in Orders, OrderStep(o) PROVE IInv'
<1>2. UNCHANGED <<rows, admin, txns>>
  BY DEF OrderStep, Create, DeleteDraft, Advance, EnsureFulfillment, SetDelivery, Refund
<1>1. TypeOK'
  <2>1. status' \in [Orders -> Statuses]
    <3>1. status \in [Orders -> Statuses]
      BY DEF IInv, TypeOK
    <3>2. \/ status' = status
          \/ \E to \in {"draft", "deleted", "confirmed", "processing"} :
                status' = [status EXCEPT ![o] = to]
      BY DEF OrderStep, Create, DeleteDraft, Advance, EnsureFulfillment, SetDelivery, Refund
    <3>3. {"draft", "deleted", "confirmed", "processing"} \subseteq Statuses
      BY DEF Statuses
    <3> QED BY <3>1, <3>2, <3>3
  <2>2. delivery' \in [Orders -> Deliveries] /\ refunded' \subseteq Refundable
    <3>1. delivery \in [Orders -> Deliveries] /\ refunded \subseteq Refundable
      BY DEF IInv, TypeOK
    <3>2. \/ delivery' = delivery
          \/ \E to \in Deliveries \cup {"open"} : delivery' = [delivery EXCEPT ![o] = to]
      BY DEF OrderStep, Create, DeleteDraft, Advance, EnsureFulfillment, SetDelivery, Refund
    <3>3. refunded' = refunded \/ (o \in Refundable /\ refunded' = refunded \cup {o})
      BY DEF OrderStep, Create, DeleteDraft, Advance, EnsureFulfillment, SetDelivery, Refund
    <3>4. "open" \in Deliveries
      BY DEF Deliveries
    <3>5. delivery' \in [Orders -> Deliveries]
      BY <3>1, <3>2, <3>4
    <3> QED BY <3>1, <3>3, <3>5
  <2> QED BY <1>2, <2>1, <2>2 DEF IInv, TypeOK, rows, admin, txns
<1>3. Txns' /\ Stock'
  BY <1>2, TxnsStay, StockStays DEF IInv, rows, admin
<1> QED BY <1>1, <1>3 DEF IInv

(* Movements and settings by hand keep them.                               *)
LEMMA OperatorIInv == ASSUME IInv, OperatorStep PROVE IInv'
<1> USE DEF IInv
<1>1. UNCHANGED txns
  BY DEF OperatorStep, Archive, Unarchive, Adjust, ChangeSettings
<1>2. Txns'
  BY <1>1, TxnsStay
<1>3. ASSUME NEW i \in Items, Archive(i) \/ Unarchive(i) PROVE IInv'
  <2>1. TypeOK'
    BY <1>3 DEF TypeOK, Archive, Unarchive, ByHand, rows, lives, txns
  <2>2. Stock'
    BY <1>3 DEF Stock, PolicyStands, BalancesStand, NoOversell, Archive, Unarchive, ByHand,
                rows, txns, TypeOK
  <2> QED BY <1>2, <2>1, <2>2
<1>4. ASSUME NEW i \in Items, NEW k \in OperatorKinds, Adjust(i, k) PROVE IInv'
  <2>1. OnHandDelta(k) \in Int /\ ReservedDelta(k) \in Int
    BY DEF OnHandDelta, ReservedDelta
  <2> DEFINE oh == onHand[i] + OnHandDelta(k)
             rs == reserved[i] + ReservedDelta(k)
  <2>2. /\ onHand' = [onHand EXCEPT ![i] = oh] /\ reserved' = [reserved EXCEPT ![i] = rs]
        /\ oh \in Int /\ rs \in Int /\ rs >= 0 /\ (settings.negative \/ oh - rs >= 0)
        /\ \A p \in Procs : i \notin locks[p]
    BY <1>4, <2>1 DEF Adjust, Accepts, TypeOK, Balances
  <2>3. spent' = [manual |-> spent.manual + 1, settings |-> spent.settings] /\ spent.manual < MaxManual
    BY <1>4 DEF Adjust, ByHand, TypeOK
  <2> HIDE DEF oh, rs
  <2>4. TypeOK'
    <3>1. onHand' \in Balances /\ reserved' \in [Items -> Nat]
      BY <2>2 DEF TypeOK, Balances
    <3>2. spent' \in [manual : 0..MaxManual, settings : Nat]
      BY <2>3 DEF TypeOK
    <3> QED BY <1>1, <1>4, <3>1, <3>2 DEF TypeOK, Adjust, lives, txns
  <2>5. \A j \in Items : j # i => onHand'[j] = onHand[j] /\ reserved'[j] = reserved[j]
    BY <2>2 DEF TypeOK
  <2>6. onHand'[i] = oh /\ reserved'[i] = rs
    BY <2>2 DEF TypeOK, Balances
  <2>7. PolicyStands'
    BY <1>1, <1>4, <2>3 DEF Stock, PolicyStands, Adjust, txns
  <2>8. BalancesStand'
    <3> SUFFICES ASSUME NEW p \in Procs, NEW j \in locks[p]
                 PROVE  /\ reserved'[j] + dHeld[p][j] >= 0
                        /\ spent.settings = 0 =>
                            onHand'[j] - dTaken[p][j] - (reserved'[j] + dHeld[p][j]) >= 0
      BY <1>1, <2>3 DEF BalancesStand, txns
    <3>1. j # i /\ j \in Items
      BY <2>2 DEF TypeOK
    <3> QED BY <3>1, <2>5 DEF Stock, BalancesStand
  <2>9. NoOversell'
    BY <2>2, <2>3, <2>5, <2>6 DEF Stock, PolicyStands, NoOversell
  <2> QED BY <1>2, <2>4, <2>7, <2>8, <2>9 DEF Stock
<1>5. ASSUME NEW new \in [enabled : BOOLEAN, negative : BOOLEAN], ChangeSettings(new) PROVE IInv'
  <2>1. spent' = [manual |-> spent.manual + 1, settings |-> spent.settings + 1] /\ spent.manual < MaxManual
    BY <1>5 DEF ChangeSettings, ByHand
  <2>2. TypeOK'
    BY <1>5 DEF ChangeSettings, ByHand, TypeOK, rows, lives, txns
  <2>3. spent'.settings # 0
    BY <2>1 DEF TypeOK
  <2>4. Stock'
    BY <1>1, <1>5, <2>3 DEF Stock, PolicyStands, BalancesStand, NoOversell, ChangeSettings, rows, txns
  <2> QED BY <1>2, <2>2, <2>4
<1> QED BY <1>3, <1>4, <1>5 DEF OperatorStep

LEMMA TxnsKept ==
    ASSUME Txns, NEW p \in Procs, OthersStay(p), Txn(p)',
           \A q \in Procs : q # p => locks'[p] \cap locks[q] = {}
    PROVE  Txns'
<1>1. \A q \in Procs : q # p => Txn(q)'
  BY DEF Txns, Txn, OthersStay, IdleIsEmpty, WorksOnOrder, LineAtHand, WritesAreLocked, LinesOf,
         Nothing
<1>2. LocksExclude'
  BY DEF Txns, LocksExclude, OthersStay
<1> QED BY <1>1, <1>2 DEF Txns

(* The transaction that begins has locked nothing and read the policy.     *)
LEMMA BeginIInv ==
    ASSUME IInv, NEW p \in Procs, NEW o \in Orders, NEW what \in Tasks \ {"none"},
           Begin(p, o, what)
    PROVE  IInv'
<1> USE DEF IInv, Begin
<1>1. TypeOK'
  BY DEF TypeOK, LinesOf, rows, lives, admin
<1>2. OthersStay(p)
  BY DEF TypeOK, OthersStay
<1>3. /\ task'[p] = what /\ order'[p] = {o} /\ negative'[p] = settings.negative
      /\ left'[p] \subseteq LinesOf(o)
  BY DEF TypeOK
<1>4. Txn(p)'
  <2>1. IdleIsEmpty(p) /\ LineAtHand(p) /\ WritesAreLocked(p)
    BY DEF Txns, Txn
  <2> QED BY <1>3, <2>1 DEF Txn, IdleIsEmpty, WorksOnOrder, LineAtHand, WritesAreLocked, LinesOf,
                            Nothing
<1>5. Txns'
  BY <1>2, <1>4, TxnsKept DEF Txns, LocksExclude
<1>6. Stock'
  BY <1>2, <1>3 DEF Stock, PolicyStands, BalancesStand, NoOversell, OthersStay, rows, admin
<1> QED BY <1>1, <1>5, <1>6

(* So has one that comes to a line or leaves it.                           *)
LEMMA TurnIInv ==
    ASSUME IInv, NEW p \in Procs, NEW o \in Orders, NEW l \in LinesOf(o), NEW n \in Nat,
           NEW to \in Steps, task[p] # "none", order[p] = {o}, Turn(p, to, l, n),
           to \in {"back", "return"} => task[p] = "restock",
           UNCHANGED <<rows, lives, admin, task, order, negative, locks, dHeld, dTaken, dKeys>>
    PROVE  IInv'
<1> USE DEF IInv, Turn
<1>1. TypeOK'
  BY DEF TypeOK, LinesOf, rows, lives, admin
<1>2. OthersStay(p)
  BY DEF TypeOK, OthersStay
<1>3. /\ step'[p] = to /\ line'[p] = IF to = "next" THEN {} ELSE {l}
      /\ left'[p] = left[p] \ {l}
  BY DEF TypeOK
<1>4. Txn(p)'
  <2>1. Txn(p)
    BY DEF Txns
  <2>2. IdleIsEmpty(p)' /\ WorksOnOrder(p)'
    <3>1. left[p] \subseteq LinesOf(o) /\ \A k \in dKeys[p] : k[1] \in LinesOf(o)
      BY <2>1 DEF Txn, WorksOnOrder
    <3>2. left'[p] \subseteq LinesOf(o) /\ line'[p] \subseteq LinesOf(o)
      BY <1>3, <3>1
    <3> QED BY <3>1, <3>2 DEF IdleIsEmpty, WorksOnOrder, LinesOf
  <2>3. LineAtHand(p)'
    BY <1>3 DEF LineAtHand
  <2>4. WritesAreLocked(p)'
    BY <2>1 DEF Txn, WritesAreLocked
  <2> QED BY <2>2, <2>3, <2>4 DEF Txn
<1>5. Txns'
  BY <1>2, <1>4, TxnsKept DEF Txns, LocksExclude
<1>6. Stock'
  BY DEF Stock, PolicyStands, BalancesStand, NoOversell, rows, admin
<1> QED BY <1>1, <1>5, <1>6

(* Whatever is read, it is read for a line of the transaction's order.     *)
LEMMA ReadIInv ==
    ASSUME IInv, NEW p \in Procs, NEW o \in Orders, NEW l \in LinesOf(o),
           \/ ReadQuantity(p, o, l) \/ ReadHeld(p, o, l) \/ ReadNothingHeld(p, o, l)
           \/ ReadTaken(p, o, l) \/ ReadNothingTaken(p, o, l)
    PROVE  IInv'
<1>1. l \in Lines /\ ItemOf[l] \in Items /\ Qty[l] \in Nat
  BY DEF LinesOf
<1>2. HeldSeen(p, o, ItemOf[l]) \in Int /\ TakenSeen(p, o, ItemOf[l]) \in Int
  BY <1>1 DEF IInv, TypeOK, Balances, HeldSeen, TakenSeen
<1>3. step[p] = "back" => task[p] = "restock"
  BY DEF IInv, Txns, Txn, LineAtHand
<1>4. CASE ReadQuantity(p, o, l)
  <2>1. "move" \in Steps
    BY DEF Steps
  <2> QED BY <1>1, <1>4, <2>1, TurnIInv DEF ReadQuantity, AtLine
<1>5. CASE ReadHeld(p, o, l)
  <2>1. "move" \in Steps
    BY DEF Steps
  <2>2. Smaller(HeldSeen(p, o, ItemOf[l]), Qty[l]) \in Nat
    BY <1>1, <1>2, <1>5 DEF ReadHeld, Smaller
  <2> QED BY <1>5, <2>1, <2>2, TurnIInv DEF ReadHeld, AtLine
<1>6. CASE ReadNothingHeld(p, o, l)
  <2> DEFINE to == IF task[p] = "restock" THEN "back" ELSE "next"
  <2>1. to \in Steps /\ (to \in {"back", "return"} => task[p] = "restock") /\ 0 \in Nat
    BY DEF Steps
  <2>2. task[p] # "none" /\ order[p] = {o} /\ Turn(p, to, l, 0)
        /\ UNCHANGED <<rows, lives, admin, task, order, negative, locks, dHeld, dTaken, dKeys>>
    BY <1>6 DEF ReadNothingHeld, AtLine
  <2> HIDE DEF to
  <2> QED BY <2>1, <2>2, TurnIInv
<1>7. CASE ReadTaken(p, o, l)
  <2>1. "return" \in Steps /\ task[p] = "restock"
    BY <1>3, <1>7 DEF Steps, ReadTaken
  <2>2. Smaller(TakenSeen(p, o, ItemOf[l]), Qty[l]) \in Nat
    BY <1>1, <1>2, <1>7 DEF ReadTaken, Smaller
  <2> QED BY <1>7, <2>1, <2>2, TurnIInv DEF ReadTaken
<1>8. CASE ReadNothingTaken(p, o, l)
  <2>1. "next" \in Steps /\ task[p] = "restock"
    BY <1>3, <1>8 DEF Steps, ReadNothingTaken
  <2> QED BY <1>8, <2>1, TurnIInv DEF ReadNothingTaken
<1> QED BY <1>4, <1>5, <1>6, <1>7, <1>8

LEMMA DeltasCount ==
    \A m : /\ HeldDelta(m) \in {-1, 0, 1} /\ TakenDelta(m) \in {-1, 0, 1}
  BY DEF HeldDelta, TakenDelta

LEMMA TimesDelta ==
    ASSUME NEW d \in {-1, 0, 1}, NEW n \in Int
    PROVE  /\ d * n \in Int
           /\ d = 0 => d * n = 0
           /\ d = 1 => d * n = n
           /\ d = -1 => d * n = -n
<1>1. CASE d = 0
  BY <1>1
<1>2. CASE d = 1
  BY <1>2
<1>3. CASE d = -1
  BY <1>3
<1> QED BY <1>1, <1>2, <1>3

LEMMA BalanceChanged ==
    ASSUME NEW b \in Balances, NEW i \in Items, NEW n \in Int
    PROVE  /\ [b EXCEPT ![i] = b[i] + n] \in Balances
           /\ [b EXCEPT ![i] = b[i] + n][i] = b[i] + n
           /\ \A j \in Items : j # i => [b EXCEPT ![i] = b[i] + n][j] = b[j]
  BY DEF Balances

(* What a movement m of h and t for line l does.                           *)
MoveEffect(p, o, l, m, h, t) ==
    /\ UNCHANGED <<rows, lives, admin, task, order, negative>>
    /\ OthersStay(p)
    /\ l \in Lines /\ ItemOf[l] \in Items /\ h \in Int /\ t \in Int /\ <<l, m>> \in Keys
    /\ order[p] = {o} /\ line[p] = {l} /\ task[p] # "none" /\ step[p] \in {"move", "return"}
    /\ \A q \in Procs : q # p => ItemOf[l] \notin locks[q]
    /\ <<l, m>> \notin keys /\ <<l, m>> \notin dKeys[p]
    /\ Accepts(onHand[ItemOf[l]] - dTaken[p][ItemOf[l]] - t,
               reserved[ItemOf[l]] + dHeld[p][ItemOf[l]] + h, negative[p])
    /\ step'[p] = AfterMove(p) /\ line'[p] = (IF AfterMove(p) = "next" THEN {} ELSE {l})
    /\ left'[p] = left[p] \ {l} /\ seen'[p] = 0
    /\ locks'[p] = locks[p] \cup {ItemOf[l]}
    /\ dKeys'[p] = dKeys[p] \cup {<<l, m>>}
    /\ dHeld'[p] \in Balances /\ dTaken'[p] \in Balances
    /\ dHeld'[p][ItemOf[l]] = dHeld[p][ItemOf[l]] + h
    /\ dTaken'[p][ItemOf[l]] = dTaken[p][ItemOf[l]] + t
    /\ \A j \in Items : j # ItemOf[l] => dHeld'[p][j] = dHeld[p][j] /\ dTaken'[p][j] = dTaken[p][j]

(* What a movement changes.                                                *)
LEMMA MoveFacts ==
    ASSUME IInv, NEW p \in Procs, NEW o \in Orders, NEW l \in LinesOf(o), Move(p, o, l)
    PROVE  LET m == Movement(task[p], step[p]) IN
           MoveEffect(p, o, l, m, HeldDelta(m) * seen[p], TakenDelta(m) * seen[p])
<1> DEFINE m == Movement(task[p], step[p])
           i == ItemOf[l]
           h == HeldDelta(m) * seen[p]
           t == TakenDelta(m) * seen[p]
<1>1. l \in Lines /\ i \in Items /\ <<l, m>> \in Keys
  BY DEF LinesOf, Keys, Movements, Movement
<1>2. h \in Int /\ t \in Int
  BY DeltasCount, TimesDelta DEF IInv, TypeOK
<1>3. /\ order[p] = {o} /\ line[p] = {l} /\ task[p] # "none" /\ step[p] \in {"move", "return"}
  BY DEF Move, AtMove, IInv, Txns, Txn, IdleIsEmpty
<1>4. /\ locks' = [locks EXCEPT ![p] = @ \cup {i}]
      /\ \A q \in Procs : q # p => i \notin locks[q]
  BY DEF Move, LockItem, ItemFree
<1>5. /\ dHeld' = [dHeld EXCEPT ![p][i] = @ + h]
      /\ dTaken' = [dTaken EXCEPT ![p][i] = @ + t]
      /\ dKeys' = [dKeys EXCEPT ![p] = @ \cup {<<l, m>>}]
      /\ <<l, m>> \notin keys \cup dKeys[p]
      /\ Accepts(onHand[i] - dTaken[p][i] - t, reserved[i] + dHeld[p][i] + h, negative[p])
  BY DEF Move, KeyOf, IsNew
<1>6. /\ step' = [step EXCEPT ![p] = AfterMove(p)]
      /\ line' = [line EXCEPT ![p] = IF AfterMove(p) = "next" THEN {} ELSE {l}]
      /\ left' = [left EXCEPT ![p] = @ \ {l}]
      /\ seen' = [seen EXCEPT ![p] = 0]
      /\ UNCHANGED <<rows, lives, admin, task, order, negative>>
  BY DEF Move, Turn
<1> HIDE DEF m, i, h, t
<1> DEFINE bh == [dHeld[p] EXCEPT ![i] = dHeld[p][i] + h]
           bt == [dTaken[p] EXCEPT ![i] = dTaken[p][i] + t]
<1>7. dHeld' = [dHeld EXCEPT ![p] = bh] /\ dTaken' = [dTaken EXCEPT ![p] = bt]
  BY <1>5
<1>8. dHeld[p] \in Balances /\ dTaken[p] \in Balances
  BY DEF IInv, TypeOK
<1>9. /\ bh \in Balances /\ bh[i] = dHeld[p][i] + h
      /\ \A j \in Items : j # i => bh[j] = dHeld[p][j]
  BY ONLY <1>1, <1>2, <1>8, BalanceChanged
<1>10. /\ bt \in Balances /\ bt[i] = dTaken[p][i] + t
       /\ \A j \in Items : j # i => bt[j] = dTaken[p][j]
  BY ONLY <1>1, <1>2, <1>8, BalanceChanged
<1> HIDE DEF bh, bt
<1>11. dHeld'[p] = bh /\ dTaken'[p] = bt
  BY <1>7 DEF IInv, TypeOK
<1>12. /\ step'[p] = AfterMove(p) /\ line'[p] = (IF AfterMove(p) = "next" THEN {} ELSE {l})
       /\ left'[p] = left[p] \ {l} /\ seen'[p] = 0
       /\ locks'[p] = locks[p] \cup {i} /\ dKeys'[p] = dKeys[p] \cup {<<l, m>>}
  BY <1>4, <1>5, <1>6 DEF IInv, TypeOK
<1>13. OthersStay(p)
  BY <1>4, <1>5, <1>6, <1>7 DEF IInv, TypeOK, OthersStay
<1> QED
  <2>1. MoveEffect(p, o, l, m, h, t)
    BY <1>1, <1>2, <1>3, <1>4, <1>5, <1>6, <1>9, <1>10, <1>11, <1>12, <1>13 DEF MoveEffect, i
  <2> QED BY <2>1 DEF m, h, t

(* .. which are functions of the same type, of the transactions.           *)
LEMMA MoveTypes ==
    ASSUME IInv, NEW p \in Procs, NEW o \in Orders, NEW l \in LinesOf(o), Move(p, o, l)
    PROVE  TypeOK'
<1> DEFINE m == Movement(task[p], step[p])
           i == ItemOf[l]
           h == HeldDelta(m) * seen[p]
           t == TakenDelta(m) * seen[p]
<1>0. MoveEffect(p, o, l, m, h, t)
  BY MoveFacts
<1>1. /\ l \in Lines /\ i \in Items /\ <<l, m>> \in Keys
      /\ dHeld'[p] \in Balances /\ dTaken'[p] \in Balances
      /\ UNCHANGED <<rows, lives, admin, task, order, negative>>
  <2> HIDE DEF m, h, t
  <2> QED BY <1>0 DEF MoveEffect
<1>2. /\ dHeld' = [dHeld EXCEPT ![p] = dHeld'[p]] /\ dTaken' = [dTaken EXCEPT ![p] = dTaken'[p]]
      /\ dKeys' = [dKeys EXCEPT ![p] = @ \cup {<<l, m>>}]
      /\ locks' = [locks EXCEPT ![p] = @ \cup {i}]
  BY DEF Move, KeyOf, LockItem, IInv, TypeOK
<1>3. /\ step' = [step EXCEPT ![p] = AfterMove(p)]
      /\ line' = [line EXCEPT ![p] = IF AfterMove(p) = "next" THEN {} ELSE {l}]
      /\ left' = [left EXCEPT ![p] = @ \ {l}]
      /\ seen' = [seen EXCEPT ![p] = 0]
  BY DEF Move, Turn
<1>4. AfterMove(p) \in Steps
  BY DEF AfterMove, Steps
<1> HIDE DEF m, i, h, t
<1>5. dHeld' \in [Procs -> Balances] /\ dTaken' \in [Procs -> Balances]
  BY <1>1, <1>2 DEF IInv, TypeOK
<1>6. dKeys' \in [Procs -> SUBSET Keys] /\ locks' \in [Procs -> SUBSET Items]
  BY <1>1, <1>2 DEF IInv, TypeOK
<1>7. /\ step' \in [Procs -> Steps] /\ line' \in [Procs -> SUBSET Lines]
      /\ left' \in [Procs -> SUBSET Lines] /\ seen' \in [Procs -> Nat]
  BY <1>1, <1>3, <1>4 DEF IInv, TypeOK
<1> QED BY <1>1, <1>5, <1>6, <1>7 DEF IInv, TypeOK, rows, lives, admin

(* A movement is accepted under the lock of its item, so nobody else has a *)
(* balance of that item in hand.                                           *)
LEMMA MoveIInv ==
    ASSUME IInv, NEW p \in Procs, NEW o \in Orders, NEW l \in LinesOf(o), Move(p, o, l)
    PROVE  IInv'
<1> DEFINE m == Movement(task[p], step[p])
           i == ItemOf[l]
           h == HeldDelta(m) * seen[p]
           t == TakenDelta(m) * seen[p]
<1>0. MoveEffect(p, o, l, m, h, t)
  BY MoveFacts
<1>7. AfterMove(p) \in {"back", "return"} => task[p] = "restock"
  BY DEF AfterMove
<1>8. TypeOK'
  BY MoveTypes
<1> HIDE DEF m, h, t
<1>1. l \in Lines /\ i \in Items /\ h \in Int /\ t \in Int
  BY <1>0 DEF MoveEffect
<1>3. order[p] = {o} /\ line[p] = {l} /\ task[p] # "none"
  BY <1>0 DEF MoveEffect
<1>4. \A q \in Procs : q # p => i \notin locks[q]
  BY <1>0 DEF MoveEffect
<1>5. Accepts(onHand[i] - dTaken[p][i] - t, reserved[i] + dHeld[p][i] + h, negative[p])
  BY <1>0 DEF MoveEffect
<1>6. UNCHANGED <<rows, lives, admin, task, order, negative>>
  BY <1>0 DEF MoveEffect
<1>9. OthersStay(p)
  BY <1>0 DEF MoveEffect
<1>10. /\ locks'[p] = locks[p] \cup {i} /\ dKeys'[p] = dKeys[p] \cup {<<l, m>>}
       /\ dHeld'[p][i] = dHeld[p][i] + h /\ dTaken'[p][i] = dTaken[p][i] + t
       /\ \A j \in Items : j # i => dHeld'[p][j] = dHeld[p][j] /\ dTaken'[p][j] = dTaken[p][j]
  BY <1>0 DEF MoveEffect
<1>14. /\ step'[p] = AfterMove(p) /\ line'[p] = (IF AfterMove(p) = "next" THEN {} ELSE {l})
       /\ left'[p] = left[p] \ {l}
  BY <1>0 DEF MoveEffect
<1> HIDE DEF i
<1>11. Txn(p)'
  <2>1. Txn(p)
    BY DEF IInv, Txns
  <2>2. /\ step'[p] = AfterMove(p) /\ line'[p] = (IF AfterMove(p) = "next" THEN {} ELSE {l})
        /\ left'[p] = left[p] \ {l} /\ task'[p] = task[p] /\ order'[p] = {o}
    BY <1>3, <1>6, <1>14
  <2>3. WorksOnOrder(p)'
    <3>1. left[p] \subseteq LinesOf(o) /\ \A k \in dKeys[p] : k[1] \in LinesOf(o)
      BY <1>3, <2>1 DEF Txn, WorksOnOrder
    <3>2. left'[p] \subseteq LinesOf(o) /\ line'[p] \subseteq LinesOf(o)
      BY <2>2, <3>1
    <3>3. \A k \in dKeys'[p] : k[1] \in LinesOf(o)
      BY <1>10, <3>1
    <3> QED BY <2>2, <3>2, <3>3 DEF WorksOnOrder, LinesOf
  <2>4. IdleIsEmpty(p)' /\ LineAtHand(p)'
    BY <1>3, <1>7, <2>2 DEF IdleIsEmpty, LineAtHand
  <2>5. WritesAreLocked(p)'
    <3>1. WritesAreLocked(p)
      BY <2>1 DEF Txn
    <3>2. \A j \in Items : j \notin locks'[p] => dHeld'[p][j] = 0 /\ dTaken'[p][j] = 0
      BY <1>10, <3>1 DEF WritesAreLocked
    <3>3. \A k \in dKeys'[p] : ItemOf[k[1]] \in locks'[p]
      BY <1>10, <3>1 DEF WritesAreLocked, i
    <3> QED BY <3>2, <3>3 DEF WritesAreLocked
  <2> QED BY <2>3, <2>4, <2>5 DEF Txn
<1>12. Txns'
  <2>1. \A q \in Procs : q # p => locks'[p] \cap locks[q] = {}
    BY <1>4, <1>10 DEF IInv, Txns, LocksExclude
  <2> QED BY <1>9, <1>11, <2>1, TxnsKept DEF IInv
<1>13. Stock'
  <2>1. UNCHANGED <<onHand, reserved, settings, spent, negative>>
    BY <1>6 DEF rows, admin
  <2>2. PolicyStands' /\ NoOversell'
    BY <2>1 DEF IInv, Stock, PolicyStands, NoOversell
  <2>3. ASSUME NEW q \in Procs, NEW j \in locks'[q]
        PROVE  /\ reserved[j] + dHeld'[q][j] >= 0
               /\ spent.settings = 0 =>
                   onHand[j] - dTaken'[q][j] - (reserved[j] + dHeld'[q][j]) >= 0
    <3>1. CASE q # p
      BY <1>9, <3>1 DEF OthersStay, IInv, Stock, BalancesStand
    <3>2. CASE q = p /\ j # i
      <4>1. j \in locks[p] /\ j \in Items
        BY <1>10, <3>2 DEF IInv, TypeOK
      <4> QED BY <1>10, <3>2, <4>1 DEF IInv, Stock, BalancesStand
    <3>3. CASE q = p /\ j = i
      <4>1. spent.settings = 0 => ~ negative[p]
        BY DEF IInv, Stock, PolicyStands
      <4>2. /\ dHeld[p][i] \in Int /\ dTaken[p][i] \in Int /\ onHand[i] \in Int /\ reserved[i] \in Int
        BY <1>1 DEF IInv, TypeOK, Balances
      <4> QED BY <1>1, <1>5, <1>10, <3>3, <4>1, <4>2 DEF Accepts
    <3> QED BY <3>1, <3>2, <3>3
  <2>4. BalancesStand'
    BY <2>1, <2>3 DEF BalancesStand
  <2> QED BY <2>2, <2>4 DEF Stock
<1> QED BY <1>8, <1>12, <1>13 DEF IInv

LEMMA MoveAgainIInv ==
    ASSUME IInv, NEW p \in Procs, NEW o \in Orders, NEW l \in LinesOf(o), MoveAgain(p, o, l)
    PROVE  IInv'
<1> DEFINE i == ItemOf[l]
<1>1. l \in Lines /\ i \in Items
  BY DEF LinesOf
<1>2. order[p] = {o} /\ line[p] = {l} /\ task[p] # "none"
  BY DEF MoveAgain, AtMove, IInv, Txns, Txn, IdleIsEmpty
<1>3. /\ i \notin archived /\ locks' = [locks EXCEPT ![p] = @ \cup {i}]
      /\ \A q \in Procs : q # p => i \notin locks[q]
  BY DEF MoveAgain, LockItem, ItemFree
<1>4. /\ step' = [step EXCEPT ![p] = AfterMove(p)]
      /\ line' = [line EXCEPT ![p] = IF AfterMove(p) = "next" THEN {} ELSE {l}]
      /\ left' = [left EXCEPT ![p] = @ \ {l}]
      /\ seen' = [seen EXCEPT ![p] = 0]
      /\ UNCHANGED <<rows, lives, admin, task, order, negative, dHeld, dTaken, dKeys>>
  BY DEF MoveAgain, Turn
<1>5. AfterMove(p) \in Steps /\ (AfterMove(p) \in {"back", "return"} => task[p] = "restock")
  BY DEF AfterMove, Steps
<1> HIDE DEF i
<1>6. TypeOK'
  <2>1. locks' \in [Procs -> SUBSET Items]
    BY <1>1, <1>3 DEF IInv, TypeOK
  <2>2. /\ step' \in [Procs -> Steps] /\ line' \in [Procs -> SUBSET Lines]
        /\ left' \in [Procs -> SUBSET Lines] /\ seen' \in [Procs -> Nat]
    BY <1>1, <1>4, <1>5 DEF IInv, TypeOK
  <2> QED BY <1>4, <2>1, <2>2 DEF IInv, TypeOK, rows, lives, admin
<1>7. OthersStay(p)
  BY <1>3, <1>4 DEF IInv, TypeOK, OthersStay
<1>8. locks'[p] = locks[p] \cup {i}
  BY <1>3 DEF IInv, TypeOK
<1>9. Txn(p)'
  <2>1. Txn(p)
    BY DEF IInv, Txns
  <2>2. /\ step'[p] = AfterMove(p) /\ line'[p] = IF AfterMove(p) = "next" THEN {} ELSE {l}
        /\ left'[p] = left[p] \ {l}
    BY <1>4 DEF IInv, TypeOK
  <2>3. WorksOnOrder(p)'
    <3>1. left[p] \subseteq LinesOf(o) /\ \A k \in dKeys[p] : k[1] \in LinesOf(o)
      BY <1>2, <2>1 DEF Txn, WorksOnOrder
    <3>2. left'[p] \subseteq LinesOf(o) /\ line'[p] \subseteq LinesOf(o)
      BY <2>2, <3>1
    <3> QED BY <1>2, <1>4, <3>1, <3>2 DEF WorksOnOrder, LinesOf
  <2>4. IdleIsEmpty(p)' /\ LineAtHand(p)'
    BY <1>2, <1>4, <1>5, <2>2 DEF IdleIsEmpty, LineAtHand
  <2>5. WritesAreLocked(p)'
    BY <1>4, <1>8, <2>1 DEF Txn, WritesAreLocked
  <2> QED BY <2>3, <2>4, <2>5 DEF Txn
<1>10. Txns'
  <2>1. \A q \in Procs : q # p => locks'[p] \cap locks[q] = {}
    BY <1>3, <1>8 DEF IInv, Txns, LocksExclude
  <2> QED BY <1>7, <1>9, <2>1, TxnsKept DEF IInv
<1>11. Stock'
  <2>1. UNCHANGED <<onHand, reserved, settings, spent, negative, dHeld, dTaken>>
    BY <1>4 DEF rows, admin
  <2>2. PolicyStands' /\ NoOversell'
    BY <2>1 DEF IInv, Stock, PolicyStands, NoOversell
  <2>3. ASSUME NEW q \in Procs, NEW j \in locks'[q]
        PROVE  /\ reserved[j] + dHeld[q][j] >= 0
               /\ spent.settings = 0 =>
                   onHand[j] - dTaken[q][j] - (reserved[j] + dHeld[q][j]) >= 0
    <3>1. CASE j \in locks[q]
      BY <3>1 DEF IInv, Stock, BalancesStand
    <3>2. CASE j \notin locks[q]
      <4>1. j = i
        BY <1>7, <1>8, <3>2 DEF OthersStay
      <4>2. dHeld[q][j] = 0 /\ dTaken[q][j] = 0
        BY <1>1, <3>2, <4>1 DEF IInv, Txns, Txn, WritesAreLocked
      <4>3. reserved[j] \in Nat /\ onHand[j] \in Int
        BY <1>1, <4>1 DEF IInv, TypeOK, Balances
      <4>4. spent.settings = 0 => onHand[j] - reserved[j] >= 0
        BY <1>1, <4>1 DEF IInv, Stock, NoOversell
      <4> QED BY <4>2, <4>3, <4>4
    <3> QED BY <3>1, <3>2
  <2>4. BalancesStand'
    BY <2>1, <2>3 DEF BalancesStand
  <2> QED BY <2>2, <2>4 DEF Stock
<1> QED BY <1>6, <1>10, <1>11 DEF IInv

(* Nothing of a transaction is left when it ends.                          *)
LEMMA Cleared ==
    ASSUME TypeOK, NEW p \in Procs, Clear(p)
    PROVE  /\ OthersStay(p)
           /\ task'[p] = "none" /\ order'[p] = {} /\ negative'[p] = FALSE /\ left'[p] = {}
           /\ step'[p] = "next" /\ line'[p] = {} /\ seen'[p] = 0 /\ locks'[p] = {}
           /\ dHeld'[p] = Nothing /\ dTaken'[p] = Nothing /\ dKeys'[p] = {}
  BY DEF TypeOK, Clear, OthersStay

LEMMA ClearTypes ==
    ASSUME TypeOK, NEW p \in Procs, Clear(p)
    PROVE  /\ task' \in [Procs -> Tasks]
           /\ order' \in [Procs -> SUBSET Orders]
           /\ negative' \in [Procs -> BOOLEAN]
           /\ left' \in [Procs -> SUBSET Lines]
           /\ step' \in [Procs -> Steps]
           /\ line' \in [Procs -> SUBSET Lines]
           /\ seen' \in [Procs -> Nat]
           /\ locks' \in [Procs -> SUBSET Items]
           /\ dHeld' \in [Procs -> Balances]
           /\ dTaken' \in [Procs -> Balances]
           /\ dKeys' \in [Procs -> SUBSET Keys]
<1>1. Nothing \in Balances
  BY DEF Nothing, Balances
<1>2. dHeld' \in [Procs -> Balances] /\ dTaken' \in [Procs -> Balances]
  BY <1>1 DEF TypeOK, Clear
<1> QED BY <1>2 DEF TypeOK, Clear, Tasks, Steps

LEMMA ClearTxns == ASSUME IInv, NEW p \in Procs, Clear(p) PROVE Txns'
<1>1. Txn(p)'
  <2>1. \A i \in Items : Nothing[i] = 0
    BY DEF Nothing
  <2>2. IdleIsEmpty(p)' /\ WorksOnOrder(p)' /\ LineAtHand(p)'
    BY Cleared DEF IInv, IdleIsEmpty, WorksOnOrder, LineAtHand, Nothing
  <2>3. WritesAreLocked(p)'
    BY <2>1, Cleared DEF IInv, WritesAreLocked
  <2> QED BY <2>2, <2>3 DEF Txn
<1> QED BY <1>1, Cleared, TxnsKept DEF IInv

LEMMA RollBackIInv == ASSUME IInv, NEW p \in Procs, RollBack(p) PROVE IInv'
<1>1. Clear(p) /\ UNCHANGED <<rows, lives, admin>>
  BY DEF RollBack
<1>2. TypeOK'
  BY <1>1, ClearTypes DEF IInv, TypeOK, rows, lives, admin
<1>3. Txns'
  BY <1>1, ClearTxns
<1>4. Stock'
  BY <1>1, Cleared DEF IInv, Stock, PolicyStands, BalancesStand, NoOversell, OthersStay, rows, admin
<1> QED BY <1>2, <1>3, <1>4 DEF IInv

(* What is committed was accepted, row by row, and the rows were locked.   *)
LEMMA CommitIInv ==
    ASSUME IInv, NEW p \in Procs, NEW o \in Orders, Commit(p, o)
    PROVE  IInv'
<1>1. Clear(p) /\ UNCHANGED <<refunded, admin>> /\ task[p] # "none"
  BY DEF Commit
<1>2. \A i \in Items : /\ onHand'[i] = onHand[i] - dTaken[p][i]
                       /\ reserved'[i] = reserved[i] + dHeld[p][i]
  BY DEF Commit
<1>3. \A i \in Items : /\ onHand[i] \in Int /\ reserved[i] \in Nat
                       /\ dTaken[p][i] \in Int /\ dHeld[p][i] \in Int
  BY DEF IInv, TypeOK, Balances
<1>4. \A i \in Items : /\ reserved'[i] >= 0
                       /\ spent.settings = 0 => onHand'[i] - reserved'[i] >= 0
  <2> SUFFICES ASSUME NEW i \in Items
               PROVE  /\ reserved'[i] >= 0
                      /\ spent.settings = 0 => onHand'[i] - reserved'[i] >= 0
    OBVIOUS
  <2>1. CASE i \in locks[p]
    BY <1>2, <2>1 DEF IInv, Stock, BalancesStand
  <2>2. CASE i \notin locks[p]
    <3>1. dHeld[p][i] = 0 /\ dTaken[p][i] = 0
      BY <2>2 DEF IInv, Txns, Txn, WritesAreLocked
    <3>2. spent.settings = 0 => onHand[i] - reserved[i] >= 0
      BY DEF IInv, Stock, NoOversell
    <3> QED BY <1>2, <1>3, <3>1, <3>2
  <2> QED BY <2>1, <2>2
<1>5. TypeOK'
  <2>1. onHand' \in Balances
    BY <1>3 DEF Commit, Balances
  <2>2. reserved' \in [Items -> Nat]
    <3>1. \A i \in Items : reserved[i] + dHeld[p][i] \in Nat
      BY <1>2, <1>3, <1>4
    <3> QED BY <3>1 DEF Commit
  <2>3. held' \in [Orders -> Balances]
    <3>1. [i \in Items |-> held[o][i] + dHeld[p][i]] \in Balances
      BY <1>3 DEF IInv, TypeOK, Balances
    <3> QED BY <3>1 DEF IInv, TypeOK, Commit
  <2>4. taken' \in [Orders -> Balances]
    <3>1. [i \in Items |-> taken[o][i] + dTaken[p][i]] \in Balances
      BY <1>3 DEF IInv, TypeOK, Balances
    <3> QED BY <3>1 DEF IInv, TypeOK, Commit
  <2>5. keys' \subseteq Keys
    BY DEF IInv, TypeOK, Commit
  <2>6. status' \in [Orders -> Statuses] /\ delivery' \in [Orders -> Deliveries]
    BY DEF IInv, TypeOK, Commit, NewStatus, Statuses, Deliveries
  <2> QED BY <1>1, <2>1, <2>2, <2>3, <2>4, <2>5, <2>6, ClearTypes DEF IInv, TypeOK, admin
<1>6. Txns'
  BY <1>1, ClearTxns
<1>7. Stock'
  <2>1. UNCHANGED <<settings, spent>>
    BY <1>1 DEF admin
  <2>2. PolicyStands'
    BY <1>1, <2>1, Cleared DEF IInv, Stock, PolicyStands, OthersStay
  <2>3. NoOversell'
    BY <1>4, <2>1 DEF NoOversell
  <2>4. ASSUME NEW q \in Procs, NEW i \in locks'[q]
        PROVE  /\ reserved'[i] + dHeld'[q][i] >= 0
               /\ spent.settings = 0 =>
                   onHand'[i] - dTaken'[q][i] - (reserved'[i] + dHeld'[q][i]) >= 0
    <3>1. q # p /\ i \in locks[q] /\ dHeld'[q] = dHeld[q] /\ dTaken'[q] = dTaken[q]
      BY <1>1, Cleared DEF IInv, OthersStay
    <3>2. i \in Items /\ i \notin locks[p]
      BY <3>1 DEF IInv, TypeOK, Txns, LocksExclude
    <3>3. dHeld[p][i] = 0 /\ dTaken[p][i] = 0
      BY <3>2 DEF IInv, Txns, Txn, WritesAreLocked
    <3>4. onHand'[i] = onHand[i] /\ reserved'[i] = reserved[i]
      BY <1>2, <1>3, <3>2, <3>3
    <3> QED BY <3>1, <3>4 DEF IInv, Stock, BalancesStand
  <2>5. BalancesStand'
    BY <2>1, <2>4 DEF BalancesStand
  <2> QED BY <2>2, <2>3, <2>5 DEF Stock
<1> QED BY <1>5, <1>6, <1>7 DEF IInv

(* Every step of a transaction keeps the invariant of the balances.        *)
LEMMA TxnIInv ==
    ASSUME IInv, NEW p \in Procs, NEW o \in Orders, TxnStep(p, o) PROVE IInv'
<1>1. CASE BeginPlace(p, o) \/ BeginCancel(p, o) \/ BeginFulfil(p, o) \/ BeginRestock(p, o)
  <2>1. PICK what \in Tasks \ {"none"} : Begin(p, o, what)
    BY <1>1 DEF BeginPlace, BeginCancel, BeginFulfil, BeginRestock, Tasks
  <2> QED BY <2>1, BeginIInv
<1>2. CASE Commit(p, o)
  BY <1>2, CommitIInv
<1> QED BY <1>1, <1>2, ReadIInv, MoveIInv, MoveAgainIInv DEF TxnStep

(* Balances, the line and the locks of every transaction, and the policy   *)
(* it read: what holds in every reachable state before orders are looked   *)
(* at.                                                                     *)
THEOREM Invariant == Spec => []IInv
<1>1. Init => IInv
  BY InitIInv
<1>2. IInv /\ [Next]_vars => IInv'
  <2> SUFFICES ASSUME IInv, [Next]_vars PROVE IInv'
    OBVIOUS
  <2>1. CASE Next
    BY <2>1, OrderIInv, OperatorIInv, TxnIInv, RollBackIInv DEF Next
  <2>2. CASE UNCHANGED vars
    <3>1. UNCHANGED <<rows, lives, admin, txns>>
      BY <2>2 DEF vars
    <3>2. TypeOK'
      BY <3>1 DEF IInv, TypeOK, rows, lives, admin, txns
    <3> QED BY <3>1, <3>2, TxnsStay, StockStays DEF IInv, rows, admin
  <2> QED BY <2>1, <2>2
<1> QED BY <1>1, <1>2, PTL DEF Spec

(* TypeOK: every variable keeps its type; no item's reserved count is ever *)
(* negative, whatever releases race (inventory.ts nextInventoryBalance).   *)
THEOREM TypesHold == Spec => []TypeOK
<1>1. IInv => TypeOK
  BY DEF IInv
<1> QED BY <1>1, Invariant, PTL

(* NoOversell: while the policy forbids negative stock, no interleaving of *)
(* orders, restocks and operators promises more than is on the shelf       *)
(* (inventory.ts applyInventoryAdjustmentInTx).                            *)
THEOREM NothingIsOversold == Spec => []NoOversell
<1>1. IInv => NoOversell
  BY DEF IInv, Stock
<1> QED BY <1>1, Invariant, PTL

(***************************************************************************)
(* What an order has moved, and what a transaction is about to move.       *)
(***************************************************************************)

(* An order is worked on by transitions that its status allows, one at a   *)
(* time, and beside them by restocks, which follow a refund.               *)
RightStatus(p) ==
    \A o \in order[p] :
        /\ task[p] = "place" => status[o] = "draft"
        /\ task[p] = "cancel" => status[o] \in {"draft", "placed", "confirmed", "processing"}
        /\ task[p] = "fulfil" => status[o] = "processing"
        /\ task[p] = "restock" => o \in refunded

Orderly ==
    /\ \A p \in Procs : RightStatus(p)
    /\ \A o \in refunded : status[o] \notin {"absent", "draft", "deleted"}
    /\ \A p, q \in Procs : p # q /\ order[p] \cap order[q] # {} =>
        task[p] = "restock" \/ task[q] = "restock"

(* A movement's key says what the order's status has been, and is new for  *)
(* the transaction that writes it.                                         *)
KindsOf(what) ==
    CASE what = "place" -> {"reserve"}
      [] what = "cancel" -> {"release"}
      [] what = "fulfil" -> {"fulfill"}
      [] OTHER -> {"refund-release", "refund-return"}

KeysFollow ==
    \A k \in keys :
        LET s == status[OrderOf[k[1]]] IN
        /\ k[2] = "reserve" => s \notin {"absent", "draft", "deleted"}
        /\ k[2] = "release" => s = "cancelled"
        /\ k[2] = "fulfill" => s = "fulfilled"

KeysAreNew(p) ==
    \A k \in dKeys[p] :
        /\ k[2] \in KindsOf(task[p])
        /\ k \notin keys
        /\ k[1] \notin left[p]
        /\ k[1] \in line[p] => step[p] \in {"back", "return"} /\ k[2] = "refund-release"

(* A transaction moves stock the way its task says.                        *)
MovesItsWay(p) ==
    \A i \in Items :
        /\ task[p] = "place" => dHeld[p][i] >= 0 /\ dTaken[p][i] = 0
        /\ task[p] = "cancel" => dHeld[p][i] <= 0 /\ dTaken[p][i] = 0
        /\ task[p] = "fulfil" => dTaken[p][i] >= 0 /\ dHeld[p][i] + dTaken[p][i] = 0
        /\ task[p] = "restock" =>
            /\ dHeld[p][i] <= 0 /\ dTaken[p][i] <= 0
            /\ dTaken[p][i] # 0 =>
                \E k \in dKeys[p] : k[2] = "refund-return" /\ ItemOf[k[1]] = i

Keyed == KeysFollow /\ \A p \in Procs : KeysAreNew(p) /\ MovesItsWay(p)

(* A transition that gives back read no more than the order holds.         *)
GivesWhatIsHeld(p) ==
    task[p] # "restock" =>
        \A o \in order[p] \ refunded, i \in Items :
            /\ HeldSeen(p, o, i) >= 0
            /\ step[p] = "move" /\ task[p] \in {"cancel", "fulfil"} /\ i \in {ItemOf[l] : l \in line[p]} =>
                seen[p] <= HeldSeen(p, o, i)

Holds == HoldsAreSound /\ \A p \in Procs : GivesWhatIsHeld(p)

(* What an order holds and has taken was reserved, line by line.           *)
ReservedIn(o, i, K) == {l \in LinesFor(o, i) : <<l, "reserve">> \in K}

AsksForTheLine(p) ==
    task[p] = "place" =>
        /\ step[p] = "move" => \A l \in line[p] : seen[p] = Qty[l]
        /\ \A o \in order[p], i \in Items :
            HeldSeen(p, o, i) + TakenSeen(p, o, i) <= Over(ReservedIn(o, i, keys \cup dKeys[p]), Qty)

Reservations ==
    /\ \A o \in Orders, i \in Items : held[o][i] + taken[o][i] <= Over(ReservedIn(o, i, keys), Qty)
    /\ \A p \in Procs : AsksForTheLine(p)

(* What is put back for the only line of an item is there until it is.     *)
OneLine(o, i) == \A l, m \in LinesFor(o, i) : l = m

ReturnsOnce(p) ==
    \A o \in order[p], i \in Items :
        OneLine(o, i) =>
            /\ TakenSeen(p, o, i) >= 0
            /\ \A l \in line[p] : step[p] = "return" /\ ItemOf[l] = i /\ <<l, "refund-return">> \notin keys =>
                seen[p] <= taken[o][i]

Returns ==
    /\ \A o \in Orders, i \in Items : OneLine(o, i) => taken[o][i] >= 0
    /\ \A p \in Procs : ReturnsOnce(p)

(* What is still to be moved, of an order that is not refunded, and with   *)
(* it what the order holds and has taken.                                  *)
Full(o, i) == IF o \in Sandbox THEN 0 ELSE Ordered(o, i)
RestOf(o, i, L) == Over({l \in LinesFor(o, i) : l \in L}, Qty)
HeldDue(what, s, full, rest) ==
    CASE what = "place" -> full - rest
      [] what = "cancel" /\ s = "draft" -> 0
      [] OTHER -> rest
TakenDue(what, full, rest) == IF what = "fulfil" THEN full - rest ELSE 0

FollowsStatus(p) ==
    \A o \in order[p] \ refunded :
        /\ o \in Sandbox => left[p] = {} /\ line[p] = {}
        /\ task[p] \in {"cancel", "fulfil"} /\ step[p] = "move" =>
            status[o] # "draft" /\ \A l \in line[p] : seen[p] = Qty[l]
        /\ \A i \in Items :
            LET rest == RestOf(o, i, left[p] \cup line[p]) IN
            /\ HeldSeen(p, o, i) = HeldDue(task[p], status[o], Full(o, i), rest)
            /\ TakenSeen(p, o, i) = TakenDue(task[p], Full(o, i), rest)

Followed == StockFollowsOrder /\ (spent.settings = 0 => \A p \in Procs : FollowsStatus(p))
Lives == Orderly /\ Keyed

(***************************************************************************)
(* What each step does, said once.                                         *)
(***************************************************************************)

(* What a transition without stock leaves alone.                           *)
LEMMA OrderFacts ==
    ASSUME IInv, Orderly, NEW o \in Orders, OrderStep(o)
    PROVE  /\ UNCHANGED <<rows, admin, txns>>
           /\ \/ UNCHANGED <<status, refunded>>
              \/ /\ UNCHANGED refunded
                 /\ \A x \in Orders \ {o} : status'[x] = status[x]
                 /\ <<status[o], status'[o]>> \in
                      {<<"absent", "draft">>, <<"draft", "deleted">>,
                       <<"placed", "confirmed">>, <<"confirmed", "processing">>}
                 /\ \A p \in Procs : o \in order[p] => task[p] = "restock"
              \/ /\ UNCHANGED status
                 /\ refunded' = refunded \cup {o}
                 /\ status[o] \notin {"absent", "draft", "deleted"}
<1>1. UNCHANGED <<rows, admin, txns>>
  BY DEF OrderStep, Create, DeleteDraft, Advance, EnsureFulfillment, SetDelivery, Refund
<1>2. \A p \in Procs : task[p] = "none" => order[p] = {}
  BY DEF IInv, Txns, Txn, IdleIsEmpty
<1>3. \A p \in Procs : task[p] \in Tasks
  BY DEF IInv, TypeOK
<1>4. CASE Create(o)
  <2>1. status[o] = "absent" /\ status' = [status EXCEPT ![o] = "draft"] /\ UNCHANGED refunded
    BY <1>4 DEF Create
  <2>2. \A p \in Procs : o \in order[p] => task[p] = "restock"
    BY <1>2, <1>3, <2>1 DEF Orderly, RightStatus, Tasks
  <2> QED BY <1>1, <2>1, <2>2 DEF IInv, TypeOK
<1>5. ASSUME NEW from, NEW to, OrderFree(o), status[o] = from,
             status' = [status EXCEPT ![o] = to], UNCHANGED refunded,
             <<from, to>> \in {<<"draft", "deleted">>, <<"placed", "confirmed">>,
                               <<"confirmed", "processing">>}
      PROVE  /\ UNCHANGED refunded
             /\ \A x \in Orders \ {o} : status'[x] = status[x]
             /\ <<status[o], status'[o]>> \in
                  {<<"absent", "draft">>, <<"draft", "deleted">>,
                   <<"placed", "confirmed">>, <<"confirmed", "processing">>}
             /\ \A p \in Procs : o \in order[p] => task[p] = "restock"
  <2>1. \A p \in Procs : o \in order[p] => task[p] = "restock"
    BY <1>2, <1>5 DEF OrderFree
  <2> QED BY <1>5, <2>1 DEF IInv, TypeOK
<1>6. CASE DeleteDraft(o)
  BY <1>1, <1>5, <1>6 DEF DeleteDraft
<1>7. CASE Advance(o, "placed", "confirmed") \/ Advance(o, "confirmed", "processing")
  BY <1>1, <1>5, <1>7 DEF Advance
<1>8. CASE EnsureFulfillment(o) \/ \E to \in Deliveries : SetDelivery(o, to)
  BY <1>1, <1>8 DEF EnsureFulfillment, SetDelivery
<1>9. CASE Refund(o)
  BY <1>1, <1>9 DEF Refund
<1> QED BY <1>4, <1>6, <1>7, <1>8, <1>9 DEF OrderStep

(* What an operator leaves alone.                                          *)
LEMMA OperatorFacts ==
    ASSUME TypeOK, OperatorStep
    PROVE  /\ UNCHANGED <<held, taken, keys, lives, txns>>
           /\ spent'.settings = 0 => spent.settings = 0
  BY DEF OperatorStep, Archive, Unarchive, Adjust, ChangeSettings, ByHand, TypeOK, rows, lives, txns

(* What a transaction that begins changes.                                 *)
LEMMA BeginFacts ==
    ASSUME IInv, NEW p \in Procs, NEW o \in Orders, NEW what \in Tasks \ {"none"},
           Begin(p, o, what)
    PROVE  /\ UNCHANGED <<rows, lives, admin>>
           /\ OthersStay(p)
           /\ task[p] = "none" /\ task'[p] = what /\ order'[p] = {o}
           /\ left'[p] = IF o \in Sandbox \/ ~ settings.enabled THEN {} ELSE LinesOf(o)
           /\ step'[p] = "next" /\ line'[p] = {} /\ dKeys'[p] = {}
           /\ \A i \in Items : dHeld'[p][i] = 0 /\ dTaken'[p][i] = 0
<1>1. OthersStay(p)
  BY DEF IInv, TypeOK, Begin, OthersStay
<1>2. task'[p] = what /\ order'[p] = {o}
      /\ left'[p] = IF o \in Sandbox \/ ~ settings.enabled THEN {} ELSE LinesOf(o)
  BY DEF IInv, TypeOK, Begin
<1>3. IdleIsEmpty(p) /\ task[p] = "none"
  BY DEF IInv, Txns, Txn, Begin
<1>4. step'[p] = "next" /\ line'[p] = {} /\ dKeys'[p] = {} /\ dHeld'[p] = Nothing /\ dTaken'[p] = Nothing
  BY <1>3 DEF IdleIsEmpty, Begin
<1>5. \A i \in Items : Nothing[i] = 0
  BY DEF Nothing
<1>6. UNCHANGED <<rows, lives, admin>>
  BY DEF Begin
<1> QED BY <1>1, <1>2, <1>3, <1>4, <1>5, <1>6

(* What taking up a line changes.                                          *)
LEMMA TurnFacts ==
    ASSUME IInv, NEW p \in Procs, NEW l \in Lines, NEW to, NEW n, Turn(p, to, l, n),
           UNCHANGED <<task, order, negative, locks, dHeld, dTaken, dKeys>>
    PROVE  /\ OthersStay(p)
           /\ step'[p] = to /\ line'[p] = (IF to = "next" THEN {} ELSE {l})
           /\ left'[p] = left[p] \ {l} /\ seen'[p] = n
  BY DEF IInv, TypeOK, Turn, OthersStay

(* What a read of a line finds, and where the transaction goes from there. *)
Reading(p, o, l, to, n) ==
    /\ Turn(p, to, l, n)
    /\ UNCHANGED <<rows, lives, admin, task, order, negative, locks, dHeld, dTaken, dKeys>>
    /\ order[p] = {o} /\ task[p] # "none"
    /\ \/ /\ step[p] = "next" /\ l \in left[p] /\ line[p] = {}
          /\ \/ task[p] = "place" /\ to = "move" /\ n = Qty[l]
             \/ /\ task[p] # "place" /\ HeldSeen(p, o, ItemOf[l]) > 0
                /\ to = "move" /\ n = Smaller(HeldSeen(p, o, ItemOf[l]), Qty[l])
             \/ /\ task[p] # "place" /\ HeldSeen(p, o, ItemOf[l]) <= 0
                /\ to = (IF task[p] = "restock" THEN "back" ELSE "next")
       \/ /\ step[p] = "back" /\ task[p] = "restock"
          /\ \/ to = "return" /\ n = Smaller(TakenSeen(p, o, ItemOf[l]), Qty[l])
             \/ to = "next"

(* What reading the quantity of a line changes.                            *)
LEMMA ReadFacts ==
    ASSUME IInv, NEW p \in Procs, NEW o \in Orders, NEW l \in LinesOf(o),
           \/ ReadQuantity(p, o, l) \/ ReadHeld(p, o, l) \/ ReadNothingHeld(p, o, l)
           \/ ReadTaken(p, o, l) \/ ReadNothingTaken(p, o, l)
    PROVE  \E to, n : Reading(p, o, l, to, n)
<1>1. /\ step[p] = "next" => line[p] = {}
      /\ step[p] = "back" => task[p] = "restock"
  BY DEF IInv, Txns, Txn, LineAtHand
<1>2. CASE ReadQuantity(p, o, l)
  <2>1. Reading(p, o, l, "move", Qty[l])
    BY <1>1, <1>2 DEF ReadQuantity, AtLine, Reading
  <2> QED BY <2>1
<1>3. CASE ReadHeld(p, o, l)
  <2>1. Reading(p, o, l, "move", Smaller(HeldSeen(p, o, ItemOf[l]), Qty[l]))
    BY <1>1, <1>3 DEF ReadHeld, AtLine, Reading
  <2> QED BY <2>1
<1>4. CASE ReadNothingHeld(p, o, l)
  <2>1. Reading(p, o, l, IF task[p] = "restock" THEN "back" ELSE "next", 0)
    BY <1>1, <1>4 DEF ReadNothingHeld, AtLine, Reading
  <2> QED BY <2>1
<1>5. CASE ReadTaken(p, o, l)
  <2>1. Reading(p, o, l, "return", Smaller(TakenSeen(p, o, ItemOf[l]), Qty[l]))
    BY <1>1, <1>5 DEF ReadTaken, Reading
  <2> QED BY <2>1
<1>6. CASE ReadNothingTaken(p, o, l)
  <2>1. Reading(p, o, l, "next", 0)
    BY <1>1, <1>6 DEF ReadNothingTaken, Reading
  <2> QED BY <2>1
<1> QED BY <1>2, <1>3, <1>4, <1>5, <1>6

(* How much a task's movement holds and takes.                             *)
LEMMA MoveAmounts ==
    ASSUME IInv, NEW p \in Procs, task[p] # "none", step[p] \in {"move", "return"}
    PROVE  LET m == Movement(task[p], step[p])
               h == HeldDelta(m) * seen[p]
               t == TakenDelta(m) * seen[p] IN
           /\ m \in KindsOf(task[p])
           /\ task[p] # "restock" => step[p] = "move"
           /\ task[p] = "place" => m = "reserve" /\ h = seen[p] /\ t = 0
           /\ task[p] = "cancel" => m = "release" /\ h = -seen[p] /\ t = 0
           /\ task[p] = "fulfil" => m = "fulfill" /\ h = -seen[p] /\ t = seen[p]
           /\ task[p] = "restock" /\ step[p] = "move" => m = "refund-release" /\ h = -seen[p] /\ t = 0
           /\ task[p] = "restock" /\ step[p] = "return" => m = "refund-return" /\ h = 0 /\ t = -seen[p]
<1> DEFINE m == Movement(task[p], step[p])
<1>1. task[p] \in Tasks /\ seen[p] \in Int
  BY DEF IInv, TypeOK
<1>2. task[p] # "restock" => step[p] = "move"
  BY DEF IInv, Txns, Txn, LineAtHand
<1>3. /\ HeldDelta(m) \in {-1, 0, 1} /\ TakenDelta(m) \in {-1, 0, 1}
  BY DeltasCount
<1>4. /\ HeldDelta(m) = 1 => HeldDelta(m) * seen[p] = seen[p]
      /\ HeldDelta(m) = -1 => HeldDelta(m) * seen[p] = -seen[p]
      /\ HeldDelta(m) = 0 => HeldDelta(m) * seen[p] = 0
      /\ TakenDelta(m) = 1 => TakenDelta(m) * seen[p] = seen[p]
      /\ TakenDelta(m) = -1 => TakenDelta(m) * seen[p] = -seen[p]
      /\ TakenDelta(m) = 0 => TakenDelta(m) * seen[p] = 0
  BY <1>1, <1>3, TimesDelta
<1>5. /\ HeldDelta("reserve") = 1 /\ TakenDelta("reserve") = 0
      /\ HeldDelta("release") = -1 /\ TakenDelta("release") = 0
      /\ HeldDelta("fulfill") = -1 /\ TakenDelta("fulfill") = 1
      /\ HeldDelta("refund-release") = -1 /\ TakenDelta("refund-release") = 0
      /\ HeldDelta("refund-return") = 0 /\ TakenDelta("refund-return") = -1
  BY DEF HeldDelta, TakenDelta
<1>6. /\ m \in KindsOf(task[p])
      /\ task[p] = "place" => m = "reserve"
      /\ task[p] = "cancel" => m = "release"
      /\ task[p] = "fulfil" => m = "fulfill"
      /\ task[p] = "restock" /\ step[p] = "move" => m = "refund-release"
      /\ task[p] = "restock" /\ step[p] = "return" => m = "refund-return"
  BY <1>1, <1>2 DEF Movement, KindsOf, Tasks
<1> HIDE DEF m
<1>7. /\ task[p] = "place" => m = "reserve" /\ HeldDelta(m) * seen[p] = seen[p] /\ TakenDelta(m) * seen[p] = 0
      /\ task[p] = "cancel" => m = "release" /\ HeldDelta(m) * seen[p] = -seen[p] /\ TakenDelta(m) * seen[p] = 0
  BY <1>4, <1>5, <1>6
<1>8. /\ task[p] = "fulfil" => m = "fulfill" /\ HeldDelta(m) * seen[p] = -seen[p] /\ TakenDelta(m) * seen[p] = seen[p]
  BY <1>4, <1>5, <1>6
<1>9. /\ task[p] = "restock" /\ step[p] = "move" =>
            m = "refund-release" /\ HeldDelta(m) * seen[p] = -seen[p] /\ TakenDelta(m) * seen[p] = 0
      /\ task[p] = "restock" /\ step[p] = "return" =>
            m = "refund-return" /\ HeldDelta(m) * seen[p] = 0 /\ TakenDelta(m) * seen[p] = -seen[p]
  BY <1>4, <1>5, <1>6
<1> QED BY <1>2, <1>6, <1>7, <1>8, <1>9 DEF m

SkipEffect(p, o, l) ==
    /\ UNCHANGED <<rows, lives, admin, task, order, negative, dHeld, dTaken, dKeys>>
    /\ OthersStay(p)
    /\ l \in Lines
    /\ order[p] = {o} /\ line[p] = {l} /\ task[p] # "none" /\ step[p] \in {"move", "return"}
    /\ <<l, Movement(task[p], step[p])>> \in keys \cup dKeys[p]
    /\ step'[p] = AfterMove(p) /\ line'[p] = (IF AfterMove(p) = "next" THEN {} ELSE {l})
    /\ left'[p] = left[p] \ {l}

(* What a movement that is there already changes.                          *)
LEMMA SkipFacts ==
    ASSUME IInv, NEW p \in Procs, NEW o \in Orders, NEW l \in LinesOf(o), MoveAgain(p, o, l)
    PROVE  SkipEffect(p, o, l)
<1>1. l \in Lines
  BY DEF LinesOf
<1>2. order[p] = {o} /\ line[p] = {l} /\ task[p] # "none" /\ step[p] \in {"move", "return"}
  BY DEF MoveAgain, AtMove, IInv, Txns, Txn, IdleIsEmpty
<1>3. <<l, Movement(task[p], step[p])>> \in keys \cup dKeys[p]
  BY DEF MoveAgain, IsNew, KeyOf
<1>4. /\ step' = [step EXCEPT ![p] = AfterMove(p)]
      /\ line' = [line EXCEPT ![p] = IF AfterMove(p) = "next" THEN {} ELSE {l}]
      /\ left' = [left EXCEPT ![p] = @ \ {l}]
      /\ seen' = [seen EXCEPT ![p] = 0]
      /\ locks' = [locks EXCEPT ![p] = @ \cup {ItemOf[l]}]
      /\ UNCHANGED <<rows, lives, admin, task, order, negative, dHeld, dTaken, dKeys>>
  BY DEF MoveAgain, Turn, LockItem
<1>5. /\ step'[p] = AfterMove(p) /\ line'[p] = (IF AfterMove(p) = "next" THEN {} ELSE {l})
      /\ left'[p] = left[p] \ {l} /\ OthersStay(p)
  BY <1>4 DEF IInv, TypeOK, OthersStay
<1> QED BY <1>1, <1>2, <1>3, <1>4, <1>5 DEF SkipEffect

(* A transaction that ended.                                               *)
Ended(p) ==
    /\ OthersStay(p)
    /\ task'[p] = "none" /\ order'[p] = {} /\ left'[p] = {} /\ step'[p] = "next"
    /\ line'[p] = {} /\ dKeys'[p] = {}
    /\ \A i \in Items : dHeld'[p][i] = 0 /\ dTaken'[p][i] = 0

LEMMA EndedFacts == ASSUME TypeOK, NEW p \in Procs, Clear(p) PROVE Ended(p)
<1>1. \A i \in Items : Nothing[i] = 0
  BY DEF Nothing
<1> QED BY <1>1, Cleared DEF Ended

CommitEffect(p, o) ==
    /\ Ended(p)
    /\ task[p] # "none" /\ order[p] = {o} /\ left[p] = {} /\ line[p] = {} /\ step[p] = "next"
    /\ UNCHANGED <<refunded, settings, spent>>
    /\ \A i \in Items : /\ held'[o][i] = held[o][i] + dHeld[p][i]
                        /\ taken'[o][i] = taken[o][i] + dTaken[p][i]
    /\ \A x \in Orders : x # o =>
        held'[x] = held[x] /\ taken'[x] = taken[x] /\ status'[x] = status[x]
    /\ status'[o] = NewStatus(task[p], status[o])
    /\ keys' = keys \cup dKeys[p]

(* What a commit changes.                                                  *)
LEMMA CommitFacts ==
    ASSUME IInv, NEW p \in Procs, NEW o \in Orders, Commit(p, o) PROVE CommitEffect(p, o)
<1>1. Ended(p)
  BY EndedFacts DEF Commit, IInv
<1>2. task[p] # "none" /\ order[p] = {o} /\ left[p] = {} /\ step[p] = "next" /\ line[p] = {}
  BY DEF Commit, IInv, Txns, Txn, LineAtHand
<1>3. \A i \in Items : /\ held'[o][i] = held[o][i] + dHeld[p][i]
                       /\ taken'[o][i] = taken[o][i] + dTaken[p][i]
  BY DEF Commit, IInv, TypeOK
<1>4. \A x \in Orders : x # o =>
        held'[x] = held[x] /\ taken'[x] = taken[x] /\ status'[x] = status[x]
  BY DEF Commit, IInv, TypeOK
<1>5. status'[o] = NewStatus(task[p], status[o])
  BY DEF Commit, IInv, TypeOK
<1> QED BY <1>1, <1>2, <1>3, <1>4, <1>5 DEF Commit, CommitEffect, admin

(* What a rollback changes.                                                *)
LEMMA RollBackFacts ==
    ASSUME IInv, NEW p \in Procs, RollBack(p)
    PROVE  Ended(p) /\ UNCHANGED <<rows, lives, admin>>
  BY EndedFacts DEF RollBack, IInv

(* .. and of a transition's transaction, its amounts.                      *)
LEMMA LineOfItem ==
    ASSUME IInv, NEW p \in Procs, NEW o \in Orders, order[p] = {o}
    PROVE  /\ task[p] # "none"
           /\ left[p] \subseteq LinesOf(o) /\ line[p] \subseteq LinesOf(o)
           /\ \A k \in dKeys[p] : k[1] \in LinesOf(o) /\ ItemOf[k[1]] \in locks[p]
  BY DEF IInv, Txns, Txn, IdleIsEmpty, WorksOnOrder, WritesAreLocked

(***************************************************************************)
(* Orders and keys.                                                        *)
(***************************************************************************)

LEMMA InitLives == Init => Lives
<1> SUFFICES ASSUME Init PROVE Lives
  OBVIOUS
<1> USE DEF Init, Nothing
<1>1. Orderly
  BY DEF Orderly, RightStatus
<1>2. Keyed
  BY DEF Keyed, KeysFollow, KeysAreNew, MovesItsWay
<1> QED BY <1>1, <1>2 DEF Lives

LEMMA OrderLives ==
    ASSUME IInv, Lives, NEW o \in Orders, OrderStep(o) PROVE Lives'
<1> USE DEF Lives
<1>1. UNCHANGED <<keys, task, order, left, line, step, dHeld, dTaken, dKeys>>
  BY OrderFacts DEF rows, txns
<1>2. \A p \in Procs : order[p] \subseteq Orders
  BY DEF IInv, TypeOK
<1>3. \A k \in keys : OrderOf[k[1]] \in Orders
  BY DEF IInv, TypeOK, Keys
<1>4. refunded \subseteq Orders
  BY DEF IInv, TypeOK
<1>5. KeysFollow'
  <2>1. CASE UNCHANGED status
    BY <1>1, <2>1 DEF Keyed, KeysFollow
  <2>2. CASE /\ \A x \in Orders \ {o} : status'[x] = status[x]
             /\ <<status[o], status'[o]>> \in
                  {<<"absent", "draft">>, <<"draft", "deleted">>,
                   <<"placed", "confirmed">>, <<"confirmed", "processing">>}
    BY <1>1, <1>3, <2>2 DEF Keyed, KeysFollow
  <2> QED BY <2>1, <2>2, OrderFacts
<1>6. Orderly'
  <2>1. CASE UNCHANGED <<status, refunded>>
    BY <1>1, <2>1 DEF Orderly, RightStatus
  <2>2. CASE /\ UNCHANGED refunded
             /\ \A x \in Orders \ {o} : status'[x] = status[x]
             /\ <<status[o], status'[o]>> \in
                  {<<"absent", "draft">>, <<"draft", "deleted">>,
                   <<"placed", "confirmed">>, <<"confirmed", "processing">>}
             /\ \A p \in Procs : o \in order[p] => task[p] = "restock"
    <3>1. \A p \in Procs : RightStatus(p)'
      BY <1>1, <1>2, <2>2 DEF Orderly, RightStatus
    <3>2. \A x \in refunded : status'[x] \notin {"absent", "draft", "deleted"}
      BY <1>4, <2>2 DEF Orderly
    <3> QED BY <1>1, <2>2, <3>1, <3>2 DEF Orderly
  <2>3. CASE /\ UNCHANGED status /\ refunded' = refunded \cup {o}
             /\ status[o] \notin {"absent", "draft", "deleted"}
    BY <1>1, <2>3 DEF Orderly, RightStatus
  <2> QED BY <2>1, <2>2, <2>3, OrderFacts
<1>7. Keyed'
  BY <1>1, <1>5 DEF Keyed, KeysAreNew, MovesItsWay
<1> QED BY <1>6, <1>7

(* Lives is about these variables only.                                    *)
LEMMA LivesStay ==
    ASSUME Lives,
           UNCHANGED <<keys, status, refunded, task, order, left, line, step, dHeld, dTaken, dKeys>>
    PROVE  Lives'
<1>1. Orderly'
  BY DEF Lives, Orderly, RightStatus
<1>2. Keyed'
  BY DEF Lives, Keyed, KeysFollow, KeysAreNew, MovesItsWay
<1> QED BY <1>1, <1>2 DEF Lives

(* A step of one transaction that commits nothing, seen from the others.   *)
LEMMA OthersLive ==
    ASSUME Lives, NEW p \in Procs, OthersStay(p), UNCHANGED <<keys, status, refunded>>,
           RightStatus(p)', KeysAreNew(p)', MovesItsWay(p)',
           \A q \in Procs : q # p /\ order'[p] \cap order[q] # {} =>
               task'[p] = "restock" \/ task[q] = "restock"
    PROVE  Lives'
<1>1. \A q \in Procs : q # p => RightStatus(q)' /\ KeysAreNew(q)' /\ MovesItsWay(q)'
  BY DEF Lives, Orderly, Keyed, OthersStay, RightStatus, KeysAreNew, MovesItsWay
<1>2. KeysFollow'
  BY DEF Lives, Keyed, KeysFollow
<1>3. Orderly'
  BY <1>1 DEF Lives, Orderly, OthersStay
<1> QED BY <1>1, <1>2, <1>3 DEF Lives, Keyed

LEMMA BeginAllowed ==
    ASSUME IInv, NEW p \in Procs, NEW o \in Orders,
           BeginPlace(p, o) \/ BeginCancel(p, o) \/ BeginFulfil(p, o) \/ BeginRestock(p, o)
    PROVE  \E what \in Tasks \ {"none"} :
               /\ Begin(p, o, what)
               /\ what = "place" => status[o] = "draft"
               /\ what = "cancel" => status[o] \in {"draft", "placed", "confirmed", "processing"}
               /\ what = "fulfil" => status[o] = "processing"
               /\ what = "restock" => o \in refunded
               /\ what # "restock" =>
                    \A q \in Procs : o \in order[q] => task[q] = "restock"
<1>1. OrderFree(o) => \A q \in Procs : o \in order[q] => task[q] = "restock"
  BY DEF IInv, Txns, Txn, IdleIsEmpty, OrderFree
<1>2. CASE BeginPlace(p, o)
  BY <1>1, <1>2 DEF BeginPlace, Tasks
<1>3. CASE BeginCancel(p, o)
  BY <1>1, <1>3 DEF BeginCancel, Tasks
<1>4. CASE BeginFulfil(p, o)
  BY <1>1, <1>4 DEF BeginFulfil, Tasks
<1>5. CASE BeginRestock(p, o)
  BY <1>5 DEF BeginRestock, Tasks
<1> QED BY <1>2, <1>3, <1>4, <1>5

LEMMA BeginLives ==
    ASSUME IInv, Lives, NEW p \in Procs, NEW o \in Orders,
           BeginPlace(p, o) \/ BeginCancel(p, o) \/ BeginFulfil(p, o) \/ BeginRestock(p, o)
    PROVE  Lives'
<1>1. PICK what \in Tasks \ {"none"} :
               /\ Begin(p, o, what)
               /\ what = "place" => status[o] = "draft"
               /\ what = "cancel" => status[o] \in {"draft", "placed", "confirmed", "processing"}
               /\ what = "fulfil" => status[o] = "processing"
               /\ what = "restock" => o \in refunded
               /\ what # "restock" =>
                    \A q \in Procs : o \in order[q] => task[q] = "restock"
  BY BeginAllowed
<1>2. /\ UNCHANGED <<rows, lives, admin>>
      /\ OthersStay(p)
      /\ task'[p] = what /\ order'[p] = {o}
      /\ dKeys'[p] = {}
      /\ \A i \in Items : dHeld'[p][i] = 0 /\ dTaken'[p][i] = 0
  BY <1>1, BeginFacts
<1>3. UNCHANGED <<keys, status, refunded>>
  BY <1>2 DEF rows, lives
<1>4. RightStatus(p)'
  BY <1>1, <1>2, <1>3 DEF RightStatus
<1>5. KeysAreNew(p)' /\ MovesItsWay(p)'
  BY <1>2 DEF KeysAreNew, MovesItsWay
<1> QED BY <1>1, <1>2, <1>3, <1>4, <1>5, OthersLive

LEMMA TurnLives ==
    ASSUME IInv, Lives, NEW p \in Procs, NEW l \in Lines, NEW to, NEW n, Turn(p, to, l, n),
           l \in left[p] \/ (line[p] = {l} /\ step[p] = "back" /\ to = "return") \/ to = "next",
           UNCHANGED <<rows, lives, admin, task, order, negative, locks, dHeld, dTaken, dKeys>>
    PROVE  Lives'
<1>1. /\ OthersStay(p)
      /\ step'[p] = to /\ line'[p] = (IF to = "next" THEN {} ELSE {l})
      /\ left'[p] = left[p] \ {l}
  BY TurnFacts
<1>2. UNCHANGED <<keys, status, refunded>>
  BY DEF rows, lives
<1>3. RightStatus(p)' /\ MovesItsWay(p)'
  BY <1>2 DEF Lives, Orderly, Keyed, RightStatus, MovesItsWay
<1>4. KeysAreNew(p)'
  <2>1. KeysAreNew(p)
    BY DEF Lives, Keyed
  <2> QED BY <1>1, <1>2, <2>1 DEF KeysAreNew
<1>5. \A q \in Procs : q # p /\ order'[p] \cap order[q] # {} =>
               task'[p] = "restock" \/ task[q] = "restock"
  BY DEF Lives, Orderly
<1> QED BY <1>1, <1>2, <1>3, <1>4, <1>5, OthersLive

LEMMA ReadLives ==
    ASSUME IInv, Lives, NEW p \in Procs, NEW o \in Orders, NEW l \in LinesOf(o),
           \/ ReadQuantity(p, o, l) \/ ReadHeld(p, o, l) \/ ReadNothingHeld(p, o, l)
           \/ ReadTaken(p, o, l) \/ ReadNothingTaken(p, o, l)
    PROVE  Lives'
<1>1. l \in Lines
  BY DEF LinesOf
<1>2. CASE ReadQuantity(p, o, l) \/ ReadHeld(p, o, l) \/ ReadNothingHeld(p, o, l)
  BY <1>1, <1>2, TurnLives DEF ReadQuantity, ReadHeld, ReadNothingHeld, AtLine
<1>3. CASE ReadTaken(p, o, l) \/ ReadNothingTaken(p, o, l)
  BY <1>1, <1>3, TurnLives DEF ReadTaken, ReadNothingTaken
<1> QED BY <1>2, <1>3

LEMMA MoveLives ==
    ASSUME IInv, Lives, NEW p \in Procs, NEW o \in Orders, NEW l \in LinesOf(o), Move(p, o, l)
    PROVE  Lives'
<1> DEFINE m == Movement(task[p], step[p])
           h == HeldDelta(m) * seen[p]
           t == TakenDelta(m) * seen[p]
<1>1. MoveEffect(p, o, l, m, h, t)
  BY MoveFacts
<1>2. task[p] # "none" /\ step[p] \in {"move", "return"}
  BY <1>1 DEF MoveEffect
<1>3. /\ m \in KindsOf(task[p])
      /\ task[p] # "restock" => step[p] = "move"
      /\ task[p] = "place" => h = seen[p] /\ t = 0
      /\ task[p] = "cancel" => h = -seen[p] /\ t = 0
      /\ task[p] = "fulfil" => h = -seen[p] /\ t = seen[p]
      /\ task[p] = "restock" /\ step[p] = "move" => m = "refund-release" /\ h = -seen[p] /\ t = 0
      /\ task[p] = "restock" /\ step[p] = "return" => m = "refund-return" /\ h = 0 /\ t = -seen[p]
  BY <1>2, MoveAmounts
<1> HIDE DEF m, h, t
<1>4. UNCHANGED <<keys, status, refunded>> /\ UNCHANGED <<task, order>>
  BY <1>1 DEF MoveEffect, rows, lives
<1>5. RightStatus(p)'
  BY <1>4 DEF Lives, Orderly, RightStatus
<1>6. KeysAreNew(p)'
  <2>1. KeysAreNew(p)
    BY DEF Lives, Keyed
  <2>2. /\ dKeys'[p] = dKeys[p] \cup {<<l, m>>} /\ line[p] = {l} /\ left'[p] = left[p] \ {l}
        /\ line'[p] = (IF AfterMove(p) = "next" THEN {} ELSE {l})
        /\ step'[p] = AfterMove(p) /\ <<l, m>> \notin keys
    BY <1>1 DEF MoveEffect
  <2>3. AfterMove(p) # "next" => AfterMove(p) = "back" /\ step[p] = "move" /\ task[p] = "restock"
    BY DEF AfterMove
  <2> QED BY <1>3, <1>4, <2>1, <2>2, <2>3 DEF KeysAreNew
<1>7. MovesItsWay(p)'
  <2>1. MovesItsWay(p)
    BY DEF Lives, Keyed
  <2>2. /\ dKeys'[p] = dKeys[p] \cup {<<l, m>>} /\ ItemOf[l] \in Items
        /\ dHeld'[p][ItemOf[l]] = dHeld[p][ItemOf[l]] + h
        /\ dTaken'[p][ItemOf[l]] = dTaken[p][ItemOf[l]] + t
        /\ \A j \in Items : j # ItemOf[l] => dHeld'[p][j] = dHeld[p][j] /\ dTaken'[p][j] = dTaken[p][j]
    BY <1>1 DEF MoveEffect
  <2>3. seen[p] \in Nat /\ dHeld[p] \in [Items -> Int] /\ dTaken[p] \in [Items -> Int]
    BY DEF IInv, TypeOK, Balances
  <2> SUFFICES ASSUME NEW i \in Items
               PROVE  /\ task[p] = "place" => dHeld'[p][i] >= 0 /\ dTaken'[p][i] = 0
                      /\ task[p] = "cancel" => dHeld'[p][i] <= 0 /\ dTaken'[p][i] = 0
                      /\ task[p] = "fulfil" => dTaken'[p][i] >= 0 /\ dHeld'[p][i] + dTaken'[p][i] = 0
                      /\ task[p] = "restock" =>
                          /\ dHeld'[p][i] <= 0 /\ dTaken'[p][i] <= 0
                          /\ dTaken'[p][i] # 0 =>
                              \E k \in dKeys'[p] : k[2] = "refund-return" /\ ItemOf[k[1]] = i
    BY <1>4 DEF MovesItsWay
  <2>4. CASE i # ItemOf[l]
    BY <2>1, <2>2, <2>4 DEF MovesItsWay
  <2>5. CASE i = ItemOf[l]
    <3>1. dHeld[p][i] \in Int /\ dTaken[p][i] \in Int
      BY <2>3
    <3>2. task[p] = "place" => dHeld'[p][i] >= 0 /\ dTaken'[p][i] = 0
      BY <1>3, <2>1, <2>2, <2>3, <2>5, <3>1 DEF MovesItsWay
    <3>3. task[p] = "cancel" => dHeld'[p][i] <= 0 /\ dTaken'[p][i] = 0
      BY <1>3, <2>1, <2>2, <2>3, <2>5, <3>1 DEF MovesItsWay
    <3>4. task[p] = "fulfil" => dTaken'[p][i] >= 0 /\ dHeld'[p][i] + dTaken'[p][i] = 0
      BY <1>3, <2>1, <2>2, <2>3, <2>5, <3>1 DEF MovesItsWay
    <3>5. task[p] = "restock" => dHeld'[p][i] <= 0 /\ dTaken'[p][i] <= 0
      BY <1>2, <1>3, <2>1, <2>2, <2>3, <2>5, <3>1 DEF MovesItsWay
    <3>6. task[p] = "restock" /\ dTaken'[p][i] # 0 =>
            \E k \in dKeys'[p] : k[2] = "refund-return" /\ ItemOf[k[1]] = i
      <4>1. SUFFICES ASSUME task[p] = "restock", dTaken'[p][i] # 0
                     PROVE  \E k \in dKeys'[p] : k[2] = "refund-return" /\ ItemOf[k[1]] = i
        OBVIOUS
      <4>2. CASE step[p] = "return"
        <5>1. <<l, m>> \in dKeys'[p] /\ <<l, m>>[1] = l /\ <<l, m>>[2] = "refund-return"
          BY <1>3, <2>2, <4>1, <4>2
        <5> QED BY <2>5, <5>1
      <4>3. CASE step[p] = "move"
        <5>1. dTaken[p][i] # 0
          BY <1>3, <2>2, <2>5, <3>1, <4>1, <4>3
        <5>2. PICK k \in dKeys[p] : k[2] = "refund-return" /\ ItemOf[k[1]] = i
          BY <2>1, <4>1, <5>1 DEF MovesItsWay
        <5> QED BY <2>2, <5>2
      <4> QED BY <1>2, <4>2, <4>3
    <3> QED BY <3>2, <3>3, <3>4, <3>5, <3>6
  <2> QED BY <2>4, <2>5
<1>8. \A q \in Procs : q # p /\ order'[p] \cap order[q] # {} =>
               task'[p] = "restock" \/ task[q] = "restock"
  BY <1>4 DEF Lives, Orderly
<1>9. OthersStay(p)
  BY <1>1 DEF MoveEffect
<1> QED BY <1>4, <1>5, <1>6, <1>7, <1>8, <1>9, OthersLive

LEMMA SkipLives ==
    ASSUME IInv, Lives, NEW p \in Procs, NEW o \in Orders, NEW l \in LinesOf(o),
           MoveAgain(p, o, l)
    PROVE  Lives'
<1>1. SkipEffect(p, o, l)
  BY SkipFacts
<1>2. /\ UNCHANGED <<keys, status, refunded, task, order, dHeld, dTaken, dKeys>> /\ OthersStay(p)
      /\ line[p] = {l} /\ step[p] \in {"move", "return"}
      /\ step'[p] = AfterMove(p) /\ line'[p] = (IF AfterMove(p) = "next" THEN {} ELSE {l})
      /\ left'[p] = left[p] \ {l}
  BY <1>1 DEF SkipEffect, rows, lives
<1>3. RightStatus(p)' /\ MovesItsWay(p)'
  BY <1>2 DEF Lives, Orderly, Keyed, RightStatus, MovesItsWay
<1>4. KeysAreNew(p)'
  <2>1. KeysAreNew(p)
    BY DEF Lives, Keyed
  <2>2. AfterMove(p) # "next" => step[p] = "move"
    BY DEF AfterMove
  <2> QED BY <1>2, <2>1, <2>2 DEF KeysAreNew
<1>5. \A q \in Procs : q # p /\ order'[p] \cap order[q] # {} =>
               task'[p] = "restock" \/ task[q] = "restock"
  BY <1>2 DEF Lives, Orderly
<1> QED BY <1>2, <1>3, <1>4, <1>5, OthersLive

LEMMA RollBackLives == ASSUME IInv, Lives, NEW p \in Procs, RollBack(p) PROVE Lives'
<1>1. Ended(p) /\ UNCHANGED <<keys, status, refunded>>
  BY RollBackFacts DEF rows, lives
<1>2. RightStatus(p)' /\ KeysAreNew(p)' /\ MovesItsWay(p)'
  BY <1>1 DEF Ended, RightStatus, KeysAreNew, MovesItsWay
<1> QED BY <1>1, <1>2, OthersLive DEF Ended

LEMMA CommitLives ==
    ASSUME IInv, Lives, NEW p \in Procs, NEW o \in Orders, Commit(p, o) PROVE Lives'
<1>1. CommitEffect(p, o)
  BY CommitFacts
<1>2. /\ Ended(p) /\ OthersStay(p) /\ task[p] # "none" /\ order[p] = {o} /\ UNCHANGED refunded
      /\ keys' = keys \cup dKeys[p] /\ status'[o] = NewStatus(task[p], status[o])
      /\ \A x \in Orders : x # o => status'[x] = status[x]
  BY <1>1 DEF CommitEffect, Ended
<1>3. RightStatus(p) /\ task[p] \in Tasks
  BY DEF Lives, Orderly, IInv, TypeOK
<1>4. /\ task[p] = "place" => status[o] = "draft" /\ status'[o] = "placed"
      /\ task[p] = "cancel" => /\ status[o] \in {"draft", "placed", "confirmed", "processing"}
                               /\ status'[o] = "cancelled"
      /\ task[p] = "fulfil" => status[o] = "processing" /\ status'[o] = "fulfilled"
      /\ task[p] = "restock" => o \in refunded /\ status'[o] = status[o]
  BY <1>2, <1>3 DEF RightStatus, NewStatus
<1>5. task[p] \in {"place", "cancel", "fulfil", "restock"}
  BY <1>2, <1>3 DEF Tasks
<1>6. KeysFollow'
  <2> SUFFICES ASSUME NEW k \in keys'
               PROVE  LET s == status'[OrderOf[k[1]]] IN
                      /\ k[2] = "reserve" => s \notin {"absent", "draft", "deleted"}
                      /\ k[2] = "release" => s = "cancelled"
                      /\ k[2] = "fulfill" => s = "fulfilled"
    BY DEF KeysFollow
  <2>1. CASE k \in dKeys[p]
    <3>1. OrderOf[k[1]] = o
      BY <1>2, <2>1, LineOfItem DEF LinesOf
    <3>2. k[2] \in KindsOf(task[p])
      BY <2>1 DEF Lives, Keyed, KeysAreNew
    <3> QED BY <1>4, <1>5, <3>1, <3>2 DEF KindsOf
  <2>2. CASE k \in keys
    <3>1. OrderOf[k[1]] \in Orders
      BY <2>2 DEF IInv, TypeOK, Keys
    <3>2. /\ k[2] = "reserve" => status[OrderOf[k[1]]] \notin {"absent", "draft", "deleted"}
          /\ k[2] = "release" => status[OrderOf[k[1]]] = "cancelled"
          /\ k[2] = "fulfill" => status[OrderOf[k[1]]] = "fulfilled"
      BY <2>2 DEF Lives, Keyed, KeysFollow
    <3> QED BY <1>2, <1>4, <1>5, <3>1, <3>2
  <2> QED BY <1>2, <2>1, <2>2
<1>7. \A q \in Procs : KeysAreNew(q)' /\ MovesItsWay(q)'
  <2> SUFFICES ASSUME NEW q \in Procs PROVE KeysAreNew(q)' /\ MovesItsWay(q)'
    OBVIOUS
  <2>1. CASE q = p
    BY <1>2, <2>1 DEF Ended, KeysAreNew, MovesItsWay
  <2>2. CASE q # p
    <3>1. \A k \in dKeys[q] : k \notin dKeys[p]
      BY <2>2 DEF IInv, Txns, Txn, WritesAreLocked, LocksExclude
    <3> QED BY <1>2, <2>2, <3>1 DEF Lives, Keyed, OthersStay, KeysAreNew, MovesItsWay
  <2> QED BY <2>1, <2>2
<1>8. \A q \in Procs : RightStatus(q)'
  <2> SUFFICES ASSUME NEW q \in Procs PROVE RightStatus(q)'
    OBVIOUS
  <2>1. CASE q = p
    BY <1>2, <2>1 DEF Ended, RightStatus
  <2>2. CASE q # p
    <3>1. RightStatus(q) /\ order[q] \subseteq Orders
      BY DEF Lives, Orderly, IInv, TypeOK
    <3>2. o \in order[q] => task[p] = "restock" \/ task[q] = "restock"
      BY <1>2, <2>2 DEF Lives, Orderly
    <3>3. order'[q] = order[q] /\ task'[q] = task[q]
      BY <1>2, <2>2 DEF OthersStay
    <3> SUFFICES ASSUME NEW x \in order[q]
                 PROVE  /\ task[q] = "place" => status'[x] = "draft"
                        /\ task[q] = "cancel" =>
                             status'[x] \in {"draft", "placed", "confirmed", "processing"}
                        /\ task[q] = "fulfil" => status'[x] = "processing"
                        /\ task[q] = "restock" => x \in refunded
      BY <1>2, <3>3 DEF RightStatus
    <3> QED BY <1>2, <1>4, <3>1, <3>2 DEF RightStatus
  <2> QED BY <2>1, <2>2
<1>9. \A x \in refunded' : status'[x] \notin {"absent", "draft", "deleted"}
  <2>1. \A x \in refunded : x \in Orders /\ status[x] \notin {"absent", "draft", "deleted"}
    BY DEF Lives, Orderly, IInv, TypeOK
  <2> QED BY <1>2, <1>4, <1>5, <2>1
<1>10. \A q, r \in Procs : q # r /\ order'[q] \cap order'[r] # {} =>
        task'[q] = "restock" \/ task'[r] = "restock"
  BY <1>2 DEF Lives, Orderly, Ended, OthersStay
<1> QED BY <1>6, <1>7, <1>8, <1>9, <1>10 DEF Lives, Orderly, Keyed

(***************************************************************************)
(* What an order holds.                                                    *)
(***************************************************************************)

LEMMA InitHolds == Init => Holds
  BY DEF Init, Holds, HoldsAreSound, GivesWhatIsHeld, Nothing

(* Holds is about these variables only.                                    *)
LEMMA HoldsStay ==
    ASSUME Holds, UNCHANGED <<held, task, order, step, line, seen, dHeld>>, refunded \subseteq refunded'
    PROVE  Holds'
  BY DEF Holds, HoldsAreSound, GivesWhatIsHeld, HeldSeen

LEMMA OthersHold ==
    ASSUME Holds, NEW p \in Procs, OthersStay(p), UNCHANGED <<held, refunded>>, GivesWhatIsHeld(p)'
    PROVE  Holds'
  BY DEF Holds, HoldsAreSound, GivesWhatIsHeld, OthersStay, HeldSeen

LEMMA BeginHolds ==
    ASSUME IInv, Holds, NEW p \in Procs, NEW o \in Orders, NEW what \in Tasks \ {"none"},
           Begin(p, o, what)
    PROVE  Holds'
<1>1. /\ UNCHANGED <<rows, lives, admin>> /\ OthersStay(p)
      /\ order'[p] = {o} /\ step'[p] = "next" /\ \A i \in Items : dHeld'[p][i] = 0
  BY BeginFacts
<1>2. UNCHANGED <<held, refunded>>
  BY <1>1 DEF rows, lives
<1>3. \A i \in Items : held[o][i] \in Int
  BY DEF IInv, TypeOK, Balances
<1>4. GivesWhatIsHeld(p)'
  BY <1>1, <1>2, <1>3 DEF Holds, HoldsAreSound, GivesWhatIsHeld, HeldSeen
<1> QED BY <1>1, <1>2, <1>4, OthersHold

LEMMA ReadHolds ==
    ASSUME IInv, Holds, NEW p \in Procs, NEW o \in Orders, NEW l \in LinesOf(o),
           \/ ReadQuantity(p, o, l) \/ ReadHeld(p, o, l) \/ ReadNothingHeld(p, o, l)
           \/ ReadTaken(p, o, l) \/ ReadNothingTaken(p, o, l)
    PROVE  Holds'
<1>1. l \in Lines /\ ItemOf[l] \in Items /\ Qty[l] \in Nat
  BY DEF LinesOf
<1>2. PICK to, n : Reading(p, o, l, to, n)
  BY ReadFacts
<1>3. /\ Turn(p, to, l, n) /\ order[p] = {o}
      /\ UNCHANGED <<rows, lives, admin, task, order, negative, locks, dHeld, dTaken, dKeys>>
  BY <1>2 DEF Reading
<1>4. /\ OthersStay(p) /\ step'[p] = to /\ line'[p] = (IF to = "next" THEN {} ELSE {l}) /\ seen'[p] = n
  BY <1>1, <1>2, <1>3, TurnFacts
<1>5. UNCHANGED <<held, refunded>>
  BY <1>3 DEF rows, lives
<1>6. GivesWhatIsHeld(p)'
  <2>1. GivesWhatIsHeld(p)
    BY DEF Holds
  <2>2. to = "move" /\ task[p] \in {"cancel", "fulfil"} => n <= HeldSeen(p, o, ItemOf[l])
    <3>1. HeldSeen(p, o, ItemOf[l]) \in Int
      BY <1>1 DEF IInv, TypeOK, Balances, HeldSeen
    <3>3. Smaller(HeldSeen(p, o, ItemOf[l]), Qty[l]) <= HeldSeen(p, o, ItemOf[l])
      BY <1>1, <3>1 DEF Smaller
    <3> QED BY <1>2, <3>3 DEF Reading
  <2> QED BY <1>3, <1>4, <1>5, <2>1, <2>2 DEF GivesWhatIsHeld, HeldSeen
<1> QED BY <1>4, <1>5, <1>6, OthersHold

LEMMA MoveHolds ==
    ASSUME IInv, Holds, NEW p \in Procs, NEW o \in Orders, NEW l \in LinesOf(o), Move(p, o, l)
    PROVE  Holds'
<1> DEFINE m == Movement(task[p], step[p])
           h == HeldDelta(m) * seen[p]
           t == TakenDelta(m) * seen[p]
           i == ItemOf[l]
<1>1. MoveEffect(p, o, l, m, h, t)
  BY MoveFacts
<1>2. task[p] \in Tasks \ {"none"} /\ step[p] \in {"move", "return"}
  BY <1>1 DEF MoveEffect, IInv, TypeOK
<1>3. /\ task[p] # "restock" => step[p] = "move"
      /\ task[p] = "place" => h = seen[p]
      /\ task[p] \in {"cancel", "fulfil"} => h = -seen[p]
  BY <1>2, MoveAmounts
<1> HIDE DEF m, h, t
<1>4. UNCHANGED <<held, refunded, task, order>> /\ OthersStay(p)
  BY <1>1 DEF MoveEffect, rows, lives
<1>5. /\ order[p] = {o} /\ line[p] = {l} /\ i \in Items
      /\ step'[p] = AfterMove(p)
      /\ dHeld'[p][i] = dHeld[p][i] + h
      /\ \A j \in Items : j # i => dHeld'[p][j] = dHeld[p][j]
  BY <1>1 DEF MoveEffect
<1>6. AfterMove(p) # "move"
  BY DEF AfterMove
<1>7. GivesWhatIsHeld(p)'
  <2>1. GivesWhatIsHeld(p)
    BY DEF Holds
  <2> SUFFICES ASSUME task[p] # "restock", o \notin refunded, NEW j \in Items
               PROVE  held[o][j] + dHeld'[p][j] >= 0
    BY <1>4, <1>5, <1>6 DEF GivesWhatIsHeld, HeldSeen
  <2>2. held[o][j] + dHeld[p][j] >= 0
    BY <1>5, <2>1 DEF GivesWhatIsHeld, HeldSeen
  <2>3. CASE j # i
    BY <1>5, <2>2, <2>3
  <2>4. CASE j = i
    <3>1. held[o][i] \in Int /\ dHeld[p][i] \in Int /\ seen[p] \in Nat
      BY <1>5 DEF IInv, TypeOK, Balances
    <3>2. task[p] \in {"cancel", "fulfil"} => seen[p] <= held[o][i] + dHeld[p][i]
      BY <1>3, <1>5, <2>1 DEF GivesWhatIsHeld, HeldSeen
    <3> HIDE DEF i
    <3>3. CASE task[p] = "place"
      BY <1>3, <1>5, <2>2, <2>4, <3>1, <3>3
    <3>4. CASE task[p] \in {"cancel", "fulfil"}
      BY <1>3, <1>5, <2>4, <3>1, <3>2, <3>4
    <3> QED BY <1>2, <3>3, <3>4 DEF Tasks
  <2> QED BY <2>3, <2>4
<1> QED BY <1>4, <1>7, OthersHold

LEMMA SkipHolds ==
    ASSUME IInv, Holds, NEW p \in Procs, NEW o \in Orders, NEW l \in LinesOf(o),
           MoveAgain(p, o, l)
    PROVE  Holds'
<1>1. SkipEffect(p, o, l)
  BY SkipFacts
<1>2. UNCHANGED <<held, refunded, task, order, dHeld>> /\ OthersStay(p) /\ step'[p] = AfterMove(p)
  BY <1>1 DEF SkipEffect, rows, lives
<1>3. AfterMove(p) # "move"
  BY DEF AfterMove
<1>4. GivesWhatIsHeld(p)'
  BY <1>2, <1>3 DEF Holds, GivesWhatIsHeld, HeldSeen
<1> QED BY <1>2, <1>4, OthersHold

LEMMA RollBackHolds == ASSUME IInv, Holds, NEW p \in Procs, RollBack(p) PROVE Holds'
<1>1. Ended(p) /\ UNCHANGED <<held, refunded>>
  BY RollBackFacts DEF rows, lives
<1>2. GivesWhatIsHeld(p)'
  BY <1>1 DEF Ended, GivesWhatIsHeld
<1> QED BY <1>1, <1>2, OthersHold DEF Ended

LEMMA CommitHolds ==
    ASSUME IInv, Lives, Holds, NEW p \in Procs, NEW o \in Orders, Commit(p, o) PROVE Holds'
<1>1. CommitEffect(p, o)
  BY CommitFacts
<1>2. /\ Ended(p) /\ OthersStay(p) /\ order[p] = {o} /\ UNCHANGED refunded
      /\ \A i \in Items : held'[o][i] = held[o][i] + dHeld[p][i]
      /\ \A x \in Orders : x # o => held'[x] = held[x]
  BY <1>1 DEF CommitEffect, Ended
<1>3. task[p] = "restock" => o \in refunded
  BY <1>2 DEF Lives, Orderly, RightStatus
<1>4. HoldsAreSound'
  BY <1>2, <1>3 DEF Holds, HoldsAreSound, GivesWhatIsHeld, HeldSeen
<1>5. ASSUME NEW q \in Procs PROVE GivesWhatIsHeld(q)'
  <2>1. CASE q = p
    BY <1>2, <2>1 DEF Ended, GivesWhatIsHeld
  <2>2. CASE q # p
    <3>1. \A x \in order[q] \ refunded : task[q] # "restock" => x \in Orders /\ x # o
      BY <1>2, <1>3, <2>2 DEF Lives, Orderly, IInv, TypeOK
    <3>2. GivesWhatIsHeld(q)
      BY DEF Holds
    <3> QED BY <1>2, <2>2, <3>1, <3>2 DEF GivesWhatIsHeld, OthersStay, HeldSeen
  <2> QED BY <2>1, <2>2
<1> QED BY <1>4, <1>5 DEF Holds

(***************************************************************************)
(* What it holds and has taken was reserved.                               *)
(***************************************************************************)

(* What the keys in K say was reserved is a number, and no more than what  *)
(* a larger set says or what was ordered.                                  *)
LEMMA Reserved ==
    ASSUME NEW o, NEW i, NEW K, NEW L, K \subseteq L
    PROVE  /\ IsFiniteSet(ReservedIn(o, i, K))
           /\ \A l \in ReservedIn(o, i, K) : Qty[l] \in Nat
           /\ Over(ReservedIn(o, i, K), Qty) \in Nat
           /\ Over(ReservedIn(o, i, K), Qty) <= Over(ReservedIn(o, i, L), Qty)
           /\ Over(ReservedIn(o, i, K), Qty) <= Ordered(o, i)
<1> DEFINE A == ReservedIn(o, i, K)
           B == ReservedIn(o, i, L)
           C == LinesFor(o, i)
<1>1. A \subseteq B /\ B \subseteq C /\ A \subseteq Lines /\ B \subseteq Lines /\ C \subseteq Lines
  BY DEF ReservedIn, LinesFor, LinesOf
<1>2. \A l \in Lines : Qty[l] \in Nat
  OBVIOUS
<1> HIDE DEF A, B, C
<1>3. IsFiniteSet(A) /\ IsFiniteSet(B) /\ IsFiniteSet(C)
  BY <1>1, FS_Subset
<1>4. (\A l \in A : Qty[l] \in Nat) /\ (\A l \in B : Qty[l] \in Nat) /\ (\A l \in C : Qty[l] \in Nat)
  BY <1>1, <1>2
<1>5. Over(A, Qty) \in Nat
  BY <1>3, <1>4, SumIsNat
<1>6. Over(A, Qty) <= Over(B, Qty)
  BY <1>1, <1>3, <1>4, SumOfPart
<1>7. Over(A, Qty) <= Over(C, Qty)
  BY <1>1, <1>3, <1>4, SumOfPart
<1> QED BY <1>3, <1>4, <1>5, <1>6, <1>7 DEF A, B, C, Ordered

LEMMA InitReservations == Init => Reservations
<1> SUFFICES ASSUME Init PROVE Reservations
  OBVIOUS
<1>1. \A o \in Orders, i \in Items : held[o][i] = 0 /\ taken[o][i] = 0
  BY DEF Init, Nothing
<1>2. \A o \in Orders, i \in Items : 0 <= Over(ReservedIn(o, i, keys), Qty)
  BY Reserved
<1> QED BY <1>1, <1>2 DEF Init, Reservations, AsksForTheLine

(* Reservations is about these variables only.                             *)
LEMMA ReservationsStay ==
    ASSUME Reservations, UNCHANGED <<held, taken, keys, task, order, step, line, seen, dHeld, dTaken, dKeys>>
    PROVE  Reservations'
  BY DEF Reservations, AsksForTheLine, HeldSeen, TakenSeen, ReservedIn, LinesFor, LinesOf

LEMMA OthersReserve ==
    ASSUME Reservations, NEW p \in Procs, OthersStay(p), UNCHANGED <<held, taken, keys>>,
           AsksForTheLine(p)'
    PROVE  Reservations'
<1>1. ASSUME NEW q \in Procs, q # p PROVE AsksForTheLine(q)'
  <2>1. UNCHANGED <<task[q], order[q], step[q], line[q], seen[q], dHeld[q], dTaken[q], dKeys[q]>>
    BY <1>1 DEF OthersStay
  <2>2. AsksForTheLine(q)
    BY DEF Reservations
  <2>3. ASSUME task[q] = "place", NEW o \in order[q], NEW i \in Items
        PROVE  held'[o][i] + dHeld'[q][i] + (taken'[o][i] + dTaken'[q][i])
                  <= Over(ReservedIn(o, i, keys' \cup dKeys'[q]), Qty)
    <3>1. held[o][i] + dHeld[q][i] + (taken[o][i] + dTaken[q][i])
                  <= Over(ReservedIn(o, i, keys \cup dKeys[q]), Qty)
      BY <2>2, <2>3 DEF AsksForTheLine, HeldSeen, TakenSeen
    <3> QED BY <2>1, <3>1
  <2> QED BY <2>1, <2>2, <2>3 DEF AsksForTheLine, HeldSeen, TakenSeen, ReservedIn, LinesFor, LinesOf
<1>2. (\A o \in Orders, i \in Items : held[o][i] + taken[o][i] <= Over(ReservedIn(o, i, keys), Qty))'
  BY DEF Reservations, ReservedIn, LinesFor, LinesOf
<1> QED BY <1>1, <1>2 DEF Reservations

LEMMA BeginReserves ==
    ASSUME IInv, Reservations, NEW p \in Procs, NEW o \in Orders, NEW what \in Tasks \ {"none"},
           Begin(p, o, what)
    PROVE  Reservations'
<1>1. /\ UNCHANGED <<rows, lives, admin>> /\ OthersStay(p)
      /\ order'[p] = {o} /\ step'[p] = "next" /\ dKeys'[p] = {}
      /\ \A i \in Items : dHeld'[p][i] = 0 /\ dTaken'[p][i] = 0
  BY BeginFacts
<1>2. UNCHANGED <<held, taken, keys>>
  BY <1>1 DEF rows
<1>3. \A i \in Items : held[o][i] \in Int /\ taken[o][i] \in Int
  BY DEF IInv, TypeOK, Balances
<1>4. keys' \cup dKeys'[p] = keys
  BY <1>1, <1>2
<1>5. AsksForTheLine(p)'
  BY <1>1, <1>2, <1>3, <1>4 DEF Reservations, AsksForTheLine, HeldSeen, TakenSeen, ReservedIn,
                                LinesFor, LinesOf
<1> QED BY <1>1, <1>2, <1>5, OthersReserve

LEMMA ReadReserves ==
    ASSUME IInv, Reservations, NEW p \in Procs, NEW o \in Orders, NEW l \in LinesOf(o),
           \/ ReadQuantity(p, o, l) \/ ReadHeld(p, o, l) \/ ReadNothingHeld(p, o, l)
           \/ ReadTaken(p, o, l) \/ ReadNothingTaken(p, o, l)
    PROVE  Reservations'
<1>1. l \in Lines
  BY DEF LinesOf
<1>2. PICK to, n : Reading(p, o, l, to, n)
  BY ReadFacts
<1>3. Turn(p, to, l, n) /\ (task[p] = "place" => n = Qty[l])
  BY <1>2 DEF Reading
<1>4. UNCHANGED <<rows, lives, admin, task, order, negative, locks, dHeld, dTaken, dKeys>>
  BY <1>2 DEF Reading
<1>5. OthersStay(p) /\ step'[p] = to /\ line'[p] = (IF to = "next" THEN {} ELSE {l}) /\ seen'[p] = n
  <2>1. UNCHANGED <<task, order, negative, locks, dHeld, dTaken, dKeys>>
    BY ONLY <1>4
  <2>2. Turn(p, to, l, n)
    BY <1>3
  <2>3. /\ OthersStay(p)
        /\ step'[p] = to /\ line'[p] = (IF to = "next" THEN {} ELSE {l})
        /\ left'[p] = left[p] \ {l} /\ seen'[p] = n
    BY ONLY <1>1, <2>1, <2>2, IInv, p \in Procs, TurnFacts
  <2> QED BY <2>3
<1>6. UNCHANGED <<held, taken, keys>>
  BY <1>4 DEF rows
<1>7. AsksForTheLine(p)'
  <2>1. UNCHANGED <<task, order, dHeld, dTaken, dKeys>>
    BY ONLY <1>4
  <2>2. AsksForTheLine(p)
    BY DEF Reservations
  <2>3. task[p] = "place" => \A k \in line'[p] : seen'[p] = Qty[k]
    BY <1>3, <1>5
  <2>4. ASSUME task[p] = "place", NEW x \in order[p], NEW i \in Items
        PROVE  HeldSeen(p, x, i)' + TakenSeen(p, x, i)'
                  <= Over(ReservedIn(x, i, keys \cup dKeys[p])', Qty)
    <3>1. HeldSeen(p, x, i) + TakenSeen(p, x, i) <= Over(ReservedIn(x, i, keys \cup dKeys[p]), Qty)
      BY <2>2, <2>4 DEF AsksForTheLine
    <3>2. HeldSeen(p, x, i)' = HeldSeen(p, x, i) /\ TakenSeen(p, x, i)' = TakenSeen(p, x, i)
      BY <1>6, <2>1 DEF HeldSeen, TakenSeen
    <3>3. ReservedIn(x, i, keys \cup dKeys[p])' = ReservedIn(x, i, keys \cup dKeys[p])
      BY <1>6, <2>1 DEF ReservedIn, LinesFor, LinesOf
    <3> QED BY <3>1, <3>2, <3>3
  <2> QED BY <2>1, <2>3, <2>4 DEF AsksForTheLine
<1> QED BY <1>5, <1>6, <1>7, OthersReserve

LEMMA MoveReserves ==
    ASSUME IInv, Reservations, NEW p \in Procs, NEW o \in Orders, NEW l \in LinesOf(o),
           Move(p, o, l)
    PROVE  Reservations'
<1> DEFINE m == Movement(task[p], step[p])
           h == HeldDelta(m) * seen[p]
           t == TakenDelta(m) * seen[p]
           i == ItemOf[l]
<1>1. MoveEffect(p, o, l, m, h, t)
  BY MoveFacts
<1>2. task[p] # "none" /\ step[p] \in {"move", "return"}
  BY <1>1 DEF MoveEffect
<1>3. task[p] = "place" => step[p] = "move" /\ m = "reserve" /\ h = seen[p] /\ t = 0
  BY <1>2, MoveAmounts
<1> HIDE DEF m, h, t
<1>4. UNCHANGED <<held, taken, keys, task, order>> /\ OthersStay(p)
  BY <1>1 DEF MoveEffect, rows
<1>5. /\ order[p] = {o} /\ line[p] = {l} /\ l \in Lines /\ i \in Items
      /\ step'[p] = AfterMove(p)
      /\ <<l, m>> \notin keys /\ <<l, m>> \notin dKeys[p]
      /\ dKeys'[p] = dKeys[p] \cup {<<l, m>>}
      /\ dHeld'[p][i] = dHeld[p][i] + h /\ dTaken'[p][i] = dTaken[p][i] + t
      /\ \A j \in Items : j # i => dHeld'[p][j] = dHeld[p][j] /\ dTaken'[p][j] = dTaken[p][j]
  BY <1>1 DEF MoveEffect
<1>6. AfterMove(p) # "move"
  BY DEF AfterMove
<1>7. ASSUME task[p] = "place", NEW j \in Items
      PROVE  held[o][j] + dHeld'[p][j] + (taken[o][j] + dTaken'[p][j])
                <= Over(ReservedIn(o, j, keys \cup dKeys'[p]), Qty)
  <2> DEFINE A == ReservedIn(o, j, keys \cup dKeys[p])
             B == ReservedIn(o, j, keys \cup dKeys'[p])
  <2>1. held[o][j] + dHeld[p][j] + (taken[o][j] + dTaken[p][j]) <= Over(A, Qty)
    BY <1>5, <1>7 DEF Reservations, AsksForTheLine, HeldSeen, TakenSeen
  <2>2. CASE j # i
    <3>1. A = B
      BY <1>5, <2>2 DEF ReservedIn, LinesFor
    <3> QED BY <1>5, <2>1, <2>2, <3>1
  <2>3. CASE j = i
    <3>1. B = A \cup {l} /\ l \notin A
      BY <1>3, <1>5, <1>7, <2>3 DEF ReservedIn, LinesFor
    <3>2. IsFiniteSet(A) /\ (\A x \in A : Qty[x] \in Nat) /\ Over(A, Qty) \in Nat
      BY Reserved
    <3>3. Qty[l] \in Nat /\ seen[p] = Qty[l]
      BY <1>3, <1>5, <1>7 DEF Reservations, AsksForTheLine
    <3> HIDE DEF A, B
    <3>4. Over(B, Qty) = Qty[l] + Over(A, Qty)
      BY <3>1, <3>2, <3>3, SumWith
    <3>5. /\ held[o][j] \in Int /\ dHeld[p][j] \in Int /\ taken[o][j] \in Int /\ dTaken[p][j] \in Int
      BY DEF IInv, TypeOK, Balances
    <3>6. dHeld'[p][j] = dHeld[p][j] + Qty[l] /\ dTaken'[p][j] = dTaken[p][j]
      BY <1>3, <1>5, <1>7, <2>3, <3>3, <3>5
    <3> QED BY <2>1, <3>2, <3>3, <3>4, <3>5, <3>6 DEF A, B
  <2> QED BY <2>2, <2>3
<1>8. AsksForTheLine(p)'
  BY <1>4, <1>5, <1>6, <1>7 DEF AsksForTheLine, HeldSeen, TakenSeen, ReservedIn, LinesFor, LinesOf
<1> QED BY <1>4, <1>8, OthersReserve

LEMMA SkipReserves ==
    ASSUME IInv, Reservations, NEW p \in Procs, NEW o \in Orders, NEW l \in LinesOf(o),
           MoveAgain(p, o, l)
    PROVE  Reservations'
<1>1. SkipEffect(p, o, l)
  BY SkipFacts
<1>2. /\ UNCHANGED <<held, taken, keys, task, order, dHeld, dTaken, dKeys>> /\ OthersStay(p)
      /\ step'[p] = AfterMove(p)
  BY <1>1 DEF SkipEffect, rows
<1>3. AfterMove(p) # "move"
  BY DEF AfterMove
<1>4. AsksForTheLine(p)'
  BY <1>2, <1>3 DEF Reservations, AsksForTheLine, HeldSeen, TakenSeen, ReservedIn, LinesFor, LinesOf
<1> QED BY <1>2, <1>4, OthersReserve

LEMMA RollBackReserves ==
    ASSUME IInv, Reservations, NEW p \in Procs, RollBack(p) PROVE Reservations'
<1>1. Ended(p) /\ UNCHANGED <<held, taken, keys>>
  BY RollBackFacts DEF rows
<1>2. AsksForTheLine(p)'
  BY <1>1 DEF Ended, AsksForTheLine
<1> QED BY <1>1, <1>2, OthersReserve DEF Ended

LEMMA CommitReserves ==
    ASSUME IInv, Lives, Reservations, NEW p \in Procs, NEW o \in Orders, Commit(p, o)
    PROVE  Reservations'
<1>1. CommitEffect(p, o)
  BY CommitFacts
<1>2. /\ Ended(p) /\ OthersStay(p) /\ order[p] = {o} /\ task[p] # "none"
      /\ \A i \in Items : /\ held'[o][i] = held[o][i] + dHeld[p][i]
                          /\ taken'[o][i] = taken[o][i] + dTaken[p][i]
      /\ \A x \in Orders : x # o => held'[x] = held[x] /\ taken'[x] = taken[x]
      /\ keys' = keys \cup dKeys[p]
  BY <1>1 DEF CommitEffect, Ended
<1>3. \A x \in Orders, i \in Items : held[x][i] \in Int /\ taken[x][i] \in Int
  BY DEF IInv, TypeOK, Balances
<1>4. ASSUME NEW x \in Orders, NEW i \in Items
      PROVE  held'[x][i] + taken'[x][i] <= Over(ReservedIn(x, i, keys'), Qty)
  <2>1. /\ Over(ReservedIn(x, i, keys), Qty) \in Nat /\ Over(ReservedIn(x, i, keys'), Qty) \in Nat
        /\ Over(ReservedIn(x, i, keys), Qty) <= Over(ReservedIn(x, i, keys'), Qty)
    BY <1>2, Reserved
  <2> DEFINE a == Over(ReservedIn(x, i, keys), Qty)
             b == Over(ReservedIn(x, i, keys'), Qty)
  <2>2. held[x][i] + taken[x][i] <= a
    BY DEF Reservations
  <2>3. CASE x # o
    <3> HIDE DEF b
    <3> QED BY <1>2, <1>3, <2>1, <2>2, <2>3 DEF b
  <2>4. CASE x = o /\ task[p] = "place"
    <3>1. held[o][i] + dHeld[p][i] + (taken[o][i] + dTaken[p][i])
            <= Over(ReservedIn(o, i, keys \cup dKeys[p]), Qty)
      BY <1>2, <2>4 DEF Reservations, AsksForTheLine, HeldSeen, TakenSeen
    <3> QED BY <1>2, <2>4, <3>1
  <2>5. CASE x = o /\ task[p] # "place"
    <3>1. task[p] \in Tasks /\ dHeld[p][i] \in Int /\ dTaken[p][i] \in Int
      BY DEF IInv, TypeOK, Balances
    <3>2. dHeld[p][i] + dTaken[p][i] <= 0
      BY <1>2, <2>5, <3>1 DEF Lives, Keyed, MovesItsWay, Tasks
    <3>3. held'[x][i] = held[x][i] + dHeld[p][i] /\ taken'[x][i] = taken[x][i] + dTaken[p][i]
      BY <1>2, <2>5
    <3> HIDE DEF a, b
    <3>4. held[x][i] + dHeld[p][i] + (taken[x][i] + dTaken[p][i]) <= b
      BY <1>3, <2>1, <2>2, <3>1, <3>2 DEF a, b
    <3> QED BY <3>3, <3>4 DEF b
  <2> QED BY <2>3, <2>4, <2>5
<1>5. ASSUME NEW q \in Procs PROVE AsksForTheLine(q)'
  <2>1. CASE q = p
    BY <1>2, <2>1 DEF Ended, AsksForTheLine
  <2>2. CASE q # p
    <3>1. AsksForTheLine(q) /\ RightStatus(q) /\ RightStatus(p)
      BY DEF Reservations, Lives, Orderly
    <3>2. task[q] = "place" => o \notin order[q]
      <4>1. SUFFICES ASSUME task[q] = "place", o \in order[q] PROVE FALSE
        OBVIOUS
      <4>2. task[p] = "restock"
        BY <1>2, <2>2, <4>1 DEF Lives, Orderly
      <4>3. o \in refunded
        BY <1>2, <3>1, <4>2 DEF RightStatus
      <4>4. status[o] = "draft"
        BY <3>1, <4>1 DEF RightStatus
      <4> QED BY <4>3, <4>4 DEF Lives, Orderly
    <3>3. UNCHANGED <<task[q], order[q], step[q], line[q], seen[q], dHeld[q], dTaken[q], dKeys[q]>>
      BY <1>2, <2>2 DEF OthersStay
    <3>4. ASSUME task[q] = "place", NEW x \in order[q], NEW i \in Items
          PROVE  held'[x][i] + dHeld[q][i] + (taken'[x][i] + dTaken[q][i])
                    <= Over(ReservedIn(x, i, keys' \cup dKeys[q]), Qty)
      <4>1. x \in Orders /\ x # o
        BY <3>2, <3>4 DEF IInv, TypeOK
      <4>2. held'[x] = held[x] /\ taken'[x] = taken[x]
        BY <1>2, <4>1
      <4> DEFINE a == Over(ReservedIn(x, i, keys \cup dKeys[q]), Qty)
                 b == Over(ReservedIn(x, i, keys' \cup dKeys[q]), Qty)
      <4>3. held[x][i] + dHeld[q][i] + (taken[x][i] + dTaken[q][i]) <= a
        BY <3>1, <3>4 DEF AsksForTheLine, HeldSeen, TakenSeen
      <4>4. a \in Nat /\ b \in Nat /\ a <= b
        <5>1. keys \cup dKeys[q] \subseteq keys' \cup dKeys[q]
          BY <1>2
        <5> QED BY <5>1, Reserved
      <4>5. dHeld[q][i] \in Int /\ dTaken[q][i] \in Int /\ held[x][i] \in Int /\ taken[x][i] \in Int
        BY <4>1 DEF IInv, TypeOK, Balances
      <4> HIDE DEF a, b
      <4>6. held[x][i] + dHeld[q][i] + (taken[x][i] + dTaken[q][i]) <= b
        BY <4>3, <4>4, <4>5
      <4> QED BY <4>2, <4>6 DEF b
    <3> QED BY <3>1, <3>3, <3>4 DEF AsksForTheLine, HeldSeen, TakenSeen, ReservedIn, LinesFor, LinesOf
  <2> QED BY <2>1, <2>2
<1>6. (\A x \in Orders, i \in Items : held[x][i] + taken[x][i] <= Over(ReservedIn(x, i, keys), Qty))'
  BY <1>4 DEF ReservedIn, LinesFor, LinesOf
<1>7. \A q \in Procs : AsksForTheLine(q)'
  BY <1>5
<1> QED BY <1>6, <1>7 DEF Reservations

(***************************************************************************)
(* What is put back was taken.                                             *)
(***************************************************************************)

LEMMA InitReturns == Init => Returns
  BY DEF Init, Returns, ReturnsOnce, Nothing

(* Returns is about these variables only.                                  *)
LEMMA ReturnsStay ==
    ASSUME Returns, UNCHANGED <<taken, keys, order, step, line, seen, dTaken>>
    PROVE  Returns'
  BY DEF Returns, ReturnsOnce, TakenSeen, OneLine, LinesFor, LinesOf

LEMMA OthersReturn ==
    ASSUME Returns, NEW p \in Procs, OthersStay(p), UNCHANGED <<taken, keys>>, ReturnsOnce(p)'
    PROVE  Returns'
<1>1. ASSUME NEW q \in Procs, q # p PROVE ReturnsOnce(q)'
  <2>1. UNCHANGED <<order[q], step[q], line[q], seen[q], dTaken[q]>>
    BY <1>1 DEF OthersStay
  <2> QED BY <2>1 DEF Returns, ReturnsOnce, TakenSeen, OneLine, LinesFor, LinesOf
<1>2. (\A o \in Orders, i \in Items : OneLine(o, i) => taken[o][i] >= 0)'
  BY DEF Returns, OneLine, LinesFor, LinesOf
<1> QED BY <1>1, <1>2 DEF Returns

LEMMA BeginReturns ==
    ASSUME IInv, Returns, NEW p \in Procs, NEW o \in Orders, NEW what \in Tasks \ {"none"},
           Begin(p, o, what)
    PROVE  Returns'
<1>1. /\ UNCHANGED <<rows, lives, admin>> /\ OthersStay(p)
      /\ order'[p] = {o} /\ step'[p] = "next" /\ \A i \in Items : dTaken'[p][i] = 0
  BY BeginFacts
<1>2. UNCHANGED <<taken, keys>>
  BY <1>1 DEF rows
<1>3. \A i \in Items : taken[o][i] \in Int
  BY DEF IInv, TypeOK, Balances
<1>4. ReturnsOnce(p)'
  BY <1>1, <1>2, <1>3 DEF Returns, ReturnsOnce, TakenSeen, OneLine, LinesFor, LinesOf
<1> QED BY <1>1, <1>2, <1>4, OthersReturn

LEMMA ReadReturns ==
    ASSUME IInv, Lives, Returns, NEW p \in Procs, NEW o \in Orders, NEW l \in LinesOf(o),
           \/ ReadQuantity(p, o, l) \/ ReadHeld(p, o, l) \/ ReadNothingHeld(p, o, l)
           \/ ReadTaken(p, o, l) \/ ReadNothingTaken(p, o, l)
    PROVE  Returns'
<1>1. l \in Lines /\ ItemOf[l] \in Items /\ Qty[l] \in Nat
  BY DEF LinesOf
<1>2. PICK to, n : Reading(p, o, l, to, n)
  BY ReadFacts
<1>3. /\ Turn(p, to, l, n) /\ order[p] = {o}
      /\ UNCHANGED <<rows, lives, admin, task, order, negative, locks, dHeld, dTaken, dKeys>>
      /\ to = "return" => task[p] = "restock" /\ n = Smaller(TakenSeen(p, o, ItemOf[l]), Qty[l])
  BY <1>2 DEF Reading
<1>4. OthersStay(p) /\ step'[p] = to /\ line'[p] = (IF to = "next" THEN {} ELSE {l}) /\ seen'[p] = n
  BY <1>1, <1>3, TurnFacts
<1>5. UNCHANGED <<taken, keys>>
  BY <1>3 DEF rows
<1>6. to = "return" => n <= taken[o][ItemOf[l]]
  <2>1. taken[o][ItemOf[l]] \in Int /\ dTaken[p][ItemOf[l]] \in Int
    BY <1>1 DEF IInv, TypeOK, Balances
  <2>2. task[p] = "restock" => dTaken[p][ItemOf[l]] <= 0
    BY <1>1 DEF Lives, Keyed, MovesItsWay
  <2> QED BY <1>1, <1>3, <2>1, <2>2 DEF Smaller, TakenSeen
<1>7. ReturnsOnce(p)'
  <2>1. ReturnsOnce(p)
    BY DEF Returns
  <2>2. \A i \in Items : OneLine(o, i) => taken[o][i] + dTaken[p][i] >= 0
    BY <1>3, <2>1 DEF ReturnsOnce, TakenSeen
  <2> QED BY <1>3, <1>4, <1>5, <1>6, <2>2 DEF ReturnsOnce, TakenSeen, OneLine, LinesFor, LinesOf
<1> QED BY <1>4, <1>5, <1>7, OthersReturn

(* A restock that has put an item's only line back will not do so again.   *)
LEMMA NotReturned ==
    ASSUME IInv, Lives, NEW p \in Procs, NEW o \in Orders, order[p] = {o},
           task[p] = "restock", NEW i \in Items, OneLine(o, i),
           NEW l \in LinesOf(o), ItemOf[l] = i, <<l, "refund-return">> \notin dKeys[p]
    PROVE  dTaken[p][i] = 0
<1> SUFFICES ASSUME dTaken[p][i] # 0 PROVE FALSE
  OBVIOUS
<1>1. PICK k \in dKeys[p] : k[2] = "refund-return" /\ ItemOf[k[1]] = i
  BY DEF Lives, Keyed, MovesItsWay
<1>2. k[1] \in LinesOf(o)
  BY <1>1, LineOfItem
<1>3. k[1] = l
  BY <1>1, <1>2 DEF OneLine, LinesFor
<1>4. k = <<k[1], k[2]>>
  BY <1>1 DEF IInv, TypeOK, Keys
<1> QED BY <1>1, <1>3, <1>4

LEMMA MoveReturns ==
    ASSUME IInv, Lives, Returns, NEW p \in Procs, NEW o \in Orders, NEW l \in LinesOf(o),
           Move(p, o, l)
    PROVE  Returns'
<1> DEFINE m == Movement(task[p], step[p])
           h == HeldDelta(m) * seen[p]
           t == TakenDelta(m) * seen[p]
           i == ItemOf[l]
<1>1. MoveEffect(p, o, l, m, h, t)
  BY MoveFacts
<1>2. task[p] \in Tasks \ {"none"} /\ step[p] \in {"move", "return"}
  BY <1>1 DEF MoveEffect, IInv, TypeOK
<1>3. /\ task[p] # "restock" => step[p] = "move"
      /\ task[p] \in {"place", "cancel"} => t = 0
      /\ task[p] = "fulfil" => t = seen[p]
      /\ task[p] = "restock" /\ step[p] = "move" => t = 0
      /\ task[p] = "restock" /\ step[p] = "return" => m = "refund-return" /\ t = -seen[p]
  BY <1>2, MoveAmounts
<1> HIDE DEF m, h, t
<1>4. UNCHANGED <<taken, keys, order>> /\ OthersStay(p)
  BY <1>1 DEF MoveEffect, rows
<1>5. /\ order[p] = {o} /\ line[p] = {l} /\ i \in Items
      /\ step'[p] = AfterMove(p)
      /\ <<l, m>> \notin keys /\ <<l, m>> \notin dKeys[p]
      /\ dTaken'[p][i] = dTaken[p][i] + t
      /\ \A j \in Items : j # i => dTaken'[p][j] = dTaken[p][j]
  BY <1>1 DEF MoveEffect
<1>6. AfterMove(p) # "return"
  BY DEF AfterMove
<1>7. ReturnsOnce(p)
  BY DEF Returns
<1>8. ASSUME NEW j \in Items, OneLine(o, j) PROVE taken[o][j] + dTaken'[p][j] >= 0
  <2>1. taken[o][j] + dTaken[p][j] >= 0
    BY <1>5, <1>7, <1>8 DEF ReturnsOnce, TakenSeen
  <2>2. CASE j # i
    BY <1>5, <2>1, <2>2
  <2>3. CASE j = i
    <3>1. taken[o][i] \in Int /\ dTaken[p][i] \in Int /\ seen[p] \in Nat
      BY <1>5 DEF IInv, TypeOK, Balances
    <3>2. CASE task[p] = "restock" /\ step[p] = "return"
      <4>1. dTaken[p][i] = 0
        BY <1>3, <1>5, <1>8, <2>3, <3>2, NotReturned
      <4>2. seen[p] <= taken[o][i]
        BY <1>3, <1>5, <1>7, <1>8, <2>3, <3>2 DEF ReturnsOnce
      <4> HIDE DEF i
      <4> QED BY <1>3, <1>5, <2>3, <3>1, <3>2, <4>1, <4>2
    <3>3. CASE ~ (task[p] = "restock" /\ step[p] = "return")
      <4>1. t = 0 \/ t = seen[p]
        BY <1>2, <1>3, <3>3 DEF Tasks
      <4> HIDE DEF i
      <4> QED BY <1>5, <2>1, <2>3, <3>1, <4>1
    <3> QED BY <3>2, <3>3
  <2> QED BY <2>2, <2>3
<1>9. ReturnsOnce(p)'
  BY <1>4, <1>5, <1>6, <1>8 DEF ReturnsOnce, TakenSeen, OneLine, LinesFor, LinesOf
<1> QED BY <1>4, <1>9, OthersReturn

LEMMA SkipReturns ==
    ASSUME IInv, Returns, NEW p \in Procs, NEW o \in Orders, NEW l \in LinesOf(o),
           MoveAgain(p, o, l)
    PROVE  Returns'
<1>1. SkipEffect(p, o, l)
  BY SkipFacts
<1>2. UNCHANGED <<taken, keys, order, dTaken>> /\ OthersStay(p) /\ step'[p] = AfterMove(p)
  BY <1>1 DEF SkipEffect, rows
<1>3. AfterMove(p) # "return"
  BY DEF AfterMove
<1>4. ReturnsOnce(p)'
  BY <1>2, <1>3 DEF Returns, ReturnsOnce, TakenSeen, OneLine, LinesFor, LinesOf
<1> QED BY <1>2, <1>4, OthersReturn

LEMMA RollBackReturns == ASSUME IInv, Returns, NEW p \in Procs, RollBack(p) PROVE Returns'
<1>1. Ended(p) /\ UNCHANGED <<taken, keys>>
  BY RollBackFacts DEF rows
<1>2. ReturnsOnce(p)'
  BY <1>1 DEF Ended, ReturnsOnce
<1> QED BY <1>1, <1>2, OthersReturn DEF Ended

LEMMA CommitReturns ==
    ASSUME IInv, Lives, Returns, NEW p \in Procs, NEW o \in Orders, Commit(p, o)
    PROVE  Returns'
<1>1. CommitEffect(p, o)
  BY CommitFacts
<1>2. /\ Ended(p) /\ OthersStay(p) /\ order[p] = {o} /\ task[p] # "none"
      /\ \A i \in Items : taken'[o][i] = taken[o][i] + dTaken[p][i]
      /\ \A x \in Orders : x # o => taken'[x] = taken[x]
      /\ keys' = keys \cup dKeys[p]
  BY <1>1 DEF CommitEffect, Ended
<1>3. \A x \in Orders, i \in Items : OneLine(x, i) => taken'[x][i] >= 0
  BY <1>2 DEF Returns, ReturnsOnce, TakenSeen
<1>4. ASSUME NEW q \in Procs, q # p PROVE ReturnsOnce(q)'
  <2>1. UNCHANGED <<order[q], step[q], line[q], seen[q], dTaken[q]>>
    BY <1>2, <1>4 DEF OthersStay
  <2>2. ReturnsOnce(q)
    BY DEF Returns
  <2>3. ASSUME NEW x \in order[q], NEW i \in Items, OneLine(x, i)
        PROVE  /\ taken'[x][i] + dTaken[q][i] >= 0
               /\ \A l \in line[q] : step[q] = "return" /\ ItemOf[l] = i
                                     /\ <<l, "refund-return">> \notin keys' => seen[q] <= taken'[x][i]
    <3>1. x \in Orders /\ taken[x][i] \in Int /\ dTaken[q][i] \in Int /\ dTaken[p][i] \in Int
      BY DEF IInv, TypeOK, Balances
    <3>2. /\ taken[x][i] + dTaken[q][i] >= 0
          /\ \A l \in line[q] : step[q] = "return" /\ ItemOf[l] = i
                                /\ <<l, "refund-return">> \notin keys => seen[q] <= taken[x][i]
      BY <2>2, <2>3 DEF ReturnsOnce, TakenSeen
    <3>3. CASE x # o
      BY <1>2, <3>1, <3>2, <3>3
    <3>4. CASE x = o
      <4>1. taken'[x][i] + dTaken[q][i] >= 0
        <5>1. CASE i \in locks[q]
          <6>1. i \notin locks[p]
            BY <1>4, <5>1 DEF IInv, Txns, LocksExclude
          <6>2. dTaken[p][i] = 0
            BY <6>1 DEF IInv, Txns, Txn, WritesAreLocked
          <6> QED BY <1>2, <3>1, <3>2, <3>4, <6>2
        <5>2. CASE i \notin locks[q]
          <6>1. dTaken[q][i] = 0
            BY <5>2 DEF IInv, Txns, Txn, WritesAreLocked
          <6>2. taken'[x][i] >= 0 /\ taken'[x][i] = taken[x][i] + dTaken[p][i]
            BY <1>2, <1>3, <2>3, <3>1, <3>4
          <6> QED BY <3>1, <6>1, <6>2
        <5> QED BY <5>1, <5>2
      <4>2. ASSUME NEW l \in line[q], step[q] = "return", ItemOf[l] = i,
                   <<l, "refund-return">> \notin keys'
            PROVE  seen[q] <= taken'[x][i]
        <5>1. seen[q] <= taken[x][i]
          BY <1>2, <3>2, <4>2
        <5>2. l \in LinesOf(o)
          <6>1. PICK y \in Orders : order[q] = {y} /\ line[q] \subseteq LinesOf(y)
            BY <2>3 DEF IInv, Txns, Txn, IdleIsEmpty, WorksOnOrder
          <6> QED BY <3>4, <6>1
        <5>3. dTaken[p][i] >= 0
          <6>1. CASE task[p] = "restock"
            <7>1. dTaken[p][i] = 0
              BY <1>2, <2>3, <3>4, <4>2, <5>2, <6>1, NotReturned
            <7> QED BY <7>1
          <6>2. CASE task[p] # "restock"
            <7>1. task[p] \in Tasks
              BY DEF IInv, TypeOK
            <7> QED BY <1>2, <6>2, <7>1 DEF Lives, Keyed, MovesItsWay, Tasks
          <6> QED BY <6>1, <6>2
        <5>4. seen[q] \in Int /\ taken'[x][i] = taken[x][i] + dTaken[p][i]
          BY <1>2, <3>4 DEF IInv, TypeOK
        <5> QED BY <3>1, <5>1, <5>3, <5>4
      <4> QED BY <4>1, <4>2
    <3> QED BY <3>3, <3>4
  <2> QED BY <2>1, <2>3 DEF ReturnsOnce, TakenSeen, OneLine, LinesFor, LinesOf
<1>5. ReturnsOnce(p)'
  BY <1>2 DEF Ended, ReturnsOnce
<1>6. (\A x \in Orders, i \in Items : OneLine(x, i) => taken[x][i] >= 0)'
  BY <1>3 DEF OneLine, LinesFor, LinesOf
<1>7. \A q \in Procs : ReturnsOnce(q)'
  BY <1>4, <1>5
<1> QED BY <1>6, <1>7 DEF Returns

(***************************************************************************)
(* What it holds and has taken is what its status says.                    *)
(***************************************************************************)

(* The lines a transaction has left.                                       *)
LEMMA RestFacts ==
    ASSUME NEW o \in Orders, NEW i \in Items, NEW L
    PROVE  /\ RestOf(o, i, L) \in Nat
           /\ Ordered(o, i) \in Nat
           /\ RestOf(o, i, LinesOf(o)) = Ordered(o, i)
           /\ L = {} => RestOf(o, i, L) = 0
<1> DEFINE A == {l \in LinesFor(o, i) : l \in L}
           C == LinesFor(o, i)
<1>1. A \subseteq Lines /\ C \subseteq Lines
  BY DEF LinesFor, LinesOf
<1>2. L = {} => A = {}
  OBVIOUS
<1>3. {l \in LinesFor(o, i) : l \in LinesOf(o)} = LinesFor(o, i)
  BY DEF LinesFor
<1> HIDE DEF A, C
<1>4. IsFiniteSet(A) /\ IsFiniteSet(C)
  BY <1>1, FS_Subset
<1>5. (\A l \in A : Qty[l] \in Nat) /\ (\A l \in C : Qty[l] \in Nat)
  BY <1>1
<1>6. Over(A, Qty) \in Nat /\ Over(C, Qty) \in Nat
  BY <1>4, <1>5, SumIsNat
<1>7. L = {} => Over(A, Qty) = 0
  BY <1>2, SumOfNothing
<1> QED BY <1>3, <1>6, <1>7 DEF RestOf, Ordered, A, C

(* The lines left after one is taken up.                                   *)
LEMMA RestOfLine ==
    ASSUME NEW o \in Orders, NEW l \in LinesOf(o), NEW L, l \notin L, NEW i \in Items
    PROVE  RestOf(o, i, L \cup {l}) = (IF ItemOf[l] = i THEN Qty[l] ELSE 0) + RestOf(o, i, L)
<1> DEFINE A == {k \in LinesFor(o, i) : k \in L}
           B == {k \in LinesFor(o, i) : k \in L \cup {l}}
<1>1. A \subseteq Lines /\ l \in Lines /\ l \notin A
  BY DEF LinesFor, LinesOf
<1>2. ItemOf[l] = i => B = A \cup {l}
  BY DEF LinesFor
<1>3. ItemOf[l] # i => B = A
  BY DEF LinesFor
<1> HIDE DEF A, B
<1>4. IsFiniteSet(A) /\ (\A k \in A : Qty[k] \in Int) /\ Qty[l] \in Int
  BY <1>1, FS_Subset
<1>5. Over(A \cup {l}, Qty) = Qty[l] + Over(A, Qty) /\ Over(A, Qty) \in Int
  BY <1>1, <1>4, SumWith, SumIsNumber
<1>6. Over(B, Qty) = (IF ItemOf[l] = i THEN Qty[l] ELSE 0) + Over(A, Qty)
  <2>1. CASE ItemOf[l] = i
    BY <1>2, <1>5, <2>1
  <2>2. CASE ItemOf[l] # i
    BY <1>3, <1>5, <2>2
  <2> QED BY <2>1, <2>2
<1> QED BY <1>6 DEF RestOf, A, B

(* What a transaction has still to move of an item.                        *)
LEMMA DueFacts ==
    ASSUME NEW s, NEW full, NEW rest
    PROVE  /\ HeldDue("place", s, full, rest) = full - rest
           /\ HeldDue("cancel", "draft", full, rest) = 0
           /\ s # "draft" => HeldDue("cancel", s, full, rest) = rest
           /\ HeldDue("fulfil", s, full, rest) = rest
           /\ TakenDue("place", full, rest) = 0
           /\ TakenDue("cancel", full, rest) = 0
           /\ TakenDue("fulfil", full, rest) = full - rest
  BY DEF HeldDue, TakenDue

(* What a transition of an order that is not refunded is about.            *)
LEMMA Transition ==
    ASSUME IInv, Lives, NEW p \in Procs, NEW o \in Orders, order[p] = {o}, o \notin refunded
    PROVE  /\ task[p] \in {"place", "cancel", "fulfil"}
           /\ task[p] = "place" => status[o] = "draft"
           /\ task[p] = "cancel" => status[o] \in {"draft", "placed", "confirmed", "processing"}
           /\ task[p] = "fulfil" => status[o] = "processing"
           /\ \A q \in Procs : q # p => o \notin order[q]
<1>1. task[p] \in Tasks /\ task[p] # "none" /\ RightStatus(p)
  BY LineOfItem DEF IInv, TypeOK, Lives, Orderly
<1>2. task[p] # "restock"
  BY <1>1 DEF RightStatus
<1>3. ASSUME NEW q \in Procs, q # p, o \in order[q] PROVE FALSE
  <2>1. task[q] = "restock"
    BY <1>2, <1>3 DEF Lives, Orderly
  <2>2. RightStatus(q)
    BY DEF Lives, Orderly
  <2> QED BY <1>3, <2>1, <2>2 DEF RightStatus
<1> QED BY <1>1, <1>2, <1>3 DEF RightStatus, Tasks

LEMMA InitFollowed == Init => Followed
<1> SUFFICES ASSUME Init PROVE Followed
  OBVIOUS
<1>1. \A o \in Orders, i \in Items : held[o][i] = 0 /\ taken[o][i] = 0 /\ status[o] = "absent"
  BY DEF Init, Nothing
<1>2. \A p \in Procs : order[p] = {}
  BY DEF Init
<1>3. StockFollowsOrder
  BY <1>1 DEF StockFollowsOrder
<1> QED BY <1>2, <1>3 DEF Followed, FollowsStatus

(* The transactions whose order keeps its status and what it moved.        *)
LEMMA FollowsStill ==
    ASSUME NEW p \in Procs, FollowsStatus(p),
           UNCHANGED <<task[p], order[p], left[p], step[p], line[p], seen[p], dHeld[p], dTaken[p]>>,
           refunded \subseteq refunded',
           \A o \in order[p] \ refunded' : UNCHANGED <<held[o], taken[o], status[o]>>
    PROVE  FollowsStatus(p)'
<1>1. ASSUME NEW o \in order[p], o \notin refunded'
      PROVE  /\ o \in Sandbox => left'[p] = {} /\ line'[p] = {}
             /\ task'[p] \in {"cancel", "fulfil"} /\ step'[p] = "move" =>
                 status'[o] # "draft" /\ \A l \in line'[p] : seen'[p] = Qty[l]
             /\ \A i \in Items :
                 LET rest == RestOf(o, i, left'[p] \cup line'[p]) IN
                 /\ held'[o][i] + dHeld'[p][i] = HeldDue(task'[p], status'[o], Full(o, i), rest)
                 /\ taken'[o][i] + dTaken'[p][i] = TakenDue(task'[p], Full(o, i), rest)
  <2>1. /\ o \in Sandbox => left[p] = {} /\ line[p] = {}
        /\ task[p] \in {"cancel", "fulfil"} /\ step[p] = "move" =>
            status[o] # "draft" /\ \A l \in line[p] : seen[p] = Qty[l]
        /\ \A i \in Items :
            LET rest == RestOf(o, i, left[p] \cup line[p]) IN
            /\ held[o][i] + dHeld[p][i] = HeldDue(task[p], status[o], Full(o, i), rest)
            /\ taken[o][i] + dTaken[p][i] = TakenDue(task[p], Full(o, i), rest)
    BY <1>1 DEF FollowsStatus, HeldSeen, TakenSeen
  <2>2. UNCHANGED <<held[o], taken[o], status[o]>>
    BY <1>1
  <2> QED BY <2>1, <2>2
<1>2. order'[p] = order[p]
  OBVIOUS
<1> QED BY <1>1, <1>2 DEF FollowsStatus, HeldSeen, TakenSeen, RestOf, Full, Ordered, LinesFor, LinesOf

(* A transaction follows its order if these hold of it after the step.     *)
LEMMA FollowsNow ==
    ASSUME NEW p \in Procs, NEW o \in Orders, order'[p] = {o},
           o \notin refunded' =>
             /\ o \in Sandbox => left'[p] = {} /\ line'[p] = {}
             /\ task'[p] \in {"cancel", "fulfil"} /\ step'[p] = "move" =>
                 status'[o] # "draft" /\ \A l \in line'[p] : seen'[p] = Qty[l]
             /\ \A i \in Items :
                 LET rest == RestOf(o, i, left'[p] \cup line'[p]) IN
                 /\ held'[o][i] + dHeld'[p][i] = HeldDue(task'[p], status'[o], Full(o, i), rest)
                 /\ taken'[o][i] + dTaken'[p][i] = TakenDue(task'[p], Full(o, i), rest)
    PROVE  FollowsStatus(p)'
  BY DEF FollowsStatus, HeldSeen, TakenSeen

LEMMA StockFollowsStill ==
    ASSUME StockFollowsOrder, UNCHANGED <<held, taken, status, refunded>>,
           spent'.settings = 0 => spent.settings = 0
    PROVE  StockFollowsOrder'
  BY DEF StockFollowsOrder, Ordered, LinesFor, LinesOf

LEMMA FollowedStays ==
    ASSUME Followed, spent'.settings = 0 => spent.settings = 0,
           UNCHANGED <<held, taken, lives, txns>>
    PROVE  Followed'
<1>1. ASSUME NEW p \in Procs, FollowsStatus(p) PROVE FollowsStatus(p)'
  BY <1>1, FollowsStill DEF lives, txns
<1> QED BY <1>1, StockFollowsStill DEF Followed, lives

(* The transactions of other orders do not touch what this one follows.    *)
LEMMA OthersFollow ==
    ASSUME Followed, NEW p \in Procs, OthersStay(p), UNCHANGED <<held, taken, status, refunded, spent>>,
           spent.settings = 0 => FollowsStatus(p)'
    PROVE  Followed'
<1>1. ASSUME NEW q \in Procs, q # p, FollowsStatus(q) PROVE FollowsStatus(q)'
  BY <1>1, FollowsStill DEF OthersStay
<1> QED BY <1>1, StockFollowsStill DEF Followed

LEMMA OrderFollows ==
    ASSUME IInv, Lives, Followed, NEW o \in Orders, OrderStep(o) PROVE Followed'
<1>1. UNCHANGED <<held, taken, spent, txns>>
  BY OrderFacts DEF Lives, rows, admin
<1>2. refunded \subseteq refunded'
  BY OrderFacts DEF Lives
<1>3. \A x \in Orders \ refunded' :
        \/ status'[x] = status[x]
        \/ /\ <<status[x], status'[x]>> \in
                {<<"absent", "draft">>, <<"draft", "deleted">>,
                 <<"placed", "confirmed">>, <<"confirmed", "processing">>}
           /\ \A p \in Procs : x \in order[p] => task[p] = "restock"
  BY OrderFacts DEF Lives
<1>4. StockFollowsOrder'
  <2> SUFFICES ASSUME spent.settings = 0, NEW x \in Orders, x \notin refunded', NEW i \in Items
               PROVE  /\ held[x][i] =
                          IF status'[x] \in {"placed", "confirmed", "processing"}
                          THEN Full(x, i) ELSE 0
                      /\ taken[x][i] = IF status'[x] = "fulfilled" THEN Full(x, i) ELSE 0
    BY <1>1 DEF StockFollowsOrder, Full, Ordered, LinesFor, LinesOf
  <2>1. /\ held[x][i] =
            IF status[x] \in {"placed", "confirmed", "processing"} THEN Full(x, i) ELSE 0
        /\ taken[x][i] = IF status[x] = "fulfilled" THEN Full(x, i) ELSE 0
    BY <1>2 DEF Followed, StockFollowsOrder, Full
  <2> QED BY <1>3, <2>1
<1>5. ASSUME NEW p \in Procs, FollowsStatus(p) PROVE FollowsStatus(p)'
  <2>1. \A x \in order[p] \ refunded' : x \in Orders /\ task[p] # "restock"
    BY <1>2 DEF Lives, Orderly, RightStatus, IInv, TypeOK
  <2>2. \A x \in order[p] \ refunded' : status'[x] = status[x]
    BY <1>3, <2>1
  <2> QED BY <1>1, <1>2, <1>5, <2>2, FollowsStill DEF txns
<1> QED BY <1>1, <1>4, <1>5 DEF Followed

LEMMA BeginFollows ==
    ASSUME IInv, Followed, NEW p \in Procs, NEW o \in Orders,
           BeginPlace(p, o) \/ BeginCancel(p, o) \/ BeginFulfil(p, o) \/ BeginRestock(p, o)
    PROVE  Followed'
<1>1. PICK what \in Tasks \ {"none"} :
               /\ Begin(p, o, what)
               /\ what = "place" => status[o] = "draft"
               /\ what = "cancel" => status[o] \in {"draft", "placed", "confirmed", "processing"}
               /\ what = "fulfil" => status[o] = "processing"
               /\ what = "restock" => o \in refunded
  BY BeginAllowed
<1>2. /\ UNCHANGED <<rows, lives, admin>> /\ OthersStay(p)
      /\ task'[p] = what /\ order'[p] = {o} /\ step'[p] = "next" /\ line'[p] = {}
      /\ left'[p] = IF o \in Sandbox \/ ~ settings.enabled THEN {} ELSE LinesOf(o)
      /\ \A i \in Items : dHeld'[p][i] = 0 /\ dTaken'[p][i] = 0
  BY <1>1, BeginFacts
<1>3. UNCHANGED <<held, taken, status, refunded, spent>>
  BY <1>2 DEF rows, lives, admin
<1>4. ASSUME spent.settings = 0 PROVE FollowsStatus(p)'
  <2>1. left'[p] \cup line'[p] = IF o \in Sandbox THEN {} ELSE LinesOf(o)
    BY <1>2, <1>4 DEF IInv, Stock, PolicyStands
  <2>2. ASSUME o \notin refunded, NEW i \in Items
        PROVE  LET rest == RestOf(o, i, left'[p] \cup line'[p]) IN
               /\ held[o][i] + 0 = HeldDue(what, status[o], Full(o, i), rest)
               /\ taken[o][i] + 0 = TakenDue(what, Full(o, i), rest)
    <3> DEFINE rest == RestOf(o, i, left'[p] \cup line'[p])
    <3>1. rest = Full(o, i) /\ Full(o, i) \in Nat
      BY <2>1, RestFacts DEF Full
    <3>2. /\ held[o][i] =
              IF status[o] \in {"placed", "confirmed", "processing"} THEN Full(o, i) ELSE 0
          /\ taken[o][i] = IF status[o] = "fulfilled" THEN Full(o, i) ELSE 0
      BY <1>4, <2>2 DEF Followed, StockFollowsOrder, Full
    <3> HIDE DEF rest
    <3>3. held[o][i] + 0 = HeldDue(what, status[o], Full(o, i), rest)
      BY <1>1, <2>2, <3>1, <3>2 DEF HeldDue, Tasks
    <3>4. taken[o][i] + 0 = TakenDue(what, Full(o, i), rest)
      BY <1>1, <2>2, <3>1, <3>2 DEF TakenDue, Tasks
    <3> QED BY <3>3, <3>4 DEF rest
  <2> QED BY <1>2, <1>3, <2>1, <2>2, FollowsNow
<1> QED BY <1>2, <1>3, <1>4, OthersFollow

LEMMA ReadFollows ==
    ASSUME IInv, Lives, Followed, NEW p \in Procs, NEW o \in Orders, NEW l \in LinesOf(o),
           \/ ReadQuantity(p, o, l) \/ ReadHeld(p, o, l) \/ ReadNothingHeld(p, o, l)
           \/ ReadTaken(p, o, l) \/ ReadNothingTaken(p, o, l)
    PROVE  Followed'
<1>1. l \in Lines /\ ItemOf[l] \in Items /\ Qty[l] \in Nat \ {0}
  BY DEF LinesOf
<1>2. PICK to, n : Reading(p, o, l, to, n)
  BY ReadFacts
<1>3. /\ Turn(p, to, l, n) /\ order[p] = {o}
      /\ UNCHANGED <<rows, lives, admin, task, order, negative, locks, dHeld, dTaken, dKeys>>
  BY <1>2 DEF Reading
<1>4. /\ OthersStay(p) /\ step'[p] = to /\ line'[p] = (IF to = "next" THEN {} ELSE {l})
      /\ seen'[p] = n /\ left'[p] = left[p] \ {l}
  BY <1>1, <1>2, <1>3, TurnFacts
<1>5. UNCHANGED <<held, taken, status, refunded, spent>>
  BY <1>3 DEF rows, lives, admin
<1>6. ASSUME spent.settings = 0, o \notin refunded
      PROVE  /\ o \notin Sandbox
             /\ task[p] \in {"cancel", "fulfil"} /\ to = "move" => status[o] # "draft" /\ n = Qty[l]
             /\ \/ left[p] \cup line[p] = left'[p] \cup line'[p]
                \/ task[p] = "cancel" /\ status[o] = "draft"
  <2> DEFINE L == left[p] \cup line[p]
             due == HeldSeen(p, o, ItemOf[l])
             rest == RestOf(o, ItemOf[l], L)
  <2>1. FollowsStatus(p) /\ task[p] \in {"place", "cancel", "fulfil"}
        /\ (task[p] = "fulfil" => status[o] = "processing")
    BY <1>3, <1>6, Transition DEF Followed
  <2>2. /\ step[p] = "next" /\ l \in left[p] /\ line[p] = {}
        /\ \/ task[p] = "place" /\ to = "move" /\ n = Qty[l]
           \/ /\ task[p] # "place" /\ due > 0 /\ to = "move" /\ n = Smaller(due, Qty[l])
           \/ /\ task[p] # "place" /\ due <= 0 /\ to = "next"
    BY <1>2, <2>1 DEF Reading
  <2>3. o \notin Sandbox
    BY <1>3, <1>6, <2>1, <2>2 DEF FollowsStatus
  <2>4. due = HeldDue(task[p], status[o], Full(o, ItemOf[l]), rest)
    BY <1>1, <1>3, <1>6, <2>1 DEF FollowsStatus
  <2>5. rest \in Nat /\ rest >= Qty[l]
    <3>1. L = (L \ {l}) \cup {l} /\ l \notin L \ {l}
      BY <2>2
    <3>2. RestOf(o, ItemOf[l], (L \ {l}) \cup {l}) = Qty[l] + RestOf(o, ItemOf[l], L \ {l})
      BY <1>1, <3>1, RestOfLine
    <3>3. RestOf(o, ItemOf[l], L \ {l}) \in Nat
      BY <1>1, RestFacts
    <3> HIDE DEF L
    <3>4. rest = Qty[l] + RestOf(o, ItemOf[l], L \ {l})
      BY <3>1, <3>2
    <3> HIDE DEF rest
    <3> QED BY <1>1, <3>3, <3>4
  <2> HIDE DEF rest, due
  <2>6. CASE task[p] = "place"
    BY <1>4, <2>2, <2>3, <2>6
  <2>7. CASE task[p] = "cancel" /\ status[o] = "draft"
    <3>1. due = 0
      BY <2>4, <2>7 DEF HeldDue
    <3> QED BY <2>2, <2>3, <2>7, <3>1
  <2>8. CASE task[p] \in {"cancel", "fulfil"} /\ status[o] # "draft"
    <3>1. due = rest
      BY <2>4, <2>8 DEF HeldDue
    <3>2. to = "move" /\ n = Qty[l]
      BY <1>1, <2>2, <2>5, <2>8, <3>1 DEF Smaller
    <3> QED BY <1>4, <2>2, <2>3, <2>8, <3>2
  <2> QED BY <2>1, <2>6, <2>7, <2>8
<1>7. ASSUME spent.settings = 0 PROVE FollowsStatus(p)'
  <2>1. FollowsStatus(p)
    BY <1>7 DEF Followed
  <2>2. ASSUME o \notin refunded, NEW i \in Items
        PROVE  LET rest == RestOf(o, i, left'[p] \cup line'[p]) IN
               /\ held'[o][i] + dHeld'[p][i] = HeldDue(task'[p], status'[o], Full(o, i), rest)
               /\ taken'[o][i] + dTaken'[p][i] = TakenDue(task'[p], Full(o, i), rest)
    <3>1. LET rest == RestOf(o, i, left[p] \cup line[p]) IN
          /\ held[o][i] + dHeld[p][i] = HeldDue(task[p], status[o], Full(o, i), rest)
          /\ taken[o][i] + dTaken[p][i] = TakenDue(task[p], Full(o, i), rest)
      BY <1>3, <2>1, <2>2 DEF FollowsStatus, HeldSeen, TakenSeen
    <3>2. CASE left[p] \cup line[p] = left'[p] \cup line'[p]
      BY <1>3, <1>5, <3>1, <3>2
    <3>3. CASE task[p] = "cancel" /\ status[o] = "draft"
      BY <1>3, <1>5, <3>1, <3>3 DEF HeldDue, TakenDue
    <3> QED BY <1>6, <1>7, <2>2, <3>2, <3>3
  <2>3. o \notin refunded =>
          /\ o \in Sandbox => left'[p] = {} /\ line'[p] = {}
          /\ task'[p] \in {"cancel", "fulfil"} /\ step'[p] = "move" =>
                 status'[o] # "draft" /\ \A k \in line'[p] : seen'[p] = Qty[k]
    BY <1>3, <1>4, <1>5, <1>6, <1>7
  <2> QED BY <1>3, <1>5, <2>2, <2>3, FollowsNow
<1> QED BY <1>4, <1>5, <1>7, OthersFollow

LEMMA MoveFollows ==
    ASSUME IInv, Lives, Reservations, Followed,
           NEW p \in Procs, NEW o \in Orders, NEW l \in LinesOf(o), Move(p, o, l)
    PROVE  Followed'
<1> DEFINE m == Movement(task[p], step[p])
           h == HeldDelta(m) * seen[p]
           t == TakenDelta(m) * seen[p]
           j == ItemOf[l]
<1>1. MoveEffect(p, o, l, m, h, t)
  BY MoveFacts
<1>2. task[p] # "none" /\ step[p] \in {"move", "return"}
  BY <1>1 DEF MoveEffect
<1>3. /\ task[p] # "restock" => step[p] = "move"
      /\ task[p] = "place" => h = seen[p] /\ t = 0
      /\ task[p] = "cancel" => h = -seen[p] /\ t = 0
      /\ task[p] = "fulfil" => h = -seen[p] /\ t = seen[p]
  BY <1>2, MoveAmounts
<1> HIDE DEF m, h, t
<1>4. UNCHANGED <<held, taken, status, refunded, spent, task, order>> /\ OthersStay(p)
  BY <1>1 DEF MoveEffect, rows, lives, admin
<1>5. /\ order[p] = {o} /\ line[p] = {l} /\ l \in Lines /\ j \in Items
      /\ step'[p] = AfterMove(p) /\ line'[p] = (IF AfterMove(p) = "next" THEN {} ELSE {l})
      /\ left'[p] = left[p] \ {l}
      /\ dHeld'[p][j] = dHeld[p][j] + h /\ dTaken'[p][j] = dTaken[p][j] + t
      /\ \A i \in Items : i # j => dHeld'[p][i] = dHeld[p][i] /\ dTaken'[p][i] = dTaken[p][i]
  BY <1>1 DEF MoveEffect
<1>6. ASSUME spent.settings = 0 PROVE FollowsStatus(p)'
  <2>1. FollowsStatus(p) /\ AsksForTheLine(p)
    BY <1>6 DEF Followed, Reservations
  <2>2. ASSUME o \notin refunded
        PROVE  /\ task[p] \in {"place", "cancel", "fulfil"} /\ step[p] = "move"
               /\ seen[p] = Qty[l] /\ Qty[l] \in Nat
               /\ task[p] = "cancel" => status[o] # "draft"
               /\ step'[p] = "next" /\ line'[p] = {} /\ left'[p] = left[p] /\ l \notin left[p]
               /\ o \notin Sandbox
    <3>1. task[p] \in {"place", "cancel", "fulfil"}
      BY <1>5, <2>2, Transition
    <3>2. step[p] = "move"
      BY <1>3, <3>1
    <3>3. seen[p] = Qty[l]
      BY <1>5, <2>1, <2>2, <3>1, <3>2 DEF FollowsStatus, AsksForTheLine
    <3>4. task[p] = "cancel" => status[o] # "draft"
      BY <1>5, <2>1, <2>2, <3>2 DEF FollowsStatus
    <3>5. AfterMove(p) = "next"
      BY <3>1 DEF AfterMove
    <3>6. l \notin left[p]
      BY <1>5 DEF IInv, Txns, Txn, LineAtHand
    <3>7. o \notin Sandbox
      BY <1>5, <2>1, <2>2 DEF FollowsStatus
    <3> QED BY <1>5, <3>1, <3>2, <3>3, <3>4, <3>5, <3>6, <3>7
  <2>3. ASSUME o \notin refunded, NEW i \in Items
        PROVE  LET rest == RestOf(o, i, left'[p] \cup line'[p]) IN
               /\ held'[o][i] + dHeld'[p][i] = HeldDue(task'[p], status'[o], Full(o, i), rest)
               /\ taken'[o][i] + dTaken'[p][i] = TakenDue(task'[p], Full(o, i), rest)
    <3> DEFINE old == RestOf(o, i, left[p] \cup {l})
               new == RestOf(o, i, left[p])
               full == Full(o, i)
               q == IF j = i THEN Qty[l] ELSE 0
    <3>1. left'[p] \cup line'[p] = left[p]
      BY <2>2, <2>3
    <3>2. /\ held[o][i] + dHeld[p][i] = HeldDue(task[p], status[o], full, old)
          /\ taken[o][i] + dTaken[p][i] = TakenDue(task[p], full, old)
      BY <1>5, <2>1, <2>3 DEF FollowsStatus, HeldSeen, TakenSeen
    <3>3. old = q + new /\ new \in Nat /\ full \in Nat
      <4>1. old = q + new
        BY <2>2, <2>3, RestOfLine
      <4>2. new \in Nat /\ Ordered(o, i) \in Nat
        BY RestFacts
      <4>3. full \in Nat
        BY <4>2 DEF Full
      <4> QED BY <4>1, <4>2, <4>3
    <3>4. /\ dHeld'[p][i] = dHeld[p][i] + (IF j = i THEN h ELSE 0)
          /\ dTaken'[p][i] = dTaken[p][i] + (IF j = i THEN t ELSE 0)
          /\ held[o][i] \in Int /\ dHeld[p][i] \in Int /\ taken[o][i] \in Int /\ dTaken[p][i] \in Int
      <4>1. held[o][i] \in Int /\ dHeld[p][i] \in Int /\ taken[o][i] \in Int /\ dTaken[p][i] \in Int
        BY DEF IInv, TypeOK, Balances
      <4>2. CASE j = i
        BY <1>5, <4>1, <4>2
      <4>3. CASE j # i
        BY <1>5, <4>1, <4>3
      <4> QED BY <4>1, <4>2, <4>3
    <3>5. /\ task[p] = "place" => h = Qty[l] /\ t = 0
          /\ task[p] = "cancel" => h = -Qty[l] /\ t = 0
          /\ task[p] = "fulfil" => h = -Qty[l] /\ t = Qty[l]
          /\ Qty[l] \in Nat
      BY <1>3, <2>2, <2>3
    <3> HIDE DEF old, new, full, j
    <3>6. /\ held[o][i] + dHeld'[p][i] = HeldDue(task[p], status[o], full, new)
          /\ taken[o][i] + dTaken'[p][i] = TakenDue(task[p], full, new)
      <4>1. CASE task[p] = "place"
        <5>1. held[o][i] + dHeld[p][i] = full - old /\ taken[o][i] + dTaken[p][i] = 0
          BY <3>2, <4>1 DEF HeldDue, TakenDue
        <5>2. held[o][i] + dHeld'[p][i] = full - new /\ taken[o][i] + dTaken'[p][i] = 0
          BY <3>3, <3>4, <3>5, <4>1, <5>1
        <5> QED BY <4>1, <5>2 DEF HeldDue, TakenDue
      <4>2. CASE task[p] = "cancel"
        <5>1. held[o][i] + dHeld[p][i] = old /\ taken[o][i] + dTaken[p][i] = 0
          BY <2>2, <2>3, <3>2, <4>2 DEF HeldDue, TakenDue
        <5>2. held[o][i] + dHeld'[p][i] = new /\ taken[o][i] + dTaken'[p][i] = 0
          <6>1. CASE j = i
            <7>1. old = Qty[l] + new
              BY <3>3, <6>1
            <7>2. dHeld'[p][i] = dHeld[p][i] + (-Qty[l]) /\ dTaken'[p][i] = dTaken[p][i] + 0
              BY <3>4, <3>5, <4>2, <6>1
            <7>3. /\ held[o][i] \in Int /\ dHeld[p][i] \in Int /\ taken[o][i] \in Int
                  /\ dTaken[p][i] \in Int /\ Qty[l] \in Nat /\ new \in Nat
              BY <3>3, <3>4, <3>5
            <7>4. dTaken'[p][i] = dTaken[p][i]
              BY <7>2, <7>3
            <7>5. taken[o][i] + dTaken'[p][i] = 0
              BY ONLY <5>1, <7>4
            <7>6. held[o][i] + dHeld[p][i] = Qty[l] + new
              BY ONLY <5>1, <7>1
            <7>7. held[o][i] + dHeld'[p][i] = new
              BY ONLY <7>2, <7>3, <7>6
            <7> QED BY <7>5, <7>7
          <6>2. CASE j # i
            BY <3>3, <3>4, <3>5, <4>2, <5>1, <6>2
          <6> QED BY <6>1, <6>2
        <5> QED BY <2>2, <2>3, <4>2, <5>2 DEF HeldDue, TakenDue
      <4>3. CASE task[p] = "fulfil"
        <5>1. held[o][i] + dHeld[p][i] = old /\ taken[o][i] + dTaken[p][i] = full - old
          BY <3>2, <4>3 DEF HeldDue, TakenDue
        <5>2. held[o][i] + dHeld'[p][i] = new /\ taken[o][i] + dTaken'[p][i] = full - new
          BY <3>3, <3>4, <3>5, <4>3, <5>1
        <5> QED BY <4>3, <5>2 DEF HeldDue, TakenDue
      <4> QED BY <2>2, <2>3, <4>1, <4>2, <4>3
    <3> QED BY <1>4, <3>1, <3>6 DEF new, full
  <2> QED BY <1>4, <1>5, <2>2, <2>3, FollowsNow
<1> QED BY <1>4, <1>6, OthersFollow

(* Of an order that is not refunded no movement is made twice: its key was *)
(* used by this transition only.                                           *)
LEMMA SkipFollows ==
    ASSUME IInv, Lives, Followed, NEW p \in Procs, NEW o \in Orders, NEW l \in LinesOf(o),
           MoveAgain(p, o, l)
    PROVE  Followed'
<1>1. SkipEffect(p, o, l)
  BY SkipFacts
<1>2. /\ UNCHANGED <<held, taken, status, refunded, spent, order>> /\ OthersStay(p)
      /\ order[p] = {o} /\ line[p] = {l} /\ task[p] # "none" /\ step[p] \in {"move", "return"}
      /\ <<l, Movement(task[p], step[p])>> \in keys \cup dKeys[p]
  BY <1>1 DEF SkipEffect, rows, lives, admin
<1>3. o \in refunded
  <2> SUFFICES ASSUME o \notin refunded PROVE FALSE
    OBVIOUS
  <2> DEFINE m == Movement(task[p], step[p])
             k == <<l, m>>
  <2>1. /\ task[p] \in {"place", "cancel", "fulfil"} /\ step[p] = "move"
        /\ task[p] = "place" => status[o] = "draft" /\ m = "reserve"
        /\ task[p] = "cancel" => status[o] # "cancelled" /\ m = "release"
        /\ task[p] = "fulfil" => status[o] # "fulfilled" /\ m = "fulfill"
    BY <1>2, Transition, MoveAmounts
  <2>2. OrderOf[k[1]] = o /\ k[1] = l /\ k[2] = m
    BY DEF LinesOf
  <2> HIDE DEF k, m
  <2>3. k \notin keys
    BY <2>1, <2>2 DEF Lives, Keyed, KeysFollow
  <2>4. k \notin dKeys[p]
    BY <1>2, <2>1, <2>2 DEF Lives, Keyed, KeysAreNew
  <2> QED BY <1>2, <2>3, <2>4 DEF k, m
<1>4. FollowsStatus(p)'
  BY <1>2, <1>3 DEF FollowsStatus
<1> QED BY <1>2, <1>4, OthersFollow

LEMMA RollBackFollows ==
    ASSUME IInv, Followed, NEW p \in Procs, RollBack(p) PROVE Followed'
<1>1. Ended(p) /\ UNCHANGED <<held, taken, status, refunded, spent>>
  BY RollBackFacts DEF rows, lives, admin
<1>2. FollowsStatus(p)'
  BY <1>1 DEF Ended, FollowsStatus
<1> QED BY <1>1, <1>2, OthersFollow DEF Ended

LEMMA CommitFollows ==
    ASSUME IInv, Lives, Followed, NEW p \in Procs, NEW o \in Orders, Commit(p, o)
    PROVE  Followed'
<1>1. CommitEffect(p, o)
  BY CommitFacts
<1>2. /\ Ended(p) /\ OthersStay(p) /\ order[p] = {o} /\ left[p] = {} /\ line[p] = {}
      /\ UNCHANGED <<refunded, spent>>
      /\ \A i \in Items : /\ held'[o][i] = held[o][i] + dHeld[p][i]
                          /\ taken'[o][i] = taken[o][i] + dTaken[p][i]
      /\ \A x \in Orders : x # o =>
            held'[x] = held[x] /\ taken'[x] = taken[x] /\ status'[x] = status[x]
      /\ status'[o] = NewStatus(task[p], status[o])
  BY <1>1 DEF CommitEffect, Ended
<1>3. ASSUME spent.settings = 0, NEW x \in Orders, x \notin refunded, NEW i \in Items
      PROVE  /\ held'[x][i] =
                 IF status'[x] \in {"placed", "confirmed", "processing"} THEN Full(x, i) ELSE 0
             /\ taken'[x][i] = IF status'[x] = "fulfilled" THEN Full(x, i) ELSE 0
  <2>1. CASE x # o
    BY <1>2, <1>3, <2>1 DEF Followed, StockFollowsOrder, Full
  <2>2. CASE x = o
    <3> DEFINE rest == RestOf(o, i, left[p] \cup line[p])
    <3>1. rest = 0 /\ Full(o, i) \in Nat
      BY <1>2, <1>3, RestFacts DEF Full
    <3>2. /\ held'[o][i] = HeldDue(task[p], status[o], Full(o, i), rest)
          /\ taken'[o][i] = TakenDue(task[p], Full(o, i), rest)
      <4>1. FollowsStatus(p) /\ o \in order[p] \ refunded
        BY <1>2, <1>3, <2>2 DEF Followed
      <4>2. /\ HeldSeen(p, o, i) = HeldDue(task[p], status[o], Full(o, i), rest)
            /\ TakenSeen(p, o, i) = TakenDue(task[p], Full(o, i), rest)
        BY <4>1 DEF FollowsStatus
      <4>3. held'[o][i] = HeldSeen(p, o, i) /\ taken'[o][i] = TakenSeen(p, o, i)
        BY <1>2 DEF HeldSeen, TakenSeen
      <4> QED BY <4>2, <4>3
    <3>3. task[p] \in {"place", "cancel", "fulfil"}
      BY <1>2, <1>3, <2>2, Transition
    <3> HIDE DEF rest
    <3> QED BY <1>2, <2>2, <3>1, <3>2, <3>3 DEF HeldDue, TakenDue, NewStatus
  <2> QED BY <2>1, <2>2
<1>4. StockFollowsOrder'
  BY <1>2, <1>3 DEF StockFollowsOrder, Full, Ordered, LinesFor, LinesOf
<1>5. ASSUME spent.settings = 0, NEW q \in Procs PROVE FollowsStatus(q)'
  <2>1. CASE q = p
    BY <1>2, <2>1 DEF Ended, FollowsStatus
  <2>2. CASE q # p
    <3>1. ASSUME NEW x \in order[q] \ refunded PROVE x \in Orders /\ x # o
      <4>1. x \in Orders
        BY DEF IInv, TypeOK
      <4>2. x # o
        BY <1>2, <2>2, <3>1, Transition
      <4> QED BY <4>1, <4>2
    <3>2. FollowsStatus(q)
      BY <1>5 DEF Followed
    <3> QED BY <1>2, <2>2, <3>1, <3>2, FollowsStill DEF OthersStay
  <2> QED BY <2>1, <2>2
<1> QED BY <1>2, <1>4, <1>5 DEF Followed

(***************************************************************************)
(* Together, for every step.                                               *)
(***************************************************************************)

Accounts == IInv /\ Lives /\ Holds /\ Reservations /\ Returns /\ Followed

(* Nothing was ordered and nothing moved.                                  *)
LEMMA InitAccounts == Init => Accounts
  BY InitIInv, InitLives, InitHolds, InitReservations, InitReturns, InitFollowed DEF Accounts

(* The transitions that move no stock (setOrderStatusInTx,                 *)
(* createOrderInTx, deleteOrderInTx) keep the accounts.                    *)
LEMMA OrderAccounts ==
    ASSUME Accounts, NEW o \in Orders, OrderStep(o) PROVE Accounts'
<1> USE DEF Accounts
<1>1. UNCHANGED <<rows, txns>> /\ refunded \subseteq refunded'
  BY OrderFacts DEF Lives
<1>2. Holds' /\ Reservations' /\ Returns'
  BY <1>1, HoldsStay, ReservationsStay, ReturnsStay DEF rows, txns
<1> QED BY <1>2, OrderIInv, OrderLives, OrderFollows

(* So does what touches neither orders nor transactions: movements,        *)
(* archiving and settings by hand.                                         *)
LEMMA StaysAccounts ==
    ASSUME Accounts, IInv', UNCHANGED <<held, taken, keys, lives, txns>>,
           spent'.settings = 0 => spent.settings = 0
    PROVE  Accounts'
<1> USE DEF Accounts
<1>1. Holds' /\ Reservations' /\ Returns'
  BY HoldsStay, ReservationsStay, ReturnsStay DEF lives, txns
<1>2. Lives'
  BY LivesStay DEF lives, txns
<1> QED BY <1>1, <1>2, FollowedStays

(* A step of a transaction keeps the accounts: begin, read a line, move or *)
(* skip it, commit.                                                        *)
LEMMA TxnAccounts ==
    ASSUME Accounts, NEW p \in Procs, NEW o \in Orders, TxnStep(p, o) PROVE Accounts'
<1> USE DEF Accounts
<1>1. IInv'
  BY TxnIInv
<1>2. CASE BeginPlace(p, o) \/ BeginCancel(p, o) \/ BeginFulfil(p, o) \/ BeginRestock(p, o)
  <2>1. PICK what \in Tasks \ {"none"} : Begin(p, o, what)
    BY <1>2, BeginAllowed
  <2>2. Holds' /\ Reservations' /\ Returns'
    BY <2>1, BeginHolds, BeginReserves, BeginReturns
  <2> QED BY <1>1, <1>2, <2>2, BeginLives, BeginFollows
<1>3. CASE Commit(p, o)
  BY <1>1, <1>3, CommitLives, CommitHolds, CommitReserves, CommitReturns, CommitFollows
<1>4. ASSUME NEW l \in LinesOf(o),
             \/ ReadQuantity(p, o, l) \/ ReadHeld(p, o, l) \/ ReadNothingHeld(p, o, l)
             \/ ReadTaken(p, o, l) \/ ReadNothingTaken(p, o, l)
      PROVE  Accounts'
  BY <1>1, <1>4, ReadLives, ReadHolds, ReadReserves, ReadReturns, ReadFollows
<1>5. ASSUME NEW l \in LinesOf(o), Move(p, o, l) PROVE Accounts'
  BY <1>1, <1>5, MoveLives, MoveHolds, MoveReserves, MoveReturns, MoveFollows
<1>6. ASSUME NEW l \in LinesOf(o), MoveAgain(p, o, l) PROVE Accounts'
  BY <1>1, <1>6, SkipLives, SkipHolds, SkipReserves, SkipReturns, SkipFollows
<1> QED BY <1>2, <1>3, <1>4, <1>5, <1>6 DEF TxnStep

(* What a transaction has not committed leaves nothing behind.             *)
LEMMA RollBackAccounts == ASSUME Accounts, NEW p \in Procs, RollBack(p) PROVE Accounts'
  BY RollBackIInv, RollBackLives, RollBackHolds, RollBackReserves, RollBackReturns, RollBackFollows
     DEF Accounts

(* The inductive invariant of what orders hold and take: the balances      *)
(* (IInv), the order a transaction works on and the keys it writes, and    *)
(* per transaction what it has moved and has still to move.                *)
THEOREM AccountsHold == Spec => []Accounts
<1>1. Init => Accounts
  BY InitAccounts
<1>2. Accounts /\ [Next]_vars => Accounts'
  <2> SUFFICES ASSUME Accounts, [Next]_vars PROVE Accounts'
    OBVIOUS
  <2>1. CASE \E o \in Orders : OrderStep(o)
    BY <2>1, OrderAccounts
  <2>2. CASE OperatorStep
    <3>1. IInv' /\ UNCHANGED <<held, taken, keys, lives, txns>>
          /\ (spent'.settings = 0 => spent.settings = 0)
      BY <2>2, OperatorIInv, OperatorFacts DEF Accounts, IInv
    <3> QED BY <3>1, StaysAccounts
  <2>3. CASE \E p \in Procs : RollBack(p) \/ \E o \in Orders : TxnStep(p, o)
    BY <2>3, RollBackAccounts, TxnAccounts
  <2>4. CASE UNCHANGED vars
    <3>1. UNCHANGED <<rows, lives, admin, txns>>
      BY <2>4 DEF vars
    <3>2. TypeOK'
      BY <3>1 DEF Accounts, IInv, TypeOK, rows, lives, admin, txns
    <3>3. IInv'
      BY <3>1, <3>2, TxnsStay, StockStays DEF Accounts, IInv, rows, admin
    <3> QED BY <3>1, <3>3, StaysAccounts DEF rows, admin
  <2> QED BY <2>1, <2>2, <2>3, <2>4 DEF Next
<1> QED BY <1>1, <1>2, PTL DEF Spec

(* HoldsAreSound: while an order is not refunded, transitions that race    *)
(* for it never release more than it holds: outstandingReservation is read *)
(* before the item's row is locked, but under the order's own lock         *)
(* (inventory-bridge.ts).                                                  *)
THEOREM NoHoldIsOverReleased == Spec => []HoldsAreSound
<1>1. Accounts => HoldsAreSound
  BY DEF Accounts, Holds
<1> QED BY <1>1, AccountsHold, PTL

(* StockFollowsOrder: as long as no operator changes the module's          *)
(* settings, a committed order holds and has taken, item by item, exactly  *)
(* what its status says (orders.ts transitionOrder and the bridge it calls *)
(* in the same transaction).                                               *)
THEOREM StockFollowsTheOrder == Spec => []StockFollowsOrder
<1>1. Accounts => StockFollowsOrder
  BY DEF Accounts, Followed
<1> QED BY <1>1, AccountsHold, PTL

(* ReturnsAreBacked: an order never holds and takes more than was ordered, *)
(* because what it moved was reserved under a key of its own line, once;   *)
(* and an item it names in one line is never put back twice, however often *)
(* the refund's event is delivered and however the handlers interleave     *)
(* (refund-restock.ts, inventory-bridge.ts restockRefundedOrder).          *)
THEOREM ReturnsWereTaken == Spec => []ReturnsAreBacked
<1>1. ASSUME Accounts PROVE ReturnsAreBacked
  <2> SUFFICES ASSUME NEW o \in Orders, NEW i \in Items
               PROVE  /\ held[o][i] + taken[o][i] <= Ordered(o, i)
                      /\ (\A l, m \in LinesFor(o, i) : l = m) => taken[o][i] >= 0
    BY DEF ReturnsAreBacked
  <2> DEFINE a == Over(ReservedIn(o, i, keys), Qty)
             b == Ordered(o, i)
  <2>1. held[o][i] + taken[o][i] <= a
    BY <1>1 DEF Accounts, Reservations
  <2>2. a \in Nat /\ b \in Nat /\ a <= b
    BY Reserved, RestFacts
  <2>3. held[o][i] \in Int /\ taken[o][i] \in Int
    BY <1>1 DEF Accounts, IInv, TypeOK, Balances
  <2>4. (\A l, m \in LinesFor(o, i) : l = m) => taken[o][i] >= 0
    BY <1>1 DEF Accounts, Returns, OneLine
  <2> HIDE DEF a, b
  <2>5. held[o][i] + taken[o][i] <= b
    BY <2>1, <2>2, <2>3
  <2> QED BY <2>4, <2>5 DEF b
<1> QED BY <1>1, AccountsHold, PTL
=============================================================================

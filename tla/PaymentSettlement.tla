------------------------- MODULE PaymentSettlement -------------------------
(***************************************************************************)
(* What a payment provider says about a checkout, and what is recorded of  *)
(* it (packages/modules/payments/src/checkout-settlement.ts, payments.ts,  *)
(* refund-provider.ts, services/api/src/checkout-settlement.ts,            *)
(* payments-routes.ts).                                                    *)
(*                                                                         *)
(* The provider keeps the money and announces what happens to it.  It      *)
(* sends an event again until an answer of 2xx reaches it, in no           *)
(* particular order.  Operators ask for refunds: the provider is called    *)
(* first, outside any transaction, and the ledger is written after it,     *)
(* also when the provider was not reached because the workspace is now in  *)
(* another mode than the payment.                                          *)
(* Each handler's database work is one transaction that locks the payment  *)
(* and then its order, so it is one step here; the calls and the separate  *)
(* transactions around it are steps of their own.                          *)
(***************************************************************************)
EXTENDS Integers

CONSTANTS
    Orders,
    Payments,
    OrderOf,            \* payments.orderId
    Amount,             \* payments.amountCents
    Requests,           \* refund requests, each with an Idempotency-Key
    For,                \* the payment a request is about
    Ask,                \* the amount in its body; 0 when there is none
    Short,              \* orders whose stock cannot be reserved
    Disputable,         \* payments a customer may dispute
    Outside,            \* refunds made in the provider's own dashboard
    OperatorStatuses,   \* statuses operators set by hand, per payment
    MaxLost             \* bound: answers and requests lost

ASSUME PaymentsAssumption ==
    /\ OrderOf \in [Payments -> Orders]
    /\ Amount \in [Payments -> Nat \ {0}]
ASSUME RequestsAssumption ==
    /\ For \in [Requests -> Payments]
    /\ Ask \in [Requests -> Nat]
ASSUME ProviderAssumption ==
    /\ Disputable \subseteq Payments
    /\ Outside \subseteq Nat \ {0}
    /\ MaxLost \in Nat

OrderStatuses == {"absent", "draft", "placed", "moved", "cancelled", "deleted"}
PayStatuses == {"none", "pending", "processing", "succeeded", "failed", "disputed", "refunded"}
ASSUME StatusAssumption ==
    OperatorStatuses \in [Payments -> SUBSET (PayStatuses \ {"none", "pending"})]

(* A refund event tells how much the charge has given back; the provider   *)
(* calls it charge.refunded whether that is all of it or not.              *)
Paid(p) == [of |-> p, kind |-> "succeeded", at |-> 0]
Disputed(p) == [of |-> p, kind |-> "dispute", at |-> 0]
GivenBack(p, n) == [of |-> p, kind |-> "refunded", at |-> n]
Events ==
    {Paid(p) : p \in Payments} \cup {Disputed(p) : p \in Payments}
        \cup UNION {{GivenBack(p, n) : n \in 1..Amount[p]} : p \in Payments}

VARIABLES
    order,      \* orders.status; "moved" stands for confirmed and beyond
    pay,        \* payments.status; "none" while there is no row
    ledger,     \* the sum of the payment's payment_refunds
    told,       \* order.paid events recorded
    warned,     \* dispute events recorded
    charged,    \* at the provider: charges that went through
    money,      \* at the provider: what a charge has given back
    event,      \* where the answer to each provider event stands
    request,    \* where each refund request is
    recorded,   \* requests whose command has committed
    calls,      \* refunds the provider made for each request
    unbacked,   \* history: payments the ledger took a request for without the provider
    early,      \* history: refund events handled before the payment's success
    lost        \* answers and requests lost so far

rows == <<order, pay, ledger, told, warned>>
provider == <<charged, money, event>>
refunds == <<request, recorded, calls>>
history == <<unbacked, early>>
vars == <<rows, provider, refunds, history, lost>>

EventStages == {"none", "sent", "marked", "handled", "done"}
Phases == {"new", "moved", "skipped", "done", "refused", "failed"}

Init ==
    /\ order = [o \in Orders |-> "absent"]
    /\ pay = [p \in Payments |-> "none"]
    /\ ledger = [p \in Payments |-> 0]
    /\ told = [o \in Orders |-> 0]
    /\ warned = [p \in Payments |-> 0]
    /\ charged = {}
    /\ money = [p \in Payments |-> 0]
    /\ event = [e \in Events |-> "none"]
    /\ request = [r \in Requests |-> "new"]
    /\ recorded = {}
    /\ calls = [r \in Requests |-> 0]
    /\ unbacked = {}
    /\ early = {}
    /\ lost = 0

-----------------------------------------------------------------------------
(* Mutant: a refunded payment can succeed again.                           *)
CanMoveBack(from, to) ==
    \/ from = "pending" /\ to \in {"processing", "succeeded", "failed"}
    \/ from = "processing" /\ to \in {"succeeded", "failed"}
    \/ from = "succeeded" /\ to \in {"disputed", "refunded"}
    \/ from \in {"disputed", "refunded"} /\ to \in {"succeeded", "refunded"}

(* Mutant: there is no fast confirmation.                                  *)
CanMoveSlowly(from, to) ==
    \/ from = "pending" /\ to \in {"processing", "failed"}
    \/ from \in {"processing", "disputed"} /\ to = "succeeded"
    \/ from = "succeeded" /\ to \in {"disputed", "refunded"}

(* Mutant: a payment is refunded after a dispute only.                     *)
CanMoveDisputed(from, to) ==
    \/ from \in {"pending", "processing"} /\ to \in {"succeeded", "failed"}
    \/ from = "succeeded" /\ to = "disputed"
    \/ from = "disputed" /\ to \in {"succeeded", "refunded"}

(* canTransition.                                                          *)
CanMove(from, to) ==
    \/ from = "pending" /\ to \in {"processing", "succeeded", "failed"}
    \/ from = "processing" /\ to \in {"succeeded", "failed"}
    \/ from = "succeeded" /\ to \in {"disputed", "refunded"}
    \/ from = "disputed" /\ to \in {"succeeded", "refunded"}

(* Mutant: a full refund records its amount and not the remainder.         *)
SetStatusWhole(p, to) ==
    /\ pay' = [pay EXCEPT ![p] = to]
    /\ ledger' = [ledger EXCEPT ![p] = IF to = "refunded" THEN @ + Amount[p] ELSE @]

(* setPaymentStatusInTx: becoming refunded records what is outstanding.    *)
SetStatus(p, to) ==
    /\ pay' = [pay EXCEPT ![p] = to]
    /\ ledger' = [ledger EXCEPT ![p] = IF to = "refunded" THEN Amount[p] ELSE @]

(* settlePaymentRow: a transition that is not allowed is taken for one     *)
(* that happened before.                                                   *)
SettleRow(p, to) ==
    \/ CanMove(pay[p], to) /\ SetStatus(p, to)
    \/ ~ CanMove(pay[p], to) /\ UNCHANGED <<pay, ledger>>

-----------------------------------------------------------------------------
(* A checkout creates its order once, and opens a charge whenever it runs: *)
(* a retry replays the order and opens another charge for it.              *)
Checkout(p) ==
    /\ pay[p] = "none"
    /\ order[OrderOf[p]] # "deleted"
    /\ order' = [order EXCEPT ![OrderOf[p]] = IF @ = "absent" THEN "draft" ELSE @]
    /\ pay' = [pay EXCEPT ![p] = "pending"]
    /\ UNCHANGED <<ledger, told, warned, provider, refunds, history, lost>>

(* What operators do to orders and payments by hand.                       *)
MoveOrder(o, from, to) ==
    /\ order[o] = from
    /\ order' = [order EXCEPT ![o] = to]
    /\ UNCHANGED <<pay, ledger, told, warned, provider, refunds, history, lost>>

OperatorSets(p, to) ==
    /\ to \in OperatorStatuses[p]
    /\ CanMove(pay[p], to)
    /\ SetStatus(p, to)
    /\ UNCHANGED <<order, told, warned, provider, refunds, history, lost>>

-----------------------------------------------------------------------------
(* The provider: it takes the money, gives it back, loses it to a dispute, *)
(* and announces each.                                                     *)
Charge(p) ==
    /\ pay[p] # "none"
    /\ p \notin charged
    /\ charged' = charged \cup {p}
    /\ event' = [event EXCEPT ![Paid(p)] = "sent"]
    /\ UNCHANGED <<money, rows, refunds, history, lost>>

(* A charge gives back no more than it took, and nothing under dispute.    *)
CanGiveBack(p, n) ==
    /\ p \in charged
    /\ event[Disputed(p)] = "none"
    /\ n > 0
    /\ money[p] + n <= Amount[p]

GiveBack(p, n) ==
    /\ money' = [money EXCEPT ![p] = @ + n]
    /\ event' = [event EXCEPT ![GivenBack(p, money[p] + n)] = "sent"]

RefundOutside(p, n) ==
    /\ n \in Outside
    /\ CanGiveBack(p, n)
    /\ GiveBack(p, n)
    /\ UNCHANGED <<charged, rows, refunds, history, lost>>

Dispute(p) ==
    /\ p \in Disputable \cap charged
    /\ event[Disputed(p)] = "none"
    /\ money[p] < Amount[p]
    /\ event' = [event EXCEPT ![Disputed(p)] = "sent"]
    /\ UNCHANGED <<charged, money, rows, refunds, history, lost>>

-----------------------------------------------------------------------------
(* A webhook call.  The answer reaches the provider, or it is lost and the *)
(* event comes again.                                                      *)
Arrives(e) == event[e] \in {"sent", "handled"}

Answer(e) ==
    \/ event' = [event EXCEPT ![e] = "done"] /\ UNCHANGED lost
    \/ /\ lost < MaxLost
       /\ event' = [event EXCEPT ![e] = "handled"]
       /\ lost' = lost + 1

(* Mutant: the order is announced as paid whatever its status.             *)
PlacesAlways(o) == order[o] \notin {"deleted", "cancelled"}

(* setOrderStatusInTx to placed: only a draft is placed.                   *)
Places(o) == order[o] = "draft"

(* settlePaidCheckout: payment, order, stock and evidence in one           *)
(* transaction; a shortage of stock rolls all of it back.                  *)
SettleAndPlace(e) ==
    /\ e.kind = "succeeded"
    /\ Arrives(e)
    /\ Places(OrderOf[e.of])
    /\ OrderOf[e.of] \notin Short
    /\ SettleRow(e.of, "succeeded")
    /\ order' = [order EXCEPT ![OrderOf[e.of]] = "placed"]
    /\ told' = [told EXCEPT ![OrderOf[e.of]] = IF @ < 2 THEN @ + 1 ELSE @]
    /\ Answer(e)
    /\ UNCHANGED <<warned, charged, money, refunds, history>>

SettleOnly(e) ==
    /\ e.kind = "succeeded"
    /\ Arrives(e)
    /\ order[OrderOf[e.of]] \in {"placed", "moved", "cancelled"}
    /\ SettleRow(e.of, "succeeded")
    /\ Answer(e)
    /\ UNCHANGED <<order, told, warned, charged, money, refunds, history>>

RecordRefund(e) ==
    /\ e.kind = "refunded"
    /\ Arrives(e)
    /\ order[OrderOf[e.of]] # "deleted"
    /\ SettleRow(e.of, "refunded")
    /\ early' = IF pay[e.of] \in {"pending", "processing"} THEN early \cup {e} ELSE early
    /\ Answer(e)
    /\ UNCHANGED <<order, told, warned, charged, money, refunds, unbacked>>

(* The payment is marked in one transaction and the event recorded in      *)
(* another; between the two the process may die.                           *)
MarkDisputed(e) ==
    /\ e.kind = "dispute"
    /\ Arrives(e)
    /\ order[OrderOf[e.of]] # "deleted"
    /\ SettleRow(e.of, "disputed")
    /\ event' = [event EXCEPT ![e] = "marked"]
    /\ UNCHANGED <<order, told, warned, charged, money, refunds, history, lost>>

WarnOfDispute(e) ==
    /\ event[e] = "marked"
    /\ warned' = [warned EXCEPT ![e.of] = IF @ < 2 THEN @ + 1 ELSE @]
    /\ Answer(e)
    /\ UNCHANGED <<order, pay, ledger, told, charged, money, refunds, history>>

CrashInDispute(e) ==
    /\ event[e] = "marked"
    /\ lost < MaxLost
    /\ event' = [event EXCEPT ![e] = "sent"]
    /\ lost' = lost + 1
    /\ UNCHANGED <<rows, charged, money, refunds, history>>

(* The order was deleted and the payment with it lost its order: whatever  *)
(* the event says, it is acknowledged.                                     *)
DropEvent(e) ==
    /\ Arrives(e)
    /\ order[OrderOf[e.of]] = "deleted"
    /\ Answer(e)
    /\ UNCHANGED <<rows, charged, money, refunds, history>>

-----------------------------------------------------------------------------
(* A refund request.  refundAtProvider asks the provider for the amount in *)
(* the body, or for all that is left when it names none.                   *)
AskFor(r) == IF Ask[r] = 0 THEN Amount[For[r]] - money[For[r]] ELSE Ask[r]

(* Mutant: the ledger is written first and the provider called never.      *)
CallProviderNot(r) ==
    /\ request[r] = "new"
    /\ pay[For[r]] # "none"
    /\ request' = [request EXCEPT ![r] = "moved"]
    /\ UNCHANGED <<rows, charged, money, event, recorded, calls, history, lost>>

CallProvider(r) ==
    /\ request[r] = "new"
    /\ pay[For[r]] # "none"
    /\ CanGiveBack(For[r], AskFor(r))
    /\ GiveBack(For[r], AskFor(r))
    /\ calls' = [calls EXCEPT ![r] = IF @ < 2 THEN @ + 1 ELSE @]
    /\ request' = [request EXCEPT ![r] = "moved"]
    /\ UNCHANGED <<rows, charged, recorded, history, lost>>

ProviderRefuses(r) ==
    /\ request[r] = "new"
    /\ pay[For[r]] # "none"
    /\ ~ CanGiveBack(For[r], AskFor(r))
    /\ request' = [request EXCEPT ![r] = "failed"]
    /\ UNCHANGED <<rows, provider, recorded, calls, history, lost>>

(* The workspace is in another mode (test or live) than the payment, which *)
(* it may be at any time, or not connected: refundAtProvider returns       *)
(* refunded: false, and the route goes on to the ledger all the same.      *)
SkipProvider(r) ==
    /\ request[r] = "new"
    /\ pay[For[r]] # "none"
    /\ request' = [request EXCEPT ![r] = "skipped"]
    /\ UNCHANGED <<rows, provider, recorded, calls, history, lost>>

(* refundPaymentInTx: what the ledger accepts.                             *)
Refundable(r) ==
    /\ Ask[r] > 0
    /\ pay[For[r]] = "succeeded"
    /\ ledger[For[r]] + Ask[r] <= Amount[For[r]]

(* The route has been to the provider, or past it.                         *)
AtLedger(r) == request[r] \in {"moved", "skipped"}

WriteLedger(r) ==
    /\ AtLedger(r)
    /\ r \notin recorded
    /\ Refundable(r)
    /\ ledger' = [ledger EXCEPT ![For[r]] = @ + Ask[r]]
    /\ pay' = [pay EXCEPT ![For[r]] =
                   IF ledger[For[r]] + Ask[r] = Amount[For[r]] THEN "refunded" ELSE @]
    /\ recorded' = recorded \cup {r}
    /\ unbacked' = IF request[r] = "skipped" THEN unbacked \cup {For[r]} ELSE unbacked
    /\ request' = [request EXCEPT ![r] = "done"]
    /\ UNCHANGED <<order, told, warned, provider, calls, early, lost>>

(* The unit of work finds the key and gives the first answer again.        *)
Replay(r) ==
    /\ AtLedger(r)
    /\ r \in recorded
    /\ request' = [request EXCEPT ![r] = "done"]
    /\ UNCHANGED <<rows, provider, recorded, calls, history, lost>>

Refuse(r) ==
    /\ AtLedger(r)
    /\ r \notin recorded
    /\ ~ Refundable(r)
    /\ request' = [request EXCEPT ![r] = "refused"]
    /\ UNCHANGED <<rows, provider, recorded, calls, history, lost>>

(* The process dies before the ledger is written, or the answer is lost:   *)
(* the client sends the request again, with the same key.                  *)
SendAgain(r) ==
    /\ request[r] \in {"moved", "skipped", "done"}
    /\ lost < MaxLost
    /\ lost' = lost + 1
    /\ request' = [request EXCEPT ![r] = "new"]
    /\ UNCHANGED <<rows, provider, recorded, calls, history>>

-----------------------------------------------------------------------------
Handle(e) ==
    \/ SettleAndPlace(e) \/ SettleOnly(e) \/ RecordRefund(e)
    \/ MarkDisputed(e) \/ WarnOfDispute(e) \/ DropEvent(e)

OperatorStep(o) ==
    \/ MoveOrder(o, "draft", "placed") /\ o \notin Short
    \/ MoveOrder(o, "placed", "moved")
    \/ MoveOrder(o, "draft", "cancelled")
    \/ MoveOrder(o, "placed", "cancelled")
    \/ MoveOrder(o, "moved", "cancelled")
    \/ MoveOrder(o, "draft", "deleted")

ProviderStep(p) ==
    \/ Charge(p)
    \/ \E n \in Outside : RefundOutside(p, n)
    \/ Dispute(p)

RequestStep(r) ==
    \/ CallProvider(r) \/ ProviderRefuses(r) \/ SkipProvider(r)
    \/ WriteLedger(r) \/ Replay(r) \/ Refuse(r)
    \/ SendAgain(r)

Next ==
    \/ \E p \in Payments : Checkout(p) \/ \E s \in PayStatuses : OperatorSets(p, s)
    \/ \E p \in Payments : ProviderStep(p)
    \/ \E o \in Orders : OperatorStep(o)
    \/ \E e \in Events : Handle(e) \/ CrashInDispute(e)
    \/ \E r \in Requests : RequestStep(r)

Spec == Init /\ [][Next]_vars

(* The provider goes on sending what was not answered.                     *)
FairSpec == Spec /\ WF_vars(\E e \in Events : Handle(e))

-----------------------------------------------------------------------------
TypeOK ==
    /\ order \in [Orders -> OrderStatuses]
    /\ pay \in [Payments -> PayStatuses]
    /\ ledger \in [Payments -> Nat]
    /\ told \in [Orders -> 0..2]
    /\ warned \in [Payments -> 0..2]
    /\ charged \subseteq Payments
    /\ money \in [Payments -> Nat]
    /\ event \in [Events -> EventStages]
    /\ request \in [Requests -> Phases]
    /\ recorded \subseteq Requests
    /\ calls \in [Requests -> 0..2]
    /\ unbacked \subseteq Payments
    /\ early \subseteq Events
    /\ lost \in 0..MaxLost

(* However provider events and refund requests interleave, repeat or fail, *)
(* the ledger never says more went back than was paid, and a payment is    *)
(* refunded exactly when all of it did.                                    *)
RefundedIsWhole ==
    \A p \in Payments :
        /\ ledger[p] <= Amount[p]
        /\ pay[p] = "refunded" <=> ledger[p] = Amount[p]

(* "The browser saying payment succeeded is a claim, whereas a signed      *)
(* webhook is evidence": an order is announced as paid once, however many  *)
(* charges it has and however often they are reported, and only when one   *)
(* of them went through.                                                   *)
PaidOnEvidence ==
    \A o \in Orders :
        /\ told[o] <= 1
        /\ told[o] > 0 =>
            /\ \E p \in charged : OrderOf[p] = o
            /\ order[o] \in {"placed", "moved", "cancelled"}

(* What the first two rest on: the provider reports what went through.     *)
ReportedWasCharged ==
    \A e \in Events : e.kind = "succeeded" /\ event[e] # "none" => e.of \in charged

IInv == TypeOK /\ RefundedIsWhole /\ PaidOnEvidence /\ ReportedWasCharged

(* "Every function here must be IDEMPOTENT": an event that was handled and *)
(* comes again changes nothing that is recorded of payments and orders,    *)
(* in whatever order events arrive and whatever happened since.  Only a    *)
(* dispute can be taken back by it, and only a refund that was reported    *)
(* before its charge was recorded still has something to do.               *)
RedeliveryChangesNothing ==
    [][\A e \in Events :
        /\ event[e] = "handled"
        /\ event'[e] = "done"
        /\ pay[e.of] # "disputed"
        /\ e \notin early
        => UNCHANGED <<order, pay, ledger, told>>]_vars

(* The same without exception.                                             *)
RedeliveryNeverChanges ==
    [][\A e \in Events :
        event[e] = "handled" /\ event'[e] \in {"marked", "done"} =>
            UNCHANGED <<order, pay, ledger, told>>]_vars

(* Every refund of the payment is of its whole amount, and none is claimed *)
(* by hand.                                                                *)
WholeRefunds(p) ==
    /\ \A r \in Requests : For[r] = p => Ask[r] \in {0, Amount[p]}
    /\ \A n \in Outside : n >= Amount[p]
    /\ "refunded" \notin OperatorStatuses[p]

(* "The opposite order produces a ledger that lies, which is exactly what  *)
(* this file exists to stop": for payments refunded as a whole, the ledger *)
(* says more went back than the provider gave back only when it took a     *)
(* request that had not reached the provider.                              *)
LedgerIsTrue ==
    \A p \in Payments : WholeRefunds(p) /\ p \notin unbacked => ledger[p] <= money[p]

(* The same also of those.                                                 *)
LedgerNeverLies == \A p \in Payments : WholeRefunds(p) => ledger[p] <= money[p]

(* The same also of payments that are refunded in part.                    *)
LedgerIsAlwaysTrue == \A p \in Payments \ unbacked : ledger[p] <= money[p]

(* What LedgerIsTrue then rests on: once a refund is reported or waits for *)
(* the ledger, the provider has given back everything.                     *)
GivenBackWhole ==
    \A p \in Payments : WholeRefunds(p) =>
        /\ \A e \in Events :
            e.of = p /\ e.kind = "refunded" /\ event[e] # "none" => money[p] = Amount[p]
        /\ \A r \in Requests :
            For[r] = p /\ request[r] = "moved" => money[p] = Amount[p]

WholeInv == IInv /\ LedgerIsTrue /\ GivenBackWhole

(* "EVERYTHING that can reject this request runs BEFORE the money moves".  *)
RefusedMovedNothing == \A r \in Requests : request[r] = "refused" => calls[r] = 0

(* "A replay converges": a refund request that is sent again is one refund.*)
RefundedOnce == \A r \in Requests : calls[r] <= 1

(* "Each means the work is done, not that it failed": when the provider is *)
(* told that its refund was handled, the payment is refunded.              *)
SwallowedWasDone ==
    \A p \in Payments : \A n \in 1..Amount[p] :
        event[GivenBack(p, n)] = "done" /\ order[OrderOf[p]] # "deleted" =>
            pay[p] = "refunded"

(* "So a redelivered dispute is the same notification rather than a second *)
(* one".                                                                   *)
DisputeToldOnce == \A p \in Payments : warned[p] <= 1

(* A charge that went through is recorded, and a draft it pays for is      *)
(* placed, unless the order was deleted or its stock cannot be reserved.   *)
ChargeIsRecorded ==
    \A p \in Payments :
        p \in charged ~>
            \/ order[OrderOf[p]] = "deleted" \/ OrderOf[p] \in Short
            \/ order[OrderOf[p]] # "draft" /\ pay[p] \notin {"none", "pending", "processing"}

(* A payment the provider gave back in full ends up refunded, whoever      *)
(* asked for it, unless the refund was reported before the charge was      *)
(* recorded.                                                               *)
RefundIsRecorded ==
    \A p \in Payments :
        money[p] = Amount[p] ~>
            \/ order[OrderOf[p]] = "deleted" \/ OrderOf[p] \in Short
            \/ \E e \in early : e.of = p
            \/ pay[p] = "refunded"

(* "Missing it loses the money by default": somebody is told of a dispute, *)
(* also when the process dies after marking the payment.                   *)
DisputeIsTold ==
    \A p \in Payments :
        event[Disputed(p)] # "none" ~>
            \/ order[OrderOf[p]] = "deleted" \/ OrderOf[p] \in Short
            \/ warned[p] > 0

=============================================================================

----------------------------- MODULE Invoicing -----------------------------
(***************************************************************************)
(* Invoices, the time billed on them and the payments collected for them   *)
(* (packages/modules/invoicing, packages/modules/time-tracking,            *)
(* packages/modules/payments/src/payments.ts).                             *)
(*                                                                         *)
(* Three modules write to one invoice: its author while it is a draft,     *)
(* time tracking, which appends a line per approved entry, and payments,   *)
(* which decide whether it is paid.  Every operation is one transaction    *)
(* that holds the lock of the rows it decides on, and is one action here;  *)
(* what can go wrong is the order they come in.                            *)
(*                                                                         *)
(* Amounts are in a small unit.  One workspace, client and currency;       *)
(* entries are billable and logged by hand.  A payment is named by its     *)
(* identity at the provider, so a replay of recordPayment changes nothing. *)
(***************************************************************************)
EXTENDS Integers, FiniteSets, Sums

CONSTANTS
    Invoices, Entries, Payments,
    Prices,     \* what the author's own lines and the tax may come to
    Worths,     \* what an approval may find an entry worth
    Amounts,    \* of payments and refunds
    None        \* no invoice

ASSUME InvoicingAssumption ==
    /\ IsFiniteSet(Entries) /\ IsFiniteSet(Payments)
    /\ Prices \subseteq Nat /\ Worths \subseteq Nat
    /\ Amounts \subseteq Nat \ {0}
    /\ None \notin Invoices

VARIABLES
    invoice,    \* its status, the sum of the author's lines and tax, its total
    lines,      \* invoice_line_items that time tracking owns
    entry,      \* status, amount and invoice_id of a time entry
    payment,    \* status, invoice, amount, the sum of its refunds, and, which no
                \* column holds, what that was when it was last disputed
    byHand      \* invoices an operator marked paid since their last payment

vars == <<invoice, lines, entry, payment, byHand>>

InvoiceStatuses == {"draft", "sent", "paid", "void"}
EntryStatuses == {"draft", "approved", "invoiced", "void"}
PaymentStatuses ==
    {"pending", "processing", "succeeded", "failed", "disputed", "refunded"}

\* No such row: not created yet, or deleted.
NoInvoice == [status |-> "none", base |-> 0, total |-> 0]
NoEntry == [status |-> "none", amount |-> 0, on |-> None]
NoPayment == [status |-> "none", on |-> None, amount |-> 0, refunded |-> 0, contested |-> 0]

Init ==
    /\ invoice = [i \in Invoices |-> NoInvoice]
    /\ lines = {}
    /\ entry = [e \in Entries |-> NoEntry]
    /\ payment = [p \in Payments |-> NoPayment]
    /\ byHand = {}

(***************************************************************************)
(* The author of an invoice.                                               *)
(***************************************************************************)

LinesOn(i) == {l \in lines : l.on = i}

Draft(price) == [status |-> "draft", base |-> price, total |-> price]

\* createInvoiceInTx, for its author or from an order.
Create(i) ==
    /\ invoice[i].status = "none"
    /\ \E b \in Prices : invoice' = [invoice EXCEPT ![i] = Draft(b)]
    /\ UNCHANGED <<lines, entry, payment, byHand>>

\* Only a draft none of whose lines belong to another module is rewritten.
Rewrite(i) ==
    /\ invoice[i].status = "draft"
    /\ LinesOn(i) = {}
    /\ \E b \in Prices : invoice' = [invoice EXCEPT ![i] = Draft(b)]
    /\ UNCHANGED <<lines, entry, payment, byHand>>

Delete(i) ==
    /\ invoice[i].status = "draft"
    /\ LinesOn(i) = {}
    /\ invoice' = [invoice EXCEPT ![i] = NoInvoice]
    /\ UNCHANGED <<lines, entry, payment, byHand>>

InvoiceMayBecome(from) ==
    CASE from = "draft" -> {"sent", "paid", "void"}
      [] from = "sent" -> {"paid", "void"}
      [] OTHER -> {}

SetInvoiceStatus(i) ==
    /\ \E s \in InvoiceMayBecome(invoice[i].status) :
         /\ invoice' = [invoice EXCEPT ![i].status = s]
         /\ byHand' = IF s = "paid" THEN byHand \cup {i} ELSE byHand
    /\ UNCHANGED <<lines, entry, payment>>

(***************************************************************************)
(* Time tracking.                                                          *)
(***************************************************************************)

Log(e) ==
    /\ entry[e].status = "none"
    /\ entry' = [entry EXCEPT ![e] = [NoEntry EXCEPT !.status = "draft"]]
    /\ UNCHANGED <<invoice, lines, payment, byHand>>

\* The transitions that reach "approved" leave from "invoiced" too.  The
\* entry's invoice and its line stay as they are.
Approve(e) ==
    /\ entry[e].status \in {"draft", "invoiced"}
    /\ \E w \in Worths :
         entry' = [entry EXCEPT ![e] = [status |-> "approved", amount |-> w, on |-> @.on]]
    /\ UNCHANGED <<invoice, lines, payment, byHand>>

Unapprove(e) ==
    /\ entry[e].status \in {"approved", "void"}
    /\ entry' = [entry EXCEPT ![e] = [status |-> "draft", amount |-> 0, on |-> @.on]]
    /\ UNCHANGED <<invoice, lines, payment, byHand>>

\* Restoring asks for the same transition, and keeps the amount.
Restore(e) ==
    /\ entry[e].status \in {"approved", "void"}
    /\ entry' = [entry EXCEPT ![e].status = "draft"]
    /\ UNCHANGED <<invoice, lines, payment, byHand>>

VoidEntry(e) ==
    /\ entry[e].status \in {"draft", "approved"}
    /\ entry' = [entry EXCEPT ![e].status = "void"]
    /\ UNCHANGED <<invoice, lines, payment, byHand>>

DeleteEntry(e) ==
    /\ entry[e].on = None
    /\ entry[e].status \in {"draft", "void"}
    /\ entry' = [entry EXCEPT ![e] = NoEntry]
    /\ UNCHANGED <<invoice, lines, payment, byHand>>

\* computeInvoiceTotals over the author's lines and those given.
TotalOf(base, ls) == base + Over(ls, [l \in ls |-> l.price])

\* The lines of an invoice are stored together with its total.
Store(i, ls) ==
    /\ lines' = (lines \ LinesOn(i)) \cup ls
    /\ invoice' = [invoice EXCEPT ![i].total = TotalOf(invoice[i].base, ls)]

LineFor(e, i) == [on |-> i, of |-> e, price |-> entry[e].amount]

\* Mutant: the index is missing.
AnyEntries(E) == TRUE

\* The unique index on a line's source.
Unbilled(E) == \A l \in lines : l.of \notin E

\* invoiceApprovedTimeEntriesInTx, with appendDraftInvoiceLineItems.
Bill(i, E) ==
    /\ invoice[i].status = "draft"
    /\ \A e \in E : entry[e].status = "approved"
    /\ Unbilled(E)
    /\ Store(i, LinesOn(i) \cup {LineFor(e, i) : e \in E})
    /\ entry' = [e \in Entries |->
                    IF e \in E THEN [entry[e] EXCEPT !.status = "invoiced", !.on = i]
                               ELSE entry[e]]
    /\ UNCHANGED <<payment, byHand>>

\* Mutant: entries leave an invoice that has been sent.
DetachSent(i, E) ==
    /\ invoice[i].status \in {"draft", "sent"}
    /\ \A e \in E : entry[e].status = "invoiced" /\ entry[e].on = i
    /\ Store(i, {l \in LinesOn(i) : l.of \notin E})
    /\ entry' = [e \in Entries |->
                    IF e \in E THEN [entry[e] EXCEPT !.status = "approved", !.on = None]
                               ELSE entry[e]]
    /\ UNCHANGED <<payment, byHand>>

\* detachTimeEntriesFromDraftInvoiceInTx, with
\* removeDraftInvoiceLineItemsBySource, which wants a line for each entry.
Detach(i, E) ==
    /\ invoice[i].status = "draft"
    /\ \A e \in E : entry[e].status = "invoiced" /\ entry[e].on = i
    /\ \A e \in E : \E l \in LinesOn(i) : l.of = e
    /\ Store(i, {l \in LinesOn(i) : l.of \notin E})
    /\ entry' = [e \in Entries |->
                    IF e \in E THEN [entry[e] EXCEPT !.status = "approved", !.on = None]
                               ELSE entry[e]]
    /\ UNCHANGED <<payment, byHand>>

(***************************************************************************)
(* Payments.                                                               *)
(***************************************************************************)

On(i) == {p \in Payments : payment[p].on = i}

Settled == {"succeeded", "refunded"}

\* What a payment counts for: a disputed one nothing, less what it gave back.
Counts(pay) == (IF pay.status \in Settled THEN pay.amount ELSE 0) - pay.refunded

\* invoiceNetCollected, over the payments as they stand in the transaction.
Net(pays, i) ==
    Over({p \in Payments : pays[p].on = i}, [p \in Payments |-> Counts(pays[p])])

\* Mutant: a payment is held against the whole total.
FitsAmount(i, amount) == amount <= invoice[i].total

\* assertWithinInvoiceBalance.
Fits(i, amount) == amount <= invoice[i].total - Net(payment, i)

Payable(i) == invoice[i].status \in {"sent", "paid"}

\* Mutant: a payment is stored and its invoice not looked at again.
StorePayment(p, pay) ==
    /\ payment' = [payment EXCEPT ![p] = pay]
    /\ UNCHANGED <<invoice, byHand>>

\* reconcileInvoice follows every write of a payment: the status is what the
\* money says, also of an invoice that was marked paid by hand.
Reconcile(p, pay) ==
    /\ payment' = [payment EXCEPT ![p] = pay]
    /\ IF Payable(pay.on)
       THEN /\ invoice' = [invoice EXCEPT ![pay.on].status =
                             IF Net(payment', pay.on) >= invoice[pay.on].total
                             THEN "paid" ELSE "sent"]
            /\ byHand' = byHand \ {pay.on}
       ELSE UNCHANGED <<invoice, byHand>>

RecordPayment(p, i) ==
    /\ payment[p].status = "none"
    /\ Payable(i)
    /\ \E a \in Amounts, s \in {"pending", "processing", "succeeded", "failed"} :
         /\ s = "succeeded" => Fits(i, a)
         /\ Reconcile(p, [status |-> s, on |-> i, amount |-> a, refunded |-> 0, contested |-> 0])
    /\ UNCHANGED <<lines, entry>>

PaymentMayBecome(from) ==
    CASE from = "pending" -> {"processing", "succeeded", "failed"}
      [] from = "processing" -> {"succeeded", "failed"}
      [] from = "succeeded" -> {"disputed", "refunded"}
      [] from = "disputed" -> {"succeeded", "refunded"}
      [] OTHER -> {}

\* Money that settles passes the same check as money recorded as settled; a
\* full refund records what had not been given back.
SetPaymentStatus(p) ==
    /\ \E s \in PaymentMayBecome(payment[p].status) :
         /\ s = "succeeded" => /\ Payable(payment[p].on)
                               /\ Fits(payment[p].on, payment[p].amount)
         /\ Reconcile(p, [payment[p] EXCEPT
                            !.status = s,
                            !.refunded = IF s = "refunded" THEN payment[p].amount ELSE @,
                            !.contested = IF s = "disputed" THEN payment[p].refunded ELSE @])
    /\ UNCHANGED <<lines, entry>>

Refund(p) ==
    /\ payment[p].status = "succeeded"
    /\ \E a \in Amounts :
         /\ payment[p].refunded + a <= payment[p].amount
         /\ Reconcile(p, [payment[p] EXCEPT
                            !.refunded = @ + a,
                            !.status = IF payment[p].refunded + a = payment[p].amount
                                       THEN "refunded" ELSE "succeeded"])
    /\ UNCHANGED <<lines, entry>>

Next ==
    \/ \E i \in Invoices :
         \/ Create(i) \/ Rewrite(i) \/ Delete(i) \/ SetInvoiceStatus(i)
         \/ \E E \in SUBSET Entries \ {{}} : Bill(i, E) \/ Detach(i, E)
         \/ \E p \in Payments : RecordPayment(p, i)
    \/ \E e \in Entries :
         Log(e) \/ Approve(e) \/ Unapprove(e) \/ Restore(e) \/ VoidEntry(e) \/ DeleteEntry(e)
    \/ \E p \in Payments : SetPaymentStatus(p) \/ Refund(p)

Spec == Init /\ [][Next]_vars

(***************************************************************************)
(* Properties.                                                             *)
(***************************************************************************)

TypeOK ==
    /\ invoice \in [Invoices -> [status : InvoiceStatuses \cup {"none"},
                                 base : Nat, total : Nat]]
    /\ lines \subseteq [on : Invoices, of : Entries, price : Nat]
    /\ entry \in [Entries -> [status : EntryStatuses \cup {"none"},
                              amount : Nat, on : Invoices \cup {None}]]
    /\ payment \in [Payments -> [status : PaymentStatuses \cup {"none"},
                                 on : Invoices \cup {None},
                                 amount : Nat, refunded : Nat, contested : Nat]]
    /\ byHand \subseteq Invoices

\* An entry is billed by one line, on the invoice it names, however often it
\* is approved, unapproved, voided, detached and billed again; and that
\* invoice is still there.
TimeIsBilledOnce ==
    /\ \A e \in Entries :
         IF entry[e].on = None
         THEN \A l \in lines : l.of # e
         ELSE \E l \in lines :
                /\ l.of = e /\ l.on = entry[e].on
                /\ \A m \in lines : m.of = e => m = l
    /\ \A l \in lines : invoice[l.on].status # "none"

\* The total of an invoice is the sum of its lines, and an entry that is
\* invoiced is on it for the amount it was approved for.
TotalIsTheLines ==
    /\ \A i \in Invoices : invoice[i].total = TotalOf(invoice[i].base, LinesOn(i))
    /\ \A e \in Entries : entry[e].status = "invoiced" => LineFor(e, entry[e].on) \in lines

\* An invoice that has left its draft keeps its lines and its total, whatever
\* becomes of the time it bills.
IssuedIsFixed ==
    [][\A i \in Invoices : invoice[i].status \notin {"none", "draft"} =>
            /\ invoice'[i].total = invoice[i].total
            /\ LinesOn(i)' = LinesOn(i)]_vars

\* What stands of the payments, less what was given back of them.
Kept(i) ==
    Over({p \in On(i) : payment[p].status \in Settled},
         [p \in Payments |-> payment[p].amount - payment[p].refunded])

\* What had been given back of the payments that came to be disputed.
Contested(i) == Over(On(i), [p \in Payments |-> payment[p].contested])

\* What an invoice keeps exceeds what it asks for by no more than what had
\* been given back of its payments when they were disputed, so not at all if
\* none was refunded in part and then disputed: not by a late confirmation, by
\* a second payment after a refund, or by a dispute that is lost or won.
NeverOverCollected == \A i \in Invoices : Kept(i) <= invoice[i].total + Contested(i)

\* Once money has been recorded for it, and until an operator marks it, an
\* invoice that is neither draft nor void is paid exactly when what was
\* collected covers it: a refund, or a dispute, opens it again.
PaidIsCollected ==
    \A i \in Invoices : (Payable(i) /\ On(i) # {} /\ i \notin byHand) =>
        (invoice[i].status = "paid" <=> Net(payment, i) >= invoice[i].total)

\* apps/quickdash/web/src/components/time-view.tsx calls "invoiced" terminal:
\* an entry that is billed keeps that status.  An approval takes it away.
BilledStaysInvoiced == \A l \in lines : entry[l.of].status = "invoiced"

\* packages/modules/invoicing/src/status.ts calls "paid" terminal.  A payment
\* recorded as pending takes back a mark made by hand.
PaidIsTerminal ==
    [][\A i \in Invoices : invoice[i].status = "paid" => invoice'[i].status = "paid"]_vars

\* packages/modules/payments/src/payments.ts:264 calls what invoiceNetCollected
\* returns the single definition of what was paid, with which no payment takes
\* an invoice past its total.  A payment refunded in part and then disputed is
\* taken off it for more than it had counted for.
NeverAboveTotal == \A i \in Invoices : Kept(i) <= invoice[i].total
=============================================================================

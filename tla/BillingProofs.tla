-------------------------- MODULE BillingProofs --------------------------
(***************************************************************************)
(* What is billed, collected and spent, for any number of invoices,        *)
(* entries and payments, of runs, workspaces and top-ups.                  *)
(*                                                                         *)
(* The first part is about Invoicing: an entry is billed by one line, an   *)
(* issued invoice never rewrites itself, and what is collected for it is   *)
(* no more than its total and decides its status.  The second is about     *)
(* AgentSpend: credit arrives once, a run is charged to one payer, and the *)
(* limits give by the runs that overlap and by nothing else.  Amounts are  *)
(* added up by the theorems of SumTheorems.                                *)
(***************************************************************************)
EXTENDS Invoicing, AgentSpend, SumTheorems, TLAPS

Line == [on : Invoices, of : Entries, price : Nat]
Entry == [status : EntryStatuses \cup {"none"}, amount : Nat, on : Invoices \cup {None}]

Rows == [status : InvoiceStatuses \cup {"none"}, base : Nat, total : Nat]
IShape == invoice \in [Invoices -> Rows]
EShape ==
    /\ entry \in [Entries -> Entry]
    /\ \A e \in Entries : entry[e].status = "none" => entry[e].on = None
LShape == lines \subseteq Line /\ IsFiniteSet(lines)

Payment == [status : PaymentStatuses \cup {"none"}, on : Invoices \cup {None},
            amount : Nat, refunded : Nat, contested : Nat]

\* A payment that exists is for an invoice.
PShape ==
    /\ payment \in [Payments -> Payment]
    /\ \A p \in Payments : payment[p].status # "none" => payment[p].on \in Invoices

Shapes == IShape /\ EShape /\ LShape /\ PShape
BilledInv == Shapes /\ TimeIsBilledOnce

(***************************************************************************)
(* What the operations do to the rows the others look at.                  *)
(***************************************************************************)

\* A write of one row.
LEMMA RowSet ==
    ASSUME IShape, NEW i \in Invoices, NEW s \in InvoiceStatuses \cup {"none"},
           NEW b \in Nat, NEW t \in Nat,
           invoice' = [invoice EXCEPT ![i] = [status |-> s, base |-> b, total |-> t]]
    PROVE  /\ IShape'
           /\ invoice'[i].status = s /\ invoice'[i].base = b /\ invoice'[i].total = t
           /\ \A j \in Invoices \ {i} : invoice'[j] = invoice[j]
  <1>1. [status |-> s, base |-> b, total |-> t] \in Rows
    BY DEF Rows
  <1> QED
    BY <1>1 DEF IShape

\* A write of a status.
LEMMA StatusSet ==
    ASSUME IShape, NEW i \in Invoices, NEW s \in InvoiceStatuses \cup {"none"},
           invoice' = [invoice EXCEPT ![i].status = s]
    PROVE  /\ IShape'
           /\ invoice'[i].status = s
           /\ invoice'[i].base = invoice[i].base /\ invoice'[i].total = invoice[i].total
           /\ \A j \in Invoices \ {i} : invoice'[j] = invoice[j]
  <1>1. invoice[i] \in Rows
    BY DEF IShape
  <1>2. [invoice[i] EXCEPT !.status = s] \in Rows
    BY <1>1 DEF Rows
  <1> QED
    BY <1>1, <1>2 DEF IShape, Rows

\* A write of a total.
LEMMA TotalSet ==
    ASSUME IShape, NEW i \in Invoices, NEW t \in Nat, invoice' = [invoice EXCEPT ![i].total = t]
    PROVE  /\ IShape'
           /\ invoice'[i].status = invoice[i].status
           /\ invoice'[i].base = invoice[i].base /\ invoice'[i].total = t
           /\ \A j \in Invoices \ {i} : invoice'[j] = invoice[j]
  <1>1. invoice[i] \in Rows
    BY DEF IShape
  <1>2. [invoice[i] EXCEPT !.total = t] \in Rows
    BY <1>1 DEF Rows
  <1> QED
    BY <1>1, <1>2 DEF IShape, Rows

\* reconcileInvoice touches no total, and no invoice that is not there.
LEMMA Reconciled ==
    ASSUME IShape, PShape, NEW p \in Payments, NEW pay \in Payment,
           pay.on \in Invoices, Reconcile(p, pay)
    PROVE  /\ IShape' /\ PShape'
           /\ \A i \in Invoices : /\ invoice'[i].total = invoice[i].total
                                  /\ invoice'[i].base = invoice[i].base
                                  /\ (invoice[i].status \in {"none", "draft"})
                                       <=> (invoice'[i].status \in {"none", "draft"})
                                  /\ (invoice[i].status = "none")
                                       <=> (invoice'[i].status = "none")
  <1>1. PShape'
    <2>1. payment' = [payment EXCEPT ![p] = pay]
      BY DEF Reconcile
    <2> QED
      BY <2>1 DEF PShape
  <1>2. CASE UNCHANGED invoice
    BY <1>1, <1>2 DEF IShape
  <1>3. CASE Payable(pay.on)
    <2> DEFINE s == IF Net(payment', pay.on) >= invoice[pay.on].total THEN "paid" ELSE "sent"
    <2>1. invoice' = [invoice EXCEPT ![pay.on].status = s]
      BY <1>3 DEF Reconcile
    <2>2. s \in InvoiceStatuses \cup {"none"} /\ s \notin {"none", "draft"}
      BY DEF InvoiceStatuses
    <2>3. invoice[pay.on].status \notin {"none", "draft"}
      BY <1>3 DEF Payable
    <2> HIDE DEF s
    <2>4. /\ IShape'
          /\ invoice'[pay.on].status = s
          /\ invoice'[pay.on].total = invoice[pay.on].total
          /\ invoice'[pay.on].base = invoice[pay.on].base
          /\ \A j \in Invoices \ {pay.on} : invoice'[j] = invoice[j]
      BY <2>1, <2>2, StatusSet
    <2> QED
      BY <1>1, <2>2, <2>3, <2>4
  <1> QED
    BY <1>2, <1>3 DEF Reconcile

\* The two ways a payment is written.
LEMMA PaymentStep ==
    ASSUME Shapes,
           \/ \E p \in Payments, i \in Invoices : RecordPayment(p, i)
           \/ \E p \in Payments : SetPaymentStatus(p) \/ Refund(p)
    PROVE  /\ Shapes'
           /\ UNCHANGED <<lines, entry>>
           /\ \A i \in Invoices : /\ invoice'[i].total = invoice[i].total
                                  /\ invoice'[i].base = invoice[i].base
                                  /\ (invoice[i].status \in {"none", "draft"})
                                       <=> (invoice'[i].status \in {"none", "draft"})
                                  /\ (invoice[i].status = "none")
                                       <=> (invoice'[i].status = "none")
  <1> SUFFICES ASSUME NEW p \in Payments, NEW pay \in Payment, pay.on \in Invoices,
                      Reconcile(p, pay), UNCHANGED <<lines, entry>>
               PROVE  /\ Shapes'
                      /\ \A i \in Invoices :
                           /\ invoice'[i].total = invoice[i].total
                           /\ invoice'[i].base = invoice[i].base
                           /\ (invoice[i].status \in {"none", "draft"})
                                <=> (invoice'[i].status \in {"none", "draft"})
                           /\ (invoice[i].status = "none")
                                <=> (invoice'[i].status = "none")
    <2>1. ASSUME NEW p \in Payments, NEW i \in Invoices, RecordPayment(p, i)
          PROVE  \E pay \in Payment : pay.on \in Invoices /\ Reconcile(p, pay)
      <3>1. PICK a \in Amounts, s \in {"pending", "processing", "succeeded", "failed"} :
               Reconcile(p, [status |-> s, on |-> i, amount |-> a, refunded |-> 0, contested |-> 0])
        BY <2>1 DEF RecordPayment
      <3>2. [status |-> s, on |-> i, amount |-> a, refunded |-> 0, contested |-> 0] \in Payment
        BY InvoicingAssumption DEF Payment, PaymentStatuses
      <3> QED
        BY <3>1, <3>2
    <2>2. ASSUME NEW p \in Payments, SetPaymentStatus(p)
          PROVE  \E pay \in Payment : pay.on \in Invoices /\ Reconcile(p, pay)
      <3> DEFINE W(s, n, c) == [payment[p] EXCEPT !.status = s, !.refunded = n, !.contested = c]
      <3>1. PICK s \in PaymentMayBecome(payment[p].status) :
              Reconcile(p, W(s, IF s = "refunded" THEN payment[p].amount
                                                  ELSE payment[p].refunded,
                                IF s = "disputed" THEN payment[p].refunded
                                                  ELSE payment[p].contested))
        BY <2>2 DEF SetPaymentStatus
      <3>2. s \in PaymentStatuses /\ payment[p].status # "none"
        BY <3>1 DEF PaymentMayBecome, PaymentStatuses
      <3>3. payment[p] \in Payment /\ payment[p].on \in Invoices
        BY <3>2 DEF Shapes, PShape
      <3>4. ASSUME NEW n \in Nat, NEW c \in Nat
            PROVE  W(s, n, c) \in Payment /\ W(s, n, c).on = payment[p].on
        BY <3>2, <3>3 DEF Payment
      <3>5. /\ (IF s = "refunded" THEN payment[p].amount ELSE payment[p].refunded) \in Nat
            /\ (IF s = "disputed" THEN payment[p].refunded ELSE payment[p].contested) \in Nat
        BY <3>3 DEF Payment
      <3> HIDE DEF W
      <3> QED
        BY <3>1, <3>3, <3>4, <3>5
    <2>3. ASSUME NEW p \in Payments, Refund(p)
          PROVE  \E pay \in Payment : pay.on \in Invoices /\ Reconcile(p, pay)
      <3> DEFINE W(s, n) == [payment[p] EXCEPT !.refunded = n, !.status = s]
      <3>1. PICK a \in Amounts :
              Reconcile(p, W(IF payment[p].refunded + a = payment[p].amount
                             THEN "refunded" ELSE "succeeded", payment[p].refunded + a))
        BY <2>3 DEF Refund
      <3>2. payment[p] \in Payment /\ payment[p].on \in Invoices /\ a \in Nat
        BY <2>3, InvoicingAssumption DEF Shapes, PShape, Refund
      <3>3. ASSUME NEW n \in Nat, NEW s \in {"refunded", "succeeded"}
            PROVE  W(s, n) \in Payment /\ W(s, n).on = payment[p].on
        BY <3>2 DEF Payment, PaymentStatuses
      <3>4. payment[p].refunded + a \in Nat
        BY <3>2 DEF Payment
      <3> HIDE DEF W
      <3> QED
        BY <3>1, <3>2, <3>3, <3>4
    <2>4. UNCHANGED <<lines, entry>>
      BY DEF RecordPayment, SetPaymentStatus, Refund
    <2> QED
      BY <2>1, <2>2, <2>3, <2>4
  <1>1. IShape' /\ PShape'
    BY Reconciled DEF Shapes
  <1> QED
    BY <1>1, Reconciled DEF Shapes, EShape, LShape

\* A row of an entry is rewritten, and still names the same invoice.
LEMMA OneEntry ==
    ASSUME EShape, NEW e \in Entries, NEW r \in Entry,
           r.on = entry[e].on, r.status = "none" => r.on = None,
           entry' = [entry EXCEPT ![e] = r]
    PROVE  /\ EShape'
           /\ \A f \in Entries : entry'[f].on = entry[f].on
  BY DEF EShape

\* What an owner does to an entry changes neither invoices nor lines, nor the
\* invoice the entry names.
LEMMA EntryStep ==
    ASSUME Shapes, NEW e \in Entries,
           \/ Log(e) \/ Approve(e) \/ Unapprove(e) \/ Restore(e)
           \/ VoidEntry(e) \/ DeleteEntry(e)
    PROVE  /\ Shapes'
           /\ UNCHANGED <<invoice, lines>>
           /\ \A f \in Entries : entry'[f].on = entry[f].on
  <1>1. UNCHANGED <<invoice, lines, payment>>
    BY DEF Log, Approve, Unapprove, Restore, VoidEntry, DeleteEntry
  <1>2. entry[e] \in Entry /\ (entry[e].status = "none" => entry[e].on = None)
    BY DEF Shapes, EShape
  <1>3. EShape' /\ \A f \in Entries : entry'[f].on = entry[f].on
    <2>1. CASE Log(e)
      <3>1. [NoEntry EXCEPT !.status = "draft"] = [status |-> "draft", amount |-> 0, on |-> None]
        BY DEF NoEntry
      <3>2. entry' = [entry EXCEPT ![e] = [status |-> "draft", amount |-> 0, on |-> None]]
        BY <2>1, <3>1 DEF Log
      <3>3. entry[e].on = None
        BY <2>1, <1>2 DEF Log
      <3>4. [status |-> "draft", amount |-> 0, on |-> None] \in Entry
        BY DEF Entry, EntryStatuses
      <3> QED
        BY <3>2, <3>3, <3>4, OneEntry DEF Shapes
    <2>2. CASE Approve(e)
      <3>1. PICK w \in Worths : entry' = [entry EXCEPT
                 ![e] = [status |-> "approved", amount |-> w, on |-> entry[e].on]]
        BY <2>2 DEF Approve
      <3>2. [status |-> "approved", amount |-> w, on |-> entry[e].on] \in Entry
        BY <1>2, InvoicingAssumption DEF Entry, EntryStatuses
      <3> QED
        BY <3>1, <3>2, OneEntry DEF Shapes
    <2>3. CASE Unapprove(e)
      <3>1. entry' = [entry EXCEPT
                 ![e] = [status |-> "draft", amount |-> 0, on |-> entry[e].on]]
        BY <2>3 DEF Unapprove
      <3>2. [status |-> "draft", amount |-> 0, on |-> entry[e].on] \in Entry
        BY <1>2 DEF Entry, EntryStatuses
      <3> QED
        BY <3>1, <3>2, OneEntry DEF Shapes
    <2>4. ASSUME NEW s \in {"draft", "void"}, entry' = [entry EXCEPT ![e].status = s]
          PROVE  EShape' /\ \A f \in Entries : entry'[f].on = entry[f].on
      <3> DEFINE r == [entry[e] EXCEPT !.status = s]
      <3>1. entry' = [entry EXCEPT ![e] = r]
        BY <2>4 DEF Shapes, EShape
      <3>2. r \in Entry /\ r.on = entry[e].on /\ r.status # "none"
        BY <1>2 DEF Entry, EntryStatuses
      <3> HIDE DEF r
      <3> QED
        BY <3>1, <3>2, OneEntry DEF Shapes
    <2>5. CASE DeleteEntry(e)
      <3>1. entry' = [entry EXCEPT ![e] = NoEntry] /\ entry[e].on = None
        BY <2>5 DEF DeleteEntry
      <3>2. NoEntry \in Entry /\ NoEntry.on = None
        BY DEF NoEntry, Entry, EntryStatuses
      <3> QED
        BY <3>1, <3>2, OneEntry DEF Shapes
    <2>6. CASE Restore(e) \/ VoidEntry(e)
      BY <2>4, <2>6 DEF Restore, VoidEntry
    <2> QED
      BY <2>1, <2>2, <2>3, <2>5, <2>6
  <1> QED
    BY <1>1, <1>3 DEF Shapes, IShape, LShape, PShape

\* What the author does leaves lines and entries alone, and only an invoice
\* without lines comes or goes.
LEMMA AuthorStep ==
    ASSUME Shapes, NEW i \in Invoices,
           Create(i) \/ Rewrite(i) \/ Delete(i) \/ SetInvoiceStatus(i)
    PROVE  /\ Shapes'
           /\ UNCHANGED <<lines, entry>>
           /\ \A j \in Invoices : invoice[j].status \notin {"none", "draft"} =>
                /\ invoice'[j].status \notin {"none", "draft"}
                /\ invoice'[j].total = invoice[j].total
           /\ \A j \in Invoices : invoice'[j].status = "none" =>
                invoice[j].status = "none" \/ LinesOn(j) = {}
  <1>1. UNCHANGED <<lines, entry, payment>>
    BY DEF Create, Rewrite, Delete, SetInvoiceStatus
  <1>2. ASSUME NEW b \in Prices, Create(i) \/ Rewrite(i), invoice' = [invoice EXCEPT ![i] = Draft(b)]
        PROVE  /\ IShape'
               /\ invoice[i].status \in {"none", "draft"} /\ invoice'[i].status = "draft"
               /\ \A j \in Invoices \ {i} : invoice'[j] = invoice[j]
    <2>1. invoice' = [invoice EXCEPT ![i] = [status |-> "draft", base |-> b, total |-> b]]
      BY <1>2 DEF Draft
    <2>2. invoice[i].status \in {"none", "draft"} /\ "draft" \in InvoiceStatuses
      BY <1>2 DEF Create, Rewrite, InvoiceStatuses
    <2>3. b \in Nat
      BY InvoicingAssumption
    <2> QED
      BY <2>1, <2>2, <2>3, RowSet DEF Shapes
  <1>3. CASE Create(i) \/ Rewrite(i)
    <2>1. PICK b \in Prices : invoice' = [invoice EXCEPT ![i] = Draft(b)]
      BY <1>3 DEF Create, Rewrite
    <2> QED
      BY <1>1, <1>2, <1>3, <2>1 DEF Shapes, EShape, LShape, PShape
  <1>4. CASE Delete(i)
    <2>1. invoice' = [invoice EXCEPT ![i] = [status |-> "none", base |-> 0, total |-> 0]]
      BY <1>4 DEF Delete, NoInvoice
    <2>2. /\ IShape' /\ invoice'[i].status = "none"
          /\ \A j \in Invoices \ {i} : invoice'[j] = invoice[j]
      BY <2>1, RowSet DEF Shapes
    <2>3. invoice[i].status = "draft" /\ LinesOn(i) = {}
      BY <1>4 DEF Delete
    <2> QED
      BY <1>1, <2>2, <2>3 DEF Shapes, EShape, LShape, PShape
  <1>5. CASE SetInvoiceStatus(i)
    <2>1. PICK s \in InvoiceMayBecome(invoice[i].status) :
            invoice' = [invoice EXCEPT ![i].status = s]
      BY <1>5 DEF SetInvoiceStatus
    <2>2. s \in InvoiceStatuses \ {"draft"}
      BY <2>1 DEF InvoiceMayBecome, InvoiceStatuses
    <2>3. /\ IShape' /\ invoice'[i].status = s /\ invoice'[i].total = invoice[i].total
          /\ \A j \in Invoices \ {i} : invoice'[j] = invoice[j]
      BY <2>1, <2>2, StatusSet DEF Shapes
    <2>4. s \notin {"none", "draft"}
      BY <2>2 DEF InvoiceStatuses
    <2> QED
      BY <1>1, <2>3, <2>4 DEF Shapes, EShape, LShape, PShape
  <1> QED
    BY <1>3, <1>4, <1>5

\* The total of an invoice is a number.
LEMMA TotalIsNat ==
    ASSUME NEW b \in Nat, NEW ls \in SUBSET Line, IsFiniteSet(ls)
    PROVE  TotalOf(b, ls) \in Nat
  <1> DEFINE f == [l \in ls |-> l.price]
  <1>1. \A l \in ls : f[l] \in Nat
    BY DEF Line
  <1> HIDE DEF f
  <1>2. Over(ls, f) \in Nat
    BY <1>1, SumIsNat
  <1> QED
    BY <1>2 DEF TotalOf, f

\* Without lines of others an invoice asks for what its author wrote.
LEMMA TotalOfNone == ASSUME NEW b \in Nat PROVE TotalOf(b, {}) = b
  <1> DEFINE f == [l \in {} |-> l.price]
  <1>1. Over({}, f) = 0
    <2> HIDE DEF f
    <2> QED
      BY SumOfNothing
  <1> QED
    BY <1>1 DEF TotalOf

\* The lines of a draft are stored with their total.
LEMMA StoreStep ==
    ASSUME Shapes, NEW i \in Invoices, NEW ls \in SUBSET Line, IsFiniteSet(ls),
           Store(i, ls), UNCHANGED payment
    PROVE  /\ IShape' /\ LShape' /\ PShape'
           /\ invoice'[i].status = invoice[i].status
           /\ invoice'[i].base = invoice[i].base
           /\ invoice'[i].total = TotalOf(invoice[i].base, ls)
           /\ \A j \in Invoices \ {i} : invoice'[j] = invoice[j]
           /\ lines' = (lines \ LinesOn(i)) \cup ls
  <1>1. /\ IShape' /\ invoice'[i].status = invoice[i].status
        /\ invoice'[i].base = invoice[i].base
        /\ invoice'[i].total = TotalOf(invoice[i].base, ls)
        /\ \A j \in Invoices \ {i} : invoice'[j] = invoice[j]
    <2> DEFINE t == TotalOf(invoice[i].base, ls)
    <2>1. invoice' = [invoice EXCEPT ![i].total = t]
      BY DEF Store
    <2>2. t \in Nat
      BY TotalIsNat DEF Shapes, IShape, Rows
    <2> HIDE DEF t
    <2>3. /\ IShape' /\ invoice'[i].status = invoice[i].status
          /\ invoice'[i].base = invoice[i].base /\ invoice'[i].total = t
          /\ \A j \in Invoices \ {i} : invoice'[j] = invoice[j]
      BY <2>1, <2>2, TotalSet DEF Shapes
    <2> QED
      BY <2>3 DEF t
  <1>2. lines' = (lines \ LinesOn(i)) \cup ls /\ LShape'
    <2>1. IsFiniteSet(lines \ LinesOn(i))
      BY FS_Subset DEF Shapes, LShape
    <2> QED
      BY <2>1, FS_Union DEF Store, Shapes, LShape
  <1>3. PShape'
    BY DEF Shapes, PShape
  <1> QED
    BY <1>1, <1>2, <1>3

\* Billing takes unbilled entries only.
LEMMA BillStep ==
    ASSUME BilledInv, NEW i \in Invoices, NEW E \in SUBSET Entries, Bill(i, E)
    PROVE  /\ BilledInv'
           /\ \A j \in Invoices \ {i} : invoice'[j] = invoice[j] /\ LinesOn(j)' = LinesOn(j)
           /\ invoice'[i].total = TotalOf(invoice'[i].base, LinesOn(i)')
           /\ lines' = lines \cup {LineFor(e, i) : e \in E}
  <1> DEFINE ls == LinesOn(i) \cup {LineFor(e, i) : e \in E}
  <1>1. \A e \in E : LineFor(e, i) \in Line /\ LineFor(e, i).of = e /\ LineFor(e, i).on = i
    BY DEF BilledInv, Shapes, EShape, Entry, LineFor, Line
  <1>2. ls \in SUBSET Line /\ IsFiniteSet(ls)
    <2>1. IsFiniteSet({LineFor(e, i) : e \in E})
      <3>1. IsFiniteSet(E)
        BY InvoicingAssumption, FS_Subset
      <3> DEFINE ns == {LineFor(e, i) : e \in E}
                 g == [e \in E |-> LineFor(e, i)]
      <3>2. g \in Surjection(E, ns)
        <4>1. g \in [E -> ns] /\ \A n \in ns : \E e \in E : g[e] = n
          OBVIOUS
        <4> HIDE DEF g, ns
        <4> QED
          BY <4>1 DEF Surjection
      <3> HIDE DEF g, ns
      <3>3. IsFiniteSet(ns)
        BY <3>1, <3>2, FS_Surjection
      <3> QED
        BY <3>3 DEF ns
    <2>2. IsFiniteSet(LinesOn(i)) /\ LinesOn(i) \subseteq Line
      BY FS_Subset DEF LinesOn, BilledInv, Shapes, LShape
    <2> QED
      BY <1>1, <2>1, <2>2, FS_Union
  <1>3. /\ Shapes'
        /\ invoice'[i].status = invoice[i].status
        /\ invoice'[i].total = TotalOf(invoice'[i].base, ls)
        /\ \A j \in Invoices \ {i} : invoice'[j] = invoice[j]
        /\ lines' = (lines \ LinesOn(i)) \cup ls
        /\ \A e \in Entries : entry'[e].on = IF e \in E THEN i ELSE entry[e].on
    <2> HIDE DEF ls
    <2>1. Store(i, ls)
      BY DEF Bill, ls
    <2>2. Shapes /\ UNCHANGED payment
      BY DEF Bill, BilledInv
    <2>3. /\ IShape' /\ LShape' /\ PShape'
          /\ invoice'[i].status = invoice[i].status
          /\ invoice'[i].total = TotalOf(invoice'[i].base, ls)
          /\ \A j \in Invoices \ {i} : invoice'[j] = invoice[j]
          /\ lines' = (lines \ LinesOn(i)) \cup ls
      BY <1>2, <2>1, <2>2, StoreStep
    <2>4. ASSUME NEW e \in Entries
          PROVE  /\ entry'[e] \in Entry
                 /\ entry'[e].status = "none" => entry'[e].on = None
                 /\ entry'[e].on = IF e \in E THEN i ELSE entry[e].on
      <3>1. entry[e] \in Entry /\ (entry[e].status = "none" => entry[e].on = None)
        BY <2>2 DEF Shapes, EShape
      <3>2. CASE e \in E
        <4>1. entry'[e] = [entry[e] EXCEPT !.status = "invoiced", !.on = i]
          BY <3>2 DEF Bill
        <4> QED
          BY <3>1, <3>2, <4>1 DEF Entry, EntryStatuses
      <3>3. CASE e \notin E
        <4>1. entry'[e] = entry[e]
          BY <3>3 DEF Bill
        <4> QED
          BY <3>1, <3>3, <4>1
      <3> QED
        BY <3>2, <3>3
    <2>5. DOMAIN entry' = Entries /\ entry' = [e \in DOMAIN entry' |-> entry'[e]]
      BY DEF Bill
    <2>6. EShape'
      BY <2>4, <2>5 DEF EShape
    <2> QED
      BY <2>3, <2>4, <2>6 DEF Shapes
  <1>4. lines' = lines \cup {LineFor(e, i) : e \in E}
    BY <1>3 DEF LinesOn
  <1>5. /\ invoice[i].status = "draft"
        /\ \A l \in lines : l.of \notin E
    BY DEF Bill, Unbilled
  <1>6. \A l \in lines' : invoice'[l.on].status # "none"
    BY <1>1, <1>3, <1>4, <1>5 DEF BilledInv, TimeIsBilledOnce, Shapes, LShape, Line
  <1>7. ASSUME NEW e \in Entries
        PROVE  IF entry'[e].on = None
               THEN \A l \in lines' : l.of # e
               ELSE \E l \in lines' :
                      /\ l.of = e /\ l.on = entry'[e].on
                      /\ \A m \in lines' : m.of = e => m = l
    <2>1. CASE e \in E
      <3>1. entry'[e].on = i /\ i # None
        BY <1>3, <2>1, InvoicingAssumption
      <3>2. \A m \in lines' : m.of = e => m = LineFor(e, i)
        BY <1>1, <1>4, <1>5, <2>1
      <3>3. LineFor(e, i) \in lines' /\ LineFor(e, i).of = e /\ LineFor(e, i).on = i
        BY <1>1, <1>4, <2>1
      <3> HIDE DEF ls
      <3> QED
        BY <3>1, <3>2, <3>3
    <2>2. CASE e \notin E
      <3>1. entry'[e].on = entry[e].on
        BY <1>3, <2>2
      <3>2. \A m \in lines' : m.of = e => m \in lines
        BY <1>1, <1>4, <2>2
      <3>3. lines \subseteq lines'
        BY <1>4
      <3> QED
        BY <3>1, <3>2, <3>3 DEF BilledInv, TimeIsBilledOnce
    <2> QED
      BY <2>1, <2>2
  <1>8. \A j \in Invoices \ {i} : LinesOn(j)' = LinesOn(j)
    BY <1>1, <1>4 DEF LinesOn
  <1>9. LinesOn(i)' = ls
    BY <1>1, <1>4 DEF LinesOn
  <1> HIDE DEF ls
  <1> QED
    BY <1>3, <1>4, <1>6, <1>7, <1>8, <1>9 DEF BilledInv, TimeIsBilledOnce

\* Detaching gives back the entries whose lines it deletes.
LEMMA DetachStep ==
    ASSUME BilledInv, NEW i \in Invoices, NEW E \in SUBSET Entries, Detach(i, E)
    PROVE  /\ BilledInv'
           /\ \A j \in Invoices \ {i} : invoice'[j] = invoice[j] /\ LinesOn(j)' = LinesOn(j)
           /\ invoice'[i].total = TotalOf(invoice'[i].base, LinesOn(i)')
           /\ lines' = {l \in lines : l.of \notin E}
  <1> DEFINE ls == {l \in LinesOn(i) : l.of \notin E}
  <1>1. ls \in SUBSET Line /\ IsFiniteSet(ls)
    BY FS_Subset DEF LinesOn, BilledInv, Shapes, LShape
  <1>2. /\ Shapes'
        /\ invoice'[i].status = invoice[i].status
        /\ invoice'[i].total = TotalOf(invoice'[i].base, ls)
        /\ \A j \in Invoices \ {i} : invoice'[j] = invoice[j]
        /\ lines' = (lines \ LinesOn(i)) \cup ls
        /\ \A e \in Entries : entry'[e].on = IF e \in E THEN None ELSE entry[e].on
    <2> HIDE DEF ls
    <2>1. Store(i, ls)
      BY DEF Detach, ls
    <2>2. Shapes /\ UNCHANGED payment
      BY DEF Detach, BilledInv
    <2>3. /\ IShape' /\ LShape' /\ PShape'
          /\ invoice'[i].status = invoice[i].status
          /\ invoice'[i].total = TotalOf(invoice'[i].base, ls)
          /\ \A j \in Invoices \ {i} : invoice'[j] = invoice[j]
          /\ lines' = (lines \ LinesOn(i)) \cup ls
      BY <1>1, <2>1, <2>2, StoreStep
    <2>4. ASSUME NEW e \in Entries
          PROVE  /\ entry'[e] \in Entry
                 /\ entry'[e].status = "none" => entry'[e].on = None
                 /\ entry'[e].on = IF e \in E THEN None ELSE entry[e].on
      <3>1. entry[e] \in Entry /\ (entry[e].status = "none" => entry[e].on = None)
        BY <2>2 DEF Shapes, EShape
      <3>2. CASE e \in E
        <4>1. entry'[e] = [entry[e] EXCEPT !.status = "approved", !.on = None]
          BY <3>2 DEF Detach
        <4> QED
          BY <3>1, <3>2, <4>1 DEF Entry, EntryStatuses
      <3>3. CASE e \notin E
        <4>1. entry'[e] = entry[e]
          BY <3>3 DEF Detach
        <4> QED
          BY <3>1, <3>3, <4>1
      <3> QED
        BY <3>2, <3>3
    <2>5. DOMAIN entry' = Entries /\ entry' = [e \in DOMAIN entry' |-> entry'[e]]
      BY DEF Detach
    <2>6. EShape'
      BY <2>4, <2>5 DEF EShape
    <2> QED
      BY <2>3, <2>4, <2>6 DEF Shapes
  <1>3. \A e \in E : entry[e].on = i
    BY DEF Detach
  <1>4. \A l \in lines : l.of \in E => l.on = i
    BY <1>3, InvoicingAssumption DEF BilledInv, TimeIsBilledOnce
  <1>5. lines' = {l \in lines : l.of \notin E}
    BY <1>2, <1>4 DEF LinesOn
  <1>6. \A l \in lines' : invoice'[l.on].status # "none"
    BY <1>2, <1>5 DEF BilledInv, TimeIsBilledOnce, Shapes, LShape, Line
  <1>7. ASSUME NEW e \in Entries
        PROVE  IF entry'[e].on = None
               THEN \A l \in lines' : l.of # e
               ELSE \E l \in lines' :
                      /\ l.of = e /\ l.on = entry'[e].on
                      /\ \A m \in lines' : m.of = e => m = l
    <2>1. CASE e \in E
      BY <1>2, <1>5, <2>1
    <2>2. CASE e \notin E
      BY <1>2, <1>5, <2>2 DEF BilledInv, TimeIsBilledOnce
    <2> QED
      BY <2>1, <2>2
  <1>8. \A j \in Invoices \ {i} : LinesOn(j)' = LinesOn(j)
    BY <1>4, <1>5 DEF LinesOn
  <1>9. LinesOn(i)' = ls
    BY <1>5 DEF LinesOn
  <1> HIDE DEF ls
  <1> QED
    BY <1>2, <1>5, <1>6, <1>7, <1>8, <1>9 DEF BilledInv, TimeIsBilledOnce

(***************************************************************************)
(* The theorems.                                                           *)
(***************************************************************************)

LEMMA BilledInit == Init => BilledInv
  <1> SUFFICES ASSUME Init PROVE BilledInv
    OBVIOUS
  <1>1. IShape
    BY DEF Init, NoInvoice, Rows, IShape
  <1>2. EShape /\ LShape /\ PShape
    BY FS_EmptySet DEF Init, EShape, LShape, PShape, NoEntry, NoPayment, Entry, Payment
  <1>3. TimeIsBilledOnce
    BY DEF Init, TimeIsBilledOnce, NoEntry
  <1> QED
    BY <1>1, <1>2, <1>3 DEF BilledInv, Shapes

\* A step leaves an issued invoice alone, and the billing as it should be.
LEMMA BilledNext ==
    ASSUME BilledInv, Next
    PROVE  /\ BilledInv'
           /\ \A i \in Invoices : invoice[i].status \notin {"none", "draft"} =>
                invoice'[i].total = invoice[i].total /\ LinesOn(i)' = LinesOn(i)
  <1>1. ASSUME NEW i \in Invoices,
               Create(i) \/ Rewrite(i) \/ Delete(i) \/ SetInvoiceStatus(i)
        PROVE  /\ BilledInv'
               /\ \A j \in Invoices : invoice[j].status \notin {"none", "draft"} =>
                    invoice'[j].total = invoice[j].total /\ LinesOn(j)' = LinesOn(j)
    <2>1. /\ Shapes'
          /\ UNCHANGED <<lines, entry>>
          /\ \A j \in Invoices : invoice[j].status \notin {"none", "draft"} =>
                invoice'[j].total = invoice[j].total
          /\ \A j \in Invoices : invoice'[j].status = "none" =>
                invoice[j].status = "none" \/ LinesOn(j) = {}
      BY <1>1, AuthorStep DEF BilledInv
    <2>2. \A l \in lines : l.on \in Invoices /\ l \in LinesOn(l.on)
      BY DEF BilledInv, Shapes, LShape, Line, LinesOn
    <2>3. \A l \in lines' : invoice'[l.on].status # "none"
      BY <2>1, <2>2 DEF BilledInv, TimeIsBilledOnce
    <2> QED
      BY <2>1, <2>3 DEF BilledInv, TimeIsBilledOnce, LinesOn
  <1>2. ASSUME NEW i \in Invoices, NEW E \in SUBSET Entries \ {{}}, Bill(i, E) \/ Detach(i, E)
        PROVE  /\ BilledInv'
               /\ \A j \in Invoices : invoice[j].status \notin {"none", "draft"} =>
                    invoice'[j].total = invoice[j].total /\ LinesOn(j)' = LinesOn(j)
    <2>1. invoice[i].status = "draft"
      BY <1>2 DEF Bill, Detach
    <2>2. /\ BilledInv'
          /\ \A j \in Invoices \ {i} : invoice'[j] = invoice[j] /\ LinesOn(j)' = LinesOn(j)
      BY <1>2, BillStep, DetachStep
    <2> QED
      BY <2>1, <2>2
  <1>3. ASSUME NEW e \in Entries,
               Log(e) \/ Approve(e) \/ Unapprove(e) \/ Restore(e) \/ VoidEntry(e) \/ DeleteEntry(e)
        PROVE  /\ BilledInv'
               /\ \A j \in Invoices :
                    invoice'[j].total = invoice[j].total /\ LinesOn(j)' = LinesOn(j)
    <2>1. /\ Shapes'
          /\ UNCHANGED <<invoice, lines>>
          /\ \A f \in Entries : entry'[f].on = entry[f].on
      BY <1>3, EntryStep DEF BilledInv
    <2> QED
      BY <2>1 DEF BilledInv, TimeIsBilledOnce, LinesOn
  <1>4. ASSUME \/ \E p \in Payments, i \in Invoices : RecordPayment(p, i)
               \/ \E p \in Payments : SetPaymentStatus(p) \/ Refund(p)
        PROVE  /\ BilledInv'
               /\ \A j \in Invoices :
                    invoice'[j].total = invoice[j].total /\ LinesOn(j)' = LinesOn(j)
    <2>1. /\ Shapes'
          /\ UNCHANGED <<lines, entry>>
          /\ \A i \in Invoices : /\ invoice'[i].total = invoice[i].total
                                 /\ (invoice[i].status = "none")
                                      <=> (invoice'[i].status = "none")
      BY <1>4, PaymentStep DEF BilledInv
    <2>2. \A l \in lines : l.on \in Invoices
      BY DEF BilledInv, Shapes, LShape, Line
    <2> QED
      BY <2>1, <2>2 DEF BilledInv, TimeIsBilledOnce, LinesOn
  <1> QED
    BY <1>1, <1>2, <1>3, <1>4 DEF Next

(***************************************************************************)
(* What an invoice asks for.                                               *)
(***************************************************************************)

LEMMA TotalsInit == Init => TotalIsTheLines
  <1> SUFFICES ASSUME Init PROVE TotalIsTheLines
    OBVIOUS
  <1>1. ASSUME NEW i \in Invoices
        PROVE  invoice[i].total = TotalOf(invoice[i].base, LinesOn(i))
    <2>1. invoice[i].total = 0 /\ invoice[i].base = 0 /\ LinesOn(i) = {}
      BY DEF Init, NoInvoice, LinesOn
    <2> QED
      BY <2>1, TotalOfNone
  <1> QED
    BY <1>1 DEF Init, NoEntry, TotalIsTheLines

\* The author sets the total of an invoice that has no other lines.
LEMMA AuthorKeepsTotals ==
    ASSUME BilledInv, TotalIsTheLines, NEW i \in Invoices,
           Create(i) \/ Rewrite(i) \/ Delete(i) \/ SetInvoiceStatus(i)
    PROVE  TotalIsTheLines'
  <1>1. UNCHANGED <<lines, entry>>
    BY DEF Create, Rewrite, Delete, SetInvoiceStatus
  <1>2. \A j \in Invoices : LinesOn(j)' = LinesOn(j)
    BY <1>1 DEF LinesOn
  <1>3. IShape
    BY DEF BilledInv, Shapes
  <1>4. CASE SetInvoiceStatus(i)
    <2>1. PICK s \in InvoiceMayBecome(invoice[i].status) :
            invoice' = [invoice EXCEPT ![i].status = s]
      BY <1>4 DEF SetInvoiceStatus
    <2>2. s \in InvoiceStatuses
      BY <2>1 DEF InvoiceMayBecome, InvoiceStatuses
    <2>3. \A j \in Invoices : /\ invoice'[j].total = invoice[j].total
                              /\ invoice'[j].base = invoice[j].base
      BY <1>3, <2>1, <2>2, StatusSet
    <2> QED
      BY <1>1, <1>2, <2>3 DEF TotalIsTheLines, LineFor
  <1>5. ASSUME NEW b \in Nat, NEW s \in InvoiceStatuses \cup {"none"},
               invoice' = [invoice EXCEPT ![i] = [status |-> s, base |-> b, total |-> b]],
               LinesOn(i) = {}
        PROVE  TotalIsTheLines'
    <2>1. /\ invoice'[i].base = b /\ invoice'[i].total = b
          /\ \A j \in Invoices \ {i} : invoice'[j] = invoice[j]
      BY <1>3, <1>5 DEF IShape
    <2>2. invoice'[i].total = TotalOf(invoice'[i].base, LinesOn(i)')
      BY <1>2, <1>5, <2>1, TotalOfNone
    <2> QED
      BY <1>1, <1>2, <2>1, <2>2 DEF TotalIsTheLines, LineFor
  <1>6. CASE Create(i) \/ Rewrite(i)
    <2>1. PICK b \in Prices : invoice' = [invoice EXCEPT ![i] = Draft(b)]
      BY <1>6 DEF Create, Rewrite
    <2>2. LinesOn(i) = {}
      BY <1>6 DEF Create, Rewrite, BilledInv, TimeIsBilledOnce, LinesOn
    <2>3. b \in Nat /\ "draft" \in InvoiceStatuses
      BY InvoicingAssumption DEF InvoiceStatuses
    <2> QED
      BY <1>5, <2>1, <2>2, <2>3 DEF Draft
  <1>7. CASE Delete(i)
    BY <1>5, <1>7 DEF Delete, NoInvoice
  <1> QED
    BY <1>4, <1>6, <1>7

\* So do billing and detaching.
LEMMA BillKeepsTotals ==
    ASSUME BilledInv, TotalIsTheLines, NEW i \in Invoices, NEW E \in SUBSET Entries,
           Bill(i, E) \/ Detach(i, E)
    PROVE  TotalIsTheLines'
  <1>1. \A j \in Invoices : invoice'[j].total = TotalOf(invoice'[j].base, LinesOn(j)')
    BY BillStep, DetachStep DEF TotalIsTheLines
  <1>2. ASSUME NEW e \in Entries, entry'[e].status = "invoiced"
        PROVE  [on |-> entry'[e].on, of |-> e, price |-> entry'[e].amount] \in lines'
    <2>1. entry[e] \in Entry
      BY DEF BilledInv, Shapes, EShape
    <2>2. CASE e \notin E
      <3>1. entry'[e] = entry[e]
        BY <2>2 DEF Bill, Detach
      <3>2. LineFor(e, entry[e].on) \in lines /\ LineFor(e, entry[e].on).of = e
        BY <1>2, <3>1 DEF TotalIsTheLines, LineFor
      <3>3. LineFor(e, entry[e].on) \in lines'
        BY <2>2, <3>2, BillStep, DetachStep
      <3> QED
        BY <3>1, <3>3 DEF LineFor
    <2>3. CASE e \in E /\ Bill(i, E)
      <3>1. entry'[e] = [entry[e] EXCEPT !.status = "invoiced", !.on = i]
        BY <2>3 DEF Bill
      <3>2. entry'[e].on = i /\ entry'[e].amount = entry[e].amount
        BY <2>1, <3>1 DEF Entry
      <3>3. LineFor(e, i) \in lines'
        BY <2>3, BillStep
      <3> QED
        BY <3>2, <3>3 DEF LineFor
    <2>4. CASE e \in E /\ Detach(i, E)
      <3>1. entry'[e] = [entry[e] EXCEPT !.status = "approved", !.on = None]
        BY <2>4 DEF Detach
      <3> QED
        BY <1>2, <2>1, <3>1 DEF Entry
    <2> QED
      BY <2>2, <2>3, <2>4
  <1> QED
    BY <1>1, <1>2 DEF TotalIsTheLines, LineFor

\* Every step keeps the total the sum of the lines.
LEMMA TotalsNext ==
    ASSUME BilledInv, TotalIsTheLines, Next
    PROVE  TotalIsTheLines'
  <1>1. ASSUME NEW e \in Entries,
               Log(e) \/ Approve(e) \/ Unapprove(e) \/ Restore(e) \/ VoidEntry(e) \/ DeleteEntry(e)
        PROVE  TotalIsTheLines'
    <2>1. UNCHANGED <<invoice, lines>>
      BY <1>1, EntryStep DEF BilledInv
    <2>2. ASSUME NEW f \in Entries, entry'[f].status = "invoiced" PROVE entry'[f] = entry[f]
      <3>1. entry[e] \in Entry /\ entry \in [Entries -> Entry]
        BY DEF BilledInv, Shapes, EShape
      <3>2. CASE e # f
        BY <1>1, <3>1, <3>2 DEF Log, Approve, Unapprove, Restore, VoidEntry, DeleteEntry
      <3>3. CASE e = f
        <4>1. entry'[e].status # "invoiced"
          BY <1>1, <3>1 DEF Log, Approve, Unapprove, Restore, VoidEntry, DeleteEntry,
                            NoEntry, Entry
        <4> QED
          BY <2>2, <3>3, <4>1
      <3> QED
        BY <3>2, <3>3
    <2> QED
      BY <2>1, <2>2 DEF TotalIsTheLines, LinesOn, LineFor
  <1>2. CASE \/ \E p \in Payments, i \in Invoices : RecordPayment(p, i)
             \/ \E p \in Payments : SetPaymentStatus(p) \/ Refund(p)
    <2>1. /\ UNCHANGED <<lines, entry>>
          /\ \A i \in Invoices : /\ invoice'[i].total = invoice[i].total
                                 /\ invoice'[i].base = invoice[i].base
      BY <1>2, PaymentStep DEF BilledInv
    <2> QED
      BY <2>1 DEF TotalIsTheLines, LinesOn, LineFor
  <1> QED
    BY <1>1, <1>2, AuthorKeepsTotals, BillKeepsTotals DEF Next

(***************************************************************************)
(* What is collected for an invoice.                                       *)
(***************************************************************************)

\* What the payments count for, and which are for an invoice.
Worth(pays) == [p \in Payments |-> Counts(pays[p])]
For(pays, i) == {p \in Payments : pays[p].on = i}

\* What a payment counts for is a number.
LEMMA WorthIsNumber ==
    ASSUME NEW pays \in [Payments -> Payment], NEW p \in Payments
    PROVE  Worth(pays)[p] = Counts(pays[p]) /\ Worth(pays)[p] \in Int
  <1>1. pays[p].amount \in Nat /\ pays[p].refunded \in Nat
    BY DEF Payment
  <1> QED
    BY <1>1 DEF Worth, Counts

\* What was collected for an invoice is a number.
LEMMA NetIsNumber ==
    ASSUME NEW pays \in [Payments -> Payment], NEW i
    PROVE  /\ Net(pays, i) = Over(For(pays, i), Worth(pays))
           /\ IsFiniteSet(For(pays, i)) /\ For(pays, i) \subseteq Payments
           /\ Net(pays, i) \in Int
  <1>1. Net(pays, i) = Over(For(pays, i), Worth(pays))
    BY DEF Net, For, Worth
  <1>2. IsFiniteSet(For(pays, i)) /\ For(pays, i) \subseteq Payments
    BY InvoicingAssumption, FS_Subset DEF For
  <1>3. \A p \in For(pays, i) : Worth(pays)[p] \in Int
    BY <1>2, WorthIsNumber
  <1> QED
    BY <1>1, <1>2, <1>3, SumIsNumber

\* What a payment counted for before it was written.
Was(pays, p) == IF pays[p].on = None THEN 0 ELSE Counts(pays[p])

\* A payment that is written moves the sum of its invoice by what it is worth
\* now and was not before, and no other, whatever it is that is added up.
LEMMA SumMoves ==
    ASSUME NEW pays \in [Payments -> Payment], NEW p \in Payments, NEW pay \in Payment,
           pay.on \in Invoices, pays[p].on \in {None, pay.on},
           NEW new \in [Payments -> Payment], new[p] = pay,
           \A q \in Payments \ {p} : new[q] = pays[q],
           NEW f, NEW g, \A q \in Payments : f[q] \in Int /\ g[q] \in Int,
           \A q \in Payments \ {p} : g[q] = f[q]
    PROVE  /\ Over(For(new, pay.on), g)
                = Over(For(pays, pay.on), f) + g[p] - (IF pays[p].on = None THEN 0 ELSE f[p])
           /\ \A j \in Invoices \ {pay.on} : Over(For(new, j), g) = Over(For(pays, j), f)
  <1> DEFINE i == pay.on
             S == For(pays, i)
  <1>1. \A j : IsFiniteSet(For(pays, j)) /\ For(pays, j) \subseteq Payments
    BY InvoicingAssumption, FS_Subset DEF For
  <1>2. ASSUME NEW j \in Invoices \ {i} PROVE Over(For(new, j), g) = Over(For(pays, j), f)
    <2>1. For(new, j) = For(pays, j) /\ p \notin For(pays, j)
      BY InvoicingAssumption DEF For
    <2>2. \A q \in For(pays, j) : g[q] = f[q]
      BY <1>1, <2>1
    <2>3. Over(For(pays, j), g) = Over(For(pays, j), f)
      BY <1>1, <2>2, SumsAgree
    <2> QED
      BY <2>1, <2>3
  <1>3. IsFiniteSet(S) /\ S \subseteq Payments /\ \A q \in S : f[q] \in Int /\ g[q] \in Int
    BY <1>1
  <1>4. f[p] \in Int /\ g[p] \in Int /\ Over(S, f) \in Int
    BY <1>3, SumIsNumber
  <1>5. CASE pays[p].on = i
    <2>1. For(new, i) = S /\ p \in S /\ \A q \in S \ {p} : g[q] = f[q]
      BY <1>5 DEF For
    <2>2. pays[p].on # None
      BY <1>5, InvoicingAssumption
    <2> HIDE DEF S
    <2>3. Over(S, g) = Over(S, f) - f[p] + g[p]
      BY <1>3, <1>4, <2>1, SumChanged
    <2>4. Over(S, g) = Over(S, f) + g[p] - f[p]
      BY <1>4, <2>3
    <2> QED
      BY <1>2, <2>1, <2>2, <2>4 DEF S
  <1>6. CASE pays[p].on = None
    <2>1. For(new, i) = S \cup {p} /\ p \notin S /\ \A q \in S : g[q] = f[q]
      BY <1>6, InvoicingAssumption DEF For
    <2> HIDE DEF S
    <2>2. Over(S \cup {p}, g) = g[p] + Over(S, g)
      BY <1>3, <1>4, <2>1, SumWith
    <2>3. Over(S, g) = Over(S, f)
      BY <1>3, <2>1, SumsAgree
    <2>4. Over(S \cup {p}, g) = Over(S, f) + g[p] - 0
      BY <1>4, <2>2, <2>3
    <2> QED
      BY <1>2, <1>6, <2>1, <2>4 DEF S
  <1> QED
    BY <1>5, <1>6

\* So with what was collected.
LEMMA NetMoves ==
    ASSUME NEW pays \in [Payments -> Payment], NEW p \in Payments, NEW pay \in Payment,
           pay.on \in Invoices, pays[p].on \in {None, pay.on},
           NEW new \in [Payments -> Payment], new[p] = pay,
           \A q \in Payments \ {p} : new[q] = pays[q]
    PROVE  /\ Net(new, pay.on) = Net(pays, pay.on) + Counts(pay) - Was(pays, p)
           /\ \A j \in Invoices \ {pay.on} : Net(new, j) = Net(pays, j)
           /\ Was(pays, p) \in Int /\ Counts(pay) \in Int
  <1> DEFINE f == Worth(pays)
             g == Worth(new)
  <1>1. \A q \in Payments : /\ f[q] = Counts(pays[q]) /\ f[q] \in Int
                            /\ g[q] = Counts(new[q]) /\ g[q] \in Int
    BY WorthIsNumber
  <1>2. \A j : Net(pays, j) = Over(For(pays, j), f) /\ Net(new, j) = Over(For(new, j), g)
    BY NetIsNumber
  <1>3. \A q \in Payments \ {p} : g[q] = f[q]
    BY <1>1
  <1> HIDE DEF f, g
  <1>4. /\ Over(For(new, pay.on), g)
             = Over(For(pays, pay.on), f) + g[p] - (IF pays[p].on = None THEN 0 ELSE f[p])
        /\ \A j \in Invoices \ {pay.on} : Over(For(new, j), g) = Over(For(pays, j), f)
    BY <1>1, <1>3, SumMoves
  <1> QED
    BY <1>1, <1>2, <1>4 DEF Was

\* What stands of a payment, less what had been given back of it when it was
\* disputed, and the sum of that.
Standing(pay) == (IF pay.status \in Settled THEN pay.amount - pay.refunded ELSE 0) - pay.contested
Stands(pays) == [p \in Payments |-> Standing(pays[p])]
Stood(pays, p) == IF pays[p].on = None THEN 0 ELSE Standing(pays[p])
Sum(pays, i) == Over(For(pays, i), Stands(pays))

LEMMA StandingIsNumber ==
    ASSUME NEW pays \in [Payments -> Payment], NEW p \in Payments
    PROVE  Stands(pays)[p] = Standing(pays[p]) /\ Stands(pays)[p] \in Int
  <1>1. pays[p].amount \in Nat /\ pays[p].refunded \in Nat /\ pays[p].contested \in Nat
    BY DEF Payment
  <1> QED
    BY <1>1 DEF Stands, Standing

\* A payment gives back no more than it is, and nothing before it settled; one
\* that is disputed gives back nothing more.
Plausible(pay) ==
    /\ pay.refunded <= pay.amount /\ pay.contested <= pay.refunded
    /\ pay.status \in {"none", "pending", "processing", "failed"} => pay.refunded = 0
    /\ pay.status = "disputed" => pay.contested = pay.refunded

\* The sum of what stands is not above what the guard takes for collected.
LEMMA SumIsBelowNet ==
    ASSUME NEW pays \in [Payments -> Payment], \A p \in Payments : Plausible(pays[p]), NEW i
    PROVE  Sum(pays, i) \in Int /\ Sum(pays, i) <= Net(pays, i)
  <1> DEFINE S == For(pays, i)
             f == Stands(pays)
             g == Worth(pays)
  <1>1. Net(pays, i) = Over(S, g) /\ IsFiniteSet(S) /\ S \subseteq Payments
    BY NetIsNumber
  <1>2. ASSUME NEW p \in S PROVE f[p] \in Int /\ g[p] \in Int /\ f[p] <= g[p]
    <2>1. p \in Payments /\ Plausible(pays[p]) /\ pays[p] \in Payment
      BY <1>1
    <2>2. /\ f[p] = Standing(pays[p]) /\ f[p] \in Int
          /\ g[p] = Counts(pays[p]) /\ g[p] \in Int
      BY <2>1, StandingIsNumber, WorthIsNumber
    <2>3. /\ pays[p].amount \in Nat /\ pays[p].refunded \in Nat /\ pays[p].contested \in Nat
          /\ pays[p].status \in PaymentStatuses \cup {"none"}
      BY <2>1 DEF Payment
    <2> HIDE DEF f, g
    <2>4. CASE pays[p].status \in Settled
      BY <2>1, <2>2, <2>3, <2>4 DEF Standing, Counts, Plausible
    <2>5. CASE pays[p].status \notin Settled
      <3>1. pays[p].contested = pays[p].refunded
        BY <2>1, <2>3, <2>5 DEF Plausible, Settled, PaymentStatuses
      <3> QED
        BY <2>2, <2>3, <2>5, <3>1 DEF Standing, Counts
    <2> QED
      BY <2>2, <2>4, <2>5
  <1>3. Sum(pays, i) = Over(S, f)
    BY DEF Sum
  <1> HIDE DEF S, f, g
  <1>4. Over(S, f) \in Int /\ Over(S, f) <= Over(S, g)
    BY <1>1, <1>2, SumIsNumber, SumsCompare
  <1> QED
    BY <1>1, <1>3, <1>4

\* A payment is for an invoice that has left its draft.
PayInv ==
    \A p \in Payments :
        /\ Plausible(payment[p])
        /\ payment[p].status = "none" => payment[p].on = None
        /\ payment[p].on \in Invoices => invoice[payment[p].on].status \notin {"none", "draft"}

WithinTotal == \A i \in Invoices : Sum(payment, i) <= invoice[i].total

CollectedInv ==
    /\ BilledInv /\ TotalIsTheLines /\ PayInv
    /\ byHand \subseteq Invoices
    /\ WithinTotal /\ PaidIsCollected

\* What the three ways of writing a payment have in common: the guard finds
\* room for what stands of the payment and did not before.
Writes(p, pay) ==
    /\ pay \in Payment /\ pay.on \in Invoices /\ pay.status # "none" /\ Plausible(pay)
    /\ payment[p].on \in {None, pay.on}
    /\ invoice[pay.on].status \notin {"none", "draft"}
    /\ \/ Standing(pay) <= Stood(payment, p)
       \/ Standing(pay) - Stood(payment, p) <= invoice[pay.on].total - Net(payment, pay.on)
    /\ Reconcile(p, pay)

\* What recordPaymentInTx changes.
LEMMA RecordWrites ==
    ASSUME CollectedInv, NEW p \in Payments, NEW i \in Invoices, RecordPayment(p, i)
    PROVE  \E pay : Writes(p, pay)
  <1>1. PICK a \in Amounts, s \in {"pending", "processing", "succeeded", "failed"} :
          /\ s = "succeeded" => Fits(i, a)
          /\ Reconcile(p, [status |-> s, on |-> i, amount |-> a, refunded |-> 0, contested |-> 0])
    BY DEF RecordPayment
  <1> DEFINE pay == [status |-> s, on |-> i, amount |-> a, refunded |-> 0, contested |-> 0]
  <1>0. pay.status = s /\ pay.on = i /\ pay.amount = a /\ pay.refunded = 0 /\ pay.contested = 0
    OBVIOUS
  <1>2. pay \in Payment /\ pay.on = i /\ pay.status # "none" /\ Plausible(pay) /\ a \in Nat
    BY <1>0, InvoicingAssumption DEF Payment, PaymentStatuses, Plausible
  <1>3. payment[p].on = None /\ Stood(payment, p) = 0 /\ invoice[i].status \notin {"none", "draft"}
    BY DEF CollectedInv, PayInv, RecordPayment, Payable, Stood
  <1>4. Standing(pay) = IF s = "succeeded" THEN a ELSE 0
    BY <1>0, <1>2 DEF Standing, Settled
  <1> HIDE DEF pay
  <1>5. \/ Standing(pay) <= Stood(payment, p)
        \/ Standing(pay) - Stood(payment, p) <= invoice[pay.on].total - Net(payment, pay.on)
    <2>1. CASE s = "succeeded"
      BY <1>1, <1>2, <1>3, <1>4, <2>1 DEF Fits
    <2>2. CASE s # "succeeded"
      BY <1>3, <1>4, <2>2
    <2> QED
      BY <2>1, <2>2
  <1>6. Reconcile(p, pay)
    BY <1>1 DEF pay
  <1> QED
    BY <1>2, <1>3, <1>5, <1>6 DEF Writes

\* What a payment that is there looks like.
LEMMA StandingPayment ==
    ASSUME CollectedInv, NEW p \in Payments, payment[p].status # "none"
    PROVE  /\ payment[p] \in Payment /\ payment[p].on \in Invoices /\ payment[p].on # None
           /\ payment[p].amount \in Nat /\ payment[p].refunded \in Nat
           /\ payment[p].contested \in Nat /\ Plausible(payment[p])
           /\ Stood(payment, p) = Standing(payment[p])
           /\ invoice[payment[p].on].status \notin {"none", "draft"}
  <1>1. payment[p] \in Payment /\ payment[p].on \in Invoices
    BY DEF CollectedInv, BilledInv, Shapes, PShape
  <1> QED
    BY <1>1, InvoicingAssumption DEF CollectedInv, PayInv, Payment, Stood

\* What setPaymentStatusInTx changes.
LEMMA StatusWrites ==
    ASSUME CollectedInv, NEW p \in Payments, SetPaymentStatus(p)
    PROVE  \E pay : Writes(p, pay)
  <1> DEFINE W(s) == [payment[p] EXCEPT !.status = s,
                        !.refunded = IF s = "refunded" THEN payment[p].amount ELSE @,
                        !.contested = IF s = "disputed" THEN payment[p].refunded ELSE @]
  <1>1. PICK s \in PaymentMayBecome(payment[p].status) :
          /\ s = "succeeded" => Fits(payment[p].on, payment[p].amount)
          /\ Reconcile(p, W(s))
    BY DEF SetPaymentStatus
  <1>2. /\ s \in PaymentStatuses /\ payment[p].status # "none"
        /\ s \in {"processing", "failed"} =>
             payment[p].status \in {"none", "pending", "processing", "failed"}
        /\ s = "succeeded" =>
             payment[p].status \in {"none", "pending", "processing", "failed", "disputed"}
        /\ s = "disputed" => payment[p].status = "succeeded"
        /\ s = "refunded" => payment[p].status \in {"succeeded", "disputed"}
        /\ s # "pending"
    BY <1>1 DEF PaymentMayBecome, PaymentStatuses
  <1> DEFINE pay == W(s)
             old == payment[p]
  <1>3. /\ old \in Payment /\ old.on \in Invoices /\ Plausible(old)
        /\ old.amount \in Nat /\ old.refunded \in Nat /\ old.contested \in Nat
        /\ Stood(payment, p) = Standing(old) /\ invoice[old.on].status \notin {"none", "draft"}
    BY <1>2, StandingPayment
  <1>4. /\ pay \in Payment /\ pay.on = old.on /\ pay.status = s /\ pay.amount = old.amount
        /\ pay.refunded = IF s = "refunded" THEN old.amount ELSE old.refunded
        /\ pay.contested = IF s = "disputed" THEN old.refunded ELSE old.contested
    BY <1>2, <1>3 DEF Payment
  <1>5. Reconcile(p, pay)
    BY <1>1
  <1>6. /\ s = "succeeded" => Fits(old.on, old.amount)
        /\ s \in {"processing", "failed"} =>
             old.status \in {"none", "pending", "processing", "failed"}
        /\ s = "succeeded" =>
             old.status \in {"none", "pending", "processing", "failed", "disputed"}
        /\ s = "disputed" => old.status = "succeeded"
        /\ s = "refunded" => old.status \in {"succeeded", "disputed"}
    BY <1>1, <1>2
  <1>7. old = payment[p]
    OBVIOUS
  <1> HIDE DEF pay, old, W
  <1>8. Plausible(pay)
    <2>1. pay.refunded <= pay.amount /\ pay.contested <= pay.refunded
      BY <1>3, <1>4 DEF Plausible
    <2>2. pay.status \in {"none", "pending", "processing", "failed"} => pay.refunded = 0
      BY <1>2, <1>3, <1>4, <1>6 DEF Plausible, PaymentStatuses
    <2>3. pay.status = "disputed" => pay.contested = pay.refunded
      BY <1>4
    <2> QED
      BY <2>1, <2>2, <2>3 DEF Plausible
  <1>9. \/ Standing(pay) <= Standing(old)
        \/ Standing(pay) - Standing(old) <= invoice[old.on].total - Net(payment, old.on)
    <2>1. CASE s = "succeeded"
      <3>1. old.contested = old.refunded /\ old.status \notin Settled
        BY <1>3, <1>6, <2>1 DEF Plausible, Settled
      <3>2. Standing(pay) - Standing(old) = old.amount - old.refunded
        BY <1>3, <1>4, <2>1, <3>1 DEF Standing, Settled
      <3>3. old.amount <= invoice[old.on].total - Net(payment, old.on)
        BY <1>6, <2>1 DEF Fits
      <3>4. invoice[old.on].total - Net(payment, old.on) \in Int
        BY <1>3, NetIsNumber DEF CollectedInv, BilledInv, Shapes, IShape, PShape, Rows
      <3> QED
        BY <1>3, <3>2, <3>3, <3>4
    <2>2. CASE s \in {"processing", "failed"}
      BY <1>3, <1>4, <1>6, <2>2 DEF Standing, Settled
    <2>3. CASE s = "disputed"
      BY <1>3, <1>4, <1>6, <2>3 DEF Standing, Settled, Plausible
    <2>4. CASE s = "refunded"
      BY <1>3, <1>4, <1>6, <2>4 DEF Standing, Settled, Plausible
    <2>5. s \in {"processing", "succeeded", "failed", "disputed", "refunded"}
      BY <1>2 DEF PaymentStatuses
    <2> QED
      BY <2>1, <2>2, <2>3, <2>4, <2>5
  <1>10. pay.status # "none"
    BY <1>2, <1>4 DEF PaymentStatuses
  <1> QED
    BY <1>3, <1>4, <1>5, <1>7, <1>8, <1>9, <1>10 DEF Writes

\* What refundPaymentInTx changes.
LEMMA RefundWrites ==
    ASSUME CollectedInv, NEW p \in Payments, Refund(p)
    PROVE  \E pay : Writes(p, pay)
  <1> DEFINE W(s, n) == [payment[p] EXCEPT !.refunded = n, !.status = s]
             old == payment[p]
  <1>1. PICK a \in Amounts :
          /\ old.refunded + a <= old.amount
          /\ Reconcile(p, W(IF old.refunded + a = old.amount
                            THEN "refunded" ELSE "succeeded", old.refunded + a))
    BY DEF Refund
  <1>2. old.status = "succeeded" /\ a \in Nat
    BY InvoicingAssumption DEF Refund
  <1>3. /\ old \in Payment /\ old.on \in Invoices
        /\ old.amount \in Nat /\ old.refunded \in Nat /\ old.contested \in Nat
        /\ Stood(payment, p) = Standing(old) /\ invoice[old.on].status \notin {"none", "draft"}
        /\ Plausible(old)
    BY <1>2, StandingPayment
  <1> DEFINE s == IF old.refunded + a = old.amount THEN "refunded" ELSE "succeeded"
             n == old.refunded + a
             pay == W(s, n)
  <1>4. s \in {"refunded", "succeeded"} /\ n \in Nat /\ n <= old.amount /\ old.refunded <= n
    BY <1>1, <1>2, <1>3
  <1>5. Reconcile(p, pay) /\ old = payment[p]
    BY <1>1
  <1> HIDE DEF s, n
  <1>6. pay \in Payment /\ pay.on = old.on /\ pay.status = s /\ pay.amount = old.amount /\ pay.refunded = n
        /\ pay.contested = old.contested
    BY <1>3, <1>4 DEF Payment, PaymentStatuses
  <1> HIDE DEF pay, old, W
  <1>7. Plausible(pay) /\ pay.status # "none"
    BY <1>3, <1>4, <1>6 DEF Plausible
  <1>8. Standing(pay) <= Standing(old)
    BY <1>2, <1>3, <1>4, <1>6 DEF Standing, Settled
  <1> QED
    BY <1>3, <1>5, <1>6, <1>7, <1>8 DEF Writes

\* A write of a payment that fits keeps the sum within the total, and
\* reconciliation the status with the sum.
LEMMA WritesKeep ==
    ASSUME CollectedInv, BilledInv', NEW p \in Payments, NEW pay, Writes(p, pay)
    PROVE  PayInv' /\ byHand' \subseteq Invoices /\ WithinTotal' /\ PaidIsCollected'
  <1> DEFINE i == pay.on
  <1>1. /\ payment \in [Payments -> Payment] /\ pay \in Payment /\ i \in Invoices
        /\ payment' = [payment EXCEPT ![p] = pay]
        /\ payment[p].on \in {None, i} /\ Plausible(pay) /\ pay.status # "none"
        /\ IShape /\ PShape /\ byHand \subseteq Invoices
    BY DEF Writes, Reconcile, CollectedInv, BilledInv, Shapes, PShape
  <1>2. /\ payment' \in [Payments -> Payment] /\ payment'[p] = pay
        /\ \A q \in Payments \ {p} : payment'[q] = payment[q]
    BY <1>1
  <1>3. /\ Net(payment', i) = Net(payment, i) + Counts(pay) - Was(payment, p)
        /\ \A j \in Invoices \ {i} : Net(payment', j) = Net(payment, j)
        /\ Was(payment, p) \in Int /\ Counts(pay) \in Int
    <2> DEFINE new == payment'
    <2>1. /\ payment \in [Payments -> Payment] /\ pay \in Payment /\ pay.on \in Invoices
          /\ payment[p].on \in {None, pay.on}
          /\ new \in [Payments -> Payment] /\ new[p] = pay
          /\ \A q \in Payments \ {p} : new[q] = payment[q]
      BY <1>1, <1>2
    <2> HIDE DEF new
    <2>2. /\ Net(new, pay.on) = Net(payment, pay.on) + Counts(pay) - Was(payment, p)
          /\ \A j \in Invoices \ {pay.on} : Net(new, j) = Net(payment, j)
          /\ Was(payment, p) \in Int /\ Counts(pay) \in Int
      BY ONLY <2>1, NetMoves, p \in Payments
    <2> QED
      BY <2>2 DEF new
  <1>0. /\ Sum(payment', i) = Sum(payment, i) + Standing(pay) - Stood(payment, p)
        /\ \A j \in Invoices \ {i} : Sum(payment', j) = Sum(payment, j)
        /\ Stood(payment, p) \in Int /\ Standing(pay) \in Int
    <2> DEFINE new == payment'
               f == Stands(payment)
               g == Stands(new)
    <2>1. /\ payment \in [Payments -> Payment] /\ pay \in Payment /\ pay.on \in Invoices
          /\ payment[p].on \in {None, pay.on}
          /\ new \in [Payments -> Payment] /\ new[p] = pay
          /\ \A q \in Payments \ {p} : new[q] = payment[q]
      BY <1>1, <1>2
    <2> HIDE DEF new
    <2>2. \A q \in Payments : /\ f[q] = Standing(payment[q]) /\ f[q] \in Int
                              /\ g[q] = Standing(new[q]) /\ g[q] \in Int
      BY <2>1, StandingIsNumber
    <2>3. \A q \in Payments \ {p} : g[q] = f[q]
      BY <2>1, <2>2
    <2>4. \A j : Sum(payment, j) = Over(For(payment, j), f) /\ Sum(new, j) = Over(For(new, j), g)
      BY DEF Sum
    <2> HIDE DEF f, g
    <2>5. /\ Over(For(new, pay.on), g)
               = Over(For(payment, pay.on), f) + g[p] - (IF payment[p].on = None THEN 0 ELSE f[p])
          /\ \A j \in Invoices \ {pay.on} : Over(For(new, j), g) = Over(For(payment, j), f)
      BY ONLY <2>1, <2>2, <2>3, SumMoves, p \in Payments
    <2>6. /\ Sum(new, pay.on) = Sum(payment, pay.on) + Standing(pay) - Stood(payment, p)
          /\ \A j \in Invoices \ {pay.on} : Sum(new, j) = Sum(payment, j)
          /\ Stood(payment, p) \in Int /\ Standing(pay) \in Int
      BY <2>1, <2>2, <2>4, <2>5 DEF Stood
    <2> QED
      BY <2>6 DEF new
  <1>4. \A j \in Invoices : /\ invoice'[j].total = invoice[j].total
                            /\ (invoice[j].status \in {"none", "draft"})
                                 <=> (invoice'[j].status \in {"none", "draft"})
    <2>1. Reconcile(p, pay)
      BY DEF Writes
    <2> QED
      BY <1>1, <2>1, Reconciled
  <1>5. invoice[i].status \notin {"none", "draft"}
    BY DEF Writes
  <1>6. PayInv'
    <2>1. ASSUME NEW q \in Payments
          PROVE  /\ Plausible(payment'[q])
                 /\ payment'[q].status = "none" => payment'[q].on = None
                 /\ payment'[q].on \in Invoices =>
                      invoice'[payment'[q].on].status \notin {"none", "draft"}
      <3>1. CASE q = p
        BY <1>1, <1>2, <1>4, <1>5, <3>1
      <3>2. CASE q # p
        <4>1. payment'[q] = payment[q]
          BY <1>2, <3>2
        <4> QED
          BY <1>4, <4>1 DEF CollectedInv, PayInv
      <3> QED
        BY <3>1, <3>2
    <2> QED
      BY <2>1 DEF PayInv
  <1>7. WithinTotal'
    <2> SUFFICES ASSUME NEW j \in Invoices PROVE Sum(payment', j) <= invoice'[j].total
      BY DEF WithinTotal
    <2>1. Sum(payment, j) <= invoice[j].total /\ Sum(payment, i) <= invoice[i].total
      BY <1>1 DEF CollectedInv, WithinTotal
    <2>2. CASE j # i
      BY <1>0, <1>4, <2>1, <2>2
    <2>3. CASE j = i
      <3>1. \/ Standing(pay) <= Stood(payment, p)
            \/ Standing(pay) - Stood(payment, p) <= invoice[i].total - Net(payment, i)
        BY DEF Writes
      <3>2. Net(payment, i) \in Int /\ invoice[i].total \in Nat
        BY <1>1, NetIsNumber DEF IShape, Rows
      <3>3. invoice'[i].total = invoice[i].total
        BY <1>1, <1>4
      <3>4. Sum(payment, i) \in Int /\ Sum(payment, i) <= Net(payment, i)
        BY <1>1, SumIsBelowNet DEF CollectedInv, PayInv
      <3> HIDE DEF i
      <3>5. Sum(payment', i) <= invoice[i].total
        BY <1>0, <2>1, <3>1, <3>2, <3>4
      <3> QED
        BY <2>3, <3>3, <3>5
    <2> QED
      BY <2>2, <2>3
  <1>8. byHand' \subseteq Invoices
    BY <1>1 DEF Writes, Reconcile
  <1>9. PaidIsCollected'
    <2> SUFFICES ASSUME NEW j \in Invoices, Payable(j)', On(j)' # {}, j \notin byHand'
                 PROVE  invoice'[j].status = "paid" <=> Net(payment', j) >= invoice'[j].total
      BY DEF PaidIsCollected
    <2>1. CASE j = i /\ Payable(i)
      <3> DEFINE s == IF Net(payment', i) >= invoice[i].total THEN "paid" ELSE "sent"
      <3>1. invoice' = [invoice EXCEPT ![i].status = s]
        BY <2>1 DEF Writes, Reconcile
      <3>2. invoice'[i].status = s
        BY <1>1, <3>1 DEF IShape, Rows
      <3>3. s = "paid" <=> Net(payment', i) >= invoice[i].total
        OBVIOUS
      <3> QED
        BY <1>1, <1>4, <2>1, <3>2, <3>3
    <2>2. CASE j = i /\ ~Payable(i)
      <3>1. UNCHANGED invoice
        BY <2>2 DEF Writes, Reconcile
      <3> QED
        BY <2>2, <3>1 DEF Payable
    <2>3. CASE j # i
      <3>1. invoice'[j] = invoice[j]
        BY <1>1, <2>3 DEF Writes, Reconcile, IShape
      <3>2. On(j)' = On(j)
        BY <1>1, <1>2, <2>3, InvoicingAssumption DEF On
      <3>3. j \in byHand <=> j \in byHand'
        BY <2>3 DEF Writes, Reconcile
      <3>4. Payable(j)
        BY <3>1 DEF Payable
      <3>5. invoice[j].status = "paid" <=> Net(payment, j) >= invoice[j].total
        BY <3>2, <3>3, <3>4 DEF CollectedInv, PaidIsCollected
      <3>6. Net(payment', j) = Net(payment, j)
        BY <1>3, <2>3
      <3> QED
        BY <3>1, <3>5, <3>6
    <2> QED
      BY <2>1, <2>2, <2>3
  <1> QED
    BY <1>6, <1>7, <1>8, <1>9

\* Nothing else touches the payments, nor the invoices they are for.
LEMMA OthersKeep ==
    ASSUME CollectedInv, BilledInv',
           UNCHANGED payment, byHand' \subseteq Invoices,
           \A j \in Invoices : invoice[j].status \notin {"none", "draft"} =>
               /\ invoice'[j].status \notin {"none", "draft"}
               /\ invoice'[j].total = invoice[j].total,
           \A j \in Invoices : Net(payment, j) \in Int,
           \A j \in Invoices :
               \/ invoice[j].status \in {"none", "draft"}
               \/ invoice'[j].status = invoice[j].status /\ (j \in byHand => j \in byHand')
               \/ invoice'[j].status = "paid" /\ j \in byHand'
               \/ invoice'[j].status = "void"
    PROVE  PayInv' /\ WithinTotal' /\ PaidIsCollected'
  <1>1. PayInv'
    BY DEF CollectedInv, PayInv
  <1>2. \A j \in Invoices : invoice[j].status \in {"none", "draft"} => On(j) = {}
    BY DEF On, CollectedInv, PayInv
  <1>3. IShape' /\ payment \in [Payments -> Payment]
    BY DEF CollectedInv, BilledInv, Shapes, PShape
  <1>4. WithinTotal'
    <2> SUFFICES ASSUME NEW j \in Invoices PROVE Sum(payment, j) <= invoice'[j].total
      BY DEF WithinTotal
    <2>1. CASE invoice[j].status \notin {"none", "draft"}
      BY <2>1 DEF CollectedInv, WithinTotal
    <2>2. CASE invoice[j].status \in {"none", "draft"}
      <3>1. For(payment, j) = {}
        BY <1>2, <2>2 DEF On, For
      <3>2. Sum(payment, j) = 0
        BY <3>1, SumOfNothing DEF Sum
      <3>3. invoice'[j].total \in Nat
        BY <1>3 DEF IShape, Rows
      <3> QED
        BY <3>2, <3>3
    <2> QED
      BY <2>1, <2>2
  <1>5. PaidIsCollected'
    <2> SUFFICES ASSUME NEW j \in Invoices, Payable(j)', On(j)' # {}, j \notin byHand'
                 PROVE  invoice'[j].status = "paid" <=> Net(payment', j) >= invoice'[j].total
      BY DEF PaidIsCollected
    <2>1. On(j)' = On(j)
      BY DEF On
    <2>2. invoice[j].status \notin {"none", "draft"}
      BY <1>2, <2>1
    <2>3. invoice'[j].status = invoice[j].status /\ j \notin byHand
      BY <2>2 DEF Payable
    <2>4. Payable(j)
      BY <2>3 DEF Payable
    <2>5. invoice[j].status = "paid" <=> Net(payment, j) >= invoice[j].total
      BY <2>1, <2>3, <2>4 DEF CollectedInv, PaidIsCollected
    <2> QED
      BY <2>2, <2>3, <2>5
  <1> QED
    BY <1>1, <1>4, <1>5

LEMMA CollectedInit == Init => CollectedInv
  <1> SUFFICES ASSUME Init PROVE CollectedInv
    OBVIOUS
  <1>1. BilledInv /\ TotalIsTheLines
    BY BilledInit, TotalsInit
  <1>2. PayInv
    BY InvoicingAssumption DEF Init, PayInv, Plausible, NoPayment
  <1>3. WithinTotal
    <2> SUFFICES ASSUME NEW i \in Invoices PROVE Sum(payment, i) <= invoice[i].total
      BY DEF WithinTotal
    <2>1. For(payment, i) = {} /\ payment \in [Payments -> Payment]
      BY <1>1, InvoicingAssumption DEF Init, NoPayment, For, BilledInv, Shapes, PShape
    <2>2. Sum(payment, i) = 0
      BY <2>1, SumOfNothing DEF Sum
    <2> QED
      BY <2>2 DEF Init, NoInvoice
  <1>4. PaidIsCollected
    BY DEF Init, NoInvoice, PaidIsCollected, Payable
  <1> QED
    BY <1>1, <1>2, <1>3, <1>4 DEF Init, CollectedInv

\* Every step keeps the invariant of the three modules.
LEMMA CollectedNext ==
    ASSUME CollectedInv, [Next]_vars
    PROVE  CollectedInv'
  <1>1. BilledInv' /\ TotalIsTheLines'
    <2>1. CASE Next
      BY <2>1, BilledNext, TotalsNext DEF CollectedInv
    <2>2. CASE UNCHANGED vars
      BY <2>2 DEF vars, CollectedInv, BilledInv, Shapes, IShape, EShape, LShape, PShape,
                  TimeIsBilledOnce, TotalIsTheLines, LinesOn, LineFor
    <2> QED
      BY <2>1, <2>2
  <1>2. \A j \in Invoices : Net(payment, j) \in Int
    BY NetIsNumber DEF CollectedInv, BilledInv, Shapes, PShape
  <1>3. CASE \/ \E p \in Payments, i \in Invoices : RecordPayment(p, i)
             \/ \E p \in Payments : SetPaymentStatus(p) \/ Refund(p)
    <2>1. PICK p \in Payments : \E pay : Writes(p, pay)
      BY <1>3, RecordWrites, StatusWrites, RefundWrites
    <2>2. PICK pay : Writes(p, pay)
      BY <2>1
    <2> QED
      BY <1>1, <2>2, WritesKeep DEF CollectedInv
  <1>4. ASSUME UNCHANGED payment, byHand' \subseteq Invoices,
               \A j \in Invoices : invoice[j].status \notin {"none", "draft"} =>
                   /\ invoice'[j].status \notin {"none", "draft"}
                   /\ invoice'[j].total = invoice[j].total,
               \A j \in Invoices :
                   \/ invoice[j].status \in {"none", "draft"}
                   \/ invoice'[j].status = invoice[j].status /\ (j \in byHand => j \in byHand')
                   \/ invoice'[j].status = "paid" /\ j \in byHand'
                   \/ invoice'[j].status = "void"
        PROVE  CollectedInv'
    BY <1>1, <1>2, <1>4, OthersKeep DEF CollectedInv
  <1>5. ASSUME UNCHANGED <<invoice, payment, byHand>> PROVE CollectedInv'
    BY <1>4, <1>5 DEF CollectedInv
  <1>6. ASSUME NEW i \in Invoices, Create(i) \/ Rewrite(i) \/ Delete(i) \/ SetInvoiceStatus(i)
        PROVE  CollectedInv'
    <2>1. \A j \in Invoices : invoice[j].status \notin {"none", "draft"} =>
            /\ invoice'[j].status \notin {"none", "draft"}
            /\ invoice'[j].total = invoice[j].total
      BY <1>6, AuthorStep DEF CollectedInv, BilledInv
    <2>2. IShape /\ byHand \subseteq Invoices
      BY DEF CollectedInv, BilledInv, Shapes
    <2>3. CASE Create(i) \/ Rewrite(i) \/ Delete(i)
      <3>1. UNCHANGED <<payment, byHand>> /\ invoice[i].status \in {"none", "draft"}
        BY <2>3 DEF Create, Rewrite, Delete
      <3>2. \A j \in Invoices \ {i} : invoice'[j] = invoice[j]
        BY <2>2, <2>3 DEF Create, Rewrite, Delete, IShape
      <3> QED
        BY <1>4, <2>1, <2>2, <3>1, <3>2
    <2>4. CASE SetInvoiceStatus(i)
      <3>1. PICK s \in InvoiceMayBecome(invoice[i].status) :
              /\ invoice' = [invoice EXCEPT ![i].status = s]
              /\ byHand' = IF s = "paid" THEN byHand \cup {i} ELSE byHand
        BY <2>4 DEF SetInvoiceStatus
      <3>2. UNCHANGED payment
        BY <2>4 DEF SetInvoiceStatus
      <3>3. s \in InvoiceStatuses
        BY <3>1 DEF InvoiceMayBecome, InvoiceStatuses
      <3>4. invoice'[i].status = s /\ \A j \in Invoices \ {i} : invoice'[j] = invoice[j]
        BY <2>2, <3>1, <3>3, StatusSet
      <3>5. \/ invoice[i].status \in {"none", "draft"}
            \/ s = "paid" /\ i \in byHand'
            \/ s = "void"
        BY <3>1 DEF InvoiceMayBecome
      <3>6. byHand' \subseteq Invoices /\ byHand \subseteq byHand'
        BY <2>2, <3>1
      <3>7. \A j \in Invoices :
              \/ invoice[j].status \in {"none", "draft"}
              \/ invoice'[j].status = invoice[j].status /\ (j \in byHand => j \in byHand')
              \/ invoice'[j].status = "paid" /\ j \in byHand'
              \/ invoice'[j].status = "void"
        BY <3>4, <3>5, <3>6
      <3> QED
        BY <1>4, <2>1, <3>2, <3>6, <3>7
    <2> QED
      BY <1>6, <2>3, <2>4
  <1>7. ASSUME NEW i \in Invoices, NEW E \in SUBSET Entries, Bill(i, E) \/ Detach(i, E)
        PROVE  CollectedInv'
    <2>1. UNCHANGED <<payment, byHand>> /\ invoice[i].status = "draft" /\ byHand \subseteq Invoices
      BY <1>7 DEF Bill, Detach, CollectedInv
    <2>2. \A j \in Invoices \ {i} : invoice'[j] = invoice[j]
      BY <1>7, BillStep, DetachStep DEF CollectedInv
    <2> QED
      BY <1>4, <2>1, <2>2
  <1>8. ASSUME NEW e \in Entries,
               Log(e) \/ Approve(e) \/ Unapprove(e) \/ Restore(e) \/ VoidEntry(e) \/ DeleteEntry(e)
        PROVE  CollectedInv'
    BY <1>5, <1>8 DEF Log, Approve, Unapprove, Restore, VoidEntry, DeleteEntry
  <1>9. CASE UNCHANGED vars
    BY <1>5, <1>9 DEF vars
  <1>10. ASSUME NEW i \in Invoices, \E E \in SUBSET Entries \ {{}} : Bill(i, E) \/ Detach(i, E)
         PROVE  CollectedInv'
    BY <1>7, <1>10
  <1> QED
    BY <1>3, <1>6, <1>8, <1>9, <1>10 DEF Next

\* The invariant of the three modules together.
LEMMA CollectedAlways == Spec => []CollectedInv
  BY CollectedInit, CollectedNext, PTL DEF Spec

\* The rows hold what their columns are declared to hold.
THEOREM InvoicingTypes == Spec => []TypeOK
  <1>1. CollectedInv => TypeOK
    BY DEF CollectedInv, BilledInv, Shapes, IShape, EShape, LShape, PShape, TypeOK,
           Rows, Entry, Payment, Line
  <1> QED
    BY <1>1, CollectedAlways, PTL

\* Whatever is done to it, an entry is billed by one line, on the invoice it
\* names, and that invoice is there.
THEOREM BilledOnce == Spec => []TimeIsBilledOnce
  <1>1. CollectedInv => TimeIsBilledOnce
    BY DEF CollectedInv, BilledInv
  <1> QED
    BY <1>1, CollectedAlways, PTL

\* An invoice asks for what its lines come to, and bills an invoiced entry for
\* what it was approved for (computeInvoiceTotals, appendDraftInvoiceLineItems).
THEOREM TotalsAreKept == Spec => []TotalIsTheLines
  <1>1. CollectedInv => TotalIsTheLines
    BY DEF CollectedInv
  <1> QED
    BY <1>1, CollectedAlways, PTL

\* What is kept of the payments of an invoice exceeds its total by no more
\* than what had been given back of them when they were disputed:
\* assertWithinInvoiceBalance lets in no more than what invoiceNetCollected
\* leaves, and what that is too low by is what it still subtracts of disputed
\* payments.
THEOREM NothingIsOverCollected == Spec => []NeverOverCollected
  <1>1. CollectedInv => NeverOverCollected
    <2> SUFFICES ASSUME CollectedInv, NEW i \in Invoices
                 PROVE  Kept(i) <= invoice[i].total + Contested(i)
      BY DEF NeverOverCollected
    <2> DEFINE S == For(payment, i)
               P == {p \in On(i) : payment[p].status \in Settled}
               f == Stands(payment)
               c == [p \in Payments |-> payment[p].contested]
               g == [p \in Payments |-> payment[p].amount - payment[p].refunded]
               h == [p \in Payments |-> IF payment[p].status \in Settled THEN g[p] ELSE 0]
    <2>1. payment \in [Payments -> Payment] /\ invoice[i].total \in Nat
      BY DEF CollectedInv, BilledInv, Shapes, IShape, PShape, Rows
    <2>2. /\ S = On(i) /\ P \in SUBSET S /\ S \subseteq Payments
          /\ IsFiniteSet(S) /\ IsFiniteSet(P)
      BY InvoicingAssumption, FS_Subset DEF For, On
    <2>3. ASSUME NEW p \in Payments
          PROVE  /\ f[p] \in Int /\ c[p] \in Int /\ h[p] \in Int /\ h[p] = f[p] + c[p]
      <3>1. payment[p].amount \in Nat /\ payment[p].refunded \in Nat /\ payment[p].contested \in Nat
        BY <2>1 DEF Payment
      <3> QED
        BY <3>1 DEF Stands, Standing
    <2>4. \A p \in S : h[p] \in Int /\ (p \notin P => h[p] = 0) /\ (p \in P => h[p] = g[p])
      BY <2>2, <2>3
    <2>5. Kept(i) = Over(P, g) /\ Contested(i) = Over(S, c) /\ Sum(payment, i) = Over(S, f)
      BY <2>2 DEF Kept, Contested, Sum
    <2>6. \A p \in S : f[p] \in Int /\ c[p] \in Int /\ h[p] = f[p] + c[p]
      BY <2>2, <2>3
    <2> HIDE DEF S, P, f, c, g, h
    <2>7. Over(P, g) = Over(P, h)
      BY <2>2, <2>4, SumsAgree
    <2>8. Over(S, h) = Over(P, h)
      BY <2>2, <2>4, SumOfThoseThatCount
    <2>9. Over(S, h) = Over(S, f) + Over(S, c)
      BY <2>2, <2>6, SumOfSums
    <2>10. Over(S, f) \in Int /\ Over(S, c) \in Int
      BY <2>2, <2>6, SumIsNumber
    <2>11. Sum(payment, i) <= invoice[i].total
      BY DEF CollectedInv, WithinTotal
    <2> QED
      BY <2>1, <2>5, <2>7, <2>8, <2>9, <2>10, <2>11
  <1> QED
    BY <1>1, CollectedAlways, PTL

\* An invoice that money was recorded for is paid exactly when what was
\* collected covers it, until an operator marks it: reconcileInvoice looks at
\* it after every write of a payment, and nothing else moves either side.
THEOREM PaidWhenCollected == Spec => []PaidIsCollected
  <1>1. CollectedInv => PaidIsCollected
    BY DEF CollectedInv
  <1> QED
    BY <1>1, CollectedAlways, PTL

\* No operation of any of the three modules rewrites an invoice that has left
\* its draft.
THEOREM IssuedStays == Spec => IssuedIsFixed
  <1> DEFINE Fixed == \A i \in Invoices : invoice[i].status \notin {"none", "draft"} =>
                          /\ invoice'[i].total = invoice[i].total
                          /\ LinesOn(i)' = LinesOn(i)
  <1>1. BilledInv /\ [Next]_vars => BilledInv' /\ [Fixed]_vars
    <2>1. ASSUME BilledInv, UNCHANGED vars PROVE BilledInv'
      BY <2>1 DEF vars, BilledInv, Shapes, IShape, EShape, LShape, PShape, TimeIsBilledOnce
    <2> QED
      BY <2>1, BilledNext
  <1> QED
    BY <1>1, BilledInit, PTL DEF Spec, IssuedIsFixed

-----------------------------------------------------------------------------
(***************************************************************************)
(* Agent runs and the money they spend.                                    *)
(***************************************************************************)

\* Every delivery that is about to insert is for a payment Stripe has taken.
CreditInv ==
    /\ paid \subseteq Intents /\ told \subseteq Intents
    /\ credited \in [Intents -> Nat]
    /\ handling \in [Deliveries -> Intents \cup {NoIntent}]
    /\ \A d \in Deliveries : handling[d] # NoIntent => handling[d] \in paid
    /\ CreditedOnce

LEMMA CreditStarts == SpendInit => CreditInv
  BY DEF SpendInit, CreditInv, CreditedOnce

\* A delivery that finds no top-up may insert one.
LEMMA DeliverKeepsCredit ==
    ASSUME CreditInv, NEW d \in Deliveries, NEW i \in Intents, Deliver(d, i)
    PROVE  CreditInv'
  <1>1. CASE credited[i] > 0 /\ told' = told \cup {i} /\ UNCHANGED handling
    <2>1. credited[i] = 1
      BY <1>1 DEF CreditInv, CreditedOnce
    <2> QED
      BY <1>1, <2>1 DEF CreditInv, CreditedOnce, Deliver
  <1>2. CASE handling' = [handling EXCEPT ![d] = i] /\ UNCHANGED told
    <2>1. /\ handling' \in [Deliveries -> Intents \cup {NoIntent}]
          /\ \A e \in Deliveries : handling'[e] # NoIntent => handling'[e] \in paid
      BY <1>2 DEF CreditInv, Deliver
    <2> QED
      BY <1>2, <2>1 DEF CreditInv, CreditedOnce, Deliver
  <1> QED
    BY <1>1, <1>2 DEF Deliver

\* The unique index lets one insert through.
LEMMA InsertKeepsCredit ==
    ASSUME CreditInv, NEW d \in Deliveries, InsertTopUp(d)
    PROVE  CreditInv'
  <1> DEFINE i == handling[d]
  <1>1. i \in Intents /\ i \in paid
    BY DEF CreditInv, InsertTopUp
  <1>2. /\ handling' \in [Deliveries -> Intents \cup {NoIntent}]
        /\ \A e \in Deliveries : handling'[e] # NoIntent => handling'[e] \in paid
    BY DEF CreditInv, InsertTopUp
  <1>3. CASE credited[i] = 0 /\ credited' = [credited EXCEPT ![i] = @ + 1] /\ told' = told \cup {i}
    <2>1. credited' \in [Intents -> Nat] /\ credited'[i] = 1
      BY <1>1, <1>3 DEF CreditInv
    <2>2. \A j \in Intents \ {i} : credited'[j] = credited[j]
      BY <1>3 DEF CreditInv
    <2>3. CreditedOnce'
      BY <1>1, <1>3, <2>1, <2>2 DEF CreditInv, CreditedOnce, InsertTopUp
    <2> QED
      BY <1>1, <1>2, <1>3, <2>1, <2>3 DEF CreditInv, InsertTopUp
  <1>4. CASE UNCHANGED <<credited, told>>
    BY <1>2, <1>4 DEF CreditInv, CreditedOnce, InsertTopUp
  <1> QED
    BY <1>3, <1>4 DEF InsertTopUp

\* Every step keeps credit arriving once.
LEMMA CreditStep == CreditInv /\ [SpendNext]_spendVars => CreditInv'
  <1> SUFFICES ASSUME CreditInv, [SpendNext]_spendVars PROVE CreditInv'
    OBVIOUS
  <1>1. CASE UNCHANGED creditVars
    BY <1>1 DEF CreditInv, CreditedOnce, creditVars
  <1>2. CASE \E r \in Runs : Step(r) \/ Throw(r) \/ Lose(r) \/ Age(r)
    BY <1>1, <1>2 DEF Step, ReadWorkspaceSpend, ReadAllowance, ReadBalance, Turn, Stop, Settle,
                      Throw, Lose, Age
  <1>3. CASE NextMonth
    BY <1>1, <1>3 DEF NextMonth
  <1>4. ASSUME NEW i \in Intents, Pay(i) PROVE CreditInv'
    BY <1>4 DEF CreditInv, CreditedOnce, Pay
  <1>5. ASSUME NEW d \in Deliveries, DeliveryFails(d) PROVE CreditInv'
    BY <1>5 DEF CreditInv, CreditedOnce, DeliveryFails
  <1>6. CASE UNCHANGED spendVars
    BY <1>1, <1>6 DEF spendVars
  <1> QED
    BY <1>2, <1>3, <1>4, <1>5, <1>6, DeliverKeepsCredit, InsertKeepsCredit DEF SpendNext

\* Whatever Stripe delivers, again and side by side, a payment is in the ledger
\* at most once, never before it was taken, and always when Stripe was told so
\* (credits.ts recordTopUp).
THEOREM TopUpsArriveOnce == SpendSpec => []CreditedOnce
  <1>1. CreditInv => CreditedOnce
    BY DEF CreditInv
  <1> QED
    BY <1>1, CreditStarts, CreditStep, PTL DEF SpendSpec

-----------------------------------------------------------------------------
\* The amounts of the ledger add up to numbers.
SumsAreNumbers == Balance \in Int /\ \A w \in Workspaces : WorkspaceSpend(w) \in Int

\* What one turn may cost at most.
LEMMA MostIsMost ==
    /\ MostOfTurn \in TurnCosts /\ MostOfTurn \in Nat
    /\ \A c \in TurnCosts : c \in Nat /\ c <= MostOfTurn
  <1>1. /\ MostOfTurn \in TurnCosts
        /\ \A c \in TurnCosts : MostOfTurn >= c
    BY AgentSpendAssumption DEF MostOfTurn, Max
  <1> QED
    BY <1>1, AgentSpendAssumption

TopUps == Over(Intents, [i \in Intents |-> Amount[i] * credited[i]])

\* The sums of the ledger are numbers.
LEMMA SumsAre ==
    ASSUME SpendTypeOK
    PROVE  /\ TopUps \in Nat /\ Over(Runs, drawn) \in Nat
           /\ Balance = TopUps - Over(Runs, drawn)
           /\ \A w \in Workspaces : WorkspaceSpend(w) \in Nat
           /\ SumsAreNumbers
  <1>1. TopUps \in Nat
    <2> DEFINE f == [i \in Intents |-> Amount[i] * credited[i]]
    <2>1. \A i \in Intents : f[i] \in Nat
      <3> SUFFICES ASSUME NEW i \in Intents PROVE Amount[i] * credited[i] \in Nat
        OBVIOUS
      <3>1. Amount[i] \in Nat /\ credited[i] \in Nat
        BY AgentSpendAssumption DEF SpendTypeOK
      <3> QED
        BY <3>1
    <2> HIDE DEF f
    <2>2. Over(Intents, f) \in Nat
      BY <2>1, SumIsNat, AgentSpendAssumption
    <2> QED
      BY <2>2 DEF TopUps, f
  <1>2. Over(Runs, drawn) \in Nat
    BY SumIsNat, AgentSpendAssumption DEF SpendTypeOK
  <1>3. ASSUME NEW w \in Workspaces PROVE WorkspaceSpend(w) \in Nat
    <2> DEFINE S == {r \in recent : WorkspaceOf[r] = w}
    <2>1. S \in SUBSET Runs /\ \A r \in S : drawn[r] \in Nat
      BY DEF SpendTypeOK
    <2>2. IsFiniteSet(S)
      BY <2>1, FS_Subset, AgentSpendAssumption
    <2> HIDE DEF S
    <2>3. Over(S, drawn) \in Nat
      BY <2>1, <2>2, SumIsNat
    <2> QED
      BY <2>3 DEF WorkspaceSpend, S
  <1>4. Balance = TopUps - Over(Runs, drawn)
    BY DEF Balance, TopUps
  <1> QED
    BY <1>1, <1>2, <1>3, <1>4 DEF SumsAreNumbers

(***************************************************************************)
(* The types of AgentSpend.                                                *)
(***************************************************************************)

At == {"idle", "capped", "overage", "running", "settling", "answered", "refused", "lost"}
RunTypes ==
    /\ at \in [Runs -> At]
    /\ left \in [Runs -> Int]
    /\ ceiling \in [Runs -> Nat]
    /\ funding \in [Runs -> {Nobody, "plan", "credits"}]
    /\ steps \in [Runs -> 0..MaxSteps]
    /\ cost \in [Runs -> Nat]
LedgerTypes ==
    /\ drawn \in [Runs -> Nat] /\ counted \in [Runs -> Nat]
    /\ recent \subseteq Runs /\ used \in Nat
CreditTypes ==
    /\ paid \subseteq Intents /\ told \subseteq Intents
    /\ credited \in [Intents -> Nat]
    /\ handling \in [Deliveries -> Intents \cup {NoIntent}]
BoundTypes == failures \in 0..MaxFailures /\ months \in 0..MaxMonths
OverlapType == overlap \in 0..Cardinality(Runs)

\* The types, one by one.
LEMMA TypesAre ==
    /\ SpendTypeOK <=> RunTypes /\ LedgerTypes /\ CreditTypes /\ BoundTypes /\ OverlapType
    /\ SpendTypeOK' <=> RunTypes' /\ LedgerTypes' /\ CreditTypes' /\ BoundTypes' /\ OverlapType'
  BY DEF SpendTypeOK, RunTypes, LedgerTypes, CreditTypes, BoundTypes, OverlapType, At

\* The runs in flight are finitely many.
LEMMA FlightIsFinite ==
    /\ IsFiniteSet(InFlight) /\ InFlight \subseteq Runs
    /\ Cardinality(InFlight) \in Nat
    /\ Cardinality(Runs) \in Nat
  BY AgentSpendAssumption, FS_Subset, FS_CardinalityType DEF InFlight

\* Admission keeps the types.
LEMMA AdmitTypes ==
    ASSUME RunTypes, NEW r \in Runs, NEW payer \in {"plan", "credits"}, NEW budget \in Nat,
           Admit(r, payer, budget)
    PROVE  RunTypes'
  BY DEF RunTypes, Admit, At

\* Refusal keeps the types.
LEMMA RefuseTypes ==
    ASSUME RunTypes, NEW r \in Runs, Refuse(r)
    PROVE  RunTypes'
  BY DEF RunTypes, Refuse, At

\* The end of a run keeps the types.
LEMMA EndTypes ==
    ASSUME RunTypes, NEW r \in Runs, EndRun(r), UNCHANGED <<left, funding>>,
           cost' \in [Runs -> Nat]
    PROVE  RunTypes'
  <1>1. 0 \in 0..MaxSteps /\ 0 \in Nat
    BY AgentSpendAssumption
  <1>2. steps' \in [Runs -> 0..MaxSteps] /\ ceiling' \in [Runs -> Nat]
    BY <1>1 DEF RunTypes, EndRun
  <1>3. at' \in [Runs -> At]
    BY DEF RunTypes, EndRun, At
  <1> QED
    BY <1>2, <1>3 DEF RunTypes

\* A step of a run keeps the types.
LEMMA StepTypes ==
    ASSUME SpendTypeOK, NEW r \in Runs, Step(r)
    PROVE  SpendTypeOK'
  <1> USE TypesAre
  <1>1. CASE ReadWorkspaceSpend(r)
    <2>1. Cap - WorkspaceSpend(WorkspaceOf[r]) \in Int
      BY SumsAre, AgentSpendAssumption
    <2>2. RunTypes'
      BY <1>1, <2>1 DEF ReadWorkspaceSpend, RunTypes, At
    <2>3. overlap' \in 0..Cardinality(Runs)
      <3>1. r \notin InFlight
        BY <1>1 DEF ReadWorkspaceSpend, InFlight
      <3>2. Cardinality(InFlight \cup {r}) = Cardinality(InFlight) + 1
        BY <3>1, FlightIsFinite, FS_AddElement
      <3>3. Cardinality(InFlight \cup {r}) <= Cardinality(Runs)
        <4>1. InFlight \cup {r} \in SUBSET Runs
          BY FlightIsFinite
        <4> QED
          BY <4>1, AgentSpendAssumption, FS_Subset
      <3>4. overlap' = Greater(overlap, Cardinality(InFlight) + 1)
        BY <1>1 DEF ReadWorkspaceSpend
      <3>5. overlap \in 0..Cardinality(Runs)
        BY DEF OverlapType
      <3> QED
        BY <3>2, <3>3, <3>4, <3>5, FlightIsFinite DEF Greater
    <2> QED
      BY <1>1, <2>2, <2>3 DEF ReadWorkspaceSpend, LedgerTypes, CreditTypes, BoundTypes,
                               OverlapType, ledgerVars, creditVars
  <1>2. CASE ReadAllowance(r)
    <2>1. RunTypes'
      <3>1. CASE Refuse(r)
        BY <3>1, RefuseTypes
      <3>2. CASE left[r] > 0 /\ Admit(r, "plan", Lesser(MaxRun, left[r]))
        <4>1. Lesser(MaxRun, left[r]) \in Nat
          BY <3>2, AgentSpendAssumption DEF Lesser, RunTypes
        <4> QED
          BY <3>2, <4>1, AdmitTypes
      <3>3. CASE /\ at' = [at EXCEPT ![r] = "overage"]
                 /\ UNCHANGED <<left, ceiling, funding, steps, cost>>
        BY <3>3 DEF RunTypes, At
      <3> QED
        BY <1>2, <3>1, <3>2, <3>3 DEF ReadAllowance
    <2> QED
      BY <1>2, <2>1 DEF ReadAllowance, LedgerTypes, CreditTypes, BoundTypes,
                        OverlapType, ledgerVars, creditVars
  <1>3. CASE ReadBalance(r)
    <2>1. RunTypes'
      <3>1. CASE Refuse(r)
        BY <3>1, RefuseTypes
      <3>2. CASE Balance > 0 /\ left[r] > 0 /\ Admit(r, "credits", CreditCeiling(r))
        <4>1. Balance \in Int
          BY SumsAre DEF SumsAreNumbers
        <4>2. CreditCeiling(r) \in Nat
          BY <3>2, <4>1, AgentSpendAssumption DEF CreditCeiling, Lesser, RunTypes
        <4> QED
          BY <3>2, <4>2, AdmitTypes
      <3> QED
        BY <1>3, <3>1, <3>2 DEF ReadBalance
    <2> QED
      BY <1>3, <2>1 DEF ReadBalance, LedgerTypes, CreditTypes, BoundTypes,
                        OverlapType, ledgerVars, creditVars
  <1>4. ASSUME NEW c \in TurnCosts, Turn(r, c) PROVE SpendTypeOK'
    <2>1. cost' \in [Runs -> Nat]
      BY <1>4, MostIsMost DEF Turn, RunTypes
    <2>2. RunTypes'
      <3>1. CASE EndRun(r)
        BY <1>4, <2>1, <3>1, EndTypes DEF Turn
      <3>2. CASE /\ ~BudgetExceeded(r, steps[r], cost[r] + c)
                 /\ steps' = [steps EXCEPT ![r] = @ + 1] /\ UNCHANGED <<at, ceiling>>
        <4>1. steps[r] \in 0..MaxSteps /\ ~(steps[r] >= MaxSteps)
          BY <3>2 DEF BudgetExceeded, RunTypes
        <4>2. steps[r] + 1 \in 0..MaxSteps
          BY <4>1, AgentSpendAssumption
        <4>3. steps' \in [Runs -> 0..MaxSteps]
          BY <3>2, <4>2 DEF RunTypes
        <4> QED
          BY <1>4, <2>1, <3>2, <4>3 DEF Turn, RunTypes
      <3> QED
        BY <1>4, <3>1, <3>2 DEF Turn
    <2> QED
      BY <1>4, <2>2 DEF Turn, LedgerTypes, CreditTypes, BoundTypes, OverlapType,
                        ledgerVars, creditVars
  <1>5. CASE Stop(r)
    <2>1. RunTypes'
      BY <1>5, EndTypes DEF Stop, RunTypes
    <2> QED
      BY <1>5, <2>1 DEF Stop, LedgerTypes, CreditTypes, BoundTypes, OverlapType,
                        ledgerVars, creditVars
  <1>6. CASE Settle(r)
    <2>1. RunTypes'
      BY <1>6 DEF Settle, RunTypes, At
    <2>2. LedgerTypes'
      BY <1>6 DEF Settle, RecordSpend, CountAction, WriteSpend, RunTypes, LedgerTypes, ledgerVars
    <2> QED
      BY <1>6, <2>1, <2>2 DEF Settle, CreditTypes, BoundTypes, OverlapType, creditVars
  <1> QED
    BY <1>1, <1>2, <1>3, <1>4, <1>5, <1>6 DEF Step

\* Every step keeps the types.
LEMMA SpendTypesStep ==
    ASSUME SpendTypeOK, [SpendNext]_spendVars
    PROVE  SpendTypeOK'
  <1> USE TypesAre
  <1>1. ASSUME NEW r \in Runs, Throw(r) PROVE SpendTypeOK'
    <2>1. cost' \in [Runs -> Nat] /\ failures' \in 0..MaxFailures
      BY <1>1, AgentSpendAssumption DEF Throw, RunTypes, BoundTypes
    <2>2. RunTypes'
      BY <1>1, <2>1, EndTypes DEF Throw
    <2> QED
      BY <1>1, <2>1, <2>2 DEF Throw, LedgerTypes, CreditTypes, BoundTypes, OverlapType,
                              ledgerVars, creditVars
  <1>2. ASSUME NEW r \in Runs, Lose(r) PROVE SpendTypeOK'
    <2>1. RunTypes' /\ failures' \in 0..MaxFailures
      BY <1>2, AgentSpendAssumption DEF Lose, RunTypes, BoundTypes, At
    <2> QED
      BY <1>2, <2>1 DEF Lose, LedgerTypes, CreditTypes, BoundTypes, OverlapType,
                        ledgerVars, creditVars
  <1>3. ASSUME NEW r \in Runs, Age(r) PROVE SpendTypeOK'
    BY <1>3 DEF Age, RunTypes, LedgerTypes, CreditTypes, BoundTypes, OverlapType,
                runVars, creditVars
  <1>4. CASE NextMonth
    BY <1>4, AgentSpendAssumption DEF NextMonth, RunTypes, LedgerTypes, CreditTypes, BoundTypes,
                OverlapType, runVars, creditVars
  <1>5. ASSUME NEW i \in Intents, Pay(i) PROVE SpendTypeOK'
    BY <1>5 DEF Pay, RunTypes, LedgerTypes, CreditTypes, BoundTypes, OverlapType,
                runVars, ledgerVars
  <1>6. ASSUME NEW d \in Deliveries, NEW i \in Intents, Deliver(d, i) PROVE SpendTypeOK'
    BY <1>6 DEF Deliver, RunTypes, LedgerTypes, CreditTypes, BoundTypes, OverlapType,
                runVars, ledgerVars
  <1>7. ASSUME NEW d \in Deliveries, InsertTopUp(d) PROVE SpendTypeOK'
    <2>1. handling[d] \in Intents
      BY <1>7 DEF InsertTopUp, CreditTypes
    <2>2. CreditTypes'
      BY <1>7, <2>1 DEF InsertTopUp, CreditTypes
    <2> QED
      BY <1>7, <2>2 DEF InsertTopUp, RunTypes, LedgerTypes, BoundTypes, OverlapType,
                        runVars, ledgerVars
  <1>8. ASSUME NEW d \in Deliveries, DeliveryFails(d) PROVE SpendTypeOK'
    <2>1. failures' \in 0..MaxFailures
      BY <1>8, AgentSpendAssumption DEF DeliveryFails, BoundTypes
    <2> QED
      BY <1>8, <2>1 DEF DeliveryFails, RunTypes, LedgerTypes, CreditTypes, BoundTypes,
                        OverlapType, runVars, ledgerVars
  <1>9. CASE UNCHANGED spendVars
    BY <1>9 DEF spendVars, RunTypes, LedgerTypes, CreditTypes, BoundTypes, OverlapType,
                runVars, ledgerVars, creditVars
  <1> QED
    BY <1>1, <1>2, <1>3, <1>4, <1>5, <1>6, <1>7, <1>8, <1>9, StepTypes DEF SpendNext

LEMMA SpendTypesStart == SpendInit => SpendTypeOK
  BY AgentSpendAssumption, FlightIsFinite DEF SpendInit, SpendTypeOK, Nobody, NoIntent

\* Every amount of AgentSpend stays a number of its kind.
THEOREM SpendTypes == SpendSpec => []SpendTypeOK
  BY SpendTypesStart, SpendTypesStep, PTL DEF SpendSpec

\* A run that has not been answered is charged nothing; one that is admitted has
\* somebody to pay for it; an answered one was charged by RecordSpend.
ChargeInv ==
    /\ at \in [Runs -> {"idle", "capped", "overage", "running", "settling",
                        "answered", "refused", "lost"}]
    /\ left \in [Runs -> Int] /\ ceiling \in [Runs -> Nat] /\ cost \in [Runs -> Nat]
    /\ funding \in [Runs -> {Nobody, "plan", "credits"}]
    /\ drawn \in [Runs -> Nat] /\ counted \in [Runs -> Nat]
    /\ \A r \in Runs :
         at[r] \in {"running", "settling", "answered"} => funding[r] \in {"plan", "credits"}
    /\ ChargedToOnePayer

LEMMA ChargeStarts == SpendInit => ChargeInv
  BY DEF SpendInit, ChargeInv, ChargedToOnePayer, Nobody

\* A settlement writes the spend once.
LEMMA SettleKeepsCharge ==
    ASSUME ChargeInv, NEW r \in Runs, Settle(r)
    PROVE  ChargeInv'
  <1>1. /\ at' \in [Runs -> {"idle", "capped", "overage", "running", "settling",
                             "answered", "refused", "lost"}]
        /\ at[r] = "settling" /\ at'[r] = "answered"
        /\ \A q \in Runs \ {r} : at'[q] = at[q]
    BY DEF ChargeInv, Settle
  <1>2. UNCHANGED <<left, ceiling, cost, funding>>
    BY DEF Settle
  <1>3. counted[r] = 0 /\ drawn[r] = 0 /\ funding[r] \in {"plan", "credits"} /\ cost[r] \in Nat
    BY <1>1 DEF ChargeInv, ChargedToOnePayer
  <1>4. /\ drawn' \in [Runs -> Nat] /\ counted' \in [Runs -> Nat]
        /\ \A q \in Runs \ {r} : drawn'[q] = drawn[q] /\ counted'[q] = counted[q]
        /\ counted'[r] = IF funding[r] = "plan" /\ cost[r] > 0 THEN 1 ELSE 0
        /\ drawn'[r] = IF funding[r] = "credits" THEN cost[r] ELSE 0
    <2>1. CASE cost[r] <= 0 /\ UNCHANGED ledgerVars
      BY <1>3, <2>1 DEF ChargeInv, ledgerVars
    <2>2. CASE cost[r] > 0 /\ funding[r] = "plan" /\ CountAction(r)
      BY <1>3, <2>2 DEF ChargeInv, CountAction
    <2>3. CASE cost[r] > 0 /\ funding[r] = "credits" /\ WriteSpend(r)
      BY <1>3, <2>3 DEF ChargeInv, WriteSpend
    <2> QED
      BY <2>1, <2>2, <2>3 DEF Settle, RecordSpend
  <1>5. ChargedToOnePayer'
    BY <1>1, <1>2, <1>4 DEF ChargeInv, ChargedToOnePayer
  <1> QED
    BY <1>1, <1>2, <1>3, <1>4, <1>5 DEF ChargeInv

\* A step that moves one run between states in which nothing is charged.
LEMMA UnchargedStep ==
    ASSUME ChargeInv, NEW r \in Runs, at[r] # "answered",
           NEW s \in {"capped", "overage", "running", "settling", "refused", "lost"},
           at' = [at EXCEPT ![r] = s],
           s \in {"running", "settling"} => funding'[r] \in {"plan", "credits"},
           \A q \in Runs \ {r} : cost'[q] = cost[q] /\ funding'[q] = funding[q],
           left' \in [Runs -> Int], ceiling' \in [Runs -> Nat], cost' \in [Runs -> Nat],
           funding' \in [Runs -> {Nobody, "plan", "credits"}],
           UNCHANGED <<drawn, counted>>
    PROVE  ChargeInv'
  <1>1. /\ at' \in [Runs -> {"idle", "capped", "overage", "running", "settling",
                             "answered", "refused", "lost"}]
        /\ at'[r] = s /\ \A q \in Runs \ {r} : at'[q] = at[q]
    BY DEF ChargeInv
  <1>2. ChargedToOnePayer'
    BY <1>1 DEF ChargeInv, ChargedToOnePayer
  <1>3. \A q \in Runs :
          at'[q] \in {"running", "settling", "answered"} => funding'[q] \in {"plan", "credits"}
    BY <1>1 DEF ChargeInv
  <1> QED
    BY <1>1, <1>2, <1>3 DEF ChargeInv

\* Admission chooses the payer.
LEMMA AdmitKeepsCharge ==
    ASSUME ChargeInv, NEW r \in Runs, at[r] \in {"capped", "overage"},
           NEW payer \in {"plan", "credits"}, NEW budget \in Nat, Admit(r, payer, budget),
           UNCHANGED <<drawn, counted>>
    PROVE  ChargeInv'
  <1>1. funding' = [funding EXCEPT ![r] = payer] /\ funding \in [Runs -> {Nobody, "plan", "credits"}]
    BY DEF Admit, ChargeInv
  <1>2. /\ left' \in [Runs -> Int] /\ ceiling' \in [Runs -> Nat]
        /\ cost' = cost /\ cost \in [Runs -> Nat]
    BY DEF Admit, ChargeInv
  <1>3. at' = [at EXCEPT ![r] = "running"]
    BY DEF Admit
  <1>4. /\ at[r] # "answered" /\ funding'[r] \in {"plan", "credits"}
        /\ funding' \in [Runs -> {Nobody, "plan", "credits"}]
    BY <1>1
  <1>5. \A q \in Runs \ {r} : cost'[q] = cost[q] /\ funding'[q] = funding[q]
    BY <1>1, <1>2
  <1> QED
    BY <1>2, <1>3, <1>4, <1>5, UnchargedStep

\* A refused run is charged to nobody.
LEMMA RefuseKeepsCharge ==
    ASSUME ChargeInv, NEW r \in Runs, at[r] \in {"capped", "overage"}, Refuse(r),
           UNCHANGED <<drawn, counted>>
    PROVE  ChargeInv'
  <1>1. /\ left' \in [Runs -> Int] /\ ceiling' = ceiling /\ cost' = cost /\ funding' = funding
    BY DEF Refuse, ChargeInv
  <1> QED
    BY <1>1, UnchargedStep DEF Refuse, ChargeInv

\* The end of a run charges nobody.
LEMMA EndKeepsCharge ==
    ASSUME ChargeInv, NEW r \in Runs, at[r] = "running", EndRun(r), NEW c \in Nat,
           cost' = [cost EXCEPT ![r] = c], UNCHANGED <<left, funding, drawn, counted>>
    PROVE  ChargeInv'
  <1>1. /\ cost' \in [Runs -> Nat] /\ ceiling' \in [Runs -> Nat]
        /\ \A q \in Runs \ {r} : cost'[q] = cost[q]
    BY DEF ChargeInv, EndRun
  <1>2. funding'[r] \in {"plan", "credits"}
    BY DEF ChargeInv
  <1> QED
    BY <1>1, <1>2, UnchargedStep DEF EndRun, ChargeInv

\* A turn charges nobody yet.
LEMMA TurnKeepsCharge ==
    ASSUME ChargeInv, NEW r \in Runs, NEW c \in TurnCosts, Turn(r, c)
    PROVE  ChargeInv'
  <1>1. /\ cost[r] + c \in Nat /\ cost' = [cost EXCEPT ![r] = cost[r] + c]
        /\ at[r] = "running" /\ UNCHANGED <<left, funding, drawn, counted>>
    BY AgentSpendAssumption DEF ChargeInv, Turn, ledgerVars
  <1>2. CASE EndRun(r)
    BY <1>1, <1>2, EndKeepsCharge
  <1>3. CASE UNCHANGED <<at, ceiling>>
    <2>1. cost' \in [Runs -> Nat] /\ \A q \in Runs \ {r} : cost'[q] = cost[q]
      BY <1>1 DEF ChargeInv
    <2>2. ChargedToOnePayer'
      BY <1>1, <1>3, <2>1 DEF ChargeInv, ChargedToOnePayer
    <2> QED
      BY <1>1, <1>3, <2>1, <2>2 DEF ChargeInv
  <1> QED
    BY <1>2, <1>3 DEF Turn

\* Every step keeps the charge with one payer.
LEMMA ChargeStep ==
    ASSUME ChargeInv, SumsAreNumbers, [SpendNext]_spendVars
    PROVE  ChargeInv'
  <1>1. CASE UNCHANGED <<runVars, drawn, counted>>
    BY <1>1 DEF ChargeInv, ChargedToOnePayer, runVars
  <1>2. ASSUME NEW r \in Runs, ReadWorkspaceSpend(r) PROVE ChargeInv'
    <2>1. left' \in [Runs -> Int]
      <3>1. WorkspaceSpend(WorkspaceOf[r]) \in Int
        BY AgentSpendAssumption DEF SumsAreNumbers
      <3>2. Cap - WorkspaceSpend(WorkspaceOf[r]) \in Int
        BY <3>1, AgentSpendAssumption
      <3> QED
        BY <1>2, <3>2 DEF ReadWorkspaceSpend, ChargeInv
    <2>2. at[r] = "idle" /\ UNCHANGED <<ceiling, funding, cost, drawn, counted>>
      BY <1>2 DEF ReadWorkspaceSpend, ledgerVars
    <2> QED
      BY <1>2, <2>1, <2>2, UnchargedStep DEF ReadWorkspaceSpend, ChargeInv
  <1>3. ASSUME NEW r \in Runs, ReadAllowance(r) PROVE ChargeInv'
    <2>1. at[r] = "capped" /\ UNCHANGED <<drawn, counted>>
      BY <1>3 DEF ReadAllowance, ledgerVars
    <2>2. CASE Refuse(r)
      BY <2>1, <2>2, RefuseKeepsCharge
    <2>3. CASE left[r] > 0 /\ Admit(r, "plan", Lesser(MaxRun, left[r]))
      <3>1. Lesser(MaxRun, left[r]) \in Nat
        BY <2>3, AgentSpendAssumption DEF Lesser, ChargeInv
      <3> QED
        BY <2>1, <2>3, <3>1, AdmitKeepsCharge
    <2>4. CASE /\ at' = [at EXCEPT ![r] = "overage"]
               /\ UNCHANGED <<left, ceiling, funding, steps, cost>>
      BY <2>1, <2>4, UnchargedStep DEF ChargeInv
    <2> QED
      BY <1>3, <2>2, <2>3, <2>4 DEF ReadAllowance
  <1>4. ASSUME NEW r \in Runs, ReadBalance(r) PROVE ChargeInv'
    <2>1. at[r] = "overage" /\ UNCHANGED <<drawn, counted>>
      BY <1>4 DEF ReadBalance, ledgerVars
    <2>2. CASE Refuse(r)
      BY <2>1, <2>2, RefuseKeepsCharge
    <2>3. CASE Balance > 0 /\ left[r] > 0 /\ Admit(r, "credits", CreditCeiling(r))
      <3>1. CreditCeiling(r) \in Nat
        BY <2>3, AgentSpendAssumption DEF CreditCeiling, Lesser, ChargeInv, SumsAreNumbers
      <3> QED
        BY <2>1, <2>3, <3>1, AdmitKeepsCharge
    <2> QED
      BY <1>4, <2>2, <2>3 DEF ReadBalance
  <1>5. ASSUME NEW r \in Runs, Stop(r) PROVE ChargeInv'
    <2>1. cost[r] \in Nat /\ cost' = [cost EXCEPT ![r] = cost[r]] /\ UNCHANGED <<left, funding, drawn, counted>>
      BY <1>5 DEF Stop, ChargeInv, ledgerVars
    <2> QED
      BY <1>5, <2>1, EndKeepsCharge DEF Stop
  <1>6. ASSUME NEW r \in Runs, Throw(r) PROVE ChargeInv'
    <2>1. ceiling[r] \in Nat /\ UNCHANGED <<left, funding, drawn, counted>>
      BY <1>6 DEF Throw, ChargeInv, ledgerVars
    <2> QED
      BY <1>6, <2>1, EndKeepsCharge DEF Throw
  <1>7. ASSUME NEW r \in Runs, Lose(r) PROVE ChargeInv'
    <2>1. /\ ceiling' \in [Runs -> Nat]
          /\ at[r] \in {"running", "settling"}
          /\ UNCHANGED <<left, funding, cost, drawn, counted>>
      BY <1>7 DEF Lose, ChargeInv, ledgerVars
    <2> QED
      BY <1>7, <2>1, UnchargedStep DEF Lose, ChargeInv
  <1>8. ASSUME NEW r \in Runs, Age(r) PROVE ChargeInv'
    BY <1>1, <1>8 DEF Age
  <1>9. CASE NextMonth
    BY <1>1, <1>9 DEF NextMonth
  <1>10. CASE \/ \E i \in Intents : Pay(i)
              \/ \E d \in Deliveries, i \in Intents : Deliver(d, i)
              \/ \E d \in Deliveries : InsertTopUp(d) \/ DeliveryFails(d)
    <2>1. UNCHANGED <<runVars, ledgerVars>>
      BY <1>10 DEF Pay, Deliver, InsertTopUp, DeliveryFails
    <2> QED
      BY <1>1, <2>1 DEF ledgerVars
  <1>11. CASE UNCHANGED spendVars
    BY <1>1, <1>11 DEF spendVars, ledgerVars
  <1> QED
    BY <1>2, <1>3, <1>4, <1>5, <1>6, <1>7, <1>8, <1>9, <1>10, <1>11,
       TurnKeepsCharge, SettleKeepsCharge DEF SpendNext, Step

\* A run is charged once and to one payer, however many runs there are and
\* however they end (agent-routes.ts settle, ai-spend.ts recordAiSpend).
THEOREM RunsAreChargedOnce == SpendSpec => []ChargedToOnePayer
  <1>1. SpendTypeOK /\ ChargeInv /\ [SpendNext]_spendVars => ChargeInv'
    BY ChargeStep, SumsAre
  <1>2. ChargeInv => ChargedToOnePayer
    BY DEF ChargeInv
  <1> QED
    BY <1>1, <1>2, ChargeStarts, SpendTypes, PTL DEF SpendSpec

(***************************************************************************)
(* The limits.  Nothing is reserved for a run that was admitted, so what   *)
(* it may still draw is added to what has been drawn: that sum only grows  *)
(* when a run is admitted, and then by what the limit had left and the     *)
(* last turn, beside a whole run and its last turn for each run that was   *)
(* under way.                                                              *)
(***************************************************************************)

\* What a run may still draw from the balance, from the rest of the cap and
\* from the plan's actions.
Due(r) ==
    IF funding[r] = "credits" /\ at[r] = "running" THEN ceiling[r] + MostOfTurn
    ELSE IF funding[r] = "credits" /\ at[r] = "settling" THEN cost[r] ELSE 0
Wanted(r) ==
    IF at[r] \in {"capped", "overage"}
    THEN IF left[r] > 0 THEN Lesser(MaxRun, left[r]) + MostOfTurn ELSE 0
    ELSE Due(r)
Counting(r) == IF funding[r] = "plan" /\ at[r] \in {"running", "settling"} THEN 1 ELSE 0

Dues == [r \in Runs |-> Due(r)]
Wants == [r \in Runs |-> Wanted(r)]
Spent == [r \in Runs |-> IF r \in recent THEN drawn[r] ELSE 0]
Debts == [r \in Runs |-> drawn[r] + Due(r)]
Claims == [r \in Runs |-> (IF r \in recent THEN drawn[r] ELSE 0) + Wanted(r)]
Using == [r \in Runs |-> Counting(r)]

RunsOf(w) == {r \in Runs : WorkspaceOf[r] = w}

WholeRun == MaxRun + MostOfTurn
Together == IF overlap > 0 THEN overlap ELSE 1
Give(n) == MostOfTurn + (n - 1) * WholeRun

BudgetOf(r) ==
    /\ at[r] \in {"idle", "capped", "overage"} => cost[r] = 0
    /\ at[r] = "running" => cost[r] <= ceiling[r] /\ ceiling[r] <= MaxRun
    /\ at[r] = "settling" => cost[r] <= WholeRun

\* A run keeps within its budget and the turn that ends it; only the runs
\* answered have spent; `overlap` counts the runs in flight.
BudgetInv ==
    /\ Cardinality(InFlight) <= overlap
    /\ \A r \in recent : at[r] = "answered"
    /\ \A r \in Runs : BudgetOf(r)

BalanceLimit == Over(Runs, Debts) <= TopUps + Give(Together)
CapLimit == \A w \in Workspaces : Over(RunsOf(w), Claims) <= Cap + Give(Together)
PlanLimit == used + Over(Runs, Using) <= Allowance + Together - 1

SpendInv == SpendTypeOK /\ ChargeInv /\ BudgetInv
LimitInv == BalanceLimit /\ CapLimit /\ PlanLimit

\* The prices are numbers.
LEMMA WholeIsNat == WholeRun \in Nat /\ MaxRun \in Nat /\ MostOfTurn \in Nat /\ MostOfTurn <= WholeRun
  BY AgentSpendAssumption, MostIsMost DEF WholeRun

\* More runs side by side may give more.
LEMMA GiveGrows ==
    ASSUME NEW m \in Nat \ {0}, NEW n \in Nat \ {0}, m <= n
    PROVE  Give(m) \in Nat /\ Give(n) \in Nat /\ Give(m) <= Give(n)
  <1> DEFINE k == WholeRun
             a == m - 1
             d == n - m
  <1>1. k \in Nat /\ MostOfTurn \in Nat /\ a \in Nat /\ d \in Nat /\ n - 1 = a + d
    BY WholeIsNat
  <1>2. Give(m) = MostOfTurn + a * k /\ Give(n) = MostOfTurn + (a + d) * k
    BY <1>1 DEF Give
  <1> HIDE DEF k, a, d
  <1>3. a * k \in Nat /\ d * k \in Nat /\ (a + d) * k = a * k + d * k
    BY <1>1
  <1> QED
    BY <1>1, <1>2, <1>3

\* Together counts at least the runs in flight and the most there were so far.
LEMMA TogetherIs ==
    ASSUME SpendTypeOK, BudgetInv
    PROVE  /\ Together \in Nat \ {0} /\ overlap \in Nat /\ overlap <= Together
           /\ Cardinality(InFlight) <= Together
  BY FlightIsFinite DEF SpendTypeOK, BudgetInv, Together

\* Each run in flight may still draw a whole run and its last turn, the others
\* nothing.
LEMMA DueIsBounded ==
    ASSUME SpendTypeOK, BudgetInv, NEW r \in Runs
    PROVE  /\ Due(r) \in Nat /\ Due(r) <= WholeRun
           /\ Wanted(r) \in Nat /\ Wanted(r) <= WholeRun
           /\ Counting(r) \in {0, 1}
           /\ r \notin InFlight => Due(r) = 0 /\ Wanted(r) = 0 /\ Counting(r) = 0
           /\ at[r] \in {"capped", "overage"} => Due(r) = 0 /\ Counting(r) = 0
  <1>1. /\ at[r] \in At /\ left[r] \in Int /\ ceiling[r] \in Nat /\ cost[r] \in Nat
    BY DEF SpendTypeOK, At
  <1>2. /\ at[r] = "running" => ceiling[r] <= MaxRun
        /\ at[r] = "settling" => cost[r] <= WholeRun
    BY DEF BudgetInv, BudgetOf
  <1>3. Due(r) \in Nat /\ Due(r) <= WholeRun
    BY <1>1, <1>2, WholeIsNat DEF Due, WholeRun
  <1>4. Wanted(r) \in Nat /\ Wanted(r) <= WholeRun
    BY <1>1, <1>3, WholeIsNat DEF Wanted, Lesser, WholeRun
  <1>5. r \notin InFlight => at[r] \notin {"capped", "overage", "running", "settling"}
    BY DEF InFlight
  <1> QED
    BY <1>3, <1>4, <1>5 DEF Due, Wanted, Counting

\* What each run may still spend of each limit is a number.
LEMMA LoadsAre ==
    ASSUME SpendTypeOK, BudgetInv, NEW r \in Runs
    PROVE  /\ Debts[r] = drawn[r] + Due(r) /\ Debts[r] = drawn[r] + Dues[r]
           /\ Claims[r] = Spent[r] + Wants[r]
           /\ Dues[r] = Due(r) /\ Wants[r] = Wanted(r) /\ Using[r] = Counting(r)
           /\ drawn[r] \in Nat /\ Spent[r] \in Nat /\ Dues[r] \in Nat /\ Wants[r] \in Nat
           /\ Debts[r] \in Nat /\ Claims[r] \in Nat /\ Using[r] \in Nat
  <1>1. Due(r) \in Nat /\ Wanted(r) \in Nat /\ Counting(r) \in Nat
    BY DueIsBounded
  <1>2. drawn[r] \in Nat
    BY DEF SpendTypeOK
  <1> QED
    BY <1>1, <1>2 DEF Debts, Claims, Dues, Wants, Spent, Using

\* What the runs in flight other than r may draw.
LEMMA OthersDraw ==
    ASSUME SpendTypeOK, BudgetInv, NEW r \in Runs, NEW n \in Nat,
           Cardinality(InFlight \ {r}) <= n
    PROVE  /\ at[r] = "overage" => Over(Runs, Dues) <= WholeRun * n
           /\ at[r] = "capped" => Over(Runs, Using) <= n
           /\ at[r] = "idle" => \A w \in Workspaces : Over(RunsOf(w), Wants) <= WholeRun * n
  <1> DEFINE P == InFlight \ {r}
  <1>1. P \in SUBSET Runs /\ IsFiniteSet(P) /\ Cardinality(P) \in Nat /\ Cardinality(P) <= n
    BY FlightIsFinite, FS_Subset, FS_CardinalityType
  <1>2. WholeRun \in Nat /\ IsFiniteSet(Runs)
    BY WholeIsNat, AgentSpendAssumption
  <1>3. WholeRun * Cardinality(P) <= WholeRun * n
    <2> DEFINE c == Cardinality(P)
               d == n - c
    <2>1. c \in Nat /\ d \in Nat /\ n = c + d
      BY <1>1
    <2> HIDE DEF c, d
    <2>2. WholeRun * (c + d) = WholeRun * c + WholeRun * d /\ WholeRun * c \in Nat /\ WholeRun * d \in Nat
      BY <1>2, <2>1
    <2>3. WholeRun * c <= WholeRun * n
      BY <2>1, <2>2
    <2> QED
      BY <2>3 DEF c
  <1>4. ASSUME at[r] = "overage" PROVE Over(Runs, Dues) <= WholeRun * n
    <2>1. \A q \in Runs : Dues[q] \in Int /\ Dues[q] <= WholeRun /\ (q \notin P => Dues[q] <= 0)
      BY <1>4, DueIsBounded, LoadsAre
    <2>2. Over(Runs, Dues) \in Int
      BY <1>2, <2>1, SumIsNumber
    <2> HIDE DEF P
    <2>3. Over(Runs, Dues) <= WholeRun * Cardinality(P)
      BY <1>1, <1>2, <2>1, SumIsBounded
    <2> QED
      BY <1>1, <1>2, <1>3, <2>2, <2>3
  <1>5. ASSUME at[r] = "capped" PROVE Over(Runs, Using) <= n
    <2>1. \A q \in Runs : Using[q] \in Int /\ Using[q] <= 1 /\ (q \notin P => Using[q] <= 0)
      BY <1>5, DueIsBounded, LoadsAre
    <2>2. Over(Runs, Using) \in Int
      BY <1>2, <2>1, SumIsNumber
    <2> HIDE DEF P
    <2>3. Over(Runs, Using) <= 1 * Cardinality(P)
      BY <1>1, <1>2, <2>1, SumIsBounded
    <2> QED
      BY <1>1, <2>2, <2>3
  <1>6. ASSUME at[r] = "idle", NEW w \in Workspaces
        PROVE  Over(RunsOf(w), Wants) <= WholeRun * n
    <2> DEFINE Q == P \cap RunsOf(w)
    <2>1. RunsOf(w) \in SUBSET Runs /\ Q \in SUBSET RunsOf(w) /\ Q \in SUBSET P
      BY DEF RunsOf
    <2>2. IsFiniteSet(RunsOf(w)) /\ Cardinality(Q) <= Cardinality(P) /\ Cardinality(Q) \in Nat
      BY <1>1, <1>2, <2>1, FS_Subset, FS_CardinalityType
    <2>3. \A q \in RunsOf(w) :
            Wants[q] \in Int /\ Wants[q] <= WholeRun /\ (q \notin Q => Wants[q] <= 0)
      <3> SUFFICES ASSUME NEW q \in RunsOf(w)
                   PROVE  Wants[q] \in Int /\ Wants[q] <= WholeRun /\ (q \notin Q => Wants[q] <= 0)
        OBVIOUS
      <3>1. q \in Runs /\ Wants[q] = Wanted(q) /\ Wanted(q) \in Nat /\ Wanted(q) <= WholeRun
        BY <2>1, DueIsBounded, LoadsAre
      <3>2. q \notin Q => q \notin InFlight
        BY <1>6 DEF InFlight
      <3> QED
        BY <3>1, <3>2, DueIsBounded
    <2>4. Over(RunsOf(w), Wants) \in Int
      BY <2>2, <2>3, SumIsNumber
    <2> HIDE DEF Q
    <2>5. Over(RunsOf(w), Wants) <= WholeRun * Cardinality(Q)
      BY <1>2, <2>1, <2>2, <2>3, SumIsBounded
    <2>6. WholeRun * Cardinality(Q) <= WholeRun * Cardinality(P)
      <3> DEFINE a == Cardinality(Q)
                 b == Cardinality(P)
                 d == b - a
      <3>1. a \in Nat /\ d \in Nat /\ b = a + d
        BY <1>1, <2>2
      <3> HIDE DEF a, d, b
      <3>2. WholeRun * (a + d) = WholeRun * a + WholeRun * d /\ WholeRun * a \in Nat /\ WholeRun * d \in Nat
        BY <1>2, <3>1
      <3>3. WholeRun * a <= WholeRun * b
        BY <3>1, <3>2
      <3> QED
        BY <3>3 DEF a, b
    <2> QED
      BY <1>1, <1>2, <1>3, <2>2, <2>4, <2>5, <2>6
  <1> QED
    BY <1>4, <1>5, <1>6

\* The same of the state that a step leads to.
LoadTypes ==
    /\ \A r \in Runs : Debts[r] \in Nat /\ Claims[r] \in Nat /\ Using[r] \in Nat
    /\ Together \in Nat \ {0} /\ overlap \in Nat /\ TopUps \in Nat
    /\ overlap > 0 => Together = overlap
    /\ overlap = 0 => Together = 1

\* What each run may draw, and how many there are together, are numbers.
LEMMA LoadTypesHold == SpendTypeOK /\ BudgetInv => LoadTypes
  <1> SUFFICES ASSUME SpendTypeOK, BudgetInv PROVE LoadTypes
    OBVIOUS
  <1>1. \A r \in Runs : Debts[r] \in Nat /\ Claims[r] \in Nat /\ Using[r] \in Nat
    BY LoadsAre
  <1>2. Together \in Nat \ {0} /\ overlap \in Nat /\ TopUps \in Nat
    BY TogetherIs, SumsAre
  <1> QED
    BY <1>1, <1>2 DEF LoadTypes, Together

\* The same after a step.
LEMMA LoadTypesHoldNext == SpendTypeOK' /\ BudgetInv' => LoadTypes'
  BY LoadTypesHold, PTL

\* Together never shrinks.
LEMMA TogetherGrows ==
    ASSUME SpendTypeOK, BudgetInv, SpendTypeOK', BudgetInv', overlap <= overlap'
    PROVE  Together \in Nat \ {0} /\ Together' \in Nat \ {0} /\ Together <= Together'
  BY LoadTypesHold, LoadTypesHoldNext DEF LoadTypes

\* A step of one run leaves the others as they are.
OnlyRun(r) ==
    \A q \in Runs \ {r} :
        /\ at'[q] = at[q] /\ left'[q] = left[q] /\ ceiling'[q] = ceiling[q]
        /\ funding'[q] = funding[q] /\ cost'[q] = cost[q] /\ drawn'[q] = drawn[q]
        /\ q \in recent' <=> q \in recent

\* A step of one run leaves the share of the others.
LEMMA OthersAlike ==
    ASSUME NEW r \in Runs, OnlyRun(r)
    PROVE  \A q \in Runs \ {r} : Debts'[q] = Debts[q] /\ Claims'[q] = Claims[q] /\ Using'[q] = Using[q]
  BY DEF OnlyRun, Debts, Claims, Using, Due, Wanted, Counting

\* A step of a run in flight brings nobody else in.
LEMMA FlightMoves ==
    ASSUME SpendTypeOK, NEW r \in Runs, OnlyRun(r), r \in InFlight
    PROVE  Cardinality(InFlight') <= Cardinality(InFlight) /\ Cardinality(InFlight') \in Nat
  <1>1. InFlight' \in SUBSET InFlight
    BY DEF InFlight, OnlyRun
  <1> QED
    BY <1>1, FlightIsFinite, FS_Subset, FS_CardinalityType

\* A step of a run in flight keeps the budgets of all.
LEMMA BudgetKept ==
    ASSUME SpendInv, SpendTypeOK', NEW r \in Runs, OnlyRun(r), r \in InFlight,
           UNCHANGED overlap, r \in recent' => at'[r] = "answered", BudgetOf(r)'
    PROVE  BudgetInv'
  <1>1. Cardinality(InFlight') <= overlap'
    BY FlightMoves, FlightIsFinite DEF SpendInv, BudgetInv, SpendTypeOK
  <1>2. \A q \in recent' : at'[q] = "answered"
    BY DEF OnlyRun, SpendInv, BudgetInv, SpendTypeOK
  <1>3. \A q \in Runs : BudgetOf(q)'
    BY DEF OnlyRun, SpendInv, BudgetInv, BudgetOf
  <1> QED
    BY <1>1, <1>2, <1>3 DEF BudgetInv

\* The limits hold where no load has grown.
LEMMA BalanceKept ==
    ASSUME SpendInv, SpendTypeOK', BudgetInv', BalanceLimit, overlap <= overlap',
           TopUps <= TopUps', \A q \in Runs : Debts'[q] <= Debts[q]
    PROVE  BalanceLimit'
  <1>1. \A q \in Runs : Debts[q] \in Int /\ Debts'[q] \in Int
    BY LoadTypesHold, LoadTypesHoldNext DEF SpendInv, LoadTypes
  <1>2. Over(Runs, Debts') <= Over(Runs, Debts)
    BY <1>1, SumsCompare, AgentSpendAssumption
  <1>3. Over(Runs, Debts') \in Int /\ Over(Runs, Debts) \in Int
    BY <1>1, SumIsNumber, AgentSpendAssumption
  <1>4. Give(Together) <= Give(Together') /\ Give(Together) \in Nat /\ Give(Together') \in Nat
    BY TogetherGrows, GiveGrows DEF SpendInv
  <1>5. TopUps \in Nat /\ TopUps' \in Nat
    BY LoadTypesHold, LoadTypesHoldNext DEF SpendInv, LoadTypes
  <1>6. Over(Runs, Debts) <= TopUps + Give(Together)
    BY DEF BalanceLimit
  <1>7. Over(Runs, Debts') <= TopUps' + Give(Together')
    BY <1>2, <1>3, <1>4, <1>5, <1>6
  <1> QED
    BY <1>7 DEF BalanceLimit

\* The same of the cap.
LEMMA CapKept ==
    ASSUME SpendInv, SpendTypeOK', BudgetInv', CapLimit, overlap <= overlap',
           \A q \in Runs : Claims'[q] <= Claims[q]
    PROVE  CapLimit'
  <1> SUFFICES ASSUME NEW w \in Workspaces
               PROVE  Over(RunsOf(w), Claims') <= Cap + Give(Together')
    BY DEF CapLimit
  <1>1. RunsOf(w) \in SUBSET Runs /\ IsFiniteSet(RunsOf(w))
    BY AgentSpendAssumption, FS_Subset DEF RunsOf
  <1>2. \A q \in RunsOf(w) : Claims[q] \in Int /\ Claims'[q] \in Int /\ Claims'[q] <= Claims[q]
    BY <1>1, LoadTypesHold, LoadTypesHoldNext DEF SpendInv, LoadTypes
  <1>3. Over(RunsOf(w), Claims') <= Over(RunsOf(w), Claims)
    BY <1>1, <1>2, SumsCompare
  <1>4. Over(RunsOf(w), Claims') \in Int /\ Over(RunsOf(w), Claims) \in Int
    BY <1>1, <1>2, SumIsNumber
  <1>5. Give(Together) <= Give(Together') /\ Give(Together) \in Nat /\ Give(Together') \in Nat
    BY TogetherGrows, GiveGrows DEF SpendInv
  <1>6. Over(RunsOf(w), Claims) <= Cap + Give(Together) /\ Cap \in Nat
    BY AgentSpendAssumption DEF CapLimit
  <1> QED
    BY <1>3, <1>4, <1>5, <1>6

\* The same of the allowance.
LEMMA PlanKept ==
    ASSUME SpendInv, SpendTypeOK', BudgetInv', PlanLimit, overlap <= overlap',
           NEW r \in Runs, \A q \in Runs \ {r} : Using'[q] = Using[q],
           used' + Using'[r] <= used + Using[r]
    PROVE  PlanLimit'
  <1>1. \A q \in Runs : Using[q] \in Int /\ Using'[q] \in Int
    BY LoadTypesHold, LoadTypesHoldNext DEF SpendInv, LoadTypes
  <1>2. Over(Runs, Using') = Over(Runs, Using) - Using[r] + Using'[r]
    BY <1>1, SumChanged, AgentSpendAssumption
  <1>3. Over(Runs, Using) \in Int /\ used \in Nat /\ used' \in Nat /\ Allowance \in Nat
    BY <1>1, SumIsNumber, AgentSpendAssumption DEF SpendInv, SpendTypeOK
  <1>4. Together \in Nat /\ Together' \in Nat /\ Together <= Together'
    BY TogetherGrows DEF SpendInv
  <1>5. used + Over(Runs, Using) <= Allowance + Together - 1
    BY DEF PlanLimit
  <1>6. used' + Over(Runs, Using') <= Allowance + Together' - 1
    BY <1>1, <1>2, <1>3, <1>4, <1>5
  <1> QED
    BY <1>6 DEF PlanLimit

\* A step of a run under way that lets it draw no more than before.
LEMMA QuietRun ==
    ASSUME SpendInv, LimitInv, SpendTypeOK', NEW r \in Runs, OnlyRun(r), r \in InFlight,
           UNCHANGED <<overlap, credited>>, r \in recent' => at'[r] = "answered", BudgetOf(r)',
           Debts'[r] <= Debts[r], Claims'[r] <= Claims[r], used' + Using'[r] <= used + Using[r]
    PROVE  BudgetInv' /\ LimitInv'
  <1>1. BudgetInv'
    BY BudgetKept
  <1>2. overlap <= overlap' /\ TopUps <= TopUps'
    <2>1. TopUps' = TopUps
      BY DEF TopUps
    <2>2. TopUps \in Nat /\ overlap \in Nat
      BY LoadTypesHold DEF SpendInv, LoadTypes
    <2> QED
      BY <2>1, <2>2
  <1>3. \A q \in Runs : Debts'[q] <= Debts[q] /\ Claims'[q] <= Claims[q]
    <2>1. \A q \in Runs : Debts[q] \in Nat /\ Claims[q] \in Nat
      BY LoadTypesHold DEF SpendInv, LoadTypes
    <2> QED
      BY <2>1, OthersAlike
  <1>4. BalanceLimit'
    BY <1>1, <1>2, <1>3, BalanceKept DEF LimitInv
  <1>5. CapLimit'
    BY <1>1, <1>2, <1>3, CapKept DEF LimitInv
  <1>6. PlanLimit'
    BY <1>1, <1>2, OthersAlike, PlanKept DEF LimitInv
  <1> QED
    BY <1>1, <1>4, <1>5, <1>6 DEF LimitInv

\* What is known of a run under way.
LEMMA UnderWay ==
    ASSUME SpendInv, NEW r \in Runs, r \in InFlight
    PROVE  /\ r \notin recent /\ drawn[r] = 0 /\ BudgetOf(r)
           /\ cost[r] \in Nat /\ ceiling[r] \in Nat /\ left[r] \in Int /\ used \in Nat
           /\ Debts[r] = Due(r) /\ Claims[r] = Wanted(r) /\ Using[r] = Counting(r)
           /\ Due(r) \in Nat /\ Wanted(r) \in Nat /\ Counting(r) \in Nat
  <1>1. at[r] # "answered"
    BY DEF InFlight
  <1>2. r \notin recent /\ drawn[r] = 0 /\ BudgetOf(r)
    BY <1>1 DEF SpendInv, BudgetInv, ChargeInv, ChargedToOnePayer
  <1>3. Due(r) \in Nat /\ Wanted(r) \in Nat /\ Counting(r) \in Nat
    BY DueIsBounded DEF SpendInv
  <1> QED
    BY <1>2, <1>3 DEF SpendInv, SpendTypeOK, Debts, Claims, Using

\* Refusal is such a step.
LEMMA RefuseIsQuiet ==
    ASSUME SpendInv, LimitInv, SpendTypeOK', NEW r \in Runs, at[r] \in {"capped", "overage"},
           Refuse(r), UNCHANGED <<drawn, recent, used, overlap, credited>>
    PROVE  BudgetInv' /\ LimitInv'
  <1>1. r \in InFlight
    BY DEF InFlight
  <1>2. OnlyRun(r) /\ at'[r] = "refused"
    BY DEF OnlyRun, Refuse, SpendInv, SpendTypeOK
  <1>3. BudgetOf(r)'
    BY <1>2 DEF BudgetOf
  <1>4. Debts'[r] = 0 /\ Claims'[r] = 0 /\ Using'[r] = 0
    BY <1>1, <1>2, UnderWay DEF Debts, Claims, Using, Due, Wanted, Counting
  <1> QED
    BY <1>1, <1>2, <1>3, <1>4, UnderWay, QuietRun

\* The run ends, and owes no more than its budget and one turn.
LEMMA EndIsQuiet ==
    ASSUME SpendInv, LimitInv, SpendTypeOK', NEW r \in Runs, at[r] = "running", EndRun(r),
           NEW c \in Nat, c <= ceiling[r] + MostOfTurn, cost' = [cost EXCEPT ![r] = c],
           UNCHANGED <<left, funding, drawn, recent, used, overlap, credited>>
    PROVE  BudgetInv' /\ LimitInv'
  <1>1. r \in InFlight
    BY DEF InFlight
  <1>2. OnlyRun(r) /\ at'[r] = "settling" /\ cost'[r] = c
    BY DEF OnlyRun, EndRun, SpendInv, SpendTypeOK
  <1>3. ceiling[r] <= MaxRun /\ ceiling[r] \in Nat
    BY <1>1, UnderWay DEF BudgetOf
  <1>4. BudgetOf(r)'
    BY <1>2, <1>3, WholeIsNat DEF BudgetOf, WholeRun
  <1>5. /\ Debts'[r] = IF funding[r] = "credits" THEN c ELSE 0
        /\ Claims'[r] = IF funding[r] = "credits" THEN c ELSE 0
        /\ Using'[r] = IF funding[r] = "plan" THEN 1 ELSE 0
    BY <1>1, <1>2, UnderWay DEF Debts, Claims, Using, Due, Wanted, Counting
  <1>6. /\ Due(r) = IF funding[r] = "credits" THEN ceiling[r] + MostOfTurn ELSE 0
        /\ Wanted(r) = Due(r)
        /\ Counting(r) = IF funding[r] = "plan" THEN 1 ELSE 0
    BY DEF Due, Wanted, Counting
  <1>7. Debts'[r] <= Debts[r] /\ Claims'[r] <= Claims[r] /\ used' + Using'[r] <= used + Using[r]
    BY <1>1, <1>3, <1>5, <1>6, UnderWay, WholeIsNat
  <1>8. r \in recent' => at'[r] = "answered"
    BY <1>1, UnderWay
  <1> QED
    BY <1>1, <1>2, <1>4, <1>7, <1>8, QuietRun

\* So is a turn: it uses up what the run may spend.
LEMMA TurnIsQuiet ==
    ASSUME SpendInv, LimitInv, SpendTypeOK', NEW r \in Runs, NEW c \in TurnCosts, Turn(r, c)
    PROVE  BudgetInv' /\ LimitInv'
  <1>1. r \in InFlight /\ at[r] = "running"
    BY DEF InFlight, Turn
  <1>2. /\ cost[r] \in Nat /\ ceiling[r] \in Nat /\ c \in Nat /\ c <= MostOfTurn
        /\ cost[r] + c <= ceiling[r] + MostOfTurn
    <2>1. cost[r] \in Nat /\ ceiling[r] \in Nat /\ c \in Nat /\ c <= MostOfTurn /\ MostOfTurn \in Nat
      BY <1>1, UnderWay, MostIsMost
    <2>2. ~(cost[r] > ceiling[r])
      BY DEF Turn, BudgetExceeded
    <2> QED
      BY <2>1, <2>2
  <1>3. cost' = [cost EXCEPT ![r] = cost[r] + c]
    BY DEF Turn
  <1>4. UNCHANGED <<left, funding, drawn, recent, used, overlap, credited>>
    BY DEF Turn, ledgerVars, creditVars
  <1>5. CASE EndRun(r)
    <2>1. cost[r] + c \in Nat
      BY <1>2
    <2> QED
      BY <1>1, <1>2, <1>3, <1>4, <1>5, <2>1, EndIsQuiet
  <1>6. CASE ~BudgetExceeded(r, steps[r], cost[r] + c) /\ UNCHANGED <<at, ceiling>>
    <2>1. OnlyRun(r) /\ cost'[r] = cost[r] + c
      BY <1>3, <1>4, <1>6 DEF OnlyRun, SpendInv, SpendTypeOK
    <2>2. cost[r] + c <= ceiling[r]
      BY <1>2, <1>6 DEF BudgetExceeded
    <2>3. BudgetOf(r)'
      BY <1>1, <1>6, <2>1, <2>2, UnderWay DEF BudgetOf
    <2>4. Debts'[r] = Debts[r] /\ Claims'[r] = Claims[r] /\ Using'[r] = Using[r]
      BY <1>1, <1>4, <1>6 DEF Debts, Claims, Using, Due, Wanted, Counting
    <2>5. Debts[r] \in Nat /\ Claims[r] \in Nat /\ used + Using[r] \in Nat
      BY <1>1, UnderWay
    <2>6. r \in recent' => at'[r] = "answered"
      BY <1>1, <1>4, UnderWay
    <2> QED
      BY <1>1, <1>4, <2>1, <2>3, <2>4, <2>5, <2>6, QuietRun
  <1> QED
    BY <1>5, <1>6 DEF Turn

\* So is a settlement that is lost.
LEMMA LoseIsQuiet ==
    ASSUME SpendInv, LimitInv, SpendTypeOK', NEW r \in Runs, Lose(r)
    PROVE  BudgetInv' /\ LimitInv'
  <1>1. r \in InFlight
    BY DEF InFlight, Lose
  <1>2. OnlyRun(r) /\ at'[r] = "lost" /\ UNCHANGED <<drawn, recent, used, overlap, credited>>
    BY DEF OnlyRun, Lose, SpendInv, SpendTypeOK, ledgerVars, creditVars
  <1>3. BudgetOf(r)'
    BY <1>2 DEF BudgetOf
  <1>4. Debts'[r] = 0 /\ Claims'[r] = 0 /\ Using'[r] = 0
    BY <1>1, <1>2, UnderWay DEF Debts, Claims, Using, Due, Wanted, Counting
  <1> QED
    BY <1>1, <1>2, <1>3, <1>4, UnderWay, QuietRun

\* What is settled was due, and is no longer.
LEMMA SettleIsQuiet ==
    ASSUME SpendInv, LimitInv, SpendTypeOK', ChargeInv', NEW r \in Runs, Settle(r)
    PROVE  BudgetInv' /\ LimitInv'
  <1>1. r \in InFlight /\ at[r] = "settling"
    BY DEF InFlight, Settle
  <1>2. UNCHANGED <<left, ceiling, funding, cost, overlap, credited>>
    BY DEF Settle, creditVars
  <1>3. /\ drawn' = drawn \/ drawn' = [drawn EXCEPT ![r] = @ + cost[r]]
        /\ recent' = recent \/ recent' = recent \cup {r}
        /\ \/ used' = used
           \/ used' = used + 1 /\ funding[r] = "plan"
    BY DEF Settle, RecordSpend, CountAction, WriteSpend, ledgerVars
  <1>4. OnlyRun(r) /\ at'[r] = "answered"
    <2>1. at'[r] = "answered" /\ \A q \in Runs \ {r} : at'[q] = at[q]
      BY DEF Settle, SpendInv, SpendTypeOK
    <2>2. \A q \in Runs \ {r} : drawn'[q] = drawn[q] /\ (q \in recent' <=> q \in recent)
      BY <1>3 DEF SpendInv, SpendTypeOK
    <2> QED
      BY <1>2, <2>1, <2>2 DEF OnlyRun
  <1>5. BudgetOf(r)'
    BY <1>4 DEF BudgetOf
  <1>6. drawn'[r] = IF funding[r] = "credits" THEN cost[r] ELSE 0
    BY <1>2, <1>4 DEF ChargeInv, ChargedToOnePayer
  <1>7. /\ Due(r) = IF funding[r] = "credits" THEN cost[r] ELSE 0
        /\ Wanted(r) = Due(r)
        /\ Counting(r) = IF funding[r] = "plan" THEN 1 ELSE 0
    BY <1>1 DEF Due, Wanted, Counting
  <1>8. cost[r] \in Nat /\ Due(r) \in Nat
    BY <1>1, UnderWay
  <1>9. /\ Debts'[r] = drawn'[r] + 0
        /\ Claims'[r] = (IF r \in recent' THEN drawn'[r] ELSE 0) + 0
        /\ Using'[r] = 0
    BY <1>4 DEF Debts, Claims, Using, Due, Wanted, Counting
  <1>10. Debts'[r] <= Debts[r] /\ Claims'[r] <= Claims[r]
    BY <1>1, <1>6, <1>7, <1>8, <1>9, UnderWay
  <1>11. used' + Using'[r] <= used + Using[r]
    BY <1>1, <1>3, <1>7, <1>9, UnderWay
  <1> QED
    BY <1>1, <1>2, <1>4, <1>5, <1>10, <1>11, QuietRun

\* What the workspace spent in the window is the sum over its runs.
LEMMA SpendIsSpent ==
    ASSUME SpendTypeOK, NEW w \in Workspaces
    PROVE  Over(RunsOf(w), Spent) = WorkspaceSpend(w)
  <1> DEFINE S == RunsOf(w)
             P == {q \in recent : WorkspaceOf[q] = w}
  <1>1. S \in SUBSET Runs /\ IsFiniteSet(S)
    BY AgentSpendAssumption, FS_Subset DEF RunsOf
  <1>2. P \in SUBSET S /\ IsFiniteSet(P)
    BY <1>1, FS_Subset DEF RunsOf, SpendTypeOK
  <1>3. \A q \in S : Spent[q] \in Int /\ (q \notin P => Spent[q] = 0)
    BY <1>1 DEF RunsOf, Spent, SpendTypeOK
  <1>4. \A q \in P : Spent[q] = drawn[q]
    BY <1>1, <1>2 DEF Spent
  <1>5. WorkspaceSpend(w) = Over(P, drawn)
    BY DEF WorkspaceSpend
  <1> HIDE DEF P, S
  <1>6. Over(S, Spent) = Over(P, Spent)
    BY <1>1, <1>2, <1>3, SumOfThoseThatCount
  <1>7. Over(P, Spent) = Over(P, drawn)
    BY <1>2, <1>4, SumsAgree
  <1> QED
    BY <1>5, <1>6, <1>7 DEF S

\* One query reads what the workspace spent: the run may claim what the cap had
\* left, and each of the others a whole run.
LEMMA ReadClaims ==
    ASSUME SpendInv, LimitInv, SpendTypeOK', NEW r \in Runs, ReadWorkspaceSpend(r)
    PROVE  BudgetInv' /\ LimitInv'
  <1>1. /\ at[r] = "idle" /\ r \notin InFlight
        /\ at' = [at EXCEPT ![r] = "capped"]
        /\ left' = [left EXCEPT ![r] = Cap - WorkspaceSpend(WorkspaceOf[r])]
        /\ UNCHANGED <<ceiling, funding, cost, drawn, recent, used, credited>>
    BY DEF ReadWorkspaceSpend, InFlight, ledgerVars, creditVars
  <1>2. OnlyRun(r) /\ at'[r] = "capped" /\ left'[r] = Cap - WorkspaceSpend(WorkspaceOf[r])
    BY <1>1 DEF OnlyRun, SpendInv, SpendTypeOK
  <1>3. /\ overlap \in Nat /\ overlap' \in Nat /\ overlap <= overlap'
        /\ Cardinality(InFlight) + 1 <= overlap'
    BY FlightIsFinite DEF ReadWorkspaceSpend, Greater, SpendInv, SpendTypeOK
  <1>4. InFlight' = InFlight \cup {r}
    BY <1>2 DEF InFlight, OnlyRun
  <1>5. BudgetInv'
    <2>1. Cardinality(InFlight') <= overlap'
      <3>1. Cardinality(InFlight \cup {r}) = Cardinality(InFlight) + 1
        BY <1>1, FlightIsFinite, FS_AddElement
      <3>2. Cardinality(InFlight') = Cardinality(InFlight) + 1
        BY <1>4, <3>1
      <3> QED
        BY <1>3, <3>2
    <2>2. \A q \in recent' : at'[q] = "answered"
      BY <1>1, <1>2 DEF OnlyRun, SpendInv, BudgetInv, SpendTypeOK
    <2>3. \A q \in Runs : BudgetOf(q)'
      BY <1>1, <1>2 DEF OnlyRun, SpendInv, BudgetInv, BudgetOf
    <2> QED
      BY <2>1, <2>2, <2>3 DEF BudgetInv
  <1>6. /\ Debts'[r] = Debts[r] /\ Using'[r] = Using[r]
        /\ Wanted(r) = 0
    BY <1>1, <1>2 DEF Debts, Using, Due, Wanted, Counting
  <1>7. \A q \in Runs : Debts[q] \in Nat /\ Claims[q] \in Nat /\ Claims'[q] \in Nat /\ Using[q] \in Nat
    BY <1>5, LoadTypesHold, LoadTypesHoldNext DEF SpendInv, LoadTypes
  <1>8. BalanceLimit'
    <2>1. TopUps' = TopUps /\ TopUps \in Nat
      BY <1>1, SumsAre DEF TopUps, SpendInv
    <2>2. \A q \in Runs : Debts'[q] <= Debts[q]
      BY <1>2, <1>6, <1>7, OthersAlike
    <2>3. TopUps <= TopUps'
      BY <2>1
    <2> QED
      BY <1>3, <1>5, <2>2, <2>3, BalanceKept DEF LimitInv
  <1>9. PlanLimit'
    <2>1. \A q \in Runs \ {r} : Using'[q] = Using[q]
      BY <1>2, OthersAlike
    <2>2. used' + Using'[r] <= used + Using[r]
      <3>1. used \in Nat /\ Using[r] \in Nat /\ used' = used
        BY <1>1, <1>7 DEF SpendInv, SpendTypeOK
      <3> QED
        BY <1>6, <3>1
    <2> QED
      BY <1>3, <1>5, <2>1, <2>2, PlanKept DEF LimitInv
  <1>10. CapLimit'
    <2>1. Claims[r] = 0 + Spent[r] /\ Claims'[r] = Spent[r] + Wanted(r)' /\ Spent[r] \in Nat
      BY <1>1, <1>6 DEF Claims, Spent, SpendInv, SpendTypeOK
    <2>2. Wanted(r)' = IF left'[r] > 0 THEN Lesser(MaxRun, left'[r]) + MostOfTurn ELSE 0
      BY <1>2 DEF Wanted
    <2>3. CASE left'[r] > 0
      <3> SUFFICES ASSUME NEW w \in Workspaces
                   PROVE  Over(RunsOf(w), Claims') <= Cap + Give(Together')
        BY DEF CapLimit
      <3> DEFINE S == RunsOf(w)
                 n == overlap' - 1
                 spent == WorkspaceSpend(w)
                 wanted == Wanted(r)'
      <3>1. S \in SUBSET Runs /\ IsFiniteSet(S)
        BY AgentSpendAssumption, FS_Subset DEF RunsOf
      <3>2. Over(S, Spent) = spent /\ spent \in Nat
        BY SpendIsSpent, SumsAre DEF SpendInv
      <3>3. \A q \in S : Spent[q] \in Nat /\ Wants[q] \in Nat /\ Claims[q] = Spent[q] + Wants[q]
        BY <3>1, LoadsAre DEF SpendInv
      <3>4. Over(S, Claims) = spent + Over(S, Wants) /\ Over(S, Wants) \in Nat
        <4>1. Over(S, Wants) \in Nat
          <5> HIDE DEF S
          <5> QED
            BY <3>1, <3>3, SumIsNat
        <4>2. Over(S, Claims) = Over(S, Spent) + Over(S, Wants)
          <5> HIDE DEF S
          <5>1. \A q \in S : Spent[q] \in Int /\ Wants[q] \in Int /\ Claims[q] = Spent[q] + Wants[q]
            BY <3>3
          <5> QED
            BY <3>1, <5>1, SumOfSums
        <4> QED
          BY <3>2, <4>1, <4>2
      <3>5. n \in Nat /\ Over(S, Wants) <= WholeRun * n
        <4>1. InFlight \ {r} = InFlight
          BY <1>1
        <4>2. n \in Nat /\ Cardinality(InFlight) <= n
          <5> DEFINE k == Cardinality(InFlight)
                     o == overlap'
          <5>1. k \in Nat /\ o \in Nat /\ k + 1 <= o
            BY <1>3, FlightIsFinite
          <5> HIDE DEF k, o
          <5>2. o - 1 \in Nat /\ k <= o - 1
            BY <5>1
          <5> QED
            BY <5>2 DEF k, o
        <4>3. Cardinality(InFlight \ {r}) <= n
          BY <4>1, <4>2
        <4> QED
          BY <1>1, <4>2, <4>3, OthersDraw DEF SpendInv
      <3>6. Together' = overlap' /\ Give(Together') = MostOfTurn + n * WholeRun
        BY <1>3, <1>5, <3>5, FlightIsFinite, LoadTypesHoldNext DEF LoadTypes, Give
      <3>7. n * WholeRun = WholeRun * n /\ n * WholeRun \in Nat /\ MostOfTurn \in Nat
        BY <3>5, WholeIsNat
      <3>8. CASE r \in S
        <4>1. WorkspaceOf[r] = w
          BY <3>8 DEF RunsOf
        <4>2. wanted \in Nat /\ wanted <= (Cap - spent) + MostOfTurn
          <5>1. left'[r] = Cap - spent /\ Cap \in Nat
            BY <1>2, <4>1, AgentSpendAssumption
          <5> QED
            BY <2>2, <2>3, <3>2, <5>1, WholeIsNat DEF Lesser
        <4>3. Over(S, Claims') = Over(S, Claims) - Claims[r] + Claims'[r]
          <5>1. \A q \in S : Claims[q] \in Int /\ Claims'[q] \in Int
            BY <1>7, <3>1
          <5>2. \A q \in S \ {r} : Claims'[q] = Claims[q]
            BY <1>2, <3>1, OthersAlike
          <5> HIDE DEF S
          <5> QED
            BY <3>1, <3>8, <5>1, <5>2, SumChanged
        <4> DEFINE a == Over(S, Claims)
                   b == Over(S, Claims')
                   c == Spent[r]
                   m == n * WholeRun
                   x == Over(S, Wants)
        <4>4. /\ b = a - c + (c + wanted) /\ a = spent + x /\ x <= m /\ x \in Nat /\ m \in Nat
              /\ c \in Nat /\ wanted \in Nat /\ wanted <= (Cap - spent) + MostOfTurn
              /\ spent \in Nat /\ MostOfTurn \in Nat /\ Cap \in Nat
              /\ Give(Together') = MostOfTurn + m
          BY <2>1, <3>2, <3>4, <3>5, <3>6, <3>7, <4>2, <4>3, AgentSpendAssumption
        <4> HIDE DEF a, b, c, m, x, wanted, spent
        <4>5. b <= Cap + Give(Together')
          BY <4>4
        <4> QED
          BY <4>5 DEF b
      <3>9. CASE r \notin S
        <4>1. \A q \in S : Claims'[q] = Claims[q]
          BY <1>2, <3>1, <3>9, OthersAlike
        <4>2. Over(S, Claims') = Over(S, Claims)
          <5> HIDE DEF S
          <5> QED
            BY <3>1, <4>1, SumsAgree
        <4>3. Over(S, Claims) <= Cap + Give(Together)
          BY DEF LimitInv, CapLimit
        <4>4. Give(Together) <= Give(Together') /\ Give(Together) \in Nat /\ Give(Together') \in Nat
          BY <1>3, <1>5, TogetherGrows, GiveGrows DEF SpendInv
        <4>5. Cap \in Nat /\ Over(S, Claims) \in Nat
          BY <3>1, <1>7, SumIsNat, AgentSpendAssumption
        <4> QED
          BY <4>2, <4>3, <4>4, <4>5
      <3> QED
        BY <3>8, <3>9
    <2>4. CASE ~(left'[r] > 0)
      <3>1. \A q \in Runs : Claims'[q] <= Claims[q]
        BY <1>2, <1>7, <2>1, <2>2, <2>4, OthersAlike
      <3> QED
        BY <1>3, <1>5, <3>1, CapKept DEF LimitInv
    <2> QED
      BY <2>3, <2>4
  <1> QED
    BY <1>5, <1>8, <1>9, <1>10 DEF LimitInv

\* A run admitted within a budget: it claims no more than it did, and the
\* balance or the plan has room for it beside the others.
LEMMA AdmitKeepsLimits ==
    ASSUME SpendInv, LimitInv, SpendTypeOK', NEW r \in Runs, at[r] \in {"capped", "overage"},
           NEW payer \in {"plan", "credits"}, NEW budget \in Nat, Admit(r, payer, budget),
           left[r] > 0, budget <= Lesser(MaxRun, left[r]),
           UNCHANGED <<drawn, recent, used, overlap, credited>>,
           payer = "plan" => at[r] = "capped" /\ used < Allowance,
           payer = "credits" => at[r] = "overage" /\ budget <= Balance
    PROVE  BudgetInv' /\ LimitInv'
  <1>1. r \in InFlight
    BY DEF InFlight
  <1>2. /\ OnlyRun(r) /\ at'[r] = "running" /\ funding'[r] = payer /\ ceiling'[r] = budget
        /\ cost'[r] = 0
    BY <1>1 DEF OnlyRun, Admit, SpendInv, SpendTypeOK, BudgetInv, BudgetOf
  <1>3. budget <= MaxRun /\ MaxRun \in Nat /\ MostOfTurn \in Nat
    BY <1>1, UnderWay, WholeIsNat DEF Lesser
  <1>4. BudgetInv'
    <2>1. BudgetOf(r)'
      BY <1>2, <1>3 DEF BudgetOf
    <2>2. r \in recent' => at'[r] = "answered"
      BY <1>1, UnderWay
    <2> QED
      BY <1>1, <1>2, <2>1, <2>2, BudgetKept
  <1>5. /\ Debts'[r] = IF payer = "credits" THEN budget + MostOfTurn ELSE 0
        /\ Claims'[r] = IF payer = "credits" THEN budget + MostOfTurn ELSE 0
        /\ Using'[r] = IF payer = "plan" THEN 1 ELSE 0
        /\ Debts[r] = 0 /\ Using[r] = 0
        /\ Claims[r] = Lesser(MaxRun, left[r]) + MostOfTurn
    BY <1>1, <1>2, <1>3, UnderWay DEF Debts, Claims, Using, Due, Wanted, Counting
  <1>6. \A q \in Runs : Debts[q] \in Nat /\ Claims[q] \in Nat /\ Using[q] \in Nat
                        /\ Debts'[q] \in Nat /\ Using'[q] \in Nat
    BY <1>4, LoadTypesHold, LoadTypesHoldNext DEF SpendInv, LoadTypes
  <1>7. /\ overlap \in Nat /\ overlap <= overlap' /\ Together' = Together
        /\ TopUps' = TopUps /\ TopUps \in Nat /\ TopUps <= TopUps'
        /\ Balance = TopUps - Over(Runs, drawn) /\ Over(Runs, drawn) \in Nat
        /\ used \in Nat /\ IsFiniteSet(Runs)
    BY SumsAre, AgentSpendAssumption DEF SpendInv, SpendTypeOK, TopUps, Together
  <1>8. CapLimit'
    <2>1. Claims'[r] <= Claims[r]
      BY <1>1, <1>3, <1>5, UnderWay DEF Lesser
    <2>2. \A q \in Runs : Claims'[q] <= Claims[q]
      BY <1>2, <1>6, <2>1, OthersAlike
    <2> QED
      BY <1>4, <1>7, <2>2, CapKept DEF LimitInv
  <1> DEFINE n == overlap - 1
  <1>9. /\ n \in Nat /\ Cardinality(InFlight \ {r}) <= n /\ Together = overlap
        /\ Give(Together) = MostOfTurn + n * WholeRun
        /\ n * WholeRun = WholeRun * n /\ WholeRun * n \in Nat
    <2>1. Cardinality(InFlight \ {r}) = Cardinality(InFlight) - 1 /\ Cardinality(InFlight \ {r}) \in Nat
      BY <1>1, FlightIsFinite, FS_RemoveElement, FS_CardinalityType
    <2>2. Cardinality(InFlight) <= overlap
      BY DEF SpendInv, BudgetInv
    <2>3. n \in Nat /\ Cardinality(InFlight \ {r}) <= n /\ Together = overlap
      BY <1>7, <2>1, <2>2, FlightIsFinite DEF Together
    <2> HIDE DEF n
    <2>4. n * WholeRun = WholeRun * n /\ WholeRun * n \in Nat
      BY <2>3, WholeIsNat
    <2> QED
      BY <2>3, <2>4 DEF Give, n
  <1> HIDE DEF n
  <1>10. BalanceLimit'
    <2>1. CASE payer = "credits"
      <3>1. Over(Runs, Debts) = Over(Runs, drawn) + Over(Runs, Dues) /\ Over(Runs, Dues) \in Nat
        <4>1. \A q \in Runs : drawn[q] \in Nat /\ Dues[q] \in Nat /\ Debts[q] = drawn[q] + Dues[q]
          BY LoadsAre DEF SpendInv
        <4> QED
          BY <1>7, <4>1, SumOfSums, SumIsNat
      <3>2. Over(Runs, Dues) <= WholeRun * n
        BY <1>9, <2>1, OthersDraw DEF SpendInv
      <3>3. Over(Runs, Debts') = Over(Runs, Debts) - Debts[r] + Debts'[r]
        <4>1. \A q \in Runs \ {r} : Debts'[q] = Debts[q]
          BY <1>2, OthersAlike
        <4> QED
          BY <1>6, <1>7, <4>1, SumChanged
      <3> DEFINE a == Over(Runs, drawn)
                 x == Over(Runs, Dues)
                 b == Over(Runs, Debts')
                 m == WholeRun * n
      <3>4. /\ b = (a + x) - 0 + (budget + MostOfTurn) /\ a \in Nat /\ x \in Nat /\ x <= m
            /\ m \in Nat /\ budget <= TopUps - a /\ Give(Together) = MostOfTurn + m
            /\ TopUps \in Nat /\ MostOfTurn \in Nat
        BY <1>3, <1>5, <1>7, <1>9, <2>1, <3>1, <3>2, <3>3
      <3> HIDE DEF a, x, b, m
      <3>5. b <= TopUps + Give(Together)
        BY <3>4
      <3> QED
        BY <1>7, <3>5 DEF BalanceLimit, b
    <2>2. CASE payer # "credits"
      <3>1. \A q \in Runs : Debts'[q] <= Debts[q]
        BY <1>2, <1>5, <1>6, <2>2, OthersAlike
      <3> QED
        BY <1>4, <1>7, <3>1, BalanceKept DEF LimitInv
    <2> QED
      BY <2>1, <2>2
  <1>11. PlanLimit'
    <2>1. \A q \in Runs \ {r} : Using'[q] = Using[q]
      BY <1>2, OthersAlike
    <2>2. CASE payer = "plan"
      <3>1. Over(Runs, Using) <= n
        BY <1>9, <2>2, OthersDraw DEF SpendInv
      <3>2. Over(Runs, Using') = Over(Runs, Using) - Using[r] + Using'[r]
        BY <1>6, <1>7, <2>1, SumChanged
      <3>3. Over(Runs, Using) \in Nat
        BY <1>6, <1>7, SumIsNat
      <3>4. used' = used /\ used < Allowance /\ Allowance \in Nat
        BY <2>2, AgentSpendAssumption
      <3>5. n = Together' - 1 /\ Together' \in Nat
        BY <1>7, <1>9 DEF n
      <3>6. used' + Over(Runs, Using') <= Allowance + Together' - 1
        BY <1>5, <1>7, <1>9, <2>2, <3>1, <3>2, <3>3, <3>4, <3>5
      <3> QED
        BY <3>6 DEF PlanLimit
    <2>3. CASE payer # "plan"
      <3>1. used' + Using'[r] <= used + Using[r]
        BY <1>5, <1>7, <2>3
      <3> QED
        BY <1>4, <1>7, <2>1, <3>1, PlanKept DEF LimitInv
    <2> QED
      BY <2>2, <2>3
  <1> QED
    BY <1>4, <1>8, <1>10, <1>11 DEF LimitInv


\* Reading the allowance keeps the limits.
LEMMA AllowanceKeepsLimits ==
    ASSUME SpendInv, LimitInv, SpendTypeOK', NEW r \in Runs, ReadAllowance(r)
    PROVE  BudgetInv' /\ LimitInv'
  <1>1. at[r] = "capped" /\ UNCHANGED <<drawn, recent, used, overlap, credited>>
    BY DEF ReadAllowance, ledgerVars, creditVars
  <1>2. r \in InFlight
    BY <1>1 DEF InFlight
  <1>3. CASE Refuse(r)
    BY <1>1, <1>3, RefuseIsQuiet
  <1>4. CASE WithinGrace /\ left[r] > 0 /\ Admit(r, "plan", Lesser(MaxRun, left[r]))
    <2>1. Lesser(MaxRun, left[r]) \in Nat
      BY <1>2, <1>4, UnderWay, WholeIsNat DEF Lesser
    <2>2. Lesser(MaxRun, left[r]) <= Lesser(MaxRun, left[r])
      BY <2>1
    <2>3. used < Allowance
      BY <1>4 DEF WithinGrace
    <2> QED
      BY <1>1, <1>4, <2>1, <2>2, <2>3, AdmitKeepsLimits
  <1>5. CASE /\ at' = [at EXCEPT ![r] = "overage"]
             /\ UNCHANGED <<left, ceiling, funding, steps, cost>>
    <2>1. OnlyRun(r) /\ at'[r] = "overage"
      BY <1>1, <1>5 DEF OnlyRun, SpendInv, SpendTypeOK
    <2>2. BudgetOf(r)'
      BY <1>1, <1>2, <1>5, <2>1, UnderWay DEF BudgetOf
    <2>3. Debts'[r] = Debts[r] /\ Claims'[r] = Claims[r] /\ Using'[r] = Using[r]
      BY <1>1, <1>5, <2>1 DEF Debts, Claims, Using, Due, Wanted, Counting
    <2>4. Debts[r] \in Nat /\ Claims[r] \in Nat /\ used + Using[r] \in Nat
      BY <1>2, UnderWay
    <2>5. r \in recent' => at'[r] = "answered"
      BY <1>1, <1>2, UnderWay
    <2> QED
      BY <1>1, <1>2, <2>1, <2>2, <2>3, <2>4, <2>5, QuietRun
  <1> QED
    BY <1>3, <1>4, <1>5 DEF ReadAllowance

\* Reading the balance keeps the limits.
LEMMA BalanceReadKeepsLimits ==
    ASSUME SpendInv, LimitInv, SpendTypeOK', NEW r \in Runs, ReadBalance(r)
    PROVE  BudgetInv' /\ LimitInv'
  <1>1. at[r] = "overage" /\ UNCHANGED <<drawn, recent, used, overlap, credited>>
    BY DEF ReadBalance, ledgerVars, creditVars
  <1>2. CASE Refuse(r)
    BY <1>1, <1>2, RefuseIsQuiet
  <1>3. CASE Balance > 0 /\ left[r] > 0 /\ Admit(r, "credits", CreditCeiling(r))
    <2>1. left[r] \in Int /\ Balance \in Int /\ MaxRun \in Nat
      BY SumsAre, WholeIsNat DEF SpendInv, SpendTypeOK, SumsAreNumbers
    <2>2. /\ CreditCeiling(r) \in Nat
          /\ CreditCeiling(r) <= Lesser(MaxRun, left[r]) /\ CreditCeiling(r) <= Balance
      BY <1>3, <2>1 DEF CreditCeiling, Lesser
    <2> QED
      BY <1>1, <1>3, <2>2, AdmitKeepsLimits
  <1> QED
    BY <1>2, <1>3 DEF ReadBalance

\* A run that throws is charged its budget, one that stops what it used.
LEMMA EndKeepsLimits ==
    ASSUME SpendInv, LimitInv, SpendTypeOK', NEW r \in Runs, Stop(r) \/ Throw(r)
    PROVE  BudgetInv' /\ LimitInv'
  <1>1. /\ at[r] = "running" /\ EndRun(r)
        /\ UNCHANGED <<left, funding, drawn, recent, used, overlap, credited>>
    BY DEF Stop, Throw, ledgerVars, creditVars
  <1>2. /\ cost[r] \in Nat /\ ceiling[r] \in Nat /\ MostOfTurn \in Nat
        /\ cost[r] <= ceiling[r] + MostOfTurn /\ ceiling[r] <= ceiling[r] + MostOfTurn
    <2>1. r \in InFlight
      BY <1>1 DEF InFlight
    <2>2. cost[r] \in Nat /\ ceiling[r] \in Nat /\ cost[r] <= ceiling[r]
      BY <1>1, <2>1, UnderWay DEF BudgetOf
    <2> QED
      BY <2>2, WholeIsNat
  <1>3. CASE Stop(r)
    <2>1. cost' = [cost EXCEPT ![r] = cost[r]]
      BY <1>3 DEF Stop, SpendInv, SpendTypeOK
    <2> QED
      BY <1>1, <1>2, <2>1, EndIsQuiet
  <1>4. CASE Throw(r)
    <2>1. cost' = [cost EXCEPT ![r] = ceiling[r]]
      BY <1>4 DEF Throw
    <2> QED
      BY <1>1, <1>2, <2>1, EndIsQuiet
  <1> QED
    BY <1>3, <1>4

\* A step of no run in flight: spend leaves the window, the month begins, credit
\* arrives.
LEMMA IdleKeepsLimits ==
    ASSUME SpendInv, LimitInv, SpendTypeOK', UNCHANGED <<at, left, ceiling, funding, cost>>,
           UNCHANGED <<drawn, overlap>>, recent' \subseteq recent, used' <= used,
           \A i \in Intents : credited'[i] >= credited[i]
    PROVE  BudgetInv' /\ LimitInv'
  <1>1. overlap \in Nat /\ overlap <= overlap'
    BY LoadTypesHold DEF SpendInv, LoadTypes
  <1>2. BudgetInv'
    <2>1. InFlight' = InFlight
      BY DEF InFlight
    <2>2. Cardinality(InFlight') <= overlap'
      BY <2>1 DEF SpendInv, BudgetInv
    <2>3. \A r \in recent' : at'[r] = "answered"
      BY DEF SpendInv, BudgetInv
    <2>4. \A r \in Runs : BudgetOf(r)'
      BY DEF SpendInv, BudgetInv, BudgetOf
    <2> QED
      BY <2>2, <2>3, <2>4 DEF BudgetInv
  <1>3. TopUps <= TopUps'
    <2> DEFINE f == [i \in Intents |-> Amount[i] * credited[i]]
               g == [i \in Intents |-> Amount[i] * credited'[i]]
    <2>1. \A i \in Intents : f[i] \in Int /\ g[i] \in Int /\ f[i] <= g[i]
      <3> SUFFICES ASSUME NEW i \in Intents PROVE f[i] \in Int /\ g[i] \in Int /\ f[i] <= g[i]
        OBVIOUS
      <3> DEFINE a == Amount[i]
                 c == credited[i]
                 d == credited'[i] - credited[i]
      <3>1. a \in Nat /\ c \in Nat /\ d \in Nat /\ credited'[i] = c + d
        BY AgentSpendAssumption DEF SpendInv, SpendTypeOK
      <3>2. f[i] = a * c /\ g[i] = a * (c + d)
        BY <3>1
      <3> HIDE DEF a, c, d, f, g
      <3>3. a * c \in Nat /\ a * d \in Nat /\ a * (c + d) = a * c + a * d
        BY <3>1
      <3> QED
        BY <3>2, <3>3
    <2>2. TopUps = Over(Intents, f) /\ TopUps' = Over(Intents, g)
      BY DEF TopUps
    <2> HIDE DEF f, g
    <2> QED
      BY <2>1, <2>2, SumsCompare, AgentSpendAssumption
  <1>4. \A r \in Runs : Debts'[r] = Debts[r] /\ Using'[r] = Using[r] /\ Claims'[r] <= Claims[r]
    <2> SUFFICES ASSUME NEW r \in Runs
                 PROVE  Debts'[r] = Debts[r] /\ Using'[r] = Using[r] /\ Claims'[r] <= Claims[r]
      OBVIOUS
    <2>1. Due(r)' = Due(r) /\ Wanted(r)' = Wanted(r) /\ Counting(r)' = Counting(r)
      BY DEF Due, Wanted, Counting
    <2>2. Wanted(r) \in Nat /\ drawn[r] \in Nat
      BY DueIsBounded DEF SpendInv, SpendTypeOK
    <2>3. Debts'[r] = Debts[r] /\ Using'[r] = Using[r]
      BY <2>1 DEF Debts, Using
    <2>4. /\ Claims[r] = (IF r \in recent THEN drawn[r] ELSE 0) + Wanted(r)
          /\ Claims'[r] = (IF r \in recent' THEN drawn[r] ELSE 0) + Wanted(r)
      BY <2>1 DEF Claims
    <2>5. r \in recent' => r \in recent
      OBVIOUS
    <2> QED
      BY <2>2, <2>3, <2>4, <2>5
  <1>5. \A r \in Runs : Debts[r] \in Nat /\ Using[r] \in Nat
    BY LoadTypesHold DEF SpendInv, LoadTypes
  <1>6. BalanceLimit'
    <2>1. \A r \in Runs : Debts'[r] <= Debts[r]
      BY <1>4, <1>5
    <2> QED
      BY <1>1, <1>2, <1>3, <2>1, BalanceKept DEF LimitInv
  <1>7. CapLimit'
    BY <1>1, <1>2, <1>4, CapKept DEF LimitInv
  <1>8. PlanLimit'
    <2>1. Over(Runs, Using') = Over(Runs, Using) /\ Over(Runs, Using) \in Nat
      BY <1>4, <1>5, SumsAgree, SumIsNat, AgentSpendAssumption
    <2>2. Together' = Together /\ Together \in Nat
      BY LoadTypesHold DEF Together, SpendInv, LoadTypes
    <2>3. used \in Nat /\ used' \in Nat /\ Allowance \in Nat
      BY AgentSpendAssumption DEF SpendInv, SpendTypeOK
    <2>4. used + Over(Runs, Using) <= Allowance + Together - 1
      BY DEF LimitInv, PlanLimit
    <2>5. used' + Over(Runs, Using') <= Allowance + Together' - 1
      BY <2>1, <2>2, <2>3, <2>4
    <2> QED
      BY <2>5 DEF PlanLimit
  <1> QED
    BY <1>2, <1>6, <1>7, <1>8 DEF LimitInv

\* Every step keeps the limits.
LEMMA LimitsStep ==
    ASSUME SpendInv, LimitInv, SpendTypeOK', ChargeInv', [SpendNext]_spendVars
    PROVE  BudgetInv' /\ LimitInv'
  <1>1. ASSUME NEW r \in Runs, Step(r) PROVE BudgetInv' /\ LimitInv'
    BY <1>1, ReadClaims, AllowanceKeepsLimits, BalanceReadKeepsLimits, TurnIsQuiet,
       EndKeepsLimits, SettleIsQuiet DEF Step
  <1>2. ASSUME NEW r \in Runs, Throw(r) \/ Lose(r) PROVE BudgetInv' /\ LimitInv'
    BY <1>2, EndKeepsLimits, LoseIsQuiet
  <1>3. used \in Nat /\ used <= used /\ 0 <= used /\ \A i \in Intents : credited[i] \in Nat
    BY DEF SpendInv, SpendTypeOK
  <1>4. \A i \in Intents : credited[i] >= credited[i]
    BY <1>3
  <1>5. ASSUME NEW r \in Runs, Age(r) PROVE BudgetInv' /\ LimitInv'
    BY <1>3, <1>4, <1>5, IdleKeepsLimits DEF Age, runVars, creditVars
  <1>6. CASE NextMonth
    BY <1>3, <1>4, <1>6, IdleKeepsLimits DEF NextMonth, runVars, creditVars
  <1>7. ASSUME UNCHANGED <<runVars, ledgerVars, overlap>>,
               \A i \in Intents : credited'[i] >= credited[i]
        PROVE  BudgetInv' /\ LimitInv'
    BY <1>3, <1>7, IdleKeepsLimits DEF runVars, ledgerVars
  <1>8. ASSUME NEW i \in Intents, Pay(i) PROVE BudgetInv' /\ LimitInv'
    BY <1>4, <1>7, <1>8 DEF Pay
  <1>9. ASSUME NEW d \in Deliveries, NEW i \in Intents, Deliver(d, i)
        PROVE  BudgetInv' /\ LimitInv'
    BY <1>4, <1>7, <1>9 DEF Deliver
  <1>10. ASSUME NEW d \in Deliveries, InsertTopUp(d) PROVE BudgetInv' /\ LimitInv'
    <2>1. \A i \in Intents : credited'[i] >= credited[i]
      <3>1. handling[d] \in Intents
        BY <1>10 DEF InsertTopUp, SpendInv, SpendTypeOK
      <3> QED
        BY <1>3, <1>4, <1>10, <3>1 DEF InsertTopUp, SpendInv, SpendTypeOK
    <2> QED
      BY <1>7, <1>10, <2>1 DEF InsertTopUp
  <1>11. ASSUME NEW d \in Deliveries, DeliveryFails(d) PROVE BudgetInv' /\ LimitInv'
    BY <1>4, <1>7, <1>11 DEF DeliveryFails
  <1>12. CASE UNCHANGED spendVars
    BY <1>4, <1>7, <1>12 DEF spendVars, creditVars
  <1> QED
    BY <1>1, <1>2, <1>5, <1>6, <1>8, <1>9, <1>10, <1>11, <1>12 DEF SpendNext

\* Nothing is in flight and nothing was spent.
LEMMA LimitsStart == SpendInit => BudgetInv /\ LimitInv
  <1> SUFFICES ASSUME SpendInit PROVE BudgetInv /\ LimitInv
    OBVIOUS
  <1>1. SpendTypeOK
    BY SpendTypesStart
  <1>2. BudgetInv
    <2>1. InFlight = {}
      BY DEF SpendInit, InFlight
    <2>2. Cardinality(InFlight) <= overlap
      BY <2>1, FS_EmptySet DEF SpendInit
    <2>3. \A r \in Runs : BudgetOf(r)
      BY DEF SpendInit, BudgetOf
    <2> QED
      BY <2>2, <2>3 DEF BudgetInv, SpendInit
  <1>3. Together = 1 /\ Give(1) = MostOfTurn /\ MostOfTurn \in Nat
    <2>1. Together = 1 /\ WholeRun \in Nat /\ MostOfTurn \in Nat
      BY WholeIsNat DEF Together, SpendInit
    <2>2. (1 - 1) * WholeRun = 0
      BY <2>1
    <2> QED
      BY <2>1, <2>2 DEF Give
  <1>4. \A r \in Runs : Debts[r] = 0 /\ Claims[r] = 0 /\ Using[r] = 0
    BY DEF SpendInit, Debts, Claims, Using, Due, Wanted, Counting, Nobody
  <1>5. Over(Runs, Debts) = 0 /\ Over(Runs, Using) = 0
    BY <1>4, SumOfZeros, AgentSpendAssumption
  <1>6. BalanceLimit
    BY <1>1, <1>3, <1>5, SumsAre DEF BalanceLimit
  <1>7. PlanLimit
    BY <1>3, <1>5, AgentSpendAssumption DEF PlanLimit, SpendInit
  <1>8. CapLimit
    <2> SUFFICES ASSUME NEW w \in Workspaces
                 PROVE  Over(RunsOf(w), Claims) <= Cap + Give(Together)
      BY DEF CapLimit
    <2>1. RunsOf(w) \in SUBSET Runs /\ IsFiniteSet(RunsOf(w))
      BY AgentSpendAssumption, FS_Subset DEF RunsOf
    <2>2. \A r \in RunsOf(w) : Claims[r] = 0
      BY <1>4, <2>1
    <2>3. Over(RunsOf(w), Claims) = 0
      BY <2>1, <2>2, SumOfZeros
    <2> QED
      BY <1>3, <2>3, AgentSpendAssumption
  <1> QED
    BY <1>2, <1>6, <1>7, <1>8 DEF LimitInv

\* The invariant says what the property says.
LEMMA LimitsAreMeant == SpendInv /\ LimitInv => LimitsGiveByOverlap
  <1> SUFFICES ASSUME SpendInv, LimitInv, overlap > 0
               PROVE  /\ Balance >= -Overrun
                      /\ \A w \in Workspaces : WorkspaceSpend(w) <= Cap + Overrun
                      /\ used <= Allowance + overlap - 1
    BY DEF LimitsGiveByOverlap
  <1>1. /\ Together = overlap /\ overlap \in Nat \ {0}
        /\ \A r \in Runs : Debts[r] \in Nat /\ Claims[r] \in Nat /\ Using[r] \in Nat
    BY LoadTypesHold DEF SpendInv, LoadTypes
  <1>2. Give(Together) = Overrun /\ Overrun \in Nat
    BY <1>1, GiveGrows DEF Give, Overrun, WholeRun
  <1>3. Balance >= -Overrun
    <2>1. TopUps \in Nat /\ Over(Runs, drawn) \in Nat /\ Balance = TopUps - Over(Runs, drawn)
      BY SumsAre DEF SpendInv
    <2>2. \A r \in Runs : drawn[r] \in Int /\ Debts[r] \in Int /\ drawn[r] <= Debts[r]
      BY LoadsAre DEF SpendInv
    <2>3. Over(Runs, drawn) <= Over(Runs, Debts) /\ Over(Runs, Debts) \in Int
      BY <2>2, SumsCompare, SumIsNumber, AgentSpendAssumption
    <2>4. Over(Runs, Debts) <= TopUps + Overrun
      BY <1>2 DEF LimitInv, BalanceLimit
    <2> QED
      BY <1>2, <2>1, <2>3, <2>4
  <1>4. ASSUME NEW w \in Workspaces PROVE WorkspaceSpend(w) <= Cap + Overrun
    <2>1. RunsOf(w) \in SUBSET Runs /\ IsFiniteSet(RunsOf(w))
      BY AgentSpendAssumption, FS_Subset DEF RunsOf
    <2>2. \A r \in RunsOf(w) : Spent[r] \in Int /\ Claims[r] \in Int /\ Spent[r] <= Claims[r]
      BY <2>1, LoadsAre DEF SpendInv
    <2>3. Over(RunsOf(w), Spent) <= Over(RunsOf(w), Claims) /\ Over(RunsOf(w), Claims) \in Int
      BY <2>1, <2>2, SumsCompare, SumIsNumber
    <2>4. Over(RunsOf(w), Spent) = WorkspaceSpend(w) /\ WorkspaceSpend(w) \in Nat
      BY SpendIsSpent, SumsAre DEF SpendInv
    <2>5. Over(RunsOf(w), Claims) <= Cap + Overrun
      BY <1>2 DEF LimitInv, CapLimit
    <2> QED
      BY <1>2, <2>3, <2>4, <2>5, AgentSpendAssumption
  <1>5. used <= Allowance + overlap - 1
    <2>1. Over(Runs, Using) \in Nat /\ used \in Nat /\ Allowance \in Nat
      BY <1>1, SumIsNat, AgentSpendAssumption DEF SpendInv, SpendTypeOK
    <2>2. used + Over(Runs, Using) <= Allowance + overlap - 1
      BY <1>1 DEF LimitInv, PlanLimit
    <2> QED
      BY <1>1, <2>1, <2>2
  <1> QED
    BY <1>3, <1>4, <1>5

\* However many runs are admitted side by side, the balance, the workspace's cap
\* and the plan's allowance give by no more than one turn of the run that reached
\* the limit and a whole run and its last turn for each other one that was in
\* flight (ai-spend.ts admitAiSpend, runtime.ts runAgent).
THEOREM LimitsGive == SpendSpec => []LimitsGiveByOverlap
  <1>1. SpendInit => SpendTypeOK /\ ChargeInv /\ BudgetInv /\ LimitInv
    BY SpendTypesStart, ChargeStarts, LimitsStart
  <1>2. SpendTypeOK /\ ChargeInv /\ BudgetInv /\ LimitInv /\ [SpendNext]_spendVars
        => SpendTypeOK' /\ ChargeInv' /\ BudgetInv' /\ LimitInv'
    <2> SUFFICES ASSUME SpendTypeOK, ChargeInv, BudgetInv, LimitInv, [SpendNext]_spendVars
                 PROVE  SpendTypeOK' /\ ChargeInv' /\ BudgetInv' /\ LimitInv'
      OBVIOUS
    <2>1. SpendTypeOK'
      BY SpendTypesStep
    <2>2. ChargeInv'
      BY ChargeStep, SumsAre
    <2>3. SpendInv
      BY DEF SpendInv
    <2> QED
      BY <2>1, <2>2, <2>3, LimitsStep
  <1>3. SpendTypeOK /\ ChargeInv /\ BudgetInv /\ LimitInv => LimitsGiveByOverlap
    BY LimitsAreMeant DEF SpendInv
  <1> QED
    BY <1>1, <1>2, <1>3, PTL DEF SpendSpec
=============================================================================

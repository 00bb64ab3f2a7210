------------------------ MODULE SupplierSettlement ------------------------
(***************************************************************************)
(* Paying the supplier of an order, and taking the payment back            *)
(* (packages/modules/inventory/src/supplier-settlement.ts,                 *)
(* supplier-settlement-run.ts, packages/event-dispatch/src/                *)
(* supplier-settlement.ts, supplier-settlement-sweep.ts,                   *)
(* supplier-refund.ts, supplier-reconciliation.ts).                        *)
(*                                                                         *)
(* Four parties write the row of an obligation without a lock or a         *)
(* transaction: the handler of order.paid and the sweep, which send the    *)
(* money; the handler of payment.refunded, which pulls it back; and the    *)
(* reconciliation, which asks the provider and writes what it says.  Each  *)
(* statement and each call to the provider is a step of its own, and a     *)
(* process may die between any two of them.                                *)
(***************************************************************************)
EXTENDS Integers, FiniteSets

CONSTANTS
    Obligations,    \* purchase orders; each has at most one supplier_payments row
    Amount,         \* amountCents
    Handlers,       \* processes that handle order.paid
    Sweep,          \* the settlement sweep, of which one runs at a time
    Refunds,        \* payment.refunded events
    Of,             \* the purchase order a refund is about
    Share,          \* what of the supplier's money it stands for
    Batch,          \* the limit of both sweeps' queries
    None            \* no obligation

Workers == Handlers \cup {Sweep}

ASSUME ObligationsAssumption ==
    /\ None \notin Obligations
    /\ Amount \in [Obligations -> Nat \ {0}]
ASSUME WorkersAssumption ==
    /\ Sweep \notin Handlers
    /\ Batch \in Nat \ {0}
ASSUME RefundsAssumption ==
    /\ Of \in [Refunds -> Obligations]
    /\ Share \in [Refunds -> Nat]

VARIABLES
    status,     \* supplier_payments.status; "none" while there is no row
    known,      \* obligations whose external_transfer_id is written
    reversed,   \* reversed_cents
    ready,      \* obligations whose supplier can receive money
    moved,      \* at the provider: obligations whose transfer exists
    requests,   \* at the provider: transfers asked for
    taken,      \* at the provider: what came back of each transfer
    made,       \* at the provider: the reversals made, with their idempotency keys
    buried,     \* at the provider: transfers that only a search can find, and misses
    pulled,     \* at the provider: what each refund took back
    job,        \* what each worker is doing
    crowded,    \* the queries that rows of other obligations, not in Obligations, fill
    due,        \* the rows the sweep has listed and not got to
    unwind,     \* what the handler of each refund is doing
    listed,     \* the rows the reconciliation has listed, and whether it saw an id
    seen        \* what the provider has told the reconciliation

row == <<status, known, reversed>>
provider == <<moved, requests, taken, made, buried, pulled>>
sending == <<job, due>>
auditing == <<listed, seen>>
vars == <<row, ready, provider, crowded, sending, unwind, auditing>>

Statuses == {"none", "calculated", "initiated", "succeeded", "failed", "reversed", "cancelled"}
Stages == {"idle", "checking", "claiming", "sending", "paid", "unsure", "failed"}
Queries == {"sweep", "reconciliation"}
Free == [at |-> "idle", po |-> None]
Rest == [at |-> "idle", already |-> 0, want |-> 0]
Unasked == [po |-> None, taken |-> 0]

Init ==
    /\ status = [p \in Obligations |-> "none"]
    /\ known = {}
    /\ reversed = [p \in Obligations |-> 0]
    /\ ready = {}
    /\ moved = {}
    /\ requests = [p \in Obligations |-> 0]
    /\ taken = [p \in Obligations |-> 0]
    /\ made = {}
    /\ buried = {}
    /\ pulled = [r \in Refunds |-> 0]
    /\ job = [w \in Workers |-> Free]
    /\ crowded = {}
    /\ due = {}
    /\ unwind = [r \in Refunds |-> Rest]
    /\ listed = {}
    /\ seen = Unasked

-----------------------------------------------------------------------------
(* The supplier's account becomes able to receive money, or stops being.   *)
AccountChanges(p) ==
    /\ ready' = IF p \in ready THEN ready \ {p} ELSE ready \cup {p}
    /\ UNCHANGED <<crowded, row, provider, sending, unwind, auditing>>

(* recordSupplierObligation: the row is inserted unless it is there.  The  *)
(* event may be delivered any number of times.                             *)
HandlerStarts(w, p) ==
    /\ job[w].at = "idle"
    /\ status' = [status EXCEPT ![p] = IF @ = "none" THEN "calculated" ELSE @]
    /\ job' = [job EXCEPT ![w] = [at |-> "checking", po |-> p]]
    /\ UNCHANGED <<crowded, known, reversed, ready, provider, due, unwind, auditing>>

(* Mutant: the sweep looks for the failed rows.                            *)
ToSweepFailed == {p \in Obligations : status[p] = "failed"}

ToSweep == {p \in Obligations : status[p] = "calculated"}

(* A query with a limit and no order may return any of the rows it finds,  *)
(* those of other obligations among them.                                  *)
Limited(query, S) ==
    {T \in SUBSET S :
        /\ Cardinality(T) <= Batch
        /\ T = S \/ Cardinality(T) = Batch \/ query \in crowded}

(* Other obligations come to be found by a query, or to leave it.          *)
OthersChange(query) ==
    /\ crowded' = IF query \in crowded THEN crowded \ {query} ELSE crowded \cup {query}
    /\ UNCHANGED <<row, ready, provider, sending, unwind, auditing>>

SweepLists ==
    /\ job[Sweep].at = "idle"
    /\ due = {}
    /\ due' \in Limited("sweep", ToSweep)
    /\ UNCHANGED <<crowded, row, ready, provider, job, unwind, auditing>>

SweepTakes(p) ==
    /\ job[Sweep].at = "idle"
    /\ p \in due
    /\ due' = due \ {p}
    /\ job' = [job EXCEPT ![Sweep] = [at |-> "checking", po |-> p]]
    /\ UNCHANGED <<crowded, row, ready, provider, unwind, auditing>>

(* settlementEligibility: a failed obligation is eligible.                 *)
Eligible(p) == status[p] \in {"calculated", "failed"} /\ p \in ready

Check(w) ==
    /\ job[w].at = "checking"
    /\ job' = IF Eligible(job[w].po) THEN [job EXCEPT ![w].at = "claiming"]
                                     ELSE [job EXCEPT ![w] = Free]
    /\ UNCHANGED <<crowded, row, ready, provider, due, unwind, auditing>>

(* Mutant: a row that is in flight can be claimed again.                   *)
ClaimableOnce(p) == status[p] \in {"calculated", "initiated"}

Claimable(p) == status[p] = "calculated"

(* The conditional update that moves the row to initiated.                 *)
Claim(w) ==
    LET p == job[w].po IN
    /\ job[w].at = "claiming"
    /\ IF Claimable(p)
         THEN /\ status' = [status EXCEPT ![p] = "initiated"]
              /\ job' = [job EXCEPT ![w].at = "sending"]
         ELSE /\ job' = [job EXCEPT ![w] = Free]
              /\ UNCHANGED status
    /\ UNCHANGED <<crowded, known, reversed, ready, provider, due, unwind, auditing>>

(* The transfer is made or it is not, and the caller is told one of three  *)
(* things.  A short balance, a lock or a rate limit leaves it unsure, and  *)
(* so does the database failing after the transfer was made.  Every other  *)
(* error is final, asTransferError says, and a connection that breaks on   *)
(* the way back is among them: it has no code, and its type is not in the  *)
(* list.                                                                   *)
Transfer(w) ==
    LET p == job[w].po IN
    /\ job[w].at = "sending"
    /\ requests' = [requests EXCEPT ![p] = @ + 1]
    /\ \/ \E answer \in {"paid", "unsure", "failed"} :
             /\ moved' = moved \cup {p}
             /\ job' = [job EXCEPT ![w].at = answer]
       \/ \E answer \in {"unsure", "failed"} :
             /\ job' = [job EXCEPT ![w].at = answer]
             /\ UNCHANGED moved
    /\ UNCHANGED <<crowded, row, ready, taken, made, buried, pulled, due, unwind, auditing>>

(* What is final is a failure, which nothing claims or reconciles again;   *)
(* what is not stays initiated.                                            *)
Outcome(at) ==
    IF at = "paid" THEN "succeeded" ELSE IF at = "failed" THEN "failed" ELSE "initiated"

(* The answer is written by id, whatever the row says by now.              *)
Answered(w) ==
    LET p == job[w].po IN
    /\ job[w].at \in {"paid", "unsure", "failed"}
    /\ status' = [status EXCEPT ![p] = Outcome(job[w].at)]
    /\ known' = IF job[w].at = "paid" THEN known \cup {p} ELSE known
    /\ buried' = buried \ known'
    /\ job' = [job EXCEPT ![w] = Free]
    /\ UNCHANGED <<crowded, reversed, ready, moved, requests, taken, made, pulled, due, unwind, auditing>>

WorkerDies(w) ==
    /\ job[w].at # "idle"
    /\ job' = [job EXCEPT ![w] = Free]
    /\ due' = IF w = Sweep THEN {} ELSE due
    /\ UNCHANGED <<crowded, row, ready, provider, unwind, auditing>>

-----------------------------------------------------------------------------
AtMost(a, b) == IF a < b THEN a ELSE b

(* unwindSupplierPayment reads the row: what was not sent is cancelled,    *)
(* what is in flight is left alone, and of what was sent the refund's      *)
(* share is asked back, as far as the row says it is outstanding.          *)
UnwindStarts(r) ==
    LET p == Of[r]
        want == AtMost(Amount[p] - reversed[p], Share[r])
    IN
    /\ unwind[r].at = "idle"
    /\ \/ /\ status[p] \in {"calculated", "failed"}
          /\ unwind' = [unwind EXCEPT ![r].at = "cancelling"]
       \/ /\ status[p] = "succeeded" /\ p \in known /\ want > 0
          /\ unwind' = [unwind EXCEPT ![r] =
                [at |-> "reversing", already |-> reversed[p], want |-> want]]
    /\ UNCHANGED <<crowded, row, ready, provider, sending, auditing>>

Cancel(r) ==
    /\ unwind[r].at = "cancelling"
    /\ status' = [status EXCEPT ![Of[r]] = "cancelled"]
    /\ unwind' = [unwind EXCEPT ![r] = Rest]
    /\ UNCHANGED <<crowded, known, reversed, ready, provider, sending, auditing>>

(* Mutant: the key of a reversal names its amount.                         *)
KeyOfAmount(already, want) == want

Key(already, want) == already + want

(* The provider takes the amount back once for each key.                   *)
Reverse(r) ==
    LET p == Of[r]
        n == unwind[r].want
        new == [po |-> p, key |-> Key(unwind[r].already, n), amount |-> n]
    IN
    /\ unwind[r].at = "reversing"
    /\ \/ /\ new \in made
          /\ UNCHANGED <<taken, made, pulled>>
       \/ /\ \A m \in made : m.po # p \/ m.key # new.key
          /\ taken[p] + n <= Amount[p]
          /\ taken' = [taken EXCEPT ![p] = @ + n]
          /\ made' = made \cup {new}
          /\ pulled' = [pulled EXCEPT ![r] = @ + n]
    /\ \E at \in {"writing", "idle"} :
          unwind' = [unwind EXCEPT ![r] = IF at = "idle" THEN Rest ELSE [@ EXCEPT !.at = at]]
    /\ UNCHANGED <<crowded, row, ready, moved, requests, buried, sending, auditing>>

(* A refusal, as when the money has gone on to the supplier's bank, and a  *)
(* crash end the handler without a change to the row that anything reads.  *)
UnwindEnds(r) ==
    /\ unwind[r].at # "idle"
    /\ unwind' = [unwind EXCEPT ![r] = Rest]
    /\ UNCHANGED <<crowded, row, ready, provider, sending, auditing>>

WriteReversal(r) ==
    LET p == Of[r]
        total == unwind[r].already + unwind[r].want
    IN
    /\ unwind[r].at = "writing"
    /\ reversed' = [reversed EXCEPT ![p] = total]
    /\ status' = [status EXCEPT ![p] = IF total >= Amount[p] THEN "reversed" ELSE "succeeded"]
    /\ unwind' = [unwind EXCEPT ![r] = Rest]
    /\ UNCHANGED <<crowded, known, ready, provider, sending, auditing>>

-----------------------------------------------------------------------------
(* Mutant: a settled transfer is not looked at again.                      *)
ToReconcileUncertain == {p \in Obligations : status[p] = "initiated"}

(* The age of two minutes is counted from the row's creation, which may be *)
(* days before it is sent, so it excludes nothing.                         *)
ToReconcile ==
    {p \in Obligations : status[p] = "initiated" \/ (status[p] = "succeeded" /\ p \in known)}

ReconcileLists ==
    /\ listed = {} /\ seen.po = None
    /\ \E T \in Limited("reconciliation", ToReconcile) : listed' = {<<p, p \in known>> : p \in T}
    /\ UNCHANGED <<crowded, row, ready, provider, sending, unwind, seen>>

(* A transfer whose id is known is read by it.  One without is looked for  *)
(* among the hundred newest of an account of the supplier, the first one   *)
(* found, in whichever environment that is, and may not be among them.     *)
ReconcileAsks(p, id) ==
    /\ <<p, id>> \in listed /\ seen.po = None
    /\ listed' = listed \ {<<p, id>>}
    /\ \/ p \in moved /\ (id \/ p \notin buried) /\ seen' = [po |-> p, taken |-> taken[p]]
       \/ (p \notin moved \/ (~id /\ p \in buried)) /\ UNCHANGED seen
    /\ UNCHANGED <<crowded, row, ready, provider, sending, unwind>>

(* Written by id, whatever the row says by now.                            *)
ReconcileWrites ==
    LET p == seen.po IN
    /\ seen.po # None
    /\ status' = [status EXCEPT ![p] = IF seen.taken >= Amount[p] THEN "reversed" ELSE "succeeded"]
    /\ known' = known \cup {p}
    /\ buried' = buried \ {p}
    /\ reversed' = [reversed EXCEPT ![p] = seen.taken]
    /\ seen' = Unasked
    /\ UNCHANGED <<crowded, ready, moved, requests, taken, made, pulled, sending, unwind, listed>>

ReconcilerDies ==
    /\ listed' = {} /\ seen' = Unasked
    /\ UNCHANGED <<crowded, row, ready, provider, sending, unwind>>

-----------------------------------------------------------------------------
(* The provider takes a transfer back on its own, for a disputed charge or *)
(* a negative balance.                                                     *)
TakeBack(p) ==
    /\ p \in moved /\ taken[p] < Amount[p]
    /\ taken' = [taken EXCEPT ![p] = @ + 1]
    /\ UNCHANGED <<crowded, row, ready, moved, requests, made, buried, pulled, sending, unwind, auditing>>

(* A hundred newer transfers have gone to the supplier's account, or the   *)
(* supplier has an account in the other environment too.                   *)
Bury(p) ==
    /\ p \in moved \ (buried \cup known)
    /\ buried' = buried \cup {p}
    /\ UNCHANGED <<crowded, row, ready, moved, requests, taken, made, pulled, sending, unwind, auditing>>

Next ==
    \/ \E p \in Obligations : AccountChanges(p) \/ SweepTakes(p) \/ TakeBack(p) \/ Bury(p)
    \/ \E w \in Handlers, p \in Obligations : HandlerStarts(w, p)
    \/ SweepLists
    \/ \E query \in Queries : OthersChange(query)
    \/ \E w \in Workers : Check(w) \/ Claim(w) \/ Transfer(w) \/ Answered(w) \/ WorkerDies(w)
    \/ \E r \in Refunds :
          UnwindStarts(r) \/ Cancel(r) \/ Reverse(r) \/ WriteReversal(r) \/ UnwindEnds(r)
    \/ ReconcileLists \/ ReconcileWrites \/ ReconcilerDies
    \/ \E p \in Obligations, id \in BOOLEAN : ReconcileAsks(p, id)

Spec == Init /\ [][Next]_vars

(* Both sweeps run on a schedule and take the rows they list one after     *)
(* another; a process may die, but not at the same place for ever.  Nobody *)
(* owes the handlers a delivery, and refunds need not happen.              *)
FairSpec ==
    /\ Spec
    /\ WF_vars(SweepLists)
    /\ \A p \in Obligations :
          SF_vars(SweepTakes(p)) /\ SF_vars(\E id \in BOOLEAN : ReconcileAsks(p, id))
    /\ SF_vars(Check(Sweep)) /\ SF_vars(Claim(Sweep))
    /\ WF_vars(ReconcileLists) /\ SF_vars(ReconcileWrites)

-----------------------------------------------------------------------------
TypeOK ==
    /\ status \in [Obligations -> Statuses]
    /\ known \subseteq Obligations
    /\ reversed \in [Obligations -> Nat]
    /\ ready \subseteq Obligations
    /\ moved \subseteq Obligations
    /\ requests \in [Obligations -> Nat]
    /\ taken \in [Obligations -> Nat]
    /\ made \subseteq [po : Obligations, key : Nat, amount : Nat]
    /\ buried \subseteq Obligations
    /\ pulled \in [Refunds -> Nat]
    /\ job \in [Workers -> [at : Stages, po : Obligations \cup {None}]]
    /\ crowded \subseteq Queries
    /\ due \subseteq Obligations
    /\ unwind \in [Refunds -> [at : {"idle", "cancelling", "reversing", "writing"},
                                already : Nat, want : Nat]]
    /\ listed \subseteq Obligations \X BOOLEAN
    /\ seen \in [po : Obligations \cup {None}, taken : Nat]

(* However often order.paid is delivered, however many sweeps overlap with *)
(* it and wherever they die, the provider is asked for the transfer of an  *)
(* obligation at most once: the conditional update is the only way to the  *)
(* call, and nothing leads back to the status it asks for.                 *)
SentOnce == \A p \in Obligations : requests[p] <= 1

(* Handlers, sweep and reconciliation all write the row from what they     *)
(* read or were told some steps before, over whatever it says by then.     *)
(* Still the row never claims more than the provider did: a settled row    *)
(* has a transfer, its reversed_cents are not above what came back, and a  *)
(* row that is reversed came back whole.                                   *)
BooksAreTrue ==
    \A p \in Obligations :
        /\ status[p] \in {"succeeded", "reversed"} => p \in moved
        /\ reversed[p] <= taken[p] /\ taken[p] <= Amount[p]
        /\ status[p] = "reversed" => taken[p] = Amount[p]

(* An obligation whose supplier was not ready when the order was paid does *)
(* not wait for the order's event: once the supplier is ready for good,    *)
(* the sweep sends it, unless rows that wait for other suppliers fill its  *)
(* batch again and again.                                                  *)
ReadyIsSent ==
    \A p \in Obligations :
        <>[](p \in ready) =>
            \/ <>[](status[p] # "calculated")
            \/ []<>(\/ "sweep" \in crowded
                    \/ Cardinality({q \in ToSweep \ {p} : q \notin ready}) >= Batch)

(* What the row says of a transfer that was made: its id, and what came    *)
(* back of it.                                                             *)
Agrees(p) == p \in known /\ reversed[p] = taken[p]

(* The reconciliation brings a row that is initiated or has succeeded back *)
(* to what the provider holds, again and again: a transfer it does not     *)
(* know of is adopted, and what came back of it, whoever took it, is       *)
(* written.  Not so for a transfer that a search without its id misses, or *)
(* while the rows of other obligations fill the batch.                     *)
ProviderIsBelieved ==
    \A p \in Obligations :
        \/ []<>("reconciliation" \in crowded \/ Cardinality(ToReconcile \ {p}) >= Batch)
        \/ []<>(p \in moved /\ status[p] \in {"initiated", "succeeded"}
                   => Agrees(p) \/ p \in buried)

-----------------------------------------------------------------------------
(* Who is about to ask for a transfer is alone, and nobody has asked.      *)
SendersAreAlone ==
    /\ \A w \in Workers : job[w].at # "idle" => job[w].po \in Obligations
    /\ \A w \in Workers : job[w].at = "sending" => requests[job[w].po] = 0
    /\ \A v, w \in Workers :
          job[v].at = "sending" /\ job[w].at = "sending" /\ job[v].po = job[w].po => v = w
    /\ \A w \in Workers : job[w].at = "sending" => status[job[w].po] \notin {"none", "calculated"}
    /\ \A p \in Obligations : requests[p] > 0 => status[p] \notin {"none", "calculated"}

(* What is on its way to the row was true of the provider when it left: a  *)
(* reversal's key is the sum that had come back with it.                   *)
MessagesAreTrue ==
    /\ \A w \in Workers : job[w].at = "paid" => job[w].po \in moved
    /\ \A m \in made : m.key <= taken[m.po]
    /\ \A r \in Refunds : unwind[r].at \in {"reversing", "writing"} =>
          /\ Of[r] \in moved /\ unwind[r].want > 0
          /\ unwind[r].already <= taken[Of[r]]
          /\ unwind[r].already + unwind[r].want <= Amount[Of[r]]
    /\ \A r \in Refunds : unwind[r].at = "writing" =>
          unwind[r].already + unwind[r].want <= taken[Of[r]]
    /\ seen.po # None => seen.po \in moved /\ seen.taken <= taken[seen.po]

-----------------------------------------------------------------------------
(* What the code says of itself and does not keep.                         *)

(* A refund pulls its share back once: "Derived, so a retried refund       *)
(* cannot reverse twice" (supplier-settlement-run.ts:335).                 *)
PulledBackOnce == \A r \in Refunds : pulled[r] <= Share[r]

(* What is cancelled was never sent: "Nothing was sent yet - cancel the    *)
(* obligation. Nobody is out anything." (supplier-settlement-run.ts:245).  *)
CancelledWasNotSent ==
    \A p \in Obligations : status[p] = "cancelled" => p \notin moved

(* A refund of a part leaves the rest owed (supplier-settlement-run.ts:313 *)
(* and supplier-refund.ts:29).                                             *)
RestIsOwed ==
    \A p \in Obligations :
        status[p] = "cancelled" => \E r \in Refunds : Of[r] = p /\ Share[r] >= Amount[p]

(* "A platform balance that has not caught up with the charge yet ...      *)
(* resolve[s] on [its] own" (event-dispatch/src/supplier-settlement.ts:178).*)
ShortBalanceResolves ==
    \A p \in Obligations :
        (status[p] = "initiated") ~> (p \in moved \/ status[p] \in {"failed", "cancelled"})

(* "Returned to a pre-flight state ONLY when the provider clearly refused. *)
(* A network error is not a refusal" (supplier-settlement-run.ts:209-211). *)
FailedWasNotMade ==
    \A p \in Obligations : status[p] = "failed" => p \notin moved

(* "A supplier who onboarded on Wednesday would never be paid for Monday's *)
(* order.  A sweep has no such horizon" (supplier-settlement-sweep.ts:20). *)
EveryReadyIsSent ==
    \A p \in Obligations : <>[](p \in ready) => <>[](status[p] # "calculated")

(* A transfer that was made and not recorded is found by asking "the       *)
(* provider what it actually holds" (supplier-transfers.ts:278).           *)
EveryTransferIsFound ==
    \A p \in Obligations :
        (p \in moved /\ status[p] = "initiated")
            ~> (p \in known \/ status[p] \in {"failed", "cancelled"})
=============================================================================

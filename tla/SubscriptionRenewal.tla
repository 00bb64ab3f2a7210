------------------------ MODULE SubscriptionRenewal ------------------------
(***************************************************************************)
(* Subscriptions of a shop's customers and the run that renews them        *)
(* (packages/modules/orders/src/subscriptions.ts,                          *)
(* packages/event-dispatch/src/subscription-renewal.ts,                    *)
(* services/api/src/checkout-routes.ts, discount-routes.ts).               *)
(*                                                                         *)
(* A run lists what is due and takes the listed subscriptions one by one:  *)
(* it opens the cycle in a transaction, places and charges an order, and   *)
(* writes what became of it.  Two runs overlap when one outlives its       *)
(* schedule.  Customers and operators pause, resume and cancel meanwhile.  *)
(*                                                                         *)
(* One tick of the clock is one period.  A resumption starts the periods   *)
(* anew from the moment it is made, so a cycle is known by how often its   *)
(* subscription was resumed before it and by the tick it starts at: two    *)
(* timestamps of different resumptions never coincide.  A trial counts as  *)
(* active, since the runs make no difference between the two.              *)
(***************************************************************************)
EXTENDS Integers, FiniteSets

CONSTANTS
    Subscriptions,  \* rows of the table
    Purchases,      \* checkouts of a plan, each under one Idempotency-Key
    Runs,           \* renewal runs that may overlap
    MaxFailed,      \* MAX_FAILED_ATTEMPTS
    MaxTime,        \* bound: periods
    MaxResumes,     \* bound: resumptions of a subscription
    None            \* null

ASSUME RenewalAssumption ==
    /\ MaxFailed \in Nat \ {0}
    /\ MaxTime \in Nat
    /\ MaxResumes \in Nat
    /\ IsFiniteSet(Runs) /\ Runs # {}
    /\ None \notin Nat \cup Purchases \cup Subscriptions

VARIABLES
    now,        \* the clock
    boughtBy,   \* the purchase that started each subscription; None without a row
    status,     \* subscriptions.status
    next,       \* next_renewal_at
    resumed,    \* how often next_renewal_at was set anew
    attempts,   \* failed_attempts
    chargeable, \* subscriptions with a saved payment method
    cycle,      \* subscription_cycles.status
    charges,    \* at the provider: charges made for each cycle
    stopped,    \* subscriptions paused or cancelled by hand and not resumed
    todo,       \* the due subscriptions each run has listed and not got to
    run         \* what each run is doing

renewalVars == <<now, boughtBy, status, next, resumed, attempts, chargeable, cycle,
          charges, stopped, todo, run>>

Statuses == {"none", "active", "past_due", "paused", "cancelled"}
CycleStatuses == {"none", "pending", "charged", "failed"}
Stages == {"idle", "opened", "charged", "failed", "counted"}

\* No period starts later: each run that overlaps brings it forward by one.
LastStart == MaxTime + Cardinality(Runs)

\* A cycle: its subscription, the resumptions before it, the tick it starts at.
Cycles == Subscriptions \X (0..MaxResumes) \X (0..LastStart)
NextCycle(s) == <<s, resumed[s], next[s]>>

Rest == [at |-> "idle", cycle |-> None, count |-> 0]
At(stage, c) == [at |-> stage, cycle |-> c, count |-> 0]

RenewalInit ==
    /\ now = 0
    /\ boughtBy = [s \in Subscriptions |-> None]
    /\ status = [s \in Subscriptions |-> "none"]
    /\ next = [s \in Subscriptions |-> None]
    /\ resumed = [s \in Subscriptions |-> 0]
    /\ attempts = [s \in Subscriptions |-> 0]
    /\ chargeable = {}
    /\ cycle = [c \in Cycles |-> "none"]
    /\ charges = [c \in Cycles |-> 0]
    /\ stopped = {}
    /\ todo = [r \in Runs |-> {}]
    /\ run = [r \in Runs |-> Rest]

(***************************************************************************)
(* Checkout and the customer's own changes.                                *)
(***************************************************************************)

\* A checkout of a plan, or its retry under the same Idempotency-Key.  The
\* order of a retry is replayed; startSubscription runs either way.  It opens
\* the first cycle as charged with the order it was given.
Buy(k) ==
    \E s \in Subscriptions :
        /\ boughtBy[s] = None
        /\ boughtBy' = [boughtBy EXCEPT ![s] = k]
        /\ status' = [status EXCEPT ![s] = "active"]
        /\ next' = [next EXCEPT ![s] = now + 1]
        /\ cycle' = [cycle EXCEPT ![<<s, 0, now>>] = "charged"]
        /\ UNCHANGED <<now, resumed, attempts, chargeable, charges, stopped,
                       todo, run>>

\* The handler of order.paid saves the card with one subscription of the order.
Attach(k) ==
    \E s \in Subscriptions :
        /\ boughtBy[s] = k
        /\ chargeable' = chargeable \cup {s}
        /\ UNCHANGED <<now, boughtBy, status, next, resumed, attempts, cycle,
                       charges, stopped, todo, run>>

\* setSubscriptionStatus, whatever the status was.
Resume(s) ==
    /\ boughtBy[s] # None
    /\ resumed[s] < MaxResumes
    /\ status' = [status EXCEPT ![s] = "active"]
    /\ next' = [next EXCEPT ![s] = now]
    /\ resumed' = [resumed EXCEPT ![s] = @ + 1]
    /\ stopped' = stopped \ {s}
    /\ UNCHANGED <<now, boughtBy, attempts, chargeable, cycle, charges, todo, run>>

\* Mutant: a stopped subscription keeps its date.
StopKeepingDate(s, to) ==
    /\ boughtBy[s] # None
    /\ status' = [status EXCEPT ![s] = to]
    /\ stopped' = stopped \cup {s}
    /\ UNCHANGED <<now, boughtBy, next, resumed, attempts, chargeable, cycle,
                   charges, todo, run>>

Stop(s, to) ==
    /\ boughtBy[s] # None
    /\ status' = [status EXCEPT ![s] = to]
    /\ next' = [next EXCEPT ![s] = None]
    /\ stopped' = stopped \cup {s}
    /\ UNCHANGED <<now, boughtBy, resumed, attempts, chargeable, cycle, charges,
                   todo, run>>

(***************************************************************************)
(* The renewal run.                                                        *)
(***************************************************************************)

\* Mutant: a schedule that asks for everything due exactly now.
DueNow(s) == status[s] \in {"active", "past_due"} /\ next[s] = now
\* dueSubscriptions.
Due(s) ==
    /\ status[s] \in {"active", "past_due"}
    /\ next[s] # None
    /\ next[s] <= now

ListDue(r) ==
    /\ run[r] = Rest
    /\ todo[r] = {}
    /\ \E s \in Subscriptions : Due(s)
    /\ todo' = [todo EXCEPT ![r] = {s \in Subscriptions : Due(s)}]
    /\ UNCHANGED <<now, boughtBy, status, next, resumed, attempts, chargeable,
                   cycle, charges, stopped, run>>

\* A row with a date, and no cycle under it yet.
Openable(s) == next[s] # None /\ cycle[NextCycle(s)] = "none"

\* Mutant: a cycle nobody settled is taken over, its date moved when it is paid.
ClaimAgain(r, s) ==
    /\ run[r] = Rest
    /\ s \in todo[r]
    /\ next[s] # None
    /\ cycle[NextCycle(s)] \in {"none", "pending"}
    /\ todo' = [todo EXCEPT ![r] = @ \ {s}]
    /\ cycle' = [cycle EXCEPT ![NextCycle(s)] = "pending"]
    /\ run' = [run EXCEPT ![r] = At("opened", NextCycle(s))]
    /\ UNCHANGED <<now, boughtBy, status, next, resumed, attempts, chargeable,
                   charges, stopped>>

\* claimNextCycle reads the row again under its lock and asks only for a date.
\* One transaction inserts the cycle, unless it is there, and moves the date on.
Claim(r, s) ==
    /\ run[r] = Rest
    /\ s \in todo[r]
    /\ Openable(s)
    /\ todo' = [todo EXCEPT ![r] = @ \ {s}]
    /\ cycle' = [cycle EXCEPT ![NextCycle(s)] = "pending"]
    /\ next' = [next EXCEPT ![s] = @ + 1]
    /\ run' = [run EXCEPT ![r] = At("opened", NextCycle(s))]
    /\ UNCHANGED <<now, boughtBy, status, resumed, attempts, chargeable, charges,
                   stopped>>

Skip(r, s) ==
    /\ run[r] = Rest
    /\ s \in todo[r]
    /\ ~Openable(s)
    /\ todo' = [todo EXCEPT ![r] = @ \ {s}]
    /\ UNCHANGED <<now, boughtBy, status, next, resumed, attempts, chargeable,
                   cycle, charges, stopped, run>>

\* The order is placed and chargeRenewal asks the provider.  What it throws, a
\* missing card, a refusal, or a failure after the charge was made, fails the cycle.
ChargeRenewal(r) ==
    /\ run[r].at = "opened"
    /\ \E made \in {0, 1}, to \in {"charged", "failed"} :
        /\ to = "charged" => made = 1
        /\ made = 1 => run[r].cycle[1] \in chargeable
        /\ charges' = [charges EXCEPT ![run[r].cycle] = @ + made]
        /\ run' = [run EXCEPT ![r] = At(to, run[r].cycle)]
    /\ UNCHANGED <<now, boughtBy, status, next, resumed, attempts, chargeable,
                   cycle, stopped, todo>>

\* settleCycle of a charge: whatever the subscription has become, it is active.
SettleCharged(r) ==
    LET c == run[r].cycle IN
    /\ run[r].at = "charged"
    /\ cycle' = [cycle EXCEPT ![c] = "charged"]
    /\ attempts' = [attempts EXCEPT ![c[1]] = 0]
    /\ status' = [status EXCEPT ![c[1]] = "active"]
    /\ run' = [run EXCEPT ![r] = Rest]
    /\ UNCHANGED <<now, boughtBy, next, resumed, chargeable, charges, stopped, todo>>

\* settleCycle of a failure reads the count without a lock ...
CountFailures(r) ==
    LET c == run[r].cycle IN
    /\ run[r].at = "failed"
    /\ run' = [run EXCEPT ![r] = [at |-> "counted", cycle |-> c,
                                  count |-> attempts[c[1]]]]
    /\ UNCHANGED <<now, boughtBy, status, next, resumed, attempts, chargeable,
                   cycle, charges, stopped, todo>>

\* Mutant: one failure early.
EndsEarly(failed) == failed + 1 >= MaxFailed
Ends(failed) == failed >= MaxFailed

\* ... and writes what it makes of it.
SettleFailed(r) ==
    LET c == run[r].cycle
        failed == run[r].count + 1 IN
    /\ run[r].at = "counted"
    /\ cycle' = [cycle EXCEPT ![c] = "failed"]
    /\ attempts' = [attempts EXCEPT ![c[1]] = failed]
    /\ status' = [status EXCEPT ![c[1]] =
                     IF Ends(failed) THEN "cancelled" ELSE "past_due"]
    /\ run' = [run EXCEPT ![r] = Rest]
    /\ UNCHANGED <<now, boughtBy, next, resumed, chargeable, charges, stopped, todo>>

\* The process of a run dies, or a settlement throws: the run is over.
Crash(r) ==
    /\ todo[r] # {} \/ run[r] # Rest
    /\ todo' = [todo EXCEPT ![r] = {}]
    /\ run' = [run EXCEPT ![r] = Rest]
    /\ UNCHANGED <<now, boughtBy, status, next, resumed, attempts, chargeable,
                   cycle, charges, stopped>>

Tick ==
    /\ now < MaxTime
    /\ now' = now + 1
    /\ UNCHANGED <<boughtBy, status, next, resumed, attempts, chargeable, cycle,
                   charges, stopped, todo, run>>

Renew(r) ==
    \/ \E s \in Subscriptions : Claim(r, s) \/ Skip(r, s)
    \/ ListDue(r) \/ ChargeRenewal(r) \/ SettleCharged(r)
    \/ CountFailures(r) \/ SettleFailed(r)

RenewalNext ==
    \/ Tick
    \/ \E k \in Purchases : Buy(k) \/ Attach(k)
    \/ \E s \in Subscriptions :
        Resume(s) \/ \E to \in {"paused", "cancelled"} : Stop(s, to)
    \/ \E r \in Runs : Renew(r) \/ Crash(r)

RenewalSpec == RenewalInit /\ [][RenewalNext]_renewalVars

\* The schedule starts a run every hour, and a run does its steps unless it dies.
\* That it is never the case that every run dies before it gets to a subscription
\* is the schedule's doing, not the run's: hence the strong fairness of Claim.
FairRenewals ==
    /\ RenewalSpec
    /\ \A r \in Runs :
        /\ WF_renewalVars(Renew(r))
        /\ \A s \in Subscriptions : SF_renewalVars(Claim(r, s))

-----------------------------------------------------------------------------
(***************************************************************************)
(* Properties.                                                             *)
(***************************************************************************)

RenewalTypeOK ==
    /\ now \in 0..MaxTime
    /\ boughtBy \in [Subscriptions -> Purchases \cup {None}]
    /\ status \in [Subscriptions -> Statuses]
    /\ next \in [Subscriptions -> (0..LastStart + 1) \cup {None}]
    /\ resumed \in [Subscriptions -> 0..MaxResumes]
    /\ attempts \in [Subscriptions -> Nat]
    /\ chargeable \subseteq Subscriptions
    /\ cycle \in [Cycles -> CycleStatuses]
    /\ charges \in [Cycles -> Nat]
    /\ stopped \subseteq Subscriptions
    /\ todo \in [Runs -> SUBSET Subscriptions]
    /\ run \in [Runs -> [at : Stages, cycle : Cycles \cup {None}, count : Nat]]

\* The promise of claimNextCycle: whatever runs overlap or die, the provider is
\* asked for the money of a cycle once.
ChargedOncePerCycle == \A c \in Cycles : charges[c] <= 1

\* Overlapping runs open periods ahead of their day, since only the listing asks
\* for the day, but never more of them than there are runs beside the first.
AheadByRuns ==
    \A s \in Subscriptions : next[s] # None => next[s] <= now + Cardinality(Runs)

FailedCycles(s) == {c \in Cycles : c[1] = s /\ cycle[c] = "failed"}

\* A subscription nobody cancelled ends only after MAX_FAILED_ATTEMPTS failed
\* cycles, though the count is read and written by runs that do not wait for
\* each other.
EndedOnFailures ==
    \A s \in Subscriptions :
        status[s] = "cancelled" /\ s \notin stopped
            => Cardinality(FailedCycles(s)) >= MaxFailed

\* Once it is paused or cancelled by hand, no run opens a cycle of a
\* subscription, a run that had listed it before included.
StoppedIsLeftAlone ==
    [][\A c \in Cycles :
        c[1] \in stopped /\ cycle[c] = "none" => cycle'[c] = "none"]_renewalVars

\* A subscription that is due is renewed, or stops being due, though the runs
\* that list it may die.
DueIsClaimed ==
    \A s \in Subscriptions, t \in 0..MaxTime :
        status[s] \in {"active", "past_due"} /\ next[s] = t /\ t <= now
            ~> status[s] \notin {"active", "past_due"} \/ next[s] # t

(***************************************************************************)
(* What the comments say and the code does not do.                         *)
(***************************************************************************)

\* "a second attempt collides rather than charging somebody twice for one
\* month" (subscriptions.ts): one purchase starts one subscription.
StartedOnce ==
    \A s, u \in Subscriptions :
        boughtBy[s] # None /\ boughtBy[s] = boughtBy[u] => s = u

\* "two overlapping runs cannot both charge the same month" (subscription-
\* renewal.ts): no cycle is opened before its period starts.
NeverEarly ==
    \A s \in Subscriptions : next[s] # None => next[s] <= now + 1

\* A subscription stopped by hand stays stopped until somebody resumes it.
StoppedStays == \A s \in stopped : status[s] \in {"paused", "cancelled"}

\* A subscription that is to be charged has a day to be charged on.
ActiveComesDue ==
    \A s \in Subscriptions : status[s] \in {"active", "past_due"} => next[s] # None

\* "A failed cycle is recorded on the row; the next hour retries"
\* (dispatcher.ts): an opened cycle is settled.
CycleSettles ==
    \A c \in Cycles : cycle[c] = "pending" ~> cycle[c] \in {"charged", "failed"}

\* A cycle recorded as failed took no money.
FailedTookNothing == \A c \in Cycles : cycle[c] = "failed" => charges[c] = 0
=============================================================================

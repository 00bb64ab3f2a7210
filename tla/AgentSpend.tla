----------------------------- MODULE AgentSpend -----------------------------
(***************************************************************************)
(* Agent runs and the money they spend: admission before a run             *)
(* (billing/ai-spend.ts), the bounded run (agent-runtime/runtime.ts), the  *)
(* settlement after it (api/agent-routes.ts), and the prepaid credit that  *)
(* Stripe's webhook adds (billing/webhook.ts, db/credits.ts).  One         *)
(* organization with some workspaces; amounts are in one unit.             *)
(*                                                                         *)
(* Admission makes three reads, each its own query: what the workspace     *)
(* spent in the window, how many actions of the plan are used, and the     *)
(* balance.  Nothing is reserved between a read and the settlement, so     *)
(* every limit is a limit on runs that do not overlap.  `overlap` is not   *)
(* state of the program: it records the most runs ever in flight at once,  *)
(* which the limits are stated against.                                    *)
(***************************************************************************)
EXTENDS Integers, FiniteSets, FiniteSetsExt, Sums

CONSTANTS
    Runs,           \* calls of POST /v1/agents/runs
    Workspaces,
    WorkspaceOf,    \* the workspace a run is for
    TurnCosts,      \* what one turn of the model may cost
    MaxSteps,       \* the caller's bound on the turns of a run
    MaxRun,         \* MAX_RUN_COST_MICROS
    Cap,            \* WORKSPACE_CAP_MICROS
    Allowance,      \* the least number of used actions the plan refuses at
    Intents,        \* payment intents for credit
    Amount,         \* what each of them is for
    Deliveries,     \* deliveries of Stripe's event that may be handled at once
    MaxMonths,      \* bound: times the plan's counter starts again
    MaxFailures     \* bound: writes and deliveries that fail

ASSUME AgentSpendAssumption ==
    /\ IsFiniteSet(Runs) /\ IsFiniteSet(Intents)
    /\ WorkspaceOf \in [Runs -> Workspaces]
    /\ Amount \in [Intents -> Nat \ {0}]
    /\ TurnCosts \subseteq Nat
    /\ \E most \in TurnCosts : \A c \in TurnCosts : most >= c
    /\ MaxSteps \in Nat \ {0} /\ MaxRun \in Nat \ {0}
    /\ Cap \in Nat \ {0} /\ Allowance \in Nat
    /\ MaxMonths \in Nat /\ MaxFailures \in Nat

VARIABLES
    at,         \* at[r]: where run r stands
    left,       \* left[r]: what admission read as left of the workspace's cap
    ceiling,    \* ceiling[r]: the budget admission gave the run
    funding,    \* funding[r]: who pays for it
    steps,      \* steps[r]: turns taken
    cost,       \* cost[r]: what the run's usage adds up to
    drawn,      \* drawn[r]: what the ledger's spend rows of r add up to
    counted,    \* counted[r]: times r was added to the plan's counter
    recent,     \* runs that spent within the cap's window
    used,       \* the plan's aiActions counter, this month
    paid,       \* intents Stripe has taken the money for
    credited,   \* credited[i]: top-up rows of the ledger for intent i
    told,       \* intents whose event was answered with success
    handling,   \* handling[d]: the intent delivery d is about to insert
    failures, months,
    overlap     \* the most runs that were ever in flight at once

runVars == <<at, left, ceiling, funding, steps, cost>>
ledgerVars == <<drawn, counted, recent, used>>
creditVars == <<paid, credited, told, handling>>
spendVars == <<runVars, ledgerVars, creditVars, failures, months, overlap>>

Lesser(a, b) == IF a < b THEN a ELSE b
Greater(a, b) == IF a < b THEN b ELSE a
MostOfTurn == Max(TurnCosts)

Nobody == "nobody"
NoIntent == "none"

Balance ==
    Over(Intents, [i \in Intents |-> Amount[i] * credited[i]]) - Over(Runs, drawn)

WorkspaceSpend(w) == Over({r \in recent : WorkspaceOf[r] = w}, drawn)

InFlight == {r \in Runs : at[r] \in {"capped", "overage", "running", "settling"}}

SpendTypeOK ==
    /\ at \in [Runs -> {"idle", "capped", "overage", "running", "settling",
                        "answered", "refused", "lost"}]
    /\ left \in [Runs -> Int]
    /\ ceiling \in [Runs -> Nat]
    /\ funding \in [Runs -> {Nobody, "plan", "credits"}]
    /\ steps \in [Runs -> 0..MaxSteps]
    /\ cost \in [Runs -> Nat] /\ drawn \in [Runs -> Nat]
    /\ counted \in [Runs -> Nat]
    /\ recent \subseteq Runs
    /\ used \in Nat
    /\ paid \subseteq Intents /\ told \subseteq Intents
    /\ credited \in [Intents -> Nat]
    /\ handling \in [Deliveries -> Intents \cup {NoIntent}]
    /\ failures \in 0..MaxFailures /\ months \in 0..MaxMonths
    /\ overlap \in 0..Cardinality(Runs)

SpendInit ==
    /\ at = [r \in Runs |-> "idle"]
    /\ left = [r \in Runs |-> 0] /\ ceiling = [r \in Runs |-> 0]
    /\ funding = [r \in Runs |-> Nobody]
    /\ steps = [r \in Runs |-> 0]
    /\ cost = [r \in Runs |-> 0]
    /\ drawn = [r \in Runs |-> 0] /\ counted = [r \in Runs |-> 0]
    /\ recent = {}
    /\ used \in 0..Allowance      \* the month is under way
    /\ paid = {} /\ told = {}
    /\ credited = [i \in Intents |-> 0]
    /\ handling = [d \in Deliveries |-> NoIntent]
    /\ failures = 0 /\ months = 0 /\ overlap = 0

-----------------------------------------------------------------------------
(* Admission: three reads, in this order. *)

ReadWorkspaceSpend(r) ==
    /\ at[r] = "idle"
    /\ left' = [left EXCEPT ![r] = Cap - WorkspaceSpend(WorkspaceOf[r])]
    /\ at' = [at EXCEPT ![r] = "capped"]
    /\ overlap' = Greater(overlap, Cardinality(InFlight) + 1)
    /\ UNCHANGED <<ceiling, funding, steps, cost, ledgerVars, creditVars,
                   failures, months>>

\* The run is admitted with a ceiling and with whoever pays for it.
Admit(r, payer, budget) ==
    /\ funding' = [funding EXCEPT ![r] = payer]
    /\ ceiling' = [ceiling EXCEPT ![r] = budget]
    /\ at' = [at EXCEPT ![r] = "running"]
    /\ left' = [left EXCEPT ![r] = 0]
    /\ UNCHANGED <<steps, cost>>

Refuse(r) ==
    /\ at' = [at EXCEPT ![r] = "refused"]
    /\ left' = [left EXCEPT ![r] = 0]
    /\ UNCHANGED <<ceiling, funding, steps, cost>>

WithinGrace == used < Allowance

ReadAllowance(r) ==
    /\ at[r] = "capped"
    /\ \/ /\ WithinGrace /\ left[r] <= 0
          /\ Refuse(r)
       \/ /\ WithinGrace /\ left[r] > 0
          /\ Admit(r, "plan", Lesser(MaxRun, left[r]))
       \/ /\ ~WithinGrace
          /\ at' = [at EXCEPT ![r] = "overage"]
          /\ UNCHANGED <<left, ceiling, funding, steps, cost>>
    /\ UNCHANGED <<ledgerVars, creditVars, failures, months, overlap>>

CeilingIgnoresBalance(r) == Lesser(MaxRun, left[r])

CreditCeiling(r) == Lesser(Balance, Lesser(MaxRun, left[r]))

ReadBalance(r) ==
    /\ at[r] = "overage"
    /\ \/ /\ Balance <= 0 \/ left[r] <= 0
          /\ Refuse(r)
       \/ /\ Balance > 0 /\ left[r] > 0
          /\ Admit(r, "credits", CreditCeiling(r))
    /\ UNCHANGED <<ledgerVars, creditVars, failures, months, overlap>>

-----------------------------------------------------------------------------
(* The run.  Tokens and duration also end it; which bound did is not kept. *)

BudgetExceeded(r, taken, spent) == taken >= MaxSteps \/ spent > ceiling[r]

\* The budget of a run goes with it.
EndRun(r) ==
    /\ at' = [at EXCEPT ![r] = "settling"]
    /\ steps' = [steps EXCEPT ![r] = 0]
    /\ ceiling' = [ceiling EXCEPT ![r] = 0]

\* A turn answers: its usage is added, then the budget is looked at again with
\* the turn not yet counted.  The run goes on only if the model called tools.
Turn(r, c) ==
    /\ at[r] = "running"
    /\ ~BudgetExceeded(r, steps[r], cost[r])
    /\ cost' = [cost EXCEPT ![r] = @ + c]
    /\ \/ EndRun(r)
       \/ /\ ~BudgetExceeded(r, steps[r], cost[r] + c)
          /\ steps' = [steps EXCEPT ![r] = @ + 1]
          /\ UNCHANGED <<at, ceiling>>
    /\ UNCHANGED <<left, funding, ledgerVars, creditVars, failures,
                   months, overlap>>

\* The loop ends before another turn or without its answer: a bound is reached,
\* the time is up, the provider's call fails.  The usage so far is the result.
Stop(r) ==
    /\ at[r] = "running"
    /\ EndRun(r)
    /\ UNCHANGED <<left, funding, cost, ledgerVars, creditVars, failures,
                   months, overlap>>

\* runAgent itself throws: the usage is lost and the ceiling is charged instead.
Throw(r) ==
    /\ at[r] = "running" /\ failures < MaxFailures
    /\ cost' = [cost EXCEPT ![r] = ceiling[r]]
    /\ EndRun(r)
    /\ failures' = failures + 1
    /\ UNCHANGED <<left, funding, ledgerVars, creditVars, months, overlap>>

-----------------------------------------------------------------------------
(* Settlement, after the run: the plan's counter or one row of the ledger. *)

CountAction(r) ==
    /\ used' = used + 1
    /\ counted' = [counted EXCEPT ![r] = @ + 1]
    /\ UNCHANGED drawn

WriteSpend(r) ==
    /\ drawn' = [drawn EXCEPT ![r] = @ + cost[r]]
    /\ UNCHANGED <<used, counted>>

RecordSpendTwice(r) ==
    /\ recent' = IF cost[r] > 0 THEN recent \cup {r} ELSE recent
    /\ used' = IF cost[r] > 0 /\ funding[r] = "plan" THEN used + 1 ELSE used
    /\ counted' = [counted EXCEPT ![r] =
                     IF cost[r] > 0 /\ funding[r] = "plan" THEN 1 ELSE 0]
    /\ drawn' = [drawn EXCEPT ![r] = cost[r]]

RecordSpend(r) ==
    \/ /\ cost[r] <= 0
       /\ UNCHANGED ledgerVars
    \/ /\ cost[r] > 0 /\ recent' = recent \cup {r}
       /\ funding[r] = "plan" /\ CountAction(r)
    \/ /\ cost[r] > 0 /\ recent' = recent \cup {r}
       /\ funding[r] = "credits" /\ WriteSpend(r)

Settle(r) ==
    /\ at[r] = "settling"
    /\ RecordSpend(r)
    /\ at' = [at EXCEPT ![r] = "answered"]
    /\ UNCHANGED <<left, ceiling, funding, steps, cost, creditVars,
                   failures, months, overlap>>

\* The write fails after `settled` was set, or the server dies before it: the
\* spend is in neither place, and nothing comes back to it.
Lose(r) ==
    /\ at[r] \in {"running", "settling"} /\ failures < MaxFailures
    /\ at' = [at EXCEPT ![r] = "lost"]
    /\ failures' = failures + 1
    /\ steps' = [steps EXCEPT ![r] = 0]
    /\ ceiling' = [ceiling EXCEPT ![r] = 0]
    /\ UNCHANGED <<left, funding, cost, ledgerVars, creditVars, months, overlap>>

\* What a run spent leaves the cap's window.
Age(r) ==
    /\ r \in recent
    /\ recent' = recent \ {r}
    /\ UNCHANGED <<runVars, drawn, counted, used, creditVars, failures, months, overlap>>

\* The plan's counter is kept per calendar month.
NextMonth ==
    /\ months < MaxMonths
    /\ months' = months + 1
    /\ used' = 0
    /\ UNCHANGED <<runVars, drawn, counted, recent, creditVars, failures, overlap>>

-----------------------------------------------------------------------------
(* Credit: nothing is granted when the intent is made, only when Stripe    *)
(* says that it succeeded, and Stripe says so until it is answered.        *)

Pay(i) ==
    /\ i \notin paid
    /\ paid' = paid \cup {i}
    /\ UNCHANGED <<runVars, ledgerVars, credited, told, handling, failures, months, overlap>>

\* The event arrives, for the first time or again, and recordTopUp looks up.
Deliver(d, i) ==
    /\ i \in paid /\ handling[d] = NoIntent
    /\ \/ /\ credited[i] > 0
          /\ told' = told \cup {i}
          /\ UNCHANGED handling
       \/ /\ credited[i] = 0
          /\ handling' = [handling EXCEPT ![d] = i]
          /\ UNCHANGED told
    /\ UNCHANGED <<runVars, ledgerVars, paid, credited, failures, months, overlap>>

InsertUnindexed(d) ==
    LET i == handling[d] IN
    /\ i # NoIntent
    /\ handling' = [handling EXCEPT ![d] = NoIntent]
    /\ credited' = [credited EXCEPT ![i] = @ + 1]
    /\ told' = told \cup {i}
    /\ UNCHANGED <<runVars, ledgerVars, paid, failures, months, overlap>>

\* The insert, under the unique index on the intent.  The loser of a race does
\* not see the violation's code under the query builder's wrapper: it answers
\* 500 and Stripe delivers once more.
InsertTopUp(d) ==
    LET i == handling[d] IN
    /\ i # NoIntent
    /\ handling' = [handling EXCEPT ![d] = NoIntent]
    /\ \/ /\ credited[i] = 0
          /\ credited' = [credited EXCEPT ![i] = @ + 1]
          /\ told' = told \cup {i}
       \/ /\ credited[i] > 0
          /\ UNCHANGED <<credited, told>>
    /\ UNCHANGED <<runVars, ledgerVars, paid, failures, months, overlap>>

\* The handler or its database fails: 500, and Stripe will deliver again.
DeliveryFails(d) ==
    /\ handling[d] # NoIntent /\ failures < MaxFailures
    /\ handling' = [handling EXCEPT ![d] = NoIntent]
    /\ failures' = failures + 1
    /\ UNCHANGED <<runVars, ledgerVars, paid, credited, told, months, overlap>>

-----------------------------------------------------------------------------
Step(r) ==
    \/ ReadWorkspaceSpend(r) \/ ReadAllowance(r) \/ ReadBalance(r)
    \/ \E c \in TurnCosts : Turn(r, c)
    \/ Stop(r) \/ Settle(r)

SpendNext ==
    \/ \E r \in Runs : Step(r) \/ Throw(r) \/ Lose(r) \/ Age(r)
    \/ NextMonth
    \/ \E i \in Intents : Pay(i)
    \/ \E d \in Deliveries, i \in Intents : Deliver(d, i)
    \/ \E d \in Deliveries : InsertTopUp(d) \/ DeliveryFails(d)

SpendSpec == SpendInit /\ [][SpendNext]_spendVars

-----------------------------------------------------------------------------
(* What may go over a limit is one turn of the run that reached it, and    *)
(* for every other run that was in flight at the same time a whole run     *)
(* and its last turn.                                                      *)
Overrun == MostOfTurn + (overlap - 1) * (MaxRun + MostOfTurn)

\* The prepaid balance goes below zero by no more than that, the workspace's
\* spend in the window goes over its cap by no more, and the plan's counter over
\* its allowance by no more than the runs in flight together: a limit is overrun
\* by runs admitted side by side (ai-spend.ts admitAiSpend), never one after
\* another.
LimitsGiveByOverlap ==
    overlap > 0 =>
        /\ Balance >= -Overrun
        /\ \A w \in Workspaces : WorkspaceSpend(w) <= Cap + Overrun
        /\ used <= Allowance + overlap - 1

\* A run is charged once, to one payer and for what its usage came to: to the
\* plan's counter or to the ledger, never to both, and not at all before it ended
\* (agent-routes.ts settle, ai-spend.ts recordAiSpend).
ChargedToOnePayer ==
    \A r \in Runs :
        /\ at[r] # "answered" => counted[r] = 0 /\ drawn[r] = 0
        /\ at[r] = "answered" =>
             /\ counted[r] = IF funding[r] = "plan" /\ cost[r] > 0 THEN 1 ELSE 0
             /\ drawn[r] = IF funding[r] = "credits" THEN cost[r] ELSE 0

\* Credit is in the ledger once for a payment and never without one, however
\* often and however concurrently Stripe delivers the event, and Stripe is told
\* it was handled only once it is there (credits.ts recordTopUp).
CreditedOnce ==
    \A i \in Intents :
        /\ credited[i] <= 1
        /\ credited[i] = 1 => i \in paid
        /\ i \in told => credited[i] = 1

-----------------------------------------------------------------------------
(* What the comments say and the code does not do. *)

\* ai-spend.ts:176-179: "The balance can legitimately go slightly negative ...
\* That overage is bounded by one step".
OverageIsOneStep == Balance >= -MostOfTurn

\* ai-spend.ts:97-99: "The workspace cap applies to everyone, including runs the
\* subscription already covers."
CapCoversPlanRuns ==
    \A w \in Workspaces :
        overlap = 1 =>
            Over({r \in recent : WorkspaceOf[r] = w}, cost) <= Cap + MostOfTurn
=============================================================================

--------------------------- MODULE WebhookDelivery ---------------------------
(***************************************************************************)
(* Outbound webhooks (packages/event-dispatch/src/webhooks.ts) and the     *)
(* commands customers manage them with (application.ts).                   *)
(*                                                                         *)
(* A fan-out, a handler of the outbox drain and so run at least once per   *)
(* event, queues one row per endpoint and event.  Workers, at most two at  *)
(* a time, claim due rows under a lease, call the endpoint with no lock    *)
(* held, and write the outcome by row id.  Meanwhile customers edit and    *)
(* delete endpoints and replay deliveries.                                 *)
(*                                                                         *)
(* Time is relative, as in Outbox: hidden[d] is the number of ticks until  *)
(* available_at, lease[w] what is left of the lease of w's batch.          *)
(***************************************************************************)
EXTENDS Integers, FiniteSets

CONSTANTS
    Endpoints,      \* rows of webhook_endpoints, one workspace
    FirstEndpoints, \* the endpoints that exist at the start
    Events,         \* events the drain hands to the fan-out
    Wants,          \* <<p, e>>: endpoint p subscribes to event e
    Workers,        \* concurrent runs of deliverPendingWebhooks
    Healthy,        \* endpoints that always answer 2xx
    MaxEndpoints,   \* MAX_ENDPOINTS_PER_WORKSPACE
    BatchSize,      \* batchSize
    MaxAttempts,    \* maxAttempts
    Lease,          \* leaseMs, in ticks
    Backoff,        \* backoffMs, in ticks, by attempt
    DisableAfter,   \* disableAfterExhausted
    MaxFanouts,     \* bound: how often the fan-out runs in all
    MaxCrashes,     \* bound: how many workers may die
    MaxReplays,     \* bound: replays
    MaxEdits        \* bound: updates and deletions of endpoints

Deliveries == Endpoints \X Events

ASSUME EndpointsAssumption ==
    FirstEndpoints \subseteq Endpoints /\ Healthy \subseteq Endpoints
ASSUME WantsAssumption == Wants \subseteq Deliveries
ASSUME WorkersAssumption == IsFiniteSet(Workers)
ASSUME AttemptsAssumption == MaxAttempts \in Nat \ {0}
ASSUME LeaseAssumption == Lease \in Nat \ {0}
ASSUME BackoffAssumption == Backoff \in [1..MaxAttempts -> Nat]
ASSUME DisableAssumption == DisableAfter \in Nat \ {0}
ASSUME BoundsAssumption ==
    MaxFanouts \in Nat /\ MaxCrashes \in Nat /\ MaxReplays \in Nat /\ MaxEdits \in Nat

VARIABLES
    endpoint,   \* the state of each endpoint row
    creating,   \* endpoints whose creation has counted the rows
    reading,    \* what a fan-out of the event has read
    fanning,    \* events with a fan-out between its read and its insert
    fanouts,    \* fan-outs so far
    queued,     \* rows of webhook_deliveries
    status,     \* status column
    attempts,   \* attempts column
    hidden,     \* ticks until available_at
    born,       \* created_at
    phase,      \* where each worker is
    todo,       \* claimed rows a worker has not come to yet
    tries,      \* the attempts value a worker's claim returned per row
    loaded,     \* endpoints a worker has loaded
    current,    \* the row a worker is calling for, marking or judging
    lease,      \* what is left of the worker's lease
    spent,      \* crashes, replays and edits so far
    calls,      \* history: HTTP calls made for a delivery
    answers,    \* history: 2xx answers a worker saw for a delivery
    replays,    \* history: replays of a delivery
    lost,       \* history: holds that ended before the outcome was written
    gaveUp      \* history: deliveries that were marked exhausted

customers == <<endpoint, creating>>
fans == <<reading, fanning, fanouts>>
rows == <<queued, status, attempts, hidden, born>>
workers == <<phase, todo, tries, loaded, current, lease>>
history == <<calls, answers, replays, lost, gaveUp>>
vars == <<customers, fans, rows, workers, spent, history>>

(* "auto" is disabled with a disabled_reason, "off" without.               *)
EndpointStates == {"absent", "on", "off", "auto", "deleted"}
Existing == {p \in Endpoints : endpoint[p] \in {"on", "off", "auto"}}
Phases == {"idle", "load", "run", "answered", "failed", "judge", "disable"}
Statuses == {"pending", "succeeded", "exhausted"}

Init ==
    /\ endpoint = [p \in Endpoints |-> IF p \in FirstEndpoints THEN "on" ELSE "absent"]
    /\ creating = {}
    /\ reading = [e \in Events |-> {}]
    /\ fanning = {}
    /\ fanouts = 0
    /\ queued = {}
    /\ status = [d \in Deliveries |-> "pending"]
    /\ attempts = [d \in Deliveries |-> 0]
    /\ hidden = [d \in Deliveries |-> 0]
    /\ born = [d \in Deliveries |-> 0]
    /\ phase = [w \in Workers |-> "idle"]
    /\ todo = [w \in Workers |-> {}]
    /\ tries = [w \in Workers |-> [d \in Deliveries |-> 0]]
    /\ loaded = [w \in Workers |-> {}]
    /\ current = [w \in Workers |-> {}]
    /\ lease = [w \in Workers |-> 0]
    /\ spent = [crashes |-> 0, replays |-> 0, edits |-> 0]
    /\ calls = [d \in Deliveries |-> 0]
    /\ answers = [d \in Deliveries |-> 0]
    /\ replays = [d \in Deliveries |-> 0]
    /\ lost = [d \in Deliveries |-> 0]
    /\ gaveUp = {}

-----------------------------------------------------------------------------
(* The customer's commands, each one transaction.  Creating counts the     *)
(* workspace's endpoints first, without locking them.                      *)
CountEndpoints(p) ==
    /\ endpoint[p] = "absent"
    /\ p \notin creating
    /\ Cardinality(Existing) < MaxEndpoints
    /\ creating' = creating \cup {p}
    /\ UNCHANGED <<endpoint, fans, rows, workers, spent, history>>

CreateEndpoint(p) ==
    /\ p \in creating
    /\ creating' = creating \ {p}
    /\ endpoint' = [endpoint EXCEPT ![p] = "on"]
    /\ UNCHANGED <<fans, rows, workers, spent, history>>

Edit ==
    /\ spent.edits < MaxEdits
    /\ spent' = [spent EXCEPT !.edits = @ + 1]

(* Enabling clears the platform's reason; disabling leaves it alone.       *)
EnableEndpoint(p) ==
    /\ Edit
    /\ endpoint[p] \in {"off", "auto"}
    /\ endpoint' = [endpoint EXCEPT ![p] = "on"]
    /\ UNCHANGED <<creating, fans, rows, workers, history>>

DisableEndpoint(p) ==
    /\ Edit
    /\ endpoint[p] = "on"
    /\ endpoint' = [endpoint EXCEPT ![p] = "off"]
    /\ UNCHANGED <<creating, fans, rows, workers, history>>

(* Deleting an endpoint deletes its deliveries with it.                    *)
DeleteEndpoint(p) ==
    /\ Edit
    /\ p \in Existing
    /\ endpoint' = [endpoint EXCEPT ![p] = "deleted"]
    /\ queued' = {d \in queued : d[1] # p}
    /\ UNCHANGED <<creating, fans, status, attempts, hidden, born, workers,
                   calls, answers, replays, lost, gaveUp>>

(* A replay resets the row, whatever state it is in.                       *)
Replay(d) ==
    /\ spent.replays < MaxReplays
    /\ d \in queued
    /\ spent' = [spent EXCEPT !.replays = @ + 1]
    /\ status' = [status EXCEPT ![d] = "pending"]
    /\ attempts' = [attempts EXCEPT ![d] = 0]
    /\ hidden' = [hidden EXCEPT ![d] = 0]
    /\ replays' = [replays EXCEPT ![d] = @ + 1]
    /\ UNCHANGED <<customers, fans, queued, born, workers, calls, answers, lost, gaveUp>>

-----------------------------------------------------------------------------
(* Fan-out: the enabled endpoints that want the event are read first ..    *)
FanOutRead(e) ==
    /\ fanouts < MaxFanouts
    /\ e \notin fanning
    /\ reading' = [reading EXCEPT ![e] = {p \in Endpoints : endpoint[p] = "on" /\ <<p, e>> \in Wants}]
    /\ fanning' = fanning \cup {e}
    /\ fanouts' = fanouts + 1
    /\ UNCHANGED <<customers, rows, workers, spent, history>>

(* Mutant: the second fan-out of an event overwrites the rows of the first.*)
FanOutUpsert(e) ==
    /\ e \in fanning
    /\ reading[e] \subseteq Existing
    /\ LET new == reading[e] \X {e} IN
       /\ queued' = queued \cup new
       /\ status' = [d \in Deliveries |-> IF d \in new THEN "pending" ELSE status[d]]
       /\ attempts' = [d \in Deliveries |-> IF d \in new THEN 0 ELSE attempts[d]]
       /\ born' = [d \in Deliveries |-> IF d \in new THEN fanouts ELSE born[d]]
    /\ fanning' = fanning \ {e}
    /\ reading' = [reading EXCEPT ![e] = {}]
    /\ UNCHANGED <<customers, fanouts, hidden, workers, spent, history>>

(* .. then one statement inserts the rows the unique index does not hold.  *)
FanOutInsert(e) ==
    /\ e \in fanning
    /\ reading[e] \subseteq Existing
    /\ LET new == (reading[e] \X {e}) \ queued IN
       /\ queued' = queued \cup new
       /\ born' = [d \in Deliveries |-> IF d \in new THEN fanouts ELSE born[d]]
    /\ fanning' = fanning \ {e}
    /\ reading' = [reading EXCEPT ![e] = {}]
    /\ UNCHANGED <<customers, fanouts, status, attempts, hidden, workers, spent, history>>

(* An endpoint it read is gone: the foreign key refuses the statement, and *)
(* the drain will run the handler again.                                   *)
FanOutFails(e) ==
    /\ e \in fanning
    /\ ~ (reading[e] \subseteq Existing)
    /\ fanning' = fanning \ {e}
    /\ reading' = [reading EXCEPT ![e] = {}]
    /\ UNCHANGED <<customers, fanouts, rows, workers, spent, history>>

-----------------------------------------------------------------------------
Less(n) == IF n > 0 THEN n - 1 ELSE 0

(* Worker w has claimed d and has yet to write the outcome of its call.    *)
Holds(w, d) ==
    \/ d \in todo[w]
    \/ d \in current[w] /\ phase[w] \in {"answered", "failed"}

(* A lease may run out under a worker: nothing bounds a batch of calls by  *)
(* it, and a worker does not notice.                                       *)
Tick ==
    /\ (\E d \in Deliveries : hidden[d] > 0) \/ (\E w \in Workers : lease[w] > 0)
    /\ hidden' = [d \in Deliveries |-> Less(hidden[d])]
    /\ lease' = [w \in Workers |-> Less(lease[w])]
    /\ lost' = [d \in Deliveries |->
                   IF \E w \in Workers : lease[w] = 1 /\ Holds(w, d) THEN lost[d] + 1 ELSE lost[d]]
    /\ UNCHANGED <<customers, fans, queued, status, attempts, born, phase, todo,
                   tries, loaded, current, spent, calls, answers, replays, gaveUp>>

Due ==
    {d \in queued : status[d] = "pending" /\ hidden[d] = 0 /\ attempts[d] < MaxAttempts}

(* ORDER BY created_at LIMIT batchSize; rows of one fan-out tie.           *)
OldestBatch(B) ==
    /\ B \subseteq Due
    /\ B # {}
    /\ Cardinality(B) <= BatchSize
    /\ Cardinality(B) = BatchSize \/ B = Due
    /\ \A d \in B, f \in Due \ B : born[d] <= born[f]

(* The attempts column of the claimed rows, as UPDATE .. RETURNING gives it.*)
Returned(B) == [d \in Deliveries |-> IF d \in B THEN attempts[d] + 1 ELSE 0]
NoRows == [d \in Deliveries |-> 0]

(* Mutant: the claim sets no lease.                                        *)
ClaimUnleased(w, B) ==
    /\ phase[w] = "idle"
    /\ OldestBatch(B)
    /\ attempts' = [d \in Deliveries |-> IF d \in B THEN attempts[d] + 1 ELSE attempts[d]]
    /\ phase' = [phase EXCEPT ![w] = "load"]
    /\ todo' = [todo EXCEPT ![w] = B]
    /\ tries' = [tries EXCEPT ![w] = Returned(B)]
    /\ lease' = [lease EXCEPT ![w] = Lease]
    /\ UNCHANGED <<customers, fans, queued, status, hidden, born, loaded, current,
                   spent, history>>

(* The claim transaction: select for update skip locked, then update.      *)
Claim(w, B) ==
    /\ phase[w] = "idle"
    /\ OldestBatch(B)
    /\ attempts' = [d \in Deliveries |-> IF d \in B THEN attempts[d] + 1 ELSE attempts[d]]
    /\ hidden' = [d \in Deliveries |-> IF d \in B THEN Lease ELSE hidden[d]]
    /\ phase' = [phase EXCEPT ![w] = "load"]
    /\ todo' = [todo EXCEPT ![w] = B]
    /\ tries' = [tries EXCEPT ![w] = Returned(B)]
    /\ lease' = [lease EXCEPT ![w] = Lease]
    /\ UNCHANGED <<customers, fans, queued, status, born, loaded, current, spent, history>>

(* The batch's endpoints are loaded once, enabled or not.                  *)
Load(w) ==
    /\ phase[w] = "load"
    /\ loaded' = [loaded EXCEPT ![w] = {p \in Existing : \E d \in todo[w] : d[1] = p}]
    /\ phase' = [phase EXCEPT ![w] = "run"]
    /\ UNCHANGED <<customers, fans, rows, todo, tries, current, lease, spent, history>>

Skip(w, d) ==
    /\ phase[w] = "run"
    /\ d \in todo[w]
    /\ d[1] \notin loaded[w]
    /\ todo' = [todo EXCEPT ![w] = @ \ {d}]
    /\ UNCHANGED <<customers, fans, rows, phase, tries, loaded, current, lease, spent, history>>

(* The histories stop counting just above what CallsAreBounded allows.     *)
HistoryCap == MaxAttempts * (1 + MaxReplays) + 1
Counted(n) == IF n < HistoryCap THEN n + 1 ELSE n

(* The HTTP call, with no lock held: the rows UPDATE .. RETURNING gave are *)
(* taken in any order.                                                     *)
Call(w, d) ==
    /\ phase[w] = "run"
    /\ d \in todo[w]
    /\ d[1] \in loaded[w]
    /\ todo' = [todo EXCEPT ![w] = @ \ {d}]
    /\ current' = [current EXCEPT ![w] = {d}]
    /\ calls' = [calls EXCEPT ![d] = Counted(@)]
    /\ UNCHANGED <<customers, fans, rows, tries, loaded, lease, spent, replays, lost, gaveUp>>

CallAnswered(w, d) ==
    /\ Call(w, d)
    /\ phase' = [phase EXCEPT ![w] = "answered"]
    /\ answers' = [answers EXCEPT ![d] = Counted(@)]

(* Another status, a timeout, or a destination that does not resolve.      *)
CallFailed(w, d) ==
    /\ d[1] \notin Healthy
    /\ Call(w, d)
    /\ phase' = [phase EXCEPT ![w] = "failed"]
    /\ UNCHANGED answers

(* The outcomes are written by row id: neither the status nor another      *)
(* worker's claim is looked at, and a deleted row is not missed.           *)
MarkSucceeded(w, d) ==
    /\ phase[w] = "answered"
    /\ d \in current[w]
    /\ status' = [status EXCEPT ![d] = IF d \in queued THEN "succeeded" ELSE @]
    /\ phase' = [phase EXCEPT ![w] = "run"]
    /\ current' = [current EXCEPT ![w] = {}]
    /\ UNCHANGED <<customers, fans, queued, attempts, hidden, born, todo, tries, loaded,
                   lease, spent, history>>

(* Mutant: a failed call gives its attempt back.                           *)
MarkRetryingUncounted(w, d) ==
    /\ phase[w] = "failed"
    /\ d \in current[w]
    /\ tries[w][d] < MaxAttempts
    /\ status' = [status EXCEPT ![d] = IF d \in queued THEN "pending" ELSE @]
    /\ attempts' = [attempts EXCEPT ![d] = tries[w][d] - 1]
    /\ hidden' = [hidden EXCEPT ![d] = IF d \in queued THEN Backoff[tries[w][d]] ELSE @]
    /\ phase' = [phase EXCEPT ![w] = "run"]
    /\ current' = [current EXCEPT ![w] = {}]
    /\ UNCHANGED <<customers, fans, queued, born, todo, tries, loaded, lease,
                   spent, history>>

MarkRetrying(w, d) ==
    /\ phase[w] = "failed"
    /\ d \in current[w]
    /\ tries[w][d] < MaxAttempts
    /\ status' = [status EXCEPT ![d] = IF d \in queued THEN "pending" ELSE @]
    /\ hidden' = [hidden EXCEPT ![d] = IF d \in queued THEN Backoff[tries[w][d]] ELSE @]
    /\ phase' = [phase EXCEPT ![w] = "run"]
    /\ current' = [current EXCEPT ![w] = {}]
    /\ UNCHANGED <<customers, fans, queued, attempts, born, todo, tries, loaded, lease,
                   spent, history>>

MarkExhausted(w, d) ==
    /\ phase[w] = "failed"
    /\ d \in current[w]
    /\ tries[w][d] >= MaxAttempts
    /\ status' = [status EXCEPT ![d] = IF d \in queued THEN "exhausted" ELSE @]
    /\ phase' = [phase EXCEPT ![w] = "judge"]
    /\ gaveUp' = gaveUp \cup {d}
    /\ UNCHANGED <<customers, fans, queued, attempts, hidden, born, todo, tries, loaded,
                   current, lease, spent, calls, answers, replays, lost>>

(* The endpoint's rows, and its DisableAfter newest ones.                  *)
RowsOf(p) == {d \in queued : d[1] = p}
NewestOf(p, R) ==
    /\ R \subseteq RowsOf(p)
    /\ Cardinality(R) <= DisableAfter
    /\ Cardinality(R) = DisableAfter \/ R = RowsOf(p)
    /\ \A d \in R, f \in RowsOf(p) \ R : born[d] >= born[f]

Sustained(R) ==
    /\ Cardinality(R) >= DisableAfter
    /\ \A d \in R : status[d] = "exhausted"

(* The newest deliveries are read, and the endpoint is then disabled: by   *)
(* its id, whatever happened to it in between.                             *)
Judge(w, R) ==
    /\ phase[w] = "judge"
    /\ \E d \in current[w] : NewestOf(d[1], R)
    /\ phase' = [phase EXCEPT ![w] = IF Sustained(R) THEN "disable" ELSE "run"]
    /\ current' = [current EXCEPT ![w] = IF Sustained(R) THEN @ ELSE {}]
    /\ UNCHANGED <<customers, fans, rows, todo, tries, loaded, lease, spent, history>>

AutoDisable(w, p) ==
    /\ phase[w] = "disable"
    /\ \E d \in current[w] : p = d[1]
    /\ endpoint' = [endpoint EXCEPT ![p] = IF p \in Existing THEN "auto" ELSE @]
    /\ phase' = [phase EXCEPT ![w] = "run"]
    /\ current' = [current EXCEPT ![w] = {}]
    /\ UNCHANGED <<creating, fans, rows, todo, tries, loaded, lease, spent, history>>

Finish(w) ==
    /\ phase[w] = "run"
    /\ todo[w] = {}
    /\ phase' = [phase EXCEPT ![w] = "idle"]
    /\ tries' = [tries EXCEPT ![w] = NoRows]
    /\ loaded' = [loaded EXCEPT ![w] = {}]
    /\ lease' = [lease EXCEPT ![w] = 0]
    /\ UNCHANGED <<customers, fans, rows, todo, current, spent, history>>

(* The process dies, or a statement of the worker throws.                  *)
Crash(w) ==
    /\ phase[w] # "idle"
    /\ spent.crashes < MaxCrashes
    /\ spent' = [spent EXCEPT !.crashes = @ + 1]
    /\ phase' = [phase EXCEPT ![w] = "idle"]
    /\ todo' = [todo EXCEPT ![w] = {}]
    /\ tries' = [tries EXCEPT ![w] = NoRows]
    /\ loaded' = [loaded EXCEPT ![w] = {}]
    /\ current' = [current EXCEPT ![w] = {}]
    /\ lease' = [lease EXCEPT ![w] = 0]
    /\ lost' = [d \in Deliveries |->
                   IF lease[w] > 0 /\ Holds(w, d) THEN lost[d] + 1 ELSE lost[d]]
    /\ UNCHANGED <<customers, fans, rows, calls, answers, replays, gaveUp>>

-----------------------------------------------------------------------------
Customer ==
    \/ \E p \in Endpoints :
        \/ CountEndpoints(p) \/ CreateEndpoint(p)
        \/ EnableEndpoint(p) \/ DisableEndpoint(p) \/ DeleteEndpoint(p)
    \/ \E d \in Deliveries : Replay(d)

FanOut(e) == FanOutRead(e) \/ FanOutInsert(e) \/ FanOutFails(e)

Claims(w) == \E B \in SUBSET Deliveries : Claim(w, B)
Works(w) ==
    \/ Load(w)
    \/ \E d \in Deliveries :
        \/ Skip(w, d) \/ CallAnswered(w, d) \/ CallFailed(w, d)
        \/ MarkSucceeded(w, d) \/ MarkRetrying(w, d) \/ MarkExhausted(w, d)
    \/ \E R \in SUBSET Deliveries : Judge(w, R)
    \/ \E p \in Endpoints : AutoDisable(w, p)
    \/ Finish(w)

Next ==
    \/ Customer
    \/ \E e \in Events : FanOut(e)
    \/ Tick
    \/ \E w \in Workers : Claims(w) \/ Works(w) \/ Crash(w)

Spec == Init /\ [][Next]_vars

(* The cron starts a run every minute for ever, and a run that has not     *)
(* died reaches its end: every call is cut off by its timeout.             *)
Fairness ==
    /\ WF_vars(Tick)
    /\ \A w \in Workers : WF_vars(Claims(w)) /\ WF_vars(Works(w))
FairSpec == Spec /\ Fairness

-----------------------------------------------------------------------------
TypeOK ==
    /\ endpoint \in [Endpoints -> EndpointStates]
    /\ creating \subseteq Endpoints
    /\ reading \in [Events -> SUBSET Endpoints]
    /\ fanning \subseteq Events
    /\ fanouts \in 0..MaxFanouts
    /\ queued \subseteq Deliveries
    /\ status \in [Deliveries -> Statuses]
    /\ attempts \in [Deliveries -> 0..MaxAttempts]
    /\ hidden \in [Deliveries -> Nat]
    /\ born \in [Deliveries -> 0..MaxFanouts]
    /\ phase \in [Workers -> Phases]
    /\ todo \in [Workers -> SUBSET Deliveries]
    /\ tries \in [Workers -> [Deliveries -> 0..MaxAttempts]]
    /\ loaded \in [Workers -> SUBSET Endpoints]
    /\ current \in [Workers -> SUBSET Deliveries]
    /\ lease \in [Workers -> Nat]
    /\ spent \in [crashes : 0..MaxCrashes, replays : 0..MaxReplays, edits : 0..MaxEdits]
    /\ calls \in [Deliveries -> Nat]
    /\ answers \in [Deliveries -> Nat]
    /\ replays \in [Deliveries -> Nat]
    /\ lost \in [Deliveries -> Nat]
    /\ gaveUp \subseteq Deliveries

(* maxAttempts bounds what an endpoint is sent: one event costs it at most *)
(* MaxAttempts calls, and as many again for every replay the customer asks *)
(* for, whatever workers crash or outlive their leases.                    *)
CallsAreBounded ==
    \A d \in Deliveries : calls[d] <= MaxAttempts * (1 + replays[d])

(* A delivery is only reported succeeded when its endpoint has answered.   *)
SucceededWasAnswered ==
    \A d \in queued : status[d] = "succeeded" => answers[d] > 0

(* What the two rest on.  A claim pays for the calls it will make: calls   *)
(* made and claims held never pass the attempts counted, and those that    *)
(* replays have reset.                                                     *)
Holders(d) == {w \in Workers : d \in todo[w]}
AttemptsPay ==
    \A d \in Deliveries :
        calls[d] + Cardinality(Holders(d)) <= attempts[d] + MaxAttempts * replays[d]

HeldRows ==
    \A w \in Workers :
        /\ phase[w] = "idle" => todo[w] = {}
        /\ phase[w] \in {"idle", "load", "run"} => current[w] = {}
        /\ \A d \in todo[w] \cup current[w] : tries[w][d] \in 1..MaxAttempts
        /\ \A d \in current[w] : phase[w] = "answered" => answers[d] > 0

Answered == \A d \in Deliveries : status[d] = "succeeded" => answers[d] > 0

IInv == TypeOK /\ HeldRows /\ Answered /\ AttemptsPay

(* Refinement: the workers keep the contract of AtLeastOnce.  A delivery   *)
(* is in the queue while its row exists or a worker still has to call for  *)
(* it; it is reported succeeded only after an answer, and is called for at *)
(* most MaxAttempts times per replay and once more.                        *)
InHand == UNION {todo[w] : w \in Workers}
SeenOf(d) == IF answers[d] > 0 THEN {"answer"} ELSE {}
Queue == INSTANCE AtLeastOnce
    WITH Items <- Deliveries,
         Parts <- {"answer"},
         Limit <- MaxAttempts,
         Revocable <- TRUE,
         accepted <- queued \cup InHand,
         extra <- replays,
         handed <- calls,
         seen <- [d \in Deliveries |-> SeenOf(d)],
         closed <- {d \in Deliveries : status[d] = "succeeded"}

DeliversAtLeastOnce == Queue!Spec

(* The platform only disables an endpoint on which as many different       *)
(* deliveries were given up as disableAfterExhausted says, although the    *)
(* rows are read, replayed and deleted while workers judge them.           *)
DisabledWasFailing ==
    \A p \in Endpoints :
        endpoint[p] = "auto" => Cardinality({d \in gaveUp : d[1] = p}) >= DisableAfter

(* "The unique (endpoint, event) index is what guarantees a customer never *)
(* receives an event twice from a single fan-out": every acknowledgement   *)
(* of an event after the first is owed to a replay, or to a worker that    *)
(* lost the delivery, because it died or because its lease ran out, after  *)
(* claiming it and before writing the outcome.  Nothing else repeats one:  *)
(* no second fan-out, no outcome written late over another's.              *)
AnsweredOnce ==
    \A d \in Deliveries : answers[d] <= 1 + replays[d] + lost[d]

(* "Queue a delivery to be attempted again": a replayed delivery, its      *)
(* attempts counted from zero again, stays queued until it is claimed.     *)
ReplayIsHonoured ==
    \A d \in queued : replays[d] > 0 /\ attempts[d] = 0 => status[d] = "pending"

(* MAX_ENDPOINTS_PER_WORKSPACE bounds the endpoints of a workspace.        *)
EndpointsAreBounded == Cardinality(Existing) <= MaxEndpoints

(* A queued delivery ends as what the customer is shown, succeeded or      *)
(* exhausted.  It may be left pending with no attempts to go only when a   *)
(* worker lost it, or it was replayed while a worker held it.              *)
EveryDeliverySettles ==
    \A d \in Deliveries :
        (d \in queued) ~>
            \/ d \notin queued
            \/ status[d] # "pending"
            \/ attempts[d] = MaxAttempts /\ lost[d] + replays[d] > 0

(* The same with no exception: no delivery stays pending for ever.         *)
EveryDeliveryCloses ==
    \A d \in Deliveries :
        (d \in queued) ~> (d \notin queued \/ status[d] # "pending")

(* One endpoint's failures do not stall another's: an endpoint that always *)
(* answers receives the event, as long as fewer workers die than a         *)
(* delivery has attempts.                                                  *)
HealthyIsDelivered ==
    MaxCrashes < MaxAttempts =>
        \A d \in Deliveries :
            d[1] \in Healthy => ((d \in queued) ~> (d \notin queued \/ answers[d] > 0))

=============================================================================

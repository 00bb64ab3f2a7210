------------------------------- MODULE Outbox -------------------------------
(***************************************************************************)
(* The delivery half of the transactional outbox (packages/events/src/     *)
(* outbox.ts, drainOutbox) under the dispatcher that calls it in a loop    *)
(* (packages/event-dispatch/src/dispatcher.ts).                            *)
(*                                                                         *)
(* Several drains run at once: every API process drains after each commit  *)
(* (services/api/src/inngest-routes.ts) and a cron drains every minute.  A *)
(* drain claims a batch under a lease, runs every handler on each event    *)
(* with no lock held, and marks the delivered ones published at its very   *)
(* end.  It may be slower than its lease, and it may die between any two   *)
(* steps.                                                                  *)
(*                                                                         *)
(* Time is relative: hidden[e] is the number of ticks until available_at,  *)
(* lease[d] what is left of the lease of d's batch.                        *)
(***************************************************************************)
EXTENDS Integers, FiniteSets

CONSTANTS
    Events,         \* rows of api_outbox_events
    Occurred,       \* occurred_at: the start of the transaction that wrote it
    Follows,        \* <<e, f>>: f's change was made on top of e's
    Drains,         \* concurrent runs of drainOutbox
    Handlers,       \* the registered handlers
    Throws,         \* <<e, h>>: handler h may throw on event e
    BatchSize,      \* batchSize
    MaxAttempts,    \* maxAttempts
    Lease,          \* leaseMs, in ticks
    Backoff,        \* backoffMs, in ticks, by attempt
    MaxCrashes      \* bound: how many drains may die

ASSUME OccurredAssumption == Occurred \in [Events -> Nat]
ASSUME FollowsAssumption ==
    /\ Follows \subseteq Events \X Events
    /\ \A p \in Follows : Occurred[p[1]] < Occurred[p[2]]
ASSUME ThrowsAssumption == Throws \subseteq Events \X Handlers
ASSUME AttemptsAssumption == MaxAttempts \in Nat \ {0}
ASSUME LeaseAssumption == Lease \in Nat \ {0}
ASSUME BackoffAssumption == Backoff \in [1..MaxAttempts -> Nat]
ASSUME CrashAssumption == MaxCrashes \in Nat

VARIABLES
    stored,     \* committed rows
    attempts,   \* attempts column
    hidden,     \* ticks until available_at
    published,  \* rows with published_at set
    phase,      \* where each drain is
    todo,       \* claimed events a drain has not handled yet
    tries,      \* the attempts value a drain's claim returned per event
    failing,    \* the event a drain is about to reschedule
    done,       \* events a drain delivered and has not marked yet
    lease,      \* what is left of the drain's lease
    crashes,    \* drains that died so far
    handled,    \* history: the handlers that have succeeded on an event
    ran         \* history: the attempts at which the handlers were run

rows == <<stored, attempts, hidden, published>>
drains == <<phase, todo, tries, failing, done, lease>>
history == <<handled, ran>>
outboxVars == <<rows, drains, crashes, history>>

Phases == {"idle", "run", "reschedule"}

OutboxInit ==
    /\ stored = {}
    /\ attempts = [e \in Events |-> 0]
    /\ hidden = [e \in Events |-> 0]
    /\ published = {}
    /\ phase = [d \in Drains |-> "idle"]
    /\ todo = [d \in Drains |-> {}]
    /\ tries = [d \in Drains |-> [e \in Events |-> 0]]
    /\ failing = [d \in Drains |-> {}]
    /\ done = [d \in Drains |-> {}]
    /\ lease = [d \in Drains |-> 0]
    /\ crashes = 0
    /\ handled = [e \in Events |-> {}]
    /\ ran = [e \in Events |-> {}]

-----------------------------------------------------------------------------
(* A mutation commits: the events of one transaction appear together.      *)
(* occurred_at is the transaction's start, so commits may reorder it,      *)
(* except when a change was made on top of another: it started later.      *)
Store(t) ==
    LET new == {e \in Events : Occurred[e] = t} IN
    /\ new # {}
    /\ new \cap stored = {}
    /\ \A p \in Follows : p[2] \in new => p[1] \in stored
    /\ stored' = stored \cup new
    /\ UNCHANGED <<attempts, hidden, published, drains, crashes, history>>

Less(n) == IF n > 0 THEN n - 1 ELSE 0

Tick ==
    /\ (\E e \in Events : hidden[e] > 0) \/ (\E d \in Drains : lease[d] > 0)
    /\ hidden' = [e \in Events |-> Less(hidden[e])]
    /\ lease' = [d \in Drains |-> Less(lease[d])]
    /\ UNCHANGED <<stored, attempts, published, phase, todo, tries, failing,
                   done, crashes, history>>

(* Mutant: the filter on attempts is dropped.  The column stops at its cap *)
(* only to keep the instance finite.                                       *)
ClaimExhausted(d, B) ==
    LET visible == {e \in stored \ published : hidden[e] = 0} IN
    /\ phase[d] = "idle"
    /\ B \subseteq visible /\ B # {} /\ Cardinality(B) <= BatchSize
    /\ Cardinality(B) = BatchSize \/ B = visible
    /\ \A e \in B, f \in visible \ B : Occurred[e] <= Occurred[f]
    /\ attempts' = [e \in Events |->
                       IF e \in B /\ attempts[e] < MaxAttempts THEN attempts[e] + 1 ELSE attempts[e]]
    /\ hidden' = [e \in Events |-> IF e \in B THEN Lease ELSE hidden[e]]
    /\ phase' = [phase EXCEPT ![d] = "run"]
    /\ todo' = [todo EXCEPT ![d] = B]
    /\ tries' = [tries EXCEPT ![d] = attempts']
    /\ done' = [done EXCEPT ![d] = {}]
    /\ lease' = [lease EXCEPT ![d] = Lease]
    /\ UNCHANGED <<stored, published, failing, crashes, history>>

Claimable == {e \in stored \ published : hidden[e] = 0 /\ attempts[e] < MaxAttempts}

(* ORDER BY occurred_at LIMIT batchSize: a full batch when there is one,   *)
(* and nothing left out is older than something taken.                     *)
OldestBatch(B) ==
    /\ B \subseteq Claimable
    /\ B # {}
    /\ Cardinality(B) <= BatchSize
    /\ Cardinality(B) = BatchSize \/ B = Claimable
    /\ \A e \in B, f \in Claimable \ B : Occurred[e] <= Occurred[f]

(* The claim transaction: select for update skip locked, then update.      *)
Claim(d, B) ==
    /\ phase[d] = "idle"
    /\ OldestBatch(B)
    /\ attempts' = [e \in Events |-> IF e \in B THEN attempts[e] + 1 ELSE attempts[e]]
    /\ hidden' = [e \in Events |-> IF e \in B THEN Lease ELSE hidden[e]]
    /\ phase' = [phase EXCEPT ![d] = "run"]
    /\ todo' = [todo EXCEPT ![d] = B]
    /\ tries' = [tries EXCEPT ![d] = attempts']
    /\ done' = [done EXCEPT ![d] = {}]
    /\ lease' = [lease EXCEPT ![d] = Lease]
    /\ UNCHANGED <<stored, published, failing, crashes, history>>

(* The claimed rows are sorted again, because UPDATE .. RETURNING is not.  *)
IsNext(d, e) ==
    /\ phase[d] = "run"
    /\ e \in todo[d]
    /\ \A f \in todo[d] : Occurred[e] <= Occurred[f]

(* The events some handler may throw on; the others are healthy.           *)
CanFail == {e \in Events : \E h \in Handlers : <<e, h>> \in Throws}

(* Every handler runs on the event; ok are the ones that do not throw.     *)
RunHandlers(d, e, ok) ==
    /\ IsNext(d, e)
    /\ \A h \in Handlers \ ok : <<e, h>> \in Throws
    /\ handled' = [handled EXCEPT ![e] = @ \cup ok]
    /\ ran' = [ran EXCEPT ![e] = @ \cup {tries[d][e]}]
    /\ todo' = [todo EXCEPT ![d] = @ \ {e}]

Deliver(d, e) ==
    /\ RunHandlers(d, e, Handlers)
    /\ done' = [done EXCEPT ![d] = @ \cup {e}]
    /\ UNCHANGED <<rows, phase, tries, failing, lease, crashes>>

(* Mutant: an event out of attempts is marked with the delivered ones.     *)
GiveUpAsDelivered(d, e) ==
    /\ \E ok \in SUBSET Handlers : ok # Handlers /\ RunHandlers(d, e, ok)
    /\ tries[d][e] >= MaxAttempts
    /\ done' = [done EXCEPT ![d] = @ \cup {e}]
    /\ UNCHANGED <<rows, phase, tries, failing, lease, crashes>>

(* Out of attempts: the row is left unpublished for inspection.            *)
GiveUp(d, e) ==
    /\ \E ok \in SUBSET Handlers : ok # Handlers /\ RunHandlers(d, e, ok)
    /\ tries[d][e] >= MaxAttempts
    /\ UNCHANGED <<rows, phase, tries, failing, done, lease, crashes>>

Fail(d, e) ==
    /\ \E ok \in SUBSET Handlers : ok # Handlers /\ RunHandlers(d, e, ok)
    /\ tries[d][e] < MaxAttempts
    /\ phase' = [phase EXCEPT ![d] = "reschedule"]
    /\ failing' = [failing EXCEPT ![d] = {e}]
    /\ UNCHANGED <<rows, tries, done, lease, crashes>>

(* Mutant: the attempts filter lets the poison event back in at once, and  *)
(* gives its attempt back.                                                 *)
RescheduleUncounted(d) ==
    /\ phase[d] = "reschedule"
    /\ attempts' = [e \in Events |-> IF e \in failing[d] THEN attempts[e] - 1 ELSE attempts[e]]
    /\ hidden' = [e \in Events |-> IF e \in failing[d] THEN 0 ELSE hidden[e]]
    /\ phase' = [phase EXCEPT ![d] = "run"]
    /\ failing' = [failing EXCEPT ![d] = {}]
    /\ UNCHANGED <<stored, published, todo, tries, done, lease, crashes, history>>

(* The update names only the row's id: it looks neither at published_at    *)
(* nor at another drain's lease.                                           *)
Reschedule(d) ==
    /\ phase[d] = "reschedule"
    /\ hidden' = [e \in Events |-> IF e \in failing[d] THEN Backoff[tries[d][e]] ELSE hidden[e]]
    /\ phase' = [phase EXCEPT ![d] = "run"]
    /\ failing' = [failing EXCEPT ![d] = {}]
    /\ UNCHANGED <<stored, attempts, published, todo, tries, done, lease, crashes, history>>

Finish(d) ==
    /\ phase[d] = "run"
    /\ todo[d] = {}
    /\ published' = published \cup done[d]
    /\ phase' = [phase EXCEPT ![d] = "idle"]
    /\ done' = [done EXCEPT ![d] = {}]
    /\ lease' = [lease EXCEPT ![d] = 0]
    /\ UNCHANGED <<stored, attempts, hidden, todo, tries, failing, crashes, history>>

(* The process dies, or a statement of the drain throws: what it delivered *)
(* and did not mark is forgotten.                                          *)
DrainDies(d) ==
    /\ phase[d] # "idle"
    /\ crashes < MaxCrashes
    /\ crashes' = crashes + 1
    /\ phase' = [phase EXCEPT ![d] = "idle"]
    /\ todo' = [todo EXCEPT ![d] = {}]
    /\ failing' = [failing EXCEPT ![d] = {}]
    /\ done' = [done EXCEPT ![d] = {}]
    /\ lease' = [lease EXCEPT ![d] = 0]
    /\ UNCHANGED <<rows, tries, history>>

Claims(d) == \E B \in SUBSET Events : Claim(d, B)
Drain(d) ==
    \/ \E e \in Events : Deliver(d, e) \/ GiveUp(d, e) \/ Fail(d, e)
    \/ Reschedule(d)
    \/ Finish(d)

OutboxNext ==
    \/ \E e \in Events : Store(Occurred[e])
    \/ Tick
    \/ \E d \in Drains : Claims(d) \/ Drain(d) \/ DrainDies(d)

OutboxSpec == OutboxInit /\ [][OutboxNext]_outboxVars

(* The cron starts a drain every minute for ever, and a drain that has     *)
(* not died reaches its end: every handler returns or throws.              *)
OutboxFairness ==
    /\ WF_outboxVars(Tick)
    /\ \A d \in Drains : WF_outboxVars(Claims(d)) /\ WF_outboxVars(Drain(d))
FairOutboxSpec == OutboxSpec /\ OutboxFairness

-----------------------------------------------------------------------------
OutboxTypeOK ==
    /\ stored \subseteq Events
    /\ attempts \in [Events -> 0..MaxAttempts]
    /\ hidden \in [Events -> Nat]
    /\ published \subseteq Events
    /\ phase \in [Drains -> Phases]
    /\ todo \in [Drains -> SUBSET Events]
    /\ tries \in [Drains -> [Events -> 0..MaxAttempts]]
    /\ failing \in [Drains -> SUBSET Events]
    /\ done \in [Drains -> SUBSET Events]
    /\ lease \in [Drains -> Nat]
    /\ crashes \in 0..MaxCrashes
    /\ handled \in [Events -> SUBSET Handlers]
    /\ ran \in [Events -> SUBSET (0..MaxAttempts)]

(* An event is only marked published once every handler has succeeded on   *)
(* it: at-least-once delivery survives crashes, lapsed leases and handlers *)
(* that fail on some attempts.                                             *)
PublishedWasHandled ==
    \A e \in published : e \in stored /\ handled[e] = Handlers

(* What a drain still holds, it holds under an attempt of its own: no two  *)
(* drains share an attempt, and no attempt is run twice.  With OutboxTypeOK the  *)
(* handlers see an event at most maxAttempts times, whatever crashes.      *)
EachAttemptRunsOnce ==
    \A d \in Drains : \A e \in todo[d] :
        /\ tries[d][e] \in 1..attempts[e]
        /\ tries[d][e] \notin ran[e]
        /\ \A c \in Drains \ {d} : e \in todo[c] => tries[c][e] # tries[d][e]

(* The strengthening that is inductive: what a drain holds is stored, was  *)
(* claimed, and what it is about to mark was delivered.                    *)
HeldRows ==
    \A d \in Drains :
        /\ todo[d] \cup done[d] \subseteq stored
        /\ \A e \in failing[d] : tries[d][e] >= 1
        /\ \A e \in done[d] : handled[e] = Handlers
        /\ phase[d] = "idle" => todo[d] = {}
        /\ phase[d] # "reschedule" => failing[d] = {}
AttemptsSpent ==
    \A e \in Events : ran[e] \subseteq 1..attempts[e]

OutboxIInv ==
    /\ OutboxTypeOK
    /\ HeldRows
    /\ AttemptsSpent
    /\ EachAttemptRunsOnce
    /\ PublishedWasHandled

(* Refinement: the drain keeps the contract of AtLeastOnce.  An event      *)
(* once committed stays in the queue, its handlers are run for each of its *)
(* attempts at most once, and it is published for good after all of them   *)
(* have succeeded.                                                         *)
Queue == INSTANCE AtLeastOnce
    WITH Items <- Events,
         Parts <- Handlers,
         Limit <- MaxAttempts,
         Revocable <- FALSE,
         accepted <- stored,
         extra <- [e \in Events |-> 0],
         handed <- [e \in Events |-> Cardinality(ran[e])],
         seen <- handled,
         closed <- published

DeliversAtLeastOnce == Queue!Spec

(* A published event is never claimed again, and stays published.          *)
PublishedIsFinal ==
    [][\A e \in published : e \in published' /\ attempts'[e] = attempts[e]]_outboxVars

(* Every stored event is in the end published or out of attempts.          *)
EveryEventSettles ==
    \A e \in Events :
        (e \in stored) ~> (e \in published \/ attempts[e] = MaxAttempts)

(* An event no handler throws on is published, although as many poison     *)
(* events as a batch holds sit before it in the queue, as long as fewer    *)
(* drains die than it has attempts: exhausted events keep no place in the  *)
(* batches of later drains.                                                *)
HealthyIsPublished ==
    MaxCrashes < MaxAttempts =>
        \A e \in Events \ CanFail : (e \in stored) ~> (e \in published)

(* leaseMs: "How long a claimed event stays invisible before another drain *)
(* may retry it".  At most one of the drains that still have to run an     *)
(* event no handler throws on has time left on its lease.                  *)
LeaseIsExclusive ==
    \A c, d \in Drains : \A e \in (todo[c] \cap todo[d]) \ CanFail :
        lease[c] > 0 /\ lease[d] > 0 => c = d

(* The same of every event: a failure seen after the lease has lapsed ends *)
(* another drain's lease.                                                  *)
LeaseIsAlwaysExclusive ==
    \A c, d \in Drains : \A e \in todo[c] \cap todo[d] :
        lease[c] > 0 /\ lease[d] > 0 => c = d

(* "Preserved ordering": no handler has seen a change before it has seen   *)
(* the change it was made on top of (client.created, client.updated).      *)
OrderIsPreserved ==
    \A p \in Follows : handled[p[2]] \subseteq handled[p[1]]

=============================================================================

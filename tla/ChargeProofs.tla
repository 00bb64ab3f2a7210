---------------------------- MODULE ChargeProofs ----------------------------
(***************************************************************************)
(* The money of a shop's customers, for any number of payments, orders,    *)
(* subscriptions and runs.                                                 *)
(*                                                                         *)
(* Renewals (SubscriptionRenewal): a cycle is charged once, a subscription *)
(* ends only on its failures, one that was stopped is left alone, and runs *)
(* that overlap open no more periods early than there are runs.            *)
(*                                                                         *)
(* Checkouts (PaymentSettlement): the ledger's bound, the evidence behind  *)
(* paid orders, the truth of the ledger when refunds are whole, and that a *)
(* redelivered event changes nothing, for any amounts.                     *)
(***************************************************************************)
EXTENDS PaymentSettlement, SubscriptionRenewal, FiniteSetTheorems, TLAPS

(* A row nobody bought has nothing: no date, no cycle, no run that lists it. *)
Unstarted ==
    \A s \in Subscriptions : boughtBy[s] = None =>
        /\ status[s] = "none"
        /\ next[s] = None
        /\ s \notin stopped
        /\ \A r \in Runs : s \notin todo[r]
        /\ \A c \in Cycles : c[1] = s => cycle[c] = "none"

(* Only a run that has listed a subscription can still bring its date        *)
(* forward, and one that did so no longer lists it.                          *)
NotListedBy(s) == {r \in Runs : s \notin todo[r]}
DatesAreNear ==
    \A s \in Subscriptions :
        next[s] # None => next[s] <= now + Cardinality(NotListedBy(s))

(* By hand means without a date.                                             *)
StoppedHasNoDate == \A s \in stopped : next[s] = None /\ boughtBy[s] # None

RenewalTyped == RenewalTypeOK /\ Unstarted /\ DatesAreNear /\ StoppedHasNoDate

(* A cycle names its subscription.                                           *)
LEMMA CycleFacts ==
    /\ \A c \in Cycles : c[1] \in Subscriptions
    /\ \A s \in Subscriptions, m \in 0..MaxResumes, t \in 0..LastStart :
        <<s, m, t>> \in Cycles /\ <<s, m, t>>[1] = s
    /\ \A s : NextCycle(s)[1] = s
  BY DEF Cycles, NextCycle

(* The runs that do not list a subscription are some of the runs.            *)
LEMMA ListedCount ==
    /\ Cardinality(Runs) \in Nat /\ Cardinality(Runs) > 0
    /\ \A s \in Subscriptions :
        /\ IsFiniteSet(NotListedBy(s)) /\ Cardinality(NotListedBy(s)) \in Nat
        /\ Cardinality(NotListedBy(s)) <= Cardinality(Runs)
<1>1. Cardinality(Runs) \in Nat
  BY RenewalAssumption, FS_CardinalityType
<1>2. Cardinality(Runs) # 0
  BY RenewalAssumption, FS_EmptySet
<1>3. ASSUME NEW s \in Subscriptions
      PROVE  /\ IsFiniteSet(NotListedBy(s)) /\ Cardinality(NotListedBy(s)) \in Nat
             /\ Cardinality(NotListedBy(s)) <= Cardinality(Runs)
  <2>1. NotListedBy(s) \subseteq Runs
    BY DEF NotListedBy
  <2>2. IsFiniteSet(NotListedBy(s)) /\ Cardinality(NotListedBy(s)) <= Cardinality(Runs)
    BY <2>1, RenewalAssumption, FS_Subset
  <2> QED BY <2>2, FS_CardinalityType
<1> QED BY <1>1, <1>2, <1>3

(* Nothing is bought, listed or dated.                                     *)
LEMMA RenewalStart == RenewalInit => RenewalTyped
<1> SUFFICES ASSUME RenewalInit PROVE RenewalTyped
  OBVIOUS
<1> USE RenewalAssumption
<1>1. RenewalTypeOK
  BY DEF RenewalInit, RenewalTypeOK, Rest, Statuses, CycleStatuses, Stages, RenewalAssumption
<1>2. Unstarted
  BY CycleFacts DEF RenewalInit, Unstarted
<1> QED BY <1>1, <1>2 DEF RenewalTyped, RenewalInit, DatesAreNear, StoppedHasNoDate

(* Dates stay near when no run lists more than it did and dates do not move. *)
LEMMA DatesStayNear ==
    ASSUME RenewalTyped, RenewalTypeOK',
           now' >= now,
           \A s \in Subscriptions : next'[s] # None => next[s] # None /\ next'[s] <= next[s],
           \A r \in Runs : todo'[r] \subseteq todo[r]
    PROVE  DatesAreNear'
<1> SUFFICES ASSUME NEW s \in Subscriptions, next'[s] # None
             PROVE  next'[s] <= now' + Cardinality(NotListedBy(s)')
  BY DEF DatesAreNear
<1>1. NotListedBy(s) \subseteq NotListedBy(s)' /\ NotListedBy(s)' \subseteq Runs
  BY DEF NotListedBy
<1>2. IsFiniteSet(NotListedBy(s)')
  BY <1>1, FS_Subset, RenewalAssumption DEF RenewalAssumption
<1>3. Cardinality(NotListedBy(s)) <= Cardinality(NotListedBy(s)') /\ Cardinality(NotListedBy(s)') \in Nat
  BY <1>1, <1>2, FS_Subset, FS_CardinalityType
<1>4. Cardinality(NotListedBy(s)) \in Nat
  BY ListedCount
<1>5. next[s] <= now + Cardinality(NotListedBy(s)) /\ next[s] # None
  BY DEF RenewalTyped, DatesAreNear
<1>6. now \in Nat /\ now' \in Nat /\ next[s] \in Int /\ next'[s] \in Int
  BY <1>5, ListedCount, RenewalAssumption DEF RenewalTyped, RenewalTypeOK, RenewalAssumption, LastStart
<1>7. next'[s] <= next[s] /\ now' >= now
  OBVIOUS
<1> DEFINE a == Cardinality(NotListedBy(s))
           b == Cardinality(NotListedBy(s)')
<1> HIDE DEF a, b
<1> QED BY <1>3, <1>4, <1>5, <1>6, <1>7 DEF a, b

(* A purchase: the row had nothing, and no run has seen it.                  *)
LEMMA BuyTyped ==
    ASSUME RenewalTyped, NEW k \in Purchases, Buy(k)
    PROVE  RenewalTyped'
<1> USE RenewalAssumption DEF RenewalAssumption, RenewalTyped
<1>1. PICK s \in Subscriptions :
        /\ boughtBy[s] = None
        /\ boughtBy' = [boughtBy EXCEPT ![s] = k]
        /\ status' = [status EXCEPT ![s] = "active"]
        /\ next' = [next EXCEPT ![s] = now + 1]
        /\ cycle' = [cycle EXCEPT ![<<s, 0, now>>] = "charged"]
        /\ UNCHANGED <<now, resumed, attempts, chargeable, charges, stopped, todo, run>>
  BY DEF Buy
<1>2. /\ now \in 0..MaxTime /\ now \in 0..LastStart /\ now + 1 \in 0..LastStart + 1
      /\ 0 \in 0..MaxResumes
  BY ListedCount DEF RenewalTypeOK, LastStart
<1>3. <<s, 0, now>> \in Cycles /\ <<s, 0, now>>[1] = s
  BY <1>2, CycleFacts
<1>4. RenewalTypeOK'
  BY <1>1, <1>2, <1>3 DEF RenewalTypeOK, Statuses, CycleStatuses
<1>5. Unstarted'
  BY <1>1, <1>3 DEF Unstarted, RenewalTypeOK
<1>6. DatesAreNear'
  <2> SUFFICES ASSUME NEW u \in Subscriptions, next'[u] # None
               PROVE  next'[u] <= now' + Cardinality(NotListedBy(u)')
    BY DEF DatesAreNear
  <2>1. NotListedBy(u)' = NotListedBy(u)
    BY <1>1 DEF NotListedBy
  <2>2. CASE u = s
    <3>1. NotListedBy(u) = Runs
      BY <1>1, <2>2 DEF Unstarted, NotListedBy
    <3> QED BY <1>1, <1>2, <2>1, <2>2, <3>1, ListedCount DEF RenewalTypeOK
  <2>3. CASE u # s
    BY <1>1, <2>1, <2>3 DEF DatesAreNear, RenewalTypeOK
  <2> QED BY <2>2, <2>3
<1>7. StoppedHasNoDate'
  BY <1>1 DEF Unstarted, StoppedHasNoDate, RenewalTypeOK
<1> QED BY <1>4, <1>5, <1>6, <1>7

(* What customers and operators do to a row that is there.                   *)
LEMMA HandTyped ==
    ASSUME RenewalTyped, NEW s \in Subscriptions,
           \/ Resume(s)
           \/ \E to \in {"paused", "cancelled"} : Stop(s, to)
    PROVE  RenewalTyped'
<1> USE RenewalAssumption DEF RenewalAssumption, RenewalTyped
<1>1. CASE Resume(s)
  <2>1. now \in 0..LastStart + 1 /\ now \in 0..MaxTime
    BY ListedCount DEF RenewalTypeOK, LastStart
  <2>2. RenewalTypeOK'
    BY <1>1, <2>1 DEF Resume, RenewalTypeOK, Statuses
  <2>3. Unstarted'
    BY <1>1 DEF Resume, Unstarted, RenewalTypeOK
  <2>4. DatesAreNear'
    <3> SUFFICES ASSUME NEW u \in Subscriptions, next'[u] # None
                 PROVE  next'[u] <= now' + Cardinality(NotListedBy(u)')
      BY DEF DatesAreNear
    <3>1. NotListedBy(u)' = NotListedBy(u) /\ now' = now
      BY <1>1 DEF Resume, NotListedBy
    <3>2. CASE u = s
      BY <1>1, <2>1, <3>1, <3>2, ListedCount DEF Resume, RenewalTypeOK
    <3>3. CASE u # s
      BY <1>1, <3>1, <3>3 DEF Resume, DatesAreNear, RenewalTypeOK
    <3> QED BY <3>2, <3>3
  <2>5. StoppedHasNoDate'
    BY <1>1 DEF Resume, StoppedHasNoDate, RenewalTypeOK
  <2> QED BY <2>2, <2>3, <2>4, <2>5
<1>2. ASSUME NEW to \in {"paused", "cancelled"}, Stop(s, to)
      PROVE  RenewalTyped'
  <2>1. RenewalTypeOK'
    BY <1>2 DEF Stop, RenewalTypeOK, Statuses
  <2>2. Unstarted'
    BY <1>2 DEF Stop, Unstarted, RenewalTypeOK
  <2>3. /\ now' >= now
        /\ \A u \in Subscriptions : next'[u] # None => next[u] # None /\ next'[u] <= next[u]
        /\ \A r \in Runs : todo'[r] \subseteq todo[r]
    BY <1>2 DEF Stop, RenewalTypeOK
  <2>4. DatesAreNear'
    BY <2>1, <2>3, DatesStayNear
  <2>5. StoppedHasNoDate'
    BY <1>2 DEF Stop, StoppedHasNoDate, RenewalTypeOK
  <2> QED BY <2>1, <2>2, <2>4, <2>5
<1> QED BY <1>1, <1>2

(* A run lists what is due: the date of each has come.                       *)
LEMMA ListTyped ==
    ASSUME RenewalTyped, NEW r \in Runs, ListDue(r)
    PROVE  RenewalTyped'
<1> USE RenewalAssumption DEF RenewalAssumption, RenewalTyped
<1>1. RenewalTypeOK'
  BY DEF ListDue, RenewalTypeOK
<1>2. Unstarted'
  BY DEF ListDue, Unstarted, Due, RenewalTypeOK
<1>3. DatesAreNear'
  <2> SUFFICES ASSUME NEW u \in Subscriptions, next'[u] # None
               PROVE  next'[u] <= now' + Cardinality(NotListedBy(u)')
    BY DEF DatesAreNear
  <2>1. next' = next /\ now' = now /\ now \in Nat /\ next[u] \in Nat
    BY ListedCount DEF ListDue, RenewalTypeOK, LastStart
  <2>2. CASE Due(u)
    <3>1. NotListedBy(u)' \subseteq Runs
      BY DEF NotListedBy
    <3>2. Cardinality(NotListedBy(u)') \in Nat
      BY <3>1, FS_Subset, FS_CardinalityType
    <3>3. next[u] <= now
      BY <2>2 DEF Due
    <3> QED BY <2>1, <3>2, <3>3
  <2>3. CASE ~ Due(u)
    <3>1. NotListedBy(u)' = NotListedBy(u)
      BY <2>3 DEF NotListedBy, ListDue, RenewalTypeOK
    <3> QED BY <2>1, <3>1 DEF DatesAreNear
  <2> QED BY <2>2, <2>3
<1>4. StoppedHasNoDate'
  BY DEF ListDue, StoppedHasNoDate
<1> QED BY <1>1, <1>2, <1>3, <1>4

(* A run opens a cycle: it listed the subscription, and now no longer does,  *)
(* so there is room for one more period before the bound.                    *)
LEMMA ClaimTyped ==
    ASSUME RenewalTyped, NEW r \in Runs, NEW s \in Subscriptions, Claim(r, s)
    PROVE  RenewalTyped' /\ NextCycle(s) \in Cycles
<1> USE RenewalAssumption DEF RenewalAssumption, RenewalTyped
<1>1. NotListedBy(s)' = NotListedBy(s) \cup {r} /\ r \notin NotListedBy(s)
  BY DEF Claim, NotListedBy, RenewalTypeOK
<1>2. Cardinality(NotListedBy(s)') = Cardinality(NotListedBy(s)) + 1
  BY <1>1, ListedCount, FS_AddElement
<1>3. Cardinality(NotListedBy(s)) < Cardinality(Runs)
  <2>1. NotListedBy(s)' \subseteq Runs
    BY DEF NotListedBy
  <2>2. Cardinality(NotListedBy(s)') <= Cardinality(Runs)
    BY <2>1, FS_Subset
  <2> QED BY <2>2, <1>2, ListedCount
<1>4. next[s] # None /\ next[s] \in Nat /\ next[s] <= now + Cardinality(NotListedBy(s))
  BY ListedCount DEF Claim, Openable, DatesAreNear, RenewalTypeOK, LastStart
<1>5. next[s] \in 0..LastStart /\ next[s] + 1 \in 0..LastStart + 1
  <2>1. now \in Nat /\ now <= MaxTime /\ MaxTime \in Nat
    BY DEF RenewalTypeOK
  <2> DEFINE a == Cardinality(NotListedBy(s))
             b == Cardinality(Runs)
  <2>2. a \in Nat /\ b \in Nat /\ a < b /\ next[s] <= now + a
    BY <1>3, <1>4, ListedCount
  <2>3. LastStart = MaxTime + b
    BY DEF LastStart
  <2> HIDE DEF a, b
  <2> QED BY <1>4, <2>1, <2>2, <2>3
<1>6. NextCycle(s) \in Cycles
  BY <1>5, CycleFacts DEF NextCycle, RenewalTypeOK
<1>7. RenewalTypeOK'
  <2>1. At("opened", NextCycle(s)) \in [at : Stages, cycle : Cycles \cup {None}, count : Nat]
    BY <1>6 DEF At, Stages
  <2> QED BY <1>5, <1>6, <2>1 DEF Claim, RenewalTypeOK, CycleStatuses
<1>8. Unstarted'
  <2>1. boughtBy[s] # None
    BY <1>4 DEF Unstarted
  <2> QED BY <2>1, <1>6, CycleFacts DEF Claim, Unstarted, RenewalTypeOK
<1>9. DatesAreNear'
  <2> SUFFICES ASSUME NEW u \in Subscriptions, next'[u] # None
               PROVE  next'[u] <= now' + Cardinality(NotListedBy(u)')
    BY DEF DatesAreNear
  <2>1. CASE u = s
    <3>1. next'[u] = next[s] + 1 /\ now' = now /\ now \in Nat
      BY <2>1 DEF Claim, RenewalTypeOK
    <3> QED BY <2>1, <3>1, <1>2, <1>4, ListedCount
  <2>2. CASE u # s
    <3>1. NotListedBy(u)' = NotListedBy(u)
      BY <2>2 DEF Claim, NotListedBy, RenewalTypeOK
    <3> QED BY <2>2, <3>1 DEF Claim, DatesAreNear, RenewalTypeOK
  <2> QED BY <2>1, <2>2
<1>10. StoppedHasNoDate'
  BY <1>4 DEF Claim, StoppedHasNoDate, RenewalTypeOK
<1> QED BY <1>6, <1>7, <1>8, <1>9, <1>10

(* Everything else a run does leaves the dates where they are.               *)
LEMMA RunTyped ==
    ASSUME RenewalTyped, NEW r \in Runs,
           run[r].at # "idle" => run[r].cycle \in Cycles /\ cycle[run[r].cycle] = "pending",
           \/ \E s \in Subscriptions : Skip(r, s)
           \/ ChargeRenewal(r) \/ SettleCharged(r)
           \/ CountFailures(r) \/ SettleFailed(r) \/ Crash(r)
    PROVE  RenewalTyped'
<1> USE RenewalAssumption DEF RenewalAssumption, RenewalTyped
<1> DEFINE Records == [at : Stages, cycle : Cycles \cup {None}, count : Nat]
<1>0. Rest \in Records
  BY DEF Rest, Stages
<1>r. \A q \in Runs : run[q] \in Records
  BY DEF RenewalTypeOK
<1>1. RenewalTypeOK'
  <2>1. CASE \E s \in Subscriptions : Skip(r, s)
    BY <2>1 DEF Skip, RenewalTypeOK
  <2>6. CASE Crash(r)
    BY <2>6, <1>0 DEF Crash, RenewalTypeOK
  <2>2. CASE ChargeRenewal(r)
    <3>1. PICK made \in {0, 1}, to \in {"charged", "failed"} :
            /\ charges' = [charges EXCEPT ![run[r].cycle] = @ + made]
            /\ run' = [run EXCEPT ![r] = At(to, run[r].cycle)]
      BY <2>2 DEF ChargeRenewal
    <3>2. At(to, run[r].cycle) \in Records
      BY <2>2 DEF ChargeRenewal, At, Stages
    <3>3. charges' \in [Cycles -> Nat]
      BY <2>2, <3>1 DEF ChargeRenewal, RenewalTypeOK
    <3> QED BY <2>2, <3>1, <3>2, <3>3 DEF ChargeRenewal, RenewalTypeOK
  <2>3. CASE SettleCharged(r)
    <3>1. run[r].cycle \in Cycles /\ run[r].cycle[1] \in Subscriptions
      BY <2>3, CycleFacts DEF SettleCharged
    <3> QED BY <2>3, <3>1, <1>0 DEF SettleCharged, RenewalTypeOK, CycleStatuses, Statuses
  <2>4. CASE CountFailures(r)
    <3>1. run[r].cycle \in Cycles /\ run[r].cycle[1] \in Subscriptions
      BY <2>4, CycleFacts DEF CountFailures
    <3>2. [at |-> "counted", cycle |-> run[r].cycle, count |-> attempts[run[r].cycle[1]]] \in Records
      BY <3>1 DEF RenewalTypeOK, Stages
    <3> QED BY <2>4, <3>2 DEF CountFailures, RenewalTypeOK
  <2>5. CASE SettleFailed(r)
    <3>1. run[r].cycle \in Cycles /\ run[r].cycle[1] \in Subscriptions
      BY <2>5, CycleFacts DEF SettleFailed
    <3>2. run[r].count + 1 \in Nat
      BY <1>r
    <3> QED BY <2>5, <3>1, <3>2, <1>0 DEF SettleFailed, RenewalTypeOK, CycleStatuses, Statuses
  <2> QED BY <2>1, <2>2, <2>3, <2>4, <2>5, <2>6
<1>2. Unstarted'
  <2>1. CASE (\E s \in Subscriptions : Skip(r, s)) \/ Crash(r)
    BY <2>1 DEF Skip, Crash, Unstarted, RenewalTypeOK
  <2>2. CASE ChargeRenewal(r) \/ CountFailures(r)
    BY <2>2 DEF ChargeRenewal, CountFailures, Unstarted
  <2>3. CASE SettleCharged(r) \/ SettleFailed(r)
    <3>1. run[r].cycle \in Cycles /\ cycle[run[r].cycle] = "pending"
      BY <2>3 DEF SettleCharged, SettleFailed
    <3>2. boughtBy[run[r].cycle[1]] # None
      BY <3>1, CycleFacts DEF Unstarted
    <3> QED BY <2>3, <3>2 DEF SettleCharged, SettleFailed, Unstarted, RenewalTypeOK
  <2> QED BY <2>1, <2>2, <2>3
<1>3. /\ now' >= now /\ next' = next /\ boughtBy' = boughtBy /\ stopped' = stopped
      /\ \A q \in Runs : todo'[q] \subseteq todo[q]
  BY DEF Skip, ChargeRenewal, SettleCharged, CountFailures, SettleFailed, Crash, RenewalTypeOK
<1>4. \A u \in Subscriptions : next'[u] # None => next[u] # None /\ next'[u] <= next[u]
  BY <1>3, ListedCount DEF RenewalTypeOK, LastStart
<1>5. DatesAreNear'
  BY <1>1, <1>3, <1>4, DatesStayNear
<1>6. StoppedHasNoDate'
  BY <1>3 DEF StoppedHasNoDate
<1> QED BY <1>1, <1>2, <1>5, <1>6

(* A step that leaves the rows, their dates and their cycles alone.          *)
LEMMA StillTyped ==
    ASSUME RenewalTyped, UNCHANGED renewalVars
    PROVE  RenewalTyped'
  BY DEF RenewalTyped, renewalVars, RenewalTypeOK, Unstarted, DatesAreNear, NotListedBy,
         StoppedHasNoDate

(* The clock moves away from the dates.                                    *)
LEMMA TickTyped ==
    ASSUME RenewalTyped, Tick
    PROVE  RenewalTyped'
<1> USE RenewalAssumption DEF RenewalAssumption, RenewalTyped
<1>1. RenewalTypeOK'
  BY DEF Tick, RenewalTypeOK
<1>2. Unstarted' /\ StoppedHasNoDate'
  BY DEF Tick, Unstarted, StoppedHasNoDate
<1>3. /\ now' >= now
      /\ \A u \in Subscriptions : next'[u] # None => next[u] # None /\ next'[u] <= next[u]
      /\ \A q \in Runs : todo'[q] \subseteq todo[q]
  BY ListedCount DEF Tick, RenewalTypeOK, LastStart
<1> QED BY <1>1, <1>2, <1>3, DatesStayNear

(* A card is saved.                                                        *)
LEMMA AttachTyped ==
    ASSUME RenewalTyped, NEW k \in Purchases, Attach(k)
    PROVE  RenewalTyped'
<1>1. RenewalTypeOK'
  BY DEF Attach, RenewalTyped, RenewalTypeOK
<1>2. UNCHANGED <<now, boughtBy, status, next, cycle, stopped, todo>>
  BY DEF Attach
<1> QED BY <1>1, <1>2 DEF RenewalTyped, Unstarted, DatesAreNear, NotListedBy, StoppedHasNoDate

(* A run that does something does it for a cycle nobody settled, and no two  *)
(* runs do it for one cycle; no charge is made before the cycle is opened,   *)
(* nor before the run that opened it asks for one.                           *)
OwnsPending(r) ==
    run[r].at # "idle" => run[r].cycle \in Cycles /\ cycle[run[r].cycle] = "pending"
RunsApart ==
    \A r, q \in Runs :
        r # q /\ run[r].at # "idle" /\ run[q].at # "idle" => run[r].cycle # run[q].cycle
ChargeFollowsOpening ==
    /\ \A c \in Cycles : cycle[c] = "none" => charges[c] = 0
    /\ \A r \in Runs : run[r].at = "opened" => charges[run[r].cycle] = 0

OwnInv ==
    /\ \A r \in Runs : OwnsPending(r)
    /\ RunsApart
    /\ ChargeFollowsOpening
    /\ ChargedOncePerCycle

(* A subscription has at least as many failed cycles as it has counted, or   *)
(* as a run is about to count.                                               *)
FailuresAreCounted ==
    /\ \A s \in Subscriptions : IsFiniteSet(FailedCycles(s))
    /\ \A s \in Subscriptions : attempts[s] <= Cardinality(FailedCycles(s))
    /\ \A r \in Runs : run[r].at = "counted" =>
           run[r].count <= Cardinality(FailedCycles(run[r].cycle[1]))

RenewalInv == RenewalTyped /\ OwnInv /\ FailuresAreCounted /\ EndedOnFailures

(* The clock, purchases, cards, resumptions, stops, listings and skips touch *)
(* no cycle a run works on.                                                  *)
LEMMA OthersOwn ==
    ASSUME RenewalTyped, OwnInv, RenewalTyped',
           \/ Tick
           \/ \E k \in Purchases : Buy(k) \/ Attach(k)
           \/ \E s \in Subscriptions :
                Resume(s) \/ \E to \in {"paused", "cancelled"} : Stop(s, to)
           \/ \E r \in Runs : ListDue(r) \/ \E s \in Subscriptions : Skip(r, s)
    PROVE  OwnInv'
<1>1. run' = run /\ charges' = charges
  BY DEF Tick, Buy, Attach, Resume, Stop, ListDue, Skip
<1>2. \A c \in Cycles : cycle[c] # "none" => cycle'[c] = cycle[c]
  <2>1. CASE \E k \in Purchases : Buy(k)
    <3>1. PICK s \in Subscriptions :
            boughtBy[s] = None /\ cycle' = [cycle EXCEPT ![<<s, 0, now>>] = "charged"]
      BY <2>1 DEF Buy
    <3>2. now \in 0..LastStart /\ 0 \in 0..MaxResumes
      BY ListedCount, RenewalAssumption
         DEF RenewalTyped, RenewalTypeOK, LastStart, RenewalAssumption
    <3>3. <<s, 0, now>> \in Cycles /\ <<s, 0, now>>[1] = s
      BY <3>2, CycleFacts
    <3>4. cycle[<<s, 0, now>>] = "none"
      BY <3>1, <3>3 DEF RenewalTyped, Unstarted
    <3> QED BY <3>1, <3>3, <3>4 DEF RenewalTyped, RenewalTypeOK
  <2>2. CASE ~ \E k \in Purchases : Buy(k)
    BY <2>2 DEF Tick, Attach, Resume, Stop, ListDue, Skip
  <2> QED BY <2>1, <2>2
<1>3. \A r \in Runs : OwnsPending(r)'
  BY <1>1, <1>2 DEF OwnInv, OwnsPending
<1>4. RunsApart'
  BY <1>1 DEF OwnInv, RunsApart
<1>5. ChargeFollowsOpening'
  <2>1. \A c \in Cycles : cycle'[c] = "none" => cycle[c] = "none"
    BY <1>2
  <2> QED BY <1>1, <2>1 DEF OwnInv, ChargeFollowsOpening
<1>6. ChargedOncePerCycle'
  BY <1>1 DEF OwnInv, ChargedOncePerCycle
<1> QED BY <1>3, <1>4, <1>5, <1>6 DEF OwnInv

(* The cycle a run opens was nobody's.                                       *)
LEMMA ClaimOwn ==
    ASSUME RenewalTyped, OwnInv, NEW r \in Runs, NEW s \in Subscriptions, Claim(r, s)
    PROVE  OwnInv'
<1> USE DEF RenewalTyped, RenewalTypeOK
<1>1. NextCycle(s) \in Cycles /\ cycle[NextCycle(s)] = "none"
  BY ClaimTyped DEF Claim, Openable
<1> DEFINE c == NextCycle(s)
<1>2. /\ run' = [run EXCEPT ![r] = At("opened", c)]
      /\ cycle' = [cycle EXCEPT ![c] = "pending"]
      /\ charges' = charges
  BY DEF Claim
<1>3. At("opened", c).at = "opened" /\ At("opened", c).cycle = c
  BY DEF At
<1> HIDE DEF c
<1>4. \A q \in Runs : q # r => run'[q] = run[q]
  BY <1>2
<1>5. run'[r] = At("opened", c)
  BY <1>2
<1>6. \A q \in Runs : run[q].at # "idle" => run[q].cycle \in Cycles /\ run[q].cycle # c
  BY <1>1 DEF OwnInv, OwnsPending, c
<1>7. \A q \in Runs : OwnsPending(q)'
  BY <1>1, <1>2, <1>3, <1>4, <1>5, <1>6 DEF OwnInv, OwnsPending, c
<1>8. RunsApart'
  BY <1>3, <1>4, <1>5, <1>6 DEF OwnInv, RunsApart
<1>9. ChargeFollowsOpening'
  BY <1>1, <1>2, <1>3, <1>4, <1>5 DEF OwnInv, ChargeFollowsOpening, c
<1> QED BY <1>2, <1>7, <1>8, <1>9 DEF OwnInv, ChargedOncePerCycle

(* The run that opened a cycle is the one that charges it, once.             *)
LEMMA ChargeOwn ==
    ASSUME RenewalTyped, OwnInv, NEW r \in Runs, ChargeRenewal(r)
    PROVE  OwnInv'
<1> USE DEF RenewalTyped, RenewalTypeOK
<1> DEFINE c == run[r].cycle
<1>1. PICK made \in {0, 1}, to \in {"charged", "failed"} :
        /\ charges' = [charges EXCEPT ![c] = @ + made]
        /\ run' = [run EXCEPT ![r] = At(to, c)]
  BY DEF ChargeRenewal
<1>2. run[r].at = "opened" /\ cycle' = cycle
  BY DEF ChargeRenewal
<1>3. c \in Cycles /\ cycle[c] = "pending" /\ charges[c] = 0
  BY <1>2 DEF OwnInv, OwnsPending, ChargeFollowsOpening
<1>4. At(to, c).at = to /\ At(to, c).cycle = c
  BY DEF At
<1>5. /\ run'[r].at = to /\ run'[r].cycle = c
      /\ \A q \in Runs : q # r => run'[q] = run[q]
  BY <1>1, <1>4
<1>6. \A q \in Runs : q # r /\ run[q].at # "idle" => run[q].cycle # c
  BY <1>2 DEF OwnInv, RunsApart
<1> HIDE DEF c
<1>7. \A d \in Cycles : d # c => charges'[d] = charges[d]
  BY <1>1
<1>8. charges'[c] <= 1
  BY <1>1, <1>3
<1>9. \A q \in Runs : OwnsPending(q)'
  BY <1>2, <1>3, <1>5 DEF OwnInv, OwnsPending
<1>10. RunsApart'
  BY <1>5, <1>6 DEF OwnInv, RunsApart
<1>11. ChargeFollowsOpening'
  <2>1. \A q \in Runs : run'[q].at = "opened" => q # r /\ run[q].at = "opened"
    BY <1>5
  <2>2. \A q \in Runs : run[q].at = "opened" => run[q].cycle \in Cycles
    BY DEF OwnInv, OwnsPending
  <2> QED BY <1>2, <1>3, <1>5, <1>6, <1>7, <2>1, <2>2 DEF OwnInv, ChargeFollowsOpening
<1>12. ChargedOncePerCycle'
  BY <1>7, <1>8 DEF OwnInv, ChargedOncePerCycle
<1> QED BY <1>9, <1>10, <1>11, <1>12 DEF OwnInv

(* A run that settles its cycle, counts its failures, or dies lets go of the *)
(* cycle or keeps it, and takes no other.                                    *)
LEMMA SettleOwn ==
    ASSUME RenewalTyped, OwnInv, NEW r \in Runs,
           SettleCharged(r) \/ CountFailures(r) \/ SettleFailed(r) \/ Crash(r)
    PROVE  OwnInv'
<1> USE DEF RenewalTyped, RenewalTypeOK
<1> DEFINE c == run[r].cycle
<1>1. charges' = charges
  BY DEF SettleCharged, CountFailures, SettleFailed, Crash
<1>2. /\ \A q \in Runs : q # r => run'[q] = run[q]
      /\ run'[r].at = "idle" \/ (run'[r].at = "counted" /\ run[r].at = "failed" /\ run'[r].cycle = c)
  BY DEF SettleCharged, CountFailures, SettleFailed, Crash, Rest
<1>3. \/ cycle' = cycle
      \/ /\ run[r].at # "idle" /\ run'[r].at = "idle"
         /\ \E to \in {"charged", "failed"} : cycle' = [cycle EXCEPT ![c] = to]
  BY DEF SettleCharged, CountFailures, SettleFailed, Crash, Rest
<1>4. \A q \in Runs : run'[q].at # "idle" => run[q].at # "idle" /\ run'[q].cycle = run[q].cycle
  BY <1>2
<1>5. run[r].at # "idle" => /\ c \in Cycles /\ cycle[c] = "pending"
                            /\ \A q \in Runs : q # r /\ run[q].at # "idle" => run[q].cycle # c
  BY DEF OwnInv, OwnsPending, RunsApart
<1> HIDE DEF c
<1>6. \A d \in Cycles : d # c => cycle'[d] = cycle[d]
  BY <1>3, <1>5
<1>7. \A d \in Cycles : cycle'[d] = "none" => cycle[d] = "none"
  BY <1>3, <1>5
<1>8. \A q \in Runs : OwnsPending(q)'
  <2> SUFFICES ASSUME NEW q \in Runs, run'[q].at # "idle"
               PROVE  run'[q].cycle \in Cycles /\ cycle'[run'[q].cycle] = "pending"
    BY DEF OwnsPending
  <2>1. run[q].at # "idle" /\ run'[q].cycle = run[q].cycle
    BY <1>4
  <2>2. run[q].cycle \in Cycles /\ cycle[run[q].cycle] = "pending"
    BY <2>1 DEF OwnInv, OwnsPending
  <2>3. CASE cycle' = cycle
    BY <2>1, <2>2, <2>3
  <2>4. CASE run[r].at # "idle" /\ run'[r].at = "idle"
    BY <2>1, <2>2, <2>4, <1>5, <1>6
  <2> QED BY <1>3, <2>3, <2>4
<1>9. RunsApart'
  BY <1>4 DEF OwnInv, RunsApart
<1>10. ChargeFollowsOpening'
  <2>1. \A q \in Runs : run'[q].at = "opened" => run[q].at = "opened" /\ run'[q].cycle = run[q].cycle
    BY <1>2
  <2> QED BY <1>1, <1>7, <2>1 DEF OwnInv, ChargeFollowsOpening
<1> QED BY <1>1, <1>8, <1>9, <1>10 DEF OwnInv, ChargedOncePerCycle

(* Nothing that failed is settled anew: failed cycles only become more.      *)
LEMMA FailedGrows ==
    ASSUME FailuresAreCounted, NEW s \in Subscriptions,
           \A c \in Cycles : cycle[c] = "failed" => cycle'[c] = "failed",
           IsFiniteSet(FailedCycles(s)')
    PROVE  /\ Cardinality(FailedCycles(s)) \in Nat /\ Cardinality(FailedCycles(s)') \in Nat
           /\ Cardinality(FailedCycles(s)) <= Cardinality(FailedCycles(s)')
<1>1. FailedCycles(s) \subseteq FailedCycles(s)'
  BY DEF FailedCycles
<1>2. IsFiniteSet(FailedCycles(s))
  BY DEF FailuresAreCounted
<1> QED BY <1>1, <1>2, FS_Subset, FS_CardinalityType

(* Steps after which the same cycles have failed, the counts are what they   *)
(* were or none, and no subscription has been ended by a run.                *)
LEMMA NoFailure ==
    ASSUME RenewalInv,
           \A c \in Cycles : cycle'[c] = "failed" <=> cycle[c] = "failed",
           \A s \in Subscriptions : attempts'[s] = attempts[s] \/ attempts'[s] = 0,
           \A r \in Runs : run'[r].at = "counted" =>
               \/ run[r].at = "counted" /\ run'[r] = run[r]
               \/ /\ run[r].at = "failed"
                  /\ run'[r].cycle = run[r].cycle
                  /\ run'[r].count = attempts[run[r].cycle[1]],
           \A s \in Subscriptions : status'[s] = "cancelled" /\ s \notin stopped' =>
               status[s] = "cancelled" /\ s \notin stopped
    PROVE  FailuresAreCounted' /\ EndedOnFailures'
<1>1. \A s : FailedCycles(s)' = FailedCycles(s)
  BY DEF FailedCycles
<1>2. \A s \in Subscriptions : IsFiniteSet(FailedCycles(s)) /\ Cardinality(FailedCycles(s)) \in Nat
  BY FS_CardinalityType DEF RenewalInv, FailuresAreCounted
<1>3. \A s \in Subscriptions : attempts'[s] <= Cardinality(FailedCycles(s)')
  BY <1>1, <1>2 DEF RenewalInv, FailuresAreCounted
<1>4. ASSUME NEW r \in Runs, run'[r].at = "counted"
      PROVE  (run[r].count <= Cardinality(FailedCycles(run[r].cycle[1])))'
  <2>s. PICK s : s = run[r].cycle[1]
    OBVIOUS
  <2>p. ASSUME run'[r].cycle = run[r].cycle
        PROVE  FailedCycles(run[r].cycle[1])' = FailedCycles(s)
    BY <2>p, <2>s, <1>1 DEF FailedCycles
  <2>1. CASE run[r].at = "counted" /\ run'[r] = run[r]
    BY <2>1, <2>p, <2>s DEF RenewalInv, FailuresAreCounted
  <2>2. CASE /\ run[r].at = "failed"
             /\ run'[r].cycle = run[r].cycle
             /\ run'[r].count = attempts[run[r].cycle[1]]
    <3>1. run[r].cycle[1] \in Subscriptions
      BY <2>2, CycleFacts DEF RenewalInv, OwnInv, OwnsPending
    <3> QED BY <2>2, <2>p, <2>s, <3>1 DEF RenewalInv, FailuresAreCounted
  <2> QED BY <1>4, <2>1, <2>2
<1>5. FailuresAreCounted'
  BY <1>1, <1>2, <1>3, <1>4 DEF FailuresAreCounted
<1>6. EndedOnFailures'
  BY <1>1 DEF RenewalInv, EndedOnFailures
<1> QED BY <1>5, <1>6

(* A cycle that fails is one more failed cycle, so the count that was read   *)
(* before, however old, is smaller than the number of them.                  *)
LEMMA SettleFailedCounts ==
    ASSUME RenewalInv, NEW r \in Runs, SettleFailed(r)
    PROVE  FailuresAreCounted' /\ EndedOnFailures'
<1> USE DEF RenewalInv, RenewalTyped
<1>c. PICK c : c = run[r].cycle
  OBVIOUS
<1>s. PICK s : s = c[1]
  OBVIOUS
<1> DEFINE failed == run[r].count + 1
<1>1. c \in Cycles /\ cycle[c] = "pending" /\ s \in Subscriptions
  BY <1>c, <1>s, CycleFacts DEF SettleFailed, OwnInv, OwnsPending
<1>2. /\ cycle' = [cycle EXCEPT ![c] = "failed"]
      /\ attempts' = [attempts EXCEPT ![s] = failed]
      /\ status' = [status EXCEPT ![s] = IF Ends(failed) THEN "cancelled" ELSE "past_due"]
      /\ run' = [run EXCEPT ![r] = Rest]
      /\ stopped' = stopped
  BY <1>c, <1>s DEF SettleFailed
<1>3. run[r].count <= Cardinality(FailedCycles(s)) /\ run[r].count \in Nat
  BY <1>c, <1>s DEF SettleFailed, FailuresAreCounted, RenewalTypeOK
<1>t. cycle \in [Cycles -> CycleStatuses] /\ attempts \in [Subscriptions -> Nat]
      /\ status \in [Subscriptions -> Statuses]
  BY DEF RenewalTypeOK
<1>f. \A u \in Subscriptions : IsFiniteSet(FailedCycles(u)) /\ Cardinality(FailedCycles(u)) \in Nat
  BY FS_CardinalityType DEF FailuresAreCounted
<1>4. FailedCycles(s)' = FailedCycles(s) \cup {c} /\ c \notin FailedCycles(s)
  BY <1>1, <1>s, <1>2, <1>t DEF FailedCycles
<1>5. IsFiniteSet(FailedCycles(s)') /\ Cardinality(FailedCycles(s)') = Cardinality(FailedCycles(s)) + 1
  BY <1>1, <1>4, <1>f, FS_AddElement
<1>6. \A u \in Subscriptions : u # s => FailedCycles(u)' = FailedCycles(u)
  BY <1>1, <1>s, <1>2, <1>t DEF FailedCycles
<1>7. \A u \in Subscriptions :
        IsFiniteSet(FailedCycles(u)') /\ Cardinality(FailedCycles(u)') >= Cardinality(FailedCycles(u))
  BY <1>5, <1>6, <1>f, <1>1
<1>8. failed \in Nat /\ failed <= Cardinality(FailedCycles(s)')
  BY <1>1, <1>3, <1>5, <1>f
<1>9. \A u \in Subscriptions : attempts'[u] <= Cardinality(FailedCycles(u)')
  BY <1>1, <1>2, <1>t, <1>6, <1>8 DEF FailuresAreCounted
<1>10. ASSUME NEW q \in Runs, run'[q].at = "counted"
       PROVE  (run[q].count <= Cardinality(FailedCycles(run[q].cycle[1])))'
  <2>1. q # r /\ run'[q] = run[q]
    BY <1>10, <1>2 DEF Rest, RenewalTypeOK
  <2>u. PICK u : u = run[q].cycle[1]
    OBVIOUS
  <2>2. u \in Subscriptions /\ run[q].count \in Nat
    BY <1>10, <2>1, <2>u, CycleFacts DEF OwnInv, OwnsPending, RenewalTypeOK
  <2>3. run[q].count <= Cardinality(FailedCycles(u))
    BY <1>10, <2>1, <2>u DEF FailuresAreCounted
  <2>4. Cardinality(FailedCycles(u)') >= Cardinality(FailedCycles(u))
        /\ Cardinality(FailedCycles(u)') \in Nat /\ Cardinality(FailedCycles(u)) \in Nat
    BY <2>2, <1>7, <1>f, FS_CardinalityType
  <2>5. run[q].count <= Cardinality(FailedCycles(u)')
    BY <2>2, <2>3, <2>4
  <2>6. FailedCycles(run[q].cycle[1])' = FailedCycles(u)'
    BY <2>1, <2>u DEF FailedCycles
  <2> QED BY <2>1, <2>5, <2>6
<1>11. FailuresAreCounted'
  BY <1>7, <1>9, <1>10 DEF FailuresAreCounted
<1>12. EndedOnFailures'
  <2> SUFFICES ASSUME NEW u \in Subscriptions, status'[u] = "cancelled", u \notin stopped'
               PROVE  Cardinality(FailedCycles(u)') >= MaxFailed
    BY DEF EndedOnFailures
  <2>m. MaxFailed \in Nat
    BY RenewalAssumption DEF RenewalAssumption
  <2>1. CASE u = s
    <3>1. Ends(failed)
      BY <2>1, <1>1, <1>2, <1>t
    <3>2. failed >= MaxFailed
      BY <3>1 DEF Ends
    <3>3. Cardinality(FailedCycles(s)') \in Nat
      BY <1>1, <1>5, FS_CardinalityType
    <3> HIDE DEF failed
    <3> QED BY <2>1, <2>m, <3>2, <3>3, <1>8
  <2>2. CASE u # s
    <3>1. status[u] = "cancelled" /\ u \notin stopped
      BY <2>2, <1>2, <1>t
    <3>2. Cardinality(FailedCycles(u)) >= MaxFailed
      BY <3>1 DEF EndedOnFailures
    <3> QED BY <2>2, <3>2, <1>6
  <2> QED BY <2>1, <2>2
<1> QED BY <1>11, <1>12

(* No run owns a cycle and none has failed.                                *)
LEMMA RenewalInvStart == RenewalInit => RenewalInv
<1> SUFFICES ASSUME RenewalInit PROVE RenewalInv
  OBVIOUS
<1>1. OwnInv
  BY DEF RenewalInit, OwnInv, OwnsPending, RunsApart, ChargeFollowsOpening,
         ChargedOncePerCycle, Rest
<1>2. \A s \in Subscriptions : FailedCycles(s) = {}
  BY DEF RenewalInit, FailedCycles
<1>3. IsFiniteSet({}) /\ Cardinality({}) = 0
  BY FS_EmptySet
<1>4. FailuresAreCounted
  <2>1. \A s \in Subscriptions : attempts[s] = 0
    BY DEF RenewalInit
  <2>2. \A r \in Runs : run[r].at # "counted"
    BY DEF RenewalInit, Rest
  <2>3. ASSUME NEW s \in Subscriptions
        PROVE  IsFiniteSet(FailedCycles(s)) /\ attempts[s] <= Cardinality(FailedCycles(s))
    <3>1. FailedCycles(s) = {} /\ attempts[s] = 0
      BY <1>2, <2>1
    <3>2. Cardinality(FailedCycles(s)) = 0
      BY <3>1, <1>3
    <3> QED BY <3>1, <3>2, <1>3
  <2> QED BY <2>2, <2>3 DEF FailuresAreCounted
<1>5. EndedOnFailures
  BY DEF RenewalInit, EndedOnFailures
<1> QED BY <1>1, <1>4, <1>5, RenewalStart DEF RenewalInv

(* One step, whoever takes it.                                               *)
LEMMA RenewalStep == RenewalInv /\ [RenewalNext]_renewalVars => RenewalInv'
<1> SUFFICES ASSUME RenewalInv, [RenewalNext]_renewalVars PROVE RenewalInv'
  OBVIOUS
<1>i. RenewalTyped /\ OwnInv /\ FailuresAreCounted /\ EndedOnFailures
  BY DEF RenewalInv
<1>o. \A r \in Runs :
        run[r].at # "idle" => run[r].cycle \in Cycles /\ cycle[run[r].cycle] = "pending"
  BY <1>i DEF OwnInv, OwnsPending
<1>t. /\ cycle \in [Cycles -> CycleStatuses] /\ status \in [Subscriptions -> Statuses]
      /\ run \in [Runs -> [at : Stages, cycle : Cycles \cup {None}, count : Nat]]
      /\ attempts \in [Subscriptions -> Nat]
  BY <1>i DEF RenewalTyped, RenewalTypeOK
<1>1. ASSUME NEW k \in Purchases, Buy(k)
      PROVE  RenewalInv'
  <2>1. RenewalTyped'
    BY <1>i, <1>1, BuyTyped
  <2>2. OwnInv'
    BY <1>i, <1>1, <2>1, OthersOwn
  <2>3. PICK s \in Subscriptions :
          /\ boughtBy[s] = None
          /\ status' = [status EXCEPT ![s] = "active"]
          /\ cycle' = [cycle EXCEPT ![<<s, 0, now>>] = "charged"]
          /\ UNCHANGED <<attempts, stopped, run>>
    BY <1>1 DEF Buy
  <2>4. now \in 0..LastStart /\ 0 \in 0..MaxResumes
    BY <1>i, ListedCount, RenewalAssumption
       DEF RenewalTyped, RenewalTypeOK, LastStart, RenewalAssumption
  <2>5. <<s, 0, now>> \in Cycles /\ cycle[<<s, 0, now>>] = "none"
    BY <1>i, <2>3, <2>4, CycleFacts DEF RenewalTyped, Unstarted
  <2>6. \A c \in Cycles : cycle'[c] = "failed" <=> cycle[c] = "failed"
    BY <2>3, <2>5, <1>t
  <2>7. FailuresAreCounted' /\ EndedOnFailures'
    BY <1>t, <2>3, <2>6, NoFailure
  <2> QED BY <2>1, <2>2, <2>7 DEF RenewalInv
<1>2. ASSUME NEW s \in Subscriptions,
             Resume(s) \/ \E to \in {"paused", "cancelled"} : Stop(s, to)
      PROVE  RenewalInv'
  <2>1. RenewalTyped'
    BY <1>i, <1>2, HandTyped
  <2>2. OwnInv'
    BY <1>i, <1>2, <2>1, OthersOwn
  <2>3. /\ UNCHANGED <<cycle, attempts, run>>
        /\ \A u \in Subscriptions : status'[u] = "cancelled" /\ u \notin stopped' =>
               status[u] = "cancelled" /\ u \notin stopped
    BY <1>2, <1>t DEF Resume, Stop
  <2>4. FailuresAreCounted' /\ EndedOnFailures'
    BY <2>3, NoFailure
  <2> QED BY <2>1, <2>2, <2>4 DEF RenewalInv
<1>3. ASSUME \/ Tick
             \/ \E k \in Purchases : Attach(k)
             \/ \E r \in Runs : ListDue(r) \/ \E s \in Subscriptions : Skip(r, s)
      PROVE  RenewalInv'
  <2>1. RenewalTyped'
    <3>1. CASE \E r \in Runs : ListDue(r)
      BY <1>i, <3>1, ListTyped
    <3>2. CASE \E r \in Runs : \E s \in Subscriptions : Skip(r, s)
      BY <1>i, <1>o, <3>2, RunTyped
    <3>3. CASE Tick
      BY <1>i, <3>3, TickTyped
    <3>4. CASE \E k \in Purchases : Attach(k)
      BY <1>i, <3>4, AttachTyped
    <3> QED BY <1>3, <3>1, <3>2, <3>3, <3>4
  <2>2. OwnInv'
    BY <1>i, <1>3, <2>1, OthersOwn
  <2>3. UNCHANGED <<cycle, attempts, run, status, stopped>>
    BY <1>3 DEF Tick, Attach, ListDue, Skip
  <2>4. FailuresAreCounted' /\ EndedOnFailures'
    BY <2>3, NoFailure
  <2> QED BY <2>1, <2>2, <2>4 DEF RenewalInv
<1>4. ASSUME NEW r \in Runs, NEW s \in Subscriptions, Claim(r, s)
      PROVE  RenewalInv'
  <2>1. RenewalTyped' /\ NextCycle(s) \in Cycles
    BY <1>i, <1>4, ClaimTyped
  <2>2. OwnInv'
    BY <1>i, <1>4, ClaimOwn
  <2>3. \A c \in Cycles : cycle'[c] = "failed" <=> cycle[c] = "failed"
    BY <1>4, <1>t, <2>1 DEF Claim, Openable
  <2>4. /\ UNCHANGED <<attempts, status, stopped>>
        /\ \A q \in Runs : run'[q].at = "counted" => run[q].at = "counted" /\ run'[q] = run[q]
    BY <1>4, <1>t DEF Claim, At
  <2>5. FailuresAreCounted' /\ EndedOnFailures'
    BY <2>3, <2>4, NoFailure
  <2> QED BY <2>1, <2>2, <2>5 DEF RenewalInv
<1>5. ASSUME NEW r \in Runs, ChargeRenewal(r)
      PROVE  RenewalInv'
  <2>1. RenewalTyped'
    BY <1>i, <1>o, <1>5, RunTyped
  <2>2. OwnInv'
    BY <1>i, <1>5, ChargeOwn
  <2>3. /\ UNCHANGED <<cycle, attempts, status, stopped>>
        /\ \A q \in Runs : run'[q].at = "counted" => run[q].at = "counted" /\ run'[q] = run[q]
    BY <1>5, <1>t DEF ChargeRenewal, At
  <2>4. FailuresAreCounted' /\ EndedOnFailures'
    BY <2>3, NoFailure
  <2> QED BY <2>1, <2>2, <2>4 DEF RenewalInv
<1>6. ASSUME NEW r \in Runs, SettleCharged(r) \/ CountFailures(r) \/ Crash(r)
      PROVE  RenewalInv'
  <2>1. RenewalTyped'
    BY <1>i, <1>o, <1>6, RunTyped
  <2>2. OwnInv'
    BY <1>i, <1>6, SettleOwn
  <2>3. \A c \in Cycles : cycle'[c] = "failed" <=> cycle[c] = "failed"
    BY <1>6, <1>t, <1>o DEF SettleCharged, CountFailures, Crash
  <2>4. \A s \in Subscriptions : attempts'[s] = attempts[s] \/ attempts'[s] = 0
    BY <1>6, <1>t DEF SettleCharged, CountFailures, Crash
  <2>5. \A q \in Runs : run'[q].at = "counted" =>
          \/ run[q].at = "counted" /\ run'[q] = run[q]
          \/ /\ run[q].at = "failed"
             /\ run'[q].cycle = run[q].cycle
             /\ run'[q].count = attempts[run[q].cycle[1]]
    BY <1>6, <1>t DEF SettleCharged, CountFailures, Crash, Rest
  <2>6. \A s \in Subscriptions : status'[s] = "cancelled" /\ s \notin stopped' =>
          status[s] = "cancelled" /\ s \notin stopped
    BY <1>6, <1>t DEF SettleCharged, CountFailures, Crash
  <2>7. FailuresAreCounted' /\ EndedOnFailures'
    BY <2>3, <2>4, <2>5, <2>6, NoFailure
  <2> QED BY <2>1, <2>2, <2>7 DEF RenewalInv
<1>7. ASSUME NEW r \in Runs, SettleFailed(r)
      PROVE  RenewalInv'
  <2>1. RenewalTyped'
    BY <1>i, <1>o, <1>7, RunTyped
  <2>2. OwnInv'
    BY <1>i, <1>7, SettleOwn
  <2>3. FailuresAreCounted' /\ EndedOnFailures'
    BY <1>7, SettleFailedCounts
  <2> QED BY <2>1, <2>2, <2>3 DEF RenewalInv
<1>8. CASE UNCHANGED renewalVars
  <2>1. RenewalTyped'
    BY <1>8, <1>i, StillTyped
  <2>2. OwnInv'
    BY <1>8, <1>i DEF renewalVars, OwnInv, OwnsPending, RunsApart, ChargeFollowsOpening,
                      ChargedOncePerCycle
  <2>3. UNCHANGED <<cycle, attempts, run, status, stopped>>
    BY <1>8 DEF renewalVars
  <2>4. FailuresAreCounted' /\ EndedOnFailures'
    BY <2>3, NoFailure
  <2> QED BY <2>1, <2>2, <2>4 DEF RenewalInv
<1> QED BY <1>1, <1>2, <1>3, <1>4, <1>5, <1>6, <1>7, <1>8 DEF RenewalNext, Renew

(* What holds of renewals in every reachable state: types and dates, which *)
(* run owns which cycle, and that counted failures are failed cycles.      *)
THEOREM RenewalInvariant == RenewalSpec => []RenewalInv
  BY RenewalInvStart, RenewalStep, PTL DEF RenewalSpec

(* Every variable keeps its type: no run opens a period beyond the last one  *)
(* the clock and the number of runs allow.                                   *)
THEOREM RenewalTypes == RenewalSpec => []RenewalTypeOK
<1>1. RenewalInv => RenewalTypeOK
  BY DEF RenewalInv, RenewalTyped
<1> QED BY <1>1, RenewalInvariant, PTL

(* However many runs overlap or die, and whatever customers do meanwhile,    *)
(* claimNextCycle has the provider asked for the money of a cycle once.      *)
THEOREM CyclesAreChargedOnce == RenewalSpec => []ChargedOncePerCycle
<1>1. RenewalInv => ChargedOncePerCycle
  BY DEF RenewalInv, OwnInv
<1> QED BY <1>1, RenewalInvariant, PTL

(* A subscription nobody cancelled ended on MaxFailed failed cycles, though  *)
(* settleCycle writes a count it read before.                                *)
THEOREM EndsOnFailures == RenewalSpec => []EndedOnFailures
<1>1. RenewalInv => EndedOnFailures
  BY DEF RenewalInv
<1> QED BY <1>1, RenewalInvariant, PTL

(* Runs that overlap open at most as many periods ahead of their day as      *)
(* there are runs.                                                           *)
THEOREM AheadByNoMore == RenewalSpec => []AheadByRuns
<1>1. RenewalInv => AheadByRuns
  <2> SUFFICES ASSUME RenewalInv, NEW s \in Subscriptions, next[s] # None
               PROVE  next[s] <= now + Cardinality(Runs)
    BY DEF AheadByRuns
  <2>1. next[s] <= now + Cardinality(NotListedBy(s)) /\ now \in Nat /\ next[s] \in Nat
    BY ListedCount, RenewalAssumption
       DEF RenewalInv, RenewalTyped, DatesAreNear, RenewalTypeOK, LastStart, RenewalAssumption
  <2> DEFINE a == Cardinality(NotListedBy(s))
             b == Cardinality(Runs)
  <2>2. a \in Nat /\ b \in Nat /\ a <= b
    BY ListedCount
  <2> HIDE DEF a, b
  <2>3. next[s] <= now + a
    BY <2>1 DEF a
  <2>4. next[s] <= now + b
    BY <2>1, <2>2, <2>3
  <2> QED BY <2>4 DEF b
<1> QED BY <1>1, RenewalInvariant, PTL

(* Once it is paused or cancelled by hand, no run opens a cycle of a         *)
(* subscription, one that had listed it before included.                     *)
THEOREM StoppedIsNotRenewed == RenewalSpec => StoppedIsLeftAlone
<1> DEFINE Alone == \A c \in Cycles : c[1] \in stopped /\ cycle[c] = "none" => cycle'[c] = "none"
<1>1. RenewalInv /\ [RenewalNext]_renewalVars => [Alone]_renewalVars
  <2> SUFFICES ASSUME RenewalInv, RenewalNext, NEW c \in Cycles,
                      c[1] \in stopped, cycle[c] = "none"
               PROVE  cycle'[c] = "none"
    OBVIOUS
  <2>t. RenewalTyped /\ RenewalTypeOK /\ OwnInv
    BY DEF RenewalInv, RenewalTyped
  <2>s. next[c[1]] = None /\ boughtBy[c[1]] # None
    BY <2>t DEF RenewalTyped, StoppedHasNoDate
  <2>1. CASE \E k \in Purchases : Buy(k)
    <3>1. PICK s \in Subscriptions :
            boughtBy[s] = None /\ cycle' = [cycle EXCEPT ![<<s, 0, now>>] = "charged"]
      BY <2>1 DEF Buy
    <3>2. <<s, 0, now>>[1] = s
      OBVIOUS
    <3>3. c # <<s, 0, now>>
      BY <3>1, <3>2, <2>s
    <3> QED BY <3>1, <3>3, <2>t DEF RenewalTypeOK
  <2>2. CASE \E r \in Runs, s \in Subscriptions : Claim(r, s)
    <3>1. PICK s \in Subscriptions :
            next[s] # None /\ cycle' = [cycle EXCEPT ![NextCycle(s)] = "pending"]
      BY <2>2 DEF Claim, Openable
    <3>2. c # NextCycle(s)
      BY <3>1, <2>s, CycleFacts
    <3> QED BY <3>1, <3>2, <2>t DEF RenewalTypeOK
  <2>3. CASE \E r \in Runs : SettleCharged(r) \/ SettleFailed(r)
    <3>1. PICK r \in Runs : SettleCharged(r) \/ SettleFailed(r)
      BY <2>3
    <3>2. run[r].cycle # c
      BY <3>1, <2>t DEF SettleCharged, SettleFailed, OwnInv, OwnsPending
    <3> QED BY <3>1, <3>2, <2>t DEF SettleCharged, SettleFailed, RenewalTypeOK
  <2>4. CASE cycle' = cycle
    BY <2>4
  <2>5. \/ \E k \in Purchases : Buy(k)
        \/ \E r \in Runs, s \in Subscriptions : Claim(r, s)
        \/ \E r \in Runs : SettleCharged(r) \/ SettleFailed(r)
        \/ cycle' = cycle
    BY DEF RenewalNext, Renew, Tick, Attach, Resume, Stop, ListDue, Skip, ChargeRenewal,
           CountFailures, Crash
  <2> QED BY <2>1, <2>2, <2>3, <2>4, <2>5
<1> QED BY <1>1, RenewalInvariant, PTL DEF RenewalSpec, StoppedIsLeftAlone

-----------------------------------------------------------------------------
(***************************************************************************)
(* Checkouts.                                                              *)
(***************************************************************************)
USE PaymentsAssumption, RequestsAssumption, ProviderAssumption, StatusAssumption
    DEF PaymentsAssumption, RequestsAssumption, ProviderAssumption, StatusAssumption,
        rows, provider, refunds, history, OrderStatuses, PayStatuses, EventStages, Phases

(* Events name payments, and the three kinds are apart.                    *)
LEMMA EventFacts ==
    /\ \A e \in Events : e.of \in Payments /\ e.kind \in {"succeeded", "dispute", "refunded"}
    /\ \A p \in Payments :
        /\ Paid(p) \in Events /\ Paid(p).of = p /\ Paid(p).kind = "succeeded"
        /\ Disputed(p) \in Events /\ Disputed(p).of = p /\ Disputed(p).kind = "dispute"
        /\ \A n \in Int : GivenBack(p, n).of = p /\ GivenBack(p, n).kind = "refunded"
<1>1. ASSUME NEW e \in Events
      PROVE  e.of \in Payments /\ e.kind \in {"succeeded", "dispute", "refunded"}
  <2>1. CASE \E p \in Payments : e = Paid(p)
    BY <2>1 DEF Paid
  <2>2. CASE \E p \in Payments : e = Disputed(p)
    BY <2>2 DEF Disputed
  <2>3. CASE \E p \in Payments : \E n \in 1..Amount[p] : e = GivenBack(p, n)
    BY <2>3 DEF GivenBack
  <2> QED BY <2>1, <2>2, <2>3 DEF Events
<1>2. ASSUME NEW p \in Payments
      PROVE  /\ Paid(p) \in Events /\ Paid(p).of = p /\ Paid(p).kind = "succeeded"
             /\ Disputed(p) \in Events /\ Disputed(p).of = p /\ Disputed(p).kind = "dispute"
  BY DEF Events, Paid, Disputed
<1>3. ASSUME NEW p \in Payments, NEW n \in Int
      PROVE  GivenBack(p, n).of = p /\ GivenBack(p, n).kind = "refunded"
  BY DEF GivenBack
<1> QED BY <1>1, <1>2, <1>3

(* Nothing has happened.                                                   *)
LEMMA InitIInv == Init => IInv
  BY DEF Init, IInv, TypeOK, RefundedIsWhole, PaidOnEvidence, ReportedWasCharged

(* What a change of one payment's status and ledger keeps.                 *)
LEMMA SetStatusKeeps ==
    ASSUME TypeOK, RefundedIsWhole, NEW p \in Payments,
           NEW to \in PayStatuses \ {"none", "pending"}, CanMove(pay[p], to), SetStatus(p, to)
    PROVE  /\ pay' \in [Payments -> PayStatuses]
           /\ ledger' \in [Payments -> Nat]
           /\ RefundedIsWhole'
  BY DEF TypeOK, RefundedIsWhole, CanMove, SetStatus

(* A transition, or none, keeps the ledger below the amount.               *)
LEMMA SettleRowKeeps ==
    ASSUME TypeOK, RefundedIsWhole, NEW p \in Payments,
           NEW to \in PayStatuses \ {"none", "pending"}, SettleRow(p, to)
    PROVE  /\ pay' \in [Payments -> PayStatuses]
           /\ ledger' \in [Payments -> Nat]
           /\ RefundedIsWhole'
<1>1. CASE CanMove(pay[p], to) /\ SetStatus(p, to)
  BY <1>1, SetStatusKeeps
<1>2. CASE UNCHANGED <<pay, ledger>>
  BY <1>2 DEF TypeOK, RefundedIsWhole
<1> QED BY <1>1, <1>2 DEF SettleRow

(* Answering an event that has arrived announces nothing new.              *)
LEMMA AnswerKeeps ==
    ASSUME TypeOK, NEW e \in Events, event[e] # "none", Answer(e)
    PROVE  /\ event' \in [Events -> EventStages]
           /\ lost' \in 0..MaxLost
           /\ \A f \in Events : event'[f] # "none" => event[f] # "none"
<1>1. event' \in [Events -> EventStages]
  BY DEF Answer, TypeOK
<1>2. lost' \in 0..MaxLost
  BY DEF Answer, TypeOK
<1>3. \A f \in Events : event'[f] # "none" => event[f] # "none"
  BY DEF Answer, TypeOK
<1> QED BY <1>1, <1>2, <1>3

(* A refund at the provider announces a refund and nothing else.           *)
LEMMA GiveBackKeeps ==
    ASSUME TypeOK, NEW p \in Payments, NEW n \in Int, CanGiveBack(p, n), GiveBack(p, n)
    PROVE  /\ money' \in [Payments -> Nat]
           /\ event' \in [Events -> EventStages]
           /\ \A f \in Events : f.kind # "refunded" => event'[f] = event[f]
<1>1. n \in Nat
  BY DEF CanGiveBack
<1>2. money' \in [Payments -> Nat]
  BY <1>1 DEF GiveBack, TypeOK
<1>3. event' \in [Events -> EventStages]
  BY DEF GiveBack, TypeOK
<1>4. \A f \in Events : f.kind # "refunded" => event'[f] = event[f]
  BY EventFacts DEF GiveBack, TypeOK
<1> QED BY <1>2, <1>3, <1>4

(* A webhook call keeps the invariant.                                     *)
LEMMA HandleIInv ==
    ASSUME IInv, NEW e \in Events, Handle(e) \/ CrashInDispute(e)
    PROVE  IInv'
<1> USE DEF IInv
<1>e. e.of \in Payments /\ OrderOf[e.of] \in Orders
  BY EventFacts
<1>a. Arrives(e) => event[e] # "none"
  BY DEF Arrives
<1>1. CASE SettleAndPlace(e)
  <2>1. e.of \in charged /\ told[OrderOf[e.of]] = 0
    BY <1>1, <1>e, <1>a DEF SettleAndPlace, ReportedWasCharged, PaidOnEvidence, Places, TypeOK
  <2>2. /\ pay' \in [Payments -> PayStatuses] /\ ledger' \in [Payments -> Nat]
        /\ RefundedIsWhole'
    BY <1>1, <1>e, SettleRowKeeps DEF SettleAndPlace
  <2>3. /\ event' \in [Events -> EventStages] /\ lost' \in 0..MaxLost
        /\ \A f \in Events : event'[f] # "none" => event[f] # "none"
    BY <1>1, <1>a, AnswerKeeps DEF SettleAndPlace
  <2>4. TypeOK'
    BY <1>1, <1>e, <2>2, <2>3 DEF SettleAndPlace, TypeOK
  <2>5. PaidOnEvidence'
    BY <1>1, <1>e, <2>1 DEF SettleAndPlace, PaidOnEvidence, TypeOK
  <2>6. ReportedWasCharged'
    BY <1>1, <2>3 DEF SettleAndPlace, ReportedWasCharged
  <2> QED BY <2>2, <2>4, <2>5, <2>6
<1>2. CASE SettleOnly(e)
  <2>2. /\ pay' \in [Payments -> PayStatuses] /\ ledger' \in [Payments -> Nat]
        /\ RefundedIsWhole'
    BY <1>2, <1>e, SettleRowKeeps DEF SettleOnly
  <2>3. /\ event' \in [Events -> EventStages] /\ lost' \in 0..MaxLost
        /\ \A f \in Events : event'[f] # "none" => event[f] # "none"
    BY <1>2, <1>a, AnswerKeeps DEF SettleOnly
  <2> QED BY <1>2, <2>2, <2>3 DEF SettleOnly, TypeOK, PaidOnEvidence, ReportedWasCharged
<1>3. CASE RecordRefund(e)
  <2>2. /\ pay' \in [Payments -> PayStatuses] /\ ledger' \in [Payments -> Nat]
        /\ RefundedIsWhole'
    BY <1>3, <1>e, SettleRowKeeps DEF RecordRefund
  <2>3. /\ event' \in [Events -> EventStages] /\ lost' \in 0..MaxLost
        /\ \A f \in Events : event'[f] # "none" => event[f] # "none"
    BY <1>3, <1>a, AnswerKeeps DEF RecordRefund
  <2> QED BY <1>3, <2>2, <2>3 DEF RecordRefund, TypeOK, PaidOnEvidence, ReportedWasCharged
<1>4. CASE MarkDisputed(e)
  <2>2. /\ pay' \in [Payments -> PayStatuses] /\ ledger' \in [Payments -> Nat]
        /\ RefundedIsWhole'
    BY <1>4, <1>e, SettleRowKeeps DEF MarkDisputed
  <2>3. event' \in [Events -> EventStages]
    BY <1>4 DEF MarkDisputed, TypeOK
  <2> QED BY <1>4, <1>a, <2>2, <2>3
          DEF MarkDisputed, TypeOK, PaidOnEvidence, ReportedWasCharged
<1>5. CASE WarnOfDispute(e)
  <2>3. /\ event' \in [Events -> EventStages] /\ lost' \in 0..MaxLost
        /\ \A f \in Events : event'[f] # "none" => event[f] # "none"
    BY <1>5, AnswerKeeps DEF WarnOfDispute
  <2>4. warned' \in [Payments -> 0..2]
    BY <1>5, <1>e DEF WarnOfDispute, TypeOK
  <2> QED BY <1>5, <2>3, <2>4
          DEF WarnOfDispute, TypeOK, RefundedIsWhole, PaidOnEvidence, ReportedWasCharged
<1>6. CASE DropEvent(e)
  <2>3. /\ event' \in [Events -> EventStages] /\ lost' \in 0..MaxLost
        /\ \A f \in Events : event'[f] # "none" => event[f] # "none"
    BY <1>6, <1>a, AnswerKeeps DEF DropEvent
  <2> QED BY <1>6, <2>3
          DEF DropEvent, TypeOK, RefundedIsWhole, PaidOnEvidence, ReportedWasCharged
<1>7. CASE CrashInDispute(e)
  <2>3. event' \in [Events -> EventStages] /\ lost' \in 0..MaxLost
    BY <1>7 DEF CrashInDispute, TypeOK
  <2>4. \A f \in Events : event'[f] # "none" => event[f] # "none"
    BY <1>7 DEF CrashInDispute, TypeOK
  <2> QED BY <1>7, <2>3, <2>4
          DEF CrashInDispute, TypeOK, RefundedIsWhole, PaidOnEvidence, ReportedWasCharged
<1> QED BY <1>1, <1>2, <1>3, <1>4, <1>5, <1>6, <1>7 DEF Handle

(* What the provider does keeps the invariant.                             *)
LEMMA ProviderIInv ==
    ASSUME IInv, NEW p \in Payments, ProviderStep(p)
    PROVE  IInv'
<1> USE DEF IInv
<1>1. CASE Charge(p)
  <2>1. event' \in [Events -> EventStages]
    BY <1>1 DEF Charge, TypeOK
  <2>2. \A e \in Events : event'[e] # "none" => event[e] # "none" \/ e.of = p
    BY <1>1, EventFacts DEF Charge, TypeOK
  <2> QED BY <1>1, <2>1, <2>2
          DEF Charge, TypeOK, RefundedIsWhole, PaidOnEvidence, ReportedWasCharged
<1>2. ASSUME NEW n \in Outside, RefundOutside(p, n) PROVE IInv'
  <2>1. n \in Int /\ CanGiveBack(p, n) /\ GiveBack(p, n)
    BY <1>2 DEF RefundOutside
  <2>2. /\ money' \in [Payments -> Nat] /\ event' \in [Events -> EventStages]
        /\ \A f \in Events : f.kind # "refunded" => event'[f] = event[f]
    BY <2>1, GiveBackKeeps
  <2> QED BY <1>2, <2>2
          DEF RefundOutside, TypeOK, RefundedIsWhole, PaidOnEvidence, ReportedWasCharged
<1>3. CASE Dispute(p)
  <2>1. event' \in [Events -> EventStages]
    BY <1>3 DEF Dispute, TypeOK
  <2>2. \A e \in Events : e.kind = "succeeded" => event'[e] = event[e]
    BY <1>3, EventFacts DEF Dispute, TypeOK
  <2> QED BY <1>3, <2>1, <2>2
          DEF Dispute, TypeOK, RefundedIsWhole, PaidOnEvidence, ReportedWasCharged
<1> QED BY <1>1, <1>2, <1>3 DEF ProviderStep

(* A refund request keeps the invariant.                                   *)
LEMMA RequestIInv ==
    ASSUME IInv, NEW r \in Requests, RequestStep(r)
    PROVE  IInv'
<1> USE DEF IInv
<1>r. For[r] \in Payments /\ Ask[r] \in Nat
  OBVIOUS
<1>1. CASE CallProvider(r)
  <2>1. AskFor(r) \in Int
    BY <1>r DEF AskFor, TypeOK
  <2>2. /\ money' \in [Payments -> Nat] /\ event' \in [Events -> EventStages]
        /\ \A f \in Events : f.kind # "refunded" => event'[f] = event[f]
    BY <1>1, <1>r, <2>1, GiveBackKeeps DEF CallProvider
  <2>3. calls' \in [Requests -> 0..2] /\ request' \in [Requests -> Phases]
    BY <1>1 DEF CallProvider, TypeOK
  <2> QED BY <1>1, <2>2, <2>3
          DEF CallProvider, TypeOK, RefundedIsWhole, PaidOnEvidence, ReportedWasCharged
<1>2. CASE WriteLedger(r)
  <2>1. /\ ledger' \in [Payments -> Nat] /\ pay' \in [Payments -> PayStatuses]
        /\ unbacked' \subseteq Payments
    BY <1>2, <1>r DEF WriteLedger, TypeOK
  <2>2. RefundedIsWhole'
    BY <1>2, <1>r DEF WriteLedger, Refundable, TypeOK, RefundedIsWhole
  <2> QED BY <1>2, <2>1, <2>2
          DEF WriteLedger, TypeOK, PaidOnEvidence, ReportedWasCharged
<1>3. CASE ProviderRefuses(r)
  BY <1>3 DEF ProviderRefuses, TypeOK, RefundedIsWhole, PaidOnEvidence, ReportedWasCharged
<1>7. CASE SkipProvider(r)
  BY <1>7 DEF SkipProvider, TypeOK, RefundedIsWhole, PaidOnEvidence, ReportedWasCharged
<1>4. CASE Replay(r)
  BY <1>4 DEF Replay, TypeOK, RefundedIsWhole, PaidOnEvidence, ReportedWasCharged
<1>5. CASE Refuse(r)
  BY <1>5 DEF Refuse, TypeOK, RefundedIsWhole, PaidOnEvidence, ReportedWasCharged
<1>6. CASE SendAgain(r)
  BY <1>6 DEF SendAgain, TypeOK, RefundedIsWhole, PaidOnEvidence, ReportedWasCharged
<1> QED BY <1>1, <1>2, <1>3, <1>4, <1>5, <1>6, <1>7 DEF RequestStep

(* Checkouts and operators keep the invariant.                             *)
LEMMA OrderIInv ==
    ASSUME IInv,
           \/ \E p \in Payments : Checkout(p) \/ \E s \in PayStatuses : OperatorSets(p, s)
           \/ \E o \in Orders : OperatorStep(o)
    PROVE  IInv'
<1> USE DEF IInv
<1>1. ASSUME NEW p \in Payments, Checkout(p) PROVE IInv'
  <2>1. TypeOK'
    BY <1>1 DEF Checkout, TypeOK
  <2>2. RefundedIsWhole'
    BY <1>1 DEF Checkout, TypeOK, RefundedIsWhole
  <2>3. PaidOnEvidence'
    BY <1>1 DEF Checkout, TypeOK, PaidOnEvidence
  <2> QED BY <1>1, <2>1, <2>2, <2>3 DEF Checkout, ReportedWasCharged
<1>2. ASSUME NEW p \in Payments, NEW s \in PayStatuses, OperatorSets(p, s) PROVE IInv'
  <2>1. /\ pay' \in [Payments -> PayStatuses] /\ ledger' \in [Payments -> Nat]
        /\ RefundedIsWhole'
    BY <1>2, SetStatusKeeps DEF OperatorSets
  <2> QED BY <1>2, <2>1 DEF OperatorSets, TypeOK, PaidOnEvidence, ReportedWasCharged
<1>3. ASSUME NEW o \in Orders, OperatorStep(o) PROVE IInv'
  <2>1. PICK to \in {"placed", "moved", "cancelled", "deleted"} :
            /\ \E from \in {"draft", "placed", "moved"} :
                MoveOrder(o, from, to) /\ (from # "draft" => to \in {"moved", "cancelled"})
    BY <1>3 DEF OperatorStep
  <2>2. /\ order' = [order EXCEPT ![o] = to]
        /\ UNCHANGED <<pay, ledger, told, warned, provider, refunds, history, lost>>
        /\ told[o] > 0 => to \in {"moved", "cancelled"}
    BY <2>1 DEF MoveOrder, PaidOnEvidence
  <2>3. PaidOnEvidence'
    BY <2>2 DEF TypeOK, PaidOnEvidence
  <2> QED BY <2>2, <2>3 DEF TypeOK, RefundedIsWhole, ReportedWasCharged
<1> QED BY <1>1, <1>2, <1>3

(* Every step of payments and orders keeps the invariant.                  *)
LEMMA StepIInv == IInv /\ [Next]_vars => IInv'
<1> SUFFICES ASSUME IInv, [Next]_vars PROVE IInv'
  OBVIOUS
<1>1. CASE UNCHANGED vars
  BY <1>1 DEF vars, IInv, TypeOK, RefundedIsWhole, PaidOnEvidence, ReportedWasCharged
<1> QED
  BY <1>1, HandleIInv, ProviderIInv, RequestIInv, OrderIInv DEF Next

(* The invariant holds in every reachable state.                           *)
THEOREM PaymentInvariant == Spec => []IInv
  BY InitIInv, StepIInv, PTL DEF Spec

(* Every variable keeps its type, for any orders, payments and requests.   *)
THEOREM PaymentTypes == Spec => []TypeOK
<1>1. IInv => TypeOK
  BY DEF IInv
<1> QED BY <1>1, PaymentInvariant, PTL

(* The ledger never passes the amount, and a payment is refunded exactly   *)
(* when it reaches it.                                                     *)
THEOREM RefundsAreWhole == Spec => []RefundedIsWhole
<1>1. IInv => RefundedIsWhole
  BY DEF IInv
<1> QED BY <1>1, PaymentInvariant, PTL

(* An order is announced as paid at most once, and on evidence.            *)
THEOREM PaidNeedsEvidence == Spec => []PaidOnEvidence
<1>1. IInv => PaidOnEvidence
  BY DEF IInv
<1> QED BY <1>1, PaymentInvariant, PTL

-----------------------------------------------------------------------------
(* Whole refunds: the ledger never runs ahead of the provider.             *)
LEMMA InitWhole == Init => WholeInv
  BY InitIInv DEF Init, WholeInv, LedgerIsTrue, GivenBackWhole

(* A refund of the whole amount gives back everything.                     *)
LEMMA GiveBackWhole ==
    ASSUME TypeOK, GivenBackWhole, LedgerIsTrue, NEW p \in Payments, NEW n \in Int,
           WholeRefunds(p) => n >= Amount[p] \/ n = Amount[p] - money[p],
           CanGiveBack(p, n), GiveBack(p, n)
    PROVE  /\ WholeRefunds(p) => money'[p] = Amount[p]
           /\ \A e \in Events :
                WholeRefunds(e.of) /\ e.kind = "refunded" /\ event'[e] # "none"
                    => money'[e.of] = Amount[e.of]
           /\ \A q \in Payments : money[q] = Amount[q] => money'[q] = Amount[q]
           /\ \A q \in Payments : WholeRefunds(q) /\ q \notin unbacked => ledger[q] <= money'[q]
<1>1. /\ money[p] \in Nat /\ Amount[p] \in Nat /\ n > 0 /\ money[p] + n <= Amount[p]
      /\ ledger[p] \in Nat
  BY DEF CanGiveBack, TypeOK
<1>2. /\ money'[p] = money[p] + n
      /\ \A q \in Payments : q # p => money'[q] = money[q]
  BY DEF GiveBack, TypeOK
<1>3. WholeRefunds(p) => money'[p] = Amount[p]
  BY <1>1, <1>2
<1>4. GivenBack(p, money[p] + n).of = p
  BY EventFacts, <1>1
<1>5. \A e \in Events : event'[e] # "none" => event[e] # "none" \/ e.of = p
  BY <1>4 DEF GiveBack, TypeOK
<1>6. \A q \in Payments : money[q] = Amount[q] => money'[q] = Amount[q]
  BY <1>1, <1>2
<1>7. ASSUME NEW e \in Events, WholeRefunds(e.of), e.kind = "refunded", event'[e] # "none"
      PROVE  money'[e.of] = Amount[e.of]
  <2>1. e.of \in Payments
    BY EventFacts
  <2>2. CASE e.of = p
    BY <1>3, <1>7, <2>2
  <2>3. CASE event[e] # "none"
    <3>1. money[e.of] = Amount[e.of]
      BY <1>7, <2>1, <2>3 DEF GivenBackWhole
    <3> QED BY <1>6, <2>1, <3>1
  <2> QED BY <1>5, <1>7, <2>2, <2>3
<1>8. ASSUME NEW q \in Payments, WholeRefunds(q), q \notin unbacked PROVE ledger[q] <= money'[q]
  <2>1. ledger[q] <= money[q]
    BY <1>8 DEF LedgerIsTrue
  <2> QED BY <1>1, <1>2, <2>1
<1> QED BY <1>3, <1>6, <1>7, <1>8

(* A webhook call records no more than the provider gave back.             *)
LEMMA HandleWhole ==
    ASSUME WholeInv, NEW e \in Events, Handle(e) \/ CrashInDispute(e)
    PROVE  LedgerIsTrue' /\ GivenBackWhole'
<1> USE DEF WholeInv, IInv
<1>1. event[e] # "none" /\ UNCHANGED <<money, request, unbacked>>
  BY DEF Handle, SettleAndPlace, SettleOnly, RecordRefund, MarkDisputed, WarnOfDispute,
         DropEvent, CrashInDispute, Arrives
<1>2. \A f \in Events : event'[f] # "none" => event[f] # "none"
  <2>1. Answer(e) \/ event' = [event EXCEPT ![e] = "marked"]
                 \/ event' = [event EXCEPT ![e] = "sent"]
    BY DEF Handle, SettleAndPlace, SettleOnly, RecordRefund, MarkDisputed, WarnOfDispute,
           DropEvent, CrashInDispute
  <2>2. CASE Answer(e)
    BY <1>1, <2>2, AnswerKeeps
  <2> QED BY <1>1, <2>1, <2>2 DEF TypeOK
<1>3. GivenBackWhole'
  BY <1>1, <1>2 DEF GivenBackWhole
<1>4. CASE RecordRefund(e)
  <2>1. e.of \in Payments /\ (WholeRefunds(e.of) => money[e.of] = Amount[e.of])
    BY <1>1, <1>4, EventFacts DEF RecordRefund, GivenBackWhole
  <2>2. \A p \in Payments : ledger'[p] = ledger[p] \/ (p = e.of /\ ledger'[p] = Amount[p])
    BY <1>4, <2>1 DEF RecordRefund, SettleRow, SetStatus, TypeOK
  <2>3. ASSUME NEW p \in Payments, WholeRefunds(p), p \notin unbacked
        PROVE  ledger'[p] <= money[p]
    <3>1. ledger[p] <= money[p] /\ Amount[p] \in Nat
      BY <2>3 DEF LedgerIsTrue
    <3> QED BY <2>1, <2>2, <2>3, <3>1
  <2> QED BY <1>1, <1>3, <2>3 DEF LedgerIsTrue
<1>5. CASE ~ RecordRefund(e)
  <2>1. UNCHANGED ledger
    BY <1>5, EventFacts DEF Handle, SettleAndPlace, SettleOnly, MarkDisputed, WarnOfDispute,
           DropEvent, CrashInDispute, SettleRow, SetStatus, TypeOK
  <2> QED BY <1>1, <1>3, <2>1 DEF LedgerIsTrue
<1> QED BY <1>4, <1>5

(* A refund request is recorded once the provider has given back all.      *)
LEMMA RequestWhole ==
    ASSUME WholeInv, NEW r \in Requests, RequestStep(r)
    PROVE  LedgerIsTrue' /\ GivenBackWhole'
<1> USE DEF WholeInv, IInv
<1>r. /\ For[r] \in Payments /\ Ask[r] \in Nat
      /\ WholeRefunds(For[r]) => Ask[r] = 0 \/ Ask[r] = Amount[For[r]]
  BY DEF WholeRefunds
<1>1. CASE CallProvider(r)
  <2>1. /\ AskFor(r) \in Int
        /\ WholeRefunds(For[r]) =>
             AskFor(r) >= Amount[For[r]] \/ AskFor(r) = Amount[For[r]] - money[For[r]]
    BY <1>r DEF AskFor, TypeOK
  <2>2. CanGiveBack(For[r], AskFor(r)) /\ GiveBack(For[r], AskFor(r))
    BY <1>1 DEF CallProvider
  <2>3. /\ WholeRefunds(For[r]) => money'[For[r]] = Amount[For[r]]
        /\ \A e \in Events :
             WholeRefunds(e.of) /\ e.kind = "refunded" /\ event'[e] # "none"
                 => money'[e.of] = Amount[e.of]
        /\ \A q \in Payments : money[q] = Amount[q] => money'[q] = Amount[q]
        /\ \A q \in Payments : WholeRefunds(q) /\ q \notin unbacked => ledger[q] <= money'[q]
    BY <1>r, <2>1, <2>2, GiveBackWhole
  <2>4. \A x \in Requests : request'[x] = "moved" => request[x] = "moved" \/ x = r
    BY <1>1 DEF CallProvider, TypeOK
  <2>5. UNCHANGED <<ledger, unbacked>>
    BY <1>1 DEF CallProvider
  <2>6. LedgerIsTrue'
    BY <2>3, <2>5 DEF LedgerIsTrue
  <2> QED BY <1>r, <2>3, <2>4, <2>6 DEF GivenBackWhole
<1>2. CASE WriteLedger(r)
  <2>1. /\ unbacked \subseteq unbacked'
        /\ For[r] \notin unbacked' => request[r] = "moved"
    BY <1>2 DEF WriteLedger, AtLedger
  <2>2. ASSUME NEW p \in Payments, WholeRefunds(p), p \notin unbacked' PROVE ledger'[p] <= money[p]
    <3>1. ledger[p] <= money[p]
      BY <2>1, <2>2 DEF LedgerIsTrue
    <3>2. CASE p = For[r]
      <4>1. money[p] = Amount[p]
        BY <2>1, <2>2, <3>2 DEF GivenBackWhole
      <4> QED BY <1>2, <1>r, <2>2, <3>2, <4>1 DEF WriteLedger, Refundable, TypeOK
    <3>3. CASE p # For[r]
      BY <1>2, <1>r, <3>1, <3>3 DEF WriteLedger, TypeOK
    <3> QED BY <3>2, <3>3
  <2>3. \A x \in Requests : request'[x] = "moved" => request[x] = "moved"
    BY <1>2 DEF WriteLedger, TypeOK
  <2> QED BY <1>2, <2>2, <2>3 DEF WriteLedger, LedgerIsTrue, GivenBackWhole
<1>3. CASE ProviderRefuses(r) \/ SkipProvider(r) \/ Replay(r) \/ Refuse(r) \/ SendAgain(r)
  <2>1. UNCHANGED <<ledger, money, event, unbacked>>
    BY <1>3 DEF ProviderRefuses, SkipProvider, Replay, Refuse, SendAgain
  <2>2. \A x \in Requests : request'[x] = "moved" => request[x] = "moved"
    BY <1>3 DEF ProviderRefuses, SkipProvider, Replay, Refuse, SendAgain, TypeOK
  <2> QED BY <2>1, <2>2 DEF LedgerIsTrue, GivenBackWhole
<1> QED BY <1>1, <1>2, <1>3 DEF RequestStep

(* Every step keeps the ledger of whole refunds behind the provider.       *)
LEMMA StepWhole == WholeInv /\ [Next]_vars => WholeInv'
<1> SUFFICES ASSUME WholeInv, [Next]_vars PROVE WholeInv'
  OBVIOUS
<1> USE DEF WholeInv
<1>0. IInv'
  BY StepIInv
<1>1. ASSUME NEW p \in Payments, Checkout(p) PROVE WholeInv'
  BY <1>0, <1>1 DEF Checkout, LedgerIsTrue, GivenBackWhole
<1>2. ASSUME NEW p \in Payments, NEW s \in PayStatuses, OperatorSets(p, s) PROVE WholeInv'
  <2>1. UNCHANGED <<money, event, request, unbacked>>
    BY <1>2 DEF OperatorSets, history
  <2>2. s \in OperatorStatuses[p] /\ SetStatus(p, s)
    BY <1>2 DEF OperatorSets
  <2>3. WholeRefunds(p) => s # "refunded"
    BY <2>2 DEF WholeRefunds
  <2>4. \A q \in Payments : WholeRefunds(q) => ledger'[q] = ledger[q]
    BY <2>2, <2>3 DEF SetStatus, IInv, TypeOK
  <2> QED BY <1>0, <2>1, <2>4 DEF LedgerIsTrue, GivenBackWhole
<1>3. ASSUME NEW p \in Payments, Charge(p) PROVE WholeInv'
  <2>1. \A e \in Events : e.kind = "refunded" => event'[e] = event[e]
    BY <1>3, EventFacts DEF Charge, IInv, TypeOK
  <2> QED BY <1>0, <1>3, <2>1 DEF Charge, LedgerIsTrue, GivenBackWhole
<1>4. ASSUME NEW p \in Payments, NEW n \in Outside, RefundOutside(p, n) PROVE WholeInv'
  <2>1. n \in Int /\ (WholeRefunds(p) => n >= Amount[p])
    BY DEF WholeRefunds
  <2>2. /\ \A e \in Events :
             WholeRefunds(e.of) /\ e.kind = "refunded" /\ event'[e] # "none"
                 => money'[e.of] = Amount[e.of]
        /\ \A q \in Payments : money[q] = Amount[q] => money'[q] = Amount[q]
        /\ \A q \in Payments : WholeRefunds(q) /\ q \notin unbacked => ledger[q] <= money'[q]
    BY <1>4, <2>1, GiveBackWhole DEF RefundOutside, IInv
  <2> QED BY <1>0, <1>4, <2>2 DEF RefundOutside, LedgerIsTrue, GivenBackWhole
<1>5. ASSUME NEW p \in Payments, Dispute(p) PROVE WholeInv'
  <2>1. \A e \in Events : e.kind = "refunded" => event'[e] = event[e]
    BY <1>5, EventFacts DEF Dispute, IInv, TypeOK
  <2> QED BY <1>0, <1>5, <2>1 DEF Dispute, LedgerIsTrue, GivenBackWhole
<1>6. ASSUME NEW o \in Orders, OperatorStep(o) PROVE WholeInv'
  BY <1>0, <1>6 DEF OperatorStep, MoveOrder, LedgerIsTrue, GivenBackWhole
<1>7. ASSUME NEW e \in Events, Handle(e) \/ CrashInDispute(e) PROVE WholeInv'
  BY <1>0, <1>7, HandleWhole
<1>8. ASSUME NEW r \in Requests, RequestStep(r) PROVE WholeInv'
  BY <1>0, <1>8, RequestWhole
<1>9. CASE UNCHANGED vars
  BY <1>0, <1>9 DEF vars, LedgerIsTrue, GivenBackWhole
<1> QED BY <1>1, <1>2, <1>3, <1>4, <1>5, <1>6, <1>7, <1>8, <1>9 DEF Next, ProviderStep

(* Of a payment whose refunds are all of its whole amount, and not claimed *)
(* by hand, the ledger never says more went back than the provider gave    *)
(* back, whatever is lost, repeated, disputed or out of order, until it    *)
(* takes a request that has not reached the provider.                      *)
THEOREM WholeRefundsAreTrue == Spec => []LedgerIsTrue
<1>1. WholeInv => LedgerIsTrue
  BY DEF WholeInv
<1> QED BY <1>1, InitWhole, StepWhole, PTL DEF Spec

-----------------------------------------------------------------------------
(* Redelivery: what an event that was handled has left behind, so that     *)
(* handling it again finds nothing to do.                                  *)
Handled(e) == event[e] \in {"handled", "done"}
Gone(p) == order[OrderOf[p]] = "deleted"

(* The provider announces every charge, and gives back only what it took.  *)
ChargesAreReported ==
    /\ \A p \in charged : event[Paid(p)] # "none" /\ pay[p] # "none"
    /\ \A e \in Events : e.kind = "refunded" /\ event[e] # "none" => e.of \in charged

(* A success that was handled found a draft and placed it, or an order     *)
(* beyond that, and its payment has left the first two statuses.           *)
SuccessIsSettled ==
    \A e \in Events : e.kind = "succeeded" /\ Handled(e) =>
        /\ order[OrderOf[e.of]] \notin {"absent", "draft"}
        /\ Gone(e.of) \/ pay[e.of] \in {"succeeded", "disputed", "failed", "refunded"}

(* So has one whose refund was handled, unless that came early.            *)
RefundIsSettled ==
    \A e \in Events \ early : e.kind = "refunded" /\ Handled(e) =>
        Gone(e.of) \/ pay[e.of] \in {"failed", "refunded"}

(* Only of a dispute the answer waits for its announcement.                *)
MarkedIsDispute == \A e \in Events : event[e] = "marked" => e.kind = "dispute"

SettledInv ==
    /\ IInv
    /\ MarkedIsDispute
    /\ ChargesAreReported
    /\ SuccessIsSettled
    /\ RefundIsSettled

(* There is one success and one dispute of each payment.                   *)
LEMMA EventNames ==
    ASSUME NEW e \in Events
    PROVE  /\ e.kind = "succeeded" => e = Paid(e.of)
           /\ e.kind = "dispute" => e = Disputed(e.of)
<1>1. CASE \E p \in Payments : e = Paid(p)
  BY <1>1 DEF Paid
<1>2. CASE \E p \in Payments : e = Disputed(p)
  BY <1>2 DEF Disputed
<1>3. CASE \E p \in Payments : \E n \in 1..Amount[p] : e = GivenBack(p, n)
  BY <1>3 DEF GivenBack
<1> QED BY <1>1, <1>2, <1>3 DEF Events

(* Nothing was charged, disputed or handled.                               *)
LEMMA InitSettled == Init => SettledInv
<1> SUFFICES ASSUME Init PROVE SettledInv
  OBVIOUS
<1>1. ChargesAreReported /\ MarkedIsDispute
  BY DEF Init, ChargesAreReported, MarkedIsDispute
<1>2. SuccessIsSettled /\ RefundIsSettled
  BY DEF Init, SuccessIsSettled, RefundIsSettled, Handled
<1> QED BY InitIInv, <1>1, <1>2 DEF SettledInv

(* What a step may do to a payment whose success was handled: orders that  *)
(* are not drafts stay so and the deleted stay deleted, payments move as   *)
(* canTransition says, and the provider forgets nothing.                   *)
StaysSettled ==
    /\ early' = early
    /\ \A e \in Events :
        /\ event[e] # "none" => event'[e] # "none"
        /\ Handled(e)' => Handled(e)
        /\ event'[e] = "marked" => event[e] = "marked"
        /\ e.kind = "refunded" /\ event'[e] # "none" => e.of \in charged'
    /\ \A p \in charged' : event'[Paid(p)] # "none" /\ pay'[p] # "none"
    /\ \A p \in Payments :
        /\ order[OrderOf[p]] \notin {"absent", "draft"} =>
               order'[OrderOf[p]] \notin {"absent", "draft"}
        /\ Gone(p) => Gone(p)'
        /\ \/ pay'[p] = pay[p]
           \/ pay[p] = "none" /\ pay'[p] = "pending"
           \/ CanMove(pay[p], pay'[p])

(* Such a step keeps what handled events left behind.                      *)
LEMMA SettledStays ==
    ASSUME SettledInv, IInv', StaysSettled
    PROVE  SettledInv'
<1>e. \A e \in Events : e.of \in Payments /\ e.kind \in {"succeeded", "dispute", "refunded"}
  BY EventFacts
<1>1. ChargesAreReported'
  BY DEF StaysSettled, ChargesAreReported
<1>c. \A e \in Events : event[e] # "none" /\ e.kind # "dispute" => pay[e.of] # "none"
  BY EventNames, <1>e DEF SettledInv, ChargesAreReported, IInv, ReportedWasCharged
<1>3. SuccessIsSettled'
  <2> SUFFICES ASSUME NEW e \in Events, e.kind = "succeeded", Handled(e)'
               PROVE  /\ order'[OrderOf[e.of]] \notin {"absent", "draft"}
                      /\ Gone(e.of)' \/ pay'[e.of] \in {"succeeded", "disputed", "failed", "refunded"}
    BY DEF SuccessIsSettled
  <2>1. Handled(e) /\ event[e] # "none"
    BY DEF StaysSettled, Handled
  <2>2. pay[e.of] # "none"
    BY <2>1, <1>c
  <2>3. /\ order[OrderOf[e.of]] \notin {"absent", "draft"}
        /\ Gone(e.of) \/ pay[e.of] \in {"succeeded", "disputed", "failed", "refunded"}
    BY <2>1 DEF SettledInv, SuccessIsSettled
  <2> QED BY <1>e, <2>2, <2>3 DEF StaysSettled, CanMove
<1>4. RefundIsSettled'
  <2> SUFFICES ASSUME NEW e \in Events, e \notin early', e.kind = "refunded", Handled(e)'
               PROVE  Gone(e.of)' \/ pay'[e.of] \in {"failed", "refunded"}
    BY DEF RefundIsSettled
  <2>1. Handled(e) /\ event[e] # "none"
    BY DEF StaysSettled, Handled
  <2>2. pay[e.of] # "none"
    BY <2>1, <1>c
  <2>3. Gone(e.of) \/ pay[e.of] \in {"failed", "refunded"}
    BY <2>1 DEF StaysSettled, SettledInv, RefundIsSettled
  <2> QED BY <1>e, <2>2, <2>3 DEF StaysSettled, CanMove
<1>5. MarkedIsDispute'
  BY DEF StaysSettled, SettledInv, MarkedIsDispute
<1> QED BY <1>1, <1>3, <1>4, <1>5 DEF SettledInv

(* What no webhook call does: checkouts, operators, the provider, refund   *)
(* requests.                                                               *)
LEMMA OthersSettle ==
    ASSUME SettledInv,
           \/ \E p \in Payments : Checkout(p) \/ \E s \in PayStatuses : OperatorSets(p, s)
           \/ \E p \in Payments : ProviderStep(p)
           \/ \E o \in Orders : OperatorStep(o)
           \/ \E r \in Requests : RequestStep(r)
    PROVE  StaysSettled
<1> USE DEF SettledInv, IInv
<1>e. \A e \in Events : e.of \in Payments /\ e.kind \in {"succeeded", "dispute", "refunded"}
  BY EventFacts
<1>p. \A p \in Payments : Paid(p) \in Events /\ Disputed(p) \in Events
                          /\ Paid(p).kind = "succeeded" /\ Disputed(p).kind = "dispute"
  BY EventFacts
<1>r. \A r \in Requests : For[r] \in Payments
  OBVIOUS
<1>s. ASSUME UNCHANGED <<event, charged, early>>,
             \A p \in charged : pay'[p] # "none",
             \A p \in Payments :
                /\ order[OrderOf[p]] \notin {"absent", "draft"} =>
                       order'[OrderOf[p]] \notin {"absent", "draft"}
                /\ Gone(p) => Gone(p)'
                /\ \/ pay'[p] = pay[p]
                   \/ pay[p] = "none" /\ pay'[p] = "pending"
                   \/ CanMove(pay[p], pay'[p])
      PROVE  StaysSettled
  <2>1. \A e \in Events : Handled(e)' => Handled(e)
    BY <1>s DEF Handled
  <2> QED BY <1>s, <2>1 DEF StaysSettled, ChargesAreReported
<1>1. ASSUME NEW p \in Payments, Checkout(p) PROVE StaysSettled
  <2>1. /\ \A q \in charged : pay'[q] # "none"
        /\ UNCHANGED <<event, charged, early>>
    BY <1>1 DEF Checkout, TypeOK, ChargesAreReported
  <2>2. \A q \in Payments :
          /\ order[OrderOf[q]] \notin {"absent", "draft"} =>
                 order'[OrderOf[q]] \notin {"absent", "draft"}
          /\ Gone(q) => Gone(q)'
          /\ pay'[q] = pay[q] \/ (pay[q] = "none" /\ pay'[q] = "pending")
    BY <1>1 DEF Checkout, TypeOK, Gone
  <2> QED BY <1>s, <2>1, <2>2
<1>2. ASSUME NEW p \in Payments, NEW s \in PayStatuses, OperatorSets(p, s) PROVE StaysSettled
  <2>1. /\ s # "none" /\ CanMove(pay[p], s)
        /\ pay' = [pay EXCEPT ![p] = s]
        /\ UNCHANGED <<order, event, charged, early>>
    BY <1>2 DEF OperatorSets, SetStatus
  <2>2. \A q \in charged : pay'[q] # "none"
    BY <2>1 DEF TypeOK, ChargesAreReported
  <2>3. \A q \in Payments :
          \/ pay'[q] = pay[q]
          \/ CanMove(pay[q], pay'[q])
    BY <2>1 DEF TypeOK
  <2> QED BY <1>s, <2>1, <2>2, <2>3 DEF Gone
<1>3. ASSUME NEW o \in Orders, OperatorStep(o) PROVE StaysSettled
  <2>1. PICK from \in {"draft", "placed", "moved"}, to \in {"placed", "moved", "cancelled", "deleted"} :
          MoveOrder(o, from, to)
    BY <1>3 DEF OperatorStep
  <2>2. \A q \in Payments :
          /\ order[OrderOf[q]] \notin {"absent", "draft"} =>
                 order'[OrderOf[q]] \notin {"absent", "draft"}
          /\ Gone(q) => Gone(q)'
    BY <2>1 DEF MoveOrder, TypeOK, Gone
  <2>3. UNCHANGED <<pay, event, charged, early>>
    BY <2>1 DEF MoveOrder
  <2> QED BY <1>s, <2>2, <2>3 DEF ChargesAreReported
<1>4. ASSUME NEW p \in Payments, Charge(p) PROVE StaysSettled
  <2>1. /\ pay[p] # "none" /\ charged' = charged \cup {p}
        /\ event' = [event EXCEPT ![Paid(p)] = "sent"]
        /\ UNCHANGED <<order, pay, early>>
    BY <1>4 DEF Charge
  <2>2. \A e \in Events : /\ event[e] # "none" => event'[e] # "none"
                          /\ Handled(e)' => Handled(e)
                          /\ event'[e] = "marked" => event[e] = "marked"
                          /\ e.kind # "succeeded" => event'[e] = event[e]
    BY <2>1, <1>p DEF TypeOK, Handled
  <2>3. event'[Paid(p)] # "none"
    BY <2>1, <1>p DEF TypeOK
  <2> QED BY <2>1, <2>2, <2>3, <1>p DEF StaysSettled, ChargesAreReported, Gone, TypeOK
<1>5. ASSUME NEW p \in Payments, p \in charged, NEW x \in Events, x.kind # "succeeded",
             x.kind = "refunded" => x.of = p,
             event' = [event EXCEPT ![x] = "sent"],
             UNCHANGED <<order, pay, charged, early>>
      PROVE  StaysSettled
  <2>1. \A e \in Events : /\ event[e] # "none" => event'[e] # "none"
                          /\ Handled(e)' => Handled(e)
                          /\ event'[e] = "marked" => event[e] = "marked"
                          /\ e # x => event'[e] = event[e]
    BY <1>5 DEF TypeOK, Handled
  <2>2. \A e \in Events : e.kind = "refunded" /\ event'[e] # "none" => e.of \in charged'
    BY <1>5, <2>1 DEF ChargesAreReported
  <2>3. \A q \in charged' : event'[Paid(q)] # "none" /\ pay'[q] # "none"
    BY <1>5, <2>1, <1>p DEF ChargesAreReported, TypeOK
  <2> QED BY <1>5, <2>1, <2>2, <2>3 DEF StaysSettled, Gone
<1>6. ASSUME NEW p \in Payments, NEW n \in Int, CanGiveBack(p, n), GiveBack(p, n),
             UNCHANGED <<order, pay, charged, early>>
      PROVE  StaysSettled
  <2>1. /\ p \in charged /\ money[p] + n \in 1..Amount[p]
        /\ event' = [event EXCEPT ![GivenBack(p, money[p] + n)] = "sent"]
    BY <1>6 DEF CanGiveBack, GiveBack, TypeOK
  <2>2. GivenBack(p, money[p] + n) \in Events
    BY <2>1 DEF Events
  <2>3. GivenBack(p, money[p] + n).of = p /\ GivenBack(p, money[p] + n).kind = "refunded"
    BY <2>1, EventFacts
  <2> QED BY <1>5, <1>6, <2>1, <2>2, <2>3
<1>7. ASSUME NEW p \in Payments, ProviderStep(p) PROVE StaysSettled
  <2>1. CASE Charge(p)
    BY <2>1, <1>4
  <2>2. ASSUME NEW n \in Outside, RefundOutside(p, n) PROVE StaysSettled
    <3>1. n \in Int /\ CanGiveBack(p, n) /\ GiveBack(p, n) /\ UNCHANGED <<order, pay, charged, early>>
      BY <2>2 DEF RefundOutside
    <3> QED BY <3>1, <1>6
  <2>3. CASE Dispute(p)
    <3>1. p \in charged /\ event' = [event EXCEPT ![Disputed(p)] = "sent"]
          /\ UNCHANGED <<order, pay, charged, early>>
      BY <2>3 DEF Dispute
    <3> QED BY <3>1, <1>5, <1>p
  <2> QED BY <1>7, <2>1, <2>2, <2>3 DEF ProviderStep
<1>8. ASSUME NEW r \in Requests, RequestStep(r) PROVE StaysSettled
  <2>1. CASE CallProvider(r)
    <3>1. AskFor(r) \in Int
      BY <1>r DEF AskFor, TypeOK
    <3>2. CanGiveBack(For[r], AskFor(r)) /\ GiveBack(For[r], AskFor(r))
          /\ UNCHANGED <<order, pay, charged, early>>
      BY <2>1 DEF CallProvider
    <3> QED BY <1>r, <3>1, <3>2, <1>6
  <2>2. CASE WriteLedger(r)
    <3>1. /\ pay[For[r]] = "succeeded"
          /\ \/ pay' = pay
             \/ pay' = [pay EXCEPT ![For[r]] = "refunded"]
          /\ UNCHANGED <<order, event, charged, early>>
      BY <2>2, <1>r DEF WriteLedger, Refundable, TypeOK
    <3>2. \A q \in charged : pay'[q] # "none"
      BY <3>1, <1>r DEF TypeOK, ChargesAreReported
    <3>3. \A q \in Payments :
            pay'[q] = pay[q] \/ (CanMove(pay[q], pay'[q]))
      BY <3>1, <1>r DEF TypeOK, CanMove
    <3> QED BY <1>s, <3>1, <3>2, <3>3 DEF Gone
  <2>3. CASE ProviderRefuses(r) \/ SkipProvider(r) \/ Replay(r) \/ Refuse(r) \/ SendAgain(r)
    <3>1. UNCHANGED <<order, pay, event, charged, early>>
      BY <2>3 DEF ProviderRefuses, SkipProvider, Replay, Refuse, SendAgain
    <3> QED BY <1>s, <3>1 DEF Gone, ChargesAreReported
  <2> QED BY <1>8, <2>1, <2>2, <2>3 DEF RequestStep
<1> QED BY <1>1, <1>2, <1>3, <1>7, <1>8

(* Nothing but a webhook call answers an event.                            *)
LEMMA OthersSend ==
    ASSUME IInv,
           \/ \E p \in Payments : Checkout(p) \/ \E s \in PayStatuses : OperatorSets(p, s)
           \/ \E p \in Payments : ProviderStep(p)
           \/ \E o \in Orders : OperatorStep(o)
           \/ \E r \in Requests : RequestStep(r)
    PROVE  event' = event \/ \E x \in Events : event' = [event EXCEPT ![x] = "sent"]
<1> USE DEF IInv
<1>1. ASSUME NEW p \in Payments, ProviderStep(p)
      PROVE  event' = event \/ \E x : event' = [event EXCEPT ![x] = "sent"]
  BY <1>1 DEF ProviderStep, Charge, RefundOutside, GiveBack, Dispute
<1>2. ASSUME NEW r \in Requests, RequestStep(r)
      PROVE  event' = event \/ \E x : event' = [event EXCEPT ![x] = "sent"]
  BY <1>2 DEF RequestStep, CallProvider, GiveBack, WriteLedger, ProviderRefuses, SkipProvider,
              Replay,               Refuse, SendAgain
<1>3. ASSUME \/ \E p \in Payments : Checkout(p) \/ \E s \in PayStatuses : OperatorSets(p, s)
             \/ \E o \in Orders : OperatorStep(o)
      PROVE  event' = event
  BY <1>3 DEF Checkout, OperatorSets, OperatorStep, MoveOrder
<1>4. ASSUME NEW x, event' = [event EXCEPT ![x] = "sent"]
      PROVE  event' = event \/ \E y \in Events : event' = [event EXCEPT ![y] = "sent"]
  <2>1. CASE x \in Events
    BY <2>1, <1>4
  <2>2. CASE x \notin Events
    BY <2>2, <1>4 DEF TypeOK
  <2> QED BY <2>1, <2>2
<1> QED BY <1>1, <1>2, <1>3, <1>4

(* A webhook call: of its own event it leaves behind what the invariant    *)
(* asks, and what it does to the payment is a transition or nothing.       *)
LEMMA HandleSettles ==
    ASSUME SettledInv, IInv', NEW e \in Events, Handle(e) \/ CrashInDispute(e)
    PROVE  SettledInv'
<1> USE DEF SettledInv, IInv
<1>e. \A f \in Events : f.of \in Payments /\ f.kind \in {"succeeded", "dispute", "refunded"}
  BY EventFacts
<1>p. \A p \in Payments : Paid(p) \in Events /\ Disputed(p) \in Events /\ Paid(p).of = p
                          /\ Paid(p).kind = "succeeded" /\ Disputed(p).kind = "dispute"
  BY EventFacts
<1>o. \A p \in Payments : OrderOf[p] \in Orders
  OBVIOUS
<1>1. UNCHANGED charged
  BY DEF Handle, SettleAndPlace, SettleOnly, RecordRefund, MarkDisputed, WarnOfDispute,
         DropEvent, CrashInDispute
<1>2. /\ event[e] # "none"
      /\ \A f \in Events : f # e => event'[f] = event[f]
      /\ event'[e] # "none"
  BY DEF Handle, SettleAndPlace, SettleOnly, RecordRefund, MarkDisputed, WarnOfDispute,
         DropEvent, CrashInDispute, Arrives, Answer, TypeOK
<1>3. e.kind # "dispute" => e.of \in charged /\ pay[e.of] # "none"
  BY <1>2, EventNames, <1>e DEF ChargesAreReported, ReportedWasCharged
(* What happens to the payment and the order of the event. *)
<1>4. /\ \A p \in Payments : p # e.of => pay'[p] = pay[p]
      /\ \A o \in Orders : \/ order'[o] = order[o]
                           \/ order[o] = "draft" /\ order'[o] = "placed"
  BY DEF Handle, SettleAndPlace, SettleOnly, RecordRefund, MarkDisputed, WarnOfDispute,
         DropEvent, CrashInDispute, SettleRow, SetStatus, Places, TypeOK
<1>5. pay'[e.of] = pay[e.of] \/ CanMove(pay[e.of], pay'[e.of])
  BY <1>e DEF Handle, SettleAndPlace, SettleOnly, RecordRefund, MarkDisputed, WarnOfDispute,
         DropEvent, CrashInDispute, SettleRow, SetStatus, Places, TypeOK
<1>6. early \subseteq early'
  BY DEF Handle, SettleAndPlace, SettleOnly, RecordRefund, MarkDisputed, WarnOfDispute,
         DropEvent, CrashInDispute
<1>7. ChargesAreReported'
  <2>1. \A p \in Payments : pay[p] # "none" => pay'[p] # "none"
    BY <1>4, <1>5 DEF CanMove
  <2>2. \A p \in Payments : event[Paid(p)] # "none" => event'[Paid(p)] # "none"
    BY <1>2, <1>p
  <2> QED BY <1>1, <1>2, <2>1, <2>2 DEF ChargesAreReported, TypeOK
<1>s. ASSUME NEW p \in Payments, order[OrderOf[p]] \notin {"absent", "draft"}
      PROVE  order'[OrderOf[p]] = order[OrderOf[p]]
  BY <1>s, <1>4, <1>o
<1>w. /\ WarnOfDispute(e) => e.kind = "dispute"
      /\ MarkedIsDispute'
  <2>1. WarnOfDispute(e) => e.kind = "dispute"
    BY DEF WarnOfDispute, MarkedIsDispute
  <2>2. event'[e] = "marked" => e.kind = "dispute"
    BY DEF Handle, SettleAndPlace, SettleOnly, RecordRefund, MarkDisputed, WarnOfDispute,
           DropEvent, CrashInDispute, Answer, TypeOK
  <2> QED BY <1>2, <2>1, <2>2 DEF MarkedIsDispute
<1>9. SuccessIsSettled'
  <2> SUFFICES ASSUME NEW f \in Events, f.kind = "succeeded", Handled(f)'
               PROVE  /\ order'[OrderOf[f.of]] \notin {"absent", "draft"}
                      /\ Gone(f.of)' \/ pay'[f.of] \in {"succeeded", "disputed", "failed", "refunded"}
    BY DEF SuccessIsSettled
  <2>1. CASE Handled(f)
    <3>1. /\ order[OrderOf[f.of]] \notin {"absent", "draft"}
          /\ Gone(f.of) \/ pay[f.of] \in {"succeeded", "disputed", "failed", "refunded"}
      BY <2>1 DEF SuccessIsSettled
    <3>2. order'[OrderOf[f.of]] = order[OrderOf[f.of]]
      BY <3>1, <1>s, <1>e
    <3>3. pay'[f.of] = pay[f.of] \/ CanMove(pay[f.of], pay'[f.of])
      BY <1>4, <1>5, <1>e
    <3> QED BY <3>1, <3>2, <3>3 DEF CanMove, Gone
  <2>2. CASE ~ Handled(f)
    <3>1. f = e /\ e.kind = "succeeded"
      BY <2>2, <1>2 DEF Handled
    <3>2. pay[e.of] # "none" /\ pay[e.of] \in PayStatuses
      BY <1>3, <3>1, <1>e DEF TypeOK
    <3>3. SettleAndPlace(e) \/ SettleOnly(e) \/ DropEvent(e)
      BY <3>1, <2>2, <1>w DEF Handle, RecordRefund, MarkDisputed, CrashInDispute, Handled, TypeOK
    <3>4. CASE SettleAndPlace(e) \/ SettleOnly(e)
      <4>1. SettleRow(e.of, "succeeded")
        BY <3>4 DEF SettleAndPlace, SettleOnly
      <4>2. pay'[e.of] \in {"succeeded", "failed", "refunded"}
        BY <4>1, <3>2, <1>e DEF SettleRow, SetStatus, CanMove, TypeOK
      <4>3. order'[OrderOf[e.of]] \notin {"absent", "draft"}
        BY <3>4, <1>e, <1>o DEF SettleAndPlace, SettleOnly, TypeOK
      <4> QED BY <3>1, <4>2, <4>3
    <3>5. CASE DropEvent(e)
      BY <3>1, <3>5 DEF DropEvent, Gone
    <3> QED BY <3>3, <3>4, <3>5
  <2> QED BY <2>1, <2>2
<1>10. RefundIsSettled'
  <2> SUFFICES ASSUME NEW f \in Events, f \notin early', f.kind = "refunded", Handled(f)'
               PROVE  Gone(f.of)' \/ pay'[f.of] \in {"failed", "refunded"}
    BY DEF RefundIsSettled
  <2>1. CASE Handled(f)
    <3>1. Gone(f.of) \/ pay[f.of] \in {"failed", "refunded"}
      BY <2>1, <1>6 DEF RefundIsSettled
    <3>2. pay'[f.of] = pay[f.of] \/ CanMove(pay[f.of], pay'[f.of])
      BY <1>4, <1>5, <1>e
    <3>3. Gone(f.of) => Gone(f.of)'
      BY <1>s, <1>e DEF Gone
    <3> QED BY <3>1, <3>2, <3>3 DEF CanMove
  <2>2. CASE ~ Handled(f)
    <3>1. f = e /\ e.kind = "refunded"
      BY <2>2, <1>2 DEF Handled
    <3>3. RecordRefund(e) \/ DropEvent(e)
      BY <3>1, <2>2, <1>w DEF Handle, SettleAndPlace, SettleOnly, MarkDisputed,
                             CrashInDispute, Handled, TypeOK
    <3>4. CASE RecordRefund(e)
      <4>2. pay[e.of] \in {"succeeded", "disputed", "failed", "refunded"}
        BY <3>1, <3>4, <1>3, <1>e DEF RecordRefund, TypeOK
      <4>3. ~ Gone(e.of) /\ SettleRow(e.of, "refunded")
        BY <3>4 DEF RecordRefund, Gone
      <4>4. pay'[e.of] \in {"failed", "refunded"}
        BY <4>2, <4>3, <1>e DEF SettleRow, SetStatus, CanMove, TypeOK
      <4> QED BY <3>1, <4>4
    <3>5. CASE DropEvent(e)
      BY <3>1, <3>5 DEF DropEvent, Gone
    <3> QED BY <3>3, <3>4, <3>5
  <2> QED BY <2>1, <2>2
<1> QED BY <1>7, <1>9, <1>10, <1>w

(* An event that was handled and is answered now has nothing left to do.   *)
LEMMA SettledAgain ==
    ASSUME SettledInv, NEW e \in Events, NEW f \in Events, Handle(f) \/ CrashInDispute(f),
           event[e] = "handled", event'[e] = "done", pay[e.of] # "disputed", e \notin early
    PROVE  UNCHANGED <<order, pay, ledger, told>>
<1> USE DEF SettledInv, IInv
<1>1. f = e
  <2>1. \/ Answer(f)
        \/ event' = [event EXCEPT ![f] = "marked"]
        \/ event' = [event EXCEPT ![f] = "sent"]
    BY DEF Handle, SettleAndPlace, SettleOnly, RecordRefund, MarkDisputed, WarnOfDispute,
           DropEvent, CrashInDispute
  <2> QED BY <2>1 DEF Answer, TypeOK
<1>2. e.of \in Payments /\ OrderOf[e.of] \in Orders
  BY EventFacts
<1>4. CASE SettleAndPlace(e) \/ SettleOnly(e)
  <2>1. /\ order[OrderOf[e.of]] \notin {"absent", "draft"}
        /\ Gone(e.of) \/ pay[e.of] \in {"succeeded", "disputed", "failed", "refunded"}
    BY <1>4 DEF SettleAndPlace, SettleOnly, SuccessIsSettled, Handled
  <2>2. SettleOnly(e) /\ ~ Gone(e.of)
    BY <1>4, <2>1 DEF SettleAndPlace, SettleOnly, Places, Gone
  <2>3. ~ CanMove(pay[e.of], "succeeded")
    BY <2>1, <2>2 DEF CanMove
  <2> QED BY <2>2, <2>3 DEF SettleOnly, SettleRow
<1>5. CASE RecordRefund(e)
  <2>1. pay[e.of] \in {"failed", "refunded"}
    BY <1>5 DEF RecordRefund, RefundIsSettled, Handled, Gone
  <2>2. ~ CanMove(pay[e.of], "refunded")
    BY <2>1 DEF CanMove
  <2> QED BY <1>5, <2>2 DEF RecordRefund, SettleRow
<1>6. CASE DropEvent(e)
  BY <1>6 DEF DropEvent
<1>7. ~ MarkDisputed(e) /\ ~ WarnOfDispute(e) /\ ~ CrashInDispute(e)
  BY <1>1 DEF MarkDisputed, WarnOfDispute, CrashInDispute, TypeOK
<1> QED BY <1>1, <1>4, <1>5, <1>6, <1>7 DEF Handle

(* "Every function here must be IDEMPOTENT" (checkout-settlement.ts): in   *)
(* whatever order events arrive, one that was handled and comes again      *)
(* changes nothing of payments and orders, whatever happened to them since,*)
(* unless the payment is disputed or the event is a refund that came       *)
(* before its charge was recorded.                                         *)
THEOREM RedeliveryIsHarmless == Spec => RedeliveryChangesNothing
<1>1. SettledInv /\ [Next]_vars => SettledInv'
  <2> SUFFICES ASSUME SettledInv, [Next]_vars PROVE SettledInv'
    OBVIOUS
  <2>1. IInv'
    BY StepIInv DEF SettledInv
  <2>2. CASE \E e \in Events : Handle(e) \/ CrashInDispute(e)
    BY <2>1, <2>2, HandleSettles
  <2>3. CASE UNCHANGED vars
    BY <2>1, <2>3 DEF vars, SettledInv, MarkedIsDispute, ChargesAreReported, 
                      SuccessIsSettled, RefundIsSettled, Handled, Gone
  <2>4. CASE \/ \E p \in Payments : Checkout(p) \/ \E s \in PayStatuses : OperatorSets(p, s)
             \/ \E p \in Payments : ProviderStep(p)
             \/ \E o \in Orders : OperatorStep(o)
             \/ \E r \in Requests : RequestStep(r)
    BY <2>1, <2>4, OthersSettle, SettledStays
  <2> QED BY <2>2, <2>3, <2>4 DEF Next
<1>2. Spec => []SettledInv
  BY <1>1, InitSettled, PTL DEF Spec
<1> DEFINE Harmless ==
        \A e \in Events :
            /\ event[e] = "handled"
            /\ event'[e] = "done"
            /\ pay[e.of] # "disputed"
            /\ e \notin early
            => UNCHANGED <<order, pay, ledger, told>>
<1>3. SettledInv /\ [Next]_vars => [Harmless]_vars
  <2> SUFFICES ASSUME SettledInv, Next,
                      NEW e \in Events, event[e] = "handled", event'[e] = "done",
                      pay[e.of] # "disputed", e \notin early
               PROVE  UNCHANGED <<order, pay, ledger, told>>
    OBVIOUS
  <2>1. CASE \E f \in Events : Handle(f) \/ CrashInDispute(f)
    BY <2>1, SettledAgain
  <2>2. CASE \/ \E p \in Payments : Checkout(p) \/ \E s \in PayStatuses : OperatorSets(p, s)
             \/ \E p \in Payments : ProviderStep(p)
             \/ \E o \in Orders : OperatorStep(o)
             \/ \E r \in Requests : RequestStep(r)
    <3>1. \/ event' = event
          \/ \E x \in Events : event' = [event EXCEPT ![x] = "sent"]
      BY <2>2, OthersSend DEF SettledInv
    <3> QED BY <3>1 DEF SettledInv, IInv, TypeOK
  <2> QED BY <2>1, <2>2 DEF Next
<1> QED BY <1>2, <1>3, PTL DEF Spec, RedeliveryChangesNothing

=============================================================================

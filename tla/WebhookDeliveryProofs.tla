----------------------- MODULE WebhookDeliveryProofs -----------------------
(***************************************************************************)
(* The bound on the calls an endpoint receives, the truth of what the      *)
(* customer is shown and the reason an endpoint is disabled, for any number*)
(* of endpoints, events and workers, any lease and any backoff, whatever   *)
(* crashes and lapses; and that an event is acknowledged once, but for     *)
(* replays and for workers that lost it.                                   *)
(***************************************************************************)
EXTENDS WebhookDelivery, FiniteSetTheorems, TLAPS

USE EndpointsAssumption, WantsAssumption, WorkersAssumption, AttemptsAssumption,
    LeaseAssumption, BackoffAssumption, DisableAssumption, BoundsAssumption
    DEF EndpointsAssumption, WantsAssumption, WorkersAssumption, AttemptsAssumption,
        LeaseAssumption, BackoffAssumption, DisableAssumption, BoundsAssumption,
        customers, fans, rows, workers, history, EndpointStates, Phases, Statuses

(* The workers that hold a row are finitely many.                          *)
LEMMA HoldersFinite ==
    ASSUME NEW d
    PROVE  IsFiniteSet(Holders(d)) /\ Cardinality(Holders(d)) \in Nat
<1>1. Holders(d) \in SUBSET Workers
  BY DEF Holders
<1>2. IsFiniteSet(Holders(d))
  BY <1>1, FS_Subset
<1> QED BY <1>2, FS_CardinalityType

(* Bounds: as many attempts again for each replay.                         *)
LEMMA OneMoreReplay ==
    ASSUME NEW n \in Nat
    PROVE  /\ MaxAttempts * n \in Nat
           /\ MaxAttempts * (n + 1) = MaxAttempts + MaxAttempts * n
           /\ MaxAttempts * (1 + n) = MaxAttempts + MaxAttempts * n
  OBVIOUS

(* A step that calls, claims and replays nothing keeps the accounts.       *)
LEMMA PayKept ==
    ASSUME TypeOK, AttemptsPay, UNCHANGED <<calls, attempts, replays>>,
           \A w \in Workers : todo'[w] \subseteq todo[w]
    PROVE  AttemptsPay'
<1> SUFFICES ASSUME NEW d \in Deliveries
             PROVE  calls[d] + Cardinality(Holders(d)')
                        <= attempts[d] + MaxAttempts * replays[d]
  BY DEF AttemptsPay
<1>1. Holders(d)' \in SUBSET Holders(d)
  BY DEF Holders
<1>2. Cardinality(Holders(d)') <= Cardinality(Holders(d)) /\ Cardinality(Holders(d)') \in Nat
  BY <1>1, HoldersFinite, FS_Subset, FS_CardinalityType
<1>3. Cardinality(Holders(d)) \in Nat
  BY HoldersFinite
<1>4. calls[d] + Cardinality(Holders(d)) <= attempts[d] + MaxAttempts * replays[d]
  BY DEF AttemptsPay
<1>5. calls[d] \in Nat /\ attempts[d] \in Nat /\ MaxAttempts * replays[d] \in Nat
  BY OneMoreReplay DEF TypeOK
<1> QED BY <1>2, <1>3, <1>4, <1>5

(* Nothing is queued and no worker runs.                                   *)
LEMMA InitIInv == Init => IInv
<1> SUFFICES ASSUME Init PROVE IInv
  OBVIOUS
<1>1. TypeOK /\ HeldRows /\ Answered
  BY DEF Init, TypeOK, HeldRows, Answered
<1>2. ASSUME NEW d \in Deliveries
      PROVE  calls[d] + Cardinality(Holders(d)) <= attempts[d] + MaxAttempts * replays[d]
  <2>1. Holders(d) = {}
    BY DEF Init, Holders
  <2>2. Cardinality(Holders(d)) = 0
    BY <2>1, FS_EmptySet
  <2>3. calls[d] = 0 /\ attempts[d] = 0 /\ replays[d] = 0
    BY DEF Init
  <2> QED BY <2>2, <2>3, OneMoreReplay
<1> QED BY <1>1, <1>2 DEF IInv, AttemptsPay

(* What customers and the fan-out do keeps the invariant; a replay resets  *)
(* the attempts of a row and is one more replay.                           *)
LEMMA ReplayStep ==
    ASSUME IInv, NEW r \in Deliveries, Replay(r)
    PROVE  IInv'
<1> USE DEF IInv
<1>0. spent' \in [crashes : 0..MaxCrashes, replays : 0..MaxReplays, edits : 0..MaxEdits]
  <2>1. spent.replays < MaxReplays
    BY DEF Replay
  <2>2. spent.replays \in 0..MaxReplays
    BY DEF TypeOK
  <2>3. spent.replays + 1 \in 0..MaxReplays
    BY <2>1, <2>2
  <2> QED BY <2>3 DEF Replay, TypeOK
<1>1. /\ status' \in [Deliveries -> Statuses] /\ attempts' \in [Deliveries -> 0..MaxAttempts]
      /\ hidden' \in [Deliveries -> Nat] /\ replays' \in [Deliveries -> Nat]
  <2>1. /\ status' = [status EXCEPT ![r] = "pending"] /\ attempts' = [attempts EXCEPT ![r] = 0]
        /\ hidden' = [hidden EXCEPT ![r] = 0] /\ replays' = [replays EXCEPT ![r] = @ + 1]
    BY DEF Replay
  <2>2. /\ status \in [Deliveries -> Statuses] /\ attempts \in [Deliveries -> 0..MaxAttempts]
        /\ hidden \in [Deliveries -> Nat] /\ replays \in [Deliveries -> Nat]
    BY DEF TypeOK
  <2>3. status' \in [Deliveries -> Statuses]
    BY <2>1, <2>2
  <2>4. attempts' \in [Deliveries -> 0..MaxAttempts]
    BY <2>1, <2>2
  <2>5. hidden' \in [Deliveries -> Nat]
    BY <2>1, <2>2
  <2>6. replays' \in [Deliveries -> Nat]
    BY <2>1, <2>2
  <2> QED BY <2>3, <2>4, <2>5, <2>6
<1>2. TypeOK'
  BY <1>0, <1>1 DEF Replay, TypeOK
<1>3. HeldRows' /\ Answered'
  BY DEF Replay, TypeOK, HeldRows, Answered
<1>4. ASSUME NEW d \in Deliveries
      PROVE  calls[d] + Cardinality(Holders(d)) <= attempts'[d] + MaxAttempts * replays'[d]
  <2>1. calls[d] + Cardinality(Holders(d)) <= attempts[d] + MaxAttempts * replays[d]
    BY DEF AttemptsPay
  <2>2. CASE d = r
    <3>1. attempts'[d] = 0 /\ replays'[d] = replays[d] + 1
      BY <2>2 DEF Replay, TypeOK
    <3>2. attempts[d] \in 0..MaxAttempts /\ replays[d] \in Nat /\ calls[d] \in Nat
      BY DEF TypeOK
    <3>3. MaxAttempts * (replays[d] + 1) = MaxAttempts + MaxAttempts * replays[d]
          /\ MaxAttempts * replays[d] \in Nat
      BY <3>2, OneMoreReplay
    <3>4. Cardinality(Holders(d)) \in Nat
      BY HoldersFinite
    <3>5. calls[d] + Cardinality(Holders(d)) <= MaxAttempts * (replays[d] + 1)
      <4> DEFINE paid == MaxAttempts * replays[d]
                 count == Cardinality(Holders(d))
      <4>1. /\ calls[d] \in Nat /\ count \in Nat /\ paid \in Nat
            /\ attempts[d] \in 0..MaxAttempts
            /\ calls[d] + count <= attempts[d] + paid
        BY <2>1, <3>2, <3>3, <3>4
      <4>2. MaxAttempts * (replays[d] + 1) = MaxAttempts + paid
        BY <3>3
      <4> HIDE DEF paid, count
      <4>3. calls[d] + count <= MaxAttempts + paid
        BY <4>1, AttemptsAssumption
      <4>4. calls[d] + count <= MaxAttempts * (replays[d] + 1)
        BY <4>2, <4>3
      <4> QED BY <4>4 DEF paid, count
    <3>6. MaxAttempts * (replays[d] + 1) \in Nat
      BY <3>3
    <3> QED BY <3>1, <3>5, <3>6
  <2>3. CASE d # r
    <3>1. attempts'[d] = attempts[d] /\ replays'[d] = replays[d]
      BY <2>3 DEF Replay, TypeOK
    <3> QED BY <2>1, <3>1
  <2> QED BY <2>2, <2>3
<1>5. \A d \in Deliveries : Holders(d)' = Holders(d) /\ calls' = calls
  BY DEF Replay, Holders
<1>6. AttemptsPay'
  BY <1>4, <1>5 DEF AttemptsPay
<1> QED BY <1>2, <1>3, <1>6

(* A worker that has ended holds nothing.                                  *)
LEMMA NothingReturned == NoRows \in [Deliveries -> 0..MaxAttempts]
  BY DEF NoRows

LEMMA CustomerStep ==
    ASSUME IInv, Customer
    PROVE  IInv'
<1> USE DEF IInv
<1>1. ASSUME NEW p \in Endpoints,
             \/ CountEndpoints(p) \/ CreateEndpoint(p)
             \/ EnableEndpoint(p) \/ DisableEndpoint(p) \/ DeleteEndpoint(p)
      PROVE  IInv'
  <2>1. /\ endpoint' \in [Endpoints -> EndpointStates] /\ creating' \subseteq Endpoints
        /\ queued' \subseteq Deliveries
    BY <1>1 DEF CountEndpoints, CreateEndpoint, EnableEndpoint, DisableEndpoint,
                DeleteEndpoint, TypeOK
  <2>2. spent' \in [crashes : 0..MaxCrashes, replays : 0..MaxReplays, edits : 0..MaxEdits]
    <3>1. Edit \/ UNCHANGED spent
      BY <1>1 DEF CountEndpoints, CreateEndpoint, EnableEndpoint, DisableEndpoint,
                  DeleteEndpoint
    <3>2. Edit => spent.edits \in 0..MaxEdits /\ spent.edits + 1 \in 0..MaxEdits
      BY DEF Edit, TypeOK
    <3>3. ASSUME Edit PROVE spent' \in [crashes : 0..MaxCrashes, replays : 0..MaxReplays, edits : 0..MaxEdits]
      BY <3>2, <3>3 DEF Edit, TypeOK
    <3> QED BY <3>1, <3>3 DEF TypeOK
  <2>3. UNCHANGED <<fans, status, attempts, hidden, born, workers, calls, answers,
                    replays, lost, gaveUp>>
    BY <1>1 DEF CountEndpoints, CreateEndpoint, EnableEndpoint, DisableEndpoint,
                DeleteEndpoint
  <2>4. TypeOK' /\ HeldRows' /\ Answered'
    BY <2>1, <2>2, <2>3 DEF TypeOK, HeldRows, Answered
  <2> QED BY <2>3, <2>4, PayKept
<1>2. ASSUME NEW d \in Deliveries, Replay(d) PROVE IInv'
  BY <1>2, ReplayStep
<1> QED BY <1>1, <1>2 DEF Customer

LEMMA FanOutStep ==
    ASSUME IInv, NEW e \in Events, FanOut(e)
    PROVE  IInv'
<1> USE DEF IInv
<1>1. CASE FanOutRead(e)
  <2>1. TypeOK'
    <3>1. reading \in [Events -> SUBSET Endpoints] /\ fanouts \in 0..MaxFanouts /\ fanning \subseteq Events
      BY DEF TypeOK
    <3>2. /\ fanouts < MaxFanouts /\ fanouts' = fanouts + 1 /\ fanning' = fanning \cup {e}
          /\ reading' = [reading EXCEPT ![e] = {p \in Endpoints : endpoint[p] = "on" /\ <<p, e>> \in Wants}]
          /\ UNCHANGED <<customers, rows, workers, spent, history>>
      BY <1>1 DEF FanOutRead
    <3>3. fanouts' \in 0..MaxFanouts /\ fanning' \subseteq Events
      BY <3>1, <3>2, BoundsAssumption
    <3>4. reading' \in [Events -> SUBSET Endpoints]
      BY <3>1, <3>2
    <3> QED BY <3>2, <3>3, <3>4 DEF TypeOK
  <2> QED BY <1>1, <2>1, PayKept DEF FanOutRead, HeldRows, Answered
<1>2. CASE FanOutInsert(e)
  <2>1. queued' \subseteq Deliveries
    BY <1>2 DEF FanOutInsert, TypeOK, Deliveries
  <2>2. born' \in [Deliveries -> 0..MaxFanouts]
    BY <1>2 DEF FanOutInsert, TypeOK
  <2>3. TypeOK'
    BY <1>2, <2>1, <2>2 DEF FanOutInsert, TypeOK
  <2> QED BY <1>2, <2>3, PayKept DEF FanOutInsert, HeldRows, Answered
<1>3. CASE FanOutFails(e)
  <2>1. TypeOK'
    BY <1>3 DEF FanOutFails, TypeOK
  <2> QED BY <1>3, <2>1, PayKept DEF FanOutFails, HeldRows, Answered
<1> QED BY <1>1, <1>2, <1>3 DEF FanOut

LEMMA TickStep ==
    ASSUME IInv, Tick
    PROVE  IInv'
<1> USE DEF IInv
<1>1. hidden' \in [Deliveries -> Nat] /\ lease' \in [Workers -> Nat]
  <2>1. hidden \in [Deliveries -> Nat] /\ lease \in [Workers -> Nat]
    BY DEF TypeOK
  <2>2. /\ hidden' = [d \in Deliveries |-> Less(hidden[d])]
        /\ lease' = [w \in Workers |-> Less(lease[w])]
    BY DEF Tick
  <2>3. \A n \in Nat : Less(n) \in Nat
    BY DEF Less
  <2>4. hidden' \in [Deliveries -> Nat]
    BY <2>1, <2>2, <2>3
  <2>5. lease' \in [Workers -> Nat]
    BY <2>1, <2>2, <2>3
  <2> QED BY <2>4, <2>5
<1>2. lost' \in [Deliveries -> Nat]
  <2>1. \A d \in Deliveries : lost[d] \in Nat /\ lost[d] + 1 \in Nat
    <3>1. lost \in [Deliveries -> Nat]
      BY DEF TypeOK
    <3> HIDE DEF IInv
    <3> QED BY <3>1
  <2>2. lost' = [d \in Deliveries |->
                   IF \E w \in Workers : lease[w] = 1 /\ Holds(w, d) THEN lost[d] + 1 ELSE lost[d]]
    BY DEF Tick
  <2> QED BY <2>1, <2>2
<1>3. TypeOK'
  BY <1>1, <1>2 DEF Tick, TypeOK
<1> QED BY <1>3, PayKept DEF Tick, HeldRows, Answered

(* A claim counts an attempt for each call it will make.                   *)
LEMMA ClaimStep ==
    ASSUME IInv, NEW w \in Workers, NEW B \in SUBSET Deliveries, Claim(w, B)
    PROVE  IInv'
<1> USE DEF IInv
<1>1. /\ phase[w] = "idle" /\ todo[w] = {} /\ current[w] = {}
      /\ \A d \in B : attempts[d] < MaxAttempts
      /\ attempts' = [d \in Deliveries |-> IF d \in B THEN attempts[d] + 1 ELSE attempts[d]]
      /\ hidden' = [d \in Deliveries |-> IF d \in B THEN Lease ELSE hidden[d]]
      /\ phase' = [phase EXCEPT ![w] = "load"]
      /\ todo' = [todo EXCEPT ![w] = B]
      /\ tries' = [tries EXCEPT ![w] = Returned(B)]
      /\ lease' = [lease EXCEPT ![w] = Lease]
      /\ UNCHANGED <<customers, fans, queued, status, born, loaded, current, spent, history>>
  BY DEF Claim, OldestBatch, Due, HeldRows
<1>2. /\ attempts' \in [Deliveries -> 0..MaxAttempts] /\ hidden' \in [Deliveries -> Nat]
      /\ \A d \in B : attempts'[d] \in 1..MaxAttempts
  <2>1. attempts \in [Deliveries -> 0..MaxAttempts] /\ hidden \in [Deliveries -> Nat]
    BY DEF TypeOK
  <2>2. \A d \in Deliveries : attempts[d] \in 0..MaxAttempts
    BY <2>1
  <2>3. \A d \in B : attempts[d] < MaxAttempts
    BY <1>1
  <2>4. attempts' = [d \in Deliveries |-> IF d \in B THEN attempts[d] + 1 ELSE attempts[d]]
    BY <1>1
  <2>5. \A d \in B : attempts[d] + 1 \in 1..MaxAttempts
    BY <2>2, <2>3
  <2>6. attempts' \in [Deliveries -> 0..MaxAttempts]
    BY <2>2, <2>4, <2>5
  <2>7. \A d \in B : attempts'[d] \in 1..MaxAttempts
    BY <2>4, <2>5
  <2>8. hidden' \in [Deliveries -> Nat]
    BY <1>1, <2>1
  <2> QED BY <2>6, <2>7, <2>8
<1>0. /\ Returned(B) \in [Deliveries -> 0..MaxAttempts]
      /\ \A d \in B : Returned(B)[d] \in 1..MaxAttempts
  <2>1. \A d \in B : attempts[d] + 1 \in 1..MaxAttempts
    <3>1. attempts \in [Deliveries -> 0..MaxAttempts]
      BY DEF TypeOK
    <3>2. \A d \in B : attempts[d] < MaxAttempts
      BY <1>1
    <3> HIDE DEF IInv
    <3> QED BY <3>1, <3>2
  <2>2. Returned(B) = [d \in Deliveries |-> IF d \in B THEN attempts[d] + 1 ELSE 0]
    BY DEF Returned
  <2> QED BY <2>1, <2>2
<1>3. TypeOK'
  <2>1. tries' \in [Workers -> [Deliveries -> 0..MaxAttempts]]
    BY <1>0, <1>1 DEF TypeOK
  <2> QED BY <1>1, <1>2, <2>1 DEF TypeOK
<1>4. HeldRows'
  <2>1. \A x \in Workers \ {w} : /\ todo'[x] = todo[x] /\ tries'[x] = tries[x]
                                 /\ phase'[x] = phase[x]
    BY <1>1 DEF TypeOK
  <2>2. todo'[w] = B /\ tries'[w] = Returned(B) /\ phase'[w] = "load"
    BY <1>1 DEF TypeOK
  <2> QED BY <1>0, <1>1, <2>1, <2>2 DEF HeldRows
<1>5. Answered'
  BY <1>1 DEF Answered
<1>6. ASSUME NEW d \in Deliveries
      PROVE  calls[d] + Cardinality(Holders(d)') <= attempts'[d] + MaxAttempts * replays[d]
  <2>1. /\ calls[d] + Cardinality(Holders(d)) <= attempts[d] + MaxAttempts * replays[d]
        /\ calls[d] \in Nat /\ attempts[d] \in Nat /\ MaxAttempts * replays[d] \in Nat
        /\ Cardinality(Holders(d)) \in Nat
    <3>1. calls[d] \in Nat /\ attempts[d] \in Nat /\ replays[d] \in Nat
      BY DEF TypeOK
    <3>2. MaxAttempts * replays[d] \in Nat
      BY <3>1, OneMoreReplay
    <3>3. calls[d] + Cardinality(Holders(d)) <= attempts[d] + MaxAttempts * replays[d]
      BY DEF AttemptsPay
    <3> QED BY <3>1, <3>2, <3>3, HoldersFinite
  <2>2. CASE d \in B
    <3>1. Holders(d)' = Holders(d) \cup {w} /\ w \notin Holders(d)
      <4>1. todo \in [Workers -> SUBSET Deliveries] /\ todo' = [todo EXCEPT ![w] = B]
        BY <1>1 DEF TypeOK
      <4>2. todo[w] = {}
        BY <1>1
      <4> QED BY <4>1, <4>2, <2>2 DEF Holders
    <3>2. Cardinality(Holders(d)') = Cardinality(Holders(d)) + 1
      BY <3>1, HoldersFinite, FS_AddElement
    <3>3. attempts'[d] = attempts[d] + 1
      BY <1>1, <2>2
    <3> QED BY <2>1, <3>2, <3>3
  <2>3. CASE d \notin B
    <3>1. Holders(d)' = Holders(d)
      BY <1>1, <2>3 DEF Holders, TypeOK
    <3>2. attempts'[d] = attempts[d]
      BY <1>1, <2>3
    <3> QED BY <2>1, <3>1, <3>2
  <2> QED BY <2>2, <2>3
<1>7. AttemptsPay'
  BY <1>1, <1>6 DEF AttemptsPay
<1> QED BY <1>3, <1>4, <1>5, <1>7

(* A call uses up the claim that paid for it.                              *)
LEMMA CallStep ==
    ASSUME IInv, NEW w \in Workers, NEW r \in Deliveries,
           CallAnswered(w, r) \/ CallFailed(w, r)
    PROVE  IInv'
<1> USE DEF IInv
<1>1. /\ phase[w] = "run" /\ r \in todo[w]
      /\ todo' = [todo EXCEPT ![w] = @ \ {r}]
      /\ current' = [current EXCEPT ![w] = {r}]
      /\ calls' = [calls EXCEPT ![r] = Counted(@)]
      /\ UNCHANGED <<customers, fans, rows, tries, loaded, lease, spent, replays, lost, gaveUp>>
  BY DEF CallAnswered, CallFailed, Call
<1>2. \A n \in Nat : Counted(n) \in Nat /\ Counted(n) <= n + 1
                    /\ Counted(n) >= n
  BY DEF Counted
<1>3. \/ phase' = [phase EXCEPT ![w] = "answered"] /\ answers' = [answers EXCEPT ![r] = Counted(@)]
      \/ phase' = [phase EXCEPT ![w] = "failed"] /\ answers' = answers
  BY DEF CallAnswered, CallFailed
<1>4. \A n \in Nat : Counted(n) > 0
  <2>1. HistoryCap > 0
    <3>1. 1 + MaxReplays \in Nat /\ MaxAttempts * (1 + MaxReplays) \in Nat
      BY OneMoreReplay
    <3> QED BY <3>1 DEF HistoryCap
  <2> QED BY <2>1 DEF Counted
<1>5. /\ calls' \in [Deliveries -> Nat] /\ answers' \in [Deliveries -> Nat]
      /\ \A d \in Deliveries : answers'[d] >= answers[d]
  <2>1. calls' \in [Deliveries -> Nat]
    BY <1>1, <1>2 DEF TypeOK
  <2>2. answers' \in [Deliveries -> Nat] /\ \A d \in Deliveries : answers'[d] >= answers[d]
    <3>1. answers \in [Deliveries -> Nat]
      BY DEF TypeOK
    <3>2. CASE answers' = [answers EXCEPT ![r] = Counted(@)]
      <4>1. answers[r] \in Nat
        BY <3>1
      <4>2. Counted(answers[r]) \in Nat /\ Counted(answers[r]) >= answers[r]
        BY <1>2, <4>1
      <4>3. answers' \in [Deliveries -> Nat]
        BY <3>1, <3>2, <4>2
      <4>4. \A d \in Deliveries : d # r => answers'[d] = answers[d]
        BY <3>1, <3>2
      <4>5. answers'[r] >= answers[r]
        BY <3>1, <3>2, <4>2
      <4> QED BY <3>1, <4>3, <4>4, <4>5
    <3>3. CASE answers' = answers
      BY <3>1, <3>3
    <3> QED BY <1>3, <3>2, <3>3
  <2> QED BY <2>1, <2>2
<1>6. TypeOK'
  <2>1. phase' \in [Workers -> Phases]
    BY <1>3 DEF TypeOK
  <2>2. todo' \in [Workers -> SUBSET Deliveries] /\ current' \in [Workers -> SUBSET Deliveries]
    BY <1>1 DEF TypeOK
  <2> QED BY <1>1, <1>5, <2>1, <2>2 DEF TypeOK
<1>7. HeldRows'
  <2>1. \A x \in Workers \ {w} : /\ todo'[x] = todo[x] /\ current'[x] = current[x]
                                 /\ phase'[x] = phase[x]
    BY <1>1, <1>3 DEF TypeOK
  <2>2. todo'[w] \subseteq todo[w] /\ current'[w] = {r}
    BY <1>1 DEF TypeOK
  <2>3. phase'[w] \in {"answered", "failed"}
    BY <1>3 DEF TypeOK
  <2>4. phase'[w] = "answered" => answers'[r] > 0
    <3>1. phase \in [Workers -> Phases] /\ answers \in [Deliveries -> Nat]
      BY DEF TypeOK
    <3>2. CASE phase' = [phase EXCEPT ![w] = "answered"] /\ answers' = [answers EXCEPT ![r] = Counted(@)]
      <4>1. answers'[r] = Counted(answers[r]) /\ answers[r] \in Nat
        BY <3>1, <3>2
      <4> QED BY <1>4, <4>1
    <3>3. CASE phase' = [phase EXCEPT ![w] = "failed"]
      <4>1. phase'[w] = "failed"
        BY <3>1, <3>3
      <4> QED BY <4>1
    <3> QED BY <1>3, <3>2, <3>3
  <2>5. \A x \in Workers \ {w} : \A d \in current[x] : phase[x] = "answered" => answers'[d] > 0
    <3> SUFFICES ASSUME NEW x \in Workers, NEW d \in current[x], phase[x] = "answered"
                 PROVE  answers'[d] > 0
      OBVIOUS
    <3>1. d \in Deliveries
      BY DEF TypeOK
    <3>2. answers[d] > 0
      BY DEF HeldRows
    <3>3. answers[d] \in Nat /\ answers'[d] \in Nat /\ answers'[d] >= answers[d]
      BY <3>1, <1>5 DEF TypeOK
    <3> QED BY <3>2, <3>3
  <2> QED BY <1>1, <2>1, <2>2, <2>3, <2>4, <2>5 DEF HeldRows
<1>8. Answered'
  <2> SUFFICES ASSUME NEW d \in Deliveries, status'[d] = "succeeded"
               PROVE  answers'[d] > 0
    BY DEF Answered
  <2>1. answers[d] > 0
    BY <1>1 DEF Answered
  <2>2. answers[d] \in Nat /\ answers'[d] \in Nat /\ answers'[d] >= answers[d]
    BY <1>5 DEF TypeOK
  <2> QED BY <2>1, <2>2
<1>9. ASSUME NEW d \in Deliveries
      PROVE  calls'[d] + Cardinality(Holders(d)') <= attempts[d] + MaxAttempts * replays[d]
  <2>1. /\ calls[d] + Cardinality(Holders(d)) <= attempts[d] + MaxAttempts * replays[d]
        /\ calls[d] \in Nat /\ calls'[d] \in Nat
        /\ attempts[d] \in Nat /\ MaxAttempts * replays[d] \in Nat
        /\ Cardinality(Holders(d)) \in Nat
    <3>1. calls[d] \in Nat /\ attempts[d] \in Nat /\ replays[d] \in Nat
      BY DEF TypeOK
    <3>2. MaxAttempts * replays[d] \in Nat
      BY <3>1, OneMoreReplay
    <3>3. calls[d] + Cardinality(Holders(d)) <= attempts[d] + MaxAttempts * replays[d]
      BY DEF AttemptsPay
    <3>4. calls'[d] \in Nat
      BY <1>5
    <3> QED BY <3>1, <3>2, <3>3, <3>4, HoldersFinite
  <2>2. CASE d = r
    <3>1. Holders(d)' = Holders(d) \ {w} /\ w \in Holders(d)
      BY <1>1, <2>2 DEF Holders, TypeOK
    <3>2. Cardinality(Holders(d)') = Cardinality(Holders(d)) - 1
      BY ONLY <3>1, HoldersFinite, FS_RemoveElement
    <3>3. calls'[d] <= calls[d] + 1
      BY <1>1, <1>2, <2>1, <2>2 DEF TypeOK
    <3> QED BY <2>1, <3>2, <3>3
  <2>3. CASE d # r
    <3>1. Holders(d)' = Holders(d) /\ calls'[d] = calls[d]
      BY <1>1, <2>3 DEF Holders, TypeOK
    <3> QED BY <2>1, <3>1
  <2> QED BY <2>2, <2>3
<1>10. AttemptsPay'
  BY <1>1, <1>9 DEF AttemptsPay
<1> QED BY <1>6, <1>7, <1>8, <1>10

(* The other steps of a worker; a success is marked after an answer.       *)
LEMMA WorkStep ==
    ASSUME IInv, NEW w \in Workers, Works(w)
    PROVE  IInv'
<1> USE DEF IInv
<1>1. CASE Load(w)
  <2>1. TypeOK' /\ HeldRows'
    BY <1>1 DEF Load, Existing, TypeOK, HeldRows
  <2> QED BY <1>1, <2>1, PayKept DEF Load, Answered
<1>2. ASSUME NEW d \in Deliveries, Skip(w, d) PROVE IInv'
  <2>1. TypeOK' /\ HeldRows'
    BY <1>2 DEF Skip, TypeOK, HeldRows
  <2>2. \A x \in Workers : todo'[x] \subseteq todo[x]
    BY <1>2 DEF Skip, TypeOK
  <2> QED BY <1>2, <2>1, <2>2, PayKept DEF Skip, Answered
<1>3. ASSUME NEW d \in Deliveries, CallAnswered(w, d) \/ CallFailed(w, d) PROVE IInv'
  BY <1>3, CallStep
<1>4. ASSUME NEW d \in Deliveries, MarkSucceeded(w, d) PROVE IInv'
  <2>1. answers[d] > 0
    BY <1>4 DEF MarkSucceeded, HeldRows
  <2>2. TypeOK'
    BY <1>4 DEF MarkSucceeded, TypeOK
  <2>3. HeldRows'
    BY <1>4 DEF MarkSucceeded, TypeOK, HeldRows
  <2>4. Answered'
    BY <1>4, <2>1 DEF MarkSucceeded, TypeOK, Answered
  <2> QED BY <1>4, <2>2, <2>3, <2>4, PayKept DEF MarkSucceeded
<1>5. ASSUME NEW d \in Deliveries, MarkRetrying(w, d) PROVE IInv'
  <2>1. tries[w][d] \in 1..MaxAttempts
    BY <1>5 DEF MarkRetrying, HeldRows
  <2>2. Backoff[tries[w][d]] \in Nat
    BY <2>1
  <2>3. hidden' \in [Deliveries -> Nat] /\ status' \in [Deliveries -> Statuses]
    BY <1>5, <2>2 DEF MarkRetrying, TypeOK
  <2>4. TypeOK'
    BY <1>5, <2>3 DEF MarkRetrying, TypeOK
  <2>5. HeldRows'
    BY <1>5 DEF MarkRetrying, TypeOK, HeldRows
  <2>6. Answered'
    BY <1>5 DEF MarkRetrying, TypeOK, Answered
  <2> QED BY <1>5, <2>4, <2>5, <2>6, PayKept DEF MarkRetrying
<1>6. ASSUME NEW d \in Deliveries, MarkExhausted(w, d) PROVE IInv'
  <2>1. TypeOK'
    BY <1>6 DEF MarkExhausted, TypeOK
  <2>2. HeldRows'
    BY <1>6 DEF MarkExhausted, TypeOK, HeldRows
  <2>3. Answered'
    BY <1>6 DEF MarkExhausted, TypeOK, Answered
  <2> QED BY <1>6, <2>1, <2>2, <2>3, PayKept DEF MarkExhausted
<1>7. ASSUME NEW R \in SUBSET Deliveries, Judge(w, R) PROVE IInv'
  <2>1. \A x \in Workers : current'[x] \subseteq current[x]
    BY <1>7 DEF Judge, TypeOK
  <2>2. current' \in [Workers -> SUBSET Deliveries] /\ phase' \in [Workers -> Phases]
    BY <1>7 DEF Judge, TypeOK
  <2>3. TypeOK'
    BY <1>7, <2>2 DEF Judge, TypeOK
  <2>4. HeldRows'
    BY <1>7, <2>1 DEF Judge, TypeOK, HeldRows
  <2> QED BY <1>7, <2>3, <2>4, PayKept DEF Judge, Answered
<1>8. ASSUME NEW p \in Endpoints, AutoDisable(w, p) PROVE IInv'
  <2>1. TypeOK'
    BY <1>8 DEF AutoDisable, TypeOK
  <2>2. HeldRows'
    BY <1>8 DEF AutoDisable, TypeOK, HeldRows
  <2> QED BY <1>8, <2>1, <2>2, PayKept DEF AutoDisable, Answered
<1>9. CASE Finish(w)
  <2>1. TypeOK'
    BY <1>9, NothingReturned DEF Finish, TypeOK
  <2>2. HeldRows'
    BY <1>9 DEF Finish, TypeOK, HeldRows
  <2> QED BY <1>9, <2>1, <2>2, PayKept DEF Finish, Answered
<1> QED BY <1>1, <1>2, <1>3, <1>4, <1>5, <1>6, <1>7, <1>8, <1>9 DEF Works

LEMMA CrashStep ==
    ASSUME IInv, NEW w \in Workers, Crash(w)
    PROVE  IInv'
<1> USE DEF IInv
<1>1. spent' \in [crashes : 0..MaxCrashes, replays : 0..MaxReplays, edits : 0..MaxEdits]
  <2>1. spent.crashes + 1 \in 0..MaxCrashes
    BY DEF Crash, TypeOK
  <2> QED BY <2>1 DEF Crash, TypeOK
<1>2. TypeOK'
  <2>1. lost' \in [Deliveries -> Nat]
    <3>1. \A d \in Deliveries : lost[d] \in Nat /\ lost[d] + 1 \in Nat
      <4>1. lost \in [Deliveries -> Nat]
        BY DEF TypeOK
      <4> HIDE DEF IInv
      <4> QED BY <4>1
    <3>2. lost' = [d \in Deliveries |->
                     IF lease[w] > 0 /\ Holds(w, d) THEN lost[d] + 1 ELSE lost[d]]
      BY DEF Crash
    <3> QED BY <3>1, <3>2
  <2> QED BY <1>1, <2>1, NothingReturned DEF Crash, TypeOK
<1>3. HeldRows'
  BY DEF Crash, TypeOK, HeldRows
<1>4. \A x \in Workers : todo'[x] \subseteq todo[x]
  BY DEF Crash, TypeOK
<1> QED BY <1>2, <1>3, <1>4, PayKept DEF Crash, Answered

LEMMA StepIInv == IInv /\ [Next]_vars => IInv'
<1> SUFFICES ASSUME IInv, [Next]_vars PROVE IInv'
  OBVIOUS
<1>1. CASE UNCHANGED vars
  BY <1>1, PayKept DEF vars, IInv, TypeOK, HeldRows, Answered
<1>2. CASE Next
  BY <1>2, CustomerStep, FanOutStep, TickStep, ClaimStep, WorkStep, CrashStep
     DEF Next, Claims
<1> QED BY <1>1, <1>2

(* The invariant holds in every reachable state.                           *)
THEOREM WebhookInvariant == Spec => []IInv
  BY InitIInv, StepIInv, PTL DEF Spec

(* Every variable keeps its type, for any endpoints, events and workers.   *)
THEOREM WebhookTypes == Spec => []TypeOK
<1>1. IInv => TypeOK
  BY DEF IInv
<1> QED BY <1>1, WebhookInvariant, PTL

(* maxAttempts bounds what an endpoint is sent, however many workers run   *)
(* at a time, die, or outlive their leases.                                *)
THEOREM CallsStayBounded == Spec => []CallsAreBounded
<1>1. IInv => CallsAreBounded
  <2> SUFFICES ASSUME IInv, NEW d \in Deliveries
               PROVE  calls[d] <= MaxAttempts * (1 + replays[d])
    BY DEF CallsAreBounded
  <2>1. calls[d] + Cardinality(Holders(d)) <= attempts[d] + MaxAttempts * replays[d]
    BY DEF IInv, AttemptsPay
  <2>2. /\ calls[d] \in Nat /\ attempts[d] \in 0..MaxAttempts /\ replays[d] \in Nat
        /\ Cardinality(Holders(d)) \in Nat
    BY HoldersFinite DEF IInv, TypeOK
  <2>3. /\ MaxAttempts * (1 + replays[d]) = MaxAttempts + MaxAttempts * replays[d]
        /\ MaxAttempts * replays[d] \in Nat
    BY <2>2, OneMoreReplay
  <2>4. calls[d] <= MaxAttempts + MaxAttempts * replays[d]
    <3> DEFINE paid == MaxAttempts * replays[d]
    <3>1. paid \in Nat /\ calls[d] + Cardinality(Holders(d)) <= attempts[d] + paid
      BY <2>1, <2>3
    <3> HIDE DEF paid
    <3>2. calls[d] <= MaxAttempts + paid
      BY <2>2, <3>1
    <3> QED BY <3>2 DEF paid
  <2> QED BY <2>3, <2>4
<1> QED BY <1>1, WebhookInvariant, PTL

(* What is shown as succeeded was answered.                                *)
THEOREM SucceededMeansAnswered == Spec => []SucceededWasAnswered
<1>1. IInv => SucceededWasAnswered
  BY DEF IInv, TypeOK, Answered, SucceededWasAnswered
<1> QED BY <1>1, WebhookInvariant, PTL

(***************************************************************************)
(* What the platform disables has failed.                                  *)
(***************************************************************************)

GivenUp(p) == {d \in gaveUp : d[1] = p}

(* A row that ended exhausted was given up, a worker judges one row at a   *)
(* time, and one that has decided to disable had read enough rows.         *)
JudgedInv ==
    /\ IsFiniteSet(gaveUp)
    /\ \A d \in Deliveries : status[d] = "exhausted" => d \in gaveUp
    /\ \A w \in Workers : \A d, f \in current[w] : d = f
    /\ \A w \in Workers, d \in Deliveries :
         phase[w] = "disable" /\ d \in current[w] => Cardinality(GivenUp(d[1])) >= DisableAfter
    /\ DisabledWasFailing

(* Nothing was given up and nobody judges.                                 *)
LEMMA JudgedStarts == Init => JudgedInv
  BY FS_EmptySet DEF Init, JudgedInv, DisabledWasFailing

(* What was given up stays given up.                                       *)
LEMMA GivenUpGrows ==
    ASSUME IsFiniteSet(gaveUp), IsFiniteSet(gaveUp'), gaveUp \subseteq gaveUp', NEW p
    PROVE  /\ Cardinality(GivenUp(p)) \in Nat /\ Cardinality(GivenUp(p)') \in Nat
           /\ Cardinality(GivenUp(p)) <= Cardinality(GivenUp(p)')
           /\ IsFiniteSet(GivenUp(p))
<1>1. /\ GivenUp(p) \in SUBSET GivenUp(p)' /\ GivenUp(p)' \in SUBSET gaveUp'
      /\ GivenUp(p) \in SUBSET gaveUp
  BY DEF GivenUp
<1> QED BY <1>1, FS_Subset, FS_CardinalityType

(* A step in which nothing is judged and no endpoint disabled.             *)
LEMMA JudgedKept ==
    ASSUME IInv, JudgedInv, IsFiniteSet(gaveUp'), gaveUp \subseteq gaveUp',
           \A d \in Deliveries :
             status'[d] = "exhausted" => status[d] = "exhausted" \/ d \in gaveUp',
           \A w \in Workers : \A d, f \in current'[w] : d = f,
           \A w \in Workers :
             phase'[w] = "disable" => phase[w] = "disable" /\ current'[w] \subseteq current[w],
           \A p \in Endpoints : endpoint'[p] = "auto" => endpoint[p] = "auto"
    PROVE  JudgedInv'
<1>1. \A p : /\ Cardinality(GivenUp(p)) \in Nat /\ Cardinality(GivenUp(p)') \in Nat
             /\ Cardinality(GivenUp(p)) <= Cardinality(GivenUp(p)')
  BY GivenUpGrows DEF JudgedInv
<1>2. DisabledWasFailing'
  <2> SUFFICES ASSUME NEW p \in Endpoints, endpoint'[p] = "auto"
               PROVE  Cardinality(GivenUp(p)') >= DisableAfter
    BY DEF DisabledWasFailing, GivenUp
  <2>1. Cardinality(GivenUp(p)) >= DisableAfter
    BY DEF JudgedInv, DisabledWasFailing, GivenUp
  <2> QED BY <1>1, <2>1
<1>3. ASSUME NEW w \in Workers, NEW d \in Deliveries, phase'[w] = "disable", d \in current'[w]
      PROVE  Cardinality(GivenUp(d[1])') >= DisableAfter
  <2>1. Cardinality(GivenUp(d[1])) >= DisableAfter
    BY <1>3 DEF JudgedInv
  <2> QED BY <1>1, <2>1
<1>4. \A d \in Deliveries : status'[d] = "exhausted" => d \in gaveUp'
  BY DEF JudgedInv
<1> QED BY <1>2, <1>3, <1>4 DEF JudgedInv

(* What customers do takes no judged delivery away.                        *)
LEMMA CustomerJudges ==
    ASSUME IInv, JudgedInv, Customer
    PROVE  JudgedInv'
<1>1. UNCHANGED <<phase, current, gaveUp>>
  BY DEF Customer, CountEndpoints, CreateEndpoint, EnableEndpoint, DisableEndpoint,
         DeleteEndpoint, Replay
<1>2. \A p \in Endpoints : endpoint'[p] = "auto" => endpoint[p] = "auto"
  BY DEF Customer, CountEndpoints, CreateEndpoint, EnableEndpoint, DisableEndpoint,
         DeleteEndpoint, Replay, IInv, TypeOK
<1>3. \A d \in Deliveries : status'[d] = "exhausted" => status[d] = "exhausted"
  BY DEF Customer, CountEndpoints, CreateEndpoint, EnableEndpoint, DisableEndpoint,
         DeleteEndpoint, Replay, IInv, TypeOK
<1> QED BY <1>1, <1>2, <1>3, JudgedKept DEF JudgedInv

(* Of the steps of a worker, the exhaustion of a row is the one that       *)
(* counts.                                                                 *)
LEMMA WorkJudges ==
    ASSUME IInv, JudgedInv, NEW w \in Workers, Works(w)
    PROVE  JudgedInv'
<1> USE DEF IInv, TypeOK
<1>1. ASSUME NEW d \in Deliveries, MarkExhausted(w, d) PROVE JudgedInv'
  <2>1. gaveUp' = gaveUp \cup {d} /\ IsFiniteSet(gaveUp')
    BY <1>1, FS_AddElement DEF MarkExhausted, JudgedInv
  <2>2. \A f \in Deliveries : status'[f] = "exhausted" => status[f] = "exhausted" \/ f \in gaveUp'
    BY <1>1, <2>1 DEF MarkExhausted
  <2>3. \A x \in Workers : phase'[x] = "disable" => phase[x] = "disable"
    BY <1>1 DEF MarkExhausted
  <2>4. current' = current /\ endpoint' = endpoint
    BY <1>1 DEF MarkExhausted
  <2> HIDE DEF IInv, TypeOK
  <2> QED BY <2>1, <2>2, <2>3, <2>4, JudgedKept DEF JudgedInv
<1>2. ASSUME NEW R \in SUBSET Deliveries, Judge(w, R) PROVE JudgedInv'
  <2>1. UNCHANGED <<status, endpoint, gaveUp>>
    BY <1>2 DEF Judge
  <2>2. \A x \in Workers : current'[x] \subseteq current[x]
    BY <1>2 DEF Judge
  <2>3. \A x \in Workers \ {w} : phase'[x] = phase[x]
    BY <1>2 DEF Judge
  <2>4. ASSUME NEW d \in Deliveries, phase'[w] = "disable", d \in current'[w]
        PROVE  Cardinality(GivenUp(d[1])) >= DisableAfter
    <3>1. d \in current[w] /\ Sustained(R) /\ NewestOf(d[1], R)
      <4>1. /\ phase \in [Workers -> Phases] /\ \A c, f \in current[w] : c = f
            /\ phase' = [phase EXCEPT ![w] = IF Sustained(R) THEN "disable" ELSE "run"]
            /\ \E c \in current[w] : NewestOf(c[1], R)
        BY <1>2 DEF Judge, JudgedInv
      <4> HIDE DEF IInv, TypeOK
      <4>2. d \in current[w]
        BY <2>2, <2>4
      <4>3. Sustained(R)
        BY <2>4, <4>1
      <4> QED BY <4>1, <4>2, <4>3
    <3>2. R \in SUBSET GivenUp(d[1])
      <4>1. \A f \in R : f[1] = d[1] /\ status[f] = "exhausted"
        BY <3>1 DEF NewestOf, RowsOf, Sustained
      <4>2. \A f \in R : f \in gaveUp
        BY <4>1 DEF JudgedInv
      <4> HIDE DEF IInv, TypeOK
      <4> QED BY <4>1, <4>2 DEF GivenUp
    <3>3. /\ IsFiniteSet(GivenUp(d[1])) /\ Cardinality(GivenUp(d[1])) \in Nat
      BY <2>1, GivenUpGrows DEF JudgedInv
    <3>4. Cardinality(R) <= Cardinality(GivenUp(d[1])) /\ Cardinality(R) \in Nat
      BY <3>2, <3>3, FS_Subset, FS_CardinalityType
    <3>5. Cardinality(R) >= DisableAfter
      BY <3>1 DEF Sustained
    <3> QED BY <3>3, <3>4, <3>5
  <2>5. ASSUME NEW x \in Workers, NEW d \in Deliveries, phase'[x] = "disable", d \in current'[x]
        PROVE  Cardinality(GivenUp(d[1])) >= DisableAfter
    BY <2>2, <2>3, <2>4, <2>5 DEF JudgedInv
  <2> HIDE DEF IInv, TypeOK
  <2>6. \A p : GivenUp(p)' = GivenUp(p)
    BY <2>1 DEF GivenUp
  <2>7. DisabledWasFailing'
    BY <2>1 DEF JudgedInv, DisabledWasFailing
  <2> QED BY <2>1, <2>2, <2>5, <2>6, <2>7 DEF JudgedInv
<1>3. ASSUME NEW p \in Endpoints, AutoDisable(w, p) PROVE JudgedInv'
  <2>1. UNCHANGED <<status, gaveUp>>
    BY <1>3 DEF AutoDisable
  <2>2. \A x \in Workers : current'[x] \subseteq current[x] /\ (phase'[x] = "disable" => phase[x] = "disable")
    BY <1>3 DEF AutoDisable
  <2>3. Cardinality(GivenUp(p)) >= DisableAfter
    BY <1>3 DEF AutoDisable, JudgedInv
  <2>4. \A q \in Endpoints : endpoint'[q] = "auto" => endpoint[q] = "auto" \/ q = p
    BY <1>3 DEF AutoDisable
  <2> HIDE DEF IInv, TypeOK
  <2>5. \A q : GivenUp(q)' = GivenUp(q)
    BY <2>1 DEF GivenUp
  <2>6. DisabledWasFailing'
    BY <2>1, <2>3, <2>4 DEF JudgedInv, DisabledWasFailing, GivenUp
  <2> QED BY <2>1, <2>2, <2>5, <2>6 DEF JudgedInv
<1>4. ASSUME UNCHANGED <<endpoint, gaveUp>>,
             \A d \in Deliveries : status'[d] = "exhausted" => status[d] = "exhausted",
             \A x \in Workers : \A d, f \in current'[x] : d = f,
             \A x \in Workers :
               phase'[x] = "disable" => phase[x] = "disable" /\ current'[x] \subseteq current[x]
      PROVE  JudgedInv'
  <2> HIDE DEF IInv, TypeOK
  <2> QED BY <1>4, JudgedKept DEF JudgedInv
<1>5. CASE Load(w) \/ Finish(w)
  BY <1>4, <1>5 DEF Load, Finish, JudgedInv
<1>6. ASSUME NEW d \in Deliveries, Skip(w, d) PROVE JudgedInv'
  BY <1>4, <1>6 DEF Skip, JudgedInv
<1>7. ASSUME NEW d \in Deliveries, CallAnswered(w, d) \/ CallFailed(w, d) PROVE JudgedInv'
  <2>1. /\ current' = [current EXCEPT ![w] = {d}] /\ UNCHANGED <<endpoint, gaveUp, status>>
        /\ phase' = [phase EXCEPT ![w] = "answered"] \/ phase' = [phase EXCEPT ![w] = "failed"]
    BY <1>7 DEF CallAnswered, CallFailed, Call
  <2>2. \A x \in Workers : \A e, f \in current'[x] : e = f
    BY <2>1 DEF JudgedInv
  <2>3. \A x \in Workers :
          phase'[x] = "disable" => phase[x] = "disable" /\ current'[x] \subseteq current[x]
    BY <2>1
  <2> QED BY <1>4, <2>1, <2>2, <2>3
<1>8. ASSUME NEW d \in Deliveries, MarkSucceeded(w, d) \/ MarkRetrying(w, d) PROVE JudgedInv'
  <2>1. UNCHANGED <<endpoint, gaveUp>> /\ current' = [current EXCEPT ![w] = {}]
    BY <1>8 DEF MarkSucceeded, MarkRetrying
  <2>5. /\ status \in [Deliveries -> Statuses] /\ phase \in [Workers -> Phases]
        /\ current \in [Workers -> SUBSET Deliveries]
    OBVIOUS
  <2>6. /\ \/ status' = [status EXCEPT ![d] = IF d \in queued THEN "succeeded" ELSE @]
           \/ status' = [status EXCEPT ![d] = IF d \in queued THEN "pending" ELSE @]
        /\ phase' = [phase EXCEPT ![w] = "run"]
    BY <1>8 DEF MarkSucceeded, MarkRetrying
  <2> HIDE DEF IInv, TypeOK
  <2>2. \A f \in Deliveries : status'[f] = "exhausted" => status[f] = "exhausted"
    BY <2>5, <2>6
  <2>3. \A x \in Workers : phase'[x] = "disable" => phase[x] = "disable"
    BY <2>5, <2>6
  <2>4. \A x \in Workers : current'[x] \subseteq current[x]
    BY <2>1, <2>5
  <2> QED BY <1>4, <2>1, <2>2, <2>3, <2>4 DEF JudgedInv
<1> QED BY <1>1, <1>2, <1>3, <1>5, <1>6, <1>7, <1>8 DEF Works

(* Every step keeps the judgement behind the exhausted deliveries.         *)
LEMMA JudgedStep == IInv /\ JudgedInv /\ [Next]_vars => JudgedInv'
<1> SUFFICES ASSUME IInv, JudgedInv, [Next]_vars PROVE JudgedInv'
  OBVIOUS
<1>1. CASE UNCHANGED <<endpoint, status, phase, current, gaveUp>>
  BY <1>1 DEF JudgedInv, DisabledWasFailing, GivenUp
<1>2. CASE UNCHANGED vars
  BY <1>1, <1>2 DEF vars
<1>3. ASSUME NEW e \in Events, FanOut(e) PROVE JudgedInv'
  BY <1>1, <1>3 DEF FanOut, FanOutRead, FanOutInsert, FanOutFails
<1>4. CASE Tick
  BY <1>1, <1>4 DEF Tick
<1>5. ASSUME NEW w \in Workers, Claims(w) \/ Crash(w) PROVE JudgedInv'
  <2>1. /\ UNCHANGED <<endpoint, status, gaveUp>>
        /\ \A x \in Workers : current'[x] \subseteq current[x] /\ (phase'[x] = "disable" => phase[x] = "disable")
    <3>1. phase \in [Workers -> Phases] /\ current \in [Workers -> SUBSET Deliveries]
      BY DEF IInv, TypeOK
    <3>2. CASE Crash(w)
      BY <3>1, <3>2 DEF Crash
    <3>3. ASSUME NEW B \in SUBSET Deliveries, Claim(w, B)
          PROVE  /\ UNCHANGED <<endpoint, status, gaveUp, current>>
                 /\ \A x \in Workers : phase'[x] = "disable" => phase[x] = "disable"
      BY <3>1, <3>3 DEF Claim
    <3> QED BY <1>5, <3>2, <3>3 DEF Claims
  <2> QED BY <2>1, JudgedKept DEF JudgedInv
<1> QED BY <1>2, <1>3, <1>4, <1>5, CustomerJudges, WorkJudges DEF Next

(* The platform disables no endpoint on which fewer deliveries were given  *)
(* up than disableAfterExhausted, although the rows it judges are replayed *)
(* and deleted meanwhile (webhooks.ts deliverPendingWebhooks).             *)
THEOREM OnlyFailingIsDisabled == Spec => []DisabledWasFailing
<1>1. JudgedInv => DisabledWasFailing
  BY DEF JudgedInv
<1> QED BY <1>1, WebhookInvariant, JudgedStarts, JudgedStep, PTL DEF Spec

(***************************************************************************)
(* An acknowledgement is not repeated.  A delivery may still be            *)
(* acknowledged by each worker that holds its row, and once more when a    *)
(* worker may claim it; replays and dead workers add to these, the answers *)
(* take from them.  A worker's lease keeps others from claiming the row    *)
(* until its outcome is written, for as long as the worker keeps to it.    *)
(***************************************************************************)

(* Worker w may yet get an answer for d, or have its row retried.          *)
MayCall(w, d) == d \in todo[w] \/ (d \in current[w] /\ phase[w] = "failed")
Callers(d) == {w \in Workers : MayCall(w, d)}

(* The row is hidden for as long as w works on it.                         *)
Covers(w, d) ==
    /\ Holds(w, d)
    /\ lease[w] > 0 /\ lease[w] <= hidden[d]

Open(d) ==
    /\ endpoint[d[1]] # "deleted"
    /\ status[d] = "pending"
    /\ \A w \in Workers : ~Covers(w, d)
Again(d) == IF Open(d) THEN 1 ELSE 0

CreatedIsNew == \A p \in creating : endpoint[p] = "absent"
QueuedIsThere == \A d \in queued : d[1] \in Existing
HeldIsThere ==
    \A w \in Workers, d \in Deliveries :
        d \in todo[w] \cup current[w] => d \in queued \/ endpoint[d[1]] = "deleted"
SkippedIsGone ==
    \A w \in Workers, d \in Deliveries :
        d \in todo[w] /\ phase[w] # "load" /\ d[1] \notin loaded[w] => endpoint[d[1]] = "deleted"
OneAtATime ==
    \A w \in Workers :
        /\ \A d, f \in current[w] : d = f
        /\ phase[w] \notin {"load", "run"} => current[w] \cap todo[w] = {}

(* What a worker has in hand is queued, or its endpoint is gone for good,  *)
(* and it works on one row at a time.                                      *)
HoldInv ==
    /\ CreatedIsNew /\ QueuedIsThere /\ HeldIsThere /\ SkippedIsGone /\ OneAtATime

Pays(d) ==
    answers[d] + Cardinality(Callers(d)) + Again(d) <= 1 + replays[d] + lost[d]
AnswersPay == \A d \in Deliveries : Pays(d)

(* The workers that may still call are finitely many.                      *)
LEMMA CallersFinite ==
    ASSUME NEW d
    PROVE  IsFiniteSet(Callers(d)) /\ Cardinality(Callers(d)) \in Nat
<1>1. Callers(d) \in SUBSET Workers
  BY DEF Callers
<1>2. IsFiniteSet(Callers(d))
  BY <1>1, FS_Subset
<1> QED BY <1>2, FS_CardinalityType

(* The same after a step.                                                  *)
LEMMA CallersFiniteNext ==
    ASSUME NEW d
    PROVE  IsFiniteSet(Callers(d)') /\ Cardinality(Callers(d)') \in Nat
<1>1. Callers(d)' \in SUBSET Workers
  BY DEF Callers
<1>2. IsFiniteSet(Callers(d)')
  BY <1>1, FS_Subset
<1> QED BY <1>2, FS_CardinalityType

(* The numbers that Pays(d) relates, before a step and after it.           *)
Counts(d) ==
    /\ answers[d] \in Nat /\ replays[d] \in Nat /\ lost[d] \in Nat
    /\ Again(d) \in {0, 1}

(* The counters of a delivery are numbers.                                 *)
LEMMA CountsHold == ASSUME TypeOK, NEW d \in Deliveries PROVE Counts(d)
  BY DEF TypeOK, Counts, Again

(* The same after a step.                                                  *)
LEMMA CountsHoldNext == ASSUME TypeOK', NEW d \in Deliveries PROVE Counts(d)'
  BY DEF TypeOK, Counts, Again

(* Pays(d) is about these numbers only.                                    *)
LEMMA PaysByNumbers ==
    ASSUME TypeOK, TypeOK', NEW d \in Deliveries, Pays(d), NEW da \in Int, NEW dc \in Int,
           NEW dn \in Int, NEW dr \in Int, da + dc + dn <= dr,
           answers'[d] <= answers[d] + da,
           Cardinality(Callers(d)') <= Cardinality(Callers(d)) + dc,
           Again(d)' <= Again(d) + dn,
           replays'[d] + lost'[d] >= replays[d] + lost[d] + dr
    PROVE  Pays(d)'
<1> DEFINE a == answers[d]
           b == answers'[d]
           c == Cardinality(Callers(d))
           e == Cardinality(Callers(d)')
           n == Again(d)
           m == Again(d)'
           r == replays[d]
           q == replays'[d]
           s == lost[d]
           t == lost'[d]
<1>1. /\ a \in Nat /\ b \in Nat /\ c \in Nat /\ e \in Nat /\ n \in Nat /\ m \in Nat
      /\ r \in Nat /\ q \in Nat /\ s \in Nat /\ t \in Nat
  <2>1. a \in Nat /\ n \in Nat /\ r \in Nat /\ s \in Nat
    <3>1. Counts(d)
      BY CountsHold
    <3> QED BY ONLY <3>1 DEF Counts
  <2>2. b \in Nat /\ m \in Nat /\ q \in Nat /\ t \in Nat
    <3>1. Counts(d)'
      BY CountsHoldNext
    <3> QED BY ONLY <3>1 DEF Counts
  <2>3. c \in Nat /\ e \in Nat
    BY CallersFinite, CallersFiniteNext
  <2> HIDE DEF a, b, c, e, n, m, r, q, s, t
  <2> QED BY <2>1, <2>2, <2>3
<1>2. a + c + n <= 1 + r + s
  BY DEF Pays
<1>3. b <= a + da /\ e <= c + dc /\ m <= n + dn /\ q + t >= r + s + dr
  OBVIOUS
<1> HIDE DEF a, b, c, e, n, m, r, q, s, t
<1>4. b + e + m <= 1 + q + t
  BY <1>1, <1>2, <1>3
<1> QED BY <1>4 DEF Pays, b, e, m, q, t

(* Nobody may call that could not, and the row has not become claimable.   *)
LEMMA PaysStill ==
    ASSUME TypeOK, TypeOK', NEW d \in Deliveries, Pays(d), answers'[d] = answers[d],
           replays'[d] >= replays[d], lost'[d] >= lost[d],
           Callers(d)' \subseteq Callers(d), Open(d)' => Open(d)
    PROVE  Pays(d)'
<1>1. Cardinality(Callers(d)') <= Cardinality(Callers(d))
  BY CallersFinite, FS_Subset
<1>2. Again(d)' <= Again(d)
  BY DEF Again
<1>3. /\ answers'[d] <= answers[d] + 0 /\ Again(d)' <= Again(d) + 0
      /\ Cardinality(Callers(d)') <= Cardinality(Callers(d)) + 0
  BY <1>1, <1>2, CallersFinite, CountsHold DEF Counts
<1>4. replays'[d] + lost'[d] >= replays[d] + lost[d] + 0
  <2> DEFINE s == lost[d]
             t == lost'[d]
  <2>1. replays[d] \in Nat /\ replays'[d] \in Nat /\ s \in Nat /\ t \in Nat /\ t >= s
    BY CountsHold, CountsHoldNext DEF Counts
  <2> HIDE DEF s, t
  <2>2. replays'[d] + t >= replays[d] + s + 0
    BY <2>1
  <2> QED BY <2>2 DEF s, t
<1> QED BY <1>3, <1>4, PaysByNumbers

(* A worker had its answer, or leaves the row for another claim.           *)
LEMMA PaysOne ==
    ASSUME TypeOK, TypeOK', NEW d \in Deliveries, Pays(d), NEW w \in Callers(d),
           Callers(d)' \subseteq Callers(d) \ {w},
           \/ answers'[d] <= answers[d] + 1 /\ (Open(d)' => Open(d))
           \/ answers'[d] = answers[d],
           replays'[d] >= replays[d], lost'[d] >= lost[d]
    PROVE  Pays(d)'
<1>1. /\ Cardinality(Callers(d) \ {w}) = Cardinality(Callers(d)) - 1
      /\ IsFiniteSet(Callers(d) \ {w})
  BY CallersFinite, FS_RemoveElement
<1>2. Cardinality(Callers(d)') <= Cardinality(Callers(d)) - 1
  BY <1>1, FS_Subset
<1>3. Cardinality(Callers(d)') <= Cardinality(Callers(d)) + (-1)
  BY <1>2, CallersFinite
<1>4. replays'[d] + lost'[d] >= replays[d] + lost[d] + 0
  <2> DEFINE s == lost[d]
             t == lost'[d]
  <2>1. replays[d] \in Nat /\ replays'[d] \in Nat /\ s \in Nat /\ t \in Nat /\ t >= s
    BY CountsHold, CountsHoldNext DEF Counts
  <2> HIDE DEF s, t
  <2>2. replays'[d] + t >= replays[d] + s + 0
    BY <2>1
  <2> QED BY <2>2 DEF s, t
<1>5. CASE answers'[d] <= answers[d] + 1 /\ (Open(d)' => Open(d))
  <2>1. Again(d)' <= Again(d) + 0
    BY <1>5 DEF Again
  <2> QED BY <1>3, <1>4, <1>5, <2>1, PaysByNumbers
<1>6. CASE answers'[d] = answers[d]
  <2>1. Again(d)' <= Again(d) + 1 /\ answers'[d] <= answers[d] + 0
    BY <1>6, CountsHold DEF Again, Counts
  <2> QED BY <1>3, <1>4, <2>1, PaysByNumbers
<1> QED BY <1>5, <1>6

(* A replay or a dead worker allows one more.                              *)
LEMMA PaysAgain ==
    ASSUME TypeOK, TypeOK', NEW d \in Deliveries, Pays(d), answers'[d] = answers[d],
           replays'[d] + lost'[d] >= replays[d] + lost[d] + 1,
           Callers(d)' \subseteq Callers(d)
    PROVE  Pays(d)'
<1>1. Cardinality(Callers(d)') <= Cardinality(Callers(d))
  BY CallersFinite, FS_Subset
<1>2. /\ answers'[d] <= answers[d] + 0 /\ Again(d)' <= Again(d) + 1
      /\ Cardinality(Callers(d)') <= Cardinality(Callers(d)) + 0
  BY <1>1, CallersFinite, CountsHold DEF Counts, Again
<1> QED BY <1>2, PaysByNumbers

(* The row is claimed: one worker more, and nothing left to claim.         *)
LEMMA PaysClaim ==
    ASSUME TypeOK, TypeOK', NEW d \in Deliveries, Pays(d), answers'[d] = answers[d],
           replays'[d] = replays[d], lost' = lost, Open(d), ~Open(d)',
           NEW w, Callers(d)' \subseteq Callers(d) \cup {w}
    PROVE  Pays(d)'
<1>1. /\ Cardinality(Callers(d) \cup {w}) <= Cardinality(Callers(d)) + 1
      /\ IsFiniteSet(Callers(d) \cup {w}) /\ Cardinality(Callers(d) \cup {w}) \in Nat
  <2>1. IsFiniteSet(Callers(d)) /\ Cardinality(Callers(d)) \in Nat
    BY CallersFinite
  <2>2. /\ IsFiniteSet(Callers(d) \cup {w})
        /\ \/ Cardinality(Callers(d) \cup {w}) = Cardinality(Callers(d))
           \/ Cardinality(Callers(d) \cup {w}) = Cardinality(Callers(d)) + 1
    BY <2>1, FS_AddElement
  <2> QED BY <2>1, <2>2
<1>2. Cardinality(Callers(d)') <= Cardinality(Callers(d)) + 1
  BY <1>1, CallersFinite, CallersFiniteNext, FS_Subset
<1>3. Again(d)' <= Again(d) + (-1)
  BY DEF Again
<1>4. answers'[d] <= answers[d] + 0 /\ replays'[d] + lost'[d] >= replays[d] + lost[d] + 0
  BY CountsHold DEF Counts
<1> QED BY <1>2, <1>3, <1>4, PaysByNumbers

(* A step in which no worker gets, leaves or claims row d.                 *)
LEMMA PaysAlike ==
    ASSUME TypeOK, TypeOK', NEW d \in Deliveries, Pays(d),
           answers'[d] = answers[d], replays'[d] = replays[d],
           lost'[d] = lost[d],
           endpoint[d[1]] = "deleted" => endpoint'[d[1]] = "deleted",
           status'[d] = "pending" => status[d] = "pending",
           \A w \in Workers : MayCall(w, d)' => MayCall(w, d),
           \A w \in Workers : Covers(w, d) => Covers(w, d)'
    PROVE  Pays(d)'
<1>1. Callers(d)' \subseteq Callers(d)
  BY DEF Callers
<1>2. Open(d)' => Open(d)
  BY DEF Open
<1>3. replays'[d] >= replays[d] /\ lost'[d] >= lost[d]
  BY CountsHold DEF Counts
<1> QED BY <1>1, <1>2, <1>3, PaysStill

(* Nothing is leased and nothing was answered.                             *)
LEMMA LeasesStart == Init => HoldInv /\ AnswersPay
<1> SUFFICES ASSUME Init PROVE HoldInv /\ AnswersPay
  OBVIOUS
<1>1. HoldInv
  BY DEF Init, HoldInv, CreatedIsNew, QueuedIsThere, HeldIsThere, SkippedIsGone, OneAtATime
<1>2. ASSUME NEW d \in Deliveries PROVE Pays(d)
  <2>1. Callers(d) = {}
    BY DEF Init, Callers, MayCall
  <2>2. Cardinality(Callers(d)) = 0
    BY <2>1, FS_EmptySet
  <2> QED BY <2>2 DEF Init, Pays, Again
<1> QED BY <1>1, <1>2 DEF AnswersPay

(* A deleted endpoint stays deleted.                                       *)
LEMMA DeletedStays ==
    ASSUME IInv, HoldInv, Customer
    PROVE  \A p \in Endpoints : endpoint[p] = "deleted" => endpoint'[p] = "deleted"
  BY DEF IInv, TypeOK, Customer, CountEndpoints, CreateEndpoint, EnableEndpoint, DisableEndpoint,
         DeleteEndpoint, Replay, HoldInv, CreatedIsNew

(* A customer deletes an endpoint for good, its rows with it.              *)
LEMMA CustomerLeases ==
    ASSUME IInv, HoldInv, Customer
    PROVE  HoldInv'
<1> USE DEF IInv, TypeOK
<1>1. UNCHANGED <<phase, todo, current, loaded, lease>>
  BY DEF Customer, CountEndpoints, CreateEndpoint, EnableEndpoint, DisableEndpoint,
         DeleteEndpoint, Replay
<1>2. \A p \in Endpoints : endpoint[p] = "deleted" => endpoint'[p] = "deleted"
  BY DeletedStays
<1>3. CreatedIsNew'
  <2>1. ASSUME NEW p \in Endpoints, CountEndpoints(p) \/ CreateEndpoint(p) PROVE CreatedIsNew'
    BY <2>1 DEF CountEndpoints, CreateEndpoint, HoldInv, CreatedIsNew
  <2>2. ASSUME NEW p \in Endpoints, EnableEndpoint(p) \/ DisableEndpoint(p) \/ DeleteEndpoint(p)
        PROVE  CreatedIsNew'
    <3>1. creating' = creating /\ \A q \in Endpoints : endpoint[q] = "absent" => endpoint'[q] = "absent"
      BY <2>2 DEF EnableEndpoint, DisableEndpoint, DeleteEndpoint, Existing
    <3> QED BY <3>1 DEF HoldInv, CreatedIsNew
  <2>3. ASSUME NEW d \in Deliveries, Replay(d) PROVE CreatedIsNew'
    BY <2>3 DEF Replay, HoldInv, CreatedIsNew
  <2> QED BY <2>1, <2>2, <2>3 DEF Customer
<1>4. QueuedIsThere' /\ \A d \in queued \ queued' : endpoint'[d[1]] = "deleted"
  <2>1. ASSUME NEW p \in Endpoints, DeleteEndpoint(p)
        PROVE  QueuedIsThere' /\ \A d \in queued \ queued' : endpoint'[d[1]] = "deleted"
    BY <2>1 DEF DeleteEndpoint, HoldInv, QueuedIsThere, Existing
  <2>2. ASSUME NEW p \in Endpoints,
               CountEndpoints(p) \/ CreateEndpoint(p) \/ EnableEndpoint(p) \/ DisableEndpoint(p)
        PROVE  QueuedIsThere' /\ queued' = queued
    BY <2>2 DEF CountEndpoints, CreateEndpoint, EnableEndpoint, DisableEndpoint,
                HoldInv, QueuedIsThere, Existing
  <2>3. ASSUME NEW d \in Deliveries, Replay(d) PROVE QueuedIsThere' /\ queued' = queued
    BY <2>3 DEF Replay, HoldInv, QueuedIsThere, Existing
  <2> QED BY <2>1, <2>2, <2>3 DEF Customer
<1> HIDE DEF IInv, TypeOK
<1>5. \A d \in Deliveries : d[1] \in Endpoints
  BY DEF Deliveries
<1>6. HeldIsThere'
  BY <1>1, <1>2, <1>4, <1>5 DEF HoldInv, HeldIsThere
<1>7. SkippedIsGone'
  BY <1>1, <1>2, <1>5 DEF HoldInv, SkippedIsGone
<1>8. OneAtATime'
  BY <1>1 DEF HoldInv, OneAtATime
<1> QED BY <1>3, <1>4, <1>6, <1>7, <1>8 DEF HoldInv

(* The fan-out creates rows no worker has seen.                            *)
LEMMA FanOutLeases ==
    ASSUME IInv, HoldInv, NEW e \in Events, FanOut(e)
    PROVE  HoldInv'
<1>1. UNCHANGED <<endpoint, creating, phase, todo, current, loaded, lease>> /\ queued \subseteq queued'
  BY DEF FanOut, FanOutRead, FanOutInsert, FanOutFails
<1>2. QueuedIsThere'
  BY DEF FanOut, FanOutRead, FanOutInsert, FanOutFails, HoldInv, QueuedIsThere, Existing
<1>3. CreatedIsNew' /\ OneAtATime' /\ SkippedIsGone'
  BY <1>1 DEF HoldInv, CreatedIsNew, OneAtATime, SkippedIsGone
<1>4. HeldIsThere'
  BY <1>1 DEF HoldInv, HeldIsThere
<1> QED BY <1>2, <1>3, <1>4 DEF HoldInv

(* Time passes.                                                            *)
LEMMA TickLeases ==
    ASSUME IInv, HoldInv, Tick
    PROVE  HoldInv'
<1>1. UNCHANGED <<endpoint, creating, queued, phase, todo, current, loaded>>
  BY DEF Tick
<1>2. CreatedIsNew' /\ QueuedIsThere' /\ HeldIsThere' /\ OneAtATime' /\ SkippedIsGone'
  BY <1>1 DEF HoldInv, CreatedIsNew, QueuedIsThere, HeldIsThere, OneAtATime, SkippedIsGone, Existing
<1> QED BY <1>2 DEF HoldInv

(* A claim takes rows whose lease is over, so no worker in time holds      *)
(* them.                                                                   *)
LEMMA ClaimLeases ==
    ASSUME IInv, HoldInv, NEW w \in Workers, NEW B \in SUBSET Deliveries, Claim(w, B)
    PROVE  HoldInv'
<1>1. /\ UNCHANGED <<endpoint, creating, queued, current, loaded>>
      /\ phase' = [phase EXCEPT ![w] = "load"] /\ todo' = [todo EXCEPT ![w] = B]
      /\ lease' = [lease EXCEPT ![w] = Lease] /\ phase[w] = "idle" /\ B \subseteq queued
  BY DEF Claim, OldestBatch, Due
<1>2. current[w] = {} /\ phase \in [Workers -> Phases] /\ todo \in [Workers -> SUBSET Deliveries]
      /\ lease \in [Workers -> Nat]
  BY <1>1 DEF IInv, HeldRows, TypeOK
<1>3. CreatedIsNew' /\ QueuedIsThere'
  BY <1>1, <1>2 DEF HoldInv, CreatedIsNew, QueuedIsThere, Existing
<1>4. HeldIsThere' /\ SkippedIsGone'
  BY <1>1, <1>2 DEF HoldInv, HeldIsThere, SkippedIsGone
<1>5. OneAtATime'
  BY <1>1, <1>2 DEF HoldInv, OneAtATime
<1> QED BY <1>3, <1>4, <1>5 DEF HoldInv

(* A worker's step that leaves its lease alone and takes no rows.          *)
LEMMA WorkLeases ==
    ASSUME IInv, HoldInv, NEW w \in Workers, Works(w)
    PROVE  HoldInv'
<1>1. ASSUME UNCHANGED <<creating, queued>>, lease'[w] = lease[w] \/ phase'[w] = "idle",
             \A x \in Workers \ {w} :
               /\ phase'[x] = phase[x] /\ todo'[x] = todo[x] /\ current'[x] = current[x]
               /\ loaded'[x] = loaded[x] /\ lease'[x] = lease[x],
             phase[w] # "idle", todo'[w] \cup current'[w] \subseteq todo[w] \cup current[w],
             \A p \in Endpoints : /\ endpoint[p] \in {"absent", "deleted"} => endpoint'[p] = endpoint[p]
                                  /\ p \in Existing => p \in Existing',
             \A d, f \in current'[w] : d = f,
             phase'[w] \notin {"load", "run"} => current'[w] \cap todo'[w] = {},
             phase'[w] # "load" =>
               \A d \in todo'[w] : d[1] \notin loaded'[w] => endpoint'[d[1]] = "deleted"
      PROVE  HoldInv'
  <2>2. creating \subseteq Endpoints /\ queued \subseteq Deliveries /\ \A d \in Deliveries : d[1] \in Endpoints
    BY DEF IInv, TypeOK, Deliveries
  <2>3. CreatedIsNew' /\ QueuedIsThere'
    BY <1>1, <2>2 DEF HoldInv, CreatedIsNew, QueuedIsThere
  <2>4. HeldIsThere'
    BY <1>1, <2>2 DEF HoldInv, HeldIsThere
  <2>5. SkippedIsGone'
    BY <1>1, <2>2 DEF HoldInv, SkippedIsGone
  <2>6. OneAtATime'
    BY <1>1 DEF HoldInv, OneAtATime
  <2> QED BY <2>3, <2>4, <2>5, <2>6 DEF HoldInv
<1>0. /\ todo[w] \subseteq Deliveries /\ current[w] \subseteq Deliveries
      /\ phase[w] # "load" => \A d \in todo[w] : d[1] \notin loaded[w] => endpoint[d[1]] = "deleted"
      /\ \A d, f \in current[w] : d = f
      /\ phase[w] \notin {"load", "run"} => current[w] \cap todo[w] = {}
      /\ \A d \in Deliveries : d[1] \in Endpoints
  <2>1. todo[w] \subseteq Deliveries /\ current[w] \subseteq Deliveries
    BY DEF IInv, TypeOK
  <2>2. \A d \in Deliveries : d[1] \in Endpoints
    BY DEF Deliveries
  <2>3. phase[w] # "load" => \A d \in todo[w] : d[1] \notin loaded[w] => endpoint[d[1]] = "deleted"
    BY <2>1 DEF HoldInv, SkippedIsGone
  <2> QED BY <2>1, <2>2, <2>3 DEF HoldInv, OneAtATime
<1> USE DEF IInv, TypeOK
<1>2. CASE Load(w)
  <2>1. \A d \in todo[w] : d[1] \notin Existing => endpoint[d[1]] = "deleted"
    BY <1>0 DEF HoldInv, HeldIsThere, QueuedIsThere
  <2>2. /\ loaded' = [loaded EXCEPT ![w] = {p \in Existing : \E d \in todo[w] : d[1] = p}]
        /\ phase' = [phase EXCEPT ![w] = "run"]
        /\ UNCHANGED <<customers, fans, rows, todo, tries, current, lease, spent, history>>
        /\ phase \in [Workers -> Phases] /\ loaded \in [Workers -> SUBSET Endpoints]
    BY <1>2 DEF Load
  <2> HIDE DEF IInv, TypeOK
  <2>3. \A x \in Workers \ {w} : phase'[x] = phase[x] /\ loaded'[x] = loaded[x]
    BY <2>2
  <2>4. phase'[w] = "run" /\ \A d \in todo[w] : d[1] \in Existing => d[1] \in loaded'[w]
    BY <2>2
  <2>5. UNCHANGED <<creating, queued, endpoint, todo, current, lease>> /\ Existing' = Existing
    BY <2>2 DEF Existing
  <2>6. \A d \in todo'[w] : d[1] \notin loaded'[w] => endpoint'[d[1]] = "deleted"
    BY <2>1, <2>4, <2>5
  <2>7. phase[w] # "idle" /\ \A d, f \in current'[w] : d = f
    BY <1>0, <1>2, <2>5 DEF Load
  <2> QED BY <1>1, <2>3, <2>4, <2>5, <2>6, <2>7
<1>3. ASSUME NEW d \in Deliveries, Skip(w, d) PROVE HoldInv'
  <2>1. /\ UNCHANGED <<creating, queued, endpoint, phase, loaded, current, lease>>
        /\ phase[w] = "run" /\ todo' = [todo EXCEPT ![w] = @ \ {d}]
        /\ todo \in [Workers -> SUBSET Deliveries]
    BY <1>3 DEF Skip
  <2> HIDE DEF IInv, TypeOK
  <2>2. todo'[w] = todo[w] \ {d} /\ \A x \in Workers \ {w} : todo'[x] = todo[x]
    BY <2>1
  <2> QED BY <1>0, <1>1, <2>1, <2>2 DEF Existing
<1>4. ASSUME NEW d \in Deliveries, CallAnswered(w, d) \/ CallFailed(w, d) PROVE HoldInv'
  <2>1. /\ UNCHANGED <<creating, queued, endpoint, loaded, lease>> /\ phase[w] = "run"
        /\ todo' = [todo EXCEPT ![w] = @ \ {d}] /\ current' = [current EXCEPT ![w] = {d}]
        /\ \/ phase' = [phase EXCEPT ![w] = "answered"]
           \/ phase' = [phase EXCEPT ![w] = "failed"]
        /\ d \in todo[w]
    BY <1>4 DEF CallAnswered, CallFailed, Call
  <2>2. /\ phase'[w] \in {"answered", "failed"} /\ todo'[w] = todo[w] \ {d} /\ current'[w] = {d}
        /\ loaded'[w] = loaded[w] /\ lease'[w] = lease[w] /\ endpoint' = endpoint
        /\ \A x \in Workers \ {w} :
             /\ phase'[x] = phase[x] /\ todo'[x] = todo[x] /\ current'[x] = current[x]
             /\ loaded'[x] = loaded[x] /\ lease'[x] = lease[x]
    BY <2>1
  <2> HIDE DEF IInv, TypeOK
  <2> QED BY <1>0, <1>1, <2>1, <2>2 DEF Existing
<1>5. ASSUME UNCHANGED <<creating, queued, todo, loaded>>, current'[w] \subseteq current[w],
             lease'[w] = lease[w] \/ phase'[w] = "idle", phase[w] # "idle", phase[w] # "load",
             phase'[w] \notin {"load", "run"} => current'[w] \cap todo[w] = {},
             \A x \in Workers \ {w} :
               /\ phase'[x] = phase[x] /\ current'[x] = current[x] /\ lease'[x] = lease[x],
             endpoint' = endpoint \/ \E p \in Existing : endpoint' = [endpoint EXCEPT ![p] = "auto"]
      PROVE  HoldInv'
  <2>1. \A p \in Endpoints : /\ endpoint[p] \in {"absent", "deleted"} => endpoint'[p] = endpoint[p]
                             /\ p \in Existing => p \in Existing'
    BY <1>5 DEF Existing
  <2>2. \A p \in Endpoints : endpoint[p] = "deleted" => endpoint'[p] = "deleted"
    BY <2>1
  <2> HIDE DEF IInv, TypeOK
  <2> QED BY <1>0, <1>1, <1>5, <2>1, <2>2
<1>6. ASSUME NEW d \in Deliveries,
             MarkSucceeded(w, d) \/ MarkRetrying(w, d) \/ MarkExhausted(w, d)
      PROVE  HoldInv'
  <2>1. /\ UNCHANGED <<creating, queued, todo, loaded, lease, endpoint>>
        /\ phase[w] \in {"answered", "failed"}
        /\ \/ phase' = [phase EXCEPT ![w] = "run"]
           \/ phase' = [phase EXCEPT ![w] = "judge"]
        /\ current' = current \/ current' = [current EXCEPT ![w] = {}]
        /\ phase \in [Workers -> Phases] /\ current \in [Workers -> SUBSET Deliveries]
    BY <1>6 DEF MarkSucceeded, MarkRetrying, MarkExhausted
  <2> HIDE DEF IInv, TypeOK
  <2>2. /\ current'[w] \subseteq current[w]
        /\ \A x \in Workers \ {w} : phase'[x] = phase[x] /\ current'[x] = current[x]
    BY <2>1
  <2>3. current'[w] \cap todo[w] = {}
    BY <1>0, <2>1, <2>2
  <2> QED BY <1>5, <2>1, <2>2, <2>3
<1>7. ASSUME NEW R \in SUBSET Deliveries, Judge(w, R) PROVE HoldInv'
  <2>1. current'[w] \subseteq current[w] /\ \A x \in Workers \ {w} : current'[x] = current[x]
    BY <1>7 DEF Judge
  <2>2. /\ UNCHANGED <<creating, queued, todo, loaded, lease, endpoint>>
        /\ phase[w] = "judge"
        /\ \/ phase' = [phase EXCEPT ![w] = "disable"]
           \/ phase' = [phase EXCEPT ![w] = "run"]
        /\ phase \in [Workers -> Phases]
    BY <1>7 DEF Judge
  <2> HIDE DEF IInv, TypeOK
  <2>3. \A x \in Workers \ {w} : phase'[x] = phase[x]
    BY <2>2
  <2>4. current'[w] \cap todo[w] = {}
    BY <1>0, <2>1, <2>2
  <2> QED BY <1>5, <2>1, <2>2, <2>3, <2>4
<1>8. ASSUME NEW p \in Endpoints, AutoDisable(w, p) PROVE HoldInv'
  <2>1. endpoint' = endpoint \/ \E q \in Existing : endpoint' = [endpoint EXCEPT ![q] = "auto"]
    BY <1>8 DEF AutoDisable, Existing
  <2>2. /\ UNCHANGED <<creating, queued, todo, loaded, lease>> /\ phase[w] = "disable"
        /\ phase' = [phase EXCEPT ![w] = "run"] /\ current' = [current EXCEPT ![w] = {}]
        /\ phase \in [Workers -> Phases] /\ current \in [Workers -> SUBSET Deliveries]
    BY <1>8 DEF AutoDisable
  <2> HIDE DEF IInv, TypeOK
  <2>3. /\ current'[w] = {}
        /\ \A x \in Workers \ {w} : phase'[x] = phase[x] /\ current'[x] = current[x]
    BY <2>2
  <2> QED BY <1>5, <2>1, <2>2, <2>3
<1>9. CASE Finish(w)
  <2>1. /\ UNCHANGED <<creating, queued, endpoint, todo, current>> /\ phase[w] = "run" /\ todo[w] = {}
        /\ phase'[w] = "idle" /\ current[w] = {}
        /\ \A x \in Workers \ {w} :
             phase'[x] = phase[x] /\ loaded'[x] = loaded[x] /\ lease'[x] = lease[x]
    BY <1>9 DEF Finish, HeldRows
  <2> HIDE DEF IInv, TypeOK
  <2> QED BY <1>1, <2>1 DEF Existing
<1> QED BY <1>2, <1>3, <1>4, <1>5, <1>6, <1>7, <1>8, <1>9 DEF Works

(* Every step keeps the leases apart while workers are timely.             *)
LEMMA LeaseStep ==
    ASSUME IInv, HoldInv, [Next]_vars
    PROVE  HoldInv'
<1>1. CASE UNCHANGED vars
  BY <1>1 DEF vars, HoldInv, CreatedIsNew, QueuedIsThere, HeldIsThere, OneAtATime,
              SkippedIsGone, Existing
<1>2. ASSUME NEW w \in Workers, Crash(w) PROVE HoldInv'
  <2>1. /\ UNCHANGED <<endpoint, creating, queued>>
        /\ phase'[w] = "idle" /\ todo'[w] = {} /\ current'[w] = {}
        /\ \A x \in Workers \ {w} :
             /\ phase'[x] = phase[x] /\ todo'[x] = todo[x] /\ current'[x] = current[x]
             /\ loaded'[x] = loaded[x] /\ lease'[x] = lease[x]
    BY <1>2 DEF Crash, IInv, TypeOK
  <2>2. CreatedIsNew' /\ QueuedIsThere'
    BY <2>1 DEF HoldInv, CreatedIsNew, QueuedIsThere, Existing
  <2>3. HeldIsThere' /\ SkippedIsGone' /\ OneAtATime'
    BY <2>1 DEF HoldInv, HeldIsThere, SkippedIsGone, OneAtATime
  <2> QED BY <2>2, <2>3 DEF HoldInv
<1> QED BY <1>1, <1>2, CustomerLeases, FanOutLeases, TickLeases, ClaimLeases, WorkLeases
        DEF Next, Claims

(* A step of worker w alone, that leaves row d and its own hold on it.     *)
LEMMA PaysBeside ==
    ASSUME TypeOK, TypeOK', NEW d \in Deliveries, Pays(d), NEW w \in Workers,
           UNCHANGED <<endpoint, replays, lost>>,
           answers'[d] = answers[d], status'[d] = status[d], hidden'[d] = hidden[d],
           \A x \in Workers \ {w} :
             /\ phase'[x] = phase[x] /\ todo'[x] = todo[x] /\ current'[x] = current[x]
             /\ lease'[x] = lease[x],
           MayCall(w, d)' => MayCall(w, d), Covers(w, d) => Covers(w, d)'
    PROVE  Pays(d)'
<1>1. \A x \in Workers : MayCall(x, d)' => MayCall(x, d)
  BY DEF MayCall
<1>2. \A x \in Workers : Covers(x, d) => Covers(x, d)'
  BY DEF Covers, Holds
<1> QED BY <1>1, <1>2, PaysAlike

(* A replay pays for the call it allows.                                   *)
LEMMA CustomerPays ==
    ASSUME IInv, TypeOK', HoldInv, AnswersPay, Customer
    PROVE  AnswersPay'
<1> SUFFICES ASSUME NEW d \in Deliveries PROVE Pays(d)'
  BY DEF AnswersPay
<1>1. TypeOK /\ Pays(d) /\ d[1] \in Endpoints
  BY DEF IInv, AnswersPay, Deliveries
<1>2. UNCHANGED <<phase, todo, current, lease, answers, lost>>
  BY DEF Customer, CountEndpoints, CreateEndpoint, EnableEndpoint, DisableEndpoint,
         DeleteEndpoint, Replay
<1>3. CASE UNCHANGED <<status, hidden, replays>>
  <2>1. endpoint[d[1]] = "deleted" => endpoint'[d[1]] = "deleted"
    BY <1>1, DeletedStays
  <2>2. \A w \in Workers : (MayCall(w, d)' => MayCall(w, d)) /\ (Covers(w, d) => Covers(w, d)')
    BY <1>2, <1>3 DEF MayCall, Covers, Holds
  <2> QED BY <1>1, <1>2, <1>3, <2>1, <2>2, PaysAlike
<1>4. ASSUME NEW e \in Deliveries, Replay(e) PROVE Pays(d)'
  <2>1. \A w \in Workers : MayCall(w, d)' => MayCall(w, d)
    BY <1>2 DEF MayCall
  <2>2. CASE d = e
    <3>1. Callers(d)' \subseteq Callers(d)
      BY <2>1 DEF Callers
    <3>2. replays'[d] + lost'[d] >= replays[d] + lost[d] + 1
      <4> DEFINE s == lost[d]
                 t == lost'[d]
      <4>1. replays'[d] = replays[d] + 1 /\ replays[d] \in Nat /\ s \in Nat /\ t = s
        BY <1>1, <1>2, <1>4, <2>2 DEF Replay, TypeOK
      <4> HIDE DEF s, t
      <4>2. replays'[d] + t >= replays[d] + s + 1
        BY <4>1
      <4> QED BY <4>2 DEF s, t
    <3> QED BY <1>1, <1>2, <3>1, <3>2, PaysAgain
  <2>3. CASE d # e
    <3>1. status'[d] = status[d] /\ hidden'[d] = hidden[d] /\ replays'[d] = replays[d] /\ endpoint' = endpoint
      BY <1>1, <1>4, <2>3 DEF Replay, TypeOK
    <3>2. \A w \in Workers : Covers(w, d) => Covers(w, d)'
      BY <1>2, <3>1 DEF Covers, Holds
    <3> QED BY <1>1, <1>2, <2>1, <3>1, <3>2, PaysAlike
  <2> QED BY <2>2, <2>3
<1> QED BY <1>3, <1>4 DEF Customer, CountEndpoints, CreateEndpoint, EnableEndpoint, DisableEndpoint,
                         DeleteEndpoint

(* Time: the lease of a worker and what hides its rows pass together.      *)
LEMMA TickPays ==
    ASSUME IInv, TypeOK', AnswersPay, Tick
    PROVE  AnswersPay'
<1> SUFFICES ASSUME NEW d \in Deliveries PROVE Pays(d)'
  BY DEF AnswersPay
<1>1. TypeOK /\ Pays(d)
  BY DEF IInv, AnswersPay
<1>2. UNCHANGED <<endpoint, status, phase, todo, current, answers, replays>>
  BY DEF Tick
<1>3. lost'[d] = IF \E w \in Workers : lease[w] = 1 /\ Holds(w, d) THEN lost[d] + 1 ELSE lost[d]
  BY DEF Tick
<1>4. \A w \in Workers : MayCall(w, d)' => MayCall(w, d)
  BY <1>2 DEF MayCall
<1>5. CASE \E w \in Workers : lease[w] = 1 /\ Holds(w, d)
  <2>1. lost'[d] = lost[d] + 1 /\ replays'[d] = replays[d]
    BY <1>2, <1>3, <1>5
  <2>2. replays'[d] + lost'[d] >= replays[d] + lost[d] + 1
    <3>1. replays[d] \in Nat /\ lost[d] \in Nat
      BY <1>1, CountsHold DEF Counts
    <3> QED BY <2>1, <3>1
  <2>3. Callers(d)' \subseteq Callers(d)
    BY <1>4 DEF Callers
  <2> QED BY <1>1, <1>2, <2>2, <2>3, PaysAgain
<1>6. CASE \A w \in Workers : ~(lease[w] = 1 /\ Holds(w, d))
  <2>1. lost'[d] = lost[d]
    BY <1>3, <1>6
  <2>2. ASSUME NEW w \in Workers, Covers(w, d) PROVE Covers(w, d)'
    <3>1. /\ lease[w] \in Nat /\ hidden[d] \in Nat /\ lease[w] > 1
          /\ lease[w] <= hidden[d]
      <4>1. Holds(w, d) /\ lease[w] > 0 /\ lease[w] <= hidden[d]
        BY <2>2 DEF Covers
      <4>2. lease[w] # 1
        BY <1>6, <4>1
      <4>3. lease[w] \in Nat /\ hidden[d] \in Nat
        BY <1>1 DEF TypeOK
      <4> QED BY <4>1, <4>2, <4>3
    <3>2. lease'[w] = Less(lease[w]) /\ hidden'[d] = Less(hidden[d])
      BY DEF Tick
    <3>3. lease'[w] > 0 /\ lease'[w] <= hidden'[d]
      BY <3>1, <3>2 DEF Less
    <3> QED BY <1>2, <2>2, <3>3 DEF Covers, Holds
  <2> QED BY <1>1, <1>2, <1>4, <2>1, <2>2, PaysAlike
<1> QED BY <1>5, <1>6

(* A row that can be claimed is covered by no worker within its lease.     *)
LEMMA ClaimPays ==
    ASSUME IInv, TypeOK', HoldInv, AnswersPay, NEW w \in Workers,
           NEW B \in SUBSET Deliveries, Claim(w, B)
    PROVE  AnswersPay'
<1> SUFFICES ASSUME NEW d \in Deliveries PROVE Pays(d)'
  BY DEF AnswersPay
<1>1. TypeOK /\ Pays(d)
  BY DEF IInv, AnswersPay
<1>2. /\ phase[w] = "idle" /\ todo[w] = {} /\ current[w] = {}
      /\ UNCHANGED <<endpoint, status, current, answers, replays, lost>>
      /\ phase'[w] = "load" /\ todo'[w] = B /\ lease'[w] = Lease
      /\ \A x \in Workers \ {w} :
           phase'[x] = phase[x] /\ todo'[x] = todo[x] /\ lease'[x] = lease[x]
      /\ hidden'[d] = IF d \in B THEN Lease ELSE hidden[d]
  <2>1. /\ phase[w] = "idle"
        /\ UNCHANGED <<endpoint, status, current, answers, replays, lost>>
        /\ hidden' = [f \in Deliveries |-> IF f \in B THEN Lease ELSE hidden[f]]
        /\ phase' = [phase EXCEPT ![w] = "load"] /\ todo' = [todo EXCEPT ![w] = B]
        /\ lease' = [lease EXCEPT ![w] = Lease]
    BY DEF Claim
  <2>2. todo[w] = {} /\ current[w] = {}
    BY <2>1 DEF IInv, HeldRows
  <2>3. /\ phase \in [Workers -> Phases] /\ todo \in [Workers -> SUBSET Deliveries]
        /\ lease \in [Workers -> Nat]
    BY <1>1 DEF TypeOK
  <2>4. /\ phase'[w] = "load" /\ todo'[w] = B /\ lease'[w] = Lease
        /\ \A x \in Workers \ {w} :
             phase'[x] = phase[x] /\ todo'[x] = todo[x] /\ lease'[x] = lease[x]
    BY <2>1, <2>3
  <2>5. hidden'[d] = IF d \in B THEN Lease ELSE hidden[d]
    BY <2>1
  <2> QED BY <2>1, <2>2, <2>4, <2>5
<1>3. CASE d \in B
  <2>1. d \in queued /\ status[d] = "pending" /\ hidden[d] = 0
    BY <1>3 DEF Claim, OldestBatch, Due
  <2>2. endpoint[d[1]] # "deleted"
    BY <2>1 DEF HoldInv, QueuedIsThere, Existing
  <2>3. ASSUME NEW x \in Workers PROVE ~Covers(x, d)
    <3>1. lease[x] \in Nat
      BY <1>1 DEF TypeOK
    <3> QED BY <2>1, <3>1 DEF Covers
  <2>4. Open(d)
    BY <2>1, <2>2, <2>3 DEF Open
  <2>5. Covers(w, d)'
    BY <1>2, <1>3 DEF Covers, Holds
  <2>6. ~Open(d)'
    BY <2>5 DEF Open
  <2>7. Callers(d)' \subseteq Callers(d) \cup {w}
    BY <1>2 DEF Callers, MayCall
  <2> QED BY <1>1, <1>2, <2>4, <2>6, <2>7, PaysClaim
<1>4. CASE d \notin B
  <2>1. (MayCall(w, d)' => MayCall(w, d)) /\ (Covers(w, d) => Covers(w, d)')
    BY <1>2, <1>4 DEF MayCall, Covers, Holds
  <2>2. hidden'[d] = hidden[d]
    BY <1>2, <1>4
  <2> QED BY <1>1, <1>2, <2>1, <2>2, PaysBeside
<1> QED BY <1>3, <1>4

(* An answer uses up the one call its worker had.                          *)
LEMMA CallPays ==
    ASSUME IInv, TypeOK', HoldInv, AnswersPay, NEW w \in Workers, NEW e \in Deliveries,
           CallAnswered(w, e) \/ CallFailed(w, e)
    PROVE  AnswersPay'
<1> SUFFICES ASSUME NEW d \in Deliveries PROVE Pays(d)'
  BY DEF AnswersPay
<1>1. TypeOK /\ Pays(d)
  BY DEF IInv, AnswersPay
<1>2. /\ UNCHANGED <<endpoint, status, hidden, replays, lost, lease>>
      /\ phase[w] = "run" /\ e \in todo[w] /\ current[w] = {}
      /\ todo'[w] = todo[w] \ {e} /\ current'[w] = {e}
      /\ \A x \in Workers \ {w} :
           phase'[x] = phase[x] /\ todo'[x] = todo[x] /\ current'[x] = current[x]
  <2>1. /\ UNCHANGED <<endpoint, status, hidden, replays, lost, lease>>
        /\ phase[w] = "run" /\ e \in todo[w]
        /\ todo' = [todo EXCEPT ![w] = @ \ {e}] /\ current' = [current EXCEPT ![w] = {e}]
        /\ \/ phase' = [phase EXCEPT ![w] = "answered"]
           \/ phase' = [phase EXCEPT ![w] = "failed"]
    BY DEF CallAnswered, CallFailed, Call
  <2>2. current[w] = {}
    BY <2>1 DEF IInv, HeldRows
  <2>3. /\ phase \in [Workers -> Phases] /\ todo \in [Workers -> SUBSET Deliveries]
        /\ current \in [Workers -> SUBSET Deliveries]
    BY <1>1 DEF TypeOK
  <2>4. /\ todo'[w] = todo[w] \ {e} /\ current'[w] = {e}
        /\ \A x \in Workers \ {w} : todo'[x] = todo[x] /\ current'[x] = current[x]
    BY <2>1, <2>3
  <2>5. \A x \in Workers \ {w} : phase'[x] = phase[x]
    BY <2>1, <2>3
  <2> QED BY <2>1, <2>2, <2>4, <2>5
<1>3. CASE d # e
  <2>1. answers'[d] = answers[d]
    <3>1. answers' = [answers EXCEPT ![e] = Counted(@)] \/ answers' = answers
      BY DEF CallAnswered, CallFailed
    <3>2. answers \in [Deliveries -> Nat]
      BY <1>1 DEF TypeOK
    <3> QED BY <1>3, <3>1, <3>2
  <2>2. (MayCall(w, d)' => MayCall(w, d)) /\ (Covers(w, d) => Covers(w, d)')
    BY <1>2, <1>3 DEF MayCall, Covers, Holds
  <2> QED BY <1>1, <1>2, <2>1, <2>2, PaysBeside
<1>4. CASE d = e /\ CallFailed(w, e)
  <2>1. answers' = answers /\ phase'[w] = "failed"
    BY <1>1, <1>4 DEF CallFailed, TypeOK
  <2>2. (MayCall(w, d)' => MayCall(w, d)) /\ (Covers(w, d) => Covers(w, d)')
    BY <1>2, <1>4, <2>1 DEF MayCall, Covers, Holds
  <2> QED BY <1>1, <1>2, <2>1, <2>2, PaysBeside
<1>5. CASE d = e /\ CallAnswered(w, e)
  <2>1. answers'[d] = Counted(answers[d]) /\ answers[d] \in Nat /\ phase'[w] = "answered"
    BY <1>1, <1>5 DEF CallAnswered, TypeOK
  <2>2. answers'[d] <= answers[d] + 1
    BY <2>1 DEF Counted
  <2>3. w \in Callers(d) /\ Callers(d)' \subseteq Callers(d) \ {w}
    BY <1>2, <1>5, <2>1 DEF Callers, MayCall
  <2>4. \A x \in Workers : Covers(x, d) => Covers(x, d)'
    BY <1>2, <1>5, <2>1 DEF Covers, Holds
  <2>5. Open(d)' => Open(d)
    BY <1>2, <2>4 DEF Open
  <2>6. replays'[d] >= replays[d] /\ lost'[d] >= lost[d]
    BY <1>1, <1>2, CountsHold DEF Counts
  <2> QED BY <1>1, <2>2, <2>3, <2>5, <2>6, PaysOne
<1> QED BY <1>3, <1>4, <1>5

(* The outcome of a call is written: nobody claims a row that succeeded or *)
(* was given up, and one to be retried is left to one other claim.         *)
LEMMA MarkPays ==
    ASSUME IInv, TypeOK', HoldInv, AnswersPay, NEW w \in Workers, NEW e \in Deliveries,
           MarkSucceeded(w, e) \/ MarkRetrying(w, e) \/ MarkExhausted(w, e)
    PROVE  AnswersPay'
<1> SUFFICES ASSUME NEW d \in Deliveries PROVE Pays(d)'
  BY DEF AnswersPay
<1>1. TypeOK /\ Pays(d)
  BY DEF IInv, AnswersPay
<1>2. /\ UNCHANGED <<endpoint, answers, replays, lost, lease, todo, queued>>
      /\ e \in current[w] /\ phase[w] \in {"answered", "failed"} /\ current'[w] \subseteq current[w]
      /\ phase'[w] \in {"run", "judge"}
      /\ \A x \in Workers \ {w} : phase'[x] = phase[x] /\ current'[x] = current[x]
  <2>1. /\ UNCHANGED <<endpoint, answers, replays, lost, lease, todo, queued>>
        /\ e \in current[w] /\ phase[w] \in {"answered", "failed"}
        /\ \/ phase' = [phase EXCEPT ![w] = "run"]
           \/ phase' = [phase EXCEPT ![w] = "judge"]
        /\ current' = current \/ current' = [current EXCEPT ![w] = {}]
    BY DEF MarkSucceeded, MarkRetrying, MarkExhausted
  <2>2. phase \in [Workers -> Phases] /\ current \in [Workers -> SUBSET Deliveries]
    BY <1>1 DEF TypeOK
  <2>3. phase'[w] \in {"run", "judge"} /\ \A x \in Workers \ {w} : phase'[x] = phase[x]
    BY <2>1, <2>2
  <2>4. current'[w] \subseteq current[w] /\ \A x \in Workers \ {w} : current'[x] = current[x]
    BY <2>1, <2>2
  <2> QED BY <2>1, <2>3, <2>4
<1>3. \A f \in current[w] : f = e
  BY <1>2 DEF HoldInv, OneAtATime
<1>4. e \notin todo[w]
  BY <1>2 DEF HoldInv, OneAtATime
<1>5. CASE d # e
  <2>1. status'[d] = status[d] /\ hidden'[d] = hidden[d]
    <3>1. /\ \E v : status' = [status EXCEPT ![e] = v]
          /\ hidden' = hidden \/ \E v : hidden' = [hidden EXCEPT ![e] = v]
      BY DEF MarkSucceeded, MarkRetrying, MarkExhausted
    <3>2. status \in [Deliveries -> Statuses] /\ hidden \in [Deliveries -> Nat]
      BY <1>1 DEF TypeOK
    <3> QED BY <1>5, <3>1, <3>2
  <2>2. (MayCall(w, d)' => MayCall(w, d)) /\ (Covers(w, d) => Covers(w, d)')
    BY <1>2, <1>3, <1>5, <2>1 DEF MayCall, Covers, Holds
  <2> QED BY <1>1, <1>2, <2>1, <2>2, PaysBeside
<1>6. CASE d = e /\ (MarkSucceeded(w, e) \/ MarkExhausted(w, e))
  <2>1. ~Open(d)'
    <3>1. CASE e \in queued
      <4>1. \/ status' = [status EXCEPT ![e] = "succeeded"]
            \/ status' = [status EXCEPT ![e] = "exhausted"]
        BY <1>6, <3>1 DEF MarkSucceeded, MarkExhausted
      <4>2. status \in [Deliveries -> Statuses]
        BY <1>1 DEF TypeOK
      <4>3. status'[d] # "pending"
        BY <1>6, <4>1, <4>2
      <4> QED BY <4>3 DEF Open
    <3>2. CASE e \notin queued
      BY <1>2, <1>6, <3>2 DEF HoldInv, HeldIsThere, Open
    <3> QED BY <3>1, <3>2
  <2>2. Callers(d)' \subseteq Callers(d)
    BY <1>2, <1>4 DEF Callers, MayCall
  <2>3. replays'[d] >= replays[d] /\ lost'[d] >= lost[d]
    BY <1>1, <1>2, CountsHold DEF Counts
  <2> QED BY <1>1, <1>2, <2>1, <2>2, <2>3, PaysStill
<1>7. CASE d = e /\ MarkRetrying(w, e)
  <2>1. phase[w] = "failed"
    BY <1>7 DEF MarkRetrying
  <2>2. w \in Callers(d) /\ Callers(d)' \subseteq Callers(d) \ {w}
    BY <1>2, <1>4, <1>7, <2>1 DEF Callers, MayCall
  <2>3. replays'[d] >= replays[d] /\ lost'[d] >= lost[d]
    BY <1>1, <1>2, CountsHold DEF Counts
  <2> QED BY <1>1, <1>2, <2>2, <2>3, PaysOne
<1> QED BY <1>5, <1>6, <1>7

(* Every other step of a worker allows no further call.                    *)
LEMMA WorkPays ==
    ASSUME IInv, TypeOK', HoldInv, AnswersPay, NEW w \in Workers, Works(w)
    PROVE  AnswersPay'
<1>1. ASSUME NEW d \in Deliveries, NEW e \in Deliveries, Skip(w, e) PROVE Pays(d)'
  <2>1. TypeOK /\ Pays(d)
    BY DEF IInv, AnswersPay
  <2>2. /\ UNCHANGED <<endpoint, status, hidden, answers, replays, lost, lease, phase, current>>
        /\ phase[w] = "run" /\ e \in todo[w] /\ e[1] \notin loaded[w]
        /\ todo'[w] = todo[w] \ {e} /\ \A x \in Workers \ {w} : todo'[x] = todo[x]
    BY <1>1, <2>1 DEF Skip, TypeOK
  <2>3. CASE d # e
    <3>1. (MayCall(w, d)' => MayCall(w, d)) /\ (Covers(w, d) => Covers(w, d)')
      BY <2>2, <2>3 DEF MayCall, Covers, Holds
    <3> QED BY <2>1, <2>2, <3>1, PaysBeside
  <2>4. CASE d = e
    <3>1. ~Open(d)'
      BY <2>2, <2>4 DEF HoldInv, SkippedIsGone, Open
    <3>2. Callers(d)' \subseteq Callers(d)
      BY <2>2 DEF Callers, MayCall
    <3>3. replays'[d] >= replays[d] /\ lost'[d] >= lost[d]
      BY <2>1, <2>2, CountsHold DEF Counts
    <3> QED BY <2>1, <2>2, <3>1, <3>2, <3>3, PaysStill
  <2> QED BY <2>3, <2>4
<1>2. ASSUME UNCHANGED <<status, hidden, answers, replays, lost, todo>>,
             \A p \in Endpoints : endpoint[p] = "deleted" => endpoint'[p] = "deleted",
             current'[w] \subseteq current[w],
             phase[w] \notin {"answered", "failed"}, phase'[w] \notin {"answered", "failed"},
             lease'[w] = lease[w] \/ todo[w] = {},
             \A x \in Workers \ {w} :
               phase'[x] = phase[x] /\ current'[x] = current[x] /\ lease'[x] = lease[x],
             NEW d \in Deliveries
      PROVE  Pays(d)'
  <2>1. TypeOK /\ Pays(d) /\ d[1] \in Endpoints
    BY DEF IInv, AnswersPay, Deliveries
  <2>2. \A x \in Workers : (MayCall(x, d)' => MayCall(x, d)) /\ (Covers(x, d) => Covers(x, d)')
    BY <1>2 DEF MayCall, Covers, Holds
  <2> QED BY <1>2, <2>1, <2>2, PaysAlike
<1>3. TypeOK
  BY DEF IInv
<1>4. ASSUME NEW d \in Deliveries, Load(w) \/ Finish(w) PROVE Pays(d)'
  <2>1. /\ UNCHANGED <<status, hidden, answers, replays, lost, todo, endpoint, current>>
        /\ phase[w] \in {"load", "run"}
        /\ \/ phase' = [phase EXCEPT ![w] = "run"]
           \/ phase' = [phase EXCEPT ![w] = "idle"]
        /\ lease' = lease \/ (lease' = [lease EXCEPT ![w] = 0] /\ todo[w] = {})
    BY <1>4 DEF Load, Finish
  <2>2. phase \in [Workers -> Phases] /\ lease \in [Workers -> Nat]
    BY <1>3 DEF TypeOK
  <2>3. phase'[w] \in {"run", "idle"} /\ \A x \in Workers \ {w} : phase'[x] = phase[x]
    BY <2>1, <2>2
  <2>4. /\ lease'[w] = lease[w] \/ todo[w] = {}
        /\ \A x \in Workers \ {w} : lease'[x] = lease[x]
    BY <2>1, <2>2
  <2> QED BY <1>2, <2>1, <2>3, <2>4
<1>5. ASSUME NEW d \in Deliveries, NEW R \in SUBSET Deliveries, Judge(w, R) PROVE Pays(d)'
  <2>1. current'[w] \subseteq current[w] /\ \A x \in Workers \ {w} : current'[x] = current[x]
    BY <1>3, <1>5 DEF Judge, TypeOK
  <2>2. /\ phase[w] = "judge" /\ phase'[w] \in {"disable", "run"}
        /\ \A x \in Workers \ {w} : phase'[x] = phase[x]
    BY <1>3, <1>5 DEF Judge, TypeOK
  <2> QED BY <1>2, <1>5, <2>1, <2>2 DEF Judge
<1>6. ASSUME NEW d \in Deliveries, NEW p \in Endpoints, AutoDisable(w, p) PROVE Pays(d)'
  <2>1. \A q \in Endpoints : endpoint[q] = "deleted" => endpoint'[q] = "deleted"
    <3> SUFFICES ASSUME NEW q \in Endpoints, endpoint[q] = "deleted" PROVE endpoint'[q] = "deleted"
      OBVIOUS
    <3>1. endpoint' = [endpoint EXCEPT ![p] = IF p \in Existing THEN "auto" ELSE endpoint[p]]
      BY <1>6 DEF AutoDisable
    <3>2. q = p => p \notin Existing
      BY DEF Existing
    <3>3. endpoint \in [Endpoints -> EndpointStates]
      BY <1>3 DEF TypeOK
    <3> QED BY <3>1, <3>2, <3>3
  <2>2. /\ UNCHANGED <<status, hidden, answers, replays, lost, todo, lease>>
        /\ phase[w] = "disable" /\ phase'[w] = "run" /\ current'[w] = {}
        /\ \A x \in Workers \ {w} : phase'[x] = phase[x] /\ current'[x] = current[x]
    BY <1>3, <1>6 DEF AutoDisable, TypeOK
  <2> QED BY <1>2, <2>1, <2>2
<1> QED BY <1>1, <1>4, <1>5, <1>6, CallPays, MarkPays DEF Works, AnswersPay

(* Every step keeps answers and calls to come within what was paid for.    *)
LEMMA AnswersStep ==
    ASSUME IInv, HoldInv, AnswersPay, [Next]_vars
    PROVE  AnswersPay'
<1>1. TypeOK /\ TypeOK'
  BY StepIInv DEF IInv
<1>2. ASSUME NEW w \in Workers, Crash(w) PROVE AnswersPay'
  <2> SUFFICES ASSUME NEW d \in Deliveries PROVE Pays(d)'
    BY DEF AnswersPay
  <2>1. Callers(d)' \subseteq Callers(d)
    BY <1>1, <1>2 DEF Crash, Callers, MayCall, TypeOK
  <2>2. /\ UNCHANGED <<answers, replays, endpoint, status, hidden>> /\ Pays(d)
        /\ lost'[d] = IF lease[w] > 0 /\ Holds(w, d) THEN lost[d] + 1 ELSE lost[d]
    BY <1>2 DEF Crash, AnswersPay
  <2>3. Counts(d)
    BY <1>1, CountsHold
  <2>4. CASE lease[w] > 0 /\ Holds(w, d)
    <3>1. replays'[d] + lost'[d] >= replays[d] + lost[d] + 1
      BY <2>2, <2>3, <2>4 DEF Counts
    <3> QED BY <1>1, <2>1, <2>2, <3>1, PaysAgain
  <2>5. CASE ~(lease[w] > 0 /\ Holds(w, d))
    <3>1. ~Covers(w, d)
      BY <2>5 DEF Covers
    <3>2. \A x \in Workers \ {w} : Covers(x, d) => Covers(x, d)'
      BY <1>1, <1>2, <2>2 DEF Crash, Covers, Holds, TypeOK
    <3>3. Open(d)' => Open(d)
      BY <2>2, <3>1, <3>2 DEF Open
    <3>4. replays'[d] >= replays[d] /\ lost'[d] >= lost[d]
      BY <2>2, <2>3, <2>5 DEF Counts
    <3> QED BY <1>1, <2>1, <2>2, <3>3, <3>4, PaysStill
  <2> QED BY <2>4, <2>5
<1>3. ASSUME UNCHANGED <<endpoint, status, hidden, workers, answers, replays, lost>> PROVE AnswersPay'
  BY <1>3 DEF AnswersPay, Pays, Callers, MayCall, Again, Open, Covers, Holds
<1>4. ASSUME NEW e \in Events, FanOut(e) PROVE AnswersPay'
  BY <1>3, <1>4 DEF FanOut, FanOutRead, FanOutInsert, FanOutFails
<1>5. CASE UNCHANGED vars
  BY <1>3, <1>5 DEF vars
<1> QED BY <1>1, <1>2, <1>4, <1>5, CustomerPays, TickPays, ClaimPays, WorkPays DEF Next, Claims

(* "The unique (endpoint, event) index is what guarantees a customer never *)
(* receives an event twice from a single fan-out" (application.ts): every  *)
(* acknowledgement after the first is owed to a replay or to a worker that *)
(* lost the delivery, by dying or by outliving its lease, before it wrote  *)
(* the outcome.                                                            *)
THEOREM AcknowledgedOnce == Spec => []AnsweredOnce
<1>1. Init => IInv /\ HoldInv /\ AnswersPay
  BY InitIInv, LeasesStart
<1>2. IInv /\ HoldInv /\ AnswersPay /\ [Next]_vars => IInv' /\ HoldInv' /\ AnswersPay'
  BY StepIInv, LeaseStep, AnswersStep
<1>3. IInv /\ HoldInv /\ AnswersPay => AnsweredOnce
  <2> SUFFICES ASSUME IInv, AnswersPay, NEW d \in Deliveries
               PROVE  answers[d] <= 1 + replays[d] + lost[d]
    BY DEF AnsweredOnce
  <2>1. Pays(d) /\ Counts(d)
    BY CountsHold DEF IInv, AnswersPay
  <2> DEFINE c == Cardinality(Callers(d))
             s == lost[d]
             n == Again(d)
  <2>2. /\ answers[d] + c + n <= 1 + replays[d] + s /\ c \in Nat /\ s \in Nat /\ n \in Nat
        /\ answers[d] \in Nat /\ replays[d] \in Nat
    BY <2>1, CallersFinite DEF Pays, Counts
  <2> HIDE DEF c, s, n
  <2>3. answers[d] <= 1 + replays[d] + s
    BY <2>2
  <2> QED BY <2>3 DEF s
<1> QED BY <1>1, <1>2, <1>3, PTL DEF Spec
-----------------------------------------------------------------------------
(* The workers keep the contract of AtLeastOnce.                           *)

(* A delivery was replayed no more often than there were replays.          *)
ReplaysSpent == \A d \in Deliveries : replays[d] <= spent.replays

LEMMA ReplaysStep == IInv /\ ReplaysSpent /\ [Next]_vars => ReplaysSpent'
<1> SUFFICES ASSUME IInv, ReplaysSpent, [Next]_vars PROVE ReplaysSpent'
  OBVIOUS
<1>1. /\ replays \in [Deliveries -> Nat]
      /\ spent \in [crashes : 0..MaxCrashes, replays : 0..MaxReplays, edits : 0..MaxEdits]
  BY DEF IInv, TypeOK
<1>2. ASSUME replays' = replays, spent'.replays = spent.replays PROVE ReplaysSpent'
  BY <1>2 DEF ReplaysSpent
<1>3. ASSUME replays' = replays, spent' = spent PROVE ReplaysSpent'
  BY <1>2, <1>3
<1>4. ASSUME NEW r \in Deliveries, Replay(r) PROVE ReplaysSpent'
  <2>1. /\ replays' = [replays EXCEPT ![r] = @ + 1]
        /\ spent' = [spent EXCEPT !.replays = @ + 1]
    BY <1>4 DEF Replay
  <2>2. spent'.replays = spent.replays + 1 /\ spent.replays \in Nat
    BY <1>1, <2>1
  <2> SUFFICES ASSUME NEW d \in Deliveries PROVE replays'[d] <= spent'.replays
    BY DEF ReplaysSpent
  <2>3. replays[d] <= spent.replays /\ replays[d] \in Nat
    BY <1>1 DEF ReplaysSpent
  <2>4. replays'[d] <= replays[d] + 1 /\ replays'[d] \in Nat
    BY <1>1, <2>1, <2>3
  <2> DEFINE s == spent.replays
             t == spent'.replays
  <2>5. t = s + 1 /\ s \in Nat /\ replays[d] <= s
    BY <2>2, <2>3
  <2> HIDE DEF s, t
  <2>6. replays'[d] <= t
    BY <2>3, <2>4, <2>5
  <2> QED BY <2>6 DEF t
<1>5. ASSUME NEW p \in Endpoints,
             \/ CountEndpoints(p) \/ CreateEndpoint(p)
             \/ EnableEndpoint(p) \/ DisableEndpoint(p) \/ DeleteEndpoint(p)
      PROVE  ReplaysSpent'
  <2>1. replays' = replays /\ (spent' = spent \/ spent' = [spent EXCEPT !.edits = @ + 1])
    BY <1>5 DEF CountEndpoints, CreateEndpoint, EnableEndpoint, DisableEndpoint, DeleteEndpoint, Edit
  <2>2. spent'.replays = spent.replays
    BY <1>1, <2>1
  <2> QED BY <1>2, <2>1, <2>2
<1>6. ASSUME NEW w \in Workers, Crash(w) PROVE ReplaysSpent'
  <2>1. replays' = replays /\ spent' = [spent EXCEPT !.crashes = @ + 1]
    BY <1>6 DEF Crash
  <2>2. spent'.replays = spent.replays
    BY <1>1, <2>1
  <2> QED BY <1>2, <2>1, <2>2
<1>7. ASSUME NEW e \in Events, FanOut(e) PROVE ReplaysSpent'
  BY <1>3, <1>7 DEF FanOut, FanOutRead, FanOutInsert, FanOutFails
<1>8. ASSUME NEW w \in Workers, Claims(w) \/ Works(w) PROVE ReplaysSpent'
  BY <1>3, <1>8 DEF Claims, Works, Claim, Load, Skip, CallAnswered, CallFailed, Call, MarkSucceeded,
                    MarkRetrying, MarkExhausted, Judge, AutoDisable, Finish
<1>9. Tick \/ UNCHANGED vars => ReplaysSpent'
  BY <1>3 DEF Tick, vars
<1> QED BY <1>4, <1>5, <1>6, <1>7, <1>8, <1>9 DEF Next, Customer

(* A worker that has a row to call for has not spent its attempts, and the *)
(* history of calls does not stop short of them.                           *)
LEMMA CallIsPaid ==
    ASSUME IInv, ReplaysSpent, NEW w \in Workers, NEW d \in Deliveries, d \in todo[w]
    PROVE  /\ calls[d] < MaxAttempts * (1 + replays[d])
           /\ Counted(calls[d]) = calls[d] + 1
<1>1. /\ calls[d] \in Nat /\ attempts[d] \in 0..MaxAttempts /\ replays[d] \in Nat
      /\ spent.replays \in 0..MaxReplays
  BY DEF IInv, TypeOK
<1>2. Cardinality(Holders(d)) >= 1
  <2>1. w \in Holders(d)
    BY DEF Holders
  <2>2. Cardinality(Holders(d)) # 0
    BY <2>1, HoldersFinite, FS_EmptySet
  <2> QED BY <2>2, HoldersFinite
<1>3. calls[d] + Cardinality(Holders(d)) <= attempts[d] + MaxAttempts * replays[d]
  BY DEF IInv, AttemptsPay
<1>4. /\ MaxAttempts * replays[d] \in Nat
      /\ MaxAttempts * (1 + replays[d]) = MaxAttempts + MaxAttempts * replays[d]
  BY <1>1, OneMoreReplay
<1>5. calls[d] < MaxAttempts * (1 + replays[d])
  <2> DEFINE c == Cardinality(Holders(d))
             paid == MaxAttempts * replays[d]
             all == MaxAttempts * (1 + replays[d])
  <2>1. /\ calls[d] + c <= attempts[d] + paid /\ c >= 1 /\ c \in Nat /\ paid \in Nat
        /\ all = MaxAttempts + paid
    BY <1>2, <1>3, <1>4, HoldersFinite
  <2> HIDE DEF c, paid, all
  <2>2. calls[d] < all
    BY <1>1, <2>1
  <2> QED BY <2>2 DEF all
<1>6. replays[d] <= MaxReplays
  <2> DEFINE s == spent.replays
  <2>1. replays[d] <= s /\ s \in 0..MaxReplays
    BY <1>1 DEF ReplaysSpent
  <2> HIDE DEF s
  <2> QED BY <1>1, <2>1
<1>7. PICK k \in Nat : MaxReplays = replays[d] + k
  <2>1. MaxReplays - replays[d] \in Nat
    BY <1>1, <1>6
  <2>2. MaxReplays = replays[d] + (MaxReplays - replays[d])
    BY <1>1
  <2> QED BY <2>1, <2>2
<1>8. MaxAttempts * (1 + MaxReplays) = MaxAttempts * (1 + replays[d]) + MaxAttempts * k
  <2> DEFINE r == replays[d]
  <2>1. r \in Nat /\ MaxReplays = r + k
    BY <1>1, <1>7
  <2> HIDE DEF r
  <2>2. MaxAttempts * (1 + (r + k)) = MaxAttempts * (1 + r) + MaxAttempts * k
    BY <2>1
  <2> QED BY <2>1, <2>2 DEF r
<1>9. calls[d] < HistoryCap
  <2> DEFINE all == MaxAttempts * (1 + replays[d])
             more == MaxAttempts * k
  <2>1. more \in Nat
    BY OneMoreReplay
  <2>2. all \in Nat
    <3> DEFINE paid == MaxAttempts * replays[d]
    <3>1. paid \in Nat /\ all = MaxAttempts + paid
      BY <1>4
    <3> HIDE DEF all, paid
    <3> QED BY <3>1, AttemptsAssumption
  <2>3. HistoryCap = all + more + 1
    <3> DEFINE total == MaxAttempts * (1 + MaxReplays)
    <3>1. total = all + more
      BY <1>8
    <3>2. HistoryCap = total + 1
      BY DEF HistoryCap
    <3> HIDE DEF total, all, more
    <3> QED BY <3>1, <3>2
  <2>4. calls[d] < all
    BY <1>5
  <2> HIDE DEF all, more
  <2> QED BY <1>1, <2>1, <2>2, <2>3, <2>4
<1> QED BY <1>5, <1>9 DEF Counted

(* A step that calls, answers, marks and replays nothing only accepts or   *)
(* withdraws deliveries.                                                   *)
LEMMA QueueMoves ==
    ASSUME TypeOK, TypeOK', UNCHANGED <<status, calls, answers, replays>>,
           \/ queued \cup InHand \subseteq (queued \cup InHand)'
           \/ (queued \cup InHand)' \subseteq queued \cup InHand
    PROVE  Queue!Next
<1> DEFINE S == queued \cup InHand
           T == (queued \cup InHand)'
<1>1. S \in SUBSET Deliveries /\ T \in SUBSET Deliveries
  BY DEF InHand, TypeOK
<1>2. [d \in Deliveries |-> SeenOf(d)]' = [d \in Deliveries |-> SeenOf(d)]
  BY DEF SeenOf
<1>3. {d \in Deliveries : status[d] = "succeeded"}' = {d \in Deliveries : status[d] = "succeeded"}
  OBVIOUS
<1>4. CASE S \subseteq T
  <2>1. T = S \cup T
    BY <1>4
  <2>2. Queue!Accept(T)
    BY <1>2, <1>3, <2>1 DEF Queue!Accept
  <2> QED BY <1>1, <2>2 DEF Queue!Next
<1>5. CASE T \subseteq S
  <2>1. T = S \ (S \ T) /\ S \ T \in SUBSET Deliveries
    BY <1>1, <1>5
  <2>2. Queue!Withdraw(S \ T)
    BY <1>2, <1>3, <2>1 DEF Queue!Withdraw
  <2> QED BY <2>1, <2>2 DEF Queue!Next
<1> QED BY <1>4, <1>5

(* Rows that are deleted, or let go of, leave the queue; rows that are     *)
(* inserted join it, and a claimed one is in it already.                   *)
LEMMA StillInHand ==
    ASSUME \A w \in Workers : todo'[w] \subseteq todo[w]
    PROVE  InHand' \subseteq InHand
  BY DEF InHand

LEMMA CustomerQueues ==
    ASSUME IInv, IInv', Customer
    PROVE  Queue!Next
<1>1. TypeOK /\ TypeOK'
  BY DEF IInv
<1>2. ASSUME NEW p \in Endpoints,
             \/ CountEndpoints(p) \/ CreateEndpoint(p)
             \/ EnableEndpoint(p) \/ DisableEndpoint(p) \/ DeleteEndpoint(p)
      PROVE  Queue!Next
  <2>1. UNCHANGED <<status, calls, answers, replays, todo>> /\ queued' \subseteq queued
    BY <1>2 DEF CountEndpoints, CreateEndpoint, EnableEndpoint, DisableEndpoint, DeleteEndpoint
  <2>2. InHand' = InHand
    BY <2>1 DEF InHand
  <2> QED BY <1>1, <2>1, <2>2, QueueMoves
<1>3. ASSUME NEW d \in Deliveries, Replay(d) PROVE Queue!Next
  <2>1. /\ d \in queued /\ replays' = [replays EXCEPT ![d] = @ + 1]
        /\ status' = [status EXCEPT ![d] = "pending"]
        /\ UNCHANGED <<queued, todo, calls, answers>>
    BY <1>3 DEF Replay
  <2>2. status \in [Deliveries -> Statuses]
    BY <1>1 DEF TypeOK
  <2>3. {f \in Deliveries : status[f] = "succeeded"}'
            = {f \in Deliveries : status[f] = "succeeded"} \ {d}
    BY <2>1, <2>2
  <2>4. [f \in Deliveries |-> SeenOf(f)]' = [f \in Deliveries |-> SeenOf(f)]
    BY <2>1 DEF SeenOf
  <2>5. InHand' = InHand
    BY <2>1 DEF InHand
  <2>6. Queue!AskAgain(d)
    BY <2>1, <2>3, <2>4, <2>5 DEF Queue!AskAgain
  <2> QED BY <2>6 DEF Queue!Next
<1> QED BY <1>2, <1>3 DEF Customer

LEMMA ClaimQueues ==
    ASSUME IInv, IInv', NEW w \in Workers, NEW B \in SUBSET Deliveries, Claim(w, B)
    PROVE  Queue!Next
<1>1. /\ phase[w] = "idle" /\ B \subseteq queued /\ todo' = [todo EXCEPT ![w] = B]
      /\ UNCHANGED <<queued, status, calls, answers, replays>>
  BY DEF Claim, OldestBatch, Due
<1>2. TypeOK /\ TypeOK' /\ todo[w] = {}
  BY <1>1 DEF IInv, HeldRows
<1>3. todo'[w] = B /\ \A x \in Workers \ {w} : todo'[x] = todo[x]
  BY <1>1, <1>2 DEF TypeOK
<1>4. InHand \subseteq InHand'
  BY <1>2, <1>3 DEF InHand
<1> QED BY <1>1, <1>2, <1>4, QueueMoves

(* What is seen of one delivery grows; what is seen of the others stays.   *)
LEMMA SeenMore ==
    ASSUME NEW d \in Deliveries, NEW done,
           SeenOf(d)' = SeenOf(d) \cup done,
           \A f \in Deliveries \ {d} : SeenOf(f)' = SeenOf(f)
    PROVE  [f \in Deliveries |-> SeenOf(f)]'
               = [[f \in Deliveries |-> SeenOf(f)] EXCEPT ![d] = @ \cup done]
  OBVIOUS

(* A call hands the delivery over once more, within what was paid for.     *)
LEMMA CallQueues ==
    ASSUME IInv, ReplaysSpent, NEW w \in Workers, NEW d \in Deliveries,
           CallAnswered(w, d) \/ CallFailed(w, d)
    PROVE  Queue!Next
<1>1. /\ d \in todo[w] /\ todo' = [todo EXCEPT ![w] = @ \ {d}]
      /\ calls' = [calls EXCEPT ![d] = Counted(@)]
      /\ UNCHANGED <<queued, status, replays>>
  BY DEF CallAnswered, CallFailed, Call
<1>2. /\ todo \in [Workers -> SUBSET Deliveries] /\ calls \in [Deliveries -> Nat]
      /\ answers \in [Deliveries -> Nat]
  BY DEF IInv, TypeOK
<1>3. calls[d] < MaxAttempts * (1 + replays[d]) /\ calls' = [calls EXCEPT ![d] = @ + 1]
  <2>1. calls[d] < MaxAttempts * (1 + replays[d]) /\ Counted(calls[d]) = calls[d] + 1
    BY <1>1, CallIsPaid
  <2> QED BY <1>1, <1>2, <2>1
<1>4. d \in InHand /\ InHand' \subseteq InHand /\ InHand \subseteq InHand' \cup {d}
  <2>1. todo'[w] = todo[w] \ {d} /\ \A x \in Workers \ {w} : todo'[x] = todo[x]
    BY <1>1, <1>2
  <2> QED BY <1>1, <2>1 DEF InHand
<1>5. \/ (queued \cup InHand)' = queued \cup InHand
      \/ (queued \cup InHand)' = (queued \cup InHand) \ {d}
  BY <1>1, <1>4
<1>6. ASSUME NEW done, done \subseteq {"answer"}, SeenOf(d)' = SeenOf(d) \cup done,
             \A f \in Deliveries \ {d} : SeenOf(f)' = SeenOf(f)
      PROVE  Queue!Next
  <2>1. [f \in Deliveries |-> SeenOf(f)]'
            = [[f \in Deliveries |-> SeenOf(f)] EXCEPT ![d] = @ \cup done]
    BY <1>6, SeenMore
  <2>2. Queue!HandOver(d, done)
    BY <1>1, <1>3, <1>4, <1>5, <2>1 DEF Queue!HandOver
  <2> QED BY <1>6, <2>2 DEF Queue!Next
<1>7. CASE CallAnswered(w, d)
  <2>1. answers' = [answers EXCEPT ![d] = Counted(@)]
    BY <1>7 DEF CallAnswered
  <2>2. Counted(answers[d]) > 0
    <3>1. answers[d] \in Nat
      BY <1>2
    <3>2. HistoryCap > 0
      BY OneMoreReplay DEF HistoryCap
    <3> QED BY <3>1, <3>2 DEF Counted
  <2>3. answers'[d] > 0 /\ \A f \in Deliveries \ {d} : answers'[f] = answers[f]
    BY <1>2, <2>1, <2>2
  <2>4. SeenOf(d)' = {"answer"} /\ SeenOf(d) \subseteq {"answer"}
    BY <2>3 DEF SeenOf
  <2>5. \A f \in Deliveries \ {d} : SeenOf(f)' = SeenOf(f)
    BY <2>3 DEF SeenOf
  <2>6. SeenOf(d)' = SeenOf(d) \cup {"answer"}
    BY <2>4
  <2> QED BY <1>6, <2>5, <2>6
<1>8. CASE CallFailed(w, d)
  <2>1. answers' = answers
    BY <1>8 DEF CallFailed
  <2>2. \A f \in Deliveries : SeenOf(f)' = SeenOf(f)
    BY <2>1 DEF SeenOf
  <2> DEFINE none == {}
  <2>3. none \subseteq {"answer"} /\ SeenOf(d)' = SeenOf(d) \cup none
    BY <2>2
  <2> HIDE DEF none
  <2> QED BY <1>6, <2>2, <2>3
<1> QED BY <1>7, <1>8

(* An outcome closes a delivery that was answered, or opens it again.      *)
LEMMA MarkQueues ==
    ASSUME IInv, IInv', NEW w \in Workers, NEW d \in Deliveries,
           MarkSucceeded(w, d) \/ MarkRetrying(w, d) \/ MarkExhausted(w, d)
    PROVE  Queue!Next
<1>1. UNCHANGED <<queued, todo, calls, answers, replays>> /\ d \in current[w]
  BY DEF MarkSucceeded, MarkRetrying, MarkExhausted
<1>2. TypeOK /\ TypeOK' /\ status \in [Deliveries -> Statuses]
  BY DEF IInv, TypeOK
<1>3. /\ InHand' = InHand
      /\ [f \in Deliveries |-> SeenOf(f)]' = [f \in Deliveries |-> SeenOf(f)]
  BY <1>1 DEF InHand, SeenOf
<1> DEFINE C == {f \in Deliveries : status[f] = "succeeded"}
<1>4. CASE d \notin queued
  <2>1. status' = status
    BY <1>2, <1>4 DEF MarkSucceeded, MarkRetrying, MarkExhausted
  <2> QED BY <1>1, <1>2, <1>3, <2>1, QueueMoves
<1>5. CASE d \in queued /\ MarkSucceeded(w, d)
  <2>1. status' = [status EXCEPT ![d] = "succeeded"] /\ phase[w] = "answered"
    BY <1>5 DEF MarkSucceeded
  <2>2. answers[d] > 0
    BY <1>1, <2>1 DEF IInv, HeldRows
  <2>3. C' = C \cup {d}
    BY <1>2, <2>1
  <2>4. Queue!Close({d})
    BY <1>1, <1>3, <1>5, <2>2, <2>3 DEF Queue!Close, SeenOf
  <2> QED BY <2>4 DEF Queue!Next
<1>6. CASE d \in queued /\ (MarkRetrying(w, d) \/ MarkExhausted(w, d))
  <2>1. status' = [status EXCEPT ![d] = "pending"] \/ status' = [status EXCEPT ![d] = "exhausted"]
    BY <1>6 DEF MarkRetrying, MarkExhausted
  <2>2. C' = C \ {d}
    BY <1>2, <2>1
  <2>3. Queue!Reopen(d)
    BY <1>1, <1>3, <2>2 DEF Queue!Reopen
  <2> QED BY <2>3 DEF Queue!Next
<1> QED BY <1>4, <1>5, <1>6

LEMMA StepQueues ==
    IInv /\ IInv' /\ ReplaysSpent /\ [Next]_vars => [Queue!Next]_(Queue!vars)
<1> SUFFICES ASSUME IInv, IInv', ReplaysSpent, [Next]_vars PROVE Queue!Next
  OBVIOUS
<1>1. TypeOK /\ TypeOK' /\ todo \in [Workers -> SUBSET Deliveries]
  BY DEF IInv, TypeOK
<1>2. ASSUME UNCHANGED <<queued, status, calls, answers, replays>>,
             \A w \in Workers : todo'[w] \subseteq todo[w]
      PROVE  Queue!Next
  BY <1>1, <1>2, StillInHand, QueueMoves
<1>3. ASSUME NEW e \in Events, FanOut(e) PROVE Queue!Next
  <2>1. UNCHANGED <<status, calls, answers, replays, todo>> /\ queued \subseteq queued'
    BY <1>3 DEF FanOut, FanOutRead, FanOutInsert, FanOutFails
  <2>2. InHand' = InHand
    BY <2>1 DEF InHand
  <2> QED BY <1>1, <2>1, <2>2, QueueMoves
<1>4. Tick \/ UNCHANGED vars => Queue!Next
  BY <1>2 DEF Tick, vars
<1>5. ASSUME NEW w \in Workers, Crash(w) PROVE Queue!Next
  <2>1. UNCHANGED <<queued, status, calls, answers, replays>> /\ todo' = [todo EXCEPT ![w] = {}]
    BY <1>5 DEF Crash
  <2>2. \A x \in Workers : todo'[x] \subseteq todo[x]
    BY <1>1, <2>1
  <2> QED BY <1>2, <2>1, <2>2
<1>6. ASSUME NEW w \in Workers, NEW d \in Deliveries, Skip(w, d) PROVE Queue!Next
  <2>1. UNCHANGED <<queued, status, calls, answers, replays>> /\ todo' = [todo EXCEPT ![w] = @ \ {d}]
    BY <1>6 DEF Skip
  <2>2. \A x \in Workers : todo'[x] \subseteq todo[x]
    BY <1>1, <2>1
  <2> QED BY <1>2, <2>1, <2>2
<1>7. ASSUME NEW w \in Workers, Load(w) \/ Finish(w) PROVE Queue!Next
  BY <1>2, <1>7 DEF Load, Finish
<1>8. ASSUME NEW w \in Workers, NEW R \in SUBSET Deliveries, Judge(w, R) PROVE Queue!Next
  BY <1>2, <1>8 DEF Judge
<1>9. ASSUME NEW w \in Workers, NEW p \in Endpoints, AutoDisable(w, p) PROVE Queue!Next
  BY <1>2, <1>9 DEF AutoDisable
<1>10. ASSUME NEW w \in Workers, Works(w) PROVE Queue!Next
  BY <1>6, <1>7, <1>8, <1>9, <1>10, CallQueues, MarkQueues DEF Works
<1> QED BY <1>3, <1>4, <1>5, <1>10, CustomerQueues, ClaimQueues DEF Next, Claims

(* The workers implement AtLeastOnce: a delivery is only reported          *)
(* succeeded after its endpoint answered, and it is sent at most           *)
(* maxAttempts times for each time it was queued or replayed, whatever     *)
(* customers delete, workers crash and leases lapse (webhooks.ts           *)
(* deliverPendingWebhooks).                                                *)
THEOREM WebhooksImplementAtLeastOnce == Spec => DeliversAtLeastOnce
<1>1. Init => Queue!Init /\ ReplaysSpent
  <2> SUFFICES ASSUME Init PROVE Queue!Init /\ ReplaysSpent
    OBVIOUS
  <2>1. queued \cup InHand = {}
    BY DEF Init, InHand
  <2>2. [d \in Deliveries |-> SeenOf(d)] = [d \in Deliveries |-> {}]
    BY DEF Init, SeenOf
  <2>3. {d \in Deliveries : status[d] = "succeeded"} = {}
    BY DEF Init
  <2>4. Queue!Init
    BY <2>1, <2>2, <2>3 DEF Init, Queue!Init
  <2>5. ReplaysSpent
    BY DEF Init, ReplaysSpent
  <2> QED BY <2>4, <2>5
<1>2. IInv /\ IInv' /\ ReplaysSpent /\ [Next]_vars => [Queue!Next]_(Queue!vars)
  BY StepQueues
<1>3. IInv /\ ReplaysSpent /\ [Next]_vars => ReplaysSpent'
  BY ReplaysStep
<1> QED BY <1>1, <1>2, <1>3, WebhookInvariant, PTL DEF Spec, DeliversAtLeastOnce, Queue!Spec
=============================================================================

---------------------- MODULE SupplierSettlementProofs ----------------------
(***************************************************************************)
(* For any number of obligations, workers and refunds, any amounts and any *)
(* interleaving and crash: a transfer is asked for once, and the row never *)
(* claims more than the provider did.                                      *)
(***************************************************************************)
EXTENDS SupplierSettlement, TLAPS

USE ObligationsAssumption, WorkersAssumption, RefundsAssumption
    DEF ObligationsAssumption, WorkersAssumption, RefundsAssumption, Statuses, Stages,
        row, provider, sending, auditing, Free, Rest, Unasked, Queries

IInv ==
    /\ TypeOK
    /\ SentOnce
    /\ BooksAreTrue
    /\ SendersAreAlone
    /\ MessagesAreTrue

(* Nothing is owed and nobody is at work.                                  *)
LEMMA InitIInv == Init => IInv
<1> SUFFICES ASSUME Init PROVE IInv
  OBVIOUS
<1>1. TypeOK
  BY DEF Init, TypeOK
<1>2. SentOnce /\ BooksAreTrue
  BY DEF Init, SentOnce, BooksAreTrue
<1>3. SendersAreAlone
  BY DEF Init, SendersAreAlone
<1>4. MessagesAreTrue
  BY DEF Init, MessagesAreTrue
<1> QED BY <1>1, <1>2, <1>3, <1>4 DEF IInv

(* A step that leaves the row's status, the requests and the workers alone *)
(* keeps what is said of the requests.                                     *)
LEMMA RequestsStay ==
    ASSUME SentOnce, SendersAreAlone, UNCHANGED <<status, requests, job>>
    PROVE  SentOnce' /\ SendersAreAlone'
<1>1. SentOnce'
  BY DEF SentOnce
<1>2. SendersAreAlone'
  BY DEF SendersAreAlone
<1> QED BY <1>1, <1>2

(* So does one that writes a status which is neither none nor calculated.  *)
LEMMA StatusWritten ==
    ASSUME TypeOK, SentOnce, SendersAreAlone, NEW p \in Obligations,
           NEW to \in Statuses \ {"none", "calculated"},
           status' = [status EXCEPT ![p] = to], UNCHANGED <<requests, job>>
    PROVE  SentOnce' /\ SendersAreAlone'
<1>1. SentOnce'
  BY DEF SentOnce
<1>2. \A q \in Obligations : status'[q] = IF q = p THEN to ELSE status[q]
  BY DEF TypeOK
<1>3. SendersAreAlone'
  BY <1>2 DEF SendersAreAlone
<1> QED BY <1>1, <1>3

(* And one that moves a worker to a stage in which it is not sending.      *)
LEMMA WorkerMoved ==
    ASSUME TypeOK, SentOnce, SendersAreAlone, NEW w \in Workers,
           NEW j \in [at : Stages \ {"sending"}, po : Obligations \cup {None}],
           j.at # "idle" => j.po \in Obligations,
           job' = [job EXCEPT ![w] = j], UNCHANGED <<requests, status>>
    PROVE  SentOnce' /\ SendersAreAlone'
<1>1. SentOnce'
  BY DEF SentOnce
<1>2. \A v \in Workers : job'[v] = IF v = w THEN j ELSE job[v]
  BY DEF TypeOK
<1>3. SendersAreAlone'
  BY <1>2 DEF SendersAreAlone
<1> QED BY <1>1, <1>3

(* A step that changes neither row, provider nor messages keeps the books. *)
LEMMA BooksStay ==
    ASSUME BooksAreTrue, MessagesAreTrue, TypeOK,
           UNCHANGED <<status, reversed, moved, taken, made, unwind, seen>>,
           \A w \in Workers : job'[w].at = "paid" => job[w].at = "paid" /\ job'[w].po = job[w].po
    PROVE  BooksAreTrue' /\ MessagesAreTrue'
<1>1. BooksAreTrue'
  BY DEF BooksAreTrue
<1>2. MessagesAreTrue'
  BY DEF MessagesAreTrue
<1> QED BY <1>1, <1>2

LEMMA AccountIInv ==
    ASSUME IInv, NEW p \in Obligations, AccountChanges(p) PROVE IInv'
<1> USE DEF IInv, AccountChanges
<1>1. TypeOK'
  BY DEF TypeOK
<1>2. SentOnce' /\ SendersAreAlone'
  BY RequestsStay
<1>3. BooksAreTrue' /\ MessagesAreTrue'
  BY BooksStay
<1> QED BY <1>1, <1>2, <1>3

LEMMA OthersIInv ==
    ASSUME IInv, NEW query \in Queries, OthersChange(query) PROVE IInv'
<1> USE DEF IInv, OthersChange
<1>1. TypeOK'
  BY DEF TypeOK
<1>2. SentOnce' /\ SendersAreAlone'
  BY RequestsStay
<1>3. BooksAreTrue' /\ MessagesAreTrue'
  BY BooksStay
<1> QED BY <1>1, <1>2, <1>3

(* The workers' steps that write no answer.                                *)
LEMMA HandlerStartsIInv ==
    ASSUME IInv, NEW w \in Handlers, NEW p \in Obligations, HandlerStarts(w, p)
    PROVE  IInv'
<1> USE DEF IInv, HandlerStarts
<1> DEFINE j == [at |-> "checking", po |-> p]
<1>0. w \in Workers /\ \A v \in Workers : job'[v] = IF v = w THEN j ELSE job[v]
  BY DEF TypeOK, Workers
<1>1. TypeOK'
  BY <1>0 DEF TypeOK
<1>2. \A q \in Obligations : status'[q] # status[q] => status[q] = "none" /\ status'[q] = "calculated"
  BY DEF TypeOK
<1>3. SentOnce'
  BY DEF SentOnce
<1>4. \A q \in Obligations : status[q] \notin {"none", "calculated"} => status'[q] = status[q]
  BY <1>2
<1>5. SendersAreAlone'
  <2>1. \A v \in Workers : job'[v].at # "idle" => job'[v].po \in Obligations
    BY <1>0 DEF SendersAreAlone
  <2>2. \A v \in Workers : job'[v].at = "sending" => v # w /\ job'[v] = job[v]
    BY <1>0
  <2>3. \A v \in Workers : job'[v].at = "sending" =>
           requests'[job'[v].po] = 0 /\ status'[job'[v].po] \notin {"none", "calculated"}
    BY <2>1, <2>2, <1>4 DEF SendersAreAlone
  <2>4. \A u, v \in Workers :
           job'[u].at = "sending" /\ job'[v].at = "sending" /\ job'[u].po = job'[v].po => u = v
    BY <2>2 DEF SendersAreAlone
  <2>5. \A q \in Obligations : requests'[q] > 0 => status'[q] \notin {"none", "calculated"}
    BY <1>4 DEF SendersAreAlone
  <2> QED BY <2>1, <2>3, <2>4, <2>5 DEF SendersAreAlone
<1>6. BooksAreTrue'
  BY <1>2 DEF BooksAreTrue
<1>7. MessagesAreTrue'
  BY <1>0 DEF MessagesAreTrue
<1> QED BY <1>1, <1>3, <1>5, <1>6, <1>7

LEMMA LimitedFact == \A query, S : \A T \in Limited(query, S) : T \subseteq S
  BY DEF Limited

LEMMA SweepIInv ==
    ASSUME IInv, SweepLists \/ \E p \in Obligations : SweepTakes(p)
    PROVE  IInv'
<1> USE DEF IInv
<1>s. Sweep \in Workers
  BY DEF Workers
<1>1. CASE SweepLists
  <2>0. due' \subseteq Obligations
    BY <1>1, LimitedFact DEF SweepLists, ToSweep
  <2>1. TypeOK'
    BY <1>1, <2>0 DEF SweepLists, TypeOK
  <2>2. SentOnce' /\ SendersAreAlone'
    BY <1>1, RequestsStay DEF SweepLists
  <2>3. BooksAreTrue' /\ MessagesAreTrue'
    BY <1>1, BooksStay DEF SweepLists
  <2> QED BY <2>1, <2>2, <2>3
<1>2. ASSUME NEW p \in Obligations, SweepTakes(p)
      PROVE  IInv'
  <2> DEFINE j == [at |-> "checking", po |-> p]
  <2>0. \A v \in Workers : job'[v] = IF v = Sweep THEN j ELSE job[v]
    BY <1>2, <1>s DEF SweepTakes, TypeOK
  <2>1. TypeOK'
    BY <1>2, <1>s DEF SweepTakes, TypeOK
  <2>2. SentOnce' /\ SendersAreAlone'
    BY <1>2, <1>s, WorkerMoved DEF SweepTakes
  <2>3. BooksAreTrue' /\ MessagesAreTrue'
    BY <1>2, <2>0, BooksStay DEF SweepTakes
  <2> QED BY <2>1, <2>2, <2>3
<1> QED BY <1>1, <1>2

(* A job with another stage.                                               *)
LEMMA JobAt ==
    ASSUME NEW j \in [at : Stages, po : Obligations \cup {None}], NEW s \in Stages
    PROVE  /\ [j EXCEPT !.at = s] \in [at : Stages, po : Obligations \cup {None}]
           /\ [j EXCEPT !.at = s].at = s /\ [j EXCEPT !.at = s].po = j.po
  OBVIOUS

LEMMA CheckIInv ==
    ASSUME IInv, NEW w \in Workers, Check(w) PROVE IInv'
<1> USE DEF IInv, Check
<1>t. job \in [Workers -> [at : Stages, po : Obligations \cup {None}]] /\ job[w].po \in Obligations
  BY DEF SendersAreAlone, TypeOK
<1>0. \E j \in {[job[w] EXCEPT !.at = "claiming"], Free} : job' = [job EXCEPT ![w] = j]
  <2>1. CASE job' = [job EXCEPT ![w].at = "claiming"]
    <3>1. job' = [job EXCEPT ![w] = [job[w] EXCEPT !.at = "claiming"]]
      BY <2>1
    <3> QED BY <3>1
  <2>2. CASE job' = [job EXCEPT ![w] = Free]
    BY <2>2
  <2> QED BY <2>1, <2>2
<1>3. PICK j \in {[job[w] EXCEPT !.at = "claiming"], Free} : job' = [job EXCEPT ![w] = j]
  BY <1>0
<1>4. /\ j \in [at : Stages \ {"sending"}, po : Obligations \cup {None}]
      /\ j.at # "idle" => j.po \in Obligations
      /\ j.at # "paid"
  <2>1. CASE j = [job[w] EXCEPT !.at = "claiming"]
    BY <1>t, <2>1
  <2>2. CASE j = Free
    BY <2>2
  <2> QED BY <2>1, <2>2, <1>3
<1>5. job' \in [Workers -> [at : Stages, po : Obligations \cup {None}]]
  BY <1>3, <1>4, <1>t
<1>9. TypeOK'
  BY <1>5 DEF TypeOK
<1>6. SentOnce' /\ SendersAreAlone'
  BY <1>3, <1>4, WorkerMoved
<1>7. \A v \in Workers : job'[v] = IF v = w THEN j ELSE job[v]
  BY <1>3, <1>t
<1>8. BooksAreTrue' /\ MessagesAreTrue'
  BY <1>4, <1>7, BooksStay
<1> QED BY <1>6, <1>8, <1>9

LEMMA ClaimIInv ==
    ASSUME IInv, NEW w \in Workers, Claim(w) PROVE IInv'
<1> USE DEF IInv, Claim
<1> DEFINE p == job[w].po
<1>t. /\ job \in [Workers -> [at : Stages, po : Obligations \cup {None}]]
      /\ p \in Obligations /\ status \in [Obligations -> Statuses]
  BY DEF SendersAreAlone, TypeOK
<1>1. CASE Claimable(p)
  <2> DEFINE j == [job[w] EXCEPT !.at = "sending"]
  <2>1. job' = [job EXCEPT ![w] = j] /\ status' = [status EXCEPT ![p] = "initiated"]
    BY <1>1
  <2>2. j \in [at : Stages, po : Obligations \cup {None}] /\ j.at = "sending" /\ j.po = p
    BY <1>t, JobAt
  <2> HIDE DEF j, p
  <2>3. /\ \A v \in Workers : job'[v] = IF v = w THEN j ELSE job[v]
        /\ \A q \in Obligations : status'[q] = IF q = p THEN "initiated" ELSE status[q]
    BY <1>t, <2>1
  <2>4. status[p] = "calculated"
    BY <1>1 DEF Claimable
  <2>5. TypeOK'
    BY <1>t, <2>1, <2>2 DEF TypeOK
  <2>6. SentOnce'
    BY DEF SentOnce
  <2>7. SendersAreAlone'
    <3>1. \A v \in Workers : job'[v].at # "idle" => job'[v].po \in Obligations
      BY <1>t, <2>2, <2>3 DEF SendersAreAlone
    <3>2. requests[p] = 0
      BY <1>t, <2>4 DEF SendersAreAlone, TypeOK
    <3>3. \A v \in Workers : job[v].at = "sending" => job[v].po # p
      BY <2>4 DEF SendersAreAlone
    <3>4. \A v \in Workers : job'[v].at = "sending" =>
             requests'[job'[v].po] = 0 /\ status'[job'[v].po] \notin {"none", "calculated"}
      BY <2>2, <2>3, <3>1, <3>2 DEF SendersAreAlone
    <3>5. \A u, v \in Workers :
             job'[u].at = "sending" /\ job'[v].at = "sending" /\ job'[u].po = job'[v].po => u = v
      BY <2>2, <2>3, <3>3 DEF SendersAreAlone
    <3>6. \A q \in Obligations : requests'[q] > 0 => status'[q] \notin {"none", "calculated"}
      BY <2>3 DEF SendersAreAlone
    <3> QED BY <3>1, <3>4, <3>5, <3>6 DEF SendersAreAlone
  <2>8. BooksAreTrue'
    BY <2>3, <2>4 DEF BooksAreTrue
  <2>9. MessagesAreTrue'
    BY <2>2, <2>3 DEF MessagesAreTrue
  <2> QED BY <2>5, <2>6, <2>7, <2>8, <2>9
<1>2. CASE ~Claimable(p)
  <2>1. job' = [job EXCEPT ![w] = Free] /\ UNCHANGED status
    BY <1>2
  <2>2. TypeOK'
    BY <2>1, <1>t DEF TypeOK
  <2>3. SentOnce' /\ SendersAreAlone'
    BY <2>1, WorkerMoved
  <2>4. BooksAreTrue' /\ MessagesAreTrue'
    BY <2>1, <1>t, BooksStay
  <2> QED BY <2>2, <2>3, <2>4
<1> QED BY <1>1, <1>2

LEMMA TransferIInv ==
    ASSUME IInv, NEW w \in Workers, Transfer(w) PROVE IInv'
<1> USE DEF IInv
<1> DEFINE p == job[w].po
<1>t. /\ job \in [Workers -> [at : Stages, po : Obligations \cup {None}]]
      /\ p \in Obligations /\ requests \in [Obligations -> Nat]
      /\ requests[p] = 0 /\ status[p] \notin {"none", "calculated"} /\ job[w].at = "sending"
  BY DEF Transfer, SendersAreAlone, TypeOK
<1>a. PICK a \in {"paid", "unsure", "failed"} :
        /\ job' = [job EXCEPT ![w].at = a]
        /\ moved' = IF p \in moved' THEN moved \cup {p} ELSE moved
        /\ a = "paid" => p \in moved'
  BY <1>t DEF Transfer
<1> DEFINE j == [job[w] EXCEPT !.at = a]
<1>1. job' = [job EXCEPT ![w] = j] /\ requests' = [requests EXCEPT ![p] = requests[p] + 1]
  BY <1>a DEF Transfer
<1>2. j \in [at : Stages, po : Obligations \cup {None}] /\ j.at = a /\ j.po = p
  BY <1>t, JobAt
<1> HIDE DEF j, p
<1>3. /\ \A v \in Workers : job'[v] = IF v = w THEN j ELSE job[v]
      /\ \A q \in Obligations : requests'[q] = IF q = p THEN 1 ELSE requests[q]
  BY <1>t, <1>1
<1>4. moved \subseteq moved' /\ moved' \subseteq Obligations
  BY <1>a, <1>t DEF TypeOK
<1>5. TypeOK'
  BY <1>t, <1>1, <1>2, <1>3, <1>4 DEF TypeOK, Transfer
<1>6. SentOnce'
  BY <1>3 DEF SentOnce
<1>7. SendersAreAlone'
  <2>1. \A v \in Workers : job'[v].at # "idle" => job'[v].po \in Obligations
    BY <1>t, <1>2, <1>3 DEF SendersAreAlone
  <2>2. \A v \in Workers : job'[v].at = "sending" => v # w /\ job'[v] = job[v]
    BY <1>2, <1>3
  <2>3. \A v \in Workers : v # w /\ job[v].at = "sending" => job[v].po # p
    BY <1>t DEF SendersAreAlone, p
  <2>4. \A v \in Workers : job'[v].at = "sending" =>
           requests'[job'[v].po] = 0 /\ status'[job'[v].po] \notin {"none", "calculated"}
    BY <1>3, <2>1, <2>2, <2>3 DEF SendersAreAlone, Transfer
  <2>5. \A u, v \in Workers :
           job'[u].at = "sending" /\ job'[v].at = "sending" /\ job'[u].po = job'[v].po => u = v
    BY <2>2 DEF SendersAreAlone
  <2>6. \A q \in Obligations : requests'[q] > 0 => status'[q] \notin {"none", "calculated"}
    BY <1>t, <1>3 DEF SendersAreAlone, Transfer
  <2> QED BY <2>1, <2>4, <2>5, <2>6 DEF SendersAreAlone
<1>8. BooksAreTrue'
  BY <1>4 DEF BooksAreTrue, Transfer
<1>9. MessagesAreTrue'
  <2>1. \A v \in Workers : job'[v].at = "paid" => job'[v].po \in moved'
    BY <1>a, <1>2, <1>3, <1>4 DEF MessagesAreTrue
  <2>2. UNCHANGED <<made, taken, unwind, seen>>
    BY DEF Transfer
  <2> QED BY <2>1, <2>2, <1>4 DEF MessagesAreTrue
<1> QED BY <1>5, <1>6, <1>7, <1>8, <1>9

(* An answer is written by whoever asked; what it says is true.            *)
LEMMA AnsweredIInv ==
    ASSUME IInv, NEW w \in Workers, Answered(w) PROVE IInv'
<1> USE DEF IInv
<1> DEFINE p == job[w].po
           to == Outcome(job[w].at)
<1>t. /\ job \in [Workers -> [at : Stages, po : Obligations \cup {None}]]
      /\ p \in Obligations /\ status \in [Obligations -> Statuses]
      /\ job[w].at \in {"paid", "unsure", "failed"}
  BY DEF Answered, SendersAreAlone, TypeOK
<1>1. to \in {"succeeded", "initiated", "failed"} /\ (to = "succeeded" => job[w].at = "paid")
  BY <1>t DEF Outcome
<1>2. job' = [job EXCEPT ![w] = Free] /\ status' = [status EXCEPT ![p] = to]
  BY DEF Answered
<1>3. known' \subseteq Obligations
  BY <1>t DEF Answered, TypeOK
<1>4. to = "succeeded" => p \in moved
  BY <1>1 DEF MessagesAreTrue
<1> HIDE DEF p, to
<1>5. /\ \A v \in Workers : job'[v] = IF v = w THEN Free ELSE job[v]
      /\ \A q \in Obligations : status'[q] = IF q = p THEN to ELSE status[q]
  BY <1>t, <1>2
<1>6. TypeOK'
  <2>1. status' \in [Obligations -> Statuses]
    BY <1>t, <1>1, <1>2
  <2>2. job' \in [Workers -> [at : Stages, po : Obligations \cup {None}]]
    BY <1>t, <1>2
  <2> QED BY <1>3, <2>1, <2>2 DEF TypeOK, Answered
<1>7. SentOnce'
  BY DEF SentOnce, Answered
<1>8. SendersAreAlone'
  <2>1. \A v \in Workers : job'[v].at # "idle" => v # w /\ job'[v] = job[v] /\ job[v].po \in Obligations
    BY <1>5 DEF SendersAreAlone
  <2>2. \A q \in Obligations : status[q] \notin {"none", "calculated"} => status'[q] \notin {"none", "calculated"}
    BY <1>1, <1>5
  <2> QED BY <2>1, <2>2 DEF SendersAreAlone, Answered
<1>9. BooksAreTrue'
  BY <1>1, <1>4, <1>5 DEF BooksAreTrue, Answered
<1>10. MessagesAreTrue'
  BY <1>5 DEF MessagesAreTrue, Answered
<1> QED BY <1>6, <1>7, <1>8, <1>9, <1>10

LEMMA WorkerDiesIInv ==
    ASSUME IInv, NEW w \in Workers, WorkerDies(w) PROVE IInv'
<1> USE DEF IInv, WorkerDies
<1>0. \A v \in Workers : job'[v] = IF v = w THEN Free ELSE job[v]
  BY DEF TypeOK
<1>1. TypeOK'
  BY DEF TypeOK
<1>2. SentOnce' /\ SendersAreAlone'
  BY WorkerMoved
<1>3. BooksAreTrue' /\ MessagesAreTrue'
  BY <1>0, BooksStay
<1> QED BY <1>1, <1>2, <1>3

-----------------------------------------------------------------------------
(* The handler of a refund.                                                *)
LEMMA RefundTypes ==
    ASSUME TypeOK, NEW r \in Refunds
    PROVE  /\ Of[r] \in Obligations /\ Amount[Of[r]] \in Nat \ {0} /\ Share[r] \in Nat
           /\ unwind \in [Refunds -> [at : {"idle", "cancelling", "reversing", "writing"},
                                      already : Nat, want : Nat]]
           /\ reversed \in [Obligations -> Nat] /\ taken \in [Obligations -> Nat]
           /\ unwind[r].already \in Nat /\ unwind[r].want \in Nat
  BY DEF TypeOK

LEMMA UnwindStartsIInv ==
    ASSUME IInv, NEW r \in Refunds, UnwindStarts(r) PROVE IInv'
<1> USE DEF IInv
<1> DEFINE p == Of[r]
           n == AtMost(Amount[p] - reversed[p], Share[r])
<1>t. /\ p \in Obligations /\ Amount[p] \in Nat \ {0} /\ Share[r] \in Nat /\ reversed[p] \in Nat
      /\ unwind \in [Refunds -> [at : {"idle", "cancelling", "reversing", "writing"},
                                 already : Nat, want : Nat]]
  BY RefundTypes
<1>0. UNCHANGED <<crowded, status, known, reversed, ready, moved, requests, taken, made, buried, pulled, job, due, listed, seen>>
  BY DEF UnwindStarts
<1>1. SentOnce' /\ SendersAreAlone'
  BY <1>0, RequestsStay
<1>2. BooksAreTrue'
  BY <1>0 DEF BooksAreTrue
<1>3. CASE unwind' = [unwind EXCEPT ![r].at = "cancelling"]
  <2>0. unwind' \in [Refunds -> [at : {"idle", "cancelling", "reversing", "writing"},
                                already : Nat, want : Nat]]
    BY <1>t, <1>3
  <2>1. TypeOK'
    BY <1>0, <2>0 DEF TypeOK
  <2>2. \A s \in Refunds : unwind'[s].at \in {"reversing", "writing"} => s # r /\ unwind'[s] = unwind[s]
    BY <1>t, <1>3
  <2>3. MessagesAreTrue'
    BY <1>0, <2>2 DEF MessagesAreTrue
  <2> QED BY <1>1, <1>2, <2>1, <2>3
<1>4. CASE /\ status[p] = "succeeded" /\ n > 0
           /\ unwind' = [unwind EXCEPT ![r] = [at |-> "reversing", already |-> reversed[p], want |-> n]]
  <2>1. n \in Nat /\ n <= Amount[p] - reversed[p]
    BY <1>t, <1>4 DEF AtMost
  <2>2. TypeOK'
    BY <1>t, <1>0, <1>4, <2>1 DEF TypeOK
  <2>3. p \in moved /\ reversed[p] <= taken[p]
    BY <1>t, <1>4 DEF BooksAreTrue
  <2>4. /\ \A s \in Refunds : s # r => unwind'[s] = unwind[s]
        /\ unwind'[r].at = "reversing" /\ unwind'[r].already = reversed[p] /\ unwind'[r].want = n
    BY <1>t, <1>4
  <2> HIDE DEF n
  <2>5. reversed[p] + n <= Amount[p]
    BY <2>1, <1>t
  <2>6. \A s \in Refunds : unwind'[s].at \in {"reversing", "writing"} =>
          /\ Of[s] \in moved /\ unwind'[s].want > 0
          /\ unwind'[s].already <= taken[Of[s]]
          /\ unwind'[s].already + unwind'[s].want <= Amount[Of[s]]
    BY <1>4, <2>3, <2>4, <2>5 DEF MessagesAreTrue
  <2>7. \A s \in Refunds : unwind'[s].at = "writing" =>
          unwind'[s].already + unwind'[s].want <= taken[Of[s]]
    BY <2>4 DEF MessagesAreTrue
  <2>8. MessagesAreTrue'
    BY <1>0, <2>6, <2>7 DEF MessagesAreTrue
  <2> QED BY <1>1, <1>2, <2>2, <2>8
<1> QED BY <1>3, <1>4 DEF UnwindStarts

(* A refund whose handler has come to rest needs nothing more.             *)
LEMMA RestsIInv ==
    ASSUME TypeOK, MessagesAreTrue, NEW r \in Refunds, unwind' = [unwind EXCEPT ![r] = Rest]
    PROVE  /\ unwind' \in [Refunds -> [at : {"idle", "cancelling", "reversing", "writing"},
                                       already : Nat, want : Nat]]
           /\ \A s \in Refunds : unwind'[s].at # "idle" => unwind'[s] = unwind[s]
  BY DEF TypeOK

LEMMA CancelIInv ==
    ASSUME IInv, NEW r \in Refunds, Cancel(r) PROVE IInv'
<1> USE DEF IInv, Cancel
<1>1. TypeOK'
  BY RestsIInv DEF TypeOK
<1>2. SentOnce' /\ SendersAreAlone'
  BY RefundTypes, StatusWritten
<1>3. BooksAreTrue'
  BY DEF BooksAreTrue, TypeOK
<1>4. MessagesAreTrue'
  BY RestsIInv DEF MessagesAreTrue
<1> QED BY <1>1, <1>2, <1>3, <1>4

LEMMA UnwindEndsIInv ==
    ASSUME IInv, NEW r \in Refunds, UnwindEnds(r) PROVE IInv'
<1> USE DEF IInv, UnwindEnds
<1>1. TypeOK'
  BY RestsIInv DEF TypeOK
<1>2. SentOnce' /\ SendersAreAlone'
  BY RequestsStay
<1>3. BooksAreTrue'
  BY DEF BooksAreTrue
<1>4. MessagesAreTrue'
  BY RestsIInv DEF MessagesAreTrue
<1> QED BY <1>1, <1>2, <1>3, <1>4

(* What came back of a transfer grows, and with it what is true of it.     *)
LEMMA TakenGrows ==
    ASSUME TypeOK, BooksAreTrue, MessagesAreTrue, NEW p \in Obligations, NEW n \in Nat,
           taken[p] + n <= Amount[p], taken' = [taken EXCEPT ![p] = @ + n],
           UNCHANGED <<status, reversed, moved>>
    PROVE  /\ BooksAreTrue'
           /\ taken' \in [Obligations -> Nat]
           /\ \A q \in Obligations : taken[q] <= taken'[q]
<1>1. taken \in [Obligations -> Nat] /\ Amount[p] \in Nat
  BY DEF TypeOK
<1>2. \A q \in Obligations : taken[q] <= taken'[q] /\ (q # p => taken'[q] = taken[q])
  BY <1>1
<1>3. taken'[p] = taken[p] + n /\ taken' \in [Obligations -> Nat]
  BY <1>1
<1>4. BooksAreTrue'
  <2>1. \A q \in Obligations : reversed[q] \in Nat /\ taken[q] \in Nat /\ taken'[q] \in Nat /\ Amount[q] \in Nat
    BY <1>1, <1>3 DEF TypeOK
  <2>2. \A q \in Obligations : reversed'[q] <= taken'[q] /\ taken'[q] <= Amount[q]
    BY <1>2, <1>3, <2>1 DEF BooksAreTrue
  <2>3. \A q \in Obligations : status'[q] = "reversed" => taken'[q] = Amount[q]
    BY <1>2, <2>1, <2>2 DEF BooksAreTrue
  <2>4. \A q \in Obligations : status'[q] \in {"succeeded", "reversed"} => q \in moved'
    BY DEF BooksAreTrue
  <2> QED BY <2>2, <2>3, <2>4 DEF BooksAreTrue
<1> QED BY <1>2, <1>3, <1>4

LEMMA ReverseIInv ==
    ASSUME IInv, NEW r \in Refunds, Reverse(r) PROVE IInv'
<1> USE DEF IInv
<1> DEFINE p == Of[r]
           n == unwind[r].want
           k == unwind[r].already + n
<1>t. /\ p \in Obligations /\ Amount[p] \in Nat \ {0}
      /\ unwind \in [Refunds -> [at : {"idle", "cancelling", "reversing", "writing"},
                                 already : Nat, want : Nat]]
      /\ taken \in [Obligations -> Nat] /\ unwind[r].already \in Nat /\ n \in Nat
  BY RefundTypes
<1>0. UNCHANGED <<crowded, status, known, reversed, ready, moved, requests, buried, job, due, listed, seen>>
  BY DEF Reverse
<1>a. /\ unwind[r].at = "reversing" /\ p \in moved /\ n > 0
      /\ unwind[r].already <= taken[p] /\ k <= Amount[p] /\ k \in 1..Amount[p]
  BY <1>t DEF Reverse, MessagesAreTrue
<1>1. SentOnce' /\ SendersAreAlone'
  BY <1>0, RequestsStay
<1>2. /\ unwind' \in [Refunds -> [at : {"idle", "cancelling", "reversing", "writing"},
                                  already : Nat, want : Nat]]
      /\ \A s \in Refunds : s # r => unwind'[s] = unwind[s]
      /\ unwind'[r].at \in {"idle", "writing"}
      /\ unwind'[r].at = "writing" =>
            unwind'[r].already = unwind[r].already /\ unwind'[r].want = n
  <2>1. CASE unwind' = [unwind EXCEPT ![r] = Rest]
    BY <1>t, <2>1
  <2>2. CASE unwind' = [unwind EXCEPT ![r] = [@ EXCEPT !.at = "writing"]]
    BY <1>t, <2>2
  <2>3. unwind' = [unwind EXCEPT ![r] = Rest] \/ unwind' = [unwind EXCEPT ![r] = [@ EXCEPT !.at = "writing"]]
    BY DEF Reverse
  <2> QED BY <2>1, <2>2, <2>3
<1>3. /\ BooksAreTrue' /\ taken' \in [Obligations -> Nat]
      /\ \A q \in Obligations : taken[q] <= taken'[q]
      /\ k <= taken'[p]
      /\ pulled' \in [Refunds -> Nat]
      /\ made' \subseteq [po : Obligations, key : Nat, amount : Nat]
      /\ \A m \in made' : m.key <= taken'[m.po]
  <2> DEFINE new == [po |-> p, key |-> k, amount |-> n]
  <2>1. CASE new \in made /\ UNCHANGED <<taken, made, pulled>>
    <3>1. k <= taken[p]
      BY <2>1 DEF MessagesAreTrue
    <3>2. BooksAreTrue'
      BY <1>0, <2>1 DEF BooksAreTrue
    <3> QED BY <1>t, <2>1, <3>1, <3>2 DEF TypeOK, MessagesAreTrue
  <2>2. CASE /\ taken[p] + n <= Amount[p] /\ taken' = [taken EXCEPT ![p] = @ + n]
             /\ made' = made \cup {new} /\ pulled' = [pulled EXCEPT ![r] = @ + n]
    <3>1. BooksAreTrue' /\ taken' \in [Obligations -> Nat] /\ \A q \in Obligations : taken[q] <= taken'[q]
      BY <1>0, <1>t, <2>2, TakenGrows
    <3>2. k <= taken'[p]
      BY <1>t, <1>a, <2>2
    <3>3. pulled' \in [Refunds -> Nat]
      BY <1>t, <2>2 DEF TypeOK
    <3>4. made' \subseteq [po : Obligations, key : Nat, amount : Nat]
      BY <1>t, <2>2 DEF TypeOK
    <3>5. \A m \in made' : m.key <= taken'[m.po]
      <4>1. CASE made' = made \cup {new}
        <5> SUFFICES ASSUME NEW m \in made PROVE m.key <= taken'[m.po]
          BY <3>2, <4>1
        <5>1. m.key \in Nat /\ m.po \in Obligations
          BY DEF TypeOK
        <5> HIDE DEF p, n, k
        <5> QED BY <1>t, <3>1, <5>1 DEF MessagesAreTrue
      <4> QED BY <2>2, <4>1
    <3> QED BY <3>1, <3>2, <3>3, <3>4, <3>5
  <2> QED BY <2>1, <2>2 DEF Reverse, Key
<1>4. TypeOK'
  BY <1>0, <1>2, <1>3 DEF TypeOK
<1>5. MessagesAreTrue'
  <2>1. \A s \in Refunds : unwind'[s].at \in {"reversing", "writing"} =>
          /\ Of[s] \in moved /\ unwind'[s].want > 0
          /\ unwind'[s].already <= taken'[Of[s]]
          /\ unwind'[s].already + unwind'[s].want <= Amount[Of[s]]
    <3> SUFFICES ASSUME NEW s \in Refunds, unwind'[s].at \in {"reversing", "writing"}
                 PROVE  /\ Of[s] \in moved /\ unwind'[s].want > 0
                        /\ unwind'[s].already <= taken'[Of[s]]
                        /\ unwind'[s].already + unwind'[s].want <= Amount[Of[s]]
      OBVIOUS
    <3>1. CASE s = r
      BY <1>2, <1>3, <1>a, <1>t, <3>1
    <3>2. CASE s # r
      <4>1. taken[Of[s]] <= taken'[Of[s]] /\ unwind[s].already \in Nat /\ taken[Of[s]] \in Nat /\ taken'[Of[s]] \in Nat
        BY <1>3, RefundTypes
      <4> QED BY <1>2, <3>2, <4>1 DEF MessagesAreTrue
    <3> QED BY <3>1, <3>2
  <2>2. \A s \in Refunds : unwind'[s].at = "writing" =>
          unwind'[s].already + unwind'[s].want <= taken'[Of[s]]
    <3> SUFFICES ASSUME NEW s \in Refunds, unwind'[s].at = "writing"
                 PROVE  unwind'[s].already + unwind'[s].want <= taken'[Of[s]]
      OBVIOUS
    <3>1. CASE s = r
      BY <1>2, <1>3, <3>1
    <3>2. CASE s # r
      <4>1. /\ taken[Of[s]] <= taken'[Of[s]] /\ unwind[s].already \in Nat /\ unwind[s].want \in Nat
            /\ taken[Of[s]] \in Nat /\ taken'[Of[s]] \in Nat
        BY <1>3, RefundTypes
      <4> QED BY <1>2, <3>2, <4>1 DEF MessagesAreTrue
    <3> QED BY <3>1, <3>2
  <2>3. seen'.po # None => seen'.po \in moved' /\ seen'.taken <= taken'[seen'.po]
    <3>1. seen.taken \in Nat /\ (seen.po # None => seen.po \in Obligations)
      BY DEF TypeOK
    <3> QED BY <1>0, <1>3, <1>t, <3>1 DEF MessagesAreTrue
  <2> QED BY <1>0, <1>3, <2>1, <2>2, <2>3 DEF MessagesAreTrue
<1> QED BY <1>1, <1>3, <1>4, <1>5

(* The row is brought to what had come back when the reversal was made.    *)
LEMMA WriteReversalIInv ==
    ASSUME IInv, NEW r \in Refunds, WriteReversal(r) PROVE IInv'
<1> USE DEF IInv
<1> DEFINE p == Of[r]
           total == unwind[r].already + unwind[r].want
<1>t. /\ p \in Obligations /\ Amount[p] \in Nat \ {0} /\ reversed \in [Obligations -> Nat]
      /\ taken \in [Obligations -> Nat] /\ total \in Nat
  BY RefundTypes
<1>0. UNCHANGED <<crowded, known, ready, moved, requests, taken, made, buried, pulled, job, due, listed, seen>>
  BY DEF WriteReversal
<1>a. p \in moved /\ total <= taken[p] /\ taken[p] <= Amount[p]
  BY <1>t DEF WriteReversal, MessagesAreTrue, BooksAreTrue
<1> DEFINE to == IF total >= Amount[p] THEN "reversed" ELSE "succeeded"
<1>b. /\ status' = [status EXCEPT ![p] = to] /\ reversed' = [reversed EXCEPT ![p] = total]
      /\ unwind' = [unwind EXCEPT ![r] = Rest]
  BY DEF WriteReversal
<1>c. to \in {"reversed", "succeeded"} /\ (to = "reversed" => total >= Amount[p])
  OBVIOUS
<1> HIDE DEF p, total, to
<1>1. SentOnce' /\ SendersAreAlone'
  BY <1>0, <1>b, <1>c, <1>t, StatusWritten
<1>2. /\ unwind' \in [Refunds -> [at : {"idle", "cancelling", "reversing", "writing"},
                                  already : Nat, want : Nat]]
      /\ \A s \in Refunds : unwind'[s].at # "idle" => unwind'[s] = unwind[s]
  BY <1>b, RestsIInv
<1>3. /\ status' \in [Obligations -> Statuses] /\ reversed' \in [Obligations -> Nat]
      /\ \A q \in Obligations : status'[q] = IF q = p THEN to ELSE status[q]
      /\ \A q \in Obligations : reversed'[q] = IF q = p THEN total ELSE reversed[q]
  BY <1>b, <1>c, <1>t DEF TypeOK
<1>4. TypeOK'
  BY <1>0, <1>2, <1>3 DEF TypeOK
<1>5. BooksAreTrue'
  BY <1>0, <1>3, <1>a, <1>c, <1>t DEF BooksAreTrue
<1>6. MessagesAreTrue'
  BY <1>0, <1>2 DEF MessagesAreTrue
<1> QED BY <1>1, <1>4, <1>5, <1>6

-----------------------------------------------------------------------------
(* The reconciliation, and what the provider does on its own.              *)
LEMMA ReconcileIInv ==
    ASSUME IInv, ReconcileLists \/ ReconcilerDies \/ \E p \in Obligations, id \in BOOLEAN : ReconcileAsks(p, id)
    PROVE  IInv'
<1> USE DEF IInv
<1>0. UNCHANGED <<crowded, row, ready, provider, sending, unwind>>
  BY DEF ReconcileLists, ReconcilerDies, ReconcileAsks
<1>1. SentOnce' /\ SendersAreAlone'
  BY <1>0, RequestsStay
<1>2. BooksAreTrue'
  BY <1>0 DEF BooksAreTrue
<1>3. listed' \subseteq Obligations \X BOOLEAN
  <2>1. CASE ReconcileLists
    <3>1. PICK T \in Limited("reconciliation", ToReconcile) : listed' = {<<p, p \in known>> : p \in T}
      BY <2>1 DEF ReconcileLists
    <3>2. T \subseteq Obligations
      BY LimitedFact DEF ToReconcile
    <3>3. ASSUME NEW p \in T PROVE <<p, p \in known>> \in Obligations \X BOOLEAN
      <4>1. p \in Obligations /\ (p \in known) \in BOOLEAN
        BY <3>2
      <4> QED BY <4>1, Zenon
    <3> QED BY <3>1, <3>3, Zenon
  <2>2. CASE ReconcilerDies
    BY <2>2 DEF ReconcilerDies
  <2>3. ASSUME NEW p \in Obligations, NEW id \in BOOLEAN, ReconcileAsks(p, id)
        PROVE  listed' \subseteq Obligations \X BOOLEAN
    BY <2>3 DEF ReconcileAsks, TypeOK
  <2> QED BY <2>1, <2>2, <2>3
<1>4. /\ seen' \in [po : Obligations \cup {None}, taken : Nat]
      /\ seen'.po # None => seen'.po \in moved /\ seen'.taken <= taken[seen'.po]
  <2>1. CASE ReconcileLists
    BY <2>1 DEF ReconcileLists, TypeOK, MessagesAreTrue
  <2>2. CASE ReconcilerDies
    BY <2>2 DEF ReconcilerDies
  <2>3. ASSUME NEW p \in Obligations, NEW id \in BOOLEAN, ReconcileAsks(p, id)
        PROVE  /\ seen' \in [po : Obligations \cup {None}, taken : Nat]
               /\ seen'.po # None => seen'.po \in moved /\ seen'.taken <= taken[seen'.po]
    <3>1. CASE p \in moved /\ seen' = [po |-> p, taken |-> taken[p]]
      BY <3>1 DEF TypeOK
    <3>2. CASE UNCHANGED seen
      BY <3>2 DEF TypeOK, MessagesAreTrue
    <3> QED BY <2>3, <3>1, <3>2 DEF ReconcileAsks
  <2> QED BY <2>1, <2>2, <2>3
<1>5. TypeOK'
  BY <1>0, <1>3, <1>4 DEF TypeOK
<1>6. MessagesAreTrue'
  BY <1>0, <1>4 DEF MessagesAreTrue
<1> QED BY <1>1, <1>2, <1>5, <1>6

LEMMA ReconcileWritesIInv ==
    ASSUME IInv, ReconcileWrites PROVE IInv'
<1> USE DEF IInv
<1> DEFINE p == seen.po
           to == IF seen.taken >= Amount[p] THEN "reversed" ELSE "succeeded"
<1>t. /\ p \in Obligations /\ Amount[p] \in Nat \ {0} /\ seen.taken \in Nat
      /\ taken \in [Obligations -> Nat] /\ p \in moved /\ seen.taken <= taken[p] /\ taken[p] <= Amount[p]
  BY DEF ReconcileWrites, TypeOK, MessagesAreTrue, BooksAreTrue
<1>0. UNCHANGED <<crowded, ready, moved, requests, taken, made, pulled, sending, unwind, listed>>
  BY DEF ReconcileWrites
<1>b. /\ status' = [status EXCEPT ![p] = to] /\ reversed' = [reversed EXCEPT ![p] = seen.taken]
      /\ known' = known \cup {p} /\ seen' = Unasked /\ buried' = buried \ {p}
  BY DEF ReconcileWrites
<1>c. to \in {"reversed", "succeeded"} /\ (to = "reversed" => seen.taken >= Amount[p])
  OBVIOUS
<1> HIDE DEF p, to
<1>1. SentOnce' /\ SendersAreAlone'
  BY <1>0, <1>b, <1>c, <1>t, StatusWritten
<1>3. /\ status' \in [Obligations -> Statuses] /\ reversed' \in [Obligations -> Nat]
      /\ \A q \in Obligations : status'[q] = IF q = p THEN to ELSE status[q]
      /\ \A q \in Obligations : reversed'[q] = IF q = p THEN seen.taken ELSE reversed[q]
  BY <1>b, <1>c, <1>t DEF TypeOK
<1>4. TypeOK'
  BY <1>0, <1>b, <1>3, <1>t DEF TypeOK
<1>5. BooksAreTrue'
  BY <1>0, <1>3, <1>c, <1>t DEF BooksAreTrue
<1>6. MessagesAreTrue'
  BY <1>0, <1>b DEF MessagesAreTrue
<1> QED BY <1>1, <1>4, <1>5, <1>6

LEMMA ProviderIInv ==
    ASSUME IInv, NEW p \in Obligations, TakeBack(p) \/ Bury(p) PROVE IInv'
<1> USE DEF IInv
<1>t. taken \in [Obligations -> Nat] /\ Amount[p] \in Nat \ {0}
  BY DEF TypeOK
<1>1. CASE TakeBack(p)
  <2>0. UNCHANGED <<crowded, row, ready, moved, requests, made, buried, pulled, sending, unwind, auditing>>
    BY <1>1 DEF TakeBack
  <2>1. SentOnce' /\ SendersAreAlone'
    BY <2>0, RequestsStay
  <2>g. taken[p] + 1 <= Amount[p] /\ taken' = [taken EXCEPT ![p] = @ + 1]
    BY <1>1, <1>t DEF TakeBack
  <2>2. BooksAreTrue' /\ taken' \in [Obligations -> Nat] /\ \A q \in Obligations : taken[q] <= taken'[q]
    BY <2>0, <2>g, TakenGrows
  <2>3. TypeOK'
    BY <2>0, <2>2 DEF TypeOK
  <2>4. \A m \in made : m.key <= taken'[m.po]
    <3>1. \A m \in made : m.key \in Nat /\ m.po \in Obligations
      BY DEF TypeOK
    <3> QED BY <1>t, <2>2, <3>1 DEF MessagesAreTrue
  <2>5. \A r \in Refunds : /\ taken[Of[r]] <= taken'[Of[r]] /\ unwind[r].already \in Nat /\ unwind[r].want \in Nat
                           /\ taken[Of[r]] \in Nat /\ taken'[Of[r]] \in Nat
    BY <2>2, RefundTypes
  <2>6. /\ \A r \in Refunds : unwind[r].at \in {"reversing", "writing"} => unwind[r].already <= taken'[Of[r]]
        /\ \A r \in Refunds : unwind[r].at = "writing" =>
              unwind[r].already + unwind[r].want <= taken'[Of[r]]
    BY <2>5 DEF MessagesAreTrue
  <2>7. seen.po # None => seen.po \in moved /\ seen.taken <= taken'[seen.po]
    <3>1. seen.taken \in Nat /\ (seen.po # None => seen.po \in Obligations)
      BY DEF TypeOK
    <3> QED BY <1>t, <2>2, <3>1 DEF MessagesAreTrue
  <2>8. MessagesAreTrue'
    BY <2>0, <2>4, <2>6, <2>7 DEF MessagesAreTrue
  <2> QED BY <2>1, <2>2, <2>3, <2>8
<1>2. CASE Bury(p)
  <2>1. SentOnce' /\ SendersAreAlone'
    BY <1>2, RequestsStay DEF Bury
  <2>2. BooksAreTrue' /\ MessagesAreTrue'
    BY <1>2, BooksStay DEF Bury
  <2>3. TypeOK'
    BY <1>2 DEF Bury, TypeOK
  <2> QED BY <2>1, <2>2, <2>3
<1> QED BY <1>1, <1>2

LEMMA NextIInv == IInv /\ [Next]_vars => IInv'
<1> SUFFICES ASSUME IInv, [Next]_vars PROVE IInv'
  OBVIOUS
<1>1. CASE \E p \in Obligations : AccountChanges(p) \/ SweepTakes(p) \/ TakeBack(p) \/ Bury(p)
  BY <1>1, AccountIInv, SweepIInv, ProviderIInv
<1>2. CASE \E w \in Handlers, p \in Obligations : HandlerStarts(w, p)
  BY <1>2, HandlerStartsIInv
<1>3. CASE SweepLists
  BY <1>3, SweepIInv
<1>9. CASE \E query \in Queries : OthersChange(query)
  BY <1>9, OthersIInv
<1>4. CASE \E w \in Workers : Check(w) \/ Claim(w) \/ Transfer(w) \/ Answered(w) \/ WorkerDies(w)
  BY <1>4, CheckIInv, ClaimIInv, TransferIInv, AnsweredIInv, WorkerDiesIInv
<1>5. CASE \E r \in Refunds :
             UnwindStarts(r) \/ Cancel(r) \/ Reverse(r) \/ WriteReversal(r) \/ UnwindEnds(r)
  BY <1>5, UnwindStartsIInv, CancelIInv, ReverseIInv, WriteReversalIInv, UnwindEndsIInv
<1>6. CASE ReconcileLists \/ ReconcilerDies \/ \E p \in Obligations, id \in BOOLEAN : ReconcileAsks(p, id)
  BY <1>6, ReconcileIInv
<1>7. CASE ReconcileWrites
  BY <1>7, ReconcileWritesIInv
<1>8. CASE UNCHANGED vars
  <2>1. SentOnce' /\ SendersAreAlone'
    BY <1>8, RequestsStay DEF IInv, vars
  <2>2. BooksAreTrue' /\ MessagesAreTrue'
    BY <1>8, BooksStay DEF IInv, vars
  <2>3. TypeOK'
    BY <1>8 DEF IInv, vars, TypeOK
  <2> QED BY <2>1, <2>2, <2>3 DEF IInv
<1> QED BY <1>1, <1>2, <1>3, <1>4, <1>5, <1>6, <1>7, <1>8, <1>9 DEF Next

(* The invariant the three theorems rest on holds in every reachable       *)
(* state.                                                                  *)
THEOREM Inductive == Spec => []IInv
  BY InitIInv, NextIInv, PTL DEF Spec

(* The types of rows, requests, workers and messages                       *)
(* (supplier_payments and the calls of supplier-settlement-run.ts).        *)
THEOREM SupplierTypes == Spec => []TypeOK
<1>1. IInv => TypeOK
  BY DEF IInv
<1> QED BY <1>1, Inductive, PTL

(* A transfer is asked for once: the claim of settleSupplierPayment.       *)
THEOREM TransfersAreSentOnce == Spec => []SentOnce
<1>1. IInv => SentOnce
  BY DEF IInv
<1> QED BY <1>1, Inductive, PTL

(* The row never claims more than the provider did, whoever writes it last *)
(* (settleSupplierPayment, unwindSupplierPayment,                          *)
(* reconcileSupplierPayments).                                             *)
THEOREM SupplierBooksAreTrue == Spec => []BooksAreTrue
<1>1. IInv => BooksAreTrue
  BY DEF IInv
<1> QED BY <1>1, Inductive, PTL
=============================================================================

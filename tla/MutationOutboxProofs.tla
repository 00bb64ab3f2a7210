------------------------ MODULE MutationOutboxProofs ------------------------
(***************************************************************************)
(* The two halves of the transactional outbox: the mutation unit of work   *)
(* that writes an event with the change it announces, for every number of  *)
(* calls, keys, fingerprints and lock numbers; and the drain that delivers *)
(* it, for any number of events, drains and handlers, any lease and any    *)
(* backoff.                                                                *)
(***************************************************************************)
EXTENDS MutationLedger, Outbox, FiniteSetTheorems, TLAPS

-----------------------------------------------------------------------------
(* The unit of work.                                                       *)

(* The inductive invariant holds initially: nothing is committed, nobody   *)
(* holds a lock and nobody has answered.                                   *)
LEMMA InitIInv == Init => IInv
  BY NoCallAssumption, LockOfAssumption
  DEF Init, IInv, TypeOK, LockHeld, KeyStillFree, BufferFilled, RowsOwned,
      NoAnswerYet, AllOrNothing, AnswersAreTrue, Requests, PCs, InTransaction,
      Ended, Replies, NoReply, Empty,
        Successes, Refusals, KeyRow, KeyLock, Writes, Parts

(* Every step of execute(), every rollback and crash, and every pruning    *)
(* keeps the types.                                                        *)
LEMMA TypeStep == TypeOK /\ [Next]_vars => TypeOK'
<1> SUFFICES ASSUME TypeOK, [Next]_vars PROVE TypeOK'
  OBVIOUS
<1> USE NoCallAssumption, LockOfAssumption
    DEF LockOfAssumption, NoCallAssumption, TypeOK, Requests, Rows, PCs, InTransaction, Ended, Replies, NoReply, Empty,
        Successes, Refusals,
        KeyRow, KeyLock, Writes, Parts, EndTransaction, Answer, IfWritten
<1>1. ASSUME NEW c \in Calls, Start(c) \/ StartTooLate(c) \/ Announce(c) PROVE TypeOK'
  <2>1. CASE Start(c)
    BY <2>1 DEF Start
  <2>2. CASE StartTooLate(c)
    BY <2>2 DEF StartTooLate
  <2>3. CASE Announce(c)
    BY <2>3 DEF Announce
  <2> QED BY <1>1, <2>1, <2>2, <2>3
<1>2. ASSUME NEW c \in Calls, TakeLock(c) \/ LockIsTaken(c) PROVE TypeOK'
  <2>1. CASE TakeLock(c)
    BY <2>1 DEF TakeLock
  <2>2. CASE LockIsTaken(c)
    BY <2>2 DEF LockIsTaken
  <2> QED BY <1>2, <2>1, <2>2
<1>3. ASSUME NEW c \in Calls, FindConflict(c) PROVE TypeOK'
  BY <1>3 DEF FindConflict
<1>4. ASSUME NEW c \in Calls, FindCompleted(c) PROVE TypeOK'
  <2>1. KeyRow(c) \in Rows
    BY <1>4 DEF FindCompleted
  <2>2. [kind |-> "replayed", body |-> KeyRow(c).body] \in Replies
    BY <2>1
  <2> QED BY <1>4, <2>2 DEF FindCompleted
<1>5. ASSUME NEW c \in Calls, FindNothing(c) \/ ClaimKey(c) PROVE TypeOK'
  BY <1>5 DEF FindNothing, ClaimKey
<1>6. ASSUME NEW c \in Calls, NEW part \in Parts, Write(c, part) PROVE TypeOK'
  BY <1>6 DEF Write
<1>7. ASSUME NEW c \in Calls, Complete(c) PROVE TypeOK'
  BY <1>7 DEF Complete
<1>8. ASSUME NEW c \in Calls, Commit(c) PROVE TypeOK'
  <2>1. [print |-> req[c].print, by |-> c, body |-> c] \in Rows
    OBVIOUS
  <2>2. req[c].key \in Keys
    OBVIOUS
  <2> QED BY <1>8, <2>1, <2>2 DEF Commit
<1>9. ASSUME NEW c \in Calls, RollBack(c) PROVE TypeOK'
  BY <1>9 DEF RollBack
<1>10. ASSUME NEW c \in Calls, Crash(c) PROVE TypeOK'
  BY <1>10 DEF Crash
<1>11. ASSUME NEW k \in Keys, Prune(k) PROVE TypeOK'
  <2>1. row[k] \in Rows
    BY <1>11 DEF Prune
  <2>2. [row[k] EXCEPT !.body = Pruned] \in Rows
    BY <2>1
  <2> QED BY <1>11, <2>2 DEF Prune
<1>12. CASE UNCHANGED vars
  BY <1>12 DEF vars
<1> HIDE DEF TypeOK
<1> QED
  BY <1>1, <1>2, <1>3, <1>4, <1>5, <1>6, <1>7, <1>8, <1>9, <1>10, <1>11, <1>12
     DEF Next, Execute

(* What the invariant says of one call.                                    *)
CallInv(c) ==
    /\ pc[c] \in InTransaction => lock[KeyLock(c)] = c
    /\ pc[c] \in {"insert", "work", "commit"} => KeyRow(c) = NoRow
    /\ pc[c] = "commit" => Parts \subseteq buffer[c]
    /\ pc[c] \in {"new", "lock", "dead"} \cup InTransaction => reply[c].kind = "none"
    /\ pc[c] \in {"new", "lock"} \cup InTransaction => c \notin domain
    /\ pc[c] = "announce" => reply[c].kind \in Successes
    /\ pc[c] = "done" => reply[c].kind # "none"
    /\ reply[c].kind \in Successes =>
          /\ KeyRow(c) # NoRow
          /\ KeyRow(c).print = req[c].print
          /\ KeyRow(c).by \in domain
    /\ reply[c].kind = "conflict" =>
          KeyRow(c) # NoRow /\ KeyRow(c).print # req[c].print
    /\ reply[c].kind \in Refusals => c \notin domain

LEMMA CallByCall ==
    IInv <=> TypeOK /\ RowsOwned /\ AllOrNothing /\ \A c \in Calls : CallInv(c)
  BY DEF IInv, CallInv, LockHeld, KeyStillFree, BufferFilled, NoAnswerYet, AnswersAreTrue

LEMMA CallByCallNext ==
    ASSUME TypeOK', RowsOwned', AllOrNothing', \A c \in Calls : CallInv(c)'
    PROVE  IInv'
  BY DEF IInv, CallInv, LockHeld, KeyStillFree, BufferFilled, NoAnswerYet, AnswersAreTrue

(* A call is not disturbed by steps that leave it, its lock and the        *)
(* committed rows alone.                                                   *)
LEMMA OthersKeep ==
    ASSUME NEW d \in Calls, CallInv(d),
           pc'[d] = pc[d], buffer'[d] = buffer[d], reply'[d] = reply[d],
           lock[KeyLock(d)] = d => lock'[KeyLock(d)] = d,
           UNCHANGED <<req, row, domain>>
    PROVE  CallInv(d)'
  BY DEF CallInv, KeyLock, KeyRow

(* Nor by a step that changes only the stored bodies: the invariant speaks *)
(* of a row's owner and fingerprint.                                       *)
LEMMA BodyIsNotRead ==
    ASSUME NEW c \in Calls, CallInv(c),
           pc'[c] = pc[c] /\ req'[c] = req[c] /\ buffer'[c] = buffer[c]
             /\ reply'[c] = reply[c] /\ lock' = lock /\ domain' = domain,
           /\ KeyLock(c)' = KeyLock(c)
           /\ (KeyRow(c)' = NoRow) <=> (KeyRow(c) = NoRow)
           /\ KeyRow(c) # NoRow => /\ KeyRow(c)'.by = KeyRow(c).by
                                   /\ KeyRow(c)'.print = KeyRow(c).print
    PROVE  CallInv(c)'
<1>1. /\ pc'[c] \in InTransaction => lock'[KeyLock(c)'] = c
      /\ pc'[c] \in {"insert", "work", "commit"} => KeyRow(c)' = NoRow
      /\ pc'[c] = "commit" => Parts' \subseteq buffer'[c]
  BY DEF CallInv, Parts
<1>2. /\ pc'[c] \in {"new", "lock", "dead"} \cup InTransaction => reply'[c].kind = "none"
      /\ pc'[c] \in {"new", "lock"} \cup InTransaction => c \notin domain'
      /\ pc'[c] = "announce" => reply'[c].kind \in Successes
      /\ pc'[c] = "done" => reply'[c].kind # "none"
      /\ reply'[c].kind \in Refusals => c \notin domain'
  BY DEF CallInv
<1>3. reply'[c].kind \in Successes =>
          /\ KeyRow(c)' # NoRow
          /\ KeyRow(c)'.print = req'[c].print
          /\ KeyRow(c)'.by \in domain'
  BY DEF CallInv
<1>4. reply'[c].kind = "conflict" =>
          KeyRow(c)' # NoRow /\ KeyRow(c)'.print # req'[c].print
  BY DEF CallInv
<1> QED BY <1>1, <1>2, <1>3, <1>4 DEF CallInv, Parts, InTransaction, Successes, Refusals

(* So a step of one call that commits nothing keeps the invariant if it    *)
(* keeps what the invariant says of that call.                             *)
LEMMA OwnStep ==
    ASSUME IInv, NEW c \in Calls, TypeOK', CallInv(c)',
           UNCHANGED <<req, row, domain, audit, outbox>>,
           \A d \in Calls \ {c} :
               pc'[d] = pc[d] /\ buffer'[d] = buffer[d] /\ reply'[d] = reply[d],
           \A d \in Calls \ {c} : lock[KeyLock(d)] = d => lock'[KeyLock(d)] = d
    PROVE  IInv'
<1>1. RowsOwned' /\ AllOrNothing'
  BY CallByCall DEF RowsOwned, AllOrNothing, KeyRow
<1>2. \A d \in Calls \ {c} : CallInv(d)'
  BY CallByCall, OthersKeep
<1> QED BY <1>1, <1>2, CallByCallNext

(* Ending a transaction takes no lock from another call.                   *)
LEMMA EndsOwnTransaction ==
    ASSUME IInv, NEW c \in Calls, pc[c] \in InTransaction, EndTransaction(c)
    PROVE  /\ \A d \in Calls \ {c} : lock[KeyLock(d)] = d => lock'[KeyLock(d)] = d
           /\ \A d \in Calls \ {c} : buffer'[d] = buffer[d]
<1>1. lock[KeyLock(c)] = c
  BY DEF IInv, LockHeld
<1> QED BY <1>1 DEF EndTransaction, IInv, TypeOK

(* What a step can touch: only the caller's own program counter, buffer    *)
(* and answer, its own key's lock, and, when it commits, its key's row.    *)
LEMMA StepIInv == IInv /\ [Next]_vars => IInv'
<1> SUFFICES ASSUME IInv, [Next]_vars PROVE IInv'
  OBVIOUS
<1>t. TypeOK /\ TypeOK'
  BY TypeStep DEF IInv
<1>f. /\ pc \in [Calls -> PCs]
      /\ buffer \in [Calls -> SUBSET Writes]
      /\ reply \in [Calls -> Replies]
      /\ lock \in [Locks -> Calls \cup {NoCall}]
      /\ req \in [Calls -> Requests]
  BY <1>t DEF TypeOK
<1>i. RowsOwned /\ AllOrNothing /\ \A c \in Calls : CallInv(c)
  BY CallByCall
<1>c. \A c \in Calls : NoCall # c /\ KeyLock(c) \in Locks
  BY <1>f, NoCallAssumption, LockOfAssumption
     DEF NoCallAssumption, LockOfAssumption, KeyLock, Requests
<1>1. ASSUME NEW c \in Calls, Start(c) \/ StartTooLate(c) \/ Announce(c) PROVE IInv'
  <2>1. /\ UNCHANGED <<req, lock, row, buffer, domain, audit, outbox>>
        /\ \A d \in Calls \ {c} : pc'[d] = pc[d] /\ reply'[d] = reply[d]
    BY <1>1, <1>f DEF Start, StartTooLate, Announce, Answer
  <2>2. CallInv(c)'
    <3>1. CASE Start(c)
      BY <1>f, <1>i, <2>1, <3>1 DEF Start, CallInv, KeyRow, KeyLock, InTransaction
    <3>2. CASE StartTooLate(c)
      BY <1>f, <1>i, <2>1, <3>2
         DEF StartTooLate, Answer, Empty, CallInv, KeyRow, KeyLock, InTransaction,
             Successes, Refusals
    <3>3. CASE Announce(c)
      BY <1>f, <1>i, <2>1, <3>3
         DEF Announce, CallInv, KeyRow, KeyLock, InTransaction, Successes
    <3> QED BY <1>1, <3>1, <3>2, <3>3
  <2> QED BY <1>t, <2>1, <2>2, OwnStep
<1>2. ASSUME NEW c \in Calls, TakeLock(c) \/ LockIsTaken(c) PROVE IInv'
  <2>1. /\ UNCHANGED <<req, row, buffer, domain, audit, outbox>>
        /\ \A d \in Calls \ {c} : pc'[d] = pc[d] /\ reply'[d] = reply[d]
    BY <1>2, <1>f DEF TakeLock, LockIsTaken, Answer
  <2>2. \A d \in Calls \ {c} : lock[KeyLock(d)] = d => lock'[KeyLock(d)] = d
    BY <1>2, <1>f, <1>c DEF TakeLock, LockIsTaken
  <2>3. CallInv(c)'
    <3>1. CASE TakeLock(c)
      <4>1. lock'[KeyLock(c)] = c /\ pc'[c] = "read" /\ pc[c] = "lock" /\ reply' = reply
        BY <1>f, <1>c, <3>1 DEF TakeLock
      <4> QED BY <1>i, <2>1, <4>1 DEF CallInv, KeyRow, KeyLock, InTransaction
    <3>2. CASE LockIsTaken(c)
      BY <1>f, <1>i, <2>1, <3>2
         DEF LockIsTaken, Answer, Empty, CallInv, KeyRow, KeyLock, InTransaction,
             Successes, Refusals
    <3> QED BY <1>2, <3>1, <3>2
  <2> QED BY <1>t, <2>1, <2>2, <2>3, OwnStep
<1>3. ASSUME NEW c \in Calls, FindConflict(c) \/ FindCompleted(c) PROVE IInv'
  <2>1. /\ pc[c] = "read" /\ KeyRow(c) # NoRow /\ EndTransaction(c)
        /\ UNCHANGED <<req, row, domain, audit, outbox>>
    BY <1>3 DEF FindConflict, FindCompleted
  <2>2. /\ \A d \in Calls \ {c} : lock[KeyLock(d)] = d => lock'[KeyLock(d)] = d
        /\ \A d \in Calls \ {c} : buffer'[d] = buffer[d]
    BY <2>1, EndsOwnTransaction DEF InTransaction
  <2>3. \A d \in Calls \ {c} : pc'[d] = pc[d] /\ reply'[d] = reply[d]
    BY <1>3, <1>f DEF FindConflict, FindCompleted, Answer
  <2>4. CallInv(c)'
    <3>1. CASE FindConflict(c)
      BY <1>f, <1>i, <2>1, <3>1
         DEF FindConflict, Answer, Empty, CallInv, KeyRow, InTransaction, Successes, Refusals
    <3>2. CASE FindCompleted(c)
      <4>1. KeyRow(c) \in Rows /\ req[c].key \in Keys
        BY <1>t, <1>f, <2>1 DEF TypeOK, KeyRow, Requests
      <4>2. KeyRow(c).by \in Calls /\ req[KeyRow(c).by].key = req[c].key
        BY <1>i, <2>1, <4>1 DEF Rows, RowsOwned, KeyRow
      <4>3. KeyRow(c).by \in domain
        BY <1>i, <2>1, <4>2 DEF AllOrNothing, KeyRow
      <4>4. /\ pc'[c] = "announce" /\ reply'[c].kind = "replayed"
            /\ KeyRow(c).print = req[c].print
        BY <1>f, <3>2 DEF FindCompleted
      <4>5. KeyRow(c)' = KeyRow(c) /\ req' = req /\ domain' = domain
        BY <2>1 DEF KeyRow
      <4> QED BY <2>1, <4>3, <4>4, <4>5 DEF CallInv, InTransaction, Successes, Refusals
    <3> QED BY <1>3, <3>1, <3>2
  <2> QED BY <1>t, <2>1, <2>2, <2>3, <2>4, OwnStep
<1>5. ASSUME NEW c \in Calls, FindNothing(c) \/ ClaimKey(c) PROVE IInv'
  <2>1. /\ UNCHANGED <<req, lock, row, domain, audit, outbox, reply>>
        /\ \A d \in Calls \ {c} : pc'[d] = pc[d] /\ buffer'[d] = buffer[d]
    BY <1>5, <1>f DEF FindNothing, ClaimKey
  <2>2. CallInv(c)'
    BY <1>5, <1>f, <1>i, <2>1
       DEF FindNothing, ClaimKey, KeyIsFree, CallInv, KeyRow, KeyLock, InTransaction
  <2> QED BY <1>t, <2>1, <2>2, OwnStep
<1>6. ASSUME NEW c \in Calls, NEW part \in Parts, Write(c, part) PROVE IInv'
  <2>1. /\ UNCHANGED <<pc, req, lock, row, domain, audit, outbox, reply>>
        /\ \A d \in Calls \ {c} : buffer'[d] = buffer[d]
        /\ pc[c] = "work"
    BY <1>6, <1>f DEF Write
  <2>2. CallInv(c)'
    BY <1>i, <2>1 DEF CallInv, KeyRow, KeyLock
  <2> QED BY <1>t, <2>1, <2>2, OwnStep
<1>7. ASSUME NEW c \in Calls, Complete(c) PROVE IInv'
  <2>1. /\ UNCHANGED <<req, lock, row, domain, audit, outbox, reply>>
        /\ \A d \in Calls \ {c} : pc'[d] = pc[d] /\ buffer'[d] = buffer[d]
        /\ pc[c] = "work" /\ pc'[c] = "commit" /\ Parts \subseteq buffer'[c]
    BY <1>7, <1>f DEF Complete
  <2>2. CallInv(c)'
    BY <1>i, <2>1 DEF CallInv, KeyRow, KeyLock, InTransaction
  <2> QED BY <1>t, <2>1, <2>2, OwnStep
<1>8. ASSUME NEW c \in Calls, Commit(c) PROVE IInv'
  <2> DEFINE mine == [print |-> req[c].print, by |-> c, body |-> c]
  <2>1. /\ pc[c] = "commit" /\ req[c].key \in Keys
        /\ KeyRow(c) = NoRow /\ c \notin domain /\ lock[KeyLock(c)] = c
        /\ Parts \subseteq buffer[c]
    BY <1>8, <1>f, <1>i DEF Commit, CallInv, Requests, InTransaction
  <2>2. mine \in Rows /\ mine # NoRow
    <3>1. req[c].print \in Prints
      BY <1>f DEF Requests
    <3>2. mine \in Rows
      BY <3>1 DEF Rows
    <3> QED BY <3>2, NoRowAssumption DEF NoRowAssumption
  <2>3. /\ row' = [row EXCEPT ![req[c].key] = mine]
        /\ pc' = [pc EXCEPT ![c] = "announce"]
        /\ reply' = [reply EXCEPT ![c] = [kind |-> "executed", body |-> c]]
        /\ EndTransaction(c) /\ req' = req
    BY <1>8 DEF Commit
  <2>4. domain' = domain \cup {c} /\ audit' = domain' /\ outbox' = domain'
    BY <1>8, <1>i, <2>1 DEF Commit, IfWritten, Parts, AllOrNothing
  <2>5. \A d \in Calls : KeyRow(d)' = IF req[d].key = req[c].key THEN mine ELSE KeyRow(d)
    BY <1>t, <1>f, <2>3 DEF KeyRow, TypeOK, Requests
  <2>6. RowsOwned'
    <3> SUFFICES ASSUME NEW k \in Keys, row'[k] # NoRow
                 PROVE  req[row'[k].by].key = k /\ req[row'[k].by].print = row'[k].print
      BY <2>3 DEF RowsOwned
    <3>1. CASE k = req[c].key
      BY <1>t, <2>1, <2>3, <3>1 DEF TypeOK
    <3>2. CASE k # req[c].key
      BY <1>t, <1>i, <2>3, <3>2 DEF TypeOK, RowsOwned
    <3> QED BY <3>1, <3>2
  <2>7. AllOrNothing'
    <3>1. ASSUME NEW d \in Calls
          PROVE  d \in domain' <=> KeyRow(d)' # NoRow /\ KeyRow(d)'.by = d
      <4>1. d \in domain <=> KeyRow(d) # NoRow /\ KeyRow(d).by = d
        BY <1>i DEF AllOrNothing
      <4>2. CASE req[d].key = req[c].key
        <5>1. KeyRow(d) = NoRow
          BY <2>1, <4>2 DEF KeyRow
        <5> QED BY <2>2, <2>4, <2>5, <4>1, <4>2, <5>1
      <4>3. CASE req[d].key # req[c].key
        BY <2>4, <2>5, <4>1, <4>3
      <4> QED BY <4>2, <4>3
    <3>2. domain' \subseteq Calls
      BY <1>t DEF TypeOK
    <3> QED BY <2>4, <3>1, <3>2 DEF AllOrNothing
  <2>8. ASSUME NEW d \in Calls \ {c} PROVE CallInv(d)'
    <3>1. /\ pc'[d] = pc[d] /\ reply'[d] = reply[d] /\ buffer'[d] = buffer[d]
          /\ lock[KeyLock(d)] = d => lock'[KeyLock(d)] = d
          /\ KeyLock(d)' = KeyLock(d) /\ req' = req
          /\ d \in domain' <=> d \in domain
      BY <1>f, <2>1, <2>3, <2>4, EndsOwnTransaction DEF InTransaction, KeyLock
    <3>2. CallInv(d)
      BY <1>i
    <3>3. CASE req[d].key # req[c].key
      <4>1. KeyRow(d)' = KeyRow(d) /\ domain \subseteq domain'
        BY <2>4, <2>5, <3>3
      <4> QED BY <3>1, <3>2, <4>1 DEF CallInv
    <3>4. CASE req[d].key = req[c].key
      <4>1. KeyRow(d) = NoRow /\ pc[d] \notin InTransaction
        BY <1>c, <2>1, <3>2, <3>4 DEF CallInv, KeyRow, KeyLock
      <4>2. reply[d].kind \notin Successes \cup {"conflict"}
        BY <3>2, <4>1 DEF CallInv
      <4> QED BY <3>1, <3>2, <4>1, <4>2 DEF CallInv, InTransaction
    <3> QED BY <3>3, <3>4
  <2>9. CallInv(c)'
    <3>1. /\ pc'[c] = "announce" /\ reply'[c].kind = "executed"
          /\ KeyRow(c)' = mine /\ c \in domain'
      BY <1>f, <2>3, <2>4, <2>5
    <3> QED BY <2>2, <2>3, <3>1 DEF CallInv, InTransaction, Successes, Refusals
  <2> QED BY <1>t, <2>6, <2>7, <2>8, <2>9, CallByCallNext
<1>9. ASSUME NEW c \in Calls, RollBack(c) PROVE IInv'
  <2>1. /\ pc[c] \in InTransaction /\ EndTransaction(c) /\ Answer(c, Empty("error"))
        /\ UNCHANGED <<req, row, domain, audit, outbox>>
    BY <1>9 DEF RollBack
  <2>2. /\ \A d \in Calls \ {c} : lock[KeyLock(d)] = d => lock'[KeyLock(d)] = d
        /\ \A d \in Calls \ {c} : buffer'[d] = buffer[d]
    BY <2>1, EndsOwnTransaction
  <2>3. \A d \in Calls \ {c} : pc'[d] = pc[d] /\ reply'[d] = reply[d]
    BY <2>1, <1>f DEF Answer
  <2>4. pc'[c] = "done" /\ reply'[c].kind = "error"
    BY <2>1, <1>f DEF Answer, Empty
  <2>5. CallInv(c)'
    BY <1>i, <2>1, <2>4 DEF CallInv, InTransaction, Successes, Refusals
  <2> QED BY <1>t, <2>1, <2>2, <2>3, <2>5, OwnStep
<1>10. ASSUME NEW c \in Calls, Crash(c) PROVE IInv'
  <2>1. UNCHANGED <<req, row, domain, audit, outbox>>
    BY <1>10 DEF Crash
  <2>2. /\ \A d \in Calls \ {c} : lock[KeyLock(d)] = d => lock'[KeyLock(d)] = d
        /\ \A d \in Calls \ {c} : buffer'[d] = buffer[d]
    <3>1. CASE pc[c] \in InTransaction
      BY <1>10, <3>1, EndsOwnTransaction DEF Crash
    <3>2. CASE pc[c] \notin InTransaction
      BY <1>10, <3>2 DEF Crash
    <3> QED BY <3>1, <3>2
  <2>3. \A d \in Calls \ {c} : pc'[d] = pc[d] /\ reply'[d] = reply[d]
    BY <1>10, <1>f DEF Crash
  <2>4. pc'[c] = "dead" /\ reply'[c].kind = "none"
    BY <1>10, <1>f DEF Crash, NoReply, Empty
  <2>5. CallInv(c)'
    BY <2>4 DEF CallInv, InTransaction, Successes, Refusals
  <2> QED BY <1>t, <2>1, <2>2, <2>3, <2>5, OwnStep
<1>11. ASSUME NEW k \in Keys, Prune(k) PROVE IInv'
  <2>u. /\ pc' = pc /\ req' = req /\ lock' = lock /\ buffer' = buffer
        /\ domain' = domain /\ audit' = audit /\ outbox' = outbox /\ reply' = reply
    BY <1>11 DEF Prune
  <2>1. /\ row[k] \in Rows
        /\ row' = [row EXCEPT ![k] = [row[k] EXCEPT !.body = Pruned]]
    BY <1>11, <1>t DEF Prune, TypeOK
  <2>2. [row[k] EXCEPT !.body = Pruned] \in Rows
    BY <2>1 DEF Rows
  <2>3. \A j \in Keys : /\ (row'[j] = NoRow) <=> (row[j] = NoRow)
                        /\ row[j] # NoRow => /\ row'[j].by = row[j].by
                                             /\ row'[j].print = row[j].print
    BY <1>t, <2>1, <2>2, NoRowAssumption DEF TypeOK, Rows, NoRowAssumption
  <2>4. \A c \in Calls : /\ KeyLock(c)' = KeyLock(c)
                         /\ (KeyRow(c)' = NoRow) <=> (KeyRow(c) = NoRow)
                         /\ KeyRow(c) # NoRow => /\ KeyRow(c)'.by = KeyRow(c).by
                                                 /\ KeyRow(c)'.print = KeyRow(c).print
    BY <1>f, <2>u, <2>3 DEF KeyRow, KeyLock, Requests
  <2>5. RowsOwned'
    BY <1>i, <2>u, <2>3 DEF RowsOwned
  <2>6. AllOrNothing'
    BY <1>i, <2>u, <2>4 DEF AllOrNothing
  <2>7. ASSUME NEW c \in Calls PROVE CallInv(c)'
    <3>1. CallInv(c)
      BY <1>i
    <3>2. /\ KeyLock(c)' = KeyLock(c)
          /\ (KeyRow(c)' = NoRow) <=> (KeyRow(c) = NoRow)
          /\ KeyRow(c) # NoRow => /\ KeyRow(c)'.by = KeyRow(c).by
                                  /\ KeyRow(c)'.print = KeyRow(c).print
      BY <2>4
    <3>3. /\ pc'[c] = pc[c] /\ req'[c] = req[c] /\ buffer'[c] = buffer[c]
          /\ reply'[c] = reply[c] /\ lock' = lock /\ domain' = domain
      BY <2>u, Zenon
    <3> QED BY <3>1, <3>2, <3>3, BodyIsNotRead
  <2> QED BY <1>t, <2>5, <2>6, <2>7, CallByCallNext
<1>12. CASE UNCHANGED vars
  BY <1>12 DEF vars, IInv, TypeOK, LockHeld, KeyStillFree, BufferFilled, RowsOwned,
               NoAnswerYet, AllOrNothing, AnswersAreTrue, KeyRow, KeyLock
<1> QED
  BY <1>1, <1>2, <1>3, <1>5, <1>6, <1>7, <1>8, <1>9, <1>10, <1>11, <1>12
     DEF Next, Execute

(* The invariant holds in every reachable state, for any number of calls,  *)
(* keys and fingerprints.                                                  *)
THEOREM LedgerInvariant == Spec => []IInv
  BY InitIInv, StepIInv, PTL DEF Spec

(* Types, as a consequence.                                                *)
THEOREM LedgerTypes == Spec => []TypeOK
<1>1. IInv => TypeOK
  BY DEF IInv
<1> QED BY <1>1, LedgerInvariant, PTL

(* One idempotency key takes effect at most once: two calls whose effects  *)
(* are committed under one key both own its ledger row, so they are one.   *)
THEOREM KeyTakesEffectOnce == Spec => []OneEffectPerKey
<1>1. IInv => OneEffectPerKey
  BY DEF IInv, AllOrNothing, OneEffectPerKey, KeyRow
<1> QED BY <1>1, LedgerInvariant, PTL

(* Domain change, audit row, outbox event and ledger row commit together.  *)
THEOREM CommitIsAtomic == Spec => []AllOrNothing
<1>1. IInv => AllOrNothing
  BY DEF IInv
<1> QED BY <1>1, LedgerInvariant, PTL

(* What a client is told is true of the committed state, also later.       *)
THEOREM ClientsAreToldTheTruth == Spec => []AnswersAreTrue
<1>1. IInv => AnswersAreTrue
  BY DEF IInv
<1> QED BY <1>1, LedgerInvariant, PTL

-----------------------------------------------------------------------------
(* A key's effect, as the refinement reads it off the committed domain     *)
(* changes, is the owner of the key's ledger row.                          *)
LEMMA EffectIsRowOwner ==
    IInv => \A k \in Keys : EffectOf(k) = IF row[k] = NoRow THEN NoCall ELSE row[k].by
<1> SUFFICES ASSUME IInv, NEW k \in Keys
             PROVE EffectOf(k) = IF row[k] = NoRow THEN NoCall ELSE row[k].by
  OBVIOUS
<1> USE DEF IInv, AllOrNothing, KeyRow, EffectOf
<1>1. CASE row[k] = NoRow
  BY <1>1
<1>2. CASE row[k] # NoRow
  <2>1. row[k].by \in Calls /\ req[row[k].by].key = k
    BY <1>2 DEF TypeOK, Rows, RowsOwned
  <2>2. row[k].by \in domain
    BY <1>2, <2>1
  <2>3. \A c \in domain : req[c].key = k => c = row[k].by
    BY <1>2
  <2> QED BY <1>2, <2>1, <2>2, <2>3
<1> QED BY <1>1, <1>2

(* Each step of the ledger is a step of OnceCommand or none: the commit    *)
(* is TakeEffect, the four ways of answering are Tell, a crash is Vanish.  *)
LEMMA StepRefines ==
    IInv /\ IInv' /\ [Next]_vars => [Once!Next]_(Once!vars)
<1> SUFFICES ASSUME IInv, IInv', [Next]_vars PROVE [Once!Next]_(Once!vars)
  OBVIOUS
<1> DEFINE eff == [k \in Keys |-> EffectOf(k)]
           tld == [c \in Calls |-> ToldTo(c)]
<1> USE NoCallAssumption DEF NoCallAssumption
<1>e. \A k \in Keys : eff[k] = IF row[k] = NoRow THEN NoCall ELSE row[k].by
  BY EffectIsRowOwner
<1>f. \A k \in Keys : eff'[k] = IF row'[k] = NoRow THEN NoCall ELSE row'[k].by
  <2>1. (\A k \in Keys : EffectOf(k) = IF row[k] = NoRow THEN NoCall ELSE row[k].by)'
    BY EffectIsRowOwner, PTL
  <2> QED BY <2>1
<1>g. \A c \in Calls : req[c] \in Requests /\ req[c].key \in Keys
  BY DEF IInv, TypeOK, Requests
<1>same. ASSUME row' = row PROVE eff' = eff
  BY <1>same, <1>e, <1>f
<1>own. ASSUME NEW c \in Calls, c \notin domain PROVE eff[req[c].key] # c
  BY <1>own, <1>e, <1>g DEF IInv, AllOrNothing, KeyRow
<1>tell. ASSUME NEW c \in Calls, NEW a, pc' = [pc EXCEPT ![c] = pc'[c]],
                reply' = [reply EXCEPT ![c] = reply'[c]], ToldTo(c)' = a
         PROVE tld' = [tld EXCEPT ![c] = a]
  <2>1. \A d \in Calls \ {c} : ToldTo(d)' = ToldTo(d)
    BY <1>tell DEF ToldTo, IInv, TypeOK
  <2> QED BY <2>1, <1>tell
<1>answer. ASSUME NEW c \in Calls, NEW a, pc[c] \notin Ended,
                  pc' = [pc EXCEPT ![c] = pc'[c]],
                  reply' = [reply EXCEPT ![c] = reply'[c]],
                  ToldTo(c)' = a, row' = row, req' = req
           PROVE Once!Tell(c, a)
  <2>1. tld[c] = "pending"
    BY <1>answer DEF ToldTo, Ended
  <2> QED BY <2>1, <1>answer, <1>same, <1>tell DEF Once!Tell
<1>quiet. ASSUME NEW c \in Calls, ToldTo(c)' = ToldTo(c),
                 pc' = [pc EXCEPT ![c] = pc'[c]],
                 reply' = [reply EXCEPT ![c] = reply'[c]], row' = row, req' = req
          PROVE UNCHANGED Once!vars
  <2>1. tld' = tld
    BY <1>quiet, <1>tell
  <2> QED BY <2>1, <1>quiet, <1>same DEF Once!vars
<1> USE DEF PCs, InTransaction, Ended, Successes, Refusals
<1>t. /\ pc \in [Calls -> PCs] /\ reply \in [Calls -> Replies]
      /\ req \in [Calls -> Requests] /\ row \in [Keys -> Rows \cup {NoRow}]
  BY DEF IInv, TypeOK
<1>1. ASSUME NEW c \in Calls,
             Start(c) \/ TakeLock(c) \/ FindNothing(c) \/ ClaimKey(c) \/ Complete(c)
             \/ (\E part \in Parts : Write(c, part))
      PROVE UNCHANGED Once!vars
  <2>1. /\ pc' = [pc EXCEPT ![c] = pc'[c]] /\ reply' = reply /\ row' = row /\ req' = req
        /\ pc[c] \notin Ended /\ pc'[c] \notin Ended
    BY <1>1, <1>t DEF Start, TakeLock, FindNothing, ClaimKey, Complete, Write
  <2>2. ToldTo(c)' = ToldTo(c)
    BY <2>1 DEF ToldTo
  <2> QED BY <2>1, <2>2, <1>quiet, <1>t
<1>2. ASSUME NEW c \in Calls, StartTooLate(c) \/ LockIsTaken(c) \/ RollBack(c)
      PROVE Once!Refuse(c)
  <2>1. /\ pc' = [pc EXCEPT ![c] = "done"] /\ row' = row /\ req' = req
        /\ reply' = [reply EXCEPT ![c] = reply'[c]]
        /\ reply'[c].kind \in {"timeout", "in_progress", "error"}
        /\ pc[c] \notin Ended
    BY <1>2, <1>t DEF StartTooLate, LockIsTaken, RollBack, Answer, Empty
  <2>2. c \notin domain
    BY <1>2 DEF StartTooLate, LockIsTaken, RollBack, IInv, NoAnswerYet
  <2>3. ToldTo(c)' = "refused"
    BY <2>1, <1>t DEF ToldTo
  <2>4. Once!Tell(c, "refused")
    BY <2>1, <2>3, <1>answer, <1>t
  <2> QED BY <2>2, <2>4, <1>own DEF Once!Refuse, Once!Effect
<1>3. ASSUME NEW c \in Calls, FindConflict(c) PROVE Once!Conflict(c)
  <2>1. /\ pc' = [pc EXCEPT ![c] = "done"] /\ row' = row /\ req' = req
        /\ reply' = [reply EXCEPT ![c] = reply'[c]]
        /\ reply'[c].kind = "conflict"
        /\ pc[c] \notin Ended
        /\ KeyRow(c) # NoRow /\ KeyRow(c).print # req[c].print
    BY <1>3, <1>t DEF FindConflict, Answer, Empty
  <2>2. ToldTo(c)' = "conflict"
    BY <2>1, <1>t DEF ToldTo
  <2>3. Once!Tell(c, "conflict")
    BY <2>1, <2>2, <1>answer, <1>t
  <2>4. eff[req[c].key] = KeyRow(c).by /\ KeyRow(c).by \in Calls
    BY <2>1, <1>e, <1>g, <1>t DEF KeyRow, Rows
  <2>5. req[KeyRow(c).by].print = KeyRow(c).print
    BY <2>1, <1>g DEF IInv, RowsOwned, KeyRow
  <2> QED BY <2>1, <2>3, <2>4, <2>5 DEF Once!Conflict, Once!Effect, Once!SameInput
<1>4. ASSUME NEW c \in Calls, FindCompleted(c) PROVE UNCHANGED Once!vars
  <2>1. /\ pc' = [pc EXCEPT ![c] = "announce"] /\ row' = row /\ req' = req
        /\ reply' = [reply EXCEPT ![c] = reply'[c]] /\ pc[c] = "read"
    BY <1>4, <1>t DEF FindCompleted
  <2>2. ToldTo(c)' = ToldTo(c)
    BY <2>1, <1>t DEF ToldTo
  <2> QED BY <2>1, <2>2, <1>quiet, <1>t
<1>5. ASSUME NEW c \in Calls, Commit(c) PROVE Once!TakeEffect(c)
  <2> DEFINE mine == [print |-> req[c].print, by |-> c, body |-> c]
  <2>1. /\ pc[c] = "commit" /\ KeyRow(c) = NoRow
        /\ row' = [row EXCEPT ![req[c].key] = mine]
        /\ pc' = [pc EXCEPT ![c] = "announce"] /\ req' = req
        /\ reply' = [reply EXCEPT ![c] = reply'[c]]
        /\ mine # NoRow
    BY <1>5, <1>t, NoRowAssumption
       DEF Commit, IInv, KeyStillFree, NoRowAssumption, Rows, Requests
  <2>2. eff[req[c].key] = NoCall
    BY <2>1, <1>e, <1>g DEF KeyRow
  <2>3. eff' = [eff EXCEPT ![req[c].key] = c]
    <3>1. eff'[req[c].key] = c
      <4>1. row'[req[c].key] = mine
        BY <2>1, <1>g, <1>t
      <4> QED BY <4>1, <2>1, <1>f, <1>g
    <3>2. \A k \in Keys \ {req[c].key} : eff'[k] = eff[k]
      <4>1. \A k \in Keys \ {req[c].key} : row'[k] = row[k]
        BY <2>1, <1>t
      <4> QED BY <4>1, <1>e, <1>f
    <3> QED BY <3>1, <3>2, <1>g
  <2>4. ToldTo(c)' = "pending" /\ ToldTo(c) = "pending"
    BY <2>1, <1>t DEF ToldTo
  <2>5. tld' = tld
    BY <2>1, <2>4, <1>tell, <1>t
  <2> QED BY <2>1, <2>2, <2>3, <2>4, <2>5 DEF Once!TakeEffect, Once!Effect
<1>6. ASSUME NEW c \in Calls, Announce(c) PROVE Once!Succeed(c)
  <2>1. /\ pc' = [pc EXCEPT ![c] = "done"] /\ row' = row /\ req' = req
        /\ reply' = reply /\ pc[c] = "announce" /\ reply[c].kind \in Successes
    BY <1>6, <1>t DEF Announce, IInv, NoAnswerYet
  <2>2. ToldTo(c)' = "success"
    BY <2>1, <1>t DEF ToldTo
  <2>3. Once!Tell(c, "success")
    BY <2>1, <2>2, <1>answer, <1>t
  <2>4. KeyRow(c) # NoRow /\ KeyRow(c).print = req[c].print
    BY <2>1 DEF IInv, AnswersAreTrue
  <2>5. eff[req[c].key] = KeyRow(c).by /\ KeyRow(c).by \in Calls
    BY <2>4, <1>e, <1>g, <1>t DEF KeyRow, Rows
  <2>6. req[KeyRow(c).by].print = KeyRow(c).print
    BY <2>4, <1>g DEF IInv, RowsOwned, KeyRow
  <2> QED BY <2>3, <2>4, <2>5, <2>6 DEF Once!Succeed, Once!Effect, Once!SameInput
<1>7. ASSUME NEW c \in Calls, Crash(c) PROVE Once!Vanish(c)
  <2>1. /\ pc' = [pc EXCEPT ![c] = "dead"] /\ row' = row /\ req' = req
        /\ reply' = [reply EXCEPT ![c] = reply'[c]]
        /\ pc[c] \notin Ended
    BY <1>7, <1>t DEF Crash
  <2>2. ToldTo(c)' = "nothing"
    BY <2>1, <1>t DEF ToldTo
  <2> QED BY <2>1, <2>2, <1>answer, <1>t DEF Once!Vanish
<1>8. ASSUME NEW k \in Keys, Prune(k) PROVE UNCHANGED Once!vars
  <2>1. /\ row[k] \in Rows
        /\ row' = [row EXCEPT ![k] = [row[k] EXCEPT !.body = Pruned]]
        /\ pc' = pc /\ reply' = reply /\ req' = req
    BY <1>8, <1>t DEF Prune
  <2>2. \A j \in Keys : /\ (row'[j] = NoRow) <=> (row[j] = NoRow)
                        /\ row[j] # NoRow => row'[j].by = row[j].by
    BY <2>1, <1>t, NoRowAssumption DEF Rows, NoRowAssumption
  <2>3. eff' = eff
    BY <2>2, <1>e, <1>f
  <2>4. tld' = tld
    BY <2>1 DEF ToldTo
  <2> QED BY <2>1, <2>3, <2>4 DEF Once!vars
<1>9. ASSUME UNCHANGED vars PROVE UNCHANGED Once!vars
  BY <1>9, <1>same DEF vars, Once!vars, ToldTo
<1> QED
  BY <1>1, <1>2, <1>3, <1>4, <1>5, <1>6, <1>7, <1>8, <1>9
     DEF Next, Execute, Once!Next

(* Initially no key has an effect and every client is waiting.             *)
LEMMA InitRefines == Init => Once!Init
  BY NoCallAssumption
  DEF Init, Once!Init, EffectOf, ToldTo, Requests

(* The ledger implements the contract of OnceCommand: whatever calls race, *)
(* fail, crash or are retried, clients see commands that take effect at    *)
(* most once per key and are told the truth about it.                      *)
THEOREM LedgerImplementsOnce == Spec => ImplementsOnce
<1>1. Init => Once!Init
  BY InitRefines
<1>2. IInv /\ IInv' /\ [Next]_vars => [Once!Next]_(Once!vars)
  BY StepRefines
<1> QED BY <1>1, <1>2, LedgerInvariant, PTL DEF Spec, ImplementsOnce, Once!Spec

(* A ledger row outlives retention: only a commit writes one, of a key that*)
(* had none, and pruning leaves its owner and its fingerprint alone.       *)
THEOREM LedgerEvidenceIsKept == Spec => EvidenceIsKept
<1>1. IInv /\ [Next]_vars =>
        [\A k \in Keys : row[k] # NoRow =>
            /\ row'[k] # NoRow
            /\ row'[k].by = row[k].by
            /\ row'[k].print = row[k].print]_vars
  <2> SUFFICES ASSUME IInv, Next, NEW k \in Keys, row[k] # NoRow
               PROVE  row'[k] # NoRow /\ row'[k].by = row[k].by /\ row'[k].print = row[k].print
    OBVIOUS
  <2>1. row \in [Keys -> Rows \cup {NoRow}]
    BY DEF IInv, TypeOK
  <2>2. ASSUME NEW c \in Calls, Commit(c) PROVE row'[k] = row[k]
    <3>1. row[req[c].key] = NoRow
      BY <2>2 DEF Commit, IInv, KeyStillFree, KeyRow
    <3>2. \E r : row' = [row EXCEPT ![req[c].key] = r]
      BY <2>2 DEF Commit
    <3> QED BY <2>1, <3>1, <3>2
  <2>3. ASSUME NEW j \in Keys, Prune(j)
        PROVE  row'[k] # NoRow /\ row'[k].by = row[k].by /\ row'[k].print = row[k].print
    <3>1. row' = [row EXCEPT ![j].body = Pruned]
      BY <2>3 DEF Prune
    <3>2. CASE j = k
      <4>1. row[k] \in Rows /\ row'[k] = [row[k] EXCEPT !.body = Pruned]
        BY <2>1, <3>1, <3>2
      <4>2. row'[k] \in Rows /\ row'[k].by = row[k].by /\ row'[k].print = row[k].print
        BY <4>1 DEF Rows
      <4> QED BY <4>2, NoRowAssumption
    <3>3. CASE j # k
      BY <2>1, <3>1, <3>3
    <3> QED BY <3>2, <3>3
  <2>4. ASSUME NEW c \in Calls, Execute(c) \/ RollBack(c) \/ Crash(c), ~Commit(c)
        PROVE  row' = row
    BY <2>4 DEF Execute, Start, StartTooLate, TakeLock, LockIsTaken, FindConflict, FindCompleted,
                FindNothing, ClaimKey, Write, Complete, Announce, RollBack, Crash
  <2> QED BY <2>2, <2>3, <2>4 DEF Next
<1> QED BY <1>1, LedgerInvariant, PTL DEF Spec, EvidenceIsKept

-----------------------------------------------------------------------------
(* The drain.                                                              *)

USE OccurredAssumption, AttemptsAssumption, LeaseAssumption, BackoffAssumption,
    CrashAssumption
    DEF OccurredAssumption, AttemptsAssumption, LeaseAssumption,
        BackoffAssumption, CrashAssumption, rows, drains, history, Phases

(* No event is stored and no drain runs.                                   *)
LEMMA InitOutboxIInv == OutboxInit => OutboxIInv
  BY DEF OutboxInit, OutboxIInv, OutboxTypeOK, HeldRows, AttemptsSpent, EachAttemptRunsOnce,
         PublishedWasHandled

(* A claim takes stored rows with attempts left and counts them up, and    *)
(* its tries are above every attempt that was run or is held.              *)
LEMMA ClaimStep ==
    ASSUME OutboxIInv, NEW d \in Drains, NEW B \in SUBSET Events, Claim(d, B)
    PROVE  OutboxIInv'
<1> USE DEF OutboxIInv
<1>1. /\ phase[d] = "idle" /\ todo[d] = {}
      /\ B \subseteq stored \ published
      /\ \A e \in B : attempts[e] < MaxAttempts
      /\ attempts' = [e \in Events |-> IF e \in B THEN attempts[e] + 1 ELSE attempts[e]]
      /\ hidden' = [e \in Events |-> IF e \in B THEN Lease ELSE hidden[e]]
      /\ phase' = [phase EXCEPT ![d] = "run"]
      /\ todo' = [todo EXCEPT ![d] = B]
      /\ tries' = [tries EXCEPT ![d] = attempts']
      /\ done' = [done EXCEPT ![d] = {}]
      /\ lease' = [lease EXCEPT ![d] = Lease]
      /\ UNCHANGED <<stored, published, failing, crashes, handled, ran>>
  BY DEF Claim, OldestBatch, Claimable, HeldRows
<1>2. attempts' \in [Events -> 0..MaxAttempts]
  BY <1>1 DEF OutboxTypeOK
<1>3. OutboxTypeOK'
  BY <1>1, <1>2 DEF OutboxTypeOK
<1>4. HeldRows'
  <2>1. ASSUME NEW c \in Drains, c # d
        PROVE  todo'[c] = todo[c] /\ done'[c] = done[c] /\ tries'[c] = tries[c]
               /\ phase'[c] = phase[c]
    BY <1>1, <2>1 DEF OutboxTypeOK
  <2>2. todo'[d] = B /\ done'[d] = {} /\ failing'[d] = {} /\ phase'[d] = "run"
    BY <1>1 DEF OutboxTypeOK, HeldRows
  <2> QED BY <1>1, <2>1, <2>2 DEF HeldRows
<1>5. AttemptsSpent'
  BY <1>1 DEF OutboxTypeOK, AttemptsSpent
<1>6. EachAttemptRunsOnce'
  <2> SUFFICES ASSUME NEW c \in Drains, NEW e \in todo'[c]
               PROVE  /\ tries'[c][e] \in 1..attempts'[e]
                      /\ tries'[c][e] \notin ran[e]
                      /\ \A x \in Drains \ {c} : e \in todo'[x] => tries'[x][e] # tries'[c][e]
    BY <1>1 DEF EachAttemptRunsOnce
  <2>1. \A x \in Drains \ {d} : todo'[x] = todo[x] /\ tries'[x] = tries[x]
    BY <1>1 DEF OutboxTypeOK
  <2>2. todo'[d] = B /\ tries'[d] = attempts'
    BY <1>1 DEF OutboxTypeOK
  <2>3. e \in Events /\ attempts[e] \in Nat /\ attempts'[e] >= attempts[e]
        /\ attempts'[e] \in Nat
    BY <1>1, <1>2, <2>1, <2>2 DEF OutboxTypeOK
  <2>4. ran[e] \subseteq 1..attempts[e]
    BY <2>3 DEF AttemptsSpent
  <2>5. \A x \in Drains : e \in todo[x] => tries[x][e] \in 1..attempts[e]
    BY DEF EachAttemptRunsOnce
  <2>6. e \in B => attempts'[e] = attempts[e] + 1
    BY <1>1, <2>3
  <2>7. CASE c = d
    BY <2>1, <2>2, <2>3, <2>4, <2>5, <2>6, <2>7
  <2>8. CASE c # d
    <3>1. e \in todo[c] /\ tries'[c][e] = tries[c][e]
      BY <2>1, <2>8
    <3>2. tries[c][e] \in 1..attempts[e] /\ tries[c][e] \notin ran[e]
      BY <3>1 DEF EachAttemptRunsOnce
    <3>3. \A x \in Drains \ {c, d} : e \in todo'[x] => tries'[x][e] # tries[c][e]
      BY <2>1, <3>1 DEF EachAttemptRunsOnce
    <3>4. e \in todo'[d] => tries'[d][e] # tries[c][e]
      BY <2>2, <2>3, <2>6, <3>2
    <3> QED BY <2>3, <3>1, <3>2, <3>3, <3>4
  <2> QED BY <2>7, <2>8
<1>7. PublishedWasHandled'
  BY <1>1 DEF OutboxTypeOK, PublishedWasHandled
<1> QED BY <1>3, <1>4, <1>5, <1>6, <1>7

(* Running the handlers uses up the drain's attempt on that event.         *)
LEMMA RunStep ==
    ASSUME OutboxIInv, NEW d \in Drains, NEW e \in Events, NEW ok \in SUBSET Handlers,
           RunHandlers(d, e, ok), UNCHANGED <<attempts, tries>>
    PROVE  /\ handled' \in [Events -> SUBSET Handlers]
           /\ ran' \in [Events -> SUBSET (0..MaxAttempts)]
           /\ todo' \in [Drains -> SUBSET Events]
           /\ \A x \in Drains : todo'[x] \subseteq todo[x]
           /\ \A f \in Events : handled[f] \subseteq handled'[f]
           /\ phase[d] = "run"
           /\ e \in stored
           /\ tries[d][e] \in 1..attempts[e]
           /\ AttemptsSpent'
           /\ EachAttemptRunsOnce'
<1> USE DEF OutboxIInv
<1>1. /\ phase[d] = "run" /\ e \in todo[d]
      /\ handled' = [handled EXCEPT ![e] = @ \cup ok]
      /\ ran' = [ran EXCEPT ![e] = @ \cup {tries[d][e]}]
      /\ todo' = [todo EXCEPT ![d] = @ \ {e}]
  BY DEF RunHandlers, IsNext
<1>2. tries[d][e] \in 1..attempts[e] /\ tries[d][e] \in 0..MaxAttempts /\ attempts[e] \in Nat
  BY <1>1 DEF EachAttemptRunsOnce, OutboxTypeOK
<1>3. /\ handled' \in [Events -> SUBSET Handlers]
      /\ ran' \in [Events -> SUBSET (0..MaxAttempts)]
      /\ todo' \in [Drains -> SUBSET Events]
  BY <1>1, <1>2 DEF OutboxTypeOK
<1>4. \A x \in Drains : todo'[x] = IF x = d THEN todo[d] \ {e} ELSE todo[x]
  BY <1>1 DEF OutboxTypeOK
<1>5. \A f \in Events : ran'[f] = IF f = e THEN ran[e] \cup {tries[d][e]} ELSE ran[f]
  BY <1>1 DEF OutboxTypeOK
<1>6. \A f \in Events : handled[f] \subseteq handled'[f]
  BY <1>1 DEF OutboxTypeOK
<1>7. AttemptsSpent'
  BY <1>2, <1>5 DEF AttemptsSpent
<1>8. EachAttemptRunsOnce'
  <2> SUFFICES ASSUME NEW c \in Drains, NEW f \in todo'[c]
               PROVE  /\ tries[c][f] \in 1..attempts[f]
                      /\ tries[c][f] \notin ran'[f]
                      /\ \A x \in Drains \ {c} : f \in todo'[x] => tries[x][f] # tries[c][f]
    BY DEF EachAttemptRunsOnce
  <2>1. f \in todo[c] /\ f \in Events
    BY <1>4 DEF OutboxTypeOK
  <2>2. /\ tries[c][f] \in 1..attempts[f]
        /\ tries[c][f] \notin ran[f]
        /\ \A x \in Drains \ {c} : f \in todo[x] => tries[x][f] # tries[c][f]
    BY <2>1 DEF EachAttemptRunsOnce
  <2>3. f = e => c # d /\ tries[c][f] # tries[d][e]
    BY <1>1, <1>4, <2>1, <2>2
  <2> QED BY <1>4, <1>5, <2>1, <2>2, <2>3
<1> QED BY <1>1, <1>2, <1>3, <1>4, <1>6, <1>7, <1>8 DEF HeldRows

(* Every step keeps the invariant.                                         *)
LEMMA StepOutboxIInv == OutboxIInv /\ [OutboxNext]_outboxVars => OutboxIInv'
<1> SUFFICES ASSUME OutboxIInv, [OutboxNext]_outboxVars PROVE OutboxIInv'
  OBVIOUS
<1> USE DEF OutboxIInv
<1>1. ASSUME NEW t \in Nat, Store(t) PROVE OutboxIInv'
  <2>1. stored \subseteq stored' /\ stored' \subseteq Events
    BY <1>1 DEF Store, OutboxTypeOK
  <2>2. UNCHANGED <<attempts, hidden, published, drains, crashes, history>>
    BY <1>1 DEF Store
  <2> QED BY <2>1, <2>2 DEF OutboxTypeOK, HeldRows, AttemptsSpent,
                            EachAttemptRunsOnce, PublishedWasHandled
<1>2. CASE Tick
  <2>1. \A n \in Nat : Less(n) \in Nat
    BY DEF Less
  <2>2. hidden' \in [Events -> Nat] /\ lease' \in [Drains -> Nat]
    BY <1>2, <2>1 DEF Tick, OutboxTypeOK
  <2> QED BY <1>2, <2>2 DEF Tick, OutboxTypeOK, HeldRows, AttemptsSpent,
                            EachAttemptRunsOnce, PublishedWasHandled
<1>3. ASSUME NEW d \in Drains, Claims(d) PROVE OutboxIInv'
  BY <1>3, ClaimStep DEF Claims
<1>4. ASSUME NEW d \in Drains, NEW e \in Events, Deliver(d, e) PROVE OutboxIInv'
  <2>1. /\ RunHandlers(d, e, Handlers)
        /\ done' = [done EXCEPT ![d] = @ \cup {e}]
        /\ UNCHANGED <<stored, attempts, hidden, published, phase, tries, failing, lease, crashes>>
    BY <1>4 DEF Deliver
  <2>2. /\ handled' \in [Events -> SUBSET Handlers]
        /\ ran' \in [Events -> SUBSET (0..MaxAttempts)]
        /\ todo' \in [Drains -> SUBSET Events]
        /\ \A x \in Drains : todo'[x] \subseteq todo[x]
        /\ \A f \in Events : handled[f] \subseteq handled'[f]
        /\ phase[d] = "run" /\ e \in stored
        /\ AttemptsSpent' /\ EachAttemptRunsOnce'
    BY <2>1, RunStep
  <2>3. handled'[e] = Handlers
    BY <2>1 DEF RunHandlers, OutboxTypeOK
  <2>4. \A x \in Drains : done'[x] = IF x = d THEN done[d] \cup {e} ELSE done[x]
    BY <2>1 DEF OutboxTypeOK
  <2>5. OutboxTypeOK'
    BY <2>1, <2>2 DEF OutboxTypeOK
  <2>6. HeldRows'
    <3> SUFFICES ASSUME NEW x \in Drains
                 PROVE  /\ todo'[x] \cup done'[x] \subseteq stored
                        /\ \A f \in failing[x] : tries[x][f] >= 1
                        /\ \A f \in done'[x] : handled'[f] = Handlers
                        /\ phase[x] = "idle" => todo'[x] = {}
                        /\ phase[x] # "reschedule" => failing[x] = {}
      BY <2>1 DEF HeldRows
    <3>1. ASSUME NEW f \in done[x] PROVE handled'[f] = Handlers
      <4>1. f \in Events /\ handled[f] = Handlers
        BY DEF HeldRows, OutboxTypeOK
      <4>2. handled'[f] \subseteq Handlers /\ handled[f] \subseteq handled'[f]
        BY <4>1, <2>2
      <4> QED BY <4>1, <4>2
    <3>2. todo'[x] \cup done'[x] \subseteq stored
      BY <2>2, <2>4 DEF HeldRows
    <3>3. \A f \in done'[x] : handled'[f] = Handlers
      BY <2>3, <2>4, <3>1
    <3>4. phase[x] = "idle" => todo'[x] = {}
      BY <2>2 DEF HeldRows
    <3> QED BY <3>2, <3>3, <3>4 DEF HeldRows
  <2>7. PublishedWasHandled'
    BY <2>1, <2>2 DEF PublishedWasHandled, OutboxTypeOK
  <2> QED BY <2>2, <2>5, <2>6, <2>7
<1>5. ASSUME NEW d \in Drains, NEW e \in Events, GiveUp(d, e) \/ Fail(d, e) PROVE OutboxIInv'
  <2>1. PICK ok \in SUBSET Handlers : RunHandlers(d, e, ok)
    BY <1>5 DEF GiveUp, Fail
  <2>2. UNCHANGED <<stored, attempts, hidden, published, tries, done, lease, crashes>>
    BY <1>5 DEF GiveUp, Fail
  <2>3. /\ handled' \in [Events -> SUBSET Handlers]
        /\ ran' \in [Events -> SUBSET (0..MaxAttempts)]
        /\ todo' \in [Drains -> SUBSET Events]
        /\ \A x \in Drains : todo'[x] \subseteq todo[x]
        /\ \A f \in Events : handled[f] \subseteq handled'[f]
        /\ phase[d] = "run" /\ e \in stored
        /\ tries[d][e] \in 1..attempts[e]
        /\ AttemptsSpent' /\ EachAttemptRunsOnce'
    BY <2>1, <2>2, RunStep
  <2>4. /\ phase' \in [Drains -> Phases] /\ failing' \in [Drains -> SUBSET Events]
        /\ \A x \in Drains : \/ phase'[x] = phase[x] /\ failing'[x] = failing[x]
                             \/ x = d /\ phase'[x] = "reschedule" /\ failing'[x] = {e}
    <3>1. CASE GiveUp(d, e)
      BY <3>1 DEF GiveUp, OutboxTypeOK
    <3>2. CASE Fail(d, e)
      BY <3>2 DEF Fail, OutboxTypeOK
    <3> QED BY <1>5, <3>1, <3>2
  <2>5. OutboxTypeOK'
    BY <2>2, <2>3, <2>4 DEF OutboxTypeOK
  <2>6. HeldRows'
    <3> SUFFICES ASSUME NEW x \in Drains
                 PROVE  /\ todo'[x] \cup done[x] \subseteq stored
                        /\ \A f \in failing'[x] : tries[x][f] >= 1
                        /\ \A f \in done[x] : handled'[f] = Handlers
                        /\ phase'[x] = "idle" => todo'[x] = {}
                        /\ phase'[x] # "reschedule" => failing'[x] = {}
      BY <2>2 DEF HeldRows
    <3>1. ASSUME NEW f \in done[x] PROVE handled'[f] = Handlers
      <4>1. f \in Events /\ handled[f] = Handlers
        BY DEF HeldRows, OutboxTypeOK
      <4>2. handled'[f] \subseteq Handlers /\ handled[f] \subseteq handled'[f]
        BY <4>1, <2>3
      <4> QED BY <4>1, <4>2
    <3>2. tries[d][e] >= 1
      <4>1. attempts[e] \in Nat
        BY DEF OutboxTypeOK
      <4> QED BY <2>3, <4>1
    <3>3. CASE phase'[x] = phase[x] /\ failing'[x] = failing[x]
      BY <2>3, <3>1, <3>3 DEF HeldRows
    <3>4. CASE x = d /\ phase'[x] = "reschedule" /\ failing'[x] = {e}
      BY <2>3, <3>1, <3>2, <3>4 DEF HeldRows
    <3> QED BY <2>4, <3>3, <3>4
  <2>7. PublishedWasHandled'
    BY <2>2, <2>3 DEF PublishedWasHandled, OutboxTypeOK
  <2> QED BY <2>3, <2>5, <2>6, <2>7
<1>6. ASSUME NEW d \in Drains, Reschedule(d) PROVE OutboxIInv'
  <2>1. \A e \in failing[d] : tries[d][e] \in 1..MaxAttempts
    BY DEF HeldRows, OutboxTypeOK
  <2>2. hidden' \in [Events -> Nat]
    BY <1>6, <2>1 DEF Reschedule, OutboxTypeOK
  <2>3. OutboxTypeOK'
    BY <1>6, <2>2 DEF Reschedule, OutboxTypeOK
  <2> QED BY <1>6, <2>3 DEF Reschedule, OutboxTypeOK, HeldRows, AttemptsSpent,
                            EachAttemptRunsOnce, PublishedWasHandled
<1>7. ASSUME NEW d \in Drains, Finish(d) PROVE OutboxIInv'
  <2>1. OutboxTypeOK'
    BY <1>7 DEF Finish, OutboxTypeOK
  <2>2. HeldRows'
    BY <1>7 DEF Finish, OutboxTypeOK, HeldRows
  <2>3. AttemptsSpent' /\ EachAttemptRunsOnce'
    BY <1>7 DEF Finish, AttemptsSpent, EachAttemptRunsOnce
  <2>4. PublishedWasHandled'
    BY <1>7 DEF Finish, HeldRows, PublishedWasHandled
  <2> QED BY <2>1, <2>2, <2>3, <2>4
<1>8. ASSUME NEW d \in Drains, DrainDies(d) PROVE OutboxIInv'
  <2>1. crashes' \in 0..MaxCrashes
    BY <1>8 DEF DrainDies, OutboxTypeOK
  <2>2. OutboxTypeOK'
    BY <1>8, <2>1 DEF DrainDies, OutboxTypeOK
  <2>3. \A x \in Drains : todo'[x] \subseteq todo[x]
    BY <1>8 DEF DrainDies, OutboxTypeOK
  <2>4. HeldRows' /\ PublishedWasHandled' /\ AttemptsSpent'
    BY <1>8 DEF DrainDies, OutboxTypeOK, HeldRows, AttemptsSpent, PublishedWasHandled
  <2>5. EachAttemptRunsOnce'
    BY <1>8, <2>3 DEF DrainDies, EachAttemptRunsOnce
  <2> QED BY <2>2, <2>4, <2>5
<1>9. CASE UNCHANGED outboxVars
  BY <1>9 DEF outboxVars, OutboxTypeOK, HeldRows, AttemptsSpent, EachAttemptRunsOnce,
              PublishedWasHandled
<1> QED
  BY <1>1, <1>2, <1>3, <1>4, <1>5, <1>6, <1>7, <1>8, <1>9 DEF OutboxNext, Drain

(* The invariant holds in every reachable state.                           *)
THEOREM OutboxInvariant == OutboxSpec => []OutboxIInv
  BY InitOutboxIInv, StepOutboxIInv, PTL DEF OutboxSpec

(* Types; with attempts \in 0..MaxAttempts the attempts of an event never  *)
(* pass maxAttempts, whatever crashes and lapses.                          *)
THEOREM OutboxTypes == OutboxSpec => []OutboxTypeOK
<1>1. OutboxIInv => OutboxTypeOK
  BY DEF OutboxIInv
<1> QED BY <1>1, OutboxInvariant, PTL

(* At-least-once delivery: nothing is marked published that some handler   *)
(* has not yet handled.                                                    *)
THEOREM PublishedMeansHandled == OutboxSpec => []PublishedWasHandled
<1>1. OutboxIInv => PublishedWasHandled
  BY DEF OutboxIInv
<1> QED BY <1>1, OutboxInvariant, PTL

(* An attempt of an event is held by one drain and run once.               *)
THEOREM AttemptsRunOnce == OutboxSpec => []EachAttemptRunsOnce
<1>1. OutboxIInv => EachAttemptRunsOnce
  BY DEF OutboxIInv
<1> QED BY <1>1, OutboxInvariant, PTL

(* A published event is out of every later claim.                          *)
THEOREM PublishedStays == OutboxSpec => PublishedIsFinal
<1>1. OutboxTypeOK /\ [OutboxNext]_outboxVars =>
        [\A e \in published : e \in published' /\ attempts'[e] = attempts[e]]_outboxVars
  BY DEF OutboxNext, Drain, Claims, Store, Tick, Claim, OldestBatch, Claimable, Deliver,
         GiveUp, Fail, Reschedule, Finish, DrainDies, outboxVars, OutboxTypeOK
<1> QED BY <1>1, OutboxTypes, PTL DEF OutboxSpec, PublishedIsFinal

-----------------------------------------------------------------------------
(* The drain keeps the contract of AtLeastOnce.                            *)

(* There are at most n attempts among the first n.                         *)
LEMMA AttemptsCount ==
    ASSUME NEW n \in Nat, NEW S \in SUBSET (1..n)
    PROVE  IsFiniteSet(S) /\ Cardinality(S) \in Nat /\ Cardinality(S) <= n
<1>1. 1 \in Int /\ n \in Int
  OBVIOUS
<1>2. IsFiniteSet(1..n) /\ Cardinality(1..n) = IF 1 > n THEN 0 ELSE n - 1 + 1
  BY ONLY <1>1, FS_Interval
<1>3. Cardinality(1..n) = n
  BY <1>2
<1>4. IsFiniteSet(S) /\ Cardinality(S) <= Cardinality(1..n)
  BY <1>2, FS_Subset
<1> QED BY <1>3, <1>4, FS_CardinalityType

(* Running an attempt that is still held hands the event over once more.   *)
LEMMA RunHandsOver ==
    ASSUME OutboxIInv, OutboxIInv', NEW d \in Drains, NEW e \in Events,
           NEW ok \in SUBSET Handlers, RunHandlers(d, e, ok), UNCHANGED <<stored, published>>
    PROVE  Queue!HandOver(e, ok)
<1>1. /\ e \in todo[d]
      /\ handled' = [handled EXCEPT ![e] = @ \cup ok]
      /\ ran' = [ran EXCEPT ![e] = @ \cup {tries[d][e]}]
  BY DEF RunHandlers, IsNext
<1>2. e \in stored /\ tries[d][e] \notin ran[e]
  BY <1>1 DEF OutboxIInv, HeldRows, EachAttemptRunsOnce
<1>3. ran \in [Events -> SUBSET (0..MaxAttempts)]
  BY DEF OutboxIInv, OutboxTypeOK
<1>4. ran'[e] = ran[e] \cup {tries[d][e]} /\ \A f \in Events \ {e} : ran'[f] = ran[f]
  BY <1>1, <1>3
<1>5. IsFiniteSet(ran[e]) /\ Cardinality(ran[e]) \in Nat
  <2>1. attempts[e] \in Nat /\ ran[e] \in SUBSET (1..attempts[e])
    BY DEF OutboxIInv, OutboxTypeOK, AttemptsSpent
  <2> QED BY <2>1, AttemptsCount
<1>6. Cardinality(ran'[e]) = Cardinality(ran[e]) + 1
  BY <1>2, <1>4, <1>5, FS_AddElement
<1>7. Cardinality(ran[e]) < MaxAttempts * (1 + 0)
  <2>1. attempts'[e] \in 0..MaxAttempts /\ ran'[e] \in SUBSET (1..attempts'[e])
    BY DEF OutboxIInv, OutboxTypeOK, AttemptsSpent
  <2>2. Cardinality(ran'[e]) <= attempts'[e]
    BY <2>1, AttemptsCount
  <2> QED BY <1>5, <1>6, <2>1, <2>2
<1>8. [f \in Events |-> Cardinality(ran'[f])]
        = [[f \in Events |-> Cardinality(ran[f])] EXCEPT ![e] = @ + 1]
  BY <1>4, <1>6
<1> QED BY <1>1, <1>2, <1>7, <1>8 DEF Queue!HandOver

LEMMA StepDelivers ==
    OutboxIInv /\ OutboxIInv' /\ [OutboxNext]_outboxVars => [Queue!Next]_(Queue!vars)
<1> SUFFICES ASSUME OutboxIInv, OutboxIInv', [OutboxNext]_outboxVars
             PROVE  Queue!Next \/ UNCHANGED <<stored, handled, ran, published>>
  BY DEF Queue!vars
<1>1. ASSUME NEW t, Store(t) PROVE Queue!Next
  <2> DEFINE new == stored' \ stored
  <2>1. stored' \subseteq Events /\ stored' = stored \cup new
    BY <1>1 DEF Store, OutboxIInv, OutboxTypeOK
  <2>2. UNCHANGED <<handled, ran, published>>
    BY <1>1 DEF Store, history
  <2>3. Queue!Accept(new) /\ new \in SUBSET Events
    BY <2>1, <2>2 DEF Queue!Accept
  <2> QED BY <2>3 DEF Queue!Next
<1>2. ASSUME NEW d \in Drains, NEW e \in Events, Deliver(d, e) \/ GiveUp(d, e) \/ Fail(d, e)
      PROVE  Queue!Next
  <2>1. PICK ok \in SUBSET Handlers : RunHandlers(d, e, ok)
    BY <1>2 DEF Deliver, GiveUp, Fail
  <2>2. UNCHANGED <<stored, published>>
    BY <1>2 DEF Deliver, GiveUp, Fail, rows
  <2> QED BY <2>1, <2>2, RunHandsOver DEF Queue!Next
<1>3. ASSUME NEW d \in Drains, Finish(d) PROVE Queue!Next
  <2>1. /\ published' = published \cup done[d]
        /\ UNCHANGED <<stored, handled, ran>>
    BY <1>3 DEF Finish, history
  <2>2. done[d] \in SUBSET Events /\ done[d] \subseteq stored /\ \A e \in done[d] : handled[e] = Handlers
    BY DEF OutboxIInv, OutboxTypeOK, HeldRows
  <2>3. Queue!Close(done[d])
    BY <2>1, <2>2 DEF Queue!Close
  <2> QED BY <2>2, <2>3 DEF Queue!Next
<1>4. ASSUME NEW d \in Drains, Claims(d) \/ Reschedule(d) \/ DrainDies(d)
      PROVE  UNCHANGED <<stored, handled, ran, published>>
  BY <1>4 DEF Claims, Claim, Reschedule, DrainDies, rows, history
<1>5. Tick \/ UNCHANGED outboxVars => UNCHANGED <<stored, handled, ran, published>>
  BY DEF Tick, outboxVars, rows, history
<1> QED BY <1>1, <1>2, <1>3, <1>4, <1>5 DEF OutboxNext, Drain

(* The drain implements AtLeastOnce: each handing over is one of at most   *)
(* maxAttempts attempts, run once, and an event is published once all of   *)
(* its handlers have succeeded, and stays so (outbox.ts drainOutbox).      *)
THEOREM OutboxImplementsAtLeastOnce == OutboxSpec => DeliversAtLeastOnce
<1>1. OutboxInit => Queue!Init
  <2> SUFFICES ASSUME OutboxInit PROVE Queue!Init
    OBVIOUS
  <2>1. \A e \in Events : Cardinality(ran[e]) = 0
    BY FS_EmptySet DEF OutboxInit
  <2>2. [e \in Events |-> Cardinality(ran[e])] = [e \in Events |-> 0]
    BY <2>1
  <2> QED BY <2>2 DEF OutboxInit, Queue!Init
<1>2. OutboxIInv /\ OutboxIInv' /\ [OutboxNext]_outboxVars => [Queue!Next]_(Queue!vars)
  BY StepDelivers
<1> QED BY <1>1, <1>2, OutboxInvariant, PTL DEF OutboxSpec, DeliversAtLeastOnce, Queue!Spec

-----------------------------------------------------------------------------
(* Leases.  What a drain still has to run is hidden for as long as its own *)
(* lease lasts, if no handler throws on it: only a failure moves the time  *)
(* a row is hidden until under another drain's lease.                      *)
HeldIsHidden ==
    \A d \in Drains : \A e \in todo[d] \ CanFail : lease[d] <= hidden[e]
OnlyFailingFail == \A d \in Drains : failing[d] \subseteq CanFail
LeaseInv == HeldIsHidden /\ OnlyFailingFail /\ LeaseIsExclusive

(* A step that claims nothing and hides no row for less.                   *)
LEMMA LeasesKept ==
    ASSUME OutboxIInv, OutboxIInv', LeaseInv,
           \A d \in Drains : /\ todo'[d] \subseteq todo[d]
                             /\ todo'[d] # {} => lease'[d] = lease[d]
                             /\ failing'[d] \subseteq failing[d] \cup CanFail,
           \A e \in Events \ CanFail : hidden'[e] = hidden[e]
    PROVE  LeaseInv'
<1>1. todo \in [Drains -> SUBSET Events]
  BY DEF OutboxIInv, OutboxTypeOK
<1>2. HeldIsHidden'
  <2> SUFFICES ASSUME NEW d \in Drains, NEW e \in todo'[d] \ CanFail
               PROVE  lease'[d] <= hidden'[e]
    BY DEF HeldIsHidden
  <2>1. e \in todo[d] /\ e \in Events
    BY <1>1
  <2>2. lease'[d] = lease[d] /\ hidden'[e] = hidden[e]
    BY <2>1
  <2> QED BY <2>1, <2>2 DEF LeaseInv, HeldIsHidden
<1>3. OnlyFailingFail'
  BY DEF LeaseInv, OnlyFailingFail
<1>4. LeaseIsExclusive'
  BY DEF LeaseInv, LeaseIsExclusive
<1> QED BY <1>2, <1>3, <1>4 DEF LeaseInv

(* Time passes alike for leases and for the rows they hide.                *)
LEMMA TickLeases == ASSUME OutboxIInv, LeaseInv, Tick PROVE LeaseInv'
<1>1. /\ hidden \in [Events -> Nat] /\ lease \in [Drains -> Nat]
      /\ todo \in [Drains -> SUBSET Events]
  BY DEF OutboxIInv, OutboxTypeOK
<1>2. /\ hidden' = [e \in Events |-> Less(hidden[e])] /\ lease' = [d \in Drains |-> Less(lease[d])]
      /\ UNCHANGED <<todo, failing>>
  BY DEF Tick
<1>3. \A m, n \in Nat : (m <= n => Less(m) <= Less(n)) /\ (Less(m) > 0 => m > 0)
  BY DEF Less
<1>4. HeldIsHidden'
  BY <1>1, <1>2, <1>3 DEF LeaseInv, HeldIsHidden
<1>5. \A d \in Drains : lease'[d] > 0 => lease[d] > 0
  BY <1>1, <1>2, <1>3
<1>6. LeaseIsExclusive'
  BY <1>2, <1>5 DEF LeaseInv, LeaseIsExclusive
<1>7. OnlyFailingFail'
  BY <1>2 DEF LeaseInv, OnlyFailingFail
<1> QED BY <1>4, <1>6, <1>7 DEF LeaseInv

(* A row can be claimed once it is hidden no longer, and the lease of every*)
(* drain that still holds it is over by then.                              *)
LEMMA ClaimLeases ==
    ASSUME OutboxIInv, LeaseInv, NEW d \in Drains, NEW B \in SUBSET Events, Claim(d, B)
    PROVE  LeaseInv'
<1>1. /\ hidden \in [Events -> Nat] /\ lease \in [Drains -> Nat]
      /\ todo \in [Drains -> SUBSET Events]
  BY DEF OutboxIInv, OutboxTypeOK
<1>2. /\ hidden' = [e \in Events |-> IF e \in B THEN Lease ELSE hidden[e]]
      /\ todo' = [todo EXCEPT ![d] = B] /\ lease' = [lease EXCEPT ![d] = Lease]
      /\ failing' = failing /\ \A e \in B : hidden[e] = 0
  BY DEF Claim, OldestBatch, Claimable
<1>3. /\ todo'[d] = B /\ lease'[d] = Lease
      /\ \A c \in Drains \ {d} : todo'[c] = todo[c] /\ lease'[c] = lease[c]
      /\ \A e \in Events : hidden'[e] = IF e \in B THEN Lease ELSE hidden[e]
  BY <1>1, <1>2
<1>4. ASSUME NEW c \in Drains \ {d}, NEW e \in todo[c] \ CanFail
      PROVE  /\ lease[c] <= hidden'[e]
             /\ e \in B => ~(lease[c] > 0)
  <2>1. lease[c] <= hidden[e] /\ lease[c] \in Nat /\ e \in Events
    BY <1>1 DEF LeaseInv, HeldIsHidden
  <2>2. CASE e \in B
    BY <1>2, <1>3, <2>1, <2>2
  <2>3. CASE e \notin B
    BY <1>3, <2>1, <2>3
  <2> QED BY <2>2, <2>3
<1>5. HeldIsHidden'
  <2> SUFFICES ASSUME NEW c \in Drains, NEW e \in todo'[c] \ CanFail
               PROVE  lease'[c] <= hidden'[e]
    BY DEF HeldIsHidden
  <2>1. CASE c = d
    BY <1>3, <2>1
  <2>2. CASE c # d
    BY <1>3, <1>4, <2>2
  <2> QED BY <2>1, <2>2
<1>6. LeaseIsExclusive'
  <2> SUFFICES ASSUME NEW b \in Drains, NEW c \in Drains,
                      NEW e \in (todo'[b] \cap todo'[c]) \ CanFail,
                      lease'[b] > 0, lease'[c] > 0
               PROVE  b = c
    BY DEF LeaseIsExclusive
  <2>1. CASE b # d /\ c # d
    BY <1>3, <2>1 DEF LeaseInv, LeaseIsExclusive
  <2>2. b = d => c = d
    BY <1>3, <1>4
  <2>3. c = d => b = d
    BY <1>3, <1>4
  <2> QED BY <2>1, <2>2, <2>3
<1>7. OnlyFailingFail'
  BY <1>2 DEF LeaseInv, OnlyFailingFail
<1> QED BY <1>5, <1>6, <1>7 DEF LeaseInv

LEMMA LeaseStep == OutboxIInv /\ OutboxIInv' /\ LeaseInv /\ [OutboxNext]_outboxVars => LeaseInv'
<1> SUFFICES ASSUME OutboxIInv, OutboxIInv', LeaseInv, [OutboxNext]_outboxVars PROVE LeaseInv'
  OBVIOUS
<1>1. /\ todo \in [Drains -> SUBSET Events] /\ failing \in [Drains -> SUBSET Events]
      /\ lease \in [Drains -> Nat] /\ hidden \in [Events -> Nat]
  BY DEF OutboxIInv, OutboxTypeOK
<1>2. ASSUME UNCHANGED <<todo, failing, lease, hidden>> PROVE LeaseInv'
  BY <1>2, LeasesKept
<1>3. ASSUME NEW t, Store(t) PROVE LeaseInv'
  BY <1>2, <1>3 DEF Store, drains
<1>4. ASSUME NEW d \in Drains, NEW e \in Events, Deliver(d, e) \/ GiveUp(d, e) \/ Fail(d, e)
      PROVE  LeaseInv'
  <2>1. PICK ok \in SUBSET Handlers : RunHandlers(d, e, ok) /\ (ok = Handlers \/ e \in CanFail)
    BY <1>4 DEF Deliver, GiveUp, Fail, RunHandlers, CanFail
  <2>2. todo' = [todo EXCEPT ![d] = @ \ {e}] /\ UNCHANGED <<lease, hidden>>
    BY <1>4, <2>1 DEF Deliver, GiveUp, Fail, RunHandlers, rows
  <2>3. failing' = failing \/ (failing' = [failing EXCEPT ![d] = {e}] /\ e \in CanFail)
    <3>1. CASE Deliver(d, e) \/ GiveUp(d, e)
      BY <3>1 DEF Deliver, GiveUp, RunHandlers
    <3>2. CASE Fail(d, e)
      BY <3>2 DEF Fail, RunHandlers, CanFail
    <3> QED BY <1>4, <3>1, <3>2
  <2>4. \A c \in Drains : todo'[c] \subseteq todo[c]
    BY <1>1, <2>2
  <2>5. \A c \in Drains : failing'[c] \subseteq failing[c] \cup CanFail
    BY <1>1, <2>3
  <2> QED BY <2>2, <2>4, <2>5, LeasesKept
<1>5. ASSUME NEW d \in Drains, Reschedule(d) PROVE LeaseInv'
  <2>1. /\ failing' = [failing EXCEPT ![d] = {}] /\ UNCHANGED <<todo, lease>>
        /\ \A e \in Events : e \notin failing[d] => hidden'[e] = hidden[e]
    BY <1>5 DEF Reschedule
  <2>2. failing[d] \subseteq CanFail
    BY DEF LeaseInv, OnlyFailingFail
  <2>3. \A c \in Drains : failing'[c] \subseteq failing[c]
    BY <1>1, <2>1
  <2> QED BY <2>1, <2>2, <2>3, LeasesKept
<1>6. ASSUME NEW d \in Drains, Finish(d) \/ DrainDies(d) PROVE LeaseInv'
  <2>1. /\ UNCHANGED hidden /\ lease' = [lease EXCEPT ![d] = 0]
        /\ failing' = failing \/ failing' = [failing EXCEPT ![d] = {}]
        /\ (todo' = todo /\ todo[d] = {}) \/ todo' = [todo EXCEPT ![d] = {}]
    BY <1>6 DEF Finish, DrainDies, rows
  <2>2. \A c \in Drains : todo'[c] \subseteq todo[c] /\ (todo'[c] # {} => lease'[c] = lease[c])
    BY <1>1, <2>1
  <2>3. \A c \in Drains : failing'[c] \subseteq failing[c]
    BY <1>1, <2>1
  <2> QED BY <2>1, <2>2, <2>3, LeasesKept
<1>7. CASE UNCHANGED outboxVars
  BY <1>2, <1>7 DEF outboxVars, drains, rows
<1> QED BY <1>3, <1>4, <1>5, <1>6, <1>7, TickLeases, ClaimLeases DEF OutboxNext, Drain, Claims

(* leaseMs: of the drains that still have to run an event no handler       *)
(* throws on, at most one has time left on its lease, however many claim,  *)
(* lapse and die (outbox.ts drainOutbox).                                  *)
THEOREM LeasesAreExclusive == OutboxSpec => []LeaseIsExclusive
<1>1. OutboxInit => LeaseInv
  BY DEF OutboxInit, LeaseInv, HeldIsHidden, OnlyFailingFail, LeaseIsExclusive
<1>2. LeaseInv => LeaseIsExclusive
  BY DEF LeaseInv
<1> QED BY <1>1, <1>2, OutboxInvariant, LeaseStep, PTL DEF OutboxSpec

=============================================================================

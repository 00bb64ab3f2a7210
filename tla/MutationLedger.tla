--------------------------- MODULE MutationLedger ---------------------------
(***************************************************************************)
(* The durable mutation unit of work (packages/db/src/mutation-unit-of-    *)
(* work.ts): every authoritative write of the API runs inside execute(),   *)
(* which commits the domain change, its audit row, its outbox row and the  *)
(* idempotency row of api_mutations in ONE database transaction guarded by *)
(* a transaction-scoped advisory lock.                                     *)
(*                                                                         *)
(* A call is one HTTP attempt.  A client that gets no answer retries with  *)
(* the same idempotency key: a further call.  Writes inside a transaction  *)
(* stay in buffer[c] until the commit makes them visible to other calls    *)
(* (READ COMMITTED).                                                       *)
(***************************************************************************)
EXTENDS FiniteSets

CONSTANTS
    Calls,      \* attempts to execute a mutation, each by its own server task
    Keys,       \* workspace:operation:idempotency-key identities
    Prints,     \* fingerprints of the canonical input
    Locks,      \* advisory lock numbers
    LockOf,     \* hashtextextended: two keys may share a number
    NoCall,     \* nobody holds the lock
    NoRow       \* no api_mutations row under the key

ASSUME LockOfAssumption == LockOf \in [Keys -> Locks]
ASSUME NoCallAssumption == NoCall \notin Calls

VARIABLES
    pc,         \* where each call is in execute()
    req,        \* the key and fingerprint each call carries
    lock,       \* advisory lock holder
    row,        \* committed api_mutations rows
    buffer,     \* uncommitted writes of the call's open transaction
    domain,     \* calls whose domain change is committed
    audit,      \* calls whose audit row is committed
    outbox,     \* calls whose outbox row is committed
    reply       \* what the call answered its client

vars == <<pc, req, lock, row, buffer, domain, audit, outbox, reply>>

-----------------------------------------------------------------------------
(* A stored response is the call that produced it, or "pruned" once the    *)
(* retention job has nulled response_body.                                 *)
Pruned == "pruned"
Rows == [print : Prints, by : Calls, body : Calls \cup {Pruned}]
Requests == [key : Keys, print : Prints]
ASSUME NoRowAssumption == NoRow \notin Rows

Parts == {"domain", "audit", "outbox"}
Writes == Parts \cup {"claim", "complete"}

InTransaction == {"read", "insert", "work", "commit"}
Ended == {"done", "dead"}
PCs == {"new", "lock", "announce"} \cup InTransaction \cup Ended

Successes == {"executed", "replayed"}
Refusals == {"timeout", "in_progress", "conflict", "error"}
Replies == [kind : {"none"} \cup Successes \cup Refusals,
            body : Calls \cup {Pruned, NoCall}]
Empty(kind) == [kind |-> kind, body |-> NoCall]
NoReply == Empty("none")

Init ==
    /\ pc = [c \in Calls |-> "new"]
    /\ req \in [Calls -> Requests]
    /\ lock = [l \in Locks |-> NoCall]
    /\ row = [k \in Keys |-> NoRow]
    /\ buffer = [c \in Calls |-> {}]
    /\ domain = {}
    /\ audit = {}
    /\ outbox = {}
    /\ reply = [c \in Calls |-> NoReply]

KeyLock(c) == LockOf[req[c].key]
KeyRow(c) == row[req[c].key]

(* The end of a transaction drops its private writes and its lock.         *)
EndTransaction(c) ==
    /\ buffer' = [buffer EXCEPT ![c] = {}]
    /\ lock' = [lock EXCEPT ![KeyLock(c)] = NoCall]

Answer(c, r) ==
    /\ reply' = [reply EXCEPT ![c] = r]
    /\ pc' = [pc EXCEPT ![c] = "done"]

-----------------------------------------------------------------------------
(* The abort signal and the deadline are looked at once, before the        *)
(* transaction opens.                                                      *)
Start(c) ==
    /\ pc[c] = "new"
    /\ pc' = [pc EXCEPT ![c] = "lock"]
    /\ UNCHANGED <<req, lock, row, buffer, domain, audit, outbox, reply>>

StartTooLate(c) ==
    /\ pc[c] = "new"
    /\ Answer(c, Empty("timeout"))
    /\ UNCHANGED <<req, lock, row, buffer, domain, audit, outbox>>

(* pg_try_advisory_xact_lock never waits.                                  *)
TakeLock(c) ==
    /\ pc[c] = "lock"
    /\ lock[KeyLock(c)] = NoCall
    /\ lock' = [lock EXCEPT ![KeyLock(c)] = c]
    /\ pc' = [pc EXCEPT ![c] = "read"]
    /\ UNCHANGED <<req, row, buffer, domain, audit, outbox, reply>>

LockIsTaken(c) ==
    /\ pc[c] = "lock"
    /\ lock[KeyLock(c)] # NoCall
    /\ Answer(c, Empty("in_progress"))
    /\ UNCHANGED <<req, lock, row, buffer, domain, audit, outbox>>

(* The existing row decides: conflict, replay of the stored response, or   *)
(* a first execution.  The transaction of the first two ends here.         *)
FindConflict(c) ==
    /\ pc[c] = "read"
    /\ KeyRow(c) # NoRow
    /\ KeyRow(c).print # req[c].print
    /\ EndTransaction(c)
    /\ Answer(c, Empty("conflict"))
    /\ UNCHANGED <<req, row, domain, audit, outbox>>

FindCompleted(c) ==
    /\ pc[c] = "read"
    /\ KeyRow(c) # NoRow
    /\ KeyRow(c).print = req[c].print
    /\ EndTransaction(c)
    /\ reply' = [reply EXCEPT ![c] = [kind |-> "replayed", body |-> KeyRow(c).body]]
    /\ pc' = [pc EXCEPT ![c] = "announce"]
    /\ UNCHANGED <<req, row, domain, audit, outbox>>

FindNothing(c) ==
    /\ pc[c] = "read"
    /\ KeyRow(c) = NoRow
    /\ pc' = [pc EXCEPT ![c] = "insert"]
    /\ UNCHANGED <<req, lock, row, buffer, domain, audit, outbox, reply>>

(* The unique index on (workspace, operation, key): an insert waits for    *)
(* another open transaction that holds the key, and fails (RollBack) once  *)
(* the key is committed.                                                   *)
KeyIsFree(c) ==
    /\ KeyRow(c) = NoRow
    /\ \A d \in Calls : "claim" \in buffer[d] => req[d].key # req[c].key

ClaimKey(c) ==
    /\ pc[c] = "insert"
    /\ KeyIsFree(c)
    /\ buffer' = [buffer EXCEPT ![c] = {"claim"}]
    /\ pc' = [pc EXCEPT ![c] = "work"]
    /\ UNCHANGED <<req, lock, row, domain, audit, outbox, reply>>

(* Mutant: a command that writes its domain change through the pool        *)
(* instead of the transaction.                                             *)
WriteDomainAtOnce(c, part) ==
    /\ pc[c] = "work"
    /\ part \in Parts \ buffer[c]
    /\ buffer' = [buffer EXCEPT ![c] = @ \cup {part}]
    /\ domain' = IF part = "domain" THEN domain \cup {c} ELSE domain
    /\ UNCHANGED <<pc, req, lock, row, audit, outbox, reply>>

(* work() writes the domain change, the audit row and the outbox row       *)
(* through the same transaction, in the order the command chooses.         *)
Write(c, part) ==
    /\ pc[c] = "work"
    /\ part \in Parts \ buffer[c]
    /\ buffer' = [buffer EXCEPT ![c] = @ \cup {part}]
    /\ UNCHANGED <<pc, req, lock, row, domain, audit, outbox, reply>>

(* The row is marked completed with the response work() returned.          *)
Complete(c) ==
    /\ pc[c] = "work"
    /\ Parts \subseteq buffer[c]
    /\ buffer' = [buffer EXCEPT ![c] = @ \cup {"complete"}]
    /\ pc' = [pc EXCEPT ![c] = "commit"]
    /\ UNCHANGED <<req, lock, row, domain, audit, outbox, reply>>

IfWritten(c, part, committed) ==
    IF part \in buffer[c] THEN committed \cup {c} ELSE committed

Commit(c) ==
    /\ pc[c] = "commit"
    /\ row' = [row EXCEPT ![req[c].key] =
                  [print |-> req[c].print, by |-> c, body |-> c]]
    /\ domain' = IfWritten(c, "domain", domain)
    /\ audit' = IfWritten(c, "audit", audit)
    /\ outbox' = IfWritten(c, "outbox", outbox)
    /\ EndTransaction(c)
    /\ pc' = [pc EXCEPT ![c] = "announce"]
    /\ reply' = [reply EXCEPT ![c] = [kind |-> "executed", body |-> c]]
    /\ UNCHANGED req

(* Mutant: only an execution is announced and answered.                    *)
AnnounceExecuted(c) ==
    /\ pc[c] = "announce"
    /\ reply[c].kind = "executed"
    /\ pc' = [pc EXCEPT ![c] = "done"]
    /\ UNCHANGED <<req, lock, row, buffer, domain, audit, outbox, reply>>

(* The nudge after COMMIT is best effort; the answer follows whatever it   *)
(* did.                                                                    *)
Announce(c) ==
    /\ pc[c] = "announce"
    /\ pc' = [pc EXCEPT ![c] = "done"]
    /\ UNCHANGED <<req, lock, row, buffer, domain, audit, outbox, reply>>

(* Mutant: the error is caught around work() and the transaction commits.  *)
RollBackTooLate(c) ==
    /\ pc[c] \in InTransaction
    /\ EndTransaction(c)
    /\ Answer(c, Empty("error"))
    /\ domain' = IfWritten(c, "domain", domain)
    /\ audit' = IfWritten(c, "audit", audit)
    /\ outbox' = IfWritten(c, "outbox", outbox)
    /\ UNCHANGED <<req, row>>

(* An error or a database timeout inside the transaction rolls everything  *)
(* back and reaches the client as an error.                                *)
RollBack(c) ==
    /\ pc[c] \in InTransaction
    /\ EndTransaction(c)
    /\ Answer(c, Empty("error"))
    /\ UNCHANGED <<req, row, domain, audit, outbox>>

(* The server process dies: the database rolls an open transaction back,   *)
(* a committed one stays, and the client hears nothing.                    *)
Crash(c) ==
    /\ pc[c] \in {"lock", "announce"} \cup InTransaction
    /\ IF pc[c] \in InTransaction
       THEN EndTransaction(c)
       ELSE UNCHANGED <<buffer, lock>>
    /\ pc' = [pc EXCEPT ![c] = "dead"]
    /\ reply' = [reply EXCEPT ![c] = NoReply]
    /\ UNCHANGED <<req, row, domain, audit, outbox>>

(* The retention job nulls the stored body of an old row; the row stays.   *)
Prune(k) ==
    /\ row[k] # NoRow
    /\ row[k].body # Pruned
    /\ row' = [row EXCEPT ![k].body = Pruned]
    /\ UNCHANGED <<pc, req, lock, buffer, domain, audit, outbox, reply>>

Execute(c) ==
    \/ Start(c) \/ StartTooLate(c) \/ TakeLock(c) \/ LockIsTaken(c)
    \/ FindConflict(c) \/ FindCompleted(c) \/ FindNothing(c)
    \/ ClaimKey(c)
    \/ \E part \in Parts : Write(c, part)
    \/ Complete(c) \/ Commit(c) \/ Announce(c)

Next ==
    \/ \E c \in Calls : Execute(c) \/ RollBack(c) \/ Crash(c)
    \/ \E k \in Keys : Prune(k)

Spec == Init /\ [][Next]_vars

(* A server task that has started keeps running: every statement ends      *)
(* within lock_timeout and statement_timeout.                              *)
Fairness == \A c \in Calls : WF_vars(Execute(c))
FairSpec == Spec /\ Fairness

-----------------------------------------------------------------------------
TypeOK ==
    /\ pc \in [Calls -> PCs]
    /\ req \in [Calls -> Requests]
    /\ lock \in [Locks -> Calls \cup {NoCall}]
    /\ row \in [Keys -> Rows \cup {NoRow}]
    /\ buffer \in [Calls -> SUBSET Writes]
    /\ domain \subseteq Calls
    /\ audit \subseteq Calls
    /\ outbox \subseteq Calls
    /\ reply \in [Calls -> Replies]

(* A key takes effect at most once, however many calls carry it, race on   *)
(* it or retry it after a crash.                                           *)
OneEffectPerKey ==
    \A c, d \in domain : req[c].key = req[d].key => c = d

(* The domain change, its audit row, its outbox event and its ledger row   *)
(* are committed together or not at all (README: a request either happened *)
(* completely or not at all, and there is always a record of it).          *)
AllOrNothing ==
    /\ audit = domain
    /\ outbox = domain
    /\ domain = {c \in Calls : KeyRow(c) # NoRow /\ KeyRow(c).by = c}

(* A success, executed or replayed, is only ever told when the effect of   *)
(* that key AND that input is committed; a conflict only when the key was  *)
(* used for another input; a refused or failed call left no effect behind. *)
AnswersAreTrue ==
    \A c \in Calls :
        /\ reply[c].kind \in Successes =>
              /\ KeyRow(c) # NoRow
              /\ KeyRow(c).print = req[c].print
              /\ KeyRow(c).by \in domain
        /\ reply[c].kind = "conflict" =>
              KeyRow(c) # NoRow /\ KeyRow(c).print # req[c].print
        /\ reply[c].kind \in Refusals =>
              c \notin domain

(* A ledger row, once committed, is never removed, re-owned or given       *)
(* another fingerprint: retention may only clear its body.                 *)
EvidenceIsKept ==
    [][\A k \in Keys : row[k] # NoRow =>
          /\ row'[k] # NoRow
          /\ row'[k].by = row[k].by
          /\ row'[k].print = row[k].print]_vars

(* Every started call is answered or its server died, and the lock it took *)
(* is given back so that a retry can get in.                               *)
EveryCallEnds ==
    \A c \in Calls : (pc[c] = "lock") ~> (pc[c] \in Ended)
LocksAreFreed ==
    \A l \in Locks : (lock[l] # NoCall) ~> (lock[l] = NoCall)

(* The strengthening that is inductive.  A call inside its transaction     *)
(* holds the lock of its key, so what it saw of the key's row stays true   *)
(* until it commits; it has left no effect and given no answer yet; and a  *)
(* row always belongs to a call that carries its key and fingerprint.      *)
LockHeld ==
    \A c \in Calls : pc[c] \in InTransaction => lock[KeyLock(c)] = c
KeyStillFree ==
    \A c \in Calls : pc[c] \in {"insert", "work", "commit"} => KeyRow(c) = NoRow
BufferFilled ==
    \A c \in Calls : pc[c] = "commit" => Parts \subseteq buffer[c]
RowsOwned ==
    \A k \in Keys : row[k] # NoRow =>
        /\ req[row[k].by].key = k
        /\ req[row[k].by].print = row[k].print
NoAnswerYet ==
    \A c \in Calls :
        /\ pc[c] \in {"new", "lock", "dead"} \cup InTransaction => reply[c].kind = "none"
        /\ pc[c] \in {"new", "lock"} \cup InTransaction => c \notin domain
        /\ pc[c] = "announce" => reply[c].kind \in Successes
        /\ pc[c] = "done" => reply[c].kind # "none"

IInv ==
    /\ TypeOK
    /\ LockHeld
    /\ KeyStillFree
    /\ BufferFilled
    /\ RowsOwned
    /\ NoAnswerYet
    /\ AllOrNothing
    /\ AnswersAreTrue

(* Refinement: the ledger keeps the contract of OnceCommand.  A key's      *)
(* effect is the call whose domain change is committed; a call's client    *)
(* knows something once the call has ended.                                *)
EffectOf(k) ==
    IF \E c \in domain : req[c].key = k
    THEN CHOOSE c \in domain : req[c].key = k
    ELSE NoCall

ToldTo(c) ==
    IF pc[c] = "dead" THEN "nothing"
    ELSE IF pc[c] # "done" THEN "pending"
    ELSE IF reply[c].kind \in Successes THEN "success"
    ELSE IF reply[c].kind = "conflict" THEN "conflict"
    ELSE "refused"

Once == INSTANCE OnceCommand
    WITH request <- req,
         effect <- [k \in Keys |-> EffectOf(k)],
         told <- [c \in Calls |-> ToldTo(c)]

ImplementsOnce == Once!Spec

(* A replay returns the response the first execution returned.             *)
ReplayIsFaithful ==
    \A c \in Calls : reply[c].kind = "replayed" => reply[c].body # Pruned

=============================================================================

----------------------------- MODULE AtLeastOnce -----------------------------
(***************************************************************************)
(* What a queue of this system promises the code that feeds it, with no    *)
(* rows, leases, clocks or workers: an item is only closed once every part *)
(* of what is owed for it has been done, and it is handed over a bounded   *)
(* number of times, whoever takes it, is late or dies.  Nothing promises   *)
(* that an item is handed over once, nor that a closed one is not handed   *)
(* over again.  It is the contract of packages/events/src/outbox.ts        *)
(* (drainOutbox) and, where items may be taken back and asked for again,   *)
(* of packages/event-dispatch/src/webhooks.ts.                             *)
(***************************************************************************)
EXTENDS Integers

CONSTANTS
    Items,
    Parts,      \* what is owed for an item
    Limit,      \* how often an item is handed over for one request
    Revocable   \* TRUE: items may be withdrawn, reopened and asked for again

VARIABLES
    accepted,   \* items in the queue, or still in somebody's hands
    extra,      \* how often an item was asked for again
    handed,     \* how often an item was handed over
    seen,       \* the parts done for an item
    closed      \* items reported as done

vars == <<accepted, extra, handed, seen, closed>>

Init ==
    /\ accepted = {}
    /\ extra = [i \in Items |-> 0]
    /\ handed = [i \in Items |-> 0]
    /\ seen = [i \in Items |-> {}]
    /\ closed = {}

Accept(S) ==
    /\ accepted' = accepted \cup S
    /\ UNCHANGED <<extra, handed, seen, closed>>

(* An item that was withdrawn meanwhile leaves with the last hand on it.   *)
HandOver(i, done) ==
    /\ i \in accepted
    /\ handed[i] < Limit * (1 + extra[i])
    /\ handed' = [handed EXCEPT ![i] = @ + 1]
    /\ seen' = [seen EXCEPT ![i] = @ \cup done]
    /\ accepted' = accepted \/ (Revocable /\ accepted' = accepted \ {i})
    /\ UNCHANGED <<extra, closed>>

Close(S) ==
    /\ S \subseteq accepted
    /\ \A i \in S : seen[i] = Parts
    /\ closed' = closed \cup S
    /\ UNCHANGED <<accepted, extra, handed, seen>>

Withdraw(S) ==
    /\ Revocable
    /\ accepted' = accepted \ S
    /\ UNCHANGED <<extra, handed, seen, closed>>

Reopen(i) ==
    /\ Revocable
    /\ closed' = closed \ {i}
    /\ UNCHANGED <<accepted, extra, handed, seen>>

AskAgain(i) ==
    /\ Revocable
    /\ i \in accepted
    /\ extra' = [extra EXCEPT ![i] = @ + 1]
    /\ closed' = closed \ {i}
    /\ UNCHANGED <<accepted, handed, seen>>

Next ==
    \/ \E S \in SUBSET Items : Accept(S) \/ Close(S) \/ Withdraw(S)
    \/ \E i \in Items :
        \/ Reopen(i) \/ AskAgain(i)
        \/ \E done \in SUBSET Parts : HandOver(i, done)

Spec == Init /\ [][Next]_vars
=============================================================================

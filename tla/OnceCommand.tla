---------------------------- MODULE OnceCommand ----------------------------
(***************************************************************************)
(* What the mutation unit of work promises a client, with no transactions, *)
(* locks or ledger rows: under one key a command takes effect at most      *)
(* once, a call is told success only when the effect of its own input      *)
(* exists, and a call that is refused had no effect.  It is the contract   *)
(* of packages/api-contracts/src/mutations.ts (MutationUnitOfWork).        *)
(***************************************************************************)
CONSTANTS Calls, Keys, Prints, NoCall

VARIABLES
    request,    \* key and fingerprint of each call
    effect,     \* the call whose effect a key has, if any
    told        \* what each call's client knows

vars == <<request, effect, told>>

Effect(c) == effect[request[c].key]
SameInput(c, d) == request[c].print = request[d].print

Init ==
    /\ request \in [Calls -> [key : Keys, print : Prints]]
    /\ effect = [k \in Keys |-> NoCall]
    /\ told = [c \in Calls |-> "pending"]

Tell(c, answer) ==
    /\ told[c] = "pending"
    /\ told' = [told EXCEPT ![c] = answer]
    /\ UNCHANGED <<request, effect>>

TakeEffect(c) ==
    /\ told[c] = "pending"
    /\ Effect(c) = NoCall
    /\ effect' = [effect EXCEPT ![request[c].key] = c]
    /\ UNCHANGED <<request, told>>

Succeed(c) ==
    /\ Effect(c) # NoCall
    /\ SameInput(c, Effect(c))
    /\ Tell(c, "success")

Conflict(c) ==
    /\ Effect(c) # NoCall
    /\ ~SameInput(c, Effect(c))
    /\ Tell(c, "conflict")

Refuse(c) ==
    /\ Effect(c) # c
    /\ Tell(c, "refused")

(* The client never hears: it may have taken effect or not.                *)
Vanish(c) == Tell(c, "nothing")

Next == \E c \in Calls :
    TakeEffect(c) \/ Succeed(c) \/ Conflict(c) \/ Refuse(c) \/ Vanish(c)

Spec == Init /\ [][Next]_vars
=============================================================================

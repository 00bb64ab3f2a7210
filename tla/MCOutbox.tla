------------------------------ MODULE MCOutbox ------------------------------
(***************************************************************************)
(* Instances of Outbox for TLC: one event after another, or two of one     *)
(* transaction and then a third.  The default backoff doubles from one     *)
(* tick up to a ceiling.                                                   *)
(***************************************************************************)
EXTENDS Outbox, TLC

CONSTANTS d1, d2, MCMaxAttempts, BackoffCeiling

InOrder == [e \in Events |-> e]
OneThenTwo == {<<1, 2>>}

TwoAtOnce == [e \in Events |-> IF e = 1 THEN 2 ELSE e]
OneThenThree == {<<1, 3>>}

SecondThrowsOnTwo == {<<1, "h2">>, <<2, "h2">>}
OnlyOneFails == {<<1, "h1">>}

DefaultBackoff ==
    [a \in 1..MCMaxAttempts |->
        IF 2^(a - 1) < BackoffCeiling THEN 2^(a - 1) ELSE BackoffCeiling]
=============================================================================

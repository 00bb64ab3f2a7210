-------------------------- MODULE MCWebhookDelivery --------------------------
(***************************************************************************)
(* Instances of WebhookDelivery for TLC.  The backoff doubles from one     *)
(* tick, as defaultBackoff does from ten seconds, up to a ceiling.         *)
(***************************************************************************)
EXTENDS WebhookDelivery, TLC

CONSTANTS w1, w2, p1, p2, e1, e2, MCMaxAttempts, BackoffCeiling

MCBackoff ==
    [a \in 1..MCMaxAttempts |->
        IF 2^(a - 1) < BackoffCeiling THEN 2^(a - 1) ELSE BackoffCeiling]

Everything == Endpoints \X Events

MCSymmetry == Permutations(Workers) \cup Permutations(Events)
=============================================================================

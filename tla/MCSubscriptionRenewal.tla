----------------------- MODULE MCSubscriptionRenewal -----------------------
(***************************************************************************)
(* Instances of SubscriptionRenewal for TLC.                               *)
(***************************************************************************)
EXTENDS SubscriptionRenewal

CONSTANTS s1, s2, k1, r1, r2
=============================================================================

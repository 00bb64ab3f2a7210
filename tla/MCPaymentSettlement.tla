------------------------ MODULE MCPaymentSettlement ------------------------
(***************************************************************************)
(* Instances of PaymentSettlement for TLC.                                 *)
(***************************************************************************)
EXTENDS PaymentSettlement, TLC

CONSTANTS a, b, p1, p2, r1, r2

OneOrder == [p \in Payments |-> a]
TwoAndOne == [p \in Payments |-> IF p = p1 THEN 2 ELSE 1]
Two == [p \in Payments |-> 2]
ForEach == [r \in Requests |-> IF r = r1 THEN p1 ELSE p2]
ForFirst == [r \in Requests |-> p1]
AskAll == [r \in Requests |-> 2]
AskOne == [r \in Requests |-> 1]

NoStatus == [p \in Payments |-> {}]
ByHand == [p \in Payments |-> IF p = p1 THEN {"processing", "refunded"} ELSE {}]
=============================================================================

----------------------- MODULE MCSupplierSettlement -----------------------
(***************************************************************************)
(* Instances of SupplierSettlement for TLC.                                *)
(***************************************************************************)
EXTENDS SupplierSettlement, TLC

CONSTANTS po1, po2, r1, r2

OfFirst == [r \in Refunds |-> po1]
Single == [o \in Obligations |-> 1]
Two == [o \in Obligations |-> 2]
One == [r \in Refunds |-> 1]
=============================================================================

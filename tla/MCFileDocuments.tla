-------------------------- MODULE MCFileDocuments --------------------------
(***************************************************************************)
(* Instances of FileDocuments for TLC.                                     *)
(***************************************************************************)
EXTENDS FileDocuments

CONSTANTS u1, u2, u3, k1, k2

SameKey == [u \in Uploads |-> k1]
TwoKeys == [u \in Uploads |-> IF u = u3 THEN k2 ELSE k1]
=============================================================================

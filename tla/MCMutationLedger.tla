-------------------------- MODULE MCMutationLedger --------------------------
(***************************************************************************)
(* Instances of MutationLedger for TLC.  Each key has a lock of its own;   *)
(* the theorems cover the hash collision that makes two keys share one.    *)
(***************************************************************************)
EXTENDS MutationLedger, TLC

CONSTANTS c1, c2, c3, k1, k2, l1, l2

OneLockPerKey == k1 :> l1 @@ k2 :> l2

(* Keys and fingerprints are interchangeable, so the first call's request  *)
(* may be fixed: every behaviour is one of these up to renaming.  The      *)
(* symmetry is broken by hand because TLC's is not sound for liveness.     *)
FirstRequest == req[c1] = [key |-> k1, print |-> "x"]
MCInit == Init /\ FirstRequest
MCSpec == MCInit /\ [][Next]_vars /\ Fairness
=============================================================================

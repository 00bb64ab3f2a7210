-------------------------------- MODULE Sums --------------------------------
(***************************************************************************)
(* Sums, as the program's queries take them: what a column adds up to over *)
(* the rows of a set.                                                      *)
(***************************************************************************)
EXTENDS FiniteSetsExt

Over(S, f) == MapThenSumSet(LAMBDA x : f[x], S)
=============================================================================

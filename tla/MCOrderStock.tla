---------------------------- MODULE MCOrderStock ----------------------------
(***************************************************************************)
(* Instances of OrderStock for TLC.  Lines are <<order, position>>.        *)
(***************************************************************************)
EXTENDS OrderStock, TLC

CONSTANTS a, b, p1, p2

OneLineEach == {<<a, 1>>, <<b, 1>>}
TwoAndOne == {<<a, 1>>, <<a, 2>>, <<b, 1>>}
TwoLines == {<<a, 1>>, <<a, 2>>}
OrderOfLine == [l \in Lines |-> l[1]]
SameItem == [l \in Lines |-> "bag"]
ItemPerLine == [l \in Lines |-> IF l[2] = 1 THEN "bag" ELSE "mug"]
Position == [l \in Lines |-> l[2]]
Ones == [l \in Lines |-> 1]
Two == [i \in Items |-> 2]

ProcSymmetry == Permutations(Procs)
=============================================================================

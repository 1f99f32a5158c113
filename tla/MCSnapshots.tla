----------------------------- MODULE MCSnapshots -----------------------------
(* Snapshots for TLC: headers that repeat a count, at another time, and     *)
(* count on.  Values are only compared, so any two are alike.               *)
EXTENDS Snapshots, TLC

SameCount == {<<1, 1>>, <<1, 2>>, <<2, 2>>}

ValueSymmetry == Permutations(Values)
=============================================================================

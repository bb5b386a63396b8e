---------------------------- MODULE MCHistoryVersions ----------------------------
(* A branch and its fork; a history and one that goes on from it with a        *)
(* compacted view; a rollout with two compactions, the first as a call saves   *)
(* it.                                                                         *)
EXTENDS HistoryVersions

CONSTANTS parent, child, k1, k2

\* The child is a fork of the parent.
ParentOf == parent :> Absent @@ child :> parent

H(original, view) == [kind \in Kinds |-> IF kind = "original" THEN original ELSE view]
Saved == {H(<<1>>, <<1>>), H(<<1, 2>>, <<3>>)}
Recoveries == {<<[item |-> k1, history |-> H(<<1, 2>>, <<3>>)],
                 [item |-> k2, history |-> H(<<1, 2, 3>>, <<4>>)]>>}
=============================================================================

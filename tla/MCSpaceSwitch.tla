--------------------------- MODULE MCSpaceSwitch ---------------------------
(* Small instances of SpaceSwitch: two Router revisions, the direct Codex  *)
(* settings and one hand-written variant of them.                          *)
EXTENDS SpaceSwitch, TLC
CONSTANTS r1, r2, direct, hand

\* r1 and r2 differ in more than the tool mode.
Distinct == {<<r1, r1>>, <<r2, r2>>}
\* r1 and r2 differ in the catalog tool mode alone.
Alike == {r1, r2} \X {r1, r2}
\* Nothing tells the two Router revisions apart.
Symmetry == Permutations({r1, r2})
=============================================================================

----------------------------- MODULE MCSpaceRevisions -----------------------------
(* One or two commands, three spaces, up to three revisions of two contents.  *)
EXTENDS SpaceRevisions
CONSTANTS p1, p2, o, d, work, x, y
=============================================================================

---------------------------- MODULE ExclusiveLock ----------------------------
(***************************************************************************)
(* What the callers of withFileLock rely on: one process at a time inside  *)
(* the callback, and a process that dies there does not keep others out.   *)
(***************************************************************************)
CONSTANTS Proc, None
VARIABLE holder

Init == holder = None

Acquire(p) == holder = None /\ holder' = p

\* The callback returned or threw, or the process died in it.
Leave == holder # None /\ holder' = None

Next == (\E p \in Proc : Acquire(p)) \/ Leave

Spec == Init /\ [][Next]_holder
=============================================================================

---------------------------- MODULE AtomicSwitch ----------------------------
(***************************************************************************)
(* What a user is promised of a space switch: one active revision, at most *)
(* one pending target, and a switch that happens in one step or not at     *)
(* all.  SpaceSwitch implements it file by file, through crashes.          *)
(***************************************************************************)
CONSTANTS Rev, Official, Protected, None
VARIABLES active, pending

Init == active \in Rev /\ pending = None

\* A second request is refused while one is pending.
Request(t) == pending = None /\ pending' = t /\ UNCHANGED active

\* Leaving official first records the direct settings as they are now.
Capture(r) == /\ pending = None /\ active \in Official
              /\ active' = r /\ UNCHANGED pending

Complete == pending # None /\ active' = pending /\ pending' = None

\* Cancelled, or given up by a rescue.
Abandon == pending # None /\ pending' = None /\ UNCHANGED active

Rescue == pending = None /\ active' = Protected /\ UNCHANGED pending

Next == \/ \E t \in Rev : Request(t)
        \/ \E r \in Official : Capture(r)
        \/ Complete \/ Abandon \/ Rescue

Spec == Init /\ [][Next]_<<active, pending>>
=============================================================================

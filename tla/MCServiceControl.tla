---------------------------- MODULE MCServiceControl ----------------------------
(* Who may stop the Router or change what it serves, each part by itself: the   *)
(* one-shot coordinator of a pending switch, and the drain before a restart.    *)
(* Two commands, two revisions, two begins and a restart of the machine; one    *)
(* HTTP and two WebSocket clients that compete for two turns, one drain of each *)
(* kind.                                                                        *)
EXTENDS SwitchCoordinator, GatewayDrain

CONSTANTS c1, c2, a, b, r1, r2, r3, w1, w2, u, s

VARIABLE machine

switching == <<machine, switcherVars>>
draining == <<machine, drainVars>>
all == <<switching, draining>>

SideInit ==
  /\ machine \in {"switcher", "drain"}
  /\ SwitcherInit /\ DrainInit
  /\ machine # "switcher" => appOpen /\ calm /\ active = a
  /\ machine # "drain" => issued = Switch

SideNext ==
  \/ machine = "switcher" /\ SwitcherNext /\ UNCHANGED draining
  \/ machine = "drain" /\ DrainNext /\ UNCHANGED switching

\* The fairness of both specifications; of a part that has not begun, nothing it
\* names is enabled.
SideSpec ==
  /\ SideInit /\ [][SideNext]_all
  /\ WF_switcherVars(Coordinate) /\ \A c \in Client : WF_switcherVars(CommandStep(c))
  /\ \A c \in Conn : WF_drainVars(Ends(c) \/ Forget(c))
=============================================================================

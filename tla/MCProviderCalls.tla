----------------------------- MODULE MCProviderCalls -----------------------------
(* What a turn goes through to be answered, each part by itself: the slots of  *)
(* its provider, one call of it, the filters of the answer and the requests of *)
(* a turn.  Three turns at providers with one or two slots and two reloads; an *)
(* answer of three chunks under a deadline of three ticks; two rounds of two   *)
(* items; three requests of a turn with two search rounds.                     *)
EXTENDS ProviderLimiter, Transport, ResponseStreams, TurnGeneration

CONSTANTS t1, t2, t3

VARIABLE machine

limits == <<machine, limiterVars>>
calls == <<machine, callVars>>
streams == <<machine, streamVars>>
turns == <<machine, turnVars>>
all == <<limits, calls, streams, turns>>

SideInit ==
  /\ machine \in {"limiter", "call", "stream", "turn"}
  /\ LimiterInit /\ CallInit /\ StreamInit /\ TurnInit
  /\ machine # "limiter" => config = 1 /\ barging
  /\ machine # "stream" => policy
  /\ machine # "turn" => mode = [entry |-> "api", searches |-> TRUE]

SideNext ==
  \/ machine = "limiter" /\ LimiterNext /\ UNCHANGED <<calls, streams, turns>>
  \/ machine = "call" /\ CallNext /\ UNCHANGED <<limits, streams, turns>>
  \/ machine = "stream" /\ StreamNext /\ UNCHANGED <<limits, calls, turns>>
  \/ machine = "turn" /\ TurnNext /\ UNCHANGED <<limits, calls, streams>>

\* The fairness of the four specifications; nothing it names is enabled in a part that
\* has not begun.
SideSpec ==
  /\ SideInit /\ [][SideNext]_all
  /\ \A t \in Turn : WF_limiterVars(Enter(t)) /\ WF_limiterVars(Release(t))
  /\ CallFairness
  /\ WF_turnVars(Step)
=============================================================================

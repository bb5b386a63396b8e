---------------------------- MODULE ProviderLimiter ----------------------------
(***************************************************************************)
(* The concurrency limit of one provider (src/providers.mjs): the Limiter  *)
(* class, the registry that replaces it when the configured maximum        *)
(* differs, and the calls of turns, each of which keeps the configuration  *)
(* it began with (src/engine.mjs).                                         *)
(***************************************************************************)
EXTENDS Naturals, FiniteSets, SequencesExt

CONSTANTS
  Turn,         \* turns, each with one provider call at a time
  Maximum,      \* values of the provider's concurrency setting
  MaxReloads, MaxLimiters      \* bounds of the exploration

ASSUME LimiterConstants ==
  /\ IsFiniteSet(Turn) /\ Maximum \subseteq Nat \ {0} /\ Maximum # {}
  /\ MaxReloads \in Nat /\ MaxLimiters \in Nat \ {0}

VARIABLES
  config,     \* the maximum in the configuration in force
  frozen,     \* the maximum in the configuration of each turn
  limiters,   \* every Limiter made so far; the registry holds the last one
  gate,       \* the Limiter each turn waits at or holds a slot of
  pc,
  reloads,
  barging     \* calls may run between a release and the waiter it has woken

limiterVars == <<config, frozen, limiters, gate, pc, reloads, barging>>

NewLimiter(m) == [limit |-> m, active |-> 0, waiters |-> <<>>]

LimiterInit ==
  /\ config \in Maximum
  /\ frozen = [t \in Turn |-> config]
  /\ limiters = <<NewLimiter(config)>>
  /\ gate = [t \in Turn |-> 1]
  /\ pc = [t \in Turn |-> "idle"]
  /\ reloads = 0
  /\ barging \in BOOLEAN

\* The code that runs next is not a microtask of a woken waiter.
MayRun == barging \/ \A t \in Turn : pc[t] # "woken"

\* SIGHUP.
Reload(m) ==
  /\ MayRun /\ reloads < MaxReloads /\ reloads' = reloads + 1
  /\ config' = m
  /\ UNCHANGED <<frozen, limiters, gate, pc, barging>>

\* The first request of a turn freezes the configuration for the others.
BeginTurn(t) ==
  /\ MayRun /\ pc[t] = "idle"
  /\ pc' = [pc EXCEPT ![t] = "ready"]
  /\ frozen' = [frozen EXCEPT ![t] = config]
  /\ UNCHANGED <<config, limiters, gate, reloads, barging>>

\* limiter(key, maximum).
Registry(m) ==
  IF limiters[Len(limiters)].limit = m THEN limiters
                                       ELSE Append(limiters, NewLimiter(m))

\* callProvider up to gate.acquire, without an await in between.
CallProvider(t) ==
  /\ MayRun /\ pc[t] = "ready"
  /\ LET now == Registry(frozen[t])
         g   == Len(now)
     IN /\ g <= MaxLimiters
        /\ gate' = [gate EXCEPT ![t] = g]
        /\ IF now[g].active < now[g].limit
           THEN /\ limiters' = [now EXCEPT ![g].active = @ + 1]
                /\ pc' = [pc EXCEPT ![t] = "holds"]
           ELSE /\ limiters' = [now EXCEPT ![g].waiters = Append(@, t)]
                /\ pc' = [pc EXCEPT ![t] = "waiting"]
  /\ UNCHANGED <<config, frozen, reloads, barging>>

\* The client went away: the waiter leaves the queue, or acquire throws at
\* once; the turn ends.
GiveUp(t) ==
  /\ MayRun
  /\ \/ pc[t] = "ready" /\ UNCHANGED limiters
     \/ /\ pc[t] = "waiting"
        /\ \E i \in 1..Len(limiters[gate[t]].waiters) :
             /\ limiters[gate[t]].waiters[i] = t
             /\ limiters' = [limiters EXCEPT ![gate[t]].waiters = RemoveAt(@, i)]
  /\ pc' = [pc EXCEPT ![t] = "idle"]
  /\ UNCHANGED <<config, frozen, gate, reloads, barging>>

Freed(n) == IF n > 0 THEN n - 1 ELSE 0

\* The place of the waiter that a release resolves; mutant: the latest one.
LatestIn(queue) == Len(queue)
NextIn(queue) == 1

\* The response body ends, is abandoned, or the call failed; the turn goes on
\* with another call or ends.
Release(t) ==
  /\ MayRun /\ pc[t] = "holds"
  /\ \E next \in {"ready", "idle"} :
       LET queue == limiters[gate[t]].waiters
       IN IF queue = <<>>
          THEN /\ limiters' = [limiters EXCEPT ![gate[t]].active = Freed(@)]
               /\ pc' = [pc EXCEPT ![t] = next]
          ELSE /\ limiters' = [limiters EXCEPT ![gate[t]].active = Freed(@),
                                               ![gate[t]].waiters = RemoveAt(@, NextIn(@))]
               /\ pc' = [pc EXCEPT ![t] = next, ![queue[NextIn(queue)]] = "woken"]
  /\ UNCHANGED <<config, frozen, gate, reloads, barging>>

\* Mutant of Enter: the woken waiter is not counted.
EnterUncounted(t) ==
  /\ pc[t] = "woken"
  /\ pc' = [pc EXCEPT ![t] = "holds"]
  /\ UNCHANGED <<config, frozen, limiters, gate, reloads, barging>>

\* The microtask of a resolved waiter.
Enter(t) ==
  /\ pc[t] = "woken"
  /\ limiters' = [limiters EXCEPT ![gate[t]].active = @ + 1]
  /\ pc' = [pc EXCEPT ![t] = "holds"]
  /\ UNCHANGED <<config, frozen, gate, reloads, barging>>

LimiterNext == \/ \E m \in Maximum : Reload(m)
        \/ \E t \in Turn : BeginTurn(t) \/ CallProvider(t) \/ GiveUp(t) \/ Release(t) \/ Enter(t)

LimiterSpec == LimiterInit /\ [][LimiterNext]_limiterVars
\* Microtasks run, and every provider call ends: transport has deadlines.
LimiterFairSpec == LimiterSpec /\ \A t \in Turn : WF_limiterVars(Enter(t)) /\ WF_limiterVars(Release(t))
-----------------------------------------------------------------------------
At(g, where) == {t \in Turn : gate[t] = g /\ pc[t] = where}

LimiterTypeOK ==
  /\ barging \in BOOLEAN /\ config \in Maximum /\ frozen \in [Turn -> Maximum] /\ reloads \in Nat
  /\ limiters \in Seq([limit : Maximum, active : Nat, waiters : Seq(Turn)])
  /\ gate \in [Turn -> 1..Len(limiters)]
  /\ pc \in [Turn -> {"idle", "ready", "waiting", "woken", "holds"}]

\* No more calls to the provider at once than its limit ("Each provider has a
\* concurrency limit", docs/public/architecture.md:53), as long as the limit is
\* not changed and woken waiters run first.
LimitHeld ==
  reloads = 0 /\ ~barging =>
    Cardinality({t \in Turn : pc[t] = "holds"}) <= config

\* The calls counted by one Limiter, and those it has woken, never exceed its own
\* limit, also while reloads replace it for other turns, if woken waiters run first.
EachLimitHeld ==
  ~barging => \A g \in 1..Len(limiters) :
                limiters[g].active + Cardinality(At(g, "woken")) <= limiters[g].limit

\* The counter of every Limiter, replaced ones included, is the number of calls
\* that hold a slot of it: none is given back twice or forgotten.
ActiveExact ==
  \A g \in 1..Len(limiters) : limiters[g].active = Cardinality(At(g, "holds"))

\* A call waits only while the slots of its Limiter are taken or handed over.
NoIdleSlot ==
  \A g \in 1..Len(limiters) : limiters[g].waiters # <<>> =>
    limiters[g].active + Cardinality(At(g, "woken")) >= limiters[g].limit

\* The limit, the count and the queue together, for every Limiter.
SlotsExact == LimiterTypeOK /\ LimitHeld /\ EachLimitHeld /\ ActiveExact /\ NoIdleSlot

\* Each waiting call is served, or its client goes away.
WaiterServed == \A t \in Turn : pc[t] = "waiting" ~> pc[t] # "waiting"
=============================================================================

---- MODULE OfficialRelay ----
(***************************************************************************)
(* The turns of one task that names its account and thread: official turns *)
(* are relayed as they are and observed on the side (official-relay.mjs,   *)
(* official-websocket.mjs, server.mjs), turns of other providers, and      *)
(* official ones built on what the Router made, go through the engine      *)
(* (engine.mjs).  A relayed turn is recorded by a queue of observations    *)
(* that the relay never waits for; a later turn of another provider does,  *)
(* for a while.  The history of a turn is the set of turns it was built    *)
(* on; a compaction item stands for the history it was made from.          *)
(***************************************************************************)
EXTENDS FiniteSets, Naturals, Sequences

CONSTANTS
  Turn,       \* the turns, and the ids of their responses
  Unknown,       \* no request, no record, no checkpoint, no predecessor
  Opaque,     \* a checkpoint without the original history
  Migrates,   \* whether targets ask for a summary of an opaque checkpoint
  MayRefuse   \* whether the archive's quota may refuse a write

\* What the state keeps of a response.
Record == [turns: SUBSET Turn, items: SUBSET Turn, relayed: BOOLEAN]

ASSUME RelayConstants ==
  /\ Unknown \notin Turn \cup Record
  /\ Opaque # Unknown
  /\ Migrates \in BOOLEAN
  /\ MayRefuse \in BOOLEAN

VARIABLES
  stage,    \* how far a turn is
  ask,      \* its request: target, predecessor, how it is named, transport
  truth,    \* the turns its conversation consists of, itself included
  input,    \* the history its request carries, or was replayed into it
  queue,    \* officialObservations of the account: observed turns, in order
  awaits,   \* the observations whose end a waiting turn waits for; a timer may end the wait before
  record,   \* the "response:" keys of the state
  point,    \* the "checkpoint:" keys of the state
  last,     \* the provider of the "last-target:" key
  seen      \* the turns whose completion the client has received

relayVars == <<stage, ask, truth, input, queue, awaits, record, point, last, seen>>

History == [turns: SUBSET Turn, items: SUBSET Turn]
Nothing == [turns |-> {}, items |-> {}]
Request == [to: {"official", "custom"}, from: Turn \cup {Unknown}, by: {"id", "item", "full"},
            compacts: BOOLEAN]
Observation == [turn: Turn, whole: BOOLEAN]

RelayTypeOK ==
  /\ stage \in [Turn -> {"idle", "ws", "told ws", "http", "told http", "wait", "engine", "done",
                       "done http", "failed"}]
  /\ ask \in [Turn -> Request \cup {Unknown}]
  /\ truth \in [Turn -> SUBSET Turn]
  /\ input \in [Turn -> History]
  /\ queue \in Seq(Observation)
  /\ awaits \in [Turn -> Nat]
  /\ record \in [Turn -> Record \cup {Unknown}]
  /\ point \in [Turn -> {Unknown, Opaque} \cup SUBSET Turn]
  /\ last \in {"none", "official", "custom"}
  /\ seen \subseteq Turn

RelayInit ==
  /\ stage = [t \in Turn |-> "idle"]
  /\ ask = [t \in Turn |-> Unknown]
  /\ truth = [t \in Turn |-> {}]
  /\ input = [t \in Turn |-> Nothing]
  /\ queue = <<>>
  /\ awaits = [t \in Turn |-> 0]
  /\ record = [t \in Turn |-> Unknown]
  /\ point = [t \in Turn |-> Unknown]
  /\ last = "none"
  /\ seen = {}

-----------------------------------------------------------------------------
(* Requests. *)

\* A client continues what it has seen: by the id of the response, by the compaction item the
\* response brought, or with the whole history in the input.
Requests ==
  {q \in [to: {"official", "custom"}, from: seen \cup {Unknown}, by: {"id", "item", "full"},
          compacts: BOOLEAN] :
     /\ q.by # "full" => q.from # Unknown
     /\ q.by = "item" => ask[q.from].compacts
     /\ q.to = "custom" => ~q.compacts}

Before(q) == IF q.from = Unknown THEN {} ELSE truth[q.from]

\* What the body of the request itself holds.
Carried(q) ==
  [turns |-> IF q.by = "full" THEN Before(q) ELSE {},
   items |-> IF q.by = "item" THEN {q.from} ELSE {}]

\* Mutant of NeedsEngine: only the last target is looked at, not who made the response.
NeedsEngineByTarget(q, long) == last = "custom" /\ long

\* officialRequestNeedsEngine: the response named was made by the Router, or the thread last ran
\* on another provider and the input looks like a history (it is long: several items, or a tool's).
NeedsEngine(q, long) ==
  \/ q.by = "id" /\ record[q.from] # Unknown /\ ~record[q.from].relayed
  \/ last = "custom" /\ long

\* What replay and expandCheckpoints make of a request: the record of the response it names, and
\* for a target of another provider every compaction item replaced by the history behind it.
Replayed(q) ==
  LET base == IF q.by = "id" THEN record[q.from] ELSE Nothing
      h == [turns |-> base.turns \cup Carried(q).turns, items |-> base.items \cup Carried(q).items]
      Behind(i) == IF point[i] = Opaque THEN truth[i] ELSE point[i]
  IN IF q.to = "official" THEN h
     ELSE [turns |-> h.turns \cup UNION {Behind(i) : i \in h.items}, items |-> {}]

\* The request can be replayed: its response is recorded, and every compaction item has a
\* checkpoint the target can use.
CanReplay(q) ==
  LET items == (IF q.by = "id" THEN record[q.from].items ELSE {}) \cup Carried(q).items
  IN /\ q.by = "id" => record[q.from] # Unknown
     /\ q.to = "custom" =>
          \A i \in items : point[i] # Unknown /\ (point[i] = Opaque => Migrates)

\* requireObservedHistory lets a request of another provider through.
Observed(q) ==
  /\ q.by = "id" => record[q.from] # Unknown
  /\ q.by = "item" => point[q.from] # Unknown

\* The engine takes the request, or refuses it with an error.
Admit(t, q) ==
  IF (q.to = "custom" => Observed(q)) /\ CanReplay(q)
  THEN /\ stage' = [stage EXCEPT ![t] = "engine"]
       /\ input' = [input EXCEPT ![t] = Replayed(q)]
  ELSE /\ stage' = [stage EXCEPT ![t] = "failed"]
       /\ UNCHANGED input

Asks(t, q) ==
  /\ stage[t] = "idle"
  /\ ask' = [ask EXCEPT ![t] = q]
  /\ truth' = [truth EXCEPT ![t] = Before(q) \cup {t}]

\* An official turn, over HTTP or a WebSocket: relayed unless it needs the engine.  (A compaction
\* made by the engine brings no item here.)
AskOfficial(t, q) ==
  /\ q.to = "official"
  /\ \E long \in BOOLEAN :
       /\ q.by # "id" /\ q.from # Unknown => long
       /\ Asks(t, [q EXCEPT !.compacts = @ /\ ~NeedsEngine(q, long)])
       /\ IF NeedsEngine(q, long)
          THEN Admit(t, q)
          ELSE /\ \E over \in {"ws", "http"} : stage' = [stage EXCEPT ![t] = over]
               /\ input' = [input EXCEPT ![t] = Carried(q)]
  /\ UNCHANGED <<queue, awaits, record, point, last, seen>>

\* The history named is not known yet, or names a checkpoint, and something is being observed.
Waits(q) ==
  /\ \/ q.by = "id" /\ record[q.from] = Unknown
     \/ q.by = "item"
  /\ queue # <<>>

\* How many observations it waits for; mutant: for the one that is running.
AwaitedFirst == 1
Awaited == Len(queue)

\* A turn of another provider: it waits for the observations that are queued now, once.
AskCustom(t, q) ==
  /\ q.to = "custom"
  /\ Asks(t, q)
  /\ IF Waits(q)
     THEN /\ stage' = [stage EXCEPT ![t] = "wait"]
          /\ awaits' = [awaits EXCEPT ![t] = Awaited]
          /\ UNCHANGED input
     ELSE Admit(t, q) /\ UNCHANGED awaits
  /\ UNCHANGED <<queue, record, point, last, seen>>

\* The observations have settled, or the timer was faster.
WaitEnds(t) ==
  /\ stage[t] = "wait"
  /\ Admit(t, ask[t])
  /\ awaits' = [awaits EXCEPT ![t] = 0]
  /\ UNCHANGED <<ask, truth, queue, record, point, last, seen>>

-----------------------------------------------------------------------------
(* The engine. *)

\* The response is recorded and the target remembered before the client is told.  A write the
\* quota refuses fails the turn.
EngineAnswers(t) ==
  /\ stage[t] = "engine"
  /\ record' = [record EXCEPT ![t] = [turns |-> input[t].turns \cup {t},
                                      items |-> input[t].items, relayed |-> FALSE]]
  /\ \/ /\ last' = ask[t].to
        /\ stage' = [stage EXCEPT ![t] = "done"]
        /\ seen' = seen \cup {t}
     \/ /\ MayRefuse
        /\ stage' = [stage EXCEPT ![t] = "failed"]
        /\ UNCHANGED <<last, seen>>
  /\ UNCHANGED <<ask, truth, input, queue, awaits, point>>

EngineFails(t) ==
  /\ stage[t] = "engine"
  /\ stage' = [stage EXCEPT ![t] = "failed"]
  /\ UNCHANGED <<ask, truth, input, queue, awaits, record, point, last, seen>>

-----------------------------------------------------------------------------
(* The relay. *)

Queued(t, whole) == queue' = Append(queue, [turn |-> t, whole |-> whole])

\* Over a WebSocket the terminal event is queued for observation before it is forwarded; over
\* HTTP the body is observed after its last chunk was written.
Observe(t) ==
  /\ \/ stage[t] = "ws" /\ stage' = [stage EXCEPT ![t] = "told ws"]
     \/ stage[t] = "told http" /\ stage' = [stage EXCEPT ![t] = "done http"]
  /\ Queued(t, TRUE)
  /\ UNCHANGED <<ask, truth, input, awaits, record, point, last, seen>>

Deliver(t) ==
  /\ \/ stage[t] = "http" /\ stage' = [stage EXCEPT ![t] = "told http"]
     \/ stage[t] = "told ws" /\ stage' = [stage EXCEPT ![t] = "done"]
  /\ seen' = seen \cup {t}
  /\ UNCHANGED <<ask, truth, input, queue, awaits, record, point, last>>

\* The connection to the backend or to the client breaks.  A WebSocket turn reports that it was
\* not observed, unless it was the client's end that failed; an HTTP turn reports nothing.
RelayFails(t) ==
  /\ stage[t] \in {"ws", "told ws", "http", "told http"}
  /\ stage' = [stage EXCEPT ![t] = "failed"]
  /\ \/ UNCHANGED queue
     \/ stage[t] = "ws" /\ Queued(t, FALSE)
  /\ UNCHANGED <<ask, truth, input, awaits, record, point, last, seen>>

\* The backend does not know the id of a response the Router has recorded: the turn is sent again
\* with the recorded history in place of the id.
Resend(t) ==
  /\ stage[t] = "ws"
  /\ ask[t].by = "id"
  /\ record[ask[t].from] # Unknown
  /\ ask' = [ask EXCEPT ![t].by = "full"]
  /\ input' = [input EXCEPT ![t] = [turns |-> record[ask[t].from].turns,
                                    items |-> record[ask[t].from].items]]
  /\ UNCHANGED <<stage, truth, queue, awaits, record, point, last, seen>>

-----------------------------------------------------------------------------
(* commitOfficialObservation, one call after the other. *)

\* The input the observed response was made from, or nothing when the response before
\* is unknown: such a response is not recorded.  Mutant: it is, without what came before.
CommitableAlways(t) == TRUE
Commitable(t) == ask[t].by = "id" => record[ask[t].from] # Unknown
FullInput(t) ==
  LET base == IF ask[t].by = "id" /\ record[ask[t].from] # Unknown THEN record[ask[t].from] ELSE Nothing
  IN [turns |-> base.turns \cup input[t].turns, items |-> base.items \cup input[t].items]

\* A compaction replaces the window: the record starts over from its item.
Recorded(t) ==
  IF ask[t].compacts
  THEN [turns |-> {}, items |-> {t}, relayed |-> TRUE]
  ELSE [turns |-> FullInput(t).turns \cup {t}, items |-> FullInput(t).items, relayed |-> TRUE]

\* The original behind a new checkpoint, when every checkpoint it rests on has one.
Original(t) ==
  LET h == FullInput(t)
  IN IF \E i \in h.items : point[i] \in {Unknown, Opaque}
     THEN Opaque
     ELSE {t} \cup h.turns \cup UNION {point[i] : i \in h.items}

Settled == awaits' = [t \in Turn |-> IF awaits[t] > 0 THEN awaits[t] - 1 ELSE 0]

\* The stages of a commit the quota may stop at: the response, its checkpoint, the last target.
StoredUpTo(t, upTo) ==
  /\ record' = IF upTo >= 1 THEN [record EXCEPT ![t] = Recorded(t)] ELSE record
  /\ point' = IF upTo >= 2 /\ ask[t].compacts THEN [point EXCEPT ![t] = Original(t)] ELSE point
  /\ last' = IF upTo >= 3 /\ ~ask[t].compacts THEN "official" ELSE last

\* How much of a commit is stored: all of it, or nothing when what was seen of the response cannot
\* be read as a whole; the quota may stop it in between.
Kept == {0, 3} \cup (IF MayRefuse THEN {1, 2} ELSE {})

Commit ==
  /\ queue # <<>>
  /\ LET t == Head(queue).turn
     IN IF Head(queue).whole /\ Commitable(t)
        THEN \E upTo \in Kept : StoredUpTo(t, upTo)
        ELSE UNCHANGED <<record, point, last>>
  /\ queue' = Tail(queue)
  /\ Settled
  /\ UNCHANGED <<stage, ask, truth, input, seen>>

RelayNext ==
  \/ \E t \in Turn : \E q \in Requests : AskOfficial(t, q) \/ AskCustom(t, q)
  \/ \E t \in Turn :
       \/ WaitEnds(t)
       \/ EngineAnswers(t)
       \/ EngineFails(t)
       \/ Observe(t)
       \/ Deliver(t)
       \/ RelayFails(t)
       \/ Resend(t)
  \/ Commit

RelaySpec == RelayInit /\ [][RelayNext]_relayVars

-----------------------------------------------------------------------------
(* Properties. *)

\* What is recorded of a turn is the conversation it was made in, whatever the order in which
\* responses were observed, and so is the original behind each checkpoint: no commit joins a
\* response to a history it was not built on (commitOfficialObservation, requireObservedHistory).
HistoryTrue ==
  /\ RelayTypeOK
  /\ \A t \in Turn :
       /\ record[t] # Unknown =>
            truth[t] = record[t].turns \cup UNION {truth[i] : i \in record[t].items}
       /\ point[t] \notin {Unknown, Opaque} => point[t] = truth[t]

\* Architecture: ids the Router made are never sent to the official backend.  As long as requests
\* name what they continue, a turn that is relayed as it is was built on relayed turns only.
RelayedPure ==
  \A t \in Turn :
    /\ stage[t] \in {"ws", "http"}
    /\ \A a \in truth[t] :
         ask[a].by = "full" => \A b \in input[a].turns : ask[b].to = "official"
    => \A a \in truth[t] : ask[a].to = "official"

\* A turn that waits waits for the observation it needs: a response that a client has seen over a
\* WebSocket is in the queue before it is seen (OfficialWebSocketSession.receive), and the task
\* that was last when the turn asked is not before it.
WaitCovers ==
  \A t \in Turn : \A i \in DOMAIN queue :
    stage[t] = "wait" /\ queue[i].turn = ask[t].from /\ stage[ask[t].from] # "done http"
      => i <= awaits[t]

\* Architecture: a switch to another provider waits for the bounded commit "even when the client
\* omits previous_response_id": it does not reach the engine at once while the turn it continues
\* is still to be observed.
SwitchWaits ==
  [][\A t \in Turn :
       stage[t] = "idle" /\ stage'[t] = "engine" /\ ask'[t].to = "custom"
         => \A i \in DOMAIN queue : queue[i].turn # ask'[t].from]_relayVars
====

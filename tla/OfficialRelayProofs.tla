-------------------------- MODULE OfficialRelayProofs --------------------------
(* Theorems of OfficialRelay, for any number of turns: what is recorded of a    *)
(* turn is the conversation it was made in, a relayed turn is built on relayed  *)
(* turns, and a turn that waits waits long enough.                              *)
EXTENDS OfficialRelay, TLAPS

Asked == {t \in Turn : stage[t] # "idle"}
Relaying == {"ws", "told ws", "http", "told http"}

\* The turns a history stands for.
HeldIn(tr, h) == h.turns \cup UNION {tr[i] : i \in h.items}

\* A client knows what it names, a turn stands on what clients have seen, and
\* nothing is kept of a turn that nobody has asked for.
Placed(t) ==
  /\ stage[t] # "idle" =>
       /\ ask[t] \in Request
       /\ ask[t].from \in seen \cup {Unknown}
       /\ ask[t].by # "full" => ask[t].from \in seen
  /\ stage[t] = "idle" => record[t] = Unknown /\ point[t] = Unknown /\ truth[t] = {}
  /\ t \in seen => stage[t] \in {"told http", "done", "done http", "failed"}
  /\ truth[t] \subseteq seen \cup {t}
  /\ input[t].turns \cup input[t].items \subseteq Asked
  /\ record[t] # Unknown => record[t].turns \cup record[t].items \subseteq Asked

\* A turn that is relayed as it is consists of itself, what its request holds and, when
\* the request names a response by its id, the conversation of that.
Built(t) ==
  truth[t] = {t} \cup HeldIn(truth, input[t]) \cup (IF ask[t].by = "id" THEN truth[ask[t].from] ELSE {})

Whole(t) ==
  /\ stage[t] \in Relaying => Built(t)
  /\ stage[t] = "ws" /\ ask[t].by = "id" => input[t] = Nothing
  /\ stage[t] = "engine" => truth[t] = {t} \cup HeldIn(truth, input[t])
  /\ stage[t] = "wait" => truth[t] = {t} \cup Before(ask[t])
  /\ record[t] # Unknown => truth[t] = HeldIn(truth, record[t])
  /\ point[t] \notin {Unknown, Opaque} => point[t] = truth[t]

\* Nothing of the turn was made by the engine, as far as its requests tell.
NotMade(t) == record[t] = Unknown \/ record[t].relayed
Pure(t) ==
  (\A a \in truth[t] : ask[a].by = "full" => \A b \in input[a].turns : ask[b].to = "official")
    => \A a \in truth[t] : ask[a].to = "official"

Clean(t) ==
  /\ stage[t] \in Relaying => NotMade(t) /\ Pure(t)
  /\ t \in seen /\ NotMade(t) => Pure(t)
  /\ stage[t] # "idle" /\ ask[t].compacts => NotMade(t) /\ stage[t] \notin {"wait", "engine"}

\* A turn whose whole answer waits to be observed has left the connection it came over.
InQueue(i) ==
  queue[i].whole =>
    /\ stage[queue[i].turn] \in {"told ws", "done", "done http", "failed"}
    /\ Built(queue[i].turn)
    /\ NotMade(queue[i].turn)

IInv ==
  /\ RelayTypeOK
  /\ \A t \in Turn : Placed(t) /\ Whole(t) /\ Clean(t)
  /\ \A i \in DOMAIN queue : InQueue(i)
  /\ WaitCovers

LEMMA AppendedIs ==
  ASSUME NEW S, NEW q \in Seq(S), NEW e \in S
  PROVE  /\ Append(q, e) \in Seq(S)
         /\ \A i \in DOMAIN Append(q, e) :
              \/ i \in DOMAIN q /\ Append(q, e)[i] = q[i]
              \/ i \notin DOMAIN q /\ Append(q, e)[i] = e
OBVIOUS

LEMMA QueueHolds ==
  ASSUME RelayTypeOK PROVE \A i \in DOMAIN queue : queue[i] \in Observation /\ queue[i].turn \in Turn
<1>1. queue \in Seq(Observation)
  BY DEF RelayTypeOK
<1>2. \A i \in DOMAIN queue : queue[i] \in Observation
  BY <1>1
<1> QED
  BY <1>2 DEF Observation

LEMMA InitInv == RelayInit => IInv
BY RelayConstants DEF RelayInit, IInv, RelayTypeOK, Placed, Whole, Clean, InQueue, WaitCovers, Built,
   Pure, NotMade, Asked, Relaying, Nothing, History

\* What a step leaves alone when it only moves turns and the queue.
kept == <<ask, truth, input, awaits, record, point, last>>

LEMMA MovesKeep ==
  ASSUME IInv, NEW t \in Turn, Observe(t) \/ Deliver(t) \/ RelayFails(t) \/ EngineFails(t)
  PROVE  IInv'
<1> DEFINE onto == stage'[t]
<1>1. /\ UNCHANGED kept
      /\ stage[t] \in {"ws", "told ws", "http", "told http", "engine"}
      /\ stage' = [stage EXCEPT ![t] = onto]
      /\ \/ stage[t] = "ws" /\ onto = "told ws" /\ seen' = seen
         \/ stage[t] = "told http" /\ onto = "done http" /\ seen' = seen
         \/ stage[t] = "http" /\ onto = "told http" /\ seen' = seen \cup {t}
         \/ stage[t] = "told ws" /\ onto = "done" /\ seen' = seen \cup {t}
         \/ onto = "failed" /\ seen' = seen
  BY DEF IInv, RelayTypeOK, Observe, Deliver, RelayFails, EngineFails, kept
<1>2. \/ queue' = queue
      \/ \E whole \in BOOLEAN :
           /\ queue' = Append(queue, [turn |-> t, whole |-> whole])
           /\ whole => onto \in {"told ws", "done http"} /\ stage[t] \in {"ws", "told http"}
           /\ stage[t] \in {"ws", "told http"}
           /\ stage[t] = "told http" => onto = "done http"
  BY DEF IInv, RelayTypeOK, Observe, Deliver, RelayFails, EngineFails, Queued
<1>20. /\ queue' \in Seq(Observation)
      /\ \A i \in DOMAIN queue' :
           \/ i \in DOMAIN queue /\ queue'[i] = queue[i]
           \/ /\ queue'[i].turn = t
              /\ queue'[i].whole => onto \in {"told ws", "done http"}
              /\ stage[t] \in {"ws", "told http"}
              /\ stage[t] = "told http" => onto = "done http"
  <2>1. queue \in Seq(Observation)
    BY DEF IInv, RelayTypeOK
  <2>2. CASE queue' = queue
    BY <2>1, <2>2
  <2>3. CASE queue' # queue
    <3>1. PICK whole \in BOOLEAN :
           /\ queue' = Append(queue, [turn |-> t, whole |-> whole])
           /\ whole => onto \in {"told ws", "done http"} /\ stage[t] \in {"ws", "told http"}
           /\ stage[t] \in {"ws", "told http"}
           /\ stage[t] = "told http" => onto = "done http"
      BY <1>2, <2>3
    <3> DEFINE e == [turn |-> t, whole |-> whole]
    <3>2. e \in Observation
      BY DEF Observation
    <3>3. /\ Append(queue, e) \in Seq(Observation)
          /\ \A i \in DOMAIN Append(queue, e) :
               \/ i \in DOMAIN queue /\ Append(queue, e)[i] = queue[i]
               \/ i \notin DOMAIN queue /\ Append(queue, e)[i] = e
      <4> HIDE DEF e
      <4> QED
        BY <2>1, <3>2, AppendedIs
    <3>4. e.turn = t /\ e.whole = whole
      OBVIOUS
    <3> HIDE DEF e
    <3>5. queue' = Append(queue, e)
      BY <3>1 DEF e
    <3> QED
      BY <3>1, <3>3, <3>4, <3>5
  <2> QED
    BY <2>2, <2>3
<1>3. RelayTypeOK'
  <2>1. queue' \in Seq(Observation)
    BY <1>20
  <2> QED
    BY <1>1, <2>1 DEF IInv, RelayTypeOK, kept
<1>4. Asked' = Asked
  BY <1>1 DEF IInv, RelayTypeOK, Asked
<1>5. ASSUME NEW u \in Turn PROVE Placed(u)'
  <2>1. Placed(u) /\ UNCHANGED <<ask, truth, input, record, point>>
    BY <1>1 DEF IInv, kept
  <2>2. stage'[u] = IF u = t THEN onto ELSE stage[u]
    BY <1>1 DEF IInv, RelayTypeOK
  <2>3. seen \subseteq seen' /\ seen' \subseteq seen \cup {t}
    BY <1>1
  <2>4. u \in seen' => stage'[u] \in {"told http", "done", "done http", "failed"}
    BY <1>1, <2>1, <2>2 DEF Placed
  <2>5. (stage'[u] = "idle") = (stage[u] = "idle")
    BY <1>1, <2>2
  <2> QED
    BY <2>1, <2>3, <2>4, <2>5, <1>4 DEF Placed
<1>6. ASSUME NEW u \in Turn PROVE Built(u)' <=> Built(u)
  <2>1. truth' = truth /\ ask' = ask /\ input' = input
    BY <1>1 DEF kept
  <2> QED
    BY <2>1 DEF Built
<1>7. ASSUME NEW u \in Turn PROVE Whole(u)'
  <2>1. Whole(u) /\ UNCHANGED <<ask, truth, input, record, point>>
    BY <1>1 DEF IInv, kept
  <2>2. /\ stage'[u] \in Relaying => stage[u] \in Relaying
        /\ stage'[u] \in {"ws", "engine", "wait"} => stage'[u] = stage[u]
    BY <1>1 DEF IInv, RelayTypeOK, Relaying
  <2>3. Before(ask[u])' = Before(ask[u])
    BY <2>1 DEF Before
  <2> QED
    BY <2>1, <2>2, <2>3, <1>6 DEF Whole
<1>8. ASSUME NEW u \in Turn PROVE (Pure(u)' <=> Pure(u)) /\ (NotMade(u)' <=> NotMade(u))
  BY <1>1 DEF Pure, NotMade, kept
<1>9. ASSUME NEW u \in Turn PROVE Clean(u)'
  BY <1>1, <1>8 DEF IInv, RelayTypeOK, Clean, kept, Relaying
<1>10. ASSUME NEW i \in DOMAIN queue' PROVE InQueue(i)'
  <2>1. CASE i \in DOMAIN queue /\ queue'[i] = queue[i]
    <3>1. queue[i].turn \in Turn /\ InQueue(i)
      BY <2>1, QueueHolds DEF IInv, Observation
    <3>2. queue[i].whole => stage[queue[i].turn] \in {"told ws", "done", "done http", "failed"}
      BY <3>1 DEF InQueue
    <3>3. queue[i].whole => stage'[queue[i].turn] \in {"told ws", "done", "done http", "failed"}
      BY <3>1, <3>2, <1>1 DEF IInv, RelayTypeOK
    <3> QED
      BY <2>1, <3>1, <3>3, <1>6, <1>8 DEF InQueue
  <2>2. CASE ~(i \in DOMAIN queue /\ queue'[i] = queue[i])
    <3>1. queue'[i].turn = t /\ (queue'[i].whole => onto \in {"told ws", "done http"})
      BY <1>20, <2>2
    <3> QED
      BY <3>1, <1>1, <1>6, <1>8 DEF InQueue, IInv, RelayTypeOK, Whole, Clean, Relaying
  <2> QED
    BY <2>1, <2>2
<1>11. WaitCovers'
  <2> SUFFICES ASSUME NEW u \in Turn, NEW i \in DOMAIN queue',
                      stage'[u] = "wait", queue'[i].turn = ask'[u].from, stage'[ask'[u].from] # "done http"
               PROVE  i <= awaits'[u]
    BY DEF WaitCovers
  <2>1. stage[u] = "wait" /\ Placed(u) /\ ask[u] \in Request /\ ask'[u] = ask[u] /\ awaits'[u] = awaits[u]
    BY <1>1 DEF IInv, RelayTypeOK, kept, Placed
  <2>2. CASE i \in DOMAIN queue /\ queue'[i] = queue[i]
    <3>1. queue[i].turn \in Turn
      BY <2>2, QueueHolds DEF IInv, Observation
    <3>2. stage'[queue[i].turn] = IF queue[i].turn = t THEN onto ELSE stage[queue[i].turn]
      BY <3>1, <1>1 DEF IInv, RelayTypeOK
    <3>3. stage[ask[u].from] # "done http" /\ queue[i].turn = ask[u].from
      BY <3>2, <2>1, <2>2, <1>1
    <3> QED
      BY <3>3, <2>1, <2>2 DEF IInv, WaitCovers
  <2>3. CASE ~(i \in DOMAIN queue /\ queue'[i] = queue[i])
    <3>1. queue'[i].turn = t /\ stage[t] \in {"ws", "told http"} /\ (stage[t] = "told http" => onto = "done http")
      BY <1>20, <2>3
    <3>2. t \in seen
      BY <3>1, <2>1, RelayConstants DEF Placed
    <3> QED
      BY <3>1, <3>2, <2>1, <1>1 DEF IInv, RelayTypeOK, Placed
  <2> QED
    BY <2>2, <2>3
<1> QED
  BY <1>3, <1>5, <1>7, <1>9, <1>10, <1>11 DEF IInv

LEMMA AnswersKeep ==
  ASSUME IInv, NEW t \in Turn, EngineAnswers(t)
  PROVE  IInv'
<1> DEFINE r == [turns |-> input[t].turns \cup {t}, items |-> input[t].items, relayed |-> FALSE]
<1>1. /\ UNCHANGED <<ask, truth, input, queue, awaits, point>>
      /\ stage[t] = "engine" /\ stage' = [stage EXCEPT ![t] = stage'[t]]
      /\ stage'[t] \in {"done", "failed"}
      /\ record' = [record EXCEPT ![t] = r]
      /\ seen' \in {seen, seen \cup {t}}
      /\ last' \in {last, ask[t].to}
  BY DEF IInv, RelayTypeOK, EngineAnswers
<1>2. Placed(t) /\ Whole(t) /\ Clean(t) /\ t \in Asked /\ ask[t] \in Request /\ input[t] \in History
  BY <1>1 DEF IInv, RelayTypeOK, Placed, Asked
<1>3. /\ r \in Record /\ r # Unknown /\ ~r.relayed
      /\ r.turns \cup r.items \subseteq Asked
  <2>1. input[t].turns \in SUBSET Turn /\ input[t].items \in SUBSET Turn
    BY <1>2 DEF History
  <2>2. r \in Record
    BY <2>1 DEF Record
  <2>3. Unknown \notin Record
    BY RelayConstants
  <2>4. r.turns = input[t].turns \cup {t} /\ r.items = input[t].items
    OBVIOUS
  <2> QED
    BY <2>2, <2>3, <2>4, <1>2 DEF Placed
<1>4. HeldIn(truth, r) = truth[t]
  BY <1>1, <1>2 DEF Whole, HeldIn
<1> HIDE DEF r
<1>5. Asked' = Asked
  BY <1>1 DEF IInv, RelayTypeOK, Asked
<1>6. ASSUME NEW u \in Turn
      PROVE  /\ stage'[u] = IF u = t THEN stage'[t] ELSE stage[u]
             /\ record'[u] = IF u = t THEN r ELSE record[u]
  BY <1>1 DEF IInv, RelayTypeOK
<1>7. RelayTypeOK'
  BY <1>1, <1>2, <1>3 DEF IInv, RelayTypeOK, Request
<1>8. ASSUME NEW u \in Turn PROVE Placed(u)'
  <2>1. Placed(u) /\ seen \subseteq seen' /\ seen' \subseteq seen \cup {t}
    BY <1>1 DEF IInv
  <2>2. /\ stage'[u] = "idle" <=> stage[u] = "idle"
        /\ u \in seen' => stage'[u] \in {"told http", "done", "done http", "failed"}
    BY <2>1, <1>1, <1>6 DEF Placed
  <2>3. record'[u] # Unknown => record'[u].turns \cup record'[u].items \subseteq Asked
    BY <2>1, <1>3, <1>6 DEF Placed
  <2>4. stage[u] = "idle" => u # t
    BY <1>1
  <2> QED
    BY <2>1, <2>2, <2>3, <2>4, <1>1, <1>5, <1>6 DEF Placed
<1>9. ASSUME NEW u \in Turn PROVE Whole(u)'
  <2>1. Whole(u) /\ Built(u)' = Built(u) /\ Before(ask[u])' = Before(ask[u])
    BY <1>1 DEF IInv, Built, Before
  <2> QED
    BY <2>1, <1>1, <1>4, <1>6 DEF Whole, Relaying
<1>10. ASSUME NEW u \in Turn PROVE Clean(u)'
  <2>1. Clean(u) /\ Pure(u)' = Pure(u)
    BY <1>1 DEF IInv, Pure
  <2> QED
    BY <2>1, <1>1, <1>2, <1>3, <1>6 DEF Clean, NotMade, Relaying
<1>11. ASSUME NEW i \in DOMAIN queue' PROVE InQueue(i)'
  <2>1. InQueue(i) /\ queue[i].turn \in Turn /\ queue' = queue /\ Built(queue[i].turn)' = Built(queue[i].turn)
    BY <1>1, QueueHolds DEF IInv, Built
  <2> QED
    BY <2>1, <1>1, <1>6 DEF InQueue, NotMade
<1>12. WaitCovers'
  BY <1>1, <1>6, QueueHolds DEF IInv, WaitCovers
<1> QED
  BY <1>7, <1>8, <1>9, <1>10, <1>11, <1>12 DEF IInv

\* A turn that is sent again names no response: it carries the history itself.
LEMMA ResendKeeps ==
  ASSUME IInv, NEW t \in Turn, Resend(t)
  PROVE  IInv'
<1> DEFINE f == ask[t].from
           h == [turns |-> record[f].turns, items |-> record[f].items]
<1>1. /\ UNCHANGED <<stage, truth, queue, awaits, record, point, last, seen>>
      /\ stage[t] = "ws" /\ ask[t].by = "id" /\ record[f] # Unknown
      /\ ask' = [ask EXCEPT ![t].by = "full"]
      /\ input' = [input EXCEPT ![t] = h]
  BY DEF Resend
<1>2. Placed(t) /\ Whole(t) /\ Built(t) /\ Clean(t) /\ ask[t] \in Request
  BY <1>1 DEF IInv, Placed, Whole, Relaying
<1>3. f \in Turn /\ f \in seen /\ record[f] \in Record /\ Placed(f) /\ Whole(f)
  <2>1. f \in seen /\ seen \subseteq Turn
    BY <1>1, <1>2 DEF IInv, RelayTypeOK, Placed
  <2>2. f \in Turn
    BY <2>1
  <2> QED
    BY <2>1, <2>2, <1>1 DEF IInv, RelayTypeOK
<1>4. /\ h \in History /\ h.turns \cup h.items \subseteq Asked
      /\ HeldIn(truth, h) = truth[f]
  BY <1>1, <1>3 DEF Record, History, Placed, Whole, HeldIn
<1>5. HeldIn(truth, input[t]) = {}
  BY <1>1, <1>2 DEF Whole, Nothing, HeldIn
<1>6. truth[t] = {t} \cup HeldIn(truth, h)
  BY <1>1, <1>2, <1>4, <1>5 DEF Built
<1> HIDE DEF h
<1>7. ASSUME NEW u \in Turn
      PROVE  /\ u # t => ask'[u] = ask[u] /\ input'[u] = input[u]
             /\ u = t => /\ ask'[u] \in Request /\ ask'[u].by = "full" /\ ask'[u].to = ask[u].to
                         /\ ask'[u].from = f /\ ask'[u].compacts = ask[u].compacts
                         /\ input'[u] = h
  <2>1. [ask[t] EXCEPT !.by = "full"] \in Request
    BY <1>2 DEF Request
  <2>2. ask' = [ask EXCEPT ![t] = [ask[t] EXCEPT !.by = "full"]]
    BY <1>1
  <2>3. u = t => ask'[u] = [ask[t] EXCEPT !.by = "full"]
    BY <2>2 DEF IInv, RelayTypeOK
  <2> QED
    BY <2>1, <2>2, <2>3, <1>1, <1>2 DEF IInv, RelayTypeOK, Request
<1>8. RelayTypeOK'
  <2>1. ask' \in [Turn -> Request \cup {Unknown}]
    BY <1>1, <1>7 DEF IInv, RelayTypeOK
  <2> QED
    BY <2>1, <1>1, <1>4 DEF IInv, RelayTypeOK
<1>9. Asked' = Asked
  BY <1>1 DEF Asked
<1>10. ASSUME NEW u \in Turn PROVE Placed(u)'
  <2>1. Placed(u) /\ UNCHANGED <<stage, truth, record, point, seen>>
    BY <1>1 DEF IInv
  <2>2. input'[u].turns \cup input'[u].items \subseteq Asked
    BY <2>1, <1>4, <1>7 DEF Placed
  <2>3. stage[u] # "idle" => ask'[u] \in Request /\ ask'[u].from \in seen \cup {Unknown}
                             /\ (ask'[u].by # "full" => ask'[u].from \in seen)
    BY <2>1, <1>3, <1>7 DEF Placed
  <2> QED
    BY <2>1, <2>2, <2>3, <1>9 DEF Placed
<1>11. ASSUME NEW u \in Turn, u # t PROVE Built(u)' = Built(u) /\ Before(ask[u])' = Before(ask[u])
  BY <1>1, <1>7, <1>11 DEF Built, Before
<1>12. Built(t)'
  BY <1>1, <1>6, <1>7 DEF Built
<1>13. ASSUME NEW u \in Turn PROVE Whole(u)'
  <2>1. CASE u = t
    BY <2>1, <1>1, <1>2, <1>7, <1>12 DEF Whole
  <2>2. CASE u # t
    BY <2>2, <1>1, <1>7, <1>11 DEF IInv, Whole
  <2> QED
    BY <2>1, <2>2
<1>14. ASSUME NEW u \in Turn, Pure(u) PROVE Pure(u)'
  <2>1. truth' = truth /\ truth[u] \subseteq Turn /\ \A a \in Turn : ask'[a].to = ask[a].to
    BY <1>1, <1>7 DEF IInv, RelayTypeOK
  <2>2. \A a \in Turn : ask[a].by = "full" => ask'[a].by = "full" /\ input'[a] = input[a]
    BY <1>1, <1>7
  <2>3. \A a \in Turn : input[a].turns \subseteq Turn
    BY DEF IInv, RelayTypeOK, History
  <2> QED
    BY <2>1, <2>2, <2>3, <1>14 DEF Pure
<1>15. ASSUME NEW u \in Turn PROVE Clean(u)'
  BY <1>1, <1>7, <1>14 DEF IInv, Clean, NotMade
<1>16. ASSUME NEW i \in DOMAIN queue' PROVE InQueue(i)'
  <2>1. InQueue(i) /\ queue[i].turn \in Turn /\ queue' = queue
    BY <1>1, QueueHolds DEF IInv
  <2> QED
    BY <2>1, <1>1, <1>11 DEF InQueue, NotMade
<1>17. WaitCovers'
  BY <1>1, <1>7 DEF IInv, WaitCovers
<1> QED
  BY <1>8, <1>10, <1>13, <1>15, <1>16, <1>17 DEF IInv

\* What a commit puts together is the conversation of the turn.
LEMMA FullIsWhole ==
  ASSUME IInv, NEW t \in Turn, t \in Asked, Built(t), Commitable(t)
  PROVE  /\ FullInput(t).turns \cup FullInput(t).items \subseteq Asked
         /\ truth[t] = {t} \cup HeldIn(truth, FullInput(t))
<1> DEFINE f == ask[t].from
<1>1. Placed(t) /\ ask[t] \in Request
  BY DEF IInv, Placed, Asked
<1>2. CASE ask[t].by = "id"
  <2>1. f \in seen /\ seen \subseteq Turn
    BY <1>1, <1>2 DEF IInv, RelayTypeOK, Placed, Asked
  <2>2. f \in Turn
    BY <2>1
  <2>3. record[f] # Unknown /\ Placed(f) /\ Whole(f)
    BY <1>2, <2>2 DEF IInv, Commitable
  <2>4. /\ FullInput(t).turns = record[f].turns \cup input[t].turns
        /\ FullInput(t).items = record[f].items \cup input[t].items
    BY <1>2, <2>3 DEF FullInput
  <2>5. HeldIn(truth, FullInput(t)) = HeldIn(truth, record[f]) \cup HeldIn(truth, input[t])
    BY <2>4 DEF HeldIn
  <2>6. HeldIn(truth, record[f]) = truth[f]
    BY <2>3 DEF Whole
  <2>7. truth[t] = {t} \cup HeldIn(truth, input[t]) \cup truth[f]
    BY <1>2 DEF Built
  <2> QED
    BY <1>1, <2>3, <2>4, <2>5, <2>6, <2>7 DEF Placed
<1>3. CASE ask[t].by # "id"
  <2>1. FullInput(t).turns = input[t].turns /\ FullInput(t).items = input[t].items
    BY <1>3 DEF FullInput, Nothing
  <2>2. HeldIn(truth, FullInput(t)) = HeldIn(truth, input[t])
    BY <2>1 DEF HeldIn
  <2> QED
    BY <1>1, <1>3, <2>1, <2>2 DEF Placed, Built
<1> QED
  BY <1>2, <1>3

\* So are the record and the original behind a checkpoint that it stores.
LEMMA StoredIsWhole ==
  ASSUME IInv, NEW t \in Turn, t \in Asked, Built(t), Commitable(t)
  PROVE  /\ Recorded(t) \in Record /\ Recorded(t) # Unknown /\ Recorded(t).relayed
         /\ Recorded(t).turns \cup Recorded(t).items \subseteq Asked
         /\ HeldIn(truth, Recorded(t)) = truth[t]
         /\ Original(t) \in {Unknown, Opaque} \cup SUBSET Turn
         /\ Original(t) \notin {Unknown, Opaque} => Original(t) = truth[t]
<1> DEFINE h == FullInput(t)
<1>1. h.turns \cup h.items \subseteq Asked /\ truth[t] = {t} \cup HeldIn(truth, h)
  BY FullIsWhole
<1>2. Asked \subseteq Turn /\ truth[t] \subseteq Turn
  BY DEF Asked, IInv, RelayTypeOK
<1>3. Recorded(t) \in Record
  BY <1>1, <1>2 DEF Recorded, Record
<1>4. Recorded(t) # Unknown
  BY <1>3, RelayConstants
<1>5. Recorded(t).relayed /\ Recorded(t).turns \cup Recorded(t).items \subseteq Asked
  BY <1>1 DEF Recorded
<1>6. HeldIn(truth, Recorded(t)) = truth[t]
  <2>1. CASE ask[t].compacts
    BY <2>1 DEF Recorded, HeldIn
  <2>2. CASE ~ask[t].compacts
    BY <2>2, <1>1 DEF Recorded, HeldIn
  <2> QED
    BY <2>1, <2>2
<1>7. Original(t) = Opaque \/ Original(t) = truth[t]
  <2>1. CASE \E i \in h.items : point[i] \in {Unknown, Opaque}
    BY <2>1 DEF Original
  <2>2. CASE ~\E i \in h.items : point[i] \in {Unknown, Opaque}
    <3>1. \A i \in h.items : point[i] = truth[i]
      BY <2>2, <1>1, <1>2 DEF IInv, Whole
    <3>2. Original(t) = {t} \cup h.turns \cup UNION {point[i] : i \in h.items}
      BY <2>2 DEF Original
    <3>3. UNION {point[i] : i \in h.items} = UNION {truth[i] : i \in h.items}
      BY <3>1
    <3> DEFINE U == UNION {point[i] : i \in h.items}
               V == h.turns
    <3>4. Original(t) = {t} \cup V \cup U
      BY <3>2
    <3>5. HeldIn(truth, h) = V \cup U
      BY <3>3 DEF HeldIn
    <3> HIDE DEF U, V
    <3>6. truth[t] = {t} \cup (V \cup U)
      BY <3>5, <1>1
    <3>7. Original(t) = truth[t]
      BY <3>4, <3>6
    <3> QED
      BY <3>7
  <2> QED
    BY <2>1, <2>2
<1> QED
  BY <1>2, <1>3, <1>4, <1>5, <1>6, <1>7

LEMMA IndicesAre ==
  ASSUME NEW S, NEW q \in Seq(S) PROVE DOMAIN q = 1..Len(q) /\ Len(q) \in Nat
OBVIOUS

LEMMA InRange ==
  ASSUME NEW n \in Nat, NEW i \in 1..n PROVE i <= n
OBVIOUS

LEMMA CountDown ==
  ASSUME NEW n \in Nat, NEW i \in Nat, i + 1 <= n
  PROVE  i <= (IF n > 0 THEN n - 1 ELSE 0)
OBVIOUS

LEMMA CommitKeeps ==
  ASSUME IInv, Commit
  PROVE  IInv'
<1> DEFINE t == queue[1].turn
<1>1. queue # <<>> /\ queue \in Seq(Observation) /\ queue' = Tail(queue)
  BY DEF Commit, IInv, RelayTypeOK
<1>2. /\ 1 \in DOMAIN queue /\ Head(queue) = queue[1]
      /\ queue' \in Seq(Observation)
      /\ \A i \in DOMAIN queue' : i \in Nat /\ i + 1 \in DOMAIN queue /\ queue'[i] = queue[i + 1]
  BY <1>1
<1>3. t \in Turn /\ InQueue(1) /\ Placed(t) /\ Whole(t) /\ Clean(t)
  BY <1>2, QueueHolds DEF IInv
<1>4. /\ UNCHANGED <<stage, ask, truth, input, seen>>
      /\ awaits' = [u \in Turn |-> IF awaits[u] > 0 THEN awaits[u] - 1 ELSE 0]
      /\ \/ UNCHANGED <<record, point, last>>
         \/ queue[1].whole /\ Commitable(t) /\ \E upTo \in Kept : StoredUpTo(t, upTo)
  BY <1>2 DEF Commit, Settled
<1>5. ASSUME queue[1].whole, Commitable(t)
      PROVE  /\ t \in Asked /\ Built(t) /\ NotMade(t)
             /\ Recorded(t) \in Record /\ Recorded(t) # Unknown /\ Recorded(t).relayed
             /\ Recorded(t).turns \cup Recorded(t).items \subseteq Asked
             /\ HeldIn(truth, Recorded(t)) = truth[t]
             /\ Original(t) \in {Unknown, Opaque} \cup SUBSET Turn
             /\ Original(t) \notin {Unknown, Opaque} => Original(t) = truth[t]
  <2>1. t \in Asked /\ Built(t) /\ NotMade(t)
    BY <1>3, <1>5 DEF InQueue, Asked
  <2> QED
    BY <2>1, <1>3, <1>5, StoredIsWhole
<1> HIDE DEF t
<1>6. /\ \/ record' = record
         \/ queue[1].whole /\ Commitable(t) /\ record' = [record EXCEPT ![t] = Recorded(t)]
      /\ \/ point' = point
         \/ queue[1].whole /\ Commitable(t) /\ point' = [point EXCEPT ![t] = Original(t)]
      /\ last' \in {last, "official"}
  BY <1>4 DEF StoredUpTo
<1>7. /\ record' \in [Turn -> Record \cup {Unknown}]
      /\ \A u \in Turn : \/ record'[u] = record[u]
                         \/ /\ u = t /\ t \in Asked /\ NotMade(t) /\ record'[u] # Unknown /\ record'[u].relayed
                            /\ record'[u].turns \cup record'[u].items \subseteq Asked
                            /\ HeldIn(truth, record'[u]) = truth[u]
  BY <1>3, <1>5, <1>6 DEF IInv, RelayTypeOK
<1>8. /\ point' \in [Turn -> {Unknown, Opaque} \cup SUBSET Turn]
      /\ \A u \in Turn : \/ point'[u] = point[u]
                         \/ /\ u = t /\ t \in Asked
                            /\ point'[u] \notin {Unknown, Opaque} => point'[u] = truth[u]
  BY <1>3, <1>5, <1>6 DEF IInv, RelayTypeOK
<1>9. awaits' \in [Turn -> Nat]
  <2>1. ASSUME NEW n \in Nat PROVE (IF n > 0 THEN n - 1 ELSE 0) \in Nat
    OBVIOUS
  <2>2. \A u \in Turn : awaits[u] \in Nat
    BY DEF IInv, RelayTypeOK
  <2> QED
    BY <1>4, <2>1, <2>2
<1>10. RelayTypeOK'
  BY <1>2, <1>4, <1>6, <1>7, <1>8, <1>9 DEF IInv, RelayTypeOK
<1>11. Asked' = Asked
  BY <1>4 DEF Asked
<1>12. ASSUME NEW u \in Turn PROVE Placed(u)'
  <2>1. Placed(u) /\ UNCHANGED <<stage, ask, truth, input, seen>>
    BY <1>4 DEF IInv
  <2>2. record'[u] # Unknown => record'[u].turns \cup record'[u].items \subseteq Asked
    BY <2>1, <1>7 DEF Placed
  <2>3. stage[u] = "idle" => record'[u] = record[u] /\ point'[u] = point[u]
    BY <1>7, <1>8 DEF Asked
  <2> QED
    BY <2>1, <2>2, <2>3, <1>11 DEF Placed
<1>13. ASSUME NEW u \in Turn
       PROVE Built(u)' = Built(u) /\ Before(ask[u])' = Before(ask[u]) /\ Pure(u)' = Pure(u)
  <2>1. UNCHANGED <<ask, truth, input>>
    BY <1>4
  <2> QED
    BY <2>1 DEF Built, Before, Pure
<1>14. ASSUME NEW u \in Turn PROVE Whole(u)'
  <2>1. Whole(u) /\ UNCHANGED <<stage, ask, truth, input>>
    BY <1>4 DEF IInv
  <2>2. record'[u] # Unknown => truth[u] = HeldIn(truth, record'[u])
    BY <2>1, <1>7 DEF Whole
  <2>3. point'[u] \notin {Unknown, Opaque} => point'[u] = truth[u]
    BY <2>1, <1>8 DEF Whole
  <2> QED
    BY <2>1, <2>2, <2>3, <1>13 DEF Whole
<1>15. ASSUME NEW u \in Turn PROVE NotMade(u)' = NotMade(u)
  BY <1>7 DEF NotMade
<1>16. ASSUME NEW u \in Turn PROVE Clean(u)'
  BY <1>4, <1>13, <1>15 DEF IInv, Clean
<1>17. ASSUME NEW i \in DOMAIN queue' PROVE InQueue(i)'
  <2>1. InQueue(i + 1) /\ queue'[i] = queue[i + 1] /\ queue[i + 1].turn \in Turn
    BY <1>2, QueueHolds DEF IInv
  <2> QED
    BY <2>1, <1>4, <1>13, <1>15 DEF InQueue
<1>18. WaitCovers'
  <2> SUFFICES ASSUME NEW u \in Turn, NEW i \in DOMAIN queue',
                      stage'[u] = "wait", queue'[i].turn = ask'[u].from, stage'[ask'[u].from] # "done http"
               PROVE  i <= awaits'[u]
    BY DEF WaitCovers
  <2>1. i + 1 \in DOMAIN queue /\ queue[i + 1].turn = ask[u].from /\ i \in Nat /\ stage[u] = "wait"
        /\ stage[ask[u].from] # "done http"
    BY <1>2, <1>4
  <2>2. i + 1 <= awaits[u] /\ awaits[u] \in Nat
    BY <2>1 DEF IInv, RelayTypeOK, WaitCovers
  <2>3. awaits'[u] = IF awaits[u] > 0 THEN awaits[u] - 1 ELSE 0
    BY <1>4
  <2> QED
    BY <2>1, <2>2, <2>3, CountDown
<1> QED
  BY <1>10, <1>12, <1>14, <1>16, <1>17, <1>18 DEF IInv

\* The history replayed into a request, or carried by it, is what the request continues.
LEMMA ReplayIsWhole ==
  ASSUME IInv, NEW q \in Request, q.from \in seen \cup {Unknown}, q.by # "full" => q.from \in seen,
         CanReplay(q)
  PROVE  /\ Replayed(q) \in History
         /\ Replayed(q).turns \cup Replayed(q).items \subseteq Asked
         /\ HeldIn(truth, Replayed(q)) = Before(q)
<1> DEFINE f == q.from
           base == IF q.by = "id" THEN record[f] ELSE Nothing
           h == [turns |-> base.turns \cup Carried(q).turns, items |-> base.items \cup Carried(q).items]
           Behind(i) == IF point[i] = Opaque THEN truth[i] ELSE point[i]
<1>1. seen \subseteq Asked /\ Asked \subseteq Turn /\ \A i \in Asked : truth[i] \subseteq Asked
  <2>1. seen \subseteq Asked /\ Asked \subseteq Turn
    BY DEF IInv, RelayTypeOK, Placed, Asked
  <2>2. \A i \in Asked : truth[i] \subseteq seen \cup {i}
    BY <2>1 DEF IInv, Placed
  <2> QED
    BY <2>1, <2>2
<1>2. f # Unknown => f \in Turn /\ f \in Asked /\ Before(q) = truth[f]
  BY <1>1, RelayConstants DEF Before
<1>3. h.turns \cup h.items \subseteq Asked /\ HeldIn(truth, h) = Before(q)
  <2>1. CASE q.by = "id"
    <3>1. f \in Turn /\ record[f] # Unknown /\ Placed(f) /\ Whole(f) /\ Before(q) = truth[f]
      BY <2>1, <1>1, <1>2, RelayConstants DEF CanReplay, IInv
    <3>2. h.turns = record[f].turns /\ h.items = record[f].items
      BY <2>1 DEF Carried
    <3>3. HeldIn(truth, h) = HeldIn(truth, record[f])
      BY <3>2 DEF HeldIn
    <3> QED
      BY <3>1, <3>2, <3>3 DEF Placed, Whole
  <2>2. CASE q.by = "item"
    <3>1. f \in Asked /\ Before(q) = truth[f]
      BY <2>2, <1>1, <1>2, RelayConstants
    <3>2. h.turns = {} /\ h.items = {f}
      BY <2>2 DEF Carried, Nothing
    <3> QED
      BY <3>1, <3>2 DEF HeldIn
  <2>3. CASE q.by = "full"
    <3>1. h.turns = Before(q) /\ h.items = {}
      BY <2>3 DEF Carried, Nothing
    <3>2. Before(q) \subseteq Asked
      BY <1>1, <1>2 DEF Before
    <3> QED
      BY <3>1, <3>2 DEF HeldIn
  <2> QED
    BY <2>1, <2>2, <2>3 DEF Request
<1>4. CASE q.to = "official"
  <2>1. Replayed(q) = h
    BY <1>4 DEF Replayed
  <2>2. h \in History
    BY <1>1, <1>3 DEF History
  <2> QED
    BY <2>1, <2>2, <1>3
<1>5. CASE q.to # "official"
  <2> DEFINE g == [turns |-> h.turns \cup UNION {Behind(i) : i \in h.items}, items |-> {}]
  <2>1. Replayed(q) = g
    BY <1>5 DEF Replayed
  <2>2. \A i \in h.items : point[i] # Unknown
    <3>1. h.items = (IF q.by = "id" THEN record[q.from].items ELSE {}) \cup Carried(q).items
      BY DEF Nothing
    <3> HIDE DEF h
    <3> QED
      BY <1>5, <3>1 DEF CanReplay, Request
  <2>3. \A i \in h.items : Behind(i) = truth[i]
    BY <2>2, <1>1, <1>3 DEF IInv, Whole
  <2> HIDE DEF Behind, h
  <2>4. UNION {Behind(i) : i \in h.items} = UNION {truth[i] : i \in h.items}
    BY <2>3
  <2>5. g.turns = HeldIn(truth, h) /\ g.items = {}
    BY <2>4 DEF HeldIn
  <2>6. HeldIn(truth, g) = HeldIn(truth, h)
    BY <2>5 DEF HeldIn
  <2>7. Before(q) \subseteq Asked
    BY <1>1, <1>2 DEF Before
  <2>8. g \in History
    BY <2>5, <2>7, <1>1, <1>3 DEF History
  <2> QED
    BY <2>1, <2>5, <2>6, <2>7, <2>8, <1>3
<1> QED
  BY <1>4, <1>5

\* A turn that is asked for: how it is begun, and what is known of it then.
Begun(t, q) ==
  /\ stage[t] = "idle" /\ stage'[t] # "idle" /\ stage' = [stage EXCEPT ![t] = stage'[t]]
  /\ q \in Request /\ q.from \in seen \cup {Unknown}
  /\ q.by # "full" => q.from \in seen
  /\ ask' = [ask EXCEPT ![t] = q]
  /\ truth' = [truth EXCEPT ![t] = Before(q) \cup {t}]
  /\ input' = [input EXCEPT ![t] = input'[t]]
  /\ input'[t] \in History /\ input'[t].turns \cup input'[t].items \subseteq Asked
  /\ awaits' \in [Turn -> Nat] /\ \A u \in Turn \ {t} : awaits'[u] = awaits[u]
  /\ UNCHANGED <<queue, record, point, last, seen>>
  /\ \/ /\ stage'[t] \in {"ws", "http"}
        /\ input'[t] = Carried(q)
        /\ q.to = "official"
        /\ q.by = "id" => NotMade(q.from)
        /\ q.by = "item" => ask[q.from].compacts
     \/ stage'[t] = "engine" /\ ~q.compacts /\ HeldIn(truth, input'[t]) = Before(q)
     \/ stage'[t] = "wait" /\ ~q.compacts /\ awaits'[t] = Len(queue)
     \/ stage'[t] = "failed"

LEMMA BegunKeeps ==
  ASSUME IInv, NEW t \in Turn, NEW q \in Request, Begun(t, q)
  PROVE  IInv'
<1> DEFINE f == q.from
<1>1. Asked \subseteq Turn /\ seen \subseteq Asked /\ t \notin Asked /\ record[t] = Unknown /\ point[t] = Unknown
  BY DEF IInv, RelayTypeOK, Placed, Asked, Begun
<1>2. Asked' = Asked \cup {t}
  BY DEF IInv, RelayTypeOK, Asked, Begun
<1>3. /\ f # Unknown => f \in Turn /\ f \in seen /\ f # t /\ Before(q) = truth[f]
      /\ f = Unknown => Before(q) = {}
  BY <1>1, RelayConstants DEF Before, Begun
<1>4. Before(q) \subseteq seen
  <2>1. ASSUME f # Unknown PROVE truth[f] \subseteq seen
    BY <2>1, <1>3 DEF IInv, Placed
  <2> QED
    BY <2>1, <1>3
<1>5. ASSUME NEW u \in Turn
      PROVE  /\ u # t => /\ stage'[u] = stage[u] /\ ask'[u] = ask[u] /\ truth'[u] = truth[u]
                         /\ input'[u] = input[u] /\ awaits'[u] = awaits[u]
             /\ u = t => ask'[u] = q /\ truth'[u] = Before(q) \cup {t}
  BY DEF IInv, RelayTypeOK, Begun
<1>6. RelayTypeOK'
  <2>1. stage'[t] \in {"idle", "ws", "told ws", "http", "told http", "wait", "engine", "done",
                       "done http", "failed"}
    BY DEF Begun
  <2>2. Before(q) \cup {t} \in SUBSET Turn
    BY <1>1, <1>4
  <2>3. stage' \in [Turn -> {"idle", "ws", "told ws", "http", "told http", "wait", "engine", "done",
                       "done http", "failed"}]
    <3>1. stage' = [stage EXCEPT ![t] = stage'[t]]
      BY DEF Begun
    <3> QED
      BY <3>1, <2>1 DEF IInv, RelayTypeOK
  <2>4. /\ truth' = [truth EXCEPT ![t] = Before(q) \cup {t}] /\ ask' = [ask EXCEPT ![t] = q]
        /\ input' = [input EXCEPT ![t] = input'[t]] /\ input'[t] \in History
        /\ awaits' \in [Turn -> Nat] /\ UNCHANGED <<queue, record, point, last, seen>>
    BY DEF Begun
  <2> QED
    BY <2>2, <2>3, <2>4 DEF IInv, RelayTypeOK
<1>7. ASSUME NEW u \in Turn PROVE Placed(u)'
  <2>1. UNCHANGED <<record, point, seen>> /\ Placed(u)
    BY DEF Begun, IInv
  <2>2. CASE u # t
    BY <2>1, <2>2, <1>2, <1>5 DEF Placed
  <2>3. CASE u = t
    <3>1. stage'[t] # "idle" /\ q \in Request /\ q.from \in seen \cup {Unknown}
          /\ (q.by # "full" => q.from \in seen)
          /\ input'[t].turns \cup input'[t].items \subseteq Asked
      BY DEF Begun
    <3>2. t \notin seen /\ record'[t] = Unknown /\ seen' = seen
      BY <2>1, <1>1
    <3>3. ask'[t] = q /\ truth'[t] \subseteq seen \cup {t} /\ t \in Asked'
      BY <1>2, <1>4, <1>5
    <3> QED
      BY <3>1, <3>2, <3>3, <2>3, <1>2 DEF Placed
  <2> QED
    BY <2>2, <2>3
\* No history that was there holds the turn.
<1>8. ASSUME NEW h, h.items \subseteq Asked PROVE HeldIn(truth', h) = HeldIn(truth, h)
  <2>1. \A i \in h.items : truth'[i] = truth[i]
    BY <1>1, <1>5, <1>8
  <2> QED
    BY <2>1 DEF HeldIn
<1>9. ASSUME NEW u \in Turn, u \in Asked
      PROVE Built(u)' = Built(u) /\ Before(ask[u])' = Before(ask[u])
  <2>1. u # t /\ Placed(u) /\ ask[u].from \in seen \cup {Unknown}
    BY <1>1, <1>9 DEF IInv, Placed, Asked
  <2>2. ask[u].from # Unknown => truth'[ask[u].from] = truth[ask[u].from]
    BY <2>1, <1>1, <1>5
  <2>3. HeldIn(truth', input[u]) = HeldIn(truth, input[u])
    BY <2>1, <1>8 DEF Placed
  <2>4. ask'[u] = ask[u] /\ truth'[u] = truth[u] /\ input'[u] = input[u]
    BY <2>1, <1>5
  <2>5. Before(ask[u])' = Before(ask[u])
    BY <2>2, <2>4 DEF Before
  <2>6. ask[u].by = "id" => ask[u].from # Unknown
    BY <2>1, <1>1, <1>9, RelayConstants DEF Placed, Asked
  <2> QED
    BY <2>2, <2>3, <2>4, <2>5, <2>6 DEF Built
<1>10. ASSUME NEW u \in Turn PROVE Whole(u)'
  <2>1. UNCHANGED <<record, point>> /\ Placed(u) /\ Whole(u)
    BY DEF Begun, IInv
  <2>2. CASE u \in Asked
    <3>1. record[u] # Unknown => HeldIn(truth', record[u]) = HeldIn(truth, record[u])
      BY <2>1, <1>8 DEF Placed
    <3>2. HeldIn(truth', input[u]) = HeldIn(truth, input[u])
      BY <2>1, <1>8 DEF Placed
    <3>3. u # t
      BY <2>2, <1>1
    <3> QED
      BY <2>1, <2>2, <3>1, <3>2, <3>3, <1>5, <1>9 DEF Whole
  <2>3. CASE u = t
    <3>1. truth'[t] = Before(q) \cup {t} /\ ask'[t] = q
      BY <1>5
    <3>2. stage'[t] = "wait" => truth'[t] = {t} \cup Before(ask[t])'
      <4>1. Before(q)' = Before(q)
        BY <1>3, <1>5 DEF Before
      <4> QED
        BY <3>1, <4>1 DEF Before
    <3>3. HeldIn(truth', input'[t]) = HeldIn(truth, input'[t])
      BY <1>8 DEF Begun
    <3>4. stage'[t] = "engine" => truth'[t] = {t} \cup HeldIn(truth', input'[t])
      BY <3>1, <3>3 DEF Begun
    <3>5. ASSUME stage'[t] \in {"ws", "http"} PROVE Built(t)' /\ (q.by = "id" => input'[t] = Nothing)
      <4>1. input'[t] = Carried(q)
        BY <3>5 DEF Begun
      <4>2. CASE q.by = "id"
        <5>1. input'[t] = Nothing /\ f # Unknown
          BY <4>1, <4>2, <1>1, RelayConstants DEF Carried, Nothing, Begun
        <5>2. truth'[f] = Before(q)
          BY <5>1, <1>3, <1>5
        <5>3. HeldIn(truth', input'[t]) = {}
          BY <5>1 DEF HeldIn, Nothing
        <5> QED
          BY <4>2, <5>1, <5>2, <5>3, <3>1 DEF Built
      <4>3. CASE q.by = "item"
        <5>1. input'[t].turns = {} /\ input'[t].items = {f} /\ f # Unknown
          BY <4>1, <4>3, <1>1, RelayConstants DEF Carried, Begun
        <5>2. truth'[f] = Before(q)
          BY <5>1, <1>3, <1>5
        <5>3. HeldIn(truth', input'[t]) = Before(q)
          BY <5>1, <5>2 DEF HeldIn
        <5> QED
          BY <4>3, <5>3, <3>1 DEF Built
      <4>4. CASE q.by = "full"
        <5>1. input'[t].turns = Before(q) /\ input'[t].items = {}
          BY <4>1, <4>4 DEF Carried
        <5>2. HeldIn(truth', input'[t]) = Before(q)
          BY <5>1 DEF HeldIn
        <5> QED
          BY <4>4, <5>2, <3>1 DEF Built
      <4> QED
        BY <4>2, <4>3, <4>4 DEF Request
    <3>6. stage'[t] \in Relaying => stage'[t] \in {"ws", "http"}
      BY DEF Begun, Relaying
    <3> QED
      BY <2>1, <2>3, <3>1, <3>2, <3>4, <3>5, <3>6, <1>1 DEF Whole
  <2>4. CASE u \notin Asked /\ u # t
    <3>1. stage'[u] = "idle" /\ record[u] = Unknown /\ point[u] = Unknown
      BY <2>1, <2>4, <1>5 DEF Asked, Placed
    <3> QED
      BY <2>1, <3>1 DEF Whole, Relaying
  <2> QED
    BY <2>2, <2>3, <2>4
<1>11. ASSUME NEW u \in Turn, u \in Asked PROVE Pure(u)' = Pure(u)
  <2>1. truth[u] \subseteq Asked
    BY <1>1, <1>11 DEF IInv, Placed
  <2>2. \A a \in Asked : a # t /\ ask'[a] = ask[a] /\ input'[a] = input[a] /\ input[a].turns \subseteq Asked
    BY <1>1, <1>5 DEF IInv, Placed
  <2>3. truth'[u] = truth[u]
    BY <1>1, <1>5, <1>11
  <2> QED
    BY <2>1, <2>2, <2>3 DEF Pure
<1>12. ASSUME stage'[t] \in Relaying PROVE Pure(t)'
  <2>1. /\ input'[t] = Carried(q) /\ q.to = "official"
        /\ q.by = "id" => NotMade(f)
        /\ q.by = "item" => ask[f].compacts
        /\ q.by # "full" => f \in seen
    BY <1>12 DEF Begun, Relaying
  <2>2. truth'[t] = Before(q) \cup {t} /\ ask'[t] = q
    BY <1>5
  <2>3. CASE q.by \in {"id", "item"}
    <3>1. f # Unknown /\ f \in Turn /\ f \in Asked /\ f \in seen /\ f # t /\ Before(q) = truth[f]
      BY <2>1, <2>3, <1>1, <1>3, RelayConstants
    <3>2. NotMade(f) /\ Clean(f)
      BY <2>1, <2>3, <3>1 DEF IInv, Clean, Asked
    <3>3. Pure(f)' /\ truth'[f] = Before(q)
      BY <3>1, <3>2, <1>5, <1>11 DEF Clean
    <3> QED
      BY <3>3, <2>1, <2>2 DEF Pure
  <2>4. CASE q.by = "full"
    <3>1. input'[t].turns = Before(q)
      BY <2>1, <2>4 DEF Carried
    <3> QED
      BY <3>1, <2>1, <2>2, <2>4 DEF Pure
  <2> QED
    BY <2>3, <2>4 DEF Request
<1>13. ASSUME NEW u \in Turn PROVE Clean(u)'
  <2>1. UNCHANGED <<record, seen>> /\ Clean(u)
    BY DEF Begun, IInv
  <2>2. CASE u \in Asked
    BY <2>1, <2>2, <1>1, <1>5, <1>11 DEF Clean, NotMade
  <2>3. CASE u = t
    <3>1. q.compacts => stage'[t] \notin {"wait", "engine"}
      BY DEF Begun
    <3> QED
      BY <3>1, <2>1, <2>3, <1>1, <1>5, <1>12 DEF Clean, NotMade
  <2>4. CASE u \notin Asked /\ u # t
    <3>1. stage'[u] = "idle" /\ u \notin seen
      BY <2>4, <1>1, <1>5 DEF Asked
    <3> QED
      BY <2>1, <3>1 DEF Clean, Relaying
  <2> QED
    BY <2>2, <2>3, <2>4
<1>14. ASSUME NEW i \in DOMAIN queue' PROVE InQueue(i)'
  <2>1. queue' = queue /\ record' = record /\ InQueue(i) /\ queue[i].turn \in Turn
    BY QueueHolds DEF Begun, IInv
  <2>2. queue[i].whole => queue[i].turn \in Asked
    BY <2>1 DEF InQueue, Asked
  <2> QED
    BY <2>1, <2>2, <1>1, <1>5, <1>9 DEF InQueue, NotMade
<1>15. WaitCovers'
  <2> SUFFICES ASSUME NEW u \in Turn, NEW i \in DOMAIN queue',
                      stage'[u] = "wait", queue'[i].turn = ask'[u].from, stage'[ask'[u].from] # "done http"
               PROVE  i <= awaits'[u]
    BY DEF WaitCovers
  <2>1. i \in 1..Len(queue) /\ queue' = queue /\ Len(queue) \in Nat
    <3>1. queue \in Seq(Observation)
      BY DEF IInv, RelayTypeOK
    <3>2. queue' = queue
      BY DEF Begun
    <3>3. DOMAIN queue = 1..Len(queue) /\ Len(queue) \in Nat
      BY <3>1, IndicesAre
    <3> QED
      BY <3>2, <3>3
  <2>2. CASE u = t
    <3>1. stage'[t] = "wait" => awaits'[t] = Len(queue)
      BY DEF Begun
    <3>2. awaits'[u] = Len(queue)
      BY <3>1, <2>2
    <3> QED
      BY <3>2, <2>1, InRange
  <2>3. CASE u # t
    <3>1. stage[u] = "wait" /\ ask'[u] = ask[u] /\ awaits'[u] = awaits[u] /\ u \in Asked /\ Placed(u)
      BY <2>3, <1>5 DEF IInv, Asked
    <3>2. ask[u].from \in seen \cup {Unknown}
      BY <3>1 DEF Placed
    <3>3. ask[u].from \in Turn
      BY <2>1, <3>1, QueueHolds DEF IInv
    <3>4. stage[ask[u].from] # "done http"
      BY <3>1, <3>2, <3>3, <1>1, <1>5, RelayConstants
    <3> QED
      BY <2>1, <3>1, <3>4 DEF IInv, WaitCovers
  <2> QED
    BY <2>2, <2>3
<1> QED
  BY <1>6, <1>7, <1>10, <1>13, <1>14, <1>15 DEF IInv

\* A request that is let in, or refused.
LEMMA AdmittedIsBegun ==
  ASSUME IInv, NEW t \in Turn, NEW q \in Request, stage[t] = "idle",
         q.from \in seen \cup {Unknown}, q.by # "full" => q.from \in seen, ~q.compacts,
         ask' = [ask EXCEPT ![t] = q], truth' = [truth EXCEPT ![t] = Before(q) \cup {t}],
         Admit(t, q), UNCHANGED <<queue, awaits, record, point, last, seen>>
  PROVE  Begun(t, q)
<1>1. input[t] \in History /\ input[t].turns \cup input[t].items \subseteq Asked /\ awaits \in [Turn -> Nat]
  BY DEF IInv, RelayTypeOK, Placed
<1>2. CASE (q.to = "custom" => Observed(q)) /\ CanReplay(q)
  <2>1. stage' = [stage EXCEPT ![t] = "engine"] /\ input' = [input EXCEPT ![t] = Replayed(q)]
    BY <1>2 DEF Admit
  <2>2. stage'[t] = "engine" /\ input'[t] = Replayed(q)
    BY <2>1 DEF IInv, RelayTypeOK
  <2>3. /\ Replayed(q) \in History
        /\ Replayed(q).turns \cup Replayed(q).items \subseteq Asked
        /\ HeldIn(truth, Replayed(q)) = Before(q)
    BY <1>2, ReplayIsWhole
  <2> QED
    BY <2>1, <2>2, <2>3, <1>1 DEF Begun
<1>3. CASE ~((q.to = "custom" => Observed(q)) /\ CanReplay(q))
  <2>1. stage' = [stage EXCEPT ![t] = "failed"] /\ input' = input
    BY <1>3 DEF Admit
  <2>2. stage'[t] = "failed" /\ input' = [input EXCEPT ![t] = input'[t]]
    BY <2>1 DEF IInv, RelayTypeOK
  <2> QED
    BY <2>1, <2>2, <1>1 DEF Begun
<1> QED
  BY <1>2, <1>3

LEMMA AsksKeep ==
  ASSUME IInv, NEW t \in Turn, NEW q \in Requests, AskOfficial(t, q) \/ AskCustom(t, q)
  PROVE  IInv'
<1>1. /\ q \in Request /\ q.from \in seen \cup {Unknown}
      /\ q.by # "full" => q.from \in seen
      /\ q.by = "item" => ask[q.from].compacts
      /\ q.to = "custom" => ~q.compacts
  BY DEF Requests, Request, IInv, RelayTypeOK
<1>2. ASSUME AskOfficial(t, q) PROVE IInv'
  <2>1. PICK long \in BOOLEAN :
          /\ Asks(t, [q EXCEPT !.compacts = q.compacts /\ ~NeedsEngine(q, long)])
          /\ IF NeedsEngine(q, long)
             THEN Admit(t, q)
             ELSE /\ \E over \in {"ws", "http"} : stage' = [stage EXCEPT ![t] = over]
                  /\ input' = [input EXCEPT ![t] = Carried(q)]
    BY <1>2 DEF AskOfficial
  <2> DEFINE p == [q EXCEPT !.compacts = q.compacts /\ ~NeedsEngine(q, long)]
  <2>2. /\ p \in Request /\ p.from = q.from /\ p.by = q.by /\ p.to = q.to
        /\ NeedsEngine(q, long) => ~p.compacts
    BY <1>1 DEF Request
  <2>3. /\ stage[t] = "idle" /\ ask' = [ask EXCEPT ![t] = p]
        /\ truth' = [truth EXCEPT ![t] = Before(p) \cup {t}]
        /\ q.to = "official"
        /\ UNCHANGED <<queue, awaits, record, point, last, seen>>
    BY <2>1, <1>2 DEF Asks, AskOfficial
  <2> HIDE DEF p
  <2>4. /\ Before(p) = Before(q) /\ Carried(p) = Carried(q) /\ Replayed(p) = Replayed(q)
        /\ CanReplay(p) = CanReplay(q) /\ Observed(p) = Observed(q)
    BY <2>2 DEF Before, Carried, Replayed, CanReplay, Observed
  <2>5. Begun(t, p)
    <3>1. CASE NeedsEngine(q, long)
      <4>1. Admit(t, p)
        BY <2>1, <2>2, <2>4, <3>1 DEF Admit
      <4> QED
        BY <4>1, <2>2, <2>3, <3>1, <1>1, AdmittedIsBegun
    <3>2. CASE ~NeedsEngine(q, long)
      <4>1. PICK over \in {"ws", "http"} : stage' = [stage EXCEPT ![t] = over]
        BY <2>1, <3>2
      <4>2. stage'[t] = over /\ input' = [input EXCEPT ![t] = Carried(q)] /\ input'[t] = Carried(q)
        BY <4>1, <2>1, <3>2 DEF IInv, RelayTypeOK
      <4>3. Carried(q) \in History /\ Carried(q).turns \cup Carried(q).items \subseteq Asked
        <5>1. seen \subseteq Asked /\ Asked \subseteq Turn
          BY DEF IInv, RelayTypeOK, Placed, Asked
        <5>2. Before(q) \subseteq Asked
          <6>1. CASE q.from = Unknown
            BY <6>1 DEF Before
          <6>2. CASE q.from # Unknown
            <7>1. q.from \in Turn /\ q.from \in Asked
              BY <6>2, <5>1, <1>1
            <7>2. truth[q.from] \subseteq seen \cup {q.from}
              BY <7>1 DEF IInv, Placed
            <7> QED
              BY <7>1, <7>2, <6>2, <5>1 DEF Before
          <6> QED
            BY <6>1, <6>2
        <5>3. Carried(q).turns \subseteq Asked /\ Carried(q).items \subseteq Asked
          BY <5>1, <5>2, <1>1 DEF Carried
        <5>4. Carried(q) = [turns |-> Carried(q).turns, items |-> Carried(q).items]
          BY DEF Carried
        <5> QED
          BY <5>1, <5>3, <5>4 DEF History
      <4>4. q.by = "id" => NotMade(q.from)
        BY <3>2 DEF NeedsEngine, NotMade
      <4>5. awaits' \in [Turn -> Nat] /\ \A u \in Turn : awaits'[u] = awaits[u]
        BY <2>3 DEF IInv, RelayTypeOK
      <4> QED
        BY <4>1, <4>2, <4>3, <4>4, <4>5, <2>2, <2>3, <2>4, <1>1 DEF Begun
    <3> QED
      BY <3>1, <3>2
  <2> QED
    BY <2>2, <2>5, BegunKeeps
<1>3. ASSUME AskCustom(t, q) PROVE IInv'
  <2>1. /\ stage[t] = "idle" /\ ask' = [ask EXCEPT ![t] = q] /\ ~q.compacts
        /\ truth' = [truth EXCEPT ![t] = Before(q) \cup {t}]
        /\ UNCHANGED <<queue, record, point, last, seen>>
    BY <1>1, <1>3 DEF AskCustom, Asks
  <2>2. CASE Waits(q)
    <3>1. stage' = [stage EXCEPT ![t] = "wait"] /\ awaits' = [awaits EXCEPT ![t] = Len(queue)] /\ input' = input
      BY <1>3, <2>2 DEF AskCustom, Awaited
    <3>2. input[t] \in History /\ input[t].turns \cup input[t].items \subseteq Asked /\ Len(queue) \in Nat
      <4>1. queue \in Seq(Observation) /\ input[t] \in History
        BY DEF IInv, RelayTypeOK
      <4>2. input[t].turns \cup input[t].items \subseteq Asked
        BY DEF IInv, Placed
      <4> QED
        BY <4>1, <4>2
    <3>3. /\ stage'[t] = "wait" /\ input' = [input EXCEPT ![t] = input'[t]]
          /\ awaits' \in [Turn -> Nat] /\ awaits'[t] = Len(queue) /\ \A u \in Turn \ {t} : awaits'[u] = awaits[u]
      BY <3>1, <3>2 DEF IInv, RelayTypeOK
    <3>4. Begun(t, q)
      BY <3>1, <3>2, <3>3, <2>1, <1>1 DEF Begun
    <3> QED
      BY <3>4, <1>1, BegunKeeps
  <2>3. CASE ~Waits(q)
    <3>1. Admit(t, q) /\ awaits' = awaits
      BY <1>3, <2>3 DEF AskCustom
    <3>2. Begun(t, q)
      BY <3>1, <2>1, <1>1, AdmittedIsBegun
    <3> QED
      BY <3>2, <1>1, BegunKeeps
  <2> QED
    BY <2>2, <2>3
<1> QED
  BY <1>2, <1>3

\* A turn that waited goes on with the request it made.
LEMMA WaitKeeps ==
  ASSUME IInv, NEW t \in Turn, WaitEnds(t)
  PROVE  IInv'
<1> DEFINE q == ask[t]
<1>1. /\ stage[t] = "wait" /\ Admit(t, q) /\ awaits' = [awaits EXCEPT ![t] = 0]
      /\ UNCHANGED <<ask, truth, queue, record, point, last, seen>>
  BY DEF WaitEnds
<1>2. Placed(t) /\ Whole(t) /\ Clean(t) /\ q \in Request
  BY <1>1 DEF IInv, Placed
<1>3. /\ stage'[t] \in {"engine", "failed"} /\ stage' = [stage EXCEPT ![t] = stage'[t]]
      /\ input' = [input EXCEPT ![t] = input'[t]]
      /\ input'[t] \in History /\ input'[t].turns \cup input'[t].items \subseteq Asked
      /\ stage'[t] = "engine" => HeldIn(truth, input'[t]) = Before(q)
  <2>1. CASE (q.to = "custom" => Observed(q)) /\ CanReplay(q)
    <3>1. stage' = [stage EXCEPT ![t] = "engine"] /\ input' = [input EXCEPT ![t] = Replayed(q)]
      BY <2>1, <1>1 DEF Admit
    <3>2. stage'[t] = "engine" /\ input'[t] = Replayed(q)
      BY <3>1 DEF IInv, RelayTypeOK
    <3>3. /\ Replayed(q) \in History
          /\ Replayed(q).turns \cup Replayed(q).items \subseteq Asked
          /\ HeldIn(truth, Replayed(q)) = Before(q)
      BY <2>1, <1>1, <1>2, ReplayIsWhole DEF Placed
    <3> QED
      BY <3>1, <3>2, <3>3
  <2>2. CASE ~((q.to = "custom" => Observed(q)) /\ CanReplay(q))
    <3>1. stage' = [stage EXCEPT ![t] = "failed"] /\ input' = input
      BY <2>2, <1>1 DEF Admit
    <3> QED
      BY <3>1, <1>2 DEF IInv, RelayTypeOK, Placed
  <2> QED
    BY <2>1, <2>2
<1>4. ASSUME NEW u \in Turn
      PROVE  /\ stage'[u] = IF u = t THEN stage'[t] ELSE stage[u]
             /\ input'[u] = IF u = t THEN input'[t] ELSE input[u]
             /\ awaits'[u] = IF u = t THEN 0 ELSE awaits[u]
  BY <1>1, <1>3 DEF IInv, RelayTypeOK
<1>5. RelayTypeOK'
  BY <1>1, <1>3 DEF IInv, RelayTypeOK
<1>6. Asked' = Asked
  BY <1>1, <1>3, <1>4 DEF IInv, RelayTypeOK, Asked
<1>7. ASSUME NEW u \in Turn PROVE Placed(u)'
  <2>1. Placed(u) /\ UNCHANGED <<ask, truth, record, point, seen>>
    BY <1>1 DEF IInv
  <2>2. t \notin seen
    BY <1>1, <1>2 DEF Placed
  <2>3. u \in seen => stage'[u] = stage[u]
    BY <2>2, <1>4
  <2>4. stage'[u] = "idle" <=> stage[u] = "idle"
    BY <1>1, <1>3, <1>4
  <2>5. input'[u].turns \cup input'[u].items \subseteq Asked
    BY <2>1, <1>3, <1>4 DEF Placed
  <2> QED
    BY <2>1, <2>3, <2>4, <2>5, <1>6 DEF Placed
<1>8. ASSUME NEW u \in Turn, u # t PROVE Built(u)' = Built(u)
  BY <1>1, <1>4, <1>8 DEF Built
<1>9. ASSUME NEW u \in Turn PROVE Whole(u)'
  <2>1. Whole(u) /\ UNCHANGED <<ask, truth, record, point>> /\ Before(ask[u])' = Before(ask[u])
    BY <1>1 DEF IInv, Before
  <2>2. CASE u = t
    BY <2>1, <2>2, <1>1, <1>2, <1>3 DEF Whole, Relaying
  <2>3. CASE u # t
    BY <2>1, <2>3, <1>4, <1>8 DEF Whole
  <2> QED
    BY <2>2, <2>3
\* Nothing was relayed on the turn: nobody has seen it, and its own is not relayed.
<1>10. ASSUME NEW u \in Turn, u # t PROVE Pure(u)' = Pure(u)
  <2>1. t \notin truth[u]
    BY <1>1, <1>2, <1>10 DEF IInv, Placed
  <2>2. \A a \in truth[u] : input'[a] = input[a]
    BY <2>1, <1>4 DEF IInv, RelayTypeOK
  <2> QED
    BY <2>2, <1>1 DEF Pure
<1>11. ASSUME NEW u \in Turn PROVE Clean(u)'
  <2>1. Clean(u) /\ UNCHANGED <<ask, record, seen>> /\ NotMade(u)' = NotMade(u)
    BY <1>1 DEF IInv, NotMade
  <2>2. CASE u = t
    <3>1. t \notin seen /\ ~ask[t].compacts
      BY <1>1, <1>2 DEF Placed, Clean
    <3> QED
      BY <3>1, <2>1, <2>2, <1>3 DEF Clean, Relaying
  <2>3. CASE u # t
    BY <2>1, <2>3, <1>4, <1>10 DEF Clean
  <2> QED
    BY <2>2, <2>3
<1>12. ASSUME NEW i \in DOMAIN queue' PROVE InQueue(i)'
  <2>1. queue' = queue /\ record' = record /\ InQueue(i) /\ queue[i].turn \in Turn
    BY <1>1, QueueHolds DEF IInv
  <2>2. queue[i].whole => queue[i].turn # t
    BY <2>1, <1>1 DEF InQueue
  <2> QED
    BY <2>1, <2>2, <1>4, <1>8 DEF InQueue, NotMade
<1>13. WaitCovers'
  <2> SUFFICES ASSUME NEW u \in Turn, NEW i \in DOMAIN queue',
                      stage'[u] = "wait", queue'[i].turn = ask'[u].from, stage'[ask'[u].from] # "done http"
               PROVE  i <= awaits'[u]
    BY DEF WaitCovers
  <2>1. u # t /\ stage[u] = "wait" /\ awaits'[u] = awaits[u] /\ ask' = ask /\ queue' = queue
    BY <1>1, <1>3, <1>4
  <2>2. ask[u].from \in Turn
    BY <2>1, QueueHolds DEF IInv
  <2>3. stage[ask[u].from] # "done http"
    BY <2>1, <2>2, <1>1, <1>4
  <2> QED
    BY <2>1, <2>3 DEF IInv, WaitCovers
<1> QED
  BY <1>5, <1>7, <1>9, <1>11, <1>12, <1>13 DEF IInv

LEMMA StepKeeps == IInv /\ [RelayNext]_relayVars => IInv'
<1> SUFFICES ASSUME IInv, [RelayNext]_relayVars PROVE IInv'
  OBVIOUS
<1>1. ASSUME NEW t \in Turn, NEW q \in Requests, AskOfficial(t, q) \/ AskCustom(t, q) PROVE IInv'
  BY <1>1, AsksKeep
<1>2. ASSUME NEW t \in Turn, WaitEnds(t) PROVE IInv'
  BY <1>2, WaitKeeps
<1>3. ASSUME NEW t \in Turn, EngineAnswers(t) PROVE IInv'
  BY <1>3, AnswersKeep
<1>4. ASSUME NEW t \in Turn, Observe(t) \/ Deliver(t) \/ RelayFails(t) \/ EngineFails(t) PROVE IInv'
  BY <1>4, MovesKeep
<1>5. ASSUME NEW t \in Turn, Resend(t) PROVE IInv'
  BY <1>5, ResendKeeps
<1>6. CASE Commit
  BY <1>6, CommitKeeps
<1>7. CASE UNCHANGED relayVars
  <2>1. UNCHANGED <<stage, ask, truth, input, queue, awaits, record, point, last, seen>>
    BY <1>7 DEF relayVars
  <2>2. Asked' = Asked /\ RelayTypeOK' /\ WaitCovers'
    BY <2>1 DEF IInv, RelayTypeOK, WaitCovers, Asked
  <2>3. ASSUME NEW u \in Turn
        PROVE /\ Built(u)' = Built(u) /\ Before(ask[u])' = Before(ask[u])
              /\ Pure(u)' = Pure(u) /\ NotMade(u)' = NotMade(u)
    BY <2>1 DEF Built, Before, Pure, NotMade
  <2>4. ASSUME NEW u \in Turn PROVE Placed(u)' /\ Whole(u)' /\ Clean(u)'
    BY <2>1, <2>2, <2>3 DEF IInv, Placed, Whole, Clean
  <2>5. ASSUME NEW i \in DOMAIN queue' PROVE InQueue(i)'
    BY <2>1, <2>3, QueueHolds DEF IInv, InQueue
  <2> QED
    BY <2>2, <2>4, <2>5 DEF IInv
<1> QED
  BY <1>1, <1>2, <1>3, <1>4, <1>5, <1>6, <1>7 DEF RelayNext

\* The invariant holds however turns are asked, relayed, observed, committed and sent again
\* (the official observations of the engine).
THEOREM Inductive == RelaySpec => []IInv
BY InitInv, StepKeeps, PTL DEF RelaySpec

\* What is recorded of a turn, and the original behind a checkpoint, is the conversation it was
\* made in, in whatever order turns are relayed, observed and committed (engine.mjs).
THEOREM RecordsAreTrue == RelaySpec => []HistoryTrue
<1>1. IInv => HistoryTrue
  BY DEF IInv, HistoryTrue, Whole, HeldIn
<1> QED
  BY <1>1, Inductive, PTL

\* A turn that is relayed as it is was built on relayed turns only, as far as its requests tell.
THEOREM RelayIsPure == RelaySpec => []RelayedPure
<1>1. IInv => RelayedPure
  BY DEF IInv, RelayedPure, Clean, Pure, Relaying
<1> QED
  BY <1>1, Inductive, PTL

\* A turn of another provider that waits covers the observation it needs.
THEOREM WaitIsEnough == RelaySpec => []WaitCovers
<1>1. IInv => WaitCovers
  BY DEF IInv
<1> QED
  BY <1>1, Inductive, PTL

=============================================================================

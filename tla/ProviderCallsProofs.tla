------------------------ MODULE ProviderCallsProofs -------------------------
(* Theorems about the calls to a provider: its slots, for any number of turns, *)
(* values of the limit and reloads; one call of it, for every deadline and     *)
(* every length of an answer; and what the client reads of the answer, for any *)
(* number of rounds, items and events.                                         *)
EXTENDS ProviderLimiter, FiniteSetTheorems, Transport, ResponseStreams, NaturalsInduction,
        WellFoundedInduction, TLAPS

-----------------------------------------------------------------------------
(* The slots. *)

Place == {"idle", "ready", "waiting", "woken", "holds"}
Gates == [limit : Maximum, active : Nat, waiters : Seq(Turn)]

\* A queue names elements of a set, each once.
Once(q, W) ==
  \A j \in 1..Len(q) : q[j] \in W /\ \A k \in 1..Len(q) : q[j] = q[k] => j = k

\* The turns in the queue of a Limiter wait there.
Queued(g) == Once(limiters[g].waiters, At(g, "waiting"))

Counted(g) == limiters[g].active = Cardinality(At(g, "holds"))
Within(g) == ~barging => limiters[g].active + Cardinality(At(g, "woken")) <= limiters[g].limit
Busy(g) ==
  limiters[g].waiters # <<>> =>
    limiters[g].active + Cardinality(At(g, "woken")) >= limiters[g].limit

\* Until the first reload there is one Limiter, with the limit every turn knows.
Alone ==
  reloads = 0 => /\ Len(limiters) = 1 /\ limiters[1].limit = config
                 /\ \A t \in Turn : frozen[t] = config

LimiterInv ==
  /\ LimiterTypeOK /\ Alone
  /\ \A g \in 1..Len(limiters) : Queued(g) /\ Counted(g) /\ Within(g) /\ Busy(g)

-----------------------------------------------------------------------------

LEMMA Joined ==
  ASSUME NEW S, NEW a \in Seq(S), NEW b \in Seq(S)
  PROVE  a \o b \in Seq(S) /\ Len(a \o b) = Len(a) + Len(b)
OBVIOUS

LEMMA RemoveAtIs ==
  ASSUME NEW S, NEW s \in Seq(S), NEW i \in 1..Len(s)
  PROVE  /\ RemoveAt(s, i) \in Seq(S) /\ Len(RemoveAt(s, i)) = Len(s) - 1
         /\ \A j \in 1..(Len(s) - 1) : RemoveAt(s, i)[j] = s[IF j < i THEN j ELSE j + 1]
<1> DEFINE a == SubSeq(s, 1, i - 1)
           b == SubSeq(s, i + 1, Len(s))
<1>1. a \in Seq(S) /\ Len(a) = i - 1 /\ \A j \in 1..(i - 1) : a[j] = s[j]
  OBVIOUS
<1>2. b \in Seq(S) /\ Len(b) = Len(s) - i /\ \A j \in 1..(Len(s) - i) : b[j] = s[i + j]
  OBVIOUS
<1>3. RemoveAt(s, i) = a \o b
  BY DEF RemoveAt
<1> HIDE DEF a, b
<1>4. a \o b \in Seq(S) /\ Len(a \o b) = Len(s) - 1
  <2>1. a \in Seq(S) /\ b \in Seq(S) /\ Len(a) + Len(b) = Len(s) - 1
    BY <1>1, <1>2
  <2> QED
    BY <2>1, Joined
<1>5. ASSUME NEW j \in 1..(Len(s) - 1) PROVE (a \o b)[j] = s[IF j < i THEN j ELSE j + 1]
  <2>1. CASE j < i
    BY <1>1, <1>2, <2>1
  <2>2. CASE ~(j < i)
    <3>1. j - (i - 1) \in 1..(Len(s) - i) /\ i + (j - (i - 1)) = j + 1
      BY <2>2
    <3>2. (a \o b)[j] = b[j - (i - 1)]
      BY <1>1, <1>2, <2>2
    <3> QED
      BY <1>2, <2>2, <3>1, <3>2
  <2> QED
    BY <2>1, <2>2
<1> QED
  BY <1>3, <1>4, <1>5

LEMMA PutIs ==
  ASSUME NEW S, NEW s \in Seq(S), NEW g \in 1..Len(s), NEW x \in S
  PROVE  /\ [s EXCEPT ![g] = x] \in Seq(S) /\ Len([s EXCEPT ![g] = x]) = Len(s)
         /\ [s EXCEPT ![g] = x][g] = x
         /\ \A h \in 1..Len(s) : h # g => [s EXCEPT ![g] = x][h] = s[h]
OBVIOUS

LEMMA GrownIs ==
  ASSUME NEW S, NEW s \in Seq(S), NEW x \in S
  PROVE  /\ Append(s, x) \in Seq(S) /\ Len(Append(s, x)) = Len(s) + 1
         /\ Append(s, x)[Len(s) + 1] = x
         /\ \A h \in 1..Len(s) : Append(s, x)[h] = s[h]
OBVIOUS

LEMMA Joins ==
  ASSUME NEW S, IsFiniteSet(S), NEW x, x \notin S
  PROVE  Cardinality(S \cup {x}) = Cardinality(S) + 1
BY FS_AddElement

LEMMA Parts ==
  ASSUME NEW S, IsFiniteSet(S), NEW x, x \in S
  PROVE  Cardinality(S \ {x}) = Cardinality(S) - 1 /\ Cardinality(S) > 0
<1>1. Cardinality(S \ {x}) = Cardinality(S) - 1
  BY FS_RemoveElement
<1>2. IsFiniteSet(S \ {x})
  BY FS_RemoveElement
<1> QED
  BY <1>1, <1>2, FS_CardinalityType

LEMMA Sizes ==
  ASSUME NEW g, NEW w
  PROVE  IsFiniteSet(At(g, w)) /\ Cardinality(At(g, w)) \in Nat
<1>1. At(g, w) \in SUBSET Turn
  BY DEF At
<1> QED
  BY <1>1, FS_Subset, FS_CardinalityType, LimiterConstants

\* The places the counts are about, after a turn has moved from one place to another
\* and, perhaps, to another Limiter.
LEMMA Moved ==
  ASSUME LimiterTypeOK, NEW t \in Turn, NEW to, NEW k,
         pc' = [pc EXCEPT ![t] = to], gate' = [gate EXCEPT ![t] = k]
  PROVE  \A g, w : At(g, w)' = IF g = k /\ w = to THEN At(g, w) \cup {t} ELSE At(g, w) \ {t}
BY DEF At, LimiterTypeOK

LEMMA LimiterInitInv == LimiterInit => LimiterInv
<1> SUFFICES ASSUME LimiterInit PROVE LimiterInv
  OBVIOUS
<1>1. NewLimiter(config) \in Gates /\ NewLimiter(config) = [limit |-> config, active |-> 0, waiters |-> <<>>]
  BY DEF LimiterInit, NewLimiter, Gates
<1>2. limiters \in Seq(Gates) /\ Len(limiters) = 1 /\ limiters[1] = NewLimiter(config)
  BY <1>1 DEF LimiterInit
<1>3. LimiterTypeOK
  BY <1>2 DEF LimiterInit, LimiterTypeOK, Gates
<1>4. Alone
  BY <1>1, <1>2 DEF LimiterInit, Alone
<1>5. Cardinality(At(1, "holds")) = 0 /\ Cardinality(At(1, "woken")) = 0
  <2>1. At(1, "holds") = {} /\ At(1, "woken") = {}
    BY DEF LimiterInit, At
  <2> QED
    BY <2>1, FS_EmptySet
<1>6. Queued(1) /\ Counted(1)
  BY <1>1, <1>2, <1>5 DEF Queued, Once, Counted
<1>7. Within(1) /\ Busy(1)
  BY <1>1, <1>2, <1>5, LimiterConstants DEF Within, Busy, LimiterInit
<1> QED
  BY <1>2, <1>3, <1>4, <1>6, <1>7 DEF LimiterInv

\* With no waiter woken, MayRun lets any task run.
LEMMA NoneWoken ==
  ASSUME MayRun, ~barging, NEW g
  PROVE  Cardinality(At(g, "woken")) = 0
<1>1. At(g, "woken") = {}
  BY DEF MayRun, At
<1> QED
  BY <1>1, FS_EmptySet

LEMMA EntryIs ==
  ASSUME LimiterTypeOK, NEW g \in 1..Len(limiters)
  PROVE  /\ limiters \in Seq(Gates) /\ limiters[g] \in Gates
         /\ limiters[g].limit \in Maximum /\ limiters[g].limit \in Nat
         /\ limiters[g].active \in Nat /\ limiters[g].waiters \in Seq(Turn)
<1>1. limiters \in Seq(Gates)
  BY DEF LimiterTypeOK, Gates
<1>2. limiters[g] \in Gates
  BY <1>1
<1> QED
  BY <1>1, <1>2, LimiterConstants DEF Gates

\* A Limiter that a step leaves alone, and whose turns it does not move.
LEMMA OthersKeep ==
  ASSUME LimiterInv, NEW g \in 1..Len(limiters), limiters'[g] = limiters[g], barging' = barging,
         At(g, "waiting")' = At(g, "waiting"), At(g, "woken")' = At(g, "woken"),
         At(g, "holds")' = At(g, "holds")
  PROVE  Queued(g)' /\ Counted(g)' /\ Within(g)' /\ Busy(g)'
BY DEF LimiterInv, Queued, Once, Counted, Within, Busy

\* What is left of a queue when one waiter has gone.
LEMMA Shortened ==
  ASSUME NEW q \in Seq(Turn), NEW W, NEW i \in 1..Len(q), Once(q, W)
  PROVE  RemoveAt(q, i) \in Seq(Turn) /\ Once(RemoveAt(q, i), W \ {q[i]})
<1> DEFINE r == RemoveAt(q, i)
<1>1. r \in Seq(Turn) /\ Len(r) = Len(q) - 1
      /\ \A j \in 1..(Len(q) - 1) : r[j] = q[IF j < i THEN j ELSE j + 1]
  BY RemoveAtIs
<1> HIDE DEF r
<1> USE DEF Once
<1>2. ASSUME NEW j \in 1..Len(r), NEW k \in 1..Len(r), r[j] = r[k] PROVE j = k
  <2>1. (IF j < i THEN j ELSE j + 1) = (IF k < i THEN k ELSE k + 1)
    BY <1>1, <1>2
  <2> QED
    BY <2>1
<1>3. ASSUME NEW j \in 1..Len(r) PROVE r[j] \in W \ {q[i]}
  BY <1>1
<1>4. \A j \in 1..Len(r) : r[j] \in W \ {q[i]} /\ \A k \in 1..Len(r) : r[j] = r[k] => j = k
  BY <1>2, <1>3
<1> QED
  BY <1>1, <1>4 DEF r

LEMMA GrownQueue ==
  ASSUME NEW q \in Seq(Turn), NEW W, NEW t \in Turn, t \notin W, Once(q, W)
  PROVE  Append(q, t) \in Seq(Turn) /\ Once(Append(q, t), W \cup {t})
<1> DEFINE r == Append(q, t)
<1>1. r \in Seq(Turn) /\ Len(r) = Len(q) + 1 /\ r[Len(q) + 1] = t
      /\ \A j \in 1..Len(q) : r[j] = q[j]
  BY GrownIs
<1> HIDE DEF r
<1> USE DEF Once
<1>2. ASSUME NEW j \in 1..Len(r) PROVE IF j = Len(q) + 1 THEN r[j] = t ELSE j \in 1..Len(q) /\ r[j] = q[j]
  BY <1>1
<1>3. ASSUME NEW j \in 1..Len(r), NEW k \in 1..Len(r), r[j] = r[k] PROVE j = k
  BY <1>1, <1>2, <1>3
<1>4. \A j \in 1..Len(r) : r[j] \in W \cup {t} /\ \A k \in 1..Len(r) : r[j] = r[k] => j = k
  BY <1>1, <1>2, <1>3
<1> QED
  BY <1>1, <1>4 DEF r

LEMMA ReloadKeeps == ASSUME LimiterInv, NEW m \in Maximum, Reload(m) PROVE LimiterInv'
<1>1. LimiterTypeOK' /\ Alone'
  BY DEF Reload, LimiterInv, LimiterTypeOK, Alone
<1>2. ASSUME NEW g, NEW w PROVE At(g, w)' = At(g, w)
  BY DEF Reload, At
<1>3. UNCHANGED <<limiters, barging>>
  BY DEF Reload
<1> QED
  BY <1>1, <1>2, <1>3 DEF LimiterInv, Queued, Once, Counted, Within, Busy

LEMMA BeginKeeps == ASSUME LimiterInv, NEW t \in Turn, BeginTurn(t) PROVE LimiterInv'
<1>1. LimiterTypeOK' /\ Alone'
  BY DEF BeginTurn, LimiterInv, LimiterTypeOK, Alone
<1>2. ASSUME NEW g, NEW w \in {"waiting", "woken", "holds"} PROVE At(g, w)' = At(g, w)
  BY DEF BeginTurn, At, LimiterInv, LimiterTypeOK
<1>3. UNCHANGED <<limiters, barging>>
  BY DEF BeginTurn
<1> QED
  BY <1>1, <1>2, <1>3 DEF LimiterInv, Queued, Once, Counted, Within, Busy

LEMMA EnterKeeps == ASSUME LimiterInv, NEW t \in Turn, Enter(t) PROVE LimiterInv'
<1> DEFINE k == gate[t]
           new == [limiters[k] EXCEPT !.active = @ + 1]
<1> USE DEF LimiterInv
<1>1. k \in 1..Len(limiters) /\ pc[t] = "woken"
  BY DEF Enter, LimiterTypeOK
<1>2. new \in Gates /\ new.active = limiters[k].active + 1 /\ new.limit = limiters[k].limit
      /\ new.waiters = limiters[k].waiters
  <2>1. limiters[k] \in Gates /\ limiters[k].active + 1 \in Nat
    BY <1>1, EntryIs
  <2> QED
    BY <2>1 DEF Gates
<1>3. limiters' = [limiters EXCEPT ![k] = new]
  BY DEF Enter
<1>4. pc' = [pc EXCEPT ![t] = "holds"] /\ gate' = [gate EXCEPT ![t] = k]
  BY DEF Enter, LimiterTypeOK
<1>5. UNCHANGED <<config, frozen, gate, reloads, barging>>
  BY DEF Enter
<1> HIDE DEF new
<1>6. limiters' \in Seq(Gates) /\ Len(limiters') = Len(limiters) /\ limiters'[k] = new
      /\ \A h \in 1..Len(limiters) : h # k => limiters'[h] = limiters[h]
  BY <1>1, <1>2, <1>3, EntryIs, PutIs
<1>7. LimiterTypeOK'
  <2>1. pc' \in [Turn -> {"idle", "ready", "waiting", "woken", "holds"}]
    BY <1>4 DEF LimiterTypeOK
  <2> QED
    BY <1>5, <1>6, <2>1 DEF LimiterTypeOK, Gates
<1>8. Alone'
  BY <1>1, <1>2, <1>5, <1>6 DEF Alone
<1>9. ASSUME NEW g \in 1..Len(limiters')
      PROVE  Queued(g)' /\ Counted(g)' /\ Within(g)' /\ Busy(g)'
  <2>1. g \in 1..Len(limiters) /\ Queued(g) /\ Counted(g) /\ Within(g) /\ Busy(g)
    BY <1>6
  <2>2. At(g, "waiting")' = At(g, "waiting")
    BY <1>1, <1>4 DEF At, LimiterTypeOK
  <2>3. CASE g = k
    <3>1. Cardinality(At(g, "holds")') = Cardinality(At(g, "holds")) + 1
      <4>1. At(g, "holds")' = At(g, "holds") \cup {t} /\ t \notin At(g, "holds")
        BY <1>1, <1>4, <2>3 DEF At, LimiterTypeOK
      <4> QED
        BY <4>1, Joins, Sizes
    <3>2. Cardinality(At(g, "woken")') = Cardinality(At(g, "woken")) - 1
      <4>1. At(g, "woken")' = At(g, "woken") \ {t} /\ t \in At(g, "woken")
        BY <1>1, <1>4, <2>3 DEF At, LimiterTypeOK
      <4> QED
        BY <4>1, Parts, Sizes
    <3>3. limiters'[g] = new
      BY <1>6, <2>3
    <3>4. Queued(g)'
      BY <1>2, <2>1, <2>2, <2>3, <3>3 DEF Queued
    <3>5. Counted(g)'
      BY <1>2, <2>1, <2>3, <3>1, <3>3 DEF Counted
    <3>6. limiters'[g].active + Cardinality(At(g, "woken")') = limiters[g].active + Cardinality(At(g, "woken"))
      <4>1. limiters[g].active \in Nat /\ Cardinality(At(g, "woken")) \in Nat
        BY <2>1, EntryIs, Sizes
      <4> QED
        BY <1>2, <2>3, <3>2, <3>3, <4>1
    <3>7. Within(g)' /\ Busy(g)'
      BY <1>2, <1>5, <2>1, <2>3, <3>3, <3>6 DEF Within, Busy
    <3> QED
      BY <3>4, <3>5, <3>7
  <2>4. CASE g # k
    <3>1. At(g, "holds")' = At(g, "holds") /\ At(g, "woken")' = At(g, "woken")
      BY <1>1, <1>4, <2>4 DEF At, LimiterTypeOK
    <3>2. limiters'[g] = limiters[g]
      BY <1>6, <2>1, <2>4
    <3> QED
      BY <1>5, <2>1, <2>2, <3>1, <3>2, OthersKeep
  <2> QED
    BY <2>3, <2>4
<1> QED
  BY <1>7, <1>8, <1>9

LEMMA GiveUpKeeps == ASSUME LimiterInv, NEW t \in Turn, GiveUp(t) PROVE LimiterInv'
<1> USE DEF LimiterInv
<1>1. gate[t] \in 1..Len(limiters) /\ pc' = [pc EXCEPT ![t] = "idle"]
      /\ UNCHANGED <<config, frozen, gate, reloads, barging>>
  BY DEF GiveUp, LimiterTypeOK
<1>2. pc' \in [Turn -> {"idle", "ready", "waiting", "woken", "holds"}]
  BY <1>1 DEF LimiterTypeOK
<1>3. CASE pc[t] = "ready" /\ UNCHANGED limiters
  <2>1. LimiterTypeOK' /\ Alone'
    BY <1>1, <1>2, <1>3 DEF LimiterTypeOK, Alone
  <2>2. ASSUME NEW g, NEW w \in {"waiting", "woken", "holds"} PROVE At(g, w)' = At(g, w)
    BY <1>1, <1>3 DEF At, LimiterTypeOK
  <2> QED
    BY <1>1, <1>3, <2>1, <2>2, OthersKeep
<1>4. ASSUME pc[t] = "waiting", NEW i \in 1..Len(limiters[gate[t]].waiters),
             limiters[gate[t]].waiters[i] = t,
             limiters' = [limiters EXCEPT ![gate[t]].waiters = RemoveAt(@, i)]
      PROVE  LimiterInv'
  <2>0. PICK k \in 1..Len(limiters) : k = gate[t]
    BY <1>1
  <2> DEFINE q == limiters[k].waiters
             r == RemoveAt(q, i)
             new == [limiters[k] EXCEPT !.waiters = r]
  <2>1. q \in Seq(Turn) /\ limiters[k] \in Gates /\ Queued(k) /\ Counted(k) /\ Within(k) /\ Busy(k)
    BY EntryIs
  <2>2. Once(q, At(k, "waiting"))
    BY <2>1 DEF Queued
  <2>3. r \in Seq(Turn) /\ Once(r, At(k, "waiting") \ {q[i]})
    BY <1>4, <2>0, <2>1, <2>2, Shortened
  <2>4. limiters' = [limiters EXCEPT ![k] = new]
    BY <1>4, <2>0
  <2>5. q[i] = t /\ q # <<>>
    BY <1>4, <2>0, <2>1
  <2> HIDE DEF q, r
  <2>6. new \in Gates /\ new.active = limiters[k].active /\ new.limit = limiters[k].limit /\ new.waiters = r
    BY <2>1, <2>3 DEF Gates
  <2> HIDE DEF new
  <2>7. limiters' \in Seq(Gates) /\ Len(limiters') = Len(limiters) /\ limiters'[k] = new
        /\ \A h \in 1..Len(limiters) : h # k => limiters'[h] = limiters[h]
    BY <1>1, <2>4, <2>6, EntryIs, PutIs
  <2>8. LimiterTypeOK'
    BY <1>1, <1>2, <2>7 DEF LimiterTypeOK, Gates
  <2>9. Alone'
    BY <1>1, <2>6, <2>7 DEF Alone
  <2>10. ASSUME NEW g, NEW w \in {"woken", "holds"} PROVE At(g, w)' = At(g, w)
    BY <1>1, <1>4 DEF At, LimiterTypeOK
  <2>11. ASSUME NEW g, g # k PROVE At(g, "waiting")' = At(g, "waiting")
    BY <1>1, <1>4, <2>0, <2>11 DEF At, LimiterTypeOK
  <2>12. At(k, "waiting")' = At(k, "waiting") \ {t}
    BY <1>1, <1>4, <2>0 DEF At, LimiterTypeOK
  <2>13. Queued(k)'
    BY <2>3, <2>5, <2>6, <2>7, <2>12, <1>1 DEF Queued
  <2>14. Counted(k)' /\ Within(k)'
    BY <1>1, <2>1, <2>6, <2>7, <2>10 DEF Counted, Within
  <2>15. Busy(k)'
    BY <1>1, <2>1, <2>5, <2>6, <2>7, <2>10 DEF Busy, q
  <2>16. ASSUME NEW g \in 1..Len(limiters'), g # k
         PROVE  Queued(g)' /\ Counted(g)' /\ Within(g)' /\ Busy(g)'
    BY <1>1, <2>7, <2>10, <2>11, <2>16, OthersKeep
  <2>17. \A g \in 1..Len(limiters') : Queued(g)' /\ Counted(g)' /\ Within(g)' /\ Busy(g)'
    BY <2>13, <2>14, <2>15, <2>16
  <2> QED
    BY <2>8, <2>9, <2>17
<1> QED
  BY <1>3, <1>4 DEF GiveUp

LEMMA ReleaseKeeps == ASSUME LimiterInv, NEW t \in Turn, Release(t) PROVE LimiterInv'
<1> USE DEF LimiterInv
<1>1. PICK next \in {"ready", "idle"} :
        IF limiters[gate[t]].waiters = <<>>
        THEN /\ limiters' = [limiters EXCEPT ![gate[t]].active = Freed(@)]
             /\ pc' = [pc EXCEPT ![t] = next]
        ELSE /\ limiters' = [limiters EXCEPT ![gate[t]].active = Freed(@),
                                             ![gate[t]].waiters = RemoveAt(@, 1)]
             /\ pc' = [pc EXCEPT ![t] = next, ![limiters[gate[t]].waiters[1]] = "woken"]
  BY DEF Release, NextIn
<1>2. pc[t] = "holds" /\ UNCHANGED <<config, frozen, gate, reloads, barging>>
  BY DEF Release
<1>3. PICK k \in 1..Len(limiters) : k = gate[t]
  BY DEF LimiterTypeOK
<1> DEFINE q == limiters[k].waiters
           n == limiters[k].active
<1>4. /\ q \in Seq(Turn) /\ limiters[k] \in Gates /\ n \in Nat /\ limiters[k].limit \in Nat
      /\ Queued(k) /\ Counted(k) /\ Within(k) /\ Busy(k)
  BY EntryIs
<1>5. n = Cardinality(At(k, "holds")) /\ t \in At(k, "holds")
  BY <1>2, <1>3, <1>4 DEF Counted, At
<1>6. n > 0 /\ n - 1 \in Nat /\ Freed(n) = n - 1
  <2>1. Cardinality(At(k, "holds")) > 0
    BY <1>5, Parts, Sizes
  <2> QED
    BY <1>4, <1>5, <2>1 DEF Freed
<1> HIDE DEF n, q
<1>7. CASE q = <<>>
  <2> DEFINE new == [limiters[k] EXCEPT !.active = n - 1]
  <2>1. limiters' = [limiters EXCEPT ![k] = new] /\ pc' = [pc EXCEPT ![t] = next]
    BY <1>1, <1>3, <1>6, <1>7 DEF n, q
  <2>2. new \in Gates /\ new.active = n - 1 /\ new.limit = limiters[k].limit /\ new.waiters = q
    BY <1>4, <1>6 DEF Gates, q
  <2> HIDE DEF new
  <2>3. limiters' \in Seq(Gates) /\ Len(limiters') = Len(limiters) /\ limiters'[k] = new
        /\ \A h \in 1..Len(limiters) : h # k => limiters'[h] = limiters[h]
    BY <2>1, <2>2, EntryIs, PutIs
  <2>4. pc' \in [Turn -> {"idle", "ready", "waiting", "woken", "holds"}]
    BY <2>1 DEF LimiterTypeOK
  <2>5. LimiterTypeOK'
    BY <1>2, <2>3, <2>4 DEF LimiterTypeOK, Gates
  <2>6. Alone'
    BY <1>2, <2>2, <2>3 DEF Alone
  <2>7. ASSUME NEW g PROVE At(g, "waiting")' = At(g, "waiting") /\ At(g, "woken")' = At(g, "woken")
    BY <1>2, <2>1 DEF At, LimiterTypeOK
  <2>8. ASSUME NEW g, g # k PROVE At(g, "holds")' = At(g, "holds")
    BY <1>2, <1>3, <2>1, <2>8 DEF At, LimiterTypeOK
  <2>9. At(k, "holds")' = At(k, "holds") \ {t}
    BY <1>2, <1>3, <2>1 DEF At, LimiterTypeOK
  <2>10. Counted(k)'
    BY <1>5, <2>2, <2>3, <2>9, Parts, Sizes DEF Counted
  <2>11. Queued(k)' /\ Busy(k)'
    BY <1>4, <1>7, <2>2, <2>3, <2>7 DEF Queued, Busy, q
  <2>12. Within(k)'
    <3>1. Cardinality(At(k, "woken")) \in Nat
      BY Sizes
    <3> QED
      BY <1>2, <1>4, <2>2, <2>3, <2>7, <3>1 DEF Within, n
  <2>13. \A g \in 1..Len(limiters') : g # k => Queued(g)' /\ Counted(g)' /\ Within(g)' /\ Busy(g)'
    BY <1>2, <2>3, <2>7, <2>8, OthersKeep
  <2> QED
    BY <2>5, <2>6, <2>10, <2>11, <2>12, <2>13
<1>8. CASE q # <<>>
  <2>0. PICK u \in Turn : u = q[1] /\ 1 \in 1..Len(q)
    BY <1>4, <1>8 DEF q
  <2> DEFINE r == RemoveAt(q, 1)
             new == [limiters[k] EXCEPT !.active = n - 1, !.waiters = r]
  <2>1. limiters' = [limiters EXCEPT ![k] = new] /\ pc' = [pc EXCEPT ![t] = next, ![u] = "woken"]
    BY <1>1, <1>3, <1>6, <1>8, <2>0 DEF n, q
  <2>2. u \in At(k, "waiting") /\ u # t /\ r \in Seq(Turn) /\ Once(r, At(k, "waiting") \ {u})
    <3>1. Once(q, At(k, "waiting")) /\ q \in Seq(Turn)
      BY <1>4 DEF Queued, q
    <3>2. u \in At(k, "waiting")
      BY <2>0, <3>1 DEF Once
    <3> QED
      BY <1>2, <2>0, <3>1, <3>2, Shortened DEF At
  <2> HIDE DEF r
  <2>3. new \in Gates /\ new.active = n - 1 /\ new.limit = limiters[k].limit /\ new.waiters = r
    BY <1>4, <1>6, <2>2 DEF Gates
  <2> HIDE DEF new
  <2>4. limiters' \in Seq(Gates) /\ Len(limiters') = Len(limiters) /\ limiters'[k] = new
        /\ \A h \in 1..Len(limiters) : h # k => limiters'[h] = limiters[h]
    BY <2>1, <2>3, EntryIs, PutIs
  <2>5. pc' \in [Turn -> {"idle", "ready", "waiting", "woken", "holds"}]
    BY <2>1 DEF LimiterTypeOK
  <2>6. LimiterTypeOK'
    BY <1>2, <2>4, <2>5 DEF LimiterTypeOK, Gates
  <2>7. Alone'
    BY <1>2, <2>3, <2>4 DEF Alone
  <2>8. pc[u] = "waiting" /\ gate[u] = k
    BY <2>2 DEF At
  <2>9. ASSUME NEW g, g # k
        PROVE  /\ At(g, "waiting")' = At(g, "waiting") /\ At(g, "woken")' = At(g, "woken")
               /\ At(g, "holds")' = At(g, "holds")
    BY <1>2, <1>3, <2>1, <2>8, <2>9 DEF At, LimiterTypeOK
  <2>10. At(k, "holds")' = At(k, "holds") \ {t}
    BY <1>2, <1>3, <2>1, <2>2, <2>8 DEF At, LimiterTypeOK
  <2>11. At(k, "waiting")' = At(k, "waiting") \ {u}
    BY <1>2, <1>3, <2>1, <2>2, <2>8 DEF At, LimiterTypeOK
  <2>12. At(k, "woken")' = At(k, "woken") \cup {u} /\ u \notin At(k, "woken")
    BY <1>2, <1>3, <2>1, <2>2, <2>8 DEF At, LimiterTypeOK
  <2>13. Counted(k)'
    BY <1>5, <2>3, <2>4, <2>10, Parts, Sizes DEF Counted
  <2>14. Queued(k)'
    BY <2>2, <2>3, <2>4, <2>11 DEF Queued
  <2>15. new.active + Cardinality(At(k, "woken")') = n + Cardinality(At(k, "woken"))
    <3>1. Cardinality(At(k, "woken")') = Cardinality(At(k, "woken")) + 1
      BY <2>12, Joins, Sizes
    <3>2. Cardinality(At(k, "woken")) \in Nat /\ n \in Nat
      BY <1>4, Sizes DEF n
    <3> QED
      BY <2>3, <3>1, <3>2
  <2>16. Within(k)' /\ Busy(k)'
    BY <1>2, <1>4, <1>8, <2>3, <2>4, <2>15 DEF Within, Busy, n, q
  <2>17. \A g \in 1..Len(limiters') : g # k => Queued(g)' /\ Counted(g)' /\ Within(g)' /\ Busy(g)'
    BY <1>2, <2>4, <2>9, OthersKeep
  <2> QED
    BY <2>6, <2>7, <2>13, <2>14, <2>16, <2>17
<1> QED
  BY <1>7, <1>8

\* The Limiter that limiter(key, maximum) answers: the last one, or a new one at
\* which no turn has been.
LEMMA RegistryIs ==
  ASSUME LimiterInv, NEW t \in Turn, NEW m \in Maximum,
         NEW now, now = Registry(m), NEW k, k = Len(now)
  PROVE  /\ now \in Seq(Gates) /\ Len(limiters) \in 1..k /\ k \in 1..Len(now)
         /\ \A h \in 1..k : h # k => h \in 1..Len(limiters) /\ now[h] = limiters[h]
         /\ Once(now[k].waiters, At(k, "waiting"))
         /\ now[k].active = Cardinality(At(k, "holds"))
         /\ ~barging => now[k].active + Cardinality(At(k, "woken")) <= now[k].limit
         /\ now[k].waiters # <<>>
              => now[k].active + Cardinality(At(k, "woken")) >= now[k].limit
         /\ limiters[Len(limiters)].limit = m => now = limiters
<1> USE DEF LimiterInv
<1>1. limiters \in Seq(Gates) /\ Len(limiters) \in Nat /\ Len(limiters) > 0
  BY DEF LimiterTypeOK, Gates
<1>2. CASE limiters[Len(limiters)].limit = m
  <2>1. now = limiters /\ k = Len(limiters)
    BY <1>2 DEF Registry
  <2>2. Queued(k) /\ Counted(k) /\ Within(k) /\ Busy(k)
    BY <1>1, <2>1
  <2> QED
    BY <1>1, <2>1, <2>2 DEF Queued, Counted, Within, Busy
<1>3. CASE limiters[Len(limiters)].limit # m
  <2> DEFINE new == NewLimiter(m)
  <2>1. new \in Gates /\ new.active = 0 /\ new.waiters = <<>> /\ new.limit = m
    BY DEF NewLimiter, Gates
  <2>2. now = Append(limiters, new)
    BY <1>3 DEF Registry
  <2> HIDE DEF new
  <2>3. now \in Seq(Gates) /\ k = Len(limiters) + 1 /\ now[k] = new
        /\ \A h \in 1..Len(limiters) : now[h] = limiters[h]
    BY <1>1, <2>1, <2>2, GrownIs
  <2>4. \A h \in 1..k : h # k => h \in 1..Len(limiters)
    BY <1>1, <2>3
  <2>5. \A w : At(k, w) = {}
    BY <1>1, <2>3 DEF At, LimiterTypeOK
  <2>6. Cardinality(At(k, "holds")) = 0 /\ Cardinality(At(k, "woken")) = 0
    BY <2>5, FS_EmptySet
  <2>7. Once(new.waiters, At(k, "waiting"))
    BY <2>1 DEF Once
  <2>8. m \in Nat
    BY LimiterConstants
  <2> QED
    BY <1>1, <1>3, <2>1, <2>3, <2>4, <2>6, <2>7, <2>8
<1> QED
  BY <1>2, <1>3

LEMMA CallKeeps == ASSUME LimiterInv, NEW t \in Turn, CallProvider(t) PROVE LimiterInv'
<1> USE DEF LimiterInv
<1>1. PICK now : now = Registry(frozen[t])
  OBVIOUS
<1>2. PICK k : k = Len(now)
  OBVIOUS
<1>3. /\ pc[t] = "ready" /\ gate' = [gate EXCEPT ![t] = k] /\ MayRun
      /\ UNCHANGED <<config, frozen, reloads, barging>>
      /\ \/ /\ now[k].active < now[k].limit
            /\ limiters' = [now EXCEPT ![k].active = @ + 1]
            /\ pc' = [pc EXCEPT ![t] = "holds"]
         \/ /\ ~(now[k].active < now[k].limit)
            /\ limiters' = [now EXCEPT ![k].waiters = Append(@, t)]
            /\ pc' = [pc EXCEPT ![t] = "waiting"]
  BY <1>1, <1>2 DEF CallProvider
<1>4. frozen[t] \in Maximum
  BY DEF LimiterTypeOK
<1> DEFINE q == now[k].waiters
           n == now[k].active
           m == now[k].limit
           W == Cardinality(At(k, "woken"))
<1>5. /\ now \in Seq(Gates) /\ Len(limiters) \in 1..k /\ k \in 1..Len(now)
      /\ \A h \in 1..k : h # k => h \in 1..Len(limiters) /\ now[h] = limiters[h]
  BY <1>1, <1>2, <1>4, RegistryIs
<1>6. /\ Once(q, At(k, "waiting")) /\ n = Cardinality(At(k, "holds"))
      /\ (~barging => n + W <= m) /\ (q # <<>> => n + W >= m)
  BY <1>1, <1>2, <1>4, RegistryIs
<1>7. limiters[Len(limiters)].limit = frozen[t] => now = limiters
  BY <1>1, <1>2, <1>4, RegistryIs
<1>8. now[k] \in Gates /\ q \in Seq(Turn) /\ n \in Nat /\ m \in Nat /\ W \in Nat
  <2>1. now[k] \in Gates
    BY <1>5
  <2> QED
    BY <2>1, Sizes, LimiterConstants DEF Gates
<1>9. ASSUME NEW to \in {"holds", "waiting"}, NEW new \in Gates, new.limit = m,
             limiters' = [now EXCEPT ![k] = new], pc' = [pc EXCEPT ![t] = to],
             Once(new.waiters, At(k, "waiting")'), new.active = Cardinality(At(k, "holds")'),
             ~barging => new.active + W <= m, new.waiters # <<>> => new.active + W >= m
      PROVE  LimiterInv'
  <2>1. limiters' \in Seq(Gates) /\ Len(limiters') = k /\ limiters'[k] = new
        /\ \A h \in 1..k : h # k => limiters'[h] = limiters[h]
    BY <1>2, <1>5, <1>9, PutIs
  <2>2. pc' \in [Turn -> {"idle", "ready", "waiting", "woken", "holds"}]
    BY <1>9 DEF LimiterTypeOK
  <2>3. k \in 1..k /\ \A h \in 1..Len(limiters) : h \in 1..k
    BY <1>5
  <2>4. gate' \in [Turn -> 1..Len(limiters')]
    BY <1>3, <2>1, <2>3 DEF LimiterTypeOK
  <2>5. LimiterTypeOK'
    BY <1>3, <2>1, <2>2, <2>4 DEF LimiterTypeOK, Gates
  <2>6. Alone'
    <3>1. SUFFICES ASSUME reloads' = 0
                   PROVE  Len(limiters') = 1 /\ limiters'[1].limit = config'
                          /\ \A u \in Turn : frozen'[u] = config'
      BY DEF Alone
    <3>2. Len(limiters) = 1 /\ limiters[1].limit = config /\ \A u \in Turn : frozen[u] = config
      BY <1>3, <3>1 DEF Alone
    <3>3. now = limiters /\ k = 1
      BY <1>2, <1>7, <3>2
    <3> QED
      BY <1>3, <1>9, <2>1, <3>2, <3>3
  <2>7. At(k, "woken")' = At(k, "woken")
    BY <1>3, <1>9 DEF At, LimiterTypeOK
  <2>8. Queued(k)' /\ Counted(k)' /\ Within(k)' /\ Busy(k)'
    BY <1>3, <1>9, <2>1, <2>7 DEF Queued, Counted, Within, Busy
  <2>9. ASSUME NEW g \in 1..Len(limiters'), g # k
        PROVE  Queued(g)' /\ Counted(g)' /\ Within(g)' /\ Busy(g)'
    <3>1. g \in 1..Len(limiters) /\ limiters'[g] = limiters[g]
      BY <1>5, <2>1, <2>9
    <3>2. /\ At(g, "waiting")' = At(g, "waiting") /\ At(g, "woken")' = At(g, "woken")
          /\ At(g, "holds")' = At(g, "holds")
      BY <1>3, <1>9, <2>9 DEF At, LimiterTypeOK
    <3> QED
      BY <1>3, <3>1, <3>2, OthersKeep
  <2> QED
    BY <2>5, <2>6, <2>8, <2>9
<1>10. CASE /\ n < m /\ limiters' = [now EXCEPT ![k].active = @ + 1]
            /\ pc' = [pc EXCEPT ![t] = "holds"]
  <2> DEFINE new == [now[k] EXCEPT !.active = @ + 1]
  <2>1. limiters' = [now EXCEPT ![k] = new]
    BY <1>10
  <2>2. new \in Gates /\ new.active = n + 1 /\ new.limit = m /\ new.waiters = q
    BY <1>8 DEF Gates
  <2>3. At(k, "waiting")' = At(k, "waiting")
    BY <1>3, <1>10 DEF At, LimiterTypeOK
  <2>4. At(k, "holds")' = At(k, "holds") \cup {t} /\ t \notin At(k, "holds")
    BY <1>3, <1>10 DEF At, LimiterTypeOK
  <2>5. Cardinality(At(k, "holds")') = n + 1
    BY <1>6, <2>4, Joins, Sizes
  <2>6. ~barging => W = 0
    BY <1>3, NoneWoken
  <2> HIDE DEF new, q, n, m, W
  <2>7. (~barging => n + 1 + W <= m) /\ (q # <<>> => n + 1 + W >= m)
    BY <1>6, <1>8, <1>10, <2>6
  <2>8. Once(new.waiters, At(k, "waiting")')
    BY <1>6, <2>2, <2>3
  <2> QED
    BY <1>9, <1>10, <2>1, <2>2, <2>5, <2>7, <2>8
<1>11. CASE /\ ~(n < m) /\ limiters' = [now EXCEPT ![k].waiters = Append(@, t)]
            /\ pc' = [pc EXCEPT ![t] = "waiting"]
  <2> DEFINE new == [now[k] EXCEPT !.waiters = Append(@, t)]
  <2>1. limiters' = [now EXCEPT ![k] = new]
    BY <1>11
  <2>2. At(k, "holds")' = At(k, "holds")
    BY <1>3, <1>11 DEF At, LimiterTypeOK
  <2>3. At(k, "waiting")' = At(k, "waiting") \cup {t} /\ t \notin At(k, "waiting")
    BY <1>3, <1>11 DEF At, LimiterTypeOK
  <2>4. Append(q, t) \in Seq(Turn) /\ Once(Append(q, t), At(k, "waiting")')
    BY <1>6, <1>8, <2>3, GrownQueue
  <2>5. new \in Gates /\ new.active = n /\ new.limit = m /\ new.waiters = Append(q, t)
    BY <1>8, <2>4 DEF Gates
  <2> HIDE DEF new, q, n, m, W
  <2>6. (~barging => n + W <= m) /\ n + W >= m
    BY <1>6, <1>8, <1>11
  <2>7. Once(new.waiters, At(k, "waiting")')
    BY <2>4, <2>5
  <2> QED
    BY <1>6, <1>9, <1>11, <2>1, <2>2, <2>5, <2>6, <2>7
<1> QED
  BY <1>3, <1>10, <1>11

\* What every step keeps.
LEMMA LimiterStepKeeps == LimiterInv /\ [LimiterNext]_limiterVars => LimiterInv'
<1> SUFFICES ASSUME LimiterInv, [LimiterNext]_limiterVars PROVE LimiterInv'
  OBVIOUS
<1>1. ASSUME NEW m \in Maximum, Reload(m) PROVE LimiterInv'
  BY <1>1, ReloadKeeps
<1>2. ASSUME NEW t \in Turn, BeginTurn(t) PROVE LimiterInv'
  BY <1>2, BeginKeeps
<1>3. ASSUME NEW t \in Turn, CallProvider(t) PROVE LimiterInv'
  BY <1>3, CallKeeps
<1>4. ASSUME NEW t \in Turn, GiveUp(t) PROVE LimiterInv'
  BY <1>4, GiveUpKeeps
<1>5. ASSUME NEW t \in Turn, Release(t) PROVE LimiterInv'
  BY <1>5, ReleaseKeeps
<1>6. ASSUME NEW t \in Turn, Enter(t) PROVE LimiterInv'
  BY <1>6, EnterKeeps
<1>7. CASE UNCHANGED limiterVars
  <2>1. UNCHANGED <<config, frozen, limiters, gate, pc, reloads, barging>>
    BY <1>7 DEF limiterVars
  <2>2. \A g, w : At(g, w)' = At(g, w)
    BY <2>1 DEF At
  <2> QED
    BY <2>1, <2>2 DEF LimiterInv, LimiterTypeOK, Alone, Queued, Counted, Within, Busy
<1> QED
  BY <1>1, <1>2, <1>3, <1>4, <1>5, <1>6, <1>7 DEF LimiterNext

LEMMA InvGivesSlots == LimiterInv => SlotsExact
<1> SUFFICES ASSUME LimiterInv PROVE SlotsExact
  OBVIOUS
<1> USE DEF LimiterInv
<1>1. EachLimitHeld
  BY DEF EachLimitHeld, Within
<1>2. ActiveExact
  BY DEF ActiveExact, Counted
<1>3. NoIdleSlot
  BY DEF NoIdleSlot, Busy
<1>4. LimitHeld
  <2> SUFFICES ASSUME reloads = 0, ~barging
               PROVE  Cardinality({t \in Turn : pc[t] = "holds"}) <= config
    BY DEF LimitHeld
  <2>1. Len(limiters) = 1 /\ limiters[1].limit = config /\ 1 \in 1..Len(limiters)
    BY DEF Alone
  <2>2. {t \in Turn : pc[t] = "holds"} = At(1, "holds")
    BY <2>1 DEF At, LimiterTypeOK
  <2>3. limiters[1].active + Cardinality(At(1, "woken")) <= config
        /\ limiters[1].active = Cardinality(At(1, "holds"))
    BY <2>1 DEF Within, Counted
  <2>4. config \in Nat
    BY LimiterConstants DEF LimiterTypeOK
  <2>5. Cardinality(At(1, "holds")) \in Nat /\ Cardinality(At(1, "woken")) \in Nat
    BY Sizes
  <2>6. Cardinality(At(1, "holds")) <= config
    BY <2>3, <2>4, <2>5
  <2> QED
    BY <2>2, <2>6, Zenon
<1> QED
  BY <1>1, <1>2, <1>3, <1>4 DEF SlotsExact

\* The count, the queue and the limit of every Limiter agree, for any number of turns, settings
\* and reloads of the configuration (class Limiter and limiter in providers.mjs).
THEOREM SlotsAreExact == LimiterSpec => []SlotsExact
<1>1. LimiterSpec => []LimiterInv
  BY LimiterInitInv, LimiterStepKeeps, PTL DEF LimiterSpec
<1> QED
  BY <1>1, InvGivesSlots, PTL

-----------------------------------------------------------------------------
(* One call. *)

\* What every step keeps: the timer and the ghosts stay in their ranges, nothing
\* is started without a process or buffered before the header, and whatever is left on the timer of a stream
\* whose consumer is not slow, or of a finite answer, was not waited for yet.
Ranges == timer \in 0 .. TimeoutMs /\ quiet \in 0 .. TimeoutMs /\ age \in 0 .. TimeoutMs

Flags == streaming \in BOOLEAN /\ full \in BOOLEAN /\ started \in BOOLEAN

NothingBefore == (curl = "none" => ~started) /\ (~started => ~streaming /\ ~full)

Waited ==
  timer > 0 => /\ streaming => ~full /\ quiet + timer >= TimeoutMs
               /\ ~streaming => age + timer >= TimeoutMs

CallInv == Ranges /\ Flags /\ NothingBefore /\ Waited

LEMMA CallInitInv == CallInit => CallInv
<1> SUFFICES ASSUME CallInit PROVE CallInv
  OBVIOUS
<1>1. Ranges
  BY TransportAssumption DEF CallInit, Ranges
<1>2. Flags
  BY Zenon DEF CallInit, Flags
<1>3. NothingBefore /\ Waited
  BY DEF CallInit, NothingBefore, Waited
<1> QED
  BY <1>1, <1>2, <1>3 DEF CallInv

\* The steps that arm the timer, or stop it.
LEMMA ArmedKeeps ==
  ASSUME CallInv,
         \/ \E stream \in BOOLEAN : Headers(stream)
         \/ \E fills \in BOOLEAN : Chunk(fills)
         \/ Drain
  PROVE  CallInv'
<1> USE TransportAssumption DEF CallInv, Ranges, Flags, NothingBefore, Waited
<1>1. Armed \in {0, TimeoutMs}
  BY DEF Armed
<1>2. ASSUME NEW stream \in BOOLEAN, Headers(stream) PROVE CallInv'
  BY <1>1, <1>2 DEF Headers
<1>3. ASSUME NEW fills \in BOOLEAN, Chunk(fills) PROVE CallInv'
  BY <1>1, <1>3 DEF Chunk
<1>4. CASE Drain
  <2>1. UNCHANGED <<curl, streaming, started, age>> /\ full' = FALSE /\ quiet' = 0
    BY <1>4 DEF Drain
  <2>2. timer' = IF streaming THEN Armed ELSE timer
    BY <1>4 DEF Drain
  <2>3. Flags'
    BY <2>1, Zenon
  <2>4. Ranges'
    BY <1>1, <2>1, <2>2
  <2>5. Waited' /\ NothingBefore'
    BY <1>1, <2>1, <2>2
  <2> QED
    BY <2>3, <2>4, <2>5
<1> QED
  BY <1>2, <1>3, <1>4

\* All others.
LEMMA OtherKeeps ==
  ASSUME CallInv,
         \/ Spawns \/ Garbles \/ Tick \/ Expires \/ Abort \/ Leaves \/ Closes
         \/ \E how \in {"ok", "failed"} : Exits(how)
  PROVE  CallInv'
<1> USE TransportAssumption DEF CallInv, Ranges, Flags, NothingBefore, Waited, Killed
<1>1. CASE Spawns
  <2>1. curl = "none" /\ curl' \in {"none", "runs"} /\ UNCHANGED <<streaming, started, full, quiet, age>>
    BY <1>1 DEF Spawns
  <2>2. timer' \in {timer, TimeoutMs}
    BY <1>1 DEF Spawns
  <2>3. Flags' /\ NothingBefore'
    BY <2>1
  <2>4. Ranges'
    BY <2>1, <2>2
  <2>5. ~streaming' /\ ~full'
    BY <2>1
  <2>6. Waited'
    <3>1. CASE timer' = timer
      BY <2>1, <2>5, <3>1
    <3>2. CASE timer' = TimeoutMs
      BY <2>1, <2>4, <2>5, <3>2
    <3> QED
      BY <2>2, <3>1, <3>2
  <2> QED
    BY <2>3, <2>4, <2>6
<1>2. CASE Garbles
  BY <1>2 DEF Garbles, Broken
<1>3. CASE Tick
  BY <1>3 DEF Tick
<1>4. CASE Expires
  BY <1>4 DEF Expires
<1>5. CASE Abort \/ Leaves
  BY <1>5 DEF Abort, Leaves
<1>6. CASE Closes
  BY <1>6 DEF Closes, Broken
<1>7. ASSUME NEW how \in {"ok", "failed"}, Exits(how) PROVE CallInv'
  BY <1>7 DEF Exits
<1> QED
  BY <1>1, <1>2, <1>3, <1>4, <1>5, <1>6, <1>7

LEMMA CallStepKeeps == CallInv /\ [CallNext]_callVars => CallInv'
<1>1. ASSUME CallInv, UNCHANGED callVars PROVE CallInv'
  BY <1>1 DEF CallInv, Ranges, Flags, NothingBefore, Waited, callVars
<1> QED
  BY <1>1, ArmedKeeps, OtherKeeps DEF CallNext

\* A call is given up only after the provider was silent for the whole deadline,
\* or a finite answer after its total, however long the deadline is, however slow
\* the consumer, and whatever else ends at the same time (armDeadline in requestRaw).
THEOREM OnlyInSilence == CallSpec => GivenUpInSilence
<1> DEFINE Silent == timedOut' # timedOut =>
                       IF streaming THEN quiet' = TimeoutMs /\ ~full ELSE age' = TimeoutMs
<1>1. ASSUME CallInv, CallNext PROVE Silent
  <2>1. CASE Expires
    BY <2>1, <1>1, TransportAssumption DEF Expires, CallInv, Ranges, Waited
  <2>2. CASE ~Expires
    BY <2>2, <1>1 DEF CallNext, Spawns, Headers, Garbles, Chunk, Drain, Tick, Abort, Leaves,
                      Exits, Closes
  <2> QED
    BY <2>1, <2>2
<1>2. CallInv /\ [CallNext]_callVars => [Silent]_callVars
  BY <1>1
<1> QED
  BY CallInitInv, CallStepKeeps, <1>2, PTL DEF CallSpec, GivenUpInSilence

-----------------------------------------------------------------------------
(* The two filters of an answer: what their states and their events are. *)

Kinds == {"message", "call", "private"}
Types == {"added", "delta", "done"}
Event == [index : Nat, type : Types, what : Kinds \cup {"none", "unnamed"}, phase : Phases \cup {Absent}]
MadeItem == [kind : Kinds, phase : Phases \cup {Absent}, deltas : Nat, done : BOOLEAN]
Seen == [of : Nat \X Nat, type : Types, at : Nat, phase : Phases \cup {Absent}]
Streamed == [pending : Seq(Event), hidden : {"unknown", "yes", "no"}, done : BOOLEAN, at : {Absent} \cup Nat]

\* An event tells of an item what the item is.
Told(e, mk) ==
  /\ e \in Event /\ e.index \in 1 .. Len(mk) /\ mk[e.index].kind \in Kinds
  /\ e.type = "delta" => e.what = "none" /\ e.phase = Absent
  /\ e.type # "delta" => \/ e.what = mk[e.index].kind
                         \/ e.type = "added" /\ e.what = "unnamed" /\ mk[e.index].kind # "message"
  /\ mk[e.index].kind # "message" => e.phase = Absent

\* Under the policy a phase is the one its message ended with.
Certain(e, mk, p) ==
  p /\ e.phase # Absent => mk[e.index].done /\ e.phase = mk[e.index].phase

\* An item no name is known of holds its start and pieces of it.
Waits(it, i, mk) ==
  /\ ~it.done /\ Len(it.pending) > 0 /\ mk[i].kind # "message"
  /\ \A k \in 1 .. Len(it.pending) :
       /\ Told(it.pending[k], mk) /\ it.pending[k].index = i
       /\ it.pending[k].type = (IF k = 1 THEN "added" ELSE "delta")

\* An item of round r; one shown has its number in the output.
ItemOK(m, i, mk, r) ==
  LET it == m.items[i]
  IN /\ it \in Streamed
     /\ it.hidden = "unknown" => Waits(it, i, mk)
     /\ it.hidden = "no" =>
          /\ mk[i].kind # "private" /\ it.at \in Nat /\ it.at + 1 \in 1 .. Len(m.output)
          /\ m.output[it.at + 1] = <<r, i>>

\* A number of this round is that of an item that is shown under it.
NumberOK(m, n, r) ==
  LET x == m.output[n]
  IN /\ x \in Nat \X Nat /\ x[1] \in 1 .. r
     /\ x[1] = r => x[2] \in DOMAIN m.items /\ m.items[x[2]].hidden = "no" /\ m.items[x[2]].at = n - 1

\* What is shown of each item comes from its start to its end, under its number.
ShownAt(shown, numbers, k) ==
  /\ \E n \in 1 .. Len(numbers) : numbers[n] = shown[k].of
  /\ \A n \in 1 .. Len(numbers) : numbers[n] = shown[k].of => shown[k].at = n - 1
  /\ shown[k].type = "added" <=> \A j \in 1 .. Len(shown) : shown[j].of = shown[k].of => j >= k
  /\ shown[k].type = "done" => \A j \in 1 .. Len(shown) : shown[j].of = shown[k].of => j <= k
ShownOK(shown, numbers) == \A k \in 1 .. Len(shown) : ShownAt(shown, numbers, k)

\* The end of an item is shown once it is done, and not before.
EndShown(m, n, r) ==
  \E k \in 1 .. Len(m.shown) :
    /\ m.shown[k].of = m.output[n]
    /\ m.output[n][1] < r \/ m.items[m.output[n][2]].done => m.shown[k].type = "done"
EndTrue(m, k, r) ==
  m.shown[k].type = "done" /\ m.shown[k].of[1] = r => m.items[m.shown[k].of[2]].done
DoneOK(m, r) ==
  /\ \A n \in 1 .. Len(m.output) : EndShown(m, n, r)
  /\ \A k \in 1 .. Len(m.shown) : EndTrue(m, k, r)

\* Under the policy what is shown of an item has one phase, the one it ended with.
SamePhase(x, y) == x.of = y.of /\ x.phase # Absent /\ y.phase # Absent => x.phase = y.phase
TruePhase(x, mk, r) ==
  x.phase # Absent /\ x.of[1] = r => mk[x.of[2]].done /\ mk[x.of[2]].phase = x.phase
PhasesOK(shown, mk, r, p) ==
  p => /\ \A j, k \in 1 .. Len(shown) : SamePhase(shown[j], shown[k])
       /\ \A k \in 1 .. Len(shown) : TruePhase(shown[k], mk, r)

Merging(m) ==
  m \in [items : {m.items}, output : Seq(Nat \X Nat), shown : Seq(Seen), failed : {FALSE}]
MergedOK(m, mk, r, p) ==
  /\ Merging(m) /\ DOMAIN m.items \subseteq 1 .. Len(mk)
  /\ \A i \in DOMAIN m.items : ItemOK(m, i, mk, r)
  /\ \A n \in 1 .. Len(m.output) : NumberOK(m, n, r)
  /\ ShownOK(m.shown, m.output) /\ DoneOK(m, r) /\ PhasesOK(m.shown, mk, r, p)

\* An event may be pushed: it begins its item or goes on with it.
MayPush(m, e, mk, p) ==
  /\ Told(e, mk) /\ Certain(e, mk, p)
  /\ e.type = "added" <=> e.index \notin DOMAIN m.items
  /\ e.index \in DOMAIN m.items => ~m.items[e.index].done

\* What one push changes of the items.
OneMore(m, e, o) ==
  /\ DOMAIN o.items = DOMAIN m.items \cup {e.index}
  /\ \A i \in DOMAIN m.items : i # e.index => o.items[i] = m.items[i]
  /\ o.items[e.index].done <=> e.type = "done"

-----------------------------------------------------------------------------
LEMMA LeastOf ==
  ASSUME NEW T \in SUBSET Nat, T # {}
  PROVE  \E n \in T : \A m \in T : n <= m
<1>1. PICK n \in T : \A m \in T : <<m, n>> \notin OpToRel(<, Nat)
  BY NatLessThanWellFounded, WFMin, Zenon
<1>2. \A m \in T : ~(m < n)
  BY <1>1, Zenon DEF OpToRel
<1> QED
  BY <1>2

\* Pushing a queue, and completing the items one by one: loops over functions
\* that are defined by their own values.
PushTurn(m, q, g, i) == IF i = 0 THEN m ELSE Push(g[i - 1], q[i])

LEMMA PushesExist ==
  ASSUME NEW m, NEW q, NEW N \in Nat
  PROVE  \E g : g = [i \in 0 .. N |-> PushTurn(m, q, g, i)]
<1> DEFINE Good(n) == \E g : g = [i \in 0 .. n |-> PushTurn(m, q, g, i)]
<1> SUFFICES ASSUME {n \in Nat : ~Good(n)} # {} PROVE FALSE
  OBVIOUS
<1>1. PICK n \in {k \in Nat : ~Good(k)} : \A k \in {l \in Nat : ~Good(l)} : n <= k
  BY LeastOf
<1>2. CASE n = 0
  <2> DEFINE g == [i \in 0 .. 0 |-> m]
  <2>1. g = [i \in 0 .. 0 |-> PushTurn(m, q, g, i)]
    BY DEF PushTurn
  <2> QED
    BY <1>1, <1>2, <2>1
<1>3. CASE n # 0
  <2>1. n - 1 \in Nat /\ Good(n - 1)
    <3> HIDE DEF Good
    <3> QED
      BY <1>1, <1>3
  <2>2. PICK g : g = [i \in 0 .. n - 1 |-> PushTurn(m, q, g, i)]
    BY <2>1
  <2> DEFINE more == [i \in 0 .. n |-> PushTurn(m, q, g, i)]
  <2>3. ASSUME NEW i \in 0 .. n PROVE PushTurn(m, q, more, i) = PushTurn(m, q, g, i)
    <3>1. CASE i = 0
      BY <3>1 DEF PushTurn
    <3>2. CASE i # 0
      <4>1. i - 1 \in 0 .. n - 1 /\ i - 1 \in 0 .. n
        BY <1>1, <3>2
      <4>2. g[i - 1] = PushTurn(m, q, g, i - 1)
        BY <2>2, <4>1
      <4>3. more[i - 1] = g[i - 1]
        BY <4>1, <4>2
      <4> HIDE DEF more
      <4> QED
        BY <3>2, <4>3 DEF PushTurn
    <3> QED
      BY <3>1, <3>2
  <2>4. more = [i \in 0 .. n |-> PushTurn(m, q, more, i)]
    BY <2>3
  <2> QED
    BY <1>1, <2>4
<1> QED
  BY <1>2, <1>3

LEMMA PushedIs ==
  ASSUME NEW m, NEW q, NEW N \in Nat
  PROVE  \E g : /\ Pushed(m, q, N) = g[N]
                /\ \A i \in 0 .. N : g[i] = PushTurn(m, q, g, i)
<1> DEFINE g == CHOOSE g : g = [i \in 0 .. N |-> PushTurn(m, q, g, i)]
<1>1. g = [i \in 0 .. N |-> PushTurn(m, q, g, i)]
  BY PushesExist
<1>2. Pushed(m, q, N) = g[N]
  BY Zenon DEF Pushed, PushTurn
<1> HIDE DEF g
<1> QED
  BY <1>1, <1>2

LEMMA PushedNone ==
  ASSUME NEW m, NEW q
  PROVE  Pushed(m, q, 0) = m
<1>1. PICK g : /\ Pushed(m, q, 0) = g[0]
               /\ \A i \in 0 .. 0 : g[i] = PushTurn(m, q, g, i)
  BY PushedIs
<1> QED
  BY <1>1 DEF PushTurn

LEMMA PushedNext ==
  ASSUME NEW m, NEW q, NEW n \in Nat \ {0}
  PROVE  Pushed(m, q, n) = Push(Pushed(m, q, n - 1), q[n])
<1>1. PICK g : /\ Pushed(m, q, n) = g[n]
               /\ \A i \in 0 .. n : g[i] = PushTurn(m, q, g, i)
  BY PushedIs
<1>2. n - 1 \in Nat /\ n - 1 \in 0 .. n /\ \A i \in 0 .. n - 1 : i \in 0 .. n
  OBVIOUS
<1>3. PICK h : /\ Pushed(m, q, n - 1) = h[n - 1]
               /\ \A i \in 0 .. n - 1 : h[i] = PushTurn(m, q, h, i)
  BY <1>2, PushedIs
<1> DEFINE Bad == {i \in 0 .. n - 1 : g[i] # h[i]}
<1>4. Bad = {}
  <2> SUFFICES ASSUME Bad # {} PROVE FALSE
    OBVIOUS
  <2>1. PICK i \in Bad : \A k \in Bad : i <= k
    <3>1. Bad \in SUBSET Nat
      OBVIOUS
    <3> HIDE DEF Bad
    <3> QED
      BY <3>1, LeastOf
  <2>2. CASE i = 0
    BY <1>1, <1>3, <2>1, <2>2 DEF PushTurn
  <2>3. CASE i # 0
    <3>1. i - 1 \in 0 .. n - 1 /\ i \in 0 .. n - 1 /\ i - 1 \notin Bad
      BY <2>1, <2>3
    <3>2. g[i - 1] = h[i - 1]
      BY <3>1
    <3>3. g[i] = Push(g[i - 1], q[i]) /\ h[i] = Push(h[i - 1], q[i])
      BY <1>1, <1>2, <1>3, <2>3, <3>1 DEF PushTurn
    <3> QED
      BY <2>1, <3>2, <3>3
  <2> QED
    BY <2>2, <2>3
<1>5. g[n] = Push(g[n - 1], q[n])
  BY <1>1 DEF PushTurn
<1>6. g[n - 1] = h[n - 1]
  BY <1>2, <1>4
<1> QED
  BY <1>1, <1>3, <1>5, <1>6

LEMMA AppendedIs ==
  ASSUME NEW S, NEW a \in Seq(S), NEW e \in S
  PROVE  /\ Append(a, e) \in Seq(S) /\ Len(a) \in Nat /\ Len(Append(a, e)) = Len(a) + 1
         /\ \A j \in 1 .. Len(Append(a, e)) :
              IF j = Len(a) + 1 THEN Append(a, e)[j] = e
              ELSE j \in 1 .. Len(a) /\ Append(a, e)[j] = a[j]
         /\ \A j \in 1 .. Len(a) : j \in 1 .. Len(Append(a, e)) /\ Append(a, e)[j] = a[j]
         /\ Len(a) + 1 \in 1 .. Len(Append(a, e)) /\ Append(a, e)[Len(a) + 1] = e
OBVIOUS

LEMMA ConcatIs ==
  ASSUME NEW S, NEW a \in Seq(S), NEW b \in Seq(S)
  PROVE  /\ a \o b \in Seq(S) /\ Len(a) \in Nat /\ Len(b) \in Nat /\ Len(a \o b) = Len(a) + Len(b)
         /\ \A j \in 1 .. Len(a \o b) :
              IF j <= Len(a) THEN j \in 1 .. Len(a) /\ (a \o b)[j] = a[j]
              ELSE j - Len(a) \in 1 .. Len(b) /\ (a \o b)[j] = b[j - Len(a)]
         /\ \A j \in 1 .. Len(a) : j \in 1 .. Len(a \o b) /\ (a \o b)[j] = a[j]
         /\ \A j \in 1 .. Len(b) : Len(a) + j \in 1 .. Len(a \o b) /\ (a \o b)[Len(a) + j] = b[j]
<1>1. a \o b \in Seq(S) /\ Len(a) \in Nat /\ Len(b) \in Nat /\ Len(a \o b) = Len(a) + Len(b)
  OBVIOUS
<1>2. \A j \in 1 .. Len(a) : j \in 1 .. Len(a \o b) /\ (a \o b)[j] = a[j]
  OBVIOUS
<1>3. \A j \in 1 .. Len(b) : Len(a) + j \in 1 .. Len(a \o b) /\ (a \o b)[Len(a) + j] = b[j]
  OBVIOUS
<1>4. ASSUME NEW j \in 1 .. Len(a \o b), ~(j <= Len(a))
      PROVE  j - Len(a) \in 1 .. Len(b) /\ (a \o b)[j] = b[j - Len(a)]
  BY <1>4
<1>5. ASSUME NEW j \in 1 .. Len(a \o b), j <= Len(a)
      PROVE  j \in 1 .. Len(a) /\ (a \o b)[j] = a[j]
  BY <1>5
<1> QED
  BY <1>1, <1>2, <1>3, <1>4, <1>5

\* One more event of an item that is shown and not ended.
GoesOn(shown, numbers, e, N) ==
  /\ ShownOK(shown, numbers)
  /\ e.type # "added" /\ N \in 1 .. Len(numbers) /\ numbers[N] = e.of /\ e.at = N - 1
  /\ \A n \in 1 .. Len(numbers) : numbers[n] = e.of => n = N
  /\ \A k \in 1 .. Len(shown) : shown[k].of = e.of => shown[k].type # "done"
  /\ \E k \in 1 .. Len(shown) : shown[k].of = e.of

LEMMA ShownOneMore ==
  ASSUME NEW shown \in Seq(Seen), NEW numbers \in Seq(Nat \X Nat), NEW e \in Seen, NEW N,
         GoesOn(shown, numbers, e, N)
  PROVE  ShownOK(Append(shown, e), numbers)
<1>0. /\ ShownOK(shown, numbers)
      /\ e.type # "added" /\ N \in 1 .. Len(numbers) /\ numbers[N] = e.of /\ e.at = N - 1
      /\ \A n \in 1 .. Len(numbers) : numbers[n] = e.of => n = N
      /\ \A k \in 1 .. Len(shown) : shown[k].of = e.of => shown[k].type # "done"
      /\ \E k \in 1 .. Len(shown) : shown[k].of = e.of
  BY DEF GoesOn
<1> DEFINE s == Append(shown, e)
<1> DEFINE L == Len(shown)
<1>1. Len(s) = L + 1 /\ s[L + 1] = e /\ L \in Nat /\ L + 1 \in 1 .. Len(s)
  BY AppendedIs
<1>2. \A k \in 1 .. L : k \in 1 .. Len(s) /\ s[k] = shown[k]
  BY AppendedIs
<1>6. \A j \in 1 .. Len(s) : IF j = L + 1 THEN s[j] = e ELSE j \in 1 .. L /\ s[j] = shown[j]
  BY AppendedIs
<1>3. SUFFICES ASSUME NEW k \in 1 .. Len(s) PROVE ShownAt(s, numbers, k)
  BY DEF ShownOK
<1> HIDE DEF s, L
<1>4. CASE k = L + 1
  <2>1. \E n \in 1 .. Len(numbers) : numbers[n] = s[k].of
    BY <1>0, <1>1, <1>4
  <2>2. \A n \in 1 .. Len(numbers) : numbers[n] = s[k].of => s[k].at = n - 1
    BY <1>0, <1>1, <1>4
  <2>3. PICK i \in 1 .. L : shown[i].of = e.of
    BY <1>0 DEF L
  <2>4. i \in 1 .. Len(s) /\ s[i].of = s[k].of /\ ~(i >= k)
    <3>1. i \in 1 .. Len(s) /\ s[i] = shown[i]
      BY <1>2
    <3>2. s[i].of = s[k].of
      BY <1>1, <1>4, <2>3, <3>1
    <3>3. ~(i >= k)
      BY <1>1, <1>4
    <3> QED
      BY <3>1, <3>2, <3>3
  <2>5. s[k].type = "added" <=> \A j \in 1 .. Len(s) : s[j].of = s[k].of => j >= k
    BY <1>0, <1>1, <1>4, <2>4
  <2>6. \A j \in 1 .. Len(s) : j <= k
    BY <1>0, <1>1, <1>4
  <2> QED
    BY <2>1, <2>2, <2>5, <2>6 DEF ShownAt, L
<1>5. CASE k # L + 1
  <2>1. k \in 1 .. L /\ s[k] = shown[k]
    BY <1>6, <1>5
  <2>2. ShownAt(shown, numbers, k)
    BY <1>0, <2>1 DEF ShownOK, L
  <2>3. \A j \in 1 .. Len(s) : \/ j = L + 1 /\ s[j] = e
                               \/ j \in 1 .. L /\ s[j] = shown[j]
    BY <1>6
  <2>4. s[k].type = "added" <=> \A j \in 1 .. Len(s) : s[j].of = s[k].of => j >= k
    <3>1. ASSUME \A j \in 1 .. Len(s) : s[j].of = s[k].of => j >= k PROVE s[k].type = "added"
      <4>1. \A j \in 1 .. L : shown[j].of = shown[k].of => j >= k
        BY <1>1, <1>2, <2>1, <3>1
      <4> QED
        BY <2>1, <2>2, <4>1 DEF ShownAt, L
    <3>2. ASSUME s[k].type = "added", NEW j \in 1 .. Len(s), s[j].of = s[k].of PROVE j >= k
      <4>1. \A i \in 1 .. L : shown[i].of = shown[k].of => i >= k
        BY <2>1, <2>2, <3>2 DEF ShownAt, L
      <4>2. CASE j = L + 1
        BY <2>1, <1>1, <4>2
      <4>3. CASE j \in 1 .. L /\ s[j] = shown[j]
        BY <2>1, <4>1, <4>3, <3>2
      <4> QED
        BY <4>2, <4>3, <2>3
    <3> QED
      BY <3>1, <3>2
  <2>5. ASSUME s[k].type = "done", NEW j \in 1 .. Len(s), s[j].of = s[k].of PROVE j <= k
    <3>1. \A i \in 1 .. L : shown[i].of = shown[k].of => i <= k
      BY <2>1, <2>2, <2>5 DEF ShownAt, L
    <3>2. shown[k].of # e.of
      BY <1>0, <2>1, <2>5 DEF L
    <3> QED
      BY <2>1, <2>3, <2>5, <3>1, <3>2
  <2> QED
    BY <2>1, <2>2, <2>4, <2>5 DEF ShownAt, L
<1> QED
  BY <1>4, <1>5 DEF s

\* The first events of an item, under the next number.
Begins(shown, numbers, news, x) ==
  /\ ShownOK(shown, numbers) /\ \A n \in 1 .. Len(numbers) : numbers[n] # x
  /\ Len(news) > 0
  /\ \A k \in 1 .. Len(news) : /\ news[k].of = x /\ news[k].at = Len(numbers)
                               /\ news[k].type = "added" <=> k = 1
                               /\ news[k].type = "done" => k = Len(news)

LEMMA ShownBegins ==
  ASSUME NEW shown \in Seq(Seen), NEW numbers \in Seq(Nat \X Nat), NEW news \in Seq(Seen),
         NEW x \in Nat \X Nat, Begins(shown, numbers, news, x)
  PROVE  ShownOK(shown \o news, Append(numbers, x))
<1>0. /\ ShownOK(shown, numbers) /\ \A n \in 1 .. Len(numbers) : numbers[n] # x
      /\ Len(news) > 0
      /\ \A k \in 1 .. Len(news) : /\ news[k].of = x /\ news[k].at = Len(numbers)
                                   /\ news[k].type = "added" <=> k = 1
                                   /\ news[k].type = "done" => k = Len(news)
  BY DEF Begins
<1> DEFINE s == shown \o news
           o == Append(numbers, x)
           L == Len(shown)
           K == Len(news)
<1>1. Len(s) = L + K /\ L \in Nat /\ K \in Nat \ {0}
  BY <1>0
<1>2. \A k \in 1 .. L : s[k] = shown[k]
  OBVIOUS
<1>3. \A k \in 1 .. K : s[L + k] = news[k]
  OBVIOUS
<1> DEFINE M == Len(numbers)
<1>4. /\ M \in Nat /\ M + 1 \in 1 .. Len(o) /\ o[M + 1] = x
      /\ \A n \in 1 .. M : n \in 1 .. Len(o) /\ o[n] = numbers[n]
  BY AppendedIs
<1>5. \A n \in 1 .. Len(o) : IF n = M + 1 THEN o[n] = x ELSE n \in 1 .. M /\ o[n] = numbers[n]
  BY AppendedIs
<1>6. SUFFICES ASSUME NEW k \in 1 .. Len(s) PROVE ShownAt(s, o, k)
  BY DEF ShownOK
<1> HIDE DEF s, o, L, K, M
<1>7. \A j \in 1 .. Len(s) : IF j <= L THEN j \in 1 .. L /\ s[j] = shown[j]
                                      ELSE j - L \in 1 .. K /\ s[j] = news[j - L]
  <2> TAKE j \in 1 .. Len(s)
  <2>1. CASE j <= L
    BY <1>1, <1>2, <2>1
  <2>2. CASE ~(j <= L)
    <3>1. j - L \in 1 .. K /\ L + (j - L) = j
      BY <1>1, <2>2
    <3>2. s[L + (j - L)] = news[j - L]
      BY <1>3, <3>1
    <3> QED
      BY <2>2, <3>1, <3>2
  <2> QED
    BY <2>1, <2>2
<1>8. ASSUME NEW j \in 1 .. L PROVE shown[j].of # x
  <2>1. ShownAt(shown, numbers, j)
    BY <1>0 DEF ShownOK, L
  <2> QED
    BY <1>0, <2>1 DEF ShownAt, M
<1>9. \A j \in 1 .. Len(s) : IF j <= L THEN s[j].of # x
        ELSE /\ s[j].of = x /\ s[j].at = M
             /\ s[j].type = "added" <=> j = L + 1
             /\ s[j].type = "done" => j = L + K
  <2> TAKE j \in 1 .. Len(s)
  <2>1. CASE j <= L
    BY <1>7, <1>8, <2>1
  <2>2. CASE ~(j <= L)
    <3>1. j - L \in 1 .. K /\ s[j] = news[j - L]
      BY <1>7, <2>2
    <3>2. /\ news[j - L].of = x /\ news[j - L].at = M
          /\ news[j - L].type = "added" <=> j - L = 1
          /\ news[j - L].type = "done" => j - L = K
      BY <1>0, <3>1 DEF K, M
    <3> QED
      BY <1>1, <2>2, <3>1, <3>2
  <2> QED
    BY <2>1, <2>2
<1>10. CASE k <= L
  <2>1. k \in 1 .. L /\ s[k] = shown[k] /\ shown[k].of # x
    BY <1>7, <1>8, <1>10
  <2>2. ShownAt(shown, numbers, k)
    BY <1>0, <2>1 DEF ShownOK, L
  <2>3. \E n \in 1 .. Len(o) : o[n] = s[k].of
    <3>1. PICK n \in 1 .. M : numbers[n] = shown[k].of
      BY <2>2 DEF ShownAt, M
    <3> QED
      BY <3>1, <2>1, <1>4, <1>5
  <2>4. ASSUME NEW n \in 1 .. Len(o), o[n] = s[k].of PROVE s[k].at = n - 1
    <3>1. n \in 1 .. M /\ numbers[n] = shown[k].of
      BY <1>4, <1>5, <2>1, <2>4
    <3> QED
      BY <3>1, <2>1, <2>2 DEF ShownAt, M
  <2>5. \A j \in 1 .. Len(s) : s[j].of = s[k].of => j \in 1 .. L /\ shown[j].of = shown[k].of
    BY <1>7, <1>9, <2>1
  <2>6. \A j \in 1 .. L : j \in 1 .. Len(s) /\ s[j] = shown[j]
    BY <1>1, <1>2
  <2>7. (\A j \in 1 .. Len(s) : s[j].of = s[k].of => j >= k)
          <=> (\A j \in 1 .. L : shown[j].of = shown[k].of => j >= k)
    BY <2>1, <2>5, <2>6
  <2>8. s[k].type = "added" <=> \A j \in 1 .. Len(s) : s[j].of = s[k].of => j >= k
    BY <2>1, <2>2, <2>7 DEF ShownAt, L, M
  <2>9. s[k].type = "done" => \A j \in 1 .. Len(s) : s[j].of = s[k].of => j <= k
    BY <2>1, <2>2, <2>5 DEF ShownAt, L, M
  <2> QED
    BY <2>3, <2>4, <2>8, <2>9 DEF ShownAt, M
<1>11. CASE ~(k <= L)
  <2>1. /\ s[k].of = x /\ s[k].at = M
        /\ s[k].type = "added" <=> k = L + 1
        /\ s[k].type = "done" => k = L + K
    BY <1>9, <1>11
  <2>2. \E n \in 1 .. Len(o) : o[n] = s[k].of
    BY <1>4, <2>1
  <2>3. ASSUME NEW n \in 1 .. Len(o), o[n] = s[k].of PROVE s[k].at = n - 1
    <3>1. n = M + 1
      BY <1>0, <1>5, <2>1, <2>3 DEF M
    <3> QED
      BY <1>4, <2>1, <3>1
  <2>4. \A j \in 1 .. Len(s) : s[j].of = s[k].of => j >= L + 1
    BY <1>1, <1>9, <2>1
  <2>5. L + 1 \in 1 .. Len(s) /\ s[L + 1].of = x
    <3>1. L + 1 \in 1 .. Len(s) /\ ~(L + 1 <= L)
      BY <1>1
    <3> QED
      BY <1>9, <3>1
  <2>6. s[k].type = "added" <=> \A j \in 1 .. Len(s) : s[j].of = s[k].of => j >= k
    <3>1. ASSUME s[k].type = "added", NEW j \in 1 .. Len(s), s[j].of = s[k].of PROVE j >= k
      <4>1. k = L + 1 /\ j >= L + 1
        BY <2>1, <2>4, <3>1
      <4> QED
        BY <4>1
    <3>2. ASSUME \A j \in 1 .. Len(s) : s[j].of = s[k].of => j >= k PROVE k = L + 1
      <4>1. L + 1 >= k
        BY <2>1, <2>5, <3>2
      <4> QED
        BY <1>1, <1>11, <4>1
    <3> QED
      BY <2>1, <3>1, <3>2
  <2>7. s[k].type = "done" => \A j \in 1 .. Len(s) : s[j].of = s[k].of => j <= k
    BY <1>1, <2>1
  <2> QED
    BY <2>2, <2>3, <2>6, <2>7 DEF ShownAt, M
<1> QED
  BY <1>10, <1>11 DEF s, o

LEMMA PhasesOneMore ==
  ASSUME NEW shown \in Seq(Seen), NEW e \in Seen, NEW mk, NEW r, NEW p,
         PhasesOK(shown, mk, r, p), e.of[1] = r, p => TruePhase(e, mk, r)
  PROVE  PhasesOK(Append(shown, e), mk, r, p)
<1> DEFINE s == Append(shown, e)
<1>1. Len(s) = Len(shown) + 1 /\ s[Len(shown) + 1] = e /\ Len(shown) \in Nat
  OBVIOUS
<1>2. \A k \in 1 .. Len(shown) : s[k] = shown[k]
  OBVIOUS
<1> HIDE DEF s
<1>3. \A j \in 1 .. Len(s) : \/ s[j] = e
                             \/ j \in 1 .. Len(shown) /\ s[j] = shown[j]
  BY <1>1, <1>2
<1>4. SUFFICES ASSUME p PROVE /\ \A j, k \in 1 .. Len(s) : SamePhase(s[j], s[k])
                              /\ \A k \in 1 .. Len(s) : TruePhase(s[k], mk, r)
  BY DEF PhasesOK, s
<1>5. /\ \A j, k \in 1 .. Len(shown) : SamePhase(shown[j], shown[k])
      /\ \A k \in 1 .. Len(shown) : TruePhase(shown[k], mk, r)
  BY <1>4 DEF PhasesOK
<1>6. TruePhase(e, mk, r)
  BY <1>4
<1>7. \A k \in 1 .. Len(s) : TruePhase(s[k], mk, r)
  BY <1>3, <1>5, <1>6
<1>8. ASSUME NEW k \in 1 .. Len(shown) PROVE SamePhase(e, shown[k]) /\ SamePhase(shown[k], e)
  <2>1. TruePhase(shown[k], mk, r)
    BY <1>5
  <2> QED
    BY <1>6, <2>1 DEF SamePhase, TruePhase
<1>9. SamePhase(e, e)
  BY DEF SamePhase
<1>10. ASSUME NEW j \in 1 .. Len(s), NEW k \in 1 .. Len(s) PROVE SamePhase(s[j], s[k])
  <2>1. CASE s[j] = e
    BY <2>1, <1>3, <1>8, <1>9
  <2>2. CASE j \in 1 .. Len(shown) /\ s[j] = shown[j]
    BY <2>2, <1>3, <1>8, <1>5
  <2> QED
    BY <2>1, <2>2, <1>3
<1> QED
  BY <1>7, <1>10

LEMMA PhasesBegin ==
  ASSUME NEW shown \in Seq(Seen), NEW news \in Seq(Seen), NEW mk, NEW r, NEW p,
         PhasesOK(shown, mk, r, p),
         \A k \in 1 .. Len(news) : news[k].of[1] = r /\ (p => TruePhase(news[k], mk, r))
  PROVE  PhasesOK(shown \o news, mk, r, p)
<1> DEFINE s == shown \o news
<1>1. \A j \in 1 .. Len(s) : \/ \E k \in 1 .. Len(news) : s[j] = news[k]
                             \/ \E k \in 1 .. Len(shown) : s[j] = shown[k]
  <2> TAKE j \in 1 .. Len(s)
  <2>1. CASE j <= Len(shown)
    BY <2>1
  <2>2. CASE ~(j <= Len(shown))
    <3>1. j - Len(shown) \in 1 .. Len(news) /\ s[j] = news[j - Len(shown)]
      BY <2>2
    <3> QED
      BY <3>1
  <2> QED
    BY <2>1, <2>2
<1> HIDE DEF s
<1>2. SUFFICES ASSUME p PROVE /\ \A j, k \in 1 .. Len(s) : SamePhase(s[j], s[k])
                              /\ \A k \in 1 .. Len(s) : TruePhase(s[k], mk, r)
  BY DEF PhasesOK, s
<1>3. /\ \A j, k \in 1 .. Len(shown) : SamePhase(shown[j], shown[k])
      /\ \A k \in 1 .. Len(shown) : TruePhase(shown[k], mk, r)
  BY <1>2 DEF PhasesOK
<1>4. \A k \in 1 .. Len(news) : news[k].of[1] = r /\ TruePhase(news[k], mk, r)
  BY <1>2
<1>5. \A k \in 1 .. Len(s) : TruePhase(s[k], mk, r)
  BY <1>1, <1>3, <1>4
<1>6. ASSUME NEW j \in 1 .. Len(s), NEW k \in 1 .. Len(s) PROVE SamePhase(s[j], s[k])
  <2>1. TruePhase(s[j], mk, r) /\ TruePhase(s[k], mk, r)
    BY <1>5
  <2>2. CASE s[j].of[1] = r
    BY <2>1, <2>2 DEF SamePhase, TruePhase
  <2>3. CASE s[k].of[1] = r
    BY <2>1, <2>3 DEF SamePhase, TruePhase
  <2>4. CASE s[j].of[1] # r /\ s[k].of[1] # r
    BY <1>1, <1>3, <1>4, <2>4
  <2> QED
    BY <2>2, <2>3, <2>4
<1> QED
  BY <1>5, <1>6

LEMMA MergedParts ==
  ASSUME NEW m, NEW mk, NEW r \in Nat, NEW p, MergedOK(m, mk, r, p)
  PROVE  /\ m.output \in Seq(Nat \X Nat) /\ m.shown \in Seq(Seen)
         /\ DOMAIN m.items \subseteq 1 .. Len(mk)
         /\ \A i \in DOMAIN m.items : ItemOK(m, i, mk, r)
         /\ \A n \in 1 .. Len(m.output) : NumberOK(m, n, r)
         /\ ShownOK(m.shown, m.output) /\ PhasesOK(m.shown, mk, r, p)
         /\ \A n \in 1 .. Len(m.output) : EndShown(m, n, r)
         /\ \A k \in 1 .. Len(m.shown) : EndTrue(m, k, r)
         /\ \A k \in 1 .. Len(m.shown) : \E n \in 1 .. Len(m.output) : m.output[n] = m.shown[k].of
<1>1. m.output \in Seq(Nat \X Nat) /\ m.shown \in Seq(Seen)
  BY DEF MergedOK, Merging
<1>2. \A k \in 1 .. Len(m.shown) : \E n \in 1 .. Len(m.output) : m.output[n] = m.shown[k].of
  BY DEF MergedOK, ShownOK, ShownAt
<1> QED
  BY <1>1, <1>2 DEF MergedOK, DoneOK

\* What is shown of an item of this round.
LEMMA ShownNumber ==
  ASSUME NEW m, NEW mk, NEW r \in Nat, NEW p, MergedOK(m, mk, r, p),
         NEW k \in 1 .. Len(m.shown), m.shown[k].of[1] = r
  PROVE  m.shown[k].of[2] \in DOMAIN m.items /\ m.items[m.shown[k].of[2]].hidden = "no"
<1>1. PICK n \in 1 .. Len(m.output) : m.output[n] = m.shown[k].of
  BY MergedParts
<1>2. NumberOK(m, n, r)
  BY MergedParts
<1> QED
  BY <1>1, <1>2 DEF NumberOK

\* Only an item that is not shown changes, and is not shown yet.
LEMMA HiddenChanges ==
  ASSUME NEW m, NEW mk, NEW r \in Nat, NEW p, MergedOK(m, mk, r, p),
         NEW i \in 1 .. Len(mk), i \in DOMAIN m.items => m.items[i].hidden # "no",
         NEW it \in Streamed, it.hidden # "no", it.hidden = "unknown" => Waits(it, i, mk),
         NEW o, Merging(o), o.items = Having(m.items, i, it), o.output = m.output, o.shown = m.shown
  PROVE  MergedOK(o, mk, r, p)
<1>1. /\ DOMAIN o.items = DOMAIN m.items \cup {i} /\ o.items[i] = it
      /\ \A j \in DOMAIN m.items : j # i => o.items[j] = m.items[j]
  BY DEF Having
<1>2. DOMAIN o.items \subseteq 1 .. Len(mk)
  BY <1>1, MergedParts
<1>3. ASSUME NEW j \in DOMAIN o.items PROVE ItemOK(o, j, mk, r)
  <2>1. CASE j = i
    BY <1>1, <2>1 DEF ItemOK
  <2>2. CASE j # i
    <3>1. ItemOK(m, j, mk, r) /\ o.items[j] = m.items[j]
      BY <1>1, <2>2, MergedParts
    <3> QED
      BY <3>1 DEF ItemOK
  <2> QED
    BY <2>1, <2>2
<1>4. ASSUME NEW n \in 1 .. Len(o.output) PROVE NumberOK(o, n, r)
  <2>1. NumberOK(m, n, r)
    BY MergedParts
  <2> QED
    BY <1>1, <2>1 DEF NumberOK
<1>5. ASSUME NEW n \in 1 .. Len(o.output) PROVE EndShown(o, n, r)
  <2>1. EndShown(m, n, r) /\ NumberOK(m, n, r)
    BY MergedParts
  <2>2. m.output[n][1] = r => o.items[m.output[n][2]] = m.items[m.output[n][2]]
    BY <1>1, <2>1 DEF NumberOK
  <2>3. m.output[n][1] = r \/ m.output[n][1] < r
    BY <2>1 DEF NumberOK
  <2>4. PICK k \in 1 .. Len(m.shown) :
          /\ m.shown[k].of = m.output[n]
          /\ m.output[n][1] < r \/ m.items[m.output[n][2]].done => m.shown[k].type = "done"
    BY <2>1 DEF EndShown
  <2>5. m.output[n][1] < r \/ o.items[m.output[n][2]].done => m.shown[k].type = "done"
    BY <2>2, <2>3, <2>4
  <2> QED
    BY <2>4, <2>5 DEF EndShown
<1>6. ASSUME NEW k \in 1 .. Len(o.shown) PROVE EndTrue(o, k, r)
  <2>1. EndTrue(m, k, r)
    BY MergedParts
  <2>2. m.shown[k].of[1] = r => o.items[m.shown[k].of[2]] = m.items[m.shown[k].of[2]]
    <3>1. m.shown[k].of[1] = r => m.shown[k].of[2] \in DOMAIN m.items /\ m.items[m.shown[k].of[2]].hidden = "no"
      BY ShownNumber
    <3> QED
      BY <1>1, <3>1
  <2> QED
    BY <2>1, <2>2 DEF EndTrue
<1>7. ShownOK(o.shown, o.output) /\ PhasesOK(o.shown, mk, r, p)
  BY MergedParts
<1> QED
  BY <1>2, <1>3, <1>4, <1>5, <1>6, <1>7 DEF MergedOK, DoneOK

\* One more event of an item that is shown.
LEMMA ShownGoesOn ==
  ASSUME NEW m, NEW mk, NEW r \in Nat, NEW p, MergedOK(m, mk, r, p),
         NEW i \in DOMAIN m.items, m.items[i].hidden = "no", ~m.items[i].done,
         NEW it \in Streamed, it.hidden = "no", it.at = m.items[i].at,
         NEW e \in Seen, e.of = <<r, i>>, e.type # "added", e.at = it.at, it.done <=> e.type = "done",
         p => TruePhase(e, mk, r),
         NEW o, Merging(o), o.items = Having(m.items, i, it), o.output = m.output,
         o.shown = Append(m.shown, e)
  PROVE  MergedOK(o, mk, r, p)
<1>0. m.output \in Seq(Nat \X Nat) /\ m.shown \in Seq(Seen) /\ DOMAIN m.items \subseteq 1 .. Len(mk)
  BY MergedParts
<1>1. /\ DOMAIN o.items = DOMAIN m.items \cup {i} /\ o.items[i] = it
      /\ \A j \in DOMAIN m.items : j # i => o.items[j] = m.items[j]
  BY DEF Having
<1>9. /\ mk[i].kind # "private" /\ it.at \in Nat /\ it.at + 1 \in 1 .. Len(m.output)
      /\ m.output[it.at + 1] = <<r, i>>
  <2>1. ItemOK(m, i, mk, r)
    BY MergedParts
  <2> QED
    BY <2>1 DEF ItemOK
<1>2. DOMAIN o.items \subseteq 1 .. Len(mk)
  BY <1>0, <1>1
<1>3. ASSUME NEW j \in DOMAIN o.items PROVE ItemOK(o, j, mk, r)
  <2>1. CASE j = i
    BY <1>1, <1>9, <2>1 DEF ItemOK
  <2>2. CASE j # i
    <3>1. ItemOK(m, j, mk, r) /\ o.items[j] = m.items[j]
      BY <1>1, <2>2, MergedParts
    <3> QED
      BY <3>1 DEF ItemOK
  <2> QED
    BY <2>1, <2>2
<1>4. ASSUME NEW n \in 1 .. Len(o.output) PROVE NumberOK(o, n, r)
  <2>1. NumberOK(m, n, r)
    BY MergedParts
  <2> QED
    BY <1>1, <2>1 DEF NumberOK
<1>10. /\ o.shown \in Seq(Seen) /\ Len(m.shown) \in Nat
       /\ \A j \in 1 .. Len(o.shown) :
            IF j = Len(m.shown) + 1 THEN o.shown[j] = e ELSE j \in 1 .. Len(m.shown) /\ o.shown[j] = m.shown[j]
       /\ \A j \in 1 .. Len(m.shown) : j \in 1 .. Len(o.shown) /\ o.shown[j] = m.shown[j]
       /\ Len(m.shown) + 1 \in 1 .. Len(o.shown) /\ o.shown[Len(m.shown) + 1] = e
  BY <1>0, AppendedIs
<1>5. ASSUME NEW n \in 1 .. Len(o.output) PROVE EndShown(o, n, r)
  <2>1. EndShown(m, n, r) /\ NumberOK(m, n, r)
    BY MergedParts
  <2>2. CASE m.output[n] = <<r, i>>
    <3>1. o.items[m.output[n][2]].done => e.type = "done"
      BY <1>1, <2>2
    <3>2. ~(m.output[n][1] < r)
      BY <2>2
    <3> QED
      BY <1>10, <2>2, <3>1, <3>2 DEF EndShown
  <2>3. CASE m.output[n] # <<r, i>>
    <3>1. m.output[n] \in Nat \X Nat
      BY <2>1 DEF NumberOK
    <3>2. m.output[n][1] = r => m.output[n][2] # i
      BY <2>3, <3>1
    <3>3. m.output[n][1] = r => o.items[m.output[n][2]] = m.items[m.output[n][2]]
      BY <1>1, <2>1, <3>2 DEF NumberOK
    <3>4. m.output[n][1] = r \/ m.output[n][1] < r
      BY <2>1 DEF NumberOK
    <3>5. PICK k \in 1 .. Len(m.shown) :
            /\ m.shown[k].of = m.output[n]
            /\ m.output[n][1] < r \/ m.items[m.output[n][2]].done => m.shown[k].type = "done"
      BY <2>1 DEF EndShown
    <3>6. m.output[n][1] < r \/ o.items[m.output[n][2]].done => m.shown[k].type = "done"
      BY <3>3, <3>4, <3>5
    <3>7. k \in 1 .. Len(o.shown) /\ o.shown[k] = m.shown[k]
      BY <1>10
    <3> QED
      BY <3>5, <3>6, <3>7 DEF EndShown
  <2> QED
    BY <2>2, <2>3
<1>6. ASSUME NEW k \in 1 .. Len(o.shown) PROVE EndTrue(o, k, r)
  <2>1. CASE o.shown[k] = e
    BY <1>1, <2>1 DEF EndTrue
  <2>2. CASE k \in 1 .. Len(m.shown) /\ o.shown[k] = m.shown[k]
    <3>1. EndTrue(m, k, r)
      BY <2>2, MergedParts
    <3>2. m.shown[k].of[1] = r => m.shown[k].of[2] \in DOMAIN m.items
      BY <2>2, ShownNumber
    <3> QED
      BY <1>1, <2>2, <3>1, <3>2 DEF EndTrue
  <2> QED
    BY <1>10, <2>1, <2>2
<1>7. ShownOK(o.shown, o.output)
  <2>1. \A n \in 1 .. Len(m.output) : m.output[n] = <<r, i>> => n = it.at + 1
    <3> TAKE n \in 1 .. Len(m.output)
    <3>1. NumberOK(m, n, r)
      BY MergedParts
    <3>2. m.output[n] = <<r, i>> => m.items[i].at = n - 1
      BY <3>1 DEF NumberOK
    <3> QED
      BY <1>9, <3>2
  <2>2. \A k \in 1 .. Len(m.shown) : m.shown[k].of = <<r, i>> => m.shown[k].type # "done"
    <3> TAKE k \in 1 .. Len(m.shown)
    <3>1. EndTrue(m, k, r)
      BY MergedParts
    <3> QED
      BY <3>1 DEF EndTrue
  <2>3. \E k \in 1 .. Len(m.shown) : m.shown[k].of = <<r, i>>
    <3>1. EndShown(m, it.at + 1, r)
      BY <1>9, MergedParts
    <3> QED
      BY <1>9, <3>1 DEF EndShown
  <2>4. e.at = (it.at + 1) - 1
    BY <1>9
  <2>5. ShownOK(m.shown, m.output)
    BY MergedParts
  <2> DEFINE N == it.at + 1
             s == m.shown
             q == m.output
  <2>6. /\ N \in 1 .. Len(m.output) /\ m.output[N] = e.of /\ e.at = N - 1
        /\ \A n \in 1 .. Len(m.output) : m.output[n] = e.of => n = N
        /\ \A k \in 1 .. Len(m.shown) : m.shown[k].of = e.of => m.shown[k].type # "done"
        /\ \E k \in 1 .. Len(m.shown) : m.shown[k].of = e.of
    BY <1>9, <2>1, <2>2, <2>3, <2>4
  <2>7. ShownOK(s, q) /\ s \in Seq(Seen) /\ q \in Seq(Nat \X Nat) /\ o.shown = Append(s, e) /\ o.output = q
    BY <1>0, <2>5
  <2> HIDE DEF N, s, q
  <2>8. ShownOK(Append(s, e), q)
    <3>1. GoesOn(s, q, e, N)
      BY <2>6, <2>7 DEF s, q, GoesOn
    <3> QED
      BY <2>7, <3>1, ShownOneMore
  <2> QED
    BY <2>7, <2>8
<1>8. PhasesOK(o.shown, mk, r, p)
  <2>1. PhasesOK(m.shown, mk, r, p)
    BY MergedParts
  <2>2. e.of[1] = r
    OBVIOUS
  <2>3. PhasesOK(Append(m.shown, e), mk, r, p)
    BY <1>0, <2>1, <2>2, PhasesOneMore
  <2> QED
    BY <2>3
<1> QED
  BY <1>2, <1>3, <1>4, <1>5, <1>6, <1>7, <1>8 DEF MergedOK, DoneOK

\* An item begins to be shown, with all that is known of it.
StartsOK(m, i, it, news, mk, r, p) ==
  /\ i \in 1 .. Len(mk) /\ (i \in DOMAIN m.items => m.items[i].hidden # "no")
  /\ mk[i].kind # "private" /\ it \in Streamed /\ it.hidden = "no" /\ it.at = Len(m.output)
  /\ Len(news) > 0 /\ (it.done <=> news[Len(news)].type = "done")
  /\ \A k \in 1 .. Len(news) :
       /\ news[k].of = <<r, i>> /\ news[k].at = Len(m.output)
       /\ news[k].type = "added" <=> k = 1
       /\ news[k].type = "done" => k = Len(news)
       /\ p => TruePhase(news[k], mk, r)

LEMMA ShownStarts ==
  ASSUME NEW m, NEW mk, NEW r \in Nat \ {0}, NEW p, MergedOK(m, mk, r, p),
         NEW i, NEW it, NEW news \in Seq(Seen), StartsOK(m, i, it, news, mk, r, p),
         NEW o, Merging(o), o.items = Having(m.items, i, it), o.output = Append(m.output, <<r, i>>),
         o.shown = m.shown \o news
  PROVE  MergedOK(o, mk, r, p)
<1> DEFINE L == Len(m.shown)
           K == Len(news)
           M == Len(m.output)
           x == <<r, i>>
<1>0. /\ m.output \in Seq(Nat \X Nat) /\ m.shown \in Seq(Seen) /\ DOMAIN m.items \subseteq 1 .. Len(mk)
      /\ i \in 1 .. Len(mk) /\ (i \in DOMAIN m.items => m.items[i].hidden # "no") /\ x \in Nat \X Nat
      /\ it \in Streamed /\ it.hidden = "no" /\ it.at = M /\ mk[i].kind # "private"
      /\ K > 0 /\ (it.done <=> news[K].type = "done")
  <2>1. i \in 1 .. Len(mk) /\ (i \in DOMAIN m.items => m.items[i].hidden # "no")
      /\ it \in Streamed /\ it.hidden = "no" /\ it.at = M /\ mk[i].kind # "private"
      /\ K > 0 /\ (it.done <=> news[K].type = "done")
    BY DEF StartsOK
  <2>2. i \in Nat
    BY <2>1
  <2> HIDE DEF L, K, M
  <2> QED
    BY <2>1, <2>2, MergedParts
<1>1. /\ DOMAIN o.items = DOMAIN m.items \cup {i} /\ o.items[i] = it
      /\ \A j \in DOMAIN m.items : j # i => o.items[j] = m.items[j]
  BY DEF Having
<1>2. \A k \in 1 .. K :
       /\ news[k].of = x /\ news[k].at = M
       /\ news[k].type = "added" <=> k = 1
       /\ news[k].type = "done" => k = K
       /\ p => TruePhase(news[k], mk, r)
  BY DEF StartsOK
<1>3. /\ M \in Nat /\ M + 1 \in 1 .. Len(o.output) /\ o.output[M + 1] = x
      /\ \A n \in 1 .. M : n \in 1 .. Len(o.output) /\ o.output[n] = m.output[n]
      /\ \A n \in 1 .. Len(o.output) : IF n = M + 1 THEN o.output[n] = x ELSE n \in 1 .. M /\ o.output[n] = m.output[n]
  <2> DEFINE q == m.output
  <2>1. q \in Seq(Nat \X Nat) /\ x \in Nat \X Nat /\ M = Len(q) /\ o.output = Append(q, x)
    BY <1>0
  <2> HIDE DEF q, x, M
  <2>2. /\ M \in Nat /\ M + 1 \in 1 .. Len(Append(q, x)) /\ Append(q, x)[M + 1] = x
        /\ \A n \in 1 .. M : n \in 1 .. Len(Append(q, x)) /\ Append(q, x)[n] = q[n]
        /\ \A n \in 1 .. Len(Append(q, x)) :
             IF n = M + 1 THEN Append(q, x)[n] = x ELSE n \in 1 .. M /\ Append(q, x)[n] = q[n]
    BY <2>1, AppendedIs
  <2> QED
    BY <2>1, <2>2 DEF q
<1>4. /\ L \in Nat /\ K \in Nat
      /\ \A j \in 1 .. Len(o.shown) :
           IF j <= L THEN j \in 1 .. L /\ o.shown[j] = m.shown[j]
           ELSE j - L \in 1 .. K /\ o.shown[j] = news[j - L]
      /\ \A j \in 1 .. L : j \in 1 .. Len(o.shown) /\ o.shown[j] = m.shown[j]
      /\ \A j \in 1 .. K : L + j \in 1 .. Len(o.shown) /\ o.shown[L + j] = news[j]
  BY <1>0, ConcatIs
<1>5. /\ \A n \in 1 .. M : NumberOK(m, n, r) /\ EndShown(m, n, r)
      /\ \A k \in 1 .. L : EndTrue(m, k, r)
      /\ ShownOK(m.shown, m.output) /\ PhasesOK(m.shown, mk, r, p)
      /\ \A j \in DOMAIN m.items : ItemOK(m, j, mk, r)
  BY MergedParts
<1>6. \A n \in 1 .. M : m.output[n] # x
  <2> TAKE n \in 1 .. M
  <2>1. NumberOK(m, n, r)
    BY <1>5
  <2>2. SUFFICES ASSUME m.output[n] = x PROVE FALSE
    OBVIOUS
  <2>3. m.output[n][1] = r /\ m.output[n][2] = i
    BY <2>2
  <2>4. i \in DOMAIN m.items /\ m.items[i].hidden = "no"
    BY <2>1, <2>3 DEF NumberOK
  <2> QED
    BY <1>0, <2>4
<1>7. \A k \in 1 .. L : m.shown[k].of[1] = r =>
        m.shown[k].of[2] \in DOMAIN m.items /\ m.items[m.shown[k].of[2]].hidden = "no"
  BY ShownNumber
<1> HIDE DEF L, K, M
<1>8. DOMAIN o.items \subseteq 1 .. Len(mk)
  BY <1>0, <1>1
<1>9. ASSUME NEW j \in DOMAIN o.items PROVE ItemOK(o, j, mk, r)
  <2>1. CASE j = i
    <3>1. it.at \in Nat /\ it.at + 1 \in 1 .. Len(o.output) /\ o.output[it.at + 1] = x
      BY <1>0, <1>3
    <3> QED
      BY <1>0, <1>1, <2>1, <3>1 DEF ItemOK
  <2>2. CASE j # i
    <3>1. ItemOK(m, j, mk, r) /\ o.items[j] = m.items[j]
      BY <1>1, <1>5, <2>2
    <3>2. o.items[j].hidden = "no" => /\ o.items[j].at + 1 \in 1 .. Len(o.output)
                                      /\ o.output[o.items[j].at + 1] = <<r, j>>
      BY <1>3, <3>1 DEF ItemOK, M
    <3> QED
      BY <3>1, <3>2 DEF ItemOK
  <2> QED
    BY <2>1, <2>2
<1>10. ASSUME NEW n \in 1 .. Len(o.output) PROVE NumberOK(o, n, r)
  <2>1. CASE n = M + 1
    <3>1. o.output[n] = x /\ x[1] = r /\ x[2] = i /\ n - 1 = M /\ r \in 1 .. r
      BY <1>3, <2>1
    <3> QED
      BY <1>0, <1>1, <3>1 DEF NumberOK
  <2>2. CASE n # M + 1
    <3>1. n \in 1 .. M /\ o.output[n] = m.output[n]
      BY <1>3, <2>2
    <3>2. NumberOK(m, n, r)
      BY <1>5, <3>1
    <3> QED
      BY <1>0, <1>1, <3>1, <3>2 DEF NumberOK
  <2> QED
    BY <2>1, <2>2
<1>11. ASSUME NEW n \in 1 .. Len(o.output) PROVE EndShown(o, n, r)
  <2>1. CASE n = M + 1
    <3>1. o.output[n] = x /\ x[1] = r /\ x[2] = i
      BY <1>3, <2>1
    <3>2. K \in 1 .. K
      BY <1>0, <1>4
    <3>3. L + K \in 1 .. Len(o.shown) /\ o.shown[L + K] = news[K] /\ news[K].of = x
      BY <1>2, <1>4, <3>2
    <3>4. ~(o.output[n][1] < r) /\ (o.items[o.output[n][2]].done => news[K].type = "done")
      <4>1. o.output[n][1] = r /\ o.output[n][2] = i
        BY <3>1
      <4>2. ~(r < r)
        OBVIOUS
      <4>3. o.items[i].done => news[K].type = "done"
        BY <1>0, <1>1
      <4> QED
        BY <4>1, <4>2, <4>3
    <3>5. o.output[n][1] < r \/ o.items[o.output[n][2]].done => o.shown[L + K].type = "done"
      BY <3>3, <3>4
    <3>6. o.shown[L + K].of = o.output[n]
      BY <3>1, <3>3
    <3> QED
      BY <3>3, <3>5, <3>6 DEF EndShown
  <2>2. CASE n # M + 1
    <3>1. n \in 1 .. M /\ o.output[n] = m.output[n]
      BY <1>3, <2>2
    <3>2. EndShown(m, n, r) /\ NumberOK(m, n, r)
      BY <1>5, <3>1
    <3>3. m.output[n][1] = r => o.items[m.output[n][2]] = m.items[m.output[n][2]]
      BY <1>0, <1>1, <3>2 DEF NumberOK
    <3>4. m.output[n][1] = r \/ m.output[n][1] < r
      BY <3>2 DEF NumberOK
    <3>5. PICK k \in 1 .. L :
            /\ m.shown[k].of = m.output[n]
            /\ m.output[n][1] < r \/ m.items[m.output[n][2]].done => m.shown[k].type = "done"
      BY <3>2 DEF EndShown, L
    <3>6. m.output[n][1] < r \/ o.items[m.output[n][2]].done => m.shown[k].type = "done"
      BY <3>3, <3>4, <3>5
    <3>7. k \in 1 .. Len(o.shown) /\ o.shown[k] = m.shown[k]
      BY <1>4
    <3>8. o.output[n][1] < r \/ o.items[o.output[n][2]].done => o.shown[k].type = "done"
      BY <3>1, <3>6, <3>7
    <3>9. o.shown[k].of = o.output[n]
      BY <3>1, <3>5, <3>7
    <3> QED
      BY <3>7, <3>8, <3>9 DEF EndShown
  <2> QED
    BY <2>1, <2>2
<1>12. ASSUME NEW k \in 1 .. Len(o.shown) PROVE EndTrue(o, k, r)
  <2>1. CASE k <= L
    <3>1. k \in 1 .. L /\ o.shown[k] = m.shown[k]
      BY <1>4, <2>1
    <3>2. EndTrue(m, k, r)
      BY <1>5, <3>1
    <3>3. m.shown[k].of[1] = r => o.items[m.shown[k].of[2]] = m.items[m.shown[k].of[2]]
      BY <1>0, <1>1, <1>7, <3>1
    <3> QED
      BY <3>1, <3>2, <3>3 DEF EndTrue
  <2>2. CASE ~(k <= L)
    <3>1. k - L \in 1 .. K /\ o.shown[k] = news[k - L]
      BY <1>4, <2>2
    <3>2. news[k - L].of = x /\ (news[k - L].type = "done" => k - L = K)
      BY <1>2, <3>1
    <3>3. o.shown[k].type = "done" => it.done
      BY <1>0, <3>1, <3>2
    <3>4. o.shown[k].of[2] = i
      BY <3>1, <3>2
    <3> QED
      BY <1>1, <3>3, <3>4 DEF EndTrue
  <2> QED
    BY <2>1, <2>2
<1>13. ShownOK(o.shown, o.output)
  <2> DEFINE s == m.shown
             q == m.output
  <2>1. s \in Seq(Seen) /\ q \in Seq(Nat \X Nat) /\ x \in Nat \X Nat /\ o.shown = s \o news /\ o.output = Append(q, x)
    BY <1>0
  <2>2. Begins(s, q, news, x)
    BY <1>0, <1>2, <1>5, <1>6 DEF Begins, K, M
  <2> HIDE DEF s, q, x
  <2>3. ShownOK(s \o news, Append(q, x))
    BY <2>1, <2>2, ShownBegins
  <2> QED
    BY <2>1, <2>3
<1>14. PhasesOK(o.shown, mk, r, p)
  <2>1. \A k \in 1 .. Len(news) : news[k].of[1] = r /\ (p => TruePhase(news[k], mk, r))
    BY <1>2 DEF K
  <2>2. PhasesOK(m.shown \o news, mk, r, p)
    BY <1>0, <1>5, <2>1, PhasesBegin
  <2> QED
    BY <2>2
<1> QED
  BY <1>5, <1>8, <1>9, <1>10, <1>11, <1>12, <1>13, <1>14 DEF MergedOK, DoneOK

OldItem(m, e) == IF e.type = "added" THEN Fresh ELSE m.items[e.index]
Longer(m, e) == Append(OldItem(m, e).pending, e)
Progressed(m, e) == [OldItem(m, e) EXCEPT !.done = @ \/ e.type = "done"]
Waiting(m, e) == [OldItem(m, e) EXCEPT !.pending = Longer(m, e)]
Private(m, e) == [OldItem(m, e) EXCEPT !.pending = <<>>, !.hidden = "yes", !.done = e.type = "done"]
Public(m, e) == [pending |-> <<>>, hidden |-> "no", done |-> e.type = "done", at |-> Len(m.output)]
News(m, e) == [n \in 1 .. Len(Longer(m, e)) |-> Projected(Longer(m, e)[n], Len(m.output))]

\* What a push comes to, by what is known of the item.
LEMMA PushOneIs ==
  ASSUME NEW m, Merging(m), NEW e, NEW o, o = PushOne(m, e)
  PROVE  LET old == OldItem(m, e)
         IN /\ old.hidden = "yes" => o = [m EXCEPT !.items = Having(m.items, e.index, Progressed(m, e))]
            /\ old.hidden = "no" /\ e.what # "private" =>
                 o = [m EXCEPT !.items = Having(m.items, e.index, Progressed(m, e)),
                               !.shown = Append(m.shown, Projected(e, old.at))]
            /\ old.hidden = "unknown" =>
                 IF e.what \in {"none", "unnamed"}
                 THEN o = [m EXCEPT !.items = Having(m.items, e.index, Waiting(m, e))]
                 ELSE IF e.what = "private"
                 THEN o = [m EXCEPT !.items = Having(m.items, e.index, Private(m, e))]
                 ELSE o = [items |-> Having(m.items, e.index, Public(m, e)),
                           output |-> Append(m.output, <<roundNo, e.index>>),
                           shown |-> m.shown \o News(m, e), failed |-> m.failed]
<1> DEFINE old == OldItem(m, e)
<1>1. CASE old.hidden = "yes"
  BY <1>1 DEF PushOne, OldItem, Progressed
<1>2. CASE old.hidden = "no" /\ e.what # "private"
  BY <1>2 DEF PushOne, OldItem, Progressed, Merging
<1>3. CASE old.hidden = "unknown"
  <2>1. CASE e.what \in {"none", "unnamed"}
    BY <1>3, <2>1 DEF PushOne, OldItem, Waiting, Longer
  <2>2. CASE e.what \notin {"none", "unnamed"} /\ e.what = "private"
    BY <1>3, <2>2 DEF PushOne, OldItem, Private
  <2>3. CASE e.what \notin {"none", "unnamed"} /\ e.what # "private"
    BY <1>3, <2>3 DEF PushOne, OldItem, Public, News, Longer
  <2> QED
    BY <2>1, <2>2, <2>3
<1> QED
  BY <1>1, <1>2, <1>3

\* The item before an event that may be pushed.
LEMMA OldItemIs ==
  ASSUME NEW m, NEW e, NEW mk, NEW p, NEW r \in Nat, MergedOK(m, mk, r, p), MayPush(m, e, mk, p)
  PROVE  LET old == OldItem(m, e)
             wait == Longer(m, e)
         IN /\ old \in Streamed /\ ~old.done /\ e.index \in 1 .. Len(mk) /\ e \in Event
            /\ e.type = "added" => old.hidden = "unknown" /\ old.pending = <<>> /\ e.index \notin DOMAIN m.items
            /\ e.type # "added" => old = m.items[e.index] /\ e.index \in DOMAIN m.items
            /\ old.hidden = "unknown" =>
                 /\ wait \in Seq(Event) /\ Len(wait) > 0 /\ wait[Len(wait)] = e
                 /\ \A k \in 1 .. Len(wait) : k # Len(wait) =>
                      /\ mk[e.index].kind # "message"
                      /\ Told(wait[k], mk) /\ wait[k].index = e.index
                      /\ wait[k].type = (IF k = 1 THEN "added" ELSE "delta")
                 /\ e.type = "added" <=> Len(wait) = 1
<1> DEFINE old == OldItem(m, e)
           wait == Longer(m, e)
<1>1. e \in Event /\ e.index \in 1 .. Len(mk)
  BY DEF MayPush, Told
<1>2. CASE e.type = "added"
  <2>1. old = Fresh /\ e.index \notin DOMAIN m.items
    BY <1>2 DEF MayPush, OldItem
  <2>2. old \in Streamed /\ ~old.done /\ old.hidden = "unknown" /\ old.pending = <<>>
    BY <2>1 DEF Fresh, Streamed
  <2>3. wait = <<e>>
    BY <2>2 DEF Longer
  <2>4. wait \in Seq(Event) /\ Len(wait) = 1 /\ wait[1] = e
    BY <1>1, <2>3
  <2> HIDE DEF wait, old
  <2> QED
    BY <1>1, <1>2, <2>1, <2>2, <2>4 DEF wait, old
<1>3. CASE e.type # "added"
  <2>1. old = m.items[e.index] /\ e.index \in DOMAIN m.items /\ ~old.done
    BY <1>3 DEF MayPush, OldItem
  <2>2. ItemOK(m, e.index, mk, r)
    BY <2>1, MergedParts
  <2>3. old \in Streamed
    BY <2>1, <2>2 DEF ItemOK
  <2>4. ASSUME old.hidden = "unknown"
        PROVE  /\ wait \in Seq(Event) /\ Len(wait) > 0 /\ Len(wait) # 1 /\ wait[Len(wait)] = e
               /\ \A k \in 1 .. Len(wait) : k # Len(wait) =>
                    /\ mk[e.index].kind # "message"
                    /\ Told(wait[k], mk) /\ wait[k].index = e.index
                    /\ wait[k].type = (IF k = 1 THEN "added" ELSE "delta")
    <3> DEFINE q == old.pending
    <3>1. q \in Seq(Event)
      BY <2>3 DEF Streamed
    <3>2. Waits(old, e.index, mk)
      BY <2>1, <2>2, <2>4 DEF ItemOK
    <3>3. wait = Append(q, e)
      BY DEF Longer
    <3>4. Len(q) > 0 /\ mk[e.index].kind # "message"
          /\ \A k \in 1 .. Len(q) : /\ Told(q[k], mk) /\ q[k].index = e.index
                                    /\ q[k].type = (IF k = 1 THEN "added" ELSE "delta")
      BY <3>2 DEF Waits
    <3> HIDE DEF wait, q
    <3>5. /\ wait \in Seq(Event) /\ Len(q) \in Nat /\ Len(wait) = Len(q) + 1
          /\ \A j \in 1 .. Len(wait) : IF j = Len(q) + 1 THEN wait[j] = e ELSE j \in 1 .. Len(q) /\ wait[j] = q[j]
          /\ Len(q) + 1 \in 1 .. Len(wait) /\ wait[Len(q) + 1] = e
      BY <1>1, <3>1, <3>3, AppendedIs
    <3>6. Len(wait) > 0 /\ Len(wait) # 1 /\ wait[Len(wait)] = e
      BY <3>4, <3>5
    <3>7. ASSUME NEW k \in 1 .. Len(wait), k # Len(wait)
          PROVE  /\ mk[e.index].kind # "message"
                 /\ Told(wait[k], mk) /\ wait[k].index = e.index
                 /\ wait[k].type = (IF k = 1 THEN "added" ELSE "delta")
      <4>1. k \in 1 .. Len(q) /\ wait[k] = q[k]
        BY <3>5, <3>7
      <4> QED
        BY <3>4, <4>1
    <3> QED
      BY <3>5, <3>6, <3>7
  <2> HIDE DEF wait, old
  <2> QED
    BY <1>1, <1>3, <2>1, <2>3, <2>4 DEF wait, old
<1> QED
  BY <1>2, <1>3

LEMMA OneMoreIs ==
  ASSUME NEW m, NEW e, NEW o, NEW it, o.items = Having(m.items, e.index, it), it.done <=> e.type = "done"
  PROVE  OneMore(m, e, o)
BY DEF OneMore, Having

\* A private item, or one that goes on to wait or becomes private, stays hidden.
LEMMA PushHidden ==
  ASSUME NEW m, NEW e, NEW mk, NEW p, NEW r \in Nat, MergedOK(m, mk, r, p), MayPush(m, e, mk, p),
         OldItem(m, e).hidden # "no",
         NEW it \in Streamed, it.hidden # "no", it.hidden = "unknown" => Waits(it, e.index, mk),
         it.done <=> e.type = "done",
         NEW o, o = [m EXCEPT !.items = Having(m.items, e.index, it)]
  PROVE  MergedOK(o, mk, r, p) /\ OneMore(m, e, o)
<1>1. Merging(m) /\ m.shown \in Seq(Seen)
  BY DEF MergedOK, Merging
<1>2. Merging(o) /\ o.items = Having(m.items, e.index, it) /\ o.output = m.output /\ o.shown = m.shown
  <2> DEFINE its == Having(m.items, e.index, it)
  <2>1. o = [m EXCEPT !.items = its]
    OBVIOUS
  <2> HIDE DEF its
  <2>2. Merging(o) /\ o.items = its /\ o.output = m.output /\ o.shown = m.shown
    BY <1>1, <2>1 DEF Merging
  <2> QED
    BY <2>2 DEF its
<1>3. e.index \in 1 .. Len(mk) /\ (e.index \in DOMAIN m.items => m.items[e.index].hidden # "no")
  BY OldItemIs DEF MayPush
<1>4. OneMore(m, e, o)
  BY <1>2, OneMoreIs
<1>5. MergedOK(o, mk, r, p)
  BY <1>2, <1>3, HiddenChanges
<1> QED
  BY <1>4, <1>5

LEMMA PushOneKeeps ==
  ASSUME NEW m, NEW e, NEW mk, NEW p, roundNo \in Nat \ {0},
         MergedOK(m, mk, roundNo, p), MayPush(m, e, mk, p),
         NEW o, o = PushOne(m, e)
  PROVE  MergedOK(o, mk, roundNo, p) /\ OneMore(m, e, o)
<1> DEFINE old == OldItem(m, e)
           wait == Longer(m, e)
           i == e.index
           r == roundNo
<1>1. /\ old \in Streamed /\ ~old.done /\ i \in 1 .. Len(mk) /\ e \in Event
      /\ e.type = "added" => old.hidden = "unknown" /\ old.pending = <<>> /\ i \notin DOMAIN m.items
      /\ e.type # "added" => old = m.items[i] /\ i \in DOMAIN m.items
  BY OldItemIs
<1>2. ASSUME old.hidden = "unknown"
      PROVE /\ wait \in Seq(Event) /\ Len(wait) > 0 /\ wait[Len(wait)] = e
            /\ \A k \in 1 .. Len(wait) : k # Len(wait) =>
                 /\ mk[i].kind # "message"
                 /\ Told(wait[k], mk) /\ wait[k].index = i
                 /\ wait[k].type = (IF k = 1 THEN "added" ELSE "delta")
            /\ e.type = "added" <=> Len(wait) = 1
  BY <1>2, OldItemIs
<1>3. Merging(m) /\ m.shown \in Seq(Seen) /\ m.output \in Seq(Nat \X Nat)
  BY DEF MergedOK, Merging
<1>4. Told(e, mk) /\ Certain(e, mk, p) /\ r \in Nat /\ r \in Nat \ {0}
  BY DEF MayPush
<1>5. /\ old.hidden = "yes" => o = [m EXCEPT !.items = Having(m.items, e.index, Progressed(m, e))]
      /\ old.hidden = "no" /\ e.what # "private" =>
           o = [m EXCEPT !.items = Having(m.items, e.index, Progressed(m, e)),
                         !.shown = Append(m.shown, Projected(e, old.at))]
      /\ old.hidden = "unknown" =>
           IF e.what \in {"none", "unnamed"}
           THEN o = [m EXCEPT !.items = Having(m.items, e.index, Waiting(m, e))]
           ELSE IF e.what = "private"
           THEN o = [m EXCEPT !.items = Having(m.items, e.index, Private(m, e))]
           ELSE o = [items |-> Having(m.items, e.index, Public(m, e)),
                     output |-> Append(m.output, <<roundNo, e.index>>),
                     shown |-> m.shown \o News(m, e), failed |-> m.failed]
  BY <1>3, PushOneIs
<1>6. CASE old.hidden = "yes"
  <2> DEFINE it == Progressed(m, e)
  <2>1. it \in Streamed /\ it.hidden = "yes" /\ (it.done <=> e.type = "done")
    BY <1>1, <1>6 DEF Progressed, Streamed
  <2>2. o = [m EXCEPT !.items = Having(m.items, e.index, it)]
    BY <1>5, <1>6
  <2> HIDE DEF it
  <2> QED
    BY <1>4, <1>6, <2>1, <2>2, PushHidden
<1>7. CASE old.hidden = "no"
  <2> DEFINE it == Progressed(m, e)
             x == Projected(e, old.at)
  <2>1. e.type # "added" /\ old = m.items[i] /\ i \in DOMAIN m.items
    BY <1>1, <1>7
  <2>2. ItemOK(m, i, mk, r)
    BY <2>1, <1>4, MergedParts
  <2>3. mk[i].kind # "private" /\ old.at \in Nat
    BY <1>7, <2>1, <2>2 DEF ItemOK
  <2>4. e.what # "private"
    BY <1>4, <2>1, <2>3 DEF Told
  <2>5. it \in Streamed /\ it.hidden = "no" /\ it.at = old.at /\ (it.done <=> e.type = "done")
    BY <1>1, <1>7 DEF Progressed, Streamed
  <2>6. x \in Seen /\ x.of = <<r, i>> /\ x.type = e.type /\ x.at = old.at /\ x.phase = e.phase
    BY <1>1, <1>4, <2>3 DEF Projected, Seen, Event, Types
  <2>7. p => TruePhase(x, mk, r)
    BY <1>4, <2>6 DEF TruePhase, Certain
  <2>8. o = [m EXCEPT !.items = Having(m.items, i, it), !.shown = Append(m.shown, x)]
    BY <1>5, <1>7, <2>4
  <2>9. Append(m.shown, x) \in Seq(Seen)
    BY <1>3, <2>6
  <2> HIDE DEF it, x
  <2>10. Merging(o) /\ o.items = Having(m.items, i, it) /\ o.output = m.output /\ o.shown = Append(m.shown, x)
    <3> DEFINE its == Having(m.items, i, it)
               sh == Append(m.shown, x)
    <3>1. o = [m EXCEPT !.items = its, !.shown = sh] /\ sh \in Seq(Seen)
      BY <2>8, <2>9
    <3> HIDE DEF its, sh
    <3>2. Merging(o) /\ o.items = its /\ o.output = m.output /\ o.shown = sh
      BY <1>3, <3>1 DEF Merging
    <3> QED
      BY <3>2 DEF its, sh
  <2>11. m.items[i].hidden = "no" /\ ~m.items[i].done /\ it.at = m.items[i].at
    BY <1>1, <1>7, <2>1, <2>5
  <2>12. x.type # "added" /\ x.at = it.at /\ (it.done <=> x.type = "done")
    BY <2>1, <2>5, <2>6
  <2> HIDE DEF old, r
  <2>13. MergedOK(o, mk, r, p)
    BY <1>4, <2>1, <2>5, <2>6, <2>7, <2>10, <2>11, <2>12, ShownGoesOn DEF r
  <2>14. OneMore(m, e, o)
    BY <2>5, <2>10, OneMoreIs
  <2> QED
    BY <2>13, <2>14 DEF r
<1>8. CASE old.hidden = "unknown" /\ e.what \in {"none", "unnamed"}
  <2> DEFINE it == Waiting(m, e)
  <2>1. o = [m EXCEPT !.items = Having(m.items, e.index, it)]
    BY <1>5, <1>8
  <2>2. it \in Streamed /\ it.hidden = "unknown" /\ ~it.done /\ it.pending = wait
    BY <1>1, <1>2, <1>8 DEF Waiting, Streamed
  <2>3. e.type # "done"
    BY <1>4, <1>8, <1>1 DEF Told, Event, Kinds
  <2>4. mk[i].kind # "message"
    <3>1. CASE e.type = "added"
      BY <1>4, <1>8, <3>1 DEF Told, Kinds
    <3>2. CASE e.type # "added"
      <4>1. 1 \in 1 .. Len(wait) /\ 1 # Len(wait)
        BY <1>2, <1>8, <3>2
      <4> QED
        BY <1>2, <1>8, <4>1
    <3> QED
      BY <3>1, <3>2
  <2>5. ASSUME NEW k \in 1 .. Len(wait)
        PROVE  Told(wait[k], mk) /\ wait[k].index = i /\ wait[k].type = (IF k = 1 THEN "added" ELSE "delta")
    <3>1. CASE k # Len(wait)
      BY <1>2, <1>8, <3>1
    <3>2. CASE k = Len(wait)
      <4>1. wait[k] = e
        BY <1>2, <1>8, <3>2
      <4>2. e.type = "added" <=> k = 1
        BY <1>2, <1>8, <3>2
      <4>3. e.type \in {"added", "delta"}
        BY <1>1, <2>3 DEF Event, Types
      <4> QED
        BY <1>4, <4>1, <4>2, <4>3
    <3> QED
      BY <3>1, <3>2
  <2>6. Waits(it, i, mk)
    BY <1>2, <1>8, <2>2, <2>4, <2>5 DEF Waits
  <2> HIDE DEF it
  <2> QED
    BY <1>4, <1>8, <2>1, <2>2, <2>3, <2>6, PushHidden
<1>9. CASE old.hidden = "unknown" /\ e.what = "private"
  <2> DEFINE it == Private(m, e)
  <2>1. o = [m EXCEPT !.items = Having(m.items, e.index, it)]
    BY <1>5, <1>9
  <2>2. it \in Streamed /\ it.hidden = "yes" /\ (it.done <=> e.type = "done")
    <3>1. <<>> \in Seq(Event) /\ (e.type = "done") \in BOOLEAN
      OBVIOUS
    <3>2. it = [pending |-> <<>>, hidden |-> "yes", done |-> e.type = "done", at |-> old.at]
      <4>1. old = [pending |-> old.pending, hidden |-> old.hidden, done |-> old.done, at |-> old.at]
        BY <1>1 DEF Streamed
      <4>2. it = [old EXCEPT !.pending = <<>>, !.hidden = "yes", !.done = e.type = "done"]
        BY DEF Private
      <4> HIDE DEF it, old
      <4> QED
        BY <4>1, <4>2
    <3>3. old.at \in {Absent} \cup Nat
      BY <1>1 DEF Streamed
    <3> HIDE DEF it, old
    <3> QED
      BY <3>1, <3>2, <3>3 DEF Streamed
  <2> HIDE DEF it
  <2> QED
    BY <1>4, <1>9, <2>1, <2>2, PushHidden
<1>10. CASE old.hidden = "unknown" /\ e.what \notin {"none", "unnamed", "private"}
  <2> DEFINE it == Public(m, e)
             news == News(m, e)
             M == Len(m.output)
  <2>1. o = [items |-> Having(m.items, i, it), output |-> Append(m.output, <<r, i>>),
             shown |-> m.shown \o news, failed |-> m.failed]
    BY <1>5, <1>10
  <2>2. e.what = mk[i].kind /\ mk[i].kind # "private"
    BY <1>4, <1>10 DEF Told
  <2>3. M \in Nat
    BY <1>3
  <2>4. it \in Streamed /\ it.hidden = "no" /\ it.at = M /\ (it.done <=> e.type = "done")
    <3>1. <<>> \in Seq(Event) /\ (e.type = "done") \in BOOLEAN
      OBVIOUS
    <3> QED
      BY <2>3, <3>1 DEF Public, Streamed
  <2>5. Len(wait) \in Nat /\ \A k \in 1 .. Len(wait) : wait[k] \in Event /\ wait[k].index = i
    BY <1>1, <1>2, <1>10
  <2>6. \A k \in 1 .. Len(wait) : Projected(wait[k], M) \in Seen
    BY <1>1, <1>4, <2>3, <2>5 DEF Projected, Seen, Event
  <2>7. news = [n \in 1 .. Len(wait) |-> Projected(wait[n], M)]
    BY DEF News
  <2> HIDE DEF news, it, M, wait, old, r
  <2>8. news \in Seq(Seen) /\ Len(news) = Len(wait) /\ \A k \in 1 .. Len(wait) : news[k] = Projected(wait[k], M)
    BY <2>5, <2>6, <2>7
  <2>9. ASSUME NEW k \in 1 .. Len(wait)
        PROVE  /\ news[k].of = <<r, i>> /\ news[k].at = M
               /\ news[k].type = wait[k].type /\ news[k].phase = wait[k].phase
    <3>1. /\ Projected(wait[k], M).of = <<roundNo, wait[k].index>> /\ Projected(wait[k], M).at = M
          /\ Projected(wait[k], M).type = wait[k].type /\ Projected(wait[k], M).phase = wait[k].phase
      BY DEF Projected
    <3>2. news[k] = Projected(wait[k], M) /\ wait[k].index = i
      BY <2>5, <2>8
    <3> QED
      BY <3>1, <3>2 DEF r
  <2>10. ASSUME NEW k \in 1 .. Len(wait), k # Len(wait)
         PROVE wait[k].type = (IF k = 1 THEN "added" ELSE "delta") /\ wait[k].phase = Absent
    <3>1. mk[i].kind # "message" /\ Told(wait[k], mk) /\ wait[k].index = i
          /\ wait[k].type = (IF k = 1 THEN "added" ELSE "delta")
      BY <1>2, <1>10, <2>10
    <3> QED
      BY <3>1 DEF Told
  <2>11. Len(wait) \in 1 .. Len(wait) /\ wait[Len(wait)] = e /\ (e.type = "added" <=> Len(wait) = 1)
    BY <1>2, <1>10, <2>5
  <2>12. ASSUME NEW k \in 1 .. Len(wait)
         PROVE  /\ news[k].type = "added" <=> k = 1
                /\ news[k].type = "done" => k = Len(wait)
                /\ p => TruePhase(news[k], mk, r)
    <3>1. CASE k = Len(wait)
      <4>1. news[k].type = e.type /\ news[k].phase = e.phase /\ news[k].of = <<r, i>>
        BY <2>9, <2>11, <3>1
      <4>2. p => TruePhase(news[k], mk, r)
        BY <1>4, <4>1 DEF TruePhase, Certain
      <4> QED
        BY <2>11, <3>1, <4>1, <4>2
    <3>2. CASE k # Len(wait)
      <4>1. news[k].type = (IF k = 1 THEN "added" ELSE "delta") /\ news[k].phase = Absent
        BY <2>9, <2>10, <3>2
      <4> QED
        BY <4>1 DEF TruePhase
    <3> QED
      BY <3>1, <3>2
  <2>13. StartsOK(m, i, it, news, mk, r, p)
    <3>1. i \in 1 .. Len(mk) /\ (i \in DOMAIN m.items => m.items[i].hidden # "no")
      BY <1>1, <1>10
    <3>2. Len(news) > 0 /\ (it.done <=> news[Len(news)].type = "done")
      BY <2>4, <2>8, <2>9, <2>11
    <3> QED
      BY <2>2, <2>4, <2>8, <2>9, <2>12, <3>1, <3>2 DEF StartsOK, M
  <2>14. Merging(o) /\ o.items = Having(m.items, i, it) /\ o.output = Append(m.output, <<r, i>>)
         /\ o.shown = m.shown \o news
    <3>1. Append(m.output, <<r, i>>) \in Seq(Nat \X Nat) /\ m.shown \o news \in Seq(Seen) /\ m.failed = FALSE
      <4>1. <<r, i>> \in Nat \X Nat
        BY <1>1, <1>4 DEF Event, r
      <4>2. Append(m.output, <<r, i>>) \in Seq(Nat \X Nat)
        BY <1>3, <4>1
      <4>3. m.shown \o news \in Seq(Seen)
        BY <1>3, <2>8
      <4>4. m.failed = FALSE
        BY <1>3 DEF Merging
      <4> QED
        BY <4>2, <4>3, <4>4
    <3> DEFINE its == Having(m.items, i, it)
               out == Append(m.output, <<r, i>>)
               sh == m.shown \o news
    <3>2. out \in Seq(Nat \X Nat) /\ sh \in Seq(Seen)
      BY <3>1
    <3>3. o = [items |-> its, output |-> out, shown |-> sh, failed |-> FALSE]
      BY <2>1, <3>1
    <3> HIDE DEF its, out, sh
    <3>4. Merging(o) /\ o.items = its /\ o.output = out /\ o.shown = sh
      BY <3>2, <3>3 DEF Merging
    <3> QED
      BY <3>4 DEF its, out, sh
  <2>15. MergedOK(o, mk, r, p)
    BY <1>4, <2>8, <2>13, <2>14, ShownStarts DEF r
  <2>16. OneMore(m, e, o)
    BY <2>4, <2>14, OneMoreIs
  <2> QED
    BY <2>15, <2>16 DEF r
<1> QED
  BY <1>1, <1>6, <1>7, <1>8, <1>9, <1>10 DEF Streamed

LEMMA PushIs ==
  ASSUME NEW m, NEW e, NEW mk, NEW p, roundNo \in Nat \ {0},
         MergedOK(m, mk, roundNo, p), MayPush(m, e, mk, p),
         NEW o, o = Push(m, e)
  PROVE  MergedOK(o, mk, roundNo, p) /\ OneMore(m, e, o)
<1>1. m.failed = FALSE
  BY DEF MergedOK, Merging
<1>2. o = PushOne(m, e)
  BY <1>1 DEF Push, MayPush, Told, Event, Types
<1> QED
  BY <1>2, PushOneKeeps

\* The events of a queue come in their order.
ComesAt(m, q, k, mk) ==
  /\ Told(q[k], mk)
  /\ q[k].type = "added" <=> /\ q[k].index \notin DOMAIN m.items
                             /\ \A j \in 1 .. k - 1 : q[j].index # q[k].index
  /\ q[k].index \in DOMAIN m.items => ~m.items[q[k].index].done
  /\ q[k].type = "done" => \A j \in k + 1 .. Len(q) : q[j].index # q[k].index
Comes(m, q, mk) == \A k \in 1 .. Len(q) : ComesAt(m, q, k, mk)

\* What the first n events of a queue change of the items.
Touched(q, n, i) == \E j \in 1 .. n : q[j].index = i
Over(q, n, i) == \E j \in 1 .. n : q[j].index = i /\ q[j].type = "done"
After(m, q, n, o) ==
  /\ \A i : i \in DOMAIN o.items <=> i \in DOMAIN m.items \/ Touched(q, n, i)
  /\ \A i \in DOMAIN o.items : o.items[i].done <=> (i \in DOMAIN m.items /\ m.items[i].done) \/ Over(q, n, i)

LEMMA NextEvent ==
  ASSUME NEW m, NEW q, NEW mk, NEW p, Comes(m, q, mk), Len(q) \in Nat,
         NEW n \in 1 .. Len(q), Certain(q[n], mk, p), NEW o, After(m, q, n - 1, o)
  PROVE  MayPush(o, q[n], mk, p)
<1>1. ComesAt(m, q, n, mk)
  BY DEF Comes
<1>2. Told(q[n], mk) /\ Certain(q[n], mk, p)
  BY <1>1 DEF ComesAt
<1>3. q[n].type = "added" <=> q[n].index \notin DOMAIN o.items
  BY <1>1 DEF ComesAt, After, Touched
<1>4. ASSUME q[n].index \in DOMAIN o.items, o.items[q[n].index].done PROVE FALSE
  <2>1. ~(q[n].index \in DOMAIN m.items /\ m.items[q[n].index].done)
    BY <1>1 DEF ComesAt
  <2>2. PICK j \in 1 .. n - 1 : q[j].index = q[n].index /\ q[j].type = "done"
    BY <1>4, <2>1 DEF After, Over
  <2>3. j \in 1 .. Len(q) /\ n \in j + 1 .. Len(q)
    OBVIOUS
  <2>4. ComesAt(m, q, j, mk)
    BY <2>3 DEF Comes
  <2> QED
    BY <2>2, <2>3, <2>4 DEF ComesAt
<1> QED
  BY <1>2, <1>3, <1>4 DEF MayPush

LEMMA OneAfter ==
  ASSUME NEW m, NEW q, NEW mk, NEW p, Len(q) \in Nat, NEW n \in 1 .. Len(q),
         NEW o, After(m, q, n - 1, o), MayPush(o, q[n], mk, p), NEW u, OneMore(o, q[n], u)
  PROVE  After(m, q, n, u)
<1>1. \A i : Touched(q, n, i) <=> Touched(q, n - 1, i) \/ q[n].index = i
  BY DEF Touched
<1>2. \A i : Over(q, n, i) <=> Over(q, n - 1, i) \/ (q[n].index = i /\ q[n].type = "done")
  BY DEF Over
<1>3. ASSUME NEW i PROVE i \in DOMAIN u.items <=> i \in DOMAIN m.items \/ Touched(q, n, i)
  <2>1. i \in DOMAIN u.items <=> i \in DOMAIN o.items \/ i = q[n].index
    BY DEF OneMore
  <2>2. i \in DOMAIN o.items <=> i \in DOMAIN m.items \/ Touched(q, n - 1, i)
    BY DEF After
  <2> QED
    BY <1>1, <2>1, <2>2
<1>4. ASSUME NEW i \in DOMAIN u.items
      PROVE  u.items[i].done <=> (i \in DOMAIN m.items /\ m.items[i].done) \/ Over(q, n, i)
  <2>1. CASE i # q[n].index
    <3>1. i \in DOMAIN o.items /\ u.items[i] = o.items[i]
      BY <2>1 DEF OneMore
    <3>2. o.items[i].done <=> (i \in DOMAIN m.items /\ m.items[i].done) \/ Over(q, n - 1, i)
      BY <3>1 DEF After
    <3> QED
      BY <1>2, <2>1, <3>1, <3>2
  <2>2. CASE i = q[n].index
    <3>1. u.items[i].done <=> q[n].type = "done"
      BY <2>2 DEF OneMore
    <3>2. i \in DOMAIN o.items => ~o.items[i].done
      BY <2>2 DEF MayPush
    <3>3. i \in DOMAIN o.items => ~((i \in DOMAIN m.items /\ m.items[i].done) \/ Over(q, n - 1, i))
      BY <3>2 DEF After
    <3>4. i \notin DOMAIN o.items => i \notin DOMAIN m.items /\ ~Over(q, n - 1, i)
      BY DEF After, Touched, Over
    <3> QED
      BY <1>2, <2>2, <3>1, <3>3, <3>4
  <2> QED
    BY <2>1, <2>2
<1> QED
  BY <1>3, <1>4 DEF After

\* Pushing the events of a queue one after the other.
LEMMA QueuePushed ==
  ASSUME NEW m, NEW q, NEW mk, NEW p, roundNo \in Nat \ {0}, Len(q) \in Nat,
         MergedOK(m, mk, roundNo, p), Comes(m, q, mk), \A k \in 1 .. Len(q) : Certain(q[k], mk, p),
         NEW n \in 0 .. Len(q)
  PROVE  MergedOK(Pushed(m, q, n), mk, roundNo, p) /\ After(m, q, n, Pushed(m, q, n))
<1> DEFINE S(k) == Pushed(m, q, k)
           Good(k) == MergedOK(S(k), mk, roundNo, p) /\ After(m, q, k, S(k))
           Bad == {k \in 0 .. Len(q) : ~Good(k)}
<1> SUFFICES ASSUME Bad # {} PROVE FALSE
  OBVIOUS
<1>1. PICK k \in Bad : \A i \in Bad : k <= i
  <2>1. Bad \in SUBSET Nat
    OBVIOUS
  <2> HIDE DEF Bad
  <2> QED
    BY <2>1, LeastOf
<1>2. CASE k = 0
  <2>1. S(0) = m
    BY PushedNone
  <2>2. After(m, q, 0, m)
    BY DEF After, Touched, Over
  <2> HIDE DEF S
  <2> QED
    BY <1>1, <1>2, <2>1, <2>2
<1>3. CASE k # 0
  <2>1. k - 1 \in 0 .. Len(q) /\ k \in 1 .. Len(q) /\ k \in Nat \ {0} /\ k - 1 \notin Bad
    <3>1. k \in 0 .. Len(q)
      BY <1>1
    <3>2. k - 1 \in 0 .. Len(q) /\ k \in 1 .. Len(q) /\ k \in Nat \ {0} /\ ~(k <= k - 1)
      BY <1>3, <3>1
    <3> HIDE DEF Bad
    <3> QED
      BY <1>1, <3>2
  <2>2. Good(k - 1)
    <3> HIDE DEF Good
    <3> QED
      BY <2>1
  <2>3. S(k) = Push(S(k - 1), q[k])
    BY <2>1, PushedNext
  <2> HIDE DEF S
  <2>4. MergedOK(S(k - 1), mk, roundNo, p) /\ After(m, q, k - 1, S(k - 1))
    BY <2>2
  <2>5. MayPush(S(k - 1), q[k], mk, p)
    BY <2>1, <2>4, NextEvent
  <2>6. MergedOK(S(k), mk, roundNo, p) /\ OneMore(S(k - 1), q[k], S(k))
    BY <2>3, <2>4, <2>5, PushIs
  <2>7. After(m, q, k, S(k))
    BY <2>1, <2>4, <2>5, <2>6, OneAfter
  <2> QED
    BY <1>1, <2>6, <2>7
<1> QED
  BY <1>2, <1>3

\* A message has a phase, nothing else has.
PhasesOf(mk) == \A i \in 1 .. Len(mk) : mk[i].kind = "message" <=> mk[i].phase # Absent

\* The provider's next event e, with the items made before it and after it.
Makes(mk, mu, e) ==
  /\ mk \in Seq(MadeItem) /\ mu \in Seq(MadeItem) /\ PhasesOf(mu) /\ Told(e, mu)
  /\ \A i \in 1 .. Len(mk) : /\ i \in 1 .. Len(mu) /\ mu[i].kind = mk[i].kind
                             /\ IF i = e.index THEN ~mk[i].done ELSE mu[i] = mk[i]
  /\ IF e.type = "added" THEN e.index = Len(mk) + 1 /\ Len(mu) = Len(mk) + 1
     ELSE e.index \in 1 .. Len(mk) /\ Len(mu) = Len(mk)
  /\ IF e.type = "done" THEN mu[e.index].done /\ mu[e.index].phase = e.phase ELSE ~mu[e.index].done

\* The first filter: what is held, and the messages it is held for.
MessageOK(h, pd, m, mk, i) ==
  IF i \in DOMAIN m.items THEN mk[i].done /\ m.items[i].done
  ELSE /\ i \in DOMAIN pd
       /\ IF mk[i].done THEN pd[i] = mk[i].phase /\ Over(h, Len(h), i) ELSE pd[i] = Absent
HeldOK(h, pd, m, mk, p) ==
  /\ h \in Seq(Event) /\ Comes(m, h, mk)
  /\ \A n \in 1 .. Len(h) : h[n].type = "done" => mk[h[n].index].done
  /\ \A i \in 1 .. Len(mk) : i \in DOMAIN m.items \/ Touched(h, Len(h), i)
  /\ \A i \in DOMAIN m.items : i \in 1 .. Len(mk) /\ (m.items[i].done => mk[i].done)
  /\ p => \A i \in 1 .. Len(mk) : mk[i].kind = "message" => MessageOK(h, pd, m, mk, i)
  /\ \A i \in DOMAIN pd : i \in 1 .. Len(mk) /\ i \notin DOMAIN m.items /\ mk[i].kind = "message"

LEMMA ToldStill ==
  ASSUME NEW mk, NEW mu, NEW e, Makes(mk, mu, e), NEW x, Told(x, mk)
  PROVE  Told(x, mu)
<1>1. x.index \in 1 .. Len(mu) /\ mu[x.index].kind = mk[x.index].kind
  BY DEF Told, Makes
<1> QED
  BY <1>1 DEF Told

LEMMA MergedStill ==
  ASSUME NEW mk, NEW mu, NEW e, Makes(mk, mu, e), NEW m, NEW r \in Nat, NEW p, MergedOK(m, mk, r, p)
  PROVE  MergedOK(m, mu, r, p)
<1>0. \A i \in 1 .. Len(mk) : /\ i \in 1 .. Len(mu) /\ mu[i].kind = mk[i].kind
                              /\ IF i = e.index THEN ~mk[i].done ELSE mu[i] = mk[i]
  BY DEF Makes
<1>1. /\ DOMAIN m.items \subseteq 1 .. Len(mk)
      /\ \A i \in DOMAIN m.items : ItemOK(m, i, mk, r)
      /\ PhasesOK(m.shown, mk, r, p)
  BY MergedParts
<1>2. DOMAIN m.items \subseteq 1 .. Len(mu)
  BY <1>0, <1>1
<1>3. ASSUME NEW i \in DOMAIN m.items PROVE ItemOK(m, i, mu, r)
  <2>1. ItemOK(m, i, mk, r) /\ mu[i].kind = mk[i].kind
    BY <1>0, <1>1
  <2>2. Waits(m.items[i], i, mk) => Waits(m.items[i], i, mu)
    BY <2>1, ToldStill DEF Waits
  <2> QED
    BY <2>1, <2>2 DEF ItemOK
<1>4. ASSUME p, NEW k \in 1 .. Len(m.shown) PROVE TruePhase(m.shown[k], mu, r)
  <2>1. TruePhase(m.shown[k], mk, r)
    BY <1>1, <1>4 DEF PhasesOK
  <2>2. m.shown[k].of[1] = r => m.shown[k].of[2] \in 1 .. Len(mk)
    BY <1>1, ShownNumber
  <2> QED
    BY <1>0, <2>1, <2>2 DEF TruePhase
<1>5. PhasesOK(m.shown, mu, r, p)
  BY <1>1, <1>4 DEF PhasesOK
<1> QED
  BY <1>2, <1>3, <1>5 DEF MergedOK

Lengthened(s, h, e) ==
  /\ s \in Seq(Event) /\ Len(s) = Len(h) + 1 /\ Len(h) \in Nat
  /\ \A j \in 1 .. Len(s) : IF j = Len(h) + 1 THEN s[j] = e ELSE j \in 1 .. Len(h) /\ s[j] = h[j]
  /\ \A j \in 1 .. Len(h) : j \in 1 .. Len(s) /\ s[j] = h[j]
  /\ Len(s) \in 1 .. Len(s) /\ s[Len(s)] = e

\* One more event is held, its phase noted.
LEMMA KeptComes ==
  ASSUME NEW mk, NEW mu, NEW e, Makes(mk, mu, e), NEW m, NEW h, NEW pd, NEW p, HeldOK(h, pd, m, mk, p),
         NEW s, s = Append(h, e)
  PROVE  Lengthened(s, h, e) /\ Comes(m, s, mu)
<1>1. h \in Seq(Event) /\ e \in Event
  BY DEF HeldOK, Makes, Told
<1>2. /\ s \in Seq(Event) /\ Len(s) = Len(h) + 1 /\ Len(h) \in Nat
      /\ \A j \in 1 .. Len(s) : IF j = Len(h) + 1 THEN s[j] = e ELSE j \in 1 .. Len(h) /\ s[j] = h[j]
      /\ \A j \in 1 .. Len(h) : j \in 1 .. Len(s) /\ s[j] = h[j]
      /\ Len(s) \in 1 .. Len(s) /\ s[Len(s)] = e
  BY <1>1, AppendedIs
<1>3. ASSUME NEW k \in 1 .. Len(s) PROVE ComesAt(m, s, k, mu)
  <2>1. CASE k # Len(h) + 1
    <3>1. k \in 1 .. Len(h) /\ s[k] = h[k]
      BY <1>2, <2>1
    <3>2. ComesAt(m, h, k, mk)
      BY <3>1 DEF HeldOK, Comes
    <3>3. Told(s[k], mu)
      BY <3>1, <3>2, ToldStill DEF ComesAt
    <3>4. \A j \in 1 .. k - 1 : s[j] = h[j]
      BY <1>2, <3>1
    <3>5. s[k].type = "added" <=> /\ s[k].index \notin DOMAIN m.items
                                  /\ \A j \in 1 .. k - 1 : s[j].index # s[k].index
      BY <3>1, <3>2, <3>4 DEF ComesAt
    <3>6. s[k].index \in DOMAIN m.items => ~m.items[s[k].index].done
      BY <3>1, <3>2 DEF ComesAt
    <3>7. ASSUME s[k].type = "done", NEW j \in k + 1 .. Len(s) PROVE s[j].index # s[k].index
      <4>1. CASE j = Len(h) + 1
        <5>1. mk[s[k].index].done
          BY <3>1, <3>7 DEF HeldOK
        <5>2. s[k].index \in 1 .. Len(mk)
          BY <3>1, <3>2 DEF ComesAt, Told
        <5>3. s[k].index # e.index
          BY <5>1, <5>2 DEF Makes
        <5> QED
          BY <1>2, <4>1, <5>3
      <4>2. CASE j # Len(h) + 1
        <5>1. j \in k + 1 .. Len(h) /\ s[j] = h[j]
          BY <1>2, <3>1, <4>2
        <5> QED
          BY <3>1, <3>2, <3>7, <5>1 DEF ComesAt
      <4> QED
        BY <4>1, <4>2
    <3> QED
      BY <3>3, <3>5, <3>6, <3>7 DEF ComesAt
  <2>2. CASE k = Len(h) + 1
    <3>1. s[k] = e /\ k - 1 = Len(h) /\ k = Len(s)
      BY <1>2, <2>2
    <3>2. Told(s[k], mu)
      BY <3>1 DEF Makes
    <3>3. ASSUME e.type = "added" PROVE e.index \notin DOMAIN m.items /\ \A j \in 1 .. k - 1 : s[j].index # e.index
      <4>1. e.index \notin 1 .. Len(mk)
        <5>1. e.index = Len(mk) + 1 /\ Len(mk) \in Nat
          BY <3>3 DEF Makes
        <5> QED
          BY <5>1
      <4>2. e.index \notin DOMAIN m.items
        BY <4>1 DEF HeldOK
      <4>3. ASSUME NEW j \in 1 .. k - 1 PROVE s[j].index # e.index
        <5>1. j \in 1 .. Len(h) /\ s[j] = h[j]
          BY <1>2, <3>1
        <5>2. ComesAt(m, h, j, mk)
          BY <5>1 DEF HeldOK, Comes
        <5> QED
          BY <4>1, <5>1, <5>2 DEF ComesAt, Told
      <4> QED
        BY <4>2, <4>3
    <3>4. ASSUME e.type # "added"
          PROVE  e.index \in DOMAIN m.items \/ \E j \in 1 .. k - 1 : s[j].index = e.index
      <4>1. e.index \in 1 .. Len(mk)
        BY <3>4 DEF Makes
      <4>2. e.index \in DOMAIN m.items \/ \E j \in 1 .. Len(h) : h[j].index = e.index
        BY <4>1 DEF HeldOK, Touched
      <4> QED
        BY <1>2, <3>1, <4>2
    <3>5. e.index \in DOMAIN m.items => ~m.items[e.index].done
      BY DEF HeldOK, Makes
    <3>6. k + 1 .. Len(s) = {}
      BY <1>2, <3>1
    <3> QED
      BY <3>1, <3>2, <3>3, <3>4, <3>5, <3>6 DEF ComesAt
  <2> QED
    BY <2>1, <2>2
<1> QED
  BY <1>2, <1>3 DEF Comes, Lengthened

Noted(pd, e) ==
  IF e.type = "added" /\ e.what = "message" THEN Having(pd, e.index, Absent)
  ELSE IF e.type = "done" /\ e.what = "message" /\ e.index \in DOMAIN pd
  THEN [pd EXCEPT ![e.index] = e.phase] ELSE pd

LEMMA NotedIs ==
  ASSUME NEW pd, NEW e, NEW u, u = Noted(pd, e)
  PROVE  /\ \A i : i \in DOMAIN u <=> i \in DOMAIN pd \/ (i = e.index /\ e.type = "added" /\ e.what = "message")
         /\ \A i \in DOMAIN u : i # e.index => u[i] = pd[i]
         /\ e.type = "added" /\ e.what = "message" => u[e.index] = Absent
         /\ e.type = "done" /\ e.what = "message" /\ e.index \in DOMAIN pd => u[e.index] = e.phase
         /\ e.type = "delta" => u = pd
<1>1. CASE e.type = "added" /\ e.what = "message"
  BY <1>1 DEF Noted, Having
<1>2. CASE ~(e.type = "added" /\ e.what = "message") /\ e.type = "done" /\ e.what = "message" /\ e.index \in DOMAIN pd
  <2>1. u = [pd EXCEPT ![e.index] = e.phase]
    BY <1>2 DEF Noted
  <2> QED
    BY <1>2, <2>1
<1>3. CASE ~(e.type = "added" /\ e.what = "message") /\ ~(e.type = "done" /\ e.what = "message" /\ e.index \in DOMAIN pd)
  <2>1. u = pd
    BY <1>3 DEF Noted
  <2> QED
    BY <1>3, <2>1
<1> QED
  BY <1>1, <1>2, <1>3

LEMMA KeptHeld ==
  ASSUME NEW mk, NEW mu, NEW e, Makes(mk, mu, e), NEW m, NEW h, NEW pd, NEW p, HeldOK(h, pd, m, mk, p),
         NEW s, s = Append(h, e), NEW u, u = Noted(pd, e)
  PROVE  HeldOK(s, u, m, mu, p)
<1>1. /\ s \in Seq(Event) /\ Len(s) = Len(h) + 1 /\ Len(h) \in Nat
      /\ \A j \in 1 .. Len(s) : IF j = Len(h) + 1 THEN s[j] = e ELSE j \in 1 .. Len(h) /\ s[j] = h[j]
      /\ \A j \in 1 .. Len(h) : j \in 1 .. Len(s) /\ s[j] = h[j]
      /\ Len(s) \in 1 .. Len(s) /\ s[Len(s)] = e
      /\ Comes(m, s, mu)
  <2>1. Lengthened(s, h, e) /\ Comes(m, s, mu)
    BY KeptComes
  <2> QED
    BY <2>1 DEF Lengthened
<1>2. /\ \A i \in 1 .. Len(mk) : /\ i \in 1 .. Len(mu) /\ mu[i].kind = mk[i].kind
                                 /\ IF i = e.index THEN ~mk[i].done ELSE mu[i] = mk[i]
      /\ Told(e, mu) /\ Len(mk) \in Nat
      /\ IF e.type = "added" THEN e.index = Len(mk) + 1 /\ Len(mu) = Len(mk) + 1
         ELSE e.index \in 1 .. Len(mk) /\ Len(mu) = Len(mk)
      /\ IF e.type = "done" THEN mu[e.index].done /\ mu[e.index].phase = e.phase ELSE ~mu[e.index].done
  BY DEF Makes
<1>3. /\ \A i \in DOMAIN m.items : i \in 1 .. Len(mk) /\ (m.items[i].done => mk[i].done)
      /\ \A i \in 1 .. Len(mk) : i \in DOMAIN m.items \/ Touched(h, Len(h), i)
      /\ \A n \in 1 .. Len(h) : h[n].type = "done" => mk[h[n].index].done
      /\ \A i \in DOMAIN pd : i \in 1 .. Len(mk) /\ i \notin DOMAIN m.items /\ mk[i].kind = "message"
  BY DEF HeldOK
<1>4. /\ \A i : i \in DOMAIN u <=> i \in DOMAIN pd \/ (i = e.index /\ e.type = "added" /\ e.what = "message")
      /\ \A i \in DOMAIN u : i # e.index => u[i] = pd[i]
      /\ e.type = "added" /\ e.what = "message" => u[e.index] = Absent
      /\ e.type = "done" /\ e.what = "message" /\ e.index \in DOMAIN pd => u[e.index] = e.phase
      /\ e.type = "delta" => u = pd
  BY NotedIs
<1>5. ASSUME NEW n \in 1 .. Len(s), s[n].type = "done" PROVE mu[s[n].index].done
  <2>1. CASE n = Len(h) + 1
    BY <1>1, <1>2, <1>5, <2>1
  <2>2. CASE n # Len(h) + 1
    <3>1. n \in 1 .. Len(h) /\ s[n] = h[n]
      BY <1>1, <2>2
    <3>2. mk[s[n].index].done
      BY <1>3, <1>5, <3>1
    <3>3. s[n].index \in 1 .. Len(mk)
      BY <3>1 DEF HeldOK, Comes, ComesAt, Told
    <3> QED
      BY <1>2, <3>2, <3>3
  <2> QED
    BY <2>1, <2>2
<1>6. ASSUME NEW i \in 1 .. Len(mu), i # e.index PROVE i \in 1 .. Len(mk) /\ mu[i] = mk[i]
  <2>1. i \in 1 .. Len(mk)
    BY <1>2, <1>6
  <2> QED
    BY <1>2, <1>6, <2>1
<1>7. \A i : (Touched(h, Len(h), i) => Touched(s, Len(s), i)) /\ (Over(h, Len(h), i) => Over(s, Len(s), i))
  BY <1>1 DEF Touched, Over
<1>8. ASSUME NEW i \in 1 .. Len(mu) PROVE i \in DOMAIN m.items \/ Touched(s, Len(s), i)
  <2>1. CASE i = e.index
    BY <1>1, <2>1 DEF Touched
  <2>2. CASE i # e.index
    BY <1>3, <1>6, <1>7, <2>2
  <2> QED
    BY <2>1, <2>2
<1>9. ASSUME NEW i \in DOMAIN m.items PROVE i \in 1 .. Len(mu) /\ (m.items[i].done => mu[i].done)
  BY <1>2, <1>3
<1>10. ASSUME p, NEW i \in 1 .. Len(mu), mu[i].kind = "message" PROVE MessageOK(s, u, m, mu, i)
  <2>1. ASSUME NEW j \in 1 .. Len(mk), mk[j].kind = "message" PROVE MessageOK(h, pd, m, mk, j)
    BY <1>10, <2>1 DEF HeldOK
  <2>2. CASE i \in DOMAIN m.items
    <3>1. i \in 1 .. Len(mk) /\ mk[i].kind = "message"
      BY <1>2, <1>3, <1>10, <2>2
    <3>2. mk[i].done /\ m.items[i].done
      BY <2>1, <2>2, <3>1 DEF MessageOK
    <3> QED
      BY <1>2, <2>2, <3>1, <3>2 DEF MessageOK
  <2>3. CASE i \notin DOMAIN m.items /\ i # e.index
    <3>1. i \in 1 .. Len(mk) /\ mu[i] = mk[i]
      BY <1>6, <2>3
    <3>2. MessageOK(h, pd, m, mk, i)
      BY <1>10, <2>1, <3>1
    <3>3. i \in DOMAIN pd /\ i \in DOMAIN u /\ u[i] = pd[i]
      BY <1>4, <2>3, <3>2 DEF MessageOK
    <3> QED
      BY <1>7, <2>3, <3>1, <3>2, <3>3 DEF MessageOK
  <2>4. CASE i \notin DOMAIN m.items /\ i = e.index
    <3>1. CASE e.type = "added"
      <4>1. e.what = "message" /\ ~mu[i].done
        BY <1>2, <1>10, <2>4, <3>1 DEF Told
      <4> QED
        BY <1>4, <2>4, <3>1, <4>1 DEF MessageOK
    <3>2. CASE e.type # "added"
      <4>1. i \in 1 .. Len(mk) /\ mk[i].kind = "message" /\ ~mk[i].done
        BY <1>2, <1>10, <2>4, <3>2
      <4>2. i \in DOMAIN pd /\ pd[i] = Absent
        BY <2>1, <2>4, <4>1 DEF MessageOK
      <4>3. CASE e.type = "delta"
        BY <1>2, <1>4, <2>4, <4>2, <4>3 DEF MessageOK
      <4>4. CASE e.type = "done"
        <5>1. e.what = "message"
          BY <1>2, <1>10, <2>4, <4>4 DEF Told
        <5>2. i \in DOMAIN u /\ u[i] = mu[i].phase /\ mu[i].done
          BY <1>2, <1>4, <2>4, <4>2, <4>4, <5>1
        <5>3. Over(s, Len(s), i)
          BY <1>1, <2>4, <4>4 DEF Over
        <5> QED
          BY <2>4, <5>2, <5>3 DEF MessageOK
      <4> QED
        BY <1>2, <3>2, <4>3, <4>4 DEF Told, Event, Types
    <3> QED
      BY <3>1, <3>2
  <2> QED
    BY <2>2, <2>3, <2>4
<1>11. ASSUME NEW i \in DOMAIN u PROVE i \in 1 .. Len(mu) /\ i \notin DOMAIN m.items /\ mu[i].kind = "message"
  <2>1. CASE i \in DOMAIN pd
    BY <1>2, <1>3, <2>1
  <2>2. CASE i = e.index /\ e.type = "added" /\ e.what = "message"
    <3>1. i = Len(mk) + 1 /\ i \notin 1 .. Len(mk) /\ i \in 1 .. Len(mu)
      BY <1>2, <2>2
    <3>2. mu[i].kind = "message"
      BY <1>2, <2>2 DEF Told
    <3> QED
      BY <1>3, <3>1, <3>2
  <2> QED
    BY <1>4, <2>1, <2>2
<1> QED
  BY <1>1, <1>5, <1>8, <1>9, <1>10, <1>11 DEF HeldOK

\* Once every message begun has its last phase, all are done.
AllDone(mk, p) == p => \A i \in 1 .. Len(mk) : mk[i].kind = "message" => mk[i].done

LEMMA KnownDone ==
  ASSUME NEW mk, NEW m, NEW h, NEW pd, NEW p, HeldOK(h, pd, m, mk, p), p => AllKnown(pd)
  PROVE  AllDone(mk, p)
<1> SUFFICES ASSUME p, NEW i \in 1 .. Len(mk), mk[i].kind = "message" PROVE mk[i].done
  BY DEF AllDone
<1>1. MessageOK(h, pd, m, mk, i)
  BY DEF HeldOK
<1> QED
  BY <1>1 DEF MessageOK, AllKnown

\* What is given out then, with those phases.
Settled(x, pd) ==
  IF x.what = "message" /\ x.index \in DOMAIN pd /\ pd[x.index] # Absent
  THEN [x EXCEPT !.phase = pd[x.index]] ELSE x

Alike(q, h) ==
  /\ Len(q) = Len(h) /\ Len(h) \in Nat
  /\ \A n \in 1 .. Len(h) : q[n].index = h[n].index /\ q[n].type = h[n].type

Releases(h, pd, m, mk, p) ==
  mk \in Seq(MadeItem) /\ HeldOK(h, pd, m, mk, p) /\ p /\ AllKnown(pd)
GivenAs(x, e, mk, p) == x.index = e.index /\ x.type = e.type /\ Told(x, mk) /\ Certain(x, mk, p)

LEMMA SettledIs ==
  ASSUME NEW mk, NEW m, NEW h, NEW pd, NEW p, Releases(h, pd, m, mk, p), NEW n \in 1 .. Len(h)
  PROVE  GivenAs(Settled(h[n], pd), h[n], mk, p)
<1>0. mk \in Seq(MadeItem) /\ HeldOK(h, pd, m, mk, p) /\ p /\ AllKnown(pd)
  BY DEF Releases
<1>1. ComesAt(m, h, n, mk)
  BY <1>0 DEF HeldOK, Comes
<1>2. Told(h[n], mk)
  BY <1>1 DEF ComesAt
<1> DEFINE e == h[n]
           i == e.index
           x == Settled(e, pd)
<1>3. e \in Event /\ i \in 1 .. Len(mk)
  BY <1>2 DEF Told
<1>4. \A j \in 1 .. Len(mk) : mk[j].kind = "message" => MessageOK(h, pd, m, mk, j)
  BY <1>0 DEF HeldOK
<1>5. mk[i] \in MadeItem
  BY <1>0, <1>3
<1> HIDE DEF e, x
<1>6. CASE e.what = "message" /\ i \in DOMAIN pd
  <2>1. pd[i] # Absent
    BY <1>0, <1>6 DEF AllKnown
  <2>2. e.type # "delta" /\ mk[i].kind = "message" /\ i \notin DOMAIN m.items
    BY <1>0, <1>2, <1>6 DEF Told, e, HeldOK
  <2>3. mk[i].done /\ pd[i] = mk[i].phase
    BY <1>3, <1>4, <2>1, <2>2 DEF MessageOK
  <2>4. pd[i] \in Phases \cup {Absent}
    BY <1>5, <2>3 DEF MadeItem
  <2>5. x = [e EXCEPT !.phase = pd[i]]
    BY <1>6, <2>1 DEF Settled, x
  <2>6. x \in Event /\ x.index = i /\ x.type = e.type /\ x.what = e.what /\ x.phase = pd[i]
    BY <1>3, <2>4, <2>5 DEF Event
  <2>7. Told(x, mk)
    BY <1>2, <1>6, <2>2, <2>6 DEF Told, e
  <2>8. Certain(x, mk, p)
    BY <2>3, <2>6 DEF Certain
  <2>9. GivenAs(x, e, mk, p)
    BY <2>6, <2>7, <2>8 DEF GivenAs
  <2> QED
    BY <2>9 DEF x, e
<1>7. CASE ~(e.what = "message" /\ i \in DOMAIN pd)
  <2>1. x = e
    BY <1>7 DEF Settled, x
  <2>2. e.phase = Absent
    <3>1. CASE e.what = "message"
      <4>1. mk[i].kind = "message"
        BY <1>2, <3>1 DEF Told, e
      <4>2. i \in DOMAIN m.items /\ m.items[i].done
        BY <1>3, <1>4, <1>7, <3>1, <4>1 DEF MessageOK
      <4> QED
        BY <1>1, <4>2 DEF ComesAt, e
    <3>2. CASE e.what # "message"
      BY <1>2, <3>2 DEF Told, e, Event, Types
    <3> QED
      BY <3>1, <3>2
  <2>3. Certain(x, mk, p)
    BY <2>1, <2>2 DEF Certain
  <2>4. Told(e, mk)
    BY <1>2 DEF e
  <2>5. GivenAs(x, e, mk, p)
    BY <2>1, <2>3, <2>4 DEF GivenAs
  <2> QED
    BY <2>5 DEF x, e
<1> QED
  BY <1>6, <1>7 DEF x, e

LEMMA AlikeComes ==
  ASSUME NEW mk, NEW m, NEW h, NEW q, Comes(m, h, mk), Alike(q, h), \A n \in 1 .. Len(q) : Told(q[n], mk)
  PROVE  Comes(m, q, mk)
<1> SUFFICES ASSUME NEW k \in 1 .. Len(q) PROVE ComesAt(m, q, k, mk)
  BY DEF Comes
<1>1. ComesAt(m, h, k, mk) /\ Told(q[k], mk)
  BY DEF Comes, Alike
<1>2. /\ \A j \in 1 .. k - 1 : q[j].index = h[j].index
      /\ \A j \in k + 1 .. Len(q) : j \in k + 1 .. Len(h) /\ q[j].index = h[j].index
      /\ q[k].index = h[k].index /\ q[k].type = h[k].type
  BY DEF Alike
<1> QED
  BY <1>1, <1>2 DEF ComesAt

\* And then nothing is held.
LEMMA AllGiven ==
  ASSUME NEW mk, NEW m, NEW h, NEW pd, NEW p, HeldOK(h, pd, m, mk, p), AllDone(mk, p),
         NEW q, Alike(q, h), NEW o, After(m, q, Len(q), o)
  PROVE  HeldOK(<<>>, <<>>, o, mk, p)
<1>1. \A i : (Touched(q, Len(q), i) <=> Touched(h, Len(h), i)) /\ (Over(q, Len(q), i) <=> Over(h, Len(h), i))
  BY DEF Alike, Touched, Over
<1>2. <<>> \in Seq(Event) /\ Len(<<>>) = 0 /\ DOMAIN <<>> = {}
  OBVIOUS
<1>3. Comes(o, <<>>, mk)
  BY DEF Comes
<1>4. ASSUME NEW i \in 1 .. Len(mk) PROVE i \in DOMAIN o.items
  BY <1>1 DEF HeldOK, After
<1>5. ASSUME NEW i \in DOMAIN o.items PROVE i \in 1 .. Len(mk)
  <2>1. CASE i \in DOMAIN m.items
    BY <2>1 DEF HeldOK
  <2>2. CASE Touched(h, Len(h), i)
    <3>1. PICK j \in 1 .. Len(h) : h[j].index = i
      BY <2>2 DEF Touched
    <3> QED
      BY <3>1 DEF HeldOK, Comes, ComesAt, Told
  <2> QED
    BY <1>1, <2>1, <2>2 DEF After
<1>6. ASSUME NEW i \in DOMAIN o.items, o.items[i].done PROVE mk[i].done
  <2>1. CASE i \in DOMAIN m.items /\ m.items[i].done
    BY <2>1 DEF HeldOK
  <2>2. CASE Over(h, Len(h), i)
    <3>1. PICK j \in 1 .. Len(h) : h[j].index = i /\ h[j].type = "done"
      BY <2>2 DEF Over
    <3> QED
      BY <3>1 DEF HeldOK
  <2> QED
    BY <1>1, <1>6, <2>1, <2>2 DEF After
<1>7. ASSUME p, NEW i \in 1 .. Len(mk), mk[i].kind = "message" PROVE MessageOK(<<>>, <<>>, o, mk, i)
  <2>1. mk[i].done /\ MessageOK(h, pd, m, mk, i) /\ i \in DOMAIN o.items
    BY <1>4, <1>7 DEF AllDone, HeldOK
  <2>2. (i \in DOMAIN m.items /\ m.items[i].done) \/ Over(q, Len(q), i)
    BY <1>1, <2>1 DEF MessageOK
  <2>3. o.items[i].done
    BY <2>1, <2>2 DEF After
  <2> QED
    BY <2>1, <2>3 DEF MessageOK
<1> HIDE DEF Comes
<1>8. \A i \in 1 .. Len(mk) : i \in DOMAIN o.items \/ Touched(<<>>, Len(<<>>), i)
  BY <1>4
<1>9. \A i \in DOMAIN <<>> : i \in 1 .. Len(mk) /\ i \notin DOMAIN o.items /\ mk[i].kind = "message"
  BY <1>2
<1>10. \A n \in 1 .. Len(<<>>) : <<>>[n].type = "done" => mk[<<>>[n].index].done
  BY <1>2
<1> QED
  BY <1>2, <1>3, <1>5, <1>6, <1>7, <1>8, <1>9, <1>10 DEF HeldOK

\* The inductive invariant of the two filters.
Kept == HeldOK(held, pending, merged, made, policy)
NothingKept == (~policy => held = <<>>) /\ (held = <<>> => DOMAIN pending = {})
StreamInv ==
  /\ policy \in BOOLEAN /\ roundNo \in 1 .. Rounds /\ ended \in {"no", "finished", "failed"}
  /\ made \in Seq(MadeItem) /\ Len(made) <= ItemsPerRound /\ PhasesOf(made)
  /\ MergedOK(merged, made, roundNo, policy)
  /\ ended = "no" => Kept /\ NothingKept
  /\ ended = "finished" => \A i \in DOMAIN merged.items : merged.items[i].done

LEMMA RoundIs == ASSUME StreamInv PROVE roundNo \in Nat \ {0}
BY StreamAssumption DEF StreamInv

LEMMA HoldIs ==
  ASSUME NEW e
  PROVE  Hold(e) =
           IF ~policy \/ (held = <<>> /\ ~(e.type = "added" /\ e.what = "message"))
           THEN [held |-> <<>>, pending |-> <<>>, given |-> <<e>>]
           ELSE IF AllKnown(Noted(pending, e))
           THEN [held |-> <<>>, pending |-> <<>>,
                 given |-> [n \in 1 .. Len(Append(held, e)) |-> Settled(Append(held, e)[n], Noted(pending, e))]]
           ELSE [held |-> Append(held, e), pending |-> Noted(pending, e), given |-> <<>>]
<1>1. CASE ~policy \/ (held = <<>> /\ ~(e.type = "added" /\ e.what = "message"))
  BY <1>1 DEF Hold
<1>2. CASE ~(~policy \/ (held = <<>> /\ ~(e.type = "added" /\ e.what = "message")))
  BY <1>2 DEF Hold, Noted, Settled
<1> QED
  BY <1>1, <1>2

\* What is given out is pushed, and then nothing is held.
LEMMA GivenPushed ==
  ASSUME NEW m, NEW mu, NEW p, roundNo \in Nat \ {0}, MergedOK(m, mu, roundNo, p),
         NEW s, NEW u, HeldOK(s, u, m, mu, p), AllDone(mu, p),
         NEW q, Alike(q, s), \A n \in 1 .. Len(q) : Told(q[n], mu) /\ Certain(q[n], mu, p)
  PROVE  /\ MergedOK(Pushed(m, q, Len(q)), mu, roundNo, p)
         /\ HeldOK(<<>>, <<>>, Pushed(m, q, Len(q)), mu, p)
<1>1. Comes(m, s, mu)
  BY DEF HeldOK
<1>2. Comes(m, q, mu)
  BY <1>1, AlikeComes
<1>3. Len(q) \in Nat /\ Len(q) \in 0 .. Len(q)
  BY DEF Alike
<1> DEFINE o == Pushed(m, q, Len(q))
<1>4. MergedOK(o, mu, roundNo, p) /\ After(m, q, Len(q), o)
  BY <1>2, <1>3, QueuePushed
<1> HIDE DEF o
<1>5. HeldOK(<<>>, <<>>, o, mu, p)
  BY <1>4, AllGiven
<1> QED
  BY <1>4, <1>5 DEF o

LEMMA PassKeeps ==
  ASSUME StreamInv, ended = "no", NEW e, Makes(made, made', e), Len(made') <= ItemsPerRound, Passes(e)
  PROVE  StreamInv'
<1> DEFINE s == Append(held, e)
           u == Noted(pending, e)
           q == Hold(e).given
           mu == made'
           begins == e.type = "added" /\ e.what = "message"
<1>1. roundNo \in Nat \ {0} /\ roundNo \in Nat
  BY RoundIs
<1>2. MergedOK(merged, mu, roundNo, policy)
  BY <1>1, MergedStill DEF StreamInv
<1>3. HeldOK(held, pending, merged, made, policy) /\ NothingKept
  BY DEF StreamInv, Kept
<1>4. HeldOK(s, u, merged, mu, policy)
  BY <1>3, KeptHeld
<1>5. Len(s) \in Nat /\ Len(s) = Len(held) + 1 /\ s[Len(s)] = e /\ Len(held) \in Nat
  <2>1. Lengthened(s, held, e)
    BY <1>3, KeptComes
  <2> HIDE DEF s
  <2> QED
    BY <2>1 DEF Lengthened
<1>6. mu \in Seq(MadeItem) /\ PhasesOf(mu)
  BY DEF Makes
<1>7. /\ held' = Hold(e).held /\ pending' = Hold(e).pending
      /\ merged' = Pushed(merged, q, Len(q))
      /\ ended' = (IF merged'.failed THEN "failed" ELSE ended)
      /\ policy' = policy /\ roundNo' = roundNo
  BY DEF Passes
<1>8. SUFFICES /\ MergedOK(merged', mu, roundNo, policy)
               /\ HeldOK(held', pending', merged', mu, policy)
               /\ (~policy => held' = <<>>) /\ (held' = <<>> => DOMAIN pending' = {})
  <2>1. ASSUME MergedOK(merged', mu, roundNo, policy) PROVE ended' = "no"
    <3>1. merged'.failed = FALSE
      BY <2>1 DEF MergedOK, Merging
    <3> QED
      BY <1>7, <3>1
  <2> QED
    BY <1>6, <1>7, <2>1 DEF StreamInv, Kept, NothingKept
<1>9. CASE ~policy \/ (held = <<>> /\ ~begins)
  <2>1. held' = <<>> /\ pending' = <<>> /\ q = <<e>>
    BY <1>7, <1>9, HoldIs
  <2>2. held = <<>>
    BY <1>3, <1>9 DEF NothingKept
  <2>3. Len(s) = 1 /\ s[1] = e
    BY <1>5, <2>2
  <2>4. Len(q) = 1 /\ q[1] = e
    BY <2>1
  <2>5. ASSUME policy PROVE DOMAIN u = {}
    <3>1. DOMAIN pending = {} /\ ~begins
      BY <1>3, <1>9, <2>2, <2>5 DEF NothingKept
    <3>2. \A i : i \in DOMAIN u <=> i \in DOMAIN pending \/ (i = e.index /\ e.type = "added" /\ e.what = "message")
      BY NotedIs
    <3> QED
      BY <3>1, <3>2
  <2> HIDE DEF s, u, q, mu, begins
  <2>6. policy => AllKnown(u)
    BY <2>5 DEF AllKnown
  <2>7. AllDone(mu, policy)
    BY <1>4, <2>6, KnownDone
  <2>8. Alike(q, s)
    BY <2>3, <2>4 DEF Alike
  <2>9. Told(e, mu)
    BY DEF Makes, mu
  <2>10. Certain(e, mu, policy)
    <3>1. CASE policy
      <4>1. e = Settled(s[1], u)
        BY <2>3, <2>5, <3>1 DEF Settled
      <4>2. 1 \in 1 .. Len(s)
        BY <2>3
      <4>3. Releases(s, u, merged, mu, policy)
        BY <1>4, <1>6, <2>6, <3>1 DEF Releases
      <4>4. GivenAs(Settled(s[1], u), s[1], mu, policy)
        BY <4>2, <4>3, SettledIs
      <4> QED
        BY <4>1, <4>4 DEF GivenAs
    <3>2. CASE ~policy
      BY <3>2 DEF Certain
    <3> QED
      BY <3>1, <3>2
  <2>11. \A n \in 1 .. Len(q) : Told(q[n], mu) /\ Certain(q[n], mu, policy)
    BY <2>4, <2>9, <2>10
  <2>12. /\ MergedOK(Pushed(merged, q, Len(q)), mu, roundNo, policy)
         /\ HeldOK(<<>>, <<>>, Pushed(merged, q, Len(q)), mu, policy)
    BY <1>1, <1>2, <1>4, <2>7, <2>8, <2>11, GivenPushed
  <2>13. DOMAIN <<>> = {}
    OBVIOUS
  <2> QED
    BY <1>7, <2>1, <2>12, <2>13
<1>10. CASE ~(~policy \/ (held = <<>> /\ ~begins)) /\ AllKnown(u)
  <2>1. held' = <<>> /\ pending' = <<>> /\ q = [n \in 1 .. Len(s) |-> Settled(s[n], u)]
    BY <1>7, <1>10, HoldIs
  <2>2. policy
    BY <1>10
  <2> HIDE DEF s, u, q, mu, begins
  <2>3. Len(q) = Len(s) /\ \A n \in 1 .. Len(s) : q[n] = Settled(s[n], u)
    BY <1>5, <2>1
  <2>4. AllDone(mu, policy)
    BY <1>4, <1>10, KnownDone
  <2>5. ASSUME NEW n \in 1 .. Len(s)
        PROVE  q[n].index = s[n].index /\ q[n].type = s[n].type /\ Told(q[n], mu) /\ Certain(q[n], mu, policy)
    <3>1. Releases(s, u, merged, mu, policy)
      BY <1>4, <1>6, <1>10, <2>2 DEF Releases
    <3>2. GivenAs(Settled(s[n], u), s[n], mu, policy) /\ q[n] = Settled(s[n], u)
      BY <2>3, <3>1, SettledIs
    <3> QED
      BY <3>2 DEF GivenAs
  <2>6. Alike(q, s)
    BY <1>5, <2>3, <2>5 DEF Alike
  <2>7. \A n \in 1 .. Len(q) : Told(q[n], mu) /\ Certain(q[n], mu, policy)
    BY <2>3, <2>5
  <2>8. /\ MergedOK(Pushed(merged, q, Len(q)), mu, roundNo, policy)
        /\ HeldOK(<<>>, <<>>, Pushed(merged, q, Len(q)), mu, policy)
    BY <1>1, <1>2, <1>4, <2>4, <2>6, <2>7, GivenPushed
  <2>9. DOMAIN <<>> = {}
    OBVIOUS
  <2> QED
    BY <1>7, <2>1, <2>8, <2>9
<1>11. CASE ~(~policy \/ (held = <<>> /\ ~begins)) /\ ~AllKnown(u)
  <2>1. held' = s /\ pending' = u /\ q = <<>> /\ policy
    BY <1>7, <1>11, HoldIs
  <2>2. merged' = merged
    <3>1. Len(q) = 0
      BY <2>1
    <3> HIDE DEF q
    <3> QED
      BY <1>7, <3>1, PushedNone
  <2>3. s # <<>>
    BY <1>5
  <2> HIDE DEF s, u, q, mu, begins
  <2> QED
    BY <1>2, <1>4, <2>1, <2>2, <2>3
<1> QED
  BY <1>9, <1>10, <1>11

LEMMA AddsKeeps ==
  ASSUME StreamInv, NEW kind \in Kinds, NEW phase \in Phases \cup {Absent}, NEW unnamed \in BOOLEAN,
         Adds(kind, phase, unnamed)
  PROVE  StreamInv'
<1> DEFINE e == [index |-> Len(made) + 1, type |-> "added", phase |-> phase,
                 what |-> IF unnamed THEN "unnamed" ELSE kind]
           it == [kind |-> kind, phase |-> phase, deltas |-> 0, done |-> FALSE]
<1>1. ended = "no" /\ Len(made) < ItemsPerRound /\ made' = Append(made, it) /\ Passes(e)
  BY DEF Adds
<1>2. (kind = "message" <=> phase # Absent) /\ (unnamed => kind # "message")
  BY DEF Adds
<1>3. it \in MadeItem /\ it.kind = kind /\ it.phase = phase /\ ~it.done
  BY DEF MadeItem
<1>4. made \in Seq(MadeItem) /\ PhasesOf(made) /\ Len(made) \in Nat
  BY DEF StreamInv
<1>5. /\ e.index = Len(made) + 1 /\ e.type = "added" /\ e.phase = phase
      /\ e.what = (IF unnamed THEN "unnamed" ELSE kind)
  OBVIOUS
<1>6. e \in Event
  BY <1>4 DEF Event, Types, Kinds
<1> DEFINE mu == made'
<1> HIDE DEF e, it, mu
<1>7. /\ mu \in Seq(MadeItem) /\ Len(mu) = Len(made) + 1
      /\ \A j \in 1 .. Len(mu) : IF j = Len(made) + 1 THEN mu[j] = it ELSE j \in 1 .. Len(made) /\ mu[j] = made[j]
      /\ \A j \in 1 .. Len(made) : j \in 1 .. Len(mu) /\ mu[j] = made[j]
      /\ e.index \in 1 .. Len(mu) /\ mu[e.index] = it
  <2>1. mu = Append(made, it)
    BY <1>1 DEF mu
  <2> QED
    BY <1>3, <1>4, <1>5, <2>1, AppendedIs
<1>8. Told(e, mu)
  BY <1>2, <1>3, <1>5, <1>6, <1>7 DEF Told
<1>9. PhasesOf(mu)
  BY <1>2, <1>3, <1>4, <1>7 DEF PhasesOf
<1>10. Makes(made, mu, e)
  <2>1. \A i \in 1 .. Len(made) : i # e.index
    BY <1>4, <1>5
  <2> QED
    BY <1>3, <1>4, <1>5, <1>7, <1>8, <1>9, <2>1 DEF Makes
<1>11. Len(mu) <= ItemsPerRound
  BY <1>1, <1>4, <1>7, StreamAssumption
<1> QED
  BY <1>1, <1>10, <1>11, PassKeeps DEF mu

LEMMA ExtendsKeeps ==
  ASSUME StreamInv, NEW i \in DOMAIN made, Extends(i)
  PROVE  StreamInv'
<1> DEFINE e == [index |-> i, type |-> "delta", what |-> "none", phase |-> Absent]
           mu == made'
<1>1. ended = "no" /\ ~made[i].done /\ Passes(e) /\ made' = [made EXCEPT ![i].deltas = @ + 1]
  BY DEF Extends
<1>2. made \in Seq(MadeItem) /\ PhasesOf(made) /\ Len(made) \in Nat /\ i \in 1 .. Len(made) /\ Len(made) <= ItemsPerRound
  BY DEF StreamInv
<1>3. e.index = i /\ e.type = "delta" /\ e.what = "none" /\ e.phase = Absent
  OBVIOUS
<1>4. e \in Event
  BY <1>2 DEF Event, Types
<1>5. made[i] \in MadeItem
  BY <1>2
<1>6. /\ mu \in Seq(MadeItem) /\ Len(mu) = Len(made)
      /\ mu[i].kind = made[i].kind /\ mu[i].phase = made[i].phase /\ ~mu[i].done
      /\ \A j \in 1 .. Len(made) : j # i => mu[j] = made[j]
  <2> DEFINE it == [made[i] EXCEPT !.deltas = @ + 1]
  <2>1. it \in MadeItem /\ it.kind = made[i].kind /\ it.phase = made[i].phase /\ ~it.done
    BY <1>1, <1>5 DEF MadeItem
  <2>2. made' = [made EXCEPT ![i] = it]
    BY <1>1
  <2> HIDE DEF it
  <2> QED
    BY <1>2, <2>1, <2>2
<1> HIDE DEF e, mu
<1>7. Told(e, mu)
  BY <1>2, <1>3, <1>4, <1>5, <1>6 DEF Told, PhasesOf, MadeItem
<1>8. PhasesOf(mu)
  BY <1>2, <1>6 DEF PhasesOf
<1>9. Makes(made, mu, e)
  BY <1>1, <1>2, <1>3, <1>6, <1>7, <1>8 DEF Makes
<1> QED
  BY <1>1, <1>2, <1>6, <1>9, PassKeeps DEF mu

LEMMA EndsKeeps ==
  ASSUME StreamInv, NEW i \in DOMAIN made, NEW phase \in Phases \cup {Absent}, Ends(i, phase)
  PROVE  StreamInv'
<1> DEFINE e == [index |-> i, type |-> "done", what |-> made[i].kind, phase |-> phase]
           mu == made'
<1>1. /\ ended = "no" /\ ~made[i].done /\ Passes(e) /\ made' = [made EXCEPT ![i].done = TRUE, ![i].phase = phase]
      /\ (made[i].kind = "message" <=> phase # Absent)
  BY DEF Ends
<1>2. made \in Seq(MadeItem) /\ PhasesOf(made) /\ Len(made) \in Nat /\ i \in 1 .. Len(made) /\ Len(made) <= ItemsPerRound
  BY DEF StreamInv
<1>3. e.index = i /\ e.type = "done" /\ e.what = made[i].kind /\ e.phase = phase
  OBVIOUS
<1>4. made[i] \in MadeItem
  BY <1>2
<1>5. e \in Event
  BY <1>2, <1>4 DEF Event, Types, MadeItem
<1>6. /\ mu \in Seq(MadeItem) /\ Len(mu) = Len(made)
      /\ mu[i].kind = made[i].kind /\ mu[i].phase = phase /\ mu[i].done
      /\ \A j \in 1 .. Len(made) : j # i => mu[j] = made[j]
  <2> DEFINE it == [made[i] EXCEPT !.done = TRUE, !.phase = phase]
  <2>1. it \in MadeItem /\ it.kind = made[i].kind /\ it.phase = phase /\ it.done
    BY <1>4 DEF MadeItem
  <2>2. made' = [made EXCEPT ![i] = it]
    BY <1>1, <1>2
  <2> HIDE DEF it
  <2> QED
    BY <1>2, <2>1, <2>2
<1> HIDE DEF e, mu
<1>7. Told(e, mu)
  BY <1>1, <1>2, <1>3, <1>4, <1>5, <1>6 DEF Told, MadeItem
<1>8. PhasesOf(mu)
  BY <1>1, <1>2, <1>6 DEF PhasesOf
<1>9. Makes(made, mu, e)
  BY <1>1, <1>2, <1>3, <1>6, <1>7, <1>8 DEF Makes
<1> QED
  BY <1>1, <1>2, <1>6, <1>9, PassKeeps DEF mu

CompleteTurn(m, g, i) == IF i = 0 THEN m ELSE Completed(g[i - 1], i)

LEMMA CompletionsExist ==
  ASSUME NEW m, NEW N \in Nat
  PROVE  \E g : g = [i \in 0 .. N |-> CompleteTurn(m, g, i)]
<1> DEFINE Good(n) == \E g : g = [i \in 0 .. n |-> CompleteTurn(m, g, i)]
<1> SUFFICES ASSUME {n \in Nat : ~Good(n)} # {} PROVE FALSE
  OBVIOUS
<1>1. PICK n \in {k \in Nat : ~Good(k)} : \A k \in {l \in Nat : ~Good(l)} : n <= k
  BY LeastOf
<1>2. CASE n = 0
  <2> DEFINE g == [i \in 0 .. 0 |-> m]
  <2>1. g = [i \in 0 .. 0 |-> CompleteTurn(m, g, i)]
    BY DEF CompleteTurn
  <2> QED
    BY <1>1, <1>2, <2>1
<1>3. CASE n # 0
  <2>1. n - 1 \in Nat /\ Good(n - 1)
    <3> HIDE DEF Good
    <3> QED
      BY <1>1, <1>3
  <2>2. PICK g : g = [i \in 0 .. n - 1 |-> CompleteTurn(m, g, i)]
    BY <2>1
  <2> DEFINE more == [i \in 0 .. n |-> CompleteTurn(m, g, i)]
  <2>3. ASSUME NEW i \in 0 .. n PROVE CompleteTurn(m, more, i) = CompleteTurn(m, g, i)
    <3>1. CASE i = 0
      BY <3>1 DEF CompleteTurn
    <3>2. CASE i # 0
      <4>1. i - 1 \in 0 .. n - 1 /\ i - 1 \in 0 .. n
        BY <1>1, <3>2
      <4>2. g[i - 1] = CompleteTurn(m, g, i - 1)
        BY <2>2, <4>1
      <4>3. more[i - 1] = g[i - 1]
        BY <4>1, <4>2
      <4> HIDE DEF more
      <4> QED
        BY <3>2, <4>3 DEF CompleteTurn
    <3> QED
      BY <3>1, <3>2
  <2>4. more = [i \in 0 .. n |-> CompleteTurn(m, more, i)]
    BY <2>3
  <2> QED
    BY <1>1, <2>4
<1> QED
  BY <1>2, <1>3

Checked(n) == [n EXCEPT !.failed = @ \/ \E i \in DOMAIN n.items : ~n.items[i].done]
Completions(m, g) == g[0] = m /\ \A i \in 1 .. Len(made) : g[i] = Completed(g[i - 1], i)

LEMMA EndRoundIs ==
  ASSUME NEW m, Len(made) \in Nat
  PROVE  \E g : EndRound(m) = Checked(g[Len(made)]) /\ Completions(m, g)
<1> DEFINE g == CHOOSE g : g = [i \in 0 .. Len(made) |-> CompleteTurn(m, g, i)]
<1>1. g = [i \in 0 .. Len(made) |-> CompleteTurn(m, g, i)]
  BY CompletionsExist
<1>2. EndRound(m) = Checked(g[Len(made)])
  BY Zenon DEF EndRound, CompleteTurn, Checked
<1> HIDE DEF g
<1>3. g[0] = m
  BY <1>1 DEF CompleteTurn
<1>4. ASSUME NEW i \in 1 .. Len(made) PROVE g[i] = Completed(g[i - 1], i)
  <2>1. g[i] = CompleteTurn(m, g, i) /\ i # 0
    BY <1>1
  <2> QED
    BY <2>1 DEF CompleteTurn
<1> QED
  BY <1>2, <1>3, <1>4 DEF Completions

\* The items up to i are done, the others as they were.
DoneTo(m, i) ==
  /\ MergedOK(m, made, roundNo, policy) /\ DOMAIN m.items = 1 .. Len(made)
  /\ \A j \in 1 .. Len(made) : IF j <= i THEN m.items[j].done ELSE m.items[j] = merged.items[j]

LEMMA CompletedGoes ==
  ASSUME StreamInv, ended = "no", held = <<>>, NEW i \in 1 .. Len(made), NEW m, DoneTo(m, i - 1)
  PROVE  DoneTo(Completed(m, i), i)
<1> DEFINE e == [index |-> i, type |-> "done", what |-> made[i].kind, phase |-> made[i].phase]
           o == Completed(m, i)
<1>1. made \in Seq(MadeItem) /\ PhasesOf(made) /\ Len(made) \in Nat /\ HeldOK(held, pending, merged, made, policy)
  BY DEF StreamInv, Kept
<1>2. i \in DOMAIN m.items /\ made[i] \in MadeItem
  BY <1>1 DEF DoneTo
<1>3. o = IF m.items[i].done THEN m ELSE Push(m, e)
  BY <1>2 DEF Completed
<1>4. e.index = i /\ e.type = "done" /\ e.what = made[i].kind /\ e.phase = made[i].phase
  OBVIOUS
<1>5. e \in Event
  BY <1>1, <1>2 DEF Event, Types, MadeItem
<1>6. roundNo \in Nat \ {0}
  BY RoundIs
<1> HIDE DEF e, o
<1>7. CASE m.items[i].done
  <2>1. o = m
    BY <1>3, <1>7
  <2>2. ASSUME NEW j \in 1 .. Len(made) PROVE IF j <= i THEN m.items[j].done ELSE m.items[j] = merged.items[j]
    <3>1. j = i \/ ((j <= i) <=> (j <= i - 1))
      BY <1>1
    <3> QED
      BY <1>1, <1>7, <3>1 DEF DoneTo
  <2> QED
    BY <2>1, <2>2 DEF DoneTo, o
<1>8. CASE ~m.items[i].done
  <2>1. Told(e, made)
    BY <1>1, <1>2, <1>4, <1>5 DEF Told, PhasesOf, MadeItem
  <2>2. Certain(e, made, policy)
    <3>1. SUFFICES ASSUME policy, made[i].kind = "message" PROVE made[i].done
      BY <1>1, <1>4 DEF Certain, PhasesOf
    <3>2. MessageOK(held, pending, merged, made, i)
      BY <1>1, <3>1 DEF HeldOK
    <3>3. i \in DOMAIN merged.items
      BY <1>1 DEF HeldOK, Touched
    <3> QED
      BY <3>2, <3>3 DEF MessageOK
  <2>3. MayPush(m, e, made, policy)
    BY <1>2, <1>4, <1>8, <2>1, <2>2 DEF MayPush
  <2>4. o = Push(m, e) /\ MergedOK(m, made, roundNo, policy)
    BY <1>3, <1>8 DEF DoneTo
  <2>5. MergedOK(o, made, roundNo, policy) /\ OneMore(m, e, o)
    BY <1>6, <2>3, <2>4, PushIs
  <2>6. DOMAIN o.items = 1 .. Len(made)
    BY <1>2, <1>4, <2>5 DEF OneMore, DoneTo
  <2>7. ASSUME NEW j \in 1 .. Len(made) PROVE IF j <= i THEN o.items[j].done ELSE o.items[j] = merged.items[j]
    <3>1. CASE j = i
      BY <1>4, <2>5, <3>1 DEF OneMore
    <3>2. CASE j # i
      <4>1. o.items[j] = m.items[j]
        BY <1>4, <2>5, <3>2 DEF OneMore, DoneTo
      <4>2. (j <= i) <=> (j <= i - 1)
        BY <1>1, <3>2
      <4> QED
        BY <4>1, <4>2 DEF DoneTo
    <3> QED
      BY <3>1, <3>2
  <2> QED
    BY <2>5, <2>6, <2>7 DEF DoneTo, o
<1> QED
  BY <1>7, <1>8

\* At the end of a round all its items are done, and nothing failed.
LEMMA RoundEnds ==
  ASSUME StreamInv, ended = "no", held = <<>>, NEW m, m = EndRound(merged)
  PROVE  MergedOK(m, made, roundNo, policy) /\ \A i \in DOMAIN m.items : m.items[i].done
<1>1. Len(made) \in Nat /\ HeldOK(held, pending, merged, made, policy) /\ MergedOK(merged, made, roundNo, policy)
  BY DEF StreamInv, Kept
<1>10. PICK g : EndRound(merged) = Checked(g[Len(made)]) /\ Completions(merged, g)
  BY <1>1, EndRoundIs
<1>2. m = Checked(g[Len(made)]) /\ g[0] = merged /\ \A i \in 1 .. Len(made) : g[i] = Completed(g[i - 1], i)
  BY <1>10 DEF Completions
<1>3. DoneTo(merged, 0)
  <2>1. \A i \in 1 .. Len(made) : i \in DOMAIN merged.items
    BY <1>1 DEF HeldOK, Touched
  <2>2. DOMAIN merged.items = 1 .. Len(made)
    BY <1>1, <2>1 DEF HeldOK
  <2> QED
    BY <1>1, <2>2 DEF DoneTo
<1> DEFINE Bad == {i \in 0 .. Len(made) : ~DoneTo(g[i], i)}
<1>4. Bad = {}
  <2> SUFFICES ASSUME Bad # {} PROVE FALSE
    OBVIOUS
  <2>1. PICK k \in Bad : \A i \in Bad : k <= i
    <3>1. Bad \in SUBSET Nat
      OBVIOUS
    <3> HIDE DEF Bad
    <3> QED
      BY <3>1, LeastOf
  <2>2. k \in 0 .. Len(made) /\ ~DoneTo(g[k], k) /\ k # 0
    BY <1>2, <1>3, <2>1
  <2>3. k \in 1 .. Len(made) /\ k - 1 \in 0 .. Len(made) /\ ~(k <= k - 1)
    BY <1>1, <2>2
  <2>4. DoneTo(g[k - 1], k - 1)
    BY <2>1, <2>3
  <2>5. g[k] = Completed(g[k - 1], k)
    BY <1>2, <2>3
  <2>6. DoneTo(Completed(g[k - 1], k), k)
    BY <2>3, <2>4, CompletedGoes
  <2> QED
    BY <2>2, <2>5, <2>6
<1> DEFINE n == g[Len(made)]
<1>5. DoneTo(n, Len(made))
  BY <1>1, <1>4
<1>6. m = [n EXCEPT !.failed = @ \/ \E i \in DOMAIN n.items : ~n.items[i].done]
  BY <1>2 DEF Checked
<1> HIDE DEF n
<1>7. \A i \in DOMAIN n.items : n.items[i].done
  BY <1>1, <1>5 DEF DoneTo
<1>8. Merging(n) /\ MergedOK(n, made, roundNo, policy)
  BY <1>5 DEF DoneTo, MergedOK
<1>9. m = n
  <2>1. m = [n EXCEPT !.failed = @ \/ FALSE]
    BY <1>6, <1>7
  <2>2. n = [items |-> n.items, output |-> n.output, shown |-> n.shown, failed |-> FALSE]
    BY <1>8 DEF Merging
  <2> QED
    BY <2>1, <2>2
<1> QED
  BY <1>7, <1>8, <1>9

LEMMA StreamBegins == StreamInit => StreamInv
<1> SUFFICES ASSUME StreamInit PROVE StreamInv
  OBVIOUS
<1>1. /\ policy \in BOOLEAN /\ roundNo = 1 /\ made = <<>> /\ held = <<>> /\ pending = <<>> /\ ended = "no"
      /\ merged = [items |-> <<>>, output |-> <<>>, shown |-> <<>>, failed |-> FALSE]
  BY DEF StreamInit
<1>2. /\ Len(<<>>) = 0 /\ DOMAIN <<>> = {} /\ <<>> \in Seq(MadeItem) /\ <<>> \in Seq(Event) /\ <<>> \in Seq(Seen)
      /\ <<>> \in Seq(Nat \X Nat)
  OBVIOUS
<1>3. Merging(merged) /\ merged.items = <<>> /\ merged.output = <<>> /\ merged.shown = <<>>
  BY <1>1, <1>2 DEF Merging
<1>4. MergedOK(merged, made, roundNo, policy)
  BY <1>1, <1>2, <1>3 DEF MergedOK, ShownOK, DoneOK, PhasesOK
<1>5. HeldOK(held, pending, merged, made, policy)
  BY <1>1, <1>2, <1>3 DEF HeldOK, Comes
<1>6. PhasesOf(made) /\ made \in Seq(MadeItem) /\ Len(made) <= ItemsPerRound
  BY <1>1, <1>2, StreamAssumption DEF PhasesOf
<1>7. roundNo \in 1 .. Rounds
  BY <1>1, StreamAssumption
<1> QED
  BY <1>1, <1>2, <1>4, <1>5, <1>6, <1>7 DEF StreamInv, Kept, NothingKept

\* The next round: its items are others, what was shown stays.
LEMMA AnotherRound ==
  ASSUME NEW m, NEW mk, NEW r \in Nat, NEW p, MergedOK(m, mk, r, p), \A i \in DOMAIN m.items : m.items[i].done,
         NEW o, o = [m EXCEPT !.items = <<>>]
  PROVE  MergedOK(o, <<>>, r + 1, p) /\ HeldOK(<<>>, <<>>, o, <<>>, p)
<1>1. Merging(m)
  BY DEF MergedOK
<1>2. Merging(o) /\ o.items = <<>> /\ o.output = m.output /\ o.shown = m.shown
  BY <1>1 DEF Merging
<1>3. /\ \A n \in 1 .. Len(m.output) : NumberOK(m, n, r) /\ EndShown(m, n, r)
      /\ ShownOK(m.shown, m.output) /\ PhasesOK(m.shown, mk, r, p)
      /\ \A k \in 1 .. Len(m.shown) : \E n \in 1 .. Len(m.output) : m.output[n] = m.shown[k].of
  BY MergedParts
<1>4. DOMAIN <<>> = {} /\ Len(<<>>) = 0 /\ <<>> \in Seq(Event)
  OBVIOUS
<1>5. ASSUME NEW n \in 1 .. Len(m.output)
      PROVE  m.output[n] \in Nat \X Nat /\ m.output[n][1] \in 1 .. r + 1 /\ m.output[n][1] < r + 1
  <2>1. m.output[n] \in Nat \X Nat /\ m.output[n][1] \in 1 .. r
    BY <1>3 DEF NumberOK
  <2> QED
    BY <2>1
<1>6. \A n \in 1 .. Len(m.output) : NumberOK(o, n, r + 1)
  <2> TAKE n \in 1 .. Len(m.output)
  <2>1. m.output[n][1] # r + 1
    BY <1>5
  <2> QED
    BY <1>2, <1>5, <2>1 DEF NumberOK
<1>7. \A n \in 1 .. Len(m.output) : EndShown(o, n, r + 1)
  <2> TAKE n \in 1 .. Len(m.output)
  <2>1. EndShown(m, n, r) /\ NumberOK(m, n, r)
    BY <1>3
  <2>2. m.output[n][1] < r \/ m.items[m.output[n][2]].done
    <3>1. CASE m.output[n][1] = r
      BY <2>1, <3>1 DEF NumberOK
    <3>2. CASE m.output[n][1] # r
      <4>1. m.output[n][1] \in 1 .. r
        BY <2>1 DEF NumberOK
      <4> QED
        BY <3>2, <4>1
    <3> QED
      BY <3>1, <3>2
  <2> QED
    BY <1>2, <2>1, <2>2 DEF EndShown
<1>8. ASSUME NEW k \in 1 .. Len(m.shown) PROVE m.shown[k].of[1] # r + 1
  <2>1. PICK n \in 1 .. Len(m.output) : m.output[n] = m.shown[k].of
    BY <1>3
  <2> QED
    BY <1>5, <2>1
<1>9. \A k \in 1 .. Len(m.shown) : EndTrue(o, k, r + 1)
  BY <1>2, <1>8 DEF EndTrue
<1>10. PhasesOK(o.shown, <<>>, r + 1, p)
  BY <1>2, <1>3, <1>8 DEF PhasesOK, TruePhase
<1>11. MergedOK(o, <<>>, r + 1, p)
  BY <1>2, <1>3, <1>4, <1>6, <1>7, <1>9, <1>10 DEF MergedOK, DoneOK
<1>12. HeldOK(<<>>, <<>>, o, <<>>, p)
  BY <1>2, <1>4 DEF HeldOK, Comes
<1> QED
  BY <1>11, <1>12

LEMMA CompletesKeeps == ASSUME StreamInv, Completes PROVE StreamInv'
<1> DEFINE next == EndRound(merged)
           kinds == {made[i].kind : i \in DOMAIN made}
           again == "private" \in kinds /\ "call" \notin kinds
<1>1. ended = "no" /\ policy' = policy /\ held' = held /\ pending' = pending
  BY DEF Completes
<1>2. /\ policy \in BOOLEAN /\ roundNo \in 1 .. Rounds
      /\ made \in Seq(MadeItem) /\ Len(made) <= ItemsPerRound /\ PhasesOf(made)
      /\ MergedOK(merged, made, roundNo, policy) /\ Kept /\ NothingKept
  BY <1>1 DEF StreamInv
<1>3. CASE held # <<>> \/ next.failed \/ (again /\ roundNo = Rounds)
  <2>1. ended' = "failed" /\ roundNo' = roundNo /\ made' = made /\ merged' = merged
    BY <1>3 DEF Completes
  <2> QED
    BY <1>1, <1>2, <2>1 DEF StreamInv
<1>4. CASE ~(held # <<>> \/ next.failed \/ (again /\ roundNo = Rounds))
  <2>1. held = <<>> /\ (again => roundNo # Rounds)
    BY <1>4
  <2>2. MergedOK(next, made, roundNo, policy) /\ \A i \in DOMAIN next.items : next.items[i].done
    BY <1>1, <2>1, RoundEnds
  <2>3. DOMAIN pending = {}
    BY <1>2, <2>1 DEF NothingKept
  <2>4. CASE again
    <3>1. roundNo' = roundNo + 1 /\ made' = <<>> /\ merged' = [next EXCEPT !.items = <<>>] /\ ended' = ended
      BY <1>4, <2>4 DEF Completes
    <3> HIDE DEF next, again
    <3>2. roundNo \in Nat /\ roundNo' \in 1 .. Rounds
      BY <1>2, <2>1, <2>4, <3>1, StreamAssumption
    <3>3. MergedOK(merged', <<>>, roundNo + 1, policy) /\ HeldOK(<<>>, <<>>, merged', <<>>, policy)
      BY <2>2, <3>1, <3>2, AnotherRound
    <3>4. HeldOK(<<>>, pending, merged', <<>>, policy)
      BY <2>3, <3>3 DEF HeldOK, MessageOK
    <3>5. <<>> \in Seq(MadeItem) /\ Len(<<>>) = 0 /\ PhasesOf(<<>>) /\ Len(<<>>) <= ItemsPerRound
      BY StreamAssumption DEF PhasesOf
    <3> QED
      BY <1>1, <1>2, <2>1, <2>3, <3>1, <3>2, <3>3, <3>4, <3>5 DEF StreamInv, Kept, NothingKept
  <2>5. CASE ~again
    <3>1. roundNo' = roundNo /\ made' = made /\ merged' = next /\ ended' = "finished"
      BY <1>4, <2>5 DEF Completes
    <3> HIDE DEF next, again
    <3> QED
      BY <1>1, <1>2, <2>2, <3>1 DEF StreamInv
  <2> QED
    BY <2>4, <2>5
<1> QED
  BY <1>3, <1>4

LEMMA StreamStepKeeps == StreamInv /\ [StreamNext]_streamVars => StreamInv'
<1> SUFFICES ASSUME StreamInv, [StreamNext]_streamVars PROVE StreamInv'
  OBVIOUS
<1>1. ASSUME NEW kind \in {"message", "call", "private"}, NEW phase \in Phases \cup {Absent},
             NEW unnamed \in BOOLEAN, Adds(kind, phase, unnamed)
      PROVE  StreamInv'
  BY <1>1, AddsKeeps DEF Kinds
<1>2. ASSUME NEW i \in DOMAIN made, Extends(i) PROVE StreamInv'
  BY <1>2, ExtendsKeeps
<1>3. ASSUME NEW i \in DOMAIN made, NEW phase \in Phases \cup {Absent}, Ends(i, phase) PROVE StreamInv'
  BY <1>3, EndsKeeps
<1>4. CASE Completes
  BY <1>4, CompletesKeeps
<1>5. CASE UNCHANGED streamVars
  BY <1>5 DEF StreamInv, Kept, NothingKept, streamVars
<1> QED
  BY <1>1, <1>2, <1>3, <1>4, <1>5 DEF StreamNext

LEMMA InvGivesReads == StreamInv => ClientReads
<1> SUFFICES ASSUME StreamInv PROVE ClientReads
  OBVIOUS
<1>1. roundNo \in Nat /\ MergedOK(merged, made, roundNo, policy)
  BY RoundIs DEF StreamInv
<1>2. /\ DOMAIN merged.items \subseteq 1 .. Len(made) /\ ShownOK(merged.shown, merged.output)
      /\ PhasesOK(merged.shown, made, roundNo, policy)
      /\ \A n \in 1 .. Len(merged.output) : NumberOK(merged, n, roundNo) /\ EndShown(merged, n, roundNo)
  BY <1>1, MergedParts
<1>3. StreamTypeOK
  <2>1. made \in Seq(MadeItem) /\ Len(made) <= ItemsPerRound /\ Len(made) \in Nat
    BY DEF StreamInv
  <2>2. DOMAIN merged.items \subseteq 1 .. ItemsPerRound
    BY <1>2, <2>1, StreamAssumption
  <2> QED
    BY <2>1, <2>2 DEF StreamInv, StreamTypeOK
<1>4. ASSUME NEW n \in 1 .. Len(merged.output)
      PROVE  \E k \in 1 .. Len(merged.shown) :
               /\ merged.shown[k].of = merged.output[n]
               /\ ended = "finished" => merged.shown[k].type = "done"
  <2>1. PICK k \in 1 .. Len(merged.shown) :
          /\ merged.shown[k].of = merged.output[n]
          /\ merged.output[n][1] < roundNo \/ merged.items[merged.output[n][2]].done => merged.shown[k].type = "done"
    BY <1>2 DEF EndShown
  <2>2. merged.output[n][1] \in 1 .. roundNo
        /\ (merged.output[n][1] = roundNo => merged.output[n][2] \in DOMAIN merged.items)
    BY <1>2 DEF NumberOK
  <2>3. ASSUME ended = "finished" PROVE merged.output[n][1] < roundNo \/ merged.items[merged.output[n][2]].done
    <3>1. \A i \in DOMAIN merged.items : merged.items[i].done
      BY <2>3 DEF StreamInv
    <3>2. merged.output[n][1] = roundNo \/ merged.output[n][1] < roundNo
      BY <1>1, <2>2
    <3> QED
      BY <2>2, <3>1, <3>2
  <2> QED
    BY <2>1, <2>3
<1>5. ItemsReadWhole
  BY <1>2, <1>4 DEF ItemsReadWhole, ShownOK, ShownAt
<1>6. PhaseCertain
  BY <1>2 DEF PhaseCertain, PhasesOK, SamePhase
<1> QED
  BY <1>3, <1>5, <1>6 DEF ClientReads

\* However the events of a provider come, and however many rounds and items there
\* are: what the client reads of each item is whole, numbered and, under the policy,
\* of one phase (both filters of response-stream.mjs together).
THEOREM ClientsRead == StreamSpec => []ClientReads
<1>1. StreamInit => StreamInv
  BY StreamBegins
<1>2. StreamInv /\ [StreamNext]_streamVars => StreamInv'
  BY StreamStepKeeps
<1>3. StreamInv => ClientReads
  BY InvGivesReads
<1> QED
  BY <1>1, <1>2, <1>3, PTL DEF StreamSpec
================================================================================

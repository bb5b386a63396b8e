------------------------ MODULE TurnGenerationProofs ------------------------
(* Theorems about the transcripts of a turn, for any number of requests and    *)
(* search rounds, with any failures, fallbacks, compactions and lost leases.   *)
EXTENDS TurnGeneration, FiniteSetTheorems, TLAPS

-----------------------------------------------------------------------------
(* The inductive invariant. *)

Running == at \in {"asking", "searching", "summary", "compacting"}

\* The response the client continues next.
Top(t) == t \in told /\ \A s \in told : s <= t

\* The items of a transcript are of responses of a set, all with one target.
From(s, responses) == \A i \in ToSet(s) : i.of \in responses
Asks(s, goal) == \A i \in ToSet(s) : i.of \in told => record[i.of].target = goal

\* Both copies of a response the client was told of.
Kept(t) ==
  /\ record[t] \in Stored
  /\ Ordered(record[t].items) /\ Ordered(shown[t])
  /\ From(record[t].items, told) /\ From(shown[t], told)
  /\ Pending(record[t].items) = Pending(shown[t])
  /\ record[t].items = <<>> => shown[t] = <<>>
  /\ point[t] # "none" => record[t].items = <<>>
  /\ ~evicted => Asks(record[t].items, record[t].target) /\ Asks(shown[t], record[t].target)

AllKept ==
  /\ \A t \in told : Kept(t)
  /\ \A t \in Reply \ told : point[t] = "none" /\ (t > now => record[t] = None)
  /\ told # {} => \E t \in told : Top(t)
  /\ \A t \in told : Top(t) /\ record[t].items # <<>> /\ ~evicted => record[t].target = lease
  /\ now \in told => at = "done" /\ req \in Asked
  /\ now \in told /\ req.kind = "turn" /\ Len(reply) < 2 => last = record[now].target

\* The calls of the answer whose search runs.
Asking(inner) == [what |-> "call", of |-> now, round |-> round - 1, inner |-> inner]

\* The items of this request are of rounds that are over.
Over == IF at = "searching" THEN round - 1 ELSE round
Past(s) == \A i \in ToSet(s) : i.of \in told \/ (i.of = now /\ i.round < Over)

Current ==
  /\ now \in Reply /\ now \notin told /\ req \in Asked /\ record[now] = None
  /\ (req.kind = "compaction") <=> (at = "compacting")
  /\ Whole(input) /\ Whole(shown[now])
  /\ Past(input) /\ From(shown[now], told)
  /\ input = <<>> => /\ shown[now] = <<>>
                     /\ \A t \in told : Top(t) => record[t].items = <<>>
  /\ ~effects => input = <<>>
  /\ ~evicted /\ req.kind = "turn" =>
       target = lease /\ Asks(input, target) /\ Asks(shown[now], target)
  /\ at = "searching" =>
       round > 0 /\ reply \in {<<Asking(TRUE)>>, <<Asking(TRUE), Asking(FALSE)>>}

TurnInv ==
  /\ TurnTypeOK /\ AllKept
  /\ Running => Current
  /\ heard.began \subseteq {target}

-----------------------------------------------------------------------------
(* Transcripts. *)

LEMMA ResultIs ==
  ASSUME NEW i \in Item
  PROVE  /\ Result(i) \in Item
         /\ Result(i).what = "result"
         /\ Result(i).of = i.of /\ Result(i).round = i.round /\ Result(i).inner = i.inner
  BY DEF Result, Item

\* A call is known by its result.
LEMMA ResultsDiffer ==
  ASSUME NEW i \in Item, NEW k \in Item, i.what = "call", k.what = "call", Result(i) = Result(k)
  PROVE  i = k
  <1>1. i.of = k.of /\ i.round = k.round /\ i.inner = k.inner
    BY ResultIs
  <1> QED
    BY <1>1 DEF Item

LEMMA Glued ==
  ASSUME NEW S, NEW s \in Seq(S), NEW u \in Seq(S)
  PROVE  /\ s \o u \in Seq(S)
         /\ DOMAIN (s \o u) = 1..(Len(s) + Len(u))
         /\ Len(s) \in Nat /\ Len(u) \in Nat
         /\ DOMAIN s = 1..Len(s) /\ DOMAIN u = 1..Len(u)
         /\ \A i \in 1..Len(s) : (s \o u)[i] = s[i]
         /\ \A i \in (Len(s) + 1)..(Len(s) + Len(u)) : (s \o u)[i] = u[i - Len(s)]
  OBVIOUS

LEMMA GluedItems ==
  ASSUME NEW S, NEW s \in Seq(S), NEW u \in Seq(S)
  PROVE  ToSet(s \o u) = ToSet(s) \cup ToSet(u)
  <1> DEFINE w == s \o u
             n == Len(s)
             m == Len(s) + Len(u)
  <1>1. /\ DOMAIN w = 1..m /\ n \in Nat /\ m \in Nat /\ DOMAIN s = 1..n /\ DOMAIN u = 1..Len(u)
        /\ \A i \in 1..n : w[i] = s[i] /\ i \in 1..m
        /\ \A i \in (n + 1)..m : w[i] = u[i - n] /\ i - n \in 1..Len(u)
        /\ \A i \in 1..Len(u) : w[n + i] = u[i] /\ n + i \in 1..m
        /\ \A i \in 1..m : i \in 1..n \/ i \in (n + 1)..m
    BY Glued
  <1> HIDE DEF w, n, m
  <1>2. ToSet(w) \subseteq ToSet(s) \cup ToSet(u)
    <2> SUFFICES ASSUME NEW i \in 1..m
                 PROVE  w[i] \in ToSet(s) \cup ToSet(u)
      BY <1>1 DEF ToSet
    <2>1. CASE i \in 1..n
      BY <2>1, <1>1 DEF ToSet
    <2>2. CASE i \in (n + 1)..m
      BY <2>2, <1>1 DEF ToSet
    <2> QED
      BY <2>1, <2>2, <1>1
  <1>3. ToSet(s) \subseteq ToSet(w)
    BY <1>1 DEF ToSet
  <1>4. ToSet(u) \subseteq ToSet(w)
    <2> SUFFICES ASSUME NEW i \in 1..Len(u)
                 PROVE  u[i] \in ToSet(w)
      BY <1>1 DEF ToSet
    <2>1. n + i \in DOMAIN w /\ w[n + i] = u[i]
      BY <1>1
    <2> QED
      BY <2>1 DEF ToSet
  <1> QED
    BY <1>2, <1>3, <1>4 DEF w

LEMMA BothEmpty ==
  ASSUME NEW S, NEW s \in Seq(S), NEW u \in Seq(S), s \o u = <<>>
  PROVE  s = <<>> /\ u = <<>>
  OBVIOUS

LEMMA NoneGlued ==
  ASSUME NEW S, NEW s \in Seq(S)
  PROVE  s \o <<>> = s
  OBVIOUS

LEMMA ToSetItems ==
  ASSUME NEW S, NEW s \in Seq(S)
  PROVE  /\ ToSet(s) \subseteq S
         /\ ToSet(s) = {} <=> s = <<>>
         /\ s # <<>> => s[1] \in ToSet(s)
  BY DEF ToSet

\* The order of two transcripts one after the other: what is of one answer is in one of them.
Apart(s, u) == \A i \in ToSet(s), k \in ToSet(u) : ~(i.of = k.of /\ i.round = k.round)

LEMMA GluedPending ==
  ASSUME NEW s \in Seq(Item), NEW u \in Seq(Item), Apart(s, u)
  PROVE  Pending(s \o u) = Pending(s) \cup Pending(u)
  <1>1. \A i \in ToSet(s) : Result(i) \notin ToSet(u)
    BY ResultIs, ToSetItems DEF Apart
  <1>2. \A i \in ToSet(u) : Result(i) \notin ToSet(s)
    BY ResultIs, ToSetItems DEF Apart
  <1> QED
    BY <1>1, <1>2, GluedItems DEF Pending

LEMMA GluedOrder ==
  ASSUME NEW s \in Seq(Item), NEW u \in Seq(Item), Ordered(s), Ordered(u), Apart(s, u)
  PROVE  Ordered(s \o u)
  <1> DEFINE w == s \o u
             n == Len(s)
             m == Len(s) + Len(u)
  <1>1. /\ DOMAIN w = 1..m /\ n \in Nat /\ m \in Nat /\ DOMAIN s = 1..n /\ DOMAIN u = 1..Len(u)
        /\ Len(u) \in Nat
        /\ \A i \in 1..n : w[i] = s[i] /\ s[i] \in ToSet(s)
        /\ \A i \in (n + 1)..m : w[i] = u[i - n] /\ i - n \in DOMAIN u /\ u[i - n] \in ToSet(u)
    BY Glued DEF ToSet
  <1>2. \A i \in 1..m : i \in 1..n \/ i \in (n + 1)..m
    BY <1>1
  <1> HIDE DEF w, n, m
  <1>3. \A i \in 1..n, j \in (n + 1)..m : w[i] # w[j] /\ ~(w[i].of = w[j].of /\ w[i].round = w[j].round)
    BY <1>1 DEF Apart
  <1>4. IsInjective(w)
    <2> SUFFICES ASSUME NEW i \in 1..m, NEW j \in 1..m, w[i] = w[j]
                 PROVE  i = j
      BY <1>1 DEF IsInjective
    <2>1. CASE i \in 1..n /\ j \in 1..n
      BY <2>1, <1>1 DEF Ordered, IsInjective
    <2>2. CASE i \in (n + 1)..m /\ j \in (n + 1)..m
      <3>1. i - n = j - n
        BY <2>2, <1>1 DEF Ordered, IsInjective
      <3> QED
        BY <3>1, <1>1
    <2> QED
      BY <2>1, <2>2, <1>2, <1>3
  <1>5. ASSUME NEW j \in 1..m, w[j].what = "result"
        PROVE  /\ \E i \in 1..(j - 1) : Result(w[i]) = w[j] /\ w[i].what = "call"
               /\ \A i \in 1..m :
                    w[i].what = "call" /\ w[i].of = w[j].of /\ w[i].round = w[j].round => i < j
    <2>1. CASE j \in 1..n
      <3>1. \E i \in 1..(j - 1) : Result(s[i]) = s[j] /\ s[i].what = "call"
        BY <1>1, <1>5, <2>1 DEF Ordered
      <3>2. \A i \in 1..n :
              s[i].what = "call" /\ s[i].of = s[j].of /\ s[i].round = s[j].round => i < j
        BY <1>1, <1>5, <2>1 DEF Ordered
      <3>3. \A i \in 1..(j - 1) : i \in 1..n
        BY <1>1, <2>1
      <3> QED
        BY <3>1, <3>2, <3>3, <2>1, <1>1, <1>2, <1>3
    <2>2. CASE j \in (n + 1)..m
      <3> DEFINE k == j - n
      <3>1. k \in DOMAIN u /\ u[k] = w[j] /\ k \in Nat
        BY <1>1, <2>2
      <3>2. PICK i \in 1..(k - 1) : Result(u[i]) = u[k] /\ u[i].what = "call"
        BY <3>1, <1>5 DEF Ordered
      <3>3. \A l \in DOMAIN u :
              u[l].what = "call" /\ u[l].of = u[k].of /\ u[l].round = u[k].round => l < k
        BY <3>1, <1>5 DEF Ordered
      <3>4. n + i \in 1..(j - 1) /\ n + i \in (n + 1)..m /\ (n + i) - n = i
        BY <3>1, <3>2, <2>2, <1>1
      <3>5. ASSUME NEW l \in 1..m, w[l].what = "call", w[l].of = w[j].of, w[l].round = w[j].round
            PROVE  l < j
        <4>1. CASE l \in 1..n
          BY <4>1, <2>2, <1>1
        <4>2. CASE l \in (n + 1)..m
          <5>1. l - n < k
            BY <4>2, <3>3, <3>1, <3>5, <1>1
          <5> QED
            BY <5>1, <4>2, <1>1
        <4> QED
          BY <4>1, <4>2, <1>2
      <3> QED
        BY <3>2, <3>4, <3>5, <3>1, <1>1
    <2> QED
      BY <2>1, <2>2, <1>2
  <1> QED
    BY <1>1, <1>4, <1>5 DEF Ordered, w

\* The results of all the calls that are open, in any order, make a transcript whole.
LEMMA AnswersMakeWhole ==
  ASSUME NEW s \in Seq(Item), NEW d \in Seq(Item), Ordered(s), IsInjective(d),
         ToSet(d) = {Result(c) : c \in Pending(s)}
  PROVE  Whole(s \o d)
  <1> DEFINE w == s \o d
             n == Len(s)
             m == Len(s) + Len(d)
  <1>1. /\ DOMAIN w = 1..m /\ n \in Nat /\ m \in Nat /\ DOMAIN s = 1..n /\ DOMAIN d = 1..Len(d)
        /\ Len(d) \in Nat
        /\ \A i \in 1..n : w[i] = s[i] /\ s[i] \in ToSet(s)
        /\ \A i \in (n + 1)..m : w[i] = d[i - n] /\ i - n \in DOMAIN d /\ d[i - n] \in ToSet(d)
    BY Glued DEF ToSet
  <1>2. \A i \in 1..m : i \in 1..n \/ i \in (n + 1)..m
    BY <1>1
  <1>a. ToSet(w) = ToSet(s) \cup ToSet(d) /\ ToSet(s) \subseteq Item
    BY GluedItems, ToSetItems
  <1> HIDE DEF w, n, m
  <1>3. \A i \in ToSet(d) : i.what = "result" /\ i \notin ToSet(s)
    BY <1>a, ResultIs DEF Pending
  <1>4. IsInjective(w)
    <2> SUFFICES ASSUME NEW i \in 1..m, NEW j \in 1..m, w[i] = w[j]
                 PROVE  i = j
      BY <1>1 DEF IsInjective
    <2>1. CASE i \in 1..n /\ j \in 1..n
      BY <2>1, <1>1 DEF Ordered, IsInjective
    <2>2. CASE i \in (n + 1)..m /\ j \in (n + 1)..m
      <3>1. i - n = j - n
        BY <2>2, <1>1 DEF IsInjective
      <3> QED
        BY <3>1, <1>1
    <2> QED
      BY <2>1, <2>2, <1>1, <1>2, <1>3
  <1>5. \A i \in 1..m : w[i].what = "call" => i \in 1..n
    BY <1>1, <1>2, <1>3
  <1>6. ASSUME NEW j \in 1..m, w[j].what = "result"
        PROVE  /\ \E i \in 1..(j - 1) : Result(w[i]) = w[j] /\ w[i].what = "call"
               /\ \A i \in 1..m :
                    w[i].what = "call" /\ w[i].of = w[j].of /\ w[i].round = w[j].round => i < j
    <2>1. CASE j \in 1..n
      <3>1. \E i \in 1..(j - 1) : Result(s[i]) = s[j] /\ s[i].what = "call"
        BY <1>1, <1>6, <2>1 DEF Ordered
      <3>2. \A i \in 1..n :
              s[i].what = "call" /\ s[i].of = s[j].of /\ s[i].round = s[j].round => i < j
        BY <1>1, <1>6, <2>1 DEF Ordered
      <3>3. \A i \in 1..(j - 1) : i \in 1..n
        BY <1>1, <2>1
      <3> QED
        BY <3>1, <3>2, <3>3, <2>1, <1>1, <1>5
    <2>2. CASE j \in (n + 1)..m
      <3>1. \A i \in 1..n : i \in 1..(j - 1) /\ i < j
        BY <2>2, <1>1
      <3>2. PICK c \in Pending(s) : w[j] = Result(c)
        BY <2>2, <1>1
      <3>3. PICK i \in 1..n : s[i] = c
        BY <3>2, <1>1 DEF Pending, ToSet
      <3>4. c.what = "call"
        BY <3>2 DEF Pending
      <3> QED
        BY <3>1, <3>2, <3>3, <3>4, <1>1, <1>5
    <2> QED
      BY <2>1, <2>2, <1>2
  <1>7. Pending(w) = {}
    BY <1>a, <1>3 DEF Pending
  <1> QED
    BY <1>1, <1>4, <1>6, <1>7 DEF Ordered, Whole, w

-----------------------------------------------------------------------------
(* The results the client gives. *)

LEMMA ListIs ==
  ASSUME NEW S, IsFiniteSet(S)
  PROVE  /\ SetToSeq(S) \in [1..Cardinality(S) -> S]
         /\ Cardinality(S) \in Nat
         /\ IsInjective(SetToSeq(S))
         /\ ToSet(SetToSeq(S)) = S
  <1> DEFINE f == SetToSeq(S)
             n == Cardinality(S)
  <1>1. n \in Nat /\ ExistsBijection(1..n, S)
    BY FS_CardinalityType
  <1>2. \E g \in [1..n -> S] : IsInjective(g)
    BY <1>1 DEF ExistsBijection, Bijection, Injection, IsInjective
  <1>3. f \in [1..n -> S] /\ IsInjective(f)
    BY <1>2 DEF SetToSeq
  <1> DEFINE T == {f[i] : i \in 1..n}
  <1>4. T \in SUBSET S
    BY <1>3
  <1>5. f \in Bijection(1..n, T)
    BY <1>3 DEF Bijection, Injection, Surjection, IsInjective
  <1>6. IsFiniteSet(1..n) /\ Cardinality(1..n) = n
    BY <1>1, FS_Interval
  <1>7. Cardinality(T) = n
    BY <1>5, <1>6, FS_Bijection DEF ExistsBijection
  <1>8. T = S
    BY <1>4, <1>7, FS_Subset
  <1> QED
    BY <1>1, <1>3, <1>8 DEF ToSet

LEMMA SequenceFinite ==
  ASSUME NEW S, NEW s \in Seq(S)
  PROVE  IsFiniteSet(ToSet(s))
  <1>1. Len(s) \in Nat /\ DOMAIN s = 1..Len(s) /\ s \in [1..Len(s) -> S]
    OBVIOUS
  <1>2. IsFiniteSet(1..Len(s))
    BY <1>1, FS_Interval
  <1>3. s \in Surjection(1..Len(s), ToSet(s))
    BY <1>1 DEF Surjection, ToSet
  <1> QED
    BY <1>2, <1>3, FS_Surjection

LEMMA AnsweredIs ==
  ASSUME NEW t, shown[t] \in Seq(Item)
  PROVE  /\ Answered(t) \in Seq(Item)
         /\ IsInjective(Answered(t))
         /\ ToSet(Answered(t)) = {Result(c) : c \in Pending(shown[t])}
         /\ Pending(shown[t]) = {} => Answered(t) = <<>>
  <1> DEFINE P == Pending(shown[t])
             open == SetToSeq(P)
             n == Cardinality(P)
  <1>1. P \subseteq ToSet(shown[t]) /\ ToSet(shown[t]) \subseteq Item /\ \A i \in P : i.what = "call"
    BY ToSetItems DEF Pending
  <1>2. IsFiniteSet(P)
    BY <1>1, SequenceFinite, FS_Subset
  <1>3. open \in [1..n -> P] /\ n \in Nat /\ IsInjective(open) /\ ToSet(open) = P
    BY <1>2, ListIs
  <1>4. Answered(t) = [i \in 1..n |-> Result(open[i])]
    BY <1>3 DEF Answered
  <1> HIDE DEF open, n, P
  <1>5. \A i \in 1..n : open[i] \in Item /\ open[i].what = "call" /\ Result(open[i]) \in Item
    BY <1>1, <1>3, ResultIs
  <1>6. Answered(t) \in [1..n -> Item]
    BY <1>4, <1>5
  <1>7. Answered(t) \in Seq(Item)
    BY <1>6, <1>3
  <1>8. IsInjective(Answered(t))
    <2> SUFFICES ASSUME NEW i \in 1..n, NEW j \in 1..n, Result(open[i]) = Result(open[j])
                 PROVE  i = j
      BY <1>4 DEF IsInjective
    <2>1. open[i] = open[j]
      BY <1>5, ResultsDiffer
    <2> QED
      BY <2>1, <1>3 DEF IsInjective
  <1>9. ToSet(Answered(t)) = {Result(c) : c \in P}
    BY <1>3, <1>4 DEF ToSet
  <1>10. P = {} => Answered(t) = <<>>
    <2> SUFFICES ASSUME P = {} PROVE Answered(t) = <<>>
      OBVIOUS
    <2>1. n = 0
      BY FS_EmptySet DEF n
    <2> QED
      BY <2>1, <1>4
  <1> QED
    BY <1>7, <1>8, <1>9, <1>10 DEF P

-----------------------------------------------------------------------------
(* The answers of a provider. *)

LEMMA Nothing ==
  Ordered(<<>>) /\ Pending(<<>>) = {} /\ ToSet(<<>>) = {} /\ <<>> \in Seq(Item)
  BY DEF Ordered, Pending, ToSet, IsInjective

LEMMA OneCall ==
  ASSUME NEW c \in Item, c.what = "call"
  PROVE  /\ <<c>> \in Seq(Item) /\ ToSet(<<c>>) = {c}
         /\ Ordered(<<c>>) /\ Pending(<<c>>) = {c}
  <1>1. <<c>> \in Seq(Item) /\ DOMAIN <<c>> = {1} /\ <<c>>[1] = c
    OBVIOUS
  <1>2. ToSet(<<c>>) = {c}
    BY <1>1 DEF ToSet
  <1>3. Result(c) # c
    BY ResultIs
  <1> QED
    BY <1>1, <1>2, <1>3 DEF Ordered, Pending, IsInjective

\* The answer to a search: whole by itself, or with the call that is left to the client.
LEMMA Exchanged ==
  ASSUME NEW c \in Item, NEW e \in Item, c.what = "call", e.what = "call",
         c.of = e.of, c.round = e.round, c # e
  PROVE  /\ Ordered(<<c, Result(c)>>) /\ Pending(<<c, Result(c)>>) = {}
         /\ Ordered(<<c, e, Result(c)>>) /\ Pending(<<c, e, Result(c)>>) = {e}
         /\ <<c, Result(c)>> \in Seq(Item) /\ <<c, e, Result(c)>> \in Seq(Item)
         /\ ToSet(<<c, Result(c)>>) = {c, Result(c)}
         /\ ToSet(<<c, e, Result(c)>>) = {c, e, Result(c)}
  <1> DEFINE r == Result(c)
             s == <<c, r>>
             u == <<c, e, r>>
  <1>1. r \in Item /\ r.what = "result" /\ r.of = c.of /\ r.round = c.round
    BY ResultIs
  <1>2. Result(e) # r /\ r # c /\ r # e /\ Result(e) # c /\ Result(e) # e /\ Result(r) = r
    <2>1. Result(e).what = "result" /\ Result(e) # r
      BY ResultIs, ResultsDiffer
    <2>2. Result(r) = r
      BY <1>1 DEF Result, Item
    <2> QED
      BY <2>1, <2>2, <1>1
  <1>a. r = Result(c)
    OBVIOUS
  <1> HIDE DEF r
  <1>3. /\ s \in Seq(Item) /\ DOMAIN s = {1, 2} /\ s[1] = c /\ s[2] = r
        /\ u \in Seq(Item) /\ DOMAIN u = {1, 2, 3} /\ u[1] = c /\ u[2] = e /\ u[3] = r
    BY <1>1
  <1> HIDE DEF s, u
  <1>4. ToSet(s) = {c, r} /\ ToSet(u) = {c, e, r}
    BY <1>3 DEF ToSet
  <1>5. Pending(s) = {} /\ Pending(u) = {e}
    BY <1>1, <1>2, <1>4, <1>a DEF Pending
  <1>6. IsInjective(s) /\ IsInjective(u)
    BY <1>2, <1>3 DEF IsInjective
  <1>7. Ordered(s)
    BY <1>1, <1>2, <1>3, <1>6, <1>a DEF Ordered
  <1>8. Ordered(u)
    <2>1. 1 \in 1..(3 - 1) /\ 1 < 3 /\ 2 < 3
      OBVIOUS
    <2>2. \A j \in {1, 2, 3} : u[j].what = "result" => j = 3
      BY <1>3
    <2>3. \A i \in {1, 2, 3} : u[i].what = "call" => i < 3
      BY <1>3, <1>1
    <2> QED
      BY <2>1, <2>2, <2>3, <1>3, <1>6, <1>a DEF Ordered
  <1> QED
    BY <1>3, <1>4, <1>5, <1>7, <1>8, <1>a DEF s, u

LEMMA NoResults ==
  ASSUME NEW s \in Seq(Item), Whole(s), \A i \in ToSet(s) : i.what # "result"
  PROVE  s = <<>>
  <1> SUFFICES ASSUME s # <<>>
               PROVE  FALSE
    OBVIOUS
  <1>1. s[1] \in ToSet(s) /\ s[1] \in Item
    BY ToSetItems
  <1>2. s[1].what = "call"
    BY <1>1 DEF Item
  <1>3. Result(s[1]) \in ToSet(s) /\ Result(s[1]).what = "result"
    BY <1>1, <1>2, ResultIs DEF Whole, Pending
  <1> QED
    BY <1>3

-----------------------------------------------------------------------------
(* What every step keeps. *)

LEMMA NoneIs ==
  /\ None \notin Reply /\ None \notin Target /\ None \notin Stored /\ None \notin Asked
  /\ Reply \subseteq Nat
  BY TurnConstants DEF Reply

LEMMA LatestIs ==
  ASSUME TurnInv
  PROVE  /\ told = {} => Latest = None
         /\ told # {} => Latest \in told /\ Top(Latest) /\ Latest # None
         /\ told \subseteq Reply
         /\ \A t \in told : Top(t) => t = Latest
  <1>1. told \subseteq Reply
    BY TurnConstants DEF TurnInv, TurnTypeOK, Reply
  <1>2. told # {} => Latest \in told /\ Top(Latest)
    BY <1>1, NoneIs DEF TurnInv, AllKept, Latest, Top
  <1>3. \A t \in told : Top(t) => t = Latest
    <2> SUFFICES ASSUME NEW t \in told, Top(t)
                 PROVE  t = Latest
      OBVIOUS
    <2>0. Latest \in told
      BY <1>2
    <2>1. t \in Int /\ Latest \in Int
      BY <2>0, <1>1, NoneIs
    <2>2. t <= Latest /\ Latest <= t
      BY <2>0, <1>2 DEF Top
    <2> QED
      BY <2>1, <2>2
  <1> QED
    BY <1>1, <1>2, <1>3, NoneIs DEF Latest

\* A step that tells the client nothing.
LEMMA NotTold ==
  ASSUME TurnInv,
         UNCHANGED <<told, point>>, evicted => evicted',
         now \in Nat, now' \in Nat, now <= now',
         \A t \in told : record'[t] = record[t] /\ shown'[t] = shown[t],
         \A t \in Reply : t > now' => record'[t] = record[t],
         \/ lease' = lease
         \/ evicted'
         \/ \A t \in told : Top(t) => record[t].items = <<>>,
         now' \in told => UNCHANGED <<now, at, req, reply, last>>
  PROVE  AllKept'
  <1> USE DEF TurnInv, AllKept
  <1>0. told \subseteq Reply /\ Reply \subseteq Nat
    BY LatestIs, NoneIs
  <1>1. \A t \in told : Kept(t)'
    <2> SUFFICES ASSUME NEW t \in told
                 PROVE  Kept(t)'
      OBVIOUS
    <2>1. Kept(t) /\ record'[t] = record[t] /\ shown'[t] = shown[t]
      OBVIOUS
    <2>2. ~evicted' => Asks(record[t].items, record[t].target)' /\ Asks(shown[t], record[t].target)'
      BY <2>1 DEF Kept, Asks
    <2> QED
      BY <2>1, <2>2 DEF Kept, From
  <1>2. \A t \in Reply \ told : point'[t] = "none" /\ (t > now' => record'[t] = None)
    <2> SUFFICES ASSUME NEW t \in Reply, t \notin told
                 PROVE  point'[t] = "none" /\ (t > now' => record'[t] = None)
      OBVIOUS
    <2>1. t > now' => t > now
      BY <1>0
    <2> QED
      BY <2>1
  <1>3. \A t \in told : Top(t)' <=> Top(t)
    BY DEF Top
  <1>4. \A t \in told : Top(t)' /\ record'[t].items # <<>> /\ ~evicted' => record'[t].target = lease'
    BY <1>3
  <1>5. now' \in told =>
          /\ at' = "done" /\ req' \in Asked
          /\ req'.kind = "turn" /\ Len(reply') < 2 => last' = record'[now'].target
    OBVIOUS
  <1> QED
    BY <1>1, <1>2, <1>3, <1>4, <1>5

\* A step that stores the response of the request and tells the client.
LEMMA Tells ==
  ASSUME TurnInv, Current, TurnTypeOK',
         NEW items \in Seq(Item), NEW Y \in Seq(Item),
         told' = told \cup {now},
         record' = [record EXCEPT ![now] = [items |-> items, target |-> target]],
         shown' = [shown EXCEPT ![now] = Y],
         UNCHANGED <<now, req, evicted, lease>>, at' = "done",
         \A t \in Reply \ {now} : point'[t] = point[t],
         point'[now] # "none" => items = <<>>,
         req.kind = "turn" /\ Len(reply') < 2 => last' = target,
         Ordered(items), Ordered(Y), Pending(items) = Pending(Y),
         From(items, told \cup {now}), From(Y, told \cup {now}),
         items = <<>> => Y = <<>>,
         items # <<>> /\ ~evicted => target = lease /\ Asks(items, target) /\ Asks(Y, target)
  PROVE  AllKept'
  <1> USE DEF TurnInv
  <1>0. told \subseteq Reply /\ Reply \subseteq Nat /\ told \subseteq 1..now /\ now \in Reply /\ now \notin told
    BY LatestIs, NoneIs DEF TurnTypeOK, Current
  <1>a. record \in [Reply -> Stored \cup {None}] /\ shown \in [Reply -> Seq(Item)] /\ target \in Target
    BY DEF TurnTypeOK
  <1>1. /\ \A t \in told : record'[t] = record[t] /\ shown'[t] = shown[t] /\ point'[t] = point[t]
        /\ record'[now] = [items |-> items, target |-> target] /\ shown'[now] = Y
        /\ record'[now] \in Stored
    BY <1>0, <1>a DEF Stored
  <1>b. record'[now].items = items /\ record'[now].target = target
    BY <1>1
  <1>2. ASSUME NEW t \in told
        PROVE  Kept(t)'
    <2>1. Kept(t) /\ record'[t] = record[t] /\ shown'[t] = shown[t] /\ point'[t] = point[t]
      BY <1>1 DEF AllKept
    <2>2. From(record[t].items, told') /\ From(shown[t], told')
      BY <2>1 DEF Kept, From
    <2>3. ~evicted => /\ \A i \in ToSet(record[t].items) : record'[i.of].target = record[t].target
                      /\ \A i \in ToSet(shown[t]) : record'[i.of].target = record[t].target
      BY <2>1, <1>1 DEF Kept, From, Asks
    <2> QED
      BY <2>1, <2>2, <2>3 DEF Kept, Asks, From
  <1>3. Kept(now)'
    <2>1. CASE items = <<>>
      BY <2>1, <1>1, <1>b, Nothing DEF Kept, From, Asks
    <2>2. CASE items # <<>>
      <3>1. ~evicted => /\ \A i \in ToSet(items) : i.of \in told \cup {now} => record'[i.of].target = target
                        /\ \A i \in ToSet(Y) : i.of \in told \cup {now} => record'[i.of].target = target
        BY <2>2, <1>1, <1>b DEF Asks
      <3> QED
        BY <2>2, <3>1, <1>1, <1>b DEF Kept, From, Asks
    <2> QED
      BY <2>1, <2>2
  <1>4. \A t \in Reply \ told' : point'[t] = "none" /\ (t > now' => record'[t] = None)
    <2> SUFFICES ASSUME NEW t \in Reply, t \notin told, t # now
                 PROVE  point'[t] = "none" /\ (t > now => record'[t] = None)
      OBVIOUS
    <2>1. record'[t] = record[t] /\ point'[t] = point[t]
      BY <1>a
    <2> QED
      BY <2>1 DEF AllKept
  <1>5. Top(now)' /\ \A t \in told' : Top(t)' => t = now
    <2>1. \A t \in told : t < now /\ t \in Int /\ now \in Int
      BY <1>0
    <2> QED
      BY <2>1, <1>0 DEF Top
  <1> QED
    BY <1>1, <1>b, <1>2, <1>3, <1>4, <1>5 DEF AllKept, Current

-----------------------------------------------------------------------------
(* One action at a time. *)

LEMMA Begins ==
  ASSUME TurnInv, NEW kind \in {"turn", "compaction"}, NEW byId \in BOOLEAN,
         NEW answers \in BOOLEAN, NEW migrated \in BOOLEAN, Begin(kind, byId, answers, migrated)
  PROVE  TurnInv'
  <1> PICK from : from = Latest
    OBVIOUS
  <1> DEFINE d == IF answers THEN Answered(from) ELSE <<>>
             X == IF byId THEN record[from].items ELSE shown[from]
             body == IF from = None THEN <<>> ELSE X \o d
             copy == IF from = None THEN <<>> ELSE shown[from] \o d
             goal == IF kind = "turn" /\ lease # None THEN lease ELSE "routed"
  <1>1. /\ Quiet /\ now < Requests
        /\ IF from = None THEN kind = "turn"
           ELSE GoesOn(from, kind) /\ (kind = "turn" => answers)
        /\ now' = now + 1 /\ req' = [kind |-> kind, from |-> from]
        /\ shown' = [shown EXCEPT ![now + 1] = copy]
        /\ input' = body /\ target' = goal
        /\ lease' = IF kind = "turn" THEN goal ELSE lease
        /\ heard' = [client |-> {}, began |-> {}]
        /\ effects' = \E i \in ToSet(body) : i.what = "result"
        /\ round' = 0 /\ reduced' = migrated /\ reply' = <<>>
        /\ at' = IF kind = "turn" THEN "asking" ELSE IF Pending(body) # {} THEN "failed" ELSE "compacting"
        /\ UNCHANGED <<mode, evicted, store, told>>
    BY DEF Begin
  <1>2. /\ now + 1 \in Reply /\ now \in Nat /\ now + 1 \in 0..Requests /\ told \subseteq 1..now
        /\ now + 1 \notin told /\ told \subseteq 1..(now + 1) /\ told \subseteq Reply
    <2>1. now \in 0..Requests /\ told \subseteq 1..now /\ told \subseteq Reply
      BY LatestIs DEF TurnInv, TurnTypeOK
    <2>2. now \in Nat /\ now + 1 \in 1..Requests /\ now + 1 \in 0..Requests
      BY <2>1, <1>1, TurnConstants
    <2>3. \A t \in 1..now : t # now + 1 /\ t \in 1..(now + 1)
      BY <2>2
    <2> QED
      BY <2>1, <2>2, <2>3 DEF Reply
  <1>3. \/ from = None /\ told = {}
        \/ from # None /\ from \in told /\ Top(from) /\ \A t \in told : Top(t) => t = from
    BY LatestIs
  <1>4. goal \in Target /\ (lease' \in Target \cup {None})
    BY <1>1 DEF TurnInv, TurnTypeOK, Target
  <1> HIDE DEF goal
  <1>5. /\ body \in Seq(Item) /\ copy \in Seq(Item)
        /\ Running' => Whole(body) /\ Whole(copy)
        /\ From(body, told) /\ From(copy, told)
        /\ body = <<>> => copy = <<>> /\ \A t \in told : Top(t) => record[t].items = <<>>
        /\ from # None /\ ~evicted =>
             Asks(body, record[from].target) /\ Asks(copy, record[from].target)
    <2>1. CASE from = None
      BY <2>1, <1>3, Nothing DEF Whole, From
    <2>2. CASE from # None
      <3>1. from \in told /\ Kept(from)
        BY <2>2, <1>3 DEF TurnInv, AllKept
      <3>2. /\ record[from].items \in Seq(Item) /\ shown[from] \in Seq(Item)
            /\ Ordered(record[from].items) /\ Ordered(shown[from])
            /\ From(record[from].items, told) /\ From(shown[from], told)
            /\ Pending(record[from].items) = Pending(shown[from])
            /\ record[from].items = <<>> => shown[from] = <<>>
        BY <3>1, <1>2 DEF Kept, Stored, TurnInv, TurnTypeOK
      <3>3. /\ Answered(from) \in Seq(Item) /\ IsInjective(Answered(from))
            /\ ToSet(Answered(from)) = {Result(c) : c \in Pending(shown[from])}
            /\ Pending(shown[from]) = {} => Answered(from) = <<>>
        BY <3>2, AnsweredIs
      <3>4. /\ X \in Seq(Item) /\ Ordered(X) /\ From(X, told) /\ Pending(X) = Pending(shown[from])
            /\ ~evicted => Asks(X, record[from].target) /\ Asks(shown[from], record[from].target)
        BY <3>1, <3>2 DEF Kept
      <3>5. d \in Seq(Item) /\ body = X \o d /\ copy = shown[from] \o d
        BY <3>3, <2>2, Nothing
      <3>6. body \in Seq(Item) /\ copy \in Seq(Item)
        BY <3>2, <3>4, <3>5
      <3>7. ToSet(body) = ToSet(X) \cup ToSet(d) /\ ToSet(copy) = ToSet(shown[from]) \cup ToSet(d)
        <4> HIDE DEF X, d, body, copy
        <4>1. ToSet(X \o d) = ToSet(X) \cup ToSet(d)
          BY <3>4, <3>5, GluedItems
        <4>2. ToSet(shown[from] \o d) = ToSet(shown[from]) \cup ToSet(d)
          BY <3>2, <3>5, GluedItems
        <4> QED
          BY <4>1, <4>2, <3>5
      <3>8. \A i \in ToSet(d) : \E k \in ToSet(shown[from]) : i.of = k.of
        <4>1. CASE answers
          <5> SUFFICES ASSUME NEW c \in Pending(shown[from])
                       PROVE  \E k \in ToSet(shown[from]) : Result(c).of = k.of
            BY <3>3, <4>1
          <5>1. c \in ToSet(shown[from]) /\ c \in Item
            BY <3>2, ToSetItems DEF Pending
          <5> QED
            BY <5>1, ResultIs
        <4>2. CASE ~answers
          BY <4>2, Nothing
        <4> QED
          BY <4>1, <4>2
      <3>9. From(body, told) /\ From(copy, told)
        BY <3>2, <3>4, <3>7, <3>8 DEF From
      <3>10. ~evicted => Asks(body, record[from].target) /\ Asks(copy, record[from].target)
        BY <3>4, <3>7, <3>8 DEF Asks
      <3>11. Running' => Whole(body) /\ Whole(copy)
        <4>1. CASE answers
          BY <4>1, <3>2, <3>3, <3>4, <3>5, AnswersMakeWhole
        <4>2. CASE ~answers
          <5>1. body = X /\ copy = shown[from]
            BY <4>2, <3>2, <3>4, <3>5
          <5>2. kind = "compaction" /\ (Running' => Pending(body) = {})
            BY <1>1, <2>2, <4>2 DEF Running
          <5> QED
            BY <5>1, <5>2, <3>2, <3>4 DEF Whole
        <4> QED
          BY <4>1, <4>2
      <3>12. ASSUME body = <<>>
             PROVE  copy = <<>> /\ \A t \in told : Top(t) => record[t].items = <<>>
        <4>1. X = <<>> /\ d = <<>>
          <5> HIDE DEF X, d, body
          <5> QED
            BY <3>12, <3>4, <3>5, BothEmpty
        <4>2. Pending(shown[from]) = {}
          BY <4>1, <3>4, Nothing
        <4>3. record[from].items = <<>>
          BY <4>2, <1>1, <2>2, <3>1 DEF GoesOn, Kept
        <4>4. copy = <<>>
          BY <4>1, <4>3, <3>2, <3>5
        <4> QED
          BY <4>3, <4>4, <1>3, <2>2
      <3> QED
        BY <3>6, <3>9, <3>10, <3>11, <3>12
    <2> QED
      BY <2>1, <2>2
  <1> HIDE DEF body, copy, d, X
  <1>6. body # <<>> /\ ~evicted /\ kind = "turn" =>
          from # None /\ record[from].target = goal /\ lease' = lease
    <2> SUFFICES ASSUME body # <<>>, ~evicted, kind = "turn"
                 PROVE  from # None /\ record[from].target = goal /\ lease' = lease
      OBVIOUS
    <2>1. from # None
      BY DEF body
    <2>2. record[from].items # <<>>
      <3> SUFFICES ASSUME record[from].items = <<>>
                   PROVE  body = <<>>
        OBVIOUS
      <3>1. shown[from] = <<>>
        BY <2>1, <1>3 DEF TurnInv, AllKept, Kept
      <3>2. Pending(shown[from]) = {} /\ shown[from] \in Seq(Item)
        BY <3>1, Nothing
      <3>3. d = <<>>
        BY <3>2, AnsweredIs DEF d
      <3> QED
        BY <3>1, <3>3, <2>1 DEF body, X
    <2>3. record[from].target = lease /\ record[from] \in Stored
      BY <2>1, <2>2, <1>3 DEF TurnInv, AllKept, Kept
    <2>4. lease # None
      BY <2>3, NoneIs DEF Stored
    <2> QED
      BY <2>1, <2>3, <2>4, <1>1 DEF goal
  <1>7. TurnTypeOK'
    <2>1. req' \in Asked
      <3>1. from \in Reply \cup {None}
        BY <1>2, <1>3
      <3> QED
        BY <3>1, <1>1 DEF Asked
    <2>2. shown' \in [Reply -> Seq(Item)] /\ input' \in Seq(Item) /\ reply' \in Seq(Item)
      BY <1>1, <1>2, <1>5, Nothing DEF TurnInv, TurnTypeOK
    <2>3. at' \in {"idle", "asking", "searching", "summary", "compacting", "done", "failed"}
      BY <1>1
    <2>4. effects' \in BOOLEAN
      BY <1>1
    <2>5. heard' \in [client : SUBSET Target, began : SUBSET Target] /\ round' \in 0..MaxRounds
      BY <1>1, TurnConstants
    <2> QED
      BY <2>1, <2>2, <2>3, <2>4, <2>5, <1>1, <1>2, <1>4 DEF TurnInv, TurnTypeOK, store
  <1>8. AllKept'
    <2>1. \A t \in told : record'[t] = record[t] /\ shown'[t] = shown[t]
      BY <1>1, <1>2 DEF TurnInv, TurnTypeOK, store
    <2>2. \/ lease' = lease
          \/ evicted'
          \/ \A t \in told : Top(t) => record[t].items = <<>>
      BY <1>1, <1>5, <1>6
    <2> QED
      BY <2>1, <2>2, <1>1, <1>2, NotTold DEF store
  <1>9. ASSUME Running'
        PROVE  Current'
    <2>1. /\ now' \in Reply /\ now' \notin told' /\ req' \in Asked /\ record'[now'] = None
      <3>1. now + 1 > now /\ record[now + 1] = None
        BY <1>2 DEF TurnInv, AllKept
      <3>2. req' \in Asked
        BY <1>1, <1>7, <1>2, <1>3 DEF Asked
      <3> QED
        BY <3>1, <3>2, <1>1, <1>2 DEF store
    <2>2. shown'[now'] = copy
      BY <1>1, <1>2 DEF TurnInv, TurnTypeOK
    <2>3. (req'.kind = "compaction") <=> (at' = "compacting")
      BY <1>1, <1>9 DEF Running
    <2>4. Past(input)'
      BY <1>1, <1>5 DEF Past, From
    <2>5. input' = <<>> => shown'[now'] = <<>> /\ \A t \in told' : Top(t)' => record'[t].items = <<>>
      BY <1>1, <1>5, <2>2 DEF Top, store
    <2>6. ~effects' => input' = <<>>
      BY <1>1, <1>5, <1>9, NoResults
    <2>7. ~evicted' /\ req'.kind = "turn" =>
            target' = lease' /\ Asks(input, target)' /\ Asks(shown[now], target)'
      <3> SUFFICES ASSUME ~evicted, kind = "turn"
                   PROVE  target' = lease' /\ Asks(input, target)' /\ Asks(shown[now], target)'
        BY <1>1
      <3>1. target' = goal /\ lease' = goal
        BY <1>1
      <3>2. CASE body = <<>>
        BY <3>1, <3>2, <2>2, <1>1, <1>5, Nothing DEF Asks
      <3>3. CASE body # <<>>
        <4>1. Asks(body, goal) /\ Asks(copy, goal)
          BY <3>3, <1>5, <1>6
        <4> QED
          BY <4>1, <3>1, <2>2, <1>1 DEF Asks, store
      <3> QED
        BY <3>2, <3>3
    <2>8. at' # "searching"
      BY <1>1
    <2>9. Whole(input') /\ Whole(shown'[now']) /\ From(shown'[now'], told')
      BY <1>1, <1>5, <1>9, <2>2
    <2> QED
      BY <2>1, <2>3, <2>4, <2>5, <2>6, <2>7, <2>8, <2>9 DEF Current
  <1>10. heard'.began \subseteq {target'}
    BY <1>1
  <1> QED
    BY <1>7, <1>8, <1>9, <1>10 DEF TurnInv

\* What a completed answer adds to the request and to the client's copy, whole but for the
\* same calls.
LEMMA Adds ==
  ASSUME TurnInv, Current,
         NEW u \in Seq(Item), NEW v \in Seq(Item), Ordered(u), Ordered(v), Pending(u) = Pending(v),
         \A i \in ToSet(u) : i.of = now /\ i.round = Over,
         \A i \in ToSet(v) : i.of = now
  PROVE  /\ input \o u \in Seq(Item) /\ shown[now] \o v \in Seq(Item)
         /\ Ordered(input \o u) /\ Ordered(shown[now] \o v)
         /\ Pending(input \o u) = Pending(u) /\ Pending(shown[now] \o v) = Pending(v)
         /\ From(input \o u, told \cup {now}) /\ From(shown[now] \o v, told \cup {now})
         /\ ~evicted /\ req.kind = "turn" =>
              Asks(input \o u, target) /\ Asks(shown[now] \o v, target)
         /\ input = <<>> /\ u = <<>> /\ v = <<>> => shown[now] \o v = <<>>
         /\ \A i \in ToSet(input \o u) : i.of \in told \/ (i.of = now /\ i.round <= Over)
  <1>1. input \in Seq(Item) /\ shown[now] \in Seq(Item) /\ now \in Reply /\ now \notin told
    BY DEF TurnInv, TurnTypeOK, Current
  <1>2. Over \in Int
    BY TurnConstants DEF TurnInv, TurnTypeOK, Over
  <1>3. ToSet(input) \subseteq Item
    BY <1>1, ToSetItems
  <1>4. Apart(input, u)
    <2> SUFFICES ASSUME NEW i \in ToSet(input), NEW k \in ToSet(u), i.of = k.of, i.round = k.round
                 PROVE  FALSE
      BY DEF Apart
    <2>1. i.of = now /\ i.round = Over
      OBVIOUS
    <2>2. i.round < Over
      BY <2>1, <1>1 DEF Current, Past
    <2> QED
      BY <2>1, <2>2, <1>2
  <1>5. Apart(shown[now], v)
    BY <1>1 DEF Apart, Current, From
  <1>6. Pending(input) = {} /\ Ordered(input) /\ Pending(shown[now]) = {} /\ Ordered(shown[now])
    BY DEF Current, Whole
  <1>7. input \o u \in Seq(Item) /\ shown[now] \o v \in Seq(Item)
    BY <1>1
  <1>8. Ordered(input \o u) /\ Ordered(shown[now] \o v)
    BY <1>1, <1>4, <1>5, <1>6, GluedOrder
  <1>9. Pending(input \o u) = Pending(u) /\ Pending(shown[now] \o v) = Pending(v)
    <2>1. Pending(input \o u) = Pending(input) \cup Pending(u)
      BY <1>1, <1>4, GluedPending
    <2>2. Pending(shown[now] \o v) = Pending(shown[now]) \cup Pending(v)
      BY <1>1, <1>5, GluedPending
    <2> QED
      BY <2>1, <2>2, <1>6
  <1>10. ToSet(input \o u) = ToSet(input) \cup ToSet(u)
    BY <1>1, GluedItems
  <1>11. ToSet(shown[now] \o v) = ToSet(shown[now]) \cup ToSet(v)
    BY <1>1, GluedItems
  <1>12. From(input \o u, told \cup {now}) /\ From(shown[now] \o v, told \cup {now})
    BY <1>10, <1>11 DEF Current, Past, From
  <1>13. ~evicted /\ req.kind = "turn" =>
           Asks(input \o u, target) /\ Asks(shown[now] \o v, target)
    BY <1>1, <1>10, <1>11 DEF Current, Asks
  <1>14. \A i \in ToSet(input \o u) : i.of \in told \/ (i.of = now /\ i.round <= Over)
    BY <1>2, <1>3, <1>10 DEF Current, Past, Item
  <1>15. input = <<>> /\ u = <<>> /\ v = <<>> => shown[now] \o v = <<>>
    BY DEF Current
  <1> QED
    BY <1>7, <1>8, <1>9, <1>12, <1>13, <1>14, <1>15

\* The record of a request that has one, and of one that has not.
LEMMA Recorded ==
  ASSUME TurnInv, now \in Reply, NEW items \in Seq(Item),
         record' = [record EXCEPT ![now] = [items |-> items, target |-> target]]
  PROVE  /\ record' \in [Reply -> Stored \cup {None}]
         /\ record'[now] \in Stored
         /\ \A t \in Reply \ {now} : record'[t] = record[t]
  <1>1. [items |-> items, target |-> target] \in Stored
    BY DEF TurnInv, TurnTypeOK, Stored
  <1> QED
    BY <1>1 DEF TurnInv, TurnTypeOK

\* A request that ends without a word to the client, whether its response was stored or not.
LEMMA EndsUntold ==
  ASSUME TurnInv, Running, Fails, UNCHANGED <<now, told, point, shown, lease, evicted>>,
         \/ record' = record
         \/ \E items \in Seq(Item) :
              record' = [record EXCEPT ![now] = [items |-> items, target |-> target]]
  PROVE  AllKept' /\ record' \in [Reply -> Stored \cup {None}] /\ ~Running'
  <1>1. now \in Reply /\ now \notin told /\ now \in Nat /\ told \subseteq Reply
    BY NoneIs, LatestIs DEF TurnInv, Current
  <1>2. record' \in [Reply -> Stored \cup {None}] /\ \A t \in Reply \ {now} : record'[t] = record[t]
    BY <1>1, Recorded DEF TurnInv, TurnTypeOK
  <1>3. \A t \in told : record'[t] = record[t] /\ shown'[t] = shown[t]
    BY <1>1, <1>2
  <1>4. \A t \in Reply : t > now' => record'[t] = record[t]
    BY <1>1, <1>2
  <1>5. AllKept'
    BY <1>1, <1>3, <1>4, NotTold
  <1> QED
    BY <1>2, <1>5 DEF Fails, Running

\* A response that is completed: stored and then told, or neither, or only stored.
LEMMA Completes ==
  ASSUME TurnInv, Running, NEW items \in Seq(Item), NEW visible \in Seq(Item),
         Complete(items, visible), at # "compacting",
         UNCHANGED <<now, req, evicted, lease, point>>, TurnTypeOK',
         now \in told' /\ Len(reply') < 2 => last' = target,
         shown[now] \o visible \in Seq(Item),
         Ordered(items), Ordered(shown[now] \o visible),
         Pending(items) = Pending(shown[now] \o visible),
         From(items, told \cup {now}), From(shown[now] \o visible, told \cup {now}),
         items = <<>> => shown[now] \o visible = <<>>,
         ~evicted => Asks(items, target) /\ Asks(shown[now] \o visible, target)
  PROVE  AllKept' /\ ~Running'
  <1>1. Current /\ now \in Reply /\ shown \in [Reply -> Seq(Item)] /\ req.kind = "turn"
    BY DEF TurnInv, Current, TurnTypeOK, Asked
  <1>2. CASE /\ record' = [record EXCEPT ![now] = [items |-> items, target |-> target]]
             /\ shown' = [shown EXCEPT ![now] = @ \o visible]
             /\ told' = told \cup {now}
             /\ at' = "done"
    <2>1. PICK Y \in Seq(Item) : Y = shown[now] \o visible
      OBVIOUS
    <2>2. shown' = [shown EXCEPT ![now] = Y]
      BY <1>1, <1>2, <2>1
    <2>3. /\ Ordered(Y) /\ Pending(items) = Pending(Y) /\ From(Y, told \cup {now})
          /\ items = <<>> => Y = <<>>
          /\ ~evicted => target = lease /\ Asks(items, target) /\ Asks(Y, target)
      BY <1>1, <2>1 DEF Current
    <2>4. point'[now] = "none" /\ \A t \in Reply \ {now} : point'[t] = point[t]
      BY <1>1 DEF TurnInv, AllKept, Current
    <2>5. now \in told'
      BY <1>2
    <2>6. AllKept'
      BY <1>1, <1>2, <2>2, <2>3, <2>4, <2>5, Tells
    <2> QED
      BY <1>2, <2>6 DEF Running
  <1>3. CASE /\ Fails /\ UNCHANGED <<shown, told>>
             /\ \/ record' = record
                \/ record' = [record EXCEPT ![now] = [items |-> items, target |-> target]]
    BY <1>3, EndsUntold
  <1> QED
    BY <1>2, <1>3 DEF Complete

LEMMA CallIs ==
  ASSUME TurnInv, Running, NEW inner \in BOOLEAN
  PROVE  /\ Call(inner) \in Item /\ Call(inner).what = "call" /\ Call(inner).of = now
         /\ Call(inner).round = round /\ Call(inner).inner = inner
  BY TurnConstants DEF TurnInv, Current, TurnTypeOK, Call, Item

LEMMA AnswersKeeps ==
  ASSUME TurnInv, NEW external \in BOOLEAN, Answers(external)
  PROVE  TurnInv'
  <1> DEFINE u == IF external THEN <<Call(FALSE)>> ELSE <<>>
  <1>1. /\ at = "asking" /\ Complete(input \o u, u)
        /\ last' = IF record' # record THEN target ELSE last
        /\ Hears(TRUE)
        /\ UNCHANGED <<mode, now, req, input, reply, target, effects, round, reduced, bound, point>>
    BY DEF Answers
  <1>2. Running /\ Current /\ Over = round
    BY <1>1 DEF Running, TurnInv, Over
  <1>3. /\ u \in Seq(Item) /\ Ordered(u) /\ \A i \in ToSet(u) : i.of = now /\ i.round = Over
        /\ u = <<>> \/ u # <<>>
    <2>1. CASE external
      BY <2>1, <1>2, CallIs, OneCall
    <2>2. CASE ~external
      BY <2>2, Nothing
    <2> QED
      BY <2>1, <2>2
  <1> HIDE DEF u
  <1>4. /\ input \o u \in Seq(Item) /\ shown[now] \o u \in Seq(Item)
        /\ Ordered(input \o u) /\ Ordered(shown[now] \o u)
        /\ Pending(input \o u) = Pending(shown[now] \o u)
        /\ From(input \o u, told \cup {now}) /\ From(shown[now] \o u, told \cup {now})
        /\ ~evicted => Asks(input \o u, target) /\ Asks(shown[now] \o u, target)
        /\ input = <<>> /\ u = <<>> => shown[now] \o u = <<>>
    <2>1. req.kind = "turn"
      BY <1>1, <1>2 DEF Current, Asked
    <2> QED
      BY <2>1, <1>2, <1>3, Adds
  <1>5. input \o u = <<>> => shown[now] \o u = <<>>
    <2>1. input \in Seq(Item)
      BY DEF TurnInv, TurnTypeOK
    <2> QED
      BY <2>1, <1>3, <1>4, BothEmpty
  <1>6. now \in Reply /\ now \in Nat /\ record[now] = None /\ now \in 1..now /\ now' = now
    <2>1. now \in Reply /\ record[now] = None
      BY <1>2 DEF Current
    <2>2. now \in Nat /\ now \in 1..now
      BY <2>1 DEF Reply
    <2> QED
      BY <2>1, <2>2, <1>1
  <1>7. /\ record' \in [Reply -> Stored \cup {None}]
        /\ now \in told' => last' = target
    <2>1. CASE record' = [record EXCEPT ![now] = [items |-> input \o u, target |-> target]]
      <3>1. record' \in [Reply -> Stored \cup {None}] /\ record'[now] \in Stored
        BY <2>1, <1>4, <1>6, Recorded
      <3>2. record' # record
        BY <3>1, <1>6, NoneIs
      <3> QED
        BY <3>1, <3>2, <1>1
    <2>2. CASE UNCHANGED record /\ told' = told
      BY <2>2, <1>2 DEF TurnInv, TurnTypeOK, Current
    <2> QED
      BY <2>1, <2>2, <1>1 DEF Complete
  <1>8. TurnTypeOK'
    <2>1. shown' \in [Reply -> Seq(Item)] /\ told' \subseteq 1..now /\ at' \in {"done", "failed"}
      BY <1>1, <1>4, <1>6 DEF TurnInv, TurnTypeOK, Complete, Fails
    <2>2. heard' \in [client : SUBSET Target, began : SUBSET Target]
      BY <1>1 DEF TurnInv, TurnTypeOK, Hears
    <2> QED
      BY <1>1, <1>6, <1>7, <2>1, <2>2 DEF TurnInv, TurnTypeOK, bound
  <1>9. AllKept' /\ ~Running'
    <2>1. UNCHANGED <<now, req, evicted, lease, point>> /\ at # "compacting"
      BY <1>1 DEF bound
    <2> QED
      BY <2>1, <1>1, <1>2, <1>3, <1>4, <1>5, <1>7, <1>8, Completes
  <1>10. heard'.began \subseteq {target'}
    BY <1>1 DEF TurnInv, Hears
  <1> QED
    BY <1>8, <1>9, <1>10 DEF TurnInv

LEMMA TwoItems ==
  ASSUME NEW S, NEW c \in S, NEW r \in S, NEW w \in Seq(S), Len(w) = 2, w[1] = c, w[2] = r
  PROVE  w = <<c, r>>
  OBVIOUS

LEMMA ThreeItems ==
  ASSUME NEW S, NEW c \in S, NEW e \in S, NEW r \in S,
         NEW w \in Seq(S), Len(w) = 3, w[1] = c, w[2] = e, w[3] = r
  PROVE  w = <<c, e, r>>
  OBVIOUS

LEMMA TwoGlued ==
  ASSUME NEW S, NEW c \in S, NEW r \in S
  PROVE  <<c>> \o <<r>> = <<c, r>>
  <1>1. <<c>> \in Seq(S) /\ <<r>> \in Seq(S) /\ Len(<<c>>) = 1 /\ Len(<<r>>) = 1
    OBVIOUS
  <1>2. /\ <<c>> \o <<r>> \in Seq(S) /\ Len(<<c>> \o <<r>>) = 2
        /\ (<<c>> \o <<r>>)[1] = c /\ (<<c>> \o <<r>>)[2] = r
    BY <1>1
  <1> QED
    BY <1>2, TwoItems, Zenon

LEMMA ThreeGlued ==
  ASSUME NEW S, NEW c \in S, NEW e \in S, NEW r \in S
  PROVE  <<c, e>> \o <<r>> = <<c, e, r>>
  <1>1. <<c, e>> \in Seq(S) /\ <<r>> \in Seq(S) /\ Len(<<c, e>>) = 2 /\ Len(<<r>>) = 1
    OBVIOUS
  <1>2. /\ <<c, e>> \o <<r>> \in Seq(S) /\ Len(<<c, e>> \o <<r>>) = 3
        /\ (<<c, e>> \o <<r>>)[1] = c /\ (<<c, e>> \o <<r>>)[2] = e /\ (<<c, e>> \o <<r>>)[3] = r
    BY <1>1
  <1> QED
    BY <1>2, ThreeItems, Zenon

LEMMA SearchedKeeps ==
  ASSUME TurnInv, Searched
  PROVE  TurnInv'
  <1> DEFINE items == input \o Exchange
  <1>0. PICK c, e : c = Asking(TRUE) /\ e = Asking(FALSE)
    OBVIOUS
  <1>1. /\ at = "searching" /\ effects' = TRUE
        /\ IF Len(reply) > 1
           THEN Complete(items, Tail(reply)) /\ UNCHANGED input
           ELSE at' = "asking" /\ input' = items /\ UNCHANGED <<record, shown, told>>
        /\ UNCHANGED <<mode, now, req, reply, target, heard, round, reduced, bound, last, point>>
    BY DEF Searched
  <1>2. /\ Running /\ Current /\ Over = round - 1 /\ req.kind = "turn"
        /\ reply \in {<<c>>, <<c, e>>} /\ round - 1 \in Nat /\ now \in Reply /\ round \in Nat
    <2>1. Running /\ Current /\ Over = round - 1 /\ now \in Reply
      BY <1>1 DEF Running, TurnInv, Over, Current
    <2>2. req.kind = "turn"
      BY <1>1, <2>1 DEF Current, Asked
    <2>3. round \in Nat /\ round - 1 \in Nat
      BY <1>1, <2>1, TurnConstants DEF TurnInv, TurnTypeOK, Current
    <2>4. reply \in {<<c>>, <<c, e>>}
      BY <1>0, <1>1, <2>1 DEF Current
    <2> QED
      BY <2>1, <2>2, <2>3, <2>4
  <1>3. /\ c \in Item /\ e \in Item /\ c.what = "call" /\ e.what = "call" /\ c # e
        /\ c.of = now /\ e.of = now /\ c.round = Over /\ e.round = Over
    BY <1>0, <1>2 DEF Asking, Item
  <1>4. ToSet(<<c, Result(c)>>) = {c, Result(c)} /\ ToSet(<<c, e, Result(c)>>) = {c, e, Result(c)}
    BY <1>3, Exchanged
  <1>5. Result(c).of = now /\ Result(c).round = Over
    BY <1>3, ResultIs
  <1>5a. Result(c) \in Item
    BY <1>3, ResultIs
  <1>6. now \in Nat /\ now \in 1..now
    BY <1>2 DEF Reply
  <1>7. heard'.began \subseteq {target'}
    BY <1>1 DEF TurnInv
  <1> HIDE DEF items
  <1>8. CASE reply = <<c>>
    <2>1. Len(reply) = 1 /\ Exchange = <<c, Result(c)>>
      BY <1>8, <1>3, <1>5a, TwoGlued DEF Exchange
    <2> DEFINE u == <<c, Result(c)>>
    <2>2. u \in Seq(Item) /\ Ordered(u) /\ Pending(u) = {} /\ \A i \in ToSet(u) : i.of = now /\ i.round = Over
      BY <1>3, <1>4, <1>5, Exchanged
    <2>3. /\ items \in Seq(Item) /\ Ordered(items) /\ Pending(items) = {}
          /\ ~evicted => Asks(items, target)
          /\ \A i \in ToSet(items) : i.of \in told \/ (i.of = now /\ i.round <= Over)
      BY <2>1, <2>2, <1>2, Nothing, Adds DEF items
    <2>4. items # <<>>
      <3>1. input \in Seq(Item) /\ u # <<>>
        BY DEF TurnInv, TurnTypeOK
      <3> QED
        BY <2>1, <2>2, <3>1, BothEmpty DEF items
    <2>5. at' = "asking" /\ input' = items /\ UNCHANGED <<record, shown, told>>
      BY <1>1, <2>1
    <2>6. TurnTypeOK'
      BY <1>1, <2>3, <2>5 DEF TurnInv, TurnTypeOK, bound
    <2>7. AllKept'
      <3>1. UNCHANGED <<told, point, evicted, lease, now>>
        BY <1>1, <2>5 DEF bound
      <3>2. now' \notin told
        BY <1>2, <3>1 DEF Current
      <3> QED
        BY <3>1, <3>2, <2>5, <1>6, NotTold DEF bound
    <2>8. Past(input)'
      <3>1. Over' = round
        BY <1>1, <2>5 DEF Over
      <3>2. \A i \in ToSet(items) : i.of = now /\ i.round <= Over => i.round < round
        <4>1. ToSet(items) \subseteq Item
          BY <2>3, ToSetItems
        <4> QED
          BY <4>1, <1>2 DEF Item
      <3> QED
        BY <3>1, <3>2, <2>3, <2>5, <1>1 DEF Past
    <2>9. Current'
      <3>1. /\ now' \in Reply /\ now' \notin told' /\ req' \in Asked /\ record'[now'] = None
            /\ (req'.kind = "compaction") <=> (at' = "compacting")
        BY <1>1, <1>2, <2>5 DEF Current
      <3>2. Whole(input') /\ Whole(shown'[now']) /\ From(shown'[now'], told')
        BY <1>1, <1>2, <2>3, <2>5 DEF Current, Whole
      <3>3. ~evicted' /\ req'.kind = "turn" =>
              target' = lease' /\ Asks(input, target)' /\ Asks(shown[now], target)'
        BY <1>1, <1>2, <2>3, <2>5 DEF Current, Asks, bound
      <3> QED
        BY <3>1, <3>2, <3>3, <2>4, <2>5, <2>8, <1>1 DEF Current
    <2> QED
      BY <2>6, <2>7, <2>9, <1>7 DEF TurnInv
  <1>9. CASE reply = <<c, e>>
    <2>1. Len(reply) = 2 /\ Exchange = <<c, e, Result(c)>> /\ Tail(reply) = <<e>>
      <3>1. <<c, e>> \o <<Result(c)>> = <<c, e, Result(c)>>
        BY <1>3, <1>5a, ThreeGlued, Zenon
      <3>a. Len(<<c, e>>) = 2 /\ <<c, e>>[1] = c /\ Tail(<<c, e>>) = <<e>>
        OBVIOUS
      <3>2. Exchange = <<c, e>> \o <<Result(<<c, e>>[1])>>
        BY <1>9, Zenon DEF Exchange
      <3> QED
        BY <3>1, <3>a, <3>2, <1>9, Zenon
    <2> DEFINE u == <<c, e, Result(c)>>
               v == <<e>>
    <2>2. u \in Seq(Item) /\ Ordered(u) /\ Pending(u) = {e} /\ \A i \in ToSet(u) : i.of = now /\ i.round = Over
      BY <1>3, <1>4, <1>5, Exchanged
    <2>3. v \in Seq(Item) /\ Ordered(v) /\ Pending(v) = {e} /\ \A i \in ToSet(v) : i.of = now
      BY <1>3, OneCall
    <2>4. u # <<>>
      OBVIOUS
    <2> HIDE DEF u, v
    <2>5. /\ input \o u \in Seq(Item) /\ shown[now] \o v \in Seq(Item)
          /\ Ordered(input \o u) /\ Ordered(shown[now] \o v)
          /\ Pending(input \o u) = Pending(shown[now] \o v)
          /\ From(input \o u, told \cup {now}) /\ From(shown[now] \o v, told \cup {now})
          /\ ~evicted => Asks(input \o u, target) /\ Asks(shown[now] \o v, target)
      BY <2>2, <2>3, <1>2, Adds
    <2>6. input \o u # <<>>
      <3>1. input \in Seq(Item)
        BY DEF TurnInv, TurnTypeOK
      <3> QED
        BY <3>1, <2>2, <2>4, BothEmpty
    <2>7. Complete(input \o u, v) /\ UNCHANGED input
      <3>1. items = input \o u /\ Tail(reply) = v
        BY <2>1 DEF items, u, v
      <3> QED
        <4>1. Complete(items, Tail(reply)) /\ UNCHANGED input
          BY <1>1, <2>1
        <4> QED
          BY <3>1, <4>1, Zenon DEF Complete
    <2>8. record' \in [Reply -> Stored \cup {None}]
      BY <2>5, <2>7, <1>2, Recorded DEF Complete, TurnInv, TurnTypeOK
    <2>9. TurnTypeOK'
      <3>1. shown' \in [Reply -> Seq(Item)] /\ told' \subseteq 1..now /\ at' \in {"done", "failed"}
        BY <2>5, <2>7, <1>6, <1>2 DEF TurnInv, TurnTypeOK, Complete, Fails
      <3> QED
        BY <1>1, <2>7, <2>8, <3>1 DEF TurnInv, TurnTypeOK, bound
    <2>10. AllKept' /\ ~Running'
      <3>1. UNCHANGED <<now, req, evicted, lease, point>> /\ at # "compacting" /\ Len(reply') = 2
        BY <1>1, <2>1 DEF bound
      <3>2. now \in told' /\ Len(reply') < 2 => last' = target
        BY <3>1
      <3> QED
        BY <3>1, <3>2, <1>2, <2>3, <2>5, <2>6, <2>7, <2>9, Completes
    <2> QED
      BY <2>9, <2>10, <1>7 DEF TurnInv
  <1> QED
    BY <1>2, <1>8, <1>9

\* A step of a request that runs on, with the same transcripts.
LEMMA RunsOn ==
  ASSUME TurnInv, Running, TurnTypeOK', UNCHANGED <<now, told, point, shown, record, evicted>>,
         \/ lease' = lease
         \/ \A t \in told : Top(t) => record[t].items = <<>>
  PROVE  AllKept'
  <1>1. now \in Nat /\ now \notin told
    BY NoneIs DEF TurnInv, Current
  <1> QED
    BY <1>1, NotTold

LEMMA CallsSearchKeeps ==
  ASSUME TurnInv, NEW external \in BOOLEAN, CallsSearch(external)
  PROVE  TurnInv'
  <1>1. /\ at = "asking" /\ Hears(TRUE)
        /\ reply' = <<Call(TRUE)>> \o (IF external THEN <<Call(FALSE)>> ELSE <<>>)
        /\ IF round >= MaxRounds
           THEN Fails /\ UNCHANGED round
           ELSE at' = "searching" /\ round' = round + 1
        /\ UNCHANGED <<mode, now, req, input, target, effects, reduced, bound, store, client>>
    BY DEF CallsSearch
  <1>2. Running /\ Current /\ Over = round /\ round \in Nat /\ MaxRounds \in Nat
    BY <1>1, TurnConstants DEF Running, TurnInv, Over, TurnTypeOK
  <1>3. PICK c, e : c = Call(TRUE) /\ e = Call(FALSE)
    OBVIOUS
  <1>4. c \in Item /\ e \in Item
    BY <1>2, <1>3, CallIs
  <1>5. reply' \in {<<c>>, <<c, e>>} /\ reply' \in Seq(Item)
    <2>1. CASE external
      <3>1. reply' = <<c>> \o <<e>>
        BY <2>1, <1>1, <1>3
      <3>2. reply' = <<c, e>>
        BY <3>1, <1>4, TwoGlued, Zenon
      <3> QED
        BY <3>2, <1>4
    <2>2. CASE ~external
      <3>1. reply' = <<c>> \o <<>>
        BY <2>2, <1>1, <1>3
      <3>2. <<c>> \in Seq(Item)
        BY <1>4
      <3>3. <<c>> \o <<>> = <<c>>
        BY <3>2, NoneGlued
      <3> QED
        BY <3>1, <3>2, <3>3
    <2> QED
      BY <2>1, <2>2
  <1>6. at' = "searching" \/ at' = "failed"
    BY <1>1 DEF Fails
  <1>7. TurnTypeOK'
    <2>1. heard' \in [client : SUBSET Target, began : SUBSET Target]
      BY <1>1 DEF TurnInv, TurnTypeOK, Hears
    <2>2. round' \in 0..MaxRounds
      BY <1>1, <1>2 DEF TurnInv, TurnTypeOK
    <2> QED
      BY <1>1, <1>5, <1>6, <2>1, <2>2 DEF TurnInv, TurnTypeOK, bound, store, client
  <1>8. AllKept'
    BY <1>1, <1>2, <1>7, RunsOn DEF bound, store, client
  <1>9. ASSUME Running'
        PROVE  Current'
    <2>1. at' = "searching" /\ round' = round + 1 /\ round' > 0 /\ round' - 1 = round
      BY <1>1, <1>2, <1>9 DEF Running, Fails
    <2>2. Over' = round
      BY <2>1 DEF Over
    <2>3. Past(input)'
      BY <2>2, <1>1, <1>2 DEF Current, Past, client
    <2>4. Asking(TRUE)' = c /\ Asking(FALSE)' = e
      BY <2>1, <1>1, <1>3 DEF Asking, Call
    <2>5. reply' \in {<<Asking(TRUE)'>>, <<Asking(TRUE)', Asking(FALSE)'>>}
      BY <2>4, <1>5, Zenon
    <2>6. UNCHANGED <<now, told, record, req, input, shown, effects, evicted, target, lease>>
      BY <1>1 DEF bound, store, client
    <2>7. ~evicted' /\ req'.kind = "turn" =>
            target' = lease' /\ Asks(input, target)' /\ Asks(shown[now], target)'
      BY <2>6, <1>2 DEF Current, Asks
    <2>8. input' = <<>> => shown'[now'] = <<>> /\ \A t \in told' : Top(t)' => record'[t].items = <<>>
      BY <2>6, <1>2 DEF Current, Top
    <2>9. From(shown[now], told)' /\ Whole(input') /\ Whole(shown'[now'])
      BY <2>6, <1>2 DEF Current, From
    <2>10. /\ now' \in Reply /\ now' \notin told' /\ req' \in Asked /\ record'[now'] = None
           /\ (req'.kind = "compaction") <=> (at' = "compacting")
           /\ ~effects' => input' = <<>>
      BY <2>1, <2>6, <1>1, <1>2 DEF Current
    <2> QED
      BY <2>1, <2>3, <2>5, <2>7, <2>8, <2>9, <2>10 DEF Current
  <1>10. heard'.began \subseteq {target'}
    BY <1>1 DEF TurnInv, Hears
  <1> QED
    BY <1>7, <1>8, <1>9, <1>10 DEF TurnInv

\* A step between asking and summary.
LEMMA StillAsks ==
  ASSUME TurnInv, at \in {"asking", "summary"}, at' \in {"asking", "summary"}, TurnTypeOK',
         UNCHANGED <<now, req, input, reply, target, effects, round, bound, store, client>>,
         heard'.began \subseteq {target}
  PROVE  TurnInv'
  <1>1. Running /\ Current /\ Over = round /\ Over' = round
    BY DEF Running, TurnInv, Over
  <1>2. UNCHANGED <<now, told, record, req, input, shown, effects, evicted, target, lease, point>>
    BY DEF bound, store, client
  <1>3. AllKept'
    BY <1>1, <1>2, RunsOn
  <1>4. Past(input)' /\ From(shown[now], told)' /\ Whole(input') /\ Whole(shown'[now'])
    BY <1>1, <1>2 DEF Current, Past, From
  <1>5. ~evicted' /\ req'.kind = "turn" =>
          target' = lease' /\ Asks(input, target)' /\ Asks(shown[now], target)'
    BY <1>1, <1>2 DEF Current, Asks
  <1>6. input' = <<>> => shown'[now'] = <<>> /\ \A t \in told' : Top(t)' => record'[t].items = <<>>
    BY <1>1, <1>2 DEF Current, Top
  <1>7. /\ now' \in Reply /\ now' \notin told' /\ req' \in Asked /\ record'[now'] = None
        /\ (req'.kind = "compaction") <=> (at' = "compacting")
        /\ ~effects' => input' = <<>>
    BY <1>1, <1>2 DEF Current
  <1>8. Current'
    BY <1>4, <1>5, <1>6, <1>7 DEF Current
  <1> QED
    BY <1>2, <1>3, <1>8 DEF TurnInv

LEMMA StreamsKeeps ==
  ASSUME TurnInv, NEW visible \in BOOLEAN, Streams(visible)
  PROVE  TurnInv'
  <1>1. TurnTypeOK' /\ heard'.began \subseteq {target}
    BY DEF TurnInv, TurnTypeOK, Streams, Hears, bound, store, client
  <1> QED
    BY <1>1, StillAsks DEF Streams

LEMMA EndsKeeps ==
  ASSUME TurnInv, Running, Fails,
         UNCHANGED <<mode, now, req, input, reply, flow, bound, store, client>>
  PROVE  TurnInv'
  <1>1. AllKept' /\ ~Running'
    BY EndsUntold DEF bound, store, client
  <1>2. TurnTypeOK' /\ heard'.began \subseteq {target'}
    BY DEF TurnInv, TurnTypeOK, Fails, flow, bound, store, client
  <1> QED
    BY <1>1, <1>2 DEF TurnInv

LEMMA OverflowsKeeps ==
  ASSUME TurnInv, NEW foreign \in BOOLEAN, Overflows(foreign)
  PROVE  TurnInv'
  <1>1. /\ at = "asking" /\ at' \in {"summary", "failed"} /\ Running
        /\ UNCHANGED <<mode, now, req, input, reply, flow, bound, store, client>>
    BY DEF Overflows, Running
  <1>2. CASE at' = "summary"
    <2>1. TurnTypeOK' /\ heard'.began \subseteq {target}
      BY <1>1, <1>2 DEF TurnInv, TurnTypeOK, flow, bound, store, client
    <2> QED
      BY <2>1, <1>1, <1>2, StillAsks DEF flow
  <1>3. CASE at' = "failed"
    BY <1>1, <1>3, EndsKeeps DEF Fails
  <1> QED
    BY <1>1, <1>2, <1>3

LEMMA SummarisedKeeps ==
  ASSUME TurnInv, Summarised
  PROVE  TurnInv'
  <1>1. TurnTypeOK' /\ heard'.began \subseteq {target}
    BY DEF TurnInv, TurnTypeOK, Summarised, bound, store, client
  <1> QED
    BY <1>1, StillAsks DEF Summarised

LEMMA BreaksKeeps ==
  ASSUME TurnInv, Breaks
  PROVE  TurnInv'
  <1>1. /\ at = "asking" /\ Running /\ Current
        /\ UNCHANGED <<mode, now, req, input, reply, heard, effects, reduced, evicted, store, client>>
    BY DEF Breaks, Running, TurnInv
  <1>2. CASE Fails /\ UNCHANGED <<target, lease, round>>
    BY <1>1, <1>2, EndsKeeps DEF flow, bound
  <1>3. CASE /\ Silent /\ ~effects /\ round = 0
             /\ target' = "spare" /\ lease' = "spare" /\ round' = round + 1 /\ UNCHANGED at
    <2>1. input = <<>> /\ shown[now] = <<>> /\ \A t \in told : Top(t) => record[t].items = <<>>
      BY <1>1, <1>3 DEF Current
    <2>2. TurnTypeOK'
      BY <1>1, <1>3, TurnConstants DEF TurnInv, TurnTypeOK, Target, store, client
    <2>3. UNCHANGED <<now, told, record, req, input, shown, effects, evicted, point, at>>
      BY <1>1, <1>3 DEF store, client
    <2>4. AllKept'
      BY <1>1, <2>1, <2>2, <2>3, RunsOn
    <2>5. Past(input)' /\ From(shown[now], told)' /\ Asks(input, target)' /\ Asks(shown[now], target)'
      BY <2>1, <2>3, Nothing DEF Past, From, Asks
    <2>6. \A t \in told' : Top(t)' => record'[t].items = <<>>
      BY <2>1, <2>3 DEF Top
    <2>7. Current'
      BY <1>1, <1>3, <2>1, <2>3, <2>5, <2>6 DEF Current
    <2>8. heard'.began \subseteq {target'}
      BY <1>1, <1>3 DEF Silent
    <2> QED
      BY <2>2, <2>4, <2>7, <2>8 DEF TurnInv
  <1> QED
    BY <1>2, <1>3 DEF Breaks

LEMMA GivesKeeps ==
  ASSUME TurnInv, Gives
  PROVE  TurnInv'
  BY EndsKeeps DEF Gives, Running

LEMMA EvictKeeps ==
  ASSUME TurnInv, Evict
  PROVE  TurnInv'
  <1>1. TurnTypeOK' /\ heard'.began \subseteq {target'} /\ ~Running'
    BY DEF TurnInv, TurnTypeOK, Evict, Quiet, Running, flow, store, client
  <1>2. now \in Nat /\ now <= now
    BY TurnConstants DEF TurnInv, TurnTypeOK
  <1>3. AllKept'
    BY <1>2, NotTold DEF Evict, flow, store, client
  <1> QED
    BY <1>1, <1>3 DEF TurnInv

LEMMA CompactsKeeps ==
  ASSUME TurnInv, NEW kind \in {"native", "virtual"}, Compacts(kind)
  PROVE  TurnInv'
  <1>1. /\ at = "compacting" /\ Running /\ Current
        /\ UNCHANGED <<mode, now, req, input, reply, flow, bound, last>>
    BY DEF Compacts, Running, TurnInv
  <1>2. /\ now \in Reply /\ req.kind = "compaction" /\ Pending(shown[now]) = {} /\ now \in 1..now
        /\ shown \in [Reply -> Seq(Item)] /\ point \in [Reply -> {"none", "native", "virtual"}]
    <2>1. now \in Reply /\ req.kind = "compaction" /\ Pending(shown[now]) = {}
      BY <1>1 DEF Current, Whole
    <2> QED
      BY <2>1 DEF TurnInv, TurnTypeOK, Reply
  <1>3. heard'.began \subseteq {target'}
    BY <1>1 DEF TurnInv, flow
  <1>4. CASE /\ record' = [record EXCEPT ![now] = [items |-> <<>>, target |-> target]]
             /\ point' = [point EXCEPT ![now] = kind] \/ UNCHANGED point
             /\ shown' = [shown EXCEPT ![now] = SetToSeq(Pending(@))]
             /\ told' = told \cup {now}
             /\ at' = "done"
    <2>1. SetToSeq({}) = <<>>
      BY ListIs, FS_EmptySet
    <2>2. shown' = [shown EXCEPT ![now] = <<>>]
      BY <2>1, <1>2, <1>4
    <2>3. record' \in [Reply -> Stored \cup {None}]
      BY <1>2, <1>4, Nothing, Recorded
    <2>4. point' \in [Reply -> {"none", "native", "virtual"}] /\ shown' \in [Reply -> Seq(Item)]
      BY <1>2, <1>4, <2>2, Nothing
    <2>5. TurnTypeOK'
      BY <1>1, <1>2, <1>4, <2>3, <2>4 DEF TurnInv, TurnTypeOK, flow, bound
    <2>6. \A t \in Reply \ {now} : point'[t] = point[t]
      BY <1>2, <1>4
    <2>7. AllKept'
      <3>1. From(<<>>, told \cup {now}) /\ UNCHANGED <<now, req, evicted, lease>>
        BY <1>1, Nothing DEF From, bound
      <3> QED
        BY <3>1, <1>1, <1>2, <1>4, <2>2, <2>5, <2>6, Nothing, Tells
    <2> QED
      BY <1>3, <1>4, <2>5, <2>7 DEF TurnInv, Running
  <1>5. CASE /\ record' \in {record, [record EXCEPT ![now] = [items |-> <<>>, target |-> target]]}
             /\ Fails
             /\ UNCHANGED <<point, shown, told>>
    <2>1. AllKept' /\ record' \in [Reply -> Stored \cup {None}] /\ ~Running'
      <3>1. \/ record' = record
            \/ \E items \in Seq(Item) :
                 record' = [record EXCEPT ![now] = [items |-> items, target |-> target]]
        BY <1>5, Nothing
      <3> QED
        BY <3>1, <1>1, <1>5, EndsUntold DEF bound
    <2>2. TurnTypeOK'
      BY <1>1, <1>5, <2>1 DEF TurnInv, TurnTypeOK, Fails, flow, bound
    <2> QED
      BY <1>3, <2>1, <2>2 DEF TurnInv
  <1> QED
    BY <1>4, <1>5 DEF Compacts

-----------------------------------------------------------------------------
(* The theorems. *)

LEMMA Starts == TurnInit => TurnInv
  <1> SUFFICES ASSUME TurnInit
               PROVE  TurnInv
    OBVIOUS
  <1>1. TurnTypeOK
    <2>1. now \in 0..Requests /\ round \in 0..MaxRounds /\ target \in Target /\ told \subseteq 1..now
      BY TurnConstants DEF TurnInit, Target
    <2>2. record \in [Reply -> Stored \cup {None}] /\ shown \in [Reply -> Seq(Item)]
      BY Nothing DEF TurnInit
    <2>3. heard \in [client : SUBSET Target, began : SUBSET Target]
      BY DEF TurnInit
    <2>4. point \in [Reply -> {"none", "native", "virtual"}]
      BY DEF TurnInit
    <2> QED
      BY <2>1, <2>2, <2>3, <2>4, Nothing DEF TurnInit, TurnTypeOK
  <1>2. AllKept
    BY DEF TurnInit, AllKept
  <1> QED
    BY <1>1, <1>2 DEF TurnInit, TurnInv, Running

LEMMA StepKeeps ==
  ASSUME TurnInv, [TurnNext]_turnVars
  PROVE  TurnInv'
  <1>1. ASSUME NEW kind \in {"turn", "compaction"}, NEW byId \in BOOLEAN,
               NEW answers \in BOOLEAN, NEW migrated \in BOOLEAN,
               Begin(kind, byId, answers, migrated)
        PROVE  TurnInv'
    BY <1>1, Begins
  <1>2. ASSUME Evict
        PROVE  TurnInv'
    BY <1>2, EvictKeeps
  <1>3. ASSUME Step
        PROVE  TurnInv'
    <2>1. ASSUME NEW b \in BOOLEAN, Streams(b) \/ Answers(b) \/ CallsSearch(b) \/ Overflows(b)
          PROVE  TurnInv'
      BY <2>1, StreamsKeeps, AnswersKeeps, CallsSearchKeeps, OverflowsKeeps
    <2>2. CASE Searched
      BY <2>2, SearchedKeeps
    <2>3. CASE Summarised
      BY <2>3, SummarisedKeeps
    <2>4. CASE Breaks
      BY <2>4, BreaksKeeps
    <2>5. CASE Gives
      BY <2>5, GivesKeeps
    <2>6. ASSUME NEW kind \in {"native", "virtual"}, Compacts(kind)
          PROVE  TurnInv'
      BY <2>6, CompactsKeeps
    <2> QED
      BY <1>3, <2>1, <2>2, <2>3, <2>4, <2>5, <2>6 DEF Step
  <1>4. ASSUME UNCHANGED turnVars
        PROVE  TurnInv'
    BY <1>4 DEF turnVars, flow, bound, store, client, TurnInv, TurnTypeOK, AllKept, Kept, From, Asks,
                Top, Running, Current, Past, Over, Asking
  <1> QED
    BY <1>1, <1>2, <1>3, <1>4 DEF TurnNext

\* The invariant holds in every state of a turn, whatever its providers, searches, quota and
\* client do (Engine.generate and compact).
THEOREM TurnInductive == TurnSpec => []TurnInv
  <1>1. TurnInit => TurnInv
    BY Starts
  <1>2. TurnInv /\ [TurnNext]_turnVars => TurnInv'
    BY StepKeeps
  <1> QED
    BY <1>1, <1>2, PTL DEF TurnSpec

\* A provider is only asked with transcripts in which every call has its result after it, for any
\* number of requests, rounds of searches and compactions (the input of generate and compact).
THEOREM ProvidersGetWhole == TurnSpec => []PairsWhole
  <1>1. TurnInv => PairsWhole
    BY DEF TurnInv, Running, Current, PairsWhole
  <1> QED
    BY <1>1, TurnInductive, PTL

\* What the client was told of is stored, with the same calls open as in the client's own copy
\* (storeResponse before the terminal event).
THEOREM ToldIsKept == TurnSpec => []KeptBeforeTold
  <1>1. TurnInv => KeptBeforeTold
    <2> SUFFICES ASSUME TurnInv
                 PROVE  KeptBeforeTold
      OBVIOUS
    <2>1. \A t \in told : record[t] # None /\ Pending(record[t].items) = Pending(shown[t])
      BY NoneIs DEF TurnInv, AllKept, Kept
    <2> QED
      BY <2>1 DEF TurnInv, AllKept, KeptBeforeTold
  <1> QED
    BY <1>1, TurnInductive, PTL

\* A response has the events of one target only, and while the lease of the turn is in memory the
\* results of tools return to the target that called them (generate's fallback and replay).
THEOREM OneTargetAnswers == TurnSpec => []OneVoice
  <1>1. TurnInv => OneVoice
    <2> SUFFICES ASSUME TurnInv
                 PROVE  OneVoice
      OBVIOUS
    <2>1. Cardinality(heard.began) <= 1
      <3>1. heard.began = {} \/ heard.began = {target}
        BY DEF TurnInv
      <3>2. Cardinality({}) = 0 /\ Cardinality({target}) = 1
        BY FS_EmptySet, FS_Singleton
      <3>3. Cardinality(heard.began) = 0 \/ Cardinality(heard.began) = 1
        BY <3>1, <3>2
      <3> QED
        BY <3>3
    <2>2. ASSUME ~evicted, at = "asking", NEW i \in ToSet(input), i.what = "result", i.of # now
          PROVE  record[i.of].target = target
      <3>1. Current /\ req.kind = "turn"
        BY <2>2 DEF TurnInv, Running, Current, Asked
      <3> QED
        BY <2>2, <3>1 DEF Current, Past, Asks
    <2> QED
      BY <2>1, <2>2 DEF OneVoice
  <1> QED
    BY <1>1, TurnInductive, PTL
=============================================================================

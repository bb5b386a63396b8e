------------------------ MODULE ConversationsProofs -------------------------
(* Theorems about what the Router remembers of a task: the memory of the state *)
(* over the archive, for every set of keys, versions and sizes and any limit;  *)
(* and the summaries of a migration, for any number of requests, destinations, *)
(* tails and crashes.                                                          *)
EXTENDS StateStore, SummaryJob, WellFoundedInduction, FiniteSetTheorems, TLAPS

-----------------------------------------------------------------------------
(* Smallest counterexamples. *)

\* Of the numbers that have a property there is a least one.
LEMMA Least ==
  ASSUME NEW S \in SUBSET Nat, S # {}
  PROVE  \E m \in S : \A n \in S : m <= n
<1>1. PICK m \in S : \A n \in S : <<n, m>> \notin OpToRel(<, Nat)
  BY NatLessThanWellFounded, WFMin, Zenon
<1>2. \A n \in S : ~(n < m)
  BY <1>1, Zenon DEF OpToRel
<1> QED
  BY <1>2

\* Of finite sets there is a smallest one.
LEMMA Smallest ==
  ASSUME NEW F, F # {}, \A T \in F : IsFiniteSet(T)
  PROVE  \E T \in F : \A U \in F : Cardinality(T) <= Cardinality(U)
<1> DEFINE S == {Cardinality(T) : T \in F}
<1>1. S \in SUBSET Nat /\ S # {}
  BY FS_CardinalityType
<1>2. PICK m \in S : \A n \in S : m <= n
  BY <1>1, Least
<1> QED
  BY <1>2

-----------------------------------------------------------------------------
(* The sum of the sizes. *)

\* The size of the entries in S, as BytesExact adds it up.
Total(m, S) == MapThenSumSet(LAMBDA k : m.held[k].size, S)

\* One round of the sum: the chosen element and the others.
Part(m, g, T) ==
  IF T = {} THEN 0
  ELSE LET x == CHOOSE x \in T : TRUE IN m.held[x].size + g[T \ {x}]

\* The sum is a recursive function over the subsets of the set.
LEMMA TotalIs ==
  ASSUME NEW m, NEW S, IsFiniteSet(S)
  PROVE  \E g : Total(m, S) = g[S] /\ \A T \in SUBSET S : g[T] = Part(m, g, T)
<1> DEFINE D(n) == {T \in SUBSET S : Cardinality(T) <= n}
           Good(n) == \E g : g = [T \in D(n) |-> Part(m, g, T)]
<1>1. \A T \in SUBSET S : IsFiniteSet(T) /\ Cardinality(T) \in Nat
  BY FS_Subset, FS_CardinalityType
<1>2. \A n \in Nat : Good(n)
  <2> SUFFICES ASSUME {n \in Nat : ~Good(n)} # {} PROVE FALSE
    OBVIOUS
  <2>1. PICK n \in {k \in Nat : ~Good(k)} : \A k \in {l \in Nat : ~Good(l)} : n <= k
    BY Least
  <2>2. CASE n = 0
    <3> DEFINE g == [T \in D(0) |-> 0]
    <3>1. \A T \in D(0) : T = {}
      BY <1>1, FS_EmptySet
    <3>2. \A T \in D(0) : Part(m, g, T) = 0
      BY <3>1 DEF Part
    <3>3. g = [T \in D(0) |-> Part(m, g, T)]
      BY <3>2
    <3> QED
      BY <2>1, <2>2, <3>3
  <2>3. CASE n # 0
    <3>1. n - 1 \in Nat /\ Good(n - 1)
      <4> HIDE DEF Good
      <4> QED
        BY <2>1, <2>3
    <3>2. PICK g : g = [T \in D(n - 1) |-> Part(m, g, T)]
      BY <3>1
    <3> DEFINE more == [T \in D(n) |-> Part(m, g, T)]
    <3>3. ASSUME NEW T \in D(n) PROVE Part(m, more, T) = Part(m, g, T)
      <4>1. CASE T = {}
        BY <4>1 DEF Part
      <4>2. CASE T # {}
        <5> DEFINE x == CHOOSE x \in T : TRUE
        <5>1. x \in T
          BY <4>2
        <5> HIDE DEF x
        <5>2. T \ {x} \in SUBSET S /\ Cardinality(T \ {x}) = Cardinality(T) - 1
          BY <1>1, <5>1, FS_RemoveElement
        <5>3. T \ {x} \in D(n - 1) /\ T \ {x} \in D(n)
          BY <1>1, <2>1, <5>2
        <5>4. more[T \ {x}] = g[T \ {x}]
          <6>1. g[T \ {x}] = Part(m, g, T \ {x})
            BY <3>2, <5>3
          <6> QED
            BY <6>1, <5>3
        <5>5. /\ Part(m, more, T) = m.held[x].size + more[T \ {x}]
              /\ Part(m, g, T) = m.held[x].size + g[T \ {x}]
          BY <4>2, Zenon DEF Part, x
        <5> QED
          BY <5>4, <5>5
      <4> QED
        BY <4>1, <4>2
    <3>4. more = [T \in D(n) |-> Part(m, more, T)]
      BY <3>3
    <3> QED
      BY <2>1, <3>4
  <2> QED
    BY <2>2, <2>3
<1>3. D(Cardinality(S)) = SUBSET S
  BY <1>1, FS_Subset
<1>4. Good(Cardinality(S))
  <2> HIDE DEF Good
  <2> QED
    BY <1>1, <1>2
<1>5. \E g : g = [T \in SUBSET S |-> Part(m, g, T)]
  BY <1>3, <1>4
<1> DEFINE g == CHOOSE g : g = [T \in SUBSET S |-> Part(m, g, T)]
<1>6. g = [T \in SUBSET S |-> Part(m, g, T)]
  BY <1>5
<1>7. Total(m, S) = g[S]
  BY Zenon DEF Total, MapThenSumSet, MapThenFoldSet, Part
<1> HIDE DEF g
<1> QED
  BY <1>6, <1>7

Sums(m, S, g) == Total(m, S) = g[S] /\ \A T \in SUBSET S : g[T] = Part(m, g, T)

LEMMA SumsExist ==
  ASSUME NEW m, NEW S, IsFiniteSet(S)
  PROVE  \E g : Sums(m, S, g)
BY TotalIs DEF Sums

LEMMA TotalEmpty ==
  ASSUME NEW m
  PROVE  Total(m, {}) = 0
<1>1. PICK g : Total(m, {}) = g[{}] /\ \A T \in SUBSET {} : g[T] = Part(m, g, T)
  BY TotalIs, FS_EmptySet, Zenon
<1> QED
  BY <1>1 DEF Part

\* The sum is that of the chosen element and of the others.
LEMMA TotalChosen ==
  ASSUME NEW m, NEW S, IsFiniteSet(S), S # {}
  PROVE  LET x == CHOOSE x \in S : TRUE IN Total(m, S) = m.held[x].size + Total(m, S \ {x})
<1> DEFINE x == CHOOSE x \in S : TRUE
           R == S \ {x}
<1>1. x \in S /\ IsFiniteSet(R)
  BY FS_RemoveElement
<1>a. \E g : Sums(m, S, g)
  BY SumsExist
<1>b. \E h : Sums(m, R, h)
  <2> HIDE DEF R
  <2> QED
    BY <1>1, SumsExist
<1>2. PICK g : Total(m, S) = g[S] /\ \A T \in SUBSET S : g[T] = Part(m, g, T)
  BY <1>a DEF Sums
<1>3. PICK h : Total(m, R) = h[R] /\ \A T \in SUBSET R : h[T] = Part(m, h, T)
  BY <1>b DEF Sums
<1>4. \A T \in SUBSET R : g[T] = h[T]
  <2> DEFINE Bad == {T \in SUBSET R : g[T] # h[T]}
  <2> SUFFICES ASSUME Bad # {} PROVE FALSE
    OBVIOUS
  <2>1. \A T \in Bad : IsFiniteSet(T)
    BY <1>1, FS_Subset
  <2>2. PICK T \in Bad : \A U \in Bad : Cardinality(T) <= Cardinality(U)
    <3> HIDE DEF Bad
    <3> QED
      BY <2>1, Smallest
  <2>3. g[T] = Part(m, g, T) /\ h[T] = Part(m, h, T)
    BY <1>2, <1>3
  <2>4. T # {}
    BY <2>3 DEF Part
  <2> DEFINE y == CHOOSE y \in T : TRUE
  <2>5. y \in T
    BY <2>4
  <2>6. Part(m, g, T) = m.held[y].size + g[T \ {y}] /\ Part(m, h, T) = m.held[y].size + h[T \ {y}]
    BY <2>4, Zenon DEF Part
  <2> HIDE DEF y
  <2>7. Cardinality(T \ {y}) = Cardinality(T) - 1 /\ Cardinality(T) \in Nat
    BY <2>1, <2>5, FS_RemoveElement, FS_CardinalityType
  <2>8. T \ {y} \in SUBSET R /\ T \ {y} \notin Bad
    BY <2>2, <2>7
  <2> QED
    BY <2>3, <2>6, <2>8
<1>5. Total(m, S) = m.held[x].size + g[R]
  BY <1>2, Zenon DEF Part
<1> QED
  BY <1>3, <1>4, <1>5

Sized(m, S) == \A k \in S : m.held[k].size \in Nat

\* A sum of numbers is a number.
LEMMA TotalNat ==
  ASSUME NEW m, NEW S, IsFiniteSet(S), Sized(m, S)
  PROVE  Total(m, S) \in Nat
<1> DEFINE Bad == {T \in SUBSET S : Total(m, T) \notin Nat}
<1> SUFFICES ASSUME Bad # {} PROVE FALSE
  OBVIOUS
<1>1. \A T \in Bad : IsFiniteSet(T)
  BY FS_Subset
<1>2. PICK T \in Bad : \A U \in Bad : Cardinality(T) <= Cardinality(U)
  <2> HIDE DEF Bad
  <2> QED
    BY <1>1, Smallest
<1>3. T # {}
  BY TotalEmpty
<1> DEFINE x == CHOOSE x \in T : TRUE
<1>4. Total(m, T) = m.held[x].size + Total(m, T \ {x})
  BY <1>1, <1>3, TotalChosen
<1>5. x \in T
  BY <1>3
<1> HIDE DEF x
<1>6. Cardinality(T \ {x}) = Cardinality(T) - 1 /\ Cardinality(T) \in Nat
  BY <1>1, <1>5, FS_RemoveElement, FS_CardinalityType
<1>7. T \ {x} \in SUBSET S /\ T \ {x} \notin Bad
  BY <1>2, <1>6
<1> QED
  BY <1>4, <1>5, <1>7 DEF Sized

\* Any element may be taken first.
LEMMA TotalPick ==
  ASSUME NEW m, NEW S, IsFiniteSet(S), Sized(m, S), NEW x \in S
  PROVE  Total(m, S) = m.held[x].size + Total(m, S \ {x})
<1> DEFINE Bad == {T \in SUBSET S : \E y \in T : Total(m, T) # m.held[y].size + Total(m, T \ {y})}
<1> SUFFICES ASSUME Bad # {} PROVE FALSE
  OBVIOUS
<1>1. \A T \in Bad : IsFiniteSet(T)
  BY FS_Subset
<1>2. PICK T \in Bad : \A U \in Bad : Cardinality(T) <= Cardinality(U)
  <2> HIDE DEF Bad
  <2> QED
    BY <1>1, Smallest
<1>3. PICK y \in T : Total(m, T) # m.held[y].size + Total(m, T \ {y})
  OBVIOUS
<1> DEFINE c == CHOOSE c \in T : TRUE
<1>4. c \in T /\ Total(m, T) = m.held[c].size + Total(m, T \ {c})
  BY <1>1, TotalChosen
<1> HIDE DEF c
<1>5. c # y
  BY <1>3, <1>4
<1>6. ASSUME NEW z \in T PROVE T \ {z} \in SUBSET S /\ T \ {z} \notin Bad
  <2>1. Cardinality(T \ {z}) = Cardinality(T) - 1 /\ Cardinality(T) \in Nat
    BY <1>1, FS_RemoveElement, FS_CardinalityType
  <2>2. T \ {z} \in SUBSET S
    OBVIOUS
  <2> HIDE DEF Bad
  <2> QED
    BY <1>2, <2>1, <2>2
<1> DEFINE rest == T \ {c, y}
<1>7. (T \ {c}) \ {y} = rest /\ (T \ {y}) \ {c} = rest
  OBVIOUS
<1>8. Total(m, T \ {c}) = m.held[y].size + Total(m, rest)
  BY <1>5, <1>6, <1>4, <1>7
<1>9. Total(m, T \ {y}) = m.held[c].size + Total(m, rest)
  BY <1>5, <1>6, <1>4, <1>7
<1>10. Total(m, rest) \in Nat
  <2>1. IsFiniteSet(rest) /\ Sized(m, rest)
    BY <1>1, FS_Subset DEF Sized
  <2> QED
    BY <2>1, TotalNat
<1>11. m.held[c].size \in Nat /\ m.held[y].size \in Nat
  BY <1>4 DEF Sized
<1> QED
  BY <1>3, <1>4, <1>8, <1>9, <1>10, <1>11

\* The sum depends only on what is held.
LEMMA TotalAgree ==
  ASSUME NEW m, NEW l, NEW S, IsFiniteSet(S), \A k \in S : m.held[k] = l.held[k]
  PROVE  Total(m, S) = Total(l, S)
<1> DEFINE Bad == {T \in SUBSET S : Total(m, T) # Total(l, T)}
<1> SUFFICES ASSUME Bad # {} PROVE FALSE
  OBVIOUS
<1>1. \A T \in Bad : IsFiniteSet(T)
  BY FS_Subset
<1>2. PICK T \in Bad : \A U \in Bad : Cardinality(T) <= Cardinality(U)
  <2> HIDE DEF Bad
  <2> QED
    BY <1>1, Smallest
<1>3. T # {}
  BY TotalEmpty
<1> DEFINE x == CHOOSE x \in T : TRUE
<1>4. /\ Total(m, T) = m.held[x].size + Total(m, T \ {x})
      /\ Total(l, T) = l.held[x].size + Total(l, T \ {x})
  BY <1>1, <1>3, TotalChosen
<1>5. x \in T
  BY <1>3
<1> HIDE DEF x
<1>6. Cardinality(T \ {x}) = Cardinality(T) - 1 /\ Cardinality(T) \in Nat
  BY <1>1, <1>5, FS_RemoveElement, FS_CardinalityType
<1>7. T \ {x} \in SUBSET S /\ T \ {x} \notin Bad
  BY <1>2, <1>6
<1> QED
  BY <1>4, <1>5, <1>7

-----------------------------------------------------------------------------
(* The eviction order. *)

\* Nothing is listed twice.
Once(s) == \A i, j \in 1 .. Len(s) : s[i] = s[j] => i = j

LEMMA MemberAt ==
  ASSUME NEW S, NEW s \in Seq(S), NEW k
  PROVE  k \in ToSet(s) <=> \E i \in 1 .. Len(s) : s[i] = k
BY DEF ToSet

\* The entry that goes is the one there is.
LEMMA RemovedFrom ==
  ASSUME NEW S, NEW s \in Seq(S), Once(s), NEW k
  PROVE  /\ RemoveFirst(s, k) \in Seq(S)
         /\ Once(RemoveFirst(s, k))
         /\ ToSet(RemoveFirst(s, k)) = ToSet(s) \ {k}
<1>1. CASE ~ \E i \in 1 .. Len(s) : s[i] = k
  <2>1. RemoveFirst(s, k) = s
    BY <1>1 DEF RemoveFirst
  <2> QED
    BY <1>1, <2>1, MemberAt
<1>2. CASE \E i \in 1 .. Len(s) : s[i] = k
  <2> DEFINE I == {i \in 1 .. Len(s) : s[i] = k}
  <2>1. PICK n \in I : \A i \in I : i = n
    BY <1>2 DEF Once
  <2>2. Min(I) = n
    <3>1. I = {n}
      BY <2>1
    <3> HIDE DEF I
    <3> QED
      BY <3>1, <2>1 DEF Min
  <2>3. RemoveFirst(s, k) = RemoveAt(s, Min(I))
    BY <1>2 DEF RemoveFirst, SelectInSeq
  <2> DEFINE r == SubSeq(s, 1, n - 1) \o SubSeq(s, n + 1, Len(s))
  <2>4. RemoveFirst(s, k) = r
    BY <2>2, <2>3 DEF RemoveAt
  <2>5. n \in 1 .. Len(s) /\ s[n] = k /\ \A i \in 1 .. Len(s) : s[i] = k => i = n
    BY <2>1
  <2> DEFINE a == SubSeq(s, 1, n - 1)
             b == SubSeq(s, n + 1, Len(s))
  <2>a. a \in Seq(S) /\ Len(a) = n - 1 /\ \A i \in 1 .. n - 1 : a[i] = s[i]
    BY <2>5
  <2>b. b \in Seq(S) /\ Len(b) = Len(s) - n /\ \A i \in 1 .. Len(s) - n : b[i] = s[i + n]
    BY <2>5
  <2>c. r = a \o b
    OBVIOUS
  <2> HIDE DEF a, b, r
  <2>6. r \in Seq(S) /\ Len(r) = Len(s) - 1
    BY <2>5, <2>a, <2>b, <2>c
  <2>7. \A i \in 1 .. Len(r) : r[i] = IF i < n THEN s[i] ELSE s[i + 1]
    <3> SUFFICES ASSUME NEW i \in 1 .. Len(r) PROVE r[i] = IF i < n THEN s[i] ELSE s[i + 1]
      OBVIOUS
    <3>1. CASE i < n
      BY <2>5, <2>6, <2>a, <2>b, <2>c, <3>1
    <3>2. CASE ~(i < n)
      <4>1. i - (n - 1) \in 1 .. Len(s) - n
        BY <2>5, <2>6, <3>2
      <4>2. r[i] = b[i - (n - 1)]
        BY <2>5, <2>6, <2>a, <2>b, <2>c, <3>2
      <4>3. b[i - (n - 1)] = s[(i - (n - 1)) + n] /\ (i - (n - 1)) + n = i + 1
        BY <2>5, <2>b, <4>1
      <4> QED
        BY <3>2, <4>2, <4>3
    <3> QED
      BY <3>1, <3>2
  <2> HIDE DEF I
  <2>8. Once(r)
    BY <2>5, <2>6, <2>7 DEF Once
  <2>9. \A x \in ToSet(r) : x \in ToSet(s) \ {k}
    BY <2>5, <2>6, <2>7, MemberAt
  <2>10. \A x \in ToSet(s) \ {k} : x \in ToSet(r)
    <3> SUFFICES ASSUME NEW i \in 1 .. Len(s), s[i] # k PROVE \E j \in 1 .. Len(r) : r[j] = s[i]
      BY <2>6, MemberAt
    <3>1. i # n
      BY <2>5
    <3>2. CASE i < n
      BY <2>5, <2>6, <2>7, <3>2
    <3>3. CASE i > n
      <4>1. i - 1 \in 1 .. Len(r) /\ r[i - 1] = s[i]
        BY <2>5, <2>6, <2>7, <3>3
      <4> QED
        BY <4>1
    <3> QED
      BY <3>1, <3>2, <3>3, <2>5
  <2> QED
    BY <2>4, <2>6, <2>8, <2>9, <2>10
<1> QED
  BY <1>1, <1>2

LEMMA AppendedTo ==
  ASSUME NEW S, NEW s \in Seq(S), Once(s), NEW k \in S, k \notin ToSet(s)
  PROVE  /\ Append(s, k) \in Seq(S)
         /\ Once(Append(s, k))
         /\ ToSet(Append(s, k)) = ToSet(s) \cup {k}
<1>1. Append(s, k) \in Seq(S)
  OBVIOUS
<1>2. \A i \in 1 .. Len(s) : s[i] # k
  BY MemberAt
<1>3. Once(Append(s, k))
  BY <1>2 DEF Once
<1> DEFINE a == Append(s, k)
<1>4. Len(a) = Len(s) + 1 /\ a[Len(s) + 1] = k /\ \A i \in 1 .. Len(s) : a[i] = s[i]
  OBVIOUS
<1>5. \A x : x \in ToSet(a) <=> \E i \in 1 .. Len(a) : a[i] = x
  BY <1>1, MemberAt, Zenon
<1>6. \A x : x \in ToSet(s) <=> \E i \in 1 .. Len(s) : s[i] = x
  BY MemberAt, Zenon
<1> HIDE DEF a
<1>7. \A x : x \in ToSet(a) <=> x \in ToSet(s) \/ x = k
  <2> SUFFICES ASSUME NEW x
               PROVE  (\E i \in 1 .. Len(a) : a[i] = x) <=> (\E i \in 1 .. Len(s) : s[i] = x) \/ x = k
    BY <1>5, <1>6
  <2>1. Len(s) \in Nat /\ \A i \in 1 .. Len(a) : i \in 1 .. Len(s) \/ i = Len(s) + 1
    BY <1>4
  <2> QED
    BY <1>4, <2>1
<1> QED
  BY <1>1, <1>3, <1>7 DEF a

\* An order without repetitions is as long as what it lists.
LEMMA OrderLong ==
  ASSUME NEW S, NEW s \in Seq(S), Once(s)
  PROVE  IsFiniteSet(ToSet(s)) /\ Cardinality(ToSet(s)) = Len(s)
<1> DEFINE D == 1 .. Len(s)
<1>1. IsFiniteSet(D) /\ Cardinality(D) = Len(s)
  <2>1. Len(s) \in Nat /\ Len(s) - 1 + 1 = Len(s) /\ (1 > Len(s) => Len(s) = 0)
    OBVIOUS
  <2>2. IsFiniteSet(D) /\ Cardinality(D) = IF 1 > Len(s) THEN 0 ELSE Len(s) - 1 + 1
    BY <2>1, FS_Interval
  <2> QED
    BY <2>1, <2>2
<1>2. s \in Bijection(D, ToSet(s))
  <2>1. DOMAIN s = D /\ s \in [D -> S]
    OBVIOUS
  <2>2. s \in [D -> ToSet(s)] /\ \A t \in ToSet(s) : \E i \in D : s[i] = t
    BY <2>1 DEF ToSet
  <2> QED
    BY <2>2 DEF Once, Bijection, Injection, Surjection, IsInjective
<1>3. ExistsBijection(D, ToSet(s))
  BY <1>2 DEF ExistsBijection
<1> QED
  BY <1>1, <1>3, FS_Bijection

-----------------------------------------------------------------------------
(* One memory. *)

\* The order lists what is held, once, and the count is its size.
Exact(m) ==
  /\ m \in Memory
  /\ Once(m.order)
  /\ ToSet(m.order) = Held(m)
  /\ m.bytes = Total(m, Held(m))

Within(m) == Exact(m) /\ m.bytes <= MaxBytes

\* What is held of l is held of m, except for key k.
Fewer(l, m, k) == \A j \in Keys \ {k} : l.held[j] \in {m.held[j], None}

LEMMA ExactCounts ==
  ASSUME NEW m, Exact(m)
  PROVE  /\ IsFiniteSet(Held(m)) /\ Cardinality(Held(m)) = Len(m.order)
         /\ Sized(m, Held(m))
         /\ m.bytes \in Nat
<1>1. IsFiniteSet(Held(m)) /\ Cardinality(Held(m)) = Len(m.order)
  BY OrderLong DEF Exact, Memory
<1>2. Sized(m, Held(m))
  BY StateConstants DEF Exact, Memory, Held, Sized, Value
<1>3. m.bytes \in Nat
  BY <1>1, <1>2, TotalNat DEF Exact
<1> QED
  BY <1>1, <1>2, <1>3

LEMMA EmptyWithin == Within(Empty)
<1>1. Empty \in Memory
  BY DEF Empty, Memory
<1>2. Held(Empty) = {}
  BY DEF Empty, Held
<1>3. ToSet(Empty.order) = {} /\ Once(Empty.order)
  BY DEF Empty, ToSet, Once
<1>4. Empty.bytes = 0
  BY DEF Empty
<1> QED
  BY <1>1, <1>2, <1>3, <1>4, TotalEmpty, StateConstants DEF Exact, Within

\* remove takes off what it should.
LEMMA WithoutExact ==
  ASSUME NEW m, Exact(m), NEW k \in Keys
  PROVE  /\ Exact(Without(m, k))
         /\ Held(Without(m, k)) = Held(m) \ {k}
         /\ Without(m, k).bytes <= m.bytes
         /\ Fewer(Without(m, k), m, k)
<1> DEFINE l == Without(m, k)
<1>1. /\ l.order = RemoveFirst(m.order, k)
      /\ l.held = [m.held EXCEPT ![k] = None]
      /\ l.bytes = IF k \in Held(m) THEN m.bytes - m.held[k].size ELSE m.bytes
      /\ l = [order |-> l.order, held |-> l.held, bytes |-> l.bytes, stale |-> m.stale \ {k}]
  BY DEF Without
<1> HIDE DEF l
<1>2. m.order \in Seq(Keys) /\ Once(m.order) /\ ToSet(m.order) = Held(m)
  BY DEF Exact, Memory
<1>3. l.order \in Seq(Keys) /\ Once(l.order) /\ ToSet(l.order) = Held(m) \ {k}
  BY <1>1, <1>2, RemovedFrom
<1>4. m.held \in [Keys -> Value \cup {None}] /\ m.stale \in SUBSET Keys
  BY DEF Exact, Memory
<1>5. l.held \in [Keys -> Value \cup {None}] /\ l.held[k] = None
      /\ \A j \in Keys \ {k} : l.held[j] = m.held[j]
  BY <1>1, <1>4
<1>6. Held(l) = Held(m) \ {k}
  BY <1>5 DEF Held
<1>7. IsFiniteSet(Held(m)) /\ Sized(m, Held(m)) /\ m.bytes \in Nat
  BY ExactCounts
<1>8. IsFiniteSet(Held(l)) /\ \A j \in Held(l) : l.held[j] = m.held[j]
  BY <1>5, <1>6, <1>7, FS_Subset DEF Held
<1>9. Total(l, Held(l)) = Total(m, Held(l))
  BY <1>8, TotalAgree
<1>10. l.bytes = Total(m, Held(l)) /\ l.bytes <= m.bytes /\ l.bytes \in Int
  <2>1. CASE k \in Held(m)
    <3>1. Total(m, Held(m)) = m.held[k].size + Total(m, Held(l))
      BY <2>1, <1>6, <1>7, TotalPick
    <3>2. Total(m, Held(l)) \in Nat /\ m.held[k].size \in Nat
      BY <1>6, <1>7, <1>8, <2>1, TotalNat DEF Sized
    <3> QED
      BY <1>1, <2>1, <3>1, <3>2 DEF Exact
  <2>2. CASE k \notin Held(m)
    <3>1. Held(l) = Held(m)
      BY <1>6, <2>2
    <3> QED
      BY <1>1, <1>7, <2>2, <3>1 DEF Exact
  <2> QED
    BY <2>1, <2>2
<1>11. l \in Memory
  BY <1>1, <1>3, <1>4, <1>5, <1>10 DEF Memory
<1>12. Exact(l)
  BY <1>3, <1>6, <1>9, <1>10, <1>11 DEF Exact
<1> QED
  BY <1>12, <1>6, <1>10, <1>5 DEF Fewer, l

\* A key not held is added at the end of the order, with its size.
LEMMA AddedExact ==
  ASSUME NEW m, Exact(m), NEW k \in Keys \ Held(m), NEW v \in Value
  PROVE  /\ Exact(Added(m, k, v))
         /\ Added(m, k, v).bytes = m.bytes + v.size
         /\ Added(m, k, v).held[k] = v
         /\ Fewer(Added(m, k, v), m, k)
<1> DEFINE l == Added(m, k, v)
<1>1. /\ l.order = Append(m.order, k)
      /\ l.held = [m.held EXCEPT ![k] = v]
      /\ l.bytes = m.bytes + v.size
      /\ l = [order |-> l.order, held |-> l.held, bytes |-> l.bytes, stale |-> m.stale \ {k}]
  BY DEF Added
<1> HIDE DEF l
<1>2. m.order \in Seq(Keys) /\ Once(m.order) /\ ToSet(m.order) = Held(m)
  BY DEF Exact, Memory
<1>3. l.order \in Seq(Keys) /\ Once(l.order) /\ ToSet(l.order) = Held(m) \cup {k}
  BY <1>1, <1>2, AppendedTo
<1>4. m.held \in [Keys -> Value \cup {None}] /\ m.stale \in SUBSET Keys
  BY DEF Exact, Memory
<1>5. l.held \in [Keys -> Value \cup {None}] /\ l.held[k] = v
      /\ \A j \in Keys \ {k} : l.held[j] = m.held[j]
  BY <1>1, <1>4
<1>6. v # None /\ v.size \in Nat
  BY StateConstants DEF Value
<1>7. Held(l) = Held(m) \cup {k}
  BY <1>5, <1>6 DEF Held
<1>8. IsFiniteSet(Held(m)) /\ Sized(m, Held(m)) /\ m.bytes \in Nat
  BY ExactCounts
<1>9. IsFiniteSet(Held(l)) /\ Sized(l, Held(l))
  <2>1. IsFiniteSet(Held(l))
    BY <1>7, <1>8, FS_AddElement
  <2> QED
    <3> SUFFICES ASSUME NEW j \in Held(m) \cup {k} PROVE l.held[j].size \in Nat
      BY <2>1, <1>7 DEF Sized
    <3>1. CASE j = k
      BY <3>1, <1>5, <1>6
    <3>2. CASE j \in Held(m)
      <4>1. j \in Keys \ {k}
        BY <3>2 DEF Held
      <4> QED
        BY <4>1, <3>2, <1>5, <1>8 DEF Sized
    <3> QED
      BY <3>1, <3>2
<1>10. Total(l, Held(m)) = Total(m, Held(m))
  BY <1>5, <1>8, TotalAgree DEF Held
<1>11. Total(l, Held(l)) = v.size + Total(l, Held(m))
  <2>1. Held(l) \ {k} = Held(m) /\ k \in Held(l)
    BY <1>7
  <2> QED
    BY <2>1, <1>5, <1>9, TotalPick
<1>12. l.bytes = Total(l, Held(l)) /\ l.bytes \in Int
  BY <1>1, <1>6, <1>8, <1>10, <1>11 DEF Exact
<1>13. l \in Memory
  <2>1. m.stale \ {k} \in SUBSET Keys
    BY <1>4
  <2>2. l.order \in Seq(Keys) /\ l.held \in [Keys -> Value \cup {None}] /\ l.bytes \in Int
    BY <1>3, <1>5, <1>12
  <2>3. [order |-> l.order, held |-> l.held, bytes |-> l.bytes, stale |-> m.stale \ {k}] \in Memory
    BY <2>1, <2>2 DEF Memory
  <2> QED
    BY <1>1, <2>3, Zenon
<1>14. Exact(l)
  BY <1>3, <1>7, <1>12, <1>13 DEF Exact
<1> QED
  BY <1>14, <1>1, <1>5 DEF Fewer, l

-----------------------------------------------------------------------------
(* The loop of setMemory. *)

Round(l, b) == IF l.bytes + b <= MaxBytes THEN l ELSE Without(l, Head(l.order))

LoopStep(m, b, g, n) == IF n = 0 THEN m ELSE Round(g[n - 1], b)

\* The rounds of the loop are a function, so that Evicted is its last one.
LEMMA LoopExists ==
  ASSUME NEW m, NEW b, NEW N \in Nat
  PROVE  \E g : g = [n \in 0 .. N |-> LoopStep(m, b, g, n)]
<1> DEFINE Good(k) == \E g : g = [n \in 0 .. k |-> LoopStep(m, b, g, n)]
<1> SUFFICES ASSUME {n \in Nat : ~Good(n)} # {} PROVE FALSE
  OBVIOUS
<1>1. PICK k \in {n \in Nat : ~Good(n)} : \A n \in {n \in Nat : ~Good(n)} : k <= n
  BY Least
<1>2. CASE k = 0
  <2> DEFINE g == [n \in 0 .. 0 |-> m]
  <2>1. g = [n \in 0 .. 0 |-> LoopStep(m, b, g, n)]
    BY DEF LoopStep
  <2> QED
    BY <1>1, <1>2, <2>1
<1>3. CASE k # 0
  <2>1. k - 1 \in Nat /\ Good(k - 1)
    <3> HIDE DEF Good
    <3> QED
      BY <1>1, <1>3
  <2>2. PICK g : g = [n \in 0 .. k - 1 |-> LoopStep(m, b, g, n)]
    BY <2>1
  <2> DEFINE more == [n \in 0 .. k |-> LoopStep(m, b, g, n)]
  <2>3. \A n \in 0 .. k : LoopStep(m, b, more, n) = LoopStep(m, b, g, n)
    <3> SUFFICES ASSUME NEW n \in 0 .. k PROVE LoopStep(m, b, more, n) = LoopStep(m, b, g, n)
      OBVIOUS
    <3>1. CASE n = 0
      BY <3>1 DEF LoopStep
    <3>2. CASE n # 0
      <4>1. n - 1 \in 0 .. k - 1 /\ n - 1 \in 0 .. k
        BY <1>1, <3>2
      <4>2. g[n - 1] = LoopStep(m, b, g, n - 1)
        BY <2>2, <4>1
      <4>3. more[n - 1] = g[n - 1]
        BY <4>1, <4>2
      <4> HIDE DEF more
      <4> QED
        BY <3>2, <4>3 DEF LoopStep
    <3> QED
      BY <3>1, <3>2
  <2>4. more = [n \in 0 .. k |-> LoopStep(m, b, more, n)]
    BY <2>3
  <2> QED
    BY <1>1, <2>4
<1> QED
  BY <1>2, <1>3

LEMMA EvictedIs ==
  ASSUME NEW m, NEW b, Len(m.order) \in Nat
  PROVE  \E g : /\ Evicted(m, b) = g[Len(m.order)]
                /\ \A n \in 0 .. Len(m.order) : g[n] = LoopStep(m, b, g, n)
<1> DEFINE g == CHOOSE g : g = [n \in 0 .. Len(m.order) |-> LoopStep(m, b, g, n)]
<1>1. g = [n \in 0 .. Len(m.order) |-> LoopStep(m, b, g, n)]
  BY LoopExists, Zenon
<1>2. Evicted(m, b) = g[Len(m.order)]
  BY Zenon DEF Evicted, LoopStep, Round
<1> HIDE DEF g
<1> QED
  BY <1>1, <1>2

\* After n rounds: exact, only entries gone, and either b fits or n are gone.
Evicting(l, m, b, n) ==
  /\ Exact(l)
  /\ \A j \in Keys : l.held[j] \in {m.held[j], None}
  /\ l.bytes + b <= MaxBytes \/ Len(l.order) = Len(m.order) - n

LEMMA EvictingStep ==
  ASSUME NEW m, Exact(m), NEW b \in Nat, NEW n \in 1 .. Len(m.order), NEW l, Evicting(l, m, b, n - 1)
  PROVE  Evicting(Round(l, b), m, b, n)
<1>1. CASE l.bytes + b <= MaxBytes
  BY <1>1 DEF Evicting, Round
<1>2. CASE ~(l.bytes + b <= MaxBytes)
  <2> DEFINE k == Head(l.order)
             w == Without(l, k)
  <2>1. Len(l.order) = Len(m.order) - (n - 1) /\ Len(m.order) \in Nat /\ l.order \in Seq(Keys) /\ Exact(l)
    BY <1>2 DEF Evicting, Exact, Memory
  <2>2. k \in Keys /\ k = l.order[1] /\ 1 \in 1 .. Len(l.order)
    BY <2>1
  <2>3. k \in Held(l)
    BY <2>1, <2>2, MemberAt DEF Exact
  <2> HIDE DEF k
  <2>4. Exact(w) /\ Held(w) = Held(l) \ {k} /\ Fewer(w, l, k) /\ w.held[k] = None
    <3>1. w.held[k] = None
      BY <2>1, <2>2 DEF Without, Exact, Memory
    <3> QED
      BY <3>1, <2>1, <2>2, WithoutExact
  <2> HIDE DEF w
  <2>5. Len(w.order) = Len(l.order) - 1
    <3>1. Cardinality(Held(w)) = Cardinality(Held(l)) - 1
      BY <2>1, <2>3, <2>4, ExactCounts, FS_RemoveElement
    <3> QED
      BY <3>1, <2>1, <2>4, ExactCounts
  <2>6. \A j \in Keys : w.held[j] \in {m.held[j], None}
    <3>1. \A j \in Keys : w.held[j] \in {l.held[j], None}
      BY <2>4 DEF Fewer
    <3> QED
      BY <3>1 DEF Evicting
  <2>7. Len(w.order) = Len(m.order) - n
    BY <2>1, <2>5
  <2>8. Round(l, b) = w
    BY <1>2 DEF Round, w, k
  <2> QED
    BY <2>4, <2>6, <2>7, <2>8 DEF Evicting
<1> QED
  BY <1>1, <1>2

\* An eviction ends with room for b: if not before, when all is gone.
LEMMA EvictedExact ==
  ASSUME NEW m, Exact(m), NEW b \in Nat, b <= MaxBytes
  PROVE  /\ Exact(Evicted(m, b))
         /\ Evicted(m, b).bytes + b <= MaxBytes
         /\ \A j \in Keys : Evicted(m, b).held[j] \in {m.held[j], None}
<1> DEFINE N == Len(m.order)
<1>1. N \in Nat
  BY DEF Exact, Memory
<1>2. PICK g : Evicted(m, b) = g[N] /\ \A n \in 0 .. N : g[n] = LoopStep(m, b, g, n)
  BY <1>1, EvictedIs
<1>3. Evicting(g[N], m, b, N)
  <2> DEFINE Bad == {n \in 0 .. N : ~Evicting(g[n], m, b, n)}
  <2> SUFFICES ASSUME Bad # {} PROVE FALSE
    BY <1>1
  <2>1. PICK n \in Bad : \A i \in Bad : n <= i
    <3>1. Bad \in SUBSET Nat
      BY <1>1
    <3> HIDE DEF Bad
    <3> QED
      BY <3>1, Least
  <2>2. n \in 0 .. N /\ ~Evicting(g[n], m, b, n)
    BY <2>1
  <2>3. CASE n = 0
    <3>1. g[0] = m
      BY <1>1, <1>2 DEF LoopStep
    <3> QED
      BY <1>1, <2>2, <2>3, <3>1 DEF Evicting
  <2>4. CASE n # 0
    <3>1. n \in 1 .. N /\ n - 1 \in 0 .. N
      BY <1>1, <2>2, <2>4
    <3>2. Evicting(g[n - 1], m, b, n - 1)
      BY <2>1, <3>1
    <3>3. g[n] = Round(g[n - 1], b)
      BY <1>2, <2>2, <2>4 DEF LoopStep
    <3> QED
      BY <2>2, <3>1, <3>2, <3>3, EvictingStep
  <2> QED
    BY <2>3, <2>4
<1> DEFINE l == Evicted(m, b)
<1>4. Evicting(l, m, b, N)
  BY <1>2, <1>3
<1> HIDE DEF l
<1>5. l.bytes + b <= MaxBytes
  <2>1. CASE ~(l.bytes + b <= MaxBytes)
    <3>1. Exact(l) /\ Len(l.order) = 0
      BY <1>1, <1>4, <2>1 DEF Evicting
    <3>2. Held(l) = {}
      BY <3>1 DEF Exact, Memory, ToSet
    <3>3. l.bytes = 0
      BY <3>1, <3>2, TotalEmpty DEF Exact
    <3> QED
      BY <3>3, StateConstants
  <2> QED
    BY <2>1
<1> QED
  BY <1>4, <1>5 DEF Evicting, l

\* What setMemory leaves.
LEMMA StoredWithin ==
  ASSUME NEW m, Within(m), NEW k \in Keys, NEW v \in Value
  PROVE  /\ Within(Stored(m, k, v))
         /\ Fewer(Stored(m, k, v), m, k)
         /\ v.size <= MaxBytes => Stored(m, k, v).held[k] = v
<1>0. v.size \in Nat /\ MaxBytes \in Nat
  BY StateConstants DEF Value
<1>1. CASE v.size > MaxBytes
  BY <1>0, <1>1 DEF Stored, Fewer
<1>2. CASE v.size <= MaxBytes
  <2> DEFINE w == Without(m, k)
             e == Evicted(w, v.size)
             l == Added(e, k, v)
  <2>1. Stored(m, k, v) = l
    BY <1>0, <1>2 DEF Stored
  <2>2. Exact(w) /\ Held(w) = Held(m) \ {k} /\ Fewer(w, m, k)
    BY WithoutExact DEF Within
  <2> HIDE DEF w
  <2>3. Exact(e) /\ e.bytes + v.size <= MaxBytes /\ \A j \in Keys : e.held[j] \in {w.held[j], None}
    BY <1>0, <1>2, <2>2, EvictedExact
  <2> HIDE DEF e
  <2>4. k \in Keys \ Held(e)
    BY <2>2, <2>3 DEF Held
  <2>5. Exact(l) /\ l.bytes = e.bytes + v.size /\ l.held[k] = v /\ Fewer(l, e, k)
    BY <2>3, <2>4, AddedExact
  <2> HIDE DEF l
  <2>6. Fewer(l, m, k)
    BY <2>2, <2>3, <2>5 DEF Fewer
  <2> QED
    BY <2>1, <2>3, <2>5, <2>6 DEF Within
<1> QED
  BY <1>0, <1>1, <1>2

-----------------------------------------------------------------------------
(* The steps. *)

RecordsOK == records \in [Durable -> Whole \cup {None}]

StoreInv == Within(mem) /\ RecordsOK

LEMMA CompactIsValue ==
  ASSUME NEW v \in Value
  PROVE  Compact(v) \in Value
<1>1. Sizes \in SUBSET Nat /\ Sizes # {}
  BY StateConstants DEF Value
<1>2. \E s \in Sizes : \A t \in Sizes : s <= t
  BY <1>1, Least
<1>3. Min(Sizes) \in Sizes
  BY <1>2 DEF Min
<1> QED
  BY <1>3 DEF Compact, Value

\* A key not held is loaded from the archive, if it is there and fits.
LEMMA LoadedWithin ==
  ASSUME RecordsOK, NEW m, Within(m), NEW k \in Keys, m.held[k] = None
  PROVE  /\ Within(Loaded(m, k))
         /\ Fewer(Loaded(m, k), m, k)
         /\ \/ Loaded(m, k).held[k] = None
            \/ k \in Durable /\ Loaded(m, k).held[k] = records[k]
<1>1. CASE k \notin Durable \/ records[k] = None
  BY <1>1 DEF Loaded, Fewer
<1>2. CASE ~(k \notin Durable \/ records[k] = None)
  <2>1. Loaded(m, k) = Stored(m, k, records[k])
    BY <1>2 DEF Loaded
  <2>2. records[k] \in Value
    BY <1>2 DEF RecordsOK, Whole
  <2>3. CASE records[k].size <= MaxBytes
    BY <1>2, <2>1, <2>2, <2>3, StoredWithin
  <2>4. CASE records[k].size > MaxBytes
    <3>1. Loaded(m, k) = m
      BY <2>1, <2>4 DEF Stored
    <3> QED
      BY <3>1 DEF Fewer
  <2>5. records[k].size \in Nat /\ MaxBytes \in Nat
    BY <2>2, StateConstants DEF Value
  <2> QED
    BY <2>3, <2>4, <2>5
<1> QED
  BY <1>1, <1>2

\* get: a moved entry, a dropped one, or one loaded from the archive.
LEMMA TouchedWithin ==
  ASSUME StoreInv, NEW k \in Keys
  PROVE  /\ Within(Touched(mem, k))
         /\ Fewer(Touched(mem, k), mem, k)
         /\ \/ Touched(mem, k).held[k] \in {mem.held[k], None}
            \/ k \in Durable /\ Touched(mem, k).held[k] = records[k]
<1>1. CASE mem.held[k] # None /\ k \notin mem.stale
  <2> DEFINE r == RemoveFirst(mem.order, k)
             l == [mem EXCEPT !.order = Append(r, k)]
  <2>1. Touched(mem, k) = l
    BY <1>1 DEF Touched
  <2>2. mem \in Memory /\ Once(mem.order) /\ ToSet(mem.order) = Held(mem) /\ mem.order \in Seq(Keys)
    BY DEF StoreInv, Within, Exact, Memory
  <2>3. r \in Seq(Keys) /\ Once(r) /\ ToSet(r) = Held(mem) \ {k}
    BY <2>2, RemovedFrom
  <2> HIDE DEF r
  <2>4. Append(r, k) \in Seq(Keys) /\ Once(Append(r, k)) /\ ToSet(Append(r, k)) = Held(mem)
    <3>1. ToSet(Append(r, k)) = (Held(mem) \ {k}) \cup {k}
      BY <2>3, AppendedTo
    <3>2. k \in Held(mem)
      BY <1>1 DEF Held
    <3> QED
      BY <2>3, <3>1, <3>2, AppendedTo
  <2>5. l.order = Append(r, k) /\ l.held = mem.held /\ l.bytes = mem.bytes /\ l \in Memory
    BY <2>2, <2>4 DEF Memory
  <2> HIDE DEF l
  <2>6. Held(l) = Held(mem) /\ Total(l, Held(l)) = Total(mem, Held(mem))
    <3>1. Held(l) = Held(mem)
      BY <2>5 DEF Held
    <3>2. IsFiniteSet(Held(mem))
      BY ExactCounts DEF StoreInv, Within
    <3>3. Total(l, Held(mem)) = Total(mem, Held(mem))
      BY <2>5, <3>2, TotalAgree
    <3> QED
      BY <3>1, <3>3
  <2> QED
    BY <2>1, <2>4, <2>5, <2>6 DEF StoreInv, Within, Exact, Fewer
<1>2. CASE ~(mem.held[k] # None /\ k \notin mem.stale)
  <2> DEFINE w == Without(mem, k)
             l == Loaded(w, k)
  <2>1. Touched(mem, k) = l
    BY <1>2 DEF Touched
  <2>2. Within(w) /\ Fewer(w, mem, k) /\ w.held[k] = None
    <3>1. Exact(mem) /\ mem.bytes <= MaxBytes /\ mem.bytes \in Nat
      BY ExactCounts DEF StoreInv, Within
    <3>2. Exact(w) /\ w.bytes <= mem.bytes /\ Fewer(w, mem, k)
      BY <3>1, WithoutExact
    <3>3. w.held[k] = None
      BY <3>1 DEF Without, Exact, Memory
    <3> HIDE DEF w
    <3>4. w.bytes \in Nat
      BY <3>2, ExactCounts
    <3> QED
      BY <3>1, <3>2, <3>3, <3>4, StateConstants DEF Within
  <2> HIDE DEF w
  <2>3. /\ Within(l) /\ Fewer(l, w, k)
        /\ l.held[k] = None \/ (k \in Durable /\ l.held[k] = records[k])
    BY <2>2, LoadedWithin DEF StoreInv
  <2> HIDE DEF l
  <2> QED
    BY <2>1, <2>2, <2>3 DEF Fewer
<1> QED
  BY <1>1, <1>2

\* Every step keeps the count exact and within the limit.
LEMMA StoreKeeps ==
  ASSUME StoreInv, [StateNext]_stateVars
  PROVE  StoreInv'
<1> USE DEF StoreInv
<1>1. CASE UNCHANGED stateVars
  <2>1. mem' = mem /\ Within(mem') /\ records' = records
    BY <1>1 DEF stateVars
  <2> QED
    BY <2>1 DEF RecordsOK, Within
<1>2. ASSUME NEW k \in Keys, Get(k)
      PROVE  StoreInv'
  <2>1. Within(mem') /\ records' = records
    BY <1>2, TouchedWithin DEF Get
  <2> QED
    BY <2>1 DEF RecordsOK, Within
<1>3. ASSUME NEW k \in Keys, Clear(k)
      PROVE  StoreInv'
  <2>1. /\ Exact(mem') /\ mem'.bytes <= mem.bytes /\ records' = records
        /\ mem.bytes \in Nat /\ mem'.bytes \in Nat
    BY <1>3, WithoutExact, ExactCounts DEF Clear, Within
  <2> QED
    BY <2>1, StateConstants DEF RecordsOK, Within
<1>4. ASSUME NEW k \in Keys, Age(k)
      PROVE  StoreInv'
  <2>1. mem \in Memory /\ mem' = [mem EXCEPT !.stale = @ \cup {k}] /\ records' = records
    BY <1>4 DEF Age, Within, Exact
  <2>2. mem'.order = mem.order /\ mem'.held = mem.held /\ mem'.bytes = mem.bytes /\ mem' \in Memory
    BY <2>1 DEF Memory
  <2>3. Held(mem') = Held(mem) /\ IsFiniteSet(Held(mem))
    BY <2>2, ExactCounts DEF Held, Within
  <2>4. Total(mem', Held(mem)) = Total(mem, Held(mem))
    BY <2>2, <2>3, TotalAgree
  <2> QED
    BY <2>1, <2>2, <2>3, <2>4 DEF RecordsOK, Within, Exact
<1>5. ASSUME NEW k \in Keys, NEW v \in Whole,
             SetDurable(k, v) \/ SetVolatile(k, v) \/ Save(k, v) \/ SaveCheckpoint(k, v)
      PROVE  StoreInv'
  <2>1. v \in Value /\ Compact(v) \in Value
    BY CompactIsValue DEF Whole
  <2>2. Within(mem')
    <3>1. Within(Stored(mem, k, v)) /\ Within(Touched(mem, k))
      BY <2>1, StoredWithin, TouchedWithin
    <3>2. Within(Stored(Stored(mem, k, Compact(v)), k, v))
      BY <2>1, StoredWithin
    <3> QED
      BY <1>5, <3>1, <3>2 DEF SetDurable, SetVolatile, Save, SaveCheckpoint
  <2>3. records' = records \/ records' = [records EXCEPT ![k] = v]
    BY <1>5 DEF SetDurable, SetVolatile, Save, SaveCheckpoint
  <2> QED
    BY <2>2, <2>3 DEF RecordsOK, Within
<1>6. CASE Restart
  <2>1. Within(mem') /\ records' = records
    BY <1>6, EmptyWithin DEF Restart
  <2> QED
    BY <2>1 DEF RecordsOK, Within
<1>7. QED
  BY <1>1, <1>2, <1>3, <1>4, <1>5, <1>6 DEF StateNext

LEMMA StoreInitInv == StateInit => StoreInv
<1> SUFFICES ASSUME StateInit PROVE StoreInv
  OBVIOUS
<1>1. mem = Empty /\ records = [k \in Durable |-> None]
  BY DEF StateInit
<1> QED
  BY <1>1, EmptyWithin DEF StoreInv, RecordsOK

\* The running byte count that decides evictions is the size of what is held,
\* within the limit, and the eviction order lists every held key once: for any
\* keys, sizes and limit.
THEOREM BytesAreExact == StateSpec => []BytesExact
<1>1. StoreInv => BytesExact
  BY ExactCounts DEF StoreInv, RecordsOK, Within, Exact, BytesExact, StateTypeOK, Total
<1> QED
  BY <1>1, StoreInitInv, StoreKeeps, PTL DEF StateSpec

\* Of one key memory and the archive are given the same value; the other
\* entries stay or go.
LEMMA Agrees ==
  ASSUME Rebuildable, NEW k \in Keys, Fewer(mem', mem, k),
         \A j \in Durable \ {k} : records'[j] = records[j],
         k \in Durable => mem'.held[k] \in {records'[k], None}
  PROVE  Rebuildable'
BY StateConstants DEF Rebuildable, Fewer

LEMMA StepAgrees ==
  ASSUME \A s \in Sizes : s <= MaxBytes, StoreInv, Rebuildable, [StateNext]_stateVars
  PROVE  Rebuildable'
<1>1. CASE UNCHANGED stateVars
  BY <1>1 DEF stateVars, Rebuildable
<1>2. ASSUME NEW k \in Keys, mem' = Touched(mem, k), UNCHANGED records
      PROVE  Rebuildable'
  <2>1. /\ Fewer(mem', mem, k)
        /\ mem'.held[k] \in {mem.held[k], None} \/ (k \in Durable /\ mem'.held[k] = records[k])
    BY <1>2, TouchedWithin
  <2>2. k \in Durable => mem'.held[k] \in {records'[k], None}
    BY <1>2, <2>1 DEF Rebuildable
  <2> QED
    BY <1>2, <2>1, <2>2, Agrees
<1>3. ASSUME NEW k \in Keys, Clear(k)
      PROVE  Rebuildable'
  <2>1. mem' = Without(mem, k) /\ records' = records /\ Exact(mem)
    BY <1>3 DEF Clear, StoreInv, Within
  <2>2. Fewer(mem', mem, k) /\ mem'.held[k] = None
    BY <2>1, WithoutExact DEF Without, Exact, Memory
  <2> QED
    BY <2>1, <2>2, Agrees
<1>4. ASSUME NEW k \in Keys, Age(k)
      PROVE  Rebuildable'
  <2>1. mem'.held = mem.held /\ records' = records
    BY <1>4 DEF Age, StoreInv, Within, Exact, Memory
  <2> QED
    BY <2>1 DEF Rebuildable
<1>5. ASSUME NEW k \in Keys, NEW v \in Value, NEW m, Within(m), Fewer(m, mem, k), mem' = Stored(m, k, v),
             \/ k \in Durable /\ records' = [records EXCEPT ![k] = v]
             \/ k \notin Durable /\ UNCHANGED records
      PROVE  Rebuildable'
  <2>1. v.size <= MaxBytes
    BY DEF Value
  <2>2. Fewer(mem', m, k) /\ mem'.held[k] = v
    BY <1>5, <2>1, StoredWithin
  <2>3. Fewer(mem', mem, k)
    BY <1>5, <2>2 DEF Fewer
  <2>4. \A j \in Durable \ {k} : records'[j] = records[j]
    BY <1>5 DEF StoreInv, RecordsOK
  <2>5. k \in Durable => records'[k] = v
    BY <1>5 DEF StoreInv, RecordsOK
  <2> QED
    BY <2>2, <2>3, <2>4, <2>5, Agrees
<1>6. ASSUME NEW k \in Keys, NEW v \in Whole,
             SetDurable(k, v) \/ SetVolatile(k, v) \/ Save(k, v) \/ SaveCheckpoint(k, v)
      PROVE  Rebuildable'
  <2>1. v \in Value /\ Compact(v) \in Value /\ Within(mem) /\ Fewer(mem, mem, k)
    BY CompactIsValue DEF Whole, StoreInv, Fewer
  <2>2. CASE SetDurable(k, v) \/ SetVolatile(k, v)
    BY <1>5, <2>1, <2>2 DEF SetDurable, SetVolatile
  <2>3. CASE Save(k, v)
    BY <1>2, <1>5, <2>1, <2>3, StateConstants DEF Save
  <2>4. CASE SaveCheckpoint(k, v)
    <3> DEFINE m == Stored(mem, k, Compact(v))
    <3>1. Within(m) /\ Fewer(m, mem, k)
      BY <2>1, StoredWithin
    <3>2. k \in Durable /\ records' = [records EXCEPT ![k] = v] /\ mem' = Stored(m, k, v)
      BY <2>4, StateConstants DEF SaveCheckpoint
    <3> HIDE DEF m
    <3> QED
      BY <1>5, <2>1, <3>1, <3>2
  <2> QED
    BY <1>6, <2>2, <2>3, <2>4
<1>7. CASE Restart
  BY <1>7, StateConstants DEF Restart, Empty, Rebuildable
<1> QED
  BY <1>1, <1>2, <1>3, <1>4, <1>6, <1>7 DEF StateNext, Get

\* When no value is larger than the limit, memory answers for every persisted
\* key what the archive would: StateStore can be rebuilt at any time.
THEOREM MemoryAgrees ==
  ASSUME \A s \in Sizes : s <= MaxBytes
  PROVE  StateSpec => []Rebuildable
<1>1. StateInit => Rebuildable
  BY StateConstants DEF StateInit, Empty, Rebuildable
<1>2. StoreInv /\ Rebuildable /\ [StateNext]_stateVars => StoreInv' /\ Rebuildable'
  BY StoreKeeps, StepAgrees
<1> QED
  BY <1>1, <1>2, StoreInitInv, PTL DEF StateSpec

-----------------------------------------------------------------------------
(* The summaries. *)

\* A request that shares a call has said what it wants, and a call that is made is
\* the one its key notes.
Wants ==
  /\ wants \in [Caller -> Wish \cup {NoOne}]
  /\ \A r \in Caller : phase[r] \in {"asking", "waiting"} => wants[r] \in Wish
Runs == \A k \in Key : flight[k] # NoOne => job[k] = "running"

\* A key that nobody asks for, and that has no summary, has failed as often as it
\* was asked for.
Spent ==
  \A k \in Key : flight[k] = NoOne /\ job[k] # "completed" => asked[k] <= trouble[k]
Fresh == image = "none" => described = 0

SummaryInv == AskedOnce /\ MadeIsKept /\ Wants /\ Runs /\ Spent /\ Fresh

LEMMA KeyIsKey == ASSUME NEW w \in Wish PROVE KeyOf(w) \in Key /\ Covered(w) \in 0..MaxTail
BY SummaryConstants DEF Wish, KeyOf, Key, Covered

\* What a request that wants w notes in the checkpoint is well formed.  One that
\* notes a summary it has names the key of the summary, or leaves what is there.
LEMMA WrittenIsMigration ==
  ASSUME NEW w \in Wish, NEW s \in {"completed", "failed", "uncertain"},
         migration \in Migration \cup {NoOne}
  PROVE  /\ Written(w, s) \in Migration \cup {NoOne}
         /\ \/ Written(w, s) = migration
            \/ Written(w, s).status = s /\ <<Written(w, s).to, Written(w, s).covers>> = KeyOf(w)
            \/ s # "completed" /\ Written(w, s).status # "completed"
<1> DEFINE note == [to |-> w.to, covers |-> IF s = "completed" THEN Covered(w) ELSE 0, status |-> s]
<1>1. Written(w, s) = migration \/ Written(w, s) = note
  BY DEF Written
<1>2. note \in Migration
  BY KeyIsKey, SummaryConstants DEF Wish, Migration
<1>3. note.status = s /\ (s = "completed" => <<note.to, note.covers>> = KeyOf(w))
  BY DEF KeyOf
<1> QED
  BY <1>1, <1>2, <1>3

LEMMA SummaryInitInv == SummaryInit => SummaryInv
BY SummaryConstants DEF SummaryInit, SummaryInv, AskedOnce, SummaryTypeOK, MadeIsKept, Wants, Runs, Spent,
   Fresh, Status, Key

\* A request that finds a migration, joins a call, or finds a key settled.
LEMMA ComesKeeps ==
  ASSUME SummaryInv, NEW r \in Caller, NEW w \in Wish,
         Answered(r, w) \/ Join(r, w) \/ SettledBefore(r, w)
  PROVE  SummaryInv'
<1> USE SummaryConstants DEF SummaryInv, AskedOnce, SummaryTypeOK, Wants, ghosts
<1>1. /\ UNCHANGED <<aborted, job, flight, image, ghosts>>
      /\ wants' = [wants EXCEPT ![r] = w]
      /\ \E s \in {"done", "failed", "waiting"} : phase' = [phase EXCEPT ![r] = s]
  BY DEF Answered, Join, SettledBefore, Comes
<1>2. /\ migration' \in Migration \cup {NoOne}
      /\ MadeIsKept'
  <2>1. CASE migration' = migration
    BY <2>1, <1>1 DEF MadeIsKept
  <2>2. CASE migration' # migration
    <3>1. \/ job[KeyOf(w)] = "completed" /\ migration' = Written(w, "completed")
          \/ migration' = Written(w, "failed")
      BY <2>2 DEF Answered, Join, SettledBefore
    <3> QED
      BY <3>1, <2>2, <1>1, WrittenIsMigration DEF MadeIsKept
  <2> QED
    BY <2>1, <2>2
<1>3. SummaryTypeOK'
  BY <1>1, <1>2 DEF Wish
<1>4. Wants'
  BY <1>1
<1> QED
  BY <1>1, <1>2, <1>3, <1>4 DEF Runs, Spent, Fresh

\* The source is asked.
LEMMA AskKeeps ==
  ASSUME SummaryInv, NEW r \in Caller, NEW w \in Wish, AskSource(r, w)
  PROVE  SummaryInv'
<1> DEFINE k == KeyOf(w)
<1> USE SummaryConstants DEF SummaryInv, AskedOnce, SummaryTypeOK, Wants
<1>1. /\ UNCHANGED <<aborted, migration, image, described, trouble, crashes>>
      /\ wants' = [wants EXCEPT ![r] = w]
      /\ phase' = [phase EXCEPT ![r] = "asking"]
      /\ job' = [job EXCEPT ![k] = "running"]
      /\ flight' = [flight EXCEPT ![k] = r]
      /\ asked' = [asked EXCEPT ![k] = @ + 1]
      /\ k \in Key /\ flight[k] = NoOne /\ job[k] # "completed"
  BY KeyIsKey DEF AskSource, Comes
<1>2. SummaryTypeOK'
  BY <1>1 DEF Wish, Status
<1>3. asked[k] <= trouble[k]
  BY <1>1 DEF Spent
<1>4. \A l \in Key : asked'[l] <= 1 + trouble'[l]
  BY <1>1, <1>3
<1>5. MadeIsKept'
  BY <1>1 DEF MadeIsKept
<1>6. Wants'
  BY <1>1
<1>7. Runs'
  BY <1>1 DEF Runs
<1>8. Spent'
  BY <1>1 DEF Spent
<1> QED
  BY <1>1, <1>2, <1>4, <1>5, <1>6, <1>7, <1>8 DEF Fresh

\* A call ends, with the summary or without it.
LEMMA EndKeeps ==
  ASSUME SummaryInv, NEW k \in Key, Summarised(k) \/ CallFails(k)
  PROVE  SummaryInv'
<1> USE SummaryConstants DEF SummaryInv, AskedOnce, SummaryTypeOK, Wants
<1>1. /\ UNCHANGED <<wants, aborted, image, asked, described, crashes>>
      /\ flight[k] # NoOne /\ flight' = [flight EXCEPT ![k] = NoOne]
      /\ job[k] = "running"
  BY DEF Summarised, CallFails, ghosts, Runs
<1>2. \E s \in {"done", "failed"} :
        phase' = [r \in Caller |-> IF r \in Holders(k) THEN s ELSE phase[r]]
  BY DEF Summarised, CallFails
<1>3. \A r \in Holders(k) : r \in Caller /\ wants[r] \in Wish /\ KeyOf(wants[r]) = k
  BY DEF Holders
<1>4. CASE Summarised(k)
  <2>1. job' = [job EXCEPT ![k] = "completed"] /\ trouble' = trouble
        /\ \E r \in Holders(k) : migration' = Written(wants[r], "completed")
    BY <1>4 DEF Summarised, ghosts
  <2>2. migration' \in Migration \cup {NoOne}
    BY <2>1, <1>3, WrittenIsMigration
  <2>3. SummaryTypeOK'
    BY <1>1, <1>2, <2>1, <2>2 DEF Status
  <2>4. MadeIsKept'
    <3>1. \/ migration' = migration
          \/ <<migration'.to, migration'.covers>> = k
      BY <2>1, <1>3, WrittenIsMigration
    <3> QED
      BY <3>1, <2>1 DEF MadeIsKept
  <2>5. Runs' /\ Spent'
    BY <1>1, <2>1 DEF Runs, Spent
  <2> QED
    BY <1>1, <1>2, <2>1, <2>3, <2>4, <2>5 DEF Fresh
<1>5. CASE CallFails(k)
  <2>1. PICK s \in {"failed", "uncertain"} : job' = [job EXCEPT ![k] = s]
    BY <1>5 DEF CallFails, Outcome
  <2>2. trouble' = [trouble EXCEPT ![k] = @ + 1]
        /\ \E r \in Holders(k), t \in {"failed", "uncertain"} : migration' = Written(wants[r], t)
    BY <1>5 DEF CallFails, Outcome
  <2>3. migration' \in Migration
    BY <2>2, <1>3, KeyIsKey DEF Written, Migration, Wish
  <2>4. migration'.status # "completed"
    BY <2>2, <1>3 DEF Written
  <2>5. SummaryTypeOK'
    BY <1>1, <1>2, <2>1, <2>2, <2>3 DEF Status
  <2>6. \A l \in Key : asked'[l] <= 1 + trouble'[l]
    BY <1>1, <2>2
  <2>7. Runs' /\ Spent'
    BY <1>1, <2>1, <2>2 DEF Runs, Spent
  <2> QED
    BY <1>1, <1>2, <2>4, <2>5, <2>6, <2>7 DEF Fresh, MadeIsKept
<1> QED
  BY <1>4, <1>5

\* An image is described; a client goes; the process dies.
LEMMA OtherKeeps ==
  ASSUME SummaryInv, Crash \/ \E r \in Caller : Describe(r) \/ Described(r) \/ Abort(r)
  PROVE  SummaryInv'
<1> USE SummaryConstants DEF SummaryInv, AskedOnce, SummaryTypeOK, Wants, ghosts, Phase
<1>1. ASSUME NEW r \in Caller, Describe(r) PROVE SummaryInv'
  BY <1>1 DEF Describe, Status, MadeIsKept, Runs, Spent, Fresh
<1>2. ASSUME NEW r \in Caller, Described(r) PROVE SummaryInv'
  BY <1>2 DEF Described, Outcome, Status, MadeIsKept, Runs, Spent, Fresh
<1>3. ASSUME NEW r \in Caller, Abort(r) PROVE SummaryInv'
  BY <1>3 DEF Abort, MadeIsKept, Runs, Spent, Fresh
<1>4. CASE Crash
  <2>1. /\ UNCHANGED <<wants, aborted, job, migration, image, asked, described>>
        /\ flight' = [k \in Key |-> NoOne]
        /\ phase' = [r \in Caller |-> IF phase[r] \in {"idle", "done"} THEN phase[r] ELSE "failed"]
        /\ trouble' = [k \in Key |-> IF flight[k] # NoOne THEN trouble[k] + 1 ELSE trouble[k]]
        /\ crashes' \in 0..Crashes
    BY <1>4 DEF Crash
  <2>2. SummaryTypeOK'
    BY <2>1
  <2>3. Spent' /\ \A k \in Key : asked'[k] <= 1 + trouble'[k]
    BY <2>1 DEF Spent
  <2> QED
    BY <2>1, <2>2, <2>3 DEF MadeIsKept, Runs, Fresh
<1> QED
  BY <1>1, <1>2, <1>3, <1>4

LEMMA SummaryStepKeeps == SummaryInv /\ [SummaryNext]_summaryVars => SummaryInv'
<1>1. ASSUME SummaryInv, UNCHANGED summaryVars PROVE SummaryInv'
  BY <1>1 DEF SummaryInv, AskedOnce, SummaryTypeOK, MadeIsKept, Wants, Runs, Spent, Fresh,
     summaryVars, asks, ghosts, Wish
<1> QED
  BY <1>1, ComesKeeps, AskKeeps, EndKeeps, OtherKeeps DEF SummaryNext, CallEnds

\* The source is asked again for a window only after a call that failed or died,
\* and an image is described at most once.
THEOREM SourceAskedOnce == SummarySpec => []AskedOnce
<1>1. SummaryInv => AskedOnce
  BY DEF SummaryInv
<1> QED
  BY <1>1, SummaryInitInv, SummaryStepKeeps, PTL DEF SummarySpec

\* A migration the checkpoint calls completed has its summary.
THEOREM CompletedIsThere == SummarySpec => []MadeIsKept
<1>1. SummaryInv => MadeIsKept
  BY DEF SummaryInv
<1> QED
  BY <1>1, SummaryInitInv, SummaryStepKeeps, PTL DEF SummarySpec

=============================================================================

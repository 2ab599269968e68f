--------------------------- MODULE RankingProofs ---------------------------
(* What sorting and the greedy choice promise, whatever the set, the order   *)
(* and the list; induction is by least counterexample.                       *)
EXTENDS Ranking, FiniteSetTheorems, WellFoundedInduction, TLAPS

\* every set of natural numbers that is not empty has a least element
LEMMA LeastExists ==
    ASSUME NEW S \in SUBSET Nat, S # {}
    PROVE  \E x \in S : \A y \in S : x <= y
  <1>1. PICK x \in S : \A y \in S : ~(<<y, x>> \in OpToRel(<, Nat))
    BY NatLessThanWellFounded, WFMin
  <1>2. \A x1, y \in Nat : y < x1 => <<y, x1>> \in OpToRel(<, Nat)
    BY DEF OpToRel
  <1>3. \A y \in S : ~(y < x)
    BY <1>1, <1>2, Zenon
  <1>4. \A y \in S : x <= y
    BY <1>3
  <1> QED
    BY <1>4

----------------------------------------------------------------------------
(* Ranks.                                                                  *)

StrictOrder(S, R) ==
    /\ \A x \in S : <<x, x>> \notin R
    /\ \A x, y, z \in S : <<x, y>> \in R /\ <<y, z>> \in R => <<x, z>> \in R
    /\ \A x, y \in S : x # y => <<x, y>> \in R \/ <<y, x>> \in R

Below(S, R, c) == {d \in S : <<d, c>> \in R}

\* in a strict total order of a finite set every rank is held by one element
LEMMA EveryRankIsHeld ==
    ASSUME NEW S, IsFiniteSet(S), NEW R, StrictOrder(S, R)
    PROVE  /\ \A c \in S : /\ Cardinality(Below(S, R, c)) + 1 \in 1..Cardinality(S)
                          /\ Cardinality(Below(S, R, c)) \in Nat
           /\ \A i \in 1..Cardinality(S) : \E c \in S : Cardinality(Below(S, R, c)) = i - 1
           /\ \A c, d \in S : Cardinality(Below(S, R, c)) = Cardinality(Below(S, R, d)) => c = d
  <1> USE DEF StrictOrder
  <1> DEFINE n == Cardinality(S)
             rank == [c \in S |-> Cardinality(Below(S, R, c)) + 1]
  <1>1. n \in Nat
    BY FS_CardinalityType
  <1>2. ASSUME NEW T \in SUBSET S, NEW U \in SUBSET S, NEW x \in U, x \notin T, T \subseteq U
        PROVE  Cardinality(T) \in Nat /\ Cardinality(U) \in Nat /\ Cardinality(T) < Cardinality(U)
    <2>1. IsFiniteSet(U) /\ IsFiniteSet(T) /\ T \in SUBSET U
      BY <1>2, FS_Subset
    <2>2. Cardinality(T) <= Cardinality(U) /\ (Cardinality(U) = Cardinality(T) => U = T)
      BY <2>1, FS_Subset
    <2>3. Cardinality(T) \in Nat /\ Cardinality(U) \in Nat
      BY <2>1, FS_CardinalityType
    <2> QED
      BY <1>2, <2>2, <2>3
  <1>3. ASSUME NEW c \in S
        PROVE  Cardinality(Below(S, R, c)) \in Nat /\ Cardinality(Below(S, R, c)) + 1 \in 1..n
    <2>1. Below(S, R, c) \in SUBSET S /\ c \notin Below(S, R, c)
      BY DEF Below
    <2>2. Cardinality(Below(S, R, c)) \in Nat /\ Cardinality(Below(S, R, c)) < n
      BY <1>2, <2>1
    <2> QED
      BY <1>1, <2>2
  <1>4. ASSUME NEW c \in S, NEW d \in S, <<c, d>> \in R
        PROVE  Cardinality(Below(S, R, c)) < Cardinality(Below(S, R, d))
    <2>1. /\ Below(S, R, c) \in SUBSET S /\ Below(S, R, d) \in SUBSET S
          /\ c \in Below(S, R, d) /\ c \notin Below(S, R, c)
          /\ Below(S, R, c) \subseteq Below(S, R, d)
      BY <1>4 DEF Below
    <2> QED
      BY <1>2, <2>1
  <1>5. ASSUME NEW c \in S, NEW d \in S,
               Cardinality(Below(S, R, c)) = Cardinality(Below(S, R, d)), c # d
        PROVE  FALSE
    <2>1. Cardinality(Below(S, R, c)) \in Int /\ Cardinality(Below(S, R, d)) \in Int
      BY <1>3
    <2>2. <<c, d>> \in R \/ <<d, c>> \in R
      BY <1>5
    <2> QED
      BY <1>4, <1>5, <2>1, <2>2
  <1>6. rank \in [S -> 1..n]
    BY <1>3
  <1>7. \A c, d \in S : rank[c] = rank[d] => c = d
    <2>1. TAKE c, d \in S
    <2>2. HAVE rank[c] = rank[d]
    <2>3. Cardinality(Below(S, R, c)) \in Int /\ Cardinality(Below(S, R, d)) \in Int
      BY <1>3
    <2>4. Cardinality(Below(S, R, c)) = Cardinality(Below(S, R, d))
      BY <2>2, <2>3
    <2> QED
      BY <1>5, <2>4
  <1> HIDE DEF rank
  <1>8. rank \in Surjection(S, 1..n)
    <2>1. rank \in Injection(S, 1..n)
      BY <1>6, <1>7 DEF Injection, IsInjective
    <2>2. IsFiniteSet(1..n) /\ Cardinality(1..n) = n
      BY <1>1, FS_Interval
    <2> QED
      BY <2>1, <2>2, FS_Injection
  <1>9. \A i \in 1..n : \E c \in S : rank[c] = i
    BY <1>8 DEF Surjection
  <1>10. ASSUME NEW i \in 1..n PROVE \E c \in S : Cardinality(Below(S, R, c)) = i - 1
    <2>1. PICK c \in S : rank[c] = i
      BY <1>9
    <2>2. Cardinality(Below(S, R, c)) \in Int /\ rank[c] = Cardinality(Below(S, R, c)) + 1
      BY <1>3 DEF rank
    <2> QED
      BY <2>1, <2>2
  <1> QED
    BY <1>3, <1>5, <1>10


Ranks(S, R) == [c \in S |-> Cardinality(Below(S, R, c))]
SortedBy(S, R) == [i \in 1..Cardinality(S) |-> CHOOSE c \in S : Ranks(S, R)[c] = i - 1]

\* InRank lists every element of the set once, in order.
LEMMA SortedByRank ==
    ASSUME NEW S, IsFiniteSet(S), NEW R, StrictOrder(S, R)
    PROVE  LET n == Cardinality(S)
               s == SortedBy(S, R)
           IN  /\ n \in Nat /\ s \in Seq(S) /\ Len(s) = n /\ DOMAIN s = 1..n
               /\ \A c \in S : \E i \in 1..n : s[i] = c
               /\ \A i, j \in 1..n : i < j <=> <<s[i], s[j]>> \in R
               /\ \A i, j \in 1..n : s[i] = s[j] => i = j
               /\ \A i \in 1..n : s[i] \in S /\ Cardinality(Below(S, R, s[i])) = i - 1
  <1> DEFINE n == Cardinality(S)
             s == SortedBy(S, R)
  <1>1. n \in Nat
    BY FS_CardinalityType
  <1>2. /\ \A c \in S : Cardinality(Below(S, R, c)) + 1 \in 1..n /\ Cardinality(Below(S, R, c)) \in Nat
        /\ \A i \in 1..n : \E c \in S : Cardinality(Below(S, R, c)) = i - 1
        /\ \A c, d \in S : Cardinality(Below(S, R, c)) = Cardinality(Below(S, R, d)) => c = d
    BY EveryRankIsHeld
  <1>3. \A i \in 1..n : s[i] \in S /\ Cardinality(Below(S, R, s[i])) = i - 1
    <2>1. TAKE i \in 1..n
    <2>2. \E c \in S : Ranks(S, R)[c] = i - 1
      BY <1>2 DEF Ranks
    <2>3. s[i] \in S /\ Ranks(S, R)[s[i]] = i - 1
      BY <2>2 DEF SortedBy
    <2> QED
      BY <2>3 DEF Ranks
  <1>4. DOMAIN s = 1..n /\ s \in Seq(S) /\ Len(s) = n
    <2>1. s \in [1..n -> S]
      BY <1>3 DEF SortedBy
    <2> QED
      BY <1>1, <2>1
  <1> HIDE DEF s, n
  <1>5. ASSUME NEW c \in S PROVE \E i \in 1..n : s[i] = c
    <2> DEFINE i == Cardinality(Below(S, R, c)) + 1
    <2>1. i \in 1..n /\ Cardinality(Below(S, R, c)) = i - 1
      BY <1>2
    <2>2. s[i] \in S /\ Cardinality(Below(S, R, s[i])) = i - 1
      BY <1>3, <2>1
    <2>3. s[i] = c
      BY <1>2, <2>1, <2>2
    <2> QED
      BY <2>1, <2>3
  <1>6. ASSUME NEW i \in 1..n, NEW j \in 1..n, s[i] = s[j] PROVE i = j
    BY <1>1, <1>3, <1>6
  <1>7. ASSUME NEW i \in 1..n, NEW j \in 1..n, <<s[i], s[j]>> \in R PROVE i < j
    <2>1. /\ Below(S, R, s[i]) \subseteq Below(S, R, s[j])
          /\ s[i] \in Below(S, R, s[j]) /\ s[i] \notin Below(S, R, s[i])
      BY <1>3, <1>7 DEF Below, StrictOrder
    <2>2. IsFiniteSet(Below(S, R, s[j]))
      BY FS_Subset DEF Below
    <2>3. Cardinality(Below(S, R, s[i])) <= Cardinality(Below(S, R, s[j]))
      BY <2>1, <2>2, FS_Subset
    <2>4. i <= j
      BY <1>1, <1>3, <2>3
    <2>5. i # j
      BY <1>3, <1>7 DEF StrictOrder
    <2> QED
      BY <1>1, <2>4, <2>5
  <1>8. ASSUME NEW i \in 1..n, NEW j \in 1..n, i < j PROVE <<s[i], s[j]>> \in R
    <2>1. s[i] # s[j]
      BY <1>1, <1>6, <1>8
    <2>2. <<s[i], s[j]>> \in R \/ <<s[j], s[i]>> \in R
      BY <1>3, <2>1 DEF StrictOrder
    <2> QED
      BY <1>1, <1>7, <1>8, <2>2
  <1> QED
    BY <1>1, <1>3, <1>4, <1>5, <1>6, <1>7, <1>8 DEF s, n

\* the places of the k-th element of I in the order of a list
Placing(place, I) ==
    /\ place \in [1..Cardinality(I) -> I]
    /\ \A i \in I : \E k \in 1..Cardinality(I) : place[k] = i
    /\ \A k, l \in 1..Cardinality(I) : k < l <=> place[k] < place[l]
    /\ \A k \in 1..Cardinality(I) : Cardinality({i \in I : i < place[k]}) = k - 1

\* filtering a list keeps the elements at the places I, in their order
LEMMA AtKeepsOrder ==
    ASSUME NEW I \in SUBSET Nat, IsFiniteSet(I), NEW s
    PROVE  \E place : Placing(place, I) /\ At(s, I) = [k \in 1..Cardinality(I) |-> s[place[k]]]
  <1> DEFINE R == {p \in I \X I : p[1] < p[2]}
             n == Cardinality(I)
             place == SortedBy(I, R)
             before == [c \in I |-> Cardinality({d \in I : d < c})]
  <1>1. \A c, d \in I : <<c, d>> \in R <=> c < d
    OBVIOUS
  <1> HIDE DEF R
  <1>2. StrictOrder(I, R)
    BY <1>1 DEF StrictOrder
  <1>3. /\ n \in Nat /\ place \in Seq(I) /\ Len(place) = n /\ DOMAIN place = 1..n
        /\ \A c \in I : \E k \in 1..n : place[k] = c
        /\ \A k, l \in 1..n : k < l <=> <<place[k], place[l]>> \in R
        /\ \A k \in 1..n : place[k] \in I /\ Cardinality(Below(I, R, place[k])) = k - 1
    BY <1>2, SortedByRank
  <1>4. \A c \in I : {d \in I : d < c} = Below(I, R, c)
    BY <1>1 DEF Below
  <1>5. before = Ranks(I, R)
    BY <1>4 DEF Ranks
  <1>6. At(s, I) = [k \in 1..n |-> s[[m \in 1..n |-> CHOOSE c \in I : before[c] = m - 1][k]]]
    BY DEF At, InRank
  <1> HIDE DEF before
  <1>7. At(s, I) = [k \in 1..n |-> s[place[k]]]
    BY <1>5, <1>6 DEF SortedBy
  <1> HIDE DEF place, n
  <1>8. place \in [1..n -> I]
    BY <1>3
  <1>9. \A k, l \in 1..n : k < l <=> place[k] < place[l]
    BY <1>1, <1>3
  <1>10. \A k \in 1..n : Cardinality({i \in I : i < place[k]}) = k - 1
    BY <1>3, <1>4
  <1> QED
    BY <1>3, <1>7, <1>8, <1>9, <1>10 DEF n, Placing

\* a filter that takes every place takes the list
LEMMA AtAll ==
    ASSUME NEW T, NEW s \in Seq(T)
    PROVE  At(s, 1..Len(s)) = s
  <1> DEFINE I == 1..Len(s)
  <1>0. Len(s) \in Nat /\ I \in SUBSET Nat
    OBVIOUS
  <1>1. Len(s) \in Nat /\ I \in SUBSET Nat /\ IsFiniteSet(I) /\ Cardinality(I) = Len(s)
    <2> DEFINE n == Len(s)
    <2> HIDE DEF n
    <2>1. n \in Nat /\ I = 1..n
      BY <1>0 DEF n
    <2>2. IsFiniteSet(1..n) /\ Cardinality(1..n) = IF 1 > n THEN 0 ELSE n - 1 + 1
      BY <2>1, FS_Interval
    <2>3. Cardinality(1..n) = n
      BY <2>1, <2>2
    <2> QED
      BY <1>0, <2>1, <2>2, <2>3 DEF n
  <1> HIDE DEF I
  <1>2. PICK place : Placing(place, I) /\ At(s, I) = [k \in 1..Cardinality(I) |-> s[place[k]]]
    BY <1>1, AtKeepsOrder
  <1>3. ASSUME NEW k \in 1..Len(s) PROVE place[k] = k
    <2>1. place[k] \in 1..Len(s)
      BY <1>1, <1>2 DEF I, Placing
    <2>2. {i \in I : i < place[k]} = 1..(place[k] - 1)
      BY <1>1, <2>1 DEF I
    <2>3. Cardinality(1..(place[k] - 1)) = place[k] - 1
      <3>1. place[k] - 1 \in Int /\ 1 \in Int
        BY <1>1, <2>1
      <3>2. Cardinality(1..(place[k] - 1)) = IF 1 > place[k] - 1 THEN 0 ELSE (place[k] - 1) - 1 + 1
        BY <3>1, FS_Interval
      <3> QED
        BY <1>1, <2>1, <3>2
    <2>4. Cardinality({i \in I : i < place[k]}) = k - 1
      BY <1>1, <1>2 DEF Placing
    <2>5. Cardinality({i \in I : i < place[k]}) = place[k] - 1
      BY <2>2, <2>3
    <2> QED
      BY <1>1, <2>1, <2>4, <2>5
  <1>4. At(s, I) = [k \in 1..Len(s) |-> s[k]]
    BY <1>1, <1>2, <1>3
  <1> QED
    BY <1>4 DEF I

----------------------------------------------------------------------------
(* Counting.                                                               *)

\* A set whose elements have partners of their own in a finite set is no larger.
LEMMA OwnPartners ==
    ASSUME NEW S, NEW T, IsFiniteSet(T), NEW R,
           \A s \in S : \E t \in T : <<s, t>> \in R,
           \A s, u \in S, t \in T : <<s, t>> \in R /\ <<u, t>> \in R => s = u
    PROVE  IsFiniteSet(S) /\ Cardinality(S) \in Nat /\ Cardinality(S) <= Cardinality(T)
  <1> DEFINE w == [s \in S |-> CHOOSE t \in T : <<s, t>> \in R]
  <1>1. \A s \in S : w[s] \in T /\ <<s, w[s]>> \in R
    OBVIOUS
  <1>2. w \in [S -> T]
    BY <1>1
  <1> HIDE DEF w
  <1>3. w \in Injection(S, T)
    BY <1>1, <1>2 DEF Injection, IsInjective
  <1> QED
    BY <1>3, FS_Injection, FS_CardinalityType

\* A share of a whole, in units: between nothing and the unit.
LEMMA Share ==
    ASSUME NEW k \in Nat, NEW n \in Nat \ {0}, NEW u \in Nat, k <= n
    PROVE  (k * u) \div n \in 0..u /\ (k = n => (k * u) \div n = u) /\ (k = 0 => (k * u) \div n = 0)
  <1> DEFINE q == (k * u) \div n
  <1>1. k * u \in Nat /\ n * u \in Nat
    OBVIOUS
  <1>2. PICK d \in Nat : n = k + d
    <2>1. n - k \in Nat /\ n = k + (n - k)
      OBVIOUS
    <2> QED
      BY <2>1
  <1>3. n * u = k * u + d * u /\ d * u \in Nat
    BY <1>2
  <1>4. q \in Nat /\ n * q <= k * u /\ k * u < n * q + n
    <2>1. \A x \in Nat : x \div n \in Nat /\ x % n \in 0..(n - 1) /\ x = n * (x \div n) + (x % n)
      OBVIOUS
    <2>2. n * q \in Nat
      BY <1>1, <2>1
    <2> QED
      BY <1>1, <2>1, <2>2
  <1> HIDE DEF q
  <1>5. ASSUME q > u PROVE FALSE
    <2>1. PICK e \in Nat : q = u + 1 + e
      <3>1. q - u - 1 \in Nat /\ q = u + 1 + (q - u - 1)
        BY <1>4, <1>5
      <3> QED
        BY <3>1
    <2>2. n * q = n * u + n + n * e /\ n * e \in Nat
      BY <2>1
    <2> QED
      BY <1>1, <1>3, <1>4, <2>2
  <1>6. ASSUME k = n, q < u PROVE FALSE
    <2>1. PICK e \in Nat : u = q + 1 + e
      <3>1. u - q - 1 \in Nat /\ u = q + 1 + (u - q - 1)
        BY <1>4, <1>6
      <3> QED
        BY <3>1
    <2>2. n * u = n * q + n + n * e /\ n * e \in Nat /\ n * q \in Nat
      BY <1>4, <2>1
    <2> QED
      BY <1>4, <1>6, <2>2
  <1>7. k = 0 => q = 0
    <2>1. HAVE k = 0
    <2>2. k * u = 0
      BY <2>1
    <2>3. q # 0 => n * q >= n
      BY <1>4
    <2> QED
      BY <1>4, <2>2, <2>3
  <1> QED
    BY <1>4, <1>5, <1>6, <1>7 DEF q

----------------------------------------------------------------------------
(* The greedy choice.                                                      *)

IsPass(seq, n, f) ==
    f = [i \in 0..n |-> IF i = 0 THEN {} ELSE Claim(f[i - 1], seq[i])]

LEMMA PassExists == ASSUME NEW seq, NEW n \in Nat PROVE \E f : IsPass(seq, n, f)
  <1> DEFINE Bad == {m \in Nat : \A f : ~IsPass(seq, m, f)}
  <1> SUFFICES ASSUME Bad # {} PROVE FALSE
    OBVIOUS
  <1>1. PICK m \in Bad : \A y \in Bad : m <= y
    BY LeastExists
  <1>2. m # 0
    <2>1. IsPass(seq, 0, [i \in 0..0 |-> {}])
      BY DEF IsPass
    <2> QED
      BY <1>1, <2>1
  <1>3. m - 1 \in Nat /\ m - 1 \notin Bad
    BY <1>1, <1>2
  <1>4. PICK f : IsPass(seq, m - 1, f)
    BY <1>3
  <1> DEFINE g == [i \in 0..m |-> IF i = m THEN Claim(f[m - 1], seq[m]) ELSE f[i]]
  <1>5. \A i \in 0..(m - 1) : f[i] = IF i = 0 THEN {} ELSE Claim(f[i - 1], seq[i])
    BY <1>4 DEF IsPass
  <1>6. ASSUME NEW i \in 0..m
        PROVE  g[i] = IF i = 0 THEN {} ELSE Claim(g[i - 1], seq[i])
    <2>1. CASE i = m
      BY <1>2, <2>1
    <2>2. CASE i # m
      <3>1. i \in 0..(m - 1) /\ g[i] = f[i] /\ (i # 0 => i - 1 \in 0..m /\ g[i - 1] = f[i - 1])
        BY <2>2
      <3> QED
        BY <1>5, <3>1
    <2> QED
      BY <2>1, <2>2
  <1>7. IsPass(seq, m, g)
    BY <1>6 DEF IsPass
  <1> QED
    BY <1>1, <1>7

LEMMA GreedyUnfolds ==
    ASSUME NEW seq, Len(seq) \in Nat
    PROVE  \E f : IsPass(seq, Len(seq), f) /\ Greedy(seq) = f[Len(seq)]
  <1>1. \E f : f = [i \in 0..Len(seq) |-> IF i = 0 THEN {} ELSE Claim(f[i - 1], seq[i])]
    BY PassExists DEF IsPass
  <1> QED
    BY <1>1 DEF Greedy, IsPass

Meets(c, d) == c[1] = d[1] \/ c[2] = d[2]

\* The greedy choice takes pairs of the list, no two with a common side, and what it
\* passes over shares a side with a pair it took before.
LEMMA GreedyIsFair ==
    ASSUME NEW seq, Len(seq) \in Nat
    PROVE  /\ \A p \in Greedy(seq) : \E i \in 1..Len(seq) : p = seq[i]
           /\ \A p, q \in Greedy(seq) : Meets(p, q) => p = q
           /\ \A i \in 1..Len(seq) : \E j \in 1..i : seq[j] \in Greedy(seq) /\ Meets(seq[j], seq[i])
  <1>1. PICK f : IsPass(seq, Len(seq), f) /\ Greedy(seq) = f[Len(seq)]
    BY GreedyUnfolds
  <1> DEFINE n == Len(seq)
             Good(m) == /\ \A p \in f[m] : \E i \in 1..m : p = seq[i]
                        /\ \A p, q \in f[m] : Meets(p, q) => p = q
                        /\ \A i \in 1..m : \E j \in 1..i : seq[j] \in f[m] /\ Meets(seq[j], seq[i])
  <1>0. n \in Nat
    OBVIOUS
  <1>2. f[0] = {} /\ \A i \in 1..n : f[i] = Claim(f[i - 1], seq[i])
    <2> HIDE DEF n
    <2>1. IsPass(seq, n, f)
      BY <1>1 DEF n
    <2>2. \A i \in 0..n : f[i] = IF i = 0 THEN {} ELSE Claim(f[i - 1], seq[i])
      BY <2>1 DEF IsPass
    <2> HIDE DEF Good
    <2>3. 0 \in 0..n /\ \A i \in 1..n : i \in 0..n /\ i # 0
      BY <1>0
    <2> QED
      BY <2>2, <2>3, Zenon
  <1> HIDE DEF n
  <1>3. Good(0)
    BY <1>2
  <1>4. ASSUME NEW m \in 1..n, Good(m - 1) PROVE Good(m)
    <2>0. m \in Nat /\ f[m] = Claim(f[m - 1], seq[m]) /\ m \in 1..m
      BY <1>0, <1>2
    <2>1. CASE \E p \in f[m - 1] : Meets(p, seq[m])
      <3>1. f[m] = f[m - 1]
        BY <2>0, <2>1 DEF Claim, Meets
      <3>2. PICK p \in f[m - 1] : Meets(p, seq[m])
        BY <2>1
      <3>3. PICK j \in 1..(m - 1) : p = seq[j]
        BY <1>4
      <3>4. \A i \in 1..m : \E k \in 1..i : seq[k] \in f[m] /\ Meets(seq[k], seq[i])
        <4>1. TAKE i \in 1..m
        <4>2. CASE i = m
          BY <3>1, <3>2, <3>3, <4>2
        <4>3. CASE i # m
          <5>1. i \in 1..(m - 1)
            BY <4>3
          <5> QED
            BY <1>4, <3>1, <5>1
        <4> QED
          BY <4>2, <4>3
      <3>5. \A i \in 1..(m - 1) : i \in 1..m
        OBVIOUS
      <3> QED
        BY <1>4, <3>1, <3>4, <3>5
    <2>2. CASE ~\E p \in f[m - 1] : Meets(p, seq[m])
      <3>1. f[m] = f[m - 1] \cup {seq[m]}
        BY <2>0, <2>2 DEF Claim, Meets
      <3>2. \A p \in f[m] : \E i \in 1..m : p = seq[i]
        <4>1. TAKE p \in f[m]
        <4>2. CASE p = seq[m]
          BY <2>0, <4>2
        <4>3. CASE p \in f[m - 1]
          <5>1. PICK i \in 1..(m - 1) : p = seq[i]
            BY <1>4, <4>3
          <5>2. i \in 1..m
            OBVIOUS
          <5> QED
            BY <5>1, <5>2
        <4> QED
          BY <3>1, <4>2, <4>3
      <3>3. \A p, q \in f[m] : Meets(p, q) => p = q
        BY <1>4, <2>2, <3>1 DEF Meets
      <3>4. \A i \in 1..m : \E k \in 1..i : seq[k] \in f[m] /\ Meets(seq[k], seq[i])
        <4>1. TAKE i \in 1..m
        <4>2. CASE i = m
          BY <2>0, <3>1, <4>2 DEF Meets
        <4>3. CASE i # m
          <5>1. i \in 1..(m - 1)
            BY <4>3
          <5> QED
            BY <1>4, <3>1, <5>1
        <4> QED
          BY <4>2, <4>3
      <3> QED
        BY <3>2, <3>3, <3>4
    <2> QED
      BY <2>1, <2>2
  <1>5. Good(n)
    <2> DEFINE Bad == {m \in 0..n : ~Good(m)}
    <2> HIDE DEF Good
    <2>0. n \in 0..n
      BY <1>0
    <2> SUFFICES ASSUME Bad # {} PROVE FALSE
      BY <2>0
    <2>1. Bad \in SUBSET Nat
      BY <1>0
    <2>2. PICK m \in Bad : \A y \in Bad : m <= y
      BY <2>1, LeastExists
    <2>3. m # 0
      BY <1>3, <2>2
    <2>4. m \in 1..n /\ m - 1 \in 0..n /\ m - 1 \notin Bad
      BY <1>0, <2>2, <2>3
    <2> QED
      BY <1>4, <2>2, <2>4
  <1>6. Greedy(seq) = f[n]
    BY <1>1 DEF n
  <1>7. Len(seq) = n
    BY DEF n
  <1> QED
    BY <1>5, <1>6, <1>7
=============================================================================

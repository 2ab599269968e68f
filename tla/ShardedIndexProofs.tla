------------------------- MODULE ShardedIndexProofs -------------------------
(* For any number of functions, shards and threads: run_index collects its   *)
(* workers, reports the lowest failing shard, and in --no-sandbox no engine   *)
(* of the process disturbs another's run.                                    *)
EXTENDS ShardedIndex, FiniteSetTheorems, TLAPS

----------------------------------------------------------------------------
(* Lists in entry order.                                                   *)

\* the ranks of a finite set of positions are its first numbers, each taken once
LEMMA Ranks ==
    ASSUME NEW S \in SUBSET Nat, IsFiniteSet(S)
    PROVE  /\ Cardinality(S) \in Nat
           /\ \A p, q \in S : Cardinality({x \in S : x < p}) = Cardinality({x \in S : x < q}) => p = q
           /\ \A p, q \in S : p < q => Cardinality({x \in S : x < p}) < Cardinality({x \in S : x < q})
           /\ \A i \in 1..Cardinality(S) : \E p \in S : Cardinality({x \in S : x < p}) = i - 1
  <1> DEFINE below(p) == {x \in S : x < p}
             c == Cardinality(S)
             rank == [p \in S |-> Cardinality(below(p)) + 1]
  <1>1. c \in Nat
    BY FS_CardinalityType
  <1>2. \A p \in S : IsFiniteSet(below(p)) /\ Cardinality(below(p)) \in Nat /\ Cardinality(below(p)) < c
    <2>1. TAKE p \in S
    <2>2. below(p) \in SUBSET S /\ p \notin below(p)
      OBVIOUS
    <2>3. /\ IsFiniteSet(below(p)) /\ Cardinality(below(p)) <= c
          /\ Cardinality(below(p)) = c => S = below(p)
      BY <2>2, FS_Subset
    <2>4. Cardinality(below(p)) \in Nat
      BY <2>3, FS_CardinalityType
    <2> HIDE DEF below, c
    <2> QED
      BY <1>1, <2>2, <2>3, <2>4
  <1>3. \A p, q \in S : p < q => Cardinality(below(p)) < Cardinality(below(q))
    <2>1. SUFFICES ASSUME NEW p \in S, NEW q \in S, p < q
                   PROVE  Cardinality(below(p)) < Cardinality(below(q))
      OBVIOUS
    <2>5. \A x \in S : x < p => x < q
      BY <2>1
    <2>6. below(p) \in SUBSET below(q)
      BY <2>5
    <2>7. p \in below(q) /\ p \notin below(p)
      BY <2>1
    <2>2. below(p) \in SUBSET below(q) /\ p \in below(q) /\ p \notin below(p)
      BY <2>6, <2>7
    <2>3. IsFiniteSet(below(q)) /\ Cardinality(below(q)) \in Nat /\ Cardinality(below(p)) \in Nat
      BY <1>2
    <2> HIDE DEF below
    <2>4. /\ Cardinality(below(p)) <= Cardinality(below(q))
          /\ Cardinality(below(p)) = Cardinality(below(q)) => below(q) = below(p)
      BY <2>2, <2>3, FS_Subset
    <2> QED
      BY <2>2, <2>3, <2>4
  <1> HIDE DEF below, c
  <1>4. \A p, q \in S : Cardinality(below(p)) = Cardinality(below(q)) => p = q
    BY <1>2, <1>3
  <1>5. rank \in [S -> 1..c]
    BY <1>1, <1>2
  <1>6. rank \in Injection(S, 1..c)
    BY <1>2, <1>4, <1>5 DEF Injection, IsInjective
  <1>7. IsFiniteSet(1..c) /\ Cardinality(1..c) = c
    <2>1. 1 \in Int /\ c \in Int
      BY <1>1
    <2> QED
      BY <1>1, <2>1, FS_Interval
  <1>8. rank \in Surjection(S, 1..c)
    BY <1>6, <1>7, FS_Injection DEF c
  <1>9. \A i \in 1..c : \E p \in S : rank[p] = i
    BY <1>8 DEF Surjection
  <1>10. \A i \in 1..c : \E p \in S : Cardinality(below(p)) = i - 1
    BY <1>2, <1>9
  <1> QED
    BY <1>1, <1>3, <1>4, <1>10 DEF below, c

LEMMA AscendingLists ==
    ASSUME NEW S \in SUBSET Nat, IsFiniteSet(S)
    PROVE  /\ Cardinality(S) \in Nat /\ Ascending(S) \in [1..Cardinality(S) -> S]
           /\ \A i \in 1..Cardinality(S) :
                 Cardinality({x \in S : x < Ascending(S)[i]}) = i - 1
           /\ \A i, j \in 1..Cardinality(S) : i # j => Ascending(S)[i] # Ascending(S)[j]
           /\ {Ascending(S)[i] : i \in 1..Cardinality(S)} = S
  <1> DEFINE c == Cardinality(S)
             rank(p) == Cardinality({x \in S : x < p})
             at(i) == CHOOSE p \in S : rank(p) = i - 1
  <1>1. c \in Nat /\ (\A p, q \in S : rank(p) = rank(q) => p = q)
        /\ \A i \in 1..c : \E p \in S : rank(p) = i - 1
    BY Ranks
  <1>2. Ascending(S) = [i \in 1..c |-> at(i)]
    BY DEF Ascending
  <1> HIDE DEF c, rank
  <1>3. \A i \in 1..c : at(i) \in S /\ rank(at(i)) = i - 1
    BY <1>1
  <1> DEFINE a == Ascending(S)
  <1>4. a \in [1..c -> S] /\ \A i \in 1..c : rank(a[i]) = i - 1
    BY <1>2, <1>3
  <1> HIDE DEF a, at
  <1>5. \A i, j \in 1..c : i # j => a[i] # a[j]
    BY <1>4
  <1>6. IsFiniteSet(1..c) /\ Cardinality(1..c) = c
    <2>1. 1 \in Int /\ c \in Int
      BY <1>1
    <2> QED
      BY <1>1, <2>1, FS_Interval
  <1>7. a \in Injection(1..c, S)
    BY <1>4, <1>5 DEF Injection, IsInjective
  <1>8. a \in Surjection(1..c, S)
    BY <1>6, <1>7, FS_Injection DEF c
  <1>9. {a[i] : i \in 1..c} = S
    BY <1>4, <1>8 DEF Surjection
  <1> QED
    BY <1>1, <1>4, <1>5, <1>9 DEF c, rank, a

\* the merged prints, when no two are of one function, come out in list order
LEMMA SortsDistinct ==
    ASSUME NEW s \in Seq(Nat), Distinct(s)
    PROVE  ByEntry(s) = Ascending(Elements(s))
  <1> DEFINE c == Len(s)
             S == Elements(s)
             before(j) == {m \in 1..c : s[m] < s[j] \/ (s[m] = s[j] /\ m < j)}
             pos(i) == CHOOSE j \in 1..c : Cardinality(before(j)) = i - 1
  <1>1. c \in Nat /\ \A i \in 1..c : s[i] \in S /\ s[i] \in Nat
    BY DEF Elements
  <1>2. S \in SUBSET Nat
    BY DEF Elements
  <1>3. ByEntry(s) = [i \in 1..c |-> s[pos(i)]]
    BY DEF ByEntry
  <1>4. \A j \in 1..c : before(j) = {m \in 1..c : s[m] < s[j]}
    <2>1. \A m, j \in 1..c : s[m] = s[j] => ~(m < j)
      BY <1>1 DEF Distinct
    <2> QED
      BY <2>1
  <1>6. \A p \in S : \E i \in 1..c : p = s[i]
    BY DEF Elements
  <1>7. \A i, j \in 1..c : i # j => s[i] # s[j]
    BY DEF Distinct
  <1> HIDE DEF c, S, before
  <1>5. IsFiniteSet(1..c) /\ Cardinality(1..c) = c
    <2>1. 1 \in Int /\ c \in Int
      BY <1>1
    <2> QED
      BY <1>1, <2>1, FS_Interval
  <1>8. IsFiniteSet(S) /\ Cardinality(S) = c
    <2> DEFINE f == [i \in 1..c |-> s[i]]
    <2>1. f \in Bijection(1..c, S)
      BY <1>1, <1>6, <1>7 DEF Bijection, Injection, Surjection, IsInjective
    <2>2. ExistsBijection(1..c, S)
      BY <2>1 DEF ExistsBijection
    <2> QED
      BY <1>5, <2>2, FS_Bijection
  <1>9. \A j \in 1..c : Cardinality({x \in S : x < s[j]}) = Cardinality(before(j))
    <2>1. TAKE j \in 1..c
    <2> DEFINE f == [m \in before(j) |-> s[m]]
               T == {x \in S : x < s[j]}
    <2>2. before(j) \in SUBSET (1..c) /\ \A m \in 1..c : m \in before(j) <=> s[m] < s[j]
      BY <1>4
    <2>3. IsFiniteSet(before(j))
      BY <1>5, <2>2, FS_Subset
    <2>4. f \in Bijection(before(j), T)
      BY <1>1, <1>6, <1>7, <2>2 DEF Bijection, Injection, Surjection, IsInjective
    <2>5. ExistsBijection(before(j), T)
      BY <2>4 DEF ExistsBijection
    <2> QED
      BY <2>3, <2>5, FS_Bijection
  <1> DEFINE a == Ascending(S)
             rank(p) == Cardinality({x \in S : x < p})
  <1>10. a \in [1..c -> S] /\ \A i \in 1..c : rank(a[i]) = i - 1
    BY <1>2, <1>8, AscendingLists
  <1>11. \A p, q \in S : rank(p) = rank(q) => p = q
    BY <1>2, <1>8, Ranks
  <1>12. \A j \in 1..c : rank(s[j]) = Cardinality(before(j))
    BY <1>9
  <1> HIDE DEF a, rank
  <1>13. \A i \in 1..c : s[pos(i)] = a[i]
    <2>1. TAKE i \in 1..c
    <2>2. a[i] \in S /\ rank(a[i]) = i - 1
      BY <1>10
    <2>3. \E j \in 1..c : Cardinality(before(j)) = i - 1
      BY <1>6, <1>12, <2>2
    <2>4. pos(i) \in 1..c /\ Cardinality(before(pos(i))) = i - 1
      BY <2>3
    <2> HIDE DEF pos
    <2>5. s[pos(i)] \in S /\ rank(s[pos(i)]) = rank(a[i])
      BY <1>1, <1>12, <2>2, <2>4
    <2> QED
      BY <1>11, <2>2, <2>5
  <1> HIDE DEF pos
  <1>14. [i \in 1..c |-> s[pos(i)]] = a
    BY <1>10, <1>13
  <1> QED
    BY <1>3, <1>14 DEF a, S, c
----------------------------------------------------------------------------
(* The inductive invariant.                                                *)

\* run_index starts at least one worker and never more than there are slots
LEMMA ShardsWithinSlots ==
    ASSUME NEW r \in Requests, len \in InputLens
    PROVE  clamp_shards_for_input(shard_count(r), len) \in 1..MaxShards
  <1> DEFINE q == shard_count(r)
  <1>1. q \in 1..MaxShards
    BY ShardAssumption DEF shard_count, Greatest, Least
  <1>2. ASSUME len # 0 PROVE Least(q, Greatest(MaxAggregate \div len, 1)) \in 1..q
    <2>1. MaxAggregate \div len \in Int
      BY <1>2, ShardAssumption
    <2> DEFINE d == MaxAggregate \div len
    <2>2. Greatest(d, 1) \in Int /\ Greatest(d, 1) >= 1
      BY <2>1 DEF Greatest
    <2> HIDE DEF d, q
    <2> QED
      BY <1>1, <2>2 DEF Least, d
  <1> HIDE DEF q
  <1> QED
    BY <1>1, <1>2, ShardAssumption DEF clamp_shards_for_input, q

LEMMA UsableIsFinite == Usable \in SUBSET Nat /\ IsFiniteSet(Usable)
  <1>1. IsFiniteSet(0..(NumFuncs - 1))
    <2>1. 0 \in Int /\ NumFuncs - 1 \in Int
      BY ShardAssumption
    <2> QED
      BY <2>1, FS_Interval
  <1>2. Usable \in SUBSET (0..(NumFuncs - 1))
    BY ShardAssumption
  <1>3. IsFiniteSet(Usable)
    BY <1>1, <1>2, FS_Subset
  <1> QED
    BY <1>2, <1>3

LEMMA Residues ==
    ASSUME NEW x \in Nat, NEW count \in Nat \ {0}
    PROVE  x % count \in 0..(count - 1)
  OBVIOUS

LEMMA WholeIsUsable == WholeIndex = Ascending(Usable)
  <1>2. ASSUME NEW p \in Usable PROVE p % 1 = 0
    <2>1. p \in Nat
      BY UsableIsFinite
    <2>2. p % 1 \in 0..(1 - 1)
      BY <2>1, Residues
    <2> QED
      BY <2>2
  <1>1. {p \in Usable : p % 1 = 0} = Usable
    BY <1>2
  <1> QED
    BY <1>1 DEF WholeIndex, index_bytes_shard

LEMMA ShardIsResidue ==
    ASSUME NEW count \in Nat \ {0}, NEW i \in Nat, i < count
    PROVE  ShardIndex(i, count) = Ascending({p \in Usable : p % count = i})
  BY DEF ShardIndex, ShardSpec, parse_shard, index_bytes_shard

\* two lists without repetitions and without a common element
LEMMA Merges ==
    ASSUME NEW T, NEW s \in Seq(T), NEW t \in Seq(T),
           Distinct(s), Distinct(t), Elements(s) \cap Elements(t) = {}
    PROVE  Distinct(s \o t) /\ Elements(s \o t) = Elements(s) \cup Elements(t)
  <1> DEFINE u == s \o t
             ls == Len(s)
             lt == Len(t)
  <1>1. ls \in Nat /\ lt \in Nat /\ Len(u) = ls + lt
    OBVIOUS
  <1>2. /\ \A i \in 1..ls : u[i] = s[i]
        /\ \A i \in (ls + 1)..(ls + lt) : u[i] = t[i - ls]
    OBVIOUS
  <1>7. /\ \A i, j \in 1..ls : i # j => s[i] # s[j]
        /\ \A i, j \in 1..lt : i # j => t[i] # t[j]
        /\ \A i \in 1..ls, j \in 1..lt : s[i] # t[j]
    BY DEF Distinct, Elements
  <1> HIDE DEF u, ls, lt
  <1>3. \A i \in 1..lt : u[ls + i] = t[i]
    BY <1>1, <1>2
  <1>4. \A i \in 1..Len(u) : \/ i \in 1..ls
                              \/ (i - ls \in 1..lt /\ i \in (ls + 1)..(ls + lt))
    <2>1. TAKE i \in 1..Len(u)
    <2>2. i \in Nat /\ 1 <= i /\ i <= ls + lt
      BY <1>1
    <2>3. CASE i <= ls
      BY <1>1, <2>2, <2>3
    <2>4. CASE ls < i
      <3>1. i - ls \in 1..lt
        BY <1>1, <2>2, <2>4
      <3>2. i \in (ls + 1)..(ls + lt)
        BY <1>1, <2>2, <2>4
      <3> QED
        BY <3>1, <3>2
    <2> QED
      BY <1>1, <2>2, <2>3, <2>4
  <1>5. \A i, j \in 1..Len(u) : i # j => u[i] # u[j]
    <2>1. SUFFICES ASSUME NEW i \in 1..Len(u), NEW j \in 1..Len(u), i # j PROVE u[i] # u[j]
      OBVIOUS
    <2>2. CASE i \in 1..ls /\ j \in 1..ls
      BY <1>2, <1>7, <2>1, <2>2
    <2>3. CASE i \in 1..ls /\ ~(j \in 1..ls)
      BY <1>2, <1>4, <1>7, <2>3
    <2>4. CASE ~(i \in 1..ls) /\ j \in 1..ls
      BY <1>2, <1>4, <1>7, <2>4
    <2>5. CASE ~(i \in 1..ls) /\ ~(j \in 1..ls)
      <3>1. i - ls \in 1..lt /\ j - ls \in 1..lt /\ i - ls # j - ls
        BY <1>1, <1>4, <2>1, <2>5
      <3>2. u[i] = t[i - ls] /\ u[j] = t[j - ls]
        BY <1>2, <1>4, <2>5
      <3> QED
        BY <1>7, <3>1, <3>2
    <2> QED
      BY <2>2, <2>3, <2>4, <2>5
  <1>6. {u[i] : i \in 1..Len(u)} = {s[i] : i \in 1..ls} \cup {t[i] : i \in 1..lt}
    <2>1. \A i \in 1..ls : i \in 1..Len(u) /\ s[i] = u[i]
      BY <1>1, <1>2
    <2>2. \A i \in 1..lt : ls + i \in 1..Len(u) /\ t[i] = u[ls + i]
      BY <1>1, <1>3
    <2>3. \A i \in 1..Len(u) : \/ \E j \in 1..ls : u[i] = s[j]
                               \/ \E j \in 1..lt : u[i] = t[j]
      <3>1. TAKE i \in 1..Len(u)
      <3>2. CASE i \in 1..ls
        BY <1>2, <3>2
      <3>3. CASE i - ls \in 1..lt /\ i \in (ls + 1)..(ls + lt)
        <4>1. u[i] = t[i - ls]
          BY <1>2, <3>3
        <4>2. i - ls \in 1..lt
          BY <3>3
        <4>3. \E j \in 1..lt : u[i] = t[j]
          BY <4>1, <4>2
        <4> QED
          BY <4>3
      <3> QED
        BY <1>4, <3>2, <3>3
    <2>4. \A x : x \in {u[i] : i \in 1..Len(u)} => x \in {s[i] : i \in 1..ls} \cup {t[i] : i \in 1..lt}
      BY <2>3
    <2>5. \A x : x \in {s[i] : i \in 1..ls} => x \in {u[i] : i \in 1..Len(u)}
      BY <2>1
    <2>6. \A x : x \in {t[i] : i \in 1..lt} => x \in {u[i] : i \in 1..Len(u)}
      BY <2>2
    <2> QED
      BY <2>4, <2>5, <2>6
  <1> QED
    BY <1>5, <1>6 DEF u, ls, lt, Distinct, Elements

LEMMA InitInv == Init => IInv
  <1>1. Init => StepsTyped /\ CallInv /\ JoinInv /\ PoolInv
    BY ShardAssumption
       DEF Init, StepsTyped, CallInv, JoinInv, PoolInv, Slots, NoErr, Idle, Answers
  <1>2. Init => MergeInv
    BY DEF Init, MergeInv
  <1> QED
    BY <1>1, <1>2 DEF IInv

LEMMA MergeStays ==
    ASSUME MergeInv, UNCHANGED <<n, pc, joined, all, first_err>>
    PROVE  MergeInv'
  BY DEF MergeInv

\* a step of one shard's call leaves the others, the merge and the pool alone
LEMMA CallKeepsInv == ASSUME IInv, NEW i \in Slots, CallStep(i) PROVE IInv'
  <1> USE ShardAssumption DEF Slots
  <1>1. UNCHANGED <<len, n, pc, joined, all, first_err, pool>> /\ pc = "join" /\ i < n
    BY DEF CallStep
  <1>2. PICK c \in {"busy", "ok", "error"}, ch \in {"none", "live", "gone"},
             r \in {"none", "whole"} : SetCall(i, c, ch, r)
    BY DEF CallStep
  <1>3. PICK a \in AnswersTo(c) : answer' = [answer EXCEPT ![i] = a]
    BY <1>2 DEF SetCall
  <1>4. a \in Answers \cup {"none"} /\ (c \in {"ok", "error"} => a \in Answers)
    BY <1>2, <1>3 DEF AnswersTo, Answers
  <1>5. /\ call' = [call EXCEPT ![i] = c] /\ child' = [child EXCEPT ![i] = ch]
        /\ reply' = [reply EXCEPT ![i] = r]
    BY <1>2 DEF SetCall
  <1>6. StepsTyped'
    BY <1>1, <1>2, <1>3, <1>4, <1>5 DEF IInv, StepsTyped, pool
  <1>7. call'[i] = c /\ child'[i] = ch /\ reply'[i] = r /\ answer'[i] = a
    BY <1>3, <1>5 DEF IInv, StepsTyped
  <1>8. /\ c = "busy" => ch \in {"live", "gone"} /\ r = "none"
        /\ c \in {"ok", "error"} => ch \in {"none", "gone"}
        /\ call[i] \in {"idle", "busy"}
    BY <1>7 DEF CallStep, IInv, CallInv, Shard!Start, Shard!StartFails, Shard!ChildEnds,
                Shard!Return
  <1>9. ~(i < joined)
    BY <1>8 DEF IInv, JoinInv
  <1>10. \A j \in Slots : j # i => /\ call'[j] = call[j] /\ child'[j] = child[j]
                                  /\ reply'[j] = reply[j] /\ answer'[j] = answer[j]
    BY <1>3, <1>5 DEF IInv, StepsTyped
  <1>11. CallInv'
    BY <1>1, <1>2, <1>4, <1>7, <1>8, <1>10 DEF IInv, StepsTyped, CallInv
  <1>12. JoinInv'
    BY <1>1, <1>9, <1>10 DEF IInv, StepsTyped, JoinInv, NoErr
  <1>13. PoolInv'
    BY <1>1 DEF IInv, PoolInv, pool
  <1>14. MergeInv'
    BY <1>1, MergeStays DEF IInv
  <1> QED
    BY <1>6, <1>11, <1>12, <1>13, <1>14 DEF IInv

\* the next shard's prints are of functions not merged before
LEMMA JoinMerges == ASSUME IInv, Join PROVE MergeInv'
  <1>1. /\ UNCHANGED <<n, pc>> /\ pc = "join" /\ joined \in Nat /\ joined < n
        /\ joined' = joined + 1 /\ n \in Nat \ {0} /\ all \in Seq(Usable \cup {Idle})
    BY ShardAssumption DEF Join, IInv, StepsTyped, MergeInv
  <1> DEFINE R == {p \in Usable : p % n = joined}
             b == ShardIndex(joined, n)
  <1>2. R \in SUBSET Nat /\ IsFiniteSet(R) /\ b = Ascending(R)
    <2>1. R \in SUBSET Usable
      OBVIOUS
    <2>2. b = Ascending(R)
      BY <1>1, ShardIsResidue
    <2> QED
      BY <2>1, <2>2, UsableIsFinite, FS_Subset
  <1>4. \A x : x \in R <=> x \in Usable /\ x % n = joined
    OBVIOUS
  <1> HIDE DEF b, R
  <1> DEFINE m == Cardinality(R)
  <1>3. /\ m \in Nat /\ b \in [1..m -> R] /\ (\A i, j \in 1..m : i # j => b[i] # b[j])
        /\ {b[i] : i \in 1..m} = R
    BY <1>2, AscendingLists
  <1> HIDE DEF m
  <1>8. b \in [1..m -> Usable \cup {Idle}]
    BY <1>3, <1>4
  <1>5. b \in Seq(Usable \cup {Idle}) /\ Len(b) = m
    BY <1>3, <1>8
  <1>6. CASE answer[joined] = "index"
    <2>1. all' = all \o b /\ first_err' = first_err
      BY <1>6 DEF Join, b
    <2>2. all' \in Seq(Usable \cup {Idle})
      BY <1>1, <1>5, <2>1
    <2>3. ASSUME first_err = NoErr
          PROVE  Distinct(all') /\ Elements(all') = {p \in Usable : p % n < joined + 1}
      <3>1. Distinct(all) /\ Elements(all) = {p \in Usable : p % n < joined}
        BY <1>1, <2>3 DEF IInv, MergeInv
      <3>2. Distinct(b) /\ Elements(b) = R
        BY <1>3, <1>5 DEF Distinct, Elements
      <3>3. Elements(all) \cap Elements(b) = {}
        BY <1>1, <1>4, <3>1, <3>2
      <3>5. Distinct(all \o b) /\ Elements(all \o b) = Elements(all) \cup Elements(b)
        BY <1>1, <1>5, <3>1, <3>2, <3>3, Merges
      <3>4. {p \in Usable : p % n < joined + 1} = {p \in Usable : p % n < joined} \cup R
        <4>1. \A p \in Usable : p % n \in Nat
          <5>1. TAKE p \in Usable
          <5>2. p % n \in 0..(n - 1)
            BY <1>1, UsableIsFinite, Residues
          <5> QED
            BY <1>1, <5>2
        <4>2. \A p \in Usable : p % n < joined + 1 <=> p % n < joined \/ p % n = joined
          BY <1>1, <4>1
        <4> QED
          BY <1>4, <4>2
      <3> QED
        BY <2>1, <3>1, <3>2, <3>4, <3>5
    <2> QED
      BY <1>1, <2>1, <2>2, <2>3 DEF MergeInv
  <1>7. CASE answer[joined] # "index"
    <2>1. all' = all /\ first_err' # NoErr
      BY <1>1, <1>7 DEF Join, NoErr
    <2> QED
      BY <1>1, <2>1 DEF MergeInv
  <1> QED
    BY <1>6, <1>7

\* sorting what all shards gave makes it the list of the whole binary
LEMMA FinishMerges == ASSUME IInv, Finish PROVE MergeInv'
  <1>1. /\ UNCHANGED <<n, joined, first_err>> /\ pc = "join" /\ joined = n
        /\ n \in Nat \ {0} /\ all \in Seq(Usable \cup {Idle})
    BY ShardAssumption DEF Finish, IInv, StepsTyped, MergeInv
  <1>2. CASE first_err # NoErr
    BY <1>1, <1>2 DEF Finish, MergeInv
  <1>3. CASE first_err = NoErr
    <2>1. pc' = "ok" /\ all' = ByEntry(all)
      BY <1>3 DEF Finish
    <2>2. Distinct(all) /\ Elements(all) = {p \in Usable : p % n < n}
      BY <1>1, <1>3 DEF IInv, MergeInv
    <2>3. {p \in Usable : p % n < n} = Usable
      <3>1. ASSUME NEW p \in Usable PROVE p % n < n
        <4>1. p \in Nat
          BY UsableIsFinite
        <4>2. p % n \in 0..(n - 1)
          BY <1>1, <4>1, Residues
        <4> QED
          BY <1>1, <4>2
      <3> QED
        BY <3>1
    <2>4. Len(all) \in Nat /\ \A i \in 1..Len(all) : all[i] \in Nat
      <3>1. \A i \in 1..Len(all) : all[i] \in {p \in Usable : p % n < n}
        BY <2>2 DEF Elements
      <3>2. \A i \in 1..Len(all) : all[i] \in Nat
        BY <3>1, UsableIsFinite
      <3> QED
        BY <1>1, <3>2
    <2>5. all \in Seq(Nat)
      BY <1>1, <2>4
    <2>6. ByEntry(all) = Ascending(Usable)
      BY <2>2, <2>3, <2>5, SortsDistinct
    <2>7. all' = WholeIndex
      BY <2>1, <2>6, WholeIsUsable
    <2>8. all' \in Seq(Usable \cup {Idle})
      <3>1. Cardinality(Usable) \in Nat /\ WholeIndex \in [1..Cardinality(Usable) -> Usable]
        BY UsableIsFinite, WholeIsUsable, AscendingLists
      <3> QED
        BY <2>7, <3>1
    <2> QED
      BY <2>1, <2>7, <2>8 DEF MergeInv
  <1> QED
    BY <1>2, <1>3

\* collect() keeps the order of the list, and every print of the pool is exact
LEMMA CollectMerges == ASSUME IInv, Collect PROVE MergeInv'
  <1> DEFINE c == Cardinality(Usable)
  <1>1. c \in Nat /\ WholeIndex \in [1..c -> Usable]
    BY UsableIsFinite, WholeIsUsable, AscendingLists
  <1>2. \A p \in Usable : prints[p] = "exact"
    BY DEF Collect, IInv, StepsTyped, PoolInv
  <1>3. /\ pc' = "ok"
        /\ all' = [k \in 1..Len(WholeIndex) |->
                      IF prints[WholeIndex[k]] = "exact" THEN WholeIndex[k] ELSE Idle]
    BY DEF Collect
  <1> HIDE DEF c
  <1>4. Len(WholeIndex) = c
    BY <1>1
  <1>5. \A k \in 1..c : prints[WholeIndex[k]] = "exact"
    BY <1>1, <1>2
  <1>6. all' = [k \in 1..c |-> WholeIndex[k]]
    BY <1>3, <1>4, <1>5
  <1>7. all' = WholeIndex
    BY <1>1, <1>6
  <1>8. all' \in Seq(Usable \cup {Idle})
    BY <1>1, <1>7
  <1> QED
    BY <1>3, <1>7, <1>8 DEF MergeInv

\* joining the next thread keeps the first error the lowest
LEMMA JoinKeepsInv == ASSUME IInv, Join PROVE IInv'
  <1> USE ShardAssumption DEF Slots
  <1>1. /\ UNCHANGED <<len, n, pc, call, child, reply, answer, pool>> /\ pc = "join"
        /\ joined \in Slots /\ joined' = joined + 1 /\ joined < n
        /\ call[joined] \in {"ok", "error"}
    BY DEF Join, IInv, StepsTyped, callVars
  <1>2. first_err' = IF answer[joined] = "index" \/ first_err # NoErr THEN first_err ELSE joined
    BY DEF Join
  <1>3. StepsTyped'
    BY <1>1, <1>2 DEF IInv, StepsTyped, pool, NoErr
  <1>4. CallInv'
    BY <1>1 DEF IInv, CallInv
  <1>5. JoinInv'
    BY <1>1, <1>2 DEF IInv, StepsTyped, JoinInv, NoErr
  <1>6. PoolInv'
    BY <1>1 DEF IInv, PoolInv, pool
  <1> QED
    BY <1>3, <1>4, <1>5, <1>6, JoinMerges DEF IInv

\* the other steps of run_index
LEMMA IndexKeepsInv ==
    ASSUME IInv, Start \/ StartInProcess \/ LoadFails \/ Finish \/ Collect \/ ParentDies
    PROVE  IInv'
  <1> DEFINE Others == StepsTyped /\ CallInv /\ JoinInv /\ PoolInv
  <1> USE ShardAssumption DEF Slots, StepsTyped, CallInv, JoinInv, PoolInv, NoErr,
                              callVars, pool
  <1>0. Others /\ MergeInv
    BY DEF IInv
  <1>1. CASE Start
    <2>1. n' \in 1..MaxShards
      BY <1>0, <1>1, ShardsWithinSlots DEF Start
    <2>2. Others'
      BY <1>0, <1>1, <2>1 DEF Start
    <2>3. /\ pc' = "join" /\ all' = <<>> /\ joined' = 0 /\ n' \in Nat \ {0}
      BY <1>0, <1>1, <2>1 DEF Start, MergeInv
    <2>4. {p \in Usable : p % n' < 0} = {}
      <3>1. ASSUME NEW p \in Usable PROVE ~(p % n' < 0)
        <4>1. p \in Nat
          BY UsableIsFinite
        <4> DEFINE count == n'
        <4>2. count \in Nat \ {0}
          BY <2>3
        <4> HIDE DEF count
        <4>3. p % count \in 0..(count - 1)
          BY <4>1, <4>2, Residues
        <4>4. ~(p % count < 0)
          BY <4>2, <4>3
        <4> QED
          BY <4>4 DEF count
      <3> QED
        BY <3>1
    <2>6. Distinct(<<>>) /\ Elements(<<>>) = {} /\ <<>> \in Seq(Usable \cup {Idle})
      BY DEF Distinct, Elements
    <2>5. MergeInv'
      BY <2>3, <2>4, <2>6 DEF MergeInv
    <2> QED
      BY <2>2, <2>5 DEF IInv
  <1>2. CASE StartInProcess
    <2>1. Others'
      BY <1>0, <1>2 DEF StartInProcess
    <2>2. MergeInv'
      BY <1>0, <1>2 DEF StartInProcess, MergeInv
    <2> QED
      BY <2>1, <2>2 DEF IInv
  <1>3. CASE Finish
    <2>1. Others'
      BY <1>0, <1>3 DEF Finish
    <2> QED
      BY <1>3, <2>1, FinishMerges DEF IInv
  <1>4. CASE Collect
    <2>1. Others'
      BY <1>0, <1>4 DEF Collect
    <2> QED
      BY <1>4, <2>1, CollectMerges DEF IInv
  <1>5. CASE ParentDies
    <2>1. Others'
      BY <1>0, <1>5 DEF ParentDies
    <2>2. MergeInv'
      BY <1>0, <1>5 DEF ParentDies, MergeInv
    <2> QED
      BY <2>1, <2>2 DEF IInv
  <1>6. CASE LoadFails
    <2>1. Others'
      BY <1>0, <1>6 DEF LoadFails
    <2>2. MergeInv'
      BY <1>0, <1>6 DEF LoadFails, MergeInv
    <2> QED
      BY <2>1, <2>2 DEF IInv
  <1> QED
    BY <1>1, <1>2, <1>3, <1>4, <1>5, <1>6

\* EMU_LOCK: whoever builds an engine finds no other one in use
LEMMA ThreadKeepsInv == ASSUME IInv, NEW t \in Threads, ThreadStep(t) PROVE IInv'
  <1>1. UNCHANGED <<len, n, pc, call, child, reply, answer, joined, first_err>>
    BY DEF ThreadStep, Take, LockEmulator, BuildEngine, Explore, Fingerprint, InPool, callVars
  <1>2. CallInv' /\ JoinInv'
    BY <1>1 DEF IInv, CallInv, JoinInv
  <1>3. StepsTyped'
    BY <1>1 DEF IInv, StepsTyped, ThreadStep, Take, LockEmulator, BuildEngine, Explore,
                Fingerprint, InPool
  <1>4. PoolInv'
    BY DEF IInv, StepsTyped, PoolInv, ThreadStep, Take, LockEmulator, BuildEngine, Explore,
           Fingerprint, InPool
  <1>5. UNCHANGED all
    BY DEF ThreadStep, Take, LockEmulator, BuildEngine, Explore, Fingerprint, InPool
  <1>6. MergeInv'
    BY <1>1, <1>5, MergeStays DEF IInv
  <1> QED
    BY <1>2, <1>3, <1>4, <1>6 DEF IInv

LEMMA StepInv == IInv /\ [Next]_vars => IInv'
  <1>1. ASSUME IInv, UNCHANGED vars PROVE IInv'
    <2>1. StepsTyped' /\ CallInv' /\ JoinInv' /\ PoolInv'
      BY <1>1 DEF IInv, StepsTyped, CallInv, JoinInv, PoolInv, vars, callVars, pool
    <2>2. MergeInv'
      BY <1>1, MergeStays DEF IInv, vars
    <2> QED
      BY <2>1, <2>2 DEF IInv
  <1> QED
    BY <1>1, CallKeepsInv, JoinKeepsInv, IndexKeepsInv, ThreadKeepsInv DEF Next, Done

\* The inductive invariant holds throughout, for every value of the constants.
THEOREM Invariance == Spec => []IInv
  BY InitInv, StepInv, PTL DEF Spec

\* Type correctness for any number of functions, shards and threads: the worker count
\* within the slots, positions that get prints in what is merged.
THEOREM TypeCorrect == Spec => []TypeOK
  <1>1. IInv => TypeOK
    BY DEF IInv, MergeInv, TypeOK
  <1> QED
    BY <1>1, Invariance, PTL

\* An index that succeeds is the list a single process would make, whatever the shard
\* count, the order of the answers and the interleaving of the pool's threads.
THEOREM ShardsMakeTheWhole == Spec => []ShardingIsInvisible
  <1>1. IInv => ShardingIsInvisible
    BY DEF IInv, MergeInv, ShardingIsInvisible
  <1> QED
    BY <1>1, Invariance, PTL

\* run_index returns only when every worker it started has been collected.
THEOREM CollectsEveryWorker == Spec => []NoWorkerOutlivesIndex
  <1>1. IInv => NoWorkerOutlivesIndex
    BY DEF IInv, StepsTyped, CallInv, JoinInv, NoWorkerOutlivesIndex, Slots
  <1> QED
    BY <1>1, Invariance, PTL

\* The error run_index reports is that of the lowest failing shard.
THEOREM ReportsLowestError == Spec => []ErrorIsReproducible
  <1>1. IInv => ErrorIsReproducible
    BY ShardAssumption DEF IInv, StepsTyped, JoinInv, ErrorIsReproducible, Slots, NoErr
  <1> QED
    BY <1>1, Invariance, PTL

\* No print of the in-process pool comes from an engine that another thread's
\* engine disturbed.
THEOREM LockKeepsPrintsExact == Spec => [](\A p \in Usable : prints[p] # "garbled")
  <1>1. IInv => \A p \in Usable : prints[p] # "garbled"
    BY DEF IInv, PoolInv
  <1> QED
    BY <1>1, Invariance, PTL
=============================================================================

---------------------------- MODULE AlignProofs ----------------------------
(* The 1:1 assignment and its call-graph rounds, for function sets, call     *)
(* graphs, weights and numbers of rounds of any size.                        *)
EXTENDS Align, RankingProofs

\* what the assumptions say of the candidates
LEMMA Candidates ==
    ASSUME TypeOK
    PROVE  /\ Unit \in Nat \ {0} /\ Weight \in Nat /\ rounds \in Nat
           /\ Pairs \subseteq Targets \X Rows /\ IsFiniteSet(Pairs)
           /\ \A c \in Pairs : /\ c = <<c[1], c[2]>> /\ c[1] \in Targets /\ c[2] \in Rows
                               /\ c[1] \in Int /\ c[2].group \in Int /\ c[2].entry \in Int
                               /\ look[c].sim \in 0..Unit
  <1> USE AlignAssumption
  <1>1. IsFiniteSet(Targets \X Rows)
    BY FS_Product
  <1>2. Pairs \subseteq Targets \X Rows
    BY DEF Pairs
  <1>3. IsFiniteSet(Pairs)
    BY <1>1, <1>2, FS_Subset
  <1>4. look \in [Targets \X Rows -> [sim : 0..Unit, band : BOOLEAN]]
    BY DEF TypeOK
  <1>5. \A c \in Targets \X Rows : /\ c = <<c[1], c[2]>> /\ c[1] \in Targets /\ c[2] \in Rows
                                   /\ c[1] \in Int /\ c[2].group \in Int /\ c[2].entry \in Int
                                   /\ look[c].sim \in 0..Unit
    <2>1. TAKE c \in Targets \X Rows
    <2>2. c = <<c[1], c[2]>> /\ c[1] \in Targets /\ c[2] \in Rows
      OBVIOUS
    <2>3. c[2] \in [batch : Int, group : Int, entry : Int]
      BY <2>2
    <2>4. look[c] \in [sim : 0..Unit, band : BOOLEAN]
      BY <1>4
    <2> QED
      BY <2>2, <2>3, <2>4
  <1>6. Unit \in Nat \ {0} /\ Weight \in Nat /\ rounds \in Nat
    BY DEF rounds
  <1> QED
    BY <1>2, <1>3, <1>5, <1>6

Scores == [Pairs -> 0..Unit]

LEMMA ScoreIsInt ==
    ASSUME TypeOK, NEW g \in Scores, NEW c \in Pairs
    PROVE  Score(g, c) \in Nat
  <1>1. /\ Unit \in Nat \ {0} /\ Weight \in Nat /\ look[c].sim \in Nat /\ g[c] \in Nat
    BY Candidates DEF Scores
  <1>2. Weight * g[c] \in Nat
    BY <1>1
  <1>3. (Weight * g[c]) \div Unit \in Nat
    BY <1>1, <1>2
  <1> QED
    BY <1>1, <1>3 DEF Score

\* what the comparison does not separate
Ties(g, c, d) ==
    /\ Score(g, c) = Score(g, d) /\ look[c].sim = look[d].sim
    /\ c[1] = d[1] /\ c[2].group = d[2].group /\ c[2].entry = d[2].entry

LEMMA OutranksOrders ==
    ASSUME TypeOK, NEW g \in Scores
    PROVE  /\ \A c \in Pairs : ~Outranks(g, c, c)
           /\ \A c, d, e \in Pairs : Outranks(g, c, d) /\ Outranks(g, d, e) => Outranks(g, c, e)
           /\ \A c, d \in Pairs : Ties(g, c, d) <=> ~Outranks(g, c, d) /\ ~Outranks(g, d, c)
           /\ \A c, d, e \in Pairs : Outranks(g, c, d) /\ Ties(g, d, e) => Outranks(g, c, e)
           /\ \A c, d, e \in Pairs : Ties(g, c, d) /\ Outranks(g, d, e) => Outranks(g, c, e)
  <1>1. \A c \in Pairs : /\ Score(g, c) \in Int /\ look[c].sim \in Int
                         /\ c[1] \in Int /\ c[2].group \in Int /\ c[2].entry \in Int
    BY ScoreIsInt, Candidates
  <1> USE <1>1 DEF Outranks, Ties
  <1>2. \A c \in Pairs : ~Outranks(g, c, c)
    OBVIOUS
  <1>3. \A c, d, e \in Pairs : Outranks(g, c, d) /\ Outranks(g, d, e) => Outranks(g, c, e)
    OBVIOUS
  <1>4. \A c, d \in Pairs : Ties(g, c, d) <=> ~Outranks(g, c, d) /\ ~Outranks(g, d, c)
    OBVIOUS
  <1>5. \A c, d, e \in Pairs : Outranks(g, c, d) /\ Ties(g, d, e) => Outranks(g, c, e)
    OBVIOUS
  <1>6. \A c, d, e \in Pairs : Ties(g, c, d) /\ Outranks(g, d, e) => Outranks(g, c, e)
    OBVIOUS
  <1> QED
    BY <1>2, <1>3, <1>4, <1>5, <1>6

Place(old, c) == CHOOSE i \in 1..Len(old) : old[i] = c

\* the order Resort sorts in
SortOrder(g, old) ==
    {p \in Pairs \X Pairs : \/ Outranks(g, p[1], p[2])
                            \/ Ties(g, p[1], p[2]) /\ Place(old, p[1]) < Place(old, p[2])}

Resorted(S, g, old) ==
    InRank(S, LAMBDA c, d : \/ Outranks(g, c, d)
                            \/ /\ ~Outranks(g, c, d) /\ ~Outranks(g, d, c)
                               /\ Place(old, c) < Place(old, d))

LEMMA SortOrderIsStrict ==
    ASSUME TypeOK, NEW g \in Scores, NEW old \in Seq(Targets \X Rows), Lists(old)
    PROVE  StrictOrder(Pairs, SortOrder(g, old)) /\ Resort(g, old) = SortedBy(Pairs, SortOrder(g, old))
  <1> DEFINE R == SortOrder(g, old)
  <1>1. \A c \in Pairs : Place(old, c) \in 1..Len(old) /\ old[Place(old, c)] = c
    <2>1. \A c \in Pairs : \E i \in 1..Len(old) : old[i] = c
      BY DEF Lists
    <2> QED
      BY <2>1 DEF Place
  <1>2. Len(old) \in Nat
    OBVIOUS
  <1>3. \A c, d \in Pairs : <<c, d>> \in R <=>
            \/ Outranks(g, c, d)
            \/ Ties(g, c, d) /\ Place(old, c) < Place(old, d)
    BY DEF SortOrder
  <1> HIDE DEF R
  <1>4. /\ \A c, d, e \in Pairs : Ties(g, c, d) /\ Ties(g, d, e) => Ties(g, c, e)
        /\ \A c, d \in Pairs : Ties(g, c, d) => Ties(g, d, c)
    BY DEF Ties
  <1>5. \A c \in Pairs : <<c, c>> \notin R
    BY <1>1, <1>2, <1>3, OutranksOrders
  <1>6. \A c, d, e \in Pairs : <<c, d>> \in R /\ <<d, e>> \in R => <<c, e>> \in R
    <2>1. TAKE c, d, e \in Pairs
    <2>2. HAVE <<c, d>> \in R /\ <<d, e>> \in R
    <2>3. CASE Outranks(g, c, d) \/ Outranks(g, d, e)
      BY <1>3, <2>2, <2>3, OutranksOrders
    <2>4. CASE ~(Outranks(g, c, d) \/ Outranks(g, d, e))
      <3>1. Ties(g, c, e) /\ Place(old, c) < Place(old, d) /\ Place(old, d) < Place(old, e)
        BY <1>3, <1>4, <2>2, <2>4
      <3> QED
        BY <1>1, <1>2, <1>3, <3>1
    <2> QED
      BY <2>3, <2>4
  <1>7. \A c, d \in Pairs : c # d => <<c, d>> \in R \/ <<d, c>> \in R
    <2>1. TAKE c, d \in Pairs
    <2>2. HAVE c # d
    <2>3. Place(old, c) # Place(old, d)
      BY <1>1, <2>2
    <2>4. Place(old, c) < Place(old, d) \/ Place(old, d) < Place(old, c)
      BY <1>1, <1>2, <2>3
    <2>5. Outranks(g, c, d) \/ Outranks(g, d, c) \/ (Ties(g, c, d) /\ Ties(g, d, c))
      BY <1>4, OutranksOrders
    <2> QED
      BY <1>3, <2>4, <2>5
  <1>8. StrictOrder(Pairs, R)
    BY <1>5, <1>6, <1>7 DEF StrictOrder
  <1>9. \A c, d \in Pairs : <<c, d>> \in R <=>
            \/ Outranks(g, c, d)
            \/ (~Outranks(g, c, d) /\ ~Outranks(g, d, c)) /\ Place(old, c) < Place(old, d)
    BY <1>3, OutranksOrders
  <1>10. Resort(g, old) = SortedBy(Pairs, R)
    <2> DEFINE Over(c, d) == \/ Outranks(g, c, d)
                             \/ /\ ~Outranks(g, c, d) /\ ~Outranks(g, d, c)
                                /\ Place(old, c) < Place(old, d)
               before == [c \in Pairs |-> Cardinality({d \in Pairs : Over(d, c)})]
    <2>1. Resort(g, old) = Resorted({old[i] : i \in 1..Len(old)}, g, old)
      BY DEF Resort, Resorted, InRank, Place
    <2>5. Resort(g, old) = Resorted(Pairs, g, old)
      BY <2>1 DEF Lists
    <2>2. Resort(g, old) = [i \in 1..Cardinality(Pairs) |-> CHOOSE c \in Pairs : before[c] = i - 1]
      BY <2>5 DEF Resorted, InRank
    <2>3. \A c \in Pairs : {d \in Pairs : Over(d, c)} = Below(Pairs, R, c)
      BY <1>9 DEF Below
    <2>4. before = Ranks(Pairs, R)
      BY <2>3 DEF Ranks
    <2> HIDE DEF before
    <2> QED
      BY <2>2, <2>4 DEF SortedBy
  <1> QED
    BY <1>8, <1>10 DEF R

----------------------------------------------------------------------------
(* The graph score.                                                        *)

Mates(P, b) == {p.b : p \in {q \in P : q.a = b}}
Claimed(P) == {p.b : p \in P}

\* what graph_score counts: the neighbours of either side that are paired ...
PairedCallees(P, a) == {b \in a_callees(a) : Mates(P, b) # {}}
PairedCallers(P, a) == {b \in a_callers(a) : Mates(P, b) # {}}
PairedEdges(x, P, r) == {e \in DOMAIN b_callees(x, r) : b_callees(x, r)[e] \in Claimed(P)}
PairedUses(x, P, r) == CallerRows(x, r) \cap Claimed(P)
\* ... and those that are paired with each other
HitCallees(x, P, a, r) == {b \in a_callees(a) : \E s \in Mates(P, b) : Finds(x, r, s)}
HitCallers(x, P, a, r) == {b \in a_callers(a) : Mates(P, b) \cap CallerRows(x, r) # {}}

\* Under a 1:1 assignment a graph score lies between nothing and the unit: each hit is
\* a paired neighbour of the one side and, through its partner, one of the other.
LEMMA GraphScoreInUnit ==
    ASSUME TypeOK, NEW x \in Orders, NEW P \in SUBSET Paired, OneToOne(P),
           NEW a \in Targets, NEW r \in Rows
    PROVE  graph_score(x, P, a, r) \in 0..Unit
  <1> DEFINE hits == Cardinality(HitCallees(x, P, a, r)) + Cardinality(HitCallers(x, P, a, r))
             n == Cardinality(PairedCallees(P, a)) + Cardinality(PairedCallers(P, a))
                  + Cardinality(PairedEdges(x, P, r)) + Cardinality(PairedUses(x, P, r))
  <1>1. graph_score(x, P, a, r) = IF n = 0 THEN 0 ELSE (2 * hits * Unit) \div n
    BY DEF graph_score, PairedCallees, PairedCallers, PairedEdges, PairedUses,
       HitCallees, HitCallers, Mates, Claimed
  <1>2. /\ IsFiniteSet(a_callees(a)) /\ IsFiniteSet(a_callers(a))
        /\ IsFiniteSet(CallerRows(x, r)) /\ IsFiniteSet(DOMAIN b_callees(x, r))
    <2>1. IsFiniteSet(a_callees(a)) /\ IsFiniteSet(a_callers(a)) /\ IsFiniteSet(CallerRows(x, r))
      BY AlignAssumption, FS_Subset DEF a_callees, a_callers, CallerRows
    <2>2. IsFiniteSet(DOMAIN b_callees(x, r))
      <3> DEFINE E == DOMAIN b_callees(x, r)
                 R == {p \in E \X Rows : p[2].entry = p[1]}
      <3>1. \A e \in E : \E s \in Rows : s.entry = e
        BY DEF b_callees, Named
      <3>2. \A e \in E : \E s \in Rows : <<e, s>> \in R
        BY <3>1
      <3>3. \A e, f \in E, s \in Rows : <<e, s>> \in R /\ <<f, s>> \in R => e = f
        OBVIOUS
      <3> HIDE DEF E, R
      <3> QED
        BY <3>2, <3>3, OwnPartners, AlignAssumption DEF E
    <2> QED
      BY <2>1, <2>2
  <1>3. /\ HitCallees(x, P, a, r) \subseteq PairedCallees(P, a)
        /\ HitCallers(x, P, a, r) \subseteq PairedCallers(P, a)
    BY DEF HitCallees, HitCallers, PairedCallees, PairedCallers
  <1>4. /\ IsFiniteSet(PairedCallees(P, a)) /\ IsFiniteSet(PairedCallers(P, a))
        /\ IsFiniteSet(PairedEdges(x, P, r)) /\ IsFiniteSet(PairedUses(x, P, r))
    BY <1>2, FS_Subset DEF PairedCallees, PairedCallers, PairedEdges, PairedUses
  <1>5. \A b, c, s : s \in Mates(P, b) /\ s \in Mates(P, c) => b = c
    BY DEF Mates, OneToOne
  <1>6. \A b, s : s \in Mates(P, b) => s \in Claimed(P)
    BY DEF Mates, Claimed
  <1>7. Cardinality(HitCallees(x, P, a, r)) <= Cardinality(PairedEdges(x, P, r))
    <2> DEFINE H == HitCallees(x, P, a, r)
               E == PairedEdges(x, P, r)
               R == {p \in H \X E : b_callees(x, r)[p[2]] \in Mates(P, p[1])}
    <2>1. ASSUME NEW b \in H PROVE \E e \in E : <<b, e>> \in R
      <3>1. PICK s \in Mates(P, b) : s \in CalleeRows(x, r)
        BY DEF HitCallees, Finds
      <3>2. PICK e \in DOMAIN b_callees(x, r) : b_callees(x, r)[e] = s
        BY <3>1 DEF CalleeRows
      <3>3. e \in E
        BY <1>6, <3>1, <3>2 DEF PairedEdges
      <3> QED
        BY <3>1, <3>2, <3>3
    <2>2. \A b, c \in H, e \in E : <<b, e>> \in R /\ <<c, e>> \in R => b = c
      BY <1>5
    <2> HIDE DEF H, E, R
    <2>3. IsFiniteSet(E)
      BY <1>4 DEF E
    <2>4. Cardinality(H) <= Cardinality(E)
      BY <2>1, <2>2, <2>3, OwnPartners
    <2> QED
      BY <2>4 DEF H, E
  <1>8. Cardinality(HitCallers(x, P, a, r)) <= Cardinality(PairedUses(x, P, r))
    <2> DEFINE H == HitCallers(x, P, a, r)
               U == PairedUses(x, P, r)
               R == {p \in H \X U : p[2] \in Mates(P, p[1])}
    <2>1. ASSUME NEW b \in H PROVE \E s \in U : <<b, s>> \in R
      <3>1. PICK s \in Mates(P, b) : s \in CallerRows(x, r)
        BY DEF HitCallers
      <3>2. s \in U
        BY <1>6, <3>1 DEF PairedUses
      <3> QED
        BY <3>1, <3>2
    <2>2. \A b, c \in H, s \in U : <<b, s>> \in R /\ <<c, s>> \in R => b = c
      BY <1>5
    <2> HIDE DEF H, U, R
    <2>3. IsFiniteSet(U)
      BY <1>4 DEF U
    <2>4. Cardinality(H) <= Cardinality(U)
      BY <2>1, <2>2, <2>3, OwnPartners
    <2> QED
      BY <2>4 DEF H, U
  <1>9. /\ Cardinality(HitCallees(x, P, a, r)) <= Cardinality(PairedCallees(P, a))
        /\ Cardinality(HitCallers(x, P, a, r)) <= Cardinality(PairedCallers(P, a))
    BY <1>3, <1>4, FS_Subset
  <1>10. /\ Cardinality(PairedCallees(P, a)) \in Nat /\ Cardinality(PairedCallers(P, a)) \in Nat
         /\ Cardinality(PairedEdges(x, P, r)) \in Nat /\ Cardinality(PairedUses(x, P, r)) \in Nat
         /\ Cardinality(HitCallees(x, P, a, r)) \in Nat /\ Cardinality(HitCallers(x, P, a, r)) \in Nat
    BY <1>3, <1>4, FS_Subset, FS_CardinalityType
  <1>11. n \in Nat /\ hits \in Nat /\ 2 * hits \in Nat /\ 2 * hits <= n
    BY <1>7, <1>8, <1>9, <1>10
  <1> HIDE DEF n, hits
  <1>12. Unit \in Nat
    BY AlignAssumption
  <1>13. CASE n = 0
    BY <1>1, <1>12, <1>13
  <1>14. CASE n # 0
    <2>1. n \in Nat \ {0}
      BY <1>11, <1>14
    <2>2. ((2 * hits) * Unit) \div n \in 0..Unit
      BY <1>11, <1>12, <2>1, Share
    <2> QED
      BY <1>1, <1>14, <2>2
  <1> QED
    BY <1>13, <1>14

----------------------------------------------------------------------------
(* One round.                                                              *)

CollectOrder(x) ==
    {p \in Pairs \X Pairs : \/ p[1][1] < p[2][1]
                            \/ p[1][1] = p[2][1] /\ Before(x, p[1][2], p[2][2])}

Collected(x) == InRank(Pairs, LAMBDA c, d : \/ c[1] < d[1]
                                            \/ c[1] = d[1] /\ Before(x, c[2], d[2]))

LEMMA BeforeOrders ==
    ASSUME NEW x \in Orders
    PROVE  /\ \A r \in Rows : ~Before(x, r, r)
           /\ \A r, s, t \in Rows : Before(x, r, s) /\ Before(x, s, t) => Before(x, r, t)
           /\ \A r, s \in Rows : r # s => Before(x, r, s) \/ Before(x, s, r)
  <1>1. \A r \in Rows : r.batch \in Int /\ r.entry \in Int
    BY AlignAssumption
  <1>2. \A r, s \in Rows : r.batch = s.batch /\ r.entry = s.entry => r = s
    BY AlignAssumption
  <1>3. x = "asIndexed" \/ x = "swapped"
    BY DEF Orders
  <1>4. \A r \in Rows : ~Before(x, r, r)
    BY <1>1 DEF Before
  <1>5. \A r, s, t \in Rows : Before(x, r, s) /\ Before(x, s, t) => Before(x, r, t)
    BY <1>1, <1>3 DEF Before
  <1>6. \A r, s \in Rows : r # s => Before(x, r, s) \/ Before(x, s, r)
    BY <1>1, <1>2, <1>3 DEF Before
  <1> QED
    BY <1>4, <1>5, <1>6

\* target by target and row by row, every candidate is listed once
LEMMA CollectLists ==
    ASSUME TypeOK, NEW x \in Orders
    PROVE  Collected(x) \in Seq(Targets \X Rows) /\ Lists(Collected(x))
  <1> DEFINE R == CollectOrder(x)
  <1>1. \A c, d \in Pairs : <<c, d>> \in R <=> c[1] < d[1] \/ (c[1] = d[1] /\ Before(x, c[2], d[2]))
    BY DEF CollectOrder
  <1> HIDE DEF R
  <1>2. \A c \in Pairs : c = <<c[1], c[2]>> /\ c[1] \in Int /\ c[2] \in Rows
    BY Candidates
  <1>3. \A c \in Pairs : <<c, c>> \notin R
    BY <1>1, <1>2, BeforeOrders
  <1>4. \A c, d, e \in Pairs : <<c, d>> \in R /\ <<d, e>> \in R => <<c, e>> \in R
    BY <1>1, <1>2, BeforeOrders
  <1>5. \A c, d \in Pairs : c # d => <<c, d>> \in R \/ <<d, c>> \in R
    BY <1>1, <1>2, BeforeOrders
  <1>6. StrictOrder(Pairs, R)
    BY <1>3, <1>4, <1>5 DEF StrictOrder
  <1>7. Collected(x) = SortedBy(Pairs, R)
    <2> DEFINE Op(c, d) == c[1] < d[1] \/ (c[1] = d[1] /\ Before(x, c[2], d[2]))
               before == [c \in Pairs |-> Cardinality({d \in Pairs : Op(d, c)})]
    <2>1. Collected(x) = [i \in 1..Cardinality(Pairs) |-> CHOOSE c \in Pairs : before[c] = i - 1]
      BY DEF Collected, InRank
    <2>2. \A c \in Pairs : {d \in Pairs : Op(d, c)} = Below(Pairs, R, c)
      BY <1>1 DEF Below
    <2>3. before = Ranks(Pairs, R)
      BY <2>2 DEF Ranks
    <2> HIDE DEF before
    <2> QED
      BY <2>1, <2>3 DEF SortedBy
  <1>8. IsFiniteSet(Pairs) /\ Pairs \subseteq Targets \X Rows
    BY Candidates
  <1> DEFINE s == SortedBy(Pairs, R)
  <1>9. /\ s \in Seq(Pairs) /\ Len(s) = Cardinality(Pairs)
        /\ \A c \in Pairs : \E i \in 1..Cardinality(Pairs) : s[i] = c
        /\ \A i, j \in 1..Cardinality(Pairs) : s[i] = s[j] => i = j
        /\ \A i \in 1..Cardinality(Pairs) : s[i] \in Pairs
    BY <1>6, <1>8, SortedByRank
  <1> HIDE DEF s
  <1>10. s \in Seq(Targets \X Rows)
    BY <1>8, <1>9
  <1>11. \A i \in 1..Len(s) : s[i] \in Pairs
    BY <1>9
  <1>12. \A c \in Pairs : \E i \in 1..Len(s) : s[i] = c
    BY <1>9, Zenon
  <1>13. Lists(s)
    BY <1>9, <1>11, <1>12 DEF Lists
  <1> QED
    BY <1>7, <1>10, <1>13 DEF s

\* Sorting and the greedy choice keep the candidates, give a 1:1 assignment, and leave
\* no candidate out but for a pair that ranks at least as high.
LEMMA AssignIsFair ==
    ASSUME TypeOK, NEW g \in Scores, NEW old \in Seq(Targets \X Rows), Lists(old)
    PROVE  LET s == Resort(g, old)
               P == assign_greedy(g, s)
           IN  /\ s \in Seq(Targets \X Rows) /\ Lists(s)
               /\ P \in SUBSET Paired /\ OneToOne(P)
               /\ \A c \in Pairs : \E p \in P :
                     (p.a = c[1] \/ p.b = c[2]) /\ ~Outranks(g, c, <<p.a, p.b>>)
  <1> DEFINE R == SortOrder(g, old)
             s == Resort(g, old)
             P == assign_greedy(g, s)
             G == Greedy(s)
  <1>1. StrictOrder(Pairs, R) /\ s = SortedBy(Pairs, R)
    BY SortOrderIsStrict
  <1>2. IsFiniteSet(Pairs) /\ Pairs \subseteq Targets \X Rows
    BY Candidates
  <1>3. /\ s \in Seq(Pairs)
        /\ \A c \in Pairs : \E i \in 1..Len(s) : s[i] = c
        /\ \A i, j \in 1..Len(s) : i < j <=> <<s[i], s[j]>> \in R
        /\ \A i, j \in 1..Len(s) : s[i] = s[j] => i = j
        /\ \A i \in 1..Len(s) : s[i] \in Pairs
    <2> DEFINE t == SortedBy(Pairs, R)
    <2>1. /\ t \in Seq(Pairs) /\ Len(t) = Cardinality(Pairs)
          /\ \A c \in Pairs : \E i \in 1..Cardinality(Pairs) : t[i] = c
          /\ \A i, j \in 1..Cardinality(Pairs) : i < j <=> <<t[i], t[j]>> \in R
          /\ \A i, j \in 1..Cardinality(Pairs) : t[i] = t[j] => i = j
          /\ \A i \in 1..Cardinality(Pairs) : t[i] \in Pairs
      <3> HIDE DEF R
      <3>1. IsFiniteSet(Pairs) /\ StrictOrder(Pairs, R)
        BY <1>1, <1>2
      <3> QED
        BY <3>1, SortedByRank
    <2>2. s = t
      BY <1>1
    <2> HIDE DEF s, t, R
    <2> QED
      BY <2>1, <2>2
  <1>4. \A c, d \in Pairs : Outranks(g, c, d) => <<c, d>> \in R
    BY DEF SortOrder
  <1>5. P = {Pair(g, c) : c \in G}
    BY DEF assign_greedy
  <1> HIDE DEF R, s, P, G
  <1>6. Len(s) \in Nat /\ s \in Seq(Targets \X Rows)
    BY <1>2, <1>3
  <1>7. /\ \A p \in G : \E i \in 1..Len(s) : p = s[i]
        /\ \A p, q \in G : Meets(p, q) => p = q
        /\ \A i \in 1..Len(s) : \E j \in 1..i : s[j] \in G /\ Meets(s[j], s[i])
    BY <1>6, GreedyIsFair DEF G
  <1>8. G \subseteq Pairs
    <2>1. ASSUME NEW p \in G PROVE p \in Pairs
      <3>1. PICK i \in 1..Len(s) : p = s[i]
        BY <1>7
      <3>2. s[i] \in Pairs
        BY <1>3
      <3> QED
        BY <3>1, <3>2
    <2> QED
      BY <2>1
  <1>9. Lists(s)
    <2>1. \A i \in 1..Len(s) : s[i] \in Pairs
      BY <1>3
    <2>2. \A c \in Pairs : \E i \in 1..Len(s) : s[i] = c
      BY <1>3
    <2>3. \A i, j \in 1..Len(s) : s[i] = s[j] => i = j
      BY <1>3
    <2>4. {s[i] : i \in 1..Len(s)} = Pairs
      BY <2>1, <2>2
    <2> QED
      BY <2>3, <2>4 DEF Lists
  <1>10. P \in SUBSET Paired
    <2>1. ASSUME NEW c \in G PROVE Pair(g, c) \in Paired
      <3>1. /\ c \in Pairs /\ c[1] \in Targets /\ c[2] \in Rows /\ look[c].sim \in 0..Unit
            /\ g[c] \in 0..Unit /\ Score(g, c) \in Nat /\ Unit \in Nat
        BY <1>8, Candidates, ScoreIsInt DEF Scores
      <3>2. Min2(Score(g, c), Unit) \in 0..Unit
        BY <3>1 DEF Min2
      <3> QED
        BY <3>1, <3>2 DEF Pair, Paired
    <2> QED
      BY <1>5, <2>1
  <1>11. \A c \in G : Pair(g, c).a = c[1] /\ Pair(g, c).b = c[2] /\ c = <<c[1], c[2]>>
    BY <1>8, Candidates DEF Pair
  <1>12. OneToOne(P)
    <2>1. ASSUME NEW p \in P, NEW q \in P, p.a = q.a \/ p.b = q.b PROVE p = q
      <3>1. PICK c \in G : p = Pair(g, c)
        BY <1>5
      <3>2. PICK d \in G : q = Pair(g, d)
        BY <1>5
      <3>3. Meets(c, d)
        BY <1>11, <2>1, <3>1, <3>2 DEF Meets
      <3> QED
        BY <1>7, <3>1, <3>2, <3>3
    <2> QED
      BY <2>1 DEF OneToOne
  <1>13. ASSUME NEW c \in Pairs
         PROVE  \E p \in P : (p.a = c[1] \/ p.b = c[2]) /\ ~Outranks(g, c, <<p.a, p.b>>)
    <2>1. PICK i \in 1..Len(s) : s[i] = c
      BY <1>3
    <2>2. PICK j \in 1..i : s[j] \in G /\ Meets(s[j], s[i])
      BY <1>7
    <2>3. j \in 1..Len(s) /\ j \in Int /\ i \in Int /\ ~(i < j)
      BY <1>6
    <2>4. <<c, s[j]>> \notin R
      BY <1>3, <2>1, <2>3
    <2>5. ~Outranks(g, c, s[j])
      BY <1>4, <1>8, <2>2, <2>4
    <2>6. Pair(g, s[j]) \in P
      BY <1>5, <2>2
    <2>7. /\ Pair(g, s[j]).a = s[j][1] /\ Pair(g, s[j]).b = s[j][2]
          /\ s[j] = <<Pair(g, s[j]).a, Pair(g, s[j]).b>>
      BY <1>11, <2>2
    <2>8. (Pair(g, s[j]).a = c[1] \/ Pair(g, s[j]).b = c[2])
      BY <2>1, <2>2, <2>7 DEF Meets
    <2>9. ~Outranks(g, c, <<Pair(g, s[j]).a, Pair(g, s[j]).b>>)
      BY <2>5, <2>7
    <2> HIDE DEF P
    <2> QED
      BY <2>6, <2>8, <2>9
  <1> QED
    BY <1>6, <1>9, <1>10, <1>12, <1>13 DEF s, P

----------------------------------------------------------------------------
(* The invariant, order by order.                                          *)

BestFirst(g, P) ==
    \A c \in Pairs : \E p \in P : (p.a = c[1] \/ p.b = c[2]) /\ ~Outranks(g, c, <<p.a, p.b>>)

OrderInv(y) ==
    /\ pc[y] \in {"first", "assign", "score", "accept", "done"} /\ left[y] \in 0..rounds
    /\ cands[y] \in Seq(Targets \X Rows) /\ graph[y] \in {<<>>} \cup [Pairs -> 0..Unit]
    /\ assign[y] \in SUBSET Paired /\ out[y] \in SUBSET Paired
    /\ pc[y] # "first" => graph[y] \in [Pairs -> 0..Unit] /\ Lists(cands[y])
    /\ OneToOne(assign[y])
    /\ pc[y] = "score" => left[y] > 0
    /\ pc[y] = "first" => graph[y] = <<>>
    /\ pc[y] \in {"score", "accept", "done"} => BestFirst(graph[y], assign[y])

Typed == /\ look \in Tables /\ tcalls \in TGraphs /\ ccalls \in CGraphs
         /\ pc = [y \in Orders |-> pc[y]] /\ left = [y \in Orders |-> left[y]]
         /\ cands = [y \in Orders |-> cands[y]] /\ graph = [y \in Orders |-> graph[y]]
         /\ assign = [y \in Orders |-> assign[y]] /\ out = [y \in Orders |-> out[y]]

LEMMA ByOrder == IInv <=> Typed /\ \A y \in Orders : OrderInv(y)
  <1>1. ASSUME IInv PROVE Typed /\ \A y \in Orders : OrderInv(y)
    <2>1. Typed
      BY <1>1 DEF IInv, TypeOK, Typed
    <2>2. ASSUME NEW y \in Orders PROVE OrderInv(y)
      BY <1>1 DEF IInv, TypeOK, ScoreInv, BestPairFirst, OrderInv, BestFirst
    <2> QED
      BY <2>1, <2>2
  <1>2. ASSUME Typed, \A y \in Orders : OrderInv(y) PROVE IInv
    <2>1. TypeOK
      BY <1>2 DEF TypeOK, Typed, OrderInv
    <2>2. ScoreInv
      BY <1>2 DEF ScoreInv, OrderInv
    <2>3. BestPairFirst
      BY <1>2 DEF BestPairFirst, OrderInv, OneToOne, BestFirst
    <2> QED
      BY <2>1, <2>2, <2>3 DEF IInv
  <1> QED
    BY <1>1, <1>2

LEMMA InitInv == Init => IInv
  <1> SUFFICES ASSUME Init PROVE IInv
    OBVIOUS
  <1>1. Typed
    BY DEF Init, Typed
  <1>2. rounds \in Nat
    BY AlignAssumption DEF rounds
  <1>3. \A y \in Orders : OrderInv(y)
    BY <1>2 DEF Init, OrderInv, OneToOne
  <1> QED
    BY <1>1, <1>3, ByOrder

\* what an action on one order has to establish
LEMMA OneOrder ==
    ASSUME IInv, UNCHANGED inputs, NEW x \in Orders,
           pc' = [pc EXCEPT ![x] = pc'[x]], left' = [left EXCEPT ![x] = left'[x]],
           cands' = [cands EXCEPT ![x] = cands'[x]], graph' = [graph EXCEPT ![x] = graph'[x]],
           assign' = [assign EXCEPT ![x] = assign'[x]], out' = [out EXCEPT ![x] = out'[x]],
           OrderInv(x)'
    PROVE  IInv'
  <1>1. Typed /\ \A y \in Orders : OrderInv(y)
    BY ByOrder
  <1>2. Typed'
    BY <1>1 DEF Typed, inputs
  <1>3. look' = look /\ Pairs' = Pairs
    BY DEF inputs, Pairs, Pool
  <1>4. ASSUME NEW y \in Orders, y # x PROVE OrderInv(y)'
    <2>1. /\ pc'[y] = pc[y] /\ left'[y] = left[y] /\ cands'[y] = cands[y]
          /\ graph'[y] = graph[y] /\ assign'[y] = assign[y] /\ out'[y] = out[y]
      BY <1>1, <1>4 DEF Typed
    <2>2. OrderInv(y)
      BY <1>1
    <2>3. pc[y] # "first" => Lists(cands[y])'
      BY <1>3, <2>1, <2>2 DEF OrderInv, Lists
    <2>4. pc[y] \in {"score", "accept", "done"} => BestFirst(graph[y], assign[y])'
      <3>1. \A c, d : Outranks(graph[y], c, d)' <=> Outranks(graph[y], c, d)
        BY <1>3, <2>1 DEF Outranks, Score
      <3>2. BestFirst(graph[y], assign[y])' <=> BestFirst(graph[y], assign[y])
        BY <1>3, <2>1, <3>1 DEF BestFirst
      <3> QED
        BY <2>2, <3>2 DEF OrderInv
    <2>5. OneToOne(assign[y])'
      BY <2>1, <2>2 DEF OrderInv, OneToOne
    <2> QED
      BY <1>3, <2>1, <2>2, <2>3, <2>4, <2>5 DEF OrderInv
  <1>5. \A y \in Orders : OrderInv(y)'
    BY <1>4
  <1>6. (Typed /\ \A y \in Orders : OrderInv(y))'
    BY <1>2, <1>5
  <1> QED
    BY <1>6, ByOrder, PTL

LEMMA CollectInv == ASSUME IInv, NEW x \in Orders, Collect(x) PROVE IInv'
  <1>1. TypeOK /\ Typed /\ OrderInv(x)
    BY ByOrder DEF IInv
  <1>2. /\ pc[x] = "first" /\ pc' = [pc EXCEPT ![x] = "assign"]
        /\ cands' = [cands EXCEPT ![x] = Collected(x)]
        /\ graph' = [graph EXCEPT ![x] = [c \in Pairs |-> 0]]
        /\ UNCHANGED <<inputs, left, assign, out>>
    BY DEF Collect, Collected
  <1>3. look' = look /\ Pairs' = Pairs
    BY <1>2 DEF inputs, Pairs, Pool
  <1>4. Collected(x) \in Seq(Targets \X Rows) /\ Lists(Collected(x))
    BY <1>1, CollectLists
  <1>5. /\ pc'[x] = "assign" /\ cands'[x] = Collected(x) /\ graph'[x] = [c \in Pairs |-> 0]
        /\ left'[x] = left[x] /\ assign'[x] = assign[x] /\ out'[x] = out[x]
    BY <1>1, <1>2 DEF Typed
  <1>6. [c \in Pairs |-> 0] \in [Pairs -> 0..Unit]
    BY AlignAssumption
  <1>7. Lists(cands[x])'
    <2> DEFINE s == Collected(x)
    <2>1. cands'[x] = s /\ Lists(s)
      BY <1>4, <1>5
    <2> HIDE DEF s
    <2> QED
      BY <1>3, <2>1 DEF Lists
  <1>8. OneToOne(assign[x])'
    BY <1>1, <1>5 DEF OrderInv, OneToOne
  <1>9. OrderInv(x)'
    BY <1>1, <1>3, <1>4, <1>5, <1>6, <1>7, <1>8 DEF OrderInv
  <1> QED
    BY <1>1, <1>2, <1>5, <1>9, OneOrder DEF Typed

LEMMA RescoreInv == ASSUME IInv, NEW x \in Orders, Rescore(x) PROVE IInv'
  <1> DEFINE g == [c \in DOMAIN graph[x] |-> graph_score(x, assign[x], c[1], c[2])]
  <1>1. TypeOK /\ Typed /\ OrderInv(x)
    BY ByOrder DEF IInv
  <1>2. /\ pc[x] = "score" /\ pc' = [pc EXCEPT ![x] = "assign"]
        /\ left' = [left EXCEPT ![x] = @ - 1] /\ graph' = [graph EXCEPT ![x] = g]
        /\ UNCHANGED <<inputs, cands, assign, out>>
    BY DEF Rescore
  <1>3. look' = look /\ Pairs' = Pairs
    BY <1>2 DEF inputs, Pairs, Pool
  <1>4. DOMAIN graph[x] = Pairs /\ OneToOne(assign[x]) /\ assign[x] \in SUBSET Paired
    BY <1>1, <1>2 DEF OrderInv
  <1>5. g \in [Pairs -> 0..Unit]
    <2>1. \A c \in Pairs : c[1] \in Targets /\ c[2] \in Rows
      BY <1>1, Candidates
    <2>2. \A c \in Pairs : graph_score(x, assign[x], c[1], c[2]) \in 0..Unit
      BY <1>1, <1>4, <2>1, GraphScoreInUnit
    <2> QED
      BY <1>4, <2>2
  <1> HIDE DEF g
  <1>6. /\ pc'[x] = "assign" /\ graph'[x] = g /\ left'[x] = left[x] - 1
        /\ cands'[x] = cands[x] /\ assign'[x] = assign[x] /\ out'[x] = out[x]
    BY <1>1, <1>2 DEF Typed
  <1>7. left'[x] \in 0..rounds
    BY <1>1, <1>2, <1>6, Candidates DEF OrderInv
  <1>8. OrderInv(x)'
    BY <1>1, <1>2, <1>3, <1>5, <1>6, <1>7 DEF OrderInv, Lists
  <1> QED
    BY <1>1, <1>2, <1>6, <1>8, OneOrder DEF Typed

LEMMA AssignInv == ASSUME IInv, NEW x \in Orders, Assign(x) PROVE IInv'
  <1> DEFINE g == graph[x]
             s == Resort(graph[x], cands[x])
             P == assign_greedy(graph[x], s)
  <1>1. TypeOK /\ Typed /\ OrderInv(x)
    BY ByOrder DEF IInv
  <1>2. /\ pc[x] = "assign" /\ cands' = [cands EXCEPT ![x] = s] /\ assign' = [assign EXCEPT ![x] = P]
        /\ pc' = [pc EXCEPT ![x] = IF left[x] > 0 /\ (left[x] = rounds \/ P # assign[x])
                                   THEN "score" ELSE "accept"]
        /\ UNCHANGED <<inputs, left, graph, out>>
    BY DEF Assign
  <1>3. look' = look /\ Pairs' = Pairs
    BY <1>2 DEF inputs, Pairs, Pool
  <1>4. g \in Scores /\ cands[x] \in Seq(Targets \X Rows) /\ Lists(cands[x])
    BY <1>1, <1>2 DEF OrderInv, Scores
  <1>5. /\ s \in Seq(Targets \X Rows) /\ Lists(s) /\ P \in SUBSET Paired /\ OneToOne(P)
        /\ \A c \in Pairs : \E p \in P : (p.a = c[1] \/ p.b = c[2]) /\ ~Outranks(g, c, <<p.a, p.b>>)
    BY <1>1, <1>4, AssignIsFair
  <1> HIDE DEF g, s, P
  <1>6. /\ pc'[x] \in {"score", "accept"} /\ (pc'[x] = "score" => left[x] > 0)
        /\ cands'[x] = s /\ assign'[x] = P /\ graph'[x] = g
        /\ left'[x] = left[x] /\ out'[x] = out[x]
    BY <1>1, <1>2 DEF Typed, g
  <1>7. Lists(cands[x])'
    BY <1>3, <1>5, <1>6 DEF Lists
  <1>8. BestFirst(graph[x], assign[x])'
    BY <1>3, <1>5, <1>6 DEF BestFirst, Outranks, Score
  <1>9. OneToOne(assign[x])'
    BY <1>5, <1>6 DEF OneToOne
  <1>10. graph'[x] \in [Pairs -> 0..Unit]
    BY <1>4, <1>6 DEF Scores
  <1>11. OrderInv(x)'
    BY <1>1, <1>3, <1>5, <1>6, <1>7, <1>8, <1>9, <1>10 DEF OrderInv
  <1> QED
    BY <1>1, <1>2, <1>6, <1>11, OneOrder DEF Typed, g

LEMMA AcceptInv == ASSUME IInv, NEW x \in Orders, Accept(x) PROVE IInv'
  <1>1. TypeOK /\ Typed /\ OrderInv(x)
    BY ByOrder DEF IInv
  <1>2. /\ pc[x] = "accept" /\ pc' = [pc EXCEPT ![x] = "done"]
        /\ out' = [out EXCEPT ![x] = {p \in assign[x] : p.score >= Threshold}]
        /\ UNCHANGED <<inputs, left, cands, graph, assign>>
    BY DEF Accept
  <1>3. look' = look /\ Pairs' = Pairs
    BY <1>2 DEF inputs, Pairs, Pool
  <1>4. /\ pc'[x] = "done" /\ out'[x] \subseteq assign[x] /\ left'[x] = left[x]
        /\ cands'[x] = cands[x] /\ graph'[x] = graph[x] /\ assign'[x] = assign[x]
    BY <1>1, <1>2 DEF Typed
  <1>5. Lists(cands[x])'
    BY <1>1, <1>2, <1>3, <1>4 DEF OrderInv, Lists
  <1>6. BestFirst(graph[x], assign[x])'
    BY <1>1, <1>2, <1>3, <1>4 DEF OrderInv, BestFirst, Outranks, Score
  <1>7. OneToOne(assign[x])'
    BY <1>1, <1>4 DEF OrderInv, OneToOne
  <1>8. OrderInv(x)'
    BY <1>1, <1>2, <1>3, <1>4, <1>5, <1>6, <1>7 DEF OrderInv
  <1> QED
    BY <1>1, <1>2, <1>4, <1>8, OneOrder DEF Typed

LEMMA StepInv == IInv /\ [Next]_vars => IInv'
  <1> SUFFICES ASSUME IInv, [Next]_vars PROVE IInv'
    OBVIOUS
  <1>1. ASSUME UNCHANGED vars PROVE IInv'
    <2>1. /\ inputs' = inputs /\ pc' = pc /\ left' = left /\ cands' = cands
          /\ graph' = graph /\ assign' = assign /\ out' = out
      BY <1>1 DEF vars
    <2>2. look' = look /\ tcalls' = tcalls /\ ccalls' = ccalls /\ Pairs' = Pairs
      BY <2>1 DEF inputs, Pairs, Pool
    <2>3. TypeOK'
      BY <2>1, <2>2 DEF IInv, TypeOK
    <2>4. ScoreInv'
      BY <2>1, <2>2 DEF IInv, ScoreInv, Lists
    <2>5. BestPairFirst'
      BY <2>1, <2>2 DEF IInv, BestPairFirst, Outranks, Score
    <2> QED
      BY <2>3, <2>4, <2>5 DEF IInv
  <1>2. ASSUME NEW x \in Orders, Collect(x) PROVE IInv'
    BY <1>2, CollectInv
  <1>3. ASSUME NEW x \in Orders, Assign(x) PROVE IInv'
    BY <1>3, AssignInv
  <1>4. ASSUME NEW x \in Orders, Rescore(x) PROVE IInv'
    BY <1>4, RescoreInv
  <1>5. ASSUME NEW x \in Orders, Accept(x) PROVE IInv'
    BY <1>5, AcceptInv
  <1> QED
    BY <1>1, <1>2, <1>3, <1>4, <1>5 DEF Next, Done

LEMMA Invariance == Spec => []IInv
  BY InitInv, StepInv, PTL DEF Spec

\* The graph score of a candidate never leaves [0,1], whatever the two call graphs and
\* however the rounds went.
THEOREM GraphScores == Spec => []GraphInUnit
  <1>1. IInv => GraphInUnit
    <2> SUFFICES ASSUME IInv, NEW x \in Orders, NEW c \in DOMAIN graph[x]
                 PROVE  graph[x][c] \in 0..Unit
      BY DEF GraphInUnit
    <2>1. graph[x] = <<>> \/ graph[x] \in [Pairs -> 0..Unit]
      BY DEF IInv, TypeOK
    <2>2. graph[x] # <<>>
      OBVIOUS
    <2> QED
      BY <2>1, <2>2
  <1> QED
    BY <1>1, Invariance, PTL

\* The assignment is 1:1 and best pair first after every round, for function sets,
\* call graphs and numbers of rounds of any size.
THEOREM BestPairsFirst == Spec => []BestPairFirst
  <1>1. IInv => BestPairFirst
    BY DEF IInv
  <1> QED
    BY <1>1, Invariance, PTL

----------------------------------------------------------------------------
(* The order of indexing.                                                  *)

\* every binary, which is what a label stands for, was indexed in one batch
OneBatchPerLabel == \A r, s \in Rows : r.group = s.group => r.batch = s.batch

\* Then a label and an entry name one row, and callee lists ascend in either order:
\* the graph score does not depend on the order.
LEMMA ScoreHasNoOrder ==
    ASSUME OneBatchPerLabel, NEW x \in Orders, NEW P, NEW a, NEW r \in Rows
    PROVE  graph_score(x, P, a, r) = graph_score("asIndexed", P, a, r)
  <1>1. \A s \in Rows : s.batch \in Int /\ s.group \in Int /\ s.entry \in Int
    BY AlignAssumption
  <1>2. \A q \in Rows : \A e : \A s, t \in Named(q, e) : s = t
    BY AlignAssumption DEF Named, OneBatchPerLabel
  <1>3. \A q \in Rows : \A e : \A y \in Orders : b_idx(y, q, e) = b_idx("asIndexed", q, e)
    <2>0. TAKE q \in Rows
    <2>1. TAKE e
    <2>2. TAKE y \in Orders
    <2>3. \A s \in Named(q, e) : Named(q, e) \ {s} = {}
      BY <1>2
    <2>4. b_idx(y, q, e) = CHOOSE s \in Named(q, e) : TRUE
      <3>1. \A s \in Named(q, e) : (\A t \in Named(q, e) \ {s} : Before(y, t, s)) <=> TRUE
        BY <2>3
      <3> HIDE DEF Named
      <3> QED
        BY <3>1 DEF b_idx
    <2>5. b_idx("asIndexed", q, e) = CHOOSE s \in Named(q, e) : TRUE
      <3>1. \A s \in Named(q, e) : (\A t \in Named(q, e) \ {s} : Before("asIndexed", t, s)) <=> TRUE
        BY <2>3
      <3> HIDE DEF Named
      <3> QED
        BY <3>1 DEF b_idx
    <2> QED
      BY <2>4, <2>5
  <1>4. \A q \in Rows : \A y \in Orders : b_callees(y, q) = b_callees("asIndexed", q)
    <2>1. TAKE q \in Rows
    <2>2. TAKE y \in Orders
    <2> DEFINE known == {e \in ccalls[q] : Named(q, e) # {}}
    <2>3. /\ b_callees(y, q) = [e \in known |-> b_idx(y, q, e)]
          /\ b_callees("asIndexed", q) = [e \in known |-> b_idx("asIndexed", q, e)]
      BY DEF b_callees
    <2> HIDE DEF known
    <2> QED
      BY <1>3, <2>3
  <1>5. \A q \in Rows : \A y \in Orders : CalleeRows(y, q) = CalleeRows("asIndexed", q)
    BY <1>4 DEF CalleeRows
  <1>6. \A q : \A y \in Orders : CallerRows(y, q) = CallerRows("asIndexed", q)
    BY <1>5 DEF CallerRows
  <1>7. \A q \in Rows : \A y \in Orders : SortedByIndex(y, q)
    <2>1. TAKE q \in Rows
    <2>2. TAKE y \in Orders
    <2>3. ASSUME NEW e \in DOMAIN b_callees(y, q)
          PROVE  b_callees(y, q)[e] \in Named(q, e)
      <3>1. Named(q, e) # {} /\ b_callees(y, q)[e] = b_idx(y, q, e)
        BY DEF b_callees
      <3>2. \E s \in Named(q, e) : \A t \in Named(q, e) \ {s} : Before(y, t, s)
        BY <1>2, <3>1
      <3> QED
        BY <3>1, <3>2 DEF b_idx
    <2>4. ASSUME NEW e \in DOMAIN b_callees(y, q), NEW f \in DOMAIN b_callees(y, q), e < f
          PROVE  Before(y, b_callees(y, q)[e], b_callees(y, q)[f])
      <3> DEFINE s == b_callees(y, q)[e]
                 t == b_callees(y, q)[f]
      <3>1. s \in Named(q, e) /\ t \in Named(q, f)
        BY <2>3
      <3> HIDE DEF s, t
      <3>2. s \in Rows /\ t \in Rows /\ s.group = q.group /\ t.group = q.group /\ s.entry = e /\ t.entry = f
        BY <3>1 DEF Named
      <3>3. s.batch = t.batch /\ s.entry < t.entry
        BY <2>4, <3>2 DEF OneBatchPerLabel
      <3> QED
        BY <3>3 DEF Before, s, t
    <2> QED
      BY <2>4 DEF SortedByIndex
  <1>8. "asIndexed" \in Orders
    BY DEF Orders
  <1>9. \A s : Finds(x, r, s) <=> Finds("asIndexed", r, s)
    BY <1>5, <1>7, <1>8 DEF Finds
  <1> DEFINE n(y) == Cardinality(PairedCallees(P, a)) + Cardinality(PairedCallers(P, a))
                     + Cardinality(PairedEdges(y, P, r)) + Cardinality(PairedUses(y, P, r))
             hits(y) == Cardinality(HitCallees(y, P, a, r)) + Cardinality(HitCallers(y, P, a, r))
  <1>10. \A y : graph_score(y, P, a, r) = IF n(y) = 0 THEN 0 ELSE (2 * hits(y) * Unit) \div n(y)
    BY DEF graph_score, PairedCallees, PairedCallers, PairedEdges, PairedUses,
       HitCallees, HitCallers, Mates, Claimed
  <1>11. /\ PairedEdges(x, P, r) = PairedEdges("asIndexed", P, r)
         /\ PairedUses(x, P, r) = PairedUses("asIndexed", P, r)
         /\ HitCallers(x, P, a, r) = HitCallers("asIndexed", P, a, r)
    BY <1>4, <1>6 DEF PairedEdges, PairedUses, HitCallers
  <1>12. HitCallees(x, P, a, r) = HitCallees("asIndexed", P, a, r)
    BY <1>9 DEF HitCallees
  <1>13. n(x) = n("asIndexed") /\ hits(x) = hits("asIndexed")
    BY <1>11, <1>12
  <1> HIDE DEF n, hits
  <1> QED
    BY <1>10, <1>13

\* the pairs of a round, the candidates sorted without regard to their order before
RankedBy(g) == SortedBy(Pairs, {p \in Pairs \X Pairs : Outranks(g, p[1], p[2])})
Best(g) == assign_greedy(g, RankedBy(g))

\* Two candidates never tie: the sort does not depend on what it sorts.
LEMMA SortHasNoOrder ==
    ASSUME OneBatchPerLabel, TypeOK, NEW g \in Scores,
           NEW old \in Seq(Targets \X Rows), Lists(old)
    PROVE  assign_greedy(g, Resort(g, old)) = Best(g)
  <1>1. \A c, d \in Pairs : Ties(g, c, d) => c = d
    <2>1. TAKE c, d \in Pairs
    <2>2. HAVE Ties(g, c, d)
    <2>3. /\ c = <<c[1], c[2]>> /\ c[2] \in Rows /\ d = <<d[1], d[2]>> /\ d[2] \in Rows
      BY Candidates
    <2>4. c[1] = d[1] /\ c[2].group = d[2].group /\ c[2].entry = d[2].entry
      BY <2>2 DEF Ties
    <2>5. c[2] = d[2]
      BY <2>3, <2>4, AlignAssumption DEF OneBatchPerLabel
    <2> QED
      BY <2>3, <2>4, <2>5
  <1>2. Len(old) \in Nat
    OBVIOUS
  <1>3. \A c \in Pairs : Place(old, c) \in 1..Len(old)
    <2>1. \A c \in Pairs : \E i \in 1..Len(old) : old[i] = c
      BY DEF Lists
    <2> QED
      BY <2>1 DEF Place
  <1>4. \A c, d \in Pairs : ~(Ties(g, c, d) /\ Place(old, c) < Place(old, d))
    BY <1>1, <1>2, <1>3
  <1>5. SortOrder(g, old) = {p \in Pairs \X Pairs : Outranks(g, p[1], p[2])}
    <2>1. \A p \in Pairs \X Pairs : p[1] \in Pairs /\ p[2] \in Pairs
      OBVIOUS
    <2> QED
      BY <1>4, <2>1 DEF SortOrder
  <1>6. Resort(g, old) = RankedBy(g)
    <2>1. Resort(g, old) = SortedBy(Pairs, SortOrder(g, old))
      BY SortOrderIsStrict
    <2> QED
      BY <1>5, <2>1 DEF RankedBy
  <1> QED
    BY <1>6 DEF Best

----------------------------------------------------------------------------
\* the scores of every round, and where align stops
Rescored(P) == [c \in Pairs |-> graph_score("asIndexed", P, c[1], c[2])]
IsTrack(T) ==
    T = [k \in 0..rounds |-> IF k = 0 THEN [c \in Pairs |-> 0] ELSE Rescored(Best(T[k - 1]))]
Stops(T, k) == k = rounds \/ (k # 0 /\ Best(T[k]) = Best(T[k - 1]))

LEMMA TrackExists ==
    ASSUME TypeOK PROVE \E T : IsTrack(T)
  <1> DEFINE First == [c \in Pairs |-> 0]
             After(g) == Rescored(Best(g))
             Is(n, f) == f = [k \in 0..n |-> IF k = 0 THEN First ELSE After(f[k - 1])]
             Bad == {m \in Nat : \A f : ~Is(m, f)}
  <1>0. rounds \in Nat
    BY Candidates
  <1>1. Bad = {}
    <2> HIDE DEF First, After
    <2> SUFFICES ASSUME Bad # {} PROVE FALSE
      OBVIOUS
    <2>1. PICK m \in Bad : \A y \in Bad : m <= y
      BY LeastExists
    <2>2. m # 0
      <3> DEFINE z == [k \in 0..0 |-> First]
      <3>1. \A k \in 0..0 : k = 0 /\ z[k] = First
        OBVIOUS
      <3>2. z = [k \in 0..0 |-> IF k = 0 THEN First ELSE After(z[k - 1])]
        BY <3>1
      <3> HIDE DEF z
      <3>3. Is(0, z)
        BY <3>2
      <3> QED
        BY <2>1, <3>3
    <2>3. m - 1 \in Nat /\ m - 1 \notin Bad
      <3>1. m \in Nat /\ m # 0 /\ \A y \in Bad : m <= y
        BY <2>1, <2>2
      <3> HIDE DEF Bad
      <3> QED
        BY <3>1
    <2>4. PICK f : Is(m - 1, f)
      BY <2>3
    <2> DEFINE h == [k \in 0..m |-> IF k = m THEN After(f[m - 1]) ELSE f[k]]
    <2>5. \A k \in 0..(m - 1) : f[k] = IF k = 0 THEN First ELSE After(f[k - 1])
      BY <2>4
    <2>6. ASSUME NEW k \in 0..m
          PROVE  h[k] = IF k = 0 THEN First ELSE After(h[k - 1])
      <3>1. CASE k = m
        BY <2>2, <3>1
      <3>2. CASE k # m
        <4>1. k \in 0..(m - 1) /\ h[k] = f[k] /\ (k # 0 => k - 1 \in 0..m /\ h[k - 1] = f[k - 1])
          BY <3>2
        <4> QED
          BY <2>5, <4>1
      <3> QED
        BY <3>1, <3>2
    <2>7. Is(m, h)
      <3>1. h = [k \in 0..m |-> IF k = 0 THEN First ELSE After(h[k - 1])]
        BY <2>6
      <3> HIDE DEF h
      <3> QED
        BY <3>1
    <2> QED
      BY <2>1, <2>7
  <1> HIDE DEF Is
  <1>2. \E f : Is(rounds, f)
    BY <1>0, <1>1
  <1>3. PICK f : Is(rounds, f)
    BY <1>2
  <1>4. IsTrack(f)
    BY <1>3 DEF Is, IsTrack
  <1> QED
    BY <1>4

LEMMA TrackSteps ==
    ASSUME TypeOK, NEW T, IsTrack(T)
    PROVE  /\ T[0] = [c \in Pairs |-> 0]
           /\ \A k \in 1..rounds : T[k] = Rescored(Best(T[k - 1]))
  <1>1. rounds \in Nat
    BY Candidates
  <1> DEFINE First == [c \in Pairs |-> 0]
             After(k) == Rescored(Best(T[k - 1]))
  <1>2. T = [k \in 0..rounds |-> IF k = 0 THEN First ELSE After(k)]
    BY DEF IsTrack
  <1> HIDE DEF First, After
  <1>3. T[0] = First /\ \A k \in 1..rounds : T[k] = After(k)
    BY <1>1, <1>2
  <1> QED
    BY <1>3 DEF First, After

\* Where an order is: on the one track, and not past its stop.
OnTrack(T, x) ==
    LET k == rounds - left[x]
    IN  IF pc[x] = "first" THEN left[x] = rounds /\ assign[x] = {}
        ELSE /\ graph[x] = T[k]
             /\ \A j \in 0..(k - 1) : ~Stops(T, j)
             /\ pc[x] = "assign" /\ k # 0 => assign[x] = Best(T[k - 1])
             /\ pc[x] # "assign" => assign[x] = Best(T[k])
             /\ pc[x] = "score" => ~Stops(T, k)
             /\ pc[x] \in {"accept", "done"} => Stops(T, k)
             /\ pc[x] = "done" => out[x] = {p \in assign[x] : p.score >= Threshold}

\* a track depends on the inputs only
LEMMA TrackStays ==
    ASSUME UNCHANGED inputs, NEW T
    PROVE  /\ IsTrack(T) => IsTrack(T)'
           /\ \A k : Stops(T, k)' <=> Stops(T, k)
           /\ \A g : Best(g)' = Best(g)
  <1>1. look' = look /\ tcalls' = tcalls /\ ccalls' = ccalls /\ lucky' = lucky
    BY DEF inputs
  <1>2. Pairs' = Pairs
    BY <1>1 DEF Pairs, Pool
  <1>3. \A g, c : Score(g, c)' = Score(g, c)
    BY <1>1 DEF Score
  <1>4. \A g, c, d : Outranks(g, c, d)' <=> Outranks(g, c, d)
    BY <1>1, <1>3 DEF Outranks
  <1>5. \A g, c : Pair(g, c)' = Pair(g, c)
    BY <1>1, <1>3 DEF Pair
  <1>6. \A g : RankedBy(g)' = RankedBy(g)
    BY <1>2, <1>4 DEF RankedBy
  <1>7. \A g : Best(g)' = Best(g)
    BY <1>5, <1>6 DEF Best, assign_greedy
  <1>8. \A x, r : b_callees(x, r)' = b_callees(x, r)
    BY <1>1 DEF b_callees
  <1>9. /\ \A x, r : CalleeRows(x, r)' = CalleeRows(x, r)
        /\ \A x, r : SortedByIndex(x, r)' <=> SortedByIndex(x, r)
    BY <1>8 DEF CalleeRows, SortedByIndex
  <1>10. /\ \A x, r : CallerRows(x, r)' = CallerRows(x, r)
         /\ \A x, r, s : Finds(x, r, s)' <=> Finds(x, r, s)
    BY <1>1, <1>9 DEF CallerRows, Finds
  <1>11. /\ \A a : a_callees(a)' = a_callees(a)
         /\ \A a : a_callers(a)' = a_callers(a)
    BY <1>1 DEF a_callees, a_callers
  <1>12. \A x, P, a, r : graph_score(x, P, a, r)' = graph_score(x, P, a, r)
    <2>1. TAKE x, P, a, r
    <2> DEFINE n == Cardinality(PairedCallees(P, a)) + Cardinality(PairedCallers(P, a))
                    + Cardinality(PairedEdges(x, P, r)) + Cardinality(PairedUses(x, P, r))
               hits == Cardinality(HitCallees(x, P, a, r)) + Cardinality(HitCallers(x, P, a, r))
    <2>2. graph_score(x, P, a, r) = IF n = 0 THEN 0 ELSE (2 * hits * Unit) \div n
      BY DEF graph_score, PairedCallees, PairedCallers, PairedEdges, PairedUses,
         HitCallees, HitCallers, Mates, Claimed
    <2>3. graph_score(x, P, a, r)' = IF n' = 0 THEN 0 ELSE (2 * hits' * Unit) \div n'
      BY DEF graph_score, PairedCallees, PairedCallers, PairedEdges, PairedUses,
         HitCallees, HitCallers, Mates, Claimed
    <2>4. /\ PairedCallees(P, a)' = PairedCallees(P, a) /\ PairedCallers(P, a)' = PairedCallers(P, a)
          /\ PairedEdges(x, P, r)' = PairedEdges(x, P, r) /\ PairedUses(x, P, r)' = PairedUses(x, P, r)
          /\ HitCallees(x, P, a, r)' = HitCallees(x, P, a, r)
          /\ HitCallers(x, P, a, r)' = HitCallers(x, P, a, r)
      BY <1>8, <1>10, <1>11 DEF PairedCallees, PairedCallers, PairedEdges, PairedUses,
         HitCallees, HitCallers
    <2>5. n' = n /\ hits' = hits
      BY <2>4
    <2> HIDE DEF n, hits
    <2> QED
      BY <2>2, <2>3, <2>5
  <1>13. \A P : Rescored(P)' = Rescored(P)
    BY <1>2, <1>12 DEF Rescored
  <1>14. rounds' = rounds
    BY DEF rounds
  <1>15. \A k : Stops(T, k)' <=> Stops(T, k)
    BY <1>7, <1>14 DEF Stops
  <1>16. IsTrack(T) => IsTrack(T)'
    BY <1>2, <1>7, <1>13, <1>14 DEF IsTrack
  <1> QED
    BY <1>7, <1>15, <1>16

FollowsTrack == \E T : IsTrack(T) /\ \A x \in Orders : OnTrack(T, x)

\* what an action on one order has to establish of it
LEMMA OneOrderOnTrack ==
    ASSUME IInv, UNCHANGED inputs, NEW T, IsTrack(T), \A y \in Orders : OnTrack(T, y),
           NEW x \in Orders,
           pc' = [pc EXCEPT ![x] = pc'[x]], left' = [left EXCEPT ![x] = left'[x]],
           graph' = [graph EXCEPT ![x] = graph'[x]],
           assign' = [assign EXCEPT ![x] = assign'[x]], out' = [out EXCEPT ![x] = out'[x]],
           OnTrack(T, x)'
    PROVE  FollowsTrack'
  <1>1. Typed
    BY ByOrder
  <1>2. IsTrack(T)' /\ \A k : Stops(T, k)' <=> Stops(T, k)
    BY TrackStays
  <1>3. \A g : Best(g)' = Best(g)
    BY TrackStays
  <1>4. ASSUME NEW y \in Orders, y # x PROVE OnTrack(T, y)'
    <2>1. /\ pc'[y] = pc[y] /\ left'[y] = left[y] /\ graph'[y] = graph[y]
          /\ assign'[y] = assign[y] /\ out'[y] = out[y]
      BY <1>1, <1>4 DEF Typed
    <2>2. OnTrack(T, y)
      OBVIOUS
    <2> QED
      BY <1>2, <1>3, <2>1, <2>2 DEF OnTrack
  <1>5. \A y \in Orders : OnTrack(T, y)'
    BY <1>4
  <1> QED
    BY <1>2, <1>5 DEF FollowsTrack

\* the place of an order on the track
LEMMA Position ==
    ASSUME IInv, NEW x \in Orders
    PROVE  /\ rounds \in Nat /\ left[x] \in 0..rounds /\ rounds - left[x] \in 0..rounds
           /\ pc[x] = "score" => left[x] > 0
           /\ pc[x] # "first" => graph[x] \in Scores /\ Lists(cands[x])
           /\ cands[x] \in Seq(Targets \X Rows)
  BY ByOrder, Candidates DEF IInv, OrderInv, Scores

LEMMA CollectOnTrack ==
    ASSUME IInv, NEW T, IsTrack(T), \A y \in Orders : OnTrack(T, y),
           NEW x \in Orders, Collect(x)
    PROVE  FollowsTrack'
  <1>1. Typed /\ TypeOK /\ rounds \in Nat
    BY ByOrder, Position DEF IInv
  <1>2. /\ pc[x] = "first" /\ pc' = [pc EXCEPT ![x] = "assign"]
        /\ graph' = [graph EXCEPT ![x] = [c \in Pairs |-> 0]]
        /\ UNCHANGED <<inputs, left, assign, out>>
    BY DEF Collect
  <1>3. /\ pc'[x] = "assign" /\ graph'[x] = [c \in Pairs |-> 0] /\ left'[x] = left[x]
        /\ assign'[x] = assign[x] /\ out'[x] = out[x]
    BY <1>1, <1>2 DEF Typed
  <1>4. left[x] = rounds /\ T[0] = [c \in Pairs |-> 0]
    BY <1>1, <1>2, TrackSteps DEF OnTrack
  <1>5. OnTrack(T, x)'
    <2>1. rounds - left'[x] = 0 /\ graph'[x] = T[0]
      BY <1>1, <1>3, <1>4
    <2> QED
      BY <1>3, <2>1 DEF OnTrack
  <1> QED
    BY <1>1, <1>2, <1>3, <1>5, OneOrderOnTrack DEF Typed

LEMMA RescoreOnTrack ==
    ASSUME OneBatchPerLabel, IInv, NEW T, IsTrack(T), \A y \in Orders : OnTrack(T, y),
           NEW x \in Orders, Rescore(x)
    PROVE  FollowsTrack'
  <1> DEFINE g == [c \in DOMAIN graph[x] |-> graph_score(x, assign[x], c[1], c[2])]
  <1>1. Typed /\ TypeOK
    BY ByOrder DEF IInv
  <1>2. /\ pc[x] = "score" /\ pc' = [pc EXCEPT ![x] = "assign"]
        /\ left' = [left EXCEPT ![x] = @ - 1] /\ graph' = [graph EXCEPT ![x] = g]
        /\ UNCHANGED <<inputs, cands, assign, out>>
    BY DEF Rescore
  <1>3. /\ pc'[x] = "assign" /\ graph'[x] = g /\ left'[x] = left[x] - 1
        /\ assign'[x] = assign[x] /\ out'[x] = out[x]
    BY <1>1, <1>2 DEF Typed
  <1>4. /\ rounds \in Nat /\ left[x] \in 0..rounds /\ left[x] > 0 /\ DOMAIN graph[x] = Pairs
    BY <1>2, Position DEF Scores
  <1>5. PICK k \in 0..(rounds - 1) : rounds - left[x] = k /\ rounds - left'[x] = k + 1
    BY <1>3, <1>4
  <1>6. /\ assign[x] = Best(T[k]) /\ ~Stops(T, k) /\ \A j \in 0..(k - 1) : ~Stops(T, j)
    BY <1>2, <1>5 DEF OnTrack
  <1>7. g = Rescored(assign[x])
    <2>1. \A c \in Pairs : c[2] \in Rows
      BY <1>1, Candidates
    <2>2. \A c \in Pairs : graph_score(x, assign[x], c[1], c[2])
                              = graph_score("asIndexed", assign[x], c[1], c[2])
      BY <2>1, ScoreHasNoOrder
    <2> QED
      BY <1>4, <2>2 DEF Rescored
  <1> HIDE DEF g
  <1>8. T[k + 1] = Rescored(Best(T[k]))
    <2>1. k + 1 \in 1..rounds /\ (k + 1) - 1 = k
      BY <1>4, <1>5
    <2> QED
      BY <1>1, <2>1, TrackSteps
  <1>9. \A j : Stops(T, j)' <=> Stops(T, j)
    BY <1>2, TrackStays
  <1>10. Best(T[k])' = Best(T[k])
    BY <1>2, TrackStays
  <1>11. OnTrack(T, x)'
    <2>1. graph'[x] = T[k + 1]
      BY <1>3, <1>6, <1>7, <1>8
    <2>2. \A j \in 0..((k + 1) - 1) : ~Stops(T, j)'
      BY <1>4, <1>5, <1>6, <1>9
    <2>3. assign'[x] = Best(T[(k + 1) - 1])'
      <3>1. (k + 1) - 1 = k
        BY <1>4, <1>5
      <3>2. \A h : Best(h)' = Best(h)
        BY <1>2, TrackStays
      <3> QED
        BY <1>3, <1>6, <3>1, <3>2
    <2> QED
      BY <1>3, <1>5, <2>1, <2>2, <2>3 DEF OnTrack
  <1> QED
    BY <1>1, <1>2, <1>3, <1>11, OneOrderOnTrack DEF Typed

LEMMA AssignOnTrack ==
    ASSUME OneBatchPerLabel, IInv, NEW T, IsTrack(T), \A y \in Orders : OnTrack(T, y),
           NEW x \in Orders, Assign(x)
    PROVE  FollowsTrack'
  <1> DEFINE P == assign_greedy(graph[x], Resort(graph[x], cands[x]))
  <1>1. Typed /\ TypeOK
    BY ByOrder DEF IInv
  <1>2. /\ pc[x] = "assign" /\ assign' = [assign EXCEPT ![x] = P]
        /\ pc' = [pc EXCEPT ![x] = IF left[x] > 0 /\ (left[x] = rounds \/ P # assign[x])
                                   THEN "score" ELSE "accept"]
        /\ UNCHANGED <<inputs, left, graph, out>>
    BY DEF Assign
  <1>3. /\ assign'[x] = P /\ graph'[x] = graph[x] /\ left'[x] = left[x] /\ out'[x] = out[x]
        /\ pc'[x] = IF left[x] > 0 /\ (left[x] = rounds \/ P # assign[x]) THEN "score" ELSE "accept"
    BY <1>1, <1>2 DEF Typed
  <1>4. rounds \in Nat /\ left[x] \in 0..rounds
    BY Position
  <1>12. PICK k \in 0..rounds : rounds - left[x] = k
    BY Position
  <1>5. /\ graph[x] = T[k] /\ (k # 0 => assign[x] = Best(T[k - 1]))
        /\ \A j \in 0..(k - 1) : ~Stops(T, j)
    BY <1>2, <1>12 DEF OnTrack
  <1>6. P = Best(T[k])
    <2>1. graph[x] \in Scores /\ cands[x] \in Seq(Targets \X Rows) /\ Lists(cands[x])
      BY <1>2, Position
    <2>2. P = Best(graph[x])
      BY <1>1, <2>1, SortHasNoOrder
    <2> QED
      BY <1>5, <2>2
  <1> HIDE DEF P
  <1>7. (pc'[x] = "score" /\ ~Stops(T, k)) \/ (pc'[x] = "accept" /\ Stops(T, k))
    <2>1. (left[x] > 0 <=> k # rounds) /\ (left[x] = rounds <=> k = 0)
      BY <1>4, <1>12
    <2>2. k # 0 => (P = assign[x] <=> Best(T[k]) = Best(T[k - 1]))
      BY <1>5, <1>6
    <2>3. k # 0 /\ P = assign[x] <=> k # 0 /\ Best(T[k]) = Best(T[k - 1])
      BY <2>2
    <2>4. Stops(T, k) <=> k = rounds \/ (k # 0 /\ Best(T[k]) = Best(T[k - 1]))
      BY DEF Stops
    <2>5. Stops(T, k) <=> ~(left[x] > 0) \/ (left[x] # rounds /\ P = assign[x])
      BY <2>1, <2>3, <2>4
    <2> QED
      BY <1>3, <2>5
  <1>8. \A j : Stops(T, j)' <=> Stops(T, j)
    BY <1>2, TrackStays
  <1>9. \A h : Best(h)' = Best(h)
    BY <1>2, TrackStays
  <1>10. rounds - left'[x] = k
    BY <1>3, <1>12
  <1>11. OnTrack(T, x)'
    <2>1. graph'[x] = T[k] /\ assign'[x] = Best(T[k])'
      BY <1>3, <1>5, <1>6, <1>9
    <2>2. \A j \in 0..(k - 1) : ~Stops(T, j)'
      BY <1>5, <1>8
    <2>3. (pc'[x] = "score" /\ ~Stops(T, k)') \/ (pc'[x] = "accept" /\ Stops(T, k)')
      BY <1>7, <1>8
    <2> QED
      BY <1>10, <2>1, <2>2, <2>3 DEF OnTrack
  <1> QED
    BY <1>1, <1>2, <1>3, <1>11, OneOrderOnTrack DEF Typed

LEMMA AcceptOnTrack ==
    ASSUME IInv, NEW T, IsTrack(T), \A y \in Orders : OnTrack(T, y),
           NEW x \in Orders, Accept(x)
    PROVE  FollowsTrack'
  <1>1. Typed
    BY ByOrder
  <1>2. /\ pc[x] = "accept" /\ pc' = [pc EXCEPT ![x] = "done"]
        /\ out' = [out EXCEPT ![x] = {p \in assign[x] : p.score >= Threshold}]
        /\ UNCHANGED <<inputs, left, graph, assign>>
    BY DEF Accept
  <1>3. /\ pc'[x] = "done" /\ out'[x] = {p \in assign[x] : p.score >= Threshold}
        /\ left'[x] = left[x] /\ graph'[x] = graph[x] /\ assign'[x] = assign[x]
    BY <1>1, <1>2 DEF Typed
  <1>4. \A j : Stops(T, j)' <=> Stops(T, j)
    BY <1>2, TrackStays
  <1>5. \A h : Best(h)' = Best(h)
    BY <1>2, TrackStays
  <1>6. OnTrack(T, x)
    OBVIOUS
  <1>7. OnTrack(T, x)'
    BY <1>2, <1>3, <1>4, <1>5, <1>6 DEF OnTrack
  <1> QED
    BY <1>1, <1>2, <1>3, <1>7, OneOrderOnTrack DEF Typed

LEMMA InitOnTrack == Init => FollowsTrack
  <1> SUFFICES ASSUME Init PROVE FollowsTrack
    OBVIOUS
  <1>1. TypeOK
    BY InitInv DEF IInv
  <1>2. PICK T : IsTrack(T)
    BY <1>1, TrackExists
  <1>3. \A x \in Orders : OnTrack(T, x)
    BY DEF Init, OnTrack
  <1> QED
    BY <1>2, <1>3 DEF FollowsTrack

LEMMA StepOnTrack ==
    ASSUME OneBatchPerLabel
    PROVE  IInv /\ FollowsTrack /\ [Next]_vars => FollowsTrack'
  <1> SUFFICES ASSUME IInv, FollowsTrack, [Next]_vars PROVE FollowsTrack'
    OBVIOUS
  <1>1. PICK T : IsTrack(T) /\ \A x \in Orders : OnTrack(T, x)
    BY DEF FollowsTrack
  <1>2. ASSUME UNCHANGED vars PROVE FollowsTrack'
    <2>1. /\ inputs' = inputs /\ pc' = pc /\ left' = left /\ graph' = graph
          /\ assign' = assign /\ out' = out
      BY <1>2 DEF vars
    <2>2. IsTrack(T)' /\ \A k : Stops(T, k)' <=> Stops(T, k)
      BY <1>1, <2>1, TrackStays
    <2>3. \A g : Best(g)' = Best(g)
      BY <2>1, TrackStays
    <2>4. ASSUME NEW x \in Orders PROVE OnTrack(T, x)'
      <3>1. OnTrack(T, x)
        BY <1>1
      <3> QED
        BY <2>1, <2>2, <2>3, <3>1 DEF OnTrack
    <2> QED
      BY <2>2, <2>4 DEF FollowsTrack
  <1>3. ASSUME NEW x \in Orders, Collect(x) PROVE FollowsTrack'
    BY <1>1, <1>3, CollectOnTrack
  <1>4. ASSUME NEW x \in Orders, Assign(x) PROVE FollowsTrack'
    BY <1>1, <1>4, AssignOnTrack
  <1>5. ASSUME NEW x \in Orders, Rescore(x) PROVE FollowsTrack'
    BY <1>1, <1>5, RescoreOnTrack
  <1>6. ASSUME NEW x \in Orders, Accept(x) PROVE FollowsTrack'
    BY <1>1, <1>6, AcceptOnTrack
  <1> QED
    BY <1>2, <1>3, <1>4, <1>5, <1>6 DEF Next, Done

\* The answer of align does not depend on which batch was indexed first, for function
\* sets, call graphs and numbers of rounds of any size, as long as every binary was
\* indexed in one batch.  (Of two binaries under one label it does.)
THEOREM IndexingOrderIsInvisible ==
    ASSUME OneBatchPerLabel
    PROVE  Spec => []OrderIndependent
  <1>1. IInv /\ FollowsTrack => OrderIndependent
    <2> SUFFICES ASSUME IInv, FollowsTrack, \A x \in Orders : pc[x] = "done"
                 PROVE  {Shown(p) : p \in out["asIndexed"]} = {Shown(p) : p \in out["swapped"]}
      BY DEF OrderIndependent
    <2>1. PICK T : IsTrack(T) /\ \A x \in Orders : OnTrack(T, x)
      BY DEF FollowsTrack
    <2> DEFINE at(x) == rounds - left[x]
    <2>2. \A x \in Orders : /\ at(x) \in 0..rounds /\ Stops(T, at(x))
                            /\ \A j \in 0..(at(x) - 1) : ~Stops(T, j)
                            /\ out[x] = {p \in Best(T[at(x)]) : p.score >= Threshold}
      BY <2>1, Position DEF OnTrack
    <2>3. "asIndexed" \in Orders /\ "swapped" \in Orders
      BY DEF Orders
    <2> HIDE DEF at
    <2>4. \A x, y \in Orders : ~(at(x) < at(y))
      <3>1. TAKE x, y \in Orders
      <3>2. at(x) < at(y) => at(x) \in 0..(at(y) - 1)
        BY <2>2
      <3> QED
        BY <2>2, <3>2
    <2>5. at("asIndexed") = at("swapped")
      <3>1. at("asIndexed") \in Int /\ at("swapped") \in Int
        BY <2>2, <2>3
      <3> QED
        BY <2>3, <2>4, <3>1
    <2>6. out["asIndexed"] = out["swapped"]
      BY <2>2, <2>3, <2>5
    <2> QED
      BY <2>6
  <1>2. IInv /\ FollowsTrack /\ [Next]_vars => FollowsTrack'
    BY StepOnTrack
  <1>3. Init => FollowsTrack
    BY InitOnTrack
  <1> QED
    BY <1>1, <1>2, <1>3, Invariance, PTL DEF Spec
=============================================================================

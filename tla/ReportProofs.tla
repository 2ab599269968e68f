---------------------------- MODULE ReportProofs ----------------------------
(* The banding of signatures, the verdicts of triage and what a build       *)
(* compared with itself reports, for signatures, bands, functions, call     *)
(* graphs and corpora of any size.                                          *)
EXTENDS Report, RankingProofs

----------------------------------------------------------------------------
(* Least and greatest numbers.                                             *)

LEMMA MaxExists ==
    ASSUME NEW n \in Nat, NEW S \in SUBSET (0..n), S # {}
    PROVE  SetMax(S) \in S /\ \A y \in S : y <= SetMax(S)
  <1> DEFINE T == {n - y : y \in S}
  <1>1. T \in SUBSET Nat /\ T # {}
    <2>1. \A y \in S : n - y \in Nat
      OBVIOUS
    <2> QED
      BY <2>1
  <1>2. PICK t \in T : \A u \in T : t <= u
    BY <1>1, LeastExists
  <1>3. PICK x \in S : t = n - x
    OBVIOUS
  <1>4. \A y \in S : y <= x
    <2>1. TAKE y \in S
    <2>2. n - x <= n - y
      BY <1>2, <1>3
    <2> QED
      BY <2>2
  <1> QED
    BY <1>4 DEF SetMax

----------------------------------------------------------------------------
(* Similarity and bands.                                                   *)

Same(f, g) == {i \in 1..SigLen : f.sig[i] = g.sig[i]}
Slot == Unit \div SigLen

LEMMA Sizes == SigLen \in Nat \ {0} /\ BandRows \in 1..SigLen /\ SigLen % BandRows = 0
  BY ReportAssumption

\* the slots of a signature can be counted
LEMMA SlotsFinite == IsFiniteSet(1..SigLen) /\ Cardinality(1..SigLen) = SigLen
  <1>1. SigLen \in Int /\ SigLen >= 1
    BY Sizes
  <1> QED
    BY <1>1, FS_Interval

\* the unit is so many slots' worth
LEMMA Slots == Slot \in Nat /\ Unit = SigLen * Slot
  BY ReportAssumption DEF Slot

\* a similarity lies between nothing and the unit, which equal signatures reach
LEMMA SimilarityBounds ==
    ASSUME NEW f, NEW g
    PROVE  /\ Cardinality(Same(f, g)) \in 0..SigLen
           /\ similarity(f, g) = Cardinality(Same(f, g)) * Slot
           /\ similarity(f, g) \in 0..Unit
           /\ f.sig = g.sig => similarity(f, g) = Unit
  <1> USE Sizes
  <1>1. IsFiniteSet(1..SigLen) /\ Cardinality(1..SigLen) = SigLen
    BY SlotsFinite
  <1>2. Cardinality(Same(f, g)) \in 0..SigLen
    <2>1. Same(f, g) \in SUBSET (1..SigLen)
      BY DEF Same
    <2> QED
      BY <1>1, <2>1, FS_Subset, FS_CardinalityType
  <1>3. similarity(f, g) = Cardinality(Same(f, g)) * Slot
    BY DEF similarity, Same, Slot
  <1>4. f.sig = g.sig => Cardinality(Same(f, g)) = SigLen
    <2>1. f.sig = g.sig => Same(f, g) = 1..SigLen
      BY DEF Same
    <2> QED
      BY <1>1, <2>1
  <1>5. \A c \in 0..SigLen : c * Slot \in Nat /\ c * Slot <= SigLen * Slot
    BY Slots
  <1> QED
    BY <1>2, <1>3, <1>4, <1>5, Slots

\* the bands cut the signature in disjoint parts
LEMMA BandsAreDisjoint ==
    /\ Bands \in Nat \ {0} /\ Bands * BandRows = SigLen
    /\ \A n \in 0..(Bands - 1), i \in 1..BandRows : n * BandRows + i \in 1..SigLen
    /\ \A n, m \in 0..(Bands - 1), i, j \in 1..BandRows :
          n * BandRows + i = m * BandRows + j => n = m
  <1> USE Sizes
  <1>1. Bands \in Nat \ {0} /\ Bands * BandRows = SigLen /\ BandRows \in Nat \ {0}
    BY DEF Bands
  <1>2. \A n, m \in Nat : n < m => (n + 1) * BandRows <= m * BandRows
    <2>1. TAKE n, m \in Nat
    <2>2. HAVE n < m
    <2>3. PICK d \in Nat : m = n + 1 + d
      <3>1. m - n - 1 \in Nat /\ m = n + 1 + (m - n - 1)
        BY <2>2
      <3> QED
        BY <3>1
    <2>4. m * BandRows = (n + 1) * BandRows + d * BandRows /\ d * BandRows \in Nat
      BY <1>1, <2>3
    <2> QED
      BY <1>1, <2>4
  <1>3. \A n \in Nat : n * BandRows \in Nat /\ (n + 1) * BandRows = n * BandRows + BandRows
    BY <1>1
  <1>4. ASSUME NEW n \in 0..(Bands - 1), NEW i \in 1..BandRows
        PROVE  n * BandRows + i \in 1..SigLen
    <2>1. (n + 1) * BandRows <= Bands * BandRows
      BY <1>1, <1>2 DEF Bands
    <2> QED
      BY <1>1, <1>3, <2>1
  <1>5. ASSUME NEW n \in Nat, NEW m \in Nat, NEW i \in 1..BandRows, NEW j \in 1..BandRows,
               n < m
        PROVE  n * BandRows + i < m * BandRows + j
    BY <1>1, <1>2, <1>3, <1>5
  <1>6. ASSUME NEW n \in 0..(Bands - 1), NEW m \in 0..(Bands - 1),
               NEW i \in 1..BandRows, NEW j \in 1..BandRows,
               n * BandRows + i = m * BandRows + j
        PROVE  n = m
    <2>1. n \in Nat /\ m \in Nat /\ n * BandRows \in Nat /\ m * BandRows \in Nat
      BY <1>1, <1>3
    <2>2. ~(n < m) /\ ~(m < n)
      BY <1>5, <1>6, <2>1
    <2> QED
      BY <2>1, <2>2
  <1> QED
    BY <1>1, <1>4, <1>6

\* Pigeonhole: signatures that differ in fewer slots than there are bands agree on
\* a whole band.
LEMMA CloseSharesBand ==
    ASSUME NEW f, NEW g, similarity(f, g) > Unit - Bands * Slot
    PROVE  SharesBand(f, g)
  <1> USE Sizes
  <1> DEFINE differ == (1..SigLen) \ Same(f, g)
  <1> DEFINE BandOf(n) == {n * BandRows + i : i \in 1..BandRows}
  <1>1. IsFiniteSet(differ) /\ Cardinality(differ) = SigLen - Cardinality(Same(f, g))
    <2>1. (1..SigLen) \cap Same(f, g) = Same(f, g)
      BY DEF Same
    <2>2. /\ IsFiniteSet(differ)
          /\ Cardinality(differ) = Cardinality(1..SigLen) - Cardinality((1..SigLen) \cap Same(f, g))
      BY SlotsFinite, FS_Difference
    <2> QED
      BY <2>1, <2>2, SlotsFinite
  <1>2. Cardinality(differ) < Bands
    <2>1. Cardinality(Same(f, g)) * Slot > SigLen * Slot - Bands * Slot
      BY SimilarityBounds, Slots
    <2>2. Cardinality(Same(f, g)) \in Nat /\ Bands \in Nat /\ Slot \in Nat
      BY SimilarityBounds, BandsAreDisjoint, Slots
    <2>3. ASSUME NEW c \in Nat, NEW b \in Nat, c + b <= SigLen
          PROVE  c * Slot + b * Slot <= SigLen * Slot
      <3>1. PICK d \in Nat : SigLen = c + b + d
        <4>1. SigLen - (c + b) \in Nat /\ SigLen = c + b + (SigLen - (c + b))
          BY <2>3
        <4> QED
          BY <4>1
      <3>2. SigLen * Slot = c * Slot + b * Slot + d * Slot /\ d * Slot \in Nat
        BY <2>2, <3>1
      <3> QED
        BY <2>2, <3>2
    <2>4. ~(Cardinality(Same(f, g)) + Bands <= SigLen)
      BY <2>1, <2>2, <2>3
    <2> QED
      BY <1>1, <2>2, <2>4
  <1>3. PICK n \in 0..(Bands - 1) : BandOf(n) \cap differ = {}
    <2>1. SUFFICES ASSUME \A n \in 0..(Bands - 1) : BandOf(n) \cap differ # {} PROVE FALSE
      OBVIOUS
    <2> DEFINE w == [n \in 0..(Bands - 1) |-> CHOOSE s \in differ : s \in BandOf(n)]
    <2>2. \A n \in 0..(Bands - 1) : w[n] \in differ /\ w[n] \in BandOf(n)
      BY <2>1
    <2> HIDE DEF w, differ
    <2>3. w \in [0..(Bands - 1) -> differ]
      BY <2>2 DEF w
    <2>4. ASSUME NEW n \in 0..(Bands - 1), NEW m \in 0..(Bands - 1), w[n] = w[m]
          PROVE  n = m
      <3>1. PICK i \in 1..BandRows, j \in 1..BandRows :
               w[n] = n * BandRows + i /\ w[m] = m * BandRows + j
        BY <2>2
      <3> QED
        BY <2>4, <3>1, BandsAreDisjoint
    <2>5. w \in Injection(0..(Bands - 1), differ)
      BY <2>3, <2>4 DEF Injection, IsInjective
    <2>6. Cardinality(0..(Bands - 1)) = Bands
      BY FS_Interval, BandsAreDisjoint
    <2>7. Cardinality(0..(Bands - 1)) <= Cardinality(differ)
      BY <1>1, <2>5, FS_Injection
    <2> QED
      BY <1>1, <1>2, <2>6, <2>7, BandsAreDisjoint, FS_CardinalityType
  <1>4. \A i \in 1..BandRows : f.sig[n * BandRows + i] = g.sig[n * BandRows + i]
    <2>1. TAKE i \in 1..BandRows
    <2>2. n * BandRows + i \in 1..SigLen /\ n * BandRows + i \in BandOf(n)
      BY BandsAreDisjoint
    <2> QED
      BY <1>3, <2>2 DEF Same
  <1>5. [i \in 1..BandRows |-> f.sig[n * BandRows + i]] = [i \in 1..BandRows |-> g.sig[n * BandRows + i]]
    BY <1>4
  <1>6. <<n, [i \in 1..BandRows |-> f.sig[n * BandRows + i]]>> \in band_keys(f) \cap band_keys(g)
    BY <1>5 DEF band_keys
  <1> QED
    BY <1>6 DEF SharesBand
----------------------------------------------------------------------------
(* The best row of a corpus.                                               *)

Sims(f, S) == {similarity(f, r) : r \in S}
Eligible(S) == {r \in S : usable(r) /\ r.name # NoName}
Pool(f, db) == IF candidates(db, f) = {} THEN Range(db) ELSE candidates(db, f)

\* best_in_corpus finds the greatest similarity in its pool
LEMMA BestOfPool ==
    ASSUME NEW f, NEW db \in Seq(Function)
    PROVE  LET best == best_in_corpus(f, db)
               rows == Eligible(Pool(f, db))
           IN  /\ rows = {} => best.sim = 0
               /\ rows # {} => /\ \E r \in rows : best.sim = similarity(f, r)
                               /\ \A r \in rows : similarity(f, r) <= best.sim
  <1> DEFINE rows == Eligible(Pool(f, db))
             best == {r \in rows : \A s \in rows : similarity(f, s) <= similarity(f, r)}
             twin == CHOOSE r \in best : \A s \in best : r.name <= s.name
  <1>1. rows = {r \in Pool(f, db) : usable(r) /\ r.name # NoName}
    BY DEF Eligible
  <1>2. best_in_corpus(f, db) = IF rows = {} THEN [sim |-> 0, name |-> NoName]
                                ELSE [sim |-> similarity(f, twin), name |-> twin.name]
    BY <1>1 DEF best_in_corpus, Pool
  <1>3. ASSUME rows # {} PROVE twin \in best
    <2>1. Sims(f, rows) \in SUBSET (0..Unit) /\ Sims(f, rows) # {} /\ Unit \in Nat
      BY <1>3, SimilarityBounds, Slots, Sizes, ReportAssumption DEF Sims
    <2>2. best # {}
      <3>1. SetMax(Sims(f, rows)) \in Sims(f, rows)
            /\ \A y \in Sims(f, rows) : y <= SetMax(Sims(f, rows))
        BY <2>1, MaxExists
      <3> QED
        BY <3>1 DEF Sims
    <2>3. \A r \in best : r.name \in Nat
      <3>1. \A r \in Range(db) : r \in Function
        BY DEF Range
      <3>2. \A r \in best : r \in Range(db)
        BY DEF Eligible, Pool, candidates
      <3> QED
        BY <3>1, <3>2 DEF Function
    <2>4. {r.name : r \in best} \in SUBSET Nat /\ {r.name : r \in best} # {}
      BY <2>2, <2>3
    <2>5. \E r \in best : \A s \in best : r.name <= s.name
      <3> HIDE DEF best
      <3>1. PICK m \in {r.name : r \in best} : \A y \in {r.name : r \in best} : m <= y
        BY <2>4, LeastExists
      <3> QED
        BY <3>1
    <2> HIDE DEF best
    <2> QED
      BY <2>5
  <1> HIDE DEF twin, rows
  <1> QED
    BY <1>2, <1>3 DEF rows

\* the best of a corpus is exact unless a row that shares a band hides better ones
LEMMA BestIsClosest ==
    ASSUME NEW f, NEW db \in Seq(Function)
    PROVE  ExactUnlessHidden(f, db, best_in_corpus(f, db))
  <1> DEFINE all == Eligible(Range(db))
             rows == Eligible(Pool(f, db))
             sims == {0} \cup Sims(f, all)
             b == best_in_corpus(f, db).sim
  <1>1. Closest(f, db) = SetMax(sims)
    BY DEF Closest, Sims, Eligible
  <1>2. sims \in SUBSET (0..Unit) /\ sims # {} /\ Unit \in Nat
    <2>1. (\A r : similarity(f, r) \in 0..Unit) /\ Unit \in Nat
      BY SimilarityBounds, ReportAssumption
    <2> QED
      BY <2>1 DEF Sims
  <1>3. SetMax(sims) \in sims /\ (\A y \in sims : y <= SetMax(sims)) /\ SetMax(sims) \in 0..Unit
    BY <1>2, MaxExists
  <1>4. /\ rows = {} => b = 0
        /\ rows # {} => /\ \E r \in rows : b = similarity(f, r)
                        /\ \A r \in rows : similarity(f, r) <= b
    BY BestOfPool
  <1>5. rows \subseteq all
    BY DEF Pool, candidates, Eligible
  <1>6. b \in sims
    BY <1>4, <1>5 DEF Sims
  <1>9. b \in 0..Unit /\ b <= SetMax(sims)
    BY <1>2, <1>3, <1>6
  <1> HIDE DEF sims, b, rows
  <1>7. ASSUME candidates(db, f) = {} PROVE b = SetMax(sims)
    <2>1. rows = all
      BY <1>7 DEF Pool, rows
    <2>2. CASE rows = {}
      BY <1>3, <1>4, <2>1, <2>2 DEF Sims, sims
    <2>3. CASE rows # {}
      <3>1. \A y \in sims : y <= b
        BY <1>4, <1>9, <2>1, <2>3 DEF Sims, sims
      <3> QED
        BY <1>3, <1>9, <3>1
    <2> QED
      BY <2>2, <2>3
  <1>8. ASSUME SetMax(sims) > Unit - Bands * Slot PROVE b = SetMax(sims)
    <2>1. CASE SetMax(sims) = 0
      BY <1>9, <2>1
    <2>2. CASE SetMax(sims) # 0
      <3>1. PICK r \in all : similarity(f, r) = SetMax(sims)
        BY <1>3, <2>2 DEF Sims, sims
      <3>2. SharesBand(f, r)
        BY <1>8, <3>1, CloseSharesBand
      <3>3. r \in candidates(db, f) /\ r \in rows
        BY <3>2 DEF candidates, Pool, Eligible, rows
      <3>4. SetMax(sims) <= b
        BY <1>4, <3>1, <3>3
      <3> QED
        BY <1>3, <1>9, <3>4
    <2> QED
      BY <2>1, <2>2
  <1> QED
    BY <1>1, <1>9, <1>7, <1>8 DEF ExactUnlessHidden, Slot, b

\* a corpus that holds the function unchanged is at no distance from it
LEMMA OwnRowIsBest ==
    ASSUME NEW f, NEW db \in Seq(Function), NEW r \in Range(db),
           f.sig = r.sig, usable(r), r.name # NoName
    PROVE  best_in_corpus(f, db).sim = Unit
  <1>1. similarity(f, r) = Unit
    BY SimilarityBounds
  <1>2. r \in Eligible(Range(db))
    BY DEF Eligible
  <1>3. SharesBand(f, r)
    <2>1. <<0, [i \in 1..BandRows |-> f.sig[0 * BandRows + i]]>> \in band_keys(f)
      BY BandsAreDisjoint DEF band_keys
    <2>2. <<0, [i \in 1..BandRows |-> r.sig[0 * BandRows + i]]>> \in band_keys(r)
      BY BandsAreDisjoint DEF band_keys
    <2> QED
      BY <2>1, <2>2 DEF SharesBand
  <1>4. r \in Eligible(Pool(f, db))
    BY <1>2, <1>3 DEF Pool, candidates, Eligible
  <1>5. \A s : similarity(f, s) \in 0..Unit
    BY SimilarityBounds
  <1>6. \E s : best_in_corpus(f, db).sim = similarity(f, s)
    BY <1>4, BestOfPool
  <1>7. Unit <= best_in_corpus(f, db).sim
    BY <1>1, <1>4, BestOfPool
  <1> QED
    BY <1>5, <1>6, <1>7, ReportAssumption

----------------------------------------------------------------------------
(* Ranks.                                                                  *)

\* what ReviewOrder compares
Rank(h) == IF h.verdict = "vulnerable" THEN 0 ELSE IF h.verdict = "patched" THEN 2 ELSE 1

LEMMA ReviewOrderIsLexicographic ==
    ASSUME NEW x, NEW y
    PROVE  ReviewOrder(x, y) <=>
              \/ Rank(x) < Rank(y)
              \/ Rank(x) = Rank(y) /\ 0 - x.vuln.sim < 0 - y.vuln.sim
              \/ Rank(x) = Rank(y) /\ 0 - x.vuln.sim = 0 - y.vuln.sim /\ x.entry < y.entry
  <1> DEFINE kx == <<Rank(x), 0 - x.vuln.sim, x.entry>>
             ky == <<Rank(y), 0 - y.vuln.sim, y.entry>>
  <1>1. ReviewOrder(x, y) <=>
          \E k \in 1..3 : kx[k] < ky[k] /\ \A m \in 1..(k - 1) : kx[m] = ky[m]
    BY DEF ReviewOrder, Rank
  <1>2. /\ kx[1] = Rank(x) /\ kx[2] = 0 - x.vuln.sim /\ kx[3] = x.entry
        /\ ky[1] = Rank(y) /\ ky[2] = 0 - y.vuln.sim /\ ky[3] = y.entry
    OBVIOUS
  <1> HIDE DEF kx, ky
  <1>3. (\E k \in 1..3 : kx[k] < ky[k] /\ \A m \in 1..(k - 1) : kx[m] = ky[m])
        <=> \/ kx[1] < ky[1]
            \/ kx[1] = ky[1] /\ kx[2] < ky[2]
            \/ kx[1] = ky[1] /\ kx[2] = ky[2] /\ kx[3] < ky[3]
    <2>1. \A k \in 1..3 : k = 1 \/ k = 2 \/ k = 3
      OBVIOUS
    <2>2. (\A m \in 1..(1 - 1) : kx[m] = ky[m]) /\ ((\A m \in 1..(2 - 1) : kx[m] = ky[m]) <=> kx[1] = ky[1])
          /\ ((\A m \in 1..(3 - 1) : kx[m] = ky[m]) <=> kx[1] = ky[1] /\ kx[2] = ky[2])
      OBVIOUS
    <2> QED
      BY <2>1, <2>2
  <1> QED
    BY <1>1, <1>2, <1>3

----------------------------------------------------------------------------
(* Triage.                                                                 *)

\* what the list order of an input says of its functions
LEMMA OneFunctionPerEntry ==
    ASSUME NEW in \in Inputs
    PROVE  /\ in.a \in Seq(Function) /\ in.b \in Seq(Function) /\ in.c \in Seq(Function)
           /\ \A f \in Range(in.a) : f \in Function
           /\ \A f, g \in Range(in.a) : f.entry = g.entry => f = g
  <1>1. in.a \in Seq(Function) /\ in.b \in Seq(Function) /\ in.c \in Seq(Function)
        /\ InOrder(in.a) /\ OneBinary(in.a)
    BY ReportAssumption
  <1>2. ASSUME NEW i \in 1..Len(in.a), NEW j \in 1..Len(in.a), in.a[i].entry = in.a[j].entry
        PROVE  i = j
    <2>4. in.a[i] \in Function /\ in.a[j] \in Function
      BY <1>1
    <2>1. in.a[i].entry \in Nat /\ in.a[j].entry \in Nat
      BY <2>4 DEF Function
    <2>2. Len(in.a) \in Nat
      BY <1>1
    <2>3. ~(i < j) /\ ~(j < i)
      BY <1>1, <1>2, <2>1 DEF InOrder, OneBinary
    <2> QED
      BY <2>2, <2>3
  <1>3. \A f \in Range(in.a) : \E i \in 1..Len(in.a) : f = in.a[i]
    BY <1>1 DEF Range
  <1> QED
    BY <1>1, <1>2, <1>3

\* the fields of a hit
LEMMA HitFields ==
    ASSUME NEW f \in Function, NEW b \in Seq(Function), NEW c \in Seq(Function)
    PROVE  LET h == TriageHit(f, b, c)
           IN  /\ h.entry = f.entry /\ h.entry \in Nat
               /\ h.vuln = best_in_corpus(f, b) /\ h.patched = best_in_corpus(f, c)
               /\ h.vuln.sim \in 0..Unit /\ h.patched.sim \in 0..Unit
               /\ h.verdict = verdict(h.vuln.sim, h.patched.sim)
               /\ h = [entry |-> h.entry, vuln |-> h.vuln, patched |-> h.patched, verdict |-> h.verdict]
  <1>1. ASSUME NEW db \in Seq(Function) PROVE best_in_corpus(f, db).sim \in 0..Unit
    <2>1. \A r : similarity(f, r) \in 0..Unit
      BY SimilarityBounds
    <2> QED
      BY <2>1, BestOfPool, ReportAssumption
  <1> QED
    BY <1>1 DEF TriageHit, Function

\* triage prints a hit for each function with signal, and nothing else
LEMMA HitsAreTriage ==
    ASSUME NEW in \in Inputs
    PROVE  LET hits == cmd_triage(in).hits
           IN  /\ Range(hits) = triage(in.a, in.b, in.c)
               /\ \A k \in 1..Len(hits) : hits[k] \in triage(in.a, in.b, in.c)
  <1> DEFINE T == triage(in.a, in.b, in.c)
             R == {p \in T \X T : ReviewOrder(p[1], p[2])}
             hits == cmd_triage(in).hits
  <1>1. \A h \in T : \E f \in Range(in.a) : usable(f) /\ h = TriageHit(f, in.b, in.c)
    BY DEF triage
  <1>2. IsFiniteSet(T)
    <2> DEFINE U == {g \in Range(in.a) : usable(g)}
               F == [g \in U |-> TriageHit(g, in.b, in.c)]
    <2>1. in.a \in Seq(Function) /\ Len(in.a) \in Nat
      BY OneFunctionPerEntry
    <2>2. in.a \in Surjection(1..Len(in.a), Range(in.a))
      BY <2>1 DEF Surjection, Range
    <2>3. IsFiniteSet(Range(in.a))
      BY <2>1, <2>2, FS_Interval, FS_Surjection
    <2>4. IsFiniteSet(U)
      BY <2>3, FS_Subset
    <2>5. F \in Surjection(U, T)
      BY DEF Surjection, triage
    <2> QED
      BY <2>4, <2>5, FS_Surjection
  <1> HIDE DEF T
  <1>10. \A f \in Range(in.a) : LET h == TriageHit(f, in.b, in.c)
                               IN  h.entry = f.entry /\ h.entry \in Nat /\ h.vuln.sim \in Int
    <2>1. TAKE f \in Range(in.a)
    <2>2. f \in Function
      BY OneFunctionPerEntry
    <2> QED
      BY <2>2, OneFunctionPerEntry, HitFields, ReportAssumption
  <1>3. \A h \in T : h.entry \in Nat /\ h.vuln.sim \in Int /\ Rank(h) \in Int
    BY <1>1, <1>10 DEF Rank
  <1>4. \A g, h \in T : g.entry = h.entry => g = h
    BY <1>1, <1>10, OneFunctionPerEntry
  <1>5. \A g, h \in T : <<g, h>> \in R <=> ReviewOrder(g, h)
    OBVIOUS
  <1> HIDE DEF R
  <1>6. StrictOrder(T, R)
    BY <1>3, <1>4, <1>5, ReviewOrderIsLexicographic DEF StrictOrder
  <1> DEFINE before == [c \in T |-> Cardinality({d \in T : ReviewOrder(d, c)})]
  <1>7. hits = [i \in 1..Cardinality(T) |-> CHOOSE c \in T : before[c] = i - 1]
    BY DEF cmd_triage, InRank, T
  <1>8. Cardinality(T) \in Nat
    BY <1>2, FS_CardinalityType
  <1>9. /\ \A i \in 1..Cardinality(T) : \E c \in T : Cardinality(Below(T, R, c)) = i - 1
        /\ \A c \in T : Cardinality(Below(T, R, c)) + 1 \in 1..Cardinality(T)
                        /\ Cardinality(Below(T, R, c)) \in Nat
        /\ \A c, d \in T : Cardinality(Below(T, R, c)) = Cardinality(Below(T, R, d)) => c = d
    BY <1>2, <1>6, EveryRankIsHeld
  <1>11. ASSUME NEW c \in T PROVE before[c] = Cardinality(Below(T, R, c))
    <2>1. {d \in T : ReviewOrder(d, c)} = Below(T, R, c)
      BY <1>5 DEF Below
    <2> QED
      BY <2>1
  <1> HIDE DEF before, hits
  <1>12. \A i \in 1..Cardinality(T) : hits[i] \in T /\ before[hits[i]] = i - 1
    BY <1>7, <1>9, <1>11
  <1>13. ASSUME NEW c \in T PROVE \E i \in 1..Cardinality(T) : hits[i] = c
    <2>1. before[c] + 1 \in 1..Cardinality(T) /\ before[c] \in Nat
      BY <1>9, <1>11
    <2>2. hits[before[c] + 1] \in T /\ before[hits[before[c] + 1]] = before[c]
      BY <1>12, <2>1
    <2>3. hits[before[c] + 1] = c
      BY <1>9, <1>11, <2>2
    <2> QED
      BY <2>1, <2>3
  <1>14. DOMAIN hits = 1..Cardinality(T) /\ Len(hits) = Cardinality(T)
    BY <1>7, <1>8
  <1>15. Range(hits) = T
    BY <1>12, <1>13, <1>14 DEF Range
  <1> QED
    BY <1>12, <1>14, <1>15 DEF hits, T

\* a report is what its command's step computed
ReportInv ==
    /\ input \in Inputs
    /\ report.cmd = "match" => report = cmd_match(input)
    /\ report.cmd = "query" => report = cmd_query(input)
    /\ report.cmd = "triage" => report = cmd_triage(input)
    /\ report.cmd = "eval" => report = cmd_eval(input)

LEMMA InitInv == Init => ReportInv
  BY DEF Init, ReportInv, Pending

LEMMA CommandTags ==
    ASSUME NEW in
    PROVE  /\ cmd_match(in).cmd = "match" /\ cmd_query(in).cmd = "query"
           /\ cmd_triage(in).cmd = "triage" /\ cmd_eval(in).cmd = "eval" /\ Refused.cmd = "refused"
  <1>1. cmd_match(in).cmd = "match"
    BY DEF cmd_match, match_by_name, match_aligned
  <1>2. cmd_query(in).cmd = "query"
    BY DEF cmd_query
  <1>3. cmd_triage(in).cmd = "triage"
    BY DEF cmd_triage
  <1>4. cmd_eval(in).cmd = "eval"
    BY DEF cmd_eval
  <1> QED
    BY <1>1, <1>2, <1>3, <1>4 DEF Refused

LEMMA StepInv == ReportInv /\ [Next]_vars => ReportInv'
  <1> SUFFICES ASSUME ReportInv, [Next]_vars PROVE ReportInv'
    OBVIOUS
  <1>1. CASE Match
    <2>1. (report' = cmd_match(input) \/ report' = Refused) /\ input' = input
      BY <1>1 DEF Match, NoScript, Run
    <2>2. input' \in Inputs
      BY <2>1 DEF ReportInv
    <2>3. report'.cmd \in {"match", "refused"} /\ (report'.cmd = "match" => report' = cmd_match(input'))
      BY <2>1, CommandTags
    <2> QED
      BY <2>2, <2>3 DEF ReportInv
  <1>2. CASE Query
    <2>1. report' = cmd_query(input) /\ input' = input
      BY <1>2 DEF Query, Run
    <2>2. input' \in Inputs
      BY <2>1 DEF ReportInv
    <2>3. report'.cmd = "query" /\ report' = cmd_query(input')
      BY <2>1, CommandTags
    <2> QED
      BY <2>2, <2>3 DEF ReportInv
  <1>3. CASE Triage
    <2>1. report' = cmd_triage(input) /\ input' = input
      BY <1>3 DEF Triage, Run
    <2>2. input' \in Inputs
      BY <2>1 DEF ReportInv
    <2>3. report'.cmd = "triage" /\ report' = cmd_triage(input')
      BY <2>1, CommandTags
    <2> QED
      BY <2>2, <2>3 DEF ReportInv
  <1>4. CASE Eval
    <2>1. (report' = cmd_eval(input) \/ report' = Refused) /\ input' = input
      BY <1>4 DEF Eval, NoScript, Run
    <2>2. input' \in Inputs
      BY <2>1 DEF ReportInv
    <2>3. report'.cmd \in {"eval", "refused"} /\ (report'.cmd = "eval" => report' = cmd_eval(input'))
      BY <2>1, CommandTags
    <2> QED
      BY <2>2, <2>3 DEF ReportInv
  <1>5. CASE UNCHANGED vars
    BY <1>5 DEF vars, ReportInv
  <1> QED
    BY <1>1, <1>2, <1>3, <1>4, <1>5 DEF Next, Done

THEOREM Invariance == Spec => []ReportInv
  BY InitInv, StepInv, PTL DEF Spec

\* The banding that candidates() narrows the search with never hides a row that
\* differs from the function in fewer slots than there are bands, whatever the sizes
\* of signatures and bands: triage's best matches are at least as close as any such row.
THEOREM BandingHidesNoCloseRow == Spec => []NoCloseRowIsMissed
  <1>1. ReportInv => NoCloseRowIsMissed
    <2> SUFFICES ASSUME ReportInv, report.cmd = "triage", NEW k \in 1..Len(report.hits)
                 PROVE  LET h == report.hits[k]
                            f == CHOOSE g \in Range(input.a) : g.entry = h.entry
                        IN  /\ ExactUnlessHidden(f, input.b, h.vuln)
                            /\ ExactUnlessHidden(f, input.c, h.patched)
      BY DEF NoCloseRowIsMissed
    <2> DEFINE h == report.hits[k]
    <2>1. input \in Inputs /\ report = cmd_triage(input)
      BY DEF ReportInv
    <2>2. h \in triage(input.a, input.b, input.c)
      BY <2>1, HitsAreTriage
    <2>3. PICK f \in Range(input.a) : h = TriageHit(f, input.b, input.c)
      BY <2>2 DEF triage
    <2> HIDE DEF h
    <2>4. input.b \in Seq(Function) /\ input.c \in Seq(Function) /\ f \in Function
      BY <2>1, OneFunctionPerEntry
    <2>5. h.entry = f.entry /\ h.vuln = best_in_corpus(f, input.b) /\ h.patched = best_in_corpus(f, input.c)
      BY <2>3, <2>4, HitFields
    <2>6. (CHOOSE g \in Range(input.a) : g.entry = h.entry) = f
      BY <2>1, <2>5, OneFunctionPerEntry
    <2> QED
      BY <2>4, <2>5, <2>6, BestIsClosest DEF h
  <1> QED
    BY <1>1, Invariance, PTL

\* exchanging the corpora turns a verdict around, and a verdict needs a lead
LEMMA VerdictFlips ==
    ASSUME Margin > 0, NEW v \in 0..Unit, NEW p \in 0..Unit
    PROVE  /\ verdict(p, v) = Flip(verdict(v, p)) /\ (v = p => verdict(v, p) = "inconclusive")
           /\ verdict(v, p) = "vulnerable" => MinSim <= v /\ v > 0
           /\ verdict(v, p) = "patched" => MinSim <= p /\ p > 0
  <1>1. v \in Int /\ p \in Int /\ v >= 0 /\ p >= 0
    BY ReportAssumption
  <1>2. Margin \in Int /\ MinSim \in Int
    BY ReportAssumption
  <1>3. verdict(p, v) = Flip(verdict(v, p)) /\ (v = p => verdict(v, p) = "inconclusive")
    BY <1>1, <1>2 DEF verdict, Flip, Larger
  <1>4. /\ verdict(v, p) = "vulnerable" => MinSim <= v /\ v > 0
        /\ verdict(v, p) = "patched" => MinSim <= p /\ p > 0
    BY <1>1, <1>2 DEF verdict, Larger
  <1> QED
    BY <1>3, <1>4

LEMMA HitFlips ==
    ASSUME Margin > 0, NEW f \in Function, NEW b \in Seq(Function), NEW c \in Seq(Function)
    PROVE  Exchanged(TriageHit(f, b, c)) = TriageHit(f, c, b)
  <1>1. /\ best_in_corpus(f, b).sim \in 0..Unit /\ best_in_corpus(f, c).sim \in 0..Unit
    BY HitFields
  <1>2. verdict(best_in_corpus(f, c).sim, best_in_corpus(f, b).sim)
           = Flip(verdict(best_in_corpus(f, b).sim, best_in_corpus(f, c).sim))
    BY <1>1, VerdictFlips
  <1> QED
    BY <1>2 DEF Exchanged, TriageHit

\* what is found of a function depends on its signature only
LEMMA TwinsFindTheSame ==
    ASSUME NEW f, NEW g, f.sig = g.sig, NEW db
    PROVE  best_in_corpus(f, db) = best_in_corpus(g, db)
  <1>1. candidates(db, f) = candidates(db, g)
    BY DEF candidates, SharesBand, band_keys
  <1>2. \A r : similarity(f, r) = similarity(g, r)
    BY DEF similarity
  <1> DEFINE pool == IF candidates(db, f) = {} THEN Range(db) ELSE candidates(db, f)
             rows == {r \in pool : usable(r) /\ r.name # NoName}
             best(x) == {r \in rows : \A s \in rows : similarity(x, s) <= similarity(x, r)}
             twin(x) == CHOOSE r \in best(x) : \A s \in best(x) : r.name <= s.name
             found(x) == IF rows = {} THEN [sim |-> 0, name |-> NoName]
                         ELSE [sim |-> similarity(x, twin(x)), name |-> twin(x).name]
  <1>3. best_in_corpus(f, db) = found(f) /\ best_in_corpus(g, db) = found(g)
    BY <1>1 DEF best_in_corpus
  <1>4. best(f) = best(g)
    BY <1>2
  <1>5. twin(f) = twin(g)
    <2> HIDE DEF best
    <2> QED
      BY <1>4
  <1> HIDE DEF rows, twin
  <1>6. found(f) = found(g)
    BY <1>2, <1>5
  <1> QED
    BY <1>3, <1>6

\* a similarity above zero is that of a named row with signal
LEMMA LeadIsARow ==
    ASSUME NEW f, NEW db \in Seq(Function), best_in_corpus(f, db).sim > 0,
           MinSim <= best_in_corpus(f, db).sim
    PROVE  Lead(f, db)
  <1>1. Eligible(Pool(f, db)) # {}
    BY BestOfPool
  <1>2. PICK r \in Eligible(Pool(f, db)) : best_in_corpus(f, db).sim = similarity(f, r)
    BY <1>1, BestOfPool
  <1>3. similarity(f, r) \in Int /\ MinSim \in Int
    BY SimilarityBounds, ReportAssumption
  <1> QED
    BY <1>2, <1>3 DEF Lead, Eligible, Pool, candidates

\* Triage is fair to both corpora, for any positive margin and any least similarity: the
\* verdicts turn around with them, twins get the same answer, a function that both hold
\* unchanged is never called vulnerable or patched, and no verdict is without a lead.
THEOREM TriageTakesNoSide ==
    ASSUME Margin > 0
    PROVE  Spec => []TriageIsEven
  <1>1. ReportInv => TriageIsEven
    <2> SUFFICES ASSUME ReportInv, report.cmd = "triage" PROVE TriageIsEven
      BY DEF TriageIsEven
    <2> DEFINE a == input.a
               b == input.b
               c == input.c
               hits == report.hits
               hit(f) == TriageHit(f, b, c)
    <2>1. /\ a \in Seq(Function) /\ b \in Seq(Function) /\ c \in Seq(Function)
          /\ Range(a) \subseteq Function /\ Range(hits) = triage(a, b, c)
      BY OneFunctionPerEntry, HitsAreTriage DEF ReportInv
    <2>2. \A f, g \in Range(a) : f.entry = g.entry => f = g
      BY OneFunctionPerEntry DEF ReportInv
    <2> HIDE DEF a, b, c, hits
    <2>3. \A f \in Range(a) : hit(f).entry = f.entry
      BY <2>1, HitFields
    <2> HIDE DEF hit
    <2>4. ASSUME NEW f \in Range(a), NEW h \in Range(hits), h.entry = f.entry
          PROVE  h = hit(f)
      <3>1. PICK g \in Range(a) : h = hit(g)
        BY <2>1 DEF triage, hit
      <3> QED
        BY <2>2, <2>3, <2>4, <3>1
    <2>5. {Exchanged(h) : h \in Range(hits)} = triage(a, c, b)
      <3>1. \A f \in Range(a) : Exchanged(TriageHit(f, b, c)) = TriageHit(f, c, b)
        BY <2>1, HitFlips
      <3> QED
        BY <2>1, <3>1 DEF triage
    <2>6. ASSUME NEW f \in Range(a), NEW g \in Range(a), f.sig = g.sig
          PROVE  [hit(f) EXCEPT !.entry = hit(g).entry] = hit(g)
      <3>1. best_in_corpus(f, b) = best_in_corpus(g, b) /\ best_in_corpus(f, c) = best_in_corpus(g, c)
        BY <2>6, TwinsFindTheSame
      <3> QED
        BY <3>1 DEF hit, TriageHit
    <2>7. ASSUME NEW f \in Range(a), NEW r \in Range(b), NEW s \in Range(c),
                 f.sig = r.sig, f.sig = s.sig, usable(f), usable(r), usable(s),
                 r.name # NoName, s.name # NoName
          PROVE  hit(f) \in Range(hits) /\ hit(f).entry = f.entry /\ hit(f).verdict = "inconclusive"
      <3>1. best_in_corpus(f, b).sim = Unit /\ best_in_corpus(f, c).sim = Unit
        BY <2>1, <2>7, OwnRowIsBest
      <3>2. Unit \in 0..Unit
        BY ReportAssumption
      <3>3. TriageHit(f, b, c).verdict = verdict(Unit, Unit)
        BY <2>1, <3>1, HitFields
      <3>4. hit(f).verdict = "inconclusive"
        BY <3>2, <3>3, VerdictFlips DEF hit
      <3>5. hit(f) \in Range(hits)
        BY <2>1, <2>7 DEF triage, hit
      <3> QED
        BY <2>3, <3>4, <3>5
    <2>8. ASSUME NEW f \in Range(a)
          PROVE  /\ hit(f).verdict = "vulnerable" => Lead(f, b)
                 /\ hit(f).verdict = "patched" => Lead(f, c)
      <3> DEFINE v == best_in_corpus(f, b).sim
                 p == best_in_corpus(f, c).sim
      <3>1. f \in Function /\ v \in 0..Unit /\ p \in 0..Unit /\ hit(f).verdict = verdict(v, p)
        BY <2>1, HitFields DEF hit
      <3>2. /\ verdict(v, p) = "vulnerable" => MinSim <= v /\ v > 0
            /\ verdict(v, p) = "patched" => MinSim <= p /\ p > 0
        <4> HIDE DEF v, p
        <4> QED
          BY <3>1, VerdictFlips
      <3> QED
        BY <2>1, <3>1, <3>2, LeadIsARow
    <2>9. \A f \in Range(a) : \A h \in HitsOf(f) : h = hit(f)
      BY <2>4 DEF HitsOf, hits
    <2>10. \A f, g \in Range(a) : usable(f) /\ usable(g) /\ f.sig = g.sig =>
              \A h \in HitsOf(f), i \in HitsOf(g) : [h EXCEPT !.entry = i.entry] = i
      BY <2>6, <2>9
    <2>11. \A f \in Range(a), r \in Range(b), s \in Range(c) :
              /\ f.sig = r.sig /\ f.sig = s.sig /\ usable(f) /\ usable(r) /\ usable(s)
              /\ r.name # NoName /\ s.name # NoName
              => \E h \in HitsOf(f) : h.verdict = "inconclusive"
      BY <2>7 DEF HitsOf, hits
    <2>12. \A f \in Range(a) : \A h \in HitsOf(f) :
              /\ h.verdict = "vulnerable" => Lead(f, b)
              /\ h.verdict = "patched" => Lead(f, c)
      BY <2>8, <2>9
    <2> QED
      BY <2>5, <2>10, <2>11, <2>12 DEF TriageIsEven, a, b, c, hits
  <1> QED
    BY <1>1, Invariance, PTL

----------------------------------------------------------------------------
(* A build against itself: the alignment.                                  *)

\* the same functions but for their names
Alike(a, b) ==
    /\ a \in Seq(Function) /\ b \in Seq(Function) /\ Len(a) = Len(b)
    /\ \A i \in 1..Len(a) : /\ a[i].sig = b[i].sig /\ a[i].low = b[i].low
                            /\ a[i].entry = b[i].entry /\ a[i].binary = b[i].binary
                            /\ a[i].callees = b[i].callees

Own(a) == {<<i, i>> : i \in Usables(a)}

\* functions with equal signatures share a band
LEMMA TwinsShareBand ==
    ASSUME NEW f, NEW g, f.sig = g.sig PROVE SharesBand(f, g)
  <1>1. <<0, [i \in 1..BandRows |-> f.sig[0 * BandRows + i]]>> \in band_keys(f)
    BY BandsAreDisjoint DEF band_keys
  <1>2. <<0, [i \in 1..BandRows |-> g.sig[0 * BandRows + i]]>> \in band_keys(g)
    BY BandsAreDisjoint DEF band_keys
  <1> QED
    BY <1>1, <1>2 DEF SharesBand

\* every function with signal is a candidate for itself, at no distance
LEMMA OwnCandidates ==
    ASSUME NEW a, NEW b, Alike(a, b)
    PROVE  /\ IsFiniteSet(Cands(a, b)) /\ Own(a) \subseteq Cands(a, b)
           /\ \A c \in Cands(a, b) : /\ c = <<c[1], c[2]>>
                                     /\ c[1] \in Usables(a) /\ c[2] \in Usables(a)
                                     /\ c[1] \in Nat /\ c[2] \in Nat
                                     /\ Sim(a, b, c) \in 0..Unit
           /\ \A i \in Usables(a) : Sim(a, b, <<i, i>>) = Unit
  <1> DEFINE n == Len(a)
             B == {j \in 1..Len(b) : usable(b[j])}
             seen(i) == {j \in B : SharesBand(a[i], b[j])}
             pool(i) == IF seen(i) = {} THEN B ELSE seen(i)
             cs(i) == {<<i, j>> : j \in {k \in pool(i) : similarity(a[i], b[k]) >= Floor}}
  <1>1. n \in Nat /\ Len(b) = n
    BY DEF Alike
  <1>2. B = Usables(a)
    BY <1>1 DEF Alike, Usables, usable
  <1>3. Cands(a, b) = UNION {cs(i) : i \in Usables(a)}
    BY DEF Cands, Usables
  <1>4. \A i : pool(i) \subseteq Usables(a)
    BY <1>2
  <1>5. \A c \in Cands(a, b) : \E i \in Usables(a), j \in Usables(a) : c = <<i, j>>
    BY <1>3, <1>4
  <1>6. Usables(a) \subseteq 1..n
    BY DEF Usables
  <1>7. ASSUME NEW i \in Usables(a) PROVE <<i, i>> \in Cands(a, b) /\ Sim(a, b, <<i, i>>) = Unit
    <2>1. a[i].sig = b[i].sig
      BY <1>6 DEF Alike
    <2>2. similarity(a[i], b[i]) = Unit /\ SharesBand(a[i], b[i])
      BY <2>1, SimilarityBounds, TwinsShareBand
    <2>3. i \in pool(i)
      BY <1>2, <2>2
    <2>4. similarity(a[i], b[i]) >= Floor
      BY <2>2, ReportAssumption
    <2>5. <<i, i>> \in cs(i)
      BY <2>3, <2>4
    <2> HIDE DEF cs
    <2> QED
      BY <1>3, <2>2, <2>5 DEF Sim
  <1> HIDE DEF cs, pool, seen, B, n
  <1>8. IsFiniteSet(Cands(a, b))
    <2>1. IsFiniteSet(1..n)
      BY <1>1, FS_Interval
    <2>2. IsFiniteSet((1..n) \X (1..n))
      BY <2>1, FS_Product
    <2>3. Cands(a, b) \subseteq (1..n) \X (1..n)
      BY <1>5, <1>6
    <2> QED
      BY <2>2, <2>3, FS_Subset
  <1>9. \A c \in Cands(a, b) : /\ c = <<c[1], c[2]>>
                               /\ c[1] \in Usables(a) /\ c[2] \in Usables(a)
                               /\ c[1] \in Nat /\ c[2] \in Nat /\ Sim(a, b, c) \in 0..Unit
    <2>1. TAKE c \in Cands(a, b)
    <2>2. PICK i \in Usables(a), j \in Usables(a) : c = <<i, j>>
      BY <1>5
    <2>3. i \in Nat /\ j \in Nat
      BY <1>1, <1>6
    <2>4. Sim(a, b, c) \in 0..Unit
      BY SimilarityBounds DEF Sim
    <2> QED
      BY <2>2, <2>3, <2>4
  <1> QED
    BY <1>7, <1>8, <1>9 DEF Own

\* scores under which no candidate of a function beats its own
Favours(a, b, g) ==
    /\ g \in [Cands(a, b) -> 0..Unit]
    /\ \A c \in Cands(a, b), m \in Usables(a) : m \in {c[1], c[2]} => g[c] <= g[<<m, m>>]

\* Weight \div Unit is monotone
LEMMA WeightGrows ==
    ASSUME NEW g \in 0..Unit, NEW h \in 0..Unit, g <= h
    PROVE  /\ (Weight * g) \div Unit \in Nat /\ (Weight * h) \div Unit \in Nat
           /\ (Weight * g) \div Unit <= (Weight * h) \div Unit
  <1>1. Unit \in Nat \ {0} /\ Weight \in Nat /\ g \in Nat /\ h \in Nat
    BY ReportAssumption
  <1>2. PICK d \in Nat : h = g + d
    <2>1. h - g \in Nat /\ h = g + (h - g)
      BY <1>1
    <2> QED
      BY <2>1
  <1>3. Weight * h = Weight * g + Weight * d
    BY <1>1, <1>2
  <1>4. Weight * g \in Nat /\ Weight * d \in Nat /\ Weight * h \in Nat
    BY <1>1, <1>2
  <1> DEFINE x == Weight * g
             y == Weight * h
  <1>5. x \in Nat /\ y \in Nat /\ x <= y
    BY <1>3, <1>4
  <1> HIDE DEF x, y
  <1>6. \A u \in Nat : u \div Unit \in Nat /\ u % Unit \in 0..(Unit - 1)
                       /\ u = Unit * (u \div Unit) + (u % Unit)
    BY <1>1
  <1>7. x \div Unit <= y \div Unit
    <2> DEFINE p == x \div Unit
               q == y \div Unit
    <2>1. p \in Nat /\ q \in Nat /\ Unit * p <= x /\ y < Unit * q + Unit
          /\ Unit * p \in Nat /\ Unit * q \in Nat
      BY <1>1, <1>5, <1>6
    <2> HIDE DEF p, q
    <2>2. ASSUME p > q PROVE FALSE
      <3>1. PICK e \in Nat : p = q + 1 + e
        <4>1. p - q - 1 \in Nat /\ p = q + 1 + (p - q - 1)
          BY <2>1, <2>2
        <4> QED
          BY <4>1
      <3>2. Unit * p = Unit * q + Unit + Unit * e /\ Unit * e \in Nat
        BY <1>1, <2>1, <3>1
      <3> QED
        BY <1>1, <1>5, <2>1, <3>2
    <2> QED
      BY <2>1, <2>2 DEF p, q
  <1> QED
    BY <1>5, <1>6, <1>7 DEF x, y

\* Under such scores the greedy choice gives every function itself: the pair of the
\* lesser of two functions ranks above every pair of the two.
LEMMA GreedyTakesOwn ==
    ASSUME NEW a, NEW b, Alike(a, b), NEW g, Favours(a, b, g)
    PROVE  assign_greedy(a, b, Cands(a, b), g) = Own(a)
  <1> DEFINE C == Cands(a, b)
             R == {p \in C \X C : Outranks(a, b, g, p[1], p[2])}
             w(c) == Weighed(a, b, g, c)
             seq == SortedBy(C, R)
             G == Greedy(seq)
             Less(c, d) == w(c) > w(d) \/ (w(c) = w(d) /\
                             (Sim(a, b, c) > Sim(a, b, d) \/ (Sim(a, b, c) = Sim(a, b, d) /\
                                (c[1] < d[1] \/ (c[1] = d[1] /\ c[2] < d[2])))))
  <1>1. /\ IsFiniteSet(C) /\ Own(a) \subseteq C
        /\ \A c \in C : /\ c = <<c[1], c[2]>> /\ c[1] \in Usables(a) /\ c[2] \in Usables(a)
                        /\ c[1] \in Nat /\ c[2] \in Nat /\ Sim(a, b, c) \in 0..Unit
        /\ \A i \in Usables(a) : Sim(a, b, <<i, i>>) = Unit
    BY OwnCandidates
  <1>2. \A c, d \in C : <<c, d>> \in R <=> Less(c, d)
    BY DEF Outranks
  <1>3. \A c \in C : w(c) \in Nat
    <2>1. TAKE c \in C
    <2>2. g[c] \in 0..Unit /\ Sim(a, b, c) \in 0..Unit
      BY <1>1 DEF Favours
    <2>3. g[c] <= g[c]
      BY <2>2, ReportAssumption
    <2>4. (Weight * g[c]) \div Unit \in Nat
      BY <2>2, <2>3, WeightGrows
    <2> QED
      BY <2>2, <2>4, ReportAssumption DEF Weighed
  <1>4. assign_greedy(a, b, C, g) = G
    <2> DEFINE before == [c \in C |-> Cardinality({d \in C : Outranks(a, b, g, d, c)})]
    <2>1. assign_greedy(a, b, C, g) = Greedy([i \in 1..Cardinality(C) |-> CHOOSE c \in C : before[c] = i - 1])
      BY DEF assign_greedy, InRank
    <2>2. \A c \in C : {d \in C : Outranks(a, b, g, d, c)} = Below(C, R, c)
      BY DEF Below
    <2>3. before = Ranks(C, R)
      BY <2>2 DEF Ranks
    <2> HIDE DEF before
    <2>4. seq = [i \in 1..Cardinality(C) |-> CHOOSE c \in C : before[c] = i - 1]
      BY <2>3 DEF SortedBy
    <2> HIDE DEF seq
    <2> QED
      BY <2>1, <2>4
  <1> HIDE DEF R, C, w
  <1>5. \A c \in C : w(c) \in Int /\ Sim(a, b, c) \in Int /\ c[1] \in Int /\ c[2] \in Int
    BY <1>1, <1>3, ReportAssumption
  <1>6. StrictOrder(C, R)
    <2>1. \A c \in C : <<c, c>> \notin R
      BY <1>2, <1>5
    <2>2. \A c, d, e \in C : <<c, d>> \in R /\ <<d, e>> \in R => <<c, e>> \in R
      <3>1. TAKE c, d, e \in C
      <3>2. /\ w(c) \in Int /\ Sim(a, b, c) \in Int /\ c[1] \in Int /\ c[2] \in Int
            /\ w(d) \in Int /\ Sim(a, b, d) \in Int /\ d[1] \in Int /\ d[2] \in Int
            /\ w(e) \in Int /\ Sim(a, b, e) \in Int /\ e[1] \in Int /\ e[2] \in Int
        BY <1>5
      <3>3. Less(c, d) /\ Less(d, e) => Less(c, e)
        BY <3>2
      <3> HIDE DEF Less
      <3> QED
        BY <1>2, <3>3
    <2>3. \A c, d \in C : c # d => <<c, d>> \in R \/ <<d, c>> \in R
      <3>1. \A c, d \in C : c # d => c[1] # d[1] \/ c[2] # d[2]
        BY <1>1
      <3> QED
        BY <1>2, <1>5, <3>1
    <2> QED
      BY <2>1, <2>2, <2>3 DEF StrictOrder
  <1>7. /\ Cardinality(C) \in Nat /\ Len(seq) = Cardinality(C)
        /\ \A c \in C : \E i \in 1..Cardinality(C) : seq[i] = c
        /\ \A i, j \in 1..Cardinality(C) : i < j <=> <<seq[i], seq[j]>> \in R
        /\ \A i \in 1..Cardinality(C) : seq[i] \in C
    <2>1. /\ Cardinality(C) \in Nat /\ Len(SortedBy(C, R)) = Cardinality(C)
          /\ \A c \in C : \E i \in 1..Cardinality(C) : SortedBy(C, R)[i] = c
          /\ \A i, j \in 1..Cardinality(C) : i < j <=> <<SortedBy(C, R)[i], SortedBy(C, R)[j]>> \in R
          /\ \A i \in 1..Cardinality(C) : SortedBy(C, R)[i] \in C
      <3>1. IsFiniteSet(C)
        BY <1>1
      <3> QED
        BY <3>1, <1>6, SortedByRank
    <2> QED
      BY <2>1 DEF seq
  <1> HIDE DEF seq
  <1> DEFINE n == Len(seq)
  <1>8. /\ n \in Nat
        /\ \A p \in G : \E i \in 1..n : p = seq[i]
        /\ \A p, q \in G : Meets(p, q) => p = q
        /\ \A i \in 1..n : \E j \in 1..i : seq[j] \in G /\ Meets(seq[j], seq[i])
    <2>1. n \in Nat
      BY <1>7
    <2> QED
      BY <2>1, GreedyIsFair DEF G
  <1> HIDE DEF G
  <1>9. /\ \A c \in C : \E i \in 1..n : seq[i] = c
        /\ \A i, j \in 1..n : i < j <=> <<seq[i], seq[j]>> \in R
        /\ \A i \in 1..n : seq[i] \in C
    BY <1>7
  <1> HIDE DEF n
  \* the pair of the lesser function outranks
  <1>10. ASSUME NEW c \in C, c[1] # c[2]
         PROVE  \E m \in {c[1], c[2]} : <<m, m>> \in C /\ <<<<m, m>>, c>> \in R
    <2>1. PICK m \in {c[1], c[2]} : m <= c[1] /\ m <= c[2]
      BY <1>1
    <2>2. m \in Usables(a) /\ m \in Nat /\ <<m, m>> \in C
      BY <1>1, <2>1 DEF Own
    <2>3. Sim(a, b, <<m, m>>) = Unit /\ Sim(a, b, c) <= Unit /\ Sim(a, b, c) \in Nat /\ Unit \in Nat
      BY <1>1, <2>2, ReportAssumption
    <2>4. g[c] \in 0..Unit /\ g[<<m, m>>] \in 0..Unit /\ g[c] <= g[<<m, m>>]
      BY <2>1, <2>2 DEF Favours, C
    <2>5. w(c) <= w(<<m, m>>)
      <3>1. /\ (Weight * g[c]) \div Unit \in Nat /\ (Weight * g[<<m, m>>]) \div Unit \in Nat
            /\ (Weight * g[c]) \div Unit <= (Weight * g[<<m, m>>]) \div Unit
        BY <2>4, WeightGrows
      <3>2. /\ w(c) = Sim(a, b, c) + (Weight * g[c]) \div Unit
            /\ w(<<m, m>>) = Sim(a, b, <<m, m>>) + (Weight * g[<<m, m>>]) \div Unit
        BY DEF w, Weighed
      <3> QED
        BY <2>3, <3>1, <3>2
    <2>6. <<m, m>>[1] = m /\ <<m, m>>[2] = m
      OBVIOUS
    <2>7. m < c[1] \/ (m = c[1] /\ m < c[2])
      BY <1>1, <1>10, <2>1, <2>2
    <2>8. w(c) \in Int /\ w(<<m, m>>) \in Int
      BY <1>5, <2>2
    <2>9. Less(<<m, m>>, c)
      BY <2>3, <2>5, <2>6, <2>7, <2>8
    <2> HIDE DEF Less
    <2> QED
      BY <1>2, <2>2, <2>9
  <1> DEFINE Strays == {k \in 1..n : seq[k] \in G /\ seq[k][1] # seq[k][2]}
  <1>11. Strays = {}
    <2> SUFFICES ASSUME Strays # {} PROVE FALSE
      OBVIOUS
    <2>1. Strays \in SUBSET Nat
      BY <1>8
    <2>2. PICK k \in Strays : \A y \in Strays : k <= y
      BY <2>1, LeastExists
    <2>3. k \in 1..n /\ seq[k] \in G /\ seq[k] \in C /\ seq[k][1] # seq[k][2]
      BY <1>9, <2>2
    <2>4. PICK m \in {seq[k][1], seq[k][2]} : <<m, m>> \in C /\ <<<<m, m>>, seq[k]>> \in R
      BY <1>10, <2>3
    <2>5. PICK l \in 1..n : seq[l] = <<m, m>>
      BY <1>9, <2>4
    <2>6. l < k
      BY <1>9, <2>3, <2>4, <2>5
    <2>7. PICK j \in 1..l : seq[j] \in G /\ Meets(seq[j], seq[l])
      BY <1>8
    <2>8. j \in 1..n /\ j < k /\ j \in Nat /\ k \in Nat
      BY <1>8, <2>3, <2>6
    <2>9. j \notin Strays
      BY <2>2, <2>8
    <2>10. seq[j][1] = seq[j][2] /\ seq[j] \in C
      BY <1>9, <2>7, <2>8, <2>9
    <2>11. seq[j] = <<m, m>>
      BY <1>1, <2>5, <2>7, <2>10 DEF Meets
    <2>12. Meets(seq[j], seq[k])
      BY <2>4, <2>11 DEF Meets
    <2>13. seq[j] = seq[k]
      BY <1>8, <2>3, <2>7, <2>12
    <2> QED
      BY <2>3, <2>10, <2>13
  <1>12. \A p \in G : p \in C /\ p[1] = p[2]
    <2>1. TAKE p \in G
    <2>2. PICK i \in 1..n : p = seq[i]
      BY <1>8
    <2>3. seq[i] \in C /\ i \notin Strays
      BY <1>9, <1>11
    <2> QED
      BY <2>2, <2>3
  <1>13. ASSUME NEW p \in G PROVE p \in Own(a)
    <2>1. p = <<p[1], p[1]>> /\ p[1] \in Usables(a)
      BY <1>1, <1>12
    <2> QED
      BY <2>1 DEF Own
  <1>14. Own(a) \subseteq G
    <2>1. ASSUME NEW i \in Usables(a) PROVE <<i, i>> \in G
      <3>1. PICK l \in 1..n : seq[l] = <<i, i>>
        BY <1>1, <1>9 DEF Own
      <3>2. PICK j \in 1..l : seq[j] \in G /\ Meets(seq[j], seq[l])
        BY <1>8
      <3>3. seq[j] = <<seq[j][1], seq[j][2]>> /\ seq[j][1] = seq[j][2]
        BY <1>1, <1>12, <3>2
      <3>4. seq[j] = <<i, i>>
        BY <3>1, <3>2, <3>3 DEF Meets
      <3> QED
        BY <3>2, <3>4
    <2> QED
      BY <2>1 DEF Own
  <1> QED
    BY <1>4, <1>13, <1>14 DEF C

\* the functions of U that i calls, or that call i
Called(a, i) == callees(a, i) \cap Usables(a)
Calling(a, i) == callers(a, i) \cap Usables(a)

\* Against its copy, with every function paired with itself, two functions agree on
\* the neighbours they share.
LEMMA OwnGraphScore ==
    ASSUME NEW a, NEW b, Alike(a, b), NEW i \in Usables(a), NEW j \in Usables(a)
    PROVE  graph_score(a, b, Own(a), <<i, j>>) =
              LET n == Cardinality(Called(a, i)) + Cardinality(Calling(a, i))
                       + Cardinality(Called(a, j)) + Cardinality(Calling(a, j))
                  k == Cardinality(Called(a, i) \cap Called(a, j))
                       + Cardinality(Calling(a, i) \cap Calling(a, j))
              IN  IF n = 0 THEN 0 ELSE (2 * k * Unit) \div n
  <1> DEFINE P == Own(a)
             at(S) == {x \in S : \E p \in P : p[1] = x}
             bt(S) == {x \in S : \E p \in P : p[2] = x}
             hits(S, T) == {x \in S : \E y \in T : <<x, y>> \in P}
  <1>0. /\ \A p \in P : p[1] \in Usables(a) /\ p[2] = p[1]
        /\ \A x \in Usables(a) : <<x, x>> \in P
    BY DEF Own
  <1>1. \A x : (\E p \in P : p[1] = x) <=> x \in Usables(a)
    <2>1. ASSUME NEW x \in Usables(a) PROVE \E p \in P : p[1] = x
      <3>1. <<x, x>> \in P /\ <<x, x>>[1] = x
        BY <1>0
      <3> HIDE DEF P
      <3> QED
        BY <3>1
    <2> HIDE DEF P
    <2> QED
      BY <1>0, <2>1
  <1>2. \A x : (\E p \in P : p[2] = x) <=> x \in Usables(a)
    <2> HIDE DEF P
    <2> QED
      BY <1>0, <1>1
  <1>3. \A x, y : <<x, y>> \in P <=> x \in Usables(a) /\ y = x
    BY DEF Own
  <1>4. Len(a) \in Nat /\ Len(b) = Len(a) /\ i \in 1..Len(a) /\ j \in 1..Len(a)
    BY DEF Alike, Usables
  <1>5. \A x \in 1..Len(a) : callees(b, x) = callees(a, x)
    BY <1>4 DEF Alike, callees
  <1>6. \A x \in 1..Len(a) : callers(b, x) = callers(a, x)
    BY <1>4, <1>5 DEF callers
  <1> HIDE DEF P
  <1>7. /\ at(callees(a, i)) = Called(a, i) /\ at(callers(a, i)) = Calling(a, i)
        /\ bt(callees(b, j)) = Called(a, j) /\ bt(callers(b, j)) = Calling(a, j)
    BY <1>1, <1>2, <1>4, <1>5, <1>6 DEF Called, Calling
  <1>8. /\ hits(callees(a, i), callees(b, j)) = Called(a, i) \cap Called(a, j)
        /\ hits(callers(a, i), callers(b, j)) = Calling(a, i) \cap Calling(a, j)
    <2>1. ASSUME NEW S, NEW T PROVE hits(S, T) = (S \cap Usables(a)) \cap (T \cap Usables(a))
      <3>1. ASSUME NEW x PROVE x \in hits(S, T) <=> x \in S /\ x \in T /\ x \in Usables(a)
        <4>1. \A y : <<x, y>> \in P <=> y = x /\ x \in Usables(a)
          BY <1>3
        <4>2. (\E y \in T : y = x /\ x \in Usables(a)) <=> x \in T /\ x \in Usables(a)
          OBVIOUS
        <4>3. (\E y \in T : <<x, y>> \in P) <=> x \in T /\ x \in Usables(a)
          BY <4>1, <4>2, Zenon
        <4> QED
          BY <4>3
      <3> HIDE DEF hits
      <3> QED
        BY <3>1
    <2> HIDE DEF hits
    <2> QED
      BY <2>1, <1>4, <1>5, <1>6 DEF Called, Calling
  <1> DEFINE n == Cardinality(at(callees(a, i))) + Cardinality(at(callers(a, i)))
                  + Cardinality(bt(callees(b, j))) + Cardinality(bt(callers(b, j)))
             k == Cardinality(hits(callees(a, i), callees(b, j)))
                  + Cardinality(hits(callers(a, i), callers(b, j)))
  <1>9. graph_score(a, b, P, <<i, j>>) = IF n = 0 THEN 0 ELSE (2 * k * Unit) \div n
    BY DEF graph_score
  <1>10. n = Cardinality(Called(a, i)) + Cardinality(Calling(a, i))
             + Cardinality(Called(a, j)) + Cardinality(Calling(a, j))
    BY <1>7
  <1>11. k = Cardinality(Called(a, i) \cap Called(a, j)) + Cardinality(Calling(a, i) \cap Calling(a, j))
    BY <1>8
  <1> HIDE DEF n, k
  <1> QED
    BY <1>9, <1>10, <1>11 DEF P

\* a function with neighbours agrees with itself in full, one without agrees with none
LEMMA OwnGraphFavours ==
    ASSUME NEW a, NEW b, Alike(a, b)
    PROVE  Favours(a, b, [c \in Cands(a, b) |-> graph_score(a, b, Own(a), c)])
  <1> DEFINE U == Usables(a)
             s(i, j) == graph_score(a, b, Own(a), <<i, j>>)
             deg(i) == Cardinality(Called(a, i)) + Cardinality(Calling(a, i))
             com(i, j) == Cardinality(Called(a, i) \cap Called(a, j))
                          + Cardinality(Calling(a, i) \cap Calling(a, j))
  <1>1. IsFiniteSet(U)
    <2>1. Len(a) \in Nat /\ U \subseteq 1..Len(a)
      BY DEF Alike, Usables
    <2>2. IsFiniteSet(1..Len(a))
      BY <2>1, FS_Interval
    <2> QED
      BY <2>1, <2>2, FS_Subset
  <1>2. ASSUME NEW S \in SUBSET U, NEW T \in SUBSET U
        PROVE  /\ Cardinality(S) \in Nat /\ Cardinality(S \cap T) \in Nat
               /\ Cardinality(S \cap T) <= Cardinality(S)
               /\ Cardinality(S \cap T) <= Cardinality(T)
               /\ Cardinality(S) = 0 => S \cap T = {}
    <2>1. IsFiniteSet(S) /\ IsFiniteSet(T) /\ IsFiniteSet(S \cap T)
      BY <1>1, FS_Subset
    <2>2. S \cap T \in SUBSET S /\ S \cap T \in SUBSET T
      OBVIOUS
    <2>3. Cardinality(S) = 0 => S = {}
      BY <2>1, FS_EmptySet
    <2> QED
      BY <2>1, <2>2, <2>3, FS_Subset, FS_CardinalityType
  <1>3. \A i \in U : Called(a, i) \in SUBSET U /\ Calling(a, i) \in SUBSET U
    BY DEF Called, Calling
  <1>4. ASSUME NEW i \in U, NEW j \in U
        PROVE  /\ deg(i) \in Nat /\ com(i, j) \in Nat /\ com(i, i) = deg(i)
               /\ com(i, j) <= deg(i) /\ com(i, j) <= deg(j)
    <2>1. /\ Called(a, i) \cap Called(a, i) = Called(a, i)
          /\ Calling(a, i) \cap Calling(a, i) = Calling(a, i)
      OBVIOUS
    <2>2. com(i, i) = deg(i)
      BY <2>1
    <2>3. /\ Cardinality(Called(a, i)) \in Nat /\ Cardinality(Called(a, j)) \in Nat
          /\ Cardinality(Called(a, i) \cap Called(a, j)) \in Nat
          /\ Cardinality(Called(a, i) \cap Called(a, j)) <= Cardinality(Called(a, i))
          /\ Cardinality(Called(a, i) \cap Called(a, j)) <= Cardinality(Called(a, j))
      BY <1>2, <1>3
    <2>4. /\ Cardinality(Calling(a, i)) \in Nat /\ Cardinality(Calling(a, j)) \in Nat
          /\ Cardinality(Calling(a, i) \cap Calling(a, j)) \in Nat
          /\ Cardinality(Calling(a, i) \cap Calling(a, j)) <= Cardinality(Calling(a, i))
          /\ Cardinality(Calling(a, i) \cap Calling(a, j)) <= Cardinality(Calling(a, j))
      BY <1>2, <1>3
    <2> QED
      BY <2>2, <2>3, <2>4
  <1>5. ASSUME NEW i \in U, NEW j \in U
        PROVE  s(i, j) = IF deg(i) + deg(j) = 0 THEN 0
                         ELSE (2 * com(i, j) * Unit) \div (deg(i) + deg(j))
    <2> DEFINE n == Cardinality(Called(a, i)) + Cardinality(Calling(a, i))
                    + Cardinality(Called(a, j)) + Cardinality(Calling(a, j))
    <2>1. s(i, j) = IF n = 0 THEN 0 ELSE (2 * com(i, j) * Unit) \div n
      BY OwnGraphScore
    <2>2. \A x \in U : Cardinality(Called(a, x)) \in Nat /\ Cardinality(Calling(a, x)) \in Nat
      BY <1>2, <1>3
    <2>3. n = deg(i) + deg(j)
      BY <2>2
    <2> HIDE DEF n, deg, com
    <2> QED
      BY <2>1, <2>3
  <1> HIDE DEF s, deg, com, U
  <1>6. ASSUME NEW i \in U, NEW j \in U
        PROVE  /\ s(i, j) \in 0..Unit
               /\ i = j /\ deg(i) # 0 => s(i, j) = Unit
               /\ deg(i) = 0 \/ deg(j) = 0 => s(i, j) = 0
    <2> DEFINE n == deg(i) + deg(j)
               k == 2 * com(i, j)
    <2>1. /\ n \in Nat /\ k \in Nat /\ k <= n /\ Unit \in Nat
          /\ i = j => k = n
          /\ deg(i) = 0 \/ deg(j) = 0 => k = 0
          /\ deg(i) # 0 => n # 0
      BY <1>4, ReportAssumption
    <2>2. s(i, j) = IF n = 0 THEN 0 ELSE (k * Unit) \div n
      BY <1>5
    <2> HIDE DEF n, k
    <2>3. n # 0 => /\ (k * Unit) \div n \in 0..Unit
                   /\ (k = n => (k * Unit) \div n = Unit) /\ (k = 0 => (k * Unit) \div n = 0)
      BY <2>1, Share
    <2> QED
      BY <2>1, <2>2, <2>3
  <1>7. \A c \in Cands(a, b) : /\ c = <<c[1], c[2]>> /\ c[1] \in U /\ c[2] \in U
    BY OwnCandidates DEF U
  <1>8. \A m \in U : <<m, m>> \in Cands(a, b)
    BY OwnCandidates DEF U, Own
  <1> DEFINE g == [c \in Cands(a, b) |-> graph_score(a, b, Own(a), c)]
  <1>9. \A c \in Cands(a, b) : g[c] = s(c[1], c[2])
    BY <1>7 DEF s
  <1>10. \A m \in U : g[<<m, m>>] = s(m, m)
    BY <1>8 DEF s
  <1>11. g \in [Cands(a, b) -> 0..Unit]
    <2>1. \A c \in Cands(a, b) : g[c] \in 0..Unit
      BY <1>6, <1>7, <1>9
    <2> QED
      BY <2>1
  <1> HIDE DEF g
  <1>12. ASSUME NEW c \in Cands(a, b), NEW m \in U, m \in {c[1], c[2]}
         PROVE  g[c] <= g[<<m, m>>]
    <2>1. s(c[1], c[2]) \in 0..Unit /\ s(m, m) \in 0..Unit /\ Unit \in Nat
      BY <1>6, <1>7, ReportAssumption
    <2>2. CASE deg(m) = 0
      <3>1. s(c[1], c[2]) = 0
        BY <1>6, <1>7, <1>12, <2>2
      <3> QED
        BY <1>9, <1>10, <2>1, <3>1
    <2>3. CASE deg(m) # 0
      <3>1. s(m, m) = Unit
        BY <1>6, <2>3
      <3> QED
        BY <1>9, <1>10, <2>1, <3>1
    <2> QED
      BY <2>2, <2>3
  <1> QED
    BY <1>11, <1>12 DEF Favours, g, U

----------------------------------------------------------------------------
\* f holds the rounds of align
AreRounds(a, b, n, f) ==
    f = [i \in 0..n |->
            IF i = 0 THEN Round(a, b, Cands(a, b), [c \in Cands(a, b) |-> 0])
            ELSE LET P == f[i - 1].pairs
                 IN  Round(a, b, Cands(a, b), [c \in Cands(a, b) |-> graph_score(a, b, P, c)])]

LEMMA RoundsExist == ASSUME NEW a, NEW b, NEW n \in Nat PROVE \E f : AreRounds(a, b, n, f)
  <1> DEFINE First == Round(a, b, Cands(a, b), [c \in Cands(a, b) |-> 0])
             After(P) == Round(a, b, Cands(a, b), [c \in Cands(a, b) |-> graph_score(a, b, P, c)])
             Bad == {m \in Nat : \A f : ~AreRounds(a, b, m, f)}
  <1>0. \A m, f : AreRounds(a, b, m, f)
                    <=> f = [i \in 0..m |-> IF i = 0 THEN First ELSE After(f[i - 1].pairs)]
    BY DEF AreRounds
  <1> HIDE DEF First, After
  <1> SUFFICES ASSUME Bad # {} PROVE FALSE
    OBVIOUS
  <1>1. PICK m \in Bad : \A y \in Bad : m <= y
    BY LeastExists
  <1>2. m # 0
    <2> DEFINE z == [i \in 0..0 |-> First]
    <2>1. \A i \in 0..0 : i = 0 /\ z[i] = First
      OBVIOUS
    <2>2. z = [i \in 0..0 |-> IF i = 0 THEN First ELSE After(z[i - 1].pairs)]
      BY <2>1
    <2> HIDE DEF z
    <2>3. AreRounds(a, b, 0, z)
      BY <1>0, <2>2
    <2> QED
      BY <1>1, <2>3
  <1>3. m - 1 \in Nat /\ m - 1 \notin Bad
    BY <1>1, <1>2
  <1>4. PICK f : AreRounds(a, b, m - 1, f)
    BY <1>3
  <1> DEFINE g == [i \in 0..m |-> IF i = m THEN After(f[m - 1].pairs) ELSE f[i]]
  <1>5. \A i \in 0..(m - 1) : f[i] = IF i = 0 THEN First ELSE After(f[i - 1].pairs)
    BY <1>0, <1>4
  <1>6. ASSUME NEW i \in 0..m
        PROVE  g[i] = IF i = 0 THEN First ELSE After(g[i - 1].pairs)
    <2>1. CASE i = m
      BY <1>2, <2>1
    <2>2. CASE i # m
      <3>1. i \in 0..(m - 1) /\ g[i] = f[i] /\ (i # 0 => i - 1 \in 0..m /\ g[i - 1] = f[i - 1])
        BY <2>2
      <3> QED
        BY <1>5, <3>1
    <2> QED
      BY <2>1, <2>2
  <1>7. AreRounds(a, b, m, g)
    <2>1. g = [i \in 0..m |-> IF i = 0 THEN First ELSE After(g[i - 1].pairs)]
      BY <1>6
    <2> HIDE DEF g
    <2> QED
      BY <1>0, <2>1
  <1> QED
    BY <1>1, <1>7

\* Every round pairs every function with itself.
LEMMA RoundsAreOwn ==
    ASSUME NEW a, NEW b, Alike(a, b), NEW n \in Nat, NEW f, AreRounds(a, b, n, f)
    PROVE  \A i \in 0..n : Favours(a, b, f[i].graph) /\ f[i].pairs = Own(a)
  <1> DEFINE C == Cands(a, b)
             Bad == {i \in 0..n : ~(Favours(a, b, f[i].graph) /\ f[i].pairs = Own(a))}
  <1>1. /\ f[0] = Round(a, b, C, [c \in C |-> 0])
        /\ \A i \in 1..n : f[i] = Round(a, b, C, [c \in C |-> graph_score(a, b, f[i - 1].pairs, c)])
    <2> DEFINE After(i) == Round(a, b, C, [c \in C |-> graph_score(a, b, f[i - 1].pairs, c)])
               First == Round(a, b, C, [c \in C |-> 0])
    <2>1. f = [i \in 0..n |-> IF i = 0 THEN First ELSE After(i)]
      BY DEF AreRounds
    <2> HIDE DEF First, After
    <2>2. f[0] = First /\ \A i \in 1..n : f[i] = After(i)
      BY <2>1
    <2> QED
      BY <2>2 DEF First, After
  <1>2. ASSUME NEW g, Favours(a, b, g), NEW r, r = Round(a, b, C, g)
        PROVE  Favours(a, b, r.graph) /\ r.pairs = Own(a)
    <2>1. assign_greedy(a, b, C, g) = Own(a)
      BY <1>2, GreedyTakesOwn
    <2> QED
      BY <1>2, <2>1 DEF Round
  <1>3. Favours(a, b, [c \in C |-> 0])
    <2>1. 0 \in 0..Unit
      BY ReportAssumption
    <2>2. \A m \in Usables(a) : <<m, m>> \in C
      BY OwnCandidates DEF Own
    <2> HIDE DEF C
    <2> QED
      BY <2>1, <2>2 DEF Favours, C
  <1> SUFFICES ASSUME Bad # {} PROVE FALSE
    OBVIOUS
  <1>4. Bad \in SUBSET Nat
    OBVIOUS
  <1>5. PICK i \in Bad : \A y \in Bad : i <= y
    BY <1>4, LeastExists
  <1>6. CASE i = 0
    BY <1>1, <1>2, <1>3, <1>5, <1>6
  <1>7. CASE i # 0
    <2>1. i \in 1..n /\ i - 1 \in 0..n /\ i - 1 \notin Bad
      BY <1>5, <1>7
    <2>2. f[i - 1].pairs = Own(a)
      BY <2>1
    <2>3. f[i] = Round(a, b, C, [c \in C |-> graph_score(a, b, Own(a), c)])
      BY <1>1, <2>1, <2>2
    <2>4. Favours(a, b, [c \in C |-> graph_score(a, b, Own(a), c)])
      BY OwnGraphFavours
    <2> QED
      BY <1>2, <1>5, <2>3, <2>4
  <1> QED
    BY <1>6, <1>7

OwnRow(i, graph) == [a |-> i, b |-> i, sim |-> Unit, graph |-> graph[<<i, i>>], score |-> Unit]

\* A build aligned with its copy: every function with signal with itself, at full
\* similarity and score, whatever its twins.
LEMMA AlignIsOwn ==
    ASSUME NEW a, NEW b, Alike(a, b), NEW t \in Int, t <= Unit
    PROVE  \E graph : align(a, b, t) = {OwnRow(i, graph) : i \in Usables(a)}
  <1> DEFINE C == Cands(a, b)
  <1>1. Rounds \in Nat
    BY ReportAssumption
  <1>2. \E f : /\ AreRounds(a, b, Rounds, f)
               /\ align(a, b, t) =
                     LET last == f[IF Weight > 0 THEN Rounds ELSE 0]
                         score(c) == Lesser(Unit, Weighed(a, b, last.graph, c))
                     IN  {[a |-> c[1], b |-> c[2], sim |-> Sim(a, b, c), graph |-> last.graph[c],
                           score |-> score(c)] : c \in {p \in last.pairs : score(p) >= t}}
    <2>1. \E f : f = [i \in 0..Rounds |->
                        IF i = 0 THEN Round(a, b, Cands(a, b), [c \in Cands(a, b) |-> 0])
                        ELSE LET P == f[i - 1].pairs
                             IN  Round(a, b, Cands(a, b), [c \in Cands(a, b) |-> graph_score(a, b, P, c)])]
      <3>1. PICK f : AreRounds(a, b, Rounds, f)
        BY <1>1, RoundsExist
      <3>2. f = [i \in 0..Rounds |->
                    IF i = 0 THEN Round(a, b, Cands(a, b), [c \in Cands(a, b) |-> 0])
                    ELSE LET P == f[i - 1].pairs
                         IN  Round(a, b, Cands(a, b), [c \in Cands(a, b) |-> graph_score(a, b, P, c)])]
        BY <3>1 DEF AreRounds
      <3> QED
        BY <3>2, Zenon
    <2> QED
      BY <2>1 DEF align, AreRounds
  <1>3. PICK f : /\ AreRounds(a, b, Rounds, f)
                 /\ align(a, b, t) =
                     LET last == f[IF Weight > 0 THEN Rounds ELSE 0]
                         score(c) == Lesser(Unit, Weighed(a, b, last.graph, c))
                     IN  {[a |-> c[1], b |-> c[2], sim |-> Sim(a, b, c), graph |-> last.graph[c],
                           score |-> score(c)] : c \in {p \in last.pairs : score(p) >= t}}
    BY <1>2
  <1> DEFINE last == f[IF Weight > 0 THEN Rounds ELSE 0]
             score(c) == Lesser(Unit, Weighed(a, b, last.graph, c))
  <1>4. Favours(a, b, last.graph) /\ last.pairs = Own(a)
    <2>1. (IF Weight > 0 THEN Rounds ELSE 0) \in 0..Rounds
      BY <1>1
    <2> QED
      BY <1>1, <1>3, <2>1, RoundsAreOwn
  <1>5. align(a, b, t) = {[a |-> c[1], b |-> c[2], sim |-> Sim(a, b, c), graph |-> last.graph[c],
                           score |-> score(c)] : c \in {p \in last.pairs : score(p) >= t}}
    BY <1>3
  <1> HIDE DEF last
  <1>6. ASSUME NEW i \in Usables(a)
        PROVE  Sim(a, b, <<i, i>>) = Unit /\ score(<<i, i>>) = Unit
    <2>1. Sim(a, b, <<i, i>>) = Unit /\ <<i, i>> \in Cands(a, b)
      BY OwnCandidates DEF Own
    <2>2. last.graph[<<i, i>>] \in 0..Unit
      BY <1>4, <2>1 DEF Favours
    <2>3. last.graph[<<i, i>>] <= last.graph[<<i, i>>]
      BY <2>2, ReportAssumption
    <2>4. (Weight * last.graph[<<i, i>>]) \div Unit \in Nat
      BY <2>2, <2>3, WeightGrows
    <2>5. Weighed(a, b, last.graph, <<i, i>>) \in Nat /\ Weighed(a, b, last.graph, <<i, i>>) >= Unit
      BY <2>1, <2>4, ReportAssumption DEF Weighed
    <2> QED
      BY <2>1, <2>5, ReportAssumption DEF Lesser
  <1> HIDE DEF score
  <1> DEFINE R(c) == [a |-> c[1], b |-> c[2], sim |-> Sim(a, b, c), graph |-> last.graph[c],
                      score |-> score(c)]
  <1>7. \A i \in Usables(a) : R(<<i, i>>) = OwnRow(i, last.graph)
    BY <1>6 DEF OwnRow
  <1>8. {p \in last.pairs : score(p) >= t} = Own(a)
    <2>1. \A p \in Own(a) : score(p) >= t
      BY <1>6, ReportAssumption DEF Own
    <2> QED
      BY <1>4, <2>1
  <1>9. align(a, b, t) = {R(c) : c \in Own(a)}
    BY <1>5, <1>8
  <1> HIDE DEF R
  <1>10. {R(c) : c \in Own(a)} = {OwnRow(i, last.graph) : i \in Usables(a)}
    <2>1. {R(c) : c \in Own(a)} = {R(<<i, i>>) : i \in Usables(a)}
      BY DEF Own
    <2> QED
      BY <1>7, <2>1
  <1> QED
    BY <1>9, <1>10


----------------------------------------------------------------------------
(* A build against itself: the reports.                                    *)

LEMMA SameBuildAlike ==
    ASSUME NEW a \in Seq(Function), NEW b \in Seq(Function), Unnamed(a) = Unnamed(b)
    PROVE  Alike(a, b) /\ Usables(b) = Usables(a)
  <1>1. Len(a) \in Nat /\ Len(b) \in Nat
    OBVIOUS
  <1>2. DOMAIN Unnamed(a) = 1..Len(a) /\ DOMAIN Unnamed(b) = 1..Len(b)
    BY DEF Unnamed
  <1>3. 1..Len(a) = 1..Len(b)
    BY <1>2
  <1>4. Len(a) = Len(b)
    BY <1>1, <1>3
  <1>5. ASSUME NEW i \in 1..Len(a)
        PROVE  /\ a[i].sig = b[i].sig /\ a[i].low = b[i].low /\ a[i].entry = b[i].entry
               /\ a[i].binary = b[i].binary /\ a[i].callees = b[i].callees
    <2>1. a[i] \in Function /\ b[i] \in Function
      BY <1>4
    <2> DEFINE strip(f) == [f EXCEPT !.name = NoName]
    <2>2. strip(a[i]) = strip(b[i])
      <3>1. Unnamed(a)[i] = [a[i] EXCEPT !.name = NoName]
        BY DEF Unnamed
      <3>2. Unnamed(b)[i] = [b[i] EXCEPT !.name = NoName]
        BY <1>4 DEF Unnamed
      <3> QED
        BY <3>1, <3>2
    <2>3. ASSUME NEW f \in Function
          PROVE  /\ strip(f).sig = f.sig /\ strip(f).low = f.low /\ strip(f).entry = f.entry
                 /\ strip(f).binary = f.binary /\ strip(f).callees = f.callees
      BY DEF Function
    <2> HIDE DEF strip
    <2> QED
      BY <2>1, <2>2, <2>3
  <1>6. Alike(a, b)
    BY <1>4, <1>5 DEF Alike
  <1>7. Usables(b) = Usables(a)
    BY <1>4, <1>5 DEF Usables, usable
  <1> QED
    BY <1>6, <1>7

\* a build matched with itself by name
LEMMA OwnMatchByName ==
    ASSUME NEW a
    PROVE  LET r == match_by_name(a, a)
           IN  r.changed = {} /\ r.only_a = {} /\ r.only_b = {}
  <1> DEFINE A == ByName(a)
             judged == {n \in DOMAIN A \cap DOMAIN A : usable(A[n]) /\ usable(A[n])}
             same == {n \in judged : similarity(A[n], A[n]) >= SameThresh}
  <1>1. /\ match_by_name(a, a).changed = judged \ same
        /\ match_by_name(a, a).only_a = DOMAIN A \ DOMAIN A
        /\ match_by_name(a, a).only_b = DOMAIN A \ DOMAIN A
    BY DEF match_by_name
  <1> HIDE DEF A
  <1>2. \A n : similarity(A[n], A[n]) >= SameThresh
    BY SimilarityBounds, ReportAssumption
  <1>3. same = judged
    BY <1>2
  <1> QED
    BY <1>1, <1>3

\* a build matched with its copy by alignment
LEMMA OwnMatchAligned ==
    ASSUME NEW a, NEW b, Alike(a, b), Usables(b) = Usables(a)
    PROVE  LET r == match_aligned(a, b)
           IN  r.changed = {} /\ r.only_a = {} /\ r.only_b = {}
  <1>1. MatchThresh \in Int /\ MatchThresh <= Unit /\ SameThresh \in Int /\ SameThresh <= Unit /\ Unit \in Nat
    BY ReportAssumption
  <1>2. PICK graph : align(a, b, MatchThresh) = {OwnRow(i, graph) : i \in Usables(a)}
    BY <1>1, AlignIsOwn
  <1> DEFINE P == align(a, b, MatchThresh)
             same == {p \in P : p.sim >= SameThresh}
             gone == {i \in 1..Len(a) : usable(a[i]) /\ \A p \in P : p.a # i}
             new == {j \in 1..Len(b) : usable(b[j]) /\ \A p \in P : p.b # j}
  <1>3. /\ match_aligned(a, b).changed = {<<p.a, p.b>> : p \in P \ same}
        /\ match_aligned(a, b).only_a = gone /\ match_aligned(a, b).only_b = new
    BY DEF match_aligned
  <1>4. /\ \A p \in P : p.sim = Unit
        /\ \A i \in Usables(a) : \E p \in P : p.a = i /\ p.b = i
    <2>1. \A i : LET p == OwnRow(i, graph) IN p.sim = Unit /\ p.a = i /\ p.b = i
      BY DEF OwnRow
    <2> QED
      BY <1>2, <2>1
  <1> HIDE DEF P
  <1>5. P \ same = {}
    BY <1>1, <1>4
  <1>6. gone = {} /\ new = {}
    BY <1>4 DEF Usables
  <1> HIDE DEF same, gone, new
  <1> QED
    BY <1>3, <1>5, <1>6

\* a stripped copy queried against the build it was made of
LEMMA OwnQuery ==
    ASSUME NEW in, in.b \in Seq(Function), Alike(in.a, in.b), Usables(in.b) = Usables(in.a),
           AllNamed(in.b), QueryThresh <= Unit
    PROVE  {<<g.entry, g.guess>> : g \in cmd_query(in).guesses}
              = {<<in.b[i].entry, in.b[i].name>> : i \in Usables(in.b)}
  <1> DEFINE a == in.a
             b == in.b
  <1>1. named(b) = b
    <2>1. {i \in 1..Len(b) : b[i].name # NoName} = 1..Len(b)
      BY DEF AllNamed
    <2> QED
      BY <2>1, AtAll DEF named
  <1>2. QueryThresh \in Int
    BY ReportAssumption
  <1>3. PICK graph : align(a, b, QueryThresh) = {OwnRow(i, graph) : i \in Usables(a)}
    BY <1>2, AlignIsOwn
  <1> DEFINE Guess(p) == [entry |-> a[p.a].entry, guess |-> b[p.b].name,
                          from_binary |-> b[p.b].binary, sim |-> p.sim,
                          graph |-> p.graph, score |-> p.score]
  <1>4. cmd_query(in).guesses = {Guess(p) : p \in align(a, b, QueryThresh)}
    BY <1>1 DEF cmd_query
  <1>5. ASSUME NEW i \in Usables(a)
        PROVE  Guess(OwnRow(i, graph)).entry = b[i].entry /\ Guess(OwnRow(i, graph)).guess = b[i].name
    <2>1. i \in 1..Len(a)
      BY DEF Usables
    <2> QED
      BY <2>1 DEF OwnRow, Alike
  <1> HIDE DEF Guess, a, b
  <1>6. cmd_query(in).guesses = {Guess(OwnRow(i, graph)) : i \in Usables(a)}
    BY <1>3, <1>4
  <1>7. {<<g.entry, g.guess>> : g \in cmd_query(in).guesses} = {<<b[i].entry, b[i].name>> : i \in Usables(a)}
    <2>1. {<<g.entry, g.guess>> : g \in cmd_query(in).guesses}
             = {<<Guess(OwnRow(i, graph)).entry, Guess(OwnRow(i, graph)).guess>> : i \in Usables(a)}
      BY <1>6
    <2> QED
      BY <1>5, <2>1
  <1> QED
    BY <1>7 DEF a, b

\* full similarity is equality
LEMMA FullSimilarity ==
    ASSUME NEW f \in Function, NEW g \in Function, similarity(f, g) = Unit
    PROVE  f.sig = g.sig
  <1>1. Cardinality(Same(f, g)) \in 0..SigLen /\ Cardinality(Same(f, g)) * Slot = SigLen * Slot
        /\ Slot \in Nat /\ Slot # 0 /\ SigLen \in Nat
    BY SimilarityBounds, Slots, ReportAssumption
  <1>2. Cardinality(Same(f, g)) = SigLen
    <2> DEFINE c == Cardinality(Same(f, g))
    <2> HIDE DEF c
    <2>1. c \in Nat /\ c <= SigLen /\ c * Slot = SigLen * Slot
      BY <1>1 DEF c
    <2>2. PICK d \in Nat : SigLen = c + d
      <3>1. SigLen - c \in Nat /\ SigLen = c + (SigLen - c)
        BY <1>1, <2>1
      <3> QED
        BY <3>1
    <2>3. SigLen * Slot = c * Slot + d * Slot
      BY <1>1, <2>1, <2>2
    <2>4. d * Slot = 0
      BY <1>1, <2>1, <2>2, <2>3
    <2>5. d = 0
      BY <1>1, <2>2, <2>4
    <2> QED
      BY <2>1, <2>2, <2>5 DEF c
  <1>3. Same(f, g) \in SUBSET (1..SigLen)
    BY DEF Same
  <1>4. Same(f, g) = 1..SigLen
    BY <1>2, <1>3, SlotsFinite, FS_Subset
  <1>5. \A i \in 1..SigLen : f.sig[i] = g.sig[i]
    BY <1>4 DEF Same
  <1> DEFINE x == f.sig
             y == g.sig
  <1>6. x \in [1..SigLen -> Nat] /\ y \in [1..SigLen -> Nat]
    BY DEF Function
  <1>7. \A i \in 1..SigLen : x[i] = y[i]
    BY <1>5
  <1> HIDE DEF x, y
  <1>8. x = y
    <2>1. x = [i \in 1..SigLen |-> x[i]] /\ y = [i \in 1..SigLen |-> y[i]]
      BY <1>6
    <2>2. [i \in 1..SigLen |-> x[i]] = [i \in 1..SigLen |-> y[i]]
      BY <1>7
    <2> QED
      BY <2>1, <2>2
  <1> QED
    BY <1>8 DEF x, y

\* what a function's namesake can rank behind in its own build: only the twins
LEMMA OwnRank ==
    ASSUME NEW b \in Seq(Function), NEW i \in Usables(b), b[i].name # NoName
    PROVE  LET ranked == Ranked(b[i], bsig(b))
           IN  FirstOf({k \in 1..Len(ranked) : ranked[k].name = b[i].name})
                  <= Cardinality({j \in Usables(b) : b[j].sig = b[i].sig})
  <1> DEFINE I == {j \in 1..Len(b) : usable(b[j]) /\ b[j].name # NoName}
             m == Cardinality(I)
             f == b[i]
             bs == bsig(b)
             twins == {j \in Usables(b) : b[j].sig = f.sig}
  <1>1. I \in SUBSET Nat /\ IsFiniteSet(I) /\ I \subseteq Usables(b) /\ i \in I /\ I \subseteq 1..Len(b)
    <2>1. Len(b) \in Nat /\ IsFiniteSet(1..Len(b)) /\ I \subseteq 1..Len(b)
      BY FS_Interval
    <2> QED
      BY <2>1, FS_Subset DEF Usables
  <1>2. IsFiniteSet(twins)
    <2>1. Len(b) \in Nat /\ IsFiniteSet(1..Len(b))
      BY FS_Interval
    <2>2. Usables(b) \subseteq 1..Len(b)
      BY DEF Usables
    <2>3. twins \subseteq 1..Len(b)
      BY <2>2
    <2> QED
      BY <2>1, <2>3, FS_Subset
  <1>3. \A j \in I : b[j] \in Function
    BY <1>1
  <1>4. bs = At(b, I)
    BY DEF bsig
  <1> HIDE DEF bs, twins
  <1>5. PICK place : Placing(place, I) /\ bs = [k \in 1..m |-> b[place[k]]]
    <2> HIDE DEF I
    <2> QED
      BY <1>1, <1>4, AtKeepsOrder
  <1> HIDE DEF I
  <1>6. m \in Nat /\ IsFiniteSet(1..m) /\ Cardinality(1..m) = m
    <2>1. m \in Nat
      BY <1>1, FS_CardinalityType
    <2> HIDE DEF m
    <2>2. IsFiniteSet(1..m) /\ Cardinality(1..m) = IF 1 > m THEN 0 ELSE m - 1 + 1
      BY <2>1, FS_Interval
    <2> QED
      BY <2>1, <2>2
  <1>7. /\ \A k \in 1..m : place[k] \in I /\ bs[k] = b[place[k]]
        /\ \E k \in 1..m : place[k] = i
        /\ \A k, l \in 1..m : place[k] = place[l] => k = l
        /\ DOMAIN bs = 1..m /\ Len(bs) = m
    <2> HIDE DEF m
    <2>1. /\ place \in [1..m -> I] /\ \A j \in I : \E k \in 1..m : place[k] = j
          /\ \A k, l \in 1..m : k < l <=> place[k] < place[l]
      BY <1>5 DEF Placing, m
    <2>2. \A k \in 1..m : place[k] \in I /\ place[k] \in Nat /\ bs[k] = b[place[k]]
      BY <1>1, <1>5, <2>1
    <2>3. \A k, l \in 1..m : place[k] = place[l] => k = l
      BY <1>6, <2>1, <2>2
    <2>4. DOMAIN bs = 1..m /\ Len(bs) = m
      BY <1>5, <1>6
    <2> QED
      BY <1>1, <2>1, <2>2, <2>3, <2>4
  <1> HIDE DEF m
  <1>8. PICK k0 \in 1..m : place[k0] = i
    BY <1>7
  <1> DEFINE near(k) == similarity(f, bs[k])
             R == {p \in (1..m) \X (1..m) : near(p[1]) > near(p[2])
                                            \/ (near(p[1]) = near(p[2]) /\ p[1] < p[2])}
             order == SortedBy(1..m, R)
             ranked == Ranked(f, bs)
  <1>9. \A k \in 1..m : near(k) \in 0..Unit /\ near(k) \in Int
    BY SimilarityBounds, ReportAssumption
  <1>10. near(k0) = Unit
    BY <1>7, <1>8, SimilarityBounds
  <1>11. \A k, l \in 1..m : <<k, l>> \in R <=> near(k) > near(l) \/ (near(k) = near(l) /\ k < l)
    OBVIOUS
  <1>12. ranked = [k \in 1..m |-> bs[order[k]]]
    <2> DEFINE Op(k, l) == \/ similarity(f, bs[k]) > similarity(f, bs[l])
                           \/ similarity(f, bs[k]) = similarity(f, bs[l]) /\ k < l
               before == [c \in 1..m |-> Cardinality({d \in 1..m : Op(d, c)})]
               listed == [k \in 1..Cardinality(1..m) |-> CHOOSE c \in 1..m : before[c] = k - 1]
    <2>1. ranked = [k \in 1..m |-> bs[listed[k]]]
      BY <1>7 DEF Ranked, InRank
    <2>2. \A c \in 1..m : {d \in 1..m : Op(d, c)} = Below(1..m, R, c)
      BY <1>11 DEF Below
    <2>3. before = Ranks(1..m, R)
      BY <2>2 DEF Ranks
    <2> HIDE DEF before
    <2>4. order = listed
      BY <2>3 DEF SortedBy
    <2> HIDE DEF order, listed
    <2> QED
      BY <2>1, <2>4
  <1> HIDE DEF R, near
  <1>13. StrictOrder(1..m, R)
    <2>1. \A k \in 1..m : <<k, k>> \notin R
      BY <1>6, <1>9, <1>11
    <2>2. \A k, l, q \in 1..m : <<k, l>> \in R /\ <<l, q>> \in R => <<k, q>> \in R
      <3>1. TAKE k, l, q \in 1..m
      <3>2. near(k) \in Int /\ near(l) \in Int /\ near(q) \in Int
        BY <1>9
      <3>3. /\ <<k, l>> \in R => near(k) > near(l) \/ (near(k) = near(l) /\ k < l)
            /\ <<l, q>> \in R => near(l) > near(q) \/ (near(l) = near(q) /\ l < q)
            /\ near(k) > near(q) \/ (near(k) = near(q) /\ k < q) => <<k, q>> \in R
        BY <1>11
      <3>4. k \in Int /\ l \in Int /\ q \in Int
        BY <1>6
      <3> QED
        BY <3>2, <3>3, <3>4
    <2>3. \A k, l \in 1..m : k # l => <<k, l>> \in R \/ <<l, k>> \in R
      BY <1>6, <1>9, <1>11
    <2> QED
      BY <2>1, <2>2, <2>3 DEF StrictOrder
  <1>14. /\ \A k \in 1..m : order[k] \in 1..m
         /\ \A c \in 1..m : \E k \in 1..m : order[k] = c
         /\ \A k, l \in 1..m : k < l <=> <<order[k], order[l]>> \in R
         /\ \A k, l \in 1..m : order[k] = order[l] => k = l
    <2>1. /\ \A k \in 1..Cardinality(1..m) : order[k] \in 1..m
          /\ \A c \in 1..m : \E k \in 1..Cardinality(1..m) : order[k] = c
          /\ \A k, l \in 1..Cardinality(1..m) : k < l <=> <<order[k], order[l]>> \in R
          /\ \A k, l \in 1..Cardinality(1..m) : order[k] = order[l] => k = l
      BY <1>6, <1>13, SortedByRank
    <2> HIDE DEF order
    <2> QED
      BY <1>6, <2>1
  <1> HIDE DEF order
  <1>15. PICK k1 \in 1..m : order[k1] = k0
    BY <1>14
  \* its own place in the ranking is one of its name
  <1>16. Len(ranked) = m /\ ranked[k1].name = f.name
    <2>1. Len(ranked) = m
      BY <1>6, <1>12
    <2>2. ranked[k1] = bs[k0] /\ bs[k0] = b[i]
      BY <1>7, <1>8, <1>12, <1>15
    <2> QED
      BY <2>1, <2>2
  <1> DEFINE K == {k \in 1..Len(ranked) : ranked[k].name = f.name}
  <1>17. K \in SUBSET Nat /\ k1 \in K
    BY <1>6, <1>16
  <1>18. FirstOf(K) \in K /\ FirstOf(K) <= k1
    <2> HIDE DEF K
    <2>1. \E x \in K : \A y \in K : x <= y
      BY <1>17, LeastExists
    <2>2. FirstOf(K) \in K /\ \A y \in K : FirstOf(K) <= y
      BY <2>1 DEF FirstOf
    <2> QED
      BY <1>17, <2>2
  \* and what ranks up to it is a twin
  <1>19. \A k \in 1..k1 : k \in 1..m /\ place[order[k]] \in twins
    <2>1. TAKE k \in 1..k1
    <2>2. k \in 1..m
      BY <1>6
    <2>3. near(order[k]) = Unit
      <3>1. CASE k = k1
        BY <1>10, <1>15, <3>1
      <3>2. CASE k # k1
        <4>1. k < k1
          BY <1>6, <2>2, <3>2
        <4>2. order[k] \in 1..m /\ <<order[k], k0>> \in R
          <5>1. <<order[k], order[k1]>> \in R
            BY <1>14, <2>2, <4>1
          <5> QED
            BY <1>14, <1>15, <2>2, <5>1
        <4>3. near(order[k]) > near(k0) \/ near(order[k]) = near(k0)
          BY <1>11, <4>2
        <4>4. near(order[k]) >= Unit /\ near(order[k]) \in 0..Unit
          BY <1>9, <1>10, <4>2, <4>3, ReportAssumption
        <4> QED
          BY <4>4, ReportAssumption
      <3> QED
        BY <3>1, <3>2
    <2>4. place[order[k]] \in I /\ bs[order[k]] = b[place[order[k]]]
      BY <1>7, <1>14, <2>2
    <2>5. b[place[order[k]]].sig = f.sig
      <3>1. similarity(f, b[place[order[k]]]) = Unit
        BY <2>3, <2>4 DEF near
      <3>2. f \in Function /\ b[place[order[k]]] \in Function
        BY <1>1, <1>3, <2>4
      <3> QED
        BY <3>1, <3>2, FullSimilarity
    <2> QED
      BY <1>1, <2>2, <2>4, <2>5 DEF twins
  <1>20. k1 <= Cardinality(twins)
    <2> DEFINE Q == {p \in (1..k1) \X twins : p[2] = place[order[p[1]]]}
    <2>1. \A k \in 1..k1, t \in twins : <<k, t>> \in Q <=> t = place[order[k]]
      OBVIOUS
    <2> HIDE DEF Q
    <2>2. \A k \in 1..k1 : \E t \in twins : <<k, t>> \in Q
      BY <1>19, <2>1
    <2>3. \A k, l \in 1..k1, t \in twins : <<k, t>> \in Q /\ <<l, t>> \in Q => k = l
      <3>1. TAKE k, l \in 1..k1, t \in twins
      <3>2. HAVE <<k, t>> \in Q /\ <<l, t>> \in Q
      <3>3. place[order[k]] = place[order[l]]
        BY <2>1, <3>2
      <3>4. k \in 1..m /\ l \in 1..m
        BY <1>19
      <3>5. order[k] \in 1..m /\ order[l] \in 1..m
        BY <1>14, <3>4
      <3>6. order[k] = order[l]
        BY <1>7, <3>3, <3>5
      <3> QED
        BY <1>14, <3>4, <3>6
    <2>4. Cardinality(1..k1) <= Cardinality(twins)
      BY <1>2, <2>2, <2>3, OwnPartners
    <2>5. Cardinality(1..k1) = k1
      <3>1. k1 \in Nat /\ k1 >= 1
        BY <1>6
      <3>2. Cardinality(1..k1) = IF 1 > k1 THEN 0 ELSE k1 - 1 + 1
        BY <3>1, FS_Interval
      <3> QED
        BY <3>1, <3>2
    <2> QED
      BY <2>4, <2>5
  <1>21. FirstOf(K) <= Cardinality(twins)
    <2>1. FirstOf(K) \in Nat /\ k1 \in Nat /\ Cardinality(twins) \in Nat
      BY <1>2, <1>17, <1>18, FS_CardinalityType
    <2> QED
      BY <1>18, <1>20, <2>1
  <1> QED
    BY <1>21 DEF K, ranked, bs, twins

\* a build evaluated against itself
LEMMA OwnEval ==
    ASSUME NEW in, in.a \in Seq(Function), in.a = in.b
    PROVE  /\ cmd_eval(in).align_correct = cmd_eval(in).scored
           /\ \A s \in cmd_eval(in).rows : \E i \in Usables(in.a) :
                 /\ in.a[i].entry = s.entry
                 /\ s.rank <= Cardinality({j \in Usables(in.b) : in.b[j].sig = in.a[i].sig})
  <1> DEFINE a == in.a
             P == align(a, a, EvalThresh)
             twins == {f.name : f \in Range(bsig(a))}
             tested == {k \in 1..Len(a) : usable(a[k]) /\ a[k].name \in twins}
             scored == {Score(a, a, P, i) : i \in tested}
  <1>1. /\ cmd_eval(in).rows = scored /\ cmd_eval(in).scored = Cardinality(scored)
        /\ cmd_eval(in).align_correct = Cardinality({s \in scored : s.align_correct})
    BY DEF cmd_eval
  <1>2. EvalThresh \in Int /\ EvalThresh <= Unit
    BY ReportAssumption
  <1>3. Alike(a, a)
    BY DEF Alike
  <1>4. PICK graph : P = {OwnRow(i, graph) : i \in Usables(a)}
    BY <1>2, <1>3, AlignIsOwn
  <1> HIDE DEF P
  <1>5. \A i \in tested : i \in Usables(a) /\ i \in 1..Len(a)
    BY DEF Usables
  <1>6. \A i \in tested : a[i].name # NoName
    <2> DEFINE I == {j \in 1..Len(a) : usable(a[j]) /\ a[j].name # NoName}
    <2>1. I \in SUBSET Nat /\ IsFiniteSet(I)
      <3>1. Len(a) \in Nat /\ IsFiniteSet(1..Len(a)) /\ I \subseteq 1..Len(a)
        BY FS_Interval
      <3> QED
        BY <3>1, FS_Subset
    <2>2. bsig(a) = At(a, I)
      BY DEF bsig
    <2> HIDE DEF I
    <2>3. PICK place : Placing(place, I) /\ At(a, I) = [k \in 1..Cardinality(I) |-> a[place[k]]]
      BY <2>1, AtKeepsOrder
    <2>4. \A f \in Range(bsig(a)) : \E j \in I : f = a[j]
      BY <2>2, <2>3 DEF Range, Placing
    <2> QED
      BY <2>4 DEF I
  <1> HIDE DEF tested
  <1>7. ASSUME NEW i \in tested PROVE Score(a, a, P, i).align_correct
    <2>1. OwnRow(i, graph) \in P /\ OwnRow(i, graph).a = i /\ OwnRow(i, graph).b = i
      BY <1>4, <1>5 DEF OwnRow
    <2> DEFINE p == OwnRow(i, graph)
    <2> HIDE DEF p
    <2>2. p \in P /\ p.a = i /\ p.b = i /\ a[p.b].name = a[i].name
      BY <2>1 DEF p
    <2>3. Score(a, a, P, i).align_correct = \E q \in {r \in P : r.a = i} : a[q.b].name = a[i].name
      BY DEF Score
    <2> QED
      BY <2>2, <2>3
  <1>8. {s \in scored : s.align_correct} = scored
    BY <1>7
  <1>9. cmd_eval(in).align_correct = cmd_eval(in).scored
    <2> HIDE DEF scored
    <2> QED
      BY <1>1, <1>8
  <1>10. ASSUME NEW s \in scored
         PROVE  \E i \in Usables(a) : /\ a[i].entry = s.entry
                                      /\ s.rank <= Cardinality({j \in Usables(a) : a[j].sig = a[i].sig})
    <2>1. PICK i \in tested : s = Score(a, a, P, i)
      OBVIOUS
    <2>2. s.entry = a[i].entry
      BY <2>1 DEF Score
    <2> DEFINE ranked == Ranked(a[i], bsig(a))
    <2>3. s.rank = FirstOf({k \in 1..Len(ranked) : ranked[k].name = a[i].name})
      BY <2>1 DEF Score
    <2>4. FirstOf({k \in 1..Len(ranked) : ranked[k].name = a[i].name})
             <= Cardinality({j \in Usables(a) : a[j].sig = a[i].sig})
      BY <1>5, <1>6, OwnRank
    <2> HIDE DEF ranked
    <2>5. s.rank <= Cardinality({j \in Usables(a) : a[j].sig = a[i].sig})
      BY <2>3, <2>4
    <2> QED
      BY <1>5, <2>2, <2>5
  <1> HIDE DEF scored
  <1> QED
    BY <1>1, <1>9, <1>10

\* A build compared with itself is clean, for any functions, twins, namesakes, call
\* graphs and rounds of alignment: match reports nothing changed, added or removed,
\* query names every function of the stripped copy, and eval pairs every function
\* right and ranks none behind more than its twins.  (A query threshold above the
\* unit, which the user may ask for, accepts nothing.)
THEOREM SelfComparison ==
    ASSUME QueryThresh <= Unit
    PROVE  Spec => []SelfComparisonIsClean
  <1>1. ReportInv => SelfComparisonIsClean
    <2> SUFFICES ASSUME ReportInv, SameBuild PROVE
          /\ report.cmd = "match" /\ (report.aligned \/ input.a = input.b) =>
                report.changed = {} /\ report.only_a = {} /\ report.only_b = {}
          /\ report.cmd = "query" /\ AllNamed(input.b) =>
                {<<g.entry, g.guess>> : g \in report.guesses}
                   = {<<input.b[i].entry, input.b[i].name>> : i \in Usables(input.b)}
          /\ report.cmd = "eval" /\ input.a = input.b =>
                /\ report.align_correct = report.scored
                /\ \A s \in report.rows : \E i \in Usables(input.a) :
                      /\ input.a[i].entry = s.entry
                      /\ s.rank <= Cardinality({j \in Usables(input.b) :
                                                   input.b[j].sig = input.a[i].sig})
      BY DEF SelfComparisonIsClean
    <2> DEFINE a == input.a
               b == input.b
    <2>1. a \in Seq(Function) /\ b \in Seq(Function)
      BY ReportAssumption DEF ReportInv
    <2>2. Alike(a, b) /\ Usables(b) = Usables(a)
      BY <2>1, SameBuildAlike DEF SameBuild
    <2>3. ASSUME report.cmd = "match", report.aligned \/ a = b
          PROVE  report.changed = {} /\ report.only_a = {} /\ report.only_b = {}
      <3>1. report = match_aligned(a, b) \/ report = match_by_name(a, b)
        BY <2>3 DEF ReportInv, cmd_match
      <3>2. CASE report = match_aligned(a, b)
        BY <2>2, <3>2, OwnMatchAligned
      <3>3. CASE report = match_by_name(a, b)
        <4>1. ~report.aligned
          BY <3>3 DEF match_by_name
        <4>2. report = match_by_name(a, a)
          BY <2>3, <3>3, <4>1
        <4> QED
          BY <4>2, OwnMatchByName
      <3> QED
        BY <3>1, <3>2, <3>3
    <2>4. ASSUME report.cmd = "query", AllNamed(b)
          PROVE  {<<g.entry, g.guess>> : g \in report.guesses}
                    = {<<b[i].entry, b[i].name>> : i \in Usables(b)}
      <3>1. report = cmd_query(input)
        BY <2>4 DEF ReportInv
      <3> QED
        BY <2>1, <2>2, <2>4, <3>1, OwnQuery
    <2>5. ASSUME report.cmd = "eval", a = b
          PROVE  /\ report.align_correct = report.scored
                 /\ \A s \in report.rows : \E i \in Usables(a) :
                       /\ a[i].entry = s.entry
                       /\ s.rank <= Cardinality({j \in Usables(b) : b[j].sig = a[i].sig})
      <3>1. report = cmd_eval(input)
        BY <2>5 DEF ReportInv
      <3> QED
        BY <2>1, <2>5, <3>1, OwnEval
    <2> QED
      BY <2>3, <2>4, <2>5
  <1> QED
    BY <1>1, Invariance, PTL
=============================================================================

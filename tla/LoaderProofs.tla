---------------------------- MODULE LoaderProofs ----------------------------
(* The segment plan of load, its budget, the functions and call edges of a   *)
(* stripped copy, and the page setup of try_run, for files with any headers *)
(* and tables, any page size and any budgets.                               *)
EXTENDS Loader, RankingProofs, TLAPS

----------------------------------------------------------------------------
(* Numbers.                                                                *)

LEMMA Sizes ==
    /\ FileLen \in Nat /\ Top \in Nat /\ FileLen <= Top
    /\ Page \in Nat \ {0} /\ MaxSetupRuns \in Nat \ {0}
    /\ Scratch \in Seq([lo : Nat, len : Nat]) /\ Len(Scratch) \in Nat \ {0}
  BY LoaderAssumption

LEMMA Element ==
    ASSUME NEW S, NEW s \in Seq(S), NEW i \in 1..Len(s)
    PROVE  s[i] \in S
  OBVIOUS

LEMMA Products ==
    ASSUME NEW m \in Nat, NEW n \in Nat
    PROVE  /\ m * Page \in Nat /\ (m + 1) * Page = m * Page + Page
           /\ m <= n => m * Page <= n * Page
  <1> USE Sizes
  <1>1. m * Page \in Nat /\ (m + 1) * Page = m * Page + Page
    OBVIOUS
  <1>2. ASSUME m <= n PROVE m * Page <= n * Page
    <2>1. PICK d \in Nat : n = m + d
      <3>1. n - m \in Nat /\ n = m + (n - m)
        BY <1>2
      <3> QED
        BY <3>1
    <2>2. n * Page = m * Page + d * Page /\ d * Page \in Nat
      BY <2>1
    <2> QED
      BY <1>1, <2>2
  <1> QED
    BY <1>1, <1>2

\* a page number times the page size does not pass the address
LEMMA Division ==
    ASSUME NEW x \in Nat
    PROVE  /\ x \div Page \in Nat
           /\ (x \div Page) * Page <= x /\ x < (x \div Page) * Page + Page
           /\ x = (x \div Page) * Page + (x % Page) /\ x % Page \in 0..(Page - 1)
  <1>5. x % Page \in 0..(Page - 1)
    BY Sizes
  <1>6. x \div Page \in Nat
    BY Sizes
  <1>1. x \div Page \in Nat /\ x % Page \in 0..(Page - 1)
    BY <1>5, <1>6
  <1>2. x = Page * (x \div Page) + (x % Page)
    BY Sizes
  <1>3. Page * (x \div Page) = (x \div Page) * Page
    BY <1>1, Sizes
  <1>4. (x \div Page) * Page \in Nat
    BY <1>1, Products
  <1> QED
    BY <1>1, <1>2, <1>3, <1>4, Sizes

LEMMA DivisionBounds ==
    ASSUME NEW x \in Nat, NEW q \in Nat
    PROVE  /\ x < q * Page => x \div Page < q
           /\ q * Page <= x => q <= x \div Page
  <1> DEFINE d == x \div Page
  <1>1. d \in Nat /\ d * Page <= x /\ x < d * Page + Page
    BY Division
  <1> HIDE DEF d
  <1>2. d * Page \in Nat /\ q * Page \in Nat /\ (d + 1) * Page = d * Page + Page
    BY <1>1, Products
  <1>3. (q <= d => q * Page <= d * Page) /\ (d + 1 <= q => (d + 1) * Page <= q * Page)
    BY <1>1, Products
  <1>4. x < q * Page => d < q
    BY <1>1, <1>2, <1>3
  <1>5. q * Page <= x => q <= d
    BY <1>1, <1>2, <1>3, Sizes
  <1> QED
    BY <1>4, <1>5 DEF d

\* later addresses are on later pages, or the same
LEMMA PagesAscend ==
    ASSUME NEW x \in Nat, NEW y \in Nat, x <= y
    PROVE  FirstPage(x) \in Nat /\ FirstPage(y) \in Nat /\ FirstPage(x) <= FirstPage(y)
  <1>1. x \div Page \in Nat /\ (x \div Page) * Page <= x /\ y \div Page \in Nat
    BY Division
  <1>2. (x \div Page) * Page \in Nat
    BY <1>1, Products
  <1>3. (x \div Page) * Page <= y
    BY <1>1, <1>2
  <1>4. x \div Page <= y \div Page
    BY <1>1, <1>3, DivisionBounds
  <1> QED
    BY <1>1, <1>4 DEF FirstPage

\* the pages of a span that ends at or before v do not pass the page of v
LEMMA PagesBefore ==
    ASSUME NEW lo \in Nat, NEW len \in Nat, NEW v \in Nat, Sat(lo + len) <= v
    PROVE  PastPage(lo, len) \in Nat /\ PastPage(lo, len) <= FirstPage(v) + 1
  <1> DEFINE x == Sat(Sat(lo + len) + Page - 1)
             q == FirstPage(v)
  <1>1. x \in Nat /\ x <= v + Page - 1
    BY Sizes DEF Sat
  <1>2. q \in Nat /\ v < q * Page + Page /\ q * Page \in Nat
    BY Division, Products DEF FirstPage
  <1>3. (q + 2) * Page = q * Page + Page + Page
    <2>1. (q + 1) * Page = q * Page + Page /\ (q + 1 + 1) * Page = (q + 1) * Page + Page
      BY <1>2, Products
    <2> QED
      BY <1>2, <2>1
  <1>4. PastPage(lo, len) = x \div Page
    BY DEF PastPage
  <1> HIDE DEF x, q
  <1>5. x < (q + 2) * Page
    BY <1>1, <1>2, <1>3, Sizes
  <1>6. x \div Page < q + 2 /\ x \div Page \in Nat
    BY <1>1, <1>2, <1>5, Division, DivisionBounds
  <1> QED
    BY <1>2, <1>4, <1>6 DEF q

\* the last byte of a span that leaves the last page alone is on one of its pages
LEMMA PagesReach ==
    ASSUME NEW lo \in Nat, NEW len \in Nat \ {0}, lo + len <= Top - (Top % Page)
    PROVE  /\ PastPage(lo, len) \in Nat /\ FirstPage(lo + len - 1) \in Nat
           /\ FirstPage(lo + len - 1) < PastPage(lo, len)
  <1> DEFINE e == lo + len
             x == Sat(e + Page - 1)
             q == (e - 1) \div Page
  <1>1. e \in Nat \ {0} /\ e <= Top - (Top % Page) /\ Top % Page \in 0..(Page - 1)
    BY Division, Sizes
  <1>2. Sat(e) = e
    BY <1>1, Sizes DEF Sat
  <1>3. PastPage(lo, len) = x \div Page /\ FirstPage(lo + len - 1) = q
    BY <1>2 DEF PastPage, FirstPage
  <1>7. e - 1 \in Nat
    BY <1>1
  <1> HIDE DEF e
  <1>4. q \in Nat /\ q * Page <= e - 1 /\ q * Page \in Nat /\ (q + 1) * Page = q * Page + Page
    BY <1>7, Division, Products
  <1> HIDE DEF q
  <1>5. CASE e + Page - 1 <= Top
    <2>1. x = e + Page - 1 /\ x \in Nat
      BY <1>1, <1>5, Sizes DEF Sat
    <2>2. (q + 1) * Page <= x
      BY <1>1, <1>4, <2>1, Sizes
    <2>3. q + 1 <= x \div Page /\ x \div Page \in Nat
      BY <1>4, <2>1, <2>2, Division, DivisionBounds
    <2> QED
      BY <1>3, <1>4, <2>3
  <1>6. CASE e + Page - 1 > Top
    <2>1. x = Top
      BY <1>6 DEF Sat
    <2> DEFINE t == Top \div Page
    <2>2. t \in Nat /\ t * Page = Top - (Top % Page)
      <3>1. Top \in Nat
        BY Sizes
      <3>2. t \in Nat /\ Top = t * Page + (Top % Page) /\ Top % Page \in 0..(Page - 1)
        BY <3>1, Division
      <3> HIDE DEF t
      <3>3. t * Page \in Nat
        BY <3>2, Products
      <3>4. Top % Page \in Nat
        BY <3>2, Sizes
      <3> QED
        BY <3>1, <3>2, <3>3, <3>4
    <2> HIDE DEF t
    <2>3. e - 1 < t * Page /\ e - 1 \in Nat
      BY <1>1, <2>2, Sizes
    <2>4. (e - 1) \div Page < t
      BY <2>2, <2>3, DivisionBounds
    <2> QED
      BY <1>3, <1>4, <2>1, <2>2, <2>4 DEF t, q
  <1> QED
    BY <1>1, <1>5, <1>6, Sizes
----------------------------------------------------------------------------
(* The free runs of a span.                                                *)

LEMMA RunsAre ==
    ASSUME NEW a \in Nat, NEW b \in Nat, NEW r \in FreeRuns(a, b)
    PROVE  /\ r[1] \in Nat /\ r[2] \in Nat /\ r = <<r[1], r[2]>>
           /\ a <= r[1] /\ r[1] < r[2] /\ r[2] <= b
           /\ \A p \in r[1]..(r[2] - 1) : p \notin mapped
           /\ r[1] = a \/ (r[1] - 1) \in mapped
           /\ r[2] = b \/ r[2] \in mapped
  BY DEF FreeRuns, Pages

\* a mapped page lies between any two of them
LEMMA RunsApart ==
    ASSUME NEW a \in Nat, NEW b \in Nat, NEW r \in FreeRuns(a, b), NEW s \in FreeRuns(a, b)
    PROVE  r = s \/ r[2] < s[1] \/ s[2] < r[1]
  <1>1. /\ r[1] \in Nat /\ r[2] \in Nat /\ s[1] \in Nat /\ s[2] \in Nat
        /\ a <= r[1] /\ r[1] < r[2] /\ r[2] <= b /\ a <= s[1] /\ s[1] < s[2] /\ s[2] <= b
    BY RunsAre
  <1>2. /\ \A p \in r[1]..(r[2] - 1) : p \notin mapped
        /\ \A p \in s[1]..(s[2] - 1) : p \notin mapped
    BY RunsAre
  <1>3. /\ r[1] = a \/ (r[1] - 1) \in mapped
        /\ r[2] = b \/ r[2] \in mapped
        /\ s[1] = a \/ (s[1] - 1) \in mapped
        /\ s[2] = b \/ s[2] \in mapped
    BY RunsAre
  <1>4. CASE r[1] < s[1]
    <2>1. s[1] - 1 \in mapped /\ s[1] - 1 \notin r[1]..(r[2] - 1)
      BY <1>1, <1>2, <1>3, <1>4
    <2> QED
      BY <1>1, <1>4, <2>1
  <1>5. CASE s[1] < r[1]
    <2>1. r[1] - 1 \in mapped /\ r[1] - 1 \notin s[1]..(s[2] - 1)
      BY <1>1, <1>2, <1>3, <1>5
    <2> QED
      BY <1>1, <1>5, <2>1
  <1>6. CASE r[1] = s[1]
    <2>1. ~(r[2] < s[2]) /\ ~(s[2] < r[2])
      BY <1>1, <1>2, <1>3, <1>6
    <2>2. r[2] = s[2]
      BY <1>1, <2>1
    <2> QED
      BY <1>6, <2>2, RunsAre
  <1> QED
    BY <1>1, <1>4, <1>5, <1>6

\* and together they are all the pages that are not mapped
LEMMA RunsCover ==
    ASSUME NEW a \in Nat, NEW b \in Nat, NEW p \in a..(b - 1), p \notin mapped
    PROVE  \E r \in FreeRuns(a, b) : p \in Pages(r)
  <1> DEFINE L == {x \in a..p : \A q \in x..p : q \notin mapped}
             R == {y \in (p + 1)..b : y = b \/ y \in mapped}
  <1>1. PICK x \in L : \A z \in L : x <= z
    <2>1. p \in L
      OBVIOUS
    <2>2. L \in SUBSET Nat
      OBVIOUS
    <2> HIDE DEF L
    <2> QED
      BY <2>1, <2>2, LeastExists
  <1>2. PICK y \in R : \A z \in R : y <= z
    <2>1. b \in R
      OBVIOUS
    <2>2. R \in SUBSET Nat
      OBVIOUS
    <2> HIDE DEF R
    <2> QED
      BY <2>1, <2>2, LeastExists
  <1>3. x \in a..p /\ y \in (p + 1)..b /\ (y = b \/ y \in mapped)
    OBVIOUS
  <1>4. \A q \in x..p : q \notin mapped
    OBVIOUS
  <1>5. \A q \in (p + 1)..(y - 1) : q \notin mapped
    BY <1>2, <1>3
  <1>6. x = a \/ x - 1 \in mapped
    <2>1. SUFFICES ASSUME x # a, x - 1 \notin mapped PROVE FALSE
      OBVIOUS
    <2>2. x - 1 \in a..p
      BY <1>3, <2>1
    <2>3. \A q \in (x - 1)..p : q \notin mapped
      BY <1>3, <1>4, <2>1
    <2>4. x - 1 \in L
      BY <2>2, <2>3
    <2> QED
      BY <1>1, <1>3, <2>4
  <1>7. \A q \in x..(y - 1) : q \notin mapped
    BY <1>3, <1>4, <1>5
  <1>8. x \in a..b /\ y \in a..b /\ x < y /\ p \in x..(y - 1)
    BY <1>3
  <1> HIDE DEF L, R
  <1>9. <<x, y>> \in FreeRuns(a, b)
    <2> DEFINE r == <<x, y>>
    <2>1. r \in (a..b) \X (a..b) /\ r[1] = x /\ r[2] = y
      BY <1>8
    <2> HIDE DEF r
    <2>2. r \in FreeRuns(a, b)
      BY <1>3, <1>6, <1>7, <1>8, <2>1 DEF FreeRuns, Pages
    <2> QED
      BY <2>2 DEF r
  <1>10. p \in Pages(<<x, y>>)
    BY <1>8 DEF Pages
  <1> QED
    BY <1>9, <1>10

LEMMA RunsFinite ==
    ASSUME NEW a \in Nat, NEW b \in Nat
    PROVE  IsFiniteSet(FreeRuns(a, b))
  <1>1. IsFiniteSet(a..b)
    BY FS_Interval
  <1>2. IsFiniteSet((a..b) \X (a..b))
    BY <1>1, FS_Product
  <1>3. FreeRuns(a, b) \subseteq (a..b) \X (a..b)
    BY DEF FreeRuns
  <1> QED
    BY <1>2, <1>3, FS_Subset

\* at most one in two pages starts a run
LEMMA RunsCount ==
    ASSUME NEW a \in Nat, NEW b \in Nat, NEW n \in Nat, b <= a + 2 * n
    PROVE  Cardinality(FreeRuns(a, b)) <= n
  <1> DEFINE runs == FreeRuns(a, b)
             slot == [r \in runs |-> (r[1] - a) \div 2]
  <1>1. \A r \in runs : r[1] \in Nat /\ r[2] \in Nat /\ a <= r[1] /\ r[1] < r[2] /\ r[2] <= b
    BY RunsAre
  <1>2. \A r, s \in runs : r = s \/ r[2] < s[1] \/ s[2] < r[1]
    BY RunsApart
  <1> HIDE DEF runs
  <1>3. \A r \in runs : slot[r] \in 0..(n - 1)
    <2>1. TAKE r \in runs
    <2>2. r[1] - a \in Nat /\ r[1] - a < 2 * n
      BY <1>1
    <2> QED
      BY <2>2
  <1>4. ASSUME NEW r \in runs, NEW s \in runs, slot[r] = slot[s] PROVE r = s
    <2> DEFINE x == r[1] - a
               y == s[1] - a
    <2>1. x \in Nat /\ y \in Nat
      BY <1>1
    <2>2. r = s \/ x + 2 <= y \/ y + 2 <= x
      BY <1>1, <1>2
    <2>3. x \div 2 = y \div 2
      BY <1>4
    <2> HIDE DEF x, y
    <2> QED
      BY <2>1, <2>2, <2>3
  <1>5. slot \in Injection(runs, 0..(n - 1))
    BY <1>3, <1>4 DEF Injection, IsInjective
  <1>6. IsFiniteSet(0..(n - 1)) /\ Cardinality(0..(n - 1)) = n
    <2>1. n - 1 \in Int /\ 0 \in Int
      OBVIOUS
    <2> QED
      BY <2>1, FS_Interval
  <1>7. Cardinality(runs) <= n
    BY <1>5, <1>6, FS_Injection
  <1> QED
    BY <1>7 DEF runs

\* a span of which only the first page can be mapped has one run at most
LEMMA OneRun ==
    ASSUME NEW a \in Nat, NEW b \in Nat, \A p \in mapped : p <= a
    PROVE  Cardinality(FreeRuns(a, b)) <= 1
  <1>1. \A r \in FreeRuns(a, b) : r[2] = b /\ r[1] \in Nat /\ r[1] < b
    <2>1. TAKE r \in FreeRuns(a, b)
    <2>2. r[1] \in Nat /\ r[2] \in Nat /\ a <= r[1] /\ r[1] < r[2] /\ (r[2] = b \/ r[2] \in mapped)
      BY RunsAre
    <2> QED
      BY <2>2
  <1>2. \A r, s \in FreeRuns(a, b) : r = s
    BY <1>1, RunsApart
  <1>3. CASE FreeRuns(a, b) = {}
    BY <1>3, FS_EmptySet
  <1>4. CASE FreeRuns(a, b) # {}
    <2>1. PICK r \in FreeRuns(a, b) : FreeRuns(a, b) = {r}
      BY <1>2, <1>4
    <2>2. Cardinality({r}) = 1
      BY FS_Singleton
    <2> QED
      BY <2>1, <2>2
  <1> QED
    BY <1>3, <1>4
----------------------------------------------------------------------------
(* ensure_pages.                                                           *)

Regular == /\ mapped \subseteq Nat /\ regions \subseteq Nat \X Nat
           /\ \A r \in regions : r[1] < r[2]

\* a region avoids a span when none of the pages of the span is mapped
LEMMA FreeWhenUnmapped ==
    ASSUME Regular, MirrorIsExact, NEW a \in Nat, NEW b \in Nat, a < b
    PROVE  Free(a, b) <=> \A p \in a..(b - 1) : p \notin mapped
  <1>1. \A t \in regions : t[1] \in Nat /\ t[2] \in Nat /\ t[1] < t[2]
    BY DEF Regular
  <1>2. \A p \in Nat : p \in mapped <=> \E t \in regions : p \in t[1]..(t[2] - 1)
    BY DEF MirrorIsExact, Pages
  <1>3. ASSUME Free(a, b), NEW p \in a..(b - 1) PROVE p \notin mapped
    BY <1>1, <1>2, <1>3 DEF Free
  <1>4. ASSUME \A p \in a..(b - 1) : p \notin mapped, NEW t \in regions
        PROVE  t[2] <= a \/ b <= t[1]
    <2>1. SUFFICES ASSUME a < t[2], t[1] < b PROVE FALSE
      BY <1>1
    <2>2. CASE a <= t[1]
      <3>1. t[1] \in a..(b - 1) /\ t[1] \in t[1]..(t[2] - 1)
        BY <1>1, <2>1, <2>2
      <3> QED
        BY <1>1, <1>2, <1>4, <3>1
    <2>3. CASE t[1] < a
      <3>1. a \in a..(b - 1) /\ a \in t[1]..(t[2] - 1)
        BY <1>1, <2>1, <2>3
      <3> QED
        BY <1>2, <1>4, <3>1
    <2> QED
      BY <1>1, <2>2, <2>3
  <1> QED
    BY <1>3, <1>4 DEF Free

\* a span that is not free gets some of its runs, all of them when that succeeds, and
\* it succeeds when they are all free and few enough
LEMMA EnsureFallsBack ==
    ASSUME NEW lo, NEW len, FirstPage(lo) \in Nat, PastPage(lo, len) \in Nat,
           FirstPage(lo) < PastPage(lo, len), ~Free(FirstPage(lo), PastPage(lo, len))
    PROVE  LET e == ensure_pages(lo, len)
               runs == FreeRuns(FirstPage(lo), PastPage(lo, len)) IN
           /\ e.maps \subseteq runs /\ (e.ok <=> e.maps = runs)
           /\ \A r \in e.maps : Free(r[1], r[2])
           /\ (\A r \in runs : Free(r[1], r[2])) /\ Cardinality(runs) <= MaxSetupRuns => e.ok
  <1> DEFINE runs == FreeRuns(FirstPage(lo), PastPage(lo, len))
             upto(r) == {s \in runs : s[1] <= r[1]}
             done == {r \in runs : Cardinality(upto(r)) <= MaxSetupRuns
                                  /\ \A s \in upto(r) : Free(s[1], s[2])}
  <1>1. ~(PastPage(lo, len) <= FirstPage(lo))
    OBVIOUS
  <1>2. ensure_pages(lo, len) = [ok |-> done = runs, maps |-> done]
    BY <1>1 DEF ensure_pages
  <1>3. \A r \in runs : r[1] \in Nat
    BY RunsAre
  <1>4. \A r \in done : Free(r[1], r[2])
    <2>1. \A r \in runs : r \in upto(r)
      BY <1>3
    <2> QED
      BY <2>1
  <1>5. ASSUME \A r \in runs : Free(r[1], r[2]), Cardinality(runs) <= MaxSetupRuns
        PROVE  done = runs
    <2>1. ASSUME NEW r \in runs PROVE Cardinality(upto(r)) <= MaxSetupRuns
      <3>1. IsFiniteSet(runs) /\ upto(r) \subseteq runs
        BY RunsFinite
      <3>2. Cardinality(upto(r)) \in Nat /\ Cardinality(runs) \in Nat
            /\ Cardinality(upto(r)) <= Cardinality(runs)
        BY <3>1, FS_Subset, FS_CardinalityType
      <3> QED
        BY <1>5, <3>2, Sizes
    <2> QED
      BY <1>5, <2>1
  <1>6. done \subseteq runs
    OBVIOUS
  <1> HIDE DEF done
  <1>7. ensure_pages(lo, len).maps = done /\ ensure_pages(lo, len).ok = (done = runs)
    BY <1>2
  <1> QED
    BY <1>4, <1>5, <1>6, <1>7

\* the regions it maps are nonempty, apart from each other and from the others, and
\* within the span, whether or not it succeeds
LEMMA EnsureMaps ==
    ASSUME Regular, MirrorIsExact, NEW lo, NEW len,
           FirstPage(lo) \in Nat, PastPage(lo, len) \in Nat
    PROVE  LET maps == ensure_pages(lo, len).maps IN
           /\ \A r \in maps : /\ r \in Nat \X Nat /\ r[1] < r[2] /\ Free(r[1], r[2])
                              /\ FirstPage(lo) <= r[1] /\ r[2] <= PastPage(lo, len)
           /\ \A r, s \in maps : r = s \/ r[2] <= s[1] \/ s[2] <= r[1]
  <1> DEFINE a == FirstPage(lo)
             b == PastPage(lo, len)
             maps == ensure_pages(lo, len).maps
  <1>1. CASE b <= a
    <2>1. maps = {}
      BY <1>1 DEF ensure_pages
    <2> QED
      BY <2>1
  <1>2. CASE a < b /\ Free(a, b)
    <2>1. maps = {<<a, b>>}
      BY <1>2 DEF ensure_pages
    <2> HIDE DEF maps
    <2> QED
      BY <1>2, <2>1 DEF maps
  <1>3. CASE a < b /\ ~Free(a, b)
    <2>1. maps \subseteq FreeRuns(a, b) /\ \A r \in maps : Free(r[1], r[2])
      BY <1>3, EnsureFallsBack
    <2>2. \A r \in FreeRuns(a, b) : r[1] \in Nat /\ r[2] \in Nat /\ r = <<r[1], r[2]>>
                                    /\ a <= r[1] /\ r[1] < r[2] /\ r[2] <= b
      BY RunsAre
    <2>3. \A r, s \in FreeRuns(a, b) : r = s \/ r[2] < s[1] \/ s[2] < r[1]
      BY RunsApart
    <2> HIDE DEF maps
    <2>4. \A r \in maps : /\ r \in Nat \X Nat /\ r[1] < r[2] /\ Free(r[1], r[2])
                          /\ a <= r[1] /\ r[2] <= b
      BY <2>1, <2>2
    <2>5. \A r, s \in maps : r = s \/ r[2] <= s[1] \/ s[2] <= r[1]
      BY <2>1, <2>2, <2>3
    <2> QED
      BY <2>4, <2>5 DEF maps
  <1> QED
    BY <1>1, <1>2, <1>3

\* it succeeds, with every page of the span mapped, when the span has few enough
\* free runs
LEMMA EnsureSucceeds ==
    ASSUME Regular, MirrorIsExact, NEW lo, NEW len,
           FirstPage(lo) \in Nat, PastPage(lo, len) \in Nat,
           Cardinality(FreeRuns(FirstPage(lo), PastPage(lo, len))) <= MaxSetupRuns
    PROVE  /\ ensure_pages(lo, len).ok
           /\ \A p \in FirstPage(lo)..(PastPage(lo, len) - 1) :
                 p \in mapped \cup UNION {Pages(r) : r \in ensure_pages(lo, len).maps}
  <1> DEFINE a == FirstPage(lo)
             b == PastPage(lo, len)
             maps == ensure_pages(lo, len).maps
  <1>1. CASE b <= a
    BY <1>1 DEF ensure_pages
  <1>2. CASE a < b /\ Free(a, b)
    <2>1. ensure_pages(lo, len).ok /\ maps = {<<a, b>>}
      BY <1>2 DEF ensure_pages
    <2> HIDE DEF maps
    <2>2. Pages(<<a, b>>) = a..(b - 1)
      BY DEF Pages
    <2> QED
      BY <2>1, <2>2 DEF maps
  <1>3. CASE a < b /\ ~Free(a, b)
    <2>1. \A r \in FreeRuns(a, b) : Free(r[1], r[2])
      <3>1. TAKE r \in FreeRuns(a, b)
      <3>2. /\ r[1] \in Nat /\ r[2] \in Nat /\ r[1] < r[2]
            /\ \A p \in r[1]..(r[2] - 1) : p \notin mapped
        BY RunsAre
      <3> QED
        BY <3>2, FreeWhenUnmapped
    <2>2. ensure_pages(lo, len).ok /\ maps = FreeRuns(a, b)
      BY <1>3, <2>1, EnsureFallsBack
    <2>3. \A p \in a..(b - 1) : p \notin mapped => \E r \in FreeRuns(a, b) : p \in Pages(r)
      BY RunsCover
    <2> HIDE DEF maps, a, b
    <2>4. \A p \in a..(b - 1) : p \in mapped \cup UNION {Pages(r) : r \in maps}
      BY <2>2, <2>3
    <2> QED
      BY <2>2, <2>4 DEF maps, a, b
  <1> QED
    BY <1>1, <1>2, <1>3

\* what it maps leaves the mirror exact
LEMMA MirrorKept ==
    ASSUME Regular, MirrorIsExact, NEW lo, NEW len,
           FirstPage(lo) \in Nat, PastPage(lo, len) \in Nat,
           regions' = regions \cup ensure_pages(lo, len).maps,
           mapped' = mapped \cup UNION {Pages(r) : r \in ensure_pages(lo, len).maps}
    PROVE  /\ MirrorIsExact' /\ Regular'
           /\ \A p \in mapped' : p \in mapped \/ p < PastPage(lo, len)
  <1> DEFINE b == PastPage(lo, len)
             maps == ensure_pages(lo, len).maps
  <1>1. /\ \A r \in maps : /\ r \in Nat \X Nat /\ r[1] < r[2] /\ Free(r[1], r[2]) /\ r[2] <= b
        /\ \A r, s \in maps : r = s \/ r[2] <= s[1] \/ s[2] <= r[1]
    BY EnsureMaps
  <1>2. regions' = regions \cup maps /\ mapped' = mapped \cup UNION {Pages(r) : r \in maps}
    OBVIOUS
  <1>3. b \in Nat
    OBVIOUS
  <1> HIDE DEF maps, b
  <1>4. mapped = UNION {Pages(r) : r \in regions}
    BY DEF MirrorIsExact
  <1>5. \A r, s \in regions : r = s \/ r[2] <= s[1] \/ s[2] <= r[1]
    BY DEF MirrorIsExact
  <1>6. (mapped = UNION {Pages(r) : r \in regions})'
    BY <1>2, <1>4 DEF Pages
  <1>7. ASSUME NEW r \in regions', NEW s \in regions'
        PROVE  r = s \/ r[2] <= s[1] \/ s[2] <= r[1]
    <2>1. CASE r \in maps /\ s \in regions
      BY <1>1, <2>1 DEF Free
    <2>2. CASE s \in maps /\ r \in regions
      BY <1>1, <2>2 DEF Free
    <2> QED
      BY <1>1, <1>2, <1>5, <1>7, <2>1, <2>2
  <1>8. \A r \in maps : \A p \in Pages(r) : p \in Nat /\ p < b
    <2>1. TAKE r \in maps
    <2>2. r[1] \in Nat /\ r[2] \in Nat /\ r[2] <= b
      BY <1>1
    <2> QED
      BY <1>3, <2>2 DEF Pages
  <1>9. Regular'
    <2>1. mapped' \subseteq Nat
      BY <1>2, <1>8 DEF Regular
    <2>2. (regions \subseteq Nat \X Nat)' /\ (\A r \in regions : r[1] < r[2])'
      BY <1>1, <1>2 DEF Regular
    <2> QED
      BY <2>1, <2>2 DEF Regular
  <1>10. \A p \in mapped' : p \in mapped \/ p < b
    BY <1>2, <1>8
  <1> QED
    BY <1>6, <1>7, <1>9, <1>10 DEF MirrorIsExact, b
----------------------------------------------------------------------------
(* Spans and the bytes written to them.                                    *)

LEMMA Spans ==
    ASSUME NEW lo \in Nat, NEW len \in Nat
    PROVE  FirstPage(lo) \in Nat /\ PastPage(lo, len) \in Nat
  <1>1. Sat(Sat(lo + len) + Page - 1) \in Nat
    BY Sizes DEF Sat
  <1> QED
    BY <1>1, Division DEF FirstPage, PastPage

LEMMA WritableSpan ==
    ASSUME NEW m, NEW lo \in Nat, NEW len \in Nat, lo + len <= Top - (Top % Page),
           \A p \in FirstPage(lo)..(PastPage(lo, len) - 1) : p \in m
    PROVE  Writable(m, lo, len)
  <1>1. CASE len = 0
    BY <1>1 DEF Writable
  <1>2. CASE len # 0
    <2>1. PastPage(lo, len) \in Nat /\ FirstPage(lo + len - 1) \in Nat /\ FirstPage(lo) \in Nat
          /\ FirstPage(lo + len - 1) < PastPage(lo, len)
      BY <1>2, PagesReach, Spans
    <2>2. Top \in Nat /\ Top % Page \in Nat
      BY Sizes, Division
    <2>3. lo + len - 1 <= Top
      BY <2>2
    <2> QED
      BY <2>1, <2>3 DEF Writable
  <1> QED
    BY <1>1, <1>2

LEMMA WritableStays ==
    ASSUME NEW m, NEW n, m \subseteq n, NEW lo, NEW len, Writable(m, lo, len)
    PROVE  Writable(n, lo, len)
  BY DEF Writable

LEMMA WindowSize ==
    ASSUME NEW h \in Header
    PROVE  window(h) \in Nat
  BY Sizes DEF Header, window, Lesser, Sat

\* a span that leaves the last page alone and has few enough free runs is set up
LEMMA NoFault ==
    ASSUME Regular, MirrorIsExact, NEW lo \in Nat, NEW len \in Nat,
           lo + len <= Top - (Top % Page),
           Cardinality(FreeRuns(FirstPage(lo), PastPage(lo, len))) <= MaxSetupRuns
    PROVE  /\ ensure_pages(lo, len).ok
           /\ Writable(mapped \cup UNION {Pages(r) : r \in ensure_pages(lo, len).maps}, lo, len)
  <1>1. FirstPage(lo) \in Nat /\ PastPage(lo, len) \in Nat
    BY Spans
  <1>2. /\ ensure_pages(lo, len).ok
        /\ \A p \in FirstPage(lo)..(PastPage(lo, len) - 1) :
              p \in mapped \cup UNION {Pages(r) : r \in ensure_pages(lo, len).maps}
    BY <1>1, EnsureSucceeds
  <1> QED
    BY <1>2, WritableSpan

\* the buffers and the stack are short enough for any layout
LEMMA ScratchRuns ==
    ASSUME NEW i \in 1..Len(Scratch)
    PROVE  /\ Scratch[i].lo \in Nat /\ Scratch[i].len \in Nat
           /\ Scratch[i].lo + Scratch[i].len <= Top - (Top % Page)
           /\ Cardinality(FreeRuns(FirstPage(Scratch[i].lo),
                                   PastPage(Scratch[i].lo, Scratch[i].len))) <= MaxSetupRuns
  <1> DEFINE lo == Scratch[i].lo
             len == Scratch[i].len
             a == FirstPage(lo)
             x == Sat(Sat(lo + len) + Page - 1)
             n == 2 * MaxSetupRuns
  <1>1. lo \in Nat /\ len \in Nat
    <2>1. Scratch[i] \in [lo : Nat, len : Nat]
      BY Sizes, Element
    <2> QED
      BY <2>1
  <1>2. lo + len <= Top - (Top % Page) /\ (lo % Page) + len <= n * Page
    BY LoaderAssumption
  <1> HIDE DEF lo, len
  <1>3. a \in Nat /\ lo = a * Page + (lo % Page) /\ lo % Page \in Nat
    <2>1. lo % Page \in 0..(Page - 1)
      BY <1>1, Division
    <2>2. lo % Page \in Nat
      BY <2>1, Sizes
    <2> QED
      BY <1>1, <2>2, Division DEF FirstPage
  <1>4. x \in Nat /\ x <= lo + len + Page - 1
    BY <1>1, Sizes DEF Sat
  <1>5. PastPage(lo, len) = x \div Page
    BY DEF PastPage
  <1>6. n \in Nat
    BY Sizes
  <1> HIDE DEF a, x, n
  <1>7. a * Page \in Nat /\ n * Page \in Nat /\ (a + n + 1) * Page = a * Page + n * Page + Page
    <2>3. a + n \in Nat
      BY <1>3, <1>6
    <2>1. a * Page \in Nat /\ n * Page \in Nat /\ (a + n + 1) * Page = (a + n) * Page + Page
      BY <1>3, <1>6, <2>3, Products
    <2>2. (a + n) * Page = a * Page + n * Page
      BY <1>3, <1>6, Sizes
    <2> QED
      BY <2>1, <2>2
  <1>8. x < (a + n + 1) * Page
    BY <1>1, <1>2, <1>3, <1>4, <1>7, Sizes
  <1>9. x \div Page < a + n + 1 /\ x \div Page \in Nat
    BY <1>3, <1>4, <1>6, <1>8, Division, DivisionBounds
  <1>10. PastPage(lo, len) <= a + 2 * MaxSetupRuns
    BY <1>3, <1>5, <1>6, <1>9 DEF n
  <1>11. Cardinality(FreeRuns(a, PastPage(lo, len))) <= MaxSetupRuns
    BY <1>3, <1>5, <1>9, <1>10, Sizes, RunsCount
  <1> QED
    BY <1>1, <1>2, <1>11 DEF lo, len, a
----------------------------------------------------------------------------
(* The inductive invariant.                                                *)

LEMMA InitInv == Init => IInv
  <1>1. SUFFICES ASSUME Init PROVE IInv
    OBVIOUS
  <1>2. elf.phdrs \in Seq(Header)
    <2>1. elf \in File
      BY <1>1, FilesAssumption DEF Init
    <2> QED
      BY <2>1 DEF File
  <1>3. TypeOK
    BY <1>1, <1>2 DEF Init, TypeOK
  <1>4. PhaseInv /\ OrderInv /\ FaultInv
    BY <1>1 DEF Init, PhaseInv, OrderInv, FaultInv, Loaded
  <1>5. MapInv /\ MirrorIsExact
    BY <1>1 DEF Init, MapInv, MirrorIsExact
  <1> QED
    BY <1>3, <1>4, <1>5 DEF IInv

\* load ends at once, with nothing kept and nothing mapped yet
LEMMA RefuseStep ==
    ASSUME IInv, pc \in {"plan", "sort"}, Refuse
    PROVE  IInv'
  <1> USE DEF Refuse
  <1>1. TypeOK'
    BY DEF IInv, TypeOK
  <1>2. mapped = {} /\ regions = {}
    BY DEF IInv, PhaseInv
  <1>3. PhaseInv' /\ OrderInv' /\ FaultInv'
    BY DEF PhaseInv, OrderInv, FaultInv, Loaded
  <1>4. MapInv' /\ MirrorIsExact'
    BY <1>2 DEF MapInv, MirrorIsExact
  <1> QED
    BY <1>1, <1>3, <1>4 DEF IInv

LEMMA PlanHeaderStep ==
    ASSUME IInv, PlanHeader
    PROVE  IInv'
  <1>1. CASE Refuse
    BY <1>1, RefuseStep DEF PlanHeader
  <1>2. CASE ~Refuse
    <2>1. /\ pc = "plan" /\ k <= Len(elf.phdrs)
          /\ plans' = Append(plans, elf.phdrs[k]) /\ k' = k + 1
          /\ UNCHANGED <<elf, pc, segments, funcs, mapped, regions>>
      BY <1>2 DEF PlanHeader
    <2>2. elf.phdrs \in Seq(Header) /\ k \in Nat \ {0} /\ plans \in Seq(Header)
      BY DEF IInv, TypeOK
    <2>3. elf.phdrs[k] \in Header
      BY <2>1, <2>2, Element
    <2>4. plans' \in Seq(Header) /\ k' \in Nat \ {0}
      BY <2>1, <2>2, <2>3
    <2>5. TypeOK'
      BY <2>1, <2>4 DEF IInv, TypeOK
    <2>6. PhaseInv' /\ OrderInv' /\ FaultInv'
      BY <2>1 DEF IInv, PhaseInv, OrderInv, FaultInv, Loaded
    <2>7. MapInv' /\ MirrorIsExact'
      BY <2>1 DEF IInv, PhaseInv, MapInv, MirrorIsExact
    <2> QED
      BY <2>5, <2>6, <2>7 DEF IInv
  <1> QED
    BY <1>1, <1>2

LEMMA PlanEndsStep ==
    ASSUME IInv, PlanEnds
    PROVE  IInv'
  <1>1. CASE plans = <<>>
    BY <1>1, RefuseStep DEF PlanEnds
  <1>2. CASE plans # <<>>
    <2>1. /\ pc = "plan" /\ pc' = "copy" /\ k' = 1
          /\ UNCHANGED <<elf, plans, total_mem, segments, funcs, mapped, regions>>
      BY <1>2 DEF PlanEnds
    <2>2. TypeOK'
      BY <2>1 DEF IInv, TypeOK
    <2>3. plans \in Seq(Header) /\ segments = <<>> /\ mapped = {} /\ regions = {}
      BY <2>1 DEF IInv, TypeOK, PhaseInv
    <2>4. Len(plans) \in Nat /\ Len(plans) # 0 /\ Len(segments) = 0
      BY <1>2, <2>3
    <2>5. PhaseInv'
      BY <2>1, <2>3, <2>4 DEF PhaseInv
    <2>6. OrderInv' /\ FaultInv'
      BY <2>1 DEF OrderInv, FaultInv, Loaded
    <2>7. MapInv' /\ MirrorIsExact'
      BY <2>1, <2>3 DEF MapInv, MirrorIsExact
    <2> QED
      BY <2>2, <2>5, <2>6, <2>7 DEF IInv
  <1> QED
    BY <1>1, <1>2

LEMMA CopySegmentStep ==
    ASSUME IInv, CopySegment
    PROVE  IInv'
  <1> DEFINE seg == [vaddr |-> plans[k].vaddr,
                     len |-> IF plans[k].memsz > window(plans[k]) THEN plans[k].memsz
                             ELSE window(plans[k])]
             Segment == [vaddr : 0..Top, len : Nat]
  <1>1. /\ pc = "copy" /\ segments' = Append(segments, seg) /\ k' = k + 1
        /\ pc' = IF k = Len(plans) THEN "sort" ELSE "copy"
        /\ UNCHANGED <<elf, plans, total_mem, funcs, mapped, regions>>
    BY DEF CopySegment
  <1>2. /\ plans \in Seq(Header) /\ k \in 1..Len(plans) /\ segments \in Seq(Segment)
        /\ Len(segments) = k - 1 /\ mapped = {} /\ regions = {}
    BY <1>1 DEF IInv, TypeOK, PhaseInv
  <1>3. plans[k] \in Header
    BY <1>2, Element
  <1>4. window(plans[k]) \in Nat
    BY <1>3, WindowSize
  <1>5. seg \in Segment
    <2>1. plans[k].vaddr \in 0..Top /\ plans[k].memsz \in Nat
      BY <1>3, Sizes DEF Header
    <2> QED
      BY <1>4, <2>1
  <1> HIDE DEF seg
  <1>6. segments' \in Seq(Segment) /\ Len(segments') = k
    BY <1>1, <1>2, <1>5
  <1>7. TypeOK'
    BY <1>1, <1>2, <1>6 DEF IInv, TypeOK
  <1>8. segments' # <<>>
    BY <1>2, <1>6
  <1>9. PhaseInv'
    BY <1>1, <1>2, <1>6, <1>8 DEF PhaseInv
  <1>10. OrderInv' /\ FaultInv'
    BY <1>1 DEF OrderInv, FaultInv, Loaded
  <1>11. MapInv' /\ MirrorIsExact'
    BY <1>1, <1>2 DEF MapInv, MirrorIsExact
  <1> QED
    BY <1>7, <1>9, <1>10, <1>11 DEF IInv

\* neighbours in order and a list in ascending order: every pair in order
LEMMA SortSegmentsStep ==
    ASSUME IInv, SortSegments
    PROVE  IInv'
  <1>1. CASE Refuse
    BY <1>1, RefuseStep DEF SortSegments
  <1>2. CASE ~Refuse
    <2> DEFINE n == Len(segments)
               sorted(p) == [i \in 1..n |-> segments[p[i]]]
               Segment == [vaddr : 0..Top, len : Nat]
    <2>1. PICK p \in [1..n -> 1..n] :
             /\ StableOrder(p, segments)
             /\ ~\E i \in 1..(Len(sorted(p)) - 1) :
                    sorted(p)[i + 1].vaddr < Sat(sorted(p)[i].vaddr + sorted(p)[i].len)
             /\ pc' = "discover" /\ segments' = sorted(p)
             /\ UNCHANGED <<elf, k, plans, total_mem, funcs, mapped, regions>>
      BY <1>2 DEF SortSegments
    <2>2. /\ segments \in Seq(Segment) /\ n \in Nat /\ segments # <<>>
          /\ pc = "sort" /\ mapped = {} /\ regions = {}
      BY DEF IInv, TypeOK, PhaseInv, SortSegments
    <2>3. \A i \in 1..n : segments[i] \in Segment
      BY <2>2, Element
    <2> DEFINE s == sorted(p)
    <2>16. \A i \in 1..n : segments[p[i]] \in Segment
      BY <2>1, <2>3
    <2>17. \A x \in Segment : x.vaddr \in Nat /\ x.len \in Nat /\ End(x) \in Nat
      BY Sizes DEF End, Sat
    <2>18. StableOrder(p, segments) /\ p \in [1..n -> 1..n]
      BY <2>1
    <2> HIDE DEF Segment
    <2>4. s \in Seq(Segment) /\ Len(s) = n
      <3> HIDE DEF n
      <3> QED
        BY <2>2, <2>16
    <2>5. \A i \in 1..n : s[i] = segments[p[i]] /\ s[i] \in Segment
      BY <2>16
    <2>6. n # 0
      BY <2>2
    <2>7. \A i, j \in 1..n : i < j => s[i].vaddr <= s[j].vaddr
      <3>1. TAKE i, j \in 1..n
      <3>2. HAVE i < j
      <3>3. segments[p[i]].vaddr < segments[p[j]].vaddr
            \/ segments[p[i]].vaddr = segments[p[j]].vaddr
        BY <2>18, <3>2 DEF StableOrder
      <3>4. segments[p[i]].vaddr \in Nat /\ segments[p[j]].vaddr \in Nat
        BY <2>16, <2>17
      <3>5. s[i] = segments[p[i]] /\ s[j] = segments[p[j]]
        BY <2>5
      <3> HIDE DEF s
      <3> QED
        BY <3>3, <3>4, <3>5
    <2>8. \A i \in 1..(n - 1) : End(s[i]) <= s[i + 1].vaddr
      <3>1. TAKE i \in 1..(n - 1)
      <3>2. ~(s[i + 1].vaddr < Sat(s[i].vaddr + s[i].len))
        BY <2>1, <2>4
      <3>3. s[i] \in Segment /\ s[i + 1] \in Segment
        BY <2>2, <2>5
      <3> HIDE DEF s
      <3>4. End(s[i]) \in Nat /\ s[i + 1].vaddr \in Nat
        BY <2>17, <3>3
      <3>5. ~(s[i + 1].vaddr < End(s[i]))
        BY <3>2 DEF End
      <3> QED
        BY <3>4, <3>5
    <2>9. segments' = s
      BY <2>1
    <2> HIDE DEF s, n, sorted
    <2>10. ASSUME NEW i \in 1..n, NEW j \in 1..n, i < j PROVE End(s[i]) <= s[j].vaddr
      <3>1. i \in 1..(n - 1) /\ i + 1 \in 1..n
        BY <2>2, <2>10
      <3>2. End(s[i]) <= s[i + 1].vaddr
        BY <2>8, <3>1
      <3>3. s[i + 1].vaddr <= s[j].vaddr
        <4>1. CASE i + 1 = j
          <5>1. s[j].vaddr \in Nat
            BY <2>5, <2>17
          <5> QED
            BY <4>1, <5>1
        <4>2. CASE i + 1 # j
          BY <2>7, <2>10, <3>1, <4>2
        <4> QED
          BY <4>1, <4>2
      <3>4. s[i] \in Segment /\ s[i + 1] \in Segment /\ s[j] \in Segment
        BY <2>5, <3>1
      <3>5. End(s[i]) \in Nat /\ s[i + 1].vaddr \in Nat /\ s[j].vaddr \in Nat
        BY <2>17, <3>4
      <3> QED
        BY <3>2, <3>3, <3>5
    <2>11. OrderInv'
      BY <2>4, <2>9, <2>10 DEF OrderInv, End, Sat
    <2>12. TypeOK'
      BY <2>1, <2>2, <2>4, <2>9 DEF IInv, TypeOK, Segment
    <2>13. segments' # <<>>
      BY <2>4, <2>6, <2>9
    <2>14. PhaseInv' /\ FaultInv'
      BY <2>1, <2>2, <2>13 DEF PhaseInv, FaultInv
    <2>15. MapInv' /\ MirrorIsExact'
      BY <2>1, <2>2 DEF MapInv, MirrorIsExact
    <2> QED
      BY <2>11, <2>12, <2>14, <2>15 DEF IInv
  <1> QED
    BY <1>1, <1>2

LEMMA DiscoverStep ==
    ASSUME IInv, Discover
    PROVE  IInv'
  <1>1. /\ pc = "discover" /\ pc' = "map" /\ k' = 1
        /\ UNCHANGED <<elf, plans, total_mem, segments, mapped, regions>>
    BY DEF Discover
  <1>2. TypeOK'
    BY <1>1 DEF IInv, TypeOK
  <1>3. segments \in Seq([vaddr : 0..Top, len : Nat]) /\ segments # <<>>
        /\ mapped = {} /\ regions = {}
    BY <1>1 DEF IInv, TypeOK, PhaseInv
  <1>4. 1 \in 1..Len(segments)
    BY <1>3
  <1>5. PhaseInv' /\ FaultInv'
    BY <1>1, <1>4 DEF PhaseInv, FaultInv
  <1>6. OrderInv'
    BY <1>1 DEF IInv, OrderInv, Loaded
  <1>7. MapInv' /\ MirrorIsExact'
    BY <1>1, <1>3 DEF MapInv, MirrorIsExact
  <1> QED
    BY <1>2, <1>5, <1>6, <1>7 DEF IInv

LEMMA IsRegular == IInv => Regular
  BY DEF IInv, TypeOK, MapInv, Regular

\* segments are mapped in ascending order, so only the page that the next one starts in
\* can be mapped before its turn
LEMMA MapSegmentStep ==
    ASSUME IInv, MapSegment
    PROVE  IInv'
  <1> DEFINE v == segments[k].vaddr
             n == segments[k].len
             e == ensure_pages(v, n)
             m == mapped \cup UNION {Pages(r) : r \in e.maps}
             Segment == [vaddr : 0..Top, len : Nat]
  <1>1. /\ segments \in Seq(Segment) /\ Len(segments) \in Nat
        /\ pc = "map" /\ k \in 1..Len(segments) /\ mapped \subseteq Nat
    BY DEF IInv, TypeOK, PhaseInv, MapSegment
  <1>2. \A i \in 1..Len(segments) : segments[i].vaddr \in Nat /\ segments[i].len \in Nat
                                    /\ segments[i].vaddr <= Top
    <2>1. TAKE i \in 1..Len(segments)
    <2>2. segments[i] \in Segment
      BY <1>1, Element
    <2> QED
      BY <2>2, Sizes
  <1>3. v \in Nat /\ n \in Nat /\ FirstPage(v) \in Nat /\ PastPage(v, n) \in Nat
    BY <1>1, <1>2, Spans
  <1>4. Regular /\ MirrorIsExact
    BY IsRegular DEF IInv
  <1>5. \A p \in mapped : p <= FirstPage(v)
    BY <1>1 DEF IInv, MapInv
  <1>6. OrderInv
    BY DEF IInv
  <1>7. CASE e.ok /\ Writable(m, v, n)
    <2>1. /\ mapped' = m /\ regions' = regions \cup e.maps
          /\ UNCHANGED <<elf, plans, total_mem, segments, funcs>>
          /\ IF k < Len(segments) THEN pc' = pc /\ k' = k + 1 ELSE pc' = "scratch" /\ k' = 1
      BY <1>7 DEF MapSegment, Map
    <2>2. MirrorIsExact' /\ Regular' /\ \A p \in mapped' : p \in mapped \/ p < PastPage(v, n)
      BY <1>3, <1>4, <1>7, <2>1, MirrorKept
    <2>3. mapped \subseteq mapped' /\ Writable(mapped', v, n)
      BY <1>7, <2>1
    <2> HIDE DEF v, n, e, m
    <2>4. k' \in Nat \ {0}
      BY <1>1, <2>1
    <2>5. TypeOK'
      BY <1>1, <2>1, <2>2, <2>4 DEF IInv, TypeOK, Regular
    <2>6. PhaseInv'
      <3>1. 1 \in 1..Len(Scratch)
        BY Sizes
      <3>2. pc' = "map" => k' \in 1..Len(segments')
        BY <1>1, <2>1
      <3>3. pc' = "scratch" => k' \in 1..Len(Scratch)
        BY <1>1, <2>1, <3>1
      <3>4. pc' \in {"map", "scratch"}
        BY <1>1, <2>1
      <3> QED
        BY <3>2, <3>3, <3>4 DEF PhaseInv
    <2>7. OrderInv' /\ FaultInv'
      BY <1>1, <1>6, <2>1 DEF OrderInv, FaultInv, Loaded
    <2>8. ASSUME pc' = "map", NEW p \in mapped'
          PROVE  p <= FirstPage(segments[k + 1].vaddr)
      <3> DEFINE next == segments[k + 1].vaddr
      <3>1. k + 1 \in 1..Len(segments) /\ k < k + 1
        BY <1>1, <2>1, <2>8
      <3>2. End(segments[k]) <= next
        BY <1>1, <1>6, <3>1 DEF OrderInv, Loaded
      <3>3. next \in Nat /\ v <= Top
        BY <1>1, <1>2, <3>1 DEF v
      <3>4. Sat(v + n) <= next
        BY <3>2 DEF End, v, n
      <3> HIDE DEF next
      <3>5. v <= next
        BY <1>3, <3>3, <3>4, Sizes DEF Sat
      <3>6. FirstPage(v) <= FirstPage(next) /\ FirstPage(next) \in Nat
        BY <1>3, <3>3, <3>5, PagesAscend
      <3>7. PastPage(v, n) <= FirstPage(next) + 1
        BY <1>3, <3>3, <3>4, PagesBefore
      <3>8. p \in Nat
        BY <2>2 DEF Regular
      <3>9. p <= FirstPage(next)
        BY <1>3, <1>5, <2>2, <3>6, <3>7, <3>8
      <3> QED
        BY <3>9 DEF next
    <2>9. pc' = "map" => \A p \in mapped' : p <= FirstPage(segments'[k'].vaddr)
      BY <1>1, <2>1, <2>8
    <2>10. ASSUME NEW i \in 1..Len(segments), (pc' = "map" /\ i < k') \/ pc' = "scratch"
           PROVE  Writable(mapped', segments[i].vaddr, segments[i].len)
      <3>1. i < k \/ i = k
        BY <1>1, <2>1, <2>10
      <3>2. CASE i < k
        <4>1. Writable(mapped, segments[i].vaddr, segments[i].len)
          BY <1>1, <3>2 DEF IInv, MapInv
        <4> QED
          BY <2>3, <4>1, WritableStays
      <3>3. CASE i = k
        BY <2>3, <3>3 DEF v, n
      <3> QED
        BY <3>1, <3>2, <3>3
    <2>11. pc' \in {"map", "scratch"}
      BY <1>1, <2>1
    <2>12. \A i \in 1..Len(segments') :
              (pc' = "map" /\ i < k') \/ pc' \in {"scratch", "ready"} =>
                 Writable(mapped', segments'[i].vaddr, segments'[i].len)
      BY <2>1, <2>10, <2>11
    <2>13. MapInv'
      BY <2>2, <2>9, <2>12 DEF MapInv, Regular, Writable, FirstPage
    <2> QED
      BY <2>2, <2>5, <2>6, <2>7, <2>13 DEF IInv
  <1>8. CASE ~(e.ok /\ Writable(m, v, n))
    <2>1. /\ pc' = "fault" /\ mapped' = m /\ regions' = regions \cup e.maps
          /\ UNCHANGED <<elf, k, plans, total_mem, segments, funcs>>
      BY <1>8 DEF MapSegment, Map
    <2>9. MirrorIsExact' /\ Regular'
      BY <1>3, <1>4, <2>1, MirrorKept
    <2>2. ~(v + n <= Top - (Top % Page))
      <3>1. SUFFICES ASSUME v + n <= Top - (Top % Page) PROVE FALSE
        OBVIOUS
      <3>2. Cardinality(FreeRuns(FirstPage(v), PastPage(v, n))) <= 1
        BY <1>3, <1>5, OneRun
      <3>3. IsFiniteSet(FreeRuns(FirstPage(v), PastPage(v, n)))
        BY <1>3, RunsFinite
      <3>4. Cardinality(FreeRuns(FirstPage(v), PastPage(v, n))) \in Nat
        BY <3>3, FS_CardinalityType
      <3>5. Cardinality(FreeRuns(FirstPage(v), PastPage(v, n))) <= MaxSetupRuns
        BY <3>2, <3>4, Sizes
      <3>6. e.ok /\ Writable(m, v, n)
        BY <1>3, <1>4, <3>1, <3>5, NoFault
      <3> QED
        BY <1>8, <3>6
    <2>3. ReachesLastPage
      <3>1. Top - (Top % Page) \in Int
        BY Sizes, Division
      <3>2. v + n > Top - (Top % Page)
        BY <1>3, <2>2, <3>1
      <3> QED
        BY <1>1, <3>2 DEF ReachesLastPage
    <2> HIDE DEF v, n, e, m
    <2>4. FaultInv'
      BY <2>1, <2>3 DEF FaultInv, ReachesLastPage
    <2>5. TypeOK'
      BY <2>1, <2>9 DEF IInv, TypeOK, Regular
    <2>6. PhaseInv'
      BY <2>1 DEF PhaseInv
    <2>7. OrderInv'
      BY <1>1, <1>6, <2>1 DEF OrderInv, Loaded, End, Sat
    <2>8. MapInv'
      BY <2>1, <2>9 DEF MapInv, Regular
    <2> QED
      BY <2>4, <2>5, <2>6, <2>7, <2>8, <2>9 DEF IInv
  <1> QED
    BY <1>7, <1>8

LEMMA MapScratchStep ==
    ASSUME IInv, MapScratch
    PROVE  IInv'
  <1> DEFINE lo == Scratch[k].lo
             len == Scratch[k].len
             e == ensure_pages(lo, len)
             m == mapped \cup UNION {Pages(r) : r \in e.maps}
  <1>1. pc = "scratch" /\ k \in 1..Len(Scratch) /\ OrderInv
    BY DEF IInv, PhaseInv, MapScratch
  <1>2. Regular /\ MirrorIsExact
    BY IsRegular DEF IInv
  <1>3. /\ lo \in Nat /\ len \in Nat /\ lo + len <= Top - (Top % Page)
        /\ Cardinality(FreeRuns(FirstPage(lo), PastPage(lo, len))) <= MaxSetupRuns
    BY <1>1, ScratchRuns
  <1>4. e.ok /\ Writable(m, lo, len)
    BY <1>2, <1>3, NoFault
  <1>5. /\ mapped' = m /\ regions' = regions \cup e.maps
        /\ UNCHANGED <<elf, plans, total_mem, segments, funcs>>
        /\ IF k < Len(Scratch) THEN pc' = pc /\ k' = k + 1 ELSE pc' = "ready" /\ k' = k
    BY <1>4 DEF MapScratch, Map
  <1>6. FirstPage(lo) \in Nat /\ PastPage(lo, len) \in Nat
    BY <1>3, Spans
  <1>7. MirrorIsExact' /\ Regular'
    BY <1>2, <1>4, <1>5, <1>6, MirrorKept
  <1>8. mapped \subseteq mapped'
    BY <1>5
  <1> HIDE DEF lo, len, e, m
  <1>9. k' \in Nat \ {0} /\ pc' \in {"scratch", "ready"}
    BY <1>1, <1>5, Sizes
  <1>10. TypeOK'
    BY <1>5, <1>7, <1>9 DEF IInv, TypeOK, Regular
  <1>11. PhaseInv'
    <2>1. pc' = "scratch" => k' \in 1..Len(Scratch)
      BY <1>1, <1>5, Sizes
    <2> QED
      BY <1>9, <2>1 DEF PhaseInv
  <1>12. OrderInv' /\ FaultInv'
    BY <1>1, <1>5, <1>9 DEF OrderInv, FaultInv, Loaded
  <1>13. \A i \in 1..Len(segments) : Writable(mapped', segments[i].vaddr, segments[i].len)
    <2>1. TAKE i \in 1..Len(segments)
    <2>2. Writable(mapped, segments[i].vaddr, segments[i].len)
      BY <1>1 DEF IInv, MapInv
    <2> QED
      BY <1>8, <2>2, WritableStays
  <1>14. MapInv'
    BY <1>5, <1>7, <1>9, <1>13 DEF MapInv, Regular
  <1> QED
    BY <1>7, <1>10, <1>11, <1>12, <1>14 DEF IInv

LEMMA StepInv == IInv /\ [Next]_vars => IInv'
  <1>1. SUFFICES ASSUME IInv, [Next]_vars PROVE IInv'
    OBVIOUS
  <1>2. CASE PlanHeader
    BY <1>1, <1>2, PlanHeaderStep
  <1>3. CASE PlanEnds
    BY <1>1, <1>3, PlanEndsStep
  <1>4. CASE CopySegment
    BY <1>1, <1>4, CopySegmentStep
  <1>5. CASE SortSegments
    BY <1>1, <1>5, SortSegmentsStep
  <1>6. CASE Discover
    BY <1>1, <1>6, DiscoverStep
  <1>7. CASE MapSegment
    BY <1>1, <1>7, MapSegmentStep
  <1>8. CASE MapScratch
    BY <1>1, <1>8, MapScratchStep
  <1>9. CASE Done \/ UNCHANGED vars
    <2>1. UNCHANGED vars
      BY <1>9 DEF Done
    <2>2. UNCHANGED <<elf, pc, k, plans, segments, mapped, regions>>
      BY <2>1 DEF vars
    <2>3. TypeOK' /\ PhaseInv'
      BY <1>1, <2>2 DEF IInv, TypeOK, PhaseInv
    <2>4. OrderInv' /\ FaultInv'
      BY <1>1, <2>2 DEF IInv, OrderInv, FaultInv, Loaded, ReachesLastPage, End, Sat
    <2>5. MapInv' /\ MirrorIsExact'
      BY <1>1, <2>2 DEF IInv, MapInv, MirrorIsExact, Pages, Writable, FirstPage
    <2> QED
      BY <2>3, <2>4, <2>5 DEF IInv
  <1> QED
    BY <1>1, <1>2, <1>3, <1>4, <1>5, <1>6, <1>7, <1>8, <1>9 DEF Next

\* Whatever the headers say, a plan that load accepts is laid out in order, what
\* try_run has mapped is what it remembers, and nothing it has written gets lost.
THEOREM Invariance == Spec => []IInv
  BY InitInv, StepInv, PTL DEF Spec
----------------------------------------------------------------------------
(* The bytes load holds.                                                   *)

LEMMA BytesFinite ==
    ASSUME NEW n \in Nat, NEW lens \in [1..n -> Nat]
    PROVE  IsFiniteSet(Bytes(lens))
  <1> DEFINE part == [i \in 1..n |-> {i} \X (1..lens[i])]
             parts == {part[i] : i \in 1..n}
  <1>1. Bytes(lens) = UNION parts
    BY DEF Bytes
  <1>2. IsFiniteSet(1..n)
    BY FS_Interval
  <1>3. part \in Surjection(1..n, parts)
    <2>1. part \in [1..n -> parts]
      OBVIOUS
    <2> HIDE DEF part
    <2> QED
      BY <2>1 DEF Surjection
  <1>4. IsFiniteSet(parts)
    <2> HIDE DEF part, parts
    <2> QED
      BY <1>2, <1>3, FS_Surjection
  <1>5. \A t \in parts : IsFiniteSet(t)
    <2>1. SUFFICES ASSUME NEW i \in 1..n PROVE IsFiniteSet({i} \X (1..lens[i]))
      OBVIOUS
    <2>2. IsFiniteSet({i})
      BY FS_Singleton
    <2>3. lens[i] \in Int
      OBVIOUS
    <2>4. IsFiniteSet(1..lens[i])
      BY <2>3, FS_Interval
    <2> QED
      BY <2>2, <2>4, FS_Product
  <1> HIDE DEF parts
  <1> QED
    BY <1>1, <1>4, <1>5, FS_UNION

\* one more buffer adds its length
LEMMA BytesGrow ==
    ASSUME NEW n \in Nat, NEW lens \in [1..n -> Nat], NEW more \in [1..(n + 1) -> Nat],
           \A i \in 1..n : more[i] = lens[i]
    PROVE  Cardinality(Bytes(more)) <= Cardinality(Bytes(lens)) + more[n + 1]
  <1> DEFINE x == n + 1
             last == {x} \X (1..more[x])
  <1>1. Bytes(more) = Bytes(lens) \cup last
    <2>1. 1..(n + 1) = 1..n \cup {x}
      OBVIOUS
    <2>2. \A e : e \in Bytes(more) <=> \E i \in 1..(n + 1) : e \in {i} \X (1..more[i])
      BY DEF Bytes
    <2>3. \A e : e \in Bytes(lens) <=> \E i \in 1..n : e \in {i} \X (1..lens[i])
      BY DEF Bytes
    <2>4. \A e : e \in Bytes(more) <=> e \in Bytes(lens) \/ e \in last
      BY <2>1, <2>2, <2>3
    <2> HIDE DEF last
    <2> QED
      BY <2>4
  <1>2. x \in 1..(n + 1)
    OBVIOUS
  <1>3. more[x] \in Nat
    BY <1>2
  <1> DEFINE m == more[x]
  <1>4. m \in Nat /\ last = {x} \X (1..m)
    BY <1>3
  <1> HIDE DEF m, x, last
  <1>5. IsFiniteSet({x}) /\ Cardinality({x}) = 1
    BY FS_Singleton
  <1>6. IsFiniteSet(1..m) /\ Cardinality(1..m) = m
    <2>3. 1 \in Int /\ m \in Int
      BY <1>4
    <2>1. IsFiniteSet(1..m) /\ Cardinality(1..m) = IF 1 > m THEN 0 ELSE m - 1 + 1
      BY <2>3, FS_Interval
    <2> QED
      BY <1>4, <2>1
  <1>7. IsFiniteSet(last) /\ Cardinality(last) = Cardinality({x}) * Cardinality(1..m)
    BY <1>4, <1>5, <1>6, FS_Product
  <1>8. Cardinality(last) = m
    BY <1>4, <1>5, <1>6, <1>7
  <1>9. IsFiniteSet(Bytes(lens))
    BY BytesFinite
  <1> DEFINE old == Bytes(lens)
  <1> HIDE DEF old
  <1>10. /\ IsFiniteSet(old \cup last)
         /\ Cardinality(old \cup last)
               = Cardinality(old) + Cardinality(last) - Cardinality(old \cap last)
    BY <1>7, <1>9, FS_Union DEF old
  <1>11. IsFiniteSet(old \cap last)
    <2>1. old \cap last \in SUBSET last
      OBVIOUS
    <2> QED
      BY <1>7, <2>1, FS_Subset
  <1>12. Cardinality(old \cap last) \in Nat /\ Cardinality(old) \in Nat
    BY <1>9, <1>11, FS_CardinalityType DEF old
  <1>13. Cardinality(old \cup last) <= Cardinality(old) + m
    BY <1>4, <1>8, <1>10, <1>12
  <1> QED
    BY <1>1, <1>13 DEF old, m, x

\* fewer buffers hold no more
LEMMA BytesPrefix ==
    ASSUME NEW n \in Nat, NEW m \in 0..n, NEW lens \in [1..n -> Nat], NEW part \in [1..m -> Nat],
           \A i \in 1..m : part[i] = lens[i]
    PROVE  Cardinality(Bytes(part)) <= Cardinality(Bytes(lens))
  <1>1. Bytes(part) \subseteq Bytes(lens)
    <2>1. \A i \in 1..m : i \in 1..n
      OBVIOUS
    <2> QED
      BY <2>1 DEF Bytes
  <1> QED
    BY <1>1, BytesFinite, FS_Subset

\* the same buffers in another order hold no more
LEMMA BytesMoved ==
    ASSUME NEW n \in Nat, NEW lens \in [1..n -> Nat], NEW moved \in [1..n -> Nat],
           NEW p \in [1..n -> 1..n], \A i, j \in 1..n : p[i] = p[j] => i = j,
           \A i \in 1..n : moved[i] = lens[p[i]]
    PROVE  Cardinality(Bytes(moved)) <= Cardinality(Bytes(lens))
  <1> DEFINE S == Bytes(moved)
             T == Bytes(lens)
             f == [x \in S |-> <<p[x[1]], x[2]>>]
  <1>1. \A x \in S : x = <<x[1], x[2]>> /\ x[1] \in 1..n /\ x[2] \in 1..moved[x[1]]
    BY DEF Bytes
  <1>2. ASSUME NEW i \in 1..n, NEW b \in 1..lens[i] PROVE <<i, b>> \in T
    <2>1. <<i, b>> \in {i} \X (1..lens[i])
      OBVIOUS
    <2> QED
      BY <2>1 DEF Bytes
  <1> HIDE DEF S, T
  <1>3. \A x \in S : <<p[x[1]], x[2]>> \in T
    BY <1>1, <1>2
  <1>4. ASSUME NEW x \in S, NEW y \in S, f[x] = f[y] PROVE x = y
    <2>1. p[x[1]] = p[y[1]] /\ x[2] = y[2]
      BY <1>4
    <2>2. x[1] \in 1..n /\ y[1] \in 1..n
      BY <1>1
    <2>3. x[1] = y[1]
      BY <2>1, <2>2
    <2>4. x = <<x[1], x[2]>> /\ y = <<y[1], y[2]>>
      BY <1>1
    <2> HIDE DEF f
    <2> QED
      BY <2>1, <2>3, <2>4, Zenon
  <1>5. f \in Injection(S, T)
    BY <1>3, <1>4 DEF Injection, IsInjective
  <1>6. IsFiniteSet(T)
    BY BytesFinite DEF T
  <1> HIDE DEF f
  <1>7. Cardinality(S) <= Cardinality(T)
    BY <1>5, <1>6, FS_Injection
  <1> QED
    BY <1>7 DEF S, T

LEMMA AllocSize ==
    ASSUME NEW h \in Header
    PROVE  /\ alloc_len(h) \in Nat
           /\ (IF h.memsz > window(h) THEN h.memsz ELSE window(h)) = alloc_len(h)
  <1>1. window(h) \in Nat
    BY WindowSize
  <1>2. h.memsz \in Nat
    BY Sizes DEF Header
  <1> QED
    BY <1>1, <1>2 DEF alloc_len, Larger

Lens(segs) == [i \in DOMAIN segs |-> segs[i].len]
Allocs(ps) == [i \in DOMAIN ps |-> alloc_len(ps[i])]

LEMMA AllocsAre ==
    ASSUME NEW ps \in Seq(Header)
    PROVE  /\ Len(ps) \in Nat /\ Allocs(ps) \in [1..Len(ps) -> Nat]
           /\ \A i \in 1..Len(ps) : Allocs(ps)[i] = alloc_len(ps[i])
  <1>1. Len(ps) \in Nat /\ DOMAIN ps = 1..Len(ps) /\ \A i \in 1..Len(ps) : ps[i] \in Header
    BY Element
  <1>2. \A i \in 1..Len(ps) : alloc_len(ps[i]) \in Nat
    BY <1>1, AllocSize
  <1> QED
    BY <1>1, <1>2 DEF Allocs

LEMMA LensAre ==
    ASSUME NEW segs \in Seq([vaddr : 0..Top, len : Nat])
    PROVE  /\ Len(segs) \in Nat /\ Lens(segs) \in [1..Len(segs) -> Nat]
           /\ \A i \in 1..Len(segs) : Lens(segs)[i] = segs[i].len
  <1> DEFINE Segment == [vaddr : 0..Top, len : Nat]
  <1>3. \A s \in Segment : s.len \in Nat
    OBVIOUS
  <1> HIDE DEF Segment
  <1>4. segs \in Seq(Segment)
    BY DEF Segment
  <1>1. Len(segs) \in Nat /\ DOMAIN segs = 1..Len(segs) /\ \A i \in 1..Len(segs) : segs[i] \in Segment
    BY <1>4, Element
  <1>2. \A i \in 1..Len(segs) : segs[i].len \in Nat
    BY <1>1, <1>3
  <1> QED
    BY <1>1, <1>2 DEF Lens

LEMMA NoBytes == Cardinality(Bytes(<<>>)) = 0
  <1>1. Bytes(<<>>) = {}
    BY DEF Bytes
  <1> QED
    BY <1>1, FS_EmptySet

LEMMA Sets == Held = Bytes(Lens(segments)) /\ Planned = Bytes(Allocs(plans))
  BY DEF Held, Planned, Lens, Allocs

LEMMA EmptyLists == Lens(<<>>) = <<>> /\ Allocs(<<>>) = <<>>
  BY DEF Lens, Allocs

LEMMA BudgetInit == Init => BudgetInv
  <1>1. SUFFICES ASSUME Init PROVE BudgetInv
    OBVIOUS
  <1>2. plans = <<>> /\ segments = <<>> /\ total_mem = 0 /\ pc = "plan"
    BY <1>1 DEF Init
  <1>3. Cardinality(Held) = 0 /\ Cardinality(Planned) = 0
    BY <1>2, Sets, EmptyLists, NoBytes
  <1> QED
    BY <1>2, <1>3, LoaderAssumption DEF BudgetInv, MemoryBounded

LEMMA BudgetRefused ==
    ASSUME BudgetInv, Refuse
    PROVE  BudgetInv'
  <1>1. segments' = <<>> /\ total_mem' = total_mem /\ pc' = "refused"
    BY DEF Refuse
  <1>2. Held' = Bytes(Lens(segments'))
    BY DEF Held, Lens
  <1>3. Cardinality(Held)' = 0
    BY <1>1, <1>2, EmptyLists, NoBytes
  <1> QED
    BY <1>1, <1>3, LoaderAssumption DEF BudgetInv, MemoryBounded

\* the saturated sum is the sum, because the total is refused before it reaches Top
LEMMA BudgetPlanned ==
    ASSUME IInv, BudgetInv, PlanHeader
    PROVE  BudgetInv'
  <1>1. CASE Refuse
    BY <1>1, BudgetRefused
  <1>2. CASE ~Refuse
    <2> DEFINE h == elf.phdrs[k]
               sum == Sat(total_mem + alloc_len(h))
               n == Len(plans)
    <2>1. /\ pc = "plan" /\ k <= Len(elf.phdrs) /\ ~(sum > MaxTotalMem)
          /\ plans' = Append(plans, h) /\ total_mem' = sum
          /\ UNCHANGED <<elf, pc, segments, funcs, mapped, regions>>
      BY <1>2 DEF PlanHeader
    <2>2. elf.phdrs \in Seq(Header) /\ k \in Nat \ {0} /\ plans \in Seq(Header) /\ segments = <<>>
      BY <2>1 DEF IInv, TypeOK, PhaseInv
    <2>3. h \in Header
      BY <2>1, <2>2, Element
    <2>4. alloc_len(h) \in Nat
      BY <2>3, AllocSize
    <2>5. total_mem \in Nat /\ MaxTotalMem \in Nat /\ MaxTotalMem < Top
          /\ Cardinality(Planned) <= total_mem
      BY <2>1, LoaderAssumption DEF BudgetInv
    <2>6. sum = total_mem + alloc_len(h) /\ sum \in 0..MaxTotalMem
      <3> HIDE DEF h
      <3> QED
        BY <2>1, <2>4, <2>5, Sizes DEF Sat
    <2> HIDE DEF h, sum
    <2>7. /\ plans' \in Seq(Header) /\ Len(plans') = n + 1 /\ plans'[n + 1] = h
          /\ \A i \in 1..n : plans'[i] = plans[i]
      BY <2>1, <2>2, <2>3
    <2>8. /\ n \in Nat /\ Allocs(plans) \in [1..n -> Nat]
          /\ \A i \in 1..n : Allocs(plans)[i] = alloc_len(plans[i])
      BY <2>2, AllocsAre
    <2> HIDE DEF n
    <2>9. /\ Allocs(plans') \in [1..(n + 1) -> Nat]
          /\ \A i \in 1..(n + 1) : Allocs(plans')[i] = alloc_len(plans'[i])
      BY <2>7, AllocsAre
    <2>10. /\ \A i \in 1..n : Allocs(plans')[i] = Allocs(plans)[i]
           /\ Allocs(plans')[n + 1] = alloc_len(h)
      BY <2>7, <2>8, <2>9
    <2>11. Cardinality(Bytes(Allocs(plans')))
              <= Cardinality(Bytes(Allocs(plans))) + alloc_len(h)
      <3>1. Cardinality(Bytes(Allocs(plans')))
               <= Cardinality(Bytes(Allocs(plans))) + Allocs(plans')[n + 1]
        BY <2>8, <2>9, <2>10, BytesGrow
      <3> QED
        BY <2>10, <3>1
    <2>12. Cardinality(Bytes(Allocs(plans))) \in Nat /\ Cardinality(Bytes(Allocs(plans'))) \in Nat
      <3>1. IsFiniteSet(Bytes(Allocs(plans))) /\ IsFiniteSet(Bytes(Allocs(plans')))
        BY <2>7, <2>8, <2>9, BytesFinite
      <3> QED
        BY <3>1, FS_CardinalityType
    <2>13. Planned' = Bytes(Allocs(plans'))
      BY DEF Planned, Allocs
    <2>14. Cardinality(Planned)' <= total_mem'
      BY <2>1, <2>4, <2>5, <2>6, <2>11, <2>12, <2>13, Sets
    <2>15. MemoryBounded'
      <3>1. segments' = <<>>
        BY <2>1, <2>2
      <3>2. Held' = Bytes(Lens(segments'))
        BY DEF Held, Lens
      <3>3. Cardinality(Held)' = 0
        BY <3>1, <3>2, EmptyLists, NoBytes
      <3> QED
        BY <2>5, <3>3 DEF MemoryBounded
    <2> QED
      BY <2>1, <2>6, <2>14, <2>15 DEF BudgetInv
  <1> QED
    BY <1>1, <1>2

\* the copies made so far are a prefix of the plan
LEMMA BudgetCopied ==
    ASSUME IInv, BudgetInv, CopySegment
    PROVE  BudgetInv'
  <1> DEFINE Segment == [vaddr : 0..Top, len : Nat]
             seg == [vaddr |-> plans[k].vaddr,
                     len |-> IF plans[k].memsz > window(plans[k]) THEN plans[k].memsz
                             ELSE window(plans[k])]
             n == Len(plans)
  <1>1. /\ pc = "copy" /\ segments' = Append(segments, seg)
        /\ UNCHANGED <<plans, total_mem>>
    BY DEF CopySegment
  <1>2. plans \in Seq(Header) /\ k \in 1..n /\ Len(segments) = k - 1 /\ segments \in Seq(Segment)
    BY <1>1 DEF IInv, TypeOK, PhaseInv
  <1>3. IInv'
    BY CopySegmentStep
  <1>4. segments' \in Seq(Segment)
    BY <1>3 DEF IInv, TypeOK
  <1>5. plans[k] \in Header
    BY <1>2, Element
  <1>6. seg.len = alloc_len(plans[k])
    BY <1>5, AllocSize
  <1>7. /\ n \in Nat /\ Allocs(plans) \in [1..n -> Nat]
        /\ \A i \in 1..n : Allocs(plans)[i] = alloc_len(plans[i])
    BY <1>2, AllocsAre
  <1>8. Lens(segments') \in [1..Len(segments') -> Nat]
        /\ \A i \in 1..Len(segments') : Lens(segments')[i] = segments'[i].len
    BY <1>4, LensAre
  <1> HIDE DEF seg, n, Segment
  <1>9. /\ Len(segments') = k /\ segments'[k] = seg
        /\ \A i \in 1..(k - 1) : segments'[i] = segments[i]
    BY <1>1, <1>2, <1>7
  <1>10. \A i \in 1..(k - 1) : segments[i].len = alloc_len(plans[i])
    BY <1>1, <1>2 DEF BudgetInv
  <1>11. \A i \in 1..k : segments'[i].len = alloc_len(plans[i])
    <2>1. TAKE i \in 1..k
    <2>2. CASE i = k
      BY <1>6, <1>9, <2>2
    <2>3. CASE i # k
      <3>1. i \in 1..(k - 1)
        BY <1>2, <1>7, <2>3
      <3> QED
        BY <1>9, <1>10, <3>1
    <2> QED
      BY <2>2, <2>3
  <1>12. k \in 0..n /\ \A i \in 1..k : Lens(segments')[i] = Allocs(plans)[i]
    <2>1. k \in 0..n /\ \A i \in 1..k : i \in 1..n
      BY <1>2, <1>7
    <2>2. ASSUME NEW i \in 1..k PROVE Lens(segments')[i] = Allocs(plans)[i]
      <3>1. Lens(segments')[i] = segments'[i].len
        BY <1>8, <1>9
      <3>2. Allocs(plans)[i] = alloc_len(plans[i])
        BY <1>7, <2>1
      <3> QED
        BY <1>11, <3>1, <3>2
    <2> QED
      BY <2>1, <2>2
  <1>13. Cardinality(Bytes(Lens(segments'))) <= Cardinality(Bytes(Allocs(plans)))
    <2>1. Lens(segments') \in [1..k -> Nat]
      BY <1>8, <1>9
    <2> QED
      BY <1>7, <1>12, <2>1, BytesPrefix
  <1>14. Cardinality(Bytes(Lens(segments'))) \in Nat /\ Cardinality(Bytes(Allocs(plans))) \in Nat
    <2>1. k \in Nat /\ Lens(segments') \in [1..k -> Nat]
      BY <1>8, <1>9, <1>12
    <2>2. IsFiniteSet(Bytes(Allocs(plans))) /\ IsFiniteSet(Bytes(Lens(segments')))
      BY <1>7, <2>1, BytesFinite
    <2> QED
      BY <2>2, FS_CardinalityType
  <1>15. Planned' = Planned /\ Held' = Bytes(Lens(segments'))
    BY <1>1 DEF Planned, Held, Lens
  <1>16. total_mem \in 0..MaxTotalMem /\ Cardinality(Planned) <= total_mem /\ MaxTotalMem \in Nat
    BY <1>1, LoaderAssumption DEF BudgetInv
  <1>17. MemoryBounded'
    BY <1>13, <1>14, <1>15, <1>16, Sets DEF MemoryBounded
  <1>18. (\A i \in 1..Len(segments) : segments[i].len = alloc_len(plans[i]))'
    BY <1>1, <1>9, <1>11 DEF alloc_len, window, Larger, Lesser, Sat
  <1> QED
    BY <1>1, <1>15, <1>16, <1>17, <1>18 DEF BudgetInv

\* the order is strict, so no segment is taken twice
LEMMA BudgetSorted ==
    ASSUME IInv, BudgetInv, SortSegments
    PROVE  BudgetInv'
  <1>1. CASE Refuse
    BY <1>1, BudgetRefused
  <1>2. CASE ~Refuse
    <2> DEFINE n == Len(segments)
               Segment == [vaddr : 0..Top, len : Nat]
    <2>1. PICK p \in [1..n -> 1..n] :
             /\ StableOrder(p, segments)
             /\ pc' = "discover" /\ segments' = [i \in 1..n |-> segments[p[i]]]
             /\ UNCHANGED <<elf, k, plans, total_mem, funcs, mapped, regions>>
      BY <1>2 DEF SortSegments
    <2>2. segments \in Seq(Segment)
      BY DEF IInv, TypeOK
    <2>3. segments' \in Seq(Segment)
      <3>1. IInv'
        BY SortSegmentsStep
      <3> QED
        BY <3>1 DEF IInv, TypeOK
    <2>4. /\ n \in Nat /\ Lens(segments) \in [1..n -> Nat]
          /\ \A i \in 1..n : Lens(segments)[i] = segments[i].len
      BY <2>2, LensAre
    <2>5. \A i \in 1..n : segments[i].vaddr \in Nat
      <3>1. TAKE i \in 1..n
      <3>2. segments[i] \in Segment
        BY <2>2, Element
      <3> QED
        BY <3>2, Sizes
    <2> HIDE DEF Segment, n
    <2>6. Len(segments') = n /\ \A i \in 1..n : segments'[i] = segments[p[i]]
      BY <2>1, <2>4
    <2>7. /\ Lens(segments') \in [1..n -> Nat]
          /\ \A i \in 1..n : Lens(segments')[i] = segments'[i].len
      BY <2>3, <2>6, LensAre DEF Segment
    <2>8. \A i \in 1..n : Lens(segments')[i] = Lens(segments)[p[i]]
      BY <2>1, <2>4, <2>6, <2>7
    <2>9. ASSUME NEW i \in 1..n, NEW j \in 1..n, i < j PROVE p[i] # p[j]
      <3>3. p[i] \in 1..n /\ p[j] \in 1..n
        BY <2>1
      <3>6. \A x \in 1..n : x \in Nat
        OBVIOUS
      <3>4. p[i] \in Nat /\ p[j] \in Nat
        BY <3>3, <3>6, Zenon
      <3>5. segments[p[i]].vaddr \in Nat /\ segments[p[j]].vaddr \in Nat
        BY <2>5, <3>3, Zenon
      <3>1. /\ p[i] \in Nat /\ p[j] \in Nat
            /\ segments[p[i]].vaddr \in Nat /\ segments[p[j]].vaddr \in Nat
        BY <3>4, <3>5
      <3>2. \/ segments[p[i]].vaddr < segments[p[j]].vaddr
            \/ segments[p[i]].vaddr = segments[p[j]].vaddr /\ p[i] < p[j]
        BY <2>1, <2>9 DEF StableOrder, n
      <3> QED
        BY <3>1, <3>2
    <2>10. \A i, j \in 1..n : p[i] = p[j] => i = j
      <3>1. \A i, j \in 1..n : i < j \/ j < i \/ i = j
        BY <2>4
      <3> QED
        BY <2>9, <3>1
    <2>11. Cardinality(Bytes(Lens(segments'))) <= Cardinality(Bytes(Lens(segments)))
      BY <2>1, <2>4, <2>7, <2>8, <2>10, BytesMoved
    <2>12. Cardinality(Bytes(Lens(segments'))) \in Nat /\ Cardinality(Bytes(Lens(segments))) \in Nat
      <3>1. IsFiniteSet(Bytes(Lens(segments))) /\ IsFiniteSet(Bytes(Lens(segments')))
        BY <2>4, <2>7, BytesFinite
      <3> QED
        BY <3>1, FS_CardinalityType
    <2>13. Held' = Bytes(Lens(segments'))
      BY DEF Held, Lens
    <2>14. total_mem' \in 0..MaxTotalMem /\ Cardinality(Held) <= MaxTotalMem /\ MaxTotalMem \in Nat
      BY <2>1, LoaderAssumption DEF BudgetInv, MemoryBounded
    <2>15. MemoryBounded'
      BY <2>11, <2>12, <2>13, <2>14, Sets DEF MemoryBounded
    <2> QED
      BY <2>1, <2>14, <2>15 DEF BudgetInv
  <1> QED
    BY <1>1, <1>2

\* nothing else touches the plan or the segments
LEMMA BudgetKept ==
    ASSUME IInv, BudgetInv, UNCHANGED <<plans, total_mem, segments>>,
           \/ pc' = pc
           \/ pc = "plan" /\ pc' = "copy"
           \/ pc' \notin {"plan", "copy"}
    PROVE  BudgetInv'
  <1>1. Planned' = Planned /\ Held' = Held
    BY DEF Planned, Held
  <1>2. total_mem' \in 0..MaxTotalMem /\ MemoryBounded'
    BY <1>1 DEF BudgetInv, MemoryBounded
  <1>3. pc' \in {"plan", "copy"} => Cardinality(Planned)' <= total_mem'
    BY <1>1 DEF BudgetInv
  <1>4. pc' = "copy" => pc = "copy" \/ (pc = "plan" /\ segments = <<>>)
    BY DEF IInv, PhaseInv
  <1>5. pc' = "copy" => \A i \in 1..Len(segments) : segments[i].len = alloc_len(plans[i])
    BY <1>4 DEF BudgetInv
  <1>6. (pc = "copy" => \A i \in 1..Len(segments) : segments[i].len = alloc_len(plans[i]))'
    BY <1>5 DEF alloc_len, window, Larger, Lesser, Sat
  <1> QED
    BY <1>2, <1>3, <1>6 DEF BudgetInv

LEMMA BudgetStep == IInv /\ BudgetInv /\ [Next]_vars => BudgetInv'
  <1>1. SUFFICES ASSUME IInv, BudgetInv, [Next]_vars PROVE BudgetInv'
    OBVIOUS
  <1>2. CASE PlanHeader
    BY <1>1, <1>2, BudgetPlanned
  <1>3. CASE PlanEnds
    <2>1. CASE plans = <<>>
      <3>1. Refuse
        BY <1>3, <2>1 DEF PlanEnds
      <3> QED
        BY <1>1, <3>1, BudgetRefused
    <2>2. CASE plans # <<>>
      <3>1. pc = "plan" /\ pc' = "copy" /\ UNCHANGED <<plans, total_mem, segments>>
        BY <1>3, <2>2 DEF PlanEnds
      <3> QED
        BY <1>1, <3>1, BudgetKept
    <2> QED
      BY <2>1, <2>2
  <1>4. CASE CopySegment
    BY <1>1, <1>4, BudgetCopied
  <1>5. CASE SortSegments
    BY <1>1, <1>5, BudgetSorted
  <1>6. CASE Discover
    <2>1. pc' = "map" /\ UNCHANGED <<plans, total_mem, segments>>
      BY <1>6 DEF Discover
    <2> QED
      BY <1>1, <2>1, BudgetKept
  <1>7. CASE MapSegment
    <2>1. UNCHANGED <<plans, total_mem, segments>> /\ pc' \in {"map", "scratch", "fault"}
      BY <1>7 DEF MapSegment, Map
    <2> QED
      BY <1>1, <2>1, BudgetKept
  <1>8. CASE MapScratch
    <2>1. UNCHANGED <<plans, total_mem, segments>> /\ pc' \in {"scratch", "ready", "fault"}
      BY <1>8 DEF MapScratch, Map
    <2> QED
      BY <1>1, <2>1, BudgetKept
  <1>9. CASE Done \/ UNCHANGED vars
    <2>1. UNCHANGED <<plans, total_mem, segments>> /\ pc' = pc
      BY <1>9 DEF Done, vars
    <2> QED
      BY <1>1, <2>1, BudgetKept
  <1> QED
    BY <1>1, <1>2, <1>3, <1>4, <1>5, <1>6, <1>7, <1>8, <1>9 DEF Next
----------------------------------------------------------------------------
(* Stripping.                                                              *)

Member(x, s) == \E i \in 1..Len(s) : s[i] = x

LEMMA RangeIsMembers ==
    ASSUME NEW T, NEW s \in Seq(T)
    PROVE  /\ Len(s) \in Nat /\ DOMAIN s = 1..Len(s)
           /\ \A x : x \in Range(s) <=> Member(x, s)
           /\ Range(s) \subseteq T
  BY DEF Range, Member

\* a filtered list holds the elements at the places that were kept, in their order
LEMMA Filtered ==
    ASSUME NEW T, NEW s \in Seq(T), NEW I \in SUBSET (1..Len(s))
    PROVE  /\ At(s, I) \in Seq(T) /\ Len(At(s, I)) <= Len(s)
           /\ \E place : /\ Placing(place, I) /\ Len(At(s, I)) = Cardinality(I)
                         /\ \A i \in 1..Len(At(s, I)) : At(s, I)[i] = s[place[i]]
           /\ \A x : x \in Range(At(s, I)) <=> \E i \in I : s[i] = x
  <1> DEFINE n == Cardinality(I)
             D == 1..Len(s)
  <1>1. Len(s) \in Nat /\ I \in SUBSET Nat /\ \A i \in D : s[i] \in T
    OBVIOUS
  <1>2. IsFiniteSet(D) /\ Cardinality(D) = Len(s)
    <2> DEFINE m == Len(s)
    <2>1. m \in Int /\ 1 \in Int /\ m \in Nat
      BY <1>1
    <2> HIDE DEF m
    <2>2. IsFiniteSet(1..m) /\ Cardinality(1..m) = IF 1 > m THEN 0 ELSE m - 1 + 1
      BY <2>1, FS_Interval
    <2>3. IsFiniteSet(1..m) /\ Cardinality(1..m) = m
      BY <2>1, <2>2
    <2> QED
      BY <2>3 DEF m
  <1> HIDE DEF D
  <1>3. I \in SUBSET D
    BY DEF D
  <1>4. IsFiniteSet(I) /\ n <= Len(s)
    BY <1>2, <1>3, FS_Subset
  <1>5. n \in Nat
    BY <1>4, FS_CardinalityType
  <1>6. PICK place : Placing(place, I) /\ At(s, I) = [k2 \in 1..n |-> s[place[k2]]]
    BY <1>1, <1>4, AtKeepsOrder
  <1>7. place \in [1..n -> I] /\ \A i \in I : \E j \in 1..n : place[j] = i
    BY <1>6 DEF Placing
  <1> HIDE DEF n
  <1>8. \A j \in 1..n : s[place[j]] \in T
    BY <1>1, <1>3, <1>7
  <1>9. At(s, I) \in Seq(T) /\ Len(At(s, I)) = n /\ DOMAIN At(s, I) = 1..n
    BY <1>5, <1>6, <1>8
  <1>10. \A i \in 1..n : At(s, I)[i] = s[place[i]]
    BY <1>6
  <1>11. \A x : x \in Range(At(s, I)) <=> \E j \in 1..n : s[place[j]] = x
    BY <1>9, <1>10 DEF Range
  <1>12. \A x : (\E j \in 1..n : s[place[j]] = x) <=> \E i \in I : s[i] = x
    BY <1>7
  <1> QED
    BY <1>4, <1>6, <1>9, <1>10, <1>11, <1>12 DEF n

LEMMA TakeAll ==
    ASSUME NEW T, NEW s \in Seq(T), NEW n \in Nat, Len(s) <= n
    PROVE  Take(n, s) = s
  <1>1. Len(s) \in Nat /\ Lesser(n, Len(s)) = Len(s)
    BY DEF Lesser
  <1>2. SubSeq(s, 1, Len(s)) = s
    OBVIOUS
  <1> QED
    BY <1>1, <1>2 DEF Take

LEMMA RangeConcat ==
    ASSUME NEW T, NEW s \in Seq(T), NEW t \in Seq(T)
    PROVE  /\ s \o t \in Seq(T) /\ Len(s \o t) = Len(s) + Len(t)
           /\ Range(s \o t) = Range(s) \cup Range(t)
  <1>1. /\ s \o t \in Seq(T) /\ Len(s \o t) = Len(s) + Len(t)
        /\ Len(s) \in Nat /\ Len(t) \in Nat
    OBVIOUS
  <1>2. \A i \in 1..Len(s) : i \in 1..Len(s \o t) /\ (s \o t)[i] = s[i]
    OBVIOUS
  <1>3. \A i \in 1..Len(t) : Len(s) + i \in 1..Len(s \o t) /\ (s \o t)[Len(s) + i] = t[i]
    OBVIOUS
  <1>4. \A i \in 1..Len(s \o t) : i \in 1..Len(s) \/ (i - Len(s)) \in 1..Len(t)
    BY <1>1
  <1>5. \A i \in 1..Len(s \o t) : Member((s \o t)[i], s) \/ Member((s \o t)[i], t)
    <2>1. TAKE i \in 1..Len(s \o t)
    <2>2. CASE i \in 1..Len(s)
      BY <1>2, <2>2 DEF Member
    <2>3. CASE (i - Len(s)) \in 1..Len(t)
      <3>1. Len(s) + (i - Len(s)) = i
        BY <1>1
      <3>2. (s \o t)[i] = t[i - Len(s)]
        BY <1>3, <2>3, <3>1
      <3> QED
        BY <2>3, <3>2 DEF Member
    <2> QED
      BY <1>4, <2>2, <2>3
  <1>6. \A x : Member(x, s) \/ Member(x, t) => Member(x, s \o t)
    BY <1>2, <1>3 DEF Member
  <1>7. \A x : Member(x, s \o t) => Member(x, s) \/ Member(x, t)
    BY <1>5 DEF Member
  <1>8. \A x : x \in Range(s \o t) <=> x \in Range(s) \/ x \in Range(t)
    BY <1>1, <1>6, <1>7, RangeIsMembers
  <1> QED
    BY <1>1, <1>8

LEMMA Sums ==
    ASSUME NEW a \in Nat, NEW b \in Nat, NEW c \in Nat, NEW m \in Nat, a + b + c <= m
    PROVE  c <= m /\ \A d \in Nat : d <= a + b => d <= m /\ d + c <= m
  OBVIOUS

Short(e) == Len(e.symtab) + Len(e.dynsym) + Len(e.fdes) <= MaxFuncs
Bodied(e) == {f \in Range(e.symtab) \cup Range(e.dynsym) : f.func /\ f.entry # 0 /\ f.size # 0}
Sized(e) == {f \in Range(e.fdes) : f.size > 0}
EntriesOf(F) == {f.entry : f \in F}

LEMMA EntriesAre ==
    ASSUME NEW T, NEW s \in Seq(T)
    PROVE  Entries(s) = EntriesOf(Range(s))
  <1>1. \A a : a \in Entries(s) <=> \E i \in 1..Len(s) : a = s[i].entry
    BY DEF Entries
  <1>2. \A a : a \in EntriesOf(Range(s)) <=> \E x \in Range(s) : a = x.entry
    BY DEF EntriesOf
  <1>3. \A x : x \in Range(s) <=> \E i \in 1..Len(s) : s[i] = x
    BY RangeIsMembers DEF Member
  <1>4. ASSUME NEW a \in Entries(s) PROVE a \in EntriesOf(Range(s))
    BY <1>1, <1>2, <1>3
  <1>5. ASSUME NEW a \in EntriesOf(Range(s)) PROVE a \in Entries(s)
    BY <1>1, <1>2, <1>3
  <1> QED
    BY <1>4, <1>5

LEMMA FileParts ==
    ASSUME NEW e \in File
    PROVE  e.symtab \in Seq(Func) /\ e.dynsym \in Seq(Func) /\ e.fdes \in Seq(Func)
  BY DEF File

LEMMA UnwoundAre ==
    ASSUME NEW e \in File, Short(e)
    PROVE  /\ eh_frame_funcs(e) \in Seq(Func) /\ Len(eh_frame_funcs(e)) <= Len(e.fdes)
           /\ Range(eh_frame_funcs(e)) = Sized(e)
  <1> DEFINE s == e.fdes
             I == {i \in DOMAIN s : s[i].size > 0}
  <1>1. s \in Seq(Func) /\ Len(e.symtab) \in Nat /\ Len(e.dynsym) \in Nat /\ Len(s) \in Nat
    BY FileParts
  <1>2. eh_frame_funcs(e) = Take(MaxFuncs, At(s, I))
    BY DEF eh_frame_funcs
  <1>10. MaxFuncs \in Nat
    BY LoaderAssumption
  <1>3. MaxFuncs \in Nat /\ Len(s) <= MaxFuncs
    BY <1>1, <1>10, Sums DEF Short
  <1>4. I \in SUBSET (1..Len(s))
    BY <1>1
  <1>5. \A x : x \in Sized(e) <=> \E i \in I : s[i] = x
    BY <1>1 DEF Sized, Range
  <1> HIDE DEF s, I
  <1>6. /\ At(s, I) \in Seq(Func) /\ Len(At(s, I)) <= Len(s)
        /\ \A x : x \in Range(At(s, I)) <=> \E i \in I : s[i] = x
    BY <1>1, <1>4, Filtered
  <1>7. Len(At(s, I)) <= MaxFuncs
    BY <1>1, <1>3, <1>6
  <1>8. eh_frame_funcs(e) = At(s, I)
    BY <1>2, <1>3, <1>6, <1>7, TakeAll
  <1>9. Range(At(s, I)) = Sized(e)
    BY <1>5, <1>6
  <1> QED
    BY <1>6, <1>8, <1>9 DEF s

\* below the cap: the symbols with a body, and the FDEs of what they left out
LEMMA DiscoveredAre ==
    ASSUME NEW e \in File, Short(e)
    PROVE  /\ discover(e) \in Seq(Func)
           /\ Range(discover(e)) = Bodied(e) \cup
                 {f \in Sized(e) : f.entry \notin EntriesOf(Bodied(e)) \cup e.plt}
  <1> DEFINE syms == e.symtab \o e.dynsym
             B == At(syms, Bodies(syms))
             fdes == eh_frame_funcs(e)
             R == {i \in DOMAIN fdes : fdes[i].entry \notin Entries(B) \cup e.plt}
             C == At(fdes, R)
  <1>1. /\ e.symtab \in Seq(Func) /\ e.dynsym \in Seq(Func) /\ e.fdes \in Seq(Func)
        /\ Len(e.symtab) \in Nat /\ Len(e.dynsym) \in Nat /\ Len(e.fdes) \in Nat
        /\ MaxFuncs \in Nat
    <2>1. MaxFuncs \in Nat
      BY LoaderAssumption
    <2> QED
      BY <2>1, FileParts
  <1>2. /\ syms \in Seq(Func) /\ Len(syms) = Len(e.symtab) + Len(e.dynsym)
        /\ Range(syms) = Range(e.symtab) \cup Range(e.dynsym)
    BY <1>1, RangeConcat
  <1> HIDE DEF syms
  <1>3. Bodies(syms) \in SUBSET (1..Len(syms))
    <2>1. DOMAIN syms = 1..Len(syms)
      BY <1>2
    <2> QED
      BY <2>1 DEF Bodies
  <1>4. /\ B \in Seq(Func) /\ Len(B) <= Len(syms)
        /\ \A x : x \in Range(B) <=> \E i \in Bodies(syms) : syms[i] = x
    BY <1>2, <1>3, Filtered
  <1>5. Range(B) = Bodied(e)
    <2>1. \A x : x \in Bodied(e) <=> \E i \in Bodies(syms) : syms[i] = x
      BY <1>2 DEF Bodied, Bodies, Range
    <2> QED
      BY <1>4, <2>1
  <1>6. Len(B) \in Nat /\ Len(B) <= MaxFuncs /\ Len(B) + Len(e.fdes) <= MaxFuncs
    <2>1. Len(B) \in Nat
      BY <1>4
    <2>2. Len(e.symtab) + Len(e.dynsym) + Len(e.fdes) <= MaxFuncs
      BY DEF Short
    <2>3. Len(B) <= Len(e.symtab) + Len(e.dynsym)
      BY <1>2, <1>4
    <2> HIDE DEF B
    <2> QED
      BY <1>1, <2>1, <2>2, <2>3, Sums
  <1>7. Take(MaxFuncs, B) = B
    BY <1>1, <1>4, <1>6, TakeAll
  <1>8. fdes \in Seq(Func) /\ Len(fdes) <= Len(e.fdes) /\ Range(fdes) = Sized(e)
    BY UnwoundAre
  <1>9. discover(e) = Take(MaxFuncs, B \o C)
    BY <1>7 DEF discover, syms
  <1> HIDE DEF fdes, B
  <1>10. Entries(B) = EntriesOf(Bodied(e))
    BY <1>4, <1>5, EntriesAre
  <1>11. R \in SUBSET (1..Len(fdes))
    BY <1>8
  <1>12. \A x : (\E i \in R : fdes[i] = x)
                   <=> x \in Sized(e) /\ x.entry \notin EntriesOf(Bodied(e)) \cup e.plt
    <2>1. \A x : x \in Sized(e) <=> \E i \in DOMAIN fdes : fdes[i] = x
      BY <1>8 DEF Range
    <2> QED
      BY <1>10, <2>1
  <1> HIDE DEF R
  <1>13. /\ C \in Seq(Func) /\ Len(C) <= Len(fdes)
         /\ \A x : x \in Range(C) <=> \E i \in R : fdes[i] = x
    BY <1>8, <1>11, Filtered
  <1> HIDE DEF C
  <1>14. /\ B \o C \in Seq(Func) /\ Len(B \o C) = Len(B) + Len(C)
         /\ Range(B \o C) = Range(B) \cup Range(C)
    BY <1>4, <1>13, RangeConcat
  <1>15. Len(B \o C) <= MaxFuncs
    <2>1. Len(C) \in Nat /\ Len(fdes) \in Nat
      BY <1>8, <1>13
    <2> QED
      BY <1>1, <1>6, <1>8, <1>13, <1>14, <2>1
  <1>16. discover(e) = B \o C
    BY <1>1, <1>9, <1>14, <1>15, TakeAll
  <1>17. \A x : x \in Range(C)
                   <=> x \in {f \in Sized(e) : f.entry \notin EntriesOf(Bodied(e)) \cup e.plt}
    BY <1>12, <1>13
  <1> QED
    BY <1>5, <1>14, <1>16, <1>17

\* the sorted list without repeated entries: ascending, from the list, and at every
\* entry a named one when there is one
LEMMA SortedDeduped ==
    ASSUME NEW s \in Seq(Func)
    PROVE  LET t == sort_dedup(s) IN
           /\ t \in Seq(Func)
           /\ \A i \in 1..Len(t) : t[i] \in Range(s)
           /\ \A i \in 1..Len(s) : \E j \in 1..Len(t) :
                 t[j].entry = s[i].entry /\ (s[i].name # "" => t[j].name # "")
           /\ \A i, j \in 1..Len(t) : i < j => t[i].entry < t[j].entry
  <1> DEFINE D == DOMAIN s
             late(i) == IF s[i].name = "" THEN 1 ELSE 0
             Before(i, j) == \/ s[i].entry < s[j].entry
                             \/ s[i].entry = s[j].entry /\ late(i) < late(j)
                             \/ s[i].entry = s[j].entry /\ late(i) = late(j) /\ i < j
             R == {p \in D \X D : Before(p[1], p[2])}
             n == Cardinality(D)
             order == SortedBy(D, R)
             sorted == [i \in DOMAIN order |-> s[order[i]]]
             K == {i \in DOMAIN sorted : i = 1 \/ sorted[i].entry # sorted[i - 1].entry}
             t == At(sorted, K)
  <1>1. Len(s) \in Nat /\ D = 1..Len(s) /\ (\A i \in D : s[i] \in Func)
    OBVIOUS
  <1>2. \A i \in D : s[i].entry \in Nat /\ i \in Nat
    BY <1>1, Sizes DEF Func
  <1>3. \A i \in D : late(i) \in {0, 1}
    OBVIOUS
  <1>4. \A i, j \in D : <<i, j>> \in R <=> Before(i, j)
    OBVIOUS
  <1>5. IsFiniteSet(D)
    <2> DEFINE m == Len(s)
    <2>1. m \in Int /\ 1 \in Int /\ D = 1..m
      BY <1>1
    <2> HIDE DEF m, D
    <2> QED
      BY <2>1, FS_Interval
  <1>6. sort_dedup(s) = t
    <2> DEFINE before == [c \in D |-> Cardinality({d \in D : Before(d, c)})]
    <2>1. \A c \in D : {d \in D : Before(d, c)} = Below(D, R, c)
      BY <1>4 DEF Below
    <2>2. before = Ranks(D, R)
      BY <2>1 DEF Ranks
    <2>3. [i \in 1..n |-> CHOOSE c \in D : before[c] = i - 1] = order
      <3> HIDE DEF before, R, D
      <3> QED
        BY <2>2 DEF SortedBy
    <2>4. InRank(D, Before) = [i \in 1..n |-> CHOOSE c \in D : before[c] = i - 1]
      BY DEF InRank
    <2>5. InRank(D, Before) = order
      BY <2>3, <2>4
    <2> QED
      BY <2>5 DEF sort_dedup
  <1>7. StrictOrder(D, R)
    <2>1. \A i \in D : ~Before(i, i)
      BY <1>2, <1>3
    <2>2. ASSUME NEW i \in D, NEW j \in D, i # j PROVE Before(i, j) \/ Before(j, i)
      <3>1. s[i].entry \in Nat /\ s[j].entry \in Nat /\ i \in Nat /\ j \in Nat
        BY <1>2
      <3>2. late(i) \in {0, 1} /\ late(j) \in {0, 1}
        BY <1>3
      <3> HIDE DEF late
      <3> QED
        BY <2>2, <3>1, <3>2
    <2>3. ASSUME NEW i \in D, NEW j \in D, NEW l \in D, Before(i, j), Before(j, l)
          PROVE  Before(i, l)
      <3>1. /\ s[i].entry \in Nat /\ s[j].entry \in Nat /\ s[l].entry \in Nat
            /\ i \in Nat /\ j \in Nat /\ l \in Nat
        BY <1>2
      <3>2. late(i) \in {0, 1} /\ late(j) \in {0, 1} /\ late(l) \in {0, 1}
        BY <1>3
      <3> HIDE DEF late
      <3> QED
        BY <2>3, <3>1, <3>2
    <2> HIDE DEF R, Before, D
    <2> QED
      BY <1>4, <2>1, <2>2, <2>3 DEF StrictOrder
  <1> HIDE DEF R, D
  <1>8. /\ n \in Nat /\ DOMAIN order = 1..n
        /\ \A c \in D : \E i \in 1..n : order[i] = c
        /\ \A i, j \in 1..n : i < j <=> <<order[i], order[j]>> \in R
        /\ \A i \in 1..n : order[i] \in D
    BY <1>5, <1>7, SortedByRank
  <1> HIDE DEF order, n
  <1>9. /\ sorted \in Seq(Func) /\ Len(sorted) = n /\ DOMAIN sorted = 1..n
        /\ \A i \in 1..n : sorted[i] = s[order[i]]
    <2>1. \A i \in 1..n : s[order[i]] \in Func
      BY <1>1, <1>8
    <2> QED
      BY <1>8, <2>1
  <1> HIDE DEF sorted, Before
  <1>10. \A i \in 1..n : sorted[i].entry \in Nat
    BY <1>2, <1>8, <1>9
  <1>11. ASSUME NEW i \in 1..n, NEW j \in 1..n, i <= j
         PROVE  sorted[i].entry <= sorted[j].entry
    <2>1. CASE i = j
      BY <1>10, <2>1
    <2>2. CASE i # j
      <3>1. i < j
        BY <1>8, <1>11, <2>2
      <3>2. Before(order[i], order[j])
        BY <1>4, <1>8, <3>1
      <3>3. s[order[i]].entry \in Nat /\ s[order[j]].entry \in Nat
        BY <1>2, <1>8
      <3>5. \/ s[order[i]].entry < s[order[j]].entry
            \/ s[order[i]].entry = s[order[j]].entry
        BY <3>2 DEF Before
      <3>4. s[order[i]].entry <= s[order[j]].entry
        BY <3>3, <3>5
      <3> QED
        BY <1>9, <3>4
    <2> QED
      BY <2>1, <2>2
  <1>12. K \in SUBSET (1..Len(sorted))
    BY <1>9
  <1>13. /\ t \in Seq(Func)
         /\ \E place : /\ Placing(place, K) /\ Len(t) = Cardinality(K)
                       /\ \A i \in 1..Len(t) : t[i] = sorted[place[i]]
    <2> HIDE DEF K, t
    <2>1. /\ At(sorted, K) \in Seq(Func)
          /\ \E place : /\ Placing(place, K) /\ Len(At(sorted, K)) = Cardinality(K)
                        /\ \A i \in 1..Len(At(sorted, K)) : At(sorted, K)[i] = sorted[place[i]]
      <3>1. sorted \in Seq(Func)
        BY <1>9
      <3>2. \A T : \A s2 \in Seq(T) : \A I \in SUBSET (1..Len(s2)) :
               /\ At(s2, I) \in Seq(T)
               /\ \E place : /\ Placing(place, I) /\ Len(At(s2, I)) = Cardinality(I)
                             /\ \A i \in 1..Len(At(s2, I)) : At(s2, I)[i] = s2[place[i]]
        BY Filtered
      <3> QED
        BY <1>12, <3>1, <3>2, Zenon
    <2>2. t = At(sorted, K)
      BY DEF t
    <2> QED
      BY <2>1, <2>2
  <1>14. PICK place : /\ Placing(place, K) /\ Len(t) = Cardinality(K)
                      /\ \A i \in 1..Len(t) : t[i] = sorted[place[i]]
    BY <1>13
  <1>15. /\ \A i \in 1..Len(t) : place[i] \in K
         /\ \A i \in K : \E j \in 1..Len(t) : place[j] = i
         /\ \A i, j \in 1..Len(t) : i < j <=> place[i] < place[j]
    BY <1>14 DEF Placing
  <1>16. \A i \in K : i \in 1..n /\ (i = 1 \/ sorted[i].entry # sorted[i - 1].entry)
    BY <1>9
  <1>17. \A i \in 1..n : i = 1 \/ sorted[i].entry # sorted[i - 1].entry => i \in K
    BY <1>9
  <1> HIDE DEF K, t
  <1>18. ASSUME NEW i \in 1..Len(t) PROVE t[i] \in Range(s)
    <2>1. place[i] \in 1..n
      BY <1>15, <1>16
    <2>2. order[place[i]] \in D /\ t[i] = s[order[place[i]]]
      BY <1>8, <1>9, <1>14, <2>1
    <2> QED
      BY <2>2 DEF Range, D
  <1>19. ASSUME NEW i \in 1..Len(s)
         PROVE  \E j \in 1..Len(t) :
                   t[j].entry = s[i].entry /\ (s[i].name # "" => t[j].name # "")
    <2> DEFINE Same == {l \in 1..n : sorted[l].entry = s[i].entry}
    <2>1. PICK l \in 1..n : order[l] = i
      BY <1>1, <1>8
    <2>2. l \in Same /\ sorted[l] = s[i]
      BY <1>9, <2>1
    <2>3. PICK m \in Same : \A y \in Same : m <= y
      <3>1. Same \in SUBSET Nat
        BY <1>8
      <3> HIDE DEF Same
      <3> QED
        BY <2>2, <3>1, LeastExists
    <2>4. m \in 1..n /\ sorted[m].entry = s[i].entry /\ m <= l
      BY <2>2, <2>3
    <2>5. m = 1 \/ sorted[m].entry # sorted[m - 1].entry
      <3>1. SUFFICES ASSUME m # 1, sorted[m].entry = sorted[m - 1].entry PROVE FALSE
        OBVIOUS
      <3>2. m - 1 \in 1..n /\ ~(m <= m - 1)
        BY <1>8, <2>4, <3>1
      <3>3. m - 1 \in Same
        BY <2>4, <3>1, <3>2
      <3> QED
        BY <2>3, <3>2, <3>3
    <2>6. m \in K
      BY <1>17, <2>4, <2>5
    <2>7. PICK j \in 1..Len(t) : place[j] = m
      BY <1>15, <2>6
    <2>8. t[j] = sorted[m]
      BY <1>14, <2>7
    <2>9. ASSUME s[i].name # "" PROVE sorted[m].name # ""
      <3>1. CASE m = l
        BY <2>2, <2>9, <3>1
      <3>2. CASE m # l
        <4>1. m < l
          BY <1>8, <2>4, <3>2
        <4>2. Before(order[m], i)
          BY <1>4, <1>8, <2>1, <2>4, <4>1
        <4>3. order[m] \in D /\ sorted[m] = s[order[m]]
          BY <1>8, <1>9, <2>4
        <4>4. s[order[m]].entry = s[i].entry /\ s[i].entry \in Nat
          BY <1>1, <1>2, <2>4, <4>3
        <4>6. late(i) = 0
          BY <2>9
        <4>7. s[order[m]].name = "" => late(order[m]) = 1
          OBVIOUS
        <4>8. late(order[m]) \in {0, 1}
          BY <1>3, <4>3
        <4>5. ~(s[order[m]].entry < s[i].entry)
          BY <4>4
        <4> HIDE DEF late
        <4>9. late(order[m]) < late(i) \/ late(order[m]) = late(i)
          BY <4>2, <4>5 DEF Before
        <4>10. late(order[m]) # 1
          BY <4>6, <4>8, <4>9
        <4> QED
          BY <4>3, <4>7, <4>10
      <3> QED
        BY <3>1, <3>2
    <2> QED
      BY <2>4, <2>8, <2>9
  <1>20. ASSUME NEW i \in 1..Len(t), NEW j \in 1..Len(t), i < j
         PROVE  t[i].entry < t[j].entry
    <2> DEFINE x == place[i]
               y == place[j]
    <2>1. x \in 1..n /\ y \in 1..n /\ x < y /\ (y = 1 \/ sorted[y].entry # sorted[y - 1].entry)
      BY <1>15, <1>16, <1>20
    <2>2. t[i] = sorted[x] /\ t[j] = sorted[y]
      BY <1>14
    <2> HIDE DEF x, y
    <2>3. y - 1 \in 1..n /\ x <= y - 1 /\ y - 1 <= y /\ y # 1
      BY <1>8, <2>1
    <2>4. sorted[x].entry <= sorted[y - 1].entry /\ sorted[y - 1].entry <= sorted[y].entry
      BY <1>11, <2>1, <2>3
    <2>5. sorted[x].entry \in Nat /\ sorted[y - 1].entry \in Nat /\ sorted[y].entry \in Nat
      BY <1>10, <2>1, <2>3
    <2> QED
      BY <2>1, <2>2, <2>3, <2>4, <2>5
  <1> QED
    BY <1>6, <1>13, <1>18, <1>19, <1>20

NamedIn(F, name) == {f.entry : f \in {g \in F : g.name = name}}

Ascending(list) == \A i, j \in 1..Len(list) : i < j => list[i].entry < list[j].entry

\* in an ascending list the last function of a name is the highest one
LEMMA LastIsHighest ==
    ASSUME NEW list \in Seq(Func), Ascending(list), NEW name
    PROVE  {list[i].entry : i \in {j \in 1..Len(list) :
                                /\ list[j].name = name
                                /\ \A m \in (j + 1)..Len(list) : list[m].name # name}}
              = {a \in NamedIn(Range(list), name) :
                    \A b \in NamedIn(Range(list), name) : b <= a}
  <1> DEFINE n == Len(list)
             Named == {j \in 1..n : list[j].name = name}
             Final == {j \in 1..n : /\ list[j].name = name
                                   /\ \A m \in (j + 1)..n : list[m].name # name}
             N == NamedIn(Range(list), name)
  <1>1. n \in Nat
    OBVIOUS
  <1>2. \A i \in 1..n : list[i].entry \in Nat
    <2>1. \A i \in 1..n : list[i] \in Func
      BY Element
    <2>2. \A x \in Func : x.entry \in Nat
      BY Sizes DEF Func
    <2> QED
      BY <2>1, <2>2
  <1>3. \A a : a \in N <=> \E i \in Named : a = list[i].entry
    <2>1. \A x : x \in Range(list) <=> \E i \in 1..n : list[i] = x
      BY RangeIsMembers DEF Member
    <2>2. \A a : a \in N <=> \E x \in Range(list) : x.name = name /\ a = x.entry
      BY DEF NamedIn
    <2> HIDE DEF N, n
    <2> QED
      BY <2>1, <2>2
  <1>4. \A i, j \in 1..n : i < j => list[i].entry < list[j].entry
    BY DEF Ascending
  <1>5. \A i \in Final : i \in Named /\ \A j \in Named : ~(i < j)
    BY <1>1
  <1>6. \A i \in Named : i \in 1..n /\ ((\A j \in Named : ~(i < j)) => i \in Final)
    <2>1. TAKE i \in Named
    <2>2. ASSUME \A j \in Named : ~(i < j) PROVE i \in Final
      <3>1. \A m \in (i + 1)..n : m \in 1..n /\ i < m
        BY <1>1
      <3> QED
        BY <2>2, <3>1
    <2> QED
      BY <2>2
  <1> HIDE DEF n, Named, Final, N
  <1>7. ASSUME NEW i \in Final
        PROVE  list[i].entry \in N /\ \A b \in N : b <= list[i].entry
    <2>1. i \in Named /\ i \in 1..n
      BY <1>5, <1>6
    <2>2. ASSUME NEW b \in N PROVE b <= list[i].entry
      <3>1. PICK j \in Named : b = list[j].entry
        BY <1>3
      <3>2. j \in 1..n /\ ~(i < j)
        BY <1>5, <1>6, <3>1
      <3>3. j = i \/ j < i
        BY <1>1, <2>1, <3>2
      <3>4. list[j].entry \in Nat /\ list[i].entry \in Nat
        BY <1>2, <2>1, <3>2
      <3> QED
        BY <1>4, <2>1, <3>1, <3>2, <3>3, <3>4
    <2> QED
      BY <1>3, <2>1, <2>2
  <1>8. ASSUME NEW a \in N, \A b \in N : b <= a
        PROVE  \E i \in Final : a = list[i].entry
    <2>1. PICK i \in Named : a = list[i].entry
      BY <1>3
    <2>2. ASSUME NEW j \in Named, i < j PROVE FALSE
      <3>1. i \in 1..n /\ j \in 1..n /\ list[j].entry \in N
        BY <1>3, <1>6
      <3>2. list[i].entry < list[j].entry /\ list[j].entry <= list[i].entry
        BY <1>4, <1>8, <2>1, <2>2, <3>1
      <3>3. list[i].entry \in Nat /\ list[j].entry \in Nat
        BY <1>2, <3>1
      <3> QED
        BY <3>2, <3>3
    <2>3. i \in Final
      BY <1>6, <2>2
    <2> QED
      BY <2>1, <2>3
  <1>9. {list[i].entry : i \in Final} = {a \in N : \A b \in N : b <= a}
    BY <1>7, <1>8
  <1> QED
    BY <1>9 DEF Final, N, n

\* a name that no alias hides survives the deduplication wherever it was
LEMMA NamesKept ==
    ASSUME NEW s \in Seq(Func), ~Aliased(s), NEW name, name # ""
    PROVE  NamedIn(Range(sort_dedup(s)), name) = NamedIn(Range(s), name)
  <1> DEFINE t == sort_dedup(s)
  <1>1. /\ t \in Seq(Func)
        /\ \A i \in 1..Len(t) : t[i] \in Range(s)
        /\ \A i \in 1..Len(s) : \E j \in 1..Len(t) :
              t[j].entry = s[i].entry /\ (s[i].name # "" => t[j].name # "")
    BY SortedDeduped
  <1> HIDE DEF t
  <1>2. /\ \A x : x \in Range(s) <=> \E i \in 1..Len(s) : s[i] = x
        /\ \A x : x \in Range(t) <=> \E i \in 1..Len(t) : t[i] = x
    BY <1>1, RangeIsMembers DEF Member
  <1>6. Range(t) \subseteq Range(s)
    <2>1. ASSUME NEW x \in Range(t) PROVE x \in Range(s)
      <3>1. PICK i \in 1..Len(t) : t[i] = x
        BY <1>2
      <3> QED
        BY <1>1, <3>1
    <2> QED
      BY <2>1
  <1>3. \A a : a \in NamedIn(Range(t), name) => a \in NamedIn(Range(s), name)
    BY <1>6 DEF NamedIn
  <1>4. ASSUME NEW x \in Range(s), x.name = name
        PROVE  \E y \in Range(t) : y.name = name /\ y.entry = x.entry
    <2>1. PICK i \in 1..Len(s) : s[i] = x
      BY <1>2
    <2>2. PICK j \in 1..Len(t) : t[j].entry = s[i].entry /\ (s[i].name # "" => t[j].name # "")
      BY <1>1
    <2>3. PICK m \in 1..Len(s) : s[m] = t[j]
      BY <1>1, <1>2
    <2>4. s[i].entry = s[m].entry /\ s[i].name # "" /\ s[m].name # ""
      BY <1>4, <2>1, <2>2, <2>3
    <2>5. s[m].name \in {"", s[i].name}
      BY <2>4 DEF Aliased
    <2>6. t[j].name = name /\ t[j].entry = x.entry
      BY <1>4, <2>1, <2>2, <2>3, <2>4, <2>5
    <2> QED
      BY <1>2, <2>6
  <1>5. \A a : a \in NamedIn(Range(s), name) => a \in NamedIn(Range(t), name)
    BY <1>4 DEF NamedIn
  <1> QED
    BY <1>3, <1>5 DEF t

LEMMA StripIs ==
    ASSUME NEW e \in File
    PROVE  /\ strip(e) \in File /\ strip(e).symtab = <<>> /\ Len(strip(e).symtab) = 0
           /\ strip(e).dynsym = e.dynsym /\ strip(e).fdes = e.fdes /\ strip(e).plt = e.plt
           /\ strip(e).relocs = e.relocs /\ strip(e).stubs = e.stubs /\ strip(e).calls = e.calls
           /\ Range(strip(e).symtab) = {}
  <1>1. <<>> \in Seq(Func) /\ Len(<<>>) = 0 /\ Range(<<>>) = {}
    BY DEF Range
  <1> HIDE DEF Func, Header
  <1>2. strip(e) \in File
    BY <1>1 DEF strip, File
  <1>3. strip(e).symtab = <<>>
    BY DEF strip, File
  <1>4. /\ strip(e).dynsym = e.dynsym /\ strip(e).fdes = e.fdes /\ strip(e).plt = e.plt
        /\ strip(e).relocs = e.relocs /\ strip(e).stubs = e.stubs /\ strip(e).calls = e.calls
    BY DEF strip, File
  <1> QED
    BY <1>1, <1>2, <1>3, <1>4

\* what is called through the plt has a name
LEMMA ImportsNamed ==
    ASSUME NEW e \in Elfs
    PROVE  \A name \in Range(plt_imports(e)) : name # ""
  <1> DEFINE slots == Entries(e.relocs)
             last(a, i) == /\ e.relocs[i].entry = a
                           /\ \A j \in (i + 1)..Len(e.relocs) : e.relocs[j].entry # a
             named(a) == e.relocs[CHOOSE i \in 1..Len(e.relocs) : last(a, i)].name
             stubs == {s \in e.stubs : s.slot \in slots}
             n == Len(e.relocs)
  <1>1. n \in Nat
    <2>1. e.relocs \in Seq([entry : 0..Top, name : STRING])
      BY FilesAssumption DEF File
    <2> QED
      BY <2>1
  <1>2. ASSUME NEW a \in slots PROVE named(a) # ""
    <2> DEFINE Back == {b \in 0..n : n - b \in 1..n /\ e.relocs[n - b].entry = a}
    <2>1. PICK i \in 1..n : e.relocs[i].entry = a
      BY <1>2 DEF Entries
    <2> HIDE DEF n
    <2>2. n - i \in 0..n /\ n - (n - i) = i
      BY <1>1
    <2>3. n - i \in Back
      BY <2>1, <2>2
    <2>4. PICK b \in Back : \A y \in Back : b <= y
      <3>1. Back \in SUBSET Nat
        OBVIOUS
      <3> HIDE DEF Back
      <3> QED
        BY <2>3, <3>1, LeastExists
    <2>5. n - b \in 1..n /\ e.relocs[n - b].entry = a /\ b \in 0..n
      OBVIOUS
    <2>6. ASSUME NEW j \in ((n - b) + 1)..n PROVE e.relocs[j].entry # a
      <3>1. SUFFICES ASSUME e.relocs[j].entry = a PROVE FALSE
        OBVIOUS
      <3>2. n - j \in 0..n /\ n - (n - j) = j /\ j \in 1..n /\ ~(b <= n - j)
        BY <1>1, <2>5, <2>6
      <3>3. n - j \in Back
        BY <3>1, <3>2
      <3> QED
        BY <2>4, <3>2, <3>3
    <2>7. last(a, n - b)
      BY <2>5, <2>6 DEF n
    <2> HIDE DEF last, Back
    <2>8. (CHOOSE x \in 1..n : last(a, x)) \in 1..n
      BY <2>5, <2>7
    <2> DEFINE c == CHOOSE x \in 1..n : last(a, x)
    <2>9. e.relocs[c].name # ""
      BY <2>8, FilesAssumption DEF n
    <2> QED
      BY <2>9 DEF n
  <1>3. \A s \in stubs : s.slot \in slots
    OBVIOUS
  <1> DEFINE value(a) == IF \E s \in stubs : s.entry = a
                         THEN named((CHOOSE s \in stubs : s.entry = a).slot) ELSE named(a)
  <1>4. plt_imports(e) = [a \in slots \cup {s.entry : s \in stubs} |-> value(a)]
    BY DEF plt_imports
  <1> HIDE DEF slots, named, stubs
  <1>5. \A a \in slots \cup {s.entry : s \in stubs} : value(a) # ""
    <2>1. TAKE a \in slots \cup {s.entry : s \in stubs}
    <2>2. CASE \E s \in stubs : s.entry = a
      <3>1. (CHOOSE s \in stubs : s.entry = a) \in stubs
        BY <2>2
      <3> QED
        BY <1>2, <1>3, <2>2, <3>1
    <2>3. CASE ~\E s \in stubs : s.entry = a
      <3>1. a \in slots
        BY <2>3
      <3> QED
        BY <1>2, <2>3, <3>1
    <2> QED
      BY <2>2, <2>3
  <1> HIDE DEF value
  <1> QED
    BY <1>4, <1>5 DEF Range

\* a stripped file calls what it called, function by function
LEMMA SameCalls ==
    ASSUME NEW e \in File
    PROVE  \A segs, f, g : f.entry = g.entry /\ f.size = g.size =>
              static_calls(strip(e), segs, g) = static_calls(e, segs, f)
  <1>1. /\ strip(e).relocs = e.relocs /\ strip(e).stubs = e.stubs /\ strip(e).calls = e.calls
    BY StripIs
  <1>2. plt_imports(strip(e)) = plt_imports(e)
    BY <1>1 DEF plt_imports
  <1> QED
    BY <1>1, <1>2 DEF static_calls

\* whatever the symbol table held, the exports and the functions of the unwind info
\* are found without it
LEMMA FoundStripped ==
    ASSUME NEW e \in Elfs, Short(e)
    PROVE  /\ e \in File /\ strip(e) \in File /\ Short(strip(e))
           /\ discover(e) \in Seq(Func) /\ discover(strip(e)) \in Seq(Func)
           /\ Range(discover(strip(e))) \subseteq Range(discover(e)) \cup Range(eh_frame_funcs(e))
           /\ \A f \in Range(discover(strip(e))) : f.name # "" => f \in Range(discover(e))
           /\ Entries(eh_frame_funcs(e)) \ e.plt \subseteq Entries(discover(strip(e)))
  <1> DEFINE b == strip(e)
  <1>1. /\ e \in File /\ b \in File /\ Len(b.symtab) = 0 /\ Range(b.symtab) = {}
        /\ b.dynsym = e.dynsym /\ b.fdes = e.fdes /\ b.plt = e.plt
    BY StripIs, FilesAssumption
  <1> HIDE DEF b
  <1>2. Short(b)
    <2>1. Len(e.symtab) \in Nat /\ Len(e.dynsym) \in Nat /\ Len(e.fdes) \in Nat /\ MaxFuncs \in Nat
      <3>1. MaxFuncs \in Nat
        BY LoaderAssumption
      <3> QED
        BY <1>1, <3>1, FileParts
    <2>2. ASSUME NEW x \in Nat, NEW y \in Nat, NEW z \in Nat, NEW m \in Nat, x + y + z <= m
          PROVE  0 + y + z <= m
      BY <2>2
    <2> QED
      BY <1>1, <2>1, <2>2 DEF Short
  <1>3. /\ discover(e) \in Seq(Func)
        /\ Range(discover(e)) = Bodied(e) \cup
              {f \in Sized(e) : f.entry \notin EntriesOf(Bodied(e)) \cup e.plt}
    BY <1>1, DiscoveredAre
  <1>4. /\ discover(b) \in Seq(Func)
        /\ Range(discover(b)) = Bodied(b) \cup
              {f \in Sized(b) : f.entry \notin EntriesOf(Bodied(b)) \cup b.plt}
    BY <1>1, <1>2, DiscoveredAre
  <1>5. /\ eh_frame_funcs(e) \in Seq(Func) /\ Range(eh_frame_funcs(e)) = Sized(e)
    BY <1>1, UnwoundAre
  <1>6. Bodied(b) \subseteq Bodied(e) /\ Sized(b) = Sized(e)
    BY <1>1 DEF Bodied, Sized
  <1>7. \A f \in Sized(e) : f.name = ""
    <2>1. \A i \in 1..Len(e.fdes) : e.fdes[i].name = ""
      BY FilesAssumption
    <2>2. e.fdes \in Seq(Func)
      BY <1>1, FileParts
    <2>3. \A x : x \in Range(e.fdes) <=> \E i \in 1..Len(e.fdes) : e.fdes[i] = x
      BY <2>2, RangeIsMembers DEF Member
    <2> QED
      BY <2>1, <2>3 DEF Sized
  <1>8. Range(discover(b)) \subseteq Range(discover(e)) \cup Range(eh_frame_funcs(e))
    BY <1>3, <1>4, <1>5, <1>6
  <1>9. \A f \in Range(discover(b)) : f.name # "" => f \in Range(discover(e))
    BY <1>3, <1>4, <1>6, <1>7
  <1>10. /\ Entries(eh_frame_funcs(e)) = EntriesOf(Sized(e))
         /\ Entries(discover(b)) = EntriesOf(Range(discover(b)))
    BY <1>4, <1>5, EntriesAre
  <1>11. ASSUME NEW a \in EntriesOf(Sized(e)), a \notin e.plt
         PROVE  a \in EntriesOf(Range(discover(b)))
    <2>1. PICK f \in Sized(e) : a = f.entry
      BY DEF EntriesOf
    <2>2. CASE a \in EntriesOf(Bodied(b))
      BY <1>4, <2>2 DEF EntriesOf
    <2>3. CASE a \notin EntriesOf(Bodied(b))
      <3>1. f \in Range(discover(b))
        BY <1>1, <1>4, <1>6, <1>11, <2>1, <2>3
      <3> QED
        BY <2>1, <3>1 DEF EntriesOf
    <2> QED
      BY <2>2, <2>3
  <1>12. Entries(eh_frame_funcs(e)) \ e.plt \subseteq Entries(discover(b))
    BY <1>10, <1>11
  <1> QED
    BY <1>1, <1>2, <1>3, <1>4, <1>8, <1>9, <1>12 DEF b

\* deduplication loses no entry and adds no function
LEMMA DedupKeeps ==
    ASSUME NEW s \in Seq(Func)
    PROVE  /\ sort_dedup(s) \in Seq(Func) /\ Ascending(sort_dedup(s))
           /\ Range(sort_dedup(s)) \subseteq Range(s)
           /\ Entries(s) \subseteq Entries(sort_dedup(s))
  <1> DEFINE t == sort_dedup(s)
  <1>1. /\ t \in Seq(Func)
        /\ \A i \in 1..Len(t) : t[i] \in Range(s)
        /\ \A i \in 1..Len(s) : \E j \in 1..Len(t) : t[j].entry = s[i].entry
        /\ \A i, j \in 1..Len(t) : i < j => t[i].entry < t[j].entry
    BY SortedDeduped
  <1> HIDE DEF t
  <1>2. Ascending(t)
    BY <1>1 DEF Ascending
  <1>3. Range(t) \subseteq Range(s)
    <2>1. ASSUME NEW x \in Range(t) PROVE x \in Range(s)
      <3>1. PICK i \in 1..Len(t) : t[i] = x
        BY <1>1, RangeIsMembers DEF Member
      <3> QED
        BY <1>1, <3>1
    <2> QED
      BY <2>1
  <1>4. Entries(s) \subseteq Entries(t)
    BY <1>1 DEF Entries
  <1> QED
    BY <1>1, <1>2, <1>3, <1>4 DEF t

\* below the cap, for a file without the three exceptions
LEMMA Stripped ==
    ASSUME NEW e \in Elfs, Short(e), NEW segs
    PROVE  LET full == sort_dedup(discover(e))
               bare == sort_dedup(discover(strip(e)))
               covered == Entries(eh_frame_funcs(e)) \ e.plt
           IN  /\ Entries(full) \cap covered \subseteq Entries(bare)
               /\ ImportsAreExports(e) /\ ~Aliased(discover(e)) /\ OneSizePerEntry(e) =>
                    \A f \in Range(full), g \in Range(bare) : f.entry = g.entry =>
                       callees(e, segs, full, f) = callees(strip(e), segs, bare, g)
  <1> DEFINE d == discover(e)
             b == discover(strip(e))
             full == sort_dedup(d)
             bare == sort_dedup(b)
  <1>1. /\ e \in File /\ d \in Seq(Func) /\ b \in Seq(Func)
        /\ Range(b) \subseteq Range(d) \cup Range(eh_frame_funcs(e))
        /\ \A f \in Range(b) : f.name # "" => f \in Range(d)
        /\ Entries(eh_frame_funcs(e)) \ e.plt \subseteq Entries(b)
    BY FoundStripped
  <1> HIDE DEF d, b
  <1>2. /\ full \in Seq(Func) /\ Ascending(full) /\ Range(full) \subseteq Range(d)
        /\ bare \in Seq(Func) /\ Ascending(bare) /\ Range(bare) \subseteq Range(b)
        /\ Entries(b) \subseteq Entries(bare)
    BY <1>1, DedupKeeps
  <1>3. ASSUME ImportsAreExports(e), ~Aliased(d), OneSizePerEntry(e),
               NEW f \in Range(full), NEW g \in Range(bare), f.entry = g.entry
        PROVE  callees(e, segs, full, f) = callees(strip(e), segs, bare, g)
    <2>1. f.size = g.size
      BY <1>1, <1>2, <1>3 DEF OneSizePerEntry, d
    <2>2. ~Aliased(b)
      <3>1. SUFFICES ASSUME NEW i \in 1..Len(b), NEW j \in 1..Len(b), b[i].entry = b[j].entry,
                            b[i].name # "", b[j].name \notin {"", b[i].name}
                     PROVE  FALSE
        BY DEF Aliased
      <3>7. \A x : x \in Range(b) <=> \E n \in 1..Len(b) : b[n] = x
        BY <1>1, RangeIsMembers DEF Member
      <3>2. b[i] \in Range(b) /\ b[j] \in Range(b)
        BY <3>7
      <3>3. b[i] \in Range(d) /\ b[j] \in Range(d)
        BY <1>1, <3>1, <3>2
      <3>4. (\E l \in 1..Len(d) : d[l] = b[i]) /\ (\E m \in 1..Len(d) : d[m] = b[j])
        BY <1>1, <3>3, RangeIsMembers DEF Member
      <3>5. PICK l \in 1..Len(d), m \in 1..Len(d) : d[l] = b[i] /\ d[m] = b[j]
        BY <3>4
      <3>6. Aliased(d)
        BY <3>1, <3>5 DEF Aliased
      <3> QED
        BY <1>3, <3>6
    <2>3. \A name \in Range(plt_imports(e)) :
             NamedIn(Range(full), name) = NamedIn(Range(bare), name)
      <3>1. TAKE name \in Range(plt_imports(e))
      <3>2. name # ""
        BY ImportsNamed
      <3>3. /\ NamedIn(Range(full), name) = NamedIn(Range(d), name)
            /\ NamedIn(Range(bare), name) = NamedIn(Range(b), name)
        BY <1>1, <1>3, <2>2, <3>2, NamesKept
      <3>4. NamedIn(Range(b), name) \subseteq NamedIn(Range(d), name)
        BY <1>1, <3>2 DEF NamedIn
      <3>5. \A x \in Range(d) : x.name = name =>
               \E y \in Range(b) : y.name = x.name /\ y.entry = x.entry
        BY <1>3 DEF ImportsAreExports, d, b
      <3>6. NamedIn(Range(d), name) \subseteq NamedIn(Range(b), name)
        BY <3>5 DEF NamedIn
      <3> QED
        BY <3>3, <3>4, <3>6
    <2> DEFINE last(list, name) ==
                  {list[i].entry : i \in {j \in 1..Len(list) :
                                /\ list[j].name = name
                                /\ \A m \in (j + 1)..Len(list) : list[m].name # name}}
               calls == static_calls(e, segs, f)
    <2>4. \A name \in Range(plt_imports(e)) : last(full, name) = last(bare, name)
      <3>1. TAKE name \in Range(plt_imports(e))
      <3>2. /\ last(full, name) = {a \in NamedIn(Range(full), name) :
                                      \A c \in NamedIn(Range(full), name) : c <= a}
            /\ last(bare, name) = {a \in NamedIn(Range(bare), name) :
                                      \A c \in NamedIn(Range(bare), name) : c <= a}
        BY <1>2, LastIsHighest
      <3> HIDE DEF last
      <3> QED
        BY <2>3, <3>2
    <2>5. calls = static_calls(strip(e), segs, g)
      <3>1. e \in File /\ f.entry = g.entry
        BY <1>1, <1>3
      <3>2. \A y, u, v : u.entry = v.entry /\ u.size = v.size =>
               static_calls(strip(e), y, v) = static_calls(e, y, u)
        BY <3>1, SameCalls
      <3>3. static_calls(strip(e), segs, g) = static_calls(e, segs, f)
        BY <2>1, <3>1, <3>2, Zenon
      <3> QED
        BY <3>3
    <2>6. calls.names \subseteq Range(plt_imports(e))
      BY DEF static_calls, Range
    <2>7. callees(e, segs, full, f)
             = (calls.callees \cup UNION {last(full, x) : x \in calls.names}) \ {f.entry}
      BY DEF callees
    <2>8. callees(strip(e), segs, bare, g)
             = (calls.callees \cup UNION {last(bare, x) : x \in calls.names}) \ {g.entry}
      <3> HIDE DEF calls
      <3>1. callees(strip(e), segs, bare, g)
               = (static_calls(strip(e), segs, g).callees
                    \cup UNION {last(bare, x) : x \in static_calls(strip(e), segs, g).names})
                 \ {g.entry}
        BY DEF callees
      <3> QED
        BY <2>5, <3>1
    <2> HIDE DEF last, calls, full, bare
    <2>9. {last(full, x) : x \in calls.names} = {last(bare, x) : x \in calls.names}
      BY <2>4, <2>6
    <2> QED
      BY <1>3, <2>7, <2>8, <2>9
  <1> HIDE DEF full, bare
  <1>4. Entries(full) \cap (Entries(eh_frame_funcs(e)) \ e.plt) \subseteq Entries(bare)
    BY <1>1, <1>2
  <1> QED
    BY <1>3, <1>4 DEF full, bare, d, b
----------------------------------------------------------------------------
(* The theorems.                                                           *)

\* load compares neighbours in the sorted list only, and that keeps every two
\* segments apart below the last address, for any number of headers.
THEOREM SegmentsApart == Spec => []SegmentsDisjoint
  <1>1. ASSUME IInv PROVE SegmentsDisjoint
    <2>1. SUFFICES ASSUME Loaded, NEW i \in 1..Len(segments), NEW j \in 1..Len(segments),
                          i < j, NEW a \in 0..(Top - 1),
                          a \in Span(segments[i]), a \in Span(segments[j])
                   PROVE  FALSE
      BY DEF SegmentsDisjoint
    <2>2. End(segments[i]) <= segments[j].vaddr
      BY <1>1, <2>1 DEF IInv, OrderInv
    <2>3. segments \in Seq([vaddr : 0..Top, len : Nat])
      BY <1>1 DEF IInv, TypeOK
    <2>4. segments[i] \in [vaddr : 0..Top, len : Nat] /\ segments[j] \in [vaddr : 0..Top, len : Nat]
      BY <2>3, Element
    <2>7. \A s \in [vaddr : 0..Top, len : Nat] : s.vaddr \in Nat /\ s.len \in Nat
      BY Sizes
    <2>8. segments[i].vaddr + segments[i].len \in Nat
      BY <2>4, <2>7
    <2>5. End(segments[i]) \in Nat /\ segments[j].vaddr \in Nat /\ a \in Nat
      BY <2>4, <2>7, <2>8, Sizes DEF End, Sat
    <2>9. segments[j].vaddr <= a /\ a <= segments[i].vaddr + segments[i].len - 1
      BY <2>1 DEF Span
    <2>10. a \in Nat /\ a < Top
      BY <2>1, Sizes
    <2>11. segments[i].vaddr \in Nat /\ segments[i].len \in Nat
      BY <2>4, <2>7
    <2> DEFINE x == segments[i].vaddr + segments[i].len
    <2>12. x \in Nat /\ a < x
      BY <2>9, <2>10, <2>11
    <2>13. End(segments[i]) = IF x > Top THEN Top ELSE x
      BY DEF End, Sat
    <2> HIDE DEF x
    <2>6. a < End(segments[i])
      BY <2>10, <2>12, <2>13
    <2> QED
      BY <2>2, <2>5, <2>6, <2>9
  <1> QED
    BY <1>1, Invariance, PTL

\* However the headers overlap and whatever they claim of the file, the buffers that
\* load has filled hold no more than its total, at every moment of the copying: a
\* segment is as long as the plan counted it, and the saturating sum never wraps.
THEOREM LoadStaysInBudget == Spec => []MemoryBounded
  <1>1. BudgetInv => MemoryBounded
    BY DEF BudgetInv
  <1>2. Spec => []BudgetInv
    BY BudgetInit, BudgetStep, Invariance, PTL DEF Spec
  <1> QED
    BY <1>1, <1>2, PTL

\* A function that the unwind info covers is found in the stripped copy of a file, and
\* where both copies list it, it calls the same functions: whatever the symbol table
\* held, below the cap, and with the three exceptions the property names.
THEOREM StrippingIsHarmless == Spec => []StrippingKeepsTheGraph
  <1>1. Init => elf \in Elfs
    BY DEF Init
  <1>2. elf \in Elfs /\ [Next]_vars => (elf \in Elfs)'
    <2>1. ASSUME [Next]_vars PROVE elf' = elf
      BY <2>1 DEF Next, vars, PlanHeader, PlanEnds, CopySegment, SortSegments, Discover,
                  MapSegment, MapScratch, Done, Refuse, Map
    <2> QED
      BY <2>1
  <1>3. ASSUME elf \in Elfs PROVE StrippingKeepsTheGraph
    <2>1. SUFFICES ASSUME Short(elf) PROVE StrippingKeepsTheGraph
      BY DEF StrippingKeepsTheGraph, Short
    <2> DEFINE full == sort_dedup(discover(elf))
               bare == sort_dedup(discover(strip(elf)))
               covered == Entries(eh_frame_funcs(elf)) \ elf.plt
    <2>2. /\ Entries(full) \cap covered \subseteq Entries(bare)
          /\ ImportsAreExports(elf) /\ ~Aliased(discover(elf)) /\ OneSizePerEntry(elf) =>
               \A f \in Range(full), g \in Range(bare) : f.entry = g.entry =>
                  callees(elf, segments, full, f) = callees(strip(elf), segments, bare, g)
      BY <1>3, <2>1, Stripped
    <2> HIDE DEF full, bare, covered
    <2> QED
      BY <2>2 DEF StrippingKeepsTheGraph, full, bare, covered
  <1> QED
    BY <1>1, <1>2, <1>3, PTL DEF Spec

\* The setup of a file that load accepted fails only for a segment that reaches into
\* the last page of the address space, and an indexed function starts in mapped memory.
THEOREM AcceptedFilesAreSetUp == Spec => []AcceptedFilesRun
  <1>1. ASSUME IInv PROVE AcceptedFilesRun
    <2>1. pc = "fault" => ReachesLastPage
      BY <1>1 DEF IInv, FaultInv
    <2>2. ASSUME pc = "ready", NEW f \in Indexed(segments, funcs)
          PROVE  FirstPage(f.entry) \in mapped
      <3>1. PICK i \in 1..Len(segments) :
               f.entry \in segments[i].vaddr..(segments[i].vaddr + segments[i].len - 1)
        BY DEF Indexed, code_at
      <3> DEFINE v == segments[i].vaddr
                 n == segments[i].len
      <3>2. segments \in Seq([vaddr : 0..Top, len : Nat])
        BY <1>1 DEF IInv, TypeOK
      <3>3. segments[i] \in [vaddr : 0..Top, len : Nat]
        BY <3>2, Element
      <3>4. v \in Nat /\ n \in Nat
        BY <3>3
      <3>5. Writable(mapped, v, n)
        BY <1>1, <2>2 DEF IInv, MapInv
      <3> HIDE DEF v, n
      <3>6. f.entry \in v..(v + n - 1)
        BY <3>1 DEF v, n
      <3>7. n # 0 /\ f.entry \in Nat /\ v <= f.entry /\ f.entry <= v + n - 1 /\ v + n - 1 \in Nat
        BY <3>4, <3>6
      <3>8. \A p \in FirstPage(v)..FirstPage(v + n - 1) : p \in mapped
        BY <3>5, <3>7 DEF Writable
      <3>9. /\ FirstPage(v) \in Nat /\ FirstPage(f.entry) \in Nat /\ FirstPage(v + n - 1) \in Nat
            /\ FirstPage(v) <= FirstPage(f.entry) /\ FirstPage(f.entry) <= FirstPage(v + n - 1)
        BY <3>4, <3>7, PagesAscend
      <3> QED
        BY <3>8, <3>9
    <2> QED
      BY <2>1, <2>2 DEF AcceptedFilesRun
  <1> QED
    BY <1>1, Invariance, PTL
=============================================================================

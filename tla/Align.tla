------------------------------- MODULE Align -------------------------------
(***************************************************************************)
(* align::align (fnprint-core): the 1:1 assignment of a target's functions *)
(* to the rows of a corpus, and its call-graph rounds.  The alignment is a *)
(* function of its inputs, one of which is the order of the corpus rows;   *)
(* to compare what it does for two orders the module runs it twice, first  *)
(* with the batches as they were indexed, then with them indexed the other *)
(* way round.  Within a batch rows are in entry order (the loader sorts,   *)
(* and the shard merge sorts again).                                       *)
(*                                                                         *)
(* Similarities and scores are integers in units of 1/Unit.                *)
(***************************************************************************)
EXTENDS Integers, Sequences, FiniteSets, Ranking

CONSTANTS
    Targets,     \* entries of the target's usable functions
    Rows,        \* the corpus: [batch, group, entry], group the binary's label
    Tables,      \* how functions and rows may compare: functions of
                 \* Targets \X Rows to [sim, band]
    TGraphs,     \* callees of the target's functions: [Targets -> SUBSET Int]
    CGraphs,     \* callees of the rows: [Rows -> SUBSET Int]
    Unit, Weight, Threshold, Floor, Rounds   \* 1.0, Opts, FLOOR

ASSUME AlignAssumption ==
    /\ Unit \in Nat \ {0} /\ Weight \in Nat /\ Rounds \in Nat
    /\ IsFiniteSet(Targets) /\ Targets \subseteq Int
    /\ IsFiniteSet(Rows) /\ Rows \subseteq [batch : Int, group : Int, entry : Int]
    /\ \A r, s \in Rows : r.batch = s.batch /\ r.entry = s.entry => r = s
    /\ Tables \subseteq [Targets \X Rows -> [sim : 0..Unit, band : BOOLEAN]]
    /\ TGraphs \subseteq [Targets -> SUBSET Int] /\ CGraphs \subseteq [Rows -> SUBSET Int]

Orders == {"asIndexed", "swapped"}

VARIABLES
    look, tcalls, ccalls,    \* the two function sets: prints and edges
    lucky,                   \* see Finds
    pc, left,                \* per order: "first", "assign", "score", "accept"
                             \* or "done", and the rounds left
    cands,                   \* per order: the candidates, in sorting order
    graph, assign, out       \* per order: Cand::graph, the pairs, the answer

inputs == <<look, tcalls, ccalls, lucky>>
vars == <<inputs, pc, left, cands, graph, assign, out>>

Min2(m, n) == IF m < n THEN m ELSE n

----------------------------------------------------------------------------
(* The inputs: row order, candidate pool and neighbours.                   *)

Before(x, r, s) ==
    \/ r.batch = s.batch /\ r.entry < s.entry
    \/ r.batch < s.batch /\ x = "asIndexed"
    \/ r.batch > s.batch /\ x = "swapped"

\* rows that share a band, or all of them when none does; then FLOOR
Pool(a) ==
    LET seen == {r \in Rows : look[<<a, r>>].band}
    IN  IF seen = {} THEN Rows ELSE seen
Pairs == {c \in Targets \X Rows : c[2] \in Pool(c[1]) /\ look[c].sim >= Floor}

\* entry -> row: a later row with the same label and entry replaces an earlier
Named(r, e) == {s \in Rows : s.group = r.group /\ s.entry = e}
b_idx(x, r, e) == CHOOSE s \in Named(r, e) : \A t \in Named(r, e) \ {s} : Before(x, t, s)

\* callee lists are in the order of the entries
b_callees(x, r) ==
    LET known == {e \in ccalls[r] : Named(r, e) # {}}
    IN  [e \in known |-> b_idx(x, r, e)]
CalleeRows(x, r) == {b_callees(x, r)[e] : e \in DOMAIN b_callees(x, r)}
CallerRows(x, r) == {s \in Rows : r \in CalleeRows(x, s)}
a_callees(a) == tcalls[a] \cap Targets
a_callers(a) == {b \in Targets : a \in a_callees(b)}

SortedByIndex(x, r) ==
    \A e, f \in DOMAIN b_callees(x, r) :
        e < f => Before(x, b_callees(x, r)[e], b_callees(x, r)[f])

\* binary_search in a callee list: what it says of an element of a list that is
\* not sorted is unspecified
Finds(x, r, s) == s \in CalleeRows(x, r) /\ (SortedByIndex(x, r) \/ r \in lucky)

----------------------------------------------------------------------------
(* Scores and the assignment.                                              *)

\* dice overlap of the neighbours of a and r that P pairs
graph_score(x, P, a, r) ==
    LET partner(b) == {p.b : p \in {q \in P : q.a = b}}
        paired == {p.b : p \in P}
        n == Cardinality({b \in a_callees(a) : partner(b) # {}})
             + Cardinality({b \in a_callers(a) : partner(b) # {}})
             + Cardinality({e \in DOMAIN b_callees(x, r) : b_callees(x, r)[e] \in paired})
             + Cardinality(CallerRows(x, r) \cap paired)
        hit == Cardinality({b \in a_callees(a) : \E s \in partner(b) : Finds(x, r, s)})
               + Cardinality({b \in a_callers(a) : partner(b) \cap CallerRows(x, r) # {}})
    IN  IF n = 0 THEN 0 ELSE (2 * hit * Unit) \div n

Score(g, c) == look[c].sim + (Weight * g[c]) \div Unit

\* (mutant) the tie-break looks at the row's entry only
Outranks_NoLabel(g, c, d) ==
    \/ Score(g, c) > Score(g, d)
    \/ /\ Score(g, c) = Score(g, d)
       /\ \/ look[c].sim > look[d].sim
          \/ /\ look[c].sim = look[d].sim
             /\ c[1] < d[1] \/ (c[1] = d[1] /\ c[2].entry < d[2].entry)

\* higher score, higher similarity, lower entry, lower label and entry
Outranks(g, c, d) ==
    \/ Score(g, c) > Score(g, d)
    \/ /\ Score(g, c) = Score(g, d)
       /\ \/ look[c].sim > look[d].sim
          \/ /\ look[c].sim = look[d].sim
             /\ \/ c[1] < d[1]
                \/ c[1] = d[1] /\ c[2].group < d[2].group
                \/ c[1] = d[1] /\ c[2].group = d[2].group /\ c[2].entry < d[2].entry

\* (mutant) candidates are re-scored, not sorted again
Resort_Once(g, old) == old

\* the sort is stable: what Outranks does not separate keeps its place
Resort(g, old) ==
    LET place(c) == CHOOSE i \in 1..Len(old) : old[i] = c
        tied(c, d) == ~Outranks(g, c, d) /\ ~Outranks(g, d, c)
    IN  InRank({old[i] : i \in 1..Len(old)},
               LAMBDA c, d : Outranks(g, c, d) \/ (tied(c, d) /\ place(c) < place(d)))

Pair(g, c) == [a |-> c[1], b |-> c[2], sim |-> look[c].sim, graph |-> g[c],
               score |-> Min2(Score(g, c), Unit)]

\* (mutant) only the target's side is claimed
assign_greedy_ManyToOne(g, seq) ==
    {Pair(g, seq[i]) : i \in {n \in 1..Len(seq) : \A m \in 1..(n - 1) : seq[m][1] # seq[n][1]}}

\* best pair first, each side claimed once
assign_greedy(g, seq) == {Pair(g, c) : c \in Greedy(seq)}

----------------------------------------------------------------------------
\* without a weight the behavioural round is the only one
rounds == IF Weight > 0 THEN Rounds ELSE 0

Init ==
    /\ look \in Tables
    /\ tcalls \in TGraphs /\ ccalls \in CGraphs
    /\ lucky \in SUBSET {r \in Rows : \E x \in Orders : ~SortedByIndex(x, r)}
    /\ pc = [x \in Orders |-> "first"] /\ left = [x \in Orders |-> rounds]
    /\ cands = [x \in Orders |-> <<>>] /\ graph = [x \in Orders |-> <<>>]
    /\ assign = [x \in Orders |-> {}] /\ out = [x \in Orders |-> {}]

\* the second run starts when the first is over
Turn(x) == x = "swapped" => pc["asIndexed"] = "done"

\* the candidates, target by target and row by row
Collect(x) ==
    /\ pc[x] = "first" /\ Turn(x) /\ pc' = [pc EXCEPT ![x] = "assign"]
    /\ cands' = [cands EXCEPT ![x] = InRank(Pairs,
                    LAMBDA c, d : \/ c[1] < d[1]
                                  \/ c[1] = d[1] /\ Before(x, c[2], d[2]))]
    /\ graph' = [graph EXCEPT ![x] = [c \in Pairs |-> 0]]
    /\ UNCHANGED <<inputs, left, assign, out>>

\* re-score every candidate under the assignment
Rescore(x) ==
    /\ pc[x] = "score" /\ pc' = [pc EXCEPT ![x] = "assign"]
    /\ left' = [left EXCEPT ![x] = @ - 1]
    /\ graph' = [graph EXCEPT ![x] =
                    [c \in DOMAIN graph[x] |-> graph_score(x, assign[x], c[1], c[2])]]
    /\ UNCHANGED <<inputs, cands, assign, out>>

\* sort and assign; another round if one is left and the pairs or their scores
\* still moved (the behavioural round always counts as a move)
Assign(x) ==
    /\ pc[x] = "assign"
    /\ \E sorted \in {Resort(graph[x], cands[x])} :
          LET next == assign_greedy(graph[x], sorted)
          IN  /\ cands' = [cands EXCEPT ![x] = sorted]
              /\ assign' = [assign EXCEPT ![x] = next]
              /\ pc' = [pc EXCEPT ![x] =
                           IF left[x] > 0 /\ (left[x] = rounds \/ next # assign[x])
                           THEN "score" ELSE "accept"]
    /\ UNCHANGED <<inputs, left, graph, out>>

Accept(x) ==
    /\ pc[x] = "accept" /\ pc' = [pc EXCEPT ![x] = "done"]
    /\ out' = [out EXCEPT ![x] = {p \in assign[x] : p.score >= Threshold}]
    /\ UNCHANGED <<inputs, left, cands, graph, assign>>

Done == (\A x \in Orders : pc[x] = "done") /\ UNCHANGED vars

Next == Done \/ \E x \in Orders : Collect(x) \/ Assign(x) \/ Rescore(x) \/ Accept(x)
Spec == Init /\ [][Next]_vars
----------------------------------------------------------------------------
\* The graph score of a candidate is in [0,1] (Pair::graph, align.rs:92): no more
\* hits than either side has paired neighbours, which needs the assignment it is
\* computed from to be 1:1.
GraphInUnit == \A x \in Orders : \A c \in DOMAIN graph[x] : graph[x][c] \in 0..Unit

\* The pairs are 1:1 and best pair first: every candidate left out lost one of its
\* sides to a pair that ranks at least as high.
BestPairFirst ==
    \A x \in Orders : pc[x] \in {"score", "accept", "done"} =>
       /\ \A p, q \in assign[x] : (p.a = q.a \/ p.b = q.b) => p = q
       /\ \A c \in Pairs : \E p \in assign[x] :
             (p.a = c[1] \/ p.b = c[2]) /\ ~Outranks(graph[x], c, <<p.a, p.b>>)

\* what query_corpus tells of a pair
Shown(p) == [entry |-> p.a, binary |-> p.b.group, at |-> p.b.entry,
             sim |-> p.sim, graph |-> p.graph, score |-> p.score]

\* The answer is the same whichever batch was indexed first ("so the result never
\* depends on input order or hash iteration", align.rs:287).
OrderIndependent ==
    (\A x \in Orders : pc[x] = "done") =>
       {Shown(p) : p \in out["asIndexed"]} = {Shown(p) : p \in out["swapped"]}
----------------------------------------------------------------------------
(* The inductive invariant behind the theorems (AlignProofs).              *)

Paired == [a : Targets, b : Rows, sim : 0..Unit, graph : 0..Unit, score : 0..Unit]

TypeOK ==
    /\ look \in Tables /\ tcalls \in TGraphs /\ ccalls \in CGraphs
    /\ pc \in [Orders -> {"first", "assign", "score", "accept", "done"}]
    /\ left \in [Orders -> 0..rounds] /\ cands \in [Orders -> Seq(Targets \X Rows)]
    /\ graph \in [Orders -> {<<>>} \cup [Pairs -> 0..Unit]]
    /\ assign \in [Orders -> SUBSET Paired] /\ out \in [Orders -> SUBSET Paired]

OneToOne(P) == \A p, q \in P : (p.a = q.a \/ p.b = q.b) => p = q

\* every candidate is listed once
Lists(s) == /\ {s[i] : i \in 1..Len(s)} = Pairs
            /\ \A i, j \in 1..Len(s) : s[i] = s[j] => i = j

\* the scores are of the assignment before, which has to be 1:1 for them
ScoreInv ==
    \A x \in Orders :
       /\ pc[x] # "first" => graph[x] \in [Pairs -> 0..Unit] /\ Lists(cands[x])
       /\ OneToOne(assign[x])
       /\ pc[x] = "score" => left[x] > 0
       /\ pc[x] = "first" => graph[x] = <<>>

IInv == TypeOK /\ ScoreInv /\ BestPairFirst
=============================================================================

------------------------------- MODULE Report -------------------------------
(***************************************************************************)
(* What fnprint tells its user of two or three function lists: match (by   *)
(* name, or aligned when a side has no symbols), query, triage and eval    *)
(* (fnprint-core) over the index of an ELF or the rows of a corpus, and    *)
(* MemCorpus, the corpus in memory (fnprint-db).  Each command is a        *)
(* function of its lists: one step computes its report.                    *)
(*                                                                         *)
(* A print is its minhash signature, a sequence of SigLen slots, with a    *)
(* flag for too little signal (an empty effect stream has no complexity    *)
(* either).  Similarities and scores are in units of 1/Unit.               *)
(***************************************************************************)
EXTENDS Integers, Sequences, FiniteSets, Functions, Ranking

CONSTANTS
    Inputs,        \* commands with their lists: [cmd, a, b, c, aligned, fmt];
                   \* functions are elements of Function
    SigLen, BandRows, Unit,
    SameThresh, MinSim, Margin,                  \* verdicts
    Floor, Weight, Rounds,                       \* align's FLOOR and Opts
    MatchThresh, QueryThresh, EvalThresh         \* Opts::threshold of each caller

NoName == 0

\* one function of a list, NoName being one of the names
Function == [binary : Nat, name : Nat, entry : Nat, low : BOOLEAN,
             sig : [1..SigLen -> Nat], callees : SUBSET Nat]

\* entries ascend within a binary (the loader's list, the merged shards), and the
\* binaries of a corpus have labels of their own
InOrder(s) ==
    \A i, j \in 1..Len(s) : i < j =>
        /\ s[i].binary <= s[j].binary
        /\ s[i].binary = s[j].binary => s[i].entry < s[j].entry

\* load_index forgets the binary of a row, so a list that is not a corpus is one
\* scope of entries: it holds one binary here
OneBinary(s) == \A i, j \in 1..Len(s) : s[i].binary = s[j].binary

ASSUME ReportAssumption ==
    /\ SigLen \in Nat \ {0} /\ BandRows \in 1..SigLen /\ SigLen % BandRows = 0
    /\ Unit \in Nat \ {0} /\ Unit % SigLen = 0 /\ MinSim \in Int /\ Margin \in Int
    /\ Rounds \in Nat /\ Weight \in Nat /\ QueryThresh \in Int
    /\ {Floor, SameThresh, MatchThresh, EvalThresh} \subseteq 0..Unit
    /\ \A in \in Inputs : {in.a, in.b, in.c} \subseteq Seq(Function)
    /\ \A in \in Inputs : InOrder(in.a) /\ InOrder(in.b) /\ InOrder(in.c)
                       /\ OneBinary(in.a) /\ (in.cmd \in {"match", "eval"} => OneBinary(in.b))

VARIABLES input,    \* the command and its lists
          report    \* what it reports, Pending before

vars == <<input, report>>
Pending == [cmd |-> "pending"]

Lesser(x, y) == IF x < y THEN x ELSE y
Larger(x, y) == IF x < y THEN y ELSE x
SetMax(S) == CHOOSE x \in S : \A y \in S : y <= x
LastOf(S) == SetMax(S)
FirstOf(S) == CHOOSE x \in S : \A y \in S : x <= y

----------------------------------------------------------------------------
(* Prints and the corpus in memory.                                        *)

\* equal slots
similarity(f, g) ==
    Cardinality({i \in 1..SigLen : f.sig[i] = g.sig[i]}) * (Unit \div SigLen)

usable(f) == ~f.low

Bands == SigLen \div BandRows

\* the signature cut in bands of BandRows slots, each with its place
band_keys(f) ==
    {<<n, [i \in 1..BandRows |-> f.sig[n * BandRows + i]]>> : n \in 0..(Bands - 1)}

SharesBand(f, g) == band_keys(f) \cap band_keys(g) # {}

\* (mutant) a candidate shares every band
candidates_AllBands(db, f) == {r \in Range(db) : band_keys(r) = band_keys(f)}

\* MemCorpus::candidates: the rows that share a band
candidates(db, f) == {r \in Range(db) : SharesBand(f, r)}

named(s) == At(s, {i \in 1..Len(s) : s[i].name # NoName})

\* the most similar named row with signal, of those that share a band or, if none
\* at all does, of all named rows; twins by the smaller name
best_in_corpus(f, db) ==
    LET cands == candidates(db, f)
        pool == IF cands = {} THEN Range(db) ELSE cands
        rows == {r \in pool : usable(r) /\ r.name # NoName}
        best == {r \in rows : \A s \in rows : similarity(f, s) <= similarity(f, r)}
    IN  IF rows = {} THEN [sim |-> 0, name |-> NoName]
        ELSE LET r == CHOOSE r \in best : \A s \in best : r.name <= s.name
             IN  [sim |-> similarity(f, r), name |-> r.name]

----------------------------------------------------------------------------
(* align (see Align for its steps): a to b, 1:1, in a behavioural round    *)
(* and up to Rounds rounds under the call graph.  Stopping when nothing    *)
(* moved changes nothing, the next round would be the same.                *)

\* like the corpus in memory, but over the rows with signal only
Cands(a, b) ==
    LET B == {j \in 1..Len(b) : usable(b[j])}
        seen(i) == {j \in B : SharesBand(a[i], b[j])}
        pool(i) == IF seen(i) = {} THEN B ELSE seen(i)
    IN  UNION {{<<i, j>> : j \in {k \in pool(i) : similarity(a[i], b[k]) >= Floor}} :
                  i \in {k \in 1..Len(a) : usable(a[k])}}

callees(s, i) == {j \in 1..Len(s) : s[j].binary = s[i].binary /\ s[j].entry \in s[i].callees}
callers(s, j) == {i \in 1..Len(s) : j \in callees(s, i)}

graph_score(a, b, P, c) ==
    LET at(S) == {i \in S : \E p \in P : p[1] = i}
        bt(S) == {j \in S : \E p \in P : p[2] = j}
        hit(S, T) == Cardinality({i \in S : \E j \in T : <<i, j>> \in P})
        n == Cardinality(at(callees(a, c[1]))) + Cardinality(at(callers(a, c[1])))
             + Cardinality(bt(callees(b, c[2]))) + Cardinality(bt(callers(b, c[2])))
    IN  IF n = 0 THEN 0
        ELSE (2 * (hit(callees(a, c[1]), callees(b, c[2]))
                   + hit(callers(a, c[1]), callers(b, c[2]))) * Unit) \div n

Sim(a, b, c) == similarity(a[c[1]], b[c[2]])
Weighed(a, b, g, c) == Sim(a, b, c) + (Weight * g[c]) \div Unit

\* score, similarity, then the order of the lists (entries ascend)
Outranks(a, b, g, c, d) ==
    \/ Weighed(a, b, g, c) > Weighed(a, b, g, d)
    \/ /\ Weighed(a, b, g, c) = Weighed(a, b, g, d)
       /\ \/ Sim(a, b, c) > Sim(a, b, d)
          \/ /\ Sim(a, b, c) = Sim(a, b, d)
             /\ c[1] < d[1] \/ (c[1] = d[1] /\ c[2] < d[2])

assign_greedy(a, b, C, g) == Greedy(InRank(C, LAMBDA c, d : Outranks(a, b, g, c, d)))

\* one round: the candidates scored by g, and the pairs
Round(a, b, C, g) == [graph |-> g, pairs |-> assign_greedy(a, b, C, g)]

align(a, b, threshold) ==
    LET C == Cands(a, b)
        round[n \in 0..Rounds] ==
            IF n = 0 THEN Round(a, b, C, [c \in C |-> 0])
            ELSE LET P == round[n - 1].pairs
                 IN  Round(a, b, C, [c \in C |-> graph_score(a, b, P, c)])
        last == round[IF Weight > 0 THEN Rounds ELSE 0]
        score(c) == Lesser(Unit, Weighed(a, b, last.graph, c))
    IN  {[a |-> c[1], b |-> c[2], sim |-> Sim(a, b, c), graph |-> last.graph[c], score |-> score(c)] :
             c \in {p \in last.pairs : score(p) >= threshold}}

----------------------------------------------------------------------------
(* match.                                                                  *)

both_named(a, b) == named(a) # <<>> /\ named(b) # <<>>

\* name -> function: of several with one name the last
ByName(s) == [n \in {s[i].name : i \in 1..Len(s)} \ {NoName} |->
                 s[LastOf({i \in 1..Len(s) : s[i].name = n})]]

\* (mutant) of several with one name the first, on the second side
ByName_First(s) == [n \in {s[i].name : i \in 1..Len(s)} \ {NoName} |->
                 s[FirstOf({i \in 1..Len(s) : s[i].name = n})]]

\* (mutant) the sides keep different namesakes
match_by_name_Namesakes(a, b) ==
    LET A == ByName(a)
        B == ByName_First(b)
        both == DOMAIN A \cap DOMAIN B
        judged == {n \in both : usable(A[n]) /\ usable(B[n])}
        same == {n \in judged : similarity(A[n], B[n]) >= SameThresh}
    IN  [cmd |-> "match", aligned |-> FALSE, compared |-> Cardinality(both),
         low_signal |-> Cardinality(both \ judged), same |-> Cardinality(same),
         changed |-> judged \ same,
         only_a |-> DOMAIN A \ DOMAIN B, only_b |-> DOMAIN B \ DOMAIN A]

match_by_name(a, b) ==
    LET A == ByName(a)
        B == ByName(b)
        both == DOMAIN A \cap DOMAIN B
        judged == {n \in both : usable(A[n]) /\ usable(B[n])}
        same == {n \in judged : similarity(A[n], B[n]) >= SameThresh}
    IN  [cmd |-> "match", aligned |-> FALSE, compared |-> Cardinality(both),
         low_signal |-> Cardinality(both \ judged), same |-> Cardinality(same),
         changed |-> judged \ same,
         only_a |-> DOMAIN A \ DOMAIN B, only_b |-> DOMAIN B \ DOMAIN A]

match_aligned(a, b) ==
    LET P == align(a, b, MatchThresh)
        same == {p \in P : p.sim >= SameThresh}
    IN  [cmd |-> "match", aligned |-> TRUE, compared |-> Cardinality(P),
         low_signal |-> Cardinality({i \in 1..Len(a) : ~usable(a[i])}),
         same |-> Cardinality(same), changed |-> {<<p.a, p.b>> : p \in P \ same},
         only_a |-> {i \in 1..Len(a) : usable(a[i]) /\ \A p \in P : p.a # i},
         only_b |-> {j \in 1..Len(b) : usable(b[j]) /\ \A p \in P : p.b # j}]

cmd_match(in) ==
    IF in.aligned \/ ~both_named(in.a, in.b)
    THEN match_aligned(in.a, in.b) ELSE match_by_name(in.a, in.b)

----------------------------------------------------------------------------
(* query and triage.                                                       *)

\* the rows without a name take no part
cmd_query(in) ==
    LET recs == named(in.b)
    IN  [cmd |-> "query",
         guesses |-> {[entry |-> in.a[p.a].entry, guess |-> recs[p.b].name,
                       from_binary |-> recs[p.b].binary, sim |-> p.sim,
                       graph |-> p.graph, score |-> p.score] :
                         p \in align(in.a, recs, QueryThresh)}]

verdict(v, p) ==
    IF Larger(v, p) < MinSim THEN "inconclusive"
    ELSE IF v - p >= Margin THEN "vulnerable"
    ELSE IF p - v >= Margin THEN "patched" ELSE "inconclusive"

TriageHit(f, vuln, patched) ==
    LET v == best_in_corpus(f, vuln)
        p == best_in_corpus(f, patched)
    IN  [entry |-> f.entry, vuln |-> v, patched |-> p, verdict |-> verdict(v.sim, p.sim)]

\* (mutant) what an earlier function was given is not given again
triage_OneToOne(target, vuln, patched) ==
    LET U == {i \in 1..Len(target) : usable(target[i])}
        given(i, db) == {best_in_corpus(target[m], db).name : m \in {n \in U : n < i}}
        left(i, db) == At(db, {j \in 1..Len(db) : db[j].name \notin given(i, db)})
    IN  {TriageHit(target[i], left(i, vuln), left(i, patched)) : i \in U}

\* not 1:1: two behavioural twins may have the same best row
triage(target, vuln, patched) == {TriageHit(f, vuln, patched) : f \in {g \in Range(target) : usable(g)}}

\* Vulnerable first, then Inconclusive, then Patched; strongest lead, entry
ReviewOrder(x, y) ==
    LET rank(h) == IF h.verdict = "vulnerable" THEN 0 ELSE IF h.verdict = "patched" THEN 2 ELSE 1
        key(h) == <<rank(h), 0 - h.vuln.sim, h.entry>>
    IN  \E k \in 1..3 : key(x)[k] < key(y)[k] /\ \A m \in 1..(k - 1) : key(x)[m] = key(y)[m]

cmd_triage(in) ==
    [cmd |-> "triage", hits |-> InRank(triage(in.a, in.b, in.c), ReviewOrder)]

----------------------------------------------------------------------------
(* eval: how well a's functions find their namesakes in b.                 *)

bsig(b) == At(b, {i \in 1..Len(b) : usable(b[i]) /\ b[i].name # NoName})

\* b by falling similarity to f, ties in list order
Ranked(f, b) ==
    LET order == InRank(1..Len(b), LAMBDA i, j :
                    \/ similarity(f, b[i]) > similarity(f, b[j])
                    \/ similarity(f, b[i]) = similarity(f, b[j]) /\ i < j)
    IN  [k \in 1..Len(b) |-> b[order[k]]]

\* one scored function: its 1-based rank, the top-1 call and the aligned pair
Score(a, b, P, i) ==
    LET f == a[i]
        ranked == Ranked(f, bsig(b))
        mine == {p \in P : p.a = i}
    IN  [entry |-> f.entry,
         rank |-> FirstOf({k \in 1..Len(ranked) : ranked[k].name = f.name}),
         predicted_same |-> similarity(f, ranked[1]) >= SameThresh,
         correct |-> ranked[1].name = f.name,
         paired |-> mine # {},
         align_correct |-> \E p \in mine : b[p.b].name = f.name,
         accepted |-> \E p \in mine : p.score >= SameThresh]

cmd_eval(in) ==
    LET P == align(in.a, in.b, EvalThresh)
        twins == {f.name : f \in Range(bsig(in.b))}
        scored == {Score(in.a, in.b, P, i) :
                      i \in {k \in 1..Len(in.a) : usable(in.a[k]) /\ in.a[k].name \in twins}}
        count(Op(_)) == Cardinality({s \in scored : Op(s)})
    IN  [cmd |-> "eval", scored |-> Cardinality(scored), rows |-> scored,
         rank1 |-> count(LAMBDA s : s.correct),
         abstained |-> count(LAMBDA s : ~s.predicted_same),
         tp |-> count(LAMBDA s : s.predicted_same /\ s.correct),
         fp |-> count(LAMBDA s : s.predicted_same /\ ~s.correct),
         fn_ |-> count(LAMBDA s : ~s.predicted_same /\ s.correct),
         align_correct |-> count(LAMBDA s : s.align_correct),
         align_paired |-> count(LAMBDA s : s.paired),
         align_tp |-> count(LAMBDA s : s.accepted /\ s.align_correct),
         align_fp |-> count(LAMBDA s : s.accepted /\ ~s.align_correct)]

----------------------------------------------------------------------------
Init == input \in Inputs /\ report = Pending

Run(cmd, Op(_)) == /\ report = Pending /\ input.cmd = cmd
                   /\ report' = Op(input) /\ UNCHANGED input

\* a rizin script can only be made of names for the target's functions
Refused == [cmd |-> "refused"]
NoScript(cmd) == /\ report = Pending /\ input.cmd = cmd /\ input.fmt = "r2"
                 /\ report' = Refused /\ UNCHANGED input

Match == NoScript("match") \/ (input.fmt # "r2" /\ Run("match", cmd_match))
Query == Run("query", cmd_query)
Triage == Run("triage", cmd_triage)
Eval == NoScript("eval") \/ (input.fmt # "r2" /\ Run("eval", cmd_eval))
Done == report # Pending /\ UNCHANGED vars

Next == Match \/ Query \/ Triage \/ Eval \/ Done
Spec == Init /\ [][Next]_vars
----------------------------------------------------------------------------
Unnamed(s) == [i \in 1..Len(s) |-> [s[i] EXCEPT !.name = NoName]]
AllNamed(s) == \A i \in 1..Len(s) : s[i].name # NoName
SameBuild == Unnamed(input.a) = Unnamed(input.b)
Usables(s) == {i \in 1..Len(s) : usable(s[i])}

\* A build compared with itself is clean, whatever its twins, namesakes and call
\* graph: match reports no change, by name or aligned with its stripped copy; query
\* gives every function of the stripped copy its own name; and eval pairs every
\* function right and ranks it behind none but its twins.
SelfComparisonIsClean ==
    SameBuild =>
       /\ report.cmd = "match" /\ (report.aligned \/ input.a = input.b) =>
             report.changed = {} /\ report.only_a = {} /\ report.only_b = {}
       /\ report.cmd = "query" /\ AllNamed(input.b) =>
             {<<g.entry, g.guess>> : g \in report.guesses}
                = {<<input.b[i].entry, input.b[i].name>> : i \in Usables(input.b)}
       /\ report.cmd = "eval" /\ input.a = input.b =>
             /\ report.align_correct = report.scored
             /\ \A s \in report.rows : \E i \in Usables(input.a) :
                   /\ input.a[i].entry = s.entry
                   /\ s.rank <= Cardinality({j \in Usables(input.b) :
                                                input.b[j].sig = input.a[i].sig})

\* the best similarity that an exhaustive search of db would find
Closest(f, db) ==
    SetMax({0} \cup {similarity(f, r) : r \in {s \in Range(db) : usable(s) /\ s.name # NoName}})
ExactUnlessHidden(f, db, best) ==
    /\ best.sim <= Closest(f, db)
    /\ Closest(f, db) > Unit - Bands * (Unit \div SigLen) \/ candidates(db, f) = {} =>
          best.sim = Closest(f, db)

\* The banding hides no close row: the best of a corpus is never better than what an
\* exhaustive search finds, and as good when the closest named row with signal differs
\* in fewer slots than there are bands, or when no row at all shares a band.  In every
\* other case a row that shares one, weak, unnamed or without signal, may hide it.
NoCloseRowIsMissed ==
    report.cmd = "triage" =>
       \A k \in 1..Len(report.hits) :
          LET h == report.hits[k]
              f == CHOOSE g \in Range(input.a) : g.entry = h.entry
          IN  ExactUnlessHidden(f, input.b, h.vuln) /\ ExactUnlessHidden(f, input.c, h.patched)

Flip(v) == IF v = "vulnerable" THEN "patched"
           ELSE IF v = "patched" THEN "vulnerable" ELSE v
Exchanged(h) == [entry |-> h.entry, vuln |-> h.patched, patched |-> h.vuln,
                 verdict |-> Flip(h.verdict)]

Lead(f, db) == \E r \in Range(db) : usable(r) /\ r.name # NoName /\ similarity(f, r) >= MinSim
\* what triage finds of f; an unusable one has no hit
HitsOf(f) == {h \in Range(report.hits) : h.entry = f.entry}

\* Triage takes no side: with the corpora exchanged every function has the opposite
\* verdict; twins in the target find the same on both sides; a function that both
\* corpora hold unchanged is inconclusive; and a verdict for a side rests on a named
\* row of that side that is similar enough.  Code: no 1:1 pass ("hands the twin to one
\* of them and leaves the other with a 0% side and a bogus +100 margin").
TriageIsEven ==
    report.cmd = "triage" =>
       /\ {Exchanged(h) : h \in Range(report.hits)} = triage(input.a, input.c, input.b)
       /\ \A f, g \in Range(input.a) : usable(f) /\ usable(g) /\ f.sig = g.sig =>
             \A h \in HitsOf(f), i \in HitsOf(g) : [h EXCEPT !.entry = i.entry] = i
       /\ \A f \in Range(input.a), r \in Range(input.b), s \in Range(input.c) :
             /\ f.sig = r.sig /\ f.sig = s.sig /\ usable(f) /\ usable(r) /\ usable(s)
             /\ r.name # NoName /\ s.name # NoName
             => \E h \in HitsOf(f) : h.verdict = "inconclusive"
       /\ \A f \in Range(input.a) : \A h \in HitsOf(f) :
             /\ h.verdict = "vulnerable" => Lead(f, input.b)
             /\ h.verdict = "patched" => Lead(f, input.c)
=============================================================================

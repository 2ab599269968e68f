------------------------------ MODULE Ranking ------------------------------
(***************************************************************************)
(* What Align, Report and Loader share: sorting a set, filtering a list,   *)
(* and the greedy choice of align::assign_greedy (fnprint-core).           *)
(***************************************************************************)
EXTENDS Integers, Sequences, FiniteSets

\* the elements of S in the strict total order Op
InRank(S, Op(_, _)) ==
    LET before == [c \in S |-> Cardinality({d \in S : Op(d, c)})]
    IN  [i \in 1..Cardinality(S) |-> CHOOSE c \in S : before[c] = i - 1]

\* the elements of s at the places I, in the order of s
At(s, I) ==
    LET place == InRank(I, LAMBDA i, j : i < j)
    IN  [k \in 1..Cardinality(I) |-> s[place[k]]]

\* the pair c is claimed unless one of its sides is taken
Claim(taken, c) ==
    IF \E p \in taken : p[1] = c[1] \/ p[2] = c[2] THEN taken ELSE taken \cup {c}

\* one pass over the pairs of seq, each side claimed once
Greedy(seq) ==
    LET taken[i \in 0..Len(seq)] ==
            IF i = 0 THEN {} ELSE Claim(taken[i - 1], seq[i])
    IN  taken[Len(seq)]
=============================================================================

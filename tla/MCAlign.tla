------------------------------ MODULE MCAlign ------------------------------
(* Three target functions, the last two behavioural twins, against three     *)
(* rows: a binary of two functions and another of one, under their own       *)
(* labels or, in the second instance, under the same one.                    *)
EXTENDS Align
Row(b, g, e) == [batch |-> b, group |-> g, entry |-> e]
OwnLabels == {Row(1, 1, 1), Row(1, 1, 2), Row(2, 2, 1)}
SameLabel == {Row(1, 1, 1), Row(1, 1, 2), Row(2, 1, 1)}
\* below FLOOR; a borderline and a good similarity, with and without a band
Looks == {[sim |-> 6, band |-> FALSE], [sim |-> 30, band |-> FALSE],
          [sim |-> 30, band |-> TRUE], [sim |-> 42, band |-> TRUE]}
MCTables == {[c \in Targets \X Rows |-> t[Min2(c[1], 2), c[2]]] :
                t \in [{1, 2} \X Rows -> Looks]}
\* the first function calls one or both of the twins
MCTGraphs == {[a \in Targets |-> IF a = 1 THEN s ELSE {}] : s \in {{2}, {2, 3}}}
\* a call of the second function, or mutual calls
MCCGraphs == {[r \in Rows |-> g[r.entry]] : g \in {<<{2}, {}>>, <<{2}, {1}>>}}
=============================================================================

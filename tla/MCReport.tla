------------------------------ MODULE MCReport ------------------------------
(* Signatures of six slots in two bands of three, among them one that shares *)
(* a band with Base and is less like it than one that shares none.  Builds   *)
(* of three functions, with every print, twins and namesakes among them,     *)
(* over a few call graphs; triage of one function, and of one with a twin,   *)
(* another and one without signal, by every pair of corpora of up to two     *)
(* rows.                                                                     *)
EXTENDS Report

\* all alike, and to that: one slot off, one band off, a slot off in each band, all off
Base == <<1, 1, 1, 1, 1, 1>>
Near == <<1, 1, 1, 1, 1, 2>>
BandOff == <<1, 1, 1, 2, 2, 2>>
NoBand == <<1, 1, 2, 1, 1, 2>>
Far == <<2, 2, 2, 2, 2, 2>>
Sigs == {Base, Near, BandOff, NoBand, Far}

Fn(bin, n, e, lo, s, cs) ==
    [binary |-> bin, name |-> n, entry |-> e, low |-> lo, sig |-> s, callees |-> cs]

Graphs3 == {<<{}, {}, {}>>, <<{2}, {}, {}>>, <<{3}, {}, {}>>, <<{2}, {3}, {}>>, <<{3}, {1}, {1, 2}>>}
Build(n, lo, s, g) == [i \in 1..3 |-> Fn(1, n[i], i, lo[i], s[i], g[i])]
NoLow == <<FALSE, FALSE, FALSE>>
Names3 == {<<1, 2, 3>>, <<1, 1, 2>>, <<2, 0, 1>>}
Builds == {Build(n, lo, s, g) : n \in Names3, lo \in {NoLow, <<FALSE, TRUE, FALSE>>},
                                s \in {t \in [1..3 -> Sigs] : t[1] = Base}, g \in Graphs3}
Others == {Build(<<1, 3, 2>>, NoLow, <<Base, s, BandOff>>, g) :
              s \in Sigs, g \in {<<{2}, {}, {}>>, <<{}, {}, {}>>}}

Command(cmd, a, b, c, al) == [cmd |-> cmd, a |-> a, b |-> b, c |-> c, aligned |-> al, fmt |-> "human"]

Selves == {Command(cmd, a, a, <<>>, FALSE) : cmd \in {"match", "query", "eval"}, a \in Builds}
          \cup {Command(cmd, Unnamed(a), a, <<>>, FALSE) : cmd \in {"match", "query"}, a \in Builds}
Pairs == {Command(cmd, a, b, <<>>, al) : cmd \in {"match", "query", "eval"}, a \in Others,
                                         b \in Others, al \in BOOLEAN}

Row(bin, r) == Fn(bin, r[1], bin, r[2], r[3], {})
RowKinds == {<<n, FALSE, s>> : n \in {1, 2}, s \in Sigs \ {Far}}
            \cup {<<0, FALSE, BandOff>>, <<1, TRUE, Base>>}
Corpora == {<<>>} \cup {<<Row(1, r)>> : r \in RowKinds}
           \cup {<<Row(1, r), Row(2, s)>> : r, s \in RowKinds}
Target1 == <<Fn(1, 0, 1, FALSE, Base, {})>>
Target2 == <<Fn(1, 0, 1, FALSE, Base, {}), Fn(1, 0, 2, FALSE, Base, {}),
             Fn(1, 0, 3, FALSE, NoBand, {}), Fn(1, 0, 4, TRUE, Base, {})>>
Triages == {Command("triage", t, v, p, FALSE) : t \in {Target1, Target2},
                                                v \in Corpora, p \in Corpora}

Scripts == {[in EXCEPT !.fmt = "r2"] : in \in {p \in Pairs : p.a = p.b}}

MCInputs == Selves \cup Pairs \cup Triages \cup Scripts
=============================================================================

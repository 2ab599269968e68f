--------------------------- MODULE MCCorpusStore ---------------------------
(* Two runs of `fnprint index -o` with two prints each, on the same file,   *)
(* which passes the row budget when both add to an earlier row.             *)
EXTENDS CorpusStore
CONSTANTS w1, w2, r1
TwoWriters == {w1, w2}
OneReader == {r1}
=============================================================================

----------------------------- MODULE CorpusFile -----------------------------
(***************************************************************************)
(* What a corpus .db promises to whoever reads it: it grows by the whole   *)
(* index of one binary at a time (Db::insert_all), in order, and nothing   *)
(* is ever removed from it.                                                *)
(***************************************************************************)
EXTENDS Sequences

CONSTANT Batches   \* the sequences of rows an index run may store

VARIABLE rows

Init == rows \in Batches \cup {<<>>}   \* a new file, or one indexed earlier

Append_batch(b) == rows' = rows \o b

Next == \E b \in Batches : Append_batch(b)

Spec == Init /\ [][Next]_rows
=============================================================================

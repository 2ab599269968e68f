-------------------------- MODULE CorpusStoreProofs --------------------------
(* Safety of the corpus file for any number of writers and readers, any     *)
(* batch length and any row budget, under failures and crashes at every     *)
(* statement.                                                               *)
EXTENDS CorpusStore, SequenceTheorems, FiniteSetTheorems, TLAPS

----------------------------------------------------------------------------
(* Batches.                                                                *)

\* a batch holds each of its writer's rows, in order
LEMMA BatchRows ==
    ASSUME NEW w \in Writers
    PROVE  /\ Batch(w) \in Seq(Row) /\ Len(Batch(w)) = BatchLen
           /\ \A i \in 1..BatchLen : Batch(w)[i] = <<w, i>>
           /\ Range(Batch(w)) = {<<w, i>> : i \in 1..BatchLen}
           /\ SubSeq(Batch(w), 1, BatchLen) = Batch(w)
  <1> USE StoreAssumption
  <1>1. Batch(w) \in Seq(Row) /\ Len(Batch(w)) = BatchLen
    BY DEF Batch, Row
  <1>2. \A i \in 1..BatchLen : Batch(w)[i] = <<w, i>>
    BY DEF Batch
  <1>3. Range(Batch(w)) = {<<w, i>> : i \in 1..BatchLen}
    BY DEF Batch, Range
  <1> QED
    BY <1>1, <1>2, <1>3, SubSeqFull

\* the corpora a run may find are sequences of rows
LEMMA NoRows == <<>> \in Seq(Row) /\ <<OldRow>> \in Seq(Row)
  <1>1. <<>> \in Seq(Row)
    BY EmptySeq
  <1>2. OldRow \in Row
    BY DEF Row
  <1>3. \A S, x : x \in S => <<x>> \in Seq(S)
    OBVIOUS
  <1> QED
    BY <1>1, <1>2, <1>3

\* a part of a batch is still a sequence of rows
LEMMA PartOfBatch ==
    ASSUME NEW w \in Writers, NEW n \in 0..BatchLen
    PROVE  SubSeq(Batch(w), 1, n) \in Seq(Row)
  BY BatchRows, StoreAssumption, SubSeqProperties

\* COMMIT appends the writer's whole batch, and its band rows with it
LEMMA CommitAppends ==
    ASSUME IInv, NEW w \in Writers, Commit(w)
    PROVE  rows' = rows \o Batch(w) /\ bands' = bands \cup Range(Batch(w))
  <1>1. banded[w] = BatchLen /\ staged[w] = BatchLen
    BY StoreAssumption DEF Commit, Goto, IInv, TypeOK, BatchInv
  <1> QED
    BY <1>1, BatchRows DEF Commit

----------------------------------------------------------------------------
(* The invariant.                                                          *)

LEMMA InitInv == Init => IInv
  <1> SUFFICES ASSUME Init PROVE IInv
    OBVIOUS
  <1> USE StoreAssumption
  <1>1. rows \in Seq(Row) /\ rows \in {<<>>, <<OldRow>>}
    BY NoRows DEF Init
  <1>2. Range(rows) = bands /\ bands \subseteq {OldRow} /\ Range(view) = {}
    BY <1>1 DEF Init, Range
  <1>3. TypeOK
    <2>1. pc \in [Procs -> Opening] /\ lock = NoOne /\ hot \in BOOLEAN /\ schema \in SUBSET FullSchema
      BY DEF Init, Opening, FullSchema
    <2>2. staged \in [Writers -> 0..BatchLen] /\ banded \in [Writers -> 0..BatchLen]
      BY DEF Init
    <2>3. spilled = <<>> /\ view = <<>> /\ bands \in SUBSET Row
      BY <1>2 DEF Init, Row
    <2> QED
      BY <1>1, <2>1, <2>2, <2>3, NoRows DEF TypeOK
  <1>4. SchemaInv /\ BatchInv
    BY DEF Init, SchemaInv, BatchInv, Opening, Procs
  <1>5. RowsInv
    <2>1. \A w \in Writers, k \in 1..BatchLen : ~Stored(w, k, rows)
      BY <1>2 DEF Stored, OldRow
    <2> QED
      BY <1>1, <2>1 DEF Init, RowsInv, Procs
  <1>6. ReadersSeeWholeBatches
    BY <1>2 DEF ReadersSeeWholeBatches, WholeBatches
  <1> QED
    BY <1>2, <1>3, <1>4, <1>5, <1>6 DEF IInv, EveryRowIsBanded

\* Db::init's statements add to the schema what the next one needs
LEMMA OpenKeepsInv == ASSUME IInv, NEW p \in Procs, Open(p) PROVE IInv'
  <1> USE StoreAssumption DEF Open, CreateTables, Create, CountColumns, AddCallees, Goto, Access
  <1>1. /\ UNCHANGED <<staged, banded, lock, rows, bands, view>>
        /\ \E to \in Opening : pc' = [pc EXCEPT ![p] = to]
        /\ pc[p] \in Opening
    BY DEF Opening
  <1>2. TypeOK'
    BY <1>1, NoRows DEF IInv, TypeOK, FullSchema
  <1>3. SchemaInv'
    BY DEF IInv, TypeOK, SchemaInv, FullSchema
  <1>4. BatchInv' /\ RowsInv'
    BY <1>1 DEF IInv, TypeOK, BatchInv, RowsInv, Opening
  <1> QED
    BY <1>1, <1>2, <1>3, <1>4
       DEF IInv, EveryRowIsBanded, ReadersSeeWholeBatches

\* a transaction before its COMMIT touches nothing that is committed
LEMMA InsertKeepsInv ==
    ASSUME IInv, NEW w \in Writers, Begin(w) \/ Insert(w) \/ Spill(w) \/ PrintSummary(w)
    PROVE  IInv'
  <1> USE StoreAssumption DEF IInv, Goto, Access, Unlocked
  <1>1. UNCHANGED <<schema, rows, bands, view>>
    BY DEF Begin, Insert, Spill, PrintSummary, file, local
  <1>2. TypeOK'
    <2>1. CASE Begin(w) \/ PrintSummary(w)
      BY <2>1 DEF TypeOK, Begin, PrintSummary, file, Opening, Ended
    <2>2. CASE Insert(w)
      <3>1. lock' = w /\ spilled' \in {spilled, <<>>} /\ hot' = FALSE
        BY <2>2 DEF Insert
      <3>2. staged' \in [Writers -> 0..BatchLen]
        <4>1. staged' = staged \/ (staged[w] < BatchLen /\ staged' = [staged EXCEPT ![w] = @ + 1])
          BY <2>2 DEF Insert
        <4>2. staged \in [Writers -> 0..BatchLen] /\ (staged[w] < BatchLen => staged[w] + 1 \in 0..BatchLen)
          BY DEF TypeOK
        <4> QED
          BY <4>1, <4>2
      <3>3. banded' \in [Writers -> 0..BatchLen]
        <4>1. banded' = banded \/ (banded[w] < staged[w] /\ banded' = [banded EXCEPT ![w] = @ + 1])
          BY <2>2 DEF Insert
        <4> QED
          BY <4>1 DEF TypeOK
      <3>4. pc' \in [Procs -> Opening \cup {"insert", "commit", "print"} \cup Ended]
        <4>1. pc' = pc \/ \E to \in {"insert", "commit"} : pc' = [pc EXCEPT ![w] = to]
          BY <2>2 DEF Insert
        <4> QED
          BY <4>1 DEF TypeOK
      <3> QED
        BY <1>1, <3>1, <3>2, <3>3, <3>4, NoRows DEF TypeOK
    <2>3. CASE Spill(w)
      <3>1. spilled' \in Seq(Row)
        <4>1. Len(spilled) + 1 \in 0..BatchLen
          BY <2>3, LenProperties DEF TypeOK, Spill
        <4> QED
          BY <2>3, <4>1, PartOfBatch DEF Spill
      <3> QED
        BY <2>3, <3>1 DEF TypeOK, Spill, local
    <2> QED
      BY <2>1, <2>2, <2>3
  <1>3. SchemaInv'
    BY <1>1 DEF SchemaInv, Begin, Insert, Spill, PrintSummary, local, TypeOK, Procs
  <1>4. BatchInv'
    BY DEF BatchInv, TypeOK, Begin, Insert, Spill, PrintSummary, local, Opening, Procs
  <1>5. RowsInv'
    BY <1>1 DEF RowsInv, TypeOK, Begin, Insert, Spill, PrintSummary, local, Procs
  <1> QED
    BY <1>1, <1>2, <1>3, <1>4, <1>5 DEF EveryRowIsBanded, ReadersSeeWholeBatches

\* COMMIT: the batch was not there yet, and now is there once
LEMMA CommitKeepsInv == ASSUME IInv, NEW w \in Writers, Commit(w) PROVE IInv'
  <1> USE StoreAssumption
  <1> DEFINE B == Batch(w)
  <1>1. /\ rows' = rows \o B /\ bands' = bands \cup Range(B)
        /\ pc[w] = "commit" /\ pc' = [pc EXCEPT ![w] = "print"] /\ lock = w /\ lock' = NoOne
        /\ spilled' = <<>> /\ UNCHANGED <<staged, banded, schema, hot, view>>
    BY CommitAppends DEF Commit, Goto
  <1>2. /\ B \in Seq(Row) /\ Len(B) = BatchLen /\ \A i \in 1..BatchLen : B[i] = <<w, i>>
        /\ Range(B) = {<<w, i>> : i \in 1..BatchLen}
    BY BatchRows
  <1>3. rows \in Seq(Row) /\ w \in Procs
    BY DEF IInv, TypeOK, Procs
  <1> HIDE DEF B
  <1>4. Range(rows') = Range(rows) \cup Range(B)
    BY <1>1, <1>2, <1>3, RangeConcatenation
  <1>5. TypeOK'
    <2>1. rows' \in Seq(Row) /\ bands' \in SUBSET Row
      BY <1>1, <1>2, <1>3, ConcatProperties DEF IInv, TypeOK, Row
    <2> QED
      BY <1>1, <2>1, NoRows DEF IInv, TypeOK
  <1>6. SchemaInv' /\ BatchInv'
    BY <1>1, <1>3 DEF IInv, TypeOK, SchemaInv, BatchInv, Opening, Procs
  <1>7. RowsInv'
    <2>1. \A k \in 1..BatchLen : ~Stored(w, k, rows)
      BY <1>1 DEF IInv, RowsInv
    <2>2. \A v \in Writers, k \in 1..BatchLen : Stored(v, k, rows') <=> v = w \/ Stored(v, k, rows)
      BY <1>2, <1>4 DEF Stored
    <2>3. ASSUME NEW i \in 1..Len(rows'), NEW j \in 1..Len(rows'), rows'[i] = rows'[j], i < j
          PROVE  FALSE
      <3>1. /\ Len(rows') = Len(rows) + BatchLen /\ Len(rows) \in Nat
            /\ \A m \in 1..Len(rows) : rows'[m] = rows[m] /\ rows[m] \in Range(rows)
            /\ \A m \in (Len(rows) + 1)..Len(rows') : rows'[m] = <<w, m - Len(rows)>>
        <4>1. Len(rows) \in Nat /\ Len(rows') = Len(rows) + BatchLen
          BY <1>1, <1>2, <1>3, ConcatProperties, LenProperties
        <4>2. \A m \in 1..Len(rows) : rows'[m] = rows[m] /\ rows[m] \in Range(rows)
          BY <1>1, <1>2, <1>3, RangeEquality
        <4>3. \A m \in (Len(rows) + 1)..Len(rows') : rows'[m] = <<w, m - Len(rows)>>
          BY <1>1, <1>2, <1>3, <4>1
        <4> QED
          BY <4>1, <4>2, <4>3
      <3>2. CASE j <= Len(rows)
        BY <2>3, <3>1, <3>2 DEF IInv, RowsInv
      <3>3. CASE i <= Len(rows) /\ j > Len(rows)
        <4>1. j - Len(rows) \in 1..BatchLen /\ <<w, j - Len(rows)>> \in Range(rows)
          BY <2>3, <3>1, <3>3
        <4> QED
          BY <2>1, <4>1 DEF Stored
      <3>4. CASE i > Len(rows)
        BY <2>3, <3>1, <3>4
      <3> QED
        BY <3>1, <3>2, <3>3, <3>4
    <2>4. Len(rows') \in Nat
      BY <1>5 DEF TypeOK
    <2>5. \A i, j \in 1..Len(rows') : rows'[i] = rows'[j] => i = j
      BY <2>3, <2>4
    <2> QED
      BY <1>1, <1>3, <2>2, <2>5 DEF IInv, TypeOK, RowsInv, Procs
  <1>8. EveryRowIsBanded'
    BY <1>1, <1>4 DEF IInv, EveryRowIsBanded
  <1>9. ReadersSeeWholeBatches'
    BY <1>1 DEF IInv, ReadersSeeWholeBatches
  <1> QED
    BY <1>5, <1>6, <1>7, <1>8, <1>9 DEF IInv

\* a dropped transaction, or a dead process, leaves the committed rows as they were
LEMMA FailureKeepsInv ==
    ASSUME IInv, NEW p \in Procs, StatementFails(p) \/ Crash(p)
    PROVE  IInv'
  <1> USE StoreAssumption DEF IInv, StatementFails, Crash, Rollback
  <1>1. UNCHANGED <<schema, rows, bands, view>>
    OBVIOUS
  <1>2. pc[p] \notin {"print", "ok", "stored", "failed"} \/ pc' = [pc EXCEPT ![p] = "dead"]
    OBVIOUS
  <1>3. TypeOK'
    <2>1. hot' \in BOOLEAN
      BY DEF TypeOK
    <2>2. staged' \in [Writers -> 0..BatchLen] /\ banded' \in [Writers -> 0..BatchLen]
      <3>1. \A f \in [Writers -> 0..BatchLen] :
              [v \in Writers |-> IF v = p THEN 0 ELSE f[v]] \in [Writers -> 0..BatchLen]
        OBVIOUS
      <3>2. CASE StatementFails(p)
        BY <3>1, <3>2 DEF TypeOK
      <3>3. CASE Crash(p)
        BY <3>3 DEF TypeOK
      <3> QED
        BY <3>2, <3>3
    <2>3. lock' \in Writers \cup {NoOne} /\ spilled' \in {spilled, <<>>}
      BY DEF TypeOK
    <2>4. pc' \in [Procs -> Opening \cup {"insert", "commit", "print"} \cup Ended]
      BY DEF TypeOK, Ended
    <2> QED
      BY <1>1, <2>1, <2>2, <2>3, <2>4, NoRows DEF TypeOK
  <1>4. SchemaInv'
    BY DEF SchemaInv, TypeOK
  <1>5. BatchInv'
    BY DEF BatchInv, TypeOK, Opening, Procs
  <1>6. RowsInv'
    BY <1>1 DEF RowsInv, TypeOK, Procs
  <1> QED
    BY <1>1, <1>3, <1>4, <1>5, <1>6 DEF EveryRowIsBanded, ReadersSeeWholeBatches

\* all() returns the committed rows, which are whole batches
LEMMA LoadKeepsInv == ASSUME IInv, NEW r \in Readers, LoadInProcess(r) PROVE IInv'
  <1> USE StoreAssumption DEF IInv, LoadInProcess, Goto, Access
  <1>1. UNCHANGED <<staged, banded, lock, schema, rows, bands>>
        /\ pc[r] = "begin" /\ r \in Procs /\ r \notin Writers
        /\ view' \in {rows, view}
    BY DEF all, Procs
  <1>2. TypeOK'
    BY <1>1, NoRows DEF TypeOK, Ended
  <1>3. pc' \in [Procs -> Opening \cup {"insert", "commit", "print"} \cup Ended]
        /\ pc'[r] \in {"ok", "failed"} /\ \A p \in Procs \ {r} : pc'[p] = pc[p]
    BY <1>1, <1>2 DEF TypeOK
  <1>5. SchemaInv'
    BY <1>1, <1>3 DEF SchemaInv
  <1>6. BatchInv' /\ RowsInv'
    BY <1>1, <1>3 DEF BatchInv, RowsInv, Procs, Stored
  <1>4. WholeBatches(rows)
    BY DEF RowsInv, WholeBatches, Stored
  <1> QED
    BY <1>1, <1>2, <1>4, <1>5, <1>6 DEF EveryRowIsBanded, ReadersSeeWholeBatches

LEMMA StepInv == IInv /\ [Next]_vars => IInv'
  <1>1. ASSUME IInv, UNCHANGED vars PROVE IInv'
    BY <1>1 DEF vars, local, file, IInv, TypeOK, SchemaInv, BatchInv, RowsInv, EveryRowIsBanded,
                ReadersSeeWholeBatches
  <1> QED
    BY <1>1, OpenKeepsInv, InsertKeepsInv, CommitKeepsInv, FailureKeepsInv, LoadKeepsInv
       DEF Next, Write, Over

\* The inductive invariant holds throughout, for every value of the constants.
THEOREM Invariance == Spec => []IInv
  BY InitInv, StepInv, PTL DEF Spec

----------------------------------------------------------------------------
\* No crash or failure leaves a function row that its bands do not lead to.
THEOREM RowsAreBanded == Spec => []EveryRowIsBanded
  <1>1. IInv => EveryRowIsBanded
    BY DEF IInv
  <1> QED
    BY <1>1, Invariance, PTL

\* Db::insert_all runs only against a complete schema, whatever cut off other runs.
THEOREM InsertsAfterUpgrade == Spec => []InsertsIntoFullSchema
  <1>1. IInv => InsertsIntoFullSchema
    BY DEF IInv, SchemaInv, InsertsIntoFullSchema, Procs
  <1> QED
    BY <1>1, Invariance, PTL

\* What a reader gets from SQLite is whole batches.
THEOREM ReadsWholeBatches == Spec => []ReadersSeeWholeBatches
  <1>1. IInv => ReadersSeeWholeBatches
    BY DEF IInv
  <1> QED
    BY <1>1, Invariance, PTL

\* The exit status tells whether the batch was stored: once, or not at all.
THEOREM OutcomesAreTrue == Spec => []ReportedOutcomeIsTrue
  <1>1. ASSUME IInv, NEW w \in Writers
        PROVE  LET at == {k \in 1..Len(rows) : rows[k] = <<w, 1>>}
               IN  /\ Stored(w, 1, rows) => Cardinality(at) = 1
                   /\ ~Stored(w, 1, rows) => Cardinality(at) = 0
    <2> DEFINE at == {k \in 1..Len(rows) : rows[k] = <<w, 1>>}
    <2>1. rows \in Seq(Row)
      BY <1>1 DEF IInv, TypeOK
    <2>2. Range(rows) = {rows[i] : i \in 1..Len(rows)}
      BY <2>1, RangeEquality
    <2>3. CASE Stored(w, 1, rows)
      <3>1. PICK i \in 1..Len(rows) : rows[i] = <<w, 1>>
        BY <2>2, <2>3 DEF Stored
      <3>2. at = {i}
        BY <1>1, <3>1 DEF IInv, RowsInv
      <3> QED
        BY <2>3, <3>2, FS_Singleton
    <2>4. CASE ~Stored(w, 1, rows)
      <3>1. at = {}
        BY <2>2, <2>4 DEF Stored
      <3> QED
        BY <2>4, <3>1, FS_EmptySet
    <2> QED
      BY <2>3, <2>4
  <1>2. IInv => ReportedOutcomeIsTrue
    BY <1>1 DEF IInv, RowsInv, ReportedOutcomeIsTrue
  <1> QED
    BY <1>2, Invariance, PTL

----------------------------------------------------------------------------
(* Refinement of CorpusFile.                                               *)

\* Every step leaves the committed rows alone or appends one whole batch, so the
\* store implements what CorpusFile promises its readers.
THEOREM StoreImplementsFile == Spec => AppendsWholeBatches
  <1>1. Init => File!Init
    BY DEF Init, File!Init, AllBatches
  <1>2. ASSUME IInv, [Next]_vars PROVE [File!Next]_rows
    <2>1. ASSUME NEW w \in Writers, Commit(w) PROVE File!Next
      BY <1>2, <2>1, CommitAppends DEF File!Next, File!Append_batch, AllBatches
    <2>2. ASSUME NEW w \in Writers, Begin(w) \/ Insert(w) \/ Spill(w) \/ PrintSummary(w)
          PROVE  UNCHANGED rows
      BY <2>2 DEF Begin, Insert, Spill, PrintSummary, file
    <2>3. ASSUME NEW p \in Procs, Open(p) \/ StatementFails(p) \/ Crash(p) PROVE UNCHANGED rows
      BY <2>3 DEF Open, CreateTables, Create, CountColumns, AddCallees, StatementFails, Crash
    <2>4. ASSUME NEW r \in Readers, LoadInProcess(r) PROVE UNCHANGED rows
      BY <2>4 DEF LoadInProcess
    <2>5. CASE Over \/ UNCHANGED vars
      BY <2>5 DEF Over, vars, file
    <2> QED
      BY <1>2, <2>1, <2>2, <2>3, <2>4, <2>5 DEF Next, Write
  <1> QED
    BY <1>1, <1>2, Invariance, PTL DEF Spec, AppendsWholeBatches, File!Spec
=============================================================================

---------------------------- MODULE CorpusStore ----------------------------
(***************************************************************************)
(* A corpus file under concurrent `fnprint index -o` runs and readers:     *)
(* Db::open, Db::init and Db::insert_all (fnprint-db) as cmd_index calls   *)
(* them, and load_corpus_records' two ways of reading (cli/src/main.rs).   *)
(*                                                                         *)
(* SQLite is external and modelled from its use: each statement outside a  *)
(* transaction commits by itself, BEGIN is deferred (the write lock is     *)
(* taken by the first INSERT), a statement that cannot have the lock       *)
(* fails, and the default rollback journal lets a large transaction spill  *)
(* pages into the file before COMMIT; after a crash the journal is "hot"   *)
(* and the next connection to open the file rolls it back.  Rows carry no   *)
(* text here: only their number counts against all()'s budget.             *)
(***************************************************************************)
EXTENDS Integers, Sequences, FiniteSets, SequencesExt

CONSTANTS
    Writers,    \* runs of `fnprint index -o` on the same file
    Readers,    \* --no-sandbox runs that read it through SQLite
    BatchLen,   \* prints of one run
    MaxRows     \* MAX_ROWS, or what MAX_TOTAL_BYTES makes of it

NoOne == "no one"
Earlier == "old"
OldRow == <<Earlier, 1>>

ASSUME StoreAssumption ==
    /\ Writers \cap Readers = {} /\ {NoOne, Earlier} \cap (Writers \cup Readers) = {}
    /\ BatchLen \in Nat \ {0} /\ MaxRows \in Nat

\* the rows writer w stores, in insertion order (cmd_index's prints)
Batch(w) == [k \in 1..BatchLen |-> <<w, k>>]

Procs == Writers \cup Readers
Least(a, b) == IF a <= b THEN a ELSE b

VARIABLES
    pc,       \* per run: where it is in cmd_index or load_corpus_records
    staged,   \* per writer: func rows inserted in its transaction
    banded,   \* per writer: how many of those have their band rows
    lock,     \* the holder of the write lock
    schema,   \* what the file's schema holds
    rows,     \* committed funcs rows
    bands,    \* committed rows that have their band rows
    spilled,  \* uncommitted rows already in the file
    hot,      \* a dead writer's journal waits to be rolled back
    view      \* what the last read of the corpus returned

local == <<pc, staged, banded>>
file == <<schema, rows, bands, spilled, hot>>
vars == <<local, lock, file, view>>

FullSchema == {"funcs", "bands", "lookup", "callees"}
Init ==
    /\ pc = [w \in Procs |-> "mkfuncs"]
    /\ staged = [w \in Writers |-> 0] /\ banded = [w \in Writers |-> 0]
    /\ lock = NoOne /\ spilled = <<>> /\ hot = FALSE /\ view = <<>>
    /\ \/ schema = {} /\ rows = <<>> /\ bands = {}   \* no file yet
       \/ \E s \in {FullSchema, FullSchema \ {"callees"}} :  \* a corpus, maybe pre-0.6
             schema = s /\ rows = <<OldRow>> /\ bands = {OldRow}

Goto(w, from, to) == pc[w] = from /\ pc' = [pc EXCEPT ![w] = to]

\* Any statement needs the file not to be exclusively locked by a writer that
\* has spilled, and rolls back a hot journal it finds; a writing one needs the
\* write lock to be free.
Access(w) == /\ lock \in {NoOne, w} \/ spilled = <<>>
             /\ spilled' = IF hot THEN <<>> ELSE spilled
             /\ hot' = FALSE
Unlocked(w) == lock \in {NoOne, w}

----------------------------------------------------------------------------
(* Db::open and Db::init.                                                  *)

\* CREATE ... IF NOT EXISTS: nothing to write if it is there
Create(w, from, part, to) ==
    /\ Goto(w, from, to) /\ Access(w) /\ (part \in schema \/ Unlocked(w))
    /\ schema' = schema \cup (IF part = "funcs" /\ "funcs" \notin schema
                              THEN {"funcs", "callees"} ELSE {part})
    /\ UNCHANGED <<staged, banded, lock, rows, bands, view>>

CreateTables(w) == \/ Create(w, "mkfuncs", "funcs", "mkbands")
                   \/ Create(w, "mkbands", "bands", "mklookup")
                   \/ Create(w, "mklookup", "lookup", "count")

CountColumns(w) ==
    /\ Goto(w, "count", IF "callees" \in schema THEN "begin" ELSE "alter") /\ Access(w)
    /\ UNCHANGED <<staged, banded, lock, schema, rows, bands, view>>

\* (mutant) the column is not added to a legacy file
AddCallees_Skipped(w) ==
    Goto(w, "alter", "begin") /\ UNCHANGED <<staged, banded, lock, file, view>>

\* ALTER TABLE ADD COLUMN fails on a column another run has added meanwhile
AddCallees(w) ==
    /\ "callees" \notin schema /\ Unlocked(w) /\ Access(w)
    /\ Goto(w, "alter", "begin") /\ schema' = schema \cup {"callees"}
    /\ UNCHANGED <<staged, banded, lock, rows, bands, view>>

----------------------------------------------------------------------------
(* Db::insert_all.                                                         *)

Begin(w) == /\ w \in Writers /\ Goto(w, "begin", "insert")
            /\ UNCHANGED <<staged, banded, lock, file, view>>

\* the funcs row of the next print, then its bands
Insert(w) ==
    /\ pc[w] = "insert" /\ Unlocked(w) /\ Access(w) /\ lock' = w
    /\ \/ /\ banded[w] = staged[w] /\ staged[w] < BatchLen
          /\ staged' = [staged EXCEPT ![w] = @ + 1] /\ UNCHANGED <<banded, pc>>
       \/ /\ banded[w] < staged[w]
          /\ banded' = [banded EXCEPT ![w] = @ + 1] /\ UNCHANGED staged
          /\ pc' = [pc EXCEPT ![w] = IF banded[w] + 1 = BatchLen THEN "commit" ELSE "insert"]
    /\ UNCHANGED <<schema, rows, bands, view>>

\* the page cache overflows into the file, with the old pages journalled: new
\* rows show up in the last page that the committed table already reaches
Spill(w) ==
    /\ pc[w] \in {"insert", "commit"} /\ lock = w /\ Len(spilled) < staged[w]
    /\ rows # <<>>
    /\ spilled' = SubSeq(Batch(w), 1, Len(spilled) + 1)
    /\ UNCHANGED <<local, lock, schema, rows, bands, hot, view>>

\* (mutant) the func rows are committed one by one, without a transaction
Commit_PerRow(w) ==
    /\ pc[w] \in {"insert", "commit"} /\ lock = w /\ staged[w] > 0
    /\ <<w, staged[w]>> \notin Range(rows)
    /\ rows' = Append(rows, <<w, staged[w]>>)
    /\ bands' = bands \cup {<<w, staged[w]>>}
    /\ pc' = [pc EXCEPT ![w] = IF staged[w] = BatchLen THEN "print" ELSE @]
    /\ lock' = NoOne /\ UNCHANGED <<staged, banded, schema, spilled, hot, view>>

\* (mutant) commits without writing the band rows
Commit_NoBands(w) ==
    /\ Goto(w, "commit", "print") /\ lock = w
    /\ rows' = rows \o SubSeq(Batch(w), 1, staged[w])
    /\ lock' = NoOne /\ spilled' = <<>>
    /\ UNCHANGED <<staged, banded, schema, bands, hot, view>>

Commit(w) ==
    /\ Goto(w, "commit", "print") /\ lock = w
    /\ rows' = rows \o SubSeq(Batch(w), 1, staged[w])
    /\ bands' = bands \cup Range(SubSeq(Batch(w), 1, banded[w]))
    /\ lock' = NoOne /\ spilled' = <<>>
    /\ UNCHANGED <<staged, banded, schema, hot, view>>

Rollback(w) ==
    /\ lock' = IF lock = w THEN NoOne ELSE lock
    /\ spilled' = IF lock = w THEN <<>> ELSE spilled
    /\ staged' = [v \in Writers |-> IF v = w THEN 0 ELSE staged[v]]
    /\ banded' = [v \in Writers |-> IF v = w THEN 0 ELSE banded[v]]

\* (mutant) the transaction is committed when it is dropped
StatementFails_Commits(w) ==
    /\ pc[w] \in {"insert", "commit"} /\ lock = w /\ pc' = [pc EXCEPT ![w] = "failed"]
    /\ rows' = rows \o SubSeq(Batch(w), 1, staged[w])
    /\ bands' = bands \cup Range(SubSeq(Batch(w), 1, banded[w]))
    /\ Rollback(w) /\ UNCHANGED <<schema, hot, view>>

\* locked out, disk full, duplicate column...: `?` drops the transaction
StatementFails(w) ==
    /\ pc[w] \notin {"print", "ok", "stored", "failed", "dead"}
    /\ pc' = [pc EXCEPT ![w] = "failed"] /\ Rollback(w)
    /\ UNCHANGED <<schema, rows, bands, hot, view>>

----------------------------------------------------------------------------
(* The rest of cmd_index, and crashes.                                     *)

\* a closed pipe (`| head`) is a clean exit; any other output error is not,
\* although the batch is stored
PrintSummary(w) ==
    /\ \/ Goto(w, "print", "ok") \/ Goto(w, "print", "stored")
    /\ UNCHANGED <<staged, banded, lock, file, view>>

Crash(w) ==
    /\ pc[w] \notin {"ok", "stored", "failed", "dead"}
    /\ pc' = [pc EXCEPT ![w] = "dead"]
    /\ lock' = IF lock = w THEN NoOne ELSE lock
    /\ hot' = (hot \/ (lock = w /\ spilled # <<>>))
    /\ UNCHANGED <<staged, banded, schema, rows, bands, spilled, view>>

----------------------------------------------------------------------------
(* load_corpus_records.                                                    *)

\* (mutant) rows past the budget are left out
all_Truncates(file_rows) ==
    [ok |-> TRUE, rows |-> SubSeq(file_rows, 1, Least(MaxRows, Len(file_rows)))]

\* Db::all: a corpus past its budget is an error, never cut short
all(file_rows) == [ok |-> Len(file_rows) <= MaxRows, rows |-> file_rows]

\* --no-sandbox: Db::open, whose init() writes like a writer's, then all()
LoadInProcess(r) ==
    /\ r \in Readers /\ Access(r)
    /\ \/ all(rows).ok /\ Goto(r, "begin", "ok") /\ view' = all(rows).rows
       \/ ~all(rows).ok /\ Goto(r, "begin", "failed") /\ UNCHANGED view
    /\ UNCHANGED <<staged, banded, lock, schema, rows, bands>>

\* default: read_input reads the raw bytes, Db::open_image parses them, if they
\* hold a funcs table, then all(); no lock is taken and no journal is looked at
open_image == IF "funcs" \in schema THEN all(rows \o spilled) ELSE [ok |-> FALSE, rows |-> <<>>]

Open(w) == CreateTables(w) \/ CountColumns(w) \/ AddCallees(w)
Write(w) == Begin(w) \/ Insert(w) \/ Spill(w) \/ Commit(w) \/ PrintSummary(w)

Over == (\A w \in Procs : pc[w] \in {"ok", "stored", "failed", "dead"}) /\ UNCHANGED vars

Next == \/ \E w \in Procs : Open(w) \/ StatementFails(w) \/ Crash(w)
        \/ \E w \in Writers : Write(w)
        \/ \E r \in Readers : LoadInProcess(r)
        \/ Over
Spec == Init /\ [][Next]_vars
----------------------------------------------------------------------------
AllBatches == {Batch(w) : w \in Writers}
File == INSTANCE CorpusFile WITH Batches <- AllBatches \cup {<<OldRow>>}

\* The committed corpus grows by whole batches, never interleaved and never
\* shortened, under concurrent runs, failures and crashes at any statement.
AppendsWholeBatches == File!Spec

\* Every committed function row has its LSH band rows: no crash leaves a
\* function that candidates() cannot find.
EveryRowIsBanded == Range(rows) = bands

\* A run that reports success has its batch in the corpus exactly once; one that
\* failed in the store has left no row of it.
ReportedOutcomeIsTrue ==
    \A w \in Writers :
       LET stored == Cardinality({k \in 1..Len(rows) : rows[k] = <<w, 1>>})
       IN  /\ pc[w] \in {"ok", "stored"} => stored = 1
           /\ pc[w] = "failed" => stored = 0

\* Rows are only inserted into a complete, upgraded schema, whichever runs were
\* cut off while creating or altering it.
InsertsIntoFullSchema ==
    \A w \in Writers : pc[w] \in {"insert", "commit"} => schema = FullSchema

WholeBatches(seen) ==
    \A w \in Writers : {k \in 1..BatchLen : <<w, k>> \in Range(seen)} \in {{}, 1..BatchLen}

\* What a run that opens the corpus through SQLite reads is whole batches only,
\* whatever a crashed run left in the file and however many rows it holds: past
\* the budget the read fails, so no command works on a silently short corpus.
ReadersSeeWholeBatches == WholeBatches(view)

\* The file as a jailed reader parses it, once no run is writing: "a half-written
\* corpus can't be left behind" (fnprint-db/src/lib.rs:299).
NoHalfCorpusLeftBehind == lock = NoOne /\ open_image.ok => WholeBatches(open_image.rows)
----------------------------------------------------------------------------
(* The inductive invariant behind the theorems (CorpusStoreProofs).        *)

Row == {OldRow} \cup (Writers \X (1..BatchLen))
Opening == {"mkfuncs", "mkbands", "mklookup", "count", "alter", "begin"}
Ended == {"ok", "stored", "failed", "dead"}

TypeOK ==
    /\ pc \in [Procs -> Opening \cup {"insert", "commit", "print"} \cup Ended]
    /\ staged \in [Writers -> 0..BatchLen] /\ banded \in [Writers -> 0..BatchLen]
    /\ lock \in Writers \cup {NoOne} /\ schema \in SUBSET FullSchema
    /\ rows \in Seq(Row) /\ bands \in SUBSET Row /\ spilled \in Seq(Row)
    /\ hot \in BOOLEAN /\ view \in Seq(Row)

\* what a run can rely on when it gets to a statement of Db::init
SchemaInv ==
    \A p \in Procs :
       /\ pc[p] \in {"mkbands", "mklookup", "count", "alter"} => "funcs" \in schema
       /\ pc[p] \in {"mklookup", "count", "alter"} => "bands" \in schema
       /\ pc[p] \in {"count", "alter"} => "lookup" \in schema
       /\ pc[p] \in {"begin", "insert", "commit"} => schema = FullSchema

\* how far a transaction is, and who holds the lock
BatchInv ==
    \A w \in Writers :
       /\ lock = w => pc[w] \in {"insert", "commit"}
       /\ banded[w] <= staged[w]
       /\ pc[w] \in Opening \cup {"failed"} => staged[w] = 0
       /\ pc[w] = "insert" => staged[w] <= banded[w] + 1 /\ banded[w] < BatchLen
       /\ pc[w] = "insert" /\ staged[w] > 0 => lock = w
       /\ pc[w] = "commit" => banded[w] = BatchLen /\ lock = w

Stored(w, k, seq) == <<w, k>> \in Range(seq)

\* the committed rows: no row twice, batches whole, and whose batches are there
RowsInv ==
    /\ \A i, j \in 1..Len(rows) : rows[i] = rows[j] => i = j
    /\ \A w \in Writers :
          /\ \A k, m \in 1..BatchLen : Stored(w, k, rows) <=> Stored(w, m, rows)
          /\ pc[w] \in {"print", "ok", "stored"} => Stored(w, 1, rows)
          /\ pc[w] \notin {"print", "ok", "stored", "dead"} => ~Stored(w, 1, rows)

IInv == TypeOK /\ SchemaInv /\ BatchInv /\ RowsInv /\ EveryRowIsBanded /\ ReadersSeeWholeBatches
=============================================================================

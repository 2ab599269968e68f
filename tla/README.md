# fnprint in TLA+

fnprint fingerprints the functions of ELF binaries by what they do: it runs each
function in an emulator on fixed inputs, hashes the stream of effects, stores the
prints in a SQLite corpus and matches binaries against it. Input is hostile, so the
parsing, the emulation and the reading of untrusted corpora happen in worker
processes that jail themselves first. This directory holds TLA+ models of the parts
where order, failure and limits matter, the TLC configurations that check them, and
proofs that TLAPS checks. `PROJECT.json` maps every definition to the source lines
it stands for. Paths below are relative to the repository root (`src/` is its copy).

## The system

| Part | Source | State it keeps | Operations | Hard because |
|---|---|---|---|---|
| Privilege-separated call | `cli/src/main.rs` 78-535 | child process, three pipes, three helper threads, a reply channel | `run_worker`, `reap_bounded`, `worker_main`, `emit` | four threads and a hostile child; timers race exits; kill must precede reap; pipes can fill |
| Worker jail | `fnprint-sandbox/src/lib.rs` | rlimits, seccomp filters, pdeathsig | `harden_worker_preinput`, `lock_down_worker` | a step may fail; each filter restricts the steps after it; the parent may die meanwhile |
| Time budget | `cli` 78-100, `fnprint-sandbox` 40-93 | CPU time, wall time | `cpu_time_cap`, `worker_deadline` | two clocks in two processes must fire in one order |
| Sharded index | `cli` 552-714, `fnprint-core/src/lib.rs` 94-188 | a thread and a call per shard | `run_index`, `run_workers_sharded`, `index_bytes_shard` | answers in any order, one shard of several fails |
| Corpus store | `fnprint-db/src/lib.rs` | a SQLite file | `open`, `init`, `insert_all`, `open_image`, `all`, `candidates` | several processes, crashes in a transaction, schema migration |
| Micro-execution | `fnprint-emu/src/lib.rs` | `Rec`: counters, effects, coverage | `try_run` and its hooks, `run_explore` | arbitrary self-modifying code; six separate limits |
| Alignment | `fnprint-core/src/align.rs` | candidate scores, an assignment | `align` | scores depend on the assignment they produce; results must not depend on row order |
| Matching, query, triage | `fnprint-core/src/lib.rs` 200-790, `MemCorpus` in `fnprint-db` | none | `match_*`, `query_corpus`, `triage`, `eval` | twins, namesakes, fallbacks, a band index that hides rows |
| Loader and memory setup | `fnprint-loader/src/lib.rs`, `fnprint-emu` 437-457, 581-705, 1087-1147 | segment plan, segments, mapped pages | `load`, `static_calls`, `ensure_pages` | hostile headers, pages shared by segments, stripped and symboled builds must give one graph |
| Signature, trace | `fnprint-sig`, `fnprint-trace` | none | hashing, tokens | |
| CLI and output | `cli/src/main.rs` | none | parsing, rendering | |
| Outside the core | jailbreak probe, fuzz targets, Ghidra script | | | |

How they interact: `cmd_index` reads the file and calls `run_index`, which makes one
`run_worker` call per shard (or works in-process with `--no-sandbox`). Each worker
loads the ELF (`load`), takes every n-th function of the sorted list, runs `run_explore` on
it under `EMU_LOCK`, and sends its prints back through a pipe. The parent merges and
sorts them and stores the batch with `insert_all`. `query`, `triage` and `match` get
their corpora from `load_corpus_records`, which either opens the file or hands its
raw bytes to a jailed worker (`Db::open_image`), and pair functions with `align`.

What makes each part correct, in a sentence: a worker reads nothing before it is
jailed, never outlives its supervisor, and an accepted reply is whole; the call
leaves no process behind and does not hang; the CPU limit, not the deadline, ends
work that computes; sharding is invisible in the result; a corpus holds whole
batches, each row with its bands; a trace that looks complete is complete, and its
size and its run are bounded whatever code runs; forced and restarted runs execute
what they were planned to, and the coverage reported was executed; the alignment is 1:1, best pair first, and a function of
the sets it aligns; segments are disjoint (up to the very last address) and what they hold is bounded, an accepted
file can be set up to run, and stripping a file keeps its functions and call edges;
a build compared with itself shows no difference, and triage takes no side.

## Modules

| Module | Models | EXTENDS / INSTANCE |
|---|---|---|
| `Worker` | one call: the parent's four threads, the child, pipes, signals | instances `WorkerCall` |
| `WorkerCall` | what callers rely on: one child per call, gone on return; an error or the whole reply | |
| `WorkerBudget` | RLIMIT_CPU against the deadline on a machine with some cores | |
| `ShardedIndex` | the shards of one index run, or the threads of the in-process pool | built from one instance of `WorkerCall` per shard |
| `CorpusFile` | what the file promises: batches appended whole | |
| `CorpusStore` | index runs and a reader on one file, statement by statement | instances `CorpusFile` |
| `MicroExec` | one emulator run with its hooks and limits | |
| `Explore` | the runs of one seed: natural, forced, blanket restarts | |
| `Ranking` | what the next three share: a set sorted by rank, a filtered list, the greedy choice | |
| `Align` | `align`, run for two orders of the corpus | extends `Ranking` |
| `Loader` | from the ELF's headers to mapped memory, function list and call edges | extends `Ranking` |
| `Report` | match, query, triage and eval over finished lists | extends `Ranking` |
| `MC*` | the finite instances | the module named |
| `*Proofs` | the theorems; `WorkerProofs` holds those of `WorkerBudget` and `MicroExec` too | the module named, TLAPS |
| `RankingProofs` | lemmas on `Ranking` | extended by `AlignProofs`, `LoaderProofs`, `ReportProofs` |

`WorkerProofs` extends three modules at once, which is why `WorkerBudget` and `MicroExec`
call their specifications `BudgetSpec` and `RunSpec` and not `Spec`.

Operators whose comment starts with `(mutant)` are deliberately wrong variants of
the definition after them. Replacing the definition by one makes the property that
`PROJECT.json` pairs it with fail: they show what each property can detect.

**Worker.** Bytes are counted in chunks and each end of a pipe has a counter, so a
pipe holds the difference of two counters. `main` is the position of the calling
thread in `run_worker`, one value per blocking call. `writer`, `errdrain` and `reader` are
the spawned threads; `chan` is the mpsc channel. `wpc` walks through the hardening
steps of `worker_main`, and `jail` is what is installed. `Deadline`
and `GraceExpires` are the two timers, `ErrWait` the arms for a failed read or a
vanished reader, `Decide` the checks on status, cap and decoding. Faults come from
the constant `Faults` and are remembered in `mishaps`. One of them is a
condition rather than a fault: under `"init"` the live parent is process 1 of a container,
or outside the worker's pid namespace, and `getppid` makes the worker refuse. Not modelled: descendants of
the worker (the jail forbids creating any), the contents of the syscall lists, the
error returns of `wait` and `try_wait` (the kernel has then reaped the child itself, or
it never was one), and the panic arms of the thread joins (`panic = "abort"` makes them
unreachable).

**WorkerBudget.** All workers start together; a fair, work-conserving scheduler runs
as many as there are cores each tick. A running worker burns one CPU second per
second because `EMU_LOCK` serializes emulation inside it.

**ShardedIndex.** A function is its position in the loader's sorted list. The call of a
shard is an instance of `WorkerCall` (`Shard`), and its steps are that module's actions;
they interleave in any order. `Join` goes through the threads in order and keeps the
first error; `Finish` validates and sorts. With `--no-sandbox` (`StartInProcess`) the
pool's threads take functions in any order, build an engine and run it, unless the
loader refuses the file (`LoadFails`). `tcg` is the
engine that the process-wide translator state was last set up for: a run under another
one is garbled. That is the corruption the comment on `EMU_LOCK` describes; the module
checks that the lock's extent, from engine creation to the last run, rules it out.

**CorpusStore.** SQLite is external: autocommit statements, a deferred transaction,
one write lock, spilled pages, a rollback journal that is hot after a crash.
`Insert` writes a row and its bands; `StatementFails` covers errors anywhere,
including a busy database; `open_image` is what the raw bytes show a jailed reader.
`all` is the row budget: past it the read fails. Writers have no such limit, so a
corpus can grow until nothing reads it any more.

**MicroExec.** Nothing is assumed of the code: at every fetch the kind of
instruction, its accesses and the next address are chosen anew. Data addresses are
locations with a region, a page and a field. The hooks keep the code's order of
checks: counters first, then caps, then effects. `dropped` is a history variable:
something happened that the trace does not show. `Finish` decides whether the trace is
marked, and a marked stream ends in one more effect. Deduplication beyond the 64 fields
and `max_heapish` regions is by design and not counted as a loss.

**Explore.** A body is a sequence of one-byte instructions. The directions an
unforced branch takes are free, but a run that has followed the natural run so far
takes the same direction, being in the same state. `shown` is the coverage that the base
run's and the restarts' traces report, `aside` what those of forced runs do: their
coverage is not added to the union. `executed` and `ran` are history variables.
Simplifications: a jump out of the body ends the run, and of the caps only `visit_cap` is kept (`MicroExec` has the
others).

**Align.** Inputs are a table of similarities and shared bands, and the call edges of
both sides; scores are integers in units of 1/60, so the ties of the model are those
of exact arithmetic. The module computes the answer for one order of the corpus
batches and then for the other. `cands` keeps the order of the candidate list,
because the stable sort falls back on it. `Finds` leaves open what a binary search
says in a list that is not sorted.

**Loader.** What goblin, gimli and capstone report of a file is the input `elf`: program
headers, symbol tables, FDEs, plt ranges, relocations, stubs and call sites. `load`'s two
passes are taken header by header, then `SortSegments` and `Discover`; `MapSegment` and
`MapScratch` are the setup of `try_run`, with Unicorn's memory as a set of regions next to
the set of pages `ensure_pages` keeps; a setup that fails leaves what it has mapped. Sums
saturate at `Top`, the last address. The call edges are those of the static sweep, over at
most `MaxScan` bytes of a body; the edges seen at run time, which `index_bytes_shard` adds,
are left out.
What a load holds is a set of bytes, each a segment and an offset in it (`Held`), so that
bounding memory is bounding a set.

**Report.** A command is one step from its lists to its report. Signatures are short
sequences, so bands and similarities are computed, not given. `align` is the function that
`Align` computes in steps. Lists are what the loader and the shards deliver: entries
ascend within a binary (`InOrder`), and a list that is not a corpus is one binary
(`OneBinary`).

## What TLC checks

| Run | Instance | Shows |
|---|---|---|
| `worker` | payload of 2 chunks through 1-chunk pipes, replies of 1 to 4 chunks around a cap of 2, 2 chunks of diagnostics, every fault | all safety properties; `HangsOnlyOnErrorArms`; `HonestCallCompletes`; refinement of `WorkerCall` |
| `budget` | 2 workers, 4 cores, ticks of 60 s | the deadline ends only workers blocked for the margin |
| `budget_oversubscribed` | 4 workers, 1 core | **violates** `BusyWorkerOutlivesDeadline` |
| `sharded_index` | 5 functions, up to 3 shards, every clamp taken; a pool of 2 threads | sharding and the pool's interleaving are invisible, no worker left, first error in shard order, termination |
| `store` | 2 index runs of 2 rows, 1 reader, three starting files, a budget of 4 rows | whole batches, bands, schema, truthful outcomes, no short read; refinement of `CorpusFile` |
| `store_jailed_reader` | the same | **violates** `NoHalfCorpusLeftBehind` |
| `microexec` | 2 addresses, 5 locations, every cap at 1 to 3 | bounded stream, honest `capped` flag, termination without the timer |
| `explore` | all 1331 bodies of 3 instructions, 2 forced runs, 3 restarts | plans reach their branch, restarts advance, the last restart reports the union, no trace more than was executed |
| `align` | 3 target functions (two of them twins), 3 rows in 2 binaries, 4096 tables, 4 call graphs | graph scores in [0,1], 1:1 best pair first, independence from indexing order |
| `align_same_label` | the same, both binaries under one label | **violates** `OrderIndependent` |
| `loader` | 25,748 files: up to 4 segments of 6 shapes at 6 addresses in 4-byte pages and one shape at the very last address, or one segment with every pair of symbols, exports and FDEs from small sets, FDEs that disagree with their symbol among them | disjoint segments, bounded memory, accepted files run, stripping keeps functions and edges |
| `report` | 29,052 commands: builds of 3 functions with 25 pairs of prints, 5 call graphs and 3 namings, against themselves, their stripped copy and others; triage of one function, and of two twins with another, by all corpora of up to 2 rows | self-comparison is clean, banding hides no close row, triage takes no side, treats twins alike and needs a lead |

### Bounds, and why they are enough

Pipes of one chunk make every write of more than one chunk block, on both sides;
two chunks of diagnostics fill the stderr pipe. Replies of `MaxReply`, one over and two over take
the three different paths of the reader. Three shards over five functions give shards
of unequal length, and the ELF sizes make the aggregate clamp give 0 (raised to 1),
fewer and as many workers as requested. Two rows per batch are what it takes to see
half of one; two writers reach the races in `init`. In `microexec` every counter can
reach, meet and pass its limit, and two heap pages share an in-page field, so that
the region and the field limits are separate. Three instructions are enough for a
loop around a branch, junk before code, and two branches of which the first has no
decodable target; three restarts let one fail between two that succeed. Two callees
that are twins are what a many-to-one assignment needs to push a score above 1, and
two rounds let an assignment move twice. In `loader` the shapes are a window that is
empty, whole, clamped at the end of the file and past it, with and without bss, and
addresses on, off and across page boundaries and at the top; two segments of seven bytes
reach the total, four segments the count, and three make an overlap that is not between
neighbours in the file. One shape starts at the very last address, for the saturated ends;
`MaxScan` is one byte less than the longest body, with a call in that byte. In `report` the
signatures have two bands of three slots and differ from the first one in one slot, one band, one slot of each band and
everywhere. So a row that shares a band (three slots alike) can be worse than one that
shares none (four alike), which is when the band index hides the better row.

### Fairness

`Worker` is checked under `PatientSpec`: weak fairness of each thread and of the
child's own steps (the kernel schedules runnable threads), and of the CPU limit. It
gives no fairness to faults, to a stuck child, or to the timers. That is what
`HonestCallCompletes` needs: a deadlock resolved by a timer would not count.
`HangsOnlyOnErrorArms` and `FairSpec` add that the two timers expire, as
`recv_timeout` and the grace loop guarantee. `ShardedIndex` assumes that threads are
scheduled and that each call returns. `MicroExec` assumes that the emulator keeps
executing, and not that its timer ever fires, since termination must not depend on it.

## What is proved

The theorems hold for every value of the constants that satisfies the named
assumptions:

- `LenAssumption`, `FaultAssumption` (`Worker`), `BudgetAssumption`, `ExecAssumption`,
  `ShardAssumption` and `ExploreAssumption` give the types and signs of the limits.
- `StoreAssumption`: writers, readers and the two other row owners are different, and a
  batch is not empty (`insert_all` of an empty one changes nothing).
- `AlignAssumption`: both sides are finite sets, similarities lie in [0,1], and a row is
  told apart by its batch and entry.
- `ReportAssumption`: a signature is divided into whole bands (128 slots in bands of 4), the
  margin of `triage` is any integer, the
  thresholds that are fixed in the code lie in [0,1] (`QueryThresh`, which is the user's,
  may be anything), and the lists are what the loader and the shards deliver, in order of
  entry.
- `LoaderAssumption`: a file's length fits an address; `MAX_TOTAL_MEM` (2 GiB) is below the
  largest one, so that a saturated sum is refused; `MaxScan` may be anything; the scratch areas of `try_run` lie
  below the last page, and each spans at most twice `MAX_SETUP_RUNS` pages (the largest,
  the stack, is 64 pages and the limit is 64 runs).
- `FilesAssumption`: the tables of a file have the types the parsers return, unwind info has
  no names, and `static_calls` skips relocations without one.

Beyond that no proof assumes anything about file contents, code, schedules or failures.
Five theorems have a hypothesis of their own: `OrphansDoNoWork` (no subreaper),
`OnlyHangsMeetTheDeadline` (at most one worker per core),
`IndexingOrderIsInvisible` (`OneBatchPerLabel`), `SelfComparison` (a threshold that
can be reached) and `TriageTakesNoSide` (a positive margin: with `--margin 0` a tie is
called vulnerable).

- **WorkerProofs**: type correctness and all six safety properties of the call
  (`JailedBeforeInput`, `AcceptsOnlyWholeReplies`, `CollectsItsChild`,
  `KillsBeforeReaping`, `FailsOnlyWithCause`, `OrphansDoNoWork`; the last assumes no
  subreaper). None is inductive alone. `IInv` adds: what is installed at each
  hardening step (`JailInv`); the kernel state of the child at each point of
  `run_worker` (`ProcInv`); how far the counters of a pipe may differ and what an
  end-of-file proves about the other side (`PipeInv`), which is why a successful exit
  together with an uncapped reply means the reply is whole; what a run without
  mishaps has not done (`BlameInv`); where an orphan can be (`OrphanInv`). The
  same invariant gives `WorkerImplementsCall`: every step of a thread, of the child or of
  a fault is a step or a stutter of `WorkerCall`.
  On the budget, `OnlyHangsMeetTheDeadline`, for any number of cores and any
  tick, with at most one worker per core. The invariant is `TimeAccounted`: a live
  worker's wall time is its CPU time plus its blocked time, so at the deadline, with
  CPU time below the limit, the difference of the two limits was spent blocked.
  On a run of the emulator, `RunTypeCorrect`, `StreamsAreBounded` and `CleanTracesAreWhole`.
  `RunInv` bounds each source of effects by its own limit (writes, calls and control flow by
  `max_effects`, reads by the set of fields, regions by theirs), and says that any
  loss has either set `capped` or ended the run in a way that will. The bound is
  `max_effects` plus the recorded fields and regions, since the read hook never looks at
  `max_effects`, plus the mark of a capped stream.
- **ShardedIndexProofs**: `TypeCorrect`, `ShardsMakeTheWhole`, `CollectsEveryWorker`,
  `ReportsLowestError` and `LockKeepsPrintsExact`, for any number of functions, shards and
  threads, each shard being a `WorkerCall`. `IInv` ties
  a call to its child and its answer (`CallInv`); says that joined threads have returned
  and that the first error is the lowest of theirs (`JoinInv`); that at most one thread is
  between `EMU_LOCK` and the end of its runs, with the translator serving its engine
  (`PoolInv`); and that what has been merged are the prints of the joined shards, none
  twice (`MergeInv`). Sorting is a matter of ranks: an element's place is the number of
  elements below it, so two lists that hold the same prints, each once, sort to the same
  list. `ShardsWithinSlots` is the arithmetic of the two clamps: there is at least one
  worker and never more than `MaxShards`.
- **CorpusStoreProofs**: `RowsAreBanded`, `InsertsAfterUpgrade`, `ReadsWholeBatches`,
  `OutcomesAreTrue` and `StoreImplementsFile`, for any number of runs and readers, batches
  of any length and a crash or failure at any statement. `SchemaInv` says which tables
  exist at each statement of `init`, whoever made them; `BatchInv` that rows and bands are
  staged in step and only by the holder of the lock; `RowsInv` that no committed row is
  there twice, batches are whole, and a batch is there exactly when its run got that far.
- **ExploreProofs**: `RestartsMoveForward`, `CoverageIsTotal` and `ForcedRunsFlip`. For the
  first two, `RestartInv` says that all code before a restart point is covered, and the
  point itself once its run has been merged, even if that run failed, and `CoverInv` that
  entries of length zero are what was counted without being run. `CoverageIsTotal` is about
  the base run and the restarts, and says of forced runs only that they report no more than
  was executed. For the third, a path is
  cut into stretches of straight code between branches (`IsWalk`). The visits of a run are
  a function of the stretches it has completed and of where it is in the next one
  (`Visited`), so a forced run that has taken the natural run's branches so far has spent
  exactly as much of the visit cap, and cannot end before branch k (`ForcedInv`).
  `BaseDirs` accounts for the direction that is recorded one hook late, or never.
- **RankingProofs**: sorting by rank lists a set, each element once, in its order
  (`SortedByRank`); filtering keeps the order of a list (`AtKeepsOrder`); and the greedy
  choice is fair (`GreedyIsFair`): its result is 1:1, and a pair it leaves out has a side
  taken by a pair that came earlier. A function defined by recursion on a list's length
  is unfolded by showing that such a function exists, from the least length at which it
  would not (`LeastExists`, `PassExists`), since no induction theorem can be used.
- **AlignProofs**: `GraphScores` and `BestPairsFirst`, for any tables, graphs and number of
  rounds. They need each other: a graph score is at most 1 because the assignment it was
  computed from is 1:1 (two callees with one match would count it twice), and the
  assignment is 1:1 because the greedy pass is; `IInv` carries both from round to round.
  `IndexingOrderIsInvisible`, when the rows of a label were indexed in one batch. Then a
  label and an entry name one row, callee lists ascend in either order of the batches, and
  no two candidates tie. So both orders walk the same sequence of scores and assignments
  (`IsTrack`), each at its own pace (`OnTrack`), and end with the same one. The run
  `align_same_label` shows what happens without the hypothesis.
- **LoaderProofs**: `SegmentsApart` and `AcceptedFilesAreSetUp`. `load`
  compares neighbours only; by transitivity of the order every segment ends before every
  later one starts (`OrderInv`), where an end saturates, so the last address is excepted.
  `ensure_pages`' page set is what Unicorn has mapped, after a failed call too, and no
  page is mapped twice (`MirrorIsExact`, part of the invariant). So when a segment's turn comes, only its first page can be
  mapped (`MapInv`), its free pages form one run, and `ensure_pages` succeeds. A scratch
  area may be cut up by segments, but at most one page in two starts a run, which is what
  `MAX_SETUP_RUNS` allows. The only failure left is a segment that reaches the last page
  (`FaultInv`).
  `LoadStaysInBudget`: the running total is the number of bytes of the plan, and what the
  second pass holds is the part of the plan it has copied (`BudgetInv`); sorting permutes
  the segments and so keeps the number.
  `StrippingIsHarmless`: the two function lists are filtered from lists of which one is
  part of the other, and deduplication loses no name but that of an alias. A call through the
  plt leads to the last function of its name in an ascending list, which is the same in both builds unless
  the file is one of three kinds, each of which breaks the property: a static function bears
  an import's name, a function has two names, or a symbol and the unwind info of its entry
  give different lengths. The proof needed the third condition, and TLC finds the
  violation without it.
- **ReportProofs**: `BandingHidesNoCloseRow`, a pigeonhole argument: fewer differing slots
  than bands leave a band without a difference, so the row is a candidate, whatever the
  sizes; and `TriageTakesNoSide`: exchanging the corpora exchanges the two best matches of
  each function, and the verdict is antisymmetric in them when the margin is positive; the
  best match depends on the signature alone, so twins get the same, and it is a row of the
  corpus, so a similarity that carries a verdict is some named row's.
  `SelfComparison`: compared with itself a build is matched function by function, whatever
  its functions, edges and names and however many rounds run, and so is its stripped copy
  up to twins; `query` needs a threshold that is not above 1. A function's own row outranks
  any other it could be paired with, the greedy pass takes it, and the scores of the next
  round keep it on top; with twins the rank of the right row is bounded by their number.
  `ReportInv` says that a report is what its command computes from its lists.

Only model-checked: liveness (`HangsOnlyOnErrorArms`, `HonestCallCompletes`, `IndexEnds`,
`RunTerminates`), which is out of the provers' reach. Every other property of the passing
runs is a theorem.

## Where the code and its comments disagree

1. The deadline scales with the cores, not with the workers sharing them: with more
   shards than cores it ends workers that never blocked (`cli/src/main.rs:94`).
2. A run killed after SQLite spilled pages leaves part of a batch in the file; the
   jailed reader parses the raw bytes and never sees the journal
   (`fnprint-db/src/lib.rs:125`).
3. Rows are told apart by file name and entry; two builds indexed under the same name
   tie, and the answer follows the order of indexing
   (`fnprint-core/src/align.rs:295`).

Each has a run whose trace shows it. The observations below have none; a property that one
of them bears on names it as an exception.

On the call: a worker takes a parent with pid 1, or none in sight, for one that has exited
(`fnprint-sandbox/src/lib.rs:484-496`), so with fnprint as process 1 of a container every
worker refuses to run and every jailed command fails, although the parent is alive
(`NoSpuriousFailure` counts it as a cause); the arms for a failed read wait for the child with
no bound and no kill, so the parent can hang on a blocked worker, although a comment says it "should never be
hangable" (`cli/src/main.rs:484` and 105; `HangsOnlyOnErrorArms` says it is the only such
place); the orphan check compares the parent pid with 1, so under a subreaper such as
`systemd --user` an orphan passes it (`fnprint-sandbox/src/lib.rs:491`; the constant
`Subreaper`, and the assumption of `OrphansDoNoWork`); a reply far over the cap is
reported as an abnormal exit, not as too large; the stderr "tail" is the first 8 KiB.

On the store: an output error after the commit makes a stored run fail, and a retry
stores the batch twice; a corpus may outgrow the budget its readers accept.

On exploration, which takes `explore_depth` above 0, a setting only a library caller's
`Config` can make: a forced run's plan is built from the branches whose target decodes but
indexed by all branches, so after a `jrcxz` it flips another branch than the planned one
(`fnprint-emu/src/lib.rs:912` against 303; `FlipsThePlannedBranch` therefore asks only about
branches that follow decodable ones); the coverage of forced runs is dropped (306), so the
figure of the restarts leaves out what only forced runs executed and a forced trace may
report more, although a comment (310-312) calls it the maximum (`BlanketCoverageIsTotal`
says so).

On alignment: the re-scoring rounds need not settle, which is why their number is fixed;
`load_index` drops the binary of a corpus row, so a `.db` of several binaries as a target is
aligned as if it were one.

On loading: the ends that `load` compares saturate, so two segments that both contain the
last address of the address space pass its overlap check, although a comment gives every
byte to at most one segment (`fnprint-loader/src/lib.rs:197-206`; `SegmentsDisjoint` excepts
that address; such a file fails in the emulator's setup); an export that has a second, local
name ahead of it in the symbol table loses its exported name in deduplication (221-227), and
with it the edges of calls through the plt, on the symboled side only, although a comment
says "the edge is there on both sides" (`fnprint-core/src/lib.rs:120-123`;
`StrippingKeepsTheGraph` excludes such aliases, and is violated without that condition); a
symbol hides the unwind entry of its address even when they disagree on
the length, so the stripped build draws that function's edges from a longer or shorter body
(`fnprint-loader/src/lib.rs:315`; `StrippingKeepsTheGraph` excludes such files too); `load` checks that vaddr + memsz does not wrap, but not
vaddr + filesz; a zero-length segment inside another is accepted or refused depending on
the order of equal addresses; `ensure_pages` can never map the last page of the address
space, so a file that reaches into it loads but does not run.

On reports: `match_aligned` counts the low-signal functions of one side only; `eval`'s
`fn_` counts only misses whose top row is the right one, so a function with a wrong top
row below the threshold is no miss and recall is overstated; one weak row that shares a
band keeps `best_in_corpus` from rows that share none and may be better, up to one
differing slot per band (`NoCloseRowIsMissed` states the limit); `--margin 0` is accepted
and calls every tie vulnerable, a negative margin every tie and more.

## What is not modelled

Shingling, MinHash and the tokens of the effect trace hash data and have no state.
ELF, DWARF and instruction decoding are external libraries; the byte patterns of plt
stubs and of branches are reduced to what they say. The contents of the seccomp lists are
data for the kernel. The column-by-column check of a hostile corpus schema and the caps
on single text fields are checks without consequences beyond refusal. Argument parsing,
table, JSON and CSV output, the jailbreak probe, the fuzz harnesses and the Ghidra script
are formatting or programs around the system.

## Plan

Done, in order of importance: the worker call, its budget, the sharded index and the
pool, the corpus store, micro-execution and exploration, the alignment, the loader with
the memory setup, and the reports.

Proved: every safety property of every passing run, and both refinements (`ImplementsCall`,
`AppendsWholeBatches`). Left to TLC: liveness.

As models, if the code grows there: the schema check of `open_image` against hostile
images, and a `.db` of several binaries as a target of `align`.

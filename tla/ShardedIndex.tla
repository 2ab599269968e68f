---------------------------- MODULE ShardedIndex ----------------------------
(***************************************************************************)
(* run_index and run_workers_sharded (cli/src/main.rs): one jailed worker  *)
(* per shard, each call made on a thread of its own, joined in order,      *)
(* validated, merged and sorted; and index_bytes_shard (fnprint-core), the *)
(* partition every worker computes for itself.                             *)
(*                                                                         *)
(* The loader's list is sorted and deduplicated by entry, so a function is *)
(* named here by its position in it; a print is a function of the function *)
(* alone.  A call is an instance of WorkerCall, which Worker implements.   *)
(* With --no-sandbox there is no worker and the pool's threads emulate in  *)
(* the process itself, as a worker does with the functions of its shard;   *)
(* Unicorn's translator is shared by all engines of a process.      *)
(***************************************************************************)
EXTENDS Integers, Sequences, FiniteSets

CONSTANTS
    NumFuncs,      \* length of the loader's function list
    Usable,        \* positions with a size and code, the ones that get a print
    MaxShards,     \* the clamp of shard_count (64)
    Requests,      \* values FNPRINT_SHARDS may parse to
    InputLens,     \* sizes of the ELF
    MaxAggregate,  \* MAX_AGGREGATE_INPUT
    Threads        \* the pool's threads

ASSUME ShardAssumption ==
    /\ NumFuncs \in Nat /\ Usable \in SUBSET (0..(NumFuncs - 1))
    /\ MaxShards \in Nat \ {0} /\ MaxAggregate \in Nat
    /\ Requests \in SUBSET Nat /\ InputLens \in SUBSET Nat

Slots == 0..(MaxShards - 1)
Least(a, b) == IF a <= b THEN a ELSE b
Greatest(a, b) == IF a >= b THEN a ELSE b

\* (mutant) FNPRINT_SHARDS is taken as it is
shard_count_Unclamped(request) == request

shard_count(request) == Greatest(1, Least(request, MaxShards))

clamp_shards_for_input(requested, len) ==
    IF len = 0 THEN requested
    ELSE Least(requested, Greatest(MaxAggregate \div len, 1))

\* (mutant) shards are numbered from one on the command line
ShardSpec_OneBased(i, count) == <<i + 1, count>>

\* the "idx/count" argument the parent formats for shard i
ShardSpec(i, count) == <<i, count>>

\* what the worker makes of it: anything malformed is the whole binary
parse_shard(spec) == IF spec[2] >= 1 /\ spec[1] < spec[2] THEN spec ELSE <<0, 1>>

\* the positions in S in list order: the i-th has i - 1 of them before it
Ascending(S) ==
    [i \in 1..Cardinality(S) |-> CHOOSE p \in S : Cardinality({q \in S : q < p}) = i - 1]

\* the prints of one shard, in list order: par_iter().collect() keeps it
index_bytes_shard(spec) == Ascending({p \in Usable : p % spec[2] = spec[1]})

WholeIndex == index_bytes_shard(<<0, 1>>)
ShardIndex(i, count) == index_bytes_shard(parse_shard(ShardSpec(i, count)))

VARIABLES
    len,       \* size of the ELF at hand
    n,         \* number of workers, 0 until run_index has decided
    pc,        \* run_index: "start", "join", "pool" (--no-sandbox), "ok", "error",
               \* "refused" (by the loader, in process) or "dead"
    call, child, reply,  \* per shard: its WorkerCall
    answer,    \* per shard: what the call returned
    joined,    \* shards joined so far
    all,       \* prints merged so far, the result once pc is "ok"
    first_err, \* the shard whose error is reported, NoErr if none
    task,      \* per thread: the function it works on, Idle if none
    stage,     \* per thread: "idle", "wait" (for EMU_LOCK), "locked", "built", "ran"
    tcg,       \* the thread whose engine the process-wide translator state serves
    prints     \* per function: "none", "exact" or "garbled"

callVars == <<call, child, reply, answer>>
pool == <<task, stage, tcg, prints>>
vars == <<len, n, pc, callVars, joined, all, first_err, pool>>

NoErr == -1
Idle == -1
Nobody == "nobody"
Answers == {"index", "badsig", "err", "wrongkind", "failed"}

StepsTyped ==
    /\ len \in InputLens /\ n \in 0..MaxShards
    /\ pc \in {"start", "join", "pool", "ok", "error", "refused", "dead"}
    /\ call \in [Slots -> {"idle", "busy", "ok", "error", "dead"}]
    /\ child \in [Slots -> {"none", "live", "gone", "orphan"}]
    /\ reply \in [Slots -> {"none", "whole"}]
    /\ answer \in [Slots -> Answers \cup {"none"}]
    /\ joined \in 0..n /\ first_err \in Slots \cup {NoErr}
    /\ task \in [Threads -> Usable \cup {Idle}]
    /\ stage \in [Threads -> {"idle", "wait", "locked", "built", "ran"}]
    /\ tcg \in Threads \cup {Nobody} /\ prints \in [Usable -> {"none", "exact", "garbled"}]

TypeOK == StepsTyped /\ all \in Seq(Usable \cup {Idle})

Init ==
    /\ len \in InputLens /\ n = 0 /\ pc = "start"
    /\ call = [i \in Slots |-> "idle"] /\ child = [i \in Slots |-> "none"]
    /\ reply = [i \in Slots |-> "none"] /\ answer = [i \in Slots |-> "none"]
    /\ joined = 0 /\ all = <<>> /\ first_err = NoErr
    /\ task = [t \in Threads |-> Idle] /\ stage = [t \in Threads |-> "idle"]
    /\ tcg = Nobody /\ prints = [p \in Usable |-> "none"]

\* decide on the worker count; n = 1 is the single-process path
Start ==
    /\ pc = "start" /\ pc' = "join"
    /\ \E r \in Requests : n' = clamp_shards_for_input(shard_count(r), len)
    /\ UNCHANGED <<len, callVars, joined, all, first_err, pool>>

----------------------------------------------------------------------------
(* A shard's thread: its run_worker, which does what WorkerCall allows.    *)

Shard(i) == INSTANCE WorkerCall WITH
    call <- call[i], child <- child[i], reply <- reply[i]

\* what the thread makes of it: a whole reply may still be an Err, of the wrong kind
\* or malformed
AnswersTo(c) == IF c = "ok" THEN Answers \ {"failed"}
                ELSE IF c = "error" THEN {"failed"} ELSE {"none"}

\* the call of shard i moves to c and leaves those of the other shards alone
SetCall(i, c, ch, r) ==
    /\ call' = [call EXCEPT ![i] = c] /\ child' = [child EXCEPT ![i] = ch]
    /\ reply' = [reply EXCEPT ![i] = r]
    /\ \E a \in AnswersTo(c) : answer' = [answer EXCEPT ![i] = a]

\* any step of the call but the death of the process, which all calls share (ParentDies)
CallStep(i) ==
    /\ pc = "join" /\ i < n
    /\ \E c \in {"busy", "ok", "error"}, ch \in {"none", "live", "gone"},
          r \in {"none", "whole"} : SetCall(i, c, ch, r)
    /\ Shard(i)!Start \/ Shard(i)!StartFails \/ Shard(i)!ChildEnds \/ Shard(i)!Return
    /\ UNCHANGED <<len, n, pc, joined, all, first_err, pool>>

----------------------------------------------------------------------------
(* (mutant) a shard that failed is skipped and the rest is kept            *)
Join_Partial ==
    /\ pc = "join" /\ joined < n /\ call[joined] \in {"ok", "error"}
    /\ joined' = joined + 1
    /\ all' = IF answer[joined] = "index" THEN all \o ShardIndex(joined, n) ELSE all
    /\ UNCHANGED <<len, n, pc, callVars, first_err, pool>>

(* (mutant) give up at the first error, leaving later threads unjoined     *)
Join_StopEarly ==
    /\ pc = "join" /\ joined < n /\ call[joined] \in {"ok", "error"}
    /\ joined' = IF answer[joined] = "index" THEN joined + 1 ELSE n
    /\ IF answer[joined] = "index"
       THEN all' = all \o ShardIndex(joined, n) /\ UNCHANGED first_err
       ELSE first_err' = joined /\ UNCHANGED all
    /\ UNCHANGED <<len, n, pc, callVars, pool>>

(* (mutant) the last error wins                                            *)
Join_LastError ==
    /\ pc = "join" /\ joined < n /\ call[joined] \in {"ok", "error"}
    /\ joined' = joined + 1
    /\ IF answer[joined] = "index"
       THEN all' = all \o ShardIndex(joined, n) /\ UNCHANGED first_err
       ELSE first_err' = joined /\ UNCHANGED all
    /\ UNCHANGED <<len, n, pc, callVars, pool>>

(* (mutant) only replies are collected: a shard that failed never sends one *)
Join_RepliesOnly ==
    /\ pc = "join" /\ joined < n /\ call[joined] = "ok"
    /\ joined' = joined + 1
    /\ IF answer[joined] = "index"
       THEN all' = all \o ShardIndex(joined, n) /\ UNCHANGED first_err
       ELSE /\ first_err' = IF first_err = NoErr THEN joined ELSE first_err
            /\ UNCHANGED all
    /\ UNCHANGED <<len, n, pc, callVars, pool>>

\* join the next thread in order, even after an error; keep the first error
Join ==
    /\ pc = "join" /\ joined < n /\ call[joined] \in {"ok", "error"}
    /\ joined' = joined + 1
    /\ IF answer[joined] = "index"
       THEN all' = all \o ShardIndex(joined, n) /\ UNCHANGED first_err
       ELSE /\ first_err' = IF first_err = NoErr THEN joined ELSE first_err
            /\ UNCHANGED all
    /\ UNCHANGED <<len, n, pc, callVars, pool>>

\* sort_by_key(entry): before a print go those of lower entries, and those of its own
\* entry that came before it
ByEntry(s) ==
    LET before(j) == {m \in 1..Len(s) : s[m] < s[j] \/ (s[m] = s[j] /\ m < j)}
    IN  [i \in 1..Len(s) |-> s[CHOOSE j \in 1..Len(s) : Cardinality(before(j)) = i - 1]]

\* (mutant) the merged shards are left in shard order
Finish_Unsorted ==
    /\ pc = "join" /\ joined = n
    /\ pc' = IF first_err # NoErr THEN "error" ELSE "ok"
    /\ UNCHANGED <<len, n, all, callVars, joined, first_err, pool>>

\* any failure fails the index; otherwise the prints in entry order
Finish ==
    /\ pc = "join" /\ joined = n
    /\ IF first_err # NoErr
       THEN pc' = "error" /\ UNCHANGED all
       ELSE pc' = "ok" /\ all' = ByEntry(all)
    /\ UNCHANGED <<len, n, callVars, joined, first_err, pool>>

\* the parent is killed under all its calls at once
ParentDies ==
    /\ pc = "join" /\ pc' = "dead"
    /\ call' = [i \in Slots |-> IF call[i] = "busy" THEN "dead" ELSE call[i]]
    /\ child' = [i \in Slots |-> IF call[i] = "busy" THEN "orphan" ELSE child[i]]
    /\ UNCHANGED <<len, n, reply, answer, joined, all, first_err, pool>>

----------------------------------------------------------------------------
(* --no-sandbox: index_bytes on the pool.  par_iter hands out the usable   *)
(* functions in any order; collect() restores the order of the list.       *)

StartInProcess ==
    /\ pc = "start" /\ pc' = "pool"
    /\ UNCHANGED <<len, n, callVars, joined, all, first_err, pool>>

\* load refuses the file; in process that is run_index's own error
LoadFails ==
    /\ pc = "start" /\ pc' = "refused"
    /\ UNCHANGED <<len, n, callVars, joined, all, first_err, pool>>

InPool(t, from, to) ==
    /\ pc = "pool" /\ stage[t] = from /\ stage' = [stage EXCEPT ![t] = to]
    /\ UNCHANGED <<len, n, pc, callVars, joined, all, first_err>>

Take(t) ==
    /\ InPool(t, "idle", "wait") /\ UNCHANGED <<tcg, prints>>
    /\ \E p \in Usable : /\ prints[p] = "none" /\ \A u \in Threads : task[u] # p
                         /\ task' = [task EXCEPT ![t] = p]

\* (mutant) the emulator is not locked
LockEmulator_Unlocked(t) == InPool(t, "wait", "locked") /\ UNCHANGED <<task, tcg, prints>>

\* EMU_LOCK, which no thread may hold from building an engine to the end of its runs
LockEmulator(t) ==
    /\ \A u \in Threads : stage[u] \notin {"locked", "built"}
    /\ InPool(t, "wait", "locked") /\ UNCHANGED <<task, tcg, prints>>

BuildEngine(t) == InPool(t, "locked", "built") /\ tcg' = t /\ UNCHANGED <<task, prints>>

\* an engine that another one was built after runs on the wrong translations; the
\* lock is released
Explore(t) ==
    /\ InPool(t, "built", "ran") /\ UNCHANGED <<task, tcg>>
    /\ prints' = [prints EXCEPT ![task[t]] = IF tcg = t THEN "exact" ELSE "garbled"]

\* edges and fingerprint, outside the lock
Fingerprint(t) == /\ InPool(t, "ran", "idle") /\ task' = [task EXCEPT ![t] = Idle]
                  /\ UNCHANGED <<tcg, prints>>

\* a garbled print is none of the list's
Collect ==
    /\ pc = "pool" /\ \A t \in Threads : stage[t] = "idle"
    /\ \A p \in Usable : prints[p] # "none"
    /\ pc' = "ok"
    /\ all' = [k \in 1..Len(WholeIndex) |->
                 IF prints[WholeIndex[k]] = "exact" THEN WholeIndex[k] ELSE Idle]
    /\ UNCHANGED <<len, n, callVars, joined, first_err, pool>>

Done == pc \in {"ok", "error", "refused", "dead"} /\ UNCHANGED vars

ThreadStep(t) == Take(t) \/ LockEmulator(t) \/ BuildEngine(t) \/ Explore(t) \/ Fingerprint(t)
Next == \/ Start \/ StartInProcess \/ LoadFails \/ Join \/ Finish \/ Collect \/ ParentDies \/ Done
        \/ \E i \in Slots : CallStep(i)
        \/ \E t \in Threads : ThreadStep(t)

Spec == Init /\ [][Next]_vars
\* threads are scheduled, and every call returns (Worker: all but one whose
\* worker blocks after a failed read)
FairSpec == /\ Spec /\ WF_vars(Start \/ StartInProcess \/ LoadFails)
            /\ WF_vars(Join) /\ WF_vars(Finish) /\ WF_vars(Collect)
            /\ \A i \in Slots : WF_vars(CallStep(i))
            /\ \A t \in Threads : WF_vars(ThreadStep(t))
----------------------------------------------------------------------------
\* Whatever the shard count, the order in which shards answer, the errors on the way
\* and the interleaving of the pool's threads, an index that succeeds is the
\* single-process index: same prints, same order, none missing, none twice
\* ("byte-identical whatever N is", and the prints EMU_LOCK keeps reproducible).
ShardingIsInvisible == pc = "ok" => all = WholeIndex

\* When run_index returns, on success or on error, every worker it started has
\* been collected ("join every thread even after an error").
NoWorkerOutlivesIndex == pc \in {"ok", "error", "refused"} => \A i \in Slots : child[i] # "live"

\* The error reported is that of the lowest failing shard, not of whichever
\* happened to fail first.
ErrorIsReproducible ==
    pc = "error" => /\ answer[first_err] # "index"
                    /\ \A i \in 0..(first_err - 1) : answer[i] = "index"

\* run_index ends.
IndexEnds == <>(pc \in {"ok", "error", "refused", "dead"})

----------------------------------------------------------------------------
(* The inductive invariant behind the theorems (ShardedIndexProofs).       *)

\* where a call, its child and its answer may be together
CallInv ==
    \A i \in Slots :
       /\ call[i] = "idle" => child[i] = "none" /\ reply[i] = "none"
       /\ call[i] = "busy" => child[i] \in {"live", "gone"} /\ reply[i] = "none"
       /\ call[i] \in {"ok", "error"} => child[i] \in {"none", "gone"} /\ answer[i] \in Answers
       /\ call[i] = "dead" => pc = "dead"
       /\ i >= n => call[i] = "idle"

\* joined threads have returned, and the first error is the lowest among them
JoinInv ==
    /\ pc \in {"start", "pool", "refused"} => n = 0
    /\ pc \in {"ok", "error"} => joined = n
    /\ pc = "error" => first_err # NoErr
    /\ \A i \in Slots : i < joined => call[i] \in {"ok", "error"}
    /\ \/ first_err = NoErr /\ \A i \in Slots : i < joined => answer[i] = "index"
       \/ /\ first_err # NoErr /\ first_err < joined /\ answer[first_err] # "index"
          /\ \A i \in Slots : i < first_err => answer[i] = "index"

\* one thread in the emulator, which runs the engine it built
PoolInv ==
    /\ \A t, u \in Threads :
          stage[t] \in {"locked", "built"} /\ stage[u] \in {"locked", "built"} => t = u
    /\ \A t \in Threads : stage[t] = "built" => tcg = t
    /\ \A p \in Usable : prints[p] # "garbled"

Distinct(s) == \A i, j \in 1..Len(s) : i # j => s[i] # s[j]
Elements(s) == {s[i] : i \in 1..Len(s)}

\* what has been merged: each print of the joined shards once, or after the last step
\* the prints of the whole list
MergeInv ==
    /\ all \in Seq(Usable \cup {Idle})
    /\ pc \in {"start", "pool"} => all = <<>>
    /\ pc = "join" => n # 0
    /\ pc = "join" /\ first_err = NoErr =>
          Distinct(all) /\ Elements(all) = {p \in Usable : p % n < joined}
    /\ pc = "ok" => all = WholeIndex

IInv == StepsTyped /\ CallInv /\ JoinInv /\ PoolInv /\ MergeInv
=============================================================================

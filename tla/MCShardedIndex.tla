--------------------------- MODULE MCShardedIndex ---------------------------
(* Five functions, one of them without code, over up to three shards: the   *)
(* shards are of unequal length.  An 8-unit ELF trims three workers to two   *)
(* and a 20-unit one to a single worker.  The pool has two threads.          *)
EXTENDS ShardedIndex
CONSTANTS t1, t2
MCThreads == {t1, t2}
MCUsable == {0, 1, 3, 4}
MCRequests == {0, 1, 2, 3, 9}
MCInputLens == {0, 5, 8, 20}
=============================================================================

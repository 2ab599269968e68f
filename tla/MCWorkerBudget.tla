--------------------------- MODULE MCWorkerBudget ---------------------------
(* WorkerBudget with one-minute ticks: limits are multiples of 60 seconds.  *)
EXTENDS WorkerBudget
CONSTANTS w1, w2, w3, w4
TwoShards == {w1, w2}
FourShards == {w1, w2, w3, w4}
=============================================================================

---------------------------- MODULE WorkerBudget ----------------------------
(***************************************************************************)
(* The two time limits on a worker: RLIMIT_CPU, set by the worker on       *)
(* itself (fnprint-sandbox cpu_time_cap), and the parent's wall-clock      *)
(* worker_deadline (cli/src/main.rs).  Shards workers start together on a  *)
(* machine with Cores cores; inside a worker emulation is serialized by    *)
(* EMU_LOCK, so a worker that runs burns one CPU second per second.        *)
(* Time advances in ticks of TickSecs.                                     *)
(***************************************************************************)
EXTENDS Integers, FiniteSets

CONSTANTS Shards,   \* the workers of one index run
          Cores,    \* available_parallelism(), the same in parent and worker
          TickSecs  \* scheduling granularity of the model

ASSUME BudgetAssumption ==
    /\ IsFiniteSet(Shards) /\ Cores \in Nat \ {0} /\ TickSecs \in Nat \ {0}

CPU_BACKSTOP_WALL_SECS == 120
CPU_THREAD_CLAMP == 16
DEADLINE_THREAD_CLAMP == 16
Margin == 300

AtMost(n, limit) == IF n <= limit THEN n ELSE limit

cpu_time_cap == CPU_BACKSTOP_WALL_SECS * AtMost(Cores, CPU_THREAD_CLAMP)

\* (mutant) a flat wall-clock cap that does not scale with the threads
worker_deadline_Flat == 120 + Margin

worker_deadline == 120 * AtMost(Cores, DEADLINE_THREAD_CLAMP) + Margin

VARIABLES clock,   \* seconds since the parents started waiting
          state,   \* what each worker is doing, or how it ended
          cpu,     \* CPU seconds it has burnt
          blocked  \* seconds it spent blocked in a system call

budgetVars == <<clock, state, cpu, blocked>>

Live == {"busy", "blocked"}

BudgetTypeOK == /\ clock \in Nat
                /\ state \in [Shards -> Live \cup {"exited", "cpulimit", "deadline"}]
                /\ cpu \in [Shards -> Nat] /\ blocked \in [Shards -> Nat]

BudgetInit == /\ clock = 0
              /\ state = [w \in Shards |-> "busy"]
              /\ cpu = [w \in Shards |-> 0] /\ blocked = [w \in Shards |-> 0]

Busy == {w \in Shards : state[w] = "busy"}

\* Whom a fair, work-conserving scheduler may run for the next tick: everyone
\* if there are cores enough, else as many as there are cores, least-served first.
Scheduled ==
    IF Cardinality(Busy) <= Cores THEN {Busy}
    ELSE {R \in SUBSET Busy : /\ Cardinality(R) = Cores
                              /\ \A r \in R, q \in Busy \ R : cpu[r] <= cpu[q]}

Overdue(w) == state[w] \in Live /\ (cpu[w] >= cpu_time_cap \/ clock >= worker_deadline)

Tick ==
    /\ \E w \in Shards : state[w] \in Live
    /\ \A w \in Shards : ~Overdue(w)
    /\ clock' = clock + TickSecs
    /\ \E R \in Scheduled :
          cpu' = [w \in Shards |-> IF w \in R THEN cpu[w] + TickSecs ELSE cpu[w]]
    /\ blocked' = [w \in Shards |-> IF state[w] = "blocked" THEN blocked[w] + TickSecs
                                    ELSE blocked[w]]
    /\ UNCHANGED state

Becomes(w, from, to) == /\ state[w] \in from /\ state' = [state EXCEPT ![w] = to]
                        /\ UNCHANGED <<clock, cpu, blocked>>

Block(w)   == Becomes(w, {"busy"}, "blocked")
Unblock(w) == Becomes(w, {"blocked"}, "busy")
ExitsOk(w) == Becomes(w, {"busy"}, "exited")

\* the kernel kills the worker the moment its CPU time reaches RLIMIT_CPU
CpuLimitKill(w) == cpu[w] >= cpu_time_cap /\ Becomes(w, Live, "cpulimit")

\* recv_timeout expires and the group is killed
DeadlineKill(w) == /\ clock >= worker_deadline /\ cpu[w] < cpu_time_cap
                   /\ Becomes(w, Live, "deadline")

AllEnded == (\A w \in Shards : state[w] \notin Live) /\ UNCHANGED budgetVars

BudgetNext == \/ Tick \/ AllEnded
              \/ \E w \in Shards : Block(w) \/ Unblock(w) \/ ExitsOk(w) \/ CpuLimitKill(w)
                                   \/ DeadlineKill(w)

BudgetSpec == BudgetInit /\ [][BudgetNext]_budgetVars
----------------------------------------------------------------------------
\* The parent's deadline ends a worker only if that worker was blocked for at
\* least the margin in total; one that keeps computing meets RLIMIT_CPU first.
DeadlineCatchesOnlyHangs ==
    \A w \in Shards : state[w] = "deadline" => blocked[w] >= Margin

\* The claim as worker_deadline's comment makes it: "this only ever catches a
\* true hang (a blocked syscall consuming no CPU, which RLIMIT_CPU can't catch)".
BusyWorkerOutlivesDeadline ==
    \A w \in Shards : state[w] = "deadline" => blocked[w] > 0

\* With a core for every worker, a live worker's wall time is what it computed
\* plus what it was blocked; the inductive invariant of WorkerProofs.
TimeAccounted ==
    /\ \A w \in Shards : state[w] \in Live => cpu[w] + blocked[w] = clock
    /\ DeadlineCatchesOnlyHangs
=============================================================================

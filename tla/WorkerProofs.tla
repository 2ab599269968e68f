---------------------------- MODULE WorkerProofs ----------------------------
(* The privilege-separated worker: safety of the call for every payload,     *)
(* cap, pipe capacity and set of faults; its time budget on every machine;   *)
(* and the bounds of one emulated run, whatever the code that runs does.     *)
EXTENDS Worker, WorkerBudget, MicroExec, FiniteSetTheorems, TLAPS

----------------------------------------------------------------------------
(* The call (Worker).                                                      *)

\* before the call, nothing is spawned, installed or in flight
LEMMA InitInv == Init => IInv
  BY LenAssumption, FaultAssumption
     DEF Init, IInv, TypeOK, JailInv, ProcInv, PipeInv, BlameInv, OrphanInv,
         AcceptedReplyIsWhole, NoSpuriousFailure, SignalsOwnChild, JailSteps, JailLayers,
         Installed, Exited

\* A hardening step that goes through: the layers in force are those of the next
\* step, and nothing has been read or written yet.
LEMMA AdvanceInv ==
    ASSUME IInv, Alive, NEW at \in JailSteps, NEW layers \in SUBSET JailLayers,
           NEW next \in JailSteps \cup {"read"}, Advance(at, layers, next),
           Installed[next] = Installed[at] \cup layers,
           main = "dead" /\ ~Subreaper => next \in {"pdeathsig", "ppid"}
    PROVE  IInv'
  <1> USE DEF Advance, threadVars, childIO, Alive
  <1>1. TypeOK'
    BY DEF IInv, TypeOK
  <1>2. JailInv'
    BY DEF IInv, JailInv, JailSteps, JailLayers
  <1>3. ProcInv'
    BY DEF IInv, TypeOK, ProcInv, SignalsOwnChild
  <1>4. PipeInv'
    BY DEF IInv, TypeOK, ProcInv, PipeInv, JailSteps, JailLayers, Exited
  <1>5. BlameInv' /\ OrphanInv' /\ AcceptedReplyIsWhole' /\ NoSpuriousFailure'
    BY DEF IInv, BlameInv, OrphanInv, AcceptedReplyIsWhole, NoSpuriousFailure
  <1> QED
    BY <1>1, <1>2, <1>3, <1>4, <1>5 DEF IInv

\* the pre-input steps, the parent check included: an orphan stops at it
LEMMA HardenInv == ASSUME IInv, harden_worker_preinput PROVE IInv'
  <1>1. CASE Advance("fds", {"fds"}, "pdeathsig")
    BY <1>1, AdvanceInv DEF harden_worker_preinput, JailSteps, JailLayers, Installed
  <1>2. CASE Advance("pdeathsig", {"pdeathsig"}, "ppid")
    BY <1>2, AdvanceInv DEF harden_worker_preinput, JailSteps, JailLayers, Installed
  <1>3. CASE (main = "dead" => Subreaper) /\ Advance("ppid", {}, "warm")
    BY <1>3, AdvanceInv DEF harden_worker_preinput, JailSteps, JailLayers, Installed
  <1>4. CASE /\ wpc = "ppid" /\ Exit("failure")
             /\ IF main = "dead" THEN ~Subreaper /\ UNCHANGED mishaps ELSE Inject("init")
    \* whichever parent it was, something is on record
    <2>1. mishaps' # {} /\ mishaps' \in SUBSET (FaultKinds \cup {"deadline", "grace"})
      BY <1>4 DEF Inject, IInv, TypeOK, BlameInv, FaultKinds
    <2> QED
      BY <1>4, <2>1 DEF harden_worker_preinput, Alive, Exit, threadVars, childIO, Exited,
                IInv, TypeOK, JailInv, ProcInv, PipeInv, BlameInv, OrphanInv,
                AcceptedReplyIsWhole, NoSpuriousFailure, SignalsOwnChild, Inject
  <1> QED
    BY <1>1, <1>2, <1>3, <1>4 DEF harden_worker_preinput

\* By JailInv every filter is installed while seccomp() is still permitted.
LEMMA LockDownInv == ASSUME IInv, lock_down_worker PROVE IInv'
  <1>0. Alive /\ (main = "dead" /\ ~Subreaper => wpc \in {"fds", "pdeathsig", "ppid"})
    BY DEF lock_down_worker, IInv, OrphanInv, Alive
  <1> USE <1>0, AdvanceInv DEF JailSteps, JailLayers, Installed
  <1>1. CASE Advance("maps", {}, "rlimits")
    BY <1>1 DEF Advance
  <1>2. CASE Advance("rlimits", {"rlimits"}, "nnp")
    BY <1>2 DEF Advance
  <1>3. CASE Advance("nnp", {"nnp"}, "clone3")
    BY <1>3 DEF Advance
  <1>4. CASE InstallFilter("clone3", "kill")
    <2>1. Advance("clone3", {"clone3"}, "kill")
      BY <1>4 DEF InstallFilter, IInv, JailInv
    <2> QED BY <2>1 DEF Advance
  <1>5. CASE InstallFilter("kill", "allow")
    <2>1. Advance("kill", {"kill"}, "allow")
      BY <1>5 DEF InstallFilter, IInv, JailInv
    <2> QED BY <2>1 DEF Advance
  <1>6. CASE InstallFilter("allow", "read")
    <2>1. Advance("allow", {"allow"}, "read")
      BY <1>6 DEF InstallFilter, IInv, JailInv
    <2> QED BY <2>1 DEF Advance
  <1> QED
    BY <1>1, <1>2, <1>3, <1>4, <1>5, <1>6 DEF lock_down_worker

\* every step of parent, helper threads, child and kernel keeps the invariant
LEMMA StepInv == IInv /\ [Next]_vars => IInv'
  <1> SUFFICES ASSUME IInv, [Next]_vars PROVE IInv'
    OBVIOUS
  <1> USE LenAssumption, FaultAssumption
      DEF IInv, TypeOK, JailInv, ProcInv, PipeInv, BlameInv, OrphanInv,
          AcceptedReplyIsWhole, NoSpuriousFailure, SignalsOwnChild, JailSteps, JailLayers,
          Installed, Exited, Alive, Exit, Advance, Inject, StdoutOpen, FaultKinds,
          threadVars, childVars, childIO
  <1>1. CASE harden_worker_preinput
    BY <1>1, HardenInv
  <1>2. CASE warm_thread_pool
    BY <1>2, AdvanceInv DEF warm_thread_pool
  <1>3. CASE lock_down_worker
    BY <1>3, LockDownInv
  <1>4. CASE ReadStdin
    <2>1. /\ TypeOK'
          /\ JailInv'
          /\ ProcInv'
      <3>1. consumed' \in 0..InputLen /\ wpc' \in JailSteps \cup {"read", "op", "emit", "flush"}
        BY <1>4 DEF ReadStdin
      <3>2. TypeOK'
        BY <1>4, <3>1 DEF ReadStdin
      <3>3. JailInv'
        BY <1>4 DEF ReadStdin
      <3>4. ProcInv'
        BY <1>4 DEF ReadStdin
      <3> QED
        BY <3>2, <3>3, <3>4
    <2>2. PipeInv'
      BY <1>4 DEF ReadStdin
    <2>3. BlameInv' /\ OrphanInv' /\ AcceptedReplyIsWhole' /\ NoSpuriousFailure'
      BY <1>4 DEF ReadStdin
    <2> QED
      BY <2>1, <2>2, <2>3
  <1>5. CASE RunOp
    BY <1>5 DEF RunOp
  <1>6. CASE emit
    <2>1. CASE Alive /\ wpc \in {"emit", "flush"} /\ Put
      BY <1>6, <2>1 DEF Put
    <2>2. CASE /\ Alive /\ wpc = "emit" /\ wrote < replyLen /\ ~StdoutOpen
               /\ Exit("failure") /\ UNCHANGED mishaps
      \* a broken pipe on an untroubled run: the reader stopped at the cap
      <3>1. mishaps = {} => chan = "ok" /\ proc = "run" /\ stuck = "no"
        BY <2>2
      <3>2. mishaps = {} => replyLen > MaxReply
        BY <2>2, <3>1
      <3>3. TypeOK' /\ JailInv' /\ ProcInv' /\ OrphanInv' /\ PipeInv'
        BY <2>2
      <3>4. BlameInv' /\ AcceptedReplyIsWhole' /\ NoSpuriousFailure'
        BY <2>2, <3>2
      <3> QED
        BY <3>3, <3>4
    <2>3. CASE /\ Alive /\ wpc = "emit" /\ wpc' = "flush"
               /\ UNCHANGED <<main, result, threadVars, proc, status, jail, stuck,
                              childIO, killedAt, mishaps>>
      BY <1>6, <2>3
    <2>4. CASE /\ Alive /\ wpc = "flush" /\ (wrote = replyLen \/ ~StdoutOpen)
               /\ Exit("success") /\ UNCHANGED mishaps
      BY <1>6, <2>4
    <2> QED
      BY <1>6, <2>1, <2>2, <2>3, <2>4 DEF emit
  <1>7. CASE WorkerStderr
    BY <1>7 DEF WorkerStderr
  <1>8. CASE JailStepFails
    BY <1>8 DEF JailStepFails
  <1>9. CASE Crash
    BY <1>9 DEF Crash
  <1>10. CASE GetStuck
    BY <1>10 DEF GetStuck
  <1>11. CASE CpuLimit
    BY <1>11 DEF CpuLimit
  <1>12. CASE Writer
    BY <1>12 DEF Writer
  <1>13. CASE ErrDrain
    BY <1>13 DEF ErrDrain
  <1>14. CASE Reader
    BY <1>14 DEF Reader
  <1>15. CASE ReaderFails
    <2>1. mishaps' # {} /\ mishaps' \in SUBSET (FaultKinds \cup {"deadline", "grace"})
      BY <1>15 DEF ReaderFails
    <2>2. CASE chan' = "err" /\ reader' = "sent"
      BY <1>15, <2>1, <2>2 DEF ReaderFails
    <2>3. CASE chan' = "gone" /\ reader' = "done"
      BY <1>15, <2>1, <2>3 DEF ReaderFails
    <2> QED
      BY <1>15, <2>2, <2>3 DEF ReaderFails
  <1>16. CASE Spawn
    BY <1>16 DEF Spawn, Goto
  <1>17. CASE SpawnFails
    BY <1>17 DEF SpawnFails, Goto
  <1>18. CASE Recv
    BY <1>18 DEF Recv, Goto
  <1>19. CASE Deadline
    BY <1>19 DEF Deadline, Goto, KillGroup
  <1>20. CASE KillWait
    BY <1>20 DEF KillWait, Reap, Goto
  <1>21. CASE ErrWait
    <2>1. CASE chan = "err" /\ Reap("errWait", "errJoinWriter") /\ UNCHANGED result
      BY <1>21, <2>1 DEF Reap, Goto
    <2>2. CASE chan = "gone" /\ Reap("errWait", "done") /\ result' = "readfail"
      BY <1>21, <2>2 DEF Reap, Goto
    <2> QED
      BY <1>21, <2>1, <2>2 DEF ErrWait
  <1>22. CASE ReapBounded
    <2>1. CASE Reap("reap", "joinWriter") /\ UNCHANGED result
      BY <1>22, <2>1 DEF Reap, Goto
    <2>2. CASE Reap("graceWait", "joinWriter") /\ UNCHANGED result
      BY <1>22, <2>2 DEF Reap, Goto
    <2>3. CASE Goto("graceKill", "graceWait") /\ KillGroup /\ UNCHANGED mishaps
      BY <1>22, <2>3 DEF Goto, KillGroup
    <2> QED
      BY <1>22, <2>1, <2>2, <2>3 DEF ReapBounded
  <1>23. CASE GraceExpires
    BY <1>23 DEF GraceExpires, Goto
  <1>24. CASE Join
    BY <1>24 DEF Join, Goto
  <1>25. CASE Decide
    BY <1>25 DEF Decide, Decodings, Goto
  <1>26. CASE ParentDies
    BY <1>26 DEF ParentDies
  <1>27. CASE UNCHANGED vars
    BY <1>27 DEF vars
  <1> QED
    BY <1>1, <1>2, <1>3, <1>4, <1>5, <1>6, <1>7, <1>8, <1>9, <1>10, <1>11, <1>12,
       <1>13, <1>14, <1>15, <1>16, <1>17, <1>18, <1>19, <1>20, <1>21, <1>22, <1>23,
       <1>24, <1>25, <1>26, <1>27
       DEF Next, ChildStep, ChildFault, MainStep, Finished

\* The inductive invariant holds throughout, for every value of the constants.
THEOREM Invariance == Spec => []IInv
  BY InitInv, StepInv, PTL DEF Spec

\* Type correctness of the model of run_worker and worker_main.
THEOREM TypeCorrect == Spec => []TypeOK
  <1>1. IInv => TypeOK
    BY DEF IInv
  <1> QED
    BY <1>1, Invariance, PTL

\* worker_main reads no input outside the complete jail.
THEOREM JailedBeforeInput == Spec => []JailBeforeInput
  <1>1. IInv => JailBeforeInput
    BY DEF IInv, JailBeforeInput, TypeOK, JailInv, JailSteps, JailLayers, Installed
  <1> QED
    BY <1>1, Invariance, PTL

\* run_worker accepts only the complete reply of a worker that exited cleanly.
THEOREM AcceptsOnlyWholeReplies == Spec => []AcceptedReplyIsWhole
  <1>1. IInv => AcceptedReplyIsWhole
    BY DEF IInv
  <1> QED
    BY <1>1, Invariance, PTL

\* run_worker collects its child on every arm that returns.
THEOREM CollectsItsChild == Spec => []NoChildLeftBehind
  <1>1. IInv => NoChildLeftBehind
    BY DEF IInv, ProcInv, NoChildLeftBehind
  <1> QED
    BY <1>1, Invariance, PTL

\* Kill-before-reap: no signal is ever sent to a pid that may have been reused.
THEOREM KillsBeforeReaping == Spec => []SignalsOwnChild
  <1>1. IInv => SignalsOwnChild
    BY DEF IInv, ProcInv
  <1> QED
    BY <1>1, Invariance, PTL

\* The exchange itself invents no failure: one without a mishap is an oversized reply,
\* or a worker under a parent it takes for init ("init" is among the mishaps).
THEOREM FailsOnlyWithCause == Spec => []NoSpuriousFailure
  <1>1. IInv => NoSpuriousFailure
    BY DEF IInv
  <1> QED
    BY <1>1, Invariance, PTL

\* Where orphans go to pid 1, a worker without a parent never reaches its input.
THEOREM OrphansDoNoWork == ASSUME ~Subreaper PROVE Spec => []NoUnsupervisedWork
  <1>1. IInv => NoUnsupervisedWork
    BY DEF IInv, OrphanInv, NoUnsupervisedWork, JailSteps, JailLayers
  <1> QED
    BY <1>1, Invariance, PTL
----------------------------------------------------------------------------
(* Refinement of WorkerCall.                                               *)

\* what a step does to the caller's view: nothing, or one of run_worker's own steps
LEMMA CallerView ==
    ASSUME IInv, [Next]_vars
    PROVE  \/ UNCHANGED <<main, result>> /\ (proc' = proc \/ (proc = "run" /\ proc' = "zombie"))
           \/ main = "spawn" /\ main' = "recv" /\ proc' = "run" /\ UNCHANGED result
           \/ main = "spawn" /\ main' = "done" /\ result' = "spawnfail" /\ UNCHANGED proc
           \/ /\ main \notin {"spawn", "done", "dead"} /\ main' \notin {"spawn", "done", "dead"}
              /\ UNCHANGED result
              /\ \/ proc' = proc
                 \/ proc = "run" /\ proc' = "zombie"
                 \/ proc = "zombie" /\ proc' = "reaped"
           \/ /\ main \notin {"spawn", "done", "dead"} /\ main' = "done" /\ result' # "none"
              /\ proc \in {"zombie", "reaped"} /\ proc' = "reaped"
           \/ /\ main \notin {"spawn", "done", "dead"} /\ main' = "dead" /\ UNCHANGED result
  <1> USE DEF Exit, Advance, threadVars, childVars, childIO
  <1>1. CASE ChildStep
    BY <1>1 DEF ChildStep, harden_worker_preinput, warm_thread_pool, lock_down_worker,
       InstallFilter, ReadStdin, RunOp, emit, Put, WorkerStderr, Alive
  <1>2. CASE ChildFault \/ CpuLimit \/ Writer \/ ErrDrain \/ Reader \/ ReaderFails
    BY <1>2 DEF ChildFault, JailStepFails, Crash, GetStuck, CpuLimit, Writer, ErrDrain,
       Reader, ReaderFails, Alive
  <1>3. CASE Spawn \/ SpawnFails \/ Recv \/ Deadline \/ GraceExpires \/ Finished \/ UNCHANGED vars
    BY <1>3 DEF Spawn, SpawnFails, Recv, Deadline, GraceExpires, KillGroup, Goto, Finished, vars
  <1>4. CASE KillWait \/ ErrWait \/ ReapBounded
    BY <1>4 DEF KillWait, ErrWait, ReapBounded, Reap, Goto, KillGroup
  <1>5. CASE Join
    BY <1>5 DEF Join, Goto, IInv, ProcInv
  <1>6. CASE Decide
    BY <1>6 DEF Decide, Decodings, Goto, IInv, ProcInv
  <1>7. CASE ParentDies
    BY <1>7 DEF ParentDies
  <1> QED
    BY <1>1, <1>2, <1>3, <1>4, <1>5, <1>6, <1>7 DEF Next, MainStep

\* every step of the exchange is a step of the call or invisible to the caller
LEMMA StepRefines ==
    ASSUME IInv, IInv', [Next]_vars
    PROVE  Call!Next \/ UNCHANGED <<CallState, ChildState, ReplyState>>
  <1> USE DEF CallState, ChildState, ReplyState, IInv, AcceptedReplyIsWhole
  <1>1. CASE UNCHANGED <<main, result>> /\ (proc' = proc \/ (proc = "run" /\ proc' = "zombie"))
    BY <1>1
  <1>2. CASE main = "spawn" /\ main' = "recv" /\ proc' = "run" /\ UNCHANGED result
    BY <1>2 DEF Call!Next, Call!Start, ProcInv
  <1>3. CASE main = "spawn" /\ main' = "done" /\ result' = "spawnfail" /\ UNCHANGED proc
    BY <1>3 DEF Call!Next, Call!StartFails, ProcInv
  <1>4. CASE /\ main \notin {"spawn", "done", "dead"} /\ main' \notin {"spawn", "done", "dead"}
             /\ UNCHANGED result
             /\ \/ proc' = proc
                \/ proc = "run" /\ proc' = "zombie"
                \/ proc = "zombie" /\ proc' = "reaped"
    BY <1>4 DEF Call!Next, Call!ChildEnds
  <1>5. CASE /\ main \notin {"spawn", "done", "dead"} /\ main' = "done" /\ result' # "none"
             /\ proc \in {"zombie", "reaped"} /\ proc' = "reaped"
    BY <1>5 DEF Call!Next, Call!Return, ProcInv, TypeOK
  <1>6. CASE main \notin {"spawn", "done", "dead"} /\ main' = "dead" /\ UNCHANGED result
    BY <1>6 DEF Call!Next, Call!Dies
  <1> QED
    BY <1>1, <1>2, <1>3, <1>4, <1>5, <1>6, CallerView

\* run_worker implements the call its callers rely on (WorkerCall): one child, gone
\* before it returns, and an error or the whole reply.
THEOREM WorkerImplementsCall == Spec => ImplementsCall
  <1>1. Init => Call!Init
    BY DEF Init, Call!Init, CallState, ChildState, ReplyState
  <1>2. IInv /\ IInv' /\ [Next]_vars => [Call!Next]_Call!vars
    BY StepRefines DEF Call!vars
  <1> QED
    BY <1>1, <1>2, Invariance, PTL DEF Spec, ImplementsCall, Call!Spec
----------------------------------------------------------------------------
(* The time budget (WorkerBudget): with a core for every worker, the        *)
(* parent's deadline never ends one that was not blocked for the margin.    *)

\* the parent's limit lies above the worker's own by the margin
LEMMA LimitsOrdered ==
    /\ cpu_time_cap \in Nat /\ worker_deadline \in Nat
    /\ worker_deadline = cpu_time_cap + Margin
  BY BudgetAssumption
     DEF cpu_time_cap, worker_deadline, AtMost, Margin, CPU_BACKSTOP_WALL_SECS,
         CPU_THREAD_CLAMP, DEADLINE_THREAD_CLAMP

\* with cores enough, every busy worker is scheduled
LEMMA EveryoneRuns ==
    ASSUME Cardinality(Shards) <= Cores PROVE Scheduled = {Busy}
  <1>1. Busy \subseteq Shards
    BY DEF Busy
  <1>2. /\ Cardinality(Busy) \in Nat /\ Cardinality(Shards) \in Nat
        /\ Cardinality(Busy) <= Cardinality(Shards)
    BY <1>1, BudgetAssumption, FS_Subset, FS_CardinalityType
  <1>3. Cardinality(Busy) <= Cores
    BY <1>2, BudgetAssumption
  <1> QED
    BY <1>3 DEF Scheduled

\* every worker starts with nothing spent on a clock at zero
LEMMA InitAccounted == BudgetInit => BudgetTypeOK /\ TimeAccounted
  BY DEF BudgetInit, BudgetTypeOK, TimeAccounted, DeadlineCatchesOnlyHangs, Live, Margin

\* each step keeps the account; the deadline finds the margin in it
LEMMA StepAccounted ==
    ASSUME Cardinality(Shards) <= Cores, BudgetTypeOK, TimeAccounted, [BudgetNext]_budgetVars
    PROVE  BudgetTypeOK' /\ TimeAccounted'
  <1> USE BudgetAssumption DEF BudgetTypeOK, TimeAccounted, DeadlineCatchesOnlyHangs, Live
  <1>1. CASE Tick
    <2>1. cpu' = [w \in Shards |-> IF w \in Busy THEN cpu[w] + TickSecs ELSE cpu[w]]
      BY <1>1, EveryoneRuns DEF Tick
    <2> QED
      BY <1>1, <2>1 DEF Tick, Busy
  <1>2. ASSUME NEW w \in Shards, Block(w) \/ Unblock(w) \/ ExitsOk(w) \/ CpuLimitKill(w)
        PROVE  BudgetTypeOK' /\ TimeAccounted'
    BY <1>2 DEF Block, Unblock, ExitsOk, CpuLimitKill, Becomes
  <1>3. ASSUME NEW w \in Shards, DeadlineKill(w) PROVE BudgetTypeOK' /\ TimeAccounted'
    <2>1. blocked[w] >= Margin
      BY <1>3, LimitsOrdered DEF DeadlineKill, Becomes, Margin
    <2> QED
      BY <1>3, <2>1 DEF DeadlineKill, Becomes
  <1>4. CASE UNCHANGED budgetVars
    BY <1>4 DEF budgetVars
  <1> QED
    BY <1>1, <1>2, <1>3, <1>4 DEF BudgetNext, AllEnded

\* worker_deadline only ends workers that were blocked for its margin, as long
\* as no more workers run than there are cores.
THEOREM OnlyHangsMeetTheDeadline ==
    ASSUME Cardinality(Shards) <= Cores PROVE BudgetSpec => []DeadlineCatchesOnlyHangs
  <1>1. BudgetInit => BudgetTypeOK /\ TimeAccounted
    BY InitAccounted
  <1>2. BudgetTypeOK /\ TimeAccounted /\ [BudgetNext]_budgetVars => (BudgetTypeOK /\ TimeAccounted)'
    BY StepAccounted
  <1>3. TimeAccounted => DeadlineCatchesOnlyHangs
    BY DEF TimeAccounted
  <1> QED
    BY <1>1, <1>2, <1>3, PTL DEF BudgetSpec

----------------------------------------------------------------------------
(* One emulated run (MicroExec): the effect stream is bounded and a trace   *)
(* that is not marked capped is whole.                                      *)

\* the sets the recorder grows are finite, and a new member adds one
LEMMA SetsFinite ==
    ASSUME RunTypeOK
    PROVE  /\ IsFiniteSet(fixed) /\ Cardinality(fixed) \in Nat
           /\ Cardinality(fixed) <= Cardinality(FixedRegions)
           /\ Cardinality(FixedRegions) \in Nat
           /\ IsFiniteSet(reads) /\ Cardinality(reads) \in Nat
  <1>1. IsFiniteSet({l.field : l \in Locs})
    <2> DEFINE F == [l \in Locs |-> l.field]
    <2>1. F \in Surjection(Locs, {l.field : l \in Locs})
      BY DEF Surjection
    <2> QED
      BY <2>1, ExecAssumption, FS_Surjection
  <1>2. IsFiniteSet(reads) /\ Cardinality(reads) \in Nat
    BY <1>1, FS_Subset, FS_CardinalityType DEF RunTypeOK
  <1> QED
    BY <1>2, ExecAssumption, FS_Subset, FS_CardinalityType DEF RunTypeOK

\* nothing is recorded, lost or ended before the run
LEMMA RunInitInv == RunInit => RunInv
  <1> SUFFICES ASSUME RunInit PROVE RunInv
    OBVIOUS
  <1>0. capped \in BOOLEAN /\ stop \in BOOLEAN /\ dropped \in BOOLEAN /\ ~dropped /\ ~capped
    BY Zenon DEF RunInit
  <1>1. RunTypeOK
    BY <1>0, ExecAssumption DEF RunInit, RunTypeOK
  <1>2. SourcesBounded
    BY FS_EmptySet, ExecAssumption DEF RunInit, SourcesBounded, Mark
  <1> QED
    BY <1>0, <1>1, <1>2, ExecAssumption DEF RunInit, RunInv, EndInv, CountsInv

\* the first touch of a region keeps the types: heap regions stop at their limit
LEMMA RegionTyped ==
    ASSUME RunTypeOK, note_new_region
    PROVE  /\ fixed' \in SUBSET FixedRegions
           /\ pages' \in SUBSET {l.page : l \in Locs} /\ heapish_count' \in 0..MaxHeapish
  <1>0. loc \in Locs /\ loc.region \in FixedRegions \cup {"stack", "heap"}
    BY ExecAssumption DEF RunTypeOK, Regions
  <1>1. CASE loc.region = "stack"
    BY <1>1 DEF note_new_region, RunTypeOK
  <1>2. CASE loc.region = "heap"
    BY <1>0, <1>2, ExecAssumption DEF note_new_region, RunTypeOK
  <1>3. CASE loc.region \in FixedRegions
    <2>1. loc.region # "stack" /\ loc.region # "heap"
      BY <1>3, ExecAssumption
    <2> QED
      BY <1>3, <2>1 DEF note_new_region, RunTypeOK
  <1> QED
    BY <1>0, <1>1, <1>2, <1>3

\* a recorded read is a new field among at most MaxReads
LEMMA ReadHookInv == ASSUME RunInv, ReadHook PROVE RunInv'
  <1> USE DEF RunInv
  <1>0. /\ phase = "mem" /\ "read" \in hooks /\ hooks' = hooks \ {"read"}
        /\ memops' = memops + 1
        /\ UNCHANGED <<loc, late, phase, ended, instret, visits, maps, mapped, covered>>
    BY DEF ReadHook, Fire
  <1>1. CASE capped \/ memops' >= MemCap
    <2>1. CapAndStop
      BY <1>1 DEF ReadHook
    <2> QED
      BY <1>0, <2>1 DEF CapAndStop, RunTypeOK, SourcesBounded, Mark, EndInv, CountsInv
  <1>2. CASE ~(capped \/ memops' >= MemCap)
    <2>1. /\ note_new_region
          /\ reads' = IF loc.region = "stack" THEN reads ELSE reads \cup {loc.field}
          /\ nread' = IF loc.region # "stack" /\ loc.field \notin reads
                         /\ Cardinality(reads') <= MaxReads
                      THEN nread + 1 ELSE nread
          /\ UNCHANGED <<capped, stop, nother, dropped>>
      BY <1>2 DEF ReadHook
    <2>2. IsFiniteSet(reads) /\ Cardinality(reads) \in Nat
      BY SetsFinite
    <2>3. /\ loc.field \notin reads => Cardinality(reads \cup {loc.field}) = Cardinality(reads) + 1
          /\ loc.field \in reads => reads \cup {loc.field} = reads
      BY <2>2, FS_AddElement
    <2>4. nread' \in 0..MaxReads /\ nread' <= Cardinality(reads')
      <3>1. /\ nread \in 0..MaxReads /\ nread <= Cardinality(reads)
            /\ MaxReads \in Nat
        BY ExecAssumption DEF RunTypeOK, SourcesBounded
      <3>2. CASE /\ loc.region # "stack" /\ loc.field \notin reads
                 /\ Cardinality(reads') <= MaxReads
        <4>1. nread' = nread + 1 /\ reads' = reads \cup {loc.field}
          BY <2>1, <3>2
        <4>2. Cardinality(reads') = Cardinality(reads) + 1
          BY <2>3, <3>2, <4>1
        <4> QED
          BY <2>2, <3>1, <3>2, <4>1, <4>2
      <3>3. CASE ~(/\ loc.region # "stack" /\ loc.field \notin reads
                   /\ Cardinality(reads') <= MaxReads)
        <4>1. nread' = nread
          BY <2>1, <3>3
        <4>2. \/ reads' = reads
              \/ loc.field \notin reads /\ reads' = reads \cup {loc.field}
          BY <2>1, <2>3
        <4>3. \/ Cardinality(reads') = Cardinality(reads)
              \/ Cardinality(reads') = Cardinality(reads) + 1
          <5>1. CASE reads' = reads
            BY <5>1
          <5>2. CASE loc.field \notin reads /\ reads' = reads \cup {loc.field}
            BY <5>2, <2>3
          <5> QED
            BY <4>2, <5>1, <5>2
        <4> QED
          BY <2>2, <3>1, <4>1, <4>3
      <3> QED
        BY <3>2, <3>3
    <2>5. reads' \in SUBSET {l.field : l \in Locs}
      BY <2>1 DEF RunTypeOK
    <2>6. RunTypeOK'
      BY <1>0, <2>1, <2>4, <2>5, RegionTyped DEF RunTypeOK
    <2> QED
      BY <1>0, <2>1, <2>4, <2>6 DEF SourcesBounded, Mark, EndInv, CountsInv
  <1> QED
    BY <1>1, <1>2

\* a Write is recorded only below MaxEffects, of which writes are a part
LEMMA WriteHookInv == ASSUME RunInv, WriteHook PROVE RunInv'
  <1> USE DEF RunInv
  <1>0. /\ phase = "mem" /\ "write" \in hooks /\ hooks' = hooks \ {"write"}
        /\ memops' = memops + 1
        /\ UNCHANGED <<loc, late, phase, ended, instret, visits, maps, mapped, covered>>
    BY DEF WriteHook, Fire
  <1>1. CASE capped \/ effects >= MaxEffects \/ memops' >= MemCap
    <2>1. CapAndStop
      BY <1>1 DEF WriteHook
    <2> QED
      BY <1>0, <2>1 DEF CapAndStop, RunTypeOK, SourcesBounded, Mark, EndInv, CountsInv
  <1>2. CASE ~(capped \/ effects >= MaxEffects \/ memops' >= MemCap)
    <2>1. /\ note_new_region
          /\ nother' = IF loc.region = "stack" THEN nother ELSE nother + 1
          /\ UNCHANGED <<reads, nread, capped, stop, dropped>>
      BY <1>2 DEF WriteHook
    <2>2. nother < MaxEffects
      BY <1>2, SetsFinite, ExecAssumption DEF effects, RunTypeOK
    <2>3. nother' \in Nat /\ nother' <= MaxEffects
      BY <2>1, <2>2, ExecAssumption DEF RunTypeOK
    <2>4. RunTypeOK'
      BY <1>0, <2>1, <2>3, RegionTyped DEF RunTypeOK
    <2>5. nread' <= Cardinality(reads') /\ Mark' = 0
      BY <1>0, <2>1 DEF SourcesBounded, Mark
    <2>6. SourcesBounded'
      BY <2>3, <2>5, ExecAssumption DEF SourcesBounded
    <2> QED
      BY <1>0, <2>1, <2>4, <2>6 DEF EndInv, CountsInv
  <1> QED
    BY <1>1, <1>2

\* a page is mapped within MaxMaps or the run ends in an error
LEMMA UnmappedHookInv == ASSUME RunInv, UnmappedHook PROVE RunInv'
  <1> USE DEF RunInv
  <1>0. /\ phase = "mem" /\ hooks' = hooks \ {"unmapped"}
        /\ UNCHANGED <<loc, late, stop, instret, visits, memops, reads, nread, nother, covered>>
    BY DEF UnmappedHook, Fire
  <1>1. CASE /\ maps < MaxMaps /\ maps' = maps + 1 /\ note_new_region
             /\ UNCHANGED <<phase, ended, capped, dropped>>
    <2>1. RunTypeOK'
      BY <1>0, <1>1, RegionTyped, ExecAssumption DEF RunTypeOK
    <2> QED
      BY <1>0, <1>1, <2>1 DEF SourcesBounded, Mark, EndInv, CountsInv
  <1>2. CASE /\ phase' = "end" /\ ended' = "error" /\ dropped' = TRUE
             /\ UNCHANGED <<fixed, pages, heapish_count>>
             /\ \/ maps < MaxMaps /\ maps' = maps + 1 /\ UNCHANGED capped
                \/ UNCHANGED maps /\ capped' = TRUE
    <2>0. capped' \in BOOLEAN /\ dropped' \in BOOLEAN
      BY <1>2, Zenon DEF RunTypeOK
    <2>1. RunTypeOK'
      BY <1>0, <1>2, <2>0, ExecAssumption DEF RunTypeOK
    <2> QED
      BY <1>0, <1>2, <2>1 DEF SourcesBounded, Mark, EndInv, CountsInv
  <1> QED
    BY <1>1, <1>2 DEF UnmappedHook, Fire

\* an instruction's own effect is recorded only below MaxEffects
LEMMA CodeHookInv == ASSUME RunInv, NEW a \in Addrs, CodeHook(a) PROVE RunInv'
  <1> USE DEF RunInv
  <1>0. /\ phase = "fetch" /\ instret' = instret + 1
        /\ visits' = [visits EXCEPT ![a] = @ + 1]
        /\ UNCHANGED <<memops, maps, mapped, fixed, pages, heapish_count, reads, nread, access>>
    BY DEF CodeHook
  <1>1. CASE Overrun(a)
    <2>1. /\ capped' = TRUE /\ stop' = TRUE /\ phase' = "end" /\ ended' = "stop"
          /\ dropped' = TRUE /\ UNCHANGED <<nother, covered>>
      BY <1>1 DEF CodeHook
    <2>2. instret' \in 0..(InstrCap + 1) /\ visits' \in [Addrs -> 0..(VisitCap + 1)]
      \* a run that went over a cap has ended, so no counter is more than one over
      BY <1>0, ExecAssumption DEF EndInv, CountsInv, RunTypeOK
    <2> QED
      BY <1>0, <2>1, <2>2 DEF RunTypeOK, SourcesBounded, Mark, EndInv, CountsInv, access
  <1>2. CASE ~Overrun(a)
    <2>1. /\ covered' = covered \cup ({a} \cap Body)
          /\ phase' \in {"mem", "fetch"} /\ nother' \in {nother, nother + 1}
          /\ UNCHANGED <<capped, stop, ended, dropped>>
      BY <1>2 DEF CodeHook
    <2>2. instret + 1 <= InstrCap /\ visits[a] + 1 <= VisitCap /\ nother < MaxEffects
      BY <1>2, SetsFinite, ExecAssumption DEF Overrun, effects, RunTypeOK
    <2>3. RunTypeOK'
      BY <1>0, <2>1, <2>2, ExecAssumption DEF RunTypeOK, access
    <2> QED
      BY <1>0, <2>1, <2>2, <2>3, ExecAssumption DEF SourcesBounded, Mark, EndInv, CountsInv, access, RunTypeOK
  <1> QED
    BY <1>1, <1>2

\* every step of the emulator and of the hooks keeps the invariant
LEMMA RunStepInv == RunInv /\ [RunNext]_runVars => RunInv'
  <1> SUFFICES ASSUME RunInv, [RunNext]_runVars PROVE RunInv'
    OBVIOUS
  <1> USE DEF RunInv, RunTypeOK, SourcesBounded, Mark, EndInv, CountsInv, counters, record, access
  <1>1. CASE Setup
    BY <1>1 DEF Setup
  <1>2. CASE NextInstruction
    BY <1>2 DEF NextInstruction
  <1>3. ASSUME Returns \/ Stops PROVE RunInv'
    <2>1. /\ phase \in {"fetch", "mem"} /\ phase' = "end" /\ ended' \in {"ret", "stop"}
          /\ UNCHANGED <<capped, stop, instret, visits, memops, maps, mapped, fixed,
                         pages, heapish_count, reads, nread, nother, covered, loc,
                         hooks, late, dropped>>
      BY <1>3 DEF Returns, Stops, EmuEnds
    <2>2. dropped => capped
      BY <2>1
    <2> QED
      BY <2>1, <2>2
  <1>4. CASE RunFaults \/ CountsOut \/ TimesOut
    BY <1>4 DEF RunFaults, CountsOut, TimesOut, EmuEnds
  <1>5. ASSUME NEW l \in Locs, NEW op \in {"read", "write"}, Access(l, op) PROVE RunInv'
    BY <1>5, ExecAssumption DEF Access
  <1>6. CASE Finish
    <2>1. /\ phase = "end" /\ phase' = "over"
          /\ UNCHANGED <<ended, stop, counters, mapped, fixed, pages, heapish_count, reads, nread,
                         covered, access, dropped>>
      BY <1>6 DEF Finish
    <2>2. ended # "no" /\ capped' \in BOOLEAN /\ (~capped' => ~capped /\ ended = "ret")
      BY <1>6, <2>1 DEF Finish
    <2>3. nother' = nother + Mark' /\ Mark = 0 /\ Mark' \in {0, 1}
      BY <1>6, <2>1, <2>2 DEF Finish
    <2> QED
      BY <2>1, <2>2, <2>3, ExecAssumption
  <1>7. CASE UNCHANGED runVars
    BY <1>7 DEF runVars
  <1> QED
    BY <1>1, <1>2, <1>3, <1>4, <1>5, <1>6, <1>7, CodeHookInv, UnmappedHookInv,
       ReadHookInv, WriteHookInv DEF RunNext, Emulate, Over

\* the inductive invariant holds throughout
THEOREM RunInvariance == RunSpec => []RunInv
  BY RunInitInv, RunStepInv, PTL DEF RunSpec

\* Type correctness, the caps on instructions, visits and mapped pages included.
THEOREM RunTypeCorrect == RunSpec => []RunTypeOK
  <1>1. RunInv => RunTypeOK
    BY DEF RunInv
  <1> QED
    BY <1>1, RunInvariance, PTL

\* No program makes a run record more than its limits add up to, although the
\* read hook and the unmapped hook never look at the length of the stream.
THEOREM StreamsAreBounded == RunSpec => []EffectsBounded
  <1>1. RunInv => EffectsBounded
    BY SetsFinite, ExecAssumption
       DEF RunInv, RunTypeOK, SourcesBounded, Mark, EffectsBounded, effects, EffectBound
  <1> QED
    BY <1>1, RunInvariance, PTL

\* A trace without the capped mark is a whole run, whatever cut other runs short.
THEOREM CleanTracesAreWhole == RunSpec => []CleanTraceIsComplete
  <1>1. RunInv => CleanTraceIsComplete
    BY DEF RunInv, RunTypeOK, EndInv, CleanTraceIsComplete
  <1> QED
    BY <1>1, RunInvariance, PTL
=============================================================================

------------------------------ MODULE Explore ------------------------------
(***************************************************************************)
(* MicroExec::run_explore (fnprint-emu) for one seed: the natural run, the *)
(* runs that flip one of its first branches, and the blanket restarts at   *)
(* code nothing has executed.  Of a run only the control flow is kept: the *)
(* branch part of the code hook, the visit cap and the body coverage.      *)
(*                                                                         *)
(* A body is a sequence of one-byte instructions at 0..(Size - 1); Size    *)
(* itself stands for everywhere else.  Which way an unforced branch goes   *)
(* depends on data: free, except that a run that has followed the natural  *)
(* run so far is in the same state and goes the same way.                  *)
(***************************************************************************)
EXTENDS Integers, Sequences, FiniteSets, SequencesExt

CONSTANTS
    Size,             \* func.size
    Instrs,           \* instructions a body may hold: [kind, target, known]
    VisitCap, ExploreDepth, BlanketRestarts   \* Config

ASSUME ExploreAssumption ==
    /\ Size \in Nat \ {0} /\ VisitCap \in Nat \ {0}
    /\ ExploreDepth \in Nat /\ BlanketRestarts \in Nat
    /\ \A i \in Instrs : /\ i.kind \in {"plain", "ret", "junk", "branch"}
                         /\ i.target \in 0..Size /\ i.known \in BOOLEAN

Body == 0..(Size - 1)
None == -1

VARIABLES
    prog,        \* the body
    stage, k,    \* "base", "forced" or "blanket", the runs done in it; "done"
    pc,          \* next instruction of the current run, None between runs
    plan, branch_seen, pending,   \* Rec::force, branch_seen, pending_branch
    dirs,        \* the base run's natural_dirs
    visits, fresh,                \* Rec::visits, Rec::covered
    path, natural,                \* branches of this run and of the base run
    covered, zero,   \* run_explore's covered, and its entries of length zero
    restarts,        \* restart points
    shown, aside,    \* the coverage the base and restart traces report, in order, and
                     \* what the forced runs' traces report
    executed, ran    \* what the base run and the restarts, and what all runs executed

runVars == <<plan, branch_seen, pending, visits, fresh, path>>
totals == <<covered, zero, restarts, shown, aside, executed, ran>>
vars == <<prog, stage, k, pc, runVars, dirs, natural, totals>>

FreshRun(start, force) ==
    /\ pc' = start /\ plan' = force /\ branch_seen' = 0 /\ pending' = None
    /\ visits' = [a \in Body |-> 0] /\ fresh' = {} /\ path' = <<>>

Init ==
    /\ prog \in [Body -> Instrs] /\ stage = "base" /\ k = 0
    /\ pc = 0 /\ plan = <<>> /\ branch_seen = 0 /\ pending = None
    /\ visits = [a \in Body |-> 0] /\ fresh = {} /\ path = <<>>
    /\ dirs = <<>> /\ natural = <<>>
    /\ covered = {} /\ zero = {} /\ restarts = <<>>
    /\ shown = <<>> /\ aside = {} /\ executed = {} /\ ran = {}

----------------------------------------------------------------------------
(* One run.                                                                *)

\* the code hook first learns which way the branch before went
Resolved == IF stage = "base" /\ pending # None THEN Append(dirs, pc = pending) ELSE dirs
ResolveBranch == dirs' = Resolved /\ pending' = None

Landing(a, dir) == IF dir THEN prog[a].target ELSE a + 1

\* where an unforced branch can go
Natural(a) ==
    IF stage = "forced" /\ Len(path) < Len(natural) /\ path = SubSeq(natural, 1, Len(path))
    THEN {natural[Len(path) + 1][2]}
    ELSE {Landing(a, TRUE), Landing(a, FALSE)}

\* force[branch_seen] counts every branch; only a known target can be forced
Branch(a) ==
    LET forced == branch_seen < Len(plan) /\ prog[a].known
        dest == IF forced THEN {Landing(a, plan[branch_seen + 1])} ELSE Natural(a)
    IN  /\ branch_seen' = branch_seen + 1
        /\ dirs' = Resolved
        /\ pending' = IF forced \/ ~prog[a].known THEN None ELSE prog[a].target
        /\ \E d \in dest : pc' = d /\ path' = Append(path, <<a, d>>)

\* the code hook at an instruction of the body
Execute ==
    /\ pc \in Body
    /\ visits' = [visits EXCEPT ![pc] = @ + 1]
    /\ IF visits[pc] + 1 > VisitCap
       THEN ResolveBranch /\ pc' = None /\ UNCHANGED <<fresh, branch_seen, path>>
       ELSE /\ fresh' = fresh \cup {pc}
            /\ \/ prog[pc].kind = "branch" /\ Branch(pc)
               \/ /\ prog[pc].kind = "plain" /\ pc' = pc + 1
                  /\ ResolveBranch /\ UNCHANGED <<branch_seen, path>>
               \/ /\ prog[pc].kind \in {"ret", "junk"} /\ pc' = None
                  /\ ResolveBranch /\ UNCHANGED <<branch_seen, path>>
    /\ UNCHANGED <<prog, stage, k, plan, natural, totals>>

\* outside the body: code that ends the run, or nothing to fetch
Leave ==
    /\ pc = Size /\ pc' = None
    /\ ResolveBranch \/ UNCHANGED <<dirs, pending>>
    /\ UNCHANGED <<prog, stage, k, plan, branch_seen, visits, fresh, path, natural, totals>>

\* try_run failed before the first instruction: an empty, capped trace
SetupFails ==
    /\ pc # None /\ fresh = {} /\ visits = [a \in Body |-> 0] /\ pc' = None
    /\ UNCHANGED <<prog, stage, k, runVars, dirs, natural, totals>>

----------------------------------------------------------------------------
(* Between runs.                                                           *)

depth == IF Len(dirs) < ExploreDepth THEN Len(dirs) ELSE ExploreDepth

\* (mutant) branch i is flipped, but the way to it is not forced
Plan_Bare(i) == <<~dirs[i]>>

\* the natural directions up to branch i, then the other one
Plan(i) == Append(SubSeq(dirs, 1, i - 1), ~dirs[i])

\* the base run's trace is kept; what it covered starts the union
EndBase ==
    /\ stage = "base" /\ pc = None
    /\ natural' = path /\ covered' = fresh /\ executed' = fresh /\ ran' = fresh
    /\ shown' = <<Cardinality(fresh)>>
    /\ k' = 0 /\ stage' = "forced"
    /\ UNCHANGED <<prog, pc, runVars, dirs, zero, restarts, aside>>

\* a forced run's trace is kept as it is, its coverage is not added to the union
NextForced ==
    /\ stage = "forced" /\ pc = None
    /\ IF k = 0 THEN UNCHANGED <<aside, ran>>
       ELSE aside' = aside \cup {Cardinality(fresh)} /\ ran' = ran \cup fresh
    /\ IF k < depth
       THEN k' = k + 1 /\ FreshRun(0, Plan(k + 1)) /\ UNCHANGED stage
       ELSE k' = 0 /\ stage' = "blanket" /\ UNCHANGED <<pc, runVars>>
    /\ UNCHANGED <<prog, dirs, natural, covered, zero, restarts, shown, executed>>

\* addresses the linear sweep decodes
insn_starts == {a \in Body : prog[a].kind # "junk"}
CoveredBytes == Cardinality(covered \ zero)
Uncovered == insn_starts \ covered
\* the first of them, in the order of the sweep
Lowest(S) == CHOOSE a \in S : \A b \in S : a <= b

\* BLANKET_ENOUGH is nine tenths of the body
Restart ==
    /\ stage = "blanket" /\ pc = None /\ Len(restarts) = k
    /\ IF k < BlanketRestarts /\ 10 * CoveredBytes < 9 * Size /\ Uncovered # {}
       THEN /\ restarts' = Append(restarts, Lowest(Uncovered))
            /\ FreshRun(Lowest(Uncovered), <<>>) /\ UNCHANGED stage
       ELSE stage' = "done" /\ UNCHANGED <<pc, runVars, restarts>>
    /\ UNCHANGED <<prog, k, dirs, natural, covered, zero, shown, aside, executed, ran>>

\* (mutant) a restart that ran nothing new is not remembered
Merge_Forgets ==
    /\ stage = "blanket" /\ pc = None /\ Len(restarts) > k
    /\ k' = k + 1
    /\ covered' = covered \cup fresh /\ zero' = zero \ fresh
    /\ shown' = Append(shown, Cardinality(covered' \ zero'))
    /\ executed' = executed \cup fresh /\ ran' = ran \cup fresh
    /\ UNCHANGED <<prog, stage, pc, runVars, dirs, natural, restarts, aside>>

\* (mutant) the trace reports its own run's coverage
Merge_OwnCoverage ==
    /\ stage = "blanket" /\ pc = None /\ Len(restarts) > k
    /\ k' = k + 1
    /\ LET stuck == fresh \subseteq covered
           at == Last(restarts)
       IN  /\ covered' = covered \cup fresh \cup (IF stuck THEN {at} ELSE {})
           /\ zero' = (zero \ fresh) \cup (IF stuck THEN {at} ELSE {})
    /\ shown' = Append(shown, Cardinality(fresh))
    /\ executed' = executed \cup fresh /\ ran' = ran \cup fresh
    /\ UNCHANGED <<prog, stage, pc, runVars, dirs, natural, restarts, aside>>

\* the union grows; a restart point that ran nothing new counts as zero bytes
Merge ==
    /\ stage = "blanket" /\ pc = None /\ Len(restarts) > k
    /\ k' = k + 1
    /\ LET stuck == fresh \subseteq covered
           at == Last(restarts)
       IN  /\ covered' = covered \cup fresh \cup (IF stuck THEN {at} ELSE {})
           /\ zero' = (zero \ fresh) \cup (IF stuck THEN {at} ELSE {})
    /\ shown' = Append(shown, Cardinality(covered' \ zero'))
    /\ executed' = executed \cup fresh /\ ran' = ran \cup fresh
    /\ UNCHANGED <<prog, stage, pc, runVars, dirs, natural, restarts, aside>>

Done == stage = "done" /\ UNCHANGED vars

Next == \/ Execute \/ Leave \/ SetupFails
        \/ EndBase \/ NextForced \/ Restart \/ Merge \/ Done
Spec == Init /\ [][Next]_vars
----------------------------------------------------------------------------
\* the first n branches of the natural run have targets that decode
KnownUpTo(n) == \A j \in 1..n : j <= Len(natural) /\ prog[natural[j][1]].known

\* The k-th forced run goes the natural way up to branch k and the other way
\* there ("follow the natural path up to branch i, then flip it",
\* fnprint-emu/src/lib.rs:303), unless both ways lead to the same place or the
\* run never got started.  Only the branches up to k need a target that decodes:
\* natural_dirs leaves out the others, branch_seen counts them.
FlipsThePlannedBranch ==
    stage = "forced" /\ pc = None /\ k > 0 /\ fresh # {} /\ KnownUpTo(k) =>
       /\ Len(path) >= k /\ SubSeq(path, 1, k - 1) = SubSeq(natural, 1, k - 1)
       /\ path[k][1] = natural[k][1]
       /\ \/ path[k][2] # natural[k][2]
          \/ prog[path[k][1]].target = path[k][1] + 1

\* Restart points only move forward, so no run is spent twice on the same code,
\* failed runs included.
RestartsAdvance ==
    \A i \in 1..(Len(restarts) - 1) : restarts[i] < restarts[i + 1]

\* The last restart's trace reports what the base run and all restarts executed
\* between them, and none of their traces reports more.  What only a forced run
\* executed is not counted, so a forced run's trace may report more; but no trace
\* reports more than the runs of this seed really executed.
BlanketCoverageIsTotal ==
    stage = "done" =>
       /\ Last(shown) = Cardinality(executed)
       /\ \A i \in 1..Len(shown) : shown[i] <= Last(shown)
       /\ \A c \in aside \cup {Last(shown)} : c <= Cardinality(ran)

----------------------------------------------------------------------------
(* The inductive invariant behind the theorems (ExploreProofs).            *)

TypeOK ==
    /\ prog \in [Body -> Instrs] /\ stage \in {"base", "forced", "blanket", "done"}
    /\ k \in Nat /\ pc \in {None} \cup 0..Size /\ visits \in [Body -> Nat]
    /\ path \in Seq(Body \X (0..Size)) /\ natural \in Seq(Body \X (0..Size))
    /\ fresh \subseteq Body /\ covered \subseteq Body /\ zero \subseteq Body
    /\ executed \subseteq Body /\ restarts \in Seq(Body) /\ shown \in Seq(Nat)
    /\ ran \subseteq Body /\ aside \subseteq Nat

\* a restart is under way
InFlight == Len(restarts) = k + 1

\* which runs have been done, and that a run covers the address it starts at
StageInv ==
    /\ stage = "base" => executed = {} /\ covered = {} /\ shown = <<>> /\ aside = {}
    /\ stage \in {"base", "forced"} => restarts = <<>> /\ zero = {}
    /\ stage = "forced" => Len(shown) = 1
    /\ stage \in {"blanket", "done"} => Len(shown) = k + 1 /\ (Len(restarts) = k \/ InFlight)
    /\ stage = "done" => ~InFlight
    /\ stage = "blanket" /\ ~InFlight => pc = None
    /\ stage = "blanket" /\ InFlight =>
          IF fresh = {} THEN pc = None \/ (pc = Last(restarts) /\ visits = [a \in Body |-> 0])
          ELSE Last(restarts) \in fresh

\* code before a restart point is covered, and so is the point once its run is merged
RestartInv ==
    \A i \in 1..Len(restarts) :
       /\ restarts[i] \in insn_starts
       /\ \A a \in insn_starts : a <= restarts[i] =>
             a \in covered \/ (InFlight /\ i = k + 1 /\ a = restarts[i])
       /\ stage = "blanket" /\ i = k + 1 => restarts[i] \notin covered

\* entries of length zero are exactly what was counted without being run
CoverInv ==
    /\ zero \subseteq covered /\ executed = covered \ zero /\ executed \subseteq ran
    /\ shown # <<>> => Last(shown) = Cardinality(executed)
    /\ \A i \in 1..Len(shown) : shown[i] <= Cardinality(executed)
    /\ \A c \in aside : c <= Cardinality(ran)

IInv == TypeOK /\ StageInv /\ RestartInv /\ CoverInv /\ RestartsAdvance

\* Where a run has been follows from the branches it took: stretch n of a path is the
\* straight code from where branch n - 1 went up to branch n.
From(p, n) == IF n = 1 THEN 0 ELSE p[n - 1][2]
Stretch(p, n) == From(p, n)..p[n][1]
Times(p, n, a) == Cardinality({m \in 1..n : a \in Stretch(p, m)})
\* how often a run at address at, with n branches of p behind it, has executed a
Visited(p, n, at, a) == Times(p, n, a) + (IF a \in From(p, n + 1)..(at - 1) THEN 1 ELSE 0)

Falls(d, a) == \A x \in d..(a - 1) : prog[x].kind = "plain"
KnownOn(p, n) == \A j \in 1..n : prog[p[j][1]].known

\* p can be followed by a run under the same visit cap
IsWalk(p) ==
    \A n \in 1..Len(p) :
       /\ From(p, n) <= p[n][1] /\ Falls(From(p, n), p[n][1])
       /\ prog[p[n][1]].kind = "branch" /\ p[n][2] \in {prog[p[n][1]].target, p[n][1] + 1}
       /\ \A a \in Stretch(p, n) : Times(p, n, a) <= VisitCap

\* as long as all branches are known, direction n is that of branch n
Directions(p) ==
    \A n \in 1..Len(p) : KnownOn(p, n) /\ n <= Len(dirs) =>
       dirs[n] = (p[n][2] = prog[p[n][1]].target)

\* the base run takes no orders, and its branches form a walk
BaseWalk == stage = "base" => plan = <<>> /\ IsWalk(path)

\* what it has recorded of them, and what the next hook will
BaseDirs ==
    stage = "base" =>
       /\ Directions(path) /\ Len(dirs) <= Len(path)
       /\ pending # None => Len(dirs) < Len(path) /\ pending = prog[path[Len(path)][1]].target
       /\ pending # None /\ pc # None => path[Len(path)][2] = pc
       /\ \A n \in 1..Len(path) : KnownOn(path, n) =>
             n <= Len(dirs) \/ (pending # None /\ n = Len(path) /\ Len(dirs) = n - 1)

\* where it is, and what it has visited on the way
BasePlace ==
    stage = "base" /\ pc # None =>
       /\ From(path, Len(path) + 1) <= pc /\ Falls(From(path, Len(path) + 1), pc)
       /\ \A a \in Body : visits[a] = Visited(path, Len(path), pc, a) /\ visits[a] <= VisitCap

NaturalInv == stage # "base" => IsWalk(natural) /\ Directions(natural)

\* forced run k is on the natural way until it has taken branch k: nothing there
\* can end it, the visit cap included
ForcedInv ==
    stage = "forced" /\ k > 0 /\ KnownUpTo(k) =>
       /\ k <= Len(dirs) /\ plan = Plan(k) /\ branch_seen = Len(path)
       /\ \A j \in 1..Len(path) : j < k => path[j] = natural[j]
       /\ k <= Len(path) => path[k] = <<natural[k][1], Landing(natural[k][1], ~dirs[k])>>
       /\ Len(path) < k => IF pc = None THEN fresh = {}
             ELSE /\ pc \in Stretch(natural, Len(path) + 1)
                  /\ \A a \in Body : visits[a] = Visited(natural, Len(path), pc, a)

RouteTyped == dirs \in Seq(BOOLEAN) /\ pending \in {None} \cup 0..Size /\ branch_seen \in Nat
RouteInv == RouteTyped /\ BaseWalk /\ BaseDirs /\ BasePlace /\ NaturalInv /\ ForcedInv
=============================================================================

---------------------------- MODULE ExploreProofs ----------------------------
(* The runs of a seed, for every body of every size and any caps: where the *)
(* blanket restarts start and what their traces report, and which way the   *)
(* forced runs go.                                                          *)
EXTENDS Explore, FiniteSetTheorems, WellFoundedInduction, TLAPS

----------------------------------------------------------------------------
\* the first of some addresses exists
LEMMA LowestIsFirst ==
    ASSUME NEW S \in SUBSET Nat, S # {}
    PROVE  Lowest(S) \in S /\ \A b \in S : Lowest(S) <= b
  <1>1. PICK a \in S : \A b \in S : ~(<<b, a>> \in OpToRel(<, Nat))
    BY NatLessThanWellFounded, WFMin
  <1>3. \A x, y \in Nat : x < y => <<x, y>> \in OpToRel(<, Nat)
    BY DEF OpToRel
  <1>4. \A b \in S : ~(b < a)
    BY <1>1, <1>3, Zenon
  <1>2. \A b \in S : a <= b
    BY <1>4
  <1> QED
    BY <1>2 DEF Lowest

\* the body is finite, so its parts can be counted
LEMMA Counting ==
    ASSUME NEW S \in SUBSET Body, NEW T \in SUBSET S
    PROVE  Cardinality(T) \in Nat /\ Cardinality(S) \in Nat /\ Cardinality(T) <= Cardinality(S)
  <1>1. IsFiniteSet(Body)
    BY FS_Interval, ExploreAssumption DEF Body
  <1> QED
    BY <1>1, FS_Subset, FS_CardinalityType

LEMMA Appending ==
    ASSUME NEW S, NEW s \in Seq(S), NEW x \in S
    PROVE  /\ Append(s, x) \in Seq(S) /\ Len(Append(s, x)) = Len(s) + 1 /\ Len(s) \in Nat
           /\ \A i \in 1..Len(s) : Append(s, x)[i] = s[i]
           /\ Append(s, x)[Len(s) + 1] = x /\ Append(s, x) # <<>>
  OBVIOUS

----------------------------------------------------------------------------
(* Types.                                                                  *)

\* control stays in the body or goes to the one place outside it
LEMMA BranchTypes ==
    ASSUME TypeOK, pc \in Body, Branch(pc)
    PROVE  pc' \in 0..Size /\ path' \in Seq(Body \X (0..Size))
  <1> USE ExploreAssumption
  <1>1. \A dir \in BOOLEAN : Landing(pc, dir) \in 0..Size
    BY DEF TypeOK, Body, Landing
  <1>2. Natural(pc) \subseteq 0..Size
    <2>1. CASE Len(path) < Len(natural)
      <3>1. natural[Len(path) + 1] \in Body \X (0..Size)
        BY <2>1 DEF TypeOK
      <3> QED
        BY <1>1, <3>1 DEF Natural
    <2>2. CASE ~(Len(path) < Len(natural))
      BY <1>1, <2>2 DEF Natural
    <2> QED
      BY <2>1, <2>2
  <1>3. Landing(pc, plan[branch_seen + 1]) \in 0..Size
    BY DEF TypeOK, Body, Landing
  <1>4. \E d \in 0..Size : pc' = d /\ path' = Append(path, <<pc, d>>)
    BY <1>2, <1>3 DEF Branch
  <1> QED
    BY <1>4 DEF TypeOK

LEMMA TypeStep == ASSUME TypeOK, [Next]_vars PROVE TypeOK'
  <1> USE ExploreAssumption
  <1>1. ASSUME Execute PROVE TypeOK'
    <2>1. visits' \in [Body -> Nat] /\ UNCHANGED <<prog, stage, k, natural, totals>>
      BY <1>1 DEF Execute, TypeOK
    <2>2. CASE visits[pc] + 1 > VisitCap
      BY <1>1, <2>1, <2>2 DEF Execute, TypeOK, totals
    <2>3. CASE ~(visits[pc] + 1 > VisitCap) /\ prog[pc].kind = "branch" /\ Branch(pc)
      BY <1>1, <2>1, <2>3, BranchTypes DEF Execute, TypeOK, totals
    <2>4. CASE ~(visits[pc] + 1 > VisitCap) /\ path' = path /\ pc' \in {None, pc + 1}
      <3>1. pc' \in {None} \cup 0..Size
        BY <1>1, <2>4 DEF Execute, TypeOK, Body
      <3>2. fresh' \subseteq Body
        BY <1>1, <2>4 DEF Execute, TypeOK
      <3> QED
        BY <2>1, <2>4, <3>1, <3>2 DEF TypeOK, totals
    <2> QED
      BY <1>1, <2>2, <2>3, <2>4 DEF Execute
  <1>2. ASSUME Leave \/ SetupFails PROVE TypeOK'
    BY <1>2 DEF Leave, SetupFails, TypeOK, runVars, totals
  <1>3. ASSUME EndBase PROVE TypeOK'
    <2>1. /\ stage' = "forced" /\ k' = 0 /\ natural' = path /\ covered' = fresh /\ executed' = fresh
          /\ ran' = fresh /\ shown' = <<Cardinality(fresh)>>
          /\ stage = "base" /\ UNCHANGED <<prog, pc, visits, fresh, path, zero, restarts, aside>>
      BY <1>3 DEF EndBase, runVars
    <2>2. Cardinality(fresh) \in Nat
      BY Counting DEF TypeOK
    <2> QED
      BY <2>1, <2>2 DEF TypeOK
  <1>4. ASSUME NextForced PROVE TypeOK'
    <2>1. /\ stage' \in {"forced", "blanket"} /\ k' \in Nat
          /\ UNCHANGED <<prog, natural, covered, zero, restarts, shown, executed>>
          /\ UNCHANGED <<pc, visits, fresh, path>> \/ FreshRun(0, Plan(k + 1))
      BY <1>4 DEF NextForced, TypeOK, runVars
    <2>3. ran' \subseteq Body /\ aside' \subseteq Nat
      <3>1. Cardinality(fresh) \in Nat
        BY Counting DEF TypeOK
      <3> QED
        BY <1>4, <3>1 DEF NextForced, TypeOK
    <2>2. /\ pc' \in {None} \cup 0..Size /\ visits' \in [Body -> Nat] /\ fresh' \subseteq Body
          /\ path' \in Seq(Body \X (0..Size))
      <3>1. CASE UNCHANGED <<pc, visits, fresh, path>>
        BY <3>1 DEF TypeOK
      <3>2. CASE FreshRun(0, Plan(k + 1))
        BY <3>2 DEF FreshRun
      <3> QED
        BY <2>1, <3>1, <3>2
    <2> QED
      BY <2>1, <2>2, <2>3 DEF TypeOK
  <1>5. ASSUME Restart PROVE TypeOK'
    <2>1. Uncovered \subseteq Body /\ Body \subseteq Nat /\ Body \subseteq 0..Size
      BY DEF Uncovered, insn_starts, Body
    <2>2. CASE stage' = "done"
      BY <1>5, <2>2 DEF Restart, TypeOK, runVars
    <2>3. CASE ~(stage' = "done")
      <3>1. Lowest(Uncovered) \in Body
        BY <1>5, <2>1, <2>3, LowestIsFirst DEF Restart
      <3>2. /\ restarts' = Append(restarts, Lowest(Uncovered)) /\ pc' = Lowest(Uncovered)
            /\ visits' = [a \in Body |-> 0] /\ fresh' = {} /\ path' = <<>>
            /\ UNCHANGED <<prog, stage, k, natural, covered, zero, shown, aside, executed, ran>>
        BY <1>5, <2>3 DEF Restart, FreshRun
      <3>4. restarts' \in Seq(Body)
        BY <3>1, <3>2 DEF TypeOK
      <3>3. /\ visits' \in [Body -> Nat] /\ path' \in Seq(Body \X (0..Size))
            /\ fresh' \subseteq Body
        BY <3>2
      <3>5. pc' \in {None} \cup 0..Size
        BY <2>1, <3>1, <3>2
      <3> QED
        BY <3>2, <3>3, <3>4, <3>5 DEF TypeOK
    <2> QED
      BY <2>2, <2>3
  <1>6. ASSUME Merge PROVE TypeOK'
    <2>1. k \in Nat /\ Len(restarts) \in Nat /\ Last(restarts) \in Body
      BY <1>6 DEF Merge, TypeOK, Last
    <2>2. /\ covered' \subseteq Body /\ zero' \subseteq Body /\ executed' \subseteq Body
          /\ ran' \subseteq Body
      BY <1>6, <2>1 DEF Merge, TypeOK
    <2>3. shown' \in Seq(Nat)
      <3>1. shown' = Append(shown, Cardinality(covered' \ zero')) /\ covered' \ zero' \in SUBSET Body
        BY <1>6, <2>2 DEF Merge
      <3>2. Cardinality(covered' \ zero') \in Nat
        BY <3>1, Counting
      <3> QED
        BY <3>1, <3>2 DEF TypeOK
    <2> QED
      BY <1>6, <2>1, <2>2, <2>3 DEF Merge, TypeOK, runVars
  <1>7. ASSUME UNCHANGED vars PROVE TypeOK'
    BY <1>7 DEF vars, runVars, totals, TypeOK
  <1> QED
    BY <1>1, <1>2, <1>3, <1>4, <1>5, <1>6, <1>7 DEF Next, Done

----------------------------------------------------------------------------
(* The invariant.                                                          *)

LEMMA InitInv == Init => IInv
  <1> SUFFICES ASSUME Init PROVE IInv
    OBVIOUS
  <1> USE ExploreAssumption DEF Init
  <1>1. TypeOK
    BY DEF TypeOK, Body
  <1>2. CoverInv
    BY DEF CoverInv
  <1> QED
    BY <1>1, <1>2 DEF IInv, StageInv, RestartInv, RestartsAdvance

\* while a run goes on only its own record changes
LEMMA RunKeepsInv == ASSUME IInv, Execute \/ Leave \/ SetupFails PROVE IInv'
  <1> USE ExploreAssumption
  <1>1. TypeOK'
    BY TypeStep DEF IInv, Next
  <1>2. UNCHANGED <<prog, stage, k, covered, zero, restarts, shown, aside, executed, ran>>
        /\ pc # None
    BY DEF Execute, Leave, SetupFails, totals, Body, None
  <1>3. RestartInv' /\ CoverInv' /\ RestartsAdvance'
    BY <1>2 DEF IInv, RestartInv, CoverInv, RestartsAdvance, insn_starts, InFlight
  <1>4. StageInv'
    <2>1. SUFFICES ASSUME stage = "blanket"
                   PROVE  IF fresh' = {}
                          THEN pc' = None \/ (pc' = Last(restarts) /\ visits' = [a \in Body |-> 0])
                          ELSE Last(restarts) \in fresh'
      BY <1>2 DEF IInv, StageInv, InFlight
    <2>2. InFlight
      BY <1>2, <2>1 DEF IInv, StageInv
    <2>3. CASE Execute
      <3>1. CASE fresh = {}
        <4>1. pc = Last(restarts) /\ visits[pc] = 0 /\ pc \in Body
          BY <1>2, <2>1, <2>2, <2>3, <3>1 DEF IInv, StageInv, Execute
        <4>2. fresh' = {pc}
          BY <2>3, <3>1, <4>1 DEF Execute
        <4> QED
          BY <4>1, <4>2
      <3>2. CASE fresh # {}
        BY <2>1, <2>2, <2>3, <3>2 DEF IInv, StageInv, Execute
      <3> QED
        BY <3>1, <3>2
    <2>4. CASE Leave \/ SetupFails
      BY <2>1, <2>2, <2>4 DEF IInv, StageInv, Leave, SetupFails, runVars
    <2> QED
      BY <2>3, <2>4
  <1> QED
    BY <1>1, <1>3, <1>4 DEF IInv

LEMMA EndBaseKeepsInv == ASSUME IInv, EndBase PROVE IInv'
  <1>1. TypeOK'
    BY TypeStep DEF IInv, Next
  <1>2. /\ restarts' = <<>> /\ shown' = <<Cardinality(fresh)>> /\ zero' = {} /\ aside' = aside
        /\ covered' = fresh /\ executed' = fresh /\ ran' = fresh /\ stage' = "forced"
    BY DEF EndBase, IInv, StageInv
  <1>3. Cardinality(fresh) \in Nat /\ aside = {}
    BY Counting DEF IInv, TypeOK, StageInv, EndBase
  <1>4. CoverInv'
    BY <1>2, <1>3 DEF CoverInv, Last
  <1> QED
    BY <1>1, <1>2, <1>4 DEF IInv, StageInv, RestartInv, RestartsAdvance

LEMMA NextForcedKeepsInv == ASSUME IInv, NextForced PROVE IInv'
  <1>1. TypeOK'
    BY TypeStep DEF IInv, Next
  <1>2. restarts' = <<>> /\ shown' = shown /\ zero' = {} /\ UNCHANGED <<covered, executed>>
        /\ (stage' = "forced" \/ (stage' = "blanket" /\ k' = 0 /\ pc' = None))
        /\ Len(shown) = 1
    BY DEF NextForced, IInv, StageInv
  <1>6. ran \subseteq ran' /\ \A c \in aside' : c <= Cardinality(ran')
    <2>1. ran' \in SUBSET Body /\ ran \in SUBSET ran' /\ ran \in SUBSET Body
      BY <1>1 DEF NextForced, IInv, TypeOK
    <2>2. Cardinality(ran) \in Nat /\ Cardinality(ran') \in Nat
          /\ Cardinality(ran) <= Cardinality(ran')
      BY <2>1, Counting
    <2>3. \A c \in aside : c \in Nat /\ c <= Cardinality(ran)
      BY DEF IInv, TypeOK, CoverInv
    <2>4. CASE k = 0
      BY <2>3, <2>4 DEF NextForced
    <2>5. CASE k # 0
      <3>1. aside' = aside \cup {Cardinality(fresh)} /\ fresh \in SUBSET ran'
        BY <2>5 DEF NextForced
      <3>2. Cardinality(fresh) \in Nat /\ Cardinality(fresh) <= Cardinality(ran')
        BY <2>1, <3>1, Counting
      <3>3. \A c \in aside : c <= Cardinality(ran')
        BY <2>2, <2>3
      <3> QED
        BY <2>1, <3>1, <3>2, <3>3
    <2> QED
      BY <2>1, <2>4, <2>5
  <1>3. CoverInv'
    <2>1. zero = {} /\ CoverInv
      BY DEF NextForced, IInv, StageInv
    <2>2. executed' \subseteq ran' /\ Last(shown)' = Last(shown)
      BY <1>2, <1>6, <2>1 DEF CoverInv, Last
    <2> QED
      BY <1>2, <1>6, <2>1, <2>2 DEF CoverInv
  <1>5. RestartInv' /\ RestartsAdvance'
    BY <1>2 DEF RestartInv, RestartsAdvance
  <1>4. StageInv'
    BY <1>2 DEF StageInv, InFlight
  <1> QED
    BY <1>1, <1>3, <1>4, <1>5 DEF IInv

\* the lowest uncovered start lies beyond every restart point so far
LEMMA RestartKeepsInv == ASSUME IInv, Restart PROVE IInv'
  <1> USE ExploreAssumption
  <1>1. TypeOK'
    BY TypeStep DEF IInv, Next
  <1>2. UNCHANGED <<prog, k, covered, zero, shown, aside, executed, ran>> /\ stage = "blanket"
        /\ pc = None /\ Len(restarts) = k /\ k \in Nat /\ restarts \in Seq(Body)
        /\ Len(shown) = k + 1
    BY DEF Restart, IInv, TypeOK, StageInv
  <1>3. CoverInv'
    BY <1>2 DEF IInv, CoverInv
  <1>4. CASE UNCHANGED <<pc, runVars, restarts>> /\ stage' = "done"
    BY <1>1, <1>2, <1>3, <1>4 DEF IInv, StageInv, RestartInv, RestartsAdvance, InFlight, insn_starts
  <1>5. CASE Uncovered # {} /\ restarts' = Append(restarts, Lowest(Uncovered))
             /\ FreshRun(Lowest(Uncovered), <<>>) /\ stage' = stage
    <2> DEFINE at == Lowest(Uncovered)
    <2>1. Uncovered \in SUBSET Nat
      BY DEF Uncovered, insn_starts, Body
    <2>2. at \in insn_starts /\ at \notin covered /\ at \in Body
          /\ \A a \in insn_starts \ covered : at <= a
      BY <1>5, <2>1, LowestIsFirst DEF Uncovered, insn_starts
    <2> HIDE DEF at
    <2>3. /\ Len(restarts') = k + 1 /\ restarts'[k + 1] = at /\ restarts' \in Seq(Body)
          /\ \A i \in 1..k : restarts'[i] = restarts[i]
      BY <1>2, <1>5, <2>2, Appending DEF at
    <2>4. \A i \in 1..k : restarts[i] \in covered /\ restarts[i] \in insn_starts
                          /\ \A a \in insn_starts : a <= restarts[i] => a \in covered
      BY <1>2 DEF IInv, RestartInv, InFlight, insn_starts, Body
    <2>5. \A i \in 1..k : restarts[i] < at
      BY <2>2, <2>4 DEF insn_starts, Body
    <2>6. StageInv'
      BY <1>2, <1>5, <2>3 DEF IInv, StageInv, InFlight, FreshRun, Last, at
    <2>7. RestartInv'
      <3>1. \A i \in 1..(k + 1) : i \in 1..k \/ i = k + 1
        BY <1>2
      <3>2. insn_starts' = insn_starts
        BY <1>2 DEF insn_starts
      <3>3. \A a \in insn_starts : a <= at => a \in covered \/ a = at
        BY <2>2 DEF insn_starts, Body
      <3> QED
        BY <1>2, <2>2, <2>3, <2>4, <3>1, <3>2, <3>3 DEF RestartInv, InFlight
    <2>8. RestartsAdvance'
      <3>1. \A i \in 1..k : i + 1 \in 1..k \/ i + 1 = k + 1
        BY <1>2
      <3> QED
        BY <1>2, <2>3, <2>5, <3>1 DEF IInv, RestartsAdvance
    <2> QED
      BY <1>1, <1>3, <2>6, <2>7, <2>8 DEF IInv
  <1> QED
    BY <1>4, <1>5 DEF Restart

\* a run that reached code covers its start; one that did not counts for nothing
LEMMA MergeKeepsInv == ASSUME IInv, Merge PROVE IInv'
  <1> USE ExploreAssumption
  <1> DEFINE at == Last(restarts)
  <1>1. TypeOK'
    BY TypeStep DEF IInv, Next
  <1>2. /\ UNCHANGED <<prog, stage, restarts, fresh, pc>> /\ stage = "blanket" /\ pc = None
        /\ Len(restarts) = k + 1 /\ k \in Nat /\ k' = k + 1 /\ Len(shown) = k + 1
        /\ at = restarts[k + 1] /\ at \notin covered /\ zero \subseteq covered
        /\ executed = covered \ zero /\ executed' = executed \cup fresh
        /\ ran' = ran \cup fresh /\ aside' = aside
        /\ (fresh = {} \/ at \in fresh)
        /\ shown' = Append(shown, Cardinality(covered' \ zero'))
    BY DEF Merge, IInv, TypeOK, StageInv, RestartInv, CoverInv, InFlight, Last, runVars
  <1>3. at \in covered' /\ covered \subseteq covered' /\ executed' = covered' \ zero'
    <2>1. CASE fresh \subseteq covered
      <3>1. covered' = covered \cup {at} /\ zero' = zero \cup {at} /\ fresh = {}
        BY <1>2, <2>1 DEF Merge
      <3> QED
        BY <1>2, <3>1
    <2>2. CASE ~(fresh \subseteq covered)
      <3>1. covered' = covered \cup fresh /\ zero' = zero \ fresh /\ at \in fresh
        BY <1>2, <2>2 DEF Merge
      <3> QED
        BY <1>2, <3>1
    <2> QED
      BY <2>1, <2>2
  <1> HIDE DEF at
  <1>4. CoverInv'
    <2>1. /\ executed' \in SUBSET Body /\ executed \in SUBSET executed'
          /\ shown \in Seq(Nat)
      BY <1>1, <1>2 DEF IInv, TypeOK
    <2>2. Cardinality(executed') \in Nat /\ Cardinality(executed) \in Nat
          /\ Cardinality(executed) <= Cardinality(executed')
      BY <2>1, Counting
    <2>3. /\ Len(shown') = k + 2 /\ shown'[k + 2] = Cardinality(executed')
          /\ \A i \in 1..(k + 1) : shown'[i] = shown[i] /\ shown[i] \in Nat
      <3>1. shown' = Append(shown, Cardinality(executed')) /\ Len(shown) = k + 1
        BY <1>2, <1>3
      <3> QED
        BY <1>2, <3>1, <2>1, <2>2
    <2>4. \A i \in 1..(k + 1) : shown[i] <= Cardinality(executed)
      BY <1>2 DEF IInv, CoverInv
    <2>5. zero' \subseteq covered' /\ executed' = covered' \ zero' /\ executed' \subseteq ran'
      BY <1>2, <1>3 DEF Merge, IInv, CoverInv
    <2>7. \A c \in aside' : c <= Cardinality(ran')
      <3>1. ran \in SUBSET ran' /\ ran' \in SUBSET Body
        BY <1>1, <1>2 DEF TypeOK
      <3>2. Cardinality(ran) \in Nat /\ Cardinality(ran') \in Nat
            /\ Cardinality(ran) <= Cardinality(ran')
        BY <3>1, Counting
      <3>3. \A c \in aside : c \in Nat /\ c <= Cardinality(ran)
        BY DEF IInv, TypeOK, CoverInv
      <3> QED
        BY <1>2, <3>2, <3>3
    <2>6. \A i \in 1..Len(shown') : shown'[i] <= Cardinality(executed')
      <3>1. \A i \in 1..(k + 2) : i \in 1..(k + 1) \/ i = k + 2
        BY <1>2
      <3> QED
        BY <2>2, <2>3, <2>4, <3>1
    <2> QED
      BY <2>3, <2>5, <2>6, <2>7 DEF CoverInv, Last
  <1>5. StageInv'
    <2>1. Len(shown') = k + 2
      BY <1>1, <1>2 DEF IInv, TypeOK
    <2> QED
      BY <1>2, <2>1 DEF StageInv, InFlight
  <1>6. RestartInv'
    <2>1. insn_starts' = insn_starts
      BY <1>2 DEF insn_starts
    <2>2. \A i \in 1..Len(restarts), a \in insn_starts : a <= restarts[i] => a \in covered'
      BY <1>2, <1>3 DEF IInv, RestartInv
    <2> QED
      BY <1>2, <2>1, <2>2 DEF IInv, RestartInv
  <1>7. RestartsAdvance'
    BY <1>2 DEF IInv, RestartsAdvance
  <1> QED
    BY <1>1, <1>4, <1>5, <1>6, <1>7 DEF IInv

LEMMA StepInv == IInv /\ [Next]_vars => IInv'
  <1>1. ASSUME IInv, UNCHANGED vars PROVE IInv'
    BY <1>1 DEF vars, runVars, totals, IInv, TypeOK, StageInv, RestartInv, CoverInv,
                RestartsAdvance, InFlight, insn_starts
  <1> QED
    BY <1>1, RunKeepsInv, EndBaseKeepsInv, NextForcedKeepsInv, RestartKeepsInv, MergeKeepsInv
       DEF Next, Done

THEOREM Invariance == Spec => []IInv
  BY InitInv, StepInv, PTL DEF Spec

\* Restart points only move forward through the body: every run of the blanket
\* mode starts at code that no run before it was started at or executed.
THEOREM RestartsMoveForward == Spec => []RestartsAdvance
  BY Invariance, PTL DEF IInv

\* The coverage that the last restart's trace carries is what the base run and the
\* restarts have executed, the most that any of their traces carries; and no trace,
\* those of the forced runs included, carries more than all runs have executed.
THEOREM CoverageIsTotal == Spec => []BlanketCoverageIsTotal
  <1>1. IInv => BlanketCoverageIsTotal
    <2> SUFFICES ASSUME IInv, stage = "done"
                 PROVE  /\ Last(shown) = Cardinality(executed)
                        /\ \A i \in 1..Len(shown) : shown[i] <= Last(shown)
                        /\ \A c \in aside \cup {Last(shown)} : c <= Cardinality(ran)
      BY DEF BlanketCoverageIsTotal
    <2>1. Len(shown) = k + 1 /\ k \in Nat /\ shown # <<>>
      BY DEF IInv, TypeOK, StageInv
    <2>2. executed \in SUBSET ran /\ ran \in SUBSET Body
      BY DEF IInv, TypeOK, CoverInv
    <2>3. Cardinality(executed) <= Cardinality(ran)
      BY <2>2, Counting, ExploreAssumption
    <2> QED
      BY <2>1, <2>3 DEF IInv, CoverInv
  <1> QED
    BY <1>1, Invariance, PTL

----------------------------------------------------------------------------
(* Forced runs.  A run that goes the natural way visits what the natural    *)
(* run visited, as often, so what did not end that run does not end it.     *)

Paths == Seq(Body \X (0..Size))

LEMMA PathTypes ==
    ASSUME NEW p \in Paths
    PROVE  /\ Len(p) \in Nat
           /\ \A n \in 1..Len(p) : p[n][1] \in Body /\ p[n][2] \in 0..Size
           /\ \A n \in 1..(Len(p) + 1) : From(p, n) \in 0..Size
  <1> USE ExploreAssumption
  <1>1. \A n \in 1..Len(p) : p[n] \in Body \X (0..Size)
    BY DEF Paths
  <1>2. \A n \in 1..Len(p) : p[n][1] \in Body /\ p[n][2] \in 0..Size
    BY <1>1
  <1>3. \A n \in 1..(Len(p) + 1) : n = 1 \/ n - 1 \in 1..Len(p)
    BY DEF Paths
  <1> QED
    BY <1>2, <1>3 DEF Paths, From

LEMMA CountsNothing == ASSUME NEW p, NEW a PROVE Times(p, 0, a) = 0
  <1>1. {m \in 1..0 : a \in Stretch(p, m)} = {}
    OBVIOUS
  <1> QED
    BY <1>1, FS_EmptySet DEF Times

LEMMA CountsStretch ==
    ASSUME NEW p, NEW a, NEW n \in Nat
    PROVE  /\ Times(p, n, a) \in Nat
           /\ Times(p, n + 1, a) = Times(p, n, a) + (IF a \in Stretch(p, n + 1) THEN 1 ELSE 0)
  <1> DEFINE In(m) == {i \in 1..m : a \in Stretch(p, i)}
  <1>1. IsFiniteSet(1..n)
    BY FS_Interval
  <1>2. IsFiniteSet(In(n)) /\ n + 1 \notin In(n)
    BY <1>1, FS_Subset
  <1>3. In(n + 1) = IF a \in Stretch(p, n + 1) THEN In(n) \cup {n + 1} ELSE In(n)
    BY 1..(n + 1) = 1..n \cup {n + 1}
  <1>4. Times(p, n, a) = Cardinality(In(n)) /\ Times(p, n + 1, a) = Cardinality(In(n + 1))
    BY DEF Times
  <1> HIDE DEF In
  <1>5. Cardinality(In(n)) \in Nat /\ Cardinality(In(n) \cup {n + 1}) = Cardinality(In(n)) + 1
    BY <1>2, FS_CardinalityType, FS_AddElement
  <1> QED
    BY <1>3, <1>4, <1>5

\* paths that agree so far have the same stretches and counts so far
LEMMA SameSoFar ==
    ASSUME NEW p, NEW q, NEW n \in Nat, \A j \in 1..n : p[j] = q[j]
    PROVE  /\ \A i \in 1..(n + 1) : From(p, i) = From(q, i)
           /\ \A i \in 1..n : Stretch(p, i) = Stretch(q, i)
           /\ \A i \in 0..n : \A a : Times(p, i, a) = Times(q, i, a)
  <1>1. \A i \in 1..(n + 1) : From(p, i) = From(q, i)
    <2>1. \A i \in 1..(n + 1) : i = 1 \/ i - 1 \in 1..n
      OBVIOUS
    <2> QED
      BY <2>1 DEF From
  <1>2. \A i \in 1..n : Stretch(p, i) = Stretch(q, i)
    BY <1>1 DEF Stretch
  <1>3. ASSUME NEW i \in 0..n, NEW a PROVE Times(p, i, a) = Times(q, i, a)
    <2>1. {m \in 1..i : a \in Stretch(p, m)} = {m \in 1..i : a \in Stretch(q, m)}
      BY <1>2
    <2> QED
      BY <2>1 DEF Times
  <1> QED
    BY <1>1, <1>2, <1>3

\* a branch at address at ends the stretch that at lies in
LEMMA VisitedAfterBranch ==
    ASSUME NEW p, NEW n \in Nat, NEW at \in Nat, p[n + 1][1] = at, NEW a \in Nat,
           From(p, n + 1) \in Nat, From(p, n + 1) <= at, From(p, n + 2) \in Nat
    PROVE  /\ Times(p, n + 1, a) = Visited(p, n, at, a) + (IF a = at THEN 1 ELSE 0)
           /\ Visited(p, n + 1, From(p, n + 2), a) = Times(p, n + 1, a)
  <1>1. Times(p, n, a) \in Nat /\ Times(p, n + 1, a) \in Nat
        /\ Times(p, n + 1, a) = Times(p, n, a) + (IF a \in Stretch(p, n + 1) THEN 1 ELSE 0)
    BY CountsStretch
  <1>2. a \in Stretch(p, n + 1) <=> a = at \/ a \in From(p, n + 1)..(at - 1)
    BY DEF Stretch
  <1>3. at \notin From(p, n + 1)..(at - 1)
    OBVIOUS
  <1>4. a \notin From(p, n + 2)..(From(p, n + 2) - 1)
    OBVIOUS
  <1>5. n + 1 + 1 = n + 2
    OBVIOUS
  <1> QED
    BY <1>1, <1>2, <1>3, <1>4, <1>5 DEF Visited

\* a plain instruction at address at lengthens the stretch by it
LEMMA VisitedAfterPlain ==
    ASSUME NEW p, NEW n \in Nat, NEW at \in Nat, NEW a \in Nat,
           From(p, n + 1) \in Nat, From(p, n + 1) <= at
    PROVE  Visited(p, n, at + 1, a) = Visited(p, n, at, a) + (IF a = at THEN 1 ELSE 0)
  <1>1. Times(p, n, a) \in Nat
    BY CountsStretch
  <1> QED
    BY <1>1 DEF Visited

\* a walk goes on with any branch within the visit cap
LEMMA WalkGoesOn ==
    ASSUME NEW p \in Paths, IsWalk(p), NEW at \in Body, NEW d \in 0..Size,
           From(p, Len(p) + 1) <= at, Falls(From(p, Len(p) + 1), at),
           prog[at].kind = "branch", d \in {prog[at].target, at + 1},
           \A a \in Body : Visited(p, Len(p), at, a) + (IF a = at THEN 1 ELSE 0) <= VisitCap
                           \/ a \notin From(p, Len(p) + 1)..at
    PROVE  IsWalk(Append(p, <<at, d>>))
  <1> USE ExploreAssumption
  <1> DEFINE q == Append(p, <<at, d>>)
             n == Len(p)
  <1>1. /\ Len(q) = n + 1 /\ n \in Nat /\ q[n + 1] = <<at, d>> /\ q \in Paths
        /\ \A j \in 1..n : q[j] = p[j]
    BY DEF Paths
  <1>2. From(p, n + 1) \in 0..Size /\ \A i \in 1..n : p[i][1] \in Body /\ From(p, i) \in 0..Size
    BY <1>1, PathTypes
  <1> HIDE DEF q
  <1> HIDE DEF n
  <1>3. /\ \A i \in 1..(n + 1) : From(q, i) = From(p, i)
        /\ \A i \in 1..n : Stretch(q, i) = Stretch(p, i)
        /\ \A i \in 0..n : \A a : Times(q, i, a) = Times(p, i, a)
    <2>1. \A j \in 1..n : q[j] = p[j]
      BY <1>1
    <2> QED
      BY <1>1, <2>1, SameSoFar
  <1>4. ASSUME NEW i \in 1..n
        PROVE  /\ From(q, i) <= q[i][1] /\ Falls(From(q, i), q[i][1])
               /\ prog[q[i][1]].kind = "branch" /\ q[i][2] \in {prog[q[i][1]].target, q[i][1] + 1}
               /\ \A a \in Stretch(q, i) : Times(q, i, a) <= VisitCap
    <2>1. q[i] = p[i] /\ From(q, i) = From(p, i) /\ Stretch(q, i) = Stretch(p, i) /\ i \in 0..n
      BY <1>1, <1>3
    <2> QED
      BY <1>3, <2>1 DEF IsWalk, n
  <1>5. From(q, n + 1) = From(p, n + 1) /\ q[n + 1][1] = at /\ q[n + 1][2] = d /\ From(q, n + 2) = d
    <2>1. n + 2 - 1 = n + 1 /\ n + 2 # 1
      BY <1>1
    <2> QED
      BY <1>1, <1>3, <2>1 DEF From
  <1>6. ASSUME NEW a \in Stretch(q, n + 1) PROVE Times(q, n + 1, a) <= VisitCap
    <2>1. a \in From(p, n + 1)..at /\ a \in Body
      BY <1>2, <1>5 DEF Stretch, Body
    <2>2. Times(q, n + 1, a) = Visited(q, n, at, a) + (IF a = at THEN 1 ELSE 0)
      <3>1. /\ at \in Nat /\ a \in Nat /\ n \in Nat /\ q[n + 1][1] = at
            /\ From(q, n + 1) \in Nat /\ From(q, n + 1) <= at /\ From(q, n + 2) \in Nat
        BY <1>1, <1>2, <1>5, <2>1 DEF Body, n
      <3> QED
        BY <3>1, VisitedAfterBranch
    <2>3. Visited(q, n, at, a) = Visited(p, n, at, a)
      BY <1>1, <1>3, <1>5 DEF Visited
    <2> QED
      BY <2>1, <2>2, <2>3 DEF n
  <1>7. \A i \in 1..(n + 1) : i \in 1..n \/ i = n + 1
    BY <1>1
  <1>8. IsWalk(q)
    BY <1>1, <1>4, <1>5, <1>6, <1>7 DEF IsWalk, n
  <1> QED
    BY <1>8 DEF q

LEMMA RouteTypesStep == ASSUME TypeOK, RouteTyped, [Next]_vars PROVE RouteTyped'
  <1> USE ExploreAssumption
  <1>1. Resolved \in Seq(BOOLEAN)
    <2> DEFINE b == (pc = pending)
    <2>1. b \in BOOLEAN /\ dirs \in Seq(BOOLEAN) /\ Resolved \in {dirs, Append(dirs, b)}
      BY DEF Resolved, RouteTyped
    <2> HIDE DEF b
    <2> QED
      BY <2>1, Appending
  <1>2. ASSUME ResolveBranch, branch_seen' = branch_seen PROVE RouteTyped'
    BY <1>1, <1>2 DEF ResolveBranch, RouteTyped
  <1>3. ASSUME UNCHANGED <<dirs, pending, branch_seen>> PROVE RouteTyped'
    BY <1>3 DEF RouteTyped
  <1>4. ASSUME Execute PROVE RouteTyped'
    <2>1. ASSUME pc \in Body, Branch(pc) PROVE RouteTyped'
      <3>1. prog[pc].target \in 0..Size
        BY <2>1 DEF TypeOK
      <3>2. pending' \in {None} \cup 0..Size /\ dirs' = Resolved /\ branch_seen' \in Nat
        BY <2>1, <3>1 DEF Branch, RouteTyped
      <3> QED
        BY <1>1, <3>2 DEF RouteTyped
    <2> QED
      BY <1>2, <1>4, <2>1 DEF Execute
  <1>5. ASSUME FreshRun(0, Plan(k + 1)) \/ FreshRun(Lowest(Uncovered), <<>>), dirs' = dirs
        PROVE  RouteTyped'
    BY <1>5 DEF FreshRun, RouteTyped
  <1>6. ASSUME NextForced \/ Restart PROVE RouteTyped'
    BY <1>3, <1>5, <1>6 DEF NextForced, Restart, runVars
  <1> QED
    BY <1>2, <1>3, <1>4, <1>6 DEF Next, vars, runVars, Leave, SetupFails, EndBase, Merge, Done

LEMMA RouteInit == Init => RouteInv
  <1> SUFFICES ASSUME Init PROVE RouteInv
    OBVIOUS
  <1> USE ExploreAssumption DEF Init
  <1>1. RouteTyped /\ NaturalInv /\ ForcedInv /\ Len(path) = 0 /\ Len(dirs) = 0
    BY DEF RouteTyped, NaturalInv, ForcedInv
  <1>2. From(path, 1) = 0 /\ Falls(0, 0)
    BY DEF From, Falls
  <1>3. \A a \in Body : Visited(path, 0, 0, a) = 0
    <2>1. \A a \in Body : a \notin 0..(0 - 1)
      OBVIOUS
    <2> QED
      BY <1>2, <2>1, CountsNothing DEF Visited
  <1>4. IsWalk(path) /\ Directions(path)
    BY <1>1 DEF IsWalk, Directions
  <1> QED
    BY <1>1, <1>2, <1>3, <1>4 DEF RouteInv, BaseWalk, BaseDirs, BasePlace

----------------------------------------------------------------------------
(* The base run.                                                           *)

\* after the hook has resolved the branch before, every branch so far is recorded
LEMMA HookRecords ==
    ASSUME TypeOK, RouteTyped, BaseDirs, stage = "base", pc # None
    PROVE  /\ Resolved \in Seq(BOOLEAN) /\ Len(Resolved) \in Nat /\ Len(Resolved) <= Len(path)
           /\ \A n \in 1..Len(path) : KnownOn(path, n) =>
                 /\ n <= Len(Resolved)
                 /\ Resolved[n] = (path[n][2] = prog[path[n][1]].target)
  <1>1. Len(path) \in Nat /\ dirs \in Seq(BOOLEAN) /\ Len(dirs) \in Nat
    BY DEF TypeOK, RouteTyped
  <1>2. CASE pending = None
    <2>1. Resolved = dirs
      BY <1>2 DEF Resolved
    <2> QED
      BY <1>1, <1>2, <2>1 DEF BaseDirs, Directions
  <1>3. CASE pending # None
    <2> DEFINE N == Len(path)
               b == (pc = pending)
    <2>1. Resolved = Append(dirs, b) /\ b \in BOOLEAN
      BY <1>3 DEF Resolved
    <2>2. /\ Len(dirs) < N /\ b = (path[N][2] = prog[path[N][1]].target)
          /\ \A n \in 1..N : KnownOn(path, n) => n <= Len(dirs) \/ (n = N /\ Len(dirs) = n - 1)
      BY <1>3 DEF BaseDirs
    <2> HIDE DEF b
    <2>3. /\ Len(Resolved) = Len(dirs) + 1 /\ Resolved[Len(dirs) + 1] = b
          /\ \A n \in 1..Len(dirs) : Resolved[n] = dirs[n]
          /\ Resolved \in Seq(BOOLEAN)
      BY <1>1, <2>1, Appending
    <2>4. ASSUME NEW n \in 1..N, KnownOn(path, n)
          PROVE  n <= Len(Resolved) /\ Resolved[n] = (path[n][2] = prog[path[n][1]].target)
      <3>1. CASE n <= Len(dirs)
        <4>1. dirs[n] = (path[n][2] = prog[path[n][1]].target) /\ n \in 1..Len(dirs)
          BY <1>1, <2>4, <3>1 DEF BaseDirs, Directions
        <4>2. Resolved[n] = dirs[n] /\ n <= Len(Resolved)
          BY <1>1, <2>3, <4>1
        <4> QED
          BY <4>1, <4>2
      <3>2. CASE n = N /\ Len(dirs) = n - 1
        <4>1. Len(dirs) + 1 = n
          BY <1>1, <3>2
        <4>2. Len(Resolved) = n /\ Resolved[n] = b
          BY <2>3, <4>1
        <4> QED
          BY <1>1, <2>2, <3>2, <4>2
      <3> QED
        BY <2>2, <2>4, <3>1, <3>2
    <2> QED
      BY <1>1, <2>2, <2>3, <2>4
  <1> QED
    BY <1>2, <1>3

\* where the base run is, with the types of its parts
LEMMA BaseAt ==
    ASSUME TypeOK, BaseWalk, BasePlace, stage = "base", pc \in Body
    PROVE  /\ Len(path) \in Nat /\ path \in Paths /\ IsWalk(path) /\ plan = <<>> /\ pc \in Nat
           /\ From(path, Len(path) + 1) \in 0..Size /\ From(path, Len(path) + 1) <= pc
           /\ Falls(From(path, Len(path) + 1), pc)
           /\ \A a \in Body : /\ visits[a] = Visited(path, Len(path), pc, a)
                              /\ visits[a] <= VisitCap /\ visits[a] \in Nat
  <1>1. pc # None /\ pc \in Nat
    BY ExploreAssumption DEF Body, None
  <1>2. path \in Paths /\ visits \in [Body -> Nat]
    BY DEF TypeOK, Paths
  <1>3. Len(path) \in Nat /\ From(path, Len(path) + 1) \in 0..Size
    BY <1>2, PathTypes
  <1> QED
    BY <1>1, <1>2, <1>3 DEF BaseWalk, BasePlace

\* an instruction other than a branch adds nothing but the direction of the last one
LEMMA BaseRunPlain ==
    ASSUME TypeOK, RouteTyped, BaseWalk, BaseDirs, BasePlace, stage = "base", pc # None,
           ResolveBranch, path' = path, plan' = plan, prog' = prog,
           pc' = None \/ (/\ pc \in Body /\ pc' = pc + 1 /\ prog[pc].kind = "plain"
                          /\ visits' = [visits EXCEPT ![pc] = @ + 1] /\ visits[pc] + 1 <= VisitCap)
    PROVE  BaseWalk' /\ BaseDirs' /\ BasePlace'
  <1> USE ExploreAssumption
  <1> DEFINE N == Len(path)
  <1>1. /\ dirs' = Resolved /\ pending' = None /\ N \in Nat /\ Len(dirs') <= N
        /\ \A n \in 1..N : KnownOn(path, n) =>
              n <= Len(dirs') /\ dirs'[n] = (path[n][2] = prog[path[n][1]].target)
    <2>1. N \in Nat
      BY DEF TypeOK
    <2>2. dirs' = Resolved /\ pending' = None
      BY DEF ResolveBranch
    <2> QED
      BY <2>1, <2>2, HookRecords
  <1>2. BaseWalk'
    BY DEF BaseWalk, IsWalk, Falls
  <1>3. BaseDirs'
    BY <1>1 DEF BaseDirs, Directions, KnownOn
  <1>4. ASSUME pc' # None
        PROVE  /\ From(path, N + 1) <= pc'
               /\ \A x \in From(path, N + 1)..(pc' - 1) : prog[x].kind = "plain"
               /\ \A a \in Body : visits'[a] = Visited(path, N, pc', a) /\ visits'[a] <= VisitCap
    <2>1. /\ pc \in Body /\ pc' = pc + 1 /\ prog[pc].kind = "plain"
          /\ visits' = [visits EXCEPT ![pc] = @ + 1] /\ visits[pc] + 1 <= VisitCap
      BY <1>4
    <2>2. /\ From(path, N + 1) \in Nat /\ From(path, N + 1) <= pc /\ Falls(From(path, N + 1), pc)
          /\ \A a \in Body : visits[a] = Visited(path, N, pc, a) /\ visits[a] <= VisitCap
                             /\ visits[a] \in Nat
      BY <2>1, BaseAt
    <2>3. \A x \in From(path, N + 1)..(pc + 1 - 1) : x = pc \/ x \in From(path, N + 1)..(pc - 1)
      BY <2>1, <2>2 DEF Body
    <2>4. \A x \in From(path, N + 1)..(pc + 1 - 1) : prog[x].kind = "plain"
      BY <2>1, <2>2, <2>3 DEF Falls
    <2>5. ASSUME NEW a \in Body
          PROVE  visits'[a] = Visited(path, N, pc + 1, a) /\ visits'[a] <= VisitCap
      <3>1. pc \in Nat /\ a \in Nat
        BY <2>1 DEF Body
      <3>2. Visited(path, N, pc + 1, a) = Visited(path, N, pc, a) + (IF a = pc THEN 1 ELSE 0)
        BY <1>1, <2>2, <3>1, VisitedAfterPlain
      <3>3. visits'[a] = visits[a] + (IF a = pc THEN 1 ELSE 0) /\ visits[a] \in Nat
        BY <2>1 DEF TypeOK
      <3> QED
        BY <2>1, <2>2, <3>2, <3>3
    <2>6. From(path, N + 1) <= pc + 1
      BY <2>1, <2>2 DEF Body
    <2>7. pc' = pc + 1
      BY <2>1
    <2>8. \A x \in From(path, N + 1)..(pc' - 1) : prog[x].kind = "plain"
      <3>1. pc \in Nat /\ From(path, N + 1) \in Nat
        BY <2>1, <2>2 DEF Body
      <3>2. pc' - 1 = pc + 1 - 1
        BY <2>7, <3>1
      <3> QED
        BY <2>4, <3>2
    <2>9. \A a \in Body : visits'[a] = Visited(path, N, pc', a) /\ visits'[a] <= VisitCap
      BY <2>5, <2>7, Zenon
    <2> QED
      BY <2>6, <2>7, <2>8, <2>9, Zenon
  <1>5. BasePlace'
    BY <1>4 DEF BasePlace, Falls
  <1> QED
    BY <1>2, <1>3, <1>5

\* a branch of the base run lengthens the walk
LEMMA BaseRunBranch ==
    ASSUME TypeOK, RouteTyped, BaseWalk, BaseDirs, BasePlace, stage = "base", pc \in Body,
           Branch(pc), prog[pc].kind = "branch", plan' = plan, prog' = prog,
           visits' = [visits EXCEPT ![pc] = @ + 1], visits[pc] + 1 <= VisitCap
    PROVE  BaseWalk' /\ BaseDirs' /\ BasePlace'
  <1> USE ExploreAssumption
  <1> DEFINE N == Len(path)
             f == From(path, N + 1)
             q == path'
  <1>1. /\ N \in Nat /\ path \in Paths /\ IsWalk(path) /\ plan = <<>> /\ pc \in Nat
        /\ f \in 0..Size /\ f <= pc /\ Falls(f, pc)
        /\ \A a \in Body : /\ visits[a] = Visited(path, N, pc, a)
                           /\ visits[a] <= VisitCap /\ visits[a] \in Nat
    BY BaseAt
  <1>2. /\ dirs' = Resolved /\ Len(dirs') \in Nat /\ Len(dirs') <= N
        /\ \A n \in 1..N : KnownOn(path, n) =>
              n <= Len(dirs') /\ dirs'[n] = (path[n][2] = prog[path[n][1]].target)
    <2>1. pc # None
      BY <1>1 DEF None
    <2> QED
      BY <2>1, HookRecords DEF Branch
  <1>3. PICK d \in {prog[pc].target, pc + 1} : pc' = d /\ q = Append(path, <<pc, d>>)
    BY <1>1 DEF Branch, Natural, Landing
  <1>4. /\ prog[pc].target \in 0..Size /\ prog[pc].known \in BOOLEAN /\ pc \in 0..Size
        /\ d \in 0..Size /\ d \in Nat
    <2>1. prog[pc] \in Instrs
      BY DEF TypeOK
    <2> QED
      BY <1>3, <2>1 DEF Body
  <1>5. pending' = IF prog[pc].known THEN prog[pc].target ELSE None
    <2>1. ~(branch_seen < Len(plan))
      BY <1>1 DEF RouteTyped
    <2> QED
      BY <1>4, <2>1 DEF Branch
  <1>6. /\ Len(q) = N + 1 /\ q[N + 1] = <<pc, d>> /\ q \in Paths /\ q[N + 1][1] = pc
        /\ q[N + 1][2] = d /\ \A j \in 1..N : q[j] = path[j]
    <2>1. <<pc, d>> \in Body \X (0..Size)
      BY <1>4
    <2> QED
      BY <1>1, <1>3, <2>1, Appending DEF Paths
  <1>7. \A a \in Body : Visited(path, N, pc, a) + (IF a = pc THEN 1 ELSE 0) <= VisitCap
    BY <1>1
  <1>8. IsWalk(q)
    BY <1>1, <1>3, <1>4, <1>7, WalkGoesOn
  <1>9. BaseWalk'
    BY <1>1, <1>8 DEF BaseWalk, IsWalk, Falls
  <1>10. \A n \in 1..(N + 1) : n \in 1..N \/ n = N + 1
    BY <1>1
  <1>11. ASSUME NEW n \in 1..(N + 1), \A j \in 1..n : prog[q[j][1]].known
         PROVE  /\ n <= Len(dirs') => dirs'[n] = (q[n][2] = prog[q[n][1]].target)
                /\ n <= Len(dirs') \/ (pending' # None /\ n = N + 1 /\ Len(dirs') = n - 1)
    <2>1. \A j \in 1..N : j <= n => prog[path[j][1]].known
      BY <1>1, <1>6, <1>11
    <2>2. CASE n \in 1..N
      <3>1. KnownOn(path, n)
        BY <1>1, <2>1, <2>2 DEF KnownOn
      <3> QED
        BY <1>2, <1>6, <2>2, <3>1
    <2>3. CASE n = N + 1
      <3>1. prog[pc].known
        BY <1>1, <1>6, <1>11, <2>3
      <3>2. pending' # None
        BY <1>4, <1>5, <3>1 DEF None
      <3>3. N = 0 \/ N \in 1..N
        BY <1>1
      <3>4. N \in 1..N => KnownOn(path, N)
        BY <1>1, <2>1, <2>3 DEF KnownOn
      <3>5. Len(dirs') = N
        BY <1>1, <1>2, <3>3, <3>4
      <3> QED
        BY <1>1, <2>3, <3>2, <3>5
    <2> QED
      BY <1>10, <2>2, <2>3
  <1>12. BaseDirs'
    <2>1. pending' # None => pending' = prog[q[N + 1][1]].target
      BY <1>5, <1>6
    <2>2. Len(dirs') < N + 1 /\ Len(dirs') <= N + 1
      BY <1>1, <1>2
    <2>3. q[N + 1][2] = pc' /\ Len(q) = N + 1
      BY <1>3, <1>6
    <2>4. /\ \A n \in 1..Len(q) : (\A j \in 1..n : prog'[q[j][1]].known) =>
                /\ n <= Len(dirs') => dirs'[n] = (q[n][2] = prog'[q[n][1]].target)
                /\ n <= Len(dirs') \/ (pending' # None /\ n = Len(q) /\ Len(dirs') = n - 1)
          /\ pending' # None => Len(dirs') < Len(q) /\ pending' = prog'[q[Len(q)][1]].target
          /\ Len(dirs') <= Len(q) /\ q[Len(q)][2] = pc'
      BY <1>11, <2>1, <2>2, <2>3
    <2> QED
      BY ONLY <2>4 DEF BaseDirs, Directions, KnownOn
  <1> HIDE DEF q
  <1>13. From(q, N + 2) = d /\ From(q, N + 1) = f
    <2>1. N + 2 - 1 = N + 1 /\ N + 2 # 1 /\ (N + 1 = 1 \/ N + 1 - 1 \in 1..N)
      BY <1>1
    <2> QED
      BY <1>6, <2>1 DEF From
  <1>14. ASSUME NEW a \in Body
         PROVE  visits'[a] = Visited(q, N + 1, d, a) /\ visits'[a] <= VisitCap
    <2>1. N \in 0..N /\ \A j \in 1..N : q[j] = path[j]
      BY <1>1, <1>6
    <2>2. Times(q, N, a) = Times(path, N, a)
      <3>1. N \in Nat
        BY <1>1
      <3>2. \A i \in 0..N : \A x : Times(q, i, x) = Times(path, i, x)
        BY ONLY <2>1, <3>1, SameSoFar
      <3> QED
        BY <2>1, <3>2
    <2>3. Visited(q, N, pc, a) = Visited(path, N, pc, a)
      BY <1>13, <2>2 DEF Visited
    <2>4. /\ pc \in Nat /\ a \in Nat /\ N \in Nat /\ q[N + 1][1] = pc
          /\ From(q, N + 1) \in Nat /\ From(q, N + 1) <= pc /\ From(q, N + 2) \in Nat
      BY <1>1, <1>4, <1>6, <1>13 DEF Body
    <2>5. /\ Times(q, N + 1, a) = Visited(q, N, pc, a) + (IF a = pc THEN 1 ELSE 0)
          /\ Visited(q, N + 1, From(q, N + 2), a) = Times(q, N + 1, a)
      BY <2>4, VisitedAfterBranch
    <2>6. visits'[a] = visits[a] + (IF a = pc THEN 1 ELSE 0)
      BY <1>1 DEF TypeOK
    <2> QED
      BY <1>1, <1>7, <1>13, <2>3, <2>5, <2>6
  <1>15. BasePlace'
    <2>1. Len(q) + 1 = N + 2 /\ From(q, Len(q) + 1) = d
      BY <1>1, <1>6, <1>13
    <2>2. \A x \in d..(d - 1) : prog[x].kind = "plain"
      BY <1>4
    <2>3. From(q, Len(q) + 1) <= pc' /\ \A x \in From(q, Len(q) + 1)..(pc' - 1) : prog[x].kind = "plain"
      <3>1. pc' = d /\ d \in Nat
        BY <1>3, <1>4
      <3>2. d <= d
        BY <3>1
      <3> QED
        BY ONLY <2>1, <2>2, <3>1, <3>2
    <2>4. \A a \in Body : visits'[a] = Visited(q, Len(q), pc', a) /\ visits'[a] <= VisitCap
      BY <1>3, <1>6, <1>14
    <2> QED
      BY <2>3, <2>4 DEF BasePlace, Falls, q
  <1> QED
    BY <1>9, <1>12, <1>15

\* the base run, whatever it does
LEMMA BaseRun ==
    ASSUME IInv, RouteInv, Execute \/ Leave \/ SetupFails, stage = "base"
    PROVE  BaseWalk' /\ BaseDirs' /\ BasePlace'
  <1> USE ExploreAssumption
  <1>1. TypeOK /\ RouteTyped /\ BaseWalk /\ BaseDirs /\ BasePlace
    BY DEF IInv, RouteInv
  <1>2. pc # None /\ prog' = prog /\ plan' = plan
    BY DEF Execute, Leave, SetupFails, runVars, Body, None
  <1>3. CASE Execute
    <2>1. pc \in Body /\ visits' = [visits EXCEPT ![pc] = @ + 1] /\ visits[pc] \in Nat
      BY <1>1, <1>3 DEF Execute, TypeOK
    <2>2. CASE ResolveBranch /\ pc' = None /\ path' = path
      BY <1>1, <1>2, <2>2, BaseRunPlain
    <2>3. CASE visits[pc] + 1 <= VisitCap /\ prog[pc].kind = "plain" /\ pc' = pc + 1
               /\ ResolveBranch /\ path' = path
      BY <1>1, <1>2, <2>1, <2>3, BaseRunPlain
    <2>4. CASE visits[pc] + 1 <= VisitCap /\ prog[pc].kind = "branch" /\ Branch(pc)
      BY <1>1, <1>2, <2>1, <2>4, BaseRunBranch
    <2>5. visits[pc] + 1 > VisitCap \/ visits[pc] + 1 <= VisitCap
      BY <2>1
    <2> QED
      BY <1>3, <2>2, <2>3, <2>4, <2>5 DEF Execute
  <1>4. CASE (Leave \/ SetupFails) /\ UNCHANGED <<dirs, pending>>
    <2>1. pc' = None /\ path' = path
      BY <1>4 DEF Leave, SetupFails, runVars
    <2>2. BaseWalk' /\ BasePlace'
      BY <1>1, <1>2, <2>1 DEF BaseWalk, BasePlace, IsWalk, Falls
    <2>3. BaseDirs'
      BY <1>1, <1>2, <1>4, <2>1 DEF BaseDirs, Directions, KnownOn
    <2> QED
      BY <2>2, <2>3
  <1>5. CASE Leave /\ ResolveBranch
    <2>1. pc' = None /\ path' = path
      BY <1>5 DEF Leave
    <2> QED
      BY <1>1, <1>2, <1>5, <2>1, BaseRunPlain
  <1> QED
    BY <1>3, <1>4, <1>5 DEF Leave, SetupFails, runVars

----------------------------------------------------------------------------
(* The forced runs.                                                        *)

\* what the way to branch n + 1 of the natural run looks like
LEMMA OnTheWay ==
    ASSUME TypeOK, IsWalk(natural), NEW n \in 0..(Len(natural) - 1), pc \in Stretch(natural, n + 1)
    PROVE  /\ natural \in Paths /\ n + 1 \in 1..Len(natural)
           /\ natural[n + 1][1] \in Body /\ natural[n + 1][2] \in 0..Size
           /\ From(natural, n + 1) \in Nat /\ From(natural, n + 1) <= pc
           /\ pc \in Body /\ pc <= natural[n + 1][1]
           /\ pc < natural[n + 1][1] => prog[pc].kind = "plain"
           /\ prog[natural[n + 1][1]].kind = "branch"
           /\ Times(natural, n + 1, pc) <= VisitCap
           /\ natural[n + 1][2] \in {prog[natural[n + 1][1]].target, natural[n + 1][1] + 1}
  <1> USE ExploreAssumption
  <1>1. natural \in Paths /\ Len(natural) \in Nat
    BY DEF TypeOK, Paths
  <1>2. n + 1 \in 1..Len(natural)
    BY <1>1
  <1>3. /\ natural[n + 1][1] \in Body /\ natural[n + 1][2] \in 0..Size
        /\ From(natural, n + 1) \in 0..Size
    BY <1>1, <1>2, PathTypes
  <1>4. /\ Falls(From(natural, n + 1), natural[n + 1][1]) /\ Times(natural, n + 1, pc) <= VisitCap
        /\ prog[natural[n + 1][1]].kind = "branch"
        /\ natural[n + 1][2] \in {prog[natural[n + 1][1]].target, natural[n + 1][1] + 1}
    BY <1>2 DEF IsWalk
  <1>5. /\ pc \in Body /\ From(natural, n + 1) <= pc /\ pc <= natural[n + 1][1]
        /\ From(natural, n + 1) \in Nat
    BY <1>3 DEF Stretch, Body
  <1>6. pc < natural[n + 1][1] => prog[pc].kind = "plain"
    <2>1. SUFFICES ASSUME pc < natural[n + 1][1] PROVE prog[pc].kind = "plain"
      OBVIOUS
    <2>2. pc \in From(natural, n + 1)..(natural[n + 1][1] - 1)
      BY <1>3, <1>5, <2>1 DEF Body
    <2> QED
      BY <1>4, <2>2 DEF Falls
  <1> QED
    BY <1>1, <1>2, <1>3, <1>4, <1>5, <1>6

\* a run at an address of the natural way has been there less often than the cap
LEMMA WithinCap ==
    ASSUME TypeOK, IsWalk(natural), NEW n \in 0..(Len(natural) - 1), pc \in Stretch(natural, n + 1),
           visits[pc] = Visited(natural, n, pc, pc)
    PROVE  visits[pc] + 1 <= VisitCap
  <1>1. /\ From(natural, n + 1) \in Nat /\ pc \in Nat /\ Times(natural, n + 1, pc) <= VisitCap
        /\ n \in Nat
    BY OnTheWay, ExploreAssumption DEF Body
  <1>2. Times(natural, n + 1, pc) = Times(natural, n, pc) + 1 /\ Times(natural, n, pc) \in Nat
    BY <1>1, CountsStretch
  <1>3. pc \notin From(natural, n + 1)..(pc - 1)
    BY <1>1
  <1> QED
    BY <1>1, <1>2, <1>3 DEF Visited

\* a plain instruction on the way to branch k
LEMMA ForcedPlain ==
    ASSUME TypeOK, NaturalInv, ForcedInv, stage = "forced", k > 0, KnownUpTo(k), Len(path) < k,
           pc # None, pc' = pc + 1, path' = path,
           prog[pc].kind = "plain", visits' = [visits EXCEPT ![pc] = @ + 1]
    PROVE  /\ pc' \in Stretch(natural, Len(path) + 1)
           /\ \A a \in Body : visits'[a] = Visited(natural, Len(path), pc', a)
  <1> USE ExploreAssumption
  <1> DEFINE n == Len(path)
             f == From(natural, n + 1)
             b == natural[n + 1][1]
  <1>1. n \in 0..(Len(natural) - 1) /\ n \in Nat
    BY DEF TypeOK, KnownUpTo
  <1>2. /\ pc \in Stretch(natural, n + 1) /\ IsWalk(natural)
        /\ \A a \in Body : visits[a] = Visited(natural, n, pc, a)
    BY DEF ForcedInv, NaturalInv
  <1>3. /\ b \in Body /\ f \in Nat /\ f <= pc /\ pc \in Body /\ pc <= b /\ prog[b].kind = "branch"
    BY <1>1, <1>2, OnTheWay
  <1>4. pc \in Nat /\ b \in Nat /\ pc # b
    BY <1>3 DEF Body
  <1>5. pc + 1 \in f..b
    BY <1>3, <1>4
  <1>6. ASSUME NEW a \in Body PROVE visits'[a] = Visited(natural, n, pc + 1, a)
    <2>1. a \in Nat /\ visits[a] = Visited(natural, n, pc, a)
      BY <1>2 DEF Body
    <2>2. Visited(natural, n, pc + 1, a) = Visited(natural, n, pc, a) + (IF a = pc THEN 1 ELSE 0)
      BY <1>1, <1>3, <1>4, <2>1, VisitedAfterPlain
    <2>3. visits'[a] = visits[a] + (IF a = pc THEN 1 ELSE 0)
      <3>1. visits \in [Body -> Nat]
        BY DEF TypeOK
      <3> QED
        BY <2>1, <1>3, <3>1
    <2> QED
      BY <2>1, <2>2, <2>3
  <1>7. pc + 1 \in Stretch(natural, n + 1)
    BY <1>5 DEF Stretch
  <1> QED
    BY <1>6, <1>7

\* the plan sends the run the natural way at branches before k, the other way at k
LEMMA ForcedWay ==
    ASSUME TypeOK, RouteTyped, NaturalInv, ForcedInv, stage = "forced", k > 0, KnownUpTo(k),
           Len(path) < k, pc \in Body, prog[pc].kind = "branch", Branch(pc)
    PROVE  /\ pc = natural[Len(path) + 1][1]
           /\ path' = Append(path, <<pc, pc'>>) /\ branch_seen' = Len(path) + 1
           /\ Len(path) + 1 < k => pc' = natural[Len(path) + 1][2]
           /\ Len(path) + 1 = k => pc' = Landing(pc, ~dirs[k])
  <1> USE ExploreAssumption
  <1> DEFINE n == Len(path)
             b == natural[n + 1][1]
  <1>1. n \in 0..(Len(natural) - 1) /\ n \in Nat /\ k \in Nat /\ n + 1 \in 1..k /\ n + 1 \in 1..Len(natural)
    BY DEF TypeOK, KnownUpTo
  <1>2. /\ pc \in Stretch(natural, n + 1) /\ IsWalk(natural) /\ Directions(natural)
        /\ plan = Plan(k) /\ k <= Len(dirs) /\ branch_seen = n
    BY DEF ForcedInv, NaturalInv, Body, None
  <1>3. /\ b \in Body /\ pc <= b /\ (pc < b => prog[pc].kind = "plain")
        /\ natural[n + 1][2] \in {prog[b].target, b + 1}
    BY <1>1, <1>2, OnTheWay
  <1>4. pc = b
    BY <1>3 DEF Body
  <1>5. prog[b].known /\ \A j \in 1..(n + 1) : prog[natural[j][1]].known
    BY <1>1 DEF KnownUpTo
  <1>6. /\ dirs \in Seq(BOOLEAN) /\ Len(dirs) \in Nat
        /\ \A j \in 1..(k - 1) : SubSeq(dirs, 1, k - 1)[j] = dirs[j]
        /\ Len(SubSeq(dirs, 1, k - 1)) = k - 1 /\ SubSeq(dirs, 1, k - 1) \in Seq(BOOLEAN)
    BY <1>1, <1>2 DEF RouteTyped
  <1>7. /\ Len(plan) = k /\ plan[k] = ~dirs[k]
        /\ \A j \in 1..(k - 1) : plan[j] = dirs[j]
    <2> DEFINE s == SubSeq(dirs, 1, k - 1)
               x == ~dirs[k]
    <2>1. x \in BOOLEAN /\ plan = Append(s, x)
      BY <1>2 DEF Plan
    <2>2. s \in Seq(BOOLEAN) /\ Len(s) = k - 1 /\ \A j \in 1..(k - 1) : s[j] = dirs[j]
      BY <1>6
    <2> HIDE DEF s, x
    <2>3. /\ Len(plan) = Len(s) + 1 /\ plan[Len(s) + 1] = x
          /\ \A j \in 1..Len(s) : plan[j] = s[j]
      BY <2>1, <2>2, Appending
    <2>4. Len(s) + 1 = k
      BY <1>1, <2>2
    <2> QED
      BY <2>2, <2>3, <2>4 DEF x
  <1>8. path' = Append(path, <<pc, pc'>>) /\ pc' = Landing(pc, plan[n + 1]) /\ branch_seen' = n + 1
    <2>1. branch_seen < Len(plan) /\ prog[pc].known
      BY <1>1, <1>2, <1>4, <1>5, <1>7
    <2> QED
      BY <1>2, <2>1 DEF Branch
  <1>9. ASSUME n + 1 < k PROVE pc' = natural[n + 1][2]
    <2>1. n + 1 \in 1..(k - 1) /\ n + 1 <= Len(dirs)
      BY <1>1, <1>2, <1>6, <1>9
    <2>2. dirs[n + 1] = (natural[n + 1][2] = prog[b].target)
      BY <1>1, <1>2, <1>5, <2>1 DEF Directions, KnownOn
    <2>3. pc' = Landing(b, natural[n + 1][2] = prog[b].target)
      BY <1>4, <1>7, <1>8, <2>1, <2>2
    <2> QED
      BY <1>3, <2>3 DEF Landing
  <1> QED
    BY <1>4, <1>7, <1>8, <1>9

\* a branch on the way to branch k, or branch k itself
LEMMA ForcedBranch ==
    ASSUME TypeOK, RouteTyped, NaturalInv, ForcedInv, stage = "forced", k > 0, KnownUpTo(k),
           Len(path) < k, pc \in Body, prog[pc].kind = "branch", Branch(pc),
           UNCHANGED <<prog, stage, k, plan, natural, dirs>>,
           visits' = [visits EXCEPT ![pc] = @ + 1]
    PROVE  ForcedInv'
  <1> USE ExploreAssumption
  <1> DEFINE n == Len(path)
             q == path'
             d == pc'
  <1>1. n \in 0..(Len(natural) - 1) /\ n \in Nat /\ k \in Nat /\ n + 1 \in 1..k /\ n + 1 \in 1..Len(natural)
        /\ Len(natural) \in Nat /\ k <= Len(natural) /\ path \in Paths
    BY DEF TypeOK, KnownUpTo, Paths
  <1>2. /\ pc \in Stretch(natural, n + 1) /\ IsWalk(natural)
        /\ plan = Plan(k) /\ k <= Len(dirs) /\ \A j \in 1..n : j < k => path[j] = natural[j]
        /\ \A a \in Body : visits[a] = Visited(natural, n, pc, a)
    BY DEF ForcedInv, NaturalInv, Body, None
  <1>3. /\ pc = natural[n + 1][1] /\ q = Append(path, <<pc, d>>) /\ branch_seen' = n + 1
        /\ n + 1 < k => d = natural[n + 1][2]
        /\ n + 1 = k => d = Landing(pc, ~dirs[k])
    BY ForcedWay
  <1>4. d \in 0..Size
    BY BranchTypes
  <1>5. /\ Len(q) = n + 1 /\ q[n + 1] = <<pc, d>> /\ \A j \in 1..n : q[j] = path[j]
    <2>1. <<pc, d>> \in Body \X (0..Size)
      BY <1>4
    <2> QED
      BY <1>1, <1>3, <2>1, Appending DEF Paths
  <1>6. \A j \in 1..(n + 1) : j < k => q[j] = natural[j]
    <2>1. \A j \in 1..(n + 1) : j \in 1..n \/ j = n + 1
      BY <1>1
    <2>2. n + 1 < k => q[n + 1] = natural[n + 1]
      <3>1. natural[n + 1] \in Body \X (0..Size)
        BY <1>1 DEF TypeOK
      <3>2. natural[n + 1] = <<natural[n + 1][1], natural[n + 1][2]>>
        BY <3>1
      <3> QED
        BY <1>3, <1>5, <3>2
    <2> QED
      BY <1>2, <1>5, <2>1, <2>2
  <1>7. k <= n + 1 => q[k] = <<natural[k][1], Landing(natural[k][1], ~dirs[k])>>
    <2>1. k <= n + 1 => n + 1 = k
      BY <1>1
    <2> QED
      BY <1>3, <1>5, <2>1
  <1>8. ASSUME n + 1 < k
        PROVE  /\ d # None /\ d \in Stretch(natural, n + 2)
               /\ \A a \in Body : visits'[a] = Visited(natural, n + 1, d, a)
    <2>1. n + 2 \in 1..Len(natural) /\ n + 2 - 1 = n + 1 /\ n + 2 # 1 /\ natural \in Paths
      <3>1. natural \in Paths
        BY DEF TypeOK, Paths
      <3> QED
        BY <1>1, <1>8, <3>1
    <2>2. From(natural, n + 2) = d
      BY <1>3, <1>8, <2>1 DEF From
    <2>3. From(natural, n + 2) <= natural[n + 2][1] /\ natural[n + 2][1] \in Nat
      BY <1>2, <2>1, PathTypes DEF IsWalk, Body
    <2>4. d \in Stretch(natural, n + 2)
      BY <1>4, <2>2, <2>3 DEF Stretch
    <2>5. From(natural, n + 1) \in Nat /\ From(natural, n + 1) <= pc /\ pc \in Nat
      BY <1>1, <1>2, OnTheWay DEF Body
    <2>6. ASSUME NEW a \in Body PROVE visits'[a] = Visited(natural, n + 1, d, a)
      <3>1. /\ pc \in Nat /\ a \in Nat /\ n \in Nat /\ natural[n + 1][1] = pc
            /\ From(natural, n + 1) \in Nat /\ From(natural, n + 1) <= pc
            /\ From(natural, n + 2) \in Nat
        BY <1>1, <1>3, <1>4, <2>2, <2>5 DEF Body
      <3>2. /\ Times(natural, n + 1, a) = Visited(natural, n, pc, a) + (IF a = pc THEN 1 ELSE 0)
            /\ Visited(natural, n + 1, From(natural, n + 2), a) = Times(natural, n + 1, a)
        BY <3>1, VisitedAfterBranch
      <3>3. visits'[a] = visits[a] + (IF a = pc THEN 1 ELSE 0)
        BY DEF TypeOK
      <3> QED
        BY <1>2, <2>2, <3>2, <3>3
    <2> QED
      BY <1>4, <2>4, <2>6 DEF None
  <1> QED
    <2>1. Len(path') + 1 = n + 2 /\ Len(path') = n + 1
      BY <1>1, <1>5
    <2>2. plan' = Plan(k)' /\ (KnownUpTo(k)' <=> KnownUpTo(k))
      BY <1>2 DEF Plan, KnownUpTo
    <2>3. k <= n + 1 => path'[k] = <<natural'[k][1], Landing(natural[k][1], ~dirs[k])'>>
      BY <1>7 DEF Landing
    <2> QED
      BY <1>2, <1>3, <1>6, <1>8, <2>1, <2>2, <2>3 DEF ForcedInv

\* past branch k nothing that was recorded of the way changes
LEMMA ForcedBeyond ==
    ASSUME TypeOK, ForcedInv, stage = "forced", k > 0, KnownUpTo(k), k <= Len(path),
           UNCHANGED <<prog, stage, k, plan, natural, dirs>>,
           (path' = path /\ branch_seen' = branch_seen)
           \/ (branch_seen' = branch_seen + 1
               /\ \E e \in Body \X (0..Size) : path' = Append(path, e))
    PROVE  ForcedInv'
  <1>1. path \in Paths /\ Len(path) \in Nat /\ k \in Nat
    BY DEF TypeOK, Paths
  <1>2. /\ k <= Len(dirs) /\ plan = Plan(k) /\ branch_seen = Len(path)
        /\ \A j \in 1..Len(path) : j < k => path[j] = natural[j]
        /\ path[k] = <<natural[k][1], Landing(natural[k][1], ~dirs[k])>>
    BY DEF ForcedInv
  <1>3. plan' = Plan(k)' /\ (Landing(natural[k][1], ~dirs[k]))' = Landing(natural[k][1], ~dirs[k])
    BY <1>2 DEF Plan, Landing
  <1>4. /\ Len(path') \in Nat /\ Len(path') >= Len(path) /\ branch_seen' = Len(path')
        /\ \A j \in 1..Len(path) : path'[j] = path[j]
    <2>1. CASE path' = path /\ branch_seen' = branch_seen
      BY <1>1, <1>2, <2>1
    <2>2. ASSUME NEW e \in Body \X (0..Size), path' = Append(path, e), branch_seen' = branch_seen + 1
          PROVE  /\ Len(path') \in Nat /\ Len(path') >= Len(path) /\ branch_seen' = Len(path')
                 /\ \A j \in 1..Len(path) : path'[j] = path[j]
      <3>1. /\ Len(path') = Len(path) + 1 /\ \A j \in 1..Len(path) : path'[j] = path[j]
        BY <1>1, <2>2, Appending DEF Paths
      <3> QED
        BY <1>1, <1>2, <2>2, <3>1
    <2> QED
      BY <2>1, <2>2
  <1>5. k \in 1..Len(path) /\ k <= Len(path') /\ ~(Len(path') < k)
    BY <1>1, <1>4
  <1>6. \A j \in 1..Len(path') : j < k => path'[j] = natural[j]
    <2>1. ASSUME NEW j \in 1..Len(path'), j < k PROVE j \in 1..Len(path)
      BY <1>1, <1>4, <2>1
    <2> QED
      BY <1>2, <1>4, <2>1
  <1> QED
    BY <1>2, <1>3, <1>4, <1>5, <1>6 DEF ForcedInv

\* a forced run, whatever it does
LEMMA ForcedRun ==
    ASSUME IInv, RouteInv, Execute \/ Leave \/ SetupFails, stage = "forced"
    PROVE  ForcedInv'
  <1> USE ExploreAssumption
  <1>1. TypeOK /\ RouteTyped /\ NaturalInv /\ ForcedInv
    BY DEF IInv, RouteInv
  <1>2. pc # None /\ UNCHANGED <<prog, stage, k, plan, natural, dirs>>
    BY DEF Execute, Leave, SetupFails, runVars, Body, None, Branch, ResolveBranch, Resolved
  <1>3. KnownUpTo(k)' <=> KnownUpTo(k)
    BY <1>2 DEF KnownUpTo
  <1>4. SUFFICES ASSUME k > 0, KnownUpTo(k) PROVE ForcedInv'
    BY <1>2, <1>3 DEF ForcedInv
  <1>5. CASE k <= Len(path)
    <2>1. CASE path' = path /\ branch_seen' = branch_seen
      BY <1>1, <1>2, <1>4, <1>5, <2>1, ForcedBeyond
    <2>2. CASE pc \in Body /\ Branch(pc)
      <3>1. pc' \in 0..Size /\ path' = Append(path, <<pc, pc'>>) /\ branch_seen' = branch_seen + 1
        BY <1>1, <2>2, BranchTypes DEF Branch
      <3>2. \E e \in Body \X (0..Size) : path' = Append(path, e)
        BY <2>2, <3>1
      <3> QED
        BY <1>1, <1>2, <1>4, <1>5, <3>1, <3>2, ForcedBeyond
    <2> QED
      BY <2>1, <2>2 DEF Execute, Leave, SetupFails, runVars
  <1>6. CASE Len(path) < k
    <2> DEFINE n == Len(path)
    <2>1. n \in 0..(Len(natural) - 1) /\ n \in Nat /\ k \in Nat
      BY <1>1, <1>4, <1>6 DEF TypeOK, KnownUpTo
    <2>2. /\ pc \in Stretch(natural, n + 1) /\ IsWalk(natural)
          /\ \A a \in Body : visits[a] = Visited(natural, n, pc, a)
          /\ k <= Len(dirs) /\ plan = Plan(k) /\ branch_seen = n
          /\ \A j \in 1..n : j < k => path[j] = natural[j]
      BY <1>1, <1>2, <1>4, <1>6 DEF ForcedInv, NaturalInv
    <2>3. /\ pc \in Body /\ pc <= natural[n + 1][1] /\ natural[n + 1][1] \in Body
          /\ pc < natural[n + 1][1] => prog[pc].kind = "plain"
          /\ prog[natural[n + 1][1]].kind = "branch"
      BY <1>1, <2>1, <2>2, OnTheWay
    <2>4. prog[pc].kind \in {"plain", "branch"} /\ pc # Size
      BY <2>3 DEF Body
    <2>5. visits[pc] + 1 <= VisitCap /\ visits[pc] \in Nat
      BY <1>1, <2>1, <2>2, <2>3, WithinCap DEF TypeOK
    <2>6. plan' = Plan(k)' /\ k' = k /\ stage' = stage /\ dirs' = dirs /\ natural' = natural
      BY <1>2, <2>2 DEF Plan
    <2>7. CASE Execute /\ prog[pc].kind = "plain"
      <3>1. /\ pc' = pc + 1 /\ path' = path /\ branch_seen' = branch_seen
            /\ visits' = [visits EXCEPT ![pc] = @ + 1]
        BY <2>5, <2>7 DEF Execute
      <3>2. /\ pc' \in Stretch(natural, n + 1)
            /\ \A a \in Body : visits'[a] = Visited(natural, n, pc', a)
        BY <1>1, <1>2, <1>4, <1>6, <2>7, <3>1, ForcedPlain
      <3>3. pc' # None
        BY <2>3, <3>1 DEF Body, None
      <3> QED
        BY <1>6, <2>1, <2>2, <2>6, <3>1, <3>2, <3>3 DEF ForcedInv
    <2>8. CASE Execute /\ prog[pc].kind = "branch"
      <3>1. Branch(pc) /\ visits' = [visits EXCEPT ![pc] = @ + 1]
        BY <2>5, <2>8 DEF Execute
      <3> QED
        BY <1>1, <1>2, <1>4, <1>6, <2>3, <2>8, <3>1, ForcedBranch
    <2>9. CASE SetupFails
      <3>1. pc' = None /\ fresh' = {} /\ path' = path /\ branch_seen' = branch_seen
        BY <2>9 DEF SetupFails, runVars
      <3> QED
        BY <1>6, <2>1, <2>2, <2>6, <3>1 DEF ForcedInv
    <2> QED
      BY <2>4, <2>7, <2>8, <2>9 DEF Leave
  <1> QED
    <2>1. Len(path) \in Nat /\ k \in Nat
      BY <1>1 DEF TypeOK
    <2> QED
      BY <1>5, <1>6, <2>1

\* each forced run starts on the natural way
LEMMA ForcedStarts ==
    ASSUME IInv, RouteInv, NextForced, stage' = "forced"
    PROVE  ForcedInv'
  <1> USE ExploreAssumption
  <1>1. /\ k' = k + 1 /\ FreshRun(0, Plan(k + 1)) /\ UNCHANGED <<prog, dirs, natural>> /\ k < depth
        /\ IsWalk(natural) /\ natural \in Paths /\ k \in Nat /\ Len(dirs) \in Nat /\ Len(natural) \in Nat
    BY DEF NextForced, IInv, RouteInv, NaturalInv, TypeOK, RouteTyped, Paths
  <1>2. SUFFICES ASSUME KnownUpTo(k)' PROVE ForcedInv'
    BY DEF ForcedInv
  <1>3. 1 \in 1..Len(natural) /\ k' <= Len(dirs')
    BY <1>1, <1>2 DEF KnownUpTo, depth
  <1>4. From(natural, 1) = 0 /\ natural[1][1] \in Nat
    BY <1>1, <1>3, PathTypes DEF From, Body
  <1>5. 0 \in Stretch(natural, 1)
    BY <1>4 DEF Stretch
  <1>6. \A a \in Body : Visited(natural, 0, 0, a) = 0
    <2>1. \A a \in Body : a \notin 0..(0 - 1)
      OBVIOUS
    <2> QED
      BY <1>4, <2>1, CountsNothing DEF Visited
  <1>7. /\ pc' = 0 /\ plan' = Plan(k + 1) /\ branch_seen' = 0 /\ path' = <<>> /\ Len(path') = 0
        /\ visits' = [a \in Body |-> 0]
    BY <1>1 DEF FreshRun
  <1>8. plan' = Plan(k)'
    BY <1>1, <1>7 DEF Plan
  <1>9. pc' # None /\ pc' \in Stretch(natural', Len(path') + 1)
        /\ \A a \in Body : visits'[a] = Visited(natural', Len(path'), pc', a)
    BY <1>1, <1>5, <1>6, <1>7 DEF None
  <1>10. ~(k' <= Len(path'))
    BY <1>1, <1>7
  <1> QED
    BY <1>3, <1>7, <1>8, <1>9, <1>10 DEF ForcedInv

----------------------------------------------------------------------------

LEMMA RouteStep == IInv /\ RouteInv /\ [Next]_vars => RouteInv'
  <1> SUFFICES ASSUME IInv, RouteInv, [Next]_vars PROVE RouteInv'
    OBVIOUS
  <1>1. RouteTyped'
    BY RouteTypesStep DEF IInv, RouteInv
  <1>2. CASE Execute \/ Leave \/ SetupFails
    <2>1. UNCHANGED <<prog, stage, k, natural>> /\ (stage # "base" => dirs' = dirs)
      BY <1>2 DEF Execute, Leave, SetupFails, runVars, Branch, ResolveBranch, Resolved
    <2>2. NaturalInv'
      BY <2>1 DEF RouteInv, NaturalInv, IsWalk, Falls, Directions, KnownOn
    <2>3. BaseWalk' /\ BaseDirs' /\ BasePlace'
      BY <1>2, <2>1, BaseRun DEF BaseWalk, BaseDirs, BasePlace
    <2>4. ForcedInv'
      BY <1>2, <2>1, ForcedRun DEF ForcedInv
    <2> QED
      BY <1>1, <2>2, <2>3, <2>4 DEF RouteInv
  <1>3. CASE EndBase
    <2>1. stage = "base" /\ stage' = "forced" /\ natural' = path /\ k' = 0 /\ UNCHANGED <<prog, dirs>>
      BY <1>3 DEF EndBase
    <2>2. NaturalInv'
      BY <2>1 DEF RouteInv, NaturalInv, BaseWalk, BaseDirs, IsWalk, Falls, Directions, KnownOn
    <2> QED
      BY <1>1, <2>1, <2>2 DEF RouteInv, BaseWalk, BaseDirs, BasePlace, ForcedInv
  <1>4. CASE NextForced \/ Restart \/ Merge
    <2>1. stage # "base" /\ stage' # "base" /\ UNCHANGED <<prog, dirs, natural>>
      BY <1>4 DEF NextForced, Restart, Merge
    <2>2. NaturalInv'
      BY <2>1 DEF RouteInv, NaturalInv, IsWalk, Falls, Directions, KnownOn
    <2>3. ForcedInv'
      <3>1. CASE stage' = "forced"
        BY <1>4, <3>1, ForcedStarts DEF Restart, Merge
      <3>2. CASE stage' # "forced"
        BY <3>2 DEF ForcedInv
      <3> QED
        BY <3>1, <3>2
    <2> QED
      BY <1>1, <2>1, <2>2, <2>3 DEF RouteInv, BaseWalk, BaseDirs, BasePlace
  <1>5. CASE UNCHANGED vars
    <2>1. UNCHANGED <<prog, stage, k, pc, plan, branch_seen, pending, dirs, visits, fresh, path, natural>>
      BY <1>5 DEF vars, runVars
    <2>2. BaseWalk' /\ NaturalInv'
      BY <2>1 DEF RouteInv, BaseWalk, NaturalInv, IsWalk, Falls, Directions, KnownOn
    <2>3. BaseDirs' /\ BasePlace'
      BY <2>1 DEF RouteInv, BaseDirs, BasePlace, Falls, Directions, KnownOn
    <2>4. ForcedInv'
      BY <2>1 DEF RouteInv, ForcedInv, KnownUpTo, Plan, Landing
    <2> QED
      BY <1>1, <2>2, <2>3, <2>4 DEF RouteInv
  <1> QED
    BY <1>2, <1>3, <1>4, <1>5 DEF Next, Done

LEMMA RouteInvariance == Spec => [](IInv /\ RouteInv)
  BY InitInv, RouteInit, StepInv, RouteStep, PTL DEF Spec

\* Forced run k takes branch k of the natural run the other way, having taken the
\* same ones before it: for bodies, caps and depths of any size.
THEOREM ForcedRunsFlip == Spec => []FlipsThePlannedBranch
  <1>1. IInv /\ RouteInv => FlipsThePlannedBranch
    <2> SUFFICES ASSUME IInv, RouteInv, stage = "forced", pc = None, k > 0, fresh # {}, KnownUpTo(k)
                 PROVE  /\ Len(path) >= k /\ SubSeq(path, 1, k - 1) = SubSeq(natural, 1, k - 1)
                        /\ path[k][1] = natural[k][1]
                        /\ \/ path[k][2] # natural[k][2]
                           \/ prog[path[k][1]].target = path[k][1] + 1
      BY DEF FlipsThePlannedBranch
    <2>1. /\ path \in Paths /\ natural \in Paths /\ k \in Nat /\ Len(path) \in Nat
          /\ Len(natural) \in Nat /\ dirs \in Seq(BOOLEAN) /\ Len(dirs) \in Nat
      BY DEF IInv, TypeOK, Paths, RouteInv, RouteTyped
    <2>2. /\ k <= Len(dirs) /\ ~(Len(path) < k) /\ \A j \in 1..Len(path) : j < k => path[j] = natural[j]
          /\ k <= Len(path) => path[k] = <<natural[k][1], Landing(natural[k][1], ~dirs[k])>>
      BY DEF RouteInv, ForcedInv
    <2>3. k <= Len(path) /\ k \in 1..k /\ k \in 1..Len(natural)
      BY <2>1, <2>2 DEF KnownUpTo
    <2>4. SubSeq(path, 1, k - 1) = SubSeq(natural, 1, k - 1)
      <3> DEFINE s == SubSeq(path, 1, k - 1)
                 t == SubSeq(natural, 1, k - 1)
      <3>1. \A j \in 1..(k - 1) : j \in 1..Len(path) /\ j < k
        BY <2>1, <2>3
      <3>2. /\ s \in Seq(Body \X (0..Size)) /\ Len(s) = k - 1
            /\ \A j \in 1..(k - 1) : s[j] = path[j]
        BY <2>1, <2>3 DEF Paths
      <3>3. /\ t \in Seq(Body \X (0..Size)) /\ Len(t) = k - 1
            /\ \A j \in 1..(k - 1) : t[j] = natural[j]
        BY <2>1, <2>3 DEF Paths
      <3>4. \A j \in 1..(k - 1) : s[j] = t[j]
        BY <2>2, <3>1, <3>2, <3>3
      <3> HIDE DEF s, t
      <3>5. s = t
        BY <3>2, <3>3, <3>4
      <3> QED
        BY <3>5 DEF s, t
    <2>5. IsWalk(natural) /\ Directions(natural)
      BY DEF RouteInv, NaturalInv
    <2>6. natural[k][2] \in {prog[natural[k][1]].target, natural[k][1] + 1}
      BY <2>3, <2>5 DEF IsWalk
    <2>7. dirs[k] = (natural[k][2] = prog[natural[k][1]].target)
      BY <2>2, <2>3, <2>5 DEF Directions, KnownOn, KnownUpTo
    <2>8. path[k][1] = natural[k][1] /\ path[k][2] = Landing(natural[k][1], ~dirs[k])
      BY <2>2, <2>3
    <2> QED
      BY <2>1, <2>3, <2>4, <2>6, <2>7, <2>8 DEF Landing
  <1> QED
    BY <1>1, RouteInvariance, PTL
=============================================================================

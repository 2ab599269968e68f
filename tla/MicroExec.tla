----------------------------- MODULE MicroExec -----------------------------
(***************************************************************************)
(* One run of one function under the emulator: MicroExec::try_run and the  *)
(* four hooks of install_hooks (fnprint-emu).  Unicorn is external: it     *)
(* fires the code hook before each instruction, then the memory hooks of   *)
(* that instruction's accesses, and ends at the return sentinel, on a      *)
(* stop request, on the instruction count, on its timer or with an error.  *)
(*                                                                         *)
(* Nothing is assumed of the code that runs: it is hostile and, the pages  *)
(* being writable, may change itself, so the kind of an instruction, what  *)
(* it touches and where it goes next are chosen anew at every fetch.  A    *)
(* rep-prefixed instruction is one that keeps accessing memory.            *)
(***************************************************************************)
EXTENDS Integers, FiniteSets

CONSTANTS
    Addrs, Body,     \* instruction addresses, and those of the function itself
    FixedRegions,    \* the argument buffers and the image's globals
    Locs,            \* data locations: [region, page, field]
    SetupPages,      \* pages mapped before the run
    InstrCap, VisitCap, MaxEffects, MaxHeapish,  \* Config
    MaxReads,        \* distinct fields recorded (64)
    MaxMaps,         \* MAX_RUNTIME_MAPS
    MemOpsPerInstr,  \* MEM_OPS_PER_INSTR_CAP
    AfterStop        \* accesses an instruction may still make once stopped

Regions == FixedRegions \cup {"stack", "heap"}

ASSUME ExecAssumption ==
    /\ Body \subseteq Addrs /\ IsFiniteSet(FixedRegions) /\ IsFiniteSet(Locs)
    /\ {"stack", "heap"} \cap FixedRegions = {}
    /\ \A l \in Locs : l.region \in Regions
    /\ \A l \in Locs : l.region # "heap" => l.page \in SetupPages
    /\ InstrCap \in Nat \ {0} /\ VisitCap \in Nat /\ MaxEffects \in Nat
    /\ MaxHeapish \in Nat /\ MaxReads \in Nat /\ MaxMaps \in Nat
    /\ MemOpsPerInstr \in Nat \ {0} /\ AfterStop \in Nat

VARIABLES
    phase,   \* "setup", "fetch", "mem" (inside an instruction), "end", "over"
    ended,   \* how emu_start returned: "ret" at the sentinel, "stop" or "error"
    capped, stop,             \* Rec::capped, and emu_stop requested
    instret, visits, memops, maps,   \* the counters behind the caps
    mapped,                   \* pages mapped
    fixed, pages, heapish_count,     \* first touches: Rec::seen_heapish
    reads, nread,             \* Rec::seen_reads, and how many became effects
    nother,                   \* Write, Call, Syscall, Ret, Branch and Capped effects
    covered,                  \* Rec::covered
    loc, hooks,               \* the access under way and the hooks it still owes
    late,                     \* accesses made after a stop request
    dropped                   \* accesses and instructions that went unrecorded

counters == <<instret, visits, memops, maps>>
record == <<fixed, pages, heapish_count, reads, nread, nother, covered>>
access == <<loc, hooks, late>>
runVars == <<phase, ended, capped, stop, counters, mapped, record, access, dropped>>

\* Rec::effects.len()
effects == nread + Cardinality(fixed) + heapish_count + nother
MemCap == InstrCap * MemOpsPerInstr
Kinds == {"call", "syscall", "ret", "branch", "plain"}

RunTypeOK ==
    /\ phase \in {"setup", "fetch", "mem", "end", "over"}
    /\ ended \in {"no", "ret", "stop", "error"}
    /\ capped \in BOOLEAN /\ stop \in BOOLEAN
    /\ instret \in 0..(InstrCap + 1) /\ visits \in [Addrs -> 0..(VisitCap + 1)]
    /\ memops \in Nat /\ maps \in 0..MaxMaps
    /\ fixed \in SUBSET FixedRegions
    /\ pages \in SUBSET {l.page : l \in Locs} /\ heapish_count \in 0..MaxHeapish
    /\ reads \in SUBSET {l.field : l \in Locs} /\ nread \in 0..MaxReads
    /\ nother \in Nat /\ covered \in SUBSET Body
    /\ loc \in Locs /\ hooks \in SUBSET {"unmapped", "read", "write"}
    /\ late \in 0..AfterStop /\ dropped \in BOOLEAN

RunInit ==
    /\ phase = "setup" /\ ended = "no" /\ capped = FALSE /\ stop = FALSE
    /\ instret = 0 /\ visits = [a \in Addrs |-> 0] /\ memops = 0 /\ maps = 0
    /\ mapped = SetupPages
    /\ fixed = {} /\ pages = {} /\ heapish_count = 0 /\ reads = {} /\ nread = 0
    /\ nother = 0 /\ covered = {}
    /\ loc \in Locs /\ hooks = {} /\ late = 0 /\ dropped = FALSE

\* segments, argument buffers, stack, registers and hooks; any of them may fail
Setup ==
    /\ phase = "setup"
    /\ \/ phase' = "fetch" /\ UNCHANGED ended
       \/ phase' = "end" /\ ended' = "error"
    /\ UNCHANGED <<capped, stop, counters, mapped, record, access, dropped>>

----------------------------------------------------------------------------
(* The code hook.                                                          *)

Overrun(a) == \/ visits[a] + 1 > VisitCap
              \/ instret + 1 > InstrCap
              \/ effects >= MaxEffects

\* the caps come first; a stopped instruction is neither covered nor recorded
CodeHook(a) ==
    /\ phase = "fetch" /\ ~stop
    /\ instret' = instret + 1 /\ visits' = [visits EXCEPT ![a] = @ + 1]
    /\ IF Overrun(a)
       THEN /\ capped' = TRUE /\ stop' = TRUE /\ phase' = "end" /\ ended' = "stop"
            /\ dropped' = TRUE /\ UNCHANGED <<nother, covered>>
       ELSE /\ covered' = covered \cup ({a} \cap Body)
            /\ \E k \in Kinds :
                  \* calls and syscalls are skipped, with a stubbed return value
                  /\ phase' = IF k \in {"ret", "plain"} THEN "mem" ELSE "fetch"
                  /\ nother' = IF k = "plain" THEN nother ELSE nother + 1
            /\ UNCHANGED <<capped, stop, ended, dropped>>
    /\ UNCHANGED <<memops, maps, mapped, fixed, pages, heapish_count, reads, nread, access>>

----------------------------------------------------------------------------
(* The memory hooks.  They fire once per access; Unicorn's order between    *)
(* the unmapped hook and the read or write hook is left open.               *)

Access(l, op) ==
    /\ phase = "mem" /\ hooks = {} /\ (stop => late < AfterStop)
    /\ loc' = l /\ hooks' = {op} \cup (IF l.page \in mapped THEN {} ELSE {"unmapped"})
    /\ late' = IF stop THEN late + 1 ELSE late
    /\ UNCHANGED <<phase, ended, capped, stop, counters, mapped, record, dropped>>

\* (mutant) the per-run limit on fresh heap regions is not applied
note_new_region_Unlimited ==
    \/ loc.region = "stack" /\ UNCHANGED <<fixed, pages, heapish_count>>
    \/ /\ loc.region = "heap" /\ pages' = pages \cup {loc.page} /\ UNCHANGED fixed
       /\ heapish_count' = IF loc.page \in pages
                           THEN heapish_count ELSE heapish_count + 1
    \/ /\ loc.region \in FixedRegions /\ fixed' = fixed \cup {loc.region}
       /\ UNCHANGED <<pages, heapish_count>>

\* one NewRegion per argument, one for the globals, MaxHeapish for fresh pages
note_new_region ==
    \/ loc.region = "stack" /\ UNCHANGED <<fixed, pages, heapish_count>>
    \/ /\ loc.region = "heap" /\ pages' = pages \cup {loc.page} /\ UNCHANGED fixed
       /\ heapish_count' = IF loc.page \in pages \/ heapish_count >= MaxHeapish
                           THEN heapish_count ELSE heapish_count + 1
    \/ /\ loc.region \in FixedRegions /\ fixed' = fixed \cup {loc.region}
       /\ UNCHANGED <<pages, heapish_count>>

Fire(h) == phase = "mem" /\ h \in hooks /\ hooks' = hooks \ {h} /\ UNCHANGED <<loc, late>>

\* refusing the page ends the run with an error
UnmappedHook ==
    /\ Fire("unmapped")
    /\ \/ /\ maps < MaxMaps /\ maps' = maps + 1
          /\ mapped' = mapped \cup {loc.page} /\ note_new_region
          /\ UNCHANGED <<phase, ended, capped, dropped>>
       \/ /\ maps < MaxMaps /\ maps' = maps + 1        \* mem_map failed
          /\ phase' = "end" /\ ended' = "error" /\ dropped' = TRUE
          /\ UNCHANGED <<mapped, fixed, pages, heapish_count, capped>>
       \/ /\ maps >= MaxMaps /\ capped' = TRUE
          /\ phase' = "end" /\ ended' = "error" /\ dropped' = TRUE
          /\ UNCHANGED <<maps, mapped, fixed, pages, heapish_count>>
    /\ UNCHANGED <<stop, instret, visits, memops, reads, nread, nother, covered>>

\* a hook that finds the run capped asks Unicorn to stop and records nothing
CapAndStop == /\ capped' = TRUE /\ stop' = TRUE /\ dropped' = TRUE
              /\ UNCHANGED <<fixed, pages, heapish_count, reads, nread, nother>>

\* (mutant) reads are not counted: they are deduplicated anyway
ReadHook_Uncounted ==
    /\ Fire("read")
    /\ IF capped THEN CapAndStop
       ELSE /\ note_new_region
            /\ reads' = IF loc.region = "stack" THEN reads ELSE reads \cup {loc.field}
            /\ nread' = IF loc.region # "stack" /\ loc.field \notin reads
                           /\ Cardinality(reads') <= MaxReads
                        THEN nread + 1 ELSE nread
            /\ UNCHANGED <<capped, stop, nother, dropped>>
    /\ UNCHANGED <<phase, ended, instret, visits, memops, maps, mapped, covered>>

\* one Read per distinct field, and no look at MaxEffects
ReadHook ==
    /\ Fire("read") /\ memops' = memops + 1
    /\ IF capped \/ memops' >= MemCap THEN CapAndStop
       ELSE /\ note_new_region
            /\ reads' = IF loc.region = "stack" THEN reads ELSE reads \cup {loc.field}
            /\ nread' = IF loc.region # "stack" /\ loc.field \notin reads
                           /\ Cardinality(reads') <= MaxReads
                        THEN nread + 1 ELSE nread
            /\ UNCHANGED <<capped, stop, nother, dropped>>
    /\ UNCHANGED <<phase, ended, instret, visits, maps, mapped, covered>>

\* (mutant) the effect limit is left to the code hook
WriteHook_NoGate ==
    /\ Fire("write") /\ memops' = memops + 1
    /\ IF capped \/ memops' >= MemCap THEN CapAndStop
       ELSE /\ note_new_region
            /\ nother' = IF loc.region = "stack" THEN nother ELSE nother + 1
            /\ UNCHANGED <<reads, nread, capped, stop, dropped>>
    /\ UNCHANGED <<phase, ended, instret, visits, maps, mapped, covered>>

\* (mutant) past the effect limit writes are skipped, but the run is not capped
WriteHook_Silent ==
    /\ Fire("write") /\ memops' = memops + 1
    /\ IF capped \/ memops' >= MemCap THEN CapAndStop
       ELSE IF effects >= MaxEffects
       THEN dropped' = TRUE /\ UNCHANGED <<fixed, pages, heapish_count, nother, reads,
                                           nread, capped, stop>>
       ELSE /\ note_new_region
            /\ nother' = IF loc.region = "stack" THEN nother ELSE nother + 1
            /\ UNCHANGED <<reads, nread, capped, stop, dropped>>
    /\ UNCHANGED <<phase, ended, instret, visits, maps, mapped, covered>>

\* a Write for anything but the stack
WriteHook ==
    /\ Fire("write") /\ memops' = memops + 1
    /\ IF capped \/ effects >= MaxEffects \/ memops' >= MemCap THEN CapAndStop
       ELSE /\ note_new_region
            /\ nother' = IF loc.region = "stack" THEN nother ELSE nother + 1
            /\ UNCHANGED <<reads, nread, capped, stop, dropped>>
    /\ UNCHANGED <<phase, ended, instret, visits, maps, mapped, covered>>

----------------------------------------------------------------------------
(* How emu_start ends, and try_run's reading of it.                        *)

NextInstruction ==
    /\ phase = "mem" /\ hooks = {} /\ ~stop /\ phase' = "fetch"
    /\ UNCHANGED <<ended, capped, stop, counters, mapped, record, access, dropped>>

EmuEnds(how) == /\ phase' = "end" /\ ended' = how
                /\ UNCHANGED <<capped, stop, counters, mapped, record, access>>

\* the sentinel; a stop request, even one that coincides with it; a fetch from
\* nowhere or an instruction that cannot be executed; the instruction count
Returns   == phase = "fetch" /\ instret > 0 /\ EmuEnds("ret") /\ UNCHANGED dropped
Stops     == /\ phase = "mem" /\ hooks = {} /\ stop
             /\ (EmuEnds("stop") \/ EmuEnds("ret")) /\ UNCHANGED dropped
RunFaults == phase = "fetch" /\ EmuEnds("error") /\ dropped' = TRUE
CountsOut == /\ phase = "fetch" /\ instret >= InstrCap
             /\ EmuEnds("stop") /\ dropped' = TRUE
\* the wall-clock backstop
TimesOut  == phase \in {"fetch", "mem"} /\ EmuEnds("stop") /\ dropped' = TRUE

\* anything but a stop at the return sentinel is a truncated trace, and ends in Capped
Finish ==
    /\ phase = "end" /\ phase' = "over"
    /\ capped' = (capped \/ instret >= InstrCap \/ ended # "ret")
    /\ nother' = IF capped' THEN nother + 1 ELSE nother
    /\ UNCHANGED <<ended, stop, counters, mapped, fixed, pages, heapish_count, reads, nread,
                   covered, access, dropped>>

Over == phase = "over" /\ UNCHANGED runVars

Emulate == \/ Setup \/ NextInstruction \/ Returns \/ Stops \/ RunFaults \/ CountsOut
           \/ \E a \in Addrs : CodeHook(a)
           \/ \E l \in Locs, op \in {"read", "write"} : Access(l, op)
           \/ UnmappedHook \/ ReadHook \/ WriteHook \/ Finish
RunNext == Emulate \/ TimesOut \/ Over

RunSpec == RunInit /\ [][RunNext]_runVars
\* the emulator keeps going; the timer need not ever fire
FairRunSpec == RunSpec /\ WF_runVars(Emulate)
----------------------------------------------------------------------------
EffectBound == MaxEffects + MaxReads + MaxHeapish + Cardinality(FixedRegions)
\* the Capped effect
Mark == IF phase = "over" /\ capped THEN 1 ELSE 0

\* The effect stream stays bounded although only two of the four hooks look at
\* its length: a rep instruction, and reads that never look, add no more than the
\* fields and regions that are recorded once each, and a capped stream its mark.
EffectsBounded == effects <= EffectBound + Mark

\* A trace that is not marked capped lost nothing: no hook skipped an access, no
\* page was refused, and the run ended at the return sentinel.
CleanTraceIsComplete == phase = "over" /\ ~capped => ended = "ret" /\ ~dropped

\* Whatever the code does, a run ends without the wall-clock timer ("termination
\* is bounded deterministically", fnprint-emu/src/lib.rs:59).
RunTerminates == <>(phase = "over")

\* What makes the two invariants inductive (WorkerProofs): each source of
\* effects has its own limit, a loss is either marked already or ends the run, and
\* so does the first counter to pass its cap.
SourcesBounded == nother <= MaxEffects + Mark /\ nread <= Cardinality(reads)
EndInv ==
    /\ phase \in {"end", "over"} <=> ended # "no"
    /\ dropped /\ ~capped => ended \in {"stop", "error"}
    /\ phase = "over" /\ ~capped => ended = "ret"
CountsInv == ended = "no" => instret <= InstrCap /\ \A a \in Addrs : visits[a] <= VisitCap
RunInv == RunTypeOK /\ SourcesBounded /\ EndInv /\ CountsInv
=============================================================================

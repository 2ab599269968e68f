----------------------------- MODULE WorkerCall -----------------------------
(***************************************************************************)
(* What run_worker promises its caller (run_index, run_dump,               *)
(* load_corpus_records and every shard thread of run_workers_sharded): one *)
(* child per call, gone before the call returns; the call ends in an error *)
(* or in the whole reply of that child.  (When it may not end at all is    *)
(* HangsOnlyOnErrorArms of Worker.)                                        *)
(***************************************************************************)
VARIABLES call,   \* "idle", "busy", "ok", "error" or "dead"
          child,  \* "none", "live", "gone" or "orphan"
          reply   \* "none" or "whole"

vars == <<call, child, reply>>

TypeOK == /\ call \in {"idle", "busy", "ok", "error", "dead"}
          /\ child \in {"none", "live", "gone", "orphan"}
          /\ reply \in {"none", "whole"}

Init == call = "idle" /\ child = "none" /\ reply = "none"

Start == /\ call = "idle" /\ call' = "busy" /\ child' = "live"
         /\ UNCHANGED reply

StartFails == /\ call = "idle" /\ call' = "error" /\ UNCHANGED <<child, reply>>

ChildEnds == /\ call = "busy" /\ child = "live" /\ child' = "gone"
             /\ UNCHANGED <<call, reply>>

\* collecting the child and returning may be one step
Return == /\ call = "busy" /\ child' = "gone"
          /\ \/ call' = "ok" /\ reply' = "whole"
             \/ call' = "error" /\ UNCHANGED reply

\* the calling process itself is killed
Dies == /\ call = "busy" /\ call' = "dead" /\ child' = "orphan"
        /\ UNCHANGED reply

Next == Start \/ StartFails \/ ChildEnds \/ Return \/ Dies

Spec == Init /\ [][Next]_vars
=============================================================================

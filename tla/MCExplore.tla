----------------------------- MODULE MCExplore -----------------------------
(* Every body of three instructions: straight code, returns, bytes that do   *)
(* not decode, and branches to anywhere, loops included.                     *)
EXTENDS Explore
Instr(kd, t, kn) == [kind |-> kd, target |-> t, known |-> kn]
Straight == {Instr(kd, 0, TRUE) : kd \in {"plain", "ret", "junk"}}
\* jcc rel8 and rel32 and the branches of aarch64; jrcxz and prefixed branches,
\* whose target branch_target leaves out
MCInstrs == Straight \cup {Instr("branch", t, kn) : t \in 0..Size, kn \in BOOLEAN}
=============================================================================

---------------------------- MODULE MCMicroExec ----------------------------
(* Two addresses, one of them outside the body; a fixed region, the stack,   *)
(* and heap locations on two fresh pages and on the rounded-up tail of a     *)
(* segment, two of which share an in-page offset.                            *)
EXTENDS MicroExec
At(r, p, f) == [region |-> r, page |-> p, field |-> f]
MCLocs == {At("arg0", "a", "arg0+0"), At("stack", "s", "stack"),
           At("heap", "h1", "heap+0"), At("heap", "h2", "heap+0"),
           At("heap", "t", "heap+8")}
MCPages == {"a", "s", "t"}
MCFixed == {"arg0"}
=============================================================================

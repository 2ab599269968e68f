------------------------------- MODULE Loader -------------------------------
(***************************************************************************)
(* From the headers of an ELF to an engine that can run its functions:     *)
(* fnprint_loader::load (segment plan, copies, overlap check, function     *)
(* discovery, imports), the call edges index_bytes_shard and static_calls  *)
(* draw from them, and the memory setup of MicroExec::try_run with its     *)
(* ensure_pages.  goblin, gimli and capstone are external: `elf` is what   *)
(* they report of the file, and Unicorn's memory is a set of regions.      *)
(*                                                                         *)
(* Addresses are 0..Top, Top standing for u64::MAX; additions saturate     *)
(* where the code's do.                                                    *)
(***************************************************************************)
EXTENDS Ranking, SequencesExt

CONSTANTS
    Elfs,         \* the files: [phdrs, symtab, dynsym, fdes, plt, relocs, stubs, calls]
                  \* with calls the call sites of the code: [at, to, kind], kind
                  \* "call", "jmp" or "slot" (call or jmp [rip+slot])
    FileLen, Top, Page,
    MaxSegMem, MaxTotalMem, MaxLoadSegs, MaxFuncs,
    Scratch,      \* argument buffers and stack, in setup order: [lo, len]
    MaxSetupRuns,
    MaxScan       \* bytes of a body that static_calls reads (1 << 20)

Header == [off : 0..Top, filesz : 0..Top, vaddr : 0..Top, memsz : 0..Top]
Func == [name : STRING, entry : 0..Top, size : 0..Top, func : BOOLEAN]
File == [phdrs : Seq(Header), symtab : Seq(Func), dynsym : Seq(Func), fdes : Seq(Func),
         plt : SUBSET (0..Top), relocs : Seq([entry : 0..Top, name : STRING]),
         stubs : SUBSET [entry : 0..Top, slot : 0..Top],
         calls : SUBSET [at : 0..Top, to : 0..Top, kind : {"call", "jmp", "slot"}]]

\* the buffers and the stack end before the very last page, and their pages are few
\* enough that no layout of a file can leave more than MaxSetupRuns holes in them
ASSUME LoaderAssumption ==
    /\ FileLen \in Nat /\ Top \in Nat /\ FileLen <= Top /\ Page \in Nat \ {0} /\ MaxSegMem \in Nat
    /\ MaxTotalMem \in Nat /\ MaxTotalMem < Top /\ MaxLoadSegs \in Nat /\ MaxFuncs \in Nat
    /\ MaxSetupRuns \in Nat \ {0} /\ MaxScan \in Nat
    /\ Scratch \in Seq([lo : Nat, len : Nat]) /\ Scratch # <<>>
    /\ \A i \in 1..Len(Scratch) :
          /\ Scratch[i].lo + Scratch[i].len <= Top - (Top % Page)
          /\ (Scratch[i].lo % Page) + Scratch[i].len <= 2 * MaxSetupRuns * Page

\* unwind info has no names, and relocations without one are not listed
ASSUME FilesAssumption ==
    /\ Elfs \subseteq File
    /\ \A e \in Elfs : /\ \A i \in 1..Len(e.fdes) : e.fdes[i].name = ""
                      /\ \A i \in 1..Len(e.relocs) : e.relocs[i].name # ""

VARIABLES
    elf,        \* the file
    pc,         \* "plan", "copy", "sort", "discover", "map", "scratch", "ready",
                \* "refused" (load bailed) or "fault" (try_run failed)
    k,          \* how far the phase has come in its list
    plans, total_mem,   \* first pass: planned segments, bytes they will hold
    segments,   \* second pass: [vaddr, len]
    funcs,      \* the discovered functions
    mapped,     \* pages ensure_pages believes mapped
    regions     \* Unicorn's regions: <<first page, page after the last>>

vars == <<elf, pc, k, plans, total_mem, segments, funcs, mapped, regions>>

Sat(x) == IF x > Top THEN Top ELSE x
Lesser(x, y) == IF x < y THEN x ELSE y
Larger(x, y) == IF x < y THEN y ELSE x
Take(n, s) == SubSeq(s, 1, Lesser(n, Len(s)))

----------------------------------------------------------------------------
(* Function discovery.                                                     *)

Entries(s) == {s[i].entry : i \in 1..Len(s)}

\* the places of the functions of s that have a body
Bodies(s) == {i \in DOMAIN s : s[i].func /\ s[i].entry # 0 /\ s[i].size # 0}

\* the sized FDEs, up to the cap
eh_frame_funcs(e) == Take(MaxFuncs, At(e.fdes, {i \in DOMAIN e.fdes : e.fdes[i].size > 0}))

\* (mutant) unwind info is only used when there are no symbols at all
discover_SymbolsOrFdes(e) ==
    LET syms == e.symtab \o e.dynsym
    IN  IF Bodies(syms) # {} THEN Take(MaxFuncs, At(syms, Bodies(syms))) ELSE eh_frame_funcs(e)

\* symbols with a body, then the FDEs of what they left out
discover(e) ==
    LET syms == e.symtab \o e.dynsym
        out == Take(MaxFuncs, At(syms, Bodies(syms)))
        fdes == eh_frame_funcs(e)
        rest == {i \in DOMAIN fdes : fdes[i].entry \notin Entries(out) \cup e.plt}
    IN  Take(MaxFuncs, out \o At(fdes, rest))

\* stable sort by entry, named first, then the first of each entry
sort_dedup(s) ==
    LET named(i) == IF s[i].name = "" THEN 1 ELSE 0
        order == InRank(DOMAIN s, LAMBDA i, j :
                    \/ s[i].entry < s[j].entry
                    \/ s[i].entry = s[j].entry /\ named(i) < named(j)
                    \/ s[i].entry = s[j].entry /\ named(i) = named(j) /\ i < j)
        sorted == [i \in DOMAIN order |-> s[order[i]]]
    IN  At(sorted, {i \in DOMAIN sorted : i = 1 \/ sorted[i].entry # sorted[i - 1].entry})

----------------------------------------------------------------------------
(* Imports and call edges.                                                 *)

\* relocations name their slots, the last one winning; a plt stub takes the
\* name of the slot it jumps through
plt_imports(e) ==
    LET slots == Entries(e.relocs)
        named(a) == e.relocs[CHOOSE i \in 1..Len(e.relocs) : e.relocs[i].entry = a
                        /\ \A j \in (i + 1)..Len(e.relocs) : e.relocs[j].entry # a].name
        stubs == {s \in e.stubs : s.slot \in slots}
    IN  [a \in slots \cup {s.entry : s \in stubs} |->
            IF \E s \in stubs : s.entry = a
            THEN named((CHOOSE s \in stubs : s.entry = a).slot) ELSE named(a)]

\* the end of a segment saturates, so this misses a byte at Top itself
End(s) == Sat(s.vaddr + s.len)
in_image(segs, a) == \E i \in 1..Len(segs) : segs[i].vaddr <= a /\ a < End(segs[i])

\* len bytes from a on are within one segment
code_at(segs, a, len) ==
    \E i \in 1..Len(segs) : a \in segs[i].vaddr..(segs[i].vaddr + segs[i].len - len)

\* targets of direct calls and tail calls in the image, and names of imports
\* called through a stub or a slot, over the first MaxScan bytes of the body
static_calls(e, segs, f) ==
    LET imports == plt_imports(e)
        Body == f.entry..(Sat(f.entry + f.size) - 1)
        size == Lesser(f.size, MaxScan)
        sites == IF ~code_at(segs, f.entry, size) THEN {}
                 ELSE {c \in e.calls : c.at \in f.entry..(f.entry + size - 1)
                                       /\ ~(c.kind = "jmp" /\ c.to \in Body)}
    IN  [callees |-> {c.to : c \in {d \in sites : d.kind # "slot" /\ d.to \notin DOMAIN imports
                                                   /\ in_image(segs, d.to)}},
         names |-> {imports[c.to] : c \in {d \in sites : d.to \in DOMAIN imports}}]

\* the edges of f: an import defined in the image counts, the last function of
\* that name in list order
callees(e, segs, list, f) ==
    LET calls == static_calls(e, segs, f)
        local_by_name(n) == {list[i].entry : i \in {j \in 1..Len(list) :
                                /\ list[j].name = n
                                /\ \A m \in (j + 1)..Len(list) : list[m].name # n}}
    IN  (calls.callees \cup UNION {local_by_name(n) : n \in calls.names}) \ {f.entry}

\* the functions that get a print
Indexed(segs, list) == {f \in Range(list) : f.size > 0 /\ code_at(segs, f.entry, 1)}

----------------------------------------------------------------------------
(* load, header by header.                                                 *)

Init ==
    /\ elf \in Elfs /\ pc = "plan" /\ k = 1 /\ plans = <<>> /\ total_mem = 0
    /\ segments = <<>> /\ funcs = <<>> /\ mapped = {} /\ regions = {}

Refuse == /\ pc' = "refused" /\ segments' = <<>> /\ plans' = <<>>
          /\ UNCHANGED <<elf, k, total_mem, funcs, mapped, regions>>

\* the bytes of the file a header really names: off and filesz may lie past its end
window(h) == LET start == Lesser(h.off, FileLen)
             IN  Lesser(Sat(start + h.filesz), FileLen) - start

\* (mutant) only memsz is counted, not the file window
alloc_len_MemszOnly(h) == h.memsz

\* what a header will hold: its window, grown to memsz
alloc_len(h) == Larger(window(h), h.memsz)

\* refused before anything is allocated
PlanHeader ==
    /\ pc = "plan" /\ k <= Len(elf.phdrs)
    /\ LET h == elf.phdrs[k]
           sum == Sat(total_mem + alloc_len(h))
       IN  IF \/ h.memsz > MaxSegMem \/ h.vaddr + h.memsz > Top
              \/ sum > MaxTotalMem \/ Len(plans) + 1 > MaxLoadSegs
           THEN Refuse
           ELSE /\ plans' = Append(plans, h) /\ total_mem' = sum /\ k' = k + 1
                /\ UNCHANGED <<elf, pc, segments, funcs, mapped, regions>>

PlanEnds ==
    /\ pc = "plan" /\ k > Len(elf.phdrs)
    /\ IF plans = <<>> THEN Refuse
       ELSE /\ pc' = "copy" /\ k' = 1
            /\ UNCHANGED <<elf, plans, total_mem, segments, funcs, mapped, regions>>

\* the window is copied and padded with zeros up to memsz
CopySegment ==
    /\ pc = "copy"
    /\ LET copied == window(plans[k])
       IN  segments' = Append(segments, [vaddr |-> plans[k].vaddr,
                len |-> IF plans[k].memsz > copied THEN plans[k].memsz ELSE copied])
    /\ k' = k + 1 /\ pc' = IF k = Len(plans) THEN "sort" ELSE "copy"
    /\ UNCHANGED <<elf, plans, total_mem, funcs, mapped, regions>>

\* p orders s by vaddr and keeps the order of equal ones
StableOrder(p, s) ==
    \A i, j \in 1..Len(s) : i < j =>
        \/ s[p[i]].vaddr < s[p[j]].vaddr
        \/ s[p[i]].vaddr = s[p[j]].vaddr /\ p[i] < p[j]

\* (mutant) the last byte of a segment is taken for its end
SortSegments_LastByte ==
    /\ pc = "sort"
    /\ \E p \in [1..Len(segments) -> 1..Len(segments)] :
          /\ StableOrder(p, segments)
          /\ LET sorted == [i \in 1..Len(segments) |-> segments[p[i]]]
             IN  IF \E i \in 1..(Len(sorted) - 1) :
                       sorted[i + 1].vaddr + 1 < Sat(sorted[i].vaddr + sorted[i].len)
                 THEN Refuse
                 ELSE /\ pc' = "discover" /\ segments' = sorted
                      /\ UNCHANGED <<elf, k, plans, total_mem, funcs, mapped, regions>>

\* sorted by vaddr; a segment that starts before its predecessor ends is refused
SortSegments ==
    /\ pc = "sort"
    /\ \E p \in [1..Len(segments) -> 1..Len(segments)] :
          /\ StableOrder(p, segments)
          /\ LET sorted == [i \in 1..Len(segments) |-> segments[p[i]]]
             IN  IF \E i \in 1..(Len(sorted) - 1) :
                       sorted[i + 1].vaddr < Sat(sorted[i].vaddr + sorted[i].len)
                 THEN Refuse
                 ELSE /\ pc' = "discover" /\ segments' = sorted
                      /\ UNCHANGED <<elf, k, plans, total_mem, funcs, mapped, regions>>

Discover ==
    /\ pc = "discover" /\ funcs' = sort_dedup(discover(elf))
    /\ pc' = "map" /\ k' = 1
    /\ UNCHANGED <<elf, plans, total_mem, segments, mapped, regions>>

----------------------------------------------------------------------------
(* try_run's memory.                                                       *)

\* the pages of a span; rounding up saturates, so never the very last page
FirstPage(lo) == lo \div Page
PastPage(lo, len) == Sat(Sat(lo + len) + Page - 1) \div Page
Pages(r) == r[1]..(r[2] - 1)
Free(a, b) == \A r \in regions : r[2] <= a \/ b <= r[1]

\* the maximal runs of pages in a..b-1 that are not mapped
FreeRuns(a, b) ==
    {r \in (a..b) \X (a..b) :
        /\ r[1] < r[2] /\ Pages(r) \cap mapped = {}
        /\ r[1] = a \/ (r[1] - 1) \in mapped
        /\ r[2] = b \/ r[2] \in mapped}

\* (mutant) an overlap fails the setup
ensure_pages_AllOrNothing(lo, len) ==
    LET a == FirstPage(lo)
        b == PastPage(lo, len)
    IN  IF b <= a THEN [ok |-> TRUE, maps |-> {}]
        ELSE [ok |-> Free(a, b), maps |-> IF Free(a, b) THEN {<<a, b>>} ELSE {}]

\* one region for the span, or one for each run of its pages still free, in
\* order of address until one cannot be mapped or there are too many
ensure_pages(lo, len) ==
    LET a == FirstPage(lo)
        b == PastPage(lo, len)
        runs == FreeRuns(a, b)
        upto(r) == {s \in runs : s[1] <= r[1]}
        done == {r \in runs : Cardinality(upto(r)) <= MaxSetupRuns
                             /\ \A s \in upto(r) : Free(s[1], s[2])}
    IN  IF b <= a THEN [ok |-> TRUE, maps |-> {}]
        ELSE IF Free(a, b) THEN [ok |-> TRUE, maps |-> {<<a, b>>}]
        ELSE [ok |-> done = runs, maps |-> done]

\* mem_write: every byte lies in a mapped page
Writable(m, lo, len) ==
    len = 0 \/ (lo + len - 1 <= Top /\ \A p \in FirstPage(lo)..FirstPage(lo + len - 1) : p \in m)

\* what was mapped before a failure stays
Map(lo, len, next) ==
    LET e == ensure_pages(lo, len)
    IN  /\ mapped' = mapped \cup UNION {Pages(r) : r \in e.maps}
        /\ regions' = regions \cup e.maps
        /\ IF e.ok /\ Writable(mapped', lo, len) THEN next ELSE pc' = "fault" /\ UNCHANGED k
        /\ UNCHANGED <<elf, plans, total_mem, segments, funcs>>

MapSegment ==
    /\ pc = "map"
    /\ Map(segments[k].vaddr, segments[k].len,
           IF k < Len(segments) THEN pc' = pc /\ k' = k + 1 ELSE pc' = "scratch" /\ k' = 1)

MapScratch ==
    /\ pc = "scratch"
    /\ Map(Scratch[k].lo, Scratch[k].len,
           IF k < Len(Scratch) THEN pc' = pc /\ k' = k + 1 ELSE pc' = "ready" /\ k' = k)

Done == pc \in {"ready", "refused", "fault"} /\ UNCHANGED vars

Next == \/ PlanHeader \/ PlanEnds \/ CopySegment \/ SortSegments \/ Discover
        \/ MapSegment \/ MapScratch \/ Done
Spec == Init /\ [][Next]_vars
----------------------------------------------------------------------------
Loaded == pc \in {"discover", "map", "scratch", "ready", "fault"}

\* the addresses that code_at finds a byte of s at
Span(s) == s.vaddr..(s.vaddr + s.len - 1)

\* No byte of the address space below the very last belongs to two segments of an
\* accepted file, neighbours in the list or not, although load compares neighbours
\* only.  Top itself is excepted: the ends load compares saturate there, so it takes two
\* segments that both contain Top.
SegmentsDisjoint ==
    Loaded => \A i, j \in 1..Len(segments) : i < j =>
                 Span(segments[i]) \cap Span(segments[j]) \cap 0..(Top - 1) = {}

\* the bytes of a list of buffers: <<buffer, offset>>
Bytes(lens) == UNION {{i} \X (1..lens[i]) : i \in DOMAIN lens}
Held == Bytes([i \in DOMAIN segments |-> segments[i].len])

\* What load holds, at any moment of the copying, stays under the total it
\* promises not to exceed, whatever the headers claim and however they overlap.
MemoryBounded == Cardinality(Held) <= MaxTotalMem

ReachesLastPage ==
    \E i \in 1..Len(segments) : segments[i].vaddr + segments[i].len > Top - (Top % Page)

\* A file that load accepted can be set up to run: shared pages, segments in the
\* argument buffers or the stack included, unless it reaches into the very last
\* page.  An indexed function's entry is then in mapped memory.
AcceptedFilesRun ==
    /\ pc = "fault" => ReachesLastPage
    /\ pc = "ready" => \A f \in Indexed(segments, funcs) : FirstPage(f.entry) \in mapped

strip(e) == [e EXCEPT !.symtab = <<>>]
Aliased(list) == \E i, j \in 1..Len(list) :
    list[i].entry = list[j].entry /\ list[i].name # "" /\ list[j].name \notin {"", list[i].name}
\* a function that bears the name of an import is the export of that name
ImportsAreExports(e) ==
    \A f \in Range(discover(e)) : f.name \in Range(plt_imports(e)) =>
        \E g \in Range(discover(strip(e))) : g.name = f.name /\ g.entry = f.entry
\* symbols and unwind info agree on how long each function is
OneSizePerEntry(e) ==
    \A f, g \in Range(discover(e)) \cup Range(eh_frame_funcs(e)) :
        f.entry = g.entry => f.size = g.size

\* `strip --strip-all` leaves the functions that unwind info covers, and their call
\* edges through the plt, as they were, so a stripped target can be aligned with a
\* symboled corpus; below the cap, and unless a static function bears the name of
\* an import, a function has two names (the alias may be the one an edge needs) or
\* its symbol and its unwind info disagree on where it ends.
StrippingKeepsTheGraph ==
    LET full == sort_dedup(discover(elf))
        bare == sort_dedup(discover(strip(elf)))
        covered == Entries(eh_frame_funcs(elf)) \ elf.plt
    IN  pc = "map" /\ Len(elf.symtab) + Len(elf.dynsym) + Len(elf.fdes) <= MaxFuncs =>
           /\ Entries(full) \cap covered \subseteq Entries(bare)
           /\ ImportsAreExports(elf) /\ ~Aliased(discover(elf)) /\ OneSizePerEntry(elf) =>
                \A f \in Range(full), g \in Range(bare) : f.entry = g.entry =>
                   callees(elf, segments, full, f) = callees(strip(elf), segments, bare, g)

----------------------------------------------------------------------------
(* The inductive invariant behind the theorems (LoaderProofs).             *)

TypeOK ==
    /\ elf.phdrs \in Seq(Header) /\ k \in Nat \ {0}
    /\ pc \in {"plan", "copy", "sort", "discover", "map", "scratch", "ready", "refused", "fault"}
    /\ plans \in Seq(Header) /\ segments \in Seq([vaddr : 0..Top, len : Nat])
    /\ mapped \subseteq Nat /\ regions \subseteq Nat \X Nat

\* where the phases are in their lists
PhaseInv ==
    /\ pc = "plan" => segments = <<>>
    /\ pc = "copy" => k \in 1..Len(plans) /\ Len(segments) = k - 1
    /\ pc \in {"sort", "discover"} => segments # <<>>
    /\ pc \in {"plan", "copy", "sort", "discover"} => mapped = {} /\ regions = {}
    /\ pc = "map" => k \in 1..Len(segments)
    /\ pc = "scratch" => k \in 1..Len(Scratch)

\* a segment ends before every later one starts, not only before the next
OrderInv ==
    Loaded => \A i, j \in 1..Len(segments) : i < j => End(segments[i]) <= segments[j].vaddr

\* only a page that the next segment starts in can be mapped when its turn comes, and
\* what has been written stays mapped
MapInv ==
    /\ \A r \in regions : r[1] < r[2]
    /\ pc = "map" => \A p \in mapped : p <= FirstPage(segments[k].vaddr)
    /\ \A i \in 1..Len(segments) :
          (pc = "map" /\ i < k) \/ pc \in {"scratch", "ready"} =>
             Writable(mapped, segments[i].vaddr, segments[i].len)

\* ensure_pages' set of pages is what Unicorn has mapped, after a failure too, and
\* no page is mapped twice
MirrorIsExact ==
    /\ mapped = UNION {Pages(r) : r \in regions}
    /\ \A r, s \in regions : r = s \/ r[2] <= s[1] \/ s[2] <= r[1]

FaultInv == pc = "fault" => ReachesLastPage

\* what the plan will make load allocate
Planned == Bytes([i \in DOMAIN plans |-> alloc_len(plans[i])])

\* the total counts every byte of the plan, a copied segment is as long as it was
\* planned, and a segment that is only moved in the list weighs what it did
BudgetInv ==
    /\ total_mem \in 0..MaxTotalMem
    /\ pc \in {"plan", "copy"} => Cardinality(Planned) <= total_mem
    /\ pc = "copy" => \A i \in 1..Len(segments) : segments[i].len = alloc_len(plans[i])
    /\ MemoryBounded

IInv == TypeOK /\ PhaseInv /\ OrderInv /\ MapInv /\ MirrorIsExact /\ FaultInv
=============================================================================

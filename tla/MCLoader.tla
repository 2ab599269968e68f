------------------------------ MODULE MCLoader ------------------------------
(* Two families of files over addresses 0..31 in pages of four bytes.  Files *)
(* with up to four segments, from every overlap, window and bss shape, and  *)
(* no functions; and files with one segment and every small combination of   *)
(* symbols, exports and unwind entries.                                      *)
EXTENDS Loader

Hdr(o, fs, va, ms) == [off |-> o, filesz |-> fs, vaddr |-> va, memsz |-> ms]
\* windows: none, whole, clamped at the end of the file, past its end
Shapes == {<<0, 0, 0>>, <<0, 2, 3>>, <<0, 6, 0>>, <<4, 31, 4>>, <<31, 31, 5>>, <<0, 0, 8>>}
Headers == {Hdr(s[1], s[2], va, s[3]) : s \in Shapes, va \in {2, 4, 7, 18, 26, 30}}
           \cup {Hdr(4, 31, 31, 0)}   \* two bytes from the very last address on
PhdrLists == {<<>>} \cup {<<h>> : h \in Headers} \cup (Headers \X Headers)
             \cup {<<g, h, Hdr(0, 1, 5, 1)>> : g, h \in Headers}
             \cup {[i \in 1..4 |-> Hdr(0, 1, i, 1)]}

Bare(ph) == [phdrs |-> ph, symtab |-> <<>>, dynsym |-> <<>>, fdes |-> <<>>, plt |-> {},
             relocs |-> <<>>, stubs |-> {}, calls |-> {}]

Sym(n, e, sz) == [name |-> n, entry |-> e, size |-> sz, func |-> TRUE]
Fde(e, sz) == [name |-> "", entry |-> e, size |-> sz, func |-> TRUE]
Foo == Sym("foo", 4, 2)
Bar == Sym("bar", 6, 3)
UpToTwo(S) == {<<>>} \cup {<<x>> : x \in S} \cup (S \X S)

\* bar calls foo through the plt stub at 8 (slot 20); foo tail-calls bar; what stands in
\* the last byte of bar is not read
Program(sy, dy, fd) ==
    [phdrs |-> <<Hdr(0, 6, 4, 6)>>, symtab |-> sy, dynsym |-> dy, fdes |-> fd,
     plt |-> 8..9,
     relocs |-> <<[entry |-> 20, name |-> "old"], [entry |-> 20, name |-> "foo"]>>,
     stubs |-> {[entry |-> 8, slot |-> 20]},
     calls |-> {[at |-> 6, to |-> 8, kind |-> "call"], [at |-> 7, to |-> 6, kind |-> "jmp"],
                [at |-> 5, to |-> 6, kind |-> "jmp"], [at |-> 8, to |-> 4, kind |-> "call"]}]

Locals == {Foo, Bar, Sym("", 4, 2), Sym("foo", 6, 3), Sym("bar", 0, 2), Sym("impl", 4, 2),
           [Bar EXCEPT !.func = FALSE]}
Exports == {Foo, Bar, Sym("foo", 4, 0)}
Unwound == {Fde(4, 2), Fde(4, 1), Fde(6, 3), Fde(8, 2), Fde(12, 0)}

Programs == {Program(sy, dy, fd) : sy \in UpToTwo(Locals), dy \in UpToTwo(Exports),
                                   fd \in UpToTwo(Unwound)}
MCElfs == {Bare(ph) : ph \in PhdrLists} \cup Programs

\* an argument buffer on a page of its own, and a stack over two pages
MCScratch == <<[lo |-> 16, len |-> 4], [lo |-> 20, len |-> 8]>>
=============================================================================

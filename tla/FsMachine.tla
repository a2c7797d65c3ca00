------------------------------ MODULE FsMachine ------------------------------
(* What the models of the file systems share: the statements that change        *)
(* persistent memory, as operators from machine states to machine states, and   *)
(* blocks of pointers.                                                          *)
(*                                                                              *)
(* A machine state is a record of a file system's memory. Of its fields, this   *)
(* module knows                                                                 *)
(*   m      persistent memory, pts the memories before each fence so far: where *)
(*          a power failure in the middle of a call finds it;                   *)
(*   ret    what the last function returned.                                    *)
EXTENDS PMem, Sequencing, SequencesExt, Functions

CONSTANTS Fanout,     \* pointers in a meta block, 1 << META_BLK_SHIFT
          Units       \* units of a block: a data word, a pointer, a short entry

CPU == CHOOSE c \in CPUs : TRUE
Unit(b, u) == <<"blk", b + (u \div Units), u % Units>>
UnitsOf(b, num) == {Unit(b, u) : u \in 0..(num * Units - 1)}

Zero == [k |-> "zero"]
Null == 0

\* A store to some fields of a line, a store of a whole line, a write-back, a fence.
Get(s, l) == Cur(s.m, l)
St(s, l, r) == [s EXCEPT !.m = StoreFields(@, l, r)]
Put(s, l, v) == [s EXCEPT !.m = Store(@, l, v)]
Fl(s, L) == [s EXCEPT !.m = Clwb(@, CPU, L)]
Barrier(s) == [s EXCEPT !.m = Fence(@, CPU), !.pts = Append(@, s.m)]
StFl(s, l, r) == Fl(St(s, l, r), {l})
ZeroLines(s, L) == Fl([s EXCEPT !.m = FoldSet(LAMBDA l, m : Store(m, l, Zero), @, L)], L)
Ret(s, v) == [s EXCEPT !.ret = v]

\* A pointer of a meta block. Meta blocks are zeroed when they are allocated.
Ptr(m, b, i) == LET v == Cur(m, Unit(b, i))
                IN CASE v.k = "zero" -> Null [] v.k = "ptr" -> v.b
SetPtr(s, b, i, to) == Put(s, Unit(b, i), IF to = Null THEN Zero ELSE [k |-> "ptr", b |-> to])

Span(height) == Fanout ^ height
IndexSeq(a, b) == [k \in 1..(b - a + 1) |-> a + k - 1]
\* The numbers of S from the least on.
Ascending(S) == IF S = {} THEN <<>> ELSE SelectSeq(IndexSeq(Min(S), Max(S)), LAMBDA n : n \in S)

\* The blocks below the i-th pointer that lie in first..last.
FirstBlk(i, first, span) == IF i = first \div span THEN first % span ELSE 0
LastBlk(i, last, span) == IF i = last \div span THEN last % span ELSE span - 1

\* How many levels of pointers reach block number last.
HeightFor(last) == Min({h \in 0..4 : last < Span(h)})

RECURSIVE FindBlock(_, _, _, _)
FindBlock(m, b, height, n) ==
    IF height = 0 \/ b = Null THEN b
    ELSE FindBlock(m, Ptr(m, b, n \div Span(height - 1)), height - 1, n % Span(height - 1))
==============================================================================

--------------------------------- MODULE PMem ---------------------------------
(* Persistent memory as the file systems under test use it: cache lines that   *)
(* are stored to, written back (clwb) and ordered (sfence).                     *)
(*                                                                              *)
(* A memory is a record                                                         *)
(*   now  what the CPUs read, for every line;                                   *)
(*   d    for the lines of which a power failure can still lose something:      *)
(*        h, the successive values it can leave (the first is durable, the last *)
(*        is what the CPUs read), and f, for each CPU the position in h that    *)
(*        its last clwb of the line covers, 1 when it has none outstanding.     *)
(* Stores to one line become durable in the order they were made; stores to     *)
(* different lines in any order, until a fence of the CPU that wrote them back. *)
(* Several stores with no fence between them may be taken in one step: what a   *)
(* failure can leave behind only grows until the next fence.                    *)
EXTENDS Integers, Sequences, FiniteSetsExt, TLC

CONSTANT CPUs   \* the processors that issue write-backs and fences

\* The memory whose medium holds exactly img, after a restart.
Fresh(img) == [now |-> img, d |-> <<>>]

\* What a load returns.
Cur(m, l) == m.now[l]

\* Successive stores of the values vs to line l; stores that change nothing leave
\* nothing to lose.
Stores(m, l, vs) ==
    IF \A k \in DOMAIN vs : vs[k] = m.now[l] THEN m
    ELSE [now |-> [m.now EXCEPT ![l] = vs[Len(vs)]],
          d |-> [x \in {l} \cup DOMAIN m.d |->
                    IF x # l THEN m.d[x]
                    ELSE IF l \in DOMAIN m.d THEN [h |-> m.d[l].h \o vs, f |-> m.d[l].f]
                    ELSE [h |-> <<m.now[l]>> \o vs, f |-> [c \in CPUs |-> 1]]]]

Store(m, l, v) == Stores(m, l, <<v>>)

\* A store to some fields of the record kept in line l.
StoreFields(m, l, r) == Store(m, l, r @@ m.now[l])

\* pmfs_flush_buffer, nova_flush_buffer: CPU c writes back the lines of L.
Clwb(m, c, L) ==
    [now |-> m.now,
     d |-> [l \in DOMAIN m.d |->
               IF l \notin L THEN m.d[l]
               ELSE [h |-> m.d[l].h, f |-> [m.d[l].f EXCEPT ![c] = Len(m.d[l].h)]]]]

\* PERSISTENT_BARRIER: what c has written back is durable.
Fence(m, c) ==
    LET left == {l \in DOMAIN m.d : m.d[l].f[c] < Len(m.d[l].h)}
        cut(x) == LET k == x.f[c]
                  IN [h |-> SubSeq(x.h, k, Len(x.h)),
                      f |-> [e \in CPUs |-> IF x.f[e] > k THEN x.f[e] - k + 1 ELSE 1]]
    IN [now |-> m.now, d |-> [l \in left |-> cut(m.d[l])]]

\* Every line independently keeps any of the values still in h.
CrashImages(m) ==
    LET longest == Max({1} \cup {Len(m.d[l].h) : l \in DOMAIN m.d})
        pick == {p \in [DOMAIN m.d -> 1..longest] :
                    \A l \in DOMAIN m.d : p[l] \in DOMAIN m.d[l].h}
    IN {[l \in DOMAIN m.now |-> IF l \in DOMAIN m.d THEN m.d[l].h[p[l]] ELSE m.now[l]]
        : p \in pick}

\* What the CPUs see, as an image: also what an orderly shutdown leaves behind.
View(m) == m.now
===============================================================================

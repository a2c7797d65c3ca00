------------------------- MODULE PmfsJournal_proofs -------------------------
(* Proof that the PMFS journal in persistent memory is sound (JournalSound), for *)
(* any threads, cells, journal size, MAX_GEN_ID and number of power failures.    *)
(*                                                                              *)
(* Every write that any processor has still to execute is in IInv (Programs):   *)
(* a clean writes to entries it has passed and to the head, a transaction to    *)
(* its own entries and cells.  As long as the reserved entries of transactions  *)
(* lie between head and tail (ReservedKept), what a clean has passed and what   *)
(* Reserve hands out is apart from them (RangesApart), so nobody but the        *)
(* transaction itself writes to its entries; and it changes a cell only after   *)
(* the entry with the old value is there (Shape, LogOf, OldOf).                 *)
EXTENDS PmfsJournal, FiniteSetTheorems, SequenceTheorems, NaturalsInduction, WellFoundedInduction, TLAPS

------------------------------------------------------------------------------
(* The inductive invariant.                                                     *)

\* What the lines of the journal and the cells may hold.
Pos == 0..JSize-1
JVal == [head : Pos, tail : Pos, gen : 1..MaxGen]
EVal == [addr : Cells \cup {None}, data : 0..MaxTx,
         type : SUBSET {"start", "commit", "abort"}, gen : 0..MaxGen]
CVal == [v : 0..MaxTx]
Val(l) == IF l = Jnl THEN JVal ELSE IF l \in {Cell(c) : c \in Cells} THEN CVal ELSE EVal

\* What is kept of a line that a power failure can still change.
DVal(l) == [h : Seq(Val(l)) \ {<<>>}, f : [CPUs -> Nat \ {0}]]

\* A well-formed memory, whose lines and crash values all have their types.
MemOK(m) ==
    /\ m = [now |-> m.now, d |-> m.d]
    /\ m.now = [l \in Lines |-> m.now[l]]
    /\ \A l \in Lines : m.now[l] \in Val(l)
    /\ m.d = [l \in DOMAIN m.d |-> m.d[l]]
    /\ DOMAIN m.d \subseteq Lines
    /\ \A l \in DOMAIN m.d : m.d[l] \in DVal(l)

\* The writes and fences of flushing sequences, by what they may touch.
Fields == {"head", "tail", "gen", "addr", "data", "type", "v"}
Recs == EVal \cup CVal \cup [gen : {0}] \cup [head : Pos] \cup [gen : 1..MaxGen, head : Pos]
Writes == [op : {"write"}, l : Lines, order : Seq(Fields), r : Recs, cl : SUBSET Lines,
           bar : BOOLEAN]
FenceOps == {Barrier, Nothing}
InvalOps(I) == {o \in Writes : /\ \E i \in I : o.l = Le(i)
                               /\ o.order = <<"gen">> /\ o.r = [gen |-> 0]}
HeadOps(H) == {o \in Writes : /\ o.l = Jnl /\ o.order = <<"head">>
                              /\ o.r \in [head : H]}
ForwardOps == {o \in Writes : /\ o.l = Jnl /\ o.order = <<"gen", "head">>
                              /\ o.r \in [gen : 1..MaxGen, head : Pos]}
CellOps(C) == {o \in Writes : /\ \E c \in C : o.l = Cell(c)
                              /\ o.order = <<"v">> /\ o.r \in CVal}
EntryOps(I) == {o \in Writes : /\ \E i \in I : o.l = Le(i)
                               /\ o.order \in {LeFields, <<"addr", "data", "type">>, <<"gen">>}
                               /\ o.r \in EVal}
Ops == FenceOps \cup InvalOps(Pos) \cup HeadOps(Pos) \cup ForwardOps \cup CellOps(Cells)
       \cup EntryOps(Pos)

Tx == [pc : {"again", "short", "room", "open", "committing", "aborting"},
       cells : SUBSET Cells, logged : Seq(Cells), new : 1..MaxTx,
       old : UNION {[C -> 0..MaxTx] : C \in SUBSET Cells}, n : Nat \ {0},
       start : Nat, gen : 0..MaxGen, head : Pos, tail : Pos,
       avail : Int, freed : Int, retry : Nat]
CleanLoop == [pc : {"clean", "left"}, head : Pos, tail : Pos, gen : 1..MaxGen, total : Int]
UndoLoop == [pc : {"undo", "undone"}, head : Pos, tail : Pos, gen : 1..MaxGen]

\* Types of the whole state.
Types ==
    /\ MemOK(mem)
    /\ prog \in [CPUs -> Seq(Ops)]
    /\ tx \in [Threads -> Tx \cup {Idle}]
    /\ loop \in CleanLoop \cup UndoLoop \cup {NoLoop}
    /\ mutex \in CPUs \cup {None} /\ awake \in BOOLEAN
    /\ mode \in {"up", "unmounting", "unmounted", "down", "recovering", "recovered"}
    /\ txs \in 0..MaxTx /\ overrun \in BOOLEAN

Cleaning == loop.pc \in {"clean", "left"}
Waiting(t) == tx[t].pc \in {"again", "short", "room"}
Running(t) == tx[t].pc \in {"open", "committing", "aborting"}

\* Who may do what: the owner of the mutex, the modes, the two loops.
Control ==
    /\ \A t \in Threads : (mutex = t) <=> Waiting(t)
    /\ mode # "up" => tx = [t \in Threads |-> Idle]
    /\ mutex = Cleaner => mode \in {"up", "unmounting"} /\ Cleaning
    /\ mode \notin {"up", "unmounting"} => mutex = None
    /\ Cleaning => /\ mutex # None
                   /\ mutex # Cleaner => tx[mutex].pc = "short"
                   /\ loop.tail = Cur(mem, Jnl).tail
    /\ (loop.pc \in {"undo", "undone"}) <=> (mode = "recovering")

\* The entries that a running clean has left behind, and what a clean and a
\* transaction may still have to execute.
Passed == {i \in Pos : Dist(loop.head, i) >= Dist(loop.head, loop.tail)}
CleanOps == IF loop.pc = "clean" THEN {Barrier} \cup InvalOps(Passed)
            ELSE {Barrier} \cup HeadOps({loop.head})
RunOps(t) == FenceOps \cup EntryOps(Reserved(t)) \cup
             CellOps(IF overrun THEN Cells ELSE tx[t].cells)

Runs(t) == Running(t) => prog[t] \in Seq(RunOps(t))

\* What a processor may be executing.
Programs ==
    /\ \A c \in CPUs : prog[c] # <<>> =>
            \/ mutex = c /\ Cleaning
            \/ c = Cleaner /\ mode = "recovering"
            \/ c \in Threads /\ Running(c)
    /\ Cleaning => prog[mutex] \in Seq(CleanOps)
    /\ \A t \in Threads : Runs(t)

LastLe(x) == Le(x.start + Len(x.logged) - 1)
LastCell(x) == x.logged[Len(x.logged)]
Good(x, e, c) == e.addr = c /\ e.gen = x.gen /\ (~overrun => e.data = x.old[c])
Fills(x, o) == /\ o \in Writes /\ o.l = LastLe(x) /\ o.order = LeFields /\ o.bar
               /\ o.r \in EVal /\ Good(x, o.r, LastCell(x))
Changes(x, o) == o \in CellOps({LastCell(x)}) /\ o.bar = FALSE

\* A transaction logs a cell, fences and changes the cell.
Shape(x, p) ==
    \/ p = <<>>
    \/ /\ Len(x.logged) > 0
       /\ \/ Len(p) = 1 /\ Changes(x, p[1])
          \/ Len(p) = 2 /\ Changes(x, p[2]) /\ (p[1] = Barrier \/ Fills(x, p[1]))

\* A transaction's fields agree with each other, the journal and its program.
TxOK(t) ==
    LET x == tx[t]
    IN x # Idle =>
        /\ DOMAIN x.old = x.cells /\ Logged(x) \subseteq x.cells
        /\ Waiting(t) => x.logged = <<>> /\ x.tail = Cur(mem, Jnl).tail
        /\ x.pc # "again" => x.gen # 0
        /\ Running(t) => x.start + x.n < JSize /\ Len(x.logged) <= x.n
        /\ x.pc = "open" => Shape(x, prog[t])
Transactions == \A t \in Threads : TxOK(t)

\* The file system's locks keep the cells of running transactions apart.
CellsApart ==
    \A t, u \in Threads : t # u /\ tx[t] # Idle /\ tx[u] # Idle =>
        tx[t].cells \cap tx[u].cells = {}

\* No entry is held by two transactions.
RangesApart ==
    \A t, u \in Threads : t # u /\ Holds(t) /\ Holds(u) =>
        Reserved(t) \cap Reserved(u) = {}

\* The log of an open transaction is as written, but for an entry being written.
LogOf(t) ==
    tx[t].pc = "open" =>
        \A k \in 1..Len(tx[t].logged) :
            \/ Good(tx[t], Entry(tx[t].start + k - 1), tx[t].logged[k])
            \/ k = Len(tx[t].logged) /\ Len(prog[t]) = 2 /\ prog[t][1] # Barrier

\* Cells without an entry are as they were.
OldOf(t) ==
    tx[t].pc \in {"again", "short", "room", "open"} =>
        \A c \in tx[t].cells \ Logged(tx[t]) : Cur(mem, Cell(c)).v = tx[t].old[c]

\* What holds until the journal overruns a transaction.
Safe == ~overrun => /\ ReservedKept /\ RangesApart
                    /\ \A t \in Threads : LogOf(t) /\ OldOf(t)

IInv == Types /\ Control /\ Programs /\ Transactions /\ CellsApart /\ Safe

------------------------------------------------------------------------------
(* Lines and memories.                                                          *)

\* The kinds of lines are apart, and a name stands for one line.
LEMMA LineKinds ==
    /\ Jnl \in Lines
    /\ \A i \in Pos : Le(i) \in Lines /\ Le(i) # Jnl
    /\ \A c \in Cells : Cell(c) \in Lines /\ Cell(c) # Jnl
    /\ \A i \in Pos, c \in Cells : Le(i) # Cell(c)
    /\ \A i, j : Le(i) = Le(j) => i = j
    /\ \A b, c : Cell(b) = Cell(c) => b = c
    /\ \A l \in Lines : l = Jnl \/ (\E i \in Pos : l = Le(i)) \/ (\E c \in Cells : l = Cell(c))
<1>1. \A i : Le(i) # Jnl
  BY DEF Le, Jnl
<1>2. \A c : Cell(c) # Jnl
  BY DEF Cell, Jnl
<1>3. \A i, c : Le(i) # Cell(c)
  BY DEF Le, Cell
<1>4. \A i, j : Le(i) = Le(j) => i = j
  BY DEF Le
<1>5. \A b, c : Cell(b) = Cell(c) => b = c
  BY DEF Cell
<1> QED BY <1>1, <1>2, <1>3, <1>4, <1>5, Zenon DEF Lines, Pos

\* What each kind of line holds.
LEMMA LineValues ==
    /\ Val(Jnl) = JVal
    /\ \A i \in Pos : Val(Le(i)) = EVal
    /\ \A c \in Cells : Val(Cell(c)) = CVal
BY LineKinds, Zenon DEF Val

\* A sequence with elements is not the empty one.
LEMMA NonEmpty ==
    ASSUME NEW S, NEW s \in Seq(S), Len(s) > 0
    PROVE  s # <<>>
BY Len(<<>>) = 0

\* A function on 1..n is a sequence.
LEMMA MakeSeq ==
    ASSUME NEW S, NEW n \in Nat, NEW f, f = [k \in 1..n |-> f[k]], \A k \in 1..n : f[k] \in S
    PROVE  f \in Seq(S) /\ Len(f) = n
OBVIOUS

\* Stores leave the other lines alone and keep a memory well-formed.
LEMMA StoresOK ==
    ASSUME NEW m, MemOK(m), NEW l \in Lines, NEW vs \in Seq(Val(l)), vs # <<>>
    PROVE  /\ MemOK(Stores(m, l, vs))
           /\ \A x \in Lines : x # l => Cur(Stores(m, l, vs), x) = Cur(m, x)
           /\ Cur(Stores(m, l, vs), l) = vs[Len(vs)]
<1> DEFINE n == Stores(m, l, vs)
<1>1. Len(vs) \in 1..Len(vs) /\ vs[Len(vs)] \in Val(l) /\ Len(vs) \in DOMAIN vs
  BY SMT
<1>2. CASE \A k \in DOMAIN vs : vs[k] = m.now[l]
  BY <1>1, <1>2 DEF Stores, Cur
<1>3. CASE ~\A k \in DOMAIN vs : vs[k] = m.now[l]
  <2>1. n = [now |-> [m.now EXCEPT ![l] = vs[Len(vs)]],
             d |-> [x \in {l} \cup DOMAIN m.d |->
                    IF x # l THEN m.d[x]
                    ELSE IF l \in DOMAIN m.d THEN [h |-> m.d[l].h \o vs, f |-> m.d[l].f]
                    ELSE [h |-> <<m.now[l]>> \o vs, f |-> [c \in CPUs |-> 1]]]]
    BY <1>3 DEF Stores
  <2>2. \A x \in Lines : n.now[x] = IF x = l THEN vs[Len(vs)] ELSE m.now[x]
    BY <2>1 DEF MemOK
  <2>3. n.now = [x \in Lines |-> n.now[x]]
    BY <2>1, <2>2 DEF MemOK
  <2>4. \A x \in Lines : n.now[x] \in Val(x)
    BY <2>2, <1>1 DEF MemOK
  <2>5. DOMAIN n.d = {l} \cup DOMAIN m.d /\ n.d = [x \in DOMAIN n.d |-> n.d[x]]
    BY <2>1
  <2>6. DOMAIN n.d \subseteq Lines
    BY <2>5 DEF MemOK
  <2>7. ASSUME NEW x \in DOMAIN n.d PROVE n.d[x] \in DVal(x)
    <3>1. CASE x # l
      BY <3>1, <2>1, <2>5 DEF MemOK
    <3>2. CASE x = l /\ l \in DOMAIN m.d
      <4>1. m.d[l].h \in Seq(Val(l)) /\ m.d[l].f \in [CPUs -> Nat \ {0}] /\ m.d[l].h # <<>>
            /\ m.d[l] = [h |-> m.d[l].h, f |-> m.d[l].f]
        BY <3>2 DEF MemOK, DVal
      <4>2. n.d[x] = [h |-> m.d[l].h \o vs, f |-> m.d[l].f]
        BY <3>2, <2>1, <4>1
      <4>3. m.d[l].h \o vs \in Seq(Val(l)) /\ m.d[l].h \o vs # <<>>
        BY <4>1
      <4> QED BY <4>1, <4>2, <4>3, <3>2 DEF DVal
    <3>3. CASE x = l /\ l \notin DOMAIN m.d
      <4>1. m.now[l] \in Val(l)
        BY DEF MemOK
      <4>2. <<m.now[l]>> \o vs \in Seq(Val(l)) /\ <<m.now[l]>> \o vs # <<>>
        BY <4>1
      <4>3. n.d[x] = [h |-> <<m.now[l]>> \o vs, f |-> [c \in CPUs |-> 1]]
        BY <3>3, <2>1
      <4> QED BY <4>2, <4>3, <3>3 DEF DVal
    <3> QED BY <3>1, <3>2, <3>3
  <2>8. n = [now |-> n.now, d |-> n.d]
    BY <2>1
  <2>9. MemOK(n)
    BY <2>3, <2>4, <2>5, <2>6, <2>7, <2>8 DEF MemOK
  <2> QED BY <2>9, <2>2 DEF Cur
<1> QED BY <1>2, <1>3

\* A write-back changes what can be lost, not what is read.
LEMMA ClwbOK ==
    ASSUME NEW m, MemOK(m), NEW c \in CPUs, NEW L
    PROVE  MemOK(Clwb(m, c, L)) /\ Clwb(m, c, L).now = m.now
<1> DEFINE n == Clwb(m, c, L)
<1>1. n = [now |-> m.now,
           d |-> [l \in DOMAIN m.d |->
               IF l \notin L THEN m.d[l]
               ELSE [h |-> m.d[l].h, f |-> [m.d[l].f EXCEPT ![c] = Len(m.d[l].h)]]]]
  BY DEF Clwb
<1>2. ASSUME NEW l \in DOMAIN m.d PROVE n.d[l] \in DVal(l)
  <2>1. m.d[l].h \in Seq(Val(l)) /\ m.d[l].f \in [CPUs -> Nat \ {0}] /\ m.d[l].h # <<>>
        /\ m.d[l] = [h |-> m.d[l].h, f |-> m.d[l].f]
    BY DEF MemOK, DVal
  <2>2. Len(m.d[l].h) \in Nat \ {0}
    BY <2>1
  <2>3. [m.d[l].f EXCEPT ![c] = Len(m.d[l].h)] \in [CPUs -> Nat \ {0}]
    BY <2>1, <2>2
  <2>4. n.d[l] = m.d[l] \/ n.d[l] = [h |-> m.d[l].h, f |-> [m.d[l].f EXCEPT ![c] = Len(m.d[l].h)]]
    BY <1>1, <2>1
  <2>5. m.d[l] \in DVal(l)
    BY DEF MemOK
  <2>6. [h |-> m.d[l].h, f |-> [m.d[l].f EXCEPT ![c] = Len(m.d[l].h)]] \in DVal(l)
    BY <2>1, <2>3 DEF DVal
  <2> QED BY <2>4, <2>5, <2>6
<1>3. DOMAIN n.d = DOMAIN m.d /\ n.d = [l \in DOMAIN n.d |-> n.d[l]] /\ n.now = m.now
      /\ n = [now |-> n.now, d |-> n.d]
  BY <1>1
<1> QED BY <1>2, <1>3 DEF MemOK

\* So does a fence.
LEMMA FenceOK ==
    ASSUME NEW m, MemOK(m), NEW c \in CPUs
    PROVE  MemOK(Fence(m, c)) /\ Fence(m, c).now = m.now
<1> DEFINE n == Fence(m, c)
           left == {l \in DOMAIN m.d : m.d[l].f[c] < Len(m.d[l].h)}
           k(l) == m.d[l].f[c]
<1>1. n = [now |-> m.now,
           d |-> [l \in left |-> [h |-> SubSeq(m.d[l].h, k(l), Len(m.d[l].h)),
                     f |-> [e \in CPUs |-> IF m.d[l].f[e] > k(l) THEN m.d[l].f[e] - k(l) + 1 ELSE 1]]]]
  BY DEF Fence
<1>2. ASSUME NEW l \in left PROVE n.d[l] \in DVal(l)
  <2>1. m.d[l].h \in Seq(Val(l)) /\ m.d[l].f \in [CPUs -> Nat \ {0}]
    BY DEF MemOK, DVal
  <2>2. k(l) \in 1..Len(m.d[l].h) /\ Len(m.d[l].h) \in Nat
    BY <2>1
  <2>3. SubSeq(m.d[l].h, k(l), Len(m.d[l].h)) \in Seq(Val(l))
    BY <2>1, <2>2
  <2>4. Len(SubSeq(m.d[l].h, k(l), Len(m.d[l].h))) > 0
    BY <2>1, <2>2
  <2>5. SubSeq(m.d[l].h, k(l), Len(m.d[l].h)) # <<>>
    BY <2>3, <2>4, NonEmpty
  <2>6. [e \in CPUs |-> IF m.d[l].f[e] > k(l) THEN m.d[l].f[e] - k(l) + 1 ELSE 1]
            \in [CPUs -> Nat \ {0}]
    BY <2>1, <2>2
  <2>7. n.d[l] = [h |-> SubSeq(m.d[l].h, k(l), Len(m.d[l].h)),
                  f |-> [e \in CPUs |-> IF m.d[l].f[e] > k(l) THEN m.d[l].f[e] - k(l) + 1 ELSE 1]]
    BY <1>1
  <2> QED BY <2>3, <2>5, <2>6, <2>7 DEF DVal
<1>3. DOMAIN n.d = left /\ n.d = [l \in DOMAIN n.d |-> n.d[l]] /\ n.now = m.now
      /\ n = [now |-> n.now, d |-> n.d]
  BY <1>1
<1> QED BY <1>2, <1>3 DEF MemOK

\* What a power failure leaves is well-formed.
LEMMA CrashOK ==
    ASSUME NEW m, MemOK(m), NEW img \in CrashImages(m)
    PROVE  MemOK(Fresh(img))
<1>1. PICK p : /\ \A l \in DOMAIN m.d : p[l] \in DOMAIN m.d[l].h
               /\ img = [l \in DOMAIN m.now |->
                            IF l \in DOMAIN m.d THEN m.d[l].h[p[l]] ELSE m.now[l]]
  BY Zenon DEF CrashImages
<1>2. DOMAIN m.now = Lines
  BY DEF MemOK
<1>3. ASSUME NEW l \in Lines PROVE img[l] \in Val(l)
  <2>1. CASE l \in DOMAIN m.d
    <3>1. m.d[l].h \in Seq(Val(l))
      BY <2>1 DEF MemOK, DVal
    <3>2. m.d[l].h[p[l]] \in Val(l)
      BY <3>1, <2>1, <1>1
    <3> QED BY <3>2, <2>1, <1>1, <1>2
  <2>2. CASE l \notin DOMAIN m.d
    BY <2>2, <1>1, <1>2 DEF MemOK
  <2> QED BY <2>1, <2>2
<1>4. DOMAIN Fresh(img).d = {} /\ Fresh(img).now = img
  BY DEF Fresh
<1>5. Fresh(img) = [now |-> Fresh(img).now, d |-> Fresh(img).d]
      /\ Fresh(img).d = [l \in DOMAIN Fresh(img).d |-> Fresh(img).d[l]]
  BY DEF Fresh
<1>6. img = [l \in Lines |-> img[l]]
  BY <1>1, <1>2
<1> QED BY <1>3, <1>4, <1>5, <1>6 DEF MemOK

\* A write to the journal's header, part way, leaves a header.
LEMMA StoredHeader ==
    ASSUME NEW old \in JVal, NEW o, NEW k,
           \A x \in {"head", "tail", "gen"} : (\E j \in 1..k : o.order[j] = x) =>
                o.r[x] \in (IF x = "gen" THEN 1..MaxGen ELSE Pos)
    PROVE  Stored(old, o, k) \in JVal
<1>1. DOMAIN old = {"head", "tail", "gen"} /\ old.head \in Pos /\ old.tail \in Pos
      /\ old.gen \in 1..MaxGen
  BY DEF JVal
<1>2. Stored(old, o, k) = [head |-> Stored(old, o, k).head, tail |-> Stored(old, o, k).tail,
                           gen |-> Stored(old, o, k).gen]
  BY <1>1 DEF Stored
<1>3. Stored(old, o, k).head \in Pos
  BY <1>1 DEF Stored
<1>4. Stored(old, o, k).tail \in Pos
  BY <1>1 DEF Stored
<1>5. Stored(old, o, k).gen \in 1..MaxGen
  BY <1>1 DEF Stored
<1> HIDE DEF Stored
<1> QED BY <1>2, <1>3, <1>4, <1>5 DEF JVal

\* A write to a log entry, part way, leaves an entry.
LEMMA StoredEntry ==
    ASSUME NEW old \in EVal, NEW o, NEW k,
           \A x \in {"addr", "data", "type", "gen"} : (\E j \in 1..k : o.order[j] = x) =>
                o.r[x] \in (IF x = "addr" THEN Cells \cup {None}
                            ELSE IF x = "data" THEN 0..MaxTx
                            ELSE IF x = "type" THEN SUBSET {"start", "commit", "abort"}
                            ELSE 0..MaxGen)
    PROVE  Stored(old, o, k) \in EVal
<1>1. DOMAIN old = {"addr", "data", "type", "gen"} /\ old.addr \in Cells \cup {None}
      /\ old.data \in 0..MaxTx /\ old.type \in SUBSET {"start", "commit", "abort"}
      /\ old.gen \in 0..MaxGen
  BY DEF EVal
<1> DEFINE n == Stored(old, o, k)
<1>2. n = [addr |-> n.addr, data |-> n.data, type |-> n.type, gen |-> n.gen]
  BY <1>1 DEF Stored
<1>3. n.addr \in Cells \cup {None}
  BY <1>1 DEF Stored
<1>4. n.data \in 0..MaxTx
  BY <1>1 DEF Stored
<1>5. n.type \in SUBSET {"start", "commit", "abort"}
  BY <1>1, Zenon DEF Stored
<1>6. n.gen \in 0..MaxGen
  BY <1>1 DEF Stored
<1> HIDE DEF n
<1>7. [addr |-> n.addr, data |-> n.data, type |-> n.type, gen |-> n.gen] \in EVal
  BY <1>3, <1>4, <1>5, <1>6 DEF EVal
<1> QED BY <1>2, <1>7, Zenon DEF n

\* Every write of the journal, part way, leaves the line it is to with a value.
LEMMA StoredOK ==
    ASSUME NEW o \in Ops, o.op = "write", NEW old \in Val(o.l), NEW k \in 1..Len(o.order)
    PROVE  Stored(old, o, k) \in Val(o.l)
<1>1. o \notin FenceOps
  BY DEF FenceOps, Barrier, Nothing
<1>2. CASE o \in HeadOps(Pos)
  <2>1. o.l = Jnl /\ o.order = <<"head">> /\ o.r \in [head : Pos]
    BY <1>2 DEF HeadOps
  <2>2. \A j \in 1..k : o.order[j] = "head"
    BY <2>1
  <2> QED BY <2>1, <2>2, StoredHeader, LineValues
<1>3. CASE o \in ForwardOps
  <2>1. o.l = Jnl /\ o.order = <<"gen", "head">> /\ o.r \in [gen : 1..MaxGen, head : Pos]
    BY <1>3 DEF ForwardOps
  <2>2. \A j \in 1..k : o.order[j] \in {"gen", "head"}
    BY <2>1
  <2> QED BY <2>1, <2>2, StoredHeader, LineValues
<1>4. CASE o \in InvalOps(Pos)
  <2>1. (\E i \in Pos : o.l = Le(i)) /\ o.order = <<"gen">> /\ o.r = [gen |-> 0]
    BY <1>4 DEF InvalOps
  <2>2. \A j \in 1..k : o.order[j] = "gen"
    BY <2>1
  <2>3. o.r.gen \in 0..MaxGen
    BY <2>1, JournalAssumption
  <2> QED BY <2>1, <2>2, <2>3, StoredEntry, LineValues
<1>5. CASE o \in EntryOps(Pos)
  <2>1. (\E i \in Pos : o.l = Le(i)) /\ o.r \in EVal
    BY <1>5 DEF EntryOps
  <2>2. o.r.addr \in Cells \cup {None} /\ o.r.data \in 0..MaxTx
        /\ o.r.type \in SUBSET {"start", "commit", "abort"} /\ o.r.gen \in 0..MaxGen
    BY <2>1 DEF EVal
  <2> QED BY <2>1, <2>2, StoredEntry, LineValues
<1>6. CASE o \in CellOps(Cells)
  <2>1. (\E c \in Cells : o.l = Cell(c)) /\ o.order = <<"v">> /\ o.r \in CVal
    BY <1>6 DEF CellOps
  <2>2. old \in CVal /\ Val(o.l) = CVal
    BY <2>1, LineValues
  <2>3. k = 1 /\ o.order[1] = "v"
    BY <2>1
  <2>4. DOMAIN old = {"v"} /\ o.r.v \in 0..MaxTx
    BY <2>1, <2>2 DEF CVal
  <2>5. Stored(old, o, k) = [x \in {"v"} |-> o.r[x]]
    BY <2>3, <2>4 DEF Stored
  <2>6. Stored(old, o, k) = [v |-> o.r.v]
    BY <2>5
  <2> QED BY <2>2, <2>4, <2>6 DEF CVal
<1> QED BY <1>1, <1>2, <1>3, <1>4, <1>5, <1>6, Zenon DEF Ops

\* The steps of the flushing sequences.
LEMMA OpKinds ==
    ASSUME NEW o \in Ops
    PROVE  \/ o = Barrier /\ o.op = "fence"
           \/ o = Nothing /\ o.op = "none"
           \/ /\ o \in Writes /\ o.op = "write" /\ o.l \in Lines /\ o.order \in Seq(Fields)
              /\ Len(o.order) > 0 /\ o \notin FenceOps /\ o.bar \in BOOLEAN
<1>1. CASE o \in FenceOps
  BY <1>1 DEF FenceOps, Barrier, Nothing
<1>2. CASE o \notin FenceOps
  <2>1. o \in Writes
    BY <1>2 DEF Ops, InvalOps, HeadOps, ForwardOps, CellOps, EntryOps
  <2>2. o.order \in {<<"gen">>, <<"head">>, <<"v">>, <<"gen", "head">>, LeFields,
                     <<"addr", "data", "type">>}
    BY <1>2 DEF Ops, InvalOps, HeadOps, ForwardOps, CellOps, EntryOps
  <2>3. /\ Len(<<"gen">>) = 1 /\ Len(<<"head">>) = 1 /\ Len(<<"v">>) = 1
        /\ Len(<<"gen", "head">>) = 2 /\ Len(LeFields) = 4
        /\ Len(<<"addr", "data", "type">>) = 3
    BY DEF LeFields
  <2>4. Len(o.order) > 0
    BY <2>2, <2>3
  <2> QED BY <1>2, <2>1, <2>4 DEF Writes
<1> QED BY <1>1, <1>2

\* A step of a flushing sequence changes at most the line it writes to.
LEMMA ExecOK ==
    ASSUME NEW m, MemOK(m), NEW c \in CPUs, NEW o \in Ops
    PROVE  /\ MemOK(Exec(m, c, o))
           /\ \A x \in Lines : o \in FenceOps \/ x # o.l => Cur(Exec(m, c, o), x) = Cur(m, x)
           /\ o \notin FenceOps =>
                Cur(Exec(m, c, o), o.l) = Stored(Cur(m, o.l), o, Len(o.order))
<1>1. CASE o = Barrier /\ o.op = "fence"
  <2>1. Exec(m, c, o) = Fence(m, c)
    BY <1>1 DEF Exec
  <2> QED BY <1>1, <2>1, FenceOK DEF Cur, FenceOps
<1>2. CASE o = Nothing /\ o.op = "none"
  <2>1. Exec(m, c, o) = m
    BY <1>2 DEF Exec
  <2> QED BY <1>2, <2>1 DEF FenceOps
<1>3. CASE /\ o \in Writes /\ o.op = "write" /\ o.l \in Lines /\ o.order \in Seq(Fields)
           /\ Len(o.order) > 0 /\ o \notin FenceOps
  <2> DEFINE vs == [k \in 1..Len(o.order) |-> Stored(Cur(m, o.l), o, k)]
  <2>1. Exec(m, c, o) = Clwb(Stores(m, o.l, vs), c, o.cl)
    BY <1>3 DEF Exec
  <2>2. Cur(m, o.l) \in Val(o.l)
    BY <1>3 DEF MemOK, Cur
  <2>3. \A k \in 1..Len(o.order) : vs[k] \in Val(o.l)
    BY <2>2, <1>3, StoredOK
  <2>4. vs \in Seq(Val(o.l)) /\ Len(vs) = Len(o.order)
    <3>1. Len(o.order) \in Nat
      BY <1>3
    <3>2. vs = [k \in 1..Len(o.order) |-> vs[k]]
      OBVIOUS
    <3> HIDE DEF vs
    <3> QED BY <2>3, <3>1, <3>2, MakeSeq
  <2>5. vs # <<>>
    BY <2>4, <1>3, NonEmpty
  <2>6. vs[Len(vs)] = Stored(Cur(m, o.l), o, Len(o.order))
    BY <2>4, <1>3
  <2> HIDE DEF vs
  <2> DEFINE n == Stores(m, o.l, vs)
  <2>7. /\ MemOK(n) /\ \A x \in Lines : x # o.l => Cur(n, x) = Cur(m, x)
        /\ Cur(n, o.l) = vs[Len(vs)]
    BY <1>3, <2>4, <2>5, StoresOK
  <2> HIDE DEF n
  <2>8. MemOK(Clwb(n, c, o.cl)) /\ Clwb(n, c, o.cl).now = n.now
    BY <2>7, ClwbOK
  <2> QED BY <1>3, <2>1, <2>6, <2>7, <2>8, Zenon DEF Cur, n
<1> QED BY <1>1, <1>2, <1>3, OpKinds

\* A write of the head leaves tail and generation; a filled entry is what was meant.
LEMMA HeadEffect ==
    ASSUME NEW H, NEW o \in HeadOps(H), NEW old \in JVal
    PROVE  Stored(old, o, Len(o.order)).tail = old.tail
<1>1. o.order = <<"head">> /\ Len(o.order) = 1
  BY DEF HeadOps
<1>2. "tail" \in DOMAIN old
  BY DEF JVal
<1>3. \A j \in 1..1 : o.order[j] # "tail"
  BY <1>1
<1> QED BY <1>1, <1>2, <1>3 DEF Stored

\* All four stores to a log entry give it the four fields.
LEMMA FillEffect ==
    ASSUME NEW o, o.order = LeFields, o.r \in EVal, NEW old \in EVal
    PROVE  /\ Stored(old, o, Len(o.order)).addr = o.r.addr
           /\ Stored(old, o, Len(o.order)).data = o.r.data
           /\ Stored(old, o, Len(o.order)).gen = o.r.gen
<1>1. o.order = <<"addr", "data", "type", "gen">> /\ Len(o.order) = 4
  BY DEF LeFields
<1>2. DOMAIN old = {"addr", "data", "type", "gen"}
  BY DEF EVal
<1>3. o.order[1] = "addr" /\ o.order[2] = "data" /\ o.order[4] = "gen"
  BY <1>1
<1>4. 1 \in 1..4 /\ 2 \in 1..4 /\ 4 \in 1..4
  OBVIOUS
<1> QED BY <1>1, <1>2, <1>3, <1>4 DEF Stored

------------------------------------------------------------------------------
(* The steps that leave the memory alone.                                       *)

\* What every step does to the history variable.
History == overrun' = (overrun \/ ~ReservedKept')

\* An overrun is never forgotten.
LEMMA HistoryOK ==
    ASSUME overrun \in BOOLEAN, History
    PROVE  overrun' \in BOOLEAN /\ (~overrun' => ~overrun /\ ReservedKept')
BY DEF History

\* The header, the entries and the cells have their values.
LEMMA Values ==
    ASSUME NEW m, MemOK(m)
    PROVE  /\ Cur(m, Jnl) \in JVal
           /\ \A i \in Pos : Cur(m, Le(i)) \in EVal
           /\ \A c \in Cells : Cur(m, Cell(c)) \in CVal
<1>1. \A l \in Lines : Cur(m, l) \in Val(l)
  BY DEF MemOK, Cur
<1> QED BY <1>1, LineKinds, LineValues

\* The fields of a transaction.
LEMMA TxFields ==
    ASSUME NEW x \in Tx
    PROVE  /\ x.pc \in {"again", "short", "room", "open", "committing", "aborting"}
           /\ x.cells \in SUBSET Cells /\ x.logged \in Seq(Cells) /\ x.new \in 1..MaxTx
           /\ x.n \in Nat \ {0} /\ x.start \in Nat /\ x.gen \in 0..MaxGen
           /\ x.head \in Pos /\ x.tail \in Pos /\ x.avail \in Int /\ x.freed \in Int
           /\ x.retry \in Nat /\ x # Idle
BY DEF Tx, Idle

\* A transaction stays one when its state and its locals change.
LEMMA TxUpdate ==
    ASSUME NEW x \in Tx
    PROVE  /\ \A p \in {"again", "short", "room", "open", "committing", "aborting"} :
                    [x EXCEPT !.pc = p] \in Tx
           /\ \A g \in 0..MaxGen : [x EXCEPT !.gen = g] \in Tx
           /\ \A a \in Int : [x EXCEPT !.avail = a] \in Tx /\ [x EXCEPT !.freed = a] \in Tx
           /\ \A r \in Nat : [x EXCEPT !.retry = r] \in Tx /\ [x EXCEPT !.start = r] \in Tx
           /\ \A i \in Pos : [x EXCEPT !.tail = i] \in Tx
           /\ \A s \in Seq(Cells) : [x EXCEPT !.logged = s] \in Tx
BY DEF Tx

\* The empty sequence is a sequence over every set.
LEMMA EmptyOver == \A S : <<>> \in Seq(S)
OBVIOUS

\* A sequence over a set is one over every larger set.
LEMMA SeqSub ==
    ASSUME NEW S, NEW T, S \subseteq T, NEW s \in Seq(S)
    PROVE  s \in Seq(T)
OBVIOUS

\* What a thread may execute only grows when the journal is overrun.
LEMMA RunsKept ==
    ASSUME NEW u \in Threads, tx \in [Threads -> Tx \cup {Idle}],
           tx'[u] = tx[u], prog'[u] = prog[u], overrun => overrun', Runs(u)
    PROVE  Runs(u)'
<1>1. SUFFICES ASSUME Running(u) PROVE prog[u] \in Seq(RunOps(u)')
  BY DEF Runs, Running
<1>2. tx[u].cells \in SUBSET Cells
  BY <1>1, TxFields DEF Running, Idle
<1>3. Reserved(u)' = Reserved(u)
  BY DEF Reserved
<1>4. CellOps(IF overrun THEN Cells ELSE tx[u].cells)
        \subseteq CellOps(IF overrun' THEN Cells ELSE tx[u].cells)
  BY <1>2 DEF CellOps
<1>5. RunOps(u) \subseteq RunOps(u)'
  BY <1>3, <1>4 DEF RunOps, FenceOps, Barrier, Nothing, EntryOps, Writes, CellOps, CVal
<1> QED BY <1>1, <1>5, SeqSub DEF Runs

\* A thread that does nothing is as well off as before when the tail, the entries it
\* holds and its cells are as before.
LEMMA OtherTx ==
    ASSUME NEW u \in Threads, tx \in [Threads -> Tx \cup {Idle}],
           tx'[u] = tx[u], prog'[u] = prog[u], overrun => overrun', TxOK(u),
           Waiting(u) => Cur(mem, Jnl)'.tail = Cur(mem, Jnl).tail
    PROVE  TxOK(u)'
<1>1. SUFFICES ASSUME tx[u] # Idle
               PROVE  TxOK(u)'
  BY DEF TxOK
<1>2. Shape(tx[u], prog[u]) => Shape(tx[u], prog[u])'
  BY DEF Shape, Fills, Changes, Good, LastLe, LastCell
<1> QED BY <1>1, <1>2 DEF TxOK, Waiting, Running, Shape, Fills, Changes, Good, LastLe, LastCell, Logged

\* The same for its log and its cells.
LEMMA OtherSafe ==
    ASSUME NEW u \in Threads, tx \in [Threads -> Tx \cup {Idle}],
           tx'[u] = tx[u], prog'[u] = prog[u], ~overrun, ~overrun', TxOK(u), LogOf(u), OldOf(u),
           tx[u].pc = "open" => \A i \in Reserved(u) : Entry(i)' = Entry(i),
           tx[u] # Idle => \A c \in tx[u].cells : Cur(mem, Cell(c))' = Cur(mem, Cell(c))
    PROVE  LogOf(u)' /\ OldOf(u)'
<1>1. LogOf(u)'
  <2>1. SUFFICES ASSUME tx[u].pc = "open", NEW k \in 1..Len(tx[u].logged)
                 PROVE  \/ Good(tx[u], Entry(tx[u].start + k - 1), tx[u].logged[k])'
                        \/ k = Len(tx[u].logged) /\ Len(prog[u]) = 2 /\ prog[u][1] # Barrier
    BY DEF LogOf, Entry
  <2>2. tx[u] \in Tx /\ Len(tx[u].logged) \in Nat
    BY <2>1, TxFields DEF Idle
  <2>3. tx[u].start \in Nat /\ tx[u].n \in Nat /\ Len(tx[u].logged) <= tx[u].n
    BY <2>1, <2>2, TxFields DEF TxOK, Running
  <2>4. tx[u].start + k - 1 \in Reserved(u)
    BY <2>2, <2>3 DEF Reserved
  <2>5. Entry(tx[u].start + k - 1)' = Entry(tx[u].start + k - 1)
    BY <2>1, <2>4
  <2> QED BY <2>1, <2>5 DEF LogOf, Good
<1>2. OldOf(u)'
  BY DEF OldOf, Idle, Logged
<1> QED BY <1>1, <1>2

\* No new holder, so the reserved ranges stay apart.
LEMMA RangesKept ==
    ASSUME RangesApart,
           \A u \in Threads : Holds(u)' => Holds(u) /\ Reserved(u)' = Reserved(u)
    PROVE  RangesApart'
BY DEF RangesApart

\* What a step that leaves the memory alone means for the threads that take no part.
LEMMA Others ==
    ASSUME IInv, History, NEW t, mem' = mem,
           \A u \in Threads : u # t => tx'[u] = tx[u] /\ prog'[u] = prog[u]
    PROVE  /\ overrun' \in BOOLEAN /\ (overrun => overrun')
           /\ ~overrun' => ~overrun /\ ReservedKept'
           /\ \A u \in Threads : u # t => /\ Runs(u)' /\ TxOK(u)'
                                          /\ ~overrun' => LogOf(u)' /\ OldOf(u)'
<1>1. /\ overrun' \in BOOLEAN /\ (overrun => overrun')
      /\ ~overrun' => ~overrun /\ ReservedKept'
  BY HistoryOK DEF IInv, Types
<1>2. tx \in [Threads -> Tx \cup {Idle}]
  BY DEF IInv, Types
<1>3. ASSUME NEW u \in Threads, u # t PROVE Runs(u)'
  BY <1>1, <1>2, <1>3, RunsKept DEF IInv, Programs
<1>4. ASSUME NEW u \in Threads, u # t PROVE TxOK(u)'
  BY <1>1, <1>2, <1>4, OtherTx DEF IInv, Transactions
<1>5. ASSUME NEW u \in Threads, u # t, ~overrun' PROVE LogOf(u)' /\ OldOf(u)'
  BY <1>1, <1>2, <1>5, OtherSafe DEF IInv, Safe, Transactions, Entry
<1> QED BY <1>1, <1>3, <1>4, <1>5

\* The parts of the invariant a step of thread t on its own has to restore.
LEMMA ThreadStep ==
    ASSUME IInv, History, NEW t \in Threads, mem' = mem,
           \A u \in Threads : u # t => tx'[u] = tx[u] /\ prog'[u] = prog[u],
           Types', Control', Cleaning' => prog'[mutex'] \in Seq(CleanOps'),
           \A c \in CPUs : prog'[c] # <<>> =>
                \/ mutex' = c /\ Cleaning'
                \/ c = Cleaner /\ mode' = "recovering"
                \/ c \in Threads /\ Running(c)',
           Runs(t)', TxOK(t)',
           tx'[t] # Idle => tx[t] # Idle /\ tx'[t].cells = tx[t].cells,
           Holds(t)' => Holds(t) /\ Reserved(t)' = Reserved(t),
           ~overrun' => LogOf(t)' /\ OldOf(t)'
    PROVE  IInv'
<1>1. /\ overrun' \in BOOLEAN /\ (overrun => overrun')
      /\ ~overrun' => ~overrun /\ ReservedKept'
      /\ \A u \in Threads : u # t => /\ Runs(u)' /\ TxOK(u)'
                                     /\ ~overrun' => LogOf(u)' /\ OldOf(u)'
  BY Others, Zenon
<1>2. Programs'
  BY <1>1, Zenon DEF Programs
<1>3. Transactions'
  BY <1>1 DEF Transactions
<1>4. CellsApart'
  BY DEF CellsApart, IInv
<1>5. ASSUME ~overrun' PROVE RangesApart'
  <2>1. \A u \in Threads : Holds(u)' => Holds(u) /\ Reserved(u)' = Reserved(u)
    BY DEF Holds, Reserved
  <2> QED BY <2>1, <1>1, <1>5, RangesKept DEF IInv, Safe
<1>6. Safe'
  BY <1>1, <1>5 DEF Safe
<1> QED BY <1>2, <1>3, <1>4, <1>6 DEF IInv

\* A transaction begins: NewTransaction.
LEMMA NewTransactionOK ==
    ASSUME IInv, NEW t \in Threads, NewTransaction(t), History
    PROVE  IInv'
<1> USE DEF IInv
<1>1. PICK C \in SUBSET (Cells \ CellsInUse) : tx' = [tx EXCEPT ![t] =
                    [pc |-> "again", cells |-> C, logged |-> <<>>, new |-> txs + 1,
                     old |-> [c \in C |-> Cur(mem, Cell(c)).v],
                     n |-> Cardinality(C) + 1, start |-> 0, gen |-> 0,
                     head |-> Cur(mem, Jnl).head, tail |-> Cur(mem, Jnl).tail,
                     avail |-> 0, freed |-> 0, retry |-> 0]]
  BY DEF NewTransaction
<1>2. /\ mode = "up" /\ tx[t].pc = "idle" /\ mutex = None /\ mutex' = t /\ txs' = txs + 1
      /\ txs < MaxTx
      /\ mem' = mem /\ prog' = prog /\ loop' = loop /\ awake' = awake /\ mode' = mode
  BY DEF NewTransaction, Up
<1>3. /\ tx \in [Threads -> Tx \cup {Idle}] /\ overrun' \in BOOLEAN
      /\ ~overrun' => ~overrun /\ ReservedKept'
  BY HistoryOK DEF Types
<1> DEFINE x == tx'[t]
<1>4. /\ x.pc = "again" /\ x.cells = C /\ x.logged = <<>> /\ x.gen = 0
      /\ x.tail = Cur(mem, Jnl).tail /\ x.old = [c \in C |-> Cur(mem, Cell(c)).v] /\ x # Idle
  BY <1>1, <1>3 DEF Idle
<1>5. \A u \in Threads : u # t => tx'[u] = tx[u]
  BY <1>1, <1>3
<1>6. x \in Tx
  <2>1. Cardinality(C) + 1 \in Nat \ {0}
    BY JournalAssumption, FS_Subset, FS_CardinalityType
  <2>2. \A c \in Cells : Cur(mem, Cell(c)).v \in 0..MaxTx
    BY Values DEF Types, CVal
  <2>3. [c \in C |-> Cur(mem, Cell(c)).v] \in UNION {[D -> 0..MaxTx] : D \in SUBSET Cells}
    BY <2>2
  <2>4. Cur(mem, Jnl).head \in Pos /\ Cur(mem, Jnl).tail \in Pos
    BY Values DEF Types, JVal
  <2>5. txs + 1 \in 1..MaxTx
    BY <1>2, JournalAssumption DEF Types
  <2>6. <<>> \in Seq(Cells) /\ C \in SUBSET Cells /\ 0 \in 0..MaxGen
    BY JournalAssumption
  <2> QED BY <1>1, <1>3, <2>1, <2>3, <2>4, <2>5, <2>6 DEF Tx
<1> HIDE DEF x
<1>7. tx' \in [Threads -> Tx \cup {Idle}]
  BY <1>1, <1>3, <1>5, <1>6 DEF x
<1>8. Types'
  BY <1>2, <1>3, <1>7, JournalAssumption DEF Types
<1>9. tx[t] = Idle
  BY <1>2, <1>3, TxFields
<1>10. Control'
  BY <1>2, <1>3, <1>4, <1>5, <1>9, JournalAssumption DEF Control, Waiting, Cleaning, x, Idle
<1>11. ~Cleaning
  BY <1>2 DEF Control
<1>12. \A u \in Threads : Running(u)' <=> Running(u)
  BY <1>4, <1>5, <1>9 DEF Running, x, Idle
<1>13. \A u \in Threads : u # t => Runs(u)'
  BY <1>2, <1>3, <1>5, RunsKept DEF Programs
<1>14. Runs(t)'
  BY <1>4 DEF Runs, Running, x
<1>15. Programs'
  BY <1>2, <1>11, <1>12, <1>13, <1>14 DEF Programs, Cleaning
<1>16. \A u \in Threads : u # t => TxOK(u)'
  BY <1>2, <1>3, <1>5, OtherTx DEF Transactions
<1>17. TxOK(t)'
  BY <1>2, <1>4 DEF TxOK, Waiting, Running, x, Logged
<1>18. Transactions'
  BY <1>16, <1>17 DEF Transactions
<1>19. \A u \in Threads : u # t /\ tx[u] # Idle => tx[u].cells \cap C = {}
  <2>1. SUFFICES ASSUME NEW u \in Threads, tx[u] # Idle PROVE tx[u].cells \cap C = {}
    OBVIOUS
  <2>2. tx[u].pc # "idle"
    BY <2>1, <1>3, TxFields
  <2> QED BY <2>2 DEF CellsInUse
<1>20. CellsApart'
  BY <1>4, <1>5, <1>19 DEF CellsApart, x
<1>21. ASSUME ~overrun' PROVE Safe'
  <2>1. \A u \in Threads : Holds(u)' => Holds(u) /\ Reserved(u)' = Reserved(u)
    BY <1>2, <1>4, <1>5 DEF Holds, Reserved, x
  <2>2. RangesApart'
    BY <2>1, <1>3, <1>21, RangesKept DEF Safe
  <2>3. \A u \in Threads : u # t => LogOf(u)' /\ OldOf(u)'
    BY <1>2, <1>3, <1>5, <1>21, OtherSafe DEF Safe, Transactions, Entry
  <2>4. LogOf(t)' /\ OldOf(t)'
    BY <1>2, <1>4 DEF LogOf, OldOf, x, Logged
  <2> QED BY <2>2, <2>3, <2>4, <1>3, <1>21 DEF Safe
<1> QED BY <1>8, <1>10, <1>15, <1>18, <1>20, <1>21 DEF Safe

\* The room behind the tail is measured: CheckRoom.
LEMMA CheckRoomOK ==
    ASSUME IInv, NEW t \in Threads, CheckRoom(t), History
    PROVE  IInv'
<1> USE DEF IInv
<1>1. /\ mode = "up" /\ tx[t].pc = "again" /\ prog[t] = <<>>
      /\ mem' = mem /\ prog' = prog /\ loop' = loop /\ mutex' = mutex /\ awake' = awake
      /\ mode' = mode /\ txs' = txs
  BY DEF CheckRoom, Started, Up, Ready
<1>2. tx \in [Threads -> Tx \cup {Idle}] /\ tx[t] \in Tx
  BY <1>1 DEF Types, Idle
<1>3. PICK g, a, p, z :
          /\ tx' = [tx EXCEPT ![t] = [tx[t] EXCEPT !.gen = g, !.avail = a, !.freed = z,
                                                   !.retry = z, !.pc = p]]
          /\ z = 0 /\ g = Cur(mem, Jnl).gen /\ a = avail_size(tx[t]) /\ p \in {"short", "room"}
  BY DEF CheckRoom
<1>4. g \in 1..MaxGen
  BY <1>3, Values DEF Types, JVal
<1>5. a \in Int
  BY <1>2, <1>3, TxFields, JournalAssumption DEF avail_size, Pos
<1> DEFINE x == tx'[t]
<1>6. /\ x.pc = p /\ x.gen = g /\ x.cells = tx[t].cells /\ x.logged = tx[t].logged
      /\ x.old = tx[t].old /\ x.tail = tx[t].tail /\ x.n = tx[t].n /\ x.start = tx[t].start
  BY <1>2, <1>3 DEF Tx
<1>7. x \in Tx
  <2>1. g \in 0..MaxGen
    BY <1>4, JournalAssumption
  <2>2. x = [tx[t] EXCEPT !.gen = g, !.avail = a, !.freed = z, !.retry = z, !.pc = p]
    BY <1>2, <1>3
  <2>3. p \in {"again", "short", "room", "open", "committing", "aborting"}
    BY <1>3
  <2> DEFINE y1 == [tx[t] EXCEPT !.gen = g]
             y2 == [y1 EXCEPT !.avail = a]
             y3 == [y2 EXCEPT !.freed = z]
             y4 == [y3 EXCEPT !.retry = z]
  <2>4. x = [y4 EXCEPT !.pc = p]
    BY <2>2
  <2>5. y1 \in Tx
    BY <1>2, <2>1, TxUpdate
  <2>6. y2 \in Tx
    BY <1>5, <2>5, TxUpdate
  <2> HIDE DEF x, y2
  <2> z \in Int /\ z \in Nat
    BY <1>3
  <2>7. y3 \in Tx
    BY <2>6, TxUpdate
  <2> HIDE DEF y3
  <2>8. y4 \in Tx
    BY <2>7, TxUpdate
  <2> HIDE DEF y4
  <2> QED BY <2>3, <2>4, <2>8, TxUpdate
<1>8. \A u \in Threads : u # t => tx'[u] = tx[u]
  BY <1>2, <1>3
<1>9. tx' \in [Threads -> Tx \cup {Idle}]
  BY <1>2, <1>3, <1>7, <1>8
<1> HIDE DEF x
<1>10. overrun' \in BOOLEAN
  BY HistoryOK DEF Types
<1>11. Types'
  BY <1>1, <1>9, <1>10 DEF Types
<1>12. mutex = t /\ loop.pc \notin {"clean", "left"}
  BY <1>1, JournalAssumption DEF Control, Waiting, Cleaning
<1>13. Control'
  BY <1>1, <1>3, <1>6, <1>8, <1>12, JournalAssumption DEF Control, Waiting, Cleaning, x
<1>14. Runs(t)' /\ ~Holds(t)' /\ (\A u \in Threads : Running(u)' <=> Running(u))
  BY <1>1, <1>3, <1>6, <1>8 DEF Runs, Running, x, Holds
<1>15. \A c \in CPUs : prog'[c] # <<>> =>
            \/ mutex' = c /\ Cleaning'
            \/ c = Cleaner /\ mode' = "recovering"
            \/ c \in Threads /\ Running(c)'
  BY <1>1, <1>14 DEF Programs, Cleaning
<1>16. TxOK(t)'
  BY <1>1, <1>2, <1>3, <1>4, <1>6, <1>7, TxFields DEF TxOK, Waiting, Running, x, Logged, Transactions
<1>17. ~overrun' => LogOf(t)' /\ OldOf(t)'
  BY <1>1, <1>3, <1>6, HistoryOK DEF LogOf, OldOf, x, Logged, Safe, Types
<1>18. Cleaning' => prog'[mutex'] \in Seq(CleanOps')
  BY <1>1, <1>12 DEF Cleaning
<1>19. tx'[t] # Idle => tx[t] # Idle /\ tx'[t].cells = tx[t].cells
  BY <1>2, <1>6, TxFields DEF x
<1> HIDE DEF IInv
<1> QED BY <1>1, <1>8, <1>11, <1>13, <1>14, <1>15, <1>16, <1>17, <1>18, <1>19, ThreadStep, Zenon

\* Generations stay in their range.
LEMMA GenOK ==
    ASSUME NEW g \in 1..MaxGen
    PROVE  next_gen_id(g) \in 1..MaxGen /\ prev_gen_id(g) \in 1..MaxGen
BY JournalAssumption DEF next_gen_id, prev_gen_id

\* A clean starts from the head and the tail in memory.
LEMMA CleanStart ==
    ASSUME MemOK(mem)
    PROVE  /\ pmfs_clean_journal \in CleanLoop /\ pmfs_clean_journal.pc = "clean"
           /\ pmfs_clean_journal.tail = Cur(mem, Jnl).tail
           /\ pmfs_clean_journal.head = Cur(mem, Jnl).head
<1> DEFINE j == Cur(mem, Jnl)
<1>1. j.head \in Pos /\ j.tail \in Pos /\ j.gen \in 1..MaxGen
  BY Values DEF JVal
<1>2. (IF j.tail < j.head THEN prev_gen_id(j.gen) ELSE j.gen) \in 1..MaxGen
  BY <1>1, GenOK
<1>3. pmfs_clean_journal = [pc |-> "clean", head |-> j.head, tail |-> j.tail,
        gen |-> IF j.tail < j.head THEN prev_gen_id(j.gen) ELSE j.gen, total |-> 0]
  BY DEF pmfs_clean_journal
<1> QED BY <1>1, <1>2, <1>3 DEF CleanLoop

\* The loops in their three states.
LEMMA LoopFields ==
    ASSUME loop \in CleanLoop \cup UndoLoop \cup {NoLoop}
    PROVE  /\ Cleaning => loop \in CleanLoop
           /\ loop.pc \in {"undo", "undone"} => loop \in UndoLoop
           /\ ~Cleaning /\ loop.pc \notin {"undo", "undone"} => loop = NoLoop
           /\ loop # NoLoop => loop.head \in Pos /\ loop.tail \in Pos /\ loop.gen \in 1..MaxGen
           /\ Cleaning => loop.total \in Int
           /\ loop = NoLoop => loop.pc = "none"
BY DEF CleanLoop, UndoLoop, NoLoop, Cleaning

\* No room behind the tail: FreeLogEntries.
LEMMA FreeLogEntriesOK ==
    ASSUME IInv, NEW t \in Threads, FreeLogEntries(t), History
    PROVE  IInv'
<1> USE DEF IInv
<1>1. /\ mode = "up" /\ tx[t].pc = "short" /\ prog[t] = <<>>
      /\ mem' = mem /\ prog' = prog /\ awake' = awake /\ mode' = mode /\ txs' = txs
  BY DEF FreeLogEntries, Started, Up, Ready
<1>2. tx \in [Threads -> Tx \cup {Idle}] /\ tx[t] \in Tx
  BY <1>1 DEF Types, Idle
<1>3. overrun' \in BOOLEAN /\ (~overrun' => ~overrun)
  BY HistoryOK DEF Types
<1>4. mutex = t /\ mutex # None /\ mutex # Cleaner
  BY <1>1, JournalAssumption DEF Control, Waiting
<1>5. /\ loop \in CleanLoop \cup UndoLoop \cup {NoLoop} /\ loop.pc \notin {"undo", "undone"}
  BY <1>1 DEF Types, Control
<1>6. TxOK(t) /\ (~overrun => OldOf(t))
  BY DEF Transactions, Safe
<1>7. CASE /\ tx' = [tx EXCEPT ![t].pc = "room"] /\ loop = NoLoop
           /\ UNCHANGED <<loop, mutex>>
  <2> DEFINE x == tx'[t]
  <2>1. /\ x.pc = "room" /\ x.gen = tx[t].gen /\ x.cells = tx[t].cells /\ x.logged = tx[t].logged
        /\ x.old = tx[t].old /\ x.tail = tx[t].tail
    BY <1>2, <1>7 DEF Tx
  <2>2. x \in Tx
    BY <1>2, <1>7, TxUpdate
  <2>3. \A u \in Threads : u # t => tx'[u] = tx[u]
    BY <1>2, <1>7
  <2>4. tx' \in [Threads -> Tx \cup {Idle}]
    BY <1>2, <1>7, <2>2, <2>3
  <2> HIDE DEF x
  <2>5. Types'
    BY <1>1, <1>3, <1>7, <2>4 DEF Types
  <2>6. ~Cleaning'
    BY <1>7 DEF Cleaning, NoLoop
  <2>7. Control'
    BY <1>1, <1>4, <1>5, <1>7, <2>1, <2>3, <2>6 DEF Control, Waiting, Cleaning, x
  <2>8. Runs(t)' /\ ~Holds(t)' /\ (\A u \in Threads : Running(u)' <=> Running(u))
    BY <1>1, <2>1, <2>3 DEF Runs, Running, x, Holds
  <2>9. \A c \in CPUs : prog'[c] # <<>> =>
            \/ mutex' = c /\ Cleaning'
            \/ c = Cleaner /\ mode' = "recovering"
            \/ c \in Threads /\ Running(c)'
    BY <1>1, <1>7, <2>8 DEF Programs, Cleaning
  <2>10. TxOK(t)'
    BY <1>1, <1>2, <1>6, <2>1, TxFields DEF TxOK, Waiting, Running, x, Logged
  <2>11. ~overrun' => LogOf(t)' /\ OldOf(t)'
    BY <1>1, <1>3, <1>6, <2>1 DEF LogOf, OldOf, x, Logged
  <2>12. tx'[t] # Idle => tx[t] # Idle /\ tx'[t].cells = tx[t].cells
    BY <1>2, <2>1, TxFields DEF x
  <2> HIDE DEF IInv
  <2> QED BY <1>1, <2>3, <2>5, <2>6, <2>7, <2>8, <2>9, <2>10, <2>11, <2>12, ThreadStep, Zenon
<1>8. CASE /\ tx' = [tx EXCEPT ![t] = Idle] /\ loop = NoLoop /\ mutex' = None /\ loop' = loop
  <2>1. tx'[t] = Idle /\ tx'[t].pc = "idle" /\ \A u \in Threads : u # t => tx'[u] = tx[u]
    BY <1>2, <1>8 DEF Idle
  <2>2. tx' \in [Threads -> Tx \cup {Idle}]
    BY <1>2, <1>8
  <2>3. Types'
    BY <1>1, <1>3, <1>8, <2>2 DEF Types
  <2>4. ~Cleaning'
    BY <1>8 DEF Cleaning, NoLoop
  <2>5. Control'
    BY <1>1, <1>4, <1>5, <1>8, <2>1, <2>4, JournalAssumption DEF Control, Waiting, Cleaning
  <2>6. Runs(t)' /\ ~Holds(t)' /\ (\A u \in Threads : Running(u)' <=> Running(u)) /\ TxOK(t)'
    BY <1>1, <2>1 DEF Runs, Running, Holds, TxOK
  <2>7. \A c \in CPUs : prog'[c] # <<>> =>
            \/ mutex' = c /\ Cleaning'
            \/ c = Cleaner /\ mode' = "recovering"
            \/ c \in Threads /\ Running(c)'
    BY <1>1, <1>8, <2>4, <2>6 DEF Programs, Cleaning
  <2>8. LogOf(t)' /\ OldOf(t)'
    BY <2>1 DEF LogOf, OldOf
  <2> HIDE DEF IInv
  <2> QED BY <1>1, <2>1, <2>3, <2>4, <2>5, <2>6, <2>7, <2>8, ThreadStep, Zenon
<1>9. CASE loop' = pmfs_clean_journal /\ loop = NoLoop /\ UNCHANGED <<tx, mutex>>
  <2>1. loop' \in CleanLoop /\ loop'.pc = "clean" /\ loop'.tail = Cur(mem, Jnl).tail
    BY <1>9, CleanStart DEF Types
  <2>2. Types'
    BY <1>1, <1>3, <1>9, <2>1 DEF Types
  <2>3. Control'
    BY <1>1, <1>4, <1>5, <1>9, <2>1 DEF Control, Waiting, Cleaning
  <2>4. /\ ~Holds(t)' /\ (\A u \in Threads : Running(u)' <=> Running(u)) /\ LogOf(t)'
        /\ Runs(t)' /\ (~overrun' => OldOf(t)')
    BY <1>1, <1>3, <1>6, <1>9 DEF Runs, Running, Holds, LogOf, OldOf, Logged
  <2>5. TxOK(t)'
    BY <1>1, <1>6, <1>9 DEF TxOK, Waiting, Running, Logged
  <2>6. \A c \in CPUs : prog'[c] # <<>> =>
            \/ mutex' = c /\ Cleaning'
            \/ c = Cleaner /\ mode' = "recovering"
            \/ c \in Threads /\ Running(c)'
    BY <1>1, <1>9, <2>4 DEF Programs, Cleaning, NoLoop
  <2>7. prog'[mutex'] \in Seq(CleanOps')
    BY <1>1, <1>4, <1>9, EmptyOver
  <2>8. tx'[t] = tx[t] /\ \A u \in Threads : u # t => tx'[u] = tx[u]
    BY <1>9
  <2> HIDE DEF IInv
  <2> QED BY <1>1, <2>2, <2>3, <2>4, <2>5, <2>6, <2>7, <2>8, ThreadStep, Zenon
<1>10. CASE /\ tx' = [tx EXCEPT ![t] = [tx[t] EXCEPT !.freed = tx[t].freed + loop.total,
                                                    !.retry = tx[t].retry + 1]]
            /\ loop.pc = "left" /\ loop' = NoLoop /\ mutex' = mutex
  <2> DEFINE x == tx'[t]
             f == tx[t].freed + loop.total
             r == tx[t].retry + 1
  <2>0. x = [tx[t] EXCEPT !.freed = f, !.retry = r]
    <3>1. \A y : [tx EXCEPT ![t] = y][t] = y
      BY <1>2
    <3> QED BY <1>10, <3>1, Zenon
  <2>1. /\ x.pc = "short" /\ x.gen = tx[t].gen /\ x.cells = tx[t].cells /\ x.logged = tx[t].logged
        /\ x.old = tx[t].old /\ x.tail = tx[t].tail
    BY <1>1, <1>2, <2>0 DEF Tx
  <2>2. x \in Tx
    <3>1. f \in Int /\ r \in Nat
      BY <1>2, <1>5, <1>10, TxFields, LoopFields DEF Cleaning
    <3> HIDE DEF f, r
    <3> DEFINE y == [tx[t] EXCEPT !.freed = f]
    <3>2. y \in Tx
      BY <1>2, <3>1, TxUpdate
    <3>3. x = [y EXCEPT !.retry = r]
      BY <2>0
    <3> HIDE DEF x, y
    <3> QED BY <3>1, <3>2, <3>3, TxUpdate
  <2>3. \A u \in Threads : u # t => tx'[u] = tx[u]
    BY <1>2, <1>10
  <2>4. tx' \in [Threads -> Tx \cup {Idle}]
    BY <1>2, <1>10, <2>2, <2>3
  <2> HIDE DEF x
  <2>5. Types'
    BY <1>1, <1>3, <1>10, <2>4 DEF Types
  <2>6. ~Cleaning'
    BY <1>10 DEF Cleaning, NoLoop
  <2>7. Control'
    BY <1>1, <1>4, <1>5, <1>10, <2>1, <2>3, <2>6 DEF Control, Waiting, Cleaning, x, NoLoop
  <2>8. Runs(t)' /\ ~Holds(t)' /\ (\A u \in Threads : Running(u)' <=> Running(u))
    BY <1>1, <2>1, <2>3 DEF Runs, Running, x, Holds
  <2>9. \A c \in CPUs : prog'[c] # <<>> =>
            \/ mutex' = c /\ Cleaning'
            \/ c = Cleaner /\ mode' = "recovering"
            \/ c \in Threads /\ Running(c)'
    BY <1>1, <1>4, <1>10, <2>8 DEF Programs, Cleaning
  <2>10. TxOK(t)'
    BY <1>1, <1>2, <1>6, <2>1, TxFields DEF TxOK, Waiting, Running, x, Logged
  <2>11. ~overrun' => LogOf(t)' /\ OldOf(t)'
    BY <1>1, <1>3, <1>6, <2>1 DEF LogOf, OldOf, x, Logged
  <2>12. tx'[t] # Idle => tx[t] # Idle /\ tx'[t].cells = tx[t].cells
    BY <1>2, <2>1, TxFields DEF x
  <2> HIDE DEF IInv
  <2> QED BY <1>1, <2>3, <2>5, <2>6, <2>7, <2>8, <2>9, <2>10, <2>11, <2>12, ThreadStep, Zenon
<1> QED BY <1>7, <1>8, <1>9, <1>10 DEF FreeLogEntries

------------------------------------------------------------------------------
(* Reserving entries.                                                           *)

\* An entry that lies before the tail is none of the entries reserved behind it,
\* when these lie before the new tail.
LEMMA BehindTail ==
    ASSUME NEW h \in Pos, NEW tail \in Pos, NEW n \in Nat \ {0}, tail + n < JSize,
           NEW i \in tail..(tail + n - 1), Dist(h, i) < Dist(h, tail),
           \A k \in tail..(tail + n - 1) : Dist(h, k) < Dist(h, tail + n)
    PROVE  FALSE
<1>1. JSize \in Nat
  BY JournalAssumption
<1>2. Dist(h, tail) < Dist(h, tail + n)
  <2>1. tail \in tail..(tail + n - 1)
    BY DEF Pos
  <2> QED BY <2>1
<1> QED BY <1>1, <1>2 DEF Dist, Pos

\* A store to the journal's header.
LEMMA HeaderStore ==
    ASSUME MemOK(mem), NEW c \in CPUs, NEW v \in JVal, NEW m,
           m = Store(mem, Jnl, v) \/ m = Clwb(Store(mem, Jnl, v), c, {Jnl})
    PROVE  /\ MemOK(m) /\ Cur(m, Jnl) = v
           /\ \A l \in Lines : l # Jnl => Cur(m, l) = Cur(mem, l)
<1> DEFINE n == Store(mem, Jnl, v)
           vs == <<v>>
<1>1. vs \in Seq(Val(Jnl)) /\ vs # <<>> /\ vs[Len(vs)] = v
  BY LineValues
<1>2. n = Stores(mem, Jnl, vs)
  BY DEF Store
<1> HIDE DEF n, vs
<1>3. MemOK(n) /\ Cur(n, Jnl) = v /\ \A l \in Lines : l # Jnl => Cur(n, l) = Cur(mem, l)
  BY <1>1, <1>2, StoresOK, LineKinds
<1>4. MemOK(Clwb(n, c, {Jnl})) /\ Clwb(n, c, {Jnl}).now = n.now
  BY <1>3, ClwbOK
<1> QED BY <1>3, <1>4 DEF Cur, n

\* Entries are reserved, or the tail goes back to the start of the journal: Reserve.
LEMMA ReserveOK ==
    ASSUME IInv, NEW t \in Threads, Reserve(t), History
    PROVE  IInv'
<1> USE DEF IInv
<1> DEFINE j == Cur(mem, Jnl)
<1>1. /\ mode = "up" /\ tx[t].pc = "room" /\ prog[t] = <<>>
      /\ prog' = prog /\ loop' = loop /\ mode' = mode /\ txs' = txs
  BY DEF Reserve, Started, Up, Ready
<1>2. tx \in [Threads -> Tx \cup {Idle}] /\ tx[t] \in Tx
  BY <1>1 DEF Types, Idle
<1>3. overrun' \in BOOLEAN /\ (overrun => overrun') /\ (~overrun' => ~overrun /\ ReservedKept')
  BY HistoryOK DEF Types
<1>4. /\ mutex = t /\ mutex # None /\ mutex # Cleaner /\ ~Cleaning
      /\ loop.pc \notin {"undo", "undone"}
  BY <1>1, JournalAssumption DEF Control, Waiting
<1>5. j \in JVal /\ j.head \in Pos /\ j.tail \in Pos /\ j.gen \in 1..MaxGen /\ MemOK(mem)
      /\ JSize \in Nat \ {0} /\ t \in CPUs
  BY Values, JournalAssumption DEF Types, JVal
<1>6. TxOK(t) /\ (~overrun => OldOf(t))
  BY DEF Transactions, Safe
<1>7. /\ tx[t].tail = j.tail /\ tx[t].logged = <<>> /\ tx[t].gen # 0 /\ tx[t].tail \in Pos
      /\ tx[t].n \in Nat \ {0}
  BY <1>1, <1>2, <1>6, TxFields DEF TxOK, Waiting
<1>8. \A u \in Threads : u # t => ~Waiting(u)
  BY <1>4 DEF Control
<1> HIDE DEF j
<1>9. ASSUME NEW x, x \in Tx, tx' = [tx EXCEPT ![t] = x],
             x.cells = tx[t].cells, x.old = tx[t].old, x.logged = <<>>, x.gen = tx[t].gen,
             x.n = tx[t].n,
             MemOK(mem)', Cur(mem, Jnl)' \in JVal, Cur(mem, Jnl)'.tail = x.tail,
             \A l \in Lines : l # Jnl => Cur(mem, l)' = Cur(mem, l),
             mutex' \in CPUs \cup {None}, awake' \in BOOLEAN,
             (x.pc = "again" /\ mutex' = t) \/ (x.pc = "open" /\ mutex' = None),
             x.pc = "open" => x.start + x.n < JSize,
             x.pc = "open" /\ ~overrun' =>
                \A u \in Threads : u # t /\ Holds(u) => Reserved(u) \cap Reserved(t)' = {}
      PROVE  IInv'
  <2>1. tx'[t] = x /\ \A u \in Threads : u # t => tx'[u] = tx[u]
    BY <1>2, <1>9
  <2>2. tx' \in [Threads -> Tx \cup {Idle}]
    BY <1>2, <1>9
  <2>3. Types'
    BY <1>1, <1>3, <1>9, <2>2 DEF Types
  <2>4. Control'
    BY <1>1, <1>4, <1>9, <2>1, JournalAssumption DEF Control, Waiting, Cleaning
  <2>5. \A u \in Threads : u # t => Runs(u)'
    BY <1>1, <1>2, <1>3, <2>1, RunsKept DEF Programs
  <2>6. prog'[t] \in Seq(RunOps(t)')
    BY <1>1, EmptyOver
  <2>7. Programs'
    BY <1>1, <1>4, <1>9, <2>1, <2>5, <2>6 DEF Programs, Cleaning, Running, Runs
  <2>8. \A u \in Threads : u # t => TxOK(u)'
    BY <1>1, <1>2, <1>3, <1>8, <2>1, OtherTx DEF Transactions
  <2>9. TxOK(t)'
    <3>1. Len(x.logged) <= x.n
      BY <1>7, <1>9
    <3> QED BY <1>1, <1>2, <1>6, <1>7, <1>9, <2>1, <3>1, TxFields
            DEF TxOK, Waiting, Running, Shape, Logged
  <2>10. CellsApart'
    BY <1>2, <1>9, <2>1, TxFields DEF CellsApart
  <2>11. ASSUME ~overrun' PROVE Safe'
    <3>1. \A u \in Threads : u # t => LogOf(u)' /\ OldOf(u)'
      <4>1. ASSUME NEW u \in Threads, u # t PROVE LogOf(u)' /\ OldOf(u)'
        <5>1. tx[u].pc = "open" => \A i \in Reserved(u) : Entry(i)' = Entry(i)
          <6>1. SUFFICES ASSUME tx[u].pc = "open", NEW i \in Reserved(u) PROVE Entry(i)' = Entry(i)
            OBVIOUS
          <6>2. tx[u] \in Tx /\ tx[u] # Idle
            BY <6>1, <1>2 DEF Idle
          <6>3. tx[u].start + tx[u].n < JSize
            BY <6>1, <6>2 DEF Transactions, TxOK, Running
          <6>4. tx[u].start \in Nat /\ tx[u].n \in Nat
            BY <6>2, TxFields DEF Pos
          <6>5. i \in Pos
            BY <6>1, <6>3, <6>4, <1>5 DEF Reserved, Pos
          <6> QED BY <6>5, <1>9, LineKinds DEF Entry
        <5>2. tx[u] # Idle => \A c \in tx[u].cells : Cur(mem, Cell(c))' = Cur(mem, Cell(c))
          BY <1>2, <1>9, LineKinds, TxFields
        <5> QED BY <4>1, <5>1, <5>2, <1>1, <1>2, <1>3, <2>1, <2>11, OtherSafe DEF Safe, Transactions
      <4> QED BY <4>1
    <3>2. LogOf(t)'
      BY <1>9, <2>1 DEF LogOf
    <3>3. OldOf(t)'
      <4>1. \A c \in tx[t].cells : Cur(mem, Cell(c))' = Cur(mem, Cell(c))
        BY <1>2, <1>9, LineKinds, TxFields
      <4> QED BY <1>1, <1>3, <1>6, <1>7, <1>9, <2>1, <2>11, <4>1 DEF OldOf, Logged
    <3>4. RangesApart'
      <4>1. \A u \in Threads : u # t /\ Holds(u)' => Holds(u) /\ Reserved(u)' = Reserved(u)
        BY <1>1, <2>1 DEF Holds, Reserved
      <4>2. Holds(t)' => x.pc = "open"
        BY <2>1, <1>1, <1>9 DEF Holds
      <4> QED BY <4>1, <4>2, <1>3, <1>9, <2>11 DEF Safe, RangesApart
    <3> QED BY <3>1, <3>2, <3>3, <3>4, <1>3, <2>11 DEF Safe
  <2> QED BY <2>3, <2>4, <2>7, <2>8, <2>9, <2>10, <2>11 DEF Transactions, Safe
<1> DEFINE tail == tx[t].tail + tx[t].n
<1>10. CASE tail >= JSize
  <2> DEFINE x == [tx[t] EXCEPT !.tail = 0, !.pc = "again"]
             v == [j EXCEPT !.tail = 0, !.gen = next_gen_id(@)]
  <2>1. tx' = [tx EXCEPT ![t] = x] /\ mem' = Store(mem, Jnl, v) /\ mutex' = mutex /\ awake' = awake
    BY <1>10 DEF Reserve, j
  <2>2. v \in JVal /\ v.tail = 0
    <3>1. next_gen_id(j.gen) \in 1..MaxGen /\ 0 \in Pos
      BY <1>5, GenOK DEF Pos
    <3> QED BY <1>5, <3>1 DEF JVal
  <2>3. x \in Tx
    <3>1. 0 \in Pos
      BY <1>5 DEF Pos
    <3>2. \A i \in Pos : [tx[t] EXCEPT !.tail = i] \in Tx
      BY <1>2, TxUpdate
    <3>3. [tx[t] EXCEPT !.tail = 0] \in Tx
      BY <3>1, <3>2
    <3> QED BY <3>3, TxUpdate
  <2>4. /\ x.cells = tx[t].cells /\ x.old = tx[t].old /\ x.logged = <<>> /\ x.gen = tx[t].gen
        /\ x.n = tx[t].n /\ x.tail = 0 /\ x.pc = "again"
    BY <1>2, <1>7 DEF Tx
  <2> HIDE DEF x, v
  <2>5. /\ MemOK(mem') /\ Cur(mem', Jnl) = v
        /\ \A l \in Lines : l # Jnl => Cur(mem', l) = Cur(mem, l)
    BY <1>5, <2>1, <2>2, HeaderStore
  <2>6. MemOK(mem)' /\ Cur(mem, Jnl)' = v /\ \A l \in Lines : l # Jnl => Cur(mem, l)' = Cur(mem, l)
    BY <2>5, Zenon DEF MemOK, Cur
  <2>7. mutex' \in CPUs \cup {None} /\ awake' \in BOOLEAN
    BY <2>1 DEF Types
  <2>8. PICK y : y = x
    OBVIOUS
  <2>9. /\ Cur(mem, Jnl)' \in JVal /\ Cur(mem, Jnl)'.tail = y.tail /\ y.pc = "again" /\ mutex' = t
        /\ (y.pc = "open" => y.start + y.n < JSize)
        /\ (y.pc = "open" /\ ~overrun' =>
                \A u \in Threads : u # t /\ Holds(u) => Reserved(u) \cap Reserved(t)' = {})
    BY <1>4, <2>1, <2>2, <2>4, <2>6, <2>8
  <2>10. /\ tx' = [tx EXCEPT ![t] = y] /\ y \in Tx /\ y.cells = tx[t].cells /\ y.old = tx[t].old
         /\ y.logged = <<>> /\ y.gen = tx[t].gen /\ y.n = tx[t].n
    BY <2>1, <2>3, <2>4, <2>8, Zenon
  <2> HIDE DEF IInv, tail
  <2> QED BY <1>9, <2>6, <2>7, <2>9, <2>10, Zenon
<1>11. CASE ~(tail >= JSize)
  <2> DEFINE x == [tx[t] EXCEPT !.start = tx[t].tail, !.tail = tail, !.pc = "open"]
             v == [j EXCEPT !.tail = tail]
  <2>1. /\ tx' = [tx EXCEPT ![t] = x] /\ mem' = Clwb(Store(mem, Jnl, v), t, {Jnl})
        /\ mutex' = None /\ awake' = (awake \/ 8 * (JSize - tx[t].avail + tx[t].n) > JSize)
    BY <1>11 DEF Reserve, j
  <2>2. tail \in Pos /\ tx[t].tail \in Nat /\ tail < JSize
    BY <1>5, <1>7, <1>11 DEF Pos
  <2> HIDE DEF tail
  <2>3. v \in JVal /\ v.tail = tail /\ v.head = j.head
    BY <1>5, <2>2 DEF JVal
  <2>4. x \in Tx
    <3> DEFINE y == [tx[t] EXCEPT !.start = tx[t].tail]
               z == [y EXCEPT !.tail = tail]
    <3>1. y \in Tx
      BY <1>2, <2>2, TxUpdate
    <3> HIDE DEF y
    <3>2. z \in Tx
      BY <3>1, <2>2, TxUpdate
    <3>3. x = [z EXCEPT !.pc = "open"]
      BY DEF y
    <3> HIDE DEF z, x
    <3> QED BY <3>2, <3>3, TxUpdate
  <2>5. /\ x.cells = tx[t].cells /\ x.old = tx[t].old /\ x.logged = <<>> /\ x.gen = tx[t].gen
        /\ x.n = tx[t].n /\ x.tail = tail /\ x.pc = "open" /\ x.start = tx[t].tail
    BY <1>2, <1>7 DEF Tx
  <2> HIDE DEF x, v
  <2>6. /\ MemOK(mem') /\ Cur(mem', Jnl) = v
        /\ \A l \in Lines : l # Jnl => Cur(mem', l) = Cur(mem, l)
    <3>1. MemOK(mem) /\ t \in CPUs /\ v \in JVal
      BY <1>5, <2>3
    <3>2. mem' = Clwb(Store(mem, Jnl, v), t, {Jnl})
      BY <2>1
    <3>3. PICK m, w : m = mem' /\ w = v
      OBVIOUS
    <3>4. w \in JVal /\ m = Clwb(Store(mem, Jnl, w), t, {Jnl})
      BY <3>1, <3>2, <3>3
    <3>5. MemOK(m) /\ Cur(m, Jnl) = w /\ \A l \in Lines : l # Jnl => Cur(m, l) = Cur(mem, l)
      BY <3>1, <3>4, HeaderStore
    <3> QED BY <3>3, <3>5, Zenon
  <2>7. MemOK(mem)' /\ Cur(mem, Jnl)' = v /\ \A l \in Lines : l # Jnl => Cur(mem, l)' = Cur(mem, l)
    BY <2>6, Zenon DEF MemOK, Cur
  <2>8. mutex' \in CPUs \cup {None} /\ awake' \in BOOLEAN
    <3>1. mutex' \in CPUs \cup {None}
      BY <2>1
    <3>2. \A b : (awake \/ b) \in BOOLEAN
      OBVIOUS
    <3> QED BY <2>1, <3>1, <3>2, Zenon
  <2>9. tx'[t] = x
    BY <1>2, <2>1
  <2>10. ASSUME ~overrun', NEW u \in Threads, u # t, Holds(u) PROVE Reserved(u) \cap Reserved(t)' = {}
    <3>1. SUFFICES ASSUME NEW i \in Reserved(u), i \in Reserved(t)' PROVE FALSE
      OBVIOUS
    <3>2. Reserved(t)' = (tx[t].tail)..(tx[t].tail + tx[t].n - 1)
      BY <2>5, <2>9 DEF Reserved
    <3>3. j.head \in Heads /\ j.head \in Heads'
      BY <2>3, <2>7 DEF Heads, j
    <3>4. Dist(j.head, i) < Dist(j.head, j.tail)
      BY <1>3, <2>10, <3>1, <3>3 DEF Safe, ReservedKept, j
    <3>5. Holds(t)'
      BY <2>5, <2>9 DEF Holds
    <3>6. \A k \in Reserved(t)' : Dist(j.head, k) < Dist(j.head, Cur(mem, Jnl)'.tail)
      <4>1. ReservedKept'
        BY <1>3, <2>10
      <4> QED BY <3>3, <3>5, <4>1 DEF ReservedKept, Dist
    <3>7. \A k \in (tx[t].tail)..(tx[t].tail + tx[t].n - 1) :
                Dist(j.head, k) < Dist(j.head, tx[t].tail + tx[t].n)
      BY <3>2, <3>6, <2>3, <2>7 DEF tail
    <3> QED BY <1>5, <1>7, <2>2, <3>1, <3>2, <3>4, <3>7, BehindTail DEF tail
  <2>11. x.start + x.n < JSize
    BY <2>2, <2>5 DEF tail
  <2>12. PICK y : y = x
    OBVIOUS
  <2>13. /\ Cur(mem, Jnl)' \in JVal /\ Cur(mem, Jnl)'.tail = y.tail /\ y.pc = "open" /\ mutex' = None
         /\ y.start + y.n < JSize
    BY <2>1, <2>3, <2>5, <2>7, <2>11, <2>12
  <2>14. /\ tx' = [tx EXCEPT ![t] = y] /\ y \in Tx /\ y.cells = tx[t].cells /\ y.old = tx[t].old
         /\ y.logged = <<>> /\ y.gen = tx[t].gen /\ y.n = tx[t].n
    BY <2>1, <2>4, <2>5, <2>12, Zenon
  <2> HIDE DEF IInv
  <2> QED BY <1>9, <2>7, <2>8, <2>10, <2>13, <2>14, Zenon
<1> QED BY <1>10, <1>11

------------------------------------------------------------------------------
(* What transactions write.                                                     *)

\* The fields of a write.
LEMMA WriteOK ==
    ASSUME NEW l \in Lines, NEW order \in Seq(Fields), NEW r \in Recs, NEW cl \in SUBSET Lines,
           NEW bar \in BOOLEAN, NEW o, o = Write(l, order, r, cl, bar)
    PROVE  /\ o \in Writes /\ o.op = "write" /\ o.l = l /\ o.order = order /\ o.r = r /\ o.bar = bar
           /\ o # Barrier
<1>1. o = [op |-> "write", l |-> l, order |-> order, r |-> r, cl |-> cl, bar |-> bar]
  BY DEF Write
<1>2. o.op = "write" /\ o.l = l /\ o.order = order /\ o.r = r /\ o.bar = bar
  BY <1>1
<1>3. o # Barrier
  BY <1>2 DEF Barrier
<1>4. o \in Writes
  BY <1>1 DEF Writes
<1> QED BY <1>2, <1>3, <1>4

\* Two sequences of one element.
LEMMA TwoSteps ==
    ASSUME NEW S, NEW a \in S, NEW b \in S
    PROVE  <<a>> \o <<b>> = <<a, b>>
<1>1. <<a>> \in Seq(S) /\ <<b>> \in Seq(S) /\ <<a, b>> \in Seq(S)
  OBVIOUS
<1>2. <<a>> \o <<b>> \in Seq(S) /\ Len(<<a>> \o <<b>>) = 2 /\ Len(<<a, b>>) = 2
  BY <1>1
<1>3. (<<a>> \o <<b>>)[1] = a /\ (<<a>> \o <<b>>)[2] = b
  BY <1>1
<1>4. \A k \in 1..2 : (<<a>> \o <<b>>)[k] = <<a, b>>[k]
  BY <1>3
<1> QED BY <1>1, <1>2, <1>4, SeqEqual

\* The orders in which fields are stored.
LEMMA Orders ==
    /\ LeFields \in Seq(Fields) /\ <<"addr", "data", "type">> \in Seq(Fields)
    /\ <<"gen">> \in Seq(Fields) /\ <<"head">> \in Seq(Fields) /\ <<"v">> \in Seq(Fields)
    /\ <<"gen", "head">> \in Seq(Fields)
BY DEF LeFields, Fields

\* The next entry of a transaction, and what it is filled with.
LEMMA FillOK ==
    ASSUME MemOK(mem), NEW t \in Threads, tx[t] \in Tx, tx[t].start + tx[t].n < JSize,
           Len(tx[t].logged) < tx[t].n, NEW c \in Cells \cup {None},
           NEW type \in SUBSET {"commit", "abort"}, NEW e, e = FillEntry(tx[t], c, type)
    PROVE  /\ e \in EVal /\ e.addr = c /\ e.gen = tx[t].gen
           /\ c \in Cells => e.data = Cur(mem, Cell(c)).v
           /\ tx[t].start + Len(tx[t].logged) \in Reserved(t)
           /\ Reserved(t) \subseteq Pos /\ NextLe(tx[t]) \in Lines
           /\ NextLe(tx[t]) = Le(tx[t].start + Len(tx[t].logged))
<1>1. /\ tx[t].start \in Nat /\ tx[t].n \in Nat /\ Len(tx[t].logged) \in Nat
      /\ tx[t].gen \in 0..MaxGen /\ JSize \in Nat
  BY TxFields, JournalAssumption
<1>2. tx[t].start + Len(tx[t].logged) \in Reserved(t) /\ Reserved(t) \subseteq Pos
  <2>1. PICK s, n, k : s = tx[t].start /\ n = tx[t].n /\ k = Len(tx[t].logged)
    OBVIOUS
  <2>2. s \in Nat /\ n \in Nat /\ k \in Nat /\ s + n < JSize /\ k < n /\ JSize \in Nat
    BY <1>1, <2>1
  <2>3. s + k \in s..(s + n - 1) /\ s..(s + n - 1) \subseteq 0..JSize-1
    BY <2>2
  <2>4. Reserved(t) = s..(s + n - 1)
    BY <2>1 DEF Reserved
  <2> QED BY <2>1, <2>3, <2>4 DEF Pos
<1>3. NextLe(tx[t]) = Le(tx[t].start + Len(tx[t].logged)) /\ NextLe(tx[t]) \in Lines
  BY <1>2, LineKinds DEF NextLe
<1> DEFINE d == IF c = None THEN 0 ELSE Cur(mem, Cell(c)).v
           ty == type \cup (IF tx[t].logged = <<>> THEN {"start"} ELSE {})
<1>4. e = [addr |-> c, data |-> d, type |-> ty, gen |-> tx[t].gen]
  BY DEF FillEntry
<1>5. d \in 0..MaxTx
  BY Values, JournalAssumption DEF CVal
<1>6. ty \in SUBSET {"start", "commit", "abort"}
  OBVIOUS
<1>7. c \in Cells => d = Cur(mem, Cell(c)).v
  BY JournalAssumption
<1> HIDE DEF d, ty
<1>8. e.addr = c /\ e.data = d /\ e.gen = tx[t].gen
  BY <1>4
<1>9. e \in EVal
  BY <1>1, <1>4, <1>5, <1>6 DEF EVal
<1> QED BY <1>2, <1>3, <1>7, <1>8, <1>9

\* A sequence of a transaction's writes is one of the journal's.
LEMMA RunOpsOps ==
    ASSUME NEW t \in Threads, tx[t] \in Tx, Reserved(t) \subseteq Pos
    PROVE  RunOps(t) \subseteq Ops
<1>1. tx[t].cells \subseteq Cells
  BY TxFields
<1>2. CellOps(IF overrun THEN Cells ELSE tx[t].cells) \subseteq CellOps(Cells)
  BY <1>1 DEF CellOps
<1>3. EntryOps(Reserved(t)) \subseteq EntryOps(Pos)
  BY DEF EntryOps
<1> QED BY <1>2, <1>3, Zenon DEF RunOps, Ops

\* The parts of the invariant a step of a running transaction has to restore.
LEMMA RunnerStep ==
    ASSUME IInv, History, NEW t \in Threads, Running(t), mode = "up",
           mem' = mem, loop' = loop, mutex' = mutex, awake' = awake, mode' = mode, txs' = txs,
           \A u \in Threads : u # t => tx'[u] = tx[u],
           \A u \in CPUs : u # t => prog'[u] = prog[u],
           tx' \in [Threads -> Tx \cup {Idle}], prog' \in [CPUs -> Seq(Ops)],
           ~Waiting(t)', Runs(t)', prog'[t] # <<>> => Running(t)', TxOK(t)',
           tx'[t] # Idle => tx'[t].cells = tx[t].cells,
           Holds(t)' => Holds(t) /\ Reserved(t)' = Reserved(t),
           ~overrun' => LogOf(t)' /\ OldOf(t)'
    PROVE  IInv'
<1> USE DEF IInv
<1>1. overrun' \in BOOLEAN /\ t \in CPUs /\ ~Waiting(t)
  BY HistoryOK, JournalAssumption DEF Types, Waiting, Running
<1>2. Types'
  BY <1>1 DEF Types
<1>3. mutex \in CPUs \cup {None} /\ mutex # t
  BY <1>1 DEF Types, Control
<1>4. Control'
  <2>1. \A u \in Threads : (mutex' = u) <=> Waiting(u)'
    BY <1>1 DEF Control, Waiting
  <2>2. Cleaning' => /\ mutex' # None
                     /\ mutex' # Cleaner => tx'[mutex'].pc = "short"
                     /\ loop'.tail = Cur(mem, Jnl)'.tail
    BY <1>3, JournalAssumption DEF Control, Cleaning
  <2>3. mutex' = Cleaner => mode' \in {"up", "unmounting"} /\ Cleaning'
    BY DEF Control, Cleaning
  <2>4. (loop.pc \in {"undo", "undone"})' <=> (mode = "recovering")'
    BY DEF Control
  <2> QED BY <2>1, <2>2, <2>3, <2>4 DEF Control
<1>5. Cleaning' => prog'[mutex'] \in Seq(CleanOps')
  <2>1. Cleaning => mutex \in CPUs /\ prog[mutex] \in Seq(CleanOps)
    BY DEF Control, Programs, Types
  <2> QED BY <1>3, <2>1 DEF Cleaning, CleanOps, Passed, InvalOps, HeadOps, Writes, Barrier
<1>6. \A u \in CPUs : prog'[u] # <<>> =>
            \/ mutex' = u /\ Cleaning'
            \/ u = Cleaner /\ mode' = "recovering"
            \/ u \in Threads /\ Running(u)'
  BY <1>1, JournalAssumption DEF Programs, Cleaning, Running
<1>7. tx[t] # Idle /\ \A u \in Threads : u # t => tx'[u] = tx[u] /\ prog'[u] = prog[u]
  BY JournalAssumption DEF Running, Idle
<1> HIDE DEF IInv
<1> QED BY <1>2, <1>4, <1>5, <1>6, <1>7, ThreadStep, Zenon

\* A cell is logged: LogCell.
LEMMA LogCellOK ==
    ASSUME IInv, NEW t \in Threads, LogCell(t), History
    PROVE  IInv'
<1> USE DEF IInv
<1>1. /\ mode = "up" /\ tx[t].pc = "open" /\ prog[t] = <<>> /\ Len(tx[t].logged) < tx[t].n
      /\ mem' = mem /\ loop' = loop /\ mutex' = mutex /\ awake' = awake /\ mode' = mode /\ txs' = txs
  BY DEF LogCell, Started, Up, Ready
<1>2. tx \in [Threads -> Tx \cup {Idle}] /\ tx[t] \in Tx /\ prog \in [CPUs -> Seq(Ops)] /\ t \in CPUs
      /\ MemOK(mem)
  BY <1>1, JournalAssumption DEF Types, Idle
<1>3. overrun' \in BOOLEAN /\ (overrun => overrun') /\ (~overrun' => ~overrun /\ ReservedKept')
  BY HistoryOK DEF Types
<1>4. PICK c \in tx[t].cells \ Logged(tx[t]) :
        /\ prog' = [prog EXCEPT ![t] = pmfs_add_logentry(tx[t], c, {}) \o
                        <<Write(Cell(c), <<"v">>, [v |-> tx[t].new], {}, FALSE)>>]
        /\ tx' = [tx EXCEPT ![t].logged = Append(@, c)]
  BY DEF LogCell
<1>5. c \in Cells /\ tx[t].cells \subseteq Cells /\ tx[t].logged \in Seq(Cells) /\ tx[t].new \in 1..MaxTx
      /\ tx[t].n \in Nat /\ tx[t].start \in Nat
  BY <1>2, TxFields
<1>6. TxOK(t) /\ (~overrun => LogOf(t) /\ OldOf(t)) /\ ~Waiting(t) /\ Running(t)
  BY <1>1 DEF Transactions, Safe, Waiting, Running
<1>7. tx[t].start + tx[t].n < JSize /\ DOMAIN tx[t].old = tx[t].cells /\ Logged(tx[t]) \subseteq tx[t].cells
      /\ tx[t].gen # 0
  BY <1>1, <1>2, <1>6, TxFields DEF TxOK
<1>A. PICK e, r, s : e = FillEntry(tx[t], c, {}) /\ r = [v |-> tx[t].new] /\ s = Append(tx[t].logged, c)
  OBVIOUS
<1>B. PICK a, b, x : /\ a = Write(NextLe(tx[t]), LeFields, e, {NextLe(tx[t])}, TRUE)
                     /\ b = Write(Cell(c), <<"v">>, r, {}, FALSE)
                     /\ x = [tx[t] EXCEPT !.logged = s]
  OBVIOUS
<1>8. /\ e \in EVal /\ e.addr = c /\ e.gen = tx[t].gen /\ e.data = Cur(mem, Cell(c)).v
      /\ tx[t].start + Len(tx[t].logged) \in Reserved(t)
      /\ Reserved(t) \subseteq Pos /\ NextLe(tx[t]) \in Lines
      /\ NextLe(tx[t]) = Le(tx[t].start + Len(tx[t].logged))
  <2>1. {} \in SUBSET {"commit", "abort"} /\ c \in Cells \cup {None}
    BY <1>5
  <2>2. PICK ty : ty = {} /\ e = FillEntry(tx[t], c, ty)
    BY <1>A
  <2> QED BY <1>1, <1>2, <1>5, <1>7, <2>1, <2>2, FillOK
<1>9. prog'[t] = <<a, b>> /\ (\A u \in CPUs : u # t => prog'[u] = prog[u])
  <2>1. prog' = [prog EXCEPT ![t] = <<a>> \o <<b>>]
    BY <1>4, <1>A, <1>B DEF pmfs_add_logentry
  <2>2. <<a>> \o <<b>> = <<a, b>>
    BY TwoSteps, a \in {a, b}, b \in {a, b}
  <2> QED BY <1>2, <2>1, <2>2
<1>10. /\ a \in Writes /\ a.l = NextLe(tx[t]) /\ a.order = LeFields /\ a.r = e /\ a.bar = TRUE
       /\ a # Barrier
  <2>1. {NextLe(tx[t])} \in SUBSET Lines /\ e \in Recs /\ TRUE \in BOOLEAN
    BY <1>8 DEF Recs
  <2>2. PICK l, ord, cl, bar : l = NextLe(tx[t]) /\ ord = LeFields /\ cl = {l} /\ bar = TRUE
    OBVIOUS
  <2>3. a = Write(l, ord, e, cl, bar) /\ cl \in SUBSET Lines /\ bar \in BOOLEAN /\ l \in Lines
        /\ ord \in Seq(Fields)
    BY <2>1, <2>2, <1>8, <1>B, Orders
  <2>4. a \in Writes /\ a.l = l /\ a.order = ord /\ a.r = e /\ a.bar = bar /\ a # Barrier
    BY <2>1, <2>3, WriteOK
  <2> QED BY <2>2, <2>4, Zenon
<1>11. /\ b \in Writes /\ b.l = Cell(c) /\ b.order = <<"v">> /\ b.r = r /\ b.bar = FALSE
       /\ b # Barrier /\ r \in CVal
  <2>1. r \in CVal
    BY <1>5, <1>A DEF CVal
  <2>2. {} \in SUBSET Lines /\ r \in Recs /\ FALSE \in BOOLEAN /\ Cell(c) \in Lines
    BY <2>1, <1>5, LineKinds DEF Recs
  <2>3. PICK l, ord, cl, bar : l = Cell(c) /\ ord = <<"v">> /\ cl = {} /\ bar = FALSE
    OBVIOUS
  <2>4. b = Write(l, ord, r, cl, bar) /\ cl \in SUBSET Lines /\ bar \in BOOLEAN /\ l \in Lines
        /\ ord \in Seq(Fields)
    BY <2>2, <2>3, <1>B, Orders
  <2>5. b \in Writes /\ b.l = l /\ b.order = ord /\ b.r = r /\ b.bar = bar /\ b # Barrier
    BY <2>2, <2>4, WriteOK
  <2> QED BY <2>1, <2>3, <2>5, Zenon
<1>12. tx'[t] = x /\ (\A u \in Threads : u # t => tx'[u] = tx[u])
  BY <1>2, <1>4, <1>A, <1>B
<1>13. s \in Seq(Cells) /\ Len(s) = Len(tx[t].logged) + 1 /\ s[Len(s)] = c
       /\ (\A k \in 1..Len(tx[t].logged) : s[k] = tx[t].logged[k])
       /\ Len(tx[t].logged) \in Nat
  BY <1>5, <1>A
<1>14. x \in Tx /\ x.logged = s /\ x.cells = tx[t].cells /\ x.pc = "open" /\ x.old = tx[t].old
       /\ x.n = tx[t].n /\ x.start = tx[t].start /\ x.gen = tx[t].gen /\ x # Idle
  <2>1. x \in Tx
    BY <1>2, <1>13, <1>B, TxUpdate
  <2>2. x.logged = s /\ x.cells = tx[t].cells /\ x.pc = "open" /\ x.old = tx[t].old
       /\ x.n = tx[t].n /\ x.start = tx[t].start /\ x.gen = tx[t].gen
    BY <1>1, <1>2, <1>B DEF Tx
  <2> QED BY <2>1, <2>2, TxFields
<1>15. tx' \in [Threads -> Tx \cup {Idle}]
  BY <1>2, <1>4, <1>12, <1>14
<1>16. Reserved(t)' = Reserved(t) /\ Holds(t) /\ Holds(t)' /\ ~Waiting(t)' /\ Running(t)'
  BY <1>1, <1>12, <1>14 DEF Reserved, Holds, Waiting, Running
<1>17. a \in EntryOps(Reserved(t)) /\ b \in CellOps({c})
  BY <1>8, <1>10, <1>11 DEF EntryOps, CellOps
<1>18. prog'[t] \in Seq(RunOps(t)') /\ RunOps(t)' \subseteq Ops
  <2>1. b \in CellOps(IF overrun' THEN Cells ELSE tx'[t].cells)
    BY <1>5, <1>12, <1>14, <1>17 DEF CellOps
  <2>2. a \in RunOps(t)'
    BY <1>16, <1>17 DEF RunOps, EntryOps, Writes, EVal
  <2>3. b \in RunOps(t)'
    BY <2>1 DEF RunOps, CellOps, CVal
  <2>4. prog'[t] \in Seq(RunOps(t)')
    BY <1>9, <2>2, <2>3
  <2>5. tx'[t].cells \subseteq Cells
    BY <1>5, <1>12, <1>14
  <2>6. CellOps(IF overrun' THEN Cells ELSE tx'[t].cells) \subseteq CellOps(Cells)
    BY <2>5 DEF CellOps
  <2>7. EntryOps(Reserved(t)) \subseteq EntryOps(Pos)
    BY <1>8 DEF EntryOps
  <2>8. RunOps(t)' \subseteq Ops
    BY <1>16, <2>6, <2>7 DEF RunOps, Ops, FenceOps, Barrier, Nothing, EntryOps, CellOps
  <2> QED BY <2>4, <2>8
<1>19. prog' \in [CPUs -> Seq(Ops)]
  <2>1. prog'[t] \in Seq(Ops)
    BY <1>18, SeqSub
  <2>2. DOMAIN prog' = CPUs /\ prog' = [u \in CPUs |-> prog'[u]]
    BY <1>2, <1>4
  <2> QED BY <1>2, <1>9, <2>1, <2>2
<1>20. TxOK(t)'
  <2>1. Logged(tx'[t]) \subseteq tx'[t].cells
    <3>1. ASSUME NEW k \in 1..Len(s) PROVE s[k] \in tx[t].cells
      <4>1. CASE k = Len(s)
        BY <4>1, <1>13, <1>4
      <4>2. CASE k # Len(s)
        <5>1. k \in 1..Len(tx[t].logged)
          BY <4>2, <1>13
        <5> QED BY <5>1, <1>7, <1>13 DEF Logged
      <4> QED BY <4>1, <4>2
    <3> QED BY <3>1, <1>12, <1>14 DEF Logged
  <2>2. tx'[t].start + tx'[t].n < JSize /\ Len(tx'[t].logged) <= tx'[t].n
    BY <1>1, <1>5, <1>7, <1>12, <1>13, <1>14
  <2>3. LastLe(x) = NextLe(tx[t]) /\ LastCell(x) = c
    BY <1>5, <1>8, <1>13, <1>14 DEF LastLe, LastCell
  <2>4. ~overrun' => e.data = x.old[c]
    BY <1>1, <1>3, <1>4, <1>6, <1>8, <1>14 DEF OldOf
  <2>5. Good(x, e, c)'
    BY <2>4, <1>8, <1>14 DEF Good
  <2>6. a.bar /\ a.l = LastLe(x) /\ Len(x.logged) > 0 /\ Changes(x, b)
    BY <2>3, <1>10, <1>11, <1>13, <1>14, <1>17 DEF Changes
  <2>7. Shape(x, prog[t])'
    <3>1. Len(prog'[t]) = 2 /\ prog'[t][1] = a /\ prog'[t][2] = b
      BY <1>9
    <3>2. Fills(x, a)'
      BY <2>3, <2>5, <2>6, <1>8, <1>10 DEF Fills, Good, Writes, EVal, LastLe, LastCell
    <3>3. Changes(x, b)'
      BY <2>6 DEF Changes, LastCell, CellOps, CVal
    <3> QED BY <3>1, <3>2, <3>3, <2>6 DEF Shape, Fills, Changes
  <2> QED BY <2>1, <2>2, <2>7, <1>7, <1>12, <1>14, <1>16 DEF TxOK
<1>21. ASSUME ~overrun' PROVE LogOf(t)' /\ OldOf(t)'
  <2>1. LogOf(t) /\ OldOf(t)
    BY <1>3, <1>6, <1>21
  <2>2. OldOf(t)'
    <3>1. Logged(tx[t]) \subseteq Logged(x)
      BY <1>13, <1>14 DEF Logged
    <3> QED BY <1>1, <1>12, <1>14, <2>1, <3>1 DEF OldOf
  <2>3. ASSUME NEW k \in 1..Len(x.logged)
        PROVE  \/ Good(x, Entry(x.start + k - 1), x.logged[k])'
               \/ k = Len(x.logged) /\ Len(prog'[t]) = 2 /\ prog'[t][1] # Barrier
    <3>1. CASE k = Len(x.logged)
      BY <3>1, <1>9, <1>10
    <3>2. CASE k # Len(x.logged)
      <4>1. k \in 1..Len(tx[t].logged) /\ x.logged[k] = tx[t].logged[k]
        BY <3>2, <1>13, <1>14
      <4>2. Good(tx[t], Entry(tx[t].start + k - 1), tx[t].logged[k])
        BY <4>1, <2>1, <1>1 DEF LogOf
      <4>3. Entry(x.start + k - 1)' = Entry(tx[t].start + k - 1)
        BY <1>1, <1>14 DEF Entry
      <4> QED BY <4>1, <4>2, <4>3, <1>3, <1>14, <1>21 DEF Good
    <3> QED BY <3>1, <3>2
  <2> QED BY <2>2, <2>3, <1>12 DEF LogOf
<1>22. /\ tx'[t] # Idle => tx'[t].cells = tx[t].cells
       /\ Holds(t)' => Holds(t) /\ Reserved(t)' = Reserved(t)
       /\ Runs(t)' /\ mode = "up"
  BY <1>1, <1>12, <1>14, <1>16, <1>18 DEF Runs
<1> HIDE DEF IInv
<1> QED BY <1>1, <1>6, <1>9, <1>12, <1>15, <1>16, <1>19, <1>20, <1>21, <1>22, RunnerStep, Zenon

\* Only the state of a transaction changes.
LEMMA TxGoesOn ==
    ASSUME NEW t \in Threads, tx \in [Threads -> Tx \cup {Idle}], tx[t] \in Tx,
           NEW p \in {"open", "committing", "aborting"}, tx' = [tx EXCEPT ![t].pc = p]
    PROVE  /\ tx' \in [Threads -> Tx \cup {Idle}] /\ tx'[t] \in Tx /\ tx'[t].pc = p
           /\ tx'[t].cells = tx[t].cells /\ tx'[t].logged = tx[t].logged
           /\ tx'[t].old = tx[t].old /\ tx'[t].n = tx[t].n /\ tx'[t].start = tx[t].start
           /\ tx'[t].gen = tx[t].gen /\ tx'[t].new = tx[t].new
           /\ Reserved(t)' = Reserved(t) /\ ~Waiting(t)' /\ Running(t)'
           /\ \A u \in Threads : u # t => tx'[u] = tx[u]
<1>1. tx'[t] = [tx[t] EXCEPT !.pc = p] /\ \A u \in Threads : u # t => tx'[u] = tx[u]
  OBVIOUS
<1>2. tx'[t] \in Tx
  BY <1>1, TxUpdate
<1>3. tx' \in [Threads -> Tx \cup {Idle}]
  BY <1>1, <1>2
<1>4. /\ tx'[t].cells = tx[t].cells /\ tx'[t].logged = tx[t].logged
      /\ tx'[t].old = tx[t].old /\ tx'[t].n = tx[t].n /\ tx'[t].start = tx[t].start
      /\ tx'[t].gen = tx[t].gen /\ tx'[t].new = tx[t].new /\ tx'[t].pc = p
  BY <1>1 DEF Tx
<1> QED BY <1>1, <1>2, <1>3, <1>4 DEF Reserved, Waiting, Running

\* What a transaction may write stays what it may write.
LEMMA RunOpsGrow ==
    ASSUME NEW t \in Threads, tx[t] \in Tx, overrun => overrun',
           tx'[t].cells = tx[t].cells, Reserved(t)' = Reserved(t), Reserved(t) \subseteq Pos
    PROVE  RunOps(t) \subseteq RunOps(t)' /\ RunOps(t)' \subseteq Ops
<1>1. tx[t].cells \subseteq Cells
  BY TxFields
<1>2. CellOps(IF overrun THEN Cells ELSE tx[t].cells)
        \subseteq CellOps(IF overrun' THEN Cells ELSE tx'[t].cells)
  BY <1>1 DEF CellOps
<1>3. RunOps(t) \subseteq RunOps(t)'
  BY <1>2 DEF RunOps, FenceOps, Barrier, Nothing, EntryOps, Writes, CellOps, CVal
<1>4. CellOps(IF overrun' THEN Cells ELSE tx'[t].cells) \subseteq CellOps(Cells)
  BY <1>1 DEF CellOps
<1>5. EntryOps(Reserved(t)) \subseteq EntryOps(Pos)
  BY DEF EntryOps
<1>6. RunOps(t)' \subseteq Ops
  BY <1>4, <1>5 DEF RunOps, Ops, FenceOps, Barrier, Nothing, EntryOps, CellOps
<1> QED BY <1>3, <1>6

\* A transaction ends once the sequence of its last writes is fixed.
LEMMA LastWrites ==
    ASSUME IInv, History, NEW t \in Threads, mode = "up", tx[t].pc = "open", prog[t] = <<>>,
           NEW p \in {"committing", "aborting"}, tx' = [tx EXCEPT ![t].pc = p],
           NEW s \in Seq(RunOps(t)), prog' = [prog EXCEPT ![t] = s],
           mem' = mem, loop' = loop, mutex' = mutex, awake' = awake, mode' = mode, txs' = txs
    PROVE  IInv'
<1> USE DEF IInv
<1>1. tx \in [Threads -> Tx \cup {Idle}] /\ tx[t] \in Tx /\ prog \in [CPUs -> Seq(Ops)] /\ t \in CPUs
  BY JournalAssumption DEF Types, Idle
<1>2. Running(t) /\ Holds(t) /\ TxOK(t)
  BY DEF Running, Holds, Transactions
<1>3. /\ tx' \in [Threads -> Tx \cup {Idle}] /\ tx'[t] \in Tx /\ tx'[t].pc = p
      /\ tx'[t].cells = tx[t].cells /\ tx'[t].logged = tx[t].logged
      /\ tx'[t].old = tx[t].old /\ tx'[t].n = tx[t].n /\ tx'[t].start = tx[t].start
      /\ tx'[t].gen = tx[t].gen
      /\ Reserved(t)' = Reserved(t) /\ ~Waiting(t)' /\ Running(t)'
      /\ \A u \in Threads : u # t => tx'[u] = tx[u]
  BY <1>1, TxGoesOn
<1>4. prog'[t] = s /\ \A u \in CPUs : u # t => prog'[u] = prog[u]
  BY <1>1
<1>5. overrun => overrun'
  BY HistoryOK DEF Types
<1>6. /\ tx[t].start + tx[t].n < JSize /\ DOMAIN tx[t].old = tx[t].cells /\ tx[t].gen # 0
      /\ Logged(tx[t]) \subseteq tx[t].cells /\ Len(tx[t].logged) <= tx[t].n
  BY <1>1, <1>2, TxFields DEF TxOK
<1>7. Reserved(t) \subseteq Pos
  BY <1>1, <1>6, TxFields, JournalAssumption DEF Reserved, Pos
<1>8. RunOps(t) \subseteq RunOps(t)' /\ RunOps(t)' \subseteq Ops
  BY <1>1, <1>3, <1>5, <1>7, RunOpsGrow
<1>9. s \in Seq(RunOps(t)') /\ s \in Seq(Ops)
  BY <1>8, SeqSub
<1>10. prog' \in [CPUs -> Seq(Ops)]
  BY <1>1, <1>9
<1>11. Runs(t)'
  BY <1>4, <1>9 DEF Runs
<1>12. TxOK(t)'
  BY <1>3, <1>6 DEF TxOK, Logged
<1>13. LogOf(t)' /\ OldOf(t)'
  BY <1>3 DEF LogOf, OldOf
<1> HIDE DEF IInv
<1> QED BY <1>2, <1>3, <1>4, <1>10, <1>11, <1>12, <1>13, RunnerStep, Zenon

\* A transaction commits: pmfs_commit_transaction.
LEMMA CommitOK ==
    ASSUME IInv, NEW t \in Threads, pmfs_commit_transaction(t), History
    PROVE  IInv'
<1>1. /\ mode = "up" /\ tx[t].pc = "open" /\ prog[t] = <<>> /\ Len(tx[t].logged) < tx[t].n
      /\ mem' = mem /\ loop' = loop /\ mutex' = mutex /\ awake' = awake /\ mode' = mode /\ txs' = txs
      /\ tx' = [tx EXCEPT ![t].pc = "committing"]
      /\ prog' = [prog EXCEPT ![t] = pmfs_commit_logentry(tx[t])]
  BY DEF pmfs_commit_transaction, Started, Up, Ready
<1>2. tx[t] \in Tx /\ MemOK(mem)
  BY <1>1 DEF Types, Idle, IInv
<1>3. tx[t].start + tx[t].n < JSize /\ tx[t].start \in Nat /\ tx[t].n \in Nat /\ Len(tx[t].logged) \in Nat
  BY <1>1, <1>2, TxFields DEF IInv, Transactions, TxOK, Running
<1> DEFINE logged == {k \in (tx[t].start)..(tx[t].start + Len(tx[t].logged) - 1) : Entry(k).addr # None}
<1>4. PICK e, l, o3, o1, c3, c1, a, b :
        /\ e = FillEntry(tx[t], None, {"commit"}) /\ l = NextLe(tx[t])
        /\ o3 = <<"addr", "data", "type">> /\ o1 = <<"gen">>
        /\ c3 = {Cell(Entry(k).addr) : k \in logged} /\ c1 = {l}
        /\ a = Write(l, o3, e, c3, TRUE) /\ b = Write(l, o1, e, c1, TRUE)
  OBVIOUS
<1>5. /\ e \in EVal /\ tx[t].start + Len(tx[t].logged) \in Reserved(t)
      /\ Reserved(t) \subseteq Pos /\ l \in Lines /\ l = Le(tx[t].start + Len(tx[t].logged))
  <2>1. PICK ty, n : ty = {"commit"} /\ n = None
    OBVIOUS
  <2>2. ty \in SUBSET {"commit", "abort"} /\ n \in Cells \cup {None} /\ e = FillEntry(tx[t], n, ty)
    BY <1>4, <2>1
  <2>3. /\ e \in EVal /\ tx[t].start + Len(tx[t].logged) \in Reserved(t)
        /\ Reserved(t) \subseteq Pos /\ NextLe(tx[t]) \in Lines
        /\ NextLe(tx[t]) = Le(tx[t].start + Len(tx[t].logged))
    <3> HIDE DEF logged
    <3> QED BY <1>1, <1>2, <1>3, <2>2, FillOK, Zenon
  <2> QED BY <1>4, <2>3, Zenon
<1>6. c3 \in SUBSET Lines /\ c1 \in SUBSET Lines
  <2>1. ASSUME NEW k \in logged PROVE Cell(Entry(k).addr) \in Lines
    <3>1. k \in Pos
      BY <1>1, <1>3, JournalAssumption DEF Pos
    <3>2. Entry(k) \in EVal
      BY <1>2, <3>1, Values DEF Entry
    <3>3. Entry(k).addr \in Cells
      BY <3>2 DEF EVal
    <3> QED BY <3>3, LineKinds
  <2> HIDE DEF logged
  <2> QED BY <1>4, <1>5, <2>1
<1> HIDE DEF logged
<1>7. /\ a \in Writes /\ a.l = l /\ a.order = o3 /\ a.r = e
      /\ b \in Writes /\ b.l = l /\ b.order = o1 /\ b.r = e
  <2>1. PICK bar : bar = TRUE
    OBVIOUS
  <2>2. bar \in BOOLEAN /\ e \in Recs /\ o3 \in Seq(Fields) /\ o1 \in Seq(Fields)
    BY <1>4, <1>5, <2>1, Orders DEF Recs
  <2>3. a = Write(l, o3, e, c3, bar) /\ b = Write(l, o1, e, c1, bar)
    BY <1>4, <2>1
  <2> QED BY <1>5, <1>6, <2>2, <2>3, WriteOK
<1>8. a \in RunOps(t) /\ b \in RunOps(t)
  BY <1>4, <1>5, <1>7 DEF RunOps, EntryOps
<1>9. <<a, b>> \in Seq(RunOps(t)) /\ pmfs_commit_logentry(tx[t]) = <<a, b>>
  <2>1. <<a, b>> \in Seq(RunOps(t))
    BY <1>8
  <2>2. pmfs_commit_logentry(tx[t]) = <<a, b>>
    BY <1>4, Zenon DEF pmfs_commit_logentry, logged
  <2> QED BY <2>1, <2>2
<1>10. PICK s, p : s = <<a, b>> /\ p = "committing"
  OBVIOUS
<1> QED BY <1>1, <1>9, <1>10, LastWrites

\* Undoing an entry writes the cell it names, or nothing.
LEMMA UndoOp ==
    ASSUME NEW C \in SUBSET Cells, NEW e \in EVal, e.addr \in C \cup {None}
    PROVE  pmfs_undo_logentry(e) \in FenceOps \cup CellOps(C)
<1>1. CASE e.addr = None
  BY <1>1 DEF pmfs_undo_logentry, FenceOps
<1>2. CASE e.addr # None
  <2>1. PICK l, ord, r, cl, bar : /\ l = Cell(e.addr) /\ ord = <<"v">> /\ r = [v |-> e.data]
                                  /\ cl = {l} /\ bar = FALSE
    OBVIOUS
  <2>2. e.addr \in Cells /\ e.addr \in C /\ l \in Lines /\ cl \in SUBSET Lines
    BY <1>2, <2>1, LineKinds
  <2>3. r \in CVal /\ r \in Recs /\ ord \in Seq(Fields) /\ bar \in BOOLEAN
    BY <2>1, Orders DEF EVal, CVal, Recs
  <2>4. PICK o : o = Write(l, ord, r, cl, bar)
    OBVIOUS
  <2>5. o \in Writes /\ o.l = l /\ o.order = ord /\ o.r = r
    BY <2>2, <2>3, <2>4, WriteOK
  <2>6. pmfs_undo_logentry(e) = o
    BY <1>2, <2>1, <2>4 DEF pmfs_undo_logentry
  <2> QED BY <2>1, <2>2, <2>3, <2>5, <2>6 DEF CellOps
<1> QED BY <1>1, <1>2

\* A transaction undoes what it did: pmfs_abort_transaction.
LEMMA AbortOK ==
    ASSUME IInv, NEW t \in Threads, pmfs_abort_transaction(t), History
    PROVE  IInv'
<1> DEFINE x == tx[t]
           high == x.start + Len(x.logged) - 1
           u == pmfs_undo_transaction(x.start, high, x.gen)
<1>1. /\ mode = "up" /\ x.pc = "open" /\ prog[t] = <<>> /\ Len(x.logged) < x.n
      /\ mem' = mem /\ loop' = loop /\ mutex' = mutex /\ awake' = awake /\ mode' = mode /\ txs' = txs
      /\ tx' = [tx EXCEPT ![t].pc = "aborting"]
      /\ prog' = [prog EXCEPT ![t] = u \o <<Barrier>> \o pmfs_add_logentry(x, None, {"abort"})]
  BY DEF pmfs_abort_transaction, Started, Up, Ready
<1>2. x \in Tx /\ MemOK(mem) /\ overrun \in BOOLEAN
  BY <1>1 DEF Types, Idle, IInv
<1>3. /\ x.start + x.n < JSize /\ x.start \in Nat /\ x.n \in Nat /\ Len(x.logged) \in Nat
      /\ x.logged \in Seq(Cells) /\ Logged(x) \subseteq x.cells /\ x.cells \subseteq Cells
  BY <1>1, <1>2, TxFields DEF IInv, Transactions, TxOK, Running
<1>4. ~overrun => LogOf(t)
  BY DEF IInv, Safe
<1>5. PICK e, l, ord, cl, bar : /\ e = FillEntry(x, None, {"abort"}) /\ l = NextLe(x)
                                /\ ord = LeFields /\ cl = {l} /\ bar = TRUE
  OBVIOUS
<1>6. /\ e \in EVal /\ x.start + Len(x.logged) \in Reserved(t)
      /\ Reserved(t) \subseteq Pos /\ l \in Lines /\ l = Le(x.start + Len(x.logged))
  <2>1. PICK ty, n : ty = {"abort"} /\ n = None
    OBVIOUS
  <2>2. ty \in SUBSET {"commit", "abort"} /\ n \in Cells \cup {None} /\ e = FillEntry(x, n, ty)
    BY <1>5, <2>1
  <2>3. /\ e \in EVal /\ x.start + Len(x.logged) \in Reserved(t)
        /\ Reserved(t) \subseteq Pos /\ NextLe(x) \in Lines
        /\ NextLe(x) = Le(x.start + Len(x.logged))
    BY <1>1, <1>2, <1>3, <2>2, FillOK, Zenon
  <2> QED BY <1>5, <2>3, Zenon
<1>7. PICK a : a = Write(l, ord, e, cl, bar)
  OBVIOUS
<1>8. a \in Writes /\ a.l = l /\ a.order = ord /\ a.r = e
  <2>1. cl \in SUBSET Lines /\ e \in Recs /\ ord \in Seq(Fields) /\ bar \in BOOLEAN
    BY <1>5, <1>6, Orders DEF Recs
  <2> QED BY <1>6, <1>7, <2>1, WriteOK
<1>9. a \in RunOps(t) /\ Barrier \in RunOps(t)
  BY <1>5, <1>6, <1>8 DEF RunOps, EntryOps, FenceOps
<1> DEFINE C == IF overrun THEN Cells ELSE x.cells
           n == high - x.start + 1
<1>N. PICK first, len : first = x.start /\ len = Len(x.logged)
  OBVIOUS
<1>M. first \in Nat /\ len \in Nat /\ first + len < JSize /\ JSize \in Nat
  BY <1>1, <1>3, <1>N, JournalAssumption
<1>10. n \in Nat /\ n = len
  <2>1. high = first + len - 1
    BY <1>N
  <2>2. n = high - first + 1
    <3> HIDE DEF high
    <3> QED BY <1>N
  <2> HIDE DEF high
  <2> HIDE DEF n, x
  <2> QED BY <2>1, <2>2, <1>M
<1>11. ASSUME NEW k \in 1..n PROVE u[k] \in RunOps(t)
  <2> DEFINE i == high + 1 - k
  <2>1. u[k] = IF Valid(i, x.gen) THEN pmfs_undo_logentry(Entry(i)) ELSE Nothing
    BY DEF pmfs_undo_transaction
  <2>2. i \in Pos /\ i - x.start + 1 \in 1..Len(x.logged) /\ i = x.start + (i - x.start + 1) - 1
    <3>1. i = first + len - k /\ k \in 1..len
      <4>1. i = first + len - 1 + 1 - k
        BY <1>N
      <4> HIDE DEF i, n, x
      <4> QED BY <4>1, <1>M, <1>10
    <3>2. i \in 0..JSize-1 /\ i - first + 1 \in 1..len /\ i = first + (i - first + 1) - 1
      <4> HIDE DEF i, n, x
      <4> QED BY <3>1, <1>M
    <3> QED BY <3>2, <1>N DEF Pos
  <2> HIDE DEF i, high, u
  <2>3. Entry(i) \in EVal
    BY <1>2, <2>2, Values DEF Entry
  <2>4. Entry(i).addr \in C \cup {None}
    <3>1. CASE overrun
      BY <3>1, <2>3 DEF EVal
    <3>2. CASE ~overrun
      <4>1. PICK q : q = i - x.start + 1
        OBVIOUS
      <4>2. q \in 1..Len(x.logged) /\ i = x.start + q - 1 /\ prog[t] = <<>> /\ Len(<<>>) = 0
        BY <4>1, <2>2, <1>1
      <4>3. Good(x, Entry(x.start + q - 1), x.logged[q])
        BY <4>2, <3>2, <1>1, <1>4 DEF LogOf
      <4>4. x.logged[q] \in x.cells
        BY <4>2, <1>3 DEF Logged
      <4> QED BY <4>2, <4>3, <4>4, <3>2 DEF Good
    <3> QED BY <3>1, <3>2, <1>2
  <2>5. C \in SUBSET Cells
    BY <1>3
  <2>6. PICK D, f : D = C /\ f = Entry(i)
    OBVIOUS
  <2>7. pmfs_undo_logentry(f) \in FenceOps \cup CellOps(D)
    BY <2>3, <2>4, <2>5, <2>6, UndoOp
  <2>8. u[k] \in FenceOps \cup CellOps(C)
    BY <2>1, <2>6, <2>7 DEF FenceOps
  <2> QED BY <2>8 DEF RunOps
<1>12. u \in Seq(RunOps(t))
  <2>1. u = [k \in 1..n |-> u[k]]
    BY DEF pmfs_undo_transaction
  <2> HIDE DEF u, n
  <2> QED BY <1>10, <1>11, <2>1, MakeSeq
<1> HIDE DEF u, n, high, C
<1>13. <<Barrier>> \in Seq(RunOps(t)) /\ <<a>> \in Seq(RunOps(t))
  BY <1>9
<1>14. pmfs_add_logentry(x, None, {"abort"}) = <<a>>
  BY <1>5, <1>7 DEF pmfs_add_logentry
<1>15. PICK s, p, b, w : /\ s = u \o b \o w /\ p = "aborting" /\ b = <<Barrier>> /\ w = <<a>>
  OBVIOUS
<1>16. s \in Seq(RunOps(t))
  <2>1. b \in Seq(RunOps(t)) /\ w \in Seq(RunOps(t))
    BY <1>13, <1>15
  <2> QED BY <1>12, <1>15, <2>1
<1>17. p \in {"committing", "aborting"} /\ prog' = [prog EXCEPT ![t] = s] /\ tx' = [tx EXCEPT ![t].pc = p]
  BY <1>1, <1>14, <1>15, Zenon
<1> QED BY <1>1, <1>16, <1>17, LastWrites

\* The call returns: Return.
LEMMA ReturnOK ==
    ASSUME IInv, NEW t \in Threads, Return(t), History
    PROVE  IInv'
<1> USE DEF IInv
<1>1. /\ mode = "up" /\ tx[t].pc \in {"committing", "aborting"} /\ prog[t] = <<>>
      /\ mem' = mem /\ loop' = loop /\ mutex' = mutex /\ awake' = awake /\ mode' = mode /\ txs' = txs
      /\ tx' = [tx EXCEPT ![t] = Idle] /\ prog' = prog
  BY DEF Return, Started, Up, Ready
<1>2. tx \in [Threads -> Tx \cup {Idle}] /\ prog \in [CPUs -> Seq(Ops)] /\ Running(t)
  BY <1>1 DEF Types, Running
<1>3. /\ tx'[t] = Idle /\ tx'[t].pc = "idle" /\ (\A u \in Threads : u # t => tx'[u] = tx[u])
      /\ tx' \in [Threads -> Tx \cup {Idle}]
  BY <1>1, <1>2 DEF Idle
<1>4. ~Waiting(t)' /\ Runs(t)' /\ TxOK(t)' /\ ~Holds(t)' /\ LogOf(t)' /\ OldOf(t)'
  BY <1>3 DEF Waiting, Runs, Running, TxOK, Holds, LogOf, OldOf
<1>5. \A u \in CPUs : prog'[u] = prog[u]
  BY <1>1
<1>6. prog' \in [CPUs -> Seq(Ops)] /\ prog'[t] = <<>>
  BY <1>1, <1>2
<1> HIDE DEF IInv
<1> QED BY <1>1, <1>2, <1>3, <1>4, <1>5, <1>6, RunnerStep, Zenon

------------------------------------------------------------------------------
(* The log cleaner's thread, unmount, power failure, mount.                     *)

\* The parts of the invariant a step has to restore that leaves the memory, the
\* transactions and what the threads in them execute alone.
LEMMA LoopStep ==
    ASSUME IInv, History, NEW c \in CPUs, mem' = mem, tx' = tx,
           \A u \in CPUs : u # c => prog'[u] = prog[u],
           c \in Threads => ~Running(c) \/ prog'[c] = prog[c],
           Types', Control', Cleaning' => prog'[mutex'] \in Seq(CleanOps'),
           \A u \in CPUs : prog'[u] # <<>> =>
                \/ mutex' = u /\ Cleaning'
                \/ u = Cleaner /\ mode' = "recovering"
                \/ u \in Threads /\ Running(u)'
    PROVE  IInv'
<1>1. \A u \in Threads : u \in CPUs /\ u # Cleaner
  BY JournalAssumption
<1>2. /\ overrun' \in BOOLEAN /\ (overrun => overrun')
      /\ ~overrun' => ~overrun /\ ReservedKept'
  BY HistoryOK DEF IInv, Types
<1>3. \A u \in Threads : Runs(u)' /\ TxOK(u)' /\ (~overrun' => LogOf(u)' /\ OldOf(u)')
  <2>1. CASE c \in Threads /\ prog'[c] # prog[c]
    <3>1. \A u \in Threads : u # c => /\ Runs(u)' /\ TxOK(u)'
                                      /\ ~overrun' => LogOf(u)' /\ OldOf(u)'
      BY <1>1, Others
    <3>2. ~Running(c) /\ TxOK(c) /\ (~overrun => LogOf(c) /\ OldOf(c))
      BY <2>1 DEF IInv, Transactions, Safe
    <3>3. Runs(c)' /\ TxOK(c)'
      BY <3>2 DEF Runs, Running, TxOK, Waiting, Logged
    <3>4. ~overrun' => LogOf(c)' /\ OldOf(c)'
      BY <3>2, <1>2 DEF LogOf, OldOf, Running, Logged
    <3> QED BY <3>1, <3>3, <3>4
  <2>2. CASE ~(c \in Threads /\ prog'[c] # prog[c])
    <3>1. \A u \in Threads : u # Cleaner => tx'[u] = tx[u] /\ prog'[u] = prog[u]
      BY <2>2, <1>1
    <3>2. \A u \in Threads : u # Cleaner => /\ Runs(u)' /\ TxOK(u)'
                                            /\ ~overrun' => LogOf(u)' /\ OldOf(u)'
      BY <3>1, Others
    <3> QED BY <3>2, <1>1
  <2> QED BY <2>1, <2>2
<1>4. Programs' /\ Transactions' /\ CellsApart'
  BY <1>3 DEF Programs, Transactions, CellsApart, IInv
<1>5. ASSUME ~overrun' PROVE RangesApart'
  <2>1. ASSUME NEW u \in Threads, Holds(u)' PROVE Holds(u) /\ Reserved(u)' = Reserved(u)
    <3>1. Reserved(u)' = Reserved(u)
      BY DEF Reserved
    <3>2. Running(u)
      BY <2>1 DEF Holds, Running
    <3>3. prog'[u] = prog[u]
      BY <3>2, <1>1
    <3> QED BY <2>1, <3>1, <3>3 DEF Holds
  <2> QED BY <2>1, <1>2, <1>5, RangesKept DEF IInv, Safe
<1>6. Safe'
  BY <1>2, <1>3, <1>5 DEF Safe
<1> QED BY <1>4, <1>6 DEF IInv

\* The log cleaner wakes up: LogCleaner.
LEMMA LogCleanerOK ==
    ASSUME IInv, LogCleaner, History
    PROVE  IInv'
<1> USE DEF IInv
<1>1. /\ mode = "up" /\ mutex = None /\ loop' = pmfs_clean_journal /\ mutex' = Cleaner
      /\ awake' = FALSE /\ mem' = mem /\ prog' = prog /\ tx' = tx /\ mode' = mode /\ txs' = txs
  BY DEF LogCleaner, Up
<1>2. loop' \in CleanLoop /\ loop'.pc = "clean" /\ loop'.tail = Cur(mem, Jnl).tail
  BY <1>1, CleanStart DEF Types
<1>3. overrun' \in BOOLEAN /\ Cleaner \in CPUs /\ Cleaner \notin Threads /\ Cleaner # None
  BY HistoryOK, JournalAssumption DEF Types
<1>4. Types'
  BY <1>1, <1>2, <1>3 DEF Types
<1>5. \A t \in Threads : ~Waiting(t)
  BY <1>1, JournalAssumption DEF Control
<1>6. Control'
  BY <1>1, <1>2, <1>3, <1>5 DEF Control, Waiting, Cleaning
<1>7. \A u \in CPUs : prog[u] # <<>> => u \in Threads /\ Running(u)
  BY <1>1, JournalAssumption DEF Programs
<1>8. prog'[mutex'] \in Seq(CleanOps')
  BY <1>1, <1>3, <1>7, EmptyOver
<1>9. \A u \in CPUs : prog'[u] # <<>> =>
                \/ mutex' = u /\ Cleaning'
                \/ u = Cleaner /\ mode' = "recovering"
                \/ u \in Threads /\ Running(u)'
  BY <1>1, <1>7 DEF Running
<1>10. (\A u \in CPUs : prog'[u] = prog[u])
  BY <1>1
<1> HIDE DEF IInv
<1> QED BY <1>1, <1>3, <1>4, <1>6, <1>8, <1>9, <1>10, LoopStep, Zenon

\* The log cleaner is through: CleanerDone.
LEMMA CleanerDoneOK ==
    ASSUME IInv, CleanerDone, History
    PROVE  IInv'
<1> USE DEF IInv
<1>1. /\ mutex = Cleaner /\ loop.pc = "left" /\ prog[Cleaner] = <<>> /\ mutex' = None
      /\ loop' = NoLoop /\ mode' = (IF mode = "unmounting" THEN "unmounted" ELSE mode)
      /\ awake' = awake /\ mem' = mem /\ prog' = prog /\ tx' = tx /\ txs' = txs
  BY DEF CleanerDone, Ready
<1>2. mode \in {"up", "unmounting"} /\ mode' \in {"up", "unmounted"} /\ (mode' = "up" => mode = "up")
  BY <1>1 DEF Control
<1>3. overrun' \in BOOLEAN /\ Cleaner \in CPUs /\ Cleaner \notin Threads /\ Cleaner # None
  BY HistoryOK, JournalAssumption DEF Types
<1>4. Types'
  BY <1>1, <1>2, <1>3 DEF Types
<1>5. \A t \in Threads : ~Waiting(t)
  BY <1>1, <1>3 DEF Control
<1>6. ~Cleaning' /\ loop'.pc \notin {"undo", "undone"}
  BY <1>1 DEF Cleaning, NoLoop
<1>7. Control'
  <2>1. \A t \in Threads : (mutex' = t) <=> Waiting(t)'
    BY <1>1, <1>5, JournalAssumption DEF Waiting
  <2>2. mode' # "up" => tx' = [t \in Threads |-> Idle]
    BY <1>1, <1>2 DEF Control
  <2> QED BY <1>1, <1>2, <1>3, <1>6, <2>1, <2>2 DEF Control
<1>8. \A u \in CPUs : prog[u] # <<>> => u \in Threads /\ Running(u)
  BY <1>1, <1>2 DEF Programs
<1>9. \A u \in CPUs : prog'[u] # <<>> =>
                \/ mutex' = u /\ Cleaning'
                \/ u = Cleaner /\ mode' = "recovering"
                \/ u \in Threads /\ Running(u)'
  BY <1>1, <1>8 DEF Running
<1>10. (\A u \in CPUs : prog'[u] = prog[u])
  BY <1>1
<1> HIDE DEF IInv
<1> QED BY <1>1, <1>3, <1>4, <1>6, <1>7, <1>9, <1>10, LoopStep, Zenon

\* Unmount.
LEMMA UnmountOK ==
    ASSUME IInv, Unmount, History
    PROVE  IInv'
<1> USE DEF IInv
<1>1. /\ mode = "up" /\ mutex = None /\ loop' = pmfs_clean_journal /\ mutex' = Cleaner
      /\ awake' = FALSE /\ mem' = mem /\ prog' = prog /\ tx' = tx /\ mode' = "unmounting"
      /\ txs' = txs /\ \A t \in Threads : tx[t].pc = "idle"
  BY DEF Unmount, Up
<1>2. loop' \in CleanLoop /\ loop'.pc = "clean" /\ loop'.tail = Cur(mem, Jnl).tail
  BY <1>1, CleanStart DEF Types
<1>3. overrun' \in BOOLEAN /\ Cleaner \in CPUs /\ Cleaner \notin Threads /\ Cleaner # None
  BY HistoryOK, JournalAssumption DEF Types
<1>4. Types'
  BY <1>1, <1>2, <1>3 DEF Types
<1>5. tx = [t \in Threads |-> Idle]
  <2>1. tx \in [Threads -> Tx \cup {Idle}]
    BY DEF Types
  <2>2. \A t \in Threads : tx[t] = Idle
    BY <1>1, <2>1, TxFields
  <2> QED BY <2>1, <2>2
<1>6. Control'
  BY <1>1, <1>2, <1>3, <1>5 DEF Control, Waiting, Cleaning, Idle
<1>7. \A u \in CPUs : prog[u] = <<>>
  BY <1>1, JournalAssumption DEF Programs, Running
<1>8. prog'[mutex'] \in Seq(CleanOps')
  BY <1>1, <1>3, <1>7, EmptyOver
<1>9. \A u \in CPUs : prog'[u] # <<>> =>
                \/ mutex' = u /\ Cleaning'
                \/ u = Cleaner /\ mode' = "recovering"
                \/ u \in Threads /\ Running(u)'
  BY <1>1, <1>7
<1>10. (\A u \in CPUs : prog'[u] = prog[u])
  BY <1>1
<1> HIDE DEF IInv
<1> QED BY <1>1, <1>3, <1>4, <1>6, <1>8, <1>9, <1>10, LoopStep, Zenon

\* While nothing is mounted nobody is in a call.
LEMMA NotMounted ==
    ASSUME IInv, mode \notin {"up", "unmounting"}
    PROVE  /\ mutex = None /\ ~Cleaning /\ tx = [t \in Threads |-> Idle]
           /\ \A t \in Threads : ~Waiting(t) /\ ~Running(t)
           /\ \A u \in CPUs : prog[u] # <<>> => u = Cleaner /\ mode = "recovering"
<1> USE DEF IInv
<1>1. mutex = None /\ ~Cleaning /\ tx = [t \in Threads |-> Idle]
  BY DEF Control
<1>2. \A t \in Threads : tx[t].pc = "idle"
  BY <1>1 DEF Idle
<1>3. \A t \in Threads : ~Waiting(t) /\ ~Running(t)
  BY <1>2 DEF Waiting, Running
<1> QED BY <1>1, <1>3 DEF Programs

\* The steps of a mount: Mount, RecoveryDone, Resume.
LEMMA MountOK ==
    ASSUME IInv, History, Mount \/ RecoveryDone \/ Resume
    PROVE  IInv'
<1> USE DEF IInv
<1>1. /\ mem' = mem /\ prog' = prog /\ tx' = tx /\ mutex' = mutex /\ awake' = awake /\ txs' = txs
      /\ mode \notin {"up", "unmounting"}
  BY DEF Mount, RecoveryDone, Resume
<1>2. /\ mutex = None /\ ~Cleaning /\ tx = [t \in Threads |-> Idle]
      /\ \A t \in Threads : ~Waiting(t) /\ ~Running(t)
      /\ \A u \in CPUs : prog[u] # <<>> => u = Cleaner /\ mode = "recovering"
  BY <1>1, NotMounted
<1>3. /\ loop' \in CleanLoop \cup UndoLoop \cup {NoLoop} /\ ~Cleaning'
      /\ (loop'.pc \in {"undo", "undone"}) <=> (mode' = "recovering")
      /\ mode' \in {"up", "recovering", "recovered"}
      /\ mode' # "recovering" => \A u \in CPUs : prog[u] = <<>>
  <2>1. CASE Mount
    <3> DEFINE j == Cur(mem, Jnl)
    <3>1. j.head \in Pos /\ j.tail \in Pos /\ j.gen \in 1..MaxGen
      BY Values DEF Types, JVal
    <3>2. loop = NoLoop
      BY <2>1, <1>2, LoopFields DEF Mount, Types, Control
    <3>3. pmfs_recover_undo_journal \in UndoLoop /\ pmfs_recover_undo_journal.pc = "undo"
      BY <3>1 DEF pmfs_recover_undo_journal, UndoLoop
    <3>4. \/ mode' = "recovered" /\ loop' = loop
          \/ mode' = "recovering" /\ loop' = pmfs_recover_undo_journal
      BY <2>1 DEF Mount
    <3>5. \A u \in CPUs : prog[u] = <<>>
      BY <2>1, <1>2 DEF Mount
    <3> QED BY <3>2, <3>3, <3>4, <3>5 DEF Cleaning, NoLoop
  <2>2. CASE RecoveryDone
    BY <2>2, <1>2 DEF RecoveryDone, Cleaning, NoLoop, Ready
  <2>3. CASE Resume
    BY <2>3, <1>2 DEF Resume, Cleaning, Types, Control
  <2> QED BY <2>1, <2>2, <2>3
<1>4. overrun' \in BOOLEAN /\ Cleaner \in CPUs /\ Cleaner # None
  BY HistoryOK, JournalAssumption DEF Types
<1>5. Types'
  BY <1>1, <1>3, <1>4 DEF Types
<1>6. Control'
  <2>1. \A t \in Threads : (mutex' = t) <=> Waiting(t)'
    BY <1>1, <1>2, JournalAssumption DEF Waiting
  <2> QED BY <1>1, <1>2, <1>3, <1>4, <2>1 DEF Control
<1>7. \A u \in CPUs : prog'[u] # <<>> =>
                \/ mutex' = u /\ Cleaning'
                \/ u = Cleaner /\ mode' = "recovering"
                \/ u \in Threads /\ Running(u)'
  BY <1>1, <1>2, <1>3
<1>8. (\A u \in CPUs : prog'[u] = prog[u])
  BY <1>1
<1> HIDE DEF IInv
<1> QED BY <1>1, <1>3, <1>4, <1>5, <1>6, <1>7, <1>8, LoopStep, Zenon

Rest ==
    /\ MemOK(mem) /\ prog = [c \in CPUs |-> <<>>] /\ tx = [t \in Threads |-> Idle]
    /\ loop = NoLoop /\ mutex = None /\ awake = FALSE /\ mode \in {"up", "down"}
    /\ txs \in 0..MaxTx /\ overrun \in BOOLEAN

\* With nobody in a call and nothing executed, a well-formed memory is enough.
LEMMA AtRest == Rest => IInv
<1> SUFFICES ASSUME Rest PROVE IInv
  OBVIOUS
<1> USE DEF Rest
<1>1. \A t \in Threads : tx[t] = Idle /\ tx[t].pc = "idle" /\ prog[t] = <<>>
  BY JournalAssumption DEF Idle
<1>2. prog \in [CPUs -> Seq(Ops)]
  BY EmptyOver
<1>3. Types
  BY <1>2 DEF Types
<1>4. ~Cleaning /\ loop.pc \notin {"undo", "undone"}
  BY DEF Cleaning, NoLoop
<1>5. Control
  BY <1>1, <1>4, JournalAssumption DEF Control, Waiting
<1>6. Programs
  BY <1>1, <1>4 DEF Programs, Runs, Running
<1>7. Transactions /\ CellsApart
  BY <1>1 DEF Transactions, TxOK, CellsApart
<1>8. Safe
  BY <1>1 DEF Safe, ReservedKept, RangesApart, Holds, LogOf, OldOf
<1> QED BY <1>3, <1>5, <1>6, <1>7, <1>8 DEF IInv

\* A power failure: Crash.
LEMMA PowerFailure ==
    ASSUME IInv, Crash, History
    PROVE  IInv'
<1>1. PICK img \in CrashImages(mem) : mem' = Fresh(img)
  BY DEF Crash
<1>2. MemOK(Fresh(img))
  BY <1>1, CrashOK DEF IInv, Types
<1>3. MemOK(mem')
  BY <1>1, <1>2
<1>4. MemOK(mem)'
  BY <1>3 DEF MemOK
<1>5. Rest'
  BY <1>4, HistoryOK DEF Rest, Crash, IInv, Types
<1> QED BY <1>5, AtRest, PTL

------------------------------------------------------------------------------
(* Cleaning.                                                                    *)

\* The smallest of a set of naturals.
LEMMA MinOf ==
    ASSUME NEW S \in SUBSET Nat, S # {}
    PROVE  Min(S) \in S /\ \A y \in S : Min(S) <= y
<1>1. PICK x \in S : \A y \in S : ~(<<y, x>> \in OpToRel(<, Nat))
  BY WFMin, NatLessThanWellFounded
<1>2. \A y \in S : <<y, x>> \in OpToRel(<, Nat) <=> y < x
  BY DEF OpToRel
<1>3. \A y \in S : ~(y < x)
  BY <1>1, <1>2, Zenon
<1>4. \A y \in S : x <= y
  BY <1>3
<1> QED BY <1>4 DEF Min

\* The largest of a bounded set of naturals.
LEMMA MaxOf ==
    ASSUME NEW n \in Nat, NEW S \in SUBSET (0..n), S # {}
    PROVE  Max(S) \in S /\ \A y \in S : Max(S) >= y
<1> DEFINE T == {n - y : y \in S}
<1>1. T \in SUBSET Nat /\ T # {}
  <2>1. \A y \in S : n - y \in Nat
    OBVIOUS
  <2>2. PICK y : y \in S
    OBVIOUS
  <2>3. n - y \in T
    BY <2>2
  <2>4. T \subseteq Nat
    BY <2>1
  <2> QED BY <2>3, <2>4
<1>2. PICK m : m = Min(T)
  OBVIOUS
<1>3. m \in T /\ \A y \in T : m <= y
  BY <1>1, <1>2, MinOf
<1>4. PICK x \in S : m = n - x
  BY <1>3
<1>5. \A y \in S : x >= y
  BY <1>3, <1>4
<1> QED BY <1>5 DEF Max

\* The entry i is invalidated.
LEMMA InvalOp ==
    ASSUME NEW I \in SUBSET Pos, NEW i \in I, NEW bar \in BOOLEAN
    PROVE  invalidate_gen_id(i, bar) \in InvalOps(I)
<1>1. PICK l, ord, r, cl : l = Le(i) /\ ord = <<"gen">> /\ r = [gen |-> 0] /\ cl = {l}
  OBVIOUS
<1>2. l \in Lines /\ cl \in SUBSET Lines /\ ord \in Seq(Fields) /\ r \in Recs
  BY <1>1, LineKinds, Orders DEF Recs
<1>3. PICK o : o = Write(l, ord, r, cl, bar)
  OBVIOUS
<1>4. o \in Writes /\ o.l = l /\ o.order = ord /\ o.r = r
  BY <1>2, <1>3, WriteOK
<1>5. invalidate_gen_id(i, bar) = o
  BY <1>1, <1>3 DEF invalidate_gen_id
<1> QED BY <1>1, <1>4, <1>5 DEF InvalOps

\* So are the entries of a range.
LEMMA InvalSeq ==
    ASSUME NEW I \in SUBSET Pos, NEW low \in Nat, NEW high \in Nat, low <= high,
           low..high \subseteq I
    PROVE  pmfs_invalidate_logentries(low, high) \in Seq(InvalOps(I))
<1> DEFINE n == high - low + 1
           f == pmfs_invalidate_logentries(low, high)
<1>1. f = [k \in 1..n |-> invalidate_gen_id(low + k - 1, Entry(low + k - 1).type = {"start"})]
  BY DEF pmfs_invalidate_logentries
<1>2. ASSUME NEW k \in 1..n PROVE f[k] \in InvalOps(I)
  <2>1. PICK i, bar : i = low + k - 1 /\ bar = (Entry(low + k - 1).type = {"start"})
    OBVIOUS
  <2>2. i \in I
    BY <2>1
  <2>3. bar \in BOOLEAN
    BY <2>1
  <2>4. invalidate_gen_id(i, bar) \in InvalOps(I)
    BY <2>2, <2>3, InvalOp
  <2>5. f[k] = invalidate_gen_id(i, bar)
    BY <1>1, <2>1
  <2> QED BY <2>4, <2>5
<1>3. n \in Nat
  OBVIOUS
<1>4. f = [k \in 1..n |-> f[k]]
  BY <1>1
<1> HIDE DEF f, n
<1>5. f \in Seq(InvalOps(I))
  BY <1>2, <1>3, <1>4, MakeSeq
<1> QED BY <1>5 DEF f

\* Leaving the loop of the cleaner.
LEMMA LeaveOps ==
    ASSUME NEW h \in Pos
    PROVE  <<Barrier, Write(Jnl, <<"head">>, [head |-> h], {Jnl}, TRUE)>>
                \in Seq({Barrier} \cup HeadOps({h}))
<1>1. PICK l, ord, r, cl, bar : /\ l = Jnl /\ ord = <<"head">> /\ r = [head |-> h] /\ cl = {l}
                                /\ bar = TRUE
  OBVIOUS
<1>2. /\ l \in Lines /\ cl \in SUBSET Lines /\ ord \in Seq(Fields) /\ r \in Recs /\ bar \in BOOLEAN
      /\ r \in [head : {h}]
  BY <1>1, LineKinds, Orders DEF Recs
<1>3. PICK o : o = Write(l, ord, r, cl, bar)
  OBVIOUS
<1>4. o \in Writes /\ o.l = l /\ o.order = ord /\ o.r = r
  BY <1>2, <1>3, WriteOK
<1>5. o \in HeadOps({h})
  BY <1>1, <1>2, <1>4 DEF HeadOps
<1>6. <<Barrier, o>> \in Seq({Barrier} \cup HeadOps({h}))
  BY <1>5
<1>7. Write(Jnl, <<"head">>, [head |-> h], {Jnl}, TRUE) = o
  BY <1>1, <1>3
<1> QED BY <1>6, <1>7

\* Entries the head moves past are beyond the tail as seen from the new head.
LEMMA PassedOver ==
    ASSUME NEW head \in Pos, NEW tail \in Pos, NEW last \in head..(JSize - 1), tail \notin head..last,
           NEW i \in head..last, NEW new, new = IF last + 1 >= JSize THEN 0 ELSE last + 1
    PROVE  new \in Pos /\ i \in Pos /\ Dist(new, i) >= Dist(new, tail)
<1>1. JSize \in Nat
  BY JournalAssumption
<1>2. new \in Pos /\ i \in Pos
  BY <1>1 DEF Pos
<1> QED BY <1>1, <1>2 DEF Dist, Pos

Beyond(head, tail) == {i \in Pos : Dist(head, i) >= Dist(head, tail)}

\* The cleaner moves past one transaction, or stays: pmfs_process_transaction.
LEMMA ProcessOK ==
    ASSUME NEW head \in Pos, NEW tail \in Pos, head # tail, NEW g, NEW r,
           r = pmfs_process_transaction(head, tail, g)
    PROVE  /\ r.processed \in Int /\ r.head \in Pos
           /\ r.prog \in Seq(InvalOps(Beyond(r.head, tail)))
<1> DEFINE new_head(k) == IF k + 1 >= JSize THEN k + 1 - JSize ELSE k + 1
           stop(k) == IsEnd(k, g) \/ new_head(k) = tail \/ IsStart(k + 1, g)
           S == {k \in head..(head + JSize - 1) : stop(k)}
           last == Min(S)
<1>1. JSize \in Nat \ {0} /\ head \in Nat /\ tail \in Nat /\ head < JSize /\ tail < JSize
  BY JournalAssumption DEF Pos
<1>2. r = IF ~IsStart(head, g)
          THEN [head |-> next_log_entry(head), processed |-> 0, prog |-> <<>>]
          ELSE [head |-> IF IsEnd(last, g) THEN new_head(last) ELSE head,
                processed |-> last - head + 1,
                prog |-> IF IsEnd(last, g) /\ g = MaxGen
                         THEN pmfs_invalidate_logentries(head, last) ELSE <<>>]
  BY Zenon DEF pmfs_process_transaction
<1>3. CASE ~IsStart(head, g)
  <2>1. r.processed = 0 /\ r.head = next_log_entry(head) /\ r.prog = <<>>
    BY <1>2, <1>3
  <2>2. next_log_entry(head) \in Pos
    BY <1>1 DEF next_log_entry, Pos
  <2> QED BY <2>1, <2>2, EmptyOver
<1>4. CASE IsStart(head, g)
  <2>1. S \in SUBSET Nat
    BY <1>1
  <2>2. S # {}
    <3> DEFINE k == IF tail > head THEN tail - 1 ELSE tail + JSize - 1
    <3>1. k \in head..(head + JSize - 1) /\ new_head(k) = tail
      BY <1>1
    <3>2. k \in S
      <4> HIDE DEF k, new_head
      <4> QED BY <3>1
    <3> QED BY <3>2
  <2>3. PICK m, T : m = last /\ T = S
    OBVIOUS
  <2>4. m \in T /\ \A y \in T : m <= y
    BY <2>1, <2>2, <2>3, MinOf
  <2>5. m \in head..(head + JSize - 1) /\ \A k \in head..(head + JSize - 1) : stop(k) => m <= k
    BY <2>3, <2>4
  <2> HIDE DEF stop, S, last
  <2>6. /\ r.processed = m - head + 1
        /\ r.head = IF IsEnd(m, g) THEN new_head(m) ELSE head
        /\ r.prog = IF IsEnd(m, g) /\ g = MaxGen
                    THEN pmfs_invalidate_logentries(head, m) ELSE <<>>
    <3>1. PICK w, q : w = new_head(m) /\ q = pmfs_invalidate_logentries(head, m)
      OBVIOUS
    <3>2. r = [head |-> IF IsEnd(m, g) THEN w ELSE head, processed |-> m - head + 1,
               prog |-> IF IsEnd(m, g) /\ g = MaxGen THEN q ELSE <<>>]
      BY <1>2, <1>4, <2>3, <3>1, Zenon
    <3> QED BY <3>1, <3>2
  <2>7. m - head + 1 \in Int
    BY <2>5, <1>1
  <2>8. CASE ~IsEnd(m, g)
    BY <2>6, <2>7, <2>8, EmptyOver
  <2>9. CASE IsEnd(m, g)
    <3>1. m < JSize /\ m \in head..(JSize - 1)
      BY <2>5, <2>9, <1>1 DEF IsEnd, Valid
    <3>2. tail \notin head..m
      <4>1. SUFFICES ASSUME tail \in head..m PROVE FALSE
        OBVIOUS
      <4>2. PICK k : k = tail - 1
        OBVIOUS
      <4>3. k \in head..(head + JSize - 1) /\ k < m /\ new_head(k) = tail
        BY <4>1, <4>2, <1>1, <3>1
      <4>4. stop(k)
        BY <4>3 DEF stop
      <4>5. m <= k
        BY <4>3, <4>4, <2>5
      <4> QED BY <4>3, <4>5, <4>1, <4>2, <1>1, <3>1
    <3>3. PICK new : new = IF m + 1 >= JSize THEN 0 ELSE m + 1
      OBVIOUS
    <3>4. new_head(m) = new /\ r.head = new
      BY <3>1, <3>3, <1>1, <2>6, <2>9
    <3>5. \A i \in head..m : new \in Pos /\ i \in Pos /\ Dist(new, i) >= Dist(new, tail)
      BY <3>1, <3>2, <3>3, PassedOver
    <3>6. head \in head..m /\ head <= m /\ m \in Nat
      BY <3>1, <1>1
    <3>7. PICK I : I = Beyond(new, tail)
      OBVIOUS
    <3>8. I \in SUBSET Pos /\ head..m \subseteq I
      BY <3>5, <3>7 DEF Beyond
    <3>9. pmfs_invalidate_logentries(head, m) \in Seq(InvalOps(I))
      BY <3>6, <3>8, <1>1, InvalSeq
    <3>10. r.prog \in Seq(InvalOps(I))
      BY <3>9, <2>6, EmptyOver
    <3> QED BY <2>6, <2>7, <3>4, <3>5, <3>6, <3>7, <3>10
  <2> QED BY <2>8, <2>9
<1> QED BY <1>3, <1>4

\* A round of the cleaner's loop, whatever it does to the head.
LEMMA CleanStep ==
    ASSUME IInv, History, NEW c \in CPUs, mutex = c, Cleaning,
           mem' = mem, tx' = tx, mutex' = mutex, awake' = awake, mode' = mode, txs' = txs,
           NEW s \in Seq(Ops), prog' = [prog EXCEPT ![c] = s], s \in Seq(CleanOps'),
           loop' \in CleanLoop, loop'.tail = loop.tail
    PROVE  IInv'
<1> USE DEF IInv
<1>1. prog \in [CPUs -> Seq(Ops)] /\ overrun' \in BOOLEAN
  BY HistoryOK DEF Types
<1>2. Cleaning'
  BY DEF CleanLoop, Cleaning
<1>3. prog'[c] = s /\ prog' \in [CPUs -> Seq(Ops)] /\ \A u \in CPUs : u # c => prog'[u] = prog[u]
  BY <1>1
<1>4. Types'
  BY <1>1, <1>3 DEF Types
<1>5. c \in Threads => ~Running(c)
  BY DEF Control, Waiting, Running
<1>6. Control'
  <2>1. \A t \in Threads : (mutex' = t) <=> Waiting(t)'
    BY DEF Control, Waiting
  <2>2. ~(loop'.pc \in {"undo", "undone"}) /\ mode # "recovering"
    BY DEF CleanLoop, Control, Cleaning
  <2> QED BY <1>2, <2>1, <2>2 DEF Control
<1>7. \A u \in CPUs : prog'[u] # <<>> =>
                \/ mutex' = u /\ Cleaning'
                \/ u = Cleaner /\ mode' = "recovering"
                \/ u \in Threads /\ Running(u)'
  BY <1>2, <1>3 DEF Programs, Running
<1> HIDE DEF IInv
<1> QED BY <1>2, <1>3, <1>4, <1>5, <1>6, <1>7, LoopStep, Zenon

\* The cleaner's writes are writes of the journal.
LEMMA CleanOpsOps ==
    ASSUME NEW I \in SUBSET Pos, NEW H \in SUBSET Pos
    PROVE  {Barrier} \cup InvalOps(I) \subseteq Ops /\ {Barrier} \cup HeadOps(H) \subseteq Ops
<1>1. InvalOps(I) \subseteq InvalOps(Pos) /\ HeadOps(H) \subseteq HeadOps(Pos)
  BY DEF InvalOps, HeadOps
<1> QED BY <1>1 DEF Ops, FenceOps

\* The locals of the cleaner's loop.
LEMMA CleanLoopUpdate ==
    ASSUME NEW x \in CleanLoop, NEW n \in Int, NEW new \in Pos, NEW g \in 1..MaxGen
    PROVE  /\ [x EXCEPT !.pc = "left", !.total = n] \in CleanLoop
           /\ [x EXCEPT !.head = new, !.total = n, !.gen = g] \in CleanLoop
<1>1. \A y \in CleanLoop : /\ [y EXCEPT !.pc = "left"] \in CleanLoop
                           /\ [y EXCEPT !.total = n] \in CleanLoop
                           /\ [y EXCEPT !.head = new] \in CleanLoop
                           /\ [y EXCEPT !.gen = g] \in CleanLoop
  BY DEF CleanLoop
<1> DEFINE a == [x EXCEPT !.pc = "left"]
           b == [a EXCEPT !.total = n]
           c == [x EXCEPT !.head = new]
           d == [c EXCEPT !.total = n]
           e == [d EXCEPT !.gen = g]
<1>2. /\ [x EXCEPT !.pc = "left", !.total = n] = b
      /\ [x EXCEPT !.head = new, !.total = n, !.gen = g] = e
  OBVIOUS
<1> HIDE DEF e
<1>3. a \in CleanLoop /\ c \in CleanLoop
  BY <1>1
<1> HIDE DEF a, c
<1>4. b \in CleanLoop /\ d \in CleanLoop
  BY <1>1, <1>3
<1> HIDE DEF d
<1>5. e \in CleanLoop
  BY <1>1, <1>4 DEF e
<1> QED BY <1>2, <1>4, <1>5

\* One round of pmfs_clean_journal: CleanRound.
LEMMA CleanRoundOK ==
    ASSUME IInv, NEW c \in CPUs, CleanRound(c), History
    PROVE  IInv'
<1>1. /\ loop.pc = "clean" /\ mutex = c /\ prog[c] = <<>> /\ Cleaning
      /\ mem' = mem /\ tx' = tx /\ mutex' = mutex /\ awake' = awake /\ mode' = mode /\ txs' = txs
  BY DEF CleanRound, Ready, Cleaning
<1>2. /\ loop \in CleanLoop /\ loop.head \in Pos /\ loop.tail \in Pos /\ loop.gen \in 1..MaxGen
      /\ loop.total \in Int
  BY <1>1, LoopFields DEF IInv, Types, NoLoop, CleanLoop
<1>3. ASSUME NEW n \in Int, CleanLeave(c, n) PROVE IInv'
  <2>1. loop' = [loop EXCEPT !.pc = "left", !.total = loop.total + n]
    BY <1>3 DEF CleanLeave
  <2>2. loop' \in CleanLoop /\ loop'.pc = "left" /\ loop'.head = loop.head /\ loop'.tail = loop.tail
    <3>1. PICK k : k = loop.total + n
      OBVIOUS
    <3>2. k \in Int /\ loop' = [loop EXCEPT !.pc = "left", !.total = k]
      BY <1>2, <2>1, <3>1
    <3>3. loop' \in CleanLoop
      BY <1>2, <3>2, CleanLoopUpdate
    <3> QED BY <1>2, <3>2, <3>3 DEF CleanLoop
  <2>3. PICK s, h : s = <<Barrier, Write(Jnl, <<"head">>, [head |-> h], {Jnl}, TRUE)>> /\ h = loop.head
    OBVIOUS
  <2>4. prog' = [prog EXCEPT ![c] = s]
    BY <1>3, <2>3 DEF CleanLeave
  <2>5. h \in Pos /\ s \in Seq({Barrier} \cup HeadOps({h}))
    BY <1>2, <2>3, LeaveOps
  <2>6. s \in Seq(Ops)
    <3>1. {h} \in SUBSET Pos /\ {} \in SUBSET Pos
      BY <2>5
    <3>2. {Barrier} \cup HeadOps({h}) \subseteq Ops
      BY <3>1, CleanOpsOps
    <3> QED BY <2>5, <3>2, SeqSub
  <2>7. s \in Seq(CleanOps')
    <3>1. CleanOps' = {Barrier} \cup HeadOps({loop'.head})
      BY <2>2 DEF CleanOps, HeadOps, Writes, Barrier
    <3> QED BY <2>2, <2>3, <2>5, <3>1
  <2> QED BY <1>1, <2>2, <2>4, <2>6, <2>7, CleanStep, Zenon
<1>4. ASSUME NEW new \in Pos, NEW n \in Int, NEW s, CleanOn(c, new, n, s),
             s \in Seq(InvalOps(Beyond(new, loop.tail)))
      PROVE  IInv'
  <2>1. PICK g : g = IF new = 0 THEN next_gen_id(loop.gen) ELSE loop.gen
    OBVIOUS
  <2>2. g \in 1..MaxGen
    BY <1>2, <2>1, GenOK
  <2>3. loop' = [loop EXCEPT !.head = new, !.total = loop.total + n, !.gen = g]
    BY <1>4, <2>1 DEF CleanOn
  <2>4. loop' \in CleanLoop /\ loop'.pc = "clean" /\ loop'.head = new /\ loop'.tail = loop.tail
    <3>1. PICK k : k = loop.total + n
      OBVIOUS
    <3>2. k \in Int /\ loop' = [loop EXCEPT !.head = new, !.total = k, !.gen = g]
      BY <1>2, <2>3, <3>1
    <3>3. loop' \in CleanLoop
      BY <1>2, <2>2, <3>2, CleanLoopUpdate
    <3> QED BY <1>1, <1>2, <3>2, <3>3 DEF CleanLoop
  <2>5. PICK I : I = Beyond(new, loop.tail)
    OBVIOUS
  <2>6. I \in SUBSET Pos /\ Passed' = I
    BY <2>4, <2>5 DEF Beyond, Passed, Pos, Dist
  <2>7. s \in Seq({Barrier} \cup InvalOps(I))
    <3>1. InvalOps(I) \subseteq {Barrier} \cup InvalOps(I)
      OBVIOUS
    <3> QED BY <1>4, <2>5, <3>1, SeqSub
  <2>8. s \in Seq(Ops)
    <3>1. {Barrier} \cup InvalOps(I) \subseteq Ops
      BY <2>6, CleanOpsOps
    <3> QED BY <2>7, <3>1, SeqSub
  <2>9. s \in Seq(CleanOps')
    <3>1. CleanOps' = {Barrier} \cup InvalOps(I)
      BY <2>4, <2>6 DEF CleanOps, InvalOps, Writes, Barrier
    <3> QED BY <2>7, <3>1
  <2>10. prog' = [prog EXCEPT ![c] = s]
    BY <1>4 DEF CleanOn
  <2> QED BY <1>1, <2>4, <2>8, <2>9, <2>10, CleanStep, Zenon
<1>5. PICK r : r = pmfs_process_transaction(loop.head, loop.tail, loop.gen)
  OBVIOUS
<1>6. CASE loop.head = loop.tail /\ CleanLeave(c, 0)
  BY <1>3, <1>6, 0 \in Int
<1>7. CASE /\ loop.head # loop.tail
           /\ IF r.head = loop.head THEN CleanLeave(c, r.processed)
              ELSE CleanOn(c, r.head, r.processed, r.prog)
  <2>1. PICK head, tail, g : head = loop.head /\ tail = loop.tail /\ g = loop.gen
    OBVIOUS
  <2>2. head \in Pos /\ tail \in Pos /\ head # tail /\ r = pmfs_process_transaction(head, tail, g)
    BY <1>2, <1>5, <1>7, <2>1
  <2>3. r.processed \in Int /\ r.head \in Pos /\ r.prog \in Seq(InvalOps(Beyond(r.head, tail)))
    BY <2>2, ProcessOK
  <2>4. PICK n, new, s : n = r.processed /\ new = r.head /\ s = r.prog
    OBVIOUS
  <2>5. n \in Int /\ new \in Pos /\ s \in Seq(InvalOps(Beyond(new, loop.tail)))
    BY <2>1, <2>3, <2>4
  <2>6. CleanLeave(c, n) \/ CleanOn(c, new, n, s)
    BY <1>7, <2>4
  <2> QED BY <1>3, <1>4, <2>5, <2>6
<1>8. CASE /\ loop.head # loop.tail
           /\ CleanOn(c, next_log_entry(loop.head), 0,
                      IF loop.gen = MaxGen THEN <<invalidate_gen_id(loop.head, FALSE)>> ELSE <<>>)
  <2>1. PICK head, tail, last, new, s, z :
          /\ head = loop.head /\ tail = loop.tail /\ last = head /\ z = 0
          /\ new = next_log_entry(head)
          /\ s = IF loop.gen = MaxGen THEN <<invalidate_gen_id(head, FALSE)>> ELSE <<>>
    OBVIOUS
  <2>2. /\ head \in Pos /\ tail \in Pos /\ last \in head..(JSize - 1) /\ tail \notin head..last
        /\ head \in head..last /\ z \in Int /\ new = IF last + 1 >= JSize THEN 0 ELSE last + 1
    BY <1>2, <1>8, <2>1, JournalAssumption DEF Pos, next_log_entry
  <2>3. new \in Pos /\ Dist(new, head) >= Dist(new, tail)
    BY <2>2, PassedOver
  <2>4. PICK I, b : I = Beyond(new, tail) /\ b = FALSE
    OBVIOUS
  <2>5. I \in SUBSET Pos /\ head \in I /\ b \in BOOLEAN
    BY <2>2, <2>3, <2>4 DEF Beyond
  <2>6. invalidate_gen_id(head, b) \in InvalOps(I)
    BY <2>5, InvalOp
  <2>7. s \in Seq(InvalOps(I))
    <3>1. PICK o : o = invalidate_gen_id(head, b)
      OBVIOUS
    <3>2. s = <<o>> \/ s = <<>>
      BY <2>1, <2>4, <3>1, Zenon
    <3>3. <<o>> \in Seq(InvalOps(I))
      BY <2>6, <3>1
    <3> QED BY <3>2, <3>3, EmptyOver
  <2>8. CleanOn(c, new, z, s)
    BY <1>8, <2>1
  <2> QED BY <1>4, <2>1, <2>2, <2>3, <2>4, <2>7, <2>8
<1> QED BY <1>5, <1>6, <1>7, <1>8 DEF CleanRound

------------------------------------------------------------------------------
(* Recovery.                                                                    *)

\* Undoing a range of entries writes cells: pmfs_undo_transaction.
LEMMA UndoSeq ==
    ASSUME MemOK(mem), NEW low \in Nat, NEW high \in Pos, low <= high, NEW g
    PROVE  pmfs_undo_transaction(low, high, g) \in Seq(Ops)
<1> DEFINE n == high - low + 1
           f == pmfs_undo_transaction(low, high, g)
<1>1. JSize \in Nat /\ n \in Nat
  BY JournalAssumption DEF Pos
<1>2. f = [k \in 1..n |-> IF Valid(high + 1 - k, g) THEN pmfs_undo_logentry(Entry(high + 1 - k))
                          ELSE Nothing]
  BY DEF pmfs_undo_transaction
<1>3. ASSUME NEW k \in 1..n PROVE f[k] \in Ops
  <2>1. PICK i, e, C : i = high + 1 - k /\ e = Entry(i) /\ C = Cells
    OBVIOUS
  <2>2. i \in Pos
    BY <1>1, <2>1 DEF Pos
  <2>3. e \in EVal
    BY <2>1, <2>2, Values DEF Entry
  <2>4. e.addr \in C \cup {None} /\ C \in SUBSET Cells
    BY <2>1, <2>3 DEF EVal
  <2>5. pmfs_undo_logentry(e) \in FenceOps \cup CellOps(C)
    BY <2>3, <2>4, UndoOp
  <2>6. f[k] = IF Valid(i, g) THEN pmfs_undo_logentry(e) ELSE Nothing
    BY <1>2, <2>1
  <2> QED BY <2>1, <2>5, <2>6 DEF Ops, FenceOps
<1>4. f = [k \in 1..n |-> f[k]]
  BY <1>2
<1> HIDE DEF f, n
<1>5. f \in Seq(Ops)
  BY <1>1, <1>3, <1>4, MakeSeq
<1> QED BY <1>5 DEF f

\* One transaction is recovered: pmfs_recover_transaction.
LEMMA RecoverOK ==
    ASSUME MemOK(mem), NEW head \in Pos, NEW high \in Pos, NEW g, NEW r,
           r = pmfs_recover_transaction(head, high, g)
    PROVE  r.low \in Pos /\ r.prog \in Seq(Ops)
<1> DEFINE stop(k) == IsStart(k, g) \/ k = 0 \/ k = head \/ IsEnd(k - 1, g)
           S == {k \in 0..high : stop(k)}
           low == Max(S)
           undone == IsStart(low, g) /\ ~\E k \in low..high : IsEnd(k, g)
<1>1. r = [low |-> low,
           prog |-> (IF undone THEN pmfs_undo_transaction(low, high, g) ELSE <<>>) \o
                    (IF g # MaxGen THEN <<>>
                     ELSE (IF undone THEN <<Barrier>> ELSE <<>>) \o
                          pmfs_invalidate_logentries(low, high))]
  BY Zenon DEF pmfs_recover_transaction
<1>2. high \in Nat /\ JSize \in Nat /\ high < JSize
  BY JournalAssumption DEF Pos
<1>3. S \in SUBSET (0..high) /\ 0 \in S
  BY <1>2
<1> HIDE DEF S
<1>4. low \in S
  BY <1>2, <1>3, MaxOf
<1>5. PICK m : m = low
  OBVIOUS
<1>6. m \in Nat /\ m <= high /\ m \in Pos /\ m..high \subseteq Pos
  <2>1. m \in 0..high
    <3> HIDE DEF low
    <3> QED BY <1>3, <1>4, <1>5
  <2> QED BY <1>2, <2>1 DEF Pos
<1> HIDE DEF low, undone
<1>7. PICK a, b, I : /\ a = pmfs_undo_transaction(m, high, g)
                     /\ b = pmfs_invalidate_logentries(m, high) /\ I = Pos
  OBVIOUS
<1>8. a \in Seq(Ops)
  BY <1>6, <1>7, UndoSeq
<1>9. b \in Seq(Ops)
  <2>1. I \in SUBSET Pos /\ m..high \subseteq I
    BY <1>6, <1>7
  <2>2. b \in Seq(InvalOps(I))
    BY <1>2, <1>6, <1>7, <2>1, InvalSeq
  <2>3. InvalOps(I) \subseteq Ops
    BY <1>7 DEF Ops
  <2> QED BY <2>2, <2>3, SeqSub
<1>10. PICK c, d, e : /\ c = (IF undone THEN a ELSE <<>>) /\ d = (IF undone THEN <<Barrier>> ELSE <<>>)
                      /\ e = (IF g # MaxGen THEN <<>> ELSE d \o b)
  OBVIOUS
<1>11. c \in Seq(Ops) /\ d \in Seq(Ops)
  <2>1. <<Barrier>> \in Seq(Ops)
    BY DEF Ops, FenceOps
  <2> QED BY <1>8, <1>10, <2>1, EmptyOver
<1>12. e \in Seq(Ops)
  <2>1. d \o b \in Seq(Ops)
    BY <1>9, <1>11
  <2> QED BY <1>10, <2>1, EmptyOver
<1>13. r = [low |-> m, prog |-> c \o e]
  BY <1>1, <1>5, <1>7, <1>10, Zenon
<1>14. c \o e \in Seq(Ops)
  BY <1>11, <1>12
<1>15. r.low = m /\ r.prog = c \o e
  BY <1>13
<1> QED BY <1>6, <1>14, <1>15

\* Generation and head are set: pmfs_forward_journal.
LEMMA ForwardOK ==
    ASSUME NEW j \in JVal
    PROVE  pmfs_forward_journal(j) \in Seq(Ops)
<1>1. j.tail \in Pos /\ j.gen \in 1..MaxGen /\ JSize \in Nat \ {0}
  BY JournalAssumption DEF JVal
<1> DEFINE n == JSize - j.tail
           f == invalidate_remaining_journal(j.tail)
<1>2. n \in Nat
  BY <1>1 DEF Pos
<1>3. f = [k \in 1..n |-> invalidate_gen_id(j.tail + k - 1, FALSE)]
  BY DEF invalidate_remaining_journal
<1>4. ASSUME NEW k \in 1..n PROVE f[k] \in Ops
  <2>1. PICK i, b, I : i = j.tail + k - 1 /\ b = FALSE /\ I = Pos
    OBVIOUS
  <2>2. i \in I /\ b \in BOOLEAN /\ I \in SUBSET Pos
    <3>1. PICK q : q = j.tail
      OBVIOUS
    <3>2. q \in 0..JSize-1 /\ k \in 1..(JSize - q) /\ i = q + k - 1
      BY <1>1, <2>1, <3>1 DEF Pos
    <3>3. i \in 0..JSize-1
      BY <1>1, <3>2
    <3> QED BY <2>1, <3>3 DEF Pos
  <2>3. invalidate_gen_id(i, b) \in InvalOps(I)
    BY <2>2, InvalOp
  <2>4. f[k] = invalidate_gen_id(i, b)
    BY <1>3, <2>1
  <2> QED BY <2>1, <2>3, <2>4 DEF Ops
<1>5. f = [k \in 1..n |-> f[k]]
  BY <1>3
<1> HIDE DEF f, n
<1>6. f \in Seq(Ops)
  BY <1>2, <1>4, <1>5, MakeSeq
<1>7. PICK l, ord, r, cl, bar :
        /\ l = Jnl /\ ord = <<"gen", "head">> /\ cl = {l} /\ bar = TRUE
        /\ r = [gen |-> next_gen_id(j.gen), head |-> j.tail]
  OBVIOUS
<1>8. /\ l \in Lines /\ cl \in SUBSET Lines /\ ord \in Seq(Fields) /\ bar \in BOOLEAN
      /\ r \in [gen : 1..MaxGen, head : Pos] /\ r \in Recs
  <2>1. next_gen_id(j.gen) \in 1..MaxGen
    BY <1>1, GenOK
  <2> QED BY <1>1, <1>7, <2>1, LineKinds, Orders DEF Recs
<1>9. PICK o : o = Write(l, ord, r, cl, bar)
  OBVIOUS
<1>10. o \in Writes /\ o.l = l /\ o.order = ord /\ o.r = r
  BY <1>8, <1>9, WriteOK
<1>11. o \in Ops /\ Barrier \in Ops
  BY <1>7, <1>8, <1>10 DEF Ops, ForwardOps, FenceOps
<1>12. PICK a, b : a = (IF j.gen = MaxGen THEN f ELSE <<>>) /\ b = <<Barrier, o>>
  OBVIOUS
<1>13. a \in Seq(Ops) /\ b \in Seq(Ops)
  BY <1>6, <1>11, <1>12, EmptyOver
<1>14. pmfs_forward_journal(j) = a \o b
  BY <1>7, <1>9, <1>12, Zenon DEF pmfs_forward_journal, f
<1> QED BY <1>13, <1>14

\* One round of pmfs_recover_undo_journal: UndoRound.
LEMMA UndoRoundOK ==
    ASSUME IInv, UndoRound, History
    PROVE  IInv'
<1> USE DEF IInv
<1>1. /\ loop.pc = "undo" /\ prog[Cleaner] = <<>>
      /\ mem' = mem /\ tx' = tx /\ mutex' = mutex /\ awake' = awake /\ mode' = mode /\ txs' = txs
  BY DEF UndoRound, Ready
<1>2. mode = "recovering" /\ mode' = "recovering"
  BY <1>1 DEF Control
<1>3. /\ loop \in UndoLoop /\ loop.head \in Pos /\ loop.tail \in Pos /\ loop.gen \in 1..MaxGen
      /\ MemOK(mem) /\ JSize \in Nat \ {0}
  BY <1>1, LoopFields, JournalAssumption DEF Types, NoLoop
<1>4. ASSUME NEW s \in Seq(Ops), prog' = [prog EXCEPT ![Cleaner] = s], loop' \in UndoLoop
      PROVE  IInv'
  <2>1. prog \in [CPUs -> Seq(Ops)] /\ overrun' \in BOOLEAN /\ Cleaner \in CPUs /\ Cleaner \notin Threads
    BY HistoryOK, JournalAssumption DEF Types
  <2>2. prog'[Cleaner] = s /\ (\A u \in CPUs : u # Cleaner => prog'[u] = prog[u])
        /\ prog' \in [CPUs -> Seq(Ops)]
    BY <1>4, <2>1
  <2>3. /\ mutex = None /\ tx = [t \in Threads |-> Idle] /\ (\A t \in Threads : ~Waiting(t))
        /\ \A u \in CPUs : prog[u] # <<>> => u = Cleaner /\ mode = "recovering"
    BY <1>2, NotMounted
  <2>4. Types'
    BY <1>1, <1>4, <2>1, <2>2 DEF Types
  <2>5. ~Cleaning' /\ loop'.pc \in {"undo", "undone"}
    BY <1>4 DEF UndoLoop, Cleaning
  <2>6. Control'
    <3>1. \A t \in Threads : (mutex' = t) <=> Waiting(t)'
      BY <1>1, <2>3, JournalAssumption DEF Waiting
    <3>2. mutex' # Cleaner
      BY <1>1, <2>3, JournalAssumption
    <3> QED BY <1>1, <1>2, <2>3, <2>5, <3>1, <3>2 DEF Control
  <2>7. \A u \in CPUs : prog'[u] # <<>> =>
                \/ mutex' = u /\ Cleaning'
                \/ u = Cleaner /\ mode' = "recovering"
                \/ u \in Threads /\ Running(u)'
    BY <1>2, <2>2, <2>3
  <2> HIDE DEF IInv
  <2> QED BY <1>1, <2>1, <2>2, <2>4, <2>5, <2>6, <2>7, LoopStep, Zenon
<1> HIDE DEF IInv
<1>5. PICK g, tail : /\ g = (IF loop.tail = 0 THEN prev_gen_id(loop.gen) ELSE loop.gen)
                     /\ tail = prev_log_entry(loop.tail)
  OBVIOUS
<1>6. g \in 1..MaxGen /\ tail \in Pos
  BY <1>3, <1>5, GenOK DEF Pos, prev_log_entry
<1>7. PICK r, head : r = pmfs_recover_transaction(head, tail, g) /\ head = loop.head
  OBVIOUS
<1>8. r.low \in Pos /\ r.prog \in Seq(Ops)
  BY <1>3, <1>6, <1>7, RecoverOK
<1>9. \A low \in Pos : [loop EXCEPT !.tail = low, !.gen = g] \in UndoLoop
  <2>1. \A y \in UndoLoop : [y EXCEPT !.gen = g] \in UndoLoop
    BY <1>6 DEF UndoLoop
  <2>2. \A low \in Pos : [loop EXCEPT !.tail = low] \in UndoLoop
    BY <1>3 DEF UndoLoop
  <2>3. ASSUME NEW low \in Pos PROVE [loop EXCEPT !.tail = low, !.gen = g] \in UndoLoop
    <3>1. PICK y : y = [loop EXCEPT !.tail = low]
      OBVIOUS
    <3>2. [loop EXCEPT !.tail = low, !.gen = g] = [y EXCEPT !.gen = g]
      BY <3>1
    <3> QED BY <2>1, <2>2, <3>1, <3>2
  <2> QED BY <2>3
<1>10. CASE /\ loop' = [loop EXCEPT !.pc = "undone"]
            /\ prog' = [prog EXCEPT ![Cleaner] = pmfs_forward_journal(Cur(mem, Jnl))]
  <2>1. PICK j, s : j = Cur(mem, Jnl) /\ s = pmfs_forward_journal(j)
    OBVIOUS
  <2>2. s \in Seq(Ops)
    BY <1>3, <2>1, Values, ForwardOK
  <2>3. loop' \in UndoLoop
    BY <1>3, <1>10 DEF UndoLoop
  <2> QED BY <1>4, <1>10, <2>1, <2>2, <2>3
<1>11. CASE UndoOn(r.low, g, r.prog)
  <2>1. PICK s : s = r.prog
    OBVIOUS
  <2>2. loop' \in UndoLoop /\ prog' = [prog EXCEPT ![Cleaner] = s] /\ s \in Seq(Ops)
    BY <1>8, <1>9, <1>11, <2>1 DEF UndoOn
  <2> QED BY <1>4, <2>2
<1>12. CASE UndoOn(tail, g, IF g = MaxGen THEN <<invalidate_gen_id(tail, FALSE)>> ELSE <<>>)
  <2>1. PICK b, o, s, I : /\ b = FALSE /\ o = invalidate_gen_id(tail, b) /\ I = Pos
                          /\ s = IF g = MaxGen THEN <<o>> ELSE <<>>
    OBVIOUS
  <2>2. b \in BOOLEAN /\ I \in SUBSET Pos /\ tail \in I
    BY <1>6, <2>1
  <2>3. o \in InvalOps(I)
    BY <2>1, <2>2, InvalOp
  <2>4. <<o>> \in Seq(Ops)
    BY <2>1, <2>3 DEF Ops
  <2>5. s \in Seq(Ops)
    BY <2>1, <2>4, EmptyOver
  <2>6. loop' \in UndoLoop /\ prog' = [prog EXCEPT ![Cleaner] = s]
    BY <1>6, <1>9, <1>12, <2>1 DEF UndoOn
  <2> QED BY <1>4, <2>5, <2>6
<1> QED BY <1>5, <1>7, <1>10, <1>11, <1>12 DEF UndoRound

------------------------------------------------------------------------------
(* The steps of the flushing sequences.                                         *)

\* What is left of a sequence after one step: its fence, or the rest.
LEMMA NextProg ==
    ASSUME NEW S, Barrier \in S, NEW s \in Seq(S), s # <<>>, NEW q,
           q = IF s[1].bar THEN [s EXCEPT ![1] = Barrier] ELSE Tail(s)
    PROVE  /\ q \in Seq(S) /\ Len(s) \in Nat /\ Len(s) > 0 /\ s[1] \in S
           /\ s[1].bar => /\ Len(q) = Len(s) /\ q[1] = Barrier
                          /\ \A k \in 2..Len(s) : q[k] = s[k]
           /\ ~s[1].bar => Len(q) = Len(s) - 1 /\ \A k \in 1..(Len(s) - 1) : q[k] = s[k + 1]
<1>1. Len(s) \in Nat /\ Len(s) > 0 /\ s[1] \in S
  OBVIOUS
<1>2. CASE s[1].bar
  <2>1. q = [s EXCEPT ![1] = Barrier]
    BY <1>2
  <2>2. q \in Seq(S) /\ Len(q) = Len(s) /\ q[1] = Barrier /\ \A k \in 2..Len(s) : q[k] = s[k]
    BY <1>1, <2>1
  <2> QED BY <1>1, <1>2, <2>2
<1>3. CASE ~s[1].bar
  <2>1. q = Tail(s)
    BY <1>3
  <2>2. q \in Seq(S) /\ Len(q) = Len(s) - 1 /\ \A k \in 1..(Len(s) - 1) : q[k] = s[k + 1]
    BY <1>1, <2>1
  <2> QED BY <1>1, <1>3, <2>2
<1> QED BY <1>2, <1>3

\* What one step does to what the processors read.
LEMMA StepEffect ==
    ASSUME IInv, NEW c \in CPUs, Step(c)
    PROVE  \E o \in Ops :
            /\ o = prog[c][1] /\ MemOK(mem)'
            /\ \A x \in Lines : o \in FenceOps \/ x # o.l => Cur(mem, x)' = Cur(mem, x)
            /\ o \notin FenceOps => /\ o.l \in Lines
                                    /\ Cur(mem, o.l)' = Stored(Cur(mem, o.l), o, Len(o.order))
<1>1. prog[c] # <<>> /\ mem' = Exec(mem, c, prog[c][1]) /\ prog[c] \in Seq(Ops) /\ MemOK(mem)
  BY DEF Step, IInv, Types
<1>2. PICK o, m, n : o = prog[c][1] /\ m = mem /\ n = mem'
  OBVIOUS
<1>3. o \in Ops /\ MemOK(m) /\ n = Exec(m, c, o)
  BY <1>1, <1>2
<1>4. /\ MemOK(n)
      /\ \A x \in Lines : o \in FenceOps \/ x # o.l => Cur(n, x) = Cur(m, x)
      /\ o \notin FenceOps => Cur(n, o.l) = Stored(Cur(m, o.l), o, Len(o.order))
  BY <1>3, ExecOK
<1>5. o \notin FenceOps => o.l \in Lines
  BY <1>3, OpKinds DEF FenceOps
<1>6. /\ MemOK(mem')
      /\ \A x \in Lines : o \in FenceOps \/ x # o.l => Cur(mem', x) = Cur(mem, x)
      /\ o \notin FenceOps => Cur(mem', o.l) = Stored(Cur(mem, o.l), o, Len(o.order))
  BY <1>2, <1>4, Zenon
<1>7. MemOK(mem)'
  BY <1>6 DEF MemOK
<1>8. \A x : Cur(mem, x)' = Cur(mem', x)
  BY DEF Cur
<1> QED BY <1>2, <1>3, <1>5, <1>6, <1>7, <1>8, Zenon

\* The three that may be executing: the cleaner, the recovery, a transaction.
LEMMA WhoSteps ==
    ASSUME IInv, NEW c \in CPUs, Step(c)
    PROVE  \/ /\ mutex = c /\ Cleaning /\ prog[c][1] \in CleanOps
              /\ c \in Threads => Waiting(c)
           \/ c = Cleaner /\ mode = "recovering" /\ tx = [t \in Threads |-> Idle] /\ ~Cleaning
           \/ c \in Threads /\ Running(c) /\ Holds(c) /\ prog[c][1] \in RunOps(c) /\ mutex # c
<1> USE DEF IInv
<1>1. prog[c] # <<>> /\ prog[c] \in Seq(Ops)
  BY DEF Step, Types
<1>2. CASE mutex = c /\ Cleaning
  <2>1. prog[c] \in Seq(CleanOps)
    BY <1>2 DEF Programs
  <2>2. prog[c][1] \in CleanOps
    BY <1>1, <2>1
  <2> QED BY <1>2, <2>2 DEF Control
<1>3. CASE c = Cleaner /\ mode = "recovering"
  BY <1>3 DEF Control
<1>4. CASE c \in Threads /\ Running(c)
  <2>1. prog[c] \in Seq(RunOps(c))
    BY <1>4 DEF Programs, Runs
  <2>2. prog[c][1] \in RunOps(c)
    BY <1>1, <2>1
  <2>3. mutex # c
    BY <1>4 DEF Control, Waiting, Running
  <2> QED BY <1>1, <1>4, <2>2, <2>3 DEF Running, Holds
<1> QED BY <1>1, <1>2, <1>3, <1>4 DEF Programs

\* A running transaction's entries are entries of the journal.
LEMMA ReservedPos ==
    ASSUME IInv, NEW u \in Threads, Running(u)
    PROVE  tx[u] \in Tx /\ Reserved(u) \subseteq Pos /\ tx[u].cells \subseteq Cells
<1>1. tx[u] \in Tx
  BY DEF IInv, Types, Running, Idle
<1>2. tx[u].start + tx[u].n < JSize /\ tx[u].start \in Nat /\ tx[u].n \in Nat /\ tx[u].cells \subseteq Cells
  BY <1>1, TxFields DEF IInv, Transactions, TxOK
<1> QED BY <1>1, <1>2, JournalAssumption DEF Reserved, Pos

\* A step leaves the tail alone, except in recovery.
LEMMA StepTail ==
    ASSUME IInv, NEW c \in CPUs, Step(c), mode # "recovering"
    PROVE  Cur(mem, Jnl)'.tail = Cur(mem, Jnl).tail
<1>1. PICK o \in Ops :
            /\ o = prog[c][1]
            /\ \A x \in Lines : o \in FenceOps \/ x # o.l => Cur(mem, x)' = Cur(mem, x)
            /\ o \notin FenceOps => Cur(mem, o.l)' = Stored(Cur(mem, o.l), o, Len(o.order))
  BY StepEffect
<1>2. CASE o \in FenceOps
  BY <1>1, <1>2, LineKinds
<1>3. CASE o \notin FenceOps /\ o.l # Jnl
  BY <1>1, <1>3, LineKinds
<1>4. CASE o \notin FenceOps /\ o.l = Jnl
  <2>1. o \notin RunOps(c) \/ ~(c \in Threads /\ Running(c))
    <3>1. SUFFICES ASSUME c \in Threads, Running(c), o \in RunOps(c) PROVE FALSE
      OBVIOUS
    <3>2. Reserved(c) \subseteq Pos /\ tx[c].cells \subseteq Cells
      BY <3>1, ReservedPos
    <3>3. (\E i \in Pos : o.l = Le(i)) \/ (\E d \in Cells : o.l = Cell(d))
      BY <3>1, <3>2, <1>4 DEF RunOps, EntryOps, CellOps
    <3> QED BY <3>3, <1>4, LineKinds
  <2>2. o \in CleanOps
    BY <2>1, <1>1, WhoSteps
  <2>3. o \in HeadOps({loop.head})
    <3>1. o # Barrier
      BY <1>4 DEF FenceOps
    <3>2. o \notin InvalOps(Passed)
      BY <1>4, LineKinds DEF InvalOps, Passed
    <3> QED BY <2>2, <3>1, <3>2 DEF CleanOps
  <2>4. PICK H, old : H = {loop.head} /\ old = Cur(mem, Jnl)
    OBVIOUS
  <2>5. old \in JVal /\ o \in HeadOps(H)
    BY <2>3, <2>4, Values DEF IInv, Types
  <2>6. Stored(old, o, Len(o.order)).tail = old.tail
    BY <2>5, HeadEffect
  <2>7. Cur(mem, o.l)' = Cur(mem, Jnl)'
    BY <1>4 DEF Cur
  <2> QED BY <1>1, <1>4, <2>4, <2>6, <2>7
<1> QED BY <1>2, <1>3, <1>4

\* A step leaves the entries and the cells of the other transactions alone, until
\* the journal overruns one.
LEMMA StepApart ==
    ASSUME IInv, NEW c \in CPUs, Step(c), ~overrun, NEW u \in Threads, u # c \/ Waiting(u)
    PROVE  /\ tx[u].pc = "open" => \A i \in Reserved(u) : Entry(i)' = Entry(i)
           /\ tx[u] # Idle => \A d \in tx[u].cells : Cur(mem, Cell(d))' = Cur(mem, Cell(d))
<1>1. PICK o \in Ops :
            /\ o = prog[c][1]
            /\ \A x \in Lines : o \in FenceOps \/ x # o.l => Cur(mem, x)' = Cur(mem, x)
  BY StepEffect
<1>2. tx[u] # Idle => tx[u].cells \subseteq Cells
  BY TxFields DEF IInv, Types
<1>3. ReservedKept /\ RangesApart
  BY DEF IInv, Safe
<1>4. ASSUME tx[u].pc = "open", NEW i \in Reserved(u) PROVE Entry(i)' = Entry(i)
  <2>1. Running(u) /\ Holds(u) /\ ~Waiting(u)
    BY <1>4 DEF Running, Holds, Waiting
  <2>2. i \in Pos
    BY <1>4, <2>1, ReservedPos
  <2>3. o \in FenceOps \/ o.l # Le(i)
    <3>1. SUFFICES ASSUME o \notin FenceOps, o.l = Le(i) PROVE FALSE
      OBVIOUS
    <3>2. CASE Cleaning /\ o \in CleanOps
      <4>1. o # Barrier /\ o \notin HeadOps({loop.head})
        BY <3>1, <2>2, LineKinds DEF FenceOps, HeadOps
      <4>2. loop.pc = "clean" /\ o \in InvalOps(Passed)
        BY <3>2, <4>1 DEF CleanOps
      <4>3. PICK k \in Passed : o.l = Le(k)
        BY <4>2 DEF InvalOps
      <4>4. k = i
        BY <3>1, <4>3, LineKinds
      <4>5. loop.head \in Heads /\ loop.tail = Cur(mem, Jnl).tail
        BY <3>2, <4>2 DEF Heads, IInv, Control
      <4>6. Dist(loop.head, i) < Dist(loop.head, loop.tail)
        BY <1>3, <1>4, <2>1, <4>5 DEF ReservedKept
      <4>7. Dist(loop.head, i) >= Dist(loop.head, loop.tail)
        BY <4>3, <4>4 DEF Passed
      <4>8. loop.head \in Pos /\ loop.tail \in Pos /\ JSize \in Nat
        BY <3>2, LoopFields, JournalAssumption DEF IInv, Types, Cleaning, CleanLoop
      <4>9. Dist(loop.head, i) \in Int /\ Dist(loop.head, loop.tail) \in Int
        BY <4>8, <2>2 DEF Dist, Pos
      <4> QED BY <4>6, <4>7, <4>9
    <3>3. CASE tx = [t \in Threads |-> Idle]
      BY <3>3, <1>4 DEF Idle
    <3>4. CASE c \in Threads /\ Running(c) /\ Holds(c) /\ o \in RunOps(c)
      <4>1. tx[c].cells \subseteq Cells /\ Reserved(c) \subseteq Pos
        BY <3>4, ReservedPos
      <4>2. o \notin CellOps(Cells) /\ o \notin CellOps(tx[c].cells)
        BY <3>1, <2>2, <4>1, LineKinds DEF CellOps
      <4>3. o \in EntryOps(Reserved(c))
        BY <3>1, <3>4, <4>2 DEF RunOps
      <4>4. PICK k \in Reserved(c) : o.l = Le(k)
        BY <4>3 DEF EntryOps
      <4>5. k = i
        BY <3>1, <4>4, LineKinds
      <4>6. c # u
        BY <2>1
      <4> QED BY <1>3, <1>4, <2>1, <3>4, <4>4, <4>5, <4>6 DEF RangesApart
    <3> QED BY <1>1, <3>2, <3>3, <3>4, WhoSteps
  <2> QED BY <1>1, <2>2, <2>3, LineKinds DEF Entry
<1>5. ASSUME tx[u] # Idle, NEW d \in tx[u].cells PROVE Cur(mem, Cell(d))' = Cur(mem, Cell(d))
  <2>1. d \in Cells /\ Cell(d) \in Lines
    BY <1>2, <1>5, LineKinds
  <2>2. o \in FenceOps \/ o.l # Cell(d)
    <3>1. SUFFICES ASSUME o \notin FenceOps, o.l = Cell(d) PROVE FALSE
      OBVIOUS
    <3>2. CASE Cleaning /\ o \in CleanOps
      BY <3>1, <3>2, <2>1, LineKinds DEF CleanOps, FenceOps, HeadOps, InvalOps, Passed
    <3>3. CASE tx = [t \in Threads |-> Idle]
      BY <3>3, <1>5
    <3>4. CASE c \in Threads /\ Running(c) /\ Holds(c) /\ o \in RunOps(c)
      <4>1. tx[c].cells \subseteq Cells /\ Reserved(c) \subseteq Pos /\ tx[c] # Idle
        BY <3>4, ReservedPos, TxFields
      <4>2. o \notin EntryOps(Reserved(c))
        BY <3>1, <2>1, <4>1, LineKinds DEF EntryOps
      <4>3. o \in CellOps(tx[c].cells)
        BY <3>1, <3>4, <4>2 DEF RunOps
      <4>4. PICK e \in tx[c].cells : o.l = Cell(e)
        BY <4>3 DEF CellOps
      <4>5. e = d
        BY <3>1, <4>4, LineKinds
      <4>6. c # u
        BY <3>4 DEF Running, Waiting
      <4> QED BY <1>5, <4>1, <4>4, <4>5, <4>6, <3>4 DEF IInv, CellsApart
    <3> QED BY <1>1, <3>2, <3>3, <3>4, WhoSteps
  <2> QED BY <1>1, <2>1, <2>2
<1> QED BY <1>4, <1>5

\* A step of a transaction in its own entries and cells.
LEMMA StepOwn ==
    ASSUME IInv, NEW c \in Threads, Step(c), Running(c), overrun => overrun'
    PROVE  /\ Runs(c)' /\ TxOK(c)'
           /\ ~overrun /\ ~overrun' => LogOf(c)' /\ OldOf(c)'
<1>1. c \in CPUs /\ prog \in [CPUs -> Seq(Ops)] /\ MemOK(mem)
  BY JournalAssumption DEF IInv, Types
<1>2. PICK o \in Ops :
            /\ o = prog[c][1]
            /\ \A x \in Lines : o \in FenceOps \/ x # o.l => Cur(mem, x)' = Cur(mem, x)
            /\ o \notin FenceOps => Cur(mem, o.l)' = Stored(Cur(mem, o.l), o, Len(o.order))
  BY <1>1, StepEffect
<1>3. PICK x, p, q : x = tx[c] /\ p = prog[c] /\ q = prog'[c]
  OBVIOUS
<1>4. /\ tx'[c] = x /\ p # <<>> /\ o = p[1]
      /\ q = IF p[1].bar THEN [p EXCEPT ![1] = Barrier] ELSE Tail(p)
  BY <1>1, <1>2, <1>3 DEF Step
<1>5. x \in Tx /\ Reserved(c) \subseteq Pos /\ x.cells \subseteq Cells /\ Reserved(c)' = Reserved(c)
  BY <1>3, <1>4, ReservedPos DEF Reserved
<1>6. Runs(c)'
  <2>1. PICK S : S = RunOps(c)
    OBVIOUS
  <2>2. p \in Seq(S) /\ Barrier \in S
    BY <1>3, <2>1 DEF IInv, Programs, Runs, RunOps, FenceOps
  <2>3. q \in Seq(S)
    BY <1>4, <2>2, NextProg
  <2>4. S \subseteq RunOps(c)'
    BY <1>3, <1>4, <1>5, <2>1, RunOpsGrow
  <2>5. q \in Seq(RunOps(c)')
    BY <2>3, <2>4, SeqSub
  <2> QED BY <1>3, <2>5 DEF Runs
<1>7. Barrier \in Ops /\ p \in Seq(Ops)
  BY <1>1, <1>3 DEF Ops, FenceOps
<1>8. /\ p[1].bar => /\ Len(q) = Len(p) /\ q[1] = Barrier
                     /\ \A k \in 2..Len(p) : q[k] = p[k]
      /\ ~p[1].bar => Len(q) = Len(p) - 1 /\ \A k \in 1..(Len(p) - 1) : q[k] = p[k + 1]
      /\ q \in Seq(Ops) /\ Len(p) \in Nat /\ Len(p) > 0
  BY <1>4, <1>7, NextProg
<1>9. TxOK(c) /\ x.logged \in Seq(Cells) /\ Len(x.logged) \in Nat
  BY <1>3, <1>5, TxFields DEF IInv, Transactions
<1>10. Barrier.bar = FALSE /\ ~Barrier.bar
  BY DEF Barrier
<1>11. ASSUME x.pc = "open"
       PROVE  \/ /\ Len(p) = 1 /\ Changes(x, p[1]) /\ q = <<>> /\ Len(q) = 0
              \/ /\ Len(p) = 2 /\ Changes(x, p[2]) /\ p[1] = Barrier
                 /\ Len(q) = 1 /\ q[1] = p[2]
              \/ /\ Len(p) = 2 /\ Changes(x, p[2]) /\ Fills(x, p[1])
                 /\ Len(q) = 2 /\ q[2] = p[2] /\ q[1] = Barrier
  <2>1. Shape(x, p)
    BY <1>3, <1>5, <1>9, <1>11, TxFields DEF TxOK
  <2>2. CASE Len(p) = 1 /\ Changes(x, p[1])
    <3>1. ~p[1].bar
      BY <2>2 DEF Changes
    <3>2. Len(q) = 0
      BY <2>2, <3>1, <1>8
    <3>3. q = <<>>
      BY <3>2, <1>8
    <3> QED BY <2>2, <3>2, <3>3
  <2>3. CASE Len(p) = 2 /\ Changes(x, p[2]) /\ p[1] = Barrier
    <3>1. ~p[1].bar
      BY <2>3, <1>10
    <3>2. Len(q) = 1 /\ q[1] = p[1 + 1]
      BY <2>3, <3>1, <1>8
    <3> QED BY <2>3, <3>2
  <2>4. CASE Len(p) = 2 /\ Changes(x, p[2]) /\ Fills(x, p[1])
    <3>1. p[1].bar
      BY <2>4 DEF Fills
    <3> QED BY <2>4, <3>1, <1>8
  <2> QED BY <2>1, <2>2, <2>3, <2>4, <1>4 DEF Shape
<1>12. x.pc = "open" => Len(x.logged) > 0
  BY <1>3, <1>4, <1>5, <1>9, TxFields DEF TxOK, Shape
<1>13. TxOK(c)'
  <2>1. x.pc = "open" => Shape(x, q)'
    <3>1. SUFFICES ASSUME x.pc = "open" PROVE Shape(x, q)'
      OBVIOUS
    <3>2. Len(x.logged) > 0
      BY <3>1, <1>12
    <3>3. \/ q = <<>>
          \/ Len(q) = 1 /\ Changes(x, q[1])
          \/ Len(q) = 2 /\ Changes(x, q[2]) /\ q[1] = Barrier
      BY <3>1, <1>11
    <3>4. \/ q = <<>>
          \/ Len(q) = 1 /\ Changes(x, q[1])'
          \/ Len(q) = 2 /\ Changes(x, q[2])' /\ q[1] = Barrier
      BY <3>3 DEF Changes, LastCell, CellOps, CVal, Writes
    <3> QED BY <3>2, <3>4 DEF Shape, Changes, Barrier
  <2>2. Running(c)' /\ ~Waiting(c)' /\ ~Waiting(c)
    BY <1>3, <1>4 DEF Running, Waiting
  <2> QED BY <1>3, <1>4, <1>5, <1>9, <2>1, <2>2, TxFields DEF TxOK, Logged
<1>14. ASSUME ~overrun, ~overrun', x.pc = "open" PROVE LogOf(c)' /\ OldOf(c)'
  <2>1. LogOf(c) /\ OldOf(c) /\ LogOf(c)
    BY <1>14 DEF IInv, Safe
  <2>2. Len(x.logged) > 0 /\ x.start \in Nat /\ x.n \in Nat /\ x.start + x.n < JSize /\ JSize \in Nat
        /\ Len(x.logged) <= x.n
    BY <1>3, <1>5, <1>9, <1>12, <1>14, TxFields, JournalAssumption DEF TxOK, Running
  <2>3. \A k \in 1..Len(x.logged) : x.start + k - 1 \in Pos
    BY <2>2, <1>9 DEF Pos
  <2>4. LastCell(x) \in Logged(x) /\ LastCell(x) \in Cells
    BY <2>2, <1>9 DEF LastCell, Logged
  <2>5. CASE Len(p) = 1 /\ Changes(x, p[1]) /\ q = <<>>
    <3>1. o \notin FenceOps /\ o.l = Cell(LastCell(x))
      BY <2>5, <1>4 DEF Changes, CellOps, FenceOps, Writes, Barrier, Nothing
    <3>2. \A k \in 1..Len(x.logged) : Entry(x.start + k - 1)' = Entry(x.start + k - 1)
      BY <1>2, <2>3, <2>4, <3>1, LineKinds DEF Entry
    <3>3. LogOf(c)'
      BY <1>3, <1>4, <1>14, <2>1, <2>5, <3>2 DEF LogOf, Good
    <3>4. ASSUME NEW d \in x.cells \ Logged(x) PROVE Cur(mem, Cell(d))' = Cur(mem, Cell(d))
      <4>1. d # LastCell(x) /\ d \in Cells
        BY <3>4, <2>4, <1>5
      <4> QED BY <4>1, <3>1, <1>2, LineKinds
    <3>5. OldOf(c)'
      BY <1>3, <1>4, <1>14, <2>1, <3>4 DEF OldOf
    <3> QED BY <3>3, <3>5
  <2>6. CASE Len(p) = 2 /\ p[1] = Barrier /\ Len(q) = 1
    <3>1. o \in FenceOps
      BY <2>6, <1>4 DEF FenceOps
    <3>2. \A k \in 1..Len(x.logged) : Entry(x.start + k - 1)' = Entry(x.start + k - 1)
      BY <1>2, <2>3, <3>1, LineKinds DEF Entry
    <3>3. LogOf(c)'
      BY <1>3, <1>4, <1>14, <2>1, <2>6, <3>2 DEF LogOf, Good
    <3>4. \A d \in x.cells : Cur(mem, Cell(d))' = Cur(mem, Cell(d))
      BY <1>2, <1>5, <3>1, LineKinds
    <3>5. OldOf(c)'
      BY <1>3, <1>4, <1>14, <2>1, <3>4 DEF OldOf
    <3> QED BY <3>3, <3>5
  <2>7. CASE Len(p) = 2 /\ Fills(x, p[1]) /\ Len(q) = 2 /\ q[1] = Barrier
    <3>1. /\ o \in Writes /\ o.l = LastLe(x) /\ o.order = LeFields /\ o.r \in EVal
          /\ Good(x, o.r, LastCell(x))
      BY <2>7, <1>4 DEF Fills
    <3>2. o \notin FenceOps
      BY <3>1 DEF Writes, FenceOps, Barrier, Nothing
    <3>3. PICK i, old : i = x.start + Len(x.logged) - 1 /\ old = Cur(mem, Le(i))
      OBVIOUS
    <3>4. i \in Pos /\ o.l = Le(i) /\ old \in EVal
      BY <3>1, <3>3, <2>2, <2>3, <1>1, <1>9, Values DEF LastLe
    <3>5. Good(x, Entry(i), LastCell(x))'
      <4>1. Entry(i)' = Stored(old, o, Len(o.order))
        BY <1>2, <3>2, <3>3, <3>4 DEF Entry, Cur
      <4>2. Entry(i)'.addr = o.r.addr /\ Entry(i)'.data = o.r.data /\ Entry(i)'.gen = o.r.gen
        BY <3>1, <3>4, <4>1, FillEffect
      <4> QED BY <3>1, <4>2, <1>14 DEF Good, LastCell
    <3>6. ASSUME NEW k \in 1..Len(x.logged), k # Len(x.logged)
          PROVE  Good(x, Entry(x.start + k - 1), x.logged[k])'
      <4>1. x.start + k - 1 # i /\ x.start + k - 1 \in Pos
        BY <3>6, <3>3, <2>2, <2>3, <1>9
      <4>2. Entry(x.start + k - 1)' = Entry(x.start + k - 1)
        BY <4>1, <3>4, <1>2, LineKinds DEF Entry
      <4>3. Good(x, Entry(x.start + k - 1), x.logged[k])
        BY <3>6, <2>1, <1>3, <1>14 DEF LogOf
      <4> QED BY <4>2, <4>3, <1>14 DEF Good
    <3>7. LogOf(c)'
      <4>1. ASSUME NEW k \in 1..Len(x.logged) PROVE Good(x, Entry(x.start + k - 1), x.logged[k])'
        <5>1. CASE k = Len(x.logged)
          BY <5>1, <3>3, <3>5 DEF LastCell
        <5> QED BY <5>1, <3>6
      <4> QED BY <4>1, <1>3, <1>4 DEF LogOf
    <3>8. \A d \in x.cells : Cur(mem, Cell(d))' = Cur(mem, Cell(d))
      BY <1>2, <1>5, <3>4, LineKinds
    <3>9. OldOf(c)'
      BY <1>3, <1>4, <1>14, <2>1, <3>8 DEF OldOf
    <3> QED BY <3>7, <3>9
  <2> QED BY <1>11, <1>14, <2>5, <2>6, <2>7
<1>15. ASSUME x.pc # "open" PROVE LogOf(c)' /\ OldOf(c)'
  BY <1>3, <1>4, <1>15 DEF LogOf, OldOf, Running
<1> QED BY <1>6, <1>13, <1>14, <1>15

\* One step of a flushing sequence: Step.
LEMMA StepOK ==
    ASSUME IInv, NEW c \in CPUs, Step(c), History
    PROVE  IInv'
<1> USE DEF IInv
<1>1. /\ prog[c] # <<>> /\ tx' = tx /\ loop' = loop /\ mutex' = mutex /\ awake' = awake
      /\ mode' = mode /\ txs' = txs
      /\ prog' = [prog EXCEPT ![c] = IF @[1].bar THEN [@ EXCEPT ![1] = Barrier] ELSE Tail(@)]
  BY DEF Step
<1>2. /\ prog \in [CPUs -> Seq(Ops)] /\ tx \in [Threads -> Tx \cup {Idle}]
      /\ mutex \in CPUs \cup {None}
  BY DEF Types
<1>3. overrun' \in BOOLEAN /\ (overrun => overrun') /\ (~overrun' => ~overrun /\ ReservedKept')
  BY HistoryOK DEF Types
<1>4. MemOK(mem)'
  BY StepEffect
<1>5. PICK p, q : /\ p = prog[c] /\ q = prog'[c] /\ p # <<>>
                  /\ q = IF p[1].bar THEN [p EXCEPT ![1] = Barrier] ELSE Tail(p)
  BY <1>1, <1>2
<1>6. \A u \in CPUs : u # c => prog'[u] = prog[u]
  BY <1>1, <1>2
<1>7. q \in Seq(Ops)
  <2>1. PICK S : S = Ops
    OBVIOUS
  <2>2. p \in Seq(S) /\ Barrier \in S
    BY <1>2, <1>5, <2>1 DEF Ops, FenceOps
  <2>3. q \in Seq(S)
    BY <1>5, <2>2, NextProg
  <2> QED BY <2>1, <2>3
<1>8. prog' \in [CPUs -> Seq(Ops)]
  <2>1. DOMAIN prog' = CPUs /\ prog' = [u \in CPUs |-> prog'[u]]
    BY <1>1, <1>2
  <2> QED BY <1>2, <1>5, <1>6, <1>7, <2>1
<1>9. Types'
  BY <1>1, <1>3, <1>4, <1>8 DEF Types
<1>10. mode # "recovering" => Cur(mem, Jnl)'.tail = Cur(mem, Jnl).tail
  BY StepTail
<1>11. Cleaning => mode # "recovering"
  BY DEF Control
<1>12. Control'
  BY <1>1, <1>10, <1>11 DEF Control, Cleaning, Waiting
<1>13. Programs'
  <2>1. Cleaning' => prog'[mutex'] \in Seq(CleanOps')
    <3>1. SUFFICES ASSUME Cleaning PROVE prog'[mutex] \in Seq(CleanOps)
      BY <1>1 DEF Cleaning, CleanOps, Passed, InvalOps, HeadOps, Writes, Barrier
    <3>2. CASE mutex = c
      <4>1. PICK S : S = CleanOps
        OBVIOUS
      <4>2. p \in Seq(S) /\ Barrier \in S
        BY <1>5, <3>1, <3>2, <4>1 DEF Programs, CleanOps
      <4>3. q \in Seq(S)
        BY <1>5, <4>2, NextProg
      <4> QED BY <1>5, <3>2, <4>1, <4>3
    <3>3. CASE mutex # c
      BY <1>2, <1>6, <3>1, <3>3 DEF Programs, Control
    <3> QED BY <3>2, <3>3
  <2>2. \A u \in CPUs : prog'[u] # <<>> =>
            \/ mutex' = u /\ Cleaning'
            \/ u = Cleaner /\ mode' = "recovering"
            \/ u \in Threads /\ Running(u)'
    BY <1>1, <1>6 DEF Programs, Cleaning, Running
  <2>3. ASSUME NEW u \in Threads PROVE Runs(u)'
    <3>1. CASE u = c /\ Running(u)
      BY <3>1, <1>3, StepOwn
    <3>2. CASE u # c
      <4>1. prog'[u] = prog[u]
        BY <3>2, <1>6, JournalAssumption
      <4> QED BY <4>1, <1>1, <1>2, <1>3, RunsKept DEF Programs
    <3>3. CASE ~Running(u)
      BY <3>3, <1>1 DEF Runs, Running
    <3> QED BY <3>1, <3>2, <3>3
  <2> QED BY <2>1, <2>2, <2>3 DEF Programs
<1>14. \A u \in Threads : u # c => prog'[u] = prog[u]
  BY <1>6, JournalAssumption
<1>15. ASSUME NEW u \in Threads, tx[u] # Idle PROVE Waiting(u) \/ Running(u)
  BY <1>2, <1>15, TxFields DEF Waiting, Running
<1>16. ASSUME NEW u \in Threads, tx[u] # Idle PROVE mode # "recovering"
  BY <1>16 DEF Control
<1>17. Transactions'
  <2>1. SUFFICES ASSUME NEW u \in Threads, tx[u] # Idle PROVE TxOK(u)'
    BY <1>1 DEF Transactions, TxOK
  <2>2. Cur(mem, Jnl)'.tail = Cur(mem, Jnl).tail
    BY <2>1, <1>10, <1>16
  <2>3. CASE u = c /\ Running(u)
    BY <2>3, <1>3, StepOwn
  <2>4. CASE u # c
    BY <2>2, <2>4, <1>1, <1>2, <1>3, <1>14, OtherTx DEF Transactions
  <2>5. CASE Waiting(u)
    BY <2>2, <2>5, <1>1 DEF Transactions, TxOK, Waiting, Running, Logged
  <2> QED BY <2>1, <2>3, <2>4, <2>5, <1>15
<1>18. CellsApart'
  BY <1>1 DEF CellsApart
<1>19. ASSUME ~overrun' PROVE Safe'
  <2>1. ~overrun /\ ReservedKept'
    BY <1>3, <1>19
  <2>2. RangesApart'
    <3>1. \A u \in Threads : Holds(u)' => Holds(u) /\ Reserved(u)' = Reserved(u)
      BY <1>1, <1>14 DEF Holds, Reserved
    <3> QED BY <3>1, <2>1, RangesKept DEF Safe
  <2>3. ASSUME NEW u \in Threads PROVE LogOf(u)' /\ OldOf(u)'
    <3>1. CASE u = c /\ Running(u)
      BY <3>1, <1>3, <1>19, <2>1, StepOwn
    <3>2. CASE u # c
      <4>1. /\ tx[u].pc = "open" => \A i \in Reserved(u) : Entry(i)' = Entry(i)
            /\ tx[u] # Idle => \A d \in tx[u].cells : Cur(mem, Cell(d))' = Cur(mem, Cell(d))
        BY <3>2, <2>1, StepApart
      <4> QED BY <4>1, <3>2, <1>1, <1>2, <1>14, <1>19, <2>1, OtherSafe DEF Safe, Transactions
    <3>3. CASE Waiting(u)
      <4>1. tx[u] # Idle => \A d \in tx[u].cells : Cur(mem, Cell(d))' = Cur(mem, Cell(d))
        BY <3>3, <2>1, StepApart
      <4>2. tx[u] # Idle
        BY <3>3 DEF Waiting, Idle
      <4>3. OldOf(u)
        BY <2>1 DEF Safe
      <4> QED BY <3>3, <4>1, <4>2, <4>3, <1>1 DEF LogOf, OldOf, Waiting
    <3>4. CASE tx[u] = Idle
      BY <3>4, <1>1 DEF LogOf, OldOf, Idle
    <3> QED BY <3>1, <3>2, <3>3, <3>4, <1>15
  <2> QED BY <2>1, <2>2, <2>3 DEF Safe
<1> QED BY <1>9, <1>12, <1>13, <1>17, <1>18, <1>19 DEF Safe

------------------------------------------------------------------------------
(* The theorem.                                                                 *)

\* The entries of a journal that has been used.
LEMMA OldEntryOK ==
    ASSUME NEW s \in Starts, NEW i \in Pos
    PROVE  OldEntry(s, i) \in EVal
<1>1. NoEntry \in EVal
  BY JournalAssumption DEF NoEntry, EVal
<1> DEFINE g == IF i < s.pos THEN s.gen ELSE s.gen - 1
<1>2. s.gen \in 1..MaxGen /\ MaxGen \in Nat
  BY JournalAssumption
<1>3. g \in 0..MaxGen
  BY <1>2
<1> DEFINE ty == {"start", "commit"}
<1>4. ty \in SUBSET {"start", "commit", "abort"}
  OBVIOUS
<1>5. \/ OldEntry(s, i) = NoEntry
      \/ OldEntry(s, i) = [addr |-> None, data |-> 0, type |-> ty, gen |-> g]
  BY DEF OldEntry, NoEntry
<1> HIDE DEF g, ty
<1>6. [addr |-> None, data |-> 0, type |-> ty, gen |-> g] \in EVal
  BY <1>3, <1>4, JournalAssumption DEF EVal
<1> QED BY <1>1, <1>5, <1>6

\* The invariant holds when the file system is first mounted.
LEMMA InitOK == Init => IInv
<1> SUFFICES ASSUME Init PROVE IInv
  OBVIOUS
<1>1. PICK s \in Starts :
        mem = Fresh([l \in Lines |->
                CASE l = Jnl -> [head |-> s.pos, tail |-> s.pos, gen |-> s.gen]
                  [] l[1] = "le" -> OldEntry(s, l[2])
                  [] l[1] = "cell" -> [v |-> 0]])
  BY DEF Init
<1> DEFINE val(l) == CASE l = Jnl -> [head |-> s.pos, tail |-> s.pos, gen |-> s.gen]
                       [] l[1] = "le" -> OldEntry(s, l[2])
                       [] l[1] = "cell" -> [v |-> 0]
           img == [l \in Lines |-> val(l)]
<1>2. ASSUME NEW l \in Lines PROVE val(l) \in Val(l)
  <2>1. CASE l = Jnl
    <3>1. val(l) = [head |-> s.pos, tail |-> s.pos, gen |-> s.gen]
      BY <2>1 DEF Jnl
    <3>2. [head |-> s.pos, tail |-> s.pos, gen |-> s.gen] \in JVal
      BY JournalAssumption DEF JVal, Pos
    <3> QED BY <2>1, <3>1, <3>2, LineValues, Zenon
  <2>2. ASSUME NEW i \in Pos, l = Le(i) PROVE val(l) \in Val(l)
    <3>1. l # Jnl /\ l[1] = "le" /\ l[2] = i
      BY <2>2, LineKinds DEF Le
    <3>2. val(l) = OldEntry(s, i)
      BY <3>1
    <3> QED BY <2>2, <3>2, LineValues, OldEntryOK, Zenon
  <2>3. ASSUME NEW d \in Cells, l = Cell(d) PROVE val(l) \in Val(l)
    <3>1. l # Jnl /\ l[1] = "cell"
      BY <2>3, LineKinds DEF Cell
    <3>2. val(l) = [v |-> 0]
      BY <3>1
    <3>3. [v |-> 0] \in CVal
      BY JournalAssumption DEF CVal
    <3>4. Val(l) = CVal
      BY <2>3, LineValues, Zenon
    <3> HIDE DEF val
    <3> QED BY <3>2, <3>3, <3>4
  <2> QED BY <2>1, <2>2, <2>3, LineKinds
<1> HIDE DEF val
<1>3. mem = [now |-> img, d |-> <<>>]
  BY <1>1 DEF Fresh, val
<1>4. mem.now = img /\ mem.d = <<>> /\ DOMAIN mem.d = {}
  BY <1>3
<1>5. MemOK(mem)
  BY <1>2, <1>3, <1>4 DEF MemOK
<1> HIDE DEF img
<1>6. Rest
  <2>1. txs = 0 /\ overrun = FALSE /\ mode = "up"
    BY Zenon DEF Init
  <2>2. 0 \in 0..MaxTx
    BY JournalAssumption
  <2>3. txs \in 0..MaxTx /\ overrun \in BOOLEAN /\ mode \in {"up", "down"}
    BY <2>1, <2>2, Zenon
  <2> QED BY <1>5, <2>3, Zenon DEF Rest, Init
<1> QED BY <1>6, AtRest

\* The invariant gives what is promised.
LEMMA Sound == IInv => JournalSound
<1> SUFFICES ASSUME IInv PROVE JournalSound
  OBVIOUS
<1>1. MemOK(mem)
  BY DEF IInv, Types
<1>2. TypeOK
  <2>1. Cur(mem, Jnl) \in [head : 0..JSize-1, tail : 0..JSize-1, gen : 1..MaxGen]
    BY <1>1, Values DEF JVal, Pos
  <2>2. \A i \in 0..JSize-1 : Entry(i).gen \in 0..MaxGen
    BY <1>1, Values DEF EVal, Pos, Entry
  <2>3. \A c \in Cells : Cur(mem, Cell(c)).v \in 0..MaxTx
    BY <1>1, Values DEF CVal
  <2> QED BY <2>1, <2>2, <2>3 DEF TypeOK, IInv, Types
<1>3. OpenLogIntact
  <2>1. SUFFICES ASSUME NEW t \in Threads, Open(t), ~overrun, NEW k \in 1..Len(tx[t].logged)
                 PROVE  LET e == Entry(tx[t].start + k - 1)
                            c == tx[t].logged[k]
                        IN e.addr = c /\ e.data = tx[t].old[c] /\ e.gen = tx[t].gen
    BY DEF OpenLogIntact
  <2>2. LogOf(t) /\ tx[t].pc = "open" /\ prog[t] = <<>> /\ Len(<<>>) = 0
    BY <2>1 DEF IInv, Safe, Open, Ready
  <2>3. Good(tx[t], Entry(tx[t].start + k - 1), tx[t].logged[k])
    BY <2>1, <2>2 DEF LogOf
  <2> QED BY <2>1, <2>3 DEF Good
<1> QED BY <1>2, <1>3 DEF JournalSound

\* A step that changes nothing keeps the invariant.
LEMMA Stutter == IInv /\ UNCHANGED vars => IInv'
<1> SUFFICES ASSUME IInv, UNCHANGED vars PROVE IInv'
  OBVIOUS
<1>1. /\ mem' = mem /\ prog' = prog /\ tx' = tx /\ loop' = loop /\ mutex' = mutex /\ awake' = awake
      /\ mode' = mode /\ txs' = txs /\ overrun' = overrun
  BY DEF vars
<1>2. Types'
  BY <1>1 DEF IInv, Types, MemOK
<1>3. Control'
  BY <1>1 DEF IInv, Control, Cleaning, Waiting
<1>4. History
  <2>1. ReservedKept' <=> ReservedKept
    BY <1>1 DEF ReservedKept, Holds, Heads, Reserved
  <2>2. overrun \in BOOLEAN /\ (~overrun => ReservedKept)
    BY DEF IInv, Types, Safe
  <2>3. ReservedKept \in BOOLEAN /\ ReservedKept' \in BOOLEAN
    BY DEF ReservedKept
  <2> QED BY <1>1, <2>1, <2>2, <2>3 DEF History
<1>5. Cleaning' => prog'[mutex'] \in Seq(CleanOps')
  BY <1>1 DEF IInv, Programs, Cleaning, CleanOps, Passed, InvalOps, HeadOps, Writes, Barrier
<1>6. \A u \in CPUs : prog'[u] # <<>> =>
                \/ mutex' = u /\ Cleaning'
                \/ u = Cleaner /\ mode' = "recovering"
                \/ u \in Threads /\ Running(u)'
  BY <1>1 DEF IInv, Programs, Cleaning, Running
<1>7. Cleaner \in CPUs /\ \A u \in CPUs \cup Threads : prog'[u] = prog[u]
  BY <1>1, JournalAssumption
<1> QED BY <1>1, <1>2, <1>3, <1>4, <1>5, <1>6, <1>7, LoopStep, JournalAssumption

\* Every step keeps the invariant.
LEMMA NextOK == IInv /\ Next => IInv'
<1> SUFFICES ASSUME IInv, Next PROVE IInv'
  OBVIOUS
<1>1. History /\ Actions
  BY DEF Next, History
<1>2. ASSUME NEW t \in Threads,
             \/ NewTransaction(t) \/ CheckRoom(t) \/ FreeLogEntries(t) \/ Reserve(t)
             \/ LogCell(t) \/ pmfs_commit_transaction(t) \/ pmfs_abort_transaction(t) \/ Return(t)
      PROVE  IInv'
  BY <1>1, <1>2, NewTransactionOK, CheckRoomOK, FreeLogEntriesOK, ReserveOK, LogCellOK, CommitOK,
     AbortOK, ReturnOK, Zenon
<1>3. ASSUME NEW c \in CPUs, Step(c) \/ CleanRound(c) PROVE IInv'
  BY <1>1, <1>3, StepOK, CleanRoundOK, Zenon
<1>4. CASE UndoRound \/ LogCleaner \/ CleanerDone \/ Unmount
  BY <1>1, <1>4, UndoRoundOK, LogCleanerOK, CleanerDoneOK, UnmountOK, Zenon
<1>5. CASE Crash \/ Mount \/ RecoveryDone \/ Resume
  BY <1>1, <1>5, PowerFailure, MountOK, Zenon
<1> QED BY <1>1, <1>2, <1>3, <1>4, <1>5 DEF Actions

\* For every number of threads, cells and transactions, every size of the journal and
\* every MAX_GEN_ID, through power failures at any moment: the journal's header, its
\* entries and the cells are well-formed, and until the journal overruns a transaction
\* the undo entries of an open one are as pmfs_add_logentry wrote them.
THEOREM JournalIsSound == Spec => []JournalSound
<1>1. IInv /\ [Next]_vars => IInv'
  BY NextOK, Stutter
<1> QED BY <1>1, InitOK, Sound, PTL DEF Spec

------------------------------------------------------------------------------
(* What a power failure can leave, for any memory, lines and processors.        *)

\* A memory as Fresh, Stores, Clwb and Fence make it, with lines of values V: the last
\* value a failure can leave is the one that is read, and every write-back covers some.
Kept(V, m) ==
    /\ DOMAIN m.d \subseteq DOMAIN m.now
    /\ \A l \in DOMAIN m.now : m.now[l] \in V
    /\ \A l \in DOMAIN m.d :
        /\ m.d[l].h \in Seq(V) /\ Len(m.d[l].h) > 0
        /\ m.d[l].h[Len(m.d[l].h)] = m.now[l]
        /\ m.d[l].f \in [CPUs -> 1..Len(m.d[l].h)]
    /\ \E n \in Nat : \A l \in DOMAIN m.d : Len(m.d[l].h) <= n

\* Which of its values each line keeps, and the image that makes.
Picks(m) == {p \in [DOMAIN m.d -> Nat] : \A l \in DOMAIN m.d : p[l] \in 1..Len(m.d[l].h)}
Picked(m, p) ==
    [l \in DOMAIN m.now |-> IF l \in DOMAIN m.d THEN m.d[l].h[p[l]] ELSE m.now[l]]

\* The images of a power failure are all choices of a value for each line.
LEMMA Images ==
    ASSUME NEW V, NEW m, Kept(V, m)
    PROVE  CrashImages(m) = {Picked(m, p) : p \in Picks(m)}
<1> DEFINE S == {1} \cup {Len(m.d[l].h) : l \in DOMAIN m.d}
           longest == Max(S)
           pick == {p \in [DOMAIN m.d -> 1..longest] :
                        \A l \in DOMAIN m.d : p[l] \in DOMAIN m.d[l].h}
<1>1. \A l \in DOMAIN m.d : Len(m.d[l].h) \in Nat /\ DOMAIN m.d[l].h = 1..Len(m.d[l].h)
  BY DEF Kept
<1>2. PICK n \in Nat : \A l \in DOMAIN m.d : Len(m.d[l].h) <= n
  BY DEF Kept
<1>3. PICK k \in Nat : k = n + 1
  OBVIOUS
<1>4. S \in SUBSET (0..k) /\ S # {}
  BY <1>1, <1>2, <1>3
<1>5. longest \in Nat /\ \A l \in DOMAIN m.d : Len(m.d[l].h) <= longest
  <2>1. longest \in S /\ \A y \in S : longest >= y
    BY <1>4, MaxOf
  <2> QED BY <2>1, <1>4
<1> HIDE DEF longest
<1>6. pick = Picks(m)
  BY <1>1, <1>5 DEF Picks
<1>7. CrashImages(m) = {Picked(m, p) : p \in pick}
  BY DEF CrashImages, Picked, longest, Picks
<1> QED BY <1>6, <1>7

\* A memory after a restart has one image.
LEMMA FreshKept ==
    ASSUME NEW V, NEW L, NEW img \in [L -> V]
    PROVE  Kept(V, Fresh(img))
<1>1. Fresh(img).now = img /\ DOMAIN Fresh(img).d = {}
  BY DEF Fresh
<1> QED BY <1>1 DEF Kept

\* A write-back alone changes nothing of what a power failure can leave: lines may be
\* lost until the fence (pmfs_flush_buffer without fence).
THEOREM ClwbLosesNothing ==
    ASSUME NEW V, NEW m, Kept(V, m), NEW c \in CPUs, NEW L
    PROVE  Kept(V, Clwb(m, c, L)) /\ CrashImages(Clwb(m, c, L)) = CrashImages(m)
<1> DEFINE n == Clwb(m, c, L)
<1>1. n.now = m.now /\ DOMAIN n.d = DOMAIN m.d
  BY DEF Clwb
<1>2. ASSUME NEW l \in DOMAIN m.d
      PROVE  n.d[l].h = m.d[l].h /\ n.d[l].f \in [CPUs -> 1..Len(m.d[l].h)]
  <2>1. /\ m.d[l].h \in Seq(V) /\ Len(m.d[l].h) > 0 /\ Len(m.d[l].h) \in Nat
        /\ m.d[l].f \in [CPUs -> 1..Len(m.d[l].h)]
    BY DEF Kept
  <2>2. n.d[l] = IF l \notin L THEN m.d[l]
                 ELSE [h |-> m.d[l].h, f |-> [m.d[l].f EXCEPT ![c] = Len(m.d[l].h)]]
    BY DEF Clwb
  <2> QED BY <2>1, <2>2
<1> HIDE DEF n
<1>3. Kept(V, n)
  BY <1>1, <1>2 DEF Kept
<1>4. Picks(n) = Picks(m)
  BY <1>1, <1>2 DEF Picks
<1>5. \A p : Picked(n, p) = Picked(m, p)
  BY <1>1, <1>2 DEF Picked
<1>6. CrashImages(n) = CrashImages(m)
  BY <1>3, <1>4, <1>5, Images
<1> QED BY <1>3, <1>6 DEF n

\* Values followed by others.
LEMMA Joined ==
    ASSUME NEW V, NEW g \in Seq(V), NEW vs \in Seq(V), Len(g) > 0, Len(vs) > 0
    PROVE  /\ g \o vs \in Seq(V) /\ Len(g \o vs) = Len(g) + Len(vs)
           /\ \A k \in 1..Len(g) : (g \o vs)[k] = g[k]
           /\ (g \o vs)[Len(g) + Len(vs)] = vs[Len(vs)]
  OBVIOUS

\* Stores only add to what a power failure can leave, so between two fences the last
\* moment has the failures of all the others.
THEOREM StoresLoseNothing ==
    ASSUME NEW V, NEW m, Kept(V, m), NEW l \in DOMAIN m.now, NEW vs \in Seq(V), Len(vs) > 0
    PROVE  Kept(V, Stores(m, l, vs)) /\ CrashImages(m) \subseteq CrashImages(Stores(m, l, vs))
<1> DEFINE n == Stores(m, l, vs)
<1>1. CASE \A k \in DOMAIN vs : vs[k] = m.now[l]
  <2>1. n = m
    BY <1>1 DEF Stores
  <2> QED BY <2>1
<1>2. CASE ~(\A k \in DOMAIN vs : vs[k] = m.now[l])
  <2> DEFINE h == IF l \in DOMAIN m.d THEN m.d[l].h \o vs ELSE <<m.now[l]>> \o vs
             f == IF l \in DOMAIN m.d THEN m.d[l].f ELSE [c \in CPUs |-> 1]
  <2>1. /\ n.now = [m.now EXCEPT ![l] = vs[Len(vs)]]
        /\ n.d = [x \in {l} \cup DOMAIN m.d |->
                    IF x # l THEN m.d[x]
                    ELSE IF l \in DOMAIN m.d THEN [h |-> m.d[l].h \o vs, f |-> m.d[l].f]
                    ELSE [h |-> <<m.now[l]>> \o vs, f |-> [c \in CPUs |-> 1]]]
    BY <1>2 DEF Stores
  <2>2. /\ DOMAIN n.now = DOMAIN m.now /\ DOMAIN n.d = {l} \cup DOMAIN m.d
        /\ n.now[l] = vs[Len(vs)] /\ \A x \in DOMAIN m.now : x # l => n.now[x] = m.now[x]
        /\ \A x \in DOMAIN m.d : x # l => n.d[x] = m.d[x]
        /\ n.d[l].h = h /\ n.d[l].f = f
    BY <2>1
  <2> HIDE DEF n
  <2>3. m.now[l] \in V /\ vs[Len(vs)] \in V /\ Len(vs) \in Nat
    BY DEF Kept
  <2>4. /\ h \in Seq(V) /\ Len(h) \in Nat /\ Len(h) > 0 /\ h[Len(h)] = vs[Len(vs)]
        /\ f \in [CPUs -> 1..Len(h)]
        /\ IF l \in DOMAIN m.d
           THEN Len(h) = Len(m.d[l].h) + Len(vs) /\ \A k \in 1..Len(m.d[l].h) : h[k] = m.d[l].h[k]
           ELSE Len(h) = 1 + Len(vs) /\ h[1] = m.now[l]
    <3>1. CASE l \in DOMAIN m.d
      <4>1. PICK g : g = m.d[l].h
        OBVIOUS
      <4>2. g \in Seq(V) /\ Len(g) > 0 /\ Len(g) \in Nat /\ m.d[l].f \in [CPUs -> 1..Len(g)]
        BY <3>1, <4>1 DEF Kept
      <4>3. /\ g \o vs \in Seq(V) /\ Len(g \o vs) = Len(g) + Len(vs)
            /\ \A k \in 1..Len(g) : (g \o vs)[k] = g[k]
            /\ (g \o vs)[Len(g) + Len(vs)] = vs[Len(vs)]
        BY <4>2, Joined
      <4>4. h = g \o vs /\ f = m.d[l].f
        BY <3>1, <4>1
      <4> HIDE DEF h, f
      <4>5. f \in [CPUs -> 1..Len(h)]
        BY <4>2, <4>3, <4>4, <2>3
      <4> QED BY <3>1, <4>1, <4>2, <4>3, <4>4, <4>5, <2>3
    <3>2. CASE l \notin DOMAIN m.d
      <4>1. PICK g : g = <<m.now[l]>>
        OBVIOUS
      <4>2. g \in Seq(V) /\ Len(g) = 1 /\ Len(g) > 0 /\ g[1] = m.now[l]
        BY <2>3, <4>1
      <4>3. /\ g \o vs \in Seq(V) /\ Len(g \o vs) = Len(g) + Len(vs)
            /\ \A k \in 1..Len(g) : (g \o vs)[k] = g[k]
            /\ (g \o vs)[Len(g) + Len(vs)] = vs[Len(vs)]
        BY <4>2, Joined
      <4>4. h = g \o vs /\ f = [c \in CPUs |-> 1]
        BY <3>2, <4>1
      <4> HIDE DEF h, f
      <4>5. f \in [CPUs -> 1..Len(h)]
        BY <4>3, <4>4, <2>3
      <4> QED BY <3>2, <4>2, <4>3, <4>4, <4>5, <2>3
    <3> QED BY <3>1, <3>2
  <2> HIDE DEF h, f
  <2>5. Kept(V, n)
    <3>1. DOMAIN n.d \subseteq DOMAIN n.now /\ \A x \in DOMAIN n.now : n.now[x] \in V
      BY <2>2, <2>3 DEF Kept
    <3>2. \A x \in DOMAIN n.d :
            /\ n.d[x].h \in Seq(V) /\ Len(n.d[x].h) > 0
            /\ n.d[x].h[Len(n.d[x].h)] = n.now[x]
            /\ n.d[x].f \in [CPUs -> 1..Len(n.d[x].h)]
      BY <2>2, <2>4 DEF Kept
    <3>3. \E b \in Nat : \A x \in DOMAIN n.d : Len(n.d[x].h) <= b
      <4>1. PICK b \in Nat : \A x \in DOMAIN m.d : Len(m.d[x].h) <= b
        BY DEF Kept
      <4>2. \A x \in DOMAIN m.d : Len(m.d[x].h) \in Nat
        BY DEF Kept
      <4>3. PICK k \in Nat : k = b + Len(h)
        BY <2>4
      <4>4. ASSUME NEW x \in DOMAIN n.d PROVE Len(n.d[x].h) <= k
        <5>1. CASE x = l
          BY <5>1, <4>1, <4>3, <2>2, <2>4
        <5>2. CASE x # l
          BY <5>2, <4>1, <4>2, <4>3, <2>2, <2>4
        <5> QED BY <5>1, <5>2
      <4> QED BY <4>4
    <3> QED BY <3>1, <3>2, <3>3 DEF Kept
  <2>6. ASSUME NEW img \in CrashImages(m) PROVE img \in CrashImages(n)
    <3>1. PICK p \in Picks(m) : img = Picked(m, p)
      BY <2>6, Images
    <3> DEFINE q == [x \in DOMAIN n.d |-> IF x \in DOMAIN m.d THEN p[x] ELSE 1]
    <3>2. \A x \in DOMAIN m.d : Len(m.d[x].h) \in Nat /\ p[x] \in 1..Len(m.d[x].h)
      BY DEF Kept, Picks
    <3>3. q \in Picks(n)
      <4>1. ASSUME NEW x \in DOMAIN n.d PROVE q[x] \in Nat /\ q[x] \in 1..Len(n.d[x].h)
        <5>1. CASE x # l
          BY <5>1, <2>2, <3>2
        <5>2. CASE x = l
          BY <5>2, <2>2, <2>3, <2>4, <3>2
        <5> QED BY <5>1, <5>2
      <4> QED BY <4>1 DEF Picks
    <3>4. img = Picked(n, q)
      <4>1. ASSUME NEW x \in DOMAIN m.now
            PROVE  (IF x \in DOMAIN m.d THEN m.d[x].h[p[x]] ELSE m.now[x])
                    = (IF x \in DOMAIN n.d THEN n.d[x].h[q[x]] ELSE n.now[x])
        <5>1. CASE x # l
          BY <5>1, <2>2
        <5>2. CASE x = l
          BY <5>2, <2>2, <2>4, <3>2
        <5> QED BY <5>1, <5>2
      <4> HIDE DEF q
      <4> QED BY <3>1, <4>1, <2>2 DEF Picked
    <3> QED BY <2>5, <3>3, <3>4, Images
  <2> QED BY <2>5, <2>6 DEF n
<1> QED BY <1>1, <1>2

\* PERSISTENT_BARRIER: a fence only takes away from what a power failure can leave, and
\* the lines that its processor has written back since their last store are then what
\* is read, whatever fails.
THEOREM FenceMakesDurable ==
    ASSUME NEW V, NEW m, Kept(V, m), NEW c \in CPUs
    PROVE  /\ Kept(V, Fence(m, c)) /\ CrashImages(Fence(m, c)) \subseteq CrashImages(m)
           /\ \A img \in CrashImages(Fence(m, c)), l \in DOMAIN m.now :
                (l \in DOMAIN m.d => m.d[l].f[c] = Len(m.d[l].h)) => img[l] = m.now[l]
<1> DEFINE left == {l \in DOMAIN m.d : m.d[l].f[c] < Len(m.d[l].h)}
           n == Fence(m, c)
           from(l) == m.d[l].f[c]
<1>1. /\ n.now = m.now /\ DOMAIN n.d = left
      /\ \A l \in left : /\ n.d[l].h = SubSeq(m.d[l].h, from(l), Len(m.d[l].h))
                         /\ n.d[l].f = [e \in CPUs |-> IF m.d[l].f[e] > from(l)
                                                        THEN m.d[l].f[e] - from(l) + 1 ELSE 1]
  BY DEF Fence
<1> HIDE DEF n
<1>2. \A l \in DOMAIN m.d : /\ m.d[l].h \in Seq(V) /\ Len(m.d[l].h) \in Nat \ {0}
                           /\ from(l) \in 1..Len(m.d[l].h)
                           /\ m.d[l].f \in [CPUs -> 1..Len(m.d[l].h)]
                           /\ m.d[l].h[Len(m.d[l].h)] = m.now[l]
  BY DEF Kept
<1>3. ASSUME NEW l \in left
      PROVE  /\ n.d[l].h \in Seq(V) /\ Len(n.d[l].h) = Len(m.d[l].h) - from(l) + 1
             /\ \A k \in 1..Len(n.d[l].h) : n.d[l].h[k] = m.d[l].h[k + from(l) - 1]
             /\ n.d[l].f \in [CPUs -> 1..Len(n.d[l].h)]
  <2>1. PICK g, b : g = m.d[l].h /\ b = from(l)
    OBVIOUS
  <2>2. g \in Seq(V) /\ Len(g) \in Nat \ {0} /\ b \in 1..Len(g) /\ b < Len(g)
    BY <1>2, <2>1
  <2>3. /\ SubSeq(g, b, Len(g)) \in Seq(V) /\ Len(SubSeq(g, b, Len(g))) = Len(g) - b + 1
        /\ \A k \in 1..(Len(g) - b + 1) : SubSeq(g, b, Len(g))[k] = g[k + b - 1]
    BY <2>2
  <2>4. n.d[l].h = SubSeq(g, b, Len(g))
    BY <1>1, <2>1
  <2>5. \A e \in CPUs : m.d[l].f[e] \in 1..Len(g)
    BY <1>2, <2>1
  <2>6. n.d[l].f = [e \in CPUs |-> IF m.d[l].f[e] > b THEN m.d[l].f[e] - b + 1 ELSE 1]
    BY <1>1, <2>1
  <2>7. n.d[l].f \in [CPUs -> 1..(Len(g) - b + 1)]
    BY <2>2, <2>5, <2>6
  <2> QED BY <2>1, <2>2, <2>3, <2>4, <2>7
<1>4. Kept(V, n)
  <2>1. DOMAIN n.d \subseteq DOMAIN n.now /\ \A l \in DOMAIN n.now : n.now[l] \in V
    BY <1>1 DEF Kept
  <2>2. \A l \in DOMAIN n.d : /\ n.d[l].h \in Seq(V) /\ Len(n.d[l].h) > 0
                             /\ n.d[l].h[Len(n.d[l].h)] = n.now[l]
                             /\ n.d[l].f \in [CPUs -> 1..Len(n.d[l].h)]
    <3>1. SUFFICES ASSUME NEW l \in left
                   PROVE  /\ n.d[l].h \in Seq(V) /\ Len(n.d[l].h) > 0
                          /\ n.d[l].h[Len(n.d[l].h)] = n.now[l]
                          /\ n.d[l].f \in [CPUs -> 1..Len(n.d[l].h)]
      BY <1>1
    <3>2. PICK a, b : a = Len(n.d[l].h) /\ b = from(l)
      OBVIOUS
    <3>3. b \in 1..Len(m.d[l].h) /\ Len(m.d[l].h) \in Nat \ {0} /\ a = Len(m.d[l].h) - b + 1
      BY <1>2, <1>3, <3>2
    <3>4. a \in 1..a /\ a + b - 1 = Len(m.d[l].h) /\ a > 0
      BY <3>3
    <3>5. n.d[l].h[a] = m.d[l].h[a + b - 1]
      BY <1>3, <3>2, <3>4
    <3>6. n.d[l].h[a] = n.now[l]
      BY <1>1, <1>2, <3>4, <3>5
    <3> QED BY <1>3, <3>2, <3>4, <3>6
  <2>3. \E b \in Nat : \A l \in DOMAIN n.d : Len(n.d[l].h) <= b
    <3>1. PICK b \in Nat : \A l \in DOMAIN m.d : Len(m.d[l].h) <= b
      BY DEF Kept
    <3>2. \A l \in left : Len(n.d[l].h) <= b
      BY <1>2, <1>3, <3>1
    <3> QED BY <1>1, <3>2
  <2> QED BY <2>1, <2>2, <2>3 DEF Kept
<1>5. ASSUME NEW img \in CrashImages(n)
      PROVE  /\ img \in CrashImages(m)
             /\ \A l \in DOMAIN m.now :
                    (l \in DOMAIN m.d => from(l) = Len(m.d[l].h)) => img[l] = m.now[l]
  <2>1. PICK p \in Picks(n) : img = Picked(n, p)
    BY <1>4, <1>5, Images
  <2>2. \A l \in left : p[l] \in 1..Len(n.d[l].h)
    BY <1>1 DEF Picks
  <2> DEFINE q == [l \in DOMAIN m.d |-> IF l \in left THEN p[l] + from(l) - 1 ELSE Len(m.d[l].h)]
  <2>3. ASSUME NEW l \in DOMAIN m.d
        PROVE  /\ q[l] \in Nat /\ q[l] \in 1..Len(m.d[l].h)
               /\ m.d[l].h[q[l]] = IF l \in left THEN n.d[l].h[p[l]] ELSE m.now[l]
    <3>1. CASE l \in left
      <4>1. PICK a, b, k : a = Len(m.d[l].h) /\ b = from(l) /\ k = p[l]
        OBVIOUS
      <4>2. a \in Nat /\ b \in 1..a /\ k \in 1..(a - b + 1) /\ k \in 1..Len(n.d[l].h)
        BY <3>1, <4>1, <1>2, <1>3, <2>2
      <4>3. q[l] = k + b - 1
        BY <3>1, <4>1
      <4>4. q[l] \in 1..a /\ q[l] \in Nat
        BY <4>2, <4>3
      <4>5. n.d[l].h[k] = m.d[l].h[k + b - 1]
        BY <3>1, <4>1, <4>2, <1>3
      <4> HIDE DEF q
      <4> QED BY <3>1, <4>1, <4>3, <4>4, <4>5
    <3>2. CASE l \notin left
      BY <3>2, <1>2
    <3> QED BY <3>1, <3>2
  <2>4. q \in Picks(m)
    BY <2>3 DEF Picks
  <2>5. img = Picked(m, q)
    <3>1. DOMAIN n.d = left /\ left \subseteq DOMAIN m.d /\ n.now = m.now
      BY <1>1
    <3> HIDE DEF q, left
    <3> QED BY <2>1, <2>3, <3>1 DEF Picked
  <2>6. ASSUME NEW l \in DOMAIN m.now, l \in DOMAIN m.d => from(l) = Len(m.d[l].h)
        PROVE  img[l] = m.now[l]
    <3>1. l \notin left
      BY <2>6, <1>2
    <3> QED BY <3>1, <1>1, <2>1 DEF Picked
  <2> QED BY <2>4, <2>5, <2>6, Images
<1> QED BY <1>4, <1>5 DEF n
=============================================================================

-------------------------- MODULE WinefsAlloc_proofs --------------------------
(***************************************************************************)
(* Proofs about the block allocator of WineFS, for every number of blocks, *)
(* lists and threads and every size of a huge page.                        *)
(*                                                                         *)
(* The proof has three layers.  Lemmas about one list say what every       *)
(* operation of WinefsBalloc does to its trees (Trees: ranges and pages    *)
(* inside the region, apart from each other and counted) and to the set of *)
(* its free blocks: an allocation takes out exactly what it returns        *)
(* (AllocGrants), a round of a free adds exactly its run (RoundFrees),     *)
(* wherever its search ends and however it merges and splits.  Parts says  *)
(* of sets of blocks alone that callers, threads and lists share nothing   *)
(* and together own the device, and each operation moves a set from one    *)
(* owner to another.  IInv joins both with the shape of the calls.         *)
(***************************************************************************)
EXTENDS WinefsAlloc, FiniteSetTheorems, SequenceTheorems, WellFoundedInduction, TLAPS

------------------------------------------------------------------------------
(* Alignment.                                                                   *)

\* A huge page has at least two blocks.
LEMMA HType == H \in Nat /\ H >= 2
BY WinefsAllocAssumption

\* The remainder is the distance from the aligned block below.
LEMMA ModBounds ==
  ASSUME NEW x \in Int
  PROVE  x % H \in 0..H - 1
BY HType

\* A block number is whole pages and a rest.
LEMMA DivMod ==
  ASSUME NEW x \in Int
  PROVE  /\ x \div H \in Int /\ x = (x \div H) * H + (x % H)
BY HType

\* The aligned blocks are the multiples of H (IS_BLOCK_2MB_ALIGNED).
LEMMA AlignedIff ==
  ASSUME NEW b \in Int
  PROVE  IS_BLOCK_2MB_ALIGNED(b) <=> \E k \in Int : b = k * H
<1>1. ASSUME IS_BLOCK_2MB_ALIGNED(b) PROVE \E k \in Int : b = k * H
  BY <1>1, DivMod, HType DEF IS_BLOCK_2MB_ALIGNED
<1>2. ASSUME NEW k \in Int, b = k * H PROVE IS_BLOCK_2MB_ALIGNED(b)
  BY <1>2, HType DEF IS_BLOCK_2MB_ALIGNED
<1> QED BY <1>1, <1>2

\* Two aligned blocks are a whole page apart.
LEMMA AlignedApart ==
  ASSUME NEW a \in Int, NEW b \in Int, a < b,
         IS_BLOCK_2MB_ALIGNED(a), IS_BLOCK_2MB_ALIGNED(b)
  PROVE  a + H <= b
<1>1. PICK j \in Int : a = j * H
  BY AlignedIff
<1>2. PICK k \in Int : b = k * H
  BY AlignedIff
<1>3. j < k
  BY <1>1, <1>2, HType
<1>4. j + 1 <= k
  BY <1>3
<1>5. (j + 1) * H <= k * H
  BY <1>4, HType
<1> QED BY <1>1, <1>2, <1>5, HType

\* Rounding down gives the aligned block at or below x.
LEMMA AlignDown ==
  ASSUME NEW x \in Int
  PROVE  /\ x - (x % H) \in Int /\ IS_BLOCK_2MB_ALIGNED(x - (x % H))
         /\ x - (x % H) <= x /\ x < x - (x % H) + H
<1>1. x - (x % H) = (x \div H) * H /\ x \div H \in Int
  <2> DEFINE q == x \div H
  <2> DEFINE r == x % H
  <2>1. q \in Int /\ x = q * H + r /\ r \in Int
    BY DivMod, ModBounds, HType
  <2>2. q * H \in Int
    BY <2>1, HType
  <2> HIDE DEF q, r
  <2>3. x - r = q * H
    BY <2>1, <2>2
  <2> QED BY <2>1, <2>3 DEF q, r
<1>2. x - (x % H) \in Int /\ x - (x % H) <= x /\ x < x - (x % H) + H
  BY HType, ModBounds
<1>3. IS_BLOCK_2MB_ALIGNED(x - (x % H))
  BY <1>1, <1>2, AlignedIff
<1> QED BY <1>2, <1>3

\* The neighbours of an aligned block a page away are aligned.
LEMMA AlignShift ==
  ASSUME NEW x \in Int, IS_BLOCK_2MB_ALIGNED(x)
  PROVE  IS_BLOCK_2MB_ALIGNED(x + H) /\ IS_BLOCK_2MB_ALIGNED(x - H)
<1>1. PICK k \in Int : x = k * H
  BY AlignedIff
<1>2. x + H = (k + 1) * H /\ x - H = (k - 1) * H
  BY <1>1, HType
<1>3. k + 1 \in Int /\ k - 1 \in Int
  OBVIOUS
<1>4. x + H \in Int /\ x - H \in Int
  BY HType
<1> HIDE DEF IS_BLOCK_2MB_ALIGNED
<1>5. IS_BLOCK_2MB_ALIGNED(x + H)
  BY <1>2, <1>3, <1>4, AlignedIff
<1>6. IS_BLOCK_2MB_ALIGNED(x - H)
  BY <1>2, <1>3, <1>4, AlignedIff
<1> QED BY <1>5, <1>6

\* The aligned pages of low..high cover it when both of its ends are aligned.
LEMMA PagesCover ==
  ASSUME NEW low \in Int, NEW high \in Int,
         IS_BLOCK_2MB_ALIGNED(low), IS_BLOCK_2MB_ALIGNED(high + 1)
  PROVE  UNION {HugePage(b) : b \in {c \in low..high : IS_BLOCK_2MB_ALIGNED(c)}} = low..high
<1> DEFINE pages == {c \in low..high : IS_BLOCK_2MB_ALIGNED(c)}
<1>1. ASSUME NEW b \in pages PROVE HugePage(b) \subseteq low..high
  BY AlignedApart, HType DEF HugePage
<1>2. ASSUME NEW x \in low..high PROVE \E b \in pages : x \in HugePage(b)
  <2> DEFINE b == x - (x % H)
  <2>1. b \in Int /\ IS_BLOCK_2MB_ALIGNED(b) /\ b <= x /\ x < b + H
    BY AlignDown
  <2>2. low <= b
    BY <2>1, AlignedApart, HType
  <2>3. b \in pages /\ x \in HugePage(b)
    BY <2>1, <2>2, HType DEF HugePage
  <2> QED BY <2>3
<1> QED BY <1>1, <1>2

------------------------------------------------------------------------------
(* One list.                                                                    *)

RangeNode == [low : Int, high : Int]
List == [start : Nat \ {0}, end : Int, una : Seq(RangeNode), first_u : Int, num_u : Int,
         huge : SUBSET Int, first_h : Int, num_h : Int, num_free : Int]

\* The walk and the huge pages of a list are sound and their nodes counted.
Trees(L) ==
    /\ L \in List
    /\ \A k \in DOMAIN L.una :
          /\ L.una[k].low <= L.una[k].high
          /\ Blocks(L.una[k]) \subseteq L.start..L.end
    /\ \A b \in L.huge : IS_BLOCK_2MB_ALIGNED(b) /\ HugePage(b) \subseteq L.start..L.end
    /\ Apart(L)
    /\ L.first_u \in {Dangling} \cup 0..Len(L.una)
    /\ L.first_h \in {0} \cup L.huge
    /\ L.num_u = Len(L.una) /\ L.num_h = Cardinality(L.huge)

\* The walk is in the order of the addresses, every pair of nodes.
Sorted(L) == \A j, k \in DOMAIN L.una : j < k => L.una[j].high < L.una[k].low

\* first_node_unaligned is the leftmost node of a sorted walk.
Ready(L) == Sorted(L) /\ L.first_u = IF Len(L.una) = 0 THEN 0 ELSE 1

\* first_node_huge_aligned is the lowest huge page.
HugeLow(L) == \A b \in L.huge : L.first_h # 0 /\ L.first_h <= b

\* A place in the walk is enough: positions of sequences.
LEMMA InsertAtProperties ==
  ASSUME NEW S, NEW s \in Seq(S), NEW g \in 0..Len(s), NEW e \in S,
         NEW t, t = InsertAt(s, g + 1, e)
  PROVE  /\ t \in Seq(S) /\ Len(t) = Len(s) + 1 /\ t[g + 1] = e
         /\ \A k \in 1..g : t[k] = s[k]
         /\ \A k \in g + 2..Len(s) + 1 : t[k] = s[k - 1]
<1> DEFINE a == SubSeq(s, 1, g)
           z == SubSeq(s, g + 1, Len(s))
<1>1. Len(s) \in Nat /\ \A k \in 1..Len(s) : s[k] \in S
  BY LenProperties, ElementOfSeq
<1>2. /\ a \in Seq(S) /\ Len(a) = g
      /\ \A k \in 1..g : a[k] = s[k]
  BY <1>1, SubSeqProperties
<1>3. /\ z \in Seq(S) /\ Len(z) = Len(s) - g
      /\ \A k \in 1..Len(s) - g : z[k] = s[g + k]
  BY <1>1, SubSeqProperties
<1>4. <<e>> \in Seq(S) /\ Len(<<e>>) = 1 /\ <<e>>[1] = e
  OBVIOUS
<1> HIDE DEF a, z
<1> DEFINE ae == a \o <<e>>
<1>5. /\ ae \in Seq(S) /\ Len(ae) = g + 1
      /\ \A k \in 1..g + 1 : ae[k] = IF k <= g THEN s[k] ELSE e
  BY <1>1, <1>2, <1>4, ConcatProperties
<1> HIDE DEF ae
<1>6. /\ ae \o z \in Seq(S) /\ Len(ae \o z) = Len(ae) + Len(z)
      /\ \A k \in 1..Len(ae) + Len(z) :
           (ae \o z)[k] = IF k <= Len(ae) THEN ae[k] ELSE z[k - Len(ae)]
  BY <1>3, <1>5, ConcatProperties, Zenon
<1>7. InsertAt(s, g + 1, e) = ae \o z
  <2>1. (g + 1) - 1 = g
    OBVIOUS
  <2> QED BY <2>1 DEF InsertAt, ae, a, z
<1>8. t = ae \o z
  BY <1>7
<1>9. /\ t \in Seq(S) /\ Len(t) = Len(ae) + Len(z)
      /\ \A k \in 1..Len(ae) + Len(z) : t[k] = IF k <= Len(ae) THEN ae[k] ELSE z[k - Len(ae)]
  BY <1>6, <1>8, Zenon
<1>10. Len(t) = Len(s) + 1
  BY <1>1, <1>3, <1>5, <1>9
<1>11. ASSUME NEW k \in 1..g PROVE t[k] = s[k]
  <2>1. k \in 1..Len(ae) + Len(z) /\ k <= Len(ae) /\ k \in 1..g + 1
    BY <1>1, <1>3, <1>5
  <2> QED BY <2>1, <1>5, <1>9
<1>12. t[g + 1] = e
  <2>1. g + 1 \in 1..Len(ae) + Len(z) /\ g + 1 <= Len(ae) /\ g + 1 \in 1..g + 1 /\ ~(g + 1 <= g)
    BY <1>1, <1>3, <1>5
  <2> QED BY <2>1, <1>5, <1>9
<1>13. ASSUME NEW k \in g + 2..Len(s) + 1 PROVE t[k] = s[k - 1]
  <2>1. k \in 1..Len(ae) + Len(z) /\ ~(k <= Len(ae))
    BY <1>1, <1>3, <1>5
  <2>2. k - Len(ae) \in 1..Len(s) - g /\ g + (k - Len(ae)) = k - 1
    BY <1>1, <1>5
  <2> QED BY <2>1, <2>2, <1>3, <1>9
<1> QED BY <1>9, <1>10, <1>11, <1>12, <1>13

\* A sequence with one element taken out.
LEMMA RemoveAtProperties ==
  ASSUME NEW S, NEW s \in Seq(S), NEW i \in 1..Len(s)
  PROVE  /\ RemoveAt(s, i) \in Seq(S)
         /\ Len(RemoveAt(s, i)) = Len(s) - 1
         /\ \A k \in 1..Len(s) - 1 : RemoveAt(s, i)[k] = IF k < i THEN s[k] ELSE s[k + 1]
<1> DEFINE a == SubSeq(s, 1, i - 1)
           z == SubSeq(s, i + 1, Len(s))
<1>1. Len(s) \in Nat /\ \A k \in 1..Len(s) : s[k] \in S
  BY LenProperties, ElementOfSeq
<1>2. /\ a \in Seq(S) /\ Len(a) = i - 1
      /\ \A k \in 1..i - 1 : a[k] = s[k]
  BY <1>1, SubSeqProperties
<1>3. /\ z \in Seq(S) /\ Len(z) = Len(s) - i
      /\ \A k \in 1..Len(s) - i : z[k] = s[i + k]
  BY <1>1, SubSeqProperties
<1>4. RemoveAt(s, i) = a \o z
  BY DEF RemoveAt
<1> HIDE DEF a, z
<1>5. /\ a \o z \in Seq(S) /\ Len(a \o z) = Len(a) + Len(z)
      /\ \A k \in 1..Len(a) + Len(z) :
           (a \o z)[k] = IF k <= Len(a) THEN a[k] ELSE z[k - Len(a)]
  BY <1>2, <1>3, ConcatProperties, Zenon
<1>6. PICK t : t = a \o z
  OBVIOUS
<1>7. /\ t \in Seq(S) /\ Len(t) = Len(a) + Len(z)
      /\ \A k \in 1..Len(a) + Len(z) : t[k] = IF k <= Len(a) THEN a[k] ELSE z[k - Len(a)]
  BY <1>5, <1>6, Zenon
<1>8. Len(t) = Len(s) - 1
  BY <1>1, <1>2, <1>3, <1>7
<1>9. ASSUME NEW k \in 1..Len(s) - 1
      PROVE  t[k] = IF k < i THEN s[k] ELSE s[k + 1]
  <2>1. t[k] = IF k <= i - 1 THEN a[k] ELSE z[k - (i - 1)]
    BY <1>1, <1>2, <1>3, <1>7
  <2>2. CASE k < i
    BY <2>1, <2>2, <1>1, <1>2
  <2>3. CASE k >= i
    <3>1. k - (i - 1) \in 1..Len(s) - i /\ i + (k - (i - 1)) = k + 1
      BY <2>3, <1>1
    <3> QED BY <3>1, <2>1, <2>3, <1>1, <1>3
  <2> QED BY <2>2, <2>3, <1>1
<1> QED BY <1>4, <1>6, <1>7, <1>8, <1>9

------------------------------------------------------------------------------
(* What a step on a list does to its trees.                                     *)

SameRegion(L, M) == M.start = L.start /\ M.end = L.end
SameHuge(L, M) == M.huge = L.huge /\ M.first_h = L.first_h /\ M.num_h = L.num_h
SameWalk(L, M) == M.una = L.una /\ M.num_u = L.num_u

\* The walk of a list is a finite sequence of ranges.
LEMMA WalkOf ==
  ASSUME NEW L, L \in List
  PROVE  /\ Len(L.una) \in Nat /\ DOMAIN L.una = 1..Len(L.una)
         /\ \A k \in DOMAIN L.una : L.una[k] \in RangeNode
BY LenProperties, ElementOfSeq DEF List

\* A node that is linked adds its range.
LEMMA Linked ==
  ASSUME NEW L, Trees(L), NEW M, M \in List, NEW g \in 0..Len(L.una), NEW n \in RangeNode,
         n.low <= n.high, Blocks(n) \subseteq L.start..L.end, Blocks(n) \cap FreeBlocks(L) = {},
         M.una = InsertAt(L.una, g + 1, n), M.first_u \in {Dangling} \cup 0..Len(L.una) + 1,
         M.num_u = L.num_u + 1, SameRegion(L, M), SameHuge(L, M)
  PROVE  Trees(M) /\ FreeBlocks(M) = FreeBlocks(L) \cup Blocks(n)
<1> DEFINE U == L.una
           V == M.una
<1>1. /\ Len(U) \in Nat /\ DOMAIN U = 1..Len(U) /\ \A k \in DOMAIN U : U[k] \in RangeNode
      /\ DOMAIN V = 1..Len(V) /\ L \in List
  BY WalkOf DEF Trees
<1>2. /\ Len(V) = Len(U) + 1 /\ V[g + 1] = n
      /\ \A k \in 1..g : V[k] = U[k]
      /\ \A k \in g + 2..Len(U) + 1 : V[k] = U[k - 1]
  <2>1. U \in Seq(RangeNode)
    BY <1>1 DEF List
  <2>2. V = InsertAt(U, g + 1, n) /\ g \in 0..Len(U) /\ n \in RangeNode
    OBVIOUS
  <2> HIDE DEF U, V
  <2>3. Len(V) = Len(U) + 1
    BY <2>1, <2>2, InsertAtProperties
  <2>4. V[g + 1] = n
    BY <2>1, <2>2, InsertAtProperties
  <2>5. \A k \in 1..g : V[k] = U[k]
    BY <2>1, <2>2, InsertAtProperties
  <2>6. \A k \in g + 2..Len(U) + 1 : V[k] = U[k - 1]
    BY <2>1, <2>2, InsertAtProperties
  <2> QED BY <2>3, <2>4, <2>5, <2>6
<1> DEFINE old(k) == IF k <= g THEN k ELSE k - 1
<1>3. ASSUME NEW k \in DOMAIN V
      PROVE  \/ k = g + 1 /\ V[k] = n
             \/ k # g + 1 /\ old(k) \in DOMAIN U /\ V[k] = U[old(k)]
  BY <1>1, <1>2
<1>4. ASSUME NEW k \in DOMAIN U PROVE \E j \in DOMAIN V : j # g + 1 /\ V[j] = U[k]
  <2>1. CASE k <= g
    BY <1>1, <1>2, <2>1
  <2>2. CASE k > g
    <3>1. k + 1 \in g + 2..Len(U) + 1 /\ (k + 1) - 1 = k
      BY <1>1, <2>2
    <3>2. V[k + 1] = U[k]
      BY <1>2, <3>1
    <3>3. k + 1 \in DOMAIN V /\ k + 1 # g + 1
      BY <1>1, <1>2, <2>2
    <3> QED BY <3>2, <3>3
  <2> QED BY <1>1, <2>1, <2>2
<1>5. g + 1 \in DOMAIN V /\ V[g + 1] = n
  BY <1>1, <1>2
<1>6. ASSUME NEW j \in DOMAIN V, NEW k \in DOMAIN V, j # k, j # g + 1, k # g + 1
      PROVE  old(j) # old(k)
  BY <1>1, <1>2, <1>6
<1> HIDE DEF old
<1>7. /\ \A k \in DOMAIN U : Blocks(U[k]) \cap Blocks(n) = {}
      /\ \A b \in L.huge : Blocks(n) \cap HugePage(b) = {}
  BY DEF FreeBlocks, UnaBlocks, HugeBlocks
<1>8. \A k \in DOMAIN V : V[k].low <= V[k].high /\ Blocks(V[k]) \subseteq M.start..M.end
  BY <1>3 DEF Trees, SameRegion
<1>9. Apart(M)
  <2>1. ASSUME NEW j \in DOMAIN V, NEW k \in DOMAIN V, j # k
        PROVE  Blocks(V[j]) \cap Blocks(V[k]) = {}
    BY <1>3, <1>6, <1>7, <2>1 DEF Trees, Apart
  <2>2. ASSUME NEW k \in DOMAIN V, NEW b \in M.huge PROVE Blocks(V[k]) \cap HugePage(b) = {}
    BY <1>3, <1>7 DEF Trees, Apart, SameHuge
  <2> QED BY <2>1, <2>2 DEF Apart
<1>10. FreeBlocks(M) = FreeBlocks(L) \cup Blocks(n)
  <2>1. UnaBlocks(M) = UnaBlocks(L) \cup Blocks(n)
    BY <1>3, <1>4, <1>5 DEF UnaBlocks
  <2> QED BY <2>1 DEF FreeBlocks, HugeBlocks, SameHuge
<1>11. /\ \A b \in M.huge : IS_BLOCK_2MB_ALIGNED(b) /\ HugePage(b) \subseteq M.start..M.end
       /\ M.first_h \in {0} \cup M.huge /\ M.num_h = Cardinality(M.huge)
  BY DEF Trees, SameHuge, SameRegion
<1>12. M.first_u \in {Dangling} \cup 0..Len(M.una) /\ M.num_u = Len(M.una)
  BY <1>1, <1>2 DEF Trees
<1> QED BY <1>8, <1>9, <1>10, <1>11, <1>12 DEF Trees

\* A node that is erased takes its range with it.
LEMMA Erased ==
  ASSUME NEW L, Trees(L), NEW M, M \in List, NEW i \in DOMAIN L.una,
         M.una = RemoveAt(L.una, i), M.first_u \in {Dangling} \cup 0..Len(L.una) - 1,
         M.num_u = L.num_u - 1, SameRegion(L, M), SameHuge(L, M)
  PROVE  Trees(M) /\ FreeBlocks(M) = FreeBlocks(L) \ Blocks(L.una[i])
<1> DEFINE U == L.una
           V == M.una
<1>1. /\ Len(U) \in Nat /\ DOMAIN U = 1..Len(U) /\ \A k \in DOMAIN U : U[k] \in RangeNode
      /\ DOMAIN V = 1..Len(V) /\ L \in List
  BY WalkOf DEF Trees
<1>2. /\ Len(V) = Len(U) - 1
      /\ \A k \in 1..Len(U) - 1 : V[k] = IF k < i THEN U[k] ELSE U[k + 1]
  <2>1. U \in Seq(RangeNode) /\ i \in 1..Len(U)
    BY <1>1 DEF List
  <2> QED BY <2>1, RemoveAtProperties
<1> DEFINE old(k) == IF k < i THEN k ELSE k + 1
<1>3. ASSUME NEW k \in DOMAIN V
      PROVE  old(k) \in DOMAIN U /\ old(k) # i /\ V[k] = U[old(k)]
  BY <1>1, <1>2
<1>4. ASSUME NEW k \in DOMAIN U, k # i PROVE \E j \in DOMAIN V : V[j] = U[k]
  <2>1. CASE k < i
    BY <1>1, <1>2, <2>1
  <2>2. CASE k > i
    <3>1. k - 1 \in DOMAIN V /\ ~(k - 1 < i) /\ (k - 1) + 1 = k
      BY <1>1, <1>2, <2>2
    <3>2. V[k - 1] = U[k]
      BY <1>1, <1>2, <3>1
    <3> QED BY <3>1, <3>2
  <2> QED BY <1>1, <1>4, <2>1, <2>2
<1>5. ASSUME NEW j \in DOMAIN V, NEW k \in DOMAIN V, j # k PROVE old(j) # old(k)
  BY <1>1, <1>2, <1>5
<1> HIDE DEF old
<1>6. \A k \in DOMAIN V : V[k].low <= V[k].high /\ Blocks(V[k]) \subseteq M.start..M.end
  BY <1>3 DEF Trees, SameRegion
<1>7. Apart(M)
  <2>1. ASSUME NEW j \in DOMAIN V, NEW k \in DOMAIN V, j # k
        PROVE  Blocks(V[j]) \cap Blocks(V[k]) = {}
    BY <1>3, <1>5, <2>1 DEF Trees, Apart
  <2>2. ASSUME NEW k \in DOMAIN V, NEW b \in M.huge PROVE Blocks(V[k]) \cap HugePage(b) = {}
    BY <1>3 DEF Trees, Apart, SameHuge
  <2> QED BY <2>1, <2>2 DEF Apart
<1>8. FreeBlocks(M) = FreeBlocks(L) \ Blocks(U[i])
  <2>1. UnaBlocks(M) = UnaBlocks(L) \ Blocks(U[i])
    <3>1. ASSUME NEW k \in DOMAIN V
          PROVE  \E j \in DOMAIN U : V[k] = U[j] /\ Blocks(U[j]) \cap Blocks(U[i]) = {}
      BY <1>3 DEF Trees, Apart
    <3>2. ASSUME NEW x \in UnaBlocks(M) PROVE x \in UnaBlocks(L) \ Blocks(U[i])
      BY <3>1 DEF UnaBlocks
    <3>3. ASSUME NEW x \in UnaBlocks(L) \ Blocks(U[i]) PROVE x \in UnaBlocks(M)
      <4>1. PICK k \in DOMAIN U : x \in Blocks(U[k])
        BY DEF UnaBlocks
      <4>2. k # i
        BY <4>1
      <4> QED BY <1>4, <4>1, <4>2 DEF UnaBlocks
    <3> QED BY <3>2, <3>3
  <2>2. HugeBlocks(M) = HugeBlocks(L) /\ HugeBlocks(L) \cap Blocks(U[i]) = {}
    BY DEF Trees, Apart, HugeBlocks, SameHuge
  <2> QED BY <2>1, <2>2 DEF FreeBlocks
<1>9. /\ \A b \in M.huge : IS_BLOCK_2MB_ALIGNED(b) /\ HugePage(b) \subseteq M.start..M.end
      /\ M.first_h \in {0} \cup M.huge /\ M.num_h = Cardinality(M.huge)
  BY DEF Trees, SameHuge, SameRegion
<1>10. M.first_u \in {Dangling} \cup 0..Len(M.una) /\ M.num_u = Len(M.una)
  BY <1>1, <1>2 DEF Trees
<1> QED BY <1>6, <1>7, <1>8, <1>9, <1>10 DEF Trees

\* A node whose range is set to n holds the blocks of n instead.
LEMMA Replaced ==
  ASSUME NEW L, Trees(L), NEW M, M \in List, NEW i \in DOMAIN L.una, NEW n \in RangeNode,
         n.low <= n.high, Blocks(n) \subseteq L.start..L.end,
         Blocks(n) \cap (FreeBlocks(L) \ Blocks(L.una[i])) = {},
         M.una = [L.una EXCEPT ![i] = n], M.first_u = L.first_u, M.num_u = L.num_u,
         SameRegion(L, M), SameHuge(L, M)
  PROVE  Trees(M) /\ FreeBlocks(M) = (FreeBlocks(L) \ Blocks(L.una[i])) \cup Blocks(n)
<1> DEFINE U == L.una
           V == M.una
<1>1. /\ DOMAIN V = DOMAIN U /\ Len(V) = Len(U) /\ V[i] = n
      /\ \A k \in DOMAIN U : k # i => V[k] = U[k]
  <2>1. U \in Seq(RangeNode) /\ DOMAIN U = 1..Len(U)
    BY WalkOf DEF Trees, List
  <2> QED BY <2>1, ExceptSeq
<1>2. \A k \in DOMAIN U : k # i =>
         Blocks(U[k]) \cap Blocks(n) = {} /\ Blocks(U[k]) \cap Blocks(U[i]) = {}
  <2>1. ASSUME NEW k \in DOMAIN U, k # i
        PROVE  Blocks(U[k]) \cap Blocks(n) = {} /\ Blocks(U[k]) \cap Blocks(U[i]) = {}
    <3>1. Blocks(U[k]) \cap Blocks(U[i]) = {}
      BY <2>1 DEF Trees, Apart
    <3>2. Blocks(U[k]) \subseteq FreeBlocks(L)
      BY DEF FreeBlocks, UnaBlocks
    <3> QED BY <3>1, <3>2
  <2> QED BY <2>1
<1>3. \A b \in L.huge : Blocks(n) \cap HugePage(b) = {} /\ Blocks(U[i]) \cap HugePage(b) = {}
  BY DEF FreeBlocks, HugeBlocks, Trees, Apart
<1>4. \A k \in DOMAIN V : V[k].low <= V[k].high /\ Blocks(V[k]) \subseteq M.start..M.end
  BY <1>1 DEF Trees, SameRegion
<1>5. Apart(M)
  <2>1. ASSUME NEW j \in DOMAIN V, NEW k \in DOMAIN V, j # k
        PROVE  Blocks(V[j]) \cap Blocks(V[k]) = {}
    BY <1>1, <1>2, <2>1 DEF Trees, Apart
  <2>2. ASSUME NEW k \in DOMAIN V, NEW b \in M.huge PROVE Blocks(V[k]) \cap HugePage(b) = {}
    BY <1>1, <1>3 DEF Trees, Apart, SameHuge
  <2> QED BY <2>1, <2>2 DEF Apart
<1>6. FreeBlocks(M) = (FreeBlocks(L) \ Blocks(U[i])) \cup Blocks(n)
  <2>1. UnaBlocks(M) = (UnaBlocks(L) \ Blocks(U[i])) \cup Blocks(n)
    <3>1. ASSUME NEW x \in UnaBlocks(M) PROVE x \in (UnaBlocks(L) \ Blocks(U[i])) \cup Blocks(n)
      BY <1>1, <1>2 DEF UnaBlocks
    <3>2. ASSUME NEW x \in (UnaBlocks(L) \ Blocks(U[i])) \cup Blocks(n) PROVE x \in UnaBlocks(M)
      BY <1>1 DEF UnaBlocks
    <3> QED BY <3>1, <3>2
  <2>2. HugeBlocks(M) = HugeBlocks(L) /\ HugeBlocks(L) \cap Blocks(U[i]) = {}
    BY <1>3 DEF HugeBlocks, SameHuge
  <2> QED BY <2>1, <2>2 DEF FreeBlocks
<1>7. /\ \A b \in M.huge : IS_BLOCK_2MB_ALIGNED(b) /\ HugePage(b) \subseteq M.start..M.end
      /\ M.first_h \in {0} \cup M.huge /\ M.num_h = Cardinality(M.huge)
      /\ M.first_u \in {Dangling} \cup 0..Len(V) /\ M.num_u = Len(V)
  BY <1>1 DEF Trees, SameHuge, SameRegion
<1> QED BY <1>4, <1>5, <1>6, <1>7 DEF Trees

\* Only the first node of the walk, or the number of free blocks, is set.
LEMMA OnlyCounters ==
  ASSUME NEW L, Trees(L), NEW M, M \in List, M.first_u \in {Dangling} \cup 0..Len(L.una),
         SameRegion(L, M), SameWalk(L, M), SameHuge(L, M)
  PROVE  Trees(M) /\ FreeBlocks(M) = FreeBlocks(L)
BY DEF Trees, Apart, FreeBlocks, UnaBlocks, HugeBlocks, SameRegion, SameWalk, SameHuge

\* There are finitely many free huge pages.
LEMMA HugeFinite ==
  ASSUME NEW L, Trees(L)
  PROVE  IsFiniteSet(L.huge) /\ L.huge \subseteq L.start..L.end
<1>1. L.huge \subseteq L.start..L.end
  BY HType DEF Trees, HugePage, List
<1>2. L.start \in Int /\ L.end \in Int
  BY DEF Trees, List
<1>3. IsFiniteSet(L.start..L.end)
  BY <1>2, FS_Interval
<1> QED BY <1>1, <1>3, FS_Subset

PagesBlocks(P) == UNION {HugePage(b) : b \in P}

\* Huge pages that enter the tree.
LEMMA PagesAdded ==
  ASSUME NEW L, Trees(L), NEW M, M \in List, NEW P \in SUBSET Int, IsFiniteSet(P),
         PagesBlocks(P) \cap FreeBlocks(L) = {},
         \A b \in P : IS_BLOCK_2MB_ALIGNED(b) /\ HugePage(b) \subseteq L.start..L.end,
         M.huge = L.huge \cup P, M.num_h = L.num_h + Cardinality(P), M.first_h \in M.huge,
         M.first_u = L.first_u, SameRegion(L, M), SameWalk(L, M)
  PROVE  Trees(M) /\ FreeBlocks(M) = FreeBlocks(L) \cup PagesBlocks(P)
<1>1. P \cap L.huge = {}
  <2>1. ASSUME NEW b \in P, b \in L.huge PROVE FALSE
    <3>1. b \in HugePage(b)
      BY HType DEF HugePage
    <3>2. b \in PagesBlocks(P) /\ b \in FreeBlocks(L)
      BY <2>1, <3>1 DEF FreeBlocks, HugeBlocks, PagesBlocks
    <3> QED BY <3>2
  <2> QED BY <2>1
<1>2. M.num_h = Cardinality(M.huge)
  <2>1. IsFiniteSet(L.huge)
    BY HugeFinite
  <2>2. Cardinality(L.huge \cup P) = Cardinality(L.huge) + Cardinality(P) - Cardinality(L.huge \cap P)
    BY <2>1, FS_Union
  <2>3. L.huge \cap P = {} /\ Cardinality({}) = 0
    BY <1>1, FS_EmptySet
  <2>4. Cardinality(L.huge) \in Nat /\ Cardinality(P) \in Nat
    BY <2>1, FS_CardinalityType
  <2>5. L.num_h = Cardinality(L.huge)
    BY DEF Trees
  <2>6. Cardinality(L.huge \cap P) = 0
    BY <2>3, Zenon
  <2>7. Cardinality(L.huge \cup P) = Cardinality(L.huge) + Cardinality(P)
    BY <2>2, <2>4, <2>6
  <2> QED BY <2>5, <2>7
<1>3. ASSUME NEW k \in DOMAIN L.una, NEW b \in P PROVE Blocks(L.una[k]) \cap HugePage(b) = {}
  <2>1. Blocks(L.una[k]) \subseteq FreeBlocks(L) /\ HugePage(b) \subseteq PagesBlocks(P)
    BY DEF FreeBlocks, UnaBlocks, PagesBlocks
  <2> QED BY <2>1
<1>4. Apart(M)
  BY <1>3 DEF Trees, Apart, SameWalk
<1>5. FreeBlocks(M) = FreeBlocks(L) \cup PagesBlocks(P)
  <2>1. HugeBlocks(M) = HugeBlocks(L) \cup PagesBlocks(P)
    <3>1. ASSUME NEW x \in HugeBlocks(M) PROVE x \in HugeBlocks(L) \cup PagesBlocks(P)
      BY DEF HugeBlocks, PagesBlocks
    <3>2. ASSUME NEW x \in HugeBlocks(L) \cup PagesBlocks(P) PROVE x \in HugeBlocks(M)
      BY DEF HugeBlocks, PagesBlocks
    <3> QED BY <3>1, <3>2
  <2>2. UnaBlocks(M) = UnaBlocks(L)
    BY DEF UnaBlocks, SameWalk
  <2> QED BY <2>1, <2>2 DEF FreeBlocks
<1>6. \A b \in M.huge : IS_BLOCK_2MB_ALIGNED(b) /\ HugePage(b) \subseteq M.start..M.end
  BY DEF Trees, SameRegion
<1>7. \A k \in DOMAIN M.una : /\ M.una[k].low <= M.una[k].high
                              /\ Blocks(M.una[k]) \subseteq M.start..M.end
  BY DEF Trees, SameRegion, SameWalk
<1>8. M.first_u \in {Dangling} \cup 0..Len(M.una) /\ M.num_u = Len(M.una)
  BY DEF Trees, SameWalk
<1> QED BY <1>2, <1>4, <1>5, <1>6, <1>7, <1>8 DEF Trees

\* A huge page that leaves the tree.
LEMMA PageTaken ==
  ASSUME NEW L, Trees(L), NEW M, M \in List, NEW b \in L.huge,
         M.huge = L.huge \ {b}, M.num_h = L.num_h - 1, M.first_h \in {0} \cup M.huge,
         M.first_u = L.first_u, SameRegion(L, M), SameWalk(L, M)
  PROVE  Trees(M) /\ FreeBlocks(M) = FreeBlocks(L) \ HugePage(b)
<1>1. M.num_h = Cardinality(M.huge)
  <2>1. IsFiniteSet(L.huge)
    BY HugeFinite
  <2> QED BY <2>1, FS_RemoveElement DEF Trees
<1>2. \A c \in M.huge : HugePage(c) \cap HugePage(b) = {}
  <2>1. ASSUME NEW c \in M.huge PROVE HugePage(c) \cap HugePage(b) = {}
    <3>1. c \in Int /\ b \in Int /\ c # b /\ IS_BLOCK_2MB_ALIGNED(c) /\ IS_BLOCK_2MB_ALIGNED(b)
      BY DEF Trees, List
    <3>2. c + H <= b \/ b + H <= c
      BY <3>1, AlignedApart
    <3> QED BY <3>1, <3>2, HType DEF HugePage
  <2> QED BY <2>1
<1>3. HugeBlocks(M) = HugeBlocks(L) \ HugePage(b)
  <2>1. ASSUME NEW x \in HugeBlocks(M) PROVE x \in HugeBlocks(L) \ HugePage(b)
    BY <1>2 DEF HugeBlocks
  <2>2. ASSUME NEW x \in HugeBlocks(L) \ HugePage(b) PROVE x \in HugeBlocks(M)
    BY DEF HugeBlocks
  <2> QED BY <2>1, <2>2
<1>4. UnaBlocks(M) = UnaBlocks(L) /\ UnaBlocks(L) \cap HugePage(b) = {}
  BY DEF UnaBlocks, SameWalk, Trees, Apart
<1>5. FreeBlocks(M) = FreeBlocks(L) \ HugePage(b)
  BY <1>3, <1>4 DEF FreeBlocks
<1>6. Apart(M)
  BY DEF Trees, Apart, SameWalk
<1>7. \A c \in M.huge : IS_BLOCK_2MB_ALIGNED(c) /\ HugePage(c) \subseteq M.start..M.end
  BY DEF Trees, SameRegion
<1>8. \A k \in DOMAIN M.una : /\ M.una[k].low <= M.una[k].high
                              /\ Blocks(M.una[k]) \subseteq M.start..M.end
  BY DEF Trees, SameRegion, SameWalk
<1>9. M.first_u \in {Dangling} \cup 0..Len(M.una) /\ M.num_u = Len(M.una)
  BY DEF Trees, SameWalk
<1> QED BY <1>1, <1>5, <1>6, <1>7, <1>8, <1>9 DEF Trees

------------------------------------------------------------------------------
(* Allocation from a list.                                                      *)

\* The minimum of a set of naturals.
LEMMA MinOf ==
  ASSUME NEW S \in SUBSET Nat, S # {}
  PROVE  Min(S) \in S /\ \A y \in S : Min(S) <= y
<1>1. PICK x \in S : \A y \in S : ~(<<y, x>> \in OpToRel(<, Nat))
  BY WFMin, NatLessThanWellFounded
<1>2. \A y \in S : <<y, x>> \in OpToRel(<, Nat) <=> y < x
  BY DEF OpToRel
<1>3. \A y \in S : ~(y < x)
  BY <1>1, <1>2, Zenon
<1>4. \A y \in S : x <= y
  BY <1>3
<1> QED BY <1>4 DEF Min

\* The first huge page of a list is one of its pages.
LEMMA FirstHuge ==
  ASSUME NEW L, Trees(L), L.first_h # 0
  PROVE  /\ L.first_h \in L.huge /\ L.first_h \in Nat \ {0} /\ L.huge \subseteq Nat
         /\ HugePage(L.first_h) \subseteq L.start..L.end
         /\ HugePage(L.first_h) \subseteq FreeBlocks(L)
<1>1. L.first_h \in L.huge
  BY DEF Trees
<1>2. L.huge \subseteq L.start..L.end /\ L.start \in Nat \ {0} /\ L.end \in Int
  BY HugeFinite DEF Trees, List
<1>3. L.first_h \in Nat \ {0} /\ L.huge \subseteq Nat
  BY <1>1, <1>2
<1> QED BY <1>1, <1>3 DEF Trees, FreeBlocks, HugeBlocks

\* Taking the first huge page out takes its blocks and no others.
LEMMA FirstTaken ==
  ASSUME NEW L, Trees(L), L.first_h # 0, NEW M, M = FirstHugeTaken(L)
  PROVE  /\ Trees(M) /\ FreeBlocks(M) = FreeBlocks(L) \ HugePage(L.first_h)
         /\ SameRegion(L, M) /\ SameWalk(L, M) /\ M.num_free = L.num_free
         /\ M.first_u = L.first_u
<1> DEFINE rest == L.huge \ {L.first_h}
           after == {b \in rest : b > L.first_h}
           f == IF after = {} THEN 0 ELSE Min(after)
<1>1. L \in List /\ L.first_h \in L.huge /\ L.huge \subseteq Nat
  BY FirstHuge DEF Trees
<1>2. f \in {0} \cup rest /\ f \in Int
  <2>1. CASE after = {}
    BY <2>1
  <2>2. CASE after # {}
    <3>1. after \in SUBSET Nat
      BY <1>1
    <3>2. Min(after) \in after
      BY <2>2, <3>1, MinOf
    <3> QED BY <2>2, <3>1, <3>2
  <2> QED BY <2>1, <2>2
<1>3. M = [L EXCEPT !.huge = rest, !.num_h = @ - 1, !.first_h = f]
  BY DEF FirstHugeTaken
<1>4. rest \in SUBSET Int /\ L.num_h - 1 \in Int
  BY <1>1 DEF List
<1>5. M \in List
  <2> HIDE DEF f, rest
  <2> QED BY <1>1, <1>2, <1>3, <1>4 DEF List
<1> HIDE DEF f
<1>6. /\ M.huge = rest /\ M.num_h = L.num_h - 1 /\ M.first_h = f
      /\ M.first_u = L.first_u /\ M.start = L.start /\ M.end = L.end /\ M.una = L.una
      /\ M.num_u = L.num_u /\ M.num_free = L.num_free
  BY <1>1, <1>2, <1>3, <1>5 DEF List
<1>7. SameRegion(L, M) /\ SameWalk(L, M)
  BY <1>6 DEF SameRegion, SameWalk
<1> QED BY <1>1, <1>2, <1>5, <1>6, <1>7, PageTaken

\* A block that no node covers has a place in every walk.
LEMMA GapExists ==
  ASSUME NEW L, L \in List, NEW k \in Int, \A i \in DOMAIN L.una : k \notin Blocks(L.una[i])
  PROVE  Gaps(L.una, k) # {} /\ Gaps(L.una, k) \subseteq 0..Len(L.una)
<1> DEFINE U == L.una
           S == {g \in Nat : g = Len(U) \/ (g < Len(U) /\ k < U[g + 1].low)}
<1>1. /\ Len(U) \in Nat /\ DOMAIN U = 1..Len(U)
      /\ \A i \in DOMAIN U : U[i].low \in Int /\ U[i].high \in Int
  BY WalkOf DEF RangeNode
<1>2. Len(U) \in S
  BY <1>1
<1>3. PICK g \in S : \A y \in S : g <= y
  BY <1>2, MinOf
<1>4. g \in 0..Len(U) /\ (g < Len(U) => k < U[g + 1].low)
  BY <1>1, <1>3
<1>5. ASSUME g > 0 PROVE k > U[g].high
  <2>1. g - 1 \in Nat /\ g - 1 < Len(U) /\ g - 1 \notin S /\ (g - 1) + 1 = g
    BY <1>1, <1>3, <1>4, <1>5
  <2>2. ~(k < U[g].low)
    BY <2>1
  <2>3. g \in DOMAIN U
    BY <1>1, <1>4, <1>5
  <2> QED BY <1>1, <2>2, <2>3 DEF Blocks
<1>6. g \in Gaps(U, k)
  BY <1>4, <1>5 DEF Gaps
<1> QED BY <1>6 DEF Gaps

\* The operators that link and erase a node, with the count that goes with them and
\* the first node f.
WithNode(L, g, n, f) == [InsertAtGap(L, g, n) EXCEPT !.num_u = L.num_u + 1, !.first_u = f]
WithoutNode(L, i, f) == [rb_erase(L, i) EXCEPT !.num_u = L.num_u - 1, !.first_u = f]

\* Linking a node adds its range, wherever the search ended.
LEMMA LinkedAtGap ==
  ASSUME NEW L, Trees(L), NEW g \in 0..Len(L.una), NEW n \in RangeNode,
         n.low <= n.high, Blocks(n) \subseteq L.start..L.end, Blocks(n) \cap FreeBlocks(L) = {},
         NEW f \in {Dangling} \cup 0..Len(L.una) + 1,
         NEW M, M = WithNode(L, g, n, f)
  PROVE  /\ Trees(M) /\ FreeBlocks(M) = FreeBlocks(L) \cup Blocks(n)
         /\ SameRegion(L, M) /\ SameHuge(L, M) /\ M.num_free = L.num_free /\ M.first_u = f
         /\ M.una = InsertAt(L.una, g + 1, n)
<1> DEFINE V == InsertAt(L.una, g + 1, n)
<1>1. L \in List /\ V \in Seq(RangeNode) /\ L.num_u + 1 \in Int /\ f \in Int
  <2>1. L \in List /\ L.una \in Seq(RangeNode) /\ Len(L.una) \in Nat
    BY WalkOf DEF Trees, List
  <2>2. V \in Seq(RangeNode)
    BY <2>1, InsertAtProperties
  <2> QED BY <2>1, <2>2 DEF List, Dangling
<1>2. M = [L EXCEPT !.una = V, !.num_u = L.num_u + 1, !.first_u = f]
  BY <1>1 DEF WithNode, InsertAtGap, List
<1> HIDE DEF V
<1>3. M \in List
  BY <1>1, <1>2 DEF List
<1>4. /\ M.una = V /\ M.num_u = L.num_u + 1 /\ M.first_u = f /\ M.start = L.start
      /\ M.end = L.end /\ M.huge = L.huge /\ M.first_h = L.first_h /\ M.num_h = L.num_h
      /\ M.num_free = L.num_free
  BY <1>1, <1>2 DEF List
<1>5. SameRegion(L, M) /\ SameHuge(L, M)
  BY <1>4 DEF SameRegion, SameHuge
<1>6. M.una = InsertAt(L.una, g + 1, n)
  BY <1>4 DEF V
<1>7. M.first_u \in {Dangling} \cup 0..Len(L.una) + 1
  BY <1>4
<1>8. Trees(M) /\ FreeBlocks(M) = FreeBlocks(L) \cup Blocks(n)
  <2>1. M.num_u = L.num_u + 1
    BY <1>4
  <2> QED BY <2>1, <1>3, <1>5, <1>6, <1>7, Linked
<1> QED BY <1>4, <1>5, <1>6, <1>8

\* Erasing a node takes its range away.
LEMMA ErasedAt ==
  ASSUME NEW L, Trees(L), NEW i \in DOMAIN L.una,
         NEW f \in {Dangling} \cup 0..Len(L.una) - 1,
         NEW M, M = WithoutNode(L, i, f)
  PROVE  /\ Trees(M) /\ FreeBlocks(M) = FreeBlocks(L) \ Blocks(L.una[i])
         /\ SameRegion(L, M) /\ SameHuge(L, M) /\ M.num_free = L.num_free /\ M.first_u = f
         /\ M.una = RemoveAt(L.una, i)
<1> DEFINE V == RemoveAt(L.una, i)
<1>1. L \in List /\ V \in Seq(RangeNode) /\ L.num_u - 1 \in Int /\ f \in Int
  <2>1. L \in List /\ L.una \in Seq(RangeNode) /\ Len(L.una) \in Nat /\ i \in 1..Len(L.una)
    BY WalkOf DEF Trees, List
  <2>2. V \in Seq(RangeNode)
    BY <2>1, RemoveAtProperties
  <2> QED BY <2>1, <2>2 DEF List, Dangling
<1>2. M = [L EXCEPT !.una = V, !.num_u = L.num_u - 1, !.first_u = f]
  BY <1>1 DEF WithoutNode, rb_erase, List
<1> HIDE DEF V
<1>3. M \in List
  BY <1>1, <1>2 DEF List
<1>4. /\ M.una = V /\ M.num_u = L.num_u - 1 /\ M.first_u = f /\ M.start = L.start
      /\ M.end = L.end /\ M.huge = L.huge /\ M.first_h = L.first_h /\ M.num_h = L.num_h
      /\ M.num_free = L.num_free
  BY <1>1, <1>2 DEF List
<1>5. SameRegion(L, M) /\ SameHuge(L, M)
  BY <1>4 DEF SameRegion, SameHuge
<1>6. M.una = RemoveAt(L.una, i)
  BY <1>4 DEF V
<1> QED BY <1>3, <1>4, <1>5, <1>6, Erased

\* So does erasing one with the first node moved on to its successor.
LEMMA ErasedAdvancing ==
  ASSUME NEW L, Trees(L), NEW i \in DOMAIN L.una,
         NEW M, M = EraseAdvancing(L, i)
  PROVE  /\ Trees(M) /\ FreeBlocks(M) = FreeBlocks(L) \ Blocks(L.una[i])
         /\ SameRegion(L, M) /\ SameHuge(L, M) /\ M.num_free = L.num_free
<1> DEFINE f == IF L.first_u = i THEN (IF rb_next(L.una, i) = 0 THEN 0 ELSE i)
                ELSE IF L.first_u > i THEN L.first_u - 1 ELSE L.first_u
<1>1. /\ L \in List /\ Len(L.una) \in Nat /\ i \in 1..Len(L.una) /\ L.first_u \in Int
      /\ L.first_u \in {Dangling} \cup 0..Len(L.una)
  BY WalkOf DEF Trees, List
<1>2. f \in {Dangling} \cup 0..Len(L.una) - 1 /\ f \in Int
  BY <1>1 DEF rb_next, Dangling
<1>3. M = WithoutNode(L, i, f)
  BY <1>1 DEF WithoutNode, EraseAdvancing, Then, rb_erase, List
<1> HIDE DEF f
<1>4. f \in {Dangling} \cup 0..Len(L.una) - 1
  BY <1>2
<1> QED BY <1>3, <1>4, ErasedAt

\* The node of a huge page that is broken up finds its place in the walk.
LEMMA BrokenLinked ==
  ASSUME NEW L, Trees(L), L.first_h # 0, NEW M, M = BreakHugePage(L)
  PROVE  \E g \in 0..Len(L.una) :
            M = WithNode(FirstHugeTaken(L), g, Node(L.first_h, L.first_h + H - 1), g + 1)
<1> DEFINE b == L.first_h
           n == Node(b, b + H - 1)
           T == FirstHugeTaken(L)
           g == Min(Gaps(L.una, b))
<1>1. L \in List /\ b \in Nat \ {0} /\ b \in L.huge
  BY FirstHuge DEF Trees
<1>2. T \in List
  BY FirstTaken DEF Trees
<1>3. g \in 0..Len(L.una)
  <2>1. b \in HugePage(b)
    BY <1>1, HType DEF HugePage
  <2>2. \A i \in DOMAIN L.una : b \notin Blocks(L.una[i])
    BY <1>1, <2>1 DEF Trees, Apart
  <2>3. Gaps(L.una, b) # {} /\ Gaps(L.una, b) \subseteq 0..Len(L.una)
    BY <1>1, <2>2, GapExists
  <2>4. Gaps(L.una, b) \in SUBSET Nat
    BY <2>3
  <2> QED BY <2>3, <2>4, MinOf
<1>4. M = WithNode(T, g, n, g + 1)
  <2>1. M = [InsertAtGap(T, g, n) EXCEPT !.num_u = @ + 1, !.first_u = g + 1]
    BY DEF BreakHugePage, Then
  <2> HIDE DEF T, g, n
  <2> QED BY <1>2, <2>1 DEF WithNode, InsertAtGap, List
<1> QED BY <1>3, <1>4

\* Breaking up a huge page moves its blocks from one tree to the other.
LEMMA HugePageBroken ==
  ASSUME NEW L, Trees(L), L.first_h # 0, NEW M, M = BreakHugePage(L)
  PROVE  /\ Trees(M) /\ FreeBlocks(M) = FreeBlocks(L)
         /\ SameRegion(L, M) /\ M.num_free = L.num_free /\ M.first_u \in 1..Len(M.una)
<1> DEFINE b == L.first_h
           n == Node(b, b + H - 1)
           T == FirstHugeTaken(L)
<1>1. /\ L \in List /\ b \in Nat \ {0} /\ HugePage(b) \subseteq FreeBlocks(L)
      /\ HugePage(b) \subseteq L.start..L.end /\ b \in L.huge
  BY FirstHuge DEF Trees
<1>2. /\ Trees(T) /\ FreeBlocks(T) = FreeBlocks(L) \ HugePage(b) /\ SameRegion(L, T)
      /\ SameWalk(L, T) /\ T.num_free = L.num_free /\ T.first_u = L.first_u
  BY FirstTaken
<1>3. n \in RangeNode /\ n.low <= n.high /\ Blocks(n) = HugePage(b)
  BY <1>1, HType DEF Node, RangeNode, Blocks, HugePage
<1>4. PICK g \in 0..Len(L.una) : M = WithNode(T, g, n, g + 1)
  BY BrokenLinked
<1>5. M = WithNode(T, g, n, g + 1)
  BY <1>4
<1>6. T.una = L.una /\ Len(T.una) \in Nat
  BY <1>2, WalkOf DEF Trees, SameWalk
<1>7. Blocks(n) \subseteq T.start..T.end /\ Blocks(n) \cap FreeBlocks(T) = {}
  BY <1>1, <1>2, <1>3 DEF SameRegion
<1> HIDE DEF b, n, T
<1>8. g \in 0..Len(T.una) /\ g + 1 \in {Dangling} \cup 0..Len(T.una) + 1
  BY <1>4, <1>6
<1>9. /\ Trees(M) /\ FreeBlocks(M) = FreeBlocks(T) \cup Blocks(n)
      /\ SameRegion(T, M) /\ M.num_free = T.num_free /\ M.first_u = g + 1
      /\ M.una = InsertAt(T.una, g + 1, n)
  BY <1>2, <1>3, <1>5, <1>7, <1>8, LinkedAtGap
<1>10. Len(M.una) = Len(T.una) + 1
  <2>1. T.una \in Seq(RangeNode)
    BY <1>2 DEF Trees, List
  <2> QED BY <1>3, <1>8, <1>9, <2>1, InsertAtProperties
<1>11. FreeBlocks(M) = FreeBlocks(L)
  BY <1>1, <1>2, <1>3, <1>9
<1>12. M.first_u \in 1..Len(M.una)
  BY <1>6, <1>8, <1>9, <1>10
<1> QED BY <1>2, <1>9, <1>11, <1>12 DEF SameRegion

\* The range of a node lies within the blocks of its list.
LEMMA NodeIn ==
  ASSUME NEW L, Trees(L), NEW i \in DOMAIN L.una
  PROVE  /\ L.una[i].low \in Int /\ L.una[i].high \in Int /\ L.una[i].low <= L.una[i].high
         /\ L.una[i] \in RangeNode
         /\ Blocks(L.una[i]) \subseteq FreeBlocks(L) /\ Blocks(L.una[i]) \subseteq L.start..L.end
<1>1. L.una[i] \in RangeNode
  BY WalkOf DEF Trees
<1> QED BY <1>1 DEF Trees, RangeNode, FreeBlocks, UnaBlocks

\* What is granted leaves the list, block for block, and nothing else does.
Grants(L, r) ==
    /\ r.num \in Nat /\ r.block \in Int
    /\ r.block..r.block + r.num - 1 \subseteq FreeBlocks(L)
    /\ Trees(r.list) /\ SameRegion(L, r.list)
    /\ FreeBlocks(r.list) = FreeBlocks(L) \ (r.block..r.block + r.num - 1)
    /\ r.list.num_free = L.num_free - r.num

\* A list from which a run was taken, with its counter reduced, grants that run.
LEMMA GrantedGrants ==
  ASSUME NEW L, Trees(L), NEW M, Trees(M), SameRegion(L, M), M.num_free = L.num_free,
         NEW b \in Int, NEW n \in Nat, b..b + n - 1 \subseteq FreeBlocks(L),
         FreeBlocks(M) = FreeBlocks(L) \ (b..b + n - 1), NEW r, r = Granted(M, b, n)
  PROVE  Grants(L, r)
<1>1. M \in List /\ L \in List /\ M.num_free - n \in Int
  BY DEF Trees, List
<1> DEFINE N == [M EXCEPT !.num_free = @ - n]
<1>2. N \in List
  BY <1>1 DEF List
<1>3. /\ SameRegion(M, N) /\ SameWalk(M, N) /\ SameHuge(M, N) /\ N.first_u = M.first_u
      /\ N.num_free = L.num_free - n
  BY <1>1 DEF List, SameRegion, SameWalk, SameHuge
<1>4. N.first_u \in {Dangling} \cup 0..Len(M.una)
  BY <1>3 DEF Trees
<1>5. r.list = N /\ r.block = b /\ r.num = n
  BY DEF Granted
<1> HIDE DEF N
<1>6. Trees(N) /\ FreeBlocks(N) = FreeBlocks(M)
  BY <1>2, <1>3, <1>4, OnlyCounters
<1>7. SameRegion(L, N)
  BY <1>3 DEF SameRegion
<1> QED BY <1>3, <1>5, <1>6, <1>7 DEF Grants

\* An allocation that is refused grants the empty run.
LEMMA RefusedGrants ==
  ASSUME NEW L, Trees(L), NEW M, Trees(M), SameRegion(L, M), M.num_free = L.num_free,
         FreeBlocks(M) = FreeBlocks(L), NEW r, r = Refused(M)
  PROVE  Grants(L, r)
<1>1. r.list = M /\ r.block = 0 /\ r.num = 0
  BY DEF Refused
<1>2. L.num_free \in Int /\ 0..0 + 0 - 1 = {}
  BY DEF Trees, List
<1> QED BY <1>1, <1>2 DEF Grants

\* Every way out of pmfs_alloc_blocks_in_free_list grants what it returns.
LEMMA AllocGrants ==
  ASSUME NEW L, Trees(L), L.first_u # Dangling, NEW large \in BOOLEAN, NEW num \in Nat \ {0},
         NEW r, r = pmfs_alloc_blocks_in_free_list(L, large, num)
  PROVE  Grants(L, r)
<1> DEFINE B == IF L.first_u = 0 THEN BreakHugePage(L) ELSE L
           U == B.una
           size(i) == U[i].high - U[i].low + 1
           fit == {i \in B.first_u..Len(U) : ~(large /\ num > size(i))}
           i == Min(fit)
           part == [B EXCEPT !.una[i].low = @ + num]
<1>1. r = IF (L.first_u = 0 /\ L.first_h = 0) \/ L.num_free = 0 THEN Refused(L)
          ELSE IF num = H /\ L.first_h # 0 THEN pmfs_alloc_superpage(L)
          ELSE IF fit = {} THEN Refused(B)
          ELSE IF num >= size(i) THEN Granted(EraseAdvancing(B, i), U[i].low, size(i))
          ELSE Granted(part, U[i].low, num)
  BY DEF pmfs_alloc_blocks_in_free_list, Then
<1>2. L \in List /\ SameRegion(L, L)
  BY DEF Trees, SameRegion
<1>3. CASE (L.first_u = 0 /\ L.first_h = 0) \/ L.num_free = 0
  BY <1>1, <1>2, <1>3, RefusedGrants
<1> SUFFICES ASSUME ~((L.first_u = 0 /\ L.first_h = 0) \/ L.num_free = 0) PROVE Grants(L, r)
  BY <1>3
<1>4. CASE num = H /\ L.first_h # 0
  <2> DEFINE T == FirstHugeTaken(L)
  <2>1. r = Granted(T, L.first_h, H)
    BY <1>1, <1>4 DEF pmfs_alloc_superpage
  <2>2. /\ Trees(T) /\ FreeBlocks(T) = FreeBlocks(L) \ HugePage(L.first_h)
        /\ SameRegion(L, T) /\ T.num_free = L.num_free
    BY <1>4, FirstTaken
  <2>3. L.first_h \in Int /\ HugePage(L.first_h) \subseteq FreeBlocks(L) /\ H \in Nat
    BY <1>4, FirstHuge, HType
  <2> HIDE DEF T
  <2> QED BY <2>1, <2>2, <2>3, GrantedGrants DEF HugePage
<1> SUFFICES ASSUME ~(num = H /\ L.first_h # 0) PROVE Grants(L, r)
  BY <1>4
<1>5. /\ Trees(B) /\ FreeBlocks(B) = FreeBlocks(L) /\ SameRegion(L, B)
      /\ B.num_free = L.num_free /\ B.first_u \in Nat \ {0}
  <2>1. CASE L.first_u = 0
    BY <2>1, HugePageBroken
  <2>2. CASE L.first_u # 0
    BY <1>2, <2>2 DEF Trees
  <2> QED BY <2>1, <2>2
<1>6. /\ B \in List /\ Len(U) \in Nat /\ DOMAIN U = 1..Len(U)
  BY <1>5, WalkOf DEF Trees
<1> HIDE DEF B
<1>7. CASE fit = {}
  <2>1. r = Refused(B)
    BY <1>1, <1>7
  <2> QED BY <1>5, <2>1, RefusedGrants
<1>8. CASE fit # {}
  <2>1. i \in fit
    <3>1. fit \in SUBSET Nat
      BY <1>5, <1>6
    <3> QED BY <1>8, <3>1, MinOf
  <2>2. i \in DOMAIN U
    BY <1>5, <1>6, <2>1
  <2>3. r = IF num >= size(i) THEN Granted(EraseAdvancing(B, i), U[i].low, size(i))
            ELSE Granted(part, U[i].low, num)
    BY <1>1, <1>8
  <2> HIDE DEF fit, i
  <2>4. /\ U[i].low \in Int /\ U[i].high \in Int /\ U[i].low <= U[i].high /\ U[i] \in RangeNode
        /\ Blocks(U[i]) \subseteq FreeBlocks(B) /\ Blocks(U[i]) \subseteq B.start..B.end
    BY <1>5, <2>2, NodeIn
  <2>5. size(i) \in Nat \ {0} /\ U[i].low + size(i) - 1 = U[i].high
    BY <2>4
  <2>6. CASE num >= size(i)
    <3> DEFINE E == EraseAdvancing(B, i)
               s == size(i)
               l == U[i].low
    <3>1. r = Granted(E, l, s)
      BY <2>3, <2>6
    <3>2. /\ Trees(E) /\ FreeBlocks(E) = FreeBlocks(B) \ Blocks(U[i])
          /\ SameRegion(B, E) /\ E.num_free = B.num_free
      BY <1>5, <2>2, ErasedAdvancing
    <3>3. Blocks(U[i]) = l..l + s - 1 /\ l \in Int /\ s \in Nat
      BY <2>4, <2>5 DEF Blocks
    <3>4. SameRegion(L, E)
      BY <1>5, <3>2 DEF SameRegion
    <3> HIDE DEF E, s, l
    <3> QED BY <1>5, <2>4, <3>1, <3>2, <3>3, <3>4, GrantedGrants
  <2>7. CASE ~(num >= size(i))
    <3> DEFINE n == [U[i] EXCEPT !.low = U[i].low + num]
               l == U[i].low
    <3>1. r = Granted(part, l, num)
      BY <2>3, <2>7
    <3>2. /\ n \in RangeNode /\ n.low = l + num /\ n.high = U[i].high
      BY <2>4 DEF RangeNode
    <3>3. /\ n.low <= n.high /\ Blocks(n) \subseteq Blocks(U[i])
          /\ Blocks(n) = Blocks(U[i]) \ (l..l + num - 1)
          /\ l..l + num - 1 \subseteq Blocks(U[i])
      BY <2>4, <2>7, <3>2 DEF Blocks
    <3>4. part.una = [U EXCEPT ![i] = n] /\ part.una \in Seq(RangeNode)
      <4>1. U \in Seq(RangeNode) /\ part.una = [U EXCEPT ![i] = n]
        BY <1>6, <2>2, <2>4 DEF List
      <4>2. i \in 1..Len(U)
        BY <1>6, <2>2
      <4> QED BY <3>2, <4>1, <4>2, ExceptSeq
    <3>5. part \in List
      BY <1>6, <3>4 DEF List
    <3>6. /\ part.first_u = B.first_u /\ part.num_u = B.num_u /\ part.num_free = B.num_free
          /\ SameRegion(B, part) /\ SameHuge(B, part)
      BY <1>6 DEF List, SameRegion, SameHuge
    <3> HIDE DEF part, n
    <3>7. /\ Trees(part)
          /\ FreeBlocks(part) = (FreeBlocks(B) \ Blocks(U[i])) \cup Blocks(n)
      <4>1. Blocks(n) \cap (FreeBlocks(B) \ Blocks(B.una[i])) = {} /\ Blocks(n) \subseteq B.start..B.end
        BY <2>4, <3>3
      <4> QED BY <1>5, <2>2, <3>2, <3>3, <3>4, <3>5, <3>6, <4>1, Replaced
    <3>8. FreeBlocks(part) = FreeBlocks(B) \ (l..l + num - 1)
      BY <2>4, <3>3, <3>7
    <3>9. SameRegion(L, part)
      BY <1>5, <3>6 DEF SameRegion
    <3>10. l \in Int /\ num \in Nat /\ l..l + num - 1 \subseteq FreeBlocks(L)
      BY <1>5, <2>4, <3>3
    <3> HIDE DEF l
    <3> QED BY <1>5, <3>1, <3>6, <3>7, <3>8, <3>9, <3>10, GrantedGrants
  <2> QED BY <2>6, <2>7
<1> QED BY <1>7, <1>8

------------------------------------------------------------------------------
(* Freeing into a list.                                                         *)

\* A node's range set to n, all else as it was.
WithRange(L, i, n) == [L EXCEPT !.una[i] = n]

\* A node may grow or shrink within what is free in no other node.
LEMMA RangeSet ==
  ASSUME NEW L, Trees(L), NEW i \in DOMAIN L.una, NEW n \in RangeNode,
         n.low <= n.high, Blocks(n) \subseteq L.start..L.end,
         Blocks(n) \cap (FreeBlocks(L) \ Blocks(L.una[i])) = {},
         NEW M, M = WithRange(L, i, n)
  PROVE  /\ Trees(M) /\ FreeBlocks(M) = (FreeBlocks(L) \ Blocks(L.una[i])) \cup Blocks(n)
         /\ SameRegion(L, M) /\ SameHuge(L, M) /\ M.num_free = L.num_free
<1> DEFINE V == [L.una EXCEPT ![i] = n]
<1>1. L \in List /\ L.una \in Seq(RangeNode) /\ i \in 1..Len(L.una)
  BY WalkOf DEF Trees, List
<1>2. V \in Seq(RangeNode)
  BY <1>1, ExceptSeq
<1>3. M = [L EXCEPT !.una = V]
  BY <1>1 DEF WithRange, List
<1> HIDE DEF V
<1>4. M \in List
  BY <1>1, <1>2, <1>3 DEF List
<1>5. /\ M.una = V /\ M.num_u = L.num_u /\ M.first_u = L.first_u
      /\ SameRegion(L, M) /\ SameHuge(L, M) /\ M.num_free = L.num_free
  BY <1>1, <1>3 DEF List, SameRegion, SameHuge
<1>6. M.una = [L.una EXCEPT ![i] = n]
  BY <1>5 DEF V
<1>7. Trees(M) /\ FreeBlocks(M) = (FreeBlocks(L) \ Blocks(L.una[i])) \cup Blocks(n)
  <2>1. /\ M.first_u = L.first_u /\ M.num_u = L.num_u
        /\ SameRegion(L, M) /\ SameHuge(L, M)
    BY <1>5
  <2> QED BY <1>4, <1>6, <2>1, Replaced
<1> QED BY <1>5, <1>6, <1>7

\* The huge pages of a run join the huge tree (check_and_insert_huge_aligned).
LEMMA PagesInserted ==
  ASSUME NEW L, Trees(L), NEW low \in Int, NEW P \in SUBSET Int, IsFiniteSet(P), low \in P,
         PagesBlocks(P) \cap FreeBlocks(L) = {},
         \A b \in P : IS_BLOCK_2MB_ALIGNED(b) /\ HugePage(b) \subseteq L.start..L.end,
         NEW M, M = InsertPages(L, low, P)
  PROVE  /\ Trees(M) /\ FreeBlocks(M) = FreeBlocks(L) \cup PagesBlocks(P)
         /\ SameRegion(L, M) /\ M.num_free = L.num_free
<1> DEFINE f == IF L.first_h = 0 \/ L.first_h > low + H - 1 THEN low ELSE L.first_h
           Q == L.huge \cup P
           c == L.num_h + Cardinality(P)
<1>1. L \in List /\ Cardinality(P) \in Nat
  BY FS_CardinalityType DEF Trees
<1>2. f \in Q /\ f \in Int /\ Q \in SUBSET Int /\ c \in Int
  <2>1. L.first_h \in {0} \cup L.huge /\ L.first_h \in Int /\ L.huge \in SUBSET Int /\ L.num_h \in Int
    BY <1>1 DEF Trees, List
  <2>2. f \in Q
    BY <2>1
  <2>3. Q \in SUBSET Int /\ c \in Int
    BY <1>1, <2>1
  <2> QED BY <2>2, <2>3
<1>3. M = [L EXCEPT !.huge = Q, !.num_h = c, !.first_h = f]
  BY <1>1 DEF InsertPages, insert_in_huge_tree, List
<1> HIDE DEF f, Q, c
<1>4. M \in List
  BY <1>1, <1>2, <1>3 DEF List
<1>5. /\ M.huge = Q /\ M.num_h = c /\ M.first_h = f /\ M.first_u = L.first_u
      /\ SameRegion(L, M) /\ SameWalk(L, M) /\ M.num_free = L.num_free
  BY <1>1, <1>3 DEF List, SameRegion, SameWalk
<1>6. M.huge = L.huge \cup P /\ M.num_h = L.num_h + Cardinality(P) /\ M.first_h \in M.huge
  BY <1>2, <1>5 DEF Q, c
<1>7. Trees(M) /\ FreeBlocks(M) = FreeBlocks(L) \cup PagesBlocks(P)
  <2>1. M.first_u = L.first_u /\ SameRegion(L, M) /\ SameWalk(L, M)
    BY <1>5
  <2> QED BY <1>4, <1>6, <2>1, PagesAdded
<1> QED BY <1>5, <1>7

\* Where the huge pages of a range lie.
LEMMA PagesOf ==
  ASSUME NEW x \in Int, NEW y \in Int, x <= y,
         NEW low, low = IF IS_BLOCK_2MB_ALIGNED(x) THEN x ELSE x + H - (x % H),
         NEW high, high = y - ((y + 1) % H)
  PROVE  /\ low \in Int /\ high \in Int /\ x <= low /\ high <= y
         /\ IS_BLOCK_2MB_ALIGNED(low) /\ IS_BLOCK_2MB_ALIGNED(high + 1)
<1>1. low \in Int /\ x <= low /\ IS_BLOCK_2MB_ALIGNED(low)
  <2>1. CASE IS_BLOCK_2MB_ALIGNED(x)
    BY <2>1
  <2>2. CASE ~IS_BLOCK_2MB_ALIGNED(x)
    <3> DEFINE r == x % H
    <3>1. r \in 0..H - 1 /\ H \in Nat
      BY ModBounds, HType
    <3>2. x - r \in Int /\ IS_BLOCK_2MB_ALIGNED(x - r)
      BY AlignDown
    <3>3. low = x + H - r
      BY <2>2
    <3> HIDE DEF r
    <3>4. low = (x - r) + H /\ low \in Int /\ x <= low
      BY <3>1, <3>3
    <3> QED BY <3>2, <3>4, AlignShift
  <2> QED BY <2>1, <2>2
<1>2. high \in Int /\ high <= y /\ IS_BLOCK_2MB_ALIGNED(high + 1)
  <2> DEFINE z == y + 1
             r == z % H
  <2>1. z \in Int
    OBVIOUS
  <2>2. r \in 0..H - 1 /\ H \in Nat
    BY <2>1, ModBounds, HType
  <2>3. IS_BLOCK_2MB_ALIGNED(z - r)
    BY <2>1, AlignDown
  <2>4. high = y - r
    OBVIOUS
  <2> HIDE DEF r
  <2>5. high + 1 = z - r /\ high \in Int /\ high <= y
    BY <2>2, <2>4
  <2> QED BY <2>3, <2>5
<1> QED BY <1>1, <1>2

\* The huge pages inside a range, and what is left of it below and above them.
PagesLow(n) == IF IS_BLOCK_2MB_ALIGNED(n.low) THEN n.low ELSE n.low + H - (n.low % H)
PagesHigh(n) == n.high - ((n.high + 1) % H)
HasPages(n) == ~(n.high - n.low + 1 < H \/ PagesHigh(n) <= PagesLow(n))
PagesIn(n) == {b \in PagesLow(n)..PagesHigh(n) : IS_BLOCK_2MB_ALIGNED(b)}
RestBelow(n) == Node(n.low, PagesLow(n) - 1)
RestAbove(n) == Node(PagesHigh(n) + 1, n.high)

\* The list with the rests of node i and without its pages.
Kept(L, i) ==
    LET n == L.una[i]
        below == WithRange(L, i, RestBelow(n))
    IN IF PagesLow(n) # n.low /\ PagesHigh(n) # n.high
       THEN WithNode(below, 0, RestAbove(n), IF L.first_u > 0 THEN L.first_u + 1 ELSE L.first_u)
       ELSE IF PagesLow(n) # n.low THEN below
       ELSE IF PagesHigh(n) # n.high THEN WithRange(L, i, RestAbove(n))
       ELSE EraseAdvancing(L, i)

\* check_and_insert_huge_aligned in these words.
LEMMA HugeAlignedIs ==
  ASSUME NEW L, L \in List, NEW i \in DOMAIN L.una,
         NEW M, M = check_and_insert_huge_aligned(L, i)
  PROVE  M = IF HasPages(L.una[i])
             THEN InsertPages(Kept(L, i), PagesLow(L.una[i]), PagesIn(L.una[i])) ELSE L
<1> DEFINE n == L.una[i]
           low == PagesLow(n)
           high == PagesHigh(n)
           lower == [L EXCEPT !.una[i].high = low - 1]
           split == [InsertAtGap(lower, 0, Node(high + 1, n.high)) EXCEPT !.num_u = @ + 1]
           upper == [L EXCEPT !.una[i].low = high + 1]
           kept == IF low # n.low /\ high # n.high THEN split
                   ELSE IF low # n.low THEN lower
                   ELSE IF high # n.high THEN upper
                   ELSE EraseAdvancing(L, i)
<1>1. M = IF n.high - n.low + 1 < H \/ high <= low THEN L ELSE InsertPages(kept, low, PagesIn(n))
  BY DEF check_and_insert_huge_aligned, Then, PagesLow, PagesHigh, PagesIn
<1>2. n \in RangeNode /\ L.una \in Seq(RangeNode)
  BY WalkOf DEF List
<1> HIDE DEF low, high
<1>3. lower = WithRange(L, i, RestBelow(n))
  <2>1. [n EXCEPT !.high = low - 1] = Node(n.low, low - 1)
    BY <1>2 DEF RangeNode, Node
  <2>2. lower = [L EXCEPT !.una[i] = [n EXCEPT !.high = low - 1]]
    BY DEF List
  <2> QED BY <2>1, <2>2 DEF WithRange, RestBelow, low
<1>4. upper = WithRange(L, i, RestAbove(n))
  <2>1. [n EXCEPT !.low = high + 1] = Node(high + 1, n.high)
    BY <1>2 DEF RangeNode, Node
  <2>2. upper = [L EXCEPT !.una[i] = [n EXCEPT !.low = high + 1]]
    BY DEF List
  <2> QED BY <2>1, <2>2 DEF WithRange, RestAbove, high
<1>5. split = WithNode(lower, 0, RestAbove(n), IF L.first_u > 0 THEN L.first_u + 1 ELSE L.first_u)
  <2>1. /\ lower = [L EXCEPT !.una = [L.una EXCEPT ![i] = [n EXCEPT !.high = low - 1]]]
    BY DEF List
  <2>2. PICK V : V = [L.una EXCEPT ![i] = [n EXCEPT !.high = low - 1]]
    OBVIOUS
  <2>3. lower = [L EXCEPT !.una = V]
    BY <2>1, <2>2
  <2>4. RestAbove(n) = Node(high + 1, n.high)
    BY DEF RestAbove, high
  <2> HIDE DEF lower, n
  <2>5. PICK m : m = Node(high + 1, n.high)
    OBVIOUS
  <2>6. [InsertAtGap(lower, 0, m) EXCEPT !.num_u = @ + 1]
          = WithNode(lower, 0, m, IF L.first_u > 0 THEN L.first_u + 1 ELSE L.first_u)
    BY <2>3 DEF WithNode, InsertAtGap, List
  <2> QED BY <2>4, <2>5, <2>6
<1>6. kept = Kept(L, i)
  <2> HIDE DEF lower, split, upper
  <2> QED BY <1>3, <1>4, <1>5 DEF Kept, low, high
<1> HIDE DEF kept
<1> QED BY <1>1, <1>6 DEF HasPages, low, high

\* The rests of a node keep what is not in its pages.
LEMMA KeptTrees ==
  ASSUME NEW L, Trees(L), NEW i \in DOMAIN L.una, NEW n, n = L.una[i], HasPages(n),
         NEW low, low = PagesLow(n), NEW high, high = PagesHigh(n), NEW K, K = Kept(L, i)
  PROVE  /\ Trees(K) /\ FreeBlocks(K) = FreeBlocks(L) \ (low..high)
         /\ SameRegion(L, K) /\ SameHuge(L, K) /\ K.num_free = L.num_free
<1> DEFINE below == WithRange(L, i, RestBelow(n))
           nl == RestBelow(n)
           nh == RestAbove(n)
<1>1. /\ n.low \in Int /\ n.high \in Int /\ n.low <= n.high /\ n \in RangeNode
      /\ Blocks(n) \subseteq FreeBlocks(L) /\ Blocks(n) \subseteq L.start..L.end
      /\ L \in List
  BY NodeIn DEF Trees
<1>2. /\ low \in Int /\ high \in Int /\ n.low <= low /\ high <= n.high /\ low < high
  <2>1. PICK x, y : x = n.low /\ y = n.high
    OBVIOUS
  <2>2. /\ low = IF IS_BLOCK_2MB_ALIGNED(x) THEN x ELSE x + H - (x % H)
        /\ high = y - ((y + 1) % H) /\ x \in Int /\ y \in Int /\ x <= y
    BY <1>1, <2>1 DEF PagesLow, PagesHigh
  <2>3. low \in Int /\ high \in Int /\ x <= low /\ high <= y
    BY <2>2, PagesOf
  <2> QED BY <2>1, <2>3 DEF HasPages
<1>3. \A X \in SUBSET Blocks(n) : X \cap (FreeBlocks(L) \ Blocks(n)) = {}
  OBVIOUS
<1>4. Blocks(n) = n.low..n.high /\ low..high \subseteq Blocks(n)
  BY <1>1, <1>2 DEF Blocks
<1>5. ASSUME low # n.low
      PROVE  /\ Trees(below) /\ SameRegion(L, below) /\ SameHuge(L, below)
             /\ below.num_free = L.num_free
             /\ FreeBlocks(below) = (FreeBlocks(L) \ Blocks(n)) \cup (n.low..low - 1)
  <2>1. nl \in RangeNode /\ nl.low = n.low /\ nl.high = low - 1
    BY <1>1, <1>2 DEF RangeNode, RestBelow, Node
  <2>2. nl.low <= nl.high /\ Blocks(nl) \subseteq Blocks(n) /\ Blocks(nl) = n.low..low - 1
    BY <1>1, <1>2, <1>5, <2>1 DEF Blocks
  <2>3. /\ nl \in RangeNode /\ nl.low <= nl.high /\ Blocks(nl) \subseteq L.start..L.end
        /\ Blocks(nl) \cap (FreeBlocks(L) \ Blocks(L.una[i])) = {}
    BY <1>1, <1>3, <2>1, <2>2
  <2>4. below = WithRange(L, i, nl)
    OBVIOUS
  <2> HIDE DEF nl, below
  <2>5. /\ Trees(below) /\ SameRegion(L, below) /\ SameHuge(L, below)
        /\ below.num_free = L.num_free
        /\ FreeBlocks(below) = (FreeBlocks(L) \ Blocks(L.una[i])) \cup Blocks(nl)
    BY <2>3, <2>4, RangeSet
  <2> QED BY <2>2, <2>5
<1>6. ASSUME high # n.high
      PROVE  /\ nh \in RangeNode /\ nh.low = high + 1 /\ nh.high = n.high /\ nh.low <= nh.high
             /\ Blocks(nh) = high + 1..n.high
  BY <1>1, <1>2, <1>6 DEF Node, RangeNode, Blocks, RestAbove
<1>7. CASE low # n.low /\ high # n.high
  <2> DEFINE f == IF L.first_u > 0 THEN L.first_u + 1 ELSE L.first_u
  <2>1. below \in List /\ Len(below.una) \in Nat /\ f \in {Dangling} \cup 0..Len(below.una) + 1
    <3>1. below \in List /\ below.first_u \in {Dangling} \cup 0..Len(below.una)
      BY <1>5, <1>7 DEF Trees
    <3>2. below.first_u = L.first_u
      BY <1>1 DEF WithRange, List
    <3>3. Len(below.una) \in Nat
      BY <3>1, WalkOf
    <3> HIDE DEF below
    <3> QED BY <3>1, <3>2, <3>3 DEF Dangling
  <2>2. K = WithNode(below, 0, nh, f)
    BY <1>7 DEF Kept
  <2> HIDE DEF below, nh, f
  <2>3. Blocks(nh) \subseteq below.start..below.end /\ Blocks(nh) \cap FreeBlocks(below) = {}
    <3>1. below.start = L.start /\ below.end = L.end
      BY <1>5, <1>7 DEF SameRegion
    <3>2. Blocks(nh) \subseteq n.low..n.high /\ Blocks(nh) \cap (n.low..low - 1) = {}
      BY <1>1, <1>2, <1>6, <1>7
    <3> QED BY <1>1, <1>4, <1>5, <1>7, <3>1, <3>2
  <2>4. /\ Trees(K) /\ FreeBlocks(K) = FreeBlocks(below) \cup Blocks(nh)
        /\ SameRegion(below, K) /\ SameHuge(below, K) /\ K.num_free = below.num_free
    <3>1. 0 \in 0..Len(below.una) /\ Trees(below) /\ nh \in RangeNode /\ nh.low <= nh.high
      BY <1>5, <1>6, <1>7, <2>1
    <3> QED BY <2>1, <2>2, <2>3, <3>1, LinkedAtGap
  <2>5. FreeBlocks(K) = FreeBlocks(L) \ (low..high)
    <3>1. n.low..n.high = (n.low..low - 1) \cup (low..high) \cup Blocks(nh)
      BY <1>1, <1>2, <1>6, <1>7
    <3>2. ((n.low..low - 1) \cup Blocks(nh)) \cap (low..high) = {}
      BY <1>1, <1>2, <1>6, <1>7
    <3> QED BY <1>1, <1>4, <1>5, <1>7, <2>4, <3>1, <3>2
  <2> QED BY <1>5, <1>7, <2>4, <2>5 DEF SameRegion, SameHuge
<1>8. CASE low # n.low /\ high = n.high
  <2>1. K = below
    BY <1>8 DEF Kept
  <2> HIDE DEF below
  <2>2. FreeBlocks(K) = FreeBlocks(L) \ (low..high)
    <3>1. n.low..n.high = (n.low..low - 1) \cup (low..high) /\ (n.low..low - 1) \cap (low..high) = {}
      BY <1>1, <1>2, <1>8
    <3> QED BY <1>1, <1>4, <1>5, <1>8, <2>1, <3>1
  <2> QED BY <1>5, <1>8, <2>1, <2>2
<1>9. CASE low = n.low /\ high # n.high
  <2>1. K = WithRange(L, i, nh)
    BY <1>9 DEF Kept
  <2>2. Blocks(nh) \subseteq Blocks(n) /\ Blocks(nh) = Blocks(n) \ (low..high)
    <3> HIDE DEF nh
    <3> QED BY <1>1, <1>2, <1>4, <1>6, <1>9
  <2> HIDE DEF nh
  <2>3. /\ nh \in RangeNode /\ nh.low <= nh.high /\ Blocks(nh) \subseteq L.start..L.end
        /\ Blocks(nh) \cap (FreeBlocks(L) \ Blocks(L.una[i])) = {}
    BY <1>1, <1>3, <1>6, <1>9, <2>2
  <2>4. /\ Trees(K) /\ FreeBlocks(K) = (FreeBlocks(L) \ Blocks(L.una[i])) \cup Blocks(nh)
        /\ SameRegion(L, K) /\ SameHuge(L, K) /\ K.num_free = L.num_free
    BY <2>1, <2>3, RangeSet
  <2>5. FreeBlocks(K) = FreeBlocks(L) \ (low..high)
    BY <1>1, <1>4, <2>2, <2>4
  <2> QED BY <2>4, <2>5
<1>10. CASE low = n.low /\ high = n.high
  <2>1. K = EraseAdvancing(L, i)
    BY <1>10 DEF Kept
  <2>2. Blocks(L.una[i]) = low..high
    BY <1>4, <1>10
  <2>3. /\ Trees(K) /\ FreeBlocks(K) = FreeBlocks(L) \ Blocks(L.una[i])
        /\ SameRegion(L, K) /\ SameHuge(L, K) /\ K.num_free = L.num_free
    BY <2>1, ErasedAdvancing
  <2> QED BY <2>2, <2>3
<1> QED BY <1>7, <1>8, <1>9, <1>10

\* Moving the huge pages of a grown node to their tree keeps the blocks of the list.
LEMMA HugeAlignedInserted ==
  ASSUME NEW L, Trees(L), NEW i \in DOMAIN L.una,
         NEW M, M = check_and_insert_huge_aligned(L, i)
  PROVE  /\ Trees(M) /\ FreeBlocks(M) = FreeBlocks(L)
         /\ SameRegion(L, M) /\ M.num_free = L.num_free
<1>1. PICK n : n = L.una[i]
  OBVIOUS
<1>2. PICK low, high : low = PagesLow(n) /\ high = PagesHigh(n)
  OBVIOUS
<1>3. PICK pages : pages = PagesIn(n)
  OBVIOUS
<1>4. PICK K : K = Kept(L, i)
  OBVIOUS
<1>5. M = IF HasPages(n) THEN InsertPages(K, low, pages) ELSE L
  <2>1. L \in List
    BY DEF Trees
  <2> QED BY <1>1, <1>2, <1>3, <1>4, <2>1, HugeAlignedIs
<1>6. CASE ~HasPages(n)
  BY <1>5, <1>6 DEF SameRegion
<1>7. CASE HasPages(n)
  <2>1. /\ n.low \in Int /\ n.high \in Int /\ n.low <= n.high
        /\ Blocks(n) \subseteq FreeBlocks(L) /\ Blocks(n) \subseteq L.start..L.end
    BY <1>1, NodeIn
  <2>2. /\ low \in Int /\ high \in Int /\ n.low <= low /\ high <= n.high
        /\ IS_BLOCK_2MB_ALIGNED(low) /\ IS_BLOCK_2MB_ALIGNED(high + 1)
    BY <1>2, <2>1, PagesOf DEF PagesLow, PagesHigh
  <2>3. low < high
    BY <1>2, <1>7, <2>2 DEF HasPages
  <2>4. low..high \subseteq Blocks(n)
    BY <2>1, <2>2 DEF Blocks
  <2>5. pages = {b \in low..high : IS_BLOCK_2MB_ALIGNED(b)}
    BY <1>2, <1>3 DEF PagesIn
  <2>6. PagesBlocks(pages) = low..high
    BY <2>2, <2>5, PagesCover DEF PagesBlocks
  <2>7. low \in pages /\ pages \in SUBSET Int /\ IsFiniteSet(pages)
    <3>1. IsFiniteSet(low..high)
      BY <2>2, FS_Interval
    <3>2. pages \subseteq low..high
      BY <2>5
    <3>3. IsFiniteSet(pages)
      BY <3>1, <3>2, FS_Subset
    <3> QED BY <2>2, <2>3, <2>5, <3>3
  <2>8. /\ Trees(K) /\ FreeBlocks(K) = FreeBlocks(L) \ (low..high)
        /\ SameRegion(L, K) /\ K.num_free = L.num_free
    BY <1>1, <1>2, <1>4, <1>7, KeptTrees
  <2>9. \A b \in pages : IS_BLOCK_2MB_ALIGNED(b) /\ HugePage(b) \subseteq K.start..K.end
    <3>1. \A b \in pages : HugePage(b) \subseteq low..high
      BY <2>6 DEF PagesBlocks
    <3> QED BY <2>1, <2>4, <2>5, <2>8, <3>1 DEF SameRegion
  <2>10. PagesBlocks(pages) \cap FreeBlocks(K) = {} /\ M = InsertPages(K, low, pages)
    BY <1>5, <1>7, <2>6, <2>8
  <2>11. /\ Trees(M) /\ FreeBlocks(M) = FreeBlocks(K) \cup PagesBlocks(pages)
         /\ SameRegion(K, M) /\ M.num_free = K.num_free
    BY <2>2, <2>7, <2>8, <2>9, <2>10, PagesInserted
  <2>12. FreeBlocks(M) = FreeBlocks(L)
    BY <2>1, <2>4, <2>6, <2>8, <2>11
  <2> QED BY <2>8, <2>11, <2>12 DEF SameRegion
<1> QED BY <1>6, <1>7

\* Setting the range of node g and taking out node g + 1.
WithMerged(L, g, n) == [rb_erase(WithRange(L, g, n), g + 1) EXCEPT !.num_u = @ - 1]

\* Two neighbours become one node.
LEMMA Merged ==
  ASSUME NEW L, Trees(L), NEW g, g \in DOMAIN L.una, g + 1 \in DOMAIN L.una,
         NEW n \in RangeNode, n.low <= n.high, Blocks(n) \subseteq L.start..L.end,
         NEW rest, rest = (FreeBlocks(L) \ Blocks(L.una[g + 1])) \ Blocks(L.una[g]),
         Blocks(n) \cap rest = {},
         NEW M, M = WithMerged(L, g, n)
  PROVE  /\ Trees(M) /\ FreeBlocks(M) = rest \cup Blocks(n) /\ g \in DOMAIN M.una
         /\ SameRegion(L, M) /\ SameHuge(L, M) /\ M.num_free = L.num_free
<1> DEFINE U == L.una
           f == IF L.first_u > g + 1 THEN L.first_u - 1
                ELSE IF L.first_u = g + 1 THEN Dangling ELSE L.first_u
           E == WithoutNode(L, g + 1, f)
           V == [U EXCEPT ![g] = n]
           W == RemoveAt(V, g + 1)
<1>1. /\ L \in List /\ U \in Seq(RangeNode) /\ Len(U) \in Nat /\ g \in 1..Len(U) - 1
      /\ g + 1 \in 1..Len(U) /\ L.first_u \in {Dangling} \cup 0..Len(U)
      /\ L.num_u \in Int /\ L.first_u \in Int /\ g \in 1..Len(U)
  BY WalkOf DEF Trees, List
<1>2. f \in {Dangling} \cup 0..Len(U) - 1 /\ f \in Int
  BY <1>1 DEF Dangling
<1>3. /\ Trees(E) /\ FreeBlocks(E) = FreeBlocks(L) \ Blocks(U[g + 1])
      /\ SameRegion(L, E) /\ SameHuge(L, E) /\ E.num_free = L.num_free /\ E.first_u = f
      /\ E.una = RemoveAt(U, g + 1)
  <2> HIDE DEF f
  <2> QED BY <1>2, ErasedAt
<1>4. /\ V \in Seq(RangeNode) /\ Len(V) = Len(U) /\ V[g] = n
      /\ \A k \in 1..Len(U) : k # g => V[k] = U[k]
  BY <1>1, ExceptSeq
<1> HIDE DEF V
<1>5. /\ W \in Seq(RangeNode) /\ Len(W) = Len(U) - 1
      /\ \A k \in 1..Len(U) - 1 : W[k] = IF k < g + 1 THEN V[k] ELSE V[k + 1]
  <2>1. V \in Seq(RangeNode) /\ g + 1 \in 1..Len(V) /\ Len(V) = Len(U)
    BY <1>1, <1>4
  <2>2. W \in Seq(RangeNode) /\ Len(W) = Len(V) - 1
    BY <2>1, RemoveAtProperties
  <2>3. \A k \in 1..Len(V) - 1 : W[k] = IF k < g + 1 THEN V[k] ELSE V[k + 1]
    BY <2>1, RemoveAtProperties
  <2> HIDE DEF W, U
  <2> QED BY <2>1, <2>2, <2>3
<1>6. /\ E.una \in Seq(RangeNode) /\ Len(E.una) = Len(U) - 1
      /\ \A k \in 1..Len(U) - 1 : E.una[k] = IF k < g + 1 THEN U[k] ELSE U[k + 1]
  <2>1. RemoveAt(U, g + 1) \in Seq(RangeNode) /\ Len(RemoveAt(U, g + 1)) = Len(U) - 1
    BY <1>1, RemoveAtProperties
  <2>2. \A k \in 1..Len(U) - 1 : RemoveAt(U, g + 1)[k] = IF k < g + 1 THEN U[k] ELSE U[k + 1]
    BY <1>1, RemoveAtProperties
  <2> HIDE DEF U, E
  <2> QED BY <1>3, <2>1, <2>2
<1> HIDE DEF W
<1>7. W = [E.una EXCEPT ![g] = n]
  <2> DEFINE X == [E.una EXCEPT ![g] = n]
  <2>1. /\ X \in Seq(RangeNode) /\ Len(X) = Len(U) - 1
        /\ \A k \in 1..Len(U) - 1 : X[k] = IF k = g THEN n ELSE E.una[k]
    BY <1>1, <1>6, ExceptSeq
  <2> HIDE DEF X, E
  <2>2. ASSUME NEW k \in 1..Len(U) - 1 PROVE W[k] = X[k]
    <3>1. CASE k = g
      BY <1>1, <1>4, <1>5, <2>1, <3>1
    <3>2. CASE k < g
      <4>1. k # g /\ k < g + 1 /\ k \in 1..Len(U)
        BY <1>1, <3>2
      <4> QED BY <1>4, <1>5, <1>6, <2>1, <4>1
    <3>3. CASE k > g
      <4>1. k # g /\ ~(k < g + 1) /\ k + 1 \in 1..Len(U) /\ k + 1 # g
        BY <1>1, <3>3
      <4> QED BY <1>4, <1>5, <1>6, <2>1, <4>1
    <3> QED BY <1>1, <3>1, <3>2, <3>3
  <2>3. W = X
    BY <1>5, <2>1, <2>2, SeqEqual
  <2> QED BY <2>3 DEF X
<1>8. M = [L EXCEPT !.una = W, !.first_u = f, !.num_u = L.num_u - 1]
  BY <1>1 DEF WithMerged, WithRange, rb_erase, List, W, V
<1> HIDE DEF f
<1>9. M \in List
  <2>1. L.num_u - 1 \in Int /\ W \in Seq(RangeNode) /\ f \in Int
    BY <1>1, <1>2, <1>5
  <2> QED BY <1>1, <1>8, <2>1 DEF List
<1>10. /\ M.una = W /\ M.first_u = f /\ M.num_u = L.num_u - 1 /\ SameRegion(L, M)
       /\ SameHuge(L, M) /\ M.num_free = L.num_free
  BY <1>1, <1>8 DEF List, SameRegion, SameHuge
<1>11. E.una[g] = U[g] /\ g \in DOMAIN E.una
  BY <1>1, <1>6
<1>12. E.num_u = L.num_u - 1
  BY <1>3, <1>6 DEF Trees
<1> HIDE DEF E
<1>13. /\ Trees(M) /\ FreeBlocks(M) = (FreeBlocks(E) \ Blocks(E.una[g])) \cup Blocks(n)
  <2>1. /\ M.una = [E.una EXCEPT ![g] = n] /\ M.first_u = E.first_u /\ M.num_u = E.num_u
        /\ SameRegion(E, M) /\ SameHuge(E, M)
    BY <1>3, <1>7, <1>10, <1>12 DEF SameRegion, SameHuge
  <2>2. Blocks(n) \subseteq E.start..E.end /\ Blocks(n) \cap (FreeBlocks(E) \ Blocks(E.una[g])) = {}
    BY <1>3, <1>11 DEF SameRegion
  <2>3. Trees(E) /\ g \in DOMAIN E.una
    BY <1>3, <1>11
  <2> QED BY <1>9, <2>1, <2>2, <2>3, Replaced
<1>14. FreeBlocks(M) = rest \cup Blocks(n)
  BY <1>3, <1>11, <1>13
<1>15. g \in DOMAIN M.una
  BY <1>1, <1>5, <1>10
<1> QED BY <1>10, <1>13, <1>14, <1>15

\* A freed run that meets a neighbour: the node that grows, alone or with both its
\* neighbours in one (pmfs_free_blocks).
MeetsLeft(L, low, g) == g > 0 /\ low = L.una[g].high + 1
MeetsRight(L, high, g) == g < Len(L.una) /\ high + 1 = L.una[g + 1].low
GrownAt(L, low, g) == IF MeetsLeft(L, low, g) THEN g ELSE g + 1
Grown(L, low, high, g) ==
    IF MeetsLeft(L, low, g) /\ MeetsRight(L, high, g)
    THEN [rb_erase([L EXCEPT !.una[g].high = L.una[g + 1].high], g + 1) EXCEPT !.num_u = @ - 1]
    ELSE IF MeetsLeft(L, low, g) THEN [L EXCEPT !.una[g].high = high]
    ELSE [L EXCEPT !.una[g + 1].low = low]

\* The list with the grown node has the run.
LEMMA GrownTrees ==
  ASSUME NEW L, Trees(L), NEW low \in Int, NEW high \in Int, low <= high,
         low..high \subseteq L.start..L.end, (low..high) \cap FreeBlocks(L) = {},
         NEW g \in 0..Len(L.una), MeetsLeft(L, low, g) \/ MeetsRight(L, high, g),
         NEW X, X = Grown(L, low, high, g)
  PROVE  /\ Trees(X) /\ FreeBlocks(X) = FreeBlocks(L) \cup (low..high)
         /\ SameRegion(L, X) /\ SameHuge(L, X) /\ X.num_free = L.num_free
         /\ GrownAt(L, low, g) \in DOMAIN X.una
<1> DEFINE U == L.una
           left == g > 0 /\ low = U[g].high + 1
           right == g < Len(U) /\ high + 1 = U[g + 1].low
           both == [rb_erase([L EXCEPT !.una[g].high = U[g + 1].high], g + 1) EXCEPT !.num_u = @ - 1]
           at == GrownAt(L, low, g)
<1>1. /\ X = IF left /\ right THEN both
              ELSE IF left THEN [L EXCEPT !.una[g].high = high]
              ELSE [L EXCEPT !.una[g + 1].low = low]
      /\ (left <=> MeetsLeft(L, low, g)) /\ (right <=> MeetsRight(L, high, g))
  BY DEF Grown, MeetsLeft, MeetsRight
<1>2. L \in List /\ Len(U) \in Nat /\ DOMAIN U = 1..Len(U) /\ U \in Seq(RangeNode)
  BY WalkOf DEF Trees, List
<1>4. ASSUME left
      PROVE  /\ g \in DOMAIN U /\ U[g].low \in Int /\ U[g].high \in Int /\ U[g].low <= U[g].high
             /\ U[g] \in RangeNode /\ Blocks(U[g]) \subseteq FreeBlocks(L)
             /\ Blocks(U[g]) \subseteq L.start..L.end /\ low = U[g].high + 1
             /\ Blocks(U[g]) = U[g].low..U[g].high
  BY <1>2, <1>4, NodeIn DEF Blocks
<1>5. ASSUME right
      PROVE  /\ g + 1 \in DOMAIN U /\ U[g + 1].low \in Int /\ U[g + 1].high \in Int
             /\ U[g + 1].low <= U[g + 1].high /\ U[g + 1] \in RangeNode
             /\ Blocks(U[g + 1]) \subseteq FreeBlocks(L)
             /\ Blocks(U[g + 1]) \subseteq L.start..L.end /\ high + 1 = U[g + 1].low
             /\ Blocks(U[g + 1]) = U[g + 1].low..U[g + 1].high
  <2>1. g + 1 \in DOMAIN U
    BY <1>2, <1>5
  <2> QED BY <1>5, <2>1, NodeIn DEF Blocks
<1>6. CASE left /\ right
  <2> DEFINE n == [U[g] EXCEPT !.high = U[g + 1].high]
             rest == (FreeBlocks(L) \ Blocks(U[g + 1])) \ Blocks(U[g])
  <2>1. n \in RangeNode /\ n.low = U[g].low /\ n.high = U[g + 1].high
    BY <1>4, <1>5, <1>6 DEF RangeNode
  <2>2. n.low <= n.high /\ Blocks(n) = Blocks(U[g]) \cup (low..high) \cup Blocks(U[g + 1])
    <3>1. Blocks(n) = U[g].low..U[g + 1].high
      BY <2>1 DEF Blocks
    <3> HIDE DEF n, U
    <3> QED BY <1>4, <1>5, <1>6, <2>1, <3>1
  <2>3. both = WithMerged(L, g, n)
    BY <1>2, <1>4, <1>6 DEF WithMerged, WithRange, List
  <2>4. X = both /\ at = g
    BY <1>1, <1>6 DEF GrownAt
  <2> HIDE DEF n, both, rest
  <2>5. Blocks(n) \subseteq L.start..L.end /\ Blocks(n) \cap rest = {}
    BY <1>4, <1>5, <1>6, <2>2 DEF rest
  <2>6. /\ Trees(both) /\ FreeBlocks(both) = rest \cup Blocks(n) /\ g \in DOMAIN both.una
        /\ SameRegion(L, both) /\ SameHuge(L, both) /\ both.num_free = L.num_free
    <3>1. /\ g \in DOMAIN L.una /\ g + 1 \in DOMAIN L.una
          /\ rest = (FreeBlocks(L) \ Blocks(L.una[g + 1])) \ Blocks(L.una[g])
          /\ n \in RangeNode /\ n.low <= n.high
      BY <1>4, <1>5, <1>6, <2>1, <2>2 DEF rest
    <3> QED BY <2>3, <2>5, <3>1, Merged
  <2>7. FreeBlocks(both) = FreeBlocks(L) \cup (low..high)
    BY <1>4, <1>5, <1>6, <2>2, <2>6 DEF rest
  <2> QED BY <2>4, <2>6, <2>7
<1>7. CASE left /\ ~right
  <2> DEFINE n == [U[g] EXCEPT !.high = high]
             Y == [L EXCEPT !.una[g].high = high]
  <2>1. n \in RangeNode /\ n.low = U[g].low /\ n.high = high
    BY <1>4, <1>7 DEF RangeNode
  <2>2. n.low <= n.high /\ Blocks(n) = Blocks(U[g]) \cup (low..high)
    <3>1. Blocks(n) = U[g].low..high
      BY <2>1 DEF Blocks
    <3> HIDE DEF n, U
    <3> QED BY <1>4, <1>7, <2>1, <3>1
  <2>3. Y = WithRange(L, g, n)
    BY <1>2, <1>4, <1>7 DEF WithRange, List
  <2>4. X = Y /\ at = g
    BY <1>1, <1>7 DEF GrownAt
  <2>5. /\ n \in RangeNode /\ n.low <= n.high /\ Blocks(n) \subseteq L.start..L.end
        /\ g \in DOMAIN L.una /\ Blocks(n) \cap (FreeBlocks(L) \ Blocks(L.una[g])) = {}
    <3> HIDE DEF n
    <3> QED BY <1>4, <1>7, <2>1, <2>2
  <2> HIDE DEF n, Y
  <2>6. /\ Trees(Y) /\ FreeBlocks(Y) = (FreeBlocks(L) \ Blocks(L.una[g])) \cup Blocks(n)
        /\ SameRegion(L, Y) /\ SameHuge(L, Y) /\ Y.num_free = L.num_free
    BY <2>3, <2>5, RangeSet
  <2>7. FreeBlocks(Y) = FreeBlocks(L) \cup (low..high)
    BY <1>4, <1>7, <2>2, <2>6
  <2>8. g \in DOMAIN Y.una
    BY <1>2, <2>3, <2>5 DEF WithRange, List
  <2> QED BY <2>4, <2>6, <2>7, <2>8
<1>8. CASE ~left /\ right
  <2> DEFINE n == [U[g + 1] EXCEPT !.low = low]
             Y == [L EXCEPT !.una[g + 1].low = low]
  <2>1. n \in RangeNode /\ n.low = low /\ n.high = U[g + 1].high
    BY <1>5, <1>8 DEF RangeNode
  <2>2. n.low <= n.high /\ Blocks(n) = (low..high) \cup Blocks(U[g + 1])
    <3>1. Blocks(n) = low..U[g + 1].high
      BY <2>1 DEF Blocks
    <3> HIDE DEF n, U
    <3> QED BY <1>5, <1>8, <2>1, <3>1
  <2>3. Y = WithRange(L, g + 1, n)
    BY <1>2, <1>5, <1>8 DEF WithRange, List
  <2>4. X = Y /\ at = g + 1
    BY <1>1, <1>8 DEF GrownAt
  <2>5. /\ n \in RangeNode /\ n.low <= n.high /\ Blocks(n) \subseteq L.start..L.end
        /\ g + 1 \in DOMAIN L.una /\ Blocks(n) \cap (FreeBlocks(L) \ Blocks(L.una[g + 1])) = {}
    <3> HIDE DEF n
    <3> QED BY <1>5, <1>8, <2>1, <2>2
  <2> HIDE DEF n, Y
  <2>6. /\ Trees(Y) /\ FreeBlocks(Y) = (FreeBlocks(L) \ Blocks(L.una[g + 1])) \cup Blocks(n)
        /\ SameRegion(L, Y) /\ SameHuge(L, Y) /\ Y.num_free = L.num_free
    BY <2>3, <2>5, RangeSet
  <2>7. FreeBlocks(Y) = FreeBlocks(L) \cup (low..high)
    BY <1>5, <1>8, <2>2, <2>6
  <2>8. g + 1 \in DOMAIN Y.una
    BY <1>2, <2>3, <2>5 DEF WithRange, List
  <2> QED BY <2>4, <2>6, <2>7, <2>8
<1> QED BY <1>1, <1>6, <1>7, <1>8

\* A freed run joins the list wherever the search for it ended.
LEMMA FreedAtGap ==
  ASSUME NEW L, Trees(L), NEW low \in Int, NEW high \in Int, low <= high,
         low..high \subseteq L.start..L.end, (low..high) \cap FreeBlocks(L) = {},
         NEW g \in 0..Len(L.una), NEW M, M = FreeAtGap(L, low, high, g)
  PROVE  /\ Trees(M) /\ FreeBlocks(M) = FreeBlocks(L) \cup (low..high)
         /\ SameRegion(L, M) /\ M.num_free = L.num_free
<1> DEFINE left == MeetsLeft(L, low, g)
           right == MeetsRight(L, high, g)
           new == Node(low, high)
<1>1. M = IF left \/ right THEN check_and_insert_huge_aligned(Grown(L, low, high, g), GrownAt(L, low, g))
          ELSE [InsertAtGap(L, g, new) EXCEPT !.num_u = @ + 1, !.first_u = IF g = 0 THEN 1 ELSE @]
  BY DEF FreeAtGap, Grown, GrownAt, MeetsLeft, MeetsRight
<1>2. L \in List /\ Len(L.una) \in Nat
  BY WalkOf DEF Trees
<1> HIDE DEF left, right
<1>3. CASE left \/ right
  <2>1. PICK X : X = Grown(L, low, high, g)
    OBVIOUS
  <2>2. PICK k : k = GrownAt(L, low, g)
    OBVIOUS
  <2>3. /\ Trees(X) /\ FreeBlocks(X) = FreeBlocks(L) \cup (low..high)
        /\ SameRegion(L, X) /\ X.num_free = L.num_free /\ k \in DOMAIN X.una
    <3>1. MeetsLeft(L, low, g) \/ MeetsRight(L, high, g)
      BY <1>3 DEF left, right
    <3>2. /\ Trees(X) /\ FreeBlocks(X) = FreeBlocks(L) \cup (low..high)
          /\ SameRegion(L, X) /\ X.num_free = L.num_free /\ GrownAt(L, low, g) \in DOMAIN X.una
      BY <2>1, <3>1, GrownTrees
    <3> QED BY <2>2, <3>2
  <2>4. M = check_and_insert_huge_aligned(X, k)
    BY <1>1, <1>3, <2>1, <2>2
  <2>5. /\ Trees(M) /\ FreeBlocks(M) = FreeBlocks(X)
        /\ SameRegion(X, M) /\ M.num_free = X.num_free
    BY <2>3, <2>4, HugeAlignedInserted
  <2> QED BY <2>3, <2>5 DEF SameRegion
<1>4. CASE ~left /\ ~right
  <2> DEFINE f == IF g = 0 THEN 1 ELSE IF L.first_u > g THEN L.first_u + 1 ELSE L.first_u
  <2>1. M = [InsertAtGap(L, g, new) EXCEPT !.num_u = @ + 1, !.first_u = IF g = 0 THEN 1 ELSE @]
    BY <1>1, <1>4
  <2>2. M = WithNode(L, g, new, f)
    <3> HIDE DEF new
    <3> QED BY <1>2, <2>1 DEF WithNode, InsertAtGap, List
  <2>3. f \in {Dangling} \cup 0..Len(L.una) + 1
    BY <1>2 DEF Trees, Dangling
  <2>4. new \in RangeNode /\ new.low <= new.high /\ Blocks(new) = low..high
    BY DEF Node, RangeNode, Blocks
  <2> HIDE DEF f, new
  <2>5. Blocks(new) \subseteq L.start..L.end /\ Blocks(new) \cap FreeBlocks(L) = {}
    BY <2>4
  <2>6. /\ Trees(M) /\ FreeBlocks(M) = FreeBlocks(L) \cup Blocks(new)
        /\ SameRegion(L, M) /\ M.num_free = L.num_free
    BY <2>2, <2>3, <2>4, <2>5, LinkedAtGap
  <2> QED BY <2>4, <2>6
<1> QED BY <1>3, <1>4

\* One round of pmfs_free_blocks adds the run and counts it.
LEMMA RoundFrees ==
  ASSUME NEW L, Trees(L), NEW low \in Int, NEW high \in Int, low <= high,
         low..high \subseteq L.start..L.end, (low..high) \cap FreeBlocks(L) = {},
         NEW M \in FreeRound(L, low, high)
  PROVE  /\ Trees(M) /\ FreeBlocks(M) = FreeBlocks(L) \cup (low..high)
         /\ SameRegion(L, M) /\ M.num_free = L.num_free + (high - low + 1)
<1> DEFINE d == high - low + 1
           count(X) == [X EXCEPT !.num_free = @ + high - low + 1]
<1> HIDE DEF count
<1>1. ASSUME NEW X, Trees(X), FreeBlocks(X) = FreeBlocks(L) \cup (low..high), SameRegion(L, X),
             X.num_free = L.num_free, M = count(X)
      PROVE  /\ Trees(M) /\ FreeBlocks(M) = FreeBlocks(L) \cup (low..high)
             /\ SameRegion(L, M) /\ M.num_free = L.num_free + d
  <2>1. X \in List /\ X.num_free \in Int /\ X.first_u \in {Dangling} \cup 0..Len(X.una)
    BY <1>1 DEF Trees, List
  <2>2. M = [X EXCEPT !.num_free = X.num_free + d]
    BY <1>1, <2>1 DEF count
  <2>3. M \in List /\ M.num_free = L.num_free + d
    <3>1. X.num_free + d \in Int
      BY <2>1
    <3> HIDE DEF d
    <3>2. M \in List
      BY <2>1, <2>2, <3>1 DEF List
    <3>3. M.num_free = X.num_free + d
      BY <2>1, <2>2 DEF List
    <3> QED BY <1>1, <3>2, <3>3
  <2>4. SameRegion(X, M) /\ SameWalk(X, M) /\ SameHuge(X, M) /\ M.first_u = X.first_u
    BY <2>1, <2>2 DEF List, SameRegion, SameWalk, SameHuge
  <2>5. M.first_u \in {Dangling} \cup 0..Len(X.una)
    BY <2>1, <2>4
  <2>6. Trees(M) /\ FreeBlocks(M) = FreeBlocks(X)
    BY <1>1, <2>3, <2>4, <2>5, OnlyCounters
  <2>7. SameRegion(L, M)
    BY <1>1, <2>4 DEF SameRegion
  <2> QED BY <1>1, <2>3, <2>6, <2>7
<1>2. CASE IS_BLOCK_2MB_ALIGNED(low) /\ d = H
  <2> DEFINE X == insert_in_huge_tree(L, low)
  <2>1. M = count(X)
    BY <1>2 DEF FreeRound, count
  <2>2. X = InsertPages(L, low, {low})
    <3>1. Cardinality({low}) = 1 /\ L \in List
      BY FS_Singleton DEF Trees
    <3> QED BY <3>1 DEF InsertPages, insert_in_huge_tree, List
  <2>3. PagesBlocks({low}) = low..high /\ HugePage(low) = low..high
    BY <1>2, HType DEF PagesBlocks, HugePage
  <2>4. IsFiniteSet({low}) /\ {low} \in SUBSET Int /\ low \in {low}
    BY FS_Singleton
  <2>5. \A b \in {low} : IS_BLOCK_2MB_ALIGNED(b) /\ HugePage(b) \subseteq L.start..L.end
    BY <1>2, <2>3
  <2>6. PagesBlocks({low}) \cap FreeBlocks(L) = {}
    BY <2>3
  <2> HIDE DEF X
  <2>7. /\ Trees(X) /\ FreeBlocks(X) = FreeBlocks(L) \cup PagesBlocks({low})
        /\ SameRegion(L, X) /\ X.num_free = L.num_free
    BY <2>2, <2>4, <2>5, <2>6, PagesInserted
  <2> QED BY <1>1, <2>1, <2>3, <2>7
<1>3. CASE ~(IS_BLOCK_2MB_ALIGNED(low) /\ d = H)
  <2>1. PICK g \in pmfs_find_free_slot(L, low, high) : M = count(FreeAtGap(L, low, high, g))
    BY <1>3 DEF FreeRound, count
  <2>2. g \in 0..Len(L.una)
    BY <2>1 DEF pmfs_find_free_slot, Gaps
  <2> DEFINE X == FreeAtGap(L, low, high, g)
  <2>3. /\ Trees(X) /\ FreeBlocks(X) = FreeBlocks(L) \cup (low..high)
        /\ SameRegion(L, X) /\ X.num_free = L.num_free
    BY <2>2, FreedAtGap
  <2> HIDE DEF X
  <2>4. M = count(X)
    BY <2>1 DEF X
  <2> QED BY <1>1, <2>3, <2>4
<1> QED BY <1>2, <1>3

------------------------------------------------------------------------------
(* The regions of the lists.                                                    *)

Start(i) == IF i = 0 THEN HeadReserved ELSE i * per_list_blocks
End(i) == (i + 1) * per_list_blocks - 1
Region(i) == Start(i)..End(i)

\* The constants as numbers: every list has at least two blocks.
LEMMA PerList ==
  /\ per_list_blocks \in Nat /\ per_list_blocks >= 2 /\ Cpus \in Nat \ {0}
  /\ HeadReserved \in Nat /\ 1 <= HeadReserved /\ HeadReserved < per_list_blocks
<1>1. per_list_blocks \in Int
  BY WinefsAllocAssumption DEF per_list_blocks
<1> QED BY <1>1, WinefsAllocAssumption

\* Multiplication by a natural number is monotonic.
LEMMA Times ==
  ASSUME NEW p \in Nat, NEW a \in Int, NEW b \in Int, a <= b
  PROVE  a * p \in Int /\ a * p <= b * p /\ (a + 1) * p = a * p + p
OBVIOUS

\* Every region is a non-empty interval above block 0.
LEMMA RegionType ==
  ASSUME NEW i \in ListIds
  PROVE  /\ Start(i) \in Nat \ {0} /\ End(i) \in Int /\ Start(i) <= End(i)
         /\ i * per_list_blocks <= Start(i) /\ i * per_list_blocks \in Nat
<1> DEFINE p == per_list_blocks
<1>1. p \in Nat /\ p >= 2 /\ HeadReserved \in Nat /\ 1 <= HeadReserved /\ HeadReserved < p
  BY PerList
<1>2. i \in Nat
  BY PerList DEF ListIds
<1>3. i * p \in Nat /\ (i + 1) * p = i * p + p
  BY <1>1, <1>2
<1>4. i = 0 => i * p = 0
  BY <1>1
<1>5. i # 0 => i * p >= p
  BY <1>1, <1>2
<1> HIDE DEF p
<1>6. Start(i) = IF i = 0 THEN HeadReserved ELSE i * p
  BY DEF Start, p
<1>7. End(i) = (i + 1) * p - 1
  BY DEF End, p
<1>8. /\ Start(i) \in Nat \ {0} /\ End(i) \in Int /\ Start(i) <= End(i) /\ i * p <= Start(i)
  BY <1>1, <1>2, <1>3, <1>4, <1>5, <1>6, <1>7
<1> QED BY <1>3, <1>8 DEF p

\* The regions of two lists do not meet.
LEMMA RegionsApart ==
  ASSUME NEW i \in ListIds, NEW j \in ListIds, i # j
  PROVE  Region(i) \cap Region(j) = {}
<1>1. ASSUME NEW a \in ListIds, NEW b \in ListIds, a < b PROVE End(a) < Start(b)
  <2> DEFINE p == per_list_blocks
  <2>1. p \in Nat /\ a \in Int /\ b \in Int /\ a + 1 <= b
    BY <1>1, PerList DEF ListIds
  <2>2. (a + 1) * p <= b * p
    BY <2>1, Times
  <2>3. b * p <= Start(b) /\ Start(b) \in Nat /\ End(a) \in Int /\ b * p \in Nat
    BY RegionType
  <2>4. End(a) = (a + 1) * p - 1 /\ (a + 1) * p \in Int
    BY <2>1 DEF End
  <2> HIDE DEF p
  <2> QED BY <2>2, <2>3, <2>4
<1>2. i \in Int /\ j \in Int
  BY PerList DEF ListIds
<1>3. End(i) < Start(j) \/ End(j) < Start(i)
  BY <1>1, <1>2
<1>4. Start(i) \in Int /\ End(i) \in Int /\ Start(j) \in Int /\ End(j) \in Int
  BY RegionType
<1> QED BY <1>3, <1>4 DEF Region

\* A list is made with its region.
LEMMA FreshRegion ==
  ASSUME NEW i \in ListIds
  PROVE  /\ pmfs_init_free_list(i).start = Start(i) /\ pmfs_init_free_list(i).end = End(i)
         /\ FreshList(i).start = Start(i) /\ FreshList(i).end = End(i)
BY DEF pmfs_init_free_list, FreshList, Then, Start, End

\* The blocks of the device are those of the regions.
LEMMA ManagedIs == Managed = UNION {Region(i) : i \in ListIds}
BY FreshRegion DEF Managed, Region

\* The list of a managed block exists.
LEMMA CpuOf ==
  ASSUME NEW x \in Managed
  PROVE  get_block_cpuid(x) \in ListIds /\ x \in Nat
<1> DEFINE p == per_list_blocks
           q == x \div p
<1>1. PICK i \in ListIds : x \in Region(i)
  BY ManagedIs
<1>2. p \in Nat /\ p >= 2 /\ i \in Nat /\ i + 1 <= Cpus /\ Cpus \in Nat
  BY PerList DEF ListIds
<1>3. x \in Nat /\ x < (i + 1) * p
  <2>1. Start(i) \in Nat /\ End(i) \in Int /\ End(i) = (i + 1) * p - 1
    BY RegionType DEF End
  <2>2. (i + 1) * p \in Int
    BY <1>2
  <2> HIDE DEF p
  <2> QED BY <1>1, <2>1, <2>2 DEF Region
<1>4. q \in Nat /\ q * p <= x
  BY <1>2, <1>3
<1>5. q < i + 1
  <2>1. SUFFICES ASSUME q >= i + 1 PROVE FALSE
    BY <1>2, <1>4
  <2> HIDE DEF q, p
  <2>2. (i + 1) * p <= q * p /\ (i + 1) * p \in Int
    BY <1>2, <1>4, <2>1, Times
  <2>3. q * p \in Int
    BY <1>2, <1>4
  <2> QED BY <1>3, <1>4, <2>2, <2>3
<1>6. q \in ListIds
  BY <1>2, <1>4, <1>5 DEF ListIds
<1> QED BY <1>3, <1>6 DEF get_block_cpuid

\* An empty list, and a list as formatted: all blocks of its region.
LEMMA EmptyTrees ==
  ASSUME NEW i \in ListIds, NEW L, L = pmfs_init_free_list(i)
  PROVE  /\ Trees(L) /\ FreeBlocks(L) = {} /\ L.num_free = 0
         /\ L.start = Start(i) /\ L.end = End(i) /\ Ready(L) /\ HugeLow(L)
<1>1. /\ L.start = Start(i) /\ L.end = End(i) /\ Start(i) \in Nat \ {0} /\ End(i) \in Int
  BY FreshRegion, RegionType
<1>2. /\ L = [start |-> Start(i), end |-> End(i), una |-> <<>>, first_u |-> 0, num_u |-> 0,
              huge |-> {}, first_h |-> 0, num_h |-> 0, num_free |-> 0]
  BY DEF pmfs_init_free_list, Start, End
<1>3. L \in List /\ L.una = <<>> /\ L.huge = {} /\ L.num_u = 0 /\ L.num_h = 0
      /\ L.first_u = 0 /\ L.first_h = 0 /\ L.num_free = 0
  BY <1>1, <1>2 DEF List
<1>4. DOMAIN L.una = {} /\ Len(L.una) = 0 /\ Cardinality(L.huge) = 0
  BY <1>3, FS_EmptySet
<1>5. Trees(L)
  BY <1>3, <1>4 DEF Trees, Apart
<1>6. FreeBlocks(L) = {}
  BY <1>3, <1>4 DEF FreeBlocks, UnaBlocks, HugeBlocks
<1>7. Ready(L) /\ HugeLow(L)
  BY <1>3, <1>4 DEF Ready, Sorted, HugeLow
<1> QED BY <1>1, <1>3, <1>5, <1>6, <1>7

\* A formatted list: head, huge pages and tail are all of its region.
LEMMA FreshTrees ==
  ASSUME LastBlocksListed, NEW i \in ListIds, NEW L, L = FreshList(i)
  PROVE  /\ Trees(L) /\ FreeBlocks(L) = Region(i) /\ L.num_free = End(i) - Start(i) + 1
         /\ L.start = Start(i) /\ L.end = End(i) /\ Ready(L) /\ HugeLow(L)
<1> DEFINE E == pmfs_init_free_list(i)
           s == Start(i)
           e == End(i)
           up == CHOOSE b \in s..s + H - 1 : IS_BLOCK_2MB_ALIGNED(b)
           down == e - (e % H)
           huge == {b \in up..down - 1 - 1 : IS_BLOCK_2MB_ALIGNED(b)}
           head == IF up # s THEN <<Node(s, up - 1)>> ELSE <<>>
           una == head \o <<Node(down, e)>>
<1>1. /\ Trees(E) /\ FreeBlocks(E) = {} /\ E.num_free = 0 /\ E.start = s /\ E.end = e
      /\ E \in List /\ s \in Nat \ {0} /\ e \in Int /\ s <= e
      /\ L.start = s /\ L.end = e
  BY EmptyTrees, RegionType, FreshRegion DEF Trees
<1>2. /\ down \in Int /\ IS_BLOCK_2MB_ALIGNED(down) /\ down <= e
  BY <1>1, AlignDown
<1>3. down # e
  BY <1>1, <1>2 DEF LastBlocksListed
<1>4. L = [E EXCEPT !.num_free = e - s + 1, !.una = una,
                    !.first_u = IF una = <<>> THEN 0 ELSE 1, !.num_u = Len(una),
                    !.huge = huge, !.first_h = IF huge = {} THEN 0 ELSE Min(huge),
                    !.num_h = Cardinality(huge)]
  <2> HIDE DEF s, e, E
  <2>1. L = LET up0 == CHOOSE b \in E.start..E.start + H - 1 : IS_BLOCK_2MB_ALIGNED(b)
                down0 == E.end - (E.end % H)
                head0 == IF up0 # E.start THEN <<Node(E.start, up0 - 1)>> ELSE <<>>
                tail0 == IF down0 # E.end THEN <<Node(down0, E.end)>> ELSE <<>>
                last0 == IF down0 # E.end THEN down0 - 1 ELSE E.end
                una0 == head0 \o tail0
                huge0 == {b \in up0..last0 - 1 : IS_BLOCK_2MB_ALIGNED(b)}
            IN [E EXCEPT !.num_free = E.end - E.start + 1,
                 !.una = una0, !.first_u = IF una0 = <<>> THEN 0 ELSE 1, !.num_u = Len(una0),
                 !.huge = huge0, !.first_h = IF huge0 = {} THEN 0 ELSE Min(huge0),
                 !.num_h = Cardinality(huge0)]
    BY DEF FreshList, Then, E
  <2> QED BY <1>1, <1>3, <2>1
<1>5. up \in s..s + H - 1 /\ IS_BLOCK_2MB_ALIGNED(up) /\ up \in Nat
  <2> DEFINE b == IF IS_BLOCK_2MB_ALIGNED(s) THEN s ELSE s + H - (s % H)
  <2>1. b \in Int /\ s <= b /\ IS_BLOCK_2MB_ALIGNED(b)
    BY <1>1, PagesOf
  <2>2. b <= s + H - 1
    <3>1. s % H \in 0..H - 1 /\ H \in Nat /\ H >= 2
      BY <1>1, ModBounds, HType
    <3>2. CASE IS_BLOCK_2MB_ALIGNED(s)
      <4>1. b = s
        BY <3>2
      <4> HIDE DEF b
      <4> QED BY <1>1, <3>1, <4>1
    <3>3. CASE ~IS_BLOCK_2MB_ALIGNED(s)
      <4> DEFINE r == s % H
      <4>1. b = s + H - r /\ r # 0
        BY <3>3 DEF IS_BLOCK_2MB_ALIGNED
      <4>2. r \in 0..H - 1
        BY <3>1
      <4> HIDE DEF b, r, s
      <4> QED BY <1>1, <3>1, <4>1, <4>2
    <3> QED BY <3>2, <3>3
  <2>3. \E c \in s..s + H - 1 : IS_BLOCK_2MB_ALIGNED(c)
    <3> HIDE DEF b
    <3>1. b \in s..s + H - 1
      BY <1>1, <2>1, <2>2, HType
    <3> QED BY <2>1, <3>1
  <2>4. up \in s..s + H - 1 /\ IS_BLOCK_2MB_ALIGNED(up)
    BY <2>3
  <2> HIDE DEF up
  <2> QED BY <1>1, <2>4, HType
<1> HIDE DEF up, down, s, e
<1>6. huge # {} /\ up < down
  <2>1. L.huge = huge
    <3> HIDE DEF huge, una
    <3> QED BY <1>1, <1>4 DEF List
  <2>2. huge # {}
    <3> HIDE DEF huge
    <3>1. FreshList(i).huge # {}
      BY WinefsAllocAssumption
    <3> QED BY <2>1, <3>1
  <2>3. PICK b : b \in huge
    BY <2>2
  <2>4. b \in up..down - 1 - 1
    BY <2>3
  <2>5. up < down
    BY <1>2, <1>5, <2>4
  <2> QED BY <2>2, <2>5
<1>7. huge = {b \in up..down - 1 : IS_BLOCK_2MB_ALIGNED(b)}
  <2>1. ~IS_BLOCK_2MB_ALIGNED(down - 1)
    <3>1. down - 1 \in Int /\ down - 1 < down /\ ~(down - 1 + H <= down)
      BY <1>2, HType
    <3> QED BY <1>2, <3>1, AlignedApart
  <2>2. \A b \in up..down - 1 : b = down - 1 \/ b \in up..down - 1 - 1
    BY <1>2, <1>5
  <2>3. \A b \in up..down - 1 - 1 : b \in up..down - 1
    BY <1>2, <1>5
  <2> QED BY <2>1, <2>2, <2>3
<1>8. UNION {HugePage(b) : b \in huge} = up..down - 1
  <2>1. (down - 1) + 1 = down /\ down - 1 \in Int /\ up \in Int
    BY <1>2, <1>5
  <2> QED BY <1>2, <1>5, <1>7, <2>1, PagesCover
<1>9. /\ huge \in SUBSET Nat /\ IsFiniteSet(huge) /\ Cardinality(huge) \in Nat
      /\ Min(huge) \in huge
  <2>1. IsFiniteSet(up..down - 1) /\ huge \subseteq up..down - 1 /\ huge \in SUBSET Nat
    BY <1>2, <1>5, <1>7, FS_Interval
  <2>2. IsFiniteSet(huge)
    BY <2>1, FS_Subset
  <2>3. Cardinality(huge) \in Nat
    BY <2>2, FS_CardinalityType
  <2>4. Min(huge) \in huge
    BY <1>6, <2>1, MinOf
  <2> QED BY <2>1, <2>2, <2>3, <2>4
<1>10. \A b \in huge : /\ IS_BLOCK_2MB_ALIGNED(b) /\ HugePage(b) \subseteq up..down - 1
  BY <1>8
<1>11. /\ una \in Seq(RangeNode) /\ DOMAIN una = 1..Len(una) /\ una # <<>>
       /\ \/ /\ Len(una) = 1 /\ up = s /\ una[1] = Node(down, e)
          \/ /\ Len(una) = 2 /\ up # s /\ una[1] = Node(s, up - 1) /\ una[2] = Node(down, e)
  <2>1. Node(s, up - 1) \in RangeNode /\ Node(down, e) \in RangeNode
    BY <1>1, <1>2, <1>5 DEF Node, RangeNode
  <2>2. CASE up = s
    <3>1. una = <<Node(down, e)>>
      BY <2>2
    <3> QED BY <2>1, <2>2, <3>1
  <2>3. CASE up # s
    <3> DEFINE a == Node(s, up - 1)
               z == Node(down, e)
    <3>1. una = <<a>> \o <<z>>
      BY <2>3
    <3> HIDE DEF a, z, una
    <3>2. a \in RangeNode /\ z \in RangeNode
      BY <2>1 DEF a, z
    <3>3. /\ una \in Seq(RangeNode) /\ Len(una) = 2 /\ una[1] = a /\ una[2] = z
          /\ DOMAIN una = 1..Len(una) /\ una # <<>>
      BY <3>1, <3>2
    <3> QED BY <2>3, <3>3 DEF a, z
  <2> QED BY <2>2, <2>3
<1>12. /\ Node(s, up - 1).low = s /\ Node(s, up - 1).high = up - 1
       /\ Node(down, e).low = down /\ Node(down, e).high = e
       /\ Blocks(Node(s, up - 1)) = s..up - 1 /\ Blocks(Node(down, e)) = down..e
  BY DEF Node, Blocks
<1> HIDE DEF huge, una
<1>13. /\ L.una = una /\ L.first_u = 1 /\ L.num_u = Len(una) /\ L.huge = huge
       /\ L.first_h = Min(huge) /\ L.num_h = Cardinality(huge) /\ L.num_free = e - s + 1
  BY <1>1, <1>4, <1>6, <1>11 DEF List
<1>14. L \in List
  <2>1. Len(una) \in Nat /\ e - s + 1 \in Int /\ huge \in SUBSET Int /\ Min(huge) \in Int
    <3>1. Len(una) \in Nat
      BY <1>11, LenProperties
    <3>2. e - s + 1 \in Int
      BY <1>1
    <3>3. huge \in SUBSET Int
      BY <1>9
    <3> QED BY <1>9, <3>1, <3>2, <3>3
  <2>2. /\ una \in Seq(RangeNode) /\ Cardinality(huge) \in Int /\ una # <<>> /\ huge # {}
        /\ Len(una) \in Int
    BY <1>6, <1>9, <1>11, <2>1
  <2> HIDE DEF E
  <2>3. L = [E EXCEPT !.num_free = e - s + 1, !.una = una, !.first_u = 1, !.num_u = Len(una),
                      !.huge = huge, !.first_h = Min(huge), !.num_h = Cardinality(huge)]
    BY <1>4, <2>2
  <2>4. E = [start |-> s, end |-> e, una |-> <<>>, first_u |-> 0, num_u |-> 0,
             huge |-> {}, first_h |-> 0, num_h |-> 0, num_free |-> 0]
    BY DEF E, s, e, pmfs_init_free_list, Start, End
  <2>5. L = [start |-> s, end |-> e, una |-> una, first_u |-> 1, num_u |-> Len(una),
             huge |-> huge, first_h |-> Min(huge), num_h |-> Cardinality(huge),
             num_free |-> e - s + 1]
    BY <2>3, <2>4
  <2> QED BY <1>1, <2>1, <2>2, <2>5 DEF List
<1>15. /\ s <= up /\ up < down /\ down < e /\ s \in Int /\ up \in Int /\ down \in Int /\ e \in Int
  BY <1>1, <1>2, <1>3, <1>5, <1>6, HType
<1>16. \A k \in DOMAIN una : una[k].low <= una[k].high /\ Blocks(una[k]) \subseteq s..e
  BY <1>11, <1>12, <1>15
<1>17. Apart(L)
  <2>1. ASSUME NEW j \in DOMAIN una, NEW k \in DOMAIN una, j # k
        PROVE  Blocks(una[j]) \cap Blocks(una[k]) = {}
    BY <1>11, <1>12, <1>15, <2>1
  <2>2. ASSUME NEW k \in DOMAIN una, NEW b \in huge PROVE Blocks(una[k]) \cap HugePage(b) = {}
    BY <1>10, <1>11, <1>12, <1>15
  <2> QED BY <1>13, <2>1, <2>2 DEF Apart
<1>18. FreeBlocks(L) = s..e
  <2>1. HugeBlocks(L) = up..down - 1
    BY <1>8, <1>13 DEF HugeBlocks
  <2>2. UnaBlocks(L) = (s..up - 1) \cup (down..e)
    <3>1. CASE up = s
      BY <1>11, <1>12, <1>13, <1>15, <3>1 DEF UnaBlocks
    <3>2. CASE up # s
      BY <1>11, <1>12, <1>13, <1>15, <3>2 DEF UnaBlocks
    <3> QED BY <3>1, <3>2
  <2> QED BY <1>15, <2>1, <2>2 DEF FreeBlocks
<1>19. \A b \in huge : IS_BLOCK_2MB_ALIGNED(b) /\ HugePage(b) \subseteq s..e
  BY <1>10, <1>15
<1>20. Trees(L)
  <2>1. L.first_u \in {Dangling} \cup 0..Len(una)
    BY <1>11, <1>13
  <2> QED BY <1>1, <1>9, <1>13, <1>14, <1>16, <1>17, <1>19, <2>1 DEF Trees
<1>21. Ready(L)
  <2>1. ASSUME NEW j \in DOMAIN una, NEW k \in DOMAIN una, j < k PROVE una[j].high < una[k].low
    <3>1. j = 1 /\ k = 2 /\ Len(una) = 2
      BY <1>11, <2>1
    <3> QED BY <1>11, <1>12, <1>15, <3>1
  <2>2. Len(una) # 0
    BY <1>11
  <2> QED BY <1>13, <2>1, <2>2 DEF Ready, Sorted
<1>22. HugeLow(L)
  <2>1. \A b \in huge : Min(huge) <= b
    BY <1>6, <1>9, MinOf
  <2>2. Min(huge) # 0
    <3>1. PICK b \in huge : b = Min(huge)
      BY <1>9
    <3>2. b \in Int /\ HugePage(b) \subseteq s..e
      BY <1>9, <1>19
    <3>3. b \in HugePage(b)
      BY <3>2, HType DEF HugePage
    <3> QED BY <1>1, <3>1, <3>2, <3>3
  <2> QED BY <1>13, <2>1, <2>2 DEF HugeLow
<1> QED BY <1>1, <1>13, <1>18, <1>20, <1>21, <1>22 DEF Region, s, e


------------------------------------------------------------------------------
(* The blocks of the lists, of callers, of the runs being freed and of the runs *)
(* that a failed free dropped, as sets: each operation moves a set of blocks    *)
(* from one owner to another.                                                   *)

Flight(c) == IF c.pc = "free" THEN c.low..c.low + c.left - 1 ELSE {}


\* h is held, l leaked, fl[t] in flight in thread t, fr[i] free in list i.
Parts(h, l, fl, fr) ==
    /\ h \subseteq Managed /\ l \subseteq Managed /\ h \cap l = {}
    /\ \A t \in Threads : fl[t] \subseteq Managed /\ fl[t] \cap h = {} /\ fl[t] \cap l = {}
    /\ \A t, u \in Threads : t # u => fl[t] \cap fl[u] = {}
    /\ \A i \in ListIds : fr[i] \subseteq Region(i) /\ fr[i] \cap h = {} /\ fr[i] \cap l = {}
    /\ \A i \in ListIds, t \in Threads : fr[i] \cap fl[t] = {}
    /\ \A x \in Managed : \/ x \in h \/ x \in l
                          \/ \E t \in Threads : x \in fl[t]
                          \/ \E i \in ListIds : x \in fr[i]

\* g differs from f at most at x.
OnlyAt(S, x, f, g) == \A y \in S : y # x => g[y] = f[y]

\* A region is part of the device.
LEMMA RegionManaged ==
  ASSUME NEW i \in ListIds PROVE Region(i) \subseteq Managed
BY ManagedIs

\* A list grants blocks to a caller.
LEMMA PartsGranted ==
  ASSUME NEW h, NEW l, NEW fl, NEW fr, Parts(h, l, fl, fr), NEW i \in ListIds, NEW S,
         S \subseteq fr[i], NEW fr2, OnlyAt(ListIds, i, fr, fr2), fr2[i] = fr[i] \ S
  PROVE  Parts(h \cup S, l, fl, fr2)
<1>1. S \subseteq Managed /\ S \cap l = {} /\ \A t \in Threads : S \cap fl[t] = {}
  BY RegionManaged DEF Parts
<1>2. \A j \in ListIds : fr2[j] \subseteq fr[j] /\ fr2[j] \cap S = {}
  <2>1. ASSUME NEW j \in ListIds PROVE fr2[j] \subseteq fr[j] /\ fr2[j] \cap S = {}
    <3>1. CASE j = i
      BY <3>1
    <3>2. CASE j # i
      <4>1. fr2[j] = fr[j]
        BY <3>2 DEF OnlyAt
      <4>2. fr[j] \cap fr[i] = {}
        <5>1. Region(j) \cap Region(i) = {}
          BY <3>2, RegionsApart
        <5>2. fr[j] \subseteq Region(j) /\ fr[i] \subseteq Region(i)
          BY DEF Parts
        <5> QED BY <5>1, <5>2
      <4> QED BY <4>1, <4>2
    <3> QED BY <3>1, <3>2
  <2> QED BY <2>1
<1>3. \A j \in ListIds : \A x \in fr[j] : x \in fr2[j] \/ x \in S
  BY DEF OnlyAt
<1>4. /\ h \cup S \subseteq Managed /\ l \subseteq Managed /\ (h \cup S) \cap l = {}
      /\ \A t \in Threads : /\ fl[t] \subseteq Managed
                            /\ fl[t] \cap (h \cup S) = {} /\ fl[t] \cap l = {}
      /\ \A t, u \in Threads : t # u => fl[t] \cap fl[u] = {}
  BY <1>1 DEF Parts
<1>5. \A j \in ListIds : /\ fr2[j] \subseteq Region(j)
                         /\ fr2[j] \cap (h \cup S) = {} /\ fr2[j] \cap l = {}
  BY <1>2 DEF Parts
<1>6. \A j \in ListIds, t \in Threads : fr2[j] \cap fl[t] = {}
  BY <1>2 DEF Parts
<1>7. ASSUME NEW x \in Managed
      PROVE  \/ x \in h \cup S \/ x \in l
             \/ \E t \in Threads : x \in fl[t]
             \/ \E j \in ListIds : x \in fr2[j]
  BY <1>3 DEF Parts
<1> QED BY <1>4, <1>5, <1>6, <1>7 DEF Parts

\* A caller gives blocks to the thread that frees them.
LEMMA PartsGiven ==
  ASSUME NEW h, NEW l, NEW fl, NEW fr, Parts(h, l, fl, fr), NEW t \in Threads, NEW S,
         S \subseteq h, fl[t] = {}, NEW fl2, OnlyAt(Threads, t, fl, fl2), fl2[t] = S
  PROVE  Parts(h \ S, l, fl2, fr)
<1>1. /\ S \subseteq Managed /\ S \cap l = {} /\ \A u \in Threads : S \cap fl[u] = {}
      /\ \A i \in ListIds : fr[i] \cap S = {}
  BY DEF Parts
<1>2. \A u \in Threads : u # t => fl2[u] = fl[u]
  BY DEF OnlyAt
<1>3. /\ h \ S \subseteq Managed /\ l \subseteq Managed /\ (h \ S) \cap l = {}
  BY DEF Parts
<1>4. ASSUME NEW u \in Threads
      PROVE  fl2[u] \subseteq Managed /\ fl2[u] \cap (h \ S) = {} /\ fl2[u] \cap l = {}
  <2>1. CASE u = t
    BY <1>1, <2>1
  <2>2. CASE u # t
    BY <1>2, <2>2 DEF Parts
  <2> QED BY <2>1, <2>2
<1>5. ASSUME NEW u \in Threads, NEW v \in Threads, u # v PROVE fl2[u] \cap fl2[v] = {}
  <2>1. CASE u = t
    BY <1>1, <1>2, <1>5, <2>1
  <2>2. CASE v = t
    BY <1>1, <1>2, <1>5, <2>2
  <2>3. CASE u # t /\ v # t
    BY <1>2, <1>5, <2>3 DEF Parts
  <2> QED BY <2>1, <2>2, <2>3
<1>6. ASSUME NEW i \in ListIds
      PROVE  fr[i] \subseteq Region(i) /\ fr[i] \cap (h \ S) = {} /\ fr[i] \cap l = {}
  BY DEF Parts
<1>7. ASSUME NEW i \in ListIds, NEW u \in Threads PROVE fr[i] \cap fl2[u] = {}
  <2>1. CASE u = t
    BY <1>1, <2>1
  <2>2. CASE u # t
    BY <1>2, <2>2 DEF Parts
  <2> QED BY <2>1, <2>2
<1>8. ASSUME NEW x \in Managed
      PROVE  \/ x \in h \ S \/ x \in l
             \/ \E u \in Threads : x \in fl2[u]
             \/ \E i \in ListIds : x \in fr[i]
  <2>1. \A u \in Threads : x \in fl[u] => x \in fl2[u]
    BY <1>2
  <2> QED BY <2>1 DEF Parts
<1> QED BY <1>3, <1>4, <1>5, <1>6, <1>7, <1>8 DEF Parts

\* What a thread frees goes to the list, or is leaked.
LEMMA PartsFreed ==
  ASSUME NEW h, NEW l, NEW fl, NEW fr, Parts(h, l, fl, fr), NEW t \in Threads,
         NEW i \in ListIds, NEW S, S \subseteq fl[t], S \subseteq Region(i),
         NEW fl2, OnlyAt(Threads, t, fl, fl2), fl2[t] = fl[t] \ S,
         NEW fr2, OnlyAt(ListIds, i, fr, fr2), fr2[i] = fr[i] \cup S
  PROVE  Parts(h, l, fl2, fr2)
<1>1. /\ S \cap h = {} /\ S \cap l = {} /\ \A j \in ListIds : fr[j] \cap S = {}
      /\ \A u \in Threads : u # t => S \cap fl[u] = {}
  BY DEF Parts
<1>2. \A u \in Threads : u # t => fl2[u] = fl[u]
  BY DEF OnlyAt
<1>3. \A j \in ListIds : j # i => fr2[j] = fr[j]
  BY DEF OnlyAt
<1>4. \A u \in Threads : fl2[u] \subseteq fl[u] /\ fl2[u] \cap S = {}
  BY <1>1, <1>2
<1>5. \A j \in ListIds : fr2[j] \subseteq fr[j] \cup S
  BY <1>3
<1>6. /\ h \subseteq Managed /\ l \subseteq Managed /\ h \cap l = {}
      /\ \A u \in Threads : fl2[u] \subseteq Managed /\ fl2[u] \cap h = {} /\ fl2[u] \cap l = {}
      /\ \A u, v \in Threads : u # v => fl2[u] \cap fl2[v] = {}
  <2>1. \A u, v \in Threads : u # v => fl2[u] \cap fl2[v] = {}
    <3>1. ASSUME NEW u \in Threads, NEW v \in Threads, u # v PROVE fl2[u] \cap fl2[v] = {}
      <4>1. fl[u] \cap fl[v] = {}
        BY <3>1 DEF Parts
      <4> QED BY <1>4, <4>1
    <3> QED BY <3>1
  <2> QED BY <1>4, <2>1 DEF Parts
<1>7. ASSUME NEW j \in ListIds
      PROVE  fr2[j] \subseteq Region(j) /\ fr2[j] \cap h = {} /\ fr2[j] \cap l = {}
  <2>1. fr[j] \subseteq Region(j) /\ fr[j] \cap h = {} /\ fr[j] \cap l = {}
    BY DEF Parts
  <2>2. CASE j = i
    BY <1>1, <2>1, <2>2
  <2>3. CASE j # i
    BY <1>3, <2>1, <2>3
  <2> QED BY <2>2, <2>3
<1>8. ASSUME NEW j \in ListIds, NEW u \in Threads PROVE fr2[j] \cap fl2[u] = {}
  <2>1. fr[j] \cap fl[u] = {}
    BY DEF Parts
  <2> QED BY <1>4, <1>5, <2>1
<1>9. ASSUME NEW x \in Managed
      PROVE  \/ x \in h \/ x \in l
             \/ \E u \in Threads : x \in fl2[u]
             \/ \E j \in ListIds : x \in fr2[j]
  <2>1. \A j \in ListIds : x \in fr[j] => x \in fr2[j]
    BY <1>3
  <2>2. \A u \in Threads : x \in fl[u] => x \in fl2[u] \/ x \in fr2[i]
    BY <1>2
  <2> QED BY <2>1, <2>2 DEF Parts
<1> QED BY <1>6, <1>7, <1>8, <1>9 DEF Parts

\* The rest of a run whose free failed is leaked.
LEMMA PartsLeaked ==
  ASSUME NEW h, NEW l, NEW fl, NEW fr, Parts(h, l, fl, fr), NEW t \in Threads,
         NEW fl2, OnlyAt(Threads, t, fl, fl2), fl2[t] = {}
  PROVE  Parts(h, l \cup fl[t], fl2, fr)
<1>1. \A u \in Threads : u # t => fl2[u] = fl[u]
  BY DEF OnlyAt
<1>2. /\ h \subseteq Managed /\ l \cup fl[t] \subseteq Managed /\ h \cap (l \cup fl[t]) = {}
  BY DEF Parts
<1>3. ASSUME NEW u \in Threads
      PROVE  /\ fl2[u] \subseteq Managed /\ fl2[u] \cap h = {}
             /\ fl2[u] \cap (l \cup fl[t]) = {}
  <2>1. CASE u = t
    BY <2>1
  <2>2. CASE u # t
    BY <1>1, <2>2 DEF Parts
  <2> QED BY <2>1, <2>2
<1>4. ASSUME NEW u \in Threads, NEW v \in Threads, u # v PROVE fl2[u] \cap fl2[v] = {}
  <2>1. fl[u] \cap fl[v] = {}
    BY <1>4 DEF Parts
  <2> QED BY <1>1, <2>1
<1>5. ASSUME NEW j \in ListIds
      PROVE  /\ fr[j] \subseteq Region(j) /\ fr[j] \cap h = {}
             /\ fr[j] \cap (l \cup fl[t]) = {}
  BY DEF Parts
<1>6. ASSUME NEW j \in ListIds, NEW u \in Threads PROVE fr[j] \cap fl2[u] = {}
  <2>1. fr[j] \cap fl[u] = {}
    BY DEF Parts
  <2> QED BY <1>1, <2>1
<1>7. ASSUME NEW x \in Managed
      PROVE  \/ x \in h \/ x \in l \cup fl[t]
             \/ \E u \in Threads : x \in fl2[u]
             \/ \E j \in ListIds : x \in fr[j]
  <2>1. \A u \in Threads : x \in fl[u] => x \in fl[t] \/ x \in fl2[u]
    BY <1>1
  <2> QED BY <2>1 DEF Parts
<1> QED BY <1>2, <1>3, <1>4, <1>5, <1>6, <1>7 DEF Parts

\* What is free in a list lies in its region.
LEMMA Within ==
  ASSUME NEW L, Trees(L)
  PROVE  FreeBlocks(L) \subseteq L.start..L.end /\ IsFiniteSet(FreeBlocks(L))
<1>1. UnaBlocks(L) \subseteq L.start..L.end
  BY DEF Trees, UnaBlocks
<1>2. HugeBlocks(L) \subseteq L.start..L.end
  BY DEF Trees, HugeBlocks
<1>3. FreeBlocks(L) \subseteq L.start..L.end
  BY <1>1, <1>2 DEF FreeBlocks
<1>4. L.start \in Int /\ L.end \in Int
  BY DEF Trees, List
<1>5. IsFiniteSet(L.start..L.end)
  BY <1>4, FS_Interval
<1> QED BY <1>3, <1>5, FS_Subset


------------------------------------------------------------------------------
(* The inductive invariant: what ListsSound says, with the region of every list *)
(* and what a thread between two locked sections carries.                       *)

ListOK(i, L) ==
    /\ Trees(L) /\ L.start = Start(i) /\ L.end = End(i)
    /\ L.num_free = Cardinality(FreeBlocks(L))

CheckCall == [pc : {"check"}, large : BOOLEAN, num : Nat \ {0}, cpu : ListIds, retried : Int]
ScanCall == [pc : {"scan"}, large : BOOLEAN, num : Nat \ {0}, cpu : ListIds, retried : Int,
             i : ListIds, most : Int, most_holes : Int, cpuid : ListIds, holes : {-1} \cup ListIds]
FreeCall == [pc : {"free"}, low : Int, left : Int, num : Int, cpu : ListIds]

CallOK(c) ==
    \/ c.pc \in {"idle", "freed", "done"}
    \/ c \in CheckCall
    \/ c \in ScanCall
    \/ c \in FreeCall /\ 1 <= c.left /\ c.left <= c.num

ListsInv == DOMAIN lists = ListIds /\ \A i \in ListIds : ListOK(i, lists[i])
CallsInv == DOMAIN call = Threads /\ \A t \in Threads : CallOK(call[t])
PartsInv == Parts(held, leaked, [t \in Threads |-> Flight(call[t])],
                  [i \in ListIds |-> FreeBlocks(lists[i])])
IInv == ListsInv /\ CallsInv /\ PartsInv

\* c is what thread t does after the step, L what becomes of list i.
CallSet(t, c) == call' = [call EXCEPT ![t] = c]
ListSet(i, L) == lists' = [lists EXCEPT ![i] = L]

\* What a step that sets one call leaves in call.
LEMMA CallSetIs ==
  ASSUME CallsInv, NEW t \in Threads, NEW c, CallSet(t, c), CallOK(c)
  PROVE  /\ CallsInv' /\ call'[t] = c /\ \A u \in Threads : u # t => call'[u] = call[u]
<1>1. DOMAIN call' = Threads /\ call'[t] = c /\ \A u \in Threads : u # t => call'[u] = call[u]
  BY DEF CallsInv, CallSet
<1>2. ASSUME NEW u \in Threads PROVE CallOK(call'[u])
  <2>1. CASE u = t
    BY <1>1, <2>1
  <2>2. CASE u # t
    <3>1. CallOK(call[u])
      BY DEF CallsInv
    <3> QED BY <1>1, <2>2, <3>1
  <2> QED BY <2>1, <2>2
<1>3. CallsInv'
  BY <1>1, <1>2 DEF CallsInv, CallOK
<1> QED BY <1>1, <1>3

\* What a step that sets one list leaves in lists.
LEMMA ListSetIs ==
  ASSUME ListsInv, NEW i \in ListIds, NEW L, ListSet(i, L), ListOK(i, L)
  PROVE  /\ ListsInv' /\ lists'[i] = L /\ \A j \in ListIds : j # i => lists'[j] = lists[j]
<1>1. DOMAIN lists' = ListIds /\ lists'[i] = L /\ \A j \in ListIds : j # i => lists'[j] = lists[j]
  BY DEF ListsInv, ListSet
<1>2. ASSUME NEW j \in ListIds PROVE ListOK(j, lists'[j])
  <2>1. CASE j = i
    BY <1>1, <2>1
  <2>2. CASE j # i
    <3>1. ListOK(j, lists[j])
      BY DEF ListsInv
    <3> QED BY <1>1, <2>2, <3>1
  <2> QED BY <2>1, <2>2
<1>3. ListsInv'
  BY <1>1, <1>2 DEF ListsInv
<1> QED BY <1>1, <1>3

\* A step that leaves lists alone keeps them sound.
LEMMA ListsStay == ASSUME ListsInv, lists' = lists PROVE ListsInv'
BY DEF ListsInv

\* A step that moves no block.
LEMMA QuietStep ==
  ASSUME IInv, NEW t \in Threads, NEW c, CallSet(t, c), CallOK(c), Flight(c) = Flight(call[t]),
         UNCHANGED <<lists, held, leaked>>
  PROVE  IInv'
<1>1. CallsInv' /\ call'[t] = c /\ \A u \in Threads : u # t => call'[u] = call[u]
  BY CallSetIs DEF IInv
<1>2. ListsInv'
  BY ListsStay DEF IInv
<1>3. \A u \in Threads : Flight(call'[u]) = Flight(call[u])
  BY <1>1
<1>4. /\ [u \in Threads |-> Flight(call'[u])] = [u \in Threads |-> Flight(call[u])]
      /\ [i \in ListIds |-> FreeBlocks(lists'[i])] = [i \in ListIds |-> FreeBlocks(lists[i])]
      /\ held' = held /\ leaked' = leaked
  BY <1>3
<1>5. PartsInv'
  BY <1>4 DEF PartsInv, IInv
<1> QED BY <1>1, <1>2, <1>5 DEF IInv

\* Only a thread that frees has blocks in flight.
LEMMA FlightOf ==
  ASSUME NEW c, c.pc # "free" PROVE Flight(c) = {}
BY DEF Flight

\* One lemma per action: it preserves IInv.
LEMMA NewBlocksStep ==
  ASSUME IInv, NEW t \in Threads, NEW large \in BOOLEAN, NEW num \in Nat \ {0},
         NEW cpu \in ListIds, NewBlocks(t, large, num, cpu)
  PROVE  IInv'
<1> DEFINE c == [pc |-> "check", large |-> large, num |-> num, cpu |-> cpu, retried |-> 0]
<1>1. CallSet(t, c) /\ call[t].pc = "idle" /\ UNCHANGED <<lists, held, leaked>>
  BY DEF NewBlocks, Enter, CallSet
<1>2. c \in CheckCall /\ c.pc = "check"
  BY DEF CheckCall
<1>3. CallOK(c)
  BY <1>2 DEF CallOK
<1>4. Flight(c) = Flight(call[t])
  BY <1>1, <1>2, FlightOf
<1> HIDE DEF c
<1> QED BY <1>1, <1>3, <1>4, QuietStep

\* The lock is given up: nothing moves.
LEMMA RetryStep == ASSUME IInv, NEW t \in Threads, Retry(t) PROVE IInv'
<1> DEFINE d == call[t]
           c == [pc |-> "scan", large |-> d.large, num |-> d.num, cpu |-> d.cpu,
                 retried |-> d.retried, i |-> 0, most |-> 0, most_holes |-> 0, cpuid |-> 0,
                 holes |-> -1]
<1>1. CallSet(t, c) /\ d.pc = "check" /\ UNCHANGED <<lists, held, leaked>>
  BY DEF Retry, CallSet, IInv, CallsInv
<1>2. d \in CheckCall
  BY <1>1 DEF IInv, CallsInv, CallOK, ScanCall, FreeCall
<1>3. 0 \in ListIds
  BY WinefsAllocAssumption DEF ListIds
<1>4. c \in ScanCall /\ c.pc = "scan"
  <2> HIDE DEF d
  <2> QED BY <1>2, <1>3 DEF ScanCall, CheckCall
<1>5. CallOK(c)
  BY <1>4 DEF CallOK
<1>6. Flight(c) = Flight(call[t])
  BY <1>1, <1>4, FlightOf
<1> HIDE DEF c
<1> QED BY <1>1, <1>5, <1>6, QuietStep

\* The scan ends with a list that exists.
LEMMA CandidateStep ==
  ASSUME IInv, NEW t \in Threads, pmfs_get_candidate_free_list(t) PROVE IInv'
<1> DEFINE d == call[t]
           L == lists[d.i]
           c == Candidate(d, L)
           to == IF c.holes >= 0 THEN c.holes ELSE c.cpuid
           e == IF c.i < Cpus - 1 THEN [c EXCEPT !.i = @ + 1] ELSE Again(c, to)
<1>1. CallSet(t, e) /\ d.pc = "scan" /\ UNCHANGED <<lists, held, leaked>>
  BY DEF pmfs_get_candidate_free_list, CallSet
<1>2. d \in ScanCall
  BY <1>1 DEF IInv, CallsInv, CallOK, CheckCall, FreeCall
<1>3. d.i \in ListIds
  BY <1>2 DEF ScanCall
<1>4. L.num_free \in Int /\ L.num_h \in Int
  BY <1>3 DEF IInv, ListsInv, ListOK, Trees, List
<1>5. num_free_holes(L) \in Int
  BY <1>4, HType DEF num_free_holes
<1> DEFINE free == num_free_holes(L)
           more == L.num_free > d.most
           better == d.num # H /\ free > d.most_holes /\ free >= d.num
<1>6. c = [d EXCEPT !.cpuid = IF more THEN d.i ELSE @, !.most = IF more THEN L.num_free ELSE @,
                    !.holes = IF better THEN d.i ELSE @,
                    !.most_holes = IF better THEN free ELSE @]
  BY DEF Candidate
<1>7. c \in ScanCall
  <2> HIDE DEF d, L, free, more, better, c
  <2> QED BY <1>2, <1>3, <1>4, <1>5, <1>6 DEF ScanCall, free
<1> HIDE DEF c
<1>8. to \in ListIds
  <2>1. c.cpuid \in ListIds /\ (c.holes = -1 \/ c.holes \in ListIds)
    BY <1>7 DEF ScanCall
  <2> QED BY <2>1
<1> HIDE DEF to
<1>9. CallOK(e) /\ e.pc # "free"
  <2>1. CASE c.i < Cpus - 1
    <3>1. e = [c EXCEPT !.i = @ + 1]
      BY <2>1
    <3>2. c.i + 1 \in ListIds
      BY <1>7, <2>1, WinefsAllocAssumption DEF ScanCall, ListIds
    <3> HIDE DEF e
    <3>3. e \in ScanCall
      BY <1>7, <3>1, <3>2 DEF ScanCall
    <3>4. e.pc = "scan"
      BY <3>3 DEF ScanCall
    <3> QED BY <3>3, <3>4 DEF CallOK
  <2>2. CASE ~(c.i < Cpus - 1)
    <3>1. e = Again(c, to)
      BY <2>2
    <3> HIDE DEF e
    <3>2. e \in CheckCall
      BY <1>7, <1>8, <3>1 DEF ScanCall, CheckCall, Again
    <3>3. e.pc = "check"
      BY <3>2 DEF CheckCall
    <3> QED BY <3>2, <3>3 DEF CallOK
  <2> QED BY <2>1, <2>2
<1> HIDE DEF e
<1>10. Flight(e) = Flight(call[t])
  BY <1>1, <1>9, FlightOf
<1> QED BY <1>1, <1>9, <1>10, QuietStep

\* A call that is over has no blocks in flight.
LEMMA ReturnStep == ASSUME IInv, NEW t \in Threads, Return(t) PROVE IInv'
<1>1. CallSet(t, Idle) /\ call[t].pc \in {"done", "freed"} /\ UNCHANGED <<lists, held, leaked>>
  BY DEF Return, CallSet
<1>2. Idle.pc = "idle"
  BY DEF Idle
<1>3. CallOK(Idle)
  BY <1>2 DEF CallOK
<1>4. Flight(Idle) = Flight(call[t])
  BY <1>1, <1>2, FlightOf
<1> QED BY <1>1, <1>3, <1>4, QuietStep


\* What a step does to the owners, read as the two functions of PartsInv.
LEMMA FlightsOnlyAt ==
  ASSUME NEW t \in Threads, \A u \in Threads : u # t => call'[u] = call[u]
  PROVE  OnlyAt(Threads, t, [u \in Threads |-> Flight(call[u])],
                [u \in Threads |-> Flight(call'[u])])
BY DEF OnlyAt

\* The same for the lists.
LEMMA FreesOnlyAt ==
  ASSUME NEW i \in ListIds, \A j \in ListIds : j # i => lists'[j] = lists[j]
  PROVE  OnlyAt(ListIds, i, [j \in ListIds |-> FreeBlocks(lists[j])],
                [j \in ListIds |-> FreeBlocks(lists'[j])])
BY DEF OnlyAt

\* Blocks go from the list to the caller.
LEMMA AllocStep == ASSUME IInv, NEW t \in Threads, Alloc(t) PROVE IInv'
<1> DEFINE d == call[t]
           L == lists[d.cpu]
           r == pmfs_alloc_blocks_in_free_list(L, d.large, d.num)
           S == r.block..r.block + r.num - 1
           c == [pc |-> "done", large |-> d.large, got |-> r.num]
           fl == [u \in Threads |-> Flight(call[u])]
           fl2 == [u \in Threads |-> Flight(call'[u])]
           fr == [j \in ListIds |-> FreeBlocks(lists[j])]
           fr2 == [j \in ListIds |-> FreeBlocks(lists'[j])]
<1>1. /\ d.pc = "check" /\ L.first_u # Dangling /\ ListSet(d.cpu, r.list) /\ held' = held \cup S
      /\ CallSet(t, c) /\ leaked' = leaked
  BY DEF Alloc, CallSet, ListSet
<1>2. d \in CheckCall
  BY <1>1 DEF IInv, CallsInv, CallOK, ScanCall, FreeCall
<1>3. d.large \in BOOLEAN /\ d.num \in Nat \ {0} /\ d.cpu \in ListIds
  BY <1>2 DEF CheckCall
<1>4. ListOK(d.cpu, L)
  BY <1>3 DEF IInv, ListsInv
<1>5. Trees(L)
  BY <1>4 DEF ListOK
<1> HIDE DEF L
<1>6. Grants(L, r)
  <2>1. PICK large \in BOOLEAN, num \in Nat \ {0} : large = d.large /\ num = d.num
    BY <1>3
  <2> HIDE DEF d
  <2> QED BY <1>1, <1>5, <2>1, AllocGrants
<1> HIDE DEF r
<1>7. ListOK(d.cpu, r.list)
  <2>1. /\ r.num \in Nat /\ r.block \in Int /\ S \subseteq FreeBlocks(L) /\ Trees(r.list)
        /\ r.list.start = L.start /\ r.list.end = L.end
        /\ FreeBlocks(r.list) = FreeBlocks(L) \ S
        /\ r.list.num_free = L.num_free - r.num
    BY <1>6 DEF Grants, SameRegion
  <2>2. IsFiniteSet(FreeBlocks(L)) /\ IsFiniteSet(S)
    BY <1>5, <2>1, Within, FS_Interval
  <2>3. Cardinality(S) = r.num
    <3>1. r.block + r.num - 1 \in Int
      BY <2>1
    <3>2. Cardinality(S) = IF r.block > r.block + r.num - 1 THEN 0
                           ELSE (r.block + r.num - 1) - r.block + 1
      BY <2>1, <3>1, FS_Interval
    <3> QED BY <2>1, <3>2
  <2>4. FreeBlocks(L) \cap S = S
    BY <2>1
  <2>5. Cardinality(FreeBlocks(L) \ S) = Cardinality(FreeBlocks(L)) - Cardinality(S)
    BY <2>2, <2>4, FS_Difference
  <2> QED BY <1>4, <2>1, <2>3, <2>5 DEF ListOK
<1>8. ListsInv' /\ lists'[d.cpu] = r.list /\ \A j \in ListIds : j # d.cpu => lists'[j] = lists[j]
  BY <1>1, <1>3, <1>7, ListSetIs DEF IInv
<1>9. c.pc = "done"
  OBVIOUS
<1>10. CallOK(c)
  BY <1>9 DEF CallOK
<1> HIDE DEF c
<1>11. CallsInv' /\ call'[t] = c /\ \A u \in Threads : u # t => call'[u] = call[u]
  BY <1>1, <1>10, CallSetIs DEF IInv
<1>12. fl2 = fl
  <2>1. Flight(call'[t]) = {} /\ Flight(call[t]) = {}
    BY <1>1, <1>9, <1>11, FlightOf
  <2> QED BY <1>11, <2>1
<1>13. OnlyAt(ListIds, d.cpu, fr, fr2)
  <2> HIDE DEF d
  <2> QED BY <1>3, <1>8, FreesOnlyAt
<1>14. fr[d.cpu] = FreeBlocks(L) /\ fr2[d.cpu] = fr[d.cpu] \ S /\ S \subseteq fr[d.cpu]
  <2>1. fr[d.cpu] = FreeBlocks(L) /\ fr2[d.cpu] = FreeBlocks(r.list)
    BY <1>3, <1>8 DEF L
  <2> HIDE DEF d, fr, fr2, S
  <2>2. S \subseteq FreeBlocks(L) /\ FreeBlocks(r.list) = FreeBlocks(L) \ S
    BY <1>6 DEF Grants, S
  <2> QED BY <2>1, <2>2
<1>15. Parts(held, leaked, fl, fr)
  BY DEF IInv, PartsInv
<1>16. Parts(held \cup S, leaked, fl, fr2)
  <2> HIDE DEF d, fl, fr, fr2, S
  <2> QED BY <1>3, <1>13, <1>14, <1>15, PartsGranted
<1>17. PartsInv'
  BY <1>1, <1>12, <1>16 DEF PartsInv
<1> QED BY <1>8, <1>11, <1>17 DEF IInv

\* Blocks go from the caller into flight.
LEMMA FreeBlocksStep ==
  ASSUME IInv, NEW t \in Threads, NEW low \in held, NEW num \in Nat \ {0},
         FreeBlocksOf(t, low, num)
  PROVE  IInv'
<1> DEFINE S == low..low + num - 1
           c == [pc |-> "free", low |-> low, left |-> num, num |-> num, cpu |-> get_block_cpuid(low)]
           fl == [u \in Threads |-> Flight(call[u])]
           fl2 == [u \in Threads |-> Flight(call'[u])]
           fr == [j \in ListIds |-> FreeBlocks(lists[j])]
<1>1. /\ call[t].pc = "idle" /\ S \subseteq held /\ held' = held \ S
      /\ CallSet(t, c) /\ lists' = lists /\ leaked' = leaked
  BY DEF FreeBlocksOf, Enter, CallSet
<1>2. Parts(held, leaked, fl, fr)
  BY DEF IInv, PartsInv
<1>3. get_block_cpuid(low) \in ListIds /\ low \in Nat
  BY <1>2, CpuOf DEF Parts
<1>4. c \in FreeCall /\ c.left = num /\ c.num = num /\ c.low = low /\ c.pc = "free"
  BY <1>3 DEF FreeCall
<1> HIDE DEF c
<1>5. CallOK(c) /\ Flight(c) = S
  BY <1>4 DEF CallOK, Flight
<1>6. CallsInv' /\ call'[t] = c /\ \A u \in Threads : u # t => call'[u] = call[u]
  BY <1>1, <1>5, CallSetIs DEF IInv
<1>7. ListsInv'
  BY <1>1, ListsStay DEF IInv
<1>8. OnlyAt(Threads, t, fl, fl2)
  BY <1>6, FlightsOnlyAt
<1>9. fl[t] = {} /\ fl2[t] = S
  BY <1>1, <1>5, <1>6, FlightOf
<1>10. Parts(held \ S, leaked, fl2, fr)
  <2> HIDE DEF fl, fl2, fr, S
  <2> QED BY <1>1, <1>2, <1>8, <1>9, PartsGiven
<1>11. PartsInv'
  BY <1>1, <1>10 DEF PartsInv
<1> QED BY <1>6, <1>7, <1>11 DEF IInv

\* Blocks in flight are leaked.
LEMMA FreeFailsStep == ASSUME IInv, NEW t \in Threads, FreeFails(t) PROVE IInv'
<1> DEFINE d == call[t]
           fl == [u \in Threads |-> Flight(call[u])]
           fl2 == [u \in Threads |-> Flight(call'[u])]
           fr == [j \in ListIds |-> FreeBlocks(lists[j])]
<1>1. /\ d.pc = "free" /\ leaked' = leaked \cup (d.low..d.low + d.left - 1)
      /\ CallSet(t, Freed) /\ lists' = lists /\ held' = held
  BY DEF FreeFails, CallSet
<1>2. Freed.pc = "freed"
  BY DEF Freed
<1>3. CallOK(Freed) /\ Flight(Freed) = {}
  BY <1>2 DEF CallOK, Flight
<1>4. CallsInv' /\ call'[t] = Freed /\ \A u \in Threads : u # t => call'[u] = call[u]
  BY <1>1, <1>3, CallSetIs DEF IInv
<1>5. ListsInv'
  BY <1>1, ListsStay DEF IInv
<1>6. OnlyAt(Threads, t, fl, fl2)
  BY <1>4, FlightsOnlyAt
<1>7. fl2[t] = {}
  BY <1>3, <1>4
<1>8. leaked' = leaked \cup fl[t]
  BY <1>1 DEF Flight
<1>9. Parts(held, leaked, fl, fr)
  BY DEF IInv, PartsInv
<1>10. Parts(held, leaked \cup fl[t], fl2, fr)
  <2> HIDE DEF fl, fl2, fr
  <2> QED BY <1>6, <1>7, <1>9, PartsLeaked
<1>11. PartsInv'
  <2>1. Parts(held', leaked', fl2, fr)
    BY <1>1, <1>8, <1>10
  <2> QED BY <1>1, <2>1 DEF PartsInv
<1> QED BY <1>4, <1>5, <1>11 DEF IInv

\* The run of a round lies in the region of its list and is not in the list.
LEMMA RoundRun ==
  ASSUME IInv, NEW t \in Threads, NEW d, d = call[t], d.pc = "free", NEW L, L = lists[d.cpu],
         ~OutOfList(d, L), NEW n, n = Round(d)
  PROVE  /\ d \in FreeCall /\ 1 <= d.left /\ d.left <= d.num
         /\ n \in Int /\ 1 <= n /\ n <= d.left
         /\ ListOK(d.cpu, L) /\ d.low..d.low + n - 1 \subseteq L.start..L.end
         /\ (d.low..d.low + n - 1) \cap FreeBlocks(L) = {}
<1> DEFINE fl == [u \in Threads |-> Flight(call[u])]
           fr == [j \in ListIds |-> FreeBlocks(lists[j])]
           S == d.low..d.low + n - 1
<1>1. d \in FreeCall /\ 1 <= d.left /\ d.left <= d.num
  BY DEF IInv, CallsInv, CallOK, ScanCall, CheckCall
<1>2. d.cpu \in ListIds /\ d.low \in Int /\ d.left \in Int /\ d.num \in Int
  BY <1>1 DEF FreeCall
<1>3. n \in Int /\ 1 <= n /\ n <= d.left
  <2>1. {d.left, H} \in SUBSET Nat /\ {d.left, H} # {} /\ H >= 2
    BY <1>1, <1>2, HType
  <2>2. n \in {d.left, H} /\ \A y \in {d.left, H} : n <= y
    BY <2>1, MinOf DEF Round
  <2> QED BY <1>1, <1>2, <2>1, <2>2
<1>4. ListOK(d.cpu, L) /\ Trees(L)
  BY <1>2 DEF IInv, ListsInv, ListOK
<1>5. L.start \in Int /\ L.end \in Int
  BY <1>4 DEF Trees, List
<1>6. d.low >= L.start /\ d.low + d.num <= L.end + 1
  BY <1>2, <1>5 DEF OutOfList
<1>7. S \subseteq L.start..L.end
  BY <1>1, <1>2, <1>3, <1>5, <1>6
<1>8. fr[d.cpu] \cap fl[t] = {}
  <2>1. Parts(held, leaked, fl, fr)
    BY DEF IInv, PartsInv
  <2> HIDE DEF fl, fr
  <2> QED BY <1>2, <2>1 DEF Parts
<1>9. fl[t] = d.low..d.low + d.left - 1 /\ fr[d.cpu] = FreeBlocks(L)
  BY <1>2 DEF Flight
<1>10. S \subseteq d.low..d.low + d.left - 1
  BY <1>2, <1>3
<1>11. S \cap FreeBlocks(L) = {}
  <2> HIDE DEF fl, fr, S
  <2> QED BY <1>8, <1>9, <1>10
<1> QED BY <1>1, <1>3, <1>4, <1>7, <1>11

\* Blocks in flight go to the list, at most a huge page of them at a time.
LEMMA FreeRoundStep == ASSUME IInv, NEW t \in Threads, FreeRoundOf(t) PROVE IInv'
<1> DEFINE d == call[t]
           L == lists[d.cpu]
           n == Round(d)
           high == d.low + n - 1
           c == IF d.left = n THEN Freed ELSE [d EXCEPT !.low = @ + n, !.left = @ - n]
           S == d.low..high
           fl == [u \in Threads |-> Flight(call[u])]
           fl2 == [u \in Threads |-> Flight(call'[u])]
           fr == [j \in ListIds |-> FreeBlocks(lists[j])]
           fr2 == [j \in ListIds |-> FreeBlocks(lists'[j])]
<1>1. /\ d.pc = "free" /\ ~OutOfList(d, L) /\ CallSet(t, c) /\ held' = held /\ leaked' = leaked
      /\ \E M \in FreeRound(L, d.low, high) : ListSet(d.cpu, M)
  BY DEF FreeRoundOf, CallSet, ListSet
<1>2. PICK M \in FreeRound(L, d.low, high) : ListSet(d.cpu, M)
  BY <1>1
<1>3. d \in FreeCall /\ 1 <= d.left /\ d.left <= d.num
  BY <1>1 DEF IInv, CallsInv, CallOK, ScanCall, CheckCall
<1>4. d.cpu \in ListIds /\ d.low \in Int /\ d.left \in Int /\ d.num \in Int
  BY <1>3 DEF FreeCall
<1>5. n \in Int /\ 1 <= n /\ n <= d.left
  BY <1>1, RoundRun
<1>6. ListOK(d.cpu, L) /\ Trees(L)
  BY <1>4 DEF IInv, ListsInv, ListOK
<1>7. L.start \in Int /\ L.end \in Int /\ L.num_free \in Int
  BY <1>6 DEF Trees, List
<1>8. S \subseteq L.start..L.end /\ S \cap FreeBlocks(L) = {}
  BY <1>1, RoundRun
<1> HIDE DEF n
<1>9. /\ high \in Int /\ d.low <= high /\ S \subseteq L.start..L.end
      /\ high - d.low + 1 = n
  <2>1. high \in Int /\ d.low <= high /\ high - d.low + 1 = n
    <3> HIDE DEF d, L
    <3> QED BY <1>4, <1>5
  <2> QED BY <1>8, <2>1
<1>10. Parts(held, leaked, fl, fr)
  BY DEF IInv, PartsInv
<1>11. fl[t] = d.low..d.low + d.left - 1 /\ fr[d.cpu] = FreeBlocks(L)
  BY <1>1, <1>4 DEF Flight
<1>12. S \subseteq fl[t] /\ S \cap FreeBlocks(L) = {}
  <2>1. S \subseteq fl[t]
    <3> HIDE DEF fl, fr, d
    <3> QED BY <1>4, <1>5, <1>11
  <2> QED BY <1>8, <2>1
<1>13. /\ Trees(M) /\ FreeBlocks(M) = FreeBlocks(L) \cup S
       /\ SameRegion(L, M) /\ M.num_free = L.num_free + n
  <2>1. PICK low \in Int : low = d.low
    BY <1>4
  <2>2. PICK hi \in Int : hi = high
    BY <1>9
  <2>3. /\ low <= hi /\ low..hi \subseteq L.start..L.end /\ (low..hi) \cap FreeBlocks(L) = {}
        /\ M \in FreeRound(L, low, hi)
    BY <1>2, <1>9, <1>12, <2>1, <2>2
  <2> HIDE DEF L
  <2>4. /\ Trees(M) /\ FreeBlocks(M) = FreeBlocks(L) \cup (low..hi)
        /\ SameRegion(L, M) /\ M.num_free = L.num_free + (hi - low + 1)
    BY <1>6, <2>3, RoundFrees
  <2>5. hi - low + 1 = n
    BY <1>9, <2>1, <2>2
  <2> QED BY <2>1, <2>2, <2>4, <2>5
<1>14. ListOK(d.cpu, M)
  <2>1. IsFiniteSet(FreeBlocks(L)) /\ IsFiniteSet(S)
    BY <1>4, <1>6, <1>9, Within, FS_Interval
  <2>2. Cardinality(S) = n
    <3>1. Cardinality(S) = IF d.low > high THEN 0 ELSE high - d.low + 1
      BY <1>4, <1>9, FS_Interval
    <3> HIDE DEF d, high
    <3> QED BY <1>4, <1>5, <1>9, <3>1
  <2>3. Cardinality(FreeBlocks(L) \cap S) = 0
    BY <1>12, FS_EmptySet
  <2>4. Cardinality(FreeBlocks(L) \cup S) = Cardinality(FreeBlocks(L)) + Cardinality(S) - 0
    <3> HIDE DEF S, L
    <3> QED BY <2>1, <2>3, FS_Union
  <2>5. Cardinality(FreeBlocks(L)) \in Nat
    BY <2>1, FS_CardinalityType
  <2> HIDE DEF S, L, d
  <2> QED BY <1>5, <1>6, <1>13, <2>2, <2>4, <2>5 DEF ListOK, SameRegion
<1>15. ListsInv' /\ lists'[d.cpu] = M /\ \A j \in ListIds : j # d.cpu => lists'[j] = lists[j]
  BY <1>2, <1>4, <1>14, ListSetIs DEF IInv
<1>16. CallOK(c) /\ Flight(c) = fl[t] \ S
  <2> HIDE DEF d, fl
  <2>1. CASE d.left = n
    <3>1. c = Freed /\ Freed.pc = "freed"
      BY <2>1 DEF Freed
    <3>2. fl[t] \ S = {}
      BY <1>11, <2>1
    <3> HIDE DEF c, S
    <3> QED BY <3>1, <3>2 DEF CallOK, Flight
  <2>2. CASE d.left # n
    <3>1. c = [d EXCEPT !.low = @ + n, !.left = @ - n]
      BY <2>2
    <3> HIDE DEF c
    <3>2. /\ c \in FreeCall /\ c.left = d.left - n /\ c.num = d.num /\ c.low = d.low + n
          /\ c.pc = "free"
      <4>1. d.low + n \in Int /\ d.left - n \in Int
        BY <1>4, <1>5
      <4>2. PICK lo \in Int, le \in Int : lo = d.low + n /\ le = d.left - n
        BY <4>1
      <4>3. c = [d EXCEPT !.low = lo, !.left = le]
        BY <3>1, <4>2
      <4>4. c \in FreeCall /\ c.left = le /\ c.num = d.num /\ c.low = lo /\ c.pc = "free"
        BY <1>3, <4>2, <4>3 DEF FreeCall
      <4> QED BY <4>2, <4>4
    <3>3. CallOK(c)
      BY <1>3, <1>4, <1>5, <2>2, <3>2 DEF CallOK
    <3>4. Flight(c) = d.low + n..d.low + n + (d.left - n) - 1
      BY <3>2 DEF Flight
    <3>5. Flight(c) = fl[t] \ S
      BY <1>4, <1>5, <1>11, <3>4
    <3> QED BY <3>3, <3>5
  <2> QED BY <2>1, <2>2
<1> HIDE DEF c
<1>17. CallsInv' /\ call'[t] = c /\ \A u \in Threads : u # t => call'[u] = call[u]
  BY <1>1, <1>16, CallSetIs DEF IInv
<1>18. OnlyAt(Threads, t, fl, fl2) /\ fl2[t] = fl[t] \ S
  <2>1. OnlyAt(Threads, t, fl, fl2)
    BY <1>17, FlightsOnlyAt
  <2>2. fl2[t] = Flight(c)
    BY <1>17
  <2> HIDE DEF fl, fl2, S
  <2> QED BY <1>16, <2>1, <2>2
<1>19. OnlyAt(ListIds, d.cpu, fr, fr2) /\ fr2[d.cpu] = fr[d.cpu] \cup S
  <2>1. OnlyAt(ListIds, d.cpu, fr, fr2)
    <3> HIDE DEF d
    <3> QED BY <1>4, <1>15, FreesOnlyAt
  <2>2. fr2[d.cpu] = FreeBlocks(M)
    BY <1>4, <1>15
  <2> HIDE DEF fr, fr2, S
  <2> QED BY <1>11, <1>13, <2>1, <2>2
<1>20. S \subseteq Region(d.cpu)
  BY <1>6, <1>9 DEF ListOK, Region
<1>21. Parts(held, leaked, fl2, fr2)
  <2> HIDE DEF d, fl, fl2, fr, fr2, S
  <2> QED BY <1>4, <1>10, <1>12, <1>18, <1>19, <1>20, PartsFreed
<1>22. PartsInv'
  BY <1>1, <1>21 DEF PartsInv
<1> QED BY <1>15, <1>17, <1>22 DEF IInv

\* IInv holds of a formatted device and of a full one.
LEMMA InitInv == ASSUME LastBlocksListed PROVE Init => IInv
<1> SUFFICES ASSUME Init PROVE IInv
  OBVIOUS
<1> DEFINE fl == [u \in Threads |-> Flight(call[u])]
           fr == [j \in ListIds |-> FreeBlocks(lists[j])]
<1>1. call = [t \in Threads |-> Idle] /\ leaked = {} /\ Idle.pc = "idle"
  BY DEF Init, Idle
<1>2. CallsInv /\ \A t \in Threads : fl[t] = {}
  BY <1>1, FlightOf DEF CallsInv, CallOK
<1>3. CASE lists = pmfs_init_blockmap(FALSE) /\ held = {}
  <2>1. DOMAIN lists = ListIds /\ \A i \in ListIds : lists[i] = FreshList(i)
    BY <1>3 DEF pmfs_init_blockmap
  <2>2. ASSUME NEW i \in ListIds PROVE ListOK(i, lists[i]) /\ FreeBlocks(lists[i]) = Region(i)
    <3>1. PICK L : L = FreshList(i)
      OBVIOUS
    <3>2. /\ Trees(L) /\ FreeBlocks(L) = Region(i) /\ L.num_free = End(i) - Start(i) + 1
          /\ L.start = Start(i) /\ L.end = End(i)
      BY <3>1, FreshTrees
    <3>3. Start(i) \in Int /\ End(i) \in Int /\ Start(i) <= End(i)
      BY RegionType
    <3>4. Cardinality(Region(i)) = End(i) - Start(i) + 1
      <4>1. Cardinality(Region(i)) = IF Start(i) > End(i) THEN 0 ELSE End(i) - Start(i) + 1
        BY <3>3, FS_Interval DEF Region
      <4> QED BY <3>3, <4>1
    <3>5. ListOK(i, L)
      BY <3>2, <3>4 DEF ListOK
    <3>6. lists[i] = L
      BY <2>1, <3>1
    <3> QED BY <3>2, <3>5, <3>6
  <2>3. ListsInv
    BY <2>1, <2>2 DEF ListsInv
  <2>4. \A i \in ListIds : fr[i] = Region(i)
    BY <2>2
  <2>5. Parts(held, leaked, fl, fr)
    <3> HIDE DEF fl, fr
    <3>1. \A x \in Managed : \E i \in ListIds : x \in fr[i]
      BY <2>4, ManagedIs
    <3> QED BY <1>1, <1>2, <1>3, <2>4, <3>1 DEF Parts
  <2> QED BY <1>2, <2>3, <2>5 DEF IInv, PartsInv
<1>4. CASE lists = pmfs_init_blockmap(TRUE) /\ held = Managed
  <2>1. DOMAIN lists = ListIds /\ \A i \in ListIds : lists[i] = pmfs_init_free_list(i)
    BY <1>4 DEF pmfs_init_blockmap, pmfs_alloc_block_free_lists
  <2>2. ASSUME NEW i \in ListIds PROVE ListOK(i, lists[i]) /\ FreeBlocks(lists[i]) = {}
    <3>1. PICK L : L = pmfs_init_free_list(i)
      OBVIOUS
    <3>2. /\ Trees(L) /\ FreeBlocks(L) = {} /\ L.num_free = 0
          /\ L.start = Start(i) /\ L.end = End(i)
      BY <3>1, EmptyTrees
    <3>3. ListOK(i, L)
      BY <3>2, FS_EmptySet DEF ListOK
    <3>4. lists[i] = L
      BY <2>1, <3>1
    <3> QED BY <3>2, <3>3, <3>4
  <2>3. ListsInv
    BY <2>1, <2>2 DEF ListsInv
  <2>4. \A i \in ListIds : fr[i] = {}
    BY <2>2
  <2>5. Parts(held, leaked, fl, fr)
    <3> HIDE DEF fl, fr
    <3> QED BY <1>1, <1>2, <1>4, <2>4 DEF Parts
  <2> QED BY <1>2, <2>3, <2>5 DEF IInv, PartsInv
<1> QED BY <1>3, <1>4 DEF Init

\* Every step preserves IInv.
LEMMA NextInv == IInv /\ [Next]_vars => IInv'
<1> SUFFICES ASSUME IInv, [Next]_vars PROVE IInv'
  OBVIOUS
<1>1. CASE UNCHANGED vars
  BY <1>1 DEF vars, IInv, ListsInv, CallsInv, PartsInv
<1>2. CASE Next
  <2>1. PICK t \in Threads :
          \/ \E num \in Nums, cpu \in ListIds : NewBlocks(t, FALSE, num, cpu)
          \/ \E cpu \in ListIds : NewBlocks(t, TRUE, H, cpu)
          \/ \E low \in held, num \in Runs : FreeBlocksOf(t, low, num)
          \/ Step(t)
    BY <1>2 DEF Next
  <2>2. ASSUME NEW num \in Nums, NEW cpu \in ListIds, NewBlocks(t, FALSE, num, cpu) PROVE IInv'
    <3>1. num \in Nat \ {0} /\ FALSE \in BOOLEAN
      BY WinefsAllocAssumption
    <3> QED BY <2>2, <3>1, NewBlocksStep
  <2>3. ASSUME NEW cpu \in ListIds, NewBlocks(t, TRUE, H, cpu) PROVE IInv'
    <3>1. H \in Nat \ {0} /\ TRUE \in BOOLEAN
      BY WinefsAllocAssumption
    <3> QED BY <2>3, <3>1, NewBlocksStep
  <2>4. ASSUME NEW low \in held, NEW num \in Runs, FreeBlocksOf(t, low, num) PROVE IInv'
    <3>1. num \in Nat \ {0}
      BY WinefsAllocAssumption
    <3> QED BY <2>4, <3>1, FreeBlocksStep
  <2>5. CASE Step(t)
    BY <2>5, AllocStep, RetryStep, CandidateStep, FreeRoundStep, FreeFailsStep, ReturnStep DEF Step
  <2> QED BY <2>1, <2>2, <2>3, <2>4, <2>5
<1> QED BY <1>1, <1>2

\* IInv implies what the run checks.
LEMMA InvSound == IInv => ListsSound
<1> SUFFICES ASSUME IInv PROVE ListsSound
  OBVIOUS
<1> DEFINE fl == [u \in Threads |-> Flight(call[u])]
           fr == [j \in ListIds |-> FreeBlocks(lists[j])]
           freeing == UNION {InFlight(t) : t \in Threads}
           used == held \cup leaked \cup freeing
<1>1. \A i \in ListIds : Trees(lists[i]) /\ lists[i].num_free = Cardinality(FreeBlocks(lists[i]))
  BY DEF IInv, ListsInv, ListOK
<1>2. TypeOK
  BY <1>1 DEF TypeOK, Trees
<1>3. CountersExact
  BY <1>1 DEF CountersExact, Trees
<1>4. Parts(held, leaked, fl, fr)
  BY DEF IInv, PartsInv
<1>5. \A t \in Threads : InFlight(t) = fl[t]
  BY DEF InFlight, Flight
<1>6. \A i \in ListIds : FreeBlocks(lists[i]) = fr[i]
  OBVIOUS
<1> HIDE DEF fl, fr
<1>7. \A t \in Threads : InFlight(t) \subseteq freeing
  OBVIOUS
<1>8. \A x \in freeing : \E t \in Threads : x \in fl[t]
  BY <1>5
<1>9. used \cup UNION {FreeBlocks(lists[i]) : i \in ListIds} = Managed
  <2>1. ASSUME NEW x \in Managed
        PROVE  x \in used \cup UNION {FreeBlocks(lists[i]) : i \in ListIds}
    <3>1. CASE \E t \in Threads : x \in fl[t]
      BY <1>5, <1>7, <3>1
    <3>2. CASE \E i \in ListIds : x \in fr[i]
      BY <1>6, <3>2
    <3> QED BY <1>4, <3>1, <3>2 DEF Parts
  <2>2. freeing \subseteq Managed
    BY <1>4, <1>8 DEF Parts
  <2>3. used \subseteq Managed
    BY <1>4, <2>2 DEF Parts
  <2>4. \A i \in ListIds : FreeBlocks(lists[i]) \subseteq Managed
    BY <1>4, <1>6, RegionManaged DEF Parts
  <2> QED BY <2>1, <2>3, <2>4
<1>10. held \cap leaked = {} /\ (held \cup leaked) \cap freeing = {}
  BY <1>4, <1>8 DEF Parts
<1>11. \A t, u \in Threads : t # u => InFlight(t) \cap InFlight(u) = {}
  BY <1>4, <1>5 DEF Parts
<1>12. ASSUME NEW i \in ListIds
       PROVE  /\ Apart(lists[i]) /\ FreeBlocks(lists[i]) \cap used = {}
              /\ \A j \in ListIds \ {i} : FreeBlocks(lists[i]) \cap FreeBlocks(lists[j]) = {}
  <2>1. Apart(lists[i])
    BY <1>1 DEF Trees
  <2>2. fr[i] \cap freeing = {}
    BY <1>4, <1>8 DEF Parts
  <2>3. fr[i] \cap used = {}
    BY <1>4, <2>2 DEF Parts
  <2>4. ASSUME NEW j \in ListIds, j # i PROVE fr[i] \cap fr[j] = {}
    <3>1. Region(i) \cap Region(j) = {}
      BY <2>4, RegionsApart
    <3>2. fr[i] \subseteq Region(i) /\ fr[j] \subseteq Region(j)
      BY <1>4 DEF Parts
    <3> QED BY <3>1, <3>2
  <2> QED BY <1>6, <2>1, <2>3, <2>4
<1>13. BlocksConserved
  <2> HIDE DEF freeing, used
  <2> QED BY <1>9, <1>10, <1>11, <1>12 DEF BlocksConserved, freeing, used
<1> QED BY <1>2, <1>3, <1>13 DEF ListsSound

\* Whatever the threads do between two locked sections, no block of the device is
\* ever in two hands and none disappears, every list is a walk of ranges inside its
\* region, and the counters that pmfs_new_blocks decides by are those of its trees.
\* For any number of CPUs, blocks, threads and calls, on a device none of whose
\* lists ends with the first block of a huge page.
THEOREM AllocListsSound ==
  ASSUME LastBlocksListed
  PROVE  Spec => []ListsSound
<1>1. Init => IInv
  BY InitInv
<1>2. IInv /\ [Next]_vars => IInv'
  BY NextInv
<1>3. IInv => ListsSound
  BY InvSound
<1> QED BY <1>1, <1>2, <1>3, PTL DEF Spec

==============================================================================

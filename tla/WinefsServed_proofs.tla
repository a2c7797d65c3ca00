------------------------- MODULE WinefsServed_proofs -------------------------
(***************************************************************************)
(* Proofs about a call of pmfs_new_blocks that runs alone: two retries are *)
(* enough, for every number of blocks, lists and threads.                  *)
(*                                                                         *)
(* To IInv of WinefsAlloc_proofs the invariant adds that the remembered    *)
(* first nodes are the lowest ones, of the huge pages always and of the    *)
(* small ranges in every list whose walk was never out of order (Ready),   *)
(* and what a call without company has learnt from the lists (Learnt):     *)
(* they do not change under it.                                            *)
(***************************************************************************)
EXTENDS WinefsAlloc_proofs

\* The list that a scan of the lists ls picks has what was asked for, or more than
\* any other.
Picked(ls, num, i) ==
    \/ ls[i].num_free >= num
    \/ \A j \in ListIds : ls[j].num_free <= ls[i].num_free

AllEmpty(ls) == \A i \in ListIds : FreeBlocks(ls[i]) = {}
Excused(ls, es) == \E i \in es : FreeBlocks(ls[i]) # {}

\* What a call c knows of lists ls that do not change under it, es those whose walk
\* was once out of order.
Learnt(c, ls, es) ==
    /\ c.pc = "check" => c.retried = 0 \/ Picked(ls, c.num, c.cpu)
    /\ c.pc = "scan" =>
          /\ \A j \in ListIds : j < c.i => ls[j].num_free <= c.most
          /\ c.most <= ls[c.cpuid].num_free
          /\ c.holes # -1 => ls[c.holes].num_free >= c.num
    /\ c.pc = "done" /\ ~c.large /\ c.got = 0 => AllEmpty(ls) \/ Excused(ls, es)

\* The remembered first nodes are the lowest, but for the small ranges of lists in es.
Firsts(ls, es) == /\ \A i \in ListIds : HugeLow(ls[i])
                  /\ es \subseteq ListIds
                  /\ \A i \in ListIds \ es : Ready(ls[i])

\* A thread that is alone in a call is the only one in a call, and knows the lists.
AloneInv == \A t \in alone : /\ t \in Threads /\ Learnt(call[t], lists, early)
                             /\ \A u \in Threads : u # t => call[u].pc = "idle"

------------------------------------------------------------------------------
(* The lowest huge page.                                                        *)

\* What leaves the huge tree alone.
LEMMA HugeLowKept ==
  ASSUME NEW L, HugeLow(L), NEW M, SameHuge(L, M)
  PROVE  HugeLow(M)
BY DEF HugeLow, SameHuge

\* The successor of the lowest page is the lowest of the rest.
LEMMA HugeLowTaken ==
  ASSUME NEW L, Trees(L), HugeLow(L), L.first_h # 0, NEW M, M = FirstHugeTaken(L)
  PROVE  HugeLow(M)
<1> DEFINE rest == L.huge \ {L.first_h}
           after == {b \in rest : b > L.first_h}
<1>1. L \in List /\ L.first_h \in Nat \ {0} /\ L.huge \subseteq Nat
  BY FirstHuge DEF Trees
<1>2. M.huge = rest /\ M.first_h = IF after = {} THEN 0 ELSE Min(after)
  BY <1>1 DEF FirstHugeTaken, List
<1>3. after = rest /\ after \in SUBSET Nat /\ \A b \in after : b # 0
  BY <1>1 DEF HugeLow
<1> HIDE DEF after, rest
<1>4. ASSUME NEW b \in rest PROVE M.first_h # 0 /\ M.first_h <= b
  <2>1. Min(after) \in after /\ Min(after) <= b /\ M.first_h = Min(after)
    BY <1>2, <1>3, MinOf
  <2> QED BY <1>3, <2>1
<1> QED BY <1>2, <1>4 DEF HugeLow

\* Pages that are inserted upwards from low.
LEMMA HugeLowInserted ==
  ASSUME NEW L, Trees(L), HugeLow(L), NEW low \in Int, low # 0, IS_BLOCK_2MB_ALIGNED(low),
         NEW P \in SUBSET Int, \A b \in P : low <= b, NEW M, M = InsertPages(L, low, P)
  PROVE  HugeLow(M)
<1>1. L \in List /\ L.first_h \in Int /\ L.huge \in SUBSET Int
  BY DEF Trees, List
<1>2. /\ M.huge = L.huge \cup P
      /\ M.first_h = IF L.first_h = 0 \/ L.first_h > low + H - 1 THEN low ELSE L.first_h
  BY <1>1 DEF InsertPages, insert_in_huge_tree, List
<1>3. CASE L.first_h = 0
  BY <1>2, <1>3 DEF HugeLow
<1>4. CASE L.first_h # 0 /\ L.first_h > low + H - 1
  <2>1. M.first_h = low /\ low < L.first_h
    BY <1>1, <1>2, <1>4, HType
  <2>2. ASSUME NEW b \in L.huge PROVE low <= b
    BY <1>1, <2>1 DEF HugeLow
  <2> QED BY <1>2, <2>1, <2>2 DEF HugeLow
<1>5. CASE L.first_h # 0 /\ ~(L.first_h > low + H - 1)
  <2>1. M.first_h = L.first_h
    BY <1>2, <1>5
  <2>2. IS_BLOCK_2MB_ALIGNED(L.first_h)
    BY <1>5 DEF Trees
  <2>3. L.first_h <= low
    <3>1. low < L.first_h => low + H <= L.first_h
      BY <1>1, <2>2, AlignedApart
    <3> QED BY <1>1, <1>5, <3>1, HType
  <2>4. ASSUME NEW b \in P PROVE L.first_h <= b
    BY <1>1, <2>3
  <2> QED BY <1>2, <1>5, <2>1, <2>4 DEF HugeLow
<1> QED BY <1>3, <1>4, <1>5

------------------------------------------------------------------------------
(* A sorted walk and its first node.                                            *)

\* It does not depend on the counters and the huge pages.
LEMMA ReadyKept ==
  ASSUME NEW L, Ready(L), NEW M, M.una = L.una, M.first_u = L.first_u
  PROVE  Ready(M)
BY DEF Ready, Sorted

\* V is the walk U with node n behind its first g nodes.
WalkWith(U, g, n, V) ==
    /\ V \in Seq(RangeNode) /\ Len(V) = Len(U) + 1 /\ V[g + 1] = n
    /\ \A k \in 1..g : V[k] = U[k]
    /\ \A k \in g + 2..Len(U) + 1 : V[k] = U[k - 1]

\* The walk after a node was linked.
LEMMA NodeInserted ==
  ASSUME NEW U \in Seq(RangeNode), NEW g \in 0..Len(U), NEW n \in RangeNode,
         NEW V, V = InsertAt(U, g + 1, n)
  PROVE  WalkWith(U, g, n, V)
<1>1. V \in Seq(RangeNode) /\ Len(V) = Len(U) + 1
  BY InsertAtProperties
<1>2. V[g + 1] = n
  BY InsertAtProperties
<1>3. \A k \in 1..g : V[k] = U[k]
  BY InsertAtProperties
<1>4. \A k \in g + 2..Len(U) + 1 : V[k] = U[k - 1]
  BY InsertAtProperties
<1> QED BY <1>1, <1>2, <1>3, <1>4 DEF WalkWith

\* A node that is linked between its neighbours.
LEMMA ReadyLinked ==
  ASSUME NEW L, Trees(L), Ready(L), NEW g \in 0..Len(L.una), NEW n \in RangeNode, n.low <= n.high,
         g > 0 => L.una[g].high < n.low, g < Len(L.una) => n.high < L.una[g + 1].low,
         NEW M, M = WithNode(L, g, n, 1)
  PROVE  Ready(M)
<1> DEFINE U == L.una
           V == M.una
<1>1. L \in List /\ U \in Seq(RangeNode) /\ Len(U) \in Nat /\ DOMAIN U = 1..Len(U)
  BY WalkOf DEF Trees, List
<1>2. \A k \in 1..Len(U) : U[k].low \in Int /\ U[k].high \in Int /\ U[k].low <= U[k].high
  BY <1>1, NodeIn
<1>3. V = InsertAt(U, g + 1, n) /\ M.first_u = 1
  BY <1>1 DEF WithNode, InsertAtGap, List
<1>4. /\ V \in Seq(RangeNode) /\ Len(V) = Len(U) + 1 /\ V[g + 1] = n
      /\ \A k \in 1..g : V[k] = U[k]
      /\ \A k \in g + 2..Len(U) + 1 : V[k] = U[k - 1]
  <2>1. U \in Seq(RangeNode)
    BY <1>1
  <2>2. V = InsertAt(U, g + 1, n) /\ g \in 0..Len(U) /\ n \in RangeNode
    BY <1>3
  <2> HIDE DEF U, V
  <2>3. WalkWith(U, g, n, V)
    BY <2>1, <2>2, NodeInserted
  <2> QED BY <2>3 DEF WalkWith
<1>5. n.low \in Int /\ n.high \in Int
  BY DEF RangeNode
<1>6. \A j, k \in 1..Len(U) : j < k => U[j].high < U[k].low
  BY <1>1 DEF Ready, Sorted
<1> HIDE DEF U, V
<1>7. ASSUME NEW k \in 1..g PROVE U[k].high < n.low
  <2>1. CASE k = g
    BY <2>1, <1>1 DEF U
  <2>2. CASE k < g
    <3>1. g \in 1..Len(U) /\ k \in 1..Len(U) /\ g > 0
      BY <1>1, <2>2 DEF U
    <3>2. U[k].high < U[g].low /\ U[g].high < n.low
      BY <1>6, <2>2, <3>1 DEF U
    <3> QED BY <1>2, <1>5, <3>1, <3>2
  <2> QED BY <2>1, <2>2
<1>8. ASSUME NEW k \in g + 1..Len(U) PROVE n.high < U[k].low
  <2>1. CASE k = g + 1
    BY <2>1, <1>1 DEF U
  <2>2. CASE k > g + 1
    <3>1. g + 1 \in 1..Len(U) /\ k \in 1..Len(U) /\ g < Len(U)
      BY <1>1, <2>2 DEF U
    <3>2. U[g + 1].high < U[k].low /\ n.high < U[g + 1].low
      BY <1>6, <2>2, <3>1 DEF U
    <3> QED BY <1>2, <1>5, <3>1, <3>2
  <2> QED BY <2>1, <2>2
<1>9. g \in Nat /\ g <= Len(U)
  BY <1>1 DEF U
<1>10. ASSUME NEW j \in 1..Len(U) + 1, NEW k \in 1..Len(U) + 1, j < k
       PROVE  V[j].high < V[k].low
  <2>1. CASE k <= g
    <3>1. V[j] = U[j] /\ V[k] = U[k] /\ j \in 1..Len(U) /\ k \in 1..Len(U)
      BY <1>1, <1>4, <1>9, <1>10, <2>1
    <3> QED BY <1>6, <1>10, <3>1
  <2>2. CASE k = g + 1
    <3>1. V[j] = U[j] /\ V[k] = n /\ j \in 1..g
      BY <1>1, <1>4, <1>9, <1>10, <2>2
    <3> QED BY <1>7, <3>1
  <2>3. CASE j = g + 1
    <3>1. V[k] = U[k - 1] /\ V[j] = n /\ k - 1 \in g + 1..Len(U)
      BY <1>1, <1>4, <1>9, <1>10, <2>3
    <3> QED BY <1>8, <3>1
  <2>4. CASE j > g + 1
    <3>1. /\ V[j] = U[j - 1] /\ V[k] = U[k - 1] /\ j - 1 \in 1..Len(U) /\ k - 1 \in 1..Len(U)
          /\ j - 1 < k - 1
      BY <1>1, <1>4, <1>9, <1>10, <2>4
    <3> QED BY <1>6, <3>1
  <2>5. CASE j <= g /\ k > g + 1
    <3>1. /\ V[j] = U[j] /\ V[k] = U[k - 1] /\ j \in 1..Len(U) /\ k - 1 \in 1..Len(U)
          /\ j < k - 1
      BY <1>1, <1>4, <1>9, <1>10, <2>5
    <3> QED BY <1>6, <3>1
  <2> QED BY <1>1, <1>9, <2>1, <2>2, <2>3, <2>4, <2>5
<1>11. DOMAIN V = 1..Len(U) + 1 /\ Len(V) # 0
  BY <1>1, <1>4
<1>12. M.una = V /\ Len(V) # 0
  BY <1>11 DEF V
<1> QED BY <1>3, <1>4, <1>10, <1>11, <1>12 DEF Ready, Sorted

\* A node that is taken out.
LEMMA ReadyErased ==
  ASSUME NEW L, Trees(L), Ready(L), NEW i \in DOMAIN L.una, NEW f,
         f = IF Len(L.una) = 1 THEN 0 ELSE 1, NEW M, M = WithoutNode(L, i, f)
  PROVE  Ready(M)
<1> DEFINE U == L.una
           V == RemoveAt(U, i)
<1>1. /\ L \in List /\ U \in Seq(RangeNode) /\ Len(U) \in Nat /\ DOMAIN U = 1..Len(U)
      /\ i \in 1..Len(U)
  BY WalkOf DEF Trees, List
<1>2. M.una = V /\ M.first_u = f
  BY <1>1 DEF WithoutNode, rb_erase, List
<1>3. /\ V \in Seq(RangeNode) /\ Len(V) = Len(U) - 1
      /\ \A k \in 1..Len(U) - 1 : V[k] = IF k < i THEN U[k] ELSE U[k + 1]
  BY <1>1, RemoveAtProperties
<1>4. \A j, k \in 1..Len(U) : j < k => U[j].high < U[k].low
  BY <1>1 DEF Ready, Sorted
<1>5. f = IF Len(U) = 1 THEN 0 ELSE 1
  OBVIOUS
<1> HIDE DEF U, V
<1>6. ASSUME NEW j \in 1..Len(U) - 1, NEW k \in 1..Len(U) - 1, j < k
      PROVE  V[j].high < V[k].low
  <2> DEFINE a == IF j < i THEN j ELSE j + 1
             z == IF k < i THEN k ELSE k + 1
  <2>1. a \in 1..Len(U) /\ z \in 1..Len(U) /\ a < z
    BY <1>1, <1>6
  <2>2. V[j] = U[a] /\ V[k] = U[z]
    BY <1>3
  <2> HIDE DEF a, z
  <2> QED BY <1>4, <2>1, <2>2
<1>7. DOMAIN V = 1..Len(U) - 1
  BY <1>1, <1>3
<1>8. f = IF Len(V) = 0 THEN 0 ELSE 1
  BY <1>1, <1>3, <1>5
<1> QED BY <1>2, <1>6, <1>7, <1>8 DEF Ready, Sorted

\* A node whose range changes between its neighbours.
LEMMA ReadySet ==
  ASSUME NEW L, Trees(L), Ready(L), NEW i \in DOMAIN L.una, NEW n \in RangeNode,
         \A j \in DOMAIN L.una : j < i => L.una[j].high < n.low,
         \A k \in DOMAIN L.una : k > i => n.high < L.una[k].low,
         NEW M, M = WithRange(L, i, n)
  PROVE  Ready(M)
<1> DEFINE U == L.una
           V == [U EXCEPT ![i] = n]
<1>1. /\ L \in List /\ U \in Seq(RangeNode) /\ Len(U) \in Nat /\ DOMAIN U = 1..Len(U)
      /\ i \in 1..Len(U)
  BY WalkOf DEF Trees, List
<1>2. M.una = V /\ M.first_u = L.first_u
  BY <1>1 DEF WithRange, List
<1>3. /\ V \in Seq(RangeNode) /\ Len(V) = Len(U) /\ V[i] = n
      /\ \A k \in 1..Len(U) : k # i => V[k] = U[k]
  BY <1>1, ExceptSeq
<1>4. \A j, k \in 1..Len(U) : j < k => U[j].high < U[k].low
  BY <1>1 DEF Ready, Sorted
<1>5. /\ \A j \in 1..Len(U) : j < i => U[j].high < n.low
      /\ \A k \in 1..Len(U) : k > i => n.high < U[k].low
  BY <1>1
<1>6. L.first_u = IF Len(U) = 0 THEN 0 ELSE 1
  BY DEF Ready
<1> HIDE DEF U, V
<1>7. ASSUME NEW j \in 1..Len(U), NEW k \in 1..Len(U), j < k PROVE V[j].high < V[k].low
  <2>1. CASE j = i
    BY <1>1, <1>3, <1>5, <1>7, <2>1
  <2>2. CASE k = i
    BY <1>1, <1>3, <1>5, <1>7, <2>2
  <2>3. CASE j # i /\ k # i
    BY <1>3, <1>4, <1>7, <2>3
  <2> QED BY <2>1, <2>2, <2>3
<1>8. DOMAIN V = 1..Len(U)
  BY <1>1, <1>3
<1> QED BY <1>2, <1>3, <1>6, <1>7, <1>8 DEF Ready, Sorted

\* Two neighbours that become one.
LEMMA ReadyMerged ==
  ASSUME NEW L, Trees(L), Ready(L), NEW g \in DOMAIN L.una, g + 1 \in DOMAIN L.una,
         NEW n \in RangeNode, n.low = L.una[g].low, n.high = L.una[g + 1].high,
         NEW M, M = WithMerged(L, g, n)
  PROVE  Ready(M)
<1> DEFINE U == L.una
           V == [U EXCEPT ![g] = n]
           W == RemoveAt(V, g + 1)
<1>1. /\ L \in List /\ U \in Seq(RangeNode) /\ Len(U) \in Nat /\ DOMAIN U = 1..Len(U)
      /\ g \in 1..Len(U) - 1
  BY WalkOf DEF Trees, List
<1>2. L.first_u = 1
  BY <1>1 DEF Ready
<1>3. M.una = W /\ M.first_u = 1
  BY <1>1, <1>2 DEF WithMerged, WithRange, rb_erase, List
<1>4. /\ V \in Seq(RangeNode) /\ Len(V) = Len(U) /\ V[g] = n
      /\ \A k \in 1..Len(U) : k # g => V[k] = U[k]
  BY <1>1, ExceptSeq
<1> HIDE DEF V
<1>5. /\ W \in Seq(RangeNode) /\ Len(W) = Len(V) - 1
      /\ \A k \in 1..Len(V) - 1 : W[k] = IF k < g + 1 THEN V[k] ELSE V[k + 1]
  <2>1. V \in Seq(RangeNode) /\ g + 1 \in 1..Len(V)
    BY <1>1, <1>4
  <2>2. W \in Seq(RangeNode) /\ Len(W) = Len(V) - 1
    BY <2>1, RemoveAtProperties
  <2>3. \A k \in 1..Len(V) - 1 : W[k] = IF k < g + 1 THEN V[k] ELSE V[k + 1]
    BY <2>1, RemoveAtProperties
  <2> QED BY <2>2, <2>3
<1>6. \A j, k \in 1..Len(U) : j < k => U[j].high < U[k].low
  BY <1>1 DEF Ready, Sorted
<1>7. n.low = U[g].low /\ n.high = U[g + 1].high
  OBVIOUS
<1> HIDE DEF U, W
<1>8. ASSUME NEW j \in 1..Len(U) - 1, NEW k \in 1..Len(U) - 1, j < k
      PROVE  W[j].high < W[k].low
  <2> DEFINE a == IF j < g THEN j ELSE j + 1
             z == IF k <= g THEN k ELSE k + 1
  <2>1. a \in 1..Len(U) /\ z \in 1..Len(U) /\ a < z
    BY <1>1, <1>8
  <2>2. W[j].high = U[a].high
    <3>1. CASE j < g
      BY <1>1, <1>4, <1>5, <3>1
    <3>2. CASE j = g
      BY <1>1, <1>4, <1>5, <1>7, <3>2
    <3>3. CASE j > g
      <4>1. j \in 1..Len(V) - 1 /\ ~(j < g + 1) /\ j + 1 \in 1..Len(U) /\ j + 1 # g /\ ~(j < g)
        BY <1>1, <1>4, <3>3
      <4>2. W[j] = V[j + 1] /\ V[j + 1] = U[j + 1]
        BY <1>4, <1>5, <4>1
      <4> QED BY <4>1, <4>2
    <3> QED BY <1>1, <3>1, <3>2, <3>3
  <2>3. W[k].low = U[z].low
    <3>1. CASE k < g
      <4>1. k \in 1..Len(V) - 1 /\ k < g + 1 /\ k \in 1..Len(U) /\ k # g /\ k <= g
        BY <1>1, <1>4, <3>1
      <4>2. W[k] = V[k] /\ V[k] = U[k]
        BY <1>4, <1>5, <4>1
      <4> QED BY <4>1, <4>2
    <3>2. CASE k = g
      BY <1>1, <1>4, <1>5, <1>7, <3>2
    <3>3. CASE k > g
      BY <1>1, <1>4, <1>5, <3>3
    <3> QED BY <1>1, <3>1, <3>2, <3>3
  <2> HIDE DEF a, z
  <2> QED BY <1>6, <2>1, <2>2, <2>3
<1>9. DOMAIN W = 1..Len(U) - 1 /\ Len(W) # 0
  BY <1>1, <1>4, <1>5
<1> QED BY <1>3, <1>8, <1>9 DEF Ready, Sorted

\* The first node leaves, or another one.
LEMMA ReadyErasedAdvancing ==
  ASSUME NEW L, Trees(L), Ready(L), NEW i \in DOMAIN L.una, NEW M, M = EraseAdvancing(L, i)
  PROVE  Ready(M)
<1> DEFINE f == IF Len(L.una) = 1 THEN 0 ELSE 1
<1>1. L \in List /\ Len(L.una) \in Nat /\ i \in 1..Len(L.una) /\ L.first_u = 1
  BY WalkOf DEF Trees, Ready
<1>2. M = WithoutNode(L, i, f)
  <2> DEFINE h == IF L.first_u = i THEN (IF rb_next(L.una, i) = 0 THEN 0 ELSE i)
                  ELSE IF L.first_u > i THEN L.first_u - 1 ELSE L.first_u
  <2>1. M = WithoutNode(L, i, h)
    BY <1>1 DEF WithoutNode, EraseAdvancing, Then, rb_erase, List
  <2>2. h = f
    <3>1. CASE i = 1
      <4>1. rb_next(L.una, 1) = IF 1 < Len(L.una) THEN 1 + 1 ELSE 0
        BY DEF rb_next
      <4>2. (1 < Len(L.una)) <=> (Len(L.una) # 1)
        <5>1. PICK m \in Nat : m = Len(L.una)
          BY <1>1
        <5>2. m >= 1
          BY <1>1, <5>1
        <5>3. (1 < m) <=> (m # 1)
          BY <5>2
        <5> QED BY <5>1, <5>3
      <4>3. (rb_next(L.una, 1) = 0) <=> (Len(L.una) = 1)
        BY <4>1, <4>2
      <4> QED BY <1>1, <3>1, <4>3
    <3>2. CASE i # 1
      <4>1. ~(1 > i) /\ Len(L.una) # 1
        BY <1>1, <3>2
      <4> QED BY <1>1, <3>2, <4>1
    <3> QED BY <3>1, <3>2
  <2> QED BY <2>1, <2>2
<1> HIDE DEF f
<1>3. f = IF Len(L.una) = 1 THEN 0 ELSE 1
  BY DEF f
<1> QED BY <1>2, <1>3, ReadyErased

------------------------------------------------------------------------------
(* Allocation and the first nodes.                                              *)

\* The counter of a list is not looked at.
LEMMA GrantedReady ==
  ASSUME NEW M, M \in List, HugeLow(M), NEW b, NEW n \in Int, NEW r, r = Granted(M, b, n)
  PROVE  r.num = n /\ HugeLow(r.list) /\ (Ready(M) => Ready(r.list))
<1> DEFINE N == [M EXCEPT !.num_free = @ - n]
<1>1. r.list = N /\ r.num = n
  BY DEF Granted
<1>2. N.una = M.una /\ N.first_u = M.first_u /\ SameHuge(M, N)
  BY DEF List, SameHuge
<1> HIDE DEF N
<1>3. HugeLow(N)
  BY <1>2, HugeLowKept
<1>4. Ready(M) => Ready(N)
  BY <1>2, ReadyKept
<1> QED BY <1>1, <1>3, <1>4

\* The pages that enter a list without small ranges make its first node.
LEMMA BrokenReady ==
  ASSUME NEW L, Trees(L), HugeLow(L), L.first_u = 0, L.first_h # 0, NEW M, M = BreakHugePage(L)
  PROVE  HugeLow(M) /\ (Ready(L) => Ready(M))
<1> DEFINE b == L.first_h
           n == Node(b, b + H - 1)
           T == FirstHugeTaken(L)
<1>1. PICK g \in 0..Len(L.una) : M = WithNode(T, g, n, g + 1)
  BY BrokenLinked
<1>2. Trees(T) /\ SameWalk(L, T) /\ T.first_u = L.first_u /\ HugeLow(T)
  BY FirstTaken, HugeLowTaken
<1>3. n \in RangeNode /\ n.low <= n.high
  BY FirstHuge, HType DEF Node, RangeNode
<1>4. T \in List /\ T.una = L.una /\ Len(L.una) \in Nat
  BY <1>2, WalkOf DEF Trees, SameWalk
<1> HIDE DEF b, n, T
<1>5. SameHuge(T, M)
  BY <1>1, <1>4 DEF WithNode, InsertAtGap, List, SameHuge
<1>6. HugeLow(M)
  BY <1>2, <1>5, HugeLowKept
<1>7. ASSUME Ready(L) PROVE Ready(M)
  <2>1. Len(L.una) = 0 /\ g = 0
    <3>1. Len(L.una) = 0
      BY <1>4, <1>7 DEF Ready
    <3> QED BY <3>1
  <2>2. Ready(T)
    BY <1>2, <1>4, <1>7, ReadyKept
  <2>3. /\ 0 \in 0..Len(T.una) /\ (0 > 0 => T.una[0].high < n.low)
        /\ (0 < Len(T.una) => n.high < T.una[0 + 1].low)
    BY <1>4, <2>1
  <2>4. M = WithNode(T, 0, n, 1)
    BY <1>1, <2>1
  <2> QED BY <1>2, <1>3, <2>2, <2>3, <2>4, ReadyLinked
<1> QED BY <1>6, <1>7

\* A list without its first nodes has nothing.
LEMMA ReadyEmpty ==
  ASSUME NEW L, Trees(L), HugeLow(L), Ready(L), L.first_u = 0, L.first_h = 0
  PROVE  FreeBlocks(L) = {}
<1>1. Len(L.una) \in Nat /\ DOMAIN L.una = 1..Len(L.una)
  BY WalkOf DEF Trees
<1>2. Len(L.una) = 0
  BY <1>1 DEF Ready
<1>3. DOMAIN L.una = {}
  BY <1>1, <1>2
<1>4. L.huge = {}
  BY DEF HugeLow
<1> QED BY <1>3, <1>4 DEF FreeBlocks, UnaBlocks, HugeBlocks

\* What pmfs_alloc_blocks_in_free_list leaves of the first nodes; 4K blocks are
\* served from every list that has one in sight.
AllocKeeps(L, large, r) ==
    /\ HugeLow(r.list)
    /\ Ready(L) => Ready(r.list)
    /\ Ready(L) /\ ~large /\ FreeBlocks(L) # {} /\ L.num_free # 0 => r.num > 0

\* Every way out of pmfs_alloc_blocks_in_free_list.
LEMMA AllocReady ==
  ASSUME NEW L, Trees(L), HugeLow(L), L.first_u # Dangling, NEW large \in BOOLEAN,
         NEW num \in Nat \ {0}, NEW r, r = pmfs_alloc_blocks_in_free_list(L, large, num)
  PROVE  AllocKeeps(L, large, r)
<1> DEFINE B == IF L.first_u = 0 THEN BreakHugePage(L) ELSE L
           U == B.una
           size(i) == U[i].high - U[i].low + 1
           fit == {i \in B.first_u..Len(U) : ~(large /\ num > size(i))}
           i == Min(fit)
           part == [B EXCEPT !.una[i].low = @ + num]
<1>1. r = IF (L.first_u = 0 /\ L.first_h = 0) \/ L.num_free = 0 THEN Refused(L)
          ELSE IF num = H /\ L.first_h # 0 THEN pmfs_alloc_superpage(L)
          ELSE IF fit = {} THEN Refused(B)
          ELSE IF num >= size(i) THEN Granted(EraseAdvancing(B, i), U[i].low, size(i))
          ELSE Granted(part, U[i].low, num)
  BY DEF pmfs_alloc_blocks_in_free_list, Then
<1>2. CASE (L.first_u = 0 /\ L.first_h = 0) \/ L.num_free = 0
  <2>1. r = Refused(L)
    BY <1>1, <1>2
  <2>2. r.list = L
    BY <2>1 DEF Refused
  <2>3. Ready(L) /\ L.num_free # 0 => FreeBlocks(L) = {}
    BY <1>2, ReadyEmpty
  <2> QED BY <2>2, <2>3 DEF AllocKeeps
<1> SUFFICES ASSUME ~((L.first_u = 0 /\ L.first_h = 0) \/ L.num_free = 0)
             PROVE  AllocKeeps(L, large, r)
  BY <1>2
<1>3. CASE num = H /\ L.first_h # 0
  <2> DEFINE T == FirstHugeTaken(L)
  <2>1. r = Granted(T, L.first_h, H) /\ H \in Int /\ H > 0
    <3>1. r = Granted(T, L.first_h, H)
      BY <1>1, <1>3 DEF pmfs_alloc_superpage
    <3> QED BY <3>1, HType
  <2>2. Trees(T) /\ SameWalk(L, T) /\ T.first_u = L.first_u
    BY <1>3, FirstTaken
  <2>3. HugeLow(T)
    BY <1>3, HugeLowTaken
  <2> HIDE DEF T
  <2>4. T \in List /\ (Ready(L) => Ready(T))
    BY <2>2, ReadyKept DEF Trees, SameWalk
  <2>5. r.num = H /\ HugeLow(r.list) /\ (Ready(T) => Ready(r.list))
    BY <2>1, <2>3, <2>4, GrantedReady
  <2> QED BY <2>1, <2>4, <2>5 DEF AllocKeeps
<1> SUFFICES ASSUME ~(num = H /\ L.first_h # 0) PROVE AllocKeeps(L, large, r)
  BY <1>3
<1>4. /\ Trees(B) /\ HugeLow(B) /\ (Ready(L) => Ready(B)) /\ B.first_u \in Nat \ {0}
      /\ FreeBlocks(B) = FreeBlocks(L)
  <2>1. CASE L.first_u = 0
    <3>1. L.first_h # 0 /\ B = BreakHugePage(L)
      BY <2>1
    <3> HIDE DEF B
    <3>2. Trees(B) /\ FreeBlocks(B) = FreeBlocks(L) /\ B.first_u \in 1..Len(B.una)
      BY <3>1, HugePageBroken
    <3>3. HugeLow(B) /\ (Ready(L) => Ready(B))
      BY <2>1, <3>1, BrokenReady
    <3> QED BY <3>2, <3>3
  <2>2. CASE L.first_u # 0
    BY <2>2 DEF Trees
  <2> QED BY <2>1, <2>2
<1>5. B \in List /\ Len(U) \in Nat /\ DOMAIN U = 1..Len(U)
  BY <1>4, WalkOf DEF Trees
<1> HIDE DEF B
<1>6. CASE fit = {}
  <2>1. r.list = B
    <3>1. r = Refused(B)
      BY <1>1, <1>6
    <3> QED BY <3>1 DEF Refused
  <2>2. ~(Ready(L) /\ ~large)
    <3>1. ASSUME Ready(L), ~large PROVE FALSE
      <4>1. B.first_u = 1 /\ Len(U) # 0
        BY <1>4, <3>1 DEF Ready
      <4>2. 1 \in B.first_u..Len(U)
        BY <1>5, <4>1
      <4> QED BY <1>6, <3>1, <4>2
    <3> QED BY <3>1
  <2> QED BY <1>4, <2>1, <2>2 DEF AllocKeeps
<1>7. CASE fit # {}
  <2>1. i \in fit
    <3>1. fit \in SUBSET Nat
      BY <1>4, <1>5
    <3> QED BY <1>7, <3>1, MinOf
  <2>2. i \in DOMAIN U
    BY <1>4, <1>5, <2>1
  <2>3. r = IF num >= size(i) THEN Granted(EraseAdvancing(B, i), U[i].low, size(i))
            ELSE Granted(part, U[i].low, num)
    BY <1>1, <1>7
  <2> HIDE DEF fit, i
  <2>4. /\ U[i].low \in Int /\ U[i].high \in Int /\ U[i].low <= U[i].high /\ U[i] \in RangeNode
    BY <1>4, <2>2, NodeIn
  <2>5. size(i) \in Nat \ {0}
    BY <2>4
  <2>6. CASE num >= size(i)
    <3> DEFINE E == EraseAdvancing(B, i)
               s == size(i)
    <3>1. r = Granted(E, U[i].low, s) /\ s \in Int /\ s > 0
      BY <2>3, <2>5, <2>6
    <3>2. Trees(E) /\ SameHuge(B, E)
      BY <1>4, <2>2, ErasedAdvancing
    <3>3. Ready(B) => Ready(E)
      BY <1>4, <2>2, ReadyErasedAdvancing
    <3> HIDE DEF E, s
    <3>4. E \in List /\ HugeLow(E)
      BY <1>4, <3>2, HugeLowKept DEF Trees
    <3>5. r.num = s /\ HugeLow(r.list) /\ (Ready(E) => Ready(r.list))
      BY <3>1, <3>4, GrantedReady
    <3> QED BY <1>4, <3>1, <3>3, <3>5 DEF AllocKeeps
  <2>7. CASE ~(num >= size(i))
    <3> DEFINE n == [U[i] EXCEPT !.low = U[i].low + num]
    <3>1. r = Granted(part, U[i].low, num) /\ num \in Int /\ num > 0
      BY <2>3, <2>7
    <3>2. n \in RangeNode /\ n.low = U[i].low + num /\ n.high = U[i].high
      BY <2>4 DEF RangeNode
    <3>3. part = WithRange(B, i, n) /\ SameHuge(B, part)
      BY <1>5, <2>2, <2>4 DEF WithRange, List, SameHuge
    <3>4. part \in List
      <4>1. U \in Seq(RangeNode) /\ part.una = [U EXCEPT ![i] = n]
        BY <1>5, <2>2, <2>4 DEF List
      <4>2. i \in 1..Len(U)
        BY <1>5, <2>2
      <4>3. part.una \in Seq(RangeNode)
        BY <3>2, <4>1, <4>2, ExceptSeq
      <4> QED BY <1>5, <4>3 DEF List
    <3> HIDE DEF part, n
    <3>5. HugeLow(part)
      BY <1>4, <3>3, HugeLowKept
    <3>6. ASSUME Ready(B) PROVE Ready(part)
      <4>1. ASSUME NEW j \in DOMAIN B.una, j < i PROVE B.una[j].high < n.low
        <5>1. B.una[j].high < B.una[i].low /\ B.una[j].high \in Int
          BY <1>4, <2>2, <3>6, <4>1, NodeIn DEF Ready, Sorted
        <5> QED BY <2>4, <3>2, <5>1
      <4>2. ASSUME NEW k \in DOMAIN B.una, k > i PROVE n.high < B.una[k].low
        <5>1. i < k
          BY <1>5, <2>2, <4>2
        <5> QED BY <2>2, <3>2, <3>6, <5>1 DEF Ready, Sorted
      <4> QED BY <1>4, <2>2, <3>2, <3>3, <3>6, <4>1, <4>2, ReadySet
    <3>7. r.num = num /\ HugeLow(r.list) /\ (Ready(part) => Ready(r.list))
      BY <3>1, <3>4, <3>5, GrantedReady
    <3> QED BY <1>4, <3>1, <3>6, <3>7 DEF AllocKeeps
  <2> QED BY <2>6, <2>7
<1> QED BY <1>6, <1>7

------------------------------------------------------------------------------
(* Freeing and the first nodes.                                                 *)

\* A walk in order never comes out of the split of a node: its upper rest is
\* linked in front of all nodes (check_and_insert_huge_aligned).
LEMMA KeptReady ==
  ASSUME NEW L, Trees(L), Ready(L), NEW i \in DOMAIN L.una, HasPages(L.una[i]),
         NEW K, K = Kept(L, i), InOrder(K)
  PROVE  Ready(K)
<1>1. PICK n : n = L.una[i]
  OBVIOUS
<1>2. PICK low, high : low = PagesLow(n) /\ high = PagesHigh(n)
  OBVIOUS
<1>3. PICK nl, nh : nl = RestBelow(n) /\ nh = RestAbove(n)
  OBVIOUS
<1>4. /\ n.low \in Int /\ n.high \in Int /\ n.low <= n.high /\ n \in RangeNode
      /\ L \in List /\ Len(L.una) \in Nat /\ DOMAIN L.una = 1..Len(L.una)
  BY <1>1, NodeIn, WalkOf DEF Trees
<1>5. low \in Int /\ high \in Int /\ n.low <= low /\ high <= n.high /\ low < high
  <2>1. PICK x, y : x = n.low /\ y = n.high
    OBVIOUS
  <2>2. /\ low = IF IS_BLOCK_2MB_ALIGNED(x) THEN x ELSE x + H - (x % H)
        /\ high = y - ((y + 1) % H) /\ x \in Int /\ y \in Int /\ x <= y
    BY <1>2, <1>4, <2>1 DEF PagesLow, PagesHigh
  <2>3. low \in Int /\ high \in Int /\ x <= low /\ high <= y
    BY <2>2, PagesOf
  <2> QED BY <1>1, <1>2, <2>1, <2>3 DEF HasPages
<1>6. nl \in RangeNode /\ nl.low = n.low /\ nl.high = low - 1
  BY <1>2, <1>3, <1>4, <1>5 DEF RangeNode, RestBelow, Node
<1>7. nh \in RangeNode /\ nh.low = high + 1 /\ nh.high = n.high
  BY <1>2, <1>3, <1>4, <1>5 DEF RangeNode, RestAbove, Node
<1>8. ASSUME NEW j \in DOMAIN L.una, j < i PROVE L.una[j].high < n.low /\ L.una[j].high \in Int
  BY <1>1, <1>8, NodeIn DEF Ready, Sorted
<1>9. ASSUME NEW k \in DOMAIN L.una, k > i PROVE n.high < L.una[k].low /\ L.una[k].low \in Int
  <2>1. i < k
    BY <1>4, <1>9
  <2> QED BY <1>1, <2>1, NodeIn DEF Ready, Sorted
<1>10. PICK below : below = WithRange(L, i, nl)
  OBVIOUS
<1>11. CASE low # n.low /\ high # n.high
  <2>1. PICK f : K = WithNode(below, 0, nh, f)
    BY <1>1, <1>2, <1>3, <1>10, <1>11 DEF Kept
  <2>2. below.una = [L.una EXCEPT ![i] = nl] /\ below \in List
    <3>1. /\ L.una \in Seq(RangeNode) /\ i \in 1..Len(L.una)
          /\ below = [L EXCEPT !.una = [L.una EXCEPT ![i] = nl]]
      BY <1>4, <1>10 DEF List, WithRange
    <3>2. [L.una EXCEPT ![i] = nl] \in Seq(RangeNode)
      BY <1>6, <3>1, ExceptSeq
    <3>3. PICK V : V = [L.una EXCEPT ![i] = nl]
      OBVIOUS
    <3>4. V \in Seq(RangeNode) /\ below = [L EXCEPT !.una = V]
      BY <3>1, <3>2, <3>3
    <3>5. below.una = V /\ below \in List
      BY <1>4, <3>4 DEF List
    <3> QED BY <3>3, <3>5
  <2>3. K.una = InsertAt(below.una, 0 + 1, nh)
    BY <2>1, <2>2 DEF WithNode, InsertAtGap, List
  <2>4. PICK U, V : U = below.una /\ V = K.una
    OBVIOUS
  <2>5. U \in Seq(RangeNode) /\ Len(U) = Len(L.una) /\ U[i] = nl /\ (1 # i => U[1] = L.una[1])
    <3>1. L.una \in Seq(RangeNode) /\ i \in 1..Len(L.una) /\ U = [L.una EXCEPT ![i] = nl]
      BY <1>4, <2>2, <2>4 DEF List
    <3> QED BY <1>6, <3>1, ExceptSeq
  <2>6. WalkWith(U, 0, nh, V)
    <3>1. 0 \in 0..Len(U) /\ V = InsertAt(U, 0 + 1, nh)
      BY <1>4, <2>3, <2>4, <2>5
    <3> QED BY <1>7, <2>5, <3>1, NodeInserted
  <2>7. V[1] = nh /\ V[2] = U[1] /\ Len(V) = Len(L.una) + 1
    <3>1. 0 + 1 = 1 /\ 2 \in 0 + 2..Len(U) + 1 /\ 2 - 1 = 1
      BY <1>4, <2>5
    <3> QED BY <2>5, <2>6, <3>1 DEF WalkWith
  <2>8. V[1].high < V[2].low
    <3>1. 1 \in 1..Len(V) - 1 /\ 1 + 1 = 2
      BY <1>4, <2>7
    <3> QED BY <2>4, <3>1 DEF InOrder
  <2>9. U[1].low <= n.high
    <3>1. CASE i = 1
      BY <1>4, <1>6, <2>5, <3>1
    <3>2. CASE i # 1
      <4>1. 1 \in DOMAIN L.una /\ 1 < i /\ U[1] = L.una[1]
        BY <1>4, <2>5, <3>2
      <4>2. L.una[1].low <= L.una[1].high /\ L.una[1].low \in Int
        BY <4>1, NodeIn
      <4> QED BY <1>4, <1>8, <4>1, <4>2
    <3> QED BY <3>1, <3>2
  <2>10. U[1].low \in Int
    <3>1. 1 \in 1..Len(U)
      BY <1>4, <2>5
    <3>2. U[1] \in RangeNode
      BY <2>5, <3>1, ElementOfSeq
    <3> QED BY <3>2 DEF RangeNode
  <2> QED BY <1>4, <1>7, <2>7, <2>8, <2>9, <2>10
<1>12. CASE low # n.low /\ high = n.high
  <2>1. K = WithRange(L, i, nl)
    BY <1>1, <1>2, <1>3, <1>12 DEF Kept
  <2>2. /\ \A j \in DOMAIN L.una : j < i => L.una[j].high < nl.low
        /\ \A k \in DOMAIN L.una : k > i => nl.high < L.una[k].low
    BY <1>4, <1>5, <1>6, <1>8, <1>9
  <2> QED BY <1>6, <2>1, <2>2, ReadySet
<1>13. CASE low = n.low /\ high # n.high
  <2>1. K = WithRange(L, i, nh)
    BY <1>1, <1>2, <1>3, <1>13 DEF Kept
  <2>2. /\ \A j \in DOMAIN L.una : j < i => L.una[j].high < nh.low
        /\ \A k \in DOMAIN L.una : k > i => nh.high < L.una[k].low
    BY <1>4, <1>5, <1>7, <1>8, <1>9
  <2> QED BY <1>7, <2>1, <2>2, ReadySet
<1>14. CASE low = n.low /\ high = n.high
  <2>1. K = EraseAdvancing(L, i)
    BY <1>1, <1>2, <1>3, <1>14 DEF Kept
  <2> QED BY <2>1, ReadyErasedAdvancing
<1> QED BY <1>11, <1>12, <1>13, <1>14

\* The huge pages of a grown node and the first nodes.
LEMMA HugeAlignedReady ==
  ASSUME NEW L, Trees(L), HugeLow(L), NEW i \in DOMAIN L.una,
         NEW M, M = check_and_insert_huge_aligned(L, i)
  PROVE  HugeLow(M) /\ (Ready(L) /\ InOrder(M) => Ready(M))
<1>1. PICK n : n = L.una[i]
  OBVIOUS
<1>2. PICK low, high : low = PagesLow(n) /\ high = PagesHigh(n)
  OBVIOUS
<1>3. PICK pages : pages = PagesIn(n)
  OBVIOUS
<1>4. PICK K : K = Kept(L, i)
  OBVIOUS
<1>5. M = IF HasPages(n) THEN InsertPages(K, low, pages) ELSE L
  <2>1. L \in List
    BY DEF Trees
  <2> QED BY <1>1, <1>2, <1>3, <1>4, <2>1, HugeAlignedIs
<1>6. CASE ~HasPages(n)
  BY <1>5, <1>6
<1>7. CASE HasPages(n)
  <2>1. n.low \in Int /\ n.high \in Int /\ n.low <= n.high /\ Blocks(n) \subseteq L.start..L.end
    BY <1>1, NodeIn
  <2>2. PICK x, y : x = n.low /\ y = n.high
    OBVIOUS
  <2>3. /\ low = IF IS_BLOCK_2MB_ALIGNED(x) THEN x ELSE x + H - (x % H)
        /\ high = y - ((y + 1) % H) /\ x \in Int /\ y \in Int /\ x <= y
    BY <1>2, <2>1, <2>2 DEF PagesLow, PagesHigh
  <2>4. low \in Int /\ high \in Int /\ x <= low /\ high <= y /\ IS_BLOCK_2MB_ALIGNED(low)
    BY <2>3, PagesOf
  <2>5. low < high
    BY <1>2, <1>7, <2>4 DEF HasPages
  <2>6. low # 0
    <3>1. low \in Blocks(n) /\ L.start \in Nat \ {0} /\ L.end \in Int
      BY <2>1, <2>2, <2>3, <2>4, <2>5 DEF Blocks, Trees, List
    <3> QED BY <2>1, <3>1
  <2>7. pages \in SUBSET Int /\ \A b \in pages : low <= b
    BY <1>2, <1>3, <2>4 DEF PagesIn
  <2>8. Trees(K) /\ SameHuge(L, K)
    BY <1>1, <1>2, <1>4, <1>7, KeptTrees
  <2>9. HugeLow(K)
    BY <2>8, HugeLowKept
  <2>10. M = InsertPages(K, low, pages)
    BY <1>5, <1>7
  <2>11. HugeLow(M)
    BY <2>4, <2>6, <2>7, <2>8, <2>9, <2>10, HugeLowInserted
  <2>12. M.una = K.una /\ M.first_u = K.first_u
    BY <2>8, <2>10 DEF Trees, List, InsertPages, insert_in_huge_tree
  <2>13. ASSUME Ready(L), InOrder(M) PROVE Ready(M)
    <3>1. InOrder(K)
      BY <2>12, <2>13 DEF InOrder
    <3>2. Ready(K)
      BY <1>1, <1>4, <1>7, <2>13, <3>1, KeptReady
    <3> QED BY <2>12, <3>2, ReadyKept
  <2> QED BY <2>11, <2>13
<1> QED BY <1>6, <1>7

\* g is a place in a sorted walk where the run low..high fits.
Fits(L, low, high, g) ==
    /\ g \in 0..Len(L.una)
    /\ g > 0 => L.una[g].high < low
    /\ g < Len(L.una) => high < L.una[g + 1].low

\* In a sorted walk a run that fits is behind all nodes up to g and before the rest.
LEMMA FitsApart ==
  ASSUME NEW L, Trees(L), Ready(L), NEW low \in Int, NEW high \in Int,
         NEW g, Fits(L, low, high, g)
  PROVE  /\ \A j \in DOMAIN L.una : j <= g => L.una[j].high < low
         /\ \A k \in DOMAIN L.una : k > g => high < L.una[k].low
<1>1. L \in List /\ Len(L.una) \in Nat /\ DOMAIN L.una = 1..Len(L.una) /\ g \in 0..Len(L.una)
  BY WalkOf DEF Trees, Fits
<1>2. ASSUME NEW j \in DOMAIN L.una, j <= g PROVE L.una[j].high < low
  <2>1. g \in DOMAIN L.una /\ L.una[g].high < low
    BY <1>1, <1>2 DEF Fits
  <2>2. CASE j = g
    BY <2>1, <2>2
  <2>3. CASE j # g
    <3>1. j < g
      BY <1>1, <1>2, <2>3
    <3>2. L.una[j].high < L.una[g].low
      BY <2>1, <3>1 DEF Ready, Sorted
    <3>3. /\ L.una[j].high \in Int /\ L.una[g].low \in Int /\ L.una[g].high \in Int
          /\ L.una[g].low <= L.una[g].high
      BY <2>1, NodeIn
    <3> QED BY <2>1, <3>2, <3>3
  <2> QED BY <2>2, <2>3
<1>3. ASSUME NEW k \in DOMAIN L.una, k > g PROVE high < L.una[k].low
  <2>1. g + 1 \in DOMAIN L.una /\ high < L.una[g + 1].low
    BY <1>1, <1>3 DEF Fits
  <2>2. CASE k = g + 1
    BY <2>1, <2>2
  <2>3. CASE k # g + 1
    <3>1. g + 1 < k
      BY <1>1, <1>3, <2>3
    <3>2. L.una[g + 1].high < L.una[k].low
      BY <2>1, <3>1 DEF Ready, Sorted
    <3>3. /\ L.una[k].low \in Int /\ L.una[g + 1].low \in Int /\ L.una[g + 1].high \in Int
          /\ L.una[g + 1].low <= L.una[g + 1].high
      BY <2>1, NodeIn
    <3> QED BY <2>1, <3>2, <3>3
  <2> QED BY <2>2, <2>3
<1> QED BY <1>2, <1>3

\* A node that grows into the gap.
LEMMA GrownReady ==
  ASSUME NEW L, Trees(L), Ready(L), NEW low \in Int, NEW high \in Int,
         NEW g, Fits(L, low, high, g), MeetsLeft(L, low, g) \/ MeetsRight(L, high, g),
         NEW X, X = Grown(L, low, high, g)
  PROVE  Ready(X)
<1>1. PICK U : U = L.una
  OBVIOUS
<1>2. /\ L \in List /\ Len(U) \in Nat /\ DOMAIN U = 1..Len(U) /\ U \in Seq(RangeNode)
      /\ g \in 0..Len(U)
  BY <1>1, WalkOf DEF Trees, List, Fits
<1>3. /\ \A j \in DOMAIN U : j <= g => U[j].high < low
      /\ \A k \in DOMAIN U : k > g => high < U[k].low
  BY <1>1, FitsApart
<1>4. \A j, k \in DOMAIN U : j < k => U[j].high < U[k].low
  BY <1>1 DEF Ready, Sorted
<1>5. \A k \in DOMAIN U : U[k].low \in Int /\ U[k].high \in Int /\ U[k] \in RangeNode
  BY <1>1, NodeIn
<1>6. MeetsLeft(L, low, g) => g \in DOMAIN U
  BY <1>1, <1>2 DEF MeetsLeft
<1>7. MeetsRight(L, high, g) => g + 1 \in DOMAIN U
  BY <1>1, <1>2 DEF MeetsRight
<1>8. CASE MeetsLeft(L, low, g) /\ MeetsRight(L, high, g)
  <2>1. PICK n : n = [U[g] EXCEPT !.high = U[g + 1].high]
    OBVIOUS
  <2>2. g \in DOMAIN U /\ g + 1 \in DOMAIN U
    BY <1>6, <1>7, <1>8
  <2>3. n \in RangeNode /\ n.low = U[g].low /\ n.high = U[g + 1].high
    BY <1>5, <2>1, <2>2 DEF RangeNode
  <2>4. X = WithMerged(L, g, n)
    <3>1. X = [rb_erase([L EXCEPT !.una[g].high = L.una[g + 1].high], g + 1) EXCEPT !.num_u = @ - 1]
      BY <1>8 DEF Grown
    <3>2. [L EXCEPT !.una[g].high = L.una[g + 1].high] = WithRange(L, g, n)
      BY <1>1, <1>2, <2>1, <2>2 DEF WithRange, List
    <3> QED BY <3>1, <3>2 DEF WithMerged
  <2> QED BY <1>1, <2>2, <2>3, <2>4, ReadyMerged
<1>9. CASE MeetsLeft(L, low, g) /\ ~MeetsRight(L, high, g)
  <2>1. PICK n : n = [U[g] EXCEPT !.high = high]
    OBVIOUS
  <2>2. g \in DOMAIN U
    BY <1>6, <1>9
  <2>3. n \in RangeNode /\ n.low = U[g].low /\ n.high = high
    BY <1>5, <2>1, <2>2 DEF RangeNode
  <2>4. X = WithRange(L, g, n)
    <3>1. X = [L EXCEPT !.una[g].high = high]
      BY <1>9 DEF Grown
    <3> QED BY <1>1, <1>2, <2>1, <2>2, <3>1 DEF WithRange, List
  <2>5. /\ \A j \in DOMAIN L.una : j < g => L.una[j].high < n.low
        /\ \A k \in DOMAIN L.una : k > g => n.high < L.una[k].low
    BY <1>1, <1>3, <1>4, <2>2, <2>3
  <2> QED BY <1>1, <2>2, <2>3, <2>4, <2>5, ReadySet
<1>10. CASE ~MeetsLeft(L, low, g) /\ MeetsRight(L, high, g)
  <2>1. PICK n : n = [U[g + 1] EXCEPT !.low = low]
    OBVIOUS
  <2>2. g + 1 \in DOMAIN U
    BY <1>7, <1>10
  <2>3. n \in RangeNode /\ n.low = low /\ n.high = U[g + 1].high
    BY <1>5, <2>1, <2>2 DEF RangeNode
  <2>4. X = WithRange(L, g + 1, n)
    <3>1. X = [L EXCEPT !.una[g + 1].low = low]
      BY <1>10 DEF Grown
    <3> QED BY <1>1, <1>2, <2>1, <2>2, <3>1 DEF WithRange, List
  <2>5. /\ \A j \in DOMAIN L.una : j < g + 1 => L.una[j].high < n.low
        /\ \A k \in DOMAIN L.una : k > g + 1 => n.high < L.una[k].low
    <3>1. \A j \in DOMAIN U : j < g + 1 => j <= g
      BY <1>2
    <3>2. \A k \in DOMAIN U : k > g + 1 => g + 1 < k
      BY <1>2
    <3> QED BY <1>1, <1>3, <1>4, <2>2, <2>3, <3>1, <3>2
  <2> QED BY <1>1, <2>2, <2>3, <2>4, <2>5, ReadySet
<1> QED BY <1>8, <1>9, <1>10

\* What a round of pmfs_free_blocks leaves of the first nodes.
FreeKeeps(L, M) == HugeLow(M) /\ (Ready(L) /\ InOrder(M) => Ready(M))

\* A run that joins the list at a place where it fits.
LEMMA FreedReady ==
  ASSUME NEW L, Trees(L), HugeLow(L), NEW low \in Int, NEW high \in Int, low <= high,
         low..high \subseteq L.start..L.end, (low..high) \cap FreeBlocks(L) = {},
         NEW g, Fits(L, low, high, g), NEW M, M = FreeAtGap(L, low, high, g)
  PROVE  FreeKeeps(L, M)
<1> DEFINE left == MeetsLeft(L, low, g)
           right == MeetsRight(L, high, g)
           new == Node(low, high)
<1>1. M = IF left \/ right
          THEN check_and_insert_huge_aligned(Grown(L, low, high, g), GrownAt(L, low, g))
          ELSE [InsertAtGap(L, g, new) EXCEPT !.num_u = @ + 1, !.first_u = IF g = 0 THEN 1 ELSE @]
  BY DEF FreeAtGap, Grown, GrownAt, MeetsLeft, MeetsRight
<1>2. L \in List /\ Len(L.una) \in Nat /\ g \in 0..Len(L.una)
  BY WalkOf DEF Trees, Fits
<1> HIDE DEF left, right
<1>3. CASE left \/ right
  <2>1. PICK X : X = Grown(L, low, high, g)
    OBVIOUS
  <2>2. PICK k : k = GrownAt(L, low, g)
    OBVIOUS
  <2>3. MeetsLeft(L, low, g) \/ MeetsRight(L, high, g)
    BY <1>3 DEF left, right
  <2>4. Trees(X) /\ SameHuge(L, X) /\ k \in DOMAIN X.una
    BY <1>2, <2>1, <2>2, <2>3, GrownTrees
  <2>5. M = check_and_insert_huge_aligned(X, k)
    BY <1>1, <1>3, <2>1, <2>2
  <2>6. HugeLow(X)
    BY <2>4, HugeLowKept
  <2>7. HugeLow(M) /\ (Ready(X) /\ InOrder(M) => Ready(M))
    BY <2>4, <2>5, <2>6, HugeAlignedReady
  <2>8. Ready(L) => Ready(X)
    BY <2>1, <2>3, GrownReady
  <2> QED BY <2>7, <2>8 DEF FreeKeeps
<1>4. CASE ~left /\ ~right
  <2> DEFINE f == IF g = 0 THEN 1 ELSE IF L.first_u > g THEN L.first_u + 1 ELSE L.first_u
  <2>1. M = [InsertAtGap(L, g, new) EXCEPT !.num_u = @ + 1, !.first_u = IF g = 0 THEN 1 ELSE @]
    BY <1>1, <1>4
  <2>2. M = WithNode(L, g, new, f) /\ SameHuge(L, M)
    <3> HIDE DEF new
    <3> QED BY <1>2, <2>1 DEF WithNode, InsertAtGap, List, SameHuge
  <2>3. new \in RangeNode /\ new.low <= new.high /\ new.low = low /\ new.high = high
    BY DEF Node, RangeNode
  <2> HIDE DEF new
  <2>4. HugeLow(M)
    BY <2>2, HugeLowKept
  <2>5. ASSUME Ready(L) PROVE Ready(M)
    <3>1. f = 1
      <4>1. CASE g = 0
        BY <4>1
      <4>2. CASE g # 0
        <5>1. L.first_u = 1 /\ ~(1 > g)
          BY <1>2, <2>5, <4>2 DEF Ready
        <5> QED BY <4>2, <5>1
      <4> QED BY <4>1, <4>2
    <3> HIDE DEF f
    <3>2. /\ g > 0 => L.una[g].high < new.low
          /\ g < Len(L.una) => new.high < L.una[g + 1].low
      BY <2>3 DEF Fits
    <3>3. M = WithNode(L, g, new, 1)
      BY <2>2, <3>1
    <3> QED BY <1>2, <2>3, <2>5, <3>2, <3>3, ReadyLinked
  <2> QED BY <2>4, <2>5 DEF FreeKeeps
<1> QED BY <1>3, <1>4

\* One round of pmfs_free_blocks, wherever its search ends.
LEMMA RoundReady ==
  ASSUME NEW L, Trees(L), HugeLow(L), NEW low \in Int, NEW high \in Int, low <= high,
         low..high \subseteq L.start..L.end, (low..high) \cap FreeBlocks(L) = {},
         NEW M \in FreeRound(L, low, high)
  PROVE  FreeKeeps(L, M)
<1> DEFINE count(X) == [X EXCEPT !.num_free = @ + high - low + 1]
<1>1. ASSUME NEW X, Trees(X), FreeKeeps(L, X), M = count(X) PROVE FreeKeeps(L, M)
  <2>1. M.una = X.una /\ M.first_u = X.first_u /\ SameHuge(X, M)
    BY <1>1 DEF Trees, List, SameHuge
  <2> HIDE DEF count
  <2>2. HugeLow(M)
    BY <1>1, <2>1, HugeLowKept DEF FreeKeeps
  <2>3. ASSUME Ready(L), InOrder(M) PROVE Ready(M)
    <3>1. InOrder(X)
      BY <2>1, <2>3 DEF InOrder
    <3>2. Ready(X)
      BY <1>1, <2>3, <3>1 DEF FreeKeeps
    <3> QED BY <2>1, <3>2, ReadyKept
  <2> QED BY <2>2, <2>3 DEF FreeKeeps
<1> HIDE DEF count
<1>2. L \in List /\ L.start \in Nat \ {0} /\ L.end \in Int
  BY DEF Trees, List
<1>3. CASE IS_BLOCK_2MB_ALIGNED(low) /\ high - low + 1 = H
  <2> DEFINE X == insert_in_huge_tree(L, low)
  <2>1. M = count(X)
    BY <1>3 DEF FreeRound, count
  <2>2. X = InsertPages(L, low, {low})
    <3>1. Cardinality({low}) = 1
      BY FS_Singleton
    <3> QED BY <1>2, <3>1 DEF InsertPages, insert_in_huge_tree, List
  <2>3. PagesBlocks({low}) = low..high /\ HugePage(low) = low..high
    <3>1. low + H - 1 = high
      BY <1>3, HType
    <3>2. HugePage(low) = low..high
      BY <3>1 DEF HugePage
    <3> QED BY <3>2 DEF PagesBlocks
  <2>4. /\ IsFiniteSet({low}) /\ {low} \in SUBSET Int /\ low \in {low} /\ low # 0
        /\ \A b \in {low} : low <= b
    <3>1. low \in low..high
      OBVIOUS
    <3>2. low # 0
      BY <1>2, <3>1
    <3>3. IsFiniteSet({low})
      BY FS_Singleton
    <3> QED BY <3>2, <3>3
  <2>5. \A b \in {low} : IS_BLOCK_2MB_ALIGNED(b) /\ HugePage(b) \subseteq L.start..L.end
    BY <1>3, <2>3
  <2>6. PagesBlocks({low}) \cap FreeBlocks(L) = {}
    BY <2>3
  <2>7. X.una = L.una /\ X.first_u = L.first_u
    BY <1>2 DEF insert_in_huge_tree, List
  <2> HIDE DEF X
  <2>8. Trees(X)
    BY <2>2, <2>4, <2>5, <2>6, PagesInserted
  <2>9. HugeLow(X)
    BY <1>3, <2>2, <2>4, HugeLowInserted
  <2>10. FreeKeeps(L, X)
    BY <2>7, <2>9, ReadyKept DEF FreeKeeps
  <2> QED BY <1>1, <2>1, <2>8, <2>10
<1>4. CASE ~(IS_BLOCK_2MB_ALIGNED(low) /\ high - low + 1 = H)
  <2>1. PICK g \in pmfs_find_free_slot(L, low, high) : M = count(FreeAtGap(L, low, high, g))
    BY <1>4 DEF FreeRound, count
  <2>2. g \in 0..Len(L.una) /\ Fits(L, low, high, g)
    <3>1. /\ g \in 0..Len(L.una) /\ (g > 0 => low > L.una[g].high)
          /\ (g < Len(L.una) => high < L.una[g + 1].low)
      BY <2>1 DEF pmfs_find_free_slot, Gaps
    <3>2. g > 0 => L.una[g].high < low
      <4>1. ASSUME g > 0 PROVE L.una[g].high < low
        <5>1. g \in DOMAIN L.una
          BY <1>2, <3>1, <4>1, WalkOf
        <5>2. L.una[g].high \in Int
          BY <5>1, NodeIn
        <5> QED BY <3>1, <4>1, <5>2
      <4> QED BY <4>1
    <3> QED BY <3>1, <3>2 DEF Fits
  <2>3. PICK X : X = FreeAtGap(L, low, high, g)
    OBVIOUS
  <2>4. Trees(X)
    BY <2>2, <2>3, FreedAtGap
  <2>5. FreeKeeps(L, X)
    BY <2>2, <2>3, FreedReady
  <2> QED BY <1>1, <2>1, <2>3, <2>4, <2>5
<1> QED BY <1>3, <1>4

------------------------------------------------------------------------------
(* Steps of the threads.                                                        *)

\* What the invariant adds to IInv.
Rest == Firsts(lists, early) /\ AloneInv

\* What a step that sets one call leaves in call.
LEMMA CallSetAt ==
  ASSUME IInv, NEW t \in Threads, NEW c, CallSet(t, c)
  PROVE  call'[t] = c /\ \A u \in Threads : u # t => call'[u] = call[u]
BY DEF IInv, CallsInv, CallSet

\* A thread inside a call that steps is the only one that can be alone.
LEMMA AloneKept ==
  ASSUME IInv, AloneInv, NEW t \in Threads, call[t].pc # "idle", NEW c, CallSet(t, c),
         alone' = alone, t \in alone => Learnt(c, lists', early')
  PROVE  AloneInv'
<1>1. call'[t] = c /\ \A u \in Threads : u # t => call'[u] = call[u]
  BY CallSetAt
<1>2. ASSUME NEW u \in alone
      PROVE  /\ u \in Threads /\ Learnt(call'[u], lists', early')
             /\ \A v \in Threads : v # u => call'[v].pc = "idle"
  <2>1. u \in Threads /\ \A v \in Threads : v # u => call[v].pc = "idle"
    BY DEF AloneInv
  <2>2. u = t
    BY <2>1
  <2> QED BY <1>1, <2>1, <2>2
<1> QED BY <1>2 DEF AloneInv

\* A call that begins while no other runs is alone.
LEMMA EntersAlone ==
  ASSUME IInv, NEW t \in Threads, Enter(t), NEW c, CallSet(t, c), Learnt(c, lists', early')
  PROVE  AloneInv'
<1>1. call'[t] = c /\ \A u \in Threads : u # t => call'[u] = call[u]
  BY CallSetAt
<1>2. CASE Busy = {}
  <2>1. alone' = {t} /\ \A u \in Threads : call[u].pc = "idle"
    BY <1>2 DEF Enter, Busy
  <2> QED BY <1>1, <2>1 DEF AloneInv
<1>3. CASE Busy # {}
  <2>1. alone' = {}
    BY <1>3 DEF Enter
  <2> QED BY <2>1 DEF AloneInv
<1> QED BY <1>2, <1>3

\* A new call knows nothing yet.
LEMMA NewBlocksAlone ==
  ASSUME IInv, Rest, NEW t \in Threads, NEW large, NEW num, NEW cpu,
         NewBlocks(t, large, num, cpu)
  PROVE  Rest'
<1> DEFINE c == [pc |-> "check", large |-> large, num |-> num, cpu |-> cpu, retried |-> 0]
<1>1. CallSet(t, c) /\ Enter(t) /\ lists' = lists /\ early' = early
  BY DEF NewBlocks, CallSet
<1>2. Learnt(c, lists', early')
  BY DEF Learnt
<1> HIDE DEF c
<1>3. AloneInv'
  BY <1>1, <1>2, EntersAlone
<1> QED BY <1>1, <1>3 DEF Rest

\* Nor does one that frees.
LEMMA FreeBlocksAlone ==
  ASSUME IInv, Rest, NEW t \in Threads, NEW low, NEW num, FreeBlocksOf(t, low, num)
  PROVE  Rest'
<1> DEFINE c == [pc |-> "free", low |-> low, left |-> num, num |-> num,
                 cpu |-> get_block_cpuid(low)]
<1>1. CallSet(t, c) /\ Enter(t) /\ lists' = lists /\ early' = early
  BY DEF FreeBlocksOf, CallSet
<1>2. Learnt(c, lists', early')
  BY DEF Learnt
<1> HIDE DEF c
<1>3. AloneInv'
  BY <1>1, <1>2, EntersAlone
<1> QED BY <1>1, <1>3 DEF Rest

\* The free blocks of a list are counted.
LEMMA Counted ==
  ASSUME IInv, NEW i \in ListIds
  PROVE  /\ Trees(lists[i]) /\ lists[i].num_free \in Nat /\ lists[i].num_h \in Nat
         /\ (lists[i].num_free = 0) <=> (FreeBlocks(lists[i]) = {})
<1>1. PICK L : L = lists[i]
  OBVIOUS
<1>2. Trees(L) /\ L.num_free = Cardinality(FreeBlocks(L))
  BY <1>1 DEF IInv, ListsInv, ListOK
<1>3. IsFiniteSet(FreeBlocks(L)) /\ IsFiniteSet(L.huge)
  BY <1>2, Within, HugeFinite
<1>4. L.num_free \in Nat /\ L.num_h \in Nat
  BY <1>2, <1>3, FS_CardinalityType DEF Trees
<1>5. (L.num_free = 0) <=> (FreeBlocks(L) = {})
  BY <1>2, <1>3, FS_EmptySet
<1> QED BY <1>1, <1>2, <1>4, <1>5

\* A scan begins without a candidate.
LEMMA RetryAlone == ASSUME IInv, Rest, NEW t \in Threads, Retry(t) PROVE Rest'
<1> DEFINE d == call[t]
           c == [pc |-> "scan", large |-> d.large, num |-> d.num, cpu |-> d.cpu,
                 retried |-> d.retried, i |-> 0, most |-> 0, most_holes |-> 0, cpuid |-> 0,
                 holes |-> -1]
<1>1. /\ CallSet(t, c) /\ call[t].pc # "idle" /\ lists' = lists /\ early' = early
      /\ alone' = alone
  BY DEF Retry, CallSet, IInv, CallsInv
<1>2. 0 \in ListIds
  BY WinefsAllocAssumption DEF ListIds
<1>3. Learnt(c, lists', early')
  <2>1. 0 <= lists[0].num_free
    BY <1>2, Counted
  <2>2. \A j \in ListIds : ~(j < 0)
    BY DEF ListIds
  <2> QED BY <1>1, <2>1, <2>2 DEF Learnt
<1> HIDE DEF c
<1>4. AloneInv'
  BY <1>1, <1>3, AloneKept DEF Rest
<1> QED BY <1>1, <1>4 DEF Rest

\* A thread that frees learns nothing, nor one that returns.
LEMMA FreeFailsAlone == ASSUME IInv, Rest, NEW t \in Threads, FreeFails(t) PROVE Rest'
<1>1. /\ CallSet(t, Freed) /\ call[t].pc # "idle" /\ lists' = lists /\ early' = early
      /\ alone' = alone
  BY DEF FreeFails, CallSet
<1>2. Learnt(Freed, lists', early')
  BY DEF Learnt, Freed
<1>3. AloneInv'
  BY <1>1, <1>2, AloneKept DEF Rest
<1> QED BY <1>1, <1>3 DEF Rest

\* Nobody is alone after the only call.
LEMMA ReturnAlone == ASSUME IInv, Rest, NEW t \in Threads, Return(t) PROVE Rest'
<1>1. /\ call[t].pc # "idle" /\ lists' = lists /\ early' = early /\ alone' = alone \ {t}
  BY DEF Return
<1>2. alone' = {}
  BY <1>1 DEF Rest, AloneInv
<1> QED BY <1>1, <1>2 DEF Rest, AloneInv

\* One look at a list keeps what the scan knows of the lists before it, and the last
\* one makes the candidate a good one (pmfs_get_candidate_free_list).
LEMMA CandidateAlone ==
  ASSUME IInv, Rest, NEW t \in Threads, pmfs_get_candidate_free_list(t) PROVE Rest'
<1> DEFINE d == call[t]
           L == lists[d.i]
           c == Candidate(d, L)
           to == IF c.holes >= 0 THEN c.holes ELSE c.cpuid
           e == IF c.i < Cpus - 1 THEN [c EXCEPT !.i = @ + 1] ELSE Again(c, to)
           free == num_free_holes(L)
           more == L.num_free > d.most
           better == d.num # H /\ free > d.most_holes /\ free >= d.num
<1>1. /\ CallSet(t, e) /\ d.pc = "scan" /\ d.pc # "idle" /\ lists' = lists /\ early' = early
      /\ alone' = alone
  BY DEF pmfs_get_candidate_free_list, CallSet
<1>2. d \in ScanCall
  BY <1>1 DEF IInv, CallsInv, CallOK, CheckCall, FreeCall
<1>3. /\ d.i \in ListIds /\ d.most \in Int /\ d.num \in Nat /\ d.cpuid \in ListIds
      /\ d.holes \in {-1} \cup ListIds
  BY <1>2 DEF ScanCall
<1>4. L.num_free \in Nat /\ L.num_h \in Nat
  BY <1>3, Counted
<1>5. free \in Int /\ free <= L.num_free
  <2>1. L.num_h * H \in Nat
    BY <1>4, HType
  <2> QED BY <1>4, <2>1 DEF num_free_holes
<1>6. c = [d EXCEPT !.cpuid = IF more THEN d.i ELSE @, !.most = IF more THEN L.num_free ELSE @,
                    !.holes = IF better THEN d.i ELSE @,
                    !.most_holes = IF better THEN free ELSE @]
  BY DEF Candidate
<1>7. /\ c.i = d.i /\ c.num = d.num /\ c.pc = "scan"
      /\ c.cpuid = IF more THEN d.i ELSE d.cpuid
      /\ c.most = IF more THEN L.num_free ELSE d.most
      /\ c.holes = IF better THEN d.i ELSE d.holes
      /\ c \in ScanCall
  <2> HIDE DEF d, L, c, free, more, better
  <2>1. c \in ScanCall
    <3>1. L.num_free \in Int /\ free \in Int /\ d.i \in ListIds
      BY <1>3, <1>4, <1>5
    <3> QED BY <1>2, <1>6, <3>1 DEF ScanCall
  <2>2. c.i = d.i /\ c.num = d.num /\ c.pc = d.pc
    BY <1>2, <1>6 DEF ScanCall
  <2>3. c.cpuid = IF more THEN d.i ELSE d.cpuid
    BY <1>2, <1>6 DEF ScanCall
  <2>4. c.most = IF more THEN L.num_free ELSE d.most
    BY <1>2, <1>6 DEF ScanCall
  <2>5. c.holes = IF better THEN d.i ELSE d.holes
    BY <1>2, <1>6 DEF ScanCall
  <2> QED BY <1>1, <2>1, <2>2, <2>3, <2>4, <2>5
<1> SUFFICES ASSUME t \in alone PROVE Learnt(e, lists, early)
  <2>1. t \in alone => Learnt(e, lists', early')
    BY <1>1
  <2> HIDE DEF e
  <2>2. AloneInv'
    BY <1>1, <2>1, AloneKept DEF Rest
  <2> QED BY <1>1, <2>2 DEF Rest
<1>8. /\ \A j \in ListIds : j < d.i => lists[j].num_free <= d.most
      /\ d.most <= lists[d.cpuid].num_free
      /\ d.holes # -1 => lists[d.holes].num_free >= d.num
  BY <1>1 DEF Rest, AloneInv, Learnt
<1>9. /\ \A j \in ListIds : j <= d.i => lists[j].num_free <= c.most
      /\ c.most <= lists[c.cpuid].num_free
      /\ c.holes # -1 => lists[c.holes].num_free >= c.num
  <2>1. ASSUME NEW j \in ListIds, j <= d.i PROVE lists[j].num_free <= c.most
    <3>1. lists[j].num_free \in Nat
      BY Counted
    <3>2. CASE j = d.i
      <4>1. lists[j] = L
        BY <3>2
      <4> HIDE DEF d, L, c
      <4> QED BY <1>3, <1>4, <1>7, <4>1
    <3>3. CASE j # d.i
      <4>1. j < d.i
        <5>1. j \in Int /\ d.i \in Int
          BY <1>3 DEF ListIds
        <5> HIDE DEF d
        <5> QED BY <2>1, <3>3, <5>1
      <4>2. lists[j].num_free <= d.most
        BY <1>8, <4>1
      <4> HIDE DEF d, L, c
      <4> QED BY <1>3, <1>4, <1>7, <3>1, <4>2
    <3> QED BY <3>2, <3>3
  <2>2. c.most <= lists[c.cpuid].num_free
    <3>1. CASE more
      <4>1. lists[c.cpuid] = L /\ c.most = L.num_free
        BY <1>7, <3>1
      <4> HIDE DEF L, c
      <4> QED BY <1>4, <4>1
    <3>2. CASE ~more
      BY <1>7, <1>8, <3>2
    <3> QED BY <3>1, <3>2
  <2>3. ASSUME c.holes # -1 PROVE lists[c.holes].num_free >= c.num
    <3>1. CASE better
      <4>1. lists[c.holes] = L /\ c.num = d.num /\ free >= d.num
        BY <1>7, <3>1
      <4> HIDE DEF d, L, c, free
      <4> QED BY <1>3, <1>4, <1>5, <4>1
    <3>2. CASE ~better
      BY <1>7, <1>8, <2>3, <3>2
    <3> QED BY <3>1, <3>2
  <2> QED BY <2>1, <2>2, <2>3
<1>10. c.i \in ListIds /\ c.cpuid \in ListIds /\ c.most \in Int
  BY <1>7 DEF ScanCall
<1>11. Cpus \in Nat /\ ListIds = 0..Cpus - 1
  BY WinefsAllocAssumption DEF ListIds
<1>12. \A j \in ListIds : j <= c.i => lists[j].num_free <= c.most
  BY <1>7, <1>9
<1> HIDE DEF c
<1>13. CASE c.i < Cpus - 1
  <2>1. e = [c EXCEPT !.i = @ + 1]
    BY <1>13
  <2> HIDE DEF e
  <2>2. /\ e.pc = "scan" /\ e.i = c.i + 1 /\ e.most = c.most /\ e.cpuid = c.cpuid
        /\ e.holes = c.holes /\ e.num = c.num
    BY <1>7, <2>1
  <2>3. \A j \in ListIds : j < e.i => j <= c.i
    BY <1>10, <1>11, <2>2
  <2>4. \A j \in ListIds : j < e.i => lists[j].num_free <= e.most
    BY <1>12, <2>2, <2>3
  <2>5. e.most <= lists[e.cpuid].num_free /\ (e.holes # -1 => lists[e.holes].num_free >= e.num)
    BY <1>9, <2>2
  <2> QED BY <2>2, <2>4, <2>5 DEF Learnt
<1>14. CASE ~(c.i < Cpus - 1)
  <2>1. e = Again(c, to)
    BY <1>14
  <2> HIDE DEF e
  <2>2. e.pc = "check" /\ e.num = c.num /\ e.cpu = to
    BY <2>1 DEF Again
  <2>3. Picked(lists, c.num, to)
    <3>1. CASE c.holes >= 0
      <4>1. to = c.holes /\ c.holes # -1
        BY <3>1
      <4> QED BY <1>9, <4>1 DEF Picked
    <3>2. CASE ~(c.holes >= 0)
      <4>1. to = c.cpuid
        BY <3>2
      <4>2. ASSUME NEW j \in ListIds PROVE lists[j].num_free <= lists[c.cpuid].num_free
        <5>1. j <= c.i
          BY <1>10, <1>11, <1>14
        <5>2. lists[j].num_free <= c.most /\ c.most <= lists[c.cpuid].num_free
          BY <1>9, <1>12, <5>1
        <5>3. lists[j].num_free \in Nat /\ lists[c.cpuid].num_free \in Nat
          BY <1>10, Counted
        <5> QED BY <1>10, <5>2, <5>3
      <4> QED BY <4>1, <4>2 DEF Picked
    <3> QED BY <3>1, <3>2
  <2> QED BY <2>2, <2>3 DEF Learnt
<1> QED BY <1>13, <1>14

\* What becomes of the first nodes when one list changes.
LEMMA FirstsAt ==
  ASSUME IInv, Firsts(lists, early), NEW i \in ListIds, NEW M, ListSet(i, M), HugeLow(M),
         NEW es, early \subseteq es, es \subseteq ListIds, i \notin es => Ready(M)
  PROVE  Firsts(lists', es)
<1>1. lists'[i] = M /\ \A j \in ListIds : j # i => lists'[j] = lists[j]
  BY DEF IInv, ListsInv, ListSet
<1>2. ASSUME NEW j \in ListIds PROVE HugeLow(lists'[j])
  BY <1>1 DEF Firsts
<1>3. ASSUME NEW j \in ListIds \ es PROVE Ready(lists'[j])
  BY <1>1 DEF Firsts
<1> QED BY <1>2, <1>3 DEF Firsts

\* Under the lock: 4K blocks are refused to a call without company only when the
\* list and all others are empty, or some list lost sight of what it has.
LEMMA AllocAlone == ASSUME IInv, Rest, NEW t \in Threads, Alloc(t) PROVE Rest'
<1>1. PICK d : d = call[t]
  OBVIOUS
<1>2. PICK L : L = lists[d.cpu]
  OBVIOUS
<1>3. PICK r : r = pmfs_alloc_blocks_in_free_list(L, d.large, d.num)
  OBVIOUS
<1>4. PICK c : c = [pc |-> "done", large |-> d.large, got |-> r.num]
  OBVIOUS
<1>5. /\ d.pc = "check" /\ L.first_u # Dangling /\ ~MustRetry(d, L) /\ ListSet(d.cpu, r.list)
      /\ CallSet(t, c) /\ early' = early /\ alone' = alone
  BY <1>1, <1>2, <1>3, <1>4 DEF Alloc, CallSet, ListSet
<1>6. d \in CheckCall
  BY <1>1, <1>5 DEF IInv, CallsInv, CallOK, ScanCall, FreeCall
<1>7. /\ d.large \in BOOLEAN /\ d.num \in Nat \ {0} /\ d.cpu \in ListIds /\ d.retried \in Int
  BY <1>6 DEF CheckCall
<1>8. /\ Trees(L) /\ HugeLow(L) /\ L.num_free \in Nat
      /\ (L.num_free = 0) <=> (FreeBlocks(L) = {})
  BY <1>2, <1>7, Counted DEF Rest, Firsts
<1>9. Grants(L, r) /\ AllocKeeps(L, d.large, r)
  <2>1. PICK large \in BOOLEAN, num \in Nat \ {0} : large = d.large /\ num = d.num
    BY <1>7
  <2>2. r = pmfs_alloc_blocks_in_free_list(L, large, num)
    BY <1>3, <2>1
  <2>3. Grants(L, r)
    BY <1>5, <1>8, <2>2, AllocGrants
  <2>4. AllocKeeps(L, large, r)
    BY <1>5, <1>8, <2>2, AllocReady
  <2> QED BY <2>1, <2>3, <2>4
<1>10. Firsts(lists', early')
  <2>1. Firsts(lists, early) /\ early \subseteq ListIds
    BY DEF Rest, Firsts
  <2>2. HugeLow(r.list)
    BY <1>9 DEF AllocKeeps
  <2>3. d.cpu \notin early => Ready(r.list)
    BY <1>2, <1>7, <1>9, <2>1 DEF AllocKeeps, Firsts
  <2>4. Firsts(lists', early)
    <3>1. PICK M : M = r.list
      OBVIOUS
    <3>2. ListSet(d.cpu, M) /\ HugeLow(M) /\ (d.cpu \notin early => Ready(M))
      BY <1>5, <2>2, <2>3, <3>1
    <3> QED BY <1>7, <2>1, <3>2, FirstsAt
  <2> QED BY <1>5, <2>4
<1>11. ASSUME t \in alone, ~d.large, r.num = 0 PROVE AllEmpty(lists') \/ Excused(lists', early)
  <2>1. FreeBlocks(r.list) = FreeBlocks(L)
    <3>1. r.block \in Int /\ FreeBlocks(r.list) = FreeBlocks(L) \ (r.block..r.block + r.num - 1)
      BY <1>9 DEF Grants
    <3>2. r.block..r.block + r.num - 1 = {}
      BY <1>11, <3>1
    <3> QED BY <3>1, <3>2
  <2>2. \A j \in ListIds : FreeBlocks(lists'[j]) = FreeBlocks(lists[j])
    <3>1. lists'[d.cpu] = r.list /\ \A j \in ListIds : j # d.cpu => lists'[j] = lists[j]
      BY <1>5, <1>7 DEF IInv, ListsInv, ListSet
    <3> QED BY <1>2, <2>1, <3>1
  <2>3. early \subseteq ListIds
    BY DEF Rest, Firsts
  <2>4. SUFFICES ASSUME ~Excused(lists, early) PROVE AllEmpty(lists)
    BY <2>2, <2>3 DEF AllEmpty, Excused
  <2>5. FreeBlocks(L) = {}
    <3>1. CASE d.cpu \in early
      BY <1>2, <2>4, <3>1 DEF Excused
    <3>2. CASE d.cpu \notin early
      <4>1. Ready(L)
        BY <1>2, <1>7, <3>2 DEF Rest, Firsts
      <4> QED BY <1>8, <1>9, <1>11, <4>1 DEF AllocKeeps
    <3> QED BY <3>1, <3>2
  <2>6. L.num_free = 0 /\ L.num_free < d.num
    BY <1>7, <1>8, <2>5
  <2>7. d.retried # 0
    BY <1>5, <1>7, <2>6 DEF MustRetry, not_enough_blocks
  <2>8. Picked(lists, d.num, d.cpu)
    BY <1>1, <1>5, <1>11, <2>7 DEF Rest, AloneInv, Learnt
  <2>9. \A j \in ListIds : lists[j].num_free <= 0
    BY <1>2, <1>7, <2>6, <2>8 DEF Picked
  <2>10. ASSUME NEW j \in ListIds PROVE FreeBlocks(lists[j]) = {}
    <3>1. lists[j].num_free \in Nat /\ ((lists[j].num_free = 0) <=> (FreeBlocks(lists[j]) = {}))
      BY Counted
    <3>2. lists[j].num_free = 0
      BY <2>9, <3>1
    <3> QED BY <3>1, <3>2
  <2> QED BY <2>10 DEF AllEmpty
<1>12. t \in alone => Learnt(c, lists', early')
  <2>1. c.pc = "done" /\ c.large = d.large /\ c.got = r.num
    BY <1>4
  <2> QED BY <1>5, <1>11, <2>1 DEF Learnt
<1>13. call[t].pc # "idle"
  BY <1>1, <1>5
<1>14. AloneInv'
  BY <1>5, <1>12, <1>13, AloneKept DEF Rest
<1> QED BY <1>10, <1>14 DEF Rest

\* A round of a free: its list keeps the first nodes, or was out of order.
LEMMA FreeRoundAlone == ASSUME IInv, Rest, NEW t \in Threads, FreeRoundOf(t) PROVE Rest'
<1>1. PICK d : d = call[t]
  OBVIOUS
<1>2. PICK L : L = lists[d.cpu]
  OBVIOUS
<1>3. PICK n : n = Round(d)
  OBVIOUS
<1>4. PICK c : c = IF d.left = n THEN Freed ELSE [d EXCEPT !.low = @ + n, !.left = @ - n]
  OBVIOUS
<1>5. PICK high : high = d.low + n - 1
  OBVIOUS
<1>6. /\ d.pc = "free" /\ ~OutOfList(d, L) /\ CallSet(t, c) /\ alone' = alone
      /\ \E M \in FreeRound(L, d.low, high) :
            /\ ListSet(d.cpu, M)
            /\ early' = IF InOrder(M) THEN early ELSE early \cup {d.cpu}
  BY <1>1, <1>2, <1>3, <1>4, <1>5 DEF FreeRoundOf, CallSet, ListSet
<1>7. PICK M \in FreeRound(L, d.low, high) :
            /\ ListSet(d.cpu, M)
            /\ early' = IF InOrder(M) THEN early ELSE early \cup {d.cpu}
  BY <1>6
<1>8. /\ d \in FreeCall /\ n \in Int /\ 1 <= n /\ ListOK(d.cpu, L)
      /\ d.low..d.low + n - 1 \subseteq L.start..L.end
      /\ (d.low..d.low + n - 1) \cap FreeBlocks(L) = {}
  BY <1>1, <1>2, <1>3, <1>6, RoundRun
<1>9. d.cpu \in ListIds /\ d.low \in Int
  BY <1>8 DEF FreeCall
<1>10. high \in Int /\ d.low <= high
  BY <1>5, <1>8, <1>9
<1>11. Trees(L) /\ HugeLow(L) /\ (d.cpu \notin early => Ready(L)) /\ early \subseteq ListIds
  BY <1>2, <1>8, <1>9 DEF ListOK, Rest, Firsts
<1>12. FreeKeeps(L, M)
  <2>1. PICK low \in Int : low = d.low
    BY <1>9
  <2>2. /\ low <= high /\ low..high \subseteq L.start..L.end
        /\ (low..high) \cap FreeBlocks(L) = {} /\ M \in FreeRound(L, low, high)
    BY <1>5, <1>7, <1>8, <1>10, <2>1
  <2> QED BY <1>10, <1>11, <2>2, RoundReady
<1>13. PICK es : es = IF InOrder(M) THEN early ELSE early \cup {d.cpu}
  OBVIOUS
<1>14. early \subseteq es /\ es \subseteq ListIds /\ HugeLow(M) /\ (d.cpu \notin es => Ready(M))
  <2>1. CASE InOrder(M)
    BY <1>11, <1>12, <1>13, <2>1 DEF FreeKeeps
  <2>2. CASE ~InOrder(M)
    BY <1>9, <1>11, <1>12, <1>13, <2>2 DEF FreeKeeps
  <2> QED BY <2>1, <2>2
<1>15. Firsts(lists', early')
  <2>1. Firsts(lists', es)
    BY <1>7, <1>9, <1>14, FirstsAt DEF Rest
  <2> QED BY <1>7, <1>13, <2>1
<1>16. Learnt(c, lists', early')
  <2>1. c.pc \in {"free", "freed"}
    BY <1>4, <1>6, <1>8 DEF Freed, FreeCall
  <2> QED BY <2>1 DEF Learnt
<1>17. AloneInv'
  BY <1>1, <1>6, <1>16, AloneKept DEF Rest
<1> QED BY <1>15, <1>17 DEF Rest

\* Formatted lists and empty ones have their lowest nodes first.
LEMMA InitRest == ASSUME LastBlocksListed PROVE Init => Rest
<1> SUFFICES ASSUME Init PROVE Rest
  OBVIOUS
<1>1. alone = {} /\ early = {}
  BY DEF Init
<1>2. ASSUME NEW i \in ListIds PROVE HugeLow(lists[i]) /\ Ready(lists[i])
  <2>1. CASE lists = pmfs_init_blockmap(FALSE)
    <3>1. lists[i] = FreshList(i)
      BY <2>1 DEF pmfs_init_blockmap
    <3> QED BY <3>1, FreshTrees
  <2>2. CASE lists = pmfs_init_blockmap(TRUE)
    <3>1. lists[i] = pmfs_init_free_list(i)
      BY <2>2 DEF pmfs_init_blockmap, pmfs_alloc_block_free_lists
    <3> QED BY <3>1, EmptyTrees
  <2> QED BY <2>1, <2>2 DEF Init
<1> QED BY <1>1, <1>2 DEF Rest, Firsts, AloneInv

\* Every step preserves it.
LEMMA NextRest == IInv /\ Rest /\ [Next]_vars => Rest'
<1> SUFFICES ASSUME IInv, Rest, [Next]_vars PROVE Rest'
  OBVIOUS
<1>1. CASE UNCHANGED vars
  BY <1>1 DEF vars, Rest, AloneInv
<1>2. CASE Next
  <2>1. PICK t \in Threads :
          \/ \E num \in Nums, cpu \in ListIds : NewBlocks(t, FALSE, num, cpu)
          \/ \E cpu \in ListIds : NewBlocks(t, TRUE, H, cpu)
          \/ \E low \in held, num \in Runs : FreeBlocksOf(t, low, num)
          \/ Step(t)
    BY <1>2 DEF Next
  <2>2. ASSUME NEW large, NEW num, NEW cpu, NewBlocks(t, large, num, cpu) PROVE Rest'
    BY <2>2, NewBlocksAlone
  <2>3. ASSUME NEW low, NEW num, FreeBlocksOf(t, low, num) PROVE Rest'
    BY <2>3, FreeBlocksAlone
  <2>4. CASE Step(t)
    BY <2>4, AllocAlone, RetryAlone, CandidateAlone, FreeRoundAlone, FreeFailsAlone, ReturnAlone
       DEF Step
  <2> QED BY <2>1, <2>2, <2>3, <2>4
<1> QED BY <1>1, <1>2

\* A call of pmfs_new_blocks for 4K blocks during which no other call runs fails only
\* when no list has a block left, or some list was once out of order and has blocks
\* (its first node may miss them while its counter makes it the candidate): two
\* retries are enough for any number of CPUs, blocks, threads and calls, whatever the
\* threads did before, on a device none of whose lists ends with the first block of a
\* huge page.
THEOREM AllocLoneServed ==
  ASSUME LastBlocksListed
  PROVE  Spec => []LoneCallServed
<1>1. Init => IInv /\ Rest
  BY InitInv, InitRest
<1>2. IInv /\ Rest /\ [Next]_vars => IInv' /\ Rest'
  BY NextInv, NextRest
<1>3. IInv /\ Rest => LoneCallServed
  BY DEF Rest, AloneInv, Learnt, AllEmpty, Excused, LoneCallServed
<1> QED BY <1>1, <1>2, <1>3, PTL DEF Spec

==============================================================================

----------------------------- MODULE WinefsBalloc -----------------------------
(* The free lists of WineFS (balloc.c), one per CPU: a tree of ranges of small  *)
(* blocks and a tree of free huge pages. Pure operators on one list; the        *)
(* modules that call them hold the lists and their locks.                       *)
(*                                                                              *)
(* una is the in-order walk of unaligned_block_free_tree. Its nodes are not     *)
(* always in the order of their addresses (check_and_insert_huge_aligned links  *)
(* a node before it sets its range), so where a search ends can depend on the   *)
(* shape of the tree: Gaps gives every place. first_u is the position of        *)
(* first_node_unaligned, 0 for NULL, Dangling when its node has been freed.     *)
(* huge holds the first blocks of the free huge pages, first_h is               *)
(* first_node_huge_aligned, 0 for NULL (block 0 is never free).                 *)
EXTENDS Sequencing, Integers, Sequences, SequencesExt, FiniteSets, FiniteSetsExt

CONSTANTS NumBlocks,      \* sbi->num_blocks
          Cpus,           \* sbi->cpus: the lists are 0..Cpus-1
          HeadReserved,   \* sbi->head_reserved_blocks
          H               \* PAGES_PER_2MB

per_list_blocks == NumBlocks \div Cpus
ListIds == 0..Cpus - 1
Dangling == -1

Node(low, high) == [low |-> low, high |-> high]
Blocks(n) == n.low..n.high
HugePage(b) == b..b + H - 1
IS_BLOCK_2MB_ALIGNED(b) == b % H = 0

\* One node of NUMA memory: list i starts i times per_list_blocks in.
pmfs_init_free_list(i) ==
    [start |-> IF i = 0 THEN HeadReserved ELSE i * per_list_blocks,
     end |-> (i + 1) * per_list_blocks - 1,
     una |-> <<>>, first_u |-> 0, num_u |-> 0, huge |-> {}, first_h |-> 0, num_h |-> 0,
     num_free |-> 0]

pmfs_alloc_block_free_lists == [i \in ListIds |-> pmfs_init_free_list(i)]

\* A fresh list: what precedes the first huge page, the last (possibly complete)
\* page, and the huge pages between them. A last block that is itself aligned is
\* counted and in no tree.
FreshList(i) ==
    Then(pmfs_init_free_list(i), LAMBDA L :
    LET up == CHOOSE b \in L.start..L.start + H - 1 : IS_BLOCK_2MB_ALIGNED(b)
        down == L.end - (L.end % H)
        head == IF up # L.start THEN <<Node(L.start, up - 1)>> ELSE <<>>
        tail == IF down # L.end THEN <<Node(down, L.end)>> ELSE <<>>
        last == IF down # L.end THEN down - 1 ELSE L.end
        una == head \o tail
        huge == {b \in up..last - 1 : IS_BLOCK_2MB_ALIGNED(b)}
    IN [L EXCEPT !.num_free = L.end - L.start + 1,
                 !.una = una, !.first_u = IF una = <<>> THEN 0 ELSE 1, !.num_u = Len(una),
                 !.huge = huge, !.first_h = IF huge = {} THEN 0 ELSE Min(huge),
                 !.num_h = Cardinality(huge)])

\* recovery: the trees are filled later, from what the mount finds.
pmfs_init_blockmap(recovery) ==
    IF recovery THEN pmfs_alloc_block_free_lists ELSE [i \in ListIds |-> FreshList(i)]

\* The places in the walk where a search for block k that finds no node can end.
Gaps(una, k) == {g \in 0..Len(una) : /\ g > 0 => k > una[g].high
                                     /\ g < Len(una) => k < una[g + 1].low}

pmfs_find_range_node(una, k) == {i \in DOMAIN una : k \in Blocks(una[i])}

\* Linking a node at place g, and taking node i out, move the positions behind them.
InsertAtGap(L, g, n) ==
    [L EXCEPT !.una = InsertAt(@, g + 1, n), !.first_u = IF @ > g THEN @ + 1 ELSE @]
rb_erase(L, i) ==
    [L EXCEPT !.una = RemoveAt(@, i),
              !.first_u = IF @ > i THEN @ - 1 ELSE IF @ = i THEN Dangling ELSE @]
rb_next(una, i) == IF i < Len(una) THEN i + 1 ELSE 0

\* Node i leaves the tree; when it was the first one, its successor takes over.
EraseAdvancing(L, i) ==
    LET next == rb_next(L.una, i)
    IN Then([rb_erase(L, i) EXCEPT !.num_u = @ - 1], LAMBDA M :
    IF L.first_u = i THEN [M EXCEPT !.first_u = IF next = 0 THEN 0 ELSE i] ELSE M)

insert_in_huge_tree(L, b) ==
    [L EXCEPT !.huge = @ \cup {b}, !.num_h = @ + 1,
              !.first_h = IF @ = 0 \/ @ > b + H - 1 THEN b ELSE @]

\* The pages of a run that starts at low, in ascending order: only the first of them
\* can become the first of the tree.
InsertPages(L, low, pages) ==
    [insert_in_huge_tree(L, low) EXCEPT !.huge = L.huge \cup pages,
                                        !.num_h = L.num_h + Cardinality(pages)]

\* The first huge page leaves the tree and its successor becomes the first.
FirstHugeTaken(L) ==
    LET rest == L.huge \ {L.first_h}
        after == {b \in rest : b > L.first_h}
    IN [L EXCEPT !.huge = rest, !.num_h = @ - 1,
                 !.first_h = IF after = {} THEN 0 ELSE Min(after)]

\* What an allocation returns: the list, the first block, how many; 0 is -ENOSPC.
Granted(L, b, n) == [list |-> [L EXCEPT !.num_free = @ - n], block |-> b, num |-> n]
Refused(L) == [list |-> L, block |-> 0, num |-> 0]

pmfs_alloc_superpage(L) == Granted(FirstHugeTaken(L), L.first_h, H)

\* No small ranges left: the first huge page becomes one.
BreakHugePage(L) ==
    LET b == L.first_h
    IN Then(Min(Gaps(L.una, b)), LAMBDA g :
    [InsertAtGap(FirstHugeTaken(L), g, Node(b, b + H - 1)) EXCEPT
         !.num_u = @ + 1, !.first_u = g + 1])

\* The walk from the first node: a request for large blocks wants them together,
\* another takes what the first node has.
pmfs_alloc_blocks_in_free_list(L, large, num) ==
    Then(IF L.first_u = 0 THEN BreakHugePage(L) ELSE L, LAMBDA broken :
    LET U == broken.una
        size(i) == U[i].high - U[i].low + 1
        fit == {i \in broken.first_u..Len(U) : ~(large /\ num > size(i))}
        i == Min(fit)
    IN Then(EraseAdvancing(broken, i), LAMBDA whole :
    LET part == [broken EXCEPT !.una[i].low = @ + num]
    IN IF (L.first_u = 0 /\ L.first_h = 0) \/ L.num_free = 0 THEN Refused(L)
       ELSE IF num = H /\ L.first_h # 0 THEN pmfs_alloc_superpage(L)
       ELSE IF fit = {} THEN Refused(broken)
       ELSE IF num >= size(i) THEN Granted(whole, U[i].low, size(i))
       ELSE Granted(part, U[i].low, num)))

\* Node i has grown: the huge pages inside it move to the huge tree. With a rest
\* on both sides the upper rest becomes a node of its own, linked under the key 0
\* its memory holds at that time: the left end of the walk.
check_and_insert_huge_aligned(L, i) ==
    LET n == L.una[i]
        low == IF IS_BLOCK_2MB_ALIGNED(n.low) THEN n.low ELSE n.low + H - (n.low % H)
        high == n.high - ((n.high + 1) % H)
        before == low # n.low
        after == high # n.high
        lower == [L EXCEPT !.una[i].high = low - 1]
    IN Then(IF before /\ after
            THEN [InsertAtGap(lower, 0, Node(high + 1, n.high)) EXCEPT !.num_u = @ + 1]
            ELSE IF before THEN lower
            ELSE IF after THEN [L EXCEPT !.una[i].low = high + 1]
            ELSE EraseAdvancing(L, i), LAMBDA kept :
    IF n.high - n.low + 1 < H \/ high <= low THEN L
    ELSE InsertPages(kept, low, {b \in low..high : IS_BLOCK_2MB_ALIGNED(b)}))

\* One round of the loop of pmfs_free_blocks, of at most one huge page, with the
\* search ending at gap g.
BugFreeAtGap(L, low, high, g) ==
    LET U == L.una
        left == g > 0 /\ low = U[g].high + 1
        right == g < Len(U) /\ high + 1 = U[g + 1].low
    IN IF left /\ right
       THEN [rb_erase([L EXCEPT !.una[g].high = high], g + 1) EXCEPT !.num_u = @ - 1]
       ELSE [InsertAtGap(L, g, Node(low, high)) EXCEPT !.num_u = @ + 1]
FreeAtGap(L, low, high, g) ==
    LET U == L.una
        left == g > 0 /\ low = U[g].high + 1
        right == g < Len(U) /\ high + 1 = U[g + 1].low
        grown == IF left /\ right
                 THEN [rb_erase([L EXCEPT !.una[g].high = U[g + 1].high], g + 1) EXCEPT !.num_u = @ - 1]
                 ELSE IF left THEN [L EXCEPT !.una[g].high = high]
                 ELSE [L EXCEPT !.una[g + 1].low = low]
    IN IF left \/ right THEN check_and_insert_huge_aligned(grown, IF left THEN g ELSE g + 1)
       ELSE [InsertAtGap(L, g, Node(low, high)) EXCEPT
                !.num_u = @ + 1, !.first_u = IF g = 0 THEN 1 ELSE @]

\* The place pmfs_find_free_slot can return, none for -EINVAL.
pmfs_find_free_slot(L, low, high) ==
    {g \in Gaps(L.una, low) : pmfs_find_range_node(L.una, low) = {}
                              /\ (g < Len(L.una) => high < L.una[g + 1].low)}

\* Every list one round can leave; none stands for an error that ends the loop.
FreeRound(L, low, high) ==
    LET count(M) == [M EXCEPT !.num_free = @ + high - low + 1]
    IN IF IS_BLOCK_2MB_ALIGNED(low) /\ high - low + 1 = H
       THEN {count(insert_in_huge_tree(L, low))}
       ELSE {count(FreeAtGap(L, low, high, g)) : g \in pmfs_find_free_slot(L, low, high)}

not_enough_blocks(L, num) == L.num_free < num \/ (L.first_u = 0 /\ L.first_h = 0)

get_block_cpuid(b) == b \div per_list_blocks

------------------------------------------------------------------------------
(* What a list stands for.                                                      *)

UnaBlocks(L) == UNION {Blocks(L.una[i]) : i \in DOMAIN L.una}
HugeBlocks(L) == UNION {HugePage(b) : b \in L.huge}
FreeBlocks(L) == UnaBlocks(L) \cup HugeBlocks(L)

\* No range overlaps another one or a huge page (two huge pages are apart by their
\* alignment).
Apart(L) ==
    /\ \A j, k \in DOMAIN L.una : j # k => Blocks(L.una[j]) \cap Blocks(L.una[k]) = {}
    /\ \A k \in DOMAIN L.una, b \in L.huge : Blocks(L.una[k]) \cap HugePage(b) = {}

\* The walk is in the order of the addresses.
InOrder(L) == \A i \in 1..Len(L.una) - 1 : L.una[i].high < L.una[i + 1].low
==============================================================================

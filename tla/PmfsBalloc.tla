------------------------------ MODULE PmfsBalloc ------------------------------
(* The block allocator of PMFS (balloc.c) and its reconstruction (bbuild.c): a  *)
(* sorted list of the ranges of blocks in use. Pure operators; Pmfs uses them.  *)
EXTENDS Integers, Sequences, SequencesExt, FiniteSets, FiniteSetsExt

CONSTANTS BlockEnd,   \* blocks are 0..BlockEnd-1
          InitUsed    \* blocks the super block and the journal take

Node(low, high) == [low |-> low, high |-> high]

\* The list after the format: the super block and the journal.
pmfs_init_blockmap == <<Node(0, InitUsed - 1)>>

NextLow(L, i) == IF i = Len(L) THEN BlockEnd ELSE L[i + 1].low

\* The range low..high, which lies between nodes i and i+1, becomes used.
Fill(L, i, low, high) ==
    LET left == low = L[i].high + 1
        right == high = NextLow(L, i) - 1
        last == i = Len(L)
    IN IF left /\ right /\ ~last THEN RemoveAt([L EXCEPT ![i].high = L[i + 1].high], i + 1)
       ELSE IF left THEN [L EXCEPT ![i].high = high]
       ELSE IF right /\ ~last THEN [L EXCEPT ![i + 1].low = low]
       ELSE InsertAt(L, i + 1, Node(low, high))

\* First fit, aligned to the size; 0 when there is no room.
pmfs_new_block(L, num) ==
    LET low(i) == ((L[i].high + num) \div num) * num
        fits == {i \in DOMAIN L : low(i) + num - 1 < NextLow(L, i)}
        i == Min(fits)
    IN IF fits = {} THEN [used |-> L, block |-> 0]
       ELSE [used |-> Fill(L, i, low(i), low(i) + num - 1), block |-> low(i)]

\* Where the search resumes for the next block of the same loop; 0 is no hint.
pmfs_next_blocknode(L, i) == IF i = Len(L) THEN 0 ELSE i + 1

\* Frees the num blocks from low; ok is FALSE for "Unable to free block".
__pmfs_free_block(L, low, num, hint) ==
    LET high == low + num - 1
        from == IF hint # 0 /\ low >= L[hint].low THEN hint ELSE 1
        holds == {i \in from..Len(L) : L[i].low <= low /\ high <= L[i].high}
        i == Min(holds)
        atLow == L[i].low = low
        atHigh == L[i].high = high
    IN IF holds = {} THEN [used |-> L, hint |-> hint, ok |-> FALSE]
       ELSE IF atLow /\ atHigh
            THEN [used |-> RemoveAt(L, i), hint |-> IF i = Len(L) THEN 0 ELSE i, ok |-> TRUE]
       ELSE IF atLow THEN [used |-> [L EXCEPT ![i].low = high + 1], hint |-> i, ok |-> TRUE]
       ELSE IF atHigh
            THEN [used |-> [L EXCEPT ![i].high = low - 1], hint |-> pmfs_next_blocknode(L, i),
                  ok |-> TRUE]
       ELSE [used |-> InsertAt([L EXCEPT ![i].high = low - 1], i + 1, Node(high + 1, L[i].high)),
             hint |-> i + 1, ok |-> TRUE]

\* A range found in use by the scan; one that overlaps a node is not inserted.
pmfs_alloc_insert_blocknode_map(L, low, high) ==
    LET fits == {i \in DOMAIN L : high < NextLow(L, i) /\ low > L[i].high}
    IN IF fits = {} THEN L ELSE Fill(L, Min(fits), low, high)

\* The maximal runs of the bits set in B, from bit 1 on, in ascending order.
Runs(B) ==
    LET C == B \ {0}
        starts == SetToSortSeq({b \in C : b - 1 \notin C}, <)
    IN [k \in DOMAIN starts |->
          Node(starts[k], Min({h \in C : h >= starts[k] /\ h + 1 \notin C}))]

\* Bits of a bitmap stand for scale blocks each.
__pmfs_build_blocknode_map(L, B, scale) ==
    FoldLeft(LAMBDA M, r : pmfs_alloc_insert_blocknode_map(M, r.low * scale,
                                                          (r.high + 1) * scale - 1),
             L, Runs(B))

\* The bitmap of small blocks first, then the one of large blocks.
pmfs_build_blocknode_map(L, small, large, scale) ==
    __pmfs_build_blocknode_map(__pmfs_build_blocknode_map(L, small, 1), large, scale)

------------------------------------------------------------------------------
(* What a list stands for.                                                      *)

UsedSet(L) == UNION {L[i].low..L[i].high : i \in DOMAIN L}

\* In order, disjoint, and never two nodes where one would do... except that two
\* adjacent large ranges inserted by the scan may stay apart.
Sorted(L) == \A i \in DOMAIN L : /\ L[i].low <= L[i].high /\ L[i].high < BlockEnd
                                 /\ i < Len(L) => L[i].high < L[i + 1].low
==============================================================================

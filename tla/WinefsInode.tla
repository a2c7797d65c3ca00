----------------------------- MODULE WinefsInode -----------------------------
(* WineFS inodes (inode.c) mounted with strong guarantees (strict): the tree of *)
(* blocks of a file, the pages of inodes, the truncate list. Every C function   *)
(* is an operator from machine states to machine states; Winefs makes system    *)
(* calls of them.                                                               *)
(*                                                                              *)
(* A machine state is a record                                                  *)
(*   m      persistent memory, pts the memories before each fence so far: where *)
(*          a power failure in the middle of a call finds it;                   *)
(*   list   the free list of the one CPU (WinefsBalloc);                        *)
(*   inuse  inode_inuse_tree, the inode numbers in use;                         *)
(*   trunc  s_truncate, the list of truncated inodes in memory;                 *)
(*   dir    the directories in memory, their entries and the last one used;     *)
(*   old    free_blk_list, the blocks a copy-on-write has replaced;             *)
(*   logged log_entries, the runs of pointers it has logged;                    *)
(*   gaps   history: where the code left its own rules (oops: the kernel stops; *)
(*          refused: a free of blocks failed; replaced: the pointer to a block  *)
(*          was overwritten; short: no space half way through; inplace: data is *)
(*          overwritten where it stands; beyond: data is written behind the end *)
(*          of the file; tail: a copied block keeps what it held before behind  *)
(*          the data; inodelist: the inode list is written to a block it gave   *)
(*          back);                                                              *)
(*   ret    what the last function returned.                                    *)
(* Blocks of files are of the small type, the only one pmfs_new_inode gives.    *)
(* Times, owners and modes other than the type are left out. The journal is the *)
(* undo list Undo, whose entries are durable when they are added.               *)
EXTENDS FsMachine, WinefsBalloc

CONSTANTS Inodes,      \* inode numbers the pages could hold
          PerTable,    \* inodes per page of the inode table
          NormalStart  \* PMFS_NORMAL_INODE_START

ASSUME WinefsAssumption ==
    /\ Cardinality(CPUs) = 1 /\ Cpus = 1 /\ Inodes = 0..(Cardinality(Inodes) - 1)
    /\ Fanout \in 2..Units /\ H \in Nat \ {0, 1}
    /\ PerTable > NormalStart /\ NormalStart > 3

\* An inode is 96 bytes on two lines: of the second one the first half is the
\* inode's, the rest is its truncate item.
Ino(i) == <<"ino", i>>
Item(i) == <<"item", i>>
ListHead == <<"list">>        \* pmfs_get_truncate_list_head
Page(k) == <<"page", k>>      \* the pointer to the k-th page of inodes
Undo == <<"undo">>

NoInode == [type |-> "none", nlink |-> 0, size |-> 0, root |-> Null, height |-> 0,
            dtime |-> FALSE, blocks |-> 0, eof |-> FALSE]
NoItem == [ino |-> 0, huge |-> FALSE, next |-> Null, size |-> 0]

Gap(s, g) == [s EXCEPT !.gaps = @ \cup {g}]

------------------------------------------------------------------------------
(* Transactions. tx is 0 for the functions called without one; an inode freed   *)
(* while a call backs out of its own transaction nests a second one.            *)

\* The old contents of some fields of a line, durable before the caller changes it.
pmfs_add_logentry(s, tx, l, F) ==
    IF tx = 0 THEN s
    ELSE Barrier(Fl(Put(s, Undo, Append(Get(s, Undo),
             [tx |-> tx, l |-> l, old |-> [f \in F |-> Get(s, l)[f]]])), {Undo}))

LogAll(s, tx, l) == pmfs_add_logentry(s, tx, l, DOMAIN Get(s, l))
LogPtrs(s, tx, b, lo, hi) == FoldLeft(LAMBDA t, j : LogAll(t, tx, Unit(b, j)), s, IndexSeq(lo, hi))

Drop(s, tx) == Barrier(Fl(Put(s, Undo, SelectSeq(Get(s, Undo), LAMBDA e : e.tx # tx)), {Undo}))
EntriesOf(s, tx) == SelectSeq(Get(s, Undo), LAMBDA e : e.tx = tx)

\* The logged lines are written back and durable before the commit record is.
BugCommitTransaction(s, tx) ==
    Drop(Fl(s, {e.l : e \in ToSet(EntriesOf(s, tx))}), tx)
pmfs_commit_transaction(s, tx) ==
    LET logged == {e.l : e \in ToSet(EntriesOf(s, tx))}
    IN Drop(Barrier(Fl(s, logged)), tx)

pmfs_undo_transaction(s, entries) ==
    FoldLeft(LAMBDA t, e : StFl(t, e.l, e.old), s, Reverse(entries))
pmfs_abort_transaction(s, tx) == Drop(Barrier(pmfs_undo_transaction(s, EntriesOf(s, tx))), tx)

------------------------------------------------------------------------------
(* Blocks.                                                                      *)

\* ret is the first block and how many there are; none for -ENOSPC.
pmfs_new_blocks(s, num, large, zero) ==
    Then(pmfs_alloc_blocks_in_free_list(s.list, large, num), LAMBDA r :
    LET t == [s EXCEPT !.list = r.list, !.ret = [b |-> r.block, n |-> r.num]]
    IN IF s.list.first_u = Dangling THEN Ret(Gap(s, "oops"), [b |-> 0, n |-> 0])
       ELSE IF zero /\ r.num > 0 THEN ZeroLines(t, UnitsOf(r.block, r.num)) ELSE t)

\* In rounds of at most a huge page. Where a walk is out of order one of the
\* places its search can end is taken; WinefsAlloc is about all of them.
pmfs_free_blocks(s, b, num) ==
    LET round(a, k) ==
            LET low == b + k * H
            IN Then(FreeRound(a.L, low, low + Min({H, num - k * H}) - 1), LAMBDA M :
            IF ~a.ok \/ M = {} THEN [a EXCEPT !.ok = FALSE]
            ELSE [a EXCEPT !.L = CHOOSE L \in M : TRUE])
        inside == b >= s.list.start /\ b + num <= s.list.end + 1
    IN Then(FoldLeft(round, [L |-> s.list, ok |-> inside], IndexSeq(0, (num - 1) \div H)), LAMBDA a :
    IF s.list.first_u = Dangling THEN Gap(s, "oops")
    ELSE [s EXCEPT !.list = a.L, !.gaps = IF a.ok THEN @ ELSE @ \cup {"refused"}])

pmfs_new_data_blocks(s, i, num, zero, wp) ==
    Then(pmfs_new_blocks(IF num = H /\ ~wp THEN St(s, Item(i), [huge |-> TRUE]) ELSE s,
                         num, FALSE, zero), LAMBDA t :
    IF t.ret.n = 0 THEN t ELSE St(t, Ino(i), [blocks |-> Get(t, Ino(i)).blocks + t.ret.n]))

\* The block that holds the n-th block of the file.
pmfs_find_data_block(m, i, n) ==
    LET p == Cur(m, Ino(i))
    IN IF n >= Span(p.height) THEN Null ELSE FindBlock(m, p.root, p.height, n)

\* That block and how many of the next ones follow it in the same meta block.
__pmfs_find_data_blocks(m, i, n, max) ==
    LET b(k) == pmfs_find_data_block(m, i, n + k)
        last == IF Cur(m, Ino(i)).height = 0 THEN 0
                ELSE Min({max - 1, Fanout - 1 - (n % Fanout)})
    IN Then({k \in 1..last : b(k) # b(0) + k}, LAMBDA breaks :
    [b |-> b(0), n |-> IF b(0) = Null THEN 0 ELSE Min({last + 1} \cup breaks)])

is_empty_meta_block(m, b, first, last) ==
    \A k \in (0..Fanout-1) \ (first..last) : Ptr(m, b, k) = Null

\* Blocks in a row are freed by one call.
Runs(ptrs) ==
    FoldLeft(LAMBDA a, b :
                IF b = Null THEN [a EXCEPT !.open = FALSE]
                ELSE IF a.open /\ Last(a.runs).b + Last(a.runs).n = b
                THEN [a EXCEPT !.runs[Len(a.runs)].n = @ + 1]
                ELSE [open |-> TRUE, runs |-> Append(a.runs, [b |-> b, n |-> 1])],
             [open |-> FALSE, runs |-> <<>>], ptrs).runs
FreeRuns(s, ptrs) == FoldLeft(LAMBDA t, r : pmfs_free_blocks(t, r.b, r.n), s, Runs(ptrs))

\* The blocks that a write has replaced.
truncate_strong_guarantees(s) == [FreeRuns(s, s.old) EXCEPT !.old = <<>>]

\* Frees the blocks first..last below meta block b; empty when b is left with
\* nothing in it, in which case its pointers stay as they were.
RECURSIVE recursive_truncate_blocks(_, _, _, _, _)
recursive_truncate_blocks(s, b, height, first, last) ==
    LET span == Span(height - 1)
        lo == first \div span
        hi == last \div span
        ptr(k) == Ptr(s.m, b, k)
        inner(a, k) ==
            IF ptr(k) = Null THEN a
            ELSE Then(recursive_truncate_blocks(a.s, ptr(k), height - 1,
                              FirstBlk(k, first, span), LastBlk(k, last, span)), LAMBDA r :
                 IF r.empty
                 THEN [a EXCEPT !.s = pmfs_free_blocks(r.s, ptr(k), 1), !.freed = @ + r.freed]
                 ELSE [a EXCEPT !.s = r.s, !.freed = @ + r.freed, !.all = FALSE,
                                !.start = IF k = lo THEN @ + 1 ELSE @,
                                !.end = IF k # lo /\ k = hi THEN @ - 1 ELSE @])
        none == [s |-> s, freed |-> 0, all |-> TRUE, start |-> lo, end |-> hi]
    IN Then(FoldLeft(LAMBDA q, k : Append(q, ptr(k)), <<>>, IndexSeq(lo, hi)), LAMBDA ptrs :
    Then(IF height = 1
         THEN [none EXCEPT !.s = FreeRuns(s, ptrs),
                           !.freed = Len(SelectSeq(ptrs, LAMBDA x : x # Null))]
         ELSE FoldLeft(inner, none, IndexSeq(lo, hi)), LAMBDA a :
    LET empty == a.all /\ is_empty_meta_block(a.s.m, b, lo, hi)
    IN [freed |-> a.freed, empty |-> empty,
        s |-> IF empty THEN a.s ELSE ZeroLines(a.s, {Unit(b, k) : k \in a.start..a.end})]))

pmfs_free_inode_subtree(s, root, height, last) ==
    IF root = Null THEN s
    ELSE IF height = 0 THEN pmfs_free_blocks(s, root, 1)
    ELSE Then(recursive_truncate_blocks(s, root, height, 0, last), LAMBDA r :
         IF r.empty THEN pmfs_free_blocks(r.s, root, 1) ELSE Gap(r.s, "oops"))

\* Root blocks that the shorter file does not need are freed on the way down; the
\* root and the height change in one 16-byte store.
pmfs_decrease_btree_height(s, i, newsize, newroot) ==
    LET p == Get(s, Ino(i))
        h == HeightFor((newsize + Units - 1) \div Units - 1)
    IN Then(FoldLeft(LAMBDA a, k : [s |-> pmfs_free_blocks(a.s, a.root, 1),
                                    root |-> Ptr(a.s.m, a.root, 0)],
                     [s |-> s, root |-> newroot], IndexSeq(h + 1, p.height)), LAMBDA down :
    IF p.blocks = 0 \/ newsize = 0
    THEN IF newroot # Null THEN Gap(s, "oops")
         ELSE St(s, Ino(i), [root |-> Null, height |-> 0])
    ELSE IF p.height = h THEN s
    ELSE St(down.s, Ino(i), [root |-> down.root, height |-> h]))

RECURSIVE pmfs_inode_count_iblocks_recursive(_, _, _)
pmfs_inode_count_iblocks_recursive(m, b, height) ==
    IF b = Null THEN 0
    ELSE IF height = 0 THEN 1
    ELSE FoldFunction(+, 0, [k \in 0..Fanout-1 |->
            pmfs_inode_count_iblocks_recursive(m, Ptr(m, b, k), height - 1)])

pmfs_inode_count_iblocks(m, p, root) == pmfs_inode_count_iblocks_recursive(m, root, p.height)

pmfs_sparse_last_blocknr(height, last) ==
    IF last >= Span(height) THEN Span(height) - 1 ELSE last

check_eof_blocks(s, i, size) ==
    LET p == Get(s, Ino(i))
    IN IF p.eof /\ size + Units > p.blocks * Units THEN St(s, Ino(i), [eof |-> FALSE]) ELSE s

\* The last block to look at when everything up to end is freed.
LastToFree(p, end) ==
    IF p.eof THEN Span(p.height) - 1 ELSE pmfs_sparse_last_blocknr(p.height, (end - 1) \div Units)

__pmfs_truncate_blocks(s, i, start, end, mounting) ==
    LET p == Get(s, Ino(i))
        first == (start + Units - 1) \div Units
    IN Then(IF p.height = 0
            THEN [s |-> pmfs_free_blocks(s, p.root, 1), freed |-> 1, empty |-> TRUE]
            ELSE Then(recursive_truncate_blocks(s, p.root, p.height, first, LastToFree(p, end)), LAMBDA t :
                 IF t.empty THEN [t EXCEPT !.s = pmfs_free_blocks(t.s, p.root, 1)] ELSE t), LAMBDA r :
    LET root == IF r.empty THEN Null ELSE p.root
    IN Then(IF mounting THEN pmfs_inode_count_iblocks(r.s.m, p, root) ELSE p.blocks - r.freed, LAMBDA left :
    Then(pmfs_decrease_btree_height(St(r.s, Ino(i), [blocks |-> left]), i, start, root), LAMBDA s2 :
    IF p.root = Null \/ (~p.eof /\ end = 0) THEN Fl(s, {Ino(i)})
    ELSE IF first > LastToFree(p, end) THEN Fl(s, {Ino(i)})
    ELSE Fl(check_eof_blocks(s2, i, start), {Ino(i)}))))

\* New roots on top of the old one. The caller is told of no failure and goes on
\* with a tree of the height it asked for.
pmfs_increase_btree_height(s, i, newheight) ==
    LET level(a, k) ==
            Then(pmfs_new_blocks(a.s, 1, FALSE, TRUE), LAMBDA t :
            IF ~a.ok THEN a
            ELSE IF t.ret.n = 0 THEN [a EXCEPT !.s = Gap(t, "oops"), !.ok = FALSE]
            ELSE [s |-> Fl(SetPtr(t, t.ret.b, 0, a.root), {Unit(t.ret.b, 0)}),
                  root |-> t.ret.b, height |-> a.height + 1, ok |-> TRUE])
        p == Get(s, Ino(i))
    IN Then(FoldLeft(level, [s |-> s, root |-> p.root, height |-> p.height, ok |-> TRUE],
                     IndexSeq(p.height + 1, newheight)), LAMBDA r :
    St(r.s, Ino(i), [root |-> r.root, height |-> r.height]))

\* Fills in the blocks first..last below meta block b; with cow, blocks that are
\* there are replaced and collected in old. The pointers of a block the tree already
\* had are logged, once, before the first of them changes. A run that begins at a
\* hole replaces the blocks behind it even without cow: nobody keeps them.
RECURSIVE recursive_alloc_blocks(_, _, _, _, _, _, _, _, _, _, _)
recursive_alloc_blocks(s, tx, i, b, height, first, last, isNew, zero, wp, cow) ==
    LET span == Span(height - 1)
        lo == first \div span
        hi == last \div span
        save(a, k) ==
            IF a.new \/ a.saved THEN a
            ELSE [a EXCEPT !.saved = TRUE,
                    !.s = [LogPtrs(@, tx, b, k, hi) EXCEPT
                             !.logged = IF height = 1 /\ cow
                                        THEN Append(@, [b |-> b, lo |-> k, hi |-> hi]) ELSE @]]
        fill(t, k, r) ==
            LET have == Ptr(t.m, b, k) # Null
            IN Then(SetPtr(t, b, k, r), LAMBDA u :
            [u EXCEPT !.old = IF have /\ cow THEN Append(@, Ptr(t.m, b, k)) ELSE @,
                      !.gaps = IF have /\ ~cow THEN @ \cup {"replaced"} ELSE @])
        leaf(a, k) ==
            Then(pmfs_new_data_blocks(a.s, i, hi - k + 1, zero, wp), LAMBDA t :
            LET r == t.ret
            IN Then(save([a EXCEPT !.s = t], k), LAMBDA c :
            IF k # a.next THEN a
            ELSE IF Ptr(a.s.m, b, k) # Null /\ ~cow THEN [a EXCEPT !.next = k + 1]
            ELSE IF r.n = 0 THEN [a EXCEPT !.s = St(t, Ino(i), [eof |-> TRUE]), !.ok = FALSE]
            ELSE [c EXCEPT !.next = k + r.n,
                           !.s = FoldLeft(LAMBDA u, j : fill(u, k + j, r.b + j), c.s,
                                          IndexSeq(0, r.n - 1))]))
        grow(a, k) ==
            Then(pmfs_new_blocks(a.s, 1, FALSE, TRUE), LAMBDA t :
            Then(save([a EXCEPT !.s = t], k), LAMBDA c :
            IF Ptr(a.s.m, b, k) # Null THEN a
            ELSE IF t.ret.n = 0 THEN [a EXCEPT !.s = t, !.ok = FALSE]
            ELSE [c EXCEPT !.s = SetPtr(c.s, b, k, t.ret.b), !.new = TRUE]))
        inner(a, k) ==
            Then(grow(a, k), LAMBDA c :
            Then(recursive_alloc_blocks(c.s, tx, i, Ptr(c.s.m, b, k), height - 1,
                     FirstBlk(k, first, span), LastBlk(k, last, span), c.new, zero, wp, cow), LAMBDA t :
            IF c.ok THEN [c EXCEPT !.s = t, !.ok = t.ret] ELSE c))
    IN Then(FoldLeft(LAMBDA x, k : IF ~x.ok THEN x
                                   ELSE IF height = 1 THEN leaf(x, k) ELSE inner(x, k),
                     [s |-> s, saved |-> FALSE, new |-> isNew, ok |-> TRUE, next |-> lo],
                     IndexSeq(lo, hi)), LAMBDA a :
    Then(IF height = 1
         THEN St(a.s, Ino(i), [blocks |-> Get(a.s, Ino(i)).blocks - Len(a.s.old)]) ELSE a.s, LAMBDA u :
    IF ~a.ok THEN Ret(Gap(a.s, "short"), FALSE)
    ELSE Ret(IF a.new \/ tx = 0 THEN Fl(u, {Unit(b, k) : k \in lo..hi}) ELSE u, TRUE)))

\* ret is FALSE for -ENOSPC. A write to a file of one block gives it a new one.
__pmfs_alloc_blocks(s, tx, i, blk, num, zero, wp, cow) ==
    LET p == Get(s, Ino(i))
        last == blk + num - 1
        height == IF last >= Span(p.height) THEN HeightFor(last) ELSE p.height
        kept == [s EXCEPT !.old = IF p.root # Null /\ cow THEN Append(@, p.root) ELSE @,
                          !.gaps = IF p.root # Null /\ ~cow THEN @ \cup {"replaced"} ELSE @]
    IN Then(pmfs_new_data_blocks(kept, i, 1, zero, wp), LAMBDA one :
    Then(IF height > p.height THEN pmfs_increase_btree_height(s, i, height) ELSE s, LAMBDA up :
    IF height > 3 THEN Ret(s, FALSE)
    ELSE IF height = 0 /\ (p.root = Null \/ wp)
    THEN IF one.ret.n = 0 THEN Ret(IF one.old = <<>> THEN one ELSE Gap(one, "short"), FALSE)
         ELSE Ret(St(one, Ino(i), [root |-> one.ret.b]), TRUE)
    ELSE IF height = 0 THEN Ret(s, TRUE)
    ELSE IF "oops" \in up.gaps THEN Ret(up, FALSE)
    ELSE recursive_alloc_blocks(up, tx, i, Get(up, Ino(i)).root, height, blk, last,
                                p.root = Null, zero, wp, cow)))

pmfs_alloc_blocks(s, tx, i, blk, num, zero, wp, cow) ==
    __pmfs_alloc_blocks(s, tx, i, blk, num, zero, wp, cow)
pmfs_alloc_blocks_weak(s, tx, i, blk, num, zero, wp) ==
    __pmfs_alloc_blocks(s, tx, i, blk, num, zero, wp, FALSE)

------------------------------------------------------------------------------
(* The pages of inodes.                                                         *)

\* A page that is not there yet is added behind the last one; ret is FALSE for NULL.
\* Between the special inodes and the first normal one there are none.
pmfs_get_inode(s, i) ==
    LET k == i \div PerTable
    IN Then(pmfs_new_blocks(s, H, TRUE, FALSE), LAMBDA t :
    LET lines == {Ino(j) : j \in {x \in Inodes : x \div PerTable = k}}
    IN Then(FoldSet(LAMBDA l, u : Fl(Put(u, l, NoInode), {l}), t, lines), LAMBDA clean :
    IF i > 3 /\ i < NormalStart THEN Ret(s, FALSE)
    ELSE IF Get(s, Page(k)).b # Null THEN Ret(s, TRUE)
    ELSE IF t.ret.n = 0 THEN Ret(t, FALSE)
    ELSE Ret(Barrier(StFl(clean, Page(k), [b |-> t.ret.b])), TRUE)))

Free(p) == p.nlink = 0 /\ (p.type = "none" \/ p.dtime)

\* pmfs_read_inode: a free inode is -ESTALE.
pmfs_iget(m, i) == ~Free(Cur(m, Ino(i)))

\* None of these writes the line back.
pmfs_update_inode(s, i, r) == St(s, Ino(i), r)
pmfs_update_nlink(s, i, n) == St(s, Ino(i), [nlink |-> n])
pmfs_update_isize(s, i, size) == St(s, Ino(i), [size |-> size])

\* ret is FALSE when the number was not in use.
pmfs_free_inuse_inode(s, i) == Ret([s EXCEPT !.inuse = @ \ {i}], i \in s.inuse)

\* The inode is free once its own transaction commits.
pmfs_free_inode(s, i, tx) ==
    Then(LogAll(s, tx, Ino(i)), LAMBDA s1 :
    Then(St(s1, Ino(i), [root |-> Null, size |-> 0, dtime |-> TRUE]), LAMBDA s2 :
    pmfs_free_inuse_inode(pmfs_commit_transaction(s2, tx), i)))

pmfs_delete_dir_tree(s, i) == [s EXCEPT !.dir = [d \in DOMAIN @ \ {i} |-> @[d]]]

pmfs_free_inode_resource(s, i, tx) ==
    pmfs_free_inode(pmfs_delete_dir_tree(s, i), i, tx)

\* PERSISTENT_BARRIER, unlink, PERSISTENT_BARRIER; nothing for an inode not listed.
pmfs_truncate_del(s, i) ==
    LET at == CHOOSE k \in DOMAIN s.trunc : s.trunc[k] = i
        next == [next |-> Get(s, Item(i)).next]
    IN Then(Barrier([s EXCEPT !.trunc = RemoveAt(@, at)]), LAMBDA t :
    IF i \notin ToSet(s.trunc) THEN s
    ELSE Barrier(StFl(t, IF at = 1 THEN ListHead ELSE Item(s.trunc[at - 1]), next)))

\* The item is durable before the head points to it; within a transaction the head
\* is left for a later fence.
BugTruncateAdd(s, i, size, tx) ==
    Then(StFl(Barrier(StFl(s, Item(i), [size |-> size])), ListHead, [next |-> i]), LAMBDA s2 :
    IF i \in ToSet(s.trunc) THEN s
    ELSE [IF tx = 0 THEN Barrier(s2) ELSE s2 EXCEPT !.trunc = <<i>> \o @])
pmfs_truncate_add(s, i, size, tx) ==
    Then(StFl(s, Item(i), [next |-> Get(s, ListHead).next, size |-> size]), LAMBDA s1 :
    Then(StFl(Barrier(s1), ListHead, [next |-> i]), LAMBDA s2 :
    IF i \in ToSet(s.trunc) THEN s
    ELSE [IF tx = 0 THEN Barrier(s2) ELSE s2 EXCEPT !.trunc = <<i>> \o @]))

\* The last reference to the inode goes: its own transaction is number tx.
pmfs_evict_inode(s, i, nlink, tx) ==
    LET p == Get(s, Ino(i))
        last == IF p.eof \/ p.size # 0 THEN LastToFree(p, p.size) ELSE 0
    IN Then(pmfs_free_inode_resource(s, i, tx), LAMBDA s1 :
    Then(IF s1.ret THEN pmfs_free_inode_subtree(s1, p.root, p.height, last) ELSE s1, LAMBDA s2 :
    IF nlink = 0 /\ p.type \in {"file", "dir", "symlink"} THEN pmfs_truncate_del(s2, i)
    ELSE pmfs_truncate_del(pmfs_delete_dir_tree(s, i), i)))

\* The lowest number that is not in use: behind the first range of the tree.
pmfs_alloc_unused_inode(s) == Min((0..Cardinality(s.inuse)) \ s.inuse)

\* The inode comes without a root of its own: what the last user left must be 0.
pmfs_new_inode(s, tx, type) ==
    LET i == pmfs_alloc_unused_inode(s)
    IN Then(pmfs_get_inode([s EXCEPT !.inuse = @ \cup {i}], i), LAMBDA g :
    Then(pmfs_add_logentry(LogAll(g, tx, Ino(i)), tx, Item(i), {"ino", "huge"}), LAMBDA s1 :
    Then(St(St(s1, Ino(i), [eof |-> FALSE, height |-> 0, dtime |-> FALSE]),
            Item(i), [huge |-> FALSE, ino |-> i]), LAMBDA s2 :
    Then(pmfs_update_inode(s2, i, [type |-> type, nlink |-> 1, size |-> 0, blocks |-> 0]), LAMBDA s3 :
    IF ~g.ret THEN Ret(Gap(g, "oops"), -1)
    ELSE Ret([s3 EXCEPT !.dir = IF type = "dir" THEN (i :> [ents |-> <<>>, last |-> <<>>]) @@ @
                                ELSE @], i)))))

------------------------------------------------------------------------------
(* Sizes.                                                                       *)

pmfs_block_truncate_page(s, i, newsize) ==
    Then(pmfs_find_data_block(s.m, i, newsize \div Units), LAMBDA b :
    IF newsize % Units = 0 \/ newsize > Get(s, Ino(i)).size \/ b = Null THEN s
    ELSE ZeroLines(s, {Unit(b, u) : u \in (newsize % Units)..(Units - 1)}))

pmfs_setsize(s, i, newsize, mounting) ==
    LET old == Get(s, Ino(i)).size
    IN Then(IF newsize # old THEN pmfs_block_truncate_page(s, i, newsize) ELSE s, LAMBDA s1 :
    Barrier(__pmfs_truncate_blocks(s1, i, newsize, old, mounting)))

\* ftruncate; the attributes that follow are times and modes, which are left out.
pmfs_notify_change(s, i, newsize) ==
    LET p == Get(s, Ino(i))
    IN Then(pmfs_setsize(pmfs_truncate_add(s, i, newsize, 0), i, newsize, FALSE), LAMBDA s1 :
    Then(Fl(pmfs_update_isize(s1, i, newsize), {Ino(i)}), LAMBDA s2 :
    Ret(IF newsize = p.size /\ ~p.eof THEN s ELSE pmfs_truncate_del(s2, i), "ok")))
==============================================================================

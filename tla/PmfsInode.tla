------------------------------ MODULE PmfsInode ------------------------------
(* PMFS inodes (inode.c): the tree of blocks of a file, the inode table, the    *)
(* truncate list. Every C function is an operator from machine states to        *)
(* machine states; Pmfs makes system calls of them.                             *)
(*                                                                              *)
(* A machine state is a record                                                  *)
(*   m      persistent memory, pts the memories before each fence so far: where *)
(*          a power failure in the middle of a call finds it;                   *)
(*   used, free, ok      block_inuse_head, num_free_blocks, and that no free    *)
(*          was refused and no BUG_ON of the trees fired;                       *)
(*   icount, ifree, hint s_inodes_count, s_free_inodes_count, s_free_inode_hint;*)
(*   trunc  s_truncate, the list of truncated inodes in memory;                 *)
(*   ret    what the last function returned.                                    *)
(* The in-core copies of size and link count are written through by the code    *)
(* and are not kept apart. Times, owners and modes other than the type are left *)
(* out. The journal is the undo list Undo, whose entries are durable when they  *)
(* are added (PmfsJournal is about how).                                        *)
EXTENDS FsMachine, PmfsBalloc

CONSTANTS Inodes,     \* inode numbers the device could hold
          PerTable,   \* inodes per block of the inode table
          HintStart,  \* PMFS_FREE_INODE_HINT_START
          Large       \* blocks in a data block of the large type

ASSUME PmfsAssumption ==
    /\ Cardinality(CPUs) = 1 /\ Inodes = 0..(Cardinality(Inodes) - 1)
    /\ Fanout \in 2..Units /\ Large \in Nat \ {0}
    /\ InitUsed \in 1..BlockEnd /\ PerTable \in Nat \ {0}

Ino(i) == <<"ino", i>>
Item(i) == <<"item", i>>      \* pmfs_get_truncate_item
ListHead == <<"list">>        \* pmfs_get_truncate_list_head
Table == <<"table">>          \* the inode of the inode table
Undo == <<"undo">>

NoInode == [type |-> "none", nlink |-> 0, size |-> 0, root |-> Null, height |-> 0,
            dtime |-> FALSE, blocks |-> 0, eof |-> FALSE, bt |-> 1]

------------------------------------------------------------------------------
(* Transactions. tx is 0 for the functions called without one; an inode freed   *)
(* while a call backs out of its own transaction nests a second one.            *)

\* The old contents of some fields of a line, durable before the caller changes it.
pmfs_add_logentry(s, tx, l, F) ==
    IF tx = 0 THEN s
    ELSE Barrier(Fl(Put(s, Undo, Append(Get(s, Undo),
             [tx |-> tx, l |-> l, old |-> [f \in F |-> Get(s, l)[f]]])), {Undo}))

LogAll(s, tx, l) == pmfs_add_logentry(s, tx, l, DOMAIN Get(s, l))

Drop(s, tx) == Barrier(Fl(Put(s, Undo, SelectSeq(Get(s, Undo), LAMBDA e : e.tx # tx)), {Undo}))
EntriesOf(s, tx) == SelectSeq(Get(s, Undo), LAMBDA e : e.tx = tx)

\* The commit record not ordered after the logged lines.
BugCommitTransaction(s, tx) ==
    Drop(Fl(s, {e.l : e \in ToSet(EntriesOf(s, tx))}), tx)

\* The logged lines are written back and durable before the commit record is.
pmfs_commit_transaction(s, tx) ==
    LET logged == {e.l : e \in ToSet(EntriesOf(s, tx))}
    IN Drop(Barrier(Fl(s, logged)), tx)

Undone(s, entries) == FoldLeft(LAMBDA t, e : StFl(t, e.l, e.old), s, Reverse(entries))
pmfs_abort_transaction(s, tx) == Drop(Barrier(Undone(s, EntriesOf(s, tx))), tx)

------------------------------------------------------------------------------
(* Blocks.                                                                      *)

NewBlock(s, num, zero) ==
    Then(pmfs_new_block(s.used, num), LAMBDA r :
    LET t == [s EXCEPT !.used = r.used, !.free = @ - num, !.ret = r.block]
    IN IF r.block = 0 THEN Ret(s, 0)
       ELSE IF zero THEN ZeroLines(t, UnitsOf(r.block, num)) ELSE t)

\* One free of a loop that passes its hint from block to block.
FreeFrom(s, b, num, hint) ==
    Then(__pmfs_free_block(s.used, b, num, hint), LAMBDA r :
    [s EXCEPT !.used = r.used, !.free = IF r.ok THEN @ + num ELSE @,
              !.ok = @ /\ r.ok, !.ret = r.hint])

pmfs_free_block(s, b, num) == FreeFrom(s, b, num, 0)

pmfs_new_data_block(s, pi, zero) ==
    Then(NewBlock(s, Get(s, pi).bt, zero), LAMBDA t :
    IF t.ret = 0 THEN t
    ELSE St(t, pi, [blocks |-> Get(t, pi).blocks + Get(t, pi).bt]))

\* The block that holds the n-th block of the file, counted in small blocks.
pmfs_find_data_block(m, pi, n) ==
    LET p == Cur(m, pi)
    IN Then(FindBlock(m, p.root, p.height, n \div p.bt), LAMBDA b :
    IF n \div p.bt >= Span(p.height) \/ b = Null THEN Null ELSE b + (n % p.bt))

is_empty_meta_block(m, b, first, last) ==
    \A i \in (0..Fanout-1) \ (first..last) : Ptr(m, b, i) = Null

\* Frees the blocks first..last below meta block b; ret is TRUE when b is left
\* with nothing in it, in which case its pointers stay as they were.
RECURSIVE recursive_truncate_blocks(_, _, _, _, _, _)
recursive_truncate_blocks(s, b, height, bt, first, last) ==
    LET span == Span(height - 1)
        lo == first \div span
        hi == last \div span
        ptr(i) == Ptr(s.m, b, i)
        leaf(a, i) == IF ptr(i) = Null THEN a
                      ELSE Then(FreeFrom(a.s, ptr(i), bt, a.hint), LAMBDA t :
                           [a EXCEPT !.s = t, !.hint = t.ret, !.freed = @ + 1])
        inner(a, i) ==
            IF ptr(i) = Null THEN a
            ELSE Then(recursive_truncate_blocks(a.s, ptr(i), height - 1, bt,
                              FirstBlk(i, first, span), LastBlk(i, last, span)), LAMBDA r :
                 IF r.empty
                 THEN [a EXCEPT !.s = pmfs_free_block(r.s, ptr(i), 1), !.freed = @ + r.freed]
                 ELSE [a EXCEPT !.s = r.s, !.freed = @ + r.freed, !.all = FALSE,
                                !.start = IF i = lo THEN @ + 1 ELSE @,
                                !.end = IF i # lo /\ i = hi THEN @ - 1 ELSE @])
    IN Then(FoldLeft(LAMBDA x, i : IF height = 1 THEN leaf(x, i) ELSE inner(x, i),
                     [s |-> s, hint |-> 0, freed |-> 0, all |-> TRUE, start |-> lo, end |-> hi],
                     IndexSeq(lo, hi)), LAMBDA a :
    LET empty == a.all /\ is_empty_meta_block(a.s.m, b, lo, hi)
    IN [freed |-> a.freed, empty |-> empty,
        s |-> IF empty THEN a.s ELSE ZeroLines(a.s, {Unit(b, i) : i \in a.start..a.end})])

\* ret is FALSE where the code's BUG_ON would fire.
pmfs_free_inode_subtree(s, root, height, bt, last) ==
    IF root = Null THEN Ret(s, TRUE)
    ELSE IF height = 0 THEN Ret(pmfs_free_block(s, root, bt), TRUE)
    ELSE Then(recursive_truncate_blocks(s, root, height, bt, 0, last), LAMBDA r :
         Ret(pmfs_free_block(r.s, root, 1), r.empty))

\* Root blocks that the shorter file does not need are freed on the way down; the
\* root and the height change in one 16-byte store.
pmfs_decrease_btree_height(s, pi, newsize, newroot) ==
    LET p == Get(s, pi)
        bytes == p.bt * Units
        h == HeightFor((newsize + bytes - 1) \div bytes - 1)
    IN Then(FoldLeft(LAMBDA a, k : [s |-> pmfs_free_block(a.s, a.root, 1),
                                    root |-> Ptr(a.s.m, a.root, 0)],
                     [s |-> s, root |-> newroot], IndexSeq(h + 1, p.height)), LAMBDA down :
    IF p.blocks = 0 \/ newsize = 0
    THEN [St(s, pi, [root |-> newroot, height |-> 0]) EXCEPT !.ok = @ /\ newroot = Null]
    ELSE IF p.height = h THEN s
    ELSE St(down.s, pi, [root |-> down.root, height |-> h]))

RECURSIVE pmfs_inode_count_iblocks_recursive(_, _, _)
pmfs_inode_count_iblocks_recursive(m, b, height) ==
    IF b = Null THEN 0
    ELSE IF height = 0 THEN 1
    ELSE FoldFunction(+, 0, [i \in 0..Fanout-1 |->
            pmfs_inode_count_iblocks_recursive(m, Ptr(m, b, i), height - 1)])

pmfs_inode_count_iblocks(m, p, root) ==
    p.bt * pmfs_inode_count_iblocks_recursive(m, root, p.height)

pmfs_sparse_last_blocknr(height, last) ==
    IF last >= Span(height) THEN Span(height) - 1 ELSE last

check_eof_blocks(s, pi, size) ==
    LET p == Get(s, pi)
    IN IF p.eof /\ size + Units > p.blocks * Units THEN St(s, pi, [eof |-> FALSE]) ELSE s

\* The last block to look at when everything up to end is freed.
LastToFree(p, end) ==
    IF p.eof THEN Span(p.height) - 1
    ELSE pmfs_sparse_last_blocknr(p.height, (end - 1) \div (p.bt * Units))

__pmfs_truncate_blocks(s, i, start, end, mounting) ==
    LET pi == Ino(i)
        p == Get(s, pi)
        bytes == p.bt * Units
        first == (start + bytes - 1) \div bytes
    IN Then(IF p.height = 0
            THEN [s |-> pmfs_free_block(s, p.root, p.bt), freed |-> 1, empty |-> TRUE]
            ELSE Then(recursive_truncate_blocks(s, p.root, p.height, p.bt, first,
                                                LastToFree(p, end)), LAMBDA t :
                 IF t.empty THEN [t EXCEPT !.s = pmfs_free_block(t.s, p.root, 1)] ELSE t), LAMBDA r :
    LET root == IF r.empty THEN Null ELSE p.root
    IN Then(IF mounting THEN pmfs_inode_count_iblocks(r.s.m, p, root)
                        ELSE p.blocks - r.freed * p.bt, LAMBDA left :
    Then(St(r.s, pi, [blocks |-> left]), LAMBDA s1 :
    Then(pmfs_decrease_btree_height(s1, pi, start, root), LAMBDA s2 :
    IF p.root = Null \/ (~p.eof /\ end = 0) THEN Fl(s, {pi})
    ELSE IF first > LastToFree(p, end) THEN Fl(s, {pi})
    ELSE Fl(check_eof_blocks(s2, pi, start), {pi})))))

\* New roots on top of the old one; what fails half way keeps the levels it has.
pmfs_increase_btree_height(s, pi, newheight) ==
    LET level(a, k) ==
            IF ~a.ok THEN a
            ELSE Then(NewBlock(a.s, 1, TRUE), LAMBDA t :
                 IF t.ret = 0 THEN [a EXCEPT !.ok = FALSE]
                 ELSE [s |-> Fl(SetPtr(t, t.ret, 0, a.root), {Unit(t.ret, 0)}),
                       root |-> t.ret, height |-> a.height + 1, ok |-> TRUE])
        p == Get(s, pi)
    IN Then(FoldLeft(level, [s |-> s, root |-> p.root, height |-> p.height, ok |-> TRUE],
                     IndexSeq(p.height + 1, newheight)), LAMBDA r :
    Ret(StFl(r.s, pi, [root |-> r.root, height |-> r.height]), r.ok))

\* Fills in the blocks first..last below meta block b; the pointers of a block the
\* tree already had are logged, once, before the first of them changes.
RECURSIVE recursive_alloc_blocks(_, _, _, _, _, _, _, _, _)
recursive_alloc_blocks(s, tx, pi, b, height, first, last, isNew, zero) ==
    LET span == Span(height - 1)
        lo == first \div span
        hi == last \div span
        save(a, i) ==
            IF a.new \/ a.saved THEN a
            ELSE [a EXCEPT !.saved = TRUE,
                           !.s = FoldLeft(LAMBDA t, j : LogAll(t, tx, Unit(b, j)), @,
                                          IndexSeq(i, hi))]
        leaf(a, i) ==
            Then(pmfs_new_data_block(a.s, pi, zero), LAMBDA t :
            Then(save([a EXCEPT !.s = t], i), LAMBDA c :
            IF Ptr(a.s.m, b, i) # Null THEN a
            ELSE IF t.ret = 0 THEN [a EXCEPT !.s = StFl(t, pi, [eof |-> TRUE]), !.ok = FALSE]
            ELSE [c EXCEPT !.s = SetPtr(c.s, b, i, t.ret)]))
        grow(a, i) ==
            Then(NewBlock(a.s, 1, TRUE), LAMBDA t :
            Then(save([a EXCEPT !.s = t], i), LAMBDA c :
            IF Ptr(a.s.m, b, i) # Null THEN a
            ELSE IF t.ret = 0 THEN [a EXCEPT !.ok = FALSE]
            ELSE [c EXCEPT !.s = SetPtr(c.s, b, i, t.ret), !.new = TRUE]))
        inner(a, i) ==
            Then(grow(a, i), LAMBDA c :
            Then(recursive_alloc_blocks(c.s, tx, pi, Ptr(c.s.m, b, i), height - 1,
                     FirstBlk(i, first, span), LastBlk(i, last, span), c.new, zero), LAMBDA t :
            IF c.ok THEN [c EXCEPT !.s = t, !.ok = t.ret] ELSE c))
    IN Then(FoldLeft(LAMBDA x, i : IF ~x.ok THEN x
                                   ELSE IF height = 1 THEN leaf(x, i) ELSE inner(x, i),
                     [s |-> s, saved |-> FALSE, new |-> isNew, ok |-> TRUE], IndexSeq(lo, hi)), LAMBDA a :
    Ret(IF a.ok /\ (a.new \/ tx = 0) THEN Fl(a.s, {Unit(b, i) : i \in lo..hi}) ELSE a.s, a.ok))

\* ret is FALSE for -ENOSPC.
__pmfs_alloc_blocks(s, tx, pi, blk, num, zero) ==
    LET p == Get(s, pi)
        first == blk \div p.bt
        last == (blk + num - 1) \div p.bt
        height == IF last >= Span(p.height) THEN HeightFor(last) ELSE p.height
    IN Then(pmfs_new_data_block(s, pi, zero), LAMBDA one :
    Then(IF height > p.height \/ p.root = Null
         THEN pmfs_increase_btree_height(s, pi, height) ELSE Ret(s, TRUE), LAMBDA up :
    IF height > 3 THEN Ret(s, FALSE)
    ELSE IF p.root = Null /\ height = 0
    THEN IF one.ret = 0 THEN Ret(one, FALSE)
         ELSE Ret(StFl(one, pi, [root |-> one.ret, height |-> 0]), TRUE)
    ELSE IF height = 0 THEN Ret(s, TRUE)
    ELSE IF ~up.ret THEN up
    ELSE recursive_alloc_blocks(up, tx, pi, Get(up, pi).root, height, first, last,
                                p.root = Null, zero)))

pmfs_alloc_blocks(s, tx, i, blk, num, zero) == __pmfs_alloc_blocks(s, tx, Ino(i), blk, num, zero)

------------------------------------------------------------------------------
(* The inode table.                                                             *)

Free(p) == p.nlink = 0 /\ (p.type = "none" \/ p.dtime)

\* pmfs_read_inode: a free inode is -ESTALE.
pmfs_iget(m, i) == ~Free(Cur(m, Ino(i)))

pmfs_update_inode(s, i, r) == StFl(s, Ino(i), r)
pmfs_update_nlink(s, i, n) == StFl(s, Ino(i), [nlink |-> n])
pmfs_update_isize(s, i, size) == StFl(s, Ino(i), [size |-> size])

\* The inode is free once its own transaction commits.
pmfs_free_inode(s, i, tx) ==
    Then(LogAll(s, tx, Ino(i)), LAMBDA s1 :
    Then(StFl(s1, Ino(i), [root |-> Null, size |-> 0, dtime |-> TRUE]), LAMBDA s2 :
    Then(pmfs_commit_transaction(s2, tx), LAMBDA s3 :
    LET nfree == s3.ifree + 1
    IN [s3 EXCEPT !.ifree = nfree,
                  !.hint = IF nfree = s3.icount - HintStart THEN HintStart
                           ELSE IF i < s3.hint THEN i ELSE s3.hint])))

\* PERSISTENT_BARRIER, unlink, PERSISTENT_BARRIER; nothing for an inode not listed.
pmfs_truncate_del(s, i) ==
    LET at == CHOOSE k \in DOMAIN s.trunc : s.trunc[k] = i
        next == [next |-> Get(s, Item(i)).next]
    IN Then(Barrier([s EXCEPT !.trunc = RemoveAt(@, at)]), LAMBDA t :
    IF i \notin ToSet(s.trunc) THEN s
    ELSE Barrier(StFl(t, IF at = 1 THEN ListHead ELSE Item(s.trunc[at - 1]), next)))

\* The item does not point to the rest of the list.
BugTruncateAdd(s, i, size, tx) ==
    Then(StFl(Barrier(StFl(s, Item(i), [size |-> size])), ListHead, [next |-> i]), LAMBDA s2 :
    IF i \in ToSet(s.trunc) THEN s
    ELSE [IF tx = 0 THEN Barrier(s2) ELSE s2 EXCEPT !.trunc = <<i>> \o @])

\* The item is durable before the head points to it; within a transaction the head
\* is left for a later fence.
pmfs_truncate_add(s, i, size, tx) ==
    Then(StFl(s, Item(i), [next |-> Get(s, ListHead).next, size |-> size]), LAMBDA s1 :
    Then(StFl(Barrier(s1), ListHead, [next |-> i]), LAMBDA s2 :
    IF i \in ToSet(s.trunc) THEN s
    ELSE [IF tx = 0 THEN Barrier(s2) ELSE s2 EXCEPT !.trunc = <<i>> \o @]))

\* The last reference to the inode goes: its own transaction is number tx.
pmfs_evict_inode(s, i, nlink, tx) ==
    LET p == Get(s, Ino(i))
        last == IF p.eof \/ p.size # 0 THEN LastToFree(p, p.size) ELSE 0
    IN Then(pmfs_free_inode_subtree(pmfs_free_inode(s, i, tx), p.root, p.height, p.bt, last), LAMBDA s1 :
    IF nlink = 0 /\ p.type \in {"file", "dir", "symlink"}
    THEN pmfs_truncate_del([s1 EXCEPT !.ok = @ /\ s1.ret], i)
    ELSE pmfs_truncate_del(s, i))

pmfs_increase_inode_table_size(s, tx) ==
    LET p == Get(s, Table)
    IN Then(LogAll(s, tx, Table), LAMBDA s1 :
    Then(__pmfs_alloc_blocks(s1, tx, Table, p.size \div Units, 1, TRUE), LAMBDA s2 :
    Then(IF ~s2.ret THEN s2
         ELSE [StFl(s2, Table, [size |-> p.size + Units]) EXCEPT
                 !.hint = (p.size \div Units) * PerTable,
                 !.ifree = @ + PerTable, !.icount = (p.size \div Units + 1) * PerTable], LAMBDA s3 :
    Ret(pmfs_commit_transaction(s3, tx), s2.ret))))

\* The first free inode from the hint on; a larger table when there is none. ret is
\* the inode, or -1.
pmfs_new_inode(s, tx, type) ==
    LET free(t) == {i \in t.hint..(t.icount - 1) : Free(Get(t, Ino(i)))}
    IN Then(IF free(s) = {} THEN pmfs_increase_inode_table_size(s, tx + 1) ELSE Ret(s, TRUE), LAMBDA g :
    LET i == Min(free(g))
    IN Then(StFl(LogAll(g, tx, Ino(i)), Ino(i),
                 [bt |-> 1, eof |-> FALSE, height |-> 0, dtime |-> FALSE]), LAMBDA s1 :
    LET s2 == [s1 EXCEPT !.ifree = @ - 1, !.hint = IF i < s1.icount - 1 THEN i + 1 ELSE HintStart]
    IN Then(pmfs_update_inode(s2, i, [type |-> type, nlink |-> 1, size |-> 0, blocks |-> 0]), LAMBDA s3 :
    IF ~g.ret THEN Ret(g, -1) ELSE Ret(s3, i))))

------------------------------------------------------------------------------
(* Sizes.                                                                       *)

pmfs_set_blocksize_hint(s, i, newsize) ==
    IF Get(s, Ino(i)).root # Null THEN s
    ELSE St(s, Ino(i), [bt |-> IF newsize >= Large * Units THEN Large ELSE 1])

pmfs_block_truncate_page(s, i, newsize) ==
    Then(pmfs_find_data_block(s.m, Ino(i), newsize \div Units), LAMBDA b :
    IF newsize % Units = 0 \/ newsize > Get(s, Ino(i)).size \/ b = Null THEN s
    ELSE ZeroLines(s, {Unit(b, u) : u \in (newsize % Units)..(Units - 1)}))

pmfs_setsize(s, i, newsize, mounting) ==
    LET old == Get(s, Ino(i)).size
    IN Then(IF newsize # old THEN pmfs_block_truncate_page(s, i, newsize) ELSE s, LAMBDA s1 :
    Barrier(__pmfs_truncate_blocks(s1, i, newsize, old, mounting)))

\* ftruncate; the attributes that follow are times and modes, which are left out.
pmfs_notify_change(s, i, newsize) ==
    LET p == Get(s, Ino(i))
    IN Then(pmfs_truncate_add(s, i, newsize, 0), LAMBDA s1 :
    Then(pmfs_setsize(pmfs_set_blocksize_hint(s1, i, newsize), i, newsize, FALSE), LAMBDA s2 :
    Then(Fl(pmfs_update_isize(s2, i, newsize), {Ino(i)}), LAMBDA s3 :
    Ret(IF newsize = p.size /\ ~p.eof THEN s ELSE pmfs_truncate_del(s3, i), "ok"))))
==============================================================================

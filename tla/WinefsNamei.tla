----------------------------- MODULE WinefsNamei -----------------------------
(* WineFS directories and file contents (dir.c, namei.c, xip.c, file.c,         *)
(* symlink.c) as operators on the machine states of WinefsInode.                *)
(*                                                                              *)
(* A directory is kept twice: as entries chained through its blocks, and in     *)
(* memory as a tree from names to those entries, with the entry last used. Every*)
(* name takes one unit of a block; the length of an entry is in units. "." and  *)
(* ".." are left out of the tree in memory, no name is ever looked up there     *)
(* under them. ret is TRUE for success.                                         *)
EXTENDS WinefsInode

CONSTANTS Names    \* names other than "." and ".."

De(ino, name, len) == [k |-> "de", ino |-> ino, name |-> name, len |-> len]

\* A unit of a directory block as an entry; what was never one has no length.
AsDe(v) == IF v.k = "de" THEN v ELSE De(Null, ".", 0)
DeAt(m, b, p) == AsDe(Cur(m, Unit(b, p)))

pmfs_check_dir_entry(de, p) == de.len >= 1 /\ p + de.len <= Units

\* The positions of the entries of a block, in order, up to a damaged one.
Chain(m, b) ==
    LET from[p \in 0..2*Units] ==
            IF p >= Units \/ ~pmfs_check_dir_entry(DeAt(m, b, p), p) THEN <<>>
            ELSE <<p>> \o from[p + DeAt(m, b, p).len]
    IN from[0]

DirBlocks(m, d) == Cur(m, Ino(d)).size \div Units

\* The entries of a directory, block by block: pairs of a block and a position.
Entries(m, d) ==
    FoldLeft(LAMBDA q, n :
                Then(pmfs_find_data_block(m, d, n), LAMBDA b :
                IF b = Null THEN q
                ELSE q \o FoldLeft(LAMBDA r, p : Append(r, <<b, p>>), <<>>, Chain(m, b))),
             <<>>, IndexSeq(0, DirBlocks(m, d) - 1))

\* Everything but "." and "..".
pmfs_readdir(m, d) ==
    Then({DeAt(m, e[1], e[2]) : e \in ToSet(Entries(m, d))}, LAMBDA des :
    {<<de.name, de.ino>> : de \in {x \in des : x.ino # Null /\ x.name \in Names}})

------------------------------------------------------------------------------
(* The tree in memory.                                                          *)

pmfs_find_dentry(s, d, name) ==
    IF name \in DOMAIN s.dir[d].ents THEN s.dir[d].ents[name] ELSE <<>>

pmfs_inode_by_name(s, d, name) ==
    LET e == pmfs_find_dentry(s, d, name) IN IF e = <<>> THEN Null ELSE DeAt(s.m, e[1], e[2]).ino

\* A name that is there already keeps its entry.
pmfs_insert_dir_tree(D, name, e) == [D EXCEPT !.ents = @ @@ (name :> e)]

\* The node stays in the tree.
BugRemoveDirTree(s, d, name) == s
pmfs_remove_dir_tree(s, d, name) ==
    [s EXCEPT !.dir[d].ents = [n \in DOMAIN @ \ {name} |-> @[n]]]

\* When the inode of a directory is read.
pmfs_rebuild_dir_inode_tree(m, d) ==
    FoldLeft(LAMBDA D, e :
                LET de == DeAt(m, e[1], e[2])
                    E == [D EXCEPT !.last = e]
                IN IF de.ino = Null \/ de.name \notin Names THEN E
                   ELSE pmfs_insert_dir_tree(E, de.name, e),
             [ents |-> <<>>, last |-> <<>>], Entries(m, d))

pmfs_empty_dir(s, d) == s.dir[d].ents = <<>>

------------------------------------------------------------------------------
(* Entries.                                                                     *)

\* at is <<>> to go on behind the entry last used: it is split when it has room and
\* taken when it is unused; nothing in front of it is ever taken again.
pmfs_add_dirent_to_buf(s, tx, d, name, ino, b, at) ==
    LET e == IF at = <<>> THEN s.dir[d].last ELSE at
        de == DeAt(s.m, e[1], e[2])
        next == <<e[1], e[2] + 1>>
    IN Then(St(Put(pmfs_add_logentry(s, tx, Unit(e[1], e[2]), {"len"}),
                   Unit(b, next[2]), De(Null, name, Units - next[2])),
               Unit(e[1], e[2]), [len |-> 1]), LAMBDA split :
    Then(IF at = <<>> THEN St(s, Unit(e[1], e[2]), [len |-> Units - e[2]]) ELSE s, LAMBDA whole :
    Then(pmfs_add_logentry(whole, tx, Unit(e[1], e[2]), {"ino"}), LAMBDA taken :
    LET fill(t, x) == [StFl(t, Unit(x[1], x[2]), [ino |-> ino, name |-> name]) EXCEPT
                          !.dir[d] = pmfs_insert_dir_tree([@ EXCEPT !.last = x], name, x)]
    IN IF e = <<>> THEN Ret(s, FALSE)
       ELSE IF de.ino # Null /\ de.len < 2 THEN Ret(s, FALSE)
       ELSE Ret(IF de.ino # Null THEN fill(split, next) ELSE fill(taken, e), TRUE))))

\* The last block, or one more; ret is FALSE for -ENOSPC.
pmfs_add_entry(s, tx, d, name, ino) ==
    LET n == DirBlocks(s.m, d)
    IN Then(LogAll(s, tx, Ino(d)), LAMBDA s1 :
    Then(pmfs_add_dirent_to_buf(s1, tx, d, name, ino,
                                pmfs_find_data_block(s1.m, d, n - 1), <<>>), LAMBDA s2 :
    Then(pmfs_alloc_blocks_weak(s2, tx, d, n, 1, FALSE, FALSE), LAMBDA s3 :
    Then(pmfs_update_isize(s3, d, (n + 1) * Units), LAMBDA s4 :
    Then(pmfs_find_data_block(s4.m, d, n), LAMBDA b :
    Then(Put(s4, Unit(b, 0), De(Null, name, Units)), LAMBDA s5 :
    IF s2.ret THEN s2
    ELSE IF ~s3.ret THEN s3
    ELSE pmfs_add_dirent_to_buf(s5, 0, d, name, ino, b, <<b, 0>>)))))))

\* Nothing is checked: a name that is not in the tree, or whose entry is not its own,
\* leaves the pointer that is written to unset.
pmfs_remove_entry(s, tx, d, name) ==
    LET e == pmfs_find_dentry(s, d, name)
        de == DeAt(s.m, e[1], e[2])
        s1 == pmfs_remove_dir_tree(s, d, name)
    IN Then(St(pmfs_add_logentry(s1, tx, Unit(e[1], e[2]), {"ino"}),
               Unit(e[1], e[2]), [ino |-> Null]), LAMBDA s2 :
    IF e = <<>> THEN Gap(s, "oops")
    ELSE IF de.ino = Null \/ de.name # name THEN Gap(s, "oops")
    ELSE LogAll(s2, tx, Ino(d)))

------------------------------------------------------------------------------
(* Calls on directories. A call's transaction is number 1.                      *)

pmfs_inc_count(s, i) == pmfs_update_nlink(s, i, Get(s, Ino(i)).nlink + 1)
pmfs_dec_count(s, i) ==
    IF Get(s, Ino(i)).nlink = 0 THEN s ELSE pmfs_update_nlink(s, i, Get(s, Ino(i)).nlink - 1)

Abort(s, err) == Ret(pmfs_abort_transaction(s, 1), err)
Commit(s) == Ret(pmfs_commit_transaction(s, 1), "ok")

\* An inode the call created and now gives up, evicted before the transaction is
\* aborted.
GiveUp(s, i) == pmfs_evict_inode(pmfs_dec_count(s, i), i, 0, 2)

pmfs_add_nondir(s, d, name, i) ==
    Then(pmfs_add_entry(s, 1, d, name, i), LAMBDA t :
    IF t.ret THEN t ELSE Ret(GiveUp(t, i), FALSE))

pmfs_create(s, d, name) ==
    Then(pmfs_new_inode(s, 1, "file"), LAMBDA s1 :
    Then(pmfs_add_nondir(s1, d, name, s1.ret), LAMBDA s2 :
    IF s1.ret = -1 THEN Ret(s1, "oops")
    ELSE IF s2.ret THEN Commit(s2) ELSE Abort(s2, "ENOSPC")))

pmfs_mknod(s, d, name) ==
    Then(pmfs_new_inode(s, 1, "special"), LAMBDA s1 :
    Then(pmfs_add_nondir(s1, d, name, s1.ret), LAMBDA s2 :
    IF s1.ret = -1 THEN Ret(s1, "oops")
    ELSE IF s2.ret THEN Commit(s2) ELSE Abort(s2, "ENOSPC")))

\* The target is one unit long and is written back with its terminator.
pmfs_block_symlink(s, i, target) ==
    Then(pmfs_alloc_blocks_weak(s, 0, i, 0, 1, FALSE, FALSE), LAMBDA t :
    Then(pmfs_find_data_block(t.m, i, 0), LAMBDA b :
    IF ~t.ret THEN t
    ELSE Ret(Fl(Put(Put(t, Unit(b, 0), [k |-> "data", v |-> target]), Unit(b, 1), Zero),
                {Unit(b, 0), Unit(b, 1)}), TRUE)))

pmfs_symlink(s, d, name, target) ==
    Then(pmfs_new_inode(s, 1, "symlink"), LAMBDA s1 :
    LET i == s1.ret
    IN Then(pmfs_block_symlink(s1, i, target), LAMBDA s2 :
    Then(pmfs_add_nondir(pmfs_update_isize(s2, i, 1), d, name, i), LAMBDA s3 :
    IF i = -1 THEN Ret(s1, "oops")
    ELSE IF ~s2.ret THEN Abort(GiveUp(s2, i), "ENOSPC")
    ELSE IF s3.ret THEN Commit(s3) ELSE Abort(s3, "ENOSPC"))))

pmfs_link(s, i, d, name) ==
    Then(pmfs_add_entry(LogAll(s, 1, Ino(i)), 1, d, name, i), LAMBDA s1 :
    IF s1.ret THEN Commit(St(s1, Ino(i), [nlink |-> Get(s1, Ino(i)).nlink + 1]))
    ELSE Abort(s1, "ENOSPC"))

pmfs_unlink(s, d, name) ==
    Then(pmfs_inode_by_name(s, d, name), LAMBDA i :
    LET n == Get(s, Ino(i)).nlink
    IN Then(pmfs_remove_entry(LogAll(s, 1, Ino(i)), 1, d, name), LAMBDA s1 :
    Then(IF n = 1 THEN pmfs_truncate_add(s1, i, Get(s, Ino(i)).size, 1) ELSE s1, LAMBDA s2 :
    Commit(St(s2, Ino(i), [nlink |-> IF n = 0 THEN 0 ELSE n - 1])))))

\* The new directory has an empty tree in memory and no entry last used.
pmfs_mkdir(s, d, name) ==
    Then(pmfs_new_inode(s, 1, "dir"), LAMBDA s1 :
    LET i == s1.ret
    IN Then(pmfs_alloc_blocks_weak(s1, 0, i, 0, 1, FALSE, FALSE), LAMBDA s2 :
    Then(pmfs_find_data_block(s2.m, i, 0), LAMBDA b :
    Then(Put(Put(s2, Unit(b, 0), De(i, ".", 1)), Unit(b, 1), De(d, "..", Units - 1)), LAMBDA s3 :
    Then(Barrier(Fl(s3, {Unit(b, 0), Unit(b, 1)})), LAMBDA s4 :
    Then(pmfs_add_entry(s4, 1, d, name, i), LAMBDA s5 :
    Then(St(s5, Ino(i), [nlink |-> 2, size |-> Units]), LAMBDA s6 :
    IF i = -1 THEN Ret(s1, "oops")
    ELSE IF ~s2.ret THEN Abort(pmfs_evict_inode(s2, i, 0, 2), "ENOSPC")
    ELSE IF ~s5.ret THEN Abort(pmfs_evict_inode(s5, i, 0, 2), "ENOSPC")
    ELSE Commit(pmfs_inc_count(s6, d)))))))))

pmfs_rmdir(s, d, name) ==
    Then(pmfs_inode_by_name(s, d, name), LAMBDA i :
    Then(pmfs_remove_entry(LogAll(s, 1, Ino(i)), 1, d, name), LAMBDA s1 :
    Then(pmfs_truncate_add(St(s1, Ino(i), [nlink |-> 0]), i, Get(s, Ino(i)).size, 1), LAMBDA s2 :
    IF ~pmfs_empty_dir(s, i) THEN Ret(s, "ENOTEMPTY") ELSE Commit(pmfs_dec_count(s2, d)))))

\* An entry of the new name is redirected, otherwise one is added; the old entry goes;
\* the inode that lost its name goes on the truncate list with its last link.
pmfs_rename(s, od, oname, nd, nname) ==
    Then(pmfs_inode_by_name(s, od, oname), LAMBDA i :
    LET e == pmfs_find_dentry(s, nd, nname)
    IN Then(pmfs_inode_by_name(s, nd, nname), LAMBDA j :
    LET dir == Get(s, Ino(i)).type = "dir"
    IN Then(LogAll(s, 1, Ino(i)), LAMBDA s1 :
    Then(LogAll(St(pmfs_add_logentry(s1, 1, Unit(e[1], e[2]), {"ino"}),
                   Unit(e[1], e[2]), [ino |-> i]), 1, Ino(nd)), LAMBDA over :
    Then(IF j = Null THEN pmfs_add_entry(s1, 1, nd, nname, i) ELSE Ret(over, TRUE), LAMBDA s2 :
    Then(pmfs_remove_entry(s2, 1, od, oname), LAMBDA s3 :
    LET left == Max({0, Get(s, Ino(j)).nlink - IF dir THEN 2 ELSE 1})
    IN Then(St(LogAll(s3, 1, Ino(j)), Ino(j), [nlink |-> left]), LAMBDA s4 :
    Then(IF left = 0 THEN pmfs_truncate_add(s4, j, Get(s, Ino(j)).size, 1) ELSE s4, LAMBDA s5 :
    Then(IF dir THEN pmfs_dec_count(pmfs_inc_count(s3, nd), od) ELSE s3, LAMBDA s6 :
    IF j # Null /\ dir /\ ~pmfs_empty_dir(s, j) THEN Abort(s, "ENOTEMPTY")
    ELSE IF ~s2.ret THEN Abort(s2, "ENOSPC")
    ELSE Commit(IF j = Null THEN s6 ELSE s5))))))))))

------------------------------------------------------------------------------
(* File contents.                                                               *)

\* n units from position off of the blocks from b on, past the caches; the first stays in
\* the cache when pmfs_flush_edge_cachelines is forgotten.
BugMemcpyToNvmm(s, b, off, n, v) ==
    LET L == {Unit(b, off + k) : k \in 0..(n - 1)}
    IN Fl(FoldSet(LAMBDA l, t : Put(t, l, [k |-> "data", v |-> v]), s, L), L \ {Unit(b, off)})
memcpy_to_nvmm(s, b, off, n, v) ==
    LET L == {Unit(b, off + k) : k \in 0..(n - 1)}
    IN Fl(FoldSet(LAMBDA l, t : Put(t, l, [k |-> "data", v |-> v]), s, L), L)

\* Within one block that exists: the data is durable before the size. Data that is
\* overwritten may be there in part after a power failure, data behind the end of the
\* file stays there.
pmfs_file_write_fast(s, i, b, pos, n, v) ==
    Then(memcpy_to_nvmm(s, b, pos % Units, n, v), LAMBDA s1 :
    LET p == Get(s, Ino(i))
    IN Then(IF pos + n > p.size THEN pmfs_update_isize(Barrier(Gap(s1, "beyond")), i, pos + n)
            ELSE Gap(s1, "inplace"), LAMBDA s2 :
    Barrier(Fl(s2, {Ino(i)}))))

\* What an edge block holds around the data: the units up to the first one written, or
\* from the last one on.
EdgeUnits(off, isEnd) == IF isEnd THEN off..(Units - 1) ELSE 0..off

pmfs_clear_edge_blk(s, i, isNew, n, off, isEnd) ==
    Then(pmfs_find_data_block(s.m, i, n), LAMBDA b :
    IF ~isNew \/ b = Null THEN s ELSE ZeroLines(s, {Unit(b, u) : u \in EdgeUnits(off, isEnd)}))

\* Read from the file as it was in m, written to its new block.
pmfs_copy_to_edge_blk(s, m, i, over, n, off, isEnd) ==
    Then(pmfs_find_data_block(m, i, n), LAMBDA old :
    Then(pmfs_find_data_block(s.m, i, n), LAMBDA b :
    LET put(t, u) == Fl(Put(t, Unit(b, u), Cur(m, Unit(old, u))), {Unit(b, u)})
    IN IF ~over \/ b = Null THEN s
       ELSE FoldSet(LAMBDA u, t : put(t, u), s, EdgeUnits(off, isEnd))))

\* A run of blocks, allocated where the file has none: in the transaction of the call,
\* or in one of its own when a page of a mapped file is touched.
pmfs_find_and_alloc_blocks(s, i, n, max, inCall) ==
    Then(__pmfs_find_data_blocks(s.m, i, n, max), LAMBDA have :
    Then(IF inCall THEN pmfs_alloc_blocks_weak(s, 1, i, n, max, TRUE, FALSE)
         ELSE Then(pmfs_alloc_blocks_weak(LogAll(s, 1, Ino(i)), 1, i, n, max, TRUE, FALSE), LAMBDA u :
              Ret(pmfs_commit_transaction(u, 1), u.ret)), LAMBDA t :
    IF have.n > 0 THEN Ret(s, have)
    ELSE Ret(t, IF t.ret THEN __pmfs_find_data_blocks(t.m, i, n, max) ELSE [b |-> Null, n |-> 0])))

\* Run by run, up to a block that cannot be had; ret is how much was written.
RECURSIVE WriteRuns(_, _, _, _, _, _)
WriteRuns(s, i, pos, count, v, done) ==
    LET n == pos \div Units
    IN Then(pmfs_find_and_alloc_blocks(s, i, n, (pos + count - 1) \div Units - n + 1, TRUE), LAMBDA t :
    LET bytes == Min({t.ret.n * Units - (pos % Units), count})
    IN IF count = 0 THEN Ret(s, done)
       ELSE IF t.ret.n = 0 THEN Ret(t, done)
       ELSE WriteRuns(memcpy_to_nvmm(t, t.ret.b, pos % Units, bytes, v), i, pos + bytes,
                      count - bytes, v, done + bytes))

__pmfs_xip_file_write(s, i, pos, count, v) ==
    Then(WriteRuns(s, i, pos, count, v, 0), LAMBDA t :
    IF pos + t.ret > Get(s, Ino(i)).size
    THEN Ret(pmfs_update_isize(t, i, pos + t.ret), t.ret) ELSE t)

\* The blocks written to are new ones, with cow those that the file had as well; what
\* is around the data is cleared or copied. The end block of a write that goes past the
\* end of the file is not copied and keeps, behind the data, what it held before.
WriteToNew(s, i, pos, count, v, cow) ==
    LET p == Get(s, Ino(i))
        start == pos \div Units
        num == (count + (pos % Units) - 1) \div Units + 1
        end == start + num - 1
        off == pos % Units
        eoff == (pos + count) % Units
        has(n) == pmfs_find_data_block(s.m, i, n) # Null
    IN Then(has(end) /\ pos + count < p.size, LAMBDA copied :
    Then(LogAll(s, 1, Ino(i)), LAMBDA s1 :
    Then(pmfs_alloc_blocks(s1, 1, i, start, num, FALSE, TRUE, cow), LAMBDA s2 :
    Then(pmfs_clear_edge_blk(s2, i, off # 0 /\ ~has(start), start, off, FALSE), LAMBDA s3 :
    Then(pmfs_clear_edge_blk(s3, i, eoff # 0 /\ ~has(end), end, eoff, TRUE), LAMBDA s4 :
    Then(pmfs_copy_to_edge_blk(s4, s.m, i, cow /\ off # 0 /\ has(start), start, off, FALSE), LAMBDA s5 :
    Then(pmfs_copy_to_edge_blk(s5, s.m, i, cow /\ eoff # 0 /\ copied, end, eoff, TRUE), LAMBDA s6 :
    Then(IF cow /\ eoff # 0 /\ has(end) /\ ~copied THEN Gap(s6, "tail")
         ELSE IF ~cow /\ \E n \in start..end : has(n) THEN Gap(s6, "beyond") ELSE s6, LAMBDA s7 :
    __pmfs_xip_file_write(s7, i, pos, count, v)))))))))

\* The logged pointers are set back to the blocks the file had, one after the other
\* whichever was replaced where; s.old becomes the list of the new ones.
SwapBack(s) ==
    Then(FoldLeft(LAMBDA q, r : q \o FoldLeft(LAMBDA x, k : Append(x, Unit(r.b, k)), <<>>,
                                             IndexSeq(r.lo, r.hi)),
                  <<>>, s.logged), LAMBDA at :
    LET used == SelectSeq(at, LAMBDA l : Get(s, l).k = "ptr")
    IN Then(FoldLeft(LAMBDA t, l : LogAll(t, 1, l), s, at), LAMBDA log :
    Then(FoldLeft(LAMBDA t, k : Put(t, used[k], [k |-> "ptr", b |-> s.old[k]]), log,
                  IndexSeq(1, Len(used))), LAMBDA swap :
    LET new == FoldLeft(LAMBDA q, l : Append(q, Get(s, l).b), <<>>, used)
    IN IF Len(used) > Len(s.old) \/ used = <<>> THEN Gap(s, "oops") ELSE [swap EXCEPT !.old = new])))

Written(s, count) == Ret([s EXCEPT !.old = <<>>, !.logged = <<>>],
                         IF s.ret = count THEN "ok" ELSE "ENOSPC")

\* A huge page keeps its place: the data goes to new blocks first, then, in a second
\* transaction, to the old ones.
pmfs_xip_cow_file_write(s, i, pos, count, v) ==
    Then(pmfs_find_data_block(s.m, i, pos \div Units), LAMBDA b :
    Then(WriteToNew(s, i, pos, count, v, TRUE), LAMBDA t :
    Then(pmfs_commit_transaction(t, 1), LAMBDA s1 :
    Then(__pmfs_xip_file_write(SwapBack(s1), i, pos, count, v), LAMBDA u :
    Then(truncate_strong_guarantees(pmfs_commit_transaction(u, 1)), LAMBDA s2 :
    IF b # Null /\ (count + (pos % Units) - 1) \div Units = 0
    THEN Ret(pmfs_file_write_fast(s, i, b, pos, count, v), "ok")
    ELSE IF s1.old = <<>> THEN Written(Ret(s1, t.ret), count)
    ELSE Written(Ret(s2, u.ret), count))))))

pmfs_xip_file_write(s, i, pos, count, v) ==
    LET over == pos < Get(s, Ino(i)).size
    IN Then(pmfs_find_data_block(s.m, i, pos \div Units), LAMBDA b :
    Then(WriteToNew(s, i, pos, count, v, over), LAMBDA t :
    Then(truncate_strong_guarantees(pmfs_commit_transaction(t, 1)), LAMBDA s1 :
    IF over /\ Get(s, Item(i)).huge THEN pmfs_xip_cow_file_write(s, i, pos, count, v)
    ELSE IF ~over /\ b # Null /\ (count + (pos % Units) - 1) \div Units = 0
    THEN Ret(pmfs_file_write_fast(s, i, b, pos, count, v), "ok")
    ELSE Written(Ret(s1, t.ret), count))))

pmfs_fallocate(s, i, off, len, keep) ==
    Then(pmfs_alloc_blocks_weak(LogAll(s, 1, Ino(i)), 1, i, off \div Units,
                                ((off % Units) + len + Units - 1) \div Units, TRUE, FALSE), LAMBDA s1 :
    LET p == Get(s1, Ino(i))
    IN Then(St(s1, Ino(i), [eof |-> p.eof \/ ~s1.ret \/ keep,
                            size |-> IF ~keep /\ off + len > p.size THEN off + len ELSE p.size]), LAMBDA s2 :
    Ret(pmfs_commit_transaction(s2, 1), IF s1.ret THEN "ok" ELSE "ENOSPC")))

\* A page, or a huge page, of a mapped file is written to; past the end it is SIGBUS.
pmfs_iomap_begin(s, i, n, num) == pmfs_find_and_alloc_blocks(s, i, n, num, FALSE)
pmfs_xip_huge_file_fault(s, i, n, num) ==
    IF (n + num - 1) * Units >= Get(s, Ino(i)).size THEN Ret(s, "EFAULT")
    ELSE Ret(pmfs_iomap_begin(s, i, n, num), "ok")

------------------------------------------------------------------------------
(* Reads.                                                                       *)

\* Everything a read from pos to the end of the file can return, page by page. For a
\* hole that is not on the last page the length is never set: any part of the rest may
\* come back as zeros, and pages that are there are passed over.
do_xip_mapping_read(m, i, pos) ==
    LET size == Cur(m, Ino(i)).size
        b(p) == pmfs_find_data_block(m, i, p \div Units)
        page(p) == Min({size, (p \div Units + 1) * Units})
        data(p) == FoldLeft(LAMBDA q, u : Append(q, Cur(m, Unit(b(p), u % Units))), <<>>,
                            IndexSeq(p, page(p) - 1))
        zeros(k) == [x \in 1..k |-> Zero]
        from[p \in 0..size] ==
            IF p = size THEN {<<>>}
            ELSE IF b(p) # Null THEN {data(p) \o r : r \in from[page(p)]}
            ELSE IF p \div Units = (size - 1) \div Units THEN {zeros(size - p)}
            ELSE UNION {{zeros(k) \o r : r \in from[p + k]} : k \in 1..(size - p)}
    IN from[pos]

\* a counts the blocks passed and says whether data and a hole were met; a search for data
\* ends at the first.
RECURSIVE recursive_find_region(_, _, _, _, _, _, _)
recursive_find_region(m, b, height, first, last, hole, acc) ==
    LET span == Span(height - 1)
        done(a) == ~hole /\ a.data
        leaf(a, k) ==
            LET data == Ptr(m, b, k) # Null
                c == [a EXCEPT !.data = @ \/ data, !.hole = @ \/ ~data]
            IN IF done(c) THEN c
               ELSE IF ~c.hole \/ ~hole THEN [c EXCEPT !.blocks = @ + span] ELSE c
        step(a, k) ==
            IF done(a) THEN a
            ELSE IF height = 1 \/ Ptr(m, b, k) = Null THEN leaf(a, k)
            ELSE recursive_find_region(m, Ptr(m, b, k), height - 1, FirstBlk(k, first, span),
                                       LastBlk(k, last, span), hole, a)
    IN FoldLeft(step, acc, IndexSeq(first \div span, last \div span))

\* Blocks are counted as if the search had begun at the start of one.
BugFindRegion(m, i, off, hole) ==
    LET p == Cur(m, Ino(i))
    IN Then(IF p.height = 0 THEN [blocks |-> 0, data |-> TRUE, hole |-> FALSE]
            ELSE recursive_find_region(m, p.root, p.height, off \div Units, p.size \div Units,
                     hole, [blocks |-> 0, data |-> FALSE, hole |-> FALSE]), LAMBDA r :
    IF off >= p.size \/ (~hole /\ ~r.data) THEN -1
    ELSE IF r.data /\ ~r.hole THEN IF hole THEN p.size ELSE off
    ELSE off + r.blocks * Units)

\* The offset that SEEK_DATA or SEEK_HOLE moves to; -1 is ENXIO.
pmfs_find_region(m, i, off, hole) ==
    LET p == Cur(m, Ino(i))
    IN Then(IF p.height = 0 THEN [blocks |-> 0, data |-> TRUE, hole |-> FALSE]
            ELSE recursive_find_region(m, p.root, p.height, off \div Units, p.size \div Units,
                     hole, [blocks |-> 0, data |-> FALSE, hole |-> FALSE]), LAMBDA r :
    LET inBlock == off % Units
    IN CASE off >= p.size -> -1
         [] off < p.size /\ (p.blocks = 0 \/ p.root = Null) -> IF hole THEN p.size ELSE -1
         [] OTHER ->
              IF ~hole /\ ~r.data /\ r.hole THEN -1
              ELSE IF r.data /\ ~r.hole THEN IF hole THEN p.size ELSE off
              ELSE IF hole /\ r.hole /\ r.blocks = 0 THEN IF r.data THEN off ELSE p.size
              ELSE IF inBlock # 0 THEN off + (r.blocks - 1) * Units + (Units - inBlock)
              ELSE off + r.blocks * Units)
==============================================================================

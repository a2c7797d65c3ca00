------------------------------ MODULE PmfsNamei ------------------------------
(* PMFS directories and file contents (dir.c, namei.c, xip.c, file.c,           *)
(* symlink.c) as operators on the machine states of PmfsInode.                  *)
(*                                                                              *)
(* Every name takes one unit of a directory block; the length of an entry is in *)
(* units. ret is TRUE for success.                                              *)
EXTENDS PmfsInode

CONSTANTS Names    \* names other than "." and ".."

De(ino, name, len) == [k |-> "de", ino |-> ino, name |-> name, len |-> len]

\* A unit of a directory block as an entry; what was never one has no length.
AsDe(v) == IF v.k = "de" THEN v ELSE De(Null, ".", 0)
DeAt(m, b, p) == AsDe(Cur(m, Unit(b, p)))

pmfs_check_dir_entry(de, p) == de.len >= 1 /\ p + de.len <= Units

\* r is 1, 0 (not here) or -1 (damaged block); at and prev are positions, prev is -1
\* for the first entry of the block.
pmfs_search_dirblock(m, b, name) ==
    LET from[x \in (0..2*Units) \X ((-1)..2*Units)] ==
            LET p == x[1]
                de == DeAt(m, b, p)
            IN IF p >= Units THEN [r |-> 0, at |-> -1, prev |-> -1]
               ELSE IF de.ino # Null /\ de.name = name
                    THEN [r |-> IF pmfs_check_dir_entry(de, p) THEN 1 ELSE -1, at |-> p,
                          prev |-> x[2]]
               ELSE IF de.len <= 0 THEN [r |-> -1, at |-> -1, prev |-> -1]
               ELSE from[<<p + de.len, p>>]
    IN from[<<0, -1>>]

DirBlocks(m, d) == Cur(m, Ino(d)).size \div Units

\* The first block in which the search ends; the search starts where the last one
\* was successful, which changes nothing for a name that occurs once.
FirstHit(m, d, name) ==
    {n \in 0..(DirBlocks(m, d) - 1) :
        LET b(k) == pmfs_find_data_block(m, Ino(d), k)
            hit(k) == b(k) = Null \/ pmfs_search_dirblock(m, b(k), name).r # 0
        IN hit(n) /\ ~\E k \in 0..(n - 1) : hit(k)}

\* The entry of a name: its block and position, or NoDe.
NoDe == [b |-> Null, at |-> -1, prev |-> -1]
LookUp(m, d, name) ==
    Then(FirstHit(m, d, name), LAMBDA H :
    Then(pmfs_find_data_block(m, Ino(d), CHOOSE n \in H : TRUE), LAMBDA b :
    Then(pmfs_search_dirblock(m, b, name), LAMBDA r :
    IF H = {} THEN NoDe
    ELSE IF b = Null THEN NoDe
    ELSE IF r.r # 1 THEN NoDe ELSE [b |-> b, at |-> r.at, prev |-> r.prev])))

pmfs_inode_by_name(m, d, name) ==
    Then(LookUp(m, d, name), LAMBDA e :
    IF e = NoDe THEN Null ELSE DeAt(m, e.b, e.at).ino)

------------------------------------------------------------------------------
(* Entries.                                                                     *)

\* The positions of the entries of a block.
Chain(m, b) ==
    LET to[p \in 0..2*Units] ==
            IF p >= Units THEN {}
            ELSE {p} \cup (IF DeAt(m, b, p).len <= 0 THEN {} ELSE to[p + DeAt(m, b, p).len])
    IN to[0]

\* An unused entry is taken, a used one with slack is split. at is -1 to search.
pmfs_add_dirent_to_buf(s, tx, name, ino, b, at) ==
    Then({p \in Chain(s.m, b) : LET de == DeAt(s.m, b, p)
                                IN IF de.ino # Null THEN de.len - 1 >= 1 ELSE de.len >= 1}, LAMBDA room :
    LET p == IF at >= 0 THEN at ELSE Min(room)
        de == DeAt(s.m, b, p)
    IN Then(St(Put(pmfs_add_logentry(s, tx, Unit(b, p), {"len"}),
                   Unit(b, p + 1), De(Null, name, de.len - 1)),
               Unit(b, p), [len |-> 1]), LAMBDA split :
    Then(pmfs_add_logentry(s, tx, Unit(b, p), {"ino"}), LAMBDA used :
    LET fill(t, q) == StFl(t, Unit(b, q), [ino |-> ino, name |-> name])
    IN IF at < 0 /\ room = {} THEN Ret(s, FALSE)
       ELSE Ret(IF de.ino # Null THEN fill(split, p + 1) ELSE fill(used, p), TRUE))))

\* The first block with room, or one more block; ret is FALSE for -ENOSPC.
pmfs_add_entry(s, tx, d, name, ino) ==
    Then(LogAll(s, tx, Ino(d)), LAMBDA s1 :
    LET n == DirBlocks(s.m, d)
        try(t, k) == IF t.ret THEN t
                     ELSE pmfs_add_dirent_to_buf(t, tx, name, ino,
                              pmfs_find_data_block(t.m, Ino(d), k), -1)
    IN Then(FoldLeft(try, Ret(s1, FALSE), IndexSeq(0, n - 1)), LAMBDA s2 :
    Then(pmfs_alloc_blocks(s2, tx, d, n, 1, FALSE), LAMBDA s3 :
    Then(pmfs_update_isize(s3, d, (n + 1) * Units), LAMBDA s4 :
    Then(pmfs_find_data_block(s4.m, Ino(d), n), LAMBDA b :
    Then(Put(s4, Unit(b, 0), De(Null, name, Units)), LAMBDA s5 :
    IF s2.ret THEN s2
    ELSE IF ~s3.ret THEN s3
    ELSE pmfs_add_dirent_to_buf(s5, 0, name, ino, b, 0)))))))

pmfs_remove_entry(s, tx, d, name) ==
    Then(LookUp(s.m, d, name), LAMBDA e :
    LET len(p) == DeAt(s.m, e.b, p).len
    IN Then(IF e.prev >= 0
            THEN St(pmfs_add_logentry(s, tx, Unit(e.b, e.prev), {"len"}),
                    Unit(e.b, e.prev), [len |-> len(e.prev) + len(e.at)])
            ELSE St(pmfs_add_logentry(s, tx, Unit(e.b, e.at), {"ino"}),
                    Unit(e.b, e.at), [ino |-> Null]), LAMBDA s1 :
    IF e = NoDe THEN Ret(s, FALSE) ELSE Ret(Fl(LogAll(s1, tx, Ino(d)), {Ino(d)}), TRUE)))

\* Everything but "." and "..".
pmfs_readdir(m, d) ==
    Then({pmfs_find_data_block(m, Ino(d), n) : n \in 0..(DirBlocks(m, d) - 1)} \ {Null}, LAMBDA blocks :
    Then(UNION {{DeAt(m, b, p) : p \in Chain(m, b)} : b \in blocks}, LAMBDA des :
    {<<de.name, de.ino>> : de \in {x \in des : x.ino # Null /\ x.name \in Names}}))

\* "." and ".." are the first two entries and nothing else is in use.
pmfs_empty_dir(m, d) ==
    Then(pmfs_find_data_block(m, Ino(d), 0), LAMBDA b :
    \/ DirBlocks(m, d) = 0 \/ b = Null
    \/ DeAt(m, b, 0).ino # d \/ DeAt(m, b, 1).ino = Null
    \/ pmfs_readdir(m, d) = {})

------------------------------------------------------------------------------
(* Calls on directories. A call's transaction is number 1.                      *)

pmfs_inc_count(s, i) == pmfs_update_nlink(s, i, Get(s, Ino(i)).nlink + 1)
pmfs_dec_count(s, i) ==
    IF Get(s, Ino(i)).nlink = 0 THEN s ELSE pmfs_update_nlink(s, i, Get(s, Ino(i)).nlink - 1)

Abort(s, err) == Ret(pmfs_abort_transaction(s, 1), err)
Commit(s) == Ret(pmfs_commit_transaction(s, 1), "ok")

\* An inode the call created and now gives up, evicted before the transaction is
\* aborted.
GiveUp(s, i) == pmfs_evict_inode(pmfs_dec_count(s, i), i, 0, 2)

pmfs_add_nondir(s, d, name, i) ==
    Then(pmfs_add_entry(s, 1, d, name, i), LAMBDA t :
    IF t.ret THEN t ELSE Ret(GiveUp(t, i), FALSE))

\* err is still 0 when there is no inode.
pmfs_create(s, d, name) ==
    Then(pmfs_new_inode(s, 1, "file"), LAMBDA s1 :
    Then(pmfs_add_nondir(s1, d, name, s1.ret), LAMBDA s2 :
    IF s1.ret = -1 THEN Abort(s1, "ok")
    ELSE IF s2.ret THEN Commit(s2) ELSE Abort(s2, "ENOSPC")))

pmfs_mknod(s, d, name) ==
    Then(pmfs_new_inode(s, 1, "special"), LAMBDA s1 :
    Then(pmfs_add_nondir(s1, d, name, s1.ret), LAMBDA s2 :
    IF s1.ret = -1 THEN Abort(s1, "ok")
    ELSE IF s2.ret THEN Commit(s2) ELSE Abort(s2, "ENOSPC")))

\* The target is one unit long and is written back with its terminator.
pmfs_block_symlink(s, i, target) ==
    Then(pmfs_alloc_blocks(s, 0, i, 0, 1, FALSE), LAMBDA t :
    Then(pmfs_find_data_block(t.m, Ino(i), 0), LAMBDA b :
    IF ~t.ret THEN t
    ELSE Ret(Fl(Put(Put(t, Unit(b, 0), [k |-> "data", v |-> target]), Unit(b, 1), Zero),
                {Unit(b, 0), Unit(b, 1)}), TRUE)))

pmfs_symlink(s, d, name, target) ==
    Then(pmfs_new_inode(s, 1, "symlink"), LAMBDA s1 :
    LET i == s1.ret
    IN Then(pmfs_block_symlink(s1, i, target), LAMBDA s2 :
    Then(pmfs_add_nondir(pmfs_update_isize(s2, i, 1), d, name, i), LAMBDA s3 :
    IF i = -1 THEN Abort(s1, "ENOSPC")
    ELSE IF ~s2.ret THEN Abort(GiveUp(s2, i), "ENOSPC")
    ELSE IF s3.ret THEN Commit(s3) ELSE Abort(s3, "ENOSPC"))))

pmfs_link(s, i, d, name) ==
    Then(pmfs_add_entry(LogAll(s, 1, Ino(i)), 1, d, name, i), LAMBDA s1 :
    IF s1.ret THEN Commit(StFl(s1, Ino(i), [nlink |-> Get(s1, Ino(i)).nlink + 1]))
    ELSE Abort(s1, "ENOSPC"))

pmfs_unlink(s, d, name) ==
    Then(pmfs_inode_by_name(s.m, d, name), LAMBDA i :
    LET n == Get(s, Ino(i)).nlink
    IN Then(pmfs_remove_entry(LogAll(s, 1, Ino(i)), 1, d, name), LAMBDA s1 :
    Then(IF n = 1 THEN pmfs_truncate_add(s1, i, Get(s, Ino(i)).size, 1) ELSE s1, LAMBDA s2 :
    IF ~s1.ret THEN Abort(s1, "EINVAL")
    ELSE Commit(StFl(s2, Ino(i), [nlink |-> IF n = 0 THEN 0 ELSE n - 1])))))

pmfs_mkdir(s, d, name) ==
    Then(pmfs_new_inode(s, 1, "dir"), LAMBDA s1 :
    LET i == s1.ret
    IN Then(pmfs_alloc_blocks(s1, 0, i, 0, 1, FALSE), LAMBDA s2 :
    Then(pmfs_find_data_block(s2.m, Ino(i), 0), LAMBDA b :
    Then(Put(Put(s2, Unit(b, 0), De(i, ".", 1)), Unit(b, 1), De(d, "..", Units - 1)), LAMBDA s3 :
    Then(Barrier(Fl(s3, {Unit(b, 0), Unit(b, 1)})), LAMBDA s4 :
    Then(pmfs_add_entry(s4, 1, d, name, i), LAMBDA s5 :
    Then(StFl(s5, Ino(i), [nlink |-> 2, size |-> Units]), LAMBDA s6 :
    IF i = -1 THEN Abort(s1, "ENOSPC")
    ELSE IF ~s2.ret THEN Abort(pmfs_evict_inode(s2, i, 0, 2), "ENOSPC")
    ELSE IF ~s5.ret THEN Abort(pmfs_evict_inode(s5, i, 0, 2), "ENOSPC")
    ELSE Commit(pmfs_inc_count(s6, d)))))))))

pmfs_rmdir(s, d, name) ==
    Then(pmfs_inode_by_name(s.m, d, name), LAMBDA i :
    Then(pmfs_remove_entry(LogAll(s, 1, Ino(i)), 1, d, name), LAMBDA s1 :
    Then(StFl(s1, Ino(i), [nlink |-> 0]), LAMBDA s2 :
    Then(pmfs_truncate_add(s2, i, Get(s, Ino(i)).size, 1), LAMBDA s3 :
    IF ~pmfs_empty_dir(s.m, i) THEN Ret(s, "ENOTEMPTY")
    ELSE IF ~s1.ret THEN Abort(s1, "EINVAL")
    ELSE Commit(pmfs_dec_count(s3, d))))))

\* An entry of the new name is redirected, otherwise one is added; the old entry goes;
\* the inode that lost its name goes on the truncate list with its last link.
pmfs_rename(s, od, oname, nd, nname) ==
    Then(pmfs_inode_by_name(s.m, od, oname), LAMBDA i :
    Then(LookUp(s.m, nd, nname), LAMBDA e :
    LET j == IF e = NoDe THEN Null ELSE DeAt(s.m, e.b, e.at).ino
        dir == Get(s, Ino(i)).type = "dir"
    IN Then(LogAll(s, 1, Ino(i)), LAMBDA s1 :
    Then(Fl(LogAll(St(pmfs_add_logentry(s1, 1, Unit(e.b, e.at), {"ino"}),
                      Unit(e.b, e.at), [ino |-> i]), 1, Ino(nd)), {Ino(nd)}), LAMBDA over :
    Then(IF j = Null THEN pmfs_add_entry(s1, 1, nd, nname, i) ELSE Ret(over, TRUE), LAMBDA s2 :
    Then(pmfs_remove_entry(s2, 1, od, oname), LAMBDA s3 :
    LET n == Get(s, Ino(j)).nlink
        left == Max({0, n - IF dir THEN 2 ELSE 1})
    IN Then(StFl(LogAll(s3, 1, Ino(j)), Ino(j), [nlink |-> left]), LAMBDA s4 :
    Then(IF left = 0 THEN pmfs_truncate_add(s4, j, Get(s, Ino(j)).size, 1) ELSE s4, LAMBDA s5 :
    Then(IF dir THEN pmfs_dec_count(pmfs_inc_count(s3, nd), od) ELSE s3, LAMBDA s6 :
    IF j # Null /\ dir /\ ~pmfs_empty_dir(s.m, j) THEN Abort(s, "ENOTEMPTY")
    ELSE IF ~s2.ret THEN Abort(s2, "ENOSPC")
    ELSE IF ~s3.ret THEN Abort(s3, "EINVAL")
    ELSE Commit(IF j = Null THEN s6 ELSE s5))))))))))

------------------------------------------------------------------------------
(* File contents.                                                               *)

Copy(s, b, off, n, v) ==
    LET L == {Unit(b, off + k) : k \in 0..(n - 1)}
    IN Then(FoldLeft(LAMBDA x, k : Put(x, Unit(b, off + k - 1), [k |-> "data", v |-> v]), s,
                     IndexSeq(1, n)), LAMBDA t :
    Fl(t, L))

\* Within one block that exists: the data is durable before the size.
pmfs_file_write_fast(s, i, b, off, n, pos, v) ==
    Then(Copy(s, b, off, n, v), LAMBDA s1 :
    IF pos + n > Get(s, Ino(i)).size
    THEN Barrier(pmfs_update_isize(Barrier(s1), i, pos + n))
    ELSE Barrier(Fl(s1, {Ino(i)})))

\* What the new first and last blocks hold around the data.
pmfs_clear_edge_blk(s, i, isNew, n, off, isEnd) ==
    LET bt == Get(s, Ino(i)).bt
    IN Then(pmfs_find_data_block(s.m, Ino(i), (n \div bt) * bt), LAMBDA b :
    IF ~isNew \/ b = Null THEN s
    ELSE ZeroLines(s, {Unit(b, u) : u \in IF isEnd THEN off..(bt * Units - 1) ELSE 0..off}))

\* Block by block; a block that could not be allocated is tried once more.
__pmfs_xip_file_write(s, i, pos, count, v) ==
    LET blocks == IndexSeq(pos \div Units, (pos + count - 1) \div Units)
        step(a, n) ==
            LET off == IF n = pos \div Units THEN pos % Units ELSE 0
                len == Min({Units - off, count - a.done})
            IN Then(IF pmfs_find_data_block(a.s.m, Ino(i), n) # Null THEN a.s
                    ELSE pmfs_alloc_blocks(a.s, 1, i, n, 1, TRUE), LAMBDA t :
            Then(pmfs_find_data_block(t.m, Ino(i), n), LAMBDA b :
            IF ~a.ok THEN a
            ELSE IF b = Null THEN [a EXCEPT !.s = t, !.ok = FALSE]
            ELSE [s |-> Copy(t, b, off, len, v), done |-> a.done + len, ok |-> TRUE]))
    IN Then(FoldLeft(step, [s |-> s, done |-> 0, ok |-> TRUE], blocks), LAMBDA a :
    Ret(IF pos + a.done > Get(s, Ino(i)).size
        THEN pmfs_update_isize(a.s, i, pos + a.done) ELSE a.s, a.done))

pmfs_xip_file_write(s, i, pos, count, v) ==
    LET bytes == Get(s, Ino(i)).bt * Units
        start == pos \div Units
        num == (count + (pos % Units) - 1) \div Units + 1
        find(n) == pmfs_find_data_block(s.m, Ino(i), n)
        endoff == (pos + count) % bytes
    IN Then(Fl(LogAll(s, 1, Ino(i)), {Ino(i)}), LAMBDA s1 :
    Then(pos % bytes # 0 /\ find(start) = Null, LAMBDA newStart :
    Then(endoff # 0 /\ find(start + num - 1) = Null, LAMBDA newEnd :
    Then(pmfs_alloc_blocks(s1, 1, i, start, num, FALSE), LAMBDA s2 :
    Then(pmfs_clear_edge_blk(s2, i, newStart, start, pos % bytes, FALSE), LAMBDA s3 :
    Then(pmfs_clear_edge_blk(s3, i, newEnd, start + num - 1, endoff, TRUE), LAMBDA s4 :
    Then(__pmfs_xip_file_write(s4, i, pos, count, v), LAMBDA s5 :
    IF find(start) # Null /\ (count + (pos % bytes) - 1) \div bytes = 0
    THEN Ret(pmfs_file_write_fast(s, i, find(start), pos % Units, count, pos, v), "ok")
    ELSE Ret(pmfs_commit_transaction(s5, 1), IF s5.ret = count THEN "ok" ELSE "ENOSPC"))))))))

pmfs_fallocate(s, i, off, len, keep) ==
    Then(pmfs_set_blocksize_hint(LogAll(s, 1, Ino(i)), i, off + len), LAMBDA s1 :
    Then(pmfs_alloc_blocks(s1, 1, i, off \div Units,
                           ((off % Units) + len + Units - 1) \div Units, TRUE), LAMBDA s2 :
    LET p == Get(s2, Ino(i))
    IN Then(StFl(s2, Ino(i),
                 [eof |-> p.eof \/ ~s2.ret \/ keep,
                  size |-> IF ~keep /\ off + len > p.size THEN off + len ELSE p.size]), LAMBDA s3 :
    Ret(pmfs_commit_transaction(s3, 1), IF s2.ret THEN "ok" ELSE "ENOSPC"))))

\* A page of a mapped file is touched: a hole gets a block, in a transaction of its own
\* outside of a call.
pmfs_find_and_alloc_blocks(s, i, n) ==
    Then(LogAll(s, 1, Ino(i)), LAMBDA s1 :
    IF pmfs_find_data_block(s.m, Ino(i), n) # Null THEN s
    ELSE pmfs_commit_transaction(pmfs_alloc_blocks(s1, 1, i, n, 1, TRUE), 1))

\* Past the last page it is SIGBUS.
__pmfs_xip_file_fault(s, i, n) ==
    IF n >= (Get(s, Ino(i)).size + Units - 1) \div Units THEN Ret(s, "EFAULT")
    ELSE Ret(pmfs_find_and_alloc_blocks(s, i, n), "ok")

------------------------------------------------------------------------------
(* Reads.                                                                       *)

\* One page: up to its end, the end of the file or what was asked for. A hole reads as
\* zeros.
ReadPage(m, i, n, off, len) ==
    LET isize == Cur(m, Ino(i)).size
        end == (isize - 1) \div Units
        upto == IF n = end THEN ((isize - 1) % Units) + 1 ELSE Units
    IN Then(pmfs_find_data_block(m, Ino(i), n), LAMBDA b :
    [k \in 1..Min({upto - off, len}) |-> IF b = Null THEN Zero ELSE Cur(m, Unit(b, off + k - 1))])

\* Page by page, until the end of the file.
do_xip_mapping_read(m, i, pos, len) ==
    LET isize == Cur(m, Ino(i)).size
        end == (isize - 1) \div Units
        next(a, n) ==
            LET off == IF n = pos \div Units THEN pos % Units ELSE 0
            IN IF n > end \/ Len(a) >= len THEN a
               ELSE IF n = end /\ ((isize - 1) % Units) + 1 <= off THEN a
               ELSE a \o ReadPage(m, i, n, off, len - Len(a))
    IN IF isize = 0 THEN <<>>
       ELSE FoldLeft(next, <<>>, IndexSeq(pos \div Units, (pos + len) \div Units))

\* a counts the blocks passed and says whether data and a hole were met; a search for data
\* ends at the first.
RECURSIVE recursive_find_region(_, _, _, _, _, _, _)
recursive_find_region(m, b, height, first, last, hole, acc) ==
    LET span == Span(height - 1)
        done(a) == ~hole /\ a.data
        leaf(a, i) ==
            LET data == Ptr(m, b, i) # Null
                c == [a EXCEPT !.data = @ \/ data, !.hole = @ \/ ~data]
            IN IF done(c) THEN c
               ELSE IF ~c.hole \/ ~hole THEN [c EXCEPT !.blocks = @ + span] ELSE c
        step(a, i) ==
            IF done(a) THEN a
            ELSE IF height = 1 \/ Ptr(m, b, i) = Null THEN leaf(a, i)
            ELSE recursive_find_region(m, Ptr(m, b, i), height - 1, FirstBlk(i, first, span),
                                       LastBlk(i, last, span), hole, a)
    IN FoldLeft(step, acc, IndexSeq(first \div span, last \div span))

\* Blocks are counted as if the search had begun at the start of one.
BugFindRegion(m, i, off, hole) ==
    LET p == Cur(m, Ino(i))
        bytes == p.bt * Units
    IN Then(IF p.height = 0 THEN [blocks |-> 0, data |-> TRUE, hole |-> FALSE]
            ELSE recursive_find_region(m, p.root, p.height, off \div bytes, p.size \div bytes,
                     hole, [blocks |-> 0, data |-> FALSE, hole |-> FALSE]), LAMBDA r :
    IF off >= p.size \/ (~hole /\ ~r.data) THEN -1
    ELSE IF r.data /\ ~r.hole THEN IF hole THEN p.size ELSE off
    ELSE off + r.blocks * bytes)

\* The offset that SEEK_DATA or SEEK_HOLE moves to; -1 is ENXIO.
pmfs_find_region(m, i, off, hole) ==
    LET p == Cur(m, Ino(i))
        bytes == p.bt * Units
    IN Then(IF p.height = 0 THEN [blocks |-> 0, data |-> TRUE, hole |-> FALSE]
            ELSE recursive_find_region(m, p.root, p.height, off \div bytes, p.size \div bytes,
                     hole, [blocks |-> 0, data |-> FALSE, hole |-> FALSE]), LAMBDA r :
    LET inBlock == off % bytes
    IN CASE off >= p.size -> -1
         [] off < p.size /\ (p.blocks = 0 \/ p.root = Null) -> IF hole THEN p.size ELSE -1
         [] OTHER ->
              IF ~hole /\ ~r.data /\ r.hole THEN -1
              ELSE IF r.data /\ ~r.hole THEN IF hole THEN p.size ELSE off
              ELSE IF hole /\ r.hole /\ r.blocks = 0 THEN IF r.data THEN off ELSE p.size
              ELSE IF inBlock # 0 THEN off + (r.blocks - 1) * bytes + (bytes - inBlock)
              ELSE off + r.blocks * bytes)
==============================================================================

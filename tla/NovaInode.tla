------------------------------- MODULE NovaInode -------------------------------
(* Inodes and files of NOVA over NovaLog: the tree of write entries, reading,     *)
(* copy-on-write, allocation, truncation, eviction, and the header that is        *)
(* rebuilt from the log (inode.c, file.c, dax.c, log.c, rebuild.c).               *)
(*                                                                                *)
(* A data block holds Words words in its first lines. The inode table fits in its *)
(* first page. The size and the link count of the kernel's inode are kept in the  *)
(* header (sih), which the code keeps in step.                                    *)
EXTENDS NovaLog

CONSTANTS Words,        \* words of a data block
          NormalStart   \* NOVA_NORMAL_INODE_START

NoNames == [n \in {} |-> Null]

nova_init_header(type) ==
    [type |-> type, size |-> 0, nlink |-> 0, head |-> Null, tail |-> Null, pages |-> 0, blocks |-> 0,
     tree |-> NoNames, names |-> NoNames, trans |-> 0, last_setattr |-> Null, last_link |-> Null,
     last_dentry |-> Null]

------------------------------------------------------------------------------
(* Inode numbers and inodes.                                                     *)

\* The number after the first range in use, 0 when there is none.
nova_new_nova_inode(s) ==
    LET new == Min((0..(Max(Inodes) + 1)) \ s.inuse)
    IN IF new \notin Inodes THEN Ret(s, Null) ELSE Ret([s EXCEPT !.inuse = @ \cup {new}], new)

\* nova_init_inode: the flag valid stays as it was.
nova_new_vfs_inode(s, i, type, size) ==
    LET nlink == IF type = "dir" THEN 2 ELSE 1
    IN Then(St(St(s, Ino(i), [type |-> type, deleted |-> FALSE, nlink |-> nlink, size |-> size]),
               LogOf(i), [head |-> Null, tail |-> Null]), LAMBDA t :
    Fl([t EXCEPT !.sih = (i :> [nova_init_header(type) EXCEPT !.size = size, !.nlink = nlink]) @@ @],
       {Ino(i), LogOf(i)}))

------------------------------------------------------------------------------
(* The tree from page numbers to the write entries that cover them.              *)

get_nvmm(s, p, n) == LET e == Get(s, At(p)) IN e.b + n - e.pgoff
nova_find_nvmm_block(s, i, n) ==
    IF n \in DOMAIN s.sih[i].tree THEN get_nvmm(s, s.sih[i].tree[n], n) ELSE Null
\* The next page that is there.
nova_find_next_entry(s, i, n) == {k \in DOMAIN s.sih[i].tree : k >= n}

nova_free_old_entry(s, i, p, n, num, dead) ==
    Then(IF dead THEN s ELSE nova_invalidate_write_entry(s, p, num), LAMBDA t :
    Sih(nova_free_blocks(t, get_nvmm(s, p, n), num), i, [blocks |-> s.sih[i].blocks - num]))

\* The pages of S in their order, those with the same entry taken together.
Runs(tree, S) ==
    FoldLeft(LAMBDA q, n : IF q # <<>> /\ Last(q).p = tree[n] THEN [q EXCEPT ![Len(q)].num = @ + 1]
                           ELSE Append(q, [p |-> tree[n], n |-> n, num |-> 1]),
             <<>>, Ascending(S))

nova_assign_write_entry(s, i, p, free) ==
    LET e == Get(s, At(p))
        tree == s.sih[i].tree
        pages == e.pgoff..(e.pgoff + e.num - 1)
        replaced(t, r) ==
            nova_invalidate_write_entry(
                IF free THEN nova_free_old_entry(t, i, r.p, r.n, r.num, FALSE) ELSE t, r.p, 0)
    IN Sih(FoldLeft(replaced, s, Runs(tree, pages \cap DOMAIN tree)), i,
           [tree |-> [n \in pages |-> p] @@ tree])

\* Every page from start on; nvmm: the blocks are given back.
nova_delete_file_tree(s, i, start, nvmm, dead) ==
    LET tree == s.sih[i].tree
        gone == nova_find_next_entry(s, i, start)
    IN Then(FoldLeft(LAMBDA u, r : nova_free_old_entry(u, i, r.p, r.n, r.num, dead),
                     s, Runs(tree, gone)), LAMBDA t :
    Sih(IF nvmm THEN t ELSE s, i, [tree |-> [n \in DOMAIN tree \ gone |-> tree[n]]]))

\* The write entries from address p to tail.
RECURSIVE WriteEntries(_, _, _)
WriteEntries(s, p, tail) ==
    LET q == IF is_last_entry(p) THEN next_log_page(s, p) ELSE p
    IN IF p = tail \/ p = Null \/ q = Null THEN <<>>
       ELSE (IF Get(s, At(q)).k = "write" THEN <<q>> ELSE <<>>) \o WriteEntries(s, q + 1, tail)

nova_reassign_file_tree(s, i, begin) ==
    FoldLeft(LAMBDA t, p : nova_assign_write_entry(t, i, p, TRUE), s,
             WriteEntries(s, begin, s.sih[i].tail))

nova_cleanup_incomplete_write(s, b, num, begin, tail) ==
    LET t == IF b # Null /\ num > 0 THEN nova_free_blocks(s, b, num) ELSE s
    IN Ret(FoldLeft(LAMBDA u, p : nova_free_blocks(u, Get(u, At(p)).b, Get(u, At(p)).num), t,
                    IF begin = Null \/ tail = Null THEN <<>> ELSE WriteEntries(s, begin, tail)),
           [ok |-> FALSE])

------------------------------------------------------------------------------
(* Reading and writing.                                                          *)

\* Word w of a file, a hole read as zero.
FileWord(s, i, w) ==
    Then(nova_find_nvmm_block(s, i, w \div Words), LAMBDA b :
    IF b = Null THEN Zero ELSE Get(s, Unit(b, w % Words)))

\* Lines are stored and written back. What a call hands over is fenced too
\* (memcpy_to_pmem_nocache); what is left of an old block is not, on a CPU with clwb.
CopyLines(s, F) == Fl([s EXCEPT !.m = FoldSet(LAMBDA l, m : Store(m, l, F[l]), @, DOMAIN F)], DOMAIN F)
memcpy_to_pmem_nocache(s, F) == Barrier(CopyLines(s, F))

\* The words of a file that F gives, in the blocks from b on that replace its pages from
\* first on.
InCopy(b, first, F) ==
    FoldSet(LAMBDA w, f : (Unit(b + (w \div Words) - first, w % Words) :> F[w]) @@ f, <<>>, DOMAIN F)

\* What the write leaves alone of its first block, and of its last.
BugHandleHeadTailBlocks(s, i, pos, bytes, b) ==
    CopyLines(s, InCopy(b, pos \div Words,
                 [w \in ((pos \div Words) * Words)..(pos - 1) |-> FileWord(s, i, w)]))
nova_handle_head_tail_blocks(s, i, pos, bytes, b) ==
    LET first == pos \div Words
        end == pos + bytes
        head == (first * Words)..(pos - 1)
        tail == end..(CeilDiv(end, Words) * Words - 1)
    IN CopyLines(s, InCopy(b, first, [w \in head \cup tail |-> FileWord(s, i, w)]))

nova_init_file_write_entry(s, i, n, num, b, size) ==
    [k |-> "write", pgoff |-> n, num |-> num, b |-> b, size |-> size, trans |-> s.sih[i].trans,
     invalid |-> 0, reassigned |-> FALSE]

\* w: pos and count of the words left to write, left of the blocks; tail of the log and
\* begin, the first entry of this write.
RECURSIVE CowRuns(_, _, _, _)
CowRuns(s, i, w, v) ==
    Then(nova_new_data_blocks(s, w.left, FALSE), LAMBDA t :
    LET num == t.ret.n
        b == t.ret.b
        off == w.pos % Words
        bytes == Min({Words * num - off, w.count})
        end == w.pos + bytes
    IN Then(IF off # 0 \/ end % Words # 0 THEN nova_handle_head_tail_blocks(t, i, w.pos, bytes, b)
            ELSE t, LAMBDA s1 :
    Then(memcpy_to_pmem_nocache(s1, InCopy(b, w.pos \div Words,
             [x \in w.pos..(end - 1) |-> [k |-> "data", v |-> v]])), LAMBDA s2 :
    Then(nova_append_log_entry(s2, i, w.tail,
             nova_init_file_write_entry(s, i, w.pos \div Words, num, b, Max({end, s.sih[i].size}))), LAMBDA s3 :
    IF w.left = 0 THEN Ret(s, w)
    ELSE IF num = 0 THEN nova_cleanup_incomplete_write(t, Null, 0, w.begin, w.tail)
    ELSE IF s3.ret = Null THEN nova_cleanup_incomplete_write(s3, b, num, w.begin, w.tail)
    ELSE CowRuns(s3, i, [ok |-> TRUE, pos |-> end, count |-> w.count - bytes, left |-> w.left - num,
                         tail |-> s3.ret + 1, begin |-> IF w.begin = Null THEN s3.ret ELSE w.begin], v)))))

\* The new blocks and their entries are complete before the tail of the log covers them.
do_nova_cow_file_write(s, i, pos, count, v) ==
    LET num == CeilDiv(count + (pos % Words), Words)
    IN Then(CowRuns(s, i, [ok |-> TRUE, pos |-> pos, count |-> count, left |-> num, tail |-> s.sih[i].tail,
                           begin |-> Null], v), LAMBDA t :
    LET w == t.ret
        s1 == Sih(t, i, [blocks |-> t.sih[i].blocks + num])
    IN Then(nova_reassign_file_tree(nova_update_inode(s1, i, w.tail), i, w.begin), LAMBDA s2 :
    IF ~w.ok THEN t
    ELSE Ret(Sih(s2, i, [size |-> Max({w.pos, s.sih[i].size}), trans |-> s.sih[i].trans + 1]), "ok")))

\* The words a read from pos to the end returns. An entry none of whose pages was
\* replaced is read to its end without another look at the tree.
RECURSIVE do_dax_mapping_read(_, _, _)
do_dax_mapping_read(s, i, pos) ==
    LET h == s.sih[i]
        n == pos \div Words
        e == Get(s, At(h.tree[n]))
        hole == n \notin DOMAIN h.tree
        pages == IF hole \/ e.reassigned THEN 1 ELSE e.num - (n - e.pgoff)
        nr == Min({pages * Words - (pos % Words), h.size - pos})
        b == get_nvmm(s, h.tree[n], n)
        got == [k \in 1..nr |-> IF hole THEN Zero
                                ELSE LET u == (pos % Words) + k - 1
                                     IN Get(s, Unit(b + (u \div Words), u % Words))]
    IN IF pos >= h.size THEN <<>> ELSE got \o do_dax_mapping_read(s, i, pos + nr)

\* The pages found from n on, whether data and whether a hole was met.
RECURSIVE nova_lookup_hole_in_range(_, _, _, _, _, _)
nova_lookup_hole_in_range(s, i, n, last, hole, f) ==
    LET tree == s.sih[i].tree
        there == n \in DOMAIN tree
        next == nova_find_next_entry(s, i, n)
    IN Then(IF there \/ next = {} THEN n + 1
            ELSE Min({Max({n + 1, Get(s, At(tree[Min(next)])).pgoff}), last + 1}), LAMBDA to :
    LET g == [f EXCEPT !.data = @ \/ there, !.hole = @ \/ ~there]
    IN IF n > last THEN f
       ELSE IF there /\ ~hole THEN g
       ELSE nova_lookup_hole_in_range(s, i, to, last, hole,
                [g EXCEPT !.blocks = IF ~g.hole \/ ~hole THEN @ + to - n ELSE @]))

\* SEEK_DATA and SEEK_HOLE, -1 for ENXIO.
nova_find_region(s, i, off, hole) ==
    LET h == s.sih[i]
    IN Then(nova_lookup_hole_in_range(s, i, off \div Words, h.size \div Words, hole,
                                      [data |-> FALSE, hole |-> FALSE, blocks |-> 0]), LAMBDA f :
    IF off >= h.size THEN -1
    ELSE IF h.blocks = 0 THEN IF hole THEN h.size ELSE -1
    ELSE IF ~hole /\ ~f.data /\ f.hole THEN -1
    ELSE IF f.data /\ ~f.hole THEN IF hole THEN h.size ELSE off
    ELSE IF hole /\ f.hole /\ f.blocks = 0 THEN IF f.data THEN off ELSE h.size
    ELSE IF off % Words # 0 THEN off + (f.blocks - 1) * Words + Words - (off % Words)
    ELSE off + f.blocks * Words)

------------------------------------------------------------------------------
(* Allocation ahead of writes, truncation, attributes.                           *)

\* w: n and left, the pages to look at; tail and begin as in CowRuns; new, the blocks taken.
RECURSIVE FallocateRuns(_, _, _, _)
FallocateRuns(s, i, w, size) ==
    LET h == s.sih[i]
        p == h.tree[w.n]
        e == Get(s, At(p))
        next == nova_find_next_entry(s, i, w.n)
        nextPage == Get(s, At(h.tree[Min(next)])).pgoff
        on(num) == [w EXCEPT !.n = @ + num, !.left = @ - num]
        there == Min({w.left, IF e.reassigned THEN 1 ELSE e.num - (w.n - e.pgoff)})
    IN Then(IF e.size < size THEN nova_update_entry_csum(St(s, At(p), [size |-> size]), p)
            ELSE s, LAMBDA sized :
    Then(nova_new_data_blocks(s, IF next = {} THEN w.left ELSE Min({w.left, nextPage - w.n}), TRUE), LAMBDA t :
    LET num == t.ret.n
    IN Then(nova_append_log_entry(t, i, w.tail,
                nova_init_file_write_entry(s, i, w.n, num, t.ret.b, size)), LAMBDA u :
    IF w.left = 0 THEN Ret(s, w)
    ELSE IF w.n \in DOMAIN h.tree THEN FallocateRuns(sized, i, on(there), size)
    ELSE IF next # {} /\ nextPage <= w.n THEN Ret(Gap(s, "oops"), [ok |-> FALSE])
    ELSE IF num = 0 THEN nova_cleanup_incomplete_write(t, Null, 0, w.begin, w.tail)
    ELSE IF u.ret = Null THEN nova_cleanup_incomplete_write(u, t.ret.b, num, w.begin, w.tail)
    ELSE FallocateRuns(u, i, [on(num) EXCEPT !.tail = u.ret + 1, !.new = @ + num,
                                             !.begin = IF @ = Null THEN u.ret ELSE @], size))))

\* When nothing is appended, the new size stands only in entries that were there already,
\* and a younger entry with the old size may follow them.
nova_fallocate(s, i, off, len, keep) ==
    LET h == s.sih[i]
        size == IF keep THEN h.size ELSE Max({off + len, h.size})
    IN Then(FallocateRuns(s, i, [ok |-> TRUE, n |-> off \div Words, left |-> CeilDiv((off % Words) + len, Words),
                                 tail |-> h.tail, begin |-> Null, new |-> 0], size), LAMBDA t :
    LET w == t.ret
        s1 == Sih(t, i, [blocks |-> h.blocks + w.new])
    IN Then(IF w.begin = Null THEN s1
            ELSE nova_reassign_file_tree(nova_update_tail(Sih(s1, i, [tail |-> w.tail]), i, w.tail),
                                         i, w.begin), LAMBDA s2 :
    Then(nova_update_inode_checksum(Sih(s2, i, [size |-> size]), i), LAMBDA s3 :
    LET s4 == IF w.begin = Null /\ size > h.size THEN Gap(s3, "size") ELSE s3
        s5 == IF keep /\ off + len > h.size THEN Gap(s4, "keep") ELSE s4
    IN IF ~w.ok THEN t ELSE Ret(Sih(s5, i, [trans |-> h.trans + 1]), "ok"))))

\* Durable at once, but later than the size that setattr has put in the log.
nova_clear_last_page_tail(s, i, size) ==
    Then(nova_find_nvmm_block(s, i, size \div Words), LAMBDA b :
    IF size % Words = 0 \/ size > s.sih[i].size \/ b = Null THEN s
    ELSE Barrier(ZeroLines(s, {Unit(b, u) : u \in (size % Words)..(Words - 1)})))

nova_truncate_file_blocks(s, i, start, end) ==
    IF end = 0 \/ CeilDiv(start, Words) > (end - 1) \div Words THEN s
    ELSE nova_delete_file_tree(s, i, CeilDiv(start, Words), TRUE, FALSE)

nova_setsize(s, i, old, new) ==
    nova_truncate_file_blocks(Sih(nova_clear_last_page_tail(s, i, new), i, [size |-> new]), i, new, old)

\* Only an entry that sets no size is updated in place or marked invalid.
Unsized(s, p) == p # Null /\ ~Get(s, At(p)).sized
nova_invalidate_setattr_entry(s, p) == IF Unsized(s, p) THEN nova_invalidate_logentry(s, p, 0) ELSE s
nova_handle_setattr_operation(s, i, sized, size) ==
    LET h == s.sih[i]
        e == [k |-> "setattr", sized |-> sized, size |-> size, trans |-> h.trans, invalid |-> FALSE]
    IN Then(nova_append_log_entry(s, i, Null, e), LAMBDA t :
    Then(nova_update_inode(Sih(t, i, [last_setattr |-> t.ret]), i, t.ret + 1), LAMBDA u :
    IF ~sized /\ Unsized(s, h.last_setattr)
    THEN Ret(nova_inplace_update_log_entry(s, h.last_setattr, e), "ok")
    ELSE IF t.ret = Null THEN Ret(t, "ENOSPC")
    ELSE Ret(nova_invalidate_setattr_entry(u, t.sih[i].last_setattr), "ok")))

\* The new size is durable before anything beyond it is cleared or given back.
nova_notify_change(s, i, sized, size) ==
    LET h == s.sih[i]
    IN Then(nova_handle_setattr_operation(s, i, sized, size), LAMBDA t :
    Then(IF sized /\ size # h.size THEN nova_setsize(t, i, h.size, size) ELSE t, LAMBDA u :
    IF t.ret = "ENOSPC" THEN t ELSE Ret(Sih(u, i, [trans |-> h.trans + 1]), "ok")))

------------------------------------------------------------------------------
(* Eviction.                                                                     *)

nova_free_inuse_inode(s, i) == [s EXCEPT !.inuse = @ \ {i}]
nova_free_inode(s, i) == nova_free_inuse_inode(nova_free_inode_log(s, i), i)

\* A symbolic link made since the mount has no tree, and its block stays.
nova_free_inode_resource(s, i) ==
    LET h == s.sih[i]
    IN Then(nova_update_inode_checksum(St(s, Ino(i), [deleted |-> TRUE, valid |-> FALSE]), i), LAMBDA t :
    Then(IF h.type \in {"file", "symlink"} THEN nova_delete_file_tree(t, i, 0, TRUE, TRUE) ELSE t, LAMBDA u :
    LET leaked == h.type = "symlink" /\ h.tree = NoNames
    IN nova_free_inode(IF leaked THEN Gap(u, "symlink") ELSE u, i)))
nova_evict_inode(s, i) ==
    Then(IF s.sih[i].nlink = 0 THEN nova_free_inode_resource(s, i) ELSE s, LAMBDA t :
    [t EXCEPT !.sih = [j \in DOMAIN @ \ {i} |-> @[j]]])

------------------------------------------------------------------------------
(* The header, rebuilt from the log.                                             *)

nova_rebuild_inode_start(s, i) ==
    LET l == Get(s, LogOf(i))
    IN [s EXCEPT !.sih = (i :> [nova_init_header(Get(s, Ino(i)).type) EXCEPT
                                  !.head = l.head, !.tail = l.tail, !.pages = 1]) @@ @]

nova_rebuild_inode_finish(s, i, reb, p) ==
    Then(nova_update_inode_checksum(St(s, Ino(i), [size |-> reb.size, nlink |-> reb.nlink]), i), LAMBDA t :
    Sih(t, i, [size |-> reb.size, nlink |-> reb.nlink, trans |-> reb.trans + 1,
               pages |-> s.sih[i].pages + Len(LogPagesFrom(s, BLOCK_OFF(p))) - 1]))

\* Size and transaction number of the newest entry so far.
Newer(reb, e) == IF e.trans >= reb.trans THEN [reb EXCEPT !.size = e.size, !.trans = e.trans] ELSE reb

\* The block the new end is in goes too.
BugApplySetattrEntry(s, i, e) ==
    IF s.sih[i].type = "file" THEN nova_delete_file_tree(s, i, e.size \div Words, FALSE, FALSE) ELSE s
nova_apply_setattr_entry(s, i, e) ==
    IF s.sih[i].type = "file" THEN nova_delete_file_tree(s, i, CeilDiv(e.size, Words), FALSE, FALSE) ELSE s
nova_rebuild_handle_write_entry(s, i, p) ==
    LET e == Get(s, At(p)) IN IF e.num # e.invalid THEN nova_assign_write_entry(s, i, p, FALSE) ELSE s

\* reb: what the log says of the inode so far.
RECURSIVE ReplayFile(_, _, _, _)
ReplayFile(s, i, curr, reb) ==
    LET jump == goto_next_page(s, curr)
        p == IF jump THEN next_log_page(s, curr) ELSE curr
        t == IF jump THEN Sih(s, i, [pages |-> s.sih[i].pages + 1]) ELSE s
        e == Get(s, At(p))
    IN IF curr = s.sih[i].tail THEN nova_rebuild_inode_finish(s, i, reb, curr)
       ELSE IF p = Null THEN Gap(s, "oops")
       ELSE CASE e.k = "setattr" -> ReplayFile(Sih(nova_apply_setattr_entry(t, i, e), i, [last_setattr |-> p]),
                                               i, p + 1, Newer(reb, e))
              [] e.k = "link" -> ReplayFile(Sih(t, i, [last_link |-> p]), i, p + 1, [reb EXCEPT !.nlink = e.links])
              [] e.k = "write" -> ReplayFile(nova_rebuild_handle_write_entry(t, i, p), i, p + 1, Newer(reb, e))
              [] OTHER -> ReplayFile(t, i, p + 1, reb)

\* A log whose first page was being linked is dropped; the header keeps the tail it read,
\* an address in no log, for the next append.
Rebuilding(s, i) == LET pi == Get(s, Ino(i)) IN [size |-> pi.size, nlink |-> pi.nlink, trans |-> 0]
nova_rebuild_file_inode_tree(s, i) ==
    Then(nova_rebuild_inode_start(s, i), LAMBDA t :
    LET h == t.sih[i]
    IN Then(Sih(Barrier(Fl(St(t, LogOf(i), [head |-> Null, tail |-> Null]), {Ino(i), LogOf(i)})), i,
                [nlink |-> Get(s, Ino(i)).nlink]), LAMBDA none :
    Then(ReplayFile(t, i, h.head, Rebuilding(s, i)), LAMBDA u :
    IF h.head = Null \/ h.tail = Null THEN IF h.tail = Null THEN none ELSE Gap(none, "stale")
    ELSE Sih(u, i, [blocks |-> CeilDiv(u.sih[i].size, Words)]))))

nova_reassign_last_dentry(s, i, p) ==
    LET last == s.sih[i].last_dentry
    IN IF last = Null \/ Get(s, At(p)).trans >= Get(s, At(last)).trans
       THEN Sih(s, i, [last_dentry |-> p]) ELSE s
Without(f, x) == [n \in DOMAIN f \ {x} |-> f[n]]
nova_rebuild_handle_dentry(s, i, p) ==
    LET e == Get(s, At(p))
        names == s.sih[i].names
    IN Then(nova_reassign_last_dentry(s, i, p), LAMBDA t :
    IF e.invalid THEN t
    ELSE Sih(t, i, [names |-> IF e.ino # Null THEN (e.name :> p) @@ names ELSE Without(names, e.name)]))

\* A name that is there already ends the rebuild, without an error for its caller.
RECURSIVE ReplayDir(_, _, _, _)
ReplayDir(s, i, curr, reb) ==
    LET jump == goto_next_page(s, curr)
        p == IF jump THEN next_log_page(s, curr) ELSE curr
        t == IF jump THEN Sih(s, i, [pages |-> s.sih[i].pages + 1]) ELSE s
        e == Get(s, At(p))
        twice == /\ e.k = "dentry" /\ ~e.invalid /\ e.ino # Null
                 /\ e.name \in DOMAIN s.sih[i].names
        links == IF e.trans >= reb.trans THEN [reb EXCEPT !.nlink = e.links, !.trans = e.trans] ELSE reb
    IN IF curr = s.sih[i].tail THEN nova_rebuild_inode_finish(s, i, reb, curr)
       ELSE IF p = Null THEN Gap(s, "oops")
       ELSE CASE e.k = "setattr" -> ReplayDir(Sih(t, i, [last_setattr |-> p]), i, p + 1, reb)
              [] e.k = "link" -> ReplayDir(Sih(t, i, [last_link |-> p]), i, p + 1, links)
              [] twice -> Sih(nova_reassign_last_dentry(t, i, p), i,
                              [nlink |-> Get(s, Ino(i)).nlink])
              [] e.k = "dentry" /\ ~twice -> ReplayDir(nova_rebuild_handle_dentry(t, i, p), i, p + 1, links)
              [] OTHER -> Gap(s, "oops")
nova_rebuild_dir_inode_tree(s, i) ==
    Then(nova_rebuild_inode_start(s, i), LAMBDA t :
    IF t.sih[i].head = Null THEN t ELSE ReplayDir(t, i, t.sih[i].head, Rebuilding(s, i)))

\* The inode is in memory, unless it is none (ESTALE).
nova_rebuild_inode(s, i) ==
    LET pi == Get(s, Ino(i))
    IN CASE pi.type \in {"file", "symlink"} -> nova_rebuild_file_inode_tree(s, i)
         [] pi.type = "dir" -> nova_rebuild_dir_inode_tree(s, i)
         [] pi.type = "special" ->
              IF Get(s, LogOf(i)).head # Null THEN nova_rebuild_file_inode_tree(s, i)
              ELSE [s EXCEPT !.sih = (i :> [nova_init_header("special") EXCEPT !.nlink = pi.nlink]) @@ @]
nova_iget(s, i) ==
    LET pi == Get(s, Ino(i)) IN IF pi.type = "none" \/ pi.deleted THEN s ELSE nova_rebuild_inode(s, i)
================================================================================

------------------------------- MODULE NovaNamei -------------------------------
(* Directories of NOVA and the calls on names (dir.c, namei.c, symlink.c) over     *)
(* NovaInode. A directory is a log of entries that give a name to an inode, or     *)
(* take it away (ino = 0); the tree of names in memory points to the entries.      *)
EXTENDS NovaInode

CONSTANT Names   \* of directory entries; "." and ".." are not among them

\* change_link of a parent's count, not below 0.
LinksAfter(nlink, change) == IF nlink = 0 /\ change = -1 THEN 0 ELSE nlink + change
Entry(name, i, links, trans) ==
    [k |-> "dentry", name |-> name, ino |-> i, links |-> links, trans |-> trans, invalid |-> FALSE,
     reassigned |-> FALSE]

\* An update of a log: its tail, and the entries an added or removed name concerns.
NoUpdate == [tail |-> Null, create |-> Null, delete |-> Null, ok |-> TRUE]
Failed == [NoUpdate EXCEPT !.ok = FALSE]

nova_inode_by_name(s, d, name) ==
    IF name \in DOMAIN s.sih[d].names THEN Get(s, At(s.sih[d].names[name])).ino ELSE Null

nova_append_dentry(s, d, name, i, tail, change) ==
    LET h == s.sih[d]
    IN nova_append_log_entry(s, d, tail, Entry(name, i, LinksAfter(h.nlink, change), h.trans))

nova_add_dentry(s, d, name, i, change, up) ==
    Then(nova_append_dentry(s, d, name, i, up.tail, change), LAMBDA t :
    LET h == t.sih[d]
    IN IF t.ret = Null THEN Ret(t, Failed)
       ELSE Ret(Sih(t, d, [last_dentry |-> t.ret, names |-> (name :> t.ret) @@ h.names,
                           trans |-> h.trans + 1]),
                [up EXCEPT !.tail = t.ret + 1]))

\* In place: the entry itself becomes the removal, in a transaction of its own.
nova_inplace_update_dentry(s, d, p, change) ==
    nova_inplace_update_log_entry(s, p, [trans |-> s.sih[d].trans, ino |-> Null, invalid |-> TRUE,
                                         links |-> LinksAfter(s.sih[d].nlink, change)])

\* The address of the entry is taken before the append, which may collect garbage.
nova_remove_dentry(s, d, name, change, up, rename) ==
    LET h == s.sih[d]
        old == h.names[name]
        s1 == Sih(s, d, [names |-> Without(h.names, name)])
    IN Then(Sih(nova_inplace_update_dentry(s1, d, old, change), d,
                [last_dentry |-> old, trans |-> h.trans + 1]), LAMBDA s2 :
    Then(nova_append_dentry(s1, d, name, Null, up.tail, change), LAMBDA s3 :
    LET s4 == Sih(s3, d, [last_dentry |-> s3.ret, trans |-> h.trans + 1])
        e == Get(s, At(old))
    IN IF e.ino = Null \/ e.invalid \/ e.name # name THEN Ret(s1, Failed)
       ELSE IF ~rename THEN Ret(s2, [NoUpdate EXCEPT !.tail = IF up.tail = Null THEN h.tail ELSE up.tail])
       ELSE IF s3.ret = Null THEN Ret(s3, Failed)
       ELSE Ret(s4, [tail |-> s3.ret + 1, create |-> old, delete |-> s3.ret, ok |-> TRUE])))

\* The entry that is no longer needed stays valid.
BugInvalidateDentries(s, up) ==
    IF up.create = Null THEN s ELSE nova_invalidate_logentry(nova_reassign_logentry(s, up.create), up.delete, 0)
nova_invalidate_dentries(s, up) ==
    IF up.create = Null THEN s
    ELSE nova_invalidate_logentry(
             nova_invalidate_logentry(nova_reassign_logentry(s, up.create), up.create, 0), up.delete, 0)

\* "." and "..", in a page of their own that becomes the log of the new directory.
nova_append_dir_init_entries(s, i, parent) ==
    Then(nova_allocate_inode_log_pages(s, 1), LAMBDA t :
    LET p == t.ret.b * Units
    IN Then(St(t, LogOf(i), [tail |-> p, head |-> p]), LAMBDA u1 :
    Then(nova_update_entry_csum(Put(u1, At(p), Entry(".", i, 1, 0)), p), LAMBDA u2 :
    Then(nova_update_entry_csum(Put(u2, At(p + 1), Entry("..", parent, 2, 0)), p + 1), LAMBDA u3 :
    Then(StFl(u3, TailLine(p), [num |-> 2]), LAMBDA u4 :
    IF t.ret.n # 1 THEN Ret(t, "ENOMEM")
    ELSE Ret(Fl(nova_update_tail(u4, i, p + 2), {LogOf(i)}), "ok"))))))

nova_empty_dir(s, i) == DOMAIN s.sih[i].names \subseteq {".", ".."}

\* What a listing returns: walks the log, not the tree of names. The kernel stops at the end
\* of a log before its tail, and at an entry of another kind.
BUG == <<"BUG", Null>>
RECURSIVE ListFrom(_, _, _)
ListFrom(s, d, curr) ==
    Then(IF goto_next_page(s, curr) THEN next_log_page(s, curr) ELSE curr, LAMBDA p :
    LET e == Get(s, At(p))
        listed == e.k = "dentry" /\ e.ino # Null /\ ~e.invalid /\ ~e.reassigned
    IN IF curr = s.sih[d].tail THEN <<>>
       ELSE IF p = Null \/ e.k \notin {"setattr", "link", "dentry"} THEN <<BUG>>
       ELSE (IF listed THEN <<<<e.name, e.ino>>>> ELSE <<>>) \o ListFrom(s, d, p + 1))
nova_readdir_fast(s, d) == ListFrom(s, d, s.sih[d].head)

------------------------------------------------------------------------------
(* Transactions: the tails of the two logs and the inode's flag change together.  *)

nova_lite_transaction_for_new_inode(s, i, d, up) ==
    Then(nova_create_inode_transaction(s, i, d, TRUE, FALSE), LAMBDA s1 :
    Then(nova_update_inode(s1, d, up.tail), LAMBDA s2 :
    Then(nova_update_inode_checksum(St(s2, Ino(i), [valid |-> TRUE]), i), LAMBDA s3 :
    nova_commit_lite_transaction(Barrier(s3)))))

nova_lite_transaction_for_time_and_link(s, i, d, tail, up, invalidate) ==
    Then(nova_create_inode_transaction(s, i, d, FALSE, invalidate), LAMBDA s1 :
    Then(IF invalidate THEN St(s1, Ino(i), [valid |-> FALSE]) ELSE s1, LAMBDA s2 :
    Then(nova_update_inode(nova_update_inode(s2, i, tail), d, up.tail), LAMBDA s3 :
    nova_commit_lite_transaction(Barrier(s3)))))

------------------------------------------------------------------------------
(* The calls. A call that runs out of space in the middle returns at once: names   *)
(* and counters in memory, and inode numbers, stay as it left them.                *)

GiveUp(s) == Ret(Gap(s, "short"), "ENOSPC")

NewInode(s, d, name, type) ==
    LET s1 == nova_new_nova_inode(s)
        i == s1.ret
    IN Then(nova_add_dentry(s1, d, name, i, 0, NoUpdate), LAMBDA s2 :
    Then(nova_lite_transaction_for_new_inode(nova_new_vfs_inode(s2, i, type, 0), i, d, s2.ret), LAMBDA s3 :
    IF i = Null THEN Ret(s1, "ENOSPC") ELSE IF ~s2.ret.ok THEN GiveUp(s2) ELSE Ret(s3, "ok")))
nova_create(s, d, name) == NewInode(s, d, name, "file")
nova_mknod(s, d, name) == NewInode(s, d, name, "special")

\* The target of a symbolic link, v here, takes the last free block.
nova_block_symlink(s, i, v) ==
    LET b == Max(s.free)
    IN Then(memcpy_to_pmem_nocache(ZeroLines([s EXCEPT !.free = @ \ {b}], UnitsOf(b, 1)),
                                   Unit(b, 0) :> [k |-> "data", v |-> v]), LAMBDA t :
    Then(nova_append_log_entry(t, i, s.sih[i].tail, nova_init_file_write_entry(s, i, 0, 1, b, 2)), LAMBDA u :
    IF s.free = {} THEN Ret(s, FALSE)
    ELSE IF u.ret = Null THEN Ret(nova_free_blocks(u, b, 1), FALSE)
    ELSE Ret(Sih(nova_update_inode(u, i, u.ret + 1), i, [trans |-> s.sih[i].trans + 1]), TRUE)))
\* The first entry of the log is the one that was written first.
nova_readlink(s, i) ==
    LET e == Get(s, At(s.sih[i].head)) IN IF e.k = "write" THEN Get(s, Unit(e.b, 0)) ELSE e

nova_symlink(s, d, name, v) ==
    LET s1 == nova_new_nova_inode(s)
        i == s1.ret
    IN Then(nova_add_dentry(s1, d, name, i, 0, NoUpdate), LAMBDA s2 :
    Then(nova_block_symlink(nova_new_vfs_inode(s2, i, "symlink", 1), i, v), LAMBDA s3 :
    IF i = Null THEN Ret(s1, "ENOSPC")
    ELSE IF ~s2.ret.ok THEN GiveUp(s2)
    ELSE IF ~s3.ret THEN GiveUp(s3)
    ELSE Ret(nova_lite_transaction_for_new_inode(s3, i, d, s2.ret), "ok")))

nova_mkdir(s, d, name) ==
    LET s1 == nova_new_nova_inode(s)
        i == s1.ret
    IN Then(nova_add_dentry(s1, d, name, i, 1, NoUpdate), LAMBDA s2 :
    Then(nova_append_dir_init_entries(nova_new_vfs_inode(s2, i, "dir", Words), i, d), LAMBDA s3 :
    Then(nova_rebuild_dir_inode_tree(s3, i), LAMBDA s4 :
    LET s5 == Sih(Sih(s4, i, [nlink |-> 2]), d, [nlink |-> s4.sih[d].nlink + 1])
    IN IF i = Null THEN Ret(s1, "ENOSPC")
       ELSE IF ~s2.ret.ok THEN GiveUp(s2)
       ELSE IF s3.ret # "ok" THEN GiveUp(s3)
       ELSE Ret(nova_lite_transaction_for_new_inode(s5, i, d, s2.ret), "ok"))))

nova_link(s, i, d, name) ==
    Then(nova_add_dentry(s, d, name, i, 0, NoUpdate), LAMBDA s1 :
    LET nlink == s.sih[i].nlink + 1
    IN Then(nova_append_link_change_entry(Sih(s1, i, [nlink |-> nlink]), i, nlink), LAMBDA s2 :
    Then(nova_lite_transaction_for_time_and_link(s2, i, d, s2.ret.tail, s1.ret, FALSE), LAMBDA s3 :
    IF ~s1.ret.ok THEN GiveUp(s1)
    ELSE IF s2.ret.tail = Null THEN GiveUp(s2)
    ELSE Ret(nova_invalidate_link_change_entry(s3, s2.ret.old), "ok"))))

\* A power failure between the commit and the invalidation leaves an entry that listings
\* show and lookups do not find.
nova_unlink(s, d, name) ==
    LET i == nova_inode_by_name(s, d, name)
        h == s.sih[i]
    IN Then(nova_remove_dentry(s, d, name, 0, NoUpdate, TRUE), LAMBDA s1 :
    LET nlink == Max({0, h.nlink - 1})
    IN Then(nova_append_link_change_entry(Sih(s1, i, [nlink |-> nlink]), i, nlink), LAMBDA s2 :
    Then(nova_lite_transaction_for_time_and_link(s2, i, d, s2.ret.tail, s1.ret, h.nlink = 1), LAMBDA s3 :
    IF ~s1.ret.ok THEN GiveUp(s1)
    ELSE IF s2.ret.tail = Null THEN GiveUp(s2)
    ELSE Ret(Gap(nova_invalidate_dentries(nova_invalidate_link_change_entry(s3, s2.ret.old), s1.ret),
                 "listed"), "ok"))))

\* The name goes in a transaction of its own, before the inode is given up: a power failure
\* between the two leaves a directory without a name.
nova_rmdir(s, d, name) ==
    LET i == nova_inode_by_name(s, d, name)
    IN Then(nova_remove_dentry(s, d, name, -1, NoUpdate, FALSE), LAMBDA s1 :
    LET s2 == Sih(Sih(s1, i, [nlink |-> 0, names |-> NoNames]), d, [nlink |-> LinksAfter(s1.sih[d].nlink, -1)])
    IN Then(nova_append_link_change_entry(s2, i, 0), LAMBDA s3 :
    Then(nova_lite_transaction_for_time_and_link(s3, i, d, s3.ret.tail, s1.ret, TRUE), LAMBDA s4 :
    IF ~nova_empty_dir(s, i) THEN Ret(s, "ENOTEMPTY")
    ELSE IF ~s1.ret.ok THEN GiveUp(s1)
    ELSE IF s3.ret.tail = Null THEN GiveUp(s3)
    ELSE Ret(Gap(nova_invalidate_link_change_entry(s4, s3.ret.old), "rmdir"), "ok"))))

\* i, found under od/on, gets the name nd/nn; j, found there, loses it. A directory that
\* moves has its second entry, "..", changed.
nova_rename(s, od, on, nd, nn) ==
    LET i == nova_inode_by_name(s, od, on)
        j == nova_inode_by_name(s, nd, nn)
        dir == s.sih[i].type = "dir"
        inc == (IF dir /\ j = Null THEN 1 ELSE 0) - (IF dir /\ od = nd THEN 1 ELSE 0)
        dec == IF dir /\ ~(od = nd /\ inc = 0) THEN -1 ELSE 0
    IN Then(nova_append_link_change_entry(s, i, s.sih[i].nlink), LAMBDA s1 :
    LET father == IF dir /\ od # nd THEN Get(s1, LogOf(i)).head + 1 ELSE Null
    IN Then(IF j = Null THEN Ret(s1, NoUpdate)
            ELSE nova_remove_dentry(s1, nd, nn, 0, NoUpdate, TRUE), LAMBDA s2 :
    LET new == s2.ret
    IN Then(nova_add_dentry(s2, nd, nn, i, inc, new), LAMBDA s3 :
    LET s4 == IF inc > 0 THEN Sih(s3, nd, [nlink |-> s3.sih[nd].nlink + 1]) ELSE s3
    IN Then(nova_remove_dentry(s4, od, on, dec, IF od = nd THEN s3.ret ELSE NoUpdate, TRUE), LAMBDA s5 :
    LET old == s5.ret
        s6 == IF dec < 0 THEN Sih(s5, od, [nlink |-> LinksAfter(s5.sih[od].nlink, -1)]) ELSE s5
        left == Max({0, s.sih[j].nlink - (IF dir THEN 2 ELSE 1)})
    IN Then(IF j = Null THEN s6
            ELSE nova_append_link_change_entry(Sih(s6, j, [nlink |-> left]), j, left), LAMBDA s7 :
    LET gone == j # Null /\ left = 0
    IN Then(nova_create_rename_transaction(s7, i, od, j, gone, IF od = nd THEN Null ELSE nd,
                                           <<father, new.create, old.create>>), LAMBDA s8 :
    Then(nova_reassign_logentry(IF j = Null THEN s8 ELSE nova_reassign_logentry(s8, new.create),
                                old.create), LAMBDA s9 :
    Then(nova_update_inode(nova_update_inode(s9, i, s1.ret.tail), od, old.tail), LAMBDA t1 :
    Then(IF od = nd THEN t1 ELSE nova_update_inode(t1, nd, s3.ret.tail), LAMBDA t2 :
    Then(IF father = Null THEN t2
         ELSE nova_update_entry_csum(St(t2, At(father), [ino |-> nd]), father), LAMBDA t3 :
    Then(IF gone THEN St(t3, Ino(j), [valid |-> FALSE]) ELSE t3, LAMBDA t4 :
    Then(IF j = Null THEN t4 ELSE nova_update_inode(t4, j, s7.ret.tail), LAMBDA t5 :
    Then(nova_invalidate_link_change_entry(nova_commit_lite_transaction(Barrier(t5)), s1.ret.old), LAMBDA t6 :
    Then(IF j = Null THEN t6
         ELSE nova_invalidate_dentries(nova_invalidate_link_change_entry(t6, s7.ret.old), new), LAMBDA t7 :
    IF j # Null /\ dir /\ ~nova_empty_dir(s, j) THEN Ret(s, "ENOTEMPTY")
    ELSE IF s1.ret.tail = Null THEN GiveUp(s1)
    ELSE IF ~new.ok THEN GiveUp(s2)
    ELSE IF ~s3.ret.ok THEN GiveUp(s3)
    ELSE IF ~old.ok THEN GiveUp(s5)
    ELSE IF s7.ret.tail = Null THEN GiveUp(s7)
    ELSE Ret(nova_invalidate_dentries(t7, old), "ok")))))))))))))))
================================================================================

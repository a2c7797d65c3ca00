-------------------------------- MODULE Winefs --------------------------------
(* A mounted WineFS, strict: system calls, eviction of unlinked inodes,          *)
(* directories dropped from memory and read again, unmount, power failure in the *)
(* middle of any of these and of the mount that follows (super.c, bbuild.c over  *)
(* WinefsNamei). One CPU, so one free list and one list of inodes.               *)
EXTENDS WinefsNamei

CONSTANTS Values,        \* what is written to files
          MaxDepth,      \* bound: no path is longer, MaxOps suffices
          MaxSize,       \* bound: file size in units
          Extents,       \* <<start, end>> of the writes and allocations made
          Sizes,         \* the sizes files are truncated to
          MaxOps,        \* bound: system calls
          MaxCrashes,    \* bound: power failures while mounted
          MaxMountCrashes \* bound: power failures while mounting

VARIABLES fs,       \* the machine state
          tree,     \* what path lookups see; kept while the power is off
          pins,     \* inodes without a name that tasks still have open
          mode,     \* "up", "down", "off" (unmounted) or "oops" (the kernel stopped)
          ops, crashes, mountCrashes,
          call,     \* history: the call made last and its arguments, unless it failed
          broken    \* history: gaps of the code that have been entered

vars == <<fs, tree, pins, mode, ops, crashes, mountCrashes, call, broken>>

Root == 1
BlockNode == 2     \* PMFS_BLOCKNODE_IN0
InodeList == 3     \* PMFS_INODELIST_IN0
Super == <<"super">>

------------------------------------------------------------------------------
(* The free list and the inode numbers, saved at unmount in two files that have  *)
(* no name and read at mount.                                                    *)

\* The inode is cleared in a transaction, then its blocks are given back.
ClearListInode(s, i) ==
    LET p == Get(s, Ino(i))
    IN pmfs_free_inode_subtree(
           pmfs_commit_transaction(St(LogAll(s, 1, Ino(i)), Ino(i), NoInode), 1),
           p.root, p.height, (p.size - 1) \div Units)
pmfs_clear_datablock_inode(s) == ClearListInode(s, BlockNode)
pmfs_clear_inodelist_inode(s) == ClearListInode(s, InodeList)

\* The k-th range kept in file i.
RangeAt(m, i, k) == Unit(pmfs_find_data_block(m, i, (k - 1) \div Units), (k - 1) % Units)
RangesOf(s, i, n) == [k \in 1..n |-> Get(s, RangeAt(s.m, i, k))]
ListEntry(low, high) == [k |-> "range", low |-> low, high |-> high]

\* Ranges of one huge page go to the huge tree, the others to the tree of small ones,
\* in the order of their addresses.
pmfs_init_blockmap_from_inode(s, n) ==
    Then(ToSet(RangesOf(s, BlockNode, n)), LAMBDA R :
    LET huge == {r \in R : IS_BLOCK_2MB_ALIGNED(r.low) /\ r.high - r.low + 1 = H}
        small == SetToSortSeq(R \ huge, LAMBDA x, y : x.low < y.low)
        una == FoldLeft(LAMBDA q, r : Append(q, Node(r.low, r.high)), <<>>, small)
        H1 == {r.low : r \in huge}
    IN [pmfs_init_free_list(0) EXCEPT
          !.una = una, !.first_u = IF una = <<>> THEN 0 ELSE 1, !.num_u = Len(una),
          !.huge = H1, !.first_h = IF H1 = {} THEN 0 ELSE Min(H1), !.num_h = Cardinality(H1),
          !.num_free = MapThenSumSet(LAMBDA r : r.high - r.low + 1, R)])

pmfs_init_inode_list_from_inode(s, n) == UNION {r.low..r.high : r \in ToSet(RangesOf(s, InodeList, n))}

\* The root of the inode is not reset: an inode that still has one keeps its block.
pmfs_allocate_datablock_block_inode(s, i, num) ==
    Then(St(s, Ino(i), [type |-> "none", nlink |-> 1, eof |-> FALSE, height |-> 0,
                        dtime |-> FALSE, size |-> num * Units]), LAMBDA t :
    Then(pmfs_alloc_blocks_weak(t, 1, i, 0, num, FALSE, FALSE), LAMBDA u :
    Ret(St(u, Item(i), [ino |-> i]), u.ret)))

pmfs_append_range_node_entry(s, l, low, high) == Barrier(Fl(Put(s, l, ListEntry(low, high)), {l}))

pmfs_save_range_nodes(s, i, ranges, from) ==
    FoldLeft(LAMBDA t, k : pmfs_append_range_node_entry(t, RangeAt(t.m, i, from + k),
                                                        ranges[k].low, ranges[k].high),
             s, IndexSeq(1, Len(ranges)))

HugeRanges(L) ==
    FoldLeft(LAMBDA q, b : Append(q, Node(b, b + H - 1)), <<>>,
             Ascending(L.huge))

pmfs_save_free_list_blocknodes(s, i) ==
    pmfs_save_range_nodes(pmfs_save_range_nodes(s, i, s.list.una, 0), i, HugeRanges(s.list),
                          Len(s.list.una))

\* The numbers in use as the ranges of inode_inuse_tree.
InuseRanges(S) ==
    LET lows == Ascending({i \in S : i - 1 \notin S})
        high(i) == Min({j \in S : j >= i /\ j + 1 \notin S})
    IN FoldLeft(LAMBDA q, i : Append(q, Node(i, high(i))), <<>>, lows)

\* The pages are counted before the ones the list itself needs are taken.
Pages(n) == (n + Units - 1) \div Units
pmfs_save_blocknode_mappings(s) ==
    LET num == Pages(s.list.num_u + s.list.num_h)
    IN Then(pmfs_allocate_datablock_block_inode(LogAll(s, 1, Ino(BlockNode)), BlockNode, num), LAMBDA s1 :
    Then(pmfs_save_free_list_blocknodes(s1, BlockNode), LAMBDA s2 :
    Then(St(LogAll(s2, 1, Super), Super,
            [nodes |-> Len(s1.list.una) + Cardinality(s1.list.huge),
             inodes |-> Len(InuseRanges(s1.inuse))]), LAMBDA s3 :
    IF s1.ret THEN pmfs_commit_transaction(s3, 1) ELSE pmfs_abort_transaction(s1, 1))))

\* A root left from before is written to, whoever the block belongs to by now.
pmfs_save_inode_list(s) ==
    Then(InuseRanges(s.inuse), LAMBDA ranges :
    Then(pmfs_allocate_datablock_block_inode(LogAll(s, 1, Ino(InodeList)), InodeList,
                                             Pages(Len(ranges))), LAMBDA s1 :
    Then(pmfs_commit_transaction(pmfs_save_range_nodes(s1, InodeList, ranges, 0), 1), LAMBDA s2 :
    LET stale == Get(s, Ino(InodeList)).root # Null
    IN IF stale THEN Gap(s2, "inodelist")
       ELSE IF s1.ret THEN s2 ELSE pmfs_abort_transaction(s1, 1))))

pmfs_put_super(s) == pmfs_save_blocknode_mappings(pmfs_save_inode_list(s))

------------------------------------------------------------------------------
(* Mount.                                                                       *)

RECURSIVE pmfs_inode_crawl_recursive(_, _, _)
pmfs_inode_crawl_recursive(m, b, height) ==
    IF height = 0 THEN {b}
    ELSE {b} \cup UNION {pmfs_inode_crawl_recursive(m, Ptr(m, b, k), height - 1) :
                            k \in {j \in 0..Fanout-1 : Ptr(m, b, j) # Null}}

pmfs_inode_crawl(m, i) ==
    LET p == Cur(m, Ino(i))
    IN IF p.root = Null THEN {} ELSE pmfs_inode_crawl_recursive(m, p.root, p.height)

TablePages(m) == {k \in 0..(Max(Inodes) \div PerTable) : Cur(m, Page(k)).b # Null}

\* The pages of inodes and what the inodes in use own; the two list files are passed over.
InUse(m) == {i \in Inodes : /\ (i \div PerTable) \in TablePages(m)
                            /\ Cur(m, Item(i)).ino >= NormalStart /\ ~Free(Cur(m, Ino(i)))}
\* A scan that forgets the pages of inodes.
BugFailureThreadFunc(m) ==
    [blocks |-> UNION {pmfs_inode_crawl(m, i) : i \in InUse(m)}, inuse |-> InUse(m)]
failure_thread_func(m) ==
    [blocks |-> UNION {HugePage(Cur(m, Page(k)).b) : k \in TablePages(m)}
                \cup UNION {pmfs_inode_crawl(m, i) : i \in InUse(m)},
     inuse |-> InUse(m)]

pmfs_failure_recovery_crawl(m) ==
    Then(failure_thread_func(m), LAMBDA c :
    [c EXCEPT !.blocks = @ \cup pmfs_inode_crawl(m, Root)])

\* Every run of blocks that nobody owns becomes one range of small blocks.
pmfs_build_blocknode_map(used) ==
    LET L == pmfs_init_free_list(0)
        free == (L.start..L.end) \ used
    IN Then(InuseRanges(free), LAMBDA una :
    [L EXCEPT !.una = una, !.first_u = IF una = <<>> THEN 0 ELSE 1, !.num_u = Len(una),
              !.num_free = Cardinality(free)])

pmfs_failure_recovery(s) ==
    Then(pmfs_failure_recovery_crawl(s.m), LAMBDA c :
    [s EXCEPT !.list = pmfs_build_blocknode_map(c.blocks),
              !.inuse = (0..NormalStart) \cup c.inuse])

\* What the last unmount saved; each file is cleared once it has been read.
pmfs_try_normal_recovery(s) ==
    LET c == Get(s, Super)
    IN Then(pmfs_clear_datablock_inode([s EXCEPT
                !.list = pmfs_init_blockmap_from_inode(s, c.nodes)]), LAMBDA s1 :
    Then([s1 EXCEPT !.inuse = pmfs_init_inode_list_from_inode(s1, c.inodes)], LAMBDA s2 :
    pmfs_clear_inodelist_inode(s2)))

pmfs_recovery(s) ==
    IF Get(s, Ino(BlockNode)).size # 0 THEN pmfs_try_normal_recovery(s) ELSE pmfs_failure_recovery(s)

\* pmfs_recover_journal.
RecoverJournal(s) ==
    LET u == Get(s, Undo)
    IN IF u = <<>> THEN s
       ELSE Barrier(Fl(Put(Barrier(pmfs_undo_transaction(s, u)), Undo, <<>>), {Undo}))

\* The items in the list's order, up to one that is no inode any more or names itself.
RECURSIVE RecoverItems(_, _)
RecoverItems(s, i) ==
    Then(pmfs_setsize(s, i, Get(s, Item(i)).size, TRUE), LAMBDA s1 :
    Then(pmfs_update_isize(s1, i, Get(s, Item(i)).size), LAMBDA s2 :
    Then(IF Get(s, Ino(i)).nlink # 0 THEN s2 ELSE pmfs_evict_inode(s, i, 0, 1), LAMBDA s3 :
    LET s4 == Fl(s3, {Ino(i)})
        next == Get(s4, Item(i)).next
    IN IF i = Null \/ ~pmfs_iget(s.m, i) THEN s
       ELSE IF next = Get(s4, Item(i)).ino THEN s4 ELSE RecoverItems(s4, next))))

pmfs_recover_truncate_list(s) ==
    LET first == Get(s, ListHead).next
    IN IF first = Null THEN s
       ELSE Barrier(StFl(Barrier(RecoverItems(s, first)), ListHead, [next |-> Null]))

Machine(m) == [m |-> m, pts |-> <<>>, list |-> pmfs_init_free_list(0), inuse |-> {}, trunc |-> <<>>,
               dir |-> <<>>, old |-> <<>>, logged |-> <<>>, gaps |-> {}, ret |-> "ok"]

------------------------------------------------------------------------------
(* What the contents of the device mean.                                        *)

\* The inode r and those with a name below it.
Below(m, r) ==
    LET depth[k \in Inodes] ==
            IF k = 0 THEN {r}
            ELSE LET R == depth[k - 1]
                 IN R \cup UNION {{e[2] : e \in pmfs_readdir(m, d)} :
                                    d \in {x \in R : Cur(m, Ino(x)).type = "dir"}}
    IN depth[MaxDepth]
Reach(m) == Below(m, Root)

Content(m, i) ==
    [u \in 0..(Cur(m, Ino(i)).size - 1) |->
        Then(pmfs_find_data_block(m, i, u \div Units), LAMBDA b :
        LET v == Cur(m, Unit(b, u % Units))
        IN IF b = Null THEN 0
           ELSE CASE v.k = "zero" -> 0 [] v.k = "data" -> v.v [] OTHER -> -1)]

Tree(m) ==
    [i \in Reach(m) |->
        LET p == Cur(m, Ino(i))
        IN [type |-> p.type,
            ents |-> IF p.type = "dir" THEN pmfs_readdir(m, i) ELSE {},
            data |-> IF p.type \in {"file", "symlink"} THEN Content(m, i) ELSE [u \in {} |-> 0]]]

\* Directories are read from the device when they are first used: all of them here.
pmfs_fill_super(m) ==
    Then(pmfs_recover_truncate_list(pmfs_recovery(RecoverJournal(Machine(m)))), LAMBDA t :
    Then({i \in Reach(t.m) : Cur(t.m, Ino(i)).type = "dir"}, LAMBDA dirs :
    [t EXCEPT !.dir = [d \in dirs |-> pmfs_rebuild_dir_inode_tree(t.m, d)]]))

Dirs == {i \in DOMAIN tree : tree[i].type = "dir"}
Child(d, name) == pmfs_inode_by_name(fs, d, name)
TypeOf(i) == Cur(fs.m, Ino(i)).type
Live(m) == {i \in Inodes : i >= NormalStart /\ ~Free(Cur(m, Ino(i)))}
Files == {i \in DOMAIN tree \cup pins : TypeOf(i) = "file"}

RECURSIVE Listed(_, _)
Listed(m, i) == IF i = Null THEN <<>> ELSE <<i>> \o Listed(m, Cur(m, Item(i)).next)

------------------------------------------------------------------------------
(* Actions.                                                                     *)

Quiet(t) == [t EXCEPT !.pts = <<>>, !.ret = "ok", !.gaps = {}]
Alive(t) == "oops" \notin t.gaps
\* Some gaps only show when the call is interrupted.
Recorded(t) == broken' = broken \cup (IF mode' = "down" THEN t.gaps ELSE t.gaps \ {"inplace", "beyond"})

Finished(t) ==
    /\ fs' = Quiet(t) /\ tree' = Tree(t.m)
    /\ pins' = {i \in Live(t.m) \cap (DOMAIN tree \cup pins) : Cur(t.m, Ino(i)).nlink = 0}
    /\ mode' = IF Alive(t) THEN mode ELSE "oops"
    /\ UNCHANGED crashes

\* The power fails before one of the fences of t.
Interrupted(t) ==
    /\ Alive(t) /\ crashes < MaxCrashes /\ crashes' = crashes + 1
    /\ \E k \in DOMAIN t.pts : \E img \in CrashImages(t.pts[k]) : fs' = Machine(Fresh(img))
    /\ mode' = "down" /\ pins' = {} /\ UNCHANGED tree

Idle == <<"none">>
Call(c, t) ==
    /\ ops' = ops + 1
    /\ Finished(t) \/ Interrupted(t)
    /\ call' = IF mode' = "down" \/ t.ret = "ok" THEN c ELSE Idle
    /\ Recorded(t) /\ UNCHANGED mountCrashes

\* The gaps that cost data or space. Behaviours are followed up to the first of them
\* and the mount after it.
Harm == {"oops", "short", "replaced", "tail", "beyond", "inodelist", "refused"}
Sound == broken \cap Harm = {}
Ready == mode = "up" /\ ops < MaxOps /\ Sound
NameFree(d, n) == Child(d, n) = Null
NameTaken(d, n) == Child(d, n) # Null

Create == Ready /\ \E d \in Dirs, n \in Names :
            NameFree(d, n) /\ Call(<<"create", d, n>>, pmfs_create(fs, d, n))
Mknod == Ready /\ \E d \in Dirs, n \in Names :
            NameFree(d, n) /\ Call(<<"mknod", d, n>>, pmfs_mknod(fs, d, n))
Symlink == Ready /\ \E d \in Dirs, n \in Names, v \in Values :
            NameFree(d, n) /\ Call(<<"symlink", d, n, v>>, pmfs_symlink(fs, d, n, v))
Mkdir == Ready /\ \E d \in Dirs, n \in Names :
            NameFree(d, n) /\ Call(<<"mkdir", d, n>>, pmfs_mkdir(fs, d, n))
Link == Ready /\ \E d \in Dirs, n \in Names, i \in DOMAIN tree :
            NameFree(d, n) /\ TypeOf(i) # "dir" /\ Call(<<"link", i, d, n>>, pmfs_link(fs, i, d, n))
Unlink == Ready /\ \E d \in Dirs, n \in Names :
            /\ NameTaken(d, n) /\ TypeOf(Child(d, n)) # "dir"
            /\ Call(<<"unlink", d, n>>, pmfs_unlink(fs, d, n))
Rmdir == Ready /\ \E d \in Dirs, n \in Names :
            /\ NameTaken(d, n) /\ TypeOf(Child(d, n)) = "dir"
            /\ Call(<<"rmdir", d, n>>, pmfs_rmdir(fs, d, n))

\* The kernel's rename checks come first. A directory that replaces another one
\* leaves its old parent's link count as it was.
Rename == Ready /\ \E d, e \in Dirs, n, o \in Names :
            \E i \in {Child(d, n)} :
            \E j \in {Child(e, o)} :
            LET dir(x) == TypeOf(x) = "dir"
            IN /\ i # Null /\ i # j /\ e \notin Below(fs.m, i)
               /\ j # Null => dir(i) = dir(j)
               /\ \E t \in {pmfs_rename(fs, d, n, e, o)} :
                    Call(<<"rename", d, n, e, o>>, IF j # Null /\ dir(i) THEN Gap(t, "links") ELSE t)

Write == Ready /\ \E i \in Files, r \in Extents, v \in Values :
            Call(<<"write", i, r[1], r[2], v>>, pmfs_xip_file_write(fs, i, r[1], r[2] - r[1], v))
Fallocate == Ready /\ \E i \in Files, r \in Extents, keep \in BOOLEAN :
            Call(<<"fallocate", i, IF keep THEN 0 ELSE r[2]>>, pmfs_fallocate(fs, i, r[1], r[2] - r[1], keep))

\* A page of a mapped file, or a huge page, is touched.
Fault == Ready /\ \E i \in Files : \E n \in 0..(Cur(fs.m, Ino(i)).size \div Units), num \in {1, H} :
            n % num = 0 /\ Call(<<"fault", i, n>>, pmfs_xip_huge_file_fault(fs, i, n, num))

\* An inode without a name that is truncated leaves the list with its old size.
Truncate == Ready /\ \E i \in Files, size \in Sizes :
            \E t \in {pmfs_notify_change(fs, i, size)} :
            Call(<<"truncate", i, size>>, IF i \in pins /\ t.trunc # fs.trunc THEN Gap(t, "unlisted") ELSE t)

\* The last reference to an inode without names is dropped. A power failure once the
\* inode is free and before it leaves the list cuts the list off at the next mount.
Evict == mode = "up" /\ Sound /\ \E i \in pins :
            \E t \in {pmfs_evict_inode(fs, i, 0, 1)} :
            /\ \/ /\ fs' = Quiet(t) /\ pins' = pins \ {i}
                  /\ mode' = IF Alive(t) THEN mode ELSE "oops"
                  /\ Recorded(t) /\ UNCHANGED <<tree, crashes>>
               \/ Interrupted(t)
                  /\ broken' = broken \cup t.gaps \cup (IF Len(fs.trunc) > 1 THEN {"list"} ELSE {})
            /\ call' = Idle /\ UNCHANGED <<ops, mountCrashes>>

\* The kernel drops a directory nobody has open from memory; the next lookup reads it.
Forget == /\ mode = "up" /\ Sound
          /\ \E d \in Dirs \ {Root} :
                fs' = [fs EXCEPT !.dir[d] = pmfs_rebuild_dir_inode_tree(fs.m, d)]
          /\ call' = Idle /\ UNCHANGED <<tree, pins, mode, ops, crashes, mountCrashes, broken>>

\* pmfs_put_super, once every inode has been evicted. Bound: the power fails in the middle
\* of it only while there is a call left to make after the next mount.
Unmount ==
    /\ mode = "up" /\ pins = {} /\ ops > 0 /\ Sound
    /\ \E t \in {pmfs_put_super(fs)} :
       /\ \/ /\ fs' = Machine(Fresh(View(t.m))) /\ UNCHANGED <<tree, pins, crashes>>
             /\ mode' = IF Alive(t) THEN "off" ELSE "oops"
          \/ ops < MaxOps /\ Interrupted(t)
       /\ Recorded(t)
    /\ call' = Idle /\ UNCHANGED <<ops, mountCrashes>>

\* Between two calls.
Crash ==
    /\ mode = "up" /\ Sound /\ crashes < MaxCrashes /\ crashes' = crashes + 1
    /\ \E img \in CrashImages(fs.m) : fs' = Machine(Fresh(img))
    /\ mode' = "down" /\ pins' = {} /\ call' = Idle /\ UNCHANGED <<tree, ops, mountCrashes, broken>>

Mount ==
    /\ mode \in {"down", "off"} /\ "inodelist" \notin broken
    /\ \E t \in {pmfs_fill_super(fs.m)} :
       \/ /\ fs' = Quiet(t) /\ tree' = Tree(t.m)
          /\ mode' = IF Alive(t) THEN "up" ELSE "oops"
          /\ Recorded(t) /\ UNCHANGED mountCrashes
       \/ /\ mountCrashes < MaxMountCrashes /\ mountCrashes' = mountCrashes + 1
          /\ \E k \in DOMAIN t.pts : \E img \in CrashImages(t.pts[k]) :
                 fs' = Machine(Fresh(img))
          /\ mode' = "down" /\ UNCHANGED tree
          /\ broken' = broken \cup t.gaps
                 \cup (IF Len(Listed(fs.m, Cur(fs.m, ListHead).next)) > 1 THEN {"list"} ELSE {})
    /\ UNCHANGED <<pins, ops, crashes, call>>

\* One page of inodes, the root directory in the first small block.
pmfs_init ==
    Then([l \in {Undo, ListHead, Super} \cup {Page(k) : k \in 0..(Max(Inodes) \div PerTable)}
                  \cup {Ino(i) : i \in Inodes} \cup {Item(i) : i \in Inodes}
                  \cup {Unit(b, u) : b \in 0..NumBlocks-1, u \in 0..Units-1} |->
            CASE l = Undo -> <<>>
              [] l = ListHead -> [next |-> Null]
              [] l = Super -> [nodes |-> 0, inodes |-> 0]
              [] l[1] = "page" -> [b |-> Null]
              [] l[1] = "item" -> NoItem
              [] l[1] = "ino" -> NoInode
              [] OTHER -> Zero], LAMBDA empty :
    Then(pmfs_new_blocks([Machine(Fresh(empty)) EXCEPT !.list = pmfs_init_blockmap(FALSE)[0],
                                                       !.inuse = 0..NormalStart],
                         H, TRUE, TRUE), LAMBDA s1 :
    Then(pmfs_new_blocks(St(s1, Page(0), [b |-> s1.ret.b]), 1, FALSE, TRUE), LAMBDA s2 :
    LET b == s2.ret.b
    IN Then(St(St(s2, Ino(Root), [type |-> "dir", nlink |-> 2, blocks |-> 1, size |-> Units, root |-> b]),
               Item(Root), [ino |-> Root]), LAMBDA s3 :
    Then(Put(Put(s3, Unit(b, 0), De(Root, ".", 1)), Unit(b, 1), De(Root, "..", Units - 1)), LAMBDA s4 :
    [s4 EXCEPT !.m = Fresh(View(s4.m)),
               !.dir = Root :> pmfs_rebuild_dir_inode_tree(s4.m, Root)])))))

\* A formatted device, or one on which calls were made: a file with a hole beside a
\* directory, two directories, a file in a huge page, a file removed while open, or a
\* directory and a file removed while open.
New == NormalStart + 1
Used(n1, n2, v) == <<<<"create", n1>>, <<"write", v>>, <<"mkdir", n2>>>>
TwoDirs(n1, n2) == <<<<"mkdir", n1>>, <<"mkdir", n2>>>>
Removed(n1, n2) == <<<<"mkdir", n1>>, <<"create", n2>>, <<"rmdir", n1>>, <<"unlink", n2>>>>
Orphan(n1) == <<<<"create", n1>>, <<"unlink", n1>>>>
Mapped(n1) == <<<<"create", n1>>, <<"fallocate">>>>
Prepared(calls) ==
    FoldLeft(LAMBDA s, c : CASE c[1] = "create" -> pmfs_create(s, Root, c[2])
                             [] c[1] = "mkdir" -> pmfs_mkdir(s, Root, c[2])
                             [] c[1] = "unlink" -> pmfs_unlink(s, Root, c[2])
                             [] c[1] = "rmdir" -> pmfs_rmdir(s, Root, c[2])
                             [] c[1] = "write" -> pmfs_xip_file_write(s, New, Units, 1, c[2])
                             [] c[1] = "fallocate" -> pmfs_fallocate(s, New, 0, H * Units, FALSE),
             pmfs_init, calls)

Init ==
    /\ \E n1, n2 \in Names, v \in Values : \E start \in
            {<<<<>>, {}, 1, 0>>, <<Used(n1, n2, v), {}, 1, 0>>, <<TwoDirs(n1, n2), {}, 1, 0>>,
             <<Mapped(n1), {}, 1, 0>>, <<Orphan(n1), {New}, 1, MaxMountCrashes>>,
             <<Removed(n1, n2), {New, New + 1}, 0, MaxMountCrashes>>} :
        /\ n1 # n2
        /\ fs = Quiet(Prepared(start[1])) /\ pins = start[2] /\ ops = MaxOps - start[3]
        /\ mountCrashes = MaxMountCrashes - start[4]
    /\ mode = "up" /\ crashes = 0
    /\ tree = Tree(fs.m) /\ call = Idle /\ broken = {}

Next == \/ Create \/ Mknod \/ Symlink \/ Mkdir \/ Link \/ Unlink \/ Rmdir \/ Rename
        \/ Write \/ Fallocate \/ Fault \/ Truncate
        \/ Evict \/ Forget \/ Unmount \/ Crash \/ Mount

Spec == Init /\ [][Next]_vars

------------------------------------------------------------------------------
(* Properties.                                                                  *)

\* The kinds of gap known, and while mounted: a root directory, no transaction left
\* open by the code that logs one, and every inode in use known to inode_inuse_tree.
TypeOK ==
    /\ mode \in {"up", "down", "off", "oops"}
    /\ broken \subseteq {"oops", "refused", "replaced", "short", "inplace", "beyond", "tail", "links",
                         "list", "unlisted", "inodelist"}
    /\ mode = "up" /\ Sound => /\ Root \in DOMAIN tree /\ Cur(fs.m, Undo) = <<>>
                               /\ Live(fs.m) \subseteq fs.inuse /\ fs.inuse \subseteq Inodes

\* A call that returns success has changed the tree to exactly what it asks for, one that
\* returns an error has not changed it, and a call that a power failure interrupts is there
\* as a whole or not at all after pmfs_fill_super, but for data overwritten in place;
\* eviction, directories read again, unmount and mount change nothing. Up to the first gap
\* that costs data.
V == INSTANCE Vfs WITH down <- mode = "down"
ImplementsVfs == V!Init /\ [][V!Next \/ broken' \cap Harm # {}]_(V!vars)

\* In strict mode a write that is interrupted is there as a whole or not at all after
\* pmfs_recover_journal, unless pmfs_xip_cow_file_write took its in-place path.
StrictWrites == [][mode = "down" /\ mode' = "up" =>
                     tree' = tree \/ V!Done(call) \/ broken' \cap (Harm \cup {"inplace"}) # {}]_vars

Owned(m) == (0..(HeadReserved - 1)) \cup UNION {HugePage(Cur(m, Page(k)).b) : k \in TablePages(m)}
            \cup UNION {pmfs_inode_crawl(m, i) : i \in Live(m) \cup {Root}}
\* A block belongs to at most one inode and none that belongs to one can be handed out by
\* pmfs_new_blocks, however the mount found out what is in use: the lists an unmount
\* saved, or a scan of the inodes after a power failure.
BlocksSafe ==
    mode = "up" /\ broken \cap Harm = {} =>
        /\ fs.list.num_free = Cardinality(FreeBlocks(fs.list))
        /\ Owned(fs.m) \cap FreeBlocks(fs.list) = {}
        /\ \A i, j \in Live(fs.m) \cup {Root} : i # j =>
            pmfs_inode_crawl(fs.m, i) \cap pmfs_inode_crawl(fs.m, j) = {}

\* Nothing is lost: every inode in use has a name or is open (an interrupted unlink, rmdir
\* or eviction is finished by pmfs_recover_truncate_list), and every block belongs to
\* something or can be handed out.
NothingLost ==
    mode = "up" /\ broken \subseteq {"links", "short", "inplace"} =>
        /\ {i \in Live(fs.m) : TypeOf(i) # "special"} \subseteq DOMAIN tree \cup pins
        /\ (HeadReserved..(NumBlocks - 1)) \ FreeBlocks(fs.list) \subseteq Owned(fs.m)

\* The link count pmfs_link, pmfs_unlink, pmfs_mkdir, pmfs_rmdir and pmfs_rename leave on a
\* file is the number of its names, on a directory two more than it has subdirectories.
LinksMatch ==
    mode = "up" /\ "links" \notin broken =>
        \A i \in DOMAIN tree :
            Cur(fs.m, Ino(i)).nlink =
                IF tree[i].type = "dir"
                THEN 2 + Cardinality({e \in tree[i].ents : tree[e[2]].type = "dir"})
                ELSE Cardinality({<<d, n>> \in Dirs \X Names : <<n, i>> \in tree[d].ents})

\* The tree of names kept in memory (pmfs_insert_dir_tree, pmfs_remove_dir_tree) finds
\* exactly the entries that stand in the directory's blocks, after a rebuild too.
TreesAgree ==
    mode = "up" => \A d \in Dirs :
        tree[d].ents = {<<n, DeAt(fs.m, e[1], e[2]).ino>> :
                         <<n, e>> \in {<<n, fs.dir[d].ents[n]>> : n \in DOMAIN fs.dir[d].ents}}

HasBlock(i, u) == pmfs_find_data_block(fs.m, i, u \div Units) # Null
Plain(v) == IF v.k = "zero" THEN 0 ELSE IF v.k = "data" THEN v.v ELSE -1
\* What a read returns (do_xip_mapping_read), from any offset with no hole after it, is
\* the contents of the file up to its end; pmfs_find_region finds the next block that is
\* there and the next that is not, except that the last hole is passed over. A file that
\* fills its tree of blocks to the last byte is left out.
ReadsAgree ==
    mode = "up" /\ Sound => \A i \in Files :
        LET p == Cur(fs.m, Ino(i))
        IN Then(Content(fs.m, i), LAMBDA data :
        LET at == 0..(p.size - 1)
            from(S, off) == {u \in S : u >= off}
        IN Then({u \in at : HasBlock(i, u)}, LAMBDA D :
        LET tail(off) == from(D, off) = {}
            lastPage == ((p.size - 1) \div Units) * Units
        IN \A off \in at :
            /\ (\A u \in off..(lastPage - 1) : u \in D) =>
                 \A r \in do_xip_mapping_read(fs.m, i, off) :
                    /\ Len(r) = p.size - off
                    /\ \A k \in DOMAIN r : Plain(r[k]) = data[off + k - 1]
            /\ p.size < Units * Span(p.height) =>
                 /\ pmfs_find_region(fs.m, i, off, FALSE) = IF tail(off) THEN -1 ELSE Min(from(D, off))
                 /\ pmfs_find_region(fs.m, i, off, TRUE) =
                        IF tail(off) THEN p.size ELSE Min(from(at \ D, off) \cup {p.size})))

\* What pmfs_lookup, pmfs_getattr, reads and seeks say of the tree is what is there.
Consistent == TypeOK /\ LinksMatch /\ TreesAgree /\ ReadsAgree
==============================================================================

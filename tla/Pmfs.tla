--------------------------------- MODULE Pmfs ---------------------------------
(* A mounted PMFS: system calls, eviction of unlinked inodes, unmount, power     *)
(* failure in the middle of any of these and of the mount that follows           *)
(* (super.c, bbuild.c over PmfsNamei).                                           *)
EXTENDS PmfsNamei

CONSTANTS Values,        \* what is written to files
          MaxDepth,      \* bound: no path is longer, MaxOps suffices
          MaxSize,       \* bound: file size in units
          Extents,       \* <<start, end>> of the writes and allocations made
          Sizes,         \* the sizes files are truncated to
          MaxOps,        \* bound: system calls
          MaxCrashes,    \* bound: power failures while mounted
          MaxMountCrashes \* bound: power failures while mounting

VARIABLES fs,       \* the machine state
          tree,     \* what path lookups see; kept while the power is off
          pins,     \* inodes without a name that tasks still have open
          mode,     \* "up", "down" or "off" (unmounted)
          ops, crashes, mountCrashes,
          call,     \* history: the call made last and its arguments, unless it failed
          broken    \* history: gaps of the code that have been entered

vars == <<fs, tree, pins, mode, ops, crashes, mountCrashes, call, broken>>

Root == 1
BlockNode == 2     \* PMFS_BLOCKNODE_IN0
Super == <<"super">>

------------------------------------------------------------------------------
(* The block map at unmount and mount.                                          *)

pmfs_clear_datablock_inode(s) ==
    pmfs_commit_transaction(StFl(LogAll(s, 1, Ino(BlockNode)), Ino(BlockNode), NoInode), 1)

pmfs_init_blockmap_from_inode(s, n) ==
    LET node(k) == Then(pmfs_find_data_block(s.m, Ino(BlockNode), (k - 1) \div Units), LAMBDA b :
                   LET v == Get(s, Unit(b, (k - 1) % Units))
                   IN Node(v.low, v.high))
    IN FoldLeft(LAMBDA L, k : Append(L, node(k)), <<>>, IndexSeq(1, n))

\* The list saved by the last unmount; its blocks are returned.
pmfs_can_skip_full_scan(s) ==
    LET p == Get(s, Ino(BlockNode))
        c == Get(s, Super)
    IN Then([s EXCEPT !.used = pmfs_init_blockmap_from_inode(s, c.nodes), !.free = c.free,
                      !.icount = c.icount, !.ifree = c.ifree, !.hint = c.hint], LAMBDA s1 :
    Then(pmfs_clear_datablock_inode(s1), LAMBDA s2 :
    Then(pmfs_free_inode_subtree(s2, p.root, p.height, p.bt, (p.size - 1) \div Units), LAMBDA s3 :
    IF p.root = Null THEN Ret(s, FALSE) ELSE Ret([s3 EXCEPT !.ok = @ /\ s3.ret], TRUE))))

pmfs_allocate_datablock_block_inode(s, tx, num) ==
    __pmfs_alloc_blocks(StFl(s, Ino(BlockNode),
        [type |-> "none", nlink |-> 1, bt |-> 1, eof |-> FALSE, height |-> 0, dtime |-> FALSE,
         size |-> num * Units]), tx, Ino(BlockNode), 0, num, FALSE)

pmfs_save_blocknode_mappings(s) ==
    LET num == (Len(s.used) - 1) \div Units + 1
    IN Then(pmfs_allocate_datablock_block_inode(LogAll(s, 1, Ino(BlockNode)), 1, num), LAMBDA s1 :
    LET at(k) == Unit(pmfs_find_data_block(s1.m, Ino(BlockNode), (k - 1) \div Units),
                      (k - 1) % Units)
    IN Then(FoldLeft(LAMBDA t, k : Put(t, at(k), [k |-> "range", low |-> s1.used[k].low,
                                                  high |-> s1.used[k].high]),
                     s1, IndexSeq(1, Len(s1.used))), LAMBDA s2 :
    Then(Fl(s2, {at(k) : k \in DOMAIN s1.used}), LAMBDA s3 :
    Then(St(LogAll(s3, 1, Super), Super,
            [nodes |-> Len(s1.used), free |-> s1.free, icount |-> s1.icount,
             ifree |-> s1.ifree, hint |-> s1.hint]), LAMBDA s4 :
    IF s1.ret THEN pmfs_commit_transaction(s4, 1) ELSE pmfs_abort_transaction(s1, 1)))))

\* Blocks below b; a bit of the large bitmap stands for Large blocks.
RECURSIVE pmfs_inode_crawl_recursive(_, _, _, _)
pmfs_inode_crawl_recursive(m, b, height, bt) ==
    IF height = 0
    THEN [small |-> IF bt = 1 THEN {b} ELSE {}, large |-> IF bt = 1 THEN {} ELSE {b \div Large}]
    ELSE Then({pmfs_inode_crawl_recursive(m, Ptr(m, b, i), height - 1, bt) :
                 i \in {j \in 0..Fanout-1 : Ptr(m, b, j) # Null}}, LAMBDA below :
         [small |-> {b} \cup UNION {x.small : x \in below},
          large |-> UNION {x.large : x \in below}])

pmfs_inode_crawl(m, p) ==
    IF p.root = Null THEN [small |-> {}, large |-> {}]
    ELSE pmfs_inode_crawl_recursive(m, p.root, p.height, p.bt)

\* A scan that forgets the blocks of the table itself.
BugInodeTableCrawl(m) ==
    LET inodes == 0..((Cur(m, Table).size \div Units) * PerTable - 1)
        live == {i \in inodes : ~Free(Cur(m, Ino(i)))}
    IN Then({pmfs_inode_crawl(m, Cur(m, Ino(i))) : i \in live}, LAMBDA all :
    [small |-> UNION {x.small : x \in all}, large |-> UNION {x.large : x \in all},
     count |-> Cardinality(inodes), live |-> Cardinality(live)])

\* The blocks of the table and of every inode of it that is not free.
pmfs_inode_table_crawl(m) ==
    LET t == Cur(m, Table)
        inodes == 0..((t.size \div Units) * PerTable - 1)
        live == {i \in inodes : ~Free(Cur(m, Ino(i)))}
    IN Then({pmfs_inode_crawl(m, Cur(m, Ino(i))) : i \in live} \cup {pmfs_inode_crawl(m, t)}, LAMBDA all :
    [small |-> UNION {x.small : x \in all}, large |-> UNION {x.large : x \in all},
     count |-> Cardinality(inodes), live |-> Cardinality(live)])

NumFree(L) == BlockEnd - Cardinality(UsedSet(L))

pmfs_setup_blocknode_map(s) ==
    Then(pmfs_can_skip_full_scan(s), LAMBDA fast :
    Then(pmfs_clear_datablock_inode(s), LAMBDA s1 :
    Then(pmfs_inode_table_crawl(s1.m), LAMBDA c :
    Then(pmfs_build_blocknode_map(pmfs_init_blockmap, c.small, c.large, Large), LAMBDA L :
    IF fast.ret THEN fast
    ELSE [s1 EXCEPT !.used = L, !.free = NumFree(L), !.icount = c.count,
                    !.ifree = c.count - (c.live + 2), !.hint = HintStart]))))

------------------------------------------------------------------------------
(* Mount.                                                                       *)

\* pmfs_recover_journal, as PmfsJournal shows it to work.
RecoverJournal(s) ==
    LET u == Get(s, Undo)
    IN IF u = <<>> THEN s ELSE Barrier(Fl(Put(Barrier(Undone(s, u)), Undo, <<>>), {Undo}))

\* The items in the list's order, up to one that is no inode any more.
RECURSIVE RecoverItems(_, _)
RecoverItems(s, i) ==
    Then(pmfs_set_blocksize_hint(s, i, Get(s, Item(i)).size), LAMBDA s1 :
    Then(pmfs_setsize(s1, i, Get(s, Item(i)).size, TRUE), LAMBDA s2 :
    Then(pmfs_update_isize(s2, i, Get(s, Item(i)).size), LAMBDA s3 :
    Then(IF Get(s, Ino(i)).nlink # 0 THEN s3 ELSE pmfs_evict_inode(s, i, 0, 1), LAMBDA s4 :
    IF i = Null \/ ~pmfs_iget(s.m, i) THEN s
    ELSE RecoverItems(Fl(s4, {Ino(i)}), Get(s4, Item(i)).next)))))

pmfs_recover_truncate_list(s) ==
    LET first == Get(s, ListHead).next
    IN IF first = Null THEN s
       ELSE Barrier(StFl(Barrier(RecoverItems(s, first)), ListHead, [next |-> Null]))

Machine(m) == [m |-> m, pts |-> <<>>, used |-> <<>>, free |-> 0, ok |-> TRUE, icount |-> 0,
               ifree |-> 0, hint |-> 0, trunc |-> <<>>, ret |-> "ok"]

pmfs_fill_super(m) ==
    pmfs_recover_truncate_list(pmfs_setup_blocknode_map(RecoverJournal(Machine(m))))

------------------------------------------------------------------------------
(* What the contents of the device mean.                                        *)

\* The inode r and those with a name below it.
Below(m, r) ==
    LET depth[k \in Inodes] ==
            IF k = 0 THEN {r}
            ELSE LET R == depth[k - 1]
                 IN R \cup UNION {{e[2] : e \in pmfs_readdir(m, d)} :
                                    d \in {x \in R : Cur(m, Ino(x)).type = "dir"}}
    IN depth[MaxDepth]
Reach(m) == Below(m, Root)

Content(m, i) ==
    [u \in 0..(Cur(m, Ino(i)).size - 1) |->
        Then(pmfs_find_data_block(m, Ino(i), u \div Units), LAMBDA b :
        LET v == Cur(m, Unit(b, u % Units))
        IN IF b = Null THEN 0
           ELSE CASE v.k = "zero" -> 0 [] v.k = "data" -> v.v [] OTHER -> -1)]

Tree(m) ==
    [i \in Reach(m) |->
        LET p == Cur(m, Ino(i))
        IN [type |-> p.type,
            ents |-> IF p.type = "dir" THEN pmfs_readdir(m, i) ELSE {},
            data |-> IF p.type \in {"file", "symlink"} THEN Content(m, i) ELSE [u \in {} |-> 0]]]

Dirs == {i \in DOMAIN tree : tree[i].type = "dir"}
Child(d, name) == pmfs_inode_by_name(fs.m, d, name)
TypeOf(i) == Cur(fs.m, Ino(i)).type
Live(m) == {i \in Inodes : i >= HintStart /\ ~Free(Cur(m, Ino(i)))}
Files == {i \in DOMAIN tree \cup pins : TypeOf(i) = "file"}

\* The truncate list as it stands in persistent memory.
RECURSIVE Listed(_, _)
Listed(m, i) == IF i = Null THEN <<>> ELSE <<i>> \o Listed(m, Cur(m, Item(i)).next)

------------------------------------------------------------------------------
(* Actions.                                                                     *)

Finished(t) ==
    /\ fs' = [t EXCEPT !.pts = <<>>, !.ret = "ok"] /\ tree' = Tree(t.m)
    /\ pins' = {i \in Live(t.m) \cap (DOMAIN tree \cup pins) : Cur(t.m, Ino(i)).nlink = 0}
    /\ UNCHANGED <<mode, crashes>>

\* The power fails before one of the fences of t.
Interrupted(t) ==
    /\ crashes < MaxCrashes /\ crashes' = crashes + 1
    /\ \E k \in DOMAIN t.pts : \E img \in CrashImages(t.pts[k]) : fs' = Machine(Fresh(img))
    /\ mode' = "down" /\ pins' = {} /\ UNCHANGED tree

If(cond, gap) == IF cond THEN {gap} ELSE {}

Idle == <<"none">>
Call(c, t, gaps) ==
    /\ ops' = ops + 1
    /\ Finished(t) \/ Interrupted(t)
    /\ call' = IF mode' = "down" \/ t.ret = "ok" THEN c ELSE Idle
    /\ broken' = broken \cup gaps /\ UNCHANGED mountCrashes
\* A name that finds no space leaves the blocks taken for a taller directory behind.
Leak(t) == If(mode' = "up" /\ tree' = tree /\ t.free < fs.free, "leaked")
Enter(c, t) == Call(c, t, Leak(t))

Ready == mode = "up" /\ ops < MaxOps
NameFree(d, n) == Child(d, n) = Null
NameTaken(d, n) == Child(d, n) # Null

Create == Ready /\ \E d \in Dirs, n \in Names :
            NameFree(d, n) /\ Enter(<<"create", d, n>>, pmfs_create(fs, d, n))
Mknod == Ready /\ \E d \in Dirs, n \in Names :
            NameFree(d, n) /\ Enter(<<"mknod", d, n>>, pmfs_mknod(fs, d, n))
Symlink == Ready /\ \E d \in Dirs, n \in Names, v \in Values :
            NameFree(d, n) /\ Enter(<<"symlink", d, n, v>>, pmfs_symlink(fs, d, n, v))
Mkdir == Ready /\ \E d \in Dirs, n \in Names :
            NameFree(d, n) /\ Enter(<<"mkdir", d, n>>, pmfs_mkdir(fs, d, n))
Link == Ready /\ \E d \in Dirs, n \in Names, i \in DOMAIN tree :
            /\ NameFree(d, n) /\ TypeOf(i) # "dir"
            /\ Enter(<<"link", i, d, n>>, pmfs_link(fs, i, d, n))

Unlink == Ready /\ \E d \in Dirs, n \in Names :
            /\ NameTaken(d, n) /\ TypeOf(Child(d, n)) # "dir"
            /\ Call(<<"unlink", d, n>>, pmfs_unlink(fs, d, n), {})
Rmdir == Ready /\ \E d \in Dirs, n \in Names :
            /\ NameTaken(d, n) /\ TypeOf(Child(d, n)) = "dir"
            /\ Call(<<"rmdir", d, n>>, pmfs_rmdir(fs, d, n), {})

\* The kernel's rename checks come first. A directory that replaces another one
\* leaves its old parent's link count as it was.
Rename == Ready /\ \E d, e \in Dirs, n, o \in Names :
            \E i \in {Child(d, n)} :
            \E j \in {Child(e, o)} :
            LET dir(x) == TypeOf(x) = "dir"
            IN /\ i # Null /\ i # j /\ e \notin Below(fs.m, i)
               /\ j # Null => dir(i) = dir(j)
               /\ \E t \in {pmfs_rename(fs, d, n, e, o)} :
                  Call(<<"rename", d, n, e, o>>, t, Leak(t) \cup If(j # Null /\ dir(i), "links"))

\* Out of space the pointers to the blocks that were found are not written back ("short").
\* A write past the end of the file into a block it already has leaves its data there
\* when it is interrupted before the size is.
PastEnd(i, r) == \E u \in r[1]..(r[2] - 1) :
                    u >= Cur(fs.m, Ino(i)).size /\ pmfs_find_data_block(fs.m, Ino(i), u \div Units) # Null

Write == Ready /\ \E i \in Files, r \in Extents, v \in Values :
            \E t \in {pmfs_xip_file_write(fs, i, r[1], r[2] - r[1], v)} :
            Call(<<"write", i, r[1], r[2], v>>, t,
                 If(t.ret = "ENOSPC", "short") \cup If(mode' = "down" /\ PastEnd(i, r), "beyond"))
Fallocate == Ready /\ \E i \in Files, r \in Extents, keep \in BOOLEAN :
            \E t \in {pmfs_fallocate(fs, i, r[1], r[2] - r[1], keep)} :
            Call(<<"fallocate", i, IF keep THEN 0 ELSE r[2]>>, t, If(t.ret = "ENOSPC", "short"))

\* A page of a mapped file is touched.
Fault == Ready /\ \E i \in Files : \E n \in 0..(Cur(fs.m, Ino(i)).size \div Units) :
            Call(<<"fault", i, n>>, __pmfs_xip_file_fault(fs, i, n), {})

\* An inode without a name that is truncated leaves the list with its old size.
Truncate == Ready /\ \E i \in Files, size \in Sizes :
            \E t \in {pmfs_notify_change(fs, i, size)} :
            Call(<<"truncate", i, size>>, t, If(i \in pins /\ t.trunc # fs.trunc, "unlisted"))

\* The last reference to an inode without names is dropped. A power failure once the
\* inode is free and before it leaves the list cuts the list off at the next mount.
Evict == mode = "up" /\ \E i \in pins :
            \E t \in {pmfs_evict_inode(fs, i, 0, 1)} :
            /\ \/ /\ fs' = [t EXCEPT !.pts = <<>>, !.ret = "ok"] /\ pins' = pins \ {i}
                  /\ UNCHANGED <<tree, mode, crashes, broken>>
               \/ Interrupted(t)
                  /\ broken' = broken \cup If(Len(fs.trunc) > 1, "list")
            /\ call' = Idle /\ UNCHANGED <<ops, mountCrashes>>

\* pmfs_put_super, once every inode has been evicted.
Unmount ==
    /\ mode = "up" /\ pins = {} /\ ops > 0
    /\ \E t \in {pmfs_save_blocknode_mappings(fs)} :
       \/ /\ fs' = Machine(Fresh(View(t.m))) /\ mode' = "off" /\ UNCHANGED <<tree, pins, crashes>>
       \/ Interrupted(t)
    /\ call' = Idle /\ UNCHANGED <<ops, mountCrashes, broken>>

\* Between two calls.
Crash ==
    /\ mode = "up" /\ crashes < MaxCrashes /\ crashes' = crashes + 1
    /\ \E img \in CrashImages(fs.m) : fs' = Machine(Fresh(img))
    /\ mode' = "down" /\ pins' = {} /\ call' = Idle /\ UNCHANGED <<tree, ops, mountCrashes, broken>>

Mount ==
    /\ mode \in {"down", "off"}
    /\ \E t \in {pmfs_fill_super(fs.m)} :
       \/ /\ fs' = [t EXCEPT !.pts = <<>>, !.ret = "ok"] /\ tree' = Tree(t.m) /\ mode' = "up"
          /\ UNCHANGED <<mountCrashes, broken>>
       \/ /\ mountCrashes < MaxMountCrashes /\ mountCrashes' = mountCrashes + 1
          /\ \E k \in DOMAIN t.pts : \E img \in CrashImages(t.pts[k]) :
                 fs' = Machine(Fresh(img))
          /\ mode' = "down" /\ UNCHANGED tree
          /\ broken' = broken \cup If(Len(Listed(fs.m, Cur(fs.m, ListHead).next)) > 1, "list")
    /\ UNCHANGED <<pins, ops, crashes, call>>

\* One block of inodes, the root directory in the next block.
pmfs_init ==
    [Machine(Fresh([l \in {Undo, ListHead, Table, Super} \cup {Ino(i) : i \in Inodes}
                          \cup {Item(i) : i \in Inodes}
                          \cup {Unit(b, u) : b \in 0..BlockEnd-1, u \in 0..Units-1} |->
            CASE l = Undo -> <<>>
              [] l = ListHead -> [next |-> Null]
              [] l = Super -> [nodes |-> 0, free |-> 0, icount |-> 0, ifree |-> 0, hint |-> 0]
              [] l = Table -> [NoInode EXCEPT !.nlink = 1, !.size = Units, !.root = InitUsed,
                                              !.blocks = 1]
              [] l = Ino(Root) -> [NoInode EXCEPT !.type = "dir", !.nlink = 2, !.blocks = 1,
                                      !.size = Units, !.root = InitUsed + 1]
              [] l = Unit(InitUsed + 1, 0) -> De(Root, ".", 1)
              [] l = Unit(InitUsed + 1, 1) -> De(Root, "..", Units - 1)
              [] l[1] = "item" -> [next |-> Null, size |-> 0]
              [] l[1] = "ino" -> NoInode
              [] OTHER -> Zero]))
     EXCEPT !.used = <<Node(0, InitUsed + 1)>>, !.free = BlockEnd - InitUsed - 2,
            !.icount = PerTable, !.ifree = PerTable - HintStart, !.hint = HintStart]

\* A formatted device, or one on which calls were made: a file with a hole beside
\* a directory, two directories, or a directory and a file that were removed while open.
Used(n1, n2, v) == <<<<"create", n1>>, <<"write", v>>, <<"mkdir", n2>>>>
TwoDirs(n1, n2) == <<<<"mkdir", n1>>, <<"mkdir", n2>>>>
Removed(n1, n2) == <<<<"mkdir", n1>>, <<"create", n2>>, <<"rmdir", n1>>, <<"unlink", n2>>>>
Prepared(calls) ==
    FoldLeft(LAMBDA s, c : CASE c[1] = "create" -> pmfs_create(s, Root, c[2])
                             [] c[1] = "mkdir" -> pmfs_mkdir(s, Root, c[2])
                             [] c[1] = "unlink" -> pmfs_unlink(s, Root, c[2])
                             [] c[1] = "rmdir" -> pmfs_rmdir(s, Root, c[2])
                             [] c[1] = "write" -> pmfs_xip_file_write(s, HintStart, Units, 1, c[2]),
             pmfs_init, calls)

Init ==
    /\ \E n1, n2 \in Names, v \in Values : \E start \in
            {<<<<>>, {}, 0>>, <<Used(n1, n2, v), {}, 0>>, <<TwoDirs(n1, n2), {}, 1>>,
             <<Removed(n1, n2), {HintStart, HintStart + 1}, 1>>} :
        /\ n1 # n2
        /\ fs = [Prepared(start[1]) EXCEPT !.pts = <<>>, !.ret = "ok"] /\ pins = start[2] /\ ops = start[3]
    /\ mode = "up" /\ crashes = 0 /\ mountCrashes = 0
    /\ tree = Tree(fs.m) /\ call = Idle /\ broken = {}

Next == \/ Create \/ Mknod \/ Symlink \/ Mkdir \/ Link \/ Unlink \/ Rmdir \/ Rename
        \/ Write \/ Fallocate \/ Fault \/ Truncate
        \/ Evict \/ Unmount \/ Crash \/ Mount

Spec == Init /\ [][Next]_vars

------------------------------------------------------------------------------
(* Properties.                                                                  *)

TypeOK ==
    /\ mode \in {"up", "down", "off"}
    /\ broken \subseteq {"links", "list", "unlisted", "short", "beyond", "leaked"}
    /\ mode = "up" => /\ Root \in DOMAIN tree /\ fs.icount \in Nat /\ fs.hint \in 0..(fs.icount - 1)
                      /\ fs.ifree \in 0..fs.icount
                      /\ Cur(fs.m, Undo) = <<>>

\* A call that returns success has changed the tree to exactly what it asks for, one that
\* returns an error has not changed it, and a call that a power failure interrupts is there
\* as a whole or not at all after pmfs_fill_super, but for data overwritten in place;
\* eviction, unmount and mount change nothing. Until a call has run out of space half way
\* through a file or a power failure has left data behind the end of one.
V == INSTANCE Vfs WITH down <- mode = "down"
ImplementsVfs == V!Init /\ [][V!Next \/ broken' \cap {"short", "beyond"} # {}]_(V!vars)

\* The blocks of an inode, its meta blocks too, as a set of <<inode, block>>.
BlocksOf(m, p) ==
    Then(pmfs_inode_crawl(m, p), LAMBDA c :
    c.small \cup UNION {(b * Large)..((b + 1) * Large - 1) : b \in c.large})
Owned(m) == BlocksOf(m, Cur(m, Table)) \cup (0..(InitUsed - 1))
            \cup UNION {BlocksOf(m, Cur(m, Ino(i))) : i \in Live(m) \cup {Root}}

\* A block belongs to at most one inode, none that belongs to one is free, no free
\* was ever refused and no BUG_ON of the trees fired, and the list and its counter agree.
BlocksSafe ==
    mode = "up" =>
        /\ fs.ok /\ Sorted(fs.used) /\ fs.free = NumFree(fs.used)
        /\ Owned(fs.m) \subseteq UsedSet(fs.used)
        /\ \A i, j \in Live(fs.m) \cup {Root} : i # j =>
            BlocksOf(fs.m, Cur(fs.m, Ino(i))) \cap BlocksOf(fs.m, Cur(fs.m, Ino(j))) = {}

\* Nothing is lost: every inode in use has a name or is open (an interrupted unlink, rmdir
\* or eviction is finished by pmfs_recover_truncate_list), and the blocks in use are the
\* ones that belong to something.
NothingLost ==
    mode = "up" /\ broken \subseteq {"links", "short", "beyond", "leaked"} =>
        /\ {i \in Live(fs.m) : TypeOf(i) # "special"} \subseteq DOMAIN tree \cup pins
        /\ "leaked" \notin broken => UsedSet(fs.used) \subseteq Owned(fs.m)

\* The link count of a file is the number of its names, that of a directory two more
\* than it has subdirectories.
LinksMatch ==
    mode = "up" /\ "links" \notin broken =>
        \A i \in DOMAIN tree :
            Cur(fs.m, Ino(i)).nlink =
                IF tree[i].type = "dir"
                THEN 2 + Cardinality({e \in tree[i].ents : tree[e[2]].type = "dir"})
                ELSE Cardinality({<<d, n>> \in Dirs \X Names : <<n, i>> \in tree[d].ents})

\* What a read returns, from any offset and of any length, is the contents of the file up
\* to its end; a seek finds the next block that is there, and the next that is not, except
\* that the last hole is passed over. A file that fills its tree of blocks to the last byte
\* is left out: the search looks one pointer too far there.
HasBlock(i, u) == pmfs_find_data_block(fs.m, Ino(i), u \div Units) # Null
Plain(v) == IF v.k = "zero" THEN 0 ELSE IF v.k = "data" THEN v.v ELSE -1
ReadsAgree ==
    mode = "up" => \A i \in Files :
        LET p == Cur(fs.m, Ino(i))
        IN Then(Content(fs.m, i), LAMBDA data :
        LET at == 0..(p.size - 1)
            from(S, off) == {u \in S : u >= off}
        IN Then({u \in at : HasBlock(i, u)}, LAMBDA D :
        LET tail(off) == from(D, off) = {}
        IN \A off \in at :
            /\ \A len \in 1..MaxSize :
                 Then(do_xip_mapping_read(fs.m, i, off, len), LAMBDA r :
                 /\ Len(r) = Min({len, p.size - off})
                 /\ \A k \in DOMAIN r : Plain(r[k]) = data[off + k - 1])
            /\ p.size < p.bt * Units * Span(p.height) =>
                 /\ pmfs_find_region(fs.m, i, off, FALSE) = IF tail(off) THEN -1 ELSE Min(from(D, off))
                 /\ pmfs_find_region(fs.m, i, off, TRUE) =
                        IF tail(off) THEN p.size ELSE Min(from(at \ D, off) \cup {p.size})))

\* What pmfs_lookup, pmfs_getattr, reads and seeks say of the tree is what is there.
Consistent == TypeOK /\ LinksMatch /\ ReadsAgree
==============================================================================

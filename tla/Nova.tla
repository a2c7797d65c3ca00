--------------------------------- MODULE Nova ---------------------------------
(* A mounted NOVA: system calls, eviction, inodes dropped from memory and read    *)
(* again, unmount, power failure in the middle of any of these and of the mount   *)
(* that follows (super.c, bbuild.c over NovaNamei). One CPU; no snapshots.        *)
EXTENDS NovaNamei

CONSTANTS Values,        \* what is written to files
          HeadReserved,  \* blocks of the super block, the journal and the inode table
          MaxSize,       \* bound: file size in words
          Extents,       \* <<start, end>> of the writes and allocations made
          Sizes,         \* the sizes files are truncated to
          MaxOps,        \* bound: system calls
          MaxCrashes,    \* bound: power failures while mounted
          MaxMountCrashes \* bound: power failures while mounting

VARIABLES fs,       \* the machine state
          tree,     \* what path lookups see; kept while the power is off
          pins,     \* inodes without a name that tasks still have open
          mode,     \* "up", "down", "off" (unmounted) or "oops" (the kernel stopped)
          ops, crashes, mountCrashes,
          call,     \* history: the call made last and its arguments, unless it failed
          broken    \* history: gaps of the code that have been entered

vars == <<fs, tree, pins, mode, ops, crashes, mountCrashes, call, broken>>

Root == 1
BlockNode == 2     \* NOVA_BLOCKNODE_INO
InodeList == 3     \* NOVA_INODELIST_INO
Data == HeadReserved..(NumBlocks - 1)

------------------------------------------------------------------------------
(* The free list and the inode numbers: two logs that are written at unmount and  *)
(* given back once a mount has read them.                                         *)

RangeEntry(low, high) == [k |-> "range", low |-> low, high |-> high]
\* The maximal runs of a set of numbers, as entries.
RangesOf(S) ==
    FoldLeft(LAMBDA q, i : Append(q, RangeEntry(i, Min({j \in S : j >= i /\ j + 1 \notin S}))), <<>>,
             Ascending({i \in S : i - 1 \notin S}))

nova_append_range_node_entry(s, tail, e) ==
    LET p == IF is_last_entry(tail) THEN next_log_page(s, tail) ELSE tail
    IN Ret(Fl(Put(s, At(p), e), {At(p)}), p + 1)
nova_save_range_nodes_to_log(s, ranges, tail) ==
    FoldLeft(LAMBDA t, e : nova_append_range_node_entry(t, t.ret, e), Ret(s, tail), ranges)

\* head and tail stand in one line; the tail is stored after what it covers is durable.
SaveLog(s, i, t, ranges) ==
    LET block == t.ret.b * Units
    IN Then(nova_save_range_nodes_to_log(t, ranges, block), LAMBDA u :
    Fl(nova_update_tail(St(u, LogOf(i), [head |-> block]), i, u.ret), {LogOf(i)}))

\* RANGENODE_PER_PAGE is Units - 1.
PagesFor(n) == CeilDiv(n, Units - 1)

\* Without pages to write to, what an earlier unmount left stays the list.
nova_save_inode_list_to_log(s) ==
    Then(RangesOf(s.inuse), LAMBDA ranges :
    LET num == PagesFor(Len(ranges))
    IN Then(nova_allocate_inode_log_pages(s, num), LAMBDA t :
    IF t.ret.n # num THEN IF Get(s, LogOf(InodeList)).head = Null THEN t ELSE Gap(t, "inodelist")
    ELSE SaveLog(s, InodeList, t, ranges)))

\* The pages are counted before they are taken themselves.
nova_save_blocknode_mappings_to_log(s) ==
    Then(PagesFor(Len(RangesOf(s.free))), LAMBDA num :
    Then(nova_allocate_inode_log_pages(s, num), LAMBDA t :
    IF t.ret.n # num THEN t ELSE SaveLog(s, BlockNode, t, RangesOf(t.free))))

nova_put_super(s) == nova_save_blocknode_mappings_to_log(nova_save_inode_list_to_log(s))

RECURSIVE RangesIn(_, _, _)
RangesIn(s, curr, tail) ==
    LET p == IF is_last_entry(curr) THEN next_log_page(s, curr) ELSE curr
        e == Get(s, At(p))
    IN IF curr = tail THEN {} ELSE (e.low..e.high) \cup RangesIn(s, p + 1, tail)

\* The header these two logs are given while they are read.
FreeListLog(s, i) ==
    LET l == Get(s, LogOf(i))
    IN Then(nova_free_inode_log(
                [s EXCEPT !.sih = (i :> [nova_init_header("none") EXCEPT !.head = l.head,
                                                                        !.tail = l.tail]) @@ @], i), LAMBDA t :
    [t EXCEPT !.sih = s.sih])
nova_init_blockmap_from_inode(s) ==
    LET l == Get(s, LogOf(BlockNode))
    IN FreeListLog([s EXCEPT !.free = RangesIn(s, l.head, l.tail)], BlockNode)
nova_init_inode_list_from_inode(s) ==
    LET l == Get(s, LogOf(InodeList))
    IN FreeListLog([s EXCEPT !.inuse = RangesIn(s, l.head, l.tail)], InodeList)

------------------------------------------------------------------------------
(* Recovery: what the last unmount saved or, after a power failure, a scan of     *)
(* every inode.                                                                   *)

\* How a file's log is scanned. w: size as the entries read so far leave it; ring, the
\* block of each page; pages, of the log; bad, whether the kernel stops.
ring_setattr_entry(w, e) ==
    LET gone == CeilDiv(e.size, Words)..((w.size - 1) \div Words)
    IN [w EXCEPT !.size = e.size,
                 !.ring = IF w.size <= e.size THEN @ ELSE [n \in DOMAIN @ \ gone |-> @[n]]]
nova_traverse_file_write_entry(w, e) ==
    [w EXCEPT !.size = e.size,
              !.ring = IF e.num = e.invalid THEN @
                       ELSE [n \in e.pgoff..(e.pgoff + e.num - 1) |-> e.b + n - e.pgoff] @@ @]

RECURSIVE ScanLog(_, _, _, _)
ScanLog(s, curr, tail, w) ==
    Then(IF goto_next_page(s, curr) THEN next_log_page(s, curr) ELSE curr, LAMBDA p :
    LET e == Get(s, At(p))
        on(x) == ScanLog(s, p + 1, tail, [x EXCEPT !.pages = @ \cup {BlockOf(p)}])
    IN IF curr = tail THEN [w EXCEPT !.pages = @ \cup ToSet(LogPagesFrom(s, BLOCK_OFF(curr)))]
       ELSE IF p = Null THEN [w EXCEPT !.bad = TRUE]
       ELSE CASE e.k = "setattr" -> on(ring_setattr_entry(w, e))
              [] e.k = "link" -> on(w)
              [] e.k = "write" -> on(nova_traverse_file_write_entry(w, e))
              [] OTHER -> [w EXCEPT !.bad = TRUE])

\* Without the pages after the one the tail stands in.
BugTraverseFileInodeLog(s, l) ==
    LET w == [size |-> 0, ring |-> NoNames, pages |-> {}, bad |-> FALSE]
    IN IF l.head = Null \/ l.tail = Null THEN w
       ELSE Then(ScanLog(s, l.head, l.tail, [w EXCEPT !.pages = {BlockOf(l.head)}]), LAMBDA x :
            [x EXCEPT !.pages = @ \ ToSet(Tail(LogPagesFrom(s, BLOCK_OFF(l.tail))))])
nova_traverse_file_inode_log(s, l) ==
    LET w == [size |-> 0, ring |-> NoNames, pages |-> {}, bad |-> FALSE]
    IN IF l.head = Null \/ l.tail = Null THEN w
       ELSE ScanLog(s, l.head, l.tail, [w EXCEPT !.pages = {BlockOf(l.head)}])
nova_traverse_dir_inode_log(s, l) ==
    [ring |-> NoNames, pages |-> ToSet(LogPagesFrom(s, l.head)), bad |-> FALSE]

\* The blocks of inode i, and whether its log could be read.
nova_recover_inode_pages(s, i) ==
    LET l == Get(s, LogOf(i))
    IN Then(IF Get(s, Ino(i)).type = "dir" THEN nova_traverse_dir_inode_log(s, l)
            ELSE nova_traverse_file_inode_log(s, l), LAMBDA w :
    [blocks |-> w.pages \cup {w.ring[n] : n \in DOMAIN w.ring}, bad |-> w.bad])

\* Inodes that lost their last name while they were open are taken for live.
BugFailureThreadFunc(s) ==
    LET there == {i \in Inodes : i >= NormalStart /\ Get(s, Ino(i)).type # "none" /\ ~Get(s, Ino(i)).deleted}
    IN Ret([s EXCEPT !.inuse = @ \cup there], there)
\* Inodes that are not valid are marked deleted, and the mark is not written back.
failure_thread_func(s) ==
    LET there == {i \in Inodes : i >= NormalStart /\ Get(s, Ino(i)).type # "none" /\ ~Get(s, Ino(i)).deleted}
        live == {i \in there : Get(s, Ino(i)).valid}
    IN Then(FoldSet(LAMBDA i, u : St(u, Ino(i), [deleted |-> TRUE]), s, there \ live), LAMBDA t :
    Ret([t EXCEPT !.inuse = @ \cup live], live))
nova_failure_recovery_crawl(s) ==
    Then(failure_thread_func(s), LAMBDA t :
    Then({nova_recover_inode_pages(t, i) : i \in t.ret \cup {Root}}, LAMBDA scans :
    Ret(IF \E x \in scans : x.bad THEN Gap(t, "oops") ELSE t, UNION {x.blocks : x \in scans})))

nova_failure_recovery(s) ==
    nova_failure_recovery_crawl(
        Barrier(StFl([s EXCEPT !.inuse = 0..NormalStart], LogOf(BlockNode), [head |-> Null, tail |-> Null])))
nova_build_blocknode_map(s, used) == [s EXCEPT !.free = Data \ used]

\* An inode list that was never saved makes the mount fall back to the scan. The trees of
\* blocks read until then are destroyed, but not first_node and num_free_blocks of the free
\* lists: what the scan finds is added to those.
nova_recovery(s) ==
    LET l == Get(s, LogOf(BlockNode))
    IN Then(nova_init_blockmap_from_inode(s), LAMBDA t :
    LET saved == l.head # Null /\ l.tail # Null
        listed == Get(t, LogOf(InodeList)).head # Null
    IN Then(nova_failure_recovery(IF saved THEN Gap([t EXCEPT !.free = {}], "dangling") ELSE s), LAMBDA f :
    IF saved /\ listed THEN nova_init_inode_list_from_inode(t) ELSE nova_build_blocknode_map(f, f.ret)))

Machine(m) == [m |-> m, pts |-> <<>>, free |-> {}, sih |-> <<>>, inuse |-> {}, gaps |-> {}, ret |-> "ok"]

------------------------------------------------------------------------------
(* What the memory means: names below the root, contents.                         *)

Ents(s, d) == {<<n, nova_inode_by_name(s, d, n)>> : n \in Names \cap DOMAIN s.sih[d].names}
\* The inode r and those with a name below it.
Below(s, r) ==
    LET depth[k \in Inodes] ==
            IF k = 0 THEN {r}
            ELSE LET R == depth[k - 1]
                 IN R \cup UNION {{e[2] : e \in Ents(s, d)} :
                                    d \in {x \in R \cap DOMAIN s.sih : s.sih[x].type = "dir"}}
    IN depth[Max(Inodes) - NormalStart]

Plain(v) == CASE v.k = "zero" -> 0 [] v.k = "data" -> v.v [] OTHER -> -1
Content(s, i) ==
    LET h == s.sih[i]
    IN CASE h.type = "file" -> [w \in 0..(h.size - 1) |-> Plain(FileWord(s, i, w))]
         [] h.type = "symlink" -> [w \in {0} |-> Plain(nova_readlink(s, i))]
         [] OTHER -> [w \in {} |-> 0]
Tree(s) ==
    [i \in Below(s, Root) \cap DOMAIN s.sih |->
        [type |-> s.sih[i].type, ents |-> IF s.sih[i].type = "dir" THEN Ents(s, i) ELSE {},
         data |-> Content(s, i)]]

\* Inodes are read from the device when they are first used: all of them here.
RECURSIVE LoadAll(_)
LoadAll(s) ==
    Then({i \in Below(s, Root) : i \notin DOMAIN s.sih /\ Get(s, Ino(i)).type # "none"
                                   /\ ~Get(s, Ino(i)).deleted}, LAMBDA new :
    IF new = {} \/ "oops" \in s.gaps THEN s
    ELSE LoadAll(nova_iget(s, Min(new))))

\* A file's last block holds something beyond its end: the zeroes of a truncation that
\* was already in the log were lost.
Beyond(s) ==
    \E i \in DOMAIN s.sih : s.sih[i].type = "file" /\ s.sih[i].size % Words # 0
        /\ Plain(FileWord(s, i, s.sih[i].size)) # 0

nova_fill_super(m) ==
    Then(nova_recovery(nova_lite_journal_soft_init(Machine(m))), LAMBDA r :
    Then(IF "oops" \in r.gaps THEN r ELSE LoadAll(nova_iget(r, Root)), LAMBDA t :
    IF "oops" \notin t.gaps /\ Beyond(t) THEN Gap(t, "beyond") ELSE t))

Dirs == {i \in DOMAIN tree : tree[i].type = "dir"}
Child(d, n) == nova_inode_by_name(fs, d, n)
TypeOf(i) == fs.sih[i].type
Files == {i \in DOMAIN fs.sih : TypeOf(i) = "file"}

------------------------------------------------------------------------------
(* Actions.                                                                       *)

Quiet(t) == [t EXCEPT !.pts = <<>>, !.ret = "ok", !.gaps = {}]
Alive(t) == "oops" \notin t.gaps
\* Some gaps only show when the call is interrupted.
Recorded(t) == broken' = broken \cup (IF mode' = "down" THEN t.gaps ELSE t.gaps \ {"gc", "rmdir", "listed"})

Finished(t) ==
    /\ fs' = Quiet(t)
    /\ tree' = IF Alive(t) THEN Tree(t) ELSE tree
    /\ pins' = {i \in DOMAIN t.sih : t.sih[i].nlink = 0}
    /\ mode' = IF Alive(t) THEN mode ELSE "oops"
    /\ UNCHANGED crashes

\* The power fails before one of the fences of t.
Interrupted(t) ==
    /\ Alive(t) /\ crashes < MaxCrashes /\ crashes' = crashes + 1
    /\ \E k \in DOMAIN t.pts : \E img \in CrashImages(t.pts[k]) : fs' = Machine(Fresh(img))
    /\ mode' = "down" /\ pins' = {} /\ UNCHANGED tree

Idle == <<"none">>
Call(c, t) ==
    /\ ops' = ops + 1
    /\ Finished(t) \/ Interrupted(t)
    /\ call' = IF mode' = "down" \/ t.ret = "ok" THEN c ELSE Idle
    /\ Recorded(t) /\ UNCHANGED mountCrashes

\* The gaps that cost data or stop the kernel. Behaviours are followed up to the first of
\* them and the mount after it, and to the mount that leaves a stale tail.
Harm == {"oops", "short", "gc", "beyond", "inodelist", "rmdir", "undo", "dangling"}
Sound == broken \cap Harm = {}
Ready == mode = "up" /\ ops < MaxOps /\ Sound /\ "stale" \notin broken
NameFree(d, n) == Child(d, n) = Null
NameTaken(d, n) == Child(d, n) # Null

Create == Ready /\ \E d \in Dirs, n \in Names :
            NameFree(d, n) /\ Call(<<"create", d, n>>, nova_create(fs, d, n))
Mknod == Ready /\ \E d \in Dirs, n \in Names :
            NameFree(d, n) /\ Call(<<"mknod", d, n>>, nova_mknod(fs, d, n))
Symlink == Ready /\ \E d \in Dirs, n \in Names, v \in Values :
            NameFree(d, n) /\ Call(<<"symlink", d, n, v>>, nova_symlink(fs, d, n, v))
Mkdir == Ready /\ \E d \in Dirs, n \in Names :
            NameFree(d, n) /\ Call(<<"mkdir", d, n>>, nova_mkdir(fs, d, n))
Link == Ready /\ \E d \in Dirs, n \in Names, i \in DOMAIN tree :
            NameFree(d, n) /\ TypeOf(i) # "dir" /\ Call(<<"link", i, d, n>>, nova_link(fs, i, d, n))
Unlink == Ready /\ \E d \in Dirs, n \in Names :
            /\ NameTaken(d, n) /\ TypeOf(Child(d, n)) # "dir"
            /\ Call(<<"unlink", d, n>>, nova_unlink(fs, d, n))
Rmdir == Ready /\ \E d \in Dirs, n \in Names :
            /\ NameTaken(d, n) /\ TypeOf(Child(d, n)) = "dir"
            /\ Call(<<"rmdir", d, n>>, nova_rmdir(fs, d, n))

\* The kernel's rename checks come first.
Rename == Ready /\ \E d, e \in Dirs, n, o \in Names :
            LET i == Child(d, n)
                j == Child(e, o)
                dir(x) == TypeOf(x) = "dir"
            IN /\ i # Null /\ i # j /\ e \notin Below(fs, i)
               /\ j # Null => dir(i) = dir(j)
               /\ Call(<<"rename", d, n, e, o>>, nova_rename(fs, d, n, e, o))

Write == Ready /\ \E i \in Files, r \in Extents, v \in Values :
            Call(<<"write", i, r[1], r[2], v>>, do_nova_cow_file_write(fs, i, r[1], r[2] - r[1], v))
Fallocate == Ready /\ \E i \in Files, r \in Extents, keep \in BOOLEAN :
            Call(<<"fallocate", i, IF keep THEN 0 ELSE r[2]>>, nova_fallocate(fs, i, r[1], r[2] - r[1], keep))
Truncate == Ready /\ \E i \in Files, size \in Sizes : Call(<<"truncate", i, size>>,
                 nova_notify_change(fs, i, TRUE, size))
Chmod == Ready /\ \E i \in DOMAIN fs.sih : Call(<<"chmod", i>>, nova_notify_change(fs, i, FALSE, fs.sih[i].size))

\* The last reference to an inode without names is dropped.
Evict == mode = "up" /\ Sound /\ \E i \in pins :
            \E t \in {nova_evict_inode(fs, i)} :
            /\ Finished(t) \/ Interrupted(t)
            /\ Recorded(t) /\ call' = Idle /\ UNCHANGED <<ops, mountCrashes>>

\* The kernel drops an inode nobody uses from memory; the next lookup reads it again.
Forget == mode = "up" /\ Sound /\ \E i \in DOMAIN fs.sih \ (pins \cup {Root}) :
            \E t \in {nova_iget(nova_evict_inode(fs, i), i)} :
            Finished(t) /\ Recorded(t) /\ call' = Idle /\ UNCHANGED <<ops, mountCrashes>>

\* nova_put_super, once every inode has been evicted.
Unmount ==
    /\ mode = "up" /\ pins = {} /\ ops > 0 /\ Sound
    /\ \E t \in {nova_put_super(fs)} :
       /\ \/ /\ fs' = Machine(Fresh(View(t.m))) /\ UNCHANGED <<tree, pins, crashes>>
             /\ mode' = IF Alive(t) THEN "off" ELSE "oops"
          \/ Interrupted(t)
       /\ Recorded(t)
    /\ call' = Idle /\ UNCHANGED <<ops, mountCrashes>>

\* Between two calls.
Crash ==
    /\ mode = "up" /\ Sound /\ crashes < MaxCrashes /\ crashes' = crashes + 1
    /\ \E img \in CrashImages(fs.m) : fs' = Machine(Fresh(img))
    /\ mode' = "down" /\ pins' = {} /\ call' = Idle /\ UNCHANGED <<tree, ops, mountCrashes, broken>>

\* The words the journal restores and the empty journal wait for the same fence: a power
\* failure can keep the second without the first.
Mount ==
    /\ mode \in {"down", "off"} /\ "inodelist" \notin broken
    /\ \E t \in {nova_fill_super(fs.m)} :
       \/ /\ fs' = Quiet(t) /\ UNCHANGED mountCrashes
          /\ mode' = IF Alive(t) THEN "up" ELSE "oops"
          /\ tree' = IF Alive(t) THEN Tree(t) ELSE tree
          /\ Recorded(t)
       \/ /\ mountCrashes < MaxMountCrashes /\ mountCrashes' = mountCrashes + 1
          /\ \E k \in DOMAIN t.pts : \E img \in CrashImages(t.pts[k]) : fs' = Machine(Fresh(img))
          /\ mode' = "down" /\ UNCHANGED tree
          /\ broken' = broken \cup (IF Cur(fs.m, Pair).open # 0 THEN {"undo"} ELSE {})
    /\ UNCHANGED <<pins, ops, crashes, call>>

\* A formatted device: the root directory with its first log page.
NoInode == [type |-> "none", valid |-> FALSE, deleted |-> FALSE, nlink |-> 0, size |-> 0]
nova_init ==
    Then([l \in {Journal, Pair} \cup {Ino(i) : i \in Inodes} \cup {LogOf(i) : i \in Inodes}
                  \cup UnitsOf(0, NumBlocks) |->
            CASE l = Journal -> <<>>
              [] l = Pair -> [open |-> 0]
              [] l[1] = "ino" -> NoInode
              [] l[1] = "log" -> [head |-> Null, tail |-> Null]
              [] OTHER -> Zero], LAMBDA empty :
    LET s1 == [Machine(Fresh(empty)) EXCEPT !.free = Data, !.inuse = 0..NormalStart]
    IN Then(StFl(s1, Ino(Root), [type |-> "dir", nlink |-> 2, size |-> Words, valid |-> TRUE]), LAMBDA s2 :
    nova_iget(Barrier(nova_append_dir_init_entries(s2, Root, Root)), Root)))

\* Prepared devices: a file; a file with a hole beside a directory; two directories; a file removed
\* while open; a file whose full log begins with a page of invalid entries, and one whose
\* full log has three pages with one valid entry each; a directory whose full log has two
\* pages of invalid entries; a device with few blocks left.
New == NormalStart + 1
Creates(n1) == <<<<"create", n1>>>>
Writes(pages, v) == FoldLeft(LAMBDA q, n : Append(q, <<"write", n, v>>), <<>>, pages)
Written(n1, v) == Creates(n1) \o Writes(<<0>>, v)
Used(n1, n2, v) == Creates(n1) \o Writes(<<1>>, v) \o <<<<"mkdir", n2>>>>
TwoDirs(n1, n2) == <<<<"mkdir", n1>>, <<"mkdir", n2>>>>
Orphan(n1, v) == Written(n1, v) \o <<<<"unlink", n1>>>>
Logged(n1, v) == Creates(n1) \o Writes(<<0, 0, 0, 0, 0, 0>>, v)
Sparse(n1, v) == Creates(n1) \o Writes(<<0, 3, 3, 1, 3, 3, 2, 3, 3, 3, 3, 3>>, v)
Renamed(n1, n2) ==
    LET there == <<"rename", n1, n2>>
        back == <<"rename", n2, n1>>
    IN Creates(n1) \o <<there, back, there, back>> \o Creates(n2)
Full(n1) == Creates(n1) \o <<<<"fallocate">>>>
Prepared(calls) ==
    FoldLeft(LAMBDA s, c :
                 CASE c[1] = "create" -> nova_create(s, Root, c[2])
                   [] c[1] = "symlink" -> nova_symlink(s, Root, c[2], c[3])
                   [] c[1] = "mkdir" -> nova_mkdir(s, Root, c[2])
                   [] c[1] = "unlink" -> nova_unlink(s, Root, c[2])
                   [] c[1] = "rename" -> nova_rename(s, Root, c[2], Root, c[3])
                   [] c[1] = "write" -> do_nova_cow_file_write(s, New, c[2] * Words, Words, c[3])
                   [] c[1] = "fallocate" ->
                        nova_fallocate(s, New, 0, Words * (Cardinality(Data) - 5), FALSE),
             nova_init, calls)

Init ==
    /\ \E n1 \in Names, v \in Values : \E n2 \in Names \ {n1} : \E start \in
            {<<<<>>, 1, 1, 0>>, <<Creates(n1), 2, 1, 0>>, <<<<<<"symlink", n1, v>>>>, 1, 1, 0>>,
             <<Written(n1, v), 2, 0, 0>>, <<Used(n1, n2, v), 1, 1, 0>>,
             <<TwoDirs(n1, n2), 1, 1, 0>>, <<Orphan(n1, v), 1, 1, 1>>, <<Logged(n1, v), 1, 1, 0>>,
             <<Sparse(n1, v), 1, 1, 0>>, <<Renamed(n1, n2), 1, 1, 0>>, <<Full(n1), 1, 1, 0>>} :
        /\ fs = Quiet(Prepared(start[1])) /\ ops = MaxOps - start[2] /\ crashes = MaxCrashes - start[3]
        /\ mountCrashes = MaxMountCrashes - start[4]
    /\ mode = "up"
    /\ pins = {i \in DOMAIN fs.sih : fs.sih[i].nlink = 0}
    /\ tree = Tree(fs) /\ call = Idle /\ broken = {}

Next == \/ Create \/ Mknod \/ Symlink \/ Mkdir \/ Link \/ Unlink \/ Rmdir \/ Rename
        \/ Write \/ Fallocate \/ Truncate \/ Chmod
        \/ Evict \/ Forget \/ Unmount \/ Crash \/ Mount

Spec == Init /\ [][Next]_vars

------------------------------------------------------------------------------
(* Properties.                                                                    *)

\* The kinds of gap known; while mounted, no transaction is left open, and the numbers of
\* the inodes in memory are in use.
TypeOK ==
    /\ mode \in {"up", "down", "off", "oops"}
    /\ broken \subseteq Harm \cup {"freed twice", "stale", "size", "keep", "symlink", "listed"}
    /\ mode = "up" /\ Sound => /\ Root \in DOMAIN tree /\ Get(fs, Pair).open = 0
                               /\ DOMAIN fs.sih \subseteq fs.inuse /\ fs.inuse \subseteq Inodes

\* A call that returns success has changed the tree to exactly what it asks for and one that
\* returns an error has not changed it; an interrupted call, a write too, is there as a whole
\* or not at all after nova_fill_super has recovered, and nothing else changes the tree:
\* neither eviction, nor an inode read again, nor unmount. Up
\* to the first gap that costs data or stops the kernel, and until nova_fallocate has left a
\* new size that the log may lose ("size").
V == INSTANCE Vfs WITH down <- mode = "down"
ImplementsVfs ==
    V!Init /\ [][V!Calls \/ V!Fail \/ V!RecoverWhole
                    \/ broken' \cap (Harm \cup {"size"}) # {}]_(V!vars)

LogBlocks(s, i) == LogPagesFrom(s, s.sih[i].head)
DataBlocks(s, i) ==
    LET h == s.sih[i]
    IN IF h.type = "symlink" /\ h.head # Null THEN <<Get(s, At(h.head)).b>>
       ELSE FoldLeft(LAMBDA q, n : Append(q, nova_find_nvmm_block(s, i, n)), <<>>,
                     Ascending(DOMAIN h.tree))
Owned(s, i) == LogBlocks(s, i) \o DataBlocks(s, i)

\* A block is a page of one log, a data block of one page of a file, or free: at most one of
\* these, whether the free list was read from the log the last unmount wrote or found by a
\* scan of the inodes, and whatever was collected; and no call, no eviction and no recovery
\* gives back a block that is free already.
BlocksSafe ==
    /\ Sound => "freed twice" \notin broken
    /\ mode = "up" /\ Sound =>
        /\ \A i \in DOMAIN fs.sih : /\ IsInjective(Owned(fs, i))
                                    /\ ToSet(Owned(fs, i)) \subseteq Data \ fs.free
        /\ \A i, j \in DOMAIN fs.sih : i # j => ToSet(Owned(fs, i)) \cap ToSet(Owned(fs, j)) = {}

\* A block that is not free and an inode number in use belong to an inode that has a name or
\* is open: nothing an interrupted call had taken is lost.
NothingLost ==
    mode = "up" /\ Sound /\ {"symlink", "keep"} \cap broken = {} =>
        /\ Data \ fs.free = UNION {ToSet(Owned(fs, i)) : i \in DOMAIN fs.sih}
        /\ fs.inuse = (0..NormalStart) \cup DOMAIN fs.sih
        /\ DOMAIN fs.sih = DOMAIN tree \cup pins

\* What the header of an inode in memory says is what nova_rebuild_inode reads from its log:
\* names, pages, size, links, log pages.
RebuildAgrees ==
    mode = "up" /\ Sound => \A i \in DOMAIN fs.sih \ pins :
        LET h == fs.sih[i]
        IN Then(nova_iget(nova_evict_inode(fs, i), i).sih[i], LAMBDA r :
        /\ r.nlink = h.nlink /\ (h.head # Null => r.pages = h.pages)
        /\ h.type = "dir" => [n \in DOMAIN r.names \cap Names |-> r.names[n]]
                                 = [n \in DOMAIN h.names \cap Names |-> h.names[n]]
        /\ h.type = "file" /\ "keep" \notin broken => r.tree = h.tree
        /\ h.type = "file" /\ "size" \notin broken => r.size = h.size)

\* What a read returns from any offset is the contents of the file from there on
\* (do_dax_mapping_read), nova_find_region finds the next page that is there and the next
\* that is not, the last hole passed over (not once blocks beyond the end were allocated:
\* a rebuild counts the blocks of a file from its size), and a listing that walks the log
\* shows the names that lookups find.
ReadsAgree ==
    mode = "up" /\ Sound =>
        /\ \A i \in Files :
            LET h == fs.sih[i]
                at == 0..(h.size - 1)
                D == {u \in at : (u \div Words) \in DOMAIN h.tree}
                from(S, off) == {u \in S : u >= off}
            IN \A off \in at :
                /\ Then(do_dax_mapping_read(fs, i, off), LAMBDA r :
                   Len(r) = h.size - off
                   /\ \A k \in DOMAIN r : r[k] = FileWord(fs, i, off + k - 1))
                /\ "keep" \notin broken =>
                     /\ nova_find_region(fs, i, off, FALSE) =
                            IF from(D, off) = {} THEN -1 ELSE Min(from(D, off))
                     /\ nova_find_region(fs, i, off, TRUE) =
                            IF from(D, off) = {} THEN h.size ELSE Min(from(at \ D, off) \cup {h.size})
        /\ \A d \in Dirs : Then(nova_readdir_fast(fs, d), LAMBDA r :
            LET shown == ToSet(r) \cap (Names \X Inodes)
            IN /\ BUG \notin ToSet(r) /\ tree[d].ents \subseteq shown
               /\ "listed" \notin broken => shown = tree[d].ents)

\* What lookups, reads, seeks and listings say of the tree is what is there.
Consistent == TypeOK /\ ReadsAgree

\* gc.c:398, "Atomically switch to the new log": a power failure while a log is collected
\* leaves one the next mount can walk.
LogSwitchIsAtomic == "gc" \in broken => mode # "oops"
==============================================================================

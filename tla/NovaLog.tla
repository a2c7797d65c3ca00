-------------------------------- MODULE NovaLog --------------------------------
(* The parts every operation of NOVA is built from: blocks (balloc.c), the lite  *)
(* journal (journal.c), the log of an inode (log.c) and its garbage collection   *)
(* (gc.c). Plain NOVA: the module's defaults, metadata_csum = 0, data_csum = 0   *)
(* and data_parity = 0, so no replicas, checksums or parity; no snapshots. One   *)
(* CPU, so one free list and one journal.                                        *)
(*                                                                               *)
(* A log is a chain of blocks; its last line is the page's tail, the others hold *)
(* an entry each. Addresses of entries are numbers, as in the code: entry k of   *)
(* block b is b * Units + k. An inode has two lines, since log_head and log_tail *)
(* stand in its second 64 bytes. Of a journal that can hold many transactions    *)
(* only the entries between its head and its tail are kept.                      *)
(*                                                                               *)
(* Of a machine state this module knows, beside what FsMachine does,             *)
(*   free  the blocks of the free list; its ranges are the maximal runs,         *)
(*   sih   the headers of the inodes in memory,                                  *)
(*   gaps  the gaps of the code that the call has entered.                       *)
EXTENDS FsMachine

CONSTANTS Inodes,      \* inode numbers, 0 is none
          NumBlocks,   \* blocks of the device
          DeadZone,    \* DEAD_ZONE_BLOCKS
          Threshold    \* EXTEND_THRESHOLD

Ino(i) == <<"ino", i>>      \* [type, valid, deleted, nlink, size]
LogOf(i) == <<"log", i>>    \* [head, tail]
Journal == <<"journal">>    \* the entries of the journal
Pair == <<"pair">>          \* how many of them stand between head and tail

BLOCK_OFF(p) == (p \div Units) * Units
ENTRY_LOC(p) == p % Units
BlockOf(p) == p \div Units
At(p) == Unit(BlockOf(p), ENTRY_LOC(p))
TailLine(p) == Unit(BlockOf(p), Units - 1)

Gap(s, g) == [s EXCEPT !.gaps = @ \cup {g}]
Sih(s, i, r) == [s EXCEPT !.sih[i] = r @@ @]

------------------------------------------------------------------------------
(* Blocks.                                                                      *)

\* The first range of the free list.
FirstRun(free) ==
    LET low == Min(free)
    IN low..Max({h \in free : low..h \subseteq free})

not_enough_blocks(free, num, log) ==
    \/ Cardinality(free) < num \/ free = {}
    \/ log /\ Max(free) - Min(free) < DeadZone

\* The number of blocks handed out; the first range is all that one call gives.
nova_alloc_blocks_in_free_list(free, num, log) ==
    IF free = {} \/ (log /\ not_enough_blocks(free, num, log)) THEN 0
    ELSE Min({num, Cardinality(FirstRun(free))})

\* The two retries find the same list, and the last one goes ahead.
nova_new_blocks(s, num, zero, log) ==
    Then(nova_alloc_blocks_in_free_list(s.free, num, log), LAMBDA n :
    LET b == Min(s.free)
        t == [s EXCEPT !.free = @ \ (b..(b + n - 1)), !.ret = [n |-> n, b |-> b]]
    IN IF n = 0 THEN Ret(s, [n |-> 0, b |-> Null])
       ELSE IF zero THEN ZeroLines(t, UnitsOf(b, n)) ELSE t)
nova_new_data_blocks(s, num, zero) == nova_new_blocks(s, num, zero, FALSE)
nova_new_log_blocks(s, num, zero) == nova_new_blocks(s, num, zero, TRUE)

\* nova_find_free_slot refuses blocks that are free already.
nova_free_blocks(s, b, num) ==
    IF num <= 0 \/ b = Null \/ (b..(b + num - 1)) \cap s.free # {} THEN Gap(s, "freed twice")
    ELSE [s EXCEPT !.free = @ \cup b..(b + num - 1)]

------------------------------------------------------------------------------
(* The lite journal: the old values of the words a transaction will change.      *)

Word(l, old) == [l |-> l, old |-> old]
Flags(s, i) == Word(Ino(i), [valid |-> Get(s, Ino(i)).valid, deleted |-> Get(s, Ino(i)).deleted])
nova_journal_inode_tail(s, i) == <<Word(LogOf(i), [tail |-> Get(s, LogOf(i)).tail])>>
nova_append_inode_journal(s, i, new, invalidate, dir) ==
    IF dir THEN nova_journal_inode_tail(s, i)
    ELSE IF new THEN <<Flags(s, i)>>
    ELSE nova_journal_inode_tail(s, i)
         \o (IF invalidate THEN <<Flags(s, i)>> ELSE <<>>)
nova_append_dentry_journal(s, p) ==
    LET e == Get(s, At(p))
    IN <<Word(At(p), [ino |-> e.ino, reassigned |-> e.reassigned, invalid |-> e.invalid, links |-> e.links])>>

\* The entries are durable before the tail covers them.
StartTransaction(s, words) ==
    Then(Barrier(Fl(Put(s, Journal, words), {Journal})), LAMBDA t :
    Then(Barrier(StFl(t, Pair, [open |-> Len(words)])), LAMBDA u :
    IF Get(s, Pair).open # 0 THEN Gap(u, "oops") ELSE u))

nova_create_inode_transaction(s, i, dir, new, invalidate) ==
    StartTransaction(s, nova_append_inode_journal(s, i, new, invalidate, FALSE)
                        \o nova_append_inode_journal(s, dir, new, invalidate, TRUE))
nova_create_rename_transaction(s, i, old_dir, j, invalidate, new_dir, entries) ==
    StartTransaction(s, nova_append_inode_journal(s, i, FALSE, FALSE, FALSE)
                        \o nova_append_inode_journal(s, old_dir, FALSE, FALSE, TRUE)
                        \o (IF j = Null THEN <<>>
                            ELSE nova_append_inode_journal(s, j, FALSE, invalidate, FALSE))
                        \o (IF new_dir = Null THEN <<>>
                            ELSE nova_append_inode_journal(s, new_dir, FALSE, FALSE, TRUE))
                        \o FoldLeft(LAMBDA q, p : IF p = Null THEN q
                                                  ELSE q \o nova_append_dentry_journal(s, p),
                                    <<>>, entries))
nova_create_logentry_transaction(s, l) == StartTransaction(s, <<Word(l, Get(s, l))>>)

nova_commit_lite_transaction(s) == Barrier(StFl(s, Pair, [open |-> 0]))

nova_undo_journal_entry(s, w) == StFl(s, w.l, w.old)
nova_recover_lite_journal(s) ==
    LET words == SubSeq(Get(s, Journal), 1, Get(s, Pair).open)
    IN Barrier(StFl(FoldLeft(nova_undo_journal_entry, s, words), Pair, [open |-> 0]))
nova_lite_journal_soft_init(s) == IF Get(s, Pair).open = 0 THEN s ELSE nova_recover_lite_journal(s)

------------------------------------------------------------------------------
(* Log pages.                                                                   *)

NextPage == [k |-> "next"]

next_log_page(s, p) == Get(s, TailLine(p)).next
is_last_entry(p) == ENTRY_LOC(p) = Units - 1
goto_next_page(s, p) == is_last_entry(p) \/ Get(s, At(p)) = NextPage

\* Behind the last entry that fits the flag shares the line of the page's tail; there
\* is_last_entry stands for it, since nothing leads past a page before its flag is durable.
nova_set_next_page_flag(s, p) ==
    Barrier(IF is_last_entry(p) THEN Fl(s, {TailLine(p)})
            ELSE Fl(Put(s, At(p), NextPage), {At(p)}))
nova_set_next_page_address(s, p, next) == StFl(s, TailLine(p), [next |-> next])
nova_inc_page_num_entries(s, p) == StFl(s, TailLine(p), [num |-> Get(s, TailLine(p)).num + 1])
nova_inc_page_invalid_entries(s, p) ==
    StFl(s, TailLine(p), [invalid |-> Get(s, TailLine(p)).invalid + 1])
nova_update_entry_csum(s, p) == Barrier(Fl(s, {At(p)}))

nova_update_inode_checksum(s, i) == Barrier(Fl(s, {Ino(i), LogOf(i)}))
\* The entry is durable before the tail covers it.
nova_update_tail(s, i, tail) == Barrier(StFl(Barrier(s), LogOf(i), [tail |-> tail]))
nova_update_inode(s, i, tail) ==
    nova_update_inode_checksum(nova_update_tail(Sih(s, i, [tail |-> tail]), i, tail), i)

EmptyTail(next) == [k |-> "tail", next |-> next, num |-> 0, invalid |-> 0]
nova_coalesce_log_pages(s, prev, first, num) ==
    Then(IF prev = Null THEN s ELSE nova_set_next_page_address(s, prev * Units, first * Units), LAMBDA s1 :
    LET last == first + num - 1
        next(b) == IF b = last THEN Null ELSE (b + 1) * Units
    IN Barrier(FoldLeft(LAMBDA t, b : Fl(Put(t, TailLine(b * Units), EmptyTail(next(b))),
                                         {TailLine(b * Units)}),
                        s1, IndexSeq(first, last))))

\* The number of pages linked, and the first.
RECURSIVE MoreLogPages(_, _, _, _, _)
MoreLogPages(s, first, prev, got, left) ==
    Then(nova_new_log_blocks(s, left, FALSE), LAMBDA t :
    LET r == t.ret
    IN IF left = 0 \/ r.n = 0 THEN Ret(t, [n |-> got, b |-> first])
       ELSE MoreLogPages(nova_coalesce_log_pages(t, prev, r.b, r.n), first, r.b + r.n - 1,
                         got + r.n, left - r.n))
nova_allocate_inode_log_pages(s, num) ==
    Then(nova_new_log_blocks(s, num, FALSE), LAMBDA t :
    LET r == t.ret
    IN Then(nova_coalesce_log_pages(t, Null, r.b, r.n), LAMBDA u :
    IF r.n = 0 THEN t
    ELSE IF r.n = num THEN Ret(u, r)
    ELSE MoreLogPages(u, r.b, r.b + r.n - 1, r.n, num - r.n)))

nova_initialize_inode_log(s, i) ==
    Then(nova_allocate_inode_log_pages(s, 1), LAMBDA t :
    LET p == t.ret.b * Units
    IN Then(St(StFl(t, LogOf(i), [tail |-> p]), LogOf(i), [head |-> p]), LAMBDA u :
    IF t.ret.n # 1 THEN Ret(t, Null)
    ELSE Ret(Sih(Barrier(Fl(u, {LogOf(i)})), i, [head |-> p, tail |-> p, pages |-> 1]), p)))

RECURSIVE LogPagesFrom(_, _)
LogPagesFrom(s, p) == IF p = Null THEN <<>> ELSE <<BlockOf(p)>> \o LogPagesFrom(s, next_log_page(s, p))
nova_free_contiguous_log_blocks(s, p) ==
    FoldLeft(LAMBDA t, b : nova_free_blocks(t, b, 1), s, LogPagesFrom(s, p))

nova_free_inode_log(s, i) ==
    LET h == s.sih[i]
    IN IF h.head = Null \/ h.tail = Null THEN s
       ELSE nova_free_contiguous_log_blocks(
                nova_update_inode_checksum(St(s, LogOf(i), [head |-> Null, tail |-> Null]), i), h.head)

------------------------------------------------------------------------------
(* Garbage collection of a log.                                                  *)

curr_log_entry_invalid(s, i, p) ==
    LET e == Get(s, At(p))
    IN CASE e.k \in {"setattr", "link"} -> e.invalid
         [] e.k = "write" -> e.num = e.invalid
         [] e.k = "dentry" -> e.invalid /\ s.sih[i].last_dentry # p
         [] OTHER -> TRUE

curr_page_invalid(s, p) == LET t == Get(s, TailLine(p)) IN t.invalid = t.num

free_curr_page(s, p, last) ==
    nova_free_blocks(Barrier(nova_set_next_page_address(s, last, next_log_page(s, p))), BlockOf(p), 1)

nova_gc_assign_file_entry(s, i, p, new) ==
    Sih(s, i, [tree |-> [n \in DOMAIN s.sih[i].tree |->
                           IF s.sih[i].tree[n] = p THEN new ELSE s.sih[i].tree[n]]])
nova_gc_assign_dentry(s, i, p, new) ==
    Sih(s, i, [names |-> [n \in DOMAIN s.sih[i].names |->
                            IF s.sih[i].names[n] = p THEN new ELSE s.sih[i].names[n]]])
nova_gc_assign_new_entry(s, i, p, new) ==
    LET k == Get(s, At(p)).k
    IN CASE k = "setattr" -> Sih(s, i, [last_setattr |-> new])
         [] k = "link" -> Sih(s, i, [last_link |-> new])
         [] k = "write" -> nova_gc_assign_file_entry(s, i, p, new)
         [] k = "dentry" ->
              nova_gc_assign_dentry(
                  IF s.sih[i].last_dentry = p THEN Sih(s, i, [last_dentry |-> new]) ELSE s, i, p, new)

nova_append_one_log_page(s, p) ==
    Then(nova_allocate_inode_log_pages(s, 1), LAMBDA t :
    IF t.ret.n # 1 THEN Ret(t, Null)
    ELSE Ret(Barrier(nova_set_next_page_address(t, p, t.ret.b * Units)), p))

\* Where the entry after new goes in the chain of pages that gc fills.
GcAppendHead(s, new) ==
    Then(nova_set_next_page_flag(s, new), LAMBDA u :
    Then(IF next_log_page(s, new) = Null THEN nova_append_one_log_page(u, new)
         ELSE Ret(u, new), LAMBDA t :
    IF ~is_last_entry(new) THEN Ret(s, new)
    ELSE IF t.ret = Null THEN Gap(t, "oops")
    ELSE Ret(t, next_log_page(t, new))))

\* w: curr, where the copying stands; old, the address before; new, where copies go;
\* blocks, the pages taken.
RECURSIVE CopyValid(_, _, _)
CopyValid(s, i, w) ==
    LET h == s.sih[i]
    IN Then(IF goto_next_page(s, w.curr) THEN next_log_page(s, w.curr) ELSE w.curr, LAMBDA curr :
    Then(GcAppendHead(s, w.new), LAMBDA t :
    LET extended == is_last_entry(w.new) /\ next_log_page(s, w.new) = Null
    IN Then(nova_gc_assign_new_entry(
                nova_inc_page_num_entries(
                    Barrier(Fl(Put(t, At(t.ret), Get(t, At(curr))), {At(t.ret)})), t.ret),
                i, curr, t.ret), LAMBDA copied :
    IF w.curr = h.tail THEN [s |-> s, w |-> w]
    ELSE IF BlockOf(curr) = BlockOf(h.tail) THEN [s |-> s, w |-> [w EXCEPT !.curr = curr, !.old = w.curr]]
    ELSE IF curr = Null THEN [s |-> Gap(s, "oops"), w |-> w]
    ELSE IF curr_log_entry_invalid(s, i, curr)
         THEN CopyValid(s, i, [w EXCEPT !.curr = curr + 1, !.old = w.curr])
    ELSE IF t.ret = Null THEN [s |-> t, w |-> w]
    ELSE CopyValid(copied, i, [curr |-> curr + 1, old |-> w.curr, new |-> t.ret + 1,
                               blocks |-> IF extended THEN w.blocks + 1 ELSE w.blocks]))))

\* The copies are durable when they are linked, but the link from the last copy to the tail
\* page is written back together with the new head: a power failure can keep the head
\* without it.
nova_inode_log_thorough_gc(s, i, blocks, checked) ==
    LET h == s.sih[i]
    IN Then(nova_allocate_inode_log_pages(s, blocks), LAMBDA a :
    LET head == a.ret.b * Units
    IN Then(CopyValid(a, i, [curr |-> h.head, old |-> h.head, new |-> head, blocks |-> blocks]), LAMBDA c :
    LET next == next_log_page(c.s, c.w.new)
    IN Then(IF next = Null THEN c.s ELSE nova_free_contiguous_log_blocks(c.s, next), LAMBDA s1 :
    Then(nova_set_next_page_address(nova_set_next_page_flag(s1, c.w.new), c.w.new,
                                    BLOCK_OFF(h.tail)), LAMBDA s2 :
    Then(nova_update_inode_checksum(St(s2, LogOf(i), [head |-> head]), i), LAMBDA s3 :
    Then(Sih(Barrier(Fl(s3, {Ino(i), LogOf(i)})), i, [head |-> head]), LAMBDA s4 :
    Then(Barrier(nova_set_next_page_address(s4, c.w.old, Null)), LAMBDA s5 :
    Then(nova_free_contiguous_log_blocks(s5, h.head), LAMBDA s6 :
    LET linked == next_log_page(s4, c.w.old) = BLOCK_OFF(h.tail)
    IN IF BlockOf(h.head) = BlockOf(h.tail) THEN s
       ELSE IF a.ret.n # blocks THEN a
       ELSE IF "oops" \in c.s.gaps THEN c.s
       ELSE IF ~linked THEN Gap(s4, "oops")
       ELSE Gap(Sih(s6, i, [pages |-> h.pages + c.w.blocks - checked]), "gc")))))))))

\* w: curr; last, the page before it that stays; head, the first that stays; first,
\* whether the head page goes; pages freed and checked; entries counted and valid.
RECURSIVE FreeInvalidPages(_, _, _)
FreeInvalidPages(s, i, w) ==
    LET t == Get(s, TailLine(w.curr))
        on == [w EXCEPT !.curr = t.next, !.checked = @ + 1]
    IN IF w.curr = Null THEN [s |-> s, w |-> w]
       ELSE IF BlockOf(w.curr) = BlockOf(s.sih[i].tail)
            THEN [s |-> s, w |-> [w EXCEPT !.head = IF @ = Null THEN w.curr ELSE @]]
       ELSE IF ~curr_page_invalid(s, w.curr)
            THEN FreeInvalidPages(s, i, [on EXCEPT !.head = IF @ = Null THEN w.curr ELSE @,
                                                   !.last = w.curr, !.num = @ + t.num,
                                                   !.valid = @ + t.num - t.invalid])
       ELSE IF w.curr = s.sih[i].head
            THEN FreeInvalidPages(s, i, [on EXCEPT !.first = TRUE, !.last = w.curr, !.freed = @ + 1])
       ELSE FreeInvalidPages(free_curr_page(s, w.curr, w.last), i, [on EXCEPT !.freed = @ + 1])

CeilDiv(x, y) == (x + y - 1) \div y

nova_inode_log_fast_gc(s, i, curr_tail, new_block, num_pages) ==
    LET h == s.sih[i]
    IN Then(FreeInvalidPages(s, i, [curr |-> h.head, last |-> Null, head |-> Null, first |-> FALSE,
                                    freed |-> 0, checked |-> 0, num |-> 0, valid |-> 0]), LAMBDA f :
    LET w == f.w
    IN Then(Barrier(nova_set_next_page_address(f.s, curr_tail, new_block)), LAMBDA s1 :
    Then(nova_update_inode_checksum(St(s1, LogOf(i), [head |-> w.head]), i), LAMBDA s2 :
    LET s3 == Sih(s2, i, [head |-> w.head, pages |-> h.pages + num_pages - w.freed])
        s4 == IF w.first THEN nova_free_blocks(s3, BlockOf(h.head), 1) ELSE s3
        checked == w.checked - w.freed
        blocks == CeilDiv(w.valid * checked, w.num)
    IN IF w.num # 0 /\ blocks # 0 /\ blocks * 2 < checked
       THEN nova_inode_log_thorough_gc(s4, i, blocks, checked) ELSE s4)))

------------------------------------------------------------------------------
(* Appending to a log.                                                           *)

nova_extend_inode_log(s, i, p) ==
    Then(nova_initialize_inode_log(s, i), LAMBDA new :
    Then(nova_allocate_inode_log_pages(s, Min({Threshold, s.sih[i].pages})), LAMBDA a :
    LET block == a.ret.b * Units
    IN IF p = Null THEN IF new.ret = Null THEN new ELSE Ret(nova_update_inode_checksum(new, i), new.ret)
       ELSE IF a.ret.n = 0 THEN Ret(a, Null)
       ELSE Ret(nova_inode_log_fast_gc(a, i, p, block, a.ret.n), block)))

\* The address an entry after tail goes to, Null when there is no space.
nova_get_append_head(s, i, tail) ==
    LET p == IF tail = Null THEN s.sih[i].tail ELSE tail
    IN IF p = Null THEN nova_extend_inode_log(s, i, p)
       ELSE IF ~is_last_entry(p) THEN Ret(s, p)
       ELSE Then(nova_set_next_page_flag(s, p), LAMBDA t :
            IF next_log_page(s, p) = Null THEN nova_extend_inode_log(t, i, p)
            ELSE Ret(t, next_log_page(s, p)))

\* The entry is durable (nova_update_log_entry), the count of its page is not, and nothing
\* refers to it before a tail covers it.
nova_append_log_entry(s, i, tail, e) ==
    Then(nova_get_append_head(s, i, tail), LAMBDA t :
    LET p == t.ret
    IN Then(Fl(Put(t, At(p), e), {At(p)}), LAMBDA u :
    IF p = Null THEN t
    ELSE Ret(nova_inc_page_num_entries(Barrier(u), p), p)))

\* An update in place that the journal can undo, all but the page's count of invalid
\* entries (nova_update_old_dentry).
nova_inplace_update_log_entry(s, p, fields) ==
    Then(St(nova_create_logentry_transaction(s, At(p)), At(p), fields), LAMBDA t :
    Then(IF Get(s, At(p)).k = "dentry" THEN nova_inc_page_invalid_entries(t, p) ELSE t, LAMBDA u :
    nova_commit_lite_transaction(Barrier(nova_update_entry_csum(u, p)))))

\* by: the pages of a write entry that are no longer used.
nova_invalidate_logentry(s, p, by) ==
    LET e == Get(s, At(p))
    IN Then(St(s, At(p), IF e.k = "write" THEN [reassigned |-> TRUE, invalid |-> e.invalid + by]
                         ELSE [invalid |-> TRUE]), LAMBDA t :
    LET dead == IF e.k = "write" THEN e.invalid + by = e.num ELSE TRUE
    IN nova_update_entry_csum(IF dead THEN nova_inc_page_invalid_entries(t, p) ELSE t, p))
nova_reassign_logentry(s, p) == nova_update_entry_csum(St(s, At(p), [reassigned |-> TRUE]), p)
nova_invalidate_write_entry(s, p, by) ==
    IF p = Null \/ (by = 0 /\ Get(s, At(p)).reassigned) THEN s ELSE nova_invalidate_logentry(s, p, by)

\* The entry before this one is looked up once the log has grown.
nova_append_link_change_entry(s, i, nlink) ==
    LET h == s.sih[i]
    IN Then(nova_append_log_entry(s, i, Null, [k |-> "link", links |-> nlink, trans |-> h.trans,
                                               invalid |-> FALSE]), LAMBDA t :
    IF t.ret = Null THEN Ret(t, [tail |-> Null, old |-> Null])
    ELSE Ret(Sih(t, i, [last_link |-> t.ret, trans |-> h.trans + 1]),
             [tail |-> t.ret + 1, old |-> t.sih[i].last_link]))
nova_invalidate_link_change_entry(s, p) == IF p = Null THEN s ELSE nova_invalidate_logentry(s, p, 0)
===============================================================================

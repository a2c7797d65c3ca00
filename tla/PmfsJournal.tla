----------------------------- MODULE PmfsJournal -----------------------------
(* The undo journal of PMFS (journal.c): a circular array of log entries in    *)
(* persistent memory shared by concurrent transactions, the log cleaner that    *)
(* moves its head, power failures and the recovery of the next mount.           *)
(*                                                                              *)
(* A transaction covers a set of cells (the 48-byte pieces of inodes and        *)
(* directory entries its operation logs), which the file system's own inode     *)
(* locks keep apart from the cells of the other running transactions.           *)
EXTENDS PMem, FiniteSets

CONSTANTS Threads,    \* tasks in file system calls, each on its own processor
          Cleaner,    \* the log cleaner; the mounting task uses its processor too
          Cells,      \* logged pieces of metadata
          JSize,      \* journal size in log entries
          MaxGen,     \* MAX_GEN_ID
          Starts,     \* where the journal may stand when it is first looked at
          MaxTx,      \* bound: transactions begun
          MaxCrashes, \* bound: power failures while mounted
          MaxRecCrashes, \* bound: power failures while recovering
          None

ASSUME JournalAssumption ==
    /\ CPUs = Threads \cup {Cleaner} /\ Cleaner \notin Threads
    /\ None \notin CPUs \cup Cells /\ IsFiniteSet(Cells)
    /\ JSize \in Nat \ {0} /\ MaxGen \in Nat \ {0, 1} /\ MaxTx \in Nat
    /\ \A s \in Starts : s.pos \in 0..JSize-1 /\ s.gen \in 1..MaxGen

VARIABLES mem,     \* persistent memory: the journal's header, its entries, the cells
          prog,    \* what each processor is executing: the rest of a flushing sequence
          tx,      \* each thread's transaction, pmfs_transaction_t and locals
          loop,    \* the locals of a running pmfs_clean_journal or pmfs_recover_undo_journal
          mutex,   \* the owner of journal_mutex
          awake,   \* the log cleaner has been woken
          mode,    \* "up", "unmounting", "unmounted", "down", "recovering", "recovered"
          txs,     \* transactions begun
          crashes, recCrashes,
          want,    \* history: the value finished transactions gave each cell
          lost,    \* history: the transactions the last power failure interrupted
          overrun, \* history: the journal has left out entries a transaction holds
          leftover \* history: a mount has left valid entries beyond the journal's tail

vars == <<mem, prog, tx, loop, mutex, awake, mode, txs, crashes, recCrashes, want, lost,
          overrun, leftover>>

Jnl == <<"journal">>
Le(i) == <<"le", i>>
Cell(c) == <<"cell", c>>
Lines == {Jnl} \cup {Le(i) : i \in 0..JSize-1} \cup {Cell(c) : c \in Cells}
Entry(i) == Cur(mem, Le(i))
Idle == [pc |-> "idle"]
NoLoop == [pc |-> "none"]

NoEntry == [addr |-> None, data |-> 0, type |-> {}, gen |-> 0]

------------------------------------------------------------------------------
(* Positions and generations.                                                   *)

next_log_entry(i) == IF i + 1 >= JSize THEN 0 ELSE i + 1
prev_log_entry(i) == IF i = 0 THEN JSize - 1 ELSE i - 1
next_gen_id(g) == IF g = MaxGen THEN 1 ELSE g + 1
prev_gen_id(g) == IF g = 1 THEN MaxGen ELSE g - 1
Dist(from, to) == IF to >= from THEN to - from ELSE to - from + JSize

\* An entry counts when its generation is the expected one. The loops of
\* pmfs_process_transaction step past the last entry of the array; what lies
\* there is taken not to look like an entry.
Valid(i, g) == i < JSize /\ Entry(i).gen = g
IsStart(i, g) == Valid(i, g) /\ "start" \in Entry(i).type
IsEnd(i, g) == Valid(i, g) /\ Entry(i).type \cap {"commit", "abort"} # {}

------------------------------------------------------------------------------
(* Flushing sequences: stores with the lines they write back, and fences.       *)

\* Stores to the fields order[1], order[2]... of line l, the write-back of the lines
\* cl and, with bar, a fence.
Write(l, order, r, cl, bar) ==
    [op |-> "write", l |-> l, order |-> order, r |-> r, cl |-> cl, bar |-> bar]
Barrier == [op |-> "fence", bar |-> FALSE]
Nothing == [op |-> "none", bar |-> FALSE]

\* The line after the first k stores.
Stored(old, o, k) ==
    [x \in DOMAIN old |-> IF \E j \in 1..k : o.order[j] = x THEN o.r[x] ELSE old[x]]

Exec(m, c, o) ==
    CASE o.op = "fence" -> Fence(m, c)
      [] o.op = "none" -> m
      [] o.op = "write" ->
            Clwb(Stores(m, o.l, [k \in 1..Len(o.order) |-> Stored(Cur(m, o.l), o, k)]), c, o.cl)

pmfs_undo_logentry(e) ==
    IF e.addr = None THEN Nothing
    ELSE Write(Cell(e.addr), <<"v">>, [v |-> e.data], {Cell(e.addr)}, FALSE)

\* The entries of low..high, last first.
pmfs_undo_transaction(low, high, g) ==
    [k \in 1..(high - low + 1) |->
        IF Valid(high + 1 - k, g) THEN pmfs_undo_logentry(Entry(high + 1 - k)) ELSE Nothing]

invalidate_gen_id(i, bar) == Write(Le(i), <<"gen">>, [gen |-> 0], {Le(i)}, bar)

\* A start entry is durably invalid before the entries behind it.
pmfs_invalidate_logentries(low, high) ==
    [k \in 1..(high - low + 1) |->
        invalidate_gen_id(low + k - 1, Entry(low + k - 1).type = {"start"})]

------------------------------------------------------------------------------
(* The log cleaner.                                                             *)

\* The transaction that starts at the valid entry head, read up to tail: how far
\* the cleaner may move, the entries it accounts for and what it writes.
pmfs_process_transaction(head, tail, g) ==
    LET new_head(k) == IF k + 1 >= JSize THEN k + 1 - JSize ELSE k + 1
        stop(k) == \/ IsEnd(k, g)
                   \/ new_head(k) = tail
                   \/ IsStart(k + 1, g)
        last == Min({k \in head..(head + JSize - 1) : stop(k)})
    IN IF ~IsStart(head, g)
       THEN [head |-> next_log_entry(head), processed |-> 0, prog |-> <<>>]
       ELSE [head |-> IF IsEnd(last, g) THEN new_head(last) ELSE head,
             processed |-> last - head + 1,
             prog |-> IF IsEnd(last, g) /\ g = MaxGen
                      THEN pmfs_invalidate_logentries(head, last) ELSE <<>>]

Ready(c) == prog[c] = <<>>

\* The loop ends one entry before the tail.
BugCleanJournal ==
    LET j == Cur(mem, Jnl)
    IN [pc |-> "clean", head |-> j.head,
        tail |-> IF j.tail = j.head THEN j.tail ELSE prev_log_entry(j.tail),
        gen |-> IF j.tail < j.head THEN prev_gen_id(j.gen) ELSE j.gen, total |-> 0]

\* Head, tail and generation as they are when the mutex is taken; a tail below the
\* head has wrapped around, and the head is of the generation before.
pmfs_clean_journal ==
    LET j == Cur(mem, Jnl)
    IN [pc |-> "clean", head |-> j.head, tail |-> j.tail,
        gen |-> IF j.tail < j.head THEN prev_gen_id(j.gen) ELSE j.gen, total |-> 0]

\* On to the entry new, after the writes ops.
CleanOn(c, new, processed, ops) ==
    /\ loop' = [loop EXCEPT !.head = new, !.total = @ + processed,
                            !.gen = IF new = 0 THEN next_gen_id(@) ELSE @]
    /\ prog' = [prog EXCEPT ![c] = ops]

\* Out of the loop: the head is stored once the invalidated entries are durable.
CleanLeave(c, processed) ==
    /\ loop' = [loop EXCEPT !.pc = "left", !.total = @ + processed]
    /\ prog' = [prog EXCEPT ![c] =
                    <<Barrier, Write(Jnl, <<"head">>, [head |-> loop.head], {Jnl}, TRUE)>>]

\* One round of the loop of pmfs_clean_journal.
CleanRound(c) ==
    /\ loop.pc = "clean" /\ mutex = c /\ Ready(c)
    /\ LET head == loop.head
           r == pmfs_process_transaction(head, loop.tail, loop.gen)
       IN \/ head = loop.tail /\ CleanLeave(c, 0)
          \/ /\ head # loop.tail /\ Valid(head, loop.gen)
             /\ IF r.head = head THEN CleanLeave(c, r.processed)
                ELSE CleanOn(c, r.head, r.processed, r.prog)
          \/ /\ head # loop.tail /\ ~Valid(head, loop.gen)
             /\ CleanOn(c, next_log_entry(head), 0,
                        IF loop.gen = MaxGen THEN <<invalidate_gen_id(head, FALSE)>> ELSE <<>>)
    /\ UNCHANGED <<mem, tx, mutex, awake, mode, txs, crashes, recCrashes, want, lost>>

------------------------------------------------------------------------------
(* Recovery of the undo journal.                                                *)

\* The transaction that ends at the valid entry high, read backwards.
pmfs_recover_transaction(head, high, g) ==
    LET stop(k) == IsStart(k, g) \/ k = 0 \/ k = head \/ IsEnd(k - 1, g)
        low == Max({k \in 0..high : stop(k)})
        undone == IsStart(low, g) /\ ~\E k \in low..high : IsEnd(k, g)
    IN [low |-> low,
        prog |-> (IF undone THEN pmfs_undo_transaction(low, high, g) ELSE <<>>) \o
                 (IF g # MaxGen THEN <<>>
                  ELSE (IF undone THEN <<Barrier>> ELSE <<>>) \o
                       pmfs_invalidate_logentries(low, high))]

invalidate_remaining_journal(tail) ==
    [k \in 1..(JSize - tail) |-> invalidate_gen_id(tail + k - 1, FALSE)]

\* Generation and head are stored once everything else is durable, in this order.
pmfs_forward_journal(j) ==
    (IF j.gen = MaxGen THEN invalidate_remaining_journal(j.tail) ELSE <<>>) \o
    <<Barrier, Write(Jnl, <<"gen", "head">>, [gen |-> next_gen_id(j.gen), head |-> j.tail],
                     {Jnl}, TRUE)>>

pmfs_recover_undo_journal ==
    LET j == Cur(mem, Jnl)
    IN [pc |-> "undo", head |-> j.head, tail |-> j.tail, gen |-> j.gen]

\* Back to the entry low, after the writes ops.
UndoOn(low, g, ops) ==
    /\ loop' = [loop EXCEPT !.tail = low, !.gen = g]
    /\ prog' = [prog EXCEPT ![Cleaner] = ops]

\* One round of the loop of pmfs_recover_undo_journal.
UndoRound ==
    /\ loop.pc = "undo" /\ Ready(Cleaner)
    /\ LET g == IF loop.tail = 0 THEN prev_gen_id(loop.gen) ELSE loop.gen
           tail == prev_log_entry(loop.tail)
           r == pmfs_recover_transaction(loop.head, tail, g)
       IN \/ /\ loop.head = loop.tail
             /\ loop' = [loop EXCEPT !.pc = "undone"]
             /\ prog' = [prog EXCEPT ![Cleaner] = pmfs_forward_journal(Cur(mem, Jnl))]
          \/ loop.head # loop.tail /\ Valid(tail, g) /\ UndoOn(r.low, g, r.prog)
          \/ /\ loop.head # loop.tail /\ ~Valid(tail, g)
             /\ UndoOn(tail, g, IF g = MaxGen THEN <<invalidate_gen_id(tail, FALSE)>> ELSE <<>>)
    /\ UNCHANGED <<mem, tx, mutex, awake, mode, txs, crashes, recCrashes, want, lost>>

------------------------------------------------------------------------------
(* Transactions.                                                                *)

\* Stores to one log entry, its generation last; c is the logged cell, or None.
LeFields == <<"addr", "data", "type", "gen">>
FillEntry(x, c, type) ==
    [addr |-> c, data |-> IF c = None THEN 0 ELSE Cur(mem, Cell(c)).v,
     type |-> type \cup (IF x.logged = <<>> THEN {"start"} ELSE {}), gen |-> x.gen]

\* The entry that the next call of pmfs_add_logentry fills.
NextLe(x) == Le(x.start + Len(x.logged))

\* An entry that takes the place of the one before it.
BugAddLogentry(x, c, type) ==
    LET le == IF x.logged = <<>> THEN NextLe(x) ELSE Le(x.start + Len(x.logged) - 1)
    IN <<Write(le, LeFields, [FillEntry(x, c, type) EXCEPT !.type = type \cup {"start"}],
               {le}, TRUE)>>

\* pmfs_add_logentry for a piece of data, and for the abort record.
pmfs_add_logentry(x, c, type) ==
    <<Write(NextLe(x), LeFields, FillEntry(x, c, type), {NextLe(x)}, TRUE)>>

\* The commit record becomes valid before the logged cells are durable.
BugCommitLogentry(x) ==
    LET logged == {k \in x.start..(x.start + Len(x.logged) - 1) : Entry(k).addr # None}
    IN <<Write(NextLe(x), LeFields, FillEntry(x, None, {"commit"}),
               {Cell(Entry(k).addr) : k \in logged} \cup {NextLe(x)}, TRUE)>>

\* pmfs_add_logentry for the commit record: the logged cells are written back and
\* fenced before the entry becomes valid.
pmfs_commit_logentry(x) ==
    LET le == FillEntry(x, None, {"commit"})
        logged == {k \in x.start..(x.start + Len(x.logged) - 1) : Entry(k).addr # None}
    IN <<Write(NextLe(x), <<"addr", "data", "type">>, le, {Cell(Entry(k).addr) : k \in logged}, TRUE),
         Write(NextLe(x), <<"gen">>, le, {NextLe(x)}, TRUE)>>

Up == mode = "up"
Started(t) == Up /\ tx[t].pc # "idle"
Logged(x) == {x.logged[k] : k \in 1..Len(x.logged)}   \* the cells that have an entry
CellsInUse == UNION {tx[t].cells : t \in {u \in Threads : tx[u].pc # "idle"}}

\* pmfs_new_transaction: the mutex is taken, head and tail are read once.
NewTransaction(t) ==
    /\ Up /\ tx[t].pc = "idle" /\ mutex = None /\ txs < MaxTx
    /\ \E C \in SUBSET (Cells \ CellsInUse) :
        /\ C # {}
        /\ tx' = [tx EXCEPT ![t] =
                    [pc |-> "again", cells |-> C, logged |-> <<>>, new |-> txs + 1,
                     old |-> [c \in C |-> Cur(mem, Cell(c)).v],
                     n |-> Cardinality(C) + 1, start |-> 0, gen |-> 0,
                     head |-> Cur(mem, Jnl).head, tail |-> Cur(mem, Jnl).tail,
                     avail |-> 0, freed |-> 0, retry |-> 0]]
    /\ mutex' = t /\ txs' = txs + 1
    /\ UNCHANGED <<mem, prog, loop, awake, mode, crashes, recCrashes, want, lost>>

avail_size(x) == (IF x.tail >= x.head THEN JSize - (x.tail - x.head)
                                      ELSE x.head - x.tail) - 1

\* The label again: is there room behind the tail, by the head read before?
CheckRoom(t) ==
    /\ Started(t) /\ tx[t].pc = "again" /\ Ready(t)
    /\ LET x == [tx[t] EXCEPT !.gen = Cur(mem, Jnl).gen, !.avail = avail_size(tx[t]),
                              !.freed = 0, !.retry = 0]
       IN tx' = [tx EXCEPT ![t] = [x EXCEPT !.pc = IF x.avail < x.n THEN "short" ELSE "room"]]
    /\ UNCHANGED <<mem, prog, loop, mutex, awake, mode, txs, crashes, recCrashes, want, lost>>

\* No room: clean the journal up to three times, then give up with EAGAIN.
FreeLogEntries(t) ==
    /\ Started(t) /\ tx[t].pc = "short" /\ Ready(t)
    /\ LET x == tx[t]
           enough == x.avail + x.freed >= x.n
       IN \/ /\ loop = NoLoop /\ x.retry > 0 /\ enough
             /\ tx' = [tx EXCEPT ![t].pc = "room"]
             /\ UNCHANGED <<loop, mutex>>
          \/ /\ loop = NoLoop /\ x.retry = 3 /\ ~enough
             /\ tx' = [tx EXCEPT ![t] = Idle]
             /\ mutex' = None /\ UNCHANGED loop
          \/ /\ loop = NoLoop /\ x.retry < 3 /\ (x.retry > 0 => ~enough)
             /\ loop' = pmfs_clean_journal
             /\ UNCHANGED <<tx, mutex>>
          \/ /\ loop.pc = "left"
             /\ tx' = [tx EXCEPT ![t] = [x EXCEPT !.freed = x.freed + loop.total,
                                                   !.retry = x.retry + 1]]
             /\ loop' = NoLoop /\ UNCHANGED mutex
    /\ UNCHANGED <<mem, prog, awake, mode, txs, crashes, recCrashes, want, lost>>

\* Room: reserve the entries, or start again from the beginning of the journal
\* with the next generation so that no transaction wraps around.
Reserve(t) ==
    /\ Started(t) /\ tx[t].pc = "room" /\ Ready(t)
    /\ LET x == tx[t]
           j == Cur(mem, Jnl)
           tail == x.tail + x.n
       IN IF tail >= JSize
          THEN /\ mem' = Store(mem, Jnl, [j EXCEPT !.tail = 0, !.gen = next_gen_id(@)])
               /\ tx' = [tx EXCEPT ![t] = [x EXCEPT !.tail = 0, !.pc = "again"]]
               /\ UNCHANGED <<mutex, awake>>
          ELSE /\ mem' = Clwb(Store(mem, Jnl, [j EXCEPT !.tail = tail]), t, {Jnl})
               /\ tx' = [tx EXCEPT ![t] = [x EXCEPT !.start = x.tail, !.tail = tail,
                                                   !.pc = "open"]]
               /\ mutex' = None
               /\ awake' = (awake \/ 8 * (JSize - x.avail + x.n) > JSize)
    /\ UNCHANGED <<prog, loop, mode, txs, crashes, recCrashes, want, lost>>

\* The operation logs a cell, and changes it in place once the entry is durable.
LogCell(t) ==
    /\ Started(t) /\ tx[t].pc = "open" /\ Ready(t) /\ Len(tx[t].logged) < tx[t].n
    /\ \E c \in tx[t].cells \ Logged(tx[t]) :
        /\ prog' = [prog EXCEPT ![t] = pmfs_add_logentry(tx[t], c, {}) \o
                        <<Write(Cell(c), <<"v">>, [v |-> tx[t].new], {}, FALSE)>>]
        /\ tx' = [tx EXCEPT ![t].logged = Append(@, c)]
    /\ UNCHANGED <<mem, loop, mutex, awake, mode, txs, crashes, recCrashes, want, lost>>

pmfs_commit_transaction(t) ==
    /\ Started(t) /\ tx[t].pc = "open" /\ Ready(t) /\ Len(tx[t].logged) < tx[t].n
    /\ Logged(tx[t]) = tx[t].cells
    /\ prog' = [prog EXCEPT ![t] = pmfs_commit_logentry(tx[t])]
    /\ tx' = [tx EXCEPT ![t].pc = "committing"]
    /\ UNCHANGED <<mem, loop, mutex, awake, mode, txs, crashes, recCrashes, want, lost>>

\* An operation that fails half way undoes what it did and says so in the log.
pmfs_abort_transaction(t) ==
    /\ Started(t) /\ tx[t].pc = "open" /\ Ready(t) /\ Len(tx[t].logged) < tx[t].n
    /\ Logged(tx[t]) # tx[t].cells
    /\ LET x == tx[t]
       IN prog' = [prog EXCEPT ![t] =
                     pmfs_undo_transaction(x.start, x.start + Len(x.logged) - 1, x.gen) \o
                     <<Barrier>> \o pmfs_add_logentry(x, None, {"abort"})]
    /\ tx' = [tx EXCEPT ![t].pc = "aborting"]
    /\ UNCHANGED <<mem, loop, mutex, awake, mode, txs, crashes, recCrashes, want, lost>>

Outcome(x) == [c \in x.cells |-> IF x.pc = "committing" THEN x.new ELSE x.old[c]]

\* The call returns.
Return(t) ==
    /\ Started(t) /\ tx[t].pc \in {"committing", "aborting"} /\ Ready(t)
    /\ want' = [c \in Cells |-> IF c \in tx[t].cells THEN Outcome(tx[t])[c] ELSE want[c]]
    /\ tx' = [tx EXCEPT ![t] = Idle]
    /\ UNCHANGED <<mem, prog, loop, mutex, awake, mode, txs, crashes, recCrashes, lost>>

\* One step of a flushing sequence; the fence of a write is a step of its own.
Step(c) ==
    /\ prog[c] # <<>>
    /\ mem' = Exec(mem, c, prog[c][1])
    /\ prog' = [prog EXCEPT ![c] = IF @[1].bar THEN [@ EXCEPT ![1] = Barrier] ELSE Tail(@)]
    /\ UNCHANGED <<tx, loop, mutex, awake, mode, txs, crashes, recCrashes, want, lost>>

------------------------------------------------------------------------------
(* The log cleaner's thread, unmount, power failure, mount.                     *)

LogCleaner ==
    /\ Up /\ awake /\ mutex = None
    /\ loop' = pmfs_clean_journal /\ mutex' = Cleaner /\ awake' = FALSE
    /\ UNCHANGED <<mem, prog, tx, mode, txs, crashes, recCrashes, want, lost>>

CleanerDone ==
    /\ mutex = Cleaner /\ loop.pc = "left" /\ Ready(Cleaner)
    /\ mutex' = None /\ loop' = NoLoop
    /\ mode' = IF mode = "unmounting" THEN "unmounted" ELSE mode
    /\ UNCHANGED <<mem, prog, tx, awake, txs, crashes, recCrashes, want, lost>>

\* pmfs_journal_uninit stops the cleaner, which cleans a last time.
Unmount ==
    /\ Up /\ mutex = None /\ \A t \in Threads : tx[t].pc = "idle" /\ Ready(t)
    /\ txs > 0
    /\ loop' = pmfs_clean_journal
    /\ mode' = "unmounting" /\ mutex' = Cleaner /\ awake' = FALSE
    /\ UNCHANGED <<mem, prog, tx, txs, crashes, recCrashes, want, lost>>

Crash ==
    /\ \/ mode \in {"up", "unmounting", "unmounted"} /\ crashes < MaxCrashes
          /\ crashes' = crashes + 1 /\ UNCHANGED recCrashes
       \/ mode = "recovering" /\ recCrashes < MaxRecCrashes
          /\ recCrashes' = recCrashes + 1 /\ UNCHANGED crashes
    /\ \E img \in CrashImages(mem) : mem' = Fresh(img)
    /\ prog' = [c \in CPUs |-> <<>>]
    /\ tx' = [t \in Threads |-> Idle]
    /\ lost' = lost \cup {tx[t] : t \in {u \in Threads : tx[u].pc # "idle"}}
    /\ mode' = "down" /\ mutex' = None /\ loop' = NoLoop /\ awake' = FALSE
    /\ UNCHANGED <<txs, want>>

\* pmfs_journal_soft_init, pmfs_recover_journal.
Mount ==
    /\ mode \in {"down", "unmounted"}
    /\ LET j == Cur(mem, Jnl)
       IN IF j.head = j.tail
          THEN mode' = "recovered" /\ UNCHANGED loop
          ELSE mode' = "recovering" /\ loop' = pmfs_recover_undo_journal
    /\ UNCHANGED <<mem, prog, tx, mutex, awake, txs, crashes, recCrashes, want, lost>>

RecoveryDone ==
    /\ mode = "recovering" /\ loop.pc = "undone" /\ Ready(Cleaner)
    /\ mode' = "recovered" /\ loop' = NoLoop
    /\ UNCHANGED <<mem, prog, tx, mutex, awake, txs, crashes, recCrashes, want, lost>>

\* The mounted file system goes on from whatever it found.
Resume ==
    /\ mode = "recovered"
    /\ mode' = "up" /\ lost' = {}
    /\ want' = [c \in Cells |-> Cur(mem, Cell(c)).v]
    /\ UNCHANGED <<mem, prog, tx, loop, mutex, awake, txs, crashes, recCrashes>>

\* The journal after finished and cleaned transactions of one entry each: those
\* before the position carry the current generation, the others the one before; the
\* last entry is never reserved, and entries of the last generation are invalidated.
OldEntry(s, i) ==
    LET g == IF i < s.pos THEN s.gen ELSE s.gen - 1
    IN IF i = JSize - 1 \/ g \in {0, MaxGen} THEN NoEntry
       ELSE [NoEntry EXCEPT !.type = {"start", "commit"}, !.gen = g]

\* pmfs_journal_hard_init, and what earlier transactions made of it.
Init ==
    /\ \E s \in Starts :
        mem = Fresh([l \in Lines |->
                CASE l = Jnl -> [head |-> s.pos, tail |-> s.pos, gen |-> s.gen]
                  [] l[1] = "le" -> OldEntry(s, l[2])
                  [] l[1] = "cell" -> [v |-> 0]])
    /\ prog = [c \in CPUs |-> <<>>]
    /\ tx = [t \in Threads |-> Idle] /\ loop = NoLoop
    /\ mutex = None /\ awake = FALSE /\ mode = "up"
    /\ txs = 0 /\ crashes = 0 /\ recCrashes = 0
    /\ want = [c \in Cells |-> 0] /\ lost = {}
    /\ overrun = FALSE /\ leftover = FALSE

\* The journal's head, and the one a running clean has come to.
Heads == {Cur(mem, Jnl).head} \cup (IF loop.pc \in {"clean", "left"} THEN {loop.head} ELSE {})

\* A transaction holds its entries until it has written the last one.
Holds(t) == tx[t].pc = "open" \/ (tx[t].pc \in {"committing", "aborting"} /\ prog[t] # <<>>)
Reserved(t) == tx[t].start..(tx[t].start + tx[t].n - 1)

\* The entries a transaction holds lie between the journal's head and tail.
ReservedKept ==
    \A t \in Threads : Holds(t) =>
        \A i \in Reserved(t), head \in Heads :
            Dist(head, i) < Dist(head, Cur(mem, Jnl).tail)

Actions ==
    \/ \E t \in Threads :
        \/ NewTransaction(t) \/ CheckRoom(t) \/ FreeLogEntries(t) \/ Reserve(t)
        \/ LogCell(t) \/ pmfs_commit_transaction(t) \/ pmfs_abort_transaction(t) \/ Return(t)
    \/ \E c \in CPUs : Step(c) \/ CleanRound(c)
    \/ UndoRound \/ LogCleaner \/ CleanerDone \/ Unmount
    \/ Crash \/ Mount \/ RecoveryDone \/ Resume

\* Entries that a later pass over this part of the journal takes for its own.
EntriesBeyondTail ==
    LET j == Cur(mem, Jnl)
    IN \/ \E i \in j.tail..(JSize - 1) : Valid(i, j.gen)
       \/ \E i \in 0..(j.tail - 1) : Valid(i, next_gen_id(j.gen))

Next == /\ Actions
        /\ overrun' = (overrun \/ ~ReservedKept')
        /\ leftover' = (leftover \/ (mode = "recovered" /\ EntriesBeyondTail))

Spec == Init /\ [][Next]_vars

------------------------------------------------------------------------------
(* Properties.                                                                  *)

\* Types of the volatile state and of the journal's header.
TypeOK ==
    /\ mutex \in CPUs \cup {None} /\ awake \in BOOLEAN /\ overrun \in BOOLEAN
    /\ mode \in {"up", "unmounting", "unmounted", "down", "recovering", "recovered"}
    /\ Cur(mem, Jnl) \in [head : 0..JSize-1, tail : 0..JSize-1, gen : 1..MaxGen]
    /\ \A i \in 0..JSize-1 : Entry(i).gen \in 0..MaxGen
    /\ \A c \in Cells : Cur(mem, Cell(c)).v \in 0..MaxTx

RolledBackOrDone ==
    LET now(c) == Cur(mem, Cell(c)).v
    IN /\ \A x \in lost :
            \/ \A c \in x.cells : now(c) = x.old[c]
            \/ x.pc = "committing" /\ \A c \in x.cells : now(c) = x.new
       /\ \A c \in Cells \ UNION {x.cells : x \in lost} : now(c) = want[c]

\* After a power failure and the recovery that follows it, every interrupted
\* transaction left all of its cells as they were, or, when it was committing, all
\* of them changed; cells no interrupted transaction covers keep their last values.
\* This is as long as the journal has not overrun a transaction and no earlier
\* mount left valid entries behind.
CrashAtomic == mode = "recovered" /\ ~overrun /\ ~leftover => RolledBackOrDone

\* While a transaction is open its undo entries stay as they were written, whatever
\* the other transactions and the cleaner do, until the journal overruns one.
Open(t) == Started(t) /\ tx[t].pc = "open" /\ Ready(t)
OpenLogIntact ==
    \A t \in Threads : Open(t) /\ ~overrun =>
        \A k \in 1..Len(tx[t].logged) :
            LET e == Entry(tx[t].start + k - 1)
                c == tx[t].logged[k]
            IN e.addr = c /\ e.data = tx[t].old[c] /\ e.gen = tx[t].gen

\* The journal in persistent memory is sound while transactions are open.
JournalSound == TypeOK /\ OpenLogIntact

\* pmfs_clean_journal on unmount: nothing is left in the journal, when no power
\* failure came before and the journal has not overrun a transaction.
UnmountEmptiesJournal ==
    mode = "unmounted" /\ crashes = 0 /\ ~overrun => Cur(mem, Jnl).head = Cur(mem, Jnl).tail

==============================================================================

------------------------------ MODULE WinefsAlloc ------------------------------
(* Threads that allocate and free blocks on the free lists of WineFS. A list is *)
(* changed only under its mutex, so each locked section is one step; between    *)
(* two sections, and while pmfs_get_candidate_free_list looks at the lists      *)
(* without their locks, other threads run.                                      *)
EXTENDS WinefsBalloc

CONSTANTS Threads,   \* threads inside pmfs_new_blocks or pmfs_free_blocks
          Nums,      \* numbers of 4K blocks asked for
          Runs,      \* lengths of the runs freed by one call
          MaxCalls   \* bound on the calls of a behaviour

ASSUME WinefsAllocAssumption ==
    /\ NumBlocks \in Nat /\ Cpus \in Nat \ {0} /\ H \in Nat \ {0, 1}
    /\ HeadReserved \in 1..per_list_blocks - 1
    /\ Nums \subseteq Nat \ {0} /\ Runs \subseteq Nat \ {0}
    /\ \A i \in ListIds : FreshList(i).huge # {}   \* as pmfs_init_blockmap requires

VARIABLES lists,   \* sbi->free_lists
          held,    \* blocks granted to some caller and not freed
          leaked,  \* blocks of a run that pmfs_free_blocks refused
          call,    \* what each thread is doing
          alone,   \* threads in a call that no other call has overlapped
          early,   \* lists in which a node was linked before its range was set
          calls    \* calls made so far

vars == <<lists, held, leaked, call, alone, early, calls>>

Idle == [pc |-> "idle"]
Freed == [pc |-> "freed"]
Busy == {t \in Threads : call[t].pc # "idle"}

Managed == UNION {FreshList(i).start..FreshList(i).end : i \in ListIds}

\* A formatted device, or one on which every block has been given out.
Init ==
    /\ \/ lists = pmfs_init_blockmap(FALSE) /\ held = {}
       \/ lists = pmfs_init_blockmap(TRUE) /\ held = Managed
    /\ leaked = {}
    /\ call = [t \in Threads |-> Idle]
    /\ alone = {} /\ early = {} /\ calls = 0

Enter(t) ==
    /\ call[t].pc = "idle"
    /\ calls < MaxCalls
    /\ calls' = calls + 1
    /\ alone' = IF Busy = {} THEN {t} ELSE {}

\* pmfs_new_blocks, from a CPU or for a given one.
NewBlocks(t, large, num, cpu) ==
    /\ Enter(t)
    /\ call' = [call EXCEPT ![t] = [pc |-> "check", large |-> large, num |-> num, cpu |-> cpu,
                                    retried |-> 0]]
    /\ UNCHANGED <<lists, held, leaked, early>>

\* Under the lock of the list: enough blocks, or no retry left.
MustRetry(c, L) == not_enough_blocks(L, c.num) /\ c.retried < 2

Alloc(t) ==
    LET c == call[t]
        L == lists[c.cpu]
        r == pmfs_alloc_blocks_in_free_list(L, c.large, c.num)
    IN /\ c.pc = "check"
       /\ L.first_u # Dangling
       /\ ~MustRetry(c, L)
       /\ lists' = [lists EXCEPT ![c.cpu] = r.list]
       /\ held' = held \cup (r.block..r.block + r.num - 1)
       /\ call' = [call EXCEPT ![t] = [pc |-> "done", large |-> c.large, got |-> r.num]]
       /\ UNCHANGED <<leaked, alone, early, calls>>

\* The lock is released and the lists are looked at from list 0 on.
Retry(t) ==
    /\ call[t].pc = "check"
    /\ MustRetry(call[t], lists[call[t].cpu])
    /\ call' = [call EXCEPT ![t] = [pc |-> "scan", large |-> @.large, num |-> @.num,
                                    cpu |-> @.cpu, retried |-> @.retried, i |-> 0, most |-> 0,
                                    most_holes |-> 0, cpuid |-> 0, holes |-> -1]]
    /\ UNCHANGED <<lists, held, leaked, alone, early, calls>>

num_free_holes(L) == L.num_free - L.num_h * H

\* pmfs_get_candidate_free_list looks at list i, without its lock. The request
\* is compared with 512 whatever its block type.
BugCandidate(c, L) ==
    LET free == num_free_holes(L)
        better == c.num # H /\ free > c.most_holes /\ free >= c.num
    IN [c EXCEPT !.holes = IF better THEN c.i ELSE @, !.most_holes = IF better THEN free ELSE @]
Candidate(c, L) ==
    LET more == L.num_free > c.most
        free == num_free_holes(L)
        better == c.num # H /\ free > c.most_holes /\ free >= c.num
    IN [c EXCEPT !.cpuid = IF more THEN c.i ELSE @, !.most = IF more THEN L.num_free ELSE @,
                 !.holes = IF better THEN c.i ELSE @, !.most_holes = IF better THEN free ELSE @]

\* Back to the check, on the list that was picked.
BugAgain(c, to) == [pc |-> "check", large |-> c.large, num |-> c.num, cpu |-> to,
                    retried |-> c.retried]
Again(c, to) == [pc |-> "check", large |-> c.large, num |-> c.num, cpu |-> to,
                 retried |-> c.retried + 1]

pmfs_get_candidate_free_list(t) ==
    LET c == Candidate(call[t], lists[call[t].i])
        to == IF c.holes >= 0 THEN c.holes ELSE c.cpuid
    IN /\ call[t].pc = "scan"
       /\ call' = [call EXCEPT ![t] =
                     IF c.i < Cpus - 1 THEN [c EXCEPT !.i = @ + 1]
                     ELSE Again(c, to)]
       /\ UNCHANGED <<lists, held, leaked, alone, early, calls>>

\* pmfs_free_blocks: a run of held blocks, by the list of its first block.
FreeBlocksOf(t, low, num) ==
    /\ Enter(t)
    /\ low..low + num - 1 \subseteq held
    /\ held' = held \ (low..low + num - 1)
    /\ call' = [call EXCEPT ![t] = [pc |-> "free", low |-> low, left |-> num, num |-> num,
                                    cpu |-> get_block_cpuid(low)]]
    /\ UNCHANGED <<lists, leaked, early>>

\* The bound is tested with the length of the whole run in every round.
OutOfList(c, L) == c.low < L.start \/ c.low + c.num > L.end + 1

Round(c) == Min({c.left, H})

FreeRoundOf(t) ==
    LET c == call[t]
        L == lists[c.cpu]
        n == Round(c)
    IN /\ c.pc = "free"
       /\ L.first_u # Dangling
       /\ ~OutOfList(c, L)
       /\ \E M \in FreeRound(L, c.low, c.low + n - 1) :
            /\ lists' = [lists EXCEPT ![c.cpu] = M]
            /\ early' = IF InOrder(M) THEN early ELSE early \cup {c.cpu}
       /\ call' = [call EXCEPT ![t] = IF c.left = n THEN Freed
                                      ELSE [c EXCEPT !.low = @ + n, !.left = @ - n]]
       /\ UNCHANGED <<held, leaked, alone, calls>>

\* -EIO: what is left of the run is free for nobody.
FreeFails(t) ==
    LET c == call[t]
    IN /\ c.pc = "free"
       /\ OutOfList(c, lists[c.cpu])
       /\ leaked' = leaked \cup (c.low..c.low + c.left - 1)
       /\ call' = [call EXCEPT ![t] = Freed]
       /\ UNCHANGED <<lists, held, alone, early, calls>>

Return(t) ==
    /\ call[t].pc \in {"done", "freed"}
    /\ call' = [call EXCEPT ![t] = Idle]
    /\ alone' = alone \ {t}
    /\ UNCHANGED <<lists, held, leaked, early, calls>>

Step(t) ==
    \/ Alloc(t) \/ Retry(t) \/ pmfs_get_candidate_free_list(t)
    \/ FreeRoundOf(t) \/ FreeFails(t) \/ Return(t)

Next ==
    \E t \in Threads :
        \/ \E num \in Nums, cpu \in ListIds : NewBlocks(t, FALSE, num, cpu)
        \/ \E cpu \in ListIds : NewBlocks(t, TRUE, H, cpu)
        \/ \E low \in held, num \in Runs : FreeBlocksOf(t, low, num)
        \/ Step(t)

\* A thread inside a call keeps running: nothing in it waits but for a mutex that
\* is held for a bounded time.
Spec == Init /\ [][Next]_vars /\ \A t \in Threads : WF_vars(Step(t))

------------------------------------------------------------------------------
(* Properties.                                                                  *)

InFlight(t) == IF call[t].pc = "free" THEN call[t].low..call[t].low + call[t].left - 1 ELSE {}

\* Every list is a walk of non-empty ranges within its bounds with a first node
\* that is one of them (balloc.h: struct free_list).
TypeOK ==
    \A i \in ListIds :
        /\ \A k \in DOMAIN lists[i].una :
              /\ lists[i].una[k].low <= lists[i].una[k].high
              /\ Blocks(lists[i].una[k]) \subseteq lists[i].start..lists[i].end
        /\ lists[i].first_u \in {Dangling} \cup 0..Len(lists[i].una)
        /\ lists[i].first_h \in {0} \cup lists[i].huge

\* No block is ever in two hands and none disappears: the ranges of the lists,
\* what callers hold, what is being freed and what a failed free dropped are
\* disjoint and together all blocks (pmfs_alloc_blocks_in_free_list against
\* pmfs_free_blocks of other threads).
BlocksConserved ==
    LET freeing == UNION {InFlight(t) : t \in Threads}
        used == held \cup leaked \cup freeing
    IN /\ used \cup UNION {FreeBlocks(lists[i]) : i \in ListIds} = Managed
       /\ held \cap leaked = {} /\ (held \cup leaked) \cap freeing = {}
       /\ \A t, u \in Threads : t # u => InFlight(t) \cap InFlight(u) = {}
       /\ \A i \in ListIds :
            /\ Apart(lists[i]) /\ FreeBlocks(lists[i]) \cap used = {}
            /\ \A j \in ListIds \ {i} : FreeBlocks(lists[i]) \cap FreeBlocks(lists[j]) = {}

\* The counters that allocation decides by are those of the trees (num_free_blocks,
\* num_blocknode_unaligned, num_blocknode_huge_aligned), and a huge page is aligned.
CountersExact ==
    \A i \in ListIds :
        /\ lists[i].num_free = Cardinality(FreeBlocks(lists[i]))
        /\ lists[i].num_u = Len(lists[i].una)
        /\ lists[i].num_h = Cardinality(lists[i].huge)
        /\ \A b \in lists[i].huge : IS_BLOCK_2MB_ALIGNED(b)

\* The last block of no list is the first of a huge page: pmfs_init_blockmap would
\* count that block and put it in neither tree.
LastBlocksListed ==
    \A i \in ListIds : ~IS_BLOCK_2MB_ALIGNED(pmfs_init_free_list(i).end)

\* The lists are sound whatever the other threads did between two of their locks.
ListsSound == TypeOK /\ BlocksConserved /\ CountersExact

\* pmfs_new_blocks for 4K blocks that runs without another call beside it fails
\* only when no list has a block, wherever it starts: two retries are enough. A
\* list whose walk was once out of order is excepted, and with it every other one
\* while it has blocks: its first node may miss them, and its counter still makes
\* it the candidate.
LoneCallServed ==
    \A t \in alone : call[t].pc = "done" /\ ~call[t].large /\ call[t].got = 0
                        => \/ \A i \in ListIds : FreeBlocks(lists[i]) = {}
                           \/ \E i \in early : FreeBlocks(lists[i]) # {}

\* Every call comes back, unless it needs a list whose first node was freed.
CallsReturn ==
    \A t \in Threads :
        call[t].pc # "idle" ~> call[t].pc = "idle" \/ \E i \in ListIds : lists[i].first_u = Dangling

==============================================================================

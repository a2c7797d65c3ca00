# A TLA+ verification of Silhouette

Silhouette tests persistent-memory file systems for crash consistency. A *host*
runs a set of virtual machines. In each of them a *guest* takes test programs
from a shared list, traces what they store to persistent memory, simulates the
cache, makes *crash plans* (which stores a power failure may leave in memory),
and validates the file system on the resulting images. The repository holds the
tool (`src/codebase`) and the file systems it tests: PMFS, WineFS and NOVA
(`src/thirdPart/*-chipmunk-disable-chipmunk-bugs`).

This directory holds TLA+ models of the parts that carry state, interleave,
fail or compute something subtle; TLC checks them on small instances, and
TLAPS proves the most important properties for every instance.

## The system

The tool (paths under `src/codebase/scripts`):

| Part | Source | State | Operations | Module |
|---|---|---|---|---|
| Host monitor | `executor/host_side/main_host.py` | four VM lists, retest counts, time since job start | start jobs, poll, restore, restart, relaunch, give up | `Campaign`, `VMMgr` |
| Guest worker | `executor/guest_side/main_guest.py`, `tracing.py`, `dedup.py` | current case, operation indices | init, fetch, trace, deduplicate, test, finish, raise | `Campaign` |
| Guest states, exceptions, heartbeat | `vm_mgr/guest_state.py`, `vm_mgr/guest_exception_handler.py`, `vm_comm/heartbeat_*.py` | memcached keys `<vm>.state`, `heartbeat.<vm>` | set, increment, time out | `Campaign` |
| memcached calls | `vm_comm/memcached_wrapper.py` | connection | retry of incr, add, gets, cas | `Campaign`, `MemcachedLock` |
| memcached lock | `vm_comm/memcached_lock.py` | one key | init, acquire, release | `MemcachedLock`, `Mutex` |
| Cache simulator | `cache_sim/witcher/cache/*.py` | lines with their stores | accept store, flush, fence; write back | `CacheSim` |
| Operation analysis | `trace_proc/trace_split/vfs_op_trace_entry.py` | in-flight clusters, dependencies | one pass over the trace | `CacheSim` |
| Crash plans and images | `crash_plan/crash_plan_scheme_2cp.py`, `..._comb.py`, `executor/guest_side/generate_crash_image.py` | list of plans | generate, write the image | `CrashPlans` |
| ssh configurations | `vm_mgr/ssh_config.py`, `socket_port.py` | two pools, `~/.ssh/config` | alloc, dealloc, destroy | `SSHConfigPool` |
| VM manager | `vm_mgr/vm_mgr.py`, `vm_instance.py` | live and dead VMs, VNC numbers, images | create, start, kill, reclaim | `VMMgr` |

The file systems under test:

| Part | Source | State | Operations | Module |
|---|---|---|---|---|
| Persistent memory | (hardware; used through `pmfs_flush_buffer`, `nova_flush_buffer`, `PERSISTENT_BARRIER`) | lines with the values a failure can leave | store, write back, fence, power failure | `PMem`, `FsMachine` |
| What users are promised | (the oracle of the crash images) | a tree | calls, failure, recovery | `Vfs` |
| PMFS journal | `journal.c` | header, circular entries, transactions | begin, log, commit, abort, clean, recover | `PmfsJournal` |
| PMFS | `balloc.c`, `inode.c`, `namei.c`, `dir.c`, `xip.c`, `file.c`, `super.c`, `bbuild.c` | block list, inode table, trees of blocks, truncate list | every call that changes names, sizes or contents; evict, unmount, mount | `PmfsBalloc`, `PmfsInode`, `PmfsNamei`, `Pmfs` |
| WineFS allocator | `balloc.c` | per-CPU lists of small ranges and huge pages | allocate with retry, free | `WinefsBalloc`, `WinefsAlloc` |
| WineFS | as PMFS | as PMFS; name trees and inode ranges in memory | as PMFS, with copy-on-write and huge-page faults | `WinefsInode`, `WinefsNamei`, `Winefs` |
| NOVA | `log.c`, `gc.c`, `journal.c`, `inode.c`, `file.c`, `dax.c`, `dir.c`, `namei.c`, `symlink.c`, `rebuild.c`, `bbuild.c`, `balloc.c`, `super.c` | a log per inode, headers in memory, lite journal, free list | as PMFS; both garbage collectors; rebuild of an inode | `NovaLog`, `NovaInode`, `NovaNamei`, `Nova` |

**How the parts interact.** Host and guests share nothing but memcached keys:
the guest stores its state, its heartbeat, the case it began (`<vm>.start`) and
ended (`<vm>.end`) and the operations it claimed (`<vm>.unique_indices`); all
guests increment `next_exec_list_index` and add one key per operation hash. The
host reads them, and acts on a VM by `loadvm`, by killing and booting qemu, and
by launching the guest over ssh. A guest's exception becomes a state through
`sys.excepthook`. Inside a guest, the trace of an operation goes through the
cache simulator once, and its results (which store is in flight at which fence,
which store depends on which) are what the crash-plan schemes read. The images
are then mounted by the very file systems modelled here: `PMem` is the machine
the plans of `CrashPlans` approximate, `Vfs` what an image is validated against.

**What is hard.** A VM may crash between any two memcached calls; the host sees
only keys, some of them left by an earlier launch; a request may be executed
and its reply lost; host and guest race on `<vm>.state` while a guest starts; a
retest must neither repeat for ever nor lose a case; the monitor ends only if
every VM leaves its list. In the analysis, Python objects are shared and
mutated, and a crash image must be one the hardware can produce. In the file
systems, a power failure may come before any fence and keep any part of what
was not fenced, recovery may itself be interrupted, logs and journals wrap or
are collected while they are in use, and space runs out half way through a
call. `PROJECT.json` lists the hazards with their lines.

## Modules

**Campaign** (`MCCampaign` for TLC). One host, any number of VMs. A step ends
where another process can see it: at a memcached read or write, the kill of a
VM, a launch. `Poll*` are the branches of `monitor_jobs`, `RestoreVm`,
`RestartVm`, `StartGuestJob` and `MarkStarted` the functions they call (launch
and the store of `STARTED` are two steps, as in `_start_guest_job`). A guest
walks through `boot, initing, init, inited, fetch, got, trace, dedup, record,
test, end`, and `exc` when an exception is on its way to the hook. Whatever can
go wrong costs a unit of `faults`: a VM crash (`crash`, `qemu`), an exception
(`exception`), a report that is lost (`report`), a stalled host (`stall`), a
slow or silent guest (`slow`, `silence`), a failed ssh or restart (`ssh`,
`restart`), a lost reply to incr or add (`incr`, `add`), a failing memcached
call of the host (`host`). Data is abstracted: a case is its index in the
sorted list, an operation its hash, a heartbeat "set" or "none" with the
timeout as a choice. Ghosts: `runs`, `tested`, `refuted`, and the case in
`owner`.

**MemcachedLock**, **Mutex** (`MCMemcachedLock`). One action per gets and cas
of the lock. cas ids are modelled by the set `fresh` of processes whose id is
still current. `Mutex` is the lock as its users want it.

**CacheSim**, **CrashPlans** (`MCCrashPlans`). The trace of an operation is
chosen event by event (store, CAS, memory copy, flush, fence). The analysis
consumes it as `analysis_in_cache_run` does, the loop variable `op` that
shadows the fence included: while stores are in flight, what the cache accepts
at a fence is the last store the loop visited. `CrashPlans` adds the plans of
the 2cp scheme, the image of a plan (`put_cp_to_img`) and the counts of the
comb scheme, and compares them with what the hardware allows, which is defined
from the trace alone (`Durable`, `Feasible`).

**SSHConfigPool**, **VMMgr**. The pool with its file and backup, across host
processes that die; and, on top of it, the life of the base VM and the VMs of
the campaign, from `create_vm` to `clear_vm`, with qemu dying at any moment. A
failed assertion is the phase "aborted".

**PMem**, **FsMachine**, **Sequencing**. A memory keeps, for every line, the
values a power failure can still leave there: stores to one line persist in order, lines are
independent until a fence of the processor that wrote them back. `CrashImages`
are all combinations. A function of a file system is an operator from machine
states to machine states. The machine state collects in `pts` the memory as it
stood before each fence; a call is one step that either finishes or is
interrupted, in which case the device holds one of the crash images of one of
the `pts`. What a failure can leave only grows until the next fence, so these
are all the failures there are (`StoresLoseNothing`, `FenceMakesDurable`). Mounting is a call like any other, so recovery
can be interrupted too. The statements of a function follow one another with
`Then` of `Sequencing`; a LET says the same, but TLC's action statistics unfold
it at every use.

**Vfs**. Names, directories, contents, and the call made last with its
arguments. `Done(c)` is what call `c` does to the tree. A call that reports success
has done that, a call that reports an error has changed nothing (a file system
then sets `call` to `Idle`), and eviction, unmount and an inode read again change
nothing. After a power failure the call it interrupted, and no other, is there as a
whole or not at all (`RecoverWhole`), and only data overwritten in place may be
there in part (`Torn`). NOVA is checked against `RecoverWhole`, PMFS and WineFS
against `Recover`. For WineFS, `StrictWrites` then excludes torn writes. `call` is a
history variable: no action of a file system reads it. `MCView` hides it from TLC
while the power is on, which merges states whose successors are the same: only the
step of `Vfs` from a failure to the next mount looks at its old value, and every
transition is checked with its new one.

**PmfsJournal** (`MCPmfsJournal`). The journal alone, with concurrency: tasks
that begin, log, commit and abort, each flushing sequence step by step on its
own processor, the cleaner thread, unmount, failure, and recovery that may fail
in turn. The loops of `pmfs_clean_journal` and `pmfs_recover_undo_journal` are
taken round by round, with their locals in `loop`, because other tasks go on
writing entries meanwhile; what a round writes is executed before the next one.
The cells of a transaction stand for the inodes and entries it logs. A
transaction *holds* its entries (`Holds`) until its last entry, the commit or
abort record, has been written; `overrun` records that the head, or the head of
a running clean, has passed an entry somebody holds.

**PmfsBalloc, PmfsInode, PmfsNamei, Pmfs** (`MCPmfs`). The file system over a
journal that holds one transaction at a time (the calls of `Pmfs` are taken one
after the other; what concurrent transactions do to each other is the question
of `PmfsJournal`). A block is `Units` words, an inode's block type 4K or
`Large` times that, pointer blocks have `Fanout` pointers. `broken` records the
*gaps* described below.

**WinefsBalloc, WinefsAlloc** (`MCWinefsAlloc`). The lists as the code keeps
them: a walk of ranges in which the first node is remembered by pointer, huge
pages in a tree of their own. Each section under a list's mutex is one step,
the unlocked look at the lists in between another.

**WinefsInode, WinefsNamei, Winefs** (`MCWinefs`). WineFS in strict mode on one
CPU, over the lists of `WinefsBalloc`. Uninitialised locals that the code reads
(`nr` of a sparse read) are choices.

**NovaLog, NovaInode, NovaNamei, Nova** (`MCNova`). Logs are chains of pages of
`Units` entries whose last one links to the next page; the tail is the commit
point. An append that finds its log full extends it and may run the fast or the
thorough collector. Header and name tree of an inode are built by
`nova_rebuild_*` whenever it is read, after a mount or after it was dropped
from memory. The lite journal covers the calls on two inodes.

### Gaps

The file systems do not keep their promise everywhere. Where the code enters
such a place, the model follows it and adds its name to the history variable
`broken`; the properties hold as far as the named gaps do not excuse them, and
each property says which. Behaviours are followed through a harmless gap, and
up to the mount after a harmful one (WineFS, NOVA: `Harm`; WineFS does not even
mount after `inodelist`). What lies behind a gap is therefore not covered: an
interrupted thorough collection or `rmdir` on NOVA by none of the properties of
`nova` (the first is what `nova_gc_interrupted` is about), a stale inode list on
WineFS by `BlocksSafe`, a journal that overran a transaction by `CrashAtomic` and
`JournalSound`, a truncate list that was cut off, or a leaked block, by
`NothingLost`. The notes of the hazards in `PROJECT.json` say so one by one.

| | Gap | Where | What happens |
|---|---|---|---|
| PMFS | links | `namei.c:768-773` | a directory renamed over another leaves the link count of the old parent |
| | list | `super.c:571` | recovery stops at the first inode of the truncate list that is gone; later ones are never freed |
| | unlisted | `inode.c:1373-1378` | truncating an unlinked open file takes it off the truncate list; a crash leaks it |
| | short | `xip.c`, `file.c` | a write or allocation that runs out of space is kept in part and not flushed |
| | beyond | `xip.c` | an interrupted append leaves data after the end that a later extension exposes |
| | leaked | `namei.c`, `inode.c` | a name operation out of space keeps the block it took for a taller tree |
| WineFS | oops | `balloc.c`, `inode.c` | a list's first node is freed and used again, or a tree is left half built: the kernel stops |
| | refused, replaced | `inode.c`, `xip.c` | allocation over holes and data frees what it must not, or replaces blocks that were there |
| | short, beyond, links, list, unlisted | | as in PMFS |
| | inplace | `xip.c` | the fast path of copy-on-write overwrites in place |
| | tail | `xip.c` | a strict write that ends in the middle of a block at or after the end keeps what the block held |
| | inodelist | `bbuild.c:461-479`, `1374-1378` | the saved inode list keeps a stale root |
| NOVA | gc | `gc.c:395-411` | the switch to a collected log is not ordered after its last link (see the finding) |
| | oops | `rebuild.c`, `bbuild.c`, `journal.c` | a walk meets a null page or an unknown entry and stops at `BUG()` |
| | short | `namei.c` | calls out of space leak an inode number or leave a name in memory |
| | beyond | `inode.c` | truncation commits the size before it zeroes the rest of the block |
| | inodelist | `bbuild.c:476-479` | without space for it, the list of an earlier unmount stays |
| | rmdir | `namei.c:620-650` | two commits, not one |
| | undo | `journal.c:166-187` | entries are undone and the journal is reset in one fence epoch |
| | stale | `rebuild.c:423` | a log with a tail and no head leaves an old tail in memory |
| | dangling | `bbuild.c:186-194`, `579-583`, `1573` | the block list was saved and the inode list was not: the fallback scans with free lists whose counts and first nodes were never reset |
| | size, keep | `file.c:172-356` | an allocation in place that extends the size, or blocks kept after the end, are not what a rebuild finds |
| | symlink | `symlink.c`, `inode.c` | the block of a symbolic link is never freed |
| | listed | `namei.c:462-466`, `dir.c:695` | a listing shows a name whose unlink was interrupted |

## Runs

Every passing run has a mutant for each of its properties in `PROJECT.json`: a
plausible slip in the code under which the property fails.

| Run | Instance | Shows |
|---|---|---|
| `campaign_safety` | 2 VMs, 2 cases sharing a hash, 2 faults of every kind but a lost reply to add | `CaseExclusive`, `RunsBounded`, `OnlyOwnerTests`, `ClaimsTested`, `AllTestedOnce` |
| `campaign_faults` | 1 VM, 5 cases (one failing, one with kernel-log errors), 4 faults of all 12 kinds | `TypeOK`, `NoDoubleLaunch`, `CompleteIsDone`, `NoCaseForgotten` |
| `campaign_liveness` | 1 VM, 3 cases, 3 faults | `CampaignEnds` |
| `lock_safety` | 3 processes, 3 tries, lost gets and acquires | `MutualExclusion`, `IsMutex` (refinement of `Mutex`) |
| `plans` | 2 lines, 2 slots, all traces of 5 events | `ClustersSound` (which store is in flight at which fence), `ImagesFeasible`, `CombCountsImages` (the comb scheme counts the images that can be left, and misses some exactly when a store is flushed only after a later fence) |
| `vms` | base VM and 4 VMs, run limit 4, 6 ports, pool of 5, 4 faults, a second host process | `PoolSound`, `NoSharing`, `VncConserved`, `CleanUp`, `Ends` |
| `pmfs_journal` | 2 tasks, 2 cells, 8 entries, generations up to 4, 1 failure and 1 during recovery | `CrashAtomic`, `JournalSound` (`OpenLogIntact`), `UnmountEmptiesJournal` |
| `pmfs` | 14 blocks, 4 prepared devices, 2 calls, 1 failure and 1 while mounting | `BlocksSafe`, `NothingLost`, `Consistent` (link counts, reads, seeks), `ImplementsVfs` (refinement of `Vfs`) |
| `winefs_alloc` | 12 blocks, lists of 2 CPUs, 2 threads, 3 calls | `ListsSound` (blocks conserved, counters exact), `LoneCallServed`, `CallsReturn` |
| `winefs` | 18 blocks, 6 prepared devices, up to 2 calls, 1 failure and 1 while mounting | as `pmfs` with the name trees in `Consistent`, and `StrictWrites` |
| `nova` | 18 blocks, 11 prepared devices, up to 2 calls, 1 failure and 1 while mounting | as `pmfs` with listings in `Consistent` and interrupted writes whole in `ImplementsVfs`, and `RebuildAgrees` |
| `nova_gc_interrupted` | the same | violates `LogSwitchIsAtomic` |

**Bounds.** *Campaign.* Faults interact only through what they leave in the
keys of a VM, the counter and the retest count, so two faults on two VMs and
four on one reach every pair of recoveries, the last permitted retest and the
one after it. Two cases that share a hash and one that does not are what
deduplication tells apart. *Plans.* Five trace events fit two stores, a flush
and two fences, or a store that survives two fences; two slots of one line tell
an overwrite from a neighbour. *VMs.* The VMs may exceed the run limit by one,
and ports the pool by one. *Journal.* Eight entries make two open transactions
wrap, fill the journal and wait; four generations make the counter wrap (1252613
states). One power failure and one more during the recovery; two failures with a
mount between them hold as well for two transactions in eight entries (6011152
states) and for three in four entries, with generations up to 3 and up to 4
(8090951 states).
*Allocator.* Three calls of two threads let one empty or refill a list between
two locked sections of another. *File systems.* A call is deterministic in the
device, so a power failure needs one call before it, one call to interrupt and
one mount to interrupt; what takes many calls to reach (a file with a hole,
unlinked files still open, a log that is full with pages worth collecting, a
device with few blocks left) is an initial state made by the calls themselves.
Two names, one or two values suffice because a third name behaves like the second;
extents and sizes cross, touch and miss block borders, and a block holds two
units (NOVA: three entries to a log page), so that partial blocks and partial
pages occur. Trees of blocks get two pointers per block and reach height 2.

Names, values, VMs, tasks and cells are permuted by symmetry in the safety runs
only. Deadlock is not checked where the system may stop: the campaign ends, and
behaviours of the file systems end at their bounds, or in `oops`; `plans`
checks it.

**Fairness.** `campaign_liveness` assumes that the host loop goes on (it is a
loop with a one-second sleep), that a guest that is alive goes on, and that a
VM polled for ever in STARTED, or with a heartbeat key that never changes, is
timed out at some poll, because the host's clock advances with every poll
(strong fairness of the two timeouts). It leaves out two faults under which
the code does not end, both listed as hazards: a lost exception report, which
leaves a beating heartbeat behind, and a crash in INITING before the heartbeat
exists. `vms` assumes only that the host goes on. `winefs_alloc` assumes that a
thread inside a call goes on: it waits for nothing but a mutex that is held for
a bounded time.

### Where the code and its comments disagree

`nova_gc_interrupted` must find a violation. `nova_inode_log_thorough_gc`
announces "Step 2: Atomically switch to the new log" (`gc.c:398`). The copied
entries are durable by then: `memcpy_to_pmem_nocache` (`gc.c:374`, `nova.h:267`)
fences each of them. The link from the last copied page to the tail page
(`gc.c:395`) is only flushed, and no fence comes before the new head is stored
(`gc.c:400`). When the head persists and the link does not, the next mount walks
to the end of the last copied page, finds no successor and stops at `BUG()`.

### Observations

Other places where the models show something a maintainer should know; those
that a property meets are its named gaps or preconditions.

*Campaign and tool.* A poll between `INITED` and `RUNNING` gives up a healthy
VM. A case that failed validation is run again if the relaunched guest crashes
before its next case. A guest dead in INITING before its first heartbeat is
polled for ever; with one, the heartbeat is checked in INITING too. A crash
between the increment and `<vm>.start` loses a case, one between claiming
hashes and recording them loses the operations. `sys.path.basename` raises on
the kernel-log error path and ends the guest. A release whose reply was lost is
repeated and frees somebody else's lock; a lost reply to acquire leaves a lock
nobody holds; a missing key raises instead of returning False. A store that
survives a fence is counted in flight again; the comb scheme replays the Store
objects of the analysis with the flush states they got there, so it forgets a store
at the first fence after it if it is flushed at any later time, and its count of
images is then too small (store, fence, flush, fence); duplicate flushes and fences are
missed while stores are in flight, a copy over two lines counts as persisted
with its first line. `destory_pool` does not count reused configurations; short
of space, `create_vm` reclaims the image of the base VM.

*PMFS.* The cleaner skips entries that are reserved and not yet written, so the
journal can overrun a transaction (`overrun`), an open one or one whose commit
or abort record is still to be written. A new tail and the first entry written
behind it become durable in any order; when only the entry does, the next
mount finds head equal to tail, does not advance the generation and leaves the
entry valid where the next transaction will write (`leftover`: with the current
generation behind the tail, or with the next one before it). An entry
half written over it is then taken for a whole one, with the new address and the
old data. Special inodes are never freed after a
crash. `pmfs_create` returns 0 when no inode is left (a full device whose table
of inodes is full too; the runs do not fill both).

*WineFS.* Block counts are reduced twice on truncation; a failed
`increase_btree_height` is ignored; a sparse read uses `nr` before it is set
(`xip.c:54-79`); runs over two lists are dropped with `-EIO`
(`balloc.c:878-887`, `leaked`); a last block that is the first of a huge page is
counted and in no tree (`balloc.c:229`); the remembered first node is not always the
lowest. An allocation that starts at a first node with free nodes to its left
misses them; the counter of that list may still be the largest, so both retries
go to it and the call fails with `-ENOSPC` although another list has blocks (one
thread, six calls).

*NOVA.* `nova_remove_dentry` and `nova_rename` use the address of an old entry
after an append that may have collected its page (`dir.c:413-455`,
`namei.c:778-898`); a failed rename leaves `last_link` after the tail; setattr
entries that set a size are never invalid; a failed write leaves the counter of
a page too high.

## Proofs

The theorems hold for every value of the constants their module's assumption
allows: every set of VMs, list of cases, options, fault kinds and number of
faults (`CampaignAssumption`), every number of processes and tries
(`LockAssumption`), every pool of configurations and number of VMs, faults and
hosts (`PoolAssumption`, `MgrAssumption`), every set of lines, slots, kinds of
writes and length of a trace (`CacheAssumption`), every number of blocks, lists
and threads and size of a huge page (`WinefsAllocAssumption`), every set of
threads and cells, size of the journal, largest generation and number of power
failures (`JournalAssumption`). Each inductive invariant was
checked by TLC on the bounds of the module's run before it was proved (that of the journal with five entries).

- `Campaign_proofs`: `CampaignTypes`, `Spec => []TypeOK`. `TypeOK` is not
  inductive: a guest in a case has a case, one that is to raise has a state to
  report. `Typed` adds that (`LocalsBound`), with one lemma per group of actions.
  Also there: `CampaignSafety`, `Spec => []IInv`, and from it
  `CampaignCaseExclusive`, `CampaignRunsBounded`, `CampaignNoDoubleLaunch`.
  `IInv` is `Typed` and
  - `LaunchSafe`: at a launch the VM has no guest process and no heartbeat
    thread, because the host has just killed the guest or, in `start_all_jobs`,
    there has never been one;
  - `RetestConsumed`: a guest that has entered its loop has no case left to
    retest;
  - `Custody`, the heart of the argument. A case is *held* by a VM whose guest
    works on it or was told to retest it, whose `<vm>.start` key names it
    (whether or not that run has finished), or which the host is about to launch
    with it. Every case has at most one holder (`OneHolder`); what is held has
    left the shared list and the command line (`HeldIsTaken`); what is still
    there has never been run (`UntakenIsFresh`); a case has at most one run more
    than it has retests, those stay within the threshold, and a run that has
    been decided but has not begun is already paid for (`RunsPaid`); a case
    named on the command line comes with `--num_cases_to_test 0` (`ArgAlone`).
    Exclusion follows because a guest that works on a case holds it; the bound
    on runs from `RunsPaid`.
- `CampaignCases_proofs`: what becomes of the cases and of the hashes they claim.
  - `CampaignOnlyOwnerTests`: a guest tests an operation only after its claim
    succeeded, and a claim never changes hands (`OwnerInv`).
  - `CampaignNoCaseForgotten`, an action property, and `CampaignCompleteIsDone`:
    a case that is neither finished nor out of retests is in the shared list, on
    a command line, or held (`KeptInv`). Both assume `OnePath`: a case to retest
    that is not under the first path of `EXEC_FILES` is dropped by
    `_init_test_cases`, which TLC shows with a list of two paths.
  - `CampaignClaimsTested`: what an ended case claimed it tested (`ClaimInv`),
    unless the reply to a claim was lost; `CampaignAllTestedOnce`: in a campaign
    without faults every operation of an ended case is claimed, by a case that
    has tested it (`CoverInv`).
- `VMMgr_proofs`: `MgrPoolSound`, `MgrNoSharing`, `MgrVncConserved`,
  `MgrCleanUp`. None is inductive alone. `IInv` adds where each configuration is
  (`GivenOK`: the pool gives one to a VM being made or to one in a list, never
  to two), what the lists hold (`ListsOK`), which numbers are free (`PortsOK`)
  and how far each loop of `start_vms`, `del_dead_vms` and `clear_vm` has come
  (`PhaseOK`); while a host is being killed by an exception nothing is known of
  the lists, which the next host makes anew. Removing VMs from a list is a
  filter, written as a recursive function of the length (`KeptUpTo`): its facts
  are proved by induction, in the form that the set of lengths for which they
  hold contains 0 and is closed under successor.
- `CrashPlans_proofs`: `PlansAlwaysMade` (no store is without a cluster, so
  `generate_crash_plans` never raises), `PlansClustersSound` and
  `PlansImagesFeasible`. `IInv` states what the simulated cache and the two
  tables mean in terms of the trace, by way of `Secured`: the first line of the
  store was flushed after it and a fence followed. It holds for every trace, in
  spite of the fence that does not reach the cache while stores are in flight:
  that loss costs nothing because the stores it should have persisted have been
  written back. Two hypotheses then say where the tables and the images are
  right:
  - `ClustersSound` needs `FirstLineTells`, no copy over several lines that does
    not flush itself: with `nonatomic_as_one` the cache sees such a copy in its
    first line only, and TLC finds the table wrong after a copy over two lines,
    a flush of the first and a fence;
  - `ImagesFeasible` needs `Spans = {}`: the plan that leaves a store out leaves
    out the later stores inside its lines, but not a copy that begins there and
    ends in the next line, and TLC finds the image that has the copy without
    the store. A "self" image is one the power failure right after
    the store can leave; an "other" image one that it can leave just before the
    fence that makes the store durable, or at the end if none does.
- `MemcachedLock_proofs`: under `WellUsed` (one initialiser, no lost reply to a
  release) `LockExcludes` (`MutualExclusion`) and `LockImplementsMutex`
  (`Spec => IsMutex`, the safety part of the refinement). The invariant says
  that the key is LOCKED while somebody owns it, and that a process about to
  cas with a current id read UNLOCKED. The second half of `WellUsed` is needed:
  a release that is repeated after a lost reply frees the next owner's lock.

- `WinefsAlloc_proofs`: `AllocListsSound`, `ListsSound` for threads that allocate
  and free on the lists at the same time. The proof has three layers.
  - One list: `Trees` says that ranges and huge pages lie in the region of the
    list, apart from each other, and that their counters are right.
    `AllocGrants`: an allocation takes exactly the run it returns, on each of its
    ways out (superpage, a huge page broken up, a whole node, part of one,
    refusal). `RoundFrees`: a round of a free adds exactly its run, wherever the
    search in a walk that may be out of order ends, and whether it links a node,
    grows a neighbour, merges two or splits pages off into the huge tree. A
    remembered first node that is wrong or freed does not matter to any of it:
    such a list is sound, only its blocks are not found.
  - Sets of blocks: `Parts` says that callers, threads that free, failed frees
    and lists share no block and own the device between them. Each operation
    moves one set from an owner to another (`PartsGranted`, `PartsGiven`,
    `PartsFreed`, `PartsLeaked`). Two lists stay apart because each keeps to its
    region and regions do not meet.
  - `IInv` joins the two with the number of free blocks and the shape of the
    calls: a run in flight lies within what `pmfs_free_blocks` has tested,
    because the bound is tested with the whole length in every round.

  The hypothesis `LastBlocksListed` (no list ends with the first block of a huge
  page) is needed: `pmfs_init_blockmap` counts such a block as free and links it
  in neither tree (`balloc.c:229`, `:237`), and TLC finds `ListsSound` false in
  the initial state with 10 blocks, 2 lists and pages of 2 blocks.
- `WinefsServed_proofs`: `AllocLoneServed`, `LoneCallServed` under the same
  hypothesis. To `IInv` the invariant adds `Rest`:
  - `Firsts`: the remembered huge page is the lowest of its tree (`HugeLow`), and
    in a list that was never out of order the walk is sorted and the remembered
    node is its first (`Ready`). `AllocReady` shows this of every way out of an
    allocation, and that 4K blocks are refused only by an empty list;
    `RoundReady` of every round of a free that leaves the walk in order.
  - `AloneInv`: while a thread is alone in a call, the lists do not change under
    it, so what its scan has seen is still true (`Learnt`): `most` is the largest
    counter of the lists before `i`, `holes` a list with enough. Back at the
    check, the list has enough or is the fullest (`Picked`); if it has nothing,
    no list has.

  An out-of-order list with blocks has to excuse the call whatever the other
  lists hold: with `Threads = {t1}`, `Nums = {1}`, `Runs = {1, 2}` and
  `MaxCalls = 6` TLC shows a call refused while another list has blocks (see the
  observations). Three calls, the bound of
  `winefs_alloc`, are too few to meet the case, the theorem needs no bound; as
  stated, the property also holds for one thread and seven calls (235290 states).

- `PmfsJournal_proofs`: `JournalIsSound`, `Spec => []JournalSound`: the header, the
  entries and the cells hold values of their types whatever a power failure left
  of them, and until the journal overruns a transaction the undo entries of an
  open one are as `pmfs_add_logentry` wrote them. `IInv` has six parts:
  - `Types`: every line, and every value of a line that a failure could leave
    (`MemOK`), so that recovery starts from a well-formed journal;
  - `Control`: the mutex belongs to the thread that waits for room or to the
    cleaner, a clean runs only under it and its tail is still the journal's, and
    the recovery loop runs only while recovering;
  - `Programs`: each write still to be executed, by what it may touch. A clean
    invalidates entries it has passed (`Passed`) and then stores the head it came
    to; a transaction writes entries it reserved and, until an overrun, cells it
    covers. This is what makes interleaved flushing sequences harmless to each
    other;
  - `Transactions`: the locals of a transaction agree with the header; a
    reservation never reaches the end of the array, so none wraps; between logging
    a cell and changing it comes the fence (`Shape`);
  - `CellsApart`: running transactions share no cell (the inode locks of the
    callers; a guard of `NewTransaction`);
  - `Safe`: without an overrun, reserved entries lie between head and tail and
    share none with another transaction (`RangesApart`), the log of an open
    transaction is as written but for an entry being written (`LogOf`), and cells
    without an entry have their old values (`OldOf`), without which the next entry
    would not record the value the transaction found.

  There is one lemma per action (`NewTransactionOK` to `StepOK`). The delicate
  ones are `ReserveOK` (the range behind the tail meets no other, although the
  room was computed from a head read before the journal was cleaned, because an
  overrun would show in `ReservedKept`) and `CleanRoundOK` (what a round
  invalidates has been passed, whatever entries it read). That the
  searches of the cleaner and of recovery stop at all, `Min` and `Max` of a set of
  positions, rests on the well-foundedness of the natural numbers. The proof showed `overrun` to be stated too weakly at
  first: it has to count transactions that commit or abort, whose last entry
  is still to come.

  The last section is about `PMem`, for any lines, values and processors:
  `StoresLoseNothing` (stores only add crash images), `ClwbLosesNothing` (a
  write-back alone changes none) and `FenceMakesDurable` (a fence only takes
  images away, and all that remain have what its processor wrote back). They are
  what allows `FsMachine` to look at the memory only before each fence, and
  `Exec` to take the stores of one entry in one step. Their hypothesis `Kept` (the
  last value of a line is the one read) holds of `Fresh` and is kept by all three.

Only model-checked: the liveness properties (`CampaignEnds`, `Ends`,
`CallsReturn`: the prover has no support for fairness), `CombCountsImages` (a
count of sets, by an induction over folds with operator arguments), `CrashAtomic` and
`UnmountEmptiesJournal` (which need to know of every entry between head and tail
whose it is, long after its transaction has returned, and `CrashAtomic` this of
every image a failure can leave), and the properties of the
three file systems, whose operations are long sequences of operators on trees
and logs.

## Not modelled

`PROJECT.json` lists each part with its reason. In short:

- of the tool, what only moves bytes or strings: mounting, copying files, result
  records, logging, the trace reader, the tracing pass and its kernel runtime,
  the source tools, the workload generator, the scripts that read results, and
  the comparison of an image with its oracle; the mechanism reasoning, a pattern
  match on names of variables and structures of the traced file system, and the
  schemes built on it; of the host `--stop_after_vms` and shuffled lists; of the
  conversion to atomic operations, splitting or sampling a copy;
- of the file systems, mmap (but WineFS's huge-page fault), direct I/O, ioctl,
  extended attributes, mount options, permissions, times; concurrency of calls
  (but for the journal of PMFS and the allocator of WineFS), WineFS with more
  than one CPU and its NUMA pools; NOVA's checksums, parity, replicas and
  snapshots: the model is of plain NOVA, the defaults of the module
  (`metadata_csum`, `data_csum` and `data_parity` 0, the alternative that
  `fs_conf/nova/env_nova.py:27` keeps in a comment), while the tool loads
  NOVA-Fortis with all three at 1 (`env_nova.py:28`). Writes are copy-on-write, as
  the tool mounts it (`data_cow`);
- smaller things: a call of `mc_incr_wrapper` that loses all its five replies and
  raises; in `PmfsJournal` the redo log (`pmfs_journal_hard_init` sets
  `redo_logging` to 0 and nothing sets it to 1) and the `BUG_ON` for a commit record
  with the id of a transaction that recovery takes for uncommitted
  (`journal.c:225`); recovery undoes one transaction in one step; in `Pmfs` `EMLINK`
  (a link count at its limit) and the `-EAGAIN` of a full journal, which needs
  concurrent transactions and which `PmfsJournal` has.

## Plan

1. proofs: `UnmountEmptiesJournal`, from `IInv` and a history of which transaction
   wrote each entry;
2. concurrent calls on NOVA (per-inode locks, the lite journal per CPU), and
   WineFS on two CPUs;
3. the mechanism-aware schemes on top of `CrashPlans`: every store protected or
   planned for, every image feasible;
4. the kernel runtime (`KernelTracing.c`): disjoint buffer ranges and unique
   sequence numbers under interleaved threads, and a buffer at its end.

------------------------------ MODULE CacheSim ------------------------------
(***************************************************************************)
(* The cache simulation of one file-system operation: the trace of its     *)
(* persistent-memory events is replayed through WitcherCache               *)
(* (witcher_cache.py, atomic_op.py) by OpTraceEntry.analysis_in_cache_run  *)
(* (vfs_op_trace_entry.py), which records at every fence the stores in     *)
(* flight and those about to be persisted: the in-flight clusters that the *)
(* crash-plan schemes read.                                                *)
(*                                                                         *)
(* The trace is chosen event by event.  An event's place in the trace is   *)
(* its sequence number.  Addresses are a cache line and an 8-byte slot of  *)
(* it.  A store of one slot is one atomic Store; a memory copy or memset,  *)
(* which may cover several lines, is with nonatomic_as_one the Store of    *)
(* its first 8 bytes (convert_entry_list).  A CAS and a non-temporal copy  *)
(* are followed by a flush of their lines with the same sequence number    *)
(* (get_entry_list_from_line), and a flush covers exactly one whole line.  *)
(***************************************************************************)
EXTENDS Naturals, Sequences, FiniteSets, FiniteSetsExt

CONSTANTS
    Lines,      \* cache lines, numbers in address order
    Slots,      \* the 8-byte slots of a line
    Kinds,      \* the kinds of writes the trace holds
    Spans,      \* <<first, last>> lines of a memory copy over several lines
    MaxTrace    \* bound: the number of events of the operation

ASSUME CacheAssumption ==
    /\ Lines \subseteq Nat \ {0} /\ IsFiniteSet(Lines)
    /\ Slots \subseteq Nat \ {0} /\ IsFiniteSet(Slots) /\ Slots # {}
    /\ Kinds \subseteq {"store", "cas", "copy", "ntcopy"}
    /\ Spans \subseteq {p \in Lines \X Lines : p[1] < p[2]}
    /\ MaxTrace \in Nat \ {0}

VARIABLES
    trace,           \* the events so far
    phase,           \* "run", then "end" when the analysis has returned
    store,           \* the Store object of each sequence number
    copies,          \* how often stores_list of its line holds that object
    born,            \* when a line entered cacheline_dict, 0 if it is not there
    last_op,         \* WitcherCache.last_op
    dup_fence_list,  \* the fences reported as duplicated
    dup_flush_list,  \* the stores reported as flushed twice
    seq_clusters,    \* in_flight_seq_cluster_map
    flushing,        \* in_flight_cluster_flushing_map
    in_fight_num,    \* in_fight_store_num
    write_dep        \* write_dep_seq_map

cacheVars == <<copies, born, last_op, dup_fence_list, dup_flush_list>>
mapVars == <<seq_clusters, flushing, in_fight_num, write_dep>>
vars == <<trace, phase, store, cacheVars, mapVars>>

Seqs == 1 .. MaxTrace

Copies == {"copy", "ntcopy"}
FlushedWrites == {"cas", "ntcopy"}
Writes ==
    {e \in [op : Kinds, line : Lines, slot : Slots, last : Lines] :
        e.last = e.line \/ (e.op \in Copies /\ <<e.line, e.last>> \in Spans)}
Flushes == {[op |-> "flush", line |-> l, slot |-> 0, last |-> l] : l \in Lines}
Fence == [op |-> "fence", line |-> 0, slot |-> 0, last |-> 0]

StoreObject == [line : Lines \cup {0}, slot : Slots \cup {0},
                state : {"VOLATILE", "FLUSHED", "PERSISTED"},
                flushes : Nat, fences : Nat]
NoStore == [line |-> 0, slot |-> 0, state |-> "VOLATILE",
            flushes |-> 0, fences |-> 0]

Init ==
    /\ trace = <<>> /\ phase = "run"
    /\ store = [s \in Seqs |-> NoStore]
    /\ copies = [s \in Seqs |-> 0]
    /\ born = [l \in Lines |-> 0]
    /\ last_op = "none" /\ dup_fence_list = {} /\ dup_flush_list = {}
    /\ seq_clusters = [s \in Seqs |-> {}]
    /\ flushing = <<>> /\ in_fight_num = <<>>
    /\ write_dep = [s \in Seqs |-> {}]

-----------------------------------------------------------------------------
(* WitcherCache.                                                            *)

Cached == {s \in Seqs : copies[s] > 0}
InState(S) == {s \in Cached : store[s].state \in S}
FlushingOps == InState({"FLUSHED"})
InFlight == InState({"VOLATILE", "FLUSHED"})
InFlightNum == MapThenSumSet(LAMBDA s : copies[s], InFlight)

\* get_cacheline_from_address: a line asked for is created if it is not there.
Touched(ls, now) ==
    [l \in Lines |-> IF l \in ls /\ born[l] = 0 THEN now ELSE born[l]]

BugFlushed(st, cp, ls) ==
    [s \in Seqs |->
        IF cp[s] > 0
        THEN [st[s] EXCEPT !.state = "FLUSHED", !.flushes = @ + cp[s]]
        ELSE st[s]]

\* Stores in the flushed lines take the flush, once for every time the line
\* holds them.
Flushed(st, cp, ls) ==
    [s \in Seqs |->
        IF cp[s] > 0 /\ st[s].line \in ls
        THEN [st[s] EXCEPT !.state = "FLUSHED", !.flushes = @ + cp[s]]
        ELSE st[s]]

\* A fence reaches every store of the cache; flushed ones are persisted.
Fenced(st, cp) ==
    [s \in Seqs |->
        IF cp[s] = 0 THEN st[s]
        ELSE [st[s] EXCEPT !.fences = @ + cp[s],
                           !.state = IF @ = "VOLATILE" THEN @ ELSE "PERSISTED"]]

\* The stores in the given states leave the cache, and the lines they leave
\* empty are deleted.
Kept(st, cp, states) ==
    [s \in Seqs |-> IF st[s].state \in states THEN 0 ELSE cp[s]]
LinesKept(st, cp, b) ==
    [l \in Lines |->
        IF \E s \in Seqs : cp[s] > 0 /\ st[s].line = l THEN b[l] ELSE 0]

-----------------------------------------------------------------------------
(* The analysis.                                                            *)

\* get_write_dep_seq_map: in one line, a store depends on the stores that
\* were fenced less often, and on the earlier ones of its slot.
DepsOf(s) ==
    {r \in Cached \ {s} :
        /\ s \in Cached
        /\ store[r].line = store[s].line
        /\ \/ store[r].fences < store[s].fences
           \/ store[r].slot = store[s].slot /\ r < s}
MergedDeps == [s \in Seqs |-> write_dep[s] \cup DepsOf(s)]

\* One more cluster: the stores in flight belong to it, and the flushed ones
\* are persisted at its end.
ClusterNum == Len(in_fight_num) + 1

ClustersOf(s) == seq_clusters[s] \cup IF s \in InFlight THEN {ClusterNum} ELSE {}
RecordCluster ==
    /\ seq_clusters' = [s \in Seqs |-> ClustersOf(s)]
    /\ in_fight_num' = Append(in_fight_num, InFlightNum)
    /\ write_dep' = MergedDeps

Store(e) ==
    LET s  == Len(trace) + 1
        nt == e.op \in FlushedWrites
        cp == [copies EXCEPT ![s] = @ + 1]
        st == [store EXCEPT ![s] = [NoStore EXCEPT !.line = e.line,
                                                   !.slot = e.slot]]
    IN  /\ phase = "run" /\ s \in Seqs
        /\ trace' = Append(trace, e)
        /\ copies' = cp
        /\ store' = IF nt THEN Flushed(st, cp, e.line .. e.last) ELSE st
        /\ born' = Touched(IF nt THEN e.line .. e.last ELSE {e.line}, s)
        /\ last_op' = IF nt THEN "flush" ELSE "store"
        /\ UNCHANGED <<phase, dup_fence_list, dup_flush_list, mapVars>>

Flush(e) ==
    LET s == Len(trace) + 1
    IN  /\ phase = "run" /\ s \in Seqs
        /\ trace' = Append(trace, e)
        /\ store' = Flushed(store, copies, {e.line})
        /\ born' = Touched({e.line}, s)
        /\ last_op' = "flush"
        /\ UNCHANGED <<phase, copies, dup_fence_list, dup_flush_list, mapVars>>

\* The loop that fills the cluster maps assigns the variable `op`, so what
\* cache.accept(op) receives after it is the fence only if nothing is in
\* flight, and otherwise the last store the loop visited.
LoopShadowsOp == InFlight # {}

\* cache.accept(fence), when the fence does reach the cache.
AcceptFence(f) ==
    /\ store' = Fenced(store, copies)
    /\ dup_flush_list' =
           dup_flush_list \cup {s \in Cached : store[s].flushes > 1}
    /\ dup_fence_list' =
           dup_fence_list \cup IF last_op = "fence" THEN {f} ELSE {}
    /\ last_op' = "fence"
    /\ copies' = Kept(store', copies, {"FLUSHED", "PERSISTED"})
    /\ born' = LinesKept(store', copies', born)

\* The store the loop visited last: any flushed one, or, if none is, the
\* youngest of the line that was created last.
YoungestLine ==
    CHOOSE l \in {store[s].line : s \in InFlight} :
        \A m \in {store[s].line : s \in InFlight} :
            born[m] < born[l] \/ (born[m] = born[l] /\ m <= l)
LastVisited == Max({s \in InFlight : store[s].line = YoungestLine})

\* cache.accept(store) in place of the fence: the store is in its line's list
\* once more.  A flushed one is written back at once with the others.
AcceptStoreAgain ==
    /\ copies' = Kept(store, IF FlushingOps # {} THEN copies
                             ELSE [copies EXCEPT ![LastVisited] = @ + 1],
                      {"FLUSHED", "PERSISTED"})
    /\ born' = LinesKept(store, copies', born)
    /\ last_op' = "store"
    /\ UNCHANGED <<store, dup_fence_list, dup_flush_list>>

FenceEvent ==
    LET f == Len(trace) + 1
    IN  /\ phase = "run" /\ f \in Seqs
        /\ trace' = Append(trace, Fence)
        /\ RecordCluster
        /\ flushing' = Append(flushing, FlushingOps)
        /\ IF LoopShadowsOp THEN AcceptStoreAgain ELSE AcceptFence(f)
        /\ UNCHANGED phase

\* The end of the operation: a cluster for what is left in the cache, then
\* the flushed stores are written back and the others are the unflushed ones.
EndOfOp ==
    /\ phase = "run"
    /\ phase' = "end"
    /\ RecordCluster
    /\ copies' = Kept(store, copies, {"FLUSHED"})
    /\ born' = LinesKept(store, copies', born)
    /\ flushing' = flushing \o <<FlushingOps, InFlight \ FlushingOps>>
    /\ UNCHANGED <<trace, store, last_op, dup_fence_list, dup_flush_list>>

Next ==
    \/ \E e \in Writes : Store(e)
    \/ \E e \in Flushes : Flush(e)
    \/ FenceEvent
    \/ EndOfOp

Spec == Init /\ [][Next]_vars
=============================================================================

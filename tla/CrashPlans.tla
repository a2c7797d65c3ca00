----------------------------- MODULE CrashPlans -----------------------------
(***************************************************************************)
(* What is done with the in-flight clusters of CacheSim: the "2cp" scheme  *)
(* (crash_plan_scheme_2cp.py) makes two crash plans for every store of the *)
(* operation, put_cp_to_img (generate_crash_image.py) turns a plan into    *)
(* the stores that reach the crash image, and the "comb" scheme            *)
(* (crash_plan_scheme_comb.py) counts the images at every fence by         *)
(* replaying the same Store objects through a new cache.                   *)
(*                                                                         *)
(* The images are compared with what the hardware allows: a store is       *)
(* durable once all its lines were flushed and a fence followed, and the   *)
(* stores of one line reach memory in program order (TSO).                 *)
(***************************************************************************)
EXTENDS CacheSim

VARIABLES
    plans,   \* cp_entry_list of the 2cp scheme
    pos,     \* the next event the comb scheme replays
    combs    \* the counts of the comb scheme: fence, stores, num_cp_entries

allVars == <<vars, plans, pos, combs>>

PlansInit == Init /\ plans = {} /\ pos = 1 /\ combs = {}

Analyse == phase = "run" /\ Next /\ UNCHANGED <<plans, pos, combs>>

-----------------------------------------------------------------------------
(* The 2cp scheme.                                                          *)

IsStore(e) == e.op \in Kinds
Stores == {s \in DOMAIN trace : IsStore(trace[s])}

\* get_pm_ops_by_addr_range over the lines of s: the stores inside them.
SameLines(s) ==
    {r \in Stores : trace[s].line <= trace[r].line /\ trace[r].last <= trace[s].last}

PersistedBefore(k) == UNION {flushing[c] : c \in 1 .. (k - 1)}

BugTsoBefore(s, set) == {}

TsoBefore(s, set) == {r \in SameLines(s) : Min(set) < r /\ r < s}

\* 1. this store, what was persisted before it, and what it depends on.
PersistSelf(s) ==
    LET base == {s} \cup PersistedBefore(Min(seq_clusters[s])) \cup write_dep[s]
        set  == base \cup TsoBefore(s, base)
    IN  [kind |-> "self", seq |-> s, start |-> Min(set), persist |-> set]

TsoAfter(s) == {r \in SameLines(s) : r > s}

\* 2. every store that is persisted when this one would be, except this one
\* and those that come after it.
PersistOther(s) ==
    LET all == PersistedBefore(Max(seq_clusters[s]) + 1) \ {s}
        set == {r \in all : ~(r > s /\ s \in write_dep[r])} \ TsoAfter(s)
    IN  [kind |-> "other", seq |-> s, start |-> Min(set \cup {s}),
         persist |-> set]

\* generate_crash_plans; a store without a cluster raises
\* GuestExceptionForDebug.
Generate2CP ==
    /\ phase = "end"
    /\ IF \E s \in Stores : seq_clusters[s] = {}
       THEN phase' = "raised" /\ UNCHANGED plans
       ELSE /\ phase' = "planned"
            /\ plans' = {PersistSelf(s) : s \in Stores}
                            \cup {PersistOther(s) : s \in Stores}
    /\ UNCHANGED <<trace, store, cacheVars, mapVars, pos, combs>>

\* A plan for a memory copy samples it: the image gets 8 bytes of it.
Sampled(p) == trace[p.seq].op \in Copies

\* put_cp_to_img: everything before start_seq, the stores of the plan, and a
\* sample of the store itself if the plan has one.
Image(p) ==
    {r \in Stores : r < p.start \/ r \in p.persist \/ (r = p.seq /\ Sampled(p))}

-----------------------------------------------------------------------------
(* The comb scheme: a second pass over atomic_op_list, whose Store objects  *)
(* the analysis has used already, with a new cache.                         *)

StartComb ==
    /\ phase = "end"
    /\ phase' = "comb"
    /\ copies' = [s \in Seqs |-> 0]
    /\ born' = [l \in Lines |-> 0]
    /\ last_op' = "none" /\ dup_fence_list' = {} /\ dup_flush_list' = {}
    /\ UNCHANGED <<trace, store, mapVars, plans, pos, combs>>

LineCount(l) ==
    MapThenSumSet(LAMBDA s : copies[s], {s \in Cached : store[s].line = l})

BugCombNum ==
    MapThenSumSet(LAMBDA L : MapThenFoldSet(LAMBDA x, y : x * y, 1, LineCount,
                                            LAMBDA S : CHOOSE x \in S : TRUE, L),
                  SUBSET {l \in Lines : LineCount(l) > 0} \ {{}})

\* The sum, over the sets of lines, of the product of their lengths.
CombNum ==
    MapThenSumSet(LAMBDA L : MapThenFoldSet(LAMBDA x, y : x * y, 1, LineCount,
                                            LAMBDA S : CHOOSE x \in S : TRUE, L),
                  SUBSET {l \in Lines : LineCount(l) > 0})

CombStep ==
    /\ phase = "comb" /\ pos <= Len(trace)
    /\ pos' = pos + 1
    /\ LET e == trace[pos]
       IN  CASE IsStore(e) ->
                  LET cp == [copies EXCEPT ![pos] = @ + 1]
                      nt == e.op \in FlushedWrites
                  IN  /\ copies' = cp
                      /\ store' = IF nt THEN Flushed(store, cp, e.line .. e.last)
                                  ELSE store
                      /\ born' = Touched(IF nt THEN e.line .. e.last
                                         ELSE {e.line}, pos)
                      /\ last_op' = IF nt THEN "flush" ELSE "store"
                      /\ UNCHANGED <<dup_fence_list, dup_flush_list, combs>>
             [] e.op = "flush" ->
                  /\ store' = Flushed(store, copies, {e.line})
                  /\ born' = Touched({e.line}, pos)
                  /\ last_op' = "flush"
                  /\ UNCHANGED <<copies, dup_fence_list, dup_flush_list, combs>>
             [] OTHER ->
                  /\ AcceptFence(pos)
                  /\ combs' = IF Cached = {} THEN combs
                              ELSE combs \cup {[fence |-> pos, stores |-> Cached,
                                                num |-> CombNum]}
    /\ UNCHANGED <<trace, phase, mapVars, plans>>

CombDone ==
    /\ phase = "comb" /\ pos > Len(trace)
    /\ phase' = "counted"
    /\ UNCHANGED <<trace, store, cacheVars, mapVars, plans, pos, combs>>

Finished == phase \in {"planned", "raised", "counted"} /\ UNCHANGED allVars

PlansNext ==
    Analyse \/ Generate2CP \/ StartComb \/ CombStep \/ CombDone \/ Finished

PlansSpec == PlansInit /\ [][PlansNext]_allVars

-----------------------------------------------------------------------------
(* What the hardware guarantees, from the trace alone.                      *)

FlushesLine(f, l) ==
    /\ trace[f].op \in {"flush"} \cup FlushedWrites
    /\ trace[f].line <= l /\ l <= trace[f].last

\* Store s is in memory whatever happens after event t.
Durable(s, t) ==
    \A l \in trace[s].line .. trace[s].last :
        \E f \in s .. t : /\ f > s \/ trace[s].op \in FlushedWrites
                          /\ FlushesLine(f, l)
                          /\ \E g \in (f + 1) .. t : trace[g].op = "fence"

Share(r, s) == trace[r].line <= trace[s].last /\ trace[s].line <= trace[r].last

\* The stores of img, and no others, may be in memory if the power fails
\* right after event t.
Feasible(img, t) ==
    /\ \A s \in img : s <= t
    /\ \A s \in Stores : Durable(s, t) => s \in img
    /\ \A s \in img, r \in Stores : r < s /\ Share(r, s) => r \in img

Fences == {f \in DOMAIN trace : trace[f].op = "fence"}
ClusterOf(f) == Cardinality({g \in Fences : g <= f})
InFlightAt(f) == {s \in Stores : s < f /\ ~Durable(s, f - 1)}

-----------------------------------------------------------------------------
(* Properties.                                                              *)

\* Types of the trace, the simulated cache, the maps of the analysis and the
\* plans; a plan persists stores of the operation and starts at one.
TypeOK ==
    /\ trace \in Seq(Writes \cup Flushes \cup {Fence}) /\ Len(trace) <= MaxTrace
    /\ phase \in {"run", "end", "planned", "raised", "comb", "counted"}
    /\ store \in [Seqs -> StoreObject]
    /\ copies \in [Seqs -> Nat] /\ born \in [Lines -> 0 .. MaxTrace]
    /\ last_op \in {"none", "store", "flush", "fence"}
    /\ dup_fence_list \subseteq Fences /\ dup_flush_list \subseteq Stores
    /\ seq_clusters \in [Seqs -> SUBSET (1 .. (MaxTrace + 1))]
    /\ flushing \in Seq(SUBSET Seqs) /\ in_fight_num \in Seq(Nat)
    /\ write_dep \in [Seqs -> SUBSET Seqs]
    /\ \A p \in plans : p.persist \subseteq Stores /\ p.start \in Stores
    /\ pos \in 1 .. (MaxTrace + 1)

\* The cluster of a fence (in_flight_cluster_flushing_map) lists exactly the
\* stores that become durable at that fence, although the fence itself does
\* not reach the cache while stores are in flight.
FlushingIsPersisted ==
    \A f \in Fences :
        flushing[ClusterOf(f)] =
            {s \in Stores : s < f /\ Durable(s, f) /\ ~Durable(s, f - 1)}

\* in_flight_seq_cluster_map gives a store the clusters from the first fence
\* after it to the one that makes it durable, and the last cluster if none
\* does: so every store has a crash plan.
ClustersSpanFlight ==
    phase \in {"end", "planned", "raised"} =>
        /\ \A s \in Stores :
               seq_clusters[s] =
                   {ClusterOf(f) : f \in {g \in Fences : s \in InFlightAt(g)}}
                   \cup IF Durable(s, Len(trace)) THEN {}
                        ELSE {Cardinality(Fences) + 1}
        /\ phase # "raised"

\* Both tables of a finished analysis are right.
ClustersSound == TypeOK /\ FlushingIsPersisted /\ ClustersSpanFlight

\* The image of a "persist self" plan holds the store, that of the "persist
\* other" plan of a store that is not sampled does not, and each is one that the
\* hardware can leave at some moment after the store: what was durable is there,
\* and no line skips an earlier store.
ImagesFeasible ==
    \A p \in plans : ~(p.kind = "other" /\ Sampled(p)) =>
        /\ (p.seq \in Image(p)) <=> p.kind = "self"
        /\ \E t \in p.seq .. Len(trace) : Feasible(Image(p), t)

\* The stores the comb scheme does not see at fence f: in flight, behind a
\* fence already, and flushed later.  Its pass reuses the Store objects of the
\* analysis, in which they are FLUSHED, so the first fence after such a store
\* takes it out of the new cache although nothing has flushed it yet.
Forgotten(f) ==
    {s \in InFlightAt(f) :
        /\ \E g \in Fences : s < g /\ g < f
        /\ \E h \in s .. Len(trace) : FlushesLine(h, trace[s].line)}
Images(f) == {img \in SUBSET {s \in Stores : s < f} : Feasible(img, f - 1)}

\* The comb scheme stops at every fence before which it sees a store in flight,
\* and then sees the stores that really are in flight but the forgotten ones;
\* the number it records is that of the images a power failure before the fence
\* can leave, and too small exactly if a store is forgotten.
CombCountsImages ==
    /\ \A c \in combs :
           /\ c.stores = InFlightAt(c.fence) \ Forgotten(c.fence)
           /\ c.num <= Cardinality(Images(c.fence))
           /\ c.num = Cardinality(Images(c.fence)) <=> Forgotten(c.fence) = {}
    /\ phase = "counted" =>
           {c.fence : c \in combs} =
               {f \in Fences : ~(InFlightAt(f) \subseteq Forgotten(f))}

=============================================================================

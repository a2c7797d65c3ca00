-------------------------- MODULE CrashPlans_proofs -------------------------
(***************************************************************************)
(* Proofs about the analysis of an operation and the 2cp crash plans, for  *)
(* every set of lines, slots and kinds of writes and every length of the   *)
(* trace.                                                                  *)
(*                                                                         *)
(* The inductive invariant IInv says what the simulated cache and the two  *)
(* tables mean in terms of the trace alone, by way of Secured: a store is  *)
(* secured once its first line was flushed and a fence followed, which is  *)
(* what the cache can see of a store.  It holds whatever the operation     *)
(* writes.  Where the first line tells the truth about the whole store     *)
(* (FirstLineTells), Secured is Durable and the tables are right; where    *)
(* every store has one line, the images of the plans are feasible.         *)
(***************************************************************************)
EXTENDS CrashPlans, FiniteSetTheorems, WellFoundedInduction, TLAPS

-----------------------------------------------------------------------------
(* Numbers, finite sets and sums.                                           *)

\* Induction over a set of numbers.
LEMMA NatSet ==
  ASSUME NEW S, 0 \in S, \A n \in Nat : n \in S => n + 1 \in S
  PROVE  Nat \subseteq S
<1> SUFFICES ASSUME Nat \ S # {} PROVE FALSE
  OBVIOUS
<1>1. PICK x \in Nat \ S : \A y \in Nat \ S : ~(<<y, x>> \in OpToRel(<, Nat))
  BY WFMin, NatLessThanWellFounded
<1>2. x # 0 /\ x - 1 \in Nat /\ (x - 1) + 1 = x
  OBVIOUS
<1>3. <<x - 1, x>> \in OpToRel(<, Nat)
  BY <1>2 DEF OpToRel
<1>4. x - 1 \in S
  BY <1>1, <1>2, <1>3
<1> QED
  BY <1>2, <1>4

\* A set of numbers has a least one.
LEMMA MinOf ==
  ASSUME NEW S \in SUBSET Nat, S # {}
  PROVE  Min(S) \in S /\ \A y \in S : Min(S) <= y
<1>1. PICK x \in S : \A y \in S : ~(<<y, x>> \in OpToRel(<, Nat))
  BY WFMin, NatLessThanWellFounded
<1>2. \A y \in S : <<y, x>> \in OpToRel(<, Nat) <=> y < x
  BY DEF OpToRel
<1>3. \A y \in S : ~(y < x)
  BY <1>1, <1>2, Zenon
<1>4. \A y \in S : x <= y
  BY <1>3
<1> QED
  BY <1>4 DEF Min

\* A finite set of numbers has a greatest one.
LEMMA MaxOf ==
  ASSUME NEW S \in SUBSET Nat, S # {}, IsFiniteSet(S)
  PROVE  Max(S) \in S /\ \A y \in S : Max(S) >= y
<1> DEFINE Has(T) == \E x \in T : \A y \in T : x >= y
           N == {n \in Nat : \A T \in SUBSET S : Cardinality(T) = n /\ T # {} => Has(T)}
<1>1. 0 \in N
  <2> SUFFICES ASSUME NEW T \in SUBSET S, Cardinality(T) = 0, T # {} PROVE FALSE
    OBVIOUS
  <2> QED
    BY FS_Subset, FS_EmptySet
<1>2. ASSUME NEW n \in Nat, n \in N
      PROVE  n + 1 \in N
  <2> SUFFICES ASSUME NEW T \in SUBSET S, Cardinality(T) = n + 1, T # {} PROVE Has(T)
    OBVIOUS
  <2>1. PICK x \in T : TRUE
    OBVIOUS
  <2>2. IsFiniteSet(T) /\ Cardinality(T \ {x}) = n
    <3>1. IsFiniteSet(T)
      BY FS_Subset
    <3>2. Cardinality(T \ {x}) = Cardinality(T) - 1
      BY <3>1, <2>1, FS_RemoveElement
    <3> QED
      BY <3>1, <3>2
  <2>3. CASE T \ {x} = {}
    <3>1. T = {x}
      BY <2>1, <2>3
    <3> QED
      BY <3>1
  <2>4. CASE T \ {x} # {}
    <3>1. Has(T \ {x})
      BY <1>2, <2>2, <2>4
    <3>2. PICK m \in T \ {x} : \A y \in T \ {x} : m >= y
      BY <3>1
    <3>3. CASE m >= x
      BY <3>2, <3>3
    <3>4. CASE ~(m >= x)
      <4>1. \A y \in T : x >= y
        BY <3>2, <3>4, <2>1
      <4> QED
        BY <4>1, <2>1
    <3> QED
      BY <3>3, <3>4
  <2> QED
    BY <2>3, <2>4
<1>3. Cardinality(S) \in Nat
  BY FS_CardinalityType
<1>4. Cardinality(S) \in N
  <2> HIDE DEF N
  <2> QED
    BY <1>1, <1>2, <1>3, NatSet
<1>5. Has(S)
  BY <1>4
<1> QED
  BY <1>5 DEF Max

Picked(T) == CHOOSE x \in T : TRUE
SumStep(cp, it, T) == IF T = {} THEN 0 ELSE cp[Picked(T)] + it[T \ {Picked(T)}]
SumOf(cp, S) == MapThenSumSet(LAMBDA s : cp[s], S)

\* A sum of numbers over a finite set is one.
LEMMA SumType ==
  ASSUME NEW U, NEW cp \in [U -> Nat], NEW S \in SUBSET U, IsFiniteSet(S)
  PROVE  SumOf(cp, S) \in Nat
<1> DEFINE D(n) == {T \in SUBSET S : Cardinality(T) <= n}
<1>p. \A T : T # {} => Picked(T) \in T
  BY DEF Picked
<1>c. \A T \in SUBSET S : IsFiniteSet(T) /\ Cardinality(T) \in Nat
  BY FS_Subset, FS_CardinalityType
<1>d. \A n \in Nat : \A T \in D(n + 1) : T # {} =>
          T \ {Picked(T)} \in D(n) /\ Picked(T) \in U
  <2> SUFFICES ASSUME NEW n \in Nat, NEW T \in D(n + 1), T # {}
               PROVE  T \ {Picked(T)} \in D(n) /\ Picked(T) \in U
    OBVIOUS
  <2>1. Cardinality(T \ {Picked(T)}) = Cardinality(T) - 1
    BY <1>p, <1>c, FS_RemoveElement
  <2>2. Cardinality(T) \in Nat /\ Cardinality(T) <= n + 1
    BY <1>c
  <2>3. Cardinality(T \ {Picked(T)}) <= n
    BY <2>1, <2>2
  <2> QED
    BY <1>p, <2>3
<1>z. \A T \in D(0) : T = {}
  <2> SUFFICES ASSUME NEW T \in D(0), T # {} PROVE FALSE
    OBVIOUS
  <2>1. Cardinality(T) = 0 /\ IsFiniteSet(T)
    BY <1>c
  <2> QED
    BY <2>1, FS_EmptySet
<1>m. \A n \in Nat : D(n) \subseteq D(n + 1)
  BY <1>c
<1>s. Cardinality(S) \in Nat /\ D(Cardinality(S)) = SUBSET S
  <2>1. \A T \in SUBSET S : Cardinality(T) <= Cardinality(S)
    BY FS_Subset
  <2> QED
    BY <1>c, <2>1
<1> HIDE DEF D
<1> DEFINE N == {n \in Nat : \E it : it = [T \in D(n) |-> SumStep(cp, it, T)]}
<1>1. 0 \in N
  <2> DEFINE f == [T \in D(0) |-> 0]
  <2>1. f = [T \in D(0) |-> SumStep(cp, f, T)]
    BY <1>z DEF SumStep
  <2>2. \E it : it = [T \in D(0) |-> SumStep(cp, it, T)]
    BY <2>1
  <2> QED
    BY <2>2
<1>2. ASSUME NEW n \in Nat, n \in N
      PROVE  n + 1 \in N
  <2>1. PICK f : f = [T \in D(n) |-> SumStep(cp, f, T)]
    BY <1>2
  <2> DEFINE g == [T \in D(n + 1) |-> IF T \in D(n) THEN f[T] ELSE SumStep(cp, f, T)]
  <2>2. \A T \in D(n + 1) : T # {} => g[T \ {Picked(T)}] = f[T \ {Picked(T)}]
    BY <1>d, <1>m
  <2>3. \A T \in D(n + 1) : SumStep(cp, g, T) = SumStep(cp, f, T)
    <3> HIDE DEF g
    <3> QED
      BY <2>2 DEF SumStep
  <2>4. \A T \in D(n + 1) : g[T] = SumStep(cp, f, T)
    BY <2>1
  <2>5. g = [T \in D(n + 1) |-> SumStep(cp, g, T)]
    BY <2>3, <2>4
  <2>6. \E it : it = [T \in D(n + 1) |-> SumStep(cp, it, T)]
    BY <2>5
  <2> HIDE DEF g
  <2> QED
    BY <2>6
<1>3. Cardinality(S) \in N
  <2> HIDE DEF N
  <2> QED
    BY <1>1, <1>2, <1>s, NatSet
<1>4. PICK f : f = [T \in SUBSET S |-> SumStep(cp, f, T)]
  BY <1>3, <1>s
<1> DEFINE h == CHOOSE it : it = [T \in SUBSET S |-> SumStep(cp, it, T)]
<1>5. h = [T \in SUBSET S |-> SumStep(cp, h, T)]
  BY <1>4
<1>6. SumOf(cp, S) = h[S]
  BY DEF SumOf, MapThenSumSet, MapThenFoldSet, SumStep, Picked
<1> HIDE DEF h
<1> DEFINE M == {n \in Nat : \A T \in D(n) : T \in SUBSET S => h[T] \in Nat}
<1>7. 0 \in M
  BY <1>5, <1>z DEF SumStep
<1>8. ASSUME NEW n \in Nat, n \in M
      PROVE  n + 1 \in M
  <2> SUFFICES ASSUME NEW T \in D(n + 1), T \in SUBSET S PROVE h[T] \in Nat
    OBVIOUS
  <2>1. CASE T = {}
    BY <1>5, <2>1 DEF SumStep
  <2>2. CASE T # {}
    <3>1. T \ {Picked(T)} \in D(n) /\ cp[Picked(T)] \in Nat
      BY <1>d, <2>2
    <3>2. h[T \ {Picked(T)}] \in Nat
      BY <1>8, <3>1
    <3>3. h[T] = cp[Picked(T)] + h[T \ {Picked(T)}]
      BY <1>5, <2>2 DEF SumStep
    <3> QED
      BY <3>1, <3>2, <3>3
  <2> QED
    BY <2>1, <2>2
<1>9. Cardinality(S) \in M
  <2> HIDE DEF M
  <2> QED
    BY <1>7, <1>8, <1>s, NatSet
<1> QED
  BY <1>6, <1>9, <1>s

-----------------------------------------------------------------------------
(* The inductive invariant.                                                 *)

\* No memory copy without a flush of its own covers several lines: with
\* nonatomic_as_one the cache sees such a copy in its first line only.
FirstLineTells == Spans = {} \/ "copy" \notin Kinds

\* Event f flushes the first line of store s, not before s.
FlushedBy(s, f) == /\ f > s \/ trace[s].op \in FlushedWrites
                   /\ FlushesLine(f, trace[s].line)
FlushedSince(s, t) == \E f \in s .. t : FlushedBy(s, f)

\* Durable, as the first line of the store tells it.
Secured(s, t) == \E f \in s .. t : /\ FlushedBy(s, f)
                                   /\ \E g \in (f + 1) .. t : trace[g].op = "fence"

Now == Len(trace)

\* While the trace is read, the cache holds the stores that are not durable,
\* as they were written; no fence has reached them, and they are FLUSHED when
\* their line was flushed.
CacheHolds ==
    phase = "run" =>
        \A s \in Seqs :
            /\ copies[s] > 0 <=> s \in Stores /\ ~Secured(s, Now)
            /\ copies[s] > 0 =>
                   /\ store[s].line = trace[s].line /\ store[s].slot = trace[s].slot
                   /\ store[s].fences = 0
                   /\ store[s].state = IF FlushedSince(s, Now) THEN "FLUSHED"
                                       ELSE "VOLATILE"

\* One cluster for every fence, and two more at the end; the next to last has
\* the stores that were flushed and not fenced.
Clusters ==
    /\ \A c \in 1 .. Cardinality(Fences) : \E f \in Fences : ClusterOf(f) = c
    /\ Len(in_fight_num) = Cardinality(Fences) + IF phase = "run" THEN 0 ELSE 1
    /\ Len(flushing) = Cardinality(Fences) + IF phase = "run" THEN 0 ELSE 2
    /\ phase # "run" =>
           flushing[Cardinality(Fences) + 1] =
               {s \in Stores : FlushedSince(s, Now) /\ ~Secured(s, Now)}

\* The cluster of a fence has the stores that fence makes durable, and a store
\* has the clusters of the fences at which it was in flight.
SecuredAt(f) == {s \in Stores : s < f /\ Secured(s, f) /\ ~Secured(s, f - 1)}
PendingAt(f) == {s \in Stores : s < f /\ ~Secured(s, f - 1)}
Tables ==
    /\ \A f \in Fences : flushing[ClusterOf(f)] = SecuredAt(f)
    /\ \A s \in Seqs :
           seq_clusters[s] =
               {ClusterOf(f) : f \in {g \in Fences : s \in PendingAt(g)}}
               \cup IF phase = "run" \/ s \notin Stores \/ Secured(s, Now) THEN {}
                    ELSE {Cardinality(Fences) + 1}

\* A store depends on earlier stores of its own line.
DepsSound ==
    \A s \in Seqs : \A r \in write_dep[s] :
        s \in Stores /\ r \in Stores /\ r < s /\ trace[r].line = trace[s].line

\* Only stores are cached, and plans are made once, from the final tables.
StoresOnly ==
    /\ \A s \in Seqs : copies[s] > 0 => s \in Stores
    /\ plans # {} => phase = "planned"
    /\ \A p \in plans : \E s \in Stores : p = PersistSelf(s) \/ p = PersistOther(s)
    /\ phase # "raised"

IInv == TypeOK /\ CacheHolds /\ Clusters /\ Tables /\ DepsSound /\ StoresOnly

-----------------------------------------------------------------------------
(* One more event.                                                          *)

Events == Writes \cup Flushes \cup {Fence}

\* What an event is.
LEMMA EventKinds ==
  /\ \A e \in Writes : /\ e.op \in Kinds /\ e.line \in Lines /\ e.slot \in Slots
                       /\ e.last \in Lines /\ e.line <= e.last
                       /\ IsStore(e) /\ e.op # "flush" /\ e.op # "fence"
  /\ \A e \in Flushes : /\ e.op = "flush" /\ e.line \in Lines /\ e.last = e.line
                        /\ ~IsStore(e)
  /\ Fence.op = "fence" /\ ~IsStore(Fence)
  /\ Lines \subseteq Nat
<1> USE CacheAssumption
<1>1. ASSUME NEW e \in Writes
      PROVE  /\ e.op \in Kinds /\ e.line \in Lines /\ e.slot \in Slots
             /\ e.last \in Lines /\ e.line <= e.last
  <2>1. /\ e.op \in Kinds /\ e.line \in Lines /\ e.slot \in Slots /\ e.last \in Lines
        /\ e.last = e.line \/ <<e.line, e.last>> \in Spans
    BY DEF Writes
  <2>2. e.line \in Nat /\ e.last \in Nat
    BY <2>1
  <2>3. ASSUME <<e.line, e.last>> \in Spans PROVE e.line < e.last
    <3>1. <<e.line, e.last>> \in {p \in Lines \X Lines : p[1] < p[2]}
      BY <2>3
    <3> QED
      BY <3>1
  <2> QED
    BY <2>1, <2>2, <2>3
<1>2. "flush" \notin Kinds /\ "fence" \notin Kinds /\ Lines \subseteq Nat
  OBVIOUS
<1>3. \A e \in Flushes : e.op = "flush" /\ e.line \in Lines /\ e.last = e.line
  BY DEF Flushes
<1>4. Fence.op = "fence"
  BY DEF Fence
<1> QED
  BY <1>1, <1>2, <1>3, <1>4 DEF IsStore

\* The trace and the sets of its events.
LEMMA TraceFacts ==
  ASSUME trace \in Seq(Events), Len(trace) <= MaxTrace
  PROVE  /\ Now \in Nat /\ DOMAIN trace = 1 .. Now /\ Now <= MaxTrace
         /\ \A i \in 1 .. Now : trace[i] \in Events
         /\ Stores \subseteq 1 .. Now /\ Fences \subseteq 1 .. Now
         /\ \A s \in Stores : /\ s \in Seqs /\ trace[s] \in Writes
                              /\ trace[s].line \in Nat /\ trace[s].last \in Nat
                              /\ trace[s].line <= trace[s].last
         /\ IsFiniteSet(Fences) /\ Cardinality(Fences) \in Nat
         /\ IsFiniteSet(Stores)
         /\ \A f \in Fences : IsFiniteSet({g \in Fences : g <= f}) /\ ClusterOf(f) \in Nat
<1>1. /\ Now \in Nat /\ DOMAIN trace = 1 .. Now /\ Now <= MaxTrace
      /\ \A i \in 1 .. Now : trace[i] \in Events
  BY DEF Now
<1>2. Stores \subseteq 1 .. Now /\ Fences \subseteq 1 .. Now
  BY <1>1 DEF Stores, Fences
<1>3. ASSUME NEW s \in Stores
      PROVE  /\ s \in Seqs /\ trace[s] \in Writes
             /\ trace[s].line \in Nat /\ trace[s].last \in Nat
             /\ trace[s].line <= trace[s].last
  <2>1. s \in 1 .. Now /\ IsStore(trace[s]) /\ trace[s] \in Events
    BY <1>1, <1>2 DEF Stores
  <2>2. trace[s] \in Writes
    BY <2>1, EventKinds DEF Events
  <2>3. s \in Seqs
    BY <1>1, <2>1, CacheAssumption DEF Seqs
  <2> QED
    BY <2>2, <2>3, EventKinds
<1>4. IsFiniteSet(1 .. Now)
  BY <1>1, FS_Interval
<1>5. IsFiniteSet(Fences) /\ Cardinality(Fences) \in Nat /\ IsFiniteSet(Stores)
  BY <1>2, <1>4, FS_Subset, FS_CardinalityType
<1>6. ASSUME NEW f \in Fences
      PROVE  IsFiniteSet({g \in Fences : g <= f}) /\ ClusterOf(f) \in Nat
  <2>1. {g \in Fences : g <= f} \subseteq Fences
    OBVIOUS
  <2>2. IsFiniteSet({g \in Fences : g <= f})
    BY <1>5, <2>1, FS_Subset
  <2> QED
    BY <2>2, FS_CardinalityType DEF ClusterOf
<1> QED
  BY <1>1, <1>2, <1>3, <1>5, <1>6

\* What one more event does to the sets of events and to the clusters.
LEMMA MoreEvents ==
  ASSUME trace \in Seq(Events), Len(trace) + 1 <= MaxTrace, NEW e \in Events,
         trace' = Append(trace, e)
  PROVE  /\ trace' \in Seq(Events) /\ Now' = Now + 1 /\ Now' <= MaxTrace
         /\ trace'[Now + 1] = e /\ \A i \in 1 .. Now : trace'[i] = trace[i]
         /\ Stores' = Stores \cup IF IsStore(e) THEN {Now + 1} ELSE {}
         /\ Fences' = Fences \cup IF e.op = "fence" THEN {Now + 1} ELSE {}
         /\ \A f \in Fences : ClusterOf(f)' = ClusterOf(f)
         /\ Cardinality(Fences)' = Cardinality(Fences)
                                       + IF e.op = "fence" THEN 1 ELSE 0
         /\ e.op = "fence" => ClusterOf(Now)' = Cardinality(Fences) + 1
<1>n. Len(trace) \in Nat /\ MaxTrace \in Nat
  BY CacheAssumption
<1>t. /\ Now \in Nat /\ DOMAIN trace = 1 .. Now
      /\ Stores \subseteq 1 .. Now /\ Fences \subseteq 1 .. Now
      /\ IsFiniteSet(Fences) /\ Cardinality(Fences) \in Nat
  BY <1>n, TraceFacts
<1>1. /\ trace' \in Seq(Events) /\ Now' = Now + 1 /\ Now' <= MaxTrace
      /\ DOMAIN trace' = 1 .. Now + 1
      /\ trace'[Now + 1] = e /\ \A i \in 1 .. Now : trace'[i] = trace[i]
  BY <1>n DEF Now
<1>2. Stores' = Stores \cup IF IsStore(e) THEN {Now + 1} ELSE {}
  BY <1>1, <1>t DEF Stores, IsStore
<1>3. Fences' = Fences \cup IF e.op = "fence" THEN {Now + 1} ELSE {}
  BY <1>1, <1>t DEF Fences
<1>4. ASSUME NEW f \in Fences PROVE ClusterOf(f)' = ClusterOf(f)
  <2>1. {g \in Fences' : g <= f} = {g \in Fences : g <= f}
    BY <1>3, <1>t
  <2> QED
    BY <2>1 DEF ClusterOf
<1>5. Now + 1 \notin Fences
  BY <1>t
<1>6. Cardinality(Fences)' = Cardinality(Fences) + IF e.op = "fence" THEN 1 ELSE 0
  <2>1. CASE e.op = "fence"
    <3>1. Fences' = Fences \cup {Now + 1}
      BY <1>3, <2>1
    <3>2. Cardinality(Fences \cup {Now + 1}) = Cardinality(Fences) + 1
      BY <1>t, <1>5, FS_AddElement
    <3> QED
      BY <2>1, <3>1, <3>2
  <2>2. CASE e.op # "fence"
    BY <1>3, <1>t, <2>2
  <2> QED
    BY <2>1, <2>2
<1>7. ASSUME e.op = "fence" PROVE ClusterOf(Now)' = Cardinality(Fences) + 1
  <2>0. Fences' = Fences \cup {Now + 1}
    BY <1>3, <1>7
  <2>1. \A g \in Fences' : g <= Now'
    BY <1>1, <2>0, <1>t
  <2>2. Cardinality(Fences)' = Cardinality(Fences) + 1
    BY <1>6, <1>7
  <2> QED
    <3>1. {g \in Fences' : g <= Now'} = Fences'
      BY <2>1
    <3> QED
      BY <2>2, <3>1 DEF ClusterOf
<1> QED
  BY <1>1, <1>2, <1>3, <1>4, <1>6, <1>7

\* What one more event does to a store: the past stays, a flush of its line
\* flushes it, and a fence secures it if it was flushed.
LEMMA MoreSecured ==
  ASSUME trace \in Seq(Events), Len(trace) + 1 <= MaxTrace, NEW e \in Events,
         trace' = Append(trace, e)
  PROVE  /\ \A s \in 1 .. Now, t \in 0 .. Now : /\ Secured(s, t)' <=> Secured(s, t)
                                                /\ FlushedSince(s, t)' <=> FlushedSince(s, t)
         /\ \A s \in 1 .. Now :
               /\ FlushedSince(s, Now)' <=>
                      \/ FlushedSince(s, Now)
                      \/ /\ e.op \in {"flush"} \cup FlushedWrites
                         /\ e.line <= trace[s].line /\ trace[s].line <= e.last
               /\ Secured(s, Now)' <=>
                      \/ Secured(s, Now)
                      \/ e.op = "fence" /\ FlushedSince(s, Now)
         /\ \A s : s = Now + 1 =>
               /\ ~Secured(s, Now)'
               /\ e \in Writes => (FlushedSince(s, Now)' <=> e.op \in FlushedWrites)
<1>n. Len(trace) \in Nat /\ MaxTrace \in Nat
  BY CacheAssumption
<1>1. /\ Now \in Nat /\ Now' = Now + 1 /\ trace'[Now + 1] = e
      /\ \A i \in 1 .. Now : trace'[i] = trace[i]
  BY <1>n, MoreEvents, TraceFacts
<1>2. \A s \in 1 .. Now, f \in 1 .. Now : FlushedBy(s, f)' <=> FlushedBy(s, f)
  BY <1>1 DEF FlushedBy, FlushesLine
<1>3. ASSUME NEW s \in 1 .. Now, NEW t \in 0 .. Now
      PROVE  /\ Secured(s, t)' <=> Secured(s, t)
             /\ FlushedSince(s, t)' <=> FlushedSince(s, t)
  <2>1. \A f \in s .. t : f \in 1 .. Now /\ \A g \in (f + 1) .. t : g \in 1 .. Now
    BY <1>1
  <2> QED
    BY <1>1, <1>2, <2>1 DEF Secured, FlushedSince
<1>4. ASSUME NEW s \in 1 .. Now
      PROVE  /\ FlushedSince(s, Now)' <=>
                    \/ FlushedSince(s, Now)
                    \/ /\ e.op \in {"flush"} \cup FlushedWrites
                       /\ e.line <= trace[s].line /\ trace[s].line <= e.last
             /\ Secured(s, Now)' <=>
                    \/ Secured(s, Now)
                    \/ e.op = "fence" /\ FlushedSince(s, Now)
  <2>0. PICK n : n = Now
    OBVIOUS
  <2>m. PICK m : m = n + 1
    OBVIOUS
  <2> DEFINE Hit == /\ e.op \in {"flush"} \cup FlushedWrites
                    /\ e.line <= trace[s].line /\ trace[s].line <= e.last
  <2>1. /\ n \in Nat /\ m \in Nat /\ n < m /\ s \in 1 .. n /\ Now' = m /\ Now = n
        /\ \A f \in s .. m : f \in s .. n \/ f = m
        /\ s .. n \subseteq s .. m /\ m \in s .. m
        /\ m > s /\ trace'[s] = trace[s] /\ trace'[m] = e
    <3>1. n \in Nat /\ m \in Nat /\ n < m /\ s \in 1 .. n /\ m > s
      BY <1>1, <2>0, <2>m
    <3>2. Now' = m /\ Now = n
      BY <1>1, <2>0, <2>m
    <3>3. \A f \in s .. m : f \in s .. n \/ f = m
      BY <3>1, <2>m
    <3>4. s .. n \subseteq s .. m /\ m \in s .. m
      BY <3>1
    <3>5. trace'[s] = trace[s]
      BY <1>1
    <3>6. trace'[m] = e
      BY <1>1, <2>0, <2>m
    <3> QED
      BY <3>1, <3>2, <3>3, <3>4, <3>5, <3>6
  <2>2. \A f \in s .. n : FlushedBy(s, f)' <=> FlushedBy(s, f)
    BY <1>2, <2>1
  <2>3. FlushedBy(s, m)' <=> Hit
    BY <2>1 DEF FlushedBy, FlushesLine
  <2>4. FlushedSince(s, m)' <=> FlushedSince(s, n) \/ Hit
    BY <2>1, <2>2, <2>3 DEF FlushedSince
  <2>5. \A f \in s .. m :
           (\E g \in (f + 1) .. m : trace'[g].op = "fence") <=>
               \/ \E g \in (f + 1) .. n : trace[g].op = "fence"
               \/ f \in s .. n /\ e.op = "fence"
    <3> SUFFICES ASSUME NEW f \in s .. m
                 PROVE  (\E g \in (f + 1) .. m : trace'[g].op = "fence") <=>
                            \/ \E g \in (f + 1) .. n : trace[g].op = "fence"
                            \/ f \in s .. n /\ e.op = "fence"
      OBVIOUS
    <3>1. /\ \A g \in (f + 1) .. m : g \in (f + 1) .. n \/ (g = m /\ f \in s .. n)
          /\ (f + 1) .. n \subseteq (f + 1) .. m
          /\ f \in s .. n => m \in (f + 1) .. m
      <4>1. n \in Nat /\ m \in Nat /\ s \in Nat /\ f \in Nat /\ n < m
        BY <2>1
      <4>2. \A g \in (f + 1) .. m : g \in (f + 1) .. n \/ (g = m /\ f \in s .. n)
        BY <4>1, <2>m
      <4>3. (f + 1) .. n \subseteq (f + 1) .. m
        BY <4>1
      <4>4. f \in s .. n => m \in (f + 1) .. m
        BY <4>1, <2>m
      <4> QED
        BY <4>2, <4>3, <4>4
    <3>2. \A g \in (f + 1) .. n : trace'[g] = trace[g]
      <4>1. (f + 1) .. n \subseteq 1 .. n
        BY <2>1
      <4> QED
        BY <1>1, <2>1, <4>1
    <3> QED
      BY <2>1, <3>1, <3>2
  <2>6. Secured(s, m)' <=> Secured(s, n) \/ (e.op = "fence" /\ FlushedSince(s, n))
    <3>1. ASSUME Secured(s, m)'
          PROVE  Secured(s, n) \/ (e.op = "fence" /\ FlushedSince(s, n))
      <4>1. PICK f \in s .. m : /\ FlushedBy(s, f)'
                                /\ \E g \in (f + 1) .. m : trace'[g].op = "fence"
        BY <3>1 DEF Secured
      <4>2. f \in s .. n
        <5>1. PICK g \in (f + 1) .. m : TRUE
          BY <4>1
        <5> QED
          BY <2>1, <2>m, <5>1
      <4> QED
        BY <2>2, <2>5, <4>1, <4>2 DEF Secured, FlushedSince
    <3>2. ASSUME Secured(s, n) PROVE Secured(s, m)'
      BY <2>1, <2>2, <2>5, <3>2 DEF Secured
    <3>3. ASSUME e.op = "fence", FlushedSince(s, n) PROVE Secured(s, m)'
      BY <2>1, <2>2, <2>5, <3>3 DEF Secured, FlushedSince
    <3> QED
      BY <3>1, <3>2, <3>3
  <2>7. /\ FlushedSince(s, Now)' <=> FlushedSince(s, m)'
        /\ Secured(s, Now)' <=> Secured(s, m)'
    BY <2>1 DEF FlushedSince, Secured
  <2>8. /\ FlushedSince(s, Now) <=> FlushedSince(s, n)
        /\ Secured(s, Now) <=> Secured(s, n)
    BY <2>1
  <2> QED
    BY <2>4, <2>6, <2>7, <2>8
<1>5. ASSUME NEW s, s = Now + 1
      PROVE  /\ ~Secured(s, Now)'
             /\ e \in Writes => (FlushedSince(s, Now)' <=> e.op \in FlushedWrites)
  <2>1. Now' = s /\ s \in Nat /\ trace'[s] = e /\ s .. s = {s}
    <3>1. Now' = s /\ s \in Nat
      BY <1>1, <1>5
    <3>2. trace'[s] = e
      BY <1>1, <1>5
    <3>3. s .. s = {s}
      BY <3>1
    <3> QED
      BY <3>1, <3>2, <3>3
  <2>2. ~Secured(s, Now)'
    <3>1. \A g : g \notin (s + 1) .. s
      BY <2>1
    <3> QED
      BY <2>1, <3>1 DEF Secured
  <2>3. ASSUME e \in Writes
        PROVE  FlushedSince(s, Now)' <=> e.op \in FlushedWrites
    <3>1. e.line <= e.last /\ e.line \in Nat
      BY <2>3, EventKinds
    <3>2. FlushedBy(s, s)' <=> e.op \in FlushedWrites
      BY <2>1, <3>1 DEF FlushedBy, FlushesLine
    <3> QED
      BY <2>1, <3>2 DEF FlushedSince
  <2> QED
    BY <2>2, <2>3
<1> QED
  BY <1>3, <1>4, <1>5

-----------------------------------------------------------------------------
(* The cache.                                                               *)

\* A flush of lines changes the state of their stores, and counts.
LEMMA FlushedObjects ==
  ASSUME NEW st \in [Seqs -> StoreObject], NEW cp \in [Seqs -> Nat], NEW ls
  PROVE  /\ Flushed(st, cp, ls) \in [Seqs -> StoreObject]
         /\ \A s \in Seqs :
               /\ Flushed(st, cp, ls)[s].line = st[s].line
               /\ Flushed(st, cp, ls)[s].slot = st[s].slot
               /\ Flushed(st, cp, ls)[s].fences = st[s].fences
               /\ Flushed(st, cp, ls)[s].state =
                      IF cp[s] > 0 /\ st[s].line \in ls THEN "FLUSHED" ELSE st[s].state
<1> DEFINE new(s) == [st[s] EXCEPT !.state = "FLUSHED", !.flushes = @ + cp[s]]
<1>1. ASSUME NEW s \in Seqs
      PROVE  /\ new(s) \in StoreObject
             /\ new(s).line = st[s].line /\ new(s).slot = st[s].slot
             /\ new(s).fences = st[s].fences /\ new(s).state = "FLUSHED"
  <2>1. PICK o \in StoreObject, n \in Nat : o = st[s] /\ n = cp[s]
    OBVIOUS
  <2>a. o = [line |-> o.line, slot |-> o.slot, state |-> o.state,
             flushes |-> o.flushes, fences |-> o.fences]
    BY <2>1 DEF StoreObject
  <2>2. new(s) = [line |-> o.line, slot |-> o.slot, state |-> "FLUSHED",
                  flushes |-> o.flushes + n, fences |-> o.fences]
    <3>1. PICK w : w = o.flushes + n
      OBVIOUS
    <3>2. new(s) = [[o EXCEPT !.state = "FLUSHED"] EXCEPT !.flushes = w]
      BY <2>1, <2>a, <3>1
    <3> HIDE DEF new
    <3> QED
      BY <2>a, <3>1, <3>2
  <2>3. o.flushes + n \in Nat
    BY <2>1 DEF StoreObject
  <2> HIDE DEF new
  <2> QED
    BY <2>1, <2>2, <2>3 DEF StoreObject
<1>2. \A s \in Seqs : Flushed(st, cp, ls)[s] =
                          IF cp[s] > 0 /\ st[s].line \in ls THEN new(s) ELSE st[s]
  BY DEF Flushed
<1>3. Flushed(st, cp, ls) \in [Seqs -> StoreObject]
  <2> HIDE DEF new
  <2>1. Flushed(st, cp, ls) =
           [s \in Seqs |-> IF cp[s] > 0 /\ st[s].line \in ls THEN new(s) ELSE st[s]]
    BY DEF Flushed, new
  <2> QED
    BY <1>1, <2>1
<1> HIDE DEF new
<1> QED
  BY <1>1, <1>2, <1>3

\* A fence leaves a store an object of its kind.
LEMMA FencedObjects ==
  ASSUME NEW st \in [Seqs -> StoreObject], NEW cp \in [Seqs -> Nat]
  PROVE  /\ Fenced(st, cp) \in [Seqs -> StoreObject]
         /\ \A s \in Seqs : cp[s] = 0 => Fenced(st, cp)[s] = st[s]
<1> DEFINE new(s) == [st[s] EXCEPT !.fences = @ + cp[s],
                         !.state = IF @ = "VOLATILE" THEN @ ELSE "PERSISTED"]
<1>1. ASSUME NEW s \in Seqs PROVE new(s) \in StoreObject
  <2>1. PICK o \in StoreObject, n \in Nat : o = st[s] /\ n = cp[s]
    OBVIOUS
  <2>a. o = [line |-> o.line, slot |-> o.slot, state |-> o.state,
             flushes |-> o.flushes, fences |-> o.fences]
    BY <2>1 DEF StoreObject
  <2>2. new(s) = [line |-> o.line, slot |-> o.slot,
                  state |-> IF o.state = "VOLATILE" THEN o.state ELSE "PERSISTED",
                  flushes |-> o.flushes, fences |-> o.fences + n]
    <3>1. PICK w : w = o.fences + n
      OBVIOUS
    <3>v. PICK v : v = IF o.state = "VOLATILE" THEN o.state ELSE "PERSISTED"
      OBVIOUS
    <3>2. new(s) = [[o EXCEPT !.fences = w] EXCEPT !.state = v]
      BY <2>1, <2>a, <3>1, <3>v
    <3> HIDE DEF new
    <3> QED
      BY <2>a, <3>1, <3>v, <3>2
  <2>3. o.fences + n \in Nat
    BY <2>1 DEF StoreObject
  <2> HIDE DEF new
  <2> QED
    BY <2>1, <2>2, <2>3 DEF StoreObject
<1>2. Fenced(st, cp) = [s \in Seqs |-> IF cp[s] = 0 THEN st[s] ELSE new(s)]
  BY DEF Fenced
<1> HIDE DEF new
<1> QED
  BY <1>1, <1>2

\* Types of what stays in the cache.
LEMMA KeptTypes ==
  ASSUME NEW st \in [Seqs -> StoreObject], NEW cp \in [Seqs -> Nat], NEW states,
         born \in [Lines -> 0 .. MaxTrace]
  PROVE  /\ Kept(st, cp, states) \in [Seqs -> Nat]
         /\ \A s \in Seqs : Kept(st, cp, states)[s] > 0 <=>
                                cp[s] > 0 /\ st[s].state \notin states
         /\ \A x : LinesKept(st, x, born) \in [Lines -> 0 .. MaxTrace]
         /\ \A ls, now : now \in 0 .. MaxTrace =>
                             Touched(ls, now) \in [Lines -> 0 .. MaxTrace]
<1> USE CacheAssumption
<1>1. /\ Kept(st, cp, states) \in [Seqs -> Nat]
      /\ \A s \in Seqs : Kept(st, cp, states)[s] > 0 <=>
                             cp[s] > 0 /\ st[s].state \notin states
  BY DEF Kept
<1>2. 0 \in 0 .. MaxTrace
  OBVIOUS
<1>3. ASSUME NEW x PROVE LinesKept(st, x, born) \in [Lines -> 0 .. MaxTrace]
  BY <1>2 DEF LinesKept
<1>4. ASSUME NEW ls, NEW now \in 0 .. MaxTrace
      PROVE  Touched(ls, now) \in [Lines -> 0 .. MaxTrace]
  BY DEF Touched
<1> QED
  BY <1>1, <1>3, <1>4

\* The number of stores in flight is one.
LEMMA InFlightNumType ==
  ASSUME copies \in [Seqs -> Nat]
  PROVE  InFlightNum \in Nat
<1>1. InFlightNum = SumOf(copies, InFlight)
  BY DEF InFlightNum, SumOf, MapThenSumSet, MapThenFoldSet
<1>2. InFlight \in SUBSET Seqs
  BY DEF InFlight, InState, Cached
<1>3. IsFiniteSet(Seqs)
  BY FS_Interval, CacheAssumption DEF Seqs
<1>4. IsFiniteSet(InFlight)
  BY <1>2, <1>3, FS_Subset
<1> QED
  BY <1>1, <1>2, <1>4, SumType

\* While the trace is read, what is in flight is what is not durable, and what
\* is being flushed is what the next fence makes durable.
LEMMA InFlightIs ==
  ASSUME IInv, phase = "run"
  PROVE  /\ Cached = InFlight
         /\ InFlight = {s \in Stores : ~Secured(s, Now)}
         /\ FlushingOps = {s \in Stores : ~Secured(s, Now) /\ FlushedSince(s, Now)}
<1>1. Stores \subseteq Seqs
  BY TraceFacts DEF IInv, TypeOK, Events
<1>2. /\ \A s \in Seqs : copies[s] > 0 <=> s \in Stores /\ ~Secured(s, Now)
      /\ \A s \in Seqs : copies[s] > 0 =>
             store[s].state = IF FlushedSince(s, Now) THEN "FLUSHED" ELSE "VOLATILE"
  BY DEF IInv, CacheHolds
<1> QED
  BY <1>1, <1>2 DEF Cached, InFlight, InState, FlushingOps

-----------------------------------------------------------------------------
(* The steps of the analysis.                                               *)

\* At the beginning nothing has happened.
LEMMA PlansInitIInv == PlansInit => IInv
<1> SUFFICES ASSUME PlansInit PROVE IInv
  OBVIOUS
<1> USE CacheAssumption
<1>1. trace = <<>> /\ phase = "run" /\ Len(trace) = 0
  BY DEF PlansInit, Init
<1>2. Stores = {} /\ Fences = {}
  BY <1>1 DEF Stores, Fences
<1>3. Cardinality(Fences) = 0
  BY <1>2, FS_EmptySet
<1>4. NoStore \in StoreObject
  BY DEF NoStore, StoreObject
<1>5. TypeOK
  <2>1. 0 \in 0 .. MaxTrace /\ 1 \in 1 .. (MaxTrace + 1) /\ 0 <= MaxTrace
    OBVIOUS
  <2> QED
    BY <1>1, <1>2, <1>4, <2>1 DEF PlansInit, Init, TypeOK
<1>6. CacheHolds /\ StoresOnly
  BY <1>1, <1>2 DEF PlansInit, Init, CacheHolds, StoresOnly
<1>7. Clusters
  <2>1. \A c \in 1 .. Cardinality(Fences) : \E f \in Fences : ClusterOf(f) = c
    BY <1>3
  <2> QED
    BY <1>1, <1>2, <1>3, <2>1 DEF PlansInit, Init, Clusters
<1>8. Tables /\ DepsSound
  BY <1>1, <1>2 DEF PlansInit, Init, Tables, DepsSound
<1> QED
  BY <1>5, <1>6, <1>7, <1>8 DEF IInv

\* An event that is no fence leaves the tables right.
LEMMA TablesKept ==
  ASSUME IInv, phase = "run", phase' = "run", NEW e \in Events, e.op # "fence",
         Len(trace) + 1 <= MaxTrace, trace' = Append(trace, e), UNCHANGED mapVars
  PROVE  Clusters' /\ Tables' /\ DepsSound'
<1>t. /\ trace \in Seq(Events) /\ Len(trace) <= MaxTrace
      /\ Clusters /\ Tables /\ DepsSound
      /\ UNCHANGED <<seq_clusters, flushing, in_fight_num, write_dep>>
  BY DEF IInv, TypeOK, Events, mapVars
<1>1. /\ Now \in Nat /\ Stores \subseteq 1 .. Now /\ Fences \subseteq 1 .. Now
      /\ \A s \in Stores : s \in Seqs
      /\ Cardinality(Fences) \in Nat
  BY <1>t, TraceFacts
<1>2. /\ Now' = Now + 1
      /\ \A i \in 1 .. Now : trace'[i] = trace[i]
      /\ Stores \subseteq Stores' /\ Stores' \subseteq Stores \cup {Now + 1}
      /\ Fences' = Fences
      /\ \A f \in Fences : ClusterOf(f)' = ClusterOf(f)
      /\ Cardinality(Fences)' = Cardinality(Fences)
  BY <1>t, <1>1, MoreEvents
<1>3. \A s \in 1 .. Now, t \in 0 .. Now : Secured(s, t)' <=> Secured(s, t)
  BY <1>t, MoreSecured
<1>4. Clusters'
  <2>1. \A c \in 1 .. Cardinality(Fences)' : \E f \in Fences' : ClusterOf(f)' = c
    BY <1>t, <1>2 DEF Clusters
  <2> QED
    BY <1>t, <1>2, <2>1 DEF Clusters
<1>5. ASSUME NEW f \in Fences
      PROVE  SecuredAt(f)' = SecuredAt(f) /\ PendingAt(f)' = PendingAt(f)
  <2>1. f \in 1 .. Now /\ f \in 0 .. Now /\ f - 1 \in 0 .. Now
    BY <1>1
  <2>2. \A s \in Stores' : s < f => s \in Stores
    BY <1>1, <1>2, <2>1
  <2>3. \A s \in Stores : /\ Secured(s, f)' <=> Secured(s, f)
                          /\ Secured(s, f - 1)' <=> Secured(s, f - 1)
    BY <1>1, <1>3, <2>1
  <2> QED
    BY <1>2, <2>2, <2>3 DEF SecuredAt, PendingAt
<1>6. Tables'
  <2>1. \A f \in Fences : flushing'[ClusterOf(f)'] = SecuredAt(f)'
    BY <1>t, <1>2, <1>5 DEF Tables
  <2>2. ASSUME NEW s \in Seqs
        PROVE  seq_clusters'[s] =
                   {ClusterOf(f)' : f \in {g \in Fences' : s \in PendingAt(g)'}}
    <3>1. seq_clusters[s] = {ClusterOf(f) : f \in {g \in Fences : s \in PendingAt(g)}}
      BY <1>t DEF Tables
    <3> QED
      BY <1>t, <1>2, <1>5, <3>1
  <2> QED
    BY <1>2, <2>1, <2>2 DEF Tables
<1>7. DepsSound'
  BY <1>t, <1>1, <1>2 DEF DepsSound
<1> QED
  BY <1>4, <1>6, <1>7

\* A write joins the cache.
LEMMA StoreStep ==
  ASSUME IInv, NEW e \in Writes, Store(e), UNCHANGED <<plans, pos, combs>>
  PROVE  IInv'
<1>n. PICK n : n = Len(trace) + 1
  OBVIOUS
<1> DEFINE nt == e.op \in FlushedWrites
           cp == [copies EXCEPT ![n] = @ + 1]
           new == [NoStore EXCEPT !.line = e.line, !.slot = e.slot]
           st == [store EXCEPT ![n] = new]
<1>t. /\ trace \in Seq(Events) /\ Len(trace) <= MaxTrace /\ e \in Events
      /\ TypeOK /\ CacheHolds /\ StoresOnly
  BY DEF IInv, TypeOK, Events
<1>1. /\ phase = "run" /\ phase' = "run" /\ n \in Seqs /\ trace' = Append(trace, e)
      /\ copies' = cp
      /\ store' = IF nt THEN Flushed(st, cp, e.line .. e.last) ELSE st
      /\ born' = Touched(IF nt THEN e.line .. e.last ELSE {e.line}, n)
      /\ last_op' = IF nt THEN "flush" ELSE "store"
      /\ UNCHANGED <<dup_fence_list, dup_flush_list, mapVars>>
  BY <1>n DEF Store
<1>2. /\ e.op \in Kinds /\ e.line \in Lines /\ e.slot \in Slots /\ e.last \in Lines
      /\ e.line <= e.last /\ IsStore(e) /\ e.op # "flush" /\ e.op # "fence"
      /\ e.line \in Nat /\ e.last \in Nat
  BY EventKinds
<1>3. /\ Now \in Nat /\ Stores \subseteq 1 .. Now /\ n = Now + 1
      /\ Len(trace) + 1 <= MaxTrace /\ n \in 0 .. MaxTrace
      /\ \A s \in Stores : s \in Seqs /\ trace[s].line \in Nat
  BY <1>n, <1>t, <1>1, TraceFacts DEF Now, Seqs
<1>4. /\ trace' \in Seq(Events) /\ Now' = n /\ Now' <= MaxTrace
      /\ trace'[n] = e /\ \A i \in 1 .. Now : trace'[i] = trace[i]
      /\ Stores' = Stores \cup {n} /\ Fences' = Fences
  BY <1>t, <1>1, <1>2, <1>3, MoreEvents
<1>5. /\ \A s \in 1 .. Now :
             /\ FlushedSince(s, Now)' <=>
                    \/ FlushedSince(s, Now)
                    \/ nt /\ e.line <= trace[s].line /\ trace[s].line <= e.last
             /\ Secured(s, Now)' <=> Secured(s, Now)
      /\ ~Secured(n, Now)' /\ (FlushedSince(n, Now)' <=> nt)
  BY <1>t, <1>1, <1>2, <1>3, MoreSecured
<1>6. /\ new \in StoreObject /\ new.line = e.line /\ new.slot = e.slot
      /\ new.fences = 0 /\ new.state = "VOLATILE"
  BY <1>2 DEF NoStore, StoreObject
<1> HIDE DEF new
<1>7. /\ copies \in [Seqs -> Nat] /\ store \in [Seqs -> StoreObject]
      /\ born \in [Lines -> 0 .. MaxTrace]
  BY <1>t DEF TypeOK
<1>8. /\ cp \in [Seqs -> Nat] /\ st \in [Seqs -> StoreObject]
      /\ cp[n] = 1 /\ st[n] = new
      /\ \A s \in Seqs : s # n => cp[s] = copies[s] /\ st[s] = store[s]
  <2>1. n \notin Stores /\ copies[n] \in Nat
    BY <1>1, <1>3, <1>7
  <2>2. copies[n] = 0
    BY <1>t, <1>1, <2>1 DEF StoresOnly
  <2> QED
    BY <1>1, <1>6, <1>7, <2>2
<1> HIDE DEF cp, st
<1>9. /\ store' \in [Seqs -> StoreObject]
      /\ \A s \in Seqs :
            /\ store'[s].line = st[s].line /\ store'[s].slot = st[s].slot
            /\ store'[s].fences = st[s].fences
            /\ store'[s].state = IF nt /\ cp[s] > 0 /\ st[s].line \in e.line .. e.last
                                 THEN "FLUSHED" ELSE st[s].state
  <2>1. CASE nt
    <3>1. PICK ls : ls = e.line .. e.last
      OBVIOUS
    <3>2. store' = Flushed(st, cp, ls)
      BY <1>1, <2>1, <3>1
    <3>3. /\ store' \in [Seqs -> StoreObject]
          /\ \A s \in Seqs :
                /\ store'[s].line = st[s].line /\ store'[s].slot = st[s].slot
                /\ store'[s].fences = st[s].fences
                /\ store'[s].state = IF cp[s] > 0 /\ st[s].line \in ls
                                     THEN "FLUSHED" ELSE st[s].state
      BY <1>8, <3>2, FlushedObjects
    <3> QED
      BY <2>1, <3>1, <3>3, Zenon
  <2>2. CASE ~nt
    BY <1>1, <1>8, <2>2
  <2> QED
    BY <2>1, <2>2
<1>10. born' \in [Lines -> 0 .. MaxTrace]
  BY <1>1, <1>3, <1>7, KeptTypes
<1>11. StoresOnly'
  BY <1>t, <1>1, <1>4, <1>8 DEF StoresOnly
<1>12. TypeOK'
  <2>1. /\ trace' \in Seq(Writes \cup Flushes \cup {Fence}) /\ Len(trace') <= MaxTrace
        /\ last_op' \in {"none", "store", "flush", "fence"}
    BY <1>1, <1>4 DEF Events, Now
  <2>2. \A p \in plans' : p.persist \subseteq Stores' /\ p.start \in Stores'
    BY <1>t, <1>4 DEF TypeOK
  <2>3. dup_fence_list' \subseteq Fences' /\ dup_flush_list' \subseteq Stores'
    BY <1>t, <1>1, <1>4 DEF TypeOK
  <2> QED
    BY <1>t, <1>1, <1>8, <1>9, <1>10, <2>1, <2>2, <2>3 DEF TypeOK, mapVars
<1>13. CacheHolds'
  <2> SUFFICES ASSUME NEW s \in Seqs
               PROVE  /\ copies'[s] > 0 <=> s \in Stores' /\ ~Secured(s, Now)'
                      /\ copies'[s] > 0 =>
                             /\ store'[s].line = trace'[s].line
                             /\ store'[s].slot = trace'[s].slot
                             /\ store'[s].fences = 0
                             /\ store'[s].state = IF FlushedSince(s, Now)'
                                                  THEN "FLUSHED" ELSE "VOLATILE"
    BY DEF CacheHolds
  <2>1. CASE s = n
    <3>1. e.line \in e.line .. e.last
      BY <1>2
    <3> QED
      <4>1. copies'[n] = 1 /\ n \in Stores' /\ ~Secured(n, Now)' /\ st[n] = new
        BY <1>1, <1>4, <1>5, <1>8
      <4>2. /\ store'[n].line = trace'[n].line /\ store'[n].slot = trace'[n].slot
            /\ store'[n].fences = 0
        BY <1>1, <1>4, <1>6, <1>9, <4>1
      <4>3. store'[n].state = IF FlushedSince(n, Now)' THEN "FLUSHED" ELSE "VOLATILE"
        BY <1>1, <1>5, <1>6, <1>8, <1>9, <3>1, <4>1
      <4> QED
        BY <2>1, <4>1, <4>2, <4>3
  <2>2. CASE s # n
    <3>1. /\ copies[s] > 0 <=> s \in Stores /\ ~Secured(s, Now)
          /\ copies[s] > 0 =>
                 /\ store[s].line = trace[s].line /\ store[s].slot = trace[s].slot
                 /\ store[s].fences = 0
                 /\ store[s].state = IF FlushedSince(s, Now) THEN "FLUSHED"
                                     ELSE "VOLATILE"
      BY <1>t, <1>1 DEF CacheHolds
    <3>2. s \in Stores => s \in 1 .. Now /\ trace'[s] = trace[s] /\ trace[s].line \in Nat
      BY <1>3, <1>4
    <3>3. copies'[s] = copies[s] /\ cp[s] = copies[s] /\ st[s] = store[s]
      BY <1>1, <1>8, <2>2
    <3>4. s \in Stores' <=> s \in Stores
      BY <1>4, <2>2
    <3>5. s \in Stores =>
             (trace[s].line \in e.line .. e.last <=>
                  e.line <= trace[s].line /\ trace[s].line <= e.last)
      BY <1>2, <3>2
    <3> QED
      BY <1>5, <1>9, <3>1, <3>2, <3>3, <3>4, <3>5
  <2> QED
    BY <2>1, <2>2
<1>14. Clusters' /\ Tables' /\ DepsSound'
  BY <1>t, <1>1, <1>2, <1>3, TablesKept
<1> QED
  BY <1>11, <1>12, <1>13, <1>14 DEF IInv

\* A flush reaches the stores of its line.
LEMMA FlushStep ==
  ASSUME IInv, NEW e \in Flushes, Flush(e), UNCHANGED <<plans, pos, combs>>
  PROVE  IInv'
<1>n. PICK n : n = Len(trace) + 1
  OBVIOUS
<1>t. /\ trace \in Seq(Events) /\ Len(trace) <= MaxTrace /\ e \in Events
      /\ TypeOK /\ CacheHolds /\ StoresOnly
  BY DEF IInv, TypeOK, Events
<1>1. /\ phase = "run" /\ phase' = "run" /\ n \in Seqs /\ trace' = Append(trace, e)
      /\ store' = Flushed(store, copies, {e.line})
      /\ born' = Touched({e.line}, n)
      /\ last_op' = "flush"
      /\ UNCHANGED <<copies, dup_fence_list, dup_flush_list, mapVars>>
  BY <1>n DEF Flush
<1>2. /\ e.op = "flush" /\ e.line \in Lines /\ e.last = e.line /\ ~IsStore(e)
      /\ e.line \in Nat /\ e.last \in Nat
  BY EventKinds
<1>3. /\ Now \in Nat /\ Stores \subseteq 1 .. Now /\ n = Now + 1
      /\ Len(trace) + 1 <= MaxTrace /\ n \in 0 .. MaxTrace
      /\ \A s \in Stores : trace[s].line \in Nat
  BY <1>n, <1>t, <1>1, TraceFacts DEF Now, Seqs
<1>4. /\ trace' \in Seq(Events) /\ Now' = n /\ Now' <= MaxTrace
      /\ \A i \in 1 .. Now : trace'[i] = trace[i]
      /\ Stores' = Stores /\ Fences' = Fences
  BY <1>t, <1>1, <1>2, <1>3, MoreEvents
<1>5. \A s \in 1 .. Now :
          /\ FlushedSince(s, Now)' <=>
                 \/ FlushedSince(s, Now)
                 \/ e.line <= trace[s].line /\ trace[s].line <= e.last
          /\ Secured(s, Now)' <=> Secured(s, Now)
  BY <1>t, <1>1, <1>2, <1>3, MoreSecured
<1>7. /\ copies \in [Seqs -> Nat] /\ store \in [Seqs -> StoreObject]
      /\ born \in [Lines -> 0 .. MaxTrace]
  BY <1>t DEF TypeOK
<1>9. /\ store' \in [Seqs -> StoreObject]
      /\ \A s \in Seqs :
            /\ store'[s].line = store[s].line /\ store'[s].slot = store[s].slot
            /\ store'[s].fences = store[s].fences
            /\ store'[s].state = IF copies[s] > 0 /\ store[s].line \in {e.line}
                                 THEN "FLUSHED" ELSE store[s].state
  BY <1>1, <1>7, FlushedObjects
<1>10. born' \in [Lines -> 0 .. MaxTrace]
  BY <1>1, <1>3, <1>7, KeptTypes
<1>11. StoresOnly'
  BY <1>t, <1>1, <1>4 DEF StoresOnly
<1>12. TypeOK'
  <2>1. /\ trace' \in Seq(Writes \cup Flushes \cup {Fence}) /\ Len(trace') <= MaxTrace
        /\ last_op' \in {"none", "store", "flush", "fence"}
    BY <1>1, <1>4 DEF Events, Now
  <2> QED
    BY <1>t, <1>1, <1>4, <1>9, <1>10, <2>1 DEF TypeOK, mapVars
<1>13. CacheHolds'
  <2> SUFFICES ASSUME NEW s \in Seqs
               PROVE  /\ copies[s] > 0 <=> s \in Stores /\ ~Secured(s, Now)'
                      /\ copies[s] > 0 =>
                             /\ store'[s].line = trace'[s].line
                             /\ store'[s].slot = trace'[s].slot
                             /\ store'[s].fences = 0
                             /\ store'[s].state = IF FlushedSince(s, Now)'
                                                  THEN "FLUSHED" ELSE "VOLATILE"
    BY <1>1, <1>4 DEF CacheHolds
  <2>1. /\ copies[s] > 0 <=> s \in Stores /\ ~Secured(s, Now)
        /\ copies[s] > 0 =>
               /\ store[s].line = trace[s].line /\ store[s].slot = trace[s].slot
               /\ store[s].fences = 0
               /\ store[s].state = IF FlushedSince(s, Now) THEN "FLUSHED"
                                   ELSE "VOLATILE"
    BY <1>t, <1>1 DEF CacheHolds
  <2>2. s \in Stores => s \in 1 .. Now /\ trace'[s] = trace[s]
    BY <1>3, <1>4
  <2>3. s \in Stores => (e.line <= trace[s].line /\ trace[s].line <= e.last
                            <=> trace[s].line = e.line)
    <3>1. \A x \in Nat : e.line <= x /\ x <= e.last <=> x = e.line
      BY <1>2
    <3> QED
      BY <1>3, <3>1
  <2> QED
    BY <1>5, <1>9, <2>1, <2>2, <2>3
<1>14. Clusters' /\ Tables' /\ DepsSound'
  BY <1>t, <1>1, <1>2, <1>3, TablesKept
<1> QED
  BY <1>11, <1>12, <1>13, <1>14 DEF IInv

\* There are no more clusters than events, and each fence has its own.
LEMMA FewClusters ==
  ASSUME trace \in Seq(Events), Len(trace) <= MaxTrace
  PROVE  /\ Cardinality(Fences) <= Now
         /\ \A f \in Fences : ClusterOf(f) \in 1 .. Cardinality(Fences)
         /\ \A f, g \in Fences : f < g => ClusterOf(f) < ClusterOf(g)
<1>t. /\ Now \in Nat /\ Fences \subseteq 1 .. Now /\ IsFiniteSet(Fences)
      /\ Cardinality(Fences) \in Nat
      /\ \A f \in Fences : IsFiniteSet({g \in Fences : g <= f}) /\ ClusterOf(f) \in Nat
  BY TraceFacts
<1>1. Cardinality(Fences) <= Now
  <2>1. PICK n : n = Now
    OBVIOUS
  <2>2. n \in Int /\ 1 \in Int /\ n \in Nat
    BY <1>t, <2>1
  <2>3. IsFiniteSet(1 .. n) /\ Cardinality(1 .. n) = IF 1 > n THEN 0 ELSE n - 1 + 1
    BY <2>2, FS_Interval
  <2>4. Cardinality(1 .. n) = n
    <3>1. PICK c : c = Cardinality(1 .. n)
      OBVIOUS
    <3>2. c = IF 1 > n THEN 0 ELSE n - 1 + 1
      BY <2>3, <3>1
    <3>3. c = n
      BY <2>2, <3>2
    <3> QED
      BY <3>1, <3>3
  <2>5. Cardinality(Fences) <= Cardinality(1 .. n)
    BY <1>t, <2>1, <2>3, FS_Subset
  <2> QED
    BY <2>1, <2>4, <2>5
<1>2. ASSUME NEW f \in Fences PROVE ClusterOf(f) \in 1 .. Cardinality(Fences)
  <2> DEFINE G == {g \in Fences : g <= f}
  <2>1. IsFiniteSet(G) /\ Cardinality(G) \in Nat
    BY <1>t DEF ClusterOf
  <2>2. f \in G /\ G \subseteq Fences
    BY <1>t
  <2>c. ClusterOf(f) = Cardinality(G)
    BY DEF ClusterOf
  <2> HIDE DEF G
  <2>3. Cardinality(G) # 0 /\ Cardinality(G) <= Cardinality(Fences)
    BY <1>t, <2>1, <2>2, FS_EmptySet, FS_Subset
  <2> QED
    BY <1>t, <2>1, <2>3, <2>c
<1>3. ASSUME NEW f \in Fences, NEW g \in Fences, f < g
      PROVE  ClusterOf(f) < ClusterOf(g)
  <2> DEFINE G(x) == {h \in Fences : h <= x}
  <2>1. IsFiniteSet(G(g)) /\ IsFiniteSet(G(f))
    BY <1>t
  <2>2. G(f) \subseteq G(g) /\ g \in G(g) /\ g \notin G(f) /\ G(f) # G(g)
    <3>1. \A h \in Fences : h \in Nat
      BY <1>t
    <3>2. \A h \in Fences : h <= f => h <= g
      BY <3>1, <1>3
    <3>3. g <= g /\ ~(g <= f)
      BY <3>1, <1>3
    <3>4. g \in G(g) /\ g \notin G(f)
      BY <3>3
    <3> QED
      BY <3>2, <3>4
  <2>c. ClusterOf(f) = Cardinality(G(f)) /\ ClusterOf(g) = Cardinality(G(g))
    BY DEF ClusterOf
  <2> HIDE DEF G
  <2>3. Cardinality(G(f)) < Cardinality(G(g))
    <3>1. Cardinality(G(f)) \in Nat /\ Cardinality(G(g)) \in Nat
      BY <1>t, <2>c
    <3>2. Cardinality(G(f)) <= Cardinality(G(g)) /\
          (Cardinality(G(f)) = Cardinality(G(g)) => G(f) = G(g))
      BY <2>1, <2>2, FS_Subset
    <3> QED
      BY <2>2, <3>1, <3>2
  <2> QED
    BY <2>3, <2>c
<1> QED
  BY <1>1, <1>2, <1>3

\* The loop of the analysis ends at a store of the cache.
LEMMA LastVisitedCached ==
  ASSUME IInv, phase = "run", InFlight # {}
  PROVE  LastVisited \in InFlight
<1> DEFINE L == {store[s].line : s \in InFlight}
           B == {born[m] : m \in L}
<1>1. InFlight \subseteq Seqs /\ IsFiniteSet(Seqs) /\ Seqs \subseteq Nat
  <2>1. InFlight \subseteq Seqs
    BY DEF InFlight, InState, Cached
  <2>2. IsFiniteSet(Seqs)
    BY FS_Interval, CacheAssumption DEF Seqs
  <2>3. Seqs \subseteq Nat
    BY CacheAssumption DEF Seqs
  <2> QED
    BY <2>1, <2>2, <2>3
<1>2. IsFiniteSet(InFlight)
  BY <1>1, FS_Subset
<1>3. L \subseteq Lines /\ Lines \subseteq Nat /\ IsFiniteSet(Lines)
  <2>1. \A s \in InFlight : s \in Stores /\ store[s].line = trace[s].line
    BY <1>1 DEF IInv, CacheHolds, InFlight, InState, Cached
  <2>2. \A s \in Stores : trace[s] \in Writes
    BY TraceFacts DEF IInv, TypeOK, Events
  <2> QED
    BY <2>1, <2>2, EventKinds, CacheAssumption
<1>4. IsFiniteSet(L) /\ L # {}
  BY <1>3, FS_Subset
<1>5. B \subseteq Nat /\ IsFiniteSet(B) /\ B # {}
  <2>1. B \subseteq 0 .. MaxTrace
    BY <1>3 DEF IInv, TypeOK
  <2>2. IsFiniteSet(0 .. MaxTrace)
    BY FS_Interval, CacheAssumption
  <2> QED
    <3>1. 0 .. MaxTrace \subseteq Nat
      BY CacheAssumption
    <3>2. B # {}
      BY <1>4
    <3> HIDE DEF B
    <3>3. IsFiniteSet(B)
      BY <2>1, <2>2, FS_Subset
    <3> QED
      BY <2>1, <3>1, <3>2, <3>3
<1> HIDE DEF B, L
<1>6. PICK b : b = Max(B) /\ b \in B /\ \A y \in B : b >= y
  BY <1>5, MaxOf
<1> DEFINE T == {m \in L : born[m] = b}
<1>7. T \subseteq Nat /\ IsFiniteSet(T) /\ T # {}
  <2>1. T \subseteq L /\ T # {}
    BY <1>6 DEF B
  <2> QED
    BY <1>3, <1>4, <2>1, FS_Subset
<1>8. PICK l : l = Max(T) /\ l \in T /\ \A y \in T : l >= y
  BY <1>7, MaxOf
<1>9. l \in L /\ \A m \in L : born[m] < born[l] \/ (born[m] = born[l] /\ m <= l)
  <2>1. \A m \in L : born[m] \in B /\ born[m] \in Nat /\ m \in Nat
    BY <1>3, <1>5 DEF B
  <2> QED
    BY <1>6, <1>7, <1>8, <2>1
<1>10. YoungestLine \in L
  BY <1>9 DEF YoungestLine, L
<1> DEFINE V == {s \in InFlight : store[s].line = YoungestLine}
<1>11. V \subseteq Nat /\ IsFiniteSet(V) /\ V # {}
  BY <1>1, <1>2, <1>10, FS_Subset DEF L
<1>12. Max(V) \in V
  BY <1>11, MaxOf
<1> QED
  BY <1>12 DEF LastVisited

\* A new cluster: its number and the dependencies in it.
LEMMA RecordSound ==
  ASSUME IInv, phase = "run", RecordCluster, NEW k, k = Cardinality(Fences) + 1,
         k <= MaxTrace + 1
  PROVE  /\ seq_clusters' \in [Seqs -> SUBSET (1 .. (MaxTrace + 1))]
         /\ \A s \in Seqs : seq_clusters'[s] =
               seq_clusters[s] \cup IF s \in Stores /\ ~Secured(s, Now) THEN {k} ELSE {}
         /\ in_fight_num' \in Seq(Nat) /\ Len(in_fight_num') = k
         /\ write_dep' \in [Seqs -> SUBSET Seqs]
         /\ \A s \in Seqs : \A r \in write_dep'[s] :
               s \in Stores /\ r \in Stores /\ r < s /\ trace[r].line = trace[s].line
<1>t. /\ TypeOK /\ Cardinality(Fences) \in Nat /\ Len(in_fight_num) = Cardinality(Fences)
      /\ DepsSound /\ CacheHolds
  BY TraceFacts DEF IInv, TypeOK, Events, Clusters
<1>1. ClusterNum = k /\ k \in 1 .. (MaxTrace + 1)
  BY <1>t, CacheAssumption DEF ClusterNum
<1>2. \A s \in Seqs : seq_clusters'[s] =
         seq_clusters[s] \cup IF s \in Stores /\ ~Secured(s, Now) THEN {k} ELSE {}
  BY <1>1, InFlightIs DEF RecordCluster, ClustersOf
<1>3. seq_clusters' \in [Seqs -> SUBSET (1 .. (MaxTrace + 1))]
  <2>1. seq_clusters' = [s \in Seqs |-> ClustersOf(s)]
    BY DEF RecordCluster
  <2>2. \A s \in Seqs : ClustersOf(s) \in SUBSET (1 .. (MaxTrace + 1))
    BY <1>t, <1>1 DEF ClustersOf, TypeOK
  <2> QED
    BY <2>1, <2>2
<1>4. in_fight_num' \in Seq(Nat) /\ Len(in_fight_num') = k
  <2>1. InFlightNum \in Nat /\ in_fight_num \in Seq(Nat)
    BY <1>t, InFlightNumType DEF TypeOK
  <2> QED
    BY <1>t, <2>1 DEF RecordCluster
<1>5. write_dep' = [s \in Seqs |-> write_dep[s] \cup DepsOf(s)]
  BY DEF RecordCluster, MergedDeps
<1>6. ASSUME NEW s \in Seqs, NEW r \in DepsOf(s)
      PROVE  /\ r \in Seqs /\ s \in Stores /\ r \in Stores
             /\ r < s /\ trace[r].line = trace[s].line
  <2>1. /\ r \in Cached /\ s \in Cached /\ r \in Seqs
        /\ store[r].line = store[s].line
        /\ store[r].fences < store[s].fences \/ r < s
    BY <1>6 DEF DepsOf, Cached
  <2>2. \A x \in Cached : /\ x \in Stores /\ store[x].line = trace[x].line
                          /\ store[x].fences = 0
    BY <1>t DEF CacheHolds, Cached
  <2> QED
    BY <2>1, <2>2
<1> QED
  BY <1>2, <1>3, <1>4, <1>5, <1>6, <1>t DEF DepsSound, TypeOK

\* A fence: what was flushed is durable, and leaves the cache.
LEMMA FenceStep ==
  ASSUME IInv, FenceEvent, UNCHANGED <<plans, pos, combs>>
  PROVE  IInv'
<1>n. PICK n : n = Len(trace) + 1
  OBVIOUS
<1>k. PICK k : k = Cardinality(Fences) + 1
  OBVIOUS
<1>t. /\ trace \in Seq(Events) /\ Len(trace) <= MaxTrace /\ Fence \in Events
      /\ TypeOK /\ CacheHolds /\ StoresOnly /\ Tables /\ Clusters /\ DepsSound
  BY DEF IInv, TypeOK, Events
<1>1. /\ phase = "run" /\ phase' = "run" /\ n \in Seqs /\ trace' = Append(trace, Fence)
      /\ RecordCluster /\ flushing' = Append(flushing, FlushingOps)
      /\ IF LoopShadowsOp THEN AcceptStoreAgain ELSE AcceptFence(n)
  BY <1>n DEF FenceEvent
<1>2. Fence.op = "fence" /\ ~IsStore(Fence) /\ Fence.op \notin {"flush"} \cup FlushedWrites
  BY EventKinds DEF FlushedWrites
<1>3. /\ Now \in Nat /\ Stores \subseteq 1 .. Now /\ Fences \subseteq 1 .. Now /\ n = Now + 1
      /\ Len(trace) + 1 <= MaxTrace /\ n \in 0 .. MaxTrace /\ n \in Nat
      /\ \A s \in Stores : s \in Seqs
      /\ Cardinality(Fences) \in Nat /\ k \in Nat
  BY <1>n, <1>k, <1>t, <1>1, TraceFacts DEF Now, Seqs
<1>4. /\ trace' \in Seq(Events) /\ Now' = n /\ Now' <= MaxTrace
      /\ \A i \in 1 .. Now : trace'[i] = trace[i]
      /\ Stores' = Stores /\ Fences' = Fences \cup {n}
      /\ \A f \in Fences : ClusterOf(f)' = ClusterOf(f)
      /\ Cardinality(Fences)' = k /\ ClusterOf(Now)' = k
  BY <1>t, <1>1, <1>2, <1>3, <1>k, MoreEvents
<1>c. ClusterOf(n)' = k
  BY <1>4 DEF ClusterOf
<1>5. /\ \A s \in 1 .. Now, t \in 0 .. Now : Secured(s, t)' <=> Secured(s, t)
      /\ \A s \in 1 .. Now :
             /\ FlushedSince(s, Now)' <=> FlushedSince(s, Now)
             /\ Secured(s, Now)' <=> Secured(s, Now) \/ FlushedSince(s, Now)
  BY <1>t, <1>1, <1>2, <1>3, MoreSecured
<1>6. k <= MaxTrace + 1
  BY <1>3, <1>k, <1>t, FewClusters, CacheAssumption DEF Now
<1>7. /\ copies \in [Seqs -> Nat] /\ store \in [Seqs -> StoreObject]
      /\ born \in [Lines -> 0 .. MaxTrace] /\ flushing \in Seq(SUBSET Seqs)
      /\ Len(flushing) = Cardinality(Fences) /\ Cached \subseteq Stores
  <2>1. /\ copies \in [Seqs -> Nat] /\ store \in [Seqs -> StoreObject]
        /\ born \in [Lines -> 0 .. MaxTrace] /\ flushing \in Seq(SUBSET Seqs)
    BY <1>t DEF TypeOK
  <2>2. Len(flushing) = Cardinality(Fences)
    BY <1>t, <1>1, <1>3 DEF Clusters
  <2>3. Cached \subseteq Stores
    BY <1>t DEF StoresOnly, Cached
  <2> QED
    BY <2>1, <2>2, <2>3
<1>8. /\ seq_clusters' \in [Seqs -> SUBSET (1 .. (MaxTrace + 1))]
      /\ \A s \in Seqs : seq_clusters'[s] =
            seq_clusters[s] \cup IF s \in Stores /\ ~Secured(s, Now) THEN {k} ELSE {}
      /\ in_fight_num' \in Seq(Nat) /\ Len(in_fight_num') = k
      /\ write_dep' \in [Seqs -> SUBSET Seqs]
      /\ \A s \in Seqs : \A r \in write_dep'[s] :
            s \in Stores /\ r \in Stores /\ r < s /\ trace[r].line = trace[s].line
  BY <1>1, <1>6, <1>k, RecordSound
<1>9. /\ flushing' \in Seq(SUBSET Seqs) /\ Len(flushing') = k
      /\ flushing'[k] = FlushingOps
      /\ \A i \in 1 .. Cardinality(Fences) : flushing'[i] = flushing[i]
  <2>1. FlushingOps \in SUBSET Seqs
    BY DEF FlushingOps, InState, Cached
  <2> QED
    BY <1>1, <1>3, <1>7, <1>k, <2>1
<1>10. /\ copies' \in [Seqs -> Nat] /\ store' \in [Seqs -> StoreObject]
       /\ born' \in [Lines -> 0 .. MaxTrace]
       /\ last_op' \in {"none", "store", "flush", "fence"}
       /\ dup_fence_list' \subseteq dup_fence_list \cup {n}
       /\ dup_flush_list' \subseteq dup_flush_list \cup Stores
       /\ \A s \in Seqs : copies'[s] > 0 <=> copies[s] > 0 /\ store[s].state # "FLUSHED"
       /\ \A s \in Seqs : copies'[s] > 0 => store'[s] = store[s]
  <2>c. /\ \A s \in Seqs : copies[s] > 0 <=> s \in Cached
        /\ \A s \in Cached : store[s].state \in {"FLUSHED", "VOLATILE"}
    BY <1>t, <1>1 DEF CacheHolds, Cached
  <2>1. CASE LoopShadowsOp
    <3> DEFINE again == IF FlushingOps # {} THEN copies
                        ELSE [copies EXCEPT ![LastVisited] = @ + 1]
    <3>1. /\ copies' = Kept(store, again, {"FLUSHED", "PERSISTED"})
          /\ born' = LinesKept(store, copies', born)
          /\ last_op' = "store" /\ UNCHANGED <<store, dup_fence_list, dup_flush_list>>
      BY <1>1, <2>1 DEF AcceptStoreAgain
    <3>2. LastVisited \in InFlight /\ InFlight \subseteq Cached /\ Cached \subseteq Seqs
      BY <1>1, <2>1, LastVisitedCached DEF LoopShadowsOp, InFlight, InState, Cached
    <3>3. again \in [Seqs -> Nat] /\ \A s \in Seqs : again[s] > 0 <=> copies[s] > 0
      BY <1>7, <2>c, <3>2
    <3> HIDE DEF again
    <3>4. /\ copies' \in [Seqs -> Nat]
          /\ \A s \in Seqs : copies'[s] > 0 <=>
                 again[s] > 0 /\ store[s].state \notin {"FLUSHED", "PERSISTED"}
          /\ born' \in [Lines -> 0 .. MaxTrace]
      BY <1>7, <3>1, <3>3, KeptTypes
    <3> QED
      BY <1>7, <2>c, <3>1, <3>3, <3>4
  <2>2. CASE ~LoopShadowsOp
    <3>1. /\ store' = Fenced(store, copies)
          /\ dup_flush_list' =
                 dup_flush_list \cup {s \in Cached : store[s].flushes > 1}
          /\ dup_fence_list' =
                 dup_fence_list \cup IF last_op = "fence" THEN {n} ELSE {}
          /\ last_op' = "fence"
          /\ copies' = Kept(store', copies, {"FLUSHED", "PERSISTED"})
          /\ born' = LinesKept(store', copies', born)
      BY <1>1, <2>2 DEF AcceptFence
    <3>2. Cached = {}
      BY <1>1, <2>2, InFlightIs DEF LoopShadowsOp
    <3>3. \A s \in Seqs : ~(copies[s] > 0) /\ copies[s] = 0
      BY <1>7, <2>c, <3>2
    <3>4. store' \in [Seqs -> StoreObject]
      BY <1>7, <3>1, FencedObjects
    <3>5. /\ copies' \in [Seqs -> Nat]
          /\ \A s \in Seqs : ~(copies'[s] > 0)
          /\ born' \in [Lines -> 0 .. MaxTrace]
      BY <1>7, <3>1, <3>3, <3>4, KeptTypes
    <3> QED
      BY <1>7, <3>1, <3>2, <3>3, <3>4, <3>5
  <2> QED
    BY <2>1, <2>2
<1>11. CacheHolds'
  <2> SUFFICES ASSUME NEW s \in Seqs
               PROVE  /\ copies'[s] > 0 <=> s \in Stores /\ ~Secured(s, Now)'
                      /\ copies'[s] > 0 =>
                             /\ store'[s].line = trace'[s].line
                             /\ store'[s].slot = trace'[s].slot
                             /\ store'[s].fences = 0
                             /\ store'[s].state = IF FlushedSince(s, Now)'
                                                  THEN "FLUSHED" ELSE "VOLATILE"
    BY <1>4 DEF CacheHolds
  <2>1. /\ copies[s] > 0 <=> s \in Stores /\ ~Secured(s, Now)
        /\ copies[s] > 0 =>
               /\ store[s].line = trace[s].line /\ store[s].slot = trace[s].slot
               /\ store[s].fences = 0
               /\ store[s].state = IF FlushedSince(s, Now) THEN "FLUSHED"
                                   ELSE "VOLATILE"
    BY <1>t, <1>1 DEF CacheHolds
  <2>2. s \in Stores => s \in 1 .. Now /\ trace'[s] = trace[s]
    BY <1>3, <1>4
  <2> QED
    BY <1>5, <1>10, <2>1, <2>2
<1>12. Clusters'
  <2>1. ASSUME NEW c \in 1 .. k PROVE \E f \in Fences' : ClusterOf(f)' = c
    <3>1. CASE c = k
      BY <1>4, <1>c, <3>1
    <3>2. CASE c # k
      <4>1. c \in 1 .. Cardinality(Fences)
        BY <1>3, <1>k, <3>2
      <4>2. PICK f \in Fences : ClusterOf(f) = c
        BY <1>t, <4>1 DEF Clusters
      <4> QED
        BY <1>4, <4>2
    <3> QED
      BY <3>1, <3>2
  <2>2. \A c \in 1 .. Cardinality(Fences)' : \E f \in Fences' : ClusterOf(f)' = c
    BY <1>4, <2>1
  <2>3. /\ Len(in_fight_num') = Cardinality(Fences') + 0
        /\ Len(flushing') = Cardinality(Fences') + 0
    BY <1>3, <1>4, <1>8, <1>9
  <2> QED
    BY <1>1, <2>2, <2>3 DEF Clusters
<1>13. ASSUME NEW f \in Fences
       PROVE  /\ SecuredAt(f)' = SecuredAt(f) /\ PendingAt(f)' = PendingAt(f)
              /\ ClusterOf(f) \in 1 .. Cardinality(Fences)
  <2>1. f \in 1 .. Now /\ f \in 0 .. Now /\ f - 1 \in 0 .. Now
    BY <1>3
  <2>2. \A s \in Stores : /\ Secured(s, f)' <=> Secured(s, f)
                          /\ Secured(s, f - 1)' <=> Secured(s, f - 1)
    BY <1>3, <1>5, <2>1
  <2>3. ClusterOf(f) \in 1 .. Cardinality(Fences)
    BY <1>t, FewClusters
  <2> QED
    BY <1>4, <2>2, <2>3 DEF SecuredAt, PendingAt
<1>14. /\ SecuredAt(n)' = FlushingOps
       /\ PendingAt(n)' = {s \in Stores : ~Secured(s, Now)}
  <2>1. n - 1 = Now /\ Now \in 0 .. Now
    BY <1>3
  <2>2. \A s \in Stores : /\ s < n
                          /\ Secured(s, n - 1)' <=> Secured(s, Now)
                          /\ Secured(s, n)' <=> Secured(s, Now) \/ FlushedSince(s, Now)
    <3> SUFFICES ASSUME NEW s \in Stores
                 PROVE  /\ s < n
                        /\ Secured(s, n - 1)' <=> Secured(s, Now)
                        /\ Secured(s, n)' <=> Secured(s, Now) \/ FlushedSince(s, Now)
      OBVIOUS
    <3>1. s \in 1 .. Now
      BY <1>3
    <3>2. PICK m : m = n - 1
      OBVIOUS
    <3>3. m = Now /\ m \in 0 .. Now
      BY <2>1, <3>2
    <3>4. Secured(s, m)' <=> Secured(s, m)
      BY <1>5, <3>1, <3>3
    <3>5. Secured(s, n)' <=> Secured(s, Now)'
      BY <1>4 DEF Secured
    <3>6. Secured(s, n - 1)' <=> Secured(s, m)'
      BY <3>2
    <3> QED
      BY <1>3, <1>5, <3>1, <3>3, <3>4, <3>5, <3>6
  <2> QED
    BY <1>1, <1>4, <2>2, InFlightIs DEF SecuredAt, PendingAt
<1>15. Tables'
  <2>1. ASSUME NEW f \in Fences' PROVE flushing'[ClusterOf(f)'] = SecuredAt(f)'
    <3>1. CASE f = n
      BY <1>c, <1>9, <1>14, <3>1
    <3>2. CASE f \in Fences
      <4>1. flushing[ClusterOf(f)] = SecuredAt(f)
        BY <1>t, <3>2 DEF Tables
      <4> QED
        BY <1>4, <1>9, <1>13, <3>2, <4>1
    <3> QED
      BY <1>4, <3>1, <3>2
  <2>2. ASSUME NEW s \in Seqs
        PROVE  seq_clusters'[s] =
                   {ClusterOf(f)' : f \in {g \in Fences' : s \in PendingAt(g)'}}
    <3>1. seq_clusters[s] = {ClusterOf(f) : f \in {g \in Fences : s \in PendingAt(g)}}
      BY <1>t, <1>1 DEF Tables
    <3>2. seq_clusters'[s] =
             seq_clusters[s] \cup IF s \in Stores /\ ~Secured(s, Now) THEN {k} ELSE {}
      BY <1>8
    <3>3. s \in PendingAt(n)' <=> s \in Stores /\ ~Secured(s, Now)
      BY <1>14
    <3> QED
      BY <1>4, <1>c, <1>13, <3>1, <3>2, <3>3
  <2> QED
    BY <1>1, <2>1, <2>2 DEF Tables
<1>16. DepsSound'
  BY <1>3, <1>4, <1>8 DEF DepsSound
<1>17. StoresOnly'
  BY <1>t, <1>1, <1>4, <1>10 DEF StoresOnly
<1>18. TypeOK'
  <2>1. trace' \in Seq(Writes \cup Flushes \cup {Fence}) /\ Len(trace') <= MaxTrace
    BY <1>4 DEF Events, Now
  <2>2. dup_fence_list' \subseteq Fences' /\ dup_flush_list' \subseteq Stores'
    BY <1>t, <1>4, <1>10 DEF TypeOK
  <2>3. \A p \in plans' : p.persist \subseteq Stores' /\ p.start \in Stores'
    BY <1>t, <1>4 DEF TypeOK
  <2> QED
    BY <1>t, <1>1, <1>8, <1>9, <1>10, <2>1, <2>2, <2>3 DEF TypeOK
<1> QED
  BY <1>11, <1>12, <1>15, <1>16, <1>17, <1>18 DEF IInv

\* The end of the operation: the last clusters are written.
LEMMA EndStep ==
  ASSUME IInv, EndOfOp, UNCHANGED <<plans, pos, combs>>
  PROVE  IInv'
<1>k. PICK k : k = Cardinality(Fences) + 1
  OBVIOUS
<1>t. /\ trace \in Seq(Events) /\ Len(trace) <= MaxTrace
      /\ TypeOK /\ CacheHolds /\ StoresOnly /\ Tables /\ Clusters /\ DepsSound
  BY DEF IInv, TypeOK, Events
<1>1. /\ phase = "run" /\ phase' = "end" /\ RecordCluster
      /\ copies' = Kept(store, copies, {"FLUSHED"})
      /\ born' = LinesKept(store, copies', born)
      /\ flushing' = flushing \o <<FlushingOps, InFlight \ FlushingOps>>
      /\ UNCHANGED <<trace, store, last_op, dup_fence_list, dup_flush_list>>
  BY DEF EndOfOp
<1>3. /\ Now \in Nat /\ Now <= MaxTrace /\ Stores \subseteq 1 .. Now
      /\ Cardinality(Fences) \in Nat /\ k \in Nat
      /\ k <= MaxTrace + 1
      /\ \A f \in Fences : ClusterOf(f) \in 1 .. Cardinality(Fences)
  <2>1. /\ Now \in Nat /\ Now <= MaxTrace /\ Stores \subseteq 1 .. Now
        /\ Cardinality(Fences) \in Nat
    BY <1>t, TraceFacts
  <2>2. /\ Cardinality(Fences) <= Now
        /\ \A f \in Fences : ClusterOf(f) \in 1 .. Cardinality(Fences)
    BY <1>t, FewClusters
  <2> QED
    BY <1>k, <2>1, <2>2, CacheAssumption
<1>4. /\ Stores' = Stores /\ Fences' = Fences /\ Now' = Now
      /\ \A f \in Fences : ClusterOf(f)' = ClusterOf(f)
      /\ \A s, t : (Secured(s, t)' <=> Secured(s, t))
      /\ \A s, t : (FlushedSince(s, t)' <=> FlushedSince(s, t))
  BY <1>1 DEF Stores, Fences, Now, ClusterOf, Secured, FlushedSince, FlushedBy, FlushesLine
<1>5. /\ \A f : SecuredAt(f)' = SecuredAt(f)
      /\ \A f : PendingAt(f)' = PendingAt(f)
      /\ \A s : (Secured(s, Now)' <=> Secured(s, Now))
      /\ \A s : (FlushedSince(s, Now)' <=> FlushedSince(s, Now))
  BY <1>1 DEF Stores, Now, Secured, FlushedSince, FlushedBy, FlushesLine, SecuredAt, PendingAt
<1>7. /\ copies \in [Seqs -> Nat] /\ store \in [Seqs -> StoreObject]
      /\ born \in [Lines -> 0 .. MaxTrace] /\ flushing \in Seq(SUBSET Seqs)
      /\ Len(flushing) = Cardinality(Fences)
  <2>1. /\ copies \in [Seqs -> Nat] /\ store \in [Seqs -> StoreObject]
        /\ born \in [Lines -> 0 .. MaxTrace] /\ flushing \in Seq(SUBSET Seqs)
    BY <1>t DEF TypeOK
  <2>2. Len(flushing) = Cardinality(Fences)
    BY <1>t, <1>1, <1>3 DEF Clusters
  <2> QED
    BY <2>1, <2>2
<1>8. /\ seq_clusters' \in [Seqs -> SUBSET (1 .. (MaxTrace + 1))]
      /\ \A s \in Seqs : seq_clusters'[s] =
            seq_clusters[s] \cup IF s \in Stores /\ ~Secured(s, Now) THEN {k} ELSE {}
      /\ in_fight_num' \in Seq(Nat) /\ Len(in_fight_num') = k
      /\ write_dep' \in [Seqs -> SUBSET Seqs]
      /\ \A s \in Seqs : \A r \in write_dep'[s] :
            s \in Stores /\ r \in Stores /\ r < s /\ trace[r].line = trace[s].line
  BY <1>1, <1>3, <1>k, RecordSound
<1>9. /\ flushing' \in Seq(SUBSET Seqs) /\ Len(flushing') = k + 1
      /\ flushing'[k] = FlushingOps
      /\ \A i \in 1 .. Cardinality(Fences) : flushing'[i] = flushing[i]
  <2>1. FlushingOps \in SUBSET Seqs /\ InFlight \ FlushingOps \in SUBSET Seqs
    BY DEF FlushingOps, InFlight, InState, Cached
  <2>2. PICK a \in SUBSET Seqs, b \in SUBSET Seqs :
             a = FlushingOps /\ b = InFlight \ FlushingOps
    BY <2>1
  <2>3. PICK n : n = Len(flushing)
    OBVIOUS
  <2>4. n = Cardinality(Fences) /\ k = n + 1 /\ n \in Nat
    BY <1>3, <1>k, <1>7, <2>3
  <2>5. /\ flushing \o <<a, b>> \in Seq(SUBSET Seqs)
        /\ Len(flushing \o <<a, b>>) = n + 2
        /\ (flushing \o <<a, b>>)[n + 1] = a
        /\ \A i \in 1 .. n : (flushing \o <<a, b>>)[i] = flushing[i]
    BY <1>7, <2>3, <2>4
  <2> QED
    BY <1>1, <2>2, <2>4, <2>5
<1>10. /\ copies' \in [Seqs -> Nat] /\ born' \in [Lines -> 0 .. MaxTrace]
       /\ \A s \in Seqs : copies'[s] > 0 => copies[s] > 0
  BY <1>1, <1>7, KeptTypes
<1>11. CacheHolds' /\ DepsSound' /\ StoresOnly'
  <2>1. plans' = {}
    BY <1>t, <1>1 DEF StoresOnly
  <2> QED
    BY <1>t, <1>1, <1>4, <1>8, <1>10, <2>1 DEF CacheHolds, DepsSound, StoresOnly
<1>12. Clusters'
  <2>1. flushing'[Cardinality(Fences) + 1] =
            {s \in Stores : FlushedSince(s, Now) /\ ~Secured(s, Now)}
    BY <1>1, <1>9, <1>k, InFlightIs
  <2>2. \A c \in 1 .. Cardinality(Fences) : \E f \in Fences : ClusterOf(f) = c
    BY <1>t DEF Clusters
  <2>3. flushing'[Cardinality(Fences') + 1] =
            {s \in Stores' : FlushedSince(s, Now)' /\ ~Secured(s, Now)'}
    BY <1>4, <1>5, <2>1
  <2>4. \A c \in 1 .. Cardinality(Fences') : \E f \in Fences' : ClusterOf(f)' = c
    BY <1>4, <2>2
  <2>5. /\ Len(in_fight_num') = Cardinality(Fences') + 1
        /\ Len(flushing') = Cardinality(Fences') + 2
    BY <1>3, <1>k, <1>4, <1>8, <1>9
  <2> QED
    BY <1>1, <2>3, <2>4, <2>5 DEF Clusters
<1>13. Tables'
  <2>1. ASSUME NEW f \in Fences' PROVE flushing'[ClusterOf(f)'] = SecuredAt(f)'
    <3>1. flushing[ClusterOf(f)] = SecuredAt(f)
      BY <1>t, <1>4 DEF Tables
    <3> QED
      BY <1>3, <1>4, <1>5, <1>9, <3>1
  <2>2. ASSUME NEW s \in Seqs
        PROVE  seq_clusters'[s] =
                   {ClusterOf(f)' : f \in {g \in Fences' : s \in PendingAt(g)'}}
                   \cup IF s \notin Stores' \/ Secured(s, Now)' THEN {}
                        ELSE {Cardinality(Fences)' + 1}
    <3>1. seq_clusters[s] = {ClusterOf(f) : f \in {g \in Fences : s \in PendingAt(g)}}
      BY <1>t, <1>1 DEF Tables
    <3>2. seq_clusters'[s] =
             seq_clusters[s] \cup IF s \in Stores /\ ~Secured(s, Now) THEN {k} ELSE {}
      BY <1>8
    <3>3. {ClusterOf(f)' : f \in {g \in Fences' : s \in PendingAt(g)'}}
              = {ClusterOf(f) : f \in {g \in Fences : s \in PendingAt(g)}}
      BY <1>4, <1>5
    <3>4. /\ s \notin Stores' <=> s \notin Stores
          /\ Secured(s, Now)' <=> Secured(s, Now)
          /\ Cardinality(Fences)' + 1 = k
      BY <1>4, <1>5, <1>k
    <3> QED
      BY <3>1, <3>2, <3>3, <3>4
  <2> QED
    BY <1>1, <2>1, <2>2 DEF Tables
<1>14. TypeOK'
  <2>1. /\ trace' \in Seq(Writes \cup Flushes \cup {Fence}) /\ Len(trace') <= MaxTrace
    BY <1>t, <1>1 DEF TypeOK
  <2>2. dup_fence_list' \subseteq Fences' /\ dup_flush_list' \subseteq Stores'
    BY <1>t, <1>1, <1>4 DEF TypeOK
  <2>3. \A p \in plans' : p.persist \subseteq Stores' /\ p.start \in Stores'
    BY <1>t, <1>4 DEF TypeOK
  <2> QED
    BY <1>t, <1>1, <1>7, <1>8, <1>9, <1>10, <2>1, <2>2, <2>3 DEF TypeOK
<1> QED
  BY <1>11, <1>12, <1>13, <1>14 DEF IInv

-----------------------------------------------------------------------------
(* Time.                                                                    *)

\* What is flushed or secured stays so, a store is secured by a later fence
\* after a flush, and the earlier stores of its first line are secured with it.
LEMMA SecuredFacts ==
  ASSUME trace \in Seq(Events), Len(trace) <= MaxTrace, NEW s \in Stores, NEW t \in 0 .. Now
  PROVE  /\ Secured(s, t) => /\ FlushedSince(s, t)
                             /\ \E g \in Fences : s < g /\ g <= t
         /\ FlushedSince(s, t) => s <= t
         /\ \A u \in t .. Now : Secured(s, t) => Secured(s, u)
         /\ \A r \in Stores : r < s /\ trace[r].line = trace[s].line =>
                /\ Secured(s, t) => Secured(r, t)
                /\ FlushedSince(s, t) => FlushedSince(r, t)
<1>t. /\ Now \in Nat /\ DOMAIN trace = 1 .. Now /\ Stores \subseteq 1 .. Now
      /\ s \in Nat /\ t \in Nat /\ s \in 1 .. Now
  BY TraceFacts
<1>1. ASSUME Secured(s, t)
      PROVE  /\ FlushedSince(s, t)
             /\ \E g \in Fences : s < g /\ g <= t
  <2>a. PICK f \in s .. t : /\ FlushedBy(s, f)
                            /\ \E g \in (f + 1) .. t : trace[g].op = "fence"
    BY <1>1 DEF Secured
  <2>1. PICK g \in (f + 1) .. t : FlushedBy(s, f) /\ trace[g].op = "fence"
    BY <2>a
  <2>2. FlushedSince(s, t)
    BY <2>1 DEF FlushedSince
  <2>3. g \in 1 .. Now /\ s < g /\ g <= t
    BY <1>t, <2>1
  <2> QED
    BY <1>t, <2>1, <2>2, <2>3 DEF Fences
<1>2. ASSUME FlushedSince(s, t) PROVE s <= t
  <2>1. PICK f \in s .. t : TRUE
    BY <1>2 DEF FlushedSince
  <2> QED
    BY <1>t, <2>1
<1>3. ASSUME NEW u \in t .. Now, Secured(s, t) PROVE Secured(s, u)
  <2>a. PICK f \in s .. t : /\ FlushedBy(s, f)
                            /\ \E g \in (f + 1) .. t : trace[g].op = "fence"
    BY <1>3 DEF Secured
  <2>1. PICK g \in (f + 1) .. t : FlushedBy(s, f) /\ trace[g].op = "fence"
    BY <2>a
  <2>2. f \in s .. u
    BY <1>t, <2>1
  <2>3. g \in (f + 1) .. u
    BY <1>t, <2>1
  <2> QED
    BY <2>1, <2>2, <2>3 DEF Secured
<1>4. ASSUME NEW r \in Stores, r < s, trace[r].line = trace[s].line
      PROVE  /\ Secured(s, t) => Secured(r, t)
             /\ FlushedSince(s, t) => FlushedSince(r, t)
  <2>1. ASSUME NEW f \in s .. t, FlushedBy(s, f)
        PROVE  f \in r .. t /\ FlushedBy(r, f)
    <3>1. f \in r .. t /\ f > r
      BY <1>t, <1>4
    <3> QED
      BY <1>4, <2>1, <3>1 DEF FlushedBy
  <2> QED
    BY <2>1 DEF Secured, FlushedSince
<1> QED
  BY <1>1, <1>2, <1>3, <1>4

\* A store that is secured was secured by one fence.
LEMMA SecuringFence ==
  ASSUME trace \in Seq(Events), Len(trace) <= MaxTrace, NEW s \in Stores, NEW t \in 0 .. Now,
         Secured(s, t)
  PROVE  \E f \in Fences : f <= t /\ s \in SecuredAt(f)
<1>t. /\ Now \in Nat /\ DOMAIN trace = 1 .. Now /\ Stores \subseteq 1 .. Now
      /\ s \in Nat /\ t \in Nat /\ s \in 1 .. Now
  BY TraceFacts
<1> DEFINE T == {u \in 0 .. t : Secured(s, u)}
<1>1. T \in SUBSET Nat /\ T # {}
  BY <1>t
<1>2. PICK m : m \in T /\ \A y \in T : m <= y
  BY <1>1, MinOf
<1>3. m \in 0 .. t /\ Secured(s, m) /\ m \in 0 .. Now /\ m \in Nat
  BY <1>2, <1>t
<1>a. PICK f \in s .. m : /\ FlushedBy(s, f)
                          /\ \E g \in (f + 1) .. m : trace[g].op = "fence"
  BY <1>3 DEF Secured
<1>4. PICK g \in (f + 1) .. m : FlushedBy(s, f) /\ trace[g].op = "fence"
  BY <1>a
<1>5. f \in Nat /\ g \in Nat /\ g \in 0 .. t /\ f \in s .. g /\ g \in (f + 1) .. g
  BY <1>3, <1>4, <1>t
<1>6. Secured(s, g)
  BY <1>4, <1>5 DEF Secured
<1>7. g = m
  BY <1>2, <1>3, <1>4, <1>5, <1>6
<1>8. g \in Fences /\ s < g /\ g <= t
  <2>1. g \in 1 .. Now /\ s < g /\ g <= t
    BY <1>t, <1>3, <1>5, <1>7
  <2> QED
    BY <1>t, <1>4, <2>1 DEF Fences
<1>9. ~Secured(s, g - 1)
  <2>1. PICK w : w = g - 1
    OBVIOUS
  <2>2. w \in 0 .. t /\ ~(m <= w)
    BY <2>1, <1>5, <1>7, <1>8, <1>t
  <2>3. ~Secured(s, w)
    BY <1>2, <2>2
  <2> QED
    BY <2>1, <2>3
<1> QED
  BY <1>6, <1>8, <1>9 DEF SecuredAt

\* After a fence there is a first one, and a store before it is in flight then.
LEMMA FirstFence ==
  ASSUME trace \in Seq(Events), Len(trace) <= MaxTrace, NEW s \in Stores,
         NEW g \in Fences, s < g
  PROVE  \E f \in Fences : s < f /\ f <= g /\ s \in PendingAt(f)
<1>t. /\ Now \in Nat /\ Fences \subseteq 1 .. Now /\ Stores \subseteq 1 .. Now
      /\ s \in Nat /\ g \in Nat
  BY TraceFacts
<1> DEFINE T == {h \in Fences : s < h}
<1>1. T \in SUBSET Nat /\ g \in T
  <2>1. \A h \in Fences : h \in Nat
    BY <1>t
  <2> QED
    BY <2>1
<1>2. PICK f : f \in T /\ \A y \in T : f <= y
  BY <1>1, MinOf
<1>3. f \in Fences /\ s < f /\ f <= g /\ f \in 1 .. Now /\ f \in Nat
  <2>1. f \in Fences /\ s < f /\ f <= g
    BY <1>1, <1>2
  <2>2. f \in 1 .. Now
    BY <1>t, <2>1
  <2> QED
    BY <1>t, <2>1, <2>2
<1>4. ~Secured(s, f - 1)
  <2>1. PICK w : w = f - 1
    OBVIOUS
  <2>2. w \in 0 .. Now /\ w < f /\ w \in Nat
    BY <1>t, <1>3, <2>1
  <2>3. ASSUME Secured(s, w) PROVE FALSE
    <3>1. PICK h \in Fences : s < h /\ h <= w
      BY <2>2, <2>3, SecuredFacts
    <3>2. h \in T /\ h \in Nat
      BY <3>1, <1>t
    <3> QED
      BY <1>2, <1>3, <2>2, <3>1, <3>2
  <2> QED
    BY <2>1, <2>3
<1> QED
  BY <1>3, <1>4 DEF PendingAt

-----------------------------------------------------------------------------
(* The tables of a finished analysis.                                       *)

Analysed == IInv /\ phase # "run"

\* The members of a union of the members of a family.
LEMMA UnionOf ==
  ASSUME NEW F, NEW S, NEW x
  PROVE  x \in UNION {F[c] : c \in S} <=> \E c \in S : x \in F[c]
OBVIOUS

\* The clusters of the fences up to event t hold what is secured at t.
LEMMA ClustersUpTo ==
  ASSUME Analysed, NEW m \in 0 .. Cardinality(Fences), NEW t \in 0 .. Now,
         \A f \in Fences : ClusterOf(f) <= m <=> f <= t
  PROVE  UNION {flushing[c] : c \in 1 .. m} = {r \in Stores : Secured(r, t)}
<1>t. /\ trace \in Seq(Events) /\ Len(trace) <= MaxTrace
      /\ \A f \in Fences : flushing[ClusterOf(f)] = SecuredAt(f)
      /\ \A c \in 1 .. Cardinality(Fences) : \E f \in Fences : ClusterOf(f) = c
  BY DEF Analysed, IInv, TypeOK, Events, Tables, Clusters
<1>n. /\ Now \in Nat /\ Cardinality(Fences) \in Nat /\ Fences \subseteq 1 .. Now
      /\ m \in Nat /\ t \in Nat
  BY <1>t, TraceFacts
<1>1. ASSUME NEW c \in 1 .. m, NEW r \in flushing[c]
      PROVE  r \in Stores /\ Secured(r, t)
  <2>1. c \in 1 .. Cardinality(Fences)
    BY <1>n
  <2>2. PICK f \in Fences : ClusterOf(f) = c
    BY <1>t, <2>1
  <2>3. r \in Stores /\ Secured(r, f)
    BY <1>1, <1>t, <2>2 DEF SecuredAt
  <2>4. f <= t
    BY <1>n, <2>2
  <2>5. f \in 0 .. Now /\ t \in f .. Now
    BY <1>n, <2>4
  <2> QED
    BY <1>t, <2>3, <2>5, SecuredFacts
<1>2. ASSUME NEW r \in Stores, Secured(r, t)
      PROVE  \E c \in 1 .. m : r \in flushing[c]
  <2>1. PICK f \in Fences : f <= t /\ r \in SecuredAt(f)
    BY <1>2, <1>t, SecuringFence
  <2>2. ClusterOf(f) \in 1 .. Cardinality(Fences)
    BY <1>t, FewClusters
  <2>3. ClusterOf(f) \in 1 .. m
    BY <1>n, <2>1, <2>2
  <2> QED
    BY <1>t, <2>1, <2>3
<1> QED
  BY <1>1, <1>2

\* What is known of the clusters of a store.
LEMMA ClustersOfStore ==
  ASSUME Analysed, NEW s \in Stores
  PROVE  /\ seq_clusters[s] # {} /\ seq_clusters[s] \in SUBSET Nat
         /\ IsFiniteSet(seq_clusters[s])
         /\ \A c \in seq_clusters[s] :
               \/ \E f \in Fences : s \in PendingAt(f) /\ ClusterOf(f) = c
               \/ ~Secured(s, Now) /\ c = Cardinality(Fences) + 1
         /\ \A f \in Fences : s \in PendingAt(f) => ClusterOf(f) \in seq_clusters[s]
         /\ ~Secured(s, Now) => Cardinality(Fences) + 1 \in seq_clusters[s]
<1>t. /\ trace \in Seq(Events) /\ Len(trace) <= MaxTrace
      /\ seq_clusters \in [Seqs -> SUBSET (1 .. (MaxTrace + 1))]
  BY DEF Analysed, IInv, TypeOK, Events
<1>n. /\ Now \in Nat /\ Cardinality(Fences) \in Nat /\ Fences \subseteq 1 .. Now
      /\ s \in Seqs /\ Now \in 0 .. Now
  BY <1>t, TraceFacts
<1>1. seq_clusters[s] = {ClusterOf(f) : f \in {g \in Fences : s \in PendingAt(g)}}
                        \cup IF Secured(s, Now) THEN {} ELSE {Cardinality(Fences) + 1}
  BY <1>n DEF Analysed, IInv, Tables
<1>2. seq_clusters[s] # {}
  <2>1. CASE Secured(s, Now)
    <3>1. PICK g \in Fences : s < g
      BY <1>t, <1>n, <2>1, SecuredFacts
    <3>2. PICK f \in Fences : s \in PendingAt(f)
      BY <1>t, <3>1, FirstFence
    <3> QED
      BY <1>1, <3>2
  <2> QED
    BY <1>1, <2>1
<1>3. seq_clusters[s] \in SUBSET Nat /\ IsFiniteSet(seq_clusters[s])
  <2>1. seq_clusters[s] \in SUBSET (1 .. (MaxTrace + 1))
    BY <1>t, <1>n
  <2>2. IsFiniteSet(1 .. (MaxTrace + 1)) /\ 1 .. (MaxTrace + 1) \subseteq Nat
    <3>1. PICK w : w = MaxTrace + 1
      OBVIOUS
    <3>2. w \in Int /\ 1 \in Int
      BY <3>1, CacheAssumption
    <3>3. IsFiniteSet(1 .. w)
      BY <3>2, FS_Interval
    <3>4. 1 .. w \subseteq Nat
      BY <3>2
    <3> QED
      BY <3>1, <3>3, <3>4
  <2> QED
    BY <2>1, <2>2, FS_Subset
<1>4. /\ \A c \in seq_clusters[s] :
            \/ \E f \in Fences : s \in PendingAt(f) /\ ClusterOf(f) = c
            \/ ~Secured(s, Now) /\ c = Cardinality(Fences) + 1
      /\ \A f \in Fences : s \in PendingAt(f) => ClusterOf(f) \in seq_clusters[s]
      /\ ~Secured(s, Now) => Cardinality(Fences) + 1 \in seq_clusters[s]
  BY <1>1
<1> QED
  BY <1>2, <1>3, <1>4

\* What was persisted before the first cluster of a store was secured when the
\* store was written.
LEMMA BeforeFirst ==
  ASSUME Analysed, NEW s \in Stores
  PROVE  PersistedBefore(Min(seq_clusters[s])) = {r \in Stores : Secured(r, s)}
<1>t. trace \in Seq(Events) /\ Len(trace) <= MaxTrace
  BY DEF Analysed, IInv, TypeOK, Events
<1>n. /\ Now \in Nat /\ Cardinality(Fences) \in Nat /\ Fences \subseteq 1 .. Now
      /\ s \in 1 .. Now /\ s \in 0 .. Now /\ s \notin Fences
  <2>1. s \notin Fences
    BY <1>t, TraceFacts, EventKinds DEF Fences
  <2> QED
    BY <1>t, <2>1, TraceFacts
<1>1. PICK k : k = Min(seq_clusters[s])
  OBVIOUS
<1>2. k \in seq_clusters[s] /\ k \in Nat /\ \A c \in seq_clusters[s] : k <= c
  BY <1>1, ClustersOfStore, MinOf
<1>3. PICK m : m = k - 1
  OBVIOUS
<1>c. /\ \A f \in Fences : ClusterOf(f) \in 1 .. Cardinality(Fences)
      /\ \A f, g \in Fences : f < g => ClusterOf(f) < ClusterOf(g)
  BY <1>t, FewClusters
<1>4. m \in 0 .. Cardinality(Fences)
  <2>1. CASE k = Cardinality(Fences) + 1
    BY <1>n, <1>3, <2>1
  <2>2. CASE \E f \in Fences : ClusterOf(f) = k
    BY <1>n, <1>c, <1>3, <2>2
  <2> QED
    BY <1>2, <2>1, <2>2, ClustersOfStore
<1>5. ASSUME NEW f \in Fences PROVE ClusterOf(f) <= m <=> f <= s
  <2>0. f \in Nat /\ s \in Nat /\ ClusterOf(f) \in Nat /\ m \in Nat /\ f # s
        /\ ClusterOf(f) <= Cardinality(Fences)
    BY <1>n, <1>c, <1>4
  <2>1. ASSUME s < f PROVE ~(ClusterOf(f) <= m)
    <3>1. PICK g \in Fences : g <= f /\ s \in PendingAt(g)
      BY <1>t, <2>1, FirstFence
    <3>2. k <= ClusterOf(g) /\ ClusterOf(g) \in Nat
      BY <1>2, <1>c, <3>1, <1>n, ClustersOfStore
    <3>3. ClusterOf(g) <= ClusterOf(f)
      <4>1. g = f \/ g < f
        BY <1>n, <2>0, <3>1
      <4> QED
        BY <1>c, <2>0, <3>2, <4>1
    <3> QED
      BY <1>2, <1>3, <2>0, <3>2, <3>3
  <2>2. ASSUME f < s PROVE ClusterOf(f) <= m
    <3>1. CASE k = Cardinality(Fences) + 1
      BY <1>n, <1>3, <2>0, <3>1
    <3>2. CASE \E g \in Fences : s \in PendingAt(g) /\ ClusterOf(g) = k
      <4>1. PICK g \in Fences : s \in PendingAt(g) /\ ClusterOf(g) = k
        BY <3>2
      <4>2. f < g
        BY <1>n, <2>0, <2>2, <4>1 DEF PendingAt
      <4> QED
        BY <1>c, <1>2, <1>3, <2>0, <4>1, <4>2
    <3> QED
      BY <1>2, <3>1, <3>2, ClustersOfStore
  <2> QED
    BY <2>0, <2>1, <2>2
<1>6. PersistedBefore(k) = UNION {flushing[c] : c \in 1 .. m}
  BY <1>3 DEF PersistedBefore
<1> QED
  BY <1>1, <1>4, <1>5, <1>6, <1>n, ClustersUpTo

\* What is persisted at the end of the last cluster of a store: what is secured
\* with it or, if nothing secures it, what is flushed at the end.
LEMMA AfterLast ==
  ASSUME Analysed, NEW s \in Stores
  PROVE  /\ \A f \in Fences : s \in SecuredAt(f) =>
                PersistedBefore(Max(seq_clusters[s]) + 1) = {r \in Stores : Secured(r, f)}
         /\ ~Secured(s, Now) =>
                PersistedBefore(Max(seq_clusters[s]) + 1)
                    = {r \in Stores : FlushedSince(r, Now)}
<1>t. trace \in Seq(Events) /\ Len(trace) <= MaxTrace
  BY DEF Analysed, IInv, TypeOK, Events
<1>n. /\ Now \in Nat /\ Cardinality(Fences) \in Nat /\ Fences \subseteq 1 .. Now
      /\ s \in 1 .. Now /\ Now \in 0 .. Now
  BY <1>t, TraceFacts
<1>1. PICK k : k = Max(seq_clusters[s])
  OBVIOUS
<1>2. k \in seq_clusters[s] /\ k \in Nat /\ \A c \in seq_clusters[s] : k >= c
  BY <1>1, ClustersOfStore, MaxOf
<1>c. /\ \A f \in Fences : ClusterOf(f) \in 1 .. Cardinality(Fences)
      /\ \A f, g \in Fences : f < g => ClusterOf(f) < ClusterOf(g)
  BY <1>t, FewClusters
<1>6. PersistedBefore(k + 1) = UNION {flushing[c] : c \in 1 .. k}
  <2>1. (k + 1) - 1 = k
    BY <1>2
  <2> QED
    BY <2>1 DEF PersistedBefore
<1>3. ASSUME NEW f \in Fences, s \in SecuredAt(f)
      PROVE  PersistedBefore(k + 1) = {r \in Stores : Secured(r, f)}
  <2>0. f \in 1 .. Now /\ f \in 0 .. Now /\ f \in Nat
    BY <1>n
  <2>1. s < f /\ Secured(s, f) /\ s \in PendingAt(f)
    BY <1>3 DEF SecuredAt, PendingAt
  <2>2. k >= ClusterOf(f)
    BY <1>2, <2>1, ClustersOfStore
  <2>3. Secured(s, Now)
    <3>1. Now \in f .. Now
      BY <1>n, <2>0
    <3> QED
      BY <1>t, <2>0, <2>1, <3>1, SecuredFacts
  <2>4. PICK g \in Fences : s \in PendingAt(g) /\ ClusterOf(g) = k
    BY <1>2, <2>3, ClustersOfStore
  <2>5. ~(f < g)
    <3>1. PICK w : w = g - 1
      OBVIOUS
    <3>2. ASSUME f < g PROVE w \in f .. Now
      BY <1>n, <2>0, <3>1, <3>2
    <3>3. ~Secured(s, w)
      BY <2>4, <3>1 DEF PendingAt
    <3> QED
      BY <1>t, <2>0, <2>1, <3>2, <3>3, SecuredFacts
  <2>6. k = ClusterOf(f)
    <3>1. g = f \/ g < f
      BY <1>n, <2>0, <2>5
    <3>2. ClusterOf(f) \in Nat /\ ClusterOf(g) \in Nat
      BY <1>c
    <3> QED
      BY <1>c, <1>2, <2>2, <2>4, <3>1, <3>2
  <2>7. ASSUME NEW h \in Fences PROVE ClusterOf(h) <= k <=> h <= f
    <3>1. ClusterOf(f) \in Nat /\ ClusterOf(h) \in Nat /\ h \in Nat
      BY <1>c, <1>n
    <3>2. h < f \/ h = f \/ f < h
      BY <2>0, <3>1
    <3> QED
      BY <1>c, <2>0, <2>6, <3>1, <3>2
  <2>8. k \in 0 .. Cardinality(Fences)
    BY <1>c, <1>n, <2>6
  <2> QED
    BY <1>6, <2>0, <2>7, <2>8, ClustersUpTo
<1>4. ASSUME ~Secured(s, Now)
      PROVE  PersistedBefore(k + 1) = {r \in Stores : FlushedSince(r, Now)}
  <2>0. PICK m : m = Cardinality(Fences)
    OBVIOUS
  <2>1. m \in Nat /\ m + 1 \in seq_clusters[s]
    BY <1>4, <1>n, <2>0, ClustersOfStore
  <2>2. k = m + 1
    <3>1. k >= m + 1
      BY <1>2, <2>1
    <3>2. k = m + 1 \/ \E g \in Fences : ClusterOf(g) = k
      BY <1>2, <2>0, ClustersOfStore
    <3> QED
      BY <1>c, <1>2, <2>0, <2>1, <3>1, <3>2
  <2>3. UNION {flushing[c] : c \in 1 .. m} = {r \in Stores : Secured(r, Now)}
    <3>1. m \in 0 .. Cardinality(Fences)
      BY <1>n, <2>0
    <3>2. ASSUME NEW f \in Fences PROVE ClusterOf(f) <= m /\ f <= Now
      <4>1. f \in 1 .. Now /\ ClusterOf(f) \in 1 .. m
        BY <1>c, <1>n, <2>0
      <4> QED
        BY <1>n, <2>1, <4>1
    <3> QED
      BY <1>n, <3>1, <3>2, ClustersUpTo
  <2>4. flushing[k] = {r \in Stores : FlushedSince(r, Now) /\ ~Secured(r, Now)}
    <3>1. flushing[Cardinality(Fences) + 1] =
             {r \in Stores : FlushedSince(r, Now) /\ ~Secured(r, Now)}
      BY DEF Analysed, IInv, Clusters
    <3> QED
      BY <2>0, <2>2, <3>1
  <2>5. ASSUME NEW x
        PROVE  x \in PersistedBefore(k + 1)
                   <=> x \in UNION {flushing[c] : c \in 1 .. m} \/ x \in flushing[k]
    <3>1. 1 .. k = (1 .. m) \cup {k}
      BY <2>1, <2>2
    <3>2. x \in PersistedBefore(k + 1) <=> \E c \in 1 .. k : x \in flushing[c]
      BY <1>6, UnionOf
    <3>3. x \in UNION {flushing[c] : c \in 1 .. m} <=> \E c \in 1 .. m : x \in flushing[c]
      BY UnionOf
    <3>4. (\E c \in 1 .. k : x \in flushing[c]) <=>
              (\E c \in 1 .. m : x \in flushing[c]) \/ x \in flushing[k]
      BY <3>1
    <3> QED
      BY <3>2, <3>3, <3>4
  <2>6. \A r \in Stores : Secured(r, Now) => FlushedSince(r, Now)
    BY <1>t, <1>n, SecuredFacts
  <2>7. ASSUME NEW x
        PROVE  x \in PersistedBefore(k + 1) <=> x \in Stores /\ FlushedSince(x, Now)
    BY <2>3, <2>4, <2>5, <2>6
  <2> QED
    BY <2>7
<1> QED
  BY <1>1, <1>3, <1>4

-----------------------------------------------------------------------------
(* The steps of the two schemes.                                            *)

\* A plan persists stores of the operation and starts at one.
LEMMA PlanTypes ==
  ASSUME Analysed, NEW s \in Stores
  PROVE  /\ PersistSelf(s).persist \subseteq Stores /\ PersistSelf(s).start \in Stores
         /\ PersistOther(s).persist \subseteq Stores /\ PersistOther(s).start \in Stores
<1>t. trace \in Seq(Events) /\ Len(trace) <= MaxTrace
  BY DEF Analysed, IInv, TypeOK, Events
<1>n. /\ Now \in Nat /\ Stores \in SUBSET Nat /\ s \in Seqs /\ Now \in 0 .. Now
  <2>1. Now \in Nat /\ Stores \subseteq 1 .. Now /\ s \in Seqs
    BY <1>t, TraceFacts
  <2>2. \A r \in Stores : r \in Nat
    BY <2>1
  <2> QED
    BY <2>1, <2>2
<1>1. PersistSelf(s).persist \subseteq Stores /\ PersistSelf(s).start \in Stores
  <2> DEFINE base == {s} \cup PersistedBefore(Min(seq_clusters[s])) \cup write_dep[s]
             set  == base \cup TsoBefore(s, base)
  <2>1. PersistSelf(s).persist = set /\ PersistSelf(s).start = Min(set)
    BY DEF PersistSelf
  <2>2. PersistedBefore(Min(seq_clusters[s])) \subseteq Stores
    BY BeforeFirst
  <2>3. write_dep[s] \subseteq Stores
    BY <1>n DEF Analysed, IInv, DepsSound
  <2>4. TsoBefore(s, base) \subseteq Stores
    BY DEF TsoBefore, SameLines
  <2>5. set \subseteq Stores /\ s \in set
    BY <2>2, <2>3, <2>4
  <2> HIDE DEF set
  <2>6. Min(set) \in set
    BY <1>n, <2>5, MinOf
  <2> QED
    BY <2>1, <2>5, <2>6
<1>2. PersistOther(s).persist \subseteq Stores /\ PersistOther(s).start \in Stores
  <2> DEFINE all == PersistedBefore(Max(seq_clusters[s]) + 1) \ {s}
             set == {r \in all : ~(r > s /\ s \in write_dep[r])} \ TsoAfter(s)
  <2>1. PersistOther(s).persist = set /\ PersistOther(s).start = Min(set \cup {s})
    BY DEF PersistOther
  <2>2. PersistedBefore(Max(seq_clusters[s]) + 1) \subseteq Stores
    <3>1. CASE Secured(s, Now)
      <4>1. PICK f \in Fences : s \in SecuredAt(f)
        BY <1>t, <1>n, <3>1, SecuringFence
      <4> QED
        BY <4>1, AfterLast
    <3>2. CASE ~Secured(s, Now)
      BY <3>2, AfterLast
    <3> QED
      BY <3>1, <3>2
  <2>3. set \subseteq Stores
    BY <2>2
  <2> HIDE DEF set
  <2>4. Min(set \cup {s}) \in set \cup {s}
    <3>1. set \cup {s} \in SUBSET Nat /\ set \cup {s} # {}
      BY <1>n, <2>3
    <3> QED
      BY <3>1, MinOf
  <2> QED
    BY <2>1, <2>3, <2>4
<1> QED
  BY <1>1, <1>2

\* The tables of a finished analysis stay.
LEMMA AnalysisKept ==
  ASSUME Analysed, phase' # "run", UNCHANGED <<trace, mapVars>>
  PROVE  CacheHolds' /\ Clusters' /\ Tables' /\ DepsSound'
<1>1. UNCHANGED <<trace, seq_clusters, flushing, in_fight_num, write_dep>>
  BY DEF mapVars
<1>4. /\ Stores' = Stores /\ Fences' = Fences /\ Now' = Now
      /\ \A f : ClusterOf(f)' = ClusterOf(f)
      /\ Cardinality(Fences)' = Cardinality(Fences)
  BY <1>1 DEF Stores, Fences, Now, ClusterOf
<1>5. /\ \A f : SecuredAt(f)' = SecuredAt(f)
      /\ \A f : PendingAt(f)' = PendingAt(f)
      /\ \A s : (Secured(s, Now)' <=> Secured(s, Now))
      /\ \A s : (FlushedSince(s, Now)' <=> FlushedSince(s, Now))
  BY <1>1 DEF Stores, Now, Secured, FlushedSince, FlushedBy, FlushesLine, SecuredAt, PendingAt
<1>6. CacheHolds' /\ DepsSound'
  BY <1>1, <1>4 DEF CacheHolds, DepsSound, Analysed, IInv
<1>7. Clusters'
  <2>1. /\ \A c \in 1 .. Cardinality(Fences) : \E f \in Fences : ClusterOf(f) = c
        /\ Len(in_fight_num) = Cardinality(Fences) + 1
        /\ Len(flushing) = Cardinality(Fences) + 2
        /\ flushing[Cardinality(Fences) + 1] =
               {s \in Stores : FlushedSince(s, Now) /\ ~Secured(s, Now)}
    BY DEF Analysed, IInv, Clusters
  <2>2. flushing'[Cardinality(Fences)' + 1] =
            {s \in Stores' : FlushedSince(s, Now)' /\ ~Secured(s, Now)'}
    BY <1>1, <1>4, <1>5, <2>1
  <2> QED
    BY <1>1, <1>4, <2>1, <2>2 DEF Clusters
<1>8. Tables'
  <2>1. /\ \A f \in Fences : flushing[ClusterOf(f)] = SecuredAt(f)
        /\ \A s \in Seqs :
              seq_clusters[s] =
                  {ClusterOf(f) : f \in {g \in Fences : s \in PendingAt(g)}}
                  \cup IF s \notin Stores \/ Secured(s, Now) THEN {}
                       ELSE {Cardinality(Fences) + 1}
    BY DEF Analysed, IInv, Tables
  <2>2. ASSUME NEW s \in Seqs
        PROVE seq_clusters'[s] =
                  {ClusterOf(f)' : f \in {g \in Fences' : s \in PendingAt(g)'}}
                  \cup IF s \notin Stores' \/ Secured(s, Now)' THEN {}
                       ELSE {Cardinality(Fences)' + 1}
    <3>1. {ClusterOf(f)' : f \in {g \in Fences' : s \in PendingAt(g)'}}
              = {ClusterOf(f) : f \in {g \in Fences : s \in PendingAt(g)}}
      BY <1>4, <1>5
    <3> QED
      BY <1>1, <1>4, <1>5, <2>1, <3>1
  <2>3. \A f \in Fences' : flushing'[ClusterOf(f)'] = SecuredAt(f)'
    BY <1>1, <1>4, <1>5, <2>1
  <2> QED
    BY <2>2, <2>3 DEF Tables
<1> QED
  BY <1>6, <1>7, <1>8

\* The plans are made, and no store lacks a cluster.
LEMMA GenerateStep ==
  ASSUME IInv, Generate2CP
  PROVE  IInv'
<1>1. phase = "end" /\ Analysed
  BY DEF Generate2CP, Analysed
<1>2. /\ phase' = "planned"
      /\ plans' = {PersistSelf(s) : s \in Stores} \cup {PersistOther(s) : s \in Stores}
      /\ UNCHANGED <<trace, store, cacheVars, mapVars, pos, combs>>
  BY <1>1, ClustersOfStore DEF Generate2CP
<1>3. UNCHANGED <<trace, store, copies, born, last_op, dup_fence_list, dup_flush_list,
                  seq_clusters, flushing, in_fight_num, write_dep, pos, combs>>
  BY <1>2 DEF cacheVars, mapVars
<1>4. Stores' = Stores /\ Fences' = Fences
  BY <1>3 DEF Stores, Fences
<1>5. \A s : PersistSelf(s)' = PersistSelf(s) /\ PersistOther(s)' = PersistOther(s)
  BY <1>3, <1>4 DEF PersistSelf, PersistOther, PersistedBefore, TsoBefore, TsoAfter, SameLines
<1>6. StoresOnly'
  BY <1>2, <1>3, <1>4, <1>5 DEF IInv, StoresOnly
<1>7. TypeOK'
  <2>1. \A p \in plans' : p.persist \subseteq Stores' /\ p.start \in Stores'
    BY <1>1, <1>2, <1>4, PlanTypes
  <2> QED
    BY <1>2, <1>3, <1>4, <2>1 DEF IInv, TypeOK
<1>8. CacheHolds' /\ Clusters' /\ Tables' /\ DepsSound'
  BY <1>1, <1>2, AnalysisKept
<1> QED
  BY <1>6, <1>7, <1>8 DEF IInv

\* The comb scheme starts with an empty cache, and ends with what it has.
LEMMA CombEnds ==
  ASSUME IInv, StartComb \/ CombDone
  PROVE  IInv'
<1>1. /\ phase \in {"end", "comb"} /\ Analysed /\ phase' \in {"comb", "counted"}
      /\ UNCHANGED <<trace, store, mapVars, plans, pos, combs>>
  BY DEF StartComb, CombDone, Analysed
<1>2. UNCHANGED <<seq_clusters, flushing, in_fight_num, write_dep>>
  BY <1>1 DEF mapVars
<1>3. Stores' = Stores /\ Fences' = Fences
  BY <1>1 DEF Stores, Fences
<1>4. TypeOK /\ StoresOnly /\ plans = {}
  BY <1>1 DEF IInv, StoresOnly
<1>5. /\ copies' \in [Seqs -> Nat] /\ born' \in [Lines -> 0 .. MaxTrace]
      /\ last_op' \in {"none", "store", "flush", "fence"}
      /\ dup_fence_list' \subseteq Fences /\ dup_flush_list' \subseteq Stores
      /\ \A s \in Seqs : copies'[s] > 0 => s \in Stores
  <2>1. CASE StartComb
    <3>1. 0 \in 0 .. MaxTrace
      BY CacheAssumption
    <3> QED
      BY <2>1, <3>1 DEF StartComb
  <2>2. CASE CombDone
    BY <1>4, <2>2 DEF CombDone, cacheVars, TypeOK, StoresOnly
  <2> QED
    BY <2>1, <2>2
<1>6. StoresOnly'
  BY <1>1, <1>3, <1>4, <1>5 DEF StoresOnly
<1>7. TypeOK'
  BY <1>1, <1>2, <1>3, <1>4, <1>5 DEF TypeOK
<1>8. CacheHolds' /\ Clusters' /\ Tables' /\ DepsSound'
  BY <1>1, AnalysisKept
<1> QED
  BY <1>6, <1>7, <1>8 DEF IInv

\* One event of the comb scheme's pass.
LEMMA CombStepKeeps ==
  ASSUME IInv, CombStep
  PROVE  IInv'
<1>1. /\ phase = "comb" /\ phase' = "comb" /\ Analysed /\ pos <= Len(trace)
      /\ pos' = pos + 1 /\ UNCHANGED <<trace, mapVars, plans>>
  BY DEF CombStep, Analysed
<1>2. UNCHANGED <<seq_clusters, flushing, in_fight_num, write_dep>>
  BY <1>1 DEF mapVars
<1>3. Stores' = Stores /\ Fences' = Fences
  BY <1>1 DEF Stores, Fences
<1>4. TypeOK /\ StoresOnly /\ plans = {} /\ trace \in Seq(Events) /\ Len(trace) <= MaxTrace
  BY <1>1 DEF IInv, StoresOnly, TypeOK, Events
<1>n. /\ pos \in 1 .. Now /\ pos \in Seqs /\ pos \in 0 .. MaxTrace
      /\ pos + 1 \in 1 .. (MaxTrace + 1) /\ trace[pos] \in Events /\ DOMAIN trace = 1 .. Now
  <2>1. /\ pos \in Nat /\ 1 <= pos /\ Len(trace) \in Nat /\ MaxTrace \in Nat
        /\ Now = Len(trace)
    BY <1>4, CacheAssumption DEF TypeOK, Now
  <2>2. pos \in 1 .. Now /\ pos \in Seqs /\ pos \in 0 .. MaxTrace
    BY <1>1, <1>4, <2>1 DEF Seqs
  <2>3. pos + 1 \in 1 .. (MaxTrace + 1)
    BY <1>1, <1>4, <2>1
  <2> QED
    BY <1>4, <2>2, <2>3, TraceFacts
<1> DEFINE e == trace[pos]
<1>t. /\ copies \in [Seqs -> Nat] /\ store \in [Seqs -> StoreObject]
      /\ born \in [Lines -> 0 .. MaxTrace] /\ Cached \subseteq Stores
      /\ \A s \in Seqs : copies[s] > 0 => s \in Stores
      /\ dup_fence_list \subseteq Fences /\ dup_flush_list \subseteq Stores
      /\ last_op \in {"none", "store", "flush", "fence"}
  BY <1>4 DEF TypeOK, StoresOnly, Cached
<1>5. /\ copies' \in [Seqs -> Nat] /\ store' \in [Seqs -> StoreObject]
      /\ born' \in [Lines -> 0 .. MaxTrace]
      /\ last_op' \in {"none", "store", "flush", "fence"}
      /\ dup_fence_list' \subseteq Fences /\ dup_flush_list' \subseteq Stores
      /\ \A s \in Seqs : copies'[s] > 0 => s \in Stores
  <2>1. CASE IsStore(e)
    <3> DEFINE cp == [copies EXCEPT ![pos] = @ + 1]
               nt == e.op \in FlushedWrites
    <3>1. /\ copies' = cp
          /\ store' = IF nt THEN Flushed(store, cp, e.line .. e.last) ELSE store
          /\ born' = Touched(IF nt THEN e.line .. e.last ELSE {e.line}, pos)
          /\ last_op' = IF nt THEN "flush" ELSE "store"
          /\ UNCHANGED <<dup_fence_list, dup_flush_list>>
      <4>1. e.op # "flush"
        BY <2>1, CacheAssumption DEF IsStore
      <4> QED
        BY <2>1, <4>1 DEF CombStep
    <3>2. pos \in Stores
      BY <1>n, <2>1 DEF Stores
    <3>3. cp \in [Seqs -> Nat] /\ \A s \in Seqs : s # pos => cp[s] = copies[s]
      BY <1>n, <1>t
    <3> HIDE DEF cp
    <3>4. store' \in [Seqs -> StoreObject]
      BY <1>t, <3>1, <3>3, FlushedObjects
    <3>5. born' \in [Lines -> 0 .. MaxTrace]
      BY <1>n, <1>t, <3>1, KeptTypes
    <3> QED
      BY <1>t, <3>1, <3>2, <3>3, <3>4, <3>5
  <2>2. CASE ~IsStore(e) /\ e.op = "flush"
    <3>1. /\ store' = Flushed(store, copies, {e.line})
          /\ born' = Touched({e.line}, pos) /\ last_op' = "flush"
          /\ UNCHANGED <<copies, dup_fence_list, dup_flush_list>>
      BY <2>2 DEF CombStep
    <3>2. store' \in [Seqs -> StoreObject]
      BY <1>t, <3>1, FlushedObjects
    <3>3. born' \in [Lines -> 0 .. MaxTrace]
      BY <1>n, <1>t, <3>1, KeptTypes
    <3> QED
      BY <1>t, <3>1, <3>2, <3>3
  <2>3. CASE ~IsStore(e) /\ e.op # "flush"
    <3>1. AcceptFence(pos)
      BY <2>3 DEF CombStep
    <3>2. pos \in Fences
      <4>1. e.op = "fence"
        BY <1>n, <2>3, EventKinds DEF Events
      <4> QED
        BY <1>n, <4>1 DEF Fences
    <3>3. /\ store' = Fenced(store, copies)
          /\ dup_flush_list' = dup_flush_list \cup {s \in Cached : store[s].flushes > 1}
          /\ dup_fence_list' = dup_fence_list \cup IF last_op = "fence" THEN {pos} ELSE {}
          /\ last_op' = "fence"
          /\ copies' = Kept(store', copies, {"FLUSHED", "PERSISTED"})
          /\ born' = LinesKept(store', copies', born)
      BY <3>1 DEF AcceptFence
    <3>4. store' \in [Seqs -> StoreObject]
      BY <1>t, <3>3, FencedObjects
    <3>5. /\ copies' \in [Seqs -> Nat] /\ born' \in [Lines -> 0 .. MaxTrace]
          /\ \A s \in Seqs : copies'[s] > 0 => copies[s] > 0
      BY <1>t, <3>3, <3>4, KeptTypes
    <3> QED
      BY <1>t, <3>2, <3>3, <3>4, <3>5
  <2> QED
    BY <2>1, <2>2, <2>3
<1>6. StoresOnly'
  BY <1>1, <1>3, <1>4, <1>5 DEF StoresOnly
<1>7. TypeOK'
  BY <1>1, <1>2, <1>3, <1>4, <1>5, <1>n DEF TypeOK
<1>8. CacheHolds' /\ Clusters' /\ Tables' /\ DepsSound'
  BY <1>1, AnalysisKept
<1> QED
  BY <1>6, <1>7, <1>8 DEF IInv

\* Every step keeps the invariant.
LEMMA PlansNextIInv == IInv /\ [PlansNext]_allVars => IInv'
<1> SUFFICES ASSUME IInv, [PlansNext]_allVars PROVE IInv'
  OBVIOUS
<1>1. CASE Analyse
  <2>1. UNCHANGED <<plans, pos, combs>> /\ Next
    BY <1>1 DEF Analyse
  <2>2. ASSUME NEW e \in Writes, Store(e) PROVE IInv'
    BY <2>1, <2>2, StoreStep
  <2>3. ASSUME NEW e \in Flushes, Flush(e) PROVE IInv'
    BY <2>1, <2>3, FlushStep
  <2>4. CASE FenceEvent
    BY <2>1, <2>4, FenceStep
  <2>5. CASE EndOfOp
    BY <2>1, <2>5, EndStep
  <2> QED
    BY <2>1, <2>2, <2>3, <2>4, <2>5 DEF Next
<1>2. CASE Generate2CP
  BY <1>2, GenerateStep
<1>3. CASE StartComb \/ CombDone
  BY <1>3, CombEnds
<1>4. CASE CombStep
  BY <1>4, CombStepKeeps
<1>5. CASE UNCHANGED allVars
  <2>1. /\ UNCHANGED <<trace, phase, store, copies, born, last_op, dup_fence_list,
                       dup_flush_list, seq_clusters, flushing, in_fight_num, write_dep>>
        /\ UNCHANGED <<plans, pos, combs>>
    BY <1>5 DEF allVars, vars, cacheVars, mapVars
  <2> QED
    <3>1. Stores' = Stores /\ Fences' = Fences
      BY <2>1 DEF Stores, Fences
    <3>2. TypeOK' /\ DepsSound'
      BY <2>1, <3>1 DEF IInv, TypeOK, DepsSound
    <3>3. CacheHolds'
      <4>1. \A s : /\ (Secured(s, Now)' <=> Secured(s, Now))
                   /\ (FlushedSince(s, Now)' <=> FlushedSince(s, Now))
        BY <2>1 DEF Now, Secured, FlushedSince, FlushedBy, FlushesLine
      <4> QED
        BY <2>1, <3>1, <4>1 DEF IInv, CacheHolds
    <3>4. Clusters'
      BY <2>1, <3>1 DEF IInv, Clusters, Now, Secured, FlushedSince, FlushedBy, FlushesLine,
                        ClusterOf
    <3>5. Tables'
      <4>1. /\ \A f : ClusterOf(f)' = ClusterOf(f) /\ SecuredAt(f)' = SecuredAt(f)
            /\ \A f : PendingAt(f)' = PendingAt(f)
            /\ \A s : (Secured(s, Now)' <=> Secured(s, Now))
            /\ Cardinality(Fences)' = Cardinality(Fences)
        BY <2>1, <3>1 DEF Now, Secured, FlushedBy, FlushesLine, ClusterOf, SecuredAt, PendingAt
      <4>2. ASSUME NEW s \in Seqs
            PROVE  {ClusterOf(f)' : f \in {g \in Fences' : s \in PendingAt(g)'}}
                       = {ClusterOf(f) : f \in {g \in Fences : s \in PendingAt(g)}}
        BY <3>1, <4>1
      <4>3. \A f \in Fences' : flushing'[ClusterOf(f)'] = SecuredAt(f)'
        BY <2>1, <3>1, <4>1 DEF IInv, Tables
      <4>4. ASSUME NEW s \in Seqs
            PROVE  seq_clusters'[s] =
                      {ClusterOf(f)' : f \in {g \in Fences' : s \in PendingAt(g)'}}
                      \cup IF phase' = "run" \/ s \notin Stores' \/ Secured(s, Now)' THEN {}
                           ELSE {Cardinality(Fences)' + 1}
        <5>1. seq_clusters[s] =
                  {ClusterOf(f) : f \in {g \in Fences : s \in PendingAt(g)}}
                  \cup IF phase = "run" \/ s \notin Stores \/ Secured(s, Now) THEN {}
                       ELSE {Cardinality(Fences) + 1}
          BY DEF IInv, Tables
        <5> QED
          BY <2>1, <3>1, <4>1, <4>2, <5>1
      <4> QED
        BY <4>3, <4>4 DEF Tables
    <3>6. StoresOnly'
      <4>1. \A s : PersistSelf(s)' = PersistSelf(s) /\ PersistOther(s)' = PersistOther(s)
        BY <2>1, <3>1 DEF PersistSelf, PersistOther, PersistedBefore, TsoBefore, TsoAfter,
                          SameLines
      <4> QED
        BY <2>1, <3>1, <4>1 DEF IInv, StoresOnly
    <3> QED
      BY <3>2, <3>3, <3>4, <3>5, <3>6 DEF IInv
<1> QED
  BY <1>1, <1>2, <1>3, <1>4, <1>5 DEF PlansNext, Finished

\* The inductive invariant holds.
LEMMA PlansIInv == PlansSpec => []IInv
<1> QED
  BY PlansInitIInv, PlansNextIInv, PTL DEF PlansSpec

-----------------------------------------------------------------------------
(* The results.                                                             *)

\* If the first line of a store tells, it is durable when that line says so:
\* a copy over several lines that flushes itself flushes all of them.
LEMMA DurableIsSecured ==
  ASSUME FirstLineTells, trace \in Seq(Events), Len(trace) <= MaxTrace,
         NEW s \in Stores, NEW t \in 0 .. Now
  PROVE  Durable(s, t) <=> Secured(s, t)
<1>t. /\ Now \in Nat /\ s \in 1 .. Now /\ s \in Nat /\ t \in Nat /\ trace[s] \in Writes
      /\ trace[s].line \in Nat /\ trace[s].last \in Nat /\ trace[s].line <= trace[s].last
  BY TraceFacts
<1>1. ASSUME Durable(s, t) PROVE Secured(s, t)
  <2>1. trace[s].line \in trace[s].line .. trace[s].last
    BY <1>t
  <2> QED
    BY <1>1, <2>1 DEF Durable, Secured, FlushedBy
<1>2. ASSUME Secured(s, t) PROVE Durable(s, t)
  <2>1. PICK f \in s .. t : /\ FlushedBy(s, f)
                            /\ \E g \in (f + 1) .. t : trace[g].op = "fence"
    BY <1>2 DEF Secured
  <2>2. CASE trace[s].last = trace[s].line
    <3>1. \A l \in trace[s].line .. trace[s].last : l = trace[s].line
      BY <1>t, <2>2
    <3> QED
      BY <2>1, <3>1 DEF Durable, FlushedBy
  <2>3. CASE trace[s].last # trace[s].line
    <3>1. trace[s].op \in FlushedWrites
      <4>1. /\ trace[s].op \in Kinds /\ trace[s].op \in Copies
            /\ <<trace[s].line, trace[s].last>> \in Spans
        BY <1>t, <2>3 DEF Writes
      <4>2. trace[s].op # "copy"
        BY <4>1 DEF FirstLineTells
      <4> QED
        BY <4>1, <4>2 DEF Copies, FlushedWrites
    <3>2. PICK g \in (f + 1) .. t : trace[g].op = "fence"
      BY <2>1
    <3>3. s \in s .. t /\ g \in (s + 1) .. t
      BY <1>t, <2>1, <3>2
    <3>4. ASSUME NEW l \in trace[s].line .. trace[s].last PROVE FlushesLine(s, l)
      BY <1>t, <3>1 DEF FlushesLine
    <3> QED
      BY <3>1, <3>2, <3>3, <3>4 DEF Durable
  <2> QED
    BY <2>2, <2>3
<1> QED
  BY <1>1, <1>2

\* The tables are right when the first line of a store tells.
LEMMA TablesAreRight ==
  ASSUME FirstLineTells, IInv
  PROVE  ClustersSound
<1>t. /\ trace \in Seq(Events) /\ Len(trace) <= MaxTrace /\ TypeOK /\ Tables /\ StoresOnly
  BY DEF IInv, TypeOK, Events
<1>n. /\ Now \in Nat /\ Fences \subseteq 1 .. Now /\ Now \in 0 .. Now /\ Len(trace) = Now
      /\ \A s \in Stores : s \in Seqs
  BY <1>t, TraceFacts DEF Now
<1>1. ASSUME NEW f \in Fences
      PROVE  /\ \A s \in Stores : Durable(s, f) <=> Secured(s, f)
             /\ \A s \in Stores : Durable(s, f - 1) <=> Secured(s, f - 1)
  <2>1. PICK w : w = f - 1
    OBVIOUS
  <2>2. f \in 0 .. Now /\ w \in 0 .. Now
    BY <1>n, <2>1
  <2>3. \A s \in Stores : Durable(s, w) <=> Secured(s, w)
    BY <1>t, <2>2, DurableIsSecured
  <2>4. \A s \in Stores : Durable(s, f) <=> Secured(s, f)
    BY <1>t, <2>2, DurableIsSecured
  <2> QED
    BY <2>1, <2>3, <2>4
<1>2. FlushingIsPersisted
  BY <1>t, <1>1 DEF FlushingIsPersisted, Tables, SecuredAt
<1>3. ClustersSpanFlight
  <2> SUFFICES ASSUME phase \in {"end", "planned", "raised"}, NEW s \in Stores
               PROVE  /\ seq_clusters[s] =
                            {ClusterOf(f) : f \in {g \in Fences : s \in InFlightAt(g)}}
                            \cup IF Durable(s, Len(trace)) THEN {}
                                 ELSE {Cardinality(Fences) + 1}
    BY <1>t DEF ClustersSpanFlight, StoresOnly
  <2>1. seq_clusters[s] = {ClusterOf(f) : f \in {g \in Fences : s \in PendingAt(g)}}
                          \cup IF Secured(s, Now) THEN {} ELSE {Cardinality(Fences) + 1}
    BY <1>t, <1>n DEF Tables
  <2>2. Durable(s, Len(trace)) <=> Secured(s, Now)
    BY <1>t, <1>n, DurableIsSecured
  <2>3. \A g \in Fences : s \in InFlightAt(g) <=> s \in PendingAt(g)
    BY <1>1 DEF InFlightAt, PendingAt
  <2>4. {g \in Fences : s \in InFlightAt(g)} = {g \in Fences : s \in PendingAt(g)}
    BY <2>3
  <2> QED
    BY <2>1, <2>2, <2>4
<1> QED
  BY <1>t, <1>2, <1>3 DEF ClustersSound

\* THEOREM: types, and a plan for every store, whatever the operation writes:
\* generate_crash_plans never raises GuestExceptionForDebug.
THEOREM PlansAlwaysMade == PlansSpec => [](TypeOK /\ phase # "raised")
<1>1. IInv => TypeOK /\ phase # "raised"
  BY DEF IInv, StoresOnly
<1> QED
  BY <1>1, PlansIInv, PTL

\* THEOREM: for every operation without a copy over several lines that does not
\* flush itself, the cluster of a fence has exactly the stores that become
\* durable there, and a store has the clusters of the time it is in flight.
THEOREM PlansClustersSound ==
  ASSUME FirstLineTells
  PROVE  PlansSpec => []ClustersSound
<1>1. IInv => ClustersSound
  BY TablesAreRight
<1> QED
  BY <1>1, PlansIInv, PTL

\* Without copies over several lines, the stores of a line are those that
\* start there.
LEMMA OneLineEach ==
  ASSUME Spans = {}, trace \in Seq(Events), Len(trace) <= MaxTrace
  PROVE  /\ \A r, s \in Stores : Share(r, s) <=> trace[r].line = trace[s].line
         /\ \A s \in Stores : SameLines(s) = {r \in Stores : trace[r].line = trace[s].line}
         /\ FirstLineTells
<1>1. \A s \in Stores : /\ trace[s].line \in Nat /\ trace[s].last = trace[s].line
  <2> SUFFICES ASSUME NEW s \in Stores
               PROVE  trace[s].line \in Nat /\ trace[s].last = trace[s].line
    OBVIOUS
  <2>1. trace[s] \in Writes /\ trace[s].line \in Nat
    BY TraceFacts
  <2> QED
    BY <2>1 DEF Writes
<1>2. \A a, b \in Nat : a <= b /\ b <= a <=> a = b
  OBVIOUS
<1>3. ASSUME NEW r \in Stores, NEW s \in Stores
      PROVE  Share(r, s) <=> trace[r].line = trace[s].line
  BY <1>1, <1>2 DEF Share
<1>4. ASSUME NEW s \in Stores
      PROVE  SameLines(s) = {r \in Stores : trace[r].line = trace[s].line}
  <2>1. ASSUME NEW r \in Stores
        PROVE  (trace[s].line <= trace[r].line /\ trace[r].last <= trace[s].last)
                   <=> trace[r].line = trace[s].line
    BY <1>1, <1>2
  <2> QED
    BY <2>1 DEF SameLines
<1> QED
  BY <1>3, <1>4 DEF FirstLineTells

\* A set of stores that is closed under what a line persists first is feasible.
LEMMA FeasibleIf ==
  ASSUME Spans = {}, Analysed, NEW img \in SUBSET Stores, NEW t \in 0 .. Now,
         \A x \in img : x <= t,
         \A x \in Stores : Secured(x, t) => x \in img,
         \A x \in img, r \in Stores : r < x /\ trace[r].line = trace[x].line => r \in img
  PROVE  Feasible(img, t)
<1>t. trace \in Seq(Events) /\ Len(trace) <= MaxTrace
  BY DEF Analysed, IInv, TypeOK, Events
<1>1. /\ \A r, s \in Stores : Share(r, s) <=> trace[r].line = trace[s].line
      /\ FirstLineTells
  BY <1>t, OneLineEach
<1>2. \A s \in Stores : Durable(s, t) <=> Secured(s, t)
  BY <1>t, <1>1, DurableIsSecured
<1> QED
  BY <1>1, <1>2 DEF Feasible

\* The image of a "persist self" plan can be left right after its store.
LEMMA SelfFeasible ==
  ASSUME Spans = {}, Analysed, NEW s \in Stores
  PROVE  /\ s \in Image(PersistSelf(s))
         /\ Feasible(Image(PersistSelf(s)), s)
<1>t. trace \in Seq(Events) /\ Len(trace) <= MaxTrace
  BY DEF Analysed, IInv, TypeOK, Events
<1>n. /\ Now \in Nat /\ s \in 0 .. Now /\ s \in Seqs /\ s \in Nat
      /\ \A r \in Stores : r \in Nat
  <2>1. Now \in Nat /\ Stores \subseteq 1 .. Now /\ s \in Seqs
    BY <1>t, TraceFacts
  <2> QED
    BY <2>1
<1> DEFINE base == {s} \cup PersistedBefore(Min(seq_clusters[s])) \cup write_dep[s]
           set  == base \cup TsoBefore(s, base)
<1>1. /\ PersistSelf(s).persist = set /\ PersistSelf(s).start = Min(set)
      /\ PersistSelf(s).seq = s
  BY DEF PersistSelf
<1>2. PersistedBefore(Min(seq_clusters[s])) = {r \in Stores : Secured(r, s)}
  BY BeforeFirst
<1>3. \A r \in write_dep[s] : r \in Stores /\ r < s /\ trace[r].line = trace[s].line
  BY <1>n DEF Analysed, IInv, DepsSound
<1>4. base \in SUBSET Stores /\ s \in base
  BY <1>2, <1>3
<1>5. PICK b : b = Min(base) /\ b \in base /\ b \in Nat /\ \A y \in base : b <= y
  <2>1. base \in SUBSET Nat
    BY <1>4, <1>n
  <2> HIDE DEF base
  <2> QED
    BY <1>4, <2>1, MinOf
<1>6. TsoBefore(s, base) = {r \in Stores : trace[r].line = trace[s].line /\ b < r /\ r < s}
  <2>1. SameLines(s) = {r \in Stores : trace[r].line = trace[s].line}
    BY <1>t, OneLineEach
  <2> HIDE DEF base
  <2> QED
    BY <1>5, <2>1 DEF TsoBefore
<1>7. \A x : x \in set <=> /\ x \in Stores
                           /\ \/ x = s \/ Secured(x, s) \/ x \in write_dep[s]
                              \/ trace[x].line = trace[s].line /\ b < x /\ x < s
  BY <1>2, <1>3, <1>6
<1>b. b \in set
  BY <1>5
<1>m. \A x \in base : b <= x
  BY <1>5
<1>d. \A x \in set : b <= x
  <2>1. ASSUME NEW x \in TsoBefore(s, base) PROVE b <= x
    <3>1. x \in Stores /\ b < x
      BY <1>6
    <3>2. x \in Nat /\ b \in Nat
      BY <1>5, <1>n, <3>1
    <3> HIDE DEF base, set
    <3> QED
      BY <3>1, <3>2
  <2> QED
    BY <1>m, <2>1
<1> HIDE DEF base, set
<1>8. Min(set) = b
  <2>1. set \in SUBSET Nat /\ set # {}
    BY <1>7, <1>n, <1>b
  <2>2. Min(set) \in set /\ \A y \in set : Min(set) <= y
    BY <2>1, MinOf
  <2>3. PICK m : m = Min(set)
    OBVIOUS
  <2>4. m \in Nat /\ m <= b /\ b <= m
    BY <2>1, <2>2, <2>3, <1>b, <1>d
  <2> QED
    BY <1>5, <2>3, <2>4
<1> DEFINE img == Image(PersistSelf(s))
<1>9. \A x : x \in img <=> x \in Stores /\ (x < b \/ x \in set)
  <2>1. s \in set
    BY <1>7
  <2>2. \A x : x \in img <=> x \in Stores /\ (x < PersistSelf(s).start
                                 \/ x \in PersistSelf(s).persist
                                 \/ (x = PersistSelf(s).seq /\ Sampled(PersistSelf(s))))
    BY DEF Image
  <2> QED
    BY <1>1, <1>8, <2>1, <2>2
<1> HIDE DEF img
<1>10. s \in img /\ b <= s
  BY <1>7, <1>9, <1>d
<1>11. ASSUME NEW x \in img PROVE x <= s
  <2>0. x \in Nat /\ x \in Stores
    BY <1>9, <1>n
  <2>1. ASSUME Secured(x, s) PROVE x <= s
    BY <1>t, <1>n, <2>0, <2>1, SecuredFacts
  <2> QED
    BY <1>3, <1>5, <1>7, <1>9, <1>10, <1>n, <2>0, <2>1
<1>12. \A x \in Stores : Secured(x, s) => x \in img
  BY <1>7, <1>9
<1>13. ASSUME NEW x \in img, NEW r \in Stores, r < x, trace[r].line = trace[x].line
       PROVE  r \in img
  <2>0. x \in Nat /\ r \in Nat /\ x \in Stores
    BY <1>9, <1>n
  <2>1. CASE x < b
    BY <1>5, <1>9, <1>13, <2>0, <2>1
  <2>2. CASE Secured(x, s)
    <3>1. Secured(r, s)
      BY <1>t, <1>n, <1>13, <2>0, <2>2, SecuredFacts
    <3> QED
      BY <1>12, <3>1
  <2>3. CASE trace[x].line = trace[s].line /\ x <= s
    <3>1. r < s
      BY <1>13, <1>n, <2>0, <2>3
    <3>2. r < b \/ r = b \/ b < r
      BY <1>5, <2>0
    <3>3. trace[r].line = trace[s].line
      BY <1>13, <2>3
    <3> QED
      BY <1>7, <1>9, <1>b, <3>1, <3>2, <3>3
  <2>4. x < b \/ Secured(x, s) \/ (trace[x].line = trace[s].line /\ x <= s)
    <3>1. x <= s
      BY <1>11
    <3> QED
      BY <1>3, <1>7, <1>9, <3>1
  <2> QED
    BY <2>1, <2>2, <2>3, <2>4
<1>14. Feasible(img, s)
  <2>1. img \in SUBSET Stores
    BY <1>9
  <2> QED
    BY <1>n, <1>11, <1>12, <1>13, <2>1, FeasibleIf
<1> QED
  BY <1>10, <1>14 DEF img

\* The image of a "persist other" plan can be left just before its store
\* becomes durable, or at the end if it never does.
LEMMA OtherFeasible ==
  ASSUME Spans = {}, Analysed, NEW s \in Stores, ~Sampled(PersistOther(s))
  PROVE  /\ s \notin Image(PersistOther(s))
         /\ \E t \in s .. Now : Feasible(Image(PersistOther(s)), t)
<1>t. trace \in Seq(Events) /\ Len(trace) <= MaxTrace
  BY DEF Analysed, IInv, TypeOK, Events
<1>n. /\ Now \in Nat /\ s \in 1 .. Now /\ s \in Seqs /\ s \in Nat /\ Now \in 0 .. Now
      /\ Stores \subseteq 1 .. Now /\ Fences \subseteq 1 .. Now
      /\ \A r \in Stores : r \in Nat /\ r \in Seqs /\ r <= Now
  <2>1. /\ Now \in Nat /\ Stores \subseteq 1 .. Now /\ s \in Seqs /\ Fences \subseteq 1 .. Now
        /\ \A r \in Stores : r \in Seqs
    BY <1>t, TraceFacts
  <2> QED
    BY <2>1
<1> DEFINE P == PersistedBefore(Max(seq_clusters[s]) + 1)
\* The moment, and what is persisted by then.
<1>1. \E t \in s .. Now :
         /\ ~Secured(s, t)
         /\ P \in SUBSET Stores
         /\ \A x \in P : x <= t
         /\ \A x \in Stores : Secured(x, t) => x \in P
         /\ \A x \in P, r \in Stores : r < x /\ trace[r].line = trace[x].line => r \in P
  <2>1. CASE Secured(s, Now)
    <3>1. PICK f \in Fences : s \in SecuredAt(f)
      BY <1>t, <1>n, <2>1, SecuringFence
    <3>2. P = {r \in Stores : Secured(r, f)}
      BY <3>1, AfterLast
    <3>3. PICK t : t = f - 1
      OBVIOUS
    <3>4. s < f /\ ~Secured(s, t)
      BY <3>1, <3>3 DEF SecuredAt
    <3>5. f \in Nat /\ f \in 0 .. Now /\ t \in s .. Now /\ t \in 0 .. Now /\ f \in t .. Now
      <4>1. f \in 1 .. Now
        BY <1>n
      <4> QED
        BY <1>n, <3>3, <3>4, <4>1
    <3>6. ASSUME NEW x \in P PROVE x <= t
      <4>1. x \in Stores /\ Secured(x, f)
        BY <3>2
      <4>2. PICK g \in Fences : x < g /\ g <= f
        BY <1>t, <3>5, <4>1, SecuredFacts
      <4>3. x \in Nat /\ g \in Nat
        BY <1>n, <4>1
      <4> QED
        BY <3>3, <3>5, <4>2, <4>3
    <3>7. \A x \in Stores : Secured(x, t) => x \in P
      BY <1>t, <3>2, <3>5, SecuredFacts
    <3>8. \A x \in P, r \in Stores : r < x /\ trace[r].line = trace[x].line => r \in P
      BY <1>t, <3>2, <3>5, SecuredFacts
    <3>9. P \in SUBSET Stores
      BY <3>2
    <3> HIDE DEF P
    <3> QED
      BY <3>4, <3>5, <3>6, <3>7, <3>8, <3>9
  <2>2. CASE ~Secured(s, Now)
    <3>1. P = {r \in Stores : FlushedSince(r, Now)}
      BY <2>2, AfterLast
    <3>2. Now \in s .. Now
      BY <1>n
    <3>3. \A x \in P : x <= Now
      BY <3>1, <1>n
    <3>4. \A x \in Stores : Secured(x, Now) => x \in P
      BY <1>t, <1>n, <3>1, SecuredFacts
    <3>5. \A x \in P, r \in Stores : r < x /\ trace[r].line = trace[x].line => r \in P
      BY <1>t, <1>n, <3>1, SecuredFacts
    <3>6. P \in SUBSET Stores
      BY <3>1
    <3> HIDE DEF P
    <3> QED
      BY <2>2, <3>2, <3>3, <3>4, <3>5, <3>6
  <2> QED
    BY <2>1, <2>2
<1>2. PICK t \in s .. Now :
         /\ ~Secured(s, t)
         /\ P \in SUBSET Stores
         /\ \A x \in P : x <= t
         /\ \A x \in Stores : Secured(x, t) => x \in P
         /\ \A x \in P, r \in Stores : r < x /\ trace[r].line = trace[x].line => r \in P
  BY <1>1
<1>3. t \in Nat /\ t \in 0 .. Now /\ s <= t
  BY <1>n, <1>2
<1> DEFINE set == {r \in P \ {s} : ~(r > s /\ s \in write_dep[r])} \ TsoAfter(s)
<1>4. /\ PersistOther(s).persist = set /\ PersistOther(s).start = Min(set \cup {s})
      /\ PersistOther(s).seq = s
  BY DEF PersistOther
\* What depends on the store is a later store of its line.
<1>5. \A x : x \in set <=> x \in P /\ x # s /\ ~(x > s /\ trace[x].line = trace[s].line)
  <2>1. TsoAfter(s) = {r \in Stores : trace[r].line = trace[s].line /\ r > s}
    <3>1. SameLines(s) = {r \in Stores : trace[r].line = trace[s].line}
      BY <1>t, OneLineEach
    <3> QED
      BY <3>1 DEF TsoAfter
  <2>2. \A x \in Stores : s \in write_dep[x] => trace[x].line = trace[s].line
    BY <1>n DEF Analysed, IInv, DepsSound
  <2>3. \A x \in P : x \in Stores
    BY <1>2
  <2> HIDE DEF P
  <2> QED
    BY <2>1, <2>2, <2>3
<1> HIDE DEF P, set
<1>6. PICK b : b = Min(set \cup {s}) /\ b \in Nat /\ b <= s
  <2>1. set \cup {s} \in SUBSET Nat
    BY <1>2, <1>5, <1>n
  <2>2. Min(set \cup {s}) \in set \cup {s} /\ Min(set \cup {s}) <= s
    BY <2>1, MinOf
  <2> QED
    BY <2>1, <2>2
<1> DEFINE img == Image(PersistOther(s))
<1>7. \A x : x \in img <=> x \in Stores /\ (x < b \/ x \in set)
  <2>1. \A x : x \in img <=> x \in Stores /\ (x < PersistOther(s).start
                                 \/ x \in PersistOther(s).persist
                                 \/ (x = PersistOther(s).seq /\ Sampled(PersistOther(s))))
    BY DEF Image
  <2> QED
    BY <1>4, <1>6, <2>1
<1> HIDE DEF img
<1>8. s \notin img
  <2>1. s \notin set /\ ~(s < b)
    BY <1>5, <1>6, <1>n
  <2> QED
    BY <1>7, <2>1
<1>9. ASSUME NEW x \in img PROVE x <= t
  <2>1. x \in Nat /\ (x < b \/ x \in P)
    BY <1>5, <1>7, <1>n
  <2> QED
    BY <1>2, <1>3, <1>6, <1>n, <2>1
<1>10. ASSUME NEW x \in Stores, Secured(x, t) PROVE x \in img
  <2>1. x \in P /\ x # s
    BY <1>2, <1>10
  <2>2. ~(x > s /\ trace[x].line = trace[s].line)
    <3>1. ASSUME x > s, trace[x].line = trace[s].line PROVE FALSE
      <4>1. s < x
        BY <1>n, <3>1
      <4> QED
        BY <1>t, <1>2, <1>3, <1>10, <3>1, <4>1, SecuredFacts
    <3> QED
      BY <3>1
  <2> QED
    BY <1>5, <1>7, <2>1, <2>2
<1>11. ASSUME NEW x \in img, NEW r \in Stores, r < x, trace[r].line = trace[x].line
       PROVE  r \in img
  <2>0. x \in Nat /\ r \in Nat /\ x \in Stores
    BY <1>7, <1>n
  <2>1. CASE x < b
    BY <1>6, <1>7, <1>11, <2>0, <2>1
  <2>2. CASE x \in set
    <3>1. x \in P /\ r \in P
      BY <1>2, <1>5, <1>11, <2>2
    <3>2. r # s
      BY <1>5, <1>11, <1>n, <2>0, <2>2
    <3>3. ~(r > s /\ trace[r].line = trace[s].line)
      BY <1>5, <1>11, <1>n, <2>0, <2>2
    <3> QED
      BY <1>5, <1>7, <3>1, <3>2, <3>3
  <2> QED
    BY <1>7, <2>1, <2>2
<1>12. Feasible(img, t)
  <2>1. img \in SUBSET Stores
    BY <1>7
  <2> QED
    BY <1>3, <1>9, <1>10, <1>11, <2>1, FeasibleIf
<1> QED
  BY <1>2, <1>8, <1>12 DEF img

\* THEOREM: for every operation whose copies stay within a line, the image of
\* every plan of the 2cp scheme is one the hardware can leave after the store,
\* with the store in it exactly if the plan persists the store itself.
THEOREM PlansImagesFeasible ==
  ASSUME Spans = {}
  PROVE  PlansSpec => []ImagesFeasible
<1>1. ASSUME IInv PROVE ImagesFeasible
  <2> SUFFICES ASSUME NEW p \in plans, ~(p.kind = "other" /\ Sampled(p))
               PROVE  /\ (p.seq \in Image(p)) <=> p.kind = "self"
                      /\ \E t \in p.seq .. Len(trace) : Feasible(Image(p), t)
    BY DEF ImagesFeasible
  <2>1. Analysed
    BY <1>1 DEF Analysed, IInv, StoresOnly
  <2>2. PICK s \in Stores : p = PersistSelf(s) \/ p = PersistOther(s)
    BY <1>1 DEF IInv, StoresOnly
  <2>3. s \in s .. Len(trace)
    <3>1. s \in 1 .. Now /\ Now \in Nat /\ Now = Len(trace)
      BY <1>1, TraceFacts DEF IInv, TypeOK, Events, Now
    <3> QED
      BY <3>1
  <2>4. CASE p = PersistSelf(s)
    <3>1. p.seq = s /\ p.kind = "self"
      BY <2>4 DEF PersistSelf
    <3> QED
      BY <2>1, <2>3, <2>4, <3>1, SelfFeasible
  <2>5. CASE p = PersistOther(s)
    <3>1. p.seq = s /\ p.kind = "other"
      BY <2>5 DEF PersistOther
    <3> QED
      BY <2>1, <2>5, <3>1, OtherFeasible DEF Now
  <2> QED
    BY <2>2, <2>4, <2>5
<1>2. IInv => ImagesFeasible
  BY <1>1
<1> QED
  BY <1>2, PlansIInv, PTL

=============================================================================

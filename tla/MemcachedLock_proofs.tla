------------------------- MODULE MemcachedLock_proofs -------------------------
(***************************************************************************)
(* The lock of memcached_lock.py excludes, for any number of processes and *)
(* retries, and implements Mutex, as long as one process initialises it    *)
(* and no answer to the cas of release_lock is lost.                       *)
(***************************************************************************)
EXTENDS MemcachedLock, TLAPS

\* init_lock is called once, and release_lock gets its answers.
WellUsed == /\ \A p, q \in Initialisers : p = q
            /\ "release" \notin Lossy

\* What the cas_ids guarantee: while an owner exists the key is LOCKED, so a
\* process that read UNLOCKED and whose cas_id is current excludes one.
LockInv ==
    /\ TypeOK
    /\ \A p \in Procs : Owns(p) => val = "LOCKED"
    /\ \A p, q \in Procs : Owns(p) /\ Owns(q) => p = q
    /\ \A p \in Procs : pc[p] = "acqCas" /\ p \in fresh => val = "UNLOCKED"
    /\ \A p \in Procs : pc[p] = "new" => p \in Initialisers /\ val = "ABSENT"

\* No owner at first.
LEMMA LockInit == Init => LockInv
  BY LockAssumption DEF Init, LockInv, TypeOK, Owns, Pcs

\* Goto and Retry in terms of the types.
LEMMA LockTypes ==
  ASSUME TypeOK, NEW p \in Procs, Acquire(p) \/ Step(p)
  PROVE  TypeOK'
<1> USE LockAssumption DEF TypeOK, Goto, Retry, MoreTries, Store, Pcs
<1>1. CASE Acquire(p)
  BY <1>1 DEF Acquire
<1>2. CASE InitLock(p)
  BY <1>2 DEF InitLock
<1>3. CASE GetsFails(p)
  BY <1>3 DEF GetsFails
<1>4. CASE AcquireGets(p)
  BY <1>4 DEF AcquireGets
<1>5. CASE AcquireCas(p)
  BY <1>5 DEF AcquireCas, Cas
<1>6. CASE Release(p)
  BY <1>6 DEF Release
<1>7. CASE ReleaseGets(p)
  BY <1>7 DEF ReleaseGets
<1>8. CASE ReleaseCas(p)
  BY <1>8 DEF ReleaseCas, Cas
<1> QED
  BY <1>1, <1>2, <1>3, <1>4, <1>5, <1>6, <1>7, <1>8 DEF Step

\* Every step of a well-used lock keeps the invariant.
LEMMA LockNext ==
  ASSUME WellUsed, LockInv, [Next]_vars
  PROVE  LockInv'
<1>t. TypeOK /\ TypeOK'
  <2>1. CASE UNCHANGED vars
    BY <2>1 DEF LockInv, TypeOK, vars
  <2>2. CASE ~UNCHANGED vars
    BY <2>2, LockTypes DEF LockInv, Next
  <2> QED
    BY <2>1, <2>2
<1> USE <1>t DEF Goto, Retry, Store, Owns
<1>1. ASSUME NEW p \in Procs, Acquire(p) PROVE LockInv'
  BY <1>1 DEF LockInv, TypeOK, Acquire
<1>2. ASSUME NEW p \in Procs, InitLock(p) PROVE LockInv'
  BY <1>2 DEF LockInv, TypeOK, InitLock, WellUsed
<1>3. ASSUME NEW p \in Procs, GetsFails(p) PROVE LockInv'
  BY <1>3 DEF LockInv, TypeOK, GetsFails
<1>4. ASSUME NEW p \in Procs, AcquireGets(p) PROVE LockInv'
  BY <1>4 DEF LockInv, TypeOK, AcquireGets
<1>5. ASSUME NEW p \in Procs, AcquireCas(p) PROVE LockInv'
  BY <1>5 DEF LockInv, TypeOK, AcquireCas, Cas, CasStores
<1>6. ASSUME NEW p \in Procs, Release(p) PROVE LockInv'
  BY <1>6 DEF LockInv, TypeOK, Release
<1>7. ASSUME NEW p \in Procs, ReleaseGets(p) PROVE LockInv'
  BY <1>7 DEF LockInv, TypeOK, ReleaseGets
<1>8. ASSUME NEW p \in Procs, ReleaseCas(p) PROVE LockInv'
  BY <1>8 DEF LockInv, TypeOK, ReleaseCas, Cas, CasStores, WellUsed
<1>9. CASE UNCHANGED vars
  BY <1>9 DEF LockInv, TypeOK, vars
<1> QED
  BY <1>1, <1>2, <1>3, <1>4, <1>5, <1>6, <1>7, <1>8, <1>9 DEF Next, Step

\* The invariant in every reachable state.
LEMMA LockAlways == ASSUME WellUsed PROVE Spec => []LockInv
<1>1. LockInv /\ [Next]_vars => LockInv'
  BY LockNext
<1> QED
  BY <1>1, LockInit, PTL DEF Spec

\* acquire_lock never returns True to a process while another one is between
\* its acquire_lock and its release_lock, even if answers to gets and to the
\* cas of acquire_lock are lost.
THEOREM LockExcludes ==
  ASSUME WellUsed PROVE Spec => []MutualExclusion
<1>1. LockInv => MutualExclusion
  BY DEF LockInv, MutualExclusion, Owns
<1> QED
  BY <1>1, LockAlways, PTL

\* The owner is the one that owns.
LEMMA OwnerIs ==
  ASSUME LockInv
  PROVE  /\ \A p \in Procs : Owns(p) => owner = p
         /\ (\A p \in Procs : ~Owns(p)) => owner = Nobody
  BY DEF LockInv, owner

\* Every step of the protocol is a step of the abstract lock or none.
THEOREM LockImplementsMutex ==
  ASSUME WellUsed PROVE Spec => IsMutex
<1>1. Init => M!Init
  BY DEF Init, M!Init, owner, Owns
<1>2. LockInv /\ LockInv' /\ [Next]_vars => [M!Next]_owner
  <2> SUFFICES ASSUME LockInv, LockInv', [Next]_vars PROVE [M!Next]_owner
    OBVIOUS
  <2>t. TypeOK /\ TypeOK'
    BY DEF LockInv
  <2>1. ASSUME NEW p \in Procs, Acquire(p) \/ Step(p) PROVE [M!Next]_owner
    <3>1. \A q \in Procs : q # p => (Owns(q)' <=> Owns(q))
      BY <2>1, <2>t DEF TypeOK, Owns, Step, Acquire, InitLock, GetsFails,
         AcquireGets, AcquireCas, Release, ReleaseGets, ReleaseCas, Cas, Goto,
         Retry
    <3>2. CASE Owns(p)' /\ ~Owns(p)
      <4>1. \A q \in Procs : ~Owns(q)
        BY <3>1, <3>2 DEF LockInv
      <4>2. owner = Nobody /\ owner' = p
        BY <3>2, <4>1, OwnerIs DEF LockInv, owner
      <4> QED
        BY <4>2 DEF M!Next, M!Take
    <3>3. CASE ~Owns(p)' /\ Owns(p)
      <4>1. \A q \in Procs : ~Owns(q)'
        BY <3>1, <3>3 DEF LockInv
      <4>2. owner = p /\ owner' = Nobody
        BY <3>3, <4>1, OwnerIs DEF LockInv, owner
      <4> QED
        BY <4>2 DEF M!Next, M!GiveBack
    <3>4. CASE Owns(p)' <=> Owns(p)
      <4>1. \A q \in Procs : Owns(q)' <=> Owns(q)
        BY <3>1, <3>4
      <4>2. CASE \E q \in Procs : Owns(q)
        <5>1. PICK q \in Procs : Owns(q)
          BY <4>2
        <5>2. owner = q /\ owner' = q
          BY <4>1, <5>1, OwnerIs DEF LockInv, owner
        <5> QED
          BY <5>2
      <4>3. CASE ~\E q \in Procs : Owns(q)
        BY <4>1, <4>3 DEF owner
      <4> QED
        BY <4>2, <4>3
    <3> QED
      BY <3>2, <3>3, <3>4
  <2>2. CASE UNCHANGED vars
    <3>1. \A q \in Procs : Owns(q)' <=> Owns(q)
      BY <2>2 DEF vars, Owns
    <3> QED
      BY <2>2 DEF vars, owner, Owns
  <2> QED
    BY <2>1, <2>2 DEF Next
<1> QED
  BY <1>1, <1>2, LockAlways, PTL DEF IsMutex, M!Spec, Spec
=============================================================================

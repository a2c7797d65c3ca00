---------------------------- MODULE MemcachedLock ----------------------------
(***************************************************************************)
(* The lock of memcached_lock.py: a key of the memcached server that holds *)
(* "UNLOCKED" or "LOCKED", changed by a gets and a cas that succeeds only  *)
(* if nobody stored the key in between.  The wrappers of                   *)
(* memcached_wrapper.py repeat a call whose answer did not arrive, up to   *)
(* MC_CMD_RETRY_TIMES times, and a cas that is repeated after the server   *)
(* executed it is answered "no".                                           *)
(***************************************************************************)
EXTENDS Naturals

CONSTANTS
    Procs,          \* the users of the lock
    Initialisers,   \* those that call init_lock first (MemcachedMutex does)
    Lossy,          \* the calls whose request or answer may be lost
    Tries,          \* MC_CMD_RETRY_TIMES
    Nobody          \* not a process

ASSUME LockAssumption ==
    /\ Initialisers \subseteq Procs
    /\ Lossy \subseteq {"gets", "acquire", "release"}
    /\ Tries \in Nat \ {0}
    /\ Nobody \notin Procs

VARIABLES
    val,     \* the value of the key, or "ABSENT"
    fresh,   \* processes whose cas_id is the one the key has now
    pc,      \* location of a process
    tries    \* retry_times of the wrapper call a process is in

vars == <<val, fresh, pc, tries>>

Pcs == {"new", "idle", "acqGets", "acqCas", "held", "relGets", "relCas",
        "failed"}

Init ==
    /\ val = "ABSENT" /\ fresh = {}
    /\ pc = [p \in Procs |-> IF p \in Initialisers THEN "new" ELSE "idle"]
    /\ tries = [p \in Procs |-> Tries]

\* p goes on to l, where a new wrapper call begins.
Goto(p, l) == /\ pc' = [pc EXCEPT ![p] = l]
              /\ tries' = [tries EXCEPT ![p] = Tries]

\* The loop of a wrapper, after it counted the current attempt down.
MoreTries(p) == tries[p] > 1

\* The call got no usable answer: it is repeated, or MemcachedOPFailed raised.
Retry(p) ==
    IF MoreTries(p)
    THEN tries' = [tries EXCEPT ![p] = @ - 1] /\ UNCHANGED pc
    ELSE Goto(p, "failed")

\* The server stores v: every cas_id handed out so far is out of date.
Store(v) == val' = v /\ fresh' = {}

\* The server executes a cas of p only if the key was not stored since its gets.
BugCasStores(p) == TRUE
CasStores(p) == p \in fresh

InitLock(p) == pc[p] = "new" /\ Store("UNLOCKED") /\ Goto(p, "idle")

Acquire(p) == pc[p] = "idle" /\ Goto(p, "acqGets") /\ UNCHANGED <<val, fresh>>

Release(p) == pc[p] = "held" /\ Goto(p, "relGets") /\ UNCHANGED <<val, fresh>>

\* gets answers with the value and the cas_id.  For a key that does not exist
\* both are None, which the wrapper takes for a failed call.
GetsFails(p) ==
    /\ pc[p] \in {"acqGets", "relGets"}
    /\ val = "ABSENT" \/ "gets" \in Lossy
    /\ Retry(p)
    /\ UNCHANGED <<val, fresh>>

AcquireGets(p) ==
    /\ pc[p] = "acqGets"
    /\ \/ val = "LOCKED" /\ Goto(p, "acqGets") /\ UNCHANGED fresh
       \/ val = "UNLOCKED" /\ Goto(p, "acqCas") /\ fresh' = fresh \cup {p}
    /\ UNCHANGED val

ReleaseGets(p) ==
    /\ pc[p] = "relGets" /\ val # "ABSENT"
    /\ Goto(p, "relCas")
    /\ fresh' = fresh \cup {p}
    /\ UNCHANGED val

\* One attempt of mc_cas_wrapper to store v.  With an answer p goes on to yes
\* or no.  Without one the call is repeated with the old cas_id, whether the
\* server has executed it or not.
Cas(p, v, yes, no, kind) ==
    \/ CasStores(p) /\ Store(v) /\ Goto(p, yes)
    \/ ~CasStores(p) /\ Goto(p, no) /\ UNCHANGED <<val, fresh>>
    \/ /\ kind \in Lossy
       /\ Retry(p)
       /\ \/ CasStores(p) /\ Store(v)
          \/ UNCHANGED <<val, fresh>>

AcquireCas(p) ==
    pc[p] = "acqCas" /\ Cas(p, "LOCKED", "held", "acqGets", "acquire")

ReleaseCas(p) ==
    pc[p] = "relCas" /\ Cas(p, "UNLOCKED", "idle", "relGets", "release")

Step(p) == \/ InitLock(p) \/ GetsFails(p) \/ AcquireGets(p) \/ AcquireCas(p)
           \/ Release(p) \/ ReleaseGets(p) \/ ReleaseCas(p)

Next == \E p \in Procs : Acquire(p) \/ Step(p)

Spec == Init /\ [][Next]_vars

-----------------------------------------------------------------------------
\* Types of the key, the cas ids and the users; no wrapper call runs out of
\* tries and goes on.
TypeOK ==
    /\ val \in {"ABSENT", "UNLOCKED", "LOCKED"}
    /\ fresh \in SUBSET Procs
    /\ pc \in [Procs -> Pcs]
    /\ tries \in [Procs -> 1 .. Tries]

\* acquire_lock has returned True to at most one process that has not called
\* release_lock since ("mutex is thread-safe", as the test of the lock says).
MutualExclusion ==
    \A p, q \in Procs : pc[p] = "held" /\ pc[q] = "held" => p = q

\* p has acquired the lock and has not given it back.
Owns(p) == pc[p] \in {"held", "relGets", "relCas"}

owner == IF \E p \in Procs : Owns(p) THEN CHOOSE p \in Procs : Owns(p) ELSE Nobody

\* The gets and cas protocol implements a lock: acquire_lock takes it from
\* nobody, release_lock gives back what its caller holds.
M == INSTANCE Mutex WITH holder <- owner
IsMutex == M!Spec
=============================================================================

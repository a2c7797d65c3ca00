--------------------------- MODULE SSHConfigPool ---------------------------
(***************************************************************************)
(* The pool of ssh configurations (ssh_config.py): each stands for a port  *)
(* that was free on the host and for a Host entry in ~/.ssh/config.  The   *)
(* pool backs the file up when it is created and puts it back when it is   *)
(* destroyed.  A host that dies in between leaves its entries behind, and  *)
(* the next one starts again from the first port.                          *)
(***************************************************************************)
EXTENDS Naturals, Sequences, FiniteSets, Functions

CONSTANTS
    FIRST_PORT_NUM, LAST_PORT_NUM,
    pool_size,       \* env.SSH_POOL_SIZE()
    MaxHosts         \* bound: host processes after the first one

ASSUME PoolAssumption ==
    /\ FIRST_PORT_NUM \in Nat \ {0} /\ LAST_PORT_NUM \in Nat
    /\ pool_size \in Nat /\ MaxHosts \in Nat

Ports == FIRST_PORT_NUM .. LAST_PORT_NUM
NoConf == 0

\* What a loop over list s keeps in the first i rounds, by i, if it keeps the
\* elements that are in S; and what it keeps of the whole list.
KeptUpTo(s, S) ==
    LET kept[i \in 0 .. Len(s)] ==
            IF i = 0 THEN <<>>
            ELSE IF s[i] \in S THEN Append(kept[i - 1], s[i]) ELSE kept[i - 1]
    IN  kept
Only(s, S) == KeptUpTo(s, S)[Len(s)]

VARIABLES
    free_pool, using_pool,   \* the two lists of configurations
    glo_start_port,          \* the first port that was not looked at yet
    file,                    \* the Host entries in ~/.ssh/config
    backup,                  \* the entries in the backup of it
    held,                    \* ghost: what callers of alloc_ssh_config hold
    pool,                    \* "open", "kept" or "destoried" by destory_pool,
                             \* "died"
    hosts                    \* host processes that may still be started

poolVars == <<free_pool, using_pool, glo_start_port, file, backup, held, pool,
              hosts>>

PoolInit ==
    /\ free_pool = <<>> /\ using_pool = <<>> /\ held = {}
    /\ glo_start_port = FIRST_PORT_NUM
    /\ file = {} /\ backup = {}
    /\ pool = "open" /\ hosts = MaxHosts

\* find_first_available_port: other programs may be using any of the ports.
PortsLeft == glo_start_port .. LAST_PORT_NUM

Taken == Tail(free_pool)

\* alloc_ssh_config, with c what it returns.  A new configuration joins
\* using_pool, even when there was no port; one from free_pool does not.
\* An alias that is in the file already fails an assertion.
Alloc(c) ==
    \/ /\ Len(using_pool) >= pool_size
       /\ c = NoConf
       /\ UNCHANGED poolVars
    \/ /\ Len(using_pool) < pool_size /\ free_pool # <<>>
       /\ c = Head(free_pool)
       /\ free_pool' = Taken
       /\ held' = held \cup {c}
       /\ UNCHANGED <<using_pool, glo_start_port, file, backup, pool, hosts>>
    \/ /\ Len(using_pool) < pool_size /\ free_pool = <<>>
       /\ \E p \in PortsLeft :
             IF p \in file
             THEN /\ c = NoConf
                  /\ pool' = "died"
                  /\ UNCHANGED <<glo_start_port, file, using_pool, held>>
             ELSE /\ c = p
                  /\ glo_start_port' = p + 1
                  /\ file' = file \cup {p}
                  /\ using_pool' = Append(using_pool, p)
                  /\ held' = held \cup {p}
                  /\ UNCHANGED pool
       /\ UNCHANGED <<free_pool, backup, hosts>>
    \/ /\ Len(using_pool) < pool_size /\ free_pool = <<>>
       /\ c = NoConf
       /\ using_pool' = Append(using_pool, NoConf)
       /\ UNCHANGED <<free_pool, glo_start_port, file, backup, held, pool, hosts>>

BugReturned(c) == free_pool
Returned(c) == IF c \in Range(free_pool) THEN free_pool ELSE Append(free_pool, c)

\* dealloc_ssh_config; a second one of the same configuration has no effect.
Dealloc(c) ==
    /\ using_pool' = Only(using_pool, Range(using_pool) \ {c})
    /\ free_pool' = Returned(c)
    /\ held' = held \ {c}
    /\ UNCHANGED <<glo_start_port, file, backup, pool, hosts>>

\* destory_pool.  Removing the entries of free_pool from the file writes back
\* what was read, since the result of str.replace is not used; restoring the
\* backup removes them all.
DestoryPool ==
    /\ IF using_pool = <<>>
       THEN file' = backup /\ pool' = "destoried"
       ELSE file' = file /\ pool' = "kept"
    /\ UNCHANGED <<free_pool, using_pool, glo_start_port, backup, held, hosts>>

\* The host process ends without destory_pool, and another one is started.
NextHost ==
    /\ hosts > 0
    /\ hosts' = hosts - 1
    /\ free_pool' = <<>> /\ using_pool' = <<>> /\ held' = {}
    /\ glo_start_port' = FIRST_PORT_NUM
    /\ backup' = file
    /\ pool' = "open"
    /\ UNCHANGED file

-----------------------------------------------------------------------------
\* Types of the two pools and the file; a configuration has a port in range.
PoolTypeOK ==
    /\ free_pool \in Seq(Ports) /\ using_pool \in Seq(Ports \cup {NoConf})
    /\ glo_start_port \in Nat
    /\ file \subseteq Ports /\ backup \subseteq Ports /\ held \subseteq Ports
    /\ pool \in {"open", "kept", "destoried", "died"} /\ hosts \in 0 .. MaxHosts

\* alloc_ssh_config never hands out a configuration that somebody still holds:
\* free_pool has none of those, and none twice.
HeldNotFree ==
    /\ held \cap Range(free_pool) = {}
    /\ \A i, j \in DOMAIN free_pool : free_pool[i] = free_pool[j] => i = j

\* Every configuration the pool made is held or free, and all but the reused
\* ones that are held are in using_pool: none is lost to later callers.
NoneLost ==
    /\ Range(using_pool) \ {NoConf} \subseteq held
    /\ file \ backup \subseteq held \cup Range(free_pool) \/ pool = "destoried"
=============================================================================

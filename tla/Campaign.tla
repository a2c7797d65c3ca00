------------------------------ MODULE Campaign ------------------------------
(***************************************************************************)
(* The test campaign: one host monitor (main_host.py) and one guest worker *)
(* per virtual machine (main_guest.py), which communicate only through     *)
(* keys of a memcached server.                                             *)
(*                                                                         *)
(* Guests take test cases from a shared list by incrementing one global    *)
(* index, claim the file-system operations of a case that nobody claimed   *)
(* before, and test them.  The host polls the state key and the heartbeat  *)
(* of every VM in turn; it restores or restarts a VM whose guest reports a *)
(* failure or goes silent, and relaunches the guest, on the unfinished     *)
(* case if there is one and it has not been retested too often.            *)
(*                                                                         *)
(* A step of a process ends where it becomes visible to another one: at    *)
(* the reads and writes of memcached keys, the kill of a VM, the launch of *)
(* a guest.  What can go wrong is spent from the budget `faults'.          *)
(***************************************************************************)
EXTENDS Integers, Sequences, FiniteSets

CONSTANTS
    VMs,              \* the virtual machines of the campaign
    NumCases,         \* length of the sorted list of executables
    HashOf,           \* per case, the hashes of its operations with PM stores
    Hashes,           \* all operation hashes
    BadCases,         \* cases whose executable fails: recorded, not tested
    SyslogCases,      \* cases that leave an error message in the kernel log
    FirstPath,        \* cases found under the first path of EXEC_FILES
    NumCasesToTest,   \* --num_cases_to_test
    RetestThreshold,  \* retest_threshold, 2 in the code
    ArgCase,          \* --test_case_basename of the host, or NoCase
    DebugVm,          \* --debug_vm
    NotDedup,         \* --not_dedup
    FaultKinds,       \* the kinds of fault considered
    CrashAt,          \* guest locations at which a VM may crash
    MaxFaults         \* bound on the faults of a behaviour

Cases == 0 .. (NumCases - 1)
NoCase == -1
CaseOrNone == Cases \cup {NoCase}
Ops(c) == DOMAIN HashOf[c]

GuestPcs ==
    {"off", "boot", "initing", "init", "inited", "fetch", "got", "trace",
     "dedup", "record", "test", "end", "stop", "fini", "exc", "zombie"}

\* The members of GuestState that some code path stores in memcached, and
\* "ABSENT" for a key that does not exist yet.
GuestState ==
    {"ABSENT", "STARTED", "INITING", "INITED", "RUNNING", "COMPLETE",
     "NEED_RESTART_VM", "VALIDATION_FAILED", "NEED_DEBUG", "UNKNOWN"}

Kinds ==
    {"crash", "qemu", "exception", "report", "stall", "slow", "silence",
     "ssh", "restart", "incr", "add", "host"}

ASSUME CampaignAssumption ==
    /\ NumCases \in Nat /\ NumCasesToTest \in Nat
    /\ RetestThreshold \in Nat /\ MaxFaults \in Nat
    /\ HashOf \in [Cases -> Seq(Hashes)]
    /\ BadCases \subseteq Cases /\ FirstPath \subseteq Cases
    /\ SyslogCases \subseteq Cases
    /\ ArgCase \in CaseOrNone
    /\ ArgCase # NoCase => NumCasesToTest = 0
    /\ DebugVm \in BOOLEAN /\ NotDedup \in BOOLEAN
    /\ FaultKinds \subseteq Kinds /\ CrashAt \subseteq GuestPcs
    /\ VMs # {}

VARIABLES
    \* memcached
    state,      \* <vm>.state
    hb,         \* heartbeat.<vm>: "none" (unset or None) or "set"
    startKey,   \* <vm>.start, the case in it
    endKey,     \* <vm>.end, the case in it
    uniqKey,    \* <vm>.unique_indices: the case and the operation indices
    nextIdx,    \* next_exec_list_index
    owner,      \* hash_<h>: NoCase, or (ghost) the case whose add created it
    \* host
    phase,      \* "start" in start_all_jobs, "monitor" in monitor_jobs
    hpc,        \* location of the host
    hvm,        \* the VM being recovered or launched
    hretest,    \* argument retest of _restore_job
    hjob,       \* the case to launch hvm with, or NoCase
    todo,       \* VMs left in the current pass over vm_running_list
    running, complete, broken, debugged,      \* the four VM lists
    retest,     \* retest_case_dict
    argCase,    \* args.test_case_basename
    qemuUp,     \* the VMs whose qemu process is alive
    \* guests
    gpc,        \* location of the guest process of a VM
    hbThread,   \* the VMs whose heartbeat thread runs
    gretest,    \* retest_exec_file
    gnum,       \* num_tested_cases
    gcase,      \* the case being run
    gknown,     \* unique_op_indices was passed to run_one_case
    gidx,       \* unique_op_indices
    gop,        \* operation index of the current loop
    gexc,       \* the state the pending exception maps to, or "none"
    \* ghosts
    faults,     \* faults left
    runs,       \* per case, how often run_one_case began
    tested,     \* <<case, operation>> pairs that were tested
    refuted     \* cases that reported VALIDATION_FAILED

mcVars == <<state, hb, startKey, endKey, uniqKey, nextIdx, owner>>
listVars == <<running, complete, broken, debugged>>
hostVars == <<phase, hpc, hvm, hretest, hjob, todo, listVars, retest, argCase>>
guestVars == <<gpc, hbThread, gretest, gnum, gcase, gknown, gidx, gop, gexc>>
ghostVars == <<runs, tested, refuted>>
vars == <<mcVars, hostVars, qemuUp, guestVars, faults, ghostVars>>

-----------------------------------------------------------------------------
(* Faults.  Every fault of a kind that is considered costs one unit.       *)
Spend(kind) == /\ kind \in FaultKinds
               /\ faults > 0
               /\ faults' = faults - 1

FreeIf(cond, kind) == IF cond THEN faults' = faults ELSE Spend(kind)


Init ==
    /\ state = [v \in VMs |-> "ABSENT"]
    /\ hb = [v \in VMs |-> "none"]
    /\ startKey = [v \in VMs |-> NoCase]
    /\ endKey = [v \in VMs |-> NoCase]
    /\ uniqKey = [v \in VMs |-> [case |-> NoCase, ops |-> {}]]
    /\ nextIdx = 0
    /\ owner = [h \in Hashes |-> NoCase]
    /\ phase = "start" /\ hpc = "poll" /\ hvm \in VMs
    /\ hretest = FALSE /\ hjob = NoCase
    /\ todo = VMs /\ running = VMs
    /\ complete = {} /\ broken = {} /\ debugged = {}
    /\ retest = [c \in Cases |-> 0]
    /\ argCase = ArgCase
    /\ qemuUp = VMs
    /\ gpc = [v \in VMs |-> "off"]
    /\ hbThread = {}
    /\ gretest = [v \in VMs |-> NoCase]
    /\ gnum = [v \in VMs |-> 0]
    /\ gcase = [v \in VMs |-> NoCase]
    /\ gknown = [v \in VMs |-> FALSE]
    /\ gidx = [v \in VMs |-> {}]
    /\ gop = [v \in VMs |-> 1]
    /\ gexc = [v \in VMs |-> "none"]
    /\ faults = MaxFaults
    /\ runs = [c \in Cases |-> 0]
    /\ tested = {} /\ refuted = {}

-----------------------------------------------------------------------------
(* The host.                                                               *)

\* start_all_jobs takes the next VM: its heartbeat is reset, and the job is
\* launched without a case.
StartJob(v) ==
    /\ phase = "start" /\ hpc = "poll" /\ v \in todo
    /\ hb' = [hb EXCEPT ![v] = "none"]
    /\ hpc' = "launch" /\ hvm' = v /\ hjob' = NoCase
    /\ UNCHANGED <<state, startKey, endKey, uniqKey, nextIdx, owner, phase,
                   hretest, todo, listVars, retest, argCase, qemuUp,
                   guestVars, faults, ghostVars>>

\* monitor_jobs polls v: the common guard of the branches below.
Polling(v) == phase = "monitor" /\ hpc = "poll" /\ v \in todo

\* The poll of v ends with `continue', or falls through with a good heartbeat.
Pass(v) ==
    /\ todo' = IF todo = {v} THEN running ELSE todo \ {v}
    /\ UNCHANGED <<mcVars, phase, hpc, hvm, hretest, hjob, listVars, retest,
                   argCase, qemuUp, guestVars, faults, ghostVars>>

\* v is removed from vm_running_list; `break' starts a new pass over the rest.
Leave(v) ==
    /\ running' = running \ {v}
    /\ todo' = running \ {v}
    /\ UNCHANGED <<phase, hretest, hjob, retest, argCase, guestVars, ghostVars>>

\* v has to be recovered first: loadvm ("restore") or kill and boot ("restart").
Recover(v, how, again) ==
    /\ hpc' = how /\ hvm' = v /\ hretest' = again
    /\ UNCHANGED <<mcVars, phase, hjob, todo, listVars, retest, argCase,
                   qemuUp, guestVars, ghostVars>>

\* The guest has not shown up yet and its time is not up.
PollStarted(v) == Polling(v) /\ state[v] = "STARTED" /\ Pass(v)

\* More than SECOND_TO_RESTART_VM_SINCE_JOB_START seconds in STARTED.  A guest
\* that is alive and on its way to RUNNING needs that long only if it is slow.
PollStartTimeout(v) ==
    /\ Polling(v) /\ state[v] = "STARTED"
    /\ FreeIf(gpc[v] \notin {"boot", "initing", "init", "inited"}, "slow")
    /\ Recover(v, "restart", TRUE)

\* The states that fall through to the heartbeat check.
BugHeartbeatChecked == {"RUNNING"}
HeartbeatChecked == {"INITING", "RUNNING"}

\* check_heartbeat_local is content: the key is None, which is always accepted,
\* or it was incremented since the last check, or ttl has not passed yet.
PollAlive(v) ==
    /\ Polling(v) /\ state[v] \in {"INITING", "RUNNING"}
    /\ Pass(v)

\* No increment for longer than heartbeat_ttl: the guest is gone, or it was
\* kept from running for that long.
PollHeartbeatLost(v) ==
    /\ Polling(v) /\ state[v] \in HeartbeatChecked
    /\ hb[v] = "set"
    /\ FreeIf(gpc[v] = "off", "silence")
    /\ Recover(v, "restore", TRUE)

PollComplete(v) ==
    /\ Polling(v) /\ state[v] = "COMPLETE"
    /\ complete' = complete \cup {v}
    /\ Leave(v)
    /\ UNCHANGED <<mcVars, hpc, hvm, broken, debugged, qemuUp, faults>>

PollNeedRestart(v) ==
    /\ Polling(v) /\ state[v] = "NEED_RESTART_VM"
    /\ Recover(v, "restart", TRUE)
    /\ UNCHANGED faults

PollValidationFailed(v) ==
    /\ Polling(v) /\ state[v] = "VALIDATION_FAILED"
    /\ Recover(v, "restore", FALSE)
    /\ UNCHANGED faults

PollNeedDebug(v) ==
    /\ Polling(v) /\ state[v] = "NEED_DEBUG"
    /\ \/ /\ DebugVm
          /\ debugged' = debugged \cup {v}
          /\ Leave(v)
          /\ UNCHANGED <<mcVars, hpc, hvm, complete, broken, qemuUp, faults>>
       \/ /\ ~DebugVm
          /\ Recover(v, "restore", TRUE)
          /\ UNCHANGED faults

\* The final else: every other state, INITED among them, is invalid.
PollInvalid(v) ==
    /\ Polling(v) /\ state[v] \in {"INITED", "UNKNOWN", "ABSENT"}
    /\ broken' = broken \cup {v}
    /\ Leave(v)
    /\ UNCHANGED <<mcVars, hpc, hvm, complete, debugged, qemuUp, faults>>

\* The locals of run_one_case and run_one_case_main go out of scope.
ClearCase(v) ==
    /\ gcase' = [gcase EXCEPT ![v] = NoCase]
    /\ gknown' = [gknown EXCEPT ![v] = FALSE]
    /\ gidx' = [gidx EXCEPT ![v] = {}]
    /\ gop' = [gop EXCEPT ![v] = 1]

\* The guest process of v is gone, and its heartbeat thread with it.
KillGuest(v) ==
    /\ gpc' = [gpc EXCEPT ![v] = "off"]
    /\ hbThread' = hbThread \ {v}
    /\ gretest' = [gretest EXCEPT ![v] = NoCase]
    /\ gnum' = [gnum EXCEPT ![v] = 0]
    /\ gexc' = [gexc EXCEPT ![v] = "none"]
    /\ ClearCase(v)

\* _restore_job: the case in <vm>.start is unfinished unless <vm>.end names it.
BugNeedsRetest(v) == startKey[v] # NoCase /\ endKey[v] = NoCase
NeedsRetest(v) == startKey[v] # NoCase /\ startKey[v] # endKey[v]

BugMayRetest(c) == retest[c] <= RetestThreshold
MayRetest(c) == retest[c] < RetestThreshold

RestoreJob(v) ==
    IF hretest /\ NeedsRetest(v) /\ MayRetest(startKey[v])
    THEN /\ hjob' = startKey[v]
         /\ retest' = [retest EXCEPT ![startKey[v]] = @ + 1]
    ELSE /\ hjob' = NoCase
         /\ UNCHANGED retest

\* restore_snapshot: loadvm brings back the memory of the VM as it was before
\* any guest was launched.
BugLoadVm(v) == UNCHANGED guestVars
LoadVm(v) == KillGuest(v)

\* _restore_vm, _reset_heartbeat and the reads of _restore_job.  loadvm goes
\* through the qemu monitor socket: without a qemu process connecting raises
\* and nobody catches it, so the host stops.
RestoreVm ==
    /\ hpc = "restore"
    /\ \/ /\ hvm \in qemuUp
          /\ LoadVm(hvm)
          /\ hb' = [hb EXCEPT ![hvm] = "none"]
          /\ RestoreJob(hvm)
          /\ hpc' = "launch"
       \/ /\ hvm \notin qemuUp
          /\ hpc' = "aborted"
          /\ UNCHANGED <<guestVars, hb, hjob, retest>>
    /\ UNCHANGED <<state, startKey, endKey, uniqKey, nextIdx, owner, phase,
                   hvm, hretest, todo, listVars, argCase, qemuUp, faults,
                   ghostVars>>

\* _restart_vm kills qemu and boots it again; a VM that does not come back is
\* given up.
RestartVm ==
    /\ hpc = "restart"
    /\ KillGuest(hvm)
    /\ \/ /\ qemuUp' = qemuUp \cup {hvm}
          /\ hb' = [hb EXCEPT ![hvm] = "none"]
          /\ RestoreJob(hvm)
          /\ hpc' = "launch"
          /\ UNCHANGED <<todo, running, broken, faults>>
       \/ /\ Spend("restart")
          /\ hpc' = "poll"
          /\ broken' = broken \cup {hvm}
          /\ running' = running \ {hvm}
          /\ todo' = running \ {hvm}
          /\ qemuUp' = qemuUp \ {hvm}
          /\ UNCHANGED <<hb, hjob, retest>>
    /\ UNCHANGED <<state, startKey, endKey, uniqKey, nextIdx, owner, phase,
                   hvm, hretest, complete, debugged, argCase, ghostVars>>

\* A fresh guest process on v, told to retest case c (or NoCase).
Boot(v, c) ==
    /\ gpc' = [gpc EXCEPT ![v] = "boot"]
    /\ gretest' = [gretest EXCEPT ![v] = c]
    /\ UNCHANGED <<hbThread, gnum, gcase, gknown, gidx, gop, gexc>>

\* The case named on the command line is forgotten once it is in a command.
ArgCaseTaken == NoCase

\* _start_guest_job up to the end of the ssh command.  The case of the command
\* line overrides the argument once.
StartGuestJob ==
    /\ hpc = "launch"
    /\ argCase' = ArgCaseTaken
    /\ LET job == IF argCase # NoCase THEN argCase ELSE hjob
       IN  \/ /\ Boot(hvm, job)
              /\ hpc' = "mark"
              /\ UNCHANGED <<todo, running, broken, faults>>
           \/ \* ssh failed or timed out; the command may have run or not
              /\ Spend("ssh")
              /\ Boot(hvm, job) \/ UNCHANGED guestVars
              /\ IF phase = "start"
                 THEN /\ hpc' = "aborted"
                      /\ UNCHANGED <<todo, running, broken>>
                 ELSE /\ hpc' = "poll"
                      /\ broken' = broken \cup {hvm}
                      /\ running' = running \ {hvm}
                      /\ todo' = running \ {hvm}
    /\ UNCHANGED <<mcVars, phase, hvm, hretest, hjob, complete, debugged,
                   retest, qemuUp, ghostVars>>

\* The rest of _start_guest_job: STARTED is stored after the guest was launched.
MarkStarted ==
    /\ hpc = "mark"
    /\ state' = [state EXCEPT ![hvm] = "STARTED"]
    /\ hpc' = "poll"
    /\ phase' = IF todo = {hvm} THEN "monitor" ELSE phase
    /\ todo' = IF todo = {hvm} THEN running ELSE todo \ {hvm}
    /\ hretest' = FALSE /\ hjob' = NoCase
    /\ UNCHANGED <<hb, startKey, endKey, uniqKey, nextIdx, owner, hvm,
                   listVars, retest, argCase, qemuUp, guestVars, faults,
                   ghostVars>>

\* A memcached operation of the host fails for good: an uncaught exception.
HostFails ==
    /\ hpc # "aborted" /\ running # {}
    /\ Spend("host")
    /\ hpc' = "aborted"
    /\ UNCHANGED <<mcVars, phase, hvm, hretest, hjob, todo, listVars, retest,
                   argCase, qemuUp, guestVars, ghostVars>>

-----------------------------------------------------------------------------
(* The guests.                                                             *)

At(v, pc) == gpc[v] = pc
Goto(v, pc) == gpc' = [gpc EXCEPT ![v] = pc]
SetState(v, s) == state' = [state EXCEPT ![v] = s]

\* __init__ up to the first store of the state key.
GuestIniting(v) ==
    /\ At(v, "boot") /\ Goto(v, "initing")
    /\ SetState(v, "INITING")
    /\ UNCHANGED <<hb, startKey, endKey, uniqKey, nextIdx, owner, hostVars,
                   qemuUp, hbThread, gretest, gnum, gcase, gknown, gidx, gop,
                   gexc, faults, ghostVars>>

\* _init_heartbeat: the key is set to 0 and the thread started.
InitHeartbeat(v) ==
    /\ At(v, "initing") /\ Goto(v, "init")
    /\ hb' = [hb EXCEPT ![v] = "set"]
    /\ hbThread' = hbThread \cup {v}
    /\ UNCHANGED <<state, startKey, endKey, uniqKey, nextIdx, owner, hostVars,
                   qemuUp, gretest, gnum, gcase, gknown, gidx, gop, gexc,
                   faults, ghostVars>>

\* _init_fs_module and _init_test_cases.  The check that the case to retest
\* was found is inside the loop over the paths, so only a case under the first
\* path survives it.
InitDone(v) ==
    /\ At(v, "init") /\ Goto(v, "inited")
    /\ gretest' = [gretest EXCEPT ![v] = IF @ \in FirstPath THEN @ ELSE NoCase]
    /\ SetState(v, "INITED")
    /\ UNCHANGED <<hb, startKey, endKey, uniqKey, nextIdx, owner, hostVars,
                   qemuUp, hbThread, gnum, gcase, gknown, gidx, gop, gexc,
                   faults, ghostVars>>

\* get_unique_indices holds the indices of case c.
BugStoredFor(v, c) == uniqKey[v].case # NoCase
StoredFor(v, c) == uniqKey[v].case = c

\* run() up to the loop: the operation indices stored for the VM are reused if
\* they are those of the case to retest.  A guest gets here before the host has
\* stored STARTED only if the host stalls.
RunBegin(v) ==
    /\ At(v, "inited")
    /\ FreeIf(~(hpc = "mark" /\ hvm = v), "stall")
    /\ SetState(v, "RUNNING")
    /\ IF gretest[v] = NoCase
       THEN /\ Goto(v, "fetch")
            /\ UNCHANGED <<gnum, gcase, gknown, gidx>>
       ELSE /\ Goto(v, "got")
            /\ gnum' = [gnum EXCEPT ![v] = 1]
            /\ gcase' = [gcase EXCEPT ![v] = gretest[v]]
            /\ gknown' = [gknown EXCEPT ![v] = StoredFor(v, gretest[v])]
            /\ gidx' = [gidx EXCEPT ![v] =
                    IF StoredFor(v, gretest[v]) THEN uniqKey[v].ops ELSE {}]
    /\ gretest' = [gretest EXCEPT ![v] = NoCase]
    /\ UNCHANGED <<hb, startKey, endKey, uniqKey, nextIdx, owner, hostVars,
                   qemuUp, hbThread, gop, gexc, ghostVars>>

\* The number of increments the server applies for one call of
\* mc_incr_wrapper: a reply that is lost makes the wrapper increment again.
MC_CMD_RETRY_TIMES == 5
Increments ==
    {k \in 1 .. MC_CMD_RETRY_TIMES :
        k = 1 \/ ("incr" \in FaultKinds /\ k <= faults + 1)}

\* The counter after k increments.
BugIncremented(k) == nextIdx
Incremented(k) == nextIdx + k

\* The index is not one of exec_file_list.
BugPastEnd(i) == i > NumCases
EarlyPastEnd(i) == i + 1 >= NumCases
PastEnd(i) == i >= NumCases

\* The head of the loop of run(): enough cases tested, or the next index.
FetchCase(v) ==
    /\ At(v, "fetch")
    /\ gnum' = [gnum EXCEPT ![v] = @ + 1]
    /\ IF gnum[v] + 1 > NumCasesToTest
       THEN /\ Goto(v, "stop")
            /\ UNCHANGED <<nextIdx, gcase, faults>>
       ELSE \E k \in Increments :
            /\ nextIdx' = Incremented(k)
            /\ faults' = faults - (k - 1)
            /\ IF PastEnd(nextIdx + k - 1)
               THEN Goto(v, "stop") /\ UNCHANGED gcase
               ELSE /\ Goto(v, "got")
                    /\ gcase' = [gcase EXCEPT ![v] = nextIdx + k - 1]
    /\ UNCHANGED <<state, hb, startKey, endKey, uniqKey, owner, hostVars,
                   qemuUp, hbThread, gretest, gknown, gidx, gop, gexc,
                   ghostVars>>

\* run_one_case: set_case_start.
CaseStart(v) ==
    /\ At(v, "got") /\ Goto(v, "trace")
    /\ startKey' = [startKey EXCEPT ![v] = gcase[v]]
    /\ runs' = [runs EXCEPT ![gcase[v]] = @ + 1]
    /\ UNCHANGED <<state, hb, endKey, uniqKey, nextIdx, owner, hostVars,
                   qemuUp, hbThread, gretest, gnum, gcase, gknown, gidx, gop,
                   gexc, faults, tested, refuted>>

\* Executing and tracing the case: it fails and is recorded as failed; it left
\* an error in the kernel log, and the expression that should name the case for
\* the record of it raises; the file system cannot be unmounted; or there is a
\* trace to work on.
TraceCase(v) ==
    /\ At(v, "trace")
    /\ gop' = [gop EXCEPT ![v] = 1]
    /\ \/ /\ gcase[v] \in BadCases
          /\ Goto(v, "end")
          /\ UNCHANGED <<gexc, faults, gidx>>
       \/ /\ gcase[v] \in SyslogCases \ BadCases
          /\ gexc' = [gexc EXCEPT ![v] = "UNKNOWN"]
          /\ Goto(v, "exc")
          /\ UNCHANGED <<faults, gidx>>
       \/ /\ gcase[v] \notin BadCases \cup SyslogCases
          /\ Spend("exception")
          /\ gexc' = [gexc EXCEPT ![v] = "NEED_RESTART_VM"]
          /\ Goto(v, "end")
          /\ UNCHANGED gidx
       \/ /\ gcase[v] \notin BadCases \cup SyslogCases
          /\ Goto(v, CASE Ops(gcase[v]) = {} -> "end"
                       [] Ops(gcase[v]) # {} /\ NotDedup -> "test"
                       [] OTHER -> IF gknown[v] THEN "record" ELSE "dedup")
          /\ gidx' = [gidx EXCEPT ![v] = IF NotDedup /\ ~gknown[v]
                                         THEN Ops(gcase[v]) ELSE @]
          /\ UNCHANGED <<gexc, faults>>
    /\ UNCHANGED <<mcVars, hostVars, qemuUp, hbThread, gretest, gnum, gcase,
                   gknown, ghostVars>>

\* deduplicate: one mc_add per operation.  When the reply to the add that
\* created the key is lost, the wrapper adds again and is told the key exists.
DedupOp(v) ==
    LET c == gcase[v]
        h == HashOf[c][gop[v]]
    IN  /\ At(v, "dedup") /\ gop[v] \in Ops(c)
        /\ gop' = [gop EXCEPT ![v] = @ + 1]
        /\ \/ /\ owner[h] = NoCase
              /\ owner' = [owner EXCEPT ![h] = c]
              /\ \/ /\ gidx' = [gidx EXCEPT ![v] = @ \cup {gop[v]}]
                    /\ UNCHANGED faults
                 \/ Spend("add") /\ UNCHANGED gidx
           \/ /\ owner[h] # NoCase
              /\ UNCHANGED <<owner, gidx, faults>>
        /\ UNCHANGED <<state, hb, startKey, endKey, uniqKey, nextIdx, hostVars,
                       qemuUp, gpc, hbThread, gretest, gnum, gcase, gknown,
                       gexc, ghostVars>>

\* There is nothing new in the case: it is not tested.
BugNothingClaimed(v) == Cardinality(gidx[v]) <= 1
NothingClaimed(v) == gidx[v] = {}

DedupDone(v) ==
    /\ At(v, "dedup") /\ gop[v] \notin Ops(gcase[v])
    /\ Goto(v, IF NothingClaimed(v) THEN "end" ELSE "record")
    /\ UNCHANGED <<mcVars, hostVars, qemuUp, hbThread, gretest, gnum, gcase,
                   gknown, gidx, gop, gexc, faults, ghostVars>>

\* set_unique_op_indices.
RecordIndices(v) ==
    /\ At(v, "record") /\ Goto(v, "test")
    /\ uniqKey' = [uniqKey EXCEPT ![v] = [case |-> gcase[v], ops |-> gidx[v]]]
    /\ gop' = [gop EXCEPT ![v] = 1]
    /\ UNCHANGED <<state, hb, startKey, endKey, nextIdx, owner, hostVars,
                   qemuUp, hbThread, gretest, gnum, gcase, gknown, gidx, gexc,
                   faults, ghostVars>>

\* The loop over the operations: cache simulation, crash plans, validation.
TestOp(v) ==
    /\ At(v, "test") /\ gop[v] \in Ops(gcase[v])
    /\ gop' = [gop EXCEPT ![v] = @ + 1]
    /\ tested' = tested \cup
            (IF gop[v] \in gidx[v] THEN {<<gcase[v], gop[v]>>} ELSE {})
    /\ UNCHANGED <<mcVars, hostVars, qemuUp, gpc, hbThread, gretest, gnum,
                   gcase, gknown, gidx, gexc, faults, runs, refuted>>

TestDone(v) ==
    /\ At(v, "test") /\ gop[v] \notin Ops(gcase[v])
    /\ Goto(v, "end")
    /\ UNCHANGED <<mcVars, hostVars, qemuUp, hbThread, gretest, gnum, gcase,
                   gknown, gidx, gop, gexc, faults, ghostVars>>

\* set_case_end, and the exception after a failed unmount.
CaseEnd(v) ==
    /\ At(v, "end")
    /\ endKey' = [endKey EXCEPT ![v] = gcase[v]]
    /\ Goto(v, IF gexc[v] = "none" THEN "fetch" ELSE "exc")
    /\ ClearCase(v)
    /\ UNCHANGED <<state, hb, startKey, uniqKey, nextIdx, owner, hostVars,
                   qemuUp, hbThread, gretest, gnum, gexc, faults, ghostVars>>

\* The end of run(): the heartbeat stops first, then COMPLETE is stored.
StopHeartbeat(v) ==
    /\ At(v, "stop") /\ Goto(v, "fini")
    /\ hbThread' = hbThread \ {v}
    /\ UNCHANGED <<mcVars, hostVars, qemuUp, gretest, gnum, gcase, gknown,
                   gidx, gop, gexc, faults, ghostVars>>

GuestComplete(v) ==
    /\ At(v, "fini") /\ KillGuest(v)
    /\ SetState(v, "COMPLETE")
    /\ UNCHANGED <<hb, startKey, endKey, uniqKey, nextIdx, owner, hostVars,
                   qemuUp, faults, ghostVars>>

\* handle_uncaught_exception: the state of the exception is stored, then the
\* heartbeat stopped.  The store is not retried; when it raises, the hook ends
\* there and the heartbeat thread, which is no daemon, goes on.
HandleException(v) ==
    /\ At(v, "exc")
    /\ \/ /\ SetState(v, gexc[v])
          /\ KillGuest(v)
          /\ refuted' = IF gexc[v] = "VALIDATION_FAILED"
                        THEN refuted \cup {gcase[v]} ELSE refuted
          /\ UNCHANGED faults
       \/ /\ Spend("report")
          /\ Goto(v, "zombie")
          /\ UNCHANGED <<state, hbThread, gretest, gnum, gcase, gknown, gidx,
                         gop, gexc, refuted>>
    /\ UNCHANGED <<hb, startKey, endKey, uniqKey, nextIdx, owner, hostVars,
                   qemuUp, runs, tested>>

\* The states that exceptions raised at a location map to.
Raises(pc) ==
    CASE pc \in {"off", "exc", "zombie"} -> {}
      [] pc = "test" -> {"NEED_RESTART_VM", "NEED_DEBUG", "UNKNOWN",
                         "VALIDATION_FAILED"}
      [] OTHER -> {"NEED_RESTART_VM", "NEED_DEBUG", "UNKNOWN"}

RaiseException(v) ==
    /\ Spend("exception")
    /\ \E s \in Raises(gpc[v]) : gexc' = [gexc EXCEPT ![v] = s]
    /\ Goto(v, "exc")
    /\ UNCHANGED <<mcVars, hostVars, qemuUp, hbThread, gretest, gnum, gcase,
                   gknown, gidx, gop, ghostVars>>

\* The kernel of the VM crashes or hangs, or its qemu process dies.
VmCrash(v) ==
    /\ gpc[v] \in CrashAt \ {"off"}
    /\ KillGuest(v)
    /\ \/ Spend("crash") /\ UNCHANGED qemuUp
       \/ Spend("qemu") /\ qemuUp' = qemuUp \ {v}
    /\ UNCHANGED <<mcVars, hostVars, ghostVars>>

-----------------------------------------------------------------------------
GuestStep(v) ==
    \/ GuestIniting(v) \/ InitHeartbeat(v) \/ InitDone(v) \/ RunBegin(v)
    \/ FetchCase(v) \/ CaseStart(v) \/ TraceCase(v)
    \/ DedupOp(v) \/ DedupDone(v) \/ RecordIndices(v)
    \/ TestOp(v) \/ TestDone(v) \/ CaseEnd(v)
    \/ StopHeartbeat(v) \/ GuestComplete(v) \/ HandleException(v)

Poll(v) ==
    \/ PollStarted(v) \/ PollStartTimeout(v) \/ PollAlive(v)
    \/ PollHeartbeatLost(v) \/ PollComplete(v) \/ PollNeedRestart(v)
    \/ PollValidationFailed(v) \/ PollNeedDebug(v) \/ PollInvalid(v)

HostStep ==
    \/ \E v \in VMs : StartJob(v) \/ Poll(v)
    \/ RestoreVm \/ RestartVm \/ StartGuestJob \/ MarkStarted

Next ==
    \/ HostStep \/ HostFails
    \/ \E v \in VMs : GuestStep(v) \/ RaiseException(v) \/ VmCrash(v)

Spec == Init /\ [][Next]_vars

\* The host loop and every live guest keep taking steps.  The host's clock
\* moves on by a second per poll, so a VM that stays in STARTED, or whose
\* heartbeat stays the same, is timed out at some poll of it.
Fairness ==
    /\ WF_vars(HostStep)
    /\ \A v \in VMs : /\ WF_vars(GuestStep(v))
                      /\ SF_vars(PollStartTimeout(v))
                      /\ SF_vars(PollHeartbeatLost(v))

FairSpec == Spec /\ Fairness

-----------------------------------------------------------------------------
(* What makes the campaign correct.                                        *)

\* Type correctness of the memcached keys, the host's and the guests' state.
TypeOK ==
    /\ state \in [VMs -> GuestState]
    /\ hb \in [VMs -> {"none", "set"}]
    /\ startKey \in [VMs -> CaseOrNone]
    /\ endKey \in [VMs -> CaseOrNone]
    /\ uniqKey \in [VMs -> [case : CaseOrNone, ops : SUBSET Nat]]
    /\ nextIdx \in Nat
    /\ owner \in [Hashes -> CaseOrNone]
    /\ phase \in {"start", "monitor"}
    /\ hpc \in {"poll", "restore", "restart", "launch", "mark", "aborted"}
    /\ hvm \in VMs /\ hretest \in BOOLEAN /\ hjob \in CaseOrNone
    /\ todo \in SUBSET VMs
    /\ running \in SUBSET VMs /\ complete \in SUBSET VMs
    /\ broken \in SUBSET VMs /\ debugged \in SUBSET VMs
    /\ retest \in [Cases -> Nat]
    /\ argCase \in CaseOrNone
    /\ qemuUp \in SUBSET VMs
    /\ gpc \in [VMs -> GuestPcs]
    /\ hbThread \in SUBSET VMs
    /\ gretest \in [VMs -> CaseOrNone]
    /\ gnum \in [VMs -> Nat]
    /\ gcase \in [VMs -> CaseOrNone]
    /\ gknown \in [VMs -> BOOLEAN]
    /\ gidx \in [VMs -> SUBSET Nat]
    /\ gop \in [VMs -> Nat]
    /\ gexc \in [VMs -> GuestState \cup {"none"}]
    /\ faults \in Nat
    /\ runs \in [Cases -> Nat]
    /\ tested \in SUBSET (Cases \X Nat)
    /\ refuted \in SUBSET CaseOrNone

\* A guest is between taking a case and finishing it.
Busy(v) == gpc[v] \in {"got", "trace", "dedup", "record", "test", "end"}

\* No test case is ever worked on by two VMs at a time: neither the shared
\* index nor a relaunch by _restore_job hands out a case that is in use.
CaseExclusive ==
    \A v, w \in VMs : Busy(v) /\ Busy(w) /\ v # w => gcase[v] # gcase[w]

\* run_one_case begins at most 1 + retest_threshold times for a case, however
\* the failures, the timeouts and the relaunches fall ("if a test case retested
\* more than retest_threshold times, do not retest it").
RunsBounded == \A c \in Cases : runs[c] <= 1 + RetestThreshold

\* A guest is launched only on a VM without a guest: there are never two
\* guest processes that write the keys of one VM.
NoDoubleLaunch == hpc = "launch" => gpc[hvm] = "off" /\ hvm \notin hbThread

\* The last case a VM began has not been finished.
Unfinished(v) == startKey[v] # NoCase /\ startKey[v] # endKey[v]

\* A case may be dropped unfinished only after its retests are used up or
\* after it reported VALIDATION_FAILED.
MayDrop(c) == retest[c] >= RetestThreshold \/ c \in refuted

\* run_one_case moves a VM on to another case only when the previous one was
\* finished or may be dropped: a crash does not lose the case it hit.
NoCaseForgotten ==
    [][\A v \in VMs :
          startKey'[v] # startKey[v] /\ Unfinished(v) => MayDrop(startKey[v])]_vars

\* A VM that is reported complete has left no case behind.
CompleteIsDone ==
    \A v \in complete : Unfinished(v) => MayDrop(startKey[v])

\* With deduplication an operation is tested only under the case whose mc_add
\* created its hash key; in particular never under two cases, and never with
\* the indices another case left in <vm>.unique_indices.
OnlyOwnerTests ==
    ~NotDedup => \A t \in tested : owner[HashOf[t[1]][t[2]]] = t[1]

\* The operations of c that c claimed first.
Claimed(c) == {i \in Ops(c) : owner[HashOf[c][i]] = c
                               /\ \A j \in 1 .. (i - 1) : HashOf[c][j] # HashOf[c][i]}

\* Once a case that was begun only once has ended, every operation it claimed
\* with mc_add was tested: a claim keeps all other cases from testing it.  (An
\* mc_add whose reply is lost claims what its own retry then takes for known.)
ClaimsTested ==
    \A v \in VMs :
        endKey[v] # NoCase /\ runs[endKey[v]] = 1 /\ "add" \notin FaultKinds
            => \A i \in Claimed(endKey[v]) : <<endKey[v], i>> \in tested

\* A campaign in which nothing went wrong has begun every case once and, of all
\* the cases that can be tested, has tested every operation hash under exactly
\* one of them.
AllTestedOnce ==
    faults = MaxFaults /\ running = {} /\ broken = {} /\ ArgCase = NoCase
        /\ ~NotDedup /\ nextIdx >= NumCases
        => /\ \A c \in Cases : runs[c] = 1
           /\ \A c \in Cases \ (BadCases \cup SyslogCases) : \A i \in Ops(c) :
                  \E t \in tested : HashOf[t[1]][t[2]] = HashOf[c][i]
           /\ \A s, t \in tested :
                  HashOf[s[1]][s[2]] = HashOf[t[1]][t[2]] => s[1] = t[1]

\* The host loop ends, unless the host died: no VM is watched forever.
CampaignEnds == <>(running = {} \/ hpc = "aborted")
=============================================================================

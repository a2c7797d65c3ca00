------------------------------- MODULE VMMgr -------------------------------
(***************************************************************************)
(* The virtual machines of a campaign, from their creation to their end:   *)
(* VMMgr (vm_mgr.py) and VMInstance (vm_instance.py), driven by the host   *)
(* (main_host.py).  The host builds everything in a base VM, shuts it down *)
(* and creates the VMs of the campaign, whose images are overlays of the   *)
(* image of the base VM; it restarts some of them while they work; in the  *)
(* end clear_vm takes everything down.  A qemu process may die at any      *)
(* moment.  An assertion that fails, or an exception nobody catches, ends  *)
(* the host: "aborted".                                                    *)
(***************************************************************************)
EXTENDS SSHConfigPool

CONSTANTS
    num_vms,          \* --num_vms
    run_limit,        \* VMMgr.run_limit
    StopAfterBase,    \* the values of --stop_after_base_vm considered
    FaultKinds,       \* what may go wrong
    MaxFaults         \* bound on how often

Base == 0
VMs == 0 .. num_vms

ASSUME MgrAssumption ==
    /\ num_vms \in Nat /\ run_limit \in Nat \ {0} /\ MaxFaults \in Nat
    /\ StopAfterBase \subseteq BOOLEAN
    /\ FaultKinds \subseteq {"qemu", "space", "start", "access", "shutdown", "kill"}

VARIABLES
    phase,                 \* where the host is
    made,                  \* how many VMs were created
    live_vm_instances, dead_vm_instances,     \* VMMgr's lists
    vnc_num_list,          \* the VNC numbers nobody has
    vnc_num, ssh_config,   \* what a VM was given
    started,               \* VMs whose vm_proc is set
    running,               \* VMs whose qemu process is alive
    images,                \* VMs whose image, backup and pm file exist
    faults

mgrLists == <<live_vm_instances, dead_vm_instances, vnc_num_list>>
given == <<vnc_num, ssh_config>>
vmVars == <<mgrLists, given, started, running, images>>
mgrVars == <<phase, made, vmVars, faults>>
vars == <<poolVars, mgrVars>>

\* VMMgr numbers its displays from 10 on.
AllVnc == [i \in 1 .. run_limit |-> i + 9]

Init ==
    /\ PoolInit
    /\ phase = "create" /\ made = 0
    /\ live_vm_instances = <<>> /\ dead_vm_instances = <<>>
    /\ vnc_num_list = AllVnc
    /\ vnc_num = [v \in VMs |-> 0] /\ ssh_config = [v \in VMs |-> NoConf]
    /\ started = {} /\ running = {} /\ images = {}
    /\ faults = MaxFaults

Spend(kind) == kind \in FaultKinds /\ faults > 0 /\ faults' = faults - 1

Goto(p) == phase' = p
Unless(cond, p) == phase' = IF cond THEN "aborted" ELSE p

-----------------------------------------------------------------------------
(* VMMgr.                                                                   *)

Dead == started \ running

Lists == [live |-> live_vm_instances, dead |-> dead_vm_instances,
          vnc |-> vnc_num_list]
SetLists(l) == /\ live_vm_instances' = l.live
               /\ dead_vm_instances' = l.dead
               /\ vnc_num_list' = l.vnc

BugBuried(l, vs) == [l EXCEPT !.dead = @ \o vs]

\* VMs vs are dead: they join dead_vm_instances, their VNC numbers are free.
Buried(l, vs) == [l EXCEPT !.dead = @ \o vs,
                           !.vnc = @ \o [i \in DOMAIN vs |-> vnc_num[vs[i]]]]

\* The lists after search_dead_vm.
SearchDead(l) == [Buried(l, Only(l.live, Dead)) EXCEPT
                     !.live = Only(@, VMs \ Dead)]

Exceed(l) == Len(l.live) >= run_limit

BugUnlisted(l) == l
Unlisted(l) == [l EXCEPT !.dead = Tail(@)]

BugReclaim(v, l) ==
    /\ SetLists(Unlisted(l))
    /\ images' = images \ {v}
    /\ UNCHANGED <<poolVars, given, started, running>>

\* reclaim_resource of dead VM v, once l holds the lists.
Reclaim(v, l) ==
    /\ SetLists(Unlisted(l))
    /\ images' = images \ {v}
    /\ Dealloc(ssh_config[v])
    /\ UNCHANGED <<given, started, running>>

\* create_vm up to its sleep.  Over the limit it returns a tuple, which the
\* host takes for a VM.  Short of space it reclaims the first dead VM.
CreateVm ==
    LET l == IF Exceed(Lists) THEN SearchDead(Lists) ELSE Lists
        r == SearchDead(l)
    IN  /\ phase = "create"
        /\ \/ /\ Unless(Exceed(l), "alloc")
              /\ SetLists(l)
              /\ UNCHANGED <<poolVars, given, started, running, images, faults>>
           \/ /\ ~Exceed(l) /\ Spend("space")
              /\ IF r.dead = <<>>
                 THEN /\ Goto("aborted")
                      /\ SetLists(r)
                      /\ UNCHANGED <<poolVars, given, started, running, images>>
                 ELSE Goto("alloc") /\ Reclaim(Head(r.dead), r)
        /\ UNCHANGED made

BugVncTaken == vnc_num_list
VncTaken == Tail(vnc_num_list)

\* The rest of create_vm: the VM gets a configuration, the first VNC number,
\* and an image on top of the image of its father.  Each of the three fails an
\* assertion if there is none.
AllocVm ==
    /\ phase = "alloc"
    /\ \E c \in Range(free_pool) \cup PortsLeft \cup {NoConf} :
          /\ Alloc(c)
          /\ IF c # NoConf /\ vnc_num_list # <<>> /\ (made = Base \/ Base \in images)
             THEN /\ Goto("start")
                  /\ made' = made + 1
                  /\ vnc_num' = [vnc_num EXCEPT ![made] = Head(vnc_num_list)]
                  /\ ssh_config' = [ssh_config EXCEPT ![made] = c]
                  /\ vnc_num_list' = VncTaken
                  /\ live_vm_instances' = Append(live_vm_instances, made)
                  /\ images' = images \cup {made}
             ELSE /\ Goto("aborted")
                  /\ UNCHANGED <<made, given, vnc_num_list, live_vm_instances,
                                 images>>
    /\ UNCHANGED <<dead_vm_instances, started, running, faults>>

-----------------------------------------------------------------------------
(* The host.                                                                *)

\* Where the host goes when it has made a VM.
NextVm == IF made > num_vms THEN "wait" ELSE "create"

\* start() of the VM just made.  A VM that does not start ends the host.
StartVm ==
    LET v == made - 1
    IN  /\ phase = "start"
        /\ started' = started \cup {v}
        /\ \/ /\ Goto(IF v = Base THEN "build" ELSE NextVm)
              /\ running' = running \cup {v}
              /\ UNCHANGED faults
           \/ /\ Spend("start")
              /\ Goto("aborted")
              /\ UNCHANGED running
        /\ UNCHANGED <<poolVars, made, mgrLists, given, images>>

\* The rest of _init_base_vm: the base VM is prepared, and shut down unless
\* the host is to stop there.
BuildBase ==
    /\ phase = "build"
    /\ \/ /\ FALSE \in StopAfterBase
          /\ Goto(NextVm)
          /\ running' = running \ {Base}
          /\ UNCHANGED faults
       \/ /\ TRUE \in StopAfterBase
          /\ Goto("kill")
          /\ UNCHANGED <<running, faults>>
       \/ /\ Base \notin running
          /\ Goto("aborted")
          /\ UNCHANGED <<running, faults>>
       \/ /\ Spend("shutdown")
          /\ Goto("aborted")
          /\ UNCHANGED running
    /\ UNCHANGED <<poolVars, made, mgrLists, given, started, images>>

\* The second loop of _init_vm_instance.
WaitAll ==
    /\ phase = "wait"
    /\ \/ Unless(~(1 .. num_vms \subseteq running), "run") /\ UNCHANGED faults
       \/ Spend("access") /\ Goto("aborted")
    /\ UNCHANGED <<poolVars, made, vmVars>>

\* restart_if_cannot_access(force=True) of a VM of the campaign: a qemu process
\* that five kills do not end fails an assertion.
Restart(v) ==
    /\ phase = "run"
    /\ \/ running' = running \cup {v} /\ UNCHANGED <<phase, faults>>
       \/ Spend("start") /\ running' = running \ {v} /\ UNCHANGED phase
       \/ v \in running /\ Spend("kill") /\ Goto("aborted") /\ UNCHANGED running
    /\ UNCHANGED <<poolVars, made, mgrLists, given, started, images>>

\* monitor_jobs returns; clear_vm is next.
EndMonitor == phase = "run" /\ Goto("kill")
              /\ UNCHANGED <<poolVars, made, vmVars, faults>>

\* kill_all_vm.  A VM that dies after it was found running is not found by
\* kill_process, which fails an assertion half way.
KillAll ==
    /\ phase = "kill"
    /\ \/ LET l == Buried(Lists, live_vm_instances)
          IN  /\ SetLists([l EXCEPT !.live = <<>>])
              /\ running' = running \ Range(live_vm_instances)
              /\ Unless(Len(l.vnc) # run_limit, "reclaim")
              /\ UNCHANGED faults
       \/ \E i \in DOMAIN live_vm_instances :
              /\ live_vm_instances[i] \in running
              /\ Spend("qemu")
              /\ SetLists(Buried(Lists, SubSeq(live_vm_instances, 1, i - 1)))
              /\ running' = running \ Range(SubSeq(live_vm_instances, 1, i))
              /\ Goto("aborted")
    /\ UNCHANGED <<poolVars, made, given, started, images>>

\* destory_all_vm, one reclaim_resource at a time, then destory_pool.
ClearVm ==
    /\ phase = "reclaim"
    /\ \/ /\ dead_vm_instances # <<>>
          /\ LET v == Head(dead_vm_instances)
             IN  IF v \in running
                 THEN Goto("aborted") /\ UNCHANGED <<poolVars, vmVars>>
                 ELSE Reclaim(v, Lists) /\ UNCHANGED phase
       \/ /\ dead_vm_instances = <<>>
          /\ DestoryPool /\ Goto("done")
          /\ UNCHANGED vmVars
    /\ UNCHANGED <<made, faults>>

\* A qemu process ends by itself.
QemuDies(v) ==
    /\ v \in running /\ phase \notin {"done", "aborted"}
    /\ Spend("qemu")
    /\ running' = running \ {v}
    /\ UNCHANGED <<poolVars, phase, made, mgrLists, given, started, images>>

\* Another host process is started after one that ended early or stopped, once
\* no qemu process of that one is left. Its disk images are not followed.
HostRestarts ==
    /\ phase \in {"done", "aborted"} /\ running = {}
    /\ NextHost
    /\ Goto("create") /\ made' = 0
    /\ SetLists([live |-> <<>>, dead |-> <<>>, vnc |-> AllVnc])
    /\ vnc_num' = [v \in VMs |-> 0] /\ ssh_config' = [v \in VMs |-> NoConf]
    /\ started' = {} /\ images' = {}
    /\ UNCHANGED <<running, faults>>

HostStep == CreateVm \/ AllocVm \/ StartVm \/ BuildBase \/ WaitAll \/ EndMonitor
            \/ KillAll \/ ClearVm

Next == HostStep \/ HostRestarts \/ \E v \in VMs : QemuDies(v) \/ (v # Base /\ Restart(v))

Spec == Init /\ [][Next]_vars

\* The host is one process that runs; monitor_jobs returns.
FairSpec == Spec /\ WF_vars(HostStep)

-----------------------------------------------------------------------------
\* Types of the lists of VMMgr and of what its VMs were given; only a VM that
\* was started can run.
TypeOK ==
    /\ PoolTypeOK
    /\ phase \in {"create", "alloc", "start", "build", "wait", "run", "kill",
                  "reclaim", "done", "aborted"}
    /\ made \in 0 .. (num_vms + 1)
    /\ live_vm_instances \in Seq(VMs) /\ dead_vm_instances \in Seq(VMs)
    /\ vnc_num_list \in Seq(Nat)
    /\ vnc_num \in [VMs -> Nat] /\ ssh_config \in [VMs -> Ports \cup {NoConf}]
    /\ started \subseteq VMs /\ running \subseteq started /\ images \subseteq VMs
    /\ faults \in 0 .. MaxFaults

\* No ssh configuration is in two hands and none is lost, whatever the hosts do.
PoolSound == TypeOK /\ HeldNotFree /\ NoneLost

\* Two VMs that run never have the same port or VNC number, although both are
\* used again after a VM is dead.
NoSharing ==
    \A v, w \in running : v # w =>
        ssh_config[v] # ssh_config[w] /\ vnc_num[v] # vnc_num[w]

\* What the assertions of vm_mgr.py rely on: as many free VNC numbers as VMs
\* may still be made, none twice and none that a living VM has.
VncConserved ==
    LET used == {vnc_num[v] : v \in Range(live_vm_instances)}
    IN  phase # "aborted" =>
        /\ Len(vnc_num_list) + Len(live_vm_instances) = run_limit
        /\ Range(vnc_num_list) \cap used = {}
        /\ Cardinality(Range(vnc_num_list)) = Len(vnc_num_list)

\* When clear_vm has returned, no VM runs, none has an image, and the ssh
\* config file is what it was before this host.
CleanUp ==
    phase = "done" => /\ running = {} /\ images = {} /\ held = {}
                      /\ pool = "destoried" /\ file = backup

\* Every host gets to the end of clear_vm, or an assertion fails.
Ended == phase \in {"done", "aborted"}
Ends == ~Ended ~> Ended
=============================================================================

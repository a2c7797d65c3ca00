------------------------ MODULE CampaignCases_proofs ------------------------
(***************************************************************************)
(* What becomes of the cases and of their operations: an operation is      *)
(* tested only by the case that claimed it, a claim is honoured, no case   *)
(* is forgotten when a VM fails, and a campaign without a fault tests      *)
(* everything once.                                                        *)
(***************************************************************************)
EXTENDS Campaign_proofs

-----------------------------------------------------------------------------
(* The invariants.                                                         *)

\* A guest between two cases has none.
Resting == {"off", "boot", "initing", "init", "inited", "fetch", "stop", "fini"}

\* It has no operation indices either and was passed none, and the loops over
\* the operations of a case count from one.
LocalsCleared ==
    \A v \in VMs : /\ gpc[v] \in Resting => gcase[v] = NoCase
                   /\ gcase[v] = NoCase => gidx[v] = {} /\ ~gknown[v]
                   /\ gop[v] >= 1

\* Case c created the hash keys of all the operations in S.
OwnedBy(c, S) == S \subseteq Ops(c) /\ \A i \in S : owner[HashOf[c][i]] = c

\* The indices a guest works with, those it stored and the operations that
\* were tested all belong to the case that claimed them.
ClaimsOwned ==
    ~NotDedup =>
        /\ \A v \in VMs : gcase[v] # NoCase => OwnedBy(gcase[v], gidx[v])
        /\ \A v \in VMs : uniqKey[v].case # NoCase
                              => OwnedBy(uniqKey[v].case, uniqKey[v].ops)
        /\ \A t \in tested : OwnedBy(t[1], {t[2]})

OwnerInv == LocalsCleared /\ ClaimsOwned

-----------------------------------------------------------------------------
\* All cases are found under the first path of EXEC_FILES, as with the paths
\* of one directory; a case to retest that is not would be dropped by
\* _init_test_cases.
OnePath == FirstPath = Cases

\* The case a VM began last is finished, or may be dropped.
Settled(v) == Unfinished(v) => MayDrop(startKey[v])

\* The host recovers and polls only VMs in vm_running_list.
HostWatches ==
    /\ todo \subseteq running
    /\ hpc \in {"restore", "restart", "launch", "mark"} => hvm \in running

\* A VM whose first job has not been launched has begun no case, and nobody
\* has while the case of the command line is there.
NoneBegun ==
    /\ phase = "start" /\ hpc # "aborted" =>
           \A v \in todo : startKey[v] = NoCase \/ (hpc = "mark" /\ hvm = v)
    /\ phase = "start" /\ hpc = "launch" => hvm \in todo
    /\ argCase # NoCase => \A v \in VMs : startKey[v] = NoCase /\ gpc[v] = "off"

\* Past set_case_start the case is the one in <vm>.start.
StartNamesCase ==
    \A v \in VMs :
        /\ gpc[v] \in {"trace", "dedup", "record", "test", "end"}
               => gcase[v] = startKey[v]
        /\ gexc[v] = "VALIDATION_FAILED"
               => gpc[v] \in {"exc", "zombie"} /\ gcase[v] = startKey[v]
        /\ gexc[v] # "COMPLETE"

\* A guest that reported COMPLETE or VALIDATION_FAILED is gone, and its last
\* case needs no retest; until the next guest of the VM stores its own state.
Final == {"COMPLETE", "VALIDATION_FAILED"}
FinalIsSettled ==
    /\ \A v \in VMs : state[v] \in Final =>
           /\ Settled(v)
           /\ gpc[v] \in {"off", "boot", "exc", "zombie"}
           /\ v \in running => \/ gpc[v] = "off"
                               \/ hpc = "aborted"
                               \/ hpc = "mark" /\ hvm = v
    /\ hpc \in {"restore", "restart"} /\ ~hretest =>
           Settled(hvm) /\ gpc[hvm] = "off"
    /\ \A v \in complete : v \notin running /\ gpc[v] = "off" /\ Settled(v)

\* A case that is unfinished and may not be dropped is being worked on, is
\* about to be retested, or waits for the host, which hands out no other.
CaseKept ==
    \A v \in VMs : ~Settled(v) =>
        \/ /\ gpc[v] \in {"off", "exc", "zombie"}
           /\ hpc = "launch" /\ hvm = v => hjob = startKey[v]
        \/ /\ gpc[v] \in {"boot", "initing", "init", "inited"}
           /\ gretest[v] = startKey[v]
        \/ Busy(v) /\ gcase[v] = startKey[v]

KeptInv == HostWatches /\ NoneBegun /\ StartNamesCase /\ FinalIsSettled /\ CaseKept

-----------------------------------------------------------------------------
\* No reply to an mc_add was lost.
NoAddLost == "add" \notin FaultKinds \/ faults = MaxFaults

\* A guest is past set_case_start.
Engaged(v) == gpc[v] \in {"trace", "dedup", "record", "test", "end"}

\* What only a run of the case leaves behind.
RunsSeen ==
    /\ faults <= MaxFaults
    /\ \A h \in Hashes : owner[h] # NoCase => runs[owner[h]] >= 1
    /\ \A v \in VMs :
        /\ endKey[v] # NoCase => runs[endKey[v]] >= 1
        /\ uniqKey[v].case # NoCase => runs[uniqKey[v].case] >= 1
        /\ Engaged(v) => runs[gcase[v]] >= 1
        /\ gpc[v] = "got" /\ gknown[v] => runs[gcase[v]] >= 1
        /\ Engaged(v) /\ gknown[v] => runs[gcase[v]] >= 2

\* Operations whose hash was looked up in this deduplication have an owner.
LookedUp ==
    \A v \in VMs : gpc[v] = "dedup" =>
        \A j \in Ops(gcase[v]) : j < gop[v] => owner[HashOf[gcase[v]][j]] # NoCase

ClaimsDone(c) == \A i \in Claimed(c) : <<c, i>> \in tested

\* The first run of a case has not ended, and as far as it has come its claims
\* are among the indices of the guest and are tested.
FirstRun ==
    \A v \in VMs : Engaged(v) /\ runs[gcase[v]] = 1 =>
        LET c == gcase[v]
        IN /\ \A w \in VMs : endKey[w] # c
           /\ gpc[v] = "trace" => \A h \in Hashes : owner[h] # c
           /\ NoAddLost =>
                /\ gpc[v] \in {"dedup", "record"} => Claimed(c) \subseteq gidx[v]
                /\ gpc[v] = "test" =>
                       \A i \in Claimed(c) :
                           i \in gidx[v] /\ (i < gop[v] => <<c, i>> \in tested)
                /\ gpc[v] = "end" => ClaimsDone(c)

EndedIsDone ==
    \A v \in VMs :
        endKey[v] # NoCase /\ runs[endKey[v]] = 1 /\ NoAddLost
            => ClaimsDone(endKey[v])

ClaimInv == RunsSeen /\ LookedUp /\ FirstRun /\ EndedIsDone

-----------------------------------------------------------------------------
\* Nothing has gone wrong so far.
Calm == faults = MaxFaults /\ broken = {} /\ ArgCase = NoCase /\ ~NotDedup

\* The life of a VM then.
CalmVm(v) ==
    /\ gretest[v] = NoCase
    /\ gexc[v] = (IF gpc[v] = "exc" THEN "UNKNOWN" ELSE "none")
    /\ \/ /\ gpc[v] = "off" /\ state[v] = "ABSENT"
          /\ phase = "start" /\ v \in todo
          /\ ~(hpc = "mark" /\ hvm = v)
       \/ /\ gpc[v] = "off" /\ state[v] \in {"COMPLETE", "UNKNOWN"}
          /\ phase = "start" => v \notin todo
          /\ ~(hpc = "mark" /\ hvm = v)
       \/ /\ gpc[v] \in {"boot", "initing", "init", "inited"}
          /\ \/ state[v] \in {"STARTED", "INITING", "INITED"}
             \/ hpc = "mark" /\ hvm = v /\ state[v] = "ABSENT"
       \/ /\ gpc[v] \in {"fetch", "got", "trace", "dedup", "record", "test",
                         "end", "stop", "fini", "exc"}
          /\ state[v] = "RUNNING"
          /\ ~(hpc = "mark" /\ hvm = v)

\* A VM whose case left an error in the kernel log will be given up.
Doomed(v) == gpc[v] = "exc" \/ state[v] = "UNKNOWN"

\* The operations of c have been looked up.
Covered(c) == c \notin BadCases \cup SyslogCases =>
                  \A i \in Ops(c) : owner[HashOf[c][i]] # NoCase

\* Case c has been run, once, to its end.
RunOnce(c) == /\ runs[c] = 1 /\ ClaimsDone(c) /\ Covered(c)
              /\ \A v \in VMs : ~(Busy(v) /\ gcase[v] = c)

\* A key belongs to an operation its owner claimed.
ClaimExists ==
    \A h \in Hashes : owner[h] # NoCase =>
        \E i \in Claimed(owner[h]) : HashOf[owner[h]][i] = h

\* The host recovers no VM, and launches every guest once, without a case.
CalmHost ==
    /\ argCase = NoCase
    /\ hpc \in {"poll", "launch", "mark"}
    /\ hpc = "launch" => phase = "start" /\ hjob = NoCase /\ hvm \in todo
    /\ hpc = "mark" => phase = "start" /\ hvm \in todo
    /\ phase = "start" => complete = {}
    /\ running \cup complete = VMs

CalmGuests ==
    /\ \A v \in VMs : CalmVm(v)
    /\ \A v \in complete : state[v] = "COMPLETE" /\ gpc[v] = "off"

\* A case that left the list is being run for the first time, or has been run,
\* unless some VM will be given up.
CalmCases ==
    /\ \A v \in VMs : Busy(v) => runs[gcase[v]] = (IF gpc[v] = "got" THEN 0 ELSE 1)
    /\ \A v \in VMs : gpc[v] \in {"record", "test", "end"} => Covered(gcase[v])
    /\ \A c \in Cases : c < nextIdx =>
           \/ \E v \in VMs : Busy(v) /\ gcase[v] = c
           \/ \E v \in VMs : Doomed(v)
           \/ RunOnce(c)

CalmRun == Calm => CalmHost /\ CalmGuests /\ CalmCases

CoverInv == ClaimExists /\ CalmRun

-----------------------------------------------------------------------------
(* What the steps of the host and of a guest change.                       *)

\* The hashes of the operations are hashes.
LEMMA HashIn == \A c \in Cases : \A i \in Ops(c) : HashOf[c][i] \in Hashes
  BY CampaignAssumption DEF Ops

\* The host writes no key but the state and the heartbeat, and touches a guest
\* only by killing it or by launching one.
LEMMA HostEffect ==
  ASSUME IInv, HostStep \/ HostFails
  PROVE  /\ UNCHANGED <<startKey, endKey, uniqKey, nextIdx, owner>>
         /\ UNCHANGED <<runs, tested, refuted>>
         /\ \/ UNCHANGED guestVars
            \/ KillGuest(hvm)
            \/ hpc = "launch" /\ \E c \in CaseOrNone : Boot(hvm, c)
<1> USE DEF mcVars, listVars, hostVars, ghostVars
<1>1. ASSUME NEW v \in VMs, StartJob(v) \/ Poll(v)
      PROVE  /\ UNCHANGED <<startKey, endKey, uniqKey, nextIdx, owner>>
             /\ UNCHANGED <<runs, tested, refuted>>
             /\ UNCHANGED guestVars
  BY <1>1 DEF StartJob, Poll, PollStarted, PollStartTimeout, PollAlive, Polling,
              PollHeartbeatLost, PollComplete, PollNeedRestart,
              PollValidationFailed, PollNeedDebug, PollInvalid, Pass, Leave,
              Recover
<1>2. CASE RestoreVm \/ RestartVm
  BY <1>2 DEF RestoreVm, RestartVm, LoadVm
<1>3. CASE StartGuestJob
  <2>1. (IF argCase # NoCase THEN argCase ELSE hjob) \in CaseOrNone
    BY DEF IInv, Typed, TypeOK
  <2>2. \/ UNCHANGED guestVars
        \/ Boot(hvm, IF argCase # NoCase THEN argCase ELSE hjob)
    BY <1>3 DEF StartGuestJob
  <2>3. /\ UNCHANGED <<startKey, endKey, uniqKey, nextIdx, owner>>
        /\ UNCHANGED <<runs, tested, refuted>>
        /\ hpc = "launch"
    BY <1>3 DEF StartGuestJob
  <2> QED
    BY <2>1, <2>2, <2>3
<1>4. CASE MarkStarted \/ HostFails
  BY <1>4 DEF MarkStarted, HostFails
<1> QED
  BY <1>1, <1>2, <1>3, <1>4 DEF HostStep

\* A guest leaves everything of the other VMs alone, and the host.
LEMMA GuestFrame ==
  ASSUME IInv, NEW v \in VMs,
         GuestStep(v) \/ RaiseException(v) \/ VmCrash(v)
  PROVE  /\ \A w \in VMs : w # v =>
              /\ gpc'[w] = gpc[w] /\ gretest'[w] = gretest[w]
              /\ gnum'[w] = gnum[w] /\ gcase'[w] = gcase[w]
              /\ gknown'[w] = gknown[w] /\ gidx'[w] = gidx[w]
              /\ gop'[w] = gop[w] /\ gexc'[w] = gexc[w]
              /\ state'[w] = state[w] /\ startKey'[w] = startKey[w]
              /\ endKey'[w] = endKey[w] /\ uniqKey'[w] = uniqKey[w]
         /\ gpc[v] # "off" /\ UNCHANGED hostVars
<1> USE DEF mcVars, guestVars, ghostVars, At, Goto, SetState
<1>t. Typed
  BY DEF IInv
<1>1. CASE GuestIniting(v) \/ InitHeartbeat(v) \/ InitDone(v) \/ RunBegin(v)
  BY <1>1, <1>t DEF Typed, TypeOK, GuestIniting, InitHeartbeat, InitDone, RunBegin
<1>2. CASE FetchCase(v) \/ CaseStart(v) \/ TraceCase(v)
  BY <1>2, <1>t DEF Typed, TypeOK, FetchCase, CaseStart, TraceCase
<1>3. CASE DedupOp(v) \/ DedupDone(v) \/ RecordIndices(v) \/ TestOp(v) \/ TestDone(v)
  BY <1>3, <1>t DEF Typed, TypeOK, DedupOp, DedupDone, RecordIndices, TestOp, TestDone
<1>4. CASE CaseEnd(v) \/ StopHeartbeat(v) \/ GuestComplete(v)
  BY <1>4, <1>t DEF Typed, TypeOK, CaseEnd, ClearCase, StopHeartbeat,
                    GuestComplete, KillGuest
<1>5. CASE HandleException(v)
  BY <1>5, <1>t DEF Typed, TypeOK, HandleException, ClearCase, KillGuest
<1>6. CASE RaiseException(v)
  BY <1>6, <1>t DEF Typed, TypeOK, RaiseException, Raises
<1>7. CASE VmCrash(v)
  BY <1>7, <1>t DEF Typed, TypeOK, VmCrash, ClearCase, KillGuest
<1> QED
  BY <1>1, <1>2, <1>3, <1>4, <1>5, <1>6, <1>7 DEF GuestStep

-----------------------------------------------------------------------------
(* An operation is tested only by the case that claimed it.                *)

\* A claim stays with the case that made it.
LEMMA OwnedStays ==
  ASSUME NEW c \in Cases, NEW S, OwnedBy(c, S),
         \A h \in Hashes : owner[h] # NoCase => owner'[h] = owner[h]
  PROVE  OwnedBy(c, S)'
  BY HashIn, CasesFacts DEF OwnedBy

\* A step that stores no indices, tests nothing and gives no guest new indices.
LEMMA ClaimsKept ==
  ASSUME Typed, ClaimsOwned,
         \A h \in Hashes : owner[h] # NoCase => owner'[h] = owner[h],
         \A w \in VMs : \/ gcase'[w] = NoCase \/ gidx'[w] = {}
                        \/ gcase'[w] = gcase[w] /\ gidx'[w] = gidx[w],
         UNCHANGED <<uniqKey, tested>>
  PROVE  ClaimsOwned'
<1> SUFFICES ASSUME ~NotDedup
             PROVE  /\ \A w \in VMs : gcase'[w] # NoCase
                          => OwnedBy(gcase[w], gidx[w])'
                    /\ \A w \in VMs : uniqKey[w].case # NoCase
                          => OwnedBy(uniqKey[w].case, uniqKey[w].ops)'
                    /\ \A t \in tested : OwnedBy(t[1], {t[2]})'
  BY DEF ClaimsOwned
<1>1. ASSUME NEW w \in VMs, gcase'[w] # NoCase PROVE OwnedBy(gcase[w], gidx[w])'
  <2>1. CASE gidx'[w] = {}
    BY <2>1 DEF OwnedBy
  <2>2. CASE gcase'[w] = gcase[w] /\ gidx'[w] = gidx[w]
    <3>1. gcase[w] \in Cases
      BY <1>1, <2>2, CasesFacts DEF Typed, TypeOK
    <3>2. OwnedBy(gcase[w], gidx[w])
      BY <1>1, <2>2 DEF ClaimsOwned
    <3> QED
      BY <2>2, <3>1, <3>2, HashIn, CasesFacts DEF OwnedBy
  <2> QED
    BY <1>1, <2>1, <2>2
<1>2. ASSUME NEW w \in VMs, uniqKey[w].case # NoCase
      PROVE  OwnedBy(uniqKey[w].case, uniqKey[w].ops)'
  <2>1. uniqKey[w].case \in Cases
    BY <1>2, CasesFacts DEF Typed, TypeOK
  <2>2. OwnedBy(uniqKey[w].case, uniqKey[w].ops)
    BY <1>2 DEF ClaimsOwned
  <2> QED
    BY <2>1, <2>2, HashIn, CasesFacts DEF OwnedBy
<1>3. ASSUME NEW t \in tested PROVE OwnedBy(t[1], {t[2]})'
  <2>1. t[1] \in Cases
    BY DEF Typed, TypeOK
  <2>2. OwnedBy(t[1], {t[2]})
    BY DEF ClaimsOwned
  <2> QED
    BY <2>1, <2>2, HashIn, CasesFacts DEF OwnedBy
<1> QED
  BY <1>1, <1>2, <1>3

\* Nothing is claimed at the beginning.
LEMMA OwnerInit == Init => OwnerInv
  BY DEF Init, OwnerInv, LocalsCleared, ClaimsOwned, OwnedBy, Resting

\* No step of the host touches a claim, or what a guest keeps of one.
LEMMA OwnerHost ==
  ASSUME IInv, OwnerInv, HostStep \/ HostFails
  PROVE  OwnerInv'
<1>t. Typed /\ LaunchSafe /\ OwnerInv /\ hvm \in VMs
  BY DEF IInv, Typed, TypeOK
<1>1. UNCHANGED <<uniqKey, owner, tested>>
  BY HostEffect
<1>2. CASE UNCHANGED guestVars
  BY <1>t, <1>1, <1>2, ClaimsKept DEF OwnerInv, LocalsCleared, guestVars
<1>3. CASE KillGuest(hvm)
  <2>1. \A w \in VMs : \/ /\ gcase'[w] = NoCase /\ gidx'[w] = {}
                          /\ ~gknown'[w] /\ gop'[w] = 1
                       \/ /\ gpc'[w] = gpc[w] /\ gcase'[w] = gcase[w]
                          /\ gknown'[w] = gknown[w]
                          /\ gidx'[w] = gidx[w] /\ gop'[w] = gop[w]
    BY <1>3, <1>t DEF KillGuest, ClearCase, Typed, TypeOK
  <2> QED
    BY <2>1, <1>t, <1>1, ClaimsKept DEF OwnerInv, LocalsCleared
<1>4. ASSUME hpc = "launch", NEW c \in CaseOrNone, Boot(hvm, c)
      PROVE  OwnerInv'
  <2>1. gpc[hvm] = "off"
    BY <1>t, <1>4 DEF LaunchSafe
  <2>2. /\ UNCHANGED <<gcase, gknown, gidx, gop>>
        /\ \A w \in VMs : w # hvm => gpc'[w] = gpc[w]
    BY <1>4, <1>t DEF Boot, Typed, TypeOK
  <2>3. gcase[hvm] = NoCase
    BY <1>t, <2>1 DEF OwnerInv, LocalsCleared, Resting
  <2> QED
    BY <2>2, <2>3, <1>t, <1>1, ClaimsKept DEF OwnerInv, LocalsCleared
<1> QED
  BY <1>2, <1>3, <1>4, HostEffect

\* The locals of a guest after each of its steps.
LEMMA LocalsGuest ==
  ASSUME IInv, OwnerInv, NEW v \in VMs,
         GuestStep(v) \/ RaiseException(v) \/ VmCrash(v)
  PROVE  LocalsCleared'
<1> USE DEF mcVars, guestVars, ghostVars, At, Goto, SetState, Resting
<1>t. Typed
  BY DEF IInv
<1>l. /\ gpc[v] \in Resting => gcase[v] = NoCase
      /\ gcase[v] = NoCase => gidx[v] = {} /\ ~gknown[v]
      /\ gop[v] >= 1
  BY DEF OwnerInv, LocalsCleared
<1> SUFFICES /\ gpc'[v] \in Resting => gcase'[v] = NoCase
             /\ gcase'[v] = NoCase => gidx'[v] = {} /\ ~gknown'[v]
             /\ gop'[v] >= 1
  BY GuestFrame DEF OwnerInv, LocalsCleared
<1>1. CASE GuestIniting(v) \/ InitHeartbeat(v) \/ InitDone(v) \/ RunBegin(v)
  BY <1>1, <1>t, <1>l DEF Typed, TypeOK, GuestIniting, InitHeartbeat, InitDone, RunBegin
<1>2. CASE FetchCase(v) \/ CaseStart(v)
  BY <1>2, <1>t, <1>l, CasesFacts DEF Typed, TypeOK, FetchCase, CaseStart, LocalsBound, Busy
<1>3. CASE TraceCase(v)
  <2>1. gcase[v] # NoCase /\ gcase' = gcase /\ gop'[v] = 1
    BY <1>3, <1>t, CasesFacts DEF TraceCase, Typed, TypeOK, LocalsBound, Busy
  <2>2. gpc'[v] \in {"end", "exc", "test", "record", "dedup"}
    BY <1>3, <1>t DEF TraceCase, Typed, TypeOK
  <2> QED
    BY <2>1, <2>2
<1>4. CASE DedupOp(v) \/ DedupDone(v) \/ RecordIndices(v) \/ TestOp(v) \/ TestDone(v)
  <2>1. gcase[v] # NoCase /\ gcase' = gcase /\ gop'[v] \in {gop[v], gop[v] + 1, 1}
    BY <1>4, <1>t, CasesFacts DEF DedupOp, DedupDone, RecordIndices, TestOp, TestDone,
                      Typed, TypeOK, LocalsBound, Busy
  <2>2. gpc'[v] \notin Resting
    BY <1>4, <1>t DEF DedupOp, DedupDone, RecordIndices, TestOp, TestDone, Typed, TypeOK
  <2>3. gop[v] \in Nat
    BY <1>t DEF Typed, TypeOK
  <2> QED
    BY <2>1, <2>2, <2>3, <1>l
<1>5. CASE CaseEnd(v) \/ StopHeartbeat(v) \/ GuestComplete(v)
  BY <1>5, <1>t, <1>l DEF Typed, TypeOK, CaseEnd, ClearCase, StopHeartbeat,
                    GuestComplete, KillGuest
<1>6. CASE HandleException(v)
  BY <1>6, <1>t, <1>l DEF Typed, TypeOK, HandleException, ClearCase, KillGuest
<1>7. CASE RaiseException(v)
  BY <1>7, <1>t, <1>l DEF Typed, TypeOK, RaiseException
<1>8. CASE VmCrash(v)
  BY <1>8, <1>t, <1>l DEF Typed, TypeOK, VmCrash, ClearCase, KillGuest
<1> QED
  BY <1>1, <1>2, <1>3, <1>4, <1>5, <1>6, <1>7, <1>8 DEF GuestStep

\* The claims after each step of a guest.
LEMMA ClaimsGuest ==
  ASSUME IInv, OwnerInv, NEW v \in VMs,
         GuestStep(v) \/ RaiseException(v) \/ VmCrash(v)
  PROVE  ClaimsOwned'
<1> USE DEF mcVars, guestVars, ghostVars, At, Goto, SetState
<1>t. Typed /\ ClaimsOwned /\ LocalsCleared
  BY DEF IInv, OwnerInv
<1>f. \A w \in VMs : w # v => gcase'[w] = gcase[w] /\ gidx'[w] = gidx[w]
  BY GuestFrame
<1>1. ASSUME UNCHANGED <<owner, uniqKey, tested>>,
             \/ gcase'[v] = NoCase \/ gidx'[v] = {}
             \/ gcase'[v] = gcase[v] /\ gidx'[v] = gidx[v]
      PROVE  ClaimsOwned'
  BY <1>1, <1>t, <1>f, ClaimsKept
<1>2. CASE \/ GuestIniting(v) \/ InitHeartbeat(v) \/ InitDone(v) \/ CaseStart(v)
           \/ DedupDone(v) \/ TestDone(v) \/ StopHeartbeat(v) \/ RaiseException(v)
  BY <1>2, <1>1 DEF GuestIniting, InitHeartbeat, InitDone, CaseStart, DedupDone,
                    TestDone, StopHeartbeat, RaiseException
<1>3. CASE CaseEnd(v) \/ GuestComplete(v) \/ HandleException(v) \/ VmCrash(v)
  BY <1>3, <1>1, <1>t DEF CaseEnd, GuestComplete, HandleException, VmCrash,
                          KillGuest, ClearCase, Typed, TypeOK
<1>4. CASE FetchCase(v)
  BY <1>4, <1>1, <1>t DEF FetchCase, LocalsCleared, Resting
<1>5. CASE TraceCase(v)
  <2>1. CASE NotDedup
    BY <2>1 DEF ClaimsOwned
  <2>2. CASE ~NotDedup
    <3>1. gidx'[v] = gidx[v] /\ UNCHANGED <<owner, uniqKey, tested, gcase>>
      BY <1>5, <2>2, <1>t DEF TraceCase, Typed, TypeOK
    <3> QED
      BY <3>1, <1>1
  <2> QED
    BY <2>1, <2>2
<1>6. CASE RunBegin(v)
  <2>1. UNCHANGED <<owner, uniqKey, tested>>
    BY <1>6 DEF RunBegin
  <2>2. CASE gretest[v] = NoCase \/ ~StoredFor(v, gretest[v])
    <3>1. \/ gcase'[v] = gcase[v] /\ gidx'[v] = gidx[v]
          \/ gidx'[v] = {}
      BY <1>6, <2>2, <1>t DEF RunBegin, Typed, TypeOK
    <3> QED
      BY <2>1, <3>1, <1>1
  <2>3. CASE gretest[v] # NoCase /\ StoredFor(v, gretest[v])
    <3>1. /\ gcase'[v] = uniqKey[v].case /\ gidx'[v] = uniqKey[v].ops
          /\ uniqKey[v].case # NoCase
      BY <1>6, <2>3, <1>t DEF RunBegin, StoredFor, Typed, TypeOK
    <3>2. ~NotDedup => OwnedBy(uniqKey[v].case, uniqKey[v].ops)
      BY <3>1, <1>t DEF ClaimsOwned
    <3> QED
      BY <2>1, <3>1, <3>2, <1>f, <1>t DEF ClaimsOwned, OwnedBy
  <2> QED
    BY <2>2, <2>3
<1>7. CASE RecordIndices(v)
  <2>1. /\ UNCHANGED <<owner, tested, gcase, gidx>>
        /\ uniqKey' = [uniqKey EXCEPT ![v] = [case |-> gcase[v], ops |-> gidx[v]]]
    BY <1>7 DEF RecordIndices
  <2>2. \A w \in VMs : \/ uniqKey'[w].case = uniqKey[w].case /\ uniqKey'[w].ops = uniqKey[w].ops
                       \/ w = v /\ uniqKey'[w].case = gcase[w] /\ uniqKey'[w].ops = gidx[w]
    BY <2>1, <1>t DEF Typed, TypeOK
  <2> QED
    BY <2>1, <2>2, <1>t DEF ClaimsOwned, OwnedBy
<1>8. CASE TestOp(v)
  <2>1. /\ UNCHANGED <<owner, uniqKey, gcase, gidx>>
        /\ gcase[v] # NoCase
        /\ tested' = tested \cup
             (IF gop[v] \in gidx[v] THEN {<<gcase[v], gop[v]>>} ELSE {})
    BY <1>8, <1>t, CasesFacts DEF TestOp, Typed, LocalsBound, Busy
  <2>2. SUFFICES ASSUME ~NotDedup, NEW t \in tested' PROVE OwnedBy(t[1], {t[2]})
    BY <2>1, <1>t DEF ClaimsOwned, OwnedBy
  <2>3. CASE t \in tested
    BY <2>2, <2>3, <1>t DEF ClaimsOwned
  <2>4. CASE t \notin tested
    <3>1. t = <<gcase[v], gop[v]>> /\ gop[v] \in gidx[v]
      BY <2>1, <2>2, <2>4
    <3>2. OwnedBy(gcase[v], gidx[v])
      BY <2>1, <2>2, <1>t DEF ClaimsOwned
    <3> QED
      BY <3>1, <3>2 DEF OwnedBy
  <2> QED
    BY <2>3, <2>4
<1>9. CASE DedupOp(v)
  <2> DEFINE c == gcase[v]
             h == HashOf[c][gop[v]]
  <2>1. /\ c \in Cases /\ gop[v] \in Ops(c) /\ h \in Hashes
        /\ UNCHANGED <<uniqKey, tested, gcase>>
    BY <1>9, <1>t, HashIn DEF DedupOp, Typed, LocalsBound, Busy
  <2>2. \/ UNCHANGED <<owner, gidx>>
        \/ /\ owner[h] = NoCase /\ owner' = [owner EXCEPT ![h] = c]
           /\ gidx'[v] \in {gidx[v], gidx[v] \cup {gop[v]}}
    BY <1>9, <1>t DEF DedupOp, Typed, TypeOK
  <2>3. owner \in [Hashes -> CaseOrNone]
    BY <1>t DEF Typed, TypeOK
  <2>4. CASE UNCHANGED <<owner, gidx>>
    BY <2>1, <2>4, <1>1
  <2>5. CASE /\ owner[h] = NoCase /\ owner' = [owner EXCEPT ![h] = c]
             /\ gidx'[v] \in {gidx[v], gidx[v] \cup {gop[v]}}
    <3>1. \A k \in Hashes : owner[k] # NoCase => owner'[k] = owner[k]
      BY <2>1, <2>3, <2>5
    <3>2. owner'[h] = c
      BY <2>1, <2>3, <2>5
    <3> HIDE DEF h, c
    <3>3. SUFFICES ASSUME ~NotDedup
                   PROVE  /\ \A w \in VMs : gcase'[w] # NoCase
                                => OwnedBy(gcase[w], gidx[w])'
                          /\ \A w \in VMs : uniqKey[w].case # NoCase
                                => OwnedBy(uniqKey[w].case, uniqKey[w].ops)'
                          /\ \A t \in tested : OwnedBy(t[1], {t[2]})'
      BY <2>1 DEF ClaimsOwned
    <3>4. ASSUME NEW w \in VMs, gcase'[w] # NoCase PROVE OwnedBy(gcase[w], gidx[w])'
      <4>1. gcase[w] \in Cases /\ gcase'[w] = gcase[w]
        BY <3>4, <2>1, <1>t, CasesFacts DEF Typed, TypeOK
      <4>2. OwnedBy(gcase[w], gidx[w])
        BY <4>1, <3>3, <1>t, CasesFacts DEF ClaimsOwned
      <4>3. CASE w # v
        <5>1. gidx'[w] = gidx[w]
          BY <4>3, <1>f
        <5>2. OwnedBy(gcase[w], gidx[w]) => \A i \in gidx[w] : owner'[HashOf[gcase[w]][i]] = gcase[w]
          BY <4>1, <3>1, HashIn, CasesFacts DEF OwnedBy
        <5> QED
          BY <4>1, <4>2, <5>1, <5>2 DEF OwnedBy
      <4>4. CASE w = v
        BY <4>1, <4>2, <4>4, <3>1, <3>2, <2>1, <2>5, HashIn, CasesFacts DEF OwnedBy, c, h
      <4> QED
        BY <4>3, <4>4
    <3>5. ASSUME NEW w \in VMs, uniqKey[w].case # NoCase
          PROVE  OwnedBy(uniqKey[w].case, uniqKey[w].ops)'
      <4>1. uniqKey[w].case \in Cases
        BY <3>5, <1>t, CasesFacts DEF Typed, TypeOK
      <4>2. OwnedBy(uniqKey[w].case, uniqKey[w].ops)
        BY <3>5, <3>3, <1>t DEF ClaimsOwned
      <4> QED
        BY <4>1, <4>2, <2>1, <3>1, HashIn, CasesFacts DEF OwnedBy
    <3>6. ASSUME NEW t \in tested PROVE OwnedBy(t[1], {t[2]})'
      <4>1. t[1] \in Cases /\ OwnedBy(t[1], {t[2]})
        BY <3>3, <1>t DEF Typed, TypeOK, ClaimsOwned
      <4> QED
        BY <4>1, <3>1, HashIn, CasesFacts DEF OwnedBy
    <3> QED
      BY <3>4, <3>5, <3>6
  <2> QED
    BY <2>2, <2>4, <2>5
<1> QED
  BY <1>2, <1>3, <1>4, <1>5, <1>6, <1>7, <1>8, <1>9 DEF GuestStep

\* Every step keeps the ownership of the claims.
LEMMA OwnerNext == IInv /\ OwnerInv /\ [Next]_vars => OwnerInv'
<1> SUFFICES ASSUME IInv, OwnerInv, [Next]_vars PROVE OwnerInv'
  OBVIOUS
<1>1. CASE HostStep \/ HostFails
  BY <1>1, OwnerHost
<1>2. ASSUME NEW v \in VMs, GuestStep(v) \/ RaiseException(v) \/ VmCrash(v)
      PROVE  OwnerInv'
  BY <1>2, LocalsGuest, ClaimsGuest DEF OwnerInv
<1>3. CASE UNCHANGED vars
  BY <1>3 DEF vars, mcVars, hostVars, guestVars, ghostVars, OwnerInv,
              LocalsCleared, ClaimsOwned, OwnedBy
<1> QED
  BY <1>1, <1>2, <1>3 DEF Next

\* The ownership of the claims is an invariant of the campaign.
LEMMA CampaignOwner == Spec => []OwnerInv
  BY OwnerInit, OwnerNext, CampaignSafety, PTL DEF Spec

\* With deduplication an operation is tested only under the case whose mc_add
\* created its hash key, whatever crashes, retests and stale
\* <vm>.unique_indices there are.
THEOREM CampaignOnlyOwnerTests == Spec => []OnlyOwnerTests
<1>1. OwnerInv => OnlyOwnerTests
  BY DEF OwnerInv, ClaimsOwned, OwnedBy, OnlyOwnerTests
<1> QED
  BY <1>1, CampaignOwner, PTL

-----------------------------------------------------------------------------
(* No case is forgotten.                                                   *)

\* At the beginning every case is in the list.
LEMMA KeptInit == Init => KeptInv
<1> SUFFICES ASSUME Init PROVE KeptInv
  OBVIOUS
<1>1. \A v \in VMs : Settled(v)
  BY DEF Init, Settled, Unfinished
<1>2. HostWatches /\ NoneBegun /\ StartNamesCase
  BY DEF Init, HostWatches, NoneBegun, StartNamesCase
<1>3. FinalIsSettled
  BY DEF Init, FinalIsSettled, Final
<1> QED
  BY <1>1, <1>2, <1>3 DEF KeptInv, CaseKept

\* What may be dropped stays so.
LEMMA SettledStays ==
  ASSUME Typed, NEW v \in VMs, Settled(v),
         startKey'[v] = startKey[v], endKey'[v] = endKey[v],
         \A c \in Cases : retest'[c] \in Nat /\ retest'[c] >= retest[c],
         refuted \subseteq refuted'
  PROVE  Settled(v)'
<1> SUFFICES ASSUME Unfinished(v)' PROVE MayDrop(startKey[v])'
  BY DEF Settled
<1>1. Unfinished(v) /\ MayDrop(startKey[v])
  BY DEF Settled, Unfinished
<1>2. startKey[v] \in Cases
  BY <1>1, CasesFacts DEF Unfinished, Typed, TypeOK
<1>3. /\ retest[startKey[v]] \in Nat /\ retest'[startKey[v]] \in Nat
      /\ retest'[startKey[v]] >= retest[startKey[v]] /\ RetestThreshold \in Nat
  BY <1>2, CampaignAssumption DEF Typed, TypeOK
<1> QED
  BY <1>1, <1>3 DEF MayDrop

\* No step of the host unsettles a VM.
LEMMA SettledHost ==
  ASSUME IInv, HostStep \/ HostFails, NEW v \in VMs, Settled(v)
  PROVE  Settled(v)'
<1>t. Typed /\ Typed'
  BY TypedHost DEF IInv
<1>1. UNCHANGED <<startKey, endKey, refuted>>
  BY HostEffect
<1>2. \A c \in Cases : retest'[c] \in Nat
  BY <1>t DEF Typed, TypeOK
<1>3. \A c \in Cases : retest'[c] >= retest[c]
  <2> USE DEF mcVars, listVars, hostVars, guestVars, ghostVars
  <2>1. \/ UNCHANGED retest
        \/ startKey[hvm] # NoCase /\ retest' = [retest EXCEPT ![startKey[hvm]] = @ + 1]
    <3>1. ASSUME NEW w \in VMs, StartJob(w) \/ Poll(w) PROVE UNCHANGED retest
      BY <3>1 DEF StartJob, Poll, PollStarted, PollStartTimeout, PollAlive, Polling,
                PollHeartbeatLost, PollComplete, PollNeedRestart,
                PollValidationFailed, PollNeedDebug, PollInvalid, Pass, Leave,
                Recover
    <3> QED
      BY <3>1 DEF HostStep, HostFails, RestoreVm, RestartVm, StartGuestJob,
                  MarkStarted, RestoreJob, NeedsRetest
  <2>2. retest \in [Cases -> Nat]
    BY <1>t DEF Typed, TypeOK
  <2> QED
    BY <2>1, <2>2
<1> QED
  BY <1>t, <1>1, <1>2, <1>3, SettledStays

\* The host's own bookkeeping.
LEMMA WatchesHost ==
  ASSUME IInv, KeptInv, HostStep \/ HostFails
  PROVE  HostWatches' /\ NoneBegun'
<1> USE DEF mcVars, listVars, hostVars, guestVars, ghostVars
<1>t. Typed /\ LaunchSafe /\ HostWatches /\ NoneBegun
  BY DEF IInv, KeptInv
<1>h. hvm \in VMs /\ gpc \in [VMs -> GuestPcs]
  BY <1>t DEF Typed, TypeOK
<1>s. UNCHANGED startKey
  BY HostEffect
<1>1. ASSUME NEW v \in VMs, StartJob(v) PROVE HostWatches' /\ NoneBegun'
  BY <1>1, <1>t DEF StartJob, HostWatches, NoneBegun
<1>2. ASSUME NEW v \in VMs, Poll(v) PROVE HostWatches' /\ NoneBegun'
  <2>1. /\ phase = "monitor" /\ phase' = phase /\ v \in todo
        /\ UNCHANGED <<gpc, argCase>>
        /\ hpc' \in {"poll", "restore", "restart"}
        /\ \/ running' = running /\ todo' \in {running, todo, todo \ {v}} /\ hvm' \in {hvm, v}
              /\ (hpc' # "poll" => hvm' = v)
           \/ running' = running \ {v} /\ todo' = running' /\ hpc' = "poll"
    BY <1>2 DEF Poll, PollStarted, PollStartTimeout, PollAlive, Polling,
                PollHeartbeatLost, PollComplete, PollNeedRestart,
                PollValidationFailed, PollNeedDebug, PollInvalid, Pass, Leave,
                Recover
  <2> QED
    BY <2>1, <1>t, <1>s DEF HostWatches, NoneBegun
<1>3. CASE RestoreVm \/ RestartVm
  <2>1. hpc \in {"restore", "restart"} /\ phase = "monitor" /\ phase' = phase
    BY <1>3, <1>t DEF RestoreVm, RestartVm, LaunchSafe, Typed, TypeOK
  <2>2. HostWatches'
    BY <1>3, <1>t DEF RestoreVm, RestartVm, HostWatches
  <2>3. argCase' = argCase /\ \A w \in VMs : gpc'[w] \in {gpc[w], "off"}
    BY <1>3, <1>h DEF RestoreVm, RestartVm, LoadVm, KillGuest
  <2> QED
    BY <2>1, <2>2, <2>3, <1>s, <1>t DEF NoneBegun
<1>4. CASE StartGuestJob
  BY <1>4, <1>t, <1>s DEF StartGuestJob, ArgCaseTaken, HostWatches, NoneBegun
<1>5. CASE MarkStarted
  BY <1>5, <1>t, <1>s DEF MarkStarted, HostWatches, NoneBegun
<1>6. CASE HostFails
  BY <1>6, <1>t, <1>s DEF HostFails, HostWatches, NoneBegun
<1> QED
  BY <1>1, <1>2, <1>3, <1>4, <1>5, <1>6 DEF HostStep

\* A start key goes on naming the case of its guest, whatever the host does.
LEMMA NamesHost ==
  ASSUME IInv, KeptInv, HostStep \/ HostFails
  PROVE  StartNamesCase'
<1>t. Typed /\ LaunchSafe /\ StartNamesCase
  BY DEF IInv, KeptInv
<1>s. UNCHANGED startKey
  BY HostEffect
<1>1. CASE UNCHANGED guestVars
  BY <1>1, <1>t, <1>s DEF guestVars, StartNamesCase
<1>2. CASE KillGuest(hvm)
  BY <1>2, <1>t, <1>s DEF KillGuest, ClearCase, StartNamesCase, Typed, TypeOK
<1>3. ASSUME hpc = "launch", NEW c \in CaseOrNone, Boot(hvm, c)
      PROVE  StartNamesCase'
  BY <1>3, <1>t, <1>s DEF Boot, StartNamesCase, Typed, TypeOK, LaunchSafe
<1> QED
  BY <1>1, <1>2, <1>3, HostEffect

\* Complete VMs, and the VMs the host gives a fresh case, are settled.
LEMMA FinalHost ==
  ASSUME IInv, KeptInv, HostStep \/ HostFails
  PROVE  FinalIsSettled'
<1> USE DEF mcVars, listVars, hostVars, guestVars, ghostVars
<1>t. Typed /\ LaunchSafe /\ HostWatches /\ FinalIsSettled
  BY DEF IInv, KeptInv
<1>h. /\ hvm \in VMs /\ gpc \in [VMs -> GuestPcs] /\ state \in [VMs -> GuestState]
      /\ complete \subseteq VMs /\ todo \subseteq VMs
  BY <1>t DEF Typed, TypeOK
<1>s. \A w \in VMs : Settled(w) => Settled(w)'
  BY SettledHost
<1>1. ASSUME NEW v \in VMs, StartJob(v) PROVE FinalIsSettled'
  BY <1>1, <1>t, <1>h, <1>s DEF StartJob, FinalIsSettled
<1>2. ASSUME NEW v \in VMs, Poll(v) PROVE FinalIsSettled'
  <2>1. /\ UNCHANGED <<state, gpc>> /\ v \in todo /\ v \in running /\ hpc = "poll"
    BY <1>2, <1>t DEF Poll, PollStarted, PollStartTimeout, PollAlive, Polling,
                PollHeartbeatLost, PollComplete, PollNeedRestart,
                PollValidationFailed, PollNeedDebug, PollInvalid, Pass, Leave,
                Recover, HostWatches
  <2>2. /\ running' \subseteq running
        /\ \/ complete' = complete
           \/ /\ complete' = complete \cup {v} /\ state[v] = "COMPLETE"
              /\ running' = running \ {v}
        /\ hpc' = "poll" \/ (hvm' = v /\ hretest')
                         \/ (hvm' = v /\ state[v] = "VALIDATION_FAILED")
    BY <1>2 DEF Poll, PollStarted, PollStartTimeout, PollAlive, Polling,
                PollHeartbeatLost, PollComplete, PollNeedRestart,
                PollValidationFailed, PollNeedDebug, PollInvalid, Pass, Leave,
                Recover
  <2>3. state[v] \in Final => gpc[v] = "off" /\ Settled(v)
    BY <2>1, <1>t DEF FinalIsSettled
  <2>4. \A w \in VMs : state'[w] \in Final =>
           /\ Settled(w)' /\ gpc'[w] \in {"off", "boot", "exc", "zombie"}
           /\ w \in running' => gpc'[w] = "off"
    BY <2>1, <2>2, <1>t, <1>s DEF FinalIsSettled
  <2>5. hpc' \in {"restore", "restart"} /\ ~hretest' => Settled(hvm)' /\ gpc'[hvm'] = "off"
    <3> SUFFICES ASSUME hpc' \in {"restore", "restart"}, ~hretest'
                 PROVE  Settled(hvm)' /\ gpc'[hvm'] = "off"
      OBVIOUS
    <3>1. hvm' = v /\ gpc[v] = "off" /\ Settled(v)
      BY <2>2, <2>3 DEF Final
    <3>2. Settled(v)'
      BY <3>1, <1>s
    <3> QED
      BY <3>1, <3>2, <2>1 DEF Settled, Unfinished
  <2>6. \A w \in complete' : w \notin running' /\ gpc'[w] = "off" /\ Settled(w)'
    BY <2>1, <2>2, <2>3, <1>t, <1>h, <1>s DEF FinalIsSettled, Final
  <2> QED
    BY <2>4, <2>5, <2>6 DEF FinalIsSettled
<1>3. CASE RestoreVm \/ RestartVm
  <2>1. /\ UNCHANGED <<state, complete>> /\ running' \subseteq running
        /\ hpc' \notin {"restore", "restart"}
        /\ \A w \in VMs : gpc'[w] \in {gpc[w], "off"}
        /\ hpc \notin {"mark", "aborted"}
    BY <1>3, <1>h DEF RestoreVm, RestartVm, LoadVm, KillGuest
  <2> QED
    BY <2>1, <1>t, <1>h, <1>s DEF FinalIsSettled
<1>4. CASE StartGuestJob
  <2>1. /\ UNCHANGED <<state, complete, hvm>> /\ running' \subseteq running
        /\ hpc = "launch" /\ hpc' \notin {"restore", "restart"}
        /\ hpc' \in {"mark", "aborted"} \/ hvm \notin running'
        /\ \A w \in VMs : w # hvm => gpc'[w] = gpc[w]
        /\ gpc'[hvm] \in {gpc[hvm], "boot"}
    BY <1>4, <1>h DEF StartGuestJob, Boot
  <2>2. hvm \in running /\ gpc[hvm] = "off"
    BY <2>1, <1>t DEF HostWatches, LaunchSafe
  <2> QED
    BY <2>1, <2>2, <1>t, <1>h, <1>s DEF FinalIsSettled
<1>5. CASE MarkStarted
  BY <1>5, <1>t, <1>h, <1>s DEF MarkStarted, FinalIsSettled, Final
<1>6. CASE HostFails
  BY <1>6, <1>t, <1>h, <1>s DEF HostFails, FinalIsSettled
<1> QED
  BY <1>1, <1>2, <1>3, <1>4, <1>5, <1>6 DEF HostStep

\* The host hands a VM with an unfinished case that case again.
LEMMA KeptHost ==
  ASSUME IInv, KeptInv, HostStep \/ HostFails
  PROVE  CaseKept'
<1> USE DEF mcVars, listVars, hostVars, guestVars, ghostVars
<1>t. Typed /\ LaunchSafe /\ NoneBegun /\ FinalIsSettled /\ CaseKept
  BY DEF IInv, KeptInv
<1>h. /\ hvm \in VMs /\ gpc \in [VMs -> GuestPcs] /\ todo \subseteq VMs
      /\ gretest \in [VMs -> CaseOrNone]
  BY <1>t DEF Typed, TypeOK
<1>s. UNCHANGED startKey /\ \A w \in VMs : Settled(w) => Settled(w)'
  BY SettledHost, HostEffect
<1>u. ASSUME UNCHANGED <<gpc, gretest, gcase>>,
             hpc' # "launch" \/ UNCHANGED <<hpc, hvm, hjob>>
      PROVE  CaseKept'
  BY <1>u, <1>s, <1>t DEF CaseKept, Busy
<1>1. ASSUME NEW v \in VMs, StartJob(v) PROVE CaseKept'
  <2>1. startKey[v] = NoCase
    BY <1>1, <1>t DEF StartJob, NoneBegun
  <2>2. Settled(v)'
    BY <2>1, <1>s DEF Settled, Unfinished
  <2>3. UNCHANGED <<gpc, gretest, gcase>> /\ hvm' = v
    BY <1>1 DEF StartJob
  <2> QED
    BY <2>2, <2>3, <1>s, <1>t DEF CaseKept, Busy
<1>2. ASSUME NEW v \in VMs, Poll(v) PROVE CaseKept'
  <2>1. hpc' # "launch" /\ UNCHANGED <<gpc, gretest, gcase>>
    BY <1>2 DEF Poll, PollStarted, PollStartTimeout, PollAlive, Polling,
                PollHeartbeatLost, PollComplete, PollNeedRestart,
                PollValidationFailed, PollNeedDebug, PollInvalid, Pass, Leave,
                Recover
  <2> QED
    BY <2>1, <1>u
<1>3. CASE RestoreVm \/ RestartVm
  <2>1. CASE hpc' = "launch"
    <3>1. KillGuest(hvm) /\ RestoreJob(hvm) /\ hvm' = hvm /\ hpc \in {"restore", "restart"}
      BY <1>3, <2>1 DEF RestoreVm, RestartVm, LoadVm
    <3>2. ~Settled(hvm) => hjob' = startKey[hvm]
      <4> SUFFICES ASSUME ~Settled(hvm) PROVE hjob' = startKey[hvm]
        OBVIOUS
      <4>1. hretest
        BY <3>1, <1>t DEF FinalIsSettled
      <4>2. Unfinished(hvm) /\ ~MayDrop(startKey[hvm])
        BY DEF Settled
      <4>3. startKey[hvm] \in Cases
        BY <4>2, <1>h, <1>t, CasesFacts DEF Unfinished, Typed, TypeOK
      <4>4. retest[startKey[hvm]] < RetestThreshold
        BY <4>2, <4>3, <1>t, CampaignAssumption DEF MayDrop, Typed, TypeOK
      <4> QED
        BY <4>1, <4>2, <4>4, <3>1 DEF RestoreJob, NeedsRetest, MayRetest, Unfinished
    <3>3. /\ gpc'[hvm] = "off"
          /\ \A w \in VMs : w # hvm => /\ gpc'[w] = gpc[w] /\ gretest'[w] = gretest[w]
                                       /\ gcase'[w] = gcase[w]
      BY <3>1, <1>h, <1>t DEF KillGuest, ClearCase, Typed, TypeOK
    <3>4. \A w \in VMs : ~Settled(w)' => ~Settled(w)
      BY <1>s
    <3> QED
      BY <2>1, <3>1, <3>2, <3>3, <3>4, <1>s, <1>t DEF CaseKept, Busy
  <2>2. CASE hpc' # "launch"
    <3>1. \A w \in VMs : \/ gpc'[w] = "off"
                         \/ /\ gpc'[w] = gpc[w] /\ gretest'[w] = gretest[w]
                            /\ gcase'[w] = gcase[w]
      BY <1>3, <1>h, <1>t DEF RestoreVm, RestartVm, LoadVm, KillGuest, ClearCase,
                              Typed, TypeOK
    <3> QED
      BY <2>2, <3>1, <1>s, <1>t DEF CaseKept, Busy
  <2> QED
    BY <2>1, <2>2
<1>4. CASE StartGuestJob
  <2>1. hpc = "launch" /\ hpc' # "launch" /\ gpc[hvm] = "off"
    BY <1>4, <1>t DEF StartGuestJob, LaunchSafe
  <2>2. CASE UNCHANGED guestVars
    BY <2>1, <2>2, <1>u
  <2>3. CASE ~UNCHANGED guestVars
    <3> DEFINE job == IF argCase # NoCase THEN argCase ELSE hjob
    <3>1. Boot(hvm, job)
      BY <1>4, <2>3 DEF StartGuestJob
    <3>2. ~Settled(hvm) => job = startKey[hvm]
      BY <2>1, <1>t, <1>h DEF CaseKept, NoneBegun, Settled, Unfinished, Busy
    <3> HIDE DEF job
    <3>3. /\ gpc'[hvm] = "boot" /\ gretest'[hvm] = job
          /\ \A w \in VMs : w # hvm => /\ gpc'[w] = gpc[w] /\ gretest'[w] = gretest[w]
                                       /\ gcase'[w] = gcase[w]
      BY <3>1, <1>h DEF Boot
    <3> QED
      BY <2>1, <3>2, <3>3, <1>s, <1>t DEF CaseKept, Busy
  <2> QED
    BY <2>2, <2>3
<1>5. CASE MarkStarted \/ HostFails
  BY <1>5, <1>u DEF MarkStarted, HostFails
<1> QED
  BY <1>1, <1>2, <1>3, <1>4, <1>5 DEF HostStep

\* A guest unsettles no VM, except its own by beginning a case.
LEMMA SettledGuest ==
  ASSUME IInv, NEW v \in VMs,
         GuestStep(v) \/ RaiseException(v) \/ VmCrash(v),
         NEW w \in VMs, Settled(w)
  PROVE  Settled(w)' \/ (w = v /\ (CaseStart(v) \/ CaseEnd(v)))
<1> USE DEF mcVars, guestVars, ghostVars, hostVars
<1>t. Typed
  BY DEF IInv
<1>1. SUFFICES ASSUME w # v \/ ~(CaseStart(v) \/ CaseEnd(v))
               PROVE  Settled(w)'
  OBVIOUS
<1>2. startKey'[w] = startKey[w] /\ endKey'[w] = endKey[w]
  <2>1. CASE w # v
    BY <2>1, GuestFrame
  <2>2. CASE ~(CaseStart(v) \/ CaseEnd(v))
    BY <2>2 DEF GuestStep, GuestIniting, InitHeartbeat, InitDone, RunBegin, FetchCase,
         TraceCase, DedupOp, DedupDone, RecordIndices, TestOp,
         TestDone, StopHeartbeat, GuestComplete, HandleException,
         RaiseException, VmCrash
  <2> QED
    BY <1>1, <2>1, <2>2
<1>3. refuted \subseteq refuted'
  BY DEF GuestStep, GuestIniting, InitHeartbeat, InitDone, RunBegin, FetchCase,
         CaseStart, TraceCase, DedupOp, DedupDone, RecordIndices, TestOp,
         TestDone, CaseEnd, StopHeartbeat, GuestComplete, HandleException,
         RaiseException, VmCrash
<1>4. \A c \in Cases : retest'[c] \in Nat /\ retest'[c] >= retest[c]
  BY GuestFrame, <1>t DEF Typed, TypeOK
<1> QED
  BY <1>t, <1>2, <1>3, <1>4, SettledStays

\* What a step of guest v has to establish: all else is framed.
LEMMA KeptFramed ==
  ASSUME IInv, KeptInv, NEW v \in VMs,
         GuestStep(v) \/ RaiseException(v) \/ VmCrash(v),
         Engaged(v)' => gcase'[v] = startKey'[v],
         gexc'[v] = "VALIDATION_FAILED" =>
             gpc'[v] \in {"exc", "zombie"} /\ gcase'[v] = startKey'[v],
         gexc'[v] # "COMPLETE",
         state'[v] \in Final =>
             /\ Settled(v)' /\ gpc'[v] \in {"off", "boot", "exc", "zombie"}
             /\ v \in running => \/ gpc'[v] = "off"
                                 \/ hpc = "aborted"
                                 \/ hpc = "mark" /\ hvm = v,
         Settled(v)' \/ gpc'[v] \in {"off", "exc", "zombie"}
             \/ (gpc'[v] \in {"boot", "initing", "init", "inited"}
                 /\ gretest'[v] = startKey'[v])
             \/ (Busy(v)' /\ gcase'[v] = startKey'[v])
  PROVE  KeptInv'
<1> USE DEF listVars, hostVars
<1>t. Typed /\ LaunchSafe /\ HostWatches /\ NoneBegun /\ StartNamesCase
      /\ FinalIsSettled /\ CaseKept
  BY DEF IInv, KeptInv
<1>f. /\ \A w \in VMs : w # v =>
              /\ gpc'[w] = gpc[w] /\ gretest'[w] = gretest[w]
              /\ gcase'[w] = gcase[w] /\ gexc'[w] = gexc[w]
              /\ state'[w] = state[w] /\ startKey'[w] = startKey[w]
      /\ gpc[v] # "off" /\ UNCHANGED hostVars
  BY GuestFrame
<1>s. \A w \in VMs : w # v /\ Settled(w) => Settled(w)'
  BY SettledGuest
<1>c. complete \subseteq VMs /\ hvm \in VMs /\ todo \subseteq VMs
  BY <1>t DEF Typed, TypeOK
<1>1. HostWatches'
  BY <1>t, <1>f DEF HostWatches
<1>2. NoneBegun'
  <2>1. phase = "start" /\ hpc # "aborted" /\ v \in todo => hpc = "mark" /\ hvm = v
    BY <1>t, <1>f DEF LaunchSafe
  <2> QED
    BY <2>1, <1>t, <1>f, <1>c DEF NoneBegun
<1>3. StartNamesCase'
  BY <1>t, <1>f DEF StartNamesCase, Engaged
<1>4. FinalIsSettled'
  <2>1. \A w \in VMs : state'[w] \in Final =>
           /\ Settled(w)'
           /\ gpc'[w] \in {"off", "boot", "exc", "zombie"}
           /\ w \in running => \/ gpc'[w] = "off"
                               \/ hpc = "aborted"
                               \/ hpc = "mark" /\ hvm = w
    BY <1>t, <1>f, <1>s DEF FinalIsSettled
  <2>2. hpc \in {"restore", "restart"} /\ ~hretest => Settled(hvm)' /\ gpc'[hvm] = "off"
    <3> SUFFICES ASSUME hpc \in {"restore", "restart"}, ~hretest
                 PROVE  Settled(hvm)' /\ gpc'[hvm] = "off"
      OBVIOUS
    <3>1. Settled(hvm) /\ gpc[hvm] = "off" /\ hvm # v
      BY <1>t, <1>f DEF FinalIsSettled
    <3>2. gpc'[hvm] = "off"
      BY <3>1, <1>f, <1>c
    <3>3. ASSUME NEW w \in VMs, w = hvm PROVE Settled(hvm)'
      <4>1. Settled(w)'
        BY <3>1, <3>3, <1>s DEF Settled, Unfinished
      <4> QED
        BY <4>1, <3>3, <1>f DEF Settled, Unfinished
    <3> QED
      BY <3>2, <3>3, <1>c
  <2>3. \A w \in complete : w \notin running /\ gpc'[w] = "off" /\ Settled(w)'
    BY <1>t, <1>f, <1>s, <1>c DEF FinalIsSettled
  <2> QED
    BY <2>1, <2>2, <2>3, <1>f DEF FinalIsSettled
<1>5. CaseKept'
  <2>1. hpc = "launch" => hvm # v
    BY <1>t, <1>f DEF LaunchSafe
  <2> QED
    BY <2>1, <1>t, <1>f, <1>s DEF CaseKept, Busy
<1> QED
  BY <1>1, <1>2, <1>3, <1>4, <1>5 DEF KeptInv

\* Every step of a guest keeps the cases, when all are under the first path.
LEMMA KeptGuest ==
  ASSUME OnePath, IInv, KeptInv, NEW v \in VMs,
         GuestStep(v) \/ RaiseException(v) \/ VmCrash(v)
  PROVE  KeptInv'
<1> USE DEF mcVars, guestVars, ghostVars, hostVars, At, Goto, SetState
<1>t. Typed /\ RetestConsumed
  BY DEF IInv
<1>y. /\ gpc \in [VMs -> GuestPcs] /\ gcase \in [VMs -> CaseOrNone]
      /\ gretest \in [VMs -> CaseOrNone] /\ gexc \in [VMs -> GuestState \cup {"none"}]
      /\ startKey \in [VMs -> CaseOrNone] /\ endKey \in [VMs -> CaseOrNone]
      /\ state \in [VMs -> GuestState] /\ gidx \in [VMs -> SUBSET Nat]
      /\ gknown \in [VMs -> BOOLEAN] /\ gop \in [VMs -> Nat]
      /\ gnum \in [VMs -> Nat] /\ hbThread \subseteq VMs
  BY <1>t DEF Typed, TypeOK
<1>n. /\ Engaged(v) => gcase[v] = startKey[v]
      /\ gexc[v] = "VALIDATION_FAILED" =>
             gpc[v] \in {"exc", "zombie"} /\ gcase[v] = startKey[v]
      /\ gexc[v] # "COMPLETE"
  BY DEF KeptInv, StartNamesCase, Engaged
<1>d. state[v] \in Final =>
             /\ Settled(v) /\ gpc[v] \in {"boot", "exc", "zombie"}
             /\ v \in running => \/ hpc = "aborted"
                                 \/ hpc = "mark" /\ hvm = v
  BY GuestFrame DEF KeptInv, FinalIsSettled
<1>k. Settled(v) \/ gpc[v] \in {"exc", "zombie"}
             \/ (gpc[v] \in {"boot", "initing", "init", "inited"}
                 /\ gretest[v] = startKey[v])
             \/ (Busy(v) /\ gcase[v] = startKey[v])
  BY GuestFrame DEF KeptInv, CaseKept
<1>s. Settled(v) => Settled(v)' \/ CaseStart(v) \/ CaseEnd(v)
  BY SettledGuest
<1>f. gpc[v] # "off" /\ UNCHANGED hostVars
  BY GuestFrame
<1>u. ~Settled(v) => startKey[v] \in Cases
  BY <1>y, CasesFacts DEF Settled, Unfinished
<1> HIDE DEF hostVars
<1> DEFINE Names == /\ Engaged(v)' => gcase'[v] = startKey'[v]
                    /\ gexc'[v] = "VALIDATION_FAILED" =>
                         gpc'[v] \in {"exc", "zombie"} /\ gcase'[v] = startKey'[v]
                    /\ gexc'[v] # "COMPLETE"
           Ends == state'[v] \in Final =>
                     /\ Settled(v)' /\ gpc'[v] \in {"off", "boot", "exc", "zombie"}
                     /\ v \in running => \/ gpc'[v] = "off"
                                         \/ hpc = "aborted"
                                         \/ hpc = "mark" /\ hvm = v
           Kept == Settled(v)' \/ gpc'[v] \in {"off", "exc", "zombie"}
                     \/ (gpc'[v] \in {"boot", "initing", "init", "inited"}
                         /\ gretest'[v] = startKey'[v])
                     \/ (Busy(v)' /\ gcase'[v] = startKey'[v])
<1> SUFFICES Names /\ Ends /\ Kept
  BY KeptFramed
<1>1. CASE GuestIniting(v) \/ InitHeartbeat(v) \/ InitDone(v)
  <2>1. /\ gpc[v] \in {"boot", "initing", "init"}
        /\ gpc'[v] \in {"initing", "init", "inited"}
        /\ gretest[v] \in Cases => gretest'[v] = gretest[v]
        /\ UNCHANGED <<gcase, gexc, startKey>>
        /\ ~CaseStart(v) /\ ~CaseEnd(v)
    BY <1>1, <1>y DEF GuestIniting, InitHeartbeat, InitDone, CaseStart, CaseEnd,
                      OnePath
  <2>2. state'[v] \notin Final
    BY <1>1, <1>y, <1>d DEF GuestIniting, InitHeartbeat, InitDone, Final
  <2>3. Names
    BY <2>1, <1>n DEF Engaged
  <2>4. Kept
    BY <2>1, <1>k, <1>s, <1>u DEF Busy
  <2> QED
    BY <2>2, <2>3, <2>4
<1>2. CASE RunBegin(v)
  <2>1. /\ gpc[v] = "inited" /\ state'[v] = "RUNNING"
        /\ UNCHANGED <<gexc, startKey>>
        /\ ~CaseStart(v) /\ ~CaseEnd(v)
        /\ \/ gretest[v] = NoCase /\ gpc'[v] = "fetch"
           \/ gpc'[v] = "got" /\ gcase'[v] = gretest[v]
    BY <1>2, <1>y DEF RunBegin, CaseStart, CaseEnd
  <2>2. Names /\ Ends
    BY <2>1, <1>n DEF Engaged, Final
  <2>3. Kept
    BY <2>1, <1>k, <1>s, <1>u, CasesFacts DEF Busy
  <2> QED
    BY <2>2, <2>3
<1>3. CASE FetchCase(v) \/ StopHeartbeat(v)
  <2>1. /\ gpc[v] \in {"fetch", "stop"}
        /\ gpc'[v] \in {"got", "stop", "fini"}
        /\ UNCHANGED <<gexc, startKey, state>>
        /\ ~CaseStart(v) /\ ~CaseEnd(v)
    BY <1>3, <1>y DEF FetchCase, StopHeartbeat, CaseStart, CaseEnd
  <2>2. Names /\ Ends
    BY <2>1, <1>n, <1>d DEF Engaged
  <2>3. Kept
    BY <2>1, <1>k, <1>s DEF Busy
  <2> QED
    BY <2>2, <2>3
<1>4. CASE CaseStart(v)
  <2>1. /\ gpc[v] = "got" /\ gpc'[v] = "trace" /\ startKey'[v] = gcase[v]
        /\ UNCHANGED <<gexc, gcase, state>>
    BY <1>4, <1>y DEF CaseStart
  <2> QED
    BY <2>1, <1>n, <1>d DEF Engaged, Busy
<1>5. CASE TraceCase(v)
  <2>1. /\ gpc[v] = "trace" /\ gpc'[v] \in {"end", "exc", "test", "record", "dedup"}
        /\ UNCHANGED <<gcase, state, startKey>>
        /\ gexc'[v] \in {gexc[v], "UNKNOWN", "NEED_RESTART_VM"}
        /\ ~CaseStart(v) /\ ~CaseEnd(v)
    BY <1>5, <1>y DEF TraceCase, CaseStart, CaseEnd
  <2> QED
    BY <2>1, <1>n, <1>d, <1>k, <1>s DEF Engaged, Busy
<1>6. CASE DedupOp(v) \/ DedupDone(v) \/ RecordIndices(v) \/ TestOp(v) \/ TestDone(v)
  <2>1. /\ gpc[v] \in {"dedup", "record", "test"}
        /\ gpc'[v] \in {"dedup", "end", "record", "test"}
        /\ UNCHANGED <<gcase, state, startKey, gexc>>
        /\ ~CaseStart(v) /\ ~CaseEnd(v)
    BY <1>6, <1>y DEF DedupOp, DedupDone, RecordIndices, TestOp, TestDone,
                      CaseStart, CaseEnd
  <2> QED
    BY <2>1, <1>n, <1>d, <1>k, <1>s DEF Engaged, Busy
<1>7. CASE CaseEnd(v)
  <2>1. /\ gpc[v] = "end" /\ gpc'[v] \in {"fetch", "exc"}
        /\ UNCHANGED <<state, startKey, gexc>> /\ endKey'[v] = gcase[v]
    BY <1>7, <1>y DEF CaseEnd
  <2>2. Settled(v)'
    BY <2>1, <1>n DEF Settled, Unfinished, Engaged
  <2> QED
    BY <2>1, <2>2, <1>n, <1>d DEF Engaged
<1>8. CASE GuestComplete(v)
  <2>1. /\ gpc[v] = "fini" /\ gpc'[v] = "off" /\ gexc'[v] = "none"
        /\ ~CaseStart(v) /\ ~CaseEnd(v)
    BY <1>8, <1>y DEF GuestComplete, KillGuest, CaseStart, CaseEnd
  <2>2. Settled(v)'
    BY <2>1, <1>k, <1>s DEF Busy
  <2> QED
    BY <2>1, <2>2 DEF Engaged
<1>9. CASE HandleException(v)
  <2>1. /\ gpc[v] = "exc" /\ ~CaseStart(v) /\ ~CaseEnd(v)
        /\ UNCHANGED <<startKey, endKey>>
    BY <1>9 DEF HandleException, CaseStart, CaseEnd
  <2>2. CASE state' = [state EXCEPT ![v] = gexc[v]]
             /\ KillGuest(v)
             /\ refuted' = (IF gexc[v] = "VALIDATION_FAILED"
                            THEN refuted \cup {gcase[v]} ELSE refuted)
    <3>1. gpc'[v] = "off" /\ gexc'[v] = "none" /\ state'[v] = gexc[v]
      BY <2>2, <1>y DEF KillGuest
    <3>2. gexc[v] \in Final => startKey[v] \in refuted'
      BY <2>2, <1>n DEF Final
    <3>3. gexc[v] \in Final => Settled(v)'
      BY <3>2, <2>1 DEF Settled, MayDrop
    <3> QED
      BY <3>1, <3>3 DEF Engaged
  <2>3. CASE gpc' = [gpc EXCEPT ![v] = "zombie"] /\ UNCHANGED <<state, gcase, gexc>>
    <3>1. gpc'[v] = "zombie"
      BY <2>3, <1>y
    <3> QED
      BY <3>1, <2>1, <2>3, <1>n, <1>d, <1>s DEF Engaged
  <2> QED
    BY <1>9, <2>2, <2>3 DEF HandleException
<1>10. CASE RaiseException(v) /\ ~CaseEnd(v)
  <2>1. /\ ~CaseStart(v) /\ ~CaseEnd(v) /\ gpc'[v] = "exc"
        /\ UNCHANGED <<startKey, endKey, state, gcase>>
    BY <1>10, <1>y DEF RaiseException, CaseStart
  <2>2. PICK s \in Raises(gpc[v]) : gexc' = [gexc EXCEPT ![v] = s]
    BY <1>10 DEF RaiseException
  <2>3. s # "COMPLETE" /\ (s = "VALIDATION_FAILED" => gpc[v] = "test")
    BY <2>2 DEF Raises
  <2>4. Names
    BY <2>1, <2>2, <2>3, <1>n, <1>y DEF Engaged
  <2>5. Ends /\ Kept
    BY <2>1, <1>d, <1>s
  <2> QED
    BY <2>4, <2>5
<1>11. CASE VmCrash(v)
  <2>1. /\ ~CaseStart(v) /\ ~CaseEnd(v) /\ gpc'[v] = "off" /\ gexc'[v] = "none"
        /\ UNCHANGED <<startKey, endKey, state>>
    BY <1>11, <1>y DEF VmCrash, KillGuest, CaseStart, CaseEnd
  <2> QED
    BY <2>1, <1>d, <1>s DEF Engaged
<1> QED
  BY <1>1, <1>2, <1>3, <1>4, <1>5, <1>6, <1>7, <1>8, <1>9, <1>10, <1>11
     DEF GuestStep

\* Every step keeps the cases, when all of them are under one path.
LEMMA KeptNext ==
  ASSUME OnePath, IInv, KeptInv, [Next]_vars
  PROVE  KeptInv'
<1>1. CASE HostStep \/ HostFails
  BY <1>1, WatchesHost, NamesHost, FinalHost, KeptHost DEF KeptInv
<1>2. ASSUME NEW v \in VMs, GuestStep(v) \/ RaiseException(v) \/ VmCrash(v)
      PROVE  KeptInv'
  BY <1>2, KeptGuest
<1>3. CASE UNCHANGED vars
  <2> USE <1>3 DEF vars, mcVars, listVars, hostVars, guestVars, ghostVars
  <2>1. \A v \in VMs : Settled(v)' <=> Settled(v)
    BY DEF Settled, Unfinished, MayDrop
  <2>2. Settled(hvm)' <=> Settled(hvm)
    BY DEF Settled, Unfinished, MayDrop
  <2>3. HostWatches' /\ NoneBegun' /\ StartNamesCase'
    BY DEF KeptInv, HostWatches, NoneBegun, StartNamesCase
  <2>4. FinalIsSettled'
    BY <2>1, <2>2 DEF KeptInv, FinalIsSettled, IInv, Typed, TypeOK
  <2>5. CaseKept'
    BY <2>1 DEF KeptInv, CaseKept, Busy
  <2> QED
    BY <2>3, <2>4, <2>5 DEF KeptInv
<1> QED
  BY <1>1, <1>2, <1>3 DEF Next

\* No case gets lost: KeptInv is an invariant of the campaign.
LEMMA CampaignKept == ASSUME OnePath PROVE Spec => []KeptInv
<1>1. Init => KeptInv
  BY KeptInit
<1>2. IInv /\ KeptInv /\ [Next]_vars => KeptInv'
  BY KeptNext
<1> QED
  BY <1>1, <1>2, CampaignSafety, PTL DEF Spec

\* When all cases are under the first path of EXEC_FILES, a VM moves on from an
\* unfinished case only if its retests are used up or it was refuted, whatever
\* crashes, silences and failed reports there are.
THEOREM CampaignNoCaseForgotten == ASSUME OnePath PROVE Spec => NoCaseForgotten
<1> DEFINE Keeps == \A v \in VMs :
          startKey'[v] # startKey[v] /\ Unfinished(v) => MayDrop(startKey[v])
<1>1. IInv /\ KeptInv /\ [Next]_vars => [Keeps]_vars
  <2> SUFFICES ASSUME IInv, KeptInv, Next, NEW v \in VMs,
                      startKey'[v] # startKey[v], ~Settled(v)
               PROVE  FALSE
    BY DEF Settled
  <2>1. ~(HostStep \/ HostFails)
    BY HostEffect
  <2>2. PICK w \in VMs : GuestStep(w) \/ RaiseException(w) \/ VmCrash(w)
    BY <2>1 DEF Next
  <2>3. w = v
    BY <2>2, GuestFrame
  <2>4. CaseStart(v)
    BY <2>2, <2>3 DEF mcVars, GuestStep, GuestIniting, InitHeartbeat, InitDone, RunBegin,
         FetchCase, TraceCase, DedupOp, DedupDone, RecordIndices, TestOp,
         TestDone, CaseEnd, StopHeartbeat, GuestComplete, HandleException,
         RaiseException, VmCrash
  <2>5. gpc[v] = "got" /\ startKey'[v] = gcase[v]
    BY <2>4 DEF CaseStart, At, IInv, Typed, TypeOK
  <2> QED
    BY <2>5 DEF KeptInv, CaseKept
<1> QED
  BY <1>1, CampaignKept, CampaignSafety, PTL DEF Spec, NoCaseForgotten

\* Under the same condition a VM that is reported complete has left no case
\* behind.
THEOREM CampaignCompleteIsDone == ASSUME OnePath PROVE Spec => []CompleteIsDone
<1>1. IInv /\ KeptInv => CompleteIsDone
  BY DEF IInv, Typed, TypeOK, KeptInv, FinalIsSettled, Settled, CompleteIsDone
<1> QED
  BY <1>1, CampaignKept, CampaignSafety, PTL

-----------------------------------------------------------------------------
(* A claim is honoured.                                                    *)

\* No step gives faults back.
LEMMA FaultsFall ==
  ASSUME IInv, Next
  PROVE  faults \in Nat /\ faults' \in Nat /\ faults' <= faults
<1> USE DEF mcVars, listVars, hostVars, guestVars, ghostVars
<1>t. faults \in Nat /\ faults' \in Nat
  BY SafetyNext DEF IInv, Typed, TypeOK
<1>1. CASE HostStep \/ HostFails
  <2>1. ASSUME NEW w \in VMs, StartJob(w) \/ Poll(w) PROVE faults' \in {faults, faults - 1}
    BY <2>1 DEF StartJob, Poll, PollStarted, PollStartTimeout, PollAlive, Polling,
                PollHeartbeatLost, PollComplete, PollNeedRestart,
                PollValidationFailed, PollNeedDebug, PollInvalid, Pass, Leave,
                Recover, FreeIf, Spend
  <2>2. faults' \in {faults, faults - 1}
    BY <1>1, <2>1 DEF HostStep, HostFails, RestoreVm, RestartVm, StartGuestJob,
                  MarkStarted, Spend
  <2> QED
    BY <1>t, <2>2
<1>2. ASSUME NEW v \in VMs, GuestStep(v) \/ RaiseException(v) \/ VmCrash(v)
      PROVE  faults' <= faults
  <2>1. CASE FetchCase(v)
    <3>1. faults' = faults \/ \E k \in Increments : faults' = faults - (k - 1)
      BY <2>1 DEF FetchCase
    <3> QED
      BY <3>1, <1>t DEF Increments, MC_CMD_RETRY_TIMES
  <2>2. CASE ~FetchCase(v)
    <3>1. faults' \in {faults, faults - 1}
      BY <1>2, <2>2 DEF GuestStep, GuestIniting, InitHeartbeat, InitDone, RunBegin,
         CaseStart, TraceCase, DedupOp, DedupDone, RecordIndices, TestOp,
         TestDone, CaseEnd, StopHeartbeat, GuestComplete, HandleException,
         RaiseException, VmCrash, FreeIf, Spend
    <3> QED
      BY <3>1, <1>t
  <2> QED
    BY <2>1, <2>2
<1> QED
  BY <1>t, <1>1, <1>2 DEF Next

\* The keys and ghosts a guest may write, and when.
LEMMA GuestEffect ==
  ASSUME IInv, NEW v \in VMs,
         GuestStep(v) \/ RaiseException(v) \/ VmCrash(v)
  PROVE  /\ \A h \in Hashes : \/ owner'[h] = owner[h]
                              \/ DedupOp(v) /\ owner[h] = NoCase /\ owner'[h] = gcase[v]
         /\ \A w \in VMs : \/ endKey'[w] = endKey[w]
                           \/ w = v /\ CaseEnd(v) /\ endKey'[w] = gcase[v]
         /\ \A w \in VMs : \/ uniqKey'[w] = uniqKey[w]
                           \/ /\ w = v /\ RecordIndices(v)
                              /\ uniqKey'[w] = [case |-> gcase[v], ops |-> gidx[v]]
         /\ \A c \in Cases : \/ runs'[c] = runs[c]
                             \/ CaseStart(v) /\ c = gcase[v] /\ runs'[c] = runs[c] + 1
         /\ tested \subseteq tested'
         /\ Engaged(v) \/ gpc[v] = "got" \/ UNCHANGED <<owner, endKey, uniqKey, runs, tested>>
<1> USE DEF mcVars, ghostVars, At
<1>t. Typed
  BY DEF IInv
<1>1. CASE DedupOp(v)
  BY <1>1, <1>t, HashIn DEF DedupOp, Engaged, Typed, TypeOK, LocalsBound, Busy
<1>2. CASE CaseEnd(v)
  BY <1>2, <1>t DEF CaseEnd, Engaged, Typed, TypeOK
<1>3. CASE RecordIndices(v)
  BY <1>3, <1>t DEF RecordIndices, Engaged, Typed, TypeOK
<1>4. CASE CaseStart(v)
  BY <1>4, <1>t DEF CaseStart, Typed, TypeOK, LocalsBound, Busy
<1>5. CASE TestOp(v)
  BY <1>5 DEF TestOp, Engaged
<1>6. CASE ~(DedupOp(v) \/ CaseEnd(v) \/ RecordIndices(v) \/ CaseStart(v) \/ TestOp(v))
  <2>1. UNCHANGED <<owner, endKey, uniqKey, runs, tested>>
    BY <1>6 DEF GuestStep, GuestIniting, InitHeartbeat, InitDone, RunBegin, FetchCase,
         TraceCase, DedupDone, TestDone, StopHeartbeat, GuestComplete,
         HandleException, RaiseException, VmCrash
  <2> QED
    BY <2>1
<1> QED
  BY <1>1, <1>2, <1>3, <1>4, <1>5, <1>6

\* Operations are numbered from one.
LEMMA OpsRange == \A c \in Cases : \E n \in Nat : Ops(c) = 1 .. n
<1> SUFFICES ASSUME NEW c \in Cases PROVE \E n \in Nat : Ops(c) = 1 .. n
  OBVIOUS
<1>1. HashOf[c] \in Seq(Hashes)
  BY CampaignAssumption
<1> QED
  BY <1>1 DEF Ops

\* At the beginning nothing was looked up, claimed or tested.
LEMMA ClaimInit == Init => ClaimInv
<1> SUFFICES ASSUME Init PROVE ClaimInv
  OBVIOUS
<1>1. RunsSeen
  BY CampaignAssumption DEF Init, RunsSeen, Engaged
<1>2. LookedUp /\ FirstRun /\ EndedIsDone
  BY DEF Init, LookedUp, FirstRun, EndedIsDone, Engaged
<1> QED
  BY <1>1, <1>2 DEF ClaimInv

\* A step that stores nothing and lets every guest stay where it is or leave
\* its case.
LEMMA ClaimQuiet ==
  ASSUME IInv, ClaimInv, Next,
         UNCHANGED <<owner, endKey, uniqKey, runs, tested>>,
         \A w \in VMs : \/ gpc'[w] \notin {"got", "trace", "dedup", "record", "test", "end"}
                        \/ /\ gpc'[w] = gpc[w] /\ gcase'[w] = gcase[w]
                           /\ gknown'[w] = gknown[w] /\ gidx'[w] = gidx[w]
                           /\ gop'[w] = gop[w]
  PROVE  ClaimInv'
<1>f. /\ faults \in Nat /\ faults' \in Nat /\ faults' <= faults /\ MaxFaults \in Nat
      /\ faults <= MaxFaults
  BY FaultsFall, CampaignAssumption DEF ClaimInv, RunsSeen
<1>n. NoAddLost' => NoAddLost
  BY <1>f DEF NoAddLost
<1>c. \A c \in Cases : Claimed(c)' = Claimed(c) /\ (ClaimsDone(c)' <=> ClaimsDone(c))
  BY DEF Claimed, ClaimsDone
<1>b. \A v \in VMs : Engaged(v) => gcase[v] \in Cases
  BY DEF IInv, Typed, LocalsBound, Busy, Engaged
<1>e. \A v \in VMs : endKey[v] # NoCase => endKey[v] \in Cases
  BY CasesFacts DEF IInv, Typed, TypeOK
<1>1. RunsSeen'
  BY <1>f DEF ClaimInv, RunsSeen, Engaged
<1>2. LookedUp'
  BY DEF ClaimInv, LookedUp
<1>3. FirstRun'
  <2> SUFFICES ASSUME NEW v \in VMs, Engaged(v)', runs'[gcase'[v]] = 1
               PROVE  /\ \A w \in VMs : endKey'[w] # gcase'[v]
                      /\ gpc'[v] = "trace" => \A h \in Hashes : owner'[h] # gcase'[v]
                      /\ NoAddLost' =>
                          /\ gpc'[v] \in {"dedup", "record"} => Claimed(gcase[v])' \subseteq gidx'[v]
                          /\ gpc'[v] = "test" =>
                              \A i \in Claimed(gcase[v])' :
                                i \in gidx'[v] /\ (i < gop'[v] => <<gcase'[v], i>> \in tested')
                          /\ gpc'[v] = "end" => ClaimsDone(gcase[v])'
    BY DEF FirstRun
  <2>1. /\ gpc'[v] = gpc[v] /\ gcase'[v] = gcase[v] /\ gidx'[v] = gidx[v]
        /\ gop'[v] = gop[v] /\ Engaged(v)
    BY DEF Engaged
  <2>2. Claimed(gcase[v])' = Claimed(gcase[v]) /\ (ClaimsDone(gcase[v])' <=> ClaimsDone(gcase[v]))
    BY <2>1 DEF Claimed, ClaimsDone
  <2> QED
    BY <2>1, <2>2, <1>n DEF ClaimInv, FirstRun
<1>4. EndedIsDone'
  <2> SUFFICES ASSUME NEW v \in VMs, endKey[v] # NoCase, runs[endKey[v]] = 1, NoAddLost'
               PROVE  ClaimsDone(endKey[v])'
    BY DEF EndedIsDone
  <2>1. ClaimsDone(endKey[v])
    BY <1>n DEF ClaimInv, EndedIsDone
  <2> QED
    BY <2>1 DEF Claimed, ClaimsDone
<1> QED
  BY <1>1, <1>2, <1>3, <1>4 DEF ClaimInv

\* No step of the host leaves a claim without its test.
LEMMA ClaimHost ==
  ASSUME IInv, ClaimInv, HostStep \/ HostFails
  PROVE  ClaimInv'
<1>t. Typed /\ hvm \in VMs
  BY DEF IInv, Typed, TypeOK
<1>1. UNCHANGED <<owner, endKey, uniqKey, runs, tested>>
  BY HostEffect
<1>2. \A w \in VMs : \/ gpc'[w] \in {"off", "boot"}
                     \/ /\ gpc'[w] = gpc[w] /\ gcase'[w] = gcase[w]
                        /\ gknown'[w] = gknown[w] /\ gidx'[w] = gidx[w]
                        /\ gop'[w] = gop[w]
  <2>1. CASE UNCHANGED guestVars
    BY <2>1 DEF guestVars
  <2>2. CASE KillGuest(hvm)
    BY <2>2, <1>t DEF KillGuest, ClearCase, Typed, TypeOK
  <2>3. CASE \E c \in CaseOrNone : Boot(hvm, c)
    BY <2>3, <1>t DEF Boot, Typed, TypeOK
  <2> QED
    BY <2>1, <2>2, <2>3, HostEffect
<1> QED
  BY <1>1, <1>2, ClaimQuiet DEF Next

\* Two guests with a case have different cases.
LEMMA CasesApart ==
  ASSUME IInv, NEW v \in VMs, NEW w \in VMs, v # w, gcase[v] \in Cases
  PROVE  gcase[w] # gcase[v]
  BY DEF IInv, Custody, OneHolder, Holds

\* What only a run leaves behind, after each step of a guest.
LEMMA SeenGuest ==
  ASSUME IInv, OwnerInv, ClaimInv, NEW v \in VMs,
         GuestStep(v) \/ RaiseException(v) \/ VmCrash(v)
  PROVE  RunsSeen'
<1> USE DEF mcVars, guestVars, ghostVars, At, Goto
<1>t. Typed /\ RunsSeen /\ LocalsCleared
  BY DEF IInv, ClaimInv, OwnerInv
<1>y. /\ gpc \in [VMs -> GuestPcs] /\ gcase \in [VMs -> CaseOrNone]
      /\ gknown \in [VMs -> BOOLEAN] /\ gretest \in [VMs -> CaseOrNone]
      /\ runs \in [Cases -> Nat] /\ owner \in [Hashes -> CaseOrNone]
      /\ endKey \in [VMs -> CaseOrNone]
      /\ uniqKey \in [VMs -> [case : CaseOrNone, ops : SUBSET Nat]]
  BY <1>t DEF Typed, TypeOK
<1>b. Busy(v) => gcase[v] \in Cases
  BY <1>t DEF Typed, LocalsBound
<1>0. faults' <= MaxFaults
  <2>1. faults \in Nat /\ faults' \in Nat /\ faults' <= faults
    BY FaultsFall DEF Next
  <2> QED
    BY <2>1, <1>t, CampaignAssumption DEF RunsSeen
<1>m. \A c \in Cases, n \in Nat : runs[c] >= n => runs'[c] >= n
  <2>1. \A c \in Cases : runs'[c] = runs[c] \/ runs'[c] = runs[c] + 1
    BY GuestEffect
  <2>2. \A c \in Cases : runs[c] \in Nat
    BY <1>y
  <2> QED
    BY <2>1, <2>2
<1>1. \A h \in Hashes : owner'[h] # NoCase => runs'[owner'[h]] >= 1
  <2> SUFFICES ASSUME NEW h \in Hashes, owner'[h] # NoCase
               PROVE  owner'[h] \in Cases /\ runs[owner'[h]] >= 1
    BY <1>m
  <2>1. CASE owner'[h] = owner[h]
    BY <2>1, <1>t, <1>y, CasesFacts DEF RunsSeen
  <2>2. CASE DedupOp(v) /\ owner'[h] = gcase[v]
    BY <2>2, <1>t, <1>b DEF RunsSeen, DedupOp, Engaged, Busy
  <2> QED
    BY <2>1, <2>2, GuestEffect
<1>2. \A w \in VMs : endKey'[w] # NoCase => runs'[endKey'[w]] >= 1
  <2> SUFFICES ASSUME NEW w \in VMs, endKey'[w] # NoCase
               PROVE  endKey'[w] \in Cases /\ runs[endKey'[w]] >= 1
    BY <1>m
  <2>1. CASE endKey'[w] = endKey[w]
    BY <2>1, <1>t, <1>y, CasesFacts DEF RunsSeen
  <2>2. CASE CaseEnd(v) /\ endKey'[w] = gcase[v]
    BY <2>2, <1>t, <1>b DEF RunsSeen, CaseEnd, Engaged, Busy
  <2> QED
    BY <2>1, <2>2, GuestEffect
<1>3. \A w \in VMs : uniqKey'[w].case # NoCase => runs'[uniqKey'[w].case] >= 1
  <2> SUFFICES ASSUME NEW w \in VMs, uniqKey'[w].case # NoCase
               PROVE  uniqKey'[w].case \in Cases /\ runs[uniqKey'[w].case] >= 1
    BY <1>m
  <2>1. CASE uniqKey'[w] = uniqKey[w]
    BY <2>1, <1>t, <1>y, CasesFacts DEF RunsSeen
  <2>2. CASE RecordIndices(v) /\ uniqKey'[w] = [case |-> gcase[v], ops |-> gidx[v]]
    BY <2>2, <1>t, <1>b DEF RunsSeen, RecordIndices, Engaged, Busy
  <2> QED
    BY <2>1, <2>2, GuestEffect
<1>4. ASSUME NEW w \in VMs
      PROVE  /\ Engaged(w)' => runs'[gcase'[w]] >= 1
             /\ gpc'[w] = "got" /\ gknown'[w] => runs'[gcase'[w]] >= 1
             /\ Engaged(w)' /\ gknown'[w] => runs'[gcase'[w]] >= 2
  <2>1. CASE w # v \/ (gpc'[v] = gpc[v] /\ gcase'[v] = gcase[v] /\ gknown'[v] = gknown[v])
    <3>1. gpc'[w] = gpc[w] /\ gcase'[w] = gcase[w] /\ gknown'[w] = gknown[w]
      BY <2>1, GuestFrame
    <3>2. Engaged(w) \/ gpc[w] = "got" => gcase[w] \in Cases
      BY <1>t DEF Typed, LocalsBound, Busy, Engaged
    <3> QED
      BY <3>1, <3>2, <1>t, <1>m DEF RunsSeen, Engaged
  <2>2. CASE w = v /\ gpc'[v] \notin {"got", "trace", "dedup", "record", "test", "end"}
    BY <2>2 DEF Engaged
  <2>3. CASE w = v /\ Engaged(v) /\ Engaged(v)' /\ gcase'[v] = gcase[v] /\ gknown'[v] = gknown[v]
    BY <2>3, <1>t, <1>b, <1>m DEF RunsSeen, Engaged, Busy
  <2>4. CASE w = v /\ RunBegin(v)
    <3>1. CASE gpc'[v] = "got" /\ gknown'[v]
      <4>1. gcase'[v] = uniqKey[v].case /\ uniqKey[v].case # NoCase
        BY <3>1, <2>4, <1>y DEF RunBegin, StoredFor
      <4>2. uniqKey[v].case \in Cases /\ runs[uniqKey[v].case] >= 1
        BY <4>1, <1>y, <1>t, CasesFacts DEF RunsSeen
      <4> QED
        BY <2>4, <3>1, <4>1, <4>2, <1>m DEF Engaged
    <3>2. CASE ~(gpc'[v] = "got" /\ gknown'[v])
      <4>1. gpc'[v] \in {"fetch", "got"}
        BY <2>4, <1>y DEF RunBegin
      <4> QED
        BY <2>4, <4>1, <3>2 DEF Engaged
    <3> QED
      BY <3>1, <3>2
  <2>5. CASE w = v /\ FetchCase(v)
    BY <2>5, <1>t, <1>y DEF FetchCase, LocalsCleared, Resting, Engaged
  <2>6. CASE w = v /\ CaseStart(v)
    <3>1. /\ gpc[v] = "got" /\ gcase' = gcase /\ gknown' = gknown
          /\ gcase[v] \in Cases /\ runs'[gcase[v]] = runs[gcase[v]] + 1
          /\ gpc'[v] = "trace" /\ runs[gcase[v]] \in Nat
      BY <2>6, <1>b, <1>y DEF CaseStart, Busy
    <3> QED
      BY <3>1, <2>6, <1>t DEF RunsSeen, Engaged
  <2> QED
    <3>1. CASE \/ GuestIniting(v) \/ InitHeartbeat(v) \/ InitDone(v) \/ CaseEnd(v)
               \/ StopHeartbeat(v) \/ GuestComplete(v) \/ HandleException(v)
               \/ RaiseException(v) \/ VmCrash(v)
      <4>1. gpc'[v] \notin {"got", "trace", "dedup", "record", "test", "end"}
        BY <3>1, <1>y DEF GuestIniting, InitHeartbeat, InitDone, CaseEnd,
             StopHeartbeat, GuestComplete, HandleException, RaiseException,
             VmCrash, KillGuest
      <4> QED
        BY <4>1, <2>1, <2>2
    <3>2. CASE TraceCase(v)
      <4>1. /\ gpc[v] = "trace" /\ gpc'[v] \in {"end", "exc", "test", "record", "dedup"}
            /\ gcase' = gcase /\ gknown' = gknown
        BY <3>2, <1>y DEF TraceCase
      <4> QED
        BY <4>1, <2>1, <2>2, <2>3 DEF Engaged
    <3>3. CASE DedupOp(v) \/ DedupDone(v) \/ RecordIndices(v) \/ TestOp(v) \/ TestDone(v)
      <4>1. /\ gpc[v] \in {"dedup", "record", "test"}
            /\ gpc'[v] \in {"dedup", "record", "test", "end"}
            /\ gcase' = gcase /\ gknown' = gknown
        BY <3>3, <1>y DEF DedupOp, DedupDone, RecordIndices, TestOp, TestDone
      <4> QED
        BY <4>1, <2>1, <2>3 DEF Engaged
    <3> QED
      BY <3>1, <3>2, <3>3, <2>1, <2>4, <2>5, <2>6 DEF GuestStep
<1> QED
  BY <1>0, <1>1, <1>2, <1>3, <1>4 DEF RunsSeen

\* The operations looked up so far have an owner, after each step of a guest.
LEMMA LookedUpGuest ==
  ASSUME IInv, ClaimInv, NEW v \in VMs,
         GuestStep(v) \/ RaiseException(v) \/ VmCrash(v)
  PROVE  LookedUp'
<1> USE DEF mcVars, guestVars, ghostVars, At, Goto
<1>t. Typed /\ LookedUp
  BY DEF IInv, ClaimInv
<1>y. /\ gpc \in [VMs -> GuestPcs] /\ gcase \in [VMs -> CaseOrNone]
      /\ gop \in [VMs -> Nat] /\ owner \in [Hashes -> CaseOrNone]
  BY <1>t DEF Typed, TypeOK
<1>o. \A h \in Hashes : owner[h] # NoCase => owner'[h] # NoCase
  BY GuestEffect
<1> SUFFICES ASSUME NEW w \in VMs, gpc'[w] = "dedup",
                    NEW j \in Ops(gcase'[w]), j < gop'[w]
             PROVE  owner'[HashOf[gcase'[w]][j]] # NoCase
  BY DEF LookedUp
<1>1. CASE gpc[w] = "dedup" /\ gcase'[w] = gcase[w] /\ gop'[w] = gop[w]
  <2>1. gcase[w] \in Cases
    BY <1>1, <1>t DEF Typed, LocalsBound, Busy
  <2> QED
    BY <1>1, <2>1, <1>t, <1>o, HashIn DEF LookedUp
<1>2. CASE w = v /\ DedupOp(v)
  <2>1. /\ gcase[v] \in Cases /\ gcase' = gcase /\ gpc[v] = "dedup"
        /\ gop'[v] = gop[v] + 1 /\ gop[v] \in Nat /\ j \in Nat
    BY <1>2, <1>t, <1>y, OpsNat DEF DedupOp, Typed, LocalsBound, Busy
  <2>2. CASE j < gop[v]
    BY <1>2, <2>1, <2>2, <1>t, <1>o, HashIn DEF LookedUp
  <2>3. CASE j = gop[v]
    BY <1>2, <2>1, <2>3, <1>y, HashIn, CasesFacts DEF DedupOp
  <2> QED
    BY <1>2, <2>1, <2>2, <2>3
<1>3. CASE w = v /\ TraceCase(v)
  <2>1. gop'[v] = 1 /\ gcase' = gcase /\ gcase[v] \in Cases
    BY <1>3, <1>t, <1>y DEF TraceCase, Typed, LocalsBound, Busy
  <2>2. j \in Nat /\ j >= 1
    BY <2>1, <1>3, OpsRange
  <2> QED
    BY <1>3, <2>1, <2>2
<1>4. CASE w # v
  BY <1>4, <1>1, GuestFrame
<1>5. CASE w = v /\ ~DedupOp(v) /\ ~TraceCase(v)
  <2>1. gpc'[v] # "dedup"
    BY <1>5, <1>y DEF GuestStep, GuestIniting, InitHeartbeat, InitDone, RunBegin, FetchCase,
         CaseStart, DedupDone, RecordIndices, TestOp, TestDone, CaseEnd, StopHeartbeat,
         GuestComplete, HandleException, RaiseException, VmCrash, KillGuest
  <2> QED
    BY <1>5, <2>1
<1> QED
  BY <1>2, <1>3, <1>4, <1>5

\* The first run of a case, after each step of a guest.
LEMMA FirstGuest ==
  ASSUME IInv, OwnerInv, ClaimInv, NEW v \in VMs,
         GuestStep(v) \/ RaiseException(v) \/ VmCrash(v)
  PROVE  FirstRun'
<1> USE DEF mcVars, guestVars, ghostVars, At, Goto
<1>t. Typed /\ RunsSeen /\ LookedUp /\ FirstRun /\ LocalsCleared
  BY DEF IInv, ClaimInv, OwnerInv
<1>y. /\ gpc \in [VMs -> GuestPcs] /\ gcase \in [VMs -> CaseOrNone]
      /\ gknown \in [VMs -> BOOLEAN] /\ gidx \in [VMs -> SUBSET Nat]
      /\ gop \in [VMs -> Nat]
      /\ runs \in [Cases -> Nat] /\ owner \in [Hashes -> CaseOrNone]
      /\ endKey \in [VMs -> CaseOrNone]
  BY <1>t DEF Typed, TypeOK
<1>b. \A w \in VMs : Busy(w) => gcase[w] \in Cases
  BY <1>t DEF Typed, LocalsBound
<1>n. NoAddLost' => NoAddLost
  <2>1. faults \in Nat /\ faults' \in Nat /\ faults' <= faults
    BY FaultsFall DEF Next
  <2> QED
    BY <2>1, <1>t, CampaignAssumption DEF NoAddLost, RunsSeen
<1>e. tested \subseteq tested'
  BY GuestEffect
<1> DEFINE Fine(w) ==
      /\ \A u \in VMs : endKey[u] # gcase[w]
      /\ gpc[w] = "trace" => \A h \in Hashes : owner[h] # gcase[w]
      /\ NoAddLost =>
          /\ gpc[w] \in {"dedup", "record"} => Claimed(gcase[w]) \subseteq gidx[w]
          /\ gpc[w] = "test" =>
                \A i \in Claimed(gcase[w]) :
                   i \in gidx[w] /\ (i < gop[w] => <<gcase[w], i>> \in tested)
          /\ gpc[w] = "end" => ClaimsDone(gcase[w])
<1>f. \A w \in VMs : Engaged(w) /\ runs[gcase[w]] = 1 => Fine(w)
  BY <1>t DEF FirstRun
<1> SUFFICES ASSUME NEW w \in VMs, Engaged(w)', runs'[gcase'[w]] = 1
             PROVE  Fine(w)'
  BY DEF FirstRun
\* No other guest touches what belongs to the case of w.
<1>1. CASE w # v
  <2>1. /\ gpc'[w] = gpc[w] /\ gcase'[w] = gcase[w] /\ gidx'[w] = gidx[w]
        /\ gop'[w] = gop[w]
    BY <1>1, GuestFrame
  <2>2. Engaged(w) /\ gcase[w] \in Cases /\ gcase[v] # gcase[w]
    <3>1. Engaged(w) /\ gcase[w] \in Cases
      BY <2>1, <1>b DEF Engaged, Busy
    <3> QED
      BY <3>1, <1>1, CasesApart
  <2>3. Fine(w)
    <3>1. runs'[gcase[w]] = runs[gcase[w]]
      BY <2>2, GuestEffect
    <3> QED
      BY <2>1, <2>2, <3>1, <1>f
  <2>4. \A u \in VMs : endKey'[u] # gcase[w]
    BY <2>2, <2>3, GuestEffect
  <2>5. \A h \in Hashes : owner'[h] = gcase[w] => owner[h] = gcase[w]
    BY <2>2, GuestEffect
  <2>6. Claimed(gcase[w])' \subseteq Claimed(gcase[w])
    BY <2>1, <2>2, <2>5, HashIn DEF Claimed
  <2>7. ClaimsDone(gcase[w]) => ClaimsDone(gcase[w])'
    BY <2>1, <2>6, <1>e DEF ClaimsDone
  <2> QED
    BY <2>1, <2>3, <2>4, <2>5, <2>6, <2>7, <1>n, <1>e
\* The case begins: nothing bears its name yet.
<1>2. CASE w = v /\ CaseStart(v)
  <2>1. /\ gpc'[v] = "trace" /\ gcase' = gcase /\ gcase[v] \in Cases
        /\ runs'[gcase[v]] = runs[gcase[v]] + 1 /\ UNCHANGED <<endKey, owner>>
    BY <1>2, <1>y, <1>b DEF CaseStart, Busy
  <2>2. runs[gcase[v]] = 0
    BY <1>2, <2>1, <1>y
  <2>3. /\ \A u \in VMs : endKey[u] # gcase[v]
        /\ \A h \in Hashes : owner[h] # gcase[v]
    BY <2>1, <2>2, <1>t, CasesFacts DEF RunsSeen
  <2> QED
    BY <1>2, <2>1, <2>3
\* After the trace there are no claims yet.
<1>3. CASE w = v /\ TraceCase(v)
  <2>1. /\ gpc[v] = "trace" /\ gcase' = gcase /\ gcase[v] \in Cases
        /\ gpc'[v] \in {"end", "exc", "test", "record", "dedup"}
        /\ UNCHANGED <<endKey, owner, tested, runs>> /\ Engaged(v)
    BY <1>3, <1>y, <1>b DEF TraceCase, Busy, Engaged
  <2>2. Fine(v)
    BY <1>3, <2>1, <1>f
  <2>3. Claimed(gcase[v])' = {}
    BY <2>1, <2>2, HashIn DEF Claimed
  <2> QED
    BY <1>3, <2>1, <2>2, <2>3 DEF ClaimsDone
\* mc_add: what it claims is the first operation with its hash.
<1>4. CASE w = v /\ DedupOp(v)
  <2> DEFINE g == gop[v]
             h == HashOf[gcase[v]][g]
  <2>1. /\ gpc[v] = "dedup" /\ gcase' = gcase /\ gpc' = gpc /\ gcase[v] \in Cases
        /\ g \in Ops(gcase[v]) /\ h \in Hashes
        /\ UNCHANGED <<endKey, tested, runs>> /\ Engaged(v)
    BY <1>4, <1>b, HashIn DEF DedupOp, Busy, Engaged
  <2>2. Fine(v)
    BY <1>4, <2>1, <1>f
  <2>3. \A j \in Ops(gcase[v]) : j < g => owner[HashOf[gcase[v]][j]] # NoCase
    BY <2>1, <1>t DEF LookedUp
  <2>4. NoAddLost' => Claimed(gcase[v])' \subseteq gidx'[v]
    <3> SUFFICES ASSUME NoAddLost', NEW i \in Claimed(gcase[v])' PROVE i \in gidx'[v]
      OBVIOUS
    <3>1. /\ i \in Ops(gcase[v]) /\ owner'[HashOf[gcase[v]][i]] = gcase[v]
          /\ \A j \in 1 .. (i - 1) : HashOf[gcase[v]][j] # HashOf[gcase[v]][i]
      BY <2>1 DEF Claimed
    <3>2. CASE owner[HashOf[gcase[v]][i]] = gcase[v]
      <4>1. i \in Claimed(gcase[v])
        BY <3>1, <3>2 DEF Claimed
      <4>2. i \in gidx[v]
        BY <4>1, <2>1, <2>2, <1>n
      <4> QED
        BY <4>2, <1>4, <1>y DEF DedupOp
    <3>3. CASE owner[HashOf[gcase[v]][i]] # gcase[v]
      <4>1. HashOf[gcase[v]][i] \in Hashes
        BY <3>1, <2>1, HashIn
      <4>2. HashOf[gcase[v]][i] = h /\ owner[h] = NoCase
        BY <4>1, <3>1, <3>3, <1>4, <1>y, <2>1 DEF DedupOp
      <4>3. gidx'[v] = gidx[v] \cup {g}
        <5>1. faults \in Nat /\ faults <= MaxFaults /\ MaxFaults \in Nat
          BY <1>t, CampaignAssumption DEF RunsSeen, Typed, TypeOK
        <5>2. ~Spend("add")
          BY <5>1 DEF Spend, NoAddLost
        <5> QED
          BY <5>2, <4>2, <1>4, <1>y DEF DedupOp
      <4>4. i \in Nat /\ g \in Nat /\ i >= 1 /\ g >= 1
        BY <3>1, <2>1, OpsRange
      <4>5. ~(i < g)
        BY <4>2, <3>1, <2>3
      <4>6. ~(g < i)
        BY <4>2, <4>4, <3>1
      <4> QED
        BY <4>3, <4>4, <4>5, <4>6
    <3> QED
      BY <3>2, <3>3
  <2> QED
    BY <1>4, <2>1, <2>2, <2>4
<1>5. CASE w = v /\ DedupDone(v)
  <2>1. /\ gpc[v] = "dedup" /\ gcase' = gcase /\ gcase[v] \in Cases
        /\ gpc'[v] \in {"end", "record"} /\ (gpc'[v] = "end" => gidx[v] = {})
        /\ UNCHANGED <<endKey, owner, tested, runs, gidx>> /\ Engaged(v)
    BY <1>5, <1>y, <1>b DEF DedupDone, NothingClaimed, Busy, Engaged
  <2>2. Fine(v)
    BY <1>5, <2>1, <1>f
  <2>3. Claimed(gcase[v])' = Claimed(gcase[v])
    BY <2>1 DEF Claimed
  <2> QED
    BY <1>5, <2>1, <2>2, <2>3, <1>n DEF ClaimsDone
<1>6. CASE w = v /\ RecordIndices(v)
  <2>1. /\ gpc[v] = "record" /\ gcase' = gcase /\ gcase[v] \in Cases
        /\ gpc'[v] = "test" /\ gop'[v] = 1
        /\ UNCHANGED <<endKey, owner, tested, runs, gidx>> /\ Engaged(v)
    BY <1>6, <1>y, <1>b DEF RecordIndices, Busy, Engaged
  <2>2. Fine(v)
    BY <1>6, <2>1, <1>f
  <2>3. Claimed(gcase[v])' = Claimed(gcase[v])
    BY <2>1 DEF Claimed
  <2>4. \A i \in Claimed(gcase[v]) : ~(i < 1)
    BY <2>1, OpsRange DEF Claimed
  <2> QED
    BY <1>6, <2>1, <2>2, <2>3, <2>4, <1>n
<1>7. CASE w = v /\ TestOp(v)
  <2>1. /\ gpc[v] = "test" /\ gcase' = gcase /\ gcase[v] \in Cases
        /\ gpc' = gpc /\ gop'[v] = gop[v] + 1 /\ gop[v] \in Nat
        /\ gop[v] \in gidx[v] => <<gcase[v], gop[v]>> \in tested'
        /\ UNCHANGED <<endKey, owner, runs, gidx>> /\ Engaged(v)
    BY <1>7, <1>y, <1>b DEF TestOp, Busy, Engaged
  <2>2. Fine(v)
    BY <1>7, <2>1, <1>f
  <2>3. Claimed(gcase[v])' = Claimed(gcase[v])
    BY <2>1 DEF Claimed
  <2>4. \A i \in Claimed(gcase[v]) : i \in Nat
    BY <2>1, OpsNat DEF Claimed
  <2>5. ASSUME NoAddLost', NEW i \in Claimed(gcase[v])
        PROVE  i \in gidx[v] /\ (i < gop[v] + 1 => <<gcase[v], i>> \in tested')
    <3>1. i \in gidx[v] /\ (i < gop[v] => <<gcase[v], i>> \in tested)
      BY <2>1, <2>2, <2>5, <1>n
    <3> QED
      BY <3>1, <2>1, <2>4, <2>5, <1>e
  <2> QED
    BY <1>7, <2>1, <2>2, <2>3, <2>5
\* The loop has passed every operation.
<1>8. CASE w = v /\ TestDone(v)
  <2>1. /\ gpc[v] = "test" /\ gcase' = gcase /\ gcase[v] \in Cases
        /\ gpc'[v] = "end" /\ gop[v] \notin Ops(gcase[v]) /\ gop[v] \in Nat
        /\ UNCHANGED <<endKey, owner, tested, runs>> /\ Engaged(v)
    BY <1>8, <1>y, <1>b DEF TestDone, Busy, Engaged
  <2>2. Fine(v) /\ gop[v] >= 1
    BY <1>8, <2>1, <1>f, <1>t DEF LocalsCleared
  <2>3. Claimed(gcase[v])' = Claimed(gcase[v])
    BY <2>1 DEF Claimed
  <2>4. \A i \in Claimed(gcase[v]) : i < gop[v]
    <3>1. PICK n \in Nat : Ops(gcase[v]) = 1 .. n
      BY <2>1, OpsRange
    <3> QED
      BY <3>1, <2>1, <2>2 DEF Claimed
  <2> QED
    BY <1>8, <2>1, <2>2, <2>3, <2>4, <1>n DEF ClaimsDone
<1>9. CASE w = v /\ ~(\/ CaseStart(v) \/ TraceCase(v) \/ DedupOp(v) \/ DedupDone(v)
                      \/ RecordIndices(v) \/ TestOp(v) \/ TestDone(v))
  <2>1. ~Engaged(v)'
    BY <1>9, <1>y DEF Engaged, GuestStep, GuestIniting, InitHeartbeat, InitDone, RunBegin,
         FetchCase, CaseEnd, StopHeartbeat, GuestComplete, HandleException,
         RaiseException, VmCrash, KillGuest
  <2> QED
    BY <1>9, <2>1
<1> QED
  BY <1>1, <1>2, <1>3, <1>4, <1>5, <1>6, <1>7, <1>8, <1>9

\* The claims of ended cases, after each step of a guest.
LEMMA EndedGuest ==
  ASSUME IInv, OwnerInv, ClaimInv, NEW v \in VMs,
         GuestStep(v) \/ RaiseException(v) \/ VmCrash(v)
  PROVE  EndedIsDone'
<1> USE DEF mcVars, guestVars, ghostVars, At, Goto
<1>t. Typed /\ RunsSeen /\ FirstRun /\ EndedIsDone
  BY DEF IInv, ClaimInv
<1>y. runs \in [Cases -> Nat] /\ endKey \in [VMs -> CaseOrNone] /\ gcase \in [VMs -> CaseOrNone]
  BY <1>t DEF Typed, TypeOK
<1>n. NoAddLost' => NoAddLost
  <2>1. faults \in Nat /\ faults' \in Nat /\ faults' <= faults
    BY FaultsFall DEF Next
  <2> QED
    BY <2>1, <1>t, CampaignAssumption DEF NoAddLost, RunsSeen
<1> SUFFICES ASSUME NEW w \in VMs, endKey'[w] # NoCase, runs'[endKey'[w]] = 1, NoAddLost'
             PROVE  ClaimsDone(endKey[w])'
  BY DEF EndedIsDone
<1>e. tested \subseteq tested'
  BY GuestEffect
<1>1. CASE endKey'[w] = endKey[w]
  <2> DEFINE c == endKey[w]
  <2>1. c \in Cases /\ runs[c] >= 1
    BY <1>1, <1>y, <1>t, CasesFacts DEF RunsSeen
  <2>2. runs[c] \in Nat /\ (runs'[c] = runs[c] \/ runs'[c] = runs[c] + 1)
    BY <2>1, <1>y, GuestEffect
  <2>3. runs[c] = 1
    BY <1>1, <2>1, <2>2
  <2>4. ClaimsDone(c)
    BY <2>1, <2>3, <1>n, <1>t, CasesFacts DEF EndedIsDone
  <2>5. \A h \in Hashes : owner'[h] = c => owner[h] = c
    <3>1. DedupOp(v) => gcase[v] # c
      BY <2>3, <1>t DEF DedupOp, FirstRun, Engaged
    <3> QED
      BY <3>1, GuestEffect
  <2>6. ASSUME NEW k \in Cases, k = c PROVE ClaimsDone(k)'
    <3>1. Claimed(k)' \subseteq Claimed(k)
      BY <2>5, <2>6, HashIn DEF Claimed
    <3> QED
      BY <2>4, <2>6, <3>1, <1>e DEF ClaimsDone
  <2> QED
    BY <1>1, <2>1, <2>6
<1>2. CASE CaseEnd(v) /\ endKey'[w] = gcase[v]
  <2>1. /\ gpc[v] = "end" /\ Engaged(v) /\ UNCHANGED <<runs, owner, tested>>
    BY <1>2 DEF CaseEnd, Engaged
  <2>2. ClaimsDone(gcase[v])
    BY <1>2, <2>1, <1>t, <1>n DEF FirstRun
  <2> QED
    BY <1>2, <2>1, <2>2 DEF ClaimsDone, Claimed
<1> QED
  BY <1>1, <1>2, GuestEffect

\* Every step keeps what is known of the claims.
LEMMA ClaimNext == IInv /\ OwnerInv /\ ClaimInv /\ [Next]_vars => ClaimInv'
<1> SUFFICES ASSUME IInv, OwnerInv, ClaimInv, [Next]_vars PROVE ClaimInv'
  OBVIOUS
<1>1. CASE HostStep \/ HostFails
  BY <1>1, ClaimHost
<1>2. ASSUME NEW v \in VMs, GuestStep(v) \/ RaiseException(v) \/ VmCrash(v)
      PROVE  ClaimInv'
  BY <1>2, SeenGuest, LookedUpGuest, FirstGuest, EndedGuest DEF ClaimInv
<1>3. CASE UNCHANGED vars
  <2> USE <1>3 DEF vars, mcVars, hostVars, guestVars, ghostVars
  <2>1. RunsSeen' /\ LookedUp'
    BY DEF ClaimInv, RunsSeen, LookedUp, Engaged
  <2>2. FirstRun'
    BY DEF ClaimInv, FirstRun, Engaged, NoAddLost, Claimed, ClaimsDone
  <2>3. EndedIsDone'
    BY DEF ClaimInv, EndedIsDone, NoAddLost, Claimed, ClaimsDone
  <2> QED
    BY <2>1, <2>2, <2>3 DEF ClaimInv
<1> QED
  BY <1>1, <1>2, <1>3 DEF Next

\* ClaimInv is an invariant of the campaign.
LEMMA CampaignClaims == Spec => []ClaimInv
  BY ClaimInit, ClaimNext, CampaignSafety, CampaignOwner, PTL DEF Spec

\* Once a case that was begun once has ended, every operation it claimed with
\* mc_add was tested, unless the reply to an mc_add may be lost.
THEOREM CampaignClaimsTested == Spec => []ClaimsTested
<1>1. ClaimInv => ClaimsTested
  BY DEF ClaimInv, EndedIsDone, NoAddLost, ClaimsDone, ClaimsTested
<1> QED
  BY <1>1, CampaignClaims, PTL

-----------------------------------------------------------------------------
(* A campaign in which nothing goes wrong tests everything once.           *)

\* At the beginning every case is still to be run.
LEMMA CoverInit == Init => CoverInv
<1> SUFFICES ASSUME Init PROVE CoverInv
  OBVIOUS
<1>1. ClaimExists
  BY DEF Init, ClaimExists
<1>2. ASSUME Calm PROVE CalmHost
  BY <1>2 DEF Init, Calm, CalmHost
<1>3. CalmGuests
  BY DEF Init, CalmGuests, CalmVm
<1>4. CalmCases
  BY CasesFacts DEF Init, CalmCases, Busy
<1> QED
  BY <1>1, <1>2, <1>3, <1>4 DEF CoverInv, CalmRun

\* Nothing had gone wrong before a step after which nothing has.
LEMMA CalmBack ==
  ASSUME IInv, ClaimInv, Next, Calm'
  PROVE  Calm /\ faults' = faults /\ broken' = {}
<1> USE DEF mcVars, listVars, hostVars
<1>1. faults = MaxFaults
  BY FaultsFall, CampaignAssumption DEF ClaimInv, RunsSeen, Calm
<1>2. broken \subseteq broken'
  <2>1. CASE HostStep \/ HostFails
    <3>1. ASSUME NEW v \in VMs, StartJob(v) \/ Poll(v) PROVE broken \subseteq broken'
      BY <3>1 DEF StartJob, Poll, PollStarted, PollStartTimeout, PollAlive, Polling,
                PollHeartbeatLost, PollComplete, PollNeedRestart,
                PollValidationFailed, PollNeedDebug, PollInvalid, Pass, Leave,
                Recover
    <3> QED
      BY <2>1, <3>1 DEF HostStep, HostFails, RestoreVm, RestartVm, StartGuestJob,
                  MarkStarted
  <2>2. ASSUME NEW v \in VMs, GuestStep(v) \/ RaiseException(v) \/ VmCrash(v)
        PROVE  broken \subseteq broken'
    BY <2>2, GuestFrame
  <2> QED
    BY <2>1, <2>2 DEF Next
<1> QED
  BY <1>1, <1>2 DEF Calm

\* A fault is seen.
LEMMA NoSpend == ASSUME IInv, faults' = faults, NEW k PROVE ~Spend(k)
  BY DEF Spend, IInv, Typed, TypeOK

\* A key is created for the first operation of its hash that its case has.
LEMMA ExistsNext ==
  ASSUME IInv, ClaimInv, ClaimExists, Next
  PROVE  ClaimExists'
<1>y. owner \in [Hashes -> CaseOrNone]
  BY DEF IInv, Typed, TypeOK
<1>1. CASE HostStep \/ HostFails
  <2>1. UNCHANGED owner
    BY <1>1, HostEffect
  <2> QED
    BY <2>1 DEF ClaimExists, Claimed
<1>2. ASSUME NEW v \in VMs, GuestStep(v) \/ RaiseException(v) \/ VmCrash(v)
      PROVE  ClaimExists'
  <2>o. \A k \in Hashes : owner[k] # NoCase => owner'[k] = owner[k]
    BY <1>2, GuestEffect
  <2> SUFFICES ASSUME NEW h \in Hashes, owner'[h] # NoCase
               PROVE  \E i \in Claimed(owner[h])' : HashOf[owner'[h]][i] = h
    BY DEF ClaimExists
  <2>1. CASE owner[h] # NoCase
    <3>1. PICK i \in Claimed(owner[h]) : HashOf[owner[h]][i] = h
      BY <2>1 DEF ClaimExists
    <3>2. owner'[h] = owner[h]
      BY <2>1, <2>o
    <3>3. i \in Claimed(owner[h])'
      BY <3>1, <3>2 DEF Claimed
    <3> QED
      BY <3>1, <3>2, <3>3
  <2>2. CASE owner[h] = NoCase
    <3>1. DedupOp(v) /\ owner'[h] = gcase[v]
      BY <1>2, <2>2, GuestEffect
    <3>2. /\ gpc[v] = "dedup" /\ gcase[v] \in Cases /\ gop[v] \in Ops(gcase[v])
          /\ HashOf[gcase[v]][gop[v]] = h
      BY <3>1, <2>2, <1>y, HashIn DEF DedupOp, At, IInv, Typed, LocalsBound, Busy
    <3>3. \A j \in Ops(gcase[v]) : j < gop[v] => HashOf[gcase[v]][j] # h
      BY <2>2, <3>2 DEF ClaimInv, LookedUp
    <3>4. PICK n \in Nat : Ops(gcase[v]) = 1 .. n
      BY <3>2, OpsRange
    <3>5. \A j \in 1 .. (gop[v] - 1) : HashOf[gcase[v]][j] # HashOf[gcase[v]][gop[v]]
      BY <3>2, <3>3, <3>4
    <3>6. gop[v] \in Claimed(owner[h])'
      BY <3>1, <3>2, <3>5 DEF Claimed
    <3> QED
      BY <3>1, <3>2, <3>6
  <2> QED
    BY <2>1, <2>2
<1> QED
  BY <1>1, <1>2 DEF Next

\* The host in a calm campaign.
LEMMA CalmHostStep ==
  ASSUME IInv, ClaimInv, HostStep \/ HostFails, Calm', CalmHost, CalmGuests
  PROVE  CalmHost' /\ CalmGuests'
<1> USE DEF mcVars, listVars, hostVars, guestVars, ghostVars
<1>t. Typed /\ LaunchSafe /\ Calm /\ faults' = faults /\ broken' = {}
  BY CalmBack DEF IInv, Next
<1>y. /\ hvm \in VMs /\ gpc \in [VMs -> GuestPcs] /\ state \in [VMs -> GuestState]
      /\ todo \subseteq VMs /\ complete \subseteq VMs /\ running \subseteq VMs
      /\ gretest \in [VMs -> CaseOrNone] /\ gexc \in [VMs -> GuestState \cup {"none"}]
  BY <1>t DEF Typed, TypeOK
<1>s. \A k : ~Spend(k)
  BY <1>t, NoSpend
<1>1. ASSUME NEW v \in VMs, StartJob(v) PROVE CalmHost' /\ CalmGuests'
  <2>1. CalmHost'
    BY <1>1 DEF StartJob, CalmHost
  <2>2. CalmGuests'
    BY <1>1 DEF StartJob, CalmHost, CalmGuests, CalmVm
  <2> QED
    BY <2>1, <2>2
<1>2. ASSUME NEW v \in VMs, Poll(v) PROVE CalmHost' /\ CalmGuests'
  <2>1. /\ UNCHANGED <<state, gpc, gretest, gexc, argCase, phase>>
        /\ phase = "monitor" /\ v \in todo /\ hpc = "poll"
    BY <1>2 DEF Poll, PollStarted, PollStartTimeout, PollAlive, Polling,
                PollHeartbeatLost, PollComplete, PollNeedRestart,
                PollValidationFailed, PollNeedDebug, PollInvalid, Pass, Leave,
                Recover
  <2>2. \A w \in VMs : CalmVm(w)
    BY DEF CalmGuests
  <2>3. state[v] \in {"COMPLETE", "UNKNOWN"} <=> gpc[v] = "off"
    BY <2>1, <2>2 DEF CalmVm
  <2>4. state[v] = "STARTED" => gpc[v] \in {"boot", "initing", "init", "inited"}
    BY <2>1, <2>2 DEF CalmVm
  <2>5. state[v] \notin {"NEED_RESTART_VM", "VALIDATION_FAILED", "NEED_DEBUG"}
    BY <2>1, <2>2 DEF CalmVm
  <2>6. ~PollStartTimeout(v) /\ ~PollHeartbeatLost(v)
    BY <2>3, <2>4, <1>s DEF PollStartTimeout, PollHeartbeatLost, FreeIf, HeartbeatChecked
  <2>7. ~PollNeedRestart(v) /\ ~PollValidationFailed(v) /\ ~PollNeedDebug(v)
    BY <2>5 DEF PollNeedRestart, PollValidationFailed, PollNeedDebug
  <2>8. ~PollInvalid(v)
    BY <1>t DEF PollInvalid
  <2>9. /\ hpc' = "poll"
        /\ \/ UNCHANGED <<complete, running>>
           \/ /\ complete' = complete \cup {v} /\ running' = running \ {v}
              /\ state[v] = "COMPLETE"
    BY <1>2, <2>6, <2>7, <2>8 DEF Poll, PollStarted, PollAlive, PollComplete,
                                  Polling, Pass, Leave
  <2>10. CalmHost'
    BY <2>1, <2>9 DEF CalmHost
  <2>11. \A w \in VMs : CalmVm(w)'
    BY <2>1, <2>2, <2>9 DEF CalmVm
  <2>12. \A w \in complete' : state'[w] = "COMPLETE" /\ gpc'[w] = "off"
    BY <2>1, <2>3, <2>9 DEF CalmGuests
  <2> QED
    BY <2>10, <2>11, <2>12 DEF CalmGuests
<1>3. CASE RestoreVm \/ RestartVm \/ HostFails
  BY <1>3, <1>s DEF RestoreVm, RestartVm, HostFails, CalmHost
<1>4. CASE StartGuestJob
  <2>1. /\ hpc = "launch" /\ phase = "start" /\ hjob = NoCase /\ argCase = NoCase
        /\ hvm \in todo /\ complete = {}
    BY <1>4 DEF StartGuestJob, CalmHost
  <2>2. /\ hpc' = "mark" /\ Boot(hvm, NoCase) /\ argCase' = NoCase
        /\ UNCHANGED <<state, phase, todo, complete, running, hvm>>
    BY <1>4, <1>s, <2>1 DEF StartGuestJob, ArgCaseTaken
  <2>3. gpc[hvm] = "off" /\ CalmVm(hvm)
    BY <2>1, <1>t, <1>y DEF LaunchSafe, CalmGuests
  <2>4. gexc[hvm] = "none" /\ state[hvm] = "ABSENT"
    BY <2>1, <2>3 DEF CalmVm
  <2>5. /\ gpc'[hvm] = "boot" /\ gretest'[hvm] = NoCase /\ gexc' = gexc
        /\ \A w \in VMs : w # hvm => gpc'[w] = gpc[w] /\ gretest'[w] = gretest[w]
    BY <2>2, <1>y DEF Boot
  <2>6. CalmHost'
    BY <2>1, <2>2 DEF CalmHost
  <2>7. \A w \in VMs : CalmVm(w)'
    <3> SUFFICES ASSUME NEW w \in VMs PROVE CalmVm(w)'
      OBVIOUS
    <3>1. CASE w = hvm
      BY <3>1, <2>2, <2>4, <2>5 DEF CalmVm
    <3>2. CASE w # hvm
      BY <3>2, <2>1, <2>2, <2>5 DEF CalmVm, CalmGuests
    <3> QED
      BY <3>1, <3>2
  <2> QED
    BY <2>1, <2>2, <2>6, <2>7 DEF CalmGuests
<1>5. CASE MarkStarted
  <2>1. /\ hpc = "mark" /\ hpc' = "poll" /\ phase = "start" /\ hvm \in todo /\ complete = {}
        /\ state'[hvm] = "STARTED" /\ \A w \in VMs : w # hvm => state'[w] = state[w]
        /\ UNCHANGED <<argCase, complete, running, gpc, gretest, gexc, hvm>>
        /\ phase' = IF todo = {hvm} THEN "monitor" ELSE phase
        /\ todo' = IF todo = {hvm} THEN running ELSE todo \ {hvm}
    BY <1>5, <1>y DEF MarkStarted, CalmHost
  <2>2. CalmVm(hvm)
    BY <1>y DEF CalmGuests
  <2>3. CalmHost'
    BY <2>1 DEF CalmHost
  <2>4. \A w \in VMs : CalmVm(w)'
    <3> SUFFICES ASSUME NEW w \in VMs PROVE CalmVm(w)'
      OBVIOUS
    <3>1. CASE w = hvm
      BY <3>1, <2>1, <2>2 DEF CalmVm
    <3>2. CASE w # hvm
      BY <3>2, <2>1 DEF CalmVm, CalmGuests
    <3> QED
      BY <3>1, <3>2
  <2> QED
    BY <2>1, <2>3, <2>4 DEF CalmGuests
<1> QED
  BY <1>1, <1>2, <1>3, <1>4, <1>5 DEF HostStep

\* The host neither ends the run of a case nor saves a doomed VM.
LEMMA CalmHostCases ==
  ASSUME IInv, ClaimInv, HostStep \/ HostFails, Calm', CalmHost, CalmGuests, CalmCases
  PROVE  CalmCases'
<1> USE DEF mcVars, listVars, hostVars, guestVars, ghostVars
<1>t. Typed /\ LaunchSafe /\ Calm /\ faults' = faults /\ broken' = {}
  BY CalmBack DEF IInv, Next
<1>y. hvm \in VMs /\ gpc \in [VMs -> GuestPcs] /\ state \in [VMs -> GuestState]
  BY <1>t DEF Typed, TypeOK
<1>s. \A k : ~Spend(k)
  BY <1>t, NoSpend
<1>1. /\ UNCHANGED gcase
      /\ \A w \in VMs : gpc'[w] = gpc[w] \/ (gpc[w] = "off" /\ gpc'[w] = "boot")
      /\ \A w \in VMs : Doomed(w) => Doomed(w)'
  <2>1. ASSUME NEW v \in VMs, StartJob(v) \/ Poll(v) PROVE UNCHANGED <<gcase, gpc, state>>
    BY <2>1 DEF StartJob, Poll, PollStarted, PollStartTimeout, PollAlive, Polling,
                PollHeartbeatLost, PollComplete, PollNeedRestart,
                PollValidationFailed, PollNeedDebug, PollInvalid, Pass, Leave,
                Recover
  <2>2. ~(RestoreVm \/ RestartVm \/ HostFails)
    BY <1>s DEF RestoreVm, RestartVm, HostFails, CalmHost
  <2>3. CASE StartGuestJob
    <3>1. gpc[hvm] = "off"
      BY <2>3, <1>t DEF StartGuestJob, LaunchSafe
    <3>2. UNCHANGED <<gcase, state>> /\ (UNCHANGED gpc \/ gpc' = [gpc EXCEPT ![hvm] = "boot"])
      BY <2>3 DEF StartGuestJob, Boot
    <3> QED
      BY <3>1, <3>2, <1>y DEF Doomed
  <2>4. CASE MarkStarted
    <3>1. CalmVm(hvm) /\ hpc = "mark"
      BY <2>4, <1>y DEF MarkStarted, CalmGuests
    <3>2. ~Doomed(hvm)
      BY <3>1 DEF CalmVm, Doomed
    <3>3. /\ UNCHANGED <<gcase, gpc>>
          /\ \A w \in VMs : w # hvm => state'[w] = state[w]
      BY <2>4, <1>y DEF MarkStarted
    <3> QED
      BY <3>2, <3>3 DEF Doomed
  <2> QED
    BY <2>1, <2>2, <2>3, <2>4 DEF HostStep, Doomed
<1>2. UNCHANGED <<nextIdx, owner, runs, tested>>
  BY HostEffect
<1>3. \A w \in VMs : Busy(w)' <=> Busy(w)
  BY <1>1 DEF Busy
<1>4. \A c \in Cases : Covered(c) => Covered(c)'
  BY <1>2 DEF Covered
<1>5. \A c \in Cases : RunOnce(c) => RunOnce(c)'
  BY <1>1, <1>2, <1>3 DEF RunOnce, Covered, ClaimsDone, Claimed
<1>6. \A w \in VMs : Busy(w)' => runs'[gcase'[w]] = (IF gpc'[w] = "got" THEN 0 ELSE 1)
  BY <1>1, <1>2, <1>3 DEF CalmCases, Busy
<1>7. \A w \in VMs : gpc'[w] \in {"record", "test", "end"} => Covered(gcase[w])'
  <2> SUFFICES ASSUME NEW w \in VMs, gpc'[w] \in {"record", "test", "end"}
               PROVE  Covered(gcase[w])'
    OBVIOUS
  <2>1. Covered(gcase[w])
    BY <1>1 DEF CalmCases
  <2> QED
    BY <2>1, <1>1, <1>2 DEF Covered
<1>8. \A c \in Cases : c < nextIdx' =>
           \/ \E w \in VMs : Busy(w)' /\ gcase'[w] = c
           \/ \E w \in VMs : Doomed(w)'
           \/ RunOnce(c)'
  BY <1>1, <1>2, <1>3, <1>5 DEF CalmCases
<1> QED
  BY <1>6, <1>7, <1>8 DEF CalmCases

\* The guests in a calm campaign.
LEMMA CalmGuestStep ==
  ASSUME IInv, ClaimInv, CalmHost, CalmGuests, Calm', NEW v \in VMs,
         GuestStep(v) \/ RaiseException(v) \/ VmCrash(v)
  PROVE  /\ CalmHost' /\ CalmGuests'
         /\ ~RaiseException(v) /\ ~VmCrash(v)
         /\ \A k : ~Spend(k)
         /\ RunBegin(v) => gpc'[v] = "fetch"
<1> USE DEF mcVars, listVars, guestVars, ghostVars, At, Goto, SetState
<1>t. Typed /\ Calm /\ faults' = faults
  BY CalmBack DEF IInv, Next
<1>y. /\ gpc \in [VMs -> GuestPcs] /\ state \in [VMs -> GuestState]
      /\ gretest \in [VMs -> CaseOrNone] /\ gexc \in [VMs -> GuestState \cup {"none"}]
      /\ complete \subseteq VMs
  BY <1>t DEF Typed, TypeOK
<1>s. \A k : ~Spend(k)
  BY <1>t, NoSpend
<1>f. /\ \A w \in VMs : w # v =>
              /\ gpc'[w] = gpc[w] /\ gretest'[w] = gretest[w]
              /\ gexc'[w] = gexc[w] /\ state'[w] = state[w]
      /\ gpc[v] # "off"
      /\ UNCHANGED <<phase, hpc, hvm, hjob, todo, complete, running, argCase>>
  BY GuestFrame DEF hostVars
<1>0. ~RaiseException(v) /\ ~VmCrash(v)
  BY <1>s DEF RaiseException, VmCrash
<1>1. CalmHost'
  BY <1>f DEF CalmHost
<1>2. \A w \in complete' : state'[w] = "COMPLETE" /\ gpc'[w] = "off"
  BY <1>f, <1>y DEF CalmGuests
<1>c. CalmVm(v)
  BY DEF CalmGuests
<1>r. RunBegin(v) => gpc'[v] = "fetch"
  BY <1>c, <1>y DEF RunBegin, CalmVm
<1>3. CalmVm(v)'
  <2>1. CASE GuestIniting(v) \/ InitHeartbeat(v) \/ InitDone(v)
    <3>1. /\ gpc[v] \in {"boot", "initing", "init"}
          /\ gpc'[v] \in {"initing", "init", "inited"}
          /\ gretest'[v] \in {gretest[v], NoCase} /\ gexc' = gexc
          /\ state'[v] \in {state[v], "INITING", "INITED"}
      BY <2>1, <1>y DEF GuestIniting, InitHeartbeat, InitDone
    <3> QED
      BY <3>1, <1>c, <1>f DEF CalmVm
  <2>2. CASE RunBegin(v)
    <3>1. /\ gpc[v] = "inited" /\ gpc'[v] = "fetch" /\ gretest'[v] = NoCase
          /\ gexc' = gexc /\ state'[v] = "RUNNING" /\ ~(hpc = "mark" /\ hvm = v)
      BY <2>2, <1>y, <1>r, <1>s DEF RunBegin, FreeIf
    <3> QED
      BY <3>1, <1>c, <1>f DEF CalmVm
  <2>3. CASE FetchCase(v) \/ CaseStart(v) \/ StopHeartbeat(v)
    <3>1. /\ gpc[v] \in {"fetch", "got", "stop"}
          /\ gpc'[v] \in {"got", "stop", "trace", "fini"}
          /\ UNCHANGED <<gretest, gexc, state>>
      BY <2>3, <1>y DEF FetchCase, CaseStart, StopHeartbeat
    <3> QED
      BY <3>1, <1>c, <1>f DEF CalmVm
  <2>4. CASE TraceCase(v)
    <3>1. /\ gpc[v] = "trace" /\ UNCHANGED <<gretest, state>>
          /\ \/ gpc'[v] = "exc" /\ gexc'[v] = "UNKNOWN"
             \/ gpc'[v] \in {"end", "test", "record", "dedup"} /\ gexc'[v] = gexc[v]
      BY <2>4, <1>y, <1>s DEF TraceCase
    <3> QED
      BY <3>1, <1>c, <1>f DEF CalmVm
  <2>5. CASE DedupOp(v) \/ DedupDone(v) \/ RecordIndices(v) \/ TestOp(v) \/ TestDone(v)
    <3>1. /\ gpc[v] \in {"dedup", "record", "test"}
          /\ gpc'[v] \in {"dedup", "record", "test", "end"}
          /\ UNCHANGED <<gretest, gexc, state>>
      BY <2>5, <1>y DEF DedupOp, DedupDone, RecordIndices, TestOp, TestDone
    <3> QED
      BY <3>1, <1>c, <1>f DEF CalmVm
  <2>6. CASE CaseEnd(v)
    <3>1. /\ gpc[v] = "end" /\ gexc[v] = "none" /\ gpc'[v] = "fetch"
          /\ UNCHANGED <<gretest, gexc, state>>
      BY <2>6, <1>y, <1>c DEF CaseEnd, CalmVm
    <3> QED
      BY <3>1, <1>c, <1>f DEF CalmVm
  <2>7. CASE GuestComplete(v) \/ HandleException(v)
    <3>1. /\ gpc[v] \in {"fini", "exc"} /\ gpc'[v] = "off" /\ gretest'[v] = NoCase
          /\ gexc'[v] = "none" /\ state'[v] \in {"COMPLETE", "UNKNOWN"}
      BY <2>7, <1>y, <1>c, <1>s DEF GuestComplete, HandleException, KillGuest, CalmVm
    <3>2. phase = "start" => v \notin todo
      BY <3>1, <1>c, <1>f DEF CalmVm, CalmHost, IInv, LaunchSafe
    <3> QED
      BY <3>1, <3>2, <1>c, <1>f DEF CalmVm
  <2> QED
    BY <2>1, <2>2, <2>3, <2>4, <2>5, <2>6, <2>7, <1>0 DEF GuestStep
<1>4. \A w \in VMs : CalmVm(w)'
  <2>1. \A w \in VMs : w # v => CalmVm(w)'
    BY <1>f DEF CalmVm, CalmGuests
  <2> QED
    BY <2>1, <1>3
<1> QED
  BY <1>0, <1>1, <1>2, <1>4, <1>s, <1>r DEF CalmGuests

\* Every case that leaves the list is run to its end, or its VM is doomed.
LEMMA CalmGuestCases ==
  ASSUME IInv, OwnerInv, ClaimInv, CalmHost, CalmGuests, CalmCases, Calm', NEW v \in VMs,
         GuestStep(v) \/ RaiseException(v) \/ VmCrash(v)
  PROVE  CalmCases'
<1> USE DEF mcVars, guestVars, ghostVars, At, Goto, SetState
<1>t. Typed /\ Calm /\ faults' = faults /\ RunsSeen /\ LookedUp /\ FirstRun /\ LocalsCleared
  BY CalmBack DEF IInv, Next, ClaimInv, OwnerInv
<1>y. /\ gpc \in [VMs -> GuestPcs] /\ state \in [VMs -> GuestState]
      /\ gcase \in [VMs -> CaseOrNone] /\ gop \in [VMs -> Nat] /\ gnum \in [VMs -> Nat]
      /\ runs \in [Cases -> Nat] /\ nextIdx \in Nat
  BY <1>t DEF Typed, TypeOK
<1>b. \A w \in VMs : Busy(w) => gcase[w] \in Cases
  BY <1>t DEF Typed, LocalsBound
<1>s. /\ \A k : ~Spend(k)
      /\ ~RaiseException(v) /\ ~VmCrash(v)
      /\ RunBegin(v) => gpc'[v] = "fetch"
  BY CalmGuestStep
<1>c. CalmVm(v)
  BY DEF CalmGuests
<1>f. \A w \in VMs : w # v => /\ gpc'[w] = gpc[w] /\ gcase'[w] = gcase[w]
                              /\ state'[w] = state[w]
  BY GuestFrame
<1>o. \A h \in Hashes : owner[h] # NoCase => owner'[h] = owner[h]
  BY GuestEffect
<1>v. \A c \in Cases : Covered(c) => Covered(c)'
  BY <1>o, HashIn DEF Covered
\* The case comes from the list.
<1>1. FetchCase(v) => \/ /\ gpc'[v] = "got" /\ gcase'[v] = nextIdx /\ nextIdx' = nextIdx + 1
                         /\ nextIdx \in Cases /\ runs[nextIdx] = 0
                      \/ /\ gpc'[v] = "stop" /\ nextIdx' = nextIdx + 1 /\ nextIdx \notin Cases
                      \/ gpc'[v] = "stop" /\ nextIdx' = nextIdx
  <2> SUFFICES ASSUME FetchCase(v), ~(gpc'[v] = "stop" /\ nextIdx' = nextIdx)
               PROVE  \/ /\ gpc'[v] = "got" /\ gcase'[v] = nextIdx /\ nextIdx' = nextIdx + 1
                         /\ nextIdx \in Cases /\ runs[nextIdx] = 0
                      \/ /\ gpc'[v] = "stop" /\ nextIdx' = nextIdx + 1 /\ nextIdx \notin Cases
    OBVIOUS
  <2>1. /\ ~(gnum[v] + 1 > NumCasesToTest)
        /\ \E k \in Increments :
              /\ nextIdx' = Incremented(k) /\ faults' = faults - (k - 1)
              /\ IF PastEnd(nextIdx + k - 1)
                 THEN gpc'[v] = "stop"
                 ELSE gpc'[v] = "got" /\ gcase'[v] = nextIdx + k - 1
    BY <1>y DEF FetchCase
  <2>2. PICK k \in Increments :
              /\ nextIdx' = Incremented(k) /\ faults' = faults - (k - 1)
              /\ IF PastEnd(nextIdx + k - 1)
                 THEN gpc'[v] = "stop"
                 ELSE gpc'[v] = "got" /\ gcase'[v] = nextIdx + k - 1
    BY <2>1
  <2>3. k \in Nat \ {0} /\ faults \in Nat
    BY <1>t DEF Increments, MC_CMD_RETRY_TIMES, Typed, TypeOK
  <2>4. k = 1
    BY <2>2, <2>3, <1>t
  <2>5. nextIdx' = nextIdx + 1 /\ nextIdx + k - 1 = nextIdx
    BY <2>2, <2>4, <1>y DEF Incremented
  <2>6. CASE nextIdx >= NumCases
    <3>1. nextIdx \notin Cases
      BY <2>6, <1>y, CampaignAssumption DEF Cases
    <3> QED
      BY <2>2, <2>5, <2>6, <3>1 DEF PastEnd
  <2>7. CASE ~(nextIdx >= NumCases)
    <3>1. nextIdx \in Cases
      BY <2>7, <1>y, CampaignAssumption DEF Cases
    <3>2. NumCasesToTest # 0
      BY <2>1, <1>y
    <3>3. runs[nextIdx] = 0
      BY <3>1, <3>2, <1>y DEF IInv, Custody, UntakenIsFresh
    <3> QED
      BY <2>2, <2>5, <2>7, <3>1, <3>3 DEF PastEnd
  <2> QED
    BY <2>6, <2>7
\* A guest keeps its case until the case ends or dooms the VM.
<1>2. /\ Busy(v)' => \/ Busy(v) /\ gcase'[v] = gcase[v]
                     \/ FetchCase(v)
      /\ Busy(v) => \/ Busy(v)' /\ gcase'[v] = gcase[v]
                    \/ gpc'[v] = "exc"
                    \/ CaseEnd(v) /\ gpc[v] = "end"
      /\ FetchCase(v) \/ nextIdx' = nextIdx
      /\ FetchCase(v) => gpc[v] = "fetch"
  <2>0. FetchCase(v) => gpc[v] = "fetch"
    BY DEF FetchCase
  <2>1. CASE \/ GuestIniting(v) \/ InitHeartbeat(v) \/ InitDone(v) \/ RunBegin(v)
             \/ StopHeartbeat(v) \/ GuestComplete(v) \/ HandleException(v)
    BY <2>0, <2>1, <1>y, <1>s DEF GuestIniting, InitHeartbeat, InitDone, RunBegin, StopHeartbeat,
                      GuestComplete, HandleException, KillGuest, Busy
  <2>2. CASE FetchCase(v) \/ CaseEnd(v)
    BY <2>2, <1>y DEF FetchCase, CaseEnd, Busy
  <2>3. CASE CaseStart(v) \/ DedupOp(v) \/ DedupDone(v) \/ RecordIndices(v)
             \/ TestOp(v) \/ TestDone(v)
    BY <2>0, <2>3, <1>y DEF CaseStart, DedupOp, DedupDone, RecordIndices, TestOp, TestDone, Busy
  <2>4. CASE TraceCase(v)
    <3>1. /\ gpc[v] = "trace" /\ gcase' = gcase /\ nextIdx' = nextIdx
          /\ gpc'[v] \in {"end", "exc", "test", "record", "dedup"}
      BY <2>4, <1>y DEF TraceCase
    <3> QED
      BY <3>1 DEF Busy, FetchCase
  <2> QED
    BY <2>1, <2>2, <2>3, <2>4, <1>s DEF GuestStep
<1>3. \A w \in VMs : Doomed(w) => Doomed(w)'
  <2>1. Doomed(v) => Doomed(v)'
    <3>1. Doomed(v) => gpc[v] = "exc" /\ gexc[v] = "UNKNOWN"
      BY <1>c, GuestFrame DEF CalmVm, Doomed
    <3>2. gpc[v] = "exc" => HandleException(v)
      BY <1>s DEF GuestStep, GuestIniting, InitHeartbeat, InitDone, RunBegin, FetchCase,
         CaseStart, TraceCase, DedupOp, DedupDone, RecordIndices, TestOp,
         TestDone, CaseEnd, StopHeartbeat, GuestComplete
    <3> QED
      BY <3>1, <3>2, <1>s, <1>y DEF HandleException, Doomed
  <2> QED
    BY <2>1, <1>f DEF Doomed
<1>4. ASSUME NEW w \in VMs, Busy(w)'
      PROVE  runs'[gcase'[w]] = (IF gpc'[w] = "got" THEN 0 ELSE 1)
  <2>1. CASE w # v
    <3>1. Busy(w) /\ gcase'[w] = gcase[w] /\ gpc'[w] = gpc[w] /\ gcase[w] \in Cases
      BY <2>1, <1>4, <1>f, <1>b DEF Busy
    <3>2. gcase[v] # gcase[w]
      BY <2>1, <3>1, CasesApart
    <3>3. runs'[gcase[w]] = runs[gcase[w]]
      BY <3>1, <3>2, GuestEffect
    <3> QED
      BY <3>1, <3>3 DEF CalmCases
  <2>2. CASE w = v /\ FetchCase(v)
    <3>1. runs' = runs
      BY <2>2 DEF FetchCase
    <3> QED
      BY <2>2, <1>4, <1>1, <3>1 DEF Busy
  <2>3. CASE w = v /\ CaseStart(v)
    <3>1. /\ gpc[v] = "got" /\ gpc'[v] = "trace" /\ gcase' = gcase
          /\ gcase[v] \in Cases /\ runs'[gcase[v]] = runs[gcase[v]] + 1
      BY <2>3, <1>y, <1>b DEF CaseStart, Busy
    <3> QED
      BY <2>3, <3>1 DEF CalmCases, Busy
  <2>4. CASE w = v /\ ~FetchCase(v) /\ ~CaseStart(v)
    <3>1. Busy(v) /\ gcase'[v] = gcase[v] /\ gcase[v] \in Cases
      BY <2>4, <1>4, <1>2, <1>b
    <3>2. runs'[gcase[v]] = runs[gcase[v]]
      BY <2>4, <3>1, GuestEffect
    <3>3. gpc[v] # "got" /\ gpc'[v] # "got"
      BY <2>4, <3>1, <1>y, <1>s DEF GuestStep, GuestIniting, InitHeartbeat, InitDone, RunBegin,
         TraceCase, DedupOp, DedupDone, RecordIndices, TestOp,
         TestDone, CaseEnd, StopHeartbeat, GuestComplete, HandleException, KillGuest
    <3> QED
      BY <2>4, <3>1, <3>2, <3>3 DEF CalmCases
  <2> QED
    BY <2>1, <2>2, <2>3, <2>4
<1>5. ASSUME NEW w \in VMs, gpc'[w] \in {"record", "test", "end"}
      PROVE  Covered(gcase[w])'
  <2>1. CASE gpc[w] \in {"record", "test", "end"} /\ gcase'[w] = gcase[w]
    <3>1. gcase[w] \in Cases /\ Covered(gcase[w])
      BY <2>1, <1>b DEF Busy, CalmCases
    <3> QED
      BY <2>1, <3>1, <1>o, HashIn DEF Covered
  <2>2. CASE w # v
    BY <2>2, <2>1, <1>5, <1>f
  <2>3. CASE w = v /\ TraceCase(v)
    <3>1. /\ gpc[v] = "trace" /\ gcase' = gcase /\ gcase[v] \in Cases /\ Engaged(v)
      BY <2>3, <1>b DEF TraceCase, Busy, Engaged
    <3>2. runs[gcase[v]] = 1
      BY <3>1 DEF CalmCases, Busy
    <3>3. ~gknown[v]
      BY <3>1, <3>2, <1>t DEF RunsSeen
    <3>4. gcase[v] \in BadCases \/ Ops(gcase[v]) = {}
      BY <2>3, <1>5, <3>1, <3>3, <1>y, <1>s, <1>t DEF TraceCase, Calm
    <3> QED
      BY <2>3, <3>1, <3>4 DEF Covered
  <2>4. CASE w = v /\ DedupDone(v)
    <3>1. /\ gpc[v] = "dedup" /\ gcase' = gcase /\ gcase[v] \in Cases
          /\ gop[v] \notin Ops(gcase[v]) /\ UNCHANGED owner
      BY <2>4, <1>b DEF DedupDone, Busy
    <3>2. PICK n \in Nat : Ops(gcase[v]) = 1 .. n
      BY <3>1, OpsRange
    <3>3. gop[v] \in Nat /\ gop[v] >= 1
      BY <1>y, <1>t DEF LocalsCleared
    <3>4. \A j \in Ops(gcase[v]) : j < gop[v]
      BY <3>1, <3>2, <3>3
    <3> QED
      BY <2>4, <3>1, <3>4, <1>t DEF LookedUp, Covered
  <2>5. CASE w = v /\ ~TraceCase(v) /\ ~DedupDone(v)
    <3>1. gpc[v] \in {"record", "test", "end"} /\ gcase' = gcase
      BY <2>5, <1>5, <1>y, <1>s DEF GuestStep, GuestIniting, InitHeartbeat, InitDone, RunBegin,
         FetchCase, CaseStart, DedupOp, RecordIndices, TestOp,
         TestDone, CaseEnd, StopHeartbeat, GuestComplete, HandleException, KillGuest
    <3> QED
      BY <2>1, <2>5, <3>1
  <2> QED
    BY <2>2, <2>3, <2>4, <2>5
\* What is done stays done.
<1>6. ASSUME NEW c \in Cases, c < nextIdx, RunOnce(c) PROVE RunOnce(c)'
  <2>1. Busy(v) => gcase[v] # c
    BY <1>6 DEF RunOnce
  <2>2. runs'[c] = runs[c]
    BY <2>1, GuestEffect DEF CaseStart, Busy
  <2>3. \A h \in Hashes : owner'[h] = c => owner[h] = c
    BY <2>1, GuestEffect DEF DedupOp, Busy
  <2>4. ClaimsDone(c)'
    <3>1. Claimed(c)' \subseteq Claimed(c)
      BY <2>3, HashIn DEF Claimed
    <3>2. tested \subseteq tested'
      BY GuestEffect
    <3> QED
      BY <1>6, <3>1, <3>2 DEF RunOnce, ClaimsDone
  <2>5. \A w \in VMs : ~(Busy(w)' /\ gcase'[w] = c)
    <3>1. \A w \in VMs : w # v => ~(Busy(w)' /\ gcase'[w] = c)
      BY <1>6, <1>f DEF RunOnce, Busy
    <3>2. c \in Nat
      BY CasesFacts
    <3>3. ~(Busy(v)' /\ gcase'[v] = c)
      BY <1>1, <1>2, <2>1, <1>6, <3>2, <1>y DEF Busy
    <3> QED
      BY <3>1, <3>3
  <2> QED
    BY <1>6, <2>2, <2>4, <2>5, <1>v DEF RunOnce
<1>7. ASSUME NEW c \in Cases, c < nextIdx', ~(\E w \in VMs : Doomed(w)'),
             ~(\E w \in VMs : Busy(w)' /\ gcase'[w] = c)
      PROVE  RunOnce(c)'
  <2>0. c \in Nat /\ ~(\E w \in VMs : Doomed(w))
    BY CasesFacts, <1>3, <1>7
  <2>1. c < nextIdx
    <3>1. nextIdx' = nextIdx \/ (nextIdx' = nextIdx + 1 /\ c # nextIdx)
      BY <1>1, <1>2, <1>7 DEF Busy
    <3> QED
      BY <2>0, <3>1, <1>7, <1>y
  <2>2. CASE RunOnce(c)
    BY <2>1, <2>2, <1>6
  <2>3. CASE ~RunOnce(c)
    <3>1. PICK w \in VMs : Busy(w) /\ gcase[w] = c
      BY <2>0, <2>1, <2>3 DEF CalmCases
    <3>2. w = v
      BY <3>1, <1>7, <1>f DEF Busy
    <3>3. gpc'[v] # "exc"
      BY <1>7 DEF Doomed
    <3>4. CaseEnd(v) /\ gpc[v] = "end"
      BY <3>1, <3>2, <3>3, <1>2, <1>7
    <3>5. /\ UNCHANGED <<runs, owner, tested>> /\ Engaged(v)
          /\ gpc'[v] \in {"fetch", "exc"}
      BY <3>4, <1>y DEF CaseEnd, Engaged
    <3>6. runs[c] = 1 /\ Covered(c)
      BY <3>1, <3>2, <3>4 DEF CalmCases, Busy
    <3>7. ClaimsDone(c)
      BY <3>1, <3>2, <3>4, <3>5, <3>6, <1>t DEF FirstRun, NoAddLost, Calm
    <3>8. ClaimsDone(c)' /\ Covered(c)'
      BY <3>5, <3>6, <3>7 DEF ClaimsDone, Claimed, Covered
    <3> QED
      BY <3>5, <3>6, <3>8, <1>7 DEF RunOnce
  <2> QED
    BY <2>2, <2>3
<1> QED
  BY <1>4, <1>5, <1>7 DEF CalmCases

\* Every step of a calm campaign keeps each case to be run, running or run.
LEMMA CoverNext == IInv /\ OwnerInv /\ ClaimInv /\ CoverInv /\ [Next]_vars => CoverInv'
<1> SUFFICES ASSUME IInv, OwnerInv, ClaimInv, CoverInv, [Next]_vars PROVE CoverInv'
  OBVIOUS
<1>1. CASE Next
  <2>1. ClaimExists'
    BY <1>1, ExistsNext DEF CoverInv
  <2>2. ASSUME Calm' PROVE CalmHost' /\ CalmGuests' /\ CalmCases'
    <3>1. CalmHost /\ CalmGuests /\ CalmCases
      BY <1>1, <2>2, CalmBack DEF CoverInv, CalmRun
    <3>2. CASE HostStep \/ HostFails
      BY <2>2, <3>1, <3>2, CalmHostStep, CalmHostCases
    <3>3. ASSUME NEW v \in VMs, GuestStep(v) \/ RaiseException(v) \/ VmCrash(v)
          PROVE  CalmHost' /\ CalmGuests' /\ CalmCases'
      BY <2>2, <3>1, <3>3, CalmGuestStep, CalmGuestCases
    <3> QED
      BY <1>1, <3>2, <3>3 DEF Next
  <2> QED
    BY <2>1, <2>2 DEF CoverInv, CalmRun
<1>2. CASE UNCHANGED vars
  <2> USE <1>2 DEF vars, mcVars, listVars, hostVars, guestVars, ghostVars
  <2>1. ClaimExists'
    BY DEF CoverInv, ClaimExists, Claimed
  <2>2. Calm' <=> Calm
    BY DEF Calm
  <2>3. CalmHost => CalmHost'
    BY DEF CalmHost
  <2>4. CalmGuests => CalmGuests'
    BY DEF CalmGuests, CalmVm
  <2>5. CalmCases => CalmCases'
    BY DEF CalmCases, RunOnce, ClaimsDone, Claimed, Covered, Busy, Doomed
  <2> QED
    BY <2>1, <2>2, <2>3, <2>4, <2>5 DEF CoverInv, CalmRun
<1> QED
  BY <1>1, <1>2

\* CoverInv is an invariant of the campaign.
LEMMA CampaignCover == Spec => []CoverInv
  BY CoverInit, CoverNext, CampaignSafety, CampaignOwner, CampaignClaims, PTL DEF Spec

\* A campaign that ended without a fault or a broken VM has begun every case
\* once, and has tested every operation hash of the cases that can be tested
\* under exactly one case.
THEOREM CampaignAllTestedOnce == Spec => []AllTestedOnce
<1>1. IInv /\ OwnerInv /\ CoverInv => AllTestedOnce
  <2> SUFFICES ASSUME IInv, OwnerInv, CoverInv, Calm, running = {}, nextIdx >= NumCases
               PROVE  /\ \A c \in Cases : runs[c] = 1
                      /\ \A c \in Cases \ (BadCases \cup SyslogCases) : \A i \in Ops(c) :
                            \E t \in tested : HashOf[t[1]][t[2]] = HashOf[c][i]
                      /\ \A s, t \in tested :
                            HashOf[s[1]][s[2]] = HashOf[t[1]][t[2]] => s[1] = t[1]
    BY DEF AllTestedOnce, Calm
  <2>1. CalmHost /\ CalmGuests /\ CalmCases /\ ClaimExists
    BY DEF CoverInv, CalmRun
  <2>2. \A v \in VMs : ~Busy(v) /\ ~Doomed(v)
    BY <2>1 DEF CalmHost, CalmGuests, Busy, Doomed
  <2>3. \A c \in Cases : c < nextIdx
    BY CampaignAssumption DEF Cases, IInv, Typed, TypeOK
  <2>4. \A c \in Cases : RunOnce(c)
    BY <2>1, <2>2, <2>3 DEF CalmCases
  <2>5. ASSUME NEW c \in Cases \ (BadCases \cup SyslogCases), NEW i \in Ops(c)
        PROVE  \E t \in tested : HashOf[t[1]][t[2]] = HashOf[c][i]
    <3> DEFINE h == HashOf[c][i]
               o == owner[h]
    <3>1. h \in Hashes /\ o # NoCase
      BY <2>4, HashIn DEF RunOnce, Covered
    <3>2. o \in Cases
      BY <3>1, CasesFacts DEF IInv, Typed, TypeOK
    <3>3. PICK j \in Claimed(o) : HashOf[o][j] = h
      BY <2>1, <3>1 DEF ClaimExists
    <3>4. <<o, j>> \in tested
      BY <2>4, <3>2, <3>3 DEF RunOnce, ClaimsDone
    <3> QED
      BY <3>3, <3>4
  <2>6. \A s, t \in tested : HashOf[s[1]][s[2]] = HashOf[t[1]][t[2]] => s[1] = t[1]
    BY DEF OwnerInv, ClaimsOwned, OwnedBy, Calm
  <2> QED
    BY <2>4, <2>5, <2>6 DEF RunOnce
<1> QED
  BY <1>1, CampaignSafety, CampaignOwner, CampaignCover, PTL
=============================================================================

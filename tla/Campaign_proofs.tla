--------------------------- MODULE Campaign_proofs ---------------------------
(***************************************************************************)
(* Machine-checked proofs about Campaign, for any number of VMs, cases,    *)
(* operations and faults.                                                  *)
(***************************************************************************)
EXTENDS Campaign, TLAPS

\* A guest that is between taking a case and finishing it has a case, so what
\* it does with the operations of its case is well defined; and one that
\* handles an exception has a state to report.
LocalsBound ==
    \A v \in VMs : /\ Busy(v) => gcase[v] \in Cases
                   /\ gpc[v] = "exc" => gexc[v] \in GuestState

Typed == TypeOK /\ LocalsBound

\* The operations of a case are indexed by natural numbers.
LEMMA OpsNat == \A c \in Cases : Ops(c) \subseteq Nat
  BY CampaignAssumption DEF Ops

\* The initial state has the types.
LEMMA TypedInit == Init => Typed
<1> SUFFICES ASSUME Init PROVE Typed
  OBVIOUS
<1>1. NoCase \in CaseOrNone /\ ArgCase \in CaseOrNone
  BY CampaignAssumption DEF CaseOrNone
<1>2. [case |-> NoCase, ops |-> {}] \in [case : CaseOrNone, ops : SUBSET Nat]
  BY <1>1
<1>3. "ABSENT" \in GuestState /\ "off" \in GuestPcs
  BY DEF GuestState, GuestPcs
<1>4. TypeOK
  BY <1>1, <1>2, <1>3, CampaignAssumption DEF Init, TypeOK
<1>5. LocalsBound
  BY DEF Init, LocalsBound, Busy
<1> QED
  BY <1>4, <1>5 DEF Typed

\* The two halves of the types: the guest processes, and everything else.
GuestTyped ==
    /\ gpc \in [VMs -> GuestPcs]
    /\ hbThread \in SUBSET VMs
    /\ gretest \in [VMs -> CaseOrNone]
    /\ gnum \in [VMs -> Nat]
    /\ gcase \in [VMs -> CaseOrNone]
    /\ gknown \in [VMs -> BOOLEAN]
    /\ gidx \in [VMs -> SUBSET Nat]
    /\ gop \in [VMs -> Nat]
    /\ gexc \in [VMs -> GuestState \cup {"none"}]
    /\ LocalsBound

SysTyped ==
    /\ state \in [VMs -> GuestState]
    /\ hb \in [VMs -> {"none", "set"}]
    /\ startKey \in [VMs -> CaseOrNone]
    /\ endKey \in [VMs -> CaseOrNone]
    /\ uniqKey \in [VMs -> [case : CaseOrNone, ops : SUBSET Nat]]
    /\ nextIdx \in Nat
    /\ owner \in [Hashes -> CaseOrNone]
    /\ phase \in {"start", "monitor"}
    /\ hpc \in {"poll", "restore", "restart", "launch", "mark", "aborted"}
    /\ hvm \in VMs /\ hretest \in BOOLEAN /\ hjob \in CaseOrNone
    /\ todo \in SUBSET VMs
    /\ running \in SUBSET VMs /\ complete \in SUBSET VMs
    /\ broken \in SUBSET VMs /\ debugged \in SUBSET VMs
    /\ retest \in [Cases -> Nat]
    /\ argCase \in CaseOrNone
    /\ qemuUp \in SUBSET VMs
    /\ faults \in Nat
    /\ runs \in [Cases -> Nat]
    /\ tested \in SUBSET (Cases \X Nat)
    /\ refuted \in SUBSET CaseOrNone

\* The types, split into those of the guests and all others.
LEMMA TypedSplit == Typed <=> SysTyped /\ GuestTyped
  BY DEF Typed, TypeOK, SysTyped, GuestTyped

\* Removing a guest keeps its types.
LEMMA KillTyped ==
  ASSUME Typed, NEW v \in VMs, KillGuest(v)
  PROVE  GuestTyped'
<1>1. NoCase \in CaseOrNone /\ "off" \in GuestPcs
  BY DEF CaseOrNone, GuestPcs
<1> QED
  BY <1>1 DEF Typed, TypeOK, GuestTyped, KillGuest, ClearCase, LocalsBound, Busy

\* Booting a guest keeps its types.
LEMMA BootTyped ==
  ASSUME Typed, NEW v \in VMs, NEW c \in CaseOrNone, Boot(v, c)
  PROVE  GuestTyped'
<1>1. "boot" \in GuestPcs
  BY DEF GuestPcs
<1> QED
  BY <1>1 DEF Typed, TypeOK, GuestTyped, Boot, LocalsBound, Busy

\* A guest that stays as it is.
LEMMA SameGuestTyped ==
  ASSUME Typed, UNCHANGED guestVars
  PROVE  GuestTyped'
  BY DEF Typed, TypeOK, GuestTyped, guestVars, LocalsBound, Busy

\* _restore_job yields a case or none, and counts.
LEMMA RestoreJobTyped ==
  ASSUME Typed, NEW v \in VMs, RestoreJob(v)
  PROVE  hjob' \in CaseOrNone /\ retest' \in [Cases -> Nat]
  BY DEF Typed, TypeOK, RestoreJob, NeedsRetest, CaseOrNone, NoCase

\* A step of the host or of qemu keeps the types: one case per action.
LEMMA TypedHost ==
  ASSUME Typed, HostStep \/ HostFails
  PROVE  Typed'
<1> USE CampaignAssumption DEF Typed, TypeOK, LocalsBound, Busy
<1> USE DEF mcVars, listVars, hostVars, guestVars, ghostVars
<1>1. ASSUME NEW v \in VMs, StartJob(v) PROVE Typed'
  BY <1>1 DEF StartJob, CaseOrNone
<1>2. ASSUME NEW v \in VMs, PollStarted(v) PROVE Typed'
  BY <1>2 DEF PollStarted, Polling, Pass
<1>3. ASSUME NEW v \in VMs, PollStartTimeout(v) PROVE Typed'
  <2>1. faults' \in Nat
    BY <1>3 DEF PollStartTimeout, FreeIf, Spend
  <2> QED
    BY <1>3, <2>1 DEF PollStartTimeout, Polling, Recover
<1>4. ASSUME NEW v \in VMs, PollAlive(v) PROVE Typed'
  BY <1>4 DEF PollAlive, Polling, Pass
<1>5. ASSUME NEW v \in VMs, PollHeartbeatLost(v) PROVE Typed'
  <2>1. faults' \in Nat
    BY <1>5 DEF PollHeartbeatLost, FreeIf, Spend
  <2> QED
    BY <1>5, <2>1 DEF PollHeartbeatLost, Polling, Recover
<1>6. ASSUME NEW v \in VMs, PollComplete(v) PROVE Typed'
  BY <1>6 DEF PollComplete, Polling, Leave
<1>7. ASSUME NEW v \in VMs, PollNeedRestart(v) PROVE Typed'
  BY <1>7 DEF PollNeedRestart, Polling, Recover
<1>8. ASSUME NEW v \in VMs, PollValidationFailed(v) PROVE Typed'
  BY <1>8 DEF PollValidationFailed, Polling, Recover
<1>9. ASSUME NEW v \in VMs, PollNeedDebug(v) PROVE Typed'
  BY <1>9 DEF PollNeedDebug, Polling, Recover, Leave
<1>10. ASSUME NEW v \in VMs, PollInvalid(v) PROVE Typed'
  BY <1>10 DEF PollInvalid, Polling, Leave
<1>11. CASE RestoreVm
  <2>1. CASE hvm \in qemuUp
    <3>1. GuestTyped'
      BY <1>11, <2>1, KillTyped DEF RestoreVm, LoadVm
    <3>2. hjob' \in CaseOrNone /\ retest' \in [Cases -> Nat]
      BY <1>11, <2>1, RestoreJobTyped DEF RestoreVm
    <3> QED
      BY <1>11, <2>1, <3>1, <3>2 DEF RestoreVm, GuestTyped
  <2>2. CASE hvm \notin qemuUp
    BY <1>11, <2>2 DEF RestoreVm
  <2> QED
    BY <2>1, <2>2
<1>12. CASE RestartVm
  <2>1. GuestTyped'
    BY <1>12, KillTyped DEF RestartVm
  <2>2. RestoreJob(hvm) \/ UNCHANGED <<hjob, retest>>
    BY <1>12 DEF RestartVm
  <2>3. hjob' \in CaseOrNone /\ retest' \in [Cases -> Nat]
    BY <2>2, RestoreJobTyped
  <2>4. faults' \in Nat
    BY <1>12 DEF RestartVm, Spend
  <2> QED
    BY <1>12, <2>1, <2>3, <2>4 DEF RestartVm, GuestTyped
<1>13. CASE StartGuestJob
  <2>1. (IF argCase # NoCase THEN argCase ELSE hjob) \in CaseOrNone
    OBVIOUS
  <2>2. GuestTyped'
    BY <1>13, <2>1, BootTyped, SameGuestTyped DEF StartGuestJob
  <2>3. faults' \in Nat /\ argCase' \in CaseOrNone
    BY <1>13 DEF StartGuestJob, ArgCaseTaken, Spend, CaseOrNone
  <2>4. /\ todo' \in SUBSET VMs /\ running' \in SUBSET VMs
        /\ broken' \in SUBSET VMs
        /\ hpc' \in {"poll", "mark", "aborted"}
    BY <1>13 DEF StartGuestJob
  <2>5. UNCHANGED <<mcVars, phase, hvm, hretest, hjob, complete, debugged,
                    retest, qemuUp, ghostVars>>
    BY <1>13 DEF StartGuestJob
  <2> QED
    BY <2>2, <2>3, <2>4, <2>5 DEF GuestTyped
<1>14. CASE MarkStarted
  BY <1>14 DEF MarkStarted, CaseOrNone, GuestState
<1>15. CASE HostFails
  BY <1>15 DEF HostFails, Spend
<1> QED
  BY <1>1, <1>2, <1>3, <1>4, <1>5, <1>6, <1>7, <1>8, <1>9, <1>10, <1>11,
     <1>12, <1>13, <1>14, <1>15 DEF HostStep, Poll

\* A step of a guest keeps the types.
LEMMA TypedGuest ==
  ASSUME Typed, NEW v \in VMs,
         GuestStep(v) \/ RaiseException(v) \/ VmCrash(v)
  PROVE  Typed'
<1> SUFFICES SysTyped' /\ GuestTyped'
  BY TypedSplit DEF Typed, TypeOK, SysTyped, GuestTyped
<1>s. SysTyped /\ GuestTyped
  BY TypedSplit
<1> USE <1>s DEF mcVars, listVars, hostVars, guestVars, ghostVars
<1> USE DEF At, Goto, SetState, LocalsBound, Busy
<1>c. NoCase \in CaseOrNone /\ Cases \subseteq CaseOrNone
  BY DEF CaseOrNone
<1>1. CASE GuestIniting(v)
  <2>1. SysTyped'
    BY <1>1, <1>c DEF GuestIniting, SysTyped, GuestState, GuestTyped
  <2>2. GuestTyped'
    BY <1>1, <1>c DEF GuestIniting, GuestTyped, GuestPcs
  <2> QED
    BY <2>1, <2>2
<1>2. CASE InitHeartbeat(v)
  <2>1. SysTyped'
    BY <1>2, <1>c DEF InitHeartbeat, SysTyped, GuestTyped
  <2>2. GuestTyped'
    BY <1>2, <1>c DEF InitHeartbeat, GuestTyped, GuestPcs
  <2> QED
    BY <2>1, <2>2
<1>3. CASE InitDone(v)
  <2>1. SysTyped'
    BY <1>3, <1>c DEF InitDone, SysTyped, GuestState, GuestTyped
  <2>2. GuestTyped'
    BY <1>3, <1>c DEF InitDone, GuestTyped, GuestPcs, CaseOrNone
  <2> QED
    BY <2>1, <2>2
<1>4. CASE RunBegin(v)
  <2>1. SysTyped'
    BY <1>4, <1>c DEF RunBegin, SysTyped, FreeIf, Spend, GuestState, GuestTyped
  <2>2. GuestTyped'
    <3>1. CASE gretest[v] = NoCase
      BY <1>4, <1>c, <3>1 DEF RunBegin, GuestTyped, GuestPcs
    <3>2. CASE gretest[v] # NoCase
      <4>1. gretest[v] \in Cases /\ uniqKey[v].ops \in SUBSET Nat
        BY <3>2 DEF CaseOrNone, SysTyped, GuestTyped
      <4>2. gidx' \in [VMs -> SUBSET Nat] /\ gknown' \in [VMs -> BOOLEAN]
        BY <1>4, <3>2, <4>1 DEF RunBegin, GuestTyped, StoredFor
      <4>3. gpc' \in [VMs -> GuestPcs] /\ gnum' \in [VMs -> Nat]
        BY <1>4, <3>2 DEF RunBegin, GuestTyped, GuestPcs
      <4>4. /\ gcase' = [gcase EXCEPT ![v] = gretest[v]]
            /\ gretest' = [gretest EXCEPT ![v] = NoCase]
            /\ gpc' = [gpc EXCEPT ![v] = "got"]
            /\ UNCHANGED <<hbThread, gop, gexc>>
        BY <1>4, <3>2 DEF RunBegin
      <4> QED
        BY <1>c, <4>1, <4>2, <4>3, <4>4 DEF GuestTyped
    <3> QED
      BY <3>1, <3>2
  <2> QED
    BY <2>1, <2>2
<1>5. CASE FetchCase(v)
  <2>1. SysTyped'
    BY <1>5, <1>c DEF FetchCase, SysTyped, Increments, MC_CMD_RETRY_TIMES, Incremented, GuestTyped
  <2>2. GuestTyped'
    <3>1. CASE gnum[v] + 1 > NumCasesToTest
      BY <1>5, <3>1 DEF FetchCase, GuestTyped, GuestPcs
    <3>2. CASE ~(gnum[v] + 1 > NumCasesToTest)
      <4>1. PICK k \in Increments :
              IF PastEnd(nextIdx + k - 1)
              THEN Goto(v, "stop") /\ UNCHANGED gcase
              ELSE /\ Goto(v, "got")
                   /\ gcase' = [gcase EXCEPT ![v] = nextIdx + k - 1]
        BY <1>5, <3>2 DEF FetchCase
      <4>2. ~PastEnd(nextIdx + k - 1) => nextIdx + k - 1 \in Cases
        BY CampaignAssumption DEF Increments, MC_CMD_RETRY_TIMES, PastEnd, Cases, SysTyped
      <4>3. gnum' \in [VMs -> Nat] /\
            UNCHANGED <<hbThread, gretest, gknown, gidx, gop, gexc>>
        BY <1>5 DEF FetchCase, GuestTyped
      <4>4. gcase' \in [VMs -> CaseOrNone] /\ LocalsBound'
        BY <4>1, <4>2, <4>3, <1>c DEF GuestTyped
      <4>5. gpc' \in [VMs -> GuestPcs]
        BY <4>1 DEF GuestTyped, GuestPcs
      <4> QED
        BY <4>3, <4>4, <4>5 DEF GuestTyped
    <3> QED
      BY <3>1, <3>2
  <2> QED
    BY <2>1, <2>2
<1>6. CASE CaseStart(v)
  <2>1. SysTyped'
    BY <1>6, <1>c DEF CaseStart, SysTyped, GuestTyped
  <2>2. GuestTyped'
    BY <1>6, <1>c DEF CaseStart, GuestTyped, GuestPcs
  <2> QED
    BY <2>1, <2>2
<1>7. CASE TraceCase(v)
  <2>1. SysTyped'
    BY <1>7, <1>c DEF TraceCase, SysTyped, Spend, GuestTyped
  <2>2. GuestTyped'
    <3>1. gcase[v] \in Cases
      BY <1>7 DEF TraceCase, GuestTyped
    <3>2. gidx' \in [VMs -> SUBSET Nat]
      BY <1>7, <3>1, OpsNat DEF TraceCase, GuestTyped
    <3>3. \E pc \in {"end", "exc", "test", "record", "dedup"} :
            /\ gpc' = [gpc EXCEPT ![v] = pc]
            /\ pc = "exc" => gexc' = [gexc EXCEPT ![v] = "UNKNOWN"]
      BY <1>7 DEF TraceCase
    <3>4. /\ gexc' \in [VMs -> GuestState \cup {"none"}]
          /\ \A w \in VMs : w # v => gexc'[w] = gexc[w]
      BY <1>7 DEF TraceCase, GuestTyped, GuestState
    <3>5. gop' \in [VMs -> Nat] /\
          UNCHANGED <<hbThread, gretest, gnum, gcase, gknown>>
      BY <1>7 DEF TraceCase, GuestTyped
    <3>6. gpc' \in [VMs -> GuestPcs]
      BY <3>3 DEF GuestTyped, GuestPcs
    <3>7. LocalsBound'
      BY <3>1, <3>3, <3>4, <3>5 DEF GuestTyped, GuestState
    <3> QED
      BY <3>2, <3>4, <3>5, <3>6, <3>7 DEF GuestTyped
  <2> QED
    BY <2>1, <2>2
<1>8. CASE DedupOp(v)
  <2>1. SysTyped'
    <3>1. gcase[v] \in CaseOrNone
      BY DEF GuestTyped
    <3>2. owner' \in [Hashes -> CaseOrNone]
      BY <1>8, <3>1 DEF DedupOp, SysTyped
    <3>3. faults' \in Nat
      BY <1>8 DEF DedupOp, Spend, SysTyped
    <3>4. UNCHANGED <<state, hb, startKey, endKey, uniqKey, nextIdx, hostVars,
                      qemuUp, ghostVars>>
      BY <1>8 DEF DedupOp
    <3> QED
      BY <3>2, <3>3, <3>4 DEF SysTyped
  <2>2. GuestTyped'
    BY <1>8, <1>c DEF DedupOp, GuestTyped, GuestPcs
  <2> QED
    BY <2>1, <2>2
<1>9. CASE DedupDone(v)
  <2>1. SysTyped'
    BY <1>9, <1>c DEF DedupDone, SysTyped, GuestTyped
  <2>2. GuestTyped'
    BY <1>9, <1>c DEF DedupDone, GuestTyped, GuestPcs
  <2> QED
    BY <2>1, <2>2
<1>10. CASE RecordIndices(v)
  <2>1. SysTyped'
    BY <1>10, <1>c DEF RecordIndices, SysTyped, GuestTyped
  <2>2. GuestTyped'
    BY <1>10, <1>c DEF RecordIndices, GuestTyped, GuestPcs
  <2> QED
    BY <2>1, <2>2
<1>11. CASE TestOp(v)
  <2>1. SysTyped'
    BY <1>11, <1>c DEF TestOp, SysTyped, GuestTyped
  <2>2. GuestTyped'
    BY <1>11, <1>c DEF TestOp, GuestTyped, GuestPcs
  <2> QED
    BY <2>1, <2>2
<1>12. CASE TestDone(v)
  <2>1. SysTyped'
    BY <1>12, <1>c DEF TestDone, SysTyped, GuestTyped
  <2>2. GuestTyped'
    BY <1>12, <1>c DEF TestDone, GuestTyped, GuestPcs
  <2> QED
    BY <2>1, <2>2
<1>13. CASE CaseEnd(v)
  <2>1. SysTyped'
    BY <1>13, <1>c DEF CaseEnd, SysTyped, ClearCase, GuestTyped
  <2>2. GuestTyped'
    BY <1>13, <1>c DEF CaseEnd, GuestTyped, GuestPcs, ClearCase, CaseOrNone
  <2> QED
    BY <2>1, <2>2
<1>14. CASE StopHeartbeat(v)
  <2>1. SysTyped'
    BY <1>14, <1>c DEF StopHeartbeat, SysTyped, GuestTyped
  <2>2. GuestTyped'
    BY <1>14, <1>c DEF StopHeartbeat, GuestTyped, GuestPcs
  <2> QED
    BY <2>1, <2>2
<1>15. CASE GuestComplete(v)
  <2>1. SysTyped'
    BY <1>15, <1>c DEF GuestComplete, SysTyped, GuestState, GuestTyped
  <2>2. GuestTyped'
    BY <1>15, KillTyped DEF GuestComplete
  <2> QED
    BY <2>1, <2>2
<1>16. CASE HandleException(v)
  <2>1. SysTyped'
    <3>1. state' \in [VMs -> GuestState]
      <4>1. gexc[v] \in GuestState
        BY <1>16 DEF HandleException, GuestTyped
      <4> QED
        BY <1>16, <4>1 DEF HandleException, SysTyped
    <3>2. refuted' \in SUBSET CaseOrNone
      BY <1>16 DEF HandleException, SysTyped, GuestTyped
    <3>3. faults' \in Nat
      BY <1>16 DEF HandleException, Spend, SysTyped
    <3> QED
      BY <1>16, <3>1, <3>2, <3>3 DEF HandleException, SysTyped
  <2>2. GuestTyped'
    <3>1. CASE KillGuest(v)
      BY <3>1, KillTyped
    <3>2. CASE ~KillGuest(v)
      BY <1>16, <3>2 DEF HandleException, GuestTyped, GuestPcs
    <3> QED
      BY <3>1, <3>2
  <2> QED
    BY <2>1, <2>2
<1>17. CASE RaiseException(v)
  <2>1. SysTyped'
    BY <1>17, <1>c DEF RaiseException, SysTyped, Spend, GuestTyped
  <2>2. GuestTyped'
    BY <1>17, <1>c DEF RaiseException, GuestTyped, GuestPcs, Raises, GuestState
  <2> QED
    BY <2>1, <2>2
<1>18. CASE VmCrash(v)
  <2>1. SysTyped'
    BY <1>18, <1>c DEF VmCrash, SysTyped, Spend, GuestTyped
  <2>2. GuestTyped'
    BY <1>18, KillTyped DEF VmCrash
  <2> QED
    BY <2>1, <2>2
<1> QED
  BY <1>1, <1>2, <1>3, <1>4, <1>5, <1>6, <1>7, <1>8, <1>9, <1>10, <1>11, <1>12, <1>13, <1>14, <1>15, <1>16, <1>17, <1>18 DEF GuestStep

\* Type correctness: in every behaviour the keys, the host's and the guests'
\* variables keep their types, and a busy guest has a case.
THEOREM CampaignTypes == Spec => []TypeOK
<1>1. Init => Typed
  BY TypedInit
<1>2. Typed /\ [Next]_vars => Typed'
  <2> SUFFICES ASSUME Typed, [Next]_vars PROVE Typed'
    OBVIOUS
  <2>1. CASE Next
    BY <2>1, TypedHost, TypedGuest DEF Next
  <2>2. CASE UNCHANGED vars
    BY <2>2 DEF Typed, TypeOK, LocalsBound, Busy, vars, mcVars, listVars,
                hostVars, guestVars, ghostVars
  <2> QED
    BY <2>1, <2>2
<1>3. Typed => TypeOK
  BY DEF Typed
<1> QED
  BY <1>1, <1>2, <1>3, PTL DEF Spec

-----------------------------------------------------------------------------
(***************************************************************************)
(* Why no case is run by two VMs at a time, run too often, or launched on  *)
(* a VM that still has a guest: the inductive invariant is about who has   *)
(* custody of a case, from the moment the shared index or the host hands   *)
(* it out until another case takes its place in <vm>.start.                *)
(***************************************************************************)

\* A launch finds its VM without a guest: the host has just killed the guest,
\* or, in start_all_jobs, there has never been one.
LaunchSafe ==
    /\ hpc = "launch" => gpc[hvm] = "off" /\ hvm \notin hbThread
    /\ phase = "start" => hpc \in {"poll", "launch", "mark", "aborted"}
    /\ phase = "start" /\ hpc # "aborted" =>
         \A v \in todo : \/ hpc = "mark" /\ hvm = v
                         \/ gpc[v] = "off" /\ v \notin hbThread

\* The guest that has entered its loop has no case to retest any more.
RetestConsumed ==
    \A v \in VMs :
        gpc[v] \in {"fetch", "got", "trace", "dedup", "record", "test", "end",
                    "stop", "fini"} => gretest[v] = NoCase

\* The host is about to launch v on case c.
HostHands(v, c) == hpc = "launch" /\ hvm = v /\ hjob = c

\* VM v may run case c, now or after a relaunch.
Holds(v, c) == \/ gcase[v] = c \/ gretest[v] = c \/ startKey[v] = c
               \/ HostHands(v, c)

\* A run of case c on v has been decided and has not begun.
Waits(v, c) == \/ gpc[v] = "got" /\ gcase[v] = c
               \/ gretest[v] = c
               \/ HostHands(v, c)

\* One holder per case.
OneHolder ==
    \A c \in Cases : \A v, w \in VMs : Holds(v, c) /\ Holds(w, c) => v = w

\* What is held has left the shared list and the command line.
HeldIsTaken ==
    \A c \in Cases : \A v \in VMs :
        Holds(v, c) => c # argCase /\ (c < nextIdx \/ NumCasesToTest = 0)

\* What is still on the list or the command line has not been run.
UntakenIsFresh ==
    \A c \in Cases :
        c = argCase \/ (c >= nextIdx /\ NumCasesToTest # 0) => runs[c] = 0

\* Every run after the first is paid for by an entry of retest_case_dict, a
\* run that has been decided and not begun included.
RunsPaid ==
    \A c \in Cases :
        /\ retest[c] <= RetestThreshold
        /\ runs[c] <= 1 + retest[c]
        /\ (\E v \in VMs : Waits(v, c)) => runs[c] <= retest[c]

\* A command-line case comes with --num_cases_to_test 0.
ArgAlone == argCase # NoCase => NumCasesToTest = 0

Custody == OneHolder /\ HeldIsTaken /\ UntakenIsFresh /\ RunsPaid /\ ArgAlone

IInv == Typed /\ LaunchSafe /\ RetestConsumed /\ Custody

-----------------------------------------------------------------------------
\* No case is the mark for none.
LEMMA CasesFacts == /\ NoCase \notin Cases
                    /\ Cases \subseteq Nat
                    /\ CaseOrNone = Cases \cup {NoCase}
  BY CampaignAssumption DEF Cases, NoCase, CaseOrNone

\* Before the first launch nothing is held and nothing ran.
LEMMA SafetyInit == Init => IInv
<1> SUFFICES ASSUME Init PROVE IInv
  OBVIOUS
<1>1. Typed
  BY TypedInit
<1>2. LaunchSafe /\ RetestConsumed
  BY DEF Init, LaunchSafe, RetestConsumed
<1>3. \A v \in VMs, c \in Cases : ~Holds(v, c) /\ ~Waits(v, c)
  BY CasesFacts DEF Init, Holds, Waits, HostHands
<1>4. OneHolder /\ HeldIsTaken
  BY <1>3 DEF OneHolder, HeldIsTaken
<1>5. UntakenIsFresh /\ RunsPaid
  BY <1>3, CampaignAssumption DEF Init, UntakenIsFresh, RunsPaid
<1>6. ArgAlone
  BY CampaignAssumption DEF Init, ArgAlone
<1> QED
  BY <1>1, <1>2, <1>4, <1>5, <1>6 DEF IInv, Custody

\* A step that gives nobody custody of a case keeps the accounts.
LEMMA CustodyShrinks ==
  ASSUME Custody,
         \A v \in VMs, c \in Cases : Holds(v, c)' => Holds(v, c),
         \A v \in VMs, c \in Cases : Waits(v, c)' => Waits(v, c),
         UNCHANGED <<nextIdx, argCase, runs, retest>>
  PROVE  Custody'
<1>1. OneHolder'
  BY DEF Custody, OneHolder
<1>2. HeldIsTaken' /\ UntakenIsFresh' /\ ArgAlone'
  BY DEF Custody, HeldIsTaken, UntakenIsFresh, ArgAlone
<1>3. RunsPaid'
  BY DEF Custody, RunsPaid
<1> QED
  BY <1>1, <1>2, <1>3 DEF Custody

\* A step of the host that leaves the guests alone and hands out no case.
LEMMA HostLeaves ==
  ASSUME IInv,
         UNCHANGED <<gpc, gretest, gcase, startKey>>,
         UNCHANGED <<nextIdx, argCase, runs, retest>>,
         hpc' = "launch" => hjob' = NoCase
  PROVE  Custody' /\ RetestConsumed'
<1>1. \A v \in VMs, c \in Cases : Holds(v, c)' => Holds(v, c)
  BY CasesFacts DEF Holds, HostHands
<1>2. \A v \in VMs, c \in Cases : Waits(v, c)' => Waits(v, c)
  BY CasesFacts DEF Waits, HostHands
<1>3. RetestConsumed'
  BY DEF IInv, RetestConsumed
<1> QED
  BY <1>1, <1>2, <1>3, CustodyShrinks DEF IInv

\* A step that removes the guest of v.
LEMMA GuestRemoved ==
  ASSUME IInv, NEW v \in VMs, KillGuest(v),
         UNCHANGED startKey,
         UNCHANGED <<nextIdx, argCase, runs, retest>>,
         hpc' = "launch" => UNCHANGED <<hpc, hvm, hjob>>
  PROVE  Custody' /\ RetestConsumed'
<1> USE DEF IInv, Typed, TypeOK, KillGuest, ClearCase
<1>1. \A w \in VMs, c \in Cases : Holds(w, c)' => Holds(w, c)
  BY CasesFacts DEF Holds, HostHands
<1>2. \A w \in VMs, c \in Cases : Waits(w, c)' => Waits(w, c)
  BY CasesFacts DEF Waits, HostHands
<1>3. RetestConsumed'
  BY DEF RetestConsumed
<1> QED
  BY <1>1, <1>2, <1>3, CustodyShrinks

\* _restore_job after the guest was killed: a case goes back to the VM that
\* has it in <vm>.start, and the retest is counted.
LEMMA JobRestored ==
  ASSUME IInv, KillGuest(hvm), RestoreJob(hvm), hpc' = "launch",
         UNCHANGED <<hvm, startKey, nextIdx, argCase, runs>>
  PROVE  Custody' /\ RetestConsumed'
<1>h. hvm \in VMs
  BY DEF IInv, Typed, TypeOK
<1>1. CASE UNCHANGED retest /\ hjob' = NoCase
  <2> USE <1>h, <1>1 DEF IInv, Typed, TypeOK, KillGuest, ClearCase
  <2>1. \A w \in VMs, c \in Cases : Holds(w, c)' => Holds(w, c)
    BY CasesFacts DEF Holds, HostHands
  <2>2. \A w \in VMs, c \in Cases : Waits(w, c)' => Waits(w, c)
    BY CasesFacts DEF Waits, HostHands
  <2>3. RetestConsumed'
    BY DEF RetestConsumed
  <2> QED
    BY <2>1, <2>2, <2>3, CustodyShrinks
<1>2. CASE ~(UNCHANGED retest /\ hjob' = NoCase)
  <2>1. /\ startKey[hvm] # NoCase /\ retest[startKey[hvm]] < RetestThreshold
        /\ hjob' = startKey[hvm]
        /\ retest' = [retest EXCEPT ![startKey[hvm]] = @ + 1]
    BY <1>2 DEF RestoreJob, NeedsRetest, MayRetest
  <2>2. startKey[hvm] \in Cases
    BY <1>h, <2>1, CasesFacts DEF IInv, Typed, TypeOK
  <2>3. \A w \in VMs, c \in Cases : Holds(w, c)' => Holds(w, c)
    BY <1>h, <2>1, CasesFacts
       DEF Holds, HostHands, IInv, Typed, TypeOK, KillGuest, ClearCase
  <2>4. \A w \in VMs, c \in Cases :
            c # startKey[hvm] => (Waits(w, c)' => Waits(w, c))
    BY <1>h, <2>1, CasesFacts
       DEF Waits, HostHands, IInv, Typed, TypeOK, KillGuest, ClearCase
  <2>5. OneHolder' /\ HeldIsTaken' /\ UntakenIsFresh' /\ ArgAlone'
    BY <2>3 DEF IInv, Custody, OneHolder, HeldIsTaken, UntakenIsFresh, ArgAlone
  <2>6. RunsPaid'
    <3> SUFFICES ASSUME NEW c \in Cases
                 PROVE  /\ retest'[c] <= RetestThreshold
                        /\ runs'[c] <= 1 + retest'[c]
                        /\ (\E w \in VMs : Waits(w, c)') => runs'[c] <= retest'[c]
      BY DEF RunsPaid
    <3>t. /\ retest[c] \in Nat /\ runs[c] \in Nat /\ RetestThreshold \in Nat
          /\ runs'[c] = runs[c]
      BY CampaignAssumption DEF IInv, Typed, TypeOK
    <3>p. /\ retest[c] <= RetestThreshold
          /\ runs[c] <= 1 + retest[c]
          /\ (\E w \in VMs : Waits(w, c)) => runs[c] <= retest[c]
      BY DEF IInv, Custody, RunsPaid
    <3>1. CASE c = startKey[hvm]
      <4>1. retest'[c] = retest[c] + 1
        BY <3>1, <2>1, <2>2 DEF IInv, Typed, TypeOK
      <4> QED
        BY <4>1, <3>1, <3>t, <3>p, <2>1
    <3>2. CASE c # startKey[hvm]
      <4>1. retest'[c] = retest[c]
        BY <3>2, <2>1, <2>2 DEF IInv, Typed, TypeOK
      <4> QED
        BY <4>1, <3>2, <3>t, <3>p, <2>4
    <3> QED
      BY <3>1, <3>2
  <2>7. RetestConsumed'
    BY <1>h DEF RetestConsumed, IInv, Typed, TypeOK, KillGuest
  <2> QED
    BY <2>5, <2>6, <2>7 DEF Custody
<1> QED
  BY <1>1, <1>2

\* The launch itself: the case passes from the host, or from the command line,
\* to the guest.
LEMMA JobLaunched ==
  ASSUME IInv, StartGuestJob
  PROVE  Custody' /\ RetestConsumed'
<1>h. hvm \in VMs /\ hpc = "launch" /\ hpc' # "launch" /\ argCase' = NoCase
  BY DEF IInv, Typed, TypeOK, StartGuestJob, ArgCaseTaken
<1>u. /\ UNCHANGED <<startKey, nextIdx, runs, retest>>
      /\ UNCHANGED <<gcase, hbThread>>
  BY DEF StartGuestJob, Boot, mcVars, ghostVars, guestVars
<1>1. CASE UNCHANGED guestVars
  <2>1. \A w \in VMs, c \in Cases : Holds(w, c)' => Holds(w, c)
    BY <1>h, <1>u, <1>1 DEF Holds, HostHands, guestVars
  <2>2. \A w \in VMs, c \in Cases : Waits(w, c)' => Waits(w, c)
    BY <1>h, <1>u, <1>1 DEF Waits, HostHands, guestVars
  <2>3. OneHolder'
    BY <2>1 DEF IInv, Custody, OneHolder
  <2>4. HeldIsTaken' /\ UntakenIsFresh' /\ ArgAlone'
    BY <1>h, <1>u, <2>1, CasesFacts
       DEF IInv, Custody, HeldIsTaken, UntakenIsFresh, ArgAlone
  <2>5. RunsPaid'
    BY <1>u, <2>2 DEF IInv, Custody, RunsPaid
  <2>6. RetestConsumed'
    BY <1>1 DEF IInv, RetestConsumed, guestVars
  <2> QED
    BY <2>3, <2>4, <2>5, <2>6 DEF Custody
<1>2. CASE ~UNCHANGED guestVars
  <2> DEFINE job == IF argCase # NoCase THEN argCase ELSE hjob
  <2>1. /\ gpc' = [gpc EXCEPT ![hvm] = "boot"]
        /\ gretest' = [gretest EXCEPT ![hvm] = job]
    BY <1>2 DEF StartGuestJob, Boot
  <2>2. \A w \in VMs, c \in Cases :
           Holds(w, c)' => Holds(w, c) \/ (w = hvm /\ c = argCase)
    BY <1>h, <1>u, <2>1, CasesFacts
       DEF Holds, HostHands, IInv, Typed, TypeOK
  <2>3. \A w \in VMs, c \in Cases :
           Waits(w, c)' => Waits(w, c) \/ (w = hvm /\ c = argCase)
    BY <1>h, <1>u, <2>1, CasesFacts
       DEF Waits, HostHands, IInv, Typed, TypeOK
  <2>4. OneHolder'
    BY <2>2 DEF IInv, Custody, OneHolder, HeldIsTaken
  <2>5. HeldIsTaken' /\ UntakenIsFresh' /\ ArgAlone'
    BY <1>h, <1>u, <2>2, CasesFacts
       DEF IInv, Custody, HeldIsTaken, UntakenIsFresh, ArgAlone
  <2>6. RunsPaid'
    <3>1. \A c \in Cases : c = argCase => runs[c] <= retest[c]
      BY CampaignAssumption
         DEF IInv, Typed, TypeOK, Custody, UntakenIsFresh
    <3> QED
      BY <1>u, <2>3, <3>1 DEF IInv, Custody, RunsPaid
  <2>7. RetestConsumed'
    BY <1>h, <2>1 DEF IInv, Typed, TypeOK, RetestConsumed
  <2> QED
    BY <2>4, <2>5, <2>6, <2>7 DEF Custody
<1> QED
  BY <1>1, <1>2

\* Every step of the host keeps the accounts.
LEMMA CustodyHost ==
  ASSUME IInv, HostStep \/ HostFails
  PROVE  Custody' /\ RetestConsumed'
<1> USE DEF mcVars, listVars, hostVars, guestVars, ghostVars
<1>1. ASSUME NEW v \in VMs, StartJob(v) PROVE Custody' /\ RetestConsumed'
  BY <1>1, HostLeaves DEF StartJob
<1>2. ASSUME NEW v \in VMs, Poll(v) PROVE Custody' /\ RetestConsumed'
  <2>1. /\ UNCHANGED <<gpc, gretest, gcase, startKey>>
        /\ UNCHANGED <<nextIdx, argCase, runs, retest>>
        /\ hpc' # "launch"
    BY <1>2 DEF Poll, PollStarted, PollStartTimeout, PollAlive, Polling,
                PollHeartbeatLost, PollComplete, PollNeedRestart,
                PollValidationFailed, PollNeedDebug, PollInvalid, Pass, Leave,
                Recover
  <2> QED
    BY <2>1, HostLeaves
<1>3. CASE RestoreVm
  <2>1. CASE hvm \in qemuUp
    BY <1>3, <2>1, JobRestored DEF RestoreVm, LoadVm
  <2>2. CASE hvm \notin qemuUp
    BY <1>3, <2>2, HostLeaves DEF RestoreVm
  <2> QED
    BY <2>1, <2>2
<1>4. CASE RestartVm
  <2>1. CASE hpc' = "launch"
    BY <1>4, <2>1, JobRestored DEF RestartVm
  <2>2. CASE hpc' # "launch"
    <3>1. hvm \in VMs /\ KillGuest(hvm) /\ UNCHANGED startKey
      BY <1>4 DEF RestartVm, IInv, Typed, TypeOK
    <3>2. UNCHANGED <<nextIdx, argCase, runs, retest>>
      BY <1>4, <2>2 DEF RestartVm
    <3> QED
      BY <2>2, <3>1, <3>2, GuestRemoved
  <2> QED
    BY <2>1, <2>2
<1>5. CASE StartGuestJob
  BY <1>5, JobLaunched
<1>6. CASE MarkStarted
  BY <1>6, HostLeaves DEF MarkStarted
<1>7. CASE HostFails
  BY <1>7, HostLeaves DEF HostFails
<1> QED
  BY <1>1, <1>2, <1>3, <1>4, <1>5, <1>6, <1>7 DEF HostStep

\* A launch finds no guest after every step of the host.
LEMMA LaunchHost ==
  ASSUME IInv, HostStep \/ HostFails
  PROVE  LaunchSafe'
<1> USE DEF mcVars, listVars, hostVars, guestVars, ghostVars
<1>t. /\ LaunchSafe /\ hvm \in VMs /\ gpc \in [VMs -> GuestPcs]
      /\ hbThread \subseteq VMs /\ todo \subseteq VMs
  BY DEF IInv, Typed, TypeOK
<1>1. ASSUME NEW v \in VMs, StartJob(v) PROVE LaunchSafe'
  BY <1>1, <1>t DEF StartJob, LaunchSafe
<1>2. ASSUME NEW v \in VMs, Poll(v) PROVE LaunchSafe'
  <2>1. phase = "monitor" /\ phase' = phase /\ hpc' # "launch"
    BY <1>2 DEF Poll, PollStarted, PollStartTimeout, PollAlive, Polling,
                PollHeartbeatLost, PollComplete, PollNeedRestart,
                PollValidationFailed, PollNeedDebug, PollInvalid, Pass, Leave,
                Recover
  <2> QED
    BY <2>1 DEF LaunchSafe
<1>3. CASE RestoreVm
  BY <1>3, <1>t DEF RestoreVm, LoadVm, KillGuest, LaunchSafe
<1>4. CASE RestartVm
  BY <1>4, <1>t DEF RestartVm, KillGuest, LaunchSafe
<1>5. CASE StartGuestJob
  <2>1. /\ hpc = "launch" /\ hpc' \in {"mark", "aborted", "poll"}
        /\ phase = "start" => hpc' \in {"mark", "aborted"} /\ todo' = todo
        /\ hpc' = "mark" => Boot(hvm, IF argCase # NoCase THEN argCase ELSE hjob)
        /\ UNCHANGED <<phase, hvm>>
    BY <1>5 DEF StartGuestJob
  <2> QED
    BY <2>1, <1>t DEF Boot, LaunchSafe
<1>6. CASE MarkStarted
  BY <1>6, <1>t DEF MarkStarted, LaunchSafe
<1>7. CASE HostFails
  BY <1>7, <1>t DEF HostFails, LaunchSafe
<1> QED
  BY <1>1, <1>2, <1>3, <1>4, <1>5, <1>6, <1>7 DEF HostStep

-----------------------------------------------------------------------------
(* The guests.                                                             *)

Looping == {"fetch", "got", "trace", "dedup", "record", "test", "end",
            "stop", "fini"}

\* A guest that moves on without taking a case, or drops the one it has.
LEMMA GuestMoves ==
  ASSUME IInv, NEW v \in VMs, NEW pc \in GuestPcs \ {"got"},
         gpc' = [gpc EXCEPT ![v] = pc],
         \A w \in VMs : gcase'[w] \in {gcase[w], NoCase},
         \A w \in VMs : gretest'[w] \in {gretest[w], NoCase},
         pc \in Looping => gretest[v] = NoCase,
         UNCHANGED <<startKey, nextIdx, argCase, runs, retest, hpc, hvm, hjob>>
  PROVE  Custody' /\ RetestConsumed'
<1>1. \A w \in VMs, c \in Cases : Holds(w, c)' => Holds(w, c)
  BY CasesFacts DEF Holds, HostHands
<1>2. \A w \in VMs, c \in Cases : Waits(w, c)' => Waits(w, c)
  BY CasesFacts DEF Waits, HostHands, IInv, Typed, TypeOK
<1>3. RetestConsumed'
  BY DEF RetestConsumed, IInv, Typed, TypeOK, Looping
<1> QED
  BY <1>1, <1>2, <1>3, CustodyShrinks DEF IInv

\* run() takes the case to retest.
LEMMA RetestTaken ==
  ASSUME IInv, NEW v \in VMs, RunBegin(v), gretest[v] # NoCase
  PROVE  Custody' /\ RetestConsumed'
<1>1. /\ gpc' = [gpc EXCEPT ![v] = "got"]
      /\ gcase' = [gcase EXCEPT ![v] = gretest[v]]
      /\ gretest' = [gretest EXCEPT ![v] = NoCase]
      /\ UNCHANGED <<startKey, nextIdx, argCase, runs, retest, hpc, hvm, hjob>>
  BY DEF RunBegin, Goto, hostVars, ghostVars
<1>2. \A w \in VMs, c \in Cases : Holds(w, c)' => Holds(w, c)
  BY <1>1, CasesFacts DEF Holds, HostHands, IInv, Typed, TypeOK
<1>3. \A w \in VMs, c \in Cases : Waits(w, c)' => Waits(w, c)
  BY <1>1, CasesFacts DEF Waits, HostHands, IInv, Typed, TypeOK
<1>4. RetestConsumed'
  BY <1>1 DEF RetestConsumed, IInv, Typed, TypeOK
<1> QED
  BY <1>1, <1>2, <1>3, <1>4, CustodyShrinks DEF IInv

\* run() takes the next case of the list: nobody held it and it never ran.
LEMMA CaseTaken ==
  ASSUME IInv, NEW v \in VMs, FetchCase(v)
  PROVE  Custody' /\ RetestConsumed'
<1> USE DEF At, Goto
<1>u. /\ UNCHANGED <<startKey, gretest, argCase, runs, retest, hpc, hvm, hjob>>
      /\ gpc[v] = "fetch" /\ gretest[v] = NoCase
  BY DEF FetchCase, hostVars, listVars, ghostVars, IInv, RetestConsumed
<1>t. /\ nextIdx \in Nat /\ gpc \in [VMs -> GuestPcs]
      /\ gcase \in [VMs -> CaseOrNone]
  BY DEF IInv, Typed, TypeOK
<1>1. CASE gpc' = [gpc EXCEPT ![v] = "stop"] /\ UNCHANGED <<nextIdx, gcase>>
  BY <1>1, <1>u, GuestMoves DEF GuestPcs
<1>2. CASE ~(gpc' = [gpc EXCEPT ![v] = "stop"] /\ UNCHANGED <<nextIdx, gcase>>)
  <2>0. NumCasesToTest # 0 /\ argCase = NoCase
    BY <1>2, CampaignAssumption
       DEF FetchCase, IInv, Typed, TypeOK, Custody, ArgAlone
  <2>1. PICK k \in Increments :
          /\ nextIdx' = Incremented(k)
          /\ IF PastEnd(nextIdx + k - 1)
             THEN gpc' = [gpc EXCEPT ![v] = "stop"] /\ UNCHANGED gcase
             ELSE /\ gpc' = [gpc EXCEPT ![v] = "got"]
                  /\ gcase' = [gcase EXCEPT ![v] = nextIdx + k - 1]
    BY <1>2 DEF FetchCase
  <2> DEFINE n == nextIdx + k - 1
  <2>2. n \in Nat /\ nextIdx <= n /\ n < nextIdx' /\ nextIdx' \in Nat
    BY <2>1, <1>t DEF Increments, MC_CMD_RETRY_TIMES, Incremented
  <2>3. \A w \in VMs, c \in Cases :
           Holds(w, c)' => Holds(w, c) \/ (w = v /\ c = n)
    BY <1>u, <1>t, <2>1, <2>2 DEF Holds, HostHands
  <2>4. \A w \in VMs, c \in Cases :
           Waits(w, c)' => Waits(w, c) \/ (w = v /\ c = n)
    BY <1>u, <1>t, <2>1, <2>2 DEF Waits, HostHands
  <2>5. \A w \in VMs, c \in Cases : Holds(w, c) => c < nextIdx
    BY <2>0 DEF IInv, Custody, HeldIsTaken
  <2>6. \A w \in VMs, c \in Cases : Holds(w, c) => c # n
    BY <2>5, <2>2, <1>t, CasesFacts
  <2>7. OneHolder'
    BY <2>3, <2>6 DEF IInv, Custody, OneHolder
  <2>8. HeldIsTaken'
    BY <1>u, <1>t, <2>0, <2>2, <2>3, <2>5, CasesFacts DEF HeldIsTaken
  <2>9. UntakenIsFresh' /\ ArgAlone'
    <3>1. \A c \in Cases : c >= nextIdx' => c >= nextIdx
      BY <2>2, <1>t, CasesFacts
    <3> QED
      BY <1>u, <2>0, <3>1 DEF IInv, Custody, UntakenIsFresh, ArgAlone
  <2>10. RunsPaid'
    <3>1. \A c \in Cases : c = n => runs[c] <= retest[c]
      <4>1. \A c \in Cases : c = n => runs[c] = 0
        BY <2>0, <2>2, <1>t, CasesFacts DEF IInv, Custody, UntakenIsFresh
      <4> QED
        BY <4>1 DEF IInv, Typed, TypeOK
    <3> HIDE DEF n
    <3> QED
      BY <1>u, <2>4, <3>1 DEF IInv, Custody, RunsPaid
  <2>11. RetestConsumed'
    BY <1>u, <1>t, <2>1 DEF IInv, RetestConsumed
  <2> QED
    BY <2>7, <2>8, <2>9, <2>10, <2>11 DEF Custody
<1> QED
  BY <1>1, <1>2

\* run_one_case: the decided run begins, and no other one is waiting.
LEMMA CaseBegun ==
  ASSUME IInv, NEW v \in VMs, CaseStart(v)
  PROVE  Custody' /\ RetestConsumed'
<1> DEFINE b == gcase[v]
<1>t. /\ gpc \in [VMs -> GuestPcs] /\ startKey \in [VMs -> CaseOrNone]
      /\ runs \in [Cases -> Nat] /\ retest \in [Cases -> Nat]
  BY DEF IInv, Typed, TypeOK
<1>u. /\ UNCHANGED <<gretest, gcase, nextIdx, argCase, retest, hpc, hvm, hjob>>
      /\ gpc[v] = "got" /\ gpc' = [gpc EXCEPT ![v] = "trace"]
      /\ startKey' = [startKey EXCEPT ![v] = b]
      /\ runs' = [runs EXCEPT ![b] = @ + 1]
  BY DEF CaseStart, At, Goto, hostVars, listVars
<1>b. b \in Cases /\ gretest[v] = NoCase
  BY <1>u DEF IInv, Typed, LocalsBound, Busy, RetestConsumed
<1>1. \A w \in VMs, c \in Cases : Holds(w, c)' => Holds(w, c)
  BY <1>t, <1>u DEF Holds, HostHands
<1>2. \A w \in VMs, c \in Cases : Waits(w, c)' => Waits(w, c) /\ c # b
  <2> SUFFICES ASSUME NEW w \in VMs, NEW c \in Cases, Waits(w, c)'
               PROVE  Waits(w, c) /\ c # b
    OBVIOUS
  <2>1. Waits(w, c)
    BY <1>t, <1>u DEF Waits, HostHands
  <2>2. CASE w # v
    <3>1. Holds(w, c) /\ Holds(v, b)
      BY <2>1 DEF Waits, Holds
    <3> QED
      BY <2>1, <2>2, <3>1, <1>b DEF IInv, Custody, OneHolder
  <2>3. CASE w = v
    <3>1. ~HostHands(v, c)
      BY <1>u DEF IInv, LaunchSafe, HostHands
    <3>2. gretest'[v] # c /\ gpc'[v] = "trace"
      BY <1>b, <1>t, <1>u, CasesFacts
    <3> QED
      BY <2>3, <3>1, <3>2, <1>u DEF Waits, HostHands
  <2> QED
    BY <2>2, <2>3
<1>3. Holds(v, b) /\ Waits(v, b)
  BY <1>u DEF Holds, Waits
<1> HIDE DEF b
<1>4. OneHolder' /\ HeldIsTaken' /\ ArgAlone'
  BY <1>1, <1>u DEF IInv, Custody, OneHolder, HeldIsTaken, ArgAlone
<1>5. UntakenIsFresh'
  <2>1. b # argCase /\ (b < nextIdx \/ NumCasesToTest = 0)
    BY <1>3, <1>b DEF IInv, Custody, HeldIsTaken
  <2>2. \A c \in Cases : c # b => runs'[c] = runs[c]
    BY <1>u, <1>b, <1>t
  <2>3. nextIdx \in Nat /\ b \in Nat
    BY <1>b, CasesFacts DEF IInv, Typed, TypeOK
  <2> QED
    BY <2>1, <2>2, <2>3, <1>u DEF IInv, Custody, UntakenIsFresh
<1>6. RunsPaid'
  <2> SUFFICES ASSUME NEW c \in Cases
               PROVE  /\ retest'[c] <= RetestThreshold
                      /\ runs'[c] <= 1 + retest'[c]
                      /\ (\E w \in VMs : Waits(w, c)') => runs'[c] <= retest'[c]
    BY DEF RunsPaid
  <2>p. /\ retest[c] <= RetestThreshold
        /\ runs[c] <= 1 + retest[c]
        /\ (\E w \in VMs : Waits(w, c)) => runs[c] <= retest[c]
    BY DEF IInv, Custody, RunsPaid
  <2>1. CASE c = b
    <3>1. runs'[c] = runs[c] + 1 /\ runs[c] <= retest[c]
      BY <2>1, <2>p, <1>3, <1>t, <1>u, <1>b
    <3> QED
      BY <2>1, <2>p, <3>1, <1>2, <1>t, <1>u
  <2>2. CASE c # b
    BY <2>2, <2>p, <1>2, <1>t, <1>u
  <2> QED
    BY <2>1, <2>2
<1>7. RetestConsumed'
  BY <1>t, <1>u, <1>b DEF IInv, RetestConsumed
<1> QED
  BY <1>4, <1>5, <1>6, <1>7 DEF Custody

\* Every step of a guest, and every crash of a VM, keeps the accounts.
LEMMA CustodyGuest ==
  ASSUME IInv, NEW v \in VMs,
         GuestStep(v) \/ RaiseException(v) \/ VmCrash(v)
  PROVE  Custody' /\ RetestConsumed'
<1> USE DEF mcVars, listVars, hostVars, guestVars, ghostVars, At, Goto
<1>t. /\ gpc \in [VMs -> GuestPcs] /\ gcase \in [VMs -> CaseOrNone]
      /\ gretest \in [VMs -> CaseOrNone] /\ RetestConsumed
  BY DEF IInv, Typed, TypeOK
<1>p. GuestPcs = {"off", "boot", "initing", "init", "inited", "fetch", "got",
        "trace", "dedup", "record", "test", "end", "stop", "fini", "exc",
        "zombie"}
  BY DEF GuestPcs
<1>1. CASE GuestIniting(v)
  <2>1. /\ gpc' = [gpc EXCEPT ![v] = "initing"]
        /\ \A w \in VMs : gcase'[w] \in {gcase[w], NoCase}
        /\ \A w \in VMs : gretest'[w] \in {gretest[w], NoCase}
        /\ UNCHANGED <<startKey, nextIdx, argCase, runs, retest, hpc, hvm, hjob>>
    BY <1>1, <1>t DEF GuestIniting
  <2>2. "initing" \in Looping => gretest[v] = NoCase
    BY <1>1, <1>t DEF GuestIniting, RetestConsumed, Looping
  <2> QED
    BY <2>1, <2>2, <1>p, GuestMoves
<1>2. CASE InitHeartbeat(v)
  <2>1. /\ gpc' = [gpc EXCEPT ![v] = "init"]
        /\ \A w \in VMs : gcase'[w] \in {gcase[w], NoCase}
        /\ \A w \in VMs : gretest'[w] \in {gretest[w], NoCase}
        /\ UNCHANGED <<startKey, nextIdx, argCase, runs, retest, hpc, hvm, hjob>>
    BY <1>2, <1>t DEF InitHeartbeat
  <2>2. "init" \in Looping => gretest[v] = NoCase
    BY <1>2, <1>t DEF InitHeartbeat, RetestConsumed, Looping
  <2> QED
    BY <2>1, <2>2, <1>p, GuestMoves
<1>3. CASE InitDone(v)
  <2>1. /\ gpc' = [gpc EXCEPT ![v] = "inited"]
        /\ \A w \in VMs : gcase'[w] \in {gcase[w], NoCase}
        /\ \A w \in VMs : gretest'[w] \in {gretest[w], NoCase}
        /\ UNCHANGED <<startKey, nextIdx, argCase, runs, retest, hpc, hvm, hjob>>
    BY <1>3, <1>t DEF InitDone
  <2>2. "inited" \in Looping => gretest[v] = NoCase
    BY <1>3, <1>t DEF InitDone, RetestConsumed, Looping
  <2> QED
    BY <2>1, <2>2, <1>p, GuestMoves
<1>4. CASE DedupOp(v)
  <2>1. /\ gpc' = [gpc EXCEPT ![v] = "dedup"]
        /\ \A w \in VMs : gcase'[w] \in {gcase[w], NoCase}
        /\ \A w \in VMs : gretest'[w] \in {gretest[w], NoCase}
        /\ UNCHANGED <<startKey, nextIdx, argCase, runs, retest, hpc, hvm, hjob>>
    BY <1>4, <1>t DEF DedupOp
  <2>2. "dedup" \in Looping => gretest[v] = NoCase
    BY <1>4, <1>t DEF DedupOp, RetestConsumed, Looping
  <2> QED
    BY <2>1, <2>2, <1>p, GuestMoves
<1>5. CASE RecordIndices(v)
  <2>1. /\ gpc' = [gpc EXCEPT ![v] = "test"]
        /\ \A w \in VMs : gcase'[w] \in {gcase[w], NoCase}
        /\ \A w \in VMs : gretest'[w] \in {gretest[w], NoCase}
        /\ UNCHANGED <<startKey, nextIdx, argCase, runs, retest, hpc, hvm, hjob>>
    BY <1>5, <1>t DEF RecordIndices
  <2>2. "test" \in Looping => gretest[v] = NoCase
    BY <1>5, <1>t DEF RecordIndices, RetestConsumed, Looping
  <2> QED
    BY <2>1, <2>2, <1>p, GuestMoves
<1>6. CASE TestOp(v)
  <2>1. /\ gpc' = [gpc EXCEPT ![v] = "test"]
        /\ \A w \in VMs : gcase'[w] \in {gcase[w], NoCase}
        /\ \A w \in VMs : gretest'[w] \in {gretest[w], NoCase}
        /\ UNCHANGED <<startKey, nextIdx, argCase, runs, retest, hpc, hvm, hjob>>
    BY <1>6, <1>t DEF TestOp
  <2>2. "test" \in Looping => gretest[v] = NoCase
    BY <1>6, <1>t DEF TestOp, RetestConsumed, Looping
  <2> QED
    BY <2>1, <2>2, <1>p, GuestMoves
<1>7. CASE TestDone(v)
  <2>1. /\ gpc' = [gpc EXCEPT ![v] = "end"]
        /\ \A w \in VMs : gcase'[w] \in {gcase[w], NoCase}
        /\ \A w \in VMs : gretest'[w] \in {gretest[w], NoCase}
        /\ UNCHANGED <<startKey, nextIdx, argCase, runs, retest, hpc, hvm, hjob>>
    BY <1>7, <1>t DEF TestDone
  <2>2. "end" \in Looping => gretest[v] = NoCase
    BY <1>7, <1>t DEF TestDone, RetestConsumed, Looping
  <2> QED
    BY <2>1, <2>2, <1>p, GuestMoves
<1>8. CASE StopHeartbeat(v)
  <2>1. /\ gpc' = [gpc EXCEPT ![v] = "fini"]
        /\ \A w \in VMs : gcase'[w] \in {gcase[w], NoCase}
        /\ \A w \in VMs : gretest'[w] \in {gretest[w], NoCase}
        /\ UNCHANGED <<startKey, nextIdx, argCase, runs, retest, hpc, hvm, hjob>>
    BY <1>8, <1>t DEF StopHeartbeat
  <2>2. "fini" \in Looping => gretest[v] = NoCase
    BY <1>8, <1>t DEF StopHeartbeat, RetestConsumed, Looping
  <2> QED
    BY <2>1, <2>2, <1>p, GuestMoves
<1>9. CASE RaiseException(v)
  <2>1. /\ gpc' = [gpc EXCEPT ![v] = "exc"]
        /\ \A w \in VMs : gcase'[w] \in {gcase[w], NoCase}
        /\ \A w \in VMs : gretest'[w] \in {gretest[w], NoCase}
        /\ UNCHANGED <<startKey, nextIdx, argCase, runs, retest, hpc, hvm, hjob>>
    BY <1>9, <1>t DEF RaiseException
  <2>2. "exc" \in Looping => gretest[v] = NoCase
    BY <1>9, <1>t DEF RaiseException, RetestConsumed, Looping
  <2> QED
    BY <2>1, <2>2, <1>p, GuestMoves
<1>10. CASE RunBegin(v)
  <2>1. CASE gretest[v] = NoCase
    <3>1. /\ gpc' = [gpc EXCEPT ![v] = "fetch"]
          /\ \A w \in VMs : gcase'[w] \in {gcase[w], NoCase}
          /\ \A w \in VMs : gretest'[w] \in {gretest[w], NoCase}
          /\ UNCHANGED <<startKey, nextIdx, argCase, runs, retest, hpc, hvm, hjob>>
      BY <1>10, <2>1, <1>t DEF RunBegin
    <3> QED
      BY <2>1, <3>1, <1>p, GuestMoves
  <2>2. CASE gretest[v] # NoCase
    BY <1>10, <2>2, RetestTaken
  <2> QED
    BY <2>1, <2>2
<1>11. CASE FetchCase(v)
  BY <1>11, CaseTaken
<1>12. CASE CaseStart(v)
  BY <1>12, CaseBegun
<1>13. CASE TraceCase(v)
  <2>1. /\ \E pc \in {"end", "exc", "test", "record", "dedup"} :
             gpc' = [gpc EXCEPT ![v] = pc]
        /\ UNCHANGED <<gcase, gretest>>
        /\ gretest[v] = NoCase
        /\ UNCHANGED <<startKey, nextIdx, argCase, runs, retest, hpc, hvm, hjob>>
    BY <1>13, <1>t DEF TraceCase, RetestConsumed
  <2> QED
    BY <2>1, <1>p, GuestMoves
<1>14. CASE DedupDone(v)
  <2>1. /\ \E pc \in {"end", "record"} : gpc' = [gpc EXCEPT ![v] = pc]
        /\ UNCHANGED <<gcase, gretest>>
        /\ gretest[v] = NoCase
        /\ UNCHANGED <<startKey, nextIdx, argCase, runs, retest, hpc, hvm, hjob>>
    BY <1>14, <1>t DEF DedupDone, RetestConsumed
  <2> QED
    BY <2>1, <1>p, GuestMoves
<1>15. CASE CaseEnd(v)
  <2>1. /\ \E pc \in {"fetch", "exc"} : gpc' = [gpc EXCEPT ![v] = pc]
        /\ \A w \in VMs : gcase'[w] \in {gcase[w], NoCase}
        /\ UNCHANGED gretest /\ gretest[v] = NoCase
        /\ UNCHANGED <<startKey, nextIdx, argCase, runs, retest, hpc, hvm, hjob>>
    BY <1>15, <1>t DEF CaseEnd, ClearCase, RetestConsumed
  <2> QED
    BY <2>1, <1>p, GuestMoves
<1>16. CASE GuestComplete(v)
  BY <1>16, GuestRemoved DEF GuestComplete
<1>17. CASE HandleException(v)
  <2>1. CASE KillGuest(v)
    <3>1. UNCHANGED <<startKey, nextIdx, argCase, runs, retest, hpc, hvm, hjob>>
      BY <1>17 DEF HandleException
    <3> QED
      BY <2>1, <3>1, GuestRemoved
  <2>2. CASE ~KillGuest(v)
    <3>1. /\ gpc' = [gpc EXCEPT ![v] = "zombie"]
          /\ UNCHANGED <<gcase, gretest>>
          /\ UNCHANGED <<startKey, nextIdx, argCase, runs, retest, hpc, hvm, hjob>>
      BY <1>17, <2>2 DEF HandleException
    <3>2. "zombie" \notin Looping
      BY DEF Looping
    <3> QED
      BY <3>1, <3>2, <1>p, GuestMoves
  <2> QED
    BY <2>1, <2>2
<1>18. CASE VmCrash(v)
  BY <1>18, GuestRemoved DEF VmCrash
<1> QED
  BY <1>1, <1>2, <1>3, <1>4, <1>5, <1>6, <1>7, <1>8, <1>9, <1>10, <1>11,
     <1>12, <1>13, <1>14, <1>15, <1>16, <1>17, <1>18
     DEF GuestStep

\* No step of a guest brings a guest to a VM the host is launching one on.
LEMMA LaunchGuest ==
  ASSUME IInv, NEW v \in VMs,
         GuestStep(v) \/ RaiseException(v) \/ VmCrash(v)
  PROVE  LaunchSafe'
<1> USE DEF mcVars, listVars, hostVars, guestVars, ghostVars, At, Goto
<1>t. /\ LaunchSafe /\ gpc \in [VMs -> GuestPcs]
      /\ todo \subseteq VMs /\ hvm \in VMs
  BY DEF IInv, Typed, TypeOK
<1>1. gpc[v] # "off" /\ UNCHANGED <<phase, hpc, hvm, todo>>
  BY DEF GuestStep, GuestIniting, InitHeartbeat, InitDone, RunBegin, FetchCase,
         CaseStart, TraceCase, DedupOp, DedupDone, RecordIndices, TestOp,
         TestDone, CaseEnd, StopHeartbeat, GuestComplete, HandleException,
         RaiseException, Raises, VmCrash
<1>2. \A w \in VMs : w # v => /\ gpc'[w] = gpc[w]
                              /\ w \in hbThread' => w \in hbThread
  BY <1>t DEF GuestStep, GuestIniting, InitHeartbeat, InitDone, RunBegin,
         FetchCase, CaseStart, TraceCase, DedupOp, DedupDone, RecordIndices,
         TestOp, TestDone, CaseEnd, ClearCase, StopHeartbeat, GuestComplete,
         HandleException, RaiseException, VmCrash, KillGuest
<1>3. hpc' = "launch" => gpc'[hvm'] = "off" /\ hvm' \notin hbThread'
  BY <1>t, <1>1, <1>2 DEF LaunchSafe
<1>4. phase' = "start" => hpc' \in {"poll", "launch", "mark", "aborted"}
  BY <1>t, <1>1 DEF LaunchSafe
<1>5. phase' = "start" /\ hpc' # "aborted" =>
        \A w \in todo' : \/ hpc' = "mark" /\ hvm' = w
                         \/ gpc'[w] = "off" /\ w \notin hbThread'
  BY <1>t, <1>1, <1>2 DEF LaunchSafe
<1> QED
  BY <1>3, <1>4, <1>5 DEF LaunchSafe

\* Every step keeps the inductive invariant.
LEMMA SafetyNext == IInv /\ [Next]_vars => IInv'
<1> SUFFICES ASSUME IInv, [Next]_vars PROVE IInv'
  OBVIOUS
<1>1. CASE HostStep \/ HostFails
  BY <1>1, TypedHost, CustodyHost, LaunchHost DEF IInv
<1>2. ASSUME NEW v \in VMs, GuestStep(v) \/ RaiseException(v) \/ VmCrash(v)
      PROVE  IInv'
  BY <1>2, TypedGuest, CustodyGuest, LaunchGuest DEF IInv
<1>3. CASE UNCHANGED vars
  <2> USE <1>3 DEF vars, mcVars, hostVars, listVars, guestVars, ghostVars
  <2>1. Typed'
    BY DEF IInv, Typed, TypeOK, LocalsBound, Busy
  <2>2. LaunchSafe' /\ RetestConsumed'
    BY DEF IInv, LaunchSafe, RetestConsumed
  <2>3. Custody'
    BY CustodyShrinks DEF IInv, Holds, Waits, HostHands
  <2> QED
    BY <2>1, <2>2, <2>3 DEF IInv
<1> QED
  BY <1>1, <1>2, <1>3 DEF Next

\* The inductive invariant holds in every reachable state of the campaign.
THEOREM CampaignSafety == Spec => []IInv
  BY SafetyInit, SafetyNext, PTL DEF Spec

-----------------------------------------------------------------------------
\* run_one_case begins at most 1 + retest_threshold times for a case, for any
\* number of VMs and cases and however many faults.
THEOREM CampaignRunsBounded == Spec => []RunsBounded
<1>1. IInv => RunsBounded
  <2> SUFFICES ASSUME IInv, NEW c \in Cases
               PROVE  runs[c] <= 1 + RetestThreshold
    BY DEF RunsBounded
  <2>1. runs[c] <= 1 + retest[c] /\ retest[c] <= RetestThreshold
    BY DEF IInv, Custody, RunsPaid
  <2>2. runs[c] \in Nat /\ retest[c] \in Nat /\ RetestThreshold \in Nat
    BY CampaignAssumption DEF IInv, Typed, TypeOK
  <2> QED
    BY <2>1, <2>2
<1> QED
  BY <1>1, CampaignSafety, PTL

\* Two VMs never work on one case: neither the shared index nor a relaunch
\* hands out a case that is in use.
THEOREM CampaignCaseExclusive == Spec => []CaseExclusive
<1>1. IInv => CaseExclusive
  <2> SUFFICES ASSUME IInv, NEW v \in VMs, NEW w \in VMs,
                      Busy(v), Busy(w), gcase[v] = gcase[w]
               PROVE  v = w
    BY DEF CaseExclusive
  <2>1. gcase[v] \in Cases
    BY DEF IInv, Typed, LocalsBound
  <2>2. Holds(v, gcase[v]) /\ Holds(w, gcase[v])
    BY DEF Holds
  <2> QED
    BY <2>1, <2>2 DEF IInv, Custody, OneHolder
<1> QED
  BY <1>1, CampaignSafety, PTL

\* _start_guest_job finds its VM without a guest and without a heartbeat thread.
THEOREM CampaignNoDoubleLaunch == Spec => []NoDoubleLaunch
<1>1. IInv => NoDoubleLaunch
  BY DEF IInv, LaunchSafe, NoDoubleLaunch
<1> QED
  BY <1>1, CampaignSafety, PTL
=============================================================================

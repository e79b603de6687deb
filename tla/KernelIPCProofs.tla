--------------------------- MODULE KernelIPCProofs --------------------------
(***************************************************************************)
(* Kernel preserves the register contexts of its processes, and implements *)
(* Rendezvous: sys_send() and sys_recv() are synchronous message passing.  *)
(***************************************************************************)
EXTENDS KernelProofs

(* Whatever a handler does to the process states before it yields, it      *)
(* neither makes a process READY nor takes one out of READY.               *)
SameReady(st) == \A i \in Slots : st[i] = "READY" <=> status[i] = "READY"

ContextKept(i) ==
  ContextOf(i)' = IF status[i] = "READY" /\ status'[i] = "RUNNING"
                  THEN APPS_ENTRY ELSE ContextOf(i)

(* proc_yield() gives each slot the context it had, or the entry point if  *)
(* it was READY.                                                           *)
LEMMA YieldContexts ==
  ASSUME Inv, Alive, NEW st, YieldPre(st, SavedCtx), SameReady(st),
         proc_yield(st, SavedCtx), pid' = pid
  PROVE  \A i \in Slots : ContextKept(i)
<1>1. \A i \in Slots : SavedCtx[i] = ContextOf(i)
  BY DEF Inv, TypeOK, SavedCtx, ContextOf
<1>2. CASE \E k \in 1 .. MAX_NPROCESS :
             NextRunnable(st, k) /\ SwitchTo(SlotAfter(k), st, SavedCtx)
  <2>1. PICK k \in 1 .. MAX_NPROCESS :
               NextRunnable(st, k) /\ SwitchTo(SlotAfter(k), st, SavedCtx)
    BY <1>2
  <2> DEFINE n == SlotAfter(k)
  <2>2. n \in Slots
    BY SlotAfterInSlots, KernelAssumption DEF Inv, TypeOK
  <2>3. st[n] \in {"READY", "RUNNING", "RUNNABLE"}
    BY <2>1 DEF NextRunnable, IsRunnable
  <2> HIDE DEF n
  <2>4. SwitchTo(n, st, SavedCtx)
    BY <2>1 DEF n
  <2>5. /\ Preempt(st) \in [Slots -> Status]
        /\ \A i \in Slots : Preempt(st)[i] # "RUNNING"
        /\ Preempt(st)[n] = "READY" <=> st[n] = "READY"
    BY <2>2 DEF Preempt, proc_set_status, YieldPre, Inv, TypeOK, UniquePids,
                Status, curr_pid
  <2>6. \A i \in Slots : status'[i] = IF i = n THEN "RUNNING"
                                               ELSE Preempt(st)[i]
    BY <2>2, <2>3, <2>4
    DEF SwitchTo, proc_set_status, YieldPre, Inv, UniquePids
  <2>7. /\ proc_curr_idx' = n
        /\ ctx' = IF Preempt(st)[n] = "READY"
                  THEN [SavedCtx EXCEPT ![n] = APPS_ENTRY] ELSE SavedCtx
        /\ cpu' = ctx'[n]
    BY <2>4 DEF SwitchTo
  <2>8. \A i \in Slots : ContextOf(i)' = ctx'[i]
    BY <2>7 DEF ContextOf
  <2> QED
    BY <1>1, <2>2, <2>5, <2>6, <2>7, <2>8, SavedCtxType
    DEF ContextKept, SameReady, Inv, YieldPre
<1>3. CASE /\ \A i \in Slots : ~ IsRunnable(st[i])
           /\ status' = st
           /\ ctx' = SavedCtx
           /\ UNCHANGED <<proc_curr_idx, curr_vm_pid, cpu>>
  BY <1>1, <1>3 DEF ContextKept, ContextOf, SameReady, IsRunnable
<1> QED
  BY <1>2, <1>3 DEF proc_yield

(* The process states a handler yields with, in each of its branches.      *)
LEMMA SendStates ==
  ASSUME Inv, Alive
  PROVE  LET st == [status EXCEPT ![proc_curr_idx] = "WAIT_TO_SEND"]
         IN YieldPre(st, SavedCtx) /\ SameReady(st)
  BY CurrentInUse, SavedCtxType
  DEF YieldPre, SameReady, Inv, TypeOK, Status, CurrentRuns, UsedHavePid, Alive

(* The states with which proc_recv() enters proc_yield() when nobody waits *)
(* to send to it.                                                          *)
LEMMA RecvStates ==
  ASSUME Inv, Alive
  PROVE  LET st == [status EXCEPT ![proc_curr_idx] = "WAIT_TO_RECV"]
         IN YieldPre(st, SavedCtx) /\ SameReady(st)
  BY CurrentInUse, SavedCtxType
  DEF YieldPre, SameReady, Inv, TypeOK, Status, CurrentRuns, UsedHavePid, Alive

(* The states with which a rendezvous enters proc_yield(): the partner is  *)
(* RUNNABLE, the others are as they were.                                  *)
LEMMA WakeStates ==
  ASSUME Inv, Alive, NEW i \in Slots,
         status[i] \in {"WAIT_TO_SEND", "WAIT_TO_RECV"}
  PROVE  LET st == proc_set_status(status, pid[i], "RUNNABLE")
         IN /\ YieldPre(st, SavedCtx) /\ SameReady(st)
            /\ \A j \in Slots : st[j] = IF j = i THEN "RUNNABLE" ELSE status[j]
<1> DEFINE st == proc_set_status(status, pid[i], "RUNNABLE")
<1>1. \A j \in Slots : st[j] = IF j = i THEN "RUNNABLE" ELSE status[j]
  BY DEF proc_set_status, Inv, UniquePids, UsedHavePid
<1>2. st \in [Slots -> Status]
  BY DEF proc_set_status, Inv, TypeOK, Status
<1> QED
  BY <1>1, <1>2, SavedCtxType
  DEF YieldPre, SameReady, Inv, CurrentRuns, UsedHavePid, Alive

(* Returning from kernel_entry() without a switch keeps every context.     *)
LEMMA ResumeContexts ==
  ASSUME Inv, ResumeCurrent(SavedCtx), status' = status, Alive
  PROVE  \A i \in Slots : ContextKept(i)
  BY CurrentInUse DEF ContextKept, ResumeCurrent, SavedCtx, ContextOf, Inv, TypeOK

(* The software interrupt keeps every context.                             *)
LEMMA SoftIntrContexts ==
  ASSUME Inv, SoftIntr
  PROVE  \A i \in Slots : ContextKept(i)
<1>1. Alive /\ pid' = pid /\ (proc_recv \/ proc_send)
  BY DEF SoftIntr, proc_syscall, SyscallType, Inv, RequestPosted
<1>2. CASE proc_yield([status EXCEPT ![proc_curr_idx] = "WAIT_TO_SEND"], SavedCtx)
  BY <1>1, <1>2, SendStates, YieldContexts
<1>3. CASE proc_yield([status EXCEPT ![proc_curr_idx] = "WAIT_TO_RECV"], SavedCtx)
  BY <1>1, <1>3, RecvStates, YieldContexts
<1>4. ASSUME NEW i \in Slots, status[i] \in {"WAIT_TO_SEND", "WAIT_TO_RECV"},
             proc_yield(proc_set_status(status, pid[i], "RUNNABLE"), SavedCtx)
      PROVE  \A j \in Slots : ContextKept(j)
  BY <1>1, <1>4, WakeStates, YieldContexts
<1>5. CASE ResumeCurrent(SavedCtx) /\ status' = status
  BY <1>1, <1>5, ResumeContexts
<1> QED
  BY <1>1, <1>2, <1>3, <1>4, <1>5
  DEF proc_recv, proc_send, ReceiverSlot, WaitsForCurrent

(* No step but the current process's own changes its registers, and no     *)
(* trap does: the save and restore of kernel_entry() lose nothing.         *)
THEOREM KernelContextsPreserved == Spec => ContextsPreserved
<1> DEFINE A == \A i \in Slots :
                  i # proc_curr_idx \/ (msip /\ ~ msip') \/ proc_curr_idx' # i
                    => ContextKept(i)
<1>1. ASSUME Inv, Next PROVE A
  <2>1. CASE SoftIntr
    BY <1>1, <2>1, SoftIntrContexts
  <2>2. CASE TimerIntr
    <3>1. YieldPre(status, SavedCtx) /\ SameReady(status)
      BY <1>1, <2>2, SavedCtxType
      DEF TimerIntr, InUser, YieldPre, SameReady, Inv, TypeOK, CurrentRuns,
          UsedHavePid
    <3> QED
      BY <1>1, <2>2, <3>1, YieldContexts DEF TimerIntr, InUser
  <2>3. CASE TimerIgnored \/ CtrlC
    BY <1>1, <2>3, ResumeContexts DEF TimerIgnored, CtrlC, InUser
  <2>4. CASE Exception
    BY <1>1, <2>4
    DEF Exception, SavedCtx, ContextKept, ContextOf, Inv, TypeOK
  <2>5. CASE Hang
    BY <1>1, <2>5 DEF Hang, vars, ContextKept, ContextOf
  <2>6. CASE \E c \in Ctx :
               \/ UserStep(c)
               \/ \E r \in Pids, m \in Content : sys_send(r, m, c)
               \/ sys_recv(c)
    <3>1. UNCHANGED <<ctx, status, proc_curr_idx>> /\ ~ msip
      BY <2>6 DEF UserStep, sys_send, sys_recv, procVars, InUser
    <3> QED
      BY <3>1 DEF ContextKept, ContextOf
  <2>7. CASE \E c \in Ctx :
               \/ proc_alloc(c)
               \/ \E p \in Pids : proc_set_ready(p, c) \/ proc_free(p, c)
               \/ proc_free_all(c)
    <3>1. UNCHANGED <<ctx, proc_curr_idx>> /\ ~ msip
      BY <2>7 DEF proc_alloc, proc_set_ready, proc_free, proc_free_all, InUser
    <3>2. \A i \in Slots : status[i] = "READY" => status'[i] # "RUNNING"
      BY <1>1, <2>7
      DEF proc_alloc, proc_set_ready, proc_free, proc_free_all, FreedStatus,
          proc_set_status, Inv, TypeOK
    <3> QED
      BY <3>1, <3>2 DEF ContextKept, ContextOf
  <2> QED
    BY <1>1, <2>1, <2>2, <2>3, <2>4, <2>5, <2>6, <2>7 DEF Next
<1>2. Inv /\ [Next]_vars => [A]_vars
  BY <1>1
<1>3. [][A]_vars <=> ContextsPreserved
  BY DEF ContextsPreserved, ContextKept
<1> QED
  BY <1>2, <1>3, KernelInvariant, PTL DEF Spec

-----------------------------------------------------------------------------
(* The refinement.  A blocked call has no error, a blocked sender's buffer *)
(* is stamped and names the receiver that its slot names, and a posted     *)
(* send names a pid.                                                       *)
Waiting == {"WAIT_TO_SEND", "WAIT_TO_RECV"}

WaitersClean == \A i \in Slots : status[i] \in Waiting => sc_retval[pid[i]] = 0

SendersStamped ==
  \A i \in Slots : status[i] = "WAIT_TO_SEND" =>
    /\ sc_msg[pid[i]].receiver = receiver_pid[i]
    /\ sc_msg[pid[i]].sender = pid[i]

PostedReceiver ==
  msip /\ sc_type[curr_vm_pid] = "SYS_SEND" =>
    sc_msg[curr_vm_pid].receiver \in Pids

IpcInv == WaitersClean /\ SendersStamped /\ PostedReceiver

(* The call process p is blocked in, in process states st.                 *)
WaitOf(st, p) ==
  IF \E i \in Slots : pid[i] = p /\ st[i] = "WAIT_TO_SEND" THEN "send"
  ELSE IF \E i \in Slots : pid[i] = p /\ st[i] = "WAIT_TO_RECV" THEN "recv"
  ELSE "none"

(* By UniquePids, the slot of a process decides what it is blocked in.     *)
LEMMA WaitOfSlot ==
  ASSUME Inv, NEW st, NEW i \in Slots, pid[i] # 0
  PROVE  WaitOf(st, pid[i]) = IF st[i] = "WAIT_TO_SEND" THEN "send"
                              ELSE IF st[i] = "WAIT_TO_RECV" THEN "recv"
                              ELSE "none"
  BY DEF WaitOf, Inv, UniquePids

(* The calls before a software interrupt.                                  *)
LEMMA CallNow ==
  ASSUME Inv, Alive, msip
  PROVE  /\ CallOf(curr_pid) = IF sc_type[curr_pid] = "SYS_SEND" THEN "send"
                                                                  ELSE "recv"
         /\ \A p \in Pids : p # curr_pid => CallOf(p) = WaitOf(status, p)
<1>1. /\ status[proc_curr_idx] = "RUNNING" /\ curr_pid \in Pids
      /\ proc_curr_idx \in Slots
  BY CurrentInUse DEF Inv, TypeOK
<1>2. WaitOf(status, curr_pid) = "none"
  BY <1>1, WaitOfSlot DEF curr_pid, Pids
<1> QED
  BY <1>1, <1>2 DEF CallOf, WaitOf

(* The calls of a kernel with no software interrupt pending.               *)
LEMMA CallIdle ==
  ASSUME ~ msip, NEW p
  PROVE  CallOf(p) = WaitOf(status, p)
  BY DEF CallOf, WaitOf

(* The calls after a yield entered with process states st.                 *)
LEMMA CallAfterYield ==
  ASSUME NEW st, YieldPost(st), pid' = pid, msip' = FALSE, NEW p
  PROVE  CallOf(p)' = WaitOf(st, p)
<1>1. \A i \in Slots : /\ status'[i] = "WAIT_TO_SEND" <=> st[i] = "WAIT_TO_SEND"
                       /\ status'[i] = "WAIT_TO_RECV" <=> st[i] = "WAIT_TO_RECV"
  BY DEF YieldPost, Blocked
<1> QED
  BY <1>1 DEF CallOf, WaitOf

(* A step that leaves the same slots in use under the same pids creates    *)
(* and frees no process.                                                   *)
LEMMA LifeKept ==
  ASSUME pid' = pid, proc_nprocs' = proc_nprocs,
         \A i \in Slots : status'[i] = "UNUSED" <=> status[i] = "UNUSED"
  PROVE  \A p \in Pids : LifeOf(p)' = LifeOf(p)
  BY DEF LifeOf

(* proc_yield() creates and frees no process either.                       *)
LEMMA LifeAfterYield ==
  ASSUME NEW st, YieldPost(st), pid' = pid, proc_nprocs' = proc_nprocs,
         \A i \in Slots : st[i] = "UNUSED" <=> status[i] = "UNUSED"
  PROVE  \A p \in Pids : LifeOf(p)' = LifeOf(p)
<1>1. \A i \in Slots : status'[i] = "UNUSED" <=> status[i] = "UNUSED"
  BY DEF YieldPost, Blocked
<1> QED
  BY <1>1, LifeKept

(* A process in a slot in use exists.                                      *)
LEMMA UsedIsLive ==
  ASSUME Inv, NEW i \in Slots, status[i] # "UNUSED"
  PROVE  LifeOf(pid[i]) = "live"
<1>1. ~ pid[i] > proc_nprocs
  BY DEF Inv, TypeOK, PidsAllocated, Pids
<1> QED
  BY <1>1 DEF LifeOf

(* A step of the rendezvous, from what it does to each process.            *)
RefusedP(p) == CallOf(p) = "none" /\ sc_retval[p] = -1

(* A step that changes no life, no call, no mailbox and no refusal is a    *)
(* stuttering step of Rendezvous.                                          *)
LEMMA Stutters ==
  ASSUME \A p \in Pids : LifeOf(p)' = LifeOf(p),
         \A p \in Pids : CallOf(p)' = CallOf(p),
         \A p \in Pids : BoxOf(p)' = BoxOf(p),
         \A p \in Pids : RefusedP(p)' <=> RefusedP(p)
  PROVE  UNCHANGED IPC!rvars
<1>0. lifeBar' = lifeBar
  BY DEF lifeBar
<1>1. callBar' = callBar
  BY DEF callBar
<1>2. boxBar' = boxBar
  BY DEF boxBar
<1>3. refusedBar' = refusedBar
  BY DEF refusedBar, RefusedP
<1> QED
  BY <1>0, <1>1, <1>2, <1>3 DEF IPC!rvars

(* A step that wakes a waiting pair and fills the mailbox is a hand-over   *)
(* of Rendezvous.                                                          *)
LEMMA HandsOver ==
  ASSUME NEW s \in Pids, NEW r \in Pids,
         CallOf(s) = "send", CallOf(r) = "recv", BoxOf(s).receiver = r,
         \A p \in Pids : LifeOf(p)' = LifeOf(p),
         \A p \in Pids : CallOf(p)' = IF p \in {s, r} THEN "none" ELSE CallOf(p),
         \A p \in Pids : BoxOf(p)' = IF p = r THEN BoxOf(s) ELSE BoxOf(p),
         \A p \in Pids : RefusedP(p)' <=> RefusedP(p)
  PROVE  IPC!RNext
<1>1. callBar' = [callBar EXCEPT ![s] = "none", ![r] = "none"]
  BY DEF callBar
<1>2. boxBar' = [boxBar EXCEPT ![r] = boxBar[s]]
  BY DEF boxBar
<1>3. refusedBar' = refusedBar
  BY DEF refusedBar, RefusedP
<1>4. callBar[s] = "send" /\ callBar[r] = "recv" /\ boxBar[s].receiver = r
  BY DEF callBar, boxBar
<1>5. lifeBar' = lifeBar
  BY DEF lifeBar
<1>6. IPC!HandOver(s, r)
  BY <1>1, <1>2, <1>3, <1>4, <1>5 DEF IPC!HandOver
<1> QED
  BY <1>6 DEF IPC!RNext

(* A step that gives up a send to a pid that does not exist is a refusal   *)
(* of Rendezvous.                                                          *)
LEMMA Refuses ==
  ASSUME NEW s \in Pids, NEW r \in Pids,
         CallOf(s) = "send", LifeOf(r) # "live", BoxOf(s).receiver = r,
         \A p \in Pids : LifeOf(p)' = LifeOf(p),
         \A p \in Pids : CallOf(p)' = IF p = s THEN "none" ELSE CallOf(p),
         \A p \in Pids : BoxOf(p)' = BoxOf(p),
         \A p \in Pids : RefusedP(p)' <=> RefusedP(p) \/ p = s
  PROVE  IPC!RNext
<1>1. callBar' = [callBar EXCEPT ![s] = "none"]
  BY DEF callBar
<1>2. boxBar' = boxBar
  BY DEF boxBar
<1>3. refusedBar' = refusedBar \cup {s}
  BY DEF refusedBar, RefusedP
<1>4. callBar[s] = "send" /\ lifeBar[r] # "live" /\ boxBar[s].receiver = r
  BY DEF callBar, boxBar, lifeBar
<1>5. lifeBar' = lifeBar
  BY DEF lifeBar
<1>6. IPC!Refuse(s, r)
  BY <1>1, <1>2, <1>3, <1>4, <1>5 DEF IPC!Refuse
<1> QED
  BY <1>6 DEF IPC!RNext

(* A step that frees processes, with the calls they are in, frees them in  *)
(* Rendezvous.                                                             *)
LEMMA Frees ==
  ASSUME NEW S \in SUBSET Pids,
         \A p \in S : LifeOf(p) = "live",
         \A p \in Pids : LifeOf(p)' = IF p \in S THEN "freed" ELSE LifeOf(p),
         \A p \in Pids : CallOf(p)' = IF p \in S THEN "none" ELSE CallOf(p),
         \A p \in Pids : BoxOf(p)' = BoxOf(p),
         \A p \in Pids : RefusedP(p)' <=> RefusedP(p)
  PROVE  IPC!RNext
<1>1. callBar' = [p \in Pids |-> IF p \in S THEN "none" ELSE callBar[p]]
  BY DEF callBar
<1>2. boxBar' = boxBar
  BY DEF boxBar
<1>3. refusedBar' = refusedBar
  BY DEF refusedBar, RefusedP
<1>4. lifeBar' = [p \in Pids |-> IF p \in S THEN "freed" ELSE lifeBar[p]]
  BY DEF lifeBar
<1>5. \A p \in S : lifeBar[p] = "live"
  BY DEF lifeBar
<1>6. IPC!Free(S)
  BY <1>1, <1>2, <1>3, <1>4, <1>5 DEF IPC!Free
<1> QED
  BY <1>6 DEF IPC!RNext

(* A step that makes a pid exist, and changes no call, is a birth of       *)
(* Rendezvous.                                                             *)
LEMMA Births ==
  ASSUME NEW q \in Pids, LifeOf(q) = "unborn",
         \A p \in Pids : LifeOf(p)' = IF p = q THEN "live" ELSE LifeOf(p),
         \A p \in Pids : CallOf(p)' = CallOf(p),
         \A p \in Pids : BoxOf(p)' = BoxOf(p),
         \A p \in Pids : RefusedP(p)' <=> RefusedP(p)
  PROVE  IPC!RNext
<1>1. callBar' = callBar
  BY DEF callBar
<1>2. boxBar' = boxBar
  BY DEF boxBar
<1>3. refusedBar' = refusedBar
  BY DEF refusedBar, RefusedP
<1>4. lifeBar' = [lifeBar EXCEPT ![q] = "live"] /\ lifeBar[q] = "unborn"
  BY DEF lifeBar
<1>5. IPC!Birth(q)
  BY <1>1, <1>2, <1>3, <1>4 DEF IPC!Birth
<1> QED
  BY <1>5 DEF IPC!RNext

-----------------------------------------------------------------------------
(* The branches of proc_send() and proc_recv().                            *)
IpcStep == IpcInv' /\ [IPC!RNext]_IPC!rvars

(* proc_send() and proc_recv() with no partner: the caller blocks, which   *)
(* the rendezvous does not see.                                            *)
LEMMA SendBlocks ==
  ASSUME Inv, IpcInv, Alive, msip, pid' = pid, msip' = FALSE,
         proc_nprocs' = proc_nprocs,
         sc_type[curr_pid] = "SYS_SEND",
         receiver_pid' = [receiver_pid EXCEPT ![proc_curr_idx] = StampedMsg.receiver],
         sc_msg' = [sc_msg EXCEPT ![curr_pid] = StampedMsg],
         sc_retval' = [sc_retval EXCEPT ![curr_pid] = 0],
         proc_yield([status EXCEPT ![proc_curr_idx] = "WAIT_TO_SEND"], SavedCtx)
  PROVE  IpcStep
<1> DEFINE st == [status EXCEPT ![proc_curr_idx] = "WAIT_TO_SEND"]
<1>1. /\ curr_pid \in Pids /\ curr_pid # 0 /\ curr_vm_pid = curr_pid
      /\ proc_curr_idx \in Slots /\ curr_pid = pid[proc_curr_idx]
  BY CurrentInUse DEF Inv, TypeOK, Pids, curr_pid
<1>2. YieldPost(st)
  BY SendStates, Yield DEF Inv
<1>3. \A i \in Slots : st[i] = IF i = proc_curr_idx THEN "WAIT_TO_SEND" ELSE status[i]
  BY DEF Inv, TypeOK
<1>4. \A i \in Slots : /\ status'[i] = "WAIT_TO_SEND" <=> st[i] = "WAIT_TO_SEND"
                       /\ status'[i] = "WAIT_TO_RECV" <=> st[i] = "WAIT_TO_RECV"
  BY <1>2 DEF YieldPost, Blocked
<1>5. \A i \in Slots : pid[i] = curr_pid <=> i = proc_curr_idx
  BY <1>1 DEF Inv, UniquePids
<1>6. \A p \in Pids : sc_msg'[p] = IF p = curr_pid THEN StampedMsg ELSE sc_msg[p]
  BY DEF Inv, TypeOK
<1>7. \A p \in Pids : sc_retval'[p] = IF p = curr_pid THEN 0 ELSE sc_retval[p]
  BY DEF Inv, TypeOK
<1>8. \A i \in Slots : status[i] \in Waiting => pid[i] \in Pids
  BY DEF Inv, TypeOK, UsedHavePid, Waiting, Pids
<1>9. \A i \in Slots : receiver_pid'[i] = IF i = proc_curr_idx
                        THEN StampedMsg.receiver ELSE receiver_pid[i]
  BY DEF Inv, TypeOK
<1>10. IpcInv'
  <2>1. WaitersClean'
    BY <1>1, <1>3, <1>4, <1>5, <1>7, <1>8 DEF WaitersClean, IpcInv, Waiting
  <2>2. SendersStamped'
    BY <1>1, <1>3, <1>4, <1>5, <1>6, <1>8, <1>9
    DEF SendersStamped, IpcInv, Waiting, StampedMsg
  <2>3. PostedReceiver'
    BY DEF PostedReceiver
  <2> QED
    BY <2>1, <2>2, <2>3 DEF IpcInv
<1>11. \A p \in Pids : CallOf(p)' = WaitOf(st, p)
  BY <1>2, CallAfterYield
<1>12. WaitOf(st, curr_pid) = "send" /\ CallOf(curr_pid) = "send"
  BY <1>1, <1>3, WaitOfSlot, CallNow
<1>13. \A p \in Pids : p # curr_pid => WaitOf(st, p) = WaitOf(status, p)
  BY <1>1, <1>3, <1>5 DEF WaitOf
<1>14. \A p \in Pids : CallOf(p)' = CallOf(p)
  BY <1>11, <1>12, <1>13, CallNow
<1>15. \A p \in Pids : BoxOf(p)' = BoxOf(p)
  BY <1>1, <1>6, <1>12, <1>14 DEF BoxOf, StampedMsg
<1>16. \A p \in Pids : RefusedP(p)' <=> RefusedP(p)
  BY <1>7, <1>12, <1>14 DEF RefusedP
<1>17. \A p \in Pids : LifeOf(p)' = LifeOf(p)
  <2>1. \A i \in Slots : st[i] = "UNUSED" <=> status[i] = "UNUSED"
    BY <1>1, <1>3, CurrentInUse
  <2> HIDE DEF st
  <2> QED
    BY <1>2, <2>1, LifeAfterYield
<1>18. UNCHANGED IPC!rvars
  BY <1>14, <1>15, <1>16, <1>17, Stutters
<1> QED
  BY <1>10, <1>18 DEF IpcStep

(* proc_recv() without a sender changes nothing that Rendezvous sees.      *)
LEMMA RecvBlocks ==
  ASSUME Inv, IpcInv, Alive, msip, pid' = pid, msip' = FALSE,
         proc_nprocs' = proc_nprocs,
         sc_type[curr_pid] # "SYS_SEND",
         receiver_pid' = receiver_pid, sc_msg' = sc_msg,
         sc_retval' = [sc_retval EXCEPT ![curr_pid] = 0],
         proc_yield([status EXCEPT ![proc_curr_idx] = "WAIT_TO_RECV"], SavedCtx)
  PROVE  IpcStep
<1> DEFINE st == [status EXCEPT ![proc_curr_idx] = "WAIT_TO_RECV"]
<1>1. /\ curr_pid \in Pids /\ curr_pid # 0
      /\ proc_curr_idx \in Slots /\ curr_pid = pid[proc_curr_idx]
  BY CurrentInUse DEF Inv, TypeOK, Pids, curr_pid
<1>2. YieldPost(st)
  BY RecvStates, Yield DEF Inv
<1>3. \A i \in Slots : st[i] = IF i = proc_curr_idx THEN "WAIT_TO_RECV" ELSE status[i]
  BY DEF Inv, TypeOK
<1>4. \A i \in Slots : /\ status'[i] = "WAIT_TO_SEND" <=> st[i] = "WAIT_TO_SEND"
                       /\ status'[i] = "WAIT_TO_RECV" <=> st[i] = "WAIT_TO_RECV"
  BY <1>2 DEF YieldPost, Blocked
<1>5. \A i \in Slots : pid[i] = curr_pid <=> i = proc_curr_idx
  BY <1>1 DEF Inv, UniquePids
<1>6. \A p \in Pids : sc_retval'[p] = IF p = curr_pid THEN 0 ELSE sc_retval[p]
  BY DEF Inv, TypeOK
<1>7. \A i \in Slots : status[i] \in Waiting => pid[i] \in Pids
  BY DEF Inv, TypeOK, UsedHavePid, Waiting, Pids
<1>8. IpcInv'
  <2>1. WaitersClean'
    BY <1>1, <1>3, <1>4, <1>5, <1>6, <1>7 DEF WaitersClean, IpcInv, Waiting
  <2>2. SendersStamped'
    BY <1>3, <1>4 DEF SendersStamped, IpcInv
  <2>3. PostedReceiver'
    BY DEF PostedReceiver
  <2> QED
    BY <2>1, <2>2, <2>3 DEF IpcInv
<1>9. \A p \in Pids : CallOf(p)' = WaitOf(st, p)
  BY <1>2, CallAfterYield
<1>10. WaitOf(st, curr_pid) = "recv" /\ CallOf(curr_pid) = "recv"
  <2>1. CallOf(curr_pid) = "recv"
    BY CallNow
  <2>2. st[proc_curr_idx] = "WAIT_TO_RECV"
    BY <1>1, <1>3
  <2> HIDE DEF st
  <2>3. WaitOf(st, curr_pid) = "recv"
    BY <1>1, <2>2, WaitOfSlot
  <2> QED
    BY <2>1, <2>3
<1>11. \A p \in Pids : p # curr_pid => WaitOf(st, p) = WaitOf(status, p)
  BY <1>1, <1>3, <1>5 DEF WaitOf
<1>12. \A p \in Pids : CallOf(p)' = CallOf(p)
  BY <1>9, <1>10, <1>11, CallNow
<1>13. \A p \in Pids : BoxOf(p)' = BoxOf(p)
  BY <1>12 DEF BoxOf
<1>14. \A p \in Pids : RefusedP(p)' <=> RefusedP(p)
  BY <1>6, <1>10, <1>12 DEF RefusedP
<1>15. \A p \in Pids : LifeOf(p)' = LifeOf(p)
  <2>1. \A i \in Slots : st[i] = "UNUSED" <=> status[i] = "UNUSED"
    BY <1>1, <1>3, CurrentInUse
  <2> HIDE DEF st
  <2> QED
    BY <1>2, <2>1, LifeAfterYield
<1>16. UNCHANGED IPC!rvars
  BY <1>12, <1>13, <1>14, <1>15, Stutters
<1> QED
  BY <1>8, <1>16 DEF IpcStep

(* A waiting partner: the message is handed over.  Here s sends from slot  *)
(* a and r receives in slot b; one of them is current, the other waits.    *)
LEMMA SendHandsOver ==
  ASSUME Inv, IpcInv, Alive, msip, pid' = pid, msip' = FALSE,
         proc_nprocs' = proc_nprocs,
         sc_type[curr_pid] = "SYS_SEND",
         NEW b \in Slots, pid[b] = StampedMsg.receiver,
         status[b] = "WAIT_TO_RECV", receiver_pid' = receiver_pid,
         \A p \in Pids : sc_msg'[p] = IF p \in {curr_pid, pid[b]}
                                      THEN StampedMsg ELSE sc_msg[p],
         sc_retval' = [sc_retval EXCEPT ![curr_pid] = 0],
         proc_yield(proc_set_status(status, pid[b], "RUNNABLE"), SavedCtx)
  PROVE  IpcStep
<1> DEFINE st == proc_set_status(status, pid[b], "RUNNABLE")
           r == pid[b]
<1>1. /\ curr_pid \in Pids /\ curr_pid # 0 /\ curr_vm_pid = curr_pid
      /\ proc_curr_idx \in Slots /\ curr_pid = pid[proc_curr_idx]
      /\ status[proc_curr_idx] = "RUNNING"
  BY CurrentInUse DEF Inv, TypeOK, Pids, curr_pid
<1>2. \A i \in Slots : status[i] \in Waiting => pid[i] \in Pids /\ pid[i] # 0
  BY DEF Inv, TypeOK, UsedHavePid, Waiting, Pids
<1>3. r \in Pids /\ r # 0 /\ b # proc_curr_idx /\ r # curr_pid
  BY <1>1, <1>2 DEF Inv, UniquePids, Waiting
<1>4. YieldPost(st)
  BY WakeStates, Yield DEF Inv
<1>5. \A i \in Slots : st[i] = IF i = b THEN "RUNNABLE" ELSE status[i]
  BY WakeStates
<1> HIDE DEF st
<1>6. \A i \in Slots : /\ status'[i] = "WAIT_TO_SEND" <=> st[i] = "WAIT_TO_SEND"
                       /\ status'[i] = "WAIT_TO_RECV" <=> st[i] = "WAIT_TO_RECV"
  BY <1>4 DEF YieldPost, Blocked
<1>7. \A i \in Slots : /\ pid[i] = curr_pid <=> i = proc_curr_idx
                       /\ pid[i] = r <=> i = b
  BY <1>1, <1>3 DEF Inv, UniquePids
<1>8. \A p \in Pids : sc_msg'[p] = IF p \in {curr_pid, r} THEN StampedMsg
                                                          ELSE sc_msg[p]
  OBVIOUS
<1>9. \A p \in Pids : sc_retval'[p] = IF p = curr_pid THEN 0 ELSE sc_retval[p]
  BY DEF Inv, TypeOK
<1>10. IpcInv'
  <2>1. WaitersClean'
    BY <1>1, <1>2, <1>5, <1>6, <1>7, <1>9 DEF WaitersClean, IpcInv, Waiting
  <2>2. SendersStamped'
    <3>1. \A i \in Slots : status'[i] = "WAIT_TO_SEND" =>
                             status[i] = "WAIT_TO_SEND" /\ sc_msg'[pid[i]] = sc_msg[pid[i]]
      BY <1>1, <1>2, <1>5, <1>6, <1>7, <1>8 DEF Waiting
    <3> QED
      BY <3>1 DEF SendersStamped, IpcInv
  <2>3. PostedReceiver'
    BY DEF PostedReceiver
  <2> QED
    BY <2>1, <2>2, <2>3 DEF IpcInv
<1>11. \A p \in Pids : CallOf(p)' = WaitOf(st, p)
  BY <1>4, CallAfterYield
<1>12. CallOf(curr_pid) = "send"
  BY CallNow
<1>13. CallOf(r) = "recv"
  BY <1>3, CallNow, WaitOfSlot
<1>14. WaitOf(st, curr_pid) = "none" /\ WaitOf(st, r) = "none"
  <2>1. st[proc_curr_idx] = "RUNNING" /\ st[b] = "RUNNABLE"
    BY <1>1, <1>3, <1>5
  <2> QED
    BY <1>1, <1>3, <2>1, WaitOfSlot
<1>15. \A p \in Pids : p \notin {curr_pid, r} => WaitOf(st, p) = WaitOf(status, p)
  BY <1>5, <1>7 DEF WaitOf
<1>16. \A p \in Pids : CallOf(p)' = IF p \in {curr_pid, r} THEN "none" ELSE CallOf(p)
  BY <1>1, <1>3, <1>11, <1>14, <1>15, CallNow
<1>17. BoxOf(curr_pid) = StampedMsg
  BY <1>1, <1>12 DEF BoxOf, StampedMsg
<1>18. \A p \in Pids : BoxOf(p)' = IF p = r THEN BoxOf(curr_pid) ELSE BoxOf(p)
  BY <1>1, <1>3, <1>8, <1>16, <1>17 DEF BoxOf
<1>19. \A p \in Pids : RefusedP(p)' <=> RefusedP(p)
  <2>1. sc_retval[r] = 0
    BY DEF IpcInv, WaitersClean, Waiting
  <2> QED
    BY <1>9, <1>12, <1>13, <1>16, <2>1 DEF RefusedP
<1>20. \A p \in Pids : LifeOf(p)' = LifeOf(p)
  <2>1. \A i \in Slots : st[i] = "UNUSED" <=> status[i] = "UNUSED"
    BY <1>5
  <2> QED
    BY <1>4, <2>1, LifeAfterYield
<1>21. IPC!RNext
  BY <1>1, <1>3, <1>12, <1>13, <1>16, <1>17, <1>18, <1>19, <1>20, HandsOver
<1> QED
  BY <1>10, <1>21 DEF IpcStep

(* proc_recv() with a sender is a hand-over.                               *)
LEMMA RecvHandsOver ==
  ASSUME Inv, IpcInv, Alive, msip, pid' = pid, msip' = FALSE,
         proc_nprocs' = proc_nprocs,
         sc_type[curr_pid] # "SYS_SEND",
         NEW a \in Slots, receiver_pid[a] = curr_pid,
         status[a] = "WAIT_TO_SEND", receiver_pid' = receiver_pid,
         sc_msg' = [sc_msg EXCEPT ![curr_pid] = sc_msg[pid[a]]],
         sc_retval' = [sc_retval EXCEPT ![curr_pid] = 0],
         proc_yield(proc_set_status(status, pid[a], "RUNNABLE"), SavedCtx)
  PROVE  IpcStep
<1> DEFINE st == proc_set_status(status, pid[a], "RUNNABLE")
           s == pid[a]
<1>1. /\ curr_pid \in Pids /\ curr_pid # 0
      /\ proc_curr_idx \in Slots /\ curr_pid = pid[proc_curr_idx]
      /\ status[proc_curr_idx] = "RUNNING"
  BY CurrentInUse DEF Inv, TypeOK, Pids, curr_pid
<1>2. \A i \in Slots : status[i] \in Waiting => pid[i] \in Pids /\ pid[i] # 0
  BY DEF Inv, TypeOK, UsedHavePid, Waiting, Pids
<1>3. s \in Pids /\ s # 0 /\ a # proc_curr_idx /\ s # curr_pid
  BY <1>1, <1>2 DEF Inv, UniquePids, Waiting
<1>4. YieldPost(st)
  BY WakeStates, Yield DEF Inv
<1>5. \A i \in Slots : st[i] = IF i = a THEN "RUNNABLE" ELSE status[i]
  BY WakeStates
<1> HIDE DEF st
<1>6. \A i \in Slots : /\ status'[i] = "WAIT_TO_SEND" <=> st[i] = "WAIT_TO_SEND"
                       /\ status'[i] = "WAIT_TO_RECV" <=> st[i] = "WAIT_TO_RECV"
  BY <1>4 DEF YieldPost, Blocked
<1>7. \A i \in Slots : /\ pid[i] = curr_pid <=> i = proc_curr_idx
                       /\ pid[i] = s <=> i = a
  BY <1>1, <1>3 DEF Inv, UniquePids
<1>8. \A p \in Pids : sc_msg'[p] = IF p = curr_pid THEN sc_msg[s] ELSE sc_msg[p]
  BY DEF Inv, TypeOK
<1>9. \A p \in Pids : sc_retval'[p] = IF p = curr_pid THEN 0 ELSE sc_retval[p]
  BY DEF Inv, TypeOK
<1>10. IpcInv'
  <2>1. WaitersClean'
    BY <1>1, <1>2, <1>5, <1>6, <1>7, <1>9 DEF WaitersClean, IpcInv, Waiting
  <2>2. SendersStamped'
    BY <1>1, <1>2, <1>5, <1>6, <1>7, <1>8 DEF SendersStamped, IpcInv, Waiting
  <2>3. PostedReceiver'
    BY DEF PostedReceiver
  <2> QED
    BY <2>1, <2>2, <2>3 DEF IpcInv
<1>11. \A p \in Pids : CallOf(p)' = WaitOf(st, p)
  BY <1>4, CallAfterYield
<1>12. CallOf(curr_pid) = "recv"
  BY CallNow
<1>13. CallOf(s) = "send"
  BY <1>3, CallNow, WaitOfSlot
<1>14. WaitOf(st, curr_pid) = "none" /\ WaitOf(st, s) = "none"
  <2>1. st[proc_curr_idx] = "RUNNING" /\ st[a] = "RUNNABLE"
    BY <1>1, <1>3, <1>5
  <2> QED
    BY <1>1, <1>3, <2>1, WaitOfSlot
<1>15. \A p \in Pids : p \notin {curr_pid, s} => WaitOf(st, p) = WaitOf(status, p)
  BY <1>5, <1>7 DEF WaitOf
<1>16. \A p \in Pids : CallOf(p)' = IF p \in {s, curr_pid} THEN "none" ELSE CallOf(p)
  BY <1>1, <1>3, <1>11, <1>14, <1>15, CallNow
<1>17. BoxOf(s) = sc_msg[s] /\ BoxOf(s).receiver = curr_pid
  BY <1>3, <1>13 DEF BoxOf, IpcInv, SendersStamped, Inv, TypeOK, Msg
<1>18. \A p \in Pids : BoxOf(p)' = IF p = curr_pid THEN BoxOf(s) ELSE BoxOf(p)
  BY <1>1, <1>3, <1>8, <1>16, <1>17 DEF BoxOf
<1>19. \A p \in Pids : RefusedP(p)' <=> RefusedP(p)
  <2>1. sc_retval[s] = 0
    BY DEF IpcInv, WaitersClean, Waiting
  <2> QED
    BY <1>9, <1>12, <1>13, <1>16, <2>1 DEF RefusedP
<1>20. \A p \in Pids : LifeOf(p)' = LifeOf(p)
  <2>1. \A i \in Slots : st[i] = "UNUSED" <=> status[i] = "UNUSED"
    BY <1>5
  <2> QED
    BY <1>4, <2>1, LifeAfterYield
<1>21. IPC!RNext
  BY <1>1, <1>3, <1>12, <1>13, <1>16, <1>17, <1>18, <1>19, <1>20, HandsOver
<1> QED
  BY <1>10, <1>21 DEF IpcStep

(* No slot carries the receiver's pid: the send fails and is forgotten.    *)
LEMMA SendRefused ==
  ASSUME Inv, IpcInv, Alive, msip, pid' = pid, msip' = FALSE,
         proc_nprocs' = proc_nprocs,
         sc_type[curr_pid] = "SYS_SEND",
         \A i \in Slots : pid[i] # StampedMsg.receiver,
         sc_msg' = [sc_msg EXCEPT ![curr_pid] = StampedMsg],
         sc_retval' = [sc_retval EXCEPT ![curr_pid] = -1],
         status' = status, receiver_pid' = receiver_pid
  PROVE  IpcStep
<1> DEFINE r == StampedMsg.receiver
<1>1. /\ curr_pid \in Pids /\ curr_pid # 0 /\ curr_vm_pid = curr_pid
      /\ proc_curr_idx \in Slots /\ curr_pid = pid[proc_curr_idx]
      /\ status[proc_curr_idx] = "RUNNING"
  BY CurrentInUse DEF Inv, TypeOK, Pids, curr_pid
<1>2. \A i \in Slots : status[i] \in Waiting => pid[i] \in Pids /\ pid[i] # curr_pid
  BY <1>1 DEF Inv, TypeOK, UsedHavePid, UniquePids, Waiting, Pids
<1>3. r \in Pids
  BY <1>1 DEF StampedMsg, IpcInv, PostedReceiver
<1>4. \A p \in Pids : sc_msg'[p] = IF p = curr_pid THEN StampedMsg ELSE sc_msg[p]
  BY DEF Inv, TypeOK
<1>5. \A p \in Pids : sc_retval'[p] = IF p = curr_pid THEN -1 ELSE sc_retval[p]
  BY DEF Inv, TypeOK
<1>6. IpcInv'
  <2>1. WaitersClean'
    BY <1>2, <1>5 DEF WaitersClean, IpcInv
  <2>2. SendersStamped'
    <3>1. \A i \in Slots : status'[i] = "WAIT_TO_SEND" =>
            status[i] = "WAIT_TO_SEND" /\ sc_msg'[pid[i]] = sc_msg[pid[i]]
      BY <1>2, <1>4 DEF Waiting
    <3> QED
      BY <3>1 DEF SendersStamped, IpcInv
  <2>3. PostedReceiver'
    BY DEF PostedReceiver
  <2> QED
    BY <2>1, <2>2, <2>3 DEF IpcInv
<1>7. CallOf(curr_pid) = "send"
  BY CallNow
<1>8. \A p \in Pids : CallOf(p)' = WaitOf(status, p)
  BY DEF CallOf, WaitOf
<1>9. WaitOf(status, curr_pid) = "none"
  BY <1>1, WaitOfSlot
<1>10. \A p \in Pids : CallOf(p)' = IF p = curr_pid THEN "none" ELSE CallOf(p)
  BY <1>8, <1>9, CallNow
<1>11. LifeOf(r) # "live"
  BY DEF LifeOf
<1>12. \A p \in Pids : LifeOf(p)' = LifeOf(p)
  BY LifeKept
<1>13. BoxOf(curr_pid) = StampedMsg
  BY <1>1, <1>7 DEF BoxOf, StampedMsg
<1>14. \A p \in Pids : BoxOf(p)' = BoxOf(p)
  BY <1>1, <1>4, <1>10, <1>13 DEF BoxOf
<1>15. \A p \in Pids : RefusedP(p)' <=> RefusedP(p) \/ p = curr_pid
  BY <1>5, <1>10 DEF RefusedP
<1>16. IPC!RNext
  BY <1>1, <1>3, <1>7, <1>10, <1>11, <1>12, <1>13, <1>14, <1>15, Refuses
<1> QED
  BY <1>6, <1>16 DEF IpcStep

(* The software interrupt is a step of Rendezvous.                         *)
LEMMA SoftIntrSim ==
  ASSUME Inv, IpcInv, SoftIntr PROVE IpcStep
<1>1. /\ Alive /\ msip /\ pid' = pid /\ msip' = FALSE
      /\ proc_nprocs' = proc_nprocs
      /\ curr_vm_pid = curr_pid /\ curr_pid \in Pids
  BY CurrentInUse DEF SoftIntr, proc_syscall, SyscallType
<1>2. CASE sc_type[curr_pid] = "SYS_RECV" /\ proc_recv
  <2>1. /\ sc_retval' = [sc_retval EXCEPT ![curr_pid] = 0]
        /\ receiver_pid' = receiver_pid
        /\ sc_type[curr_pid] # "SYS_SEND"
    BY <1>1, <1>2 DEF proc_recv
  <2>2. CASE /\ proc_yield([status EXCEPT ![proc_curr_idx] = "WAIT_TO_RECV"],
                           SavedCtx)
             /\ UNCHANGED sc_msg
    BY <1>1, <2>1, <2>2, RecvBlocks
  <2>3. ASSUME NEW i \in Slots, WaitsForCurrent(i),
               sc_msg' = [sc_msg EXCEPT ![curr_pid] = sc_msg[pid[i]]],
               proc_yield(proc_set_status(status, pid[i], "RUNNABLE"), SavedCtx)
        PROVE  IpcStep
    BY <1>1, <2>1, <2>3, RecvHandsOver DEF WaitsForCurrent
  <2> QED
    BY <1>2, <2>2, <2>3 DEF proc_recv
<1>3. CASE sc_type[curr_pid] = "SYS_SEND" /\ proc_send
  <2> DEFINE sent == [sc_msg EXCEPT ![curr_pid] = StampedMsg]
             r == StampedMsg.receiver
  <2>1. CASE /\ receiver_pid' = [receiver_pid EXCEPT ![proc_curr_idx] = r]
             /\ sc_msg' = sent
             /\ sc_retval' = [sc_retval EXCEPT ![curr_pid] = 0]
             /\ proc_yield([status EXCEPT ![proc_curr_idx] = "WAIT_TO_SEND"],
                           SavedCtx)
    BY <1>1, <1>3, <2>1, SendBlocks
  <2>2. ASSUME NEW i \in Slots, pid[i] = r, status[i] = "WAIT_TO_RECV",
               sc_msg' = [sent EXCEPT ![r] = sent[curr_pid]],
               sc_retval' = [sc_retval EXCEPT ![curr_pid] = 0],
               proc_yield(proc_set_status(status, r, "RUNNABLE"), SavedCtx),
               UNCHANGED receiver_pid
        PROVE  IpcStep
    <3>1. \A p \in Pids : sc_msg'[p] = IF p \in {curr_pid, pid[i]}
                                       THEN StampedMsg ELSE sc_msg[p]
      BY <1>1, <2>2 DEF Inv, TypeOK
    <3> QED
      BY <1>1, <1>3, <2>2, <3>1, SendHandsOver
  <2>3. CASE /\ \A i \in Slots : pid[i] # r
             /\ sc_msg' = sent
             /\ sc_retval' = [sc_retval EXCEPT ![curr_pid] = -1]
             /\ UNCHANGED <<status, receiver_pid>>
    BY <1>1, <1>3, <2>3, SendRefused
  <2> QED
    BY <1>1, <1>3, <2>1, <2>2, <2>3 DEF proc_send, ReceiverSlot
<1> QED
  BY <1>1, <1>2, <1>3 DEF SoftIntr, proc_syscall, SyscallType, Inv, RequestPosted

-----------------------------------------------------------------------------
(* The other steps.  A step that blocks and wakes nobody and writes to no  *)
(* message buffer changes no call.                                         *)
LEMMA QuietStep ==
  ASSUME Inv, IpcInv, ~ msip, msip' = FALSE,
         UNCHANGED <<sc_msg, sc_retval, receiver_pid>>,
         \A i \in Slots : \/ status[i] \notin Waiting /\ status'[i] \notin Waiting
                          \/ status'[i] = status[i] /\ pid'[i] = pid[i]
  PROVE  /\ IpcInv'
         /\ \A p \in Pids : CallOf(p)' = CallOf(p)
         /\ \A p \in Pids : BoxOf(p)' = BoxOf(p)
         /\ \A p \in Pids : RefusedP(p)' <=> RefusedP(p)
<1>1. IpcInv'
  <2>1. WaitersClean'
    BY DEF WaitersClean, IpcInv
  <2>2. SendersStamped'
    BY DEF SendersStamped, IpcInv, Waiting
  <2>3. PostedReceiver'
    BY DEF PostedReceiver
  <2> QED
    BY <2>1, <2>2, <2>3 DEF IpcInv
<1>2. \A p \in Pids : CallOf(p)' = CallOf(p)
  BY DEF CallOf, Waiting
<1>3. \A p \in Pids : BoxOf(p)' = BoxOf(p)
  BY <1>2 DEF BoxOf
<1>4. \A p \in Pids : RefusedP(p)' <=> RefusedP(p)
  BY <1>2 DEF RefusedP
<1> QED
  BY <1>1, <1>2, <1>3, <1>4

(* A step that changes nothing the rendezvous depends on.                  *)
LEMMA SameStep ==
  ASSUME IpcInv, UNCHANGED <<pid, status, receiver_pid, proc_curr_idx,
                             proc_nprocs, curr_vm_pid, sc_type, sc_msg,
                             sc_retval, msip>>
  PROVE  IpcStep
<1>1. IpcInv'
  BY DEF IpcInv, WaitersClean, SendersStamped, PostedReceiver
<1>2. \A p \in Pids : CallOf(p)' = CallOf(p)
  BY DEF CallOf, curr_pid
<1>3. \A p \in Pids : BoxOf(p)' = BoxOf(p)
  BY <1>2 DEF BoxOf
<1>4. \A p \in Pids : RefusedP(p)' <=> RefusedP(p)
  BY <1>2 DEF RefusedP
<1>5. \A p \in Pids : LifeOf(p)' = LifeOf(p)
  BY LifeKept
<1>6. UNCHANGED IPC!rvars
  BY <1>2, <1>3, <1>4, <1>5, Stutters
<1> QED
  BY <1>1, <1>6 DEF IpcStep

(* The timer interrupt is a stuttering step of Rendezvous.                 *)
LEMMA TimerIntrSim ==
  ASSUME Inv, IpcInv, TimerIntr PROVE IpcStep
<1>1. /\ Alive /\ ~ msip /\ msip' = FALSE /\ pid' = pid
      /\ UNCHANGED <<sc_msg, sc_retval, receiver_pid, proc_nprocs>>
      /\ proc_yield(status, SavedCtx)
  BY DEF TimerIntr, InUser, scVars, Inv, TypeOK
<1>2. YieldPre(status, SavedCtx)
  BY <1>1, SavedCtxType DEF YieldPre, Inv, TypeOK, CurrentRuns, UsedHavePid
<1>3. YieldPost(status)
  BY <1>1, <1>2, Yield DEF Inv
<1>4. \A i \in Slots : \/ status[i] \notin Waiting /\ status'[i] \notin Waiting
                       \/ status'[i] = status[i] /\ pid'[i] = pid[i]
  BY <1>1, <1>3 DEF YieldPost, Blocked, Waiting
<1>5. \A p \in Pids : LifeOf(p)' = LifeOf(p)
  BY <1>1, <1>3, LifeAfterYield
<1>6. /\ IpcInv'
      /\ \A p \in Pids : CallOf(p)' = CallOf(p)
      /\ \A p \in Pids : BoxOf(p)' = BoxOf(p)
      /\ \A p \in Pids : RefusedP(p)' <=> RefusedP(p)
  BY <1>1, <1>4, QuietStep
<1> QED
  BY <1>5, <1>6, Stutters DEF IpcStep

(* The calls of the current process.                                       *)
LEMMA SysSendSim ==
  ASSUME Inv, IpcInv, NEW c \in Ctx, NEW r \in Pids, NEW m \in Content,
         sys_send(r, m, c)
  PROVE  IpcStep
<1>1. /\ Alive /\ ~ msip /\ msip' = TRUE
      /\ UNCHANGED <<pid, status, receiver_pid, proc_curr_idx, proc_nprocs,
                     curr_vm_pid, sc_retval>>
  BY DEF sys_send, InUser, procVars
<1>2. /\ curr_pid \in Pids /\ curr_pid # 0 /\ curr_vm_pid = curr_pid
      /\ proc_curr_idx \in Slots /\ curr_pid = pid[proc_curr_idx]
      /\ status[proc_curr_idx] = "RUNNING" /\ curr_pid' = curr_pid
  BY <1>1, CurrentInUse DEF Inv, TypeOK, Pids, curr_pid
<1>3. /\ sc_type'[curr_pid] = "SYS_SEND"
      /\ \A p \in Pids : p # curr_pid => sc_msg'[p] = sc_msg[p]
      /\ sc_msg'[curr_pid].receiver = r /\ sc_msg'[curr_pid].content = m
  BY <1>2 DEF sys_send, Inv, TypeOK
<1>4. \A i \in Slots : status[i] \in Waiting => pid[i] \in Pids /\ pid[i] # curr_pid
  BY <1>2 DEF Inv, TypeOK, UsedHavePid, UniquePids, Waiting, Pids
<1>5. IpcInv'
  <2>1. WaitersClean'
    BY <1>1 DEF WaitersClean, IpcInv
  <2>2. SendersStamped'
    BY <1>1, <1>3, <1>4 DEF SendersStamped, IpcInv, Waiting
  <2>3. PostedReceiver'
    BY <1>1, <1>2, <1>3 DEF PostedReceiver
  <2> QED
    BY <2>1, <2>2, <2>3 DEF IpcInv
<1>6. CallOf(curr_pid) = "none"
  BY <1>1, <1>2, CallIdle, WaitOfSlot
<1>7. CallOf(curr_pid)' = "send"
  <2>1. WaitOf(status, curr_pid) = "none"
    BY <1>2, WaitOfSlot
  <2> QED
    BY <1>1, <1>2, <1>3, <2>1 DEF CallOf, WaitOf
<1>8. \A p \in Pids : p # curr_pid => CallOf(p)' = CallOf(p)
  BY <1>1, <1>2 DEF CallOf
<1>9. callBar' = [callBar EXCEPT ![curr_pid] = "send"]
  BY <1>2, <1>7, <1>8 DEF callBar
<1>10. \A p \in Pids : BoxOf(p)' = IF p = curr_pid
                        THEN [sender |-> curr_pid, receiver |-> r, content |-> m]
                        ELSE BoxOf(p)
  BY <1>2, <1>3, <1>7, <1>8 DEF BoxOf
<1>11. boxBar' = [boxBar EXCEPT ![curr_pid] =
                    [sender |-> curr_pid, receiver |-> r, content |-> m]]
  BY <1>2, <1>10 DEF boxBar
<1>12. refusedBar' = refusedBar \ {curr_pid}
  BY <1>1, <1>2, <1>7, <1>8 DEF refusedBar
<1>13. lifeBar' = lifeBar /\ lifeBar[curr_pid] = "live"
  <2>1. \A p \in Pids : LifeOf(p)' = LifeOf(p)
    BY <1>1, LifeKept
  <2>2. LifeOf(curr_pid) = "live"
    BY <1>2, UsedIsLive
  <2> QED
    BY <1>2, <2>1, <2>2 DEF lifeBar
<1>14. IPC!Send(curr_pid, r, m)
  BY <1>2, <1>6, <1>9, <1>11, <1>12, <1>13 DEF IPC!Send, callBar
<1> QED
  BY <1>2, <1>5, <1>14 DEF IpcStep, IPC!RNext

(* sys_recv() begins a receive of Rendezvous.                              *)
LEMMA SysRecvSim ==
  ASSUME Inv, IpcInv, NEW c \in Ctx, sys_recv(c) PROVE IpcStep
<1>1. /\ Alive /\ ~ msip /\ msip' = TRUE
      /\ UNCHANGED <<pid, status, receiver_pid, proc_curr_idx, proc_nprocs,
                     curr_vm_pid, sc_msg, sc_retval>>
  BY DEF sys_recv, InUser, procVars
<1>2. /\ curr_pid \in Pids /\ curr_pid # 0 /\ curr_vm_pid = curr_pid
      /\ proc_curr_idx \in Slots /\ curr_pid = pid[proc_curr_idx]
      /\ status[proc_curr_idx] = "RUNNING" /\ curr_pid' = curr_pid
  BY <1>1, CurrentInUse DEF Inv, TypeOK, Pids, curr_pid
<1>3. sc_type'[curr_pid] = "SYS_RECV"
  BY <1>2 DEF sys_recv, Inv, TypeOK
<1>4. IpcInv'
  BY <1>1, <1>2, <1>3
  DEF IpcInv, WaitersClean, SendersStamped, PostedReceiver
<1>5. WaitOf(status, curr_pid) = "none"
  BY <1>2, WaitOfSlot
<1>6. CallOf(curr_pid) = "none"
  BY <1>1, <1>5, CallIdle
<1>7. CallOf(curr_pid)' = "recv"
  BY <1>1, <1>2, <1>3, <1>5 DEF CallOf, WaitOf
<1>8. \A p \in Pids : p # curr_pid => CallOf(p)' = CallOf(p)
  BY <1>1, <1>2 DEF CallOf
<1>9. callBar' = [callBar EXCEPT ![curr_pid] = "recv"]
  BY <1>2, <1>7, <1>8 DEF callBar
<1>10. \A p \in Pids : BoxOf(p)' = BoxOf(p)
  BY <1>1, <1>2, <1>6, <1>7, <1>8 DEF BoxOf
<1>11. boxBar' = boxBar
  BY <1>10 DEF boxBar
<1>12. refusedBar' = refusedBar \ {curr_pid}
  BY <1>1, <1>2, <1>7, <1>8 DEF refusedBar
<1>13. lifeBar' = lifeBar /\ lifeBar[curr_pid] = "live"
  <2>1. \A p \in Pids : LifeOf(p)' = LifeOf(p)
    BY <1>1, LifeKept
  <2>2. LifeOf(curr_pid) = "live"
    BY <1>2, UsedIsLive
  <2> QED
    BY <1>2, <2>1, <2>2 DEF lifeBar
<1>14. IPC!Recv(curr_pid)
  BY <1>2, <1>6, <1>9, <1>11, <1>12, <1>13 DEF IPC!Recv, callBar
<1> QED
  BY <1>2, <1>4, <1>14 DEF IpcStep, IPC!RNext

(* proc_free() frees processes with the calls they wait in; those that do  *)
(* not exist any more it leaves as they are.                               *)
LEMMA FreeSim ==
  ASSUME Inv, IpcInv, ~ msip, msip' = FALSE, NEW S \in SUBSET Pids,
         UNCHANGED <<pid, proc_nprocs, sc_msg, sc_retval, receiver_pid>>,
         \A i \in Slots : status'[i] = IF pid[i] \in S THEN "UNUSED" ELSE status[i]
  PROVE  IpcStep
<1>1. IpcInv'
  <2>1. WaitersClean'
    BY DEF WaitersClean, IpcInv, Waiting
  <2>2. SendersStamped'
    BY DEF SendersStamped, IpcInv
  <2>3. PostedReceiver'
    BY DEF PostedReceiver
  <2> QED
    BY <2>1, <2>2, <2>3 DEF IpcInv
<1>2. \A p \in Pids : CallOf(p)' = IF p \in S THEN "none" ELSE CallOf(p)
  BY DEF CallOf
<1>3. \A p \in Pids : CallOf(p) = "send" => sc_msg[p].sender = p
  BY DEF CallOf, IpcInv, SendersStamped
<1>4. \A p \in Pids : BoxOf(p)' = BoxOf(p)
  BY <1>2, <1>3 DEF BoxOf, Inv, TypeOK, Msg
<1>5. \A p \in Pids : CallOf(p) # "none" => sc_retval[p] = 0
  BY DEF CallOf, IpcInv, WaitersClean, Waiting
<1>6. \A p \in Pids : RefusedP(p)' <=> RefusedP(p)
  BY <1>2, <1>5 DEF RefusedP
<1> DEFINE F == {p \in S : LifeOf(p) = "live"}
<1>7. \A p \in Pids : CallOf(p) # "none" => LifeOf(p) = "live"
  <2>1. \A p \in Pids : CallOf(p) # "none" =>
                           \E i \in Slots : pid[i] = p /\ status[i] # "UNUSED"
    BY DEF CallOf
  <2> QED
    BY <2>1, UsedIsLive
<1>8. \A p \in Pids : CallOf(p)' = IF p \in F THEN "none" ELSE CallOf(p)
  BY <1>2, <1>7
<1>9. \A p \in Pids : LifeOf(p)' = IF p \in F THEN "freed" ELSE LifeOf(p)
  <2>1. ASSUME NEW p \in Pids, p \notin S PROVE LifeOf(p)' = LifeOf(p)
    BY <2>1 DEF LifeOf
  <2>2. ASSUME NEW p \in S
        PROVE  LifeOf(p)' = IF LifeOf(p) = "live" THEN "freed" ELSE LifeOf(p)
    BY <2>2 DEF LifeOf
  <2> QED
    BY <2>1, <2>2
<1>10. F \in SUBSET Pids /\ \A p \in F : LifeOf(p) = "live"
  OBVIOUS
<1> HIDE DEF F
<1>11. IPC!RNext
  BY <1>4, <1>6, <1>8, <1>9, <1>10, Frees
<1> QED
  BY <1>1, <1>11 DEF IpcStep

(* proc_free(), of one process or of all users, frees in Rendezvous.       *)
LEMMA ProcFreeSim ==
  ASSUME Inv, IpcInv, NEW c \in Ctx, NEW p \in Pids,
         proc_free(p, c) \/ proc_free_all(c)
  PROVE  IpcStep
<1>1. /\ ~ msip /\ msip' = FALSE
      /\ UNCHANGED <<pid, proc_nprocs, sc_msg, sc_retval, receiver_pid>>
  BY DEF proc_free, proc_free_all, InUser, scVars, Inv, TypeOK
<1>2. CASE proc_free(p, c)
  <2>1. \A i \in Slots : status'[i] = IF pid[i] \in {p} THEN "UNUSED" ELSE status[i]
    BY <1>2 DEF proc_free, FreedStatus, proc_set_status
  <2> QED
    BY <1>1, <2>1, FreeSim
<1>3. CASE proc_free_all(c)
  <2> DEFINE S == {q \in Pids : q >= GPID_USER_START}
  <2>1. \A i \in Slots : pid[i] \in S <=> pid[i] >= GPID_USER_START
    BY KernelAssumption DEF Inv, TypeOK, Pids
  <2>2. \A i \in Slots : status'[i] = IF pid[i] \in S THEN "UNUSED" ELSE status[i]
    BY <1>3, <2>1 DEF proc_free_all, IsUser
  <2> QED
    BY <1>1, <2>2, FreeSim
<1> QED
  BY <1>2, <1>3

(* proc_alloc() is a birth of Rendezvous, or stutters in its FATAL.        *)
LEMMA ProcAllocSim ==
  ASSUME Inv, IpcInv, NEW c \in Ctx, proc_alloc(c)
  PROVE  IpcStep
<1>1. /\ ~ msip /\ msip' = FALSE
      /\ UNCHANGED <<sc_msg, sc_retval, receiver_pid>>
  BY DEF proc_alloc, InUser, scVars, Inv, TypeOK
<1>2. \A i \in Slots : \/ status[i] \notin Waiting /\ status'[i] \notin Waiting
                       \/ status'[i] = status[i] /\ pid'[i] = pid[i]
  BY DEF proc_alloc, Waiting, Inv, TypeOK
<1>3. /\ IpcInv'
      /\ \A p \in Pids : CallOf(p)' = CallOf(p)
      /\ \A p \in Pids : BoxOf(p)' = BoxOf(p)
      /\ \A p \in Pids : RefusedP(p)' <=> RefusedP(p)
  BY <1>1, <1>2, QuietStep
<1>4. CASE UNCHANGED <<pid, status, proc_nprocs>>
  BY <1>3, <1>4, LifeKept, Stutters DEF IpcStep
<1>5. ASSUME NEW i \in Slots, status[i] = "UNUSED",
             pid' = [pid EXCEPT ![i] = NewPid],
             status' = [status EXCEPT ![i] = "LOADING"],
             proc_nprocs' = NewPid, proc_nprocs < MaxPid
      PROVE  IpcStep
  <2>1. PICK q \in Pids : q = proc_nprocs + 1
    BY <1>5, KernelAssumption DEF Inv, TypeOK, Pids
  <2>2. \A j \in Slots : /\ pid'[j] = IF j = i THEN q ELSE pid[j]
                         /\ status'[j] = IF j = i THEN "LOADING" ELSE status[j]
    BY <1>5, <2>1 DEF NewPid, Inv, TypeOK
  <2>3. LifeOf(q) = "unborn"
    BY <2>1 DEF LifeOf, Inv, TypeOK, Pids
  <2>4. LifeOf(q)' = "live"
    <3>1. ~ q > proc_nprocs'
      BY <1>5, <2>1 DEF NewPid, Pids
    <3> QED
      BY <2>2, <3>1 DEF LifeOf
  <2>5. \A p \in Pids : p # q => (p > proc_nprocs' <=> p > proc_nprocs)
    BY <1>5, <2>1 DEF NewPid, Inv, TypeOK, Pids
  <2>6. \A p \in Pids : p # q =>
          ((\E j \in Slots : pid'[j] = p /\ status'[j] # "UNUSED")
           <=> (\E j \in Slots : pid[j] = p /\ status[j] # "UNUSED"))
    BY <1>5, <2>1, <2>2
  <2>7. \A p \in Pids : p # q => LifeOf(p)' = LifeOf(p)
    BY <2>5, <2>6 DEF LifeOf
  <2>8. IPC!RNext
    BY <1>3, <2>3, <2>4, <2>7, Births
  <2> QED
    BY <1>3, <2>8 DEF IpcStep
<1> QED
  BY <1>4, <1>5 DEF proc_alloc

(* proc_set_ready() is a stuttering step of Rendezvous.                    *)
LEMMA SetReadySim ==
  ASSUME Inv, IpcInv, NEW c \in Ctx, NEW p \in Pids, proc_set_ready(p, c)
  PROVE  IpcStep
<1>1. /\ ~ msip /\ msip' = FALSE
      /\ UNCHANGED <<pid, proc_nprocs, sc_msg, sc_retval, receiver_pid>>
  BY DEF proc_set_ready, InUser, scVars, Inv, TypeOK
<1>2. PICK j \in Slots : pid[j] = p /\ status[j] = "LOADING"
  BY DEF proc_set_ready
<1>3. \A i \in Slots : pid[i] = p => i = j
  BY <1>2 DEF Inv, UniquePids, Pids
<1>4. \A i \in Slots : status'[i] = IF i = j THEN "READY" ELSE status[i]
  BY <1>2, <1>3 DEF proc_set_ready, proc_set_status
<1>5. \A i \in Slots : \/ status[i] \notin Waiting /\ status'[i] \notin Waiting
                       \/ status'[i] = status[i] /\ pid'[i] = pid[i]
  BY <1>1, <1>2, <1>4 DEF Waiting
<1>6. \A q \in Pids : LifeOf(q)' = LifeOf(q)
  BY <1>1, <1>2, <1>4, LifeKept
<1>7. /\ IpcInv'
      /\ \A q \in Pids : CallOf(q)' = CallOf(q)
      /\ \A q \in Pids : BoxOf(q)' = BoxOf(q)
      /\ \A q \in Pids : RefusedP(q)' <=> RefusedP(q)
  BY <1>1, <1>5, QuietStep
<1> QED
  BY <1>6, <1>7, Stutters DEF IpcStep

(* Every step of the kernel is a step of Rendezvous or stutters.           *)
LEMMA NextSim == Inv /\ IpcInv /\ [Next]_vars => IpcStep
<1> SUFFICES ASSUME Inv, IpcInv, [Next]_vars PROVE IpcStep
  OBVIOUS
<1>1. CASE SoftIntr
  BY <1>1, SoftIntrSim
<1>2. CASE TimerIntr
  BY <1>2, TimerIntrSim
<1>3. ASSUME \/ TimerIgnored \/ CtrlC \/ Exception \/ Hang \/ UNCHANGED vars
             \/ \E c \in Ctx : UserStep(c)
      PROVE  IpcStep
  <2>1. UNCHANGED <<pid, status, receiver_pid, proc_curr_idx, proc_nprocs,
                    curr_vm_pid, sc_type, sc_msg, sc_retval, msip>>
    BY <1>3 DEF TimerIgnored, CtrlC, Exception, Hang, vars, UserStep, procVars,
                scVars, ResumeCurrent
  <2> QED
    BY <2>1, SameStep
<1>4. ASSUME NEW c \in Ctx, NEW r \in Pids, NEW m \in Content, sys_send(r, m, c)
      PROVE  IpcStep
  BY <1>4, SysSendSim
<1>5. ASSUME NEW c \in Ctx, sys_recv(c) PROVE IpcStep
  BY <1>5, SysRecvSim
<1>6. ASSUME NEW c \in Ctx, NEW p \in Pids, proc_free(p, c) \/ proc_free_all(c)
      PROVE  IpcStep
  BY <1>6, ProcFreeSim
<1>7. ASSUME NEW c \in Ctx, proc_alloc(c) PROVE IpcStep
  BY <1>7, ProcAllocSim
<1>8. ASSUME NEW c \in Ctx, NEW p \in Pids, proc_set_ready(p, c) PROVE IpcStep
  BY <1>8, SetReadySim
<1>9. Pids # {}
  BY KernelAssumption DEF Pids
<1> QED
  BY <1>1, <1>2, <1>3, <1>4, <1>5, <1>6, <1>7, <1>8, <1>9 DEF Next

(* The initial states of the kernel are initial states of Rendezvous.      *)
LEMMA InitSim == Init => IpcInv /\ IPC!RInit
<1> SUFFICES ASSUME Init PROVE IpcInv /\ IPC!RInit
  OBVIOUS
<1>1. IpcInv
  BY DEF Init, IpcInv, WaitersClean, SendersStamped, PostedReceiver, Waiting
<1>2. \A p \in Pids : CallOf(p) = "none"
  BY DEF Init, CallOf
<1>3. callBar = [p \in Pids |-> "none"]
  BY <1>2 DEF callBar
<1>4. boxBar = [p \in Pids |->
                  [sender |-> 0, receiver |-> 0, content |-> NoContent]]
  BY <1>2 DEF boxBar, BoxOf, Init
<1>5. refusedBar = {}
  BY DEF refusedBar, Init
<1>6. \A p \in Pids : LifeOf(p) = IF p = GPID_PROCESS THEN "live" ELSE "unborn"
  BY KernelAssumption DEF Init, LifeOf, GPID_PROCESS, Pids, Slots
<1>7. lifeBar = [p \in Pids |-> IF p = GPID_PROCESS THEN "live" ELSE "unborn"]
  BY <1>6 DEF lifeBar
<1> QED
  BY <1>1, <1>3, <1>4, <1>5, <1>7 DEF IPC!RInit

(* The kernel's system calls implement synchronous message passing: for    *)
(* any table, pids and contents, a call ends in a hand-over, in a refusal  *)
(* for want of a receiver, or with its process, and in no other way.       *)
THEOREM KernelImplementsRendezvous == Spec => ImplementsRendezvous
<1>1. Inv /\ IpcInv /\ [Next]_vars => IpcInv' /\ [IPC!RNext]_IPC!rvars
  BY NextSim DEF IpcStep
<1> QED
  BY <1>1, InitSim, KernelInvariant, PTL DEF Spec, ImplementsRendezvous, IPC!RSpec
=============================================================================

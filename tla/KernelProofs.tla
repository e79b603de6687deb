---------------------------- MODULE KernelProofs ----------------------------
(***************************************************************************)
(* Proofs about Kernel, for any number of slots, pids, contents, contexts. *)
(***************************************************************************)
EXTENDS Kernel, TLAPS

(* A slot in use carries the pid of its process.                           *)
UsedHavePid == \A i \in Slots : status[i] # "UNUSED" => pid[i] # 0

(* No slot and no waiting sender mentions a pid not handed out yet.        *)
PidsAllocated ==
  \A i \in Slots :
    /\ pid[i] <= proc_nprocs
    /\ status[i] = "WAIT_TO_SEND" => receiver_pid[i] <= proc_nprocs

(* A pending software interrupt is a request the current process posted.   *)
RequestPosted ==
  msip => Alive /\ sc_type[curr_vm_pid] # "SYS_UNUSED"

(* The inductive invariant.                                                *)
Inv ==
  /\ TypeOK
  /\ UniquePids
  /\ CurrentRuns
  /\ NoMissedRendezvous
  /\ SyscallIsPosted
  /\ UsedHavePid
  /\ PidsAllocated
  /\ RequestPosted

(* The ring of slots that proc_yield() scans.                              *)
LEMMA SlotAfterInSlots ==
  ASSUME proc_curr_idx \in Slots, NEW k \in Nat
  PROVE  SlotAfter(k) \in Slots
  BY KernelAssumption DEF Slots, SlotAfter

(* What proc_yield() makes of the process states st it is entered with.    *)
YieldPre(st, cx) ==
  /\ st \in [Slots -> Status]
  /\ cx \in [Slots -> Ctx]
  /\ \A i \in Slots : st[i] = "RUNNING" => i = proc_curr_idx
  /\ \A i \in Slots : st[i] # "UNUSED" => pid[i] # 0

Blocked == {"UNUSED", "LOADING", "WAIT_TO_SEND", "WAIT_TO_RECV"}

YieldPost(st) ==
  /\ status' \in [Slots -> Status]
  /\ ctx' \in [Slots -> Ctx]
  /\ proc_curr_idx' \in Slots
  /\ cpu' \in Ctx
  /\ curr_vm_pid' \in Pids
  /\ fatal' \in {"none", "no runnable process"}
  /\ \A i \in Slots : st[i] \in Blocked => status'[i] = st[i]
  /\ \A i \in Slots : st[i] \notin Blocked => status'[i] \notin Blocked
  /\ CurrentRuns'

(* proc_yield() keeps the invariant from any state in which at most the    *)
(* current slot runs; it may find the current process already waiting.     *)
LEMMA Yield ==
  ASSUME NEW st, NEW cx, TypeOK, UniquePids, Alive, pid' = pid,
         YieldPre(st, cx), proc_yield(st, cx)
  PROVE  YieldPost(st)
<1>1. CASE \E k \in 1 .. MAX_NPROCESS :
             NextRunnable(st, k) /\ SwitchTo(SlotAfter(k), st, cx)
  <2>1. PICK k \in 1 .. MAX_NPROCESS :
               NextRunnable(st, k) /\ SwitchTo(SlotAfter(k), st, cx)
    BY <1>1
  <2> DEFINE n == SlotAfter(k)
  <2>2. n \in Slots
    BY SlotAfterInSlots, KernelAssumption DEF TypeOK
  <2>3. st[n] \in {"READY", "RUNNING", "RUNNABLE"}
    BY <2>1 DEF NextRunnable, IsRunnable
  <2> HIDE DEF n
  <2>4. SwitchTo(n, st, cx)
    BY <2>1 DEF n
  <2>5. pid[n] \in Pids
    BY <2>2, <2>3 DEF YieldPre, TypeOK, Pids
  <2>6. /\ Preempt(st) \in [Slots -> Status]
        /\ \A i \in Slots : Preempt(st)[i] # "RUNNING"
        /\ \A i \in Slots : st[i] \in Blocked => Preempt(st)[i] = st[i]
        /\ \A i \in Slots : st[i] \notin Blocked => Preempt(st)[i] \notin Blocked
    BY DEF Preempt, proc_set_status, YieldPre, TypeOK, UniquePids, Status,
           curr_pid, Blocked
  <2>7. \A i \in Slots : status'[i] = IF i = n THEN "RUNNING"
                                               ELSE Preempt(st)[i]
    BY <2>2, <2>4, <2>5 DEF SwitchTo, proc_set_status, UniquePids, Pids
  <2>8. status' \in [Slots -> Status]
    BY <2>4, <2>6 DEF SwitchTo, proc_set_status, Status
  <2>9. ctx' \in [Slots -> Ctx] /\ cpu' \in Ctx
    BY <2>2, <2>4, KernelAssumption DEF SwitchTo, YieldPre
  <2>10. proc_curr_idx' = n /\ curr_vm_pid' = pid[n] /\ fatal' = "none"
    BY <2>4 DEF SwitchTo, Alive
  <2>11. CurrentRuns'
    BY <2>2, <2>6, <2>7, <2>10 DEF CurrentRuns, curr_pid, Alive
  <2> QED
    BY <2>2, <2>3, <2>5, <2>6, <2>7, <2>8, <2>9, <2>10, <2>11
    DEF YieldPost, Blocked
<1>2. CASE /\ \A i \in Slots : ~ IsRunnable(st[i])
           /\ fatal' = "no runnable process"
           /\ status' = st
           /\ ctx' = cx
           /\ UNCHANGED <<proc_curr_idx, curr_vm_pid, cpu>>
  BY <1>2 DEF YieldPost, YieldPre, CurrentRuns, Alive, TypeOK, Blocked
<1> QED
  BY <1>1, <1>2 DEF proc_yield

(* A handler that ends in proc_yield() restores the invariant if the       *)
(* process states and receivers it yields with miss no rendezvous.         *)
LEMMA YieldRestoresInv ==
  ASSUME NEW st, NEW cx, Inv, Alive, YieldPre(st, cx), proc_yield(st, cx),
         pid' = pid, proc_nprocs' = proc_nprocs, msip' = FALSE,
         receiver_pid' \in [Slots -> 0 .. MaxPid],
         sc_type' \in [Pids -> {"SYS_UNUSED", "SYS_RECV", "SYS_SEND"}],
         sc_msg' \in [Pids -> Msg],
         sc_retval' \in [Pids -> {0, -1}],
         \A s, r \in Slots : ~ /\ st[s] = "WAIT_TO_SEND"
                               /\ st[r] = "WAIT_TO_RECV"
                               /\ receiver_pid'[s] = pid[r],
         \A i \in Slots : st[i] = "WAIT_TO_SEND" =>
                            receiver_pid'[i] <= proc_nprocs
  PROVE  Inv'
<1>1. YieldPost(st)
  BY Yield DEF Inv
<1>2. \A i \in Slots : status'[i] \in Blocked => st[i] = status'[i]
  BY <1>1 DEF YieldPost
<1>3. TypeOK'
  BY <1>1 DEF YieldPost, Inv, TypeOK, Fatal
<1>4. UniquePids' /\ CurrentRuns'
  BY <1>1 DEF YieldPost, Inv, UniquePids
<1>5. NoMissedRendezvous'
  BY <1>2 DEF NoMissedRendezvous, Blocked
<1>6. SyscallIsPosted' /\ RequestPosted'
  BY <1>1 DEF YieldPost, SyscallIsPosted, RequestPosted
<1>7. UsedHavePid'
  BY <1>1 DEF YieldPost, YieldPre, UsedHavePid, Blocked
<1>8. PidsAllocated'
  BY <1>2 DEF Inv, PidsAllocated, Blocked
<1> QED
  BY <1>3, <1>4, <1>5, <1>6, <1>7, <1>8 DEF Inv

(* The context saved by kernel_entry() is a context of the slot of the     *)
(* interrupted process.                                                    *)
LEMMA SavedCtxType == TypeOK => SavedCtx \in [Slots -> Ctx]
  BY DEF TypeOK, SavedCtx

(* The current process is in use and carries a pid.                        *)
LEMMA CurrentInUse ==
  ASSUME Inv, Alive
  PROVE  /\ status[proc_curr_idx] = "RUNNING"
         /\ curr_pid \in Pids
         /\ curr_vm_pid = curr_pid
  BY DEF Inv, TypeOK, CurrentRuns, UsedHavePid, Pids, curr_pid

(* A message that proc_send() has stamped with its sender is a message.    *)
LEMMA StampedMsgType == Inv /\ Alive => StampedMsg \in Msg
  BY CurrentInUse DEF Inv, TypeOK, StampedMsg, Msg, Pids

(* proc_send(), entered with a posted SYS_SEND, keeps the invariant,       *)
(* whether it hands over, refuses or blocks.                               *)
LEMMA ProcSendInv ==
  ASSUME Inv, Alive, proc_send, pid' = pid, proc_nprocs' = proc_nprocs,
         sc_type' \in [Pids -> {"SYS_UNUSED", "SYS_RECV", "SYS_SEND"}],
         msip' = FALSE
  PROVE  Inv'
<1> DEFINE sent == [sc_msg EXCEPT ![curr_vm_pid] = StampedMsg]
           r == StampedMsg.receiver
<1>1. sent \in [Pids -> Msg] /\ r \in 0 .. MaxPid
  BY StampedMsgType DEF Inv, TypeOK, Msg
<1>2. /\ [sc_retval EXCEPT ![curr_vm_pid] = 0] \in [Pids -> {0, -1}]
      /\ [sc_retval EXCEPT ![curr_vm_pid] = -1] \in [Pids -> {0, -1}]
  BY DEF Inv, TypeOK
<1> HIDE DEF sent, r
<1>3. ASSUME NEW i \in Slots, ReceiverSlot(r, i), status[i] # "WAIT_TO_RECV",
             receiver_pid' = [receiver_pid EXCEPT ![proc_curr_idx] = r],
             sc_msg' = sent,
             sc_retval' = [sc_retval EXCEPT ![curr_vm_pid] = 0],
             proc_yield([status EXCEPT ![proc_curr_idx] = "WAIT_TO_SEND"],
                        SavedCtx)
      PROVE  Inv'
  <2> DEFINE st == [status EXCEPT ![proc_curr_idx] = "WAIT_TO_SEND"]
  <2>1. YieldPre(st, SavedCtx)
    BY CurrentInUse, SavedCtxType
    DEF YieldPre, Inv, TypeOK, Status, CurrentRuns, UsedHavePid, Alive
  <2>2. pid[i] = r
    BY <1>3 DEF ReceiverSlot
  <2>3. ASSUME NEW s \in Slots, NEW q \in Slots, st[s] = "WAIT_TO_SEND",
               st[q] = "WAIT_TO_RECV", receiver_pid'[s] = pid[q]
        PROVE  FALSE
    <3>1. q # proc_curr_idx /\ status[q] = "WAIT_TO_RECV"
      BY <2>3 DEF Inv, TypeOK
    <3>2. CASE s = proc_curr_idx
      <4>1. pid[q] = pid[i] /\ pid[q] # 0
        BY <1>3, <2>2, <2>3, <3>1, <3>2 DEF Inv, TypeOK, UsedHavePid
      <4>2. q = i
        BY <4>1 DEF Inv, UniquePids
      <4> QED
        BY <1>3, <3>1, <4>2
    <3>3. CASE s # proc_curr_idx
      BY <1>3, <2>3, <3>1, <3>3 DEF Inv, TypeOK, NoMissedRendezvous
    <3> QED
      BY <3>2, <3>3
  <2>4. \A s \in Slots : st[s] = "WAIT_TO_SEND" =>
                           receiver_pid'[s] <= proc_nprocs
    BY <1>3, <2>2 DEF Inv, TypeOK, PidsAllocated
  <2>5. receiver_pid' \in [Slots -> 0 .. MaxPid]
    BY <1>1, <1>3 DEF Inv, TypeOK
  <2> HIDE DEF st
  <2>6. proc_yield(st, SavedCtx)
    BY <1>3 DEF st
  <2> QED
    BY <1>1, <1>2, <1>3, <2>1, <2>3, <2>4, <2>5, <2>6, YieldRestoresInv
<1>4. ASSUME NEW i \in Slots, ReceiverSlot(r, i), status[i] = "WAIT_TO_RECV",
             sc_msg' = [sent EXCEPT ![r] = sent[curr_pid]],
             sc_retval' = [sc_retval EXCEPT ![curr_vm_pid] = 0],
             proc_yield(proc_set_status(status, r, "RUNNABLE"), SavedCtx),
             UNCHANGED receiver_pid
      PROVE  Inv'
  <2> DEFINE st == proc_set_status(status, r, "RUNNABLE")
  <2>1. pid[i] = r /\ r \in Pids
    BY <1>1, <1>4 DEF ReceiverSlot, Inv, UsedHavePid, Pids
  <2>2. YieldPre(st, SavedCtx)
    BY <1>4, <2>1, CurrentInUse, SavedCtxType
    DEF YieldPre, Inv, TypeOK, Status, CurrentRuns, UsedHavePid, Alive,
        proc_set_status, Pids
  <2>3. \A s \in Slots : st[s] \in Blocked => st[s] = status[s]
    BY DEF proc_set_status, Blocked
  <2>4. sc_msg' \in [Pids -> Msg]
    BY <1>1, <1>4, <2>1, CurrentInUse DEF Inv, TypeOK
  <2>5. \A s, q \in Slots : ~ /\ st[s] = "WAIT_TO_SEND"
                               /\ st[q] = "WAIT_TO_RECV"
                               /\ receiver_pid'[s] = pid[q]
    BY <1>4, <2>3 DEF Inv, NoMissedRendezvous, Blocked
  <2>6. \A s \in Slots : st[s] = "WAIT_TO_SEND" =>
                           receiver_pid'[s] <= proc_nprocs
    BY <1>4, <2>3 DEF Inv, PidsAllocated, Blocked
  <2>7. receiver_pid' \in [Slots -> 0 .. MaxPid]
    BY <1>4 DEF Inv, TypeOK
  <2> HIDE DEF st
  <2>8. proc_yield(st, SavedCtx)
    BY <1>4 DEF st
  <2> QED
    BY <1>2, <1>4, <2>2, <2>4, <2>5, <2>6, <2>7, <2>8, YieldRestoresInv
<1>5. ASSUME \A i \in Slots : pid[i] # r,
             sc_msg' = sent,
             sc_retval' = [sc_retval EXCEPT ![curr_vm_pid] = -1],
             ResumeCurrent(SavedCtx),
             UNCHANGED <<status, receiver_pid, fatal>>
      PROVE  Inv'
  BY <1>1, <1>2, <1>5, SavedCtxType
  DEF ResumeCurrent, Inv, TypeOK, UniquePids, CurrentRuns, NoMissedRendezvous,
      SyscallIsPosted, UsedHavePid, PidsAllocated, RequestPosted, Alive,
      curr_pid
<1> QED
  BY <1>3, <1>4, <1>5 DEF proc_send, sent, r

(* proc_recv(), entered with a posted SYS_RECV, keeps the invariant,       *)
(* whether it finds a sender or blocks.                                    *)
LEMMA ProcRecvInv ==
  ASSUME Inv, Alive, proc_recv, pid' = pid, proc_nprocs' = proc_nprocs,
         sc_type' \in [Pids -> {"SYS_UNUSED", "SYS_RECV", "SYS_SEND"}],
         msip' = FALSE
  PROVE  Inv'
<1>1. /\ receiver_pid' = receiver_pid
      /\ receiver_pid' \in [Slots -> 0 .. MaxPid]
      /\ sc_retval' \in [Pids -> {0, -1}]
  BY DEF proc_recv, Inv, TypeOK
<1>2. ASSUME \A i \in Slots : ~ WaitsForCurrent(i),
             proc_yield([status EXCEPT ![proc_curr_idx] = "WAIT_TO_RECV"],
                        SavedCtx),
             UNCHANGED sc_msg
      PROVE  Inv'
  <2> DEFINE st == [status EXCEPT ![proc_curr_idx] = "WAIT_TO_RECV"]
  <2>1. YieldPre(st, SavedCtx)
    BY CurrentInUse, SavedCtxType
    DEF YieldPre, Inv, TypeOK, Status, CurrentRuns, UsedHavePid, Alive
  <2>2. \A s, q \in Slots : ~ /\ st[s] = "WAIT_TO_SEND"
                               /\ st[q] = "WAIT_TO_RECV"
                               /\ receiver_pid'[s] = pid[q]
    BY <1>1, <1>2
    DEF Inv, TypeOK, NoMissedRendezvous, WaitsForCurrent, curr_pid
  <2>3. \A s \in Slots : st[s] = "WAIT_TO_SEND" =>
                           receiver_pid'[s] <= proc_nprocs
    BY <1>1 DEF Inv, TypeOK, PidsAllocated
  <2>4. sc_msg' \in [Pids -> Msg]
    BY <1>2 DEF Inv, TypeOK
  <2> HIDE DEF st
  <2>5. proc_yield(st, SavedCtx)
    BY <1>2 DEF st
  <2> QED
    BY <1>1, <2>1, <2>2, <2>3, <2>4, <2>5, YieldRestoresInv
<1>3. ASSUME NEW i \in Slots, WaitsForCurrent(i),
             sc_msg' = [sc_msg EXCEPT ![curr_pid] = sc_msg[pid[i]]],
             proc_yield(proc_set_status(status, pid[i], "RUNNABLE"), SavedCtx)
      PROVE  Inv'
  <2> DEFINE st == proc_set_status(status, pid[i], "RUNNABLE")
  <2>1. pid[i] \in Pids /\ status[i] = "WAIT_TO_SEND"
    BY <1>3 DEF WaitsForCurrent, Inv, TypeOK, UsedHavePid, Pids
  <2>2. YieldPre(st, SavedCtx)
    BY <2>1, CurrentInUse, SavedCtxType
    DEF YieldPre, Inv, TypeOK, Status, CurrentRuns, UsedHavePid, Alive,
        proc_set_status, Pids
  <2>3. \A s \in Slots : st[s] \in Blocked => st[s] = status[s]
    BY DEF proc_set_status, Blocked
  <2>4. sc_msg' \in [Pids -> Msg]
    BY <1>3, <2>1 DEF Inv, TypeOK
  <2>5. \A s, q \in Slots : ~ /\ st[s] = "WAIT_TO_SEND"
                               /\ st[q] = "WAIT_TO_RECV"
                               /\ receiver_pid'[s] = pid[q]
    BY <1>1, <2>3 DEF Inv, NoMissedRendezvous, Blocked
  <2>6. \A s \in Slots : st[s] = "WAIT_TO_SEND" =>
                           receiver_pid'[s] <= proc_nprocs
    BY <1>1, <2>3 DEF Inv, PidsAllocated, Blocked
  <2> HIDE DEF st
  <2>7. proc_yield(st, SavedCtx)
    BY <1>3 DEF st
  <2> QED
    BY <1>1, <2>2, <2>4, <2>5, <2>6, <2>7, YieldRestoresInv
<1> QED
  BY <1>2, <1>3 DEF proc_recv

(* The software interrupt (intr_entry() into proc_syscall()) keeps the     *)
(* invariant.                                                              *)
LEMMA SoftIntrInv == Inv /\ SoftIntr => Inv'
<1> SUFFICES ASSUME Inv, SoftIntr PROVE Inv'
  OBVIOUS
<1>1. /\ Alive /\ pid' = pid /\ proc_nprocs' = proc_nprocs /\ msip' = FALSE
      /\ sc_type' \in [Pids -> {"SYS_UNUSED", "SYS_RECV", "SYS_SEND"}]
  BY DEF SoftIntr, proc_syscall, SyscallType, Inv, TypeOK
<1>2. sc_type[curr_vm_pid] # "SYS_UNUSED"
  BY DEF SoftIntr, Inv, RequestPosted
<1>3. proc_recv \/ proc_send
  BY <1>2 DEF SoftIntr, proc_syscall, SyscallType
<1> QED
  BY <1>1, <1>3, ProcSendInv, ProcRecvInv

(* The timer interrupt, ignored or taken, keeps the invariant.             *)
LEMMA TimerIntrInv == Inv /\ TimerIntr => Inv'
<1> SUFFICES ASSUME Inv, TimerIntr PROVE Inv'
  OBVIOUS
<1>1. Alive /\ proc_yield(status, SavedCtx)
  BY DEF TimerIntr, InUser
<1>2. /\ pid' = pid /\ proc_nprocs' = proc_nprocs /\ msip' = FALSE
      /\ receiver_pid' = receiver_pid
      /\ sc_type' = sc_type /\ sc_msg' = sc_msg /\ sc_retval' = sc_retval
  BY DEF TimerIntr, InUser, scVars, Inv, TypeOK
<1>3. YieldPre(status, SavedCtx)
  BY <1>1, SavedCtxType DEF YieldPre, Inv, TypeOK, CurrentRuns, UsedHavePid
<1>4. /\ receiver_pid' \in [Slots -> 0 .. MaxPid]
      /\ sc_type' \in [Pids -> {"SYS_UNUSED", "SYS_RECV", "SYS_SEND"}]
      /\ sc_msg' \in [Pids -> Msg]
      /\ sc_retval' \in [Pids -> {0, -1}]
  BY <1>2 DEF Inv, TypeOK
<1>5. /\ \A s, r \in Slots : ~ /\ status[s] = "WAIT_TO_SEND"
                                 /\ status[r] = "WAIT_TO_RECV"
                                 /\ receiver_pid'[s] = pid[r]
      /\ \A i \in Slots : status[i] = "WAIT_TO_SEND" =>
                             receiver_pid'[i] <= proc_nprocs
  BY <1>2 DEF Inv, NoMissedRendezvous, PidsAllocated
<1> QED
  BY <1>1, <1>2, <1>3, <1>4, <1>5, YieldRestoresInv

(* Steps that leave the process states alone.                              *)
LEMMA ResumeInv ==
  ASSUME Inv, TimerIgnored \/ CtrlC \/ Exception PROVE Inv'
<1>1. SavedCtx \in [Slots -> Ctx] /\ SavedCtx[proc_curr_idx] \in Ctx
  BY SavedCtxType DEF Inv, TypeOK
<1>2. UNCHANGED <<pid, status, receiver_pid, proc_nprocs, proc_curr_idx,
                  curr_vm_pid, sc_type, sc_msg, sc_retval, msip>>
  BY DEF TimerIgnored, CtrlC, Exception, ResumeCurrent, scVars
<1>3. /\ ctx' \in [Slots -> Ctx] /\ cpu' \in Ctx
      /\ fatal' = fatal \/ (fatal' = "exception" /\ ~ msip)
  BY <1>1 DEF TimerIgnored, CtrlC, Exception, ResumeCurrent, InUser, Inv, TypeOK
<1> QED
  BY <1>2, <1>3
  DEF Inv, TypeOK, UniquePids, CurrentRuns, NoMissedRendezvous,
      SyscallIsPosted, UsedHavePid, PidsAllocated, RequestPosted, Alive,
      curr_pid, Fatal

(* What a process does between traps, and its posting of a receive, keep   *)
(* the invariant.                                                          *)
LEMMA UserStepInv ==
  ASSUME Inv, NEW c \in Ctx, UserStep(c) \/ sys_recv(c) PROVE Inv'
<1>1. UNCHANGED <<pid, status, receiver_pid, proc_nprocs, proc_curr_idx, ctx,
                  curr_vm_pid, sc_msg, sc_retval, fatal>>
  BY DEF UserStep, sys_recv, procVars, scVars
<1>2. /\ sc_type' \in [Pids -> {"SYS_UNUSED", "SYS_RECV", "SYS_SEND"}]
      /\ cpu' \in Ctx /\ msip' \in BOOLEAN /\ Alive
      /\ msip' => sc_type'[curr_vm_pid] # "SYS_UNUSED"
  <2>1. CASE UserStep(c)
    BY <2>1 DEF UserStep, scVars, Inv, TypeOK, InUser
  <2>2. CASE sys_recv(c)
    BY <2>2 DEF sys_recv, Inv, TypeOK, InUser
  <2> QED
    BY <2>1, <2>2
<1> QED
  BY <1>1, <1>2
  DEF Inv, TypeOK, UniquePids, CurrentRuns, NoMissedRendezvous,
      SyscallIsPosted, UsedHavePid, PidsAllocated, RequestPosted, Alive,
      curr_pid

(* Posting a send in sys_send() keeps the invariant.                       *)
LEMMA SysSendInv ==
  ASSUME Inv, NEW c \in Ctx, NEW r \in Pids, NEW m \in Content,
         sys_send(r, m, c)
  PROVE  Inv'
<1>1. UNCHANGED <<pid, status, receiver_pid, proc_nprocs, proc_curr_idx, ctx,
                  curr_vm_pid, sc_retval, fatal>>
  BY DEF sys_send, procVars
<1>2. /\ sc_type' \in [Pids -> {"SYS_UNUSED", "SYS_RECV", "SYS_SEND"}]
      /\ cpu' \in Ctx /\ msip' = TRUE /\ Alive
      /\ sc_type'[curr_vm_pid] # "SYS_UNUSED"
  BY DEF sys_send, Inv, TypeOK, InUser
<1>3. sc_msg' \in [Pids -> Msg]
  BY KernelAssumption DEF sys_send, Inv, TypeOK, Msg, Pids
<1> QED
  BY <1>1, <1>2, <1>3
  DEF Inv, TypeOK, UniquePids, CurrentRuns, NoMissedRendezvous,
      SyscallIsPosted, UsedHavePid, PidsAllocated, RequestPosted, Alive,
      curr_pid

(* proc_alloc() keeps the invariant: the new pid is in no slot.            *)
LEMMA ProcAllocInv ==
  ASSUME Inv, NEW c \in Ctx, proc_alloc(c) PROVE Inv'
<1>1. /\ UNCHANGED <<ctx, receiver_pid, proc_curr_idx, curr_vm_pid, sc_type,
                     sc_msg, sc_retval, msip>>
      /\ Alive /\ ~ msip /\ proc_nprocs < MaxPid
  BY DEF proc_alloc, scVars, InUser
<1>2. CASE \A i \in Slots : status[i] # "UNUSED"
  <2>1. fatal' = "limit of processes" /\ UNCHANGED <<pid, status, proc_nprocs, cpu>>
    BY <1>2 DEF proc_alloc
  <2> QED
    BY <1>1, <2>1
    DEF Inv, TypeOK, UniquePids, CurrentRuns, NoMissedRendezvous,
        SyscallIsPosted, UsedHavePid, PidsAllocated, RequestPosted, Alive, Fatal
<1>3. CASE \E i \in Slots : status[i] = "UNUSED"
  <2>1. PICK i \in Slots : /\ status[i] = "UNUSED"
                           /\ pid' = [pid EXCEPT ![i] = proc_nprocs + 1]
                           /\ status' = [status EXCEPT ![i] = "LOADING"]
                           /\ proc_nprocs' = proc_nprocs + 1
                           /\ cpu' = c
                           /\ UNCHANGED fatal
    BY <1>3 DEF proc_alloc, NewPid
  <2>2. proc_nprocs + 1 \in Pids
    BY <1>1, KernelAssumption DEF Inv, TypeOK, Pids
  <2>3. TypeOK'
    BY <1>1, <2>1, <2>2 DEF Inv, TypeOK, Status, Pids
  <2>4. UniquePids'
    BY <2>1, <2>2 DEF Inv, TypeOK, UniquePids, PidsAllocated, Pids
  <2>5. i # proc_curr_idx
    BY <1>1, <2>1, CurrentInUse
  <2>6. CurrentRuns'
    BY <1>1, <2>1, <2>5 DEF Inv, TypeOK, CurrentRuns, Alive, curr_pid
  <2>7. NoMissedRendezvous'
    BY <1>1, <2>1 DEF Inv, TypeOK, NoMissedRendezvous
  <2>8. UsedHavePid' /\ PidsAllocated'
    BY <1>1, <2>1, <2>2 DEF Inv, TypeOK, UsedHavePid, PidsAllocated, Pids
  <2>9. SyscallIsPosted' /\ RequestPosted'
    BY <1>1, <2>1 DEF Inv, SyscallIsPosted, RequestPosted
  <2> QED
    BY <2>3, <2>4, <2>6, <2>7, <2>8, <2>9 DEF Inv
<1> QED
  BY <1>2, <1>3

(* proc_set_ready() and both forms of proc_free() keep the invariant.      *)
LEMMA ReadyFreeInv ==
  ASSUME Inv, NEW c \in Ctx, NEW p \in Pids,
         proc_set_ready(p, c) \/ proc_free(p, c) \/ proc_free_all(c)
  PROVE  Inv'
<1>1. /\ UNCHANGED <<pid, ctx, receiver_pid, proc_curr_idx, proc_nprocs,
                     curr_vm_pid, sc_type, sc_msg, sc_retval, msip, fatal>>
      /\ cpu' \in Ctx /\ Alive /\ curr_pid = 1
  BY DEF proc_set_ready, proc_free, proc_free_all, scVars, InUser, GPID_PROCESS
<1>2. status' \in [Slots -> Status]
  BY DEF proc_set_ready, proc_free, proc_free_all, IsUser, FreedStatus,
         proc_set_status, Inv, TypeOK, Status
<1>3. \A i \in Slots : \/ status'[i] = status[i]
                       \/ status'[i] = "UNUSED"
                       \/ status'[i] = "READY" /\ status[i] # "UNUSED"
  <2>1. CASE proc_set_ready(p, c)
    <3>1. PICK j \in Slots : pid[j] = p /\ status[j] = "LOADING"
      BY <2>1 DEF proc_set_ready
    <3>2. \A i \in Slots : pid[i] = p => i = j
      BY <3>1 DEF Inv, UniquePids, Pids
    <3> QED
      BY <2>1, <3>1, <3>2 DEF proc_set_ready, proc_set_status
  <2>2. CASE proc_free(p, c)
    BY <2>2 DEF proc_free, FreedStatus, proc_set_status
  <2>3. CASE proc_free_all(c)
    BY <2>3 DEF proc_free_all, IsUser
  <2> QED
    BY <2>1, <2>2, <2>3
<1>4. status'[proc_curr_idx] = "RUNNING"
  <2>1. CASE proc_set_ready(p, c)
    <3>1. PICK j \in Slots : pid[j] = p /\ status[j] = "LOADING"
      BY <2>1 DEF proc_set_ready
    <3>2. pid[proc_curr_idx] # p
      BY <1>1, <3>1, CurrentInUse DEF Inv, TypeOK, UniquePids, Pids
    <3> QED
      BY <1>1, <2>1, <3>2, CurrentInUse DEF proc_set_ready, proc_set_status, Inv, TypeOK
  <2>2. CASE proc_free(p, c)
    BY <1>1, <2>2, CurrentInUse
    DEF proc_free, FreedStatus, proc_set_status, Inv, TypeOK, curr_pid, GPID_PROCESS
  <2>3. CASE proc_free_all(c)
    BY <1>1, <2>3, CurrentInUse, KernelAssumption
    DEF proc_free_all, IsUser, Inv, TypeOK, curr_pid
  <2> QED
    BY <2>1, <2>2, <2>3
<1> QED
  BY <1>1, <1>2, <1>3, <1>4
  DEF Inv, TypeOK, UniquePids, CurrentRuns, NoMissedRendezvous,
      SyscallIsPosted, UsedHavePid, PidsAllocated, RequestPosted, Alive,
      curr_pid

(* The state in which GPID_PROCESS is entered satisfies the invariant.     *)
LEMMA InitInv == Init => Inv
<1> SUFFICES ASSUME Init PROVE Inv
  OBVIOUS
<1>1. 0 \in Slots /\ 1 \in Pids /\ Slots \subseteq Nat
  BY KernelAssumption DEF Slots, Pids
<1>2. /\ pid \in [Slots -> 0 .. MaxPid] /\ status \in [Slots -> Status]
      /\ ctx \in [Slots -> Ctx] /\ receiver_pid \in [Slots -> 0 .. MaxPid]
  BY KernelAssumption DEF Init, Status, GPID_PROCESS
<1>3. /\ sc_type \in [Pids -> {"SYS_UNUSED", "SYS_RECV", "SYS_SEND"}]
      /\ sc_msg \in [Pids -> Msg] /\ sc_retval \in [Pids -> {0, -1}]
  BY KernelAssumption DEF Init, Msg
<1>4. TypeOK
  BY <1>1, <1>2, <1>3, KernelAssumption DEF Init, TypeOK, Fatal, GPID_PROCESS
<1>5. UniquePids /\ CurrentRuns /\ NoMissedRendezvous
  BY <1>1 DEF Init, UniquePids, CurrentRuns, NoMissedRendezvous, curr_pid,
              GPID_PROCESS
<1>6. SyscallIsPosted /\ UsedHavePid /\ PidsAllocated /\ RequestPosted
  BY <1>1 DEF Init, SyscallIsPosted, UsedHavePid, PidsAllocated, RequestPosted,
              GPID_PROCESS
<1> QED
  BY <1>4, <1>5, <1>6 DEF Inv

(* Every step of the kernel and of the processes keeps the invariant.      *)
LEMMA NextInv == Inv /\ [Next]_vars => Inv'
<1> SUFFICES ASSUME Inv, [Next]_vars PROVE Inv'
  OBVIOUS
<1>1. CASE SoftIntr
  BY <1>1, SoftIntrInv
<1>2. CASE TimerIntr
  BY <1>2, TimerIntrInv
<1>3. CASE TimerIgnored \/ CtrlC \/ Exception
  BY <1>3, ResumeInv
<1>4. CASE Hang \/ UNCHANGED vars
  <2>1. UNCHANGED vars
    BY <1>4 DEF Hang
  <2> QED
    BY <2>1
    DEF vars, Inv, TypeOK, UniquePids, CurrentRuns, NoMissedRendezvous,
        SyscallIsPosted, UsedHavePid, PidsAllocated, RequestPosted, Alive,
        curr_pid
<1>5. ASSUME NEW c \in Ctx, UserStep(c) \/ sys_recv(c) PROVE Inv'
  BY <1>5, UserStepInv
<1>6. ASSUME NEW c \in Ctx, NEW r \in Pids, NEW m \in Content, sys_send(r, m, c)
      PROVE Inv'
  BY <1>6, SysSendInv
<1>7. ASSUME NEW c \in Ctx, proc_alloc(c) PROVE Inv'
  BY <1>7, ProcAllocInv
<1>8. ASSUME NEW c \in Ctx, NEW p \in Pids,
             proc_set_ready(p, c) \/ proc_free(p, c) \/ proc_free_all(c)
      PROVE Inv'
  BY <1>8, ReadyFreeInv
<1>9. Pids # {}
  BY KernelAssumption DEF Pids
<1> QED
  BY <1>1, <1>2, <1>3, <1>4, <1>5, <1>6, <1>7, <1>8, <1>9 DEF Next

(* The inductive invariant holds in every reachable state of the kernel.   *)
THEOREM KernelInvariant == Spec => []Inv
<1>1. QED
  BY InitInv, NextInv, PTL DEF Spec

(* The process table stays well formed, whatever the processes do.         *)
THEOREM KernelTypeOK == Spec => []TypeOK
<1>1. Inv => TypeOK
  BY DEF Inv
<1>2. QED
  BY <1>1, KernelInvariant, PTL

(* Pids name slots.                                                        *)
THEOREM KernelUniquePids == Spec => []UniquePids
<1>1. Inv => UniquePids
  BY DEF Inv
<1>2. QED
  BY <1>1, KernelInvariant, PTL

(* CPU, process table and MMU agree on the current process.                *)
THEOREM KernelCurrentRuns == Spec => []CurrentRuns
<1>1. Inv => CurrentRuns
  BY DEF Inv
<1>2. QED
  BY <1>1, KernelInvariant, PTL

(* proc_send() and proc_recv() miss no rendezvous.                         *)
THEOREM KernelNoMissedRendezvous == Spec => []NoMissedRendezvous
<1>1. Inv => NoMissedRendezvous
  BY DEF Inv
<1>2. QED
  BY <1>1, KernelInvariant, PTL

(* proc_syscall() never sees an unknown system call.                       *)
THEOREM KernelSyscallIsPosted == Spec => []SyscallIsPosted
<1>1. Inv => SyscallIsPosted
  BY DEF Inv
<1>2. QED
  BY <1>1, KernelInvariant, PTL
=============================================================================

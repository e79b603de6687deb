------------------------------- MODULE Kernel -------------------------------
(***************************************************************************)
(* The grass kernel: the process table, the round-robin scheduler and the  *)
(* synchronous message passing of sys_send and sys_recv                    *)
(* (src/grass/kernel.c, process.c, syscall.c).                             *)
(*                                                                         *)
(* There is one hart.  A trap handler runs with interrupts disabled, so a  *)
(* whole kernel_entry() is one step.  What user code does between two      *)
(* traps is left open: the current process may compute, raise a system     *)
(* call or fault, so what holds here holds for every set of programs.      *)
(* Servers.tla restricts these steps to the programs under src/apps.       *)
(***************************************************************************)
EXTENDS Integers

CONSTANTS
  MAX_NPROCESS,     \* slots of proc_set
  GPID_SHELL,       \* pids below this one are not preempted by the timer
  GPID_USER_START,  \* pids from this one on are user applications
  MaxPid,           \* bound on proc_nprocs, the pids ever handed out
  Content,          \* message contents
  NoContent,        \* what SYSCALL_ARG holds before the first message
  Ctx,              \* register contexts (mepc and saved_register)
  APPS_ENTRY,       \* the context of a process at its entry point
  APPS_EXIT         \* the context at 0x800500C, the call of exit() in app.s

ASSUME KernelAssumption ==
  /\ MAX_NPROCESS \in Nat \ {0}
  /\ GPID_SHELL \in Nat /\ GPID_USER_START \in Nat
  /\ 1 < GPID_SHELL /\ GPID_SHELL < GPID_USER_START
  /\ MaxPid \in Nat \ {0}
  /\ NoContent \in Content
  /\ APPS_ENTRY \in Ctx /\ APPS_EXIT \in Ctx

GPID_PROCESS == 1

Slots  == 0 .. MAX_NPROCESS - 1
Pids   == 1 .. MaxPid
Status == {"UNUSED", "LOADING", "READY", "RUNNING", "RUNNABLE",
           "WAIT_TO_SEND", "WAIT_TO_RECV"}
Msg    == [sender : 0 .. MaxPid, receiver : 0 .. MaxPid, content : Content]
Fatal  == {"none", "no runnable process", "unknown syscall type",
           "limit of processes", "exception"}

VARIABLES
  pid, status, ctx, receiver_pid,  \* the fields of proc_set[i], by slot i
  proc_curr_idx,   \* slot of the current process
  proc_nprocs,     \* last pid handed out by proc_alloc()
  cpu,             \* context in the CPU: the mepc CSR and the registers
  curr_vm_pid,     \* whose address space is mapped (earth/cpu_mmu.c)
  sc_type, sc_msg, sc_retval,      \* struct syscall at SYSCALL_ARG, by pid
  msip,            \* software interrupt pending
  fatal            \* the FATAL() the kernel stopped in

procVars == <<pid, status, ctx, receiver_pid, proc_curr_idx, proc_nprocs>>
scVars   == <<sc_type, sc_msg, sc_retval>>
vars     == <<pid, status, ctx, receiver_pid, proc_curr_idx, proc_nprocs, cpu,
              curr_vm_pid, sc_type, sc_msg, sc_retval, msip, fatal>>

curr_pid == pid[proc_curr_idx]

(* The process table, the system call arguments and the CPU hold values of *)
(* their types: pids that proc_alloc() has handed out, known states.       *)
TypeOK ==
  /\ pid \in [Slots -> 0 .. MaxPid]
  /\ status \in [Slots -> Status]
  /\ ctx \in [Slots -> Ctx]
  /\ receiver_pid \in [Slots -> 0 .. MaxPid]
  /\ proc_curr_idx \in Slots
  /\ proc_nprocs \in Pids
  /\ cpu \in Ctx
  /\ curr_vm_pid \in Pids
  /\ sc_type \in [Pids -> {"SYS_UNUSED", "SYS_RECV", "SYS_SEND"}]
  /\ sc_msg \in [Pids -> Msg]
  /\ sc_retval \in [Pids -> {0, -1}]
  /\ msip \in BOOLEAN
  /\ fatal \in Fatal

(* grass main(): GPID_PROCESS is loaded into the first slot and entered.   *)
Init ==
  /\ pid = [i \in Slots |-> IF i = 0 THEN GPID_PROCESS ELSE 0]
  /\ status = [i \in Slots |-> IF i = 0 THEN "RUNNING" ELSE "UNUSED"]
  /\ ctx = [i \in Slots |-> APPS_ENTRY]
  /\ receiver_pid = [i \in Slots |-> 0]
  /\ proc_curr_idx = 0
  /\ proc_nprocs = 1
  /\ cpu = APPS_ENTRY
  /\ curr_vm_pid = GPID_PROCESS
  /\ sc_type = [p \in Pids |-> "SYS_UNUSED"]
  /\ sc_msg = [p \in Pids |->
                 [sender |-> 0, receiver |-> 0, content |-> NoContent]]
  /\ sc_retval = [p \in Pids |-> 0]
  /\ msip = FALSE
  /\ fatal = "none"

-----------------------------------------------------------------------------
(* Helpers of the trap handlers.                                           *)

IsRunnable_not_waiting(s) == s \notin {"WAIT_TO_SEND", "WAIT_TO_RECV"}
IsRunnable(s) == s \in {"READY", "RUNNING", "RUNNABLE"}

(* Every slot that carries pid p gets status s, as in the code's loop.     *)
proc_set_status(st, p, s) == [i \in Slots |-> IF pid[i] = p THEN s ELSE st[i]]

(* kernel_entry() starts by saving the interrupted context.                *)
SavedCtx_skipped == ctx
SavedCtx == [ctx EXCEPT ![proc_curr_idx] = cpu]

(* The handler returns to the same process: kernel_entry() writes mepc and *)
(* the registers back from proc_set, whatever is in the CSR by then.       *)
ResumeCurrent(cx) ==
  /\ ctx' = cx
  /\ cpu' = cx[proc_curr_idx]
  /\ UNCHANGED <<proc_curr_idx, curr_vm_pid>>

(* The k-th slot after the current one, wrapping around the table.         *)
SlotAfter(k) == (proc_curr_idx + k) % MAX_NPROCESS

(* The scan of proc_yield() stops k slots after the current one.           *)
NextRunnable(st, k) ==
  /\ IsRunnable(st[SlotAfter(k)])
  /\ \A j \in 1 .. k - 1 : ~ IsRunnable(st[SlotAfter(j)])

(* A process that did not block gives the CPU up but stays runnable.       *)
Preempt_skipped(st) == st
Preempt(st) == IF st[proc_curr_idx] = "RUNNING"
               THEN proc_set_status(st, curr_pid, "RUNNABLE") ELSE st

(* Dispatch of slot next, and the restore that ends kernel_entry().        *)
SwitchTo(next, st, cx) ==
  LET st1 == Preempt(st)
      cx1 == IF st1[next] = "READY"
             THEN [cx EXCEPT ![next] = APPS_ENTRY] ELSE cx
  IN /\ proc_curr_idx' = next
     /\ curr_vm_pid' = pid[next]
     /\ status' = proc_set_status(st1, pid[next], "RUNNING")
     /\ ctx' = cx1
     /\ cpu' = cx1[next]
     /\ UNCHANGED fatal

(* proc_yield() entered with process states st and saved contexts cx.      *)
proc_yield(st, cx) ==
  \/ \E k \in 1 .. MAX_NPROCESS :
       /\ NextRunnable(st, k)
       /\ SwitchTo(SlotAfter(k), st, cx)
  \/ /\ \A i \in Slots : ~ IsRunnable(st[i])
     /\ fatal' = "no runnable process"
     /\ status' = st
     /\ ctx' = cx
     /\ UNCHANGED <<proc_curr_idx, curr_vm_pid, cpu>>

-----------------------------------------------------------------------------
(* System calls.  The kernel reads and writes struct syscall through the   *)
(* address space that is mapped; mmu_switch() selects the one to copy.     *)

(* The receiver named in the message, if it has a slot: the first match.   *)
ReceiverSlot(r, i) == pid[i] = r /\ \A j \in 0 .. i - 1 : pid[j] # r

(* A slot whose process waits to send to the current process.              *)
WaitsForCurrent_from_1(i) ==
  i > 0 /\ status[i] = "WAIT_TO_SEND" /\ receiver_pid[i] = curr_pid
WaitsForCurrent(i) == status[i] = "WAIT_TO_SEND" /\ receiver_pid[i] = curr_pid

(* The kernel, not the process, names the sender.                          *)
StampedMsg_skipped == sc_msg[curr_vm_pid]
StampedMsg == [sender |-> curr_pid,
               receiver |-> sc_msg[curr_vm_pid].receiver,
               content |-> sc_msg[curr_vm_pid].content]

proc_send ==
  LET msg == StampedMsg
      sent == [sc_msg EXCEPT ![curr_vm_pid] = msg]
      r == msg.receiver
  IN \/ \E i \in Slots :
          /\ ReceiverSlot(r, i)
          /\ status[i] # "WAIT_TO_RECV"
          /\ receiver_pid' = [receiver_pid EXCEPT ![proc_curr_idx] = r]
          /\ sc_msg' = sent
          /\ sc_retval' = [sc_retval EXCEPT ![curr_vm_pid] = 0]
          /\ proc_yield([status EXCEPT ![proc_curr_idx] = "WAIT_TO_SEND"],
                        SavedCtx)
     \/ \E i \in Slots :
          /\ ReceiverSlot(r, i)
          /\ status[i] = "WAIT_TO_RECV"
          /\ sc_msg' = [sent EXCEPT ![r] = sent[curr_pid]]
          /\ sc_retval' = [sc_retval EXCEPT ![curr_vm_pid] = 0]
          /\ proc_yield(proc_set_status(status, r, "RUNNABLE"), SavedCtx)
          /\ UNCHANGED receiver_pid
     \/ /\ \A i \in Slots : pid[i] # r
        /\ sc_msg' = sent
        /\ sc_retval' = [sc_retval EXCEPT ![curr_vm_pid] = -1]
        /\ ResumeCurrent(SavedCtx)
        /\ UNCHANGED <<status, receiver_pid, fatal>>

(* The loop of proc_recv() has no break: the last waiting sender wins.     *)
proc_recv ==
  /\ sc_retval' = [sc_retval EXCEPT ![curr_vm_pid] = 0]
  /\ UNCHANGED receiver_pid
  /\ \/ /\ \A i \in Slots : ~ WaitsForCurrent(i)
        /\ proc_yield([status EXCEPT ![proc_curr_idx] = "WAIT_TO_RECV"],
                      SavedCtx)
        /\ UNCHANGED sc_msg
     \/ \E i \in Slots :
          /\ WaitsForCurrent(i)
          /\ \A j \in i + 1 .. MAX_NPROCESS - 1 : ~ WaitsForCurrent(j)
          /\ sc_msg' = [sc_msg EXCEPT ![curr_pid] = sc_msg[pid[i]]]
          /\ proc_yield(proc_set_status(status, pid[i], "RUNNABLE"), SavedCtx)

(* The type is read before the handler resets it.                          *)
SyscallType_late == "SYS_UNUSED"
SyscallType == sc_type[curr_vm_pid]

proc_syscall ==
  /\ sc_type' = [sc_type EXCEPT ![curr_vm_pid] = "SYS_UNUSED"]
  /\ msip' = FALSE
  /\ \/ SyscallType = "SYS_RECV" /\ proc_recv
     \/ SyscallType = "SYS_SEND" /\ proc_send
     \/ /\ SyscallType = "SYS_UNUSED"
        /\ fatal' = "unknown syscall type"
        /\ ctx' = SavedCtx
        /\ sc_retval' = [sc_retval EXCEPT ![curr_vm_pid] = 0]
        /\ UNCHANGED <<status, receiver_pid, proc_curr_idx, cpu, curr_vm_pid,
                       sc_msg>>

-----------------------------------------------------------------------------
(* Traps.  A pending software interrupt is taken before the timer's and    *)
(* before the next user instruction has an effect (RISC-V priorities).     *)

Alive == fatal = "none"
InUser == Alive /\ ~ msip

SoftIntr ==
  /\ Alive /\ msip
  /\ proc_syscall
  /\ UNCHANGED <<pid, proc_nprocs>>

TimerIntr ==
  /\ InUser
  /\ curr_pid >= GPID_SHELL
  /\ proc_yield(status, SavedCtx)
  /\ UNCHANGED <<pid, receiver_pid, proc_nprocs, scVars, msip>>

(* Kernel processes are not preempted: timer_reset() and return.           *)
TimerIgnored ==
  /\ InUser
  /\ curr_pid < GPID_SHELL
  /\ ResumeCurrent(SavedCtx)
  /\ UNCHANGED <<pid, status, receiver_pid, proc_nprocs, scVars, msip, fatal>>

(* Ctrl+C while a user application runs: intr_entry() writes APPS_EXIT to  *)
(* the mepc CSR and returns; kernel_entry() then restores mepc from the    *)
(* context it saved before.  The interrupt itself stays pending.           *)
CtrlC ==
  /\ Alive
  /\ curr_pid >= GPID_USER_START
  /\ ResumeCurrent(SavedCtx)
  /\ UNCHANGED <<pid, status, receiver_pid, proc_nprocs, scVars, msip, fatal>>

(* excp_entry(): every exception is FATAL.                                 *)
Exception ==
  /\ InUser
  /\ fatal' = "exception"
  /\ ctx' = SavedCtx
  /\ UNCHANGED <<pid, status, receiver_pid, proc_curr_idx, proc_nprocs, cpu,
                 curr_vm_pid, scVars, msip>>

(* FATAL() prints and loops for ever.                                      *)
Hang == ~ Alive /\ UNCHANGED vars

-----------------------------------------------------------------------------
(* What the current process does in user code; c is its context after it.  *)

UserStep(c) ==
  /\ InUser
  /\ cpu' = c
  /\ UNCHANGED <<procVars, curr_vm_pid, scVars, msip, fatal>>

(* sys_send() and sys_recv() up to the store to MSIP in sys_invoke().      *)
sys_send(r, m, c) ==
  /\ InUser
  /\ sc_type' = [sc_type EXCEPT ![curr_vm_pid] = "SYS_SEND"]
  /\ sc_msg' = [sc_msg EXCEPT ![curr_vm_pid] =
                   [sender |-> @.sender, receiver |-> r, content |-> m]]
  /\ msip' = TRUE
  /\ cpu' = c
  /\ UNCHANGED <<procVars, curr_vm_pid, sc_retval, fatal>>

sys_recv(c) ==
  /\ InUser
  /\ sc_type' = [sc_type EXCEPT ![curr_vm_pid] = "SYS_RECV"]
  /\ msip' = TRUE
  /\ cpu' = c
  /\ UNCHANGED <<procVars, curr_vm_pid, sc_msg, sc_retval, fatal>>

(* Pids are never reused: ++proc_nprocs.                                   *)
NewPid_not_counted == proc_nprocs
NewPid == proc_nprocs + 1

(* The three functions below are called directly, through struct grass,    *)
(* and only by GPID_PROCESS (apps/system/sys_proc.c).                      *)
proc_alloc(c) ==
  /\ InUser
  /\ curr_pid = GPID_PROCESS
  /\ proc_nprocs < MaxPid
  /\ \/ \E i \in Slots :
          /\ status[i] = "UNUSED"
          /\ \A j \in 0 .. i - 1 : status[j] # "UNUSED"
          /\ pid' = [pid EXCEPT ![i] = NewPid]
          /\ status' = [status EXCEPT ![i] = "LOADING"]
          /\ proc_nprocs' = NewPid
          /\ cpu' = c
          /\ UNCHANGED fatal
     \/ /\ \A i \in Slots : status[i] # "UNUSED"
        /\ fatal' = "limit of processes"
        /\ UNCHANGED <<pid, status, proc_nprocs, cpu>>
  /\ UNCHANGED <<ctx, receiver_pid, proc_curr_idx, curr_vm_pid, scVars, msip>>

(* Called with the pid that proc_alloc() returned, once it is loaded.      *)
proc_set_ready(p, c) ==
  /\ InUser
  /\ curr_pid = GPID_PROCESS
  /\ \E i \in Slots : pid[i] = p /\ status[i] = "LOADING"
  /\ status' = proc_set_status(status, p, "READY")
  /\ cpu' = c
  /\ UNCHANGED <<pid, ctx, receiver_pid, proc_curr_idx, proc_nprocs,
                 curr_vm_pid, scVars, msip, fatal>>

FreedStatus_skipped(p) == status
FreedStatus(p) == proc_set_status(status, p, "UNUSED")

(* Called with the sender of a PROC_EXIT message.                          *)
proc_free(p, c) ==
  /\ InUser
  /\ curr_pid = GPID_PROCESS
  /\ p # GPID_PROCESS
  /\ status' = FreedStatus(p)
  /\ cpu' = c
  /\ UNCHANGED <<pid, ctx, receiver_pid, proc_curr_idx, proc_nprocs,
                 curr_vm_pid, scVars, msip, fatal>>

(* proc_free(-1): free all user applications.                              *)
IsUser(i) == pid[i] >= GPID_USER_START

proc_free_all(c) ==
  /\ InUser
  /\ curr_pid = GPID_PROCESS
  /\ status' = [i \in Slots |-> IF IsUser(i) THEN "UNUSED" ELSE status[i]]
  /\ cpu' = c
  /\ UNCHANGED <<pid, ctx, receiver_pid, proc_curr_idx, proc_nprocs,
                 curr_vm_pid, scVars, msip, fatal>>

Next ==
  \/ SoftIntr
  \/ TimerIntr
  \/ TimerIgnored
  \/ CtrlC
  \/ Exception
  \/ Hang
  \/ \E c \in Ctx :
       \/ UserStep(c)
       \/ \E r \in Pids, m \in Content : sys_send(r, m, c)
       \/ sys_recv(c)
       \/ proc_alloc(c)
       \/ \E p \in Pids : proc_set_ready(p, c) \/ proc_free(p, c)
       \/ proc_free_all(c)

Spec == Init /\ [][Next]_vars

-----------------------------------------------------------------------------
(* Correctness.                                                            *)

(* Pids name slots: the loops of proc_set_status(), proc_send() and        *)
(* proc_free() look processes up by pid, over slots that keep the pid of   *)
(* the process they last held, so two slots must never carry the same one. *)
UniquePids ==
  \A i, j \in Slots : pid[i] = pid[j] /\ pid[i] # 0 => i = j

(* The CPU, the process table and the MMU agree on who runs: the current   *)
(* slot is the one RUNNING slot and its address space is the mapped one,   *)
(* through every block, wake-up, kill and switch.                          *)
CurrentRuns ==
  Alive => /\ \A i \in Slots : status[i] = "RUNNING" <=> i = proc_curr_idx
           /\ curr_vm_pid = curr_pid

(* No rendezvous is missed: proc_send() and proc_recv() never leave a      *)
(* process waiting to send to a process that waits to receive.             *)
NoMissedRendezvous ==
  \A s, r \in Slots :
    ~ /\ status[s] = "WAIT_TO_SEND"
      /\ status[r] = "WAIT_TO_RECV"
      /\ receiver_pid[s] = pid[r]

(* proc_syscall() never finds the mapped struct syscall without a request, *)
(* so its FATAL "got unknown syscall type" is dead code.                   *)
SyscallIsPosted == fatal # "unknown syscall type"

(* The register context of a process: in the CPU while it is current, in   *)
(* proc_set otherwise.                                                     *)
ContextOf(i) == IF i = proc_curr_idx THEN cpu ELSE ctx[i]

(* A trap and whatever it switches to change no process's registers, and   *)
(* no step changes those of a process that is not current; a fresh READY   *)
(* process starts at its entry point.                                      *)
ContextsPreserved ==
  [][\A i \in Slots :
       i # proc_curr_idx \/ (msip /\ ~ msip') \/ proc_curr_idx' # i =>
         ContextOf(i)' = IF status[i] = "READY" /\ status'[i] = "RUNNING"
                         THEN APPS_ENTRY ELSE ContextOf(i)]_vars

(* sys_send() and sys_recv() are synchronous message passing: the process  *)
(* table and the message buffers implement module Rendezvous.              *)
CallOf(p) ==
  IF \E i \in Slots : pid[i] = p /\ status[i] = "WAIT_TO_SEND" THEN "send"
  ELSE IF \E i \in Slots : pid[i] = p /\ status[i] = "WAIT_TO_RECV" THEN "recv"
  ELSE IF ~ msip \/ p # curr_pid THEN "none"
  ELSE IF sc_type[p] = "SYS_SEND" THEN "send" ELSE "recv"

BoxOf(p) ==
  IF CallOf(p) = "send"
  THEN [sender |-> p, receiver |-> sc_msg[p].receiver,
        content |-> sc_msg[p].content]
  ELSE sc_msg[p]

(* A pid exists from proc_alloc() until proc_free() marks its slot UNUSED. *)
LifeOf(p) ==
  IF p > proc_nprocs THEN "unborn"
  ELSE IF \E i \in Slots : pid[i] = p /\ status[i] # "UNUSED" THEN "live"
  ELSE "freed"

lifeBar    == [p \in Pids |-> LifeOf(p)]
callBar    == [p \in Pids |-> CallOf(p)]
boxBar     == [p \in Pids |-> BoxOf(p)]
refusedBar == {p \in Pids : CallOf(p) = "none" /\ sc_retval[p] = -1}

IPC == INSTANCE Rendezvous WITH
         Procs <- Pids, First <- GPID_PROCESS, life <- lifeBar,
         call <- callBar, box <- boxBar, refused <- refusedBar

(* Every message is handed over once, to the process it names, with its    *)
(* true sender, while that process is in sys_recv(); a send fails only if  *)
(* no process has the receiver's pid, and leaves no message behind; no     *)
(* other step ends a call, but proc_free() of the process that is in it.   *)
ImplementsRendezvous == IPC!RSpec
=============================================================================

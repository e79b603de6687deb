------------------------------ MODULE MCKernel ------------------------------
(* A small instance of Kernel for TLC. *)
EXTENDS Kernel, TLC

(* The state without what is left behind and never read again: the         *)
(* receiver of a finished send, the registers saved for the current slot   *)
(* and for slots without a started process, the message of a process that  *)
(* is not sending and the sender in one the kernel has not stamped yet,    *)
(* and the system call of a pid that has been freed.                       *)
InUse(p) == \E i \in Slots : pid[i] = p /\ status[i] # "UNUSED"
Waiting(p) == \E i \in Slots : pid[i] = p /\ status[i] = "WAIT_TO_SEND"
LiveState ==
  <<status, pid, proc_curr_idx, proc_nprocs, cpu, curr_vm_pid, msip, fatal,
    [i \in Slots |-> IF status[i] = "WAIT_TO_SEND" THEN receiver_pid[i] ELSE 0],
    [i \in Slots |-> IF i = proc_curr_idx \/ status[i] \in {"UNUSED", "LOADING", "READY"}
                     THEN APPS_ENTRY ELSE ctx[i]],
    [p \in Pids |-> IF InUse(p) THEN <<sc_type[p], sc_retval[p]>> ELSE <<>>],
    [p \in Pids |-> IF Waiting(p) THEN sc_msg[p]
                    ELSE IF CallOf(p) = "send"
                    THEN <<sc_msg[p].receiver, sc_msg[p].content>> ELSE <<>>]>>
=============================================================================

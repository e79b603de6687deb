------------------------------ MODULE MCServers -----------------------------
(* Small instances of Servers for TLC: the commands of src/apps/user, and  *)
(* one that does not exist.                                                *)
EXTENDS Servers, TLC

Commands == {"cd", "cat", "ls", "clock", "nope", "7", ""}
LongName == "README_of_another_directorys"   \* CMD_ARG_LEN admits 31 characters
Arguments == {NoArg, "..", "yunhao", "README", "nope", LongName}
Inodes == -1 .. 15

MCContent == {Spawn(c, a, b) : c \in Commands, a \in Arguments, b \in BOOLEAN}
             \cup {Exit, Killall, Notification}
             \cup {ProcReply(t) : t \in {"CMD_OK", "CMD_ERROR"}}
             \cup {DirLookup(i, n) : i \in {0, 1, 2, 6},
                     n \in Commands \cup Arguments \cup {a \o "/" : a \in Arguments}
                           \cup {"bin/", "home/"}}
             \cup {DirReply(i) : i \in Inodes}
             \cup {FileRead(i, o) : i \in Inodes, o \in 0 .. LoadBlocks}
             \cup {FileReply(i, o) : i \in Inodes, o \in 0 .. LoadBlocks}
MCNoContent == Notification
MCCtx == Labels \cup {"app_exit"}

(* Command lines.  Apart never lets a command ask a server while killall   *)
(* or another command can come in between; the others do.                  *)
Apart == {Spawn("clock", NoArg, TRUE), Spawn("cd", "..", FALSE),
          Spawn("nope", NoArg, FALSE), Killall}
Overlap == {Spawn("cat", "README", TRUE), Spawn("ls", NoArg, TRUE)}
OddAndOverlap == Overlap \cup
         {Spawn("cd", "..", b) : b \in BOOLEAN} \cup
         {Spawn("cd", "yunhao", b) : b \in BOOLEAN} \cup
         {Spawn("nope", NoArg, FALSE), Spawn("7", NoArg, FALSE),
          Spawn("", NoArg, FALSE), Spawn("", NoArg, TRUE),
          Spawn("cat", LongName, FALSE), Unparsable}

(* What a process without pages does is not modelled: such states are not  *)
(* explored any further.                                                   *)
PagelessNeverRuns == ~ Pageless(curr_pid)

(* The state without what is never read again: the receiver of a finished  *)
(* send, the registers saved for the current and for free slots, return    *)
(* values, which no program looks at, messages that have been looked at,   *)
(* and what requests leave behind.                                         *)
OneOf(p, labels) == \E l \in labels : LabelIs(p, l)
Message(p) ==
  IF Live(p) /\ sc_type[p] = "SYS_SEND"
  THEN <<sc_msg[p].receiver, sc_msg[p].content>>
  ELSE IF InState(p, "WAIT_TO_SEND") THEN sc_msg[p]
  ELSE IF /\ sc_type[p] # "SYS_RECV" /\ ~ InState(p, "WAIT_TO_RECV")
          /\ OneOf(p, {"request", "reply", "bin_got", "app_got", "load_got",
                       "read_got", "op_got", "FATAL"})
  THEN <<sc_msg[p].sender, sc_msg[p].content>> ELSE <<>>
ProcLocals ==
  IF OneOf(GPID_PROCESS, {"exit"}) THEN <<proc.sender>>
  ELSE IF OneOf(GPID_PROCESS, {"loop", "request", "FATAL"}) THEN <<>>
  ELSE IF OneOf(GPID_PROCESS, {"bin_sent", "bin_got", "app_sent", "app_got"})
  THEN <<proc.req>> ELSE <<proc.req, proc.app_ino, proc.off>>
LiveState ==
  <<status, pid, proc_curr_idx, proc_nprocs, cpu, curr_vm_pid, msip, fatal,
    [i \in Slots |-> IF status[i] = "WAIT_TO_SEND" THEN receiver_pid[i] ELSE 0],
    [i \in Slots |-> IF i = proc_curr_idx \/ status[i] \in {"UNUSED", "LOADING", "READY"}
                     THEN APPS_ENTRY ELSE ctx[i]],
    [p \in Pids |-> <<IF Live(p) THEN sc_type[p] ELSE "SYS_UNUSED", Message(p)>>],
    prog, proc.boots, proc.app_pid, proc.shell_waiting, ProcLocals,
    IF OneOf(GPID_DIR, {"read_sent", "read_got"}) THEN dir ELSE <<>>,
    shell, app, cwd>>

CatAndKillall == {Spawn("cat", "README", TRUE), Killall, Spawn("clock", NoArg, FALSE)}
ClockAndTypo == {Spawn("clock", NoArg, TRUE), Spawn("nope", NoArg, FALSE)}
=============================================================================

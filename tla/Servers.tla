------------------------------- MODULE Servers ------------------------------
(***************************************************************************)
(* The programs of egos-2000 composed with the kernel: the system servers  *)
(* GPID_PROCESS, GPID_FILE and GPID_DIR, the shell, and the applications   *)
(* it starts (src/apps, src/library/servers, src/library/elf).             *)
(*                                                                         *)
(* A program is a control graph whose edges are the kernel's user-mode     *)
(* steps: each runs from the return of one system call to the next.  The   *)
(* label a process is at is its register context, so it is the kernel's    *)
(* save and restore that move it between cpu and ctx.                      *)
(***************************************************************************)
EXTENDS Kernel, Sequences
LOCAL INSTANCE SequencesExt

CONSTANTS
  LoadBlocks,   \* blocks of an executable after its ELF header
  Lines,        \* command lines the user may type
  MaxLines,     \* bound on the command lines typed
  Patient       \* the user starts a command only when no application is left

GPID_FILE == 2
GPID_DIR  == 3

(* The labels of the control graphs below.                                 *)
Labels == {"entry", "boot_load", "boot_recv", "loop", "request", "exit",
           "bin_sent", "bin_got", "app_sent", "app_got", "load", "load_sent",
           "load_got", "spawned", "read_sent", "read_got", "spawn_sent",
           "reply", "prompt", "next", "op_sent", "op_got", "exited", "FATAL"}

ASSUME ServersAssumption ==
  /\ Labels \subseteq Ctx /\ APPS_ENTRY = "entry"
  /\ GPID_SHELL = 4 /\ GPID_USER_START = 5
  /\ LoadBlocks \in Nat /\ MaxLines \in Nat /\ Patient \in BOOLEAN

VARIABLES
  prog,    \* the system program loaded for each pid, or "none"
  proc,    \* variables of sys_proc.c: app_ino, app_pid, shell_waiting, the
           \* request, its sender, the next block to load; boots is the
           \* number of calls of sys_spawn() that main() has made
  dir,     \* variables of sys_dir.c: the request and its sender
  shell,   \* variables of sys_shell.c: the request; lines typed so far
  app,     \* argv of each application, its inode and progress, by pid
  workdir_ino, workdir,  \* in struct grass, shared by all: the inode of the
                         \* working directory, and the names on its path
  overlapped             \* history: two cds have been under way at once

cwd      == <<workdir_ino, workdir, overlapped>>
progVars == <<prog, proc, dir, shell, app, cwd>>
allVars  == <<vars, progVars>>

-----------------------------------------------------------------------------
(* Messages (library/servers/servers.h).                                   *)

Spawn(cmd, arg, bg)  == [type |-> "PROC_SPAWN", cmd |-> cmd, arg |-> arg, bg |-> bg]
NoArg                == "none"
Exit                 == [type |-> "PROC_EXIT"]
Killall              == [type |-> "PROC_KILLALL"]
ProcReply(t)         == [type |-> t]
DirLookup(ino, name) == [type |-> "DIR_LOOKUP", ino |-> ino, name |-> name]
DirReply(ino)        == [type |-> "DIR_REPLY", ino |-> ino]
FileRead(ino, off)   == [type |-> "FILE_READ", ino |-> ino, off |-> off]
FileReply(ino, off)  == [type |-> "FILE_REPLY", ino |-> ino, off |-> off]
Notification         == [type |-> "NOTIFICATION"]

(* A line that parse_request() rejects: too many or too long arguments.    *)
Unparsable           == [type |-> "UNPARSABLE"]

-----------------------------------------------------------------------------
(* The disk image that tools/mkfs.c makes.  The text of a directory is the *)
(* sequence of its words, each followed by one blank; between two blanks   *)
(* is the empty word.                                                      *)

Entry(name, n)  == <<name, "", "", n>>
Entry2(name, n) == <<name, "", n>>      \* inode numbers of two digits

contents ==
  [ino \in {0, 1, 2, 3, 4, 6} |->
     CASE ino = 0 -> Entry("./", "0") \o Entry("../", "0")
                     \o Entry("home/", "1") \o Entry("bin/", "6")
       [] ino = 1 -> Entry("./", "1") \o Entry("../", "0") \o Entry("yunhao/", "2")
                     \o Entry("rvr/", "3") \o Entry("lorenzo/", "4")
       [] ino = 2 -> Entry("./", "2") \o Entry("../", "1") \o Entry("README", "5")
       [] ino = 3 -> Entry("./", "3") \o Entry("../", "1")
       [] ino = 4 -> Entry("./", "4") \o Entry("../", "1")
       [] ino = 6 -> Entry("./", "6") \o Entry("../", "0") \o Entry("echo", "7")
                     \o Entry("cat", "8") \o Entry("ls", "9") \o Entry2("cd", "10")
                     \o Entry2("pwd", "11") \o Entry2("clock", "12")
                     \o Entry2("crash1", "13") \o Entry2("crash2", "14")
                     \o Entry2("ult", "15")]

(* The inodes that hold an ELF file.                                       *)
Executables == 7 .. 15

Numerals == <<"0", "1", "2", "3", "4", "5", "6", "7",
              "8", "9", "10", "11", "12", "13", "14", "15">>

(* C's atoi() of a word: 0 if it is not a number.                          *)
atoi(word) == IF \E n \in 1 .. 16 : Numerals[n] = word
              THEN (CHOOSE n \in 1 .. 16 : Numerals[n] = word) - 1 ELSE 0

(* The number after the first word of buf that is name, blanks skipped.    *)
dir_do_lookup(buf, name) ==
  LET at   == SelectInSeq(buf, LAMBDA word : word = name)
      next == SelectInSubSeq(buf, at + 1, Len(buf), LAMBDA word : word # "")
  IN IF at = 0 THEN -1 ELSE IF next = 0 THEN 0 ELSE atoi(buf[next])

strlen(buf) == FoldLeft(LAMBDA sum, word : sum + Len(word) + 1, 0, buf)

(* strlen(buf) - namelen wraps: the scan runs on behind the block and out  *)
(* of memory.                                                              *)
Overruns(buf, name) == Len(name) > strlen(buf)

SInit ==
  /\ Init
  /\ prog = [p \in Pids |-> IF p = GPID_PROCESS THEN "sys_proc" ELSE "none"]
  /\ \E b \in BOOLEAN :   \* shell_waiting starts uninitialized
       proc = [app_ino |-> 0, app_pid |-> 0, shell_waiting |-> b,
               sender |-> 0, req |-> Notification, off |-> 0, boots |-> 0]
  /\ dir = [sender |-> 0, req |-> Notification]
  /\ shell = [req |-> Spawn("cd", NoArg, FALSE), typed |-> 0]
  /\ app = [p \in Pids |-> [cmd |-> "none", arg |-> NoArg, done |-> 0,
                          ino |-> 0]]
  /\ workdir_ino = -1 /\ workdir = <<"?">>   \* uninitialized
  /\ overlapped = FALSE

UserPids == GPID_USER_START .. MaxPid

At(p, label) == InUser /\ curr_pid = p /\ cpu = label

(* The current process was loaded from this system program, whatever pid   *)
(* proc_alloc() gave it.                                                   *)
Runs(program) == prog[curr_pid] = program

Live(p) == \E i \in Slots : pid[i] = p /\ status[i] # "UNUSED"
InState(p, s) == \E i \in Slots : pid[i] = p /\ status[i] = s
LabelIs(p, label) == \E i \in Slots : /\ pid[i] = p
                                     /\ status[i] # "UNUSED"
                                     /\ ContextOf(i) = label

(* What sys_recv() returned to the current process.                        *)
got == sc_msg[curr_vm_pid]

(* FATAL() in a program: it loops for ever.                                *)
Abort == UserStep("FATAL")

-----------------------------------------------------------------------------
(* GPID_PROCESS: boot (sys_spawn and the notifications of the servers).    *)

BootAlloc ==
  /\ At(GPID_PROCESS, "entry")
  /\ proc_alloc("boot_load")
  /\ UNCHANGED progVars

(* The executables that main() hands to sys_spawn(), in its order.         *)
BootOrder_swapped == <<"sys_dir", "sys_file", "sys_shell">>
BootOrder == <<"sys_file", "sys_dir", "sys_shell">>

(* main() waits for a message after the first two, and not for the shell.  *)
AfterBoot_early == IF proc.boots + 1 >= 2 THEN "loop" ELSE "boot_recv"
AfterBoot == IF proc.boots + 1 = 3 THEN "loop" ELSE "boot_recv"

BootLoad ==
  /\ At(GPID_PROCESS, "boot_load")
  /\ proc_set_ready(proc_nprocs, AfterBoot)
  /\ prog' = [prog EXCEPT ![proc_nprocs] = BootOrder[proc.boots + 1]]
  /\ proc' = [proc EXCEPT !.boots = @ + 1]
  /\ UNCHANGED <<dir, shell, app, cwd>>

BootRecv ==
  /\ At(GPID_PROCESS, "boot_recv")
  /\ sys_recv("entry")
  /\ UNCHANGED progVars

(* GPID_PROCESS: the request loop.                                         *)
ProcRecv ==
  /\ At(GPID_PROCESS, "loop")
  /\ sys_recv("request")
  /\ UNCHANGED progVars

ProcSpawn ==
  /\ At(GPID_PROCESS, "request")
  /\ got.content.type = "PROC_SPAWN"
  /\ proc' = [proc EXCEPT !.sender = got.sender, !.req = got.content]
  /\ sys_send(GPID_DIR, DirLookup(0, "bin/"), "bin_sent")
  /\ UNCHANGED <<prog, dir, shell, app, cwd>>

ProcExit ==
  /\ At(GPID_PROCESS, "request")
  /\ got.content.type = "PROC_EXIT"
  /\ proc' = [proc EXCEPT !.sender = got.sender]
  /\ proc_free(got.sender, "exit")
  /\ UNCHANGED <<prog, dir, shell, app, cwd>>

(* PROC_KILLALL, and the default case of the switch, which is FATAL.       *)
ProcKillall ==
  /\ At(GPID_PROCESS, "request")
  /\ got.content.type \notin {"PROC_SPAWN", "PROC_EXIT"}
  /\ proc' = [proc EXCEPT !.sender = got.sender]
  /\ IF got.content.type = "PROC_KILLALL" THEN proc_free_all("loop") ELSE Abort
  /\ UNCHANGED <<prog, dir, shell, app, cwd>>

(* The end of the PROC_EXIT case: tell the shell if it waits for this one. *)
ExitIsForeground_inverted ==
  proc.shell_waiting /\ proc.app_pid # proc.sender
ExitIsForeground == proc.shell_waiting /\ proc.app_pid = proc.sender

ProcNotify ==
  /\ At(GPID_PROCESS, "exit")
  /\ IF ExitIsForeground THEN sys_send(GPID_SHELL, Exit, "loop")
                         ELSE UserStep("loop")
  /\ UNCHANGED progVars

(* GPID_PROCESS: app_spawn().  dir_lookup() and file_read() send a request *)
(* and then receive from anyone; they are FATAL if the server they asked   *)
(* is not the sender.                                                      *)
ReceiveReply(p, sent, label) ==
  /\ At(p, sent)
  /\ sys_recv(label)
  /\ UNCHANGED progVars

WrongSender(p, label, server) ==
  /\ At(p, label)
  /\ got.sender # server
  /\ Abort
  /\ UNCHANGED progVars

ReplyFrom(p, label, server) == At(p, label) /\ got.sender = server

SpawnLookup ==
  /\ ReplyFrom(GPID_PROCESS, "bin_got", GPID_DIR)
  /\ sys_send(GPID_DIR, DirLookup(got.content.ino, proc.req.cmd), "app_sent")
  /\ UNCHANGED progVars

(* The reply to the shell that ends the PROC_SPAWN case.                   *)
SpawnReply(t) ==
  /\ proc' = [proc EXCEPT !.shell_waiting = ~ proc.req.bg]
  /\ sys_send(GPID_SHELL, ProcReply(t), "loop")

(* The command does not exist: app_spawn() returns before it sets app_pid. *)
NoSuchCommand_zero == got.content.ino = 0
NoSuchCommand == got.content.ino < 0

SpawnFails ==
  /\ ReplyFrom(GPID_PROCESS, "app_got", GPID_DIR)
  /\ NoSuchCommand
  /\ SpawnReply("CMD_ERROR")
  /\ UNCHANGED <<prog, dir, shell, app, cwd>>

SpawnAlloc ==
  /\ ReplyFrom(GPID_PROCESS, "app_got", GPID_DIR)
  /\ ~ NoSuchCommand
  /\ proc_alloc("load")
  /\ proc' = [proc EXCEPT !.app_ino = got.content.ino,
                          !.app_pid = proc_nprocs', !.off = 0]
  /\ UNCHANGED <<prog, dir, shell, app, cwd>>

(* elf_load() with app_read(): the header, then the blocks of the program. *)
LoadRead_header(off) ==
  sys_send(GPID_FILE, FileRead(proc.app_ino, 0), "load_sent")
LoadRead(off) == sys_send(GPID_FILE, FileRead(proc.app_ino, off), "load_sent")

LoadFirst ==
  /\ At(GPID_PROCESS, "load")
  /\ LoadRead(0)
  /\ UNCHANGED progVars

MoreBlocks == proc.off < LoadBlocks

(* elf_load() takes the block for an ELF header whatever it holds.  A      *)
(* directory that ends before the 44 bytes in front of e_phnum has no      *)
(* program headers, since mkfs.c fills the block with zeros: nothing is    *)
(* loaded.  In a longer one e_phoff is text, and the address it gives is   *)
(* outside the memory.                                                     *)
NoHeaders ==
  proc.app_ino \in DOMAIN contents /\ strlen(contents[proc.app_ino]) <= 44

LoadDirectory ==
  /\ ReplyFrom(GPID_PROCESS, "load_got", GPID_FILE)
  /\ proc.app_ino \notin Executables /\ ~ NoHeaders
  /\ Exception
  /\ UNCHANGED progVars

LoadNext ==
  /\ ReplyFrom(GPID_PROCESS, "load_got", GPID_FILE)
  /\ proc.app_ino \in Executables
  /\ MoreBlocks
  /\ LoadRead(proc.off + 1)
  /\ proc' = [proc EXCEPT !.off = @ + 1]
  /\ UNCHANGED <<prog, dir, shell, app, cwd>>

(* The last block is in and the arguments are on the stack page; or        *)
(* elf_load() had nothing to load, and the process has no pages.           *)
LoadDone ==
  /\ ReplyFrom(GPID_PROCESS, "load_got", GPID_FILE)
  /\ NoHeaders \/ (proc.app_ino \in Executables /\ ~ MoreBlocks)
  /\ proc_set_ready(proc.app_pid, "spawned")
  /\ app' = [app EXCEPT ![proc.app_pid].cmd = proc.req.cmd,
                        ![proc.app_pid].arg = proc.req.arg]
  /\ UNCHANGED <<prog, proc, dir, shell, cwd>>

Spawned ==
  /\ At(GPID_PROCESS, "spawned")
  /\ SpawnReply("CMD_OK")
  /\ UNCHANGED <<prog, dir, shell, app, cwd>>

ProcessServer ==
  \/ BootAlloc \/ BootLoad \/ BootRecv
  \/ ProcRecv \/ ProcSpawn \/ ProcExit \/ ProcKillall \/ ProcNotify
  \/ ReceiveReply(GPID_PROCESS, "bin_sent", "bin_got")
  \/ ReceiveReply(GPID_PROCESS, "app_sent", "app_got")
  \/ ReceiveReply(GPID_PROCESS, "load_sent", "load_got")
  \/ WrongSender(GPID_PROCESS, "bin_got", GPID_DIR)
  \/ WrongSender(GPID_PROCESS, "app_got", GPID_DIR)
  \/ WrongSender(GPID_PROCESS, "load_got", GPID_FILE)
  \/ SpawnLookup \/ SpawnFails \/ SpawnAlloc
  \/ LoadFirst \/ LoadDirectory \/ LoadNext \/ LoadDone \/ Spawned

-----------------------------------------------------------------------------
(* sys_file and sys_dir start by notifying GPID_PROCESS.                   *)
ServerBoot ==
  /\ At(curr_pid, "entry")
  /\ sys_send(GPID_PROCESS, Notification, "loop")
  /\ UNCHANGED progVars

ServerRecv ==
  /\ At(curr_pid, "loop")
  /\ sys_recv("request")
  /\ UNCHANGED progVars

(* Any request but the one a server implements is FATAL.                   *)
FileServe ==
  /\ At(curr_pid, "request")
  /\ IF got.content.type = "FILE_READ"
     THEN sys_send(got.sender, FileReply(got.content.ino, got.content.off), "loop")
     ELSE Abort
  /\ UNCHANGED progVars

FileServer == Runs("sys_file") /\ (ServerBoot \/ ServerRecv \/ FileServe)

DirServe ==
  /\ At(curr_pid, "request")
  /\ dir' = [sender |-> got.sender, req |-> got.content]
  /\ IF got.content.type = "DIR_LOOKUP"
     THEN sys_send(GPID_FILE, FileRead(got.content.ino, 0), "read_sent")
     ELSE Abort
  /\ UNCHANGED <<prog, proc, shell, app, cwd>>

DirAnswer ==
  /\ ReplyFrom(curr_pid, "read_got", GPID_FILE)
  /\ LET buf == contents[got.content.ino]
     IN IF Overruns(buf, dir.req.name) THEN Exception
        ELSE sys_send(dir.sender, DirReply(dir_do_lookup(buf, dir.req.name)), "loop")
  /\ UNCHANGED progVars

DirServer ==
  /\ Runs("sys_dir")
  /\ \/ ServerBoot \/ ServerRecv
     \/ DirServe
     \/ ReceiveReply(curr_pid, "read_sent", "read_got")
     \/ WrongSender(curr_pid, "read_got", GPID_FILE)
     \/ DirAnswer

-----------------------------------------------------------------------------
(* The shell runs "cd" first and then the lines that tty_read() returns.   *)
ShellSend(req, label) ==
  /\ shell' = [shell EXCEPT !.req = req]
  /\ sys_send(GPID_PROCESS, req, label)

ShellStart ==
  /\ At(curr_pid, "entry")
  /\ ShellSend(shell.req, "spawn_sent")
  /\ UNCHANGED <<prog, proc, dir, app, cwd>>

(* Wait for the foreground command to terminate.                           *)
WaitForeground_always == got.content.type = "CMD_OK"
WaitForeground == got.content.type = "CMD_OK" /\ ~ shell.req.bg

ShellReply ==
  /\ At(curr_pid, "reply")
  /\ IF WaitForeground
     THEN sys_recv("prompt")
     ELSE UserStep("prompt")
  /\ UNCHANGED progVars

NoApps == \A i \in Slots : pid[i] >= GPID_USER_START => status[i] = "UNUSED"

(* The user types a line; killall gets no answer, a bad line is dropped.   *)
ShellType(line) ==
  /\ Runs("sys_shell")
  /\ At(curr_pid, "prompt")
  /\ shell.typed < MaxLines
  /\ Patient /\ line # Killall => NoApps
  /\ shell' = [req |-> line, typed |-> shell.typed + 1]
  /\ IF line = Unparsable
     THEN UserStep("prompt")
     ELSE sys_send(GPID_PROCESS, line,
                   IF line = Killall THEN "prompt" ELSE "spawn_sent")
  /\ UNCHANGED <<prog, proc, dir, app, cwd>>

ShellStep ==
  /\ Runs("sys_shell")
  /\ \/ ShellStart
     \/ ReceiveReply(curr_pid, "spawn_sent", "reply")
     \/ ShellReply

-----------------------------------------------------------------------------
(* Applications: the requests that main() makes, and the stores to the     *)
(* shared path, then exit() from app.s.  echo, pwd and clock make none, and *)
(* neither does a usage message.                                           *)
Program(p) ==
  LET cmd == app[p].cmd
      arg == app[p].arg
  IN CASE cmd = "cd" /\ arg = NoArg  -> <<"cd_home", "cd_yunhao", "cd_strcpy">>
       [] cmd = "cd" /\ arg # NoArg  -> <<"cd_lookup", "cd_path">>
       [] cmd = "cat" /\ arg # NoArg -> <<"cat_lookup", "cat_read">>
       [] cmd = "ls" /\ arg = NoArg  -> <<"ls_read">>
       [] OTHER                      -> << >>

Finished(p) == app[p].done >= Len(Program(p))
Op(p) == Program(p)[app[p].done + 1]
ServerOf(op) == IF op \in {"cat_read", "ls_read"} THEN GPID_FILE ELSE GPID_DIR
Stores == {"cd_strcpy", "cd_path"}

RequestOf(p) ==
  CASE Op(p) = "cd_home"    -> DirLookup(0, "home/")
    [] Op(p) = "cd_yunhao"  -> DirLookup(app[p].ino, "yunhao/")
    [] Op(p) = "cd_lookup"  -> DirLookup(workdir_ino, app[p].arg \o "/")
    [] Op(p) = "cat_lookup" -> DirLookup(workdir_ino, app[p].arg)
    [] Op(p) = "cat_read"   -> FileRead(app[p].ino, 0)
    [] Op(p) = "ls_read"    -> FileRead(workdir_ino, 0)

(* This cd has asked for its directory and has not made its last store.    *)
InCd(p) ==
  Live(p) /\ app[p].cmd = "cd" /\ ~ Finished(p) /\ ~ LabelIs(p, "entry")

AppRequest(p) ==
  /\ At(p, "entry") \/ At(p, "next")
  /\ ~ Finished(p) /\ Op(p) \notin Stores
  /\ sys_send(ServerOf(Op(p)), RequestOf(p), "op_sent")
  /\ overlapped' = \/ overlapped
                   \/ app[p].cmd = "cd" /\ \E q \in UserPids \ {p} : InCd(q)
  /\ UNCHANGED <<prog, proc, dir, shell, app, workdir_ino, workdir>>

(* dir_lookup() or file_read() returns, or stops in FATAL.  cat and cd     *)
(* return early if there is no such file or directory.                     *)
AppReply(p) ==
  /\ At(p, "op_got")
  /\ IF got.sender = ServerOf(Op(p))
     THEN /\ LET absent == /\ Op(p) \in {"cat_lookup", "cd_lookup"}
                           /\ got.content.ino < 0
             IN /\ app' = [app EXCEPT
                             ![p].done = IF absent THEN Len(Program(p)) ELSE @ + 1,
                             ![p].ino = got.content.ino]
                /\ workdir_ino' = IF Op(p) \in {"cd_yunhao", "cd_lookup"} /\ ~ absent
                                  THEN got.content.ino ELSE workdir_ino
          /\ UserStep("next")
     ELSE Abort /\ UNCHANGED <<app, workdir_ino>>
  /\ UNCHANGED <<prog, proc, dir, shell, workdir, overlapped>>

(* The path after "cd name": "./" keeps it and "../" cuts its last name,   *)
(* if it has one.                                                          *)
CdPath_appends(name) == IF name = "./" THEN workdir ELSE Append(workdir, name)
CdPath(name) == CASE name = "./"  -> workdir
                  [] name = "../" -> SubSeq(workdir, 1, Len(workdir) - 1)
                  [] OTHER        -> Append(workdir, name)

(* cd stores the path after, and apart from, the inode.                    *)
AppStore(p) ==
  /\ At(p, "next")
  /\ ~ Finished(p) /\ Op(p) \in Stores
  /\ workdir' = IF Op(p) = "cd_strcpy" THEN <<"home/", "yunhao/">>
                                       ELSE CdPath(app[p].arg \o "/")
  /\ app' = [app EXCEPT ![p].done = @ + 1]
  /\ UserStep("next")
  /\ UNCHANGED <<prog, proc, dir, shell, workdir_ino, overlapped>>

AppExit(p) ==
  /\ At(p, "entry") \/ At(p, "next")
  /\ Finished(p)
  /\ sys_send(GPID_PROCESS, Exit, "exited")
  /\ UNCHANGED progVars

AppStep(p) ==
  \/ AppRequest(p)
  \/ ReceiveReply(p, "op_sent", "op_got")
  \/ AppReply(p)
  \/ AppStore(p)
  \/ AppExit(p)

SNext ==
  \/ (SoftIntr \/ TimerIntr \/ TimerIgnored \/ CtrlC \/ Hang)
     /\ UNCHANGED progVars
  \/ ProcessServer \/ FileServer \/ DirServer \/ ShellStep
  \/ \E line \in Lines : ShellType(line)
  \/ \E p \in UserPids : AppStep(p)

(* Traps are taken, the timer fires again and again, and in each of its    *)
(* time slices a process executes instructions.                            *)
Fairness ==
  /\ WF_allVars(SoftIntr /\ UNCHANGED progVars)
  /\ WF_allVars(TimerIntr /\ UNCHANGED progVars)
  /\ SF_allVars(ProcessServer) /\ SF_allVars(FileServer)
  /\ SF_allVars(DirServer) /\ SF_allVars(ShellStep)
  /\ \A p \in UserPids : SF_allVars(AppStep(p))

SSpec == SInit /\ [][SNext]_allVars /\ Fairness

-----------------------------------------------------------------------------
(* Correctness.                                                            *)

(* Boot gives each program the pid that its clients address, the GPIDs of  *)
(* servers.h, although it only calls proc_alloc() and takes what comes;    *)
(* and before GPID_PROCESS serves its first request GPID_FILE and GPID_DIR *)
(* have sent the message with which they announce themselves.              *)
BootedInOrder ==
  /\ \A p \in Pids :
       /\ prog[p] = "sys_file"  => p = GPID_FILE
       /\ prog[p] = "sys_dir"   => p = GPID_DIR
       /\ prog[p] = "sys_shell" => p = GPID_SHELL
  /\ LabelIs(GPID_PROCESS, "request") =>
       /\ prog[GPID_FILE] = "sys_file" /\ ~ LabelIs(GPID_FILE, "entry")
       /\ prog[GPID_DIR] = "sys_dir" /\ ~ LabelIs(GPID_DIR, "entry")

(* The checks in dir_lookup() and file_read(), "sender != GPID_DIR" and     *)
(* "sender != GPID_FILE": what is received after a request to a server is  *)
(* from that server.                                                       *)
ServerAsked ==
  CASE cpu \in {"bin_got", "app_got"}   -> GPID_DIR
    [] cpu \in {"load_got", "read_got"} -> GPID_FILE
    [] cpu = "op_got"                   -> ServerOf(Op(curr_pid))
RepliesFromServers ==
  InUser /\ cpu \in {"bin_got", "app_got", "load_got", "read_got", "op_got"} =>
    got.sender = ServerAsked

(* proc_yield() always finds a process to run: the servers, the shell and  *)
(* the applications are never all waiting for one another.                 *)
SomeoneRuns == fatal # "no runnable process"

(* No program and no kernel function stops in FATAL.                       *)
NoFatal == Alive /\ \A p \in Pids : ~ LabelIs(p, "FATAL")

(* While the shell waits for its foreground command, that command is still *)
(* there or sys_proc is about to report its exit.                          *)
ShellAwaitsLiveCommand ==
  InState(GPID_SHELL, "WAIT_TO_RECV") /\ LabelIs(GPID_SHELL, "prompt") =>
    \/ Live(proc.app_pid) /\ proc.app_pid >= GPID_USER_START /\ proc.shell_waiting
    \/ LabelIs(GPID_PROCESS, "exit") /\ ExitIsForeground
    \/ LabelIs(GPID_PROCESS, "loop") /\ sc_msg[GPID_PROCESS].content = Exit

(* The table of tools/mkfs.c, "Inode - File/Directory mappings": the path  *)
(* of each inode.                                                          *)
PathOf ==
  LET home == <<"home/">>
      bin  == <<"bin/">>
      dirs == << << >>, home, home \o <<"yunhao/">>, home \o <<"rvr/">>,
                 home \o <<"lorenzo/">>, home \o <<"yunhao/", "README">>, bin>>
      cmds == <<"echo", "cat", "ls", "cd", "pwd", "clock", "crash1", "crash2", "ult">>
  IN [n \in 0 .. 15 |-> IF n <= 6 THEN dirs[n + 1] ELSE Append(bin, cmds[n - 6])]

(* Words that dir_do_lookup() finds in /bin and that name no program: the  *)
(* empty word of a blank line, an inode number, and the two directories.   *)
OddNames == {"", "./", "../"} \cup {Numerals[n] : n \in DOMAIN Numerals}

(* The last name on the path of an inode.                                  *)
NameOf(n) == IF PathOf[n] = << >> THEN "/" ELSE Last(PathOf[n])

(* A reply answers the request its client made, in whatever order the      *)
(* servers worked: same inode, same block, and an inode of the name that   *)
(* was looked up; and sys_proc loads the program that mkfs.c keeps under   *)
(* the name in the request, or none.                                       *)
RepliesMatch ==
  InUser =>
    /\ cpu = "load_got" /\ got.sender = GPID_FILE =>
         got.content = FileReply(proc.app_ino, proc.off)
    /\ cpu = "read_got" /\ got.sender = GPID_FILE =>
         got.content = FileReply(dir.req.ino, 0)
    /\ cpu = "app_got" /\ got.sender = GPID_DIR /\ proc.req.cmd \notin OddNames =>
         LET named == {n \in Executables : PathOf[n] = <<"bin/", proc.req.cmd>>}
         IN got.content.ino \in IF named = {} THEN {-1} ELSE named
    /\ cpu = "op_got" /\ got.sender = ServerOf(Op(curr_pid)) =>
         CASE Op(curr_pid) = "cd_home"   -> got.content = DirReply(1)
           [] Op(curr_pid) = "cd_yunhao" -> got.content = DirReply(2)
           [] Op(curr_pid) \in {"cd_lookup", "cat_lookup"} ->
                \/ got.content.ino = -1 \/ app[curr_pid].arg = ".."
                \/ NameOf(got.content.ino) \in {app[curr_pid].arg, app[curr_pid].arg \o "/"}
           [] Op(curr_pid) = "cat_read"  -> got.content = FileReply(app[curr_pid].ino, 0)
           [] Op(curr_pid) = "ls_read"   -> got.content.type = "FILE_REPLY"

(* A process with nothing loaded: it would run whatever the process mapped *)
(* before it has left in memory.                                           *)
Pageless(p) == Live(p) /\ app[p].cmd \in OddNames

(* No name makes sys_proc or sys_dir leave their memory, and the kernel    *)
(* stop, but the odd ones and those of more than 15 characters, the length *)
(* of the shortest directory; and app_spawn() makes no process ready       *)
(* without a program for any other name.                                   *)
OnlyOddNamesTrap ==
  /\ fatal = "exception" =>
       \/ curr_pid = GPID_PROCESS /\ proc.req.cmd \in OddNames
       \/ curr_pid = GPID_DIR /\ Len(dir.req.name) > 15
  /\ At(GPID_PROCESS, "spawned") /\ proc.app_ino \notin Executables =>
       proc.req.cmd \in OddNames

(* A cd is between its store to workdir_ino and its store to workdir.      *)
MidCd(p) == ~ Finished(p) /\ Op(p) \in Stores

(* The prompt tells the truth: the path in struct grass, which cd edits    *)
(* name by name, is the path of the inode that lookups use, whatever runs  *)
(* in the background, except between the two stores of a cd.  Two cds that *)
(* overlap may both start from the same inode and then both edit the path, *)
(* so that it stays wrong: after those nothing is promised.                *)
PathIsWorkdir ==
  workdir_ino # -1 /\ ~ overlapped /\ (\A p \in UserPids : ~ MidCd(p)) =>
    workdir = PathOf[workdir_ino]

(* Even when commands overlap, only GPID_PROCESS and GPID_DIR can stop in  *)
(* FATAL, and only because a client's message reached them while they      *)
(* waited for a server's: applications and GPID_FILE never do.             *)
OnlyInterlopersAreFatal ==
  \A p \in Pids : LabelIs(p, "FATAL") =>
    p \in {GPID_PROCESS, GPID_DIR} /\ sc_msg[p].sender \notin {0, GPID_FILE, GPID_DIR}

(* The shell has returned to its prompt.                                   *)
AtPrompt ==
  \E i \in Slots : /\ pid[i] = GPID_SHELL
                   /\ IsRunnable(status[i])
                   /\ ContextOf(i) = "prompt"
                   /\ ~ (msip /\ i = proc_curr_idx)

(* Every command gives the prompt back: the shell waits for the end of a   *)
(* foreground command only, and sys_proc reports it.                       *)
PromptReturns == []<>AtPrompt

(* The slots of applications that have called exit() are freed, all of     *)
(* them again and again: sys_proc does not fall behind.                    *)
ExitedAreFreed == []<>(\A p \in UserPids : ~ LabelIs(p, "exited"))
=============================================================================

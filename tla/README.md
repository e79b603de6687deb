# egos-2000 in TLA+

This directory models egos-2000, a teaching operating system for RISC-V in
about 2000 lines of C, checks the models with TLC and proves the main
properties of its kernel with TLAPS. Every definition is written from the code
under `src/`; `PROJECT.json` maps each one to the lines it stands for.

## 1. The system

egos-2000 has one hart and three layers.

| Part | State | Operations | Code |
|---|---|---|---|
| grass kernel | process table, current slot, saved contexts | timer and software interrupts, exceptions, Ctrl+C, `proc_yield` | `grass/kernel.c` |
| process control | the same table, `proc_nprocs` | `proc_alloc`, `proc_set_ready`, `proc_free` | `grass/process.c` |
| system calls | one `struct syscall` per address space, the MSIP flag | `sys_send`, `sys_recv`, `proc_send`, `proc_recv` | `grass/syscall.c`, `kernel.c` |
| GPID_PROCESS | the command being started, `app_pid`, `shell_waiting` | boot, spawn, exit, killall | `apps/system/sys_proc.c` |
| GPID_FILE | none between requests | read a block of an inode | `apps/system/sys_file.c` |
| GPID_DIR | the request in progress | look a name up | `apps/system/sys_dir.c` |
| shell | the command line | read a line, spawn, wait | `apps/system/sys_shell.c` |
| client library | none | `dir_lookup`, `file_read`, `exit` | `library/servers/servers.c` |
| applications | working directory (shared) | cd, cat, ls, clock, echo, pwd, crash1, crash2 | `apps/user` |
| treedisk | superblock, inodes, free list, trees | create, getsize, read, write | `library/file/file.c` |
| software TLB, frames | frame table, mapped process | alloc, map, switch, free | `earth/cpu_mmu.c` |
| paging device | cache slots over 256 frames | read, write, evict, invalidate | `earth/dev_page.c` |
| ELF loader | the page being filled | load a process | `library/elf/elf.c` |
| tty, timer | character, `is_reading`; `mtime`, `mtimecmp` | `tty_read`, `tty_recv_intr`; `timer_reset` | `earth/dev_tty.c`, `cpu_timer.c` |
| disk and SD card | card type, bytes under way | `disk_read`, `disk_write`, `sdinit`, commands and data blocks over SPI | `earth/dev_disk.c`, `earth/sd` |
| UART and GPIO registers, boot | device registers | configuration | `earth/` |
| host tools | the disk image | mkfs, mkrom | `tools/` |

How they interact: a process asks for a system call by filling its
`struct syscall` and raising MSIP. The kernel switches address spaces to copy a
message from a sender to a receiver. A send blocks until its receiver receives,
so servers and clients wait for one another. The shell asks GPID_PROCESS to
spawn; GPID_PROCESS asks GPID_DIR for the inode and GPID_FILE for the blocks;
GPID_DIR asks GPID_FILE. Applications ask GPID_DIR and GPID_FILE, and send
PROC_EXIT to GPID_PROCESS when they end.

What makes it hard: the two halves of a rendezvous arrive in either order with
preemptions in between; freed slots keep their pid; the kernel reads system
call arguments through whatever address space is mapped; servers receive from
anyone while they wait for a particular reply; killall frees processes in the
middle of a request; a block of the disk moves from the free list to a tree
through several writes.

What must hold, part by part:

| Part | Hard behaviour | Property |
|---|---|---|
| kernel | preemption between the two halves of a rendezvous; one MSIP flag for all | `NoMissedRendezvous`, `SyscallIsPosted`, `CurrentRuns` |
| process control | reuse of slots whose pid and registers remain | `UniquePids`, `ContextsPreserved` |
| system calls | a send and a receive that complete in different traps | `ImplementsRendezvous` |
| servers, client library | replies while other clients send | `RepliesMatch`, `RepliesFromServers`, `OnlyInterlopersAreFatal` |
| GPID_PROCESS at boot | servers whose pids depend on the order they are started in | `BootedInOrder`, `NoFatal` |
| GPID_PROCESS, shell | exits, failed spawns and killall against a waiting shell | `PromptReturns`, `ShellAwaitsLiveCommand`, `ExitedAreFreed`, `NoFatal`, `SomeoneRuns` |
| treedisk | blocks move between list and trees in several writes | `EveryBlockOnce`, `ReadsBack`, `FullWhenFull`, `CallsReturn` |
| frames, paging device | a cache smaller than two processes | `IntactUnlessStale`, `CacheExact`, `FramesSuffice`, `EvictsOnlyFrames` |
| ELF loader | a pointer into the cache kept over a switch | `PagesIntact`, `LoadsImage` |
| tty | an interrupt that shares the variable and the UART of a reader; a buffer index that wraps | `LineIsWhatWasTyped`, `CancelledNeverRuns` |
| shell's parser | words and lines at their limits | `ParsesWords` |
| timer | a 64-bit clock read, and a deadline written, in halves | `TimeIsReal`, `NoEarlyDeadline`, `SliceIsShort` |
| disk driver | busy and refusing cards, left-over bytes | `CommandsMeetIdleCard`, `OnlyFaultsAreFatal`, `RequestsReturn`, `ImplementsBlockDevice` |
| disk layout | two programs that must agree on places | `ImageIsFound` |
| GPID_DIR | a search over text that also matches numbers and blanks | `RepliesMatch`, `OnlyOddNamesTrap` |
| cd | a working directory in two variables, shared by all | `PathIsWorkdir` |

## 2. Modules

| Module | What it models |
|---|---|
| `Kernel` | `grass/kernel.c`, `process.c`, `syscall.c`, `grass.c` |
| `Rendezvous` | the promise of `sys_send` and `sys_recv`: synchronous message passing |
| `KernelProofs` | the inductive invariant of `Kernel` and its safety theorems |
| `KernelIPCProofs` | contexts are preserved; `Kernel` implements `Rendezvous` |
| `Servers` | the programs of `apps/system` and `apps/user` composed with `Kernel` |
| `TreeDisk` | `library/file/file.c` |
| `Paging` | `earth/cpu_mmu.c`, `earth/dev_page.c`, `load_app` of `library/elf/elf.c` |
| `DiskImage` | `main` of `tools/mkfs.c`, `library/file/disk.h` and `disk.c`: the places of everything on the disk |
| `SdCard` | `earth/dev_disk.c` and `earth/sd`: the bytes exchanged with the card |
| `BlockDevice` | the promise of `disk_read` and `disk_write` |
| `Timer` | `earth/cpu_timer.c` |
| `Console` | `earth/dev_tty.c` and `parse_request` of the shell, with `Timer` |
| `MCKernel`, `MCCtrlC`, `MCServers`, `MCTreeDisk`, `MCPaging`, `MCSdCard`, `MCConsole` | small instances for TLC |

### Kernel

A trap handler runs with interrupts off, so one action is a whole
`kernel_entry()`: it saves the interrupted context (`SavedCtx`), handles the
cause, and restores the context of whoever is current then. `pid`, `status`,
`ctx` and `receiver_pid` are the fields of `proc_set`, by slot. A register
context is one value; `cpu` holds the one in the CPU. `sc_type`, `sc_msg` and
`sc_retval` are the `struct syscall` at SYSCALL_ARG, one per address space, and
`curr_vm_pid` says which of them the kernel sees: `proc_send` and `proc_recv`
read through it exactly where the code does.

| Action | Code |
|---|---|
| `SoftIntr` (`proc_syscall`, `proc_send`, `proc_recv`) | `intr_entry`, `kernel.c:69`, 111-185 |
| `TimerIntr`, `TimerIgnored` (`proc_yield`) | `intr_entry`, `kernel.c:54-70`, 73-109 |
| `CtrlC` | `kernel.c:61-66` |
| `Exception`, `Hang` | `excp_entry`, `tty_fatal` |
| `sys_send`, `sys_recv`, `UserStep` | `syscall.c`, and any user code |
| `proc_alloc`, `proc_set_ready`, `proc_free`, `proc_free_all` | `process.c` |

User code is unconstrained: the current process may compute, call or fault at
any time. What is proved of `Kernel` therefore holds for all programs. The
process control functions are plain calls through `struct grass`; only
`sys_proc.c` makes them, and so does the model.

### Rendezvous

Four variables: whether a process is unborn, live or freed, the call it is in,
its message box, and whether its last call was refused. A `HandOver` completes
one send and one receive at once and copies one message. A call ends in no
other way, except that a send is refused (`Refuse`) when its receiver does not
exist, and that a process is freed together with its call (`Free`); a freed
process never lives again. The mapping from `Kernel` (`lifeBar`, `callBar`,
`boxBar`, `refusedBar`) reads the life of a process from the table and
`proc_nprocs`, and its call from its status, or from its request while MSIP is
pending.

### Servers

A program is a control graph. Its label is the register context of its process,
so `Kernel`'s save and restore are what moves a program from `cpu` to `ctx` and
back. An edge runs from the return of one system call to the next call and is a
conjunction of a `Kernel` action (`sys_send`, `sys_recv`, `proc_alloc`, ...)
with the program's variables. Messages are records with the fields the code
looks at; an executable is `LoadBlocks` blocks behind its header.

At boot `BootLoad` loads the executables in the order of `main()` (`BootOrder`)
for whatever pid `proc_alloc` returned and records them in `prog`; the steps of
a server or the shell are those of the process its program was loaded for.
Clients address the GPIDs of `servers.h`, so it is a property, `BootedInOrder`,
and not a definition, that the two agree.

`contents` are the directories of `tools/mkfs.c` as the words between blanks.
`dir_do_lookup` searches these words as the code searches the text: a name is
found where a whole word equals it, and the inode is the number that follows.
An inode number, the empty word between two blanks, `./` and `../` are words
too, and as commands they make GPID_PROCESS load a directory as an ELF file. A
blank line and `./` find `/bin`: `e_phoff` is text there, the address it gives
is outside the memory, and the kernel stops (`LoadDirectory`). A numeral and
`../` find the root directory, which ends before `e_phnum` (`NoHeaders`):
nothing is loaded, and a process without pages becomes ready. It would run what
the process mapped before it left in memory; the model stops there. A name
longer than the directory makes `strlen(buf) - namelen` wrap in GPID_DIR, and
the scan runs out of memory (`Overruns`).

cd, cat and ls run with and without an argument. cd sets `workdir_ino` when its
lookup returns and edits the path `workdir` in a later step (`AppStore`), so
the timer can come in between. Both are uninitialized until the cd that the
shell runs first. With `cd name &` two cds can overlap: both look up the same
inode, both edit the path, and after that path and inode stay apart ("cd .. &"
twice in /home/yunhao leaves the inode of /home and the path /). The history
variable `overlapped` records it, and `PathIsWorkdir` holds in every state until
then, except between the two stores of a cd.

### TreeDisk

`disk` is the array of blocks: the superblock, the inode blocks, and behind
them blocks that hold references (list blocks and indirect blocks) or data.
`treedisk_create` and `treedisk_write` proceed by the iterations of their
loops. Each iteration is an action with all the disk writes it makes,
`treedisk_alloc_block()` included. The snapshot (`superblock`, `inodeblock`)
and the local variables are state, because the code writes the snapshot back
several steps after it read it. `treedisk_read` is an operator.

Three history variables say what should be there: `store` (what was written to
each inode), `use` (list, free, or the height in a tree) and `owner` (the one
reference to a block). `Cap[k]` is two to the power of k times `log_rpb`, which
`treedisk_init` computes; `log_shift_r` divides by it.

`DiskImage` puts the file system behind the paging area and the executables, by
the sequence of writes in `main` of mkfs, and reads it back from the places that
`disk.h` defines.

### Paging

`table`, `cache_slots` and `curr_vm_pid` are the variables of the code. `pages`
is the memory from FRAME_CACHE_START (frames on QEMU, slots on Arty), `sd` the
frames on the card, and `user` the pages at their virtual addresses. The
platform, the translation and the disk are chosen in `Init`, as at boot. A
switch is one step for each frame it saves (`paging_write`) or restores
(`paging_read`); the random eviction is a choice of slot. `load_app` is one
step for each page or block. During a load the kernel may switch only while it
waits in `reader` for a block of an application, which takes messages; the
servers are loaded with `disk_read()` alone, and GPID_PROCESS is not preempted.

`paging_write` evicts any slot, and an empty one is written as frame -1: block
0xFFFFFFF8, which the card refuses, so that the kernel stops in FATAL
(`EvictionFails`). `EvictsOnlyFrames` says that this needs an exit of an
application, which empties slots: before that, a page is evicted only from a
full cache.

Two history variables: `memory`, what each page should hold, and `stale`, set
when `load_app` stores through a `base` whose slot has gone to another frame.
A new page holds whatever was in its frame; the model calls that Junk.

### SdCard and BlockDevice

`d` holds where the driver is and its local variables, `card` the card as the
driver relies on it (external) with the bytes it is about to shift out, `flash`
its blocks. A loop that polls takes one step per byte; a loop of fixed length is
one step. The card lets up to `MaxWait` bytes pass before it answers and is busy
after a write. A faulty card may also be silent, refuse a command or a block, or
report an error instead of data. The driver finds the type of the card in
`sdinit`. `sd_exec_cmd` gives up after `Tries` bytes; the other
loops have no limit. `BlockDevice` promises that a request transfers its blocks
in order and then returns, or stops; a block that the card has stored but not
yet acknowledged counts as written.

A version 1 card counts in bytes, but `single_read` and `single_write` scale
block numbers for SD2 cards only (`sd_rw.c:14`): block n of such a card is byte
n. The card refuses such an offset unless it is a multiple of the block size,
and then moves the wrong block. Requests to these cards are in the model, and
what the driver does with them is in `OnlyFaultsAreFatal` and `RequestsReturn`;
the refinement of `BlockDevice` is about all other cards (`Scaled`). A request
may also be the write of an empty cache slot (`Beyond`, from `dev_page.c`),
which every card refuses.

### Timer and Console

`mtime` is a counter that goes on between any two steps; `timer_reset` reads it
in halves of `Half` values and writes the halves of `mtimecmp`, one access per
step, with the high half parked at its largest value in between.

In `Console` the user types into the FIFO of the UART at any time. The shell's
`tty_read` polls it; an interrupt calls `tty_recv_intr`, which reads the same
FIFO into the same variable `c` unless `is_reading` is set. While it is set
nothing else touches `c`, so `tty_read` takes and stores a character in one
step. `parse_request` is a fold over the characters of the line. Indices are
unsigned, modulo `UINT`. It records each pair of indices at which it writes to
`argv`, so that `ParsesWords` can say that they are inside. Two history variables hold
the line as the user edited it and the key that ended it. Once `is_reading` is
0, any interrupt overwrites `c`, with -1 if the FIFO is empty, before `tty_read`
looks at it for the last time: a cancelled line is then reported as entered.
`CancelledNeverRuns` shows that it is empty by then.

## 3. Runs

| Run | Checks | Bounds |
|---|---|---|
| `kernel` | types, pids, who runs, no missed rendezvous, posted system calls, contexts, the refinement of `Rendezvous` | 3 slots, 4 pids, 2 contexts; 60 thousand states up to the view |
| `servers_apart` | programs and pids agree, no FATAL, the shell waits for a live command, the prompt returns, exited processes are freed | 5 slots, 7 pids, 2 lines typed after boot, programs of a header only; 59 thousand states |
| `servers_overlap` | replies match requests; the path is that of the working directory unless two cds overlapped; only a server that meets a client in the middle of a request is FATAL; only odd or long names trap or start a process without a program | 6 slots, 7 pids, 2 lines, programs of a header and a block; 210 thousand states up to the view |
| `treedisk` | every block is in one place, reads return the last write, the image is found, full means full, calls return | 9 blocks, 2 references per block, 2 inodes of 4 blocks; 354 thousand states |
| `paging` | pages keep what their process stored, slots and frames correspond, frames do not leak, no eviction fails on a card before an exit, executables are placed correctly | 3 processes of 4 pages at a time, 4 pids, 13 frames, 2 slots, 1 store; 481 thousand states up to the view |
| `console` | a line is what was typed, a cancelled line never runs, words are parsed and fit; time and deadlines in halves | 5 characters typed of a letter, blank, backspace, enter, Ctrl+C; a FIFO of 2, a buffer of 5, 2 arguments of 3, terminators included; halves of 4 values, 5 ticks; 5.6 million states |
| `sdcard` | commands meet an idle card, only faults are fatal, requests return, the driver implements `BlockDevice` | 3 blocks of 2 bytes, 4 tries, waits of up to 2 bytes, 3 card types and the ROM; 203 thousand states |

Three slots are the smallest table with a sender, a receiver and a third process
that runs in between, or two senders for one receiver; four pids force reuse.
With one content TLC cannot tell two messages of one sender apart; the theorem
about `ImplementsRendezvous` is for every set of contents. In `servers_apart`
the user starts a command only when no application is left, so five slots are
enough and are reused, and only clock, which makes no request, can meet a
killall. In `servers_overlap` lines are typed
while applications run, in the background cat, ls and two kinds of cd, and there
are odd names and a line that does not parse;
its constraint ends each behaviour where a process without pages would run.
killall in the middle of a request is the run `killed_client`. In `treedisk` two
references per block give trees of heights 0, 1 and 2, partly filled list
blocks, and a store that two full files overflow. In `paging` two slots for
twelve frames make nearly every access evict, 13 frames are just enough for
three processes and a page table, and executables of 2 and 3 blocks end at and
inside a page; the first and the last process have 3 blocks, those between
either. States after `stale` are not explored: nothing is claimed there.
In `console` five characters fill the buffer, move the index below 0 with a
backspace, and exceed the length and the number of arguments; five ticks wrap
the low half of the clock, and the parked half stays above every deadline. In
`sdcard` two bytes per block tell a left-over byte from a data byte, and waits
of two bytes stay below the tries.

Three runs, `kernel`, `servers_overlap` and `paging`, identify states by a view
that leaves out what nothing reads again: registers saved for the current slot,
messages that have been looked at, locals of a request that has ended, contents
that are overwritten before they are read. Each view was compared with the full
exploration of a smaller instance (one pid less; one line less; one process, one
pid and one executable size less): both reach the same view values, 6,500 of
1,186,416 states for `kernel`, 3,502 of 58,112 for `servers_overlap`, 8,990 of
21,540 for `paging`. Runs with liveness have no view.

Each of the next runs is expected to fail. It states what a comment or an
assertion in the code says, and TLC shows a behaviour of the code that breaks
it.

| Run | What happens |
|---|---|
| `ctrlc_kills` | a process reported as "killed by interrupt" resumes in its own code, because `kernel_entry()` overwrites the `mepc` that `intr_entry()` set |
| `reply_sender` | while a server waits in `dir_lookup()` or `file_read()`, another client's message comes first; the check of the sender fails and the server stops |
| `stale_foreground` | a mistyped foreground command leaves `shell_waiting` set and `app_pid` on an older background command; its exit is sent to a shell that does not listen, and all processes wait |
| `killed_client` | killall frees a process whose server then waits for ever to send it a reply |
| `stale_base` | on Arty with a full cache, the frame that `load_app()` fills is evicted while it waits for a block, and the block lands in the memory of another process; six processes exceed the 28 slots |

### Fairness

`Servers`: weak fairness of the traps (a pending software interrupt is taken,
the timer fires again) and strong fairness of each program: it is preempted
again and again, and executes instructions in each time slice, since the
quantum is far longer than the path between two system calls. The user need not
type. `TreeDisk`: weak fairness of a call that has begun; it waits for nothing.
`SdCard`: weak fairness of the driver, which polls without giving up the CPU;
`RequestsReturn` is about cards without faults, which answer within `MaxWait`
bytes.

Deadlock checking is off in `treedisk`, which ends in the panic of a full
store, and in `paging`, which ends in FATAL or when all pids are used. In the
kernel, FATAL loops for ever (`Hang`).

## 4. Proofs

TLAPS checks the proofs for every number of slots, pids, messages and contexts,
from `KernelAssumption` alone: the table has a slot, the GPIDs are ordered, the
designated contexts and message are in their sets.

`KernelProofs` proves `TypeOK`, `UniquePids`, `CurrentRuns`,
`NoMissedRendezvous` and `SyscallIsPosted`. None is inductive by itself. The
invariant `Inv` adds three facts: a used slot has a pid (`UsedHavePid`), no slot
and no waiting sender mentions a pid that was not handed out yet
(`PidsAllocated`, so a new process meets nobody who waits for it), and a pending
MSIP is a request in the mapped address space (`RequestPosted`). The scans
look processes up by pid, so `NoMissedRendezvous` needs `UniquePids`, and
`SyscallIsPosted` needs `CurrentRuns`: the kernel reads the request through the
mapped address space. `proc_yield` has a lemma of its own (`Yield`), since every
handler ends in it with a different set of states.

`KernelIPCProofs` proves `ContextsPreserved` from the same invariant, and the
refinement `ImplementsRendezvous`. The refinement adds `IpcInv`: a blocked call
has no error, the buffer of a blocked sender carries its pid and the receiver
its slot names, and a posted send names a pid.
Each handler is shown to be a `HandOver`, a `Refuse`, a `Birth`, a `Free`, the
start of a call, or a stuttering step. A refusal needs that no live process has
the pid, which the scan of the table shows; a hand-over and the start of a call
need that a process in a used slot is live.

Only model-checked: everything about the other modules, and all liveness.
Liveness under fairness is outside the prover. What `treedisk_read` returns is
defined by recursion over the levels of a tree, and so is the search for free
blocks behind `FullWhenFull`; both need induction over data.

## 5. Not modelled

- The registers of UART, GPIO and SPI below a byte sent or received, and the
  clock dividers: configuration of hardware.
- A card that reports a read error is modelled, and `single_read` then waits for
  ever: no property excludes it.
- What a process without pages executes (see Servers).
- The assembly stubs, CSR and PMP set-up, linker scripts, mkrom: configuration.
- crash2, which overwrites the frame cache: the PMP set-up permits it, and
  protection is left to students. crash1 ends in an exception, which any process
  of `Kernel` may raise.
- `print.c`, `_sbrk`; `ult.c`, a course assignment whose functions are stubs.
- The entries of the page tables of `cpu_mmu.c`: an identity mapping that leaves
  translation to the software TLB. Their frames are in `Paging`.
- Sizes of messages: each caller passes a constant.
- Failures of the disk below treedisk: the driver stops in FATAL and reports none.
- A crash of mkfs: the image is written only at the end.

## 6. Plan

1. `Paging`: done on both platforms. Left: that it implements an abstract memory
   in which each process has its own pages, as a refinement.
2. Proofs: `EveryBlockOnce` for every disk size, from the invariant that
   `owner` and the references are inverse to each other; isolation of processes
   on QEMU; that each step of `Servers` is a step of `Kernel`, so that the
   theorems about `Kernel` carry over; the refinement of `BlockDevice`.

------------------------------- MODULE Paging -------------------------------
(***************************************************************************)
(* Memory of processes: the frame table and software TLB of                *)
(* earth/cpu_mmu.c, the paging device of earth/dev_page.c, and the loader  *)
(* of library/elf/elf.c that fills frames.  One user address space is      *)
(* shared by all processes: a switch copies the pages of one process out   *)
(* to its frames and the pages of the next one in.  On QEMU all frames are *)
(* in memory; on Arty they are on the microSD card behind a small cache.   *)
(*                                                                         *)
(* A page is PageBlocks blocks, each one Word.  The kernel and             *)
(* GPID_PROCESS are not preempted, so a switch or a piece of load_app      *)
(* between two calls of reader() is not interleaved with anything; a       *)
(* switch still takes one step per frame, since each may evict a slot.     *)
(***************************************************************************)
EXTENDS Integers, FiniteSets, FiniteSetsExt

CONSTANTS
  NFRAMES,               \* frames
  ARTY_CACHED_NFRAMES,   \* cache slots on Arty
  PageBlocks,            \* blocks in a page
  CodePages,             \* pages of APPS_SIZE
  Sizes,                 \* sizes of executables, in blocks
  NPageTables,           \* frames of the identity mapping
  MaxTablePid,           \* entries of pid_to_pagetable_base
  MAX_NPROCESS,          \* processes at a time
  GPID_USER_START,       \* first pid of an application
  MaxPid,                \* bound on pids handed out
  MaxStores              \* bound on stores by programs

GPID_PROCESS == 1
Frames == 0 .. NFRAMES - 1
Slots == 0 .. ARTY_CACHED_NFRAMES - 1
Blocks == 0 .. PageBlocks - 1
ArgPage == CodePages
StackPage == CodePages + 1
Pages == 0 .. StackPage
Pids == 1 .. MaxPid

ASSUME PagingAssumption ==
  /\ PageBlocks \in Nat \ {0} /\ CodePages \in Nat \ {0}
  /\ MaxPid \in Nat /\ MaxTablePid \in Nat /\ MaxStores \in Nat
  /\ Sizes \subseteq 1 .. CodePages * PageBlocks
  /\ MAX_NPROCESS \in Nat /\ NPageTables \in Nat
  /\ NFRAMES \in Nat /\ ARTY_CACHED_NFRAMES \in 1 .. NFRAMES
  /\ GPID_USER_START \in Nat /\ GPID_USER_START > GPID_PROCESS
  (* 256 frames for 8 processes of 5 pages and 14 page tables.             *)
  /\ MAX_NPROCESS * (CodePages + 2) + NPageTables <= NFRAMES

(* Contents of a block: never written, zero, a page table, the arguments,  *)
(* block n of the executable of p, or a store of p.                        *)
Word == {<<"junk", 0, 0>>, <<"zero", 0, 0>>, <<"table", 0, 0>>}
        \cup {<<"args", p, 0>> : p \in Pids}
        \cup {<<"file", p, n>> : p \in Pids, n \in 0 .. CodePages * PageBlocks - 1}
        \cup {<<"store", p, n>> : p \in Pids, n \in Pages}
Content == [Blocks -> Word]
Fill(w) == [k \in Blocks |-> w]
Junk == Fill(<<"junk", 0, 0>>)

VARIABLES
  platform, translation, disk_type,  \* chosen at boot
  table,         \* frame_mapping: use, pid and page_no of each frame
  cache_slots,   \* the frame in each slot, or -1
  pages,         \* memory from FRAME_CACHE_START: slots on Arty, frames on QEMU
  sd,            \* frames on the microSD card
  user,          \* pages at their virtual addresses
  curr_vm_pid,
  sw,            \* soft_tlb_switch in progress: pc, pid, and frames to do
  ld,            \* load_app in progress: pc, pid, size, off, base, frame
  loaded,        \* processes whose loading is complete
  npids,         \* pids handed out
  fatal,
  memory,        \* history: what each page of each process should hold
  stale,         \* history: load_app wrote to a slot that left its frame
  stores         \* stores so far

boot == <<platform, translation, disk_type>>
device == <<cache_slots, pages, sd>>
procs == <<loaded, npids>>
history == <<memory, stale, stores>>
vars == <<boot, table, device, user, curr_vm_pid, sw, ld, procs, fatal, history>>

NotMapped == [use |-> FALSE, pid |-> 0, page_no |-> 0]
IdleSwitch == [pc |-> "run", pid |-> 0, todo |-> {}]
IdleLoad == [pc |-> "idle", pid |-> 0, size |-> 0, off |-> 0, page |-> 0,
             base |-> 0, frame |-> 0]

(* States are those of the variables' C types.                             *)
TypeOK ==
  /\ platform \in {"ARTY", "QEMU"}
  /\ translation \in {"SOFT_TLB", "PAGE_TABLE"}
  /\ disk_type \in {"SD_CARD", "FLASH_ROM"}
  /\ table \in [Frames -> [use : BOOLEAN, pid : Pids \cup {0}, page_no : Pages]]
  /\ cache_slots \in [Slots -> Frames \cup {-1}]
  /\ pages \in [Frames -> Content]
  /\ sd \in [Frames -> Content]
  /\ user \in [Pages -> Content]
  /\ curr_vm_pid \in Pids \cup {-1}
  /\ sw \in [pc : {"run", "save", "restore"}, pid : Pids \cup {0},
             todo : SUBSET Frames]
  /\ ld \in [pc : {"idle", "block", "reader", "zero", "args", "stack"},
             pid : Pids \cup {0}, size : 0 .. CodePages * PageBlocks,
             off : 0 .. CodePages * PageBlocks, page : 0 .. StackPage + 1,
             base : Frames, frame : Frames]
  /\ loaded \subseteq Pids
  /\ npids \in 0 .. MaxPid
  /\ fatal \in {"none", "mmu_alloc", "page_table_map", "disk_write"}
  /\ memory \in [Pids -> [Pages -> Content]]
  /\ stale \in BOOLEAN
  /\ stores \in 0 .. MaxStores

(* earth_init, mmu_init: the platform is detected and the user chooses the *)
(* translation (not on Arty) and the disk.  Page tables take frames of     *)
(* process 0 before any process exists.                                    *)
Reserved == IF translation = "PAGE_TABLE" THEN 0 .. NPageTables - 1 ELSE {}

Init ==
  /\ platform \in {"ARTY", "QEMU"}
  /\ translation \in {"SOFT_TLB", "PAGE_TABLE"}
  /\ disk_type \in {"SD_CARD", "FLASH_ROM"}
  /\ platform = "ARTY" => translation = "SOFT_TLB"
  /\ table = [f \in Frames |-> [NotMapped EXCEPT !.use = f \in Reserved]]
  /\ cache_slots = [i \in Slots |-> -1]
  /\ pages = [f \in Frames |-> IF f \in Reserved THEN Fill(<<"table", 0, 0>>)
                                                 ELSE Junk]
  /\ sd = [f \in Frames |-> Junk]
  /\ user = [g \in Pages |-> Junk]
  /\ curr_vm_pid = -1
  /\ sw = IdleSwitch /\ ld = IdleLoad
  /\ loaded = {} /\ npids = 0 /\ fatal = "none"
  /\ memory = [p \in Pids |-> [g \in Pages |-> Junk]]
  /\ stale = FALSE /\ stores = 0
-----------------------------------------------------------------------------
(***************************************************************************)
(* The paging device.                                                      *)
(***************************************************************************)
FATAL(reason) ==
  /\ fatal' = reason
  /\ UNCHANGED <<boot, table, device, user, curr_vm_pid, sw, ld, procs, history>>

SlotsOf(f) == {i \in Slots : cache_slots[i] = f}
FreeSlots_none == {}
FreeSlots == SlotsOf(-1)

(* cache_eviction writes the chosen slot to its frame on the card.         *)
cache_eviction_drops(i) == sd
cache_eviction(i) == [sd EXCEPT ![cache_slots[i]] = pages[i]]

(* It takes any slot.  disk_write on the read-only ROM is fatal; the frame *)
(* of an empty slot is -1, at block 0xFFFFFFF8, beyond every card, which   *)
(* refuses the write, and single_write is fatal then.                      *)
EvictionFails(i) == disk_type = "FLASH_ROM" \/ cache_slots[i] = -1

(* paging_write looks for the slot of the frame and evicts if there is     *)
(* none, even when another slot is free.                                   *)
WriteMiss(f) == platform = "ARTY" /\ SlotsOf(f) = {}
WriteSlots(f) == IF platform # "ARTY" THEN {f}
                 ELSE IF SlotsOf(f) # {} THEN {Min(SlotsOf(f))} ELSE Slots

(* paging_read takes the first free slot before it evicts.                 *)
ReadMiss(f) == platform = "ARTY" /\ SlotsOf(f) = {}
ReadEvicts(f) == ReadMiss(f) /\ FreeSlots = {}
ReadSlots(f) == IF ReadMiss(f) /\ FreeSlots # {} THEN {Min(FreeSlots)}
                                                 ELSE WriteSlots(f)

paging_invalidate_cache_forgets(F) == cache_slots
paging_invalidate_cache(F) ==
  [i \in Slots |-> IF cache_slots[i] \in F THEN -1 ELSE cache_slots[i]]
-----------------------------------------------------------------------------
(***************************************************************************)
(* soft_tlb_switch, one frame at a time.                                   *)
(***************************************************************************)
FramesOf(p) == {f \in Frames : table[f].use /\ table[f].pid = p}

Running == sw.pc = "run" /\ fatal = "none"

(* The kernel may switch whenever GPID_PROCESS is not in the middle of     *)
(* load_app; there only app_read gives up the processor, in its messages   *)
(* to GPID_FILE.  The servers are read from the disk without a message.    *)
MaySwitch(p) ==
  /\ p \in loaded /\ p # curr_vm_pid
  /\ ld.pc = "idle" \/ (ld.pc = "reader" /\ ld.pid >= GPID_USER_START)

soft_tlb_switch(p) ==
  /\ Running /\ MaySwitch(p)
  /\ sw' = [pc |-> "save", pid |-> p, todo |-> FramesOf(curr_vm_pid)]
  /\ UNCHANGED <<boot, table, device, user, curr_vm_pid, ld, procs, fatal, history>>

(* paging_write of the next frame of curr_vm_pid.                          *)
paging_write ==
  /\ sw.pc = "save" /\ sw.todo # {} /\ fatal = "none"
  /\ LET f == Min(sw.todo) IN
     \E i \in WriteSlots(f) :
       IF WriteMiss(f) /\ EvictionFails(i) THEN FATAL("disk_write")
       ELSE
       /\ sd' = IF WriteMiss(f) THEN cache_eviction(i) ELSE sd
       /\ cache_slots' = IF WriteMiss(f) THEN [cache_slots EXCEPT ![i] = f]
                                         ELSE cache_slots
       /\ pages' = [pages EXCEPT ![i] = user[table[f].page_no]]
       /\ sw' = [sw EXCEPT !.todo = @ \ {f}]
       /\ UNCHANGED <<boot, table, user, curr_vm_pid, ld, procs, fatal, history>>

saved ==
  /\ sw.pc = "save" /\ sw.todo = {} /\ fatal = "none"
  /\ sw' = [sw EXCEPT !.pc = "restore", !.todo = FramesOf(sw.pid)]
  /\ UNCHANGED <<boot, table, device, user, curr_vm_pid, ld, procs, fatal, history>>

(* memcpy from paging_read of the next frame of the process to map.        *)
PageRead(f, i) == IF ReadMiss(f) THEN [pages EXCEPT ![i] = sd[f]] ELSE pages

paging_read ==
  /\ sw.pc = "restore" /\ sw.todo # {} /\ fatal = "none"
  /\ LET f == Min(sw.todo) IN
     \E i \in ReadSlots(f) :
       IF ReadEvicts(f) /\ EvictionFails(i) THEN FATAL("disk_write")
       ELSE
       /\ sd' = IF ReadEvicts(f) THEN cache_eviction(i) ELSE sd
       /\ cache_slots' = IF ReadMiss(f) THEN [cache_slots EXCEPT ![i] = f]
                                        ELSE cache_slots
       /\ pages' = PageRead(f, i)
       /\ user' = [user EXCEPT ![table[f].page_no] = PageRead(f, i)[i]]
       /\ sw' = [sw EXCEPT !.todo = @ \ {f}]
       /\ UNCHANGED <<boot, table, curr_vm_pid, ld, procs, fatal, history>>

switched ==
  /\ sw.pc = "restore" /\ sw.todo = {} /\ fatal = "none"
  /\ curr_vm_pid' = sw.pid
  /\ sw' = IdleSwitch
  /\ UNCHANGED <<boot, table, device, user, ld, procs, fatal, history>>
-----------------------------------------------------------------------------
(***************************************************************************)
(* mmu_alloc and mmu_map, as load_app calls them for its next page; the    *)
(* blocks B of the new page are then set to w through base.  What else the *)
(* page holds is left from before, which is Junk to its process.           *)
(***************************************************************************)
Unused == {f \in Frames : ~ table[f].use}
Overwrite(c, B, w) == [k \in Blocks |-> IF k \in B THEN w ELSE c[k]]
MapFails == translation = "PAGE_TABLE" /\ ld.pid >= MaxTablePid

mmu_alloc(B, w, pc) ==
  IF Unused = {} THEN FATAL("mmu_alloc")
  ELSE LET f == Min(Unused) IN \E i \in ReadSlots(f) :
    IF ReadEvicts(f) /\ EvictionFails(i) THEN FATAL("disk_write")
    ELSE IF MapFails THEN FATAL("page_table_map")
    ELSE
      /\ sd' = IF ReadEvicts(f) THEN cache_eviction(i) ELSE sd
      /\ cache_slots' = IF ReadMiss(f) THEN [cache_slots EXCEPT ![i] = f]
                                       ELSE cache_slots
      /\ table' = [table EXCEPT ![f] =
                     [use |-> TRUE, pid |-> ld.pid, page_no |-> ld.page]]
      /\ pages' = [pages EXCEPT ![i] = Overwrite(Junk, B, w)]
      /\ memory' = [memory EXCEPT ![ld.pid][ld.page] = Overwrite(Junk, B, w)]
      /\ ld' = IF pc = "idle" THEN IdleLoad
               ELSE [ld EXCEPT !.pc = pc, !.page = @ + 1, !.base = i, !.frame = f]
      /\ loaded' = IF pc = "idle" THEN loaded \cup {ld.pid} ELSE loaded
      /\ UNCHANGED <<boot, user, curr_vm_pid, sw, npids, fatal, stale, stores>>
-----------------------------------------------------------------------------
(***************************************************************************)
(* elf_load and load_app.                                                  *)
(***************************************************************************)
Loading(pc) == Running /\ ld.pc = pc
               /\ curr_vm_pid = IF ld.pid = GPID_PROCESS THEN -1 ELSE GPID_PROCESS

(* grass loads GPID_PROCESS, which loads all others.                       *)
elf_load(size) ==
  /\ Running /\ ld.pc = "idle"
  /\ curr_vm_pid = IF npids = 0 THEN -1 ELSE GPID_PROCESS
  /\ Cardinality(loaded) < MAX_NPROCESS /\ npids < MaxPid
  /\ npids' = npids + 1
  /\ ld' = [IdleLoad EXCEPT !.pc = "block", !.pid = npids + 1, !.size = size]
  /\ UNCHANGED <<boot, table, device, user, curr_vm_pid, sw, loaded, fatal, history>>

(* Stores of load_app through base to blocks B of its latest page.         *)
StoreThroughBase(B, w) ==
  /\ pages' = [pages EXCEPT ![ld.base] = Overwrite(@, B, w)]
  /\ memory' = [memory EXCEPT ![ld.pid][ld.page - 1] = Overwrite(@, B, w)]
  /\ stale' = (stale \/ (platform = "ARTY" /\ cache_slots[ld.base] # ld.frame))

(* The head of the loop over blocks: a new page at each page boundary.     *)
load_page ==
  /\ Loading("block") /\ ld.off < ld.size /\ ld.off % PageBlocks = 0
  /\ mmu_alloc({}, <<"zero", 0, 0>>, "reader")

load_block ==
  /\ Loading("block") /\ ld.off < ld.size /\ ld.off % PageBlocks # 0
  /\ ld' = [ld EXCEPT !.pc = "reader"]
  /\ UNCHANGED <<boot, table, device, user, curr_vm_pid, sw, procs, fatal, history>>

(* reader() returns with the block.                                        *)
reader ==
  /\ Loading("reader")
  /\ StoreThroughBase({ld.off % PageBlocks}, <<"file", ld.pid, ld.off>>)
  /\ ld' = [ld EXCEPT !.pc = "block", !.off = @ + 1]
  /\ UNCHANGED <<boot, table, cache_slots, sd, user, curr_vm_pid, sw, procs, fatal, stores>>

(* The rest of a last page that is not full is zero.                       *)
TailOfPage_none == {}
TailOfPage == IF ld.size % PageBlocks = 0 THEN {}
              ELSE ld.size % PageBlocks .. PageBlocks - 1

zero_tail ==
  /\ Loading("block") /\ ld.off = ld.size
  /\ StoreThroughBase(TailOfPage, <<"zero", 0, 0>>)
  /\ ld' = [ld EXCEPT !.pc = IF ld.page < CodePages THEN "zero" ELSE "args"]
  /\ UNCHANGED <<boot, table, cache_slots, sd, user, curr_vm_pid, sw, procs, fatal, stores>>

MoreZeroPages_off_by_one == ld.page + 1 <= CodePages
MoreZeroPages == ld.page + 1 < CodePages

zero_page ==
  /\ Loading("zero")
  /\ mmu_alloc(Blocks, <<"zero", 0, 0>>, IF MoreZeroPages THEN "zero" ELSE "args")

load_args ==
  /\ Loading("args")
  /\ mmu_alloc({0}, <<"args", ld.pid, 0>>, "stack")

load_stack ==
  /\ Loading("stack")
  /\ mmu_alloc({}, <<"zero", 0, 0>>, "idle")
-----------------------------------------------------------------------------
(* proc_free of an application by GPID_PROCESS; after it the history of    *)
(* the pages is of no interest.                                            *)
FreedTable_keeps_use(p) ==
  [f \in Frames |-> IF f \in FramesOf(p) THEN [table[f] EXCEPT !.pid = 0]
                                         ELSE table[f]]
FreedTable(p) ==
  [f \in Frames |-> IF f \in FramesOf(p) THEN NotMapped ELSE table[f]]

mmu_free(p) ==
  /\ Running /\ ld.pc = "idle" /\ curr_vm_pid = GPID_PROCESS
  /\ p \in loaded /\ p >= GPID_USER_START
  /\ cache_slots' = paging_invalidate_cache(FramesOf(p))
  /\ table' = FreedTable(p)
  /\ loaded' = loaded \ {p}
  /\ memory' = [memory EXCEPT ![p] = [g \in Pages |-> Junk]]
  /\ UNCHANGED <<boot, pages, sd, user, curr_vm_pid, sw, ld, npids, fatal, stale, stores>>

(* The mapped process fills one of its pages.                              *)
Store(g) ==
  /\ Running /\ curr_vm_pid # -1 /\ stores < MaxStores
  /\ stores' = stores + 1
  /\ user' = [user EXCEPT ![g] = Fill(<<"store", curr_vm_pid, g>>)]
  /\ memory' = [memory EXCEPT ![curr_vm_pid][g] = Fill(<<"store", curr_vm_pid, g>>)]
  /\ UNCHANGED <<boot, table, device, curr_vm_pid, sw, ld, procs, fatal, stale>>

Load ==
  \/ \E size \in Sizes : elf_load(size)
  \/ load_page \/ load_block \/ reader \/ zero_tail \/ zero_page \/ load_args
  \/ load_stack

Next ==
  \/ \E p \in Pids : soft_tlb_switch(p) \/ mmu_free(p)
  \/ paging_write \/ saved \/ paging_read \/ switched
  \/ Load
  \/ \E g \in Pages : Store(g)

Spec == Init /\ [][Next]_vars
-----------------------------------------------------------------------------
(***************************************************************************)
(* Correctness.                                                            *)
(***************************************************************************)
(* Where the contents of a frame are.                                      *)
Held(f) ==
  IF table[f].pid = curr_vm_pid THEN user[table[f].page_no]
  ELSE IF platform # "ARTY" THEN pages[f]
  ELSE IF SlotsOf(f) # {} THEN pages[Min(SlotsOf(f))]
  ELSE sd[f]

MappedPages(p) == IF p \in loaded THEN Pages
                  ELSE IF p = ld.pid THEN 0 .. ld.page - 1 ELSE {}

(* Between switches each page of each process has one frame, and holds     *)
(* what the process or its loader last stored in it: no other process, no  *)
(* eviction and no reuse of a frame changes it; page tables stay as they   *)
(* were built.                                                             *)
PagesIntact ==
  Running =>
    /\ \A p \in Pids : \A g \in MappedPages(p) :
         \E f \in Frames :
           /\ {h \in FramesOf(p) : table[h].page_no = g} = {f}
           /\ Held(f) = memory[p][g]
    /\ \A f \in Reserved : table[f].use /\ pages[f] = Fill(<<"table", 0, 0>>)

(* The same as long as load_app's base is the slot of its frame whenever   *)
(* load_app stores through it, which is so on QEMU and, on Arty, until     *)
(* the cache is too small for all processes.                               *)
IntactUnlessStale == ~ stale => PagesIntact

(* A frame is in one slot at most, and only frames in use are cached.      *)
CacheExact ==
  /\ \A i, j \in Slots : cache_slots[i] = cache_slots[j] /\ i # j
                           => cache_slots[i] = -1
  /\ \A i \in Slots : cache_slots[i] # -1 => table[cache_slots[i]].use

(* mmu_alloc finds a frame whenever proc_alloc found a slot: exits return  *)
(* all frames of a process.                                                *)
FramesSuffice == fatal # "mmu_alloc"

(* The cache never stops a microSD system by evicting an empty slot, until *)
(* an application has exited: slots are filled before any is evicted, and  *)
(* only an exit empties one again.                                         *)
EvictsOnlyFrames ==
  fatal = "disk_write" /\ disk_type = "SD_CARD" =>
    \E p \in 1 .. npids : p \notin loaded \cup {ld.pid}

(* A loaded process finds the blocks of its executable at consecutive      *)
(* addresses, zeros behind them up to APPS_SIZE, and its arguments.        *)
Image(p, size, n) == IF n < size THEN <<"file", p, n>> ELSE <<"zero", 0, 0>>
LoadsImage ==
  [][\A p \in loaded' \ loaded :
       /\ \A g \in 0 .. CodePages - 1, k \in Blocks :
            memory'[p][g][k] = Image(p, ld.size, g * PageBlocks + k)
       /\ memory'[p][ArgPage][0] = <<"args", p, 0>>]_vars
=============================================================================

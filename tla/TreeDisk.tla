------------------------------ MODULE TreeDisk ------------------------------
(***************************************************************************)
(* The file system of src/library/file/file.c: inodes whose blocks hang    *)
(* in a complete tree of indirect blocks, and a list of free blocks.       *)
(*                                                                         *)
(* treedisk_create() and treedisk_write() proceed by the iterations of     *)
(* their loops, each of which writes to the disk; treedisk_read() does not *)
(* write and is an operator on the disk.  tools/mkfs.c is the caller: one  *)
(* operation runs at a time, and the disk below never fails.               *)
(***************************************************************************)
EXTENDS Integers

CONSTANTS
  NBlocks,            \* getsize() of the disk below
  RefsPerBlock,       \* REFS_PER_BLOCK
  InodesPerBlock,     \* INODES_PER_BLOCK
  NInodes,            \* inodes asked for in treedisk_create()
  MaxOffset,          \* bound on the offsets written
  MaxLevels,          \* levels enough for MaxOffset
  Cap,                \* Cap[k]: data blocks under a tree of k levels
  Data, NullData      \* contents of data blocks; a block of null bytes

(* treedisk_init(): as many bits as REFS_PER_BLOCK - 1 has.                *)
log_rpb == CHOOSE k \in 1 .. RefsPerBlock :
             /\ (RefsPerBlock - 1) \div 2 ^ k = 0
             /\ \A j \in 1 .. k - 1 : (RefsPerBlock - 1) \div 2 ^ j # 0

n_inodeblocks == (NInodes + InodesPerBlock - 1) \div InodesPerBlock

Blocks  == 0 .. NBlocks - 1
Area    == n_inodeblocks + 1 .. NBlocks - 1   \* behind the inode blocks
Refs    == 0 .. RefsPerBlock - 1
Inodes  == 0 .. n_inodeblocks * InodesPerBlock - 1
Offsets == 0 .. MaxOffset
Levels  == 0 .. MaxLevels
Contents == Data \cup {NullData}

ASSUME TreeDiskAssumption ==
  /\ NBlocks \in Nat /\ NInodes \in Nat \ {0} /\ MaxOffset \in Nat
  /\ RefsPerBlock \in Nat /\ RefsPerBlock > 1 /\ RefsPerBlock = 2 ^ log_rpb
  /\ InodesPerBlock \in Nat \ {0}
  /\ NBlocks >= n_inodeblocks + 2
  /\ n_inodeblocks \in Nat \ {0}
  /\ MaxLevels \in Nat /\ Cap \in [Levels -> Nat]
  /\ \A k \in Levels : Cap[k] = 2 ^ (k * log_rpb)
  /\ MaxOffset < Cap[MaxLevels]

VARIABLES
  disk,      \* the blocks: superblock, inode blocks, then Area
  pc,        \* where the operation in progress is
  next_free, \* treedisk_create(): first block not on the list yet
  ino, offset, block,      \* the arguments of treedisk_write()
  superblock, inodeblock,  \* its snapshot
  nlevels, nlevels_after,  \* levels below parent_no; levels needed
  dirty_inode,
  tib, parent_off, index,  \* parent_no is &tib.refs[index] of block
                           \* parent_off, or the inode's root if that is 0
  b,         \* the block last found or allocated
  store,     \* history: what each inode should hold
  use, owner \* history: the use of each block, the reference to it

args     == <<ino, offset, block>>
snapshot == <<superblock, inodeblock>>
levels   == <<nlevels, nlevels_after, dirty_inode>>
cursor   == <<tib, parent_off, index>>
history  == <<store, use, owner>>
vars == <<disk, pc, next_free, b, args, snapshot, levels, cursor, history>>

(* Uses of a block of Area: a tree block is used as its height, 0 for data. *)
Unused == -3
List   == -2
Free   == -1
Uses   == Unused .. MaxLevels

(* References to a block: the head of the free list, the root of an inode, *)
(* or a reference in a list block or an indirect block.                    *)
ListHead        == <<"head", 0, 0>>
RootOf(n)   == <<"root", n, 0>>
RefIn(c, i) == <<"ref", c, i>>

NoRefs      == [i \in Refs |-> 0]
EmptyInode  == [root |-> 0, nblocks |-> 0]
EmptyInodes == [i \in 0 .. InodesPerBlock - 1 |-> EmptyInode]
NoSuper     == [n_inodeblocks |-> 0, free_list |-> 0]
EmptyFile   == [nblocks |-> 0, content |-> [x \in Offsets |-> NullData]]

-----------------------------------------------------------------------------
(* The end of a call: its local variables are gone.                        *)
Return(to) ==
  /\ pc' = to
  /\ next_free' = 0 /\ b' = 0
  /\ ino' = 0 /\ offset' = 0 /\ block' = NullData
  /\ superblock' = NoSuper /\ inodeblock' = EmptyInodes
  /\ nlevels' = 0 /\ nlevels_after' = 0 /\ dirty_inode' = FALSE
  /\ tib' = NoRefs /\ parent_off' = 0 /\ index' = 0

(* treedisk_get_snapshot(): the inode block and the inode.                 *)
InodeBlockOf(n) == 1 + n \div InodesPerBlock
InodeAt(n) == disk[InodeBlockOf(n)][n % InodesPerBlock]

(* log_shift_r(x, k * log_rpb)                                             *)
log_shift_r(x, k) == x \div Cap[k]

(* The first k at which the loops that count levels stop.                  *)
LevelsFor_one_short(x) ==
  CHOOSE k \in Levels : /\ x <= Cap[k]
                        /\ \A j \in Levels : j < k => x > Cap[j]
LevelsFor(x) ==
  CHOOSE k \in Levels : /\ log_shift_r(x, k) = 0
                        /\ \A j \in Levels : j < k => log_shift_r(x, j) # 0

LevelsOf(nblocks) == IF nblocks > 0 THEN LevelsFor(nblocks - 1) ELSE 0

IndexAt(x, k) == log_shift_r(x, k) % RefsPerBlock

treedisk_getsize(n) == IF n \in Inodes THEN InodeAt(n).nblocks ELSE -1

(* treedisk_read(): the empty sequence stands for -1.  at[k] is the block  *)
(* reached with k levels to go; a 0 on the way is a hole.                  *)
treedisk_read(n, x) ==
  IF n \notin Inodes \/ x >= InodeAt(n).nblocks
  THEN <<>>
  ELSE LET top == LevelsOf(InodeAt(n).nblocks)
           at[k \in 0 .. top] ==
             IF k = top THEN InodeAt(n).root
             ELSE IF at[k + 1] = 0 THEN 0 ELSE disk[at[k + 1]][IndexAt(x, k)]
       IN <<IF at[0] = 0 THEN NullData ELSE disk[at[0]]>>

-----------------------------------------------------------------------------
(* treedisk_alloc_block(), on the snapshot's superblock.                   *)
free_list == superblock.free_list

FreeIndex ==
  LET found == {i \in Refs : i > 0 /\ disk[free_list][i] # 0}
  IN IF found = {} THEN 0 ELSE CHOOSE i \in found : \A j \in found : j <= i

ListIsEmpty == FreeIndex = 0

free_blockno == IF ListIsEmpty THEN free_list ELSE disk[free_list][FreeIndex]

SuperAfterAlloc_drops_rest ==
  IF ListIsEmpty
  THEN [n_inodeblocks |-> superblock.n_inodeblocks, free_list |-> 0]
  ELSE superblock
SuperAfterAlloc ==
  IF ListIsEmpty
  THEN [n_inodeblocks |-> superblock.n_inodeblocks,
        free_list |-> disk[free_list][0]]
  ELSE superblock

DiskAfterAlloc_keeps_ref ==
  IF ListIsEmpty THEN [disk EXCEPT ![0] = SuperAfterAlloc] ELSE disk
DiskAfterAlloc ==
  IF ListIsEmpty
  THEN [disk EXCEPT ![0] = SuperAfterAlloc]
  ELSE [disk EXCEPT ![free_list] =
          [i \in Refs |-> IF i = FreeIndex THEN 0 ELSE disk[free_list][i]]]

(* History: the block allocated is used as u and referenced by ref.        *)
Allocated(u, ref) ==
  /\ use' = [use EXCEPT ![free_blockno] = u]
  /\ owner' = [c \in Area |->
                 IF c = free_blockno THEN ref
                 ELSE IF ListIsEmpty /\ c = disk[free_list][0] THEN ListHead
                 ELSE owner[c]]

(* The panic that the store is full, from either of the two callers.       *)
StoreFull ==
  /\ free_list = 0
  /\ Return("panic")
  /\ UNCHANGED <<disk, history>>

-----------------------------------------------------------------------------
(* treedisk_create(), up to setup_freelist(); the second time it returns.  *)
treedisk_create ==
  /\ pc \in {"new", "idle"}
  /\ IF disk[0].n_inodeblocks = 0
     THEN pc' = "list" /\ next_free' = n_inodeblocks + 1 /\ b' = 0
     ELSE UNCHANGED <<pc, next_free, b>>
  /\ UNCHANGED <<disk, args, snapshot, levels, cursor, history>>

(* One list block of setup_freelist(): the next blocks of the disk, as     *)
(* many as there are, behind a reference to the list so far.               *)
LastListed_over == next_free + RefsPerBlock
LastListed == IF next_free + RefsPerBlock <= NBlocks
              THEN next_free + RefsPerBlock ELSE NBlocks

setup_freelist ==
  /\ pc = "list" /\ next_free < NBlocks
  /\ disk' = [disk EXCEPT ![next_free] =
                [i \in Refs |-> IF i = 0 THEN b
                                ELSE IF next_free + i < LastListed
                                     THEN next_free + i ELSE 0]]
  /\ b' = next_free
  /\ next_free' = LastListed
  /\ use' = [c \in Area |-> IF c = next_free THEN List
                            ELSE IF c \in next_free .. LastListed - 1 THEN Free
                            ELSE use[c]]
  /\ owner' = [c \in Area |->
                 IF c = next_free THEN ListHead
                 ELSE IF c = b THEN RefIn(next_free, 0)
                 ELSE IF c \in next_free .. LastListed - 1
                      THEN RefIn(next_free, c - next_free)
                 ELSE owner[c]]
  /\ UNCHANGED <<pc, args, snapshot, levels, cursor, store>>

(* The rest of treedisk_create(): the superblock and the inode blocks.     *)
create_done ==
  /\ pc = "list" /\ next_free >= NBlocks
  /\ disk' = [c \in Blocks |->
                IF c = 0 THEN [n_inodeblocks |-> n_inodeblocks, free_list |-> b]
                ELSE IF c <= n_inodeblocks THEN EmptyInodes ELSE disk[c]]
  /\ Return("idle")
  /\ UNCHANGED history

-----------------------------------------------------------------------------
(* treedisk_write(n, x, d), up to the growing of the tree.                 *)
WithInode(n, node) == [i \in 0 .. InodesPerBlock - 1 |->
                         IF i = n % InodesPerBlock THEN node ELSE inodeblock[i]]

treedisk_write(n, x, d) ==
  /\ pc = "idle" /\ n \in Inodes
  /\ ino' = n /\ offset' = x /\ block' = d
  /\ superblock' = disk[0]
  /\ nlevels' = LevelsOf(InodeAt(n).nblocks)
  /\ inodeblock' =
       [i \in 0 .. InodesPerBlock - 1 |->
          IF i = n % InodesPerBlock /\ x >= InodeAt(n).nblocks
          THEN [root |-> InodeAt(n).root, nblocks |-> x + 1]
          ELSE disk[InodeBlockOf(n)][i]]
  /\ dirty_inode' = (x >= InodeAt(n).nblocks)
  /\ nlevels_after' = IF x >= InodeAt(n).nblocks THEN LevelsFor(x)
                      ELSE LevelsOf(InodeAt(n).nblocks)
  /\ pc' = "grow"
  /\ UNCHANGED <<disk, next_free, b, cursor, history>>

inode == inodeblock[ino % InodesPerBlock]

(* An indirect block above the root, as long as levels are missing.        *)
GrownBlock == [i \in Refs |-> IF i = 0 THEN inode.root ELSE 0]

grow_level ==
  /\ pc = "grow" /\ nlevels_after > nlevels /\ free_list # 0
  /\ disk' = [DiskAfterAlloc EXCEPT ![free_blockno] = GrownBlock]
  /\ superblock' = SuperAfterAlloc
  /\ inodeblock' = WithInode(ino, [root |-> free_blockno,
                                   nblocks |-> inode.nblocks])
  /\ dirty_inode' = TRUE
  /\ nlevels' = nlevels + 1
  /\ use' = [use EXCEPT ![free_blockno] = nlevels + 1]
  /\ owner' = [c \in Area |->
                 IF c = free_blockno THEN RootOf(ino)
                 ELSE IF c = inode.root THEN RefIn(free_blockno, 0)
                 ELSE IF ListIsEmpty /\ c = disk[free_list][0] THEN ListHead
                 ELSE owner[c]]
  /\ UNCHANGED <<pc, next_free, b, args, nlevels_after, cursor, store>>

grow_full == pc = "grow" /\ nlevels_after > nlevels /\ StoreFull

(* The inode block is written back, and the walk starts at the root.       *)
write_inode ==
  /\ pc = "grow" /\ nlevels_after <= nlevels
  /\ disk' = IF dirty_inode THEN [disk EXCEPT ![InodeBlockOf(ino)] = inodeblock]
             ELSE disk
  /\ parent_off' = InodeBlockOf(ino)
  /\ pc' = "walk"
  /\ UNCHANGED <<next_free, b, args, snapshot, levels, tib, index, history>>

-----------------------------------------------------------------------------
(* The walk of treedisk_write().  *parent_no is the root of the inode or   *)
(* tib.refs[index]; parent_block is the block that holds it.               *)
AtRoot    == parent_off = InodeBlockOf(ino)
parent_no == IF AtRoot THEN inode.root ELSE tib[index]

ParentWith(c) ==
  IF AtRoot THEN WithInode(ino, [root |-> c, nblocks |-> inode.nblocks])
  ELSE [i \in Refs |-> IF i = index THEN c ELSE tib[i]]

(* The end of an iteration: block c found, its references being refs.      *)
Descend_stays(c, refs) ==
  /\ b' = c
  /\ pc' = IF nlevels = 0 THEN "data" ELSE "walk"
  /\ UNCHANGED <<nlevels, tib, index, parent_off>>
Descend(c, refs) ==
  /\ b' = c
  /\ IF nlevels = 0
     THEN /\ pc' = "data"
          /\ UNCHANGED <<nlevels, tib, index, parent_off>>
     ELSE /\ pc' = "walk"
          /\ nlevels' = nlevels - 1
          /\ index' = IndexAt(offset, nlevels - 1)
          /\ tib' = refs
          /\ parent_off' = c

(* A missing block is allocated and its parent written; a new indirect     *)
(* block stays in memory until something is put into it.                   *)
walk_alloc ==
  /\ pc = "walk" /\ parent_no = 0 /\ free_list # 0
  /\ disk' = [DiskAfterAlloc EXCEPT ![parent_off] = ParentWith(free_blockno)]
  /\ superblock' = SuperAfterAlloc
  /\ inodeblock' = IF AtRoot THEN ParentWith(free_blockno) ELSE inodeblock
  /\ Descend(free_blockno, NoRefs)
  /\ Allocated(nlevels, IF AtRoot THEN RootOf(ino) ELSE RefIn(parent_off, index))
  /\ UNCHANGED <<next_free, args, nlevels_after, dirty_inode, store>>

walk_full == pc = "walk" /\ parent_no = 0 /\ StoreFull

walk_down ==
  /\ pc = "walk" /\ parent_no # 0
  /\ Descend(parent_no, disk[parent_no])
  /\ UNCHANGED <<disk, next_free, args, snapshot, nlevels_after, dirty_inode,
                 history>>

(* The data block, and the return of treedisk_write().                     *)
write_data ==
  /\ pc = "data"
  /\ disk' = [disk EXCEPT ![b] = block]
  /\ store' = [store EXCEPT ![ino] =
                 [nblocks |-> IF offset >= store[ino].nblocks THEN offset + 1
                              ELSE store[ino].nblocks,
                  content |-> [store[ino].content EXCEPT ![offset] = block]]]
  /\ Return("idle")
  /\ UNCHANGED <<use, owner>>

-----------------------------------------------------------------------------
(* The static array of mkfs.c is zero before treedisk_create().            *)
Init ==
  /\ disk = [c \in Blocks |->
               IF c = 0 THEN NoSuper
               ELSE IF c <= n_inodeblocks THEN EmptyInodes ELSE NoRefs]
  /\ pc = "new"
  /\ next_free = 0 /\ b = 0
  /\ ino = 0 /\ offset = 0 /\ block = NullData
  /\ superblock = NoSuper /\ inodeblock = EmptyInodes
  /\ nlevels = 0 /\ nlevels_after = 0 /\ dirty_inode = FALSE
  /\ tib = NoRefs /\ parent_off = 0 /\ index = 0
  /\ store = [n \in Inodes |-> EmptyFile]
  /\ use = [c \in Area |-> Unused]
  /\ owner = [c \in Area |-> ListHead]

Next ==
  \/ treedisk_create \/ setup_freelist \/ create_done
  \/ \E n \in Inodes, x \in Offsets, d \in Data : treedisk_write(n, x, d)
  \/ grow_level \/ grow_full \/ write_inode
  \/ walk_alloc \/ walk_full \/ walk_down \/ write_data

Spec == Init /\ [][Next]_vars

(* A call that has begun keeps running: its caller waits for nothing.      *)
Step ==
  \/ setup_freelist \/ create_done
  \/ grow_level \/ grow_full \/ write_inode
  \/ walk_alloc \/ walk_full \/ walk_down \/ write_data

FairSpec == Spec /\ WF_vars(Step)

-----------------------------------------------------------------------------
SuperType == [n_inodeblocks : {0, n_inodeblocks}, free_list : {0} \cup Area]
InodeType == [root : {0} \cup Area, nblocks : 0 .. MaxOffset + 1]
InodeBlockType == [0 .. InodesPerBlock - 1 -> InodeType]
RefsType  == [Refs -> {0} \cup Area]

Holders == {c \in Area : use[c] = List \/ use[c] > 0}

(* The superblock, the inodes and the local variables hold block numbers   *)
(* behind the inode blocks or 0, sizes and levels in their ranges; the     *)
(* free list of setup_freelist() stops at the end of the disk.             *)
TypeOK ==
  /\ pc \in {"new", "list", "idle", "grow", "walk", "data", "panic"}
  /\ DOMAIN disk = Blocks
  /\ disk[0] \in SuperType
  /\ \A c \in 1 .. n_inodeblocks : disk[c] \in InodeBlockType
  /\ next_free \in 0 .. NBlocks /\ b \in {0} \cup Area
  /\ ino \in Inodes /\ offset \in Offsets /\ block \in Contents
  /\ superblock \in SuperType /\ inodeblock \in InodeBlockType
  /\ nlevels \in Levels /\ nlevels_after \in Levels /\ dirty_inode \in BOOLEAN
  /\ tib \in RefsType /\ parent_off \in Blocks /\ index \in Refs
  /\ store \in [Inodes -> [nblocks : 0 .. MaxOffset + 1,
                           content : [Offsets -> Contents]]]
  /\ use \in [Area -> Uses]
  /\ owner \in [Area -> {"head", "root", "ref"} \X Nat \X Nat]

(* What holds the references now: the snapshot until write_inode, and tib  *)
(* for the indirect block under the walk.                                  *)
InodeNow(n) ==
  IF pc = "grow" /\ InodeBlockOf(n) = InodeBlockOf(ino)
  THEN inodeblock[n % InodesPerBlock] ELSE InodeAt(n)

RefsNow(c) == IF pc = "walk" /\ c = parent_off THEN tib ELSE disk[c]

HeadNow == IF pc = "list" THEN b ELSE disk[0].free_list

Target(s) ==
  CASE s[1] = "head" -> HeadNow
    [] s[1] = "root" -> InodeNow(s[2]).root
    [] s[1] = "ref"  -> RefsNow(s[2])[s[3]]

References == {ListHead} \cup {RootOf(n) : n \in Inodes}
                \cup {RefIn(c, i) : c \in Holders, i \in Refs}

(* Once created, the file system has each block behind the inode blocks    *)
(* exactly once: on the free list or in the tree of one inode, whatever    *)
(* calls of treedisk_write() came before and however far the present one   *)
(* is.  Nothing is shared and nothing is lost.                             *)
EveryBlockOnce ==
  pc \notin {"new", "list", "panic"} =>
    \A c \in Area : {s \in References : Target(s) = c} = {owner[c]}

(* treedisk_read() returns what the last treedisk_write() to that block of *)
(* that inode stored, null bytes for a hole, and -1 past the end of the    *)
(* file, which treedisk_getsize() tells, or for an inode number too large. *)
ReadsBack ==
  pc = "idle" =>
    \A n \in 0 .. n_inodeblocks * InodesPerBlock, x \in 0 .. MaxOffset + 1 :
      /\ n \in Inodes => treedisk_getsize(n) = store[n].nblocks
      /\ treedisk_read(n, x) =
           IF n \in Inodes /\ x < store[n].nblocks THEN <<store[n].content[x]>>
           ELSE <<>>

(* treedisk_alloc_block() reports a full store only when every block is in *)
(* a tree: no free block hides behind an exhausted list block.             *)
FullWhenFull == pc = "panic" => \A c \in Area : use[c] >= 0

(* Each call of treedisk_create() and treedisk_write() comes back, or      *)
(* panics on a full store.                                                 *)
CallsReturn == pc \notin {"new", "panic"} ~> pc \in {"idle", "panic"}
=============================================================================

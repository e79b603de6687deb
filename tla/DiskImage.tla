----------------------------- MODULE DiskImage ------------------------------
(***************************************************************************)
(* The disk image: src/tools/mkfs.c writes it, with the file system of     *)
(* TreeDisk as its last part, and the running system reads the parts from  *)
(* the places that src/library/file/disk.h gives them.                     *)
(***************************************************************************)
EXTENDS TreeDisk, Sequences

CONSTANTS
  PagingBlocks,         \* PAGING_DEV_SIZE / BLOCK_SIZE
  GRASS_NEXEC,          \* executables the image has room for
  GRASS_EXEC_SEGMENT,   \* blocks for each
  NKERNEL_PROC          \* executables that there are

ASSUME DiskImageAssumption ==
  /\ PagingBlocks \in Nat /\ GRASS_EXEC_SEGMENT \in Nat
  /\ GRASS_NEXEC \in Nat /\ NKERNEL_PROC \in 0 .. GRASS_NEXEC

(* main() of mkfs.c writes one part after the other: paging area,          *)
(* executables, padding, file system.                                      *)
Padding_counts_used == GRASS_NEXEC * GRASS_EXEC_SEGMENT
Padding == (GRASS_NEXEC - NKERNEL_PROC) * GRASS_EXEC_SEGMENT

Fill(n) == [k \in 1 .. n |-> NullData]
Executable(i) == [k \in 1 .. GRASS_EXEC_SEGMENT |-> <<"exec", i, k - 1>>]

image ==
  LET execs[i \in 0 .. NKERNEL_PROC] ==
        IF i = 0 THEN << >> ELSE execs[i - 1] \o Executable(i - 1)
  IN Fill(PagingBlocks) \o execs[NKERNEL_PROC] \o Fill(Padding)
     \o [k \in 1 .. NBlocks |-> disk[k - 1]]

(* The places of disk.h from which the running system reads it: executable *)
(* i through elf_load(), and the file system through library/file/disk.c.  *)
GRASS_EXEC_START == PagingBlocks
GRASS_FS_START   == PagingBlocks + GRASS_NEXEC * GRASS_EXEC_SEGMENT

EXEC_START(i) == GRASS_EXEC_START + GRASS_EXEC_SEGMENT * i
exec_read(i, block_no) == image[EXEC_START(i) + block_no + 1]
disk_read(c) == image[GRASS_FS_START + c + 1]

(* The running system finds in the image what mkfs.c put there: each       *)
(* executable at its EXEC_START, and the blocks of the file system.        *)
ImageIsFound ==
  pc = "idle" =>
    /\ Len(image) = GRASS_FS_START + NBlocks
    /\ \A c \in Blocks : disk_read(c) = disk[c]
    /\ \A i \in 0 .. NKERNEL_PROC - 1, k \in 0 .. GRASS_EXEC_SEGMENT - 1 :
         exec_read(i, k) = <<"exec", i, k>>
=============================================================================

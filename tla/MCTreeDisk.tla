----------------------------- MODULE MCTreeDisk -----------------------------
(***************************************************************************)
(* TreeDisk and DiskImage on a disk of a few blocks, with two references   *)
(* per block, so that trees of three heights, partly filled list blocks    *)
(* and a full store are all within reach.                                  *)
(***************************************************************************)
EXTENDS DiskImage

CONSTANTS d0, d1

MCCap == [k \in Levels |-> RefsPerBlock ^ k]
TwoData  == {d0, d1}
=============================================================================

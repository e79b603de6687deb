----------------------------- MODULE BlockDevice ----------------------------
(***************************************************************************)
(* What earth->disk_read() and earth->disk_write() promise their callers   *)
(* (the file system of library/file/disk.c, the paging device, the ELF     *)
(* loader): blocks are moved one after the other, each whole, in the order *)
(* of the request, to or from the block numbers it names; or the driver    *)
(* stops in FATAL, and then for ever.  Nothing is moved for a block number *)
(* past the end: such a request can only stop.                             *)
(***************************************************************************)
EXTENDS Naturals, Sequences

CONSTANTS
  Blocks,   \* number of blocks of the device
  Beyond,   \* a block number past its end
  Data      \* what a block may contain

VARIABLES
  blocks,   \* contents of the device
  req       \* the request in progress: op, off, n, blocks moved and buffer

vars == <<blocks, req>>

Requests ==
  {[op |-> "read", off |-> o, n |-> k, i |-> 0, buf |-> << >>] :
     o \in 0 .. Blocks - 1, k \in 1 .. Blocks}
  \cup UNION {{[op |-> "write", off |-> o, n |-> k, i |-> 0, buf |-> s] :
                 o \in (0 .. Blocks - 1) \cup {Beyond},
                 s \in [1 .. k -> Data]} :
                k \in 1 .. Blocks}

Request ==
  /\ req.op = "none"
  /\ req' \in {r \in Requests : r.off = Beyond \/ r.off + r.n <= Blocks}
  /\ UNCHANGED blocks

ReadBlock ==
  /\ req.op = "read" /\ req.i < req.n /\ req.off + req.i < Blocks
  /\ req' = [req EXCEPT !.i = @ + 1, !.buf = Append(@, blocks[req.off + req.i])]
  /\ UNCHANGED blocks

WriteBlock ==
  /\ req.op = "write" /\ req.i < req.n /\ req.off + req.i < Blocks
  /\ blocks' = [blocks EXCEPT ![req.off + req.i] = req.buf[req.i + 1]]
  /\ req' = [req EXCEPT !.i = @ + 1]

Return ==
  /\ req.op \in {"read", "write"} /\ req.i = req.n
  /\ req' = [req EXCEPT !.op = "none"]
  /\ UNCHANGED blocks

Stop ==
  /\ req' = [req EXCEPT !.op = "stopped"]
  /\ UNCHANGED blocks

Init == blocks \in [0 .. Blocks - 1 -> Data] /\ req.op = "none"
Next == Request \/ ReadBlock \/ WriteBlock \/ Return
        \/ (req.op # "stopped" /\ Stop)
Spec == Init /\ [][Next]_vars
=============================================================================

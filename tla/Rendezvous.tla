----------------------------- MODULE Rendezvous -----------------------------
(***************************************************************************)
(* What grass promises about sys_send and sys_recv: synchronous message    *)
(* passing between processes that come and go.  A send and a receive       *)
(* complete together, in one hand-over of one message between the two      *)
(* processes that called them.  The one other way out of a send is a       *)
(* failure, when the receiver does not exist; a receive has no other, and  *)
(* a call is otherwise given up only with the process that is in it.       *)
(* The kernel implements this with process states and two scans of the     *)
(* process table.                                                          *)
(***************************************************************************)
EXTENDS Integers

CONSTANTS
  Procs,      \* processes
  First,      \* the process that exists from the start
  Content,    \* message contents
  NoContent   \* content of a box before its first message

VARIABLES
  life,       \* of each process: "unborn", "live" or "freed"
  call,       \* the call each process is in: "none", "send" or "recv"
  box,        \* the message each process sends or has received last
  refused     \* processes whose last call failed

rvars == <<life, call, box, refused>>

RInit ==
  /\ life = [p \in Procs |-> IF p = First THEN "live" ELSE "unborn"]
  /\ call = [p \in Procs |-> "none"]
  /\ box = [p \in Procs |->
              [sender |-> 0, receiver |-> 0, content |-> NoContent]]
  /\ refused = {}

Send(p, r, m) ==
  /\ life[p] = "live" /\ call[p] = "none"
  /\ call' = [call EXCEPT ![p] = "send"]
  /\ box' = [box EXCEPT ![p] = [sender |-> p, receiver |-> r, content |-> m]]
  /\ refused' = refused \ {p}
  /\ UNCHANGED life

Recv(p) ==
  /\ life[p] = "live" /\ call[p] = "none"
  /\ call' = [call EXCEPT ![p] = "recv"]
  /\ refused' = refused \ {p}
  /\ UNCHANGED <<life, box>>

HandOver(p, r) ==
  /\ call[p] = "send" /\ call[r] = "recv"
  /\ box[p].receiver = r
  /\ call' = [call EXCEPT ![p] = "none", ![r] = "none"]
  /\ box' = [box EXCEPT ![r] = box[p]]
  /\ UNCHANGED <<life, refused>>

Refuse(p, r) ==
  /\ call[p] = "send"
  /\ box[p].receiver = r
  /\ life[r] # "live"
  /\ call' = [call EXCEPT ![p] = "none"]
  /\ refused' = refused \cup {p}
  /\ UNCHANGED <<life, box>>

(* A process begins to exist, in no call.                                  *)
Birth(p) ==
  /\ life[p] = "unborn"
  /\ life' = [life EXCEPT ![p] = "live"]
  /\ UNCHANGED <<call, box, refused>>

(* Processes are freed, with the calls they are in, and never come back.   *)
Free(S) ==
  /\ \A p \in S : life[p] = "live"
  /\ life' = [p \in Procs |-> IF p \in S THEN "freed" ELSE life[p]]
  /\ call' = [p \in Procs |-> IF p \in S THEN "none" ELSE call[p]]
  /\ UNCHANGED <<box, refused>>

RNext ==
  \/ \E p \in Procs :
       \/ \E r \in Procs, m \in Content : Send(p, r, m)
       \/ Recv(p)
       \/ \E r \in Procs : HandOver(p, r) \/ Refuse(p, r)
       \/ Birth(p)
  \/ \E S \in SUBSET Procs : Free(S)

RSpec == RInit /\ [][RNext]_rvars
=============================================================================

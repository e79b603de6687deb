------------------------------- MODULE MCCtrlC ------------------------------
(* Kernel with a history of the notice that intr_entry() prints on Ctrl+C, *)
(* "process %d killed by interrupt".                                       *)
EXTENDS Kernel

VARIABLE killed   \* pids of the processes reported as killed

KInit == Init /\ killed = {}

KNext ==
  \/ CtrlC /\ killed' = killed \cup {curr_pid}
  \/ Next /\ UNCHANGED killed

KSpec == KInit /\ [][KNext]_<<vars, killed>>

(* The comment at src/grass/kernel.c:62: "User process killed by ctrl+c    *)
(* interrupt".  A process reported as killed resumes at the call of exit() *)
(* of app.s, 0x800500C, and not in its own code.                           *)
KilledResumesInExit ==
  [][\A p \in killed' \ killed : cpu' = APPS_EXIT]_<<vars, killed>>
=============================================================================

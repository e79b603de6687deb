------------------------------ MODULE MCPaging ------------------------------
(***************************************************************************)
(* A small instance of Paging for TLC.  The view leaves out contents that  *)
(* are overwritten before anything reads them: those of unused frames, of  *)
(* frames of the mapped process until they are saved, of empty slots, and  *)
(* of user pages that are saved or not yet restored.                       *)
(***************************************************************************)
EXTENDS Paging

Unsaved == CASE sw.pc = "run"     -> FramesOf(curr_vm_pid)
             [] sw.pc = "save"    -> sw.todo
             [] sw.pc = "restore" -> {}
Backing(f) == IF platform # "ARTY" THEN pages[f]
              ELSE IF SlotsOf(f) # {} THEN pages[Min(SlotsOf(f))] ELSE sd[f]
LiveFrames == {f \in Frames : table[f].use} \ Unsaved
LivePages == CASE sw.pc = "run"  -> Pages
               [] sw.pc = "save" -> {table[f].page_no : f \in sw.todo}
               [] sw.pc = "restore" ->
                    {table[f].page_no : f \in FramesOf(sw.pid) \ sw.todo}
View == <<boot, table, cache_slots, [f \in LiveFrames |-> Backing(f)],
          [g \in LivePages |-> user[g]], curr_vm_pid, sw, ld, procs, fatal,
          history>>

(* Nothing is claimed of contents once load_app has lost its frame.        *)
NotStale == ~ stale

(* The first process and the last are of the size with a part of a page;   *)
(* those between are of any size.                                          *)
EndsPartial == ld.pid \in {GPID_PROCESS, MaxPid} => ld.size % PageBlocks # 0
=============================================================================

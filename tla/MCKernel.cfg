\* Three slots for four pids: GPID_PROCESS, the shell and applications.
CONSTANTS
  MAX_NPROCESS = 3
  GPID_SHELL = 2
  GPID_USER_START = 3
  MaxPid = 4
  Content = {m0}
  NoContent = m0
  Ctx = {entry, exit}
  APPS_ENTRY = entry
  APPS_EXIT = exit
SPECIFICATION Spec
INVARIANTS TypeOK UniquePids CurrentRuns NoMissedRendezvous SyscallIsPosted
PROPERTIES ImplementsRendezvous ContextsPreserved
VIEW LiveState

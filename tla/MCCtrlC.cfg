\* A shell and an application; main stands for the application's own code.
CONSTANTS
  MAX_NPROCESS = 3
  GPID_SHELL = 2
  GPID_USER_START = 3
  MaxPid = 3
  Content = {m0}
  NoContent = m0
  Ctx = {entry, main, exit}
  APPS_ENTRY = entry
  APPS_EXIT = exit
SPECIFICATION KSpec
PROPERTIES KilledResumesInExit

\* A background command asks a server, or exits, while that server waits for another.
CONSTANTS
  MAX_NPROCESS = 6
  GPID_SHELL = 4
  GPID_USER_START = 5
  MaxPid = 8
  Content <- MCContent
  NoContent <- MCNoContent
  Ctx <- MCCtx
  APPS_ENTRY = "entry"
  APPS_EXIT = "app_exit"
  LoadBlocks = 1
  Lines <- Overlap
  MaxLines = 3
  Patient = FALSE
SPECIFICATION SSpec
INVARIANTS RepliesFromServers

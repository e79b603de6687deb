\* killall while a command waits for a server.
CONSTANTS
  MAX_NPROCESS = 6
  GPID_SHELL = 4
  GPID_USER_START = 5
  MaxPid = 8
  Content <- MCContent
  NoContent <- MCNoContent
  Ctx <- MCCtx
  APPS_ENTRY = "entry"
  APPS_EXIT = "app_exit"
  LoadBlocks = 1
  Lines <- CatAndKillall
  MaxLines = 3
  Patient = TRUE
SPECIFICATION SSpec
INVARIANTS SomeoneRuns

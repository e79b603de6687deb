\* Commands that do not overlap, and killall.
CONSTANTS
  MAX_NPROCESS = 5
  GPID_SHELL = 4
  GPID_USER_START = 5
  MaxPid = 7
  Content <- MCContent
  NoContent <- MCNoContent
  Ctx <- MCCtx
  APPS_ENTRY = "entry"
  APPS_EXIT = "app_exit"
  LoadBlocks = 0
  Lines <- Apart
  MaxLines = 2
  Patient = TRUE
SPECIFICATION SSpec
INVARIANTS BootedInOrder NoFatal ShellAwaitsLiveCommand
PROPERTIES PromptReturns ExitedAreFreed

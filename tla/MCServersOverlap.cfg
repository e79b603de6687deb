\* Commands overlap: lines are typed while background commands still run.
CONSTANTS
  MAX_NPROCESS = 6
  GPID_SHELL = 4
  GPID_USER_START = 5
  MaxPid = 7
  Content <- MCContent
  NoContent <- MCNoContent
  Ctx <- MCCtx
  APPS_ENTRY = "entry"
  APPS_EXIT = "app_exit"
  LoadBlocks = 1
  Lines <- OddAndOverlap
  MaxLines = 2
  Patient = FALSE
SPECIFICATION SSpec
INVARIANTS RepliesMatch PathIsWorkdir OnlyOddNamesTrap OnlyInterlopersAreFatal
CONSTRAINT PagelessNeverRuns
VIEW LiveState

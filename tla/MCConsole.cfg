CONSTANTS
  Half = 4
  QUANTUM = 2
  MaxTime = 5
  Letters = {"a"}
  LEN = 5
  CMD_NARGS = 2
  CMD_ARG_LEN = 3
  UINT = 16
  MaxTyped = 5
  FifoSize = 2
SPECIFICATION Spec
INVARIANTS TypeOK LineIsWhatWasTyped CancelledNeverRuns
  ParsesWords TimeIsReal NoEarlyDeadline SliceIsShort

\* An application is loaded while others run and the cache is full.
CONSTANTS
  PageBlocks = 2
  CodePages = 1
  Sizes = {1}
  NPageTables = 1
  MAX_NPROCESS = 3
  NFRAMES = 10
  ARTY_CACHED_NFRAMES = 4
  MaxTablePid = 4
  GPID_USER_START = 2
  MaxPid = 3
  MaxStores = 0
SPECIFICATION Spec
INVARIANTS PagesIntact
CHECK_DEADLOCK FALSE

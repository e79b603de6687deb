\* Three processes of four pages at a time, two cache slots on Arty.
CONSTANTS
  PageBlocks = 2
  CodePages = 2
  Sizes = {2, 3}
  NPageTables = 1
  MAX_NPROCESS = 3
  NFRAMES = 13
  ARTY_CACHED_NFRAMES = 2
  MaxTablePid = 4
  GPID_USER_START = 2
  MaxPid = 4
  MaxStores = 1
SPECIFICATION Spec
INVARIANTS TypeOK IntactUnlessStale CacheExact FramesSuffice EvictsOnlyFrames
PROPERTIES LoadsImage
CONSTRAINTS NotStale EndsPartial
VIEW View
CHECK_DEADLOCK FALSE

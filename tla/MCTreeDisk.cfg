SPECIFICATION FairSpec
CONSTANTS
  NBlocks = 9
  RefsPerBlock = 2
  InodesPerBlock = 2
  NInodes = 2
  MaxOffset = 3
  MaxLevels = 2
  Cap <- MCCap
  d0 = d0
  d1 = d1
  Data <- TwoData
  NullData = NullData
  PagingBlocks = 2
  GRASS_NEXEC = 3
  GRASS_EXEC_SEGMENT = 2
  NKERNEL_PROC = 2
INVARIANTS TypeOK EveryBlockOnce ReadsBack ImageIsFound FullWhenFull
PROPERTIES CallsReturn
CHECK_DEADLOCK FALSE

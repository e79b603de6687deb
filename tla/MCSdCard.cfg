CONSTANTS
  BLOCK_SIZE = 2
  Blocks = 3
  Data <- MCData
  Tries = 4
  MaxWait = 2
SPECIFICATION Spec
INVARIANTS TypeOK CommandsMeetIdleCard OnlyFaultsAreFatal
PROPERTIES RequestsReturn ImplementsBlockDevice

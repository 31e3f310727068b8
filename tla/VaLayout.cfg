\* ASLR on: candidates below and above the middle of the VA space, one
\* that is NULL, one that collides with the identity map, one that does
\* not fit.
CONSTANTS
  Layouts <- MCLayouts
  TeeRamTypes <- MCTeeRamTypes
  NexSharedTypes <- MCNexSharedTypes
  IdMapType <- MEM_AREA_IDENTITY_MAP_RX
  PgdirSize = 4
  VaSpace = 64
  StartAddr = 8
  InitialOffs = 0
  IdMapStart = 9
  IdMapEnd = 10
  AslrBases = {0, 8, 24, 36, 44, 60}
  AslrEnabled = TRUE
SPECIFICATION Spec
\* init_mem_map() returns, or panics, after at most five steps.
CHECK_DEADLOCK FALSE
INVARIANT TypeOK
INVARIANT VaDisjoint
INVARIANT VaInSpace
INVARIANT TeeRamAtOffset
INVARIANT LargeRegionsPgdirCongruent

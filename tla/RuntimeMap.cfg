\* One reader core, three mutator calls, reserved space for two 2-page
\* mappings, room for two more entries in the array.
CONSTANTS
  Cores = {c1}
  ResType <- MEM_AREA_RES_VASPACE
  AddTypes <- MCAddTypes
  InitMap <- MCInitMapWide
  AllocCount = 4
  Granule = 2
  TblBase = 0
  TblEntries = 5
  PAs = {3, 5, 6}
  Lens = {0, 1, 2}
  VAs = {2, 3, 4, 5, 6, 7, 8, 9}
  MaxOps = 3
  MaxLookups = 1
SPECIFICATION Spec
\* Mutator and lookup calls are bounded, so the system stops.
CHECK_DEADLOCK FALSE
INVARIANT TypeOK
INVARIANT TableMatchesMap
INVARIANT VaDisjointWhenIdle
INVARIANT AddReturnsTranslation


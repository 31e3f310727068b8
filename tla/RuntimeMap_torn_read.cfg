\* Bounds of RuntimeMap.cfg with a static TEE RAM region; checks one property.
CONSTANTS
  Cores = {c1}
  ResType <- MEM_AREA_RES_VASPACE
  AddTypes <- MCAddTypes
  InitMap <- MCInitMapTeeRam
  AllocCount = 4
  Granule = 2
  TblBase = 0
  TblEntries = 5
  PAs = {3, 5, 6}
  Lens = {0, 1, 2}
  VAs = {2, 3, 4, 5, 6, 7}
  MaxOps = 3
  MaxLookups = 2
SPECIFICATION Spec
\* Mutator and lookup calls are bounded, so the system stops.
CHECK_DEADLOCK FALSE
INVARIANT LookupSeesPreOrPost

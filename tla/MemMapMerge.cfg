\* Any order of up to 4 platform ranges of two types over pages 0..5:
\* enough for a range to span two earlier ranges of its type and for the
\* array (capacity 2) to be regrown twice.
CONSTANTS
  PhysTypes <- MCPhysTypes
  VaSpaceTypes <- MCVaSpaceTypes
  PAs = {0, 1, 2, 3, 4, 5}
  Sizes = {0, 1, 2, 3}
  VaSpaceSize = 2
  InitAllocCount = 2
  MaxAdds = 4
SPECIFICATION Spec
\* collect_mem_ranges() returns after its last add_va_space() call.
CHECK_DEADLOCK FALSE
INVARIANT TypeOK
INVARIANT SortedByTypeAndPa
INVARIANT CoverageExact

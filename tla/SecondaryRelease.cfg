\* Three cores (core 0 is the primary), two entry addresses, three calls of
\* the normal world: enough for a release, a repeated release and an entry
\* set before the release of the same core.
CONSTANTS
  NbCore = 3
  Entries = {1, 2}
  MaxCalls = 3
SPECIFICATION Spec
INVARIANT TypeOK
INVARIANT EntryIsReleased
PROPERTY ReleasedCoreBoots
\* A core the normal world never releases sleeps in wfe for good, and the
\* normal world may stop calling: the system may stop.
CHECK_DEADLOCK FALSE

\* Two cores, a four-page pool, descriptors whose buffer holds the shared
\* page count and fragments that fit their buffer.
CONSTANTS
  Cores = {c1, c2}
  PoolPages = 4
  PageUnits = 2
  RangeUnits = 1
  ShareReqs <- MCReqs
  FragLens = {1, 2}
  RangePageCounts = {1, 2}
  RxTxPages = {1}
  OobHdrs = {0, 2}
  Versions <- MCVersions
  Lsps <- MCLsps
  NilUuid = "nil"
  UuidArgs = {"nil", "optee", "other"}
  MaxCalls = 4
SPECIFICATION Spec
\* The normal world makes a bounded number of calls, so the system stops.
CHECK_DEADLOCK FALSE
INVARIANT TypeOK
 
INVARIANT FragBufferLive
INVARIANT ShareAccounting
INVARIANT CompleteShareOnly
INVARIANT FragOffsetTracksRanges
INVARIANT PoolNoLeak

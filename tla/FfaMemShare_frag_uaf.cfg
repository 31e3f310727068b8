\* A fragmented share in a one-page buffer and an FFA_MEM_FRAG_TX whose
\* frag_len exceeds that buffer.
CONSTANTS
  Cores = {c1}
  PoolPages = 4
  PageUnits = 2
  RangeUnits = 1
  ShareReqs <- MCReqsSmall
  FragLens = {1, 3}
  RangePageCounts = {1}
  RxTxPages = {1}
  OobHdrs = {0}
  Versions <- MCVersions
  Lsps <- MCLsps
  NilUuid = "nil"
  UuidArgs = {"nil", "optee", "other"}
  MaxCalls = 3
SPECIFICATION Spec
CHECK_DEADLOCK FALSE
INVARIANT FragBufferLive

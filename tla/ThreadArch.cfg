\* Two harts, so a thread suspended on one is resumed on the other; two
\* threads, so one can run while the other is suspended and an allocation
\* can find none free; two argument values, so a copy that should not
\* happen changes a0; four calls of the normal world, enough for a start,
\* an RPC return and a foreign-interrupt return of one thread.  The run
\* stops when the calls are used up.
CONSTANTS
  h1 = h1
  h2 = h2
  tpUser = tpUser
  Harts <- MCHarts
  UserTp <- tpUser
  NumThreads = 2
  Args = {1, 2}
  MaxCalls = 4
SYMMETRY HartSymmetry
SPECIFICATION Spec
CHECK_DEADLOCK FALSE
INVARIANT TypeOK ThreadExclusive ResumeArgs TpIsOwnHart UserMapIsOwn

\* VM 0 and an unknown VM, two notification bits, bottom-half values up
\* to and including the first invalid one, six calls.
CONSTANTS
  VmIds = {0, 1}
  Bits = {0, 1}
  MaxAsyncValue = 2
  Values = {0, 1, 2}
  MaxCalls = 6
SPECIFICATION Spec
\* The calls are bounded, so the system stops.
CHECK_DEADLOCK FALSE
INVARIANT TypeOK
INVARIANT NoLostNotification

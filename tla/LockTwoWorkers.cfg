SPECIFICATION PunctualSpec
CONSTANTS
  i1 = i1  i2 = i2  i3 = i3
  Instances = {i1, i2}
  LockTtlSeconds = 3
  LockRenewSeconds = 1
  MaxRetries = 3
  InitialBackoff = 2
  MaxBackoff = 4
INVARIANTS
  OneWorker
CHECK_DEADLOCK FALSE

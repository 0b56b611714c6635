SPECIFICATION FairSpec
CONSTANTS
  i1 = i1  i2 = i2  i3 = i3
  Instances = {i1, i2, i3}
  LockTtlSeconds = 5
  LockRenewSeconds = 7
  MaxRetries = 3
  InitialBackoff = 2
  MaxBackoff = 4
INVARIANTS
  OneWorkerWhileCalm
PROPERTIES
  AbandonedExpires
  TakeOver
CHECK_DEADLOCK FALSE

SPECIFICATION ControlSpec
CONSTANTS
  Requests = {r1, r2, r3, r4}
  Functions = {f1}
  Keys = {k1}
  None = None
  MaxVersion = 2
  capacity = 3
  period_ms = 4
  Second = 2
  MaxTime = 10
SYMMETRY RequestSymmetry
INVARIANTS
  ApiInvariant
  VersionsContiguous
  PackageIsOwnOrOverwritten
  CreatedIsRecorded
  OneInvocationPerKey
  RunsDeployedVersion
  LimiterInvariant
  GrantBound
  RetryAfterIsTight
PROPERTIES
  ImplementsBucket
CHECK_DEADLOCK FALSE

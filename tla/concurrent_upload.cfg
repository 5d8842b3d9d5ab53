SPECIFICATION RegistrySpec
CONSTANTS
  Requests = {r1, r2, r3}
  Functions = {f1}
  None = None
  MaxVersion = 2
INVARIANT
  PackageMatchesHash
CHECK_DEADLOCK FALSE

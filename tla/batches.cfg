SPECIFICATION Spec
CONSTANTS
  Invocation = {i1, i2}
  Worker = {w1, w2}
  NoWorker = NoWorker
  DispatcherId = {d1}
  MaxAttempts = 1
  AttemptBound = 1
  RefreshesAttempt = FALSE
  MaxMessages = 3
  BatchSize = 2
  MaxConcurrency = 2
  PendingMessageClaimCount = 1
  FaultKinds = {"crash", "publish"}
  MaxFaults = 2
SYMMETRY WorkerInvocationSymmetry
INVARIANTS
  OfflineMeansRecovered
  BoundedConcurrency
  NothingStranded
  RunningIsOwned
CHECK_DEADLOCK FALSE

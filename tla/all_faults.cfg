SPECIFICATION Spec
CONSTANTS
  Invocation = {i1}
  Worker = {w1, w2}
  NoWorker = NoWorker
  DispatcherId = {d1}
  MaxAttempts = 2
  AttemptBound = 3
  RefreshesAttempt = FALSE
  MaxMessages = 4
  BatchSize = 2
  MaxConcurrency = 1
  PendingMessageClaimCount = 10
  FaultKinds = {"crash", "stop", "call", "heartbeat", "stall", "publish", "dispatcher"}
  MaxFaults = 1
SYMMETRY WorkerSymmetry
INVARIANTS
  AttemptLedger
  NoFutureTask
  PublishedIsInStream
  LedgerInvariant

SPECIFICATION Spec
CONSTANTS
  Invocation = {i1}
  Worker = {w1, w2, w3}
  NoWorker = NoWorker
  DispatcherId = {d1}
  MaxAttempts = 2
  AttemptBound = 2
  RefreshesAttempt = FALSE
  MaxMessages = 2
  BatchSize = 2
  MaxConcurrency = 1
  PendingMessageClaimCount = 10
  FaultKinds = {"crash"}
  MaxFaults = 2
SYMMETRY WorkerSymmetry
INVARIANTS
  NothingForgotten

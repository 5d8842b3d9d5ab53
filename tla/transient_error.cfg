SPECIFICATION FairSpec
CONSTANTS
  Invocation = {i1}
  Worker = {w1, w2}
  NoWorker = NoWorker
  DispatcherId = {d1}
  MaxAttempts = 2
  AttemptBound = 2
  RefreshesAttempt = FALSE
  MaxMessages = 3
  BatchSize = 2
  MaxConcurrency = 1
  PendingMessageClaimCount = 10
  FaultKinds = {"call"}
  MaxFaults = 1
PROPERTIES
  EveryInvocationEnds

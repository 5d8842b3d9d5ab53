SPECIFICATION Spec
CONSTANTS
  Task = {t1, t2}
  Peer = {p1, p2}
  stale_after = 1
  Invocation = {i1, i2}
  MaxAttempts = 2
  MaxDuration = 1
  NoValue = NoValue
INVARIANTS
  IdleRowIsEmpty
  StoppedIsOffline
  SummaryHangsTogether
  CountersNeverFall
  PercentilesAreNearestRank
PROPERTIES
  SlowWorkerComesBack
  LostWorkerIsShown

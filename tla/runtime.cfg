SPECIFICATION FairSpec
CONSTANTS
  max_attempts = 2
  ReportedErrors = {"ValueError", "RuntimeError", "FileNotFoundError"}
  None = None
  MaxFaults = 2
INVARIANTS
  LeaksAreAccountedFor
  TimeoutStopsProgram
  ServedOutputIsOwn
  OutcomeIsFaithful
  RerunHasCause
PROPERTIES
  ExecutionEnds
CHECK_DEADLOCK FALSE

SPECIFICATION Spec
CONSTANTS
  max_attempts = 2
  ReportedErrors = {"ValueError", "RuntimeError", "FileNotFoundError"}
  None = None
  MaxFaults = 0
INVARIANTS
  UserErrorsAreNotRetried
CHECK_DEADLOCK FALSE

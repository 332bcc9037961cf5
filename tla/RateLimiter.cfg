SPECIFICATION Spec
CONSTANTS
  Handlers = {h1, h2}
  Limits = {0, 2}
  Minute = 2
  None = None
  MaxTime = 5
  MaxRequests = 5
  MaxFaults = 1
SYMMETRY Symmetry
CHECK_DEADLOCK FALSE
INVARIANT AdmittedPerMinute
INVARIANT RefusedForItsOwnMinute

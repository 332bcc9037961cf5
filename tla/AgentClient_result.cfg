SPECIFICATION Spec
CONSTANTS
  None = None
  Candidates <- MCCandidates
CHECK_DEADLOCK FALSE
INVARIANT StoredOutcomeIsTheResult

SPECIFICATION FairSpec
CONSTANTS
  None = None
  Candidates <- MCCandidates
CHECK_DEADLOCK FALSE
INVARIANT StoredReportIsTrue
INVARIANT BilledAgainOnlyAfterLostAnswer
INVARIANT ChargedOncePerAnswer
INVARIANT ChargeMatchesOutcome
PROPERTY DecisionCloses

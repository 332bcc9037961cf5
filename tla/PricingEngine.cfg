SPECIFICATION Spec
CONSTANTS
  None = None
  Catalog <- MCCatalog
  Requests <- MCRequests
  Policies <- MCPolicies
  SignalMaps <- MCSignalMaps
  Baseline <- MCBaseline
  FreshnessLimit = 90
CHECK_DEADLOCK FALSE
INVARIANT NoModelVanishes
INVARIANT BestAreKept
INVARIANT LooserLimitsKeepModels
INVARIANT ReasonIsDecisive
INVARIANT BadNewsNeverHelps
INVARIANT ReportedCostWithinBudget

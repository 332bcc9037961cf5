SPECIFICATION Spec
CONSTANTS
  None = None
  Targets <- MCTargets
  ResultsOf <- MCResultsOf
  Interval = 2
  MaxProbe = 1
  Ttl = 8
  Freshness = 4
  MaxRounds = 4
  MaxFaults = 2
CHECK_DEADLOCK FALSE
INVARIANT SignalsStayFresh
INVARIANT SmoothedWithinSeen
INVARIANT RecoveryIsGeometric

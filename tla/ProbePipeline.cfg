SPECIFICATION FairSpec
CONSTANTS
  m1 = m1
  m2 = m2
  Models = {m1, m2}
  Targets <- TwoTargets
  None = None
  BatchSize = 2
  MaxRounds = 2
  MaxFaults = 2
  MaxRestarts = 1
INVARIANT RowsPerEvent
INVARIANT LossIsBounded
INVARIANT EventsFollowSignals
PROPERTY EventsRecorded

SPECIFICATION FairSpec
CONSTANTS
  h1 = h1
  h2 = h2
  d1 = d1
  d2 = d2
  Handlers = {h1, h2}
  DecisionIds = {d1, d2}
  Principals <- SharedQuota
  RequestIds = {r1}
  Keys = {k1}
  EmptyKey = EmptyKey
  None = None
  Amounts = {0}
  MaxFaults = 0
PROPERTY SlotFreed

SPECIFICATION Spec
CONSTANTS
  h1 = h1
  h2 = h2
  d1 = d1
  d2 = d2
  Handlers = {h1, h2}
  DecisionIds = {d1, d2}
  Principals <- SharedQuota
  RequestIds = {r1}
  Keys = {k1}
  EmptyKey = EmptyKey
  None = None
  Amounts = {1}
  MaxFaults = 1
SYMMETRY Symmetry
INVARIANT TypeOK
INVARIANT IdempotentReplies
INVARIANT EffectsAccounted
INVARIANT SlotsAccounted
PROPERTY OpenDecisionKeepsSlot

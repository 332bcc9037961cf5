SPECIFICATION BudgetSpec
CONSTANTS
  h1 = h1
  h2 = h2
  d1 = d1
  d2 = d2
  d3 = d3
  Handlers = {h1, h2}
  DecisionIds = {d1, d2, d3}
  Principals <- OneCredential
  RequestIds = {r1}
  Keys = {}
  EmptyKey = EmptyKey
  None = None
  Amounts = {1}
  MaxFaults = 1
SYMMETRY Symmetry
INVARIANT OverspendIsBounded
INVARIANT AdmittedWithinLimit

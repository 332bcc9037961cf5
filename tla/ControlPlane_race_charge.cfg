SPECIFICATION Spec
CONSTANTS
  h1 = h1
  h2 = h2
  d1 = d1
  d2 = d2
  Handlers = {h1, h2}
  DecisionIds = {d1}
  Principals <- OneCredential
  RequestIds = {r1}
  Keys = {k1}
  EmptyKey = EmptyKey
  None = None
  Amounts = {1}
  MaxFaults = 0
SYMMETRY Symmetry
INVARIANT ChargedAtMostOnce

SPECIFICATION SerialSpec
CONSTANTS
  h1 = h1
  h2 = h2
  d1 = d1
  d2 = d2
  Handlers = {h1, h2}
  DecisionIds = {d1}
  Principals <- TwoEnvironments
  RequestIds = {r1, r2}
  Keys = {k1}
  EmptyKey = EmptyKey
  None = None
  Amounts = {1}
  MaxFaults = 2
SYMMETRY Symmetry
INVARIANT ChargedAtMostOnce
INVARIANT AttemptsMatchOutcome
PROPERTY OutcomeWrittenOnce
PROPERTY ImplementsLedger

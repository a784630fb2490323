\* A client leaves while its request leads a refresh.
SPECIFICATION Spec
CONSTANTS
  r1 = r1  r2 = r2  m1 = m1  m2 = m2  ticker = ticker
  Reqs = {r1}
  Models = {m1, m2}
  N = 1
  Ticker = ticker
  HasTicker = FALSE
  MayCancel = TRUE
INVARIANT
  HealthyStaysListed

\* Two requests and the ticker, one model at two providers; clients leave.
SPECIFICATION FairSpec
CONSTANTS
  r1 = r1  r2 = r2  m1 = m1  m2 = m2  ticker = ticker
  Reqs = {r1, r2}
  Models = {m1}
  N = 2
  Ticker = ticker
  HasTicker = TRUE
  MayCancel = TRUE
CHECK_DEADLOCK FALSE
INVARIANTS
  OneFlight
  HealthyKept
  LeaderMissHonest
PROPERTY
  LookupAnswered
